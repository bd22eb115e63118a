SPECIFICATION FairSpec
CONSTANTS
  olga = olga
  mia = mia
  noah = noah
  o1 = o1
  o2 = o2
  m1 = m1
  n1 = n1
  User <- MCUser
  Session <- MCSession
  UserOf <- MCUserOf
  FirstOwner = olga
  Heir = {noah}
  Losing = {o1, n1}
  Watched <- MCWatched
  NoKey = NoKey
  Faults <- MCFaults
  MaxAttempts = 2

  
PROPERTY KeyArrives
CHECK_DEADLOCK FALSE
