SPECIFICATION Spec
CONSTANTS
  ann = ann
  ben = ben
  d1 = d1
  d2 = d2
  None = None
  Account = {ann, ben}
  Device = {d1, d2}
  Profiles <- SignInWorlds
  toRoom = toRoom
  toInvite = toInvite
  DeepLink = {toRoom, toInvite}
  JoinLink = {toRoom}
  NoLink = NoLink
  ShellProfiles <- MCShellProfiles
  MaxLaunch = 2
  MaxFault = 1
INVARIANTS
  OwnKeyOnly
  SignInIsWhole
  LinksActOnce
PROPERTIES
  KeysAreKept
  ScreensMoveOn
  StartsUp
CHECK_DEADLOCK FALSE
