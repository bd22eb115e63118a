------------------------------ MODULE CallProofs ------------------------------
(***************************************************************************)
(* Proofs about a call.                                                    *)
(*                                                                         *)
(* Of its key protocol (RoomE2EE), for any number of users, sessions and   *)
(* attempts, whether publishing is reliable and metadata can be set or     *)
(* not: its state is well formed, every key was drawn by an owner's        *)
(* session, and a member keeps asking.                                     *)
(*                                                                         *)
(* Of its media (Call), for any number of rooms, screens, runs of the join *)
(* effect and reopenings of the microphone, and every profile: its state   *)
(* is well formed, every join starts muted, a live microphone is heard,    *)
(* and, of one screen, a share that failed leaves nothing running.         *)
(***************************************************************************)
EXTENDS RoomE2EE, Call, WellFoundedInduction, TLAPS

-----------------------------------------------------------------------------
(* The strengthening: who is to be offered a key is so by a holder, and a  *)
(* session is an owner's only once it has asked; so a key on its way was   *)
(* drawn by an owner's session too.                                        *)

WelcomersHold == \A w \in welcome : HasKey(w[1])

OffersComeFromOwners == \A m \in net : m.kind = "key-offer" => isOwner[m.key]

OwnersStarted == \A s \in Session : isOwner[s] => phase[s] \notin {"new", "connected"}

KeyInv ==
  TypeOK /\ WelcomersHold /\ OwnersStarted /\ OffersComeFromOwners /\ KeysComeFromOwners

-----------------------------------------------------------------------------

LEMMA NextCases ==
  ASSUME [Next]_vars
  PROVE  \/ \E u \in Heir : Transfer(u)
         \/ \E s \in Session : Join(s)
         \/ \E s \in Session : Start(s)
         \/ \E s \in Session : Leave(s)
         \/ \E s \in Session : LeaveEarly(s)
         \/ \E s \in Session : Cut(s)
         \/ \E s \in Session : SendKeyRequest(s)
         \/ \E s \in Session : RequestSent(s)
         \/ \E s \in Session : RequestFailed(s)
         \/ \E s \in Session, h \in Session : OfferKeyTo(h, s)
         \/ \E m \in net : HandleKeyRequest(m)
         \/ \E m \in net : HandleKeyOffer(m)
         \/ UNCHANGED vars
  BY DEF Next

\* An offer carries the key of whoever makes it.
LEMMA OfferType ==
  ASSUME TypeOK, NEW h \in Session, NEW s \in Session, HasKey(h)
  PROVE  /\ Offer(h, s) \in Message
         /\ Offer(h, s).kind = "key-offer" /\ Offer(h, s).key = roomKey[h]
  BY DEF TypeOK, Offer, Message, HasKey, Key

\* A request in an offer's place would have no key: the kinds tell them apart.
LEMMA MessageType ==
  ASSUME TypeOK, NEW m \in net
  PROVE  /\ m.from \in Session /\ m.to \in Session
         /\ m.kind = "key-offer" => m.key \in Session
  BY DEF TypeOK, Message

LEMMA KeyInit == Init => KeyInv
<1> SUFFICES ASSUME Init PROVE KeyInv
  OBVIOUS
<1>1. TypeOK
  BY SessionAssumption DEF Init, TypeOK, Key
<1> QED
  BY <1>1 DEF Init, KeyInv, WelcomersHold, OwnersStarted, OffersComeFromOwners,
              KeysComeFromOwners, HasKey

LEMMA KeyStep == KeyInv /\ [Next]_vars => KeyInv'
<1> SUFFICES ASSUME KeyInv, [Next]_vars PROVE KeyInv'
  OBVIOUS
<1> USE SessionAssumption DEF KeyInv
\* The parts other than the types, where only the following may change.
<1> DEFINE Parts == WelcomersHold /\ OwnersStarted /\ OffersComeFromOwners /\ KeysComeFromOwners
<1>1. ASSUME NEW u \in Heir, Transfer(u) PROVE KeyInv'
  <2>1. TypeOK'
    BY <1>1 DEF Transfer, TypeOK, session, asking
  <2>2. Parts'
    BY <1>1 DEF Transfer, session, WelcomersHold, OwnersStarted, OffersComeFromOwners,
                KeysComeFromOwners, HasKey
  <2> QED BY <2>1, <2>2
<1>2. ASSUME NEW s \in Session, Join(s) PROVE KeyInv'
  <2>1. TypeOK'
    BY <1>2 DEF Join, TypeOK, asking, Welcomes
  <2>2. WelcomersHold'
    BY <1>2 DEF Join, WelcomersHold, HasKey, Welcomes
  <2>3. OwnersStarted'
    BY <1>2 DEF Join, OwnersStarted, TypeOK
  <2>4. OffersComeFromOwners' /\ KeysComeFromOwners'
    BY <1>2 DEF Join, OffersComeFromOwners, KeysComeFromOwners, HasKey
  <2> QED BY <2>1, <2>2, <2>3, <2>4
<1>3. ASSUME NEW s \in Session, Start(s) PROVE KeyInv'
  <2>0. ~isOwner[s]
    BY <1>3 DEF Start, OwnersStarted
  <2>1. TypeOK'
    <3>1. (UserOf[s] = owner) \in BOOLEAN /\ s \in Key
      BY DEF Key
    <3>2. isOwner' \in [Session -> BOOLEAN]
      BY <1>3 DEF Start, TypeOK
    <3>3. roomKey' \in [Session -> Key] /\ timer' \in [Session -> BOOLEAN]
      <4>1. CASE UserOf[s] = owner
        BY <1>3, <3>1, <4>1 DEF Start, TypeOK
      <4>2. CASE UserOf[s] # owner
        <5>1. roomKey' = roomKey /\ timer' = [timer EXCEPT ![s] = TRUE]
          BY <1>3, <4>2 DEF Start
        <5> QED BY <5>1 DEF TypeOK
      <4> QED BY <4>1, <4>2
    <3> QED BY <1>3, <3>2, <3>3 DEF Start, TypeOK
  <2>2. \A x \in Session : isOwner[x] => isOwner'[x]
    BY <1>3, <2>0 DEF Start, TypeOK
  <2>3. WelcomersHold'
    BY <1>3 DEF Start, WelcomersHold, HasKey, TypeOK
  <2>4. OwnersStarted'
    BY <1>3 DEF Start, OwnersStarted, TypeOK
  <2>5. OffersComeFromOwners'
    BY <1>3, <2>2, MessageType DEF Start, OffersComeFromOwners
  <2>6. KeysComeFromOwners'
    <3> SUFFICES ASSUME NEW x \in Session, HasKey(x)' PROVE isOwner'[roomKey'[x]]
      BY DEF KeysComeFromOwners
    <3>1. CASE roomKey'[x] = roomKey[x]
      <4>1. HasKey(x) /\ roomKey[x] \in Session
        BY <3>1 DEF HasKey, TypeOK, Key
      <4> QED BY <2>2, <3>1, <4>1 DEF KeysComeFromOwners
    <3>2. CASE roomKey'[x] # roomKey[x]
      <4>1. x = s /\ UserOf[s] = owner /\ roomKey'[s] = s
        BY <1>3, <3>2 DEF Start, TypeOK
      <4>2. isOwner'[s]
        BY Zenon, <1>3, <4>1 DEF Start, TypeOK
      <4> QED BY <4>1, <4>2
    <3> QED BY <3>1, <3>2
  <2> QED BY <2>1, <2>3, <2>4, <2>5, <2>6
<1>4. ASSUME NEW s \in Session, Leave(s) PROVE KeyInv'
  <2>1. TypeOK'
    BY <1>4 DEF Leave, Forget, TypeOK
  <2>2. Parts'
    BY <1>4 DEF Leave, Forget, WelcomersHold, OwnersStarted, OffersComeFromOwners,
                KeysComeFromOwners, HasKey, TypeOK
  <2> QED BY <2>1, <2>2
<1>5. ASSUME NEW s \in Session, LeaveEarly(s) PROVE KeyInv'
  <2>1. TypeOK'
    BY <1>5 DEF LeaveEarly, Forget, TypeOK, asking
  <2>2. Parts'
    BY <1>5 DEF LeaveEarly, Forget, WelcomersHold, OwnersStarted, OffersComeFromOwners,
                KeysComeFromOwners, HasKey, TypeOK
  <2> QED BY <2>1, <2>2
<1>6. ASSUME NEW s \in Session, Cut(s) PROVE KeyInv'
  <2>1. TypeOK'
    BY <1>6 DEF Cut, Forget, TypeOK, asking
  <2>2. Parts'
    BY <1>6 DEF Cut, Forget, WelcomersHold, OwnersStarted, OffersComeFromOwners,
                KeysComeFromOwners, HasKey, TypeOK
  <2> QED BY <2>1, <2>2
<1>7. ASSUME NEW s \in Session, SendKeyRequest(s) PROVE KeyInv'
  <2> DEFINE requests == {[kind |-> "key-request", from |-> s, to |-> o] :
                            o \in {o \in Session \ {s} : InCall(o)}}
  <2>1. requests \subseteq Message /\ \A m \in requests : m.kind = "key-request"
    BY DEF Message
  <2>2. net' \subseteq net \cup requests
    BY <1>7 DEF SendKeyRequest
  <2> HIDE DEF requests
  <2>3. TypeOK'
    <3>1. attempts' \in [Session -> 0 .. MaxAttempts]
      BY <1>7 DEF SendKeyRequest, TypeOK
    <3>2. timer' \in [Session -> BOOLEAN] /\ sending' \in [Session -> BOOLEAN]
      BY <1>7 DEF SendKeyRequest, TypeOK
    <3>3. net' \subseteq Message
      BY <2>1, <2>2 DEF TypeOK
    <3> QED BY <1>7, <3>1, <3>2, <3>3 DEF SendKeyRequest, TypeOK, session
  <2>4. Parts'
    BY <1>7, <2>1, <2>2 DEF SendKeyRequest, session, WelcomersHold, OwnersStarted,
                            OffersComeFromOwners, KeysComeFromOwners, HasKey
  <2> QED BY <2>3, <2>4
<1>8. ASSUME NEW s \in Session, RequestSent(s) \/ RequestFailed(s) PROVE KeyInv'
  <2>1. TypeOK'
    BY <1>8 DEF RequestSent, RequestFailed, TypeOK, session
  <2>2. Parts'
    BY <1>8 DEF RequestSent, RequestFailed, session, WelcomersHold, OwnersStarted,
                OffersComeFromOwners, KeysComeFromOwners, HasKey
  <2> QED BY <2>1, <2>2
<1>9. ASSUME NEW s \in Session, NEW h \in Session, OfferKeyTo(h, s) PROVE KeyInv'
  <2>1. HasKey(h)
    BY <1>9 DEF OfferKeyTo, WelcomersHold
  <2>2. net' \subseteq net \cup {Offer(h, s)} /\ welcome' \subseteq welcome
    BY <1>9 DEF OfferKeyTo
  <2>3. TypeOK'
    BY <1>9, <2>1, <2>2, OfferType DEF OfferKeyTo, TypeOK, session, asking
  <2>4. Parts'
    BY <1>9, <2>1, <2>2, OfferType
    DEF OfferKeyTo, session, WelcomersHold, OwnersStarted, OffersComeFromOwners,
        KeysComeFromOwners, HasKey
  <2> QED BY <2>3, <2>4
<1>10. ASSUME NEW m \in net, HandleKeyRequest(m) PROVE KeyInv'
  <2>1. m.from \in Session /\ m.to \in Session
    BY MessageType
  <2>2. net' \subseteq net \/ (HasKey(m.to) /\ net' \subseteq net \cup {Offer(m.to, m.from)})
    BY <1>10 DEF HandleKeyRequest
  <2>3. TypeOK'
    BY <1>10, <2>1, <2>2, OfferType DEF HandleKeyRequest, TypeOK, session, asking
  <2>4. Parts'
    BY <1>10, <2>1, <2>2, OfferType
    DEF HandleKeyRequest, session, WelcomersHold, OwnersStarted, OffersComeFromOwners,
        KeysComeFromOwners, HasKey
  <2> QED BY <2>3, <2>4
<1>11. ASSUME NEW m \in net, HandleKeyOffer(m) PROVE KeyInv'
  <2>1. m.to \in Session /\ m.key \in Session /\ isOwner[m.key]
    BY <1>11, MessageType DEF HandleKeyOffer, OffersComeFromOwners
  <2>2. TypeOK'
    <3>1. m.key \in Key
      BY <2>1 DEF Key
    <3>2. roomKey' \in [Session -> Key] /\ timer' \in [Session -> BOOLEAN]
      BY <1>11, <2>1, <3>1 DEF HandleKeyOffer, TypeOK
    <3>3. net' \subseteq Message
      BY <1>11 DEF HandleKeyOffer, TypeOK
    <3> QED BY <1>11, <3>2, <3>3 DEF HandleKeyOffer, TypeOK, session
  <2>3. WelcomersHold' /\ OwnersStarted' /\ OffersComeFromOwners'
    BY <1>11, <2>1 DEF HandleKeyOffer, TypeOK, session, WelcomersHold, OwnersStarted,
                       OffersComeFromOwners, HasKey
  <2>4. KeysComeFromOwners'
    BY <1>11, <2>1 DEF HandleKeyOffer, TypeOK, session, KeysComeFromOwners, HasKey
  <2> QED BY <2>2, <2>3, <2>4
<1>12. ASSUME UNCHANGED vars PROVE KeyInv'
  BY <1>12 DEF vars, session, asking, TypeOK, WelcomersHold, OwnersStarted,
               OffersComeFromOwners, KeysComeFromOwners, HasKey
<1> QED
  BY NextCases, <1>1, <1>2, <1>3, <1>4, <1>5, <1>6, <1>7, <1>8, <1>9, <1>10, <1>11, <1>12

\* The state of the protocol always has the types of TypeOK: the attempts
\* never exceed KEY_REQUEST_MAX_ATTEMPTS.
THEOREM TypeCorrect == Spec => []TypeOK
<1>1. KeyInv => TypeOK
  BY DEF KeyInv
<1> QED BY <1>1, KeyInit, KeyStep, PTL DEF Spec

\* "Owner generates; members receive": whatever is lost, cut off or handed
\* over, no key in use was drawn by a member's session.
THEOREM KeyOriginCorrect == Spec => []KeysComeFromOwners
<1>1. KeyInv => KeysComeFromOwners
  BY DEF KeyInv
<1> QED BY <1>1, KeyInit, KeyStep, PTL DEF Spec

-----------------------------------------------------------------------------

\* What is wrong with a call stays so.
LEMMA FaultsStay == [Next]_vars => faults' = faults
  BY NextCases DEF Transfer, Join, Start, Leave, LeaveEarly, Cut, SendKeyRequest, RequestSent,
                   RequestFailed, OfferKeyTo, HandleKeyRequest, HandleKeyOffer, vars

LEMMA AskingStep == TypeOK /\ KeepsAsking /\ [Next]_vars => KeepsAsking'
<1> SUFFICES ASSUME TypeOK, KeepsAsking, [Next]_vars, ~Unreliable, NEW x \in Session,
                    (phase[x] = "on" /\ ~HasKey(x) /\ attempts[x] < MaxAttempts)'
             PROVE  timer'[x] \/ sending'[x]
  BY FaultsStay DEF KeepsAsking, Unreliable
<1> USE SessionAssumption DEF KeepsAsking, TypeOK, HasKey
<1>1. ASSUME NEW u \in Heir, Transfer(u) PROVE timer'[x] \/ sending'[x]
  BY <1>1 DEF Transfer, session, asking
<1>2. ASSUME NEW s \in Session, Join(s) PROVE timer'[x] \/ sending'[x]
  BY <1>2 DEF Join, asking
<1>3. ASSUME NEW s \in Session, Start(s) PROVE timer'[x] \/ sending'[x]
  BY <1>3 DEF Start, Key
<1>4. ASSUME NEW s \in Session, Leave(s) \/ LeaveEarly(s) \/ Cut(s)
      PROVE  timer'[x] \/ sending'[x]
  <2>1. x # s
    BY <1>4 DEF Leave, LeaveEarly, Cut
  <2> QED BY <1>4, <2>1 DEF Leave, LeaveEarly, Cut, asking
<1>5. ASSUME NEW s \in Session, SendKeyRequest(s) PROVE timer'[x] \/ sending'[x]
  <2>1. CASE x = s
    BY <1>5, <2>1 DEF SendKeyRequest, session, InCall
  <2>2. CASE x # s
    BY <1>5, <2>2 DEF SendKeyRequest, session
  <2> QED BY <2>1, <2>2
<1>6. ASSUME NEW s \in Session, RequestSent(s) PROVE timer'[x] \/ sending'[x]
  BY <1>6 DEF RequestSent, session
<1>7. ASSUME NEW s \in Session, RequestFailed(s) PROVE timer'[x] \/ sending'[x]
  <2>1. x # s
    BY <1>7 DEF RequestFailed, session, InCall
  <2> QED BY <1>7, <2>1 DEF RequestFailed, session
<1>8. ASSUME NEW s \in Session, NEW h \in Session, OfferKeyTo(h, s)
      PROVE  timer'[x] \/ sending'[x]
  BY <1>8 DEF OfferKeyTo, session, asking
<1>9. ASSUME NEW m \in net, HandleKeyRequest(m) PROVE timer'[x] \/ sending'[x]
  BY <1>9 DEF HandleKeyRequest, session, asking
<1>10. ASSUME NEW m \in net, HandleKeyOffer(m) PROVE timer'[x] \/ sending'[x]
  <2>1. m.to \in Session /\ m.key \in Session
    BY <1>10, MessageType DEF HandleKeyOffer
  <2>2. CASE phase[m.to] = "on" /\ ~HasKey(m.to)
    <3>1. x # m.to
      BY <1>10, <2>1, <2>2 DEF HandleKeyOffer
    <3> QED BY <1>10, <2>1, <2>2, <3>1 DEF HandleKeyOffer, session
  <2>3. CASE ~(phase[m.to] = "on" /\ ~HasKey(m.to))
    BY <1>10, <2>3 DEF HandleKeyOffer, session
  <2> QED BY <2>2, <2>3
<1>11. ASSUME UNCHANGED vars PROVE timer'[x] \/ sending'[x]
  BY <1>11 DEF vars, session, asking
<1> QED
  BY NextCases, <1>1, <1>2, <1>3, <1>4, <1>5, <1>6, <1>7, <1>8, <1>9, <1>10, <1>11

\* Where publishing works, a member without a key who has attempts left always
\* has the next one coming (sendKeyRequest, scheduleKeyRequest).
THEOREM AskingCorrect == Spec => []KeepsAsking
<1>1. Init => KeepsAsking
  BY DEF Init, KeepsAsking
<1>2. TypeOK /\ KeepsAsking /\ [Next]_vars => KeepsAsking'
  BY AskingStep
<1> QED BY <1>1, <1>2, TypeCorrect, PTL DEF Spec

-----------------------------------------------------------------------------
(* A call's media: types first.  Call, like the key protocol above, is proved *)
(* for every number of screens, runs, reopenings and rooms, and every profile. *)

\* The steps of a call, one by one.
LEMMA CallCases ==
  ASSUME [CallNext]_callVars
  PROVE  \/ \E r \in does.rooms : JoinRoom(r)
         \/ \E s \in Screen :
              \/ Retry(s) \/ SignOut(s) \/ HandleLeave(s) \/ SetMuted(s) \/ ReopenMic(s)
              \/ StartShare(s) \/ StartShareAudio(s) \/ StopShare(s) \/ Kick(s) \/ ShareStep(s)
              \/ Connected(s) \/ ConnectFails(s) \/ QuitAudio(s) \/ QuitDone(s) \/ TimerFires(s)
         \/ \E j \in DOMAIN join :
              \/ Minted(j) \/ MicOpened(j) \/ RunFails(j) \/ Published(j) \/ MutedAfter(j)
              \/ KeysDone(j) \/ LeaveAudio(j) \/ LeaveDone(j)
         \/ \E i \in DOMAIN reopen : Reopened(i) \/ Replaced(i)
         \/ HelperGone
         \/ UNCHANGED callVars
  BY DEF CallNext, Answers, UserStep, RunStep, LeaveStep, QuitStep, ConnectStep, ReopenStep

\* A sequence in which no place was added or taken.
LEMMA Adjusted ==
  ASSUME NEW S, NEW q \in Seq(S), NEW f \in [DOMAIN q -> S]
  PROVE  f \in Seq(S) /\ Len(f) = Len(q) /\ DOMAIN f = DOMAIN q
  OBVIOUS

\* A sequence that got one more element.
LEMMA Appended ==
  ASSUME NEW S, NEW q \in Seq(S), NEW e \in S
  PROVE  /\ Append(q, e) \in Seq(S) /\ Len(Append(q, e)) = Len(q) + 1
         /\ DOMAIN Append(q, e) = DOMAIN q \cup {Len(q) + 1}
         /\ \A i \in DOMAIN q : Append(q, e)[i] = q[i]
         /\ Append(q, e)[Len(q) + 1] = e
  OBVIOUS

\* Whose they are, and where a connection stands.
EachHasItsScreen ==
  /\ \A j \in DOMAIN join : join[j].screen \in DOMAIN screen
  /\ \A i \in DOMAIN reopen : reopen[i].screen \in DOMAIN screen
  /\ \A s \in Screen : lk[s].at # "off" => s \in DOMAIN screen
  /\ active # NoRoom => Len(screen) > 0

\* Only Windows has an audio graph to set up.
WindowsOnly == \A w \in Wrapper : cap[w].at = "setup" => platform = "win32"

\* The types, with what a step needs to keep them.
CallShape == CallTypeOK /\ EachHasItsScreen /\ WindowsOnly

\* What the records are, one at a time, and that their numbers are in bounds.
LEMMA ScreenDomain ==
  ASSUME CallShape
  PROVE  /\ DOMAIN screen \subseteq Screen
         /\ \A s \in DOMAIN screen : screen[s] \in ScreenState
         /\ \A j \in DOMAIN join : join[j] \in JoinState /\ j \in Pipe /\ j \in 1 .. MaxJoin
         /\ \A i \in DOMAIN reopen : reopen[i] \in ReopenState /\ MaxJoin + i \in Pipe /\ i \in Nat
         /\ does \in Profile
<1>0. does \in Profile
  BY CallAssumption DEF CallShape, CallTypeOK
<1>1. DOMAIN screen = 1 .. Len(screen) /\ DOMAIN join = 1 .. Len(join) /\ DOMAIN reopen = 1 .. Len(reopen)
  BY DEF CallShape, CallTypeOK
<1>2. /\ Len(screen) \in Nat /\ Len(join) \in Nat /\ Len(reopen) \in Nat
      /\ Len(screen) <= MaxScreen /\ Len(join) <= MaxJoin /\ Len(reopen) <= MaxReopen
  BY <1>0, CallAssumption DEF CallShape, CallTypeOK, Profile
<1>3. \A s \in DOMAIN screen : screen[s] \in ScreenState
  BY DEF CallShape, CallTypeOK
<1>4. \A j \in DOMAIN join : join[j] \in JoinState
  BY DEF CallShape, CallTypeOK
<1>5. \A i \in DOMAIN reopen : reopen[i] \in ReopenState
  BY DEF CallShape, CallTypeOK
<1> QED BY <1>0, <1>1, <1>2, <1>3, <1>4, <1>5, CallAssumption DEF Screen, Pipe

\* Nothing is mounted and nothing runs at first.
LEMMA CallShapeInit == CallInit => CallShape
<1> SUFFICES ASSUME CallInit PROVE CallShape
  OBVIOUS
<1>1. does \in Profile /\ does.joins \in Nat
  BY CallAssumption DEF CallInit, Profile
<1>2. /\ screen \in Seq(ScreenState) /\ join \in Seq(JoinState) /\ reopen \in Seq(ReopenState)
      /\ Len(screen) = 0 /\ Len(join) = 0 /\ Len(reopen) = 0
  BY DEF CallInit
<1>3. ShareTypeOK /\ WindowsOnly
  BY DEF CallInit, ShareInit, ShareTypeOK, WindowsOnly, Stage
<1>4. lk \in [Screen -> Connection]
  BY DEF CallInit, Connection
<1>5. CallTypeOK
  BY <1>1, <1>2, <1>3, <1>4, CallAssumption DEF CallInit, ShareInit, CallTypeOK, Pipe
<1>6. EachHasItsScreen
  BY DEF CallInit, EachHasItsScreen
<1> QED BY <1>3, <1>5, <1>6 DEF CallShape

\* The operators that change runs, reopenings and screens.
LEMMA CleanedUpType ==
  ASSUME NEW runs \in Seq(JoinState), NEW s
  PROVE  /\ CleanedUp(s, runs) \in Seq(JoinState) /\ Len(CleanedUp(s, runs)) = Len(runs)
         /\ DOMAIN CleanedUp(s, runs) = DOMAIN runs
         /\ \A j \in DOMAIN runs :
              /\ CleanedUp(s, runs)[j].screen = runs[j].screen
              /\ CleanedUp(s, runs)[j].at = runs[j].at
              /\ CleanedUp(s, runs)[j].cancelled <=> (runs[j].cancelled \/ runs[j].screen = s)
<1>1. \A j \in DOMAIN runs : runs[j] \in JoinState
  OBVIOUS
<1>2. CleanedUp(s, runs) \in [DOMAIN runs -> JoinState]
  BY <1>1 DEF CleanedUp, JoinState
<1>3. \A j \in DOMAIN runs :
        /\ CleanedUp(s, runs)[j].screen = runs[j].screen
        /\ CleanedUp(s, runs)[j].at = runs[j].at
        /\ CleanedUp(s, runs)[j].cancelled <=> (runs[j].cancelled \/ runs[j].screen = s)
  BY <1>1 DEF CleanedUp, JoinState
<1> QED BY <1>2, <1>3, Adjusted

\* Calling reopenings off leaves each of them where it is.
LEMMA CalledOffType ==
  ASSUME reopen \in Seq(ReopenState), NEW s
  PROVE  /\ CalledOff(s) \in Seq(ReopenState) /\ Len(CalledOff(s)) = Len(reopen)
         /\ DOMAIN CalledOff(s) = DOMAIN reopen
         /\ \A i \in DOMAIN reopen : /\ CalledOff(s)[i].screen = reopen[i].screen
                                     /\ CalledOff(s)[i].at = reopen[i].at
<1>1. \A i \in DOMAIN reopen : reopen[i] \in ReopenState
  OBVIOUS
<1>2. CalledOff(s) \in [DOMAIN reopen -> ReopenState]
  BY <1>1 DEF CalledOff, ReopenState
<1> QED BY <1>1, <1>2, Adjusted DEF CalledOff, ReopenState

\* Ending runs ends those and no other.
LEMMA EndedType ==
  ASSUME join \in Seq(JoinState), NEW runs
  PROVE  /\ Ended(runs) \in Seq(JoinState) /\ Len(Ended(runs)) = Len(join)
         /\ DOMAIN Ended(runs) = DOMAIN join
         /\ \A j \in DOMAIN join : /\ Ended(runs)[j].screen = join[j].screen
                                   /\ Ended(runs)[j].cancelled = join[j].cancelled
                                   /\ Ended(runs)[j].at = IF j \in runs THEN "end" ELSE join[j].at
<1>1. \A j \in DOMAIN join : join[j] \in JoinState
  OBVIOUS
<1>2. Ended(runs) \in [DOMAIN join -> JoinState]
  BY <1>1 DEF Ended, JoinState
<1> QED BY <1>1, <1>2, Adjusted DEF Ended, JoinState

\* A run that goes to a stage: nothing else of it changes, nor any other.
LEMMA AtType ==
  ASSUME join \in Seq(JoinState), NEW j \in DOMAIN join,
         NEW stage \in {"mint", "mic", "connect", "publish", "mute", "keys", "end"}
  PROVE  /\ At(j, stage) \in Seq(JoinState) /\ Len(At(j, stage)) = Len(join)
         /\ DOMAIN At(j, stage) = DOMAIN join
         /\ \A k \in DOMAIN join : /\ At(j, stage)[k].screen = join[k].screen
                                   /\ At(j, stage)[k].cancelled = join[k].cancelled
                                   /\ At(j, stage)[k].at = IF k = j THEN stage ELSE join[k].at
<1>1. \A k \in DOMAIN join : join[k] \in JoinState
  OBVIOUS
<1>2. At(j, stage) \in [DOMAIN join -> JoinState]
  BY <1>1 DEF At, JoinState
<1> QED BY <1>1, <1>2, Adjusted DEF At, JoinState

\* A screen that is set leaves the list of screens as long as it was.
LEMMA ScreenSet ==
  ASSUME screen \in Seq(ScreenState), NEW s, NEW e, s \in DOMAIN screen => e \in ScreenState
  PROVE  /\ [screen EXCEPT ![s] = e] \in Seq(ScreenState)
         /\ Len([screen EXCEPT ![s] = e]) = Len(screen)
         /\ DOMAIN [screen EXCEPT ![s] = e] = DOMAIN screen
<1>1. screen \in [DOMAIN screen -> ScreenState]
  OBVIOUS
<1>2. [screen EXCEPT ![s] = e] \in [DOMAIN screen -> ScreenState]
  BY <1>1
<1> QED BY <1>2, Adjusted

\* A failure shows the error or changes nothing.
LEMMA ShowsType ==
  ASSUME NEW s, screen[s] \in ScreenState, NEW runs
  PROVE  Shows(s, runs) \in {"error", screen[s].phase}
  BY DEF Shows

\* A screen whose connection ended is a screen still.
LEMMA AfterDisconnectType ==
  ASSUME NEW s, screen[s] \in ScreenState
  PROVE  /\ AfterDisconnect(s) \in ScreenState
         /\ AfterDisconnect(s).phase \in {"error", screen[s].phase}
         /\ AfterDisconnect(s) =
              [screen[s] EXCEPT !.phase = AfterDisconnect(s).phase, !.kind = AfterDisconnect(s).kind,
                                !.timer = AfterDisconnect(s).timer]
<1>1. Shows(s, Waiting(s)) \in {"error", screen[s].phase}
  BY ShowsType
<1> QED BY <1>1 DEF AfterDisconnect, ScreenState, On

\* What the steps of the share leave well formed.
LEMMA EnableType ==
  ASSUME ShareTypeOK, WindowsOnly, NEW w \in Wrapper, Enable(w), native' \in BOOLEAN, stream' \in BOOLEAN
  PROVE  /\ cap' \in [Wrapper -> [at : Stage, had : SUBSET {"native", "stream"}]]
         /\ \A v \in Wrapper : cap'[v].at = "setup" => cap[v].at = "setup"
<1>1. Running' \subseteq {"native", "stream"}
  BY DEF Running
<1>2. CASE shared'[w] \/ InFlight(w)
  BY <1>2 DEF Enable, ShareTypeOK
<1>3. CASE ~(shared'[w] \/ InFlight(w))
  <2>1. cap' = [cap EXCEPT ![w] = [at |-> IF stream' THEN "publish" ELSE "start", had |-> Running']]
    BY <1>3 DEF Enable
  <2> QED BY <2>1, <1>1 DEF ShareTypeOK, Stage
<1> QED BY <1>2, <1>3

\* An enable that goes to a stage keeps what ran before it.
LEMMA ToType ==
  ASSUME ShareTypeOK, NEW w \in Wrapper, NEW stage \in Stage, To(w, stage)
  PROVE  /\ cap' \in [Wrapper -> [at : Stage, had : SUBSET {"native", "stream"}]]
         /\ cap'[w].at = stage /\ cap'[w].had = cap[w].had
         /\ \A v \in Wrapper \ {w} : cap'[v] = cap[v]
  BY DEF To, ShareTypeOK

\* The three parts of the state that the steps keep apart: the share, the wire, and the lists.
SharePart == ShareTypeOK /\ WindowsOnly

\* Every step of the share keeps its part.
LEMMA ShareNextType ==
  ASSUME SharePart, NEW w \in Wrapper, ShareNext(w) \/ SharePublished(w) \/ SharePublishFails(w) \/ HelperDies
  PROVE  SharePart'
<1> USE DEF SharePart
<1>a. {"no", "start", "setup", "grab", "grabRouted", "ask", "publish"} = Stage
  BY DEF Stage
<1>1. ASSUME HelperStarts(w) PROVE SharePart'
  <2>1. \E stage \in {"setup", "ask"} : To(w, stage)
    BY <1>1 DEF HelperStarts
  <2> QED BY <2>1, <1>1, <1>a, ToType DEF HelperStarts, ShareTypeOK, WindowsOnly
<1>2. ASSUME VenmicLinks(w) PROVE SharePart'
  <2>1. \E stage \in {"grabRouted", "grab"} : To(w, stage)
    BY <1>2 DEF VenmicLinks
  <2> QED BY <2>1, <1>2, <1>a, ToType DEF VenmicLinks, ShareTypeOK, WindowsOnly
<1>3. ASSUME HelperWired(w) PROVE SharePart'
  <2>1. \E stage \in {"publish", "ask"} : To(w, stage)
    BY <1>3 DEF HelperWired
  <2>2. platform = "win32"
    BY <1>3 DEF HelperWired, WindowsOnly
  <2> QED BY <2>1, <2>2, <1>3, <1>a, ToType DEF HelperWired, ShareTypeOK, WindowsOnly
<1>4. ASSUME MonitorGrabbed(w) PROVE SharePart'
  <2>1. \E stage \in {"publish", "no"} : To(w, stage)
    BY <1>4 DEF MonitorGrabbed
  <2> QED BY <2>1, <1>4, <1>a, ToType DEF MonitorGrabbed, ShareTypeOK, WindowsOnly
<1>5. ASSUME LoopbackAnswered(w) PROVE SharePart'
  <2>1. \E stage \in {"publish", "no"} : To(w, stage)
    BY <1>5 DEF LoopbackAnswered
  <2> QED BY <2>1, <1>5, <1>a, ToType DEF LoopbackAnswered, ShareTypeOK, WindowsOnly
<1>6. ASSUME SharePublished(w) PROVE SharePart'
  BY <1>6, <1>a, ToType DEF SharePublished, ShareTypeOK, WindowsOnly
<1>7. ASSUME SharePublishFails(w) PROVE SharePart'
  BY <1>7, <1>a, ToType DEF SharePublishFails, Torn, ShareTypeOK, WindowsOnly
<1>8. ASSUME DisableShare(w) PROVE SharePart'
  BY <1>8 DEF DisableShare, Unpublished, ShareTypeOK, WindowsOnly
<1>9. ASSUME ShareForgotten(w) PROVE SharePart'
  <2>1. CASE StopsNative /\ UNCHANGED cap
    BY <1>9, <2>1 DEF ShareForgotten, Forgotten, Disabled, ShareTypeOK, WindowsOnly
  <2>2. CASE Disabled(w)
    <3>1. Enable(w) \/ UNCHANGED cap
      BY <2>2 DEF Disabled
    <3>2. native' \in BOOLEAN /\ stream' \in BOOLEAN
      BY <1>9 DEF ShareForgotten, Forgotten, ShareTypeOK
    <3>3. /\ cap' \in [Wrapper -> [at : Stage, had : SUBSET {"native", "stream"}]]
          /\ \A v \in Wrapper : cap'[v].at = "setup" => cap[v].at = "setup"
      BY <3>1, <3>2, EnableType DEF ShareTypeOK
    <3> QED BY <1>9, <2>2, <3>3 DEF ShareForgotten, Forgotten, Disabled, ShareTypeOK, WindowsOnly
  <2> QED BY <1>9, <2>1, <2>2 DEF ShareForgotten
<1>10. ASSUME ShareReleased(w) PROVE SharePart'
  <2>1. Enable(w) \/ UNCHANGED cap
    BY <1>10 DEF ShareReleased, Disabled
  <2>2. native' \in BOOLEAN /\ stream' \in BOOLEAN
    BY <1>10 DEF ShareReleased, ShareTypeOK
  <2>3. /\ cap' \in [Wrapper -> [at : Stage, had : SUBSET {"native", "stream"}]]
        /\ \A v \in Wrapper : cap'[v].at = "setup" => cap[v].at = "setup"
    BY <2>1, <2>2, EnableType DEF ShareTypeOK
  <2> QED BY <1>10, <2>3 DEF ShareReleased, Disabled, ShareTypeOK, WindowsOnly
<1>11. ASSUME HelperDies PROVE SharePart'
  BY <1>11 DEF HelperDies, ShareTypeOK, WindowsOnly
<1> QED BY <1>1, <1>2, <1>3, <1>4, <1>5, <1>6, <1>7, <1>8, <1>9, <1>10, <1>11 DEF ShareNext

WirePart ==
  /\ open \subseteq Pipe /\ feed \in [0 .. MaxJoin -> Pipe \cup {0}]
  /\ lk \in [Screen -> Connection] /\ video \in [Screen -> BOOLEAN]
  /\ mics \in [Screen -> SUBSET (0 .. MaxJoin)] /\ live \in [Screen -> SUBSET (0 .. MaxJoin)]
  /\ \A s \in Screen : lk[s].at # "on" => mics[s] = {} /\ ~shared[s] /\ ~video[s]

ListPart ==
  /\ does \in Profiles /\ active \in Room \cup {NoRoom}
  /\ screen \in Seq(ScreenState) /\ Len(screen) <= MaxScreen
  /\ join \in Seq(JoinState) /\ Len(join) <= does.joins
  /\ reopen \in Seq(ReopenState) /\ Len(reopen) <= MaxReopen
  /\ EachHasItsScreen

\* Together they are the shape.
LEMMA ShapeParts == CallShape <=> WirePart /\ ListPart /\ SharePart
  BY DEF CallShape, WirePart, ListPart, SharePart, CallTypeOK

\* Turning the sound off, and disconnecting, keep the share and the wire.
LEMMA AudioOffType ==
  ASSUME SharePart, NEW w \in Wrapper, AudioOff(w)
  PROVE  SharePart'
  BY DEF SharePart, AudioOff, Forgotten, ShareTypeOK, WindowsOnly

LEMMA DisconnectedType ==
  ASSUME SharePart, WirePart, NEW w \in Wrapper, Disconnected(w), open' = open
  PROVE  SharePart' /\ WirePart'
<1> USE DEF SharePart, WirePart
<1>1. SharePart'
  BY DEF Disconnected, Unpublished, ShareTypeOK, WindowsOnly
<1>2. lk' \in [Screen -> Connection]
  BY CallAssumption DEF Disconnected, Connection
<1>3. \A s \in Screen : lk'[s].at # "on" => mics'[s] = {} /\ ~shared'[s] /\ ~video'[s]
  BY CallAssumption DEF Disconnected, Unpublished, ShareTypeOK
<1> QED BY <1>1, <1>2, <1>3, CallAssumption DEF Disconnected

\* The parts that no step of a kind touches.
LEMMA ListPartKept ==
  ASSUME ListPart, UNCHANGED <<does, active, reopen>>,
         screen' \in Seq(ScreenState), Len(screen') = Len(screen),
         join' \in Seq(JoinState), Len(join') = Len(join),
         \A j \in DOMAIN join : join'[j].screen = join[j].screen,
         \A s \in Screen : lk'[s].at # "off" => s \in DOMAIN screen
  PROVE  ListPart'
<1>1. DOMAIN screen' = DOMAIN screen /\ DOMAIN join' = DOMAIN join
  BY DEF ListPart
<1> QED BY <1>1 DEF ListPart, EachHasItsScreen

\* A set of runs that is not empty has a first.
LEMMA MinType ==
  ASSUME NEW S \in SUBSET (0 .. MaxJoin), S # {}
  PROVE  Min(S) \in S
<1> DEFINE R == OpToRel(<, Nat)
<1>1. S \subseteq Nat
  BY CallAssumption
<1>2. PICK x \in S : \A y \in S : ~(<<y, x>> \in R)
  <2>1. IsWellFoundedOn(R, Nat)
    BY NatLessThanWellFounded
  <2> HIDE DEF R
  <2> QED BY <1>1, <2>1, WFMin
<1>3. \A y \in S : ~(y < x)
  <2> SUFFICES ASSUME NEW y \in S, y < x PROVE FALSE
    OBVIOUS
  <2>1. <<y, x>> \in R
    BY <1>1 DEF OpToRel
  <2> QED BY <1>2, <2>1
<1>4. \A y \in S : x =< y
  BY <1>1, <1>3
<1> QED BY <1>4 DEF Min

\* Unmuting, muting and connecting keep the wire.
LEMMA EnabledType ==
  ASSUME WirePart, NEW s \in Screen, NEW j \in 0 .. MaxJoin, Enabled(s, j)
  PROVE  /\ feed' \in [0 .. MaxJoin -> Pipe \cup {0}]
         /\ mics' \in [Screen -> SUBSET (0 .. MaxJoin)] /\ live' \in [Screen -> SUBSET (0 .. MaxJoin)]
         /\ \A t \in Screen \ {s} : mics'[t] = mics[t] /\ live'[t] = live[t]
<1> DEFINE m == IF mics[s] = {} THEN j ELSE Min(mics[s])
<1>1. m \in 0 .. MaxJoin
  BY MinType DEF WirePart
<1>2. /\ mics' = [mics EXCEPT ![s] = @ \cup {m}] /\ live' = [live EXCEPT ![s] = @ \cup {m}]
      /\ feed' = IF mics[s] = {} THEN [feed EXCEPT ![j] = 0] ELSE feed
  BY DEF Enabled
<1> HIDE DEF m
<1> QED BY <1>1, <1>2 DEF WirePart

LEMMA MutedType ==
  ASSUME WirePart, NEW s \in Screen, Muted(s)
  PROVE  /\ live' \in [Screen -> SUBSET (0 .. MaxJoin)]
         /\ live'[s] = IF mics[s] = {} THEN live[s] ELSE live[s] \ {Min(mics[s])}
         /\ \A t \in Screen \ {s} : live'[t] = live[t]
  BY DEF WirePart, Muted

LEMMA ConnectsType ==
  ASSUME ListPart, SharePart, UNCHANGED <<open, share>>, WirePart, NEW j \in DOMAIN join, Connects(j)
  PROVE  /\ WirePart'
         /\ \E stage \in {"publish", "connect"} : join' = At(j, stage)
         /\ \A t \in Screen : lk'[t].at # "off" => lk[t].at # "off" \/ t = join[j].screen
<1>0. join[j] \in JoinState
  BY DEF ListPart
<1>1. join[j].screen \in Screen /\ join[j].room \in Room
  BY <1>0 DEF JoinState
<1>2. /\ lk' \in [Screen -> Connection]
      /\ \A t \in Screen : lk'[t].at = "on" <=> lk[t].at = "on"
      /\ \A t \in Screen : lk'[t].at # "off" => lk[t].at # "off" \/ t = join[j].screen
  BY <1>1 DEF Connects, WirePart, Connection
<1>3. WirePart'
  BY <1>2 DEF Connects, WirePart, share
<1> QED BY <1>2, <1>3 DEF Connects

\* Every step of a call keeps the shape.
LEMMA CallShapeStep == CallShape /\ [CallNext]_callVars => CallShape'
<1> SUFFICES ASSUME CallShape, [CallNext]_callVars PROVE CallShape'
  OBVIOUS
<1>0. WirePart /\ ListPart /\ SharePart
  BY ShapeParts
<1>q. WirePart' /\ ListPart' /\ SharePart' => CallShape'
  BY DEF CallShape, WirePart, ListPart, SharePart, CallTypeOK
<1>d. /\ Screen = Wrapper /\ DOMAIN screen \subseteq Screen /\ 0 \in 0 .. MaxJoin
      /\ DOMAIN join = 1 .. Len(join) /\ Len(join) \in Nat /\ does.joins \in Nat
      /\ DOMAIN screen = 1 .. Len(screen) /\ Len(screen) \in Nat
      /\ DOMAIN reopen = 1 .. Len(reopen) /\ Len(reopen) \in Nat
      /\ \A s \in DOMAIN screen : screen[s] \in ScreenState
      /\ \A j \in DOMAIN join : join[j] \in JoinState /\ join[j].screen \in Screen /\ j \in 0 .. MaxJoin
                                /\ join[j].screen \in DOMAIN screen
      /\ \A i \in DOMAIN reopen : reopen[i] \in ReopenState /\ reopen[i].screen \in Screen
                                  /\ reopen[i].screen \in DOMAIN screen
  BY <1>0, ScreenDomain, CallAssumption DEF ListPart, JoinState, ReopenState, EachHasItsScreen, Profile
<1>e. \A s \in Screen : Mounted(s) => s \in DOMAIN screen /\ screen[s].shown \in Room /\ screen[s] \in ScreenState
  BY <1>d DEF Mounted, ScreenState
\* Steps that leave the wire and the share alone.
<1>w. UNCHANGED <<open, wire, share>> => WirePart' /\ SharePart'
  BY <1>0 DEF WirePart, SharePart, wire, share, ShareTypeOK, WindowsOnly
<1>k. \A s \in Screen : lk[s].at # "off" => s \in DOMAIN screen
  BY <1>0 DEF ListPart, EachHasItsScreen
<1>1. ASSUME NEW r \in does.rooms, JoinRoom(r) PROVE CallShape'
  <2>0. r \in Room
    BY ScreenDomain DEF Profile
  <2>1. CASE active = NoRoom /\ Len(screen) < MaxScreen
             /\ screen' = Append(screen, NewScreen(r)) /\ join' = Append(join, NewRun(Len(screen) + 1, r))
    <3>1. /\ NewScreen(r) \in ScreenState /\ NewRun(Len(screen) + 1, r) \in JoinState
          /\ NewRun(Len(screen) + 1, r).screen = Len(screen) + 1
      BY <2>0, <2>1, <1>d, CallAssumption DEF NewScreen, NewRun, ScreenState, JoinState, Screen
    <3>2. ListPart'
      BY <3>1, <2>0, <2>1, <1>1, <1>0, Appended, CallAssumption DEF JoinRoom, ListPart, EachHasItsScreen, wire, Profile
    <3> QED BY <3>2, <1>1, <1>w, <1>q DEF JoinRoom
  <2>2. CASE active # NoRoom /\ \E s \in {Len(screen)} :
               screen' = [screen EXCEPT ![s].shown = r] /\ join' = Append(CleanedUp(s, join), NewRun(s, r))
    <3> DEFINE s == Len(screen)
    <3>1. s \in DOMAIN screen
      BY <2>2, <1>0, <1>d DEF ListPart, EachHasItsScreen
    <3>2. NewRun(s, r) \in JoinState /\ NewRun(s, r).screen = s
      BY <2>0, <3>1, <1>d DEF NewRun, JoinState
    <3>3. [screen[s] EXCEPT !.shown = r] \in ScreenState
      BY <2>0, <3>1, <1>d DEF ScreenState
    <3>a. screen' = [screen EXCEPT ![s] = [screen[s] EXCEPT !.shown = r]]
      BY <2>2, <3>1, <1>d
    <3>b. join' = Append(CleanedUp(s, join), NewRun(s, r))
      BY <2>2
    <3> HIDE DEF s
    <3>4. screen' \in Seq(ScreenState) /\ Len(screen') = Len(screen) /\ DOMAIN screen' = DOMAIN screen
      BY <3>3, <3>a, <1>0, ScreenSet DEF ListPart
    <3>5. /\ CleanedUp(s, join) \in Seq(JoinState) /\ Len(CleanedUp(s, join)) = Len(join)
          /\ DOMAIN CleanedUp(s, join) = DOMAIN join
          /\ \A j \in DOMAIN join : CleanedUp(s, join)[j].screen = join[j].screen
      BY <1>0, CleanedUpType DEF ListPart
    <3>6. /\ join' \in Seq(JoinState) /\ Len(join') = Len(join) + 1
          /\ \A j \in DOMAIN join' : join'[j].screen \in DOMAIN screen
      BY <3>1, <3>2, <3>5, <3>b, <1>d, Appended
    <3>c. UNCHANGED <<does, reopen, lk>> /\ active' = r /\ Len(join) < does.joins
      BY <1>1 DEF JoinRoom, wire
    <3>d. Len(screen) > 0
      BY <2>2, <1>0 DEF ListPart, EachHasItsScreen
    <3>7. ListPart'
      BY <3>4, <3>6, <3>c, <3>d, <2>0, <1>0, <1>d DEF ListPart, EachHasItsScreen
    <3> QED BY <3>7, <1>1, <1>w, <1>q DEF JoinRoom
  <2> QED BY <1>1, <2>1, <2>2 DEF JoinRoom
<1>2. ASSUME NEW s \in Screen, Retry(s) PROVE CallShape'
  <2>1. /\ [screen[s] EXCEPT !.phase = "connecting", !.cancelled = FALSE] \in ScreenState
        /\ NewRun(s, screen[s].shown) \in JoinState /\ NewRun(s, screen[s].shown).screen = s
    BY <1>2, <1>e DEF Retry, ScreenState, NewRun, JoinState
  <2>2. screen' \in Seq(ScreenState) /\ Len(screen') = Len(screen) /\ DOMAIN screen' = DOMAIN screen
    <3>1. screen' = [screen EXCEPT ![s] = [screen[s] EXCEPT !.phase = "connecting", !.cancelled = FALSE]]
      BY <1>2, <1>e, <1>d DEF Retry
    <3> QED BY <3>1, <2>1, <1>0, ScreenSet DEF ListPart
  <2>3. /\ CleanedUp(s, join) \in Seq(JoinState) /\ Len(CleanedUp(s, join)) = Len(join)
        /\ DOMAIN CleanedUp(s, join) = DOMAIN join
        /\ \A j \in DOMAIN join : CleanedUp(s, join)[j].screen = join[j].screen
    BY <1>0, CleanedUpType DEF ListPart
  <2>4. /\ join' \in Seq(JoinState) /\ Len(join') = Len(join) + 1
        /\ \A j \in DOMAIN join' : join'[j].screen \in DOMAIN screen
    BY <2>1, <2>3, <1>2, <1>e, <1>d, Appended DEF Retry
  <2>5. ListPart'
    BY <2>2, <2>4, <1>2, <1>0, ScreenDomain DEF Retry, ListPart, EachHasItsScreen, wire, Profile
  <2> QED BY <2>5, <1>2, <1>w, <1>q DEF Retry
<1>3. ASSUME NEW s \in Screen, SignOut(s) PROVE CallShape'
  <2>1. /\ screen' = [screen EXCEPT ![s] = [screen[s] EXCEPT !.shown = NoRoom, !.timer = FALSE]]
        /\ [screen[s] EXCEPT !.shown = NoRoom, !.timer = FALSE] \in ScreenState
    BY <1>3, <1>e, <1>d DEF SignOut, ScreenState
  <2>2. screen' \in Seq(ScreenState) /\ Len(screen') = Len(screen) /\ DOMAIN screen' = DOMAIN screen
    BY <2>1, <1>0, ScreenSet DEF ListPart
  <2>a. /\ join' \in Seq(JoinState) /\ Len(join') = Len(join) /\ DOMAIN join' = DOMAIN join
        /\ \A j \in DOMAIN join : join'[j].screen = join[j].screen
    BY <1>3, <1>0, CleanedUpType DEF SignOut, ListPart
  <2>b. /\ reopen' \in Seq(ReopenState) /\ Len(reopen') = Len(reopen) /\ DOMAIN reopen' = DOMAIN reopen
        /\ \A i \in DOMAIN reopen : reopen'[i].screen = reopen[i].screen
    BY <1>3, <1>0, CalledOffType DEF SignOut, ListPart
  <2>3. ListPart'
    BY <2>2, <2>a, <2>b, <1>3, <1>0 DEF SignOut, ListPart, EachHasItsScreen, wire
  <2> QED BY <2>3, <1>3, <1>w, <1>q DEF SignOut
<1>4. ASSUME NEW s \in Screen, HandleLeave(s) \/ TimerFires(s) PROVE CallShape'
  <2>1. PICK e \in ScreenState : screen' = [screen EXCEPT ![s] = e]
    <3>1. s \in DOMAIN screen /\ screen[s] \in ScreenState
      BY <1>4, <1>e, <1>d DEF HandleLeave, TimerFires
    <3>2. CASE \E c \in BOOLEAN : Quits(s, c)
      <4>1. PICK c \in BOOLEAN : Quits(s, c)
        BY <3>2
      <4>2. [screen[s] EXCEPT !.quit = "audio", !.ref = 0, !.timer = FALSE,
                              !.cancelled = screen[s].cancelled \/ c] \in ScreenState
        BY <3>1 DEF ScreenState
      <4> QED BY <4>1, <4>2, <3>1, <1>d DEF Quits
    <3>3. CASE screen' = [screen EXCEPT ![s].timer = FALSE]
      <4>1. [screen[s] EXCEPT !.timer = FALSE] \in ScreenState
        BY <3>1 DEF ScreenState
      <4> QED BY <4>1, <3>3
    <3> QED BY <3>2, <3>3, <1>4 DEF HandleLeave, TimerFires
  <2>2. screen' \in Seq(ScreenState) /\ Len(screen') = Len(screen) /\ DOMAIN screen' = DOMAIN screen
    BY <2>1, <1>0, ScreenSet DEF ListPart
  <2>3. UNCHANGED <<does, active, join, reopen, wire, share>> /\ open' \subseteq open
    BY <1>4 DEF HandleLeave, TimerFires, Quits
  <2>4. ListPart' /\ WirePart' /\ SharePart'
    BY <2>2, <2>3, <1>0 DEF ListPart, EachHasItsScreen, WirePart, SharePart, wire, share, ShareTypeOK, WindowsOnly
  <2> QED BY <2>4, <1>q
<1>5. ASSUME NEW s \in Screen, SetMuted(s) PROVE CallShape'
  <2>0. Inside(s) /\ On(s) /\ s \in DOMAIN screen /\ screen[s] \in ScreenState
    BY <1>5, <1>e DEF SetMuted, Inside
  <2>1. screen' \in Seq(ScreenState) /\ Len(screen') = Len(screen) /\ DOMAIN screen' = DOMAIN screen
    <3>1. screen' = screen \/ screen' = [screen EXCEPT ![s] = [screen[s] EXCEPT !.opted = TRUE]]
      BY <1>5 DEF SetMuted
    <3>2. [screen[s] EXCEPT !.opted = TRUE] \in ScreenState
      BY <2>0 DEF ScreenState
    <3>3. CASE screen' = screen
      BY <3>3, <1>0 DEF ListPart
    <3>4. CASE screen' = [screen EXCEPT ![s] = [screen[s] EXCEPT !.opted = TRUE]]
      BY <3>4, <3>2, <1>0, ScreenSet DEF ListPart
    <3> QED BY <3>1, <3>3, <3>4
  <2>2. /\ feed' \in [0 .. MaxJoin -> Pipe \cup {0}]
        /\ mics' \in [Screen -> SUBSET (0 .. MaxJoin)] /\ live' \in [Screen -> SUBSET (0 .. MaxJoin)]
        /\ \A t \in Screen \ {s} : mics'[t] = mics[t]
    BY <1>5, <1>0, <1>d, EnabledType, MutedType DEF SetMuted, WirePart
  <2>3. WirePart'
    BY <2>0, <2>2, <1>5, <1>0 DEF SetMuted, WirePart, share, On
  <2>4. ListPart' /\ SharePart'
    BY <2>1, <1>5, <1>0 DEF SetMuted, ListPart, EachHasItsScreen, SharePart, share, ShareTypeOK, WindowsOnly
  <2> QED BY <2>3, <2>4, <1>q
<1>6. ASSUME NEW s \in Screen, ReopenMic(s) PROVE CallShape'
  <2> DEFINE e == [screen |-> s, at |-> "mic", cancelled |-> FALSE]
  <2>1. e \in ReopenState /\ e.screen = s /\ s \in DOMAIN screen
    BY <1>6, <1>e DEF ReopenMic, ReopenState
  <2>2. /\ CalledOff(s) \in Seq(ReopenState) /\ Len(CalledOff(s)) = Len(reopen)
        /\ DOMAIN CalledOff(s) = DOMAIN reopen
        /\ \A i \in DOMAIN reopen : CalledOff(s)[i].screen = reopen[i].screen
    BY <1>0, CalledOffType DEF ListPart
  <2>3. reopen' = Append(CalledOff(s), e)
    BY <1>6 DEF ReopenMic
  <2> HIDE DEF e
  <2>4. /\ reopen' \in Seq(ReopenState) /\ Len(reopen') = Len(reopen) + 1
        /\ \A i \in DOMAIN reopen' : reopen'[i].screen \in DOMAIN screen
    BY <2>1, <2>2, <2>3, <1>d, Appended
  <2>5. ListPart'
    BY <2>4, <1>6, <1>0, <1>d, CallAssumption DEF ReopenMic, ListPart, EachHasItsScreen, wire
  <2> QED BY <2>5, <1>6, <1>w, <1>q DEF ReopenMic
<1>7. ASSUME NEW s \in Screen, StartShare(s) PROVE CallShape'
  <2>1. cap' = cap \/ Enable(s)
    BY <1>7 DEF StartShare
  <2>2. SharePart'
    BY <2>1, <1>7, <1>0, <1>d, EnableType DEF StartShare, SharePart, ShareTypeOK, WindowsOnly
  <2>3. ListPart' /\ WirePart'
    BY <1>7, <1>0 DEF StartShare, ListPart, EachHasItsScreen, WirePart, Inside, On
  <2> QED BY <2>2, <2>3, <1>q
<1>8. ASSUME NEW s \in Screen, StartShareAudio(s) PROVE CallShape'
  <2>1. SharePart'
    BY <1>8, <1>0, <1>d, EnableType DEF StartShareAudio, SharePart, ShareTypeOK, WindowsOnly
  <2>2. ListPart' /\ WirePart'
    BY <1>8, <1>0 DEF StartShareAudio, ListPart, EachHasItsScreen, WirePart, wire
  <2> QED BY <2>1, <2>2, <1>q
<1>9. ASSUME NEW s \in Screen, StopShare(s) PROVE CallShape'
  <2>1. SharePart'
    BY <1>9, <1>0, <1>d DEF StopShare, Unpublished, SharePart, ShareTypeOK, WindowsOnly
  <2>2. ListPart' /\ WirePart'
    BY <1>9, <1>0, <1>d DEF StopShare, ListPart, EachHasItsScreen, WirePart, Inside, On, Unpublished, SharePart, ShareTypeOK
  <2> QED BY <2>1, <2>2, <1>q
<1>10. ASSUME NEW s \in Screen, Kick(s) PROVE CallShape'
  <2>1. s \in DOMAIN screen /\ screen[s] \in ScreenState
    BY <1>10, <1>k, <1>d DEF Kick, On
  <2>2. PICK t \in BOOLEAN : screen' = [screen EXCEPT ![s] = [screen[s] EXCEPT !.kind = TRUE, !.timer = t]]
    <3>1. screen' = [screen EXCEPT ![s] = [screen[s] EXCEPT !.kind = TRUE,
                       !.timer = screen[s].timer \/ (Mounted(s) /\ ~screen[s].kind)]]
      BY <1>10, <2>1 DEF Kick
    <3>2. (screen[s].timer \/ (Mounted(s) /\ ~screen[s].kind)) \in BOOLEAN
      OBVIOUS
    <3> QED BY <3>1, <3>2
  <2>3. [screen[s] EXCEPT !.kind = TRUE, !.timer = t] \in ScreenState
    BY <2>1 DEF ScreenState
  <2>4. screen' \in Seq(ScreenState) /\ Len(screen') = Len(screen)
    BY <2>2, <2>3, <1>0, ScreenSet DEF ListPart
  <2>5. SharePart' /\ WirePart'
    BY <1>10, <1>0, <1>d, DisconnectedType DEF Kick
  <2>6. \A x \in Screen : lk'[x].at # "off" => x \in DOMAIN screen
    BY <1>10, <1>k, <1>0 DEF Kick, Disconnected, WirePart
  <2>7. ListPart'
    BY <2>4, <2>6, <1>10, <1>0, ListPartKept DEF Kick, ListPart
  <2> QED BY <2>5, <2>7, <1>q
<1>11. ASSUME NEW s \in Screen, ShareStep(s) PROVE CallShape'
  <2>1. SharePart'
    BY <1>11, <1>0, <1>d, ShareNextType DEF ShareStep, ShareNext
  <2>2. ListPart'
    BY <1>11, <1>0 DEF ShareStep, ListPart, EachHasItsScreen, wire
  <2>3. \A x \in Screen : lk[x].at # "on" => ~shared'[x]
    <3>1. shared' = shared \/ (SharePublished(s) /\ On(s)) \/ Unpublished(s)
      BY <1>11 DEF ShareStep, ShareNext, HelperStarts, VenmicLinks, HelperWired, MonitorGrabbed, LoopbackAnswered,
                   DisableShare, ShareForgotten, ShareReleased, SharePublishFails
    <3> QED BY <3>1, <1>0, <1>d DEF WirePart, On, SharePublished, Unpublished, SharePart, ShareTypeOK
  <2>4. WirePart'
    BY <2>3, <1>11, <1>0 DEF ShareStep, WirePart, wire
  <2> QED BY <2>1, <2>2, <2>4, <1>q
<1>12. ASSUME NEW s \in Screen, Connected(s) PROVE CallShape'
  <2>1. join' \in [DOMAIN join -> JoinState] /\ \A j \in DOMAIN join : join'[j].screen = join[j].screen
    <3>1. \A j \in DOMAIN join : [join[j] EXCEPT !.at = "publish"] \in JoinState
                                 /\ [join[j] EXCEPT !.at = "publish"].screen = join[j].screen
      BY <1>d DEF JoinState
    <3>2. join' = [j \in DOMAIN join |-> IF join[j].screen = s /\ join[j].at = "connect"
                                          THEN [join[j] EXCEPT !.at = "publish"] ELSE join[j]]
      BY <1>12 DEF Connected
    <3> QED BY <3>1, <3>2, <1>d
  <2>2. join' \in Seq(JoinState) /\ Len(join') = Len(join)
    BY <2>1, <1>0, Adjusted DEF ListPart
  <2>3. /\ lk' \in [Screen -> Connection] /\ \A x \in Screen : lk'[x].at # "off" => x \in DOMAIN screen
        /\ \A x \in Screen : lk'[x].at # "on" => lk[x].at # "on"
    BY <1>12, <1>0, <1>k DEF Connected, WirePart, Connection
  <2>4. ListPart'
    BY <2>1, <2>2, <2>3, <1>12, <1>0, ListPartKept DEF Connected, ListPart
  <2>5. WirePart' /\ SharePart'
    BY <2>3, <1>12, <1>0 DEF Connected, WirePart, SharePart, share, ShareTypeOK, WindowsOnly
  <2> QED BY <2>4, <2>5, <1>q
<1>13. ASSUME NEW s \in Screen, ConnectFails(s) PROVE CallShape'
  <2>1. s \in DOMAIN screen /\ screen[s] \in ScreenState
    BY <1>13, <1>k, <1>d DEF ConnectFails
  <2>2. PICK p \in {"error", screen[s].phase} : screen' = [screen EXCEPT ![s] = [screen[s] EXCEPT !.phase = p]]
    BY <2>1, <1>13, ShowsType DEF ConnectFails
  <2>3. [screen[s] EXCEPT !.phase = p] \in ScreenState
    BY <2>1 DEF ScreenState
  <2>4. screen' \in Seq(ScreenState) /\ Len(screen') = Len(screen)
    BY <2>2, <2>3, <1>0, ScreenSet DEF ListPart
  <2>5. /\ lk' \in [Screen -> Connection] /\ \A x \in Screen : lk'[x].at # "off" => x \in DOMAIN screen
        /\ \A x \in Screen : lk'[x].at # "on" => lk[x].at # "on"
    BY <1>13, <1>0, <1>k DEF ConnectFails, WirePart, Connection
  <2>6. ListPart'
    BY <2>4, <2>5, <1>13, <1>0, EndedType, ListPartKept DEF ConnectFails, ListPart
  <2>7. WirePart' /\ SharePart'
    BY <2>5, <1>13, <1>0 DEF ConnectFails, WirePart, SharePart, share, ShareTypeOK, WindowsOnly
  <2> QED BY <2>6, <2>7, <1>q
<1>14. ASSUME NEW s \in Screen, QuitAudio(s) PROVE CallShape'
  <2>1. [screen[s] EXCEPT !.quit = "disconnect"] \in ScreenState
    BY <1>14, <1>d DEF QuitAudio, ScreenState
  <2>2. screen' \in Seq(ScreenState) /\ Len(screen') = Len(screen)
    BY <2>1, <1>14, <1>0, ScreenSet DEF ListPart, QuitAudio
  <2>3. ListPart'
    BY <2>2, <1>14, <1>0, <1>k, ListPartKept DEF QuitAudio, ListPart, wire
  <2>4. SharePart' /\ WirePart'
    BY <1>14, <1>0, <1>d, AudioOffType DEF QuitAudio, AudioOff, WirePart, wire, SharePart, ShareTypeOK
  <2> QED BY <2>3, <2>4, <1>q
<1>15. ASSUME NEW s \in Screen, QuitDone(s) PROVE CallShape'
  <2>1. s \in DOMAIN screen /\ screen[s] \in ScreenState
    BY <1>15, <1>d DEF QuitDone
  <2>2. [AfterDisconnect(s) EXCEPT !.quit = "no", !.shown = NoRoom, !.timer = FALSE] \in ScreenState
    BY <2>1, AfterDisconnectType DEF ScreenState
  <2>3. screen' \in Seq(ScreenState) /\ Len(screen') = Len(screen) /\ DOMAIN screen' = DOMAIN screen
    BY <2>2, <1>15, <1>0, ScreenSet DEF ListPart, QuitDone
  <2>4. /\ join' \in Seq(JoinState) /\ Len(join') = Len(join) /\ DOMAIN join' = DOMAIN join
        /\ \A j \in DOMAIN join : join'[j].screen = join[j].screen
    <3>1. /\ Ended(Waiting(s)) \in Seq(JoinState) /\ Len(Ended(Waiting(s))) = Len(join)
          /\ DOMAIN Ended(Waiting(s)) = DOMAIN join
          /\ \A j \in DOMAIN join : Ended(Waiting(s))[j].screen = join[j].screen
      BY <1>0, EndedType DEF ListPart
    <3> HIDE <1>0
    <3> QED BY <3>1, <1>15, CleanedUpType DEF QuitDone
  <2>5. /\ reopen' \in Seq(ReopenState) /\ Len(reopen') = Len(reopen) /\ DOMAIN reopen' = DOMAIN reopen
        /\ \A i \in DOMAIN reopen : reopen'[i].screen = reopen[i].screen
    BY <1>15, <1>0, CalledOffType DEF QuitDone, ListPart
  <2>6. SharePart' /\ WirePart'
    BY <1>15, <1>0, <1>d, DisconnectedType DEF QuitDone
  <2>7. \A x \in Screen : lk'[x].at # "off" => x \in DOMAIN screen
    BY <1>15, <1>k, <1>0 DEF QuitDone, Disconnected, WirePart
  <2>8. ListPart'
    BY <2>3, <2>4, <2>5, <2>7, <1>15, <1>0 DEF QuitDone, ListPart, EachHasItsScreen
  <2> QED BY <2>6, <2>8, <1>q
<1>16. ASSUME NEW j \in DOMAIN join, Minted(j) PROVE CallShape'
  <2>1. CASE join' = At(j, "end") /\ UNCHANGED wire
    BY <2>1, <1>16, <1>0, <1>w, <1>k, <1>q, AtType, ListPartKept DEF Minted, ListPart, wire
  <2>2. CASE join' = At(j, "mic") /\ UNCHANGED wire
    BY <2>2, <1>16, <1>0, <1>w, <1>k, <1>q, AtType, ListPartKept DEF Minted, ListPart, wire
  <2>3. CASE Connects(j)
    <3>1. /\ WirePart'
          /\ \E stage \in {"publish", "connect"} : join' = At(j, stage)
          /\ \A t \in Screen : lk'[t].at # "off" => t \in DOMAIN screen
      BY <2>3, <1>16, <1>0, <1>d, <1>k, ConnectsType DEF Minted
    <3>2. SharePart'
      BY <1>16, <1>0 DEF Minted, SharePart, share, ShareTypeOK, WindowsOnly
    <3>3. ListPart'
      BY <3>1, <1>16, <1>0, AtType, ListPartKept DEF Minted, ListPart
    <3> QED BY <3>1, <3>2, <3>3, <1>q
  <2> QED BY <2>1, <2>2, <2>3, <1>16 DEF Minted
<1>17. ASSUME NEW j \in DOMAIN join, MicOpened(j) PROVE CallShape'
  <2> DEFINE s == join[j].screen
  <2>1. [screen[s] EXCEPT !.ref = j] \in ScreenState
    <3>1. j \in Nat /\ screen[s] \in ScreenState
      BY <1>d
    <3> QED BY <3>1 DEF ScreenState
  <2>2. screen' \in Seq(ScreenState) /\ Len(screen') = Len(screen)
    BY <2>1, <1>17, <1>0, ScreenSet DEF ListPart, MicOpened
  <2>3. /\ \E stage \in {"publish", "connect"} : join' = At(j, stage)
        /\ \A t \in Screen : lk'[t].at # "off" => t \in DOMAIN screen
        /\ lk' \in [Screen -> Connection]
        /\ \A t \in Screen : lk'[t].at # "on" => lk[t].at # "on"
    <3>1. join[j].screen \in Screen /\ join[j].room \in Room
      BY <1>d DEF JoinState
    <3> QED BY <3>1, <1>17, <1>0, <1>d, <1>k DEF MicOpened, Connects, WirePart, Connection
  <2>4. ListPart'
    BY <2>2, <2>3, <1>17, <1>0, AtType, ListPartKept DEF MicOpened, ListPart
  <2>5. open' \subseteq Pipe
    BY <1>17, <1>0, ScreenDomain DEF MicOpened, WirePart
  <2>6. WirePart' /\ SharePart'
    BY <2>3, <2>5, <1>17, <1>0 DEF MicOpened, Connects, WirePart, SharePart, share, ShareTypeOK, WindowsOnly
  <2> QED BY <2>4, <2>6, <1>q
<1>18. ASSUME NEW j \in DOMAIN join, RunFails(j) PROVE CallShape'
  <2> DEFINE s == join[j].screen
  <2>1. PICK p \in {"error", screen[s].phase} : screen' = [screen EXCEPT ![s] = [screen[s] EXCEPT !.phase = p]]
    BY <1>18, <1>d, ShowsType DEF RunFails
  <2>2. [screen[s] EXCEPT !.phase = p] \in ScreenState
    BY <1>d DEF ScreenState
  <2>3. screen' \in Seq(ScreenState) /\ Len(screen') = Len(screen)
    BY <2>1, <2>2, <1>0, ScreenSet DEF ListPart
  <2> QED BY <2>3, <1>18, <1>0, <1>w, <1>k, <1>q, AtType, ListPartKept DEF RunFails, ListPart, wire
<1>19. ASSUME NEW j \in DOMAIN join, Published(j) PROVE CallShape'
  <2> DEFINE s == join[j].screen
  <2>1. /\ feed' \in [0 .. MaxJoin -> Pipe \cup {0}]
        /\ mics' \in [Screen -> SUBSET (0 .. MaxJoin)] /\ live' \in [Screen -> SUBSET (0 .. MaxJoin)]
        /\ \A t \in Screen \ {s} : mics'[t] = mics[t]
    <3>1. CASE Enabled(s, j)
      BY <3>1, <1>0, <1>d, EnabledType
    <3>2. CASE ~Enabled(s, j)
      <4>1. /\ mics' = [mics EXCEPT ![s] = @ \cup {j}] /\ live' = [live EXCEPT ![s] = @ \cup {j}]
            /\ feed' = [feed EXCEPT ![j] = j]
        BY <3>2, <1>19 DEF Published
      <4>2. s \in Screen /\ j \in 0 .. MaxJoin /\ j \in Pipe
        BY <1>d, ScreenDomain
      <4> HIDE DEF s
      <4> QED BY <4>1, <4>2, <1>0 DEF WirePart
    <3> QED BY <3>1, <3>2
  <2>2. WirePart'
    BY <2>1, <1>19, <1>0 DEF Published, WirePart, share, On
  <2>3. \E stage \in {"keys", "mute"} : join' = At(j, stage)
    BY <1>19 DEF Published
  <2>4. ListPart' /\ SharePart'
    BY <2>3, <1>19, <1>0, <1>k, AtType, ListPartKept
       DEF Published, ListPart, SharePart, share, ShareTypeOK, WindowsOnly
  <2> QED BY <2>2, <2>4, <1>q
<1>20. ASSUME NEW j \in DOMAIN join, MutedAfter(j) PROVE CallShape'
  <2>1. live' \in [Screen -> SUBSET (0 .. MaxJoin)]
    BY <1>20, <1>0, <1>d, MutedType DEF MutedAfter
  <2>2. WirePart' /\ SharePart'
    BY <2>1, <1>20, <1>0 DEF MutedAfter, WirePart, SharePart, share, ShareTypeOK, WindowsOnly
  <2>3. ListPart'
    BY <1>20, <1>0, <1>k, AtType, ListPartKept DEF MutedAfter, ListPart
  <2> QED BY <2>2, <2>3, <1>q
<1>21. ASSUME NEW j \in DOMAIN join, KeysDone(j) PROVE CallShape'
  <2> DEFINE s == join[j].screen
  <2>1. [screen[s] EXCEPT !.phase = "connected"] \in ScreenState
    <3>1. screen[s] \in ScreenState
      BY <1>d
    <3> QED BY <3>1 DEF ScreenState
  <2>2. screen' \in Seq(ScreenState) /\ Len(screen') = Len(screen)
    BY <2>1, <1>21, <1>0, ScreenSet DEF ListPart, KeysDone
  <2> QED BY <2>2, <1>21, <1>0, <1>w, <1>k, <1>q, AtType, ListPartKept DEF KeysDone, ListPart, wire
<1>22. ASSUME NEW j \in DOMAIN join, LeaveAudio(j) PROVE CallShape'
  <2>1. join' \in [DOMAIN join -> JoinState] /\ \A k \in DOMAIN join : join'[k].screen = join[k].screen
    BY <1>22, <1>d DEF LeaveAudio, JoinState
  <2>2. join' \in Seq(JoinState) /\ Len(join') = Len(join)
    BY <2>1, <1>0, Adjusted DEF ListPart
  <2>3. ListPart'
    BY <2>1, <2>2, <1>22, <1>0, <1>k, ListPartKept DEF LeaveAudio, ListPart, wire
  <2>4. SharePart' /\ WirePart'
    BY <1>22, <1>0, <1>d, AudioOffType DEF LeaveAudio, AudioOff, WirePart, wire, SharePart, ShareTypeOK
  <2> QED BY <2>3, <2>4, <1>q
<1>23. ASSUME NEW j \in DOMAIN join, LeaveDone(j) PROVE CallShape'
  <2> DEFINE s == join[j].screen
  <2>1. AfterDisconnect(s) \in ScreenState
    BY <1>d, AfterDisconnectType
  <2>2. screen' \in Seq(ScreenState) /\ Len(screen') = Len(screen)
    BY <2>1, <1>23, <1>0, ScreenSet DEF ListPart, LeaveDone
  <2>3. /\ Ended(Waiting(s)) \in Seq(JoinState) /\ Len(Ended(Waiting(s))) = Len(join)
        /\ DOMAIN Ended(Waiting(s)) = DOMAIN join
        /\ \A k \in DOMAIN join : Ended(Waiting(s))[k].screen = join[k].screen /\ Ended(Waiting(s))[k] \in JoinState
    BY <1>0, EndedType DEF ListPart
  <2>4. join' = [Ended(Waiting(s)) EXCEPT ![j].leave = "done"]
    BY <1>23 DEF LeaveDone
  <2>5. join' \in [DOMAIN join -> JoinState] /\ \A k \in DOMAIN join : join'[k].screen = join[k].screen
    BY <2>3, <2>4 DEF JoinState
  <2>6. join' \in Seq(JoinState) /\ Len(join') = Len(join)
    BY <2>5, <1>0, Adjusted DEF ListPart
  <2>7. SharePart' /\ WirePart'
    BY <1>23, <1>0, <1>d, DisconnectedType DEF LeaveDone
  <2>8. \A x \in Screen : lk'[x].at # "off" => x \in DOMAIN screen
    BY <1>23, <1>k, <1>0 DEF LeaveDone, Disconnected, WirePart
  <2>9. ListPart'
    BY <2>2, <2>5, <2>6, <2>8, <1>23, <1>0, ListPartKept DEF LeaveDone, ListPart
  <2> QED BY <2>7, <2>9, <1>q
<1>24. ASSUME NEW i \in DOMAIN reopen, Reopened(i) PROVE CallShape'
  <2>1. open' \subseteq Pipe
    BY <1>24, <1>0, ScreenDomain DEF Reopened, WirePart
  <2>2. /\ reopen' \in [DOMAIN reopen -> ReopenState]
        /\ \A k \in DOMAIN reopen : reopen'[k].screen = reopen[k].screen
    <3>1. PICK stage \in {"replace", "end"} : reopen' = [reopen EXCEPT ![i].at = stage]
      BY <1>24 DEF Reopened
    <3>2. /\ [reopen[i] EXCEPT !.at = stage] \in ReopenState
          /\ [reopen[i] EXCEPT !.at = stage].screen = reopen[i].screen
      BY <1>d DEF ReopenState
    <3> QED BY <3>1, <3>2, <1>d
  <2>3. reopen' \in Seq(ReopenState) /\ Len(reopen') = Len(reopen) /\ DOMAIN reopen' = DOMAIN reopen
    BY <2>2, <1>0, Adjusted DEF ListPart
  <2>4. UNCHANGED <<does, active, screen, join, lk, mics, live, feed, video, share>>
    BY <1>24 DEF Reopened, wire
  <2>5. ListPart'
    BY <2>2, <2>3, <2>4, <1>0 DEF ListPart, EachHasItsScreen
  <2>6. WirePart' /\ SharePart'
    BY <2>1, <2>4, <1>0 DEF WirePart, SharePart, share, ShareTypeOK, WindowsOnly
  <2> QED BY <2>5, <2>6, <1>q
<1>25. ASSUME NEW i \in DOMAIN reopen, Replaced(i) PROVE CallShape'
  <2> DEFINE s == reopen[i].screen
  <2>1. feed' \in [0 .. MaxJoin -> Pipe \cup {0}]
    <3>1. MaxJoin + i \in Pipe
      BY ScreenDomain
    <3>2. CASE mics[s] = {}
      BY <3>2, <1>25, <1>0 DEF Replaced, WirePart
    <3>3. CASE mics[s] # {}
      <4>1. Min(mics[s]) \in 0 .. MaxJoin
        BY <3>3, <1>0, <1>d, MinType DEF WirePart
      <4> QED BY <3>1, <3>3, <4>1, <1>25, <1>0 DEF Replaced, WirePart
    <3> QED BY <3>2, <3>3
  <2>2. /\ reopen' \in [DOMAIN reopen -> ReopenState]
        /\ \A k \in DOMAIN reopen : reopen'[k].screen = reopen[k].screen
    BY <1>25, <1>d DEF Replaced, ReopenState
  <2>3. reopen' \in Seq(ReopenState) /\ Len(reopen') = Len(reopen) /\ DOMAIN reopen' = DOMAIN reopen
    BY <2>2, <1>0, Adjusted DEF ListPart
  <2>4. [screen[s] EXCEPT !.ref = MaxJoin + i] \in ScreenState
    <3>1. MaxJoin + i \in Nat /\ screen[s] \in ScreenState
      BY <1>d, CallAssumption
    <3> QED BY <3>1 DEF ScreenState
  <2>5. screen' \in Seq(ScreenState) /\ Len(screen') = Len(screen) /\ DOMAIN screen' = DOMAIN screen
    BY <2>4, <1>25, <1>0, ScreenSet DEF ListPart, Replaced
  <2>6. UNCHANGED <<does, active, join, lk, mics, live, video, share>> /\ open' \subseteq open
    BY <1>25 DEF Replaced
  <2>7. ListPart'
    BY <2>2, <2>3, <2>5, <2>6, <1>0 DEF ListPart, EachHasItsScreen
  <2>8. WirePart' /\ SharePart'
    BY <2>1, <2>6, <1>0 DEF WirePart, SharePart, share, ShareTypeOK, WindowsOnly
  <2> QED BY <2>7, <2>8, <1>q
<1>26. ASSUME HelperGone PROVE CallShape'
  <2>1. SharePart'
    <3>1. \E w \in Wrapper : TRUE
      BY CallAssumption DEF Screen
    <3> QED BY <3>1, <1>26, <1>0, ShareNextType DEF HelperGone
  <2>2. ListPart' /\ WirePart'
    BY <1>26, <1>0 DEF HelperGone, HelperDies, ListPart, EachHasItsScreen, WirePart, wire
  <2> QED BY <2>1, <2>2, <1>q
<1>27. ASSUME UNCHANGED callVars PROVE CallShape'
  BY <1>27, <1>0, <1>q DEF callVars, wire, share, ListPart, EachHasItsScreen, WirePart, SharePart, ShareTypeOK, WindowsOnly
<1> QED BY <1>1, <1>2, <1>3, <1>4, <1>5, <1>6, <1>7, <1>8, <1>9, <1>10, <1>11, <1>12, <1>13, <1>14, <1>15,
           <1>16, <1>17, <1>18, <1>19, <1>20, <1>21, <1>22, <1>23, <1>24, <1>25, <1>26, <1>27, CallCases

-----------------------------------------------------------------------------
(* The screens and the runs of their join effects. *)

\* A screen is mounted with a run of its join effect; at most one of its runs
\* was not cleaned up, and none of them once it is gone.
EveryScreenJoins == \A s \in DOMAIN screen : \E j \in DOMAIN join : join[j].screen = s
OneRunGoes ==
  \A j, k \in DOMAIN join :
    join[j].screen = join[k].screen /\ ~join[j].cancelled /\ ~join[k].cancelled => j = k
LeftAreCancelled == \A j \in DOMAIN join : ~Mounted(join[j].screen) => join[j].cancelled

RollInv == EveryScreenJoins /\ OneRunGoes /\ LeftAreCancelled

\* A track that is live is published, and published by a run of that screen (0:
\* by a toggle).
MicsAreOwn ==
  \A s \in Screen : /\ live[s] \subseteq mics[s]
                    /\ \A m \in mics[s] : m # 0 => m \in DOMAIN join /\ join[m].screen = s

\* The pipeline that a screen holds was opened by a run of its own or by a
\* reopening of its own that is over; one that waits to replace it is open.
PipesAreOwn ==
  /\ \A s \in DOMAIN screen :
       \/ screen[s].ref = 0
       \/ screen[s].ref \in DOMAIN join /\ join[screen[s].ref].screen = s
       \/ \E i \in DOMAIN reopen :
            screen[s].ref = MaxJoin + i /\ reopen[i].screen = s /\ reopen[i].at = "end"
  /\ \A i \in DOMAIN reopen : reopen[i].at = "replace" => MaxJoin + i \in open

\* A screen whose only run j was left alone: it publishes one microphone at most,
\* its own, and that after it connected; the connection is where the run says; a
\* reopening comes after the run; and the pipeline that the screen holds is open
\* and the one behind the track, until the user leaves.
Alone(j) ==
  LET s == join[j].screen st == join[j].at IN
  /\ mics[s] \subseteq {j}
  /\ st \in {"mint", "mic", "connect", "publish"} => mics[s] = {}
  /\ lk[s].at = "connecting" => st = "connect"
  /\ On(s) => st \in {"publish", "mute", "keys", "end"}
  /\ On(s) /\ (st \in {"mute", "keys"} \/ screen[s].phase = "connected") => mics[s] = {j}
  /\ screen[s].phase = "connected" => st = "end"
  /\ live[s] # {} => screen[s].opted \/ st = "mute"
  /\ st # "end" => \A i \in DOMAIN reopen : reopen[i].screen # s
  /\ does.device /\ st \in {"connect", "publish"} /\ screen[s].quit = "no" => screen[s].ref = j
  /\ screen[s].quit = "no" => /\ screen[s].ref \in open \cup {0}
                              /\ j \in mics[s] => feed[j] \in {0, screen[s].ref}

\* The strengthening of MutedUntilOptIn and LiveIsHeard.
AloneInv == \A j \in DOMAIN join : Undisturbed(join[j].screen) => Alone(j)

\* Whose the runs are and which of them were cleaned up stays as it was.
SameRuns ==
  /\ DOMAIN join' = DOMAIN join
  /\ \A j \in DOMAIN join : join'[j].screen = join[j].screen /\ join'[j].cancelled = join[j].cancelled

\* ... and whose the screens are.
SameRoll ==
  /\ SameRuns /\ DOMAIN screen' = DOMAIN screen
  /\ \A s \in DOMAIN screen : screen'[s].shown = screen[s].shown

\* The steps other than going into a room and out of it.
RollKeeper ==
  \/ \E s \in Screen :
       \/ HandleLeave(s) \/ SetMuted(s) \/ ReopenMic(s)
       \/ StartShare(s) \/ StartShareAudio(s) \/ StopShare(s) \/ Kick(s) \/ ShareStep(s)
       \/ Connected(s) \/ ConnectFails(s) \/ QuitAudio(s) \/ TimerFires(s)
  \/ \E j \in DOMAIN join :
       \/ Minted(j) \/ MicOpened(j) \/ RunFails(j) \/ Published(j) \/ MutedAfter(j)
       \/ KeysDone(j) \/ LeaveAudio(j) \/ LeaveDone(j)
  \/ \E i \in DOMAIN reopen : Reopened(i) \/ Replaced(i)
  \/ HelperGone
  \/ UNCHANGED callVars

\* What most steps do to the runs and to the screens.
LEMMA AtRuns ==
  ASSUME CallShape, NEW j \in DOMAIN join,
         NEW stage \in {"mint", "mic", "connect", "publish", "mute", "keys", "end"}, join' = At(j, stage)
  PROVE  SameRuns
  BY AtType DEF SameRuns, CallShape, CallTypeOK

LEMMA EndedRuns ==
  ASSUME CallShape, NEW runs, join' = Ended(runs)
  PROVE  SameRuns
  BY EndedType DEF SameRuns, CallShape, CallTypeOK

LEMMA ScreensShown ==
  ASSUME CallShape, NEW s, NEW e,
         s \in DOMAIN screen => e.shown = screen[s].shown, screen' = [screen EXCEPT ![s] = e]
  PROVE  DOMAIN screen' = DOMAIN screen /\ \A t \in DOMAIN screen : screen'[t].shown = screen[t].shown
<1>1. screen \in Seq(ScreenState)
  BY DEF CallShape, CallTypeOK
<1> QED BY <1>1

\* They take no run and no screen away, nor add one.
LEMMA RollKept ==
  ASSUME CallShape, RollKeeper
  PROVE  SameRoll
<1>d. /\ \A s \in DOMAIN screen : screen[s] \in ScreenState
      /\ \A j \in DOMAIN join : join[j] \in JoinState /\ join[j].screen \in DOMAIN screen
      /\ \A i \in DOMAIN reopen : reopen[i] \in ReopenState /\ reopen[i].screen \in DOMAIN screen
  BY ScreenDomain DEF CallShape, EachHasItsScreen
<1>s. UNCHANGED screen => DOMAIN screen' = DOMAIN screen /\ \A s \in DOMAIN screen : screen'[s].shown = screen[s].shown
  OBVIOUS
<1>j. UNCHANGED join => SameRuns
  BY DEF SameRuns
<1>1. ASSUME NEW s \in Screen, HandleLeave(s) \/ TimerFires(s) PROVE SameRoll
  <2>1. s \in DOMAIN screen /\ screen[s] \in ScreenState
    BY <1>1, <1>d DEF HandleLeave, TimerFires, Mounted
  <2>2. PICK e : screen' = [screen EXCEPT ![s] = e] /\ e.shown = screen[s].shown
    <3>1. CASE \E c \in BOOLEAN : Quits(s, c)
      <4>1. PICK c \in BOOLEAN : Quits(s, c)
        BY <3>1
      <4>2. screen' = [screen EXCEPT ![s] = [screen[s] EXCEPT !.quit = "audio", !.ref = 0, !.timer = FALSE,
                                                              !.cancelled = screen[s].cancelled \/ c]]
        BY <4>1, <2>1 DEF Quits
      <4>3. [screen[s] EXCEPT !.quit = "audio", !.ref = 0, !.timer = FALSE,
                              !.cancelled = screen[s].cancelled \/ c].shown = screen[s].shown
        BY <2>1 DEF ScreenState
      <4> QED BY <4>2, <4>3
    <3>2. CASE screen' = [screen EXCEPT ![s].timer = FALSE]
      <4>1. [screen[s] EXCEPT !.timer = FALSE].shown = screen[s].shown
        BY <2>1 DEF ScreenState
      <4> QED BY <3>2, <4>1
    <3> QED BY <1>1, <3>1, <3>2 DEF HandleLeave, TimerFires
  <2>3. UNCHANGED join
    BY <1>1 DEF HandleLeave, TimerFires
  <2> QED BY <2>2, <2>3, <1>j, ScreensShown DEF SameRoll
<1>2. ASSUME NEW s \in Screen, SetMuted(s) \/ QuitAudio(s) \/ Kick(s) PROVE SameRoll
  <2>1. s \in DOMAIN screen /\ screen[s] \in ScreenState
    BY <1>2, <1>d DEF SetMuted, QuitAudio, Kick, Inside, Mounted, On, CallShape, EachHasItsScreen
  <2>2. \/ screen' = screen
        \/ screen' = [screen EXCEPT ![s] = [screen[s] EXCEPT !.opted = TRUE]]
        \/ screen' = [screen EXCEPT ![s] = [screen[s] EXCEPT !.quit = "disconnect"]]
        \/ screen' = [screen EXCEPT ![s] = [screen[s] EXCEPT !.kind = TRUE,
                       !.timer = screen[s].timer \/ (Mounted(s) /\ ~screen[s].kind)]]
    BY <1>2, <2>1 DEF SetMuted, QuitAudio, Kick
  <2>3. /\ [screen[s] EXCEPT !.opted = TRUE].shown = screen[s].shown
        /\ [screen[s] EXCEPT !.quit = "disconnect"].shown = screen[s].shown
        /\ [screen[s] EXCEPT !.kind = TRUE,
              !.timer = screen[s].timer \/ (Mounted(s) /\ ~screen[s].kind)].shown = screen[s].shown
    BY <2>1 DEF ScreenState
  <2>4. DOMAIN screen' = DOMAIN screen /\ \A t \in DOMAIN screen : screen'[t].shown = screen[t].shown
    BY <2>2, <2>3, <1>s, ScreensShown
  <2>5. UNCHANGED join
    BY <1>2 DEF SetMuted, QuitAudio, Kick
  <2> QED BY <2>4, <2>5, <1>j DEF SameRoll
<1>3. ASSUME NEW s \in Screen, ReopenMic(s) \/ StartShare(s) \/ StartShareAudio(s) \/ StopShare(s) \/ ShareStep(s)
      PROVE SameRoll
  BY <1>3, <1>s, <1>j DEF ReopenMic, StartShare, StartShareAudio, StopShare, ShareStep, SameRoll
<1>4. ASSUME NEW s \in Screen, Connected(s) PROVE SameRoll
  <2>1. \A j \in DOMAIN join : /\ [join[j] EXCEPT !.at = "publish"].screen = join[j].screen
                               /\ [join[j] EXCEPT !.at = "publish"].cancelled = join[j].cancelled
    BY <1>d DEF JoinState
  <2>2. SameRuns
    BY <2>1, <1>4 DEF Connected, SameRuns
  <2> QED BY <2>2, <1>4, <1>s DEF Connected, SameRoll
<1>5. ASSUME NEW s \in Screen, ConnectFails(s) PROVE SameRoll
  <2>1. SameRuns
    BY <1>5, EndedRuns DEF ConnectFails
  <2>2. screen' = [screen EXCEPT ![s] = [screen[s] EXCEPT !.phase = Shows(s, Waiting(s))]]
    BY <1>5 DEF ConnectFails
  <2>3. s \in DOMAIN screen => [screen[s] EXCEPT !.phase = Shows(s, Waiting(s))].shown = screen[s].shown
    BY <1>d DEF ScreenState
  <2> QED BY <2>1, <2>2, <2>3, ScreensShown DEF SameRoll
<1>6. ASSUME NEW j \in DOMAIN join, Minted(j) \/ Published(j) \/ MutedAfter(j) PROVE SameRoll
  <2>1. \E stage \in {"mint", "mic", "connect", "publish", "mute", "keys", "end"} : join' = At(j, stage)
    BY <1>6 DEF Minted, Connects, Published, MutedAfter
  <2>2. UNCHANGED screen
    BY <1>6 DEF Minted, Published, MutedAfter
  <2> QED BY <2>1, <2>2, <1>s, AtRuns DEF SameRoll
<1>7. ASSUME NEW j \in DOMAIN join, MicOpened(j) \/ RunFails(j) \/ KeysDone(j) PROVE SameRoll
  <2> DEFINE s == join[j].screen
  <2>1. \E stage \in {"mint", "mic", "connect", "publish", "mute", "keys", "end"} : join' = At(j, stage)
    BY <1>7 DEF MicOpened, Connects, RunFails, KeysDone
  <2>2. \/ screen' = screen
        \/ screen' = [screen EXCEPT ![s] = [screen[s] EXCEPT !.ref = j]]
        \/ screen' = [screen EXCEPT ![s] = [screen[s] EXCEPT !.phase = Shows(s, {j})]]
        \/ screen' = [screen EXCEPT ![s] = [screen[s] EXCEPT !.phase = "connected"]]
    BY <1>7, <1>d DEF MicOpened, RunFails, KeysDone
  <2>3. /\ [screen[s] EXCEPT !.ref = j].shown = screen[s].shown
        /\ [screen[s] EXCEPT !.phase = Shows(s, {j})].shown = screen[s].shown
        /\ [screen[s] EXCEPT !.phase = "connected"].shown = screen[s].shown
    <3>1. screen[s] \in ScreenState
      BY <1>d
    <3> QED BY <3>1 DEF ScreenState
  <2>4. DOMAIN screen' = DOMAIN screen /\ \A t \in DOMAIN screen : screen'[t].shown = screen[t].shown
    BY <2>2, <2>3, <1>s, ScreensShown
  <2> QED BY <2>1, <2>4, AtRuns DEF SameRoll
<1>8. ASSUME NEW j \in DOMAIN join, LeaveAudio(j) PROVE SameRoll
  <2>1. /\ [join[j] EXCEPT !.leave = "disconnect"].screen = join[j].screen
        /\ [join[j] EXCEPT !.leave = "disconnect"].cancelled = join[j].cancelled
    BY <1>d DEF JoinState
  <2> QED BY <2>1, <1>8, <1>s DEF LeaveAudio, SameRoll, SameRuns
<1>9. ASSUME NEW j \in DOMAIN join, LeaveDone(j) PROVE SameRoll
  <2> DEFINE s == join[j].screen
  <2>1. /\ Ended(Waiting(s)) \in Seq(JoinState) /\ DOMAIN Ended(Waiting(s)) = DOMAIN join
        /\ \A k \in DOMAIN join : /\ Ended(Waiting(s))[k].screen = join[k].screen
                                  /\ Ended(Waiting(s))[k].cancelled = join[k].cancelled
                                  /\ Ended(Waiting(s))[k] \in JoinState
    BY EndedType DEF CallShape, CallTypeOK
  <2>2. join' = [Ended(Waiting(s)) EXCEPT ![j] = [Ended(Waiting(s))[j] EXCEPT !.leave = "done"]]
    BY <1>9 DEF LeaveDone
  <2>3. SameRuns
    BY <2>1, <2>2 DEF SameRuns, JoinState
  <2>4. screen' = [screen EXCEPT ![s] = AfterDisconnect(s)]
    BY <1>9 DEF LeaveDone
  <2>5. AfterDisconnect(s).shown = screen[s].shown
    <3>1. screen[s] \in ScreenState
      BY <1>d
    <3> QED BY <3>1 DEF ScreenState, AfterDisconnect
  <2> QED BY <2>3, <2>4, <2>5, ScreensShown DEF SameRoll
<1>10. ASSUME NEW i \in DOMAIN reopen, Reopened(i) PROVE SameRoll
  BY <1>10, <1>s, <1>j DEF Reopened, SameRoll
<1>11. ASSUME NEW i \in DOMAIN reopen, Replaced(i) PROVE SameRoll
  <2> DEFINE s == reopen[i].screen
  <2>1. screen' = [screen EXCEPT ![s] = [screen[s] EXCEPT !.ref = MaxJoin + i]]
    BY <1>11 DEF Replaced
  <2>2. [screen[s] EXCEPT !.ref = MaxJoin + i].shown = screen[s].shown
    <3>1. screen[s] \in ScreenState
      BY <1>d
    <3> QED BY <3>1 DEF ScreenState
  <2>3. UNCHANGED join
    BY <1>11 DEF Replaced
  <2> QED BY <2>1, <2>2, <2>3, <1>j, ScreensShown DEF SameRoll
<1>12. ASSUME HelperGone \/ UNCHANGED callVars PROVE SameRoll
  BY <1>12, <1>s, <1>j DEF HelperGone, callVars, SameRoll
<1> QED BY <1>1, <1>2, <1>3, <1>4, <1>5, <1>6, <1>7, <1>8, <1>9, <1>10, <1>11, <1>12 DEF RollKeeper

\* What going into a room and out of it does to the runs.
LEMMA SwitchStep ==
  ASSUME CallShape, NEW r \in does.rooms, JoinRoom(r), active # NoRoom
  PROVE  LET s == Len(screen) IN
         /\ s \in DOMAIN screen /\ DOMAIN screen' = DOMAIN screen
         /\ screen'[s].shown = r /\ \A t \in DOMAIN screen \ {s} : screen'[t] = screen[t]
         /\ DOMAIN join' = DOMAIN join \cup {Len(join) + 1} /\ Len(join) + 1 \notin DOMAIN join
         /\ join'[Len(join) + 1] = NewRun(s, r)
         /\ \A j \in DOMAIN join : join'[j].screen = join[j].screen /\ join'[j].at = join[j].at
         /\ \A j \in DOMAIN join : join'[j].cancelled <=> (join[j].cancelled \/ join[j].screen = s)
<1> DEFINE s == Len(screen)
<1>1. /\ s \in DOMAIN screen /\ screen[s] \in ScreenState
      /\ join \in Seq(JoinState) /\ screen \in Seq(ScreenState) /\ r \in Room
  BY ScreenDomain DEF CallShape, CallTypeOK, EachHasItsScreen, Profile
<1>2. /\ screen' = [screen EXCEPT ![s].shown = r]
      /\ join' = Append(CleanedUp(s, join), NewRun(s, r))
  BY DEF JoinRoom
<1>3. NewRun(s, r) \in JoinState
  <2>1. s \in Screen
    BY <1>1, ScreenDomain
  <2> HIDE DEF s
  <2> QED BY <1>1, <2>1 DEF NewRun, JoinState
<1> HIDE DEF s
<1>4. /\ CleanedUp(s, join) \in Seq(JoinState) /\ Len(CleanedUp(s, join)) = Len(join)
      /\ DOMAIN CleanedUp(s, join) = DOMAIN join
      /\ \A j \in DOMAIN join :
           /\ CleanedUp(s, join)[j].screen = join[j].screen
           /\ CleanedUp(s, join)[j].at = join[j].at
           /\ CleanedUp(s, join)[j].cancelled <=> (join[j].cancelled \/ join[j].screen = s)
  BY <1>1, CleanedUpType
<1>5. /\ DOMAIN join' = DOMAIN join \cup {Len(join) + 1} /\ join'[Len(join) + 1] = NewRun(s, r)
      /\ \A j \in DOMAIN join : join'[j] = CleanedUp(s, join)[j]
  BY <1>2, <1>3, <1>4, Appended
<1>6. Len(join) + 1 \notin DOMAIN join
  BY <1>1
<1>7. /\ DOMAIN screen' = DOMAIN screen /\ screen'[s].shown = r
      /\ \A t \in DOMAIN screen \ {s} : screen'[t] = screen[t]
  BY <1>1, <1>2 DEF ScreenState
<1> QED BY <1>1, <1>4, <1>5, <1>6, <1>7 DEF s

LEMMA EnterStep ==
  ASSUME CallShape, NEW r \in does.rooms, JoinRoom(r), active = NoRoom
  PROVE  LET s == Len(screen) + 1 IN
         /\ s \in Screen /\ s \notin DOMAIN screen /\ DOMAIN screen' = DOMAIN screen \cup {s}
         /\ screen'[s] = NewScreen(r) /\ r \in Room /\ \A t \in DOMAIN screen : screen'[t] = screen[t]
         /\ DOMAIN join' = DOMAIN join \cup {Len(join) + 1} /\ Len(join) + 1 \notin DOMAIN join
         /\ join'[Len(join) + 1] = NewRun(s, r) /\ \A j \in DOMAIN join : join'[j] = join[j]
<1> DEFINE s == Len(screen) + 1
<1>1. join \in Seq(JoinState) /\ screen \in Seq(ScreenState) /\ r \in Room
  BY ScreenDomain DEF CallShape, CallTypeOK, Profile
<1>2. /\ Len(screen) < MaxScreen
      /\ screen' = Append(screen, NewScreen(r)) /\ join' = Append(join, NewRun(s, r))
  BY DEF JoinRoom
<1>3. s \in Screen
  BY <1>1, <1>2, CallAssumption DEF Screen
<1>4. /\ DOMAIN screen' = DOMAIN screen \cup {s} /\ screen'[s] = NewScreen(r)
      /\ \A t \in DOMAIN screen : screen'[t] = screen[t]
  <2>1. NewScreen(r) \in ScreenState
    BY <1>1 DEF NewScreen, ScreenState
  <2> QED BY <2>1, <1>1, <1>2, Appended
<1>5. /\ DOMAIN join' = DOMAIN join \cup {Len(join) + 1} /\ join'[Len(join) + 1] = NewRun(s, r)
      /\ \A j \in DOMAIN join : join'[j] = join[j]
  <2>1. NewRun(s, r) \in JoinState
    BY <1>1, <1>3 DEF NewRun, JoinState
  <2> QED BY <2>1, <1>1, <1>2, Appended
<1> QED BY <1>1, <1>3, <1>4, <1>5

LEMMA RetryStep ==
  ASSUME CallShape, NEW s \in Screen, Retry(s)
  PROVE  /\ s \in DOMAIN screen /\ DOMAIN screen' = DOMAIN screen /\ screen'[s].shown # NoRoom
         /\ \A t \in DOMAIN screen \ {s} : screen'[t] = screen[t]
         /\ DOMAIN join' = DOMAIN join \cup {Len(join) + 1} /\ Len(join) + 1 \notin DOMAIN join
         /\ join'[Len(join) + 1] = NewRun(s, screen[s].shown)
         /\ \A j \in DOMAIN join : join'[j].screen = join[j].screen /\ join'[j].at = join[j].at
         /\ \A j \in DOMAIN join : join'[j].cancelled <=> (join[j].cancelled \/ join[j].screen = s)
<1> DEFINE r == screen[s].shown
<1>1. /\ s \in DOMAIN screen /\ screen[s] \in ScreenState /\ r # NoRoom
      /\ join \in Seq(JoinState) /\ screen \in Seq(ScreenState)
  BY ScreenDomain DEF CallShape, CallTypeOK, Retry, Mounted
<1>a. r \in Room
  BY <1>1 DEF ScreenState
<1>2. /\ screen' = [screen EXCEPT ![s].phase = "connecting", ![s].cancelled = FALSE]
      /\ join' = Append(CleanedUp(s, join), NewRun(s, r))
  BY DEF Retry
<1>3. NewRun(s, r) \in JoinState
  BY <1>a DEF NewRun, JoinState
<1>4. /\ CleanedUp(s, join) \in Seq(JoinState) /\ Len(CleanedUp(s, join)) = Len(join)
      /\ DOMAIN CleanedUp(s, join) = DOMAIN join
      /\ \A j \in DOMAIN join :
           /\ CleanedUp(s, join)[j].screen = join[j].screen
           /\ CleanedUp(s, join)[j].at = join[j].at
           /\ CleanedUp(s, join)[j].cancelled <=> (join[j].cancelled \/ join[j].screen = s)
  BY <1>1, CleanedUpType
<1>5. /\ DOMAIN join' = DOMAIN join \cup {Len(join) + 1} /\ join'[Len(join) + 1] = NewRun(s, r)
      /\ \A j \in DOMAIN join : join'[j] = CleanedUp(s, join)[j]
  BY <1>2, <1>3, <1>4, Appended
<1>6. Len(join) + 1 \notin DOMAIN join
  BY <1>1
<1>7. /\ DOMAIN screen' = DOMAIN screen /\ screen'[s].shown = r
      /\ \A t \in DOMAIN screen \ {s} : screen'[t] = screen[t]
  BY <1>1, <1>2 DEF ScreenState
<1> QED BY <1>1, <1>4, <1>5, <1>6, <1>7

\* What takes a screen away: signing out, and the end of a leave.
GoesAway(s) ==
  /\ s \in DOMAIN screen /\ DOMAIN screen' = DOMAIN screen /\ screen'[s].shown = NoRoom
  /\ \A t \in DOMAIN screen \ {s} : screen'[t] = screen[t]
  /\ DOMAIN join' = DOMAIN join
  /\ \A j \in DOMAIN join : join'[j].screen = join[j].screen
  /\ \A j \in DOMAIN join : join[j].screen # s => join'[j].at = join[j].at
  /\ \A j \in DOMAIN join : join'[j].cancelled <=> (join[j].cancelled \/ (Mounted(s) /\ join[j].screen = s))

\* It cleans the runs of that screen up, if it was still there.
LEMMA AwayStep ==
  ASSUME CallShape, NEW s \in Screen, SignOut(s) \/ QuitDone(s)
  PROVE  GoesAway(s)
<1>1. /\ s \in DOMAIN screen /\ screen[s] \in ScreenState
      /\ join \in Seq(JoinState) /\ screen \in Seq(ScreenState)
  BY ScreenDomain DEF CallShape, CallTypeOK, SignOut, QuitDone, Mounted
<1>2. /\ DOMAIN screen' = DOMAIN screen /\ screen'[s].shown = NoRoom
      /\ \A t \in DOMAIN screen \ {s} : screen'[t] = screen[t]
  <2>1. PICK e : screen' = [screen EXCEPT ![s] = e] /\ e.shown = NoRoom
    <3>1. CASE SignOut(s)
      <4>1. screen' = [screen EXCEPT ![s] = [screen[s] EXCEPT !.shown = NoRoom, !.timer = FALSE]]
        BY <3>1, <1>1 DEF SignOut
      <4>2. [screen[s] EXCEPT !.shown = NoRoom, !.timer = FALSE].shown = NoRoom
        BY <1>1 DEF ScreenState
      <4> QED BY <4>1, <4>2
    <3>2. CASE QuitDone(s)
      <4>1. AfterDisconnect(s) \in ScreenState
        BY <1>1, AfterDisconnectType
      <4>2. [AfterDisconnect(s) EXCEPT !.quit = "no", !.shown = NoRoom, !.timer = FALSE].shown = NoRoom
        BY <4>1 DEF ScreenState
      <4>3. screen' = [screen EXCEPT ![s] =
                         [AfterDisconnect(s) EXCEPT !.quit = "no", !.shown = NoRoom, !.timer = FALSE]]
        BY <3>2 DEF QuitDone
      <4> QED BY <4>2, <4>3
    <3> QED BY <3>1, <3>2
  <2> QED BY <2>1, <1>1
<1>3. PICK runs \in Seq(JoinState) :
        /\ DOMAIN runs = DOMAIN join
        /\ \A j \in DOMAIN join : runs[j].screen = join[j].screen /\ runs[j].cancelled = join[j].cancelled
        /\ \A j \in DOMAIN join : join[j].screen # s => runs[j].at = join[j].at
        /\ join' = IF Mounted(s) THEN CleanedUp(s, runs) ELSE runs
  <2>1. CASE SignOut(s)
    BY <2>1, <1>1 DEF SignOut
  <2>2. CASE QuitDone(s)
    <3> DEFINE E == Ended(Waiting(s))
    <3>1. /\ E \in Seq(JoinState) /\ DOMAIN E = DOMAIN join
          /\ \A j \in DOMAIN join : E[j].screen = join[j].screen /\ E[j].cancelled = join[j].cancelled
          /\ \A j \in DOMAIN join : E[j].at = IF j \in Waiting(s) THEN "end" ELSE join[j].at
      BY <1>1, EndedType
    <3>2. \A j \in DOMAIN join : join[j].screen # s => j \notin Waiting(s)
      BY DEF Waiting
    <3>3. join' = IF Mounted(s) THEN CleanedUp(s, E) ELSE E
      BY <2>2 DEF QuitDone
    <3> HIDE DEF E
    <3> QED BY <3>1, <3>2, <3>3
  <2> QED BY <2>1, <2>2
<1>4. /\ DOMAIN join' = DOMAIN join
      /\ \A j \in DOMAIN join : join'[j].screen = join[j].screen
      /\ \A j \in DOMAIN join : join[j].screen # s => join'[j].at = join[j].at
      /\ \A j \in DOMAIN join : join'[j].cancelled <=> (join[j].cancelled \/ (Mounted(s) /\ join[j].screen = s))
  <2>1. CASE Mounted(s)
    BY <2>1, <1>3, CleanedUpType
  <2>2. CASE ~Mounted(s)
    <3>1. join' = runs
      BY <2>2, <1>3
    <3> QED BY <3>1, <2>2, <1>3
  <2> QED BY <2>1, <2>2
<1> QED BY <1>1, <1>2, <1>4 DEF GoesAway

\* Every step keeps the roll of screens and runs.
LEMMA RollInvStep == CallShape /\ RollInv /\ [CallNext]_callVars => RollInv'
<1> SUFFICES ASSUME CallShape, RollInv, [CallNext]_callVars PROVE RollInv'
  OBVIOUS
<1> USE DEF RollInv, EveryScreenJoins, OneRunGoes, LeftAreCancelled
<1>d. /\ \A j \in DOMAIN join : join[j].screen \in DOMAIN screen
      /\ \A j \in DOMAIN join : join[j].cancelled \in BOOLEAN
  BY ScreenDomain DEF CallShape, EachHasItsScreen, JoinState
<1>1. ASSUME NEW r \in does.rooms, JoinRoom(r) PROVE RollInv'
  <2>1. CASE active # NoRoom
    <3> DEFINE s == Len(screen)
    <3>1. /\ NewRun(s, r).screen = s /\ NewRun(s, r).cancelled = FALSE /\ r # NoRoom
      BY ScreenDomain, CallAssumption DEF NewRun, Profile
    <3>a. /\ s \in DOMAIN screen /\ DOMAIN screen' = DOMAIN screen
          /\ screen'[s].shown = r /\ \A t \in DOMAIN screen \ {s} : screen'[t] = screen[t]
          /\ DOMAIN join' = DOMAIN join \cup {Len(join) + 1}
          /\ join'[Len(join) + 1] = NewRun(s, r)
          /\ \A j \in DOMAIN join : join'[j].screen = join[j].screen
          /\ \A j \in DOMAIN join : join'[j].cancelled <=> (join[j].cancelled \/ join[j].screen = s)
      BY <2>1, <1>1, SwitchStep
    <3> HIDE DEF s
    <3>2. PICK k \in DOMAIN join : join[k].screen = s
      BY <3>a
    <3>3. EveryScreenJoins' /\ OneRunGoes'
      BY <3>1, <3>2, <3>a, <1>d
    <3>4. LeftAreCancelled'
      BY <3>1, <3>a, <1>d DEF Mounted
    <3> QED BY <3>3, <3>4
  <2>2. CASE active = NoRoom
    <3> DEFINE s == Len(screen) + 1
    <3>1. /\ NewRun(s, r).screen = s /\ NewRun(s, r).cancelled = FALSE
          /\ NewScreen(r).shown = r /\ r # NoRoom
      BY ScreenDomain, CallAssumption DEF NewRun, NewScreen, Profile
    <3>2. EveryScreenJoins' /\ OneRunGoes'
      BY <3>1, <2>2, <1>1, <1>d, EnterStep
    <3>3. LeftAreCancelled'
      BY <3>1, <2>2, <1>1, <1>d, EnterStep DEF Mounted
    <3> QED BY <3>2, <3>3
  <2> QED BY <2>1, <2>2
<1>2. ASSUME NEW s \in Screen, Retry(s) PROVE RollInv'
  <2>1. /\ NewRun(s, screen[s].shown).screen = s /\ NewRun(s, screen[s].shown).cancelled = FALSE
    BY DEF NewRun
  <2>2. EveryScreenJoins' /\ OneRunGoes'
    BY <2>1, <1>2, <1>d, RetryStep
  <2>3. LeftAreCancelled'
    BY <2>1, <1>2, <1>d, RetryStep DEF Mounted
  <2> QED BY <2>2, <2>3
<1>3. ASSUME NEW s \in Screen, SignOut(s) \/ QuitDone(s) PROVE RollInv'
  <2>1. EveryScreenJoins' /\ OneRunGoes'
    BY <1>3, <1>d, AwayStep DEF GoesAway
  <2>2. LeftAreCancelled'
    BY <1>3, <1>d, AwayStep DEF GoesAway, Mounted
  <2> QED BY <2>1, <2>2
<1>4. ASSUME RollKeeper PROVE RollInv'
  <2>1. EveryScreenJoins' /\ OneRunGoes'
    BY <1>4, <1>d, RollKept DEF SameRoll, SameRuns
  <2>2. LeftAreCancelled'
    BY <1>4, <1>d, RollKept DEF SameRoll, SameRuns, Mounted
  <2> QED BY <2>1, <2>2
<1> QED BY <1>1, <1>2, <1>3, <1>4, CallCases DEF RollKeeper

-----------------------------------------------------------------------------
(* Microphones and pipelines belong to the runs of their screen. *)

\* The first of one is that one.
LEMMA MinOfOne ==
  ASSUME NEW j \in 0 .. MaxJoin
  PROVE  Min({j}) = j
  BY MinType

\* Runs are never taken off the record, nor is a cleanup undone.
LEMMA RunsStay ==
  ASSUME CallShape, [CallNext]_callVars, NEW j \in DOMAIN join
  PROVE  /\ j \in DOMAIN join' /\ join'[j].screen = join[j].screen
         /\ join[j].cancelled => join'[j].cancelled
<1>1. ASSUME NEW r \in does.rooms, JoinRoom(r), active = NoRoom
      PROVE j \in DOMAIN join' /\ join'[j].screen = join[j].screen /\ (join[j].cancelled => join'[j].cancelled)
  BY <1>1, EnterStep
<1>2. ASSUME NEW r \in does.rooms, JoinRoom(r), active # NoRoom
      PROVE j \in DOMAIN join' /\ join'[j].screen = join[j].screen /\ (join[j].cancelled => join'[j].cancelled)
  BY <1>2, SwitchStep
<1>3. ASSUME NEW s \in Screen, Retry(s)
      PROVE j \in DOMAIN join' /\ join'[j].screen = join[j].screen /\ (join[j].cancelled => join'[j].cancelled)
  BY <1>3, RetryStep
<1>4. ASSUME NEW s \in Screen, SignOut(s) \/ QuitDone(s)
      PROVE j \in DOMAIN join' /\ join'[j].screen = join[j].screen /\ (join[j].cancelled => join'[j].cancelled)
  BY <1>4, AwayStep DEF GoesAway
<1>5. ASSUME RollKeeper
      PROVE j \in DOMAIN join' /\ join'[j].screen = join[j].screen /\ (join[j].cancelled => join'[j].cancelled)
  BY <1>5, RollKept DEF SameRoll, SameRuns
<1> QED BY <1>1, <1>2, <1>3, <1>4, <1>5, CallCases DEF RollKeeper

\* Every step keeps microphones with their runs.
LEMMA MicsStep == CallShape /\ MicsAreOwn /\ [CallNext]_callVars => MicsAreOwn'
<1> SUFFICES ASSUME CallShape, MicsAreOwn, [CallNext]_callVars PROVE MicsAreOwn'
  OBVIOUS
<1>0. WirePart /\ SharePart
  BY ShapeParts
<1>d. /\ Screen = Wrapper /\ \A j \in DOMAIN join : join[j].screen \in Screen /\ j \in 0 .. MaxJoin
  BY ScreenDomain, CallAssumption DEF JoinState
<1>r. \A j \in DOMAIN join : j \in DOMAIN join' /\ join'[j].screen = join[j].screen
  BY RunsStay
<1>k. UNCHANGED <<mics, live>> => MicsAreOwn'
  BY <1>r DEF MicsAreOwn
<1>e. ASSUME NEW s \in Screen, Disconnected(s) PROVE MicsAreOwn'
  BY <1>e, <1>r, <1>0 DEF MicsAreOwn, Disconnected, WirePart
<1>m. ASSUME NEW s \in Screen, Muted(s), UNCHANGED mics PROVE MicsAreOwn'
  <2>1. live'[s] \subseteq live[s] /\ \A t \in Screen \ {s} : live'[t] = live[t]
    BY <1>m, <1>0, MutedType
  <2> QED BY <2>1, <1>m, <1>r DEF MicsAreOwn
<1>n. ASSUME NEW s \in Screen, NEW j \in 0 .. MaxJoin, Enabled(s, j), j = 0 \/ (j \in DOMAIN join /\ join[j].screen = s)
      PROVE MicsAreOwn'
  <2> DEFINE m == IF mics[s] = {} THEN j ELSE Min(mics[s])
  <2>1. m = j \/ m \in mics[s]
    BY <1>0, MinType DEF WirePart
  <2>2. mics' = [mics EXCEPT ![s] = @ \cup {m}] /\ live' = [live EXCEPT ![s] = @ \cup {m}]
    BY <1>n DEF Enabled
  <2> HIDE DEF m
  <2> QED BY <2>1, <2>2, <1>n, <1>r, <1>0 DEF MicsAreOwn, WirePart
<1>1. ASSUME NEW s \in Screen, SetMuted(s) PROVE MicsAreOwn'
  <2>1. 0 \in 0 .. MaxJoin
    BY CallAssumption
  <2> QED BY <2>1, <1>1, <1>m, <1>n DEF SetMuted
<1>2. ASSUME NEW j \in DOMAIN join, Published(j) PROVE MicsAreOwn'
  <2> DEFINE s == join[j].screen
  <2>1. CASE Enabled(s, j)
    BY <2>1, <1>n, <1>d
  <2>2. CASE mics' = [mics EXCEPT ![s] = @ \cup {j}] /\ live' = [live EXCEPT ![s] = @ \cup {j}]
    BY <2>2, <1>r, <1>0 DEF MicsAreOwn, WirePart
  <2> QED BY <2>1, <2>2, <1>2 DEF Published
<1>3. ASSUME NEW j \in DOMAIN join, MutedAfter(j) PROVE MicsAreOwn'
  BY <1>3, <1>d, <1>m DEF MutedAfter
<1>4. ASSUME NEW s \in Screen, Kick(s) \/ QuitDone(s) PROVE MicsAreOwn'
  BY <1>4, <1>e DEF Kick, QuitDone
<1>5. ASSUME NEW j \in DOMAIN join, LeaveDone(j) PROVE MicsAreOwn'
  BY <1>5, <1>d, <1>e DEF LeaveDone
<1>6. ASSUME NEW r \in does.rooms, JoinRoom(r) PROVE MicsAreOwn'
  BY <1>6, <1>k DEF JoinRoom, wire
<1>7. ASSUME NEW s \in Screen,
             \/ Retry(s) \/ SignOut(s) \/ HandleLeave(s) \/ ReopenMic(s)
             \/ StartShare(s) \/ StartShareAudio(s) \/ StopShare(s) \/ ShareStep(s)
             \/ Connected(s) \/ ConnectFails(s) \/ QuitAudio(s) \/ TimerFires(s)
      PROVE MicsAreOwn'
  BY <1>7, <1>k DEF Retry, SignOut, HandleLeave, ReopenMic, StartShare, StartShareAudio, StopShare, ShareStep,
                    Connected, ConnectFails, QuitAudio, TimerFires, wire
<1>8. ASSUME NEW j \in DOMAIN join, Minted(j) \/ MicOpened(j) \/ RunFails(j) \/ KeysDone(j) \/ LeaveAudio(j)
      PROVE MicsAreOwn'
  BY <1>8, <1>k DEF Minted, MicOpened, Connects, RunFails, KeysDone, LeaveAudio, wire
<1>9. ASSUME NEW i \in DOMAIN reopen, Reopened(i) \/ Replaced(i) PROVE MicsAreOwn'
  BY <1>9, <1>k DEF Reopened, Replaced, wire
<1>10. ASSUME HelperGone \/ UNCHANGED callVars PROVE MicsAreOwn'
  BY <1>10, <1>k DEF HelperGone, callVars, wire
<1> QED BY <1>1, <1>2, <1>3, <1>4, <1>5, <1>6, <1>7, <1>8, <1>9, <1>10, CallCases

\* The steps that neither open a pipeline nor close one.
LEMMA RefsKept ==
  ASSUME CallShape, [CallNext]_callVars,
         \A s \in Screen : ~HandleLeave(s) /\ ~TimerFires(s) /\ ~ReopenMic(s),
         \A j \in DOMAIN join : ~MicOpened(j), \A i \in DOMAIN reopen : ~Reopened(i) /\ ~Replaced(i)
  PROVE  /\ open' = open /\ DOMAIN screen \subseteq DOMAIN screen' /\ DOMAIN reopen' = DOMAIN reopen
         /\ \A s \in DOMAIN screen : screen'[s].ref = screen[s].ref
         /\ \A s \in DOMAIN screen' : s \in DOMAIN screen \/ screen'[s].ref = 0
         /\ \A i \in DOMAIN reopen : reopen'[i].screen = reopen[i].screen /\ reopen'[i].at = reopen[i].at
<1> DEFINE Kept ==
             /\ open' = open /\ DOMAIN screen \subseteq DOMAIN screen' /\ DOMAIN reopen' = DOMAIN reopen
             /\ \A s \in DOMAIN screen : screen'[s].ref = screen[s].ref
             /\ \A s \in DOMAIN screen' : s \in DOMAIN screen \/ screen'[s].ref = 0
             /\ \A i \in DOMAIN reopen : reopen'[i].screen = reopen[i].screen /\ reopen'[i].at = reopen[i].at
<1>d. /\ \A s \in DOMAIN screen : screen[s] \in ScreenState
      /\ \A j \in DOMAIN join : join[j].screen \in DOMAIN screen
      /\ reopen \in Seq(ReopenState) /\ screen \in Seq(ScreenState)
  BY ScreenDomain DEF CallShape, EachHasItsScreen, CallTypeOK
<1>u. open' = open /\ screen' = screen /\ reopen' = reopen => Kept
  OBVIOUS
<1>s. ASSUME NEW s \in DOMAIN screen, NEW e, e.ref = screen[s].ref, screen' = [screen EXCEPT ![s] = e],
             open' = open, reopen' = reopen \/ reopen' = CalledOff(s)
      PROVE Kept
  <2>1. /\ DOMAIN screen' = DOMAIN screen /\ \A t \in DOMAIN screen : screen'[t].ref = screen[t].ref
    BY <1>s, <1>d
  <2>2. /\ DOMAIN reopen' = DOMAIN reopen
        /\ \A i \in DOMAIN reopen : reopen'[i].screen = reopen[i].screen /\ reopen'[i].at = reopen[i].at
    BY <1>s, <1>d, CalledOffType
  <2> QED BY <2>1, <2>2, <1>s
<1>1. ASSUME NEW r \in does.rooms, JoinRoom(r) PROVE Kept
  <2>1. CASE active = NoRoom
    <3>1. NewScreen(r).ref = 0 /\ open' = open /\ reopen' = reopen
      BY <1>1 DEF NewScreen, JoinRoom
    <3> QED BY <3>1, <2>1, <1>1, EnterStep
  <2>2. CASE active # NoRoom
    <3> DEFINE s == Len(screen)
    <3>1. s \in DOMAIN screen
      BY <2>2, <1>1, SwitchStep
    <3>2. screen' = [screen EXCEPT ![s] = [screen[s] EXCEPT !.shown = r]] /\ open' = open /\ reopen' = reopen
      BY <2>2, <1>1, <3>1, <1>d DEF JoinRoom
    <3>3. [screen[s] EXCEPT !.shown = r].ref = screen[s].ref
      BY <3>1, <1>d DEF ScreenState
    <3> HIDE DEF s, Kept
    <3> QED BY <3>1, <3>2, <3>3, <1>s
  <2> QED BY <2>1, <2>2
<1>2. ASSUME NEW s \in Screen, Retry(s) \/ SignOut(s) \/ SetMuted(s) \/ Kick(s) \/ QuitAudio(s) PROVE Kept
  <2>1. s \in DOMAIN screen /\ screen[s] \in ScreenState
    BY <1>2, <1>d DEF Retry, SignOut, SetMuted, QuitAudio, Kick, Inside, Mounted, On, CallShape, EachHasItsScreen
  <2>2. \/ screen' = screen
        \/ screen' = [screen EXCEPT ![s] = [screen[s] EXCEPT !.phase = "connecting", !.cancelled = FALSE]]
        \/ screen' = [screen EXCEPT ![s] = [screen[s] EXCEPT !.shown = NoRoom, !.timer = FALSE]]
        \/ screen' = [screen EXCEPT ![s] = [screen[s] EXCEPT !.opted = TRUE]]
        \/ screen' = [screen EXCEPT ![s] = [screen[s] EXCEPT !.quit = "disconnect"]]
        \/ screen' = [screen EXCEPT ![s] = [screen[s] EXCEPT !.kind = TRUE,
                       !.timer = screen[s].timer \/ (Mounted(s) /\ ~screen[s].kind)]]
    BY <1>2, <2>1 DEF Retry, SignOut, SetMuted, QuitAudio, Kick
  <2>3. \E e : e.ref = screen[s].ref /\ screen' = [screen EXCEPT ![s] = e]
    <3>1. /\ screen[s].ref = screen[s].ref
          /\ [screen[s] EXCEPT !.phase = "connecting", !.cancelled = FALSE].ref = screen[s].ref
          /\ [screen[s] EXCEPT !.shown = NoRoom, !.timer = FALSE].ref = screen[s].ref
          /\ [screen[s] EXCEPT !.opted = TRUE].ref = screen[s].ref
          /\ [screen[s] EXCEPT !.quit = "disconnect"].ref = screen[s].ref
          /\ [screen[s] EXCEPT !.kind = TRUE,
                !.timer = screen[s].timer \/ (Mounted(s) /\ ~screen[s].kind)].ref = screen[s].ref
      BY <2>1 DEF ScreenState
    <3>2. screen = [screen EXCEPT ![s] = screen[s]]
      BY <1>d
    <3> QED BY <3>1, <3>2, <2>2
  <2>4. open' = open /\ (reopen' = reopen \/ reopen' = CalledOff(s))
    BY <1>2 DEF Retry, SignOut, SetMuted, QuitAudio, Kick
  <2> HIDE DEF Kept
  <2> QED BY <2>1, <2>3, <2>4, <1>s
<1>3. ASSUME NEW s \in Screen, StartShare(s) \/ StartShareAudio(s) \/ StopShare(s) \/ ShareStep(s) \/ Connected(s)
      PROVE Kept
  BY <1>3, <1>u DEF StartShare, StartShareAudio, StopShare, ShareStep, Connected
<1>4. ASSUME NEW s \in Screen, ConnectFails(s) PROVE Kept
  <2>1. s \in DOMAIN screen /\ screen[s] \in ScreenState
    BY <1>4, <1>d DEF ConnectFails, CallShape, EachHasItsScreen
  <2>2. /\ screen' = [screen EXCEPT ![s] = [screen[s] EXCEPT !.phase = Shows(s, Waiting(s))]]
        /\ open' = open /\ reopen' = reopen
    BY <1>4 DEF ConnectFails
  <2>3. [screen[s] EXCEPT !.phase = Shows(s, Waiting(s))].ref = screen[s].ref
    BY <2>1 DEF ScreenState
  <2> HIDE DEF Kept
  <2> QED BY <2>1, <2>2, <2>3, <1>s
<1>5. ASSUME NEW s \in Screen, QuitDone(s) PROVE Kept
  <2>1. s \in DOMAIN screen /\ screen[s] \in ScreenState
    BY <1>5, <1>d DEF QuitDone
  <2>2. /\ screen' = [screen EXCEPT ![s] =
                        [AfterDisconnect(s) EXCEPT !.quit = "no", !.shown = NoRoom, !.timer = FALSE]]
        /\ open' = open /\ (reopen' = reopen \/ reopen' = CalledOff(s))
    BY <1>5 DEF QuitDone
  <2>3. [AfterDisconnect(s) EXCEPT !.quit = "no", !.shown = NoRoom, !.timer = FALSE].ref = screen[s].ref
    BY <2>1 DEF AfterDisconnect, ScreenState
  <2> HIDE DEF Kept
  <2> QED BY <2>1, <2>2, <2>3, <1>s
<1>6. ASSUME NEW j \in DOMAIN join, LeaveDone(j) PROVE Kept
  <2> DEFINE s == join[j].screen
  <2>1. s \in DOMAIN screen /\ screen[s] \in ScreenState
    BY <1>d
  <2>2. screen' = [screen EXCEPT ![s] = AfterDisconnect(s)] /\ open' = open /\ reopen' = reopen
    BY <1>6 DEF LeaveDone
  <2>3. AfterDisconnect(s).ref = screen[s].ref
    BY <2>1 DEF AfterDisconnect, ScreenState
  <2> HIDE DEF s, Kept
  <2> QED BY <2>1, <2>2, <2>3, <1>s
<1>7. ASSUME NEW j \in DOMAIN join, Minted(j) \/ Published(j) \/ MutedAfter(j) \/ LeaveAudio(j) PROVE Kept
  BY <1>7, <1>u DEF Minted, Published, MutedAfter, LeaveAudio
<1>8. ASSUME NEW j \in DOMAIN join, RunFails(j) \/ KeysDone(j) PROVE Kept
  <2> DEFINE s == join[j].screen
  <2>1. s \in DOMAIN screen /\ screen[s] \in ScreenState
    BY <1>d
  <2>2. /\ \/ screen' = screen
           \/ \E p : screen' = [screen EXCEPT ![s] = [screen[s] EXCEPT !.phase = p]]
        /\ open' = open /\ reopen' = reopen
    BY <1>8 DEF RunFails, KeysDone
  <2>3. \A p : [screen[s] EXCEPT !.phase = p].ref = screen[s].ref
    BY <2>1 DEF ScreenState
  <2> HIDE DEF s, Kept
  <2> QED BY <2>1, <2>2, <2>3, <1>s, <1>u
<1>9. ASSUME HelperGone \/ UNCHANGED callVars PROVE Kept
  BY <1>9, <1>u DEF HelperGone, callVars
<1> QED BY <1>1, <1>2, <1>3, <1>4, <1>5, <1>6, <1>7, <1>8, <1>9, CallCases

\* Every step keeps pipelines with their screens.
LEMMA PipesStep == CallShape /\ PipesAreOwn /\ [CallNext]_callVars => PipesAreOwn'
<1> SUFFICES ASSUME CallShape, PipesAreOwn, [CallNext]_callVars PROVE PipesAreOwn'
  OBVIOUS
<1>d. /\ \A s \in DOMAIN screen : screen[s] \in ScreenState
      /\ \A j \in DOMAIN join : join[j].screen \in DOMAIN screen /\ j \in Nat /\ j <= MaxJoin
      /\ \A i \in DOMAIN reopen : reopen[i].screen \in DOMAIN screen /\ i \in Nat /\ i >= 1 /\ reopen[i] \in ReopenState
      /\ screen \in Seq(ScreenState) /\ MaxJoin \in Nat
      /\ reopen \in Seq(ReopenState)
  BY ScreenDomain, CallAssumption DEF CallShape, EachHasItsScreen, CallTypeOK
<1>r. \A j \in DOMAIN join : j \in DOMAIN join' /\ join'[j].screen = join[j].screen
  BY RunsStay
\* What closes a pipeline closes none that waits to be put in use.
<1>c. \A s \in DOMAIN screen, i \in DOMAIN reopen : reopen[i].at = "replace" => screen[s].ref # MaxJoin + i
  BY <1>d DEF PipesAreOwn
<1>1. ASSUME NEW s \in Screen, HandleLeave(s) \/ TimerFires(s) PROVE PipesAreOwn'
  <2>1. s \in DOMAIN screen /\ screen[s] \in ScreenState
    BY <1>1, <1>d DEF HandleLeave, TimerFires, Mounted
  <2>2. UNCHANGED <<join, reopen>>
    BY <1>1 DEF HandleLeave, TimerFires
  <2>3. CASE \E c \in BOOLEAN : Quits(s, c)
    <3>1. /\ DOMAIN screen' = DOMAIN screen /\ screen'[s].ref = 0
          /\ \A t \in DOMAIN screen \ {s} : screen'[t] = screen[t]
          /\ open' = open \ {screen[s].ref}
      BY <2>1, <2>3, <1>d DEF Quits, ScreenState
    <3> QED BY <3>1, <2>1, <2>2, <1>c DEF PipesAreOwn
  <2>4. CASE screen' = [screen EXCEPT ![s].timer = FALSE] /\ open' = open
    <3>1. /\ DOMAIN screen' = DOMAIN screen /\ screen'[s].ref = screen[s].ref
          /\ \A t \in DOMAIN screen \ {s} : screen'[t] = screen[t]
      BY <2>1, <2>4, <1>d DEF ScreenState
    <3> QED BY <3>1, <2>1, <2>2, <2>4 DEF PipesAreOwn
  <2> QED BY <2>3, <2>4, <1>1 DEF HandleLeave, TimerFires
<1>2. ASSUME NEW s \in Screen, ReopenMic(s) PROVE PipesAreOwn'
  <2> DEFINE e == [screen |-> s, at |-> "mic", cancelled |-> FALSE]
  <2>1. e \in ReopenState /\ e.at = "mic"
    BY DEF ReopenState
  <2>2. /\ CalledOff(s) \in Seq(ReopenState) /\ Len(CalledOff(s)) = Len(reopen)
        /\ DOMAIN CalledOff(s) = DOMAIN reopen
        /\ \A i \in DOMAIN reopen : /\ CalledOff(s)[i].screen = reopen[i].screen
                                    /\ CalledOff(s)[i].at = reopen[i].at
    BY <1>d, CalledOffType
  <2>3. reopen' = Append(CalledOff(s), e) /\ UNCHANGED <<screen, join, open>>
    BY <1>2 DEF ReopenMic
  <2> HIDE DEF e
  <2>4. /\ DOMAIN reopen' = DOMAIN reopen \cup {Len(reopen) + 1} /\ reopen'[Len(reopen) + 1].at = "mic"
        /\ \A i \in DOMAIN reopen : reopen'[i].screen = reopen[i].screen /\ reopen'[i].at = reopen[i].at
    BY <2>1, <2>2, <2>3, Appended
  <2> QED BY <2>3, <2>4 DEF PipesAreOwn
<1>3. ASSUME NEW j \in DOMAIN join, MicOpened(j) PROVE PipesAreOwn'
  <2> DEFINE s == join[j].screen
  <2>1. /\ DOMAIN screen' = DOMAIN screen /\ screen'[s].ref = j
        /\ \A t \in DOMAIN screen \ {s} : screen'[t] = screen[t]
        /\ open' = open \cup {j} /\ reopen' = reopen
    BY <1>3, <1>d DEF MicOpened, ScreenState
  <2> QED BY <2>1, <1>r DEF PipesAreOwn
<1>4. ASSUME NEW i \in DOMAIN reopen, Reopened(i) PROVE PipesAreOwn'
  <2>1. /\ DOMAIN reopen' = DOMAIN reopen
        /\ \A k \in DOMAIN reopen : reopen'[k].screen = reopen[k].screen
        /\ \A k \in DOMAIN reopen \ {i} : reopen'[k].at = reopen[k].at
        /\ reopen'[i].at = "replace" => open' = open \cup {MaxJoin + i}
        /\ open \subseteq open' /\ UNCHANGED <<screen, join>> /\ reopen[i].at = "mic"
    <3>1. PICK stage \in {"replace", "end"} :
            /\ reopen' = [reopen EXCEPT ![i].at = stage]
            /\ stage = "replace" => open' = open \cup {MaxJoin + i}
            /\ open \subseteq open' /\ UNCHANGED <<screen, join>> /\ reopen[i].at = "mic"
      BY <1>4 DEF Reopened
    <3>2. /\ [reopen[i] EXCEPT !.at = stage].at = stage
          /\ [reopen[i] EXCEPT !.at = stage].screen = reopen[i].screen
      BY <1>d DEF ReopenState
    <3> QED BY <3>1, <3>2, <1>d
  <2> QED BY <2>1 DEF PipesAreOwn
<1>5. ASSUME NEW i \in DOMAIN reopen, Replaced(i) PROVE PipesAreOwn'
  <2> DEFINE s == reopen[i].screen
  <2>1. /\ DOMAIN reopen' = DOMAIN reopen
        /\ \A k \in DOMAIN reopen : reopen'[k].screen = reopen[k].screen
        /\ \A k \in DOMAIN reopen \ {i} : reopen'[k].at = reopen[k].at
        /\ reopen'[i].at = "end"
    BY <1>5, <1>d DEF Replaced, ReopenState
  <2>2. /\ DOMAIN screen' = DOMAIN screen /\ screen'[s].ref = MaxJoin + i
        /\ \A t \in DOMAIN screen \ {s} : screen'[t] = screen[t]
        /\ open' = open \ {screen[s].ref} /\ join' = join
    BY <1>5, <1>d DEF Replaced, ScreenState
  <2>3. s \in DOMAIN screen
    BY <1>d
  <2>4. ASSUME NEW t \in DOMAIN screen, t # s
        PROVE  \/ screen'[t].ref = 0
               \/ screen'[t].ref \in DOMAIN join' /\ join'[screen'[t].ref].screen = t
               \/ \E k \in DOMAIN reopen' :
                    screen'[t].ref = MaxJoin + k /\ reopen'[k].screen = t /\ reopen'[k].at = "end"
    <3>1. screen'[t].ref = screen[t].ref
      BY <2>2, <2>4
    <3>2. \A k \in DOMAIN reopen : reopen[k].at = "end" => reopen'[k].at = "end"
      BY <2>1
    <3> QED BY <3>1, <3>2, <2>1, <2>2 DEF PipesAreOwn
  <2>5. screen'[s].ref = MaxJoin + i /\ reopen'[i].screen = s /\ reopen'[i].at = "end"
    BY <2>1, <2>2
  <2>6. \A k \in DOMAIN reopen' : reopen'[k].at = "replace" => MaxJoin + k \in open'
    BY <2>1, <2>2, <2>3, <1>c DEF PipesAreOwn
  <2> HIDE DEF s
  <2> QED BY <2>1, <2>2, <2>4, <2>5, <2>6 DEF PipesAreOwn
<1>6. ASSUME \A s \in Screen : ~HandleLeave(s) /\ ~TimerFires(s) /\ ~ReopenMic(s),
             \A j \in DOMAIN join : ~MicOpened(j), \A i \in DOMAIN reopen : ~Reopened(i) /\ ~Replaced(i)
      PROVE PipesAreOwn'
  BY <1>6, <1>r, RefsKept DEF PipesAreOwn
<1> QED BY <1>1, <1>2, <1>3, <1>4, <1>5, <1>6

-----------------------------------------------------------------------------
(* The screen that was left alone. *)

\* What Alone is about, as it was.
SameMedia(s) ==
  /\ lk'[s] = lk[s] /\ mics'[s] = mics[s] /\ live'[s] = live[s]
SameLooks(s) ==
  /\ screen'[s].phase = screen[s].phase /\ screen'[s].opted = screen[s].opted
  /\ screen'[s].quit = screen[s].quit /\ screen'[s].ref = screen[s].ref
NoNewReopens(s) ==
  \A i \in DOMAIN reopen' : reopen'[i].screen = s => i \in DOMAIN reopen /\ reopen[i].screen = s
StaysOpen(s) == screen[s].ref \in open => screen[s].ref \in open'

\* A step that changes none of it keeps it.
LEMMA AloneKept ==
  ASSUME NEW j, Alone(j), NEW s, s = join[j].screen, join'[j].screen = s, join'[j].at = join[j].at,
         SameMedia(s), SameLooks(s), NoNewReopens(s), StaysOpen(s), feed'[j] = feed[j], does' = does
  PROVE  Alone(j)'
<1> USE DEF Alone, SameMedia, SameLooks, On
<1>1. /\ mics'[s] \subseteq {j}
      /\ join'[j].at \in {"mint", "mic", "connect", "publish"} => mics'[s] = {}
      /\ lk'[s].at = "connecting" => join'[j].at = "connect"
      /\ lk'[s].at = "on" => join'[j].at \in {"publish", "mute", "keys", "end"}
      /\ lk'[s].at = "on" /\ (join'[j].at \in {"mute", "keys"} \/ screen'[s].phase = "connected") => mics'[s] = {j}
      /\ screen'[s].phase = "connected" => join'[j].at = "end"
      /\ live'[s] # {} => screen'[s].opted \/ join'[j].at = "mute"
  OBVIOUS
<1>2. join'[j].at # "end" => \A i \in DOMAIN reopen' : reopen'[i].screen # s
  BY DEF NoNewReopens
<1>3. /\ does'.device /\ join'[j].at \in {"connect", "publish"} /\ screen'[s].quit = "no" => screen'[s].ref = j
      /\ screen'[s].quit = "no" => /\ screen'[s].ref \in open' \cup {0}
                                   /\ j \in mics'[s] => feed'[j] \in {0, screen'[s].ref}
  BY DEF StaysOpen
<1> QED BY <1>1, <1>2, <1>3

\* The other screens, in a step of s.
OthersKept(s) ==
  /\ does' = does
  /\ \A t \in DOMAIN screen \ {s} : SameMedia(t) /\ SameLooks(t) /\ NoNewReopens(t) /\ StaysOpen(t)
  /\ \A j \in DOMAIN join : join[j].screen # s => join'[j].at = join[j].at /\ feed'[j] = feed[j]

\* The inductive invariant.
AloneInvs == CallShape /\ RollInv /\ MicsAreOwn /\ PipesAreOwn /\ AloneInv

\* It is enough to look at the screen that takes the step.
LEMMA AloneActor ==
  ASSUME CallShape, [CallNext]_callVars, AloneInv, NEW s, OthersKept(s), DOMAIN join' = DOMAIN join,
         \A j \in DOMAIN join :
           join[j].screen = s /\ Undisturbed(s) /\ Undisturbed(s)' /\ Alone(j) => Alone(j)'
  PROVE  AloneInv'
<1> SUFFICES ASSUME NEW j \in DOMAIN join', Undisturbed(join[j].screen)' PROVE Alone(j)'
  BY DEF AloneInv
<1> DEFINE t == join[j].screen
<1>1. j \in DOMAIN join /\ join'[j].screen = t /\ t \in DOMAIN screen
  BY RunsStay DEF CallShape, EachHasItsScreen
<1>2. Undisturbed(t)
  BY <1>1, RunsStay DEF Undisturbed
<1>3. Alone(j)
  BY <1>1, <1>2 DEF AloneInv
<1>4. CASE t = s
  <2>1. Undisturbed(s) /\ Undisturbed(s)'
    BY <1>1, <1>2, <1>4 DEF Undisturbed
  <2> QED BY <1>1, <1>3, <1>4, <2>1
<1>5. CASE t # s
  BY <1>1, <1>3, <1>5, AloneKept DEF OthersKept
<1> QED BY <1>4, <1>5

\* On a screen that was left alone there is one run.
LEMMA OneRun ==
  ASSUME RollInv, NEW j \in DOMAIN join, NEW k \in DOMAIN join,
         join[j].screen = join[k].screen, Undisturbed(join[j].screen)
  PROVE  j = k
  BY DEF RollInv, OneRunGoes, Undisturbed

\* Every step keeps it: one step per action, and under it what the action does to
\* the screen that takes it.
LEMMA AloneStep == AloneInvs /\ CallShape' /\ [CallNext]_callVars => AloneInv'
<1> SUFFICES ASSUME AloneInvs, CallShape', [CallNext]_callVars PROVE AloneInv'
  OBVIOUS
<1> USE DEF AloneInvs
<1>0. WirePart /\ SharePart
  BY ShapeParts
<1>d. /\ Screen = Wrapper /\ DOMAIN screen \subseteq Screen /\ 0 \in 0 .. MaxJoin
      /\ \A s \in DOMAIN screen : screen[s] \in ScreenState
      /\ \A j \in DOMAIN join : /\ join[j] \in JoinState /\ join[j].screen \in Screen /\ j \in 1 .. MaxJoin
                                /\ join[j].screen \in DOMAIN screen
      /\ \A i \in DOMAIN reopen : reopen[i] \in ReopenState /\ reopen[i].screen \in DOMAIN screen
      /\ screen \in Seq(ScreenState) /\ join \in Seq(JoinState) /\ reopen \in Seq(ReopenState)
      /\ MaxJoin \in Nat /\ open \subseteq Pipe /\ 0 \notin Pipe
  BY ScreenDomain, CallAssumption DEF CallShape, EachHasItsScreen, CallTypeOK, JoinState, Pipe
\* Nothing that Alone is about changed.
<1>k. ASSUME UNCHANGED <<does, screen, reopen, open, lk, mics, live, feed>>, DOMAIN join' = DOMAIN join,
             \A j \in DOMAIN join : join'[j].at = join[j].at
      PROVE AloneInv'
  <2>1. \A t : SameMedia(t) /\ SameLooks(t) /\ NoNewReopens(t) /\ StaysOpen(t)
    BY <1>k DEF SameMedia, SameLooks, NoNewReopens, StaysOpen
  <2>2. ASSUME NEW j \in DOMAIN join, Alone(j) PROVE Alone(j)'
    <3>1. join'[j].screen = join[j].screen
      BY RunsStay
    <3> QED BY <3>1, <2>1, <2>2, <1>k, AloneKept
  <2>3. \A s : OthersKept(s)
    BY <2>1, <1>k DEF OthersKept
  <2> QED BY <2>2, <2>3, <1>k, AloneActor
\* Reopenings that are the same, or called off.
<1>r. \A t : reopen' = reopen \/ reopen' = CalledOff(t) => \A s : NoNewReopens(s)
  BY <1>d, CalledOffType DEF NoNewReopens
\* A screen that changed, with the others as they were.
<1>s. ASSUME NEW s, DOMAIN screen \subseteq DOMAIN screen', \A t \in DOMAIN screen \ {s} : screen'[t] = screen[t]
      PROVE \A t \in DOMAIN screen \ {s} : SameLooks(t)
  BY <1>s DEF SameLooks
\* A pipeline that s closed is not in use on another screen.
<1>o. ASSUME NEW s \in DOMAIN screen, open \ {screen[s].ref} \subseteq open'
      PROVE \A t \in DOMAIN screen \ {s} : StaysOpen(t)
  <2> SUFFICES ASSUME NEW t \in DOMAIN screen \ {s}, screen[t].ref \in open, screen[t].ref = screen[s].ref
               PROVE FALSE
    BY <1>o DEF StaysOpen
  <2>1. screen[t].ref # 0
    BY <1>d
  <2>2. \A i \in DOMAIN reopen : MaxJoin + i \notin DOMAIN join
    <3>1. \A i \in DOMAIN reopen : i \in Nat /\ i >= 1
      BY <1>d
    <3> QED BY <3>1, <1>d
  <2>3. \A i, k \in DOMAIN reopen : MaxJoin + i = MaxJoin + k => i = k
    BY <1>d
  <2> QED BY <2>1, <2>2, <2>3 DEF PipesAreOwn
<1>1. ASSUME NEW r \in does.rooms, JoinRoom(r) PROVE AloneInv'
  <2>n. PICK n : n = Len(join) + 1
    OBVIOUS
  <2>0. /\ r \in Room /\ UNCHANGED <<does, reopen, open, lk, mics, live, feed>>
    BY <1>1, ScreenDomain DEF JoinRoom, wire, Profile
  <2>1. CASE active # NoRoom
    <3>s. PICK s : s = Len(screen)
      OBVIOUS
    <3>1. /\ s \in DOMAIN screen /\ DOMAIN screen' = DOMAIN screen
          /\ \A t \in DOMAIN screen \ {s} : screen'[t] = screen[t]
          /\ DOMAIN join' = DOMAIN join \cup {n} /\ join'[n].screen = s
          /\ \A j \in DOMAIN join : join'[j].screen = join[j].screen /\ join'[j].at = join[j].at
          /\ \A j \in DOMAIN join : join'[j].cancelled <=> (join[j].cancelled \/ join[j].screen = s)
      <4>1. NewRun(s, r).screen = s
        BY DEF NewRun
      <4> QED BY <4>1, <2>n, <3>s, <2>1, <1>1, SwitchStep
    <3>2. ~Undisturbed(s)'
      BY <3>1 DEF RollInv, EveryScreenJoins, Undisturbed
    <3>3. ASSUME NEW j \in DOMAIN join', Undisturbed(join[j].screen)' PROVE Alone(j)'
      <4>1. j \in DOMAIN join /\ join[j].screen # s /\ join[j].screen \in DOMAIN screen
        BY <3>1, <3>2, <3>3, <1>d DEF Undisturbed
      <4>2. Undisturbed(join[j].screen) /\ join'[j].screen = join[j].screen
        BY <3>1, <3>3, <4>1, RunsStay DEF Undisturbed
      <4>3. Alone(j)
        BY <4>1, <4>2 DEF AloneInv
      <4>4. LET t == join[j].screen IN SameMedia(t) /\ SameLooks(t) /\ NoNewReopens(t) /\ StaysOpen(t)
        BY <4>1, <3>1, <2>0 DEF SameMedia, SameLooks, NoNewReopens, StaysOpen
      <4> QED BY <4>1, <4>2, <4>3, <4>4, <3>1, <2>0, AloneKept
    <3> QED BY <3>3 DEF AloneInv
  <2>2. CASE active = NoRoom
    <3>s. PICK s : s = Len(screen) + 1
      OBVIOUS
    <3>1. /\ s \in Screen /\ s \notin DOMAIN screen /\ DOMAIN screen' = DOMAIN screen \cup {s}
          /\ screen'[s] = NewScreen(r) /\ \A t \in DOMAIN screen : screen'[t] = screen[t]
          /\ DOMAIN join' = DOMAIN join \cup {n}
          /\ join'[n] = NewRun(s, r) /\ \A j \in DOMAIN join : join'[j] = join[j]
      BY <2>n, <3>s, <2>2, <1>1, EnterStep
    <3>2. Alone(n)'
      <4>1. lk[s].at = "off"
        BY <3>1, <1>0 DEF CallShape, EachHasItsScreen, WirePart, Connection
      <4>2. mics[s] = {} /\ live[s] = {}
        BY <4>1, <3>1, <1>0 DEF WirePart, MicsAreOwn
      <4>3. /\ join'[n].screen = s /\ join'[n].at = "mint"
            /\ screen'[s].phase = "connecting" /\ screen'[s].ref = 0
        BY <3>1 DEF NewRun, NewScreen
      <4>4. \A i \in DOMAIN reopen' : reopen'[i].screen # s
        BY <3>1, <2>0, <1>d
      <4> QED BY <4>1, <4>2, <4>3, <4>4, <2>0 DEF Alone, On
    <3>3. ASSUME NEW j \in DOMAIN join, Undisturbed(join[j].screen)' PROVE Alone(j)'
      <4>1. Undisturbed(join[j].screen) /\ join'[j].screen = join[j].screen /\ join[j].screen \in DOMAIN screen
        BY <3>1, <3>3, <1>d DEF Undisturbed
      <4>2. Alone(j)
        BY <4>1 DEF AloneInv
      <4>3. LET t == join[j].screen IN SameMedia(t) /\ SameLooks(t) /\ NoNewReopens(t) /\ StaysOpen(t)
        BY <4>1, <3>1, <2>0 DEF SameMedia, SameLooks, NoNewReopens, StaysOpen
      <4> QED BY <4>1, <4>2, <4>3, <3>1, <2>0, AloneKept
    <3> QED BY <3>1, <3>2, <3>3 DEF AloneInv
  <2> QED BY <2>1, <2>2
<1>2. ASSUME NEW s \in Screen, Retry(s) PROVE AloneInv'
  <2>n. PICK n : n = Len(join) + 1
    OBVIOUS
  <2>0. UNCHANGED <<does, reopen, open, lk, mics, live, feed>>
    BY <1>2 DEF Retry, wire
  <2>1. /\ s \in DOMAIN screen /\ DOMAIN screen' = DOMAIN screen
        /\ \A t \in DOMAIN screen \ {s} : screen'[t] = screen[t]
        /\ DOMAIN join' = DOMAIN join \cup {n} /\ join'[n].screen = s
        /\ \A j \in DOMAIN join : join'[j].screen = join[j].screen /\ join'[j].at = join[j].at
        /\ \A j \in DOMAIN join : join'[j].cancelled <=> (join[j].cancelled \/ join[j].screen = s)
    <3>1. NewRun(s, screen[s].shown).screen = s
      BY DEF NewRun
    <3> QED BY <3>1, <2>n, <1>2, RetryStep
  <2>2. ~Undisturbed(s)'
    BY <2>1 DEF RollInv, EveryScreenJoins, Undisturbed
  <2>3. ASSUME NEW j \in DOMAIN join', Undisturbed(join[j].screen)' PROVE Alone(j)'
    <3>1. j \in DOMAIN join /\ join[j].screen # s /\ join[j].screen \in DOMAIN screen
      BY <2>1, <2>2, <2>3, <1>d DEF Undisturbed
    <3>2. Undisturbed(join[j].screen) /\ join'[j].screen = join[j].screen
      BY <2>1, <2>3, <3>1, RunsStay DEF Undisturbed
    <3>3. Alone(j)
      BY <3>1, <3>2 DEF AloneInv
    <3>4. LET t == join[j].screen IN SameMedia(t) /\ SameLooks(t) /\ NoNewReopens(t) /\ StaysOpen(t)
      BY <3>1, <2>1, <2>0 DEF SameMedia, SameLooks, NoNewReopens, StaysOpen
    <3> QED BY <3>1, <3>2, <3>3, <3>4, <2>1, <2>0, AloneKept
  <2> QED BY <2>3 DEF AloneInv
<1>3. ASSUME NEW s \in Screen, SignOut(s) \/ QuitDone(s) PROVE AloneInv'
  <2>1. GoesAway(s)
    BY <1>3, AwayStep
  <2>2. PICK k \in DOMAIN join : join[k].screen = s
    BY <2>1 DEF GoesAway, RollInv, EveryScreenJoins
  \* One of the runs of s was cleaned up by now.
  <2>3. ~Undisturbed(s)'
    BY <2>1, <2>2 DEF GoesAway, RollInv, LeftAreCancelled, Undisturbed
  <2>4. /\ \A t \in DOMAIN screen \ {s} : SameMedia(t) /\ StaysOpen(t)
        /\ does' = does /\ feed' = feed
    BY <1>3, <1>0, <1>d DEF SignOut, QuitDone, Disconnected, wire, SameMedia, StaysOpen, WirePart
  <2>5. \A t : NoNewReopens(t)
    BY <1>3, <1>r DEF SignOut, QuitDone
  <2>6. OthersKept(s)
    BY <2>1, <2>4, <2>5, <1>s DEF GoesAway, OthersKept
  <2> QED BY <2>1, <2>3, <2>6, AloneActor DEF GoesAway
<1>4. ASSUME NEW s \in Screen, HandleLeave(s) \/ TimerFires(s) PROVE AloneInv'
  <2>1. s \in DOMAIN screen /\ screen[s] \in ScreenState
    BY <1>4, <1>d DEF HandleLeave, TimerFires, Mounted
  <2>2. UNCHANGED <<does, join, reopen, lk, mics, live, feed>>
    BY <1>4 DEF HandleLeave, TimerFires, wire
  <2>3. /\ DOMAIN screen' = DOMAIN screen /\ \A t \in DOMAIN screen \ {s} : screen'[t] = screen[t]
        /\ open \ {screen[s].ref} \subseteq open'
        /\ screen'[s].phase = screen[s].phase /\ screen'[s].opted = screen[s].opted
        /\ \/ screen'[s].quit # "no"
           \/ SameLooks(s) /\ open' = open
    <3>1. CASE \E c \in BOOLEAN : Quits(s, c)
      BY <2>1, <3>1, <1>d DEF Quits, ScreenState
    <3>2. CASE screen' = [screen EXCEPT ![s].timer = FALSE] /\ open' = open
      BY <2>1, <3>2, <1>d DEF ScreenState, SameLooks
    <3> QED BY <3>1, <3>2, <1>4 DEF HandleLeave, TimerFires
  <2>4. OthersKept(s)
    BY <2>1, <2>2, <2>3, <1>s, <1>o DEF OthersKept, SameMedia, NoNewReopens
  <2>5. ASSUME NEW j \in DOMAIN join, join[j].screen = s, Alone(j) PROVE Alone(j)'
    <3>1. CASE screen'[s].quit # "no"
      BY <3>1, <2>2, <2>3, <2>5 DEF Alone, On
    <3>2. CASE SameLooks(s) /\ open' = open
      BY <3>2, <2>2, <2>5, AloneKept DEF SameMedia, NoNewReopens, StaysOpen
    <3> QED BY <3>1, <3>2, <2>3
  <2> QED BY <2>2, <2>4, <2>5, AloneActor
<1>5. ASSUME NEW s \in Screen, SetMuted(s) PROVE AloneInv'
  <2>1. s \in DOMAIN screen /\ screen[s] \in ScreenState /\ On(s) /\ screen[s].phase = "connected"
    BY <1>5, <1>d DEF SetMuted, Inside, Mounted
  <2>2. UNCHANGED <<does, join, reopen, open, lk>>
    BY <1>5 DEF SetMuted
  <2>3. /\ DOMAIN screen' = DOMAIN screen /\ \A t \in DOMAIN screen \ {s} : screen'[t] = screen[t]
        /\ screen'[s].phase = screen[s].phase /\ screen'[s].quit = screen[s].quit /\ screen'[s].ref = screen[s].ref
        /\ screen'[s].opted \/ screen' = screen
        /\ screen[s].opted => screen'[s].opted
    BY <1>5, <2>1, <1>d DEF SetMuted, ScreenState
  <2>4. /\ \A t \in Screen \ {s} : mics'[t] = mics[t] /\ live'[t] = live[t]
        /\ \A j \in 1 .. MaxJoin : feed'[j] = feed[j]
    <3>1. CASE Enabled(s, 0)
      BY <3>1, <1>0, <1>d, EnabledType DEF Enabled, WirePart
    <3>2. CASE Muted(s) /\ UNCHANGED <<mics, feed>>
      BY <3>2, <1>0, MutedType
    <3> QED BY <3>1, <3>2, <1>5 DEF SetMuted
  <2>5. OthersKept(s)
    BY <2>2, <2>3, <2>4, <1>d, <1>s DEF OthersKept, SameMedia, NoNewReopens, StaysOpen
  <2>6. ASSUME NEW j \in DOMAIN join, join[j].screen = s, Alone(j) PROVE Alone(j)'
    <3>1. mics[s] = {j} /\ Min({j}) = j /\ feed'[j] = feed[j]
      <4>1. mics[s] = {j}
        BY <2>1, <2>6 DEF Alone
      <4>2. j \in 0 .. MaxJoin /\ j \in 1 .. MaxJoin
        BY <1>d
      <4> QED BY <4>1, <4>2, <2>4, MinOfOne
    <3>2. CASE Enabled(s, 0) /\ screen' = [screen EXCEPT ![s].opted = TRUE]
      <4>1. mics'[s] = {j} /\ screen'[s].opted
        BY <3>1, <3>2, <2>1, <1>0, <1>d DEF Enabled, WirePart, ScreenState
      <4> QED BY <3>1, <4>1, <2>2, <2>3, <2>6 DEF Alone, On
    <3>3. CASE Muted(s) /\ live[s] # {} /\ UNCHANGED <<mics, screen>>
      BY <3>1, <3>3, <2>2, <2>6 DEF Alone, On
    <3> QED BY <3>2, <3>3, <1>5 DEF SetMuted
  <2> QED BY <2>2, <2>5, <2>6, AloneActor
<1>6. ASSUME NEW s \in Screen, ReopenMic(s) PROVE AloneInv'
  <2>1. /\ UNCHANGED <<does, screen, join, open, lk, mics, live, feed>>
        /\ screen[s].phase = "connected"
    BY <1>6 DEF ReopenMic, wire
  <2> DEFINE e == [screen |-> s, at |-> "mic", cancelled |-> FALSE]
  <2>2. e \in ReopenState /\ e.screen = s
    BY DEF ReopenState
  <2>3. /\ CalledOff(s) \in Seq(ReopenState) /\ Len(CalledOff(s)) = Len(reopen)
        /\ DOMAIN CalledOff(s) = DOMAIN reopen
        /\ \A i \in DOMAIN reopen : CalledOff(s)[i].screen = reopen[i].screen
    BY <1>d, CalledOffType
  <2>4. reopen' = Append(CalledOff(s), e)
    BY <1>6 DEF ReopenMic
  <2> HIDE DEF e
  <2>5. \A t : t # s => NoNewReopens(t)
    BY <2>2, <2>3, <2>4, Appended DEF NoNewReopens
  <2>6. OthersKept(s)
    BY <2>1, <2>5 DEF OthersKept, SameMedia, SameLooks, StaysOpen
  <2>7. ASSUME NEW j \in DOMAIN join, join[j].screen = s, Alone(j) PROVE Alone(j)'
    BY <2>1, <2>7 DEF Alone, On
  <2> QED BY <2>1, <2>6, <2>7, AloneActor
<1>7. ASSUME NEW s \in Screen, StartShare(s) \/ StartShareAudio(s) \/ StopShare(s) \/ ShareStep(s) PROVE AloneInv'
  <2>1. UNCHANGED <<does, screen, join, reopen, open, lk, mics, live, feed>>
    BY <1>7 DEF StartShare, StartShareAudio, StopShare, ShareStep, wire
  <2> QED BY <2>1, <1>k
<1>8. ASSUME NEW s \in Screen, Kick(s) PROVE AloneInv'
  <2>1. s \in DOMAIN screen /\ screen[s] \in ScreenState
    BY <1>8, <1>d DEF Kick, On, CallShape, EachHasItsScreen
  <2>2. /\ UNCHANGED <<does, join, reopen, open, feed>>
        /\ lk'[s].at = "off" /\ mics'[s] = {} /\ live'[s] = {}
        /\ \A t \in Screen \ {s} : SameMedia(t)
    BY <1>8, <1>0 DEF Kick, Disconnected, SameMedia, WirePart
  <2>3. /\ DOMAIN screen' = DOMAIN screen /\ \A t \in DOMAIN screen \ {s} : screen'[t] = screen[t]
        /\ SameLooks(s)
    BY <1>8, <2>1, <1>d DEF Kick, ScreenState, SameLooks
  <2>4. OthersKept(s)
    BY <2>2, <2>3, <1>s, <1>d DEF OthersKept, NoNewReopens, StaysOpen
  <2>5. ASSUME NEW j \in DOMAIN join, join[j].screen = s, Alone(j) PROVE Alone(j)'
    BY <2>2, <2>3, <2>5 DEF Alone, On, SameLooks
  <2> QED BY <2>2, <2>4, <2>5, AloneActor
<1>9. ASSUME NEW s \in Screen, QuitAudio(s) PROVE AloneInv'
  <2>1. UNCHANGED <<does, join, reopen, open, lk, mics, live, feed>>
    BY <1>9 DEF QuitAudio, wire
  <2>2. /\ s \in DOMAIN screen /\ DOMAIN screen' = DOMAIN screen
        /\ \A t \in DOMAIN screen \ {s} : screen'[t] = screen[t]
        /\ screen'[s].phase = screen[s].phase /\ screen'[s].opted = screen[s].opted /\ screen'[s].quit # "no"
    BY <1>9, <1>d DEF QuitAudio, ScreenState
  <2>3. OthersKept(s)
    BY <2>1, <2>2, <1>s DEF OthersKept, SameMedia, NoNewReopens, StaysOpen
  <2>4. ASSUME NEW j \in DOMAIN join, join[j].screen = s, Alone(j) PROVE Alone(j)'
    BY <2>1, <2>2, <2>4 DEF Alone, On
  <2> QED BY <2>1, <2>3, <2>4, AloneActor
<1>10. ASSUME NEW s \in Screen, Connected(s) PROVE AloneInv'
  <2>1. /\ UNCHANGED <<does, screen, reopen, open, mics, live, feed>> /\ lk[s].at = "connecting"
        /\ lk'[s].at = "on" /\ \A t \in Screen \ {s} : lk'[t] = lk[t]
    BY <1>10, <1>0 DEF Connected, WirePart, Connection
  <2>2. /\ DOMAIN join' = DOMAIN join
        /\ \A j \in DOMAIN join : join'[j].screen = join[j].screen
        /\ \A j \in DOMAIN join :
             join'[j].at = IF join[j].screen = s /\ join[j].at = "connect" THEN "publish" ELSE join[j].at
    <3>1. \A j \in DOMAIN join : /\ [join[j] EXCEPT !.at = "publish"].screen = join[j].screen
                                 /\ [join[j] EXCEPT !.at = "publish"].at = "publish"
      BY <1>d DEF JoinState
    <3> QED BY <3>1, <1>10 DEF Connected
  <2>3. OthersKept(s)
    BY <2>1, <2>2, <1>d DEF OthersKept, SameMedia, SameLooks, NoNewReopens, StaysOpen
  <2>4. ASSUME NEW j \in DOMAIN join, join[j].screen = s, Alone(j) PROVE Alone(j)'
    <3>1. join[j].at = "connect" /\ join'[j].at = "publish" /\ join'[j].screen = s
      BY <2>1, <2>2, <2>4 DEF Alone
    <3>2. screen[s].phase # "connected" /\ live[s] = {}
      BY <3>1, <2>4 DEF Alone, MicsAreOwn, On
    <3> QED BY <3>1, <3>2, <2>1, <2>4 DEF Alone, On
  <2> QED BY <2>2, <2>3, <2>4, AloneActor
<1>11. ASSUME NEW s \in Screen, ConnectFails(s) PROVE AloneInv'
  <2>1. s \in DOMAIN screen /\ screen[s] \in ScreenState
    BY <1>11, <1>d DEF ConnectFails, CallShape, EachHasItsScreen
  <2>2. /\ UNCHANGED <<does, reopen, open, mics, live, feed>> /\ lk[s].at = "connecting"
        /\ lk'[s].at = "off" /\ \A t \in Screen \ {s} : lk'[t] = lk[t]
    BY <1>11, <1>0 DEF ConnectFails, WirePart, Connection
  <2>3. /\ DOMAIN join' = DOMAIN join
        /\ \A j \in DOMAIN join : join'[j].screen = join[j].screen
        /\ \A j \in DOMAIN join :
             join'[j].at = IF join[j].screen = s /\ join[j].at = "connect" THEN "end" ELSE join[j].at
    BY <1>11, <1>d, EndedType DEF ConnectFails, Waiting
  <2>4. /\ DOMAIN screen' = DOMAIN screen /\ \A t \in DOMAIN screen \ {s} : screen'[t] = screen[t]
        /\ screen'[s].phase \in {"error", screen[s].phase}
        /\ screen'[s].opted = screen[s].opted /\ screen'[s].quit = screen[s].quit /\ screen'[s].ref = screen[s].ref
    <3>1. PICK p \in {"error", screen[s].phase} : screen' = [screen EXCEPT ![s].phase = p]
      BY <2>1, <1>11, ShowsType DEF ConnectFails
    <3> QED BY <3>1, <2>1, <1>d DEF ScreenState
  <2>5. OthersKept(s)
    BY <2>2, <2>3, <2>4, <1>d, <1>s DEF OthersKept, SameMedia, NoNewReopens, StaysOpen
  <2>6. ASSUME NEW j \in DOMAIN join, join[j].screen = s, Alone(j) PROVE Alone(j)'
    <3>1. join[j].at = "connect" /\ join'[j].at = "end" /\ join'[j].screen = s
      BY <2>2, <2>3, <2>6 DEF Alone
    <3>2. mics[s] = {} /\ live[s] = {}
      BY <3>1, <2>6, <2>1, <1>d DEF Alone, MicsAreOwn
    <3> QED BY <3>1, <3>2, <2>2, <2>4, <2>6 DEF Alone, On
  <2> QED BY <2>3, <2>5, <2>6, AloneActor
\* A run of a screen that was left alone is the one that takes the step.
<1>one. \A j, k \in DOMAIN join : join[j].screen = join[k].screen /\ Undisturbed(join[j].screen) => j = k
  BY OneRun
<1>at. ASSUME NEW k \in DOMAIN join,
              NEW stage \in {"mint", "mic", "connect", "publish", "mute", "keys", "end"}, join' = At(k, stage)
       PROVE  /\ DOMAIN join' = DOMAIN join /\ join'[k].at = stage
              /\ \A j \in DOMAIN join : join'[j].screen = join[j].screen /\ (j # k => join'[j].at = join[j].at)
  BY <1>at, <1>d, AtType
<1>12. ASSUME NEW k \in DOMAIN join, Minted(k) PROVE AloneInv'
  <2>s. PICK s : s = join[k].screen
    OBVIOUS
  <2>0. UNCHANGED <<does, screen, reopen, open, mics, live, feed>> /\ s \in DOMAIN screen /\ s \in Screen
    BY <1>12, <1>d, <2>s DEF Minted, Connects, wire
  <2>1. PICK stage \in {"end", "mic", "connect", "publish"} : join' = At(k, stage)
    BY <1>12 DEF Minted, Connects
  <2>2. /\ DOMAIN join' = DOMAIN join /\ join'[k].at = stage
        /\ \A j \in DOMAIN join : join'[j].screen = join[j].screen /\ (j # k => join'[j].at = join[j].at)
    BY <2>1, <1>at
  <2>3. \A t \in Screen \ {s} : lk'[t] = lk[t]
    BY <1>12, <2>s, <1>0 DEF Minted, Connects, wire, WirePart
  <2>4. OthersKept(s)
    BY <2>s, <2>0, <2>2, <2>3, <1>d DEF OthersKept, SameMedia, SameLooks, NoNewReopens, StaysOpen
  <2>5. ASSUME NEW j \in DOMAIN join, join[j].screen = s, Undisturbed(s), Alone(j) PROVE Alone(j)'
    <3>1. j = k
      BY <2>s, <2>5, <1>one
    <3>2. ~join[k].cancelled /\ join[k].at = "mint" /\ mics[s] = {} /\ live[s] = {} /\ lk[s].at = "off"
      <4>1. join[k].at = "mint" /\ ~join[k].cancelled
        BY <1>12, <2>s, <2>5 DEF Minted, Undisturbed
      <4>2. mics[s] = {} /\ live[s] = {}
        BY <4>1, <3>1, <2>0, <2>5 DEF Alone, MicsAreOwn
      <4>3. lk[s].at \in {"off", "connecting", "on"}
        BY <2>0, <1>0 DEF WirePart, Connection
      <4> QED BY <4>1, <4>2, <4>3, <3>1, <2>5 DEF Alone, On
    <3>3. CASE does.device /\ join' = At(k, "mic") /\ UNCHANGED wire
      <4>1. join'[k].at = "mic"
        <5>1. join' = At(k, "mic")
          BY <3>3
        <5> QED BY <5>1, <1>at
      <4> QED BY <4>1, <3>1, <3>2, <3>3, <2>0, <2>2, <2>5 DEF Alone, On, wire
    <3>4. CASE ~does.device /\ Connects(k)
      <4>1. lk'[s].at = "connecting" /\ join' = At(k, "connect")
        BY <3>2, <3>4, <2>s, <2>0, <1>0 DEF Connects, On, WirePart
      <4>2. join'[k].at = "connect"
        BY <4>1, <1>at
      <4> QED BY <4>1, <4>2, <3>1, <3>2, <3>4, <2>0, <2>2, <2>5 DEF Alone, On
    <3> QED BY <3>2, <3>3, <3>4, <1>12 DEF Minted
  <2> QED BY <2>2, <2>4, <2>5, AloneActor
<1>13. ASSUME NEW k \in DOMAIN join, MicOpened(k) PROVE AloneInv'
  <2>s. PICK s : s = join[k].screen
    OBVIOUS
  <2>0. /\ UNCHANGED <<does, reopen, mics, live, feed>> /\ open' = open \cup {k} /\ join[k].at = "mic"
        /\ s \in DOMAIN screen /\ s \in Screen
        /\ DOMAIN screen' = DOMAIN screen /\ \A t \in DOMAIN screen \ {s} : screen'[t] = screen[t]
        /\ screen'[s].phase = screen[s].phase /\ screen'[s].opted = screen[s].opted
        /\ screen'[s].quit = screen[s].quit /\ screen'[s].ref = k
    BY <1>13, <1>d, <2>s DEF MicOpened, Connects, ScreenState
  <2>1. PICK stage \in {"connect", "publish"} : join' = At(k, stage)
    BY <1>13 DEF MicOpened, Connects
  <2>2. /\ DOMAIN join' = DOMAIN join /\ join'[k].at = stage
        /\ \A j \in DOMAIN join : join'[j].screen = join[j].screen /\ (j # k => join'[j].at = join[j].at)
    BY <2>1, <1>at
  <2>3. \A t \in Screen \ {s} : lk'[t] = lk[t]
    BY <1>13, <2>s, <1>0 DEF MicOpened, Connects, WirePart
  <2>4. OthersKept(s)
    BY <2>s, <2>0, <2>2, <2>3, <1>d, <1>s DEF OthersKept, SameMedia, NoNewReopens, StaysOpen
  <2>5. ASSUME NEW j \in DOMAIN join, join[j].screen = s, Undisturbed(s), Alone(j) PROVE Alone(j)'
    <3>1. j = k
      BY <2>s, <2>5, <1>one
    <3>2. mics[s] = {} /\ live[s] = {} /\ lk[s].at = "off"
      <4>1. lk[s].at \in {"off", "connecting", "on"}
        BY <2>0, <1>0 DEF WirePart, Connection
      <4> QED BY <4>1, <3>1, <2>0, <2>5 DEF Alone, On, MicsAreOwn
    <3>3. lk'[s].at = "connecting" /\ join' = At(k, "connect")
      BY <3>2, <1>13, <2>s, <2>0, <1>0 DEF MicOpened, Connects, On, WirePart
    <3>4. join'[k].at = "connect"
      BY <3>3, <1>at
    <3> QED BY <3>1, <3>2, <3>3, <3>4, <2>0, <2>2, <2>5 DEF Alone, On
  <2> QED BY <2>2, <2>4, <2>5, AloneActor
<1>14. ASSUME NEW k \in DOMAIN join, RunFails(k) PROVE AloneInv'
  <2>s. PICK s : s = join[k].screen
    OBVIOUS
  <2>0. /\ UNCHANGED <<does, reopen, open, lk, mics, live, feed>> /\ join[k].at \in {"mint", "mic", "publish"}
        /\ s \in DOMAIN screen /\ s \in Screen
    BY <1>14, <1>d, <2>s DEF RunFails, wire
  <2>1. /\ DOMAIN screen' = DOMAIN screen /\ \A t \in DOMAIN screen \ {s} : screen'[t] = screen[t]
        /\ screen'[s].phase \in {"error", screen[s].phase}
        /\ screen'[s].opted = screen[s].opted /\ screen'[s].quit = screen[s].quit /\ screen'[s].ref = screen[s].ref
    <3>1. PICK p \in {"error", screen[s].phase} : screen' = [screen EXCEPT ![s].phase = p]
      BY <2>s, <2>0, <1>d, <1>14, ShowsType DEF RunFails
    <3> QED BY <3>1, <2>0, <1>d DEF ScreenState
  <2>2. /\ DOMAIN join' = DOMAIN join /\ join'[k].at = "end"
        /\ \A j \in DOMAIN join : join'[j].screen = join[j].screen /\ (j # k => join'[j].at = join[j].at)
    BY <1>14, <1>at DEF RunFails
  <2>4. OthersKept(s)
    BY <2>s, <2>0, <2>1, <2>2, <1>s DEF OthersKept, SameMedia, NoNewReopens, StaysOpen
  <2>5. ASSUME NEW j \in DOMAIN join, join[j].screen = s, Undisturbed(s), Alone(j) PROVE Alone(j)'
    <3>1. j = k
      BY <2>s, <2>5, <1>one
    <3>2. mics[s] = {} /\ live[s] = {} /\ screen[s].phase # "connected" /\ lk[s].at # "connecting"
      BY <3>1, <2>0, <2>5 DEF Alone, MicsAreOwn
    <3> QED BY <3>1, <3>2, <2>0, <2>1, <2>2, <2>5 DEF Alone, On
  <2> QED BY <2>2, <2>4, <2>5, AloneActor
<1>15. ASSUME NEW k \in DOMAIN join, Published(k) PROVE AloneInv'
  <2>s. PICK s : s = join[k].screen
    OBVIOUS
  <2>0. /\ UNCHANGED <<does, screen, reopen, open, lk>> /\ join[k].at = "publish" /\ On(s)
        /\ s \in DOMAIN screen /\ s \in Screen /\ k \in 0 .. MaxJoin
    BY <1>15, <1>d, <2>s DEF Published
  <2>1. PICK stage \in {"keys", "mute"} : join' = At(k, stage) /\ (~join[k].cancelled => stage = "mute")
    BY <1>15 DEF Published
  <2>2. /\ DOMAIN join' = DOMAIN join /\ join'[k].at = stage
        /\ \A j \in DOMAIN join : join'[j].screen = join[j].screen /\ (j # k => join'[j].at = join[j].at)
    BY <2>1, <1>at
  <2>3. /\ \A t \in Screen \ {s} : mics'[t] = mics[t] /\ live'[t] = live[t]
        /\ \A j \in 1 .. MaxJoin \ {k} : feed'[j] = feed[j]
    <3>1. CASE Enabled(s, k)
      BY <3>1, <2>0, <1>0, EnabledType DEF Enabled, WirePart
    <3>2. CASE /\ mics' = [mics EXCEPT ![s] = @ \cup {k}] /\ live' = [live EXCEPT ![s] = @ \cup {k}]
               /\ feed' = [feed EXCEPT ![k] = k]
      BY <3>2, <1>0 DEF WirePart
    <3> QED BY <3>1, <3>2, <2>s, <1>15 DEF Published
  <2>4. OthersKept(s)
    BY <2>s, <2>0, <2>2, <2>3, <1>d DEF OthersKept, SameMedia, SameLooks, NoNewReopens, StaysOpen
  <2>5. ASSUME NEW j \in DOMAIN join, join[j].screen = s, Undisturbed(s), Alone(j) PROVE Alone(j)'
    <3>1. j = k /\ ~join[k].cancelled /\ join'[k].at = "mute"
      BY <2>s, <2>1, <2>2, <2>5, <1>one DEF Undisturbed
    <3>2. mics[s] = {} /\ live[s] = {}
      BY <3>1, <2>0, <2>5 DEF Alone, MicsAreOwn
    <3>3. /\ mics'[s] = {k} /\ live'[s] = {k}
          /\ feed'[k] = IF does.device THEN k ELSE 0
      <4>1. CASE ~does.device /\ Enabled(s, k)
        BY <4>1, <3>2, <2>0, <1>0 DEF Enabled, WirePart
      <4>2. CASE /\ does.device
                 /\ mics' = [mics EXCEPT ![s] = @ \cup {k}] /\ live' = [live EXCEPT ![s] = @ \cup {k}]
                 /\ feed' = [feed EXCEPT ![k] = k]
        BY <4>2, <3>2, <2>0, <1>0 DEF WirePart
      <4> QED BY <4>1, <4>2, <2>s, <1>15 DEF Published
    <3>4. does.device /\ screen[s].quit = "no" => screen[s].ref = k
      BY <3>1, <2>0, <2>5 DEF Alone
    <3>5. screen[s].phase # "connected"
      BY <3>1, <2>0, <2>5 DEF Alone
    <3> QED BY <3>1, <3>3, <3>4, <3>5, <2>0, <2>2, <2>5 DEF Alone, On
  <2> QED BY <2>2, <2>4, <2>5, AloneActor
<1>16. ASSUME NEW k \in DOMAIN join, MutedAfter(k) PROVE AloneInv'
  <2>s. PICK s : s = join[k].screen
    OBVIOUS
  <2>0. /\ UNCHANGED <<does, screen, reopen, open, lk, mics, feed>> /\ join[k].at = "mute" /\ Muted(s)
        /\ s \in DOMAIN screen /\ s \in Screen
    BY <1>16, <1>d, <2>s DEF MutedAfter
  <2>2. /\ DOMAIN join' = DOMAIN join /\ join'[k].at = "keys"
        /\ \A j \in DOMAIN join : join'[j].screen = join[j].screen /\ (j # k => join'[j].at = join[j].at)
    BY <1>16, <1>at DEF MutedAfter
  <2>3. /\ \A t \in Screen \ {s} : live'[t] = live[t]
        /\ live'[s] = IF mics[s] = {} THEN live[s] ELSE live[s] \ {Min(mics[s])}
    BY <2>0, <1>0, MutedType
  <2>4. OthersKept(s)
    BY <2>s, <2>0, <2>2, <2>3, <1>d DEF OthersKept, SameMedia, SameLooks, NoNewReopens, StaysOpen
  <2>5. ASSUME NEW j \in DOMAIN join, join[j].screen = s, Undisturbed(s), Alone(j) PROVE Alone(j)'
    <3>1. j = k
      BY <2>s, <2>5, <1>one
    \* The track of the run, if it is still there, is the only one.
    <3>2. live'[s] = {}
      <4>1. mics[s] \subseteq {k} /\ live[s] \subseteq mics[s] /\ k \in 0 .. MaxJoin
        BY <3>1, <2>0, <2>5, <1>d DEF Alone, MicsAreOwn
      <4>2. CASE mics[s] = {}
        BY <4>1, <4>2, <2>3
      <4>3. CASE mics[s] = {k}
        BY <4>1, <4>3, <2>3, MinOfOne
      <4> QED BY <4>1, <4>2, <4>3
    <3> QED BY <3>1, <3>2, <2>0, <2>2, <2>5 DEF Alone, On
  <2> QED BY <2>2, <2>4, <2>5, AloneActor
<1>17. ASSUME NEW k \in DOMAIN join, KeysDone(k) PROVE AloneInv'
  <2>s. PICK s : s = join[k].screen
    OBVIOUS
  <2>0. /\ UNCHANGED <<does, reopen, open, lk, mics, live, feed>> /\ join[k].at = "keys"
        /\ s \in DOMAIN screen /\ s \in Screen
    BY <1>17, <1>d, <2>s DEF KeysDone, wire
  <2>1. /\ DOMAIN screen' = DOMAIN screen /\ \A t \in DOMAIN screen \ {s} : screen'[t] = screen[t]
        /\ screen'[s].opted = screen[s].opted /\ screen'[s].quit = screen[s].quit /\ screen'[s].ref = screen[s].ref
    BY <2>s, <2>0, <1>d, <1>17 DEF KeysDone, ScreenState
  <2>2. /\ DOMAIN join' = DOMAIN join /\ join'[k].at = "end"
        /\ \A j \in DOMAIN join : join'[j].screen = join[j].screen /\ (j # k => join'[j].at = join[j].at)
    BY <1>17, <1>at DEF KeysDone
  <2>4. OthersKept(s)
    BY <2>s, <2>0, <2>1, <2>2, <1>s DEF OthersKept, SameMedia, NoNewReopens, StaysOpen
  <2>5. ASSUME NEW j \in DOMAIN join, join[j].screen = s, Undisturbed(s), Alone(j) PROVE Alone(j)'
    <3>1. j = k
      BY <2>s, <2>5, <1>one
    <3>2. On(s) => mics[s] = {k}
      BY <3>1, <2>0, <2>5 DEF Alone
    <3>3. lk[s].at # "connecting" /\ (live[s] # {} => screen[s].opted)
      BY <3>1, <2>0, <2>5 DEF Alone
    <3> QED BY <3>1, <3>2, <3>3, <2>0, <2>1, <2>2, <2>5 DEF Alone, On
  <2> QED BY <2>2, <2>4, <2>5, AloneActor
<1>18. ASSUME NEW k \in DOMAIN join, LeaveAudio(k) PROVE AloneInv'
  <2>1. UNCHANGED <<does, screen, reopen, open, lk, mics, live, feed>>
    BY <1>18 DEF LeaveAudio, wire
  <2>2. DOMAIN join' = DOMAIN join /\ \A j \in DOMAIN join : join'[j].at = join[j].at
    BY <1>18, <1>d DEF LeaveAudio, JoinState
  <2> QED BY <2>1, <2>2, <1>k
<1>19. ASSUME NEW k \in DOMAIN join, LeaveDone(k) PROVE AloneInv'
  <2>s. PICK s : s = join[k].screen
    OBVIOUS
  <2>0. /\ UNCHANGED <<does, reopen, open, feed>> /\ s \in DOMAIN screen /\ s \in Screen
        /\ lk'[s].at = "off" /\ mics'[s] = {} /\ live'[s] = {}
        /\ \A t \in Screen \ {s} : SameMedia(t)
    BY <1>19, <1>d, <1>0, <2>s DEF LeaveDone, Disconnected, SameMedia, WirePart
  <2>1. /\ DOMAIN screen' = DOMAIN screen /\ \A t \in DOMAIN screen \ {s} : screen'[t] = screen[t]
        /\ screen'[s].phase \in {"error", screen[s].phase}
        /\ screen'[s].opted = screen[s].opted /\ screen'[s].quit = screen[s].quit /\ screen'[s].ref = screen[s].ref
    <3>1. /\ AfterDisconnect(s).phase \in {"error", screen[s].phase}
          /\ AfterDisconnect(s).opted = screen[s].opted /\ AfterDisconnect(s).quit = screen[s].quit
          /\ AfterDisconnect(s).ref = screen[s].ref
      <4>1. screen[s] \in ScreenState
        BY <2>0, <1>d
      <4>2. Shows(s, Waiting(s)) \in {"error", screen[s].phase}
        BY <4>1, ShowsType
      <4> QED BY <4>1, <4>2 DEF AfterDisconnect, ScreenState
    <3>2. screen' = [screen EXCEPT ![s] = AfterDisconnect(s)]
      BY <1>19, <2>s DEF LeaveDone
    <3> QED BY <3>1, <3>2, <2>0, <1>d
  <2>2. /\ DOMAIN join' = DOMAIN join
        /\ \A j \in DOMAIN join : join'[j].at = IF j \in Waiting(s) THEN "end" ELSE join[j].at
    <3>1. /\ DOMAIN Ended(Waiting(s)) = DOMAIN join /\ Ended(Waiting(s)) \in Seq(JoinState)
          /\ \A j \in DOMAIN join : Ended(Waiting(s))[j].at = IF j \in Waiting(s) THEN "end" ELSE join[j].at
      BY <1>d, EndedType
    <3>2. \A j \in DOMAIN join : Ended(Waiting(s))[j] \in JoinState
      BY <3>1
    <3>3. join' = [Ended(Waiting(s)) EXCEPT ![k] = [Ended(Waiting(s))[k] EXCEPT !.leave = "done"]]
      BY <1>19, <2>s DEF LeaveDone
    <3> QED BY <3>1, <3>2, <3>3 DEF JoinState
  <2>3. \A j \in DOMAIN join : join'[j].screen = join[j].screen
    BY RunsStay
  <2>4. OthersKept(s)
    BY <2>0, <2>1, <2>2, <1>s, <1>d DEF OthersKept, NoNewReopens, StaysOpen, Waiting
  <2>5. ASSUME NEW j \in DOMAIN join, join[j].screen = s, Alone(j) PROVE Alone(j)'
    BY <2>0, <2>1, <2>2, <2>3, <2>5 DEF Alone, On, Waiting
  <2> QED BY <2>2, <2>4, <2>5, AloneActor
<1>20. ASSUME NEW i \in DOMAIN reopen, Reopened(i) PROVE AloneInv'
  <2>1. UNCHANGED <<does, screen, join, lk, mics, live, feed>> /\ open \subseteq open'
    BY <1>20 DEF Reopened, wire
  <2>2. DOMAIN reopen' = DOMAIN reopen /\ \A k \in DOMAIN reopen : reopen'[k].screen = reopen[k].screen
    <3>1. PICK stage \in {"replace", "end"} : reopen' = [reopen EXCEPT ![i].at = stage]
      BY <1>20 DEF Reopened
    <3>2. \A k \in DOMAIN reopen : reopen[k] \in ReopenState
      BY <1>d
    <3> QED BY <3>1, <3>2 DEF ReopenState
  <2>3. \A t : SameMedia(t) /\ SameLooks(t) /\ NoNewReopens(t) /\ StaysOpen(t)
    BY <2>1, <2>2 DEF SameMedia, SameLooks, NoNewReopens, StaysOpen
  <2>4. \A s : OthersKept(s)
    BY <2>1, <2>3 DEF OthersKept
  <2>5. ASSUME NEW j \in DOMAIN join, Alone(j) PROVE Alone(j)'
    BY <2>1, <2>3, <2>5, AloneKept
  <2> QED BY <2>1, <2>4, <2>5, AloneActor
<1>21. ASSUME NEW i \in DOMAIN reopen, Replaced(i) PROVE AloneInv'
  <2>s. PICK s : s = reopen[i].screen
    OBVIOUS
  <2>0. /\ UNCHANGED <<does, join, lk, mics, live>> /\ reopen[i].at = "replace"
        /\ open' = open \ {screen[s].ref} /\ s \in DOMAIN screen /\ s \in Screen /\ i \in Nat /\ i >= 1
    BY <1>21, <1>d, <2>s DEF Replaced
  <2>1. /\ DOMAIN screen' = DOMAIN screen /\ \A t \in DOMAIN screen \ {s} : screen'[t] = screen[t]
        /\ screen'[s].phase = screen[s].phase /\ screen'[s].opted = screen[s].opted
        /\ screen'[s].quit = screen[s].quit /\ screen'[s].ref = MaxJoin + i
    <3>1. screen' = [screen EXCEPT ![s].ref = MaxJoin + i]
      BY <1>21, <2>s DEF Replaced
    <3>2. screen[s] \in ScreenState
      BY <2>0, <1>d
    <3> QED BY <3>1, <3>2, <2>0 DEF ScreenState
  <2>2. DOMAIN reopen' = DOMAIN reopen /\ \A k \in DOMAIN reopen : reopen'[k].screen = reopen[k].screen
    BY <1>21, <1>d DEF Replaced, ReopenState
  <2>3. \A t : NoNewReopens(t)
    BY <2>2 DEF NoNewReopens
  <2>4. \A t \in DOMAIN screen \ {s} : StaysOpen(t)
    BY <2>0, <1>o
  <2>5. \A j \in DOMAIN join : join[j].screen # s => feed'[j] = feed[j]
    <3>1. CASE mics[s] = {}
      BY <3>1, <2>s, <1>21 DEF Replaced
    <3>2. CASE mics[s] # {}
      <4>1. Min(mics[s]) \in mics[s]
        BY <3>2, <2>0, <1>0, MinType DEF WirePart
      <4>2. feed' = [feed EXCEPT ![Min(mics[s])] = MaxJoin + i]
        BY <3>2, <2>s, <1>21 DEF Replaced
      <4>3. \A j \in DOMAIN join : j # 0 /\ j \in 0 .. MaxJoin
        BY <1>d
      <4>4. \A m \in mics[s] : m # 0 => join[m].screen = s
        BY <2>0 DEF MicsAreOwn
      <4>5. \A j \in DOMAIN join : join[j].screen # s => j # Min(mics[s])
        BY <4>1, <4>3, <4>4
      <4> HIDE DEF Min
      <4> QED BY <4>2, <4>3, <4>5, <1>0 DEF WirePart
    <3> QED BY <3>1, <3>2
  <2>6. OthersKept(s)
    BY <2>0, <2>1, <2>3, <2>4, <2>5, <1>s DEF OthersKept, SameMedia
  <2>7. ASSUME NEW j \in DOMAIN join, join[j].screen = s, Alone(j) PROVE Alone(j)'
    <3>1. join[j].at = "end"
      BY <2>s, <2>7 DEF Alone
    <3>2. MaxJoin + i \in open'
      <4>1. MaxJoin + i \in open
        BY <2>0 DEF PipesAreOwn
      <4>2. DOMAIN reopen = 1 .. Len(reopen) /\ Len(reopen) \in Nat
        BY <1>d
      <4>3. CASE screen[s].ref = 0
        BY <4>1, <4>3, <2>0, <1>d
      <4>4. CASE screen[s].ref \in DOMAIN join
        <5>1. screen[s].ref <= MaxJoin
          BY <4>4, <1>d
        <5> QED BY <4>1, <5>1, <2>0, <1>d
      <4>5. CASE \E l \in DOMAIN reopen : screen[s].ref = MaxJoin + l /\ reopen[l].at = "end"
        <5>1. PICK l \in DOMAIN reopen : screen[s].ref = MaxJoin + l /\ reopen[l].at = "end"
          BY <4>5
        <5>2. l # i /\ l \in Nat
          BY <5>1, <4>2, <2>0
        <5>3. MaxJoin + l # MaxJoin + i
          BY <5>2, <2>0, <1>d
        <5> QED BY <4>1, <5>1, <5>3, <2>0
      <4> QED BY <4>3, <4>4, <4>5, <2>0 DEF PipesAreOwn
    <3>3. j \in mics[s] => feed'[j] = MaxJoin + i
      <4>1. SUFFICES ASSUME j \in mics[s] PROVE feed'[j] = MaxJoin + i
        OBVIOUS
      <4>2. mics[s] = {j} /\ j \in 0 .. MaxJoin
        BY <4>1, <2>7, <1>d DEF Alone
      <4>3. Min({j}) = j
        BY <4>2, MinOfOne
      <4>4. feed' = [feed EXCEPT ![j] = MaxJoin + i]
        BY <4>2, <4>3, <2>s, <1>21 DEF Replaced
      <4> QED BY <4>2, <4>4, <1>0 DEF WirePart
    <3> QED BY <3>1, <3>2, <3>3, <2>0, <2>1, <2>2, <2>7 DEF Alone, On
  <2> QED BY <2>0, <2>6, <2>7, AloneActor
<1>22. ASSUME HelperGone \/ UNCHANGED callVars PROVE AloneInv'
  <2>1. UNCHANGED <<does, screen, join, reopen, open, lk, mics, live, feed>>
    BY <1>22 DEF HelperGone, callVars, wire
  <2> QED BY <2>1, <1>k
<1> QED BY <1>1, <1>2, <1>3, <1>4, <1>5, <1>6, <1>7, <1>8, <1>9, <1>10, <1>11, <1>12, <1>13, <1>14, <1>15,
           <1>16, <1>17, <1>18, <1>19, <1>20, <1>21, <1>22, CallCases

-----------------------------------------------------------------------------
(* The properties of the microphone. *)

\* It holds at first, when nothing is mounted.
LEMMA AloneInvsInit == CallInit => AloneInvs
<1> SUFFICES ASSUME CallInit PROVE AloneInvs
  OBVIOUS
<1>1. CallShape
  BY CallShapeInit
<1>2. DOMAIN screen = {} /\ DOMAIN join = {} /\ DOMAIN reopen = {}
  BY DEF CallInit
<1>3. RollInv /\ PipesAreOwn /\ AloneInv
  BY <1>2 DEF RollInv, EveryScreenJoins, OneRunGoes, LeftAreCancelled, PipesAreOwn, AloneInv
<1>4. MicsAreOwn
  BY DEF CallInit, MicsAreOwn
<1> QED BY <1>1, <1>3, <1>4 DEF AloneInvs

LEMMA AloneInvsStep == AloneInvs /\ [CallNext]_callVars => AloneInvs'
<1> SUFFICES ASSUME AloneInvs, [CallNext]_callVars PROVE AloneInvs'
  OBVIOUS
<1>1. CallShape'
  BY CallShapeStep DEF AloneInvs
<1>2. RollInv' /\ MicsAreOwn' /\ PipesAreOwn'
  BY RollInvStep, MicsStep, PipesStep DEF AloneInvs
<1>3. AloneInv'
  BY <1>1, AloneStep
<1> QED BY <1>1, <1>2, <1>3 DEF AloneInvs

\* It gives the two properties: the only track there can be is that of the run.
LEMMA AloneIsMuted == AloneInvs => MutedUntilOptIn
<1> SUFFICES ASSUME AloneInvs, NEW s \in DOMAIN screen, Undisturbed(s), live[s] # {}
             PROVE  screen[s].opted \/ \E m \in live[s] : join[m].at = "mute"
  BY DEF MutedUntilOptIn
<1>1. PICK j \in DOMAIN join : join[j].screen = s
  BY DEF AloneInvs, RollInv, EveryScreenJoins
<1>2. Alone(j)
  BY <1>1 DEF AloneInvs, AloneInv
<1>3. s \in Screen
  BY ScreenDomain DEF AloneInvs
<1>4. live[s] \subseteq {j}
  BY <1>1, <1>2, <1>3 DEF AloneInvs, MicsAreOwn, Alone
<1> QED BY <1>1, <1>2, <1>4 DEF Alone

LEMMA AloneIsHeard == AloneInvs => LiveIsHeard
<1> SUFFICES ASSUME AloneInvs, NEW s \in DOMAIN screen, Undisturbed(s), screen[s].quit = "no", NEW m \in live[s]
             PROVE  feed[m] \in open \cup {0}
  BY DEF LiveIsHeard
<1>1. PICK j \in DOMAIN join : join[j].screen = s
  BY DEF AloneInvs, RollInv, EveryScreenJoins
<1>2. Alone(j)
  BY <1>1 DEF AloneInvs, AloneInv
<1>3. s \in Screen
  BY ScreenDomain DEF AloneInvs
<1>4. m = j /\ j \in mics[s]
  BY <1>1, <1>2, <1>3 DEF AloneInvs, MicsAreOwn, Alone
<1> QED BY <1>1, <1>2, <1>4 DEF Alone

\* The state of a call is well formed: what is published hangs on a connection,
\* and a screen, run, reopening and pipeline keep to their bounds.
THEOREM CallTypeCorrect == CallSpec => []CallTypeOK
<1>1. CallShape => CallTypeOK
  BY DEF CallShape
<1> QED BY <1>1, CallShapeInit, CallShapeStep, PTL DEF CallSpec

\* Every join starts muted: on a screen whose run was left alone no track goes
\* out unmuted before the user unmutes, but between the publish and the mute that
\* follows it (joinAndWire of InRoomScreen.tsx).
THEOREM MutedCorrect == CallSpec => []MutedUntilOptIn
  BY AloneInvsInit, AloneInvsStep, AloneIsMuted, PTL DEF CallSpec

\* A microphone that is live on such a screen has an open pipeline behind it,
\* however often the user changed the processing while in the call (replaceMicTrack
\* of InRoomScreen.tsx).
THEOREM HeardCorrect == CallSpec => []LiveIsHeard
  BY AloneInvsInit, AloneInvsStep, AloneIsHeard, PTL DEF CallSpec

-----------------------------------------------------------------------------
(* The sound of a share. *)

\* A wrapper that no screen has yet shares nothing.
NothingRuns(w) == ~InFlight(w) /\ ~shared[w] /\ ~aux[w] /\ dis[w] = "no"
StrangersAreIdle == \A w \in Wrapper : w \notin DOMAIN screen => NothingRuns(w)

\* What runs while an enable of w is at a stage.
Orderly(w) ==
  LET st == cap[w].at IN
  /\ st # "no" => ~shared[w]
  /\ aux[w] => shared[w] \/ st = "publish"
  /\ st \in {"grab", "grabRouted"} => platform = "linux"
  /\ st \in {"setup", "ask"} => platform = "win32"
  /\ st \in {"start", "grab"} /\ native => "native" \in cap[w].had
  /\ st \in {"start", "setup", "ask"} => ~stream
  /\ st = "ask" => ~native
  /\ st = "publish" /\ platform = "win32" /\ native /\ ~stream =>
       "native" \in cap[w].had \/ dis[w] \in {"stopping", "picking"}

SharesAreOrderly == StrangersAreIdle /\ \A w \in Wrapper : Orderly(w)

\* The steps of s leave the other wrappers' records alone.
OnlyOf(s) ==
  \A w \in Wrapper \ {s} :
    cap'[w] = cap[w] /\ shared'[w] = shared[w] /\ aux'[w] = aux[w] /\ dis'[w] = dis[w]

\* No screen is taken off the record.
LEMMA ScreensStay ==
  ASSUME CallShape, [CallNext]_callVars
  PROVE  DOMAIN screen \subseteq DOMAIN screen'
<1>1. ASSUME NEW r \in does.rooms, JoinRoom(r), active = NoRoom PROVE DOMAIN screen \subseteq DOMAIN screen'
  BY <1>1, EnterStep
<1>2. ASSUME NEW r \in does.rooms, JoinRoom(r), active # NoRoom PROVE DOMAIN screen \subseteq DOMAIN screen'
  BY <1>2, SwitchStep
<1>3. ASSUME NEW s \in Screen, Retry(s) PROVE DOMAIN screen \subseteq DOMAIN screen'
  BY <1>3, RetryStep
<1>4. ASSUME NEW s \in Screen, SignOut(s) \/ QuitDone(s) PROVE DOMAIN screen \subseteq DOMAIN screen'
  BY <1>4, AwayStep DEF GoesAway
<1>5. ASSUME RollKeeper PROVE DOMAIN screen \subseteq DOMAIN screen'
  BY <1>5, RollKept DEF SameRoll
<1> QED BY <1>1, <1>2, <1>3, <1>4, <1>5, CallCases DEF RollKeeper

\* What a step of the call does to the share.
ShareEffect(s) ==
  \/ AudioOff(s)
  \/ Unpublished(s) /\ UNCHANGED <<platform, native, stream, cap, dis>>
  \/ Enable(s) /\ UNCHANGED <<platform, native, stream, aux, shared, dis>>
  \/ ShareNext(s) \/ SharePublished(s) \/ SharePublishFails(s)

\* A step of the call does one of these to the share, or leaves it alone.
LEMMA ShareMoves ==
  ASSUME CallShape, StrangersAreIdle, [CallNext]_callVars
  PROVE  UNCHANGED share \/ HelperDies \/ \E s \in DOMAIN screen : ShareEffect(s)
<1>d. /\ \A j \in DOMAIN join : join[j].screen \in DOMAIN screen
      /\ \A s \in Screen : On(s) => s \in DOMAIN screen
      /\ \A s \in Screen : Mounted(s) => s \in DOMAIN screen
      /\ Wrapper = Screen
  BY CallAssumption DEF CallShape, EachHasItsScreen, On, Mounted
<1>1. ASSUME NEW s \in Screen,
             \/ Retry(s) \/ SignOut(s) \/ HandleLeave(s) \/ SetMuted(s) \/ ReopenMic(s)
             \/ Connected(s) \/ ConnectFails(s) \/ TimerFires(s)
      PROVE UNCHANGED share
  BY <1>1 DEF Retry, SignOut, HandleLeave, SetMuted, ReopenMic, Connected, ConnectFails, TimerFires
<1>2. ASSUME NEW s \in Screen, StartShare(s) \/ StartShareAudio(s)
      PROVE UNCHANGED share \/ \E t \in DOMAIN screen : ShareEffect(t)
  BY <1>2, <1>d DEF StartShare, StartShareAudio, Inside, ShareEffect, share
<1>3. ASSUME NEW s \in Screen, StopShare(s) \/ Kick(s) \/ QuitDone(s) \/ QuitAudio(s)
      PROVE \E t \in DOMAIN screen : ShareEffect(t)
  BY <1>3, <1>d DEF StopShare, Inside, Kick, QuitDone, QuitAudio, Disconnected, ShareEffect
<1>4. ASSUME NEW s \in Screen, ShareStep(s) PROVE \E t \in DOMAIN screen : ShareEffect(t)
  <2>1. ShareEffect(s)
    <3>1. CASE Inside(s) /\ DisableShare(s)
      BY <3>1 DEF ShareEffect, ShareNext
    <3> QED BY <3>1, <1>4 DEF ShareStep, ShareEffect
  <2>2. InFlight(s) \/ shared[s] \/ dis[s] # "no"
    BY <1>4 DEF ShareStep, ShareNext, HelperStarts, VenmicLinks, HelperWired, MonitorGrabbed, LoopbackAnswered,
                DisableShare, ShareForgotten, ShareReleased, SharePublished, SharePublishFails, InFlight
  <2> QED BY <2>1, <2>2, <1>d DEF StrangersAreIdle, NothingRuns
<1>5. ASSUME NEW j \in DOMAIN join, LeaveAudio(j) \/ LeaveDone(j) PROVE \E t \in DOMAIN screen : ShareEffect(t)
  <2>1. ShareEffect(join[j].screen)
    BY <1>5 DEF LeaveAudio, LeaveDone, Disconnected, ShareEffect
  <2> QED BY <2>1, <1>d
<1>6. ASSUME NEW j \in DOMAIN join,
             \/ Minted(j) \/ MicOpened(j) \/ RunFails(j) \/ Published(j) \/ MutedAfter(j) \/ KeysDone(j)
      PROVE UNCHANGED share
  BY <1>6 DEF Minted, MicOpened, RunFails, Published, MutedAfter, KeysDone
<1>7. ASSUME NEW i \in DOMAIN reopen, Reopened(i) \/ Replaced(i) PROVE UNCHANGED share
  BY <1>7 DEF Reopened, Replaced
<1>8. ASSUME NEW r \in does.rooms, JoinRoom(r) PROVE UNCHANGED share
  BY <1>8 DEF JoinRoom
<1>9. HelperGone \/ UNCHANGED callVars => UNCHANGED share \/ HelperDies
  BY DEF HelperGone, callVars
<1> QED BY <1>1, <1>2, <1>3, <1>4, <1>5, <1>6, <1>7, <1>8, <1>9, CallCases

\* What ends without a publication holds nothing.
FailsClean(s) ==
  InFlight(s) /\ ~InFlight(s)' /\ ~shared'[s] /\ dis[s] = "no" => Running' \subseteq cap[s].had /\ ~aux'[s]


\* Such a step is one of its own wrapper only.
LEMMA EffectIsOwn ==
  ASSUME SharePart, NEW s \in Wrapper, ShareEffect(s)
  PROVE  OnlyOf(s)
<1>0. /\ cap \in [Wrapper -> [at : Stage, had : SUBSET {"native", "stream"}]]
      /\ aux \in [Wrapper -> BOOLEAN] /\ shared \in [Wrapper -> BOOLEAN]
      /\ dis \in [Wrapper -> {"no", "stop", "pick", "stopping", "picking"}]
  BY DEF SharePart, ShareTypeOK
<1>1. Enable(s) \/ UNCHANGED cap => \A w \in Wrapper \ {s} : cap'[w] = cap[w]
  BY <1>0 DEF Enable
<1>2. \A stage : To(s, stage) => \A w \in Wrapper \ {s} : cap'[w] = cap[w]
  BY <1>0 DEF To
<1>3. CASE AudioOff(s)
  BY <1>3, <1>0 DEF AudioOff, Forgotten, OnlyOf
<1>4. CASE Unpublished(s) /\ UNCHANGED <<platform, native, stream, cap, dis>>
  BY <1>4, <1>0 DEF Unpublished, OnlyOf
<1>5. CASE Enable(s) /\ UNCHANGED <<platform, native, stream, aux, shared, dis>>
  BY <1>5, <1>1 DEF OnlyOf
<1>6. CASE HelperStarts(s) \/ VenmicLinks(s) \/ HelperWired(s)
  <2>1. PICK stage : To(s, stage)
    BY <1>6 DEF HelperStarts, VenmicLinks, HelperWired
  <2> QED BY <2>1, <1>6, <1>2 DEF HelperStarts, VenmicLinks, HelperWired, OnlyOf
<1>7. CASE MonitorGrabbed(s) \/ LoopbackAnswered(s)
  <2>1. PICK stage : To(s, stage)
    BY <1>7 DEF MonitorGrabbed, LoopbackAnswered
  <2> QED BY <2>1, <1>7, <1>0, <1>2 DEF MonitorGrabbed, LoopbackAnswered, OnlyOf
<1>8. CASE SharePublished(s) \/ SharePublishFails(s)
  BY <1>8, <1>0, <1>2 DEF SharePublished, SharePublishFails, Torn, OnlyOf
<1>9. CASE DisableShare(s)
  BY <1>9, <1>0 DEF DisableShare, Unpublished, OnlyOf
<1>10. CASE ShareForgotten(s)
  BY <1>10, <1>0, <1>1 DEF ShareForgotten, Forgotten, Disabled, OnlyOf
<1>11. CASE ShareReleased(s)
  BY <1>11, <1>0, <1>1 DEF ShareReleased, Disabled, OnlyOf
<1> QED BY <1>3, <1>4, <1>5, <1>6, <1>7, <1>8, <1>9, <1>10, <1>11 DEF ShareEffect, ShareNext

\* The steps of an enable keep its wrapper orderly, and it does not end holding
\* something.
LEMMA StageOrderly ==
  ASSUME SharePart, NEW s \in Wrapper, Orderly(s),
         \/ HelperStarts(s) \/ VenmicLinks(s) \/ HelperWired(s) \/ MonitorGrabbed(s) \/ LoopbackAnswered(s)
         \/ SharePublished(s) \/ SharePublishFails(s)
  PROVE  Orderly(s)' /\ FailsClean(s)
<1>0. /\ cap \in [Wrapper -> [at : Stage, had : SUBSET {"native", "stream"}]]
      /\ native \in BOOLEAN /\ stream \in BOOLEAN /\ platform \in {"win32", "linux"}
      /\ aux \in [Wrapper -> BOOLEAN] /\ shared \in [Wrapper -> BOOLEAN]
      /\ stream => platform = "win32" /\ (cap[s].at = "setup" => platform = "win32")
  BY DEF SharePart, ShareTypeOK, WindowsOnly, Platform
<1>t. \A stage : To(s, stage) => cap'[s].at = stage /\ cap'[s].had = cap[s].had
  BY <1>0 DEF To
<1>1. CASE HelperStarts(s)
  <2>1. PICK stage \in {"setup", "ask"} : To(s, stage) /\ (stage = "ask" => ~native /\ native' = native)
    BY <1>1 DEF HelperStarts
  <2>2. cap'[s].at = stage /\ cap[s].at = "start" /\ platform = "win32" /\ UNCHANGED <<platform, stream, aux, shared, dis>>
    BY <2>1, <1>1, <1>t DEF HelperStarts
  <2> QED BY <2>1, <2>2, <1>0 DEF Orderly, FailsClean, InFlight
<1>2. CASE VenmicLinks(s)
  <2>1. PICK stage \in {"grabRouted", "grab"} : To(s, stage) /\ (stage = "grab" => native' = native)
    BY <1>2 DEF VenmicLinks
  <2>2. /\ cap'[s].at = stage /\ cap'[s].had = cap[s].had /\ cap[s].at = "start" /\ platform = "linux"
        /\ UNCHANGED <<platform, stream, aux, shared, dis>>
    BY <2>1, <1>2, <1>t DEF VenmicLinks
  <2> QED BY <2>1, <2>2, <1>0 DEF Orderly, FailsClean, InFlight
<1>3. CASE HelperWired(s)
  <2>1. PICK stage \in {"publish", "ask"} :
          /\ To(s, stage)
          /\ stage = "publish" => stream'
          /\ stage = "ask" => ~native' /\ stream' = stream
    BY <1>3 DEF HelperWired
  <2>2. cap'[s].at = stage /\ cap[s].at = "setup" /\ UNCHANGED <<platform, aux, shared, dis>>
    BY <2>1, <1>3, <1>t DEF HelperWired
  <2> QED BY <2>1, <2>2, <1>0 DEF Orderly, FailsClean, InFlight
<1>4. CASE MonitorGrabbed(s)
  <2>1. PICK stage \in {"publish", "no"} :
          /\ To(s, stage)
          /\ stage = "no" => aux' = aux /\ native' = (native /\ cap[s].at = "grab")
    BY <1>4 DEF MonitorGrabbed
  <2>2. /\ cap'[s].at = stage /\ cap'[s].had = cap[s].had /\ cap[s].at \in {"grab", "grabRouted"}
        /\ UNCHANGED <<platform, stream, shared, dis>>
    BY <2>1, <1>4, <1>t DEF MonitorGrabbed
  <2>3. stage = "no" => Running' \subseteq cap[s].had
    BY <2>1, <2>2, <1>0 DEF Running, Orderly
  <2> QED BY <2>1, <2>2, <2>3, <1>0 DEF Orderly, FailsClean, InFlight
<1>5. CASE LoopbackAnswered(s)
  <2>1. PICK stage \in {"publish", "no"} : To(s, stage) /\ (stage = "no" => aux' = aux)
    BY <1>5 DEF LoopbackAnswered
  <2>2. /\ cap'[s].at = stage /\ cap[s].at = "ask" /\ UNCHANGED <<platform, native, stream, shared, dis>>
    BY <2>1, <1>5, <1>t DEF LoopbackAnswered
  <2>3. Running' = {}
    BY <2>2, <1>0 DEF Running, Orderly
  <2> QED BY <2>1, <2>2, <2>3, <1>0 DEF Orderly, FailsClean, InFlight
<1>6. CASE SharePublished(s)
  <2>1. cap'[s].at = "no" /\ shared'[s] /\ UNCHANGED <<platform, native, stream, aux, dis>>
    BY <1>6, <1>0, <1>t DEF SharePublished
  <2> QED BY <2>1 DEF Orderly, FailsClean
<1>7. CASE SharePublishFails(s)
  <2>1. /\ cap'[s].at = "no" /\ ~aux'[s] /\ cap[s].at = "publish" /\ ~stream'
        /\ native' = (native /\ platform = "win32" /\ ~stream) /\ UNCHANGED <<platform, shared, dis>>
    BY <1>7, <1>0, <1>t DEF SharePublishFails, Torn
  <2>2. dis[s] = "no" => Running' \subseteq cap[s].had
    BY <2>1, <1>0 DEF Running, Orderly
  <2> QED BY <2>1, <2>2 DEF Orderly, FailsClean
<1> QED BY <1>1, <1>2, <1>3, <1>4, <1>5, <1>6, <1>7

\* So do the other steps: a disable, a leave, a connection that ends.
LEMMA EffectOrderly ==
  ASSUME SharePart, NEW s \in Wrapper, Orderly(s), ShareEffect(s)
  PROVE  Orderly(s)' /\ FailsClean(s)
<1>0. /\ cap \in [Wrapper -> [at : Stage, had : SUBSET {"native", "stream"}]]
      /\ native \in BOOLEAN /\ stream \in BOOLEAN /\ platform \in {"win32", "linux"}
      /\ aux \in [Wrapper -> BOOLEAN] /\ shared \in [Wrapper -> BOOLEAN]
      /\ dis \in [Wrapper -> {"no", "stop", "pick", "stopping", "picking"}]
      /\ stream => platform = "win32"
  BY DEF SharePart, ShareTypeOK, WindowsOnly, Platform
<1>c. UNCHANGED cap \/ Enable(s) => FailsClean(s)
  BY <1>0 DEF FailsClean, InFlight, Enable
<1>1. CASE AudioOff(s)
  <2>1. /\ ~aux'[s] /\ ~shared'[s] /\ ~stream' /\ native' = (native /\ ~(stream \/ platform = "linux"))
        /\ UNCHANGED <<platform, cap, dis>>
    BY <1>1, <1>0 DEF AudioOff, Forgotten, StopsNative
  <2> QED BY <2>1, <1>c, <1>0 DEF Orderly
<1>2. CASE Unpublished(s) /\ UNCHANGED <<platform, native, stream, cap, dis>>
  <2>1. ~shared'[s] /\ (aux'[s] => aux[s] /\ ~shared[s])
    BY <1>2, <1>0 DEF Unpublished
  <2> QED BY <2>1, <1>2, <1>c DEF Orderly
<1>3. CASE Enable(s) /\ UNCHANGED <<platform, native, stream, aux, shared, dis>>
  <2>1. CASE UNCHANGED cap
    BY <2>1, <1>3, <1>c DEF Orderly
  <2>2. CASE /\ cap' = [cap EXCEPT ![s] = [at |-> IF stream' THEN "publish" ELSE "start", had |-> Running']]
             /\ ~shared[s] /\ ~InFlight(s)
    <3>1. /\ cap'[s].at = IF stream THEN "publish" ELSE "start"
          /\ native => "native" \in cap'[s].had
      BY <2>2, <1>3, <1>0 DEF Running
    <3> QED BY <3>1, <2>2, <1>3, <1>0, <1>c DEF Orderly, InFlight
  <2> QED BY <2>1, <2>2, <1>3 DEF Enable
<1>4. CASE DisableShare(s)
  <2>1. /\ ~shared'[s] /\ (aux'[s] => aux[s] /\ ~shared[s]) /\ shared[s]
        /\ UNCHANGED <<platform, native, stream, cap>>
    BY <1>4, <1>0 DEF DisableShare, Unpublished
  <2> QED BY <2>1, <1>c DEF Orderly
<1>5. CASE ShareForgotten(s)
  <2>0. /\ ~aux'[s] /\ ~stream' /\ UNCHANGED <<platform, native, shared>> /\ dis[s] \in {"stop", "pick"}
    BY <1>5, <1>0 DEF ShareForgotten, Forgotten
  <2>1. CASE StopsNative /\ UNCHANGED cap /\ dis'[s] \in {"stopping", "picking"}
    BY <2>0, <2>1, <1>0, <1>c DEF Orderly
  <2>2. CASE ~StopsNative /\ Disabled(s)
    <3>1. CASE UNCHANGED cap
      BY <3>1, <2>0, <2>2, <1>0, <1>c DEF Orderly, StopsNative
    <3>2. CASE /\ cap' = [cap EXCEPT ![s] = [at |-> IF stream' THEN "publish" ELSE "start", had |-> Running']]
               /\ ~shared'[s] /\ ~InFlight(s)
      <4>1. cap'[s].at = "start" /\ (native' => "native" \in cap'[s].had)
        BY <3>2, <2>0, <1>0 DEF Running
      <4> QED BY <4>1, <3>2, <2>0, <1>0, <1>c DEF Orderly, FailsClean, InFlight
    <3> QED BY <3>1, <3>2, <2>2 DEF Disabled, Enable
  <2> QED BY <2>1, <2>2, <1>5, <1>0 DEF ShareForgotten
<1>6. CASE ShareReleased(s)
  <2>0. ~native' /\ UNCHANGED <<platform, stream, aux, shared>>
    BY <1>6 DEF ShareReleased
  <2>1. CASE UNCHANGED cap
    BY <2>0, <2>1, <1>0, <1>c DEF Orderly
  <2>2. CASE /\ cap' = [cap EXCEPT ![s] = [at |-> IF stream' THEN "publish" ELSE "start", had |-> Running']]
             /\ ~shared'[s] /\ ~InFlight(s)
    <3>1. cap'[s].at = IF stream THEN "publish" ELSE "start"
      BY <2>2, <2>0, <1>0
    <3> QED BY <3>1, <2>2, <2>0, <1>0 DEF Orderly, InFlight, FailsClean
  <2> QED BY <2>1, <2>2, <1>6 DEF ShareReleased, Disabled, Enable
<1> QED BY <1>1, <1>2, <1>3, <1>4, <1>5, <1>6, StageOrderly DEF ShareEffect, ShareNext

\* While at most one screen was ever mounted, no other wrapper takes part.
OneScreen == Len(screen) <= 1

\* Every step keeps the shares orderly, and ends none that holds something.
LEMMA SharesStep ==
  ASSUME CallShape, SharesAreOrderly, OneScreen, [CallNext]_callVars
  PROVE  SharesAreOrderly' /\ \A s \in Screen : FailsClean(s)
<1>d. /\ Screen = Wrapper /\ SharePart /\ DOMAIN screen \subseteq Wrapper
      /\ \A s, w \in DOMAIN screen : s = w
  <2>1. DOMAIN screen = 1 .. Len(screen) /\ Len(screen) \in Nat
    BY DEF CallShape, CallTypeOK
  <2> QED BY <2>1, ShapeParts, ScreenDomain, CallAssumption DEF OneScreen
<1>n. \A w \in Wrapper : (UNCHANGED <<cap, shared, aux, dis>> /\ NothingRuns(w)) => NothingRuns(w)'
  BY DEF NothingRuns, InFlight
<1>1. CASE UNCHANGED share
  <2>1. \A w \in Wrapper : Orderly(w)'
    BY <1>1 DEF share, Orderly, SharesAreOrderly
  <2>2. \A w \in Wrapper : FailsClean(w)
    BY <1>1 DEF share, FailsClean, InFlight
  <2>3. StrangersAreIdle'
    BY <1>1, <1>n, ScreensStay DEF share, SharesAreOrderly, StrangersAreIdle
  <2> QED BY <2>1, <2>2, <2>3, <1>d DEF SharesAreOrderly
<1>2. CASE HelperDies
  <2>0. ~native' /\ ~stream' /\ UNCHANGED <<platform, cap, aux, shared, dis>>
    BY <1>2 DEF HelperDies
  <2>1. \A w \in Wrapper : Orderly(w)'
    BY <2>0 DEF Orderly, SharesAreOrderly
  <2>2. \A w \in Wrapper : FailsClean(w)
    BY <2>0 DEF FailsClean, InFlight
  <2>3. StrangersAreIdle'
    BY <2>0, <1>n, ScreensStay DEF SharesAreOrderly, StrangersAreIdle
  <2> QED BY <2>1, <2>2, <2>3, <1>d DEF SharesAreOrderly
<1>3. ASSUME NEW s \in DOMAIN screen, ShareEffect(s)
      PROVE SharesAreOrderly' /\ \A w \in Screen : FailsClean(w)
  <2>1. Orderly(s)' /\ FailsClean(s)
    BY <1>3, <1>d, EffectOrderly DEF SharesAreOrderly
  <2>2. ASSUME NEW w \in Wrapper \ {s} PROVE NothingRuns(w) /\ NothingRuns(w)'
    <3>1. NothingRuns(w)
      BY <1>d DEF SharesAreOrderly, StrangersAreIdle
    <3>2. OnlyOf(s)
      BY <1>3, <1>d, EffectIsOwn
    <3> QED BY <3>1, <3>2 DEF OnlyOf, NothingRuns, InFlight
  <2>3. ASSUME NEW w \in Wrapper \ {s} PROVE Orderly(w)' /\ FailsClean(w)
    BY <2>2 DEF NothingRuns, InFlight, Orderly, FailsClean
  <2>4. StrangersAreIdle'
    BY <2>2, ScreensStay DEF StrangersAreIdle
  <2> QED BY <2>1, <2>3, <2>4, <1>d DEF SharesAreOrderly
<1> QED BY <1>1, <1>2, <1>3, ShareMoves DEF SharesAreOrderly

\* While at most one screen was ever mounted (whatever it does: another room, a
\* second try, a kick), an enable of the share's sound that ends without a
\* published track leaves nothing running that it started (enableScreenShareAudio
\* of livekit-room.ts).  With a second wrapper it does not hold: see README.md.
THEOREM ShareFailsClean == CallSpec /\ []OneScreen => FailedShareHoldsNothing
<1> DEFINE Step == \A s \in Screen :
             InFlight(s) /\ ~InFlight(s)' /\ ~shared'[s] /\ dis[s] = "no"
                /\ (\A w \in Screen : InFlight(w) \/ shared[w] => w = s) =>
              Running' \subseteq cap[s].had /\ ~aux'[s]
<1>1. CallInit => SharesAreOrderly
  BY DEF CallInit, ShareInit, SharesAreOrderly, StrangersAreIdle, NothingRuns, Orderly, InFlight
<1>2. CallShape /\ SharesAreOrderly /\ OneScreen /\ [CallNext]_callVars => SharesAreOrderly' /\ [Step]_callVars
  <2>1. (\A s \in Screen : FailsClean(s)) => Step
    BY DEF FailsClean
  <2> QED BY <2>1, SharesStep
<1> HIDE DEF Step
<1>3. CallSpec /\ []OneScreen => [][Step]_callVars
  BY <1>1, <1>2, CallShapeInit, CallShapeStep, PTL DEF CallSpec
<1> QED BY <1>3 DEF FailedShareHoldsNothing, Step
=============================================================================
