----------------------------- MODULE SignInProofs -----------------------------
(***************************************************************************)
(* Proofs about SignIn for every number of accounts and devices and every  *)
(* profile: the type invariant; and, while no two calls of a device cross, *)
(* that the store, the token of the requests, the owner of the keys and    *)
(* the token on the disk stay together, and that the keys of an account    *)
(* stay its own.                                                           *)
(***************************************************************************)
EXTENDS SignIn, TLAPS

USE SignInAssumption

-----------------------------------------------------------------------------
(* The parts of the invariant: what is true of a device, by the calls that *)
(* are under way.                                                          *)

\* A call that leads from the screen of the login to the app, and a place of it.
Signs(f) == f.op \in {"hydrate", "login", "totp", "register"}
Shape(f) ==
  \/ f.op = "hydrate" /\ f.at \in {"read", "me", "clear"}
  \/ f.op \in {"login", "totp", "register"} /\ f.at \in {f.op, "escrow", "put", "save"}
  \/ f.op = "logout" /\ f.at \in {"presence", "logout", "clear"}
  \/ f.op = "refresh" /\ f.at = "me"
  \/ f.op = "handle" /\ f.at \in {"handle", "me"}
\* A client that does not run has no memory.
Empty(d) ==
  /\ calls[d] = {} /\ store[d] = SignedOut /\ api[d] = None /\ active[d] = None /\ stash[d] = None

\* Nobody is signed in.
Out(d) == api[d] = None /\ active[d] = None /\ store[d].token = None

\* What is at hand where a call that signs in waits.
ReadHolds(d, f) == store[d].status = "unauthenticated" /\ Out(d) /\ stash[d] = None
MeHolds(d, f) ==
  /\ store[d].status = "loading" /\ f.with # None /\ f.with = ReadToken(d)
  /\ store[d].token = f.with /\ api[d] = f.with /\ active[d] = None /\ stash[d] = None
ClearHolds(d, f) ==
  store[d].status = "loading" /\ api[d] = None /\ active[d] = None /\ stash[d] = None
FormHolds(d, f) ==
  /\ store[d].status = "loading" /\ Out(d) /\ ReadToken(d) = None /\ f.who # None
  /\ IF f.op = "totp" THEN stash[d] # None /\ store[d].challenge # None
     ELSE stash[d] = None /\ f.pw # None
SessionHolds(d, f) ==
  /\ store[d].status = "loading"
  /\ f.token # None /\ f.token.of = f.who /\ f.user # None /\ f.user.id = f.who
  /\ api[d] = f.token /\ active[d] = f.who
  /\ (f.op = "totp" /\ f.at # "save") \/ stash[d] = None
KeyHolds(d, f) ==
  /\ f.with = f.token /\ f.who # None
  /\ f.key \in {None, f.who} \/ f.who \in adopted
  /\ f.at = "put" => f.key # None
Holds(d, f) ==
  /\ f.at = "read" => ReadHolds(d, f)
  /\ f.at = "me" => MeHolds(d, f)
  /\ f.at = "clear" => ClearHolds(d, f)
  /\ f.at \in {"login", "totp", "register"} => FormHolds(d, f)
  /\ f.at \in {"escrow", "put", "save"} => SessionHolds(d, f)
  /\ f.at \in {"escrow", "put"} => KeyHolds(d, f)

\* The other calls ask with the token of the store, or with none; the requests
\* carry none from when the server was told of the sign-out.
Asks(d, f) ==
  /\ f.op = "logout" /\ f.at = "clear" => api[d] = None
  /\ f.op \in {"refresh", "handle"} /\ store[d].status = "authenticated" =>
       f.with \in {None, store[d].token}

\* Nothing else is called while somebody signs in.
CallsHold(d) ==
  \A f \in calls[d] :
    IF Signs(f) THEN Shape(f) /\ calls[d] = {f} /\ Holds(d, f) ELSE Shape(f) /\ Asks(d, f)

\* What is on the screen.
LoaderHolds(d) ==
  store[d].status = "loading" => \E f \in calls[d] : Signs(f) /\ f.at # "read"
LoginHolds(d) ==
  store[d].status = "unauthenticated" =>
    /\ Out(d) /\ stash[d] = None
    /\ d \in started /\ (\A f \in calls[d] : ~Signs(f)) => ReadToken(d) = None
TotpHolds(d) ==
  store[d].status = "totp-required" =>
    /\ calls[d] = {} /\ Out(d) /\ ReadToken(d) = None
    /\ store[d].challenge # None /\ stash[d] # None
AppHolds(d) ==
  store[d].status = "authenticated" =>
    /\ \A f \in calls[d] : ~Signs(f)
    /\ store[d].user # None /\ store[d].token # None /\ store[d].user.id = store[d].token.of
    /\ active[d] = store[d].token.of /\ ReadToken(d) = store[d].token /\ stash[d] = None
    /\ api[d] = store[d].token \/ \E f \in calls[d] : f.op = "logout" /\ f.at = "clear"

Sound(d) ==
  /\ d \notin started => Empty(d)
  /\ CallsHold(d) /\ LoaderHolds(d) /\ LoginHolds(d) /\ TotpHolds(d) /\ AppHolds(d)
Whole == \A d \in Device : Sound(d)

\* Where calls do not cross.
IInv == TypeOK /\ (~Does("cross") => Whole /\ OwnKeyOnly)

-----------------------------------------------------------------------------
(* Types.                                                                  *)

\* Frames, the answer that a call goes on with, and a session that is opened.
LEMMA FramesMade ==
  /\ NewFrame("hydrate", "read") \in Frame
  /\ \A u \in Account, pw \in Password :
       /\ [NewFrame("login", "login") EXCEPT !.who = u, !.pw = pw] \in Frame
       /\ [NewFrame("register", "register") EXCEPT !.who = u, !.pw = pw] \in Frame
  /\ \A u \in Account : [NewFrame("totp", "totp") EXCEPT !.who = u] \in Frame
  /\ NewFrame("logout", "clear") \in Frame
  /\ \A t \in Session \cup {None} :
       /\ [NewFrame("logout", "presence") EXCEPT !.with = t] \in Frame
       /\ [NewFrame("refresh", "me") EXCEPT !.with = t] \in Frame
       /\ [NewFrame("handle", "handle") EXCEPT !.with = t] \in Frame
BY DEF SignInAssumption, NewFrame, Frame, AnyFrame

LEMMA FramesGoOn ==
  ASSUME NEW f \in Frame, NEW t \in Session \cup {None}
  PROVE  /\ \A at \in {"me", "logout", "clear"} : [f EXCEPT !.at = at, !.with = t] \in Frame
         /\ f.at = "escrow" /\ f.key # None => [f EXCEPT !.at = "put", !.with = t] \in Frame
         /\ \A at \in {"clear", "save"} : [f EXCEPT !.at = at] \in Frame
<1>1. \A at \in {"me", "logout", "clear"} : [f EXCEPT !.at = at, !.with = t] \in Frame
  BY DEF Frame, AnyFrame
<1>2. \A at \in {"clear", "save"} : [f EXCEPT !.at = at] \in Frame
  BY DEF Frame, AnyFrame
<1>3. f.at = "escrow" /\ f.key # None => [f EXCEPT !.at = "put", !.with = t] \in Frame
  BY DEF Frame, AnyFrame
<1>. QED
  BY <1>1, <1>2, <1>3

\* The same for the answer to a form.
LEMMA FramesPlaced ==
  ASSUME NEW g \in AnyFrame, NEW key \in Account \cup {None}
  PROVE  /\ [g EXCEPT !.at = "save"] \in Frame
         /\ g.pw # None => [g EXCEPT !.at = "escrow", !.key = key] \in Frame
<1>1. [g EXCEPT !.at = "save"] \in Frame
  BY DEF Frame, AnyFrame
<1>2. g.pw # None => [g EXCEPT !.at = "escrow", !.key = key] \in Frame
  BY DEF Frame, AnyFrame
<1>. QED
  BY <1>1, <1>2

LEMMA FormsGoOn ==
  ASSUME NEW f \in Frame, NEW t \in Session, NEW user \in User,
         NEW pw \in Password \cup {None}, NEW key \in Account \cup {None}, NEW g,
         g = [f EXCEPT !.token = t, !.with = t, !.user = user, !.pw = pw]
  PROVE  /\ [g EXCEPT !.at = "save"] \in Frame
         /\ pw # None => [g EXCEPT !.at = "escrow", !.key = key] \in Frame
<1>1. g \in AnyFrame
  BY DEF Frame, AnyFrame
<1>2. g.pw = pw
  BY DEF Frame, AnyFrame
<1>. QED
  BY <1>1, <1>2, FramesPlaced, Zenon

LEMMA AccountFields ==
  ASSUME TypeOK, NEW u \in Account
  PROVE  /\ account[u] \in AccountState /\ account[u].pw \in Password /\ account[u].issued \in Nat
         /\ account[u].escrow \in Escrow \cup {None}
         /\ UserOf(u) \in User /\ UserOf(u).id = u
         /\ NewSession(u) \in Session /\ NewSession(u).of = u
<1>1. account[u] \in AccountState
  BY DEF TypeOK
<1>. QED
  BY <1>1 DEF AccountState, UserOf, User, NewSession, Session

LEMMA FrameFields ==
  ASSUME NEW f \in Frame
  PROVE  /\ f.who \in Account \cup {None} /\ f.pw \in Password \cup {None}
         /\ f.with \in Session \cup {None} /\ f.token \in Session \cup {None}
         /\ f.user \in User \cup {None} /\ f.key \in Account \cup {None}
         /\ f.at \in {"login", "totp", "register"} => f.who \in Account
         /\ f.at \in {"escrow", "put"} => f.pw \in Password
         /\ f.at = "put" => f.key \in Account
BY DEF Frame, AnyFrame

LEMMA DeviceFields ==
  ASSUME TypeOK, NEW d \in Device
  PROVE  /\ store[d] \in StoreState /\ api[d] \in Session \cup {None}
         /\ store[d].status \in Status /\ store[d].user \in User \cup {None}
         /\ store[d].token \in Session \cup {None} /\ store[d].challenge \in Account \cup {None}
         /\ active[d] \in Account \cup {None} /\ stash[d] \in Password \cup {None}
         /\ ReadToken(d) \in Session \cup {None} /\ calls[d] \subseteq Frame
         /\ \A u \in Account : slot[d][u] \in Account \cup {None} /\ FoundKey(d, u) \in Account \cup {None}
         /\ staged[d] \in Account \cup {None}
<1>1. store[d] \in StoreState /\ file[d] \in [enc : Session \cup {None}, plain : Session \cup {None}]
      /\ slot[d] \in [Account -> Account \cup {None}] /\ staged[d] \in Account \cup {None}
  BY DEF TypeOK
<1>2. /\ store[d].status \in Status /\ store[d].user \in User \cup {None}
      /\ store[d].token \in Session \cup {None} /\ store[d].challenge \in Account \cup {None}
  BY <1>1 DEF StoreState
<1>3. /\ ReadToken(d) \in Session \cup {None}
      /\ \A u \in Account : slot[d][u] \in Account \cup {None} /\ FoundKey(d, u) \in Account \cup {None}
  BY <1>1 DEF ReadToken, FoundKey
<1>4. api[d] \in Session \cup {None} /\ active[d] \in Account \cup {None}
      /\ stash[d] \in Password \cup {None} /\ calls[d] \subseteq Frame
  BY DEF TypeOK
<1>. QED
  BY <1>1, <1>2, <1>3, <1>4

\* The part of the type invariant about what the device has in memory.
MemoryOK ==
  /\ started \subseteq does.devices /\ keyring \subseteq Device
  /\ store \in [Device -> StoreState] /\ api \in [Device -> Session \cup {None}]
  /\ active \in [Device -> Account \cup {None}] /\ stash \in [Device -> Password \cup {None}]
  /\ calls \in [Device -> SUBSET Frame]
ServerOK == account \in [Account -> AccountState] /\ sessions \subseteq Session
DiskOK ==
  /\ slot \in [Device -> [Account -> Account \cup {None}]]
  /\ staged \in [Device -> Account \cup {None}]
  /\ file \in [Device -> [enc : Session \cup {None}, plain : Session \cup {None}]]
  /\ adopted \subseteq Account
CountOK == does \in Profiles /\ moves \in 0 .. does.moves /\ failures \in 0 .. does.faults

LEMMA TypeParts == TypeOK <=> MemoryOK /\ ServerOK /\ DiskOK /\ CountOK
BY DEF TypeOK, MemoryOK, ServerOK, DiskOK, CountOK

\* A call goes on, returns, or begins.
LEMMA CallsTyped ==
  ASSUME TypeOK, NEW d \in Device, NEW f, NEW g \in Frame
  PROVE  /\ Goto(d, f, g) => calls' \in [Device -> SUBSET Frame]
         /\ Return(d, f) => calls' \in [Device -> SUBSET Frame]
         /\ calls' = [calls EXCEPT ![d] = @ \cup {g}] => calls' \in [Device -> SUBSET Frame]
<1>1. calls \in [Device -> SUBSET Frame]
  BY DEF TypeOK
<1>2. (calls[d] \ {f}) \cup {g} \in SUBSET Frame /\ calls[d] \ {f} \in SUBSET Frame
      /\ calls[d] \cup {g} \in SUBSET Frame
  BY <1>1
<1>. QED
  BY <1>1, <1>2, Zenon DEF Goto, Return

LEMMA StatesMade ==
  ASSUME NEW s \in StoreState
  PROVE  /\ SignedOut \in StoreState
         /\ \A x \in Status : [s EXCEPT !.status = x] \in StoreState
         /\ \A x \in Status, t \in Session \cup {None} : [s EXCEPT !.status = x, !.token = t] \in StoreState
         /\ \A x \in Status, u \in User \cup {None} :
              /\ [s EXCEPT !.status = x, !.user = u] \in StoreState
              /\ [s EXCEPT !.user = u] \in StoreState
         /\ \A x \in Status, c \in Account \cup {None} : [s EXCEPT !.status = x, !.challenge = c] \in StoreState
         /\ \A x \in Status, t \in Session \cup {None}, u \in User \cup {None}, c \in Account \cup {None} :
              /\ [s EXCEPT !.status = x, !.token = t, !.user = u] \in StoreState
              /\ [s EXCEPT !.status = x, !.token = t, !.user = u, !.challenge = c] \in StoreState
BY DEF StoreState, SignedOut, Status

LEMMA RowsMade ==
  ASSUME NEW a \in AccountState
  PROVE  /\ [a EXCEPT !.open = TRUE] \in AccountState
         /\ [a EXCEPT !.issued = @ + 1] \in AccountState
         /\ [[a EXCEPT !.open = TRUE] EXCEPT !.issued = @ + 1] \in AccountState
         /\ [a EXCEPT !.handle = TRUE] \in AccountState /\ [a EXCEPT !.verified = TRUE] \in AccountState
         /\ \A e \in Escrow : [a EXCEPT !.escrow = e] \in AccountState
         /\ [a EXCEPT !.pw = @ + 1, !.escrow = None, !.verified = TRUE] \in AccountState
<1>1. a.pw + 1 \in Password /\ a.issued + 1 \in Nat
  BY DEF AccountState, Password
<1>2. /\ [a EXCEPT !.open = TRUE] \in AccountState
      /\ [a EXCEPT !.handle = TRUE] \in AccountState /\ [a EXCEPT !.verified = TRUE] \in AccountState
      /\ \A e \in Escrow : [a EXCEPT !.escrow = e] \in AccountState
  BY DEF AccountState
<1>3. /\ [a EXCEPT !.issued = @ + 1] \in AccountState
      /\ [[a EXCEPT !.open = TRUE] EXCEPT !.issued = @ + 1] \in AccountState
  BY <1>1 DEF AccountState
<1>4. [a EXCEPT !.pw = @ + 1, !.escrow = None, !.verified = TRUE] \in AccountState
  BY <1>1 DEF AccountState
<1>. QED
  BY <1>2, <1>3, <1>4

\* What a step counts, and what it writes for a device.
LEMMA Counts ==
  ASSUME TypeOK, does' = does,
         \/ UNCHANGED <<moves, failures>>
         \/ Move /\ UNCHANGED failures
         \/ Fault /\ UNCHANGED moves
  PROVE  CountOK'
<1>1. does.moves \in Nat /\ does.faults \in Nat
  BY DEF SignInAssumption, TypeOK, Profile
<1>. QED
  BY <1>1 DEF TypeOK, CountOK, Move, Fault

LEMMA Written ==
  ASSUME TypeOK, NEW d \in Device
  PROVE  /\ \A s \in StoreState : Set(d, s) => store' \in [Device -> StoreState]
         /\ \A t \in Session \cup {None} :
              api' = [api EXCEPT ![d] = t] => api' \in [Device -> Session \cup {None}]
         /\ \A u \in Account \cup {None} :
              active' = [active EXCEPT ![d] = u] => active' \in [Device -> Account \cup {None}]
         /\ \A p \in Password \cup {None} :
              stash' = [stash EXCEPT ![d] = p] => stash' \in [Device -> Password \cup {None}]
         /\ \A u \in Account, k \in Account \cup {None} :
              slot' = [slot EXCEPT ![d][u] = k] => slot' \in [Device -> [Account -> Account \cup {None}]]
<1>1. \A s \in StoreState : Set(d, s) => store' \in [Device -> StoreState]
  BY DEF TypeOK, Set
<1>2. \A t \in Session \cup {None} :
        api' = [api EXCEPT ![d] = t] => api' \in [Device -> Session \cup {None}]
  BY DEF TypeOK
<1>3. \A u \in Account \cup {None} :
        active' = [active EXCEPT ![d] = u] => active' \in [Device -> Account \cup {None}]
  BY DEF TypeOK
<1>4. \A p \in Password \cup {None} :
        stash' = [stash EXCEPT ![d] = p] => stash' \in [Device -> Password \cup {None}]
  BY DEF TypeOK
<1>5. \A u \in Account, k \in Account \cup {None} :
        slot' = [slot EXCEPT ![d][u] = k] => slot' \in [Device -> [Account -> Account \cup {None}]]
  BY DEF TypeOK
<1>. QED
  BY <1>1, <1>2, <1>3, <1>4, <1>5

LEMMA ClaimTyped ==
  ASSUME TypeOK, NEW d \in Device, NEW u \in Account, Claim(d, u), file' = file
  PROVE  DiskOK'
<1>1. FoundKey(d, u) \in Account \cup {None}
  BY DeviceFields
<1>2. slot' \in [Device -> [Account -> Account \cup {None}]]
  BY <1>1, Written DEF Claim
<1>3. staged' \in [Device -> Account \cup {None}]
  BY DEF Claim, TypeOK
<1>4. adopted' \subseteq Account /\ file' \in [Device -> [enc : Session \cup {None}, plain : Session \cup {None}]]
  BY DEF Claim, TypeOK
<1>. QED
  BY <1>2, <1>3, <1>4 DEF DiskOK

\* The start and the end of a client, and the files.
LEMMA TypesOfRuns ==
  ASSUME TypeOK, NEW d \in Device,
         Start(d) \/ Quit(d) \/ \E f \in calls[d] : TokenRead(d, f) \/ TokenSaved(d, f) \/ TokenCleared(d, f)
  PROVE  TypeOK'
<1>1. CASE Start(d)
  <2>1. calls' \in [Device -> SUBSET Frame]
    BY <1>1, FramesMade DEF Start, TypeOK
  <2>2. started' \subseteq does.devices /\ keyring' \subseteq Device
    BY <1>1 DEF Start, TypeOK
  <2>. QED
    BY <1>1, <2>1, <2>2 DEF Start, TypeOK, memory, disk, server, past
<1>2. CASE Quit(d)
  <2>1. calls' \in [Device -> SUBSET Frame] /\ started' \subseteq does.devices
    BY <1>2 DEF Quit, TypeOK
  <2>2. store' \in [Device -> StoreState]
    BY <1>2, StatesMade, DeviceFields DEF Quit, TypeOK
  <2>3. api' \in [Device -> Session \cup {None}] /\ active' \in [Device -> Account \cup {None}]
        /\ stash' \in [Device -> Password \cup {None}]
    BY <1>2, Written DEF Quit
  <2>4. MemoryOK' /\ ServerOK' /\ DiskOK'
    BY <1>2, <2>1, <2>2, <2>3 DEF Quit, TypeOK, MemoryOK, ServerOK, DiskOK, disk, server
  <2>. QED
    BY <1>2, <2>4, Counts, TypeParts DEF Quit, TypeOK, MemoryOK, ServerOK, DiskOK, CountOK
<1>3. ASSUME NEW f \in calls[d], TokenRead(d, f) PROVE TypeOK'
  <2>1. f \in Frame /\ ReadToken(d) \in Session \cup {None}
    BY DeviceFields
  <2>2. store' \in [Device -> StoreState] /\ api' \in [Device -> Session \cup {None}]
    <3>1. [store[d] EXCEPT !.status = "unauthenticated"] \in StoreState
          /\ [store[d] EXCEPT !.status = "loading", !.token = ReadToken(d)] \in StoreState
      BY <2>1, DeviceFields, StatesMade DEF Status
    <3>2. api \in [Device -> Session \cup {None}]
      BY DEF TypeOK
    <3>. QED
      BY <1>3, <2>1, <3>1, <3>2, Written DEF TokenRead
  <2>3. calls' \in [Device -> SUBSET Frame]
    <3>1. [f EXCEPT !.at = "me", !.with = ReadToken(d)] \in Frame
      BY <2>1, FramesGoOn
    <3>. QED
      BY <1>3, <3>1, CallsTyped DEF TokenRead
  <2>. QED
    BY <1>3, <2>2, <2>3 DEF TokenRead, TypeOK, disk, server, past
<1>4. ASSUME NEW f \in calls[d], TokenSaved(d, f) PROVE TypeOK'
  <2>1. f \in Frame
    BY DeviceFields
  <2>2. f.token \in Session \cup {None} /\ f.user \in User \cup {None}
    BY <2>1, FrameFields
  <2>3. SavedToken(d, f.token) \in [enc : Session \cup {None}, plain : Session \cup {None}]
    BY <2>2 DEF SavedToken
  <2>4. file' \in [Device -> [enc : Session \cup {None}, plain : Session \cup {None}]]
    BY <1>4, <2>3 DEF TokenSaved, TypeOK
  <2>5. store' \in [Device -> StoreState]
    <3>1. \A c \in Account \cup {None} :
            [store[d] EXCEPT !.status = "authenticated", !.token = f.token, !.user = f.user,
                             !.challenge = c] \in StoreState
      BY <2>2, DeviceFields, StatesMade DEF Status
    <3>2. store[d].challenge \in Account \cup {None}
      BY DeviceFields
    <3>. QED
      BY <1>4, <3>1, <3>2, Written DEF TokenSaved
  <2>6. calls' \in [Device -> SUBSET Frame]
    BY <1>4, <2>1, CallsTyped DEF TokenSaved
  <2>. QED
    BY <1>4, <2>4, <2>5, <2>6 DEF TokenSaved, TypeOK, server, past
<1>5. ASSUME NEW f \in calls[d], TokenCleared(d, f) PROVE TypeOK'
  <2>1. f \in Frame
    BY DeviceFields
  <2>2. file' \in [Device -> [enc : Session \cup {None}, plain : Session \cup {None}]]
    BY <1>5 DEF TokenCleared, TypeOK, NoFile
  <2>3. store' \in [Device -> StoreState]
    <3>1. SignedOut \in StoreState
          /\ [store[d] EXCEPT !.status = "unauthenticated", !.token = None, !.user = None] \in StoreState
      BY DeviceFields, StatesMade DEF Status
    <3>. QED
      BY <1>5, <3>1, Written DEF TokenCleared
  <2>4. active' \in [Device -> Account \cup {None}]
    BY <1>5 DEF TokenCleared, TypeOK
  <2>5. calls' \in [Device -> SUBSET Frame]
    BY <1>5, <2>1, CallsTyped DEF TokenCleared
  <2>. QED
    BY <1>5, <2>2, <2>3, <2>4, <2>5 DEF TokenCleared, TypeOK, server, past
<1>. QED
  BY <1>1, <1>2, <1>3, <1>4, <1>5

\* A session is opened, with the answer in hand.
LEMMA SessionTyped ==
  ASSUME TypeOK, NEW u \in Account, NEW row \in AccountState, OpenSession(row, u)
  PROVE  ServerOK'
<1>1. account \in [Account -> AccountState] /\ sessions \subseteq Session /\ NewSession(u) \in Session
  BY AccountFields DEF TypeOK
<1>2. row.issued + 1 \in Nat
  BY DEF AccountState
<1>3. [row EXCEPT !.issued = @ + 1] \in AccountState
  BY <1>2 DEF AccountState
<1>. QED
  BY <1>1, <1>3 DEF OpenSession, ServerOK

LEMMA SignedInTyped ==
  ASSUME TypeOK, NEW d \in Device, NEW f \in calls[d], f.who \in Account,
         NEW pw \in Password \cup {None}, NEW local \in Account \cup {None}, SessionOpened(d, f, pw, local)
  PROVE  /\ api' \in [Device -> Session \cup {None}] /\ active' \in [Device -> Account \cup {None}]
         /\ calls' \in [Device -> SUBSET Frame]
<1> DEFINE g == [f EXCEPT !.token = NewSession(f.who), !.with = NewSession(f.who),
                          !.user = UserOf(f.who), !.pw = pw]
<1>1. NewSession(f.who) \in Session /\ UserOf(f.who) \in User /\ f \in Frame
  BY AccountFields, DeviceFields
<1>2. /\ [g EXCEPT !.at = "save"] \in Frame
      /\ pw # None => [g EXCEPT !.at = "escrow", !.key = local] \in Frame
  BY <1>1, FormsGoOn
<1>3. \/ Goto(d, f, [g EXCEPT !.at = "save"])
      \/ pw # None /\ Goto(d, f, [g EXCEPT !.at = "escrow", !.key = local])
  BY DEF SessionOpened
<1>4. calls' \in [Device -> SUBSET Frame]
  BY <1>2, <1>3, CallsTyped
<1>. QED
  BY <1>1, <1>4, Written DEF SessionOpened

\* The saved token, and the forms, as far as they open no session.
LEMMA TypesOfForms ==
  ASSUME TypeOK, NEW d \in Device,
         \/ \E f \in calls[d] : Hydrated(d, f) \/ HydrateFails(d, f)
         \/ LoginTotp(d) \/ CancelTotp(d)
         \/ \E u \in Account : Register(d, u) \/ \E pw \in {0, account[u].pw} : Login(d, u, pw)
  PROVE  TypeOK'
<1>1. ASSUME NEW f \in calls[d], Hydrated(d, f) PROVE TypeOK'
  <2>1. f \in Frame /\ f.with \in Session /\ f.with.of \in Account
    BY <1>1, DeviceFields DEF Hydrated, TypeOK, Session
  <2>2. [store[d] EXCEPT !.status = "authenticated", !.user = UserOf(f.with.of)] \in StoreState
    BY <2>1, AccountFields, DeviceFields, StatesMade DEF Status
  <2>3. store' \in [Device -> StoreState] /\ active' \in [Device -> Account \cup {None}]
    BY <1>1, <2>1, <2>2, Written DEF Hydrated
  <2>4. calls' \in [Device -> SUBSET Frame]
    BY <1>1, <2>1, CallsTyped DEF Hydrated
  <2>. QED
    BY <1>1, <2>3, <2>4 DEF Hydrated, TypeOK, disk, server, past
<1>2. ASSUME NEW f \in calls[d], HydrateFails(d, f) PROVE TypeOK'
  <2>1. f \in Frame /\ [f EXCEPT !.at = "clear"] \in Frame
    BY DeviceFields, FramesGoOn
  <2>2. api' \in [Device -> Session \cup {None}] /\ calls' \in [Device -> SUBSET Frame]
    BY <1>2, <2>1, CallsTyped, Written DEF HydrateFails
  <2>3. MemoryOK' /\ ServerOK' /\ DiskOK'
    BY <1>2, <2>2 DEF HydrateFails, TypeOK, MemoryOK, ServerOK, DiskOK, server, disk
  <2>. QED
    BY <1>2, <2>3, Counts, TypeParts DEF HydrateFails, TypeOK, MemoryOK, ServerOK, DiskOK, CountOK
<1>3. CASE CancelTotp(d)
  <2>1. [store[d] EXCEPT !.status = "unauthenticated", !.challenge = None] \in StoreState
    BY DeviceFields, StatesMade DEF Status
  <2>2. store' \in [Device -> StoreState] /\ stash' \in [Device -> Password \cup {None}]
    BY <1>3, <2>1, Written DEF CancelTotp
  <2>3. MemoryOK' /\ ServerOK' /\ DiskOK'
    BY <1>3, <2>2 DEF CancelTotp, TypeOK, MemoryOK, ServerOK, DiskOK, server, disk
  <2>. QED
    BY <1>3, <2>3, Counts, TypeParts DEF CancelTotp, TypeOK, MemoryOK, ServerOK, DiskOK, CountOK
<1>4. ASSUME NEW s \in StoreState, NEW f \in Frame, Begin(d, s, f) PROVE TypeOK'
  <2>1. store' \in [Device -> StoreState] /\ calls' \in [Device -> SUBSET Frame]
    BY <1>4, CallsTyped, Written DEF Begin
  <2>2. MemoryOK' /\ ServerOK' /\ DiskOK'
    BY <1>4, <2>1 DEF Begin, TypeOK, MemoryOK, ServerOK, DiskOK, server, disk
  <2>. QED
    BY <1>4, <2>2, Counts, TypeParts DEF Begin, TypeOK, MemoryOK, ServerOK, DiskOK, CountOK
<1>5. CASE LoginTotp(d)
  <2>1. [NewFrame("totp", "totp") EXCEPT !.who = store[d].challenge] \in Frame
    BY <1>5, DeviceFields, FramesMade DEF LoginTotp
  <2>2. [store[d] EXCEPT !.status = "loading"] \in StoreState
    BY DeviceFields, StatesMade DEF Status
  <2>. QED
    BY <1>4, <1>5, <2>1, <2>2 DEF LoginTotp
<1>6. ASSUME NEW u \in Account, Register(d, u) PROVE TypeOK'
  <2>1. [NewFrame("register", "register") EXCEPT !.who = u, !.pw = 0] \in Frame
    BY FramesMade DEF Password
  <2>2. [store[d] EXCEPT !.status = "loading"] \in StoreState
    BY DeviceFields, StatesMade DEF Status
  <2>. QED
    BY <1>4, <1>6, <2>1, <2>2 DEF Register
<1>7. ASSUME NEW u \in Account, NEW pw \in {0, account[u].pw}, Login(d, u, pw) PROVE TypeOK'
  <2>1. pw \in Password
    BY AccountFields DEF Password
  <2>2. [NewFrame("login", "login") EXCEPT !.who = u, !.pw = pw] \in Frame
    BY <2>1, FramesMade
  <2>3. [store[d] EXCEPT !.status = "loading", !.challenge = None] \in StoreState
    BY DeviceFields, StatesMade DEF Status
  <2>. QED
    BY <1>4, <1>7, <2>2, <2>3 DEF Login
<1>. QED
  BY <1>1, <1>2, <1>3, <1>5, <1>6, <1>7

\* The answers that open a session.
LEMMA TypesOfSessions ==
  ASSUME TypeOK, NEW d \in Device, NEW f \in calls[d],
         LoginAnswered(d, f) \/ TotpAnswered(d, f) \/ Registered(d, f) \/ SignInFails(d, f)
  PROVE  TypeOK'
<1>1. /\ f \in Frame /\ f.who \in Account /\ f.pw \in Password \cup {None}
      /\ account[f.who] \in AccountState /\ [account[f.who] EXCEPT !.open = TRUE] \in AccountState
  <2>1. f \in Frame /\ f.at \in {"login", "totp", "register"}
    BY DeviceFields DEF LoginAnswered, TotpAnswered, Registered, SignInFails
  <2>2. f.who \in Account /\ f.pw \in Password \cup {None}
    BY <2>1, FrameFields
  <2>. QED
    BY <2>1, <2>2, AccountFields, RowsMade
<1>2. FoundKey(d, f.who) \in Account \cup {None} /\ stash[d] \in Password \cup {None}
  BY <1>1, DeviceFields
<1>3. CASE LoginAnswered(d, f)
  <2>1. CASE account[f.who].guarded
    <3>1. [store[d] EXCEPT !.status = "totp-required", !.challenge = f.who] \in StoreState
      BY <1>1, DeviceFields, StatesMade DEF Status
    <3>2. store' \in [Device -> StoreState] /\ stash' \in [Device -> Password \cup {None}]
          /\ calls' \in [Device -> SUBSET Frame]
      BY <1>1, <1>3, <2>1, <3>1, Written, CallsTyped DEF LoginAnswered
    <3>. QED
      BY <1>3, <2>1, <3>2 DEF LoginAnswered, TypeOK, server
  <2>2. CASE ~account[f.who].guarded
    <3>1. ServerOK' /\ DiskOK'
      BY <1>1, <1>3, <2>2, SessionTyped, ClaimTyped DEF LoginAnswered
    <3>2. MemoryOK'
      BY <1>1, <1>2, <1>3, <2>2, SignedInTyped DEF LoginAnswered, TypeOK, MemoryOK
    <3>3. CountOK'
      BY <1>3 DEF LoginAnswered, TypeOK, CountOK
    <3>. QED
      BY <3>1, <3>2, <3>3, TypeParts DEF TypeOK, MemoryOK, ServerOK, DiskOK, CountOK
  <2>. QED
    BY <2>1, <2>2
<1>4. CASE TotpAnswered(d, f)
  <2>1. ServerOK'
    BY <1>1, <1>4, SessionTyped DEF TotpAnswered
  <2>2. DiskOK'
    BY <1>1, <1>4, ClaimTyped DEF TotpAnswered, TypeOK, DiskOK
  <2>3. MemoryOK'
    BY <1>1, <1>2, <1>4, SignedInTyped DEF TotpAnswered, TypeOK, MemoryOK
  <2>4. CountOK'
    BY <1>4 DEF TotpAnswered, TypeOK, CountOK
  <2>. QED
    BY <2>1, <2>2, <2>3, <2>4 DEF TypeOK, MemoryOK, ServerOK, DiskOK, CountOK
<1>5. CASE Registered(d, f)
  <2>1. ServerOK'
    BY <1>1, <1>5, SessionTyped DEF Registered
  <2>2. DiskOK'
    <3>1. slot' \in [Device -> [Account -> Account \cup {None}]]
      BY <1>1, <1>5, Written DEF Registered
    <3>. QED
      BY <1>5, <3>1 DEF Registered, TypeOK, DiskOK, past
  <2>3. MemoryOK'
    BY <1>1, <1>5, SignedInTyped DEF Registered, TypeOK, MemoryOK
  <2>4. CountOK'
    BY <1>5 DEF Registered, TypeOK, CountOK, past
  <2>. QED
    BY <2>1, <2>2, <2>3, <2>4 DEF TypeOK, MemoryOK, ServerOK, DiskOK, CountOK
<1>6. CASE SignInFails(d, f)
  <2>1. ServerOK'
    BY <1>1, <1>6, SessionTyped DEF SignInFails, TypeOK, ServerOK, server
  <2>2. [store[d] EXCEPT !.status = IF f.op = "totp" THEN "totp-required" ELSE "unauthenticated"] \in StoreState
    BY DeviceFields, StatesMade DEF Status
  <2>3. store' \in [Device -> StoreState] /\ calls' \in [Device -> SUBSET Frame]
    BY <1>1, <1>6, <2>2, Written, CallsTyped DEF SignInFails
  <2>4. MemoryOK' /\ DiskOK'
    BY <1>6, <2>3 DEF SignInFails, TypeOK, MemoryOK, DiskOK, disk
  <2>5. CountOK'
    BY <1>6, Counts DEF SignInFails
  <2>. QED
    BY <2>1, <2>4, <2>5 DEF TypeOK, MemoryOK, ServerOK, DiskOK, CountOK
<1>. QED
  BY <1>3, <1>4, <1>5, <1>6

\* The synchronisation of the keys.
LEMMA TypesOfSync ==
  ASSUME TypeOK, NEW d \in Device, NEW f \in calls[d],
         EscrowAnswered(d, f) \/ KeyEscrowed(d, f) \/ SyncFails(d, f)
  PROVE  TypeOK'
<1>1. /\ f \in Frame /\ [f EXCEPT !.at = "save"] \in Frame
      /\ api[d] \in Session \cup {None} /\ active[d] \in Account \cup {None}
  BY DeviceFields, FramesGoOn
<1>2. ASSUME Synced(d, f)
      PROVE  calls' \in [Device -> SUBSET Frame] /\ stash' \in [Device -> Password \cup {None}]
  <2>1. stash \in [Device -> Password \cup {None}]
    BY DEF TypeOK
  <2>. QED
    BY <1>1, <1>2, <2>1, CallsTyped, Written DEF Synced
<1>3. CASE EscrowAnswered(d, f)
  <2>1. f.with.of \in Account /\ account[f.with.of].escrow \in Escrow \cup {None}
    BY <1>3, AccountFields DEF EscrowAnswered, TypeOK, Session
  <2>2. CASE f.key # None /\ account[f.with.of].escrow = None
    <3>1. [f EXCEPT !.at = "put", !.with = api[d]] \in Frame
      BY <1>1, <1>3, <2>2, FramesGoOn DEF EscrowAnswered
    <3>2. calls' \in [Device -> SUBSET Frame]
      BY <1>1, <1>3, <2>2, <3>1, CallsTyped DEF EscrowAnswered
    <3>. QED
      BY <1>3, <2>2, <3>2 DEF EscrowAnswered, TypeOK, server, past
  <2>3. CASE ~(f.key # None /\ account[f.with.of].escrow = None)
    <3>1. slot' \in [Device -> [Account -> Account \cup {None}]]
      <4>1. account[f.with.of].escrow # None => account[f.with.of].escrow.key \in Account
        BY <2>1 DEF Escrow
      <4>2. slot \in [Device -> [Account -> Account \cup {None}]]
        BY DEF TypeOK
      <4>. QED
        BY <1>1, <1>3, <2>3, <4>1, <4>2, Written DEF EscrowAnswered
    <3>2. calls' \in [Device -> SUBSET Frame] /\ stash' \in [Device -> Password \cup {None}]
      BY <1>2, <1>3, <2>3 DEF EscrowAnswered
    <3>. QED
      BY <1>3, <3>1, <3>2 DEF EscrowAnswered, TypeOK, server, past
  <2>. QED
    BY <2>2, <2>3
<1>4. CASE KeyEscrowed(d, f)
  <2>1. f.with.of \in Account /\ f.key \in Account /\ f.pw \in Password
    BY <1>1, <1>4, FrameFields DEF KeyEscrowed, TypeOK, Session
  <2>2. [account[f.with.of] EXCEPT !.escrow = [key |-> f.key, pw |-> f.pw]] \in AccountState
    BY <2>1, AccountFields, RowsMade DEF Escrow
  <2>3. account' \in [Account -> AccountState]
    BY <1>4, <2>1, <2>2 DEF KeyEscrowed, TypeOK
  <2>. QED
    BY <1>2, <1>4, <2>3 DEF KeyEscrowed, TypeOK, disk, past
<1>5. CASE SyncFails(d, f)
  <2>1. MemoryOK' /\ ServerOK' /\ DiskOK'
    BY <1>2, <1>5 DEF SyncFails, TypeOK, MemoryOK, ServerOK, DiskOK, server, disk
  <2>2. CountOK'
    BY <1>5, Counts DEF SyncFails
  <2>. QED
    BY <2>1, <2>2 DEF TypeOK, MemoryOK, ServerOK, DiskOK, CountOK
<1>. QED
  BY <1>3, <1>4, <1>5

\* Signing out.
LEMMA TypesOfLogout ==
  ASSUME TypeOK, NEW d \in Device,
         \/ Logout(d) \/ ClearKeys(d)
         \/ \E f \in calls[d] : PresenceCleared(d, f) \/ LogoutAnswered(d, f)
  PROVE  TypeOK'
<1>1. api[d] \in Session \cup {None} /\ api \in [Device -> Session \cup {None}]
  BY DEF TypeOK
<1>2. ASSUME LogoutBegins(d), slot' \in [Device -> [Account -> Account \cup {None}]] PROVE TypeOK'
  <2>1. LogoutFrame(d) \in Frame
    BY <1>1, FramesMade DEF LogoutFrame
  <2>2. calls' \in [Device -> SUBSET Frame] /\ api' \in [Device -> Session \cup {None}]
    BY <1>1, <1>2, <2>1, CallsTyped, Written DEF LogoutBegins
  <2>3. MemoryOK' /\ ServerOK' /\ DiskOK'
    BY <1>2, <2>2 DEF LogoutBegins, TypeOK, MemoryOK, ServerOK, DiskOK, server
  <2>4. CountOK'
    BY <1>2, Counts DEF LogoutBegins
  <2>. QED
    BY <2>3, <2>4 DEF TypeOK, MemoryOK, ServerOK, DiskOK, CountOK
<1>3. CASE Logout(d) \/ ClearKeys(d)
  <2>1. active[d] \in Account \cup {None}
    BY DeviceFields
  <2>2. slot' \in [Device -> [Account -> Account \cup {None}]]
    BY <1>3, <2>1, Written DEF Logout, ClearKeys, TypeOK
  <2>. QED
    BY <1>2, <1>3, <2>2 DEF Logout, ClearKeys
<1>4. ASSUME NEW f \in calls[d], PresenceCleared(d, f) PROVE TypeOK'
  <2>1. [f EXCEPT !.at = "logout", !.with = api[d]] \in Frame
    BY <1>1, DeviceFields, FramesGoOn
  <2>2. calls' \in [Device -> SUBSET Frame]
    BY <1>4, <2>1, CallsTyped DEF PresenceCleared
  <2>. QED
    BY <1>4, <2>2 DEF PresenceCleared, TypeOK, server, disk, past
<1>5. ASSUME NEW f \in calls[d], LogoutAnswered(d, f) PROVE TypeOK'
  <2>1. [f EXCEPT !.at = "clear", !.with = None] \in Frame
    BY DeviceFields, FramesGoOn
  <2>2. calls' \in [Device -> SUBSET Frame] /\ api' \in [Device -> Session \cup {None}]
    BY <1>5, <2>1, CallsTyped, Written DEF LogoutAnswered
  <2>3. MemoryOK' /\ ServerOK' /\ DiskOK'
    BY <1>5, <2>2 DEF LogoutAnswered, TypeOK, MemoryOK, ServerOK, DiskOK, disk
  <2>4. CountOK'
    BY <1>5, Counts DEF LogoutAnswered
  <2>. QED
    BY <2>3, <2>4 DEF TypeOK, MemoryOK, ServerOK, DiskOK, CountOK
<1>. QED
  BY <1>3, <1>4, <1>5

\* The requests for the user, and the handle.
LEMMA TypesOfRefresh ==
  ASSUME TypeOK, NEW d \in Device,
         \/ PollGate(d) \/ RefreshUser(d) \/ PickHandle(d)
         \/ \E f \in calls[d] : HandleSet(d, f) \/ UserRefreshed(d, f) \/ RefreshFails(d, f)
  PROVE  TypeOK'
<1>1. /\ api[d] \in Session \cup {None} /\ store[d].token \in Session \cup {None}
      /\ RefreshFrame(d) \in Frame
      /\ [NewFrame("handle", "handle") EXCEPT !.with = store[d].token] \in Frame
  BY DeviceFields, FramesMade DEF RefreshFrame
<1>2. ASSUME NEW f \in Frame, Ask(d, f), UNCHANGED moves \/ Move PROVE TypeOK'
  <2>1. calls' \in [Device -> SUBSET Frame]
    BY <1>2, CallsTyped DEF Ask
  <2>2. MemoryOK' /\ ServerOK' /\ DiskOK'
    BY <1>2, <2>1 DEF Ask, TypeOK, MemoryOK, ServerOK, DiskOK, server, disk
  <2>3. CountOK'
    BY <1>2, Counts DEF Ask
  <2>. QED
    BY <2>2, <2>3 DEF TypeOK, MemoryOK, ServerOK, DiskOK, CountOK
<1>3. CASE PollGate(d) \/ RefreshUser(d) \/ PickHandle(d)
  BY <1>1, <1>2, <1>3 DEF PollGate, RefreshUser, PickHandle
<1>4. ASSUME NEW f \in calls[d], HandleSet(d, f) PROVE TypeOK'
  <2>1. f.with.of \in Account
    BY <1>4 DEF HandleSet, TypeOK, Session
  <2>2. account' \in [Account -> AccountState]
    <3>1. [account[f.with.of] EXCEPT !.handle = TRUE] \in AccountState
      BY <2>1, AccountFields, RowsMade
    <3>. QED
      BY <1>4, <2>1, <3>1 DEF HandleSet, TypeOK
  <2>3. calls' \in [Device -> SUBSET Frame]
    <3>1. [f EXCEPT !.at = "me", !.with = api[d]] \in Frame
      BY <1>1, DeviceFields, FramesGoOn
    <3>. QED
      BY <1>4, <3>1, CallsTyped DEF HandleSet
  <2>. QED
    BY <1>4, <2>2, <2>3 DEF HandleSet, TypeOK, disk, past
<1>5. ASSUME NEW f \in calls[d], UserRefreshed(d, f) PROVE TypeOK'
  <2>1. f \in Frame /\ f.with.of \in Account
    BY <1>5, DeviceFields DEF UserRefreshed, TypeOK, Session
  <2>2. [store[d] EXCEPT !.user = UserOf(f.with.of)] \in StoreState
    <3>1. \A u \in User \cup {None} : [store[d] EXCEPT !.user = u] \in StoreState
      BY DeviceFields, StatesMade DEF Status
    <3>. QED
      BY <2>1, <3>1, AccountFields
  <2>3. store' \in [Device -> StoreState] /\ calls' \in [Device -> SUBSET Frame]
    BY <1>5, <2>1, <2>2, Written, CallsTyped DEF UserRefreshed
  <2>. QED
    BY <1>5, <2>3 DEF UserRefreshed, TypeOK, server, disk, past
<1>6. ASSUME NEW f \in calls[d], RefreshFails(d, f) PROVE TypeOK'
  <2>1. calls' \in [Device -> SUBSET Frame]
    BY <1>6, <1>1, CallsTyped DEF RefreshFails
  <2>2. MemoryOK' /\ ServerOK' /\ DiskOK'
    BY <1>6, <2>1 DEF RefreshFails, TypeOK, MemoryOK, ServerOK, DiskOK, server, disk
  <2>3. CountOK'
    BY <1>6, Counts DEF RefreshFails
  <2>. QED
    BY <2>2, <2>3 DEF TypeOK, MemoryOK, ServerOK, DiskOK, CountOK
<1>. QED
  BY <1>3, <1>4, <1>5, <1>6

\* The keys by hand, and what happens elsewhere.
LEMMA TypesElsewhere ==
  ASSUME TypeOK,
         \/ \E d \in Device : OpenDms(d) \/ \E k \in Account : StageKey(d, k) \/ RestoreKey(d, k)
         \/ \E u \in Account : ResetPassword(u) \/ VerifyEmail(u)
  PROVE  TypeOK'
<1>1. ASSUME NEW d \in Device, NEW k \in Account, StageKey(d, k) \/ RestoreKey(d, k) PROVE TypeOK'
  <2>1. active[d] \in Account \cup {None}
    BY DeviceFields
  <2>2. slot' \in [Device -> [Account -> Account \cup {None}]]
    BY <1>1, <2>1, Written DEF StageKey, RestoreKey, TypeOK
  <2>3. DiskOK'
    BY <1>1, <2>1, <2>2 DEF StageKey, RestoreKey, OnDisk, TypeOK, DiskOK
  <2>4. MemoryOK' /\ ServerOK'
    BY <1>1 DEF StageKey, RestoreKey, OnDisk, TypeOK, MemoryOK, ServerOK, memory, server
  <2>5. CountOK'
    BY <1>1, Counts DEF StageKey, RestoreKey, OnDisk
  <2>. QED
    BY <2>3, <2>4, <2>5 DEF TypeOK, MemoryOK, ServerOK, DiskOK, CountOK
<1>2. ASSUME NEW d \in Device, OpenDms(d) PROVE TypeOK'
  <2>1. active[d] \in Account
    BY <1>2, DeviceFields DEF OpenDms
  <2>2. DiskOK'
    BY <1>2, <2>1, ClaimTyped DEF OpenDms, OnDisk
  <2>. QED
    BY <1>2, <2>2 DEF OpenDms, OnDisk, TypeOK, DiskOK, memory, server
<1>3. ASSUME NEW u \in Account, ResetPassword(u) PROVE TypeOK'
  <2>1. [account[u] EXCEPT !.pw = @ + 1, !.escrow = None, !.verified = TRUE] \in AccountState
    BY AccountFields, RowsMade
  <2>2. account' \in [Account -> AccountState] /\ sessions' \subseteq Session
    BY <1>3, <2>1 DEF ResetPassword, TypeOK
  <2>3. MemoryOK' /\ ServerOK' /\ DiskOK'
    BY <1>3, <2>2 DEF ResetPassword, TypeOK, MemoryOK, ServerOK, DiskOK, memory, disk
  <2>4. CountOK'
    BY <1>3, Counts DEF ResetPassword
  <2>. QED
    BY <2>3, <2>4 DEF TypeOK, MemoryOK, ServerOK, DiskOK, CountOK
<1>4. ASSUME NEW u \in Account, VerifyEmail(u) PROVE TypeOK'
  <2>1. [account[u] EXCEPT !.verified = TRUE] \in AccountState
    BY AccountFields, RowsMade
  <2>2. account' \in [Account -> AccountState]
    BY <1>4, <2>1 DEF VerifyEmail, TypeOK
  <2>. QED
    BY <1>4, <2>2 DEF VerifyEmail, TypeOK, memory, disk, past
<1>. QED
  BY <1>1, <1>2, <1>3, <1>4

LEMMA TypesAtFirst == ASSUME SignInInit PROVE TypeOK
<1>1. does \in Profile /\ 0 \in 0 .. does.moves /\ 0 \in 0 .. does.faults
  BY DEF SignInInit, SignInAssumption, Profile
<1>2. account \in [Account -> AccountState]
  BY DEF SignInInit, AccountState, Escrow, Password
<1>3. /\ SignedOut \in StoreState
      /\ NoFile \in [enc : Session \cup {None}, plain : Session \cup {None}]
      /\ staged \in [Device -> Account \cup {None}]
  BY <1>1 DEF SignInInit, SignedOut, StoreState, Status, NoFile, Profile
<1>. QED
  BY <1>1, <1>2, <1>3 DEF SignInInit, TypeOK

LEMMA TypesStep == ASSUME TypeOK, [SignInNext]_signInVars PROVE TypeOK'
<1>1. CASE UNCHANGED signInVars
  BY <1>1 DEF signInVars, server, memory, disk, past, TypeOK
<1>2. ASSUME NEW d \in Device, AnswerSignIn(d) PROVE TypeOK'
  BY <1>2, TypesOfRuns, TypesOfForms, TypesOfSessions, TypesOfSync, TypesOfLogout DEF AnswerSignIn
<1>3. ASSUME NEW d \in Device, AnswerRefresh(d) \/ PollGate(d) PROVE TypeOK'
  BY <1>3, TypesOfRefresh DEF AnswerRefresh
<1>4. ASSUME NEW d \in Device, Act(d) PROVE TypeOK'
  BY <1>4, TypesOfRuns, TypesOfForms, TypesOfLogout, TypesOfRefresh, TypesElsewhere DEF Act
<1>. QED
  BY <1>1, <1>2, <1>3, <1>4, TypesElsewhere DEF SignInNext

\* What the store and its calls have in hand is what the code can handle: a form
\* names an account, and a pair goes to the escrow with a password.
THEOREM TypeCorrect == SignInSpec => []TypeOK
<1>1. SignInInit => TypeOK
  BY TypesAtFirst
<1>2. TypeOK /\ [SignInNext]_signInVars => TypeOK'
  BY TypesStep
<1>. QED
  BY <1>1, <1>2, PTL DEF SignInSpec

-----------------------------------------------------------------------------
(* The session of a device is whole.                                       *)

\* Nothing happens to a device, but that others may be given foreign pairs.
Same(e) ==
  /\ store'[e] = store[e] /\ api'[e] = api[e] /\ active'[e] = active[e] /\ stash'[e] = stash[e]
  /\ calls'[e] = calls[e] /\ file'[e] = file[e]
  /\ (e \in started') = (e \in started) /\ (e \in keyring') = (e \in keyring)
SameBut(d) == \A e \in Device \ {d} : Same(e)

LEMMA StaysSound ==
  ASSUME NEW e \in Device, Sound(e), Same(e), adopted \subseteq adopted'
  PROVE  Sound(e)'
<1>1. ReadToken(e)' = ReadToken(e) /\ Out(e)' = Out(e)
  BY DEF Same, ReadToken, Out
<1>2. \A f \in calls[e] : Signs(f) /\ Holds(e, f) => Holds(e, f)'
  BY <1>1 DEF Same, Holds, ReadHolds, MeHolds, ClearHolds, FormHolds, SessionHolds, KeyHolds
<1>3. CallsHold(e)'
  BY <1>2 DEF Sound, CallsHold, Asks, Same
<1>4. LoaderHolds(e)' /\ LoginHolds(e)' /\ TotpHolds(e)' /\ AppHolds(e)'
  BY <1>1 DEF Sound, LoaderHolds, LoginHolds, TotpHolds, AppHolds, Same
<1>. QED
  BY <1>3, <1>4 DEF Sound, Empty, Same

\* One who signs in has the device for himself, while the call goes on or returns.
LEMMA Alone ==
  ASSUME TypeOK, NEW d \in Device, Sound(d), NEW f \in calls[d], Signs(f)
  PROVE  /\ calls[d] = {f} /\ d \in started /\ Shape(f) /\ Holds(d, f)
         /\ \A g : Goto(d, f, g) => calls'[d] = {g}
         /\ Return(d, f) => calls'[d] = {}
<1>1. calls[d] = {f} /\ d \in started /\ Shape(f) /\ Holds(d, f)
  BY DEF Sound, CallsHold, Empty
<1>2. calls \in [Device -> SUBSET Frame]
  BY DEF TypeOK
<1>. QED
  BY <1>1, <1>2 DEF Goto, Return

\* What a call of the place that an action asks for is.
LEMMA Places ==
  ASSUME NEW d \in Device, Sound(d), NEW f \in calls[d]
  PROVE  /\ f.at \in {"read", "login", "totp", "register", "escrow", "put", "save"} => Signs(f)
         /\ f.at \in {"presence", "logout", "handle"} => ~Signs(f)
         /\ f.at \in {"presence", "logout"} => f.op = "logout"
         /\ f.at = "me" /\ f.op # "hydrate" => f.op \in {"refresh", "handle"}
         /\ f.at = "clear" => f.op \in {"hydrate", "logout"}
         /\ f.at = "handle" => f.op = "handle"
         /\ Shape(f)
BY DEF Sound, CallsHold, Shape, Signs

\* A step of a call that signs in leaves the other devices alone.
LEMMA OthersSame ==
  ASSUME TypeOK, NEW d \in Device,
         \/ Start(d) \/ Quit(d) \/ LoginTotp(d) \/ CancelTotp(d) \/ Logout(d) \/ ClearKeys(d)
         \/ RefreshUser(d) \/ PickHandle(d) \/ PollGate(d) \/ OpenDms(d)
         \/ \E u \in Account : Register(d, u) \/ StageKey(d, u) \/ RestoreKey(d, u)
                               \/ \E pw \in {0, account[u].pw} : Login(d, u, pw)
         \/ AnswerSignIn(d) \/ AnswerRefresh(d)
  PROVE  SameBut(d) /\ adopted \subseteq adopted'
<1>1. /\ store \in [Device -> StoreState] /\ api \in [Device -> Session \cup {None}]
      /\ active \in [Device -> Account \cup {None}] /\ stash \in [Device -> Password \cup {None}]
      /\ calls \in [Device -> SUBSET Frame]
      /\ file \in [Device -> [enc : Session \cup {None}, plain : Session \cup {None}]]
  BY DEF TypeOK
<1>2. CASE Start(d) \/ Quit(d) \/ CancelTotp(d)
  BY <1>1, <1>2 DEF Start, Quit, CancelTotp, SameBut, Same, Set, disk, past, server
<1>3. ASSUME NEW s, NEW f, Begin(d, s, f) PROVE SameBut(d) /\ adopted \subseteq adopted'
  BY <1>1, <1>3 DEF Begin, Set, SameBut, Same, disk
<1>4. CASE Logout(d) \/ ClearKeys(d)
  BY <1>1, <1>4 DEF Logout, ClearKeys, LogoutBegins, SameBut, Same
<1>5. CASE RefreshUser(d) \/ PickHandle(d) \/ PollGate(d)
  BY <1>1, <1>5 DEF RefreshUser, PickHandle, PollGate, Ask, SameBut, Same, disk
<1>6. CASE OpenDms(d) \/ \E u \in Account : StageKey(d, u) \/ RestoreKey(d, u)
  BY <1>6 DEF OpenDms, Claim, StageKey, RestoreKey, OnDisk, SameBut, Same, memory
<1>7. ASSUME NEW f \in calls[d],
             TokenRead(d, f) \/ Hydrated(d, f) \/ HydrateFails(d, f) \/ SignInFails(d, f) \/ TokenSaved(d, f)
             \/ PresenceCleared(d, f) \/ LogoutAnswered(d, f) \/ TokenCleared(d, f)
      PROVE  SameBut(d) /\ adopted \subseteq adopted'
  BY <1>1, <1>7 DEF TokenRead, Hydrated, HydrateFails, SignInFails, TokenSaved, PresenceCleared,
     LogoutAnswered, TokenCleared, Set, Goto, Return, SameBut, Same, disk, past
<1>8. ASSUME NEW f \in calls[d], LoginAnswered(d, f) \/ TotpAnswered(d, f) \/ Registered(d, f)
      PROVE  SameBut(d) /\ adopted \subseteq adopted'
  BY <1>1, <1>8 DEF LoginAnswered, TotpAnswered, Registered, SessionOpened, Claim, Set, Goto, Return,
     SameBut, Same, past
<1>9. ASSUME NEW f \in calls[d], EscrowAnswered(d, f) \/ KeyEscrowed(d, f) \/ SyncFails(d, f)
      PROVE  SameBut(d) /\ adopted \subseteq adopted'
  BY <1>1, <1>9 DEF EscrowAnswered, KeyEscrowed, SyncFails, Synced, Goto, SameBut, Same, disk, past
<1>10. ASSUME NEW f \in calls[d], HandleSet(d, f) \/ UserRefreshed(d, f) \/ RefreshFails(d, f)
      PROVE  SameBut(d) /\ adopted \subseteq adopted'
  BY <1>1, <1>10 DEF HandleSet, UserRefreshed, RefreshFails, Set, Goto, Return, SameBut, Same, disk, past
<1>. QED
  BY <1>2, <1>3, <1>4, <1>5, <1>6, <1>7, <1>8, <1>9, <1>10
     DEF LoginTotp, Register, Login, AnswerSignIn, AnswerRefresh

\* The client starts and stops, and reads the token it saved.
LEMMA RunsSound ==
  ASSUME TypeOK, NEW d \in Device, Sound(d),
         \/ Start(d) \/ Quit(d)
         \/ \E f \in calls[d] : TokenRead(d, f) \/ Hydrated(d, f) \/ HydrateFails(d, f)
  PROVE  Sound(d)'
<1>1. /\ store \in [Device -> StoreState] /\ api \in [Device -> Session \cup {None}]
      /\ active \in [Device -> Account \cup {None}] /\ stash \in [Device -> Password \cup {None}]
      /\ calls \in [Device -> SUBSET Frame] /\ sessions \subseteq Session /\ None \notin User
      /\ None \notin Session
      /\ store[d].token \in Session \cup {None}
  BY DeviceFields DEF TypeOK, SignInAssumption
<1>2. CASE Start(d)
  <2>1. /\ calls'[d] = {NewFrame("hydrate", "read")} /\ d \in started' /\ Empty(d)
        /\ store' = store /\ api' = api /\ active' = active /\ stash' = stash
    BY <1>1, <1>2 DEF Start, Sound
  <2>2. store[d].status = "unauthenticated" /\ Out(d)' /\ stash'[d] = None
    BY <2>1 DEF Empty, SignedOut, Out
  <2>. QED
    BY <2>1, <2>2 DEF Sound, CallsHold, Shape, Signs, Holds, ReadHolds, NewFrame,
       LoaderHolds, LoginHolds, TotpHolds, AppHolds
<1>3. CASE Quit(d)
  <2>1. calls'[d] = {} /\ d \notin started' /\ Empty(d)'
    BY <1>1, <1>3 DEF Quit, Empty
  <2>. QED
    BY <2>1 DEF Sound, CallsHold, Empty, SignedOut, Out, LoaderHolds, LoginHolds, TotpHolds, AppHolds
<1>4. ASSUME NEW f \in calls[d], TokenRead(d, f) PROVE Sound(d)'
  <2>1. Signs(f) /\ ReadHolds(d, f) /\ d \in started'
    BY <1>4, Alone DEF TokenRead, Signs, Holds
  <2>2. ReadToken(d)' = ReadToken(d) /\ ReadToken(d) \in Session \cup {None} /\ f \in Frame
    BY <1>4, DeviceFields DEF TokenRead, ReadToken, disk
  <2>3. CASE ReadToken(d) = None
    <3>1. calls'[d] = {} /\ store'[d].status = "unauthenticated" /\ Out(d)' /\ stash'[d] = None
      BY <1>1, <1>4, <2>1, <2>3, Alone DEF TokenRead, Set, ReadHolds, Out, StoreState
    <3>. QED
      BY <2>1, <2>2, <2>3, <3>1 DEF Sound, CallsHold, LoaderHolds, LoginHolds, TotpHolds, AppHolds
  <2>4. CASE ReadToken(d) # None
    <3>0. PICK g : g = [f EXCEPT !.at = "me", !.with = ReadToken(d)]
      OBVIOUS
    <3>1. calls'[d] = {g}
      BY <1>4, <2>1, <2>4, <3>0, Alone DEF TokenRead
    <3>2. g.op = "hydrate" /\ g.at = "me" /\ g.with = ReadToken(d)
      BY <1>4, <2>2, <3>0 DEF TokenRead, Frame, AnyFrame
    <3>3. /\ store'[d].status = "loading" /\ store'[d].token = ReadToken(d)
          /\ api'[d] = ReadToken(d) /\ active'[d] = None /\ stash'[d] = None
      <4>1. store'[d] = [store[d] EXCEPT !.status = "loading", !.token = ReadToken(d)]
            /\ store[d] \in StoreState
        BY <1>1, <1>4, <2>4 DEF TokenRead, Set
      <4>2. api'[d] = ReadToken(d) /\ active'[d] = None /\ stash'[d] = None
        BY <1>1, <1>4, <2>1, <2>4 DEF TokenRead, ReadHolds, Out
      <4>. QED
        BY <4>1, <4>2 DEF StoreState
    <3>4. MeHolds(d, g)'
      BY <2>2, <2>4, <3>2, <3>3 DEF MeHolds
    <3>. QED
      BY <2>1, <3>1, <3>2, <3>3, <3>4
         DEF Sound, CallsHold, Shape, Signs, Holds, LoaderHolds, LoginHolds, TotpHolds, AppHolds
  <2>. QED
    BY <2>3, <2>4
<1>5. ASSUME NEW f \in calls[d], Hydrated(d, f) PROVE Sound(d)'
  <2>1. Signs(f) /\ MeHolds(d, f) /\ d \in started' /\ calls'[d] = {}
    BY <1>5, Alone DEF Hydrated, Signs, Holds
  <2>2. ReadToken(d)' = ReadToken(d) /\ f.with \in Session /\ f.with.of \in Account
    BY <1>1, <1>5, DeviceFields DEF Hydrated, ReadToken, disk, Session
  <2>3. UserOf(f.with.of) # None /\ UserOf(f.with.of).id = f.with.of
    BY <1>1, <2>2, AccountFields
  <2>4. /\ store'[d].status = "authenticated" /\ store'[d].user = UserOf(f.with.of)
        /\ store'[d].token = f.with /\ api'[d] = f.with /\ active'[d] = f.with.of /\ stash'[d] = None
    BY <1>1, <1>5, <2>1 DEF Hydrated, Set, MeHolds, StoreState
  <2>. QED
    BY <2>1, <2>2, <2>3, <2>4 DEF MeHolds, Sound, CallsHold, LoaderHolds, LoginHolds, TotpHolds, AppHolds
<1>6. ASSUME NEW f \in calls[d], HydrateFails(d, f) PROVE Sound(d)'
  <2> DEFINE g == [f EXCEPT !.at = "clear"]
  <2>1. Signs(f) /\ MeHolds(d, f) /\ d \in started' /\ calls'[d] = {g}
    BY <1>6, Alone DEF HydrateFails, Signs, Holds
  <2>2. g.op = "hydrate" /\ g.at = "clear"
    BY <1>6, DeviceFields DEF HydrateFails, Frame, AnyFrame
  <2>3. ClearHolds(d, g)'
    BY <1>1, <1>6, <2>1 DEF HydrateFails, MeHolds, ClearHolds
  <2>. QED
    BY <2>1, <2>2, <2>3 DEF ClearHolds, Sound, CallsHold, Shape, Signs, Holds,
       LoaderHolds, LoginHolds, TotpHolds, AppHolds
<1>. QED
  BY <1>2, <1>3, <1>4, <1>5, <1>6

\* A form is sent: nothing else is under way, and nobody is signed in.
LEMMA FormsSound ==
  ASSUME TypeOK, NEW d \in Device, Sound(d), ~Does("cross"),
         \/ LoginTotp(d) \/ CancelTotp(d)
         \/ \E u \in Account : Register(d, u) \/ \E pw \in {0, account[u].pw} : Login(d, u, pw)
  PROVE  Sound(d)'
<1>1. /\ store \in [Device -> StoreState] /\ store[d] \in StoreState /\ calls \in [Device -> SUBSET Frame]
      /\ stash \in [Device -> Password \cup {None}] /\ None \notin Account \cup Password
  BY DeviceFields DEF TypeOK, SignInAssumption
<1>2. ASSUME NEW s, NEW f, Begin(d, s, f), d \in started,
             f.op \in {"login", "totp", "register"}, f.at = f.op, f.who # None,
             s.status = "loading", s.token = None, Out(d), ReadToken(d) = None,
             IF f.op = "totp" THEN stash[d] # None /\ s.challenge # None
             ELSE stash[d] = None /\ f.pw # None
      PROVE  Sound(d)'
  <2>1. /\ calls'[d] = {f} /\ store'[d] = s /\ api' = api /\ active' = active /\ stash' = stash
        /\ d \in started' /\ ReadToken(d)' = ReadToken(d)
    BY <1>1, <1>2 DEF Begin, Set, ReadToken, disk
  <2>2. FormHolds(d, f)'
    BY <1>2, <2>1 DEF FormHolds, Out
  <2>. QED
    BY <1>2, <2>1, <2>2 DEF Sound, CallsHold, Shape, Signs, Holds,
       LoaderHolds, LoginHolds, TotpHolds, AppHolds
<1>3. ASSUME NEW s, NEW f, Begin(d, s, f), d \in started, store[d].status = "unauthenticated"
      PROVE  Out(d) /\ ReadToken(d) = None /\ stash[d] = None
  BY <1>3 DEF Begin, Sound, LoginHolds
<1>4. CASE LoginTotp(d)
  <2>1. Out(d) /\ ReadToken(d) = None /\ stash[d] # None /\ store[d].challenge # None
    BY <1>4 DEF LoginTotp, Sound, TotpHolds
  <2>2. PICK f : f = [NewFrame("totp", "totp") EXCEPT !.who = store[d].challenge]
    OBVIOUS
  <2>3. f.op = "totp" /\ f.at = "totp" /\ f.who # None
    BY <2>1, <2>2 DEF NewFrame
  <2>4. PICK s : s = [store[d] EXCEPT !.status = "loading"]
    OBVIOUS
  <2>5. s.status = "loading" /\ s.token = None /\ s.challenge # None
    BY <1>1, <2>1, <2>4 DEF StoreState, Out
  <2>6. Begin(d, s, f) /\ d \in started
    BY <1>4, <2>2, <2>4 DEF LoginTotp
  <2>. QED
    BY <1>2, <2>1, <2>3, <2>5, <2>6
<1>5. ASSUME NEW u \in Account, Register(d, u) PROVE Sound(d)'
  <2>1. PICK f : f = [NewFrame("register", "register") EXCEPT !.who = u, !.pw = 0]
    OBVIOUS
  <2>2. f.op = "register" /\ f.at = "register" /\ f.who # None /\ f.pw # None
    BY <1>1, <2>1 DEF NewFrame, Password
  <2>3. PICK s : s = [store[d] EXCEPT !.status = "loading"]
    OBVIOUS
  <2>4. Begin(d, s, f) /\ d \in started /\ store[d].status = "unauthenticated"
    BY <1>5, <2>1, <2>3 DEF Register
  <2>5. Out(d) /\ ReadToken(d) = None /\ stash[d] = None
    BY <1>3, <2>4
  <2>6. s.status = "loading" /\ s.token = None
    BY <1>1, <2>3, <2>5 DEF StoreState, Out
  <2>. QED
    BY <1>2, <2>2, <2>4, <2>5, <2>6
<1>6. ASSUME NEW u \in Account, NEW pw \in {0, account[u].pw}, Login(d, u, pw) PROVE Sound(d)'
  <2>1. PICK f : f = [NewFrame("login", "login") EXCEPT !.who = u, !.pw = pw]
    OBVIOUS
  <2>2. f.op = "login" /\ f.at = "login" /\ f.who # None /\ f.pw # None
    <3>1. pw \in Password
      BY AccountFields DEF Password
    <3>. QED
      BY <1>1, <2>1, <3>1 DEF NewFrame
  <2>3. PICK s : s = [store[d] EXCEPT !.status = "loading", !.challenge = None]
    OBVIOUS
  <2>4. Begin(d, s, f) /\ d \in started /\ store[d].status = "unauthenticated"
    BY <1>6, <2>1, <2>3 DEF Login
  <2>5. Out(d) /\ ReadToken(d) = None /\ stash[d] = None
    BY <1>3, <2>4
  <2>6. s.status = "loading" /\ s.token = None
    BY <1>1, <2>3, <2>5 DEF StoreState, Out
  <2>. QED
    BY <1>2, <2>2, <2>4, <2>5, <2>6
<1>7. CASE CancelTotp(d)
  <2>1. Out(d) /\ ReadToken(d) = None /\ calls[d] = {} /\ d \in started
    BY <1>7 DEF CancelTotp, Sound, TotpHolds
  <2>2. /\ store'[d].status = "unauthenticated" /\ Out(d)' /\ stash'[d] = None /\ calls'[d] = {}
        /\ ReadToken(d)' = None /\ d \in started'
    <3>1. store'[d] = [store[d] EXCEPT !.status = "unauthenticated", !.challenge = None]
      BY <1>1, <1>7 DEF CancelTotp, Set
    <3>2. store'[d].status = "unauthenticated" /\ store'[d].token = None
      BY <1>1, <2>1, <3>1 DEF StoreState, Out
    <3>. QED
      BY <1>1, <1>7, <2>1, <3>2 DEF CancelTotp, Out, ReadToken, disk
  <2>. QED
    BY <2>2 DEF Sound, CallsHold, LoaderHolds, LoginHolds, TotpHolds, AppHolds
<1>. QED
  BY <1>4, <1>5, <1>6, <1>7

\* The form was answered: with a session, ...
LEMMA SignedInSound ==
  ASSUME TypeOK, NEW d \in Device, Sound(d), NEW f \in calls[d],
         f.at \in {"login", "totp", "register"},
         NEW pw \in Password, NEW local \in Account \cup {None}, SessionOpened(d, f, pw, local),
         UNCHANGED <<started, store, stash>>, adopted \subseteq adopted',
         local \in {None, f.who} \/ f.who \in adopted'
  PROVE  Sound(d)'
<1> DEFINE u == f.who
<1>1. /\ Signs(f) /\ f.op = f.at /\ FormHolds(d, f) /\ d \in started /\ f \in Frame /\ u \in Account
      /\ u # None /\ pw # None
  <2>1. Signs(f) /\ Shape(f)
    BY Places
  <2>2. FormHolds(d, f) /\ d \in started
    BY <2>1, Alone DEF Holds
  <2>3. f \in Frame /\ u \in Account
    BY DeviceFields, FrameFields
  <2>. QED
    BY <2>1, <2>2, <2>3 DEF Shape, SignInAssumption
<1>2. PICK t : t = NewSession(u)
  OBVIOUS
<1>3. PICK user : user = UserOf(u)
  OBVIOUS
<1>4. t \in Session /\ t # None /\ t.of = u /\ user \in User /\ user # None /\ user.id = u
  BY <1>1, <1>2, <1>3, AccountFields DEF SignInAssumption
<1>5. PICK g : g = [[f EXCEPT !.token = t, !.with = t, !.user = user, !.pw = pw]
                    EXCEPT !.at = "escrow", !.key = local]
  OBVIOUS
<1>6. /\ g.op = f.op /\ g.at = "escrow" /\ g.who = u /\ g.token = t /\ g.with = t /\ g.user = user
      /\ g.key = local
  BY <1>1, <1>5 DEF Frame, AnyFrame
<1>7. calls'[d] = {g} /\ api'[d] = t /\ active'[d] = u
  <2>1. Goto(d, f, g)
    BY <1>1, <1>2, <1>3, <1>5 DEF SessionOpened
  <2>2. calls'[d] = {g}
    BY <1>1, <2>1, Alone
  <2>. QED
    BY <1>2, <2>2 DEF SessionOpened, TypeOK
<1>8. SessionHolds(d, g)'
  BY <1>1, <1>4, <1>6, <1>7 DEF SessionHolds, FormHolds
<1>9. KeyHolds(d, g)'
  BY <1>1, <1>6 DEF KeyHolds
<1>10. store'[d].status = "loading" /\ d \in started'
  BY <1>1 DEF FormHolds
<1>. QED
  BY <1>1, <1>6, <1>7, <1>8, <1>9, <1>10 DEF Sound, CallsHold, Shape, Signs, Holds,
     LoaderHolds, LoginHolds, TotpHolds, AppHolds

\* What is found here for an account is its own, or it was given a foreign pair.
LEMMA FoundIsOwn ==
  ASSUME OwnKeyOnly, NEW d \in Device, NEW u \in Account, Claim(d, u)
  PROVE  (FoundKey(d, u) \in {None, u} \/ u \in adopted') /\ adopted \subseteq adopted'
BY DEF OwnKeyOnly, Claim, FoundKey

\* ... or without.
LEMMA AnswersSound ==
  ASSUME TypeOK, OwnKeyOnly, NEW d \in Device, Sound(d), NEW f \in calls[d],
         LoginAnswered(d, f) \/ TotpAnswered(d, f) \/ Registered(d, f) \/ SignInFails(d, f)
  PROVE  Sound(d)'
<1>1. f.at \in {"login", "totp", "register"}
  BY DEF LoginAnswered, TotpAnswered, Registered, SignInFails
<1>2. /\ f \in Frame /\ f.who \in Account /\ f.pw \in Password \cup {None} /\ Signs(f) /\ f.op = f.at
      /\ FormHolds(d, f) /\ d \in started
  <2>1. Signs(f) /\ Shape(f) /\ f \in Frame
    BY <1>1, Places, DeviceFields
  <2>. QED
    BY <1>1, <2>1, Alone, FrameFields DEF Holds, Shape
<1>3. /\ store \in [Device -> StoreState] /\ store[d] \in StoreState /\ None \notin Account \cup Password
      /\ stash \in [Device -> Password \cup {None}]
      /\ FoundKey(d, f.who) \in Account \cup {None}
  BY <1>2, DeviceFields DEF TypeOK, SignInAssumption
<1>4. CASE LoginAnswered(d, f)
  <2>1. CASE account[f.who].guarded
    <3>1. store'[d] = [store[d] EXCEPT !.status = "totp-required", !.challenge = f.who]
      BY <1>3, <1>4, <2>1 DEF LoginAnswered, Set
    <3>2. /\ store'[d].status = "totp-required" /\ store'[d].challenge # None /\ store'[d].token = None
      BY <1>2, <1>3, <3>1 DEF FormHolds, Out, StoreState
    <3>3. calls'[d] = {} /\ stash'[d] = f.pw /\ f.pw # None
      BY <1>2, <1>3, <1>4, <2>1, Alone DEF LoginAnswered, FormHolds
    <3>4. Out(d)' /\ ReadToken(d)' = None /\ d \in started'
      BY <1>2, <1>4, <2>1, <3>2 DEF LoginAnswered, FormHolds, Out, ReadToken
    <3>. QED
      BY <3>2, <3>3, <3>4 DEF Sound, CallsHold, LoaderHolds, LoginHolds, TotpHolds, AppHolds
  <2>2. CASE ~account[f.who].guarded
    <3>1. f.pw \in Password
      BY <1>2, <1>4 DEF LoginAnswered, FormHolds
    <3>2. SessionOpened(d, f, f.pw, FoundKey(d, f.who)) /\ Claim(d, f.who) /\ UNCHANGED <<started, store, stash>>
      BY <1>4, <2>2 DEF LoginAnswered
    <3>. QED
      BY <1>1, <1>2, <1>3, <3>1, <3>2, FoundIsOwn, SignedInSound
  <2>. QED
    BY <2>1, <2>2
<1>5. CASE TotpAnswered(d, f)
  <2>1. stash[d] \in Password
    BY <1>2, <1>3, <1>5 DEF TotpAnswered, FormHolds
  <2>2. /\ SessionOpened(d, f, stash[d], FoundKey(d, f.who)) /\ Claim(d, f.who)
        /\ UNCHANGED <<started, store, stash>>
    BY <1>3, <1>5, <2>1 DEF TotpAnswered
  <2>. QED
    BY <1>1, <1>2, <1>3, <2>1, <2>2, FoundIsOwn, SignedInSound
<1>6. CASE Registered(d, f)
  <2>1. f.pw \in Password
    BY <1>2, <1>6 DEF Registered, FormHolds
  <2>2. SessionOpened(d, f, f.pw, f.who) /\ UNCHANGED <<started, store, stash, adopted>>
    BY <1>6 DEF Registered, past
  <2>. QED
    BY <1>1, <1>2, <2>1, <2>2, SignedInSound
<1>7. CASE SignInFails(d, f)
  <2>1. store'[d] = [store[d] EXCEPT !.status = IF f.op = "totp" THEN "totp-required" ELSE "unauthenticated"]
    BY <1>3, <1>7 DEF SignInFails, Set
  <2>2. /\ store'[d].status = IF f.op = "totp" THEN "totp-required" ELSE "unauthenticated"
        /\ store'[d].token = None /\ store'[d].challenge = store[d].challenge
    BY <1>2, <1>3, <2>1 DEF FormHolds, Out, StoreState
  <2>3. calls'[d] = {} /\ Out(d)' /\ ReadToken(d)' = None /\ d \in started' /\ stash'[d] = stash[d]
    BY <1>2, <1>7, <2>2, Alone DEF SignInFails, FormHolds, Out, ReadToken, disk
  <2>. QED
    BY <1>2, <2>2, <2>3 DEF FormHolds, Sound, CallsHold, LoaderHolds, LoginHolds, TotpHolds, AppHolds
<1>. QED
  BY <1>4, <1>5, <1>6, <1>7

\* The keys are synchronised, and the token is saved.
LEMMA SyncSound ==
  ASSUME TypeOK, NEW d \in Device, Sound(d), NEW f \in calls[d],
         EscrowAnswered(d, f) \/ KeyEscrowed(d, f) \/ SyncFails(d, f) \/ TokenSaved(d, f)
  PROVE  Sound(d)'
<1>1. /\ f.at \in {"escrow", "put", "save"} /\ f \in Frame /\ Signs(f)
      /\ f.op \in {"login", "totp", "register"} /\ d \in started
      /\ SessionHolds(d, f) /\ (f.at # "save" => KeyHolds(d, f))
  <2>1. f.at \in {"escrow", "put", "save"}
    BY DEF EscrowAnswered, KeyEscrowed, SyncFails, TokenSaved
  <2>2. Signs(f) /\ Shape(f) /\ f \in Frame
    BY <2>1, Places, DeviceFields
  <2>. QED
    BY <2>1, <2>2, Alone DEF Holds, Shape
<1>2. /\ stash \in [Device -> Password \cup {None}] /\ store \in [Device -> StoreState]
      /\ store[d] \in StoreState
      /\ file \in [Device -> [enc : Session \cup {None}, plain : Session \cup {None}]]
  BY DeviceFields DEF TypeOK
<1>3. ASSUME Synced(d, f), f.at \in {"escrow", "put"},
             UNCHANGED <<started, store, api, active, adopted>>
      PROVE  Sound(d)'
  <2>1. PICK g : g = [f EXCEPT !.at = "save"]
    OBVIOUS
  <2>2. /\ g.op = f.op /\ g.at = "save" /\ g.who = f.who /\ g.token = f.token /\ g.user = f.user
    BY <1>1, <2>1 DEF Frame, AnyFrame
  <2>3. calls'[d] = {g}
    BY <1>1, <1>3, <2>1, Alone DEF Synced
  <2>4. stash'[d] = None
    BY <1>1, <1>2, <1>3 DEF Synced, SessionHolds
  <2>5. SessionHolds(d, g)'
    BY <1>1, <1>3, <2>2, <2>4 DEF SessionHolds
  <2>6. store'[d].status = "loading" /\ d \in started'
    BY <1>1, <1>3 DEF SessionHolds
  <2>. QED
    BY <1>1, <2>2, <2>3, <2>5, <2>6 DEF Sound, CallsHold, Shape, Signs, Holds,
       LoaderHolds, LoginHolds, TotpHolds, AppHolds
<1>4. CASE EscrowAnswered(d, f)
  <2>1. f.at = "escrow" /\ UNCHANGED <<started, store, api, active, adopted>>
    BY <1>4 DEF EscrowAnswered, past
  <2>2. CASE Synced(d, f)
    BY <1>3, <2>1, <2>2
  <2>3. CASE ~Synced(d, f)
    <3>1. PICK g : g = [f EXCEPT !.at = "put", !.with = api[d]]
      OBVIOUS
    <3>2. Goto(d, f, g) /\ stash' = stash /\ f.key # None
      BY <1>4, <2>3, <3>1 DEF EscrowAnswered
    <3>3. /\ g.op = f.op /\ g.at = "put" /\ g.who = f.who /\ g.token = f.token /\ g.user = f.user
          /\ g.key = f.key /\ g.with = api[d]
      BY <1>1, <3>1 DEF Frame, AnyFrame
    <3>4. calls'[d] = {g}
      BY <1>1, <3>2, Alone
    <3>5. SessionHolds(d, g)'
      BY <1>1, <2>1, <3>2, <3>3 DEF SessionHolds
    <3>6. KeyHolds(d, g)'
      BY <1>1, <2>1, <3>2, <3>3 DEF SessionHolds, KeyHolds
    <3>7. store'[d].status = "loading" /\ d \in started'
      BY <1>1, <2>1 DEF SessionHolds
    <3>. QED
      BY <1>1, <3>3, <3>4, <3>5, <3>6, <3>7 DEF Sound, CallsHold, Shape, Signs, Holds,
         LoaderHolds, LoginHolds, TotpHolds, AppHolds
  <2>. QED
    BY <2>2, <2>3
<1>5. CASE KeyEscrowed(d, f) \/ SyncFails(d, f)
  BY <1>3, <1>5 DEF KeyEscrowed, SyncFails, past
<1>6. CASE TokenSaved(d, f)
  <2>1. calls'[d] = {}
    BY <1>1, <1>6, Alone DEF TokenSaved
  <2>2. PICK c : store'[d] = [store[d] EXCEPT !.status = "authenticated", !.token = f.token,
                                              !.user = f.user, !.challenge = c]
    BY <1>2, <1>6 DEF TokenSaved, Set
  <2>3. store'[d].status = "authenticated" /\ store'[d].token = f.token /\ store'[d].user = f.user
    BY <1>2, <2>2 DEF StoreState
  <2>4. ReadToken(d)' = f.token
    BY <1>1, <1>2, <1>6 DEF TokenSaved, SavedToken, ReadToken, SessionHolds
  <2>5. api'[d] = f.token /\ active'[d] = f.who /\ stash'[d] = None /\ d \in started'
    BY <1>1, <1>6 DEF TokenSaved, SessionHolds
  <2>. QED
    BY <1>1, <2>1, <2>3, <2>4, <2>5
       DEF SessionHolds, Sound, CallsHold, LoaderHolds, LoginHolds, TotpHolds, AppHolds
<1>. QED
  BY <1>4, <1>5, <1>6

\* While another call is under way nobody signs in.
LEMMA Aside ==
  ASSUME TypeOK, NEW d \in Device, Sound(d), NEW f \in calls[d], ~Signs(f)
  PROVE  /\ \A g \in calls[d] : ~Signs(g) /\ Shape(g) /\ Asks(d, g)
         /\ d \in started /\ store[d].status \in {"unauthenticated", "authenticated"}
         /\ \A g : Goto(d, f, g) => calls'[d] = (calls[d] \ {f}) \cup {g}
         /\ Return(d, f) => calls'[d] = calls[d] \ {f}
<1>1. \A g \in calls[d] : ~Signs(g) /\ Shape(g) /\ Asks(d, g)
  BY DEF Sound, CallsHold
<1>2. store[d].status \in Status /\ calls \in [Device -> SUBSET Frame]
  BY DeviceFields DEF TypeOK
<1>3. d \in started /\ store[d].status \in {"unauthenticated", "authenticated"}
  BY <1>1, <1>2 DEF Sound, Empty, LoaderHolds, TotpHolds, Status
<1>. QED
  BY <1>1, <1>2, <1>3 DEF Goto, Return

\* What the requests of one who is signed in carry.
LEMMA Carried ==
  ASSUME NEW d \in Device, Sound(d), store[d].status = "authenticated"
  PROVE  api[d] \in {None, store[d].token} /\ d \in started
BY DEF Sound, CallsHold, Asks, AppHolds, Empty, SignedOut

\* Another call begins, goes on or returns: what changes beside it is the user in
\* the store, or that the requests carry no token any more.
LEMMA AsideSound ==
  ASSUME NEW d \in Device, Sound(d), d \in started, d \in started',
         store[d].status \in {"unauthenticated", "authenticated"},
         \A g \in calls[d] : ~Signs(g),
         \A g \in calls'[d] \ calls[d] : /\ ~Signs(g) /\ Shape(g)
                                         /\ g.op # "logout" =>
                                              (store[d].status = "authenticated" =>
                                                 g.with \in {None, store[d].token})
                                         /\ g.op = "logout" /\ g.at = "clear" => api'[d] = None,
         \A g \in calls[d] \ calls'[d] : ~(g.op = "logout" /\ g.at = "clear"),
         \/ api'[d] = api[d]
         \/ api'[d] = None /\ \E g \in calls'[d] : g.op = "logout" /\ g.at = "clear",
         active'[d] = active[d], stash'[d] = stash[d], ReadToken(d)' = ReadToken(d),
         store'[d].status = store[d].status, store'[d].token = store[d].token,
         store'[d].user = store[d].user
         \/ (store[d].status = "authenticated" =>
               store'[d].user # None /\ store'[d].user.id = store[d].token.of)
  PROVE  Sound(d)'
<1>1. CallsHold(d)'
  <2>. SUFFICES ASSUME NEW g \in calls'[d]
                PROVE  ~Signs(g) /\ Shape(g) /\ Asks(d, g)'
    BY DEF CallsHold
  <2>1. CASE g \in calls[d]
    <3>1. Shape(g) /\ Asks(d, g) /\ ~Signs(g)
      BY <2>1 DEF Sound, CallsHold
    <3>. QED
      BY <3>1 DEF Asks
  <2>2. CASE g \notin calls[d]
    BY <2>2 DEF Asks
  <2>. QED
    BY <2>1, <2>2
<1>2. LoaderHolds(d)' /\ TotpHolds(d)'
  BY DEF LoaderHolds, TotpHolds
<1>3. LoginHolds(d)'
  BY DEF Sound, LoginHolds, Out
<1>4. AppHolds(d)'
  <2>. SUFFICES ASSUME store[d].status = "authenticated"
                PROVE  AppHolds(d)'
    BY DEF AppHolds
  <2>1. AppHolds(d)
    BY DEF Sound
  <2>2. \A g \in calls'[d] : ~Signs(g)
    OBVIOUS
  <2>3. store'[d].user # None /\ store'[d].user.id = store[d].token.of
    BY <2>1 DEF AppHolds
  <2>4. api'[d] = store[d].token \/ \E g \in calls'[d] : g.op = "logout" /\ g.at = "clear"
    BY <2>1 DEF AppHolds
  <2>. QED
    BY <2>1, <2>2, <2>3, <2>4 DEF AppHolds
<1>. QED
  BY <1>1, <1>2, <1>3, <1>4 DEF Sound

\* Signing out.
LEMMA LogoutSound ==
  ASSUME TypeOK, NEW d \in Device, Sound(d),
         \/ Logout(d) \/ ClearKeys(d)
         \/ \E f \in calls[d] : PresenceCleared(d, f) \/ LogoutAnswered(d, f) \/ TokenCleared(d, f)
  PROVE  Sound(d)'
<1>1. /\ calls \in [Device -> SUBSET Frame] /\ api \in [Device -> Session \cup {None}]
      /\ store \in [Device -> StoreState] /\ store[d] \in StoreState
      /\ active \in [Device -> Account \cup {None}]
      /\ file \in [Device -> [enc : Session \cup {None}, plain : Session \cup {None}]]
  BY DeviceFields DEF TypeOK
<1>2. CASE Logout(d) \/ ClearKeys(d)
  <2>1. store[d].status = "authenticated" /\ LogoutBegins(d)
    BY <1>2 DEF Logout, ClearKeys, Shown
  <2>2. store[d].token # None /\ \A g \in calls[d] : ~Signs(g)
    BY <2>1 DEF Sound, AppHolds
  <2>3. PICK f : f = [NewFrame("logout", "presence") EXCEPT !.with = api[d]]
    OBVIOUS
  <2>4. ~Signs(f) /\ Shape(f) /\ f.op = "logout" /\ f.at = "presence"
    BY <2>3 DEF NewFrame, Signs, Shape
  <2>5. calls'[d] = calls[d] \cup {f}
    BY <1>1, <2>1, <2>2, <2>3 DEF LogoutBegins, LogoutFrame
  <2>6. api' = api /\ active' = active /\ stash' = stash /\ store' = store /\ started' = started
        /\ ReadToken(d)' = ReadToken(d)
    BY <2>1, <2>2 DEF LogoutBegins, ReadToken
  <2>. QED
    BY <2>1, <2>2, <2>4, <2>5, <2>6, Carried, AsideSound
<1>3. ASSUME NEW f \in calls[d], PresenceCleared(d, f) PROVE Sound(d)'
  <2>1. ~Signs(f) /\ f.op = "logout" /\ f.at = "presence" /\ f \in Frame
    BY <1>3, Places, DeviceFields DEF PresenceCleared
  <2>2. PICK g : g = [f EXCEPT !.at = "logout", !.with = api[d]]
    OBVIOUS
  <2>3. ~Signs(g) /\ Shape(g) /\ g.op = "logout" /\ g.at = "logout"
    BY <2>1, <2>2 DEF Frame, AnyFrame, Signs, Shape
  <2>4. calls'[d] = (calls[d] \ {f}) \cup {g}
    <3>1. Goto(d, f, g)
      BY <1>3, <2>2 DEF PresenceCleared
    <3>. QED
      BY <2>1, <3>1, Aside
  <2>5. api' = api /\ active' = active /\ stash' = stash /\ store' = store /\ started' = started
        /\ ReadToken(d)' = ReadToken(d)
    BY <1>3 DEF PresenceCleared, ReadToken, disk
  <2>. QED
    BY <2>1, <2>3, <2>4, <2>5, Aside, AsideSound
<1>4. ASSUME NEW f \in calls[d], LogoutAnswered(d, f) PROVE Sound(d)'
  <2>1. ~Signs(f) /\ f.op = "logout" /\ f.at = "logout" /\ f \in Frame
    BY <1>4, Places, DeviceFields DEF LogoutAnswered
  <2>2. PICK g : g = [f EXCEPT !.at = "clear", !.with = None]
    OBVIOUS
  <2>3. ~Signs(g) /\ Shape(g) /\ g.op = "logout" /\ g.at = "clear"
    BY <2>1, <2>2 DEF Frame, AnyFrame, Signs, Shape
  <2>4. calls'[d] = (calls[d] \ {f}) \cup {g}
    <3>1. Goto(d, f, g)
      BY <1>4, <2>2 DEF LogoutAnswered
    <3>. QED
      BY <2>1, <3>1, Aside
  <2>5. /\ api'[d] = None /\ active' = active /\ stash' = stash /\ store' = store
        /\ started' = started /\ ReadToken(d)' = ReadToken(d)
    BY <1>1, <1>4 DEF LogoutAnswered, ReadToken, disk
  <2>. QED
    BY <2>1, <2>3, <2>4, <2>5, Aside, AsideSound
<1>5. ASSUME NEW f \in calls[d], TokenCleared(d, f) PROVE Sound(d)'
  <2>1. ReadToken(d)' = None
    BY <1>1, <1>5 DEF TokenCleared, ReadToken, NoFile
  <2>2. CASE f.op = "logout"
    <3>1. ~Signs(f) /\ f.at = "clear"
      BY <1>5, <2>2 DEF TokenCleared, Signs
    <3>2. /\ calls'[d] = calls[d] \ {f} /\ d \in started' /\ api'[d] = None
          /\ \A g \in calls[d] : ~Signs(g) /\ Shape(g)
      BY <1>5, <2>2, <3>1, Aside DEF TokenCleared, Asks
    <3>3. stash'[d] = None
      <4>1. store[d].status \in {"unauthenticated", "authenticated"}
        BY <3>1, Aside
      <4>. QED
        BY <1>5, <4>1 DEF TokenCleared, Sound, LoginHolds, AppHolds
    <3>4. store'[d] = SignedOut /\ active'[d] = None
      BY <1>1, <1>5, <2>2 DEF TokenCleared, Set
    <3>5. \A g \in calls'[d] : Asks(d, g)'
      BY <3>2, <3>4 DEF Asks, SignedOut
    <3>. QED
      BY <2>1, <3>2, <3>3, <3>4, <3>5 DEF SignedOut, Out, Sound, CallsHold, LoaderHolds, LoginHolds,
         TotpHolds, AppHolds
  <2>3. CASE f.op # "logout"
    <3>1. f.op = "hydrate" /\ Signs(f)
      BY <1>5, <2>3, Places DEF TokenCleared, Signs
    <3>2. calls'[d] = {} /\ ClearHolds(d, f) /\ d \in started'
      BY <1>5, <3>1, Alone DEF TokenCleared, Holds
    <3>3. store'[d] = [store[d] EXCEPT !.status = "unauthenticated", !.token = None, !.user = None]
      BY <1>1, <1>5, <3>1 DEF TokenCleared, Set
    <3>4. store'[d].status = "unauthenticated" /\ Out(d)' /\ stash'[d] = None
      <4>1. store'[d].status = "unauthenticated" /\ store'[d].token = None
        BY <1>1, <3>3 DEF StoreState
      <4>. QED
        BY <1>5, <2>3, <3>2, <4>1 DEF TokenCleared, ClearHolds, Out
    <3>. QED
      BY <2>1, <3>2, <3>4 DEF Sound, CallsHold, LoaderHolds, LoginHolds, TotpHolds, AppHolds
  <2>. QED
    BY <2>2, <2>3
<1>. QED
  BY <1>2, <1>3, <1>4, <1>5

\* The user is asked for again.
LEMMA RefreshSound ==
  ASSUME TypeOK, NEW d \in Device, Sound(d),
         \/ PollGate(d) \/ RefreshUser(d) \/ PickHandle(d)
         \/ \E f \in calls[d] : HandleSet(d, f) \/ UserRefreshed(d, f) \/ RefreshFails(d, f)
  PROVE  Sound(d)'
<1>1. /\ calls \in [Device -> SUBSET Frame] /\ store \in [Device -> StoreState]
      /\ store[d] \in StoreState /\ sessions \subseteq Session /\ None \notin Session \cup User
  BY DeviceFields DEF TypeOK, SignInAssumption
<1>2. ASSUME NEW f, Ask(d, f), store[d].status = "authenticated", f.op \in {"refresh", "handle"},
             Shape(f), f.with \in {None, store[d].token}
      PROVE  Sound(d)'
  <2>1. ~Signs(f) /\ \A g \in calls[d] : ~Signs(g)
    BY <1>2 DEF Signs, Sound, AppHolds
  <2>2. /\ calls'[d] = calls[d] \cup {f} /\ api' = api /\ active' = active /\ stash' = stash
        /\ store' = store /\ started' = started /\ ReadToken(d)' = ReadToken(d)
    BY <1>1, <1>2 DEF Ask, ReadToken, disk
  <2>. QED
    BY <1>2, <2>1, <2>2, Carried, AsideSound
<1>3. CASE PollGate(d) \/ RefreshUser(d)
  <2>1. store[d].status = "authenticated"
    BY <1>3 DEF PollGate, RefreshUser, Shown
  <2>2. PICK f : f = RefreshFrame(d)
    OBVIOUS
  <2>3. f.op = "refresh" /\ Shape(f) /\ f.with \in {None, store[d].token}
    BY <2>1, <2>2, Carried DEF RefreshFrame, NewFrame, Shape
  <2>4. Ask(d, f)
    BY <1>3, <2>2 DEF PollGate, RefreshUser
  <2>. QED
    BY <1>2, <2>1, <2>3, <2>4
<1>4. CASE PickHandle(d)
  <2>1. store[d].status = "authenticated"
    BY <1>4 DEF PickHandle, Shown
  <2>2. PICK f : f = [NewFrame("handle", "handle") EXCEPT !.with = store[d].token]
    OBVIOUS
  <2>3. f.op = "handle" /\ Shape(f) /\ f.with \in {None, store[d].token}
    BY <2>2 DEF NewFrame, Shape
  <2>4. Ask(d, f)
    BY <1>4, <2>2 DEF PickHandle
  <2>. QED
    BY <1>2, <2>1, <2>3, <2>4
<1>5. ASSUME NEW f \in calls[d], HandleSet(d, f) \/ UserRefreshed(d, f) \/ RefreshFails(d, f)
      PROVE  /\ f.op \in {"refresh", "handle"} /\ ~Signs(f) /\ f \in Frame /\ d \in started
             /\ store[d].status \in {"unauthenticated", "authenticated"} /\ Asks(d, f)
             /\ \A g \in calls[d] : ~Signs(g)
  <2>1. f.op \in {"refresh", "handle"}
    BY <1>5, Places DEF HandleSet, UserRefreshed, RefreshFails
  <2>2. ~Signs(f) /\ f \in Frame
    BY <2>1, DeviceFields DEF Signs
  <2>. QED
    BY <2>1, <2>2, Aside
<1>6. ASSUME NEW f \in calls[d], HandleSet(d, f) PROVE Sound(d)'
  <2>1. PICK g : g = [f EXCEPT !.at = "me", !.with = api[d]]
    OBVIOUS
  <2>2. f.at = "handle" /\ f.op = "handle"
    BY <1>6, Places DEF HandleSet
  <2>3. g.op = "handle" /\ Shape(g) /\ ~Signs(g) /\ g.with = api[d]
    BY <1>5, <1>6, <2>1, <2>2 DEF Frame, AnyFrame, Signs, Shape
  <2>4. calls'[d] = (calls[d] \ {f}) \cup {g}
    <3>1. Goto(d, f, g)
      BY <1>6, <2>1 DEF HandleSet
    <3>. QED
      BY <1>5, <1>6, <3>1, Aside
  <2>5. api' = api /\ active' = active /\ stash' = stash /\ store' = store /\ started' = started
        /\ ReadToken(d)' = ReadToken(d)
    BY <1>6 DEF HandleSet, ReadToken, disk
  <2>. QED
    BY <1>5, <1>6, <2>2, <2>3, <2>4, <2>5, Carried, AsideSound
<1>7. ASSUME NEW f \in calls[d], UserRefreshed(d, f) PROVE Sound(d)'
  <2>1. calls'[d] = calls[d] \ {f}
    BY <1>5, <1>7, Aside DEF UserRefreshed
  <2>2. /\ api' = api /\ active' = active /\ stash' = stash /\ started' = started
        /\ ReadToken(d)' = ReadToken(d)
    BY <1>7 DEF UserRefreshed, ReadToken, disk
  <2>3. f.with \in Session /\ f.with.of \in Account /\ f.with # None
    BY <1>1, <1>7 DEF UserRefreshed, Session
  <2>4. UserOf(f.with.of) # None /\ UserOf(f.with.of).id = f.with.of
    BY <1>1, <2>3, AccountFields
  <2>5. store'[d] = [store[d] EXCEPT !.user = UserOf(f.with.of)]
    BY <1>1, <1>7 DEF UserRefreshed, Set
  <2>6. /\ store'[d].status = store[d].status /\ store'[d].token = store[d].token
        /\ store'[d].user = UserOf(f.with.of)
    BY <1>1, <2>5 DEF StoreState
  <2>7. store[d].status = "authenticated" => f.with = store[d].token
    BY <1>5, <1>7, <2>3 DEF Asks
  <2>. QED
    BY <1>5, <1>7, <2>1, <2>2, <2>4, <2>6, <2>7, AsideSound
<1>8. ASSUME NEW f \in calls[d], RefreshFails(d, f) PROVE Sound(d)'
  <2>1. calls'[d] = calls[d] \ {f}
    BY <1>5, <1>8, Aside DEF RefreshFails
  <2>2. api' = api /\ active' = active /\ stash' = stash /\ store' = store /\ started' = started
        /\ ReadToken(d)' = ReadToken(d)
    BY <1>8 DEF RefreshFails, ReadToken, disk
  <2>. QED
    BY <1>5, <1>8, <2>1, <2>2, AsideSound
<1>. QED
  BY <1>3, <1>4, <1>6, <1>7, <1>8

LEMMA WholeAtFirst == ASSUME SignInInit PROVE Whole /\ OwnKeyOnly
<1>1. ASSUME NEW d \in Device PROVE Sound(d)
  BY DEF SignInInit, SignedOut, Sound, Empty, Out, CallsHold, LoaderHolds, LoginHolds, TotpHolds, AppHolds
<1>2. OwnKeyOnly
  BY DEF SignInInit, OwnKeyOnly
<1>. QED
  BY <1>1, <1>2 DEF Whole

LEMMA WholeStep ==
  ASSUME TypeOK, OwnKeyOnly, Whole, ~Does("cross"), [SignInNext]_signInVars
  PROVE  Whole'
<1>1. ASSUME NEW d \in Device, SameBut(d), adopted \subseteq adopted', Sound(d)' PROVE Whole'
  BY <1>1, StaysSound DEF Whole, SameBut
<1>2. ASSUME \A d \in Device : Same(d), adopted \subseteq adopted' PROVE Whole'
  BY <1>2, StaysSound DEF Whole
<1>3. ASSUME NEW d \in Device, AnswerSignIn(d) PROVE Whole'
  <2>1. Sound(d)'
    BY <1>3, RunsSound, AnswersSound, SyncSound, LogoutSound DEF AnswerSignIn, Whole
  <2>. QED
    BY <1>1, <1>3, <2>1, OthersSame
<1>4. ASSUME NEW d \in Device, AnswerRefresh(d) \/ PollGate(d) PROVE Whole'
  <2>1. Sound(d)'
    BY <1>4, RefreshSound DEF AnswerRefresh, Whole
  <2>. QED
    BY <1>1, <1>4, <2>1, OthersSame
<1>5. ASSUME NEW d \in Device,
             OpenDms(d) \/ \E u \in Account : StageKey(d, u) \/ RestoreKey(d, u)
      PROVE  Whole'
  <2>1. \A e \in Device : Same(e)
    BY <1>5 DEF OpenDms, StageKey, RestoreKey, OnDisk, memory, Same
  <2>. QED
    BY <1>2, <1>5, <2>1, OthersSame
<1>6. ASSUME NEW d \in Device, Act(d) PROVE Whole'
  <2>1. CASE OpenDms(d) \/ \E u \in Account : StageKey(d, u) \/ RestoreKey(d, u)
    BY <1>5, <2>1
  <2>2. CASE ~(OpenDms(d) \/ \E u \in Account : StageKey(d, u) \/ RestoreKey(d, u))
    <3>1. \/ Start(d) \/ Quit(d) \/ LoginTotp(d) \/ CancelTotp(d) \/ Logout(d) \/ ClearKeys(d)
          \/ RefreshUser(d) \/ PickHandle(d)
          \/ \E u \in Account : Register(d, u) \/ \E pw \in {0, account[u].pw} : Login(d, u, pw)
      BY <1>6, <2>2 DEF Act
    <3>2. Sound(d)'
      BY <3>1, RunsSound, FormsSound, LogoutSound, RefreshSound DEF Whole
    <3>. QED
      BY <1>1, <3>1, <3>2, OthersSame
  <2>. QED
    BY <2>1, <2>2
<1>7. CASE (\E u \in Account : ResetPassword(u) \/ VerifyEmail(u)) \/ UNCHANGED signInVars
  <2>1. (\A d \in Device : Same(d)) /\ adopted \subseteq adopted'
    BY <1>7 DEF ResetPassword, VerifyEmail, memory, disk, past, signInVars, Same
  <2>. QED
    BY <1>2, <2>1
<1>. QED
  BY <1>3, <1>4, <1>6, <1>7 DEF SignInNext

-----------------------------------------------------------------------------
(* Slots and escrow hold the pair of their account.                        *)

LEMMA OwnKeyStep ==
  ASSUME TypeOK, OwnKeyOnly, Whole, ~Does("cross"), [SignInNext]_signInVars
  PROVE  OwnKeyOnly'
<1>1. /\ slot \in [Device -> [Account -> Account \cup {None}]] /\ account \in [Account -> AccountState]
      /\ sessions \subseteq Session /\ staged \in [Device -> Account \cup {None}]
  BY DEF TypeOK
<1> DEFINE EscrowsKept == \A u \in Account : account'[u].escrow \in {None, account[u].escrow}
<1>2. ASSUME EscrowsKept, slot' = slot, adopted \subseteq adopted' PROVE OwnKeyOnly'
  BY <1>2 DEF OwnKeyOnly
<1>3. ASSUME EscrowsKept, NEW d \in Device, NEW u \in Account, NEW k,
             slot' = [slot EXCEPT ![d][u] = k], adopted \subseteq adopted',
             k \in {None, u} \/ u \in adopted'
      PROVE  OwnKeyOnly'
  <2>1. \A e \in Device, v \in Account : slot'[e][v] = IF e = d /\ v = u THEN k ELSE slot[e][v]
    BY <1>1, <1>3
  <2>. QED
    BY <1>3, <2>1 DEF OwnKeyOnly
<1>4. ASSUME account' = account PROVE EscrowsKept
  BY <1>4
<1>5. ASSUME NEW u \in Account, NEW row, row.escrow = account[u].escrow, row \in AccountState,
             OpenSession(row, u)
      PROVE  EscrowsKept
  <2>1. [row EXCEPT !.issued = @ + 1].escrow = account[u].escrow
    BY <1>5 DEF AccountState
  <2>. QED
    BY <1>1, <1>5, <2>1 DEF OpenSession
<1>6. \A u \in Account : account[u] \in AccountState
      /\ [account[u] EXCEPT !.open = TRUE] \in AccountState
      /\ [account[u] EXCEPT !.open = TRUE].escrow = account[u].escrow
  BY <1>1 DEF AccountState
\* The calls whose answer is about keys.
<1>7. ASSUME NEW d \in Device, NEW f \in calls[d],
             LoginAnswered(d, f) \/ TotpAnswered(d, f) \/ Registered(d, f) \/ SignInFails(d, f)
      PROVE  OwnKeyOnly'
  <2>1. f \in Frame /\ f.who \in Account
    BY <1>7, DeviceFields, FrameFields DEF LoginAnswered, TotpAnswered, Registered, SignInFails
  <2>2. EscrowsKept
    BY <1>4, <1>5, <1>6, <1>7, <2>1 DEF LoginAnswered, TotpAnswered, Registered, SignInFails, server
  <2>3. CASE Claim(d, f.who)
    <3>1. FoundKey(d, f.who) \in {None, f.who} \/ f.who \in adopted'
      BY <2>1, <2>3, FoundIsOwn
    <3>. QED
      BY <1>3, <2>1, <2>2, <2>3, <3>1, FoundIsOwn DEF Claim
  <2>4. CASE Registered(d, f)
    BY <1>3, <2>1, <2>2, <2>4 DEF Registered, past
  <2>5. CASE slot' = slot /\ adopted' = adopted
    BY <1>2, <2>2, <2>5
  <2>. QED
    BY <1>7, <2>3, <2>4, <2>5 DEF LoginAnswered, TotpAnswered, SignInFails, disk
<1>8. ASSUME NEW d \in Device, NEW f \in calls[d],
             EscrowAnswered(d, f) \/ KeyEscrowed(d, f) \/ SyncFails(d, f)
      PROVE  OwnKeyOnly'
  <2>1. f.at \in {"escrow", "put"}
    BY <1>8 DEF EscrowAnswered, KeyEscrowed, SyncFails
  <2>2. SessionHolds(d, f) /\ KeyHolds(d, f)
    BY <2>1, Places, Alone DEF Holds, Whole
  <2>3. f.with.of = f.who /\ active[d] = f.who /\ f.who # None
    BY <2>2 DEF SessionHolds, KeyHolds
  <2>4. f.who \in Account
    BY <2>3, DeviceFields
  <2>5. CASE EscrowAnswered(d, f)
    <3>1. EscrowsKept /\ adopted' = adopted
      BY <1>4, <2>5 DEF EscrowAnswered, server, past
    <3>2. CASE slot' = slot
      BY <1>2, <3>1, <3>2
    <3>3. CASE slot' # slot
      <4>1. /\ slot' = [slot EXCEPT ![d][f.who] = account[f.who].escrow.key]
            /\ account[f.who].escrow # None
        BY <2>3, <2>5, <3>3 DEF EscrowAnswered
      <4>2. account[f.who].escrow.key = f.who \/ f.who \in adopted
        BY <2>4, <4>1 DEF OwnKeyOnly
      <4>. QED
        BY <1>3, <2>4, <3>1, <4>1, <4>2
    <3>. QED
      BY <3>2, <3>3
  <2>6. CASE KeyEscrowed(d, f)
    <3>1. f.key = f.who \/ f.who \in adopted
      BY <2>2, <2>6 DEF KeyEscrowed, KeyHolds
    <3>2. account' = [account EXCEPT ![f.who].escrow = [key |-> f.key, pw |-> f.pw]]
      BY <2>3, <2>6 DEF KeyEscrowed
    <3>3. \A u \in Account : account'[u].escrow =
            IF u = f.who THEN [key |-> f.key, pw |-> f.pw] ELSE account[u].escrow
      BY <1>1, <2>4, <3>2 DEF AccountState
    <3>4. slot' = slot /\ adopted' = adopted
      BY <2>6 DEF KeyEscrowed, disk, past
    <3>. QED
      BY <3>1, <3>3, <3>4 DEF OwnKeyOnly
  <2>7. CASE SyncFails(d, f)
    BY <1>2, <1>4, <2>7 DEF SyncFails, server, disk
  <2>. QED
    BY <1>8, <2>5, <2>6, <2>7
\* The others.
<1>9. ASSUME NEW d \in Device, NEW f \in calls[d],
             \/ TokenRead(d, f) \/ Hydrated(d, f) \/ HydrateFails(d, f) \/ TokenSaved(d, f)
             \/ PresenceCleared(d, f) \/ LogoutAnswered(d, f) \/ TokenCleared(d, f)
             \/ UserRefreshed(d, f) \/ RefreshFails(d, f)
      PROVE  OwnKeyOnly'
  <2>1. account' = account /\ slot' = slot /\ adopted' = adopted
    BY <1>9 DEF TokenRead, Hydrated, HydrateFails, TokenSaved, PresenceCleared, LogoutAnswered,
       TokenCleared, UserRefreshed, RefreshFails, server, disk, past
  <2>. QED
    BY <1>2, <1>4, <2>1
<1>10. ASSUME NEW d \in Device, NEW f \in calls[d], HandleSet(d, f) PROVE OwnKeyOnly'
  <2>1. f.with.of \in Account /\ account' = [account EXCEPT ![f.with.of].handle = TRUE]
    BY <1>1, <1>10 DEF HandleSet, Session
  <2>2. EscrowsKept
    BY <1>1, <2>1 DEF AccountState
  <2>. QED
    BY <1>2, <1>10, <2>2 DEF HandleSet, disk, past
<1>11. ASSUME NEW u \in Account, ResetPassword(u) \/ VerifyEmail(u) PROVE OwnKeyOnly'
  <2>1. ASSUME ResetPassword(u) PROVE EscrowsKept
    BY <1>1, <2>1 DEF ResetPassword, AccountState
  <2>2. ASSUME VerifyEmail(u) PROVE EscrowsKept
    BY <1>1, <2>2 DEF VerifyEmail, AccountState
  <2>. QED
    BY <1>2, <1>11, <2>1, <2>2 DEF ResetPassword, VerifyEmail, disk, past
<1>12. ASSUME NEW d \in Device, NEW k \in Account, RestoreKey(d, k) PROVE OwnKeyOnly'
  <2>1. active[d] \in Account /\ EscrowsKept
    BY <1>4, <1>12, DeviceFields DEF RestoreKey, OnDisk, server
  <2>. QED
    BY <1>3, <1>12, <2>1 DEF RestoreKey
<1>13. ASSUME NEW d \in Device, OpenDms(d) PROVE OwnKeyOnly'
  <2>1. active[d] \in Account /\ EscrowsKept
    BY <1>4, <1>13, DeviceFields DEF OpenDms, OnDisk, server
  <2>2. Claim(d, active[d])
    BY <1>13 DEF OpenDms
  <2>. QED
    BY <1>3, <2>1, <2>2, FoundIsOwn DEF Claim
<1>14. ASSUME NEW d \in Device, ClearKeys(d) PROVE OwnKeyOnly'
  <2>1. active[d] \in Account /\ EscrowsKept
    BY <1>4, <1>14, DeviceFields DEF ClearKeys, LogoutBegins, server
  <2>. QED
    BY <1>3, <1>14, <2>1 DEF ClearKeys, LogoutBegins
<1>15. ASSUME NEW d \in Device,
              \/ Start(d) \/ Quit(d) \/ LoginTotp(d) \/ CancelTotp(d) \/ Logout(d)
              \/ RefreshUser(d) \/ PickHandle(d) \/ PollGate(d)
              \/ \E u \in Account : Register(d, u) \/ StageKey(d, u)
                                    \/ \E pw \in {0, account[u].pw} : Login(d, u, pw)
       PROVE  OwnKeyOnly'
  <2>1. account' = account /\ slot' = slot /\ adopted' = adopted
    BY <1>15 DEF Start, Quit, LoginTotp, CancelTotp, Logout, LogoutBegins, RefreshUser, PickHandle, PollGate,
       Ask, Register, StageKey, Login, Begin, OnDisk, server, disk, past
  <2>. QED
    BY <1>2, <1>4, <2>1
<1>16. CASE UNCHANGED signInVars
  BY <1>2, <1>4, <1>16 DEF signInVars, server, disk, past
<1>17. ASSUME NEW d \in Device, AnswerSignIn(d) \/ AnswerRefresh(d) PROVE OwnKeyOnly'
  BY <1>7, <1>8, <1>9, <1>10, <1>17 DEF AnswerSignIn, AnswerRefresh
<1>18. ASSUME NEW d \in Device, Act(d) PROVE OwnKeyOnly'
  BY <1>12, <1>13, <1>14, <1>15, <1>18 DEF Act
<1>. QED
  BY <1>11, <1>15, <1>16, <1>17, <1>18 DEF SignInNext

-----------------------------------------------------------------------------
(* The theorems.                                                           *)

\* The profile never changes.
LEMMA ProfileStays == ASSUME [SignInNext]_signInVars PROVE does' = does
<1>1. ASSUME NEW d \in Device, NEW f \in calls[d],
             \/ TokenRead(d, f) \/ Hydrated(d, f) \/ HydrateFails(d, f) \/ LoginAnswered(d, f)
             \/ TotpAnswered(d, f) \/ Registered(d, f) \/ SignInFails(d, f)
      PROVE  does' = does
  BY <1>1 DEF TokenRead, Hydrated, HydrateFails, LoginAnswered, TotpAnswered, Registered, SignInFails
<1>2. ASSUME NEW d \in Device, NEW f \in calls[d],
             \/ EscrowAnswered(d, f) \/ KeyEscrowed(d, f) \/ SyncFails(d, f) \/ TokenSaved(d, f)
             \/ PresenceCleared(d, f) \/ LogoutAnswered(d, f) \/ TokenCleared(d, f)
      PROVE  does' = does
  BY <1>2 DEF EscrowAnswered, KeyEscrowed, SyncFails, TokenSaved, PresenceCleared, LogoutAnswered,
     TokenCleared
<1>3. ASSUME NEW d \in Device, AnswerRefresh(d) \/ PollGate(d) PROVE does' = does
  BY <1>3 DEF AnswerRefresh, HandleSet, UserRefreshed, RefreshFails, PollGate, Ask
<1>4. ASSUME NEW d \in Device, Act(d) PROVE does' = does
  BY <1>4 DEF Act, Start, Quit, LoginTotp, CancelTotp, Logout, ClearKeys, LogoutBegins, RefreshUser,
     PickHandle, Ask, OpenDms, Register, StageKey, RestoreKey, OnDisk, Login, Begin
<1>5. CASE (\E u \in Account : ResetPassword(u) \/ VerifyEmail(u)) \/ UNCHANGED signInVars
  BY <1>5 DEF ResetPassword, VerifyEmail, signInVars
<1>. QED
  BY <1>1, <1>2, <1>3, <1>4, <1>5 DEF SignInNext, AnswerSignIn

\* The invariant holds of every profile; its parts about the sessions and the keys
\* where calls do not cross (auth-store.ts).
THEOREM Invariance == SignInSpec => []IInv
<1>1. SignInInit => IInv
  BY TypesAtFirst, WholeAtFirst DEF IInv
<1>2. IInv /\ [SignInNext]_signInVars => IInv'
  <2>. SUFFICES ASSUME IInv, [SignInNext]_signInVars PROVE IInv'
    OBVIOUS
  <2>1. TypeOK'
    BY TypesStep DEF IInv
  <2>2. ASSUME ~Does("cross")' PROVE Whole' /\ OwnKeyOnly'
    <3>1. does' = does
      BY ProfileStays
    <3>2. ~Does("cross")
      BY <2>2, <3>1 DEF Does
    <3>. QED
      BY <3>2, WholeStep, OwnKeyStep DEF IInv
  <2>. QED
    BY <2>1, <2>2 DEF IInv
<1>. QED
  BY <1>1, <1>2, PTL DEF SignInSpec

\* Where calls of a device do not cross, the slots of an account and its escrow
\* hold its own pair, whatever is signed in, up and out, on whatever device, and
\* wherever it stops (syncE2eeKey, key-storage.ts).
THEOREM OwnKeysCorrect == SignInSpec => [](~Does("cross") => OwnKeyOnly)
<1>1. IInv => (~Does("cross") => OwnKeyOnly)
  BY DEF IInv
<1>. QED
  BY <1>1, Invariance, PTL

\* There, too, a device with no call out is wholly signed in or wholly signed
\* out: user, token, requests, keys and the saved token agree (auth-store.ts).
THEOREM WholeCorrect == SignInSpec => [](~Does("cross") => SignInIsWhole)
<1>1. ASSUME TypeOK, Whole PROVE SignInIsWhole
  <2>. SUFFICES ASSUME NEW d \in started, calls[d] = {}
                PROVE  LET s == store[d] IN
                       CASE s.status = "authenticated" ->
                              /\ s.user # None /\ s.token # None /\ s.user.id = s.token.of
                              /\ api[d] = s.token /\ active[d] = s.token.of /\ ReadToken(d) = s.token
                         [] s.status = "totp-required" ->
                              s.challenge # None /\ stash[d] # None /\ api[d] = None /\ active[d] = None
                         [] OTHER -> /\ s.status = "unauthenticated" /\ s.token = None /\ stash[d] = None
                                     /\ api[d] = None /\ active[d] = None /\ ReadToken(d) = None
    BY DEF SignInIsWhole
  <2>1. Sound(d) /\ store[d].status \in Status
    <3>1. d \in Device
      BY <1>1 DEF TypeOK, SignInAssumption, Profile
    <3>. QED
      BY <1>1, <3>1, DeviceFields DEF Whole
  <2>2. CASE store[d].status = "authenticated"
    BY <2>1, <2>2 DEF Sound, AppHolds
  <2>3. CASE store[d].status = "totp-required"
    BY <2>1, <2>3 DEF Sound, TotpHolds, Out
  <2>4. CASE store[d].status = "unauthenticated"
    BY <2>1, <2>4 DEF Sound, LoginHolds, Out
  <2>5. store[d].status # "loading"
    BY <2>1 DEF Sound, LoaderHolds
  <2>. QED
    BY <2>1, <2>2, <2>3, <2>4, <2>5 DEF Status
<1>2. IInv => (~Does("cross") => SignInIsWhole)
  BY <1>1 DEF IInv
<1>. QED
  BY <1>2, Invariance, PTL
=============================================================================
