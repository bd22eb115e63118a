-------------------------------- MODULE SignIn --------------------------------
(***************************************************************************)
(* Signing in on the devices of several accounts: the store of             *)
(* lib/auth-store.ts with its calls, the encryption keys of                *)
(* lib/key-storage.ts, the token file of main/token-store.ts, the screens  *)
(* App.tsx chooses by them, and the two gates.                             *)
(*                                                                         *)
(* A call of the store is a frame: the request it awaits, and what it has  *)
(* in hand.  The server handles a request when it answers.  The pair of an *)
(* account goes by the name of the account.                                *)
(***************************************************************************)
EXTENDS Naturals, FiniteSets

CONSTANTS
  Account, Device, None,
  Profiles      \* what goes on; see Profile

Operation == {"register", "reset", "crash", "refresh", "keys", "restore", "keyring", "verify", "cross"}
\* known: accounts that exist; escrowed: those whose key is in escrow; guarded:
\* those with a second factor; bare: those that are to pick a handle; legacy:
\* the key, from before keys went by account, that a device starts with.
Profile == [ops : SUBSET Operation, devices : SUBSET Device, known : SUBSET Account,
            escrowed : SUBSET Account, guarded : SUBSET Account, bare : SUBSET Account,
            legacy : [Device -> Account \cup {None}], moves : Nat, faults : Nat]

VARIABLES
  does,       \* the profile; never changes
  account,    \* the rows of the server: see AccountState
  sessions,   \* the sessions that are valid
  started,    \* the devices on which the client runs
  keyring,    \* those whose system encrypts, in the present run
  store,      \* store[d]: the auth store; see StoreState
  api,        \* api[d]: the token its requests carry
  active,     \* active[d]: activeUserId
  stash,      \* stash[d]: pendingTotpPassword
  calls,      \* calls[d]: the frames under way
  slot,       \* slot[d][u]: the pair of u's own slot
  staged,     \* staged[d]: the pair of the slot without a name
  file,       \* file[d]: the two token files
  adopted,    \* history: accounts that were given a pair from a file or a staging slot
  moves,      \* bound: acts of the users so far
  failures    \* bound: requests that went wrong so far

memory == <<started, keyring, store, api, active, stash, calls>>
disk == <<slot, staged, file>>
server == <<account, sessions>>
past == <<adopted, moves, failures>>
signInVars == <<does, server, memory, disk, past>>

Session == [of : Account, n : Nat]
\* The password and its successors, by number.
Password == Nat
Escrow == [key : Account, pw : Password]
AccountState == [open : BOOLEAN, pw : Password, verified : BOOLEAN, handle : BOOLEAN,
                 guarded : BOOLEAN, escrow : Escrow \cup {None}, issued : Nat]
User == [id : Account, verified : BOOLEAN, handle : BOOLEAN]
Status == {"unauthenticated", "loading", "totp-required", "authenticated"}
StoreState == [status : Status, user : User \cup {None}, token : Session \cup {None},
               challenge : Account \cup {None}]
\* with: the token of the request; token, user: what the sign-in was answered;
\* key: the pair that was found here.
AnyFrame == [op : {"hydrate", "login", "totp", "register", "logout", "refresh", "handle"},
             at : {"read", "me", "login", "totp", "register", "escrow", "put", "save",
                   "presence", "logout", "clear", "handle"},
             who : Account \cup {None}, pw : Password \cup {None},
             with : Session \cup {None}, token : Session \cup {None},
             user : User \cup {None}, key : Account \cup {None}]
Frame == {f \in AnyFrame : /\ f.at \in {"login", "totp", "register"} => f.who # None
                           /\ f.at \in {"escrow", "put"} => f.pw # None
                           /\ f.at = "put" => f.key # None}

ASSUME SignInAssumption ==
  /\ Profiles \subseteq Profile
  /\ None \notin Account \cup Password \cup Session \cup User \cup Escrow

TypeOK ==
  /\ does \in Profiles
  /\ account \in [Account -> AccountState] /\ sessions \subseteq Session
  /\ started \subseteq does.devices /\ keyring \subseteq Device
  /\ store \in [Device -> StoreState] /\ api \in [Device -> Session \cup {None}]
  /\ active \in [Device -> Account \cup {None}] /\ stash \in [Device -> Password \cup {None}]
  /\ calls \in [Device -> SUBSET Frame]
  /\ slot \in [Device -> [Account -> Account \cup {None}]]
  /\ staged \in [Device -> Account \cup {None}]
  /\ file \in [Device -> [enc : Session \cup {None}, plain : Session \cup {None}]]
  /\ adopted \subseteq Account
  /\ moves \in 0 .. does.moves /\ failures \in 0 .. does.faults

Does(op) == op \in does.ops

SignedOut == [status |-> "unauthenticated", user |-> None, token |-> None, challenge |-> None]
NoFile == [enc |-> None, plain |-> None]

SignInInit ==
  /\ does \in Profiles
  /\ account = [u \in Account |->
       [open |-> u \in does.known, pw |-> 0, verified |-> u \in does.known,
        handle |-> u \notin does.bare, guarded |-> u \in does.guarded,
        escrow |-> IF u \in does.escrowed THEN [key |-> u, pw |-> 0] ELSE None, issued |-> 0]]
  /\ sessions = {} /\ started = {} /\ keyring = Device
  /\ store = [d \in Device |-> SignedOut]
  /\ api = [d \in Device |-> None] /\ active = [d \in Device |-> None]
  /\ stash = [d \in Device |-> None] /\ calls = [d \in Device |-> {}]
  /\ slot = [d \in Device |-> [u \in Account |-> None]]
  /\ staged = does.legacy /\ file = [d \in Device |-> NoFile]
  /\ adopted = {} /\ moves = 0 /\ failures = 0

Move == moves < does.moves /\ moves' = moves + 1
Fault == failures < does.faults /\ failures' = failures + 1

(***************************************************************************)
(* What is on the screen, and what is on the disk.                         *)
(***************************************************************************)
\* A spinner while something is loading, since the shell is mounted anew at
\* every change of the status; then the gates; then the app.
Shown(d) ==
  LET user == store[d].user
  IN IF store[d].status = "loading" THEN "loader"
     ELSE IF store[d].status # "authenticated" THEN "login"
     ELSE IF user # None /\ ~user.verified THEN "verify"
     ELSE IF user # None /\ ~user.handle THEN "handle" ELSE "app"

\* getToken: the encrypted file if the system can decrypt, else the plain one.
ReadToken(d) ==
  IF file[d].enc # None /\ d \in keyring THEN file[d].enc ELSE file[d].plain

\* saveToken writes the one and removes the other.
SavedToken(d, t) ==
  IF d \in keyring THEN [enc |-> t, plain |-> None] ELSE [enc |-> None, plain |-> t]

\* Mutant: the pair of whoever was here last will do.
FoundAnyKey(d, u) ==
  IF \E v \in Account : slot[d][v] # None
  THEN slot[d][CHOOSE v \in Account : slot[d][v] # None] ELSE staged[d]
\* loadKeyPair for u: u's own slot, or the staged pair, which u then claims.
FoundKey(d, u) == IF slot[d][u] # None THEN slot[d][u] ELSE staged[d]
Claim(d, u) ==
  /\ slot' = [slot EXCEPT ![d][u] = FoundKey(d, u)]
  /\ staged' = [staged EXCEPT ![d] = IF slot[d][u] = None THEN None ELSE @]
  /\ adopted' = IF slot[d][u] = None /\ staged[d] \notin {None, u} THEN adopted \cup {u} ELSE adopted

Goto(d, f, g) == calls' = [calls EXCEPT ![d] = (@ \ {f}) \cup {g}]
Return(d, f) == calls' = [calls EXCEPT ![d] = @ \ {f}]
Set(d, s) == store' = [store EXCEPT ![d] = s]

NewFrame(op, at) == [op |-> op, at |-> at, who |-> None, pw |-> None, with |-> None,
                     token |-> None, user |-> None, key |-> None]

(***************************************************************************)
(* Starting: hydrate.                                                      *)
(***************************************************************************)
Start(d) ==
  /\ d \in does.devices \ started
  /\ started' = started \cup {d}
  /\ keyring' \in {keyring \cup {d}} \cup (IF Does("keyring") THEN {keyring \ {d}} ELSE {})
  /\ calls' = [calls EXCEPT ![d] = {NewFrame("hydrate", "read")}]
  /\ UNCHANGED <<does, server, store, api, active, stash, disk, past>>

\* The client is closed, or dies: files and local storage stay.
Quit(d) ==
  /\ Does("crash") /\ d \in started /\ Move
  /\ started' = started \ {d} /\ calls' = [calls EXCEPT ![d] = {}]
  /\ store' = [store EXCEPT ![d] = SignedOut] /\ api' = [api EXCEPT ![d] = None]
  /\ active' = [active EXCEPT ![d] = None] /\ stash' = [stash EXCEPT ![d] = None]
  /\ UNCHANGED <<does, server, keyring, disk, adopted, failures>>

TokenRead(d, f) ==
  /\ f.op = "hydrate" /\ f.at = "read"
  /\ IF ReadToken(d) = None
     THEN /\ Set(d, [store[d] EXCEPT !.status = "unauthenticated"]) /\ Return(d, f) /\ UNCHANGED api
     ELSE /\ Set(d, [store[d] EXCEPT !.status = "loading", !.token = ReadToken(d)])
          /\ api' = [api EXCEPT ![d] = ReadToken(d)]
          /\ Goto(d, f, [f EXCEPT !.at = "me", !.with = ReadToken(d)])
  /\ UNCHANGED <<does, server, started, keyring, active, stash, disk, past>>

UserOf(u) == [id |-> u, verified |-> account[u].verified, handle |-> account[u].handle]

Hydrated(d, f) ==
  /\ f.op = "hydrate" /\ f.at = "me" /\ f.with \in sessions
  /\ active' = [active EXCEPT ![d] = f.with.of]
  /\ Set(d, [store[d] EXCEPT !.status = "authenticated", !.user = UserOf(f.with.of)])
  /\ Return(d, f)
  /\ UNCHANGED <<does, server, started, keyring, api, stash, disk, past>>

\* Mutant: the requests go on carrying the token.
HydrateFailsKeepingApi(d, f) ==
  /\ f.op = "hydrate" /\ f.at = "me"
  /\ (f.with \notin sessions /\ UNCHANGED failures) \/ Fault
  /\ Goto(d, f, [f EXCEPT !.at = "clear"])
  /\ UNCHANGED <<does, server, started, keyring, store, api, active, stash, disk, adopted, moves>>
\* Refused, or no answer: the token goes, here and then on the disk.
HydrateFails(d, f) ==
  /\ f.op = "hydrate" /\ f.at = "me"
  /\ (f.with \notin sessions /\ UNCHANGED failures) \/ Fault
  /\ api' = [api EXCEPT ![d] = None] /\ Goto(d, f, [f EXCEPT !.at = "clear"])
  /\ UNCHANGED <<does, server, started, keyring, store, active, stash, disk, adopted, moves>>

(***************************************************************************)
(* Signing in.                                                             *)
(***************************************************************************)
\* The form can be sent as soon as it is shown: with "cross" this may be before
\* an earlier call is over, the reading of the token or a second sign-out.
Begin(d, s, f) ==
  /\ (calls[d] = {} \/ Does("cross")) /\ Move /\ Set(d, s)
  /\ calls' = [calls EXCEPT ![d] = @ \cup {f}]
  /\ UNCHANGED <<does, server, started, keyring, api, active, stash, disk, adopted, failures>>

Login(d, u, pw) ==
  /\ d \in started /\ store[d].status = "unauthenticated"
  /\ account[u].open /\ pw \in {account[u].pw, 0}
  /\ Begin(d, [store[d] EXCEPT !.status = "loading", !.challenge = None],
           [NewFrame("login", "login") EXCEPT !.who = u, !.pw = pw])

LoginTotp(d) ==
  /\ d \in started /\ store[d].status = "totp-required" /\ store[d].challenge # None
  /\ Begin(d, [store[d] EXCEPT !.status = "loading"],
           [NewFrame("totp", "totp") EXCEPT !.who = store[d].challenge])

CancelTotp(d) ==
  /\ d \in started /\ store[d].status = "totp-required" /\ Move
  /\ stash' = [stash EXCEPT ![d] = None]
  /\ Set(d, [store[d] EXCEPT !.status = "unauthenticated", !.challenge = None])
  /\ UNCHANGED <<does, server, started, keyring, api, active, calls, disk, adopted, failures>>

Register(d, u) ==
  /\ Does("register") /\ d \in started /\ store[d].status = "unauthenticated" /\ ~account[u].open
  /\ Begin(d, [store[d] EXCEPT !.status = "loading"],
           [NewFrame("register", "register") EXCEPT !.who = u, !.pw = 0])

NewSession(u) == [of |-> u, n |-> account[u].issued + 1]
OpenSession(row, u) ==
  /\ account' = [account EXCEPT ![u] = [row EXCEPT !.issued = @ + 1]]
  /\ sessions' = sessions \cup {NewSession(u)}

\* The session is there: the token and the owner of the keys are set, and
\* syncE2eeKey looks for the pair and asks for the one in escrow.
SessionOpened(d, f, pw, local) ==
  LET u == f.who
      g == [f EXCEPT !.token = NewSession(u), !.with = NewSession(u), !.user = UserOf(u), !.pw = pw]
  IN /\ api' = [api EXCEPT ![d] = NewSession(u)]
     /\ active' = [active EXCEPT ![d] = u]
     /\ IF pw = None THEN Goto(d, f, [g EXCEPT !.at = "save"])
        ELSE Goto(d, f, [g EXCEPT !.at = "escrow", !.key = local])

LoginAnswered(d, f) ==
  LET u == f.who IN
  /\ f.at = "login" /\ f.pw = account[u].pw
  /\ IF account[u].guarded
     THEN /\ stash' = [stash EXCEPT ![d] = f.pw] /\ Return(d, f)
          /\ Set(d, [store[d] EXCEPT !.status = "totp-required", !.challenge = u])
          /\ UNCHANGED <<server, api, active, slot, staged, adopted>>
     ELSE /\ OpenSession(account[u], u)
          /\ SessionOpened(d, f, f.pw, FoundKey(d, u)) /\ Claim(d, u)
          /\ UNCHANGED <<store, stash>>
  /\ UNCHANGED <<does, started, keyring, file, moves, failures>>

TotpAnswered(d, f) ==
  /\ f.at = "totp"
  /\ OpenSession(account[f.who], f.who)
  /\ SessionOpened(d, f, stash[d], FoundKey(d, f.who))
  /\ IF stash[d] = None THEN UNCHANGED <<slot, staged, adopted>> ELSE Claim(d, f.who)
  /\ UNCHANGED <<does, started, keyring, store, stash, file, moves, failures>>

Registered(d, f) ==
  LET u == f.who IN
  /\ f.at = "register" /\ ~account[u].open
  /\ OpenSession([account[u] EXCEPT !.open = TRUE], u)
  /\ SessionOpened(d, f, f.pw, u)
  /\ slot' = [slot EXCEPT ![d][u] = u]
  /\ UNCHANGED <<does, started, keyring, store, stash, staged, file, past>>

\* A wrong password, a wrong code, an address that is taken, or no answer;
\* of a registration whose answer is lost the account may remain.
SignInFails(d, f) ==
  /\ f.at \in {"login", "totp", "register"}
  /\ \/ f.at = "login" /\ f.pw # account[f.who].pw /\ UNCHANGED <<server, failures>>
     \/ f.at = "register" /\ account[f.who].open /\ UNCHANGED <<server, failures>>
     \/ Fault /\ UNCHANGED server
     \/ f.at = "register" /\ ~account[f.who].open /\ Fault
        /\ OpenSession([account[f.who] EXCEPT !.open = TRUE], f.who)
  /\ Set(d, [store[d] EXCEPT !.status = IF f.op = "totp" THEN "totp-required" ELSE "unauthenticated"])
  /\ Return(d, f)
  /\ UNCHANGED <<does, started, keyring, api, active, stash, disk, adopted, moves>>

(***************************************************************************)
(* syncE2eeKey, and the end of a sign-in.                                  *)
(***************************************************************************)
Synced(d, f) ==
  /\ Goto(d, f, [f EXCEPT !.at = "save"])
  /\ stash' = IF f.op = "totp" THEN [stash EXCEPT ![d] = None] ELSE stash

EscrowAnswered(d, f) ==
  LET escrow == account[f.with.of].escrow IN
  /\ f.at = "escrow" /\ f.with \in sessions
  /\ IF f.key # None /\ escrow = None
     THEN Goto(d, f, [f EXCEPT !.at = "put", !.with = api[d]]) /\ UNCHANGED <<stash, slot>>
     ELSE /\ Synced(d, f)
          /\ IF f.key = None /\ escrow # None /\ escrow.pw = f.pw /\ active[d] # None
             THEN slot' = [slot EXCEPT ![d][active[d]] = escrow.key] ELSE UNCHANGED slot
  /\ UNCHANGED <<does, server, started, keyring, store, api, active, staged, file, past>>

KeyEscrowed(d, f) ==
  /\ f.at = "put" /\ f.with \in sessions
  /\ account' = [account EXCEPT ![f.with.of].escrow = [key |-> f.key, pw |-> f.pw]]
  /\ Synced(d, f)
  /\ UNCHANGED <<does, sessions, started, keyring, store, api, active, disk, past>>

\* It never fails the sign-in.
SyncFails(d, f) ==
  /\ f.at \in {"escrow", "put"}
  /\ (f.with \notin sessions /\ UNCHANGED failures) \/ Fault
  /\ Synced(d, f)
  /\ UNCHANGED <<does, server, started, keyring, store, api, active, disk, adopted, moves>>

TokenSaved(d, f) ==
  /\ f.at = "save"
  /\ file' = [file EXCEPT ![d] = SavedToken(d, f.token)]
  /\ Set(d, [store[d] EXCEPT !.status = "authenticated", !.token = f.token, !.user = f.user,
                             !.challenge = IF f.op = "register" THEN @ ELSE None])
  /\ Return(d, f)
  /\ UNCHANGED <<does, server, started, keyring, api, active, stash, slot, staged, past>>

(***************************************************************************)
(* Signing out.                                                            *)
(***************************************************************************)
\* Without a token only the client's side remains to be done.
LogoutFrame(d) ==
  IF store[d].token # None THEN [NewFrame("logout", "presence") EXCEPT !.with = api[d]]
  ELSE NewFrame("logout", "clear")
LogoutBegins(d) ==
  /\ Move
  /\ calls' = [calls EXCEPT ![d] = @ \cup {LogoutFrame(d)}]
  /\ api' = IF store[d].token # None THEN api ELSE [api EXCEPT ![d] = None]
  /\ UNCHANGED <<does, server, started, keyring, store, active, stash, staged, file, adopted, failures>>

Logout(d) ==
  /\ d \in started /\ store[d].status = "authenticated" /\ LogoutBegins(d) /\ UNCHANGED slot

\* "Clear keys + sign out" of the settings.
ClearKeys(d) ==
  /\ Does("keys") /\ d \in started /\ Shown(d) = "app"
  /\ active[d] # None /\ slot[d][active[d]] # None
  /\ slot' = [slot EXCEPT ![d][active[d]] = None] /\ LogoutBegins(d)

PresenceCleared(d, f) ==
  /\ f.at = "presence" /\ Goto(d, f, [f EXCEPT !.at = "logout", !.with = api[d]])
  /\ UNCHANGED <<does, server, started, keyring, store, api, active, stash, disk, past>>

\* Whatever the server says, the client goes on.
LogoutAnswered(d, f) ==
  /\ f.at = "logout"
  /\ (sessions' = sessions \ {f.with} /\ UNCHANGED failures) \/ (Fault /\ UNCHANGED sessions)
  /\ api' = [api EXCEPT ![d] = None] /\ Goto(d, f, [f EXCEPT !.at = "clear", !.with = None])
  /\ UNCHANGED <<does, account, started, keyring, store, active, stash, disk, adopted, moves>>

\* Mutant: signing out takes the pair along.
TokenAndKeyCleared(d, f) ==
  /\ f.at = "clear"
  /\ file' = [file EXCEPT ![d] = NoFile] /\ Return(d, f)
  /\ Set(d, SignedOut) /\ active' = [active EXCEPT ![d] = None]
  /\ slot' = IF active[d] = None THEN slot ELSE [slot EXCEPT ![d][active[d]] = None]
  /\ UNCHANGED <<does, server, started, keyring, api, stash, staged, past>>

TokenCleared(d, f) ==
  /\ f.at = "clear"
  /\ file' = [file EXCEPT ![d] = NoFile] /\ Return(d, f)
  /\ IF f.op = "logout"
     THEN active' = [active EXCEPT ![d] = None] /\ Set(d, SignedOut)
     ELSE /\ UNCHANGED active
          /\ Set(d, [store[d] EXCEPT !.status = "unauthenticated", !.token = None, !.user = None])
  /\ UNCHANGED <<does, server, started, keyring, api, stash, slot, staged, past>>

(***************************************************************************)
(* The user, asked for again.                                              *)
(***************************************************************************)
Ask(d, f) ==
  /\ calls' = [calls EXCEPT ![d] = @ \cup {f}]
  /\ UNCHANGED <<does, server, started, keyring, store, api, active, stash, disk, adopted, failures>>
RefreshFrame(d) == [NewFrame("refresh", "me") EXCEPT !.with = api[d]]

\* The gate asks every four seconds.
PollGate(d) ==
  /\ d \in started /\ Shown(d) = "verify" /\ \A f \in calls[d] : f.op # "refresh"
  /\ Ask(d, RefreshFrame(d)) /\ UNCHANGED moves

\* So does the app after most changes of the profile.
RefreshUser(d) ==
  /\ Does("refresh") /\ d \in started /\ Shown(d) = "app" /\ Move /\ Ask(d, RefreshFrame(d))

PickHandle(d) ==
  /\ d \in started /\ Shown(d) = "handle" /\ Move /\ \A f \in calls[d] : f.op # "handle"
  /\ Ask(d, [NewFrame("handle", "handle") EXCEPT !.with = store[d].token])

HandleSet(d, f) ==
  /\ f.at = "handle" /\ f.with \in sessions
  /\ account' = [account EXCEPT ![f.with.of].handle = TRUE]
  /\ Goto(d, f, [f EXCEPT !.at = "me", !.with = api[d]])
  /\ UNCHANGED <<does, sessions, started, keyring, store, api, active, stash, disk, past>>

\* Mutant: of the answer only the handle is taken over.
UserRefreshedInPart(d, f) ==
  /\ f.op # "hydrate" /\ f.at = "me" /\ f.with \in sessions
  /\ store' = IF store[d].user = None THEN store
              ELSE [store EXCEPT ![d].user.handle = account[f.with.of].handle]
  /\ Return(d, f)
  /\ UNCHANGED <<does, server, started, keyring, api, active, stash, disk, past>>

UserRefreshed(d, f) ==
  /\ f.op # "hydrate" /\ f.at = "me" /\ f.with \in sessions
  /\ Set(d, [store[d] EXCEPT !.user = UserOf(f.with.of)]) /\ Return(d, f)
  /\ UNCHANGED <<does, server, started, keyring, api, active, stash, disk, past>>

RefreshFails(d, f) ==
  /\ f.op # "hydrate" /\ f.at \in {"me", "handle"}
  /\ (f.with \notin sessions /\ UNCHANGED failures) \/ Fault
  /\ Return(d, f)
  /\ UNCHANGED <<does, server, started, keyring, store, api, active, stash, disk, adopted, moves>>

(***************************************************************************)
(* Keys by hand, and what happens elsewhere.                               *)
(***************************************************************************)
OnDisk == UNCHANGED <<does, server, memory, file, failures>>

\* The login screen stages the pair of a backup file, if it finds none here.
StageKey(d, k) ==
  /\ Does("restore") /\ d \in started /\ Shown(d) = "login" /\ account[k].open
  /\ active[d] # None => FoundKey(d, active[d]) = None
  /\ staged' = [staged EXCEPT ![d] = k] /\ Move
  /\ UNCHANGED <<slot, adopted>> /\ OnDisk

\* A conversation puts it into the slot of the one who is signed in.
RestoreKey(d, k) ==
  /\ Does("restore") /\ d \in started /\ Shown(d) = "app" /\ account[k].open /\ active[d] # None
  /\ slot' = [slot EXCEPT ![d][active[d]] = k] /\ Move
  /\ adopted' = IF k = active[d] THEN adopted ELSE adopted \cup {active[d]}
  /\ UNCHANGED staged /\ OnDisk

\* Opening the conversations looks for the pair too.
OpenDms(d) ==
  /\ d \in started /\ Shown(d) = "app" /\ active[d] # None
  /\ Claim(d, active[d]) /\ UNCHANGED moves /\ OnDisk

\* A reset link is used: new password, no escrow, no sessions, and the address is verified.
ResetPassword(u) ==
  /\ Does("reset") /\ account[u].open /\ Move
  /\ account' = [account EXCEPT ![u].pw = @ + 1, ![u].escrow = None, ![u].verified = TRUE]
  /\ sessions' = {t \in sessions : t.of # u}
  /\ UNCHANGED <<does, memory, disk, adopted, failures>>

\* The link of the verification mail.
VerifyEmail(u) ==
  /\ Does("verify") /\ account[u].open /\ ~account[u].verified
  /\ account' = [account EXCEPT ![u].verified = TRUE]
  /\ UNCHANGED <<does, sessions, memory, disk, past>>

(***************************************************************************)
(* The specification.                                                      *)
(***************************************************************************)
AnswerSignIn(d) ==
  \E f \in calls[d] :
    \/ TokenRead(d, f) \/ Hydrated(d, f) \/ HydrateFails(d, f)
    \/ LoginAnswered(d, f) \/ TotpAnswered(d, f) \/ Registered(d, f) \/ SignInFails(d, f)
    \/ EscrowAnswered(d, f) \/ KeyEscrowed(d, f) \/ SyncFails(d, f) \/ TokenSaved(d, f)
    \/ PresenceCleared(d, f) \/ LogoutAnswered(d, f) \/ TokenCleared(d, f)

AnswerRefresh(d) ==
  \E f \in calls[d] : HandleSet(d, f) \/ UserRefreshed(d, f) \/ RefreshFails(d, f)

Act(d) ==
  \/ Start(d) \/ Quit(d) \/ LoginTotp(d) \/ CancelTotp(d) \/ Logout(d) \/ ClearKeys(d)
  \/ RefreshUser(d) \/ PickHandle(d) \/ OpenDms(d)
  \/ \E u \in Account : \/ Register(d, u) \/ StageKey(d, u) \/ RestoreKey(d, u)
                        \/ \E pw \in {0, account[u].pw} : Login(d, u, pw)

SignInNext ==
  \/ \E d \in Device : AnswerSignIn(d) \/ AnswerRefresh(d) \/ PollGate(d) \/ Act(d)
  \/ \E u \in Account : ResetPassword(u) \/ VerifyEmail(u)

\* Requests are answered or fail, and the gate's timer runs.
SignInFairness ==
  \A d \in Device : WF_signInVars(AnswerSignIn(d)) /\ WF_signInVars(AnswerRefresh(d)) /\ WF_signInVars(PollGate(d))

SignInSpec == SignInInit /\ [][SignInNext]_signInVars /\ SignInFairness

(***************************************************************************)
(* Properties.                                                             *)
(***************************************************************************)
\* The slot of an account, and its escrow, hold the pair of that account and of
\* no other, whoever signs in and out on the devices and wherever it stops,
\* unless a file of another account was put there by hand.
OwnKeyOnly ==
  \A u \in Account \ adopted :
    /\ \A d \in Device : slot[d][u] \in {None, u}
    /\ account[u].escrow = None \/ account[u].escrow.key = u

\* When no call is out, everything about the session agrees: signed in, the
\* store's user and token, the token of the requests, the owner of the keys and
\* the token the next start will read; signed out, all of them are gone.
SignInIsWhole ==
  \A d \in started : calls[d] = {} =>
    LET s == store[d] IN
    CASE s.status = "authenticated" ->
           /\ s.user # None /\ s.token # None /\ s.user.id = s.token.of
           /\ api[d] = s.token /\ active[d] = s.token.of /\ ReadToken(d) = s.token
      [] s.status = "totp-required" ->
           s.challenge # None /\ stash[d] # None /\ api[d] = None /\ active[d] = None
      [] OTHER -> /\ s.status = "unauthenticated" /\ s.token = None /\ stash[d] = None
                  /\ api[d] = None /\ active[d] = None /\ ReadToken(d) = None

\* Somebody has the pair of u: a slot, a staging slot, or the escrow.
Held(u) ==
  \/ account[u].escrow # None /\ account[u].escrow.key = u
  \/ \E d \in Device : staged[d] = u \/ \E v \in Account : slot[d][v] = u

\* The last copy of a pair is lost only when a user clears it or puts another in
\* its place, or the password that opens the escrow is reset.
KeysAreKept ==
  [][\A u \in Account : Held(u) /\ ~Held(u)' =>
       \/ ResetPassword(u)
       \/ \E d \in Device : \/ ClearKeys(d)
                            \/ \E k \in Account : StageKey(d, k) \/ RestoreKey(d, k)]_signInVars

\* The loader is up, or the gate is, though the link of the mail was followed.
KeptWaiting(d) ==
  \/ store[d].status = "loading"
  \/ Shown(d) = "verify" /\ account[store[d].user.id].verified /\ api[d] \in sessions

\* No screen is final: the loader goes, and the gate opens for one who has
\* followed the link of the mail, as long as the session lasts.
ScreensMoveOn == \A d \in Device : KeptWaiting(d) ~> ~KeptWaiting(d)
=============================================================================
