------------------------------- MODULE RoomE2EE -------------------------------
(***************************************************************************)
(* apps/client/src/renderer/src/lib/room-e2ee.ts with the join and leave   *)
(* of screens/InRoomScreen.tsx: how the participants of a call come to     *)
(* share the key that encrypts its media.                                  *)
(*                                                                         *)
(* A session is one call of one client: it connects, reads whether its     *)
(* user owns the room, starts the protocol, and ends for good; coming back *)
(* is another session.  Messages travel over LiveKit's reliable data       *)
(* channel: each is delivered once to a session that is there, in any      *)
(* order between senders, and lost with a session that is not.  What       *)
(* setRoomKey comes to is left out: the protocol goes on as if it worked.  *)
(***************************************************************************)
EXTENDS Naturals

CONSTANTS
  User,
  Session,
  UserOf,         \* UserOf[s]: the user of session s; the identity in the call
  FirstOwner,     \* who owns the room at the start
  NoKey,
  Faults,         \* what may be wrong for a call: see faults
  \* KEY_REQUEST_MAX_ATTEMPTS, 5 in the code.
  MaxAttempts,
  \* Bounds.
  Heir,           \* the users the room is handed over to
  Losing,         \* the sessions that may lose their connection
  Watched         \* the pairs <<asker, holder>> that KeyArrives speaks of

ASSUME SessionAssumption ==
  /\ UserOf \in [Session -> User]
  /\ FirstOwner \in User /\ Heir \subseteq User
  /\ NoKey \notin Session
  /\ MaxAttempts \in Nat
  /\ Faults \subseteq SUBSET {"publishing", "metadata"}

VARIABLES
  faults,     \* what does not work in this call, settled from the start
  owner,      \* Room.ownerId
  phase,      \* phase[s]: not yet in the call, connected, listening,
              \* stopped, or out without having been stopped
  isOwner,    \* opts.isOwner: what the server said when s asked
  roomKey,    \* roomKey[s]: a key is named after the session that drew it
  attempts,   \* requestAttempts
  timer,      \* retryTimer is set
  sending,    \* sendKeyRequest is awaiting its broadcast
  welcome,    \* <<h, s>>: h's timer to offer its key to s, who just connected
  net         \* data messages under way

session == <<phase, isOwner>>
asking == <<attempts, timer, sending>>
vars == <<faults, owner, session, roomKey, asking, welcome, net>>

Key == Session \cup {NoKey}
Message ==
  [kind : {"key-request"}, from : Session, to : Session] \cup
  [kind : {"key-offer"}, from : Session, to : Session, key : Session]

TypeOK ==
  /\ faults \in Faults
  /\ owner \in User
  /\ phase \in [Session -> {"new", "connected", "on", "stopped", "out"}]
  /\ isOwner \in [Session -> BOOLEAN]
  /\ roomKey \in [Session -> Key]
  /\ attempts \in [Session -> 0 .. MaxAttempts]
  /\ timer \in [Session -> BOOLEAN]
  /\ sending \in [Session -> BOOLEAN]
  /\ welcome \subseteq Session \X Session
  /\ net \subseteq Message

\* Publishing may fail while the session is in the call; the settings of the
\* server let nobody set their metadata.
Unreliable == "publishing" \in faults
MetadataLocked == "metadata" \in faults

\* Its public key is in its metadata: start() sets it before it listens.
HasMeta(s) == ~MetadataLocked /\ phase[s] = "on"

InCall(s) == phase[s] \in {"connected", "on"}
HasKey(s) == roomKey[s] # NoKey

Init ==
  /\ faults \in Faults
  /\ owner = FirstOwner
  /\ phase = [s \in Session |-> "new"]
  /\ isOwner = [s \in Session |-> FALSE]
  /\ roomKey = [s \in Session |-> NoKey]
  /\ attempts = [s \in Session |-> 0]
  /\ timer = [s \in Session |-> FALSE]
  /\ sending = [s \in Session |-> FALSE]
  /\ welcome = {}
  /\ net = {}

-----------------------------------------------------------------------------
(* Joining and leaving.                                                    *)

\* The room's owner hands it over (rooms/routes.ts); sessions are not told.
Transfer(u) ==
  /\ u # owner
  /\ owner' = u
  /\ UNCHANGED <<faults, session, roomKey, asking, welcome, net>>

\* Once s is gone, messages and offers from it and to it reach nobody.
Forget(s) ==
  /\ net' = {m \in net : m.from # s /\ m.to # s}
  /\ welcome' = {w \in welcome : w[1] # s /\ w[2] # s}

\* onParticipantConnected of everyone listening: a session with the owner's
\* role and a key sets a timer to offer it.
Welcomes(s) == {h \in Session \ {s} : phase[h] = "on" /\ isOwner[h] /\ HasKey(h)} \X {s}

\* roomWrapper.join.  An identity is in the call once: LiveKit disconnects
\* another session of the same user first (Cut).
Join(s) ==
  /\ phase[s] = "new"
  /\ \A o \in Session : UserOf[o] = UserOf[s] => ~InCall(o)
  /\ phase' = [phase EXCEPT ![s] = "connected"]
  /\ welcome' = welcome \cup Welcomes(s)
  /\ UNCHANGED <<faults, owner, isOwner, roomKey, asking, net>>

\* api.getRoom, then start() of a RoomE2EE made with the answer: the listeners,
\* then a fresh key of one's own or the first request at once.  Between the
\* answer and the listeners setMetadata is awaited; nothing else of the session
\* is visible until it listens.
Start(s) ==
  /\ phase[s] = "connected"
  /\ phase' = [phase EXCEPT ![s] = "on"]
  /\ isOwner' = [isOwner EXCEPT ![s] = (UserOf[s] = owner)]
  /\ IF UserOf[s] = owner
     THEN roomKey' = [roomKey EXCEPT ![s] = s] /\ UNCHANGED timer
     ELSE timer' = [timer EXCEPT ![s] = TRUE] /\ UNCHANGED roomKey
  /\ UNCHANGED <<faults, owner, attempts, sending, welcome, net>>

\* handleLeave: stop() clears the timer and the attempts, then the call ends.
Leave(s) ==
  /\ phase[s] = "on"
  /\ phase' = [phase EXCEPT ![s] = "stopped"]
  /\ timer' = [timer EXCEPT ![s] = FALSE]
  /\ attempts' = [attempts EXCEPT ![s] = 0]
  /\ Forget(s)
  /\ UNCHANGED <<faults, owner, isOwner, roomKey, sending>>

\* handleLeave before the protocol started.
LeaveEarly(s) ==
  /\ phase[s] = "connected"
  /\ phase' = [phase EXCEPT ![s] = "out"]
  /\ Forget(s)
  /\ UNCHANGED <<faults, owner, isOwner, roomKey, asking>>

\* The connection is lost for good, or another session of the user takes its
\* place: nothing is stopped.
Cut(s) ==
  /\ s \in Losing /\ InCall(s)
  /\ phase' = [phase EXCEPT ![s] = "out"]
  /\ Forget(s)
  /\ UNCHANGED <<faults, owner, isOwner, roomKey, asking>>

-----------------------------------------------------------------------------
(* Asking for the key.                                                     *)

\* Variant, as all definitions called so only for the mutation runs: the next
\* attempt is not scheduled.
RequestSentOnce(s) ==
  /\ sending[s]
  /\ sending' = [sending EXCEPT ![s] = FALSE]
  /\ UNCHANGED <<faults, owner, session, roomKey, attempts, timer, welcome, net>>

\* Variant: whoever gave up draws a key.
SendKeyRequestOrDraw(s) ==
  /\ timer[s]
  /\ timer' = [timer EXCEPT ![s] = FALSE]
  /\ IF HasKey(s) \/ attempts[s] >= MaxAttempts
     THEN /\ roomKey' = [roomKey EXCEPT ![s] = IF HasKey(s) THEN @ ELSE s]
          /\ UNCHANGED <<attempts, sending, net>>
     ELSE /\ UNCHANGED roomKey /\ attempts' = [attempts EXCEPT ![s] = @ + 1]
          /\ \/ /\ InCall(s)
                /\ sending' = [sending EXCEPT ![s] = TRUE]
                /\ net' = net \cup {[kind |-> "key-request", from |-> s, to |-> o] :
                                      o \in {o \in Session \ {s} : InCall(o)}}
             \/ /\ ~InCall(s) \/ Unreliable
                /\ UNCHANGED <<sending, net>>
  /\ UNCHANGED <<faults, owner, session, welcome>>

\* The timer fires: with a key, or after the last attempt, that is the end;
\* otherwise the request goes to everyone in the call.  A session that is out
\* has no connection to publish on: publishData throws.
SendKeyRequest(s) ==
  /\ timer[s]
  /\ timer' = [timer EXCEPT ![s] = FALSE]
  /\ IF HasKey(s) \/ attempts[s] >= MaxAttempts
     THEN UNCHANGED <<attempts, sending, net>>
     ELSE /\ attempts' = [attempts EXCEPT ![s] = @ + 1]
          /\ \/ /\ InCall(s)
                /\ sending' = [sending EXCEPT ![s] = TRUE]
                /\ net' = net \cup {[kind |-> "key-request", from |-> s, to |-> o] :
                                      o \in {o \in Session \ {s} : InCall(o)}}
             \/ /\ ~InCall(s) \/ Unreliable
                /\ UNCHANGED <<sending, net>>
  /\ UNCHANGED <<faults, owner, session, roomKey, welcome>>

\* The broadcast is done: the next attempt is scheduled.
RequestSent(s) ==
  /\ sending[s]
  /\ sending' = [sending EXCEPT ![s] = FALSE]
  /\ timer' = [timer EXCEPT ![s] = TRUE]
  /\ UNCHANGED <<faults, owner, session, roomKey, attempts, welcome, net>>

\* The call ended during the broadcast and publishData throws: sendKeyRequest
\* ends there.
RequestFailed(s) ==
  /\ sending[s] /\ ~InCall(s)
  /\ sending' = [sending EXCEPT ![s] = FALSE]
  /\ UNCHANGED <<faults, owner, session, roomKey, attempts, timer, welcome, net>>

-----------------------------------------------------------------------------
(* Handing the key out.                                                    *)

Offer(h, s) == [kind |-> "key-offer", from |-> h, to |-> s, key |-> roomKey[h]]

\* Variant: only the owner's session answers.
HandleKeyRequestByOwner(m) ==
  /\ m.kind = "key-request"
  /\ net' = (net \ {m}) \cup
       (IF phase[m.to] = "on" /\ isOwner[m.to] /\ HasKey(m.to) THEN {Offer(m.to, m.from)} ELSE {})
  /\ UNCHANGED <<faults, owner, session, roomKey, asking, welcome>>

\* A key-request reaches m.to: whoever listens and has the key answers it.
HandleKeyRequest(m) ==
  /\ m.kind = "key-request"
  /\ \/ net' = (net \ {m}) \cup
          (IF phase[m.to] = "on" /\ HasKey(m.to) THEN {Offer(m.to, m.from)} ELSE {})
     \/ Unreliable /\ net' = net \ {m}
  /\ UNCHANGED <<faults, owner, session, roomKey, asking, welcome>>

\* A key-offer reaches m.to: the first one wins and ends the retries.
HandleKeyOffer(m) ==
  /\ m.kind = "key-offer"
  /\ net' = net \ {m}
  /\ IF phase[m.to] = "on" /\ ~HasKey(m.to)
     THEN /\ roomKey' = [roomKey EXCEPT ![m.to] = m.key]
          /\ timer' = [timer EXCEPT ![m.to] = FALSE]
     ELSE UNCHANGED <<roomKey, timer>>
  /\ UNCHANGED <<faults, owner, session, attempts, sending, welcome>>

\* The 750 ms after a participant connected are over: offerKeyTo, which needs
\* the newcomer's metadata.
OfferKeyTo(h, s) ==
  /\ <<h, s>> \in welcome
  /\ welcome' = welcome \ {<<h, s>>}
  /\ \/ net' = net \cup (IF HasMeta(s) THEN {Offer(h, s)} ELSE {})
     \/ Unreliable /\ UNCHANGED net
  /\ UNCHANGED <<faults, owner, session, roomKey, asking>>

Next ==
  \/ \E u \in Heir : Transfer(u)
  \/ \E s \in Session :
       \/ Join(s) \/ Start(s) \/ Leave(s) \/ LeaveEarly(s) \/ Cut(s)
       \/ SendKeyRequest(s) \/ RequestSent(s) \/ RequestFailed(s)
       \/ \E h \in Session : OfferKeyTo(h, s)
  \/ \E m \in net : HandleKeyRequest(m) \/ HandleKeyOffer(m)

\* Timers fire, awaited calls are answered and messages arrive.  Nobody has to
\* join, leave or hand the room over, and start() may never be reached.
Fairness ==
  /\ \A s \in Session : /\ WF_vars(SendKeyRequest(s))
                        /\ WF_vars(RequestSent(s) \/ RequestFailed(s))
  /\ WF_vars(\E m \in net : HandleKeyRequest(m) \/ HandleKeyOffer(m))

Spec == Init /\ [][Next]_vars
FairSpec == Spec /\ Fairness

-----------------------------------------------------------------------------
(* Properties.                                                             *)

\* A member who listens without a key and has attempts left has one coming
\* (sendKeyRequest re-arms itself, whatever arrives between broadcast and
\* answer) as long as publishing works.
KeepsAsking ==
  ~Unreliable => \A s \in Session :
    phase[s] = "on" /\ ~HasKey(s) /\ attempts[s] < MaxAttempts => timer[s] \/ sending[s]

\* Every key in use was drawn by a session that owned the room when it asked:
\* no member's session draws one, also when nobody answers it ("Owner
\* generates; members receive").
KeysComeFromOwners == \A s \in Session : HasKey(s) => isOwner[roomKey[s]]

\* Where publishing works, a member with an attempt left gets a key if it and some holder stay: also
\* when the holder only becomes one after the first requests, and when the
\* holder is no owner.
KeyArrives ==
  \A s, h \in Session : <<s, h>> \in Watched =>
    ((/\ ~Unreliable
      /\ phase[s] = "on" /\ ~HasKey(s) /\ attempts[s] < MaxAttempts
      /\ phase[h] = "on" /\ HasKey(h))
       ~> (HasKey(s) \/ ~InCall(s) \/ ~InCall(h)))
=============================================================================
