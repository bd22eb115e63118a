---------------------------- MODULE ChatTransport ----------------------------
(***************************************************************************)
(* apps/client/src/renderer/src/lib/chat-transport.ts with the effects of  *)
(* App.tsx, RoomChatPanel.tsx and ConnectionBanner.tsx that use it: the    *)
(* one WebSocket of a signed-in client, its reconnects, and the chat       *)
(* threads that the open panels want to hear.                              *)
(*                                                                         *)
(* Every sign-in has a token of its own and so a transport of its own;     *)
(* sockets of a former one may still be closing.  The other end of a       *)
(* socket is the gateway (ChatGateway): here it accepts or refuses, and    *)
(* carries out commands, those on rooms after an access check that may     *)
(* let later ones overtake.  Backoff delays are left out.                  *)
(***************************************************************************)
EXTENDS Naturals, Sequences, SequencesExt

CONSTANTS
  Login,          \* sign-ins; each is used once, as its token is
  Stale,          \* the logins whose token the server refuses (4401)
  Thread, Dm,     \* threads; access to those in Dm is checked without awaiting
  Panel,          \* chat panels the screens may have open
  ThreadOf,       \* ThreadOf[p]: the thread of panel p
  Sock,           \* bound: sockets in use or still closing
  NoLogin, NoSock,
  \* Bounds.
  MaxDrops,       \* connections that fail or are lost
  MaxQueue        \* commands on their way to the server

ASSUME TransportAssumption ==
  /\ Stale \subseteq Login /\ NoLogin \notin Login
  /\ Dm \subseteq Thread /\ ThreadOf \in [Panel -> Thread]
  /\ NoSock \notin Sock
  /\ MaxDrops \in Nat /\ MaxQueue \in Nat

VARIABLES
  instance,   \* _instance, by its login
  fresh,      \* logins not used yet
  mounted,    \* the open panels
  status,     \* the connection store's status
  \* The fields of the transport of each login.
  closed, ws, everOpened, subscribed,
  timer,      \* reconnectTimer is set
  heartbeat,  \* heartbeatTimer is set
  \* WebSocket objects.
  at,         \* at[s]: where socket s is in its life; "none" when it is nobody's
  of,         \* of[s]: the login whose transport made it
  refused,    \* refused[s]: it is to close with code 4401
  \* The gateway's side of them.
  up,         \* up[s]: commands on their way
  checking,   \* checking[s]: room commands awaiting their access check
  serving,    \* serving[s]: threads the gateway has s subscribed to
  \* History and bound.
  muddled,    \* muddled[s]: rooms whose commands overlapped, or were refused
  drops       \* connections failed or lost so far

app == <<instance, fresh, mounted>>
timers == <<timer, heartbeat>>
sockets == <<at, of, refused>>
server == <<up, checking, serving, muddled>>
vars == <<app, status, closed, ws, everOpened, subscribed, timers, sockets, server, drops>>

Command == [verb : {"subscribe", "unsubscribe"}, thread : Thread]

TypeOK ==
  /\ instance \in Login \cup {NoLogin}
  /\ fresh \subseteq Login
  /\ mounted \subseteq Panel
  /\ status \in {"idle", "connecting", "open", "reconnecting"}
  /\ closed \in [Login -> BOOLEAN]
  /\ ws \in [Login -> Sock \cup {NoSock}]
  /\ everOpened \in [Login -> BOOLEAN]
  /\ subscribed \in [Login -> SUBSET Thread]
  /\ timer \in [Login -> BOOLEAN]
  /\ heartbeat \in [Login -> BOOLEAN]
  /\ at \in [Sock -> {"none", "connecting", "open", "closing", "failed"}]
  /\ of \in [Sock -> Login \cup {NoLogin}]
  /\ refused \in [Sock -> BOOLEAN]
  /\ up \in [Sock -> Seq(Command)]
  /\ checking \in [Sock -> SUBSET Command]
  /\ serving \in [Sock -> SUBSET Thread]
  /\ muddled \in [Sock -> SUBSET Thread]
  /\ drops \in 0 .. MaxDrops

Init ==
  /\ instance = NoLogin
  /\ fresh = Login
  /\ mounted = {}
  /\ status = "idle"
  /\ closed = [l \in Login |-> FALSE]
  /\ ws = [l \in Login |-> NoSock]
  /\ everOpened = [l \in Login |-> FALSE]
  /\ subscribed = [l \in Login |-> {}]
  /\ timer = [l \in Login |-> FALSE]
  /\ heartbeat = [l \in Login |-> FALSE]
  /\ at = [s \in Sock |-> "none"]
  /\ of = [s \in Sock |-> NoLogin]
  /\ refused = [s \in Sock |-> FALSE]
  /\ up = [s \in Sock |-> <<>>]
  /\ checking = [s \in Sock |-> {}]
  /\ serving = [s \in Sock |-> {}]
  /\ muddled = [s \in Sock |-> {}]
  /\ drops = 0

\* The readyState of the transport's socket is OPEN.
IsOpen(l) == ws[l] # NoSock /\ at[ws[l]] = "open"

\* sendCmd: a command is dropped unless the socket is open.
Send(l, verb, t) ==
  up' = IF IsOpen(l) THEN [up EXCEPT ![ws[l]] = Append(@, [verb |-> verb, thread |-> t])]
                     ELSE up

\* Bound: the panels wait while so many commands are on their way.
RoomToSend(l) == IsOpen(l) => Len(up[ws[l]]) < MaxQueue

\* connect() of transport l, with socket s.
Connect(l, s) ==
  /\ at[s] = "none"
  /\ at' = [at EXCEPT ![s] = "connecting"]
  /\ of' = [of EXCEPT ![s] = l]
  /\ refused' = [refused EXCEPT ![s] = FALSE]
  /\ ws' = [ws EXCEPT ![l] = s]
  /\ status' = IF everOpened[l] THEN "reconnecting" ELSE "connecting"

\* What is still on its way on a socket that is no longer open is of no more
\* interest here: ChatGateway says what becomes of it.
Hangup(s) ==
  /\ up' = [up EXCEPT ![s] = <<>>]
  /\ checking' = [checking EXCEPT ![s] = {}]
  /\ serving' = [serving EXCEPT ![s] = {}]
  /\ muddled' = [muddled EXCEPT ![s] = {}]

-----------------------------------------------------------------------------
(* The application.                                                        *)

\* The user signs in, or a stored token is tried: ensureTransport makes a
\* transport and starts it.
SignIn(l, s) ==
  /\ instance = NoLogin /\ l \in fresh
  /\ instance' = l
  /\ fresh' = fresh \ {l}
  /\ Connect(l, s)
  /\ UNCHANGED <<mounted, closed, everOpened, subscribed, timers, server, drops>>

\* Variant with a plausible fault, as all definitions called a variant here,
\* only for the mutation runs: stop() does not say that it is closed.
StopForNow(l) ==
  /\ ws' = [ws EXCEPT ![l] = NoSock]
  /\ timer' = [timer EXCEPT ![l] = FALSE]
  /\ heartbeat' = [heartbeat EXCEPT ![l] = FALSE]
  /\ status' = "idle"
  /\ IF ws[l] = NoSock
     THEN UNCHANGED <<at, server>>
     ELSE /\ at' = [at EXCEPT ![ws[l]] = IF @ = "open" THEN "closing" ELSE "failed"]
          /\ Hangup(ws[l])
  /\ UNCHANGED closed

\* stop(): a socket that is closed while it connects just fails.
Stop(l) ==
  /\ closed' = [closed EXCEPT ![l] = TRUE]
  /\ ws' = [ws EXCEPT ![l] = NoSock]
  /\ timer' = [timer EXCEPT ![l] = FALSE]
  /\ heartbeat' = [heartbeat EXCEPT ![l] = FALSE]
  /\ status' = "idle"
  /\ IF ws[l] = NoSock
     THEN UNCHANGED <<at, server>>
     ELSE /\ at' = [at EXCEPT ![ws[l]] = IF @ = "open" THEN "closing" ELSE "failed"]
          /\ Hangup(ws[l])

\* The token goes: the panels unmount, disconnectTransport stops the transport.
SignOut ==
  /\ instance # NoLogin
  /\ instance' = NoLogin
  /\ mounted' = {}
  /\ subscribed' = [subscribed EXCEPT ![instance] = {}]
  /\ Stop(instance)
  /\ UNCHANGED <<fresh, everOpened, of, refused, drops>>

\* RoomChatPanel's effect and its cleanup.
Mount(p) ==
  /\ instance # NoLogin /\ p \notin mounted /\ RoomToSend(instance)
  /\ mounted' = mounted \cup {p}
  /\ subscribed' = [subscribed EXCEPT ![instance] = @ \cup {ThreadOf[p]}]
  /\ Send(instance, "subscribe", ThreadOf[p])
  /\ UNCHANGED <<instance, fresh, status, closed, ws, everOpened, timers, sockets,
                 checking, serving, muddled, drops>>

Unmount(p) ==
  /\ p \in mounted /\ RoomToSend(instance)
  /\ mounted' = mounted \ {p}
  /\ subscribed' = [subscribed EXCEPT ![instance] = @ \ {ThreadOf[p]}]
  /\ Send(instance, "unsubscribe", ThreadOf[p])
  /\ UNCHANGED <<instance, fresh, status, closed, ws, everOpened, timers, sockets,
                 checking, serving, muddled, drops>>

\* Variants: a socket that is still connecting is no reason not to connect; the
\* timer is cleared and nothing connects.
RetryNowAnyway(s) ==
  /\ instance # NoLogin /\ status = "reconnecting"
  /\ ~closed[instance] /\ ~IsOpen(instance)
  /\ timer' = [timer EXCEPT ![instance] = FALSE]
  /\ Connect(instance, s)
  /\ UNCHANGED <<app, closed, everOpened, subscribed, heartbeat, server, drops>>

RetryNowLater(s) ==
  /\ instance # NoLogin /\ status = "reconnecting"
  /\ ~closed[instance] /\ ws[instance] = NoSock
  /\ timer' = [timer EXCEPT ![instance] = FALSE]
  /\ UNCHANGED <<app, status, closed, ws, everOpened, subscribed, heartbeat, sockets,
                 server, drops>>

\* "Retry now" on the offline banner.  With a socket that is not open there is
\* no timer and nothing happens.
RetryNow(s) ==
  /\ instance # NoLogin /\ status = "reconnecting"
  /\ ~closed[instance] /\ ws[instance] = NoSock
  /\ timer' = [timer EXCEPT ![instance] = FALSE]
  /\ Connect(instance, s)
  /\ UNCHANGED <<app, closed, everOpened, subscribed, heartbeat, server, drops>>

-----------------------------------------------------------------------------
(* Timers and events of the sockets.                                       *)

\* The timer of scheduleReconnect fires; stop() has cleared that of a transport
\* that is closed.
Reconnect(l, s) ==
  /\ timer[l]
  /\ timer' = [timer EXCEPT ![l] = FALSE]
  /\ IF closed[l] THEN UNCHANGED <<sockets, ws, status>> ELSE Connect(l, s)
  /\ UNCHANGED <<app, closed, everOpened, subscribed, heartbeat, server, drops>>

\* What the open event does to the transport.
Opening(s) ==
  /\ at[s] = "connecting"
  /\ at' = [at EXCEPT ![s] = "open"]
  /\ everOpened' = [everOpened EXCEPT ![of[s]] = TRUE]
  /\ heartbeat' = [heartbeat EXCEPT ![of[s]] = TRUE]
  /\ status' = "open"
  /\ UNCHANGED <<app, closed, ws, subscribed, timer, of, refused, drops>>

\* Variant: the threads are not asked for again.
OpenedForgetful(s) == Opening(s) /\ UNCHANGED server

\* The open event: all remembered threads are subscribed again, one by one.
Opened(s) ==
  /\ Opening(s)
  /\ \E threads \in SetToSeqs(subscribed[of[s]]) :
       up' = [up EXCEPT ![s] =
                [n \in DOMAIN threads |-> [verb |-> "subscribe", thread |-> threads[n]]]]
  /\ UNCHANGED <<checking, serving, muddled>>

\* The server closes the socket of a token it refuses; the client may have
\* begun to close it on its own.
Refuse(s) ==
  /\ at[s] \in {"open", "closing"} /\ of[s] \in Stale /\ ~refused[s]
  /\ at' = [at EXCEPT ![s] = "closing"]
  /\ refused' = [refused EXCEPT ![s] = TRUE]
  /\ Hangup(s)
  /\ UNCHANGED <<app, status, closed, ws, everOpened, subscribed, timers, of, drops>>

\* An attempt fails, or the connection is lost.
Drop(s) ==
  /\ at[s] \in {"connecting", "open"} /\ drops < MaxDrops
  /\ drops' = drops + 1
  /\ at' = [at EXCEPT ![s] = "failed"]
  /\ Hangup(s)
  /\ UNCHANGED <<app, status, closed, ws, everOpened, subscribed, timers, of, refused>>

\* Variant: only a connection that was open is taken up again.
ReconnectsIfOpened(s) == ~refused[s] /\ ~closed[of[s]] /\ heartbeat[of[s]]

\* Whether a close event schedules a reconnect.
Reconnects(s) == ~refused[s] /\ ~closed[of[s]]

\* The close event.  Code 4401 ends the transport and resets the status.
Closed(s) ==
  LET l == of[s]
  IN  /\ at[s] \in {"closing", "failed"}
      /\ heartbeat' = [heartbeat EXCEPT ![l] = FALSE]
      /\ ws' = [ws EXCEPT ![l] = NoSock]
      /\ closed' = [closed EXCEPT ![l] = @ \/ refused[s]]
      /\ timer' = [timer EXCEPT ![l] = @ \/ Reconnects(s)]
      /\ status' = IF refused[s] THEN "idle"
                   ELSE IF Reconnects(s) THEN "reconnecting" ELSE status
      /\ at' = [at EXCEPT ![s] = "none"]
      /\ of' = [of EXCEPT ![s] = NoLogin]
      /\ refused' = [refused EXCEPT ![s] = FALSE]
      /\ UNCHANGED <<app, everOpened, subscribed, server, drops>>

-----------------------------------------------------------------------------
(* The gateway.                                                            *)

Apply(s, c) ==
  serving' = [serving EXCEPT ![s] = IF c.verb = "subscribe" THEN @ \cup {c.thread}
                                                            ELSE @ \ {c.thread}]

\* A command arrives; one on a DM takes effect at once.
Receive(s) ==
  LET c == Head(up[s])
  IN  /\ at[s] = "open" /\ up[s] # <<>>
      /\ up' = [up EXCEPT ![s] = Tail(@)]
      /\ IF c.thread \in Dm
         THEN Apply(s, c) /\ UNCHANGED <<checking, muddled>>
         ELSE /\ checking' = [checking EXCEPT ![s] = @ \cup {c}]
              /\ muddled' = [muddled EXCEPT ![s] =
                   IF \E other \in checking[s] : other.thread = c.thread
                   THEN @ \cup {c.thread} ELSE @]
              /\ UNCHANGED serving
      /\ UNCHANGED <<app, status, closed, ws, everOpened, subscribed, timers, sockets, drops>>

\* The access check of a room command is answered: carried out or refused.
Checked(s, c) ==
  /\ c \in checking[s] /\ at[s] = "open"
  /\ checking' = [checking EXCEPT ![s] = @ \ {c}]
  /\ \/ Apply(s, c) /\ UNCHANGED muddled
     \/ muddled' = [muddled EXCEPT ![s] = @ \cup {c.thread}] /\ UNCHANGED serving
  /\ UNCHANGED <<app, status, closed, ws, everOpened, subscribed, timers, sockets, up, drops>>

Next ==
  \/ \E l \in Login, s \in Sock : SignIn(l, s) \/ Reconnect(l, s)
  \/ SignOut
  \/ \E p \in Panel : Mount(p) \/ Unmount(p)
  \/ \E s \in Sock :
       \/ RetryNow(s) \/ Opened(s) \/ Refuse(s) \/ Drop(s) \/ Closed(s) \/ Receive(s)
       \/ \E c \in checking[s] : Checked(s, c)

\* Timers fire, and an attempt to connect ends one way or the other.  Nobody
\* has to sign in, to stay or to press "Retry now", and nothing need be lost.
Fairness ==
  /\ \A l \in Login : WF_vars(\E s \in Sock : Reconnect(l, s))
  /\ \A s \in Sock : WF_vars(Opened(s)) /\ WF_vars(Closed(s))

Spec == Init /\ [][Next]_vars
FairSpec == Spec /\ Fairness

-----------------------------------------------------------------------------
(* Properties.                                                             *)

\* "One transport per logged-in user": whatever is retried, lost or signed out
\* and in again, there is never a second connection, and the one there is
\* belongs to the current transport, which knows it; no heartbeat goes on
\* without a socket.
OneLiveSocket ==
  /\ \A s \in Sock : at[s] \in {"connecting", "open"} =>
       instance # NoLogin /\ of[s] = instance /\ ws[instance] = s
  /\ \A l \in Login : heartbeat[l] => l = instance /\ ws[l] # NoSock

\* A signed-in client that was not refused is never left with neither a socket
\* nor a timer to get one, whichever of close, "Retry now" and the timer comes
\* first; and it never has both.
NeverStranded ==
  instance # NoLogin /\ ~closed[instance] => (ws[instance] = NoSock <=> timer[instance])

\* Both: at any time a signed-in client that was not refused has exactly one
\* way to the server, be it a socket or a timer that will make one.
OneWayToServer == OneLiveSocket /\ NeverStranded

\* The banner promises nothing that is not so: the status is "open" only while
\* the current transport has an open socket or is about to hear that it lost
\* it, and "reconnecting" only while it is on the way to one.
StatusIsHonest ==
  /\ status = "open" => /\ instance # NoLogin /\ ws[instance] # NoSock
                        /\ at[ws[instance]] \in {"open", "closing", "failed"}
  /\ status \in {"connecting", "reconnecting"} =>
       instance # NoLogin /\ ~closed[instance] /\ ~IsOpen(instance)

\* "Subscriptions are remembered so we re-subscribe after a reconnect": once
\* nothing is on its way, the gateway serves an open socket exactly the threads
\* that an open panel shows, through any number of reconnects and panels opened
\* and closed while there was no connection; but for rooms whose commands were
\* refused, or were under way together and may have overtaken each other.
PanelsAreServed ==
  instance # NoLogin /\ IsOpen(instance) =>
    LET s == ws[instance]
    IN  up[s] = <<>> /\ checking[s] = {} =>
          serving[s] \ muddled[s] = {ThreadOf[p] : p \in mounted} \ muddled[s]

\* "The transport must exist for the entire logged-in session": a client that
\* stays signed in and is not refused gets its connection back once no more
\* connections fail.
ConnectionReturns ==
  \A l \in Login : (instance = l) ~> (IsOpen(l) \/ closed[l])
=============================================================================
