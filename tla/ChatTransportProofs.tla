------------------------- MODULE ChatTransportProofs -------------------------
(***************************************************************************)
(* Proofs about ChatTransport for any number of sign-ins, sockets, panels  *)
(* and lost connections: there is one live connection and it is known to   *)
(* the current transport, a signed-in client always has a socket or a      *)
(* timer, and the status shown is true; then, that the gateway serves the  *)
(* threads that the transport remembers and the panels show.  What is sent *)
(* on the sockets matters to the last only, and has an invariant of its    *)
(* own on top of the first.  And about Messages, whose panel uses the      *)
(* transport: the bubbles of texts that were sent, its types, the list of  *)
(* messages, and their reactions and votes, for any number of messages and *)
(* a page of any size.                                                     *)
(***************************************************************************)
EXTENDS ChatTransport, Messages, SequenceTheorems, FiniteSetTheorems, TLAPS

-----------------------------------------------------------------------------
(* The invariant: how transports, their sockets and their timers belong    *)
(* together.                                                               *)

LinkTypes ==
  /\ instance \in Login \cup {NoLogin}
  /\ fresh \subseteq Login
  /\ closed \in [Login -> BOOLEAN]
  /\ ws \in [Login -> Sock \cup {NoSock}]
  /\ timer \in [Login -> BOOLEAN]
  /\ heartbeat \in [Login -> BOOLEAN]
  /\ at \in [Sock -> {"none", "connecting", "open", "closing", "failed"}]
  /\ of \in [Sock -> Login \cup {NoLogin}]
  /\ refused \in [Sock -> BOOLEAN]

\* A login that was not used yet has nothing.
FreshIsUntouched ==
  \A l \in fresh : l # instance /\ ~closed[l] /\ ws[l] = NoSock /\ ~timer[l] /\ ~heartbeat[l]

\* Only the current transport has a socket, and only while it is not closed;
\* the socket is one of its own.
SocketOfInstance ==
  \A l \in Login : ws[l] # NoSock =>
    l = instance /\ ~closed[l] /\ at[ws[l]] # "none" /\ of[ws[l]] = l

\* A socket in use is that of its transport, or one that a closed transport
\* gave up and that has not had its close event.
SocketsAreOwned ==
  \A s \in Sock : at[s] # "none" =>
    /\ of[s] \in Login \ fresh
    /\ \/ ws[of[s]] = s
       \/ closed[of[s]] /\ of[s] # instance /\ at[s] \in {"closing", "failed"}

\* Only the current transport waits to reconnect, and only without a socket.
TimerOfInstance ==
  \A l \in Login : timer[l] => l = instance /\ ~closed[l] /\ ws[l] = NoSock

LinkInv ==
  /\ LinkTypes /\ FreshIsUntouched /\ SocketOfInstance /\ SocketsAreOwned /\ TimerOfInstance
  /\ OneLiveSocket /\ NeverStranded /\ StatusIsHonest

-----------------------------------------------------------------------------
(* The steps.                                                              *)

\* What the invariant is about.
links == <<instance, fresh, status, closed, ws, timers, sockets>>

LEMMA NextCases ==
  ASSUME [Next]_vars
  PROVE  \/ \E l \in Login, s \in Sock : SignIn(l, s)
         \/ \E l \in Login, s \in Sock : Reconnect(l, s)
         \/ SignOut
         \/ \E p \in Panel : Mount(p) \/ Unmount(p)
         \/ \E s \in Sock : RetryNow(s)
         \/ \E s \in Sock : Opened(s)
         \/ \E s \in Sock : Refuse(s)
         \/ \E s \in Sock : Drop(s)
         \/ \E s \in Sock : Closed(s)
         \/ \E s \in Sock : Receive(s) \/ \E c \in checking[s] : Checked(s, c)
         \/ UNCHANGED vars
  BY DEF Next

LEMMA LinkInit == Init => LinkInv
BY TransportAssumption
   DEF Init, LinkInv, LinkTypes, FreshIsUntouched, SocketOfInstance, SocketsAreOwned,
       TimerOfInstance, OneLiveSocket, NeverStranded, StatusIsHonest, IsOpen

\* The panels' commands and the gateway leave the connection alone.
LEMMA LinkSame ==
  ASSUME LinkInv, UNCHANGED links
  PROVE  LinkInv'
BY DEF links, timers, sockets, LinkInv, LinkTypes, FreshIsUntouched, SocketOfInstance,
       SocketsAreOwned, TimerOfInstance, OneLiveSocket, NeverStranded, StatusIsHonest, IsOpen

\* connect() by the current transport, when it has no socket and no timer is
\* left: the socket it takes was nobody's.
LEMMA ConnectInv ==
  ASSUME LinkInv, NEW l \in Login, NEW s \in Sock, Connect(l, s),
         instance' = l, ~closed[l], ws[l] = NoSock,
         instance \in {l, NoLogin}, l \in fresh => instance = NoLogin,
         fresh' = fresh \ {l},
         timer' = [timer EXCEPT ![l] = FALSE],
         UNCHANGED <<closed, heartbeat>>
  PROVE  LinkInv'
<1> USE TransportAssumption
    DEF LinkInv, LinkTypes, FreshIsUntouched, SocketOfInstance, SocketsAreOwned,
        TimerOfInstance, OneLiveSocket, NeverStranded, StatusIsHonest
<1>1. /\ at[s] = "none" /\ at' = [at EXCEPT ![s] = "connecting"]
      /\ of' = [of EXCEPT ![s] = l] /\ refused' = [refused EXCEPT ![s] = FALSE]
      /\ ws' = [ws EXCEPT ![l] = s]
      /\ status' \in {"connecting", "reconnecting"}
  BY DEF Connect
<1>2. LinkTypes'
  BY <1>1
<1>3. FreshIsUntouched'
  BY <1>1
<1>4. ws'[l] = s /\ at'[s] = "connecting" /\ of'[s] = l /\ s # NoSock
  BY <1>1
<1>5. \A x \in Login : x # l => ws'[x] = ws[x] /\ ws[x] = NoSock
  BY <1>1
<1>6. \A x \in Sock : x # s => at'[x] = at[x] /\ of'[x] = of[x]
  BY <1>1
<1>7. SocketOfInstance'
  BY <1>4, <1>5
<1>8. \A x \in Sock : x # s /\ at[x] # "none" =>
        of[x] # l /\ closed[of[x]] /\ of[x] # NoLogin /\ at[x] \in {"closing", "failed"}
  BY <1>5
<1>9. SocketsAreOwned'
  BY <1>4, <1>5, <1>6, <1>8
<1>10. TimerOfInstance' /\ NeverStranded'
  BY <1>4, <1>5
<1>11. OneLiveSocket'
  BY <1>4, <1>5, <1>6, <1>8
<1>12. StatusIsHonest'
  BY <1>1, <1>4 DEF IsOpen
<1> QED BY <1>2, <1>3, <1>7, <1>9, <1>10, <1>11, <1>12

LEMMA LinkStep == LinkInv /\ [Next]_vars => LinkInv'
<1> SUFFICES ASSUME LinkInv, [Next]_vars PROVE LinkInv'
  OBVIOUS
<1> USE TransportAssumption
<1>1. ASSUME NEW l \in Login, NEW s \in Sock, SignIn(l, s) PROVE LinkInv'
  <2>1. /\ ~closed[l] /\ ws[l] = NoSock /\ ~timer[l]
        /\ timer' = [timer EXCEPT ![l] = FALSE]
    BY <1>1 DEF SignIn, timers, LinkInv, LinkTypes, FreshIsUntouched
  <2> QED BY <1>1, <2>1, ConnectInv DEF SignIn, timers
<1>2. ASSUME NEW l \in Login, NEW s \in Sock, Reconnect(l, s) PROVE LinkInv'
  <2>1. l = instance /\ ~closed[l] /\ ws[l] = NoSock /\ l \notin fresh /\ l # NoLogin
    BY <1>2 DEF Reconnect, LinkInv, TimerOfInstance, FreshIsUntouched
  <2>2. fresh' = fresh \ {l} /\ instance' = l
    BY <1>2, <2>1 DEF Reconnect, app
  <2> QED BY <1>2, <2>1, <2>2, ConnectInv DEF Reconnect
<1>3. ASSUME NEW s \in Sock, RetryNow(s) PROVE LinkInv'
  <2>1. instance \in Login /\ instance \notin fresh
    BY <1>3 DEF RetryNow, LinkInv, LinkTypes, FreshIsUntouched
  <2>2. fresh' = fresh \ {instance} /\ instance' = instance
    BY <1>3, <2>1 DEF RetryNow, app
  <2> QED BY <1>3, <2>1, <2>2, ConnectInv DEF RetryNow
<1>4. ASSUME SignOut PROVE LinkInv'
  <2> DEFINE l == instance
             s == ws[l]
  <2>1. /\ l \in Login /\ instance' = NoLogin
        /\ closed' = [closed EXCEPT ![l] = TRUE]
        /\ ws' = [ws EXCEPT ![l] = NoSock]
        /\ timer' = [timer EXCEPT ![l] = FALSE]
        /\ heartbeat' = [heartbeat EXCEPT ![l] = FALSE]
        /\ status' = "idle" /\ UNCHANGED <<fresh, of, refused>>
    BY <1>4 DEF SignOut, Stop, LinkInv, LinkTypes
  <2>2. /\ at' \in [Sock -> {"none", "connecting", "open", "closing", "failed"}]
        /\ \A x \in Sock : x # s => at'[x] = at[x]
        /\ s \in Sock => at'[s] \in {"closing", "failed"}
    BY <1>4, <2>1 DEF SignOut, Stop, LinkInv, LinkTypes
  <2> USE DEF LinkInv, LinkTypes, FreshIsUntouched, SocketOfInstance, SocketsAreOwned,
              TimerOfInstance, OneLiveSocket, NeverStranded, StatusIsHonest
  <2>3. LinkTypes' /\ FreshIsUntouched'
    BY <2>1, <2>2
  <2>4. \A x \in Login : ws'[x] = NoSock /\ ~timer'[x] /\ ~heartbeat'[x]
    BY <2>1
  <2>5. SocketsAreOwned'
    BY <2>1, <2>2
  <2>6. OneLiveSocket'
    BY <2>1, <2>4, <2>5
  <2> QED BY <2>1, <2>3, <2>4, <2>5, <2>6
<1>5. ASSUME NEW s \in Sock, Opened(s) PROVE LinkInv'
  <2> DEFINE l == of[s]
  <2>1. /\ at[s] = "connecting" /\ at' = [at EXCEPT ![s] = "open"]
        /\ heartbeat' = [heartbeat EXCEPT ![l] = TRUE] /\ status' = "open"
        /\ UNCHANGED <<instance, fresh, closed, ws, timer, of, refused>>
    BY <1>5 DEF Opened, Opening, app
  <2> USE DEF LinkInv, LinkTypes, FreshIsUntouched, SocketOfInstance, SocketsAreOwned,
              TimerOfInstance, OneLiveSocket, NeverStranded, StatusIsHonest
  <2>2. l = instance /\ l # NoLogin /\ ws[l] = s /\ l \in Login \ fresh
    BY <2>1
  <2>3. LinkTypes' /\ FreshIsUntouched'
    BY <2>1, <2>2
  <2>4. SocketOfInstance' /\ SocketsAreOwned'
    BY <2>1, <2>2
  <2>5. TimerOfInstance' /\ NeverStranded'
    BY <2>1
  <2>6. OneLiveSocket'
    <3>1. \A x \in Sock : at'[x] \in {"connecting", "open"} => at[x] \in {"connecting", "open"}
      BY <2>1
    <3>2. \A x \in Login : heartbeat'[x] => heartbeat[x] \/ x = l
      BY <2>1
    <3> QED BY <2>1, <2>2, <3>1, <3>2
  <2>7. StatusIsHonest'
    BY <2>1, <2>2
  <2> QED BY <2>3, <2>4, <2>5, <2>6, <2>7
<1>6. ASSUME NEW s \in Sock, Refuse(s) \/ Drop(s) PROVE LinkInv'
  <2>1. /\ at[s] \in {"connecting", "open", "closing"}
        /\ at' = [at EXCEPT ![s] = "closing"] \/ at' = [at EXCEPT ![s] = "failed"]
        /\ refused' \in [Sock -> BOOLEAN]
        /\ UNCHANGED <<instance, fresh, status, closed, ws, timer, heartbeat, of>>
    BY <1>6 DEF Refuse, Drop, app, timers, LinkInv, LinkTypes
  <2> USE DEF LinkInv, LinkTypes, FreshIsUntouched, SocketOfInstance, SocketsAreOwned,
              TimerOfInstance, OneLiveSocket, NeverStranded, StatusIsHonest
  <2>2. LinkTypes' /\ FreshIsUntouched'
    <3>1. at' \in [Sock -> {"none", "connecting", "open", "closing", "failed"}]
      BY <2>1
    <3> QED BY <2>1, <3>1
  <2>3. SocketOfInstance' /\ SocketsAreOwned' /\ OneLiveSocket'
    BY <2>1
  <2>4. StatusIsHonest'
    BY <2>1 DEF IsOpen
  <2> QED BY <2>1, <2>2, <2>3, <2>4
<1>7. ASSUME NEW s \in Sock, Closed(s) PROVE LinkInv'
  <2> DEFINE l == of[s]
  <2>1. /\ at[s] \in {"closing", "failed"}
        /\ heartbeat' = [heartbeat EXCEPT ![l] = FALSE]
        /\ ws' = [ws EXCEPT ![l] = NoSock]
        /\ closed' = [closed EXCEPT ![l] = @ \/ refused[s]]
        /\ timer' = [timer EXCEPT ![l] = @ \/ Reconnects(s)]
        /\ status' = IF refused[s] THEN "idle"
                     ELSE IF Reconnects(s) THEN "reconnecting" ELSE status
        /\ at' = [at EXCEPT ![s] = "none"]
        /\ of' = [of EXCEPT ![s] = NoLogin]
        /\ refused' = [refused EXCEPT ![s] = FALSE]
        /\ UNCHANGED <<instance, fresh>>
    BY <1>7 DEF Closed, app
  <2> USE DEF LinkInv, LinkTypes, FreshIsUntouched, SocketOfInstance, SocketsAreOwned,
              TimerOfInstance, OneLiveSocket, NeverStranded, StatusIsHonest
  <2>2. /\ l \in Login \ fresh
        /\ \/ ws[l] = s /\ l = instance /\ ~closed[l]
           \/ closed[l] /\ l # instance /\ ws[l] = NoSock
    BY <2>1
  <2>3. /\ \A x \in Login : x # l =>
             ws'[x] = ws[x] /\ closed'[x] = closed[x] /\ timer'[x] = timer[x]
             /\ heartbeat'[x] = heartbeat[x]
        /\ ws'[l] = NoSock /\ ~heartbeat'[l]
        /\ \A x \in Sock : x # s => at'[x] = at[x] /\ of'[x] = of[x]
        /\ at'[s] = "none"
    BY <2>1, <2>2
  <2>4. (closed'[l] <=> closed[l] \/ refused[s]) /\ (timer'[l] <=> timer[l] \/ Reconnects(s))
    <3>1. closed'[l] = (closed[l] \/ refused[s])
      BY SMT, <2>1, <2>2
    <3>2. timer'[l] = (timer[l] \/ Reconnects(s))
      BY SMT, <2>1, <2>2
    <3> QED BY <3>1, <3>2
  <2>5. LinkTypes'
    <3>1. (closed[l] \/ refused[s]) \in BOOLEAN /\ (timer[l] \/ Reconnects(s)) \in BOOLEAN
      OBVIOUS
    <3>2. closed' \in [Login -> BOOLEAN] /\ timer' \in [Login -> BOOLEAN]
      BY <2>1, <3>1
    <3>3. /\ ws' \in [Login -> Sock \cup {NoSock}] /\ heartbeat' \in [Login -> BOOLEAN]
          /\ at' \in [Sock -> {"none", "connecting", "open", "closing", "failed"}]
          /\ of' \in [Sock -> Login \cup {NoLogin}] /\ refused' \in [Sock -> BOOLEAN]
      BY <2>1
    <3> QED BY <2>1, <3>2, <3>3
  <2>6. FreshIsUntouched' /\ SocketOfInstance'
    BY <2>1, <2>2, <2>3
  <2>7. SocketsAreOwned'
    <3> SUFFICES ASSUME NEW x \in Sock, at'[x] # "none"
                 PROVE  /\ of'[x] \in Login \ fresh'
                        /\ \/ ws'[of'[x]] = x
                           \/ closed'[of'[x]] /\ of'[x] # instance' /\ at'[x] \in {"closing", "failed"}
      OBVIOUS
    <3>1. x # s /\ at'[x] = at[x] /\ of'[x] = of[x]
      BY <2>3
    <3>2. closed[of[x]] => closed'[of[x]]
      BY <2>3, <2>4
    <3>3. CASE ws[of[x]] = x
      <4>1. of[x] # l
        BY <2>2, <3>1, <3>3
      <4> QED BY <2>1, <2>3, <3>1, <3>3, <4>1
    <3>4. CASE ws[of[x]] # x
      BY <2>1, <3>1, <3>2, <3>4
    <3> QED BY <3>3, <3>4
  <2>8. TimerOfInstance' /\ NeverStranded'
    <3>1. timer'[l] => l = instance /\ ~closed'[l]
      BY <2>2, <2>4 DEF Reconnects
    <3>2. l = instance => (~closed'[l] => timer'[l])
      BY <2>2, <2>4 DEF Reconnects
    <3>3. TimerOfInstance'
      BY <2>1, <2>3, <3>1
    <3>4. NeverStranded'
      <4>1. CASE l = instance
        BY <2>1, <2>3, <3>2, <4>1
      <4>2. CASE l # instance
        BY <2>1, <2>3, <4>2
      <4> QED BY <4>1, <4>2
    <3> QED BY <3>3, <3>4
  <2>9. OneLiveSocket'
    BY <2>1, <2>2, <2>3
  <2>10. StatusIsHonest'
    BY <2>1, <2>2, <2>3, <2>4 DEF Reconnects, IsOpen
  <2> QED BY <2>5, <2>6, <2>7, <2>8, <2>9, <2>10
<1>8. ASSUME NEW p \in Panel, Mount(p) \/ Unmount(p) PROVE LinkInv'
  BY <1>8, LinkSame DEF Mount, Unmount, links
<1>9. ASSUME NEW s \in Sock, Receive(s) \/ \E c \in checking[s] : Checked(s, c) PROVE LinkInv'
  BY <1>9, LinkSame DEF Receive, Checked, app, links
<1>10. ASSUME UNCHANGED vars PROVE LinkInv'
  BY <1>10, LinkSame DEF vars, app, links
<1> QED
  BY NextCases, <1>1, <1>2, <1>3, <1>4, <1>5, <1>6, <1>7, <1>8, <1>9, <1>10

-----------------------------------------------------------------------------

LEMMA LinkCorrect == Spec => []LinkInv
BY LinkInit, LinkStep, PTL DEF Spec

\* Whatever is retried, lost, signed out and in again, there is one live
\* socket at most, that of the current transport (ensureTransport, stop,
\* connect and the close event).
THEOREM OneSocketCorrect == Spec => []OneLiveSocket
<1>1. LinkInv => OneLiveSocket
  BY DEF LinkInv
<1> QED BY <1>1, LinkCorrect, PTL

\* A signed-in client that was not refused has a socket or a timer to get one,
\* never both (scheduleReconnect, retryNow and the close event).
THEOREM StrandedCorrect == Spec => []NeverStranded
<1>1. LinkInv => NeverStranded
  BY DEF LinkInv
<1> QED BY <1>1, LinkCorrect, PTL

\* Exactly one way to the server, at any time (connect, scheduleReconnect,
\* retryNow, stop and the close event).
THEOREM OneWayCorrect == Spec => []OneWayToServer
<1>1. OneLiveSocket /\ NeverStranded => OneWayToServer
  BY DEF OneWayToServer
<1> QED BY <1>1, OneSocketCorrect, StrandedCorrect, PTL

\* The status of the banner is that of the current transport's socket, also
\* when a former transport's socket has its close event late (setStatus).
THEOREM StatusCorrect == Spec => []StatusIsHonest
<1>1. LinkInv => StatusIsHonest
  BY DEF LinkInv
<1> QED BY <1>1, LinkCorrect, PTL

-----------------------------------------------------------------------------
(* The panels are served: for each thread, the last that is on its way to  *)
(* the gateway says what the transport remembers.  That is the last        *)
(* command on the socket, or the one that awaits its access check, or what *)
(* the gateway has carried out.                                            *)

Settled(queue, checks, served, wanted, t) ==
  \/ \E i \in 1 .. Len(queue) :
       /\ queue[i].thread = t /\ (queue[i].verb = "subscribe" <=> t \in wanted)
       /\ \A j \in 1 .. Len(queue) : j > i => queue[j].thread # t
  \/ /\ \A i \in 1 .. Len(queue) : queue[i].thread # t
     /\ \/ \E c \in checks : c.thread = t /\ (c.verb = "subscribe" <=> t \in wanted)
        \/ (\A c \in checks : c.thread # t) /\ (t \in served <=> t \in wanted)

\* Of no interest: what the transport has sent and the gateway has done.
QuietUnlessOpen ==
  \A s \in Sock : at[s] # "open" =>
    up[s] = <<>> /\ checking[s] = {} /\ serving[s] = {} /\ muddled[s] = {}

\* Only commands on rooms are checked; two on one room muddle it.
OneCheckEach ==
  \A s \in Sock : \A c \in checking[s] :
    /\ c.thread \notin Dm
    /\ \A d \in checking[s] : c.thread = d.thread /\ c.thread \notin muddled[s] => c = d

WordsAgree ==
  \A s \in Sock : at[s] = "open" =>
    \A t \in Thread \ muddled[s] : Settled(up[s], checking[s], serving[s], subscribed[of[s]], t)

FreshAskNothing == \A l \in fresh : subscribed[l] = {}

ServeInv ==
  /\ LinkInv /\ TypeOK /\ FreshAskNothing /\ QuietUnlessOpen /\ OneCheckEach /\ WordsAgree
  /\ \A l \in Login : IsFiniteSet(subscribed[l])

LEMMA ServeInit == Init => ServeInv
<1> SUFFICES ASSUME Init PROVE ServeInv
  OBVIOUS
<1>1. LinkInv
  BY LinkInit
<1>2. << >> \in Seq(Command)
  BY EmptySeq
<1>3. TypeOK
  BY <1>2, TransportAssumption DEF Init, TypeOK
<1>4. FreshAskNothing /\ QuietUnlessOpen /\ OneCheckEach /\ WordsAgree
  BY DEF Init, FreshAskNothing, QuietUnlessOpen, OneCheckEach, WordsAgree
<1>5. \A l \in Login : IsFiniteSet(subscribed[l])
  BY FS_EmptySet DEF Init
<1> QED BY <1>1, <1>3, <1>4, <1>5 DEF ServeInv

\* What was on its way about another thread stays the last word on this one.
LEMMA SentSettles ==
  ASSUME NEW queue \in Seq(Command), NEW c \in Command, NEW checks, NEW served, NEW before, NEW wanted, NEW t,
         \/ c.thread = t /\ (c.verb = "subscribe" <=> t \in wanted)
         \/ /\ c.thread # t /\ (t \in before <=> t \in wanted)
            /\ Settled(queue, checks, served, before, t)
  PROVE  Settled(Append(queue, c), checks, served, wanted, t)
<1>1. PICK q : q = Append(queue, c)
  OBVIOUS
<1>2. /\ Len(queue) \in Nat /\ Len(q) = Len(queue) + 1 /\ q[Len(q)] = c
      /\ \A i \in 1 .. Len(queue) : q[i] = queue[i]
  BY <1>1, LenProperties, AppendProperties
<1>3. CASE c.thread = t
  BY <1>1, <1>2, <1>3 DEF Settled
<1>4. CASE c.thread # t
  <2>1. CASE \E i \in 1 .. Len(queue) :
               /\ queue[i].thread = t /\ (queue[i].verb = "subscribe" <=> t \in before)
               /\ \A j \in 1 .. Len(queue) : j > i => queue[j].thread # t
    <3>1. PICK i \in 1 .. Len(queue) :
               /\ queue[i].thread = t /\ (queue[i].verb = "subscribe" <=> t \in before)
               /\ \A j \in 1 .. Len(queue) : j > i => queue[j].thread # t
      BY <2>1
    <3>2. i \in 1 .. Len(q) /\ q[i].thread = t /\ (q[i].verb = "subscribe" <=> t \in wanted)
      BY <1>2, <1>4, <3>1
    <3>3. \A j \in 1 .. Len(q) : j > i => q[j].thread # t
      BY <1>2, <1>4, <3>1
    <3> QED BY <1>1, <3>2, <3>3 DEF Settled
  <2>2. CASE \A i \in 1 .. Len(queue) : queue[i].thread # t
    <3>1. \A i \in 1 .. Len(q) : q[i].thread # t
      BY <1>2, <1>4, <2>2
    <3>2. \/ \E d \in checks : d.thread = t /\ (d.verb = "subscribe" <=> t \in wanted)
          \/ (\A d \in checks : d.thread # t) /\ (t \in served <=> t \in wanted)
      BY <1>4, <2>2 DEF Settled
    <3> QED BY <1>1, <3>1, <3>2 DEF Settled
  <2> QED BY <1>4, <2>1, <2>2 DEF Settled
<1> QED BY <1>3, <1>4

\* The first command arrives: it is carried out, or checked, or about another thread.
LEMMA ReceivedSettles ==
  ASSUME NEW queue \in Seq(Command), queue # <<>>, NEW c, c = Head(queue), NEW t, NEW wanted,
         NEW checks, NEW served, Settled(queue, checks, served, wanted, t), NEW checks2, NEW served2,
         c.thread # t => /\ \A d : d.thread = t => (d \in checks2 <=> d \in checks)
                         /\ t \in served2 <=> t \in served,
         c.thread = t => \/ c \in checks2
                         \/ (\A d \in checks2 : d.thread # t) /\ (t \in served2 <=> c.verb = "subscribe")
  PROVE  Settled(Tail(queue), checks2, served2, wanted, t)
<1>1. PICK q : q = Tail(queue)
  OBVIOUS
<1>2. /\ Len(queue) \in Nat \ {0} /\ Len(q) = Len(queue) - 1 /\ c = queue[1]
      /\ \A i \in 1 .. Len(q) : q[i] = queue[i + 1]
  <2>1. Len(queue) \in Nat \ {0}
    BY EmptySeq
  <2>2. /\ Len(q) = Len(queue) - 1 /\ \A i \in 1 .. Len(q) : q[i] = queue[i + 1]
    BY <1>1, HeadTailProperties
  <2> QED BY <2>1, <2>2
<1>3. CASE \E i \in 1 .. Len(queue) :
             /\ queue[i].thread = t /\ (queue[i].verb = "subscribe" <=> t \in wanted)
             /\ \A j \in 1 .. Len(queue) : j > i => queue[j].thread # t
  <2>1. PICK i \in 1 .. Len(queue) :
             /\ queue[i].thread = t /\ (queue[i].verb = "subscribe" <=> t \in wanted)
             /\ \A j \in 1 .. Len(queue) : j > i => queue[j].thread # t
    BY <1>3
  <2>2. CASE i = 1
    <3>1. \A j \in 1 .. Len(q) : q[j].thread # t
      <4> TAKE j \in 1 .. Len(q)
      <4>1. j + 1 \in 1 .. Len(queue) /\ j + 1 > i
        BY <1>2, <2>2
      <4> QED BY <1>2, <2>1, <4>1
    <3>2. c.thread = t /\ (c.verb = "subscribe" <=> t \in wanted)
      BY <1>2, <2>1, <2>2
    <3> QED BY <1>1, <3>1, <3>2 DEF Settled
  <2>3. CASE i # 1
    <3>1. PICK k \in 1 .. Len(q) : k + 1 = i /\ q[k] = queue[i]
      <4>1. i - 1 \in 1 .. Len(q) /\ (i - 1) + 1 = i
        BY <1>2, <2>3
      <4> QED BY <1>2, <4>1
    <3>2. \A j \in 1 .. Len(q) : j > k => q[j].thread # t
      <4> TAKE j \in 1 .. Len(q)
      <4>1. j > k => j + 1 \in 1 .. Len(queue) /\ j + 1 > i
        BY <1>2, <3>1
      <4> QED BY <1>2, <2>1, <4>1
    <3> QED BY <1>1, <2>1, <3>1, <3>2 DEF Settled
  <2> QED BY <2>2, <2>3
<1>4. CASE ~\E i \in 1 .. Len(queue) :
             /\ queue[i].thread = t /\ (queue[i].verb = "subscribe" <=> t \in wanted)
             /\ \A j \in 1 .. Len(queue) : j > i => queue[j].thread # t
  <2>1. \A i \in 1 .. Len(queue) : queue[i].thread # t
    BY <1>4 DEF Settled
  <2>2. \A j \in 1 .. Len(q) : q[j].thread # t
    <3> TAKE j \in 1 .. Len(q)
    <3>1. j + 1 \in 1 .. Len(queue)
      BY <1>2
    <3> QED BY <1>2, <2>1, <3>1
  <2>3. c.thread # t
    BY <1>2, <2>1
  <2>4. \/ \E d \in checks : d.thread = t /\ (d.verb = "subscribe" <=> t \in wanted)
        \/ (\A d \in checks : d.thread # t) /\ (t \in served <=> t \in wanted)
    BY <1>4, <2>1 DEF Settled
  <2>5. \/ \E d \in checks2 : d.thread = t /\ (d.verb = "subscribe" <=> t \in wanted)
        \/ (\A d \in checks2 : d.thread # t) /\ (t \in served2 <=> t \in wanted)
    BY <2>3, <2>4
  <2> QED BY <1>1, <2>2, <2>5 DEF Settled
<1> QED BY <1>3, <1>4

\* TypeOK, without what LinkTypes says.
Rest ==
  /\ mounted \subseteq Panel /\ status \in {"idle", "connecting", "open", "reconnecting"}
  /\ everOpened \in [Login -> BOOLEAN] /\ subscribed \in [Login -> SUBSET Thread]
  /\ up \in [Sock -> Seq(Command)] /\ checking \in [Sock -> SUBSET Command]
  /\ serving \in [Sock -> SUBSET Thread] /\ muddled \in [Sock -> SUBSET Thread]
  /\ drops \in 0 .. MaxDrops

LEMMA TypeParts == TypeOK <=> LinkTypes /\ Rest
  BY DEF TypeOK, LinkTypes, Rest

LEMMA TypedAfter == ASSUME LinkTypes', Rest' PROVE TypeOK'
  BY DEF TypeOK, LinkTypes, Rest

LEMMA HangupTyped == ASSUME Rest, NEW s \in Sock, Hangup(s)
  PROVE  /\ up' \in [Sock -> Seq(Command)] /\ checking' \in [Sock -> SUBSET Command]
         /\ serving' \in [Sock -> SUBSET Thread] /\ muddled' \in [Sock -> SUBSET Thread]
<1>1. << >> \in Seq(Command)
  BY EmptySeq
<1> QED BY <1>1 DEF Rest, Hangup

\* The sockets that are open, and what was said on them, stay.
LEMMA SameOpen ==
  ASSUME ServeInv, LinkInv', Rest', UNCHANGED <<subscribed, server>>, fresh' \subseteq fresh,
         \A s \in Sock : (at'[s] = "open" <=> at[s] = "open") /\ (at[s] = "open" => of'[s] = of[s])
  PROVE  ServeInv'
<1> USE DEF ServeInv, server
<1>1. TypeOK'
  BY TypedAfter DEF LinkInv
<1>2. FreshAskNothing' /\ QuietUnlessOpen' /\ OneCheckEach'
  BY DEF FreshAskNothing, QuietUnlessOpen, OneCheckEach
<1>3. WordsAgree'
  BY DEF WordsAgree
<1> QED BY <1>1, <1>2, <1>3

LEMMA ConnectServes ==
  ASSUME ServeInv, LinkInv', NEW l \in Login, NEW s \in Sock, SignIn(l, s) \/ Reconnect(l, s) \/ RetryNow(s)
  PROVE  ServeInv'
<1>1. Rest /\ of \in [Sock -> Login \cup {NoLogin}]
      /\ at \in [Sock -> {"none", "connecting", "open", "closing", "failed"}]
  BY TypeParts DEF ServeInv, LinkTypes
<1>2. UNCHANGED <<mounted, everOpened, subscribed, server, drops>> /\ fresh' \subseteq fresh
  BY DEF SignIn, Reconnect, RetryNow, app
<1>3. CASE \E k \in Login : Connect(k, s)
  <2>1. /\ at[s] = "none" /\ at' = [at EXCEPT ![s] = "connecting"]
        /\ \E k \in Login : of' = [of EXCEPT ![s] = k]
        /\ status' \in {"reconnecting", "connecting"}
    BY <1>3 DEF Connect
  <2>2. Rest'
    BY <1>1, <1>2, <2>1 DEF Rest, server
  <2>3. \A x \in Sock : (at'[x] = "open" <=> at[x] = "open") /\ (at[x] = "open" => of'[x] = of[x])
    BY <1>1, <2>1
  <2> QED BY <1>2, <2>2, <2>3, SameOpen
<1>4. CASE ~\E k \in Login : Connect(k, s)
  <2>1. UNCHANGED <<at, of, status>>
    <3>1. instance # NoLogin => instance \in Login
      BY DEF ServeInv, TypeOK
    <3> QED BY <1>4, <3>1 DEF SignIn, Reconnect, RetryNow, sockets
  <2>2. Rest'
    BY <1>1, <1>2, <2>1 DEF Rest, server
  <2> QED BY <1>2, <2>1, <2>2, SameOpen
<1> QED BY <1>3, <1>4

LEMMA ClosedServes == ASSUME ServeInv, LinkInv', NEW s \in Sock, Closed(s) PROVE ServeInv'
<1>1. Rest /\ of \in [Sock -> Login \cup {NoLogin}]
      /\ at \in [Sock -> {"none", "connecting", "open", "closing", "failed"}]
  BY TypeParts DEF ServeInv, LinkTypes
<1>2. UNCHANGED <<mounted, everOpened, subscribed, server, drops, fresh>>
  BY DEF Closed, app
<1>3. /\ at[s] # "open" /\ at' = [at EXCEPT ![s] = "none"] /\ of' = [of EXCEPT ![s] = NoLogin]
      /\ status' \in {"idle", "reconnecting", status}
  BY DEF Closed
<1>4. Rest'
  BY <1>1, <1>2, <1>3 DEF Rest, server
<1>5. \A x \in Sock : (at'[x] = "open" <=> at[x] = "open") /\ (at[x] = "open" => of'[x] = of[x])
  BY <1>1, <1>3
<1> QED BY <1>2, <1>4, <1>5, SameOpen

\* A socket is open no longer; nobody asks on what else is open.
LEMMA HangupServes ==
  ASSUME ServeInv, LinkInv', Rest', NEW s \in Sock, Hangup(s), UNCHANGED of, at'[s] # "open",
         \A x \in Sock \ {s} : at'[x] = at[x], fresh' \subseteq fresh,
         \A l \in Login : subscribed'[l] = subscribed[l] \/ (subscribed'[l] = {} /\ l # instance'),
         \A l \in Login : IsFiniteSet(subscribed'[l])
  PROVE  ServeInv'
<1>1. TypeOK' /\ TypeOK
  BY TypedAfter DEF ServeInv, LinkInv
<1>2. /\ up'[s] = <<>> /\ checking'[s] = {} /\ serving'[s] = {} /\ muddled'[s] = {}
      /\ \A x \in Sock \ {s} : /\ up'[x] = up[x] /\ checking'[x] = checking[x]
                               /\ serving'[x] = serving[x] /\ muddled'[x] = muddled[x]
  BY <1>1 DEF Hangup, TypeOK
<1>3. FreshAskNothing'
  BY DEF ServeInv, FreshAskNothing, LinkInv, LinkTypes
<1>4. QuietUnlessOpen' /\ OneCheckEach'
  BY <1>2 DEF ServeInv, QuietUnlessOpen, OneCheckEach
<1>5. WordsAgree'
  <2> SUFFICES ASSUME NEW x \in Sock, at'[x] = "open", NEW t \in Thread \ muddled'[x]
               PROVE  Settled(up'[x], checking'[x], serving'[x], subscribed'[of'[x]], t)
    BY DEF WordsAgree
  <2>1. x # s /\ at[x] = "open"
    OBVIOUS
  <2>2. of'[x] = instance' /\ instance' \in Login
    BY DEF LinkInv, OneLiveSocket, LinkTypes
  <2>3. subscribed'[of'[x]] = subscribed[of[x]]
    BY <2>2
  <2>4. Settled(up[x], checking[x], serving[x], subscribed[of[x]], t)
    BY <1>2, <2>1 DEF ServeInv, WordsAgree
  <2> QED BY <1>2, <2>1, <2>3, <2>4
<1> QED BY <1>1, <1>3, <1>4, <1>5 DEF ServeInv

LEMMA LossServes == ASSUME ServeInv, LinkInv', NEW s \in Sock, Refuse(s) \/ Drop(s) PROVE ServeInv'
<1>1. Rest /\ at \in [Sock -> {"none", "connecting", "open", "closing", "failed"}]
  BY TypeParts DEF ServeInv, LinkTypes
<1>2. UNCHANGED <<mounted, everOpened, subscribed, fresh, of, status>> /\ Hangup(s)
  BY DEF Refuse, Drop, app
<1>3. at'[s] # "open" /\ \A x \in Sock \ {s} : at'[x] = at[x]
  BY <1>1 DEF Refuse, Drop
<1>4. drops' \in 0 .. MaxDrops
  BY <1>1, TransportAssumption DEF Refuse, Drop, Rest
<1>5. Rest'
  BY <1>1, <1>2, <1>4, HangupTyped DEF Rest
<1> QED BY <1>2, <1>3, <1>5, HangupServes DEF ServeInv

LEMMA SignOutServes == ASSUME ServeInv, LinkInv', SignOut PROVE ServeInv'
<1>1. Rest /\ at \in [Sock -> {"none", "connecting", "open", "closing", "failed"}]
      /\ instance \in Login /\ ws \in [Login -> Sock \cup {NoSock}]
  BY TypeParts DEF ServeInv, LinkTypes, SignOut
<1>2. /\ instance' = NoLogin /\ mounted' = {} /\ UNCHANGED <<everOpened, fresh, of, drops>> /\ status' = "idle"
      /\ subscribed' = [subscribed EXCEPT ![instance] = {}]
  BY DEF SignOut, Stop
<1>3. /\ subscribed' \in [Login -> SUBSET Thread]
      /\ \A l \in Login : subscribed'[l] = subscribed[l] \/ (subscribed'[l] = {} /\ l # instance')
  BY <1>1, <1>2, TransportAssumption DEF Rest
<1>4. \A l \in Login : IsFiniteSet(subscribed'[l])
  BY <1>3, FS_EmptySet DEF ServeInv
<1>5. CASE ws[instance] # NoSock
  <2>1. PICK s \in Sock : s = ws[instance]
    BY <1>1, <1>5
  <2>2. /\ at' = [at EXCEPT ![s] = IF @ = "open" THEN "closing" ELSE "failed"] /\ Hangup(s)
    BY <1>5, <2>1 DEF SignOut, Stop
  <2>3. Rest'
    BY <1>1, <1>2, <1>3, <2>2, HangupTyped DEF Rest
  <2>4. at'[s] # "open" /\ \A x \in Sock \ {s} : at'[x] = at[x]
    BY <1>1, <2>2
  <2> QED BY <1>2, <1>3, <1>4, <2>2, <2>3, <2>4, HangupServes
<1>6. CASE ws[instance] = NoSock
  <2>1. UNCHANGED <<at, server>>
    BY <1>6 DEF SignOut, Stop
  <2>2. Rest'
    BY <1>1, <1>2, <1>3, <2>1 DEF Rest, server
  <2>3. \A s \in Sock : at'[s] # "open"
    BY <1>2 DEF LinkInv, OneLiveSocket
  <2>4. QuietUnlessOpen' /\ OneCheckEach' /\ WordsAgree'
    BY <2>1, <2>3 DEF ServeInv, QuietUnlessOpen, OneCheckEach, WordsAgree, server
  <2>5. FreshAskNothing' /\ TypeOK'
    BY <1>2, <1>3, <2>2, TypedAfter DEF ServeInv, FreshAskNothing, LinkInv, LinkTypes
  <2> QED BY <1>4, <2>4, <2>5 DEF ServeInv
<1> QED BY <1>5, <1>6

\* Any way to list a finite set names each of its elements once.
LEMMA ListingNamesAll ==
  ASSUME NEW S, IsFiniteSet(S), NEW f \in SetToSeqs(S)
  PROVE  \E n \in Nat :
           /\ f \in [1 .. n -> S]
           /\ \A i, j \in 1 .. n : i # j => f[i] # f[j]
           /\ \A t \in S : \E i \in 1 .. n : f[i] = t
<1>1. PICK n : n = Cardinality(S)
  OBVIOUS
<1>2. n \in Nat
  BY <1>1, FS_CardinalityType
<1>3. f \in [1 .. n -> S] /\ \A i, j \in 1 .. n : i # j => f[i] # f[j]
  BY <1>1 DEF SetToSeqs
<1>4. f \in Injection(1 .. n, S)
  BY <1>3 DEF Injection, IsInjective
<1>5. Cardinality(1 .. n) = Cardinality(S)
  BY <1>1, <1>2, FS_Interval
<1>6. f \in Surjection(1 .. n, S)
  BY <1>4, <1>5, FS_Injection
<1>7. \A t \in S : \E i \in 1 .. n : f[i] = t
  BY <1>6 DEF Surjection
<1> QED BY <1>2, <1>3, <1>7

LEMMA OpenedServes == ASSUME ServeInv, LinkInv', NEW s \in Sock, Opened(s) PROVE ServeInv'
<1>1. /\ at \in [Sock -> {"none", "connecting", "open", "closing", "failed"}]
      /\ of \in [Sock -> Login \cup {NoLogin}] /\ up \in [Sock -> Seq(Command)]
      /\ everOpened \in [Login -> BOOLEAN] /\ subscribed \in [Login -> SUBSET Thread]
      /\ Rest
  BY TypeParts DEF ServeInv, TypeOK
<1>2. /\ at[s] = "connecting" /\ at' = [at EXCEPT ![s] = "open"]
      /\ everOpened' = [everOpened EXCEPT ![of[s]] = TRUE] /\ status' = "open"
      /\ UNCHANGED <<instance, fresh, mounted, subscribed, of, checking, serving, muddled, drops>>
  BY DEF Opened, Opening, app
<1>3. of[s] \in Login
  BY <1>2 DEF ServeInv, LinkInv, SocketsAreOwned
<1>4. PICK W : W = subscribed[of[s]]
  OBVIOUS
<1>5. W \subseteq Thread /\ IsFiniteSet(W)
  BY <1>1, <1>3, <1>4 DEF ServeInv
<1>6. PICK f \in SetToSeqs(W) :
        up' = [up EXCEPT ![s] = [n \in DOMAIN f |-> [verb |-> "subscribe", thread |-> f[n]]]]
  BY <1>4 DEF Opened
<1>7. PICK n \in Nat : /\ f \in [1 .. n -> W]
                       /\ \A i, j \in 1 .. n : i # j => f[i] # f[j]
                       /\ \A t \in W : \E i \in 1 .. n : f[i] = t
  BY <1>5, <1>6, ListingNamesAll
<1>8. PICK q : q = [i \in 1 .. n |-> [verb |-> "subscribe", thread |-> f[i]]]
  OBVIOUS
<1>9. up' = [up EXCEPT ![s] = q]
  BY <1>6, <1>7, <1>8
<1>10. q \in [1 .. n -> Command]
  BY <1>5, <1>7, <1>8 DEF Command
<1>11. q \in Seq(Command) /\ Len(q) = n
  <2>1. q \in Seq(Command)
    BY <1>7, <1>10, SeqDef
  <2>2. PICK m \in Nat : m = Len(q) /\ DOMAIN q = 1 .. m
    BY <2>1, LenProperties
  <2>3. \A i \in Int : i \in 1 .. n <=> i \in 1 .. m
    BY <1>10, <2>2
  <2>4. m = n
    <3>1. n \in Nat /\ m \in Nat
      BY <1>7, <2>2
    <3>2. (n # 0 => n \in 1 .. m) /\ (m # 0 => m \in 1 .. n)
      BY <2>3, <3>1
    <3> QED BY <3>1, <3>2
  <2> QED BY <2>1, <2>2, <2>4
<1>12. TypeOK'
  <2>1. up' \in [Sock -> Seq(Command)]
    BY <1>1, <1>9, <1>11
  <2>2. everOpened' \in [Login -> BOOLEAN]
    BY <1>1, <1>2
  <2> QED BY <1>1, <1>2, <2>1, <2>2, TypedAfter DEF Rest, LinkInv
<1>13. FreshAskNothing' /\ OneCheckEach' /\ \A l \in Login : IsFiniteSet(subscribed'[l])
  BY <1>2 DEF ServeInv, FreshAskNothing, OneCheckEach
<1>14. \A x \in Sock : x # s => up'[x] = up[x] /\ at'[x] = at[x]
  BY <1>1, <1>2, <1>9
<1>15. at'[s] = "open" /\ up'[s] = q
  BY <1>1, <1>2, <1>9
<1>16. QuietUnlessOpen'
  BY <1>2, <1>14, <1>15 DEF ServeInv, QuietUnlessOpen
<1>17. WordsAgree'
  <2> SUFFICES ASSUME NEW x \in Sock, at'[x] = "open", NEW t \in Thread \ muddled'[x]
               PROVE  Settled(up'[x], checking'[x], serving'[x], subscribed'[of'[x]], t)
    BY DEF WordsAgree
  <2>1. CASE x # s
    BY <1>2, <1>14, <2>1 DEF ServeInv, WordsAgree
  <2>2. CASE x = s
    <3>1. checking[s] = {} /\ serving[s] = {}
      BY <1>2 DEF ServeInv, QuietUnlessOpen
    <3>2. Settled(q, {}, {}, W, t)
      <4>1. \A i \in 1 .. n : q[i].thread = f[i] /\ q[i].verb = "subscribe"
        BY <1>8
      <4>2. CASE t \in W
        <5>1. PICK i \in 1 .. n : f[i] = t
          BY <1>7, <4>2
        <5>2. \A j \in 1 .. n : j > i => q[j].thread # t
          BY <1>7, <4>1, <5>1
        <5> QED BY <1>11, <4>1, <4>2, <5>1, <5>2 DEF Settled
      <4>3. CASE t \notin W
        BY <1>7, <1>11, <4>1, <4>3 DEF Settled
      <4> QED BY <4>2, <4>3
    <3> QED BY <1>2, <1>4, <1>15, <2>2, <3>1, <3>2
  <2> QED BY <2>1, <2>2
<1> QED BY <1>12, <1>13, <1>16, <1>17 DEF ServeInv

\* Only the panels of somebody who is signed in are open.
NobodyMounts == instance = NoLogin => mounted = {}

\* What a panel asks for is remembered, and said where there is a connection.
LEMMA PanelServes ==
  ASSUME ServeInv, NobodyMounts, LinkInv', NEW p \in Panel, Mount(p) \/ Unmount(p)
  PROVE  ServeInv'
<1> USE TransportAssumption
<1>1. /\ at \in [Sock -> {"none", "connecting", "open", "closing", "failed"}]
      /\ ws \in [Login -> Sock \cup {NoSock}]
      /\ of \in [Sock -> Login \cup {NoLogin}] /\ up \in [Sock -> Seq(Command)]
      /\ subscribed \in [Login -> SUBSET Thread] /\ mounted \subseteq Panel
      /\ Rest
  BY TypeParts DEF ServeInv, TypeOK
<1>2. PICK l \in Login : l = instance
  BY DEF Mount, Unmount, NobodyMounts, ServeInv, TypeOK
<1>3. PICK t \in Thread : t = ThreadOf[p]
  OBVIOUS
<1>4. UNCHANGED <<instance, fresh, status, closed, ws, everOpened, at, of, refused,
                  checking, serving, muddled, drops>>
  BY DEF Mount, Unmount, sockets
<1>5. mounted' \subseteq Panel
  BY <1>1 DEF Mount, Unmount
<1>6. PICK W \in SUBSET Thread, verb \in {"subscribe", "unsubscribe"} :
        /\ subscribed' = [subscribed EXCEPT ![l] = W] /\ Send(l, verb, t)
        /\ verb = "subscribe" <=> t \in W
        /\ \A u \in Thread : u # t => (u \in W <=> u \in subscribed[l])
        /\ IsFiniteSet(subscribed[l]) => IsFiniteSet(W)
  <2>1. CASE Mount(p)
    <3>1. PICK W : W = subscribed[l] \cup {t}
      OBVIOUS
    <3>2. IsFiniteSet(subscribed[l]) => IsFiniteSet(W)
      BY <3>1, FS_AddElement
    <3>3. subscribed' = [subscribed EXCEPT ![l] = W] /\ Send(l, "subscribe", t)
      BY <1>2, <1>3, <2>1, <3>1 DEF Mount
    <3> W \in SUBSET Thread
      BY <1>1, <3>1
    <3>4. /\ ("subscribe" = "subscribe" <=> t \in W)
          /\ \A u \in Thread : u # t => (u \in W <=> u \in subscribed[l])
      BY <1>1, <3>1
    <3> WITNESS W \in SUBSET Thread, "subscribe" \in {"subscribe", "unsubscribe"}
    <3> QED BY <3>2, <3>3, <3>4
  <2>2. CASE Unmount(p)
    <3>1. PICK W : W = subscribed[l] \ {t}
      OBVIOUS
    <3>2. IsFiniteSet(subscribed[l]) => IsFiniteSet(W)
      BY <3>1, FS_RemoveElement
    <3>3. subscribed' = [subscribed EXCEPT ![l] = W] /\ Send(l, "unsubscribe", t)
      BY <1>2, <1>3, <2>2, <3>1 DEF Unmount
    <3> W \in SUBSET Thread
      BY <1>1, <3>1
    <3>4. /\ ("unsubscribe" = "subscribe" <=> t \in W)
          /\ \A u \in Thread : u # t => (u \in W <=> u \in subscribed[l])
      BY <1>1, <3>1
    <3> WITNESS W \in SUBSET Thread, "unsubscribe" \in {"subscribe", "unsubscribe"}
    <3> QED BY <3>2, <3>3, <3>4
  <2> QED BY <2>1, <2>2
<1>7. PICK c \in Command : c = [verb |-> verb, thread |-> t]
  BY DEF Command
<1>8. up' = IF IsOpen(l) THEN [up EXCEPT ![ws[l]] = Append(@, c)] ELSE up
  BY <1>6, <1>7 DEF Send
<1>9. up' \in [Sock -> Seq(Command)]
  <2>1. \A s \in Sock : Append(up[s], c) \in Seq(Command)
    BY <1>1, AppendProperties
  <2> QED BY <1>1, <1>8, <2>1
<1>10. subscribed' \in [Login -> SUBSET Thread] /\ subscribed'[l] = W
       /\ \A x \in Login : x # l => subscribed'[x] = subscribed[x]
  BY <1>1, <1>6
<1>11. TypeOK'
  BY <1>1, <1>4, <1>5, <1>9, <1>10, TypedAfter DEF Rest, LinkInv
<1>12. FreshAskNothing' /\ OneCheckEach' /\ \A x \in Login : IsFiniteSet(subscribed'[x])
  BY <1>2, <1>4, <1>6, <1>10 DEF ServeInv, FreshAskNothing, OneCheckEach, LinkInv, FreshIsUntouched
<1>13. QuietUnlessOpen'
  BY <1>1, <1>4, <1>8 DEF ServeInv, QuietUnlessOpen, IsOpen
<1>14. WordsAgree'
  <2> SUFFICES ASSUME NEW s \in Sock, at[s] = "open", NEW u \in Thread \ muddled[s]
               PROVE  Settled(up'[s], checking[s], serving[s], subscribed'[of[s]], u)
    BY <1>4 DEF WordsAgree
  <2>1. of[s] = l /\ ws[l] = s /\ IsOpen(l)
    BY <1>2 DEF ServeInv, LinkInv, OneLiveSocket, IsOpen
  <2>2. up'[s] = Append(up[s], c) /\ up[s] \in Seq(Command)
    BY <1>1, <1>8, <2>1
  <2>3. Settled(up[s], checking[s], serving[s], subscribed[l], u)
    BY <2>1 DEF ServeInv, WordsAgree
  <2>4. Settled(Append(up[s], c), checking[s], serving[s], W, u)
    <3>1. c.thread = t /\ c.verb = verb
      BY <1>7
    <3> QED BY <1>6, <2>2, <2>3, <3>1, SentSettles
  <2> QED BY <1>10, <2>1, <2>2, <2>4
<1> QED BY <1>11, <1>12, <1>13, <1>14 DEF ServeInv

\* What Apply leaves the gateway with.
LEMMA ApplyServes ==
  ASSUME serving \in [Sock -> SUBSET Thread], NEW s \in Sock, NEW c \in Command, Apply(s, c)
  PROVE  /\ serving' \in [Sock -> SUBSET Thread]
         /\ \A x \in Sock \ {s} : serving'[x] = serving[x]
         /\ \A t \in Thread : t # c.thread => (t \in serving'[s] <=> t \in serving[s])
         /\ c.thread \in serving'[s] <=> c.verb = "subscribe"
<1>1. c.thread \in Thread /\ c.verb \in {"subscribe", "unsubscribe"}
  BY DEF Command
<1>2. PICK W : W = IF c.verb = "subscribe" THEN serving[s] \cup {c.thread} ELSE serving[s] \ {c.thread}
  OBVIOUS
<1>3. serving' = [serving EXCEPT ![s] = W]
  BY <1>2 DEF Apply
<1>4. W \subseteq Thread
  BY <1>1, <1>2
<1> QED BY <1>1, <1>2, <1>3, <1>4

LEMMA ReceiveServes == ASSUME ServeInv, LinkInv', NEW s \in Sock, Receive(s) PROVE ServeInv'
<1>1. /\ up \in [Sock -> Seq(Command)] /\ checking \in [Sock -> SUBSET Command]
      /\ serving \in [Sock -> SUBSET Thread] /\ muddled \in [Sock -> SUBSET Thread]
      /\ Rest
  BY TypeParts DEF ServeInv, TypeOK
<1>2. /\ at[s] = "open" /\ up[s] # <<>> /\ up' = [up EXCEPT ![s] = Tail(up[s])]
      /\ UNCHANGED <<instance, fresh, mounted, status, closed, ws, everOpened, subscribed, at, of, drops>>
  BY DEF Receive, app, sockets
<1>3. PICK c \in Command : c = Head(up[s])
  BY <1>1, <1>2, HeadTailProperties
<1>4. c.thread \in Thread
  BY DEF Command
<1>5. /\ c.thread \in Dm => Apply(s, c) /\ UNCHANGED <<checking, muddled>>
      /\ c.thread \notin Dm =>
           /\ checking' = [checking EXCEPT ![s] = @ \cup {c}]
           /\ muddled' = [muddled EXCEPT ![s] =
                IF \E other \in checking[s] : other.thread = c.thread THEN @ \cup {c.thread} ELSE @]
           /\ UNCHANGED serving
  BY <1>3 DEF Receive
<1>6. /\ up' \in [Sock -> Seq(Command)] /\ \A x \in Sock \ {s} : up'[x] = up[x]
      /\ up'[s] = Tail(up[s])
  <2>1. Tail(up[s]) \in Seq(Command)
    BY <1>1, <1>2, HeadTailProperties
  <2> QED BY <1>1, <1>2, <2>1
<1>7. /\ checking' \in [Sock -> SUBSET Command] /\ serving' \in [Sock -> SUBSET Thread]
      /\ muddled' \in [Sock -> SUBSET Thread]
  <2>1. CASE c.thread \in Dm
    BY <1>1, <1>5, <2>1, ApplyServes
  <2>2. CASE c.thread \notin Dm
    <3>1. PICK M : M = IF \E other \in checking[s] : other.thread = c.thread
                       THEN muddled[s] \cup {c.thread} ELSE muddled[s]
      OBVIOUS
    <3>2. M \subseteq Thread /\ muddled' = [muddled EXCEPT ![s] = M]
      BY <1>1, <1>4, <1>5, <2>2, <3>1
    <3> QED BY <1>1, <1>5, <2>2, <3>2
  <2> QED BY <2>1, <2>2
<1>8. TypeOK'
  BY <1>1, <1>2, <1>6, <1>7, TypedAfter DEF Rest, LinkInv
<1>9. \A x \in Sock \ {s} : checking'[x] = checking[x] /\ serving'[x] = serving[x] /\ muddled'[x] = muddled[x]
  BY <1>1, <1>5, ApplyServes
<1>10. QuietUnlessOpen' /\ FreshAskNothing' /\ \A l \in Login : IsFiniteSet(subscribed'[l])
  BY <1>2, <1>6, <1>9 DEF ServeInv, QuietUnlessOpen, FreshAskNothing
<1>11. /\ muddled[s] \subseteq muddled'[s]
       /\ \A d \in checking'[s] : d \in checking[s] \/ d = c
       /\ \A d \in checking[s] : d \in checking'[s]
       /\ c \in checking'[s] \/ (c.thread \in Dm /\ Apply(s, c) /\ checking'[s] = checking[s])
       /\ c.thread \notin Dm /\ c.thread \notin muddled'[s] => \A d \in checking[s] : d.thread # c.thread
       /\ c.thread \in Dm => checking'[s] = checking[s]
       /\ c.thread \notin Dm => serving'[s] = serving[s]
  BY <1>1, <1>5
<1>12. OneCheckEach'
  <2> SUFFICES ASSUME NEW d \in checking'[s], NEW e \in checking'[s]
               PROVE  d.thread \notin Dm /\ (d.thread = e.thread /\ d.thread \notin muddled'[s] => d = e)
    BY <1>9 DEF ServeInv, OneCheckEach
  <2>1. CASE c.thread \in Dm
    BY <1>11, <2>1 DEF ServeInv, OneCheckEach
  <2>2. CASE c.thread \notin Dm
    BY <1>11, <2>2 DEF ServeInv, OneCheckEach
  <2> QED BY <2>1, <2>2
<1>13. WordsAgree'
  <2> SUFFICES ASSUME NEW x \in Sock, at[x] = "open", NEW t \in Thread \ muddled'[x]
               PROVE  Settled(up'[x], checking'[x], serving'[x], subscribed[of[x]], t)
    BY <1>2 DEF WordsAgree
  <2>1. CASE x # s
    BY <1>6, <1>9, <2>1 DEF ServeInv, WordsAgree
  <2>2. CASE x = s
    <3>1. Settled(up[s], checking[s], serving[s], subscribed[of[s]], t)
      BY <1>11, <2>2 DEF ServeInv, WordsAgree
    <3>2. c.thread # t => /\ \A d : d.thread = t => (d \in checking'[s] <=> d \in checking[s])
                          /\ t \in serving'[s] <=> t \in serving[s]
      BY <1>1, <1>5, <1>11, ApplyServes
    <3>3. c.thread = t => \/ c \in checking'[s]
                          \/ (\A d \in checking'[s] : d.thread # t) /\ (t \in serving'[s] <=> c.verb = "subscribe")
      BY <1>1, <1>11, ApplyServes DEF ServeInv, OneCheckEach
    <3>4. Settled(Tail(up[s]), checking'[s], serving'[s], subscribed[of[s]], t)
      BY <1>1, <1>2, <1>3, <3>1, <3>2, <3>3, ReceivedSettles
    <3> QED BY <1>6, <2>2, <3>4
  <2> QED BY <2>1, <2>2
<1> QED BY <1>8, <1>10, <1>12, <1>13 DEF ServeInv

LEMMA CheckedServes ==
  ASSUME ServeInv, LinkInv', NEW s \in Sock, NEW c \in checking[s], Checked(s, c)
  PROVE  ServeInv'
<1>1. /\ up \in [Sock -> Seq(Command)] /\ checking \in [Sock -> SUBSET Command]
      /\ serving \in [Sock -> SUBSET Thread] /\ muddled \in [Sock -> SUBSET Thread]
      /\ Rest
  BY TypeParts DEF ServeInv, TypeOK
<1>2. /\ at[s] = "open" /\ checking' = [checking EXCEPT ![s] = @ \ {c}]
      /\ UNCHANGED <<instance, fresh, mounted, status, closed, ws, everOpened, subscribed, at, of, up, drops>>
  BY DEF Checked, app, sockets
<1>3. c \in Command /\ c.thread \in Thread
  BY <1>1 DEF Command
<1>4. \/ Apply(s, c) /\ UNCHANGED muddled
      \/ muddled' = [muddled EXCEPT ![s] = @ \cup {c.thread}] /\ UNCHANGED serving
  BY DEF Checked
<1>5. /\ checking' \in [Sock -> SUBSET Command] /\ checking'[s] = checking[s] \ {c}
      /\ \A x \in Sock \ {s} : checking'[x] = checking[x]
  BY <1>1, <1>2
<1>6. /\ serving' \in [Sock -> SUBSET Thread] /\ muddled' \in [Sock -> SUBSET Thread]
      /\ muddled[s] \subseteq muddled'[s]
      /\ \A x \in Sock \ {s} : serving'[x] = serving[x] /\ muddled'[x] = muddled[x]
      /\ \A t \in Thread : t # c.thread => (t \in serving'[s] <=> t \in serving[s])
      /\ c.thread \notin muddled'[s] => (c.thread \in serving'[s] <=> c.verb = "subscribe")
  <2>1. CASE Apply(s, c) /\ UNCHANGED muddled
    BY <1>1, <1>3, <2>1, ApplyServes
  <2>2. CASE muddled' = [muddled EXCEPT ![s] = @ \cup {c.thread}] /\ UNCHANGED serving
    BY <1>1, <1>3, <2>2
  <2> QED BY <1>4, <2>1, <2>2
<1>7. TypeOK'
  BY <1>1, <1>2, <1>5, <1>6, TypedAfter DEF Rest, LinkInv
<1>8. QuietUnlessOpen' /\ FreshAskNothing' /\ \A l \in Login : IsFiniteSet(subscribed'[l])
  BY <1>2, <1>5, <1>6 DEF ServeInv, QuietUnlessOpen, FreshAskNothing
<1>9. OneCheckEach'
  BY <1>5, <1>6 DEF ServeInv, OneCheckEach
<1>10. WordsAgree'
  <2> SUFFICES ASSUME NEW x \in Sock, at[x] = "open", NEW t \in Thread \ muddled'[x]
               PROVE  Settled(up[x], checking'[x], serving'[x], subscribed[of[x]], t)
    BY <1>2 DEF WordsAgree
  <2>1. Settled(up[x], checking[x], serving[x], subscribed[of[x]], t)
    BY <1>6 DEF ServeInv, WordsAgree
  <2>2. CASE x # s
    BY <1>5, <1>6, <2>1, <2>2
  <2>3. CASE x = s /\ t # c.thread
    BY <1>5, <1>6, <2>1, <2>3 DEF Settled
  <2>4. CASE x = s /\ t = c.thread
    <3>1. \A d \in checking[s] : d.thread = t => d = c
      BY <1>6, <2>4 DEF ServeInv, OneCheckEach
    <3>2. /\ \A d \in checking'[s] : d.thread # t
          /\ t \in serving'[s] <=> c.verb = "subscribe"
      BY <1>5, <1>6, <2>4, <3>1
    <3> QED BY <2>1, <2>4, <3>1, <3>2 DEF Settled
  <2> QED BY <2>2, <2>3, <2>4
<1> QED BY <1>7, <1>8, <1>9, <1>10 DEF ServeInv

LEMMA ServeStep == ServeInv /\ NobodyMounts /\ [Next]_vars => ServeInv' /\ NobodyMounts'
<1> SUFFICES ASSUME ServeInv, NobodyMounts, [Next]_vars PROVE ServeInv' /\ NobodyMounts'
  OBVIOUS
<1>1. LinkInv'
  BY LinkStep DEF ServeInv
<1>2. NobodyMounts'
  <2>1. NoLogin \notin Login
    BY TransportAssumption
  <2>2. ASSUME instance # NoLogin => instance' = instance,
               instance = NoLogin => mounted' = mounted
        PROVE  NobodyMounts'
    BY <2>2 DEF NobodyMounts
  <2>3. ASSUME NEW l \in Login, NEW s \in Sock, SignIn(l, s) PROVE NobodyMounts'
    BY <2>1, <2>3 DEF SignIn, NobodyMounts
  <2>4. ASSUME SignOut PROVE NobodyMounts'
    BY <2>4 DEF SignOut, NobodyMounts
  <2>5. ASSUME NEW p \in Panel, Mount(p) \/ Unmount(p) PROVE NobodyMounts'
    BY <2>2, <2>5 DEF Mount, Unmount, NobodyMounts
  <2>6. ASSUME UNCHANGED <<instance, mounted>> PROVE NobodyMounts'
    BY <2>2, <2>6
  <2>7. ASSUME NEW l \in Login, NEW s \in Sock, Reconnect(l, s) \/ RetryNow(s) PROVE NobodyMounts'
    BY <2>6, <2>7 DEF Reconnect, RetryNow, app
  <2>8. ASSUME NEW s \in Sock, Opened(s) \/ Refuse(s) \/ Drop(s) \/ Closed(s) \/ Receive(s)
        PROVE  NobodyMounts'
    BY <2>6, <2>8 DEF Opened, Opening, Refuse, Drop, Closed, Receive, app
  <2>9. ASSUME NEW s \in Sock, NEW c \in checking[s], Checked(s, c) PROVE NobodyMounts'
    BY <2>6, <2>9 DEF Checked, app
  <2>10. ASSUME UNCHANGED vars PROVE NobodyMounts'
    BY <2>6, <2>10 DEF vars, app
  <2>11. CASE \E s \in Sock : RetryNow(s)
    <3>1. instance \in Login
      BY <2>11 DEF RetryNow, ServeInv, TypeOK
    <3> QED BY <2>7, <2>11, <3>1
  <2> QED BY NextCases, <2>3, <2>4, <2>5, <2>7, <2>8, <2>9, <2>10, <2>11
<1>3. ASSUME UNCHANGED vars PROVE ServeInv'
  <2>1. UNCHANGED <<fresh, subscribed, server, at, of, mounted, status, everOpened, drops>>
    BY <1>3 DEF vars, app, sockets
  <2>2. Rest'
    BY <2>1, TypeParts DEF ServeInv, Rest, server
  <2> QED BY <1>1, <2>1, <2>2, SameOpen
<1>4. ASSUME NEW l \in Login, NEW s \in Sock, SignIn(l, s) \/ Reconnect(l, s) PROVE ServeInv'
  BY <1>1, <1>4, ConnectServes
<1>5. ASSUME NEW s \in Sock, RetryNow(s) PROVE ServeInv'
  <2>1. instance \in Login
    BY <1>5 DEF RetryNow, ServeInv, TypeOK
  <2> QED BY <1>1, <1>5, <2>1, ConnectServes
<1>6. ASSUME SignOut PROVE ServeInv'
  BY <1>1, <1>6, SignOutServes
<1>7. ASSUME NEW p \in Panel, Mount(p) \/ Unmount(p) PROVE ServeInv'
  BY <1>1, <1>7, PanelServes
<1>8. ASSUME NEW s \in Sock, Opened(s) PROVE ServeInv'
  BY <1>1, <1>8, OpenedServes
<1>9. ASSUME NEW s \in Sock, Refuse(s) \/ Drop(s) PROVE ServeInv'
  BY <1>1, <1>9, LossServes
<1>10. ASSUME NEW s \in Sock, Closed(s) PROVE ServeInv'
  BY <1>1, <1>10, ClosedServes
<1>11. ASSUME NEW s \in Sock, Receive(s) PROVE ServeInv'
  BY <1>1, <1>11, ReceiveServes
<1>12. ASSUME NEW s \in Sock, NEW c \in checking[s], Checked(s, c) PROVE ServeInv'
  BY <1>1, <1>12, CheckedServes
<1>13. ServeInv'
  BY NextCases, <1>3, <1>4, <1>5, <1>6, <1>7, <1>8, <1>9, <1>10, <1>11, <1>12
<1> QED BY <1>2, <1>13

LEMMA ServeCorrect == Spec => [](ServeInv /\ NobodyMounts)
<1>1. Init => NobodyMounts
  BY DEF Init, NobodyMounts
<1> QED BY <1>1, ServeInit, ServeStep, PTL DEF Spec

\* Each piece of state is of its kind (the fields of ChatTransport, the sockets
\* it made and their other ends).
THEOREM TypeCorrect == Spec => []TypeOK
<1>1. ServeInv => TypeOK
  BY DEF ServeInv
<1> QED BY <1>1, ServeCorrect, PTL

\* Once nothing is on its way the gateway serves an open socket the threads
\* that the transport remembers, but for rooms whose commands were refused or
\* may have overtaken each other.
MemoryIsServed ==
  \A s \in Sock : at[s] = "open" /\ up[s] = <<>> /\ checking[s] = {} =>
    serving[s] \ muddled[s] = subscribed[of[s]] \ muddled[s]

LEMMA ServeInvServes == ServeInv => MemoryIsServed
<1> SUFFICES ASSUME ServeInv, NEW s \in Sock, at[s] = "open", up[s] = <<>>, checking[s] = {}
             PROVE  serving[s] \ muddled[s] = subscribed[of[s]] \ muddled[s]
  BY DEF MemoryIsServed
<1>1. \A t \in Thread \ muddled[s] : t \in serving[s] <=> t \in subscribed[of[s]]
  BY DEF ServeInv, WordsAgree, Settled
<1>2. of[s] \in Login
  BY DEF ServeInv, LinkInv, SocketsAreOwned
<1>3. serving[s] \subseteq Thread /\ subscribed[of[s]] \subseteq Thread
  BY <1>2 DEF ServeInv, TypeOK
<1> QED BY <1>1, <1>3

\* "Subscriptions are remembered so we re-subscribe after a reconnect": they
\* are, whatever is open, lost, retried or signed out (subscribe, unsubscribe
\* and the open event), for any number of panels on the same or other threads.
THEOREM MemoryCorrect == Spec => []MemoryIsServed
BY ServeInvServes, ServeCorrect, PTL

\* No two panels ever show the same thread.
OnePanelEach == \A p, q \in Panel : ThreadOf[p] = ThreadOf[q] => p = q

\* What the transport of somebody who is signed in remembers is what the open
\* panels show.
MemoryIsOfPanels ==
  instance # NoLogin => subscribed[instance] = {ThreadOf[p] : p \in mounted}

ShownInv == ServeInv /\ NobodyMounts /\ MemoryIsOfPanels

LEMMA ShownStep == ASSUME OnePanelEach, ShownInv, [Next]_vars PROVE ShownInv'
<1>1. ServeInv' /\ NobodyMounts'
  BY ServeStep DEF ShownInv
<1>2. /\ subscribed \in [Login -> SUBSET Thread] /\ mounted \subseteq Panel
      /\ instance \in Login \cup {NoLogin} /\ NoLogin \notin Login
  BY TransportAssumption DEF ShownInv, ServeInv, TypeOK
<1>3. ASSUME UNCHANGED <<instance, mounted, subscribed>> PROVE MemoryIsOfPanels'
  BY <1>3 DEF ShownInv, MemoryIsOfPanels
<1>4. ASSUME NEW l \in Login, NEW s \in Sock, SignIn(l, s) PROVE MemoryIsOfPanels'
  <2>1. subscribed[l] = {} /\ mounted = {}
    BY <1>4 DEF SignIn, ShownInv, ServeInv, FreshAskNothing, NobodyMounts
  <2> QED BY <1>4, <2>1 DEF SignIn, MemoryIsOfPanels
<1>5. ASSUME SignOut PROVE MemoryIsOfPanels'
  BY <1>5 DEF SignOut, MemoryIsOfPanels
<1>6. ASSUME NEW p \in Panel, Mount(p) PROVE MemoryIsOfPanels'
  <2>1. /\ instance # NoLogin /\ instance' = instance /\ mounted' = mounted \cup {p}
        /\ subscribed'[instance] = subscribed[instance] \cup {ThreadOf[p]}
    BY <1>2, <1>6 DEF Mount
  <2> QED BY <2>1 DEF ShownInv, MemoryIsOfPanels
<1>7. ASSUME NEW p \in Panel, Unmount(p) PROVE MemoryIsOfPanels'
  <2>1. instance \in Login
    BY <1>2, <1>7 DEF Unmount, ShownInv, NobodyMounts
  <2>2. /\ instance' = instance /\ mounted' = mounted \ {p}
        /\ subscribed'[instance] = subscribed[instance] \ {ThreadOf[p]}
    BY <1>2, <1>7, <2>1 DEF Unmount
  <2>3. \A q \in mounted : ThreadOf[q] = ThreadOf[p] <=> q = p
    BY <1>2 DEF OnePanelEach
  <2> QED BY <1>2, <2>1, <2>2, <2>3 DEF ShownInv, MemoryIsOfPanels
<1>8. ASSUME NEW l \in Login, NEW s \in Sock, Reconnect(l, s) PROVE MemoryIsOfPanels'
  BY <1>3, <1>8 DEF Reconnect, app
<1>9. ASSUME NEW s \in Sock, RetryNow(s) \/ Opened(s) \/ Refuse(s) \/ Drop(s) \/ Closed(s) \/ Receive(s)
      PROVE  MemoryIsOfPanels'
  BY <1>3, <1>9 DEF RetryNow, Opened, Opening, Refuse, Drop, Closed, Receive, app
<1>10. ASSUME NEW s \in Sock, NEW c \in checking[s], Checked(s, c) PROVE MemoryIsOfPanels'
  BY <1>3, <1>10 DEF Checked, app
<1>11. ASSUME UNCHANGED vars PROVE MemoryIsOfPanels'
  BY <1>3, <1>11 DEF vars, app
<1>12. MemoryIsOfPanels'
  BY NextCases, <1>4, <1>5, <1>6, <1>7, <1>8, <1>9, <1>10, <1>11
<1> QED BY <1>1, <1>12 DEF ShownInv

\* What an open panel shows is served, no more and no less, through any number
\* of reconnects (RoomChatPanel's effect and its cleanup, subscribe,
\* unsubscribe and the open event); where no two panels show one thread, for
\* the first of them to close would stop the events of the other.
THEOREM ServedCorrect == OnePanelEach => (Spec => []PanelsAreServed)
<1> SUFFICES ASSUME OnePanelEach PROVE Spec => []PanelsAreServed
  OBVIOUS
<1>1. Init => ShownInv
  BY ServeInit DEF Init, ShownInv, NobodyMounts, MemoryIsOfPanels
<1>2. ShownInv /\ [Next]_vars => ShownInv'
  BY ShownStep
<1>3. ShownInv => PanelsAreServed
  <2> SUFFICES ASSUME ShownInv, instance # NoLogin, IsOpen(instance), NEW s, s = ws[instance],
                      up[s] = <<>>, checking[s] = {}
               PROVE  serving[s] \ muddled[s] = {ThreadOf[p] : p \in mounted} \ muddled[s]
    BY DEF PanelsAreServed
  <2>1. s \in Sock /\ at[s] = "open"
    BY DEF IsOpen, ShownInv, ServeInv, TypeOK
  <2>2. of[s] = instance
    BY <2>1 DEF ShownInv, ServeInv, LinkInv, OneLiveSocket
  <2>3. serving[s] \ muddled[s] = subscribed[of[s]] \ muddled[s]
    BY <2>1, ServeInvServes DEF ShownInv, MemoryIsServed
  <2> QED BY <2>2, <2>3 DEF ShownInv, MemoryIsOfPanels
<1> QED BY <1>1, <1>2, <1>3, PTL DEF Spec

-----------------------------------------------------------------------------
(* Messages: what the panel shows before it is answered.                   *)

\* What a bubble rests on: its request sends a text, in the thread that is open,
\* for which there is a key at hand.
BubblesInv ==
  /\ does \in Scenario /\ req = [r \in Req |-> req[r]]
  /\ bubbles \in [PanelReq -> {"none", "sending", "failed"}]
  /\ open \in Conversation \cup {NoThread} /\ peerKey \in Conversation \cup {NoThread}
  /\ \A r \in PanelReq : bubbles[r] = "sending" =>
       req[r] \in Request /\ req[r].op = "send" /\ req[r].thread = open

\* A request moves on, and no bubble rests on it; or it is still one that sends.
Moves(r, q) ==
  /\ UNCHANGED <<does, bubbles, open, peerKey>> /\ req' = [req EXCEPT ![r] = q]
  /\ r \in PanelReq /\ bubbles[r] = "sending" =>
       q \in Request /\ q.op = "send" /\ q.thread = open

\* Moving one keeps the invariant.
LEMMA MoveKeeps ==
  ASSUME BubblesInv, NEW r \in Req, NEW q, Moves(r, q)
  PROVE  BubblesInv'
BY MessagesAssumption DEF BubblesInv, Moves, Req

\* The steps of the server move one request each.
LEMMA ServerMoves ==
  ASSUME BubblesInv, OfServer
  PROVE  (\E r \in Req : \E q : Moves(r, q)) \/ UNCHANGED <<does, req, bubbles, open, peerKey>>
<1>. USE MessagesAssumption DEF Moves, Req, socket, composer, panel, history, table
<1>1. ASSUME NEW r \in OtherReq, NEW op, NEW u, NEW id, NEW arg, OtherAsks(r, op, u, id, arg)
      PROVE  \E q : Moves(r, q)
  BY <1>1 DEF OtherAsks, Begin
<1>2. ASSUME NEW r \in OtherReq, NEW u, NEW t, OtherSends(r, u, t)
      PROVE  \E q : Moves(r, q)
  BY <1>2 DEF OtherSends, Begin
<1>3. ASSUME NEW r \in Req, Read(r)
      PROVE  \E q : Moves(r, q)
  <2>1. CASE req[r].op = "send"
    <3>. DEFINE q == [req[r] EXCEPT !.at = "read"]
    <3>1. req' = [req EXCEPT ![r] = q]
      BY <1>3, <2>1 DEF Read
    <3>2. req[r] \in Request => q \in Request /\ q.op = req[r].op /\ q.thread = req[r].thread
      BY DEF Request
    <3>. HIDE DEF q
    <3>. QED  BY <1>3, <3>1, <3>2 DEF Read, BubblesInv
  <2>2. CASE req[r].op # "send"
    <3>1. ~(r \in PanelReq /\ bubbles[r] = "sending")
      BY <2>2 DEF BubblesInv
    <3>2. \E q : req' = [req EXCEPT ![r] = q]
      BY <1>3, <2>2 DEF Read
    <3>. QED  BY <1>3, <3>1, <3>2 DEF Read
  <2>. QED  BY <2>1, <2>2
<1>4. ASSUME NEW r \in Req, Create(r)
      PROVE  \E q : Moves(r, q)
  <2>1. CASE r \in PanelReq
    <3>. DEFINE q == [req[r] EXCEPT !.at = "answered", !.id = Len(rows) + 1]
    <3>1. req' = [req EXCEPT ![r] = q] /\ Len(rows) + 1 \in Id
      BY <1>4, <2>1 DEF Create, Reply
    <3>2. req[r] \in Request => q \in Request /\ q.op = req[r].op /\ q.thread = req[r].thread
      BY <3>1 DEF Request
    <3>. HIDE DEF q
    <3>. QED  BY <1>4, <3>1, <3>2 DEF Create, BubblesInv
  <2>2. CASE r \notin PanelReq
    BY <1>4, <2>2 DEF Create, Reply
  <2>. QED  BY <2>1, <2>2
<1>5. ASSUME NEW r \in Req, Update(r)
      PROVE  \E q : Moves(r, q)
  <2>1. req[r].op # "send"
    BY <1>5 DEF Update, Updates
  <2>2. ~(r \in PanelReq /\ bubbles[r] = "sending")
    BY <2>1 DEF BubblesInv
  <2>3. \E q : req' = [req EXCEPT ![r] = q]
    BY <1>5 DEF Update, Reply
  <2>. QED  BY <1>5, <2>2, <2>3 DEF Update
<1>6. ASSUME NEW r \in Req, Fail(r)
      PROVE  \E q : Moves(r, q)
  <2>. DEFINE q == [req[r] EXCEPT !.at = "failed"]
  <2>1. req' = [req EXCEPT ![r] = q]
    BY <1>6 DEF Fail
  <2>2. req[r] \in Request => q \in Request /\ q.op = req[r].op /\ q.thread = req[r].thread
    BY DEF Request
  <2>. HIDE DEF q
  <2>. QED  BY <1>6, <2>1, <2>2 DEF Fail, BubblesInv
<1>7. ASSUME \/ \E n \in Run : ReadHistory(n) \/ ReadReactions(n)
             \/ ReadOlder \/ Serve \/ Cut
      PROVE  UNCHANGED <<does, req, bubbles, open, peerKey>>
  BY <1>7 DEF ReadHistory, ReadReactions, ReadOlder, Serve, Cut
<1>. QED  BY <1>1, <1>2, <1>3, <1>4, <1>5, <1>6, <1>7 DEF OfServer

\* Sending shows a bubble in the thread that is open.
LEMMA SendKeeps ==
  ASSUME BubblesInv, NEW r \in PanelReq, CanWrite,
         Begin(r, Frame("send", Me, open, 0, Written, NoVotes, "sent")),
         bubbles' = [bubbles EXCEPT ![r] = "sending"], UNCHANGED <<does, open, peerKey>>
  PROVE  BubblesInv'
<1>. DEFINE q == Frame("send", Me, open, 0, Written, NoVotes, "sent")
<1>1. Written \in Conversation
  BY DEF CanWrite, Written, BubblesInv
<1>2. NoVotes \in [User -> Option \cup {NoVote}]
  BY DEF NoVotes
<1>3. q \in Request /\ q.op = "send" /\ q.thread = open
  BY <1>1, <1>2 DEF Frame, Request, BubblesInv, User
<1>4. req' = [req EXCEPT ![r] = q] /\ r \in Req
  BY DEF Begin, Req
<1>. HIDE DEF q
<1>. QED  BY <1>3, <1>4 DEF BubblesInv

\* So do the steps of the panel, whether they move a request or the bubbles.
LEMMA PanelKeeps ==
  ASSUME BubblesInv, OfPanel
  PROVE  BubblesInv'
<1>. USE MessagesAssumption DEF socket, composer, panel, history, table
<1>1. ASSUME NEW t \in Conversation, Open(t)
      PROVE  BubblesInv'
  BY <1>1 DEF Open, BubblesInv
<1>2. ASSUME NEW n \in Run, KeyArrives(n) \/ KeyFails(n)
      PROVE  BubblesInv'
  BY <1>2 DEF KeyArrives, KeyFails, BubblesInv
<1>3. ASSUME \/ \E n \in Run : HistoryArrives(n) \/ HistoryFails(n)
             \/ Deliver \/ ScrollUp \/ OlderArrives \/ OlderFails \/ CancelEdit
             \/ \E id \in Id : StartEdit(id)
      PROVE  BubblesInv'
  <2>1. UNCHANGED <<does, req, bubbles, open, peerKey>>
    BY <1>3 DEF HistoryArrives, HistoryFails, Deliver, ScrollUp, OlderArrives, OlderFails,
                CancelEdit, StartEdit
  <2>. QED  BY <2>1 DEF BubblesInv
<1>4. ASSUME NEW r \in PanelReq, SendText(r) \/ RetryPending(r)
      PROVE  BubblesInv'
  BY <1>4, SendKeeps DEF SendText, RetryPending
<1>5. ASSUME NEW r \in PanelReq, SendPlain(r) \/ SubmitEdit(r)
      PROVE  \E q : Moves(r, q)
  BY <1>5 DEF SendPlain, SubmitEdit, Begin, Moves
<1>6. ASSUME NEW r \in PanelReq, DiscardPending(r)
      PROVE  BubblesInv'
  BY <1>6 DEF DiscardPending, BubblesInv
<1>7. ASSUME NEW r \in PanelReq, Answered(r)
      PROVE  BubblesInv'
  BY <1>7 DEF Answered, BubblesInv, Req
<1>8. ASSUME NEW r \in PanelReq, Failed(r)
      PROVE  BubblesInv'
  BY <1>8 DEF Failed, BubblesInv, Req
<1>9. ASSUME NEW r \in PanelReq, NEW id \in Id,
             Pin(r, id) \/ Delete(r, id) \/ ToggleReaction(r, id) \/ \E o \in Option : HandleVote(r, id, o)
      PROVE  \E q : Moves(r, q)
  BY <1>9 DEF Pin, Delete, ToggleReaction, HandleVote, Ask, Begin, Moves
<1>. QED  BY <1>1, <1>2, <1>3, <1>4, <1>5, <1>6, <1>7, <1>8, <1>9, MoveKeeps DEF OfPanel, Req

\* No text that was sent, or failed to be, shows in another conversation.
THEOREM BubblesCorrect == MessagesSpec => []BubblesBelong
<1>1. MessagesInit => BubblesInv
  BY MessagesAssumption DEF MessagesInit, BubblesInv
<1>2. ASSUME BubblesInv, [MessagesNext]_messagesVars
      PROVE  BubblesInv'
  <2>1. CASE UNCHANGED <<does, req, bubbles, open, peerKey>>
    BY <1>2, <2>1 DEF BubblesInv
  <2>2. UNCHANGED messagesVars => UNCHANGED <<does, req, bubbles, open, peerKey>>
    BY DEF messagesVars, table, composer, panel
  <2>. QED  BY <1>2, <2>1, <2>2, ServerMoves, MoveKeeps, PanelKeeps DEF MessagesNext
<1>3. BubblesInv => BubblesBelong
  BY IdleAssumption DEF BubblesInv, BubblesBelong
<1>. QED  BY <1>1, <1>2, <1>3, PTL DEF MessagesSpec

-----------------------------------------------------------------------------
(* A page of history.                                                      *)

\* How many numbers of a set are no greater than one of them.
Rank(S, i) == Cardinality({j \in S : j <= i})

LEMMA RankStrict ==
  ASSUME NEW S, S \subseteq Nat, IsFiniteSet(S), NEW i \in S, NEW k \in S, i < k
  PROVE  Rank(S, i) < Rank(S, k)
<1>. DEFINE A == {j \in S : j <= i}
            B == {j \in S : j <= k}
<1>0. \A j \in S : j \in Nat
  OBVIOUS
<1>1. A \in SUBSET B /\ B \in SUBSET S /\ k \in B /\ k \notin A
  <2>1. i \in Nat /\ k \in Nat /\ ~(k <= i)
    BY <1>0
  <2>2. k \in B /\ k \notin A
    BY <2>1
  <2>3. \A j \in S : j <= i => j <= k
    BY <1>0, <2>1
  <2>. QED  BY <2>2, <2>3
<1>2. IsFiniteSet(B) /\ Cardinality(B) \in Nat
  BY <1>1, FS_Subset, FS_CardinalityType
<1>3. Cardinality(A) \in Nat /\ Cardinality(A) <= Cardinality(B) /\ Cardinality(B) # Cardinality(A)
  BY <1>1, <1>2, FS_Subset, FS_CardinalityType
<1>. QED  BY <1>2, <1>3 DEF Rank

\* Each of 1 .. Cardinality(S) is the rank of just one.
LEMMA RankIsOnto ==
  ASSUME NEW S, S \subseteq Nat, IsFiniteSet(S), NEW k \in 1 .. Cardinality(S)
  PROVE  \E i \in S : Rank(S, i) = k /\ \A j \in S : Rank(S, j) = k => j = i
<1>. DEFINE n == Cardinality(S)
            f == [i \in S |-> Rank(S, i)]
<1>1. n \in Nat
  BY FS_CardinalityType
<1>2. ASSUME NEW i \in S
      PROVE  Rank(S, i) \in 1 .. n
  <2>. DEFINE A == {j \in S : j <= i}
  <2>1. A \in SUBSET S /\ i \in A
    OBVIOUS
  <2>2. IsFiniteSet(A) /\ Cardinality(A) \in Nat /\ Cardinality(A) <= n
    BY <2>1, FS_Subset, FS_CardinalityType
  <2>3. Cardinality(A) # 0
    BY <2>1, <2>2, FS_EmptySet
  <2>. QED  BY <1>1, <2>2, <2>3 DEF Rank
<1>3. ASSUME NEW i \in S, NEW j \in S, Rank(S, i) = Rank(S, j)
      PROVE  i = j
  <2>1. i \in Nat /\ j \in Nat /\ Rank(S, i) \in Nat /\ Rank(S, j) \in Nat
    BY <1>2
  <2>2. (i < j => Rank(S, i) < Rank(S, j)) /\ (j < i => Rank(S, j) < Rank(S, i))
    BY RankStrict
  <2>. QED  BY <1>3, <2>1, <2>2
<1>4. f \in Injection(S, 1 .. n)
  BY <1>2, <1>3 DEF Injection, IsInjective
<1>5. IsFiniteSet(1 .. n) /\ Cardinality(1 .. n) = n
  BY <1>1, FS_Interval
<1>6. f \in Surjection(S, 1 .. n)
  BY <1>4, <1>5, FS_Injection
<1>7. PICK i \in S : f[i] = k
  BY <1>6 DEF Surjection
<1>. QED  BY <1>3, <1>7

\* Ordered lists the members of a set, each once, in ascending order.
LEMMA OrderedIsAscending ==
  ASSUME NEW S, S \subseteq Nat, IsFiniteSet(S)
  PROVE  /\ DOMAIN Ordered(S) = 1 .. Cardinality(S) /\ Cardinality(S) \in Nat
         /\ \A k \in DOMAIN Ordered(S) : Ordered(S)[k] \in S
         /\ \A i \in S : \E k \in DOMAIN Ordered(S) : Ordered(S)[k] = i
         /\ \A k, l \in DOMAIN Ordered(S) : k < l => Ordered(S)[k] < Ordered(S)[l]
<1>. DEFINE n == Cardinality(S)
            o == Ordered(S)
<1>0. \A j \in S : j \in Nat
  OBVIOUS
<1>1. n \in Nat /\ DOMAIN o = 1 .. n
  BY FS_CardinalityType DEF Ordered
<1>2. ASSUME NEW k \in 1 .. n
      PROVE  o[k] \in S /\ Rank(S, o[k]) = k
  <2>1. PICK i \in S : Rank(S, i) = k
    BY RankIsOnto
  <2>2. o[k] = CHOOSE j \in S : Rank(S, j) = k
    BY DEF Ordered, Rank
  <2>. QED  BY <2>1, <2>2
<1>3. ASSUME NEW k \in 1 .. n, NEW l \in 1 .. n, k < l
      PROVE  o[k] < o[l]
  <2>1. o[k] \in S /\ o[l] \in S /\ o[k] \in Nat /\ o[l] \in Nat /\ o[k] # o[l]
    <3>. HIDE DEF o
    <3>1. o[k] \in S /\ o[l] \in S /\ Rank(S, o[k]) = k /\ Rank(S, o[l]) = l
      BY <1>2
    <3>2. k # l
      BY <1>1, <1>3
    <3>3. o[k] # o[l]
      BY <3>1, <3>2
    <3>. QED  BY <1>0, <3>1, <3>3
  <2>2. o[l] < o[k] => l < k
    BY <1>2, <2>1, RankStrict
  <2>. QED  BY <1>3, <2>1, <2>2
<1>4. ASSUME NEW i \in S
      PROVE  \E k \in 1 .. n : o[k] = i
  <2>. DEFINE A == {j \in S : j <= i}
              k == Rank(S, i)
  <2>1. A \in SUBSET S /\ i \in A
    OBVIOUS
  <2>2. IsFiniteSet(A) /\ Cardinality(A) \in Nat /\ Cardinality(A) <= n /\ Cardinality(A) # 0
    BY <2>1, FS_Subset, FS_CardinalityType, FS_EmptySet
  <2>3. k \in 1 .. n
    BY <1>1, <2>2 DEF Rank
  <2>4. o[k] \in S /\ Rank(S, o[k]) = k
    BY <1>2, <2>3
  <2>5. PICK m \in S : \A j \in S : Rank(S, j) = k => j = m
    BY <2>3, RankIsOnto
  <2>. QED  BY <2>3, <2>4, <2>5
<1>. QED  BY <1>1, <1>2, <1>3, <1>4

\* A finite set of numbers has a least and a greatest member.
LEMMA LeastAndGreatest ==
  ASSUME NEW S, S \subseteq Nat, IsFiniteSet(S), S # {}
  PROVE  /\ \E i \in S : \A j \in S : i <= j
         /\ \E i \in S : \A j \in S : j <= i
<1>. DEFINE n == Cardinality(S)
            o == Ordered(S)
<1>. HIDE DEF o
<1>1. /\ DOMAIN o = 1 .. n /\ n \in Nat
      /\ \A k \in 1 .. n : o[k] \in S
      /\ \A i \in S : \E k \in 1 .. n : o[k] = i
      /\ \A k, l \in 1 .. n : k < l => o[k] < o[l]
  BY OrderedIsAscending DEF o
<1>2. n # 0 /\ 1 \in 1 .. n /\ n \in 1 .. n
  BY <1>1, FS_EmptySet
<1>. HIDE DEF n
<1>0. \A j \in S : j \in Nat
  OBVIOUS
<1>3. \A j \in S : o[1] <= j /\ j <= o[n]
  <2>. TAKE j \in S
  <2>1. PICK k \in 1 .. n : o[k] = j
    BY <1>1
  <2>2. o[1] \in Nat /\ o[n] \in Nat /\ o[k] \in Nat
    BY <1>0, <1>1, <1>2
  <2>3. k = 1 \/ o[1] < o[k]
    BY <1>1, <1>2
  <2>4. k = n \/ o[k] < o[n]
    BY <1>1, <1>2
  <2>. QED  BY <2>1, <2>2, <2>3, <2>4
<1>. QED  BY <1>1, <1>2, <1>3

-----------------------------------------------------------------------------
(* Types: what the panel shows, and what is on its way, is about messages  *)
(* that exist, and in the thread that it says.                             *)

GoodEntry == {e \in Entry : e.id \in DOMAIN rows /\ e.thread = rows[e.id].thread}
GoodEvent ==
  {v \in Event :
     IF v.type \in {"message", "edited"}
     THEN v.entry \in GoodEntry /\ (v.type = "message" => ~v.entry.deleted)
     ELSE v.id \in DOMAIN rows /\ v.thread = rows[v.id].thread}
GoodRequest ==
  {q \in Request :
     /\ q.op # "send" \/ q.at = "answered" => q.id \in DOMAIN rows /\ q.thread = rows[q.id].thread
     /\ q.op = "send" => q.thread \in Conversation
     /\ q.op \in {"send", "edit"} => q.arg \in Conversation
     /\ q.op = "vote" => q.arg \in Option
     /\ q.op = "delete" /\ q.at = "answered" => rows[q.id].deleted}
GoodPage == {f \in Page : f.page \in Seq(GoodEntry)}
GoodOlder == {p \in OlderPage : p.page \in Seq(GoodEntry)}

TableTypes ==
  /\ does \in Scenario
  /\ rows \in Seq(Row) /\ Len(rows) <= MaxMessage
  /\ req \in [Req -> GoodRequest \cup {Idle}]
  /\ made \in 0 .. does.requests
SocketTypes ==
  /\ heard \in Conversation \cup {NoThread}
  /\ events \in Seq(GoodEvent)
PanelTypes ==
  /\ mount \in 0 .. MaxMount /\ (mount = 0 => open = NoThread)
  /\ open \in Conversation \cup {NoThread}
  /\ list \in Seq(GoodEntry)
  /\ loading \in BOOLEAN /\ hasMore \in BOOLEAN
  /\ fetches \in [Run -> GoodPage \cup {NoPage}]
  /\ older \in GoodOlder \cup {NoPage}
  /\ clean \in BOOLEAN /\ exact \in BOOLEAN
ComposerTypes ==
  /\ bubbles \in [PanelReq -> {"none", "sending", "failed"}]
  /\ editing \in {0} \cup DOMAIN rows
  /\ peerKey \in Conversation \cup {NoThread}
  /\ keys \subseteq Run

MessagesTypes == TableTypes /\ SocketTypes /\ PanelTypes /\ ComposerTypes

\* Rows are added and changed, never taken away, nor moved to another thread; a
\* message that was deleted stays so.
RowsGrow ==
  /\ rows' \in Seq(Row) /\ Len(rows) <= Len(rows') /\ Len(rows') <= MaxMessage
  /\ \A k \in DOMAIN rows : rows'[k].thread = rows[k].thread /\ (rows[k].deleted => rows'[k].deleted)

LEMMA UserIsFinite == IsFiniteSet(User) /\ \A S : S \subseteq User => IsFiniteSet(S) /\ Cardinality(S) \in Nat
<1>1. IsFiniteSet({Me}) /\ {Me} \cup {Peer} = User
  BY FS_Singleton DEF User
<1>2. IsFiniteSet(User)
  BY <1>1, FS_AddElement
<1>. QED  BY <1>2, FS_Subset, FS_CardinalityType

LEMMA ToDTOIsEntry ==
  ASSUME NEW id \in Id, NEW row \in Row, NEW viewer \in User
  PROVE  ToDTO(id, row, viewer) \in Entry
<1>1. row.votes \in [User -> Option \cup {NoVote}] /\ row.thread \in Conversation /\ row.deleted \in BOOLEAN
  BY DEF Row
<1>2. Tally(row.votes) \in [Option -> Nat]
  <2>1. ASSUME NEW o \in Option
        PROVE  Cardinality({u \in User : row.votes[u] = o}) \in Nat
    BY UserIsFinite
  <2>. QED  BY <2>1 DEF Tally
<1>. HIDE DEF Id
<1>. QED  BY <1>1, <1>2 DEF ToDTO, Entry

\* Counting a reaction or a vote leaves alone what the message is.
SameMessage(d, e) == d \in Entry /\ d.id = e.id /\ d.thread = e.thread /\ d.deleted = e.deleted

LEMMA ReactSameMessage ==
  ASSUME NEW e \in Entry, NEW by, NEW add \in BOOLEAN
  PROVE  SameMessage(React(e, by, add), e)
<1>. DEFINE own == by = Me
            more == [e EXCEPT !.count = @ + 1, !.mine = @ \/ own]
            less == [e EXCEPT !.count = @ - 1, !.mine = @ /\ ~own]
<1>1. e.count \in Nat /\ e.mine \in BOOLEAN
  BY DEF Entry
<1>2. SameMessage(e, e)
  BY DEF SameMessage
<1>3. SameMessage(more, e)
  <2>1. e.count + 1 \in Nat /\ (e.mine \/ own) \in BOOLEAN
    BY <1>1
  <2>. HIDE DEF own
  <2>. QED  BY <2>1 DEF SameMessage, Entry
<1>4. e.count # 0 => SameMessage(less, e) /\ SameMessage([less EXCEPT !.mine = FALSE], e)
  <2>1. e.count # 0 => e.count - 1 \in Nat /\ (e.mine /\ ~own) \in BOOLEAN
    BY <1>1
  <2>. HIDE DEF own
  <2>. QED  BY <2>1 DEF SameMessage, Entry
<1>. QED  BY <1>2, <1>3, <1>4 DEF React

\* What was on its way, or shown, is good when rows are added and changed.
LEMMA GoodStaysGood ==
  ASSUME MessagesTypes, RowsGrow
  PROVE  /\ DOMAIN rows \subseteq DOMAIN rows'
         /\ GoodEntry \subseteq GoodEntry' /\ GoodEvent \subseteq GoodEvent'
         /\ GoodRequest \subseteq GoodRequest' /\ GoodPage \subseteq GoodPage' /\ GoodOlder \subseteq GoodOlder'
<1>. USE DEF MessagesTypes, TableTypes
<1>1. DOMAIN rows \subseteq DOMAIN rows'
  <2>1. DOMAIN rows = 1 .. Len(rows) /\ Len(rows) \in Nat
    BY LenProperties
  <2>2. DOMAIN rows' = 1 .. Len(rows') /\ Len(rows') \in Nat
    BY LenProperties DEF RowsGrow
  <2>. QED  BY <2>1, <2>2 DEF RowsGrow
<1>2. GoodEntry \subseteq GoodEntry'
  BY <1>1 DEF GoodEntry, RowsGrow
<1>3. GoodEvent \subseteq GoodEvent'
  <2>. SUFFICES ASSUME NEW v \in GoodEvent PROVE v \in GoodEvent'
    OBVIOUS
  <2>1. v \in Event
    BY DEF GoodEvent
  <2>2. CASE v.type \in {"message", "edited"}
    BY <1>2, <2>1, <2>2 DEF GoodEvent
  <2>3. CASE v.type \notin {"message", "edited"}
    BY <1>1, <2>1, <2>3 DEF GoodEvent, RowsGrow
  <2>. QED  BY <2>2, <2>3
<1>4. GoodRequest \subseteq GoodRequest'
  BY <1>1 DEF GoodRequest, RowsGrow
<1>5. \A p \in Seq(GoodEntry) : p \in Seq(GoodEntry')
  BY <1>2, SeqMonotonic
<1>6. GoodPage \subseteq GoodPage' /\ GoodOlder \subseteq GoodOlder'
  BY <1>5 DEF GoodPage, GoodOlder
<1>. QED  BY <1>1, <1>2, <1>3, <1>4, <1>6

\* A row that is written.
LEMMA UpdatedIsRow ==
  ASSUME MessagesTypes, NEW q \in GoodRequest, q.op \in Updates
  PROVE  /\ q.id \in DOMAIN rows /\ Updated(q) \in Row /\ Updated(q).thread = rows[q.id].thread
         /\ rows[q.id].deleted => Updated(q).deleted
         /\ Updated(q).deleted => rows[q.id].deleted \/ q.op = "delete"
         /\ q.op = "delete" => Updated(q).deleted
<1>1. q \in Request /\ q.op # "send" /\ q.id \in DOMAIN rows /\ q.by \in User
  BY DEF GoodRequest, Updates, Request
<1>2. rows[q.id] \in Row
  BY <1>1, LenProperties, ElementOfSeq DEF MessagesTypes, TableTypes
<1>. DEFINE row == rows[q.id]
<1>. HIDE DEF row
<1>3. row \in Row
  BY <1>2 DEF row
<1>4. CASE q.op = "edit"
  BY <1>1, <1>3, <1>4 DEF Updated, GoodRequest, Row, row
<1>5. CASE q.op = "vote"
  <2>1. q.votes \in [User -> Option \cup {NoVote}] /\ q.arg \in Option
    BY <1>1, <1>5 DEF GoodRequest, Request
  <2>. DEFINE v == [q.votes EXCEPT ![q.by] = IF @ = q.arg THEN NoVote ELSE q.arg]
  <2>2. v \in [User -> Option \cup {NoVote}]
    BY <1>1, <2>1
  <2>3. Updated(q) = [row EXCEPT !.votes = v]
    BY <1>5 DEF Updated, row
  <2>. HIDE DEF v
  <2>. QED  BY <1>1, <1>3, <1>5, <2>2, <2>3 DEF Row, row
<1>6. CASE q.op = "delete"
  BY <1>1, <1>3, <1>6 DEF Updated, Row, row
<1>7. CASE q.op = "react"
  BY <1>1, <1>3, <1>7 DEF Updated, Row, row
<1>8. CASE q.op = "unreact"
  BY <1>1, <1>3, <1>8 DEF Updated, Row, row
<1>9. CASE q.op = "pin"
  BY <1>1, <1>3, <1>9 DEF Updated, Row, row
<1>. QED  BY <1>4, <1>5, <1>6, <1>7, <1>8, <1>9 DEF Updates

\* What a write leaves of the reactions and votes.
LEMMA UpdatedCounts ==
  ASSUME MessagesTypes, NEW q \in GoodRequest, q.op \in Updates
  PROVE  /\ q.op # "vote" => Updated(q).votes = rows[q.id].votes
         /\ q.op = "react" => Updated(q).reacted = rows[q.id].reacted \cup {q.by}
         /\ q.op = "unreact" => Updated(q).reacted = rows[q.id].reacted \ {q.by}
         /\ q.op \notin {"react", "unreact"} => Updated(q).reacted = rows[q.id].reacted
<1>1. PICK row : row = rows[q.id]
  OBVIOUS
<1>2. row \in Row
  <2>1. q.id \in DOMAIN rows
    BY DEF GoodRequest, Updates
  <2>. QED  BY <1>1, <2>1, LenProperties, ElementOfSeq DEF MessagesTypes, TableTypes
<1>3. CASE q.op = "edit"
  BY <1>1, <1>2, <1>3 DEF Updated, Row
<1>4. CASE q.op = "vote"
  BY <1>1, <1>2, <1>4 DEF Updated, Row
<1>5. CASE q.op = "delete"
  BY <1>1, <1>2, <1>5 DEF Updated, Row
<1>6. CASE q.op = "react"
  BY <1>1, <1>2, <1>6 DEF Updated, Row
<1>7. CASE q.op = "unreact"
  BY <1>1, <1>2, <1>7 DEF Updated, Row
<1>8. CASE q.op = "pin"
  BY <1>1, <1>2, <1>8 DEF Updated, Row
<1>. QED  BY <1>3, <1>4, <1>5, <1>6, <1>7, <1>8 DEF Updates

\* The votes on a message just posted.
Zero == Tally(NoVotes)

\* A message is added, or one is changed, and the event v tells of it.
Posted(id, t, v) ==
  /\ id = Len(rows) + 1 /\ DOMAIN rows = 1 .. Len(rows) /\ DOMAIN rows' = 1 .. id /\ Len(rows) \in Nat
  /\ \A k \in DOMAIN rows : rows'[k] = rows[k]
  /\ rows'[id].thread = t /\ ~rows'[id].deleted /\ rows'[id].reacted = {} /\ rows'[id].votes = NoVotes
  /\ v \in GoodEvent' /\ v.type = "message" /\ v.entry.id = id /\ v.entry.thread = t
  /\ v.entry.tally = Zero /\ v.entry.count = 0 /\ v.entry.mine = FALSE
  /\ RowsGrow /\ Broadcast(t, v)

Amended(id, t, v) ==
  /\ id \in DOMAIN rows /\ rows[id].thread = t
  /\ DOMAIN rows' = DOMAIN rows
  /\ \A k \in DOMAIN rows : rows'[k].thread = rows[k].thread /\ (k # id => rows'[k] = rows[k])
  /\ v \in GoodEvent' /\ v.type # "message" /\ EventThread(v) = t
  /\ v.type = "edited" => v.entry.id = id /\ v.entry.deleted = rows'[id].deleted
  /\ v.type = "deleted" => v.id = id /\ rows'[id].deleted
  /\ rows[id].deleted => rows'[id].deleted
  /\ rows'[id].deleted => rows[id].deleted \/ v.type = "deleted"
  /\ IF v.type = "edited" THEN v.entry.tally = Tally(rows'[id].votes) ELSE rows'[id].votes = rows[id].votes
  /\ IF v.type = "reaction"
     THEN /\ v.id = id /\ rows'[id].reacted = IF v.add THEN rows[id].reacted \cup {v.by} ELSE rows[id].reacted \ {v.by}
          /\ (v.add <=> v.by \in rows[id].reacted) => v.vain
     ELSE rows'[id].reacted = rows[id].reacted
  /\ RowsGrow /\ Broadcast(t, v)

LEMMA CreatePosts ==
  ASSUME MessagesTypes, NEW r \in Req, Create(r)
  PROVE  /\ \E id \in Nat : \E t, v : Posted(id, t, v)
         /\ req' \in [Req -> GoodRequest' \cup {Idle}]
<1>. USE DEF MessagesTypes, TableTypes
<1>. DEFINE q == req[r]
            id == Len(rows) + 1
            row == [thread |-> q.thread, author |-> q.by, body |-> q.arg, deleted |-> FALSE,
                    reacted |-> {}, votes |-> NoVotes]
            v == [type |-> "message", entry |-> ToDTO(id, row, q.by)]
<1>1. q \in GoodRequest /\ q.op = "send" /\ q.at = "read" /\ id \in Id /\ q # Idle
  BY DEF Create
<1>2. q \in Request /\ q.by \in User /\ q.thread \in Conversation /\ q.arg \in Conversation
  BY <1>1 DEF GoodRequest, Request
<1>3. row \in Row
  <2>1. NoVotes \in [User -> Option \cup {NoVote}]
    BY DEF NoVotes
  <2>. HIDE DEF q
  <2>. QED  BY <1>2, <2>1 DEF Row
<1>4. rows' = Append(rows, row) /\ Broadcast(q.thread, v) /\ Reply(r, id)
  BY DEF Create
<1>5. row.thread = q.thread /\ row.deleted = FALSE /\ row.reacted = {} /\ row.votes = NoVotes
  OBVIOUS
<1>. HIDE DEF row
<1>6. /\ rows' \in Seq(Row) /\ Len(rows') = id /\ Len(rows) \in Nat
      /\ DOMAIN rows = 1 .. Len(rows) /\ DOMAIN rows' = 1 .. id
      /\ \A k \in DOMAIN rows : rows'[k] = rows[k]
      /\ rows'[id] = row
  BY <1>3, <1>4, AppendProperties, LenProperties
<1>7. RowsGrow
  BY <1>1, <1>6 DEF RowsGrow, Id
<1>8. /\ v \in GoodEvent' /\ v.type = "message" /\ v.entry.id = id /\ v.entry.thread = q.thread
      /\ v.entry.tally = Zero /\ v.entry.count = 0 /\ v.entry.mine = FALSE
  <2>1. ToDTO(id, row, q.by) \in Entry
    BY <1>1, <1>2, <1>3, ToDTOIsEntry
  <2>2. /\ ToDTO(id, row, q.by).id = id /\ ToDTO(id, row, q.by).thread = q.thread
        /\ ToDTO(id, row, q.by).deleted = FALSE
        /\ ToDTO(id, row, q.by).tally = Zero /\ ToDTO(id, row, q.by).count = 0 /\ ToDTO(id, row, q.by).mine = FALSE
    BY <1>5 DEF ToDTO, Zero
  <2>3. id \in DOMAIN rows'
    BY <1>6
  <2>. HIDE DEF id, q
  <2>. QED  BY <1>5, <1>6, <2>1, <2>2, <2>3 DEF GoodEvent, GoodEntry, Event
<1>9. Posted(id, q.thread, v)
  BY <1>4, <1>5, <1>6, <1>7, <1>8 DEF Posted
<1>10. req' \in [Req -> GoodRequest' \cup {Idle}]
  <2>1. req \in [Req -> GoodRequest' \cup {Idle}]
    BY <1>7, GoodStaysGood
  <2>2. CASE r \in PanelReq
    <3>. DEFINE p == [q EXCEPT !.at = "answered", !.id = id]
    <3>1. req' = [req EXCEPT ![r] = p]
      BY <1>4, <2>2 DEF Reply
    <3>2. p \in Request /\ p.op = "send" /\ p.thread = q.thread /\ p.arg = q.arg /\ p.id = id
      <4>. HIDE DEF q, id
      <4>. QED  BY <1>1, <1>2 DEF Request
    <3>3. id \in DOMAIN rows' /\ rows'[id].thread = q.thread
      BY <1>5, <1>6
    <3>. HIDE DEF p, q, id
    <3>4. p \in GoodRequest'
      BY <1>2, <3>2, <3>3 DEF GoodRequest
    <3>. QED  BY <2>1, <3>1, <3>4
  <2>3. CASE r \notin PanelReq
    BY <1>4, <2>1, <2>3 DEF Reply
  <2>. QED  BY <2>2, <2>3
<1>11. id \in Nat
  BY <1>6
<1>. HIDE DEF q, id, v
<1>. QED  BY <1>9, <1>10, <1>11

LEMMA UpdateAmends ==
  ASSUME MessagesTypes, NEW r \in Req, Update(r)
  PROVE  /\ \E id \in DOMAIN rows : \E t, v : Amended(id, t, v)
         /\ req' \in [Req -> GoodRequest' \cup {Idle}]
<1>. USE DEF MessagesTypes, TableTypes
<1>. DEFINE q == req[r]
            id == q.id
            row == Updated(q)
            v == UpdateEvent(q)
<1>1. q \in GoodRequest /\ q.op \in Updates /\ q # Idle
  BY DEF Update
<1>2. q \in Request /\ q.by \in User /\ q.op # "send" /\ id \in DOMAIN rows /\ q.thread = rows[id].thread
  BY <1>1 DEF GoodRequest, Request, Updates
<1>3. /\ row \in Row /\ row.thread = rows[id].thread
      /\ rows[id].deleted => row.deleted
      /\ row.deleted => rows[id].deleted \/ q.op = "delete"
      /\ q.op = "delete" => row.deleted
  BY <1>1, UpdatedIsRow
<1>4. rows' = [rows EXCEPT ![id] = row] /\ Broadcast(q.thread, v) /\ Reply(r, id)
  BY DEF Update
<1>12. /\ q.op # "vote" => row.votes = rows[id].votes
       /\ q.op = "react" => row.reacted = rows[id].reacted \cup {q.by}
       /\ q.op = "unreact" => row.reacted = rows[id].reacted \ {q.by}
       /\ q.op \notin {"react", "unreact"} => row.reacted = rows[id].reacted
  BY <1>1, UpdatedCounts
<1>. HIDE DEF row
<1>5. DOMAIN rows = 1 .. Len(rows) /\ Len(rows) \in Nat
  BY LenProperties
<1>6. /\ rows' \in Seq(Row) /\ Len(rows') = Len(rows)
      /\ \A k \in DOMAIN rows : rows'[k] = IF k = id THEN row ELSE rows[k]
  BY <1>2, <1>3, <1>4, <1>5, ExceptSeq
<1>7. DOMAIN rows' = DOMAIN rows
  BY <1>4
<1>8. RowsGrow
  BY <1>3, <1>5, <1>6 DEF RowsGrow
<1>9. /\ v \in GoodEvent' /\ v.type # "message" /\ EventThread(v) = q.thread
      /\ v.type = "edited" => v.entry.id = id /\ v.entry.deleted = row.deleted
      /\ v.type = "deleted" => v.id = id /\ row.deleted
      /\ q.op = "delete" => v.type = "deleted"
      /\ IF v.type = "edited" THEN v.entry.tally = Tally(row.votes) ELSE row.votes = rows[id].votes
      /\ IF v.type = "reaction"
         THEN /\ v.id = id /\ row.reacted = IF v.add THEN rows[id].reacted \cup {v.by} ELSE rows[id].reacted \ {v.by}
              /\ (v.add <=> v.by \in rows[id].reacted) => v.vain
         ELSE row.reacted = rows[id].reacted
  <2>0. id \in Id /\ id \in DOMAIN rows' /\ rows'[id] = row
    BY <1>2, <1>5, <1>6, <1>7, MessagesAssumption DEF Id
  <2>1. CASE q.op \in {"edit", "pin", "vote"}
    <3>1. v = [type |-> "edited", entry |-> ToDTO(id, row, q.by)]
      BY <2>1 DEF UpdateEvent, row
    <3>2. ToDTO(id, row, q.by) \in Entry
      BY <1>2, <1>3, <2>0, ToDTOIsEntry
    <3>3. /\ ToDTO(id, row, q.by).id = id /\ ToDTO(id, row, q.by).thread = q.thread
          /\ ToDTO(id, row, q.by).deleted = row.deleted /\ ToDTO(id, row, q.by).tally = Tally(row.votes)
      BY <1>2, <1>3 DEF ToDTO
    <3>. HIDE DEF id, q, v
    <3>. QED  BY <1>2, <1>3, <1>12, <2>0, <2>1, <3>1, <3>2, <3>3 DEF GoodEvent, GoodEntry, Event, EventThread
  <2>2. CASE q.op = "delete"
    <3>1. v = [type |-> "deleted", thread |-> q.thread, id |-> id]
      BY <2>2 DEF UpdateEvent
    <3>2. q.thread \in Conversation
      BY <1>2, <1>3 DEF Row
    <3>. HIDE DEF id, q, v
    <3>. QED  BY <1>2, <1>3, <1>12, <2>0, <2>2, <3>1, <3>2 DEF GoodEvent, Event, EventThread
  <2>3. CASE q.op \in {"react", "unreact"}
    <3>. DEFINE vain == NoChange(q)
                add == q.op = "react"
    <3>1. v = [type |-> "reaction", thread |-> q.thread, id |-> id, by |-> q.by, add |-> add, vain |-> vain]
      BY <2>3 DEF UpdateEvent
    <3>2. q.thread \in Conversation
      BY <1>2, <1>3 DEF Row
    <3>3. vain \in BOOLEAN /\ add \in BOOLEAN
      BY DEF NoChange
    <3>4. (add <=> q.by \in rows[id].reacted) => vain
      BY DEF NoChange
    <3>5. row.reacted = IF add THEN rows[id].reacted \cup {q.by} ELSE rows[id].reacted \ {q.by}
      BY <1>12, <2>3
    <3>6. row.votes = rows[id].votes
      BY <1>12, <2>3
    <3>. HIDE DEF id, q, v, vain, add
    <3>7. v.type = "reaction" /\ v.thread = q.thread /\ v.id = id /\ v.by = q.by /\ v.add = add /\ v.vain = vain
      BY <3>1
    <3>8. v \in GoodEvent' /\ EventThread(v) = q.thread
      BY <1>2, <1>3, <2>0, <3>1, <3>2, <3>3 DEF GoodEvent, Event, EventThread
    <3>. QED  BY <2>3, <3>4, <3>5, <3>6, <3>7, <3>8
  <2>. QED  BY <1>1, <2>1, <2>2, <2>3 DEF Updates
<1>10. Amended(id, q.thread, v)
  BY <1>2, <1>3, <1>4, <1>6, <1>7, <1>8, <1>9 DEF Amended
<1>11. req' \in [Req -> GoodRequest' \cup {Idle}]
  <2>1. req \in [Req -> GoodRequest' \cup {Idle}]
    BY <1>8, GoodStaysGood
  <2>2. CASE r \in PanelReq
    <3>. DEFINE p == [q EXCEPT !.at = "answered", !.id = id]
    <3>1. req' = [req EXCEPT ![r] = p]
      BY <1>4, <2>2 DEF Reply
    <3>2. p \in Request /\ p.op = q.op /\ p.thread = q.thread /\ p.arg = q.arg /\ p.id = id
      BY <1>2 DEF Request
    <3>3. id \in DOMAIN rows' /\ rows'[id].thread = q.thread /\ (q.op = "delete" => rows'[id].deleted)
      BY <1>2, <1>3, <1>6, <1>7
    <3>4. (q.op = "edit" => q.arg \in Conversation) /\ (q.op = "vote" => q.arg \in Option)
      BY <1>1 DEF GoodRequest
    <3>. HIDE DEF p, q, id
    <3>5. p \in GoodRequest'
      BY <1>2, <3>2, <3>3, <3>4 DEF GoodRequest
    <3>. QED  BY <2>1, <3>1, <3>5
  <2>3. CASE r \notin PanelReq
    BY <1>4, <2>1, <2>3 DEF Reply
  <2>. QED  BY <2>2, <2>3
<1>. HIDE DEF q, id, v
<1>. QED  BY <1>2, <1>10, <1>11

\* The ids of the messages of a list.
Ids(s) == {s[i].id : i \in DOMAIN s}

\* The last messages of a thread below an id, in their order: none is left out
\* after the first of them, nor any that fewer than a page of others follow.
PageOf(s, t, below) ==
  /\ s \in Seq(GoodEntry)
  /\ \A i \in DOMAIN s : s[i].thread = t /\ s[i].id < below /\ s[i].deleted = rows[s[i].id].deleted
  /\ \A i, j \in DOMAIN s : i < j => s[i].id < s[j].id
  /\ \A i \in DOMAIN s : \A j \in DOMAIN rows :
       rows[j].thread = t /\ s[i].id < j /\ j < below => j \in Ids(s)
  /\ \A k \in DOMAIN rows :
       rows[k].thread = t /\ k < below
         /\ Cardinality({j \in DOMAIN rows : rows[j].thread = t /\ j < below /\ j > k}) < PageSize
       => k \in Ids(s)

LEMMA HistoryIsPage ==
  ASSUME MessagesTypes, NEW t, NEW below \in Nat
  PROVE  PageOf(History(t, below), t, below)
<1>. USE DEF MessagesTypes, TableTypes
<1>. DEFINE ids == {i \in DOMAIN rows : rows[i].thread = t /\ i < below}
            recent == {i \in ids : Cardinality({j \in ids : j > i}) < PageSize}
            last == Ordered(recent)
            page == History(t, below)
<1>1. /\ DOMAIN rows = 1 .. Len(rows) /\ Len(rows) \in Nat
      /\ \A k \in DOMAIN rows : rows[k] \in Row /\ k \in Id /\ k \in Nat
  BY LenProperties, ElementOfSeq, MessagesAssumption DEF Id
<1>2. recent \subseteq Nat /\ IsFiniteSet(recent) /\ IsFiniteSet(ids)
  <2>1. IsFiniteSet(DOMAIN rows)
    BY <1>1, FS_Interval
  <2>. QED  BY <1>1, <2>1, FS_Subset
<1>3. /\ DOMAIN last = 1 .. Cardinality(recent) /\ Cardinality(recent) \in Nat
      /\ \A k \in DOMAIN last : last[k] \in recent
      /\ \A i \in recent : \E k \in DOMAIN last : last[k] = i
      /\ \A k, l \in DOMAIN last : k < l => last[k] < last[l]
  BY <1>2, OrderedIsAscending
<1>4. page = [k \in DOMAIN last |-> ToDTO(last[k], rows[last[k]], Me)]
  BY DEF History
<1>. HIDE DEF last, page
<1>5. \A k \in recent :
        /\ ToDTO(k, rows[k], Me) \in GoodEntry /\ ToDTO(k, rows[k], Me).id = k
        /\ ToDTO(k, rows[k], Me).thread = rows[k].thread
        /\ ToDTO(k, rows[k], Me).deleted = rows[k].deleted
  <2>. TAKE k \in recent
  <2>1. ToDTO(k, rows[k], Me) \in Entry
    BY <1>1, ToDTOIsEntry DEF User
  <2>. QED  BY <1>1, <2>1 DEF GoodEntry, ToDTO
<1>6. /\ DOMAIN page = DOMAIN last
      /\ \A k \in DOMAIN page : /\ page[k] \in GoodEntry /\ page[k].id = last[k] /\ last[k] \in recent
                               /\ page[k].thread = rows[last[k]].thread
                               /\ page[k].deleted = rows[last[k]].deleted
  BY <1>3, <1>4, <1>5
<1>7. page \in Seq(GoodEntry)
  <2>1. page \in [1 .. Cardinality(recent) -> GoodEntry]
    BY <1>3, <1>4, <1>6
  <2>. DEFINE n == Cardinality(recent)
  <2>. HIDE DEF n
  <2>2. n \in Nat /\ page \in [1 .. n -> GoodEntry]
    BY <1>3, <2>1 DEF n
  <2>. QED  BY <2>2, SeqDef
<1>8. Ids(page) = recent
  <2>. HIDE DEF recent
  <2>1. \A k \in DOMAIN page : page[k].id \in recent
    BY <1>6
  <2>2. \A k \in recent : \E i \in DOMAIN page : page[i].id = k
    BY <1>3, <1>6
  <2>. QED  BY <2>1, <2>2 DEF Ids
<1>9. ASSUME NEW i \in DOMAIN page, NEW j \in DOMAIN rows,
             rows[j].thread = t, page[i].id < j, j < below
      PROVE  j \in Ids(page)
  <2>. DEFINE A == {k \in ids : k > j}
              B == {k \in ids : k > last[i]}
  <2>1. last[i] \in ids /\ last[i] \in Nat /\ j \in Nat /\ last[i] < j /\ j \in ids
    BY <1>1, <1>6, <1>9
  <2>2. A \in SUBSET B /\ B \in SUBSET ids
    BY <1>1, <2>1
  <2>3. IsFiniteSet(B) /\ Cardinality(A) <= Cardinality(B) /\ Cardinality(A) \in Nat /\ Cardinality(B) \in Nat
    BY <1>2, <2>2, FS_Subset, FS_CardinalityType
  <2>4. Cardinality(B) < PageSize
    BY <1>6
  <2>5. Cardinality(A) < PageSize
    BY <2>3, <2>4, MessagesAssumption
  <2>. QED  BY <1>8, <2>1, <2>5
<1>10. ASSUME NEW k \in DOMAIN rows, rows[k].thread = t, k < below,
              Cardinality({j \in DOMAIN rows : rows[j].thread = t /\ j < below /\ j > k}) < PageSize
       PROVE  k \in Ids(page)
  <2>1. {j \in DOMAIN rows : rows[j].thread = t /\ j < below /\ j > k} = {j \in ids : j > k}
    OBVIOUS
  <2>. QED  BY <1>8, <1>10, <2>1
<1>11. /\ \A i \in DOMAIN page : page[i].thread = t /\ page[i].id < below
                               /\ page[i].deleted = rows[page[i].id].deleted
       /\ \A i, j \in DOMAIN page : i < j => page[i].id < page[j].id
  <2>1. \A k \in recent : rows[k].thread = t /\ k < below
    OBVIOUS
  <2>. HIDE DEF recent
  <2>. QED  BY <1>3, <1>6, <2>1
<1>. HIDE DEF recent
<1>. QED  BY <1>7, <1>9, <1>10, <1>11 DEF PageOf, page

\* With the reactions attached it is the same page.
LEMMA AttachedIsPage ==
  ASSUME MessagesTypes, NEW s \in Seq(GoodEntry)
  PROVE  /\ AttachReactions(s) \in Seq(GoodEntry)
         /\ DOMAIN AttachReactions(s) = DOMAIN s
         /\ \A i \in DOMAIN s : SameMessage(AttachReactions(s)[i], s[i])
<1>. DEFINE a == AttachReactions(s)
<1>1. DOMAIN s = 1 .. Len(s) /\ Len(s) \in Nat /\ \A i \in DOMAIN s : s[i] \in GoodEntry
  BY LenProperties, ElementOfSeq
<1>2. ASSUME NEW i \in DOMAIN s
      PROVE  SameMessage(a[i], s[i]) /\ a[i] \in GoodEntry
  <2>. DEFINE reacted == rows[s[i].id].reacted
              n == Cardinality(reacted)
              mine == Me \in reacted
  <2>1. s[i] \in Entry /\ s[i].id \in DOMAIN rows
    BY <1>1 DEF GoodEntry
  <2>2. rows[s[i].id] \in Row
    BY <2>1, LenProperties, ElementOfSeq DEF MessagesTypes, TableTypes
  <2>3. reacted \subseteq User
    BY <2>2 DEF Row
  <2>4. n \in Nat /\ mine \in BOOLEAN
    BY <2>3, UserIsFinite
  <2>5. a[i] = [s[i] EXCEPT !.count = n, !.mine = mine]
    BY DEF AttachReactions
  <2>. HIDE DEF a, n, mine
  <2>6. SameMessage(a[i], s[i])
    BY <2>1, <2>4, <2>5 DEF SameMessage, Entry
  <2>. QED  BY <1>1, <2>6 DEF SameMessage, GoodEntry
<1>3. DOMAIN a = DOMAIN s
  BY DEF AttachReactions
<1>4. a \in [1 .. Len(s) -> GoodEntry]
  <2>1. a = [i \in DOMAIN s |-> a[i]]
    BY DEF AttachReactions
  <2>. HIDE DEF a
  <2>. QED  BY <1>1, <1>2, <2>1
<1>. HIDE DEF a
<1>5. a \in Seq(GoodEntry)
  BY <1>1, <1>4, SeqDef
<1>. QED  BY <1>2, <1>3, <1>5 DEF a

LEMMA RowsAreRows ==
  ASSUME MessagesTypes
  PROVE  /\ DOMAIN rows = 1 .. Len(rows) /\ Len(rows) \in Nat /\ Len(rows) <= MaxMessage
         /\ \A k \in DOMAIN rows : rows[k] \in Row /\ k \in Id /\ k \in Nat
BY LenProperties, ElementOfSeq, MessagesAssumption DEF MessagesTypes, TableTypes, Id

LEMMA GoodUnchanged ==
  ASSUME UNCHANGED rows
  PROVE  /\ GoodEntry' = GoodEntry /\ GoodEvent' = GoodEvent /\ GoodRequest' = GoodRequest
         /\ GoodPage' = GoodPage /\ GoodOlder' = GoodOlder
BY DEF GoodEntry, GoodEvent, GoodRequest, GoodPage, GoodOlder

LEMMA SameRowsGrow ==
  ASSUME MessagesTypes, UNCHANGED rows
  PROVE  RowsGrow
<1>1. Len(rows) \in Nat
  BY LenProperties DEF MessagesTypes, TableTypes
<1>. QED  BY <1>1 DEF RowsGrow, MessagesTypes, TableTypes

\* What has a type keeps it when it does not change, though rows are added.
LEMMA SocketKept ==
  ASSUME MessagesTypes, RowsGrow, UNCHANGED socket
  PROVE  SocketTypes'
<1>1. events \in Seq(GoodEvent) /\ GoodEvent \subseteq GoodEvent'
  BY GoodStaysGood DEF MessagesTypes, SocketTypes
<1>2. events' \in Seq(GoodEvent')
  BY <1>1, SeqMonotonic DEF socket
<1>. QED  BY <1>2 DEF MessagesTypes, SocketTypes, socket

LEMMA PanelKept ==
  ASSUME MessagesTypes, RowsGrow, UNCHANGED <<panel, history>>
  PROVE  PanelTypes'
<1>1. list \in Seq(GoodEntry) /\ GoodEntry \subseteq GoodEntry'
  BY GoodStaysGood DEF MessagesTypes, PanelTypes
<1>2. list' \in Seq(GoodEntry')
  BY <1>1, SeqMonotonic DEF panel
<1>3. fetches' \in [Run -> GoodPage' \cup {NoPage}] /\ older' \in GoodOlder' \cup {NoPage}
  BY GoodStaysGood DEF MessagesTypes, PanelTypes, panel
<1>. QED  BY <1>2, <1>3 DEF MessagesTypes, PanelTypes, panel, history

LEMMA ComposerKept ==
  ASSUME MessagesTypes, RowsGrow, UNCHANGED composer
  PROVE  ComposerTypes'
BY GoodStaysGood DEF MessagesTypes, ComposerTypes, composer

LEMMA TableKept ==
  ASSUME MessagesTypes, UNCHANGED <<does, rows, made>>, req' \in [Req -> GoodRequest \cup {Idle}]
  PROVE  TableTypes'
BY GoodUnchanged DEF MessagesTypes, TableTypes

\* A request that is new, or is no more what it was.
LEMMA BegunIsTyped ==
  ASSUME MessagesTypes, NEW r \in Req, NEW q \in GoodRequest, Begin(r, q), UNCHANGED <<does, rows>>
  PROVE  TableTypes'
<1>1. does.requests \in Nat /\ made \in Nat /\ made <= does.requests /\ made < does.requests
  BY DEF MessagesTypes, TableTypes, Scenario, Begin
<1>2. made' \in 0 .. does'.requests
  BY <1>1 DEF Begin
<1>3. req' \in [Req -> GoodRequest \cup {Idle}]
  BY DEF MessagesTypes, TableTypes, Begin
<1>. QED  BY <1>2, <1>3, GoodUnchanged DEF MessagesTypes, TableTypes

LEMMA FrameIsRequest ==
  ASSUME MessagesTypes, NEW op \in Updates, NEW u \in User, NEW id \in DOMAIN rows,
         NEW arg \in Conversation \cup Option \cup {NoThread},
         NEW votes \in [User -> Option \cup {NoVote}], NEW a \in {"sent", "read"},
         op = "edit" => arg \in Conversation, op = "vote" => arg \in Option
  PROVE  Frame(op, u, rows[id].thread, id, arg, votes, a) \in GoodRequest
<1>1. rows[id] \in Row /\ id \in Id
  BY LenProperties, ElementOfSeq, MessagesAssumption DEF MessagesTypes, TableTypes, Id
<1>. DEFINE t == rows[id].thread
            q == Frame(op, u, t, id, arg, votes, a)
<1>2. t \in Conversation
  BY <1>1 DEF Row
<1>. HIDE DEF t
<1>3. q \in Request
  BY <1>1, <1>2 DEF Frame, Request
<1>4. q.op = op /\ q.op # "send" /\ q.id = id /\ q.thread = t /\ q.arg = arg /\ q.at # "answered"
  BY DEF Frame, Updates
<1>. HIDE DEF q
<1>5. q \in GoodRequest
  BY <1>3, <1>4 DEF GoodRequest, t
<1>. QED  BY <1>5 DEF q, t

LEMMA NoVotesAreVotes == NoVotes \in [User -> Option \cup {NoVote}]
BY DEF NoVotes

LEMMA SendIsRequest ==
  ASSUME NEW u \in User, NEW t \in Conversation, NEW arg \in Conversation, NEW a \in {"sent", "read"}
  PROVE  Frame("send", u, t, 0, arg, NoVotes, a) \in GoodRequest
<1>. DEFINE q == Frame("send", u, t, 0, arg, NoVotes, a)
<1>1. q \in Request
  BY NoVotesAreVotes DEF Frame, Request
<1>2. q.op = "send" /\ q.thread = t /\ q.arg = arg /\ q.at # "answered"
  BY DEF Frame
<1>. HIDE DEF q
<1>3. q \in GoodRequest
  BY <1>1, <1>2 DEF GoodRequest
<1>. QED  BY <1>3 DEF q

\* What the gateway pushes is typed.
LEMMA BroadcastIsTyped ==
  ASSUME MessagesTypes, RowsGrow, NEW t, NEW v \in GoodEvent', Broadcast(t, v), UNCHANGED heard
  PROVE  SocketTypes'
<1>1. events \in Seq(GoodEvent) /\ GoodEvent \subseteq GoodEvent'
  BY GoodStaysGood DEF MessagesTypes, SocketTypes
<1>2. events \in Seq(GoodEvent')
  BY <1>1, SeqMonotonic
<1>3. events' \in Seq(GoodEvent')
  BY <1>2, AppendProperties DEF Broadcast
<1>. QED  BY <1>3 DEF MessagesTypes, SocketTypes

\* The steps of the server keep the types.
LEMMA ServerIsTyped ==
  ASSUME MessagesTypes, OfServer
  PROVE  MessagesTypes' /\ RowsGrow
<1>1. ASSUME NEW r \in OtherReq, NEW u \in User, NEW id \in Id, NEW op \in Updates,
             NEW arg \in Conversation \cup Option \cup {NoThread},
             op = "edit" /\ id \in DOMAIN rows => arg = rows[id].thread, op = "vote" => arg \in Option,
             OtherAsks(r, op, u, id, arg)
      PROVE  MessagesTypes' /\ RowsGrow
  <2>1. id \in DOMAIN rows
    BY <1>1, LenProperties DEF OtherAsks, Admits, MessagesTypes, TableTypes
  <2>2. rows[id] \in Row
    BY <2>1, LenProperties, ElementOfSeq DEF MessagesTypes, TableTypes
  <2>3. Frame(op, u, rows[id].thread, id, arg, rows[id].votes, "read") \in GoodRequest
    BY <1>1, <2>1, <2>2, FrameIsRequest DEF Row
  <2>4. UNCHANGED <<does, rows, socket, composer, panel, history>> /\ r \in Req
    BY <1>1 DEF OtherAsks, Req
  <2>5. TableTypes'
    BY <1>1, <2>3, <2>4, BegunIsTyped DEF OtherAsks
  <2>6. RowsGrow
    BY <2>4, SameRowsGrow
  <2>. QED  BY <2>4, <2>5, <2>6, SocketKept, PanelKept, ComposerKept DEF MessagesTypes
<1>2. ASSUME NEW r \in OtherReq, NEW u \in User, NEW t \in Conversation, OtherSends(r, u, t)
      PROVE  MessagesTypes' /\ RowsGrow
  <2>1. UNCHANGED <<does, rows, socket, composer, panel, history>> /\ r \in Req
    BY <1>2 DEF OtherSends, Req
  <2>2. TableTypes'
    BY <1>2, <2>1, SendIsRequest, BegunIsTyped DEF OtherSends
  <2>3. RowsGrow
    BY <2>1, SameRowsGrow
  <2>. QED  BY <2>1, <2>2, <2>3, SocketKept, PanelKept, ComposerKept DEF MessagesTypes
<1>3. ASSUME NEW r \in Req, Read(r) \/ Fail(r)
      PROVE  MessagesTypes' /\ RowsGrow
  <2>1. UNCHANGED <<does, rows, made, socket, composer, panel, history>>
    BY <1>3 DEF Read, Fail
  <2>. DEFINE q == req[r]
  <2>2. q \in GoodRequest /\ q # Idle
    BY <1>3 DEF Read, Fail, MessagesTypes, TableTypes
  <2>3. PICK p : p \in GoodRequest /\ req' = [req EXCEPT ![r] = p]
    <3>1. CASE req' = [req EXCEPT ![r] = [q EXCEPT !.at = "failed"]]
      <4>. HIDE DEF q
      <4>1. [q EXCEPT !.at = "failed"] \in GoodRequest
        BY <2>2 DEF GoodRequest, Request
      <4>. QED  BY <3>1, <4>1
    <3>2. CASE req' = [req EXCEPT ![r] = [q EXCEPT !.at = "read"]]
      <4>. HIDE DEF q
      <4>1. [q EXCEPT !.at = "read"] \in GoodRequest
        BY <2>2 DEF GoodRequest, Request
      <4>. QED  BY <3>2, <4>1
    <3>3. CASE q.op # "send" /\ req' = [req EXCEPT ![r] = [q EXCEPT !.at = "read", !.votes = rows[q.id].votes]]
      <4>. HIDE DEF q
      <4>1. q.id \in DOMAIN rows
        BY <2>2, <3>3 DEF GoodRequest
      <4>2. rows[q.id].votes \in [User -> Option \cup {NoVote}]
        <5>1. rows[q.id] \in Row
          BY <4>1, RowsAreRows
        <5>. QED  BY <5>1 DEF Row
      <4>3. [q EXCEPT !.at = "read", !.votes = rows[q.id].votes] \in GoodRequest
        BY <2>2, <4>2 DEF GoodRequest, Request
      <4>. QED  BY <3>3, <4>3
    <3>. QED  BY <1>3, <3>1, <3>2, <3>3 DEF Read, Fail
  <2>4. req' \in [Req -> GoodRequest \cup {Idle}]
    BY <2>3 DEF MessagesTypes, TableTypes
  <2>5. RowsGrow
    BY <2>1, SameRowsGrow
  <2>. QED  BY <2>1, <2>4, <2>5, TableKept, SocketKept, PanelKept, ComposerKept DEF MessagesTypes
<1>4. ASSUME NEW r \in Req, Create(r) \/ Update(r)
      PROVE  MessagesTypes' /\ RowsGrow
  <2>1. UNCHANGED <<does, made, heard, composer, panel, history>>
    BY <1>4 DEF Create, Update
  <2>2. /\ RowsGrow /\ req' \in [Req -> GoodRequest' \cup {Idle}]
        /\ \E t : \E v \in GoodEvent' : Broadcast(t, v)
    BY <1>4, CreatePosts, UpdateAmends DEF Posted, Amended
  <2>3. TableTypes'
    BY <2>1, <2>2 DEF MessagesTypes, TableTypes, RowsGrow
  <2>4. SocketTypes'
    BY <2>1, <2>2, BroadcastIsTyped
  <2>. QED  BY <2>1, <2>2, <2>3, <2>4, PanelKept, ComposerKept DEF MessagesTypes
<1>5. ASSUME NEW n \in Run, ReadHistory(n) \/ ReadReactions(n)
      PROVE  MessagesTypes' /\ RowsGrow
  <2>1. UNCHANGED <<does, rows, made, req, socket, composer, mount, open, list, loading, hasMore, older, history>>
    BY <1>5 DEF ReadHistory, ReadReactions, table
  <2>. DEFINE f == fetches[n]
  <2>2. f \in GoodPage /\ f \in Page /\ f.page \in Seq(GoodEntry)
    BY <1>5 DEF ReadHistory, ReadReactions, MessagesTypes, PanelTypes, GoodPage
  <2>3. PICK g : g \in GoodPage /\ fetches' = [fetches EXCEPT ![n] = g]
    <3>. HIDE DEF f
    <3>0. GoodEntry \subseteq Entry
      BY DEF GoodEntry
    <3>1. CASE ReadHistory(n)
      <4>. DEFINE p == History(f.thread, MaxMessage + 1)
      <4>1. p \in Seq(GoodEntry)
        BY HistoryIsPage, MessagesAssumption DEF PageOf
      <4>2. p \in Seq(Entry)
        BY <3>0, <4>1, SeqMonotonic
      <4>. DEFINE c == heard = f.thread /\ Timely(f.thread)
                  g == [f EXCEPT !.at = "messages", !.clean = c, !.page = p]
      <4>3. c \in BOOLEAN
        OBVIOUS
      <4>4. fetches' = [fetches EXCEPT ![n] = g]
        BY <3>1 DEF ReadHistory, f
      <4>. HIDE DEF p, c
      <4>5. g \in GoodPage
        BY <2>2, <4>1, <4>2, <4>3 DEF GoodPage, Page
      <4>. QED  BY <4>4, <4>5
    <3>2. CASE ReadReactions(n)
      <4>. DEFINE p == AttachReactions(f.page)
      <4>1. p \in Seq(GoodEntry)
        BY <2>2, AttachedIsPage
      <4>2. p \in Seq(Entry)
        BY <3>0, <4>1, SeqMonotonic
      <4>. DEFINE c == NoReactionUnderWay
                  g == [f EXCEPT !.at = "ready", !.page = p, !.exact = c]
      <4>3. c \in BOOLEAN
        BY DEF NoReactionUnderWay
      <4>4. fetches' = [fetches EXCEPT ![n] = g]
        BY <3>2 DEF ReadReactions, f
      <4>. HIDE DEF p, c
      <4>5. g \in GoodPage
        BY <2>2, <4>1, <4>2, <4>3 DEF GoodPage, Page
      <4>. QED  BY <4>4, <4>5
    <3>. QED  BY <1>5, <3>1, <3>2
  <2>4. fetches' \in [Run -> GoodPage \cup {NoPage}]
    BY <2>3 DEF MessagesTypes, PanelTypes
  <2>5. PanelTypes'
    BY <2>1, <2>4, GoodUnchanged DEF MessagesTypes, PanelTypes, history
  <2>6. RowsGrow
    BY <2>1, SameRowsGrow
  <2>. QED  BY <2>1, <2>5, <2>6, TableKept, SocketKept, ComposerKept DEF MessagesTypes, TableTypes
<1>6. ASSUME ReadOlder
      PROVE  MessagesTypes' /\ RowsGrow
  <2>1. UNCHANGED <<does, rows, made, req, socket, composer, mount, open, list, loading, hasMore, fetches, history>>
    BY <1>6 DEF ReadOlder, table
  <2>2. older \in GoodOlder /\ older \in OlderPage /\ older.before \in Id /\ older.before \in Nat
    BY <1>6 DEF ReadOlder, MessagesTypes, PanelTypes, GoodOlder, OlderPage, Id
  <2>. DEFINE p == AttachReactions(History(older.thread, older.before))
  <2>3. p \in Seq(GoodEntry)
    BY <2>2, HistoryIsPage, AttachedIsPage DEF PageOf
  <2>4. p \in Seq(Entry)
    BY <2>3, SeqMonotonic DEF GoodEntry
  <2>. DEFINE c == NoReactionUnderWay
  <2>5. c \in BOOLEAN
    BY DEF NoReactionUnderWay
  <2>6. older' = [older EXCEPT !.at = "ready", !.exact = c, !.page = p]
    BY <1>6 DEF ReadOlder
  <2>. HIDE DEF p, c
  <2>7. older' \in GoodOlder
    BY <2>2, <2>3, <2>4, <2>5, <2>6 DEF GoodOlder, OlderPage
  <2>8. PanelTypes'
    BY <2>1, <2>7, GoodUnchanged DEF MessagesTypes, PanelTypes, history
  <2>9. RowsGrow
    BY <2>1, SameRowsGrow
  <2>. QED  BY <2>1, <2>8, <2>9, TableKept, SocketKept, ComposerKept DEF MessagesTypes, TableTypes
<1>7. ASSUME Serve
      PROVE  MessagesTypes' /\ RowsGrow
  <2>1. UNCHANGED <<does, rows, made, req, events, composer, panel, history>> /\ heard' = open
    BY <1>7 DEF Serve, table
  <2>2. SocketTypes'
    BY <2>1, GoodUnchanged DEF MessagesTypes, SocketTypes, PanelTypes
  <2>3. RowsGrow
    BY <2>1, SameRowsGrow
  <2>. QED  BY <2>1, <2>2, <2>3, TableKept, PanelKept, ComposerKept DEF MessagesTypes, TableTypes
<1>8. ASSUME Cut
      PROVE  MessagesTypes' /\ RowsGrow
  <2>1. /\ UNCHANGED <<does, rows, made, req, composer, mount, open, list, loading, hasMore, older>>
        /\ heard' = NoThread /\ events' = <<>> /\ clean' = FALSE /\ exact' = FALSE
        /\ fetches' = [n \in Run |-> IF fetches[n] = NoPage THEN NoPage ELSE [fetches[n] EXCEPT !.clean = FALSE]]
    BY <1>8 DEF Cut, table
  <2>2. SocketTypes'
    BY <2>1, EmptySeq DEF SocketTypes
  <2>3. ASSUME NEW f \in GoodPage
        PROVE  [f EXCEPT !.clean = FALSE] \in GoodPage
    BY DEF GoodPage, Page
  <2>4. fetches' \in [Run -> GoodPage \cup {NoPage}]
    BY <2>1, <2>3 DEF MessagesTypes, PanelTypes
  <2>5. PanelTypes'
    BY <2>1, <2>4, GoodUnchanged DEF MessagesTypes, PanelTypes
  <2>6. RowsGrow
    BY <2>1, SameRowsGrow
  <2>. QED  BY <2>1, <2>2, <2>5, <2>6, TableKept, ComposerKept DEF MessagesTypes, TableTypes
<1>9. ASSUME NEW r \in OtherReq, NEW u \in User, NEW id \in Id, OtherAsks(r, "edit", u, id, rows[id].thread)
      PROVE  MessagesTypes' /\ RowsGrow
  <2>1. id \in DOMAIN rows
    BY <1>9, LenProperties DEF OtherAsks, Admits, MessagesTypes, TableTypes
  <2>2. rows[id].thread \in Conversation
    <3>1. rows[id] \in Row
      BY <2>1, RowsAreRows
    <3>. QED  BY <3>1 DEF Row
  <2>. QED  BY <1>1, <1>9, <2>2 DEF Updates
<1>10. ASSUME NEW r \in OtherReq, NEW u \in User, NEW id \in Id,
              \/ \E op \in Updates \ {"edit", "vote"} : OtherAsks(r, op, u, id, NoThread)
              \/ \E o \in Option : OtherAsks(r, "vote", u, id, o)
       PROVE  MessagesTypes' /\ RowsGrow
  <2>1. ASSUME NEW op \in Updates \ {"edit", "vote"}, OtherAsks(r, op, u, id, NoThread)
        PROVE  MessagesTypes' /\ RowsGrow
    <3>1. op \in Updates /\ op # "edit" /\ op # "vote" /\ NoThread \in Conversation \cup Option \cup {NoThread}
      OBVIOUS
    <3>. HIDE DEF Updates
    <3>. QED  BY <1>1, <2>1, <3>1
  <2>2. ASSUME NEW o \in Option, OtherAsks(r, "vote", u, id, o)
        PROVE  MessagesTypes' /\ RowsGrow
    BY <1>1, <2>2 DEF Updates
  <2>. QED  BY <1>10, <2>1, <2>2
<1>. QED
  BY <1>2, <1>3, <1>4, <1>5, <1>6, <1>7, <1>8, <1>9, <1>10 DEF OfServer

-----------------------------------------------------------------------------
(* What the panel does with its list.                                      *)

LEMMA ListIsGood ==
  ASSUME MessagesTypes
  PROVE  /\ list \in Seq(GoodEntry) /\ DOMAIN list = 1 .. Len(list) /\ Len(list) \in Nat
         /\ \A i \in DOMAIN list : /\ list[i] \in GoodEntry /\ list[i] \in Entry
                                 /\ list[i].id \in DOMAIN rows /\ list[i].thread = rows[list[i].id].thread
BY LenProperties, ElementOfSeq DEF MessagesTypes, PanelTypes, GoodEntry

\* A list made of as many entries as another.
LEMMA PointwiseSeq ==
  ASSUME NEW A, NEW B, NEW s \in Seq(A), NEW m, m = [i \in DOMAIN s |-> m[i]], \A i \in DOMAIN s : m[i] \in B
  PROVE  m \in Seq(B)
<1>1. DOMAIN s = 1 .. Len(s) /\ Len(s) \in Nat
  BY LenProperties
<1>2. m \in [1 .. Len(s) -> B]
  BY <1>1
<1>. DEFINE n == Len(s)
<1>. HIDE DEF n
<1>3. n \in Nat /\ m \in [1 .. n -> B]
  BY <1>1, <1>2 DEF n
<1>. QED  BY <1>3, SeqDef

\* The messages of the list stay, and what says that they are deleted.
Untouched(l) == l \in Seq(GoodEntry) /\ DOMAIN l = DOMAIN list /\ \A i \in DOMAIN list : SameMessage(l[i], list[i])

\* A message is added unless it is in the list.
Inserted(e, l) ==
  /\ l \in Seq(GoodEntry)
  /\ \/ l = list /\ \E i \in DOMAIN list : list[i].id = e.id
     \/ /\ DOMAIN l = 1 .. Len(list) + 1 /\ l[Len(list) + 1] = e
        /\ \A i \in DOMAIN list : l[i] = list[i] /\ list[i].id # e.id

\* Those with an id are marked as deleted or not, and the others left alone.
Marked(id, deleted, l) ==
  /\ l \in Seq(GoodEntry) /\ DOMAIN l = DOMAIN list
  /\ \A i \in DOMAIN list : /\ l[i].id = list[i].id /\ l[i].thread = list[i].thread
                          /\ l[i].deleted = IF list[i].id = id THEN deleted ELSE list[i].deleted

LEMMA InsertInserts ==
  ASSUME MessagesTypes, NEW e \in GoodEntry
  PROVE  Inserted(e, Insert(e))
<1>1. CASE \E i \in DOMAIN list : list[i].id = e.id
  BY <1>1, ListIsGood DEF Insert, Inserted
<1>2. CASE ~ \E i \in DOMAIN list : list[i].id = e.id
  <2>1. Insert(e) = Append(list, e)
    BY <1>2 DEF Insert
  <2>2. /\ Append(list, e) \in Seq(GoodEntry) /\ Len(Append(list, e)) = Len(list) + 1
        /\ \A i \in 1 .. Len(list) : Append(list, e)[i] = list[i]
        /\ Append(list, e)[Len(list) + 1] = e
    BY ListIsGood, AppendProperties
  <2>3. DOMAIN Append(list, e) = 1 .. Len(list) + 1
    BY <2>2, LenProperties
  <2>. QED  BY <1>2, <2>1, <2>2, <2>3, ListIsGood DEF Inserted
<1>. QED  BY <1>1, <1>2

\* The tombstone, of an answer or an event.
LEMMA MarkingDeleted ==
  ASSUME MessagesTypes, NEW id
  PROVE  Marked(id, TRUE, MapEntry(id, LAMBDA e : [e EXCEPT !.deleted = TRUE]))
<1>. DEFINE l == MapEntry(id, LAMBDA e : [e EXCEPT !.deleted = TRUE])
<1>1. l = [i \in DOMAIN list |-> IF list[i].id = id THEN [list[i] EXCEPT !.deleted = TRUE] ELSE list[i]]
  BY DEF MapEntry
<1>2. ASSUME NEW i \in DOMAIN list
      PROVE  /\ l[i] \in GoodEntry /\ l[i].id = list[i].id /\ l[i].thread = list[i].thread
             /\ l[i].deleted = IF list[i].id = id THEN TRUE ELSE list[i].deleted
  <2>1. list[i] \in Entry /\ list[i].id \in DOMAIN rows /\ list[i].thread = rows[list[i].id].thread
    BY ListIsGood
  <2>2. l[i] = IF list[i].id = id THEN [list[i] EXCEPT !.deleted = TRUE] ELSE list[i]
    BY <1>1
  <2>. HIDE DEF l
  <2>. QED  BY <2>1, <2>2 DEF GoodEntry, Entry
<1>. HIDE DEF l
<1>3. l = [i \in DOMAIN list |-> l[i]] /\ DOMAIN l = DOMAIN list
  BY <1>1
<1>4. l \in Seq(GoodEntry)
  BY <1>2, <1>3, ListIsGood, PointwiseSeq
<1>5. Marked(id, TRUE, l)
  BY <1>2, <1>3, <1>4 DEF Marked
<1>. QED  BY <1>5 DEF l

\* What an event makes of the list.
AppliedTo(v, l) ==
  /\ l \in Seq(GoodEntry)
  /\ v.type = "message" => Inserted(v.entry, l)
  /\ v.type = "edited" => Marked(v.entry.id, v.entry.deleted, l)
  /\ v.type = "deleted" => Marked(v.id, TRUE, l)
  /\ v.type = "reaction" => Untouched(l)

LEMMA AppliedIsApplied ==
  ASSUME MessagesTypes, NEW v \in GoodEvent
  PROVE  AppliedTo(v, Applied(v))
<1>1. CASE v.type = "message"
  BY <1>1, InsertInserts DEF Applied, AppliedTo, GoodEvent, Inserted
<1>2. CASE v.type = "edited"
  <2>. DEFINE l == Applied(v)
  <2>1. l = [i \in DOMAIN list |-> IF list[i].id = v.entry.id
                                   THEN [v.entry EXCEPT !.count = list[i].count, !.mine = list[i].mine]
                                   ELSE list[i]]
    BY <1>2 DEF Applied, MapEntry
  <2>2. v.entry \in Entry /\ v.entry.id \in DOMAIN rows /\ v.entry.thread = rows[v.entry.id].thread
    BY <1>2 DEF GoodEvent, GoodEntry
  <2>3. ASSUME NEW i \in DOMAIN list
        PROVE  /\ l[i] \in GoodEntry /\ l[i].id = list[i].id /\ l[i].thread = list[i].thread
               /\ l[i].deleted = IF list[i].id = v.entry.id THEN v.entry.deleted ELSE list[i].deleted
    <3>1. list[i] \in Entry /\ list[i].id \in DOMAIN rows /\ list[i].thread = rows[list[i].id].thread
      BY ListIsGood
    <3>2. l[i] = IF list[i].id = v.entry.id
                 THEN [v.entry EXCEPT !.count = list[i].count, !.mine = list[i].mine] ELSE list[i]
      BY <2>1
    <3>. HIDE DEF l
    <3>. QED  BY <2>2, <3>1, <3>2 DEF GoodEntry, Entry
  <2>. HIDE DEF l
  <2>4. l = [i \in DOMAIN list |-> l[i]] /\ DOMAIN l = DOMAIN list
    BY <2>1
  <2>5. l \in Seq(GoodEntry)
    BY <2>3, <2>4, ListIsGood, PointwiseSeq
  <2>6. Marked(v.entry.id, v.entry.deleted, l)
    BY <2>3, <2>4, <2>5 DEF Marked
  <2>. QED  BY <1>2, <2>5, <2>6 DEF AppliedTo, l
<1>3. CASE v.type = "deleted"
  BY <1>3, MarkingDeleted DEF Applied, AppliedTo, Marked
<1>4. CASE v.type = "reaction"
  <2>. DEFINE l == Applied(v)
  <2>1. l = [i \in DOMAIN list |-> IF list[i].id = v.id THEN React(list[i], v.by, v.add) ELSE list[i]]
    BY <1>4 DEF Applied, MapEntry
  <2>2. v.add \in BOOLEAN
    BY <1>4 DEF GoodEvent, Event
  <2>3. ASSUME NEW i \in DOMAIN list
        PROVE  l[i] \in GoodEntry /\ SameMessage(l[i], list[i])
    <3>1. list[i] \in Entry /\ list[i].id \in DOMAIN rows /\ list[i].thread = rows[list[i].id].thread
      BY ListIsGood
    <3>2. SameMessage(React(list[i], v.by, v.add), list[i])
      BY <2>2, <3>1, ReactSameMessage
    <3>3. SameMessage(l[i], list[i])
      BY <2>1, <3>1, <3>2 DEF SameMessage
    <3>. HIDE DEF l
    <3>. QED  BY <3>1, <3>3 DEF SameMessage, GoodEntry
  <2>. HIDE DEF l
  <2>4. l = [i \in DOMAIN list |-> l[i]] /\ DOMAIN l = DOMAIN list
    BY <2>1
  <2>5. l \in Seq(GoodEntry)
    BY <2>3, <2>4, ListIsGood, PointwiseSeq
  <2>6. Untouched(l)
    BY <2>3, <2>4, <2>5 DEF Untouched
  <2>. QED  BY <1>4, <2>5, <2>6 DEF AppliedTo, l
<1>. QED  BY <1>1, <1>2, <1>3, <1>4 DEF GoodEvent, Event

\* A request about a message shown: the messages of the list stay.
Asked(r) ==
  /\ \E q \in GoodRequest : Begin(r, q)
  /\ Untouched(list')
  /\ UNCHANGED <<does, rows, socket, composer, mount, open, loading, hasMore, fetches, older, history>>

LEMMA AskingForOne ==
  ASSUME MessagesTypes, NEW id \in DOMAIN rows, NEW op \in Updates \ {"edit"},
         NEW arg \in Option \cup {NoThread}, op = "vote" => arg \in Option
  PROVE  Frame(op, Me, rows[id].thread, id, arg, NoVotes, "sent") \in GoodRequest
BY FrameIsRequest, NoVotesAreVotes DEF User

LEMMA ShownExists ==
  ASSUME MessagesTypes, NEW id, Shown(id)
  PROVE  id \in DOMAIN rows
BY ListIsGood DEF Shown

LEMMA ToggleAsks ==
  ASSUME MessagesTypes, NEW r \in PanelReq, NEW id, ToggleReaction(r, id)
  PROVE  Asked(r)
<1>1. id \in DOMAIN rows
  BY ShownExists DEF ToggleReaction, Ask
<1>2. \A op \in {"react", "unreact"} : Frame(op, Me, rows[id].thread, id, NoThread, NoVotes, "sent") \in GoodRequest
  <2>. SUFFICES ASSUME NEW op \in {"react", "unreact"}
                PROVE  Frame(op, Me, rows[id].thread, id, NoThread, NoVotes, "sent") \in GoodRequest
    OBVIOUS
  <2>1. op \in Updates \ {"edit"} /\ op # "vote"
    BY DEF Updates
  <2>. QED  BY <1>1, <2>1, AskingForOne
<1>3. \E q \in GoodRequest : Begin(r, q)
  BY <1>2 DEF ToggleReaction, Ask
<1>4. Untouched(list')
  <2>1. \/ list' = [i \in DOMAIN list |-> IF list[i].id = id
                                          THEN IF list[i].count = 0 THEN list[i]
                                               ELSE [list[i] EXCEPT !.count = @ - 1, !.mine = FALSE]
                                          ELSE list[i]]
        \/ list' = [i \in DOMAIN list |-> IF list[i].id = id
                                          THEN [list[i] EXCEPT !.count = @ + 1, !.mine = TRUE]
                                          ELSE list[i]]
    BY DEF ToggleReaction, Ask, MapEntry
  <2>2. ASSUME NEW i \in DOMAIN list
        PROVE  list'[i] \in GoodEntry /\ SameMessage(list'[i], list[i])
    <3>1. list[i] \in Entry /\ list[i].id \in DOMAIN rows /\ list[i].thread = rows[list[i].id].thread
      BY ListIsGood
    <3>2. list[i].count \in Nat
      BY <3>1 DEF Entry
    <3>3. \E n \in Nat, mine \in BOOLEAN :
            list'[i] = list[i] \/ list'[i] = [list[i] EXCEPT !.count = n, !.mine = mine]
      <4>1. \/ list'[i] = list[i]
            \/ list[i].count # 0 /\ list'[i] = [list[i] EXCEPT !.count = list[i].count - 1, !.mine = FALSE]
            \/ list'[i] = [list[i] EXCEPT !.count = list[i].count + 1, !.mine = TRUE]
        BY <2>1
      <4>2. list[i].count + 1 \in Nat /\ (list[i].count # 0 => list[i].count - 1 \in Nat)
        BY <3>2
      <4>. QED  BY <4>1, <4>2
    <3>4. SameMessage(list'[i], list[i])
      BY <3>1, <3>3 DEF SameMessage, Entry
    <3>. QED  BY <3>1, <3>4 DEF SameMessage, GoodEntry
  <2>3. list' = [i \in DOMAIN list |-> list'[i]] /\ DOMAIN list' = DOMAIN list
    BY <2>1
  <2>4. list' \in Seq(GoodEntry)
    BY <2>2, <2>3, ListIsGood, PointwiseSeq
  <2>. QED  BY <2>2, <2>3, <2>4 DEF Untouched
<1>5. UNCHANGED <<does, rows, socket, composer, mount, open, loading, hasMore, fetches, older, history>>
  BY DEF ToggleReaction, Ask
<1>. QED  BY <1>3, <1>4, <1>5 DEF Asked

LEMMA VoteAsks ==
  ASSUME MessagesTypes, NEW r \in PanelReq, NEW id, NEW o \in Option, HandleVote(r, id, o)
  PROVE  Asked(r)
<1>1. id \in DOMAIN rows
  BY ShownExists DEF HandleVote
<1>2. Frame("vote", Me, rows[id].thread, id, o, NoVotes, "sent") \in GoodRequest
  <2>1. "vote" \in Updates \ {"edit"}
    BY DEF Updates
  <2>. QED  BY <1>1, <2>1, AskingForOne
<1>3. \E q \in GoodRequest : Begin(r, q)
  BY <1>2 DEF HandleVote, Ask
<1>4. Untouched(list')
  <2>1. list' = [i \in DOMAIN list |->
                   IF list[i].id = id
                   THEN IF list[i].myVote = o
                        THEN [list[i] EXCEPT !.tally[o] = Dec(@), !.myVote = NoVote]
                        ELSE [list[i] EXCEPT !.tally = [p \in Option |-> IF p = o THEN @[p] + 1
                                                          ELSE IF p = list[i].myVote THEN Dec(@[p]) ELSE @[p]],
                                             !.myVote = o]
                   ELSE list[i]]
    BY DEF HandleVote, Ask, MapEntry
  <2>2. ASSUME NEW i \in DOMAIN list
        PROVE  list'[i] \in GoodEntry /\ SameMessage(list'[i], list[i])
    <3>1. list[i] \in Entry /\ list[i].id \in DOMAIN rows /\ list[i].thread = rows[list[i].id].thread
      BY ListIsGood
    <3>. DEFINE tally == list[i].tally
                less == [tally EXCEPT ![o] = Dec(tally[o])]
                more == [p \in Option |-> IF p = o THEN tally[p] + 1
                                          ELSE IF p = list[i].myVote THEN Dec(tally[p]) ELSE tally[p]]
    <3>2. tally \in [Option -> Nat]
      BY <3>1 DEF Entry
    <3>3. \A n \in Nat : Dec(n) \in Nat
      BY DEF Dec
    <3>4. less \in [Option -> Nat] /\ more \in [Option -> Nat]
      BY <3>2, <3>3
    <3>5. \/ list'[i] = list[i]
          \/ list'[i] = [list[i] EXCEPT !.tally = less, !.myVote = NoVote]
          \/ list'[i] = [list[i] EXCEPT !.tally = more, !.myVote = o]
      BY <2>1
    <3>. HIDE DEF less, more
    <3>6. SameMessage(list'[i], list[i])
      BY <3>1, <3>4, <3>5 DEF SameMessage, Entry
    <3>. QED  BY <3>1, <3>6 DEF SameMessage, GoodEntry
  <2>3. list' = [i \in DOMAIN list |-> list'[i]] /\ DOMAIN list' = DOMAIN list
    BY <2>1
  <2>4. list' \in Seq(GoodEntry)
    BY <2>2, <2>3, ListIsGood, PointwiseSeq
  <2>. QED  BY <2>2, <2>3, <2>4 DEF Untouched
<1>5. UNCHANGED <<does, rows, socket, composer, mount, open, loading, hasMore, fetches, older, history>>
  BY DEF HandleVote, Ask
<1>. QED  BY <1>3, <1>4, <1>5 DEF Asked

LEMMA PinAsks ==
  ASSUME MessagesTypes, NEW r \in PanelReq, NEW id, Pin(r, id) \/ Delete(r, id)
  PROVE  Asked(r)
<1>1. id \in DOMAIN rows
  BY ShownExists DEF Pin, Delete, Ask
<1>2. \A op \in {"pin", "delete"} : Frame(op, Me, rows[id].thread, id, NoThread, NoVotes, "sent") \in GoodRequest
  <2>. SUFFICES ASSUME NEW op \in {"pin", "delete"}
                PROVE  Frame(op, Me, rows[id].thread, id, NoThread, NoVotes, "sent") \in GoodRequest
    OBVIOUS
  <2>1. op \in Updates \ {"edit"} /\ op # "vote"
    BY DEF Updates
  <2>. QED  BY <1>1, <2>1, AskingForOne
<1>3. \E q \in GoodRequest : Begin(r, q)
  BY <1>2 DEF Pin, Delete, Ask
<1>4. list' = [i \in DOMAIN list |-> IF list[i].id = id THEN list[i] ELSE list[i]]
  BY DEF Pin, Delete, Ask, MapEntry
<1>5. list' = [i \in DOMAIN list |-> list[i]]
  BY <1>4
<1>6. list' = list
  BY <1>5, ListIsGood
<1>7. Untouched(list')
  BY <1>6, ListIsGood DEF Untouched, SameMessage
<1>8. UNCHANGED <<does, rows, socket, composer, mount, open, loading, hasMore, fetches, older, history>>
  BY DEF Pin, Delete, Ask
<1>. QED  BY <1>3, <1>7, <1>8 DEF Asked

\* What an answer does to the list.
AnsweredTo(q, l) ==
  /\ l \in Seq(GoodEntry)
  /\ q.op = "send" => \E e \in GoodEntry : e.id = q.id /\ ~e.deleted /\ Inserted(e, l)
  /\ q.op = "delete" => Marked(q.id, TRUE, l) /\ rows[q.id].deleted
  /\ q.op \notin {"send", "delete"} => l = list

LEMMA AnswerIsUsed ==
  ASSUME MessagesTypes, NEW r \in PanelReq, Answered(r)
  PROVE  req[r] \in GoodRequest /\ req[r].at = "answered" /\ AnsweredTo(req[r], list')
<1>. DEFINE q == req[r]
<1>1. q \in GoodRequest /\ q.at = "answered"
  BY DEF Answered, MessagesTypes, TableTypes, Req
<1>. HIDE DEF q
<1>2. /\ q.id \in DOMAIN rows /\ q.thread = rows[q.id].thread
      /\ q.op = "send" => q.thread \in Conversation /\ q.arg \in Conversation
      /\ q.op = "delete" => rows[q.id].deleted
  BY <1>1 DEF GoodRequest
<1>3. CASE q.op = "send"
  <2>. DEFINE row == [FirstRow(q.thread, Me) EXCEPT !.body = q.arg]
              e == ToDTO(q.id, row, Me)
  <2>1. row \in Row
    BY <1>2, <1>3, NoVotesAreVotes DEF FirstRow, Row, NoVotes, User
  <2>2. row.thread = q.thread /\ row.deleted = FALSE
    BY DEF FirstRow
  <2>3. e \in Entry /\ e.id = q.id /\ e.thread = q.thread /\ e.deleted = FALSE
    BY <1>2, <2>1, <2>2, ToDTOIsEntry, RowsAreRows DEF User, ToDTO
  <2>4. list' = Insert(e)
    BY <1>3 DEF Answered, q
  <2>. HIDE DEF row, e
  <2>5. e \in GoodEntry
    BY <1>2, <2>3 DEF GoodEntry
  <2>6. Inserted(e, list')
    BY <2>4, <2>5, InsertInserts
  <2>7. list' \in Seq(GoodEntry)
    BY <2>6 DEF Inserted
  <2>. QED  BY <1>1, <1>3, <2>3, <2>5, <2>6, <2>7 DEF AnsweredTo, q
<1>4. CASE q.op = "delete"
  <2>1. list' = MapEntry(q.id, LAMBDA e : [e EXCEPT !.deleted = TRUE])
    BY <1>4 DEF Answered, q
  <2>2. Marked(q.id, TRUE, list')
    BY <2>1, MarkingDeleted
  <2>. QED  BY <1>1, <1>2, <1>4, <2>2 DEF AnsweredTo, Marked, q
<1>5. CASE q.op \notin {"send", "delete"}
  <2>1. list' = list
    BY <1>5 DEF Answered, q
  <2>. QED  BY <1>1, <1>5, <2>1, ListIsGood DEF AnsweredTo, q
<1>. QED  BY <1>3, <1>4, <1>5

\* The steps of the panel keep the types.
LEMMA PanelIsTyped ==
  ASSUME MessagesTypes, OfPanel
  PROVE  MessagesTypes' /\ UNCHANGED rows
<1>0. ASSUME UNCHANGED rows PROVE RowsGrow
  BY <1>0, SameRowsGrow
<1>1. ASSUME NEW t \in Conversation, Open(t)
      PROVE  MessagesTypes' /\ UNCHANGED rows
  <2>1. /\ UNCHANGED <<does, rows, made, req, socket, editing, peerKey, list, hasMore, older>>
        /\ mount' = mount + 1 /\ open' = t /\ loading' = TRUE /\ clean' = FALSE /\ exact' = FALSE
        /\ bubbles' = [r \in PanelReq |-> "none"]
        /\ keys' = IF t \in Direct THEN keys \cup {mount + 1} ELSE keys
    BY <1>1 DEF Open, table
  <2>2. mount \in Nat /\ mount < MaxMount /\ mount + 1 \in Run /\ MaxMount \in Nat
    <3>1. does.mounts \in 1 .. MaxMount /\ mount < does.mounts /\ mount \in 0 .. MaxMount
      BY <1>1 DEF Open, MessagesTypes, TableTypes, PanelTypes, Scenario, Run
    <3>2. MaxMount \in Nat
      BY MessagesAssumption
    <3>. QED  BY <3>1, <3>2 DEF Run
  <2>. DEFINE f == [thread |-> t, at |-> "asked", page |-> <<>>, clean |-> FALSE, exact |-> FALSE]
  <2>3. f \in GoodPage /\ fetches' = [fetches EXCEPT ![mount + 1] = f]
    BY <1>1, EmptySeq DEF GoodPage, Page, Open
  <2>. HIDE DEF f
  <2>4. fetches' \in [Run -> GoodPage \cup {NoPage}]
    BY <2>2, <2>3 DEF MessagesTypes, PanelTypes
  <2>5. mount' \in 0 .. MaxMount /\ mount' # 0
    BY <2>1, <2>2
  <2>6. PanelTypes'
    BY <2>1, <2>4, <2>5, GoodUnchanged DEF MessagesTypes, PanelTypes
  <2>7. ComposerTypes'
    BY <2>1, <2>2, GoodUnchanged DEF MessagesTypes, ComposerTypes
  <2>. QED  BY <1>0, <2>1, <2>6, <2>7, TableKept, SocketKept DEF MessagesTypes, TableTypes
<1>2. ASSUME NEW n \in Run, HistoryArrives(n) \/ HistoryFails(n)
      PROVE  MessagesTypes' /\ UNCHANGED rows
  <2>1. /\ UNCHANGED <<does, rows, made, req, socket, composer, mount, open, older>>
        /\ fetches' = [fetches EXCEPT ![n] = NoPage] /\ fetches[n] # NoPage
        /\ list' = list \/ list' = fetches[n].page
    BY <1>2 DEF HistoryArrives, HistoryFails, table
  <2>2. fetches[n] \in GoodPage
    BY <2>1 DEF MessagesTypes, PanelTypes
  <2>3. list' \in Seq(GoodEntry)
    BY <2>1, <2>2 DEF GoodPage, MessagesTypes, PanelTypes
  <2>4. fetches' \in [Run -> GoodPage \cup {NoPage}]
    BY <2>1 DEF MessagesTypes, PanelTypes
  <2>5. loading' \in BOOLEAN /\ hasMore' \in BOOLEAN /\ clean' \in BOOLEAN /\ exact' \in BOOLEAN
    <3>. DEFINE f == fetches[n]
    <3>. DEFINE still == loading /\ n # mount
                full == Len(f.page) >= PageSize
                both == f.clean /\ f.exact
    <3>0. /\ f.clean \in BOOLEAN /\ still \in BOOLEAN /\ full \in BOOLEAN /\ both \in BOOLEAN
          /\ loading \in BOOLEAN /\ hasMore \in BOOLEAN /\ clean \in BOOLEAN /\ exact \in BOOLEAN
      BY <2>2 DEF GoodPage, Page, MessagesTypes, PanelTypes
    <3>1. \/ hasMore' = hasMore /\ clean' = clean /\ exact' = exact /\ (loading' = loading \/ loading' = still)
          \/ hasMore' = full /\ loading' = FALSE /\ clean' = f.clean /\ exact' = both
      BY <1>2 DEF HistoryArrives, HistoryFails, history
    <3>. HIDE DEF f, still, full, both
    <3>. QED  BY <3>0, <3>1
  <2>6. PanelTypes'
    BY <2>1, <2>3, <2>4, <2>5, GoodUnchanged DEF MessagesTypes, PanelTypes
  <2>. QED  BY <1>0, <2>1, <2>6, TableKept, SocketKept, ComposerKept DEF MessagesTypes, TableTypes
<1>3. ASSUME NEW n \in Run, KeyArrives(n) \/ KeyFails(n)
      PROVE  MessagesTypes' /\ UNCHANGED rows
  <2>1. /\ UNCHANGED <<does, rows, made, req, socket, bubbles, editing, panel, history>>
        /\ keys' = keys \ {n} /\ peerKey' \in {open, peerKey, NoThread}
    BY <1>3 DEF KeyArrives, KeyFails, table
  <2>2. ComposerTypes'
    BY <2>1, GoodUnchanged DEF MessagesTypes, ComposerTypes, PanelTypes
  <2>. QED  BY <1>0, <2>1, <2>2, TableKept, SocketKept, PanelKept DEF MessagesTypes, TableTypes
<1>4. ASSUME Deliver
      PROVE  MessagesTypes' /\ UNCHANGED rows
  <2>. DEFINE v == Head(events)
  <2>1. /\ UNCHANGED <<does, rows, made, req, heard, composer, mount, open, loading, hasMore, clean>>
        /\ events # <<>> /\ events' = Tail(events)
        /\ \/ list' = Applied(v)
           \/ UNCHANGED list
        /\ \/ fetches' = [n \in Run |-> IF fetches[n] = NoPage THEN NoPage
                                        ELSE [fetches[n] EXCEPT !.clean = FALSE]]
           \/ UNCHANGED fetches
        /\ \/ older # NoPage /\ older' = [older EXCEPT !.clean = FALSE]
           \/ UNCHANGED older
    BY <1>4 DEF Deliver, table
  <2>2. v \in GoodEvent /\ events' \in Seq(GoodEvent)
    BY <2>1, HeadTailProperties DEF MessagesTypes, SocketTypes
  <2>3. list' \in Seq(GoodEntry)
    BY <2>1, <2>2, AppliedIsApplied, ListIsGood DEF AppliedTo
  <2>4. ASSUME NEW f \in GoodPage PROVE [f EXCEPT !.clean = FALSE] \in GoodPage
    BY DEF GoodPage, Page
  <2>5. fetches' \in [Run -> GoodPage \cup {NoPage}]
    BY <2>1, <2>4 DEF MessagesTypes, PanelTypes
  <2>6. older' \in GoodOlder \cup {NoPage}
    BY <2>1 DEF MessagesTypes, PanelTypes, GoodOlder, OlderPage
  <2>7. exact' \in BOOLEAN
    BY <1>4 DEF Deliver, MessagesTypes, PanelTypes
  <2>. HIDE DEF v
  <2>8. PanelTypes'
    BY <2>1, <2>3, <2>5, <2>6, <2>7, GoodUnchanged DEF MessagesTypes, PanelTypes
  <2>9. SocketTypes'
    BY <2>1, <2>2, GoodUnchanged DEF MessagesTypes, SocketTypes
  <2>. QED  BY <1>0, <2>1, <2>8, <2>9, TableKept, ComposerKept DEF MessagesTypes, TableTypes
<1>5. ASSUME ScrollUp \/ OlderFails
      PROVE  MessagesTypes' /\ UNCHANGED rows
  <2>1. UNCHANGED <<does, rows, made, req, socket, composer, mount, open, list, loading, hasMore, fetches, history>>
    BY <1>5 DEF ScrollUp, OlderFails, table
  <2>2. older' \in GoodOlder \cup {NoPage}
    <3>1. CASE OlderFails
      BY <3>1 DEF OlderFails
    <3>2. CASE ScrollUp
      <4>1. list # <<>> /\ open \in Conversation /\ mount \in 0 .. MaxMount /\ mount # 0 /\ MaxMount \in Nat
        BY <3>2, MessagesAssumption DEF ScrollUp, MessagesTypes, PanelTypes
      <4>2. mount \in Run
        BY <4>1 DEF Run
      <4>3. Len(list) # 0 /\ 1 \in DOMAIN list
        BY <4>1, EmptySeq, ListIsGood
      <4>4. list[1].id \in Id
        BY <4>3, ListIsGood DEF Entry
      <4>. DEFINE id == list[1].id
                  quiet == ~loading
      <4>. HIDE DEF id
      <4>5. older' = [at |-> "asked", thread |-> open, before |-> id, page |-> <<>>,
                      mount |-> mount, clean |-> quiet, exact |-> FALSE]
        BY <3>2 DEF ScrollUp, id
      <4>6. quiet \in BOOLEAN /\ id \in Id
        BY <4>4 DEF id
      <4>. HIDE DEF quiet
      <4>. QED  BY <4>1, <4>2, <4>5, <4>6, EmptySeq DEF GoodOlder, OlderPage
    <3>. QED  BY <1>5, <3>1, <3>2
  <2>3. PanelTypes'
    BY <2>1, <2>2, GoodUnchanged DEF MessagesTypes, PanelTypes, history
  <2>. QED  BY <1>0, <2>1, <2>3, TableKept, SocketKept, ComposerKept DEF MessagesTypes, TableTypes
<1>6. ASSUME OlderArrives
      PROVE  MessagesTypes' /\ UNCHANGED rows
  <2>1. /\ UNCHANGED <<does, rows, made, req, socket, composer, mount, open, loading, fetches>>
        /\ older # NoPage /\ older' = NoPage /\ list' = older.page \o list
        /\ hasMore' \in BOOLEAN /\ clean' \in BOOLEAN /\ exact' \in BOOLEAN
    BY <1>6 DEF OlderArrives, table
  <2>2. older.page \in Seq(GoodEntry)
    BY <2>1 DEF MessagesTypes, PanelTypes, GoodOlder
  <2>3. list' \in Seq(GoodEntry)
    BY <2>1, <2>2, ListIsGood, ConcatProperties
  <2>4. PanelTypes'
    BY <2>1, <2>3, GoodUnchanged DEF MessagesTypes, PanelTypes
  <2>. QED  BY <1>0, <2>1, <2>4, TableKept, SocketKept, ComposerKept DEF MessagesTypes, TableTypes
<1>7. ASSUME CancelEdit \/ (\E id \in Id : StartEdit(id)) \/ (\E r \in PanelReq : DiscardPending(r))
      PROVE  MessagesTypes' /\ UNCHANGED rows
  <2>1. UNCHANGED <<does, rows, made, req, socket, peerKey, keys, panel, history>>
    BY <1>7 DEF CancelEdit, StartEdit, DiscardPending, table
  <2>2. editing' \in {0} \cup DOMAIN rows
    BY <1>7, ShownExists DEF CancelEdit, StartEdit, DiscardPending, MessagesTypes, ComposerTypes
  <2>3. bubbles' \in [PanelReq -> {"none", "sending", "failed"}]
    BY <1>7 DEF CancelEdit, StartEdit, DiscardPending, MessagesTypes, ComposerTypes
  <2>4. ComposerTypes'
    BY <2>1, <2>2, <2>3, GoodUnchanged DEF MessagesTypes, ComposerTypes
  <2>. QED  BY <1>0, <2>1, <2>4, TableKept, SocketKept, PanelKept DEF MessagesTypes, TableTypes
<1>8. ASSUME NEW r \in PanelReq, SendText(r) \/ SendPlain(r) \/ RetryPending(r) \/ SubmitEdit(r)
      PROVE  MessagesTypes' /\ UNCHANGED rows
  <2>1. UNCHANGED <<does, rows, socket, peerKey, keys, panel, history>> /\ r \in Req
    BY <1>8 DEF SendText, SendPlain, RetryPending, SubmitEdit, composer, Req
  <2>2. CanWrite => open \in Conversation /\ Written \in Conversation
    BY DEF CanWrite, Written, MessagesTypes, PanelTypes, ComposerTypes
  <2>3. \E q \in GoodRequest : Begin(r, q)
    <3>1. CASE SubmitEdit(r)
      <4>1. editing \in DOMAIN rows /\ CanWrite
        BY <3>1 DEF SubmitEdit, MessagesTypes, ComposerTypes
      <4>2. Frame("edit", Me, rows[editing].thread, editing, Written, NoVotes, "sent") \in GoodRequest
        BY <2>2, <4>1, FrameIsRequest, NoVotesAreVotes DEF Updates, User
      <4>. QED  BY <3>1, <4>2 DEF SubmitEdit
    <3>2. CASE SendText(r) \/ RetryPending(r)
      <4>1. Frame("send", Me, open, 0, Written, NoVotes, "sent") \in GoodRequest
        BY <2>2, <3>2, SendIsRequest DEF SendText, RetryPending, User
      <4>. QED  BY <3>2, <4>1 DEF SendText, RetryPending
    <3>3. CASE SendPlain(r)
      <4>1. Frame("send", Me, open, 0, open, NoVotes, "sent") \in GoodRequest
        BY <3>3, SendIsRequest DEF SendPlain, User
      <4>. QED  BY <3>3, <4>1 DEF SendPlain
    <3>. QED  BY <1>8, <3>1, <3>2, <3>3
  <2>4. TableTypes'
    BY <2>1, <2>3, BegunIsTyped
  <2>5. editing' \in {0} \cup DOMAIN rows
    BY <1>8 DEF SendText, SendPlain, RetryPending, SubmitEdit, composer, MessagesTypes, ComposerTypes
  <2>6. bubbles' \in [PanelReq -> {"none", "sending", "failed"}]
    BY <1>8 DEF SendText, SendPlain, RetryPending, SubmitEdit, composer, MessagesTypes, ComposerTypes
  <2>7. ComposerTypes'
    BY <2>1, <2>5, <2>6, GoodUnchanged DEF MessagesTypes, ComposerTypes
  <2>. QED  BY <1>0, <2>1, <2>4, <2>7, SocketKept, PanelKept DEF MessagesTypes
<1>9. ASSUME NEW r \in PanelReq, NEW id \in Id,
             Pin(r, id) \/ Delete(r, id) \/ ToggleReaction(r, id) \/ \E o \in Option : HandleVote(r, id, o)
      PROVE  MessagesTypes' /\ UNCHANGED rows
  <2>1. Asked(r)
    BY <1>9, PinAsks, ToggleAsks, VoteAsks
  <2>2. UNCHANGED <<does, rows, socket, composer, mount, open, loading, hasMore, fetches, older, history>> /\ r \in Req
    BY <2>1 DEF Asked, Req
  <2>3. TableTypes'
    BY <2>1, <2>2, BegunIsTyped DEF Asked
  <2>4. PanelTypes'
    BY <2>1, <2>2, GoodUnchanged DEF Asked, Untouched, MessagesTypes, PanelTypes, history
  <2>. QED  BY <1>0, <2>2, <2>3, <2>4, SocketKept, ComposerKept DEF MessagesTypes
<1>10. ASSUME NEW r \in PanelReq, Answered(r) \/ Failed(r)
       PROVE  MessagesTypes' /\ UNCHANGED rows
  <2>1. /\ UNCHANGED <<does, rows, made, socket, editing, peerKey, keys, mount, open, loading, hasMore, fetches, older, clean>>
        /\ req' = [req EXCEPT ![r] = Idle]
        /\ exact' = exact \/ exact' = (exact /\ req[r].op \notin {"react", "unreact", "vote"})
    BY <1>10 DEF Answered, Failed, panel, history
  <2>2. req' \in [Req -> GoodRequest \cup {Idle}]
    BY <2>1 DEF MessagesTypes, TableTypes
  <2>3. bubbles' \in [PanelReq -> {"none", "sending", "failed"}]
    BY <1>10 DEF Answered, Failed, MessagesTypes, ComposerTypes
  <2>4. list' \in Seq(GoodEntry)
    BY <1>10, AnswerIsUsed, ListIsGood DEF Failed, AnsweredTo, panel
  <2>5. exact' \in BOOLEAN
    BY <2>1 DEF MessagesTypes, PanelTypes
  <2>6. PanelTypes'
    BY <2>1, <2>4, <2>5, GoodUnchanged DEF MessagesTypes, PanelTypes
  <2>7. ComposerTypes'
    BY <2>1, <2>3, GoodUnchanged DEF MessagesTypes, ComposerTypes
  <2>. QED  BY <1>0, <2>1, <2>2, <2>6, <2>7, TableKept, SocketKept DEF MessagesTypes
<1>. QED
  BY <1>1, <1>2, <1>3, <1>4, <1>5, <1>6, <1>7, <1>8, <1>9, <1>10 DEF OfPanel

LEMMA StartIsTyped ==
  ASSUME MessagesInit
  PROVE  MessagesTypes
<1>. USE MessagesAssumption
<1>1. does \in Scenario /\ does.threads \subseteq Conversation /\ does.requests \in Nat
  BY DEF MessagesInit, Scenario
<1>2. PICK t \in Conversation, u \in User : rows = <<FirstRow(t, u)>>
  BY <1>1 DEF MessagesInit
<1>3. FirstRow(t, u) \in Row
  BY NoVotesAreVotes DEF FirstRow, Row, NoVotes
<1>4. rows \in Seq(Row) /\ Len(rows) = 1
  BY <1>2, <1>3
<1>5. TableTypes
  BY <1>1, <1>4 DEF MessagesInit, TableTypes
<1>6. SocketTypes /\ PanelTypes /\ ComposerTypes
  <2>1. SocketTypes
    BY EmptySeq DEF MessagesInit, SocketTypes
  <2>2. mount = 0 /\ 0 \in 0 .. MaxMount /\ list \in Seq(GoodEntry)
    BY EmptySeq DEF MessagesInit
  <2>3. PanelTypes
    BY <2>2 DEF MessagesInit, PanelTypes
  <2>4. ComposerTypes
    BY DEF MessagesInit, ComposerTypes
  <2>. QED  BY <2>1, <2>3, <2>4
<1>. QED  BY <1>5, <1>6 DEF MessagesTypes

LEMMA StepIsTyped ==
  ASSUME MessagesTypes, [MessagesNext]_messagesVars
  PROVE  MessagesTypes'
<1>1. CASE UNCHANGED messagesVars
  <2>1. UNCHANGED <<does, rows, made, req, socket, composer, panel, history>>
    BY <1>1 DEF messagesVars, table
  <2>2. RowsGrow
    BY <2>1, SameRowsGrow
  <2>. QED  BY <2>1, <2>2, TableKept, SocketKept, PanelKept, ComposerKept DEF MessagesTypes, TableTypes
<1>. QED  BY <1>1, ServerIsTyped, PanelIsTyped DEF MessagesNext

LEMMA TypesImplyTypeOK ==
  ASSUME MessagesTypes, does \in Scenarios
  PROVE  MessagesTypeOK
<1>1. GoodEntry \subseteq Entry /\ GoodEvent \subseteq Event /\ GoodRequest \subseteq Request
      /\ GoodPage \subseteq Page /\ GoodOlder \subseteq OlderPage
  BY DEF GoodEntry, GoodEvent, GoodRequest, GoodPage, GoodOlder
<1>2. list \in Seq(Entry) /\ events \in Seq(Event)
  BY <1>1, SeqMonotonic DEF MessagesTypes, PanelTypes, SocketTypes
<1>3. editing \in Id \cup {0}
  BY RowsAreRows DEF MessagesTypes, ComposerTypes
<1>. QED  BY <1>1, <1>2, <1>3 DEF MessagesTypeOK, MessagesTypes, TableTypes, SocketTypes, PanelTypes, ComposerTypes

\* The types of Messages hold for any number of messages, requests and runs.
THEOREM MessagesTypeCorrect == MessagesSpec => []MessagesTypeOK
<1>1. MessagesInit => MessagesTypes /\ does \in Scenarios
  BY StartIsTyped DEF MessagesInit
<1>2. (MessagesTypes /\ does \in Scenarios) /\ [MessagesNext]_messagesVars => (MessagesTypes /\ does \in Scenarios)'
  <2>1. OfServer => UNCHANGED does
    <3>1. \A r \in Req : Read(r) \/ Create(r) \/ Update(r) \/ Fail(r) => UNCHANGED does
      BY DEF Read, Create, Update, Fail
    <3>2. \A n \in Run : ReadHistory(n) \/ ReadReactions(n) => UNCHANGED does
      BY DEF ReadHistory, ReadReactions
    <3>3. ReadOlder \/ Serve \/ Cut => UNCHANGED does
      BY DEF ReadOlder, Serve, Cut
    <3>. QED  BY <3>1, <3>2, <3>3 DEF OfServer, OtherAsks, OtherSends
  <2>2. OfPanel => UNCHANGED does
    <3>1. \A t \in Conversation : Open(t) => UNCHANGED does
      BY DEF Open
    <3>2. \A n \in Run : HistoryArrives(n) \/ HistoryFails(n) \/ KeyArrives(n) \/ KeyFails(n) => UNCHANGED does
      BY DEF HistoryArrives, HistoryFails, KeyArrives, KeyFails
    <3>3. Deliver \/ ScrollUp \/ OlderArrives \/ OlderFails \/ CancelEdit => UNCHANGED does
      BY DEF Deliver, ScrollUp, OlderArrives, OlderFails, CancelEdit
    <3>4. \A r \in PanelReq : SendText(r) \/ SendPlain(r) \/ RetryPending(r) \/ DiscardPending(r) => UNCHANGED does
      BY DEF SendText, SendPlain, RetryPending, DiscardPending, Ask
    <3>5. \A r \in PanelReq : SubmitEdit(r) \/ Answered(r) \/ Failed(r) => UNCHANGED does
      BY DEF SubmitEdit, Answered, Failed, Ask
    <3>6. \A r \in PanelReq, id \in Id : Pin(r, id) \/ Delete(r, id) \/ ToggleReaction(r, id) => UNCHANGED does
      BY DEF Pin, Delete, ToggleReaction, Ask
    <3>7. \A r \in PanelReq, id \in Id, o \in Option : HandleVote(r, id, o) => UNCHANGED does
      BY DEF HandleVote, Ask
    <3>8. \A id \in Id : StartEdit(id) => UNCHANGED does
      BY DEF StartEdit
    <3>. QED  BY <3>1, <3>2, <3>3, <3>4, <3>5, <3>6, <3>7, <3>8 DEF OfPanel
  <2>3. [MessagesNext]_messagesVars => UNCHANGED does
    BY <2>1, <2>2 DEF MessagesNext, messagesVars
  <2>. QED  BY <2>3, StepIsTyped
<1>3. MessagesTypes /\ does \in Scenarios => MessagesTypeOK
  BY TypesImplyTypeOK
<1>. QED  BY <1>1, <1>2, <1>3, PTL DEF MessagesSpec

-----------------------------------------------------------------------------
(* The list is complete.                                                   *)

\* The messages of the open thread, and those of them whose events are on their way.
OpenIds == {k \in DOMAIN rows : rows[k].thread = open}
Flying == {k \in OpenIds : \E i \in DOMAIN events : events[i].type = "message" /\ events[i].entry.id = k}

\* There is an event that says that a message is deleted.
WordComes(k) == \E p \in DOMAIN events : Says(events[p], k)

\* What events say is true; and no event denies that a message of the open thread is
\* deleted but another says it later.
WordIsTrue == \A p \in DOMAIN events : \A k \in DOMAIN rows : Says(events[p], k) => rows[k].deleted
LastWord ==
  \A k \in OpenIds : rows[k].deleted =>
    \A p \in DOMAIN events : Denies(events[p], k) => \E q \in DOMAIN events : p < q /\ Says(events[q], k)

\* Shown as it is, or to be corrected.
RightAs(k, deleted) == (deleted => rows[k].deleted) /\ (rows[k].deleted /\ ~deleted => WordComes(k))

\* Up from one message, all of the thread, and at least those of a page.
Covers(X) ==
  /\ X \subseteq OpenIds
  /\ \A k \in X : \A j \in OpenIds : k < j => j \in X
  /\ \A k \in OpenIds : Recent(k) => k \in X

ThreadIds(l) == {l[i].id : i \in {j \in DOMAIN l : l[j].thread = open}}

\* What was posted to the thread, and is answered, is in the list or on its way.
AnswersKnown(l) ==
  \A r \in PanelReq : SendAnswered(r) /\ req[r].thread = open => req[r].id \in ThreadIds(l) \cup Flying

\* With the events on their way, a list has all that it should show of the thread.
Full(l) ==
  /\ LastWord /\ AnswersKnown(l)
  /\ Covers(ThreadIds(l) \cup Flying)
  /\ \A i \in DOMAIN l : l[i].thread = open => RightAs(l[i].id, l[i].deleted)
  /\ \A i, j \in DOMAIN l : l[i].thread = open /\ l[j].thread = open /\ i # j => l[i].id # l[j].id
Leads(l) == l # <<>> /\ l[1].thread = open /\ \A k \in ThreadIds(l) \cup Flying : l[1].id <= k

\* The page right before a message of the thread.
Before(s, top) ==
  /\ \A i \in DOMAIN s : /\ s[i].thread = open /\ RightAs(s[i].id, s[i].deleted) /\ s[i].id < top
                         /\ \A j \in OpenIds : s[i].id < j /\ j < top => j \in Ids(s)
  /\ \A i, j \in DOMAIN s : i < j => s[i].id < s[j].id

ListInv == clean => heard = open /\ ~loading /\ Full(list) /\ (hasMore => Leads(list))
FetchInv ==
  LET f == fetches[mount] IN
  mount # 0 /\ f # NoPage =>
    /\ f.thread = open /\ loading
    /\ f.clean => heard = open /\ Full(f.page) /\ (f.page # <<>> => Leads(f.page))
OlderInv ==
  older # NoPage =>
    /\ older.mount <= mount
    /\ older.mount = mount /\ older.clean => ~loading
    /\ older.mount = mount /\ older.clean /\ clean =>
         /\ list # <<>> /\ older.before = list[1].id /\ older.thread = open /\ hasMore
         /\ older.at = "ready" => Before(older.page, older.before)
CompleteInv ==
  /\ WordIsTrue /\ ListInv /\ FetchInv /\ OlderInv
  /\ mount = 0 => loading

-----------------------------------------------------------------------------

LEMMA EventsAreGood ==
  ASSUME MessagesTypes
  PROVE  /\ DOMAIN events = 1 .. Len(events) /\ Len(events) \in Nat
         /\ \A i \in DOMAIN events : events[i] \in GoodEvent
BY LenProperties, ElementOfSeq DEF MessagesTypes, SocketTypes

\* An event is pushed after the others, if the panel is subscribed to its thread.
Grown(v) ==
  /\ DOMAIN events' = 1 .. Len(events) + 1 /\ Len(events') = Len(events) + 1 /\ events'[Len(events) + 1] = v
  /\ \A i \in DOMAIN events : events'[i] = events[i]

LEMMA BroadcastGrows ==
  ASSUME MessagesTypes, NEW t, NEW v \in GoodEvent', RowsGrow, Broadcast(t, v)
  PROVE  IF heard = t THEN Grown(v) ELSE events' = events
<1>1. CASE heard = t
  <2>1. events \in Seq(GoodEvent) /\ GoodEvent \subseteq GoodEvent'
    BY GoodStaysGood DEF MessagesTypes, SocketTypes
  <2>. DEFINE G == GoodEvent'
  <2>2. events \in Seq(G) /\ v \in G
    BY <2>1, SeqMonotonic
  <2>. HIDE DEF G
  <2>3. /\ Append(events, v) \in Seq(G) /\ Len(Append(events, v)) = Len(events) + 1
        /\ \A i \in 1 .. Len(events) : Append(events, v)[i] = events[i]
        /\ Append(events, v)[Len(events) + 1] = v
    BY <2>2, AppendProperties
  <2>4. DOMAIN Append(events, v) = 1 .. Len(events) + 1 /\ DOMAIN events = 1 .. Len(events)
    BY <2>2, <2>3, LenProperties
  <2>5. events' = Append(events, v)
    BY <1>1 DEF Broadcast
  <2>. QED  BY <1>1, <2>3, <2>4, <2>5 DEF Grown
<1>2. CASE heard # t
  BY <1>2 DEF Broadcast
<1>. QED  BY <1>1, <1>2

\* The first event is taken.
Shifted ==
  /\ Len(events) \in Nat \ {0} /\ DOMAIN events = 1 .. Len(events) /\ Head(events) = events[1]
  /\ DOMAIN events' = 1 .. Len(events) - 1 /\ Len(events') = Len(events) - 1
  /\ \A i \in DOMAIN events' : i + 1 \in DOMAIN events /\ events'[i] = events[i + 1]

LEMMA DeliverShifts ==
  ASSUME MessagesTypes, Deliver
  PROVE  Shifted /\ Head(events) \in GoodEvent /\ UNCHANGED <<rows, req, heard, mount, open, loading, hasMore, clean>>
<1>1. events \in Seq(GoodEvent) /\ events # <<>> /\ events' = Tail(events)
  BY DEF Deliver, MessagesTypes, SocketTypes
<1>2. /\ Head(events) \in GoodEvent /\ Tail(events) \in Seq(GoodEvent)
      /\ Len(Tail(events)) = Len(events) - 1
      /\ \A i \in 1 .. Len(Tail(events)) : Tail(events)[i] = events[i + 1]
  BY <1>1, HeadTailProperties
<1>3. DOMAIN events' = 1 .. Len(events) - 1 /\ Len(events) \in Nat \ {0} /\ Head(events) = events[1]
  BY <1>1, <1>2, LenProperties, EmptySeq
<1>4. Shifted
  BY <1>1, <1>2, <1>3, EventsAreGood DEF Shifted
<1>. QED  BY <1>2, <1>4 DEF Deliver, table

\* An event of a thread is about a message of that thread.
LEMMA EventOfThread ==
  ASSUME MessagesTypes, NEW v \in GoodEvent, NEW k \in DOMAIN rows,
         Says(v, k) \/ Denies(v, k) \/ (v.type = "message" /\ v.entry.id = k)
  PROVE  EventThread(v) = rows[k].thread
BY DEF GoodEvent, GoodEntry, EventThread, Says, Denies

\* What comes after the first event, comes then.
LEMMA WordShifts ==
  ASSUME MessagesTypes, Shifted, NEW k, WordComes(k), ~Says(Head(events), k)
  PROVE  WordComes(k)'
<1>1. PICK p \in DOMAIN events : Says(events[p], k)
  BY DEF WordComes
<1>2. p # 1 /\ p \in Nat /\ p <= Len(events) /\ p >= 1 /\ Len(events) \in Nat
  BY <1>1 DEF Shifted
<1>3. p - 1 \in DOMAIN events'
  BY <1>2 DEF Shifted
<1>4. events'[p - 1] = events[p]
  <2>1. (p - 1) + 1 = p
    BY <1>2
  <2>. QED  BY <1>3, <2>1 DEF Shifted
<1>. QED  BY <1>1, <1>3, <1>4 DEF WordComes, Says

LEMMA WordGrows ==
  ASSUME MessagesTypes, NEW v, Grown(v), NEW k, WordComes(k) \/ Says(v, k)
  PROVE  WordComes(k)'
<1>1. DOMAIN events \subseteq DOMAIN events' /\ Len(events) + 1 \in DOMAIN events'
  BY EventsAreGood DEF Grown
<1>2. CASE Says(v, k)
  BY <1>1, <1>2 DEF Grown, WordComes, Says
<1>3. CASE WordComes(k)
  BY <1>1, <1>3 DEF Grown, WordComes, Says
<1>. QED  BY <1>2, <1>3

\* An event that denies is put right by a later one.
LEMMA DenialCorrected ==
  ASSUME MessagesTypes, LastWord, Shifted, NEW k \in OpenIds, rows[k].deleted,
         Denies(Head(events), k)
  PROVE  WordComes(k)'
<1>1. 1 \in DOMAIN events /\ Head(events) = events[1]
  BY DEF Shifted
<1>2. PICK q \in DOMAIN events : 1 < q /\ Says(events[q], k)
  BY <1>1 DEF LastWord
<1>3. q \in Nat /\ q <= Len(events) /\ Len(events) \in Nat
  BY <1>2 DEF Shifted
<1>4. q - 1 \in DOMAIN events' /\ (q - 1) + 1 = q
  BY <1>2, <1>3 DEF Shifted
<1>5. events'[q - 1] = events[q]
  BY <1>4 DEF Shifted
<1>. QED  BY <1>2, <1>4, <1>5 DEF WordComes, Says

\* A step that tells of a message added or changed.
LEMMA WordPosted ==
  ASSUME MessagesTypes, WordIsTrue, NEW id \in Nat, NEW t, NEW v, Posted(id, t, v)
  PROVE  WordIsTrue' /\ (LastWord /\ UNCHANGED open => LastWord')
<1>1. /\ DOMAIN rows' = DOMAIN rows \cup {id} /\ id \notin DOMAIN rows
      /\ \A k \in DOMAIN rows : rows'[k] = rows[k]
      /\ ~rows'[id].deleted /\ v.type = "message" /\ v.entry.id = id /\ v \in GoodEvent'
  BY DEF Posted
<1>2. IF heard = t THEN Grown(v) ELSE events' = events
  BY BroadcastGrows DEF Posted
<1>3. \A p \in DOMAIN events : \A k : Says(events[p], k) \/ Denies(events[p], k) => k \in DOMAIN rows
  BY EventsAreGood DEF Says, Denies, GoodEvent, GoodEntry
<1>4. \A k : ~Says(v, k) /\ (Denies(v, k) => k = id)
  BY <1>1 DEF Says, Denies
<1>5. CASE events' = events
  BY <1>1, <1>3, <1>5 DEF WordIsTrue, LastWord, Says, Denies, OpenIds
<1>6. CASE Grown(v)
  <2>1. DOMAIN events' = DOMAIN events \cup {Len(events) + 1} /\ Len(events) + 1 \notin DOMAIN events
    BY <1>6, EventsAreGood DEF Grown
  <2>2. events'[Len(events) + 1] = v /\ \A i \in DOMAIN events : events'[i] = events[i]
    BY <1>6 DEF Grown
  <2>3. WordIsTrue'
    <3>. SUFFICES ASSUME NEW p \in DOMAIN events', NEW k \in DOMAIN rows', Says(events'[p], k)
                  PROVE  rows'[k].deleted
      BY DEF WordIsTrue, Says
    <3>1. p \in DOMAIN events /\ events'[p] = events[p]
      BY <1>4, <2>1, <2>2
    <3>2. k \in DOMAIN rows
      BY <1>3, <3>1
    <3>. QED  BY <1>1, <3>1, <3>2 DEF WordIsTrue
  <2>4. ASSUME LastWord, UNCHANGED open PROVE LastWord'
    <3>. SUFFICES ASSUME NEW k \in OpenIds', rows'[k].deleted,
                         NEW p \in DOMAIN events', Denies(events'[p], k)
                  PROVE  \E q \in DOMAIN events' : p < q /\ Says(events'[q], k)
      BY DEF LastWord, Denies, Says
    <3>1. k \in OpenIds /\ rows'[k] = rows[k]
      BY <1>1, <2>4 DEF OpenIds
    <3>2. p \in DOMAIN events /\ events'[p] = events[p]
      BY <1>1, <1>4, <2>1, <2>2, <3>1 DEF OpenIds
    <3>3. PICK q \in DOMAIN events : p < q /\ Says(events[q], k)
      BY <2>4, <3>1, <3>2 DEF LastWord
    <3>. QED  BY <2>1, <2>2, <3>3
  <2>. QED  BY <2>3, <2>4
<1>. QED  BY <1>2, <1>5, <1>6

LEMMA WordAmended ==
  ASSUME MessagesTypes, WordIsTrue, NEW id \in DOMAIN rows, NEW t, NEW v, Amended(id, t, v)
  PROVE  WordIsTrue' /\ (LastWord /\ heard = open /\ UNCHANGED open => LastWord')
<1>1. /\ DOMAIN rows' = DOMAIN rows /\ rows[id].thread = t
      /\ \A k \in DOMAIN rows : /\ rows'[k].thread = rows[k].thread /\ (k # id => rows'[k] = rows[k])
                                /\ rows[k].deleted => rows'[k].deleted
      /\ rows'[id].deleted => rows[id].deleted \/ v.type = "deleted"
  BY DEF Amended
<1>2. IF heard = t THEN Grown(v) ELSE events' = events
  BY BroadcastGrows DEF Amended
<1>3. \A k \in DOMAIN rows : Says(v, k) => k = id /\ rows'[id].deleted
  BY DEF Amended, Says
<1>4. \A k \in DOMAIN rows : Denies(v, k) => k = id /\ ~rows'[id].deleted
  BY DEF Amended, Denies
<1>5. v.type = "deleted" => Says(v, id)
  BY DEF Amended, Says
<1>6. CASE events' = events /\ heard # t
  BY <1>1, <1>6 DEF WordIsTrue, LastWord, Says, Denies, OpenIds
<1>7. CASE Grown(v)
  <2>1. /\ DOMAIN events' = DOMAIN events \cup {Len(events) + 1}
        /\ \A p \in DOMAIN events : p < Len(events) + 1
    BY <1>7, EventsAreGood DEF Grown
  <2>2. events'[Len(events) + 1] = v /\ \A i \in DOMAIN events : events'[i] = events[i]
    BY <1>7 DEF Grown
  <2>3. WordIsTrue'
    <3>. SUFFICES ASSUME NEW p \in DOMAIN events', NEW k \in DOMAIN rows', Says(events'[p], k)
                  PROVE  rows'[k].deleted
      BY DEF WordIsTrue, Says
    <3>1. CASE p \in DOMAIN events
      BY <1>1, <2>2, <3>1 DEF WordIsTrue
    <3>2. CASE p = Len(events) + 1
      BY <1>1, <1>3, <2>2, <3>2
    <3>. QED  BY <2>1, <3>1, <3>2
  <2>4. ASSUME LastWord, UNCHANGED open PROVE LastWord'
    <3>. SUFFICES ASSUME NEW k \in OpenIds', rows'[k].deleted,
                         NEW p \in DOMAIN events', Denies(events'[p], k)
                  PROVE  \E q \in DOMAIN events' : p < q /\ Says(events'[q], k)
      BY DEF LastWord, Denies, Says
    <3>1. k \in OpenIds /\ k \in DOMAIN rows
      BY <1>1, <2>4 DEF OpenIds
    <3>2. p \in DOMAIN events /\ events'[p] = events[p]
      BY <1>4, <2>1, <2>2, <3>1
    <3>3. CASE rows[k].deleted
      <4>1. PICK q \in DOMAIN events : p < q /\ Says(events[q], k)
        BY <2>4, <3>1, <3>2, <3>3 DEF LastWord
      <4>. QED  BY <2>1, <2>2, <4>1
    <3>4. CASE ~rows[k].deleted
      <4>1. Says(v, k)
        BY <1>1, <1>5, <3>1, <3>4
      <4>. QED  BY <2>1, <2>2, <3>2, <4>1
    <3>. QED  BY <3>3, <3>4
  <2>. QED  BY <2>3, <2>4
<1>. QED  BY <1>2, <1>6, <1>7

LEMMA WordShifted ==
  ASSUME MessagesTypes, WordIsTrue, Shifted, UNCHANGED rows
  PROVE  WordIsTrue' /\ (LastWord /\ UNCHANGED open => LastWord')
<1>1. /\ Len(events) \in Nat /\ DOMAIN events = 1 .. Len(events) /\ DOMAIN events' = 1 .. Len(events) - 1
      /\ \A i \in DOMAIN events' : i + 1 \in DOMAIN events /\ events'[i] = events[i + 1]
  BY DEF Shifted
<1>2. WordIsTrue'
  BY <1>1 DEF WordIsTrue, Says
<1>3. ASSUME LastWord, UNCHANGED open PROVE LastWord'
  <2>. SUFFICES ASSUME NEW k \in OpenIds, rows[k].deleted,
                       NEW p \in DOMAIN events', Denies(events'[p], k)
                PROVE  \E q \in DOMAIN events' : p < q /\ Says(events'[q], k)
    BY <1>3 DEF LastWord, Denies, Says, OpenIds
  <2>1. p + 1 \in DOMAIN events /\ Denies(events[p + 1], k)
    BY <1>1
  <2>2. PICK q \in DOMAIN events : p + 1 < q /\ Says(events[q], k)
    BY <1>3, <2>1 DEF LastWord
  <2>3. q - 1 \in DOMAIN events' /\ p < q - 1 /\ (q - 1) + 1 = q
    BY <1>1, <2>2
  <2>4. events'[q - 1] = events[q]
    BY <1>1, <2>3
  <2>. QED  BY <2>2, <2>3, <2>4
<1>. QED  BY <1>2, <1>3

\* Losing the connection.
LEMMA WordCut ==
  ASSUME Cut
  PROVE  WordIsTrue'
<1>1. events' = <<>> /\ DOMAIN <<>> = {}
  BY DEF Cut
<1>. QED  BY <1>1 DEF WordIsTrue

\* No text that was sent is answered by this step.
NoNewAnswer == \A r \in PanelReq : SendAnswered(r)' => SendAnswered(r) /\ req'[r] = req[r]

\* A step of the server, or an event of another thread: the panel is told of what it
\* must know.
Told ==
  /\ heard = open /\ UNCHANGED open
  /\ \A r \in PanelReq : SendAnswered(r)' /\ req'[r].thread = open =>
       (SendAnswered(r) /\ req'[r] = req[r]) \/ req'[r].id \in Flying'
  /\ \/ \E id \in Nat : \E t, v : Posted(id, t, v)
     \/ \E id \in DOMAIN rows : \E t, v : Amended(id, t, v)
     \/ /\ Shifted /\ UNCHANGED rows
        /\ Head(events) \in GoodEvent /\ EventThread(Head(events)) # open
     \/ UNCHANGED <<rows, events>>

LEMMA LastWordKept ==
  ASSUME MessagesTypes, WordIsTrue, Told, LastWord
  PROVE  LastWord'
<1>1. UNCHANGED <<rows, events, open>> => LastWord'
  BY DEF LastWord, OpenIds, Says, Denies
<1>. QED  BY <1>1, WordPosted, WordAmended, WordShifted DEF Told

LEMMA RightKept ==
  ASSUME MessagesTypes, Told, NEW k \in OpenIds, NEW d, RightAs(k, d)
  PROVE  RightAs(k, d)'
<1>. USE DEF OpenIds
<1>1. ASSUME NEW id \in Nat, NEW t, NEW v, Posted(id, t, v)
      PROVE  RightAs(k, d)'
  <2>1. rows'[k] = rows[k]
    BY <1>1 DEF Posted
  <2>2. Grown(v) \/ events' = events
    BY <1>1, BroadcastGrows DEF Posted
  <2>3. WordComes(k) => WordComes(k)'
    BY <2>2, WordGrows DEF WordComes, Says
  <2>. QED  BY <2>1, <2>3 DEF RightAs
<1>2. ASSUME NEW id \in DOMAIN rows, NEW t, NEW v, Amended(id, t, v)
      PROVE  RightAs(k, d)'
  <2>1. IF heard = t THEN Grown(v) ELSE events' = events
    BY <1>2, BroadcastGrows DEF Amended
  <2>2. WordComes(k) => WordComes(k)'
    BY <2>1, WordGrows DEF WordComes, Says
  <2>3. CASE k # id
    <3>1. rows'[k] = rows[k]
      BY <1>2, <2>3 DEF Amended
    <3>. QED  BY <2>2, <3>1 DEF RightAs
  <2>4. CASE k = id
    <3>1. /\ heard = t /\ (rows[k].deleted => rows'[k].deleted)
          /\ rows'[k].deleted => rows[k].deleted \/ Says(v, k)
      BY <1>2, <2>4 DEF Amended, Told, Says
    <3>2. Says(v, k) => WordComes(k)'
      BY <2>1, <3>1, WordGrows
    <3>. QED  BY <2>2, <3>1, <3>2 DEF RightAs
  <2>. QED  BY <2>3, <2>4
<1>3. ASSUME Shifted, UNCHANGED rows, Head(events) \in GoodEvent, EventThread(Head(events)) # open
      PROVE  RightAs(k, d)'
  <2>1. ~Says(Head(events), k)
    BY <1>3, EventOfThread
  <2>2. WordComes(k) => WordComes(k)'
    BY <1>3, <2>1, WordShifts
  <2>. QED  BY <1>3, <2>2 DEF RightAs
<1>4. ASSUME UNCHANGED <<rows, events>>
      PROVE  RightAs(k, d)'
  BY <1>4 DEF RightAs, WordComes, Says
<1>. QED  BY <1>1, <1>2, <1>3, <1>4 DEF Told

\* Messages are added at the end of a thread; those that came after one stay.
LEMMA ThreadGrows ==
  ASSUME MessagesTypes, Told
  PROVE  /\ OpenIds \subseteq OpenIds' /\ Flying \subseteq Flying'
         /\ \A k \in OpenIds' : k \notin OpenIds => k \in Flying' /\ \A j \in OpenIds : j < k
         /\ Flying' \subseteq Flying \cup (OpenIds' \ OpenIds)
         /\ \A k \in OpenIds : Recent(k)' => Recent(k)
<1>1. ASSUME NEW id \in Nat, NEW t, NEW v, Posted(id, t, v)
      PROVE  /\ OpenIds \subseteq OpenIds' /\ Flying \subseteq Flying'
             /\ \A k \in OpenIds' : k \notin OpenIds => k \in Flying' /\ \A j \in OpenIds : j < k
             /\ Flying' \subseteq Flying \cup (OpenIds' \ OpenIds)
  <2>1. /\ DOMAIN rows' = DOMAIN rows \cup {id} /\ \A k \in DOMAIN rows : k < id
        /\ \A k \in DOMAIN rows : rows'[k] = rows[k]
        /\ rows'[id].thread = t /\ v.type = "message" /\ v.entry.id = id
        /\ UNCHANGED open /\ heard = open
    BY <1>1 DEF Posted, Told
  <2>2. IF heard = t THEN Grown(v) ELSE events' = events
    BY <1>1, BroadcastGrows DEF Posted
  <2>3. OpenIds' = IF heard = t THEN OpenIds \cup {id} ELSE OpenIds
    BY <2>1 DEF OpenIds
  <2>4. CASE heard # t
    <3>1. Flying' = Flying
      BY <2>1, <2>2, <2>3, <2>4 DEF Flying
    <3>. QED  BY <2>3, <2>4, <3>1
  <2>5. CASE heard = t
    <3>1. /\ DOMAIN events' = DOMAIN events \cup {Len(events) + 1} /\ events'[Len(events) + 1] = v
          /\ \A i \in DOMAIN events : events'[i] = events[i]
      BY <2>2, <2>5, EventsAreGood DEF Grown
    <3>2. id \notin OpenIds /\ id \in OpenIds' /\ \A j \in OpenIds : j < id
      BY <2>1, <2>3, <2>5 DEF OpenIds
    <3>3. id \in Flying'
      BY <2>1, <3>1, <3>2 DEF Flying
    <3>4. Flying \subseteq Flying'
      BY <2>3, <2>5, <3>1 DEF Flying
    <3>5. Flying' \subseteq Flying \cup {id}
      BY <2>1, <2>3, <2>5, <3>1 DEF Flying
    <3>. QED  BY <2>3, <2>5, <3>2, <3>3, <3>4, <3>5
  <2>. QED  BY <2>4, <2>5
<1>2. ASSUME NEW id \in DOMAIN rows, NEW t, NEW v, Amended(id, t, v)
      PROVE  OpenIds' = OpenIds /\ Flying' = Flying
  <2>1. /\ DOMAIN rows' = DOMAIN rows /\ \A k \in DOMAIN rows : rows'[k].thread = rows[k].thread
        /\ v.type # "message" /\ UNCHANGED open
    BY <1>2 DEF Amended, Told
  <2>2. OpenIds' = OpenIds
    BY <2>1 DEF OpenIds
  <2>3. Grown(v) \/ events' = events
    BY <1>2, BroadcastGrows DEF Amended
  <2>4. CASE Grown(v)
    <3>1. /\ DOMAIN events' = DOMAIN events \cup {Len(events) + 1} /\ events'[Len(events) + 1] = v
          /\ \A i \in DOMAIN events : events'[i] = events[i]
      BY <2>4, EventsAreGood DEF Grown
    <3>. QED  BY <2>1, <2>2, <3>1 DEF Flying
  <2>. QED  BY <2>2, <2>3, <2>4 DEF Flying
<1>3. ASSUME Shifted, UNCHANGED rows, Head(events) \in GoodEvent, EventThread(Head(events)) # open
      PROVE  OpenIds' = OpenIds /\ Flying' = Flying
  <2>1. OpenIds' = OpenIds
    BY <1>3 DEF OpenIds, Told
  <2>2. /\ Len(events) \in Nat /\ DOMAIN events = 1 .. Len(events) /\ DOMAIN events' = 1 .. Len(events) - 1
        /\ \A i \in DOMAIN events' : i + 1 \in DOMAIN events /\ events'[i] = events[i + 1]
        /\ Head(events) = events[1]
    BY <1>3 DEF Shifted
  <2>3. Flying' \subseteq Flying
    BY <2>1, <2>2 DEF Flying
  <2>4. ASSUME NEW k \in Flying
        PROVE  k \in Flying'
    <3>1. PICK i \in DOMAIN events : events[i].type = "message" /\ events[i].entry.id = k
      BY DEF Flying
    <3>2. k \in DOMAIN rows /\ rows[k].thread = open
      BY DEF Flying, OpenIds
    <3>3. i # 1
      BY <1>3, <2>2, <3>1, <3>2, EventOfThread
    <3>4. i - 1 \in DOMAIN events' /\ (i - 1) + 1 = i
      BY <2>2, <3>3
    <3>5. events'[i - 1] = events[i]
      BY <2>2, <3>4
    <3>. QED  BY <2>1, <3>1, <3>4, <3>5 DEF Flying
  <2>. QED  BY <2>1, <2>3, <2>4
<1>4. ASSUME UNCHANGED <<rows, events>>
      PROVE  OpenIds' = OpenIds /\ Flying' = Flying
  BY <1>4 DEF OpenIds, Flying, Told
<1>5. ASSUME NEW k \in OpenIds, Recent(k)'
      PROVE  Recent(k)
  <2>1. RowsGrow
    BY SameRowsGrow DEF Told, Posted, Amended
  <2>2. k \in DOMAIN rows /\ DOMAIN rows \subseteq DOMAIN rows'
    BY <2>1, GoodStaysGood DEF OpenIds
  <2>. DEFINE A == {j \in DOMAIN rows : rows[j].thread = rows[k].thread /\ j > k}
              B == {j \in DOMAIN rows' : rows'[j].thread = rows'[k].thread /\ j > k}
  <2>3. A \subseteq B
    BY <2>1, <2>2 DEF RowsGrow
  <2>4. IsFiniteSet(B)
    <3>1. DOMAIN rows' = 1 .. Len(rows') /\ Len(rows') \in Nat
      BY <2>1, LenProperties DEF RowsGrow
    <3>2. IsFiniteSet(DOMAIN rows')
      BY <3>1, FS_Interval
    <3>. QED  BY <3>2, FS_Subset
  <2>5. Cardinality(A) <= Cardinality(B) /\ Cardinality(A) \in Nat /\ Cardinality(B) \in Nat
    BY <2>3, <2>4, FS_Subset, FS_CardinalityType
  <2>6. Cardinality(B) < PageSize
    BY <1>5 DEF Recent
  <2>7. Cardinality(A) < PageSize
    BY <2>5, <2>6, MessagesAssumption
  <2>. QED  BY <2>7 DEF Recent
<1>6. ASSUME OpenIds' = OpenIds /\ Flying' = Flying
      PROVE  /\ OpenIds \subseteq OpenIds' /\ Flying \subseteq Flying'
             /\ \A k \in OpenIds' : k \notin OpenIds => k \in Flying' /\ \A j \in OpenIds : j < k
             /\ Flying' \subseteq Flying \cup (OpenIds' \ OpenIds)
  BY <1>6
<1>. HIDE DEF OpenIds, Flying
<1>. QED  BY <1>1, <1>2, <1>3, <1>4, <1>5, <1>6 DEF Told

\* The panel that is told keeps what it has.
LEMMA CoversKept ==
  ASSUME MessagesTypes, Told, NEW X, X \subseteq OpenIds, Covers(X \cup Flying)
  PROVE  Covers(X \cup Flying)'
<1>. DEFINE Y == X \cup Flying
            Z == X \cup Flying'
<1>1. /\ OpenIds \subseteq OpenIds' /\ Flying \subseteq Flying'
      /\ \A k \in OpenIds' : k \notin OpenIds => k \in Flying' /\ \A j \in OpenIds : j < k
      /\ Flying' \subseteq Flying \cup (OpenIds' \ OpenIds)
      /\ \A k \in OpenIds : Recent(k)' => Recent(k)
  BY ThreadGrows
<1>2. /\ Y \subseteq OpenIds
      /\ \A k \in Y : \A j \in OpenIds : k < j => j \in Y
      /\ \A k \in OpenIds : Recent(k) => k \in Y
  BY DEF Covers
<1>3. Z \subseteq OpenIds' /\ Y \subseteq Z
  BY <1>1, <1>2
<1>4. ASSUME NEW k \in Z, NEW j \in OpenIds', k < j
      PROVE  j \in Z
  <2>1. CASE j \notin OpenIds
    BY <1>1, <2>1
  <2>2. CASE j \in OpenIds /\ k \in Y
    BY <1>2, <1>3, <1>4, <2>2
  <2>3. CASE j \in OpenIds /\ k \notin Y
    <3>1. k \in OpenIds' /\ k \notin OpenIds
      BY <1>1, <1>2, <2>3
    <3>2. j < k /\ k \in Nat /\ j \in Nat
      <4>1. OpenIds' \subseteq Nat
        <5>1. RowsGrow
          BY SameRowsGrow DEF Told, Posted, Amended
        <5>2. DOMAIN rows' = 1 .. Len(rows')
          BY <5>1, LenProperties DEF RowsGrow
        <5>. QED  BY <5>2 DEF OpenIds
      <4>. QED  BY <1>1, <2>3, <3>1, <4>1
    <3>. QED  BY <1>4, <3>2
  <2>. QED  BY <2>1, <2>2, <2>3
<1>5. ASSUME NEW k \in OpenIds', Recent(k)'
      PROVE  k \in Z
  BY <1>1, <1>2, <1>3, <1>5
<1>. QED  BY <1>3, <1>4, <1>5 DEF Covers

LEMMA FullKept ==
  ASSUME MessagesTypes, WordIsTrue, Told, NEW l \in Seq(GoodEntry), Full(l)
  PROVE  Full(l)' /\ (Leads(l) => Leads(l)')
<1>1. /\ DOMAIN l = 1 .. Len(l) /\ Len(l) \in Nat
      /\ \A i \in DOMAIN l : l[i].id \in DOMAIN rows /\ l[i].thread = rows[l[i].id].thread
  BY LenProperties, ElementOfSeq DEF GoodEntry
<1>2. ThreadIds(l)' = ThreadIds(l)
  BY DEF ThreadIds, Told
<1>3. ThreadIds(l) \subseteq OpenIds
  BY <1>1 DEF ThreadIds, OpenIds
<1>4. PICK X : X = ThreadIds(l)
  OBVIOUS
<1>5. Covers(X \cup Flying)'
  BY <1>3, <1>4, CoversKept DEF Full
<1>6. Covers(ThreadIds(l) \cup Flying)'
  BY <1>2, <1>4, <1>5
<1>7. \A i \in DOMAIN l : l[i].thread = open' => RightAs(l[i].id, l[i].deleted)'
  <2>. SUFFICES ASSUME NEW i \in DOMAIN l, l[i].thread = open PROVE RightAs(l[i].id, l[i].deleted)'
    BY DEF Told
  <2>1. l[i].id \in OpenIds /\ RightAs(l[i].id, l[i].deleted)
    BY <1>1 DEF OpenIds, Full
  <2>. QED  BY <2>1, RightKept
<1>8. Full(l)'
  <2>1. LastWord'
    BY LastWordKept DEF Full
  <2>2. AnswersKnown(l)'
    BY <1>2, ThreadGrows DEF Full, AnswersKnown, Told
  <2>. QED  BY <1>6, <1>7, <2>1, <2>2 DEF Full, Told
<1>9. ASSUME Leads(l) PROVE Leads(l)'
  <2>1. l # <<>> /\ l[1].thread = open /\ \A k \in ThreadIds(l) \cup Flying : l[1].id <= k
    BY <1>9 DEF Leads
  <2>2. 1 \in DOMAIN l
    BY <1>1, <2>1, EmptySeq
  <2>3. l[1].id \in OpenIds /\ l[1].id \in Nat
    BY <1>1, <2>1, <2>2, RowsAreRows DEF OpenIds
  <2>4. ASSUME NEW k \in Flying' PROVE l[1].id <= k
    <3>1. CASE k \in Flying
      BY <2>1, <3>1
    <3>2. CASE k \in OpenIds' /\ k \notin OpenIds
      <4>1. l[1].id < k
        BY <2>3, <3>2, ThreadGrows
      <4>2. OpenIds' \subseteq Nat
        <5>1. RowsGrow
          BY SameRowsGrow DEF Told, Posted, Amended
        <5>2. DOMAIN rows' = 1 .. Len(rows')
          BY <5>1, LenProperties DEF RowsGrow
        <5>. QED  BY <5>2 DEF OpenIds
      <4>. QED  BY <2>3, <3>2, <4>1, <4>2
    <3>. QED  BY <3>1, <3>2, ThreadGrows
  <2>. QED  BY <1>2, <2>1, <2>4 DEF Leads, Told
<1>. QED  BY <1>8, <1>9

LEMMA BeforeKept ==
  ASSUME MessagesTypes, Told, NEW s \in Seq(GoodEntry), NEW b \in OpenIds, Before(s, b)
  PROVE  Before(s, b)'
<1>1. /\ DOMAIN s = 1 .. Len(s)
      /\ \A i \in DOMAIN s : s[i].id \in DOMAIN rows /\ s[i].thread = rows[s[i].id].thread
  BY LenProperties, ElementOfSeq DEF GoodEntry
<1>2. ASSUME NEW i \in DOMAIN s
      PROVE  /\ s[i].thread = open' /\ RightAs(s[i].id, s[i].deleted)' /\ s[i].id < b
             /\ \A j \in OpenIds' : s[i].id < j /\ j < b => j \in Ids(s)
  <2>1. s[i].thread = open /\ RightAs(s[i].id, s[i].deleted) /\ s[i].id < b
    BY DEF Before
  <2>2. s[i].id \in OpenIds
    BY <1>1, <2>1 DEF OpenIds
  <2>3. RightAs(s[i].id, s[i].deleted)'
    BY <2>1, <2>2, RightKept
  <2>4. ASSUME NEW j \in OpenIds', s[i].id < j, j < b
        PROVE  j \in Ids(s)
    <3>1. j \in OpenIds
      <4>1. j \in Nat /\ b \in Nat
        <5>1. RowsGrow
          BY SameRowsGrow DEF Told, Posted, Amended
        <5>2. DOMAIN rows' = 1 .. Len(rows')
          BY <5>1, LenProperties DEF RowsGrow
        <5>. QED  BY <5>2, RowsAreRows DEF OpenIds
      <4>2. j \notin OpenIds => b < j
        BY ThreadGrows
      <4>. QED  BY <2>4, <4>1, <4>2
    <3>. QED  BY <2>4, <3>1 DEF Before
  <2>. QED  BY <2>1, <2>3, <2>4 DEF Told
<1>3. \A i, j \in DOMAIN s : i < j => s[i].id < s[j].id
  BY DEF Before
<1>. QED  BY <1>2, <1>3 DEF Before, Ids

\* The same messages, whatever is said of them.
SameMessages(l, m) ==
  /\ DOMAIN m = DOMAIN l
  /\ \A i \in DOMAIN l : m[i].id = l[i].id /\ m[i].thread = l[i].thread

LEMMA SameThreadIds ==
  ASSUME NEW l, NEW m, SameMessages(l, m)
  PROVE  ThreadIds(m) = ThreadIds(l)
BY DEF SameMessages, ThreadIds

\* What the list starts with, stays there.
SameStart == list # <<>> => list' # <<>> /\ list'[1].id = list[1].id /\ list'[1].thread = list[1].thread

LEMMA SameMessagesSameStart ==
  ASSUME MessagesTypes, list' \in Seq(GoodEntry), SameMessages(list, list')
  PROVE  SameStart
<1>1. DOMAIN list' = 1 .. Len(list') /\ DOMAIN list = 1 .. Len(list) /\ Len(list) \in Nat /\ Len(list') \in Nat
  BY ListIsGood, LenProperties
<1>2. list # <<>> => 1 \in DOMAIN list
  BY <1>1, EmptySeq, ListIsGood
<1>3. list' = <<>> => DOMAIN list' = {}
  OBVIOUS
<1>. QED  BY <1>2, <1>3 DEF SameMessages, SameStart

\* A message that is inserted: the others are where they were.
LEMMA InsertedAdds ==
  ASSUME MessagesTypes, NEW e \in GoodEntry, Inserted(e, list'), UNCHANGED open
  PROVE  /\ ThreadIds(list)' = ThreadIds(list) \cup (IF e.thread = open THEN {e.id} ELSE {})
         /\ \A i \in DOMAIN list' : list'[i] = e \/ \E j \in DOMAIN list : list'[i] = list[j]
         /\ (\A i, j \in DOMAIN list : list[i].thread = open /\ list[j].thread = open /\ i # j
                                         => list[i].id # list[j].id)
            => \A i, j \in DOMAIN list' : list'[i].thread = open /\ list'[j].thread = open /\ i # j
                                         => list'[i].id # list'[j].id
         /\ SameStart
<1>1. CASE list' = list /\ \E i \in DOMAIN list : list[i].id = e.id
  <2>1. PICK i \in DOMAIN list : list[i].id = e.id
    BY <1>1
  <2>2. list[i].thread = e.thread
    BY <2>1, ListIsGood DEF GoodEntry
  <2>3. e.thread = open => e.id \in ThreadIds(list)
    BY <2>1, <2>2 DEF ThreadIds
  <2>4. ThreadIds(list)' = ThreadIds(list)
    BY <1>1 DEF ThreadIds
  <2>. QED  BY <1>1, <2>3, <2>4 DEF SameStart
<1>2. CASE /\ DOMAIN list' = 1 .. Len(list) + 1 /\ list'[Len(list) + 1] = e
           /\ \A i \in DOMAIN list : list'[i] = list[i] /\ list[i].id # e.id
  <2>1. DOMAIN list' = DOMAIN list \cup {Len(list) + 1} /\ Len(list) + 1 \notin DOMAIN list
    BY <1>2, ListIsGood
  <2>2. ThreadIds(list)' = ThreadIds(list) \cup (IF e.thread = open THEN {e.id} ELSE {})
    BY <1>2, <2>1 DEF ThreadIds
  <2>3. SameStart
    <3>1. list # <<>> => 1 \in DOMAIN list
      BY ListIsGood, EmptySeq
    <3>2. list' = <<>> => DOMAIN list' = {}
      OBVIOUS
    <3>. QED  BY <1>2, <2>1, <3>1, <3>2 DEF SameStart
  <2>. QED  BY <1>2, <2>1, <2>2, <2>3
<1>. QED  BY <1>1, <1>2 DEF Inserted

\* The list stays full when it and the events on their way have the same messages.
LEMMA StillFull ==
  ASSUME MessagesTypes, Full(list), UNCHANGED <<rows, open>>, SameStart, NoNewAnswer, LastWord',
         (ThreadIds(list) \cup Flying)' = ThreadIds(list) \cup Flying,
         (\A i \in DOMAIN list : list[i].thread = open => RightAs(list[i].id, list[i].deleted))',
         \A i, j \in DOMAIN list' : list'[i].thread = open /\ list'[j].thread = open /\ i # j
                                      => list'[i].id # list'[j].id
  PROVE  Full(list)' /\ (Leads(list) => Leads(list)')
<1>1. PICK U : U = ThreadIds(list) \cup Flying
  OBVIOUS
<1>2. Covers(U)
  BY <1>1 DEF Full
<1>3. Covers(U)'
  BY <1>2 DEF Covers, OpenIds, Recent
<1>4. Covers(ThreadIds(list) \cup Flying)'
  BY <1>1, <1>3
<1>5. Full(list)'
  <2>1. AnswersKnown(list)'
    BY DEF Full, AnswersKnown, NoNewAnswer
  <2>. QED  BY <1>4, <2>1 DEF Full
<1>6. Leads(list) => Leads(list)'
  BY <1>1 DEF Leads, SameStart
<1>. QED  BY <1>5, <1>6

\* An event of the open thread is applied.
LEMMA DeliveredFull ==
  ASSUME MessagesTypes, WordIsTrue, heard = open, Full(list), Deliver,
         EventThread(Head(events)) = open
  PROVE  SameStart /\ Full(list)' /\ (Leads(list) => Leads(list)')
<1>. DEFINE v == Head(events)
<1>1. /\ Shifted /\ v \in GoodEvent /\ UNCHANGED <<rows, heard, open>>
      /\ AppliedTo(v, list')
  <2>1. list' = Applied(v) /\ UNCHANGED open
    BY DEF Deliver
  <2>. QED  BY <2>1, DeliverShifts, AppliedIsApplied
<1>2. /\ Len(events) \in Nat \ {0} /\ DOMAIN events = 1 .. Len(events) /\ v = events[1]
      /\ DOMAIN events' = 1 .. Len(events) - 1
      /\ \A i \in DOMAIN events' : i + 1 \in DOMAIN events /\ events'[i] = events[i + 1]
  BY <1>1 DEF Shifted
<1>. HIDE DEF v
<1>0. NoNewAnswer /\ LastWord'
  <2>1. UNCHANGED req
    BY DeliverShifts
  <2>2. NoNewAnswer
    BY <2>1 DEF NoNewAnswer, SendAnswered
  <2>. QED  BY <1>1, <2>2, WordShifted DEF Full
<1>3. OpenIds' = OpenIds
  BY <1>1 DEF OpenIds
<1>4. Flying' \subseteq Flying
  BY <1>2, <1>3 DEF Flying
<1>5. ASSUME NEW k \in Flying, ~(v.type = "message" /\ v.entry.id = k)
      PROVE  k \in Flying'
  <2>1. PICK i \in DOMAIN events : events[i].type = "message" /\ events[i].entry.id = k
    BY DEF Flying
  <2>2. i # 1
    BY <1>2, <1>5, <2>1
  <2>3. i - 1 \in DOMAIN events' /\ (i - 1) + 1 = i
    BY <1>2, <2>2
  <2>4. events'[i - 1] = events[i]
    BY <1>2, <2>3
  <2>. QED  BY <1>3, <2>1, <2>3, <2>4 DEF Flying
\* An entry of the thread that the event does not correct is still right, and one
\* that it marks is made so.
<1>6. ASSUME NEW k \in OpenIds, NEW d, RightAs(k, d), ~Says(v, k)
      PROVE  RightAs(k, d)'
  <2>1. WordComes(k) => WordComes(k)'
    BY <1>1, <1>6, WordShifts DEF v
  <2>. QED  BY <1>1, <1>6, <2>1 DEF RightAs
<1>7. ASSUME NEW k \in OpenIds, Denies(v, k)
      PROVE  RightAs(k, FALSE)'
  <2>2. rows[k].deleted => WordComes(k)'
    BY <1>1, <1>7, DenialCorrected DEF v, Full
  <2>. QED  BY <1>1, <2>2 DEF RightAs
<1>8. ASSUME NEW k \in OpenIds, Says(v, k)
      PROVE  RightAs(k, TRUE)'
  <2>1. rows[k].deleted
    BY <1>2, <1>8 DEF WordIsTrue, OpenIds
  <2>. QED  BY <1>1, <2>1 DEF RightAs
<1>9. \A i \in DOMAIN list : list[i].thread = open => list[i].id \in OpenIds /\ RightAs(list[i].id, list[i].deleted)
  BY ListIsGood DEF OpenIds, Full
<1>10. CASE v.type = "message"
  <2>. DEFINE e == v.entry
  <2>1. e \in GoodEntry /\ e.thread = open /\ e.deleted = FALSE /\ Inserted(e, list')
    BY <1>1, <1>10 DEF GoodEvent, AppliedTo, EventThread, GoodEntry, Entry, v
  <2>2. e.id \in OpenIds /\ Denies(v, e.id)
    BY <1>10, <2>1 DEF GoodEntry, OpenIds, Denies
  <2>3. e.id \in Flying
    BY <1>2, <1>10, <2>2 DEF Flying
  <2>. HIDE DEF e
  <2>4. /\ ThreadIds(list)' = ThreadIds(list) \cup (IF e.thread = open THEN {e.id} ELSE {})
        /\ \A i \in DOMAIN list' : list'[i] = e \/ \E j \in DOMAIN list : list'[i] = list[j]
        /\ \A i, j \in DOMAIN list' : list'[i].thread = open /\ list'[j].thread = open /\ i # j
                                         => list'[i].id # list'[j].id
        /\ SameStart
    BY <1>1, <2>1, InsertedAdds DEF Full
  <2>5. (ThreadIds(list) \cup Flying)' = ThreadIds(list) \cup Flying
    BY <1>4, <1>5, <2>1, <2>3, <2>4 DEF e
  <2>6. \A k \in OpenIds : ~Says(v, k)
    BY <1>10 DEF Says
  <2>7. (\A i \in DOMAIN list : list[i].thread = open => RightAs(list[i].id, list[i].deleted))'
    <3>. SUFFICES ASSUME NEW i \in DOMAIN list', list'[i].thread = open
                  PROVE  RightAs(list[i].id, list[i].deleted)'
      BY <1>1
    <3>1. PICK k, d : k = list'[i].id /\ d = list'[i].deleted
      OBVIOUS
    <3>2. k \in OpenIds /\ ((k = e.id /\ d = FALSE) \/ RightAs(k, d))
      BY <1>9, <2>1, <2>2, <2>4, <3>1
    <3>3. RightAs(k, d)'
      <4>1. CASE k = e.id /\ d = FALSE
        BY <1>7, <2>2, <3>2, <4>1
      <4>2. CASE RightAs(k, d)
        BY <1>6, <2>6, <3>2, <4>2
      <4>. QED  BY <3>2, <4>1, <4>2
    <3>. QED  BY <3>1, <3>3 DEF RightAs, WordComes
  <2>. QED  BY <1>0, <1>1, <2>4, <2>5, <2>7, StillFull
<1>11. CASE v.type # "message"
  <2>1. SameMessages(list, list') /\ list' \in Seq(GoodEntry)
    BY <1>1, <1>11 DEF AppliedTo, Marked, Untouched, SameMessage, SameMessages, GoodEvent, Event
  <2>2. SameStart
    BY <2>1, SameMessagesSameStart
  <2>3. ThreadIds(list') = ThreadIds(list)
    BY <2>1, SameThreadIds
  <2>4. ThreadIds(list)' = ThreadIds(list)
    BY <1>1, <2>3 DEF ThreadIds
  <2>5. (ThreadIds(list) \cup Flying)' = ThreadIds(list) \cup Flying
    BY <1>4, <1>5, <1>11, <2>4
  <2>6. (\A i \in DOMAIN list : list[i].thread = open => RightAs(list[i].id, list[i].deleted))'
    <3>. SUFFICES ASSUME NEW i \in DOMAIN list', list'[i].thread = open
                  PROVE  RightAs(list[i].id, list[i].deleted)'
      BY <1>1
    <3>1. PICK k, d, c : k = list[i].id /\ d = list'[i].deleted /\ c = list[i].deleted
      OBVIOUS
    <3>2. i \in DOMAIN list /\ list'[i].id = k /\ k \in OpenIds /\ RightAs(k, c)
      BY <1>9, <2>1, <3>1 DEF SameMessages
    <3>3. CASE v.type = "edited"
      <4>1. d = IF k = v.entry.id THEN v.entry.deleted ELSE c
        BY <1>1, <3>1, <3>2, <3>3 DEF AppliedTo, Marked
      <4>2. v.entry.deleted \in BOOLEAN
        BY <1>1, <3>3 DEF GoodEvent, GoodEntry, Entry
      <4>6. RightAs(k, d)'
        <5>1. CASE k # v.entry.id
          BY <1>6, <3>2, <3>3, <4>1, <5>1 DEF Says
        <5>2. CASE k = v.entry.id /\ v.entry.deleted = TRUE
          BY <1>8, <3>2, <3>3, <4>1, <5>2 DEF Says
        <5>3. CASE k = v.entry.id /\ v.entry.deleted = FALSE
          BY <1>7, <3>2, <3>3, <4>1, <5>3 DEF Denies
        <5>. QED  BY <4>2, <5>1, <5>2, <5>3
      <4>. QED  BY <3>1, <3>2, <4>6 DEF RightAs, WordComes
    <3>4. CASE v.type = "deleted"
      <4>1. d = IF k = v.id THEN TRUE ELSE c
        BY <1>1, <3>1, <3>2, <3>4 DEF AppliedTo, Marked
      <4>4. RightAs(k, d)'
        <5>1. CASE k # v.id
          BY <1>6, <3>2, <3>4, <4>1, <5>1 DEF Says
        <5>2. CASE k = v.id
          BY <1>8, <3>2, <3>4, <4>1, <5>2 DEF Says
        <5>. QED  BY <5>1, <5>2
      <4>. QED  BY <3>1, <3>2, <4>4 DEF RightAs, WordComes
    <3>5. CASE v.type = "reaction"
      <4>1. d = c
        BY <1>1, <3>1, <3>2, <3>5 DEF AppliedTo, Untouched, SameMessage
      <4>2. RightAs(k, d)'
        BY <1>6, <3>2, <3>5, <4>1 DEF Says
      <4>. QED  BY <3>1, <3>2, <4>2 DEF RightAs, WordComes
    <3>. QED  BY <1>1, <1>11, <3>3, <3>4, <3>5 DEF GoodEvent, Event
  <2>7. \A i, j \in DOMAIN list' : list'[i].thread = open /\ list'[j].thread = open /\ i # j
                                         => list'[i].id # list'[j].id
    BY <2>1 DEF SameMessages, Full
  <2>. QED  BY <1>0, <1>1, <2>2, <2>5, <2>6, <2>7, StillFull
<1>. QED  BY <1>10, <1>11

\* Requests that begin, move on or end: none of them answers a text that was sent.
Moved(r) == \E q : (q = Idle \/ q.at # "answered") /\ req' = [req EXCEPT ![r] = q]

LEMMA MovedIsNoAnswer ==
  ASSUME MessagesTypes, UNCHANGED req \/ \E r : Moved(r)
  PROVE  NoNewAnswer
<1>1. DOMAIN req = Req
  BY DEF MessagesTypes, TableTypes
<1>. QED  BY <1>1 DEF NoNewAnswer, SendAnswered, Moved, Req

LEMMA BegunIsMoved ==
  ASSUME NEW r, NEW q, q.at # "answered", Begin(r, q)
  PROVE  Moved(r)
BY DEF Begin, Moved

LEMMA FrameAt ==
  ASSUME NEW op, NEW u, NEW t, NEW id, NEW arg, NEW votes, NEW stage
  PROVE  Frame(op, u, t, id, arg, votes, stage).at = stage
BY DEF Frame

LEMMA AskedIsMoved ==
  ASSUME NEW r, \/ \E id : Pin(r, id) \/ Delete(r, id) \/ ToggleReaction(r, id) \/ \E o : HandleVote(r, id, o)
                \/ SendText(r) \/ SendPlain(r) \/ RetryPending(r) \/ SubmitEdit(r)
                \/ \E op, u, id, arg : OtherAsks(r, op, u, id, arg)
                \/ \E u, t : OtherSends(r, u, t)
  PROVE  Moved(r)
<1>1. \E op, u, t, id, arg, votes, stage : stage # "answered" /\ Begin(r, Frame(op, u, t, id, arg, votes, stage))
  <2>1. ASSUME NEW id, Pin(r, id) \/ Delete(r, id) \/ ToggleReaction(r, id) \/ \E o : HandleVote(r, id, o)
        PROVE  \E op, arg : Begin(r, Frame(op, Me, rows[id].thread, id, arg, NoVotes, "sent"))
    BY <2>1 DEF Pin, Delete, ToggleReaction, HandleVote, Ask
  <2>2. ASSUME SendText(r) \/ SendPlain(r) \/ RetryPending(r)
        PROVE  \E arg : Begin(r, Frame("send", Me, open, 0, arg, NoVotes, "sent"))
    BY <2>2 DEF SendText, SendPlain, RetryPending
  <2>3. ASSUME SubmitEdit(r)
        PROVE  Begin(r, Frame("edit", Me, rows[editing].thread, editing, Written, NoVotes, "sent"))
    BY <2>3 DEF SubmitEdit
  <2>4. ASSUME NEW op, NEW u, NEW id, NEW arg, OtherAsks(r, op, u, id, arg)
        PROVE  Begin(r, Frame(op, u, rows[id].thread, id, arg, rows[id].votes, "read"))
    BY <2>4 DEF OtherAsks
  <2>5. ASSUME NEW u, NEW t, OtherSends(r, u, t)
        PROVE  Begin(r, Frame("send", u, t, 0, t, NoVotes, "read"))
    BY <2>5 DEF OtherSends
  <2>6. "sent" # "answered" /\ "read" # "answered"
    OBVIOUS
  <2>. QED  BY <2>1, <2>2, <2>3, <2>4, <2>5, <2>6
<1>. QED  BY <1>1, FrameAt, BegunIsMoved

LEMMA RequestMoved ==
  ASSUME MessagesTypes, NEW r \in Req, Read(r) \/ Fail(r) \/ Answered(r) \/ Failed(r)
  PROVE  Moved(r)
<1>1. PICK q : q = req[r]
  OBVIOUS
<1>2. q # Idle => q \in Request
  BY <1>1 DEF MessagesTypes, TableTypes, GoodRequest
<1>3. CASE Read(r)
  <2>1. \E p : p.at # "answered" /\ req' = [req EXCEPT ![r] = p]
    <3>0. q \in Request
      BY <1>1, <1>2, <1>3 DEF Read
    <3>1. /\ [q EXCEPT !.at = "read"].at # "answered" /\ [q EXCEPT !.at = "failed"].at # "answered"
          /\ [q EXCEPT !.at = "read", !.votes = rows[q.id].votes].at # "answered"
      BY <3>0 DEF Request
    <3>. QED  BY <1>1, <1>3, <3>1 DEF Read
  <2>. QED  BY <2>1 DEF Moved
<1>4. CASE Fail(r)
  <2>1. req' = [req EXCEPT ![r] = [q EXCEPT !.at = "failed"]] /\ [q EXCEPT !.at = "failed"].at # "answered"
    BY <1>1, <1>2, <1>4 DEF Fail, Request
  <2>. QED  BY <2>1 DEF Moved
<1>5. CASE Answered(r) \/ Failed(r)
  BY <1>5 DEF Answered, Failed, Moved
<1>. QED  BY <1>3, <1>4, <1>5

\* Steps that tell the panel what it must know leave what they do not change right:
\* the list, the history on its way and the older page on its way.
LEMMA ListUndisturbed ==
  ASSUME ListInv, UNCHANGED <<heard, open, loading, hasMore, clean>>,
         clean => Full(list)' /\ (Leads(list) => Leads(list)')
  PROVE  ListInv'
BY DEF ListInv

LEMMA FetchUndisturbed ==
  ASSUME MessagesTypes, WordIsTrue, FetchInv, heard = open => Told, UNCHANGED <<heard, mount, open, loading>>,
         mount # 0 => fetches'[mount] = fetches[mount]
  PROVE  FetchInv'
<1>. SUFFICES ASSUME mount # 0, fetches[mount] # NoPage PROVE FetchInv'
  BY DEF FetchInv
<1>1. PICK f : f = fetches[mount]
  OBVIOUS
<1>2. /\ f.thread = open /\ loading
      /\ f.clean => heard = open /\ Full(f.page) /\ (f.page # <<>> => Leads(f.page))
  BY <1>1 DEF FetchInv
<1>3. f.page \in Seq(GoodEntry)
  BY <1>1, MessagesAssumption DEF MessagesTypes, PanelTypes, Run, GoodPage
<1>4. ASSUME f.clean PROVE Full(f.page)' /\ (f.page # <<>> => Leads(f.page)')
  <2>1. PICK l : l = f.page
    OBVIOUS
  <2>. QED  BY <1>2, <1>3, <1>4, <2>1, FullKept
<1>5. f = fetches'[mount']
  BY <1>1
<1>. QED  BY <1>2, <1>4, <1>5 DEF FetchInv

LEMMA OlderUndisturbed ==
  ASSUME MessagesTypes, ListInv, OlderInv, heard = open => Told,
         UNCHANGED <<mount, open, loading, hasMore, clean, older>>, SameStart
  PROVE  OlderInv'
<1>. SUFFICES ASSUME older # NoPage PROVE OlderInv'
  BY DEF OlderInv
<1>1. /\ older.mount <= mount /\ (older.mount = mount /\ older.clean => ~loading)
      /\ older.mount = mount /\ older.clean /\ clean =>
           /\ list # <<>> /\ older.before = list[1].id /\ older.thread = open /\ hasMore
           /\ older.at = "ready" => Before(older.page, older.before)
  BY DEF OlderInv
<1>2. ASSUME older.mount = mount, older.clean, clean, older.at = "ready"
      PROVE  Before(older.page, older.before)'
  <2>1. PICK s, b : s = older.page /\ b = older.before
    OBVIOUS
  <2>2. s \in Seq(GoodEntry)
    BY <2>1 DEF MessagesTypes, PanelTypes, GoodOlder
  <2>3. heard = open /\ list # <<>> /\ list[1].thread = open
    BY <1>1, <1>2 DEF ListInv, Leads
  <2>4. b \in OpenIds
    <3>1. 1 \in DOMAIN list
      BY <2>3, ListIsGood, EmptySeq
    <3>2. b = list[1].id
      BY <1>1, <1>2, <2>1
    <3>. QED  BY <2>3, <3>1, <3>2, ListIsGood DEF OpenIds
  <2>5. Before(s, b)
    BY <1>1, <1>2, <2>1
  <2>6. Before(s, b)'
    BY <2>2, <2>3, <2>4, <2>5, BeforeKept
  <2>. QED  BY <2>1, <2>6
<1>. QED  BY <1>1, <1>2 DEF OlderInv, SameStart

\* A step of the server that changes nothing of the panel's.
LEMMA ServerTells ==
  ASSUME MessagesTypes, CompleteInv, heard = open => Told,
         UNCHANGED <<heard, mount, open, list, loading, hasMore, clean, fetches, older>>, WordIsTrue'
  PROVE  CompleteInv'
<1>1. SameStart
  BY DEF SameStart
<1>2. ASSUME clean PROVE Full(list)' /\ (Leads(list) => Leads(list)')
  <2>1. PICK l : l = list
    OBVIOUS
  <2>2. heard = open /\ Full(l) /\ l \in Seq(GoodEntry)
    BY <1>2, <2>1, ListIsGood DEF CompleteInv, ListInv
  <2>3. Full(l)' /\ (Leads(l) => Leads(l)')
    BY <2>2, FullKept DEF CompleteInv
  <2>4. Full(list)'
    BY <2>1, <2>3
  <2>5. Leads(list) => Leads(list)'
    BY <2>1, <2>3
  <2>. QED  BY <2>4, <2>5
<1>3. ListInv' /\ FetchInv' /\ OlderInv'
  BY <1>1, <1>2, ListUndisturbed, FetchUndisturbed, OlderUndisturbed DEF CompleteInv
<1>. QED  BY <1>3 DEF CompleteInv

\* What it says neither changes nor depends on anything else.
LEMMA WordKept ==
  ASSUME WordIsTrue, UNCHANGED <<rows, events>>
  PROVE  WordIsTrue' /\ (LastWord /\ UNCHANGED open => LastWord')
BY DEF WordIsTrue, LastWord, Says, Denies, OpenIds

LEMMA NothingTold ==
  ASSUME MessagesTypes, CompleteInv, NoNewAnswer,
         UNCHANGED <<rows, events, heard, mount, open, list, loading, hasMore, clean, fetches, older>>
  PROVE  CompleteInv'
<1>1. heard = open => Told
  BY DEF Told, NoNewAnswer
<1>. QED  BY <1>1, WordKept, ServerTells DEF CompleteInv

\* The panel marks messages of its list as deleted that are.
LEMMA KeptFull ==
  ASSUME MessagesTypes, WordIsTrue, Full(list), NoNewAnswer, UNCHANGED <<rows, events, open>>, list' \in Seq(GoodEntry),
         SameMessages(list, list'),
         \A i \in DOMAIN list : list'[i].deleted = list[i].deleted \/ (list'[i].deleted = TRUE /\ rows[list[i].id].deleted)
  PROVE  Full(list)' /\ (Leads(list) => Leads(list)')
<1>1. SameStart
  BY SameMessagesSameStart
<1>2. ThreadIds(list') = ThreadIds(list)
  BY SameThreadIds
<1>3. ThreadIds(list)' = ThreadIds(list)
  BY <1>2 DEF ThreadIds
<1>4. Flying' = Flying
  BY DEF Flying, OpenIds
<1>5. (\A i \in DOMAIN list : list[i].thread = open => RightAs(list[i].id, list[i].deleted))'
  <2>. SUFFICES ASSUME NEW i \in DOMAIN list', list'[i].thread = open
                PROVE  RightAs(list[i].id, list[i].deleted)'
    OBVIOUS
  <2>1. PICK k, d, c : k = list[i].id /\ d = list'[i].deleted /\ c = list[i].deleted
    OBVIOUS
  <2>2. i \in DOMAIN list /\ list'[i].id = k /\ list[i].thread = open
    BY <2>1 DEF SameMessages
  <2>3. RightAs(k, c) /\ (d = c \/ (d = TRUE /\ rows[k].deleted))
    BY <2>1, <2>2 DEF Full
  <2>4. RightAs(k, d)'
    BY <2>3 DEF RightAs, WordComes
  <2>. QED  BY <2>1, <2>2, <2>4 DEF RightAs, WordComes
<1>6. \A i, j \in DOMAIN list' : list'[i].thread = open /\ list'[j].thread = open /\ i # j
                                   => list'[i].id # list'[j].id
  BY DEF SameMessages, Full
<1>7. LastWord'
  BY WordKept DEF Full
<1>. QED  BY <1>1, <1>3, <1>4, <1>5, <1>6, <1>7, StillFull

\* A step of the panel that changes its list.
LEMMA ListChanged ==
  ASSUME MessagesTypes, CompleteInv, SameStart, NoNewAnswer,
         UNCHANGED <<rows, events, heard, mount, open, loading, hasMore, clean, fetches, older>>,
         clean => Full(list)' /\ (Leads(list) => Leads(list)')
  PROVE  CompleteInv'
<1>1. heard = open => Told
  BY DEF Told, NoNewAnswer
<1>2. ListInv' /\ FetchInv' /\ OlderInv'
  BY <1>1, ListUndisturbed, FetchUndisturbed, OlderUndisturbed DEF CompleteInv
<1>. QED  BY <1>2, WordKept DEF CompleteInv

LEMMA AskedStaysComplete ==
  ASSUME MessagesTypes, CompleteInv, NoNewAnswer, NEW r, Asked(r)
  PROVE  CompleteInv'
<1>1. /\ Untouched(list')
      /\ UNCHANGED <<rows, events, heard, mount, open, loading, hasMore, clean, fetches, older>>
  BY DEF Asked, socket, history
<1>2. /\ list' \in Seq(GoodEntry) /\ SameMessages(list, list')
      /\ \A i \in DOMAIN list : list'[i].deleted = list[i].deleted
  BY <1>1 DEF Untouched, SameMessage, SameMessages
<1>3. SameStart
  BY <1>2, SameMessagesSameStart
<1>4. clean => Full(list)' /\ (Leads(list) => Leads(list)')
  <2>. SUFFICES ASSUME clean PROVE Full(list)' /\ (Leads(list) => Leads(list)')
    OBVIOUS
  <2>1. Full(list)
    BY DEF CompleteInv, ListInv
  <2>0. WordIsTrue
    BY DEF CompleteInv
  <2>2. \A i \in DOMAIN list : list'[i].deleted = list[i].deleted \/ (list'[i].deleted = TRUE /\ rows[list[i].id].deleted)
    BY <1>2
  <2>. QED  BY <1>1, <1>2, <2>0, <2>1, <2>2, KeptFull
<1>. QED  BY <1>1, <1>3, <1>4, ListChanged

\* The answer to a message that was sent: it is in the list, or its event is on its way.
LEMMA AnsweredStaysComplete ==
  ASSUME MessagesTypes, CompleteInv, NEW r \in PanelReq, Answered(r)
  PROVE  CompleteInv'
<1>1. PICK q : q = req[r]
  OBVIOUS
<1>2. UNCHANGED <<rows, events, heard, mount, open, loading, hasMore, clean, fetches, older>>
  BY DEF Answered, socket, history
<1>3. /\ q \in GoodRequest /\ q # Idle /\ q.at = "answered" /\ AnsweredTo(q, list') /\ list' \in Seq(GoodEntry)
      /\ q.id \in DOMAIN rows /\ q.thread = rows[q.id].thread
  BY <1>1, AnswerIsUsed DEF Answered, AnsweredTo, GoodRequest
<1>0. NoNewAnswer /\ WordIsTrue
  BY RequestMoved, MovedIsNoAnswer DEF CompleteInv, Req
<1>4. CASE q.op = "send"
  <2>1. PICK e \in GoodEntry : e.id = q.id /\ ~e.deleted /\ Inserted(e, list')
    BY <1>3, <1>4 DEF AnsweredTo
  <2>2. SameStart
    BY <1>2, <2>1, InsertedAdds
  <2>3. ASSUME clean PROVE Full(list)' /\ (Leads(list) => Leads(list)')
    <3>1. Full(list) /\ heard = open
      BY <2>3 DEF CompleteInv, ListInv
    <3>2. CASE list' = list
      <4>1. SameMessages(list, list')
        BY <3>2 DEF SameMessages
      <4>. QED  BY <1>0, <1>2, <1>3, <3>1, <3>2, <4>1, KeptFull
    <3>3. CASE list' # list
      <4>1. /\ ThreadIds(list)' = ThreadIds(list) \cup (IF e.thread = open THEN {e.id} ELSE {})
            /\ \A i \in DOMAIN list' : list'[i] = e \/ \E j \in DOMAIN list : list'[i] = list[j]
            /\ \A i, j \in DOMAIN list' : list'[i].thread = open /\ list'[j].thread = open /\ i # j
                                            => list'[i].id # list'[j].id
        BY <1>2, <2>1, <3>1, InsertedAdds DEF Full
      <4>2. e.id \in DOMAIN rows /\ e.thread = rows[e.id].thread /\ e.deleted = FALSE
        BY <2>1 DEF GoodEntry, Entry
      <4>3. ASSUME e.thread = open PROVE e.id \in OpenIds /\ e.id \in Flying
        <5>1. e.id \in OpenIds
          BY <4>2, <4>3 DEF OpenIds
        <5>2. SendAnswered(r) /\ req[r].id = e.id /\ req[r].thread = open
          BY <1>1, <1>3, <1>4, <2>1, <4>2, <4>3 DEF SendAnswered
        <5>3. e.id \in ThreadIds(list) \cup Flying
          BY <3>1, <5>2 DEF Full, AnswersKnown
        <5>4. e.id \notin ThreadIds(list)
          BY <2>1, <3>3 DEF Inserted, ThreadIds
        <5>. QED  BY <5>1, <5>3, <5>4
      <4>4. ASSUME e.thread = open PROVE RightAs(e.id, FALSE)
        <5>1. PICK p \in DOMAIN events : events[p].type = "message" /\ events[p].entry.id = e.id
          BY <4>3, <4>4 DEF Flying
        <5>2. Denies(events[p], e.id)
          BY <5>1, EventsAreGood DEF Denies, GoodEvent
        <5>3. rows[e.id].deleted => WordComes(e.id)
          BY <3>1, <4>3, <4>4, <5>2 DEF Full, LastWord, WordComes
        <5>. QED  BY <5>3 DEF RightAs
      <4>5. Flying' = Flying
        BY <1>2 DEF Flying, OpenIds
      <4>6. (ThreadIds(list) \cup Flying)' = ThreadIds(list) \cup Flying
        BY <4>1, <4>3, <4>5
      <4>8. LastWord'
        BY <1>0, <1>2, <3>1, WordKept DEF Full
      <4>7. (\A i \in DOMAIN list : list[i].thread = open => RightAs(list[i].id, list[i].deleted))'
        <5>. SUFFICES ASSUME NEW i \in DOMAIN list', list'[i].thread = open
                      PROVE  RightAs(list[i].id, list[i].deleted)'
          BY <1>2
        <5>1. PICK k, d : k = list'[i].id /\ d = list'[i].deleted
          OBVIOUS
        <5>2. RightAs(k, d)
          <6>1. CASE list'[i] = e
            BY <4>2, <4>4, <5>1, <6>1
          <6>2. CASE \E j \in DOMAIN list : list'[i] = list[j]
            BY <3>1, <5>1, <6>2 DEF Full
          <6>. QED  BY <4>1, <6>1, <6>2
        <5>3. RightAs(k, d)'
          BY <1>2, <5>2 DEF RightAs, WordComes
        <5>. QED  BY <5>1, <5>3 DEF RightAs, WordComes
      <4>. QED  BY <1>0, <1>2, <2>2, <3>1, <4>1, <4>6, <4>7, <4>8, StillFull
    <3>. QED  BY <3>2, <3>3
  <2>. QED  BY <1>0, <1>2, <2>2, <2>3, ListChanged
<1>5. CASE q.op # "send"
  <2>1. /\ SameMessages(list, list')
        /\ \A i \in DOMAIN list : list'[i].deleted = list[i].deleted \/ (list'[i].deleted = TRUE /\ rows[list[i].id].deleted)
    <3>1. CASE q.op = "delete"
      BY <1>3, <3>1 DEF AnsweredTo, Marked, SameMessages
    <3>2. CASE q.op # "delete"
      BY <1>3, <1>5, <3>2 DEF AnsweredTo, SameMessages
    <3>. QED  BY <3>1, <3>2
  <2>2. SameStart
    BY <1>3, <2>1, SameMessagesSameStart
  <2>3. ASSUME clean PROVE Full(list)' /\ (Leads(list) => Leads(list)')
    <3>1. Full(list)
      BY <2>3 DEF CompleteInv, ListInv
    <3>. QED  BY <1>0, <1>2, <1>3, <2>1, <3>1, KeptFull
  <2>. QED  BY <1>0, <1>2, <2>2, <2>3, ListChanged
<1>. QED  BY <1>4, <1>5

\* History read now has all the thread should show.
LEMMA FreshPage ==
  ASSUME MessagesTypes, NEW s, PageOf(s, open, MaxMessage + 1), Timely(open)
  PROVE  Full(s) /\ (s # <<>> => Leads(s)) /\ Flying \subseteq ThreadIds(s)
<1>1. /\ s \in Seq(GoodEntry) /\ DOMAIN s = 1 .. Len(s) /\ Len(s) \in Nat
      /\ \A i \in DOMAIN s : s[i].thread = open /\ s[i].id \in DOMAIN rows /\ s[i].deleted = rows[s[i].id].deleted
      /\ \A i \in DOMAIN s : rows[s[i].id].thread = open
      /\ \A i, j \in DOMAIN s : i < j => s[i].id < s[j].id
  <2>1. s \in Seq(GoodEntry)
    BY DEF PageOf
  <2>. QED  BY <2>1, LenProperties, ElementOfSeq DEF PageOf, GoodEntry
<1>2. \A k \in DOMAIN rows : k \in Nat /\ k < MaxMessage + 1 /\ rows[k].deleted \in BOOLEAN
  BY RowsAreRows, MessagesAssumption DEF Row
<1>3. ThreadIds(s) = Ids(s) /\ Ids(s) \subseteq OpenIds
  BY <1>1 DEF ThreadIds, Ids, OpenIds
<1>4. \A k \in Ids(s) : \A j \in OpenIds : k < j => j \in Ids(s)
  BY <1>2 DEF PageOf, Ids, OpenIds
<1>5. ASSUME NEW k \in OpenIds, Recent(k) PROVE k \in Ids(s)
  <2>1. k \in DOMAIN rows /\ rows[k].thread = open
    BY DEF OpenIds
  <2>2. {j \in DOMAIN rows : rows[j].thread = rows[k].thread /\ j > k}
          = {j \in DOMAIN rows : rows[j].thread = open /\ j < MaxMessage + 1 /\ j > k}
    BY <1>2, <2>1
  <2>. QED  BY <1>2, <1>5, <2>1, <2>2 DEF PageOf, Recent
<1>6. Flying \subseteq Ids(s)
  BY <1>5 DEF Flying, Timely, OpenIds
<1>7. Ids(s) \cup Flying = Ids(s)
  BY <1>6
<1>8. Covers(ThreadIds(s) \cup Flying)
  BY <1>3, <1>4, <1>5, <1>7 DEF Covers
<1>9. \A i \in DOMAIN s : RightAs(s[i].id, s[i].deleted)
  BY <1>1, <1>2 DEF RightAs
<1>10. \A i, j \in DOMAIN s : i # j => s[i].id # s[j].id
  <2>. SUFFICES ASSUME NEW i \in DOMAIN s, NEW j \in DOMAIN s, i # j PROVE s[i].id # s[j].id
    OBVIOUS
  <2>1. s[i].id \in Nat /\ s[j].id \in Nat /\ (i < j \/ j < i)
    BY <1>1, <1>2
  <2>. QED  BY <1>1, <2>1
<1>13. LastWord
  BY DEF LastWord, Timely, OpenIds
<1>14. AnswersKnown(s)
  <2>. SUFFICES ASSUME NEW r \in PanelReq, SendAnswered(r), req[r].thread = open
                PROVE  req[r].id \in ThreadIds(s) \cup Flying
    BY DEF AnswersKnown
  <2>1. req[r] \in GoodRequest /\ req[r].at = "answered"
    BY DEF SendAnswered, MessagesTypes, TableTypes, Req
  <2>2. req[r].id \in OpenIds /\ Recent(req[r].id)
    BY <2>1 DEF GoodRequest, Timely, OpenIds
  <2>. QED  BY <1>3, <1>5, <2>2
<1>11. Full(s)
  BY <1>8, <1>9, <1>10, <1>13, <1>14 DEF Full
<1>12. ASSUME s # <<>> PROVE Leads(s)
  <2>1. 1 \in DOMAIN s
    BY <1>1, <1>12, EmptySeq
  <2>2. ASSUME NEW k \in Ids(s) PROVE s[1].id <= k
    <3>1. PICK i \in DOMAIN s : k = s[i].id
      BY DEF Ids
    <3>2. (i = 1 \/ 1 < i) /\ k \in Nat /\ s[1].id \in Nat
      BY <1>1, <1>2, <2>1, <3>1
    <3>. QED  BY <1>1, <2>1, <3>1, <3>2
  <2>. QED  BY <1>1, <1>3, <1>7, <1>12, <2>1, <2>2 DEF Leads
<1>. QED  BY <1>3, <1>6, <1>11, <1>12

\* Reactions attached to them leave messages as they are.
LEMMA SamePage ==
  ASSUME NEW l, NEW m, SameMessages(l, m), \A i \in DOMAIN l : m[i].deleted = l[i].deleted, Full(l)
  PROVE  Full(m) /\ (l # <<>> /\ Leads(l) /\ 1 \in DOMAIN l => Leads(m))
<1>1. ThreadIds(m) = ThreadIds(l)
  BY SameThreadIds
<1>2. Full(m)
  BY <1>1 DEF Full, AnswersKnown, SameMessages
<1>3. m = <<>> => DOMAIN m = {}
  OBVIOUS
<1>. QED  BY <1>1, <1>2, <1>3 DEF Leads, SameMessages

\* A step that only changes what is known of histories on their way.
LEMMA FetchChanged ==
  ASSUME MessagesTypes, CompleteInv, FetchInv',
         UNCHANGED <<rows, req, events, heard, mount, open, list, loading, hasMore, clean, older>>
  PROVE  CompleteInv'
<1>0. NoNewAnswer
  BY MovedIsNoAnswer
<1>1. SameStart /\ (heard = open => Told)
  BY <1>0 DEF SameStart, Told, NoNewAnswer
<1>2. ASSUME clean PROVE Full(list)' /\ (Leads(list) => Leads(list)')
  <2>1. SameMessages(list, list') /\ \A i \in DOMAIN list : list'[i].deleted = list[i].deleted
    BY DEF SameMessages
  <2>2. Full(list) /\ list' \in Seq(GoodEntry)
    BY <1>2, ListIsGood DEF CompleteInv, ListInv
  <2>. QED  BY <1>0, <2>1, <2>2, KeptFull DEF CompleteInv
<1>. QED  BY <1>1, <1>2, ListUndisturbed, OlderUndisturbed, WordKept DEF CompleteInv

LEMMA ReadStaysComplete ==
  ASSUME MessagesTypes, CompleteInv, NEW n \in Run, ReadHistory(n) \/ ReadReactions(n)
  PROVE  CompleteInv'
<1>0. UNCHANGED req /\ NoNewAnswer
  BY MovedIsNoAnswer DEF ReadHistory, ReadReactions, table
<1>1. /\ UNCHANGED <<rows, events, heard, mount, open, list, loading, hasMore, clean, older>>
      /\ fetches[n] # NoPage
  BY DEF ReadHistory, ReadReactions, table, socket, history
<1>2. PICK f, g : f = fetches[n] /\ g = fetches'[n]
  OBVIOUS
<1>3. f \in GoodPage /\ DOMAIN fetches = Run /\ f.page \in Seq(GoodEntry) /\ NoPage = NoPage
  BY <1>1, <1>2 DEF MessagesTypes, PanelTypes, GoodPage
<1>4. CASE n # mount
  <2>1. mount # 0 => fetches'[mount] = fetches[mount]
    BY <1>3, <1>4, MessagesAssumption DEF ReadHistory, ReadReactions, MessagesTypes, PanelTypes, Run
  <2>2. FetchInv'
    BY <1>0, <1>1, <2>1, FetchUndisturbed DEF CompleteInv, Told, NoNewAnswer
  <2>. QED  BY <1>0, <1>1, <2>2, FetchChanged
<1>5. CASE n = mount
  <2>1. n # 0 /\ f.thread = open /\ loading
    BY <1>1, <1>2, <1>5 DEF CompleteInv, FetchInv, Run
  <2>2. /\ g.thread = open /\ g.page \in Seq(GoodEntry)
        /\ (g.clean => heard = open /\ Full(g.page) /\ (g.page # <<>> => Leads(g.page)))
    <3>1. CASE ReadHistory(n)
      <4>1. g.thread = f.thread /\ (g.clean => heard = f.thread /\ Timely(f.thread)) /\ g.page = History(f.thread, MaxMessage + 1)
        BY <1>2, <1>3, <3>1 DEF ReadHistory, GoodPage, Page
      <4>2. PageOf(g.page, open, MaxMessage + 1)
        BY <2>1, <4>1, HistoryIsPage, MessagesAssumption
      <4>3. g.clean => Full(g.page) /\ (g.page # <<>> => Leads(g.page))
        BY <2>1, <4>1, <4>2, FreshPage
      <4>. QED  BY <2>1, <4>1, <4>2, <4>3 DEF PageOf
    <3>2. CASE ReadReactions(n)
      <4>1. g.thread = f.thread /\ g.clean = f.clean /\ g.page = AttachReactions(f.page)
        BY <1>2, <1>3, <3>2 DEF ReadReactions, GoodPage, Page
      <4>2. f.clean => heard = open /\ Full(f.page) /\ (f.page # <<>> => Leads(f.page))
        BY <1>1, <1>2, <1>5, <2>1 DEF CompleteInv, FetchInv
      <4>3. DOMAIN g.page = DOMAIN f.page /\ \A i \in DOMAIN f.page : SameMessage(g.page[i], f.page[i])
        BY <1>3, <4>1, AttachedIsPage
      <4>4. SameMessages(f.page, g.page) /\ \A i \in DOMAIN f.page : g.page[i].deleted = f.page[i].deleted
        BY <4>3 DEF SameMessages, SameMessage
      <4>5. DOMAIN f.page = 1 .. Len(f.page) /\ Len(f.page) \in Nat /\ (f.page # <<>> => Len(f.page) # 0)
        BY <1>3, LenProperties, EmptySeq
      <4>6. f.page = <<>> => g.page = <<>>
        <5>1. g.page \in Seq(GoodEntry)
          BY <1>3, <4>1, AttachedIsPage
        <5>2. DOMAIN g.page = 1 .. Len(g.page) /\ Len(g.page) \in Nat /\ (Len(g.page) = 0 => g.page = <<>>)
          BY <5>1, LenProperties, EmptySeq
        <5>3. f.page = <<>> => DOMAIN f.page = {}
          OBVIOUS
        <5>4. Len(g.page) # 0 => 1 \in DOMAIN g.page
          BY <5>2
        <5>5. f.page = <<>> => Len(g.page) = 0
          BY <4>3, <5>3, <5>4
        <5>. QED  BY <5>2, <5>5
      <4>7. f.page # <<>> => 1 \in DOMAIN f.page
        BY <4>5
      <4>8. g.page \in Seq(GoodEntry)
        BY <1>3, <4>1, AttachedIsPage
      <4>. QED  BY <2>1, <4>1, <4>2, <4>4, <4>6, <4>7, <4>8, SamePage
    <3>. QED  BY <3>1, <3>2
  <2>3. g.clean => Full(g.page)' /\ (g.page # <<>> => Leads(g.page)')
    <3>. SUFFICES ASSUME g.clean PROVE Full(g.page)' /\ (g.page # <<>> => Leads(g.page)')
      OBVIOUS
    <3>1. PICK l : l = g.page
      OBVIOUS
    <3>2. l \in Seq(GoodEntry)
      BY <2>2, <3>1
    <3>3. Told
      BY <1>0, <1>1, <2>2 DEF Told, NoNewAnswer
    <3>. QED  BY <2>2, <3>1, <3>2, <3>3, FullKept DEF CompleteInv
  <2>4. g = fetches'[mount']
    BY <1>1, <1>2, <1>5
  <2>5. FetchInv'
    BY <1>1, <2>1, <2>2, <2>3, <2>4 DEF FetchInv
  <2>. QED  BY <1>0, <1>1, <2>5, FetchChanged
<1>. QED  BY <1>4, <1>5

\* The history arrives: the list is what it was said to be, and no older page was
\* asked for meanwhile.
LEMMA HistoryStaysComplete ==
  ASSUME MessagesTypes, CompleteInv, NEW n \in Run, HistoryArrives(n) \/ HistoryFails(n)
  PROVE  CompleteInv'
<1>0. UNCHANGED req /\ NoNewAnswer
  BY MovedIsNoAnswer DEF HistoryArrives, HistoryFails, table
<1>1. /\ UNCHANGED <<rows, events, heard, mount, open, older>> /\ fetches[n] # NoPage
      /\ fetches' = [fetches EXCEPT ![n] = NoPage] /\ n \in DOMAIN fetches /\ n # 0
  BY DEF HistoryArrives, HistoryFails, table, socket, MessagesTypes, PanelTypes, Run
<1>2. CASE n # mount
  <2>1. UNCHANGED <<list, hasMore, loading, clean>>
    <3>1. CASE HistoryArrives(n)
      BY <1>2, <3>1 DEF HistoryArrives, history
    <3>2. CASE HistoryFails(n)
      <4>1. UNCHANGED <<list, hasMore, clean>> /\ loading' = (loading /\ n # mount)
        BY <3>2 DEF HistoryFails, history
      <4>2. loading \in BOOLEAN
        BY DEF MessagesTypes, PanelTypes
      <4>3. loading' = loading
        <5>1. (n # mount) = TRUE
          BY <1>2
        <5>2. loading' = (loading /\ TRUE)
          BY <4>1, <5>1
        <5>. QED  BY <4>2, <5>2
      <4>. QED  BY <4>1, <4>3
    <3>. QED  BY <3>1, <3>2
  <2>2. mount # 0 => fetches'[mount] = fetches[mount]
    BY <1>1, <1>2
  <2>3. FetchInv'
    BY <1>0, <1>1, <2>1, <2>2, FetchUndisturbed DEF CompleteInv, Told, NoNewAnswer
  <2>. QED  BY <1>0, <1>1, <2>1, <2>3, FetchChanged
<1>3. CASE n = mount
  <2>1. PICK f : f = fetches[n]
    OBVIOUS
  <2>2. /\ loading /\ f.thread = open /\ f.page \in Seq(GoodEntry)
        /\ f.clean => heard = open /\ Full(f.page) /\ (f.page # <<>> => Leads(f.page))
    BY <1>1, <1>3, <2>1 DEF CompleteInv, FetchInv, MessagesTypes, PanelTypes, GoodPage
  <2>3. ~clean
    BY <2>2 DEF CompleteInv, ListInv
  <2>4. ~(older # NoPage /\ older.mount = mount /\ older.clean) /\ (older # NoPage => older.mount <= mount)
    BY <2>2 DEF CompleteInv, OlderInv
  <2>5. FetchInv'
    BY <1>1, <1>3 DEF FetchInv
  <2>6. OlderInv'
    BY <1>1, <2>4 DEF OlderInv
  <2>7. ListInv'
    <3>1. CASE HistoryFails(n)
      BY <2>3, <3>1 DEF HistoryFails, ListInv, history
    <3>2. CASE HistoryArrives(n)
      <4>1. list' = f.page /\ hasMore' = (Len(f.page) >= PageSize) /\ loading' = FALSE /\ clean' = f.clean
        BY <1>3, <2>1, <3>2 DEF HistoryArrives
      <4>2. hasMore' => f.page # <<>>
        <5>1. Len(f.page) >= PageSize => Len(f.page) # 0
          BY MessagesAssumption
        <5>2. Len(f.page) # 0 => f.page # <<>>
          BY <2>2, EmptySeq
        <5>. QED  BY <4>1, <5>1, <5>2
      <4>. SUFFICES ASSUME clean' PROVE ListInv'
        BY DEF ListInv
      <4>3. PICK l : l = f.page
        OBVIOUS
      <4>4. Told /\ Full(l) /\ l \in Seq(GoodEntry)
        BY <1>0, <1>1, <2>2, <4>1, <4>3 DEF Told, NoNewAnswer
      <4>5. Full(l)' /\ (Leads(l) => Leads(l)')
        BY <4>4, FullKept DEF CompleteInv
      <4>6. Full(list)'
        BY <4>1, <4>3, <4>5
      <4>7. hasMore' => Leads(list)'
        BY <2>2, <4>1, <4>2, <4>3, <4>5
      <4>. QED  BY <1>1, <2>2, <4>1, <4>6, <4>7 DEF ListInv
    <3>. QED  BY <3>1, <3>2
  <2>. QED  BY <1>1, <1>3, <2>5, <2>6, <2>7, WordKept DEF CompleteInv
<1>. QED  BY <1>2, <1>3

\* An older page goes right before a list that starts with the message it was asked for.
LEMMA JoinedFull ==
  ASSUME MessagesTypes, NEW s \in Seq(GoodEntry), Full(list), Leads(list), Before(s, list[1].id)
  PROVE  Full(s \o list) /\ (s # <<>> => Leads(s \o list))
<1>. DEFINE c == s \o list
            top == list[1].id
<1>1. /\ DOMAIN s = 1 .. Len(s) /\ Len(s) \in Nat
      /\ \A i \in DOMAIN s : s[i].id \in DOMAIN rows /\ s[i].thread = rows[s[i].id].thread
  BY LenProperties, ElementOfSeq DEF GoodEntry
<1>2. /\ DOMAIN list = 1 .. Len(list) /\ Len(list) \in Nat /\ list \in Seq(GoodEntry)
      /\ \A i \in DOMAIN list : list[i].id \in DOMAIN rows /\ list[i].thread = rows[list[i].id].thread
  BY ListIsGood
<1>3. /\ c \in Seq(GoodEntry) /\ Len(c) = Len(s) + Len(list)
      /\ \A i \in 1 .. Len(s) + Len(list) : c[i] = IF i <= Len(s) THEN s[i] ELSE list[i - Len(s)]
  BY <1>2, ConcatProperties
<1>4. DOMAIN c = 1 .. Len(s) + Len(list)
  BY <1>3, LenProperties
<1>. HIDE DEF c
<1>5. \A i \in DOMAIN s : i \in DOMAIN c /\ c[i] = s[i]
  BY <1>1, <1>2, <1>3, <1>4
<1>6. \A i \in DOMAIN list : i + Len(s) \in DOMAIN c /\ c[i + Len(s)] = list[i]
  BY <1>1, <1>2, <1>3, <1>4
<1>7. \A i \in DOMAIN c : i \in DOMAIN s \/ (i - Len(s) \in DOMAIN list /\ i = (i - Len(s)) + Len(s))
  BY <1>1, <1>2, <1>4
<1>8. /\ \A i \in DOMAIN s : /\ s[i].thread = open /\ RightAs(s[i].id, s[i].deleted) /\ s[i].id < top
                             /\ \A j \in OpenIds : s[i].id < j /\ j < top => j \in Ids(s)
      /\ \A i, j \in DOMAIN s : i < j => s[i].id < s[j].id
  BY DEF Before
<1>9. list # <<>> /\ list[1].thread = open /\ \A k \in ThreadIds(list) \cup Flying : top <= k
  BY DEF Leads
<1>10. 1 \in DOMAIN list /\ top \in OpenIds /\ top \in ThreadIds(list)
  <2>1. 1 \in DOMAIN list
    BY <1>2, <1>9, EmptySeq
  <2>. QED  BY <1>2, <1>9, <2>1 DEF OpenIds, ThreadIds
<1>11. \A k \in OpenIds : k \in Nat
  BY RowsAreRows DEF OpenIds
<1>12. \A i \in DOMAIN s : s[i].id \in OpenIds /\ s[i].id \in Ids(s)
  BY <1>1, <1>8 DEF OpenIds, Ids
<1>13. \A i \in DOMAIN list : list[i].thread = open => list[i].id \in OpenIds /\ list[i].id \in ThreadIds(list)
  BY <1>2 DEF OpenIds, ThreadIds
<1>. HIDE DEF top
<1>14. ThreadIds(c) = Ids(s) \cup ThreadIds(list)
  <2>1. ASSUME NEW i \in DOMAIN c, c[i].thread = open PROVE c[i].id \in Ids(s) \cup ThreadIds(list)
    BY <1>5, <1>6, <1>7, <1>12, <1>13, <2>1
  <2>2. ThreadIds(c) \subseteq Ids(s) \cup ThreadIds(list)
    BY <2>1 DEF ThreadIds
  <2>3. ASSUME NEW k \in Ids(s) PROVE k \in ThreadIds(c)
    <3>1. PICK i \in DOMAIN s : k = s[i].id
      BY DEF Ids
    <3>. QED  BY <1>5, <1>8, <3>1 DEF ThreadIds
  <2>4. ASSUME NEW k \in ThreadIds(list) PROVE k \in ThreadIds(c)
    <3>1. PICK i \in DOMAIN list : k = list[i].id /\ list[i].thread = open
      BY DEF ThreadIds
    <3>2. i + Len(s) \in DOMAIN c /\ c[i + Len(s)] = list[i]
      BY <1>6
    <3>. QED  BY <3>1, <3>2 DEF ThreadIds
  <2>. QED  BY <2>2, <2>3, <2>4
<1>15. Covers(ThreadIds(c) \cup Flying)
  <2>. DEFINE U == ThreadIds(list) \cup Flying
              V == ThreadIds(c) \cup Flying
  <2>1. /\ U \subseteq OpenIds /\ \A k \in U : \A j \in OpenIds : k < j => j \in U
        /\ \A k \in OpenIds : Recent(k) => k \in U
    BY DEF Full, Covers
  <2>2. V = Ids(s) \cup U /\ Ids(s) \subseteq OpenIds /\ top \in U
    BY <1>10, <1>12, <1>14 DEF Ids
  <2>. HIDE DEF U, V
  <2>3. ASSUME NEW k \in Ids(s), NEW j \in OpenIds, k < j PROVE j \in V
    <3>1. CASE j < top
      BY <1>8, <2>2, <2>3, <3>1 DEF Ids
    <3>2. CASE j = top
      BY <2>2, <3>2
    <3>3. CASE top < j
      BY <2>1, <2>2, <3>3
    <3>. QED  BY <1>10, <1>11, <3>1, <3>2, <3>3
  <2>4. Covers(V)
    BY <2>1, <2>2, <2>3 DEF Covers
  <2>. QED  BY <2>4 DEF V
<1>16. ASSUME NEW i \in DOMAIN c, c[i].thread = open PROVE RightAs(c[i].id, c[i].deleted)
  BY <1>5, <1>6, <1>7, <1>8, <1>16 DEF Full
<1>17. ASSUME NEW i \in DOMAIN c, NEW j \in DOMAIN c, c[i].thread = open, c[j].thread = open, i # j
       PROVE  c[i].id # c[j].id
  <2>1. CASE i \in DOMAIN s /\ j \in DOMAIN s
    <3>1. i < j \/ j < i
      BY <1>1, <1>17, <2>1
    <3>. QED  BY <1>5, <1>8, <1>11, <1>12, <2>1, <3>1
  <2>2. ASSUME NEW k \in DOMAIN s, NEW l \in DOMAIN list, list[l].thread = open PROVE s[k].id # list[l].id
    BY <1>8, <1>9, <1>10, <1>11, <1>12, <1>13, <2>2
  <2>3. CASE i \in DOMAIN s /\ j \notin DOMAIN s
    BY <1>5, <1>6, <1>7, <1>17, <2>2, <2>3
  <2>4. CASE i \notin DOMAIN s /\ j \in DOMAIN s
    BY <1>5, <1>6, <1>7, <1>17, <2>2, <2>4
  <2>5. CASE i \notin DOMAIN s /\ j \notin DOMAIN s
    <3>1. PICK k \in DOMAIN list : k = i - Len(s) /\ i = k + Len(s)
      BY <1>7, <2>5
    <3>2. PICK l \in DOMAIN list : l = j - Len(s) /\ j = l + Len(s)
      BY <1>7, <2>5
    <3>3. k # l /\ c[i] = list[k] /\ c[j] = list[l]
      BY <1>6, <1>17, <3>1, <3>2
    <3>. QED  BY <1>17, <3>3 DEF Full
  <2>. QED  BY <2>1, <2>3, <2>4, <2>5
<1>18. Full(c)
  BY <1>14, <1>15, <1>16, <1>17 DEF Full, AnswersKnown
<1>19. ASSUME s # <<>> PROVE Leads(c)
  <2>1. 1 \in DOMAIN s
    BY <1>1, <1>19, EmptySeq
  <2>2. c # <<>>
    <3>1. 1 \in DOMAIN c
      BY <1>5, <2>1
    <3>2. c = <<>> => DOMAIN c = {}
      OBVIOUS
    <3>. QED  BY <3>1, <3>2
  <2>3. ASSUME NEW k \in Ids(s) PROVE s[1].id <= k
    <3>1. PICK i \in DOMAIN s : k = s[i].id
      BY DEF Ids
    <3>2. (i = 1 \/ 1 < i) /\ k \in Nat /\ s[1].id \in Nat
      BY <1>1, <1>11, <1>12, <2>1, <3>1
    <3>. QED  BY <1>8, <2>1, <3>1, <3>2
  <2>4. ASSUME NEW k \in ThreadIds(list) \cup Flying PROVE s[1].id <= k
    <3>1. s[1].id \in Nat /\ top \in Nat /\ k \in Nat
      BY <1>10, <1>11, <1>12, <1>13, <2>1 DEF ThreadIds, Flying
    <3>. QED  BY <1>8, <1>9, <2>1, <3>1
  <2>. QED  BY <1>5, <1>8, <1>14, <2>1, <2>2, <2>3, <2>4 DEF Leads
<1>. QED  BY <1>18, <1>19 DEF c

\* A step that only changes what is known of the older page.
LEMMA OlderChanged ==
  ASSUME MessagesTypes, CompleteInv, OlderInv',
         UNCHANGED <<rows, req, events, heard, mount, open, list, loading, hasMore, clean, fetches>>
  PROVE  CompleteInv'
<1>0. NoNewAnswer
  BY MovedIsNoAnswer
<1>1. heard = open => Told
  BY <1>0 DEF Told, NoNewAnswer
<1>2. ASSUME clean PROVE Full(list)' /\ (Leads(list) => Leads(list)')
  <2>1. SameMessages(list, list') /\ \A i \in DOMAIN list : list'[i].deleted = list[i].deleted
    BY DEF SameMessages
  <2>2. Full(list) /\ list' \in Seq(GoodEntry)
    BY <1>2, ListIsGood DEF CompleteInv, ListInv
  <2>. QED  BY <1>0, <2>1, <2>2, KeptFull DEF CompleteInv
<1>. QED  BY <1>1, <1>2, ListUndisturbed, FetchUndisturbed, WordKept DEF CompleteInv

LEMMA OlderStaysComplete ==
  ASSUME MessagesTypes, CompleteInv, ScrollUp \/ ReadOlder \/ OlderFails
  PROVE  CompleteInv'
<1>1. UNCHANGED <<rows, req, events, heard, mount, open, list, loading, hasMore, clean, fetches>>
  BY DEF ScrollUp, ReadOlder, OlderFails, table, socket, history
<1>2. CASE OlderFails
  BY <1>1, <1>2, OlderChanged DEF OlderFails, OlderInv
<1>3. CASE ScrollUp
  <2>1. PICK p : p = older'
    OBVIOUS
  <2>2. /\ p.at = "asked" /\ p.mount = mount /\ p.clean = ~loading /\ p.before = list[1].id /\ p.thread = open
        /\ hasMore /\ list # <<>>
    BY <1>3, <2>1 DEF ScrollUp
  <2>3. p.mount <= mount
    BY <2>2 DEF MessagesTypes, PanelTypes
  <2>4. p.clean => ~loading
    BY <2>2
  <2>5. OlderInv'
    BY <1>1, <2>1, <2>2, <2>3, <2>4 DEF OlderInv
  <2>. QED  BY <1>1, <2>5, OlderChanged
<1>4. CASE ReadOlder
  <2>1. PICK p, g : p = older /\ g = older'
    OBVIOUS
  <2>2. /\ p \in GoodOlder /\ p # NoPage /\ p.at = "asked" /\ p.before \in Nat
        /\ g = [p EXCEPT !.at = "ready", !.exact = NoReactionUnderWay,
                         !.page = AttachReactions(History(p.thread, p.before))]
    BY <1>4, <2>1 DEF ReadOlder, MessagesTypes, PanelTypes, GoodOlder, OlderPage, Id
  <2>3. /\ g.mount = p.mount /\ g.clean = p.clean /\ g.before = p.before /\ g.thread = p.thread
        /\ g.page = AttachReactions(History(p.thread, p.before))
    BY <2>2 DEF GoodOlder, OlderPage
  <2>4. /\ p.mount <= mount /\ (p.mount = mount /\ p.clean => ~loading)
        /\ p.mount = mount /\ p.clean /\ clean =>
             list # <<>> /\ p.before = list[1].id /\ p.thread = open /\ hasMore
    BY <2>1, <2>2 DEF CompleteInv, OlderInv
  <2>5. PICK s, m, b : s = History(p.thread, p.before) /\ m = AttachReactions(s) /\ b = p.before
    OBVIOUS
  <2>6. ASSUME p.thread = open PROVE Before(m, b)'
    <3>1. PageOf(s, open, b)
      BY <2>2, <2>5, <2>6, HistoryIsPage
    <3>2. /\ DOMAIN m = DOMAIN s
          /\ \A i \in DOMAIN s : m[i].id = s[i].id /\ m[i].thread = s[i].thread /\ m[i].deleted = s[i].deleted
      BY <2>5, <3>1, AttachedIsPage DEF PageOf, SameMessage
    <3>3. Ids(m) = Ids(s)
      BY <3>2 DEF Ids
    <3>4. \A i \in DOMAIN s : s[i].id \in DOMAIN rows /\ rows[s[i].id].deleted \in BOOLEAN
      <4>1. s \in Seq(GoodEntry)
        BY <3>1 DEF PageOf
      <4>. QED  BY <4>1, LenProperties, ElementOfSeq, RowsAreRows DEF GoodEntry, Row
    <3>5. \A i \in DOMAIN m : RightAs(m[i].id, m[i].deleted)
      BY <3>1, <3>2, <3>4 DEF PageOf, RightAs
    <3>6. \A i \in DOMAIN m : RightAs(m[i].id, m[i].deleted)'
      BY <1>1, <3>5 DEF RightAs, WordComes
    <3>7. \A i \in DOMAIN m : /\ m[i].thread = open /\ m[i].id < b
                             /\ \A j \in OpenIds : m[i].id < j /\ j < b => j \in Ids(m)
      BY <3>1, <3>2, <3>3 DEF PageOf, OpenIds
    <3>8. \A i, j \in DOMAIN m : i < j => m[i].id < m[j].id
      BY <3>1, <3>2 DEF PageOf
    <3>. QED  BY <1>1, <3>6, <3>7, <3>8 DEF Before, OpenIds, Ids
  <2>7. p.thread = open => Before(g.page, g.before)'
    BY <2>3, <2>5, <2>6
  <2>8. OlderInv'
    BY <1>1, <2>1, <2>3, <2>4, <2>7 DEF OlderInv
  <2>. QED  BY <1>1, <2>8, OlderChanged
<1>. QED  BY <1>2, <1>3, <1>4

LEMMA OlderArrivesComplete ==
  ASSUME MessagesTypes, CompleteInv, OlderArrives
  PROVE  CompleteInv'
<1>1. PICK p : p = older
  OBVIOUS
<1>0. NoNewAnswer
  BY MovedIsNoAnswer DEF OlderArrives, table
<1>2. /\ UNCHANGED <<rows, events, heard, mount, open, loading, fetches>>
      /\ p # NoPage /\ p.at = "ready" /\ older' = NoPage /\ list' = p.page \o list
      /\ hasMore' = (Len(p.page) >= PageSize)
      /\ clean' = (clean /\ p.clean /\ p.mount = mount)
  BY <1>1 DEF OlderArrives, table, socket
<1>3. p.page \in Seq(GoodEntry)
  BY <1>1, <1>2 DEF MessagesTypes, PanelTypes, GoodOlder
<1>4. OlderInv'
  BY <1>2 DEF OlderInv
<1>5. FetchInv'
  BY <1>0, <1>2, FetchUndisturbed DEF CompleteInv, Told, NoNewAnswer
<1>6. ListInv'
  <2>. SUFFICES ASSUME clean' PROVE ListInv'
    BY DEF ListInv
  <2>1. clean /\ p.clean /\ p.mount = mount
    BY <1>2
  <2>2. heard = open /\ ~loading /\ Full(list) /\ Leads(list) /\ Before(p.page, list[1].id)
    BY <1>1, <1>2, <2>1 DEF CompleteInv, ListInv, OlderInv
  <2>3. PICK l : l = p.page \o list
    OBVIOUS
  <2>4. Full(l) /\ (p.page # <<>> => Leads(l))
    BY <1>3, <2>2, <2>3, JoinedFull
  <2>5. l \in Seq(GoodEntry)
    BY <1>3, <2>3, ListIsGood, ConcatProperties
  <2>6. Told
    BY <1>0, <1>2, <2>2 DEF Told, NoNewAnswer
  <2>7. Full(l)' /\ (Leads(l) => Leads(l)')
    BY <2>4, <2>5, <2>6, FullKept DEF CompleteInv
  <2>8. hasMore' => p.page # <<>>
    <3>1. Len(p.page) >= PageSize => Len(p.page) # 0
      BY MessagesAssumption
    <3>2. Len(p.page) # 0 => p.page # <<>>
      BY <1>3, EmptySeq
    <3>. QED  BY <1>2, <3>1, <3>2
  <2>9. Full(list)' /\ (hasMore' => Leads(list)')
    BY <1>2, <2>3, <2>4, <2>7, <2>8
  <2>. QED  BY <1>2, <2>2, <2>9 DEF ListInv
<1>. QED  BY <1>2, <1>4, <1>5, <1>6, WordKept DEF CompleteInv

\* No history on its way is current any more.
LEMMA FetchesUnclean ==
  ASSUME MessagesTypes, FetchInv, UNCHANGED <<mount, open, loading>>,
         fetches' = [n \in Run |-> IF fetches[n] = NoPage THEN NoPage ELSE [fetches[n] EXCEPT !.clean = FALSE]]
  PROVE  FetchInv'
<1>. SUFFICES ASSUME mount # 0, fetches'[mount] # NoPage PROVE FetchInv'
  BY DEF FetchInv
<1>1. PICK f, g : f = fetches[mount] /\ g = fetches'[mount]
  OBVIOUS
<1>2. mount \in Run
  BY MessagesAssumption DEF MessagesTypes, PanelTypes, Run
<1>3. f # NoPage /\ g = [f EXCEPT !.clean = FALSE]
  BY <1>1, <1>2
<1>4. f \in Page /\ f.thread = open /\ loading
  BY <1>1, <1>2, <1>3 DEF FetchInv, MessagesTypes, PanelTypes, GoodPage
<1>5. g.thread = open /\ ~g.clean
  BY <1>3, <1>4 DEF Page
<1>. QED  BY <1>1, <1>4, <1>5 DEF FetchInv

\* The gateway's steps: a thread is served, the connection lost, an event delivered.
LEMMA ServedStaysComplete ==
  ASSUME MessagesTypes, CompleteInv, Serve
  PROVE  CompleteInv'
<1>1. /\ heard # open /\ heard' = open
      /\ UNCHANGED <<rows, events, mount, open, list, loading, hasMore, clean, fetches, older>>
  BY DEF Serve, table, panel, history
<1>2. ~clean
  BY <1>1 DEF CompleteInv, ListInv
<1>3. ListInv'
  BY <1>1, <1>2 DEF ListInv
<1>4. FetchInv'
  <2>1. mount # 0 /\ fetches[mount] # NoPage => ~fetches[mount].clean /\ fetches[mount].thread = open /\ loading
    BY <1>1 DEF CompleteInv, FetchInv
  <2>. QED  BY <1>1, <2>1 DEF FetchInv
<1>5. OlderInv'
  BY <1>1, <1>2 DEF CompleteInv, OlderInv
<1>. QED  BY <1>1, <1>3, <1>4, <1>5, WordKept DEF CompleteInv

LEMMA CutStaysComplete ==
  ASSUME MessagesTypes, CompleteInv, Cut
  PROVE  CompleteInv'
<1>1. /\ UNCHANGED <<rows, mount, open, list, loading, hasMore, older>> /\ clean' = FALSE
      /\ fetches' = [n \in Run |-> IF fetches[n] = NoPage THEN NoPage ELSE [fetches[n] EXCEPT !.clean = FALSE]]
  BY DEF Cut, table
<1>2. ListInv'
  BY <1>1 DEF ListInv
<1>3. FetchInv'
  BY <1>1, FetchesUnclean DEF CompleteInv
<1>4. OlderInv'
  BY <1>1 DEF CompleteInv, OlderInv
<1>. QED  BY <1>1, <1>2, <1>3, <1>4, WordCut DEF CompleteInv

LEMMA DeliveredStaysComplete ==
  ASSUME MessagesTypes, CompleteInv, Deliver
  PROVE  CompleteInv'
<1>1. Shifted /\ Head(events) \in GoodEvent /\ UNCHANGED <<rows, heard, mount, open, loading, hasMore, clean>>
  BY DeliverShifts
<1>0. NoNewAnswer
  BY MovedIsNoAnswer, DeliverShifts
<1>2. WordIsTrue'
  BY <1>1, WordShifted DEF CompleteInv
<1>3. CASE EventThread(Head(events)) # open
  <2>1. UNCHANGED <<list, fetches, older>>
    BY <1>3 DEF Deliver
  <2>2. heard = open => Told
    BY <1>0, <1>1, <1>3 DEF Told, NoNewAnswer
  <2>. QED  BY <1>1, <1>2, <2>1, <2>2, ServerTells
<1>4. CASE EventThread(Head(events)) = open
  <2>1. /\ fetches' = [n \in Run |-> IF fetches[n] = NoPage THEN NoPage ELSE [fetches[n] EXCEPT !.clean = FALSE]]
        /\ older' = IF older # NoPage /\ older.at = "ready" THEN [older EXCEPT !.clean = FALSE] ELSE older
    BY <1>4 DEF Deliver
  <2>2. clean => SameStart /\ Full(list)' /\ (Leads(list) => Leads(list)')
    BY <1>4, DeliveredFull DEF CompleteInv, ListInv
  <2>3. ListInv'
    BY <1>1, <2>2, ListUndisturbed DEF CompleteInv
  <2>4. FetchInv'
    BY <1>1, <2>1, FetchesUnclean DEF CompleteInv
  <2>5. OlderInv'
    <3>1. PICK p, g : p = older /\ g = older'
      OBVIOUS
    <3>2. p # NoPage => /\ p.mount <= mount /\ (p.mount = mount /\ p.clean => ~loading)
                        /\ p.mount = mount /\ p.clean /\ clean =>
                             list # <<>> /\ p.before = list[1].id /\ p.thread = open /\ hasMore
      BY <3>1 DEF CompleteInv, OlderInv
    <3>3. p # NoPage => p \in OlderPage
      BY <3>1 DEF MessagesTypes, PanelTypes, GoodOlder
    <3>4. CASE p # NoPage /\ p.at = "ready"
      <4>1. g = [p EXCEPT !.clean = FALSE]
        BY <2>1, <3>1, <3>4
      <4>2. ~g.clean /\ g.mount = p.mount
        BY <3>3, <3>4, <4>1 DEF OlderPage
      <4>. QED  BY <1>1, <3>1, <3>2, <3>4, <4>2 DEF OlderInv
    <3>5. CASE p = NoPage \/ p.at # "ready"
      <4>1. g = p
        BY <2>1, <3>1, <3>5
      <4>. QED  BY <1>1, <2>2, <3>1, <3>2, <3>5, <4>1 DEF OlderInv, SameStart
    <3>. QED  BY <3>4, <3>5
  <2>. QED  BY <1>1, <1>2, <2>3, <2>4, <2>5 DEF CompleteInv
<1>. QED  BY <1>3, <1>4

\* Another run of the effect: everything is asked for anew.
LEMMA OpenedStaysComplete ==
  ASSUME MessagesTypes, CompleteInv, NEW t \in Conversation, Open(t)
  PROVE  CompleteInv'
<1>1. PICK f : f = [thread |-> t, at |-> "asked", page |-> <<>>, clean |-> FALSE, exact |-> FALSE]
  OBVIOUS
<1>2. /\ UNCHANGED <<rows, events, heard, list, hasMore, older>>
      /\ mount' = mount + 1 /\ open' = t /\ loading' = TRUE /\ clean' = FALSE
      /\ fetches' = [fetches EXCEPT ![mount + 1] = f] /\ mount < does.mounts
  BY <1>1 DEF Open, table, socket
<1>3. mount \in Nat /\ mount + 1 \in Run
  BY <1>2, MessagesAssumption DEF MessagesTypes, TableTypes, PanelTypes, Scenario, Run
<1>4. fetches'[mount'] = f
  BY <1>2, <1>3 DEF MessagesTypes, PanelTypes
<1>5. ListInv'
  BY <1>2 DEF ListInv
<1>6. FetchInv'
  BY <1>1, <1>2, <1>4 DEF FetchInv
<1>7. OlderInv'
  <2>. SUFFICES ASSUME older # NoPage PROVE OlderInv'
    BY <1>2 DEF OlderInv
  <2>1. older.mount <= mount /\ older.mount \in Nat
    BY DEF CompleteInv, OlderInv, MessagesTypes, PanelTypes, GoodOlder, OlderPage, Run
  <2>2. older.mount <= mount + 1 /\ older.mount # mount + 1
    BY <1>3, <2>1
  <2>. QED  BY <1>2, <2>2 DEF OlderInv
<1>. QED  BY <1>2, <1>5, <1>6, <1>7, WordKept DEF CompleteInv

\* Who posted to the thread that is open is answered while the event is on its way.
NewAnswerTold ==
  \A r \in PanelReq : SendAnswered(r)' /\ req'[r].thread = open =>
    (SendAnswered(r) /\ req'[r] = req[r]) \/ req'[r].id \in Flying'

LEMMA AnswerIsTold ==
  ASSUME MessagesTypes, NEW r \in Req, Create(r), heard = open, UNCHANGED open,
         NEW id \in Nat, NEW t, NEW v, Posted(id, t, v)
  PROVE  NewAnswerTold
<1>1. PICK q : q = req[r]
  OBVIOUS
<1>2. q \in Request /\ DOMAIN req = Req /\ id = Len(rows) + 1
  BY <1>1 DEF Create, MessagesTypes, TableTypes, GoodRequest, Posted
<1>3. \A p \in PanelReq : req'[p] = req[p] \/ req'[p] = Idle
                           \/ (req'[p].id = id /\ req'[p].thread = q.thread)
  <2>1. [q EXCEPT !.at = "answered", !.id = id].id = id /\ [q EXCEPT !.at = "answered", !.id = id].thread = q.thread
    BY <1>2 DEF Request
  <2>. QED  BY <1>1, <1>2, <2>1 DEF Create, Reply, Req
<1>4. rows'[id].thread = q.thread
  <2>1. PICK row : rows' = Append(rows, row) /\ row.thread = q.thread
    BY <1>1 DEF Create
  <2>. QED  BY <1>2, <2>1 DEF MessagesTypes, TableTypes
<1>5. q.thread = open => id \in Flying'
  <2>. SUFFICES ASSUME q.thread = open PROVE id \in Flying'
    OBVIOUS
  <2>1. id \in OpenIds' /\ t = open /\ v.type = "message" /\ v.entry.id = id
    BY <1>4 DEF Posted, OpenIds
  <2>2. Grown(v)
    BY <2>1, BroadcastGrows DEF Posted
  <2>3. Len(events) + 1 \in DOMAIN events' /\ events'[Len(events) + 1] = v
    BY <2>2, EventsAreGood DEF Grown
  <2>. QED  BY <2>1, <2>3 DEF Flying
<1>. QED  BY <1>3, <1>5 DEF NewAnswerTold, SendAnswered

LEMMA UpdateIsNoAnswer ==
  ASSUME MessagesTypes, NEW r \in Req, Update(r)
  PROVE  NoNewAnswer
<1>1. PICK q : q = req[r]
  OBVIOUS
<1>2. q \in Request /\ q.op # "send" /\ DOMAIN req = Req
  BY <1>1 DEF Update, Updates, MessagesTypes, TableTypes, GoodRequest
<1>3. \A p \in PanelReq : req'[p] = req[p] \/ req'[p] = Idle \/ req'[p].op # "send"
  <2>1. [q EXCEPT !.at = "answered", !.id = q.id].op # "send"
    BY <1>2 DEF Request
  <2>. QED  BY <1>1, <1>2, <2>1 DEF Update, Reply, Req
<1>. QED  BY <1>3 DEF NoNewAnswer, SendAnswered

\* A message is created or changed.
LEMMA WrittenStaysComplete ==
  ASSUME MessagesTypes, CompleteInv, NEW r \in Req, Create(r) \/ Update(r)
  PROVE  CompleteInv'
<1>1. UNCHANGED <<heard, mount, open, list, loading, hasMore, clean, fetches, older>>
  BY DEF Create, Update, panel, history
<1>2. CASE Create(r)
  <2>1. PICK id \in Nat : \E t, v : Posted(id, t, v)
    BY <1>2, CreatePosts
  <2>2. PICK t, v : Posted(id, t, v)
    BY <2>1
  <2>0. heard = open => NewAnswerTold
    BY <1>1, <1>2, <2>2, AnswerIsTold
  <2>3. heard = open => Told
    BY <1>1, <2>0, <2>2 DEF Told, NewAnswerTold
  <2>4. WordIsTrue'
    BY <1>1, <2>2, WordPosted DEF CompleteInv
  <2>. QED  BY <1>1, <2>3, <2>4, ServerTells
<1>3. CASE Update(r)
  <2>1. PICK id \in DOMAIN rows : \E t, v : Amended(id, t, v)
    BY <1>3, UpdateAmends
  <2>2. PICK t, v : Amended(id, t, v)
    BY <2>1
  <2>0. NoNewAnswer
    BY <1>3, UpdateIsNoAnswer
  <2>3. heard = open => Told
    BY <1>1, <2>0, <2>2 DEF Told, NoNewAnswer
  <2>4. WordIsTrue'
    BY <1>1, <2>2, WordAmended DEF CompleteInv
  <2>. QED  BY <1>1, <2>3, <2>4, ServerTells
<1>. QED  BY <1>2, <1>3

LEMMA StepStaysComplete ==
  ASSUME MessagesTypes, CompleteInv, [MessagesNext]_messagesVars
  PROVE  CompleteInv'
<1>1. CASE UNCHANGED messagesVars
  BY <1>1, MovedIsNoAnswer, NothingTold DEF messagesVars, table, socket, panel, history
<1>2. ASSUME NEW r \in Req, \/ \E op, u, id, arg : OtherAsks(r, op, u, id, arg)
                    \/ \E u, t : OtherSends(r, u, t)
                    \/ Read(r) \/ Fail(r) \/ SendText(r) \/ SendPlain(r) \/ RetryPending(r) \/ DiscardPending(r)
                    \/ SubmitEdit(r) \/ Failed(r)
      PROVE  CompleteInv'
  <2>1. UNCHANGED <<rows, events, heard, mount, open, list, loading, hasMore, clean, fetches, older>>
    BY <1>2 DEF OtherAsks, OtherSends, Read, Fail, SendText, SendPlain, RetryPending, DiscardPending, SubmitEdit,
       Failed, table, socket, panel, history
  <2>2. CASE Moved(r)
    BY <2>1, <2>2, MovedIsNoAnswer, NothingTold
  <2>3. CASE DiscardPending(r)
    BY <2>1, <2>3, MovedIsNoAnswer, NothingTold DEF DiscardPending, table
  <2>. QED  BY <1>2, <2>2, <2>3, AskedIsMoved, RequestMoved
<1>3. ASSUME NEW n, KeyArrives(n) \/ KeyFails(n) \/ StartEdit(n) \/ CancelEdit
      PROVE  CompleteInv'
  <2>1. UNCHANGED <<rows, events, heard, mount, open, list, loading, hasMore, clean, fetches, older>>
    BY <1>3 DEF KeyArrives, KeyFails, StartEdit, CancelEdit, table, socket, panel, history
  <2>2. UNCHANGED req
    BY <1>3 DEF KeyArrives, KeyFails, StartEdit, CancelEdit, table
  <2>. QED  BY <2>1, <2>2, MovedIsNoAnswer, NothingTold
<1>4. ASSUME NEW r \in PanelReq, NEW id, \/ Pin(r, id) \/ Delete(r, id) \/ ToggleReaction(r, id)
                                         \/ \E o \in Option : HandleVote(r, id, o)
      PROVE  CompleteInv'
  <2>1. Asked(r)
    BY <1>4, PinAsks, ToggleAsks, VoteAsks
  <2>2. NoNewAnswer
    BY <1>4, AskedIsMoved, MovedIsNoAnswer
  <2>. QED  BY <2>1, <2>2, AskedStaysComplete
<1>5. CASE OfServer
  BY <1>2, <1>5, WrittenStaysComplete, ReadStaysComplete, OlderStaysComplete, ServedStaysComplete,
     CutStaysComplete DEF OfServer, Req
<1>6. CASE OfPanel
  <2>1. ASSUME NEW t \in Conversation, Open(t) PROVE CompleteInv'
    BY <2>1, OpenedStaysComplete
  <2>2. ASSUME NEW n \in Run, HistoryArrives(n) \/ HistoryFails(n) PROVE CompleteInv'
    BY <2>2, HistoryStaysComplete
  <2>3. ASSUME Deliver \/ ScrollUp \/ OlderArrives \/ OlderFails PROVE CompleteInv'
    BY <2>3, DeliveredStaysComplete, OlderStaysComplete, OlderArrivesComplete
  <2>4. ASSUME NEW r \in PanelReq, Answered(r) PROVE CompleteInv'
    BY <2>4, AnsweredStaysComplete
  <2>. QED  BY <1>2, <1>3, <1>4, <1>6, <2>1, <2>2, <2>3, <2>4 DEF OfPanel, Req
<1>. QED  BY <1>1, <1>5, <1>6 DEF MessagesNext

LEMMA StartIsComplete ==
  ASSUME MessagesInit
  PROVE  CompleteInv
<1>1. events = <<>> /\ DOMAIN <<>> = {} /\ ~clean /\ mount = 0 /\ loading /\ older = NoPage
  BY DEF MessagesInit
<1>. QED  BY <1>1 DEF CompleteInv, WordIsTrue, ListInv, FetchInv, OlderInv

\* When nothing of the thread is on its way, the list has all that it should show.
LEMMA CompleteSuffices ==
  ASSUME MessagesTypes, CompleteInv
  PROVE  ListIsComplete
<1>. SUFFICES ASSUME Quiet PROVE ListIsComplete
  BY DEF ListIsComplete
<1>. DEFINE ids == {list[i].id : i \in Own}
            first == IF ids = {} THEN 1 ELSE CHOOSE k \in ids : \A j \in ids : k <= j
<1>1. Full(list) /\ \A i \in DOMAIN events : EventThread(events[i]) # open
  BY DEF Quiet, CompleteInv, ListInv
<1>2. Flying = {}
  BY <1>1, EventsAreGood, EventOfThread DEF Flying, OpenIds
<1>3. \A k \in OpenIds : ~WordComes(k)
  BY <1>1, EventsAreGood, EventOfThread DEF OpenIds, WordComes
<1>4. ids = ThreadIds(list)
  BY DEF ThreadIds, Own
<1>5. \A k \in DOMAIN rows : k \in Nat /\ rows[k].deleted \in BOOLEAN
  BY RowsAreRows DEF Row
<1>. HIDE DEF ids
<1>6. /\ ids \subseteq OpenIds /\ \A k \in ids : \A j \in OpenIds : k < j => j \in ids
      /\ \A k \in OpenIds : Recent(k) => k \in ids
  BY <1>1, <1>2, <1>4 DEF Full, Covers
<1>7. DOMAIN rows = 1 .. Len(rows) /\ Len(rows) \in Nat /\ OpenIds \subseteq Nat /\ IsFiniteSet(OpenIds)
  <2>1. DOMAIN rows = 1 .. Len(rows) /\ Len(rows) \in Nat /\ OpenIds \subseteq DOMAIN rows
    BY RowsAreRows DEF OpenIds
  <2>2. IsFiniteSet(DOMAIN rows)
    BY <2>1, FS_Interval
  <2>. QED  BY <1>5, <2>1, <2>2, FS_Subset
<1>8. ids = {k \in first .. Len(rows) : rows[k].thread = open}
  <2>1. CASE ids = {}
    <3>1. ASSUME OpenIds # {} PROVE FALSE
      <4>1. PICK g \in OpenIds : \A j \in OpenIds : j <= g
        BY <1>7, <3>1, LeastAndGreatest
      <4>2. {j \in DOMAIN rows : rows[j].thread = rows[g].thread /\ j > g} = {}
        <5>1. ASSUME NEW j \in DOMAIN rows, rows[j].thread = rows[g].thread, j > g PROVE FALSE
          <6>1. j \in OpenIds /\ j \in Nat /\ g \in Nat
            BY <1>7, <4>1, <5>1 DEF OpenIds
          <6>. QED  BY <4>1, <5>1, <6>1
        <5>. QED  BY <5>1
      <4>3. Cardinality({j \in DOMAIN rows : rows[j].thread = rows[g].thread /\ j > g}) = 0
        BY <4>2, FS_EmptySet
      <4>4. Recent(g)
        BY <4>3, MessagesAssumption DEF Recent
      <4>. QED  BY <1>6, <2>1, <4>1, <4>4
    <3>. QED  BY <1>7, <2>1, <3>1 DEF OpenIds
  <2>2. CASE ids # {}
    <3>1. ids \subseteq Nat /\ IsFiniteSet(ids)
      BY <1>6, <1>7, FS_Subset
    <3>2. \E k \in ids : \A j \in ids : k <= j
      BY <2>2, <3>1, LeastAndGreatest
    <3>3. first \in ids /\ \A j \in ids : first <= j
      BY <2>2, <3>2
    <3>. HIDE DEF first
    <3>4. ASSUME NEW k \in ids PROVE k \in first .. Len(rows) /\ rows[k].thread = open
      BY <1>6, <1>7, <3>1, <3>3 DEF OpenIds
    <3>5. ASSUME NEW k \in first .. Len(rows), rows[k].thread = open PROVE k \in ids
      <4>1. first \in Nat /\ first \in OpenIds
        BY <1>6, <3>1, <3>3
      <4>2. k \in OpenIds /\ (first = k \/ first < k)
        BY <1>7, <3>5, <4>1 DEF OpenIds
      <4>. QED  BY <1>6, <3>3, <4>2
    <3>. QED  BY <3>4, <3>5
  <2>. QED  BY <2>1, <2>2
<1>9. ASSUME NEW i \in Own PROVE list[i].deleted = rows[list[i].id].deleted
  <2>1. i \in DOMAIN list /\ list[i].thread = open
    BY DEF Own
  <2>2. RightAs(list[i].id, list[i].deleted) /\ list[i].id \in OpenIds
    BY <1>1, <2>1, ListIsGood DEF Full, OpenIds
  <2>3. list[i].deleted \in BOOLEAN /\ rows[list[i].id].deleted \in BOOLEAN
    BY <1>5, <2>1, ListIsGood DEF Entry
  <2>. QED  BY <1>3, <2>2, <2>3 DEF RightAs
<1>10. \A i, j \in Own : i # j => list[i].id # list[j].id
  BY <1>1 DEF Full, Own
<1>. QED  BY <1>8, <1>9, <1>10 DEF ListIsComplete, ids

\* The list is complete, for any number of messages, threads, requests and runs, and
\* a page of any size.
THEOREM ListComplete == MessagesSpec => []ListIsComplete
<1>1. MessagesInit => MessagesTypes /\ CompleteInv
  BY StartIsTyped, StartIsComplete
<1>2. MessagesTypes /\ [MessagesNext]_messagesVars => MessagesTypes'
  BY StepIsTyped
<1>3. MessagesTypes /\ CompleteInv /\ [MessagesNext]_messagesVars => CompleteInv'
  BY StepStaysComplete
<1>4. MessagesTypes /\ CompleteInv => ListIsComplete
  BY CompleteSuffices
<1>. QED  BY <1>1, <1>2, <1>3, <1>4, PTL DEF MessagesSpec

-----------------------------------------------------------------------------
(* Tallies settle.                                                         *)

One(x) == IF x THEN 1 ELSE 0

\* What events are about.
Edits(v, k) == v.type = "edited" /\ v.entry.id = k
Reacts(v, k, u) == v.type = "reaction" /\ v.id = k /\ v.by = u

\* A message is told of before what becomes of it; it is posted without votes or reactions.
PostedFirst ==
  /\ \A p, q \in DOMAIN events : p < q /\ events[q].type = "message" =>
       /\ ~Edits(events[p], events[q].entry.id)
       /\ \A u \in User : ~Reacts(events[p], events[q].entry.id, u)
  /\ \A p \in DOMAIN events : events[p].type = "message" =>
       events[p].entry.tally = Zero /\ events[p].entry.count = 0 /\ events[p].entry.mine = FALSE

\* The last edit of a message under way shows the votes that there are.
EditComes(k) == \E p \in DOMAIN events : Edits(events[p], k)
EditTrue(k) ==
  \A p \in DOMAIN events : Edits(events[p], k) =>
    \/ events[p].entry.tally = Tally(rows[k].votes)
    \/ \E q \in DOMAIN events : p < q /\ Edits(events[q], k)
VotesRight(k, tally) == tally = Tally(rows[k].votes) \/ EditComes(k)

\* The last of one's own reactions to a message under way is the one that counts.
OwnComes(k) == \E p \in DOMAIN events : Reacts(events[p], k, Me)
OwnTrue(k) ==
  \A p \in DOMAIN events : Reacts(events[p], k, Me) =>
    \/ events[p].add <=> Me \in rows[k].reacted
    \/ \E q \in DOMAIN events : p < q /\ Reacts(events[q], k, Me)
OwnRight(k, mine) == OwnTrue(k) /\ ((mine <=> Me \in rows[k].reacted) \/ OwnComes(k))

\* Whether the peer has reacted, before and after each event under way: each that is
\* not in vain changes it.
PeerStates(k, s) ==
  /\ s \in [0 .. Len(events) -> BOOLEAN]
  /\ s[Len(events)] <=> Peer \in rows[k].reacted
  /\ \A p \in DOMAIN events :
       IF Reacts(events[p], k, Peer) THEN s[p] = events[p].add /\ (s[p] = s[p - 1] => events[p].vain)
                                     ELSE s[p] = s[p - 1]
PeerRight(k, peer) == \E s \in [0 .. Len(events) -> BOOLEAN] : PeerStates(k, s) /\ s[0] = peer
CountRight(k, count, mine) == \E peer \in BOOLEAN : PeerRight(k, peer) /\ count = One(mine) + One(peer)

\* A request of the panel that was shown before the server carried it out.
Pending(ops, k) ==
  \E r \in PanelReq : req[r] # Idle /\ req[r].op \in ops /\ req[r].id = k /\ req[r].at # "answered"
VotesShown(k, tally) == VotesRight(k, tally) \/ Pending({"vote"}, k)
OwnShown(k, mine) == OwnTrue(k) /\ ((mine <=> Me \in rows[k].reacted) \/ OwnComes(k) \/ Pending({"react", "unreact"}, k))

\* A message told of, but not in the list yet.
Blank(k) == VotesRight(k, Zero) /\ PeerRight(k, FALSE) /\ OwnRight(k, FALSE)
Unshown(l) == (\A k \in OpenIds : EditTrue(k)) /\ \A k \in Flying : k \notin ThreadIds(l) => Blank(k)

PageVotes(l) == \A i \in DOMAIN l : l[i].thread = open => VotesRight(l[i].id, l[i].tally)
PageReactions(l) ==
  \A i \in DOMAIN l : l[i].thread = open => CountRight(l[i].id, l[i].count, l[i].mine) /\ OwnRight(l[i].id, l[i].mine)

ListTally ==
  exact => /\ clean /\ Unshown(list)
           /\ \A i \in DOMAIN list : list[i].thread = open =>
                /\ VotesShown(list[i].id, list[i].tally)
                /\ CountRight(list[i].id, list[i].count, list[i].mine) /\ OwnShown(list[i].id, list[i].mine)
FetchTally ==
  LET f == fetches[mount] IN
  mount # 0 /\ f # NoPage =>
    /\ f.at # "ready" => ~f.exact
    /\ f.clean => Unshown(f.page) /\ PageVotes(f.page)
    /\ f.clean /\ f.exact => PageReactions(f.page)
OlderTally ==
  older # NoPage /\ older.mount = mount /\ older.clean /\ exact /\ older.at = "ready" =>
    PageVotes(older.page) /\ (older.exact => PageReactions(older.page))
\* The panel asks in the name of its user.
OwnRequests == \A r \in PanelReq : req[r] # Idle => req[r].by = Me

TallyInv == PostedFirst /\ OwnRequests /\ ListTally /\ FetchTally /\ OlderTally

-----------------------------------------------------------------------------

\* What an event says of a message when it is pushed.
Of(v, k) ==
  /\ v \in GoodEvent'
  /\ IF Edits(v, k) THEN v.entry.tally = Tally(rows'[k].votes) ELSE rows'[k].votes = rows[k].votes
  /\ \A u \in User :
       IF Reacts(v, k, u)
       THEN (v.add <=> u \in rows'[k].reacted) /\ ((v.add <=> u \in rows[k].reacted) => v.vain)
       ELSE u \in rows'[k].reacted <=> u \in rows[k].reacted
AboutOther(v, k) == ~Edits(v, k) /\ \A u \in User : ~Reacts(v, k, u)

\* An edit or a reaction is about a message there is, and goes to its thread.
LEMMA EventOfMessage ==
  ASSUME MessagesTypes, NEW v \in GoodEvent, NEW k, Edits(v, k) \/ \E u : Reacts(v, k, u)
  PROVE  k \in DOMAIN rows /\ EventThread(v) = rows[k].thread /\ v.type # "message"
BY DEF GoodEvent, GoodEntry, EventThread, Edits, Reacts

\* What the panel is told of a message of its thread.
LEMMA ToldOf ==
  ASSUME MessagesTypes, Told, NEW k \in OpenIds
  PROVE  \/ rows'[k] = rows[k] /\ events' = events
         \/ \E v : Grown(v) /\ Of(v, k)
         \/ rows'[k] = rows[k] /\ Shifted /\ AboutOther(Head(events), k)
<1>0. k \in DOMAIN rows /\ rows[k].thread = open /\ heard = open
  BY DEF OpenIds, Told
<1>1. ASSUME NEW id \in Nat, NEW t, NEW v, Posted(id, t, v)
      PROVE  (rows'[k] = rows[k] /\ events' = events) \/ (Grown(v) /\ Of(v, k))
  <2>1. Grown(v) \/ events' = events
    BY <1>1, BroadcastGrows DEF Posted
  <2>2. rows'[k] = rows[k] /\ v \in GoodEvent' /\ v.type = "message"
    BY <1>0, <1>1 DEF Posted
  <2>. QED  BY <2>1, <2>2 DEF Of, Edits, Reacts
<1>2. ASSUME NEW id \in DOMAIN rows, NEW t, NEW v, Amended(id, t, v)
      PROVE  (rows'[k] = rows[k] /\ events' = events) \/ (Grown(v) /\ Of(v, k))
  <2>1. IF heard = t THEN Grown(v) ELSE events' = events
    BY <1>2, BroadcastGrows DEF Amended
  <2>2. CASE k # id
    <3>1. rows'[k] = rows[k] /\ v \in GoodEvent' /\ ~Edits(v, k) /\ \A u : ~Reacts(v, k, u)
      BY <1>0, <1>2, <2>2 DEF Amended, Edits, Reacts
    <3>. QED  BY <2>1, <3>1 DEF Of
  <2>3. CASE k = id
    <3>1. Grown(v) /\ v \in GoodEvent'
      BY <1>0, <1>2, <2>1, <2>3 DEF Amended
    <3>2. IF Edits(v, k) THEN v.entry.tally = Tally(rows'[k].votes) ELSE rows'[k].votes = rows[k].votes
      BY <1>2, <2>3 DEF Amended, Edits
    <3>3. ASSUME NEW u \in User
          PROVE  IF Reacts(v, k, u)
                 THEN (v.add <=> u \in rows'[k].reacted) /\ ((v.add <=> u \in rows[k].reacted) => v.vain)
                 ELSE u \in rows'[k].reacted <=> u \in rows[k].reacted
      <4>1. CASE v.type = "reaction"
        BY <1>2, <2>3, <4>1 DEF Amended, Reacts
      <4>2. CASE v.type # "reaction"
        BY <1>2, <2>3, <4>2 DEF Amended, Reacts
      <4>. QED  BY <4>1, <4>2
    <3>. QED  BY <3>1, <3>2, <3>3 DEF Of
  <2>. QED  BY <2>2, <2>3
<1>3. ASSUME Shifted, UNCHANGED rows, Head(events) \in GoodEvent, EventThread(Head(events)) # open
      PROVE  rows'[k] = rows[k] /\ Shifted /\ AboutOther(Head(events), k)
  BY <1>0, <1>3, EventOfMessage DEF AboutOther
<1>4. UNCHANGED <<rows, events>> => rows'[k] = rows[k] /\ events' = events
  OBVIOUS
<1>. QED  BY <1>1, <1>2, <1>3, <1>4 DEF Told

\* An event of the message that is on its way stays so, and a new one is.
LEMMA GrownKeeps ==
  ASSUME MessagesTypes, NEW v, Grown(v)
  PROVE  /\ DOMAIN events' = DOMAIN events \cup {Len(events) + 1} /\ DOMAIN events = 1 .. Len(events)
         /\ Len(events) \in Nat /\ Len(events') = Len(events) + 1
         /\ \A p \in DOMAIN events : p < Len(events) + 1 /\ events'[p] = events[p]
         /\ events'[Len(events) + 1] = v
BY EventsAreGood DEF Grown

\* Pushing an event keeps what the edits, own reactions and the peer's reactions
\* under way say true.
LEMMA EditsGrow ==
  ASSUME MessagesTypes, NEW k, NEW v, Grown(v), Of(v, k), EditTrue(k)
  PROVE  EditTrue(k)' /\ \A tally : VotesRight(k, tally) => VotesRight(k, tally)'
<1>1. /\ DOMAIN events' = DOMAIN events \cup {Len(events) + 1}
      /\ \A p \in DOMAIN events : p < Len(events) + 1 /\ events'[p] = events[p]
      /\ events'[Len(events) + 1] = v
  BY GrownKeeps
<1>2. IF Edits(v, k) THEN v.entry.tally = Tally(rows'[k].votes) ELSE rows'[k].votes = rows[k].votes
  BY DEF Of
<1>3. EditTrue(k)'
  <2>. SUFFICES ASSUME NEW p \in DOMAIN events', Edits(events'[p], k)
                PROVE  \/ events'[p].entry.tally = Tally(rows'[k].votes)
                       \/ \E q \in DOMAIN events' : p < q /\ Edits(events'[q], k)
    BY DEF EditTrue, Edits
  <2>1. CASE p = Len(events) + 1
    BY <1>1, <1>2, <2>1
  <2>2. CASE p \in DOMAIN events /\ Edits(v, k)
    BY <1>1, <2>2
  <2>3. CASE p \in DOMAIN events /\ ~Edits(v, k)
    BY <1>1, <1>2, <2>3 DEF EditTrue
  <2>. QED  BY <1>1, <2>1, <2>2, <2>3
<1>4. Edits(v, k) => EditComes(k)'
  BY <1>1 DEF EditComes, Edits
<1>5. EditComes(k) => EditComes(k)'
  BY <1>1 DEF EditComes, Edits
<1>. QED  BY <1>2, <1>3, <1>4, <1>5 DEF VotesRight

LEMMA OwnGrows ==
  ASSUME MessagesTypes, NEW k, NEW v, Grown(v), Of(v, k), OwnTrue(k)
  PROVE  OwnTrue(k)' /\ \A mine : OwnRight(k, mine) => OwnRight(k, mine)'
<1>1. /\ DOMAIN events' = DOMAIN events \cup {Len(events) + 1}
      /\ \A p \in DOMAIN events : p < Len(events) + 1 /\ events'[p] = events[p]
      /\ events'[Len(events) + 1] = v
  BY GrownKeeps
<1>2. IF Reacts(v, k, Me) THEN v.add <=> Me \in rows'[k].reacted
                          ELSE Me \in rows'[k].reacted <=> Me \in rows[k].reacted
  BY DEF Of, User
<1>3. OwnTrue(k)'
  <2>. SUFFICES ASSUME NEW p \in DOMAIN events', Reacts(events'[p], k, Me)
                PROVE  \/ events'[p].add <=> Me \in rows'[k].reacted
                       \/ \E q \in DOMAIN events' : p < q /\ Reacts(events'[q], k, Me)
    BY DEF OwnTrue, Reacts
  <2>1. CASE p = Len(events) + 1
    BY <1>1, <1>2, <2>1
  <2>2. CASE p \in DOMAIN events /\ Reacts(v, k, Me)
    BY <1>1, <2>2
  <2>3. CASE p \in DOMAIN events /\ ~Reacts(v, k, Me)
    BY <1>1, <1>2, <2>3 DEF OwnTrue
  <2>. QED  BY <1>1, <2>1, <2>2, <2>3
<1>4. Reacts(v, k, Me) => OwnComes(k)'
  BY <1>1 DEF OwnComes, Reacts
<1>5. OwnComes(k) => OwnComes(k)'
  BY <1>1 DEF OwnComes, Reacts
<1>. QED  BY <1>2, <1>3, <1>4, <1>5 DEF OwnRight

LEMMA PeerGrows ==
  ASSUME MessagesTypes, NEW k, NEW v, Grown(v), Of(v, k), NEW peer, PeerRight(k, peer)
  PROVE  PeerRight(k, peer)'
<1>1. /\ DOMAIN events' = DOMAIN events \cup {Len(events) + 1} /\ DOMAIN events = 1 .. Len(events)
      /\ Len(events) \in Nat /\ Len(events') = Len(events) + 1
      /\ \A p \in DOMAIN events : p < Len(events) + 1 /\ events'[p] = events[p]
      /\ events'[Len(events) + 1] = v
  BY GrownKeeps
<1>. DEFINE n == Len(events)
<1>. HIDE DEF n
<1>2. PICK s \in [0 .. n -> BOOLEAN] : PeerStates(k, s) /\ s[0] = peer
  BY DEF PeerRight, n
<1>3. /\ s[n] <=> Peer \in rows[k].reacted
      /\ \A p \in DOMAIN events :
           IF Reacts(events[p], k, Peer) THEN s[p] = events[p].add /\ (s[p] = s[p - 1] => events[p].vain)
                                         ELSE s[p] = s[p - 1]
  BY <1>2 DEF PeerStates, n
<1>4. /\ Reacts(v, k, Peer) => v.add \in BOOLEAN
      /\ IF Reacts(v, k, Peer)
         THEN (v.add <=> Peer \in rows'[k].reacted) /\ ((v.add <=> Peer \in rows[k].reacted) => v.vain)
         ELSE Peer \in rows'[k].reacted <=> Peer \in rows[k].reacted
  BY DEF Of, User, Reacts, GoodEvent, Event
<1>. DEFINE last == IF Reacts(v, k, Peer) THEN v.add ELSE s[n]
            z == [p \in 0 .. n + 1 |-> IF p = n + 1 THEN last ELSE s[p]]
<1>5. n \in Nat /\ s[n] \in BOOLEAN /\ last \in BOOLEAN
  BY <1>1, <1>2, <1>4 DEF n
<1>6. last <=> Peer \in rows'[k].reacted
  BY <1>3, <1>4
<1>7. Reacts(v, k, Peer) => last = v.add /\ (last = s[n] => v.vain)
  BY <1>3, <1>4
<1>8. ~Reacts(v, k, Peer) => last = s[n]
  OBVIOUS
<1>. HIDE DEF last
<1>9. /\ z \in [0 .. n + 1 -> BOOLEAN] /\ z[n + 1] = last
      /\ \A p \in 0 .. n : z[p] = s[p]
  BY <1>2, <1>5
<1>. HIDE DEF z
<1>10. ASSUME NEW p \in DOMAIN events'
       PROVE  IF Reacts(events'[p], k, Peer) THEN z[p] = events'[p].add /\ (z[p] = z[p - 1] => events'[p].vain)
                                             ELSE z[p] = z[p - 1]
  <2>1. CASE p = n + 1
    <3>1. p - 1 = n /\ n \in 0 .. n
      BY <1>5, <2>1
    <3>2. z[p] = last /\ z[p - 1] = s[n] /\ events'[p] = v
      BY <1>1, <1>9, <2>1, <3>1 DEF n
    <3>. QED  BY <1>7, <1>8, <3>2
  <2>2. CASE p \in DOMAIN events
    <3>1. p \in 0 .. n /\ p - 1 \in 0 .. n
      BY <1>1, <1>5, <2>2 DEF n
    <3>. QED  BY <1>1, <1>3, <1>9, <2>2, <3>1
  <2>. QED  BY <1>1, <2>1, <2>2 DEF n
<1>11. 0 \in 0 .. n /\ z[0] = peer
  BY <1>2, <1>5, <1>9
<1>12. Len(events') = n + 1
  BY <1>1 DEF n
<1>13. \E y \in [0 .. Len(events') -> BOOLEAN] :
         /\ y[Len(events')] <=> Peer \in rows'[k].reacted
         /\ \A p \in DOMAIN events' :
              IF Reacts(events'[p], k, Peer) THEN y[p] = events'[p].add /\ (y[p] = y[p - 1] => events'[p].vain)
                                             ELSE y[p] = y[p - 1]
         /\ y[0] = peer
  BY <1>6, <1>9, <1>10, <1>11, <1>12
<1>. QED  BY <1>13 DEF PeerRight, PeerStates, Reacts

\* What comes after the first event.
LEMMA ShiftKeeps ==
  ASSUME Shifted
  PROVE  /\ Len(events) \in Nat \ {0} /\ DOMAIN events = 1 .. Len(events)
         /\ Len(events') = Len(events) - 1 /\ DOMAIN events' = 1 .. Len(events) - 1
         /\ 1 \in DOMAIN events /\ events[1] = Head(events)
         /\ \A p \in DOMAIN events' : p + 1 \in DOMAIN events /\ events'[p] = events[p + 1]
         /\ \A q \in DOMAIN events : 1 < q => q - 1 \in DOMAIN events' /\ events'[q - 1] = events[q]
<1>1. ASSUME NEW q \in DOMAIN events, 1 < q
      PROVE  q - 1 \in DOMAIN events' /\ events'[q - 1] = events[q]
  <2>1. q \in 1 .. Len(events) /\ Len(events) \in Nat
    BY DEF Shifted
  <2>2. q - 1 \in DOMAIN events' /\ (q - 1) + 1 = q
    BY <1>1, <2>1 DEF Shifted
  <2>. QED  BY <2>2 DEF Shifted
<1>. QED  BY <1>1 DEF Shifted

\* Handling the first event leaves the edits under way true: a tally that it shows
\* is right, and one that it is not about stays right.
LEMMA EditsShift ==
  ASSUME Shifted, NEW k, rows'[k] = rows[k], EditTrue(k)
  PROVE  /\ EditTrue(k)'
         /\ ~Edits(Head(events), k) => \A tally : VotesRight(k, tally) => VotesRight(k, tally)'
         /\ Edits(Head(events), k) =>
              (/\ VotesRight(k, Head(events).entry.tally)
               /\ \A tally : tally = Head(events).entry.tally => VotesRight(k, tally)')
<1>1. /\ Len(events) \in Nat /\ DOMAIN events = 1 .. Len(events) /\ DOMAIN events' = 1 .. Len(events) - 1
      /\ 1 \in DOMAIN events /\ events[1] = Head(events)
      /\ \A p \in DOMAIN events' : p + 1 \in DOMAIN events /\ events'[p] = events[p + 1]
      /\ \A q \in DOMAIN events : 1 < q => q - 1 \in DOMAIN events' /\ events'[q - 1] = events[q]
  BY ShiftKeeps
<1>2. EditTrue(k)'
  <2>. SUFFICES ASSUME NEW p \in DOMAIN events', Edits(events'[p], k)
                PROVE  \/ events'[p].entry.tally = Tally(rows'[k].votes)
                       \/ \E q \in DOMAIN events' : p < q /\ Edits(events'[q], k)
    BY DEF EditTrue, Edits
  <2>1. p + 1 \in DOMAIN events /\ events'[p] = events[p + 1]
    BY <1>1
  <2>2. CASE events[p + 1].entry.tally = Tally(rows[k].votes)
    BY <2>1, <2>2
  <2>3. CASE \E q \in DOMAIN events : p + 1 < q /\ Edits(events[q], k)
    <3>1. PICK q \in DOMAIN events : p + 1 < q /\ Edits(events[q], k)
      BY <2>3
    <3>2. 1 < q /\ p < q - 1
      BY <1>1, <3>1
    <3>. QED  BY <1>1, <3>1, <3>2
  <2>. QED  BY <2>1, <2>2, <2>3 DEF EditTrue
<1>3. ASSUME NEW q \in DOMAIN events, 1 < q, Edits(events[q], k)
      PROVE  EditComes(k)'
  BY <1>1, <1>3 DEF EditComes, Edits
<1>4. ASSUME ~Edits(Head(events), k), NEW tally, VotesRight(k, tally)
      PROVE  VotesRight(k, tally)'
  <2>1. CASE EditComes(k)
    <3>1. PICK q \in DOMAIN events : Edits(events[q], k)
      BY <2>1 DEF EditComes
    <3>2. 1 < q
      BY <1>1, <1>4, <3>1
    <3>. QED  BY <1>3, <3>1, <3>2 DEF VotesRight
  <2>2. CASE tally = Tally(rows[k].votes)
    BY <2>2 DEF VotesRight
  <2>. QED  BY <1>4, <2>1, <2>2 DEF VotesRight
<1>5. ASSUME Edits(Head(events), k)
      PROVE  /\ VotesRight(k, Head(events).entry.tally)
             /\ \A tally : tally = Head(events).entry.tally => VotesRight(k, tally)'
  <2>1. VotesRight(k, Head(events).entry.tally)
    BY <1>1, <1>5 DEF VotesRight, EditComes
  <2>2. CASE Head(events).entry.tally = Tally(rows[k].votes)
    BY <2>1, <2>2 DEF VotesRight
  <2>3. CASE \E q \in DOMAIN events : 1 < q /\ Edits(events[q], k)
    BY <1>3, <2>1, <2>3 DEF VotesRight
  <2>. QED  BY <1>1, <1>5, <2>2, <2>3 DEF EditTrue
<1>. QED  BY <1>2, <1>4, <1>5

LEMMA OwnShift ==
  ASSUME Shifted, NEW k, rows'[k] = rows[k], OwnTrue(k)
  PROVE  /\ OwnTrue(k)'
         /\ ~Reacts(Head(events), k, Me) => \A mine : OwnRight(k, mine) => OwnRight(k, mine)'
         /\ Reacts(Head(events), k, Me) => \A mine : (mine <=> Head(events).add) => OwnRight(k, mine)'
<1>1. /\ Len(events) \in Nat /\ DOMAIN events = 1 .. Len(events) /\ DOMAIN events' = 1 .. Len(events) - 1
      /\ 1 \in DOMAIN events /\ events[1] = Head(events)
      /\ \A p \in DOMAIN events' : p + 1 \in DOMAIN events /\ events'[p] = events[p + 1]
      /\ \A q \in DOMAIN events : 1 < q => q - 1 \in DOMAIN events' /\ events'[q - 1] = events[q]
  BY ShiftKeeps
<1>2. OwnTrue(k)'
  <2>. SUFFICES ASSUME NEW p \in DOMAIN events', Reacts(events'[p], k, Me)
                PROVE  \/ events'[p].add <=> Me \in rows'[k].reacted
                       \/ \E q \in DOMAIN events' : p < q /\ Reacts(events'[q], k, Me)
    BY DEF OwnTrue, Reacts
  <2>1. p + 1 \in DOMAIN events /\ events'[p] = events[p + 1]
    BY <1>1
  <2>2. CASE events[p + 1].add <=> Me \in rows[k].reacted
    BY <2>1, <2>2
  <2>3. CASE \E q \in DOMAIN events : p + 1 < q /\ Reacts(events[q], k, Me)
    <3>1. PICK q \in DOMAIN events : p + 1 < q /\ Reacts(events[q], k, Me)
      BY <2>3
    <3>2. 1 < q /\ p < q - 1
      BY <1>1, <3>1
    <3>. QED  BY <1>1, <3>1, <3>2
  <2>. QED  BY <2>1, <2>2, <2>3 DEF OwnTrue
<1>3. ASSUME NEW q \in DOMAIN events, 1 < q, Reacts(events[q], k, Me)
      PROVE  OwnComes(k)'
  BY <1>1, <1>3 DEF OwnComes, Reacts
<1>4. ASSUME ~Reacts(Head(events), k, Me), NEW mine, OwnRight(k, mine)
      PROVE  OwnRight(k, mine)'
  <2>1. CASE OwnComes(k)
    <3>1. PICK q \in DOMAIN events : Reacts(events[q], k, Me)
      BY <2>1 DEF OwnComes
    <3>2. 1 < q
      BY <1>1, <1>4, <3>1
    <3>. QED  BY <1>2, <1>3, <3>1, <3>2 DEF OwnRight
  <2>2. CASE mine <=> Me \in rows[k].reacted
    BY <1>2, <2>2 DEF OwnRight
  <2>. QED  BY <1>4, <2>1, <2>2 DEF OwnRight
<1>5. ASSUME Reacts(Head(events), k, Me), NEW mine, mine <=> Head(events).add
      PROVE  OwnRight(k, mine)'
  <2>1. CASE Head(events).add <=> Me \in rows[k].reacted
    BY <1>2, <1>5, <2>1 DEF OwnRight
  <2>2. CASE \E q \in DOMAIN events : 1 < q /\ Reacts(events[q], k, Me)
    BY <1>2, <1>3, <2>2 DEF OwnRight
  <2>. QED  BY <1>1, <1>5, <2>1, <2>2 DEF OwnTrue
<1>. QED  BY <1>2, <1>4, <1>5

LEMMA PeerShift ==
  ASSUME Shifted, NEW k, rows'[k] = rows[k], NEW peer, PeerRight(k, peer)
  PROVE  IF Reacts(Head(events), k, Peer)
         THEN \A add : add = Head(events).add => PeerRight(k, add)' /\ (add = peer => Head(events).vain)
         ELSE PeerRight(k, peer)'
<1>1. /\ Len(events) \in Nat \ {0} /\ DOMAIN events = 1 .. Len(events) /\ DOMAIN events' = 1 .. Len(events) - 1
      /\ 1 \in DOMAIN events /\ events[1] = Head(events) /\ Len(events') = Len(events) - 1
      /\ \A p \in DOMAIN events' : p + 1 \in DOMAIN events /\ events'[p] = events[p + 1]
  BY ShiftKeeps
<1>. DEFINE n == Len(events)
<1>. HIDE DEF n
<1>2. PICK s \in [0 .. n -> BOOLEAN] : PeerStates(k, s) /\ s[0] = peer
  BY DEF PeerRight, n
<1>3. /\ s[n] <=> Peer \in rows[k].reacted
      /\ \A p \in DOMAIN events :
           IF Reacts(events[p], k, Peer) THEN s[p] = events[p].add /\ (s[p] = s[p - 1] => events[p].vain)
                                         ELSE s[p] = s[p - 1]
  BY <1>2 DEF PeerStates, n
<1>. DEFINE z == [p \in 0 .. n - 1 |-> s[p + 1]]
<1>4. n \in Nat \ {0} /\ \A p \in 0 .. n - 1 : p + 1 \in 0 .. n /\ z[p] = s[p + 1]
  BY <1>1 DEF n
<1>5. z \in [0 .. n - 1 -> BOOLEAN]
  BY <1>2, <1>4
<1>6. n - 1 \in 0 .. n - 1 /\ (n - 1) + 1 = n /\ 0 \in 0 .. n - 1 /\ 0 + 1 = 1
  BY <1>4
<1>7. z[n - 1] = s[n] /\ z[0] = s[1]
  BY <1>4, <1>6
<1>. HIDE DEF z
<1>8. ASSUME NEW p \in DOMAIN events'
      PROVE  IF Reacts(events'[p], k, Peer) THEN z[p] = events'[p].add /\ (z[p] = z[p - 1] => events'[p].vain)
                                            ELSE z[p] = z[p - 1]
  <2>1. p \in 0 .. n - 1 /\ p - 1 \in 0 .. n - 1 /\ (p - 1) + 1 = p /\ (p + 1) - 1 = p
    <3>1. p \in 1 .. n - 1 /\ n \in Nat
      BY <1>1, <1>4 DEF n
    <3>. QED  BY <3>1
  <2>2. z[p] = s[p + 1] /\ z[p - 1] = s[p]
    BY <1>4, <2>1
  <2>3. p + 1 \in DOMAIN events /\ events'[p] = events[p + 1]
    BY <1>1
  <2>. QED  BY <1>3, <2>1, <2>2, <2>3
<1>9. ASSUME NEW x, x = s[1] PROVE PeerRight(k, x)'
  <2>1. \E y \in [0 .. Len(events') -> BOOLEAN] :
          /\ y[Len(events')] <=> Peer \in rows'[k].reacted
          /\ \A p \in DOMAIN events' :
               IF Reacts(events'[p], k, Peer) THEN y[p] = events'[p].add /\ (y[p] = y[p - 1] => events'[p].vain)
                                              ELSE y[p] = y[p - 1]
          /\ y[0] = x
    BY <1>1, <1>3, <1>5, <1>7, <1>8, <1>9 DEF n
  <2>. QED  BY <2>1 DEF PeerRight, PeerStates, Reacts
<1>10. IF Reacts(Head(events), k, Peer) THEN s[1] = Head(events).add /\ (s[1] = s[0] => Head(events).vain)
                                        ELSE s[1] = s[0]
  <2>1. 1 - 1 = 0
    OBVIOUS
  <2>2. IF Reacts(events[1], k, Peer) THEN s[1] = events[1].add /\ (s[1] = s[1 - 1] => events[1].vain)
                                      ELSE s[1] = s[1 - 1]
    BY <1>1, <1>3
  <2>. QED  BY <1>1, <2>1, <2>2
<1>11. ASSUME Reacts(Head(events), k, Peer), NEW add, add = Head(events).add
       PROVE  PeerRight(k, add)' /\ (add = peer => Head(events).vain)
  <2>1. add = s[1] /\ (add = peer => Head(events).vain)
    BY <1>2, <1>10, <1>11
  <2>. QED  BY <1>9, <2>1
<1>12. ~Reacts(Head(events), k, Peer) => PeerRight(k, peer)'
  <2>1. ~Reacts(Head(events), k, Peer) => peer = s[1]
    BY <1>2, <1>10
  <2>. QED  BY <1>9, <2>1
<1>. QED  BY <1>11, <1>12

\* What is right of a message of the thread stays so when the panel is told.
LEMMA TalliesTold ==
  ASSUME MessagesTypes, Told, NEW k \in OpenIds
  PROVE  /\ EditTrue(k) => EditTrue(k)' /\ \A tally : VotesRight(k, tally) => VotesRight(k, tally)'
         /\ OwnTrue(k) => OwnTrue(k)'
         /\ \A mine : OwnRight(k, mine) => OwnRight(k, mine)'
         /\ \A peer : PeerRight(k, peer) => PeerRight(k, peer)'
<1>1. CASE rows'[k] = rows[k] /\ events' = events
  <2>1. EditTrue(k) => EditTrue(k)'
    BY <1>1 DEF EditTrue, Edits
  <2>2. \A tally : VotesRight(k, tally) => VotesRight(k, tally)'
    BY <1>1 DEF VotesRight, EditComes, Edits
  <2>3. OwnTrue(k) => OwnTrue(k)'
    BY <1>1 DEF OwnTrue, Reacts
  <2>4. \A mine : OwnRight(k, mine) => OwnRight(k, mine)'
    BY <1>1, <2>3 DEF OwnRight, OwnComes, Reacts
  <2>5. \A peer : PeerRight(k, peer) => PeerRight(k, peer)'
    BY <1>1 DEF PeerRight, PeerStates, Reacts
  <2>. QED  BY <2>1, <2>2, <2>3, <2>4, <2>5
<1>2. CASE \E v : Grown(v) /\ Of(v, k)
  <2>1. PICK v : Grown(v) /\ Of(v, k)
    BY <1>2
  <2>2. EditTrue(k) => EditTrue(k)' /\ \A tally : VotesRight(k, tally) => VotesRight(k, tally)'
    BY <2>1, EditsGrow
  <2>3. OwnTrue(k) => OwnTrue(k)' /\ \A mine : OwnRight(k, mine) => OwnRight(k, mine)'
    BY <2>1, OwnGrows
  <2>4. \A mine : OwnRight(k, mine) => OwnRight(k, mine)'
    BY <2>3 DEF OwnRight
  <2>5. \A peer : PeerRight(k, peer) => PeerRight(k, peer)'
    BY <2>1, PeerGrows
  <2>. QED  BY <2>2, <2>3, <2>4, <2>5
<1>3. CASE rows'[k] = rows[k] /\ Shifted /\ AboutOther(Head(events), k)
  <2>1. ~Edits(Head(events), k) /\ ~Reacts(Head(events), k, Me) /\ ~Reacts(Head(events), k, Peer)
    BY <1>3 DEF AboutOther, User
  <2>2. EditTrue(k) => EditTrue(k)' /\ \A tally : VotesRight(k, tally) => VotesRight(k, tally)'
    BY <1>3, <2>1, EditsShift
  <2>3. OwnTrue(k) => OwnTrue(k)' /\ \A mine : OwnRight(k, mine) => OwnRight(k, mine)'
    BY <1>3, <2>1, OwnShift
  <2>4. \A mine : OwnRight(k, mine) => OwnRight(k, mine)'
    BY <2>3 DEF OwnRight
  <2>5. \A peer : PeerRight(k, peer) => PeerRight(k, peer)'
    BY <1>3, <2>1, PeerShift
  <2>. QED  BY <2>2, <2>3, <2>4, <2>5
<1>. QED  BY <1>1, <1>2, <1>3, ToldOf

\* A message that was just posted has no votes and no reactions, nor any on their way.
LEMMA NewIsBlank ==
  ASSUME MessagesTypes, Told, NEW k, k \in OpenIds', k \notin OpenIds
  PROVE  EditTrue(k)' /\ Blank(k)'
<1>1. PICK id \in Nat : \E t, v : Posted(id, t, v)
  <2>1. ASSUME NEW id \in DOMAIN rows, NEW t, NEW v, Amended(id, t, v)
        PROVE  FALSE
    <3>1. DOMAIN rows' = DOMAIN rows /\ \A j \in DOMAIN rows : rows'[j].thread = rows[j].thread
      BY <2>1 DEF Amended
    <3>. QED  BY <3>1 DEF OpenIds, Told
  <2>2. ~UNCHANGED rows
    BY DEF OpenIds, Told
  <2>. QED  BY <2>1, <2>2 DEF Told
<1>2. PICK t, v : Posted(id, t, v)
  BY <1>1
<1>3. /\ DOMAIN rows' = DOMAIN rows \cup {id} /\ id \notin DOMAIN rows
      /\ \A j \in DOMAIN rows : rows'[j] = rows[j]
      /\ rows'[id].reacted = {} /\ rows'[id].votes = NoVotes /\ v.type = "message"
  BY <1>2 DEF Posted
<1>4. k = id
  BY <1>3 DEF OpenIds, Told
<1>5. Grown(v) \/ events' = events
  BY <1>2, BroadcastGrows DEF Posted
<1>6. /\ DOMAIN events = 1 .. Len(events) /\ Len(events) \in Nat
      /\ \A i \in DOMAIN events : events[i] \in GoodEvent
  BY EventsAreGood
<1>7. /\ DOMAIN events' = 1 .. Len(events') /\ Len(events') \in Nat
      /\ \A p \in DOMAIN events' : events'[p] = v \/ \E i \in DOMAIN events : events'[p] = events[i]
  <2>1. CASE Grown(v)
    <3>1. /\ DOMAIN events' = DOMAIN events \cup {Len(events) + 1} /\ DOMAIN events = 1 .. Len(events)
          /\ Len(events') = Len(events) + 1
          /\ \A p \in DOMAIN events : p < Len(events) + 1 /\ events'[p] = events[p]
          /\ events'[Len(events) + 1] = v
      BY <2>1, GrownKeeps
    <3>. QED  BY <1>6, <3>1
  <2>. QED  BY <1>5, <1>6, <2>1
<1>8. ASSUME NEW p \in DOMAIN events'
      PROVE  ~Edits(events'[p], k) /\ ~Reacts(events'[p], k, Me) /\ ~Reacts(events'[p], k, Peer)
  <2>1. CASE events'[p] = v
    BY <1>3, <2>1 DEF Edits, Reacts
  <2>2. ASSUME NEW i \in DOMAIN events, events'[p] = events[i]
        PROVE  ~Edits(events'[p], k) /\ ~Reacts(events'[p], k, Me) /\ ~Reacts(events'[p], k, Peer)
    BY <1>3, <1>4, <1>6, <2>2 DEF Edits, Reacts, GoodEvent, GoodEntry
  <2>. QED  BY <1>7, <2>1, <2>2
<1>9. EditTrue(k)'
  BY <1>8 DEF EditTrue, Edits
<1>10. VotesRight(k, Zero)'
  BY <1>3, <1>4 DEF VotesRight, Zero
<1>11. OwnRight(k, FALSE)'
  BY <1>3, <1>4, <1>8 DEF OwnRight, OwnTrue, Reacts
<1>12. PeerRight(k, FALSE)'
  <2>. DEFINE s == [p \in 0 .. Len(events') |-> FALSE]
  <2>1. s \in [0 .. Len(events') -> BOOLEAN] /\ \A p \in 0 .. Len(events') : s[p] = FALSE
    OBVIOUS
  <2>. HIDE DEF s
  <2>2. 0 \in 0 .. Len(events') /\ Len(events') \in 0 .. Len(events')
    BY <1>7
  <2>3. \A p \in DOMAIN events' : p \in 0 .. Len(events') /\ p - 1 \in 0 .. Len(events')
    BY <1>7
  <2>4. \A p \in DOMAIN events' : s[p] = FALSE /\ s[p - 1] = FALSE
    BY <2>1, <2>3
  <2>5. \E y \in [0 .. Len(events') -> BOOLEAN] :
          /\ y[Len(events')] <=> Peer \in rows'[k].reacted
          /\ \A p \in DOMAIN events' :
               IF Reacts(events'[p], k, Peer) THEN y[p] = events'[p].add /\ (y[p] = y[p - 1] => events'[p].vain)
                                              ELSE y[p] = y[p - 1]
          /\ y[0] = FALSE
    BY <1>3, <1>4, <1>8, <2>1, <2>2, <2>4
  <2>. QED  BY <2>5 DEF PeerRight, PeerStates, Reacts
<1>. QED  BY <1>9, <1>10, <1>11, <1>12 DEF Blank

\* What is told while a list is shown or on its way keeps it right.
LEMMA UnshownKept ==
  ASSUME MessagesTypes, Told, NEW l, Unshown(l)
  PROVE  Unshown(l)'
<1>1. /\ Flying \subseteq OpenIds /\ Flying' \subseteq Flying \cup (OpenIds' \ OpenIds)
  BY ThreadGrows DEF Flying
<1>2. ThreadIds(l)' = ThreadIds(l)
  BY DEF ThreadIds, Told
<1>3. ASSUME NEW k \in OpenIds'
      PROVE  EditTrue(k)'
  BY TalliesTold, NewIsBlank DEF Unshown
<1>4. ASSUME NEW k \in Flying', k \notin ThreadIds(l)
      PROVE  Blank(k)'
  <2>1. CASE k \in Flying
    <3>1. k \in OpenIds /\ Blank(k) /\ EditTrue(k)
      BY <1>1, <1>4, <2>1 DEF Unshown
    <3>. QED  BY <3>1, TalliesTold DEF Blank
  <2>2. CASE k \in OpenIds' /\ k \notin OpenIds
    BY <2>2, NewIsBlank
  <2>. QED  BY <1>1, <2>1, <2>2
<1>. QED  BY <1>2, <1>3, <1>4 DEF Unshown

\* So does a page on its way, and what it says of its messages.
LEMMA OpenEntry ==
  ASSUME MessagesTypes, NEW l \in Seq(GoodEntry), NEW i \in DOMAIN l, l[i].thread = open
  PROVE  l[i].id \in OpenIds
BY LenProperties, ElementOfSeq DEF OpenIds, GoodEntry

LEMMA PageKept ==
  ASSUME MessagesTypes, Told, NEW l \in Seq(GoodEntry), \A k \in OpenIds : EditTrue(k)
  PROVE  (PageVotes(l) => PageVotes(l)') /\ (PageReactions(l) => PageReactions(l)')
<1>1. ASSUME NEW k \in OpenIds, NEW count, NEW mine, CountRight(k, count, mine)
      PROVE  CountRight(k, count, mine)'
  BY <1>1, TalliesTold DEF CountRight
<1>2. ASSUME PageVotes(l)
      PROVE  PageVotes(l)'
  <2>1. ASSUME NEW i \in DOMAIN l, l[i].thread = open
        PROVE  VotesRight(l[i].id, l[i].tally)'
    <3>1. l[i].id \in OpenIds /\ VotesRight(l[i].id, l[i].tally)
      BY <1>2, <2>1, OpenEntry DEF PageVotes
    <3>. QED  BY <3>1, TalliesTold
  <2>. QED  BY <2>1 DEF PageVotes, Told
<1>3. ASSUME PageReactions(l)
      PROVE  PageReactions(l)'
  <2>1. ASSUME NEW i \in DOMAIN l, l[i].thread = open
        PROVE  CountRight(l[i].id, l[i].count, l[i].mine)' /\ OwnRight(l[i].id, l[i].mine)'
    <3>1. PICK k, count, mine : k = l[i].id /\ count = l[i].count /\ mine = l[i].mine
      OBVIOUS
    <3>2. k \in OpenIds /\ CountRight(k, count, mine) /\ OwnRight(k, mine)
      BY <1>3, <2>1, <3>1, OpenEntry DEF PageReactions
    <3>3. CountRight(k, count, mine)' /\ OwnRight(k, mine)'
      BY <1>1, <3>2, TalliesTold
    <3>. QED  BY <3>1, <3>3
  <2>. QED  BY <2>1 DEF PageReactions, Told
<1>. QED  BY <1>2, <1>3

\* What is pushed is told after the message was; the rest keeps its order.
LEMMA PostedFirstKept ==
  ASSUME MessagesTypes, PostedFirst,
         \/ UNCHANGED events
         \/ events' = <<>>
         \/ Shifted
         \/ \E id \in Nat : \E t, v : Posted(id, t, v)
         \/ \E id \in DOMAIN rows : \E t, v : Amended(id, t, v)
  PROVE  PostedFirst'
<1>. DEFINE Untold(p, q) == /\ ~Edits(p, q.entry.id)
                            /\ \A u \in User : ~Reacts(p, q.entry.id, u)
            Empty(p) == p.entry.tally = Zero /\ p.entry.count = 0 /\ p.entry.mine = FALSE
<1>1. /\ \A p, q \in DOMAIN events : p < q /\ events[q].type = "message" => Untold(events[p], events[q])
      /\ \A p \in DOMAIN events : events[p].type = "message" => Empty(events[p])
  BY DEF PostedFirst
<1>2. ASSUME \A p, q \in DOMAIN events' : p < q /\ events'[q].type = "message" => Untold(events'[p], events'[q]),
             \A p \in DOMAIN events' : events'[p].type = "message" => Empty(events'[p])
      PROVE  PostedFirst'
  BY <1>2 DEF PostedFirst, Edits, Reacts, Zero
<1>. HIDE DEF Untold, Empty
<1>3. /\ DOMAIN events = 1 .. Len(events) /\ Len(events) \in Nat
      /\ \A i \in DOMAIN events : events[i] \in GoodEvent
  BY EventsAreGood
<1>4. CASE UNCHANGED events
  BY <1>1, <1>2, <1>4
<1>5. CASE events' = <<>>
  <2>1. DOMAIN events' = {}
    BY <1>5
  <2>. QED  BY <1>2, <2>1
<1>6. CASE Shifted
  <2>1. \A p \in DOMAIN events' : p \in Nat /\ p + 1 \in DOMAIN events /\ events'[p] = events[p + 1]
    BY <1>6 DEF Shifted
  <2>2. ASSUME NEW p \in DOMAIN events', NEW q \in DOMAIN events', p < q, events'[q].type = "message"
        PROVE  Untold(events'[p], events'[q])
    <3>1. p + 1 < q + 1
      BY <2>1, <2>2
    <3>. QED  BY <1>1, <2>1, <2>2, <3>1
  <2>. QED  BY <1>1, <1>2, <2>1, <2>2
<1>7. ASSUME NEW v, Grown(v), v.type = "message" => (Empty(v) /\ \A p \in DOMAIN events : Untold(events[p], v))
      PROVE  PostedFirst'
  <2>1. /\ DOMAIN events' = DOMAIN events \cup {Len(events) + 1} /\ DOMAIN events = 1 .. Len(events)
        /\ \A p \in DOMAIN events : p < Len(events) + 1 /\ events'[p] = events[p]
        /\ events'[Len(events) + 1] = v
    BY <1>7, GrownKeeps
  <2>2. ASSUME NEW p \in DOMAIN events', NEW q \in DOMAIN events', p < q, events'[q].type = "message"
        PROVE  Untold(events'[p], events'[q])
    <3>1. p \in DOMAIN events
      <4>1. p # Len(events) + 1
        BY <1>3, <2>1, <2>2
      <4>. QED  BY <2>1, <4>1
    <3>2. CASE q = Len(events) + 1
      BY <1>7, <2>1, <2>2, <3>1, <3>2
    <3>3. CASE q \in DOMAIN events
      BY <1>1, <2>1, <2>2, <3>1, <3>3
    <3>. QED  BY <2>1, <3>2, <3>3
  <2>3. ASSUME NEW p \in DOMAIN events', events'[p].type = "message"
        PROVE  Empty(events'[p])
    BY <1>1, <1>7, <2>1, <2>3
  <2>. QED  BY <1>2, <2>2, <2>3
<1>8. ASSUME NEW id \in Nat, NEW t, NEW v, Posted(id, t, v)
      PROVE  PostedFirst'
  <2>1. Grown(v) \/ events' = events
    BY <1>8, BroadcastGrows DEF Posted
  <2>2. Empty(v) /\ v.entry.id \notin DOMAIN rows
    BY <1>8 DEF Posted, Empty
  <2>3. \A p \in DOMAIN events : Untold(events[p], v)
    BY <1>3, <2>2 DEF Untold, Edits, Reacts, GoodEvent, GoodEntry
  <2>. QED  BY <1>4, <1>7, <2>1, <2>2, <2>3
<1>9. ASSUME NEW id \in DOMAIN rows, NEW t, NEW v, Amended(id, t, v)
      PROVE  PostedFirst'
  <2>1. Grown(v) \/ events' = events
    BY <1>9, BroadcastGrows DEF Amended
  <2>2. v.type # "message"
    BY <1>9 DEF Amended
  <2>. QED  BY <1>4, <1>7, <2>1, <2>2
<1>. QED  BY <1>4, <1>5, <1>6, <1>8, <1>9

\* A step of a request: what the panel asks for is its user's, and stays what it is
\* until it is carried out, answered or given up.
Hinted == {"vote", "react", "unreact"}
Handled(r) ==
  \E q : /\ req' = [req EXCEPT ![r] = q]
         /\ r \in OtherReq \/ q = Idle \/ q.by = Me \/ (req[r] # Idle /\ q.by = req[r].by)
Carried(r) ==
  \E q : /\ req' = [req EXCEPT ![r] = q]
         /\ \/ r \in OtherReq \/ req[r] = Idle \/ req[r].at = "answered" \/ req[r].op \notin Hinted
            \/ q # Idle /\ q.op = req[r].op /\ q.id = req[r].id /\ q.at # "answered"

LEMMA OwnRequestsKept ==
  ASSUME MessagesTypes, OwnRequests, UNCHANGED req \/ \E r \in Req : Handled(r)
  PROVE  OwnRequests'
<1>1. CASE UNCHANGED req
  BY <1>1 DEF OwnRequests
<1>2. ASSUME NEW r \in Req, Handled(r)
      PROVE  OwnRequests'
  <2>1. PICK q : /\ req' = [req EXCEPT ![r] = q]
                 /\ r \in OtherReq \/ q = Idle \/ q.by = Me \/ (req[r] # Idle /\ q.by = req[r].by)
    BY <1>2 DEF Handled
  <2>2. DOMAIN req = Req
    BY DEF MessagesTypes, TableTypes
  <2>3. ASSUME NEW p \in PanelReq, req'[p] # Idle
        PROVE  req'[p].by = Me
    <3>1. p \in Req /\ p \notin OtherReq
      BY MessagesAssumption DEF Req
    <3>2. CASE p = r
      BY <2>1, <2>2, <2>3, <3>1, <3>2 DEF OwnRequests
    <3>3. CASE p # r
      BY <2>1, <2>2, <2>3, <3>1, <3>3 DEF OwnRequests
    <3>. QED  BY <3>2, <3>3
  <2>. QED  BY <2>3 DEF OwnRequests
<1>. QED  BY <1>1, <1>2

LEMMA CarriedKeeps ==
  ASSUME MessagesTypes, NEW r \in Req, Carried(r), NEW ops \in SUBSET Hinted, NEW k, Pending(ops, k)
  PROVE  Pending(ops, k)'
<1>1. PICK q : /\ req' = [req EXCEPT ![r] = q]
               /\ \/ r \in OtherReq \/ req[r] = Idle \/ req[r].at = "answered" \/ req[r].op \notin Hinted
                  \/ q # Idle /\ q.op = req[r].op /\ q.id = req[r].id /\ q.at # "answered"
  BY DEF Carried
<1>2. DOMAIN req = Req
  BY DEF MessagesTypes, TableTypes
<1>3. PICK p \in PanelReq : req[p] # Idle /\ req[p].op \in ops /\ req[p].id = k /\ req[p].at # "answered"
  BY DEF Pending
<1>4. p \in Req /\ p \notin OtherReq
  BY MessagesAssumption DEF Req
<1>5. req'[p] # Idle /\ req'[p].op \in ops /\ req'[p].id = k /\ req'[p].at # "answered"
  BY <1>1, <1>2, <1>3, <1>4
<1>. QED  BY <1>5 DEF Pending

LEMMA BegunIsHandled ==
  ASSUME NEW r, NEW q, Begin(r, q), r \in OtherReq \/ q.by = Me
  PROVE  Handled(r) /\ Carried(r)
BY DEF Begin, Handled, Carried

LEMMA AskedIsHandled ==
  ASSUME NEW r, \/ \E id : Pin(r, id) \/ Delete(r, id) \/ ToggleReaction(r, id) \/ \E o : HandleVote(r, id, o)
                \/ SendText(r) \/ SendPlain(r) \/ RetryPending(r) \/ SubmitEdit(r)
                \/ \E op, u, id, arg : OtherAsks(r, op, u, id, arg)
                \/ \E u, t : OtherSends(r, u, t)
  PROVE  Handled(r) /\ Carried(r)
<1>0. \A op, u, t, id, arg, votes, stage : Frame(op, u, t, id, arg, votes, stage).by = u
  BY DEF Frame
<1>1. ASSUME NEW id, Pin(r, id) \/ Delete(r, id) \/ ToggleReaction(r, id) \/ \E o : HandleVote(r, id, o)
      PROVE  \E op, arg : Begin(r, Frame(op, Me, rows[id].thread, id, arg, NoVotes, "sent"))
  BY <1>1 DEF Pin, Delete, ToggleReaction, HandleVote, Ask
<1>2. ASSUME SendText(r) \/ SendPlain(r) \/ RetryPending(r)
      PROVE  \E arg : Begin(r, Frame("send", Me, open, 0, arg, NoVotes, "sent"))
  BY <1>2 DEF SendText, SendPlain, RetryPending
<1>3. ASSUME SubmitEdit(r)
      PROVE  Begin(r, Frame("edit", Me, rows[editing].thread, editing, Written, NoVotes, "sent"))
  BY <1>3 DEF SubmitEdit
<1>4. ASSUME NEW op, NEW u, NEW id, NEW arg, OtherAsks(r, op, u, id, arg)
      PROVE  Begin(r, Frame(op, u, rows[id].thread, id, arg, rows[id].votes, "read")) /\ r \in OtherReq
  BY <1>4 DEF OtherAsks
<1>5. ASSUME NEW u, NEW t, OtherSends(r, u, t)
      PROVE  Begin(r, Frame("send", u, t, 0, t, NoVotes, "read")) /\ r \in OtherReq
  BY <1>5 DEF OtherSends
<1>6. \E q : Begin(r, q) /\ (r \in OtherReq \/ q.by = Me)
  BY <1>0, <1>1, <1>2, <1>3, <1>4, <1>5
<1>. QED  BY <1>6, BegunIsHandled

\* Each step of a request, as one that may be carried out but is not forgotten.
LEMMA MovedIsHandled ==
  ASSUME MessagesTypes, NEW r \in Req
  PROVE  /\ Read(r) \/ Fail(r) \/ Answered(r) \/ Create(r) => Handled(r) /\ Carried(r)
         /\ Failed(r) => Handled(r) /\ (exact' => Carried(r))
         /\ Update(r) => Handled(r) /\ (r \in OtherReq \/ req[r].op \notin Hinted => Carried(r))
<1>1. PICK q : q = req[r]
  OBVIOUS
<1>2. q # Idle => q \in Request
  BY <1>1 DEF MessagesTypes, TableTypes, GoodRequest
<1>3. Idle \notin Request
  BY IdleAssumption
<1>4. CASE Read(r)
  <2>1. q \in Request
    BY <1>1, <1>2, <1>4 DEF Read
  <2>2. PICK p : /\ req' = [req EXCEPT ![r] = p]
                 /\ \/ p = [q EXCEPT !.at = "read"] \/ p = [q EXCEPT !.at = "failed"]
                    \/ (q.op # "send" /\ p = [q EXCEPT !.at = "read", !.votes = rows[q.id].votes])
    <3>1. CASE q.op = "send"
      BY <1>1, <1>4, <3>1 DEF Read
    <3>2. CASE q.op # "send"
      BY <1>1, <1>4, <3>2 DEF Read
    <3>. QED  BY <3>1, <3>2
  <2>3. q.op # "send" => rows[q.id].votes \in [User -> Option \cup {NoVote}]
    <3>1. q \in GoodRequest
      BY <1>1, <1>4 DEF Read, MessagesTypes, TableTypes
    <3>2. q.op # "send" => rows[q.id] \in Row
      BY <3>1, RowsAreRows DEF GoodRequest
    <3>. QED  BY <3>2 DEF Row
  <2>4. p.op = q.op /\ p.id = q.id /\ p.by = q.by /\ p.at # "answered" /\ p \in Request
    BY <2>1, <2>2, <2>3 DEF Request
  <2>. QED  BY <1>1, <1>3, <1>4, <2>2, <2>4 DEF Handled, Carried, Read
<1>5. CASE Fail(r)
  <2>1. q \in Request
    BY <1>1, <1>2, <1>5 DEF Fail
  <2>2. PICK p : p = [q EXCEPT !.at = "failed"] /\ req' = [req EXCEPT ![r] = p]
    BY <1>1, <1>5 DEF Fail
  <2>3. p.op = q.op /\ p.id = q.id /\ p.by = q.by /\ p.at # "answered" /\ p \in Request
    BY <2>1, <2>2 DEF Request
  <2>. QED  BY <1>1, <1>3, <1>5, <2>2, <2>3 DEF Handled, Carried, Fail
<1>6. CASE Answered(r)
  BY <1>6 DEF Answered, Handled, Carried
<1>7. ASSUME NEW id, Reply(r, id), q # Idle
      PROVE  Handled(r) /\ (r \in OtherReq \/ q.op \notin Hinted => Carried(r))
  <2>1. CASE r \in PanelReq
    <3>1. q \in Request
      BY <1>2, <1>7
    <3>2. PICK p : p = [q EXCEPT !.at = "answered", !.id = id] /\ req' = [req EXCEPT ![r] = p]
      BY <1>1, <1>7, <2>1 DEF Reply
    <3>3. p.by = q.by
      BY <3>1, <3>2 DEF Request
    <3>. QED  BY <1>1, <1>7, <3>2, <3>3 DEF Handled, Carried
  <2>2. CASE r \notin PanelReq
    BY <1>7, <2>2 DEF Reply, Handled, Carried, Req
  <2>. QED  BY <2>1, <2>2
<1>8. ASSUME Create(r)
      PROVE  Handled(r) /\ Carried(r)
  <2>1. q # Idle /\ q.op = "send" /\ \E id : Reply(r, id)
    BY <1>1, <1>8 DEF Create
  <2>. QED  BY <1>7, <2>1 DEF Hinted
<1>9. ASSUME Failed(r)
      PROVE  Handled(r) /\ (exact' => Carried(r))
  <2>1. req' = [req EXCEPT ![r] = Idle] /\ exact' = (exact /\ q.op \notin {"react", "unreact", "vote"})
    BY <1>1, <1>9 DEF Failed
  <2>2. exact' => req[r].op \notin Hinted
    BY <1>1, <2>1 DEF Hinted
  <2>. QED  BY <2>1, <2>2 DEF Handled, Carried
<1>10. ASSUME Update(r)
       PROVE  Handled(r) /\ (r \in OtherReq \/ req[r].op \notin Hinted => Carried(r))
  <2>1. q # Idle /\ \E id : Reply(r, id)
    BY <1>1, <1>10 DEF Update
  <2>. QED  BY <1>1, <1>7, <2>1
<1>. QED  BY <1>4, <1>5, <1>6, <1>8, <1>9, <1>10

\* A request of the panel that was shown early is told of when it is carried out.
LEMMA UpdateIsTold ==
  ASSUME MessagesTypes, OwnRequests, heard = open, NEW r \in Req, Update(r), NEW k \in OpenIds
  PROVE  /\ Pending({"vote"}, k) => Pending({"vote"}, k)' \/ EditComes(k)'
         /\ Pending({"react", "unreact"}, k) => Pending({"react", "unreact"}, k)' \/ OwnComes(k)'
<1>1. CASE r \in OtherReq \/ req[r].op \notin Hinted
  BY <1>1, MovedIsHandled, CarriedKeeps DEF Hinted
<1>2. CASE r \notin OtherReq /\ req[r].op \in Hinted
  <2>1. PICK q : q = req[r]
    OBVIOUS
  <2>2. /\ q \in GoodRequest /\ q # Idle /\ r \in PanelReq /\ q.by = Me /\ q.id \in DOMAIN rows /\ q.thread = rows[q.id].thread
    <3>1. q # Idle /\ r \in PanelReq /\ q.op # "send"
      BY <1>2, <2>1 DEF Update, Req, Hinted
    <3>2. q \in GoodRequest
      BY <2>1, <3>1 DEF MessagesTypes, TableTypes
    <3>. QED  BY <2>1, <3>1, <3>2 DEF GoodRequest, OwnRequests
  <2>3. PICK v : v = UpdateEvent(q)
    OBVIOUS
  <2>4. DOMAIN req = Req
    BY DEF MessagesTypes, TableTypes
  <2>5. ASSUME NEW ops, Pending(ops, k)
        PROVE  Pending(ops, k)' \/ (q.op \in ops /\ q.id = k)
    <3>1. PICK p \in PanelReq : req[p] # Idle /\ req[p].op \in ops /\ req[p].id = k /\ req[p].at # "answered"
      BY <2>5 DEF Pending
    <3>2. CASE p = r
      BY <2>1, <3>1, <3>2
    <3>3. CASE p # r
      <4>1. req'[p] = req[p]
        BY <2>4, <3>3 DEF Update, Reply, Req
      <4>. QED  BY <3>1, <4>1 DEF Pending
    <3>. QED  BY <3>2, <3>3
  <2>6. ASSUME q.id = k
        PROVE  Len(events) + 1 \in DOMAIN events' /\ events'[Len(events) + 1] = v
    <3>1. q.thread = open
      BY <2>2, <2>6 DEF OpenIds
    <3>2. events' = Append(events, v)
      BY <2>1, <2>3, <3>1 DEF Update, Broadcast
    <3>. QED  BY <3>2 DEF MessagesTypes, SocketTypes
  <2>7. q.op = "vote" => Edits(v, q.id)
    BY <2>3 DEF UpdateEvent, Edits, ToDTO
  <2>8. q.op \in {"react", "unreact"} => Reacts(v, q.id, Me)
    BY <2>2, <2>3 DEF UpdateEvent, Reacts
  <2>9. q.id = k /\ q.op = "vote" => EditComes(k)'
    BY <2>6, <2>7 DEF EditComes, Edits
  <2>10. q.id = k /\ q.op \in {"react", "unreact"} => OwnComes(k)'
    BY <2>6, <2>8 DEF OwnComes, Reacts
  <2>. QED  BY <2>5, <2>9, <2>10
<1>. QED  BY <1>1, <1>2 DEF Req

\* What the list shows of a message.
Entered(k, e) == VotesShown(k, e.tally) /\ CountRight(k, e.count, e.mine) /\ OwnShown(k, e.mine)

\* Early marks stay until they are told of.
PendingKept ==
  \A k \in OpenIds :
    /\ Pending({"vote"}, k) => Pending({"vote"}, k)' \/ EditComes(k)'
    /\ Pending({"react", "unreact"}, k) => Pending({"react", "unreact"}, k)' \/ OwnComes(k)'

LEMMA CarriedIsKept ==
  ASSUME MessagesTypes, UNCHANGED req \/ \E r \in Req : Carried(r)
  PROVE  PendingKept
<1>1. CASE UNCHANGED req
  BY <1>1 DEF PendingKept, Pending
<1>2. CASE \E r \in Req : Carried(r)
  BY <1>2, CarriedKeeps DEF PendingKept, Hinted
<1>. QED  BY <1>1, <1>2

LEMMA EntryTold ==
  ASSUME MessagesTypes, Told, PendingKept, NEW k \in OpenIds, EditTrue(k), NEW e, Entered(k, e)
  PROVE  Entered(k, e)'
<1>1. VotesShown(k, e.tally)'
  <2>1. VotesRight(k, e.tally) => VotesRight(k, e.tally)'
    BY TalliesTold
  <2>2. EditComes(k)' => VotesRight(k, e.tally)'
    BY DEF VotesRight
  <2>. QED  BY <2>1, <2>2 DEF Entered, VotesShown, PendingKept
<1>2. CountRight(k, e.count, e.mine)'
  BY TalliesTold DEF Entered, CountRight
<1>3. OwnShown(k, e.mine)'
  <2>1. OwnTrue(k)' /\ (OwnRight(k, e.mine) => OwnRight(k, e.mine)')
    BY TalliesTold DEF Entered, OwnShown
  <2>. QED  BY <2>1 DEF Entered, OwnShown, OwnRight, PendingKept
<1>. QED  BY <1>1, <1>2, <1>3 DEF Entered

\* What the invariants say of a list that is exact.
LEMMA ExactFacts ==
  ASSUME CompleteInv, TallyInv, exact
  PROVE  /\ clean /\ heard = open /\ ~loading /\ Full(list) /\ Unshown(list)
         /\ \A i \in DOMAIN list : list[i].thread = open => Entered(list[i].id, list[i])
BY DEF CompleteInv, ListInv, TallyInv, ListTally, Entered

\* The histories on their way, when the panel is told what it must know.
LEMMA FetchTold ==
  ASSUME MessagesTypes, FetchInv, FetchTally, heard = open => Told, UNCHANGED <<mount, open>>,
         mount # 0 => fetches'[mount] = fetches[mount]
  PROVE  FetchTally'
<1>. SUFFICES ASSUME mount # 0, fetches[mount] # NoPage PROVE FetchTally'
  BY DEF FetchTally
<1>1. PICK f : f = fetches[mount]
  OBVIOUS
<1>2. /\ f.at # "ready" => ~f.exact
      /\ f.clean => Unshown(f.page) /\ PageVotes(f.page) /\ heard = open
      /\ f.clean /\ f.exact => PageReactions(f.page)
  BY <1>1 DEF FetchTally, FetchInv
<1>3. PICK l : l = f.page
  OBVIOUS
<1>4. l \in Seq(GoodEntry)
  BY <1>1, <1>3, MessagesAssumption DEF MessagesTypes, PanelTypes, Run, GoodPage
<1>5. ASSUME f.clean
      PROVE  Unshown(l)' /\ PageVotes(l)' /\ (f.exact => PageReactions(l)')
  <2>1. Told /\ Unshown(l) /\ PageVotes(l) /\ \A k \in OpenIds : EditTrue(k)
    BY <1>2, <1>3, <1>5 DEF Unshown
  <2>2. Unshown(l)'
    BY <2>1, UnshownKept
  <2>3. f.exact => PageReactions(l)
    BY <1>2, <1>3, <1>5
  <2>. QED  BY <1>4, <2>1, <2>2, <2>3, PageKept
<1>6. f = fetches'[mount']
  BY <1>1
<1>7. \A g : g = f => /\ g.at # "ready" => ~g.exact
                      /\ g.clean => Unshown(g.page)' /\ PageVotes(g.page)'
                      /\ g.clean /\ g.exact => PageReactions(g.page)'
  BY <1>2, <1>3, <1>5
<1>. QED  BY <1>6, <1>7 DEF FetchTally

LEMMA OlderTold ==
  ASSUME MessagesTypes, CompleteInv, TallyInv, heard = open => Told, UNCHANGED <<mount, open, older>>,
         exact' => exact
  PROVE  OlderTally'
<1>. SUFFICES ASSUME older # NoPage, older.mount = mount, older.clean, exact', older.at = "ready" PROVE OlderTally'
  BY DEF OlderTally
<1>1. heard = open /\ Unshown(list)
  BY ExactFacts
<1>2. Told /\ \A k \in OpenIds : EditTrue(k)
  BY <1>1 DEF Unshown
<1>3. PICK l : l = older.page
  OBVIOUS
<1>4. l \in Seq(GoodEntry)
  BY <1>3 DEF MessagesTypes, PanelTypes, GoodOlder
<1>5. PageVotes(l) /\ (older.exact => PageReactions(l))
  BY <1>3 DEF TallyInv, OlderTally
<1>6. PageVotes(l)' /\ (older.exact => PageReactions(l)')
  BY <1>2, <1>4, <1>5, PageKept
<1>. QED  BY <1>3, <1>6 DEF OlderTally

\* What the list shows when the panel is told what it must know.
LEMMA ListShows ==
  ASSUME exact' => clean', exact' => Unshown(list)' /\ \A i \in DOMAIN list' : list'[i].thread = open' =>
                                     \A k, e : k = list'[i].id /\ e = list'[i] => Entered(k, e)'
  PROVE  ListTally'
<1>. SUFFICES ASSUME exact' PROVE ListTally'
  BY DEF ListTally
<1>1. ASSUME NEW i \in DOMAIN list', list'[i].thread = open'
      PROVE  /\ VotesShown(list[i].id, list[i].tally)'
             /\ CountRight(list[i].id, list[i].count, list[i].mine)' /\ OwnShown(list[i].id, list[i].mine)'
  <2>1. PICK k, e : k = list'[i].id /\ e = list'[i]
    OBVIOUS
  <2>2. VotesShown(k, e.tally)' /\ CountRight(k, e.count, e.mine)' /\ OwnShown(k, e.mine)'
    BY <1>1, <2>1 DEF Entered
  <2>. QED  BY <2>1, <2>2
<1>. QED  BY <1>1 DEF ListTally

LEMMA EntriesTold ==
  ASSUME MessagesTypes, CompleteInv, TallyInv, exact, heard = open => Told, PendingKept, UNCHANGED <<open, list>>
  PROVE  Unshown(list)' /\ \A i \in DOMAIN list' : list'[i].thread = open =>
           \A k, e : k = list'[i].id /\ e = list'[i] => Entered(k, e)'
<1>1. Told /\ Unshown(list) /\ \A i \in DOMAIN list : list[i].thread = open => Entered(list[i].id, list[i])
  BY ExactFacts
<1>2. PICK l : l = list
  OBVIOUS
<1>3. Unshown(l)'
  BY <1>1, <1>2, UnshownKept
<1>4. ASSUME NEW i \in DOMAIN list', list'[i].thread = open, NEW k, NEW e, k = list'[i].id, e = list'[i]
      PROVE  Entered(k, e)'
  <2>1. k \in OpenIds /\ Entered(k, e)
    BY <1>1, <1>4, ListIsGood DEF OpenIds
  <2>. QED  BY <1>1, <2>1, EntryTold DEF Unshown
<1>. QED  BY <1>2, <1>3, <1>4

\* A step that tells the panel what it must know, and may change its list.
LEMMA TallyStep ==
  ASSUME MessagesTypes, CompleteInv, TallyInv, heard = open => Told,
         UNCHANGED <<heard, mount, open, clean, fetches, older>>, PostedFirst', OwnRequests', exact' => exact,
         exact' => Unshown(list)' /\ \A i \in DOMAIN list' : list'[i].thread = open =>
                     \A k, e : k = list'[i].id /\ e = list'[i] => Entered(k, e)'
  PROVE  TallyInv'
<1>1. FetchTally' /\ OlderTally'
  BY FetchTold, OlderTold DEF CompleteInv, TallyInv
<1>2. ListTally'
  BY ExactFacts, ListShows
<1>. QED  BY <1>1, <1>2 DEF TallyInv

LEMMA TallyTold ==
  ASSUME MessagesTypes, CompleteInv, TallyInv, heard = open => Told,
         UNCHANGED <<heard, mount, open, list, clean, fetches, older>>, PostedFirst', OwnRequests', exact' => exact,
         exact' => PendingKept
  PROVE  TallyInv'
BY EntriesTold, TallyStep

\* Who reacts, counted.
LEMMA ReactCounts ==
  ASSUME NEW e \in Entry, NEW by \in User, NEW add \in BOOLEAN, NEW peer \in BOOLEAN,
         e.count = One(e.mine) + One(peer), by = Peer => add # peer
  PROVE  LET d == React(e, by, add)
         IN /\ d.tally = e.tally
            /\ by = Me => d.mine = add /\ d.count = One(add) + One(peer)
            /\ by = Peer => d.mine = e.mine /\ d.count = One(e.mine) + One(add)
<1>1. e.count \in Nat /\ e.mine \in BOOLEAN /\ by \in {Me, Peer} /\ Me # Peer
  BY MessagesAssumption DEF Entry, User
<1>. DEFINE own == by = Me
            more == [e EXCEPT !.count = @ + 1, !.mine = @ \/ own]
            less == [e EXCEPT !.count = @ - 1, !.mine = @ /\ ~own]
            d == React(e, by, add)
<1>2. One(TRUE) = 1 /\ One(FALSE) = 0
  BY DEF One
<1>3. /\ more.tally = e.tally /\ more.count = e.count + 1 /\ more.mine = (e.mine \/ own)
      /\ less.tally = e.tally /\ less.count = e.count - 1 /\ less.mine = (e.mine /\ ~own)
      /\ [less EXCEPT !.mine = FALSE].tally = e.tally /\ [less EXCEPT !.mine = FALSE].count = e.count - 1
      /\ [less EXCEPT !.mine = FALSE].mine = FALSE
  BY DEF Entry
<1>4. d = IF (own /\ e.mine = add) \/ (~add /\ e.count = 0) THEN e
          ELSE IF add THEN more ELSE IF less.count = 0 THEN [less EXCEPT !.mine = FALSE] ELSE less
  BY DEF React
<1>. HIDE DEF more, less, d
<1>5. CASE by = Me
  <2>1. CASE e.mine = add
    <3>1. d = e
      BY <1>4, <1>5, <2>1
    <3>. QED  BY <1>1, <1>5, <2>1, <3>1 DEF d
  <2>2. CASE e.mine = FALSE /\ add = TRUE
    <3>1. d = more /\ d.mine = TRUE
      BY <1>3, <1>4, <1>5, <2>2
    <3>2. e.count + 1 = One(TRUE) + One(peer)
      BY <1>2, <2>2 DEF One
    <3>. QED  BY <1>1, <1>3, <1>5, <2>2, <3>1, <3>2 DEF d
  <2>3. CASE e.mine = TRUE /\ add = FALSE
    <3>1. e.count = 1 + One(peer) /\ e.count # 0 /\ e.count - 1 = One(peer)
      BY <1>2, <2>3 DEF One
    <3>2. d.tally = e.tally /\ d.count = e.count - 1
      BY <1>3, <1>4, <1>5, <2>3, <3>1
    <3>3. d.mine = FALSE
      BY <1>3, <1>4, <1>5, <2>3, <3>1
    <3>4. One(FALSE) + One(peer) = One(peer)
      BY <1>2 DEF One
    <3>. QED  BY <1>1, <1>5, <2>3, <3>1, <3>2, <3>3, <3>4 DEF d
  <2>. QED  BY <1>1, <2>1, <2>2, <2>3
<1>6. CASE by = Peer
  <2>1. ~own /\ add # peer
    BY <1>1, <1>6
  <2>2. CASE add = TRUE
    <3>0. One(peer) = 0
      BY <2>1, <2>2 DEF One
    <3>1. e.count + 1 = One(e.mine) + One(TRUE)
      <4>1. PICK m \in Nat : m = One(e.mine)
        BY DEF One
      <4>2. e.count = m + 0
        BY <3>0, <4>1
      <4>3. e.count + 1 = m + 1
        BY <4>2
      <4>. QED  BY <1>2, <4>1, <4>3
    <3>2. d = more
      BY <1>4, <2>1, <2>2
    <3>3. d.mine = e.mine
      BY <1>1, <1>3, <2>1, <3>2
    <3>. QED  BY <1>1, <1>3, <1>6, <2>2, <3>1, <3>2, <3>3 DEF d
  <2>3. CASE add = FALSE
    <3>0. One(peer) = 1
      BY <2>1, <2>3 DEF One
    <3>1. e.count # 0 /\ e.count - 1 = One(e.mine) + One(FALSE)
      <4>1. PICK m \in Nat : m = One(e.mine)
        BY DEF One
      <4>2. e.count = m + 1
        BY <3>0, <4>1
      <4>3. e.count # 0 /\ e.count - 1 = m + 0
        BY <4>2
      <4>. QED  BY <1>2, <4>1, <4>3
    <3>2. e.count - 1 = 0 => e.mine = FALSE
      BY <1>1, <1>2, <3>1 DEF One
    <3>3. d.tally = e.tally /\ d.count = e.count - 1
      BY <1>3, <1>4, <2>1, <2>3, <3>1
    <3>4. d.mine = e.mine
      BY <1>1, <1>3, <1>4, <2>1, <2>3, <3>1, <3>2
    <3>. QED  BY <1>1, <1>6, <2>3, <3>1, <3>3, <3>4 DEF d
  <2>. QED  BY <2>2, <2>3
<1>. QED  BY <1>1, <1>5, <1>6

\* An event on the entry of its message.
LEMMA EventOnEntry ==
  ASSUME MessagesTypes, NEW v \in GoodEvent, v.type # "message", NEW i \in DOMAIN list
  PROVE  LET e == list[i]
             d == Applied(v)[i]
         IN /\ DOMAIN Applied(v) = DOMAIN list
            /\ Edits(v, e.id) => d.tally = v.entry.tally /\ d.count = e.count /\ d.mine = e.mine
            /\ v.type = "reaction" /\ v.id = e.id => d = React(e, v.by, v.add)
            /\ ~Edits(v, e.id) /\ ~(v.type = "reaction" /\ v.id = e.id) =>
                 d.tally = e.tally /\ d.count = e.count /\ d.mine = e.mine
<1>1. list[i] \in Entry
  BY ListIsGood
<1>2. CASE v.type = "edited"
  <2>1. Applied(v) = [j \in DOMAIN list |-> IF list[j].id = v.entry.id
                                            THEN [v.entry EXCEPT !.count = list[j].count, !.mine = list[j].mine]
                                            ELSE list[j]]
    BY <1>2 DEF Applied, MapEntry
  <2>2. v.entry \in Entry
    BY <1>2 DEF GoodEvent, GoodEntry
  <2>. QED  BY <1>1, <1>2, <2>1, <2>2 DEF Edits, Entry
<1>3. CASE v.type = "deleted"
  <2>1. Applied(v) = [j \in DOMAIN list |-> IF list[j].id = v.id THEN [list[j] EXCEPT !.deleted = TRUE] ELSE list[j]]
    BY <1>3 DEF Applied, MapEntry
  <2>. QED  BY <1>1, <1>3, <2>1 DEF Edits, Entry
<1>4. CASE v.type = "reaction"
  <2>1. Applied(v) = [j \in DOMAIN list |-> IF list[j].id = v.id THEN React(list[j], v.by, v.add) ELSE list[j]]
    BY <1>4 DEF Applied, MapEntry
  <2>. QED  BY <1>4, <2>1 DEF Edits
<1>. QED  BY <1>2, <1>3, <1>4 DEF GoodEvent, Event

\* The event that is delivered leaves alone a message whose own event comes after it.
LEMMA BlankShifts ==
  ASSUME Shifted, UNCHANGED rows, NEW k, EditTrue(k), Blank(k), ~Edits(Head(events), k),
         \A u \in User : ~Reacts(Head(events), k, u)
  PROVE  Blank(k)'
<1>1. ~Reacts(Head(events), k, Me) /\ ~Reacts(Head(events), k, Peer)
  BY DEF User
<1>2. VotesRight(k, Zero)'
  <2>1. PICK tally : tally = Zero
    OBVIOUS
  <2>2. VotesRight(k, tally)'
    BY <2>1, EditsShift DEF Blank
  <2>. QED  BY <2>1, <2>2 DEF Zero
<1>3. PeerRight(k, FALSE)'
  BY <1>1, PeerShift DEF Blank
<1>4. OwnRight(k, FALSE)'
  BY <1>1, OwnShift DEF Blank, OwnRight
<1>. QED  BY <1>2, <1>3, <1>4 DEF Blank

\* A blank entry, for a message whose event is on its way.
LEMMA BlankEntered ==
  ASSUME NEW k, Blank(k)', NEW e, e.tally = Zero, e.count = 0, e.mine = FALSE
  PROVE  Entered(k, e)'
<1>1. One(FALSE) + One(FALSE) = 0
  BY DEF One
<1>2. VotesRight(k, Zero)' /\ PeerRight(k, FALSE)' /\ OwnRight(k, FALSE)'
  BY DEF Blank
<1>3. VotesShown(k, e.tally)'
  BY <1>2 DEF VotesShown
<1>4. CountRight(k, e.count, e.mine)'
  BY <1>1, <1>2 DEF CountRight
<1>5. OwnShown(k, e.mine)'
  BY <1>2 DEF OwnShown, OwnRight
<1>. QED  BY <1>3, <1>4, <1>5 DEF Entered

\* An entry that the event delivered is not about.
LEMMA EntryShifted ==
  ASSUME MessagesTypes, Shifted, UNCHANGED <<rows, req>>, NEW k, EditTrue(k), NEW e, Entered(k, e),
         ~Edits(Head(events), k), \A u \in User : ~Reacts(Head(events), k, u)
  PROVE  Entered(k, e)'
<1>1. ~Reacts(Head(events), k, Me) /\ ~Reacts(Head(events), k, Peer)
  BY DEF User
<1>2. \A ops : Pending(ops, k) => Pending(ops, k)'
  BY DEF Pending
<1>3. VotesShown(k, e.tally)'
  <2>1. VotesRight(k, e.tally) => VotesRight(k, e.tally)'
    BY EditsShift
  <2>. QED  BY <1>2, <2>1 DEF Entered, VotesShown
<1>4. CountRight(k, e.count, e.mine)'
  <2>1. PICK peer \in BOOLEAN : PeerRight(k, peer) /\ e.count = One(e.mine) + One(peer)
    BY DEF Entered, CountRight
  <2>2. PeerRight(k, peer)'
    BY <1>1, <2>1, PeerShift
  <2>. QED  BY <2>1, <2>2 DEF CountRight
<1>5. OwnShown(k, e.mine)'
  <2>1. OwnTrue(k)' /\ (OwnRight(k, e.mine) => OwnRight(k, e.mine)')
    BY <1>1, OwnShift DEF Entered, OwnShown
  <2>. QED  BY <1>2, <2>1 DEF Entered, OwnShown, OwnRight
<1>. QED  BY <1>3, <1>4, <1>5 DEF Entered

\* No history on its way is current any more.
LEMMA FetchesUncleanTally ==
  ASSUME MessagesTypes, FetchTally, UNCHANGED mount,
         fetches' = [n \in Run |-> IF fetches[n] = NoPage THEN NoPage ELSE [fetches[n] EXCEPT !.clean = FALSE]]
  PROVE  FetchTally'
<1>. SUFFICES ASSUME mount # 0, fetches'[mount] # NoPage PROVE FetchTally'
  BY DEF FetchTally
<1>1. PICK f, g : f = fetches[mount] /\ g = fetches'[mount]
  OBVIOUS
<1>2. mount \in Run
  BY MessagesAssumption DEF MessagesTypes, PanelTypes, Run
<1>3. f # NoPage /\ g = [f EXCEPT !.clean = FALSE]
  BY <1>1, <1>2
<1>4. f \in Page /\ (f.at # "ready" => ~f.exact)
  BY <1>1, <1>2, <1>3 DEF FetchTally, MessagesTypes, PanelTypes, GoodPage
<1>5. ~g.clean /\ (g.at # "ready" => ~g.exact)
  BY <1>3, <1>4 DEF Page
<1>6. fetches'[mount'] = g
  BY <1>1
<1>. QED  BY <1>5, <1>6 DEF FetchTally

\* Entries as an event of their thread leaves them.
LEMMA EntryDelivered ==
  ASSUME MessagesTypes, Deliver, NEW i \in DOMAIN list, NEW k, NEW e, NEW d,
         Head(events).type # "message", k = list[i].id, e = list[i], d = Applied(Head(events))[i],
         EditTrue(k), Entered(k, e), ~(Head(events).type = "reaction" /\ Head(events).vain /\ Head(events).by # Me)
  PROVE  Entered(k, d)'
<1>1. PICK v : v = Head(events)
  OBVIOUS
<1>2. Shifted /\ v \in GoodEvent /\ rows'[k] = rows[k] /\ UNCHANGED req /\ e \in Entry
  BY <1>1, DeliverShifts, ListIsGood
<1>3. /\ Edits(v, k) => d.tally = v.entry.tally /\ d.count = e.count /\ d.mine = e.mine
      /\ v.type = "reaction" /\ v.id = k => d = React(e, v.by, v.add)
      /\ ~Edits(v, k) /\ ~(v.type = "reaction" /\ v.id = k) => d.tally = e.tally /\ d.count = e.count /\ d.mine = e.mine
  BY <1>1, <1>2, EventOnEntry
<1>4. \A ops : Pending(ops, k) => Pending(ops, k)'
  BY <1>2 DEF Pending
<1>5. OwnTrue(k) /\ e.mine \in BOOLEAN
  BY <1>2 DEF Entered, OwnShown, Entry
<1>6. PICK peer \in BOOLEAN : PeerRight(k, peer) /\ e.count = One(e.mine) + One(peer)
  BY DEF Entered, CountRight
<1>7. /\ Edits(v, k) => VotesRight(k, v.entry.tally)'
      /\ ~Edits(v, k) => \A tally : VotesRight(k, tally) => VotesRight(k, tally)'
  <2>1. Edits(v, k) => \A tally : tally = v.entry.tally => VotesRight(k, tally)'
    BY <1>1, <1>2, EditsShift
  <2>. QED  BY <1>1, <1>2, <2>1, EditsShift
<1>8. /\ OwnTrue(k)'
      /\ ~Reacts(v, k, Me) => \A mine : OwnRight(k, mine) => OwnRight(k, mine)'
      /\ Reacts(v, k, Me) => \A mine : (mine <=> v.add) => OwnRight(k, mine)'
  BY <1>1, <1>2, <1>5, OwnShift
<1>9. IF Reacts(v, k, Peer) THEN \A add : add = v.add => PeerRight(k, add)' /\ (add = peer => v.vain) ELSE PeerRight(k, peer)'
  BY <1>1, <1>2, <1>6, PeerShift
<1>10. v.type = "reaction" => v.by \in {Me, Peer} /\ v.add \in BOOLEAN
  BY <1>2 DEF GoodEvent, Event, User
<1>11. Me # Peer
  BY MessagesAssumption
\* Votes.
<1>12. VotesShown(k, e.tally) => VotesRight(k, e.tally) \/ Pending({"vote"}, k)
  BY DEF VotesShown
<1>13. ASSUME d.tally = e.tally, ~Edits(v, k) PROVE VotesShown(k, d.tally)'
  BY <1>4, <1>7, <1>12, <1>13 DEF Entered, VotesShown
<1>14. ASSUME d.mine = e.mine, ~Reacts(v, k, Me) PROVE OwnShown(k, d.mine)'
  <2>1. OwnRight(k, e.mine) \/ Pending({"react", "unreact"}, k)
    BY DEF Entered, OwnShown, OwnRight
  <2>2. OwnRight(k, d.mine)' \/ Pending({"react", "unreact"}, k)'
    BY <1>4, <1>8, <1>14, <2>1
  <2>. QED  BY <1>8, <2>2 DEF OwnShown, OwnRight
<1>15. CASE Edits(v, k)
  <2>1. ~Reacts(v, k, Me) /\ ~Reacts(v, k, Peer)
    BY <1>15 DEF Edits, Reacts
  <2>2. d.tally = v.entry.tally /\ d.count = e.count /\ d.mine = e.mine
    BY <1>3, <1>15
  <2>3. VotesShown(k, d.tally)'
    BY <1>7, <1>15, <2>2 DEF VotesShown
  <2>4. CountRight(k, d.count, d.mine)'
    BY <1>6, <1>9, <2>1, <2>2 DEF CountRight
  <2>. QED  BY <1>14, <2>1, <2>2, <2>3, <2>4 DEF Entered
<1>16. CASE Reacts(v, k, Me)
  <2>1. v.type = "reaction" /\ v.id = k /\ v.by = Me /\ ~Edits(v, k) /\ ~Reacts(v, k, Peer)
    BY <1>11, <1>16 DEF Reacts, Edits
  <2>2. d.tally = e.tally /\ d.mine = v.add /\ d.count = One(v.add) + One(peer)
    BY <1>2, <1>3, <1>6, <1>10, <1>11, <2>1, ReactCounts DEF User
  <2>3. OwnShown(k, d.mine)'
    BY <1>8, <1>16, <2>2 DEF OwnShown, OwnRight
  <2>4. CountRight(k, d.count, d.mine)'
    BY <1>6, <1>9, <2>1, <2>2 DEF CountRight
  <2>. QED  BY <1>13, <2>1, <2>2, <2>3, <2>4 DEF Entered
<1>17. CASE Reacts(v, k, Peer)
  <2>1. v.type = "reaction" /\ v.id = k /\ v.by = Peer /\ ~Edits(v, k) /\ ~Reacts(v, k, Me)
    BY <1>11, <1>17 DEF Reacts, Edits
  <2>2. v.add # peer
    BY <1>1, <1>9, <1>11, <1>17, <2>1
  <2>3. d.tally = e.tally /\ d.mine = e.mine /\ d.count = One(e.mine) + One(v.add)
    BY <1>2, <1>3, <1>6, <1>10, <2>1, <2>2, ReactCounts DEF User
  <2>4. CountRight(k, d.count, d.mine)'
    <3>1. PICK add : add = v.add
      OBVIOUS
    <3>2. PeerRight(k, add)' /\ add \in BOOLEAN /\ d.count = One(d.mine) + One(add)
      BY <1>9, <1>10, <1>17, <2>1, <2>3, <3>1
    <3>. QED  BY <3>2 DEF CountRight
  <2>. QED  BY <1>13, <1>14, <2>1, <2>3, <2>4 DEF Entered
<1>18. CASE ~Edits(v, k) /\ ~Reacts(v, k, Me) /\ ~Reacts(v, k, Peer)
  <2>1. ~(v.type = "reaction" /\ v.id = k)
    BY <1>10, <1>18 DEF Reacts
  <2>2. d.tally = e.tally /\ d.count = e.count /\ d.mine = e.mine
    BY <1>3, <1>18, <2>1
  <2>3. CountRight(k, d.count, d.mine)'
    BY <1>6, <1>9, <1>18, <2>2 DEF CountRight
  <2>. QED  BY <1>13, <1>14, <1>18, <2>2, <2>3 DEF Entered
<1>. QED  BY <1>15, <1>16, <1>17, <1>18

\* One step of the panel or the server at a time: an event is handled.
LEMMA DeliveredTally ==
  ASSUME MessagesTypes, CompleteInv, TallyInv, Deliver
  PROVE  TallyInv'
<1>. DEFINE v == Head(events)
<1>1. /\ Shifted /\ v \in GoodEvent
      /\ UNCHANGED <<rows, req, heard, mount, open, loading, hasMore, clean>>
  BY DeliverShifts
<1>2. PostedFirst' /\ OwnRequests' /\ NoNewAnswer /\ PendingKept
  BY <1>1, PostedFirstKept, OwnRequestsKept, MovedIsNoAnswer, CarriedIsKept DEF TallyInv
<1>3. CASE EventThread(v) # open
  <2>1. UNCHANGED <<list, fetches, older, exact>>
    BY <1>3 DEF Deliver
  <2>2. heard = open => Told
    BY <1>1, <1>2, <1>3 DEF Told, NoNewAnswer
  <2>. QED  BY <1>1, <1>2, <2>1, <2>2, TallyTold
<1>4. CASE EventThread(v) = open
  <2>1. /\ list' = Applied(v)
        /\ fetches' = [n \in Run |-> IF fetches[n] = NoPage THEN NoPage ELSE [fetches[n] EXCEPT !.clean = FALSE]]
        /\ older' = IF older # NoPage /\ older.at = "ready" THEN [older EXCEPT !.clean = FALSE] ELSE older
        /\ exact' = (exact /\ ~(v.type = "reaction" /\ v.vain /\ v.by # Me))
    BY <1>4 DEF Deliver
  <2>2. FetchTally'
    BY <1>1, <2>1, FetchesUncleanTally DEF TallyInv
  <2>3. OlderTally'
    <3>1. PICK p, g : p = older /\ g = older'
      OBVIOUS
    <3>2. p # NoPage => p \in OlderPage
      BY <3>1 DEF MessagesTypes, PanelTypes, GoodOlder
    <3>3. CASE p # NoPage /\ p.at = "ready"
      <4>1. g = [p EXCEPT !.clean = FALSE]
        BY <2>1, <3>1, <3>3
      <4>2. ~g.clean
        BY <3>2, <3>3, <4>1 DEF OlderPage
      <4>. QED  BY <3>1, <4>2 DEF OlderTally
    <3>4. CASE p = NoPage \/ p.at # "ready"
      <4>1. g = p
        BY <2>1, <3>1, <3>4
      <4>. QED  BY <3>1, <3>4, <4>1 DEF OlderTally
    <3>. QED  BY <3>3, <3>4
  <2>4. ListTally'
    <3>. SUFFICES ASSUME exact' PROVE ListTally'
      BY DEF ListTally
    <3>1. /\ exact /\ ~(v.type = "reaction" /\ v.vain /\ v.by # Me) /\ clean' /\ heard = open
          /\ Full(list) /\ Unshown(list)
          /\ \A i \in DOMAIN list : list[i].thread = open => Entered(list[i].id, list[i])
      BY <1>1, <2>1, ExactFacts
    <3>2. /\ Len(events) \in Nat \ {0} /\ DOMAIN events = 1 .. Len(events) /\ events[1] = v /\ 1 \in DOMAIN events
          /\ \A p \in DOMAIN events' : p + 1 \in DOMAIN events /\ events'[p] = events[p + 1]
      BY <1>1, ShiftKeeps
    <3>3. OpenIds' = OpenIds
      BY <1>1 DEF OpenIds
    <3>4. \A k \in OpenIds' : EditTrue(k)'
      BY <1>1, <3>1, <3>3, EditsShift DEF Unshown
    <3>. HIDE DEF v
    <3>5. ASSUME NEW k \in Flying'
          PROVE  k \in Flying /\ k \in OpenIds /\ ~Edits(v, k) /\ \A u \in User : ~Reacts(v, k, u)
      <4>1. PICK p \in DOMAIN events' : events'[p].type = "message" /\ events'[p].entry.id = k
        BY DEF Flying
      <4>2. p + 1 \in DOMAIN events /\ 1 < p + 1 /\ events[p + 1].type = "message" /\ events[p + 1].entry.id = k
        <5>1. p \in 1 .. Len(events) - 1 /\ Len(events) \in Nat
          BY <1>1, <4>1, ShiftKeeps
        <5>2. 1 < p + 1
          BY <5>1
        <5>. QED  BY <3>2, <4>1, <5>2
      <4>3. k \in OpenIds /\ k \in Flying
        BY <3>3, <4>2 DEF Flying
      <4>. QED  BY <3>2, <4>2, <4>3 DEF TallyInv, PostedFirst
    <3>6. ASSUME NEW k \in OpenIds, EditTrue(k), Blank(k), ~Edits(v, k), \A u \in User : ~Reacts(v, k, u)
          PROVE  Blank(k)'
      BY <1>1, <3>6, BlankShifts DEF v
    <3>7. ThreadIds(list) \subseteq ThreadIds(list)' /\ (v.type # "message" => SameMessages(list, list'))
      <4>1. AppliedTo(v, list')
        BY <1>1, <2>1, AppliedIsApplied DEF v
      <4>2. CASE v.type = "message"
        <5>1. v.entry \in GoodEntry /\ Inserted(v.entry, list')
          BY <1>1, <4>1, <4>2 DEF GoodEvent, AppliedTo, v
        <5>. QED  BY <1>1, <4>2, <5>1, InsertedAdds
      <4>3. CASE v.type # "message"
        <5>1. SameMessages(list, list')
          BY <1>1, <4>1, <4>3 DEF AppliedTo, Marked, Untouched, SameMessage, SameMessages, GoodEvent, Event, v
        <5>2. ThreadIds(list') = ThreadIds(list)
          BY <5>1, SameThreadIds
        <5>. QED  BY <1>1, <5>1, <5>2 DEF ThreadIds
      <4>. QED  BY <4>2, <4>3
    <3>8. Unshown(list)'
      <4>1. ASSUME NEW k \in Flying', k \notin ThreadIds(list)'
            PROVE  Blank(k)'
        <5>1. k \in OpenIds /\ Blank(k) /\ EditTrue(k)
          BY <3>1, <3>5, <3>7, <4>1 DEF Unshown
        <5>. QED  BY <3>5, <3>6, <4>1, <5>1
      <4>. QED  BY <3>4, <4>1 DEF Unshown
    <3>9. ASSUME NEW i \in DOMAIN list', list'[i].thread = open, NEW k, NEW d, k = list'[i].id, d = list'[i]
          PROVE  Entered(k, d)'
      <4>1. CASE v.type # "message"
        <5>1. i \in DOMAIN list /\ k = list[i].id /\ list[i].thread = open
          BY <3>7, <3>9, <4>1 DEF SameMessages
        <5>2. PICK e : e = list[i]
          OBVIOUS
        <5>3. k \in OpenIds /\ Entered(k, e)
          BY <3>1, <5>1, <5>2, ListIsGood DEF OpenIds
        <5>4. EditTrue(k)
          BY <3>1, <5>3 DEF Unshown
        <5>5. d = Applied(v)[i]
          BY <2>1, <3>9
        <5>. QED  BY <3>1, <4>1, <5>1, <5>2, <5>3, <5>4, <5>5, EntryDelivered DEF v
      <4>2. CASE v.type = "message"
        <5>1. Inserted(v.entry, list') /\ v.entry \in GoodEntry
          BY <1>1, <2>1, <4>2, AppliedIsApplied DEF AppliedTo, GoodEvent, v
        <5>2. \A j \in OpenIds : ~Edits(v, j) /\ \A u \in User : ~Reacts(v, j, u)
          BY <4>2 DEF Edits, Reacts
        <5>3. ASSUME NEW j \in DOMAIN list, d = list[j]
              PROVE  Entered(k, d)'
          <6>1. k \in OpenIds /\ Entered(k, d)
            BY <3>1, <3>9, <5>3, ListIsGood DEF OpenIds
          <6>2. EditTrue(k)
            BY <3>1, <6>1 DEF Unshown
          <6>. QED  BY <1>1, <1>2, <3>1, <4>2, <5>2, <6>1, <6>2, EntryShifted DEF v
        <5>4. ASSUME d = v.entry, \A j \in DOMAIN list : list[j].id # v.entry.id
              PROVE  Entered(k, d)'
          <6>1. d.tally = Zero /\ d.count = 0 /\ d.mine = FALSE
            BY <3>2, <4>2, <5>4 DEF TallyInv, PostedFirst
          <6>2. k \in OpenIds
            BY <3>9, <5>1, <5>4 DEF OpenIds, GoodEntry
          <6>3. k \in Flying /\ k \notin ThreadIds(list)
            BY <3>2, <3>9, <4>2, <5>4, <6>2 DEF Flying, ThreadIds
          <6>4. Blank(k) /\ EditTrue(k)
            BY <3>1, <6>2, <6>3 DEF Unshown
          <6>5. Blank(k)'
            BY <3>6, <5>2, <6>2, <6>4
          <6>. QED  BY <6>1, <6>5, BlankEntered
        <5>5. \/ \E j \in DOMAIN list : d = list[j]
              \/ d = v.entry /\ \A j \in DOMAIN list : list[j].id # v.entry.id
          <6>1. CASE list' = list
            BY <3>9, <6>1
          <6>2. CASE /\ DOMAIN list' = 1 .. Len(list) + 1 /\ list'[Len(list) + 1] = v.entry
                     /\ \A j \in DOMAIN list : list'[j] = list[j] /\ list[j].id # v.entry.id
            <7>1. DOMAIN list' = DOMAIN list \cup {Len(list) + 1}
              BY <6>2, ListIsGood
            <7>. QED  BY <3>9, <6>2, <7>1
          <6>. QED  BY <5>1, <6>1, <6>2 DEF Inserted
        <5>. QED  BY <5>3, <5>4, <5>5
      <4>. QED  BY <4>1, <4>2
    <3>10. ASSUME NEW i \in DOMAIN list', list'[i].thread = open
           PROVE  /\ VotesShown(list[i].id, list[i].tally)'
                  /\ CountRight(list[i].id, list[i].count, list[i].mine)' /\ OwnShown(list[i].id, list[i].mine)'
      <4>1. PICK k, d : k = list'[i].id /\ d = list'[i]
        OBVIOUS
      <4>2. VotesShown(k, d.tally)' /\ CountRight(k, d.count, d.mine)' /\ OwnShown(k, d.mine)'
        BY <3>9, <3>10, <4>1 DEF Entered
      <4>. QED  BY <4>1, <4>2
    <3>. QED  BY <1>1, <3>1, <3>8, <3>10 DEF ListTally
  <2>. QED  BY <1>2, <2>2, <2>3, <2>4 DEF TallyInv
<1>. QED  BY <1>3, <1>4

\* A request of the panel about a message that it shows.
LEMMA AskPends ==
  ASSUME MessagesTypes, NEW r \in PanelReq, NEW id \in DOMAIN rows, NEW op \in Updates \ {"edit"},
         NEW arg \in Option \cup {NoThread}, op = "vote" => arg \in Option,
         Begin(r, Frame(op, Me, rows[id].thread, id, arg, NoVotes, "sent")), NEW ops, op \in ops
  PROVE  Pending(ops, id)'
<1>1. PICK q : q = Frame(op, Me, rows[id].thread, id, arg, NoVotes, "sent")
  OBVIOUS
<1>2. q \in Request /\ q # Idle
  <2>1. q \in GoodRequest
    BY <1>1, AskingForOne
  <2>. QED  BY <2>1, IdleAssumption DEF GoodRequest
<1>3. q.op = op /\ q.id = id /\ q.at = "sent"
  BY <1>1 DEF Frame
<1>4. req'[r] = q
  BY <1>1 DEF Begin, MessagesTypes, TableTypes, Req
<1>. QED  BY <1>2, <1>3, <1>4 DEF Pending

\* What the panel asks for changes, of what it shows, at most what is then pending.
LEMMA AskedTally ==
  ASSUME MessagesTypes, CompleteInv, TallyInv, NEW r \in PanelReq, Asked(r), NoNewAnswer, Handled(r), Carried(r),
         \A i \in DOMAIN list : exact /\ list[i].thread = open =>
           \A k, e, d : k = list[i].id /\ e = list[i] /\ d = list'[i] /\ Entered(k, e) /\ Entered(k, e)' => Entered(k, d)'
  PROVE  TallyInv'
<1>1. /\ UNCHANGED <<rows, events, heard, mount, open, loading, hasMore, clean, exact, fetches, older>>
      /\ Untouched(list')
  BY DEF Asked, socket, history
<1>2. heard = open => Told
  BY <1>1 DEF Told, NoNewAnswer
<1>3. r \in Req
  BY DEF Req
<1>4. PostedFirst' /\ OwnRequests' /\ PendingKept
  BY <1>1, <1>3, PostedFirstKept, OwnRequestsKept, CarriedIsKept DEF TallyInv
<1>5. SameMessages(list, list')
  BY <1>1 DEF Untouched, SameMessage, SameMessages
<1>6. ASSUME exact'
      PROVE  Unshown(list)' /\ \A i \in DOMAIN list' : list'[i].thread = open =>
               \A k, e : k = list'[i].id /\ e = list'[i] => Entered(k, e)'
  <2>1. Told /\ Unshown(list) /\ \A i \in DOMAIN list : list[i].thread = open => Entered(list[i].id, list[i])
    BY <1>1, <1>2, <1>6, ExactFacts
  <2>2. PICK l, m : l = list /\ m = list'
    OBVIOUS
  <2>3. Unshown(l)'
    BY <2>1, <2>2, UnshownKept
  <2>4. ThreadIds(m)' = ThreadIds(l)'
    <3>1. ThreadIds(m) = ThreadIds(l)
      BY <1>5, <2>2, SameThreadIds
    <3>. QED  BY <1>1, <3>1 DEF ThreadIds
  <2>5. Unshown(m)'
    BY <2>3, <2>4 DEF Unshown
  <2>6. ASSUME NEW i \in DOMAIN list', list'[i].thread = open, NEW k, NEW d, k = list'[i].id, d = list'[i]
        PROVE  Entered(k, d)'
    <3>1. i \in DOMAIN list /\ list[i].thread = open /\ k = list[i].id
      BY <1>5, <2>6 DEF SameMessages
    <3>2. PICK e : e = list[i]
      OBVIOUS
    <3>3. k \in OpenIds /\ Entered(k, e) /\ EditTrue(k)
      BY <2>1, <3>1, <3>2, ListIsGood DEF OpenIds, Unshown
    <3>4. Entered(k, e)'
      BY <1>4, <2>1, <3>3, EntryTold
    <3>. QED  BY <1>1, <1>6, <2>6, <3>1, <3>2, <3>3, <3>4
  <2>. QED  BY <2>2, <2>5, <2>6
<1>. QED  BY <1>1, <1>2, <1>4, <1>6, TallyStep

\* The entry of a message of the thread that is open is the only one.
LEMMA OnlyEntry ==
  ASSUME MessagesTypes, Full(list), NEW i \in DOMAIN list, list[i].thread = open, NEW j \in DOMAIN list, list[j].id = list[i].id
  PROVE  j = i
<1>1. list[j].thread = open
  BY ListIsGood
<1>. QED  BY <1>1 DEF Full

LEMMA PinnedTally ==
  ASSUME MessagesTypes, CompleteInv, TallyInv, NEW r \in PanelReq, NEW id, Pin(r, id) \/ Delete(r, id)
  PROVE  TallyInv'
<1>1. Asked(r) /\ NoNewAnswer /\ Handled(r) /\ Carried(r)
  BY PinAsks, AskedIsMoved, MovedIsNoAnswer, AskedIsHandled
<1>2. list' = MapEntry(id, LAMBDA e : e)
  BY DEF Pin, Delete, Ask
<1>3. \A i \in DOMAIN list : list'[i] = list[i]
  BY <1>2 DEF MapEntry
<1>. QED  BY <1>1, <1>3, AskedTally

\* One's own reaction, shown before it is sent.
LEMMA ToggledTally ==
  ASSUME MessagesTypes, CompleteInv, TallyInv, NEW r \in PanelReq, NEW id, ToggleReaction(r, id)
  PROVE  TallyInv'
<1>1. Asked(r) /\ NoNewAnswer /\ Handled(r) /\ Carried(r)
  BY ToggleAsks, AskedIsMoved, MovedIsNoAnswer, AskedIsHandled
<1>2. UNCHANGED <<rows, events>>
  BY <1>1 DEF Asked, socket
<1>3. id \in DOMAIN rows
  BY ShownExists DEF ToggleReaction, Ask
<1>4. Pending({"react", "unreact"}, id)'
  <2>1. ASSUME NEW op \in {"react", "unreact"}, Begin(r, Frame(op, Me, rows[id].thread, id, NoThread, NoVotes, "sent"))
        PROVE  Pending({"react", "unreact"}, id)'
    <3>1. op \in Updates \ {"edit"} /\ op # "vote"
      BY DEF Updates
    <3>. QED  BY <1>3, <2>1, <3>1, AskPends
  <2>. QED  BY <2>1 DEF ToggleReaction, Ask
<1>5. ASSUME exact, NEW i \in DOMAIN list, list[i].thread = open, NEW k, NEW e, NEW d, k = list[i].id, e = list[i], d = list'[i],
             Entered(k, e), Entered(k, e)'
      PROVE  Entered(k, d)'
  <2>0. Full(list) /\ e \in Entry
    BY <1>5, ExactFacts, ListIsGood
  <2>1. CASE k # id
    <3>1. d = e
      BY <1>5, <2>1 DEF ToggleReaction, Ask, MapEntry
    <3>. QED  BY <1>5, <3>1
  <2>2. CASE k = id
    <3>1. \A j \in DOMAIN list : list[j].id = id => j = i
      BY <1>5, <2>0, <2>2, OnlyEntry
    <3>2. PICK peer \in BOOLEAN : PeerRight(k, peer)' /\ e.count = One(e.mine) + One(peer)
      BY <1>5 DEF Entered, CountRight
    <3>3. PICK n \in Nat : n = One(peer)
      BY DEF One
    <3>4. One(TRUE) = 1 /\ One(FALSE) = 0
      BY DEF One
    <3>5. d.tally = e.tally /\ d.count = One(d.mine) + n
      <4>1. CASE /\ \E j \in DOMAIN list : list[j].id = id /\ list[j].mine
                 /\ list' = MapEntry(id, LAMBDA x : IF x.count = 0 THEN x ELSE [x EXCEPT !.count = @ - 1, !.mine = FALSE])
        <5>1. e.mine = TRUE
          BY <1>5, <2>0, <3>1, <4>1 DEF Entry
        <5>2. e.count = 1 + n
          BY <3>2, <3>3, <3>4, <5>1
        <5>3. e.count # 0 /\ e.count - 1 = 0 + n
          BY <5>2
        <5>4. d = [e EXCEPT !.count = @ - 1, !.mine = FALSE]
          BY <1>5, <2>2, <4>1, <5>3 DEF MapEntry
        <5>5. d.tally = e.tally /\ d.count = e.count - 1 /\ d.mine = FALSE
          BY <2>0, <5>4 DEF Entry
        <5>. QED  BY <3>4, <5>3, <5>5
      <4>2. CASE /\ \E j \in DOMAIN list : list[j].id = id /\ ~list[j].mine
                 /\ list' = MapEntry(id, LAMBDA x : [x EXCEPT !.count = @ + 1, !.mine = TRUE])
        <5>1. e.mine = FALSE
          BY <1>5, <2>0, <3>1, <4>2 DEF Entry
        <5>2. e.count = 0 + n
          BY <3>2, <3>3, <3>4, <5>1
        <5>3. e.count + 1 = 1 + n
          BY <5>2
        <5>4. d = [e EXCEPT !.count = @ + 1, !.mine = TRUE]
          BY <1>5, <2>2, <4>2 DEF MapEntry
        <5>5. d.tally = e.tally /\ d.count = e.count + 1 /\ d.mine = TRUE
          BY <2>0, <5>4 DEF Entry
        <5>. QED  BY <3>4, <5>3, <5>5
      <4>. QED  BY <4>1, <4>2 DEF ToggleReaction, Ask
    <3>6. VotesShown(k, d.tally)' /\ OwnTrue(k)'
      BY <1>5, <3>5 DEF Entered, OwnShown
    <3>7. CountRight(k, d.count, d.mine)'
      BY <3>2, <3>3, <3>5 DEF CountRight
    <3>8. OwnShown(k, d.mine)'
      BY <1>4, <2>2, <3>6 DEF OwnShown
    <3>. QED  BY <3>6, <3>7, <3>8 DEF Entered
  <2>. QED  BY <2>1, <2>2
<1>. QED  BY <1>1, <1>5, AskedTally

\* One's own vote, shown before it is sent.
LEMMA VotedTally ==
  ASSUME MessagesTypes, CompleteInv, TallyInv, NEW r \in PanelReq, NEW id, NEW o \in Option, HandleVote(r, id, o)
  PROVE  TallyInv'
<1>1. Asked(r) /\ NoNewAnswer /\ Handled(r) /\ Carried(r)
  BY VoteAsks, AskedIsMoved, MovedIsNoAnswer, AskedIsHandled
<1>2. id \in DOMAIN rows
  BY ShownExists DEF HandleVote
<1>3. Pending({"vote"}, id)'
  <2>1. Begin(r, Frame("vote", Me, rows[id].thread, id, o, NoVotes, "sent"))
    BY DEF HandleVote, Ask
  <2>2. "vote" \in Updates \ {"edit"}
    BY DEF Updates
  <2>. QED  BY <1>2, <2>1, <2>2, AskPends
<1>4. list' = MapEntry(id, LAMBDA e :
           IF e.myVote = o THEN [e EXCEPT !.tally[o] = Dec(@), !.myVote = NoVote]
           ELSE [e EXCEPT !.tally = [p \in Option |-> IF p = o THEN @[p] + 1
                                                      ELSE IF p = e.myVote THEN Dec(@[p]) ELSE @[p]],
                          !.myVote = o])
  BY DEF HandleVote, Ask
<1>5. ASSUME NEW i \in DOMAIN list, NEW k, NEW e, NEW d, k = list[i].id, e = list[i], d = list'[i],
             Entered(k, e)'
      PROVE  Entered(k, d)'
  <2>1. CASE k # id
    <3>1. d = e
      BY <1>4, <1>5, <2>1 DEF MapEntry
    <3>. QED  BY <1>5, <3>1
  <2>2. CASE k = id
    <3>0. e \in Entry
      BY <1>5, ListIsGood
    <3>1. d = IF e.myVote = o THEN [e EXCEPT !.tally[o] = Dec(@), !.myVote = NoVote]
              ELSE [e EXCEPT !.tally = [p \in Option |-> IF p = o THEN @[p] + 1
                                                         ELSE IF p = e.myVote THEN Dec(@[p]) ELSE @[p]],
                             !.myVote = o]
      BY <1>4, <1>5, <2>2 DEF MapEntry
    <3>2. d.count = e.count /\ d.mine = e.mine
      BY <3>0, <3>1 DEF Entry
    <3>3. VotesShown(k, d.tally)'
      BY <1>3, <2>2 DEF VotesShown
    <3>. QED  BY <1>5, <3>2, <3>3 DEF Entered
  <2>. QED  BY <2>1, <2>2
<1>. QED  BY <1>1, <1>5, AskedTally

\* The answer to a message that was sent adds it as it was posted; the others change no tally.
LEMMA AnsweredTally ==
  ASSUME MessagesTypes, CompleteInv, TallyInv, NEW r \in PanelReq, Answered(r)
  PROVE  TallyInv'
<1>1. PICK q : q = req[r]
  OBVIOUS
<1>2. UNCHANGED <<rows, events, heard, mount, open, loading, hasMore, clean, exact, fetches, older>> /\ r \in Req
  BY DEF Answered, socket, history, Req
<1>3. /\ q \in GoodRequest /\ q # Idle /\ q.at = "answered" /\ AnsweredTo(q, list') /\ list' \in Seq(GoodEntry)
      /\ q.id \in DOMAIN rows /\ q.thread = rows[q.id].thread
  BY <1>1, AnswerIsUsed DEF Answered, AnsweredTo, GoodRequest
<1>4. NoNewAnswer /\ Handled(r) /\ Carried(r)
  BY <1>2, RequestMoved, MovedIsNoAnswer, MovedIsHandled
<1>5. PostedFirst' /\ OwnRequests' /\ PendingKept
  BY <1>2, <1>4, PostedFirstKept, OwnRequestsKept, CarriedIsKept DEF TallyInv
<1>6. heard = open => Told
  BY <1>2, <1>4 DEF Told, NoNewAnswer
<1>7. PICK l, m : l = list /\ m = list'
  OBVIOUS
<1>8. /\ ThreadIds(l) \subseteq ThreadIds(m)
      /\ \A i \in DOMAIN m : m[i].thread = open =>
           \/ \E j \in DOMAIN l : /\ l[j].thread = open /\ l[j].id = m[i].id /\ l[j].tally = m[i].tally
                                  /\ l[j].count = m[i].count /\ l[j].mine = m[i].mine
           \/ /\ q.op = "send" /\ m[i].id = q.id /\ q.id \notin ThreadIds(l) /\ q.thread = open
              /\ m[i].tally = Zero /\ m[i].count = 0 /\ m[i].mine = FALSE
  <2>1. CASE q.op = "send"
    <3>. DEFINE row == [FirstRow(q.thread, Me) EXCEPT !.body = q.arg]
    <3>1. PICK e : e = ToDTO(q.id, row, Me)
      OBVIOUS
    <3>2. list' = Insert(e)
      BY <1>1, <2>1, <3>1 DEF Answered
    <3>3. e.id = q.id /\ e.thread = q.thread /\ e.tally = Zero /\ e.count = 0 /\ e.mine = FALSE
      BY <3>1 DEF ToDTO, FirstRow, Zero
    <3>4. PICK d \in GoodEntry : d.id = q.id /\ ~d.deleted /\ Inserted(d, list')
      BY <1>3, <2>1 DEF AnsweredTo
    <3>5. CASE \E j \in DOMAIN list : list[j].id = e.id
      <4>1. m = l
        BY <1>7, <3>2, <3>5 DEF Insert
      <4>. QED  BY <4>1
    <3>6. CASE \A j \in DOMAIN list : list[j].id # e.id
      <4>1. m = Append(l, e)
        BY <1>7, <3>2, <3>6 DEF Insert
      <4>2. l \in Seq(GoodEntry) /\ DOMAIN l = 1 .. Len(l) /\ Len(l) \in Nat
        BY <1>7, ListIsGood
      <4>3. /\ DOMAIN m = DOMAIN l \cup {Len(l) + 1} /\ m[Len(l) + 1] = e
            /\ \A j \in DOMAIN l : m[j] = l[j]
        BY <4>1, <4>2
      <4>4. q.id \notin ThreadIds(l)
        BY <1>7, <3>3, <3>6 DEF ThreadIds
      <4>. QED  BY <2>1, <3>3, <4>3, <4>4 DEF ThreadIds
    <3>. QED  BY <3>5, <3>6
  <2>2. CASE q.op = "delete"
    <3>1. list' = MapEntry(q.id, LAMBDA e : [e EXCEPT !.deleted = TRUE])
      BY <1>1, <2>2 DEF Answered
    <3>2. m = [i \in DOMAIN l |-> IF l[i].id = q.id THEN [l[i] EXCEPT !.deleted = TRUE] ELSE l[i]]
      BY <1>7, <3>1 DEF MapEntry
    <3>3. \A i \in DOMAIN l : l[i] \in Entry
      BY <1>7, ListIsGood
    <3>4. /\ DOMAIN m = DOMAIN l
          /\ \A i \in DOMAIN l : /\ m[i].thread = l[i].thread /\ m[i].id = l[i].id /\ m[i].tally = l[i].tally
                                 /\ m[i].count = l[i].count /\ m[i].mine = l[i].mine
      BY <3>2, <3>3 DEF Entry
    <3>. QED  BY <3>4 DEF ThreadIds
  <2>3. CASE q.op \notin {"send", "delete"}
    <3>1. m = l
      BY <1>3, <1>7, <2>3 DEF AnsweredTo
    <3>. QED  BY <3>1
  <2>. QED  BY <2>1, <2>2, <2>3
<1>9. ASSUME exact'
      PROVE  Unshown(list)' /\ \A i \in DOMAIN list' : list'[i].thread = open =>
               \A k, e : k = list'[i].id /\ e = list'[i] => Entered(k, e)'
  <2>1. Told /\ Full(l) /\ Unshown(l) /\ \A i \in DOMAIN l : l[i].thread = open => Entered(l[i].id, l[i])
    BY <1>2, <1>6, <1>7, <1>9, ExactFacts
  <2>2. Unshown(l)'
    BY <2>1, UnshownKept
  <2>3. ThreadIds(l)' = ThreadIds(l) /\ ThreadIds(m)' = ThreadIds(m)
    BY <1>2 DEF ThreadIds
  <2>4. Unshown(m)'
    BY <1>8, <2>2, <2>3 DEF Unshown
  <2>5. ASSUME NEW i \in DOMAIN m, m[i].thread = open, NEW k, NEW d, k = m[i].id, d = m[i]
        PROVE  Entered(k, d)'
    <3>1. ASSUME NEW j \in DOMAIN l, l[j].thread = open, l[j].id = k,
                 l[j].tally = d.tally, l[j].count = d.count, l[j].mine = d.mine
          PROVE  Entered(k, d)'
      <4>1. PICK e : e = l[j]
        OBVIOUS
      <4>2. k \in OpenIds /\ Entered(k, e) /\ EditTrue(k)
        BY <1>7, <2>1, <3>1, <4>1, ListIsGood DEF OpenIds, Unshown
      <4>3. Entered(k, e)'
        BY <1>5, <2>1, <4>2, EntryTold
      <4>. QED  BY <3>1, <4>1, <4>3 DEF Entered
    <3>2. ASSUME q.op = "send", k = q.id, q.id \notin ThreadIds(l), q.thread = open,
                 d.tally = Zero, d.count = 0, d.mine = FALSE
          PROVE  Entered(k, d)'
      <4>1. SendAnswered(r) /\ req[r].id = k /\ req[r].thread = open
        BY <1>1, <1>3, <3>2 DEF SendAnswered
      <4>2. k \in Flying /\ k \in OpenIds
        BY <1>3, <2>1, <3>2, <4>1 DEF Full, AnswersKnown, OpenIds
      <4>3. Blank(k) /\ EditTrue(k)
        BY <2>1, <3>2, <4>2 DEF Unshown
      <4>4. Blank(k)'
        BY <2>1, <4>2, <4>3, TalliesTold DEF Blank
      <4>. QED  BY <3>2, <4>4, BlankEntered
    <3>. QED  BY <1>8, <2>5, <3>1, <3>2
  <2>. QED  BY <1>7, <2>4, <2>5
<1>. QED  BY <1>2, <1>5, <1>6, <1>9, TallyStep

\* A message is created or changed.
LEMMA WrittenTally ==
  ASSUME MessagesTypes, CompleteInv, TallyInv, NEW r \in Req, Create(r) \/ Update(r)
  PROVE  TallyInv'
<1>1. UNCHANGED <<heard, mount, open, list, loading, hasMore, clean, exact, fetches, older>>
  BY DEF Create, Update, panel, history
<1>2. Handled(r)
  BY MovedIsHandled
<1>3. OwnRequests'
  BY <1>2, OwnRequestsKept DEF TallyInv
<1>4. CASE Create(r)
  <2>1. PICK id \in Nat : \E t, v : Posted(id, t, v)
    BY <1>4, CreatePosts
  <2>2. PICK t, v : Posted(id, t, v)
    BY <2>1
  <2>3. heard = open => NewAnswerTold
    BY <1>1, <1>4, <2>2, AnswerIsTold
  <2>4. heard = open => Told
    BY <1>1, <2>2, <2>3 DEF Told, NewAnswerTold
  <2>5. PostedFirst'
    BY <2>1, PostedFirstKept DEF TallyInv
  <2>6. PendingKept
    BY <1>4, MovedIsHandled, CarriedIsKept
  <2>. QED  BY <1>1, <1>3, <2>4, <2>5, <2>6, TallyTold
<1>5. CASE Update(r)
  <2>1. PICK id \in DOMAIN rows : \E t, v : Amended(id, t, v)
    BY <1>5, UpdateAmends
  <2>2. PICK t, v : Amended(id, t, v)
    BY <2>1
  <2>3. NoNewAnswer
    BY <1>5, UpdateIsNoAnswer
  <2>4. heard = open => Told
    BY <1>1, <2>2, <2>3 DEF Told, NoNewAnswer
  <2>5. PostedFirst'
    BY <2>1, PostedFirstKept DEF TallyInv
  <2>6. exact' => PendingKept
    <3>. SUFFICES ASSUME exact' PROVE PendingKept
      OBVIOUS
    <3>1. heard = open
      BY <1>1, ExactFacts
    <3>. QED  BY <1>5, <3>1, UpdateIsTold DEF PendingKept, TallyInv
  <2>. QED  BY <1>1, <1>3, <2>4, <2>5, <2>6, TallyTold
<1>. QED  BY <1>4, <1>5

\* Tallies as they are read.
LEMMA ReactedCount ==
  ASSUME NEW S \in SUBSET User
  PROVE  Cardinality(S) = One(Me \in S) + One(Peer \in S)
<1>1. Me # Peer
  BY MessagesAssumption
<1>2. One(TRUE) = 1 /\ One(FALSE) = 0
  BY DEF One
<1>3. /\ Cardinality({Me}) = 1 /\ Cardinality({Peer}) = 1 /\ Cardinality({}) = 0 /\ IsFiniteSet({Me})
  BY FS_Singleton, FS_EmptySet
<1>4. Cardinality({Me, Peer}) = 2
  <2>1. Cardinality({Me} \cup {Peer}) = Cardinality({Me}) + 1
    BY <1>1, <1>3, FS_AddElement
  <2>2. {Me} \cup {Peer} = {Me, Peer}
    OBVIOUS
  <2>. QED  BY <1>3, <2>1, <2>2
<1>5. CASE Me \in S /\ Peer \in S
  <2>1. S = {Me, Peer}
    BY <1>5 DEF User
  <2>. QED  BY <1>2, <1>4, <1>5, <2>1 DEF One
<1>6. CASE Me \in S /\ Peer \notin S
  <2>1. S = {Me}
    BY <1>6 DEF User
  <2>. QED  BY <1>2, <1>3, <1>6, <2>1 DEF One
<1>7. CASE Me \notin S /\ Peer \in S
  <2>1. S = {Peer}
    BY <1>7 DEF User
  <2>. QED  BY <1>2, <1>3, <1>7, <2>1 DEF One
<1>8. CASE Me \notin S /\ Peer \notin S
  <2>1. S = {}
    BY <1>8 DEF User
  <2>. QED  BY <1>2, <1>3, <1>8, <2>1 DEF One
<1>. QED  BY <1>5, <1>6, <1>7, <1>8

\* A history is read with its votes, and then with its reactions.
LEMMA VotesRead ==
  ASSUME NEW t, NEW below
  PROVE  PageVotes(History(t, below))
BY DEF PageVotes, VotesRight, History, ToDTO

LEMMA AttachedEntry ==
  ASSUME MessagesTypes, NEW s \in Seq(GoodEntry), NEW i \in DOMAIN s
  PROVE  LET a == AttachReactions(s)[i]
             reacted == rows[s[i].id].reacted
         IN /\ a.id = s[i].id /\ a.thread = s[i].thread /\ a.tally = s[i].tally
            /\ a.count = One(Me \in reacted) + One(Peer \in reacted) /\ a.mine = (Me \in reacted)
<1>1. s[i] \in Entry /\ s[i].id \in DOMAIN rows
  BY ElementOfSeq, LenProperties DEF GoodEntry
<1>2. PICK reacted : reacted = rows[s[i].id].reacted
  OBVIOUS
<1>3. reacted \in SUBSET User
  BY <1>1, <1>2, RowsAreRows DEF Row
<1>4. PICK n, mine : n = Cardinality(reacted) /\ mine = (Me \in reacted)
  OBVIOUS
<1>5. AttachReactions(s)[i] = [s[i] EXCEPT !.count = n, !.mine = mine]
  BY <1>2, <1>4 DEF AttachReactions
<1>6. n = One(Me \in reacted) + One(Peer \in reacted)
  BY <1>3, <1>4, ReactedCount
<1>. QED  BY <1>1, <1>2, <1>4, <1>5, <1>6 DEF Entry

LEMMA AttachedVotes ==
  ASSUME MessagesTypes, NEW s \in Seq(GoodEntry), PageVotes(s)
  PROVE  PageVotes(AttachReactions(s))
<1>1. DOMAIN AttachReactions(s) = DOMAIN s
  BY DEF AttachReactions
<1>. QED  BY <1>1, AttachedEntry DEF PageVotes

\* No reaction is on its way: what was read is what there is.
LEMMA ReactionsRead ==
  ASSUME MessagesTypes, NoReactionUnderWay, NEW k
  PROVE  /\ \A mine : mine = (Me \in rows[k].reacted) => OwnRight(k, mine)
         /\ \A peer : peer = (Peer \in rows[k].reacted) => PeerRight(k, peer)
<1>1. DOMAIN events = 1 .. Len(events) /\ Len(events) \in Nat /\ \A p \in DOMAIN events : \A u : ~Reacts(events[p], k, u)
  BY EventsAreGood DEF NoReactionUnderWay, Reacts
<1>2. OwnTrue(k)
  BY <1>1 DEF OwnTrue
<1>3. ASSUME NEW peer, peer = (Peer \in rows[k].reacted) PROVE PeerRight(k, peer)
  <2>. DEFINE s == [p \in 0 .. Len(events) |-> peer]
  <2>1. peer \in BOOLEAN
    BY <1>3
  <2>2. s \in [0 .. Len(events) -> BOOLEAN] /\ \A p \in 0 .. Len(events) : s[p] = peer
    BY <2>1
  <2>. HIDE DEF s
  <2>3. 0 \in 0 .. Len(events) /\ Len(events) \in 0 .. Len(events)
    BY <1>1
  <2>4. \A p \in DOMAIN events : p \in 0 .. Len(events) /\ p - 1 \in 0 .. Len(events)
    BY <1>1
  <2>5. \A p \in DOMAIN events : s[p] = s[p - 1]
    BY <2>2, <2>4
  <2>6. s[0] = peer /\ (s[Len(events)] <=> Peer \in rows[k].reacted)
    BY <1>3, <2>2, <2>3
  <2>7. PeerStates(k, s)
    BY <1>1, <2>2, <2>5, <2>6 DEF PeerStates
  <2>. QED  BY <2>2, <2>6, <2>7 DEF PeerRight
<1>. QED  BY <1>2, <1>3 DEF OwnRight

LEMMA AttachedReactions ==
  ASSUME MessagesTypes, NoReactionUnderWay, NEW s \in Seq(GoodEntry)
  PROVE  PageReactions(AttachReactions(s))
<1>. DEFINE a == AttachReactions(s)
<1>1. DOMAIN a = DOMAIN s
  BY DEF AttachReactions
<1>2. ASSUME NEW i \in DOMAIN s
      PROVE  CountRight(a[i].id, a[i].count, a[i].mine) /\ OwnRight(a[i].id, a[i].mine)
  <2>1. PICK k, mine, peer : k = s[i].id /\ mine = (Me \in rows[k].reacted) /\ peer = (Peer \in rows[k].reacted)
    OBVIOUS
  <2>2. a[i].id = k /\ a[i].count = One(mine) + One(peer) /\ a[i].mine = mine
    BY <2>1, AttachedEntry
  <2>3. OwnRight(k, mine) /\ PeerRight(k, peer) /\ peer \in BOOLEAN
    BY <2>1, ReactionsRead
  <2>. HIDE DEF a
  <2>. QED  BY <2>2, <2>3 DEF CountRight
<1>. HIDE DEF a
<1>3. PageReactions(a)
  BY <1>1, <1>2 DEF PageReactions
<1>. QED  BY <1>3 DEF a

\* History read now leaves nothing untold.
LEMMA FreshTally ==
  ASSUME MessagesTypes, NEW s, PageOf(s, open, MaxMessage + 1), Timely(open)
  PROVE  Unshown(s)
<1>1. Flying \subseteq ThreadIds(s)
  BY FreshPage
<1>2. \A k \in OpenIds : EditTrue(k)
  BY DEF OpenIds, EditTrue, Edits, Timely
<1>. QED  BY <1>1, <1>2 DEF Unshown

\* A step that only changes what is known of the histories or the older page on their way.
LEMMA UnderWayTally ==
  ASSUME MessagesTypes, CompleteInv, TallyInv, UNCHANGED <<rows, req, events, heard, mount, open, list, clean, exact>>,
         FetchTally', OlderTally'
  PROVE  TallyInv'
<1>1. NoNewAnswer /\ PendingKept
  BY MovedIsNoAnswer, CarriedIsKept
<1>2. heard = open => Told
  BY <1>1 DEF Told, NoNewAnswer
<1>3. PostedFirst' /\ OwnRequests'
  BY PostedFirstKept, OwnRequestsKept DEF TallyInv
<1>4. exact => clean
  BY ExactFacts
<1>5. exact => Unshown(list)' /\ \A i \in DOMAIN list' : list'[i].thread = open =>
                 \A k, e : k = list'[i].id /\ e = list'[i] => Entered(k, e)'
  BY <1>1, <1>2, EntriesTold
<1>6. ListTally'
  BY <1>4, <1>5, ListShows
<1>. QED  BY <1>3, <1>6 DEF TallyInv

\* A page is read, then its reactions.
LEMMA ReadTally ==
  ASSUME MessagesTypes, CompleteInv, TallyInv, NEW n \in Run, ReadHistory(n) \/ ReadReactions(n)
  PROVE  TallyInv'
<1>1. /\ UNCHANGED <<rows, req, events, heard, mount, open, list, loading, hasMore, clean, exact, older>>
      /\ fetches[n] # NoPage
  BY DEF ReadHistory, ReadReactions, table, socket, history
<1>0. NoNewAnswer
  BY <1>1, MovedIsNoAnswer
<1>2. PICK f, g : f = fetches[n] /\ g = fetches'[n]
  OBVIOUS
<1>3. f \in GoodPage /\ DOMAIN fetches = Run /\ f.page \in Seq(GoodEntry)
  BY <1>1, <1>2 DEF MessagesTypes, PanelTypes, GoodPage
<1>4. heard = open => Told
  BY <1>0, <1>1 DEF Told, NoNewAnswer
<1>5. OlderTally'
  BY <1>1, <1>4, OlderTold
<1>6. CASE n # mount
  <2>1. mount # 0 => fetches'[mount] = fetches[mount]
    BY <1>3, <1>6, MessagesAssumption DEF ReadHistory, ReadReactions, MessagesTypes, PanelTypes, Run
  <2>2. FetchTally'
    BY <1>1, <1>4, <2>1, FetchTold DEF CompleteInv, TallyInv
  <2>. QED  BY <1>1, <1>5, <2>2, UnderWayTally
<1>7. CASE n = mount
  <2>1. n # 0 /\ f.thread = open
    BY <1>1, <1>2, <1>7 DEF CompleteInv, FetchInv, Run
  <2>2. /\ f.at # "ready" => ~f.exact
        /\ f.clean => Unshown(f.page) /\ PageVotes(f.page)
    BY <1>1, <1>2, <1>7, <2>1 DEF TallyInv, FetchTally
  <2>3. /\ g.at # "ready" => ~g.exact
        /\ g.clean => heard = open /\ g.page \in Seq(GoodEntry) /\ Unshown(g.page) /\ PageVotes(g.page)
        /\ g.clean /\ g.exact => PageReactions(g.page)
    <3>1. CASE ReadHistory(n)
      <4>1. /\ g.at = "messages" /\ g.exact = f.exact /\ f.at = "asked" /\ g.page = History(f.thread, MaxMessage + 1)
            /\ g.clean => heard = f.thread /\ Timely(f.thread)
        BY <1>2, <1>3, <3>1 DEF ReadHistory, GoodPage, Page
      <4>2. PageOf(g.page, open, MaxMessage + 1)
        BY <2>1, <4>1, HistoryIsPage, MessagesAssumption
      <4>3. g.clean => Unshown(g.page)
        BY <2>1, <4>1, <4>2, FreshTally
      <4>4. PageVotes(g.page)
        BY <4>1, VotesRead
      <4>5. ~g.exact
        BY <2>2, <4>1
      <4>. QED  BY <2>1, <4>1, <4>2, <4>3, <4>4, <4>5 DEF PageOf
    <3>2. CASE ReadReactions(n)
      <4>1. g.at = "ready" /\ g.clean = f.clean /\ g.exact = NoReactionUnderWay /\ g.page = AttachReactions(f.page)
        BY <1>2, <1>3, <3>2 DEF ReadReactions, GoodPage, Page
      <4>2. g.page \in Seq(GoodEntry) /\ DOMAIN g.page = DOMAIN f.page
            /\ \A i \in DOMAIN f.page : SameMessage(g.page[i], f.page[i])
        BY <1>3, <4>1, AttachedIsPage
      <4>3. ThreadIds(g.page) = ThreadIds(f.page)
        <5>1. SameMessages(f.page, g.page)
          BY <4>2 DEF SameMessages, SameMessage
        <5>. QED  BY <5>1, SameThreadIds
      <4>4. f.clean => heard = open
        BY <1>1, <1>2, <1>7, <2>1 DEF CompleteInv, FetchInv
      <4>5. g.clean => Unshown(g.page) /\ PageVotes(g.page)
        BY <1>3, <2>2, <4>1, <4>3, AttachedVotes DEF Unshown
      <4>6. g.exact => PageReactions(g.page)
        BY <1>3, <4>1, AttachedReactions
      <4>. QED  BY <4>1, <4>2, <4>4, <4>5, <4>6
    <3>. QED  BY <3>1, <3>2
  <2>4. PICK l : l = g.page
    OBVIOUS
  <2>5. ASSUME g.clean
        PROVE  Unshown(l)' /\ PageVotes(l)' /\ (g.exact => PageReactions(l)')
    <3>1. Told /\ l \in Seq(GoodEntry) /\ Unshown(l) /\ PageVotes(l) /\ (g.exact => PageReactions(l))
      BY <1>4, <2>3, <2>4, <2>5
    <3>2. Unshown(l)'
      BY <3>1, UnshownKept
    <3>3. \A k \in OpenIds : EditTrue(k)
      BY <3>1 DEF Unshown
    <3>. QED  BY <3>1, <3>2, <3>3, PageKept
  <2>6. g = fetches'[mount']
    BY <1>1, <1>2, <1>7
  <2>7. \A x : x = g => /\ x.at # "ready" => ~x.exact
                        /\ x.clean => Unshown(x.page)' /\ PageVotes(x.page)'
                        /\ x.clean /\ x.exact => PageReactions(x.page)'
    BY <2>3, <2>4, <2>5
  <2>8. FetchTally'
    BY <2>6, <2>7 DEF FetchTally
  <2>. QED  BY <1>1, <1>5, <2>8, UnderWayTally
<1>. QED  BY <1>6, <1>7

\* An older page is read, and put before the first message shown.
LEMMA OlderReadTally ==
  ASSUME MessagesTypes, CompleteInv, TallyInv, ScrollUp \/ ReadOlder \/ OlderFails
  PROVE  TallyInv'
<1>1. UNCHANGED <<rows, req, events, heard, mount, open, list, loading, hasMore, clean, exact, fetches>>
  BY DEF ScrollUp, ReadOlder, OlderFails, table, socket, history
<1>2. NoNewAnswer
  BY <1>1, MovedIsNoAnswer
<1>3. heard = open => Told
  BY <1>1, <1>2 DEF Told, NoNewAnswer
<1>4. FetchTally'
  BY <1>1, <1>3, FetchTold DEF CompleteInv, TallyInv
<1>5. CASE OlderFails
  BY <1>1, <1>4, <1>5, UnderWayTally DEF OlderFails, OlderTally
<1>6. CASE ScrollUp
  <2>1. PICK p : p = older'
    OBVIOUS
  <2>2. p.at = "asked"
    BY <1>6, <2>1 DEF ScrollUp
  <2>3. OlderTally'
    BY <2>1, <2>2 DEF OlderTally
  <2>. QED  BY <1>1, <1>4, <2>3, UnderWayTally
<1>7. CASE ReadOlder
  <2>1. PICK p, g : p = older /\ g = older'
    OBVIOUS
  <2>2. PICK s, m : s = History(p.thread, p.before) /\ m = AttachReactions(s)
    OBVIOUS
  <2>3. /\ p \in GoodOlder /\ p # NoPage /\ p.before \in Nat
        /\ g = [p EXCEPT !.at = "ready", !.exact = NoReactionUnderWay, !.page = m]
    BY <1>7, <2>1, <2>2 DEF ReadOlder, MessagesTypes, PanelTypes, GoodOlder, OlderPage, Id
  <2>4. g.page = m /\ g.exact = NoReactionUnderWay
    BY <2>3 DEF GoodOlder, OlderPage
  <2>5. s \in Seq(GoodEntry)
    BY <2>2, <2>3, HistoryIsPage DEF PageOf
  <2>6. PageVotes(m) /\ (g.exact => PageReactions(m)) /\ m \in Seq(GoodEntry)
    BY <2>2, <2>4, <2>5, VotesRead, AttachedVotes, AttachedReactions, AttachedIsPage
  <2>7. ASSUME exact PROVE PageVotes(m)' /\ (g.exact => PageReactions(m)')
    <3>1. Told /\ \A k \in OpenIds : EditTrue(k)
      BY <1>3, <2>7, ExactFacts DEF Unshown
    <3>. QED  BY <2>6, <3>1, PageKept
  <2>8. OlderTally'
    BY <1>1, <2>1, <2>4, <2>7 DEF OlderTally
  <2>. QED  BY <1>1, <1>4, <2>8, UnderWayTally
<1>. QED  BY <1>5, <1>6, <1>7

\* What a page tells of a message.
LEMMA PageEntered ==
  ASSUME NEW l, PageVotes(l)', PageReactions(l)', NEW i \in DOMAIN l, l[i].thread = open',
         NEW k, NEW e, k = l[i].id, e = l[i]
  PROVE  Entered(k, e)'
<1>1. \A x, tally : x = l[i].id /\ tally = l[i].tally => VotesRight(x, tally)'
  BY DEF PageVotes
<1>2. \A x, count, mine : x = l[i].id /\ count = l[i].count /\ mine = l[i].mine =>
        CountRight(x, count, mine)' /\ OwnRight(x, mine)'
  BY DEF PageReactions
<1>3. VotesRight(k, e.tally)' /\ CountRight(k, e.count, e.mine)' /\ OwnRight(k, e.mine)'
  BY <1>1, <1>2
<1>. QED  BY <1>3 DEF Entered, VotesShown, OwnShown, OwnRight

\* The history arrives: the list is what it tells, and no older page was asked for meanwhile.
LEMMA HistoryTally ==
  ASSUME MessagesTypes, CompleteInv, TallyInv, NEW n \in Run, HistoryArrives(n) \/ HistoryFails(n)
  PROVE  TallyInv'
<1>1. /\ UNCHANGED <<rows, req, events, heard, mount, open, older>> /\ fetches[n] # NoPage
      /\ fetches' = [fetches EXCEPT ![n] = NoPage] /\ n \in DOMAIN fetches /\ n # 0
  BY DEF HistoryArrives, HistoryFails, table, socket, MessagesTypes, PanelTypes, Run
<1>2. NoNewAnswer
  BY <1>1, MovedIsNoAnswer
<1>3. heard = open => Told
  BY <1>1, <1>2 DEF Told, NoNewAnswer
<1>4. PostedFirst' /\ OwnRequests'
  BY <1>1, PostedFirstKept, OwnRequestsKept DEF TallyInv
<1>5. CASE n # mount
  <2>1. UNCHANGED <<list, clean, exact>>
    BY <1>5 DEF HistoryArrives, HistoryFails, history
  <2>2. mount # 0 => fetches'[mount] = fetches[mount]
    BY <1>1, <1>5
  <2>3. FetchTally' /\ OlderTally'
    BY <1>1, <1>3, <2>1, <2>2, FetchTold, OlderTold DEF CompleteInv, TallyInv
  <2>. QED  BY <1>1, <2>1, <2>3, UnderWayTally
<1>6. CASE n = mount
  <2>1. PICK f : f = fetches[n]
    OBVIOUS
  <2>2. /\ loading /\ f.page \in Seq(GoodEntry)
        /\ f.clean => heard = open /\ Unshown(f.page) /\ PageVotes(f.page)
        /\ f.clean /\ f.exact => PageReactions(f.page)
    BY <1>1, <1>6, <2>1 DEF CompleteInv, FetchInv, TallyInv, FetchTally, MessagesTypes, PanelTypes, GoodPage
  <2>3. FetchTally'
    BY <1>1, <1>6 DEF FetchTally
  <2>4. OlderTally'
    <3>1. ~(older # NoPage /\ older.mount = mount /\ older.clean)
      BY <2>2 DEF CompleteInv, OlderInv
    <3>. QED  BY <1>1, <3>1 DEF OlderTally
  <2>5. ListTally'
    <3>1. CASE HistoryFails(n)
      <4>1. ~exact /\ exact' = exact
        BY <2>2, <3>1, ExactFacts DEF HistoryFails, history
      <4>. QED  BY <4>1 DEF ListTally
    <3>2. CASE HistoryArrives(n)
      <4>1. list' = f.page /\ clean' = f.clean /\ exact' = (f.clean /\ f.exact)
        BY <1>6, <2>1, <3>2 DEF HistoryArrives
      <4>2. PICK l : l = f.page
        OBVIOUS
      <4>3. ASSUME exact'
            PROVE  Unshown(l)' /\ \A i \in DOMAIN l : l[i].thread = open' => \A k, e : k = l[i].id /\ e = l[i] => Entered(k, e)'
        <5>1. Told /\ l \in Seq(GoodEntry) /\ Unshown(l) /\ PageVotes(l) /\ PageReactions(l)
          BY <1>3, <2>2, <4>1, <4>2, <4>3
        <5>2. \A k \in OpenIds : EditTrue(k)
          BY <5>1 DEF Unshown
        <5>3. Unshown(l)' /\ PageVotes(l)' /\ PageReactions(l)'
          BY <5>1, <5>2, UnshownKept, PageKept
        <5>. QED  BY <5>3, PageEntered
      <4>4. exact' => Unshown(list)' /\ \A i \in DOMAIN list' : list'[i].thread = open' =>
                        \A k, e : k = list'[i].id /\ e = list'[i] => Entered(k, e)'
        BY <4>1, <4>2, <4>3
      <4>5. exact' => clean'
        BY <4>1
      <4>. QED  BY <4>4, <4>5, ListShows
    <3>. QED  BY <3>1, <3>2
  <2>. QED  BY <1>4, <2>3, <2>4, <2>5 DEF TallyInv
<1>. QED  BY <1>5, <1>6

LEMMA OlderArrivesTally ==
  ASSUME MessagesTypes, CompleteInv, TallyInv, OlderArrives
  PROVE  TallyInv'
<1>1. PICK p : p = older
  OBVIOUS
<1>2. /\ UNCHANGED <<rows, req, events, heard, mount, open, loading, fetches>>
      /\ p # NoPage /\ p.at = "ready" /\ older' = NoPage /\ list' = p.page \o list
      /\ clean' = (clean /\ p.clean /\ p.mount = mount)
      /\ exact' = (clean /\ p.clean /\ p.mount = mount /\ exact /\ p.exact)
  BY <1>1 DEF OlderArrives, table, socket
<1>3. NoNewAnswer /\ PendingKept
  BY <1>2, MovedIsNoAnswer, CarriedIsKept
<1>4. heard = open => Told
  BY <1>2, <1>3 DEF Told, NoNewAnswer
<1>5. PostedFirst' /\ OwnRequests'
  BY <1>2, PostedFirstKept, OwnRequestsKept DEF TallyInv
<1>6. FetchTally'
  BY <1>2, <1>4, FetchTold DEF CompleteInv, TallyInv
<1>7. OlderTally'
  BY <1>2 DEF OlderTally
<1>8. PICK s, l, m : s = p.page /\ l = list /\ m = s \o l
  OBVIOUS
<1>9. s \in Seq(GoodEntry) /\ l \in Seq(GoodEntry)
  BY <1>1, <1>2, <1>8, ListIsGood DEF MessagesTypes, PanelTypes, GoodOlder
<1>10. /\ \A i \in DOMAIN m : (\E j \in DOMAIN s : m[i] = s[j]) \/ (\E j \in DOMAIN l : m[i] = l[j])
       /\ \A j \in DOMAIN l : \E i \in DOMAIN m : m[i] = l[j]
  <2>1. /\ Len(m) = Len(s) + Len(l) /\ m \in Seq(GoodEntry)
        /\ \A i \in 1 .. Len(s) + Len(l) : m[i] = IF i <= Len(s) THEN s[i] ELSE l[i - Len(s)]
    BY <1>8, <1>9, ConcatProperties
  <2>2. /\ DOMAIN m = 1 .. Len(s) + Len(l) /\ DOMAIN s = 1 .. Len(s) /\ DOMAIN l = 1 .. Len(l)
        /\ Len(s) \in Nat /\ Len(l) \in Nat
    BY <1>9, <2>1, LenProperties
  <2>3. ASSUME NEW i \in DOMAIN m
        PROVE  (\E j \in DOMAIN s : m[i] = s[j]) \/ (\E j \in DOMAIN l : m[i] = l[j])
    <3>1. CASE i <= Len(s)
      <4>1. i \in DOMAIN s /\ m[i] = s[i]
        BY <2>1, <2>2, <3>1
      <4>. QED  BY <4>1
    <3>2. CASE ~(i <= Len(s))
      <4>1. i - Len(s) \in DOMAIN l /\ m[i] = l[i - Len(s)]
        BY <2>1, <2>2, <3>2
      <4>. QED  BY <4>1
    <3>. QED  BY <3>1, <3>2
  <2>4. ASSUME NEW j \in DOMAIN l
        PROVE  \E i \in DOMAIN m : m[i] = l[j]
    <3>1. j + Len(s) \in 1 .. Len(s) + Len(l) /\ ~(j + Len(s) <= Len(s)) /\ (j + Len(s)) - Len(s) = j
      BY <2>2
    <3>2. m[j + Len(s)] = l[j]
      BY <2>1, <3>1
    <3>. QED  BY <2>2, <3>1, <3>2
  <2>. QED  BY <2>3, <2>4
<1>11. ASSUME exact'
       PROVE  Unshown(m)' /\ \A i \in DOMAIN m : m[i].thread = open' => \A k, e : k = m[i].id /\ e = m[i] => Entered(k, e)'
  <2>1. /\ Told /\ Unshown(l) /\ \A i \in DOMAIN l : l[i].thread = open => Entered(l[i].id, l[i])
        /\ p.clean /\ p.mount = mount /\ exact /\ p.exact
    BY <1>2, <1>4, <1>8, <1>11, ExactFacts
  <2>2. PageVotes(s) /\ PageReactions(s)
    BY <1>1, <1>2, <1>8, <2>1 DEF TallyInv, OlderTally
  <2>3. \A k \in OpenIds : EditTrue(k)
    BY <2>1 DEF Unshown
  <2>4. Unshown(l)' /\ PageVotes(s)' /\ PageReactions(s)'
    BY <1>9, <2>1, <2>2, <2>3, UnshownKept, PageKept
  <2>5. ThreadIds(l)' \subseteq ThreadIds(m)'
    BY <1>10 DEF ThreadIds
  <2>6. Unshown(m)'
    BY <2>4, <2>5 DEF Unshown
  <2>7. ASSUME NEW i \in DOMAIN m, m[i].thread = open', NEW k, NEW e, k = m[i].id, e = m[i]
        PROVE  Entered(k, e)'
    <3>1. ASSUME NEW j \in DOMAIN s, m[i] = s[j] PROVE Entered(k, e)'
      BY <2>4, <2>7, <3>1, PageEntered
    <3>2. ASSUME NEW j \in DOMAIN l, m[i] = l[j] PROVE Entered(k, e)'
      <4>1. k \in OpenIds /\ Entered(k, e)
        BY <1>2, <1>8, <2>1, <2>7, <3>2, ListIsGood DEF OpenIds
      <4>. QED  BY <1>3, <2>1, <2>3, <4>1, EntryTold
    <3>. QED  BY <1>10, <3>1, <3>2
  <2>. QED  BY <2>6, <2>7
<1>12. exact' => Unshown(list)' /\ \A i \in DOMAIN list' : list'[i].thread = open' =>
                   \A k, e : k = list'[i].id /\ e = list'[i] => Entered(k, e)'
  BY <1>2, <1>8, <1>11
<1>13. exact' => clean'
  BY <1>2
<1>14. ListTally'
  BY <1>12, <1>13, ListShows
<1>. QED  BY <1>5, <1>6, <1>7, <1>14 DEF TallyInv

LEMMA ServedTally ==
  ASSUME MessagesTypes, CompleteInv, TallyInv, Serve
  PROVE  TallyInv'
<1>1. /\ heard # open /\ heard' = open
      /\ UNCHANGED <<rows, req, events, mount, open, list, clean, exact, fetches, older>>
  BY DEF Serve, table, panel, history
<1>2. ~exact
  BY <1>1, ExactFacts
<1>3. FetchTally'
  <2>1. mount # 0 /\ fetches[mount] # NoPage =>
          ~fetches[mount].clean /\ (fetches[mount].at # "ready" => ~fetches[mount].exact)
    BY <1>1 DEF CompleteInv, FetchInv, TallyInv, FetchTally
  <2>. QED  BY <1>1, <2>1 DEF FetchTally
<1>4. ListTally' /\ OlderTally'
  BY <1>1, <1>2 DEF ListTally, OlderTally
<1>5. PostedFirst' /\ OwnRequests'
  BY <1>1, PostedFirstKept, OwnRequestsKept DEF TallyInv
<1>. QED  BY <1>3, <1>4, <1>5 DEF TallyInv

LEMMA CutTally ==
  ASSUME MessagesTypes, TallyInv, Cut
  PROVE  TallyInv'
<1>1. /\ UNCHANGED <<req, mount>> /\ events' = <<>> /\ exact' = FALSE
      /\ fetches' = [n \in Run |-> IF fetches[n] = NoPage THEN NoPage ELSE [fetches[n] EXCEPT !.clean = FALSE]]
  BY DEF Cut, table
<1>2. FetchTally'
  BY <1>1, FetchesUncleanTally DEF TallyInv
<1>3. ListTally' /\ OlderTally'
  BY <1>1 DEF ListTally, OlderTally
<1>4. PostedFirst' /\ OwnRequests'
  BY <1>1, PostedFirstKept, OwnRequestsKept DEF TallyInv
<1>. QED  BY <1>2, <1>3, <1>4 DEF TallyInv

LEMMA OpenedTally ==
  ASSUME MessagesTypes, TallyInv, NEW t \in Conversation, Open(t)
  PROVE  TallyInv'
<1>1. PICK f : f = [thread |-> t, at |-> "asked", page |-> <<>>, clean |-> FALSE, exact |-> FALSE]
  OBVIOUS
<1>2. /\ UNCHANGED <<rows, req, events>> /\ mount' = mount + 1 /\ exact' = FALSE
      /\ fetches' = [fetches EXCEPT ![mount + 1] = f] /\ mount < does.mounts
  BY <1>1 DEF Open, table, socket
<1>3. mount \in Nat /\ mount + 1 \in Run
  BY <1>2, MessagesAssumption DEF MessagesTypes, TableTypes, PanelTypes, Scenario, Run
<1>4. fetches'[mount'] = f
  BY <1>2, <1>3 DEF MessagesTypes, PanelTypes
<1>5. FetchTally'
  BY <1>1, <1>4 DEF FetchTally
<1>6. ListTally' /\ OlderTally'
  BY <1>2 DEF ListTally, OlderTally
<1>7. PostedFirst' /\ OwnRequests'
  BY <1>2, PostedFirstKept, OwnRequestsKept DEF TallyInv
<1>. QED  BY <1>5, <1>6, <1>7 DEF TallyInv

\* Every step keeps the invariant.
LEMMA StepStaysTallied ==
  ASSUME MessagesTypes, CompleteInv, TallyInv, [MessagesNext]_messagesVars
  PROVE  TallyInv'
<1>0. ASSUME UNCHANGED <<rows, events, heard, mount, open, list, clean, fetches, older>>, NoNewAnswer, OwnRequests',
             exact' => exact, exact' => PendingKept
      PROVE  TallyInv'
  <2>1. heard = open => Told
    BY <1>0 DEF Told, NoNewAnswer
  <2>2. PostedFirst'
    BY <1>0, PostedFirstKept DEF TallyInv
  <2>. QED  BY <1>0, <2>1, <2>2, TallyTold
<1>1. ASSUME UNCHANGED <<rows, req, events, heard, mount, open, list, clean, exact, fetches, older>>
      PROVE  TallyInv'
  BY <1>0, <1>1, MovedIsNoAnswer, OwnRequestsKept, CarriedIsKept DEF TallyInv
<1>2. ASSUME NEW r \in Req, \/ \E op, u, id, arg : OtherAsks(r, op, u, id, arg)
                            \/ \E u, t : OtherSends(r, u, t)
                            \/ Read(r) \/ Fail(r) \/ SendText(r) \/ SendPlain(r) \/ RetryPending(r)
                            \/ SubmitEdit(r) \/ Failed(r)
      PROVE  TallyInv'
  <2>1. /\ UNCHANGED <<rows, events, heard, mount, open, list, clean, fetches, older>>
        /\ Failed(r) \/ UNCHANGED exact
    BY <1>2 DEF OtherAsks, OtherSends, Read, Fail, SendText, SendPlain, RetryPending, SubmitEdit,
       Failed, table, socket, panel, history
  <2>4. exact' => exact
    <3>1. Failed(r) => exact' = (exact /\ req[r].op \notin {"react", "unreact", "vote"})
      BY DEF Failed
    <3>. QED  BY <2>1, <3>1
  <2>2. Moved(r) /\ Handled(r) /\ (exact' => Carried(r))
    BY <1>2, AskedIsMoved, RequestMoved, AskedIsHandled, MovedIsHandled
  <2>3. NoNewAnswer /\ OwnRequests' /\ (exact' => PendingKept)
    BY <2>2, MovedIsNoAnswer, OwnRequestsKept, CarriedIsKept DEF TallyInv
  <2>. QED  BY <1>0, <2>1, <2>3, <2>4
<1>3. ASSUME NEW n, KeyArrives(n) \/ KeyFails(n) \/ StartEdit(n) \/ CancelEdit \/ DiscardPending(n)
      PROVE  TallyInv'
  BY <1>1, <1>3 DEF KeyArrives, KeyFails, StartEdit, CancelEdit, DiscardPending, table, socket, panel, history
<1>4. CASE UNCHANGED messagesVars
  BY <1>1, <1>4 DEF messagesVars, table, socket, panel, history
<1>5. CASE OfServer
  BY <1>2, <1>5, WrittenTally, ReadTally, OlderReadTally, ServedTally, CutTally DEF OfServer, Req
<1>6. CASE OfPanel
  <2>1. ASSUME NEW t \in Conversation, Open(t) PROVE TallyInv'
    BY <2>1, OpenedTally
  <2>2. ASSUME NEW n \in Run, HistoryArrives(n) \/ HistoryFails(n) PROVE TallyInv'
    BY <2>2, HistoryTally
  <2>3. ASSUME Deliver \/ ScrollUp \/ OlderArrives \/ OlderFails PROVE TallyInv'
    BY <2>3, DeliveredTally, OlderReadTally, OlderArrivesTally
  <2>4. ASSUME NEW r \in PanelReq, Answered(r) PROVE TallyInv'
    BY <2>4, AnsweredTally
  <2>5. ASSUME NEW r \in PanelReq, NEW id, \/ Pin(r, id) \/ Delete(r, id) \/ ToggleReaction(r, id)
                                           \/ \E o \in Option : HandleVote(r, id, o)
        PROVE  TallyInv'
    BY <2>5, PinnedTally, ToggledTally, VotedTally
  <2>. QED  BY <1>2, <1>3, <1>6, <2>1, <2>2, <2>3, <2>4, <2>5 DEF OfPanel, Req
<1>. QED  BY <1>4, <1>5, <1>6 DEF MessagesNext

LEMMA StartIsTallied ==
  ASSUME MessagesInit
  PROVE  TallyInv
<1>1. events = <<>> /\ DOMAIN <<>> = {} /\ ~exact /\ mount = 0 /\ older = NoPage
  BY DEF MessagesInit
<1>2. \A r \in PanelReq : req[r] = Idle
  BY DEF MessagesInit, Req
<1>. QED  BY <1>1, <1>2 DEF TallyInv, PostedFirst, OwnRequests, ListTally, FetchTally, OlderTally

\* When nothing of a message is on its way, whether the peer has reacted is known.
LEMMA PeerSettled ==
  ASSUME MessagesTypes, NEW k, NEW peer, PeerRight(k, peer), \A p \in DOMAIN events : ~Reacts(events[p], k, Peer)
  PROVE  peer <=> Peer \in rows[k].reacted
<1>1. DOMAIN events = 1 .. Len(events) /\ Len(events) \in Nat
  BY EventsAreGood
<1>. DEFINE n == Len(events)
<1>2. PICK s \in [0 .. n -> BOOLEAN] : PeerStates(k, s) /\ s[0] = peer
  BY DEF PeerRight
<1>3. \A p \in 1 .. n : s[p] = s[p - 1]
  BY <1>1, <1>2 DEF PeerStates
<1>4. s[n] <=> Peer \in rows[k].reacted
  BY <1>2 DEF PeerStates
<1>. HIDE DEF n
<1>5. n \in Nat
  BY <1>1 DEF n
<1>6. s[n] = s[0]
  <2>. DEFINE S == {p \in 0 .. n : s[p] # s[0]}
  <2>1. ASSUME S # {} PROVE FALSE
    <3>1. IsFiniteSet(0 .. n)
      BY <1>5, FS_Interval
    <3>2. S \subseteq Nat /\ S \subseteq 0 .. n
      BY <1>5
    <3>3. IsFiniteSet(S)
      BY <3>1, <3>2, FS_Subset
    <3>. HIDE DEF S
    <3>4. PICK p \in S : \A q \in S : p <= q
      BY <2>1, <3>2, <3>3, LeastAndGreatest
    <3>5. p \in 0 .. n /\ s[p] # s[0]
      BY <3>4 DEF S
    <3>6. p \in 1 .. n /\ p - 1 \in 0 .. n /\ ~(p <= p - 1)
      BY <1>5, <3>5
    <3>7. p - 1 \in S
      BY <1>3, <3>5, <3>6 DEF S
    <3>. QED  BY <3>4, <3>6, <3>7
  <2>2. n \in 0 .. n
    BY <1>5
  <2>. QED  BY <2>1, <2>2
<1>. QED  BY <1>2, <1>4, <1>6

\* With nothing on its way for the thread, the tallies are those of the server.
LEMMA TallySuffices ==
  ASSUME MessagesTypes, CompleteInv, TallyInv
  PROVE  TalliesSettle
<1>. SUFFICES ASSUME Quiet, exact PROVE TalliesSettle
  BY DEF TalliesSettle
<1>1. \A i \in DOMAIN events : EventThread(events[i]) # open
  BY DEF Quiet
<1>2. ASSUME NEW i \in Own, NEW k, NEW e, k = list[i].id, e = list[i]
      PROVE  /\ ~Busy({"react", "unreact"}) => e.count = Cardinality(rows[k].reacted) /\ e.mine = (Me \in rows[k].reacted)
             /\ ~Busy({"vote"}) => e.tally = Tally(rows[k].votes)
  <2>1. i \in DOMAIN list /\ list[i].thread = open
    BY DEF Own
  <2>2. e \in Entry /\ k \in DOMAIN rows /\ rows[k].thread = open /\ Entered(k, e)
    BY <1>2, <2>1, ExactFacts, ListIsGood
  <2>3. \A p \in DOMAIN events : ~Edits(events[p], k) /\ \A u : ~Reacts(events[p], k, u)
    BY <1>1, <2>2, EventOfMessage, EventsAreGood
  <2>4. ~EditComes(k) /\ ~OwnComes(k)
    BY <2>3 DEF EditComes, OwnComes
  <2>5. \A ops : Pending(ops, k) => Busy(ops)
    BY DEF Pending, Busy
  <2>6. ~Busy({"vote"}) => e.tally = Tally(rows[k].votes)
    BY <2>2, <2>4, <2>5 DEF Entered, VotesShown, VotesRight
  <2>7. ASSUME ~Busy({"react", "unreact"})
        PROVE  e.count = Cardinality(rows[k].reacted) /\ e.mine = (Me \in rows[k].reacted)
    <3>1. e.mine = (Me \in rows[k].reacted)
      <4>1. e.mine <=> Me \in rows[k].reacted
        BY <2>2, <2>4, <2>5, <2>7 DEF Entered, OwnShown
      <4>. QED  BY <2>2, <4>1 DEF Entry
    <3>2. PICK peer \in BOOLEAN : PeerRight(k, peer) /\ e.count = One(e.mine) + One(peer)
      BY <2>2 DEF Entered, CountRight
    <3>3. peer = (Peer \in rows[k].reacted)
      <4>1. peer <=> Peer \in rows[k].reacted
        BY <2>3, <3>2, PeerSettled
      <4>. QED  BY <3>2, <4>1
    <3>4. rows[k].reacted \in SUBSET User
      BY <2>2, RowsAreRows DEF Row
    <3>. QED  BY <3>1, <3>2, <3>3, <3>4, ReactedCount
  <2>. QED  BY <2>6, <2>7
<1>. QED  BY <1>2 DEF TalliesSettle

\* Once all has been heard of and no request of one's own is under way, every post has
\* the reactions and every poll the votes that the server has, for any number of
\* messages, threads, requests and runs, and a page of any size.
THEOREM TalliesCorrect == MessagesSpec => []TalliesSettle
<1>1. MessagesInit => MessagesTypes /\ CompleteInv /\ TallyInv
  BY StartIsTyped, StartIsComplete, StartIsTallied
<1>2. MessagesTypes /\ [MessagesNext]_messagesVars => MessagesTypes'
  BY StepIsTyped
<1>3. MessagesTypes /\ CompleteInv /\ [MessagesNext]_messagesVars => CompleteInv'
  BY StepStaysComplete
<1>4. MessagesTypes /\ CompleteInv /\ TallyInv /\ [MessagesNext]_messagesVars => TallyInv'
  BY StepStaysTallied
<1>5. MessagesTypes /\ CompleteInv /\ TallyInv => TalliesSettle
  BY TallySuffices
<1>. QED  BY <1>1, <1>2, <1>3, <1>4, <1>5, PTL DEF MessagesSpec
=============================================================================
