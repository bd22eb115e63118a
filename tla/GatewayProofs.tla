---------------------------- MODULE GatewayProofs ----------------------------
(***************************************************************************)
(* Proofs about the gateway at the server (ChatGateway), and about the     *)
(* unread counts, mutes and invites at the client that its events keep     *)
(* (Notifications).  The two specifications share no variable; what they   *)
(* share is the reader.  All of it is for any users, connections, threads, *)
(* invites and profiles, and any number of commands and requests.          *)
(*                                                                         *)
(* Of the gateway, OnlineIffOpen, OfflineIsStamped and NoGhostInRoom are   *)
(* inductive on top of the types.  SubscribersWereAllowed is not: a        *)
(* subscription rests on an answer given earlier, so the commands under    *)
(* way are part of the invariant, and so is that held keeps up with the    *)
(* tables.                                                                 *)
(*                                                                         *)
(* None of the properties of Notifications is inductive: each says what is *)
(* on the screen, and what gets there is under way first.  So MuteInv      *)
(* speaks of the lookups and the pop-over, BadgeInv of the counts and the  *)
(* marks, and BellInv of the feeds and the answers.                        *)
(***************************************************************************)
EXTENDS ChatGateway, Notifications, SequenceTheorems, FiniteSetTheorems, TLAPS

(***************************************************************************)
(* The gateway.                                                            *)
(***************************************************************************)

\* The disjuncts of Next, for the proofs below to split on.
LEMMA NextCases ==
  ASSUME [Next]_vars
  PROVE  \/ \E c \in Conn : Connect(c)
         \/ \E c \in Conn : Close(c)
         \/ \E c \in Conn : CleanupStamp(c)
         \/ \E c \in Conn : CleanupRead(c)
         \/ \E c \in Conn : CleanupClear(c)
         \/ \E c \in Conn : CleanupNotify(c)
         \/ \E c \in Conn, verb \in Verb, d \in Dm : DmCommand(c, verb, d)
         \/ \E c \in Conn, verb \in Verb, r \in Room : RoomCommand(c, verb, r)
         \/ \E m \in commands : CheckAccess(m)
         \/ \E m \in commands : FinishCommand(m)
         \/ \E p \in Post : PresenceSend(p)
         \/ \E p \in Post, u \in Reporting, r \in RoomOrNone : PresenceUpdate(p, u, r)
         \/ \E u \in User, r \in Room : GainAccess(u, r)
         \/ \E u \in User, r \in Room : LoseAccess(u, r)
         \/ UNCHANGED vars
BY DEF Next

-----------------------------------------------------------------------------
(* Types.                                                                  *)

LEMMA TypeInit == Init => TypeOK
BY ConnAssumption DEF Init, TypeOK, PostFrame, NoPost, RoomOrNone

LEMMA TypeStep ==
  ASSUME TypeOK, [Next]_vars
  PROVE  TypeOK'
<1> USE ConnAssumption, ThreadAssumption DEF TypeOK, Thread, RoomOrNone, registry, presence
<1>1. ASSUME NEW c \in Conn, Connect(c)
      PROVE  TypeOK'
  BY <1>1 DEF Connect
<1>2. ASSUME NEW c \in Conn, Close(c)
      PROVE  TypeOK'
  BY <1>2 DEF Close
<1>3. ASSUME NEW c \in Conn, CleanupStamp(c)
      PROVE  TypeOK'
  BY <1>3 DEF CleanupStamp
<1>4. ASSUME NEW c \in Conn, CleanupRead(c)
      PROVE  TypeOK'
  BY <1>4 DEF CleanupRead
<1>5. ASSUME NEW c \in Conn, CleanupClear(c)
      PROVE  TypeOK'
  BY <1>5 DEF CleanupClear
<1>6. ASSUME NEW c \in Conn, CleanupNotify(c)
      PROVE  TypeOK'
  BY <1>6 DEF CleanupNotify, TellFriends
<1>7. ASSUME NEW c \in Conn, NEW verb \in Verb, NEW d \in Dm, DmCommand(c, verb, d)
      PROVE  TypeOK'
  BY <1>7 DEF DmCommand, Apply
<1>8. ASSUME NEW c \in Conn, NEW verb \in Verb, NEW r \in Room, RoomCommand(c, verb, r)
      PROVE  TypeOK'
  BY <1>8 DEF RoomCommand, Command
<1>9. ASSUME NEW m \in commands, CheckAccess(m)
      PROVE  TypeOK'
  BY <1>9 DEF CheckAccess, Command
<1>10. ASSUME NEW m \in commands, FinishCommand(m)
       PROVE  TypeOK'
  <2>1. m.room \in Thread /\ m.conn \in Conn
    BY DEF Command
  <2>2. subscriptions' \in [Thread -> SUBSET Conn]
    <3>1. CASE m.access = "granted"
      BY <1>10, <2>1, <3>1 DEF FinishCommand, Apply
    <3>2. CASE m.access # "granted"
      BY <1>10, <3>2 DEF FinishCommand
    <3> QED
      BY <3>1, <3>2
  <2> QED
    BY <1>10, <2>2 DEF FinishCommand
<1>11. ASSUME NEW p \in Post, PresenceSend(p)
       PROVE  TypeOK'
  <2>1. post[p] \in [at : {"send"}, user : User, room : RoomOrNone]
    BY <1>11 DEF PresenceSend, PostFrame, NoPost
  <2>2. told' \in [Conn -> [User -> RoomOrNone]]
    BY <1>11, <2>1 DEF PresenceSend, TellFriends
  <2> QED
    BY <1>11, <2>2 DEF PresenceSend, PostFrame
<1>12. ASSUME NEW p \in Post, NEW u \in Reporting, NEW r \in RoomOrNone, PresenceUpdate(p, u, r)
       PROVE  TypeOK'
  <2>1. u \in User
    BY ReportingAssumption
  <2>2. [at |-> "send", user |-> u, room |-> r] \in PostFrame
    BY <2>1 DEF PostFrame
  <2> QED
    BY <1>12, <2>1, <2>2 DEF PresenceUpdate
<1>13. ASSUME NEW u \in User, NEW r \in Room, GainAccess(u, r)
       PROVE  TypeOK'
  BY <1>13 DEF GainAccess
<1>14. ASSUME NEW u \in User, NEW r \in Room, LoseAccess(u, r)
       PROVE  TypeOK'
  BY <1>14 DEF LoseAccess
<1>15. CASE UNCHANGED vars
  BY <1>15 DEF vars
<1> QED
  BY NextCases, <1>1, <1>2, <1>3, <1>4, <1>5, <1>6, <1>7, <1>8, <1>9, <1>10, <1>11, <1>12,
     <1>13, <1>14, <1>15

\* Every reachable state of the gateway has the types of TypeOK.
THEOREM TypeCorrect == Spec => []TypeOK
<1>1. Init => TypeOK
  BY TypeInit
<1>2. TypeOK /\ [Next]_vars => TypeOK'
  BY TypeStep
<1> QED
  BY <1>1, <1>2, PTL DEF Spec

-----------------------------------------------------------------------------
(* The registry of online sockets.                                         *)

LEMMA OnlineStep ==
  ASSUME TypeOK, OnlineIffOpen, [Next]_vars
  PROVE  OnlineIffOpen'
<1> USE ConnAssumption DEF TypeOK, OnlineIffOpen, registry
<1>1. ASSUME NEW c \in Conn, Connect(c)
      PROVE  OnlineIffOpen'
  BY <1>1 DEF Connect
<1>2. ASSUME NEW c \in Conn, Close(c)
      PROVE  OnlineIffOpen'
  BY <1>2 DEF Close
<1>3. CASE UNCHANGED <<conn, onlineSockets>>
  BY <1>3
<1>4. ASSUME NEW c \in Conn, CleanupStamp(c) \/ CleanupRead(c) \/ CleanupClear(c) \/ CleanupNotify(c)
      PROVE  UNCHANGED <<conn, onlineSockets>>
  BY <1>4 DEF CleanupStamp, CleanupRead, CleanupClear, CleanupNotify
<1>5. ASSUME NEW c \in Conn, NEW verb \in Verb, NEW t,
             DmCommand(c, verb, t) \/ RoomCommand(c, verb, t)
      PROVE  UNCHANGED <<conn, onlineSockets>>
  BY <1>5 DEF DmCommand, RoomCommand
<1>6. ASSUME NEW m \in commands, CheckAccess(m) \/ FinishCommand(m)
      PROVE  UNCHANGED <<conn, onlineSockets>>
  BY <1>6 DEF CheckAccess, FinishCommand
<1>7. ASSUME NEW p \in Post, NEW u, NEW r, PresenceSend(p) \/ PresenceUpdate(p, u, r)
      PROVE  UNCHANGED <<conn, onlineSockets>>
  BY <1>7 DEF PresenceSend, PresenceUpdate
<1>8. ASSUME NEW u, NEW r, GainAccess(u, r) \/ LoseAccess(u, r)
      PROVE  UNCHANGED <<conn, onlineSockets>>
  BY <1>8 DEF GainAccess, LoseAccess
<1>9. UNCHANGED vars => UNCHANGED <<conn, onlineSockets>>
  BY DEF vars
<1> QED
  BY NextCases, <1>1, <1>2, <1>3, <1>4, <1>5, <1>6, <1>7, <1>8, <1>9

\* A user is online exactly while a socket of theirs is open, however
\* connections and closes overlap (markOnline, markOffline).
THEOREM OnlineCorrect == Spec => []OnlineIffOpen
<1>1. Init => OnlineIffOpen
  BY DEF Init, OnlineIffOpen
<1>2. TypeOK /\ OnlineIffOpen /\ [Next]_vars => OnlineIffOpen'
  BY OnlineStep
<1> QED
  BY <1>1, <1>2, TypeCorrect, PTL DEF Spec

-----------------------------------------------------------------------------
(* Disconnects.                                                            *)

LEMMA StampStep ==
  ASSUME TypeOK, OfflineIsStamped, [Next]_vars
  PROVE  OfflineIsStamped'
<1> USE ConnAssumption DEF TypeOK, OfflineIsStamped, isUserOnline, registry, presence
<1> DEFINE Kept == UNCHANGED <<onlineSockets, stamped, cleanup, wentOnline>>
<1>1. ASSUME NEW c \in Conn, Connect(c)
      PROVE  OfflineIsStamped'
  <2>1. c \in onlineSockets'[UserOf[c]]
    BY <1>1 DEF Connect
  <2> SUFFICES ASSUME NEW u \in wentOnline', onlineSockets'[u] = {}
               PROVE  stamped'[u] \/ \E b \in Conn : UserOf[b] = u /\ cleanup'[b] = "stamp"
    OBVIOUS
  <2>2. u # UserOf[c] /\ u \in wentOnline
    BY <1>1, <2>1 DEF Connect
  <2>3. onlineSockets[u] = {} /\ stamped'[u] = stamped[u] /\ cleanup' = cleanup
    BY <1>1, <2>2 DEF Connect
  <2> QED
    BY <2>2, <2>3
<1>2. ASSUME NEW c \in Conn, Close(c)
      PROVE  OfflineIsStamped'
  BY <1>2 DEF Close
<1>3. ASSUME NEW c \in Conn, CleanupStamp(c)
      PROVE  OfflineIsStamped'
  BY <1>3 DEF CleanupStamp
<1>4. ASSUME NEW c \in Conn, CleanupRead(c) \/ CleanupClear(c) \/ CleanupNotify(c)
      PROVE  OfflineIsStamped'
  BY <1>4 DEF CleanupRead, CleanupClear, CleanupNotify
<1>5. ASSUME NEW c \in Conn, NEW verb \in Verb, NEW t,
             DmCommand(c, verb, t) \/ RoomCommand(c, verb, t)
      PROVE  Kept
  BY <1>5 DEF DmCommand, RoomCommand
<1>6. ASSUME NEW m \in commands, CheckAccess(m) \/ FinishCommand(m)
      PROVE  Kept
  BY <1>6 DEF CheckAccess, FinishCommand
<1>7. ASSUME NEW p \in Post, NEW u, NEW r, PresenceSend(p) \/ PresenceUpdate(p, u, r)
      PROVE  Kept
  BY <1>7 DEF PresenceSend, PresenceUpdate
<1>8. ASSUME NEW u, NEW r, GainAccess(u, r) \/ LoseAccess(u, r)
      PROVE  Kept
  BY <1>8 DEF GainAccess, LoseAccess
<1>9. UNCHANGED vars => Kept
  BY DEF vars
<1>10. Kept => OfflineIsStamped'
  OBVIOUS
<1> QED
  BY NextCases, <1>1, <1>2, <1>3, <1>4, <1>5, <1>6, <1>7, <1>8, <1>9, <1>10

\* Whoever disconnected is stamped "last seen", or the close of their last
\* socket is about to.
THEOREM StampCorrect == Spec => []OfflineIsStamped
<1>1. Init => OfflineIsStamped
  BY DEF Init, OfflineIsStamped
<1>2. TypeOK /\ OfflineIsStamped /\ [Next]_vars => OfflineIsStamped'
  BY StampStep
<1> QED
  BY <1>1, <1>2, TypeCorrect, PTL DEF Spec

LEMMA GhostStep ==
  ASSUME TypeOK, NoGhostInRoom, [Next]_vars
  PROVE  NoGhostInRoom'
<1> USE ConnAssumption, ReportingAssumption
    DEF TypeOK, NoGhostInRoom, isUserOnline, registry, presence, RoomOrNone
<1> DEFINE Kept == UNCHANGED <<onlineSockets, currentRoom, cleanup, setOffline>>
<1>1. ASSUME NEW c \in Conn, Connect(c)
      PROVE  NoGhostInRoom'
  BY <1>1 DEF Connect
<1>2. ASSUME NEW c \in Conn, Close(c)
      PROVE  NoGhostInRoom'
  BY SMTT(30), <1>2 DEF Close
<1>3. ASSUME NEW c \in Conn, CleanupStamp(c)
      PROVE  NoGhostInRoom'
  BY <1>3 DEF CleanupStamp
<1>4. ASSUME NEW c \in Conn, CleanupRead(c)
      PROVE  NoGhostInRoom'
  BY SMTT(30), <1>4 DEF CleanupRead
<1>5. ASSUME NEW c \in Conn, CleanupClear(c)
      PROVE  NoGhostInRoom'
  BY <1>5 DEF CleanupClear
<1>6. ASSUME NEW c \in Conn, CleanupNotify(c)
      PROVE  NoGhostInRoom'
  BY <1>6 DEF CleanupNotify
<1>7. ASSUME NEW p \in Post, NEW u \in Reporting, NEW r \in RoomOrNone, PresenceUpdate(p, u, r)
      PROVE  NoGhostInRoom'
  BY SMTT(30), <1>7 DEF PresenceUpdate
<1>8. ASSUME NEW c \in Conn, NEW verb \in Verb, NEW t,
             DmCommand(c, verb, t) \/ RoomCommand(c, verb, t)
      PROVE  Kept
  BY <1>8 DEF DmCommand, RoomCommand
<1>9. ASSUME NEW m \in commands, CheckAccess(m) \/ FinishCommand(m)
      PROVE  Kept
  BY <1>9 DEF CheckAccess, FinishCommand
<1>10. ASSUME NEW p \in Post, PresenceSend(p)
       PROVE  Kept
  BY <1>10 DEF PresenceSend
<1>11. ASSUME NEW u, NEW r, GainAccess(u, r) \/ LoseAccess(u, r)
       PROVE  Kept
  BY <1>11 DEF GainAccess, LoseAccess
<1>12. UNCHANGED vars => Kept
  BY DEF vars
<1>13. Kept => NoGhostInRoom'
  OBVIOUS
<1> QED
  BY NextCases, <1>1, <1>2, <1>3, <1>4, <1>5, <1>6, <1>7, <1>8, <1>9, <1>10, <1>11, <1>12, <1>13

\* The room of a user without sockets is cleared, or about to be, unless it
\* was set while there was none (the close handler).
THEOREM GhostCorrect == Spec => []NoGhostInRoom
<1>1. Init => NoGhostInRoom
  BY DEF Init, NoGhostInRoom
<1>2. TypeOK /\ NoGhostInRoom /\ [Next]_vars => NoGhostInRoom'
  BY GhostStep
<1> QED
  BY <1>1, <1>2, TypeCorrect, PTL DEF Spec

-----------------------------------------------------------------------------
(* Subscriptions.                                                          *)

\* What was granted to a command under way was usable since its socket opened.
GrantsWereAllowed ==
  \A m \in commands :
    conn[m.conn] # "new" /\ (m.access = "granted" => m.room \in held[m.conn])

\* The history of an opened socket has all that its user can use now.
HeldKeepsUp ==
  \A c \in Conn : \A t \in Thread :
    conn[c] # "new" /\ MayUse(UserOf[c], t) => t \in held[c]

\* It is empty before.
HeldSinceOpened == \A c \in Conn : conn[c] = "new" => held[c] = {}

SubscriptionInv ==
  SubscribersWereAllowed /\ GrantsWereAllowed /\ HeldKeepsUp /\ HeldSinceOpened

LEMMA SubscriptionStep ==
  ASSUME TypeOK, SubscriptionInv, [Next]_vars
  PROVE  SubscriptionInv'
<1> USE ConnAssumption, ThreadAssumption
    DEF TypeOK, Thread, SubscriptionInv, SubscribersWereAllowed, GrantsWereAllowed,
        HeldKeepsUp, HeldSinceOpened, MayUse, Command, registry, presence
<1> DEFINE Kept == UNCHANGED <<conn, subscriptions, commands, access, held>>
<1>1. ASSUME NEW c \in Conn, Connect(c)
      PROVE  SubscriptionInv'
  <2>1. \A b \in Conn : held[b] \subseteq held'[b]
    BY <1>1 DEF Connect
  <2>2. HeldKeepsUp'
    BY <1>1 DEF Connect
  <2>3. GrantsWereAllowed'
    BY <1>1, <2>1 DEF Connect
  <2>4. SubscribersWereAllowed'
    BY <1>1, <2>1 DEF Connect
  <2>5. HeldSinceOpened'
    BY <1>1 DEF Connect
  <2> QED
    BY <2>2, <2>3, <2>4, <2>5
<1>2. ASSUME NEW c \in Conn, Close(c)
      PROVE  SubscriptionInv'
  BY <1>2 DEF Close
<1>3. ASSUME NEW c \in Conn, CleanupStamp(c) \/ CleanupRead(c) \/ CleanupClear(c) \/ CleanupNotify(c)
      PROVE  Kept
  BY <1>3 DEF CleanupStamp, CleanupRead, CleanupClear, CleanupNotify
<1>4. ASSUME NEW c \in Conn, NEW verb \in Verb, NEW d \in Dm, DmCommand(c, verb, d)
      PROVE  SubscriptionInv'
  BY <1>4 DEF DmCommand, Apply
<1>5. ASSUME NEW c \in Conn, NEW verb \in Verb, NEW r \in Room, RoomCommand(c, verb, r)
      PROVE  SubscriptionInv'
  BY <1>5 DEF RoomCommand
<1>6. ASSUME NEW m \in commands, CheckAccess(m)
      PROVE  SubscriptionInv'
  <2>1. PICK x \in Command :
          /\ commands' = (commands \ {m}) \cup {x}
          /\ x.conn = m.conn /\ x.room = m.room
          /\ x.access = "granted" => MayUse(UserOf[m.conn], m.room)
    <3>1. m \in Command
      OBVIOUS
    <3>2. CASE MayUse(UserOf[m.conn], m.room)
      <4>1. commands' = (commands \ {m}) \cup {[m EXCEPT !.access = "granted"]}
        BY <1>6, <3>2 DEF CheckAccess
      <4>2. [m EXCEPT !.access = "granted"] \in Command
        BY <3>1
      <4> QED
        BY <3>1, <3>2, <4>1, <4>2
    <3>3. CASE ~MayUse(UserOf[m.conn], m.room)
      <4>1. commands' = (commands \ {m}) \cup {[m EXCEPT !.access = "refused"]}
        BY <1>6, <3>3 DEF CheckAccess
      <4>2. [m EXCEPT !.access = "refused"] \in Command
        BY <3>1
      <4> QED
        BY <3>1, <4>1, <4>2
    <3> QED
      BY <3>2, <3>3
  <2>2. x.access = "granted" => x.room \in held[x.conn]
    BY <2>1
  <2>3. UNCHANGED <<conn, subscriptions, access, held>>
    BY <1>6 DEF CheckAccess
  <2> QED
    BY <2>1, <2>2, <2>3
<1>7. ASSUME NEW m \in commands, FinishCommand(m)
      PROVE  SubscriptionInv'
  <2>1. UNCHANGED <<conn, access, held>> /\ commands' \subseteq commands
    BY <1>7 DEF FinishCommand
  <2>2. SubscribersWereAllowed'
    <3>1. CASE m.access = "granted"
      <4>1. m.room \in Thread /\ m.conn \in Conn /\ m.room \in held[m.conn]
        BY <3>1
      <4>2. Apply(m.verb, m.room, m.conn)
        BY <1>7, <3>1 DEF FinishCommand
      <4>3. \A t \in Thread :
              subscriptions'[t] \subseteq subscriptions[t] \cup (IF t = m.room THEN {m.conn} ELSE {})
        BY <4>1, <4>2 DEF Apply
      <4> QED
        BY <2>1, <4>1, <4>3
    <3>2. CASE m.access # "granted"
      BY <1>7, <2>1, <3>2 DEF FinishCommand
    <3> QED
      BY <3>1, <3>2
  <2> QED
    BY <2>1, <2>2
<1>8. ASSUME NEW p \in Post, NEW u, NEW r, PresenceSend(p) \/ PresenceUpdate(p, u, r)
      PROVE  Kept
  BY <1>8 DEF PresenceSend, PresenceUpdate
<1>9. ASSUME NEW u \in User, NEW r \in Room, GainAccess(u, r)
      PROVE  SubscriptionInv'
  BY <1>9 DEF GainAccess
<1>10. ASSUME NEW u \in User, NEW r \in Room, LoseAccess(u, r)
       PROVE  SubscriptionInv'
  BY <1>10 DEF LoseAccess
<1>11. UNCHANGED vars => Kept
  BY DEF vars
<1>12. Kept => SubscriptionInv'
  OBVIOUS
<1> QED
  BY NextCases, <1>1, <1>2, <1>3, <1>4, <1>5, <1>6, <1>7, <1>8, <1>9, <1>10, <1>11, <1>12

\* A socket is subscribed only to what its user could use at some moment since
\* it opened (the access check of the message handler).
THEOREM SubscriptionsCorrect == Spec => []SubscribersWereAllowed
<1>1. Init => SubscriptionInv
  BY ConnAssumption DEF Init, SubscriptionInv, SubscribersWereAllowed, GrantsWereAllowed,
                        HeldKeepsUp, HeldSinceOpened
<1>2. TypeOK /\ SubscriptionInv /\ [Next]_vars => SubscriptionInv'
  BY SubscriptionStep
<1>3. SubscriptionInv => SubscribersWereAllowed
  BY DEF SubscriptionInv
<1> QED
  BY <1>1, <1>2, <1>3, TypeCorrect, PTL DEF Spec

(***************************************************************************)
(* Notifications: the types.                                               *)
(***************************************************************************)

\* What is left of a sequence when one element is taken out, and what comes before
\* it replaced by as many others.
LEMMA Spliced ==
  ASSUME NEW S, NEW s \in Seq(S), NEW k \in DOMAIN s, NEW before \in Seq(S), Len(before) = k - 1
  PROVE  /\ before \o SubSeq(s, k + 1, Len(s)) \in Seq(S)
         /\ Len(before \o SubSeq(s, k + 1, Len(s))) = Len(s) - 1
         /\ \A i \in 1 .. Len(s) - 1 :
              (before \o SubSeq(s, k + 1, Len(s)))[i] = IF i < k THEN before[i] ELSE s[i + 1]
<1> DEFINE after == SubSeq(s, k + 1, Len(s))
<1>1. k \in 1 .. Len(s) /\ Len(s) \in Nat
  OBVIOUS
<1>3. /\ after \in Seq(S) /\ Len(after) = Len(s) - k
      /\ \A i \in 1 .. Len(s) - k : after[i] = s[k + i]
  <2>1. k + 1 \in Int /\ Len(s) \in Int /\ \A i \in k + 1 .. Len(s) : s[i] \in S
    BY <1>1, ElementOfSeq
  <2>2. /\ after \in Seq(S) /\ Len(after) = IF k + 1 <= Len(s) THEN Len(s) - (k + 1) + 1 ELSE 0
        /\ \A i \in 1 .. Len(s) - (k + 1) + 1 : after[i] = s[(k + 1) + i - 1]
    BY <2>1, SubSeqProperties
  <2>. HIDE DEF after
  <2>. QED  BY <1>1, <2>2
<1>4. /\ before \o after \in Seq(S) /\ Len(before \o after) = Len(s) - 1
      /\ \A i \in 1 .. Len(s) - 1 :
           (before \o after)[i] = IF i <= k - 1 THEN before[i] ELSE after[i - (k - 1)]
  <2>. HIDE DEF after
  <2>1. /\ before \o after \in Seq(S) /\ Len(before \o after) = Len(before) + Len(after)
        /\ \A i \in 1 .. Len(before) + Len(after) :
             (before \o after)[i] = IF i <= Len(before) THEN before[i] ELSE after[i - Len(before)]
    BY <1>3, ConcatProperties
  <2>2. Len(before) = k - 1 /\ Len(before) + Len(after) = Len(s) - 1
    BY <1>1, <1>3
  <2>. QED  BY <2>1, <2>2
<1>5. ASSUME NEW i \in 1 .. Len(s) - 1
      PROVE  (before \o after)[i] = IF i < k THEN before[i] ELSE s[i + 1]
  <2> HIDE DEF after
  <2>1. CASE i < k
    BY <2>1, <1>1, <1>4
  <2>2. CASE ~(i < k)
    <3>1. /\ i - (k - 1) \in 1 .. Len(s) - k /\ ~(i <= k - 1)
          /\ k + (i - (k - 1)) = i + 1
      BY <2>2, <1>1
    <3>2. (before \o after)[i] = after[i - (k - 1)]
      BY <3>1, <1>4
    <3>. QED  BY <2>2, <3>1, <3>2, <1>3
  <2>. QED  BY <2>1, <2>2
<1>. QED  BY <1>4, <1>5

\* A sequence without one of its elements: which are left, and where.
LEMMA Without ==
  ASSUME NEW S, NEW s \in Seq(S), NEW k \in DOMAIN s
  PROVE  /\ RemoveAt(s, k) \in Seq(S) /\ Len(RemoveAt(s, k)) = Len(s) - 1
         /\ \A i \in 1 .. Len(s) - 1 : RemoveAt(s, k)[i] = IF i < k THEN s[i] ELSE s[i + 1]
<1>. DEFINE before == SubSeq(s, 1, k - 1)
<1>1. /\ before \in Seq(S) /\ Len(before) = k - 1
      /\ \A i \in 1 .. k - 1 : before[i] = s[i]
  BY SubSeqProperties
<1>2. RemoveAt(s, k) = before \o SubSeq(s, k + 1, Len(s))
  BY DEF RemoveAt
<1>. HIDE DEF before
<1>3. \A i \in 1 .. Len(s) - 1 : i < k => i \in 1 .. k - 1
  OBVIOUS
<1>4. /\ before \o SubSeq(s, k + 1, Len(s)) \in Seq(S)
      /\ Len(before \o SubSeq(s, k + 1, Len(s))) = Len(s) - 1
      /\ \A i \in 1 .. Len(s) - 1 :
           (before \o SubSeq(s, k + 1, Len(s)))[i] = IF i < k THEN before[i] ELSE s[i + 1]
  BY <1>1, Spliced, Zenon
<1>. QED  BY <1>1, <1>2, <1>3, <1>4

\* Appending adds the last element and leaves the others.
LEMMA WithLast ==
  ASSUME NEW S, NEW s \in Seq(S), NEW e \in S
  PROVE  /\ Append(s, e) \in Seq(S) /\ Len(Append(s, e)) = Len(s) + 1 /\ Append(s, e) # <<>>
         /\ DOMAIN Append(s, e) = 1 .. Len(s) + 1 /\ Append(s, e)[Len(s) + 1] = e
         /\ \A i \in DOMAIN s : Append(s, e)[i] = s[i]
BY AppendProperties

\* Changing one element of a sequence leaves its length and the others.
LEMMA Changed ==
  ASSUME NEW S, NEW s \in Seq(S), NEW k \in DOMAIN s, NEW e \in S
  PROVE  /\ [s EXCEPT ![k] = e] \in Seq(S) /\ DOMAIN [s EXCEPT ![k] = e] = DOMAIN s
         /\ Len([s EXCEPT ![k] = e]) = Len(s)
BY ExceptSeq

\* Overtaken feeds are as many, and none of them is fresh.
LEMMA OvertakenFeeds ==
  ASSUME NEW fs \in Seq(Feed)
  PROVE  /\ Overtaken(fs) \in Seq(Feed) /\ Len(Overtaken(fs)) = Len(fs)
         /\ DOMAIN Overtaken(fs) = DOMAIN fs /\ DOMAIN fs = 1 .. Len(fs)
         /\ \A k \in DOMAIN fs : /\ Overtaken(fs)[k] = [fs[k] EXCEPT !.fresh = FALSE]
                                 /\ ~Overtaken(fs)[k].fresh /\ Overtaken(fs)[k] \in Feed
<1>1. ASSUME NEW k \in DOMAIN fs
      PROVE  fs[k] \in Feed /\ [fs[k] EXCEPT !.fresh = FALSE] \in Feed /\ ~[fs[k] EXCEPT !.fresh = FALSE].fresh
  <2>1. fs[k] \in Feed
    BY ElementOfSeq
  <2>. QED  BY <2>1 DEF Feed
<1>2. Overtaken(fs) = [k \in 1 .. Len(fs) |-> [fs[k] EXCEPT !.fresh = FALSE]]
  BY DEF Overtaken
<1>3. Overtaken(fs) \in Seq(Feed)
  BY <1>1, <1>2, IsASeq
<1>. QED  BY <1>1, <1>2, <1>3
\* The disjuncts of NotificationsNext, for the proofs below to split on.
LEMMA NotificationsCases ==
  ASSUME [NotificationsNext]_notificationsVars
  PROVE  \/ \E t \in Direct, mention \in BOOLEAN : PeerSends(t, mention)
         \/ \E r \in reading : ReadStamped(r)
         \/ \E r \in reading : ReadWritten(r)
         \/ \E k \in DOMAIN refreshing : CountUnread(k)
         \/ \E m \in muting : MuteWritten(m)
         \/ \E l \in lookups : MuteRead(l)
         \/ \E i \in Invite : InviteSent(i)
         \/ \E k \in DOMAIN feeds : FeedRead(k)
         \/ \E r \in answering : AnswerHandled(r)
         \/ \E u \in Account : SignIn(u)
         \/ SignOut
         \/ GoToDms
         \/ GoToLobby
         \/ Unsplit
         \/ CloseActive
         \/ \E t \in Direct : Select(t)
         \/ \E t \in Direct : Split(t)
         \/ \E k \in DOMAIN refreshing : UnreadArrives(k)
         \/ \E k \in DOMAIN refreshing : UnreadFails(k)
         \/ DeliverMessage
         \/ \E l \in lookups : MuteArrives(l)
         \/ \E l \in lookups : MuteLookupFails(l)
         \/ \E t \in Direct, level \in Level : SetMute(t, level)
         \/ \E m \in muting : MuteAnswered(m)
         \/ DeliverInvite
         \/ OpenBell
         \/ \E k \in DOMAIN feeds : FeedArrives(k)
         \/ \E k \in DOMAIN feeds : FeedFails(k)
         \/ \E i \in Invite, op \in {"accepted", "declined"} : AnswerInBell(op, i)
         \/ \E i \in Invite : DismissCard(i)
         \/ \E i \in Invite : JoinFromCard(i)
         \/ \E i \in Invite : CloseCard(i)
         \/ \E r \in answering : AnswerLost(r)
         \/ \E r \in answering : AnswerArrives(r)
         \/ UNCHANGED notificationsVars
BY DEF NotificationsNext, OfServer, OfScreens, OfMutes, OfBell

\* All of NotificationsTypeOK but that totalUnread is a natural number, which
\* needs what a sum over the threads is.
Typed == does \in Profiles /\ ServerTypes /\ PlaceTypes /\ UnreadTypes /\ MuteTypes /\ BellTypes

\* The bounds of a profile are numbers.
LEMMA Profiled ==
  ASSUME does \in Profiles
  PROVE  /\ does.messages \in Nat /\ does.moves \in Nat /\ does.refreshes \in Nat /\ does.feeds \in Nat
         /\ does.threads \subseteq Direct /\ does.invites \subseteq Invite
         /\ does.invites = {} \/ "accounts" \notin does.ops
BY NotificationsAssumption DEF Profile

\* Every step keeps the types of the server.
LEMMA ServerTyped ==
  ASSUME Typed, [NotificationsNext]_notificationsVars
  PROVE  ServerTypes'
<1>. USE NotificationsAssumption, Profiled DEF Typed, ServerTypes
<1>. USE DEF bell, mutes, unread, place, server
<1>1. ASSUME NEW t \in Direct, NEW mention \in BOOLEAN, PeerSends(t, mention)
      PROVE  ServerTypes'
  <2>1. [thread |-> t, at |-> now + 1, mention |-> mention] \in Message
    BY DEF Message
  <2>2. messages' \in Seq(Message) /\ Len(messages') <= does'.messages
    BY <1>1, <2>1 DEF PeerSends
  <2>3. /\ [kind |-> "message", thread |-> t] \in Event /\ [kind |-> "mention", thread |-> t] \in Event
    BY DEF Event, Kind
  <2>4. events' \in Seq(Event)
    BY <1>1, <2>3 DEF PeerSends
  <2>. QED  BY <1>1, <2>2, <2>4 DEF PeerSends
<1>2. ASSUME NEW r \in reading, ReadStamped(r)
      PROVE  ServerTypes'
  BY <1>2 DEF ReadStamped
<1>3. ASSUME NEW r \in reading, ReadWritten(r)
      PROVE  ServerTypes'
  BY <1>3 DEF ReadWritten, UnreadTypes, Reading
<1>4. ASSUME NEW k \in DOMAIN refreshing, CountUnread(k)
      PROVE  ServerTypes'
  BY <1>4 DEF CountUnread
<1>5. ASSUME NEW m \in muting, MuteWritten(m)
      PROVE  ServerTypes'
  BY <1>5 DEF MuteWritten, MuteTypes
<1>6. ASSUME NEW l \in lookups, MuteRead(l)
      PROVE  ServerTypes'
  BY <1>6 DEF MuteRead
<1>7. ASSUME NEW i \in Invite, InviteSent(i)
      PROVE  ServerTypes'
  <2>1. [kind |-> "invite", invite |-> i] \in Event
    BY DEF Event
  <2>. QED  BY <1>7, <2>1 DEF InviteSent
<1>8. ASSUME NEW k \in DOMAIN feeds, FeedRead(k)
      PROVE  ServerTypes'
  BY <1>8 DEF FeedRead
<1>9. ASSUME NEW r \in answering, AnswerHandled(r)
      PROVE  ServerTypes'
  BY <1>9 DEF AnswerHandled, BellTypes, Answer
<1>10. ASSUME NEW u \in Account, SignIn(u)
      PROVE  ServerTypes'
  BY <1>10 DEF SignIn
<1>11. ASSUME SignOut
      PROVE  ServerTypes'
  BY <1>11 DEF SignOut
<1>12. ASSUME GoToDms
      PROVE  ServerTypes'
  BY <1>12 DEF GoToDms
<1>13. ASSUME GoToLobby
      PROVE  ServerTypes'
  BY <1>13 DEF GoToLobby
<1>14. ASSUME Unsplit
      PROVE  ServerTypes'
  BY <1>14 DEF Unsplit
<1>15. ASSUME CloseActive
      PROVE  ServerTypes'
  BY <1>15 DEF CloseActive
<1>16. ASSUME NEW t \in Direct, Select(t)
      PROVE  ServerTypes'
  BY <1>16 DEF Select
<1>17. ASSUME NEW t \in Direct, Split(t)
      PROVE  ServerTypes'
  BY <1>17 DEF Split
<1>18. ASSUME NEW k \in DOMAIN refreshing, UnreadArrives(k)
      PROVE  ServerTypes'
  BY <1>18 DEF UnreadArrives
<1>19. ASSUME NEW k \in DOMAIN refreshing, UnreadFails(k)
      PROVE  ServerTypes'
  BY <1>19 DEF UnreadFails
<1>20. ASSUME DeliverMessage
      PROVE  ServerTypes'
  BY <1>20 DEF DeliverMessage
<1>21. ASSUME NEW l \in lookups, MuteArrives(l)
      PROVE  ServerTypes'
  BY <1>21 DEF MuteArrives
<1>22. ASSUME NEW l \in lookups, MuteLookupFails(l)
      PROVE  ServerTypes'
  BY <1>22 DEF MuteLookupFails
<1>23. ASSUME NEW t \in Direct, NEW level \in Level, SetMute(t, level)
      PROVE  ServerTypes'
  BY <1>23 DEF SetMute
<1>24. ASSUME NEW m \in muting, MuteAnswered(m)
      PROVE  ServerTypes'
  BY <1>24 DEF MuteAnswered
<1>25. ASSUME DeliverInvite
      PROVE  ServerTypes'
  BY <1>25 DEF DeliverInvite
<1>26. ASSUME OpenBell
      PROVE  ServerTypes'
  BY <1>26 DEF OpenBell
<1>27. ASSUME NEW k \in DOMAIN feeds, FeedArrives(k)
      PROVE  ServerTypes'
  BY <1>27 DEF FeedArrives
<1>28. ASSUME NEW k \in DOMAIN feeds, FeedFails(k)
      PROVE  ServerTypes'
  BY <1>28 DEF FeedFails
<1>29. ASSUME NEW i \in Invite, NEW op \in {"accepted", "declined"}, AnswerInBell(op, i)
      PROVE  ServerTypes'
  BY <1>29 DEF AnswerInBell
<1>30. ASSUME NEW i \in Invite, DismissCard(i)
      PROVE  ServerTypes'
  BY <1>30 DEF DismissCard
<1>31. ASSUME NEW i \in Invite, JoinFromCard(i)
      PROVE  ServerTypes'
  BY <1>31 DEF JoinFromCard
<1>32. ASSUME NEW i \in Invite, CloseCard(i)
      PROVE  ServerTypes'
  BY <1>32 DEF CloseCard
<1>33. ASSUME NEW r \in answering, AnswerLost(r)
      PROVE  ServerTypes'
  BY <1>33 DEF AnswerLost
<1>34. ASSUME NEW r \in answering, AnswerArrives(r)
      PROVE  ServerTypes'
  BY <1>34 DEF AnswerArrives
<1>35. ASSUME UNCHANGED notificationsVars
      PROVE  ServerTypes'
  BY <1>35 DEF notificationsVars
<1>. QED  BY <1>1, <1>2, <1>3, <1>4, <1>5, <1>6, <1>7, <1>8, <1>9, <1>10, <1>11, <1>12,
           <1>13, <1>14, <1>15, <1>16, <1>17, <1>18, <1>19, <1>20, <1>21, <1>22, <1>23,
           <1>24, <1>25, <1>26, <1>27, <1>28, <1>29, <1>30, <1>31, <1>32, <1>33, <1>34,
           <1>35, NotificationsCases

\* Every step keeps the types of where the user is.
LEMMA PlaceTyped ==
  ASSUME Typed, [NotificationsNext]_notificationsVars
  PROVE  PlaceTypes'
<1>. USE NotificationsAssumption, Profiled DEF Typed, PlaceTypes
<1>. USE DEF bell, mutes, unread, place, server
<1>1. ASSUME NEW t \in Direct, NEW mention \in BOOLEAN, PeerSends(t, mention)
      PROVE  PlaceTypes'
  BY <1>1 DEF PeerSends
<1>2. ASSUME NEW r \in reading, ReadStamped(r)
      PROVE  PlaceTypes'
  BY <1>2 DEF ReadStamped
<1>3. ASSUME NEW r \in reading, ReadWritten(r)
      PROVE  PlaceTypes'
  BY <1>3 DEF ReadWritten
<1>4. ASSUME NEW k \in DOMAIN refreshing, CountUnread(k)
      PROVE  PlaceTypes'
  BY <1>4 DEF CountUnread
<1>5. ASSUME NEW m \in muting, MuteWritten(m)
      PROVE  PlaceTypes'
  BY <1>5 DEF MuteWritten
<1>6. ASSUME NEW l \in lookups, MuteRead(l)
      PROVE  PlaceTypes'
  BY <1>6 DEF MuteRead
<1>7. ASSUME NEW i \in Invite, InviteSent(i)
      PROVE  PlaceTypes'
  BY <1>7 DEF InviteSent
<1>8. ASSUME NEW k \in DOMAIN feeds, FeedRead(k)
      PROVE  PlaceTypes'
  BY <1>8 DEF FeedRead
<1>9. ASSUME NEW r \in answering, AnswerHandled(r)
      PROVE  PlaceTypes'
  BY <1>9 DEF AnswerHandled
<1>10. ASSUME NEW u \in Account, SignIn(u)
      PROVE  PlaceTypes'
  BY <1>10 DEF SignIn, Move, Mine
<1>11. ASSUME SignOut
      PROVE  PlaceTypes'
  BY <1>11 DEF SignOut, Move, Mine
<1>12. ASSUME GoToDms
      PROVE  PlaceTypes'
  BY <1>12 DEF GoToDms, Move, Mine
<1>13. ASSUME GoToLobby
      PROVE  PlaceTypes'
  BY <1>13 DEF GoToLobby, Move, Mine
<1>14. ASSUME Unsplit
      PROVE  PlaceTypes'
  BY <1>14 DEF Unsplit, Move, Mine
<1>15. ASSUME CloseActive
      PROVE  PlaceTypes'
  BY <1>15 DEF CloseActive, Move, Mine
<1>16. ASSUME NEW t \in Direct, Select(t)
      PROVE  PlaceTypes'
  BY <1>16 DEF Select, Move, Mine
<1>17. ASSUME NEW t \in Direct, Split(t)
      PROVE  PlaceTypes'
  BY <1>17 DEF Split, Move, Mine
<1>18. ASSUME NEW k \in DOMAIN refreshing, UnreadArrives(k)
      PROVE  PlaceTypes'
  BY <1>18 DEF UnreadArrives
<1>19. ASSUME NEW k \in DOMAIN refreshing, UnreadFails(k)
      PROVE  PlaceTypes'
  BY <1>19 DEF UnreadFails
<1>20. ASSUME DeliverMessage
      PROVE  PlaceTypes'
  BY <1>20 DEF DeliverMessage
<1>21. ASSUME NEW l \in lookups, MuteArrives(l)
      PROVE  PlaceTypes'
  BY <1>21 DEF MuteArrives
<1>22. ASSUME NEW l \in lookups, MuteLookupFails(l)
      PROVE  PlaceTypes'
  BY <1>22 DEF MuteLookupFails
<1>23. ASSUME NEW t \in Direct, NEW level \in Level, SetMute(t, level)
      PROVE  PlaceTypes'
  BY <1>23 DEF SetMute
<1>24. ASSUME NEW m \in muting, MuteAnswered(m)
      PROVE  PlaceTypes'
  BY <1>24 DEF MuteAnswered
<1>25. ASSUME DeliverInvite
      PROVE  PlaceTypes'
  BY <1>25 DEF DeliverInvite
<1>26. ASSUME OpenBell
      PROVE  PlaceTypes'
  BY <1>26 DEF OpenBell, Move, Mine
<1>27. ASSUME NEW k \in DOMAIN feeds, FeedArrives(k)
      PROVE  PlaceTypes'
  BY <1>27 DEF FeedArrives
<1>28. ASSUME NEW k \in DOMAIN feeds, FeedFails(k)
      PROVE  PlaceTypes'
  BY <1>28 DEF FeedFails
<1>29. ASSUME NEW i \in Invite, NEW op \in {"accepted", "declined"}, AnswerInBell(op, i)
      PROVE  PlaceTypes'
  BY <1>29 DEF AnswerInBell
<1>30. ASSUME NEW i \in Invite, DismissCard(i)
      PROVE  PlaceTypes'
  BY <1>30 DEF DismissCard
<1>31. ASSUME NEW i \in Invite, JoinFromCard(i)
      PROVE  PlaceTypes'
  BY <1>31 DEF JoinFromCard
<1>32. ASSUME NEW i \in Invite, CloseCard(i)
      PROVE  PlaceTypes'
  BY <1>32 DEF CloseCard
<1>33. ASSUME NEW r \in answering, AnswerLost(r)
      PROVE  PlaceTypes'
  BY <1>33 DEF AnswerLost
<1>34. ASSUME NEW r \in answering, AnswerArrives(r)
      PROVE  PlaceTypes'
  BY <1>34 DEF AnswerArrives
<1>35. ASSUME UNCHANGED notificationsVars
      PROVE  PlaceTypes'
  BY <1>35 DEF notificationsVars
<1>. QED  BY <1>1, <1>2, <1>3, <1>4, <1>5, <1>6, <1>7, <1>8, <1>9, <1>10, <1>11, <1>12,
           <1>13, <1>14, <1>15, <1>16, <1>17, <1>18, <1>19, <1>20, <1>21, <1>22, <1>23,
           <1>24, <1>25, <1>26, <1>27, <1>28, <1>29, <1>30, <1>31, <1>32, <1>33, <1>34,
           <1>35, NotificationsCases

\* Asking for the counts keeps their types.
LEMMA AskTyped ==
  ASSUME Typed, NEW u \in Account, Refreshes([AskUnread EXCEPT !.of = u])
  PROVE  refreshing' \in Seq(Refresh)
<1>1. [AskUnread EXCEPT !.of = u] \in Refresh
  BY DEF AskUnread, Refresh, Zero, Default, Level
<1>. QED  BY <1>1, WithLast DEF Refreshes, Typed, UnreadTypes

\* What a change of the open threads does keeps the types of the counts.
LEMMA MarkTyped ==
  ASSUME Typed, NEW open \in SUBSET Direct, moves' \in Nat, MarkOpen(open)
  PROVE  /\ reading' \subseteq Reading /\ (\A r \in reading' : r.at <= now)
         /\ counts' \in [Direct -> Nat] /\ owed' \subseteq Direct
BY DEF Typed, UnreadTypes, ServerTypes, MarkOpen, Reading

\* The messages that computeUnread counts.
UnreadIn(t, reads, levels) ==
  {i \in DOMAIN messages :
     /\ messages[i].thread = t /\ messages[i].at > reads[t]
     /\ levels[t] = "mentions" => messages[i].mention}

\* The messages that count are finitely many.
LEMMA UnreadFinite ==
  ASSUME Typed, NEW t, NEW reads, NEW levels
  PROVE  IsFiniteSet(UnreadIn(t, reads, levels)) /\ Cardinality(UnreadIn(t, reads, levels)) \in Nat
<1>1. DOMAIN messages = 1 .. Len(messages) /\ Len(messages) \in Nat
  BY DEF Typed, ServerTypes
<1>2. IsFiniteSet(DOMAIN messages)
  BY <1>1, FS_Interval
<1>3. IsFiniteSet(UnreadIn(t, reads, levels))
  BY <1>2, FS_Subset DEF UnreadIn
<1>. QED  BY <1>3, FS_CardinalityType

\* computeUnread gives every thread a number.
LEMMA ComputeTyped ==
  ASSUME Typed, NEW u, NEW reads, NEW levels
  PROVE  ComputeUnread(u, reads, levels) \in [Direct -> Nat]
<1>1. ComputeUnread(u, reads, levels) =
        [t \in Direct |-> IF Of[t] # u \/ levels[t] = "none" THEN 0
                          ELSE Cardinality(UnreadIn(t, reads, levels))]
  BY DEF ComputeUnread, UnreadIn
<1>. QED  BY <1>1, UnreadFinite

\* Asking for the feed keeps the types of the bell, and so does overtaking.
LEMMA FeedTyped ==
  ASSUME Typed
  PROVE  /\ RefreshesBell => feeds' \in Seq(Feed)
         /\ Overtaken(feeds) \in Seq(Feed)
<1>1. AskFeed \in Feed
  BY DEF AskFeed, Feed
<1>. QED  BY <1>1, WithLast, OvertakenFeeds DEF RefreshesBell, Typed, BellTypes

\* Every step keeps the types of the unread counts.
LEMMA UnreadTyped ==
  ASSUME Typed, [NotificationsNext]_notificationsVars
  PROVE  UnreadTypes'
<1>. USE NotificationsAssumption, Profiled DEF Typed, UnreadTypes
<1>. USE DEF bell, mutes, unread, place, server
<1>1. ASSUME NEW t \in Direct, NEW mention \in BOOLEAN, PeerSends(t, mention)
      PROVE  UnreadTypes'
  <2>1. now \in Nat /\ now' = now + 1 /\ UNCHANGED unread
    BY <1>1 DEF PeerSends, ServerTypes
  <2>2. \A r \in reading : r.at \in Nat /\ r.at <= now
    BY DEF Reading
  <2>3. \A r \in reading' : r.at <= now'
    BY <2>1, <2>2
  <2>. QED  BY <2>1, <2>3
<1>2. ASSUME NEW r \in reading, ReadStamped(r)
      PROVE  UnreadTypes'
  <2>1. now \in Nat /\ now' = now + 1
    BY <1>2 DEF ReadStamped, ServerTypes
  <2>2. r \in Reading /\ r = [thread |-> r.thread, move |-> r.move, at |-> r.at]
    BY DEF Reading
  <2>3. [r EXCEPT !.at = now + 1] \in Reading /\ [r EXCEPT !.at = now + 1].at = now + 1
    BY <2>1, <2>2 DEF Reading
  <2>4. ASSUME NEW q \in reading'
        PROVE  q \in Reading /\ q.at <= now'
    <3>1. CASE q = [r EXCEPT !.at = now + 1]
      BY <3>1, <2>1, <2>3
    <3>2. CASE q \in reading
      <4>1. q \in Reading /\ q.at \in Nat /\ q.at <= now
        BY <3>2 DEF Reading
      <4>. QED  BY <4>1, <2>1
    <3>. QED  BY <1>2, <2>4, <3>1, <3>2 DEF ReadStamped
  <2>5. UNCHANGED <<counts, refreshing, owed>>
    BY <1>2 DEF ReadStamped
  <2>. QED  BY <2>4, <2>5
<1>3. ASSUME NEW r \in reading, ReadWritten(r)
      PROVE  UnreadTypes'
  BY <1>3 DEF ReadWritten
<1>4. ASSUME NEW k \in DOMAIN refreshing, CountUnread(k)
      PROVE  UnreadTypes'
  <2>. DEFINE f == refreshing[k]
              g == CASE f.at = "asked" -> [f EXCEPT !.at = "reads", !.reads = lastReadAt]
                     [] f.at = "reads" -> [f EXCEPT !.at = "mutes", !.mutes = mute]
                     [] f.at = "mutes" -> [f EXCEPT !.at = "counted",
                                                    !.counts = ComputeUnread(f.of, f.reads, f.mutes)]
  <2>1. f \in Refresh /\ f.at # "counted"
    BY <1>4, ElementOfSeq DEF CountUnread
  <2>2. ComputeUnread(f.of, f.reads, f.mutes) \in [Direct -> Nat]
    BY ComputeTyped
  <2>3. lastReadAt \in [Direct -> Nat] /\ mute \in [Direct -> Level]
    BY DEF ServerTypes
  <2>4. g \in Refresh
    BY <2>1, <2>2, <2>3 DEF Refresh
  <2>5. refreshing' = [refreshing EXCEPT ![k] = g]
    BY <1>4 DEF CountUnread
  <2>6. refreshing' \in Seq(Refresh)
    <3>. HIDE DEF g
    <3>. QED  BY <2>4, <2>5, Changed
  <2>. QED  BY <1>4, <2>6 DEF CountUnread
<1>5. ASSUME NEW m \in muting, MuteWritten(m)
      PROVE  UnreadTypes'
  BY <1>5 DEF MuteWritten
<1>6. ASSUME NEW l \in lookups, MuteRead(l)
      PROVE  UnreadTypes'
  BY <1>6 DEF MuteRead
<1>7. ASSUME NEW i \in Invite, InviteSent(i)
      PROVE  UnreadTypes'
  BY <1>7 DEF InviteSent
<1>8. ASSUME NEW k \in DOMAIN feeds, FeedRead(k)
      PROVE  UnreadTypes'
  BY <1>8 DEF FeedRead
<1>9. ASSUME NEW r \in answering, AnswerHandled(r)
      PROVE  UnreadTypes'
  BY <1>9 DEF AnswerHandled
<1>10. ASSUME NEW u \in Account, SignIn(u)
      PROVE  UnreadTypes'
  BY <1>10, AskTyped DEF SignIn
<1>11. ASSUME SignOut
      PROVE  UnreadTypes'
  BY <1>11 DEF SignOut, Zero
<1>12. ASSUME GoToDms
      PROVE  UnreadTypes'
  <2>1. me \in Account /\ AskUnread = [AskUnread EXCEPT !.of = me]
    BY <1>12 DEF GoToDms, PlaceTypes, AskUnread
  <2>. QED  BY <1>12, <2>1, AskTyped DEF GoToDms
<1>13. ASSUME GoToLobby
      PROVE  UnreadTypes'
  <2>1. me \in Account /\ AskUnread = [AskUnread EXCEPT !.of = me]
    BY <1>13 DEF GoToLobby, PlaceTypes, AskUnread
  <2>. QED  BY <1>13, <2>1, AskTyped DEF GoToLobby
<1>14. ASSUME Unsplit
      PROVE  UnreadTypes'
  <2>1. moves' \in Nat /\ {active} \in SUBSET Direct
    BY <1>14 DEF Unsplit, Move, PlaceTypes, Mine, NoThreadless
  <2>. QED  BY <1>14, <2>1, MarkTyped DEF Unsplit
<1>15. ASSUME CloseActive
      PROVE  UnreadTypes'
  <2>1. moves' \in Nat /\ NoThreadless({split}) \in SUBSET Direct
    BY <1>15 DEF CloseActive, Move, PlaceTypes, Mine, NoThreadless
  <2>. QED  BY <1>15, <2>1, MarkTyped DEF CloseActive
<1>16. ASSUME NEW t \in Direct, Select(t)
      PROVE  UnreadTypes'
  <2>1. moves' \in Nat /\ NoThreadless({t, split}) \in SUBSET Direct
    BY <1>16 DEF Select, Move, PlaceTypes, Mine, NoThreadless
  <2>. QED  BY <1>16, <2>1, MarkTyped DEF Select
<1>17. ASSUME NEW t \in Direct, Split(t)
      PROVE  UnreadTypes'
  <2>1. moves' \in Nat /\ {active, t} \in SUBSET Direct
    BY <1>17 DEF Split, Move, PlaceTypes, Mine, NoThreadless
  <2>. QED  BY <1>17, <2>1, MarkTyped DEF Split
<1>18. ASSUME NEW k \in DOMAIN refreshing, UnreadArrives(k)
      PROVE  UnreadTypes'
  <2>1. refreshing[k] \in Refresh /\ RemoveAt(refreshing, k) \in Seq(Refresh)
    BY Without, ElementOfSeq
  <2>. QED  BY <1>18, <2>1 DEF UnreadArrives, Refresh
<1>19. ASSUME NEW k \in DOMAIN refreshing, UnreadFails(k)
      PROVE  UnreadTypes'
  BY <1>19, Without DEF UnreadFails
<1>20. ASSUME DeliverMessage
      PROVE  UnreadTypes'
  <2>1. Head(events) \in Event /\ Head(events).kind \in Kind
    BY <1>20, HeadTailProperties DEF DeliverMessage, ServerTypes
  <2>2. Head(events).thread \in Direct
    BY <2>1 DEF Event, Kind
  <2>3. OwedFor(Head(events).thread) \subseteq Direct
    BY <2>2 DEF OwedFor
  <2>4. counts' \in [Direct -> Nat] /\ owed' \subseteq Direct
    BY <1>20, <2>3 DEF DeliverMessage
  <2>. QED  BY <1>20, <2>4 DEF DeliverMessage
<1>21. ASSUME NEW l \in lookups, MuteArrives(l)
      PROVE  UnreadTypes'
  BY <1>21 DEF MuteArrives
<1>22. ASSUME NEW l \in lookups, MuteLookupFails(l)
      PROVE  UnreadTypes'
  BY <1>22 DEF MuteLookupFails
<1>23. ASSUME NEW t \in Direct, NEW level \in Level, SetMute(t, level)
      PROVE  UnreadTypes'
  BY <1>23 DEF SetMute
<1>24. ASSUME NEW m \in muting, MuteAnswered(m)
      PROVE  UnreadTypes'
  BY <1>24 DEF MuteAnswered
<1>25. ASSUME DeliverInvite
      PROVE  UnreadTypes'
  BY <1>25 DEF DeliverInvite
<1>26. ASSUME OpenBell
      PROVE  UnreadTypes'
  BY <1>26 DEF OpenBell
<1>27. ASSUME NEW k \in DOMAIN feeds, FeedArrives(k)
      PROVE  UnreadTypes'
  BY <1>27 DEF FeedArrives
<1>28. ASSUME NEW k \in DOMAIN feeds, FeedFails(k)
      PROVE  UnreadTypes'
  BY <1>28 DEF FeedFails
<1>29. ASSUME NEW i \in Invite, NEW op \in {"accepted", "declined"}, AnswerInBell(op, i)
      PROVE  UnreadTypes'
  BY <1>29 DEF AnswerInBell
<1>30. ASSUME NEW i \in Invite, DismissCard(i)
      PROVE  UnreadTypes'
  BY <1>30 DEF DismissCard
<1>31. ASSUME NEW i \in Invite, JoinFromCard(i)
      PROVE  UnreadTypes'
  BY <1>31 DEF JoinFromCard
<1>32. ASSUME NEW i \in Invite, CloseCard(i)
      PROVE  UnreadTypes'
  BY <1>32 DEF CloseCard
<1>33. ASSUME NEW r \in answering, AnswerLost(r)
      PROVE  UnreadTypes'
  BY <1>33 DEF AnswerLost
<1>34. ASSUME NEW r \in answering, AnswerArrives(r)
      PROVE  UnreadTypes'
  BY <1>34 DEF AnswerArrives
<1>35. ASSUME UNCHANGED notificationsVars
      PROVE  UnreadTypes'
  BY <1>35 DEF notificationsVars
<1>. QED  BY <1>1, <1>2, <1>3, <1>4, <1>5, <1>6, <1>7, <1>8, <1>9, <1>10, <1>11, <1>12,
           <1>13, <1>14, <1>15, <1>16, <1>17, <1>18, <1>19, <1>20, <1>21, <1>22, <1>23,
           <1>24, <1>25, <1>26, <1>27, <1>28, <1>29, <1>30, <1>31, <1>32, <1>33, <1>34,
           <1>35, NotificationsCases

\* Every step keeps the types of the mutes.
LEMMA MuteTyped ==
  ASSUME Typed, [NotificationsNext]_notificationsVars
  PROVE  MuteTypes'
<1>. USE NotificationsAssumption, Profiled DEF Typed, MuteTypes
<1>. USE DEF bell, mutes, unread, place, server
<1>1. ASSUME NEW t \in Direct, NEW mention \in BOOLEAN, PeerSends(t, mention)
      PROVE  MuteTypes'
  BY <1>1 DEF PeerSends
<1>2. ASSUME NEW r \in reading, ReadStamped(r)
      PROVE  MuteTypes'
  BY <1>2 DEF ReadStamped
<1>3. ASSUME NEW r \in reading, ReadWritten(r)
      PROVE  MuteTypes'
  BY <1>3 DEF ReadWritten
<1>4. ASSUME NEW k \in DOMAIN refreshing, CountUnread(k)
      PROVE  MuteTypes'
  BY <1>4 DEF CountUnread
<1>5. ASSUME NEW m \in muting, MuteWritten(m)
      PROVE  MuteTypes'
  BY <1>5 DEF MuteWritten
<1>6. ASSUME NEW l \in lookups, MuteRead(l)
      PROVE  MuteTypes'
  <2>1. mute[l.thread] \in Level
    BY DEF ServerTypes, Lookup
  <2>. QED  BY <1>6, <2>1 DEF MuteRead, Lookup
<1>7. ASSUME NEW i \in Invite, InviteSent(i)
      PROVE  MuteTypes'
  BY <1>7 DEF InviteSent
<1>8. ASSUME NEW k \in DOMAIN feeds, FeedRead(k)
      PROVE  MuteTypes'
  BY <1>8 DEF FeedRead
<1>9. ASSUME NEW r \in answering, AnswerHandled(r)
      PROVE  MuteTypes'
  BY <1>9 DEF AnswerHandled
<1>10. ASSUME NEW u \in Account, SignIn(u)
      PROVE  MuteTypes'
  BY <1>10 DEF SignIn
<1>11. ASSUME SignOut
      PROVE  MuteTypes'
  BY <1>11 DEF SignOut, Default, Level
<1>12. ASSUME GoToDms
      PROVE  MuteTypes'
  BY <1>12 DEF GoToDms
<1>13. ASSUME GoToLobby
      PROVE  MuteTypes'
  BY <1>13 DEF GoToLobby
<1>14. ASSUME Unsplit
      PROVE  MuteTypes'
  BY <1>14 DEF Unsplit
<1>15. ASSUME CloseActive
      PROVE  MuteTypes'
  BY <1>15 DEF CloseActive
<1>16. ASSUME NEW t \in Direct, Select(t)
      PROVE  MuteTypes'
  BY <1>16 DEF Select
<1>17. ASSUME NEW t \in Direct, Split(t)
      PROVE  MuteTypes'
  BY <1>17 DEF Split
<1>18. ASSUME NEW k \in DOMAIN refreshing, UnreadArrives(k)
      PROVE  MuteTypes'
  BY <1>18 DEF UnreadArrives
<1>19. ASSUME NEW k \in DOMAIN refreshing, UnreadFails(k)
      PROVE  MuteTypes'
  BY <1>19 DEF UnreadFails
<1>20. ASSUME DeliverMessage
      PROVE  MuteTypes'
  <2>. DEFINE e == Head(events)
              l == [n |-> now, over |-> transport, kind |-> e.kind, thread |-> e.thread,
                    level |-> "asked", due |-> promised[e.thread]]
  <2>1. e \in Event /\ e.kind \in Kind
    BY <1>20, HeadTailProperties DEF DeliverMessage, ServerTypes
  <2>2. e.thread \in Direct
    BY <2>1 DEF Event, Kind
  <2>3. l \in Lookup
    BY <2>1, <2>2 DEF Lookup, ServerTypes, PlaceTypes
  <2>4. [kind |-> e.kind, thread |-> e.thread, due |-> promised[e.thread]] \in Announced
    BY <2>1, <2>2 DEF Announced
  <2>. HIDE DEF l
  <2>5. lookups' \subseteq lookups \cup {l}
    BY <1>20 DEF DeliverMessage, l
  <2>6. banner' \in Announced \cup {NoBanner}
    BY <1>20, <2>4 DEF DeliverMessage, Announce
  <2>. QED  BY <1>20, <2>3, <2>5, <2>6 DEF DeliverMessage
<1>21. ASSUME NEW l \in lookups, MuteArrives(l)
      PROVE  MuteTypes'
  <2>1. l \in Lookup /\ l.level \in Level /\ l.thread \in Direct
    BY <1>21 DEF MuteArrives, Lookup
  <2>2. [kind |-> l.kind, thread |-> l.thread, due |-> l.due] \in Announced
    BY <2>1 DEF Announced, Lookup
  <2>. QED  BY <1>21, <2>1, <2>2 DEF MuteArrives, Announce
<1>22. ASSUME NEW l \in lookups, MuteLookupFails(l)
      PROVE  MuteTypes'
  <2>1. [kind |-> l.kind, thread |-> l.thread, due |-> "all"] \in Announced
    BY DEF Announced, Lookup, Level
  <2>. QED  BY <1>22, <2>1 DEF MuteLookupFails, Announce
<1>23. ASSUME NEW t \in Direct, NEW level \in Level, SetMute(t, level)
      PROVE  MuteTypes'
  <2>1. \A l \in lookups : [l EXCEPT !.due = "all"] \in Lookup
    BY DEF Lookup, Level
  <2>. QED  BY <1>23, <2>1 DEF SetMute, Level
<1>24. ASSUME NEW m \in muting, MuteAnswered(m)
      PROVE  MuteTypes'
  BY <1>24 DEF MuteAnswered
<1>25. ASSUME DeliverInvite
      PROVE  MuteTypes'
  BY <1>25 DEF DeliverInvite
<1>26. ASSUME OpenBell
      PROVE  MuteTypes'
  BY <1>26 DEF OpenBell
<1>27. ASSUME NEW k \in DOMAIN feeds, FeedArrives(k)
      PROVE  MuteTypes'
  BY <1>27 DEF FeedArrives
<1>28. ASSUME NEW k \in DOMAIN feeds, FeedFails(k)
      PROVE  MuteTypes'
  BY <1>28 DEF FeedFails
<1>29. ASSUME NEW i \in Invite, NEW op \in {"accepted", "declined"}, AnswerInBell(op, i)
      PROVE  MuteTypes'
  BY <1>29 DEF AnswerInBell
<1>30. ASSUME NEW i \in Invite, DismissCard(i)
      PROVE  MuteTypes'
  BY <1>30 DEF DismissCard
<1>31. ASSUME NEW i \in Invite, JoinFromCard(i)
      PROVE  MuteTypes'
  BY <1>31 DEF JoinFromCard
<1>32. ASSUME NEW i \in Invite, CloseCard(i)
      PROVE  MuteTypes'
  BY <1>32 DEF CloseCard
<1>33. ASSUME NEW r \in answering, AnswerLost(r)
      PROVE  MuteTypes'
  BY <1>33 DEF AnswerLost
<1>34. ASSUME NEW r \in answering, AnswerArrives(r)
      PROVE  MuteTypes'
  BY <1>34 DEF AnswerArrives
<1>35. ASSUME UNCHANGED notificationsVars
      PROVE  MuteTypes'
  BY <1>35 DEF notificationsVars
<1>. QED  BY <1>1, <1>2, <1>3, <1>4, <1>5, <1>6, <1>7, <1>8, <1>9, <1>10, <1>11, <1>12,
           <1>13, <1>14, <1>15, <1>16, <1>17, <1>18, <1>19, <1>20, <1>21, <1>22, <1>23,
           <1>24, <1>25, <1>26, <1>27, <1>28, <1>29, <1>30, <1>31, <1>32, <1>33, <1>34,
           <1>35, NotificationsCases

\* Every step keeps the types of the bell.
LEMMA BellTyped ==
  ASSUME Typed, [NotificationsNext]_notificationsVars
  PROVE  BellTypes'
<1>. USE NotificationsAssumption, Profiled DEF Typed, BellTypes
<1>. USE DEF bell, mutes, unread, place, server
<1>1. ASSUME NEW t \in Direct, NEW mention \in BOOLEAN, PeerSends(t, mention)
      PROVE  BellTypes'
  BY <1>1 DEF PeerSends
<1>2. ASSUME NEW r \in reading, ReadStamped(r)
      PROVE  BellTypes'
  BY <1>2 DEF ReadStamped
<1>3. ASSUME NEW r \in reading, ReadWritten(r)
      PROVE  BellTypes'
  BY <1>3 DEF ReadWritten
<1>4. ASSUME NEW k \in DOMAIN refreshing, CountUnread(k)
      PROVE  BellTypes'
  BY <1>4 DEF CountUnread
<1>5. ASSUME NEW m \in muting, MuteWritten(m)
      PROVE  BellTypes'
  BY <1>5 DEF MuteWritten
<1>6. ASSUME NEW l \in lookups, MuteRead(l)
      PROVE  BellTypes'
  BY <1>6 DEF MuteRead
<1>7. ASSUME NEW i \in Invite, InviteSent(i)
      PROVE  BellTypes'
  BY <1>7 DEF InviteSent
<1>8. ASSUME NEW k \in DOMAIN feeds, FeedRead(k)
      PROVE  BellTypes'
  <2>. DEFINE f == [listed |-> TRUE, invites |-> Pending, fresh |-> answering = {}]
  <2>1. f \in Feed
    BY DEF Feed, Pending
  <2>2. feeds' = [feeds EXCEPT ![k] = f] /\ UNCHANGED <<invites, loaded, queue, answering, settled>>
    BY <1>8 DEF FeedRead
  <2>. HIDE DEF f
  <2>3. feeds' \in Seq(Feed)
    BY <2>1, <2>2, Changed
  <2>. QED  BY <2>2, <2>3
<1>9. ASSUME NEW r \in answering, AnswerHandled(r)
      PROVE  BellTypes'
  BY <1>9 DEF AnswerHandled, Answer
<1>10. ASSUME NEW u \in Account, SignIn(u)
      PROVE  BellTypes'
  BY <1>10, FeedTyped DEF SignIn
<1>11. ASSUME SignOut
      PROVE  BellTypes'
  BY <1>11 DEF SignOut
<1>12. ASSUME GoToDms
      PROVE  BellTypes'
  BY <1>12 DEF GoToDms
<1>13. ASSUME GoToLobby
      PROVE  BellTypes'
  BY <1>13 DEF GoToLobby
<1>14. ASSUME Unsplit
      PROVE  BellTypes'
  BY <1>14 DEF Unsplit
<1>15. ASSUME CloseActive
      PROVE  BellTypes'
  BY <1>15 DEF CloseActive
<1>16. ASSUME NEW t \in Direct, Select(t)
      PROVE  BellTypes'
  BY <1>16 DEF Select
<1>17. ASSUME NEW t \in Direct, Split(t)
      PROVE  BellTypes'
  BY <1>17 DEF Split
<1>18. ASSUME NEW k \in DOMAIN refreshing, UnreadArrives(k)
      PROVE  BellTypes'
  BY <1>18 DEF UnreadArrives
<1>19. ASSUME NEW k \in DOMAIN refreshing, UnreadFails(k)
      PROVE  BellTypes'
  BY <1>19 DEF UnreadFails
<1>20. ASSUME DeliverMessage
      PROVE  BellTypes'
  BY <1>20 DEF DeliverMessage
<1>21. ASSUME NEW l \in lookups, MuteArrives(l)
      PROVE  BellTypes'
  BY <1>21 DEF MuteArrives
<1>22. ASSUME NEW l \in lookups, MuteLookupFails(l)
      PROVE  BellTypes'
  BY <1>22 DEF MuteLookupFails
<1>23. ASSUME NEW t \in Direct, NEW level \in Level, SetMute(t, level)
      PROVE  BellTypes'
  BY <1>23 DEF SetMute
<1>24. ASSUME NEW m \in muting, MuteAnswered(m)
      PROVE  BellTypes'
  BY <1>24 DEF MuteAnswered
<1>25. ASSUME DeliverInvite
      PROVE  BellTypes'
  <2>1. Head(events) \in Event
    BY <1>25, HeadTailProperties DEF DeliverInvite, ServerTypes
  <2>2. Head(events).invite \in Invite
    BY <1>25, <2>1 DEF Event, DeliverInvite, Kind
  <2>. QED  BY <1>25, <2>2, FeedTyped DEF DeliverInvite
<1>26. ASSUME OpenBell
      PROVE  BellTypes'
  BY <1>26, FeedTyped DEF OpenBell
<1>27. ASSUME NEW k \in DOMAIN feeds, FeedArrives(k)
      PROVE  BellTypes'
  <2>. DEFINE before == SubSeq(feeds, 1, k - 1)
              after == SubSeq(feeds, k + 1, Len(feeds))
  <2>1. feeds[k] \in Feed
    BY ElementOfSeq
  <2>2. before \in Seq(Feed) /\ after \in Seq(Feed)
    BY SubSeqProperties, ElementOfSeq
  <2>3. Overtaken(before) \o after \in Seq(Feed)
    BY <2>2, OvertakenFeeds, ConcatProperties
  <2>. QED  BY <1>27, <2>1, <2>3 DEF FeedArrives, BellShows, Feed
<1>28. ASSUME NEW k \in DOMAIN feeds, FeedFails(k)
      PROVE  BellTypes'
  BY <1>28, Without, OvertakenFeeds DEF FeedFails
<1>29. ASSUME NEW i \in Invite, NEW op \in {"accepted", "declined"}, AnswerInBell(op, i)
      PROVE  BellTypes'
  <2>1. [op |-> op, invite |-> i, from |-> "bell", at |-> "sent"] \in Answer
    BY DEF Answer
  <2>. QED  BY <1>29, <2>1, FeedTyped DEF AnswerInBell, Asks, BellShows
<1>30. ASSUME NEW i \in Invite, DismissCard(i)
      PROVE  BellTypes'
  <2>1. [op |-> "declined", invite |-> i, from |-> "card", at |-> "sent"] \in Answer
    BY DEF Answer
  <2>. QED  BY <1>30, <2>1, FeedTyped DEF DismissCard, Asks, BellShows
<1>31. ASSUME NEW i \in Invite, JoinFromCard(i)
      PROVE  BellTypes'
  <2>1. [op |-> "accepted", invite |-> i, from |-> "card", at |-> "sent"] \in Answer
    BY DEF Answer
  <2>. QED  BY <1>31, <2>1, FeedTyped DEF JoinFromCard, Asks, BellShows
<1>32. ASSUME NEW i \in Invite, CloseCard(i)
      PROVE  BellTypes'
  BY <1>32 DEF CloseCard
<1>33. ASSUME NEW r \in answering, AnswerLost(r)
      PROVE  BellTypes'
  BY <1>33 DEF AnswerLost, Answer
<1>34. ASSUME NEW r \in answering, AnswerArrives(r)
      PROVE  BellTypes'
  BY <1>34, FeedTyped DEF AnswerArrives, Answer, BellShows
<1>35. ASSUME UNCHANGED notificationsVars
      PROVE  BellTypes'
  BY <1>35 DEF notificationsVars
<1>. QED  BY <1>1, <1>2, <1>3, <1>4, <1>5, <1>6, <1>7, <1>8, <1>9, <1>10, <1>11, <1>12,
           <1>13, <1>14, <1>15, <1>16, <1>17, <1>18, <1>19, <1>20, <1>21, <1>22, <1>23,
           <1>24, <1>25, <1>26, <1>27, <1>28, <1>29, <1>30, <1>31, <1>32, <1>33, <1>34,
           <1>35, NotificationsCases

\* Types hold throughout.
THEOREM NotificationsTyped == NotificationsSpec => []Typed
<1>. USE NotificationsAssumption
<1>1. NotificationsInit => Typed
  <2>1. Zero \in [Direct -> Nat] /\ Zero \in [Direct -> 0 .. 0] /\ Default \in [Direct -> Level]
    BY DEF Zero, Default, Level
  <2>2. ASSUME NotificationsInit
        PROVE  Typed
    <3>1. does.messages \in Nat /\ does.moves \in Nat
      BY <2>2, Profiled DEF NotificationsInit
    <3>2. ServerTypes
      BY <2>1, <2>2, <3>1 DEF NotificationsInit, ServerTypes
    <3>3. PlaceTypes
      BY <2>2, <3>1 DEF NotificationsInit, PlaceTypes
    <3>4. UnreadTypes
      BY <2>1, <2>2 DEF NotificationsInit, UnreadTypes
    <3>5. MuteTypes
      BY <2>1, <2>2 DEF NotificationsInit, MuteTypes
    <3>6. BellTypes
      <4>1. invites = {} /\ loaded = FALSE /\ queue = {} /\ feeds = <<>> /\ answering = {} /\ settled = FALSE
        BY <2>2 DEF NotificationsInit
      <4>. QED  BY <4>1, EmptySeq DEF BellTypes
    <3>. QED  BY <2>2, <3>2, <3>3, <3>4, <3>5, <3>6 DEF NotificationsInit, Typed
  <2>. QED  BY <2>2
<1>2. Typed /\ [NotificationsNext]_notificationsVars => Typed'
  <2>1. ASSUME [NotificationsNext]_notificationsVars
        PROVE  does' = does
    BY <2>1, NotificationsCases DEF PeerSends, ReadStamped, ReadWritten, CountUnread,
          MuteWritten, MuteRead, InviteSent, FeedRead, AnswerHandled, SignIn, SignOut,
          GoToDms, GoToLobby, Unsplit, CloseActive, Select, Split, UnreadArrives, UnreadFails,
          DeliverMessage, MuteArrives, MuteLookupFails, SetMute, MuteAnswered, DeliverInvite,
          OpenBell, FeedArrives, FeedFails, AnswerInBell, DismissCard, JoinFromCard,
          CloseCard, AnswerLost, AnswerArrives, notificationsVars
  <2>. QED  BY <2>1, ServerTyped, PlaceTyped, UnreadTyped, MuteTyped, BellTyped DEF Typed
<1>. QED  BY <1>1, <1>2, PTL DEF NotificationsSpec

(***************************************************************************)
(* The mutes.                                                              *)
(***************************************************************************)

\* What a user was promised is what the server and the cache have, what a lookup
\* brings is what was promised when it was asked, and while a pop-over is under
\* way nothing is promised of its thread.
MuteInv ==
  /\ MutedIsSilent
  /\ \A t \in Direct : promised[t] # "all" =>
       mute[t] = promised[t] /\ muteCache[t] \in {"unknown", promised[t]}
  /\ \A l \in lookups :
       /\ l.due # "all" => IF l.level = "asked" THEN mute[l.thread] = l.due ELSE l.level = l.due
       /\ promised[l.thread] # "all" => l.due = promised[l.thread]
  /\ \A m \in muting :
       /\ promised[m.thread] = "all" /\ \A l \in lookups : l.thread = m.thread => l.due = "all"
       /\ m.done => mute[m.thread] = m.level
  /\ \A m, n \in muting : m = n

\* The types of the parts of mutes, lookups and pop-overs that the next proof needs.
LEMMA MuteParts ==
  ASSUME Typed
  PROVE  /\ \A t \in Direct : mute[t] \in Level /\ promised[t] \in Level
         /\ DOMAIN mute = Direct /\ DOMAIN promised = Direct /\ DOMAIN muteCache = Direct
         /\ \A l \in lookups :
              /\ l.thread \in Direct /\ l.due \in Level /\ l.level \in Level \cup {"asked"}
              /\ \A v : [l EXCEPT !.level = v].thread = l.thread /\ [l EXCEPT !.level = v].due = l.due
                        /\ [l EXCEPT !.level = v].level = v
              /\ \A v : [l EXCEPT !.due = v].thread = l.thread /\ [l EXCEPT !.due = v].level = l.level
                        /\ [l EXCEPT !.due = v].due = v
         /\ \A m \in muting :
              /\ m.thread \in Direct /\ m.level \in Level
              /\ [m EXCEPT !.done = TRUE].thread = m.thread /\ [m EXCEPT !.done = TRUE].level = m.level
BY DEF Typed, ServerTypes, MuteTypes, Lookup

\* Every step keeps MuteInv.
LEMMA MuteStep ==
  ASSUME Typed, Typed', MuteInv, [NotificationsNext]_notificationsVars
  PROVE  MuteInv'
<1>. USE DEF MuteInv, MutedIsSilent, Allows, bell, mutes, unread, place, server
<1>1. ASSUME NEW t \in Direct, NEW mention \in BOOLEAN, PeerSends(t, mention)
      PROVE  MuteInv'
  BY <1>1 DEF PeerSends
<1>2. ASSUME NEW r \in reading, ReadStamped(r)
      PROVE  MuteInv'
  BY <1>2 DEF ReadStamped
<1>3. ASSUME NEW r \in reading, ReadWritten(r)
      PROVE  MuteInv'
  BY <1>3 DEF ReadWritten
<1>4. ASSUME NEW k \in DOMAIN refreshing, CountUnread(k)
      PROVE  MuteInv'
  BY <1>4 DEF CountUnread
<1>5. ASSUME NEW m \in muting, MuteWritten(m)
      PROVE  MuteInv'
  <2>. DEFINE n == [m EXCEPT !.done = TRUE]
  <2>1. /\ mute' = [mute EXCEPT ![m.thread] = m.level] /\ UNCHANGED <<muteCache, lookups, banner, promised>>
        /\ muting' = {n} /\ n.thread = m.thread /\ n.level = m.level
    BY <1>5, MuteParts DEF MuteWritten
  <2>2. /\ \A t \in Direct : t # m.thread => mute'[t] = mute[t]
        /\ mute'[m.thread] = m.level /\ promised[m.thread] = "all"
        /\ \A l \in lookups : l.thread = m.thread => l.due = "all"
    BY <2>1, MuteParts
  <2>. HIDE DEF n
  <2>. QED  BY <2>1, <2>2, MuteParts
<1>6. ASSUME NEW l \in lookups, MuteRead(l)
      PROVE  MuteInv'
  <2>. DEFINE n == [l EXCEPT !.level = mute[l.thread]]
  <2>1. /\ lookups' = (lookups \ {l}) \cup {n} /\ UNCHANGED <<mute, muteCache, muting, banner, promised>>
        /\ n.thread = l.thread /\ n.due = l.due /\ n.level = mute[l.thread] /\ l.level = "asked"
    BY <1>6, MuteParts DEF MuteRead
  <2>2. n.level # "asked"
    BY <2>1, MuteParts DEF Level
  <2>. HIDE DEF n
  <2>. QED  BY <2>1, <2>2
<1>7. ASSUME NEW i \in Invite, InviteSent(i)
      PROVE  MuteInv'
  BY <1>7 DEF InviteSent
<1>8. ASSUME NEW k \in DOMAIN feeds, FeedRead(k)
      PROVE  MuteInv'
  BY <1>8 DEF FeedRead
<1>9. ASSUME NEW r \in answering, AnswerHandled(r)
      PROVE  MuteInv'
  BY <1>9 DEF AnswerHandled
<1>10. ASSUME NEW u \in Account, SignIn(u)
      PROVE  MuteInv'
  BY <1>10 DEF SignIn
<1>11. ASSUME SignOut
      PROVE  MuteInv'
  <2>1. /\ UNCHANGED <<mute, muting, lookups, banner>>
        /\ \A t \in Direct : promised'[t] = "all"
    BY <1>11 DEF SignOut, Default
  <2>. QED  BY <2>1, MuteParts
<1>12. ASSUME GoToDms
      PROVE  MuteInv'
  BY <1>12 DEF GoToDms
<1>13. ASSUME GoToLobby
      PROVE  MuteInv'
  BY <1>13 DEF GoToLobby
<1>14. ASSUME Unsplit
      PROVE  MuteInv'
  BY <1>14 DEF Unsplit
<1>15. ASSUME CloseActive
      PROVE  MuteInv'
  BY <1>15 DEF CloseActive
<1>16. ASSUME NEW t \in Direct, Select(t)
      PROVE  MuteInv'
  BY <1>16 DEF Select
<1>17. ASSUME NEW t \in Direct, Split(t)
      PROVE  MuteInv'
  BY <1>17 DEF Split
<1>18. ASSUME NEW k \in DOMAIN refreshing, UnreadArrives(k)
      PROVE  MuteInv'
  BY <1>18 DEF UnreadArrives
<1>19. ASSUME NEW k \in DOMAIN refreshing, UnreadFails(k)
      PROVE  MuteInv'
  BY <1>19 DEF UnreadFails
<1>20. ASSUME DeliverMessage
      PROVE  MuteInv'
  <2>. DEFINE e == Head(events)
              t == e.thread
              l == [n |-> now, over |-> transport, kind |-> e.kind, thread |-> t,
                    level |-> "asked", due |-> promised[t]]
              b == [kind |-> e.kind, thread |-> t, due |-> promised[t]]
  <2>1. e \in Event /\ e.kind \in Kind
    BY <1>20, HeadTailProperties DEF DeliverMessage, Typed, ServerTypes
  <2>2. t \in Direct
    BY <2>1 DEF Event, Kind
  <2>3. UNCHANGED <<mute, muteCache, muting, promised>>
    BY <1>20 DEF DeliverMessage
  <2>4. /\ l.thread = t /\ l.level = "asked" /\ l.due = promised[t]
        /\ b.due = promised[t] /\ b.kind = e.kind
    OBVIOUS
  <2>5. \/ UNCHANGED <<lookups, banner>>
        \/ lookups' = lookups \cup {l} /\ UNCHANGED banner
        \/ /\ UNCHANGED lookups /\ muteCache[t] # "unknown"
           /\ banner' = IF Allows(muteCache[t], e.kind) THEN b ELSE banner
    BY <1>20 DEF DeliverMessage, Announce
  <2>. HIDE DEF l, b, t
  <2>6. CASE UNCHANGED <<lookups, banner>>
    BY <2>3, <2>6
  <2>7. CASE lookups' = lookups \cup {l} /\ UNCHANGED banner
    BY <2>2, <2>3, <2>4, <2>7
  <2>8. CASE /\ UNCHANGED lookups /\ muteCache[t] # "unknown"
             /\ banner' = IF Allows(muteCache[t], e.kind) THEN b ELSE banner
    BY <2>2, <2>3, <2>4, <2>8
  <2>. QED  BY <2>5, <2>6, <2>7, <2>8
<1>21. ASSUME NEW l \in lookups, MuteArrives(l)
      PROVE  MuteInv'
  <2>. DEFINE b == [kind |-> l.kind, thread |-> l.thread, due |-> l.due]
  <2>1. /\ lookups' = lookups \ {l} /\ l.level # "asked" /\ UNCHANGED <<mute, muting, promised>>
        /\ banner' = IF Allows(l.level, l.kind) THEN b ELSE banner
    BY <1>21 DEF MuteArrives, Announce
  <2>5. \A t \in Direct : muteCache'[t] = muteCache[t] \/ (t = l.thread /\ muteCache'[t] = l.level)
    <3>1. muteCache' = muteCache \/ muteCache' = [muteCache EXCEPT ![l.thread] = l.level]
      BY <1>21 DEF MuteArrives
    <3>. QED  BY <3>1 DEF Typed, MuteTypes
  <2>2. b.due = l.due /\ b.kind = l.kind
    OBVIOUS
  <2>. HIDE DEF b
  <2>3. MutedIsSilent'
    BY <2>1, <2>2
  <2>4. ASSUME NEW t \in Direct, promised[t] # "all", t = l.thread
        PROVE  l.level = promised[t]
    BY <2>1, <2>4
  <2>. QED  BY <2>1, <2>3, <2>4, <2>5
<1>22. ASSUME NEW l \in lookups, MuteLookupFails(l)
      PROVE  MuteInv'
  <2>. DEFINE b == [kind |-> l.kind, thread |-> l.thread, due |-> "all"]
  <2>1. /\ lookups' = lookups \ {l} /\ UNCHANGED <<mute, muteCache, muting, promised>>
        /\ banner' = b \/ banner' = banner
    BY <1>22 DEF MuteLookupFails, Announce
  <2>2. b.due = "all"
    OBVIOUS
  <2>. HIDE DEF b
  <2>. QED  BY <2>1, <2>2
<1>23. ASSUME NEW t \in Direct, NEW level \in Level, SetMute(t, level)
      PROVE  MuteInv'
  <2>. DEFINE m == [thread |-> t, level |-> level, done |-> FALSE]
  <2>1. /\ muting' = {m} /\ UNCHANGED <<mute, muteCache, banner>>
        /\ m.thread = t /\ ~m.done
        /\ promised'[t] = "all" /\ \A u \in Direct : u # t => promised'[u] = promised[u]
    BY <1>23, MuteParts DEF SetMute
  <2>2. ASSUME NEW n \in lookups'
        PROVE  \/ n \in lookups /\ n.thread # t
               \/ n.due = "all" /\ n.thread = t
    <3>1. lookups' = {IF l.thread = t THEN [l EXCEPT !.due = "all"] ELSE l : l \in lookups}
      BY <1>23 DEF SetMute
    <3>2. PICK l \in lookups : n = IF l.thread = t THEN [l EXCEPT !.due = "all"] ELSE l
      BY <2>2, <3>1
    <3>3. [l EXCEPT !.due = "all"].due = "all" /\ [l EXCEPT !.due = "all"].thread = l.thread
      BY MuteParts
    <3>. QED  BY <3>2, <3>3
  <2>. HIDE DEF m
  <2>3. \A n \in lookups' : n.due # "all" \/ promised'[n.thread] # "all" => n \in lookups /\ n.thread # t
    BY <2>1, <2>2
  <2>. QED  BY <2>1, <2>2, <2>3, MuteParts
<1>24. ASSUME NEW m \in muting, MuteAnswered(m)
      PROVE  MuteInv'
  <2>1. /\ muting' = {} /\ m.done /\ UNCHANGED <<mute, lookups, banner>>
        /\ muteCache'[m.thread] = "unknown"
        /\ \A t \in Direct : t # m.thread => muteCache'[t] = muteCache[t] /\ promised'[t] = promised[t]
        /\ \/ promised' = promised
           \/ promised'[m.thread] = m.level /\ \A l \in lookups : l.thread # m.thread
    BY <1>24, MuteParts DEF MuteAnswered
  <2>2. mute[m.thread] = m.level /\ promised[m.thread] = "all"
    BY <2>1
  <2>. QED  BY <2>1, <2>2, MuteParts
<1>25. ASSUME DeliverInvite
      PROVE  MuteInv'
  BY <1>25 DEF DeliverInvite
<1>26. ASSUME OpenBell
      PROVE  MuteInv'
  BY <1>26 DEF OpenBell
<1>27. ASSUME NEW k \in DOMAIN feeds, FeedArrives(k)
      PROVE  MuteInv'
  BY <1>27 DEF FeedArrives
<1>28. ASSUME NEW k \in DOMAIN feeds, FeedFails(k)
      PROVE  MuteInv'
  BY <1>28 DEF FeedFails
<1>29. ASSUME NEW i \in Invite, NEW op \in {"accepted", "declined"}, AnswerInBell(op, i)
      PROVE  MuteInv'
  BY <1>29 DEF AnswerInBell
<1>30. ASSUME NEW i \in Invite, DismissCard(i)
      PROVE  MuteInv'
  BY <1>30 DEF DismissCard
<1>31. ASSUME NEW i \in Invite, JoinFromCard(i)
      PROVE  MuteInv'
  BY <1>31 DEF JoinFromCard
<1>32. ASSUME NEW i \in Invite, CloseCard(i)
      PROVE  MuteInv'
  BY <1>32 DEF CloseCard
<1>33. ASSUME NEW r \in answering, AnswerLost(r)
      PROVE  MuteInv'
  BY <1>33 DEF AnswerLost
<1>34. ASSUME NEW r \in answering, AnswerArrives(r)
      PROVE  MuteInv'
  BY <1>34 DEF AnswerArrives
<1>35. ASSUME UNCHANGED notificationsVars
      PROVE  MuteInv'
  BY <1>35 DEF notificationsVars
<1>. QED  BY <1>1, <1>2, <1>3, <1>4, <1>5, <1>6, <1>7, <1>8, <1>9, <1>10, <1>11, <1>12,
           <1>13, <1>14, <1>15, <1>16, <1>17, <1>18, <1>19, <1>20, <1>21, <1>22, <1>23,
           <1>24, <1>25, <1>26, <1>27, <1>28, <1>29, <1>30, <1>31, <1>32, <1>33, <1>34,
           <1>35, NotificationsCases

\* No message that a confirmed mute excludes is announced.
THEOREM MutesCorrect == NotificationsSpec => []MutedIsSilent
<1>1. NotificationsInit => MuteInv
  BY DEF NotificationsInit, MuteInv, MutedIsSilent, Default
<1>2. Typed /\ Typed' /\ MuteInv /\ [NotificationsNext]_notificationsVars => MuteInv'
  BY MuteStep
<1>3. MuteInv => MutedIsSilent
  BY DEF MuteInv
<1>. QED  BY <1>1, <1>2, <1>3, NotificationsTyped, PTL DEF NotificationsSpec

(***************************************************************************)
(* The badges.                                                             *)
(***************************************************************************)

\* A mention at the server that is later than what was read of its thread, and
\* that every count under way knows of as far as it has got.
Known(i, t) ==
  /\ messages[i].thread = t /\ messages[i].mention /\ messages[i].at > lastReadAt[t]
  /\ \A k \in DOMAIN refreshing :
       /\ refreshing[k].of = me
       /\ refreshing[k].at # "asked" => messages[i].at > refreshing[k].reads[t]
       /\ refreshing[k].at \in {"mutes", "counted"} => refreshing[k].mutes[t] # "none"
       /\ refreshing[k].at = "counted" => refreshing[k].counts[t] > 0

\* A badge that is owed is there, the thread is the user's and not muted, no mark
\* is under way that would not know of the mention, and one such mention is known.
BadgeInv ==
  /\ \A k \in DOMAIN events : events[k].kind = "mention" => Of[events[k].thread] = me
  /\ \A t \in owed :
       /\ counts[t] > 0 /\ Of[t] = me /\ mute[t] # "none" /\ \A r \in reading : r.thread # t
       /\ \E i \in DOMAIN messages : Known(i, t)

\* Delivering takes the first event, sending adds one at the end.
LEMMA EventsMove ==
  ASSUME Typed
  PROVE  /\ (events # <<>> /\ events' = Tail(events)) =>
              \A k \in DOMAIN events' : k + 1 \in DOMAIN events /\ events'[k] = events[k + 1]
         /\ \A e \in Event : events' = Append(events, e) =>
              \A k \in DOMAIN events' : (k \in DOMAIN events /\ events'[k] = events[k]) \/ events'[k] = e
<1>1. events \in Seq(Event)
  BY DEF Typed, ServerTypes
<1>. QED  BY <1>1

\* A known mention stays known when nothing changes but that counts are asked for,
\* or their answers come or fail.
LEMMA KnownIsKept ==
  ASSUME Typed, NEW i, NEW t, Known(i, t), UNCHANGED <<messages, lastReadAt, me>>,
         \A k \in DOMAIN refreshing' :
           \/ refreshing'[k].at = "asked" /\ refreshing'[k].of = me
           \/ \E j \in DOMAIN refreshing : refreshing'[k] = refreshing[j]
  PROVE  Known(i, t)'
BY DEF Known

\* Asking for the counts adds one that has not looked at anything yet.
LEMMA AskIsKnown ==
  ASSUME Typed, me \in Account, Refreshes(AskUnread)
  PROVE  \A k \in DOMAIN refreshing' :
           \/ refreshing'[k].at = "asked" /\ refreshing'[k].of = me
           \/ \E j \in DOMAIN refreshing : refreshing'[k] = refreshing[j]
<1>1. AskUnread \in Refresh /\ AskUnread.at = "asked" /\ AskUnread.of = me
  BY DEF AskUnread, Refresh, Zero, Default, Level
<1>2. refreshing \in Seq(Refresh) /\ refreshing' = Append(refreshing, AskUnread)
  BY DEF Typed, UnreadTypes, Refreshes
<1>. HIDE DEF AskUnread
<1>. QED  BY <1>1, <1>2

\* An answer that comes or fails leaves the others under way.
LEMMA OneLess ==
  ASSUME Typed, NEW k \in DOMAIN refreshing, refreshing' = RemoveAt(refreshing, k)
  PROVE  \A n \in DOMAIN refreshing' : \E j \in DOMAIN refreshing : refreshing'[n] = refreshing[j]
<1>1. refreshing \in Seq(Refresh)
  BY DEF Typed, UnreadTypes
<1>2. /\ refreshing' \in Seq(Refresh) /\ Len(refreshing') = Len(refreshing) - 1
      /\ \A i \in 1 .. Len(refreshing) - 1 :
           refreshing'[i] = IF i < k THEN refreshing[i] ELSE refreshing[i + 1]
  BY <1>1, Without
<1>3. DOMAIN refreshing' = 1 .. Len(refreshing')
  BY <1>2
<1>4. DOMAIN refreshing = 1 .. Len(refreshing) /\ Len(refreshing) \in Nat
  BY <1>1
<1>5. ASSUME NEW n \in DOMAIN refreshing'
      PROVE  \E j \in DOMAIN refreshing : refreshing'[n] = refreshing[j]
  <2>1. n \in 1 .. Len(refreshing) - 1 /\ n \in DOMAIN refreshing /\ n + 1 \in DOMAIN refreshing
    BY <1>2, <1>3, <1>4
  <2>. QED  BY <1>2, <2>1
<1>. QED  BY <1>5

\* A count that knows of a mention gives its thread a badge.
LEMMA CountsKnown ==
  ASSUME Typed, NEW u, NEW reads, NEW levels, NEW t \in Direct, NEW i \in DOMAIN messages,
         Of[t] = u, levels[t] # "none",
         messages[i].thread = t, messages[i].mention, messages[i].at > reads[t]
  PROVE  ComputeUnread(u, reads, levels)[t] > 0
<1>1. i \in UnreadIn(t, reads, levels)
  BY DEF UnreadIn
<1>2. IsFiniteSet(UnreadIn(t, reads, levels)) /\ Cardinality(UnreadIn(t, reads, levels)) \in Nat
  BY UnreadFinite
<1>3. Cardinality(UnreadIn(t, reads, levels)) # 0
  BY <1>1, <1>2, FS_EmptySet
<1>4. ComputeUnread(u, reads, levels)[t] = Cardinality(UnreadIn(t, reads, levels))
  BY DEF ComputeUnread, UnreadIn
<1>. QED  BY <1>2, <1>3, <1>4

\* Every step keeps BadgeInv.
LEMMA BadgeStep ==
  ASSUME Typed, Typed', BadgeInv, [NotificationsNext]_notificationsVars
  PROVE  BadgeInv'
<1>. USE NotificationsAssumption DEF BadgeInv, Known, bell, mutes, unread, place, server
<1>1. ASSUME NEW t \in Direct, NEW mention \in BOOLEAN, PeerSends(t, mention)
      PROVE  BadgeInv'
  <2>. DEFINE m == [thread |-> t, at |-> now + 1, mention |-> mention]
  <2>1. m \in Message /\ messages \in Seq(Message) /\ messages' = Append(messages, m)
    BY <1>1 DEF PeerSends, Message, Typed, ServerTypes
  <2>2. \A i \in DOMAIN messages : i \in DOMAIN messages' /\ messages'[i] = messages[i]
    <3>. HIDE DEF m
    <3>. QED  BY <2>1
  <2>3. UNCHANGED <<counts, owed, me, mute, lastReadAt, reading, refreshing>>
    BY <1>1 DEF PeerSends
  <2>4. \A k \in DOMAIN events' : events'[k].kind = "mention" => Of[events'[k].thread] = me
    <3>. DEFINE a == [kind |-> "message", thread |-> t]
                b == [kind |-> "mention", thread |-> t]
    <3>1. a.kind = "message" /\ b.thread = t /\ a \in Event /\ b \in Event /\ events \in Seq(Event)
      BY DEF Event, Kind, Typed, ServerTypes
    <3>2. events' = events \o (IF t \in subscribed THEN <<a>> ELSE <<>>)
                           \o (IF mention /\ Of[t] = me THEN <<b>> ELSE <<>>)
      BY <1>1 DEF PeerSends
    <3>. HIDE DEF a, b
    <3>3. /\ \A s \in Seq(Event) : s \o <<>> = s /\ s \o <<a>> = Append(s, a) /\ s \o <<b>> = Append(s, b)
          /\ Append(events, a) \in Seq(Event)
      BY <3>1
    <3>4. \/ events' = events
          \/ events' = Append(events, a)
          \/ Of[t] = me /\ events' = Append(events, b)
          \/ Of[t] = me /\ events' = Append(Append(events, a), b)
      <4>1. CASE t \in subscribed
        <5>1. events' = Append(events, a) \o (IF mention /\ Of[t] = me THEN <<b>> ELSE <<>>)
          BY <4>1, <3>1, <3>2, <3>3
        <5>. QED  BY <5>1, <3>3
      <4>2. CASE t \notin subscribed
        <5>1. events' = events \o (IF mention /\ Of[t] = me THEN <<b>> ELSE <<>>)
          BY <4>2, <3>1, <3>2, <3>3
        <5>. QED  BY <5>1, <3>1, <3>3
      <4>. QED  BY <4>1, <4>2
    <3>5. ASSUME NEW k \in DOMAIN events'
          PROVE  \/ k \in DOMAIN events /\ events'[k] = events[k]
                 \/ events'[k] = a
                 \/ Of[t] = me /\ events'[k] = b
      BY <3>1, <3>4
    <3>. QED  BY <3>1, <3>5
  <2>5. \A i \in DOMAIN messages, u \in owed : Known(i, u) => i \in DOMAIN messages' /\ Known(i, u)'
    BY <2>2, <2>3
  <2>. HIDE DEF m, Known
  <2>. QED  BY <2>3, <2>4, <2>5
<1>2. ASSUME NEW r \in reading, ReadStamped(r)
      PROVE  BadgeInv'
  <2>1. r.thread = [r EXCEPT !.at = now + 1].thread
    BY DEF Typed, UnreadTypes, Reading
  <2>2. /\ UNCHANGED <<counts, owed, me, mute, lastReadAt, refreshing, messages, events>>
        /\ reading' = (reading \ {r}) \cup {[r EXCEPT !.at = now + 1]}
    BY <1>2 DEF ReadStamped
  <2>3. \A q \in reading' : \E p \in reading : q.thread = p.thread
    BY <2>1, <2>2
  <2>. QED  BY <2>2, <2>3
<1>3. ASSUME NEW r \in reading, ReadWritten(r)
      PROVE  BadgeInv'
  BY <1>3 DEF ReadWritten
<1>4. ASSUME NEW k \in DOMAIN refreshing, CountUnread(k)
      PROVE  BadgeInv'
  <2>. DEFINE f == refreshing[k]
              g == CASE f.at = "asked" -> [f EXCEPT !.at = "reads", !.reads = lastReadAt]
                     [] f.at = "reads" -> [f EXCEPT !.at = "mutes", !.mutes = mute]
                     [] f.at = "mutes" -> [f EXCEPT !.at = "counted",
                                                    !.counts = ComputeUnread(f.of, f.reads, f.mutes)]
  <2>1. f \in Refresh /\ f.at # "counted" /\ refreshing \in Seq(Refresh)
    BY <1>4, ElementOfSeq DEF CountUnread, Typed, UnreadTypes
  <2>2. refreshing' = [refreshing EXCEPT ![k] = g]
    BY <1>4 DEF CountUnread
  <2>3. UNCHANGED <<counts, owed, me, mute, lastReadAt, reading, messages, events>>
    BY <1>4 DEF CountUnread
  <2>4. /\ g.of = f.of /\ g.at # "asked"
        /\ f.at = "asked" => g.at = "reads" /\ g.reads = lastReadAt
        /\ f.at = "reads" => g.at = "mutes" /\ g.reads = f.reads /\ g.mutes = mute
        /\ f.at = "mutes" => /\ g.at = "counted" /\ g.reads = f.reads /\ g.mutes = f.mutes
                             /\ g.counts = ComputeUnread(f.of, f.reads, f.mutes)
        /\ f.at \in {"asked", "reads", "mutes"}
    BY <2>1 DEF Refresh
  <2>. HIDE DEF g
  <2>5. ASSUME NEW t \in owed, NEW i \in DOMAIN messages, Known(i, t)
        PROVE  Known(i, t)'
    <3>1. f.of = me /\ (f.at # "asked" => messages[i].at > f.reads[t])
          /\ (f.at = "mutes" => f.mutes[t] # "none") /\ mute[t] # "none" /\ Of[t] = me /\ t \in Direct
      BY <2>5 DEF Typed, UnreadTypes
    <3>2. f.at = "mutes" => g.counts[t] > 0
      BY <2>4, <2>5, <3>1, CountsKnown
    <3>3. ASSUME NEW n \in DOMAIN refreshing'
          PROVE  /\ refreshing'[n].of = me
                 /\ refreshing'[n].at # "asked" => messages[i].at > refreshing'[n].reads[t]
                 /\ refreshing'[n].at \in {"mutes", "counted"} => refreshing'[n].mutes[t] # "none"
                 /\ refreshing'[n].at = "counted" => refreshing'[n].counts[t] > 0
      <4>1. CASE n = k
        BY <4>1, <2>1, <2>2, <2>4, <2>5, <3>1, <3>2
      <4>2. CASE n # k
        BY <4>2, <2>1, <2>2, <2>5
      <4>. QED  BY <4>1, <4>2
    <3>. QED  BY <2>3, <2>5, <3>3
  <2>. HIDE DEF Known
  <2>. QED  BY <2>3, <2>5
<1>5. ASSUME NEW m \in muting, MuteWritten(m)
      PROVE  BadgeInv'
  BY <1>5 DEF MuteWritten
<1>6. ASSUME NEW l \in lookups, MuteRead(l)
      PROVE  BadgeInv'
  BY <1>6 DEF MuteRead
<1>7. ASSUME NEW i \in Invite, InviteSent(i)
      PROVE  BadgeInv'
  BY <1>7 DEF InviteSent
<1>8. ASSUME NEW k \in DOMAIN feeds, FeedRead(k)
      PROVE  BadgeInv'
  BY <1>8 DEF FeedRead
<1>9. ASSUME NEW r \in answering, AnswerHandled(r)
      PROVE  BadgeInv'
  BY <1>9 DEF AnswerHandled
<1>10. ASSUME NEW u \in Account, SignIn(u)
      PROVE  BadgeInv'
  <2>1. me = NoAccount /\ UNCHANGED <<owed, events>>
    BY <1>10 DEF SignIn
  <2>2. \A t \in Direct : Of[t] # me
    BY <2>1
  <2>3. owed = {}
    BY <2>2 DEF Typed, UnreadTypes
  <2>4. ASSUME NEW k \in DOMAIN events, events[k].kind = "mention"
        PROVE  events[k].thread \in Direct
    <3>1. events[k] \in Event
      BY ElementOfSeq DEF Typed, ServerTypes
    <3>. QED  BY <2>4, <3>1 DEF Event
  <2>. QED  BY <2>1, <2>2, <2>3, <2>4
<1>11. ASSUME SignOut
      PROVE  BadgeInv'
  BY <1>11 DEF SignOut
<1>12. ASSUME GoToDms
      PROVE  BadgeInv'
  <2>1. /\ me \in Account /\ Refreshes(AskUnread)
        /\ UNCHANGED <<counts, owed, me, mute, lastReadAt, reading, messages, events>>
    BY <1>12 DEF GoToDms, Typed, PlaceTypes
  <2>2. \A i, t : Known(i, t) => Known(i, t)'
    <3>. HIDE DEF Known
    <3>. QED  BY <2>1, AskIsKnown, KnownIsKept
  <2>. HIDE DEF Known
  <2>. QED  BY <2>1, <2>2
<1>13. ASSUME GoToLobby
      PROVE  BadgeInv'
  <2>1. /\ me \in Account /\ Refreshes(AskUnread)
        /\ UNCHANGED <<counts, owed, me, mute, lastReadAt, reading, messages, events>>
    BY <1>13 DEF GoToLobby, Typed, PlaceTypes
  <2>2. \A i, t : Known(i, t) => Known(i, t)'
    <3>. HIDE DEF Known
    <3>. QED  BY <2>1, AskIsKnown, KnownIsKept
  <2>. HIDE DEF Known
  <2>. QED  BY <2>1, <2>2
<1>14. ASSUME Unsplit
      PROVE  BadgeInv'
  <2>. DEFINE open == {active}
  <2>1. /\ owed' = owed \ open /\ UNCHANGED <<me, mute, lastReadAt, refreshing, messages, events>>
        /\ \A u \in Direct \ open : counts'[u] = counts[u]
        /\ \A r \in reading' : r \in reading \/ r.thread \in open
    BY <1>14 DEF Unsplit, MarkOpen
  <2>2. owed \subseteq Direct
    BY DEF Typed, UnreadTypes
  <2>3. \A i, u : Known(i, u) => Known(i, u)'
    BY <2>1
  <2>. HIDE DEF open, Known
  <2>. QED  BY <2>1, <2>2, <2>3
<1>15. ASSUME CloseActive
      PROVE  BadgeInv'
  <2>. DEFINE open == NoThreadless({split})
  <2>1. /\ owed' = owed \ open /\ UNCHANGED <<me, mute, lastReadAt, refreshing, messages, events>>
        /\ \A u \in Direct \ open : counts'[u] = counts[u]
        /\ \A r \in reading' : r \in reading \/ r.thread \in open
    BY <1>15 DEF CloseActive, MarkOpen
  <2>2. owed \subseteq Direct
    BY DEF Typed, UnreadTypes
  <2>3. \A i, u : Known(i, u) => Known(i, u)'
    BY <2>1
  <2>. HIDE DEF open, Known
  <2>. QED  BY <2>1, <2>2, <2>3
<1>16. ASSUME NEW t \in Direct, Select(t)
      PROVE  BadgeInv'
  <2>. DEFINE open == NoThreadless({t, split})
  <2>1. /\ owed' = owed \ open /\ UNCHANGED <<me, mute, lastReadAt, refreshing, messages, events>>
        /\ \A u \in Direct \ open : counts'[u] = counts[u]
        /\ \A r \in reading' : r \in reading \/ r.thread \in open
    BY <1>16 DEF Select, MarkOpen
  <2>2. owed \subseteq Direct
    BY DEF Typed, UnreadTypes
  <2>3. \A i, u : Known(i, u) => Known(i, u)'
    BY <2>1
  <2>. HIDE DEF open, Known
  <2>. QED  BY <2>1, <2>2, <2>3
<1>17. ASSUME NEW t \in Direct, Split(t)
      PROVE  BadgeInv'
  <2>. DEFINE open == {active, t}
  <2>1. /\ owed' = owed \ open /\ UNCHANGED <<me, mute, lastReadAt, refreshing, messages, events>>
        /\ \A u \in Direct \ open : counts'[u] = counts[u]
        /\ \A r \in reading' : r \in reading \/ r.thread \in open
    BY <1>17 DEF Split, MarkOpen
  <2>2. owed \subseteq Direct
    BY DEF Typed, UnreadTypes
  <2>3. \A i, u : Known(i, u) => Known(i, u)'
    BY <2>1
  <2>. HIDE DEF open, Known
  <2>. QED  BY <2>1, <2>2, <2>3
<1>18. ASSUME NEW k \in DOMAIN refreshing, UnreadArrives(k)
      PROVE  BadgeInv'
  <2>1. /\ refreshing[k].at = "counted" /\ counts' = refreshing[k].counts /\ refreshing' = RemoveAt(refreshing, k)
        /\ UNCHANGED <<owed, me, mute, lastReadAt, reading, messages, events>>
    BY <1>18 DEF UnreadArrives
  <2>2. \A i, t : Known(i, t) => Known(i, t)' /\ counts'[t] > 0
    <3>1. \A i, t : Known(i, t) => counts'[t] > 0
      BY <2>1
    <3>2. \A i, t : Known(i, t) => Known(i, t)'
      <4>. HIDE DEF Known
      <4>. QED  BY <2>1, OneLess, KnownIsKept
    <3>. QED  BY <3>1, <3>2
  <2>. HIDE DEF Known
  <2>. QED  BY <2>1, <2>2
<1>19. ASSUME NEW k \in DOMAIN refreshing, UnreadFails(k)
      PROVE  BadgeInv'
  <2>1. /\ refreshing' = RemoveAt(refreshing, k)
        /\ UNCHANGED <<counts, owed, me, mute, lastReadAt, reading, messages, events>>
    BY <1>19 DEF UnreadFails
  <2>2. \A i, t : Known(i, t) => Known(i, t)'
    <3>. HIDE DEF Known
    <3>. QED  BY <2>1, OneLess, KnownIsKept
  <2>. HIDE DEF Known
  <2>. QED  BY <2>1, <2>2
<1>20. ASSUME DeliverMessage
      PROVE  BadgeInv'
  <2>. DEFINE e == Head(events)
              t == e.thread
  <2>1. e \in Event /\ e.kind \in Kind /\ e = events[1] /\ 1 \in DOMAIN events
    BY <1>20, HeadTailProperties DEF DeliverMessage, Typed, ServerTypes
  <2>2. t \in Direct
    BY <2>1 DEF Event, Kind
  <2>3. \A k \in DOMAIN events' : events'[k].kind = "mention" => Of[events'[k].thread] = me
    BY <1>20, EventsMove DEF DeliverMessage
  <2>4. UNCHANGED <<me, mute, lastReadAt, reading, refreshing, messages>>
    BY <1>20 DEF DeliverMessage
  <2>5. ASSUME NEW u \in owed
        PROVE  counts'[u] > 0
    <3>1. u \in Direct /\ counts[u] \in Nat /\ counts \in [Direct -> Nat] /\ counts[u] > 0
      BY DEF Typed, UnreadTypes
    <3>2. counts' = counts \/ counts' = [counts EXCEPT ![t] = @ + 1]
      BY <1>20 DEF DeliverMessage
    <3>. QED  BY <2>2, <3>1, <3>2
  <2>6. ASSUME NEW u \in owed', u \notin owed
        PROVE  /\ counts'[u] > 0 /\ Of[u] = me /\ mute[u] # "none" /\ \A r \in reading : r.thread # u
               /\ \E i \in DOMAIN messages : Known(i, u)
    <3>1. /\ u \in OwedFor(t) /\ e.kind = "mention" /\ counts' = [counts EXCEPT ![t] = @ + 1]
      BY <1>20, <2>6 DEF DeliverMessage
    <3>2. /\ u = t /\ mute[t] # "none" /\ refreshing = <<>> /\ \A r \in reading : r.thread # t
          /\ \E i \in DOMAIN messages :
               messages[i].thread = t /\ messages[i].mention /\ messages[i].at > lastReadAt[t]
      BY <3>1 DEF OwedFor
    <3>3. counts'[t] > 0
      BY <2>2, <3>1 DEF Typed, UnreadTypes
    <3>4. Of[t] = me
      BY <2>1, <3>1
    <3>. QED  BY <3>2, <3>3, <3>4
  <2>. HIDE DEF e, t
  <2>. QED  BY <2>3, <2>4, <2>5, <2>6
<1>21. ASSUME NEW l \in lookups, MuteArrives(l)
      PROVE  BadgeInv'
  BY <1>21 DEF MuteArrives
<1>22. ASSUME NEW l \in lookups, MuteLookupFails(l)
      PROVE  BadgeInv'
  BY <1>22 DEF MuteLookupFails
<1>23. ASSUME NEW t \in Direct, NEW level \in Level, SetMute(t, level)
      PROVE  BadgeInv'
  BY <1>23 DEF SetMute
<1>24. ASSUME NEW m \in muting, MuteAnswered(m)
      PROVE  BadgeInv'
  BY <1>24 DEF MuteAnswered
<1>25. ASSUME DeliverInvite
      PROVE  BadgeInv'
  BY <1>25, EventsMove DEF DeliverInvite
<1>26. ASSUME OpenBell
      PROVE  BadgeInv'
  BY <1>26 DEF OpenBell
<1>27. ASSUME NEW k \in DOMAIN feeds, FeedArrives(k)
      PROVE  BadgeInv'
  BY <1>27 DEF FeedArrives
<1>28. ASSUME NEW k \in DOMAIN feeds, FeedFails(k)
      PROVE  BadgeInv'
  BY <1>28 DEF FeedFails
<1>29. ASSUME NEW i \in Invite, NEW op \in {"accepted", "declined"}, AnswerInBell(op, i)
      PROVE  BadgeInv'
  BY <1>29 DEF AnswerInBell
<1>30. ASSUME NEW i \in Invite, DismissCard(i)
      PROVE  BadgeInv'
  BY <1>30 DEF DismissCard
<1>31. ASSUME NEW i \in Invite, JoinFromCard(i)
      PROVE  BadgeInv'
  BY <1>31 DEF JoinFromCard
<1>32. ASSUME NEW i \in Invite, CloseCard(i)
      PROVE  BadgeInv'
  BY <1>32 DEF CloseCard
<1>33. ASSUME NEW r \in answering, AnswerLost(r)
      PROVE  BadgeInv'
  BY <1>33 DEF AnswerLost
<1>34. ASSUME NEW r \in answering, AnswerArrives(r)
      PROVE  BadgeInv'
  BY <1>34 DEF AnswerArrives
<1>35. ASSUME UNCHANGED notificationsVars
      PROVE  BadgeInv'
  BY <1>35 DEF notificationsVars
<1>. QED  BY <1>1, <1>2, <1>3, <1>4, <1>5, <1>6, <1>7, <1>8, <1>9, <1>10, <1>11, <1>12,
           <1>13, <1>14, <1>15, <1>16, <1>17, <1>18, <1>19, <1>20, <1>21, <1>22, <1>23,
           <1>24, <1>25, <1>26, <1>27, <1>28, <1>29, <1>30, <1>31, <1>32, <1>33, <1>34,
           <1>35, NotificationsCases

\* A mention that nothing under way or done since accounts for has its badge.
THEOREM BadgesCorrect == NotificationsSpec => []MentionsAreBadged
<1>1. NotificationsInit => BadgeInv
  BY DEF NotificationsInit, BadgeInv
<1>2. Typed /\ Typed' /\ BadgeInv /\ [NotificationsNext]_notificationsVars => BadgeInv'
  BY BadgeStep
<1>3. BadgeInv => MentionsAreBadged
  BY DEF BadgeInv, MentionsAreBadged
<1>. QED  BY <1>1, <1>2, <1>3, NotificationsTyped, PTL DEF NotificationsSpec

(***************************************************************************)
(* The bell.                                                               *)
(***************************************************************************)

\* An invite's event is on its way.
InviteComing == \E k \in DOMAIN events : events[k].kind = "invite"

\* Where the row goes before the answer comes.
Ahead(r) == r.from = "bell" \/ r.op = "declined"

\* The bell has an invite that is pending, unless it went ahead of its answer,
\* and none that is not, unless a card has yet to hear that it was accepted.
Matches(i) ==
  /\ i \in Pending =>
       i \in invites \/ \E r \in answering : r.invite = i /\ r.at # "done" /\ Ahead(r)
  /\ i \in invites =>
       i \in Pending \/ \E r \in answering : r.invite = i /\ r.at = "done" /\ ~Ahead(r)

\* A fresh feed has what is pending, or another is to come, and so has the bell
\* that was last filled by one.
BellInv ==
  /\ does.invites = {} => ~InviteComing /\ \A i \in Invite : invite[i] = "none"
  /\ \A k \in DOMAIN feeds : feeds[k].fresh =>
       /\ feeds[k].listed /\ answering = {}
       /\ feeds[k].invites = Pending \/ InviteComing \/ k < Len(feeds)
  /\ settled /\ feeds = <<>> /\ ~InviteComing => \A i \in Invite : Matches(i)
  /\ settled => \A r \in answering : Ahead(r) => r.invite \notin invites
  /\ \A r \in answering : r.at = "done" => invite[r.invite] \notin {"none", "pending"}

\* Asking for the feed adds one that is not fresh.
LEMMA FeedAsked ==
  ASSUME Typed, RefreshesBell
  PROVE  /\ feeds' # <<>>
         /\ \A k \in DOMAIN feeds' : feeds'[k].fresh =>
              k \in DOMAIN feeds /\ feeds'[k] = feeds[k] /\ k < Len(feeds')
<1>1. AskFeed \in Feed /\ ~AskFeed.fresh
  BY DEF AskFeed, Feed
<1>2. feeds \in Seq(Feed) /\ feeds' = Append(feeds, AskFeed)
  BY DEF RefreshesBell, Typed, BellTypes
<1>3. /\ Len(feeds') = Len(feeds) + 1 /\ feeds' # <<>> /\ DOMAIN feeds' = 1 .. Len(feeds) + 1
      /\ feeds'[Len(feeds) + 1] = AskFeed
      /\ \A k \in DOMAIN feeds : feeds'[k] = feeds[k]
  BY <1>1, <1>2, WithLast
<1>4. DOMAIN feeds = 1 .. Len(feeds) /\ Len(feeds) \in Nat
  BY <1>2
<1>5. ASSUME NEW k \in DOMAIN feeds', feeds'[k].fresh
      PROVE  k \in DOMAIN feeds /\ feeds'[k] = feeds[k] /\ k < Len(feeds')
  <2>1. k # Len(feeds) + 1
    BY <1>1, <1>3, <1>5
  <2>. QED  BY <1>3, <1>4, <2>1
<1>. QED  BY <1>3, <1>5

\* Overtaking leaves no feed fresh.
LEMMA FeedsOvertaken ==
  ASSUME Typed, feeds' = Overtaken(feeds)
  PROVE  (feeds' = <<>> => feeds = <<>>) /\ \A k \in DOMAIN feeds' : ~feeds'[k].fresh
<1>1. feeds \in Seq(Feed)
  BY DEF Typed, BellTypes
<1>2. /\ feeds' \in Seq(Feed) /\ Len(feeds') = Len(feeds)
      /\ \A k \in DOMAIN feeds : ~feeds'[k].fresh
  BY <1>1, OvertakenFeeds
<1>. QED  BY <1>1, <1>2

\* Of the feeds after one that was taken, those that are fresh were so before.
LEMMA FeedTaken ==
  ASSUME Typed, NEW k \in DOMAIN feeds,
         feeds' = Overtaken(SubSeq(feeds, 1, k - 1)) \o SubSeq(feeds, k + 1, Len(feeds))
  PROVE  /\ feeds' = <<>> => k = Len(feeds)
         /\ \A n \in DOMAIN feeds' : feeds'[n].fresh =>
              n + 1 \in DOMAIN feeds /\ feeds'[n] = feeds[n + 1] /\ Len(feeds') = Len(feeds) - 1
<1>. DEFINE before == SubSeq(feeds, 1, k - 1)
<1>1. feeds \in Seq(Feed) /\ k \in 1 .. Len(feeds) /\ Len(feeds) \in Nat /\ DOMAIN feeds = 1 .. Len(feeds)
  BY DEF Typed, BellTypes
<1>2. before \in Seq(Feed) /\ Len(before) = k - 1
  BY <1>1, SubSeqProperties
<1>. HIDE DEF before
<1>3. /\ Overtaken(before) \in Seq(Feed) /\ Len(Overtaken(before)) = k - 1
      /\ \A i \in 1 .. k - 1 : ~Overtaken(before)[i].fresh
  BY <1>2, OvertakenFeeds
<1>4. /\ feeds' \in Seq(Feed) /\ Len(feeds') = Len(feeds) - 1
      /\ \A i \in 1 .. Len(feeds) - 1 :
           feeds'[i] = IF i < k THEN Overtaken(before)[i] ELSE feeds[i + 1]
  BY <1>1, <1>3, Spliced DEF before
<1>5. DOMAIN feeds' = 1 .. Len(feeds) - 1 /\ (feeds' = <<>> => Len(feeds) - 1 = 0)
  BY <1>4
<1>6. ASSUME NEW n \in 1 .. Len(feeds) - 1, feeds'[n].fresh
      PROVE  n + 1 \in DOMAIN feeds /\ feeds'[n] = feeds[n + 1]
  <2>1. n < k => n \in 1 .. k - 1
    BY <1>1
  <2>2. ~(n < k)
    BY <1>3, <1>4, <1>6, <2>1
  <2>3. n + 1 \in 1 .. Len(feeds)
    BY <1>1
  <2>4. feeds'[n] = feeds[n + 1]
    BY <1>4, <2>2
  <2>. QED  BY <1>1, <2>3, <2>4
<1>7. feeds' = <<>> => k = Len(feeds)
  BY <1>1, <1>5
<1>. QED  BY <1>4, <1>5, <1>6, <1>7

\* Every step keeps BellInv.
LEMMA BellStep ==
  ASSUME Typed, Typed', BellInv, [NotificationsNext]_notificationsVars
  PROVE  BellInv'
<1>. USE NotificationsAssumption DEF BellInv, Matches, Ahead, Pending, InviteComing, bell, mutes, unread, place, server
<1>1. ASSUME NEW t \in Direct, NEW mention \in BOOLEAN, PeerSends(t, mention)
      PROVE  BellInv'
  <2>. DEFINE a == [kind |-> "message", thread |-> t]
              b == [kind |-> "mention", thread |-> t]
  <2>1. /\ a.kind # "invite" /\ b.kind # "invite" /\ a \in Event /\ b \in Event /\ events \in Seq(Event)
    BY DEF Event, Kind, Typed, ServerTypes
  <2>2. events' = events \o (IF t \in subscribed THEN <<a>> ELSE <<>>)
                         \o (IF mention /\ Of[t] = me THEN <<b>> ELSE <<>>)
    BY <1>1 DEF PeerSends
  <2>. HIDE DEF a, b
  <2>. DEFINE s == IF t \in subscribed THEN <<a>> ELSE <<>>
              r == IF mention /\ Of[t] = me THEN <<b>> ELSE <<>>
  <2>3. /\ s \in Seq(Event) /\ r \in Seq(Event) /\ events' = events \o s \o r
        /\ \A k \in DOMAIN s : s[k].kind # "invite"
        /\ \A k \in DOMAIN r : r[k].kind # "invite"
    BY <2>1, <2>2
  <2>. HIDE DEF s, r
  <2>4. \A p, q \in Seq(Event) :
          (\A k \in DOMAIN q : q[k].kind # "invite") =>
            ((\E k \in DOMAIN (p \o q) : (p \o q)[k].kind = "invite")
              <=> \E k \in DOMAIN p : p[k].kind = "invite")
    <3>1. ASSUME NEW p \in Seq(Event), NEW q \in Seq(Event), \A k \in DOMAIN q : q[k].kind # "invite"
          PROVE  ((\E k \in DOMAIN (p \o q) : (p \o q)[k].kind = "invite")
                   <=> \E k \in DOMAIN p : p[k].kind = "invite")
      <4>1. /\ p \o q \in Seq(Event) /\ Len(p \o q) = Len(p) + Len(q)
            /\ \A i \in 1 .. Len(p) + Len(q) :
                 (p \o q)[i] = IF i <= Len(p) THEN p[i] ELSE q[i - Len(p)]
        BY ConcatProperties
      <4>2. /\ DOMAIN (p \o q) = 1 .. Len(p) + Len(q) /\ DOMAIN p = 1 .. Len(p) /\ DOMAIN q = 1 .. Len(q)
            /\ Len(p) \in Nat /\ Len(q) \in Nat
        BY <4>1
      <4>3. \A i \in 1 .. Len(p) + Len(q) : ~(i <= Len(p)) => i - Len(p) \in 1 .. Len(q)
        BY <4>2
      <4>. QED  BY <3>1, <4>1, <4>2, <4>3
    <3>. QED  BY <3>1
  <2>5. InviteComing' <=> InviteComing
    <3>1. events \o s \in Seq(Event)
      BY <2>1, <2>3
    <3>2. InviteComing' <=> \E k \in DOMAIN (events \o s) : (events \o s)[k].kind = "invite"
      BY <2>3, <2>4, <3>1
    <3>3. (\E k \in DOMAIN (events \o s) : (events \o s)[k].kind = "invite") <=> InviteComing
      <4>. HIDE DEF BellInv
      <4>. QED  BY <2>1, <2>3, <2>4
    <3>. QED  BY <3>2, <3>3
  <2>6. UNCHANGED <<does, invite, invites, feeds, answering, settled>>
    BY <1>1 DEF PeerSends
  <2>. HIDE DEF InviteComing
  <2>. QED  BY <2>5, <2>6
<1>2. ASSUME NEW r \in reading, ReadStamped(r)
      PROVE  BellInv'
  BY <1>2 DEF ReadStamped
<1>3. ASSUME NEW r \in reading, ReadWritten(r)
      PROVE  BellInv'
  BY <1>3 DEF ReadWritten
<1>4. ASSUME NEW k \in DOMAIN refreshing, CountUnread(k)
      PROVE  BellInv'
  BY <1>4 DEF CountUnread
<1>5. ASSUME NEW m \in muting, MuteWritten(m)
      PROVE  BellInv'
  BY <1>5 DEF MuteWritten
<1>6. ASSUME NEW l \in lookups, MuteRead(l)
      PROVE  BellInv'
  BY <1>6 DEF MuteRead
<1>7. ASSUME NEW i \in Invite, InviteSent(i)
      PROVE  BellInv'
  BY <1>7 DEF InviteSent
<1>8. ASSUME NEW k \in DOMAIN feeds, FeedRead(k)
      PROVE  BellInv'
  <2>. DEFINE f == [listed |-> TRUE, invites |-> Pending, fresh |-> answering = {}]
  <2>1. f \in Feed /\ f.listed /\ f.invites = Pending /\ f.fresh = (answering = {})
    BY DEF Feed
  <2>2. feeds' = [feeds EXCEPT ![k] = f] /\ UNCHANGED <<does, invite, events, invites, answering, settled>>
    BY <1>8 DEF FeedRead
  <2>3. feeds \in Seq(Feed)
    BY DEF Typed, BellTypes
  <2>. HIDE DEF f
  <2>4. /\ DOMAIN feeds' = DOMAIN feeds /\ Len(feeds') = Len(feeds) /\ feeds' # <<>>
        /\ \A n \in DOMAIN feeds : feeds'[n] = IF n = k THEN f ELSE feeds[n]
    BY <2>1, <2>2, <2>3, Changed
  <2>. QED  BY <2>1, <2>2, <2>4
<1>9. ASSUME NEW r \in answering, AnswerHandled(r)
      PROVE  BellInv'
  <2>1. /\ r \in Answer /\ r.at = "sent" /\ UNCHANGED <<does, events, invites, feeds, settled>>
        /\ \A k \in DOMAIN feeds : ~feeds[k].fresh
    BY <1>9 DEF AnswerHandled, Typed, BellTypes
  <2>2. CASE invite[r.invite] = "pending"
    <3>. DEFINE q == [r EXCEPT !.at = "done"]
    <3>1. /\ q.invite = r.invite /\ q.from = r.from /\ q.op = r.op /\ q.at = "done" /\ r.op # "pending"
      BY <2>1 DEF Answer
    <3>2. /\ answering' = (answering \ {r}) \cup {q}
          /\ \A i \in Invite : (i \in Pending') = (i \in Pending /\ i # r.invite)
          /\ r.invite \in Invite
      BY <1>9, <2>1, <2>2 DEF AnswerHandled, Answer, Typed, ServerTypes
    <3>3. does.invites # {}
      BY <2>2, <3>2
    <3>. HIDE DEF q
    <3>4. (settled /\ feeds = <<>> /\ ~InviteComing)' => \A i \in Invite : Matches(i)'
      <4>1. ASSUME settled /\ feeds = <<>> /\ ~InviteComing, NEW i \in Invite
            PROVE  Matches(i)'
        <5>1. Matches(i)
          BY <4>1
        <5>2. CASE i = r.invite
          <6>1. i \in invites => ~Ahead(q)
            BY <4>1, <5>2, <3>1
          <6>. QED  BY <2>1, <3>1, <3>2, <5>2, <6>1
        <5>3. CASE i # r.invite
          BY <2>1, <3>1, <3>2, <5>1, <5>3
        <5>. QED  BY <5>2, <5>3
      <4>. QED  BY <2>1, <4>1
    <3>5. settled' => \A s \in answering' : Ahead(s) => s.invite \notin invites'
      BY <2>1, <3>1, <3>2
    <3>6. \A s \in answering' : s.at = "done" => invite'[s.invite] \notin {"none", "pending"}
      <4>1. \A s \in answering : s.invite \in Invite
        BY DEF Typed, BellTypes, Answer
      <4>2. invite' = [invite EXCEPT ![r.invite] = r.op] /\ r.op \notin {"none", "pending"}
        BY <1>9, <2>1, <2>2 DEF AnswerHandled, Answer
      <4>3. \A i \in Invite : invite'[i] = IF i = r.invite THEN r.op ELSE invite[i]
        BY <3>2, <4>2 DEF Typed, ServerTypes
      <4>. QED  BY <2>1, <3>1, <3>2, <4>1, <4>2, <4>3
    <3>. HIDE DEF Matches
    <3>. QED  BY <2>1, <3>3, <3>4, <3>5, <3>6
  <2>3. CASE invite[r.invite] # "pending"
    <3>. DEFINE q == [r EXCEPT !.at = "failed"]
    <3>1. /\ q.invite = r.invite /\ q.from = r.from /\ q.op = r.op /\ q.at = "failed"
      BY <2>1 DEF Answer
    <3>2. answering' = (answering \ {r}) \cup {q} /\ UNCHANGED invite
      BY <1>9, <2>3 DEF AnswerHandled
    <3>. HIDE DEF q
    <3>. QED  BY <2>1, <3>1, <3>2
  <2>. QED  BY <2>2, <2>3
<1>10. ASSUME NEW u \in Account, SignIn(u)
      PROVE  BellInv'
  <2>1. UNCHANGED <<does, invite, events, invites, answering, settled>> /\ (UNCHANGED feeds \/ RefreshesBell)
    BY <1>10 DEF SignIn
  <2>. QED  BY <2>1, FeedAsked
<1>11. ASSUME SignOut
      PROVE  BellInv'
  <2>1. UNCHANGED <<does, invite, invites, feeds, answering, settled>> /\ events' = <<>> /\ does.invites = {}
    BY <1>11, Profiled DEF SignOut, Typed
  <2>2. ~InviteComing /\ ~InviteComing'
    BY <2>1
  <2>. HIDE DEF InviteComing
  <2>. QED  BY <2>1, <2>2
<1>12. ASSUME GoToDms
      PROVE  BellInv'
  BY <1>12 DEF GoToDms
<1>13. ASSUME GoToLobby
      PROVE  BellInv'
  BY <1>13 DEF GoToLobby
<1>14. ASSUME Unsplit
      PROVE  BellInv'
  BY <1>14 DEF Unsplit
<1>15. ASSUME CloseActive
      PROVE  BellInv'
  BY <1>15 DEF CloseActive
<1>16. ASSUME NEW t \in Direct, Select(t)
      PROVE  BellInv'
  BY <1>16 DEF Select
<1>17. ASSUME NEW t \in Direct, Split(t)
      PROVE  BellInv'
  BY <1>17 DEF Split
<1>18. ASSUME NEW k \in DOMAIN refreshing, UnreadArrives(k)
      PROVE  BellInv'
  BY <1>18 DEF UnreadArrives
<1>19. ASSUME NEW k \in DOMAIN refreshing, UnreadFails(k)
      PROVE  BellInv'
  BY <1>19 DEF UnreadFails
<1>20. ASSUME DeliverMessage
      PROVE  BellInv'
  <2>1. UNCHANGED <<does, invite, invites, feeds, answering, settled>>
    BY <1>20 DEF DeliverMessage
  <2>2. events \in Seq(Event) /\ events # <<>> /\ events' = Tail(events) /\ events[1].kind # "invite"
    BY <1>20 DEF DeliverMessage, Typed, ServerTypes, Kind
  <2>3. \A k \in DOMAIN events : k # 1 => k - 1 \in DOMAIN events' /\ events'[k - 1] = events[k]
    BY <2>2
  <2>4. InviteComing => InviteComing'
    <3>1. ASSUME NEW k \in DOMAIN events, events[k].kind = "invite"
          PROVE  InviteComing'
      <4>1. k - 1 \in DOMAIN events' /\ events'[k - 1] = events[k]
        BY <2>2, <2>3, <3>1
      <4>. QED  BY <3>1, <4>1
    <3>. QED  BY <3>1
  <2>5. InviteComing' => InviteComing
    BY <2>2, EventsMove
  <2>. HIDE DEF InviteComing
  <2>. QED  BY <2>1, <2>4, <2>5
<1>21. ASSUME NEW l \in lookups, MuteArrives(l)
      PROVE  BellInv'
  BY <1>21 DEF MuteArrives
<1>22. ASSUME NEW l \in lookups, MuteLookupFails(l)
      PROVE  BellInv'
  BY <1>22 DEF MuteLookupFails
<1>23. ASSUME NEW t \in Direct, NEW level \in Level, SetMute(t, level)
      PROVE  BellInv'
  BY <1>23 DEF SetMute
<1>24. ASSUME NEW m \in muting, MuteAnswered(m)
      PROVE  BellInv'
  BY <1>24 DEF MuteAnswered
<1>25. ASSUME DeliverInvite
      PROVE  BellInv'
  <2>1. /\ UNCHANGED <<does, invite, invites, answering>> /\ events # <<>> /\ events' = Tail(events)
        /\ (RefreshesBell /\ UNCHANGED settled) \/ (feeds' = Overtaken(feeds) /\ settled' = FALSE)
    BY <1>25 DEF DeliverInvite
  <2>2. InviteComing
    BY <1>25 DEF DeliverInvite, Typed, ServerTypes
  <2>3. CASE RefreshesBell /\ UNCHANGED settled
    BY <2>1, <2>2, <2>3, FeedAsked
  <2>4. CASE feeds' = Overtaken(feeds) /\ settled' = FALSE
    BY <2>1, <2>2, <2>4, FeedsOvertaken
  <2>. QED  BY <2>1, <2>3, <2>4
<1>26. ASSUME OpenBell
      PROVE  BellInv'
  <2>1. UNCHANGED <<does, invite, events, invites, answering, settled>> /\ RefreshesBell
    BY <1>26 DEF OpenBell
  <2>. QED  BY <2>1, FeedAsked
<1>27. ASSUME NEW k \in DOMAIN feeds, FeedArrives(k)
      PROVE  BellInv'
  <2>1. /\ UNCHANGED <<does, invite, events, answering>> /\ invites' = feeds[k].invites /\ settled' = feeds[k].fresh
        /\ feeds' = Overtaken(SubSeq(feeds, 1, k - 1)) \o SubSeq(feeds, k + 1, Len(feeds))
    BY <1>27 DEF FeedArrives, BellShows
  <2>2. Len(feeds) \in Nat /\ k \in Nat /\ DOMAIN feeds = 1 .. Len(feeds)
    BY DEF Typed, BellTypes
  <2>3. ASSUME NEW n \in DOMAIN feeds', feeds'[n].fresh
        PROVE  /\ feeds'[n].listed /\ answering = {}
               /\ feeds'[n].invites = Pending \/ InviteComing \/ n < Len(feeds')
    <3>1. n + 1 \in DOMAIN feeds /\ feeds'[n] = feeds[n + 1] /\ Len(feeds') = Len(feeds) - 1
      BY <2>1, <2>3, FeedTaken
    <3>2. n + 1 < Len(feeds) => n < Len(feeds')
      BY <2>2, <3>1, <2>3 DEF Typed, BellTypes
    <3>. QED  BY <2>3, <3>1, <3>2
  <2>4. settled' => answering = {}
    BY <2>1
  <2>5. settled' /\ feeds' = <<>> /\ ~InviteComing => invites' = Pending
    <3>1. feeds' = <<>> => k = Len(feeds)
      BY <2>1, FeedTaken
    <3>2. ~(Len(feeds) < Len(feeds))
      BY <2>2
    <3>. QED  BY <2>1, <3>1, <3>2
  <2>. QED  BY <2>1, <2>3, <2>4, <2>5
<1>28. ASSUME NEW k \in DOMAIN feeds, FeedFails(k)
      PROVE  BellInv'
  <2>1. /\ UNCHANGED <<does, invite, events, invites, answering>> /\ settled' = FALSE
        /\ feeds' = Overtaken(RemoveAt(feeds, k))
    BY <1>28 DEF FeedFails
  <2>2. RemoveAt(feeds, k) \in Seq(Feed)
    BY Without DEF Typed, BellTypes
  <2>3. \A n \in DOMAIN feeds' : ~feeds'[n].fresh
    BY <2>1, <2>2, OvertakenFeeds
  <2>. QED  BY <2>1, <2>3
<1>29. ASSUME NEW i \in Invite, NEW op \in {"accepted", "declined"}, AnswerInBell(op, i)
      PROVE  BellInv'
  <2>. DEFINE from == "bell"
              q == [op |-> op, invite |-> i, from |-> from, at |-> "sent"]
  <2>1. /\ q.invite = i /\ q.at = "sent" /\ Ahead(q)
    OBVIOUS
  <2>2. /\ answering' = answering \cup {q} /\ invites' = invites \ {i} /\ feeds' = Overtaken(feeds)
        /\ UNCHANGED <<does, invite, events, settled>>
    BY <1>29 DEF AnswerInBell, Asks, BellShows
  <2>3. (feeds' = <<>> => feeds = <<>>) /\ \A k \in DOMAIN feeds' : ~feeds'[k].fresh
    BY <2>2, FeedsOvertaken
  <2>. HIDE DEF q
  <2>4. \A j \in Invite : Matches(j) => Matches(j)'
    <3>1. ASSUME NEW j \in Invite, Matches(j)
          PROVE  Matches(j)'
      <4>1. CASE j = i
        BY <2>1, <2>2, <4>1
      <4>2. CASE j # i
        BY <2>2, <3>1, <4>2
      <4>. QED  BY <4>1, <4>2
    <3>. QED  BY <3>1
  <2>5. settled' => \A r \in answering' : Ahead(r) => r.invite \notin invites'
    BY <2>1, <2>2
  <2>6. \A r \in answering' : r.at = "done" => invite'[r.invite] \notin {"none", "pending"}
    BY <2>1, <2>2
  <2>. HIDE DEF Matches, Ahead
  <2>. QED  BY <2>2, <2>3, <2>4, <2>5, <2>6
<1>30. ASSUME NEW i \in Invite, DismissCard(i)
      PROVE  BellInv'
  <2>. DEFINE from == "card"
              q == [op |-> "declined", invite |-> i, from |-> from, at |-> "sent"]
  <2>1. /\ q.invite = i /\ q.at = "sent" /\ Ahead(q)
    OBVIOUS
  <2>2. /\ answering' = answering \cup {q} /\ invites' = invites \ {i} /\ feeds' = Overtaken(feeds)
        /\ UNCHANGED <<does, invite, events, settled>>
    BY <1>30 DEF DismissCard, Asks, BellShows
  <2>3. (feeds' = <<>> => feeds = <<>>) /\ \A k \in DOMAIN feeds' : ~feeds'[k].fresh
    BY <2>2, FeedsOvertaken
  <2>. HIDE DEF q
  <2>4. \A j \in Invite : Matches(j) => Matches(j)'
    <3>1. ASSUME NEW j \in Invite, Matches(j)
          PROVE  Matches(j)'
      <4>1. CASE j = i
        BY <2>1, <2>2, <4>1
      <4>2. CASE j # i
        BY <2>2, <3>1, <4>2
      <4>. QED  BY <4>1, <4>2
    <3>. QED  BY <3>1
  <2>5. settled' => \A r \in answering' : Ahead(r) => r.invite \notin invites'
    BY <2>1, <2>2
  <2>6. \A r \in answering' : r.at = "done" => invite'[r.invite] \notin {"none", "pending"}
    BY <2>1, <2>2
  <2>. HIDE DEF Matches, Ahead
  <2>. QED  BY <2>2, <2>3, <2>4, <2>5, <2>6
<1>31. ASSUME NEW i \in Invite, JoinFromCard(i)
      PROVE  BellInv'
  <2>. DEFINE q == [op |-> "accepted", invite |-> i, from |-> "card", at |-> "sent"]
  <2>1. ~Ahead(q) /\ q.at = "sent"
    OBVIOUS
  <2>2. /\ answering' = answering \cup {q} /\ feeds' = Overtaken(feeds)
        /\ UNCHANGED <<does, invite, events, invites, settled>>
    BY <1>31 DEF JoinFromCard, Asks
  <2>3. (feeds' = <<>> => feeds = <<>>) /\ \A k \in DOMAIN feeds' : ~feeds'[k].fresh
    BY <2>2, FeedsOvertaken
  <2>. HIDE DEF q
  <2>4. \A j \in Invite : Matches(j) => Matches(j)'
    BY <2>2
  <2>5. settled' => \A r \in answering' : Ahead(r) => r.invite \notin invites'
    BY <2>1, <2>2
  <2>6. \A r \in answering' : r.at = "done" => invite'[r.invite] \notin {"none", "pending"}
    BY <2>1, <2>2
  <2>. HIDE DEF Matches, Ahead
  <2>. QED  BY <2>2, <2>3, <2>4, <2>5, <2>6
<1>32. ASSUME NEW i \in Invite, CloseCard(i)
      PROVE  BellInv'
  BY <1>32 DEF CloseCard
<1>33. ASSUME NEW r \in answering, AnswerLost(r)
      PROVE  BellInv'
  <2>. DEFINE q == [r EXCEPT !.at = "failed"]
  <2>1. /\ q.invite = r.invite /\ q.from = r.from /\ q.op = r.op /\ q.at = "failed" /\ r.at = "sent"
    BY <1>33 DEF AnswerLost, Answer, Typed, BellTypes
  <2>2. /\ answering' = (answering \ {r}) \cup {q} /\ answering # {}
        /\ UNCHANGED <<does, invite, events, invites, feeds, settled>>
    BY <1>33 DEF AnswerLost
  <2>. HIDE DEF q
  <2>. QED  BY <2>1, <2>2
<1>34. ASSUME NEW r \in answering, AnswerArrives(r)
      PROVE  BellInv'
  <2>1. /\ r.at # "sent" /\ answering' = answering \ {r} /\ UNCHANGED <<does, invite, events>>
        /\ \A k \in DOMAIN feeds : ~feeds[k].fresh
    BY <1>34 DEF AnswerArrives
  <2>2. r \in Answer
    BY DEF Typed, BellTypes
  <2>3. CASE r.at = "failed" /\ r.from = "bell"
    <3>1. RefreshesBell /\ UNCHANGED <<invites, settled>>
      BY <1>34, <2>3 DEF AnswerArrives
    <3>2. feeds' # <<>> /\ \A k \in DOMAIN feeds' : ~feeds'[k].fresh
      BY <2>1, <3>1, FeedAsked
    <3>. QED  BY <2>1, <3>1, <3>2
  <2>4. CASE r.at = "failed" /\ r.from # "bell"
    <3>1. settled' = FALSE /\ UNCHANGED feeds
      BY <1>34, <2>4 DEF AnswerArrives
    <3>. QED  BY <2>1, <3>1
  <2>5. CASE r.at = "done"
    <3>1. UNCHANGED <<feeds, settled>> /\ invites' = IF Ahead(r) THEN invites ELSE invites \ {r.invite}
      BY <1>34, <2>2, <2>5 DEF AnswerArrives, BellShows, Answer
    <3>2. settled /\ feeds = <<>> /\ ~InviteComing => \A i \in Invite : Matches(i)'
      <4>1. ASSUME settled /\ feeds = <<>> /\ ~InviteComing, NEW i \in Invite
            PROVE  Matches(i)'
        <5>1. Matches(i)
          BY <4>1
        <5>2. i \in Pending => i \in invites' \/ \E q \in answering' : q.invite = i /\ q.at # "done" /\ Ahead(q)
          <6>1. invite[r.invite] # "pending"
            BY <2>5
          <6>2. r.invite \notin Pending
            BY <6>1
          <6>. QED  BY <2>1, <2>5, <3>1, <5>1, <6>2
        <5>3. i \in invites' => i \in Pending \/ \E q \in answering' : q.invite = i /\ q.at = "done" /\ ~Ahead(q)
          <6>1. ASSUME i \in invites', i \notin Pending
                PROVE  \E q \in answering' : q.invite = i /\ q.at = "done" /\ ~Ahead(q)
            <7>1. i \in invites /\ (i = r.invite => Ahead(r))
              BY <3>1, <6>1
            <7>2. PICK q \in answering : q.invite = i /\ q.at = "done" /\ ~Ahead(q)
              BY <5>1, <6>1, <7>1
            <7>. HIDE DEF Ahead
            <7>3. q # r
              BY <7>1, <7>2
            <7>. QED  BY <2>1, <7>2, <7>3
          <6>. QED  BY <6>1
        <5>. QED  BY <2>1, <5>2, <5>3
      <4>. QED  BY <4>1
    <3>3. settled => \A q \in answering' : Ahead(q) => q.invite \notin invites'
      BY <2>1, <3>1
    <3>. HIDE DEF Matches, Ahead
    <3>. QED  BY <2>1, <3>1, <3>2, <3>3
  <2>. QED  BY <2>1, <2>2, <2>3, <2>4, <2>5 DEF Answer
<1>35. ASSUME UNCHANGED notificationsVars
      PROVE  BellInv'
  BY <1>35 DEF notificationsVars
<1>. QED  BY <1>1, <1>2, <1>3, <1>4, <1>5, <1>6, <1>7, <1>8, <1>9, <1>10, <1>11, <1>12,
           <1>13, <1>14, <1>15, <1>16, <1>17, <1>18, <1>19, <1>20, <1>21, <1>22, <1>23,
           <1>24, <1>25, <1>26, <1>27, <1>28, <1>29, <1>30, <1>31, <1>32, <1>33, <1>34,
           <1>35, NotificationsCases

\* With nothing under way, the bell shows the invites that are pending.
THEOREM BellCorrect == NotificationsSpec => []BellSettles
<1>1. NotificationsInit => BellInv
  <2>. SUFFICES ASSUME NotificationsInit
                PROVE  BellInv
    OBVIOUS
  <2>1. /\ events = <<>> /\ feeds = <<>> /\ answering = {} /\ ~settled
        /\ invite = [i \in Invite |-> "none"]
    BY DEF NotificationsInit
  <2>. QED  BY <2>1 DEF BellInv, InviteComing
<1>2. Typed /\ Typed' /\ BellInv /\ [NotificationsNext]_notificationsVars => BellInv'
  BY BellStep
<1>3. Typed /\ BellInv => BellSettles
  <2>. SUFFICES ASSUME Typed, BellInv, settled, feeds = <<>>, answering = {},
                       \A k \in DOMAIN events : events[k].kind # "invite"
                PROVE  invites = Pending
    BY DEF BellSettles
  <2>1. \A i \in Invite : Matches(i)
    BY DEF BellInv, InviteComing
  <2>2. \A i \in Invite : i \in invites <=> i \in Pending
    BY <2>1 DEF Matches
  <2>3. invites \subseteq Invite /\ Pending \subseteq Invite
    BY DEF Typed, BellTypes, Pending
  <2>. QED  BY <2>2, <2>3
<1>. QED  BY <1>1, <1>2, <1>3, NotificationsTyped, PTL DEF NotificationsSpec
=============================================================================
