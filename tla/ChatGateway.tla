----------------------------- MODULE ChatGateway -----------------------------
(***************************************************************************)
(* apps/server/src/chat/ws.ts and ws-state.ts with presence/routes.ts: the *)
(* WebSocket gateway, its registry of subscriptions and online sockets,    *)
(* and the presence ("in <Room>", "last seen") that a disconnect cleans up.*)
(*                                                                         *)
(* The connection, message and close callbacks run to completion up to     *)
(* their first await.  A room command awaits its access check; a close     *)
(* goes on, detached, through four database calls.  Everything else may    *)
(* happen in between.                                                      *)
(***************************************************************************)
EXTENDS Naturals, FiniteSets

CONSTANTS
  User,
  Conn,           \* WebSocket connections; a reconnect is another connection
  UserOf,         \* UserOf[c]: the user in the token that c presented
  Room,           \* room threads: access is what the Room tables say
  Dm,             \* direct-message threads: access is in the thread's id
  Participants,   \* Participants[d]: the two users of d
  Friends,        \* the accepted friendships, as a symmetric relation
  Post,           \* requests to /me/presence that can be under way
  NoRoom,
  \* Bounds.
  Reporting,      \* the users whose client reports a room in this instance
  MaxCommands     \* room commands under way

Thread == Room \cup Dm
Verb == {"subscribe", "unsubscribe"}

ASSUME ConnAssumption == UserOf \in [Conn -> User]
ASSUME ThreadAssumption ==
  /\ Participants \in [Dm -> SUBSET User]
  /\ Room \cap Dm = {}
  /\ NoRoom \notin Thread
ASSUME ReportingAssumption == Reporting \subseteq User

VARIABLES
  conn,           \* conn[c]: not connected yet, open, or closed
  onlineSockets,  \* user -> open sockets, as the registry has it
  subscriptions,  \* thread -> subscribed sockets, as the registry has it
  access,         \* access[r]: owner and members of room r
  commands,       \* room commands between their receipt and their effect
  cleanup,        \* cleanup[c]: where the close callback of c is suspended
  currentRoom,    \* User.currentRoomId
  stamped,        \* lastSeenAt was written after the user was last connected
  post,           \* post[p]: presence request between its update and its event
  told,           \* told[c][u]: the room of u that c's client last heard of
  \* History.
  held,           \* held[c]: threads c's user had access to at some time since c opened
  wentOnline,     \* users that ever connected
  setOffline      \* users whose room was set while they had no socket

registry == <<conn, onlineSockets, subscriptions>>
presence == <<currentRoom, stamped, post, told, setOffline>>
vars == <<registry, access, commands, cleanup, presence, held, wentOnline>>

RoomOrNone == Room \cup {NoRoom}
Command == [conn : Conn, verb : Verb, room : Room, access : {"asked", "granted", "refused"}]
NoPost == [at |-> "idle"]
PostFrame == {NoPost} \cup [at : {"send"}, user : User, room : RoomOrNone]

TypeOK ==
  /\ conn \in [Conn -> {"new", "open", "closed"}]
  /\ onlineSockets \in [User -> SUBSET Conn]
  /\ subscriptions \in [Thread -> SUBSET Conn]
  /\ access \in [Room -> SUBSET User]
  /\ commands \subseteq Command
  /\ cleanup \in [Conn -> {"none", "stamp", "read", "clear", "notify"}]
  /\ currentRoom \in [User -> RoomOrNone]
  /\ stamped \in [User -> BOOLEAN]
  /\ post \in [Post -> PostFrame]
  /\ told \in [Conn -> [User -> RoomOrNone]]
  /\ held \in [Conn -> SUBSET Thread]
  /\ wentOnline \subseteq User
  /\ setOffline \subseteq User

MayUse(u, t) == IF t \in Room THEN u \in access[t] ELSE u \in Participants[t]

isUserOnline(u) == onlineSockets[u] # {}

Init ==
  /\ conn = [c \in Conn |-> "new"]
  /\ onlineSockets = [u \in User |-> {}]
  /\ subscriptions = [t \in Thread |-> {}]
  /\ access \in [Room -> SUBSET User]
  /\ commands = {}
  /\ cleanup = [c \in Conn |-> "none"]
  /\ currentRoom = [u \in User |-> NoRoom]
  /\ stamped = [u \in User |-> FALSE]
  /\ post = [p \in Post |-> NoPost]
  /\ told = [c \in Conn |-> [u \in User |-> NoRoom]]
  /\ held = [c \in Conn |-> {}]
  /\ wentOnline = {}
  /\ setOffline = {}

-----------------------------------------------------------------------------
(* Connection and messages.                                                *)

\* The connection callback; a missing or bad token closes the socket before
\* the registry hears of it.
Connect(c) ==
  LET u == UserOf[c]
  IN  /\ conn[c] = "new"
      /\ conn' = [conn EXCEPT ![c] = "open"]
      /\ onlineSockets' = [onlineSockets EXCEPT ![u] = @ \cup {c}]
      /\ stamped' = [stamped EXCEPT ![u] = FALSE]
      /\ wentOnline' = wentOnline \cup {u}
      /\ setOffline' = setOffline \ {u}
      /\ held' = [held EXCEPT ![c] = {t \in Thread : MayUse(u, t)}]
      /\ UNCHANGED <<subscriptions, access, commands, cleanup, currentRoom, post, told>>

\* subscribe and unsubscribe of ws-state.ts.
Apply(verb, t, c) ==
  subscriptions' =
    [subscriptions EXCEPT ![t] = IF verb = "subscribe" THEN @ \cup {c} ELSE @ \ {c}]

\* A command on a DM thread: the check needs no database, so it takes effect
\* before any other event.
DmCommand(c, verb, d) ==
  /\ conn[c] = "open" /\ MayUse(UserOf[c], d)
  /\ Apply(verb, d, c)
  /\ UNCHANGED <<conn, onlineSockets, access, commands, cleanup, presence, held, wentOnline>>

\* A command on a room is received: the access check begins.
RoomCommand(c, verb, r) ==
  /\ conn[c] = "open" /\ Cardinality(commands) < MaxCommands
  /\ commands' = commands \cup
       {[conn |-> c, verb |-> verb, room |-> r, access |-> "asked"]}
  /\ UNCHANGED <<registry, access, cleanup, presence, held, wentOnline>>

\* Variant with a plausible fault, as all definitions called a variant here, only
\* for the mutation runs: any room that can be named is allowed, as for its token.
CheckAccessByName(m) ==
  /\ m.access = "asked"
  /\ commands' = (commands \ {m}) \cup {[m EXCEPT !.access = "granted"]}
  /\ UNCHANGED <<registry, access, cleanup, presence, held, wentOnline>>

\* canAccessThread reads the tables.
CheckAccess(m) ==
  /\ m.access = "asked"
  /\ commands' = (commands \ {m}) \cup
       {[m EXCEPT !.access = IF MayUse(UserOf[m.conn], m.room) THEN "granted" ELSE "refused"]}
  /\ UNCHANGED <<registry, access, cleanup, presence, held, wentOnline>>

\* The callback resumes with the answer, whatever became of the socket.
FinishCommand(m) ==
  /\ m.access # "asked"
  /\ commands' = commands \ {m}
  /\ IF m.access = "granted" THEN Apply(m.verb, m.room, m.conn) ELSE UNCHANGED subscriptions
  /\ UNCHANGED <<conn, onlineSockets, access, cleanup, presence, held, wentOnline>>

-----------------------------------------------------------------------------
(* Close.                                                                  *)

\* Variants: a close forgets all the sockets of the user; whether the user is
\* now offline is decided before the socket is taken out.
CloseForgetsUser(c) ==
  LET u == UserOf[c]
  IN  /\ conn[c] = "open"
      /\ conn' = [conn EXCEPT ![c] = "closed"]
      /\ subscriptions' = [t \in Thread |-> subscriptions[t] \ {c}]
      /\ onlineSockets' = [onlineSockets EXCEPT ![u] = {}]
      /\ cleanup' = [cleanup EXCEPT ![c] = "stamp"]
      /\ UNCHANGED <<access, commands, presence, held, wentOnline>>

CloseDecidesEarly(c) ==
  LET u == UserOf[c]
  IN  /\ conn[c] = "open"
      /\ conn' = [conn EXCEPT ![c] = "closed"]
      /\ subscriptions' = [t \in Thread |-> subscriptions[t] \ {c}]
      /\ onlineSockets' = [onlineSockets EXCEPT ![u] = @ \ {c}]
      /\ cleanup' = [cleanup EXCEPT ![c] = IF onlineSockets[u] = {} THEN "stamp" ELSE "read"]
      /\ UNCHANGED <<access, commands, presence, held, wentOnline>>

\* The close callback up to its first await: unsubscribeAll, markOffline, and
\* the decision whether lastSeenAt is to be stamped.
Close(c) ==
  LET u == UserOf[c]
      remaining == onlineSockets[u] \ {c}
  IN  /\ conn[c] = "open"
      /\ conn' = [conn EXCEPT ![c] = "closed"]
      /\ subscriptions' = [t \in Thread |-> subscriptions[t] \ {c}]
      /\ onlineSockets' = [onlineSockets EXCEPT ![u] = remaining]
      /\ cleanup' = [cleanup EXCEPT ![c] = IF remaining = {} THEN "stamp" ELSE "read"]
      /\ UNCHANGED <<access, commands, presence, held, wentOnline>>

\* Variant: the handler returns once lastSeenAt is written.
CleanupStampOnly(c) ==
  /\ cleanup[c] = "stamp"
  /\ stamped' = [stamped EXCEPT ![UserOf[c]] = TRUE]
  /\ cleanup' = [cleanup EXCEPT ![c] = "none"]
  /\ UNCHANGED <<registry, access, commands, currentRoom, post, told, setOffline, held, wentOnline>>

\* lastSeenAt is written.
CleanupStamp(c) ==
  /\ cleanup[c] = "stamp"
  /\ stamped' = [stamped EXCEPT ![UserOf[c]] = TRUE]
  /\ cleanup' = [cleanup EXCEPT ![c] = "read"]
  /\ UNCHANGED <<registry, access, commands, currentRoom, post, told, setOffline, held, wentOnline>>

\* currentRoomId is read; nothing more to do when it is null.
CleanupRead(c) ==
  /\ cleanup[c] = "read"
  /\ cleanup' = [cleanup EXCEPT ![c] = IF currentRoom[UserOf[c]] = NoRoom
                                       THEN "none" ELSE "clear"]
  /\ UNCHANGED <<registry, access, commands, presence, held, wentOnline>>

\* currentRoomId is cleared.
CleanupClear(c) ==
  /\ cleanup[c] = "clear"
  /\ currentRoom' = [currentRoom EXCEPT ![UserOf[c]] = NoRoom]
  /\ cleanup' = [cleanup EXCEPT ![c] = "notify"]
  /\ UNCHANGED <<registry, access, commands, stamped, post, told, setOffline, held, wentOnline>>

\* sendToUser of presence.update(u, r) to every friend of u.
TellFriends(u, r) ==
  told' = [c \in Conn |->
             IF <<u, UserOf[c]>> \in Friends /\ c \in onlineSockets[UserOf[c]]
             THEN [told[c] EXCEPT ![u] = r] ELSE told[c]]

\* The friends are found and told.
CleanupNotify(c) ==
  /\ cleanup[c] = "notify"
  /\ TellFriends(UserOf[c], NoRoom)
  /\ cleanup' = [cleanup EXCEPT ![c] = "none"]
  /\ UNCHANGED <<registry, access, commands, currentRoom, stamped, post, setOffline, held, wentOnline>>

-----------------------------------------------------------------------------
(* POST /me/presence: update, then look up room and friends, then tell.    *)

PresenceUpdate(p, u, r) ==
  /\ post[p] = NoPost
  /\ currentRoom' = [currentRoom EXCEPT ![u] = r]
  /\ post' = [post EXCEPT ![p] = [at |-> "send", user |-> u, room |-> r]]
  /\ setOffline' = IF isUserOnline(u) THEN setOffline \ {u} ELSE setOffline \cup {u}
  /\ UNCHANGED <<registry, access, commands, cleanup, stamped, told, held, wentOnline>>

PresenceSend(p) ==
  /\ post[p].at = "send"
  /\ TellFriends(post[p].user, post[p].room)
  /\ post' = [post EXCEPT ![p] = NoPost]
  /\ UNCHANGED <<registry, access, commands, cleanup, currentRoom, stamped, setOffline, held, wentOnline>>

-----------------------------------------------------------------------------
(* The room tables change under the gateway (rooms and invites routes): it *)
(* is not told.                                                            *)

GainAccess(u, r) ==
  /\ u \notin access[r]
  /\ access' = [access EXCEPT ![r] = @ \cup {u}]
  /\ held' = [c \in Conn |-> IF conn[c] # "new" /\ UserOf[c] = u
                             THEN held[c] \cup {r} ELSE held[c]]
  /\ UNCHANGED <<registry, commands, cleanup, presence, wentOnline>>

LoseAccess(u, r) ==
  /\ u \in access[r]
  /\ access' = [access EXCEPT ![r] = @ \ {u}]
  /\ UNCHANGED <<registry, commands, cleanup, presence, held, wentOnline>>

Next ==
  \/ \E c \in Conn :
       \/ Connect(c) \/ Close(c)
       \/ CleanupStamp(c) \/ CleanupRead(c) \/ CleanupClear(c) \/ CleanupNotify(c)
  \/ \E c \in Conn, verb \in Verb :
       \/ \E d \in Dm : DmCommand(c, verb, d)
       \/ \E r \in Room : RoomCommand(c, verb, r)
  \/ \E m \in commands : CheckAccess(m) \/ FinishCommand(m)
  \/ \E p \in Post : PresenceSend(p) \/ \E u \in Reporting, r \in RoomOrNone : PresenceUpdate(p, u, r)
  \/ \E u \in User, r \in Room : GainAccess(u, r) \/ LoseAccess(u, r)

Spec == Init /\ [][Next]_vars

-----------------------------------------------------------------------------
(* Properties.                                                             *)

\* A user is online iff a socket of theirs is open: through any number of
\* overlapping connects and closes the registry neither loses a live socket
\* nor keeps a dead one (markOnline, markOffline).
OnlineIffOpen ==
  \A u \in User : onlineSockets[u] = {c \in Conn : conn[c] = "open" /\ UserOf[c] = u}

\* Whoever was connected and no longer is has been, or is about to be, stamped
\* "last seen" by the close of the last socket, in whatever order the sockets
\* close and reconnects happen.
OfflineIsStamped ==
  \A u \in wentOnline :
    ~isUserOnline(u) => stamped[u] \/ \E c \in Conn : UserOf[c] = u /\ cleanup[c] = "stamp"

\* The room of a user without sockets is cleared or about to be, unless it was
\* set while there was no socket ("otherwise crashed/network-dropped clients
\* leave their friends seeing them in <Room> forever").
NoGhostInRoom ==
  \A u \in User :
    ~isUserOnline(u) /\ currentRoom[u] # NoRoom
      => u \in setOffline \/ \E c \in Conn : /\ UserOf[c] = u
                                             /\ cleanup[c] \in {"stamp", "read", "clear"}

\* A socket is subscribed only to threads its user could use at some moment
\* since it opened, however late its commands are answered and whatever the
\* tables did meanwhile.
SubscribersWereAllowed ==
  \A t \in Thread : \A c \in subscriptions[t] : t \in held[c]
=============================================================================
