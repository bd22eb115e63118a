--------------------------------- MODULE Lobby ---------------------------------
(***************************************************************************)
(* The lobby of one user: the store of lib/rooms-store.ts, which outlives  *)
(* every screen and says which room one is in a call with, the screen that *)
(* shows it (LobbyScreen.tsx), its modals (CreateRoomModal,                *)
(* PublicRoomsModal), and the invite that may take its place               *)
(* (InvitePreviewScreen).                                                  *)
(*                                                                         *)
(* A call is a request and what its caller does with the answer.  The      *)
(* server handles it in one step and the answer arrives in another; others *)
(* overtake it.  Sessions and mounts of the screen are numbered.           *)
(***************************************************************************)
EXTENDS Naturals, Bags

CONSTANTS
  Room, NoRoom,
  LobbyProfiles,  \* what goes on; see LobbyProfile
  \* Bounds.
  MaxSession, MaxMount,
  MaxCall,        \* calls under way when the user does something
  MaxMove         \* what the user and others do

LobbyOperation == {"create", "join", "link", "silent", "invite", "leave", "others", "pages", "session"}
Standing == {"absent", "open", "member", "owner"}
LobbyProfile == [ops : SUBSET LobbyOperation, server : [Room -> Standing]]

ASSUME LobbyAssumption ==
  /\ NoRoom \notin Room /\ LobbyProfiles \subseteq LobbyProfile
  /\ MaxSession \in Nat /\ MaxMount \in Nat /\ MaxCall \in Nat /\ MaxMove \in Nat

VARIABLES
  does,      \* the profile; never changes
  server,    \* server[r]: what room r is to the user
  session,   \* whose token the client holds, 0 for none
  logins,    \* sessions so far
  top,       \* the page of the shell
  invite,    \* pendingInviteCode is set
  store,     \* the rooms store of the session; see Store
  lobby,     \* the state of the screen; see Screen
  mounts,    \* mounts of the screen so far
  minimized, \* callMinimized
  calls,     \* the bag of calls under way
  timer,     \* a refresh is due, after a presence update
  asked,     \* history: rooms that this session's user asked to enter
  excused,   \* history: the list may be out of date; see SidebarSettles
  moves      \* bound: what the user and others did so far

shell == <<session, logins, top>>
screen == <<lobby, mounts>>
lobbyVars == <<does, server, shell, invite, store, screen, minimized, calls, timer, asked, excused, moves>>

Store == [owned : [Room -> Nat], recent : SUBSET Room, active : Room \cup {NoRoom}, error : BOOLEAN]
\* phase: "lobby", or how far the invite shown is; redeeming, joining, linking,
\* creating: a request of that kind is under way; form, modal: what is open.
Screen == [mounted : BOOLEAN, phase : {"lobby", "loading", "shown", "missing"}, redeeming : BOOLEAN,
           joining : Room \cup {NoRoom}, rowError : Room \cup {NoRoom}, form : BOOLEAN,
           linking : BOOLEAN, linkError : BOOLEAN, modal : BOOLEAN, creating : BOOLEAN]
\* at: "sent", or what the server made of it; seen: the list it answered with.
Call == [op : {"refresh", "create", "row", "link", "silent", "preview", "redeem", "act"},
         room : Room \cup {NoRoom}, session : Nat, mount : Nat,
         at : {"sent", "done", "failed"}, seen : [Room -> Standing]]

LobbyTypeOK ==
  /\ does \in LobbyProfiles /\ server \in [Room -> Standing]
  /\ session \in 0 .. MaxSession /\ logins \in 0 .. MaxSession /\ top \in {"lobby", "other"}
  /\ invite \in BOOLEAN /\ store \in Store /\ lobby \in Screen /\ minimized \in BOOLEAN
  /\ mounts \in 0 .. MaxMount /\ BagToSet(calls) \subseteq Call /\ timer \in BOOLEAN
  /\ asked \subseteq Room /\ excused \in BOOLEAN /\ moves \in 0 .. MaxMove

NoRooms == [r \in Room |-> "absent"]
NewStore == [owned |-> [r \in Room |-> 0], recent |-> {}, active |-> NoRoom, error |-> FALSE]
NewScreen == [mounted |-> FALSE, phase |-> "lobby", redeeming |-> FALSE, joining |-> NoRoom,
              rowError |-> NoRoom, form |-> FALSE, linking |-> FALSE, linkError |-> FALSE,
              modal |-> FALSE, creating |-> FALSE]

LobbyInit ==
  /\ does \in LobbyProfiles
  /\ server = does.server
  /\ session = 0 /\ logins = 0 /\ top = "lobby" /\ invite = FALSE
  /\ store = NewStore /\ lobby = NewScreen /\ mounts = 0 /\ minimized = FALSE
  /\ calls = EmptyBag /\ timer = FALSE /\ asked = {} /\ excused = TRUE /\ moves = 0

Can(op) == op \in does.ops
Moves == moves < MaxMove /\ moves' = moves + 1
UnderWay == BagToSet(calls)
Free == BagCardinality(calls) < MaxCall
CallOf(op, r) == [op |-> op, room |-> r, session |-> session, mount |-> mounts, at |-> "sent",
                  seen |-> NoRooms]
Sent(c) == calls (+) SetToBag({c})
Ended(c) == calls (-) SetToBag({c})

Mine(c) == c.session = session
\* The state of the screen that made the call can still be set.
Alive(c) == lobby.mounted /\ c.mount = mounts
ScreenSet(c, s) == lobby' = IF Alive(c) THEN s ELSE lobby

-----------------------------------------------------------------------------
\* Mounting.

\* Its effects: the list is fetched twice, and an invite that is pending takes
\* the screen, which fetches it once more.
Mounts(s, code) ==
  LET c == [CallOf("refresh", NoRoom) EXCEPT !.session = s, !.mount = mounts + 1] IN
  /\ mounts < MaxMount /\ mounts' = mounts + 1
  /\ lobby' = [NewScreen EXCEPT !.mounted = TRUE, !.phase = IF code THEN "loading" ELSE "lobby"]
  /\ calls' = calls (+) (IF code THEN [x \in {c} |-> 3] (+) SetToBag({[c EXCEPT !.op = "preview"]})
                          ELSE [x \in {c} |-> 2])

Unmounts == lobby' = NewScreen /\ UNCHANGED <<mounts, calls>>

\* Variant with a plausible fault, as all definitions called a variant here,
\* only for the mutation runs: the store is kept by the server's address alone.
StoreOfAnyone(token) == store

\* getRoomsStore() for another token.
StoreOf(token) == NewStore

\* The store of the new token, and a Router that is mounted anew.
SignsIn ==
  /\ session = 0 /\ logins < MaxSession /\ logins' = logins + 1 /\ session' = logins + 1
  /\ store' = StoreOf(logins + 1) /\ invite' = FALSE /\ minimized' = FALSE
  /\ IF top = "lobby" THEN Mounts(logins + 1, FALSE) ELSE UNCHANGED <<screen, calls>>
  /\ asked' = {} /\ UNCHANGED <<does, server, top, timer, excused, moves>>

SignsOut ==
  /\ Can("session") /\ session # 0 /\ session' = 0
  /\ store' = StoreOf(0) /\ invite' = FALSE /\ minimized' = FALSE /\ timer' = FALSE
  /\ Unmounts /\ asked' = {} /\ excused' = TRUE
  /\ Moves /\ UNCHANGED <<does, server, logins, top>>

\* goPage(), which a call survives.
GoToPage ==
  /\ Can("pages") /\ session # 0 /\ top' = IF top = "lobby" THEN "other" ELSE "lobby"
  /\ minimized' = (minimized \/ store.active # NoRoom)
  /\ IF top' = "lobby" THEN Mounts(session, invite) ELSE Unmounts
  /\ timer' = (timer /\ top' = "lobby")
  /\ Moves /\ UNCHANGED <<does, server, session, logins, invite, store, asked, excused>>

-----------------------------------------------------------------------------
\* What the user does.

Acts == session # 0 /\ lobby.mounted /\ lobby.phase = "lobby" /\ Free
Listed == {r \in Room : store.owned[r] > 0} \cup store.recent
UserStep == Moves /\ UNCHANGED <<does, server, shell, mounts, timer, excused>>

\* attemptJoin(), at a row: the call that is running is brought back, and one
\* row joins at a time.
AttemptJoin(r) ==
  /\ Can("join") /\ Acts /\ r \in Listed
  /\ IF r = store.active
     THEN minimized' = FALSE /\ UNCHANGED <<lobby, calls, asked>>
     ELSE /\ lobby.joining = NoRoom
          /\ lobby' = [lobby EXCEPT !.joining = r, !.rowError = NoRoom]
          /\ calls' = Sent(CallOf("row", r)) /\ asked' = asked \cup {r} /\ UNCHANGED minimized
  /\ UNCHANGED <<invite, store>> /\ UserStep

\* The form for a link or an id: an invite's code is handed to the shell, and
\* what is neither is refused.
OpenForm ==
  /\ Can("link") /\ Acts /\ ~lobby.form /\ lobby' = [lobby EXCEPT !.form = TRUE]
  /\ UNCHANGED <<invite, store, minimized, calls, asked>> /\ UserStep

ShowsInvite ==
  LET c == CallOf("refresh", NoRoom) IN
  /\ invite' = TRUE
  /\ calls' = calls (+) SetToBag({c, [c EXCEPT !.op = "preview"]})

OnJoin(r) ==
  /\ Acts /\ lobby.form /\ ~lobby.linking
  /\ \/ /\ lobby' = [lobby EXCEPT !.linking = TRUE, !.linkError = FALSE]
        /\ calls' = Sent(CallOf("link", r)) /\ asked' = asked \cup {r} /\ UNCHANGED <<invite, store>>
     \/ /\ Can("invite") /\ lobby' = [lobby EXCEPT !.phase = "loading", !.form = FALSE]
        /\ ShowsInvite /\ UNCHANGED <<store, asked>>
     \/ /\ store' = [store EXCEPT !.error = TRUE]
        /\ lobby' = [lobby EXCEPT !.linkError = store.active = NoRoom, !.form = store.active = NoRoom]
        /\ UNCHANGED <<invite, calls, asked>>
  /\ UNCHANGED minimized /\ UserStep

\* A deep link, the directory, or another page's "join".
SilentJoin(r) ==
  /\ Can("silent") /\ session # 0 /\ Free
  /\ calls' = Sent(CallOf("silent", r)) /\ asked' = asked \cup {r}
  /\ UNCHANGED <<invite, store, lobby, minimized>> /\ UserStep

\* An invite is opened while the lobby is shown.
InviteComes ==
  /\ Can("invite") /\ Acts /\ lobby' = [lobby EXCEPT !.phase = "loading"] /\ ShowsInvite
  /\ UNCHANGED <<store, minimized, asked>> /\ UserStep

\* "Join" on the invite; the room is not known before the answer.
Redeem ==
  /\ lobby.phase = "shown" /\ ~lobby.redeeming /\ Free
  /\ lobby' = [lobby EXCEPT !.redeeming = TRUE]
  /\ \E r \in Room \cup {NoRoom} :
       calls' = Sent(CallOf("redeem", r)) /\ asked' = asked \cup ({r} \ {NoRoom})
  /\ UNCHANGED <<invite, store, minimized>> /\ UserStep

\* onCancel: back to the lobby, which fetches its list as the phase changes.
CancelInvite ==
  /\ lobby.phase \in {"shown", "missing"} /\ Free
  /\ invite' = FALSE /\ lobby' = [lobby EXCEPT !.phase = "lobby", !.redeeming = FALSE]
  /\ calls' = Sent(CallOf("refresh", NoRoom))
  /\ UNCHANGED <<store, minimized, asked>> /\ UserStep

OpenModal ==
  /\ Can("create") /\ Acts /\ lobby' = [lobby EXCEPT !.modal = ~lobby.modal]
  /\ UNCHANGED <<invite, store, minimized, calls, asked>> /\ UserStep

\* No room about to be created has this id.
Unclaimed(r) == \A c \in UnderWay : c.op = "create" => c.room # r

Create(r) ==
  /\ Acts /\ lobby.modal /\ ~lobby.creating /\ server[r] = "absent" /\ Unclaimed(r)
  /\ lobby' = [lobby EXCEPT !.creating = TRUE] /\ calls' = Sent(CallOf("create", r))
  /\ UNCHANGED <<invite, store, minimized, asked>> /\ UserStep

\* "Leave room", of the menu or of the settings, and "Delete room" there.
LeaveRoom(r) ==
  /\ Can("leave") /\ Acts /\ r \in Listed /\ calls' = Sent(CallOf("act", r))
  /\ UNCHANGED <<invite, store, lobby, minimized, asked>> /\ UserStep

\* onLeave of the call.  A room may be left or deleted from there; the list is
\* not fetched.
LeaveCall ==
  /\ store.active # NoRoom /\ store' = [store EXCEPT !.active = NoRoom] /\ minimized' = FALSE
  /\ server' \in {server} \cup
       (IF Can("leave") THEN {[server EXCEPT ![store.active] = IF @ = "member" THEN "open" ELSE "absent"]}
        ELSE {})
  /\ excused' = (excused \/ server' # server)
  /\ Moves /\ UNCHANGED <<does, shell, invite, screen, calls, timer, asked>>

-----------------------------------------------------------------------------
\* The server, and others.

Effect(c) ==
  CASE c.op = "create" -> [server EXCEPT ![c.room] = "owner"]
    [] c.op = "act" /\ server[c.room] = "member" -> [server EXCEPT ![c.room] = "open"]
    [] c.op = "act" /\ server[c.room] = "owner" -> [server EXCEPT ![c.room] = "absent"]
    [] c.op = "redeem" /\ c.room # NoRoom /\ server[c.room] = "open" ->
         [server EXCEPT ![c.room] = "member"]
    [] OTHER -> server

\* Rooms that are not there are not found.
Refused(c) == c.room # NoRoom /\ c.op # "create" /\ server[c.room] = "absent"

\* The server handles a request.  Where it only reads, it may as well do so when
\* it answers, unless the answer is a list.
Serve(c) ==
  /\ c.at = "sent" /\ c.op \in {"refresh", "create", "act", "redeem"}
  /\ \/ /\ ~Refused(c) /\ server' = Effect(c)
        /\ LET seen == IF c.op = "refresh" THEN server ELSE NoRooms
           IN  calls' = Ended(c) (+) SetToBag({[c EXCEPT !.at = "done", !.seen = seen]})
     \/ UNCHANGED server /\ calls' = Ended(c) (+) SetToBag({[c EXCEPT !.at = "failed"]})
  /\ excused' = (excused \/ (server' # server /\ (~Mine(c) \/ c.op = "redeem")))
  /\ UNCHANGED <<does, shell, invite, store, screen, minimized, timer, asked, moves>>

\* The call that is on screen takes its token, by which one becomes a member.
CallJoins ==
  /\ store.active # NoRoom /\ server[store.active] = "open"
  /\ server' = [server EXCEPT ![store.active] = "member"] /\ excused' = TRUE
  /\ UNCHANGED <<does, shell, invite, store, screen, minimized, calls, timer, asked, moves>>

\* Somebody opens a room, deletes one, or puts the user out; and somebody's
\* presence changes, which is not announced in the same breath.
OthersAct(r) ==
  /\ Can("others") /\ Unclaimed(r)
  /\ \E s \in {"absent", "open"} : server[r] \notin {s, "owner"} /\ server' = [server EXCEPT ![r] = s]
  /\ excused' = TRUE
  /\ Moves /\ UNCHANGED <<does, shell, invite, store, screen, minimized, calls, timer, asked>>

PresenceUpdate ==
  /\ Can("others") /\ lobby.mounted /\ timer' = TRUE
  /\ Moves /\ UNCHANGED <<does, server, shell, invite, store, screen, minimized, calls, asked, excused>>

TimerFires ==
  /\ timer /\ Free /\ timer' = FALSE /\ calls' = Sent(CallOf("refresh", NoRoom))
  /\ store' = [store EXCEPT !.error = FALSE]
  /\ UNCHANGED <<does, server, shell, invite, screen, minimized, asked, excused, moves>>

-----------------------------------------------------------------------------
\* The answers.

StoreSet(c, s) == store' = IF Mine(c) THEN s ELSE store
\* A new room on the call screen shows it in full.
Entered(c) ==
  /\ StoreSet(c, [store EXCEPT !.active = c.room, !.error = FALSE])
  /\ minimized' = (minimized /\ store'.active = store.active)
NotEntered(c) == StoreSet(c, [store EXCEPT !.error = TRUE]) /\ UNCHANGED minimized
Joined(c) == (~Refused(c) /\ Entered(c)) \/ NotEntered(c)

AnswerStep == UNCHANGED <<does, server, shell, mounts, timer, asked, moves>>

Refreshed(c) ==
  /\ c.op = "refresh" /\ c.at # "sent" /\ calls' = Ended(c)
  /\ StoreSet(c, IF c.at = "failed" THEN [store EXCEPT !.error = TRUE]
                 ELSE [store EXCEPT !.owned = [r \in Room |-> IF c.seen[r] = "owner" THEN 1 ELSE 0],
                                    !.recent = {r \in Room : c.seen[r] = "member"}])
  /\ excused' = IF Mine(c) THEN c.at = "failed" \/ c.seen # server ELSE excused
  /\ UNCHANGED <<invite, lobby, minimized>> /\ AnswerStep

\* attemptJoin() goes on; it looks for what the store makes of the answer.
RowJoined(c) ==
  /\ c.op = "row" /\ calls' = Ended(c) /\ Joined(c)
  /\ ScreenSet(c, [lobby EXCEPT !.joining = NoRoom,
                                !.rowError = IF store'.active = NoRoom /\ store'.error THEN c.room ELSE @])
  /\ UNCHANGED <<invite, excused>> /\ AnswerStep

\* onJoin() goes on: the form stays open with its error.
LinkJoined(c) ==
  /\ c.op = "link" /\ calls' = Ended(c) /\ Joined(c)
  /\ LET failed == store'.active = NoRoom /\ store'.error
     IN ScreenSet(c, [lobby EXCEPT !.linking = FALSE, !.linkError = failed, !.form = failed])
  /\ UNCHANGED <<invite, excused>> /\ AnswerStep

SilentlyJoined(c) ==
  /\ c.op = "silent" /\ calls' = Ended(c) /\ Joined(c)
  /\ UNCHANGED <<invite, lobby, excused>> /\ AnswerStep

Previewed(c) ==
  /\ c.op = "preview" /\ calls' = Ended(c)
  /\ \E p \in {"shown", "missing"} :
       ScreenSet(c, IF lobby.phase = "loading" THEN [lobby EXCEPT !.phase = p] ELSE lobby)
  /\ UNCHANGED <<invite, store, minimized, excused>> /\ AnswerStep

\* onRedirect: back to the lobby and into the room, or to the DMs, wherever the
\* user went meanwhile.
Redeemed(c) ==
  /\ c.op = "redeem" /\ c.at = "done"
  /\ invite' = (invite /\ ~Mine(c))
  /\ LET back == [lobby EXCEPT !.phase = "lobby", !.redeeming = FALSE]
         again == IF Alive(c) /\ lobby.phase # "lobby" THEN SetToBag({CallOf("refresh", NoRoom)})
                  ELSE EmptyBag
         join == IF c.room = NoRoom THEN EmptyBag ELSE SetToBag({[c EXCEPT !.op = "silent", !.at = "sent"]})
     IN IF c.room = NoRoom /\ Mine(c)
        THEN lobby' = NewScreen /\ top' = "other" /\ calls' = Ended(c)
        ELSE ScreenSet(c, back) /\ calls' = (Ended(c) (+) again) (+) join /\ UNCHANGED top
  /\ UNCHANGED <<does, server, session, logins, store, mounts, minimized, timer, asked, excused,
                 moves>>

RedeemFails(c) ==
  /\ c.op = "redeem" /\ c.at = "failed" /\ calls' = Ended(c)
  /\ ScreenSet(c, [lobby EXCEPT !.redeeming = FALSE])
  /\ UNCHANGED <<invite, store, minimized, excused>> /\ AnswerStep

\* The new room is put in front of the list, which may have it already or be
\* about to lose it again.
Created(c) ==
  /\ c.op = "create" /\ c.at # "sent" /\ calls' = Ended(c)
  /\ IF c.at = "failed" THEN UNCHANGED <<store, excused>>
     ELSE /\ StoreSet(c, [store EXCEPT !.owned[c.room] = @ + 1])
          /\ excused' = (excused \/ store.owned[c.room] > 0 \/ server[c.room] # "owner")
  /\ ScreenSet(c, [lobby EXCEPT !.creating = FALSE, !.modal = @ /\ c.at = "failed"])
  /\ UNCHANGED <<invite, minimized>> /\ AnswerStep

\* Variant: the list is left as it is.
LeftOnly(c) ==
  /\ c.op = "act" /\ c.at # "sent" /\ calls' = Ended(c)
  /\ UNCHANGED <<invite, store, lobby, minimized, excused>> /\ AnswerStep

\* onGone(), and what follows the leave of the menu.
Left(c) ==
  /\ c.op = "act" /\ c.at # "sent"
  /\ calls' = IF c.at = "failed" THEN Ended(c)
              ELSE Ended(c) (+) SetToBag({[c EXCEPT !.op = "refresh", !.room = NoRoom, !.at = "sent"]})
  /\ StoreSet(c, [store EXCEPT !.error = @ /\ c.at = "failed"])
  /\ UNCHANGED <<invite, lobby, minimized, excused>> /\ AnswerStep

Answer(c) ==
  \/ Refreshed(c) \/ RowJoined(c) \/ LinkJoined(c) \/ SilentlyJoined(c) \/ Previewed(c)
  \/ Redeemed(c) \/ RedeemFails(c) \/ Created(c) \/ Left(c)

LobbyNext ==
  \/ SignsIn \/ SignsOut \/ GoToPage \/ OpenForm \/ InviteComes \/ Redeem \/ CancelInvite \/ OpenModal
  \/ LeaveCall \/ CallJoins \/ PresenceUpdate \/ TimerFires
  \/ \E r \in Room :
       AttemptJoin(r) \/ OnJoin(r) \/ SilentJoin(r) \/ Create(r) \/ LeaveRoom(r) \/ OthersAct(r)
  \/ \E c \in UnderWay : Serve(c) \/ Answer(c)

-----------------------------------------------------------------------------
\* What the user does to rooms in the lobby shows there: once nothing is under
\* way the sidebar is the server's list, each room once, but for what others or
\* the call have changed, a fetch that failed, and answers that came too late
\* (rooms-store.ts, LobbyScreen).
SidebarSettles ==
  (session # 0 /\ lobby.mounted /\ ~timer /\ calls = EmptyBag /\ ~excused) =>
    \A r \in Room : /\ store.owned[r] = (IF server[r] = "owner" THEN 1 ELSE 0)
                    /\ r \in store.recent <=> server[r] = "member"

\* Nobody is put into a call that they did not ask for: not by what an earlier
\* session left in the store, nor by an answer of that session that comes late
\* (getRoomsStore, join).
InCallsAskedFor == store.active # NoRoom => session # 0 /\ store.active \in asked
=============================================================================
