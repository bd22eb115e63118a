-------------------------------- MODULE Rooms --------------------------------
(***************************************************************************)
(* apps/server/src/rooms/routes.ts with livekit.ts, the room invites and   *)
(* direct invites of invites/routes.ts, and what deleting an account does  *)
(* to them: who owns a room, who is a member, who can invite, and who is   *)
(* in its call.                                                            *)
(*                                                                         *)
(* A request reads the room, decides, and writes after an await; others    *)
(* run in between.  Foreign keys refuse a row whose user or room is gone,  *)
(* and the request then ends.  A refused request changes nothing and is no *)
(* action; reads that can only refuse (blocks, the invited user) and the   *)
(* presence of a room's visitors (ChatGateway) are left out.               *)
(***************************************************************************)
EXTENDS Naturals

CONSTANTS
  User,
  Room,       \* ids of rooms; each is created once
  Code,       \* invite codes; each is drawn once
  Req,        \* requests that can be under way
  NoRow,
  NoLimit,    \* maxUses is null
  \* Bounds.
  MaxRequest, \* requests of more than one step
  MaxUses,    \* how often a code is redeemed
  MaxDirect   \* direct invites ever made

ASSUME RoomAssumption ==
  MaxRequest \in Nat /\ MaxUses \in Nat /\ MaxDirect \in Nat /\ NoLimit \notin Nat

VARIABLES
  users,      \* User rows
  room,       \* room[m]: its Room row
  members,    \* members[m]: the users with a RoomMembership row
  codes,      \* codes[k]: the Invite row with code k, of kind "room"
  directs,    \* DirectInvite rows
  req,        \* req[r]: the frame of request r
  \* LiveKit.
  tokens,     \* minted and not expired: pairs of user and room
  inCall,     \* inCall[m]: users connected
  kicks,      \* removeParticipant calls under way: pairs of user and room
  closing,    \* deleteRoom calls under way
  \* History and bounds.
  started,    \* requests of more than one step so far
  spare,      \* rooms and codes not created yet
  sent,       \* direct invites made so far; ids are never used again
  standing,   \* standing[m]: users who have been its owner or a member
  everPublic, \* rooms that have been public
  strays      \* strays[m]: who entered without being a member, or could not be kicked

tables == <<users, room, members, codes, directs>>
livekit == <<tokens, inCall, kicks, closing, strays>>
history == <<started, spare, sent, standing, everPublic>>
vars == <<tables, req, livekit, history>>

RoomRow == [owner : User, isPublic : BOOLEAN]
Limit == (1 .. MaxUses) \cup {NoLimit}
CodeRow == [creator : User, room : Room, limit : Limit, uses : 0 .. MaxUses,
            revoked : BOOLEAN, expired : BOOLEAN]
Direct == [id : 1 .. MaxDirect, room : Room, from : User, to : User,
           status : {"pending", "accepted", "declined"}, expired : BOOLEAN]

ASSUME RowAssumption == NoRow \notin RoomRow /\ NoRow \notin CodeRow

-----------------------------------------------------------------------------
(* Frames: what a request has read and does next.                          *)

Idle == [at |-> "idle"]

Frame ==
  {Idle}
  \cup [at : {"update", "delete", "find-heir", "hand-over", "keep-former", "add", "remove", "mint",
              "clear-directs", "create-direct"},
        by : User, room : Room, to : User]
  \cup [at : {"check-creator", "create-code"}, by : User, room : Room]
  \cup [at : {"check-sender"}, by : User, room : Room, to : User, isPublic : BOOLEAN]
  \cup [at : {"revoke"}, code : Code]
  \cup [at : {"accept", "decline"}, by : User, id : 1 .. MaxDirect, room : Room]

TypeOK ==
  /\ users \subseteq User
  /\ room \in [Room -> RoomRow \cup {NoRow}]
  /\ members \in [Room -> SUBSET User]
  /\ codes \in [Code -> CodeRow \cup {NoRow}]
  /\ directs \subseteq Direct
  /\ req \in [Req -> Frame]
  /\ tokens \subseteq User \X Room
  /\ inCall \in [Room -> SUBSET User]
  /\ kicks \subseteq User \X Room
  /\ closing \subseteq Room
  /\ started \in 0 .. MaxRequest
  /\ spare \subseteq Room \cup Code
  /\ sent \in 0 .. MaxDirect
  /\ standing \in [Room -> SUBSET User]
  /\ everPublic \subseteq Room
  /\ strays \in [Room -> SUBSET User]

Init ==
  /\ users = User
  /\ room = [m \in Room |-> NoRow]
  /\ members = [m \in Room |-> {}]
  /\ codes = [k \in Code |-> NoRow]
  /\ directs = {}
  /\ req = [r \in Req |-> Idle]
  /\ tokens = {}
  /\ inCall = [m \in Room |-> {}]
  /\ kicks = {}
  /\ closing = {}
  /\ started = 0
  /\ spare = Room \cup Code
  /\ sent = 0
  /\ standing = [m \in Room |-> {}]
  /\ everPublic = {}
  /\ strays = [m \in Room |-> {}]

Exists(m) == room[m] # NoRow
At(r, place) == req[r].at = place
Goto(r, frame) == req' = [req EXCEPT ![r] = frame]
Advance(r, place) == Goto(r, [req[r] EXCEPT !.at = place])

\* A request of more than one step begins.
Starts(r) == At(r, "idle") /\ started < MaxRequest /\ started' = started + 1

\* A membership row of u in m is created unless there is one (upsert).
Admit(u, m) ==
  /\ members' = [members EXCEPT ![m] = @ \cup {u}]
  /\ standing' = [standing EXCEPT ![m] = @ \cup {u}]
  /\ strays' = [strays EXCEPT ![m] = @ \ {u}]

\* Its foreign keys.
MayJoin(u, m) == u \in users /\ Exists(m)

-----------------------------------------------------------------------------
(* Rooms.                                                                  *)

\* POST /rooms.
CreateRoom(u, m, isPublic) ==
  /\ u \in users /\ m \in spare
  /\ spare' = spare \ {m}
  /\ room' = [room EXCEPT ![m] = [owner |-> u, isPublic |-> isPublic]]
  /\ standing' = [standing EXCEPT ![m] = {u}]
  /\ everPublic' = IF isPublic THEN everPublic \cup {m} ELSE everPublic
  /\ UNCHANGED <<users, members, codes, directs, req, livekit, started, sent>>

\* The requests of owners: loadRoomOr404, requireOwner and the checks that
\* need nothing else.
OwnerReads(r, u, m, place, v) ==
  /\ Starts(r) /\ u \in users
  /\ Exists(m) /\ room[m].owner = u
  /\ CASE place \in {"update", "delete"}    -> v = u
       [] place \in {"find-heir", "remove"} -> v # u
       [] place = "add"                     -> TRUE
  /\ Goto(r, [at |-> place, by |-> u, room |-> m, to |-> v])
  /\ UNCHANGED <<tables, livekit, spare, sent, standing, everPublic>>

\* PATCH /rooms/:id: the row of that id is updated, whoever owns it now.
UpdateRoom(r, isPublic) ==
  LET m == req[r].room
  IN  /\ At(r, "update")
      /\ IF Exists(m)
         THEN /\ room' = [room EXCEPT ![m].isPublic = isPublic]
              /\ everPublic' = IF isPublic THEN everPublic \cup {m} ELSE everPublic
         ELSE UNCHANGED <<room, everPublic>>
      /\ Goto(r, Idle)
      /\ UNCHANGED <<users, members, codes, directs, livekit, started, spare, sent, standing>>

\* What goes with the rooms in gone: memberships and invites of both kinds.
Cascade(gone) ==
  /\ room' = [m \in Room |-> IF m \in gone THEN NoRow ELSE room[m]]
  /\ members' = [m \in Room |-> IF m \in gone THEN {} ELSE members[m] \cap users']
  /\ codes' = [k \in Code |->
       IF codes[k] # NoRow /\ (codes[k].room \in gone \/ codes[k].creator \notin users')
       THEN NoRow ELSE codes[k]]
  /\ directs' = {d \in directs : d.room \notin gone /\ d.from \in users' /\ d.to \in users'}

\* DELETE /rooms/:id, and the call is closed on LiveKit.
DeleteRoom(r) ==
  LET m == req[r].room
  IN  /\ At(r, "delete")
      /\ UNCHANGED users
      /\ IF Exists(m)
         THEN Cascade({m}) /\ closing' = closing \cup {m}
         ELSE UNCHANGED <<room, members, codes, directs, closing>>
      /\ Goto(r, Idle)
      /\ UNCHANGED <<tokens, inCall, kicks, strays, history>>

\* Variant with a plausible fault, as all definitions called a variant here,
\* only for the mutation runs: anybody will do.
FindAnyHeir(r) ==
  /\ At(r, "find-heir")
  /\ Advance(r, "hand-over")
  /\ UNCHANGED <<tables, livekit, history>>

\* POST /rooms/:id/transfer: the new owner is a member.
FindHeir(r) ==
  /\ At(r, "find-heir")
  /\ IF req[r].to \in members[req[r].room] THEN Advance(r, "hand-over") ELSE Goto(r, Idle)
  /\ UNCHANGED <<tables, livekit, history>>

\* The row of that id gets the new owner, member or not by now.
HandOver(r) ==
  LET m == req[r].room
  IN  /\ At(r, "hand-over")
      /\ IF MayJoin(req[r].to, m)
         THEN /\ room' = [room EXCEPT ![m].owner = req[r].to]
              /\ standing' = [standing EXCEPT ![m] = @ \cup {req[r].to}]
              /\ Advance(r, "keep-former")
         ELSE Goto(r, Idle) /\ UNCHANGED <<room, standing>>
      /\ UNCHANGED <<users, members, codes, directs, livekit, started, spare, sent, everPublic>>

\* "Old owner stays as a regular member."
KeepFormer(r) ==
  /\ At(r, "keep-former")
  /\ IF MayJoin(req[r].by, req[r].room)
     THEN Admit(req[r].by, req[r].room)
     ELSE UNCHANGED <<members, standing, strays>>
  /\ Goto(r, Idle)
  /\ UNCHANGED <<users, room, codes, directs, tokens, inCall, kicks, closing,
                 started, spare, sent, everPublic>>

-----------------------------------------------------------------------------
(* Members.                                                                *)

\* POST /rooms/:id/members.
AddMember(r) ==
  /\ At(r, "add")
  /\ IF MayJoin(req[r].to, req[r].room)
     THEN Admit(req[r].to, req[r].room)
     ELSE UNCHANGED <<members, standing, strays>>
  /\ Goto(r, Idle)
  /\ UNCHANGED <<users, room, codes, directs, tokens, inCall, kicks, closing,
                 started, spare, sent, everPublic>>

\* DELETE /rooms/:id/membership by u, who does not own m; it goes on like the
\* removal of u.
LeaveReads(r, u, m) ==
  /\ Starts(r) /\ u \in users
  /\ Exists(m) /\ room[m].owner # u
  /\ Goto(r, [at |-> "remove", by |-> u, room |-> m, to |-> u])
  /\ UNCHANGED <<tables, livekit, spare, sent, standing, everPublic>>

\* Variant: nobody is kicked.
RemoveOnly(r) ==
  /\ At(r, "remove")
  /\ members' = [members EXCEPT ![req[r].room] = @ \ {req[r].to}]
  /\ Goto(r, Idle)
  /\ UNCHANGED <<users, room, codes, directs, livekit, history>>

\* DELETE /rooms/:id/members/:userId: deleteMany, and a kick that is not
\* awaited.
RemoveMember(r) ==
  /\ At(r, "remove")
  /\ members' = [members EXCEPT ![req[r].room] = @ \ {req[r].to}]
  /\ kicks' = kicks \cup {<<req[r].to, req[r].room>>}
  /\ Goto(r, Idle)
  /\ UNCHANGED <<users, room, codes, directs, tokens, inCall, closing, strays, history>>

\* POST /rooms/:id/token, by anybody who knows the room's id.
TokenReads(r, u, m) ==
  /\ Starts(r) /\ MayJoin(u, m)
  /\ Goto(r, [at |-> "mint", by |-> u, room |-> m, to |-> u])
  /\ UNCHANGED <<tables, livekit, spare, sent, standing, everPublic>>

MintToken(r) ==
  LET u == req[r].by
      m == req[r].room
  IN  /\ At(r, "mint")
      /\ IF MayJoin(u, m)
         THEN Admit(u, m) /\ tokens' = tokens \cup {<<u, m>>}
         ELSE UNCHANGED <<members, standing, strays, tokens>>
      /\ Goto(r, Idle)
      /\ UNCHANGED <<users, room, codes, directs, inCall, kicks, closing, started, spare, sent, everPublic>>

-----------------------------------------------------------------------------
(* Invite codes.                                                           *)

\* POST /invites for a room: owners may, others must be members.
CodeReads(r, u, m) ==
  /\ Starts(r) /\ MayJoin(u, m)
  /\ Goto(r, [at |-> IF room[m].owner = u THEN "create-code" ELSE "check-creator",
              by |-> u, room |-> m])
  /\ UNCHANGED <<tables, livekit, spare, sent, standing, everPublic>>

\* Variant: whoever knows the room may.
CheckNoCreator(r) ==
  /\ At(r, "check-creator")
  /\ Advance(r, "create-code")
  /\ UNCHANGED <<tables, livekit, history>>

CheckCreator(r) ==
  /\ At(r, "check-creator")
  /\ IF req[r].by \in members[req[r].room] THEN Advance(r, "create-code") ELSE Goto(r, Idle)
  /\ UNCHANGED <<tables, livekit, history>>

CreateCode(r, k, limit) ==
  /\ At(r, "create-code")
  /\ IF MayJoin(req[r].by, req[r].room)
     THEN /\ k \in spare
          /\ spare' = spare \ {k}
          /\ codes' = [codes EXCEPT ![k] =
               [creator |-> req[r].by, room |-> req[r].room, limit |-> limit, uses |-> 0,
                revoked |-> FALSE, expired |-> FALSE]]
     ELSE UNCHANGED <<spare, codes>>
  /\ Goto(r, Idle)
  /\ UNCHANGED <<users, room, members, directs, livekit, started, sent, standing, everPublic>>

\* DELETE /invites/:id by its creator or the owner of its room.
RevokeReads(r, u, k) ==
  /\ Starts(r) /\ u \in users
  /\ codes[k] # NoRow /\ ~codes[k].revoked
  /\ u \in {codes[k].creator, room[codes[k].room].owner}
  /\ Goto(r, [at |-> "revoke", code |-> k])
  /\ UNCHANGED <<tables, livekit, spare, sent, standing, everPublic>>

Revoke(r) ==
  LET k == req[r].code
  IN  /\ At(r, "revoke")
      /\ codes' = IF codes[k] = NoRow THEN codes ELSE [codes EXCEPT ![k].revoked = TRUE]
      /\ Goto(r, Idle)
      /\ UNCHANGED <<users, room, members, directs, livekit, history>>

\* Variant: off by one.
UsableOnceMore(c) == ~c.revoked /\ ~c.expired /\ (c.limit # NoLimit => c.uses <= c.limit)

Usable(c) == ~c.revoked /\ ~c.expired /\ (c.limit # NoLimit => c.uses < c.limit)

\* POST /invites/:code/redeem is a transaction.  Who is a member already
\* changes nothing, and costs no use.
Redeem(u, k) ==
  /\ u \in users
  /\ codes[k] # NoRow /\ Usable(codes[k]) /\ codes[k].creator # u
  /\ u \notin members[codes[k].room]
  /\ codes[k].uses < MaxUses
  /\ codes' = [codes EXCEPT ![k].uses = @ + 1]
  /\ Admit(u, codes[k].room)
  /\ UNCHANGED <<users, room, directs, req, tokens, inCall, kicks, closing,
                 started, spare, sent, everPublic>>

ExpireCode(k) ==
  /\ codes[k] # NoRow
  /\ codes' = [codes EXCEPT ![k].expired = TRUE]
  /\ UNCHANGED <<users, room, members, directs, req, livekit, history>>

-----------------------------------------------------------------------------
(* Direct invites.                                                         *)

\* POST /rooms/:id/invite-user: owners may, others must be members unless the
\* room is public.
DirectReads(r, u, m, v) ==
  /\ Starts(r) /\ MayJoin(u, m) /\ u # v
  /\ Goto(r, IF room[m].owner = u
             THEN [at |-> "clear-directs", by |-> u, room |-> m, to |-> v]
             ELSE [at |-> "check-sender", by |-> u, room |-> m, to |-> v,
                   isPublic |-> room[m].isPublic])
  /\ UNCHANGED <<tables, livekit, spare, sent, standing, everPublic>>

CheckSender(r) ==
  LET f == req[r]
  IN  /\ At(r, "check-sender")
      /\ Goto(r, IF f.by \in members[f.room] \/ f.isPublic
                 THEN [at |-> "clear-directs", by |-> f.by, room |-> f.room, to |-> f.to]
                 ELSE Idle)
      /\ UNCHANGED <<tables, livekit, history>>

\* Pending invites of the same person to the same room are replaced: deleted
\* first, and the new one created after an await.
ClearDirects(r) ==
  /\ At(r, "clear-directs")
  /\ directs' = {d \in directs :
       ~(d.room = req[r].room /\ d.to = req[r].to /\ d.status = "pending")}
  /\ Advance(r, "create-direct")
  /\ UNCHANGED <<users, room, members, codes, livekit, history>>

CreateDirect(r) ==
  LET f == req[r]
  IN  /\ At(r, "create-direct")
      /\ IF MayJoin(f.by, f.room) /\ f.to \in users
         THEN /\ sent < MaxDirect
              /\ sent' = sent + 1
              /\ directs' = directs \cup
                   {[id |-> sent + 1, room |-> f.room, from |-> f.by, to |-> f.to,
                     status |-> "pending", expired |-> FALSE]}
         ELSE UNCHANGED <<sent, directs>>
      /\ Goto(r, Idle)
      /\ UNCHANGED <<users, room, members, codes, livekit, started, spare, standing, everPublic>>

\* POST /invites/direct/:id/accept and decline: a pending invite is read.
AnswerReads(r, d, place) ==
  /\ Starts(r)
  /\ d.status = "pending" /\ (place = "accept" => ~d.expired)
  /\ Goto(r, [at |-> place, by |-> d.to, id |-> d.id, room |-> d.room])
  /\ UNCHANGED <<tables, livekit, spare, sent, standing, everPublic>>

\* The row of that id, whatever its status by now.
Answered(r) == {d \in directs : d.id = req[r].id}

Answer(r, status) ==
  directs' = (directs \ Answered(r)) \cup {[d EXCEPT !.status = status] : d \in Answered(r)}

\* Variant: the two writes are no transaction, and the membership goes first.
AcceptAnyway(r) ==
  /\ At(r, "accept")
  /\ Answer(r, "accepted") /\ Admit(req[r].by, req[r].room)
  /\ Goto(r, Idle)
  /\ UNCHANGED <<users, room, codes, tokens, inCall, kicks, closing, started, spare, sent, everPublic>>

\* One transaction: without the row there is no membership either.
AcceptDirect(r) ==
  /\ At(r, "accept")
  /\ IF Answered(r) # {}
     THEN Answer(r, "accepted") /\ Admit(req[r].by, req[r].room)
     ELSE UNCHANGED <<directs, members, standing, strays>>
  /\ Goto(r, Idle)
  /\ UNCHANGED <<users, room, codes, tokens, inCall, kicks, closing, started, spare, sent, everPublic>>

DeclineDirect(r) ==
  /\ At(r, "decline")
  /\ Answer(r, "declined")
  /\ Goto(r, Idle)
  /\ UNCHANGED <<users, room, members, codes, livekit, history>>

ExpireDirect(d) ==
  /\ directs' = (directs \ {d}) \cup {[d EXCEPT !.expired = TRUE]}
  /\ UNCHANGED <<users, room, members, codes, req, livekit, history>>

-----------------------------------------------------------------------------
(* Accounts and calls.                                                     *)

\* DELETE /me: memberships, invites and the rooms the user owns go too.
\* LiveKit is not told.
DeleteAccount(u) ==
  /\ u \in users
  /\ users' = users \ {u}
  /\ Cascade({m \in Room : Exists(m) /\ room[m].owner = u})
  /\ UNCHANGED <<req, livekit, history>>

\* LiveKit lets in whoever has a token, and makes the call if there is none.
Enter(u, m) ==
  /\ <<u, m>> \in tokens
  /\ inCall' = [inCall EXCEPT ![m] = @ \cup {u}]
  /\ strays' = [strays EXCEPT ![m] = IF u \in members[m] THEN @ ELSE @ \cup {u}]
  /\ UNCHANGED <<tables, req, tokens, kicks, closing, history>>

Exit(u, m) ==
  /\ u \in inCall[m]
  /\ inCall' = [inCall EXCEPT ![m] = @ \ {u}]
  /\ UNCHANGED <<tables, req, tokens, kicks, closing, strays, history>>

\* A token is good for an hour.
ExpireToken(u, m) ==
  /\ tokens' = tokens \ {<<u, m>>}
  /\ UNCHANGED <<tables, req, inCall, kicks, closing, strays, history>>

\* removeParticipant is answered, or fails and is not tried again.
Kick(u, m) ==
  /\ <<u, m>> \in kicks
  /\ kicks' = kicks \ {<<u, m>>}
  /\ \/ inCall' = [inCall EXCEPT ![m] = @ \ {u}] /\ UNCHANGED strays
     \/ strays' = [strays EXCEPT ![m] = @ \cup {u}] /\ UNCHANGED inCall
  /\ UNCHANGED <<tables, req, tokens, closing, history>>

\* deleteRoom, likewise.
CloseCall(m) ==
  /\ m \in closing
  /\ closing' = closing \ {m}
  /\ inCall' = [inCall EXCEPT ![m] = {}] \/ UNCHANGED inCall
  /\ UNCHANGED <<tables, req, tokens, kicks, strays, history>>

OwnerPlace == {"update", "delete", "find-heir", "add", "remove"}

RoomSteps(r) ==
  \/ \E isPublic \in BOOLEAN : UpdateRoom(r, isPublic)
  \/ DeleteRoom(r) \/ FindHeir(r) \/ HandOver(r) \/ KeepFormer(r)
  \/ AddMember(r) \/ RemoveMember(r) \/ MintToken(r)

InviteSteps(r) ==
  \/ \E k \in Code, limit \in Limit : CreateCode(r, k, limit)
  \/ CheckCreator(r) \/ Revoke(r)
  \/ CheckSender(r) \/ ClearDirects(r) \/ CreateDirect(r) \/ AcceptDirect(r) \/ DeclineDirect(r)

Next ==
  \/ \E u \in User, m \in Room, isPublic \in BOOLEAN : CreateRoom(u, m, isPublic)
  \/ \E r \in Req, u, v \in User, m \in Room :
       DirectReads(r, u, m, v) \/ \E place \in OwnerPlace : OwnerReads(r, u, m, place, v)
  \/ \E r \in Req, u \in User, m \in Room :
       LeaveReads(r, u, m) \/ TokenReads(r, u, m) \/ CodeReads(r, u, m)
  \/ \E r \in Req, u \in User, k \in Code : RevokeReads(r, u, k)
  \/ \E r \in Req, d \in directs, place \in {"accept", "decline"} : AnswerReads(r, d, place)
  \/ \E r \in Req : RoomSteps(r) \/ InviteSteps(r)
  \/ \E u \in User, k \in Code : Redeem(u, k)
  \/ \E k \in Code : ExpireCode(k)
  \/ \E d \in directs : ExpireDirect(d)
  \/ \E u \in User : DeleteAccount(u)
  \/ \E u \in User, m \in Room :
       Enter(u, m) \/ Exit(u, m) \/ ExpireToken(u, m) \/ Kick(u, m)
  \/ \E m \in Room : CloseCall(m)

Spec == Init /\ [][Next]_vars

-----------------------------------------------------------------------------
(* Properties.                                                             *)

\* Nothing survives what it belongs to: whatever writes are under way when a
\* room or an account is deleted, no ownership, membership or invite is left
\* or made of users and rooms that are gone.
RowsHaveParents ==
  /\ \A m \in Room : Exists(m) => room[m].owner \in users
  /\ \A m \in Room : members[m] \subseteq users /\ (members[m] # {} => Exists(m))
  /\ \A k \in Code : codes[k] # NoRow => MayJoin(codes[k].creator, codes[k].room)
  /\ \A d \in directs : MayJoin(d.from, d.room) /\ d.to \in users

\* A code admits no more users than its maxUses, also when they leave and come
\* back, and however its redemptions interleave.
UsesWithinLimit ==
  \A k \in Code : codes[k] # NoRow /\ codes[k].limit # NoLimit => codes[k].uses <= codes[k].limit

\* "So we don't accidentally transfer to a stranger": whoever owns a room has
\* been a member of it or made it.  (That the heir is a member at the moment of
\* the transfer does not hold: it may leave between check and update.)
OwnersAreNoStrangers ==
  [][\A m \in Room : Exists(m) /\ room'[m] # NoRow => room'[m].owner \in standing[m]]_vars

\* Invites are made by those who could enter anyway: the creator of a code and
\* the sender of a direct invite to a room that was never public have been its
\* owner or a member, though they may not be by the time the invite is there.
InvitersHadStanding ==
  /\ \A k \in Code : codes[k] # NoRow => codes[k].creator \in standing[codes[k].room]
  /\ \A d \in directs : d.from \in standing[d.room] \/ d.room \in everPublic

\* "Kicks them in real time so they don't keep streaming": who is in the call of
\* a room and no longer a member is being kicked, unless LiveKit refused to, or
\* they entered with a token of before.  Leaving, removals, transfers and new
\* tokens may interleave in any way; a deleted account is not kicked.
LeaversAreKicked ==
  \A m \in Room : \A u \in inCall[m] \cap users :
    Exists(m) => u \in members[m] \cup strays[m] \/ <<u, m>> \in kicks
=============================================================================
