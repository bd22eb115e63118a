----------------------------- MODULE RoomsProofs -----------------------------
(***************************************************************************)
(* Proofs about rooms, for any number of users, rooms, codes and requests: *)
(* types, no orphaned rows, use limits, the standing of inviters and       *)
(* owners, and kicks.                                                      *)
(*                                                                         *)
(* RoomInv consists of ParentInv (an answer under way names an invite made *)
(* to whoever answers, so accepting it needs no other check), StandInv     *)
(* (what a request has checked stays true of the past: who was a member or *)
(* owner has been one, what was public has been public), and the use       *)
(* limits and kicks themselves.                                            *)
(***************************************************************************)
EXTENDS Rooms, TLAPS

-----------------------------------------------------------------------------
(* Frames by their places.                                                 *)

PersonAt == {"update", "delete", "find-heir", "hand-over", "keep-former", "add", "remove", "mint",
             "clear-directs", "create-direct"}
PersonFrame == [at : PersonAt, by : User, room : Room, to : User]
CreatorFrame == [at : {"check-creator", "create-code"}, by : User, room : Room]
SenderFrame == [at : {"check-sender"}, by : User, room : Room, to : User, isPublic : BOOLEAN]
RevokeFrame == [at : {"revoke"}, code : Code]
AnswerFrame == [at : {"accept", "decline"}, by : User, id : 1 .. MaxDirect, room : Room]

LEMMA FrameParts ==
  Frame = {Idle} \cup PersonFrame \cup CreatorFrame \cup SenderFrame \cup RevokeFrame \cup AnswerFrame
  BY DEF Frame, PersonFrame, PersonAt, CreatorFrame, SenderFrame, RevokeFrame, AnswerFrame

LEMMA FrameKinds ==
  ASSUME NEW f \in Frame
  PROVE  /\ f.at \in PersonAt => f \in PersonFrame
         /\ f.at \in {"check-creator", "create-code"} => f \in CreatorFrame
         /\ f.at = "check-sender" => f \in SenderFrame
         /\ f.at = "revoke" => f \in RevokeFrame
         /\ f.at \in {"accept", "decline"} => f \in AnswerFrame
  BY FrameParts DEF PersonFrame, PersonAt, CreatorFrame, SenderFrame, RevokeFrame, AnswerFrame, Idle

LEMMA FrameMoves ==
  /\ \A f \in PersonFrame : \A p \in PersonAt : [f EXCEPT !.at = p] \in Frame
  /\ \A f \in CreatorFrame : [f EXCEPT !.at = "create-code"] \in Frame
  BY FrameParts DEF PersonFrame, CreatorFrame

LEMMA GotoType ==
  ASSUME TypeOK, NEW r \in Req, NEW f \in Frame, Goto(r, f)
  PROVE  req' \in [Req -> Frame]
  BY DEF TypeOK, Goto

LEMMA IdleFrame == Idle \in Frame
  BY FrameParts

LEMMA AdmitType ==
  ASSUME TypeOK, NEW u \in User, NEW m \in Room, Admit(u, m)
  PROVE  /\ members' \in [Room -> SUBSET User] /\ standing' \in [Room -> SUBSET User]
         /\ strays' \in [Room -> SUBSET User]
  BY DEF TypeOK, Admit

LEMMA CascadeType ==
  ASSUME TypeOK, NEW gone \in SUBSET Room, users' \subseteq User, Cascade(gone)
  PROVE  /\ room' \in [Room -> RoomRow \cup {NoRow}] /\ members' \in [Room -> SUBSET User]
         /\ codes' \in [Code -> CodeRow \cup {NoRow}] /\ directs' \subseteq Direct
  BY DEF TypeOK, Cascade

LEMMA NextCases ==
  ASSUME [Next]_vars
  PROVE  \/ \E u \in User, m \in Room, isPublic \in BOOLEAN : CreateRoom(u, m, isPublic)
         \/ \E r \in Req, u \in User, v \in User, m \in Room : DirectReads(r, u, m, v)
         \/ \E r \in Req, u \in User, v \in User, m \in Room, place \in OwnerPlace :
              OwnerReads(r, u, m, place, v)
         \/ \E r \in Req, u \in User, m \in Room : LeaveReads(r, u, m)
         \/ \E r \in Req, u \in User, m \in Room : TokenReads(r, u, m)
         \/ \E r \in Req, u \in User, m \in Room : CodeReads(r, u, m)
         \/ \E r \in Req, u \in User, k \in Code : RevokeReads(r, u, k)
         \/ \E r \in Req, d \in directs, place \in {"accept", "decline"} : AnswerReads(r, d, place)
         \/ \E r \in Req, isPublic \in BOOLEAN : UpdateRoom(r, isPublic)
         \/ \E r \in Req : DeleteRoom(r)
         \/ \E r \in Req : FindHeir(r)
         \/ \E r \in Req : HandOver(r)
         \/ \E r \in Req : KeepFormer(r)
         \/ \E r \in Req : AddMember(r)
         \/ \E r \in Req : RemoveMember(r)
         \/ \E r \in Req : MintToken(r)
         \/ \E r \in Req, k \in Code, limit \in Limit : CreateCode(r, k, limit)
         \/ \E r \in Req : CheckCreator(r)
         \/ \E r \in Req : Revoke(r)
         \/ \E r \in Req : CheckSender(r)
         \/ \E r \in Req : ClearDirects(r)
         \/ \E r \in Req : CreateDirect(r)
         \/ \E r \in Req : AcceptDirect(r)
         \/ \E r \in Req : DeclineDirect(r)
         \/ \E u \in User, k \in Code : Redeem(u, k)
         \/ \E k \in Code : ExpireCode(k)
         \/ \E d \in directs : ExpireDirect(d)
         \/ \E u \in User : DeleteAccount(u)
         \/ \E u \in User, m \in Room : Enter(u, m)
         \/ \E u \in User, m \in Room : Exit(u, m)
         \/ \E u \in User, m \in Room : ExpireToken(u, m)
         \/ \E u \in User, m \in Room : Kick(u, m)
         \/ \E m \in Room : CloseCall(m)
         \/ UNCHANGED vars
  BY DEF Next, RoomSteps, InviteSteps

-----------------------------------------------------------------------------
(* Types.                                                                  *)

LEMMA TypeStep == TypeOK /\ [Next]_vars => TypeOK'
<1> SUFFICES ASSUME TypeOK, [Next]_vars PROVE TypeOK'
  OBVIOUS
<1> USE RoomAssumption, IdleFrame
<1>1. ASSUME NEW u \in User, NEW m \in Room, NEW isPublic \in BOOLEAN, CreateRoom(u, m, isPublic)
      PROVE  TypeOK'
  BY <1>1 DEF CreateRoom, TypeOK, RoomRow, livekit
<1>2. ASSUME NEW r \in Req, NEW u \in User, NEW v \in User, NEW m \in Room, DirectReads(r, u, m, v)
      PROVE  TypeOK'
  <2> DEFINE f == IF room[m].owner = u
                  THEN [at |-> "clear-directs", by |-> u, room |-> m, to |-> v]
                  ELSE [at |-> "check-sender", by |-> u, room |-> m, to |-> v,
                        isPublic |-> room[m].isPublic]
  <2>1. f \in Frame
    <3>1. room[m].isPublic \in BOOLEAN
      BY <1>2 DEF DirectReads, MayJoin, Exists, TypeOK, RoomRow
    <3> QED BY <3>1, FrameParts DEF PersonFrame, PersonAt, SenderFrame
  <2>2. req' \in [Req -> Frame]
    BY <1>2, <2>1, GotoType DEF DirectReads
  <2> QED BY <1>2, <2>2 DEF DirectReads, Starts, TypeOK, tables, livekit
<1>3. ASSUME NEW r \in Req, NEW u \in User, NEW v \in User, NEW m \in Room,
             NEW place \in OwnerPlace, OwnerReads(r, u, m, place, v)
      PROVE  TypeOK'
  <2>1. [at |-> place, by |-> u, room |-> m, to |-> v] \in Frame
    BY FrameParts DEF PersonFrame, PersonAt, OwnerPlace
  <2>2. req' \in [Req -> Frame]
    BY <1>3, <2>1, GotoType DEF OwnerReads
  <2> QED BY <1>3, <2>2 DEF OwnerReads, Starts, TypeOK, tables, livekit
<1>4. ASSUME NEW r \in Req, NEW u \in User, NEW m \in Room, LeaveReads(r, u, m) \/ TokenReads(r, u, m)
      PROVE  TypeOK'
  <2>1. /\ [at |-> "remove", by |-> u, room |-> m, to |-> u] \in Frame
        /\ [at |-> "mint", by |-> u, room |-> m, to |-> u] \in Frame
    BY FrameParts DEF PersonFrame, PersonAt
  <2>2. req' \in [Req -> Frame]
    BY <1>4, <2>1, GotoType DEF LeaveReads, TokenReads
  <2> QED BY <1>4, <2>2 DEF LeaveReads, TokenReads, Starts, TypeOK, tables, livekit
<1>5. ASSUME NEW r \in Req, NEW u \in User, NEW m \in Room, CodeReads(r, u, m)
      PROVE  TypeOK'
  <2>1. [at |-> IF room[m].owner = u THEN "create-code" ELSE "check-creator",
         by |-> u, room |-> m] \in Frame
    BY FrameParts DEF CreatorFrame
  <2>2. req' \in [Req -> Frame]
    BY <1>5, <2>1, GotoType DEF CodeReads
  <2> QED BY <1>5, <2>2 DEF CodeReads, Starts, TypeOK, tables, livekit
<1>6. ASSUME NEW r \in Req, NEW u \in User, NEW k \in Code, RevokeReads(r, u, k)
      PROVE  TypeOK'
  <2>1. [at |-> "revoke", code |-> k] \in Frame
    BY FrameParts DEF RevokeFrame
  <2>2. req' \in [Req -> Frame]
    BY <1>6, <2>1, GotoType DEF RevokeReads
  <2> QED BY <1>6, <2>2 DEF RevokeReads, Starts, TypeOK, tables, livekit
<1>7. ASSUME NEW r \in Req, NEW d \in directs, NEW place \in {"accept", "decline"},
             AnswerReads(r, d, place)
      PROVE  TypeOK'
  <2>1. [at |-> place, by |-> d.to, id |-> d.id, room |-> d.room] \in Frame
    BY FrameParts DEF AnswerFrame, TypeOK, Direct
  <2>2. req' \in [Req -> Frame]
    BY <1>7, <2>1, GotoType DEF AnswerReads
  <2> QED BY <1>7, <2>2 DEF AnswerReads, Starts, TypeOK, tables, livekit
<1>8. ASSUME NEW r \in Req, NEW isPublic \in BOOLEAN, UpdateRoom(r, isPublic) PROVE TypeOK'
  <2>1. req[r].room \in Room /\ req' \in [Req -> Frame]
    BY <1>8, FrameKinds, GotoType DEF UpdateRoom, At, PersonAt, PersonFrame, TypeOK
  <2>2. room' \in [Room -> RoomRow \cup {NoRow}] /\ everPublic' \subseteq Room
    BY <1>8, <2>1 DEF UpdateRoom, TypeOK, RoomRow, Exists
  <2> QED BY <1>8, <2>1, <2>2 DEF UpdateRoom, TypeOK, livekit
<1>9. ASSUME NEW r \in Req, DeleteRoom(r) PROVE TypeOK'
  <2>1. req[r].room \in Room /\ req' \in [Req -> Frame]
    BY <1>9, FrameKinds, GotoType DEF DeleteRoom, At, PersonAt, PersonFrame, TypeOK
  <2>2. users' \subseteq User /\ users' = users
    BY <1>9 DEF DeleteRoom, TypeOK
  <2>3. CASE Exists(req[r].room)
    <3>1. Cascade({req[r].room}) /\ {req[r].room} \in SUBSET Room
      BY <1>9, <2>1, <2>3 DEF DeleteRoom
    <3>2. /\ room' \in [Room -> RoomRow \cup {NoRow}] /\ members' \in [Room -> SUBSET User]
          /\ codes' \in [Code -> CodeRow \cup {NoRow}] /\ directs' \subseteq Direct
      BY <2>2, <3>1, CascadeType
    <3> QED BY <1>9, <2>1, <2>2, <2>3, <3>2 DEF DeleteRoom, TypeOK, history
  <2>4. CASE ~Exists(req[r].room)
    BY <1>9, <2>1, <2>4 DEF DeleteRoom, TypeOK, history
  <2> QED BY <2>3, <2>4
<1>10. ASSUME NEW r \in Req, FindHeir(r) PROVE TypeOK'
  <2>1. [req[r] EXCEPT !.at = "hand-over"] \in Frame
    BY <1>10, FrameKinds, FrameMoves DEF FindHeir, At, PersonAt, TypeOK
  <2>2. req' \in [Req -> Frame]
    BY <1>10, <2>1, GotoType DEF FindHeir, Advance
  <2> QED BY <1>10, <2>2 DEF FindHeir, TypeOK, tables, livekit, history
<1>11. ASSUME NEW r \in Req, HandOver(r) PROVE TypeOK'
  <2>1. req[r].room \in Room /\ req[r].to \in User /\ [req[r] EXCEPT !.at = "keep-former"] \in Frame
    <3>1. req[r] \in PersonFrame
      BY <1>11, FrameKinds DEF HandOver, At, PersonAt, TypeOK
    <3>2. [req[r] EXCEPT !.at = "keep-former"] \in Frame
      BY <3>1, FrameMoves DEF PersonAt
    <3> QED BY <3>1, <3>2 DEF PersonFrame
  <2>2. req' \in [Req -> Frame]
    BY <1>11, <2>1, GotoType DEF HandOver, Advance
  <2>3. room' \in [Room -> RoomRow \cup {NoRow}] /\ standing' \in [Room -> SUBSET User]
    BY <1>11, <2>1 DEF HandOver, TypeOK, RoomRow, MayJoin, Exists
  <2> QED BY <1>11, <2>2, <2>3 DEF HandOver, TypeOK, livekit
<1>12. ASSUME NEW r \in Req, KeepFormer(r) \/ AddMember(r) PROVE TypeOK'
  <2>1. req[r].room \in Room /\ req[r].by \in User /\ req[r].to \in User /\ req' \in [Req -> Frame]
    BY <1>12, FrameKinds, GotoType DEF KeepFormer, AddMember, At, PersonAt, PersonFrame, TypeOK
  <2>2. /\ members' \in [Room -> SUBSET User] /\ standing' \in [Room -> SUBSET User]
        /\ strays' \in [Room -> SUBSET User]
    BY <1>12, <2>1, AdmitType DEF KeepFormer, AddMember, TypeOK
  <2> QED BY <1>12, <2>1, <2>2 DEF KeepFormer, AddMember, TypeOK
<1>13. ASSUME NEW r \in Req, RemoveMember(r) PROVE TypeOK'
  <2>1. req[r].room \in Room /\ req[r].to \in User /\ req' \in [Req -> Frame]
    BY <1>13, FrameKinds, GotoType DEF RemoveMember, At, PersonAt, PersonFrame, TypeOK
  <2> QED BY <1>13, <2>1 DEF RemoveMember, TypeOK, history
<1>14. ASSUME NEW r \in Req, MintToken(r) PROVE TypeOK'
  <2>1. req[r].room \in Room /\ req[r].by \in User /\ req' \in [Req -> Frame]
    BY <1>14, FrameKinds, GotoType DEF MintToken, At, PersonAt, PersonFrame, TypeOK
  <2>2. /\ members' \in [Room -> SUBSET User] /\ standing' \in [Room -> SUBSET User]
        /\ strays' \in [Room -> SUBSET User]
    BY <1>14, <2>1, AdmitType DEF MintToken, TypeOK
  <2>3. tokens' \subseteq User \X Room
    BY <1>14, <2>1 DEF MintToken, TypeOK
  <2> QED BY <1>14, <2>1, <2>2, <2>3 DEF MintToken, TypeOK
<1>15. ASSUME NEW r \in Req, NEW k \in Code, NEW limit \in Limit, CreateCode(r, k, limit) PROVE TypeOK'
  <2>1. req[r].room \in Room /\ req[r].by \in User /\ req' \in [Req -> Frame]
    BY <1>15, FrameKinds, GotoType DEF CreateCode, At, CreatorFrame, TypeOK
  <2>2. [creator |-> req[r].by, room |-> req[r].room, limit |-> limit, uses |-> 0,
         revoked |-> FALSE, expired |-> FALSE] \in CodeRow
    BY <2>1 DEF CodeRow
  <2>3. codes' \in [Code -> CodeRow \cup {NoRow}] /\ spare' \subseteq Room \cup Code
    BY <1>15, <2>2 DEF CreateCode, TypeOK
  <2> QED BY <1>15, <2>1, <2>3 DEF CreateCode, TypeOK, livekit
<1>16. ASSUME NEW r \in Req, CheckCreator(r) PROVE TypeOK'
  <2>1. [req[r] EXCEPT !.at = "create-code"] \in Frame
    BY <1>16, FrameKinds, FrameMoves DEF CheckCreator, At, TypeOK
  <2>2. req' \in [Req -> Frame]
    BY <1>16, <2>1, GotoType DEF CheckCreator, Advance
  <2> QED BY <1>16, <2>2 DEF CheckCreator, TypeOK, tables, livekit, history
<1>17. ASSUME NEW r \in Req, Revoke(r) PROVE TypeOK'
  <2>1. req[r].code \in Code /\ req' \in [Req -> Frame]
    BY <1>17, FrameKinds, GotoType DEF Revoke, At, RevokeFrame, TypeOK
  <2>2. codes' \in [Code -> CodeRow \cup {NoRow}]
    <3>1. CASE codes[req[r].code] = NoRow
      BY <1>17, <3>1 DEF Revoke, TypeOK
    <3>2. CASE codes[req[r].code] # NoRow
      <4>1. codes[req[r].code] \in CodeRow
        BY <2>1, <3>2 DEF TypeOK
      <4>2. [codes[req[r].code] EXCEPT !.revoked = TRUE] \in CodeRow
        BY <4>1 DEF CodeRow
      <4> QED BY <1>17, <2>1, <3>2, <4>2 DEF Revoke, TypeOK
    <3> QED BY <3>1, <3>2
  <2> QED BY <1>17, <2>1, <2>2 DEF Revoke, TypeOK, livekit, history
<1>18. ASSUME NEW r \in Req, CheckSender(r) PROVE TypeOK'
  <2>1. req[r] \in SenderFrame
    BY <1>18, FrameKinds DEF CheckSender, At, TypeOK
  <2>2. [at |-> "clear-directs", by |-> req[r].by, room |-> req[r].room, to |-> req[r].to] \in Frame
    BY <2>1, FrameParts DEF SenderFrame, PersonFrame, PersonAt
  <2>3. req' \in [Req -> Frame]
    BY <1>18, <2>2, GotoType DEF CheckSender
  <2> QED BY <1>18, <2>3 DEF CheckSender, TypeOK, tables, livekit, history
<1>19. ASSUME NEW r \in Req, ClearDirects(r) PROVE TypeOK'
  <2>1. [req[r] EXCEPT !.at = "create-direct"] \in Frame
    BY <1>19, FrameKinds, FrameMoves DEF ClearDirects, At, PersonAt, TypeOK
  <2>2. req' \in [Req -> Frame]
    BY <1>19, <2>1, GotoType DEF ClearDirects, Advance
  <2> QED BY <1>19, <2>2 DEF ClearDirects, TypeOK, livekit, history
<1>20. ASSUME NEW r \in Req, CreateDirect(r) PROVE TypeOK'
  <2>1. /\ req[r].room \in Room /\ req[r].by \in User /\ req[r].to \in User
        /\ req' \in [Req -> Frame]
    BY <1>20, FrameKinds, GotoType DEF CreateDirect, At, PersonAt, PersonFrame, TypeOK
  <2>2. directs' \subseteq Direct /\ sent' \in 0 .. MaxDirect
    <3>1. CASE MayJoin(req[r].by, req[r].room) /\ req[r].to \in users
      <4>1. sent + 1 \in 1 .. MaxDirect
        BY <1>20, <3>1 DEF CreateDirect, TypeOK
      <4>2. [id |-> sent + 1, room |-> req[r].room, from |-> req[r].by, to |-> req[r].to,
             status |-> "pending", expired |-> FALSE] \in Direct
        BY <2>1, <4>1 DEF Direct
      <4>3. directs' \subseteq Direct
        BY <1>20, <3>1, <4>2 DEF CreateDirect, TypeOK
      <4>4. sent' \in 0 .. MaxDirect
        BY <1>20, <3>1, <4>1 DEF CreateDirect
      <4> QED BY <4>3, <4>4
    <3>2. CASE ~(MayJoin(req[r].by, req[r].room) /\ req[r].to \in users)
      BY <1>20, <3>2 DEF CreateDirect, TypeOK
    <3> QED BY <3>1, <3>2
  <2> QED BY <1>20, <2>1, <2>2 DEF CreateDirect, TypeOK, livekit
<1>21. ASSUME NEW r \in Req, AcceptDirect(r) \/ DeclineDirect(r) PROVE TypeOK'
  <2>1. req[r].room \in Room /\ req[r].by \in User /\ req' \in [Req -> Frame]
    BY <1>21, FrameKinds, GotoType DEF AcceptDirect, DeclineDirect, At, AnswerFrame, TypeOK
  <2>2. /\ members' \in [Room -> SUBSET User] /\ standing' \in [Room -> SUBSET User]
        /\ strays' \in [Room -> SUBSET User]
    BY <1>21, <2>1, AdmitType DEF AcceptDirect, DeclineDirect, TypeOK, livekit, history
  <2>3. directs' \subseteq Direct
    BY <1>21 DEF AcceptDirect, DeclineDirect, Answer, Answered, TypeOK, Direct
  <2> QED BY <1>21, <2>1, <2>2, <2>3 DEF AcceptDirect, DeclineDirect, TypeOK, livekit, history
<1>22. ASSUME NEW u \in User, NEW k \in Code, Redeem(u, k) PROVE TypeOK'
  <2>1. codes[k] \in CodeRow
    BY <1>22 DEF Redeem, TypeOK
  <2>2. [codes[k] EXCEPT !.uses = @ + 1] \in CodeRow /\ codes[k].room \in Room
    BY <1>22, <2>1 DEF Redeem, CodeRow
  <2>3. codes' \in [Code -> CodeRow \cup {NoRow}]
    BY <1>22, <2>2 DEF Redeem, TypeOK
  <2>4. /\ members' \in [Room -> SUBSET User] /\ standing' \in [Room -> SUBSET User]
        /\ strays' \in [Room -> SUBSET User]
    BY <1>22, <2>2, AdmitType DEF Redeem
  <2> QED BY <1>22, <2>3, <2>4 DEF Redeem, TypeOK
<1>23. ASSUME NEW k \in Code, ExpireCode(k) PROVE TypeOK'
  <2>1. codes' \in [Code -> CodeRow \cup {NoRow}]
    <3>1. codes[k] \in CodeRow
      BY <1>23 DEF ExpireCode, TypeOK
    <3>2. [codes[k] EXCEPT !.expired = TRUE] \in CodeRow
      BY <3>1 DEF CodeRow
    <3> QED BY <1>23, <3>2 DEF ExpireCode, TypeOK
  <2> QED BY <1>23, <2>1 DEF ExpireCode, TypeOK, livekit, history
<1>24. ASSUME NEW d \in directs, ExpireDirect(d) PROVE TypeOK'
  <2>1. directs' \subseteq Direct
    BY <1>24 DEF ExpireDirect, TypeOK, Direct
  <2> QED BY <1>24, <2>1 DEF ExpireDirect, TypeOK, livekit, history
<1>25. ASSUME NEW u \in User, DeleteAccount(u) PROVE TypeOK'
  <2>1. /\ room' \in [Room -> RoomRow \cup {NoRow}] /\ members' \in [Room -> SUBSET User]
        /\ codes' \in [Code -> CodeRow \cup {NoRow}] /\ directs' \subseteq Direct
    <3> DEFINE gone == {m \in Room : Exists(m) /\ room[m].owner = u}
    <3>1. gone \in SUBSET Room /\ users' \subseteq User /\ Cascade(gone)
      BY <1>25 DEF DeleteAccount, TypeOK
    <3> HIDE DEF gone
    <3> QED BY <3>1, CascadeType
  <2> QED BY <1>25, <2>1 DEF DeleteAccount, TypeOK, livekit, history
<1>26. ASSUME NEW u \in User, NEW m \in Room,
              Enter(u, m) \/ Exit(u, m) \/ ExpireToken(u, m) \/ Kick(u, m)
       PROVE  TypeOK'
  <2>1. inCall' \in [Room -> SUBSET User] /\ strays' \in [Room -> SUBSET User]
    BY <1>26 DEF Enter, Exit, ExpireToken, Kick, TypeOK
  <2> QED BY <1>26, <2>1 DEF Enter, Exit, ExpireToken, Kick, TypeOK, tables, history
<1>27. ASSUME NEW m \in Room, CloseCall(m) PROVE TypeOK'
  BY <1>27 DEF CloseCall, TypeOK, tables, history
<1>28. ASSUME UNCHANGED vars PROVE TypeOK'
  BY <1>28 DEF vars, TypeOK, tables, livekit, history
<1> QED
  BY NextCases, <1>1, <1>2, <1>3, <1>4, <1>5, <1>6, <1>7, <1>8, <1>9, <1>10, <1>11, <1>12, <1>13,
     <1>14, <1>15, <1>16, <1>17, <1>18, <1>19, <1>20, <1>21, <1>22, <1>23, <1>24, <1>25, <1>26,
     <1>27, <1>28

-----------------------------------------------------------------------------
(* Steps that only read, or only start and stop requests, leave all tables *)
(* and the call alone; the others by kinds.                                *)

Quiet == UNCHANGED <<tables, livekit, spare, sent, standing, everPublic>>

LEMMA NextKinds ==
  ASSUME [Next]_vars
  PROVE  \/ Quiet
         \/ \E u \in User, m \in Room, isPublic \in BOOLEAN : CreateRoom(u, m, isPublic)
         \/ \E r \in Req, isPublic \in BOOLEAN : UpdateRoom(r, isPublic)
         \/ \E r \in Req : DeleteRoom(r)
         \/ \E r \in Req : HandOver(r)
         \/ \E r \in Req : KeepFormer(r) \/ AddMember(r)
         \/ \E r \in Req : RemoveMember(r)
         \/ \E r \in Req : MintToken(r)
         \/ \E r \in Req, k \in Code, limit \in Limit : CreateCode(r, k, limit)
         \/ \E r \in Req : Revoke(r)
         \/ \E r \in Req : ClearDirects(r)
         \/ \E r \in Req : CreateDirect(r)
         \/ \E r \in Req : AcceptDirect(r)
         \/ \E r \in Req : DeclineDirect(r)
         \/ \E u \in User, k \in Code : Redeem(u, k)
         \/ \E k \in Code : ExpireCode(k)
         \/ \E d \in directs : ExpireDirect(d)
         \/ \E u \in User : DeleteAccount(u)
         \/ \E u \in User, m \in Room : Enter(u, m) \/ Exit(u, m) \/ ExpireToken(u, m) \/ Kick(u, m)
         \/ \E m \in Room : CloseCall(m)
<1>1. \A r \in Req, u \in User, v \in User, m \in Room : DirectReads(r, u, m, v) => Quiet
  BY DEF DirectReads, Quiet
<1>2. \A r \in Req, u \in User, v \in User, m \in Room, place \in OwnerPlace :
        OwnerReads(r, u, m, place, v) => Quiet
  BY DEF OwnerReads, Quiet
<1>3. \A r \in Req, u \in User, m \in Room :
        LeaveReads(r, u, m) \/ TokenReads(r, u, m) \/ CodeReads(r, u, m) => Quiet
  BY DEF LeaveReads, TokenReads, CodeReads, Quiet
<1>4. \A r \in Req, u \in User, k \in Code : RevokeReads(r, u, k) => Quiet
  BY DEF RevokeReads, Quiet
<1>5. \A r \in Req, d \in directs, place \in {"accept", "decline"} : AnswerReads(r, d, place) => Quiet
  BY DEF AnswerReads, Quiet
<1>6. \A r \in Req : FindHeir(r) \/ CheckCreator(r) \/ CheckSender(r) => Quiet
  BY DEF FindHeir, CheckCreator, CheckSender, Quiet, history
<1>7. UNCHANGED vars => Quiet
  BY DEF vars, Quiet, history
<1> QED
  BY NextCases, <1>1, <1>2, <1>3, <1>4, <1>5, <1>6, <1>7

-----------------------------------------------------------------------------

(* The invariant: invites and answers.                                     *)

\* Ids are given out once.
IdsMatch ==
  \A d \in directs :
    d.id <= sent /\ \A e \in directs : d.id = e.id => d.to = e.to /\ d.room = e.room

\* An answer under way was given by whom the invite is for, if it is still there.
AnswersMatch ==
  \A r \in Req : req[r].at \in {"accept", "decline"} =>
    /\ req[r].id <= sent
    /\ \A d \in directs : d.id = req[r].id => d.to = req[r].by /\ d.room = req[r].room

ParentInv == TypeOK /\ IdsMatch /\ AnswersMatch /\ RowsHaveParents

\* Nothing is known of a room before it is made.
SpareIsFresh ==
  \A m \in Room \cap spare :
    /\ ~Exists(m) /\ standing[m] = {} /\ inCall[m] = {}
    /\ \A u \in User : <<u, m>> \notin tokens

MembersStood == \A m \in Room : members[m] \subseteq standing[m]

OwnersStood == \A m \in Room : Exists(m) => room[m].owner \in standing[m]

PublicsRecorded == \A m \in Room : Exists(m) /\ room[m].isPublic => m \in everPublic

\* What a request has found out about its room.
FramesStood ==
  \A r \in Req :
    /\ req[r].at = "hand-over" => req[r].to \in standing[req[r].room]
    /\ req[r].at = "create-code" => req[r].by \in standing[req[r].room]
    /\ req[r].at = "check-sender" /\ req[r].isPublic => req[r].room \in everPublic
    /\ req[r].at \in {"clear-directs", "create-direct"} =>
         req[r].by \in standing[req[r].room] \/ req[r].room \in everPublic

-----------------------------------------------------------------------------
(* Parents.                                                                *)

LEMMA FrameOf ==
  ASSUME TypeOK, NEW r \in Req
  PROVE  /\ req[r].at \in PersonAt => req[r] \in PersonFrame
         /\ req[r].at \in {"check-creator", "create-code"} => req[r] \in CreatorFrame
         /\ req[r].at = "check-sender" => req[r] \in SenderFrame
         /\ req[r].at \in {"accept", "decline"} => req[r] \in AnswerFrame
  BY FrameKinds DEF TypeOK

\* Every direct invite is one of before, perhaps answered or expired.
KeptDirects ==
  /\ sent' = sent
  /\ \A d \in directs' : \E e \in directs :
       e.id = d.id /\ e.room = d.room /\ e.from = d.from /\ e.to = d.to

LEMMA DirectsKept ==
  ASSUME TypeOK, [Next]_vars, \A r \in Req : ~CreateDirect(r)
  PROVE  KeptDirects
<1>0. \A d \in directs : d \in Direct
  BY DEF TypeOK
<1>1. directs' \subseteq directs /\ sent' = sent => KeptDirects
  BY DEF KeptDirects
<1>2. \A r \in Req, status \in {"accepted", "declined"} :
        Answer(r, status) /\ sent' = sent => KeptDirects
  BY <1>0 DEF Answer, Answered, KeptDirects, Direct
<1>3. \A d \in directs : ExpireDirect(d) => KeptDirects
  BY <1>0 DEF ExpireDirect, KeptDirects, Direct, history
<1>4. \A r \in Req : DeleteRoom(r) => KeptDirects
  <2> SUFFICES ASSUME NEW r \in Req, DeleteRoom(r) PROVE directs' \subseteq directs /\ sent' = sent
    BY <1>1
  <2> QED BY DEF DeleteRoom, Cascade, history
<1>5. \A u \in User : DeleteAccount(u) => KeptDirects
  BY <1>1 DEF DeleteAccount, Cascade, history
<1>6. \A r \in Req : AcceptDirect(r) => KeptDirects
  BY <1>1, <1>2 DEF AcceptDirect
<1>7. \A r \in Req : DeclineDirect(r) => KeptDirects
  BY <1>2 DEF DeclineDirect, history
<1>8. \A u \in User, m \in Room, isPublic \in BOOLEAN : CreateRoom(u, m, isPublic) => KeptDirects
  BY <1>1 DEF CreateRoom
<1>9. \A r \in Req, isPublic \in BOOLEAN : UpdateRoom(r, isPublic) => KeptDirects
  BY <1>1 DEF UpdateRoom
<1>10. \A r \in Req : HandOver(r) \/ KeepFormer(r) \/ AddMember(r) => KeptDirects
  BY <1>1 DEF HandOver, KeepFormer, AddMember
<1>11. \A r \in Req : RemoveMember(r) \/ MintToken(r) \/ Revoke(r) \/ ClearDirects(r) => KeptDirects
  BY <1>1 DEF RemoveMember, MintToken, Revoke, ClearDirects, history
<1>12. \A r \in Req, k \in Code, limit \in Limit : CreateCode(r, k, limit) => KeptDirects
  BY <1>1 DEF CreateCode
<1>13. \A u \in User, k \in Code : Redeem(u, k) => KeptDirects
  BY <1>1 DEF Redeem
<1>14. \A u \in User, m \in Room :
         Enter(u, m) \/ Exit(u, m) \/ ExpireToken(u, m) \/ Kick(u, m) => KeptDirects
  BY <1>1 DEF Enter, Exit, ExpireToken, Kick, tables, history
<1>15. \A k \in Code : ExpireCode(k) => KeptDirects
  BY <1>1 DEF ExpireCode, history
<1>16. \A m \in Room : CloseCall(m) => KeptDirects
  BY <1>1 DEF CloseCall, tables, history
<1>17. Quiet => KeptDirects
  BY <1>1 DEF Quiet, tables
<1> QED
  BY NextKinds, <1>3, <1>4, <1>5, <1>6, <1>7, <1>8, <1>9, <1>10, <1>11, <1>12, <1>13, <1>14,
     <1>15, <1>16, <1>17

LEMMA IdsStep == TypeOK /\ IdsMatch /\ [Next]_vars => IdsMatch'
<1> SUFFICES ASSUME TypeOK, IdsMatch, [Next]_vars PROVE IdsMatch'
  OBVIOUS
<1>1. CASE KeptDirects
  BY <1>1 DEF KeptDirects, IdsMatch
<1>2. ASSUME NEW r \in Req, CreateDirect(r) PROVE IdsMatch'
  <2>1. sent \in Nat /\ \A d \in directs : d.id \in Nat /\ d.id <= sent
    BY RoomAssumption DEF TypeOK, IdsMatch, Direct
  <2>2. CASE directs' = directs /\ sent' = sent
    BY <2>2 DEF IdsMatch
  <2>3. CASE \E d : directs' = directs \cup {d} /\ d.id = sent + 1 /\ sent' = sent + 1
    BY <2>1, <2>3 DEF IdsMatch
  <2> QED BY <1>2, <2>2, <2>3 DEF CreateDirect
<1> QED BY <1>1, <1>2, DirectsKept

\* Where a request arrives, and what it knows there.  Places not listed need nothing.
Arrives(q) ==
  LET f == req[q]
      g == req'[q]
      owns == Exists(g.room) /\ room[g.room].owner = g.by
      belongs == g.by \in members[g.room]
  IN  \/ g.at = "hand-over" /\ g.to \in members[g.room]
      \/ g.at = "create-code" /\ (owns \/ belongs)
      \/ g.at = "check-sender" /\ Exists(g.room) /\ g.isPublic = room[g.room].isPublic
      \/ /\ g.at = "clear-directs"
         /\ owns \/ belongs \/ (f.at = "check-sender" /\ f.isPublic /\ f.room = g.room)
      \/ g.at = "create-direct" /\ f.at = "clear-directs" /\ f.by = g.by /\ f.room = g.room
      \/ /\ g.at \in {"accept", "decline"}
         /\ \E d \in directs : g.id = d.id /\ g.by = d.to /\ g.room = d.room
      \/ g.at \in {"idle", "update", "delete", "find-heir", "keep-former", "add", "remove", "mint",
                   "check-creator", "revoke"}

LEMMA FrameSteps ==
  ASSUME TypeOK, [Next]_vars, NEW q \in Req
  PROVE  \/ req'[q] = req[q]
         \/ Arrives(q) /\ (Quiet \/ req'[q].at \in {"idle", "keep-former", "create-direct"})
<1> DEFINE Fits == \/ req'[q] = req[q]
                   \/ Arrives(q) /\ (Quiet \/ req'[q].at \in {"idle", "keep-former", "create-direct"})
<1>1. \A r \in Req : \A f : Goto(r, f) => IF r = q THEN req'[q] = f ELSE req'[q] = req[q]
  BY DEF Goto, TypeOK
<1>2. \A r \in Req : Goto(r, Idle) => Fits
  BY <1>1 DEF Idle, Arrives
<1>3. req' = req => Fits
  OBVIOUS
<1>4. ASSUME NEW r \in Req, NEW u \in User, NEW v \in User, NEW m \in Room, DirectReads(r, u, m, v)
      PROVE  Fits
  BY <1>1, <1>4 DEF DirectReads, MayJoin, Arrives, Quiet
<1>5. ASSUME NEW r \in Req, NEW u \in User, NEW v \in User, NEW m \in Room,
             NEW place \in OwnerPlace, OwnerReads(r, u, m, place, v)
      PROVE  Fits
  BY <1>1, <1>5 DEF OwnerReads, OwnerPlace, Arrives, Quiet
<1>6. ASSUME NEW r \in Req, NEW u \in User, NEW m \in Room, LeaveReads(r, u, m) \/ TokenReads(r, u, m)
      PROVE  Fits
  BY <1>1, <1>6 DEF LeaveReads, TokenReads, Arrives, Quiet
<1>7. ASSUME NEW r \in Req, NEW u \in User, NEW m \in Room, CodeReads(r, u, m) PROVE Fits
  BY <1>1, <1>7 DEF CodeReads, MayJoin, Arrives, Quiet
<1>8. ASSUME NEW r \in Req, NEW u \in User, NEW k \in Code, RevokeReads(r, u, k) PROVE Fits
  BY <1>1, <1>8 DEF RevokeReads, Arrives, Quiet
<1>9. ASSUME NEW r \in Req, NEW d \in directs, NEW place \in {"accept", "decline"},
             AnswerReads(r, d, place)
      PROVE  Fits
  BY <1>1, <1>9 DEF AnswerReads, Arrives, Quiet
<1>10. ASSUME NEW r \in Req, FindHeir(r) PROVE Fits
  <2>1. req[r] \in PersonFrame
    BY <1>10, FrameOf DEF FindHeir, At, PersonAt
  <2> QED BY <1>1, <1>2, <1>10, <2>1 DEF FindHeir, Advance, PersonFrame, Arrives, Quiet, history
<1>11. ASSUME NEW r \in Req, HandOver(r) PROVE Fits
  <2>1. req[r] \in PersonFrame
    BY <1>11, FrameOf DEF HandOver, At, PersonAt
  <2> QED BY <1>1, <1>2, <1>11, <2>1 DEF HandOver, Advance, PersonFrame, Arrives
<1>12. ASSUME NEW r \in Req, CheckCreator(r) PROVE Fits
  <2>1. req[r] \in CreatorFrame
    BY <1>12, FrameOf DEF CheckCreator, At
  <2> QED BY <1>1, <1>2, <1>12, <2>1 DEF CheckCreator, Advance, CreatorFrame, Arrives, Quiet, history
<1>13. ASSUME NEW r \in Req, CheckSender(r) PROVE Fits
  <2>1. req[r] \in SenderFrame /\ req[r].at = "check-sender"
    BY <1>13, FrameOf DEF CheckSender, At
  <2> QED BY <1>1, <1>2, <1>13, <2>1 DEF CheckSender, SenderFrame, Arrives, Quiet, history
<1>14. ASSUME NEW r \in Req, ClearDirects(r) PROVE Fits
  <2>1. req[r] \in PersonFrame /\ req[r].at = "clear-directs"
    BY <1>14, FrameOf DEF ClearDirects, At, PersonAt
  <2> QED BY <1>1, <1>14, <2>1 DEF ClearDirects, Advance, PersonFrame, Arrives
<1>15. ASSUME NEW r \in Req, \/ \E isPublic \in BOOLEAN : UpdateRoom(r, isPublic)
                             \/ DeleteRoom(r) \/ KeepFormer(r) \/ AddMember(r) \/ RemoveMember(r)
                             \/ MintToken(r) \/ Revoke(r) \/ CreateDirect(r)
                             \/ \E k \in Code, limit \in Limit : CreateCode(r, k, limit)
                             \/ AcceptDirect(r) \/ DeclineDirect(r)
       PROVE  Fits
  BY <1>2, <1>15 DEF UpdateRoom, DeleteRoom, KeepFormer, AddMember, RemoveMember, MintToken, Revoke,
                     CreateDirect, CreateCode, AcceptDirect, DeclineDirect
<1>16. ASSUME \/ \E u \in User, m \in Room, isPublic \in BOOLEAN : CreateRoom(u, m, isPublic)
              \/ \E u \in User, k \in Code : Redeem(u, k)
              \/ \E k \in Code : ExpireCode(k)
              \/ \E d \in directs : ExpireDirect(d)
              \/ \E u \in User : DeleteAccount(u)
              \/ \E u \in User, m \in Room : Enter(u, m) \/ Exit(u, m) \/ ExpireToken(u, m) \/ Kick(u, m)
              \/ \E m \in Room : CloseCall(m)
              \/ UNCHANGED vars
       PROVE  Fits
  BY <1>3, <1>16 DEF CreateRoom, Redeem, ExpireCode, ExpireDirect, DeleteAccount, Enter, Exit,
                     ExpireToken, Kick, CloseCall, vars
<1> HIDE DEF Fits
<1>17. Fits
  BY NextCases, <1>4, <1>5, <1>6, <1>7, <1>8, <1>9, <1>10, <1>11, <1>12, <1>13, <1>14, <1>15, <1>16
<1> QED BY <1>17 DEF Fits

LEMMA AnswersStep == TypeOK /\ IdsMatch /\ AnswersMatch /\ [Next]_vars => AnswersMatch'
<1> SUFFICES ASSUME TypeOK, IdsMatch, AnswersMatch, [Next]_vars, NEW q \in Req,
                    req'[q].at \in {"accept", "decline"}
             PROVE  /\ req'[q].id <= sent'
                    /\ \A d \in directs' : d.id = req'[q].id
                         => d.to = req'[q].by /\ d.room = req'[q].room
  BY DEF AnswersMatch
<1>1. sent \in Nat /\ \A d \in directs : d.id \in Nat
  BY RoomAssumption DEF TypeOK, Direct
<1>2. CASE req'[q] = req[q]
  <2>1. req[q].id \in Nat
    BY <1>2, FrameOf DEF AnswerFrame
  <2>2. CASE KeptDirects
    BY <1>2, <2>2 DEF AnswersMatch, KeptDirects
  <2>3. ASSUME NEW r \in Req, CreateDirect(r)
        PROVE  \/ directs' = directs /\ sent' = sent
               \/ \E d : directs' = directs \cup {d} /\ d.id = sent + 1 /\ sent' = sent + 1
    BY <2>3 DEF CreateDirect
  <2>4. CASE directs' = directs /\ sent' = sent
    BY <1>2, <2>4 DEF AnswersMatch
  <2>5. CASE \E d : directs' = directs \cup {d} /\ d.id = sent + 1 /\ sent' = sent + 1
    BY <1>1, <1>2, <2>1, <2>5 DEF AnswersMatch
  <2> QED BY <2>2, <2>3, <2>4, <2>5, DirectsKept
<1>3. CASE Arrives(q) /\ Quiet
  BY <1>1, <1>3 DEF Arrives, Quiet, tables, IdsMatch
<1> QED BY <1>2, <1>3, FrameSteps

LEMMA AnswerKeeps ==
  ASSUME TypeOK, NEW r \in Req, NEW status, Answer(r, status)
  PROVE  \A d \in directs' : \E e \in directs : e.room = d.room /\ e.from = d.from /\ e.to = d.to
<1>1. \A d \in directs : d \in Direct
  BY DEF TypeOK
<1> QED BY <1>1 DEF Answer, Answered, Direct

\* What is deleted takes all it is a parent of along.
LEMMA CascadeParents ==
  ASSUME TypeOK, RowsHaveParents, NEW gone \in SUBSET Room, Cascade(gone), users' \subseteq users,
         \A m \in Room \ gone : Exists(m) => room[m].owner \in users'
  PROVE  RowsHaveParents'
<1> USE DEF Exists, MayJoin
<1>1. \A m \in Room : room'[m] # NoRow => m \notin gone /\ room'[m] = room[m]
  BY DEF Cascade
<1>2. \A m \in Room : m \notin gone => room'[m] = room[m]
  BY DEF Cascade
<1>3. \A m \in Room : Exists(m)' => room'[m].owner \in users'
  BY <1>1
<1>4. \A m \in Room : members'[m] \subseteq users' /\ (members'[m] # {} => Exists(m)')
  BY <1>2 DEF Cascade, RowsHaveParents
<1>5. \A k \in Code : codes'[k] # NoRow => /\ codes'[k] = codes[k] /\ codes[k].room \notin gone
                                           /\ codes[k].creator \in users'
  BY DEF Cascade
<1>6. ASSUME NEW k \in Code, codes'[k] # NoRow
      PROVE  codes'[k].creator \in users' /\ room'[codes'[k].room] # NoRow
  <2>1. codes[k] # NoRow /\ codes[k].room \in Room
    BY <1>5, <1>6 DEF TypeOK, CodeRow
  <2> QED BY <1>2, <1>5, <1>6, <2>1 DEF RowsHaveParents
<1>7. \A d \in directs' : d \in directs /\ d.room \notin gone /\ d.from \in users' /\ d.to \in users'
  BY DEF Cascade
<1>8. ASSUME NEW d \in directs'
      PROVE  d.from \in users' /\ room'[d.room] # NoRow /\ d.to \in users'
  <2>1. d \in directs /\ d.room \in Room
    BY <1>7 DEF TypeOK, Direct
  <2> QED BY <1>2, <1>7, <2>1 DEF RowsHaveParents
<1> QED BY <1>3, <1>4, <1>6, <1>8 DEF RowsHaveParents

\* A new member is a user of a room that exists.
LEMMA AdmitParents ==
  ASSUME TypeOK, RowsHaveParents, NEW u \in User, NEW m \in Room, MayJoin(u, m), Admit(u, m),
         UNCHANGED <<users, room>>,
         \A k \in Code : codes'[k] # NoRow =>
           /\ codes[k] # NoRow
           /\ codes'[k].creator = codes[k].creator /\ codes'[k].room = codes[k].room,
         \A d \in directs' : \E e \in directs : e.room = d.room /\ e.from = d.from /\ e.to = d.to
  PROVE  RowsHaveParents'
<1>1. \A x \in Room : members'[x] \subseteq users' /\ (members'[x] # {} => Exists(x)')
  BY DEF TypeOK, Admit, RowsHaveParents, MayJoin, Exists
<1> QED BY <1>1 DEF RowsHaveParents, MayJoin, Exists

LEMMA ParentsStep ==
  TypeOK /\ AnswersMatch /\ RowsHaveParents /\ [Next]_vars => RowsHaveParents'
<1> SUFFICES ASSUME TypeOK, AnswersMatch, RowsHaveParents, [Next]_vars PROVE RowsHaveParents'
  OBVIOUS
<1> USE DEF MayJoin, Exists
<1>1. CASE Quiet
  BY <1>1 DEF Quiet, tables, RowsHaveParents
<1>2. ASSUME NEW u \in User, NEW m \in Room, NEW isPublic \in BOOLEAN, CreateRoom(u, m, isPublic)
      PROVE  RowsHaveParents'
  <2>1. /\ users' = users /\ members' = members /\ codes' = codes /\ directs' = directs
        /\ \A x \in Room : /\ room[x] # NoRow => room'[x] # NoRow
                           /\ room'[x] # NoRow => room'[x] = room[x] \/ room'[x].owner = u
    <3>1. [owner |-> u, isPublic |-> isPublic] \in RoomRow
      BY DEF RoomRow
    <3> QED BY <1>2, <3>1, RowAssumption DEF CreateRoom, TypeOK
  <2>2. \A x \in Room : room'[x] # NoRow => room'[x].owner \in users
    BY <1>2, <2>1 DEF CreateRoom, RowsHaveParents
  <2>3. \A k \in Code : codes[k] # NoRow => codes[k].room \in Room
    BY DEF TypeOK, CodeRow
  <2>4. \A d \in directs : d.room \in Room
    BY DEF TypeOK, Direct
  <2>5. \A x \in Room : members'[x] \subseteq users' /\ (members'[x] # {} => room'[x] # NoRow)
    BY <2>1 DEF RowsHaveParents
  <2>6. \A k \in Code : codes'[k] # NoRow => codes'[k].creator \in users' /\ room'[codes'[k].room] # NoRow
    BY <2>1, <2>3 DEF RowsHaveParents
  <2>7. \A d \in directs' : d.from \in users' /\ room'[d.room] # NoRow /\ d.to \in users'
    BY <2>1, <2>4 DEF RowsHaveParents
  <2> QED BY <2>1, <2>2, <2>5, <2>6, <2>7 DEF RowsHaveParents
<1>3. ASSUME NEW r \in Req, NEW isPublic \in BOOLEAN, UpdateRoom(r, isPublic) PROVE RowsHaveParents'
  <2>1. \A m \in Room : /\ room'[m] = NoRow <=> room[m] = NoRow
                        /\ room[m] # NoRow => room'[m].owner = room[m].owner
    <3>1. \A x \in RoomRow : /\ [x EXCEPT !.isPublic = isPublic] \in RoomRow
                             /\ [x EXCEPT !.isPublic = isPublic].owner = x.owner
      BY DEF RoomRow
    <3>2. CASE room' = room
      BY <3>2
    <3>3. CASE room[req[r].room] # NoRow /\ room' = [room EXCEPT ![req[r].room].isPublic = isPublic]
      BY <3>1, <3>3, RowAssumption DEF TypeOK
    <3> QED BY <1>3, <3>2, <3>3 DEF UpdateRoom
  <2> QED BY <1>3, <2>1 DEF UpdateRoom, RowsHaveParents, TypeOK, CodeRow, Direct
<1>4. ASSUME NEW r \in Req, DeleteRoom(r) PROVE RowsHaveParents'
  <2>1. req[r].room \in Room /\ users' = users
    BY <1>4, FrameOf DEF DeleteRoom, At, PersonAt, PersonFrame
  <2>2. CASE Cascade({req[r].room})
    BY <2>1, <2>2, CascadeParents DEF RowsHaveParents
  <2>3. CASE UNCHANGED <<room, members, codes, directs>>
    BY <2>1, <2>3 DEF RowsHaveParents
  <2> QED BY <1>4, <2>2, <2>3 DEF DeleteRoom
<1>5. ASSUME NEW r \in Req, HandOver(r) PROVE RowsHaveParents'
  <2>1. req[r].room \in Room
    BY <1>5, FrameOf DEF HandOver, At, PersonAt, PersonFrame
  <2>2. \A m \in Room : /\ room'[m] = NoRow <=> room[m] = NoRow
                        /\ room[m] # NoRow => room'[m].owner \in users
    <3>1. \A x \in RoomRow, u \in User : /\ [x EXCEPT !.owner = u] \in RoomRow
                                         /\ [x EXCEPT !.owner = u].owner = u
      BY DEF RoomRow
    <3>2. \A m \in Room : room[m] # NoRow => room[m] \in RoomRow /\ room[m].owner \in users
      BY DEF TypeOK, RowsHaveParents
    <3>3. CASE room' = room
      BY <3>2, <3>3
    <3>4. CASE /\ MayJoin(req[r].to, req[r].room)
               /\ room' = [room EXCEPT ![req[r].room].owner = req[r].to]
      <4>1. req[r].to \in User /\ req[r].to \in users
        BY <3>4 DEF TypeOK
      <4> QED BY <2>1, <3>1, <3>2, <3>4, <4>1, RowAssumption DEF TypeOK
    <3> QED BY <1>5, <3>3, <3>4 DEF HandOver
  <2> QED BY <1>5, <2>2 DEF HandOver, RowsHaveParents, TypeOK, CodeRow, Direct
<1>6. ASSUME NEW r \in Req, KeepFormer(r) \/ AddMember(r) PROVE RowsHaveParents'
  <2>1. req[r].room \in Room /\ req[r].by \in User /\ req[r].to \in User
    BY <1>6, FrameOf DEF KeepFormer, AddMember, At, PersonAt, PersonFrame
  <2>2. UNCHANGED <<users, room, codes, directs>>
    BY <1>6 DEF KeepFormer, AddMember
  <2>3. CASE UNCHANGED members
    BY <2>2, <2>3 DEF RowsHaveParents
  <2>4. CASE \E u \in User : MayJoin(u, req[r].room) /\ Admit(u, req[r].room)
    BY <2>1, <2>2, <2>4, AdmitParents
  <2> QED BY <1>6, <2>1, <2>3, <2>4 DEF KeepFormer, AddMember
<1>7. ASSUME NEW r \in Req, RemoveMember(r) PROVE RowsHaveParents'
  <2>1. \A m \in Room : members'[m] \subseteq members[m]
    BY <1>7 DEF RemoveMember, TypeOK
  <2> QED BY <1>7, <2>1 DEF RemoveMember, RowsHaveParents
<1>8. ASSUME NEW r \in Req, MintToken(r) PROVE RowsHaveParents'
  <2>1. req[r].room \in Room /\ req[r].by \in User
    BY <1>8, FrameOf DEF MintToken, At, PersonAt, PersonFrame
  <2>2. UNCHANGED <<users, room, codes, directs>>
    BY <1>8 DEF MintToken
  <2>3. CASE UNCHANGED members
    BY <2>2, <2>3 DEF RowsHaveParents
  <2>4. CASE MayJoin(req[r].by, req[r].room) /\ Admit(req[r].by, req[r].room)
    BY <2>1, <2>2, <2>4, AdmitParents
  <2> QED BY <1>8, <2>3, <2>4 DEF MintToken
<1>9. ASSUME NEW r \in Req, NEW k \in Code, NEW limit \in Limit, CreateCode(r, k, limit)
      PROVE  RowsHaveParents'
  <2>1. \A x \in Code : codes'[x] # NoRow =>
          \/ codes'[x] = codes[x]
          \/ codes'[x].creator \in users /\ room[codes'[x].room] # NoRow
    BY <1>9 DEF CreateCode, TypeOK
  <2> QED BY <1>9, <2>1 DEF CreateCode, RowsHaveParents
<1>10. ASSUME NEW r \in Req, Revoke(r) PROVE RowsHaveParents'
  <2>1. \A k \in Code : /\ codes'[k] = NoRow <=> codes[k] = NoRow
                        /\ codes[k] # NoRow => /\ codes'[k].creator = codes[k].creator
                                               /\ codes'[k].room = codes[k].room
    <3>1. \A x \in CodeRow : /\ [x EXCEPT !.revoked = TRUE] \in CodeRow
                             /\ [x EXCEPT !.revoked = TRUE].creator = x.creator
                             /\ [x EXCEPT !.revoked = TRUE].room = x.room
      BY DEF CodeRow
    <3> QED BY <1>10, <3>1, RowAssumption DEF Revoke, TypeOK
  <2> QED BY <1>10, <2>1 DEF Revoke, RowsHaveParents
<1>11. ASSUME NEW r \in Req, ClearDirects(r) PROVE RowsHaveParents'
  BY <1>11 DEF ClearDirects, RowsHaveParents
<1>12. ASSUME NEW r \in Req, CreateDirect(r) PROVE RowsHaveParents'
  <2>1. \A d \in directs' : d \in directs \/ (d.from \in users /\ room[d.room] # NoRow /\ d.to \in users)
    BY <1>12 DEF CreateDirect
  <2> QED BY <1>12, <2>1 DEF CreateDirect, RowsHaveParents
<1>13. ASSUME NEW r \in Req, AcceptDirect(r) PROVE RowsHaveParents'
  <2>1. req[r].room \in Room /\ req[r].by \in User /\ req[r].at \in {"accept", "decline"}
    BY <1>13, FrameOf DEF AcceptDirect, At, AnswerFrame
  <2>2. CASE Answered(r) # {}
    <3>1. MayJoin(req[r].by, req[r].room)
      BY <2>1, <2>2 DEF Answered, AnswersMatch, RowsHaveParents
    <3>2. \A d \in directs' : \E e \in directs : e.room = d.room /\ e.from = d.from /\ e.to = d.to
      BY <1>13, <2>2, AnswerKeeps DEF AcceptDirect
    <3> QED BY <1>13, <2>1, <2>2, <3>1, <3>2, AdmitParents DEF AcceptDirect
  <2>3. CASE Answered(r) = {}
    BY <1>13, <2>3 DEF AcceptDirect, RowsHaveParents
  <2> QED BY <2>2, <2>3
<1>14. ASSUME NEW r \in Req, DeclineDirect(r) PROVE RowsHaveParents'
  <2>1. \A d \in directs' : \E e \in directs : e.room = d.room /\ e.from = d.from /\ e.to = d.to
    BY <1>14, AnswerKeeps DEF DeclineDirect
  <2> QED BY <1>14, <2>1 DEF DeclineDirect, RowsHaveParents
<1>15. ASSUME NEW u \in User, NEW k \in Code, Redeem(u, k) PROVE RowsHaveParents'
  <2>1. codes[k].room \in Room /\ MayJoin(u, codes[k].room)
    BY <1>15 DEF Redeem, RowsHaveParents, TypeOK, CodeRow
  <2>2. \A x \in Code : codes'[x] # NoRow =>
          /\ codes[x] # NoRow
          /\ codes'[x].creator = codes[x].creator /\ codes'[x].room = codes[x].room
    BY <1>15 DEF Redeem, TypeOK, CodeRow
  <2> QED BY <1>15, <2>1, <2>2, AdmitParents DEF Redeem
<1>16. ASSUME NEW k \in Code, ExpireCode(k) PROVE RowsHaveParents'
  <2>1. \A x \in Code : codes'[x] # NoRow =>
          /\ codes[x] # NoRow
          /\ codes'[x].creator = codes[x].creator /\ codes'[x].room = codes[x].room
    BY <1>16 DEF ExpireCode, TypeOK, CodeRow
  <2> QED BY <1>16, <2>1 DEF ExpireCode, RowsHaveParents
<1>17. ASSUME NEW d \in directs, ExpireDirect(d) PROVE RowsHaveParents'
  <2>1. \A x \in directs' : \E e \in directs : e.room = x.room /\ e.from = x.from /\ e.to = x.to
    BY <1>17 DEF ExpireDirect, TypeOK, Direct
  <2> QED BY <1>17, <2>1 DEF ExpireDirect, RowsHaveParents
<1>18. ASSUME NEW u \in User, DeleteAccount(u) PROVE RowsHaveParents'
  <2> DEFINE gone == {m \in Room : Exists(m) /\ room[m].owner = u}
  <2>1. /\ Cascade(gone) /\ gone \in SUBSET Room /\ users' \subseteq users
        /\ \A m \in Room \ gone : Exists(m) => room[m].owner \in users'
    BY <1>18 DEF DeleteAccount, RowsHaveParents
  <2> HIDE DEF gone
  <2> QED BY <2>1, CascadeParents
<1>19. ASSUME NEW u \in User, NEW m \in Room, Enter(u, m) \/ Exit(u, m) \/ ExpireToken(u, m) \/ Kick(u, m)
       PROVE  RowsHaveParents'
  BY <1>19 DEF Enter, Exit, ExpireToken, Kick, tables, RowsHaveParents
<1>20. ASSUME NEW m \in Room, CloseCall(m) PROVE RowsHaveParents'
  BY <1>20 DEF CloseCall, tables, RowsHaveParents
<1> QED
  BY NextKinds, <1>1, <1>2, <1>3, <1>4, <1>5, <1>6, <1>7, <1>8, <1>9, <1>10, <1>11, <1>12, <1>13,
     <1>14, <1>15, <1>16, <1>17, <1>18, <1>19, <1>20

-----------------------------------------------------------------------------
(* Standing.                                                               *)

StandInv ==
  SpareIsFresh /\ MembersStood /\ OwnersStood /\ PublicsRecorded /\ FramesStood /\ InvitersHadStanding

\* Who is let in, with the room there: by hand, with a token, a code or an
\* invite.
Lets(u, m) == Exists(m) /\ Admit(u, m) /\ UNCHANGED <<room, spare, everPublic, inCall>>

LEMMA Entering ==
  ASSUME TypeOK, AnswersMatch, RowsHaveParents, [Next]_vars
  PROVE  \/ UNCHANGED <<members, standing, strays>>
         \/ \E u \in User, m \in Room : Lets(u, m)
         \/ \E u \in User, m \in Room, isPublic \in BOOLEAN : CreateRoom(u, m, isPublic)
         \/ \E r \in Req : DeleteRoom(r) \/ HandOver(r) \/ RemoveMember(r)
         \/ \E u \in User : DeleteAccount(u)
         \/ \E u \in User, m \in Room : Enter(u, m) \/ Kick(u, m)
<1> DEFINE Still == UNCHANGED <<members, standing, strays>>
<1> DEFINE Let == \E u \in User, m \in Room : Lets(u, m)
<1>1. Quiet => Still
  BY DEF Quiet, tables, livekit
<1>2. \A r \in Req, isPublic \in BOOLEAN : UpdateRoom(r, isPublic) => Still
  BY DEF UpdateRoom, livekit
<1>3. ASSUME NEW r \in Req, KeepFormer(r) \/ AddMember(r) PROVE Still \/ Let
  <2>1. req[r].room \in Room /\ req[r].by \in User /\ req[r].to \in User
    BY <1>3, FrameOf DEF KeepFormer, AddMember, At, PersonAt, PersonFrame
  <2> QED BY <1>3, <2>1 DEF KeepFormer, AddMember, Lets, MayJoin
<1>4. ASSUME NEW r \in Req, MintToken(r) PROVE Still \/ Let
  <2>1. req[r].room \in Room /\ req[r].by \in User
    BY <1>4, FrameOf DEF MintToken, At, PersonAt, PersonFrame
  <2> QED BY <1>4, <2>1 DEF MintToken, Lets, MayJoin
<1>5. ASSUME NEW r \in Req, AcceptDirect(r) PROVE Still \/ Let
  <2>1. req[r].room \in Room /\ req[r].by \in User /\ req[r].at \in {"accept", "decline"}
    BY <1>5, FrameOf DEF AcceptDirect, At, AnswerFrame
  <2>2. CASE Answered(r) # {}
    <3>1. Exists(req[r].room)
      BY <2>1, <2>2 DEF Answered, AnswersMatch, RowsHaveParents, MayJoin
    <3> QED BY <1>5, <2>1, <2>2, <3>1 DEF AcceptDirect, Lets
  <2> QED BY <1>5, <2>2 DEF AcceptDirect
<1>6. ASSUME NEW u \in User, NEW k \in Code, Redeem(u, k) PROVE Let
  <2>1. codes[k].room \in Room /\ Exists(codes[k].room)
    BY <1>6 DEF Redeem, RowsHaveParents, MayJoin, TypeOK, CodeRow
  <2> QED BY <1>6, <2>1 DEF Redeem, Lets
<1>7. \A r \in Req, k \in Code, limit \in Limit : CreateCode(r, k, limit) => Still
  BY DEF CreateCode, livekit
<1>8. \A r \in Req : Revoke(r) \/ ClearDirects(r) \/ CreateDirect(r) \/ DeclineDirect(r) => Still
  BY DEF Revoke, ClearDirects, CreateDirect, DeclineDirect, livekit, history
<1>9. \A k \in Code : ExpireCode(k) => Still
  BY DEF ExpireCode, livekit, history
<1>10. \A d \in directs : ExpireDirect(d) => Still
  BY DEF ExpireDirect, livekit, history
<1>11. \A u \in User, m \in Room : Exit(u, m) \/ ExpireToken(u, m) => Still
  BY DEF Exit, ExpireToken, tables, history
<1>12. \A m \in Room : CloseCall(m) => Still
  BY DEF CloseCall, tables, history
<1> QED
  BY NextKinds, <1>1, <1>2, <1>3, <1>4, <1>5, <1>6, <1>7, <1>8, <1>9, <1>10, <1>11, <1>12

\* Who has been somewhere stays so, and who is a member now has been.
LEMMA StandingGrows ==
  ASSUME TypeOK, AnswersMatch, RowsHaveParents, SpareIsFresh, MembersStood, [Next]_vars
  PROVE  /\ \A m \in Room : standing[m] \subseteq standing'[m]
         /\ MembersStood'
<1> DEFINE Goal == (\A m \in Room : standing[m] \subseteq standing'[m]) /\ MembersStood'
<1>1. UNCHANGED <<members, standing, strays>> => Goal
  BY DEF MembersStood
<1>2. \A u \in User, m \in Room : Lets(u, m) => Goal
  BY DEF Lets, Admit, MembersStood, TypeOK
<1>3. ASSUME NEW u \in User, NEW m \in Room, NEW isPublic \in BOOLEAN, CreateRoom(u, m, isPublic)
      PROVE  Goal
  <2>1. members[m] = {} /\ standing[m] = {}
    BY <1>3 DEF CreateRoom, SpareIsFresh, MembersStood
  <2>2. members' = members /\ standing' = [standing EXCEPT ![m] = {u}]
    BY <1>3 DEF CreateRoom
  <2> QED BY <2>1, <2>2 DEF MembersStood, TypeOK
<1>4. ASSUME NEW r \in Req, DeleteRoom(r) \/ RemoveMember(r) PROVE Goal
  <2>1. standing' = standing /\ \A m \in Room : members'[m] \subseteq members[m]
    BY <1>4 DEF DeleteRoom, Cascade, RemoveMember, history, TypeOK
  <2> QED BY <2>1 DEF MembersStood
<1>5. ASSUME NEW r \in Req, HandOver(r) PROVE Goal
  <2>1. members' = members /\ \A m \in Room : standing[m] \subseteq standing'[m]
    BY <1>5 DEF HandOver, TypeOK
  <2> QED BY <2>1 DEF MembersStood
<1>6. ASSUME NEW u \in User, DeleteAccount(u) PROVE Goal
  <2>1. standing' = standing /\ \A m \in Room : members'[m] \subseteq members[m]
    BY <1>6 DEF DeleteAccount, Cascade, history
  <2> QED BY <2>1 DEF MembersStood
<1>7. \A u \in User, m \in Room : Enter(u, m) \/ Kick(u, m) => Goal
  BY DEF Enter, Kick, tables, history, MembersStood
<1> QED
  BY Entering, <1>1, <1>2, <1>3, <1>4, <1>5, <1>6, <1>7

\* The rows of rooms: what a step may do to one.
LEMMA RoomChanges ==
  ASSUME TypeOK, [Next]_vars, NEW m \in Room, Exists(m)'
  PROVE  \/ room'[m] = room[m]
         \/ \E u \in User, isPublic \in BOOLEAN :
              CreateRoom(u, m, isPublic) /\ room'[m] = [owner |-> u, isPublic |-> isPublic]
         \/ \E r \in Req, isPublic \in BOOLEAN :
              /\ UpdateRoom(r, isPublic) /\ Exists(m)
              /\ room'[m].owner = room[m].owner
              /\ room'[m].isPublic => m \in everPublic'
         \/ \E r \in Req : /\ HandOver(r) /\ req[r].room = m /\ Exists(m)
                           /\ room'[m].owner = req[r].to
                           /\ room'[m].isPublic = room[m].isPublic
<1> DEFINE Goal ==
         \/ room'[m] = room[m]
         \/ \E u \in User, isPublic \in BOOLEAN :
              CreateRoom(u, m, isPublic) /\ room'[m] = [owner |-> u, isPublic |-> isPublic]
         \/ \E r \in Req, isPublic \in BOOLEAN :
              /\ UpdateRoom(r, isPublic) /\ Exists(m)
              /\ room'[m].owner = room[m].owner
              /\ room'[m].isPublic => m \in everPublic'
         \/ \E r \in Req : /\ HandOver(r) /\ req[r].room = m /\ Exists(m)
                           /\ room'[m].owner = req[r].to
                           /\ room'[m].isPublic = room[m].isPublic
<1>1. room' = room => Goal
  OBVIOUS
<1>2. ASSUME NEW u \in User, NEW n \in Room, NEW isPublic \in BOOLEAN, CreateRoom(u, n, isPublic)
      PROVE  Goal
  BY <1>2 DEF CreateRoom, TypeOK
<1>3. ASSUME NEW r \in Req, NEW isPublic \in BOOLEAN, UpdateRoom(r, isPublic) PROVE Goal
  <2>1. CASE room' = room
    BY <2>1
  <2>2. CASE m # req[r].room
    BY <1>3, <2>2 DEF UpdateRoom, TypeOK
  <2>3. CASE m = req[r].room /\ room' # room
    <3>1. /\ Exists(m) /\ room[m] \in RoomRow
          /\ room' = [room EXCEPT ![m].isPublic = isPublic]
          /\ isPublic => m \in everPublic'
      BY <1>3, <2>3 DEF UpdateRoom, TypeOK, Exists
    <3>2. room'[m].owner = room[m].owner /\ room'[m].isPublic = isPublic
      BY <3>1 DEF TypeOK, RoomRow
    <3> QED BY <1>3, <3>1, <3>2
  <2> QED BY <2>1, <2>2, <2>3
<1>4. ASSUME NEW r \in Req, HandOver(r) PROVE Goal
  <2>1. CASE room' = room
    BY <2>1
  <2>2. CASE m # req[r].room
    BY <1>4, <2>2 DEF HandOver, TypeOK
  <2>3. CASE m = req[r].room /\ room' # room
    <3>1. Exists(m) /\ room[m] \in RoomRow /\ room' = [room EXCEPT ![m].owner = req[r].to]
      BY <1>4, <2>3 DEF HandOver, TypeOK, MayJoin, Exists
    <3>2. room'[m].owner = req[r].to /\ room'[m].isPublic = room[m].isPublic
      BY <3>1 DEF TypeOK, RoomRow
    <3> QED BY <1>4, <2>3, <3>1, <3>2
  <2> QED BY <2>1, <2>2, <2>3
<1>5. ASSUME NEW gone, Cascade(gone) PROVE Goal
  BY <1>5 DEF Cascade, Exists
<1>6. \A r \in Req : DeleteRoom(r) => Goal
  BY <1>1, <1>5 DEF DeleteRoom
<1>7. \A u \in User : DeleteAccount(u) => Goal
  BY <1>5 DEF DeleteAccount
<1>8. Quiet => Goal
  BY <1>1 DEF Quiet, tables
<1>9. \A r \in Req : KeepFormer(r) \/ AddMember(r) \/ RemoveMember(r) \/ MintToken(r) \/ Revoke(r)
                    \/ ClearDirects(r) \/ CreateDirect(r) \/ AcceptDirect(r) \/ DeclineDirect(r) => Goal
  BY <1>1 DEF KeepFormer, AddMember, RemoveMember, MintToken, Revoke, ClearDirects, CreateDirect,
              AcceptDirect, DeclineDirect
<1>10. \A r \in Req, k \in Code, limit \in Limit : CreateCode(r, k, limit) => Goal
  BY <1>1 DEF CreateCode
<1>11. \A u \in User, k \in Code : Redeem(u, k) => Goal
  BY <1>1 DEF Redeem
<1>12. \A k \in Code : ExpireCode(k) => Goal
  BY <1>1 DEF ExpireCode
<1>13. \A d \in directs : ExpireDirect(d) => Goal
  BY <1>1 DEF ExpireDirect
<1>14. \A u \in User, n \in Room : Enter(u, n) \/ Exit(u, n) \/ ExpireToken(u, n) \/ Kick(u, n) => Goal
  BY <1>1 DEF Enter, Exit, ExpireToken, Kick, tables
<1>15. \A n \in Room : CloseCall(n) => Goal
  BY <1>1 DEF CloseCall, tables
<1> HIDE DEF Goal
<1>16. Goal
  BY NextKinds, <1>2, <1>3, <1>4, <1>6, <1>7, <1>8, <1>9, <1>10, <1>11, <1>12, <1>13, <1>14, <1>15
<1> QED BY <1>16 DEF Goal

LEMMA PublicGrows ==
  ASSUME [Next]_vars
  PROVE  everPublic \subseteq everPublic' /\ spare' \subseteq spare
<1> DEFINE Goal == everPublic \subseteq everPublic' /\ spare' \subseteq spare
<1>1. Quiet => Goal
  BY DEF Quiet
<1>2. \A u \in User, m \in Room, isPublic \in BOOLEAN : CreateRoom(u, m, isPublic) => Goal
  BY DEF CreateRoom
<1>3. \A r \in Req, isPublic \in BOOLEAN : UpdateRoom(r, isPublic) => Goal
  BY DEF UpdateRoom
<1>4. \A r \in Req : DeleteRoom(r) \/ HandOver(r) \/ KeepFormer(r) \/ AddMember(r) \/ RemoveMember(r)
                    \/ MintToken(r) \/ Revoke(r) => Goal
  BY DEF DeleteRoom, HandOver, KeepFormer, AddMember, RemoveMember, MintToken, Revoke, history
<1>5. \A r \in Req : ClearDirects(r) \/ CreateDirect(r) \/ AcceptDirect(r) \/ DeclineDirect(r) => Goal
  BY DEF ClearDirects, CreateDirect, AcceptDirect, DeclineDirect, history
<1>6. \A r \in Req, k \in Code, limit \in Limit : CreateCode(r, k, limit) => Goal
  BY DEF CreateCode
<1>7. \A u \in User, k \in Code : Redeem(u, k) => Goal
  BY DEF Redeem
<1>8. \A k \in Code : ExpireCode(k) => Goal
  BY DEF ExpireCode, history
<1>9. \A d \in directs : ExpireDirect(d) => Goal
  BY DEF ExpireDirect, history
<1>10. \A u \in User : DeleteAccount(u) => Goal
  BY DEF DeleteAccount, history
<1>11. \A u \in User, m \in Room : Enter(u, m) \/ Exit(u, m) \/ ExpireToken(u, m) \/ Kick(u, m) => Goal
  BY DEF Enter, Exit, ExpireToken, Kick, history
<1>12. \A m \in Room : CloseCall(m) => Goal
  BY DEF CloseCall, history
<1> QED
  BY NextKinds, <1>1, <1>2, <1>3, <1>4, <1>5, <1>6, <1>7, <1>8, <1>9, <1>10, <1>11, <1>12

\* The rows of codes likewise.
LEMMA CodeChanges ==
  ASSUME TypeOK, [Next]_vars, NEW k \in Code, codes'[k] # NoRow
  PROVE  \/ /\ codes[k] # NoRow
            /\ codes'[k].creator = codes[k].creator /\ codes'[k].room = codes[k].room
            /\ codes'[k].limit = codes[k].limit
            /\ \/ codes'[k].uses = codes[k].uses
               \/ Usable(codes[k]) /\ codes'[k].uses = codes[k].uses + 1
         \/ /\ codes'[k].uses = 0
            /\ \E r \in Req : /\ req[r].at = "create-code"
                              /\ codes'[k].creator = req[r].by /\ codes'[k].room = req[r].room
<1> DEFINE Goal ==
         \/ /\ codes[k] # NoRow
            /\ codes'[k].creator = codes[k].creator /\ codes'[k].room = codes[k].room
            /\ codes'[k].limit = codes[k].limit
            /\ \/ codes'[k].uses = codes[k].uses
               \/ Usable(codes[k]) /\ codes'[k].uses = codes[k].uses + 1
         \/ /\ codes'[k].uses = 0
            /\ \E r \in Req : /\ req[r].at = "create-code"
                              /\ codes'[k].creator = req[r].by /\ codes'[k].room = req[r].room
<1>1. codes'[k] = codes[k] => Goal
  OBVIOUS
<1>2. codes[k] # NoRow => codes[k] \in CodeRow
  BY DEF TypeOK
<1>3. \A r \in Req, x \in Code, limit \in Limit : CreateCode(r, x, limit) => Goal
  BY <1>1 DEF CreateCode, At, TypeOK
<1>4. ASSUME NEW r \in Req, Revoke(r) PROVE Goal
  <2>1. CASE codes'[k] = codes[k]
    BY <1>1, <2>1
  <2>2. CASE codes' = [codes EXCEPT ![k].revoked = TRUE] /\ codes[k] # NoRow
    BY <1>2, <2>2 DEF TypeOK, CodeRow
  <2> QED BY <1>4, <2>1, <2>2 DEF Revoke, TypeOK
<1>5. ASSUME NEW u \in User, NEW x \in Code, Redeem(u, x) PROVE Goal
  <2>1. CASE x # k
    BY <1>1, <1>5, <2>1 DEF Redeem, TypeOK
  <2>2. CASE x = k
    <3>1. /\ codes[k] \in CodeRow /\ codes[k] # NoRow /\ Usable(codes[k])
          /\ codes' = [codes EXCEPT ![k].uses = @ + 1]
      BY <1>2, <1>5, <2>2 DEF Redeem
    <3> QED BY <3>1 DEF TypeOK, CodeRow
  <2> QED BY <2>1, <2>2
<1>6. ASSUME NEW x \in Code, ExpireCode(x) PROVE Goal
  <2>1. CASE x # k
    BY <1>1, <1>6, <2>1 DEF ExpireCode, TypeOK
  <2>2. CASE x = k
    <3>1. /\ codes[k] \in CodeRow /\ codes[k] # NoRow
          /\ codes' = [codes EXCEPT ![k].expired = TRUE]
      BY <1>2, <1>6, <2>2 DEF ExpireCode
    <3> QED BY <3>1 DEF TypeOK, CodeRow
  <2> QED BY <2>1, <2>2
<1>7. ASSUME NEW gone, Cascade(gone) PROVE Goal
  BY <1>1, <1>7 DEF Cascade
<1>8. \A r \in Req : DeleteRoom(r) => Goal
  BY <1>1, <1>7 DEF DeleteRoom
<1>9. \A u \in User : DeleteAccount(u) => Goal
  BY <1>7 DEF DeleteAccount
<1>10. Quiet => Goal
  BY <1>1 DEF Quiet, tables
<1>11. \A u \in User, m \in Room, isPublic \in BOOLEAN : CreateRoom(u, m, isPublic) => Goal
  BY <1>1 DEF CreateRoom
<1>12. \A r \in Req, isPublic \in BOOLEAN : UpdateRoom(r, isPublic) => Goal
  BY <1>1 DEF UpdateRoom
<1>13. \A r \in Req : HandOver(r) \/ KeepFormer(r) \/ AddMember(r) \/ RemoveMember(r) \/ MintToken(r)
                     \/ ClearDirects(r) \/ CreateDirect(r) \/ AcceptDirect(r) \/ DeclineDirect(r) => Goal
  BY <1>1 DEF HandOver, KeepFormer, AddMember, RemoveMember, MintToken, ClearDirects, CreateDirect,
              AcceptDirect, DeclineDirect
<1>14. \A d \in directs : ExpireDirect(d) => Goal
  BY <1>1 DEF ExpireDirect
<1>15. \A u \in User, m \in Room : Enter(u, m) \/ Exit(u, m) \/ ExpireToken(u, m) \/ Kick(u, m) => Goal
  BY <1>1 DEF Enter, Exit, ExpireToken, Kick, tables
<1>16. \A m \in Room : CloseCall(m) => Goal
  BY <1>1 DEF CloseCall, tables
<1> HIDE DEF Goal
<1>17. Goal
  BY NextKinds, <1>3, <1>4, <1>5, <1>6, <1>8, <1>9, <1>10, <1>11, <1>12, <1>13, <1>14, <1>15, <1>16
<1> QED BY <1>17 DEF Goal

LEMMA UsesStep == TypeOK /\ UsesWithinLimit /\ [Next]_vars => UsesWithinLimit'
<1> SUFFICES ASSUME TypeOK, UsesWithinLimit, [Next]_vars, TypeOK', NEW k \in Code,
                    codes'[k] # NoRow, codes'[k].limit # NoLimit
             PROVE  codes'[k].uses <= codes'[k].limit
  BY TypeStep DEF UsesWithinLimit
<1>1. codes'[k].limit \in Nat
  BY RoomAssumption DEF TypeOK, CodeRow, Limit
<1>2. codes[k] # NoRow => codes[k].uses \in Nat
  BY RoomAssumption DEF TypeOK, CodeRow
<1> QED BY <1>1, <1>2, CodeChanges DEF UsesWithinLimit, Usable

\* Nobody enters the call of a room, or gets a token for it, before it is made.
LEMMA CallChanges ==
  ASSUME TypeOK, [Next]_vars, NEW m \in Room, room[m] = NoRow, inCall[m] = {},
         \A u \in User : <<u, m>> \notin tokens
  PROVE  inCall'[m] = {} /\ \A u \in User : <<u, m>> \notin tokens'
<1> DEFINE Goal == inCall'[m] = {} /\ \A u \in User : <<u, m>> \notin tokens'
<1>1. UNCHANGED <<inCall, tokens>> => Goal
  OBVIOUS
<1>2. \A r \in Req : MintToken(r) => Goal
  BY DEF MintToken, MayJoin, Exists
<1>3. \A u \in User, n \in Room : Enter(u, n) => Goal
  BY DEF Enter, TypeOK
<1>4. \A u \in User, n \in Room : Exit(u, n) \/ ExpireToken(u, n) \/ Kick(u, n) => Goal
  BY DEF Exit, ExpireToken, Kick, TypeOK
<1>5. \A n \in Room : CloseCall(n) => Goal
  BY DEF CloseCall, TypeOK
<1>6. Quiet => Goal
  BY <1>1 DEF Quiet, livekit
<1>7. \A u \in User, n \in Room, isPublic \in BOOLEAN : CreateRoom(u, n, isPublic) => Goal
  BY <1>1 DEF CreateRoom, livekit
<1>8. \A r \in Req, isPublic \in BOOLEAN : UpdateRoom(r, isPublic) => Goal
  BY <1>1 DEF UpdateRoom, livekit
<1>9. \A r \in Req : DeleteRoom(r) \/ HandOver(r) \/ KeepFormer(r) \/ AddMember(r) \/ RemoveMember(r)
                    \/ Revoke(r) \/ ClearDirects(r) \/ CreateDirect(r) \/ AcceptDirect(r)
                    \/ DeclineDirect(r) => Goal
  BY <1>1 DEF DeleteRoom, HandOver, KeepFormer, AddMember, RemoveMember, Revoke, ClearDirects,
              CreateDirect, AcceptDirect, DeclineDirect, livekit
<1>10. \A r \in Req, k \in Code, limit \in Limit : CreateCode(r, k, limit) => Goal
  BY <1>1 DEF CreateCode, livekit
<1>11. \A u \in User, k \in Code : Redeem(u, k) => Goal
  BY <1>1 DEF Redeem
<1>12. \A k \in Code : ExpireCode(k) => Goal
  BY <1>1 DEF ExpireCode, livekit
<1>13. \A d \in directs : ExpireDirect(d) => Goal
  BY <1>1 DEF ExpireDirect, livekit
<1>14. \A u \in User : DeleteAccount(u) => Goal
  BY <1>1 DEF DeleteAccount, livekit
<1> QED
  BY NextKinds, <1>2, <1>3, <1>4, <1>5, <1>6, <1>7, <1>8, <1>9, <1>10, <1>11, <1>12, <1>13, <1>14

LEMMA SpareStep ==
  TypeOK /\ AnswersMatch /\ RowsHaveParents /\ SpareIsFresh /\ [Next]_vars => SpareIsFresh'
<1> SUFFICES ASSUME TypeOK, AnswersMatch, RowsHaveParents, SpareIsFresh, [Next]_vars,
                    NEW m \in Room, m \in spare'
             PROVE  /\ ~Exists(m)' /\ standing'[m] = {} /\ inCall'[m] = {}
                    /\ \A u \in User : <<u, m>> \notin tokens'
  BY DEF SpareIsFresh
<1>1. /\ m \in spare /\ room[m] = NoRow /\ standing[m] = {} /\ inCall[m] = {}
      /\ \A u \in User : <<u, m>> \notin tokens
  BY PublicGrows DEF SpareIsFresh, Exists
<1>2. \A u \in User, isPublic \in BOOLEAN : ~CreateRoom(u, m, isPublic)
  BY DEF CreateRoom
<1>3. ~Exists(m)'
  BY <1>1, <1>2, RoomChanges DEF Exists
<1>4. standing'[m] = {}
  <2>1. standing' = standing => standing'[m] = {}
    BY <1>1
  <2>2. \A u \in User, n \in Room : Lets(u, n) => standing'[m] = {}
    BY <1>1 DEF Lets, Admit, Exists, TypeOK
  <2>3. \A u \in User, n \in Room, isPublic \in BOOLEAN :
          CreateRoom(u, n, isPublic) => standing'[m] = {}
    BY <1>1, <1>2 DEF CreateRoom, TypeOK
  <2>4. \A r \in Req : HandOver(r) => standing'[m] = {}
    BY <1>1 DEF HandOver, MayJoin, Exists, TypeOK
  <2>5. \A r \in Req : DeleteRoom(r) \/ RemoveMember(r) => standing' = standing
    BY DEF DeleteRoom, RemoveMember, history
  <2>6. \A u \in User : DeleteAccount(u) => standing' = standing
    BY DEF DeleteAccount, history
  <2>7. \A u \in User, n \in Room : Enter(u, n) \/ Kick(u, n) => standing' = standing
    BY DEF Enter, Kick, history
  <2> QED BY Entering, <2>1, <2>2, <2>3, <2>4, <2>5, <2>6, <2>7
<1>5. inCall'[m] = {} /\ \A u \in User : <<u, m>> \notin tokens'
  BY <1>1, CallChanges
<1> QED BY <1>3, <1>4, <1>5

LEMMA RoomsStoodStep ==
  ASSUME TypeOK, AnswersMatch, RowsHaveParents, StandInv, [Next]_vars
  PROVE  OwnersStood' /\ PublicsRecorded'
<1>1. /\ \A m \in Room : standing[m] \subseteq standing'[m]
      /\ everPublic \subseteq everPublic'
  BY StandingGrows, PublicGrows DEF StandInv
<1> SUFFICES ASSUME NEW m \in Room, Exists(m)'
             PROVE  /\ room'[m].owner \in standing'[m]
                    /\ room'[m].isPublic => m \in everPublic'
  BY DEF OwnersStood, PublicsRecorded
<1>2. CASE room'[m] = room[m]
  BY <1>1, <1>2 DEF StandInv, OwnersStood, PublicsRecorded, Exists
<1>3. ASSUME NEW u \in User, NEW isPublic \in BOOLEAN, CreateRoom(u, m, isPublic),
             room'[m] = [owner |-> u, isPublic |-> isPublic]
      PROVE  /\ room'[m].owner \in standing'[m]
             /\ room'[m].isPublic => m \in everPublic'
  BY <1>3 DEF CreateRoom, TypeOK
<1>4. CASE Exists(m) /\ room'[m].owner = room[m].owner /\ (room'[m].isPublic => m \in everPublic')
  BY <1>1, <1>4 DEF StandInv, OwnersStood
<1>5. ASSUME NEW r \in Req, HandOver(r), req[r].room = m, Exists(m), room'[m].owner = req[r].to,
             room'[m].isPublic = room[m].isPublic
      PROVE  /\ room'[m].owner \in standing'[m]
             /\ room'[m].isPublic => m \in everPublic'
  BY <1>1, <1>5 DEF HandOver, At, StandInv, FramesStood, PublicsRecorded
<1> QED BY <1>2, <1>3, <1>4, <1>5, RoomChanges

LEMMA FramesStoodStep ==
  ASSUME TypeOK, AnswersMatch, RowsHaveParents, StandInv, [Next]_vars
  PROVE  FramesStood'
<1>1. /\ \A m \in Room : standing[m] \subseteq standing'[m]
      /\ everPublic \subseteq everPublic'
  BY StandingGrows, PublicGrows DEF StandInv
<1> DEFINE Stood(f, st, pub) ==
      /\ f.at = "hand-over" => f.to \in st[f.room]
      /\ f.at = "create-code" => f.by \in st[f.room]
      /\ f.at = "check-sender" /\ f.isPublic => f.room \in pub
      /\ f.at \in {"clear-directs", "create-direct"} => f.by \in st[f.room] \/ f.room \in pub
<1> SUFFICES ASSUME NEW q \in Req PROVE Stood(req'[q], standing', everPublic')
  BY DEF FramesStood
<1>2. Stood(req[q], standing, everPublic)
  BY DEF StandInv, FramesStood
<1>3. TypeOK'
  BY TypeStep
<1>4. req'[q].at \in {"hand-over", "create-code", "check-sender", "clear-directs", "create-direct"}
        => req'[q].room \in Room
  BY <1>3, FrameKinds DEF TypeOK, PersonAt, PersonFrame, CreatorFrame, SenderFrame
<1>5. CASE req'[q] = req[q]
  BY <1>1, <1>2, <1>4, <1>5
<1>6. CASE Arrives(q) /\ Quiet
  BY <1>2, <1>4, <1>6 DEF Arrives, Quiet, StandInv, MembersStood, OwnersStood, PublicsRecorded, Exists
<1>7. CASE Arrives(q) /\ req'[q].at \in {"idle", "keep-former", "create-direct"}
  BY <1>1, <1>2, <1>4, <1>7 DEF Arrives
<1> QED BY <1>5, <1>6, <1>7, FrameSteps

LEMMA InvitersStep ==
  ASSUME TypeOK, AnswersMatch, RowsHaveParents, StandInv, [Next]_vars
  PROVE  InvitersHadStanding'
<1>1. /\ \A m \in Room : standing[m] \subseteq standing'[m]
      /\ everPublic \subseteq everPublic'
  BY StandingGrows, PublicGrows DEF StandInv
<1>2. TypeOK'
  BY TypeStep
<1>3. ASSUME NEW k \in Code, codes'[k] # NoRow
      PROVE  codes'[k].creator \in standing'[codes'[k].room]
  <2>1. codes'[k].room \in Room
    BY <1>2, <1>3 DEF TypeOK, CodeRow
  <2> QED BY <1>1, <1>3, <2>1, CodeChanges DEF StandInv, FramesStood, InvitersHadStanding
<1>4. ASSUME NEW d \in directs' PROVE d.from \in standing'[d.room] \/ d.room \in everPublic'
  <2>1. d.room \in Room
    BY <1>2, <1>4 DEF TypeOK, Direct
  <2>2. CASE KeptDirects
    BY <1>1, <2>1, <2>2 DEF KeptDirects, StandInv, InvitersHadStanding
  <2>3. ASSUME NEW r \in Req, CreateDirect(r)
        PROVE  d.from \in standing'[d.room] \/ d.room \in everPublic'
    <3>1. d \in directs \/ (d.from = req[r].by /\ d.room = req[r].room)
      BY <2>3 DEF CreateDirect
    <3> QED BY <1>1, <2>1, <2>3, <3>1 DEF CreateDirect, At, StandInv, FramesStood, InvitersHadStanding
  <2> QED BY <2>2, <2>3, DirectsKept
<1> QED BY <1>3, <1>4 DEF InvitersHadStanding

-----------------------------------------------------------------------------
(* Kicks.                                                                  *)

LEMMA KickedStep ==
  ASSUME TypeOK, AnswersMatch, RowsHaveParents, SpareIsFresh, LeaversAreKicked, [Next]_vars
  PROVE  LeaversAreKicked'
<1> SUFFICES ASSUME NEW m \in Room, NEW u \in inCall'[m] \cap users', Exists(m)'
             PROVE  u \in members'[m] \cup strays'[m] \/ <<u, m>> \in kicks'
  BY DEF LeaversAreKicked
<1> DEFINE Goal == u \in members'[m] \cup strays'[m] \/ <<u, m>> \in kicks'
<1>1. /\ u \in inCall[m] /\ u \in users /\ Exists(m)
         => u \in members[m] \cup strays[m] \/ <<u, m>> \in kicks
  BY DEF LeaversAreKicked
<1>2. ASSUME inCall' = inCall, users' = users, Exists(m), UNCHANGED <<members, strays, kicks>>
      PROVE  Goal
  BY <1>1, <1>2
<1>3. ASSUME NEW gone, Cascade(gone), users' \subseteq users, UNCHANGED <<inCall, strays, kicks>>
      PROVE  Goal
  BY <1>1, <1>3 DEF Cascade, Exists
<1>4. ASSUME NEW v \in User, NEW n \in Room, Admit(v, n),
             UNCHANGED <<inCall, users, room, kicks>>
      PROVE  Goal
  BY <1>1, <1>4 DEF Admit, Exists, TypeOK
<1>5. ASSUME Quiet PROVE Goal
  BY <1>2, <1>5 DEF Quiet, tables, livekit, Exists
<1>6. ASSUME NEW v \in User, NEW n \in Room, NEW isPublic \in BOOLEAN, CreateRoom(v, n, isPublic)
      PROVE  Goal
  <2>1. CASE n = m
    BY <1>6, <2>1 DEF CreateRoom, SpareIsFresh, livekit
  <2>2. CASE n # m
    BY <1>2, <1>6, <2>2 DEF CreateRoom, livekit, Exists, TypeOK
  <2> QED BY <2>1, <2>2
<1>7. ASSUME NEW r \in Req, NEW isPublic \in BOOLEAN, UpdateRoom(r, isPublic) PROVE Goal
  <2>1. Exists(m)
    BY <1>7 DEF UpdateRoom, Exists, TypeOK
  <2> QED BY <1>2, <1>7, <2>1 DEF UpdateRoom, livekit
<1>8. ASSUME NEW r \in Req, DeleteRoom(r) PROVE Goal
  <2>1. CASE Cascade({req[r].room})
    BY <1>3, <1>8, <2>1 DEF DeleteRoom
  <2>2. CASE UNCHANGED <<room, members>>
    BY <1>2, <1>8, <2>2 DEF DeleteRoom, Exists
  <2> QED BY <1>8, <2>1, <2>2 DEF DeleteRoom
<1>9. ASSUME NEW r \in Req, HandOver(r) PROVE Goal
  <2>1. Exists(m)
    BY <1>9 DEF HandOver, MayJoin, Exists, TypeOK
  <2> QED BY <1>2, <1>9, <2>1 DEF HandOver, livekit
<1>10. ASSUME NEW r \in Req, KeepFormer(r) \/ AddMember(r) PROVE Goal
  <2>1. req[r].room \in Room /\ req[r].by \in User /\ req[r].to \in User
    BY <1>10, FrameOf DEF KeepFormer, AddMember, At, PersonAt, PersonFrame
  <2> QED BY <1>2, <1>4, <1>10, <2>1 DEF KeepFormer, AddMember, Exists
<1>11. ASSUME NEW r \in Req, RemoveMember(r) PROVE Goal
  BY <1>1, <1>11 DEF RemoveMember, Exists, TypeOK
<1>12. ASSUME NEW r \in Req, MintToken(r) PROVE Goal
  <2>1. req[r].room \in Room /\ req[r].by \in User
    BY <1>12, FrameOf DEF MintToken, At, PersonAt, PersonFrame
  <2> QED BY <1>2, <1>4, <1>12, <2>1 DEF MintToken, Exists
<1>13. ASSUME NEW r \in Req, NEW k \in Code, NEW limit \in Limit, CreateCode(r, k, limit) PROVE Goal
  BY <1>2, <1>13 DEF CreateCode, livekit, Exists
<1>14. ASSUME NEW r \in Req, Revoke(r) \/ ClearDirects(r) \/ CreateDirect(r) \/ DeclineDirect(r)
       PROVE  Goal
  BY <1>2, <1>14 DEF Revoke, ClearDirects, CreateDirect, DeclineDirect, livekit, Exists
<1>15. ASSUME NEW r \in Req, AcceptDirect(r) PROVE Goal
  <2>1. req[r].room \in Room /\ req[r].by \in User
    BY <1>15, FrameOf DEF AcceptDirect, At, AnswerFrame
  <2> QED BY <1>2, <1>4, <1>15, <2>1 DEF AcceptDirect, Exists
<1>16. ASSUME NEW v \in User, NEW k \in Code, Redeem(v, k) PROVE Goal
  <2>1. codes[k].room \in Room
    BY <1>16 DEF Redeem, TypeOK, CodeRow
  <2> QED BY <1>4, <1>16, <2>1 DEF Redeem
<1>17. ASSUME NEW k \in Code, ExpireCode(k) PROVE Goal
  BY <1>2, <1>17 DEF ExpireCode, livekit, Exists
<1>18. ASSUME NEW d \in directs, ExpireDirect(d) PROVE Goal
  BY <1>2, <1>18 DEF ExpireDirect, livekit, Exists
<1>19. ASSUME NEW v \in User, DeleteAccount(v) PROVE Goal
  BY <1>3, <1>19 DEF DeleteAccount, livekit
<1>20. ASSUME NEW v \in User, NEW n \in Room, Enter(v, n) \/ Exit(v, n) \/ ExpireToken(v, n)
       PROVE  Goal
  BY <1>1, <1>20 DEF Enter, Exit, ExpireToken, tables, Exists, TypeOK
<1>21. ASSUME NEW v \in User, NEW n \in Room, Kick(v, n) PROVE Goal
  BY <1>1, <1>21 DEF Kick, tables, Exists, TypeOK
<1>22. ASSUME NEW n \in Room, CloseCall(n) PROVE Goal
  BY <1>1, <1>22 DEF CloseCall, tables, Exists, TypeOK
<1> HIDE DEF Goal
<1>23. \A r \in Req : /\ Revoke(r) => Goal
                      /\ ClearDirects(r) => Goal
                      /\ CreateDirect(r) => Goal
                      /\ DeclineDirect(r) => Goal
  BY <1>14
<1>24. \A v \in User, n \in Room : Enter(v, n) \/ Exit(v, n) \/ ExpireToken(v, n) \/ Kick(v, n) => Goal
  BY <1>20, <1>21
<1>25. Goal
  BY NextKinds, <1>5, <1>6, <1>7, <1>8, <1>9, <1>10, <1>11, <1>12, <1>13, <1>15, <1>16, <1>17, <1>18,
     <1>19, <1>22, <1>23, <1>24
<1> QED BY <1>25 DEF Goal

-----------------------------------------------------------------------------
(* The whole invariant.                                                    *)

RoomInv == ParentInv /\ StandInv /\ UsesWithinLimit /\ LeaversAreKicked

LEMMA RoomInit == Init => RoomInv
<1> SUFFICES ASSUME Init PROVE RoomInv
  OBVIOUS
<1>1. TypeOK
  BY RoomAssumption, IdleFrame DEF Init, TypeOK
<1>2. IdsMatch /\ AnswersMatch /\ RowsHaveParents
  BY DEF Init, Idle, IdsMatch, AnswersMatch, RowsHaveParents, Exists
<1>3. StandInv
  BY DEF Init, Idle, StandInv, SpareIsFresh, MembersStood, OwnersStood, PublicsRecorded, FramesStood,
         InvitersHadStanding, Exists
<1>4. UsesWithinLimit /\ LeaversAreKicked
  BY DEF Init, UsesWithinLimit, LeaversAreKicked
<1> QED BY <1>1, <1>2, <1>3, <1>4 DEF RoomInv, ParentInv

LEMMA RoomStep == RoomInv /\ [Next]_vars => RoomInv'
<1> SUFFICES ASSUME RoomInv, [Next]_vars PROVE RoomInv'
  OBVIOUS
<1>1. TypeOK /\ IdsMatch /\ AnswersMatch /\ RowsHaveParents /\ StandInv
  BY DEF RoomInv, ParentInv
<1>2. ParentInv'
  BY <1>1, TypeStep, IdsStep, AnswersStep, ParentsStep DEF ParentInv
<1>3. StandInv'
  <2>1. SpareIsFresh' /\ MembersStood'
    BY <1>1, SpareStep, StandingGrows DEF StandInv
  <2> QED BY <1>1, <2>1, RoomsStoodStep, FramesStoodStep, InvitersStep DEF StandInv
<1>4. UsesWithinLimit' /\ LeaversAreKicked'
  BY <1>1, UsesStep, KickedStep DEF RoomInv, StandInv
<1> QED BY <1>2, <1>3, <1>4 DEF RoomInv

LEMMA RoomsInductive == Spec => []RoomInv
  BY RoomInit, RoomStep, PTL DEF Spec

\* The tables, the frames of requests and the calls are well formed.
THEOREM TypeCorrect == Spec => []TypeOK
<1>1. RoomInv => TypeOK
  BY DEF RoomInv, ParentInv
<1> QED BY <1>1, RoomsInductive, PTL

\* However deletions of rooms and accounts interleave with requests that read
\* before them and write after them, no row is left or made without what it
\* belongs to (the foreign keys, and the transaction of an acceptance).
THEOREM ParentsCorrect == Spec => []RowsHaveParents
<1>1. RoomInv => RowsHaveParents
  BY DEF RoomInv, ParentInv
<1> QED BY <1>1, RoomsInductive, PTL

\* An invite code is never used more often than its maxUses.
THEOREM UsesCorrect == Spec => []UsesWithinLimit
<1>1. RoomInv => UsesWithinLimit
  BY DEF RoomInv
<1> QED BY <1>1, RoomsInductive, PTL

\* Whoever's invite there is has been the owner or a member of its room, or the
\* room has been public (POST /invites, POST /rooms/:id/invite-user).
THEOREM InvitersCorrect == Spec => []InvitersHadStanding
<1>1. RoomInv => InvitersHadStanding
  BY DEF RoomInv, StandInv
<1> QED BY <1>1, RoomsInductive, PTL

\* Whoever is removed or leaves while in the call is kicked from it, or LiveKit
\* failed to, or they came back with a token of before (kickParticipant).
THEOREM KicksCorrect == Spec => []LeaversAreKicked
<1>1. RoomInv => LeaversAreKicked
  BY DEF RoomInv
<1> QED BY <1>1, RoomsInductive, PTL

\* Ownership goes to those only who have been in the room, however transfers,
\* departures and removals overlap (POST /rooms/:id/transfer).
THEOREM OwnersCorrect == Spec => OwnersAreNoStrangers
<1>1. RoomInv /\ [Next]_vars =>
        [\A m \in Room : Exists(m) /\ room'[m] # NoRow => room'[m].owner \in standing[m]]_vars
  <2> SUFFICES ASSUME RoomInv, [Next]_vars, NEW m \in Room, Exists(m), room'[m] # NoRow
               PROVE  room'[m].owner \in standing[m]
    OBVIOUS
  <2>1. TypeOK /\ OwnersStood /\ FramesStood /\ SpareIsFresh
    BY DEF RoomInv, ParentInv, StandInv
  <2>2. room[m].owner \in standing[m]
    BY <2>1 DEF OwnersStood
  <2>3. \A u \in User, isPublic \in BOOLEAN : ~CreateRoom(u, m, isPublic)
    BY <2>1 DEF CreateRoom, SpareIsFresh
  <2>4. \A r \in Req : HandOver(r) /\ req[r].room = m => req[r].to \in standing[m]
    BY <2>1 DEF HandOver, At, FramesStood
  <2>5. Exists(m)'
    BY DEF Exists
  <2> QED BY <2>1, <2>2, <2>3, <2>4, <2>5, RoomChanges
<1> QED BY <1>1, RoomsInductive, PTL DEF Spec, OwnersAreNoStrangers
=============================================================================
