------------------------------ MODULE PagesProofs ------------------------------
(***************************************************************************)
(* Proofs about the pages of the desktop client, the picker and the        *)
(* process they run in, and the Friendship table of the server: for any    *)
(* number of users, requests, windows, rooms, sessions and links, and any  *)
(* profile of what goes on.                                                *)
(***************************************************************************)
EXTENDS Friendships, ScreenPicker, Lobby, RoomSettings, FriendsPage, Shell, SequenceTheorems, TLAPS

-----------------------------------------------------------------------------
(* The friendship table is well formed, and the last block of two users    *)
(* holds.  The strengthening: rows have ids of their own, join two users,  *)
(* and the row an acceptance has read is not a block.                      *)

IdsDiffer ==
  /\ \A f \in rows : f.id <= created /\ f.from # f.to
  /\ \A f, g \in rows : f.id = g.id => f = g

CreatesJoinTwo == \A r \in Req : req[r].at = "create" => req[r].from # req[r].to

AcceptsNoBlock ==
  \A r \in Req : req[r].at = "accept" =>
    /\ req[r].id <= created
    /\ \A f \in rows : f.id = req[r].id => f.status # "blocked"

\* LastBlockHolds, row by row.
SamePair(f, g) == {f.from, f.to} = {g.from, g.to}

BlocksAreLast ==
  /\ \A f \in rows : f.status = "blocked" => blocker[{f.from, f.to}] = f.from
  /\ \A f, g \in rows :
       f.status = "blocked" /\ g.status = "blocked" /\ SamePair(f, g) => f = g
  /\ \A p \in Pair : blocker[p] # NoUser =>
       \E f \in rows : f.status = "blocked" /\ {f.from, f.to} = p

RowInv == TypeOK /\ IdsDiffer /\ CreatesJoinTwo /\ AcceptsNoBlock

BlockInv == RowInv /\ BlocksAreLast

-----------------------------------------------------------------------------
(* The steps.                                                              *)

LEMMA NextCases ==
  ASSUME [Next]_vars
  PROVE  \/ \E r \in Req, u, v \in User : RequestCheck(r, u, v)
         \/ \E r \in Req : RequestCreate(r)
         \/ \E r \in Req, f \in rows : AcceptRead(r, f)
         \/ \E r \in Req : AcceptWrite(r)
         \/ \E r \in Req, f \in rows, u \in User : DeleteRead(r, u, f)
         \/ \E r \in Req : DeleteWrite(r)
         \/ \E u, v \in User : Block(u, v)
         \/ \E u, v \in User : RedeemInvite(u, v)
         \/ UNCHANGED vars
  BY DEF Next

LEMMA RowInit == Init => RowInv
<1> SUFFICES ASSUME Init PROVE RowInv
  OBVIOUS
<1>1. TypeOK
  BY FriendshipAssumption DEF Init, TypeOK, Frame, Idle
<1>2. IdsDiffer /\ CreatesJoinTwo /\ AcceptsNoBlock
  BY DEF Init, IdsDiffer, CreatesJoinTwo, AcceptsNoBlock, Idle
<1> QED BY <1>1, <1>2 DEF RowInv

LEMMA RowStep == RowInv /\ [Next]_vars => RowInv'
<1> SUFFICES ASSUME RowInv, [Next]_vars PROVE RowInv'
  OBVIOUS
<1> USE FriendshipAssumption DEF RowInv
<1>1. ASSUME NEW r \in Req, NEW u \in User, NEW v \in User, RequestCheck(r, u, v)
      PROVE  RowInv'
  <2>1. TypeOK'
    BY <1>1 DEF RequestCheck, TypeOK, Frame, Idle, Goto
  <2>2. IdsDiffer' /\ CreatesJoinTwo' /\ AcceptsNoBlock'
    BY <1>1 DEF RequestCheck, IdsDiffer, CreatesJoinTwo, AcceptsNoBlock, TypeOK, Goto
  <2> QED BY <2>1, <2>2
<1>2. ASSUME NEW r \in Req, RequestCreate(r)
      PROVE  RowInv'
  <2> DEFINE n == NewRow(req[r].from, req[r].to, "pending")
  <2>1. /\ req[r].from \in User /\ req[r].to \in User /\ req[r].from # req[r].to
        /\ req' = [req EXCEPT ![r] = Idle] /\ blocker' = blocker
    BY <1>2 DEF RequestCreate, TypeOK, Frame, Idle, Goto, CreatesJoinTwo
  <2>2. \/ rows' = rows /\ created' = created
        \/ created < MaxRow /\ rows' = rows \cup {n} /\ created' = created + 1
    BY <1>2 DEF RequestCreate
  <2>3. /\ n.id = created + 1 /\ n.from = req[r].from /\ n.to = req[r].to
        /\ created < MaxRow => n \in Row
    BY <2>1 DEF NewRow, Row, Status, Id, TypeOK
  <2> HIDE DEF n
  <2>4. TypeOK'
    BY <2>1, <2>2, <2>3 DEF TypeOK, Frame
  <2>5. IdsDiffer'
    BY <2>1, <2>2, <2>3 DEF TypeOK, IdsDiffer, Row, Id
  <2>6. CreatesJoinTwo' /\ AcceptsNoBlock'
    BY <2>1, <2>2, <2>3 DEF TypeOK, CreatesJoinTwo, AcceptsNoBlock, Idle, Frame, Id
  <2> QED BY <2>4, <2>5, <2>6
<1>3. ASSUME NEW r \in Req, NEW f \in rows, AcceptRead(r, f)
      PROVE  RowInv'
  <2>1. f.id \in Id /\ f.id <= created /\ \A g \in rows : g.id = f.id => g = f
    BY DEF IdsDiffer, TypeOK, Row
  <2>2. TypeOK'
    BY <1>3, <2>1 DEF AcceptRead, TypeOK, Frame, Idle, Goto
  <2>3. IdsDiffer' /\ CreatesJoinTwo' /\ AcceptsNoBlock'
    BY <1>3, <2>1 DEF AcceptRead, IdsDiffer, CreatesJoinTwo, AcceptsNoBlock, TypeOK, Goto
  <2> QED BY <2>2, <2>3
<1>4. ASSUME NEW r \in Req, AcceptWrite(r)
      PROVE  RowInv'
  <2> DEFINE new(f) == IF f.id = req[r].id THEN [f EXCEPT !.status = "accepted"] ELSE f
  <2>1. /\ rows' = {new(f) : f \in rows} /\ created' = created /\ blocker' = blocker
        /\ req' = [req EXCEPT ![r] = Idle]
    BY <1>4 DEF AcceptWrite, Goto
  <2>2. \A f \in rows : /\ new(f) \in Row
                        /\ new(f).id = f.id /\ new(f).from = f.from /\ new(f).to = f.to
                        /\ f.status # "blocked" => new(f).status # "blocked"
    BY DEF TypeOK, Row, Status
  <2> HIDE DEF new
  <2>3. TypeOK'
    BY <2>1, <2>2 DEF TypeOK, Frame, Idle
  <2>4. IdsDiffer'
    BY <2>1, <2>2 DEF IdsDiffer
  <2>5. CreatesJoinTwo'
    BY <2>1 DEF CreatesJoinTwo, Idle, TypeOK
  <2>6. AcceptsNoBlock'
    BY <2>1, <2>2 DEF AcceptsNoBlock, Idle, TypeOK
  <2> QED BY <2>3, <2>4, <2>5, <2>6
<1>5. ASSUME NEW r \in Req, NEW f \in rows, NEW u \in User, DeleteRead(r, u, f)
      PROVE  RowInv'
  <2>1. f.id \in Id
    BY DEF TypeOK, Row
  <2>2. TypeOK'
    BY <1>5, <2>1 DEF DeleteRead, TypeOK, Frame, Idle, Goto
  <2>3. IdsDiffer' /\ CreatesJoinTwo' /\ AcceptsNoBlock'
    BY <1>5 DEF DeleteRead, IdsDiffer, CreatesJoinTwo, AcceptsNoBlock, TypeOK, Goto
  <2> QED BY <2>2, <2>3
<1>6. ASSUME NEW r \in Req, DeleteWrite(r)
      PROVE  RowInv'
  <2>1. /\ rows' \subseteq rows /\ created' = created
        /\ req' = [req EXCEPT ![r] = Idle]
    BY <1>6 DEF DeleteWrite, Goto
  <2>2. blocker' \in [Pair -> User \cup {NoUser}]
    BY <1>6 DEF DeleteWrite, BlockedBy, TypeOK
  <2>3. TypeOK'
    BY <2>1, <2>2 DEF TypeOK, Frame, Idle
  <2>4. IdsDiffer' /\ CreatesJoinTwo' /\ AcceptsNoBlock'
    BY <2>1 DEF IdsDiffer, CreatesJoinTwo, AcceptsNoBlock, Idle, TypeOK
  <2> QED BY <2>3, <2>4
<1>7. ASSUME NEW u \in User, NEW v \in User, Block(u, v)
      PROVE  RowInv'
  <2> DEFINE n == NewRow(u, v, "blocked")
  <2>1. /\ u # v /\ created < MaxRow /\ created' = created + 1 /\ req' = req
        /\ rows' \subseteq rows \cup {n}
    BY <1>7 DEF Block
  <2>2. n \in Row /\ n.id = created + 1 /\ n.from = u /\ n.to = v
    BY <2>1 DEF NewRow, Row, Status, Id, TypeOK
  <2>3. blocker' \in [Pair -> User \cup {NoUser}]
    BY <1>7 DEF Block, BlockedBy, TypeOK
  <2>4. TypeOK'
    BY <2>1, <2>2, <2>3 DEF TypeOK
  <2>5. IdsDiffer'
    BY <2>1, <2>2 DEF TypeOK, IdsDiffer, Row, Id
  <2>6. CreatesJoinTwo' /\ AcceptsNoBlock'
    BY <2>1, <2>2 DEF TypeOK, CreatesJoinTwo, AcceptsNoBlock, Frame, Idle, Id
  <2> QED BY <2>4, <2>5, <2>6
<1>8. ASSUME NEW u \in User, NEW v \in User, RedeemInvite(u, v)
      PROVE  RowInv'
  <2>1. req' = req /\ blocker' = blocker /\ u # v
    BY <1>8 DEF RedeemInvite
  <2>2. CASE \E f \in Between(u, v) :
               /\ f.status = "pending"
               /\ rows' = (rows \ {f}) \cup {[f EXCEPT !.status = "accepted"]}
               /\ UNCHANGED created
    <3>0. PICK f \in rows : /\ rows' = (rows \ {f}) \cup {[f EXCEPT !.status = "accepted"]}
                            /\ created' = created
      BY <2>2 DEF Between
    <3> DEFINE g == [f EXCEPT !.status = "accepted"]
    <3>1. rows' = (rows \ {f}) \cup {g} /\ created' = created
      BY <3>0
    <3>2. g \in Row /\ g.id = f.id /\ g.from = f.from /\ g.to = f.to /\ g.status = "accepted"
      BY DEF TypeOK, Row, Status
    <3> HIDE DEF g
    <3>3. TypeOK'
      BY <2>1, <3>1, <3>2 DEF TypeOK
    <3>4. IdsDiffer'
      BY <3>1, <3>2 DEF IdsDiffer
    <3>5. CreatesJoinTwo' /\ AcceptsNoBlock'
      BY <2>1, <3>1, <3>2 DEF CreatesJoinTwo, AcceptsNoBlock
    <3> QED BY <3>3, <3>4, <3>5
  <2>3. CASE /\ created < MaxRow
             /\ rows' = rows \cup {NewRow(v, u, "accepted")}
             /\ created' = created + 1
    <3> DEFINE n == NewRow(v, u, "accepted")
    <3>1. n \in Row /\ n.id = created + 1 /\ n.from = v /\ n.to = u
      BY <2>3 DEF NewRow, Row, Status, Id, TypeOK
    <3>2. TypeOK'
      BY <2>1, <2>3, <3>1 DEF TypeOK
    <3>3. IdsDiffer'
      BY <2>1, <2>3, <3>1 DEF TypeOK, IdsDiffer, Row, Id
    <3>4. CreatesJoinTwo' /\ AcceptsNoBlock'
      BY <2>1, <2>3, <3>1 DEF TypeOK, CreatesJoinTwo, AcceptsNoBlock, Frame, Idle, Id
    <3> QED BY <3>2, <3>3, <3>4
  <2> QED BY <1>8, <2>2, <2>3 DEF RedeemInvite
<1>9. ASSUME UNCHANGED vars PROVE RowInv'
  BY <1>9 DEF vars, TypeOK, IdsDiffer, CreatesJoinTwo, AcceptsNoBlock
<1> QED BY <1>1, <1>2, <1>3, <1>4, <1>5, <1>6, <1>7, <1>8, <1>9, NextCases

\* The table never holds a row of the wrong shape (Friendship in the schema).
THEOREM TypeCorrect == Spec => []TypeOK
<1>1. RowInv => TypeOK
  BY DEF RowInv
<1> QED BY <1>1, RowInit, RowStep, PTL DEF Spec

-----------------------------------------------------------------------------
(* A row is only ever accepted, and only when it is pending.               *)

LEMMA AdvanceStep ==
  ASSUME RowInv, [Next]_vars
  PROVE  \A f \in rows, g \in rows' :
           f.id = g.id => \/ g = f
                          \/ f.status = "pending" /\ g = [f EXCEPT !.status = "accepted"]
<1> USE DEF RowInv
<1> DEFINE Advances(f, g) ==
             \/ g = f
             \/ f.status = "pending" /\ g = [f EXCEPT !.status = "accepted"]
<1> SUFFICES ASSUME NEW f \in rows, NEW g \in rows', f.id = g.id
             PROVE  Advances(f, g)
  OBVIOUS
<1>1. f.id <= created /\ f.id \in Nat /\ created \in Nat
  BY FriendshipAssumption DEF IdsDiffer, TypeOK, Row, Id
<1>2. ASSUME g \in rows PROVE Advances(f, g)
  <2>1. g = f
    BY <1>2 DEF IdsDiffer
  <2> QED BY <2>1
<1>3. ASSUME NEW u, NEW v, NEW s, g = NewRow(u, v, s) PROVE FALSE
  BY <1>1, <1>3 DEF NewRow
<1>4. ASSUME NEW r \in Req, RequestCreate(r) PROVE Advances(f, g)
  <2>1. g \in rows \cup {NewRow(req[r].from, req[r].to, "pending")}
    BY <1>4 DEF RequestCreate
  <2> QED BY <2>1, <1>2, <1>3
<1>5. ASSUME NEW r \in Req, AcceptWrite(r) PROVE Advances(f, g)
  <2>1. PICK h \in rows : g = IF h.id = req[r].id THEN [h EXCEPT !.status = "accepted"] ELSE h
    BY <1>5 DEF AcceptWrite
  <2>2. CASE h.id = req[r].id
    <3>1. g = [h EXCEPT !.status = "accepted"] /\ h \in Row
      BY <2>1, <2>2 DEF TypeOK
    <3>2. h = f
      BY <3>1 DEF Row, IdsDiffer
    <3>3. h.status # "blocked"
      BY <1>5, <2>2 DEF AcceptWrite, AcceptsNoBlock
    <3>4. CASE h.status = "accepted"
      BY <3>1, <3>2, <3>4 DEF Row
    <3> QED BY <3>1, <3>2, <3>3, <3>4 DEF Row, Status
  <2>3. CASE h.id # req[r].id
    BY <2>1, <2>3, <1>2
  <2> QED BY <2>2, <2>3
<1>6. ASSUME NEW u \in User, NEW v \in User, Block(u, v) PROVE Advances(f, g)
  <2>1. g \in rows \cup {NewRow(u, v, "blocked")}
    BY <1>6 DEF Block
  <2> QED BY <2>1, <1>2, <1>3
<1>7. ASSUME NEW u \in User, NEW v \in User, RedeemInvite(u, v) PROVE Advances(f, g)
  <2>1. \/ \E h \in rows : h.status = "pending" /\ g \in rows \cup {[h EXCEPT !.status = "accepted"]}
        \/ g \in rows \cup {NewRow(v, u, "accepted")}
    BY <1>7 DEF RedeemInvite, Between
  <2>2. ASSUME NEW h \in rows, h.status = "pending", g = [h EXCEPT !.status = "accepted"]
        PROVE  Advances(f, g)
    <3>1. h \in Row
      BY DEF TypeOK
    <3>2. h = f
      BY <2>2, <3>1 DEF Row, IdsDiffer
    <3> QED BY <2>2, <3>2
  <2> QED BY <2>1, <2>2, <1>2, <1>3
<1>8. ASSUME rows' \subseteq rows PROVE Advances(f, g)
  BY <1>8, <1>2
<1>9. ASSUME NEW r \in Req, DeleteWrite(r) PROVE rows' \subseteq rows
  BY <1>9 DEF DeleteWrite
<1> QED
  BY NextCases, <1>4, <1>5, <1>6, <1>7, <1>8, <1>9
  DEF RequestCheck, AcceptRead, DeleteRead, vars

\* An acceptance or a redemption that is under way while the row it read is
\* replaced never turns the block that replaced it into a friendship.
THEOREM AdvanceCorrect == Spec => RowsOnlyAdvance
<1>1. RowInv /\ [Next]_vars =>
        [\A f \in rows, g \in rows' :
           f.id = g.id => \/ g = f
                          \/ f.status = "pending" /\ g = [f EXCEPT !.status = "accepted"]]_vars
  BY AdvanceStep
<1> QED BY <1>1, RowInit, RowStep, PTL DEF Spec, RowsOnlyAdvance

-----------------------------------------------------------------------------
(* The last block of two users holds.                                      *)

LEMMA BlocksAreLastStep ==
  BlocksAreLast /\ RowInv /\ RowInv' /\ [Next]_vars => BlocksAreLast'
<1> SUFFICES ASSUME BlocksAreLast, RowInv, RowInv', [Next]_vars PROVE BlocksAreLast'
  OBVIOUS
<1> USE DEF RowInv
<1> DEFINE Blocks == {f \in rows : f.status = "blocked"}
<1>1. ASSUME {f \in rows' : f.status = "blocked"} = Blocks, blocker' = blocker
      PROVE  BlocksAreLast'
  BY <1>1 DEF BlocksAreLast, SamePair
<1>2. ASSUME NEW f, f.status # "blocked", rows' = rows \cup {f}, blocker' = blocker
      PROVE  BlocksAreLast'
  BY <1>1, <1>2
<1>3. ASSUME NEW r \in Req, RequestCreate(r) PROVE BlocksAreLast'
  <2>1. NewRow(req[r].from, req[r].to, "pending").status # "blocked"
    BY DEF NewRow
  <2> QED BY <1>1, <1>2, <1>3, <2>1 DEF RequestCreate
<1>4. ASSUME NEW r \in Req, AcceptWrite(r) PROVE BlocksAreLast'
  <2> DEFINE new(f) == IF f.id = req[r].id THEN [f EXCEPT !.status = "accepted"] ELSE f
  <2>1. rows' = {new(f) : f \in rows} /\ blocker' = blocker
    BY <1>4 DEF AcceptWrite
  <2>2. \A f \in rows : f.status = "blocked" => new(f) = f
    BY <1>4 DEF AcceptWrite, AcceptsNoBlock
  <2>3. \A f \in rows : new(f).status = "blocked" => new(f) = f
    BY DEF TypeOK, Row
  <2> HIDE DEF new
  <2> QED BY <1>1, <2>1, <2>2, <2>3
<1>5. ASSUME NEW r \in Req, DeleteWrite(r) PROVE BlocksAreLast'
  <2>1. rows' = {f \in rows : f.id # req[r].id}
    BY <1>5 DEF DeleteWrite
  <2>2. CASE \A f \in rows : f.id = req[r].id => f.status # "blocked"
    <3>1. blocker' = blocker
      BY <1>5, <2>2 DEF DeleteWrite
    <3> QED BY <1>1, <2>1, <2>2, <3>1
  <2>3. CASE \E f \in rows : f.id = req[r].id /\ f.status = "blocked"
    <3>1. PICK f \in rows : /\ f.id = req[r].id /\ f.status = "blocked"
                            /\ blocker' = [blocker EXCEPT ![{f.from, f.to}] = NoUser]
      BY <1>5, <2>3 DEF DeleteWrite, BlockedBy
    <3>2. rows' = rows \ {f}
      BY <2>1, <3>1 DEF IdsDiffer
    <3>3. \A g \in rows' : g.status = "blocked" => {g.from, g.to} # {f.from, f.to}
      BY <3>1, <3>2 DEF BlocksAreLast, SamePair
    <3>4. blocker \in [Pair -> User \cup {NoUser}] /\ {f.from, f.to} \in Pair
      BY DEF TypeOK, Row, Pair
    <3>5. \A g \in rows' : g.status = "blocked" => blocker'[{g.from, g.to}] = g.from
      <4> SUFFICES ASSUME NEW g \in rows', g.status = "blocked"
                   PROVE  blocker'[{g.from, g.to}] = g.from
        OBVIOUS
      <4>1. {g.from, g.to} \in Pair /\ blocker[{g.from, g.to}] = g.from
        BY <3>2 DEF BlocksAreLast, TypeOK, Row, Pair
      <4> QED BY <3>1, <3>3, <3>4, <4>1
    <3>6. \A g, h \in rows' :
            g.status = "blocked" /\ h.status = "blocked" /\ SamePair(g, h) => g = h
      BY <3>2 DEF BlocksAreLast
    <3>7. \A p \in Pair : blocker'[p] # NoUser =>
            \E g \in rows' : g.status = "blocked" /\ {g.from, g.to} = p
      BY <3>1, <3>2, <3>4 DEF BlocksAreLast
    <3> QED BY <3>5, <3>6, <3>7 DEF BlocksAreLast, SamePair
  <2> QED BY <2>2, <2>3
<1>6. ASSUME NEW u \in User, NEW v \in User, Block(u, v) PROVE BlocksAreLast'
  <2> DEFINE n == NewRow(u, v, "blocked")
  <2>1. /\ rows' = (rows \ Between(u, v)) \cup {n}
        /\ blocker' = [blocker EXCEPT ![{u, v}] = u]
    BY <1>6 DEF Block, BlockedBy
  <2>2. n.from = u /\ n.to = v /\ n.status = "blocked"
    BY DEF NewRow
  <2> HIDE DEF n
  <2>3. blocker \in [Pair -> User \cup {NoUser}] /\ {u, v} \in Pair
    BY DEF TypeOK, Pair
  <2>4. \A g \in rows' : g = n \/ (g \in rows /\ {g.from, g.to} # {u, v})
    BY <2>1 DEF Between
  <2>5. \A g \in rows' : g.status = "blocked" => blocker'[{g.from, g.to}] = g.from
    <3> SUFFICES ASSUME NEW g \in rows', g.status = "blocked"
                 PROVE  blocker'[{g.from, g.to}] = g.from
      OBVIOUS
    <3>1. CASE g = n
      BY <2>1, <2>2, <2>3, <3>1
    <3>2. CASE g \in rows /\ {g.from, g.to} # {u, v}
      <4>1. {g.from, g.to} \in Pair /\ blocker[{g.from, g.to}] = g.from
        BY <3>2 DEF BlocksAreLast, TypeOK, Row, Pair
      <4> QED BY <2>1, <2>3, <3>2, <4>1
    <3> QED BY <2>4, <3>1, <3>2
  <2>6. \A g, h \in rows' :
          g.status = "blocked" /\ h.status = "blocked" /\ SamePair(g, h) => g = h
    BY <2>2, <2>4 DEF BlocksAreLast, SamePair
  <2>7. \A p \in Pair : blocker'[p] # NoUser =>
          \E g \in rows' : g.status = "blocked" /\ {g.from, g.to} = p
    <3> SUFFICES ASSUME NEW p \in Pair, blocker'[p] # NoUser
                 PROVE  \E g \in rows' : g.status = "blocked" /\ {g.from, g.to} = p
      OBVIOUS
    <3>1. CASE p = {u, v}
      BY <2>1, <2>2, <3>1
    <3>2. CASE p # {u, v}
      <4>1. PICK g \in rows : g.status = "blocked" /\ {g.from, g.to} = p
        BY <2>1, <2>3, <3>2 DEF BlocksAreLast
      <4>2. g \in rows'
        BY <2>1, <3>2, <4>1 DEF Between
      <4> QED BY <4>1, <4>2
    <3> QED BY <3>1, <3>2
  <2> QED BY <2>5, <2>6, <2>7 DEF BlocksAreLast, SamePair
<1>7. ASSUME NEW u \in User, NEW v \in User, RedeemInvite(u, v) PROVE BlocksAreLast'
  <2>1. blocker' = blocker
    BY <1>7 DEF RedeemInvite
  <2>2. ASSUME NEW f \in rows, f.status = "pending",
               rows' = (rows \ {f}) \cup {[f EXCEPT !.status = "accepted"]}
        PROVE  BlocksAreLast'
    <3>1. [f EXCEPT !.status = "accepted"].status = "accepted"
      BY DEF TypeOK, Row
    <3> QED BY <1>1, <2>1, <2>2, <3>1
  <2>3. ASSUME rows' = rows \cup {NewRow(v, u, "accepted")} PROVE BlocksAreLast'
    <3>1. NewRow(v, u, "accepted").status # "blocked"
      BY DEF NewRow
    <3> QED BY <1>2, <2>1, <2>3, <3>1
  <2> QED BY <1>7, <2>2, <2>3 DEF RedeemInvite, Between
<1>8. ASSUME rows' = rows, blocker' = blocker PROVE BlocksAreLast'
  BY <1>1, <1>8
<1> QED
  BY NextCases, <1>3, <1>4, <1>5, <1>6, <1>7, <1>8
  DEF RequestCheck, AcceptRead, DeleteRead, vars

LEMMA BlocksImply == BlockInv => LastBlockHolds
<1> SUFFICES ASSUME BlockInv, NEW u \in User, NEW v \in User
             PROVE  LET blocks == {f \in Between(u, v) : f.status = "blocked"}
                    IN  IF blocker[{u, v}] = NoUser
                        THEN blocks = {}
                        ELSE \E f \in blocks : blocks = {f} /\ f.from = blocker[{u, v}]
  BY DEF LastBlockHolds
<1> DEFINE blocks == {f \in Between(u, v) : f.status = "blocked"}
<1>1. \A f \in blocks : f \in rows /\ f.from \in User /\ blocker[{u, v}] = f.from
  BY DEF BlockInv, RowInv, BlocksAreLast, Between, TypeOK, Row
<1>2. CASE blocker[{u, v}] = NoUser
  BY <1>1, <1>2, FriendshipAssumption
<1>3. CASE blocker[{u, v}] # NoUser
  <2>0. {u, v} \in Pair
    BY DEF Pair
  <2>1. PICK f \in rows : f.status = "blocked" /\ {f.from, f.to} = {u, v}
    BY <1>3, <2>0 DEF BlockInv, BlocksAreLast
  <2>2. f \in blocks
    BY <2>1 DEF Between
  <2>3. \A g \in blocks : g = f
    BY <2>1 DEF BlockInv, BlocksAreLast, Between, SamePair
  <2> QED BY <1>1, <1>3, <2>2, <2>3
<1> QED BY <1>2, <1>3

\* A block holds until the user who made it takes it back, whatever requests,
\* acceptances and redemptions were under way when it was made.
THEOREM BlockCorrect == Spec => []LastBlockHolds
<1>1. Init => BlockInv
  <2>1. Init => BlocksAreLast
    BY DEF Init, BlocksAreLast
  <2> QED BY <2>1, RowInit DEF BlockInv
<1>2. BlockInv /\ [Next]_vars => BlockInv'
  BY RowStep, BlocksAreLastStep DEF BlockInv
<1> QED BY <1>1, <1>2, BlocksImply, PTL DEF Spec

-----------------------------------------------------------------------------
(* The picker.  Unless a request came while a window was loading: a request*)
(* that waits is the pending one, none waits while a window loads, and one *)
(* window loads at a time.  At all times a window that loads has its       *)
(* request, and the one the variable names is not gone.                    *)

OneWaits == \A r \in Request : request[r] = "waiting" => pendingPick = r

LoadsAlone ==
  \A w \in In("loading") : /\ \A r \in Request : request[r] # "waiting"
                           /\ \A v \in In("loading") : v = w

WaitsAtWindow ==
  \A r \in Request : request[r] = "waiting" => In("open") \cup In("closing") # {}

WindowIsThere ==
  /\ \A w \in In("loading") : window[w].for \in Request
  /\ pickerWindow # Nothing => window[pickerWindow].state \in {"loading", "open", "closing"}

PickerInv ==
  PickerTypeOK /\ WindowIsThere /\ (~rushed => OneWaits /\ LoadsAlone /\ WaitsAtWindow)

LEMMA PickerInitially == PickerInit => PickerInv
<1> SUFFICES ASSUME PickerInit PROVE PickerInv
  OBVIOUS
<1>1. PickerTypeOK
  BY DEF PickerInit, PickerTypeOK, RequestState, WindowState
<1>2. WindowIsThere /\ OneWaits /\ LoadsAlone /\ WaitsAtWindow
  BY DEF PickerInit, WindowIsThere, OneWaits, LoadsAlone, WaitsAtWindow, In
<1> QED BY <1>1, <1>2 DEF PickerInv

\* A table of requests of which some that waited were settled.
Settles(f, g) ==
  g \in [Request -> RequestState] /\ \A r \in Request : g[r] = "waiting" => f[r] = "waiting"

LEMMA ResolvedSettles ==
  ASSUME PickerTypeOK, NEW answer \in RequestState \ {"waiting"}
  PROVE  /\ Settles(request, Resolved(request, answer))
         /\ OneWaits => \A r \in Request : Resolved(request, answer)[r] # "waiting"
  BY PickerAssumption DEF PickerTypeOK, Settles, Resolved, OneWaits, RequestState

LEMMA DeniedSettles ==
  ASSUME PickerTypeOK, NEW f \in [Request -> RequestState], NEW w \in PickerWindow
  PROVE  Settles(f, Denied(f, w))
  BY DEF PickerTypeOK, Settles, Denied, RequestState

LEMMA PickerStep == PickerInv /\ [PickerNext]_pickerVars => PickerInv'
<1> SUFFICES ASSUME PickerInv, [PickerNext]_pickerVars PROVE PickerInv'
  OBVIOUS
<1> USE PickerAssumption DEF PickerInv
<1>0. ASSUME NEW w \in PickerWindow, NEW s \in WindowState,
             window' = [window EXCEPT ![w].state = s]
      PROVE  /\ window' \in [PickerWindow -> [state : WindowState, for : Request \cup {Nothing}]]
             /\ window'[w].state = s /\ window'[w].for = window[w].for
             /\ \A v \in PickerWindow \ {w} : window'[v] = window[v]
  BY <1>0 DEF PickerTypeOK
<1>1. ASSUME NEW r \in Request, OpenScreenPicker(r) PROVE PickerInv'
  <2> DEFINE refused == Resolved(request, "denied")
  <2>1. Settles(request, refused) /\ (OneWaits => \A q \in Request : refused[q] # "waiting")
    BY ResolvedSettles DEF RequestState
  <2>2. ~rushed' => ~rushed /\ In("loading") = {}
    BY <1>1 DEF OpenScreenPicker
  <2>3. CASE pickerWindow # Nothing
    <3>1. /\ request' = [refused EXCEPT ![r] = "waiting"] /\ pendingPick' = r
          /\ window' = window /\ pickerWindow' = pickerWindow /\ rushed' \in BOOLEAN
      BY <1>1, <2>3 DEF OpenScreenPicker, PickerTypeOK
    <3> HIDE DEF refused
    <3>2. PickerTypeOK' /\ WindowIsThere'
      BY <2>1, <3>1 DEF PickerTypeOK, WindowIsThere, In, Settles, RequestState
    <3>3. ~rushed' => OneWaits' /\ LoadsAlone'
      BY <2>1, <2>2, <3>1 DEF OneWaits, LoadsAlone, In, Settles
    <3>4. ~rushed' => pickerWindow \in In("open") \cup In("closing")
      BY <2>2, <2>3 DEF WindowIsThere, In, PickerTypeOK
    <3> QED BY <3>1, <3>2, <3>3, <3>4 DEF WaitsAtWindow, In
  <2>4. CASE pickerWindow = Nothing
    <3>1. PICK w \in In("none") :
            /\ request' = [refused EXCEPT ![r] = "loading"] /\ pendingPick' = Nothing
            /\ window' = [window EXCEPT ![w] = [state |-> "loading", for |-> r]]
            /\ pickerWindow' = w /\ rushed' \in BOOLEAN
      BY <1>1, <2>4 DEF OpenScreenPicker, PickerTypeOK
    <3> HIDE DEF refused
    <3>2. w \in PickerWindow
      BY DEF In
    <3>3. PickerTypeOK'
      BY <2>1, <3>1, <3>2 DEF PickerTypeOK, Settles, RequestState, WindowState
    <3>4. WindowIsThere'
      BY <3>1, <3>2 DEF WindowIsThere, In, PickerTypeOK
    <3>5. ~rushed' => \A q \in Request : request'[q] # "waiting"
      BY <2>1, <2>2, <3>1 DEF Settles
    <3>6. ~rushed' => \A v \in In("loading")' : v = w
      BY <2>2, <3>1, <3>2 DEF In, PickerTypeOK
    <3> QED BY <3>3, <3>4, <3>5, <3>6 DEF OneWaits, LoadsAlone, WaitsAtWindow
  <2> QED BY <2>3, <2>4
<1>2. ASSUME NEW r \in Request, SourcesListed(r) PROVE PickerInv'
  <2>1. PICK answer \in {"shared", "denied"} : request' = [request EXCEPT ![r] = answer]
    BY <1>2 DEF SourcesListed
  <2>2. UNCHANGED <<window, pendingPick, pickerWindow, rushed>>
    BY <1>2 DEF SourcesListed
  <2>3. PickerTypeOK' /\ Settles(request, request')
    BY <2>1, <2>2 DEF PickerTypeOK, Settles, RequestState
  <2> QED
    BY <2>2, <2>3 DEF WindowIsThere, OneWaits, LoadsAlone, WaitsAtWindow, In, Settles
<1>3. ASSUME NEW w \in PickerWindow, PickerLoaded(w) PROVE PickerInv'
  <2> DEFINE r == window[w].for
  <2>1. r \in Request /\ w \in In("loading")
    BY <1>3 DEF PickerLoaded, WindowIsThere, In
  <2>2. /\ request' = [request EXCEPT ![r] = "waiting"] /\ pendingPick' = r
        /\ window' = [window EXCEPT ![w].state = "open"]
        /\ pickerWindow' = pickerWindow /\ rushed' = rushed
    BY <1>3 DEF PickerLoaded
  <2>3. PickerTypeOK'
    BY <1>0, <2>1, <2>2 DEF PickerTypeOK, RequestState, WindowState
  <2>4. WindowIsThere' /\ w \in In("open")'
    BY <1>0, <2>2 DEF WindowIsThere, In, WindowState, PickerTypeOK
  <2>5. ~rushed => OneWaits' /\ LoadsAlone'
    BY <1>0, <2>1, <2>2 DEF OneWaits, LoadsAlone, In, PickerTypeOK, WindowState
  <2> QED BY <2>2, <2>3, <2>4, <2>5 DEF WaitsAtWindow
<1>4. ASSUME NEW w \in PickerWindow, NEW s \in {"open", "closing"}, NEW f,
             Settles(request, f), request' = f, window' = [window EXCEPT ![w].state = s],
             window[w].state \in {"loading", "open"},
             UNCHANGED <<pendingPick, pickerWindow, rushed>>
      PROVE  PickerInv'
  <2>1. PickerTypeOK'
    BY <1>0, <1>4 DEF PickerTypeOK, WindowState, Settles
  <2>2. WindowIsThere' /\ w \in In("open")' \cup In("closing")'
    BY <1>0, <1>4 DEF WindowIsThere, In, WindowState, PickerTypeOK
  <2>3. ~rushed => OneWaits' /\ LoadsAlone'
    BY <1>0, <1>4 DEF OneWaits, LoadsAlone, In, Settles, WindowState, PickerTypeOK
  <2> QED BY <1>4, <2>1, <2>2, <2>3 DEF WaitsAtWindow
<1>5. ASSUME NEW w \in PickerWindow, PickerFails(w) PROVE PickerInv'
  <2>1. Settles(request, [request EXCEPT ![window[w].for] = "denied"])
    BY DEF Settles, PickerTypeOK, RequestState
  <2> QED BY <1>4, <1>5, <2>1 DEF PickerFails
<1>6. ASSUME NEW w \in PickerWindow, ClosePicker(w) PROVE PickerInv'
  <2>1. Settles(request, Denied(request, w))
    BY DeniedSettles DEF PickerTypeOK
  <2> QED BY <1>4, <1>6, <2>1 DEF ClosePicker
<1>7. ASSUME NEW w \in PickerWindow, PickerClosed(w) PROVE PickerInv'
  <2>1. /\ request' = Resolved(request, "denied") /\ pendingPick' = Nothing
        /\ window' = [window EXCEPT ![w].state = "closed"]
        /\ pickerWindow' = Nothing /\ rushed' = rushed /\ window[w].state = "closing"
    BY <1>7 DEF PickerClosed
  <2>2. Settles(request, request') /\ (OneWaits => \A q \in Request : request'[q] # "waiting")
    BY <2>1, ResolvedSettles DEF RequestState
  <2>3. PickerTypeOK' /\ WindowIsThere'
    BY <1>0, <2>1, <2>2 DEF PickerTypeOK, WindowIsThere, In, Settles, WindowState
  <2>4. ~rushed => \A v \in In("loading")', u \in In("loading")' : v = u
    BY <1>0, <2>1 DEF LoadsAlone, In, WindowState, PickerTypeOK
  <2> QED BY <2>1, <2>2, <2>3, <2>4 DEF OneWaits, LoadsAlone, WaitsAtWindow
<1>8. ASSUME NEW w \in PickerWindow, NEW answer \in {"picked", "denied"}, PickerAnswered(w, answer)
      PROVE  PickerInv'
  <2> DEFINE settled == Resolved(request, answer)
  <2>1. Settles(request, settled) /\ (OneWaits => \A q \in Request : settled[q] # "waiting")
    BY ResolvedSettles DEF RequestState
  <2>2. pendingPick' = Nothing /\ pickerWindow' = Nothing /\ rushed' = rushed
    BY <1>8 DEF PickerAnswered
  <2>3. /\ Settles(settled, request')
        /\ window' = window \/ (pickerWindow \in PickerWindow /\
                                window' = [window EXCEPT ![pickerWindow].state = "closing"])
    <3>1. CASE pickerWindow = Nothing
      BY <1>8, <2>1, <3>1 DEF PickerAnswered, Settles
    <3>2. CASE pickerWindow # Nothing
      <4>1. pickerWindow \in PickerWindow /\ settled \in [Request -> RequestState]
        BY <2>1, <3>2 DEF PickerTypeOK, Settles
      <4>2. Settles(settled, Denied(settled, pickerWindow))
        BY <4>1, DeniedSettles
      <4> QED BY <1>8, <3>2, <4>1, <4>2 DEF PickerAnswered
    <3> QED BY <3>1, <3>2
  <2>4. /\ window' \in [PickerWindow -> [state : WindowState, for : Request \cup {Nothing}]]
        /\ \A v \in In("loading")' : v \in In("loading") /\ window'[v].for = window[v].for
    BY <1>0, <2>3 DEF WindowState, In, PickerTypeOK
  <2> HIDE DEF settled
  <2>5. PickerTypeOK' /\ WindowIsThere'
    BY <2>1, <2>2, <2>3, <2>4 DEF PickerTypeOK, WindowIsThere, Settles
  <2>6. ~rushed => \A q \in Request : request'[q] # "waiting"
    BY <2>1, <2>3 DEF Settles
  <2> QED BY <2>2, <2>4, <2>5, <2>6 DEF OneWaits, LoadsAlone, WaitsAtWindow
<1>9. ASSUME UNCHANGED pickerVars PROVE PickerInv'
  BY <1>9 DEF pickerVars, PickerTypeOK, WindowIsThere, OneWaits, LoadsAlone, WaitsAtWindow, In
<1> QED
  BY <1>1, <1>2, <1>3, <1>5, <1>6, <1>7, <1>8, <1>9 DEF PickerNext

\* No request of getDisplayMedia hangs: unless one came while a window was
\* loading, the one that waits is the pending one, at a window whose answer or
\* end settles it (openScreenPicker).
THEOREM PicksCorrect == PickerInit /\ [][PickerNext]_pickerVars => []WaitingIsAnswerable
<1>1. PickerInv => WaitingIsAnswerable
  BY DEF PickerInv, WaitingIsAnswerable, OneWaits, WaitsAtWindow
<1> QED BY <1>1, PickerInitially, PickerStep, PTL

-----------------------------------------------------------------------------
(* Links.  A link is in one place at a time: unopened, on the command line *)
(* of a process whose window is not up, kept by main, or on the wire; and  *)
(* it was not acted on before it has left the wire.                        *)

OnWire == [to : {"all", "router", "lobby", "nobody"}, link : DeepLink]

LinksTyped ==
  /\ acted \in [DeepLink -> Nat] /\ pending \in DeepLink \cup {NoLink}
  /\ claims \in Seq({"router", "lobby", "nobody"})
  /\ wire \in Seq(OnWire)

OffWire(l) == \A i \in DOMAIN wire : wire[i].link # l
Starting == life \in {"starting", "opening"}

UnsentIsNowhere == \A l \in unsent : argv # l /\ pending # l /\ OffWire(l) /\ acted[l] = 0
ArgvIsAhead == Starting /\ argv # NoLink => pending # argv /\ OffWire(argv) /\ acted[argv] = 0
PendingIsAhead == pending # NoLink => OffWire(pending) /\ acted[pending] = 0
WireIsAhead ==
  \A i \in DOMAIN wire : /\ acted[wire[i].link] = 0
                         /\ \A j \in DOMAIN wire : wire[i].link = wire[j].link => i = j

LinkInv ==
  /\ LinksTyped /\ argv \in DeepLink \cup {NoLink} /\ unsent \subseteq DeepLink
  /\ UnsentIsNowhere /\ ArgvIsAhead /\ PendingIsAhead /\ WireIsAhead /\ LinksActOnce

LEMMA LinksInitially == ShellInit => LinkInv
<1> SUFFICES ASSUME ShellInit PROVE LinkInv
  OBVIOUS
<1>1. setup.links \subseteq DeepLink
  BY ShellAssumption DEF ShellInit, ShellProfile
<1> QED
  BY <1>1, ShellAssumption DEF ShellInit, LinkInv, LinksTyped, OffWire, Starting, UnsentIsNowhere, ArgvIsAhead,
              PendingIsAhead, WireIsAhead, LinksActOnce

\* The links on the wire are as they were, or those of w, or none.
SameLinks(w) == DOMAIN wire' = DOMAIN w /\ \A i \in DOMAIN w : wire'[i].link = w[i].link

\* A step that opens no link and moves none; it may lose what main kept, what
\* is on the wire, and the memory of what was done.
LinksRest ==
  /\ LinksTyped' /\ argv' = argv /\ unsent' = unsent /\ (Starting' => Starting)
  /\ pending' \in {pending, NoLink} /\ (SameLinks(wire) \/ wire' = <<>>)
  /\ \/ acted' = acted
     \/ acted' = [l \in DeepLink |-> 0]

LEMMA EmptyDomain == DOMAIN << >> = {}
  BY EmptySeq, LenProperties

LEMMA WireHolds ==
  ASSUME NEW w \in Seq(OnWire)
  PROVE  /\ Len(w) \in Nat /\ DOMAIN w = 1 .. Len(w)
         /\ \A i \in DOMAIN w : w[i] \in OnWire /\ w[i].link \in DeepLink
<1>1. Len(w) \in Nat /\ DOMAIN w = 1 .. Len(w)
  BY LenProperties
<1>2. \A i \in DOMAIN w : w[i] \in OnWire
  BY <1>1, ElementOfSeq
<1> QED BY <1>1, <1>2 DEF OnWire

LEMMA LinksRestStep == LinkInv /\ LinksRest => LinkInv'
<1> SUFFICES ASSUME LinkInv, LinksRest PROVE LinkInv'
  OBVIOUS
<1> USE ShellAssumption DEF LinkInv, LinksRest
<1>1. /\ acted \in [DeepLink -> Nat] /\ acted' \in [DeepLink -> Nat]
      /\ \A l \in DeepLink : acted'[l] = acted[l] \/ acted'[l] = 0
  BY DEF LinksTyped
<1>2. /\ DOMAIN wire' \subseteq DOMAIN wire
      /\ \A i \in DOMAIN wire' : wire'[i].link = wire[i].link /\ wire[i].link \in DeepLink
  <2>1. CASE wire' = <<>>
    <3>1. DOMAIN wire' = {}
      BY <2>1, EmptyDomain
    <3> QED BY <3>1
  <2>2. CASE SameLinks(wire)
    <3>1. \A i \in DOMAIN wire : wire[i].link \in DeepLink
      BY WireHolds DEF LinksTyped
    <3> QED BY <2>2, <3>1 DEF SameLinks
  <2> QED BY <2>1, <2>2
<1>3. UnsentIsNowhere'
  BY <1>1, <1>2 DEF UnsentIsNowhere, OffWire
<1>4. ArgvIsAhead'
  BY <1>1, <1>2 DEF ArgvIsAhead, OffWire
<1>5. PendingIsAhead'
  BY <1>1, <1>2 DEF PendingIsAhead, OffWire, LinksTyped
<1>6. WireIsAhead'
  BY <1>1, <1>2 DEF WireIsAhead
<1>7. LinksActOnce'
  BY <1>1 DEF LinksActOnce
<1> QED BY <1>3, <1>4, <1>5, <1>6, <1>7

\* Steps of the updater, of the offers and of the window.
LEMMA ProcessStep ==
  ASSUME LinkInv,
         \/ CheckAnswered \/ CheckFails \/ Downloaded \/ TimeUp \/ Recheck
         \/ Release \/ RaiseFloor \/ PackageUpdate \/ Poll \/ (\E for \in {"later", "off"} : DismissPrompt(for))
         \/ InviteDone \/ ReadyToShow \/ Reveal \/ Unresponsive \/ Responsive \/ Activate
         \/ UNCHANGED shellVars
  PROVE  LinksRest
<1>1. CASE CheckAnswered \/ CheckFails \/ Downloaded \/ TimeUp \/ Recheck
  <2>1. \A up, o : Settle(up, o) => (Starting' => Starting)
    BY DEF Settle, Starting
  <2>2. UpdaterStep /\ (Starting' => Starting)
    BY <1>1, <2>1 DEF CheckAnswered, CheckFails, Downloaded, TimeUp, Recheck, Starting
  <2> QED BY <2>2 DEF UpdaterStep, renderer, LinksRest, SameLinks, LinkInv, LinksTyped
<1>2. CASE Release \/ RaiseFloor \/ PackageUpdate \/ Poll \/ \E for \in {"later", "off"} : DismissPrompt(for)
  <2>1. UNCHANGED <<process, renderer, unsent, acted>>
    BY <1>2 DEF Release, RaiseFloor, PackageUpdate, Poll, DismissPrompt, history
  <2> QED BY <2>1 DEF process, renderer, LinksRest, SameLinks, LinkInv, LinksTyped, Starting
<1>3. CASE InviteDone \/ ReadyToShow \/ Reveal \/ Unresponsive \/ Responsive \/ Activate
  <2>1. UNCHANGED <<life, argv, pending, claims, wire, unsent, acted>>
    BY <1>3 DEF InviteDone, ReadyToShow, Reveal, Unresponsive, Responsive, Activate, WindowStep, process, renderer
  <2> QED BY <2>1 DEF LinksRest, SameLinks, LinkInv, LinksTyped, Starting
<1>4. CASE UNCHANGED shellVars
  BY <1>4 DEF shellVars, process, renderer, history, LinksRest, SameLinks, LinkInv, LinksTyped, Starting
<1> QED BY <1>1, <1>2, <1>3, <1>4

\* Steps of Router and the lobby, that ask for links and mount anew.
LEMMA MountStep ==
  ASSUME LinkInv,
         \/ Boot \/ Hydrate \/ (\E s \in {"in", "out"} : SignedIn(s)) \/ SignIn \/ SignOut \/ GoPage
  PROVE  LinksRest
<1> DEFINE Who == {"router", "lobby", "nobody"}
<1>1. UNCHANGED <<life, argv, pending, unsent, acted>>
  BY DEF Boot, Hydrate, SignedIn, SignIn, SignOut, GoPage, process, history
<1>2. claims \in Seq(Who) /\ wire \in Seq(OnWire)
  BY DEF LinkInv, LinksTyped
<1>3. \A a : Subscribers(a) \in Seq(Who)
  <2>1. <<"lobby", "router">> \in Seq(Who) /\ <<"router">> \in Seq(Who)
    OBVIOUS
  <2> QED BY <2>1 DEF Subscribers
<1>4. ASSUME NEW status, Remount(status)
      PROVE  claims' \in Seq(Who) /\ wire' \in Seq(OnWire) /\ SameLinks(wire)
  <2>1. PICK a : /\ claims' = [i \in DOMAIN claims |-> "nobody"] \o Subscribers(a)
                 /\ wire' = [i \in DOMAIN wire |-> IF wire[i].to = "all" THEN wire[i]
                                                   ELSE [wire[i] EXCEPT !.to = "nobody"]]
    BY <1>4 DEF Remount
  <2>2. [i \in DOMAIN claims |-> "nobody"] \in Seq(Who)
    BY <1>2, LenProperties, IsASeq
  <2>3. claims' \in Seq(Who)
    BY <1>3, <2>1, <2>2, ConcatProperties
  <2>4. \A i \in DOMAIN wire : wire'[i] \in OnWire /\ wire'[i].link = wire[i].link
    <3>1. \A m \in OnWire : /\ [m EXCEPT !.to = "nobody"] \in OnWire
                             /\ [m EXCEPT !.to = "nobody"].link = m.link
      BY DEF OnWire
    <3>2. \A i \in DOMAIN wire : wire[i] \in OnWire
      BY <1>2, WireHolds
    <3> QED BY <2>1, <3>1, <3>2
  <2>5. DOMAIN wire' = 1 .. Len(wire) /\ Len(wire) \in Nat
    BY <1>2, <2>1, WireHolds
  <2>6. wire' \in Seq(OnWire)
    BY <1>2, <2>1, <2>4, <2>5, WireHolds, IsASeq
  <2> QED BY <1>2, <2>3, <2>4, <2>5, <2>6, WireHolds DEF SameLinks
<1>5. CASE \E status : Remount(status)
  BY <1>1, <1>4, <1>5 DEF LinksRest, LinkInv, LinksTyped, Starting
<1>6. CASE wire' = wire /\ (claims' = claims \/ \E x \in Who : claims' = Append(claims, x))
  <2>1. claims' \in Seq(Who)
    BY <1>2, <1>6, AppendProperties
  <2> QED BY <1>1, <1>6, <2>1 DEF LinksRest, SameLinks, LinkInv, LinksTyped, Starting
<1>7. Boot \/ GoPage => wire' = wire /\ (claims' = claims \/ \E x \in Who : claims' = Append(claims, x))
  BY DEF Boot, GoPage
<1>8. Hydrate => (wire' = wire /\ claims' = claims) \/ \E status : Remount(status)
  BY DEF Hydrate
<1>9. (\E s \in {"in", "out"} : SignedIn(s)) \/ SignIn \/ SignOut => \E status : Remount(status)
  BY DEF SignedIn, SignIn, SignOut
<1> QED BY <1>5, <1>6, <1>7, <1>8, <1>9

\* Steps that end the page, or the process.
LEMMA ForgetStep ==
  ASSUME LinkInv,
         \/ Reload \/ RendererGone \/ CrashAnswered \/ HangAnswered \/ CloseWindow \/ Install
  PROVE  LinksRest
<1>1. argv' = argv /\ unsent' = unsent
  BY DEF Reload, RendererGone, CrashAnswered, HangAnswered, CloseWindow, Install, WindowStep
<1>2. Leave \/ (UNCHANGED <<pending, acted>> /\ (Forget \/ UNCHANGED renderer))
  BY DEF Reload, RendererGone, CrashAnswered, HangAnswered, CloseWindow, Install, Reloaded
<1>3. Starting' => Starting
  BY DEF Reload, RendererGone, CrashAnswered, HangAnswered, CloseWindow, Install, Reloaded, Aborted,
         Leave, Starting
<1>4. acted' = acted \/ acted' = [l \in DeepLink |-> 0]
  BY <1>2 DEF Leave
<1>5. pending' \in {pending, NoLink} /\ (SameLinks(wire) \/ wire' = <<>>)
  BY <1>2 DEF Leave, Forget, SameLinks, renderer
<1>6. LinksTyped'
  <2>1. acted' \in [DeepLink -> Nat]
    BY <1>4 DEF LinkInv, LinksTyped
  <2>2. /\ claims' = <<>> \/ claims' = claims
        /\ wire' = <<>> \/ wire' = wire
    BY <1>2 DEF Leave, Forget, renderer
  <2>3. claims' \in Seq({"router", "lobby", "nobody"}) /\ wire' \in Seq(OnWire)
    BY <2>2, EmptySeq DEF LinkInv, LinksTyped
  <2> QED BY <1>5, <2>1, <2>3 DEF LinkInv, LinksTyped
<1> QED BY <1>1, <1>3, <1>4, <1>5, <1>6 DEF LinksRest

\* A link that is ahead of the wire is put on it, or kept by main.
LEMMA PutStep ==
  ASSUME LinkInv, NEW m \in OnWire, claims' \in Seq({"router", "lobby", "nobody"}),
         acted' = acted, argv' = argv, unsent' \subseteq unsent, m.link \notin unsent',
         OffWire(m.link), acted[m.link] = 0, Starting' => Starting /\ argv # m.link,
         \/ wire' = Append(wire, m) /\ pending' \in {pending, NoLink} /\ pending' # m.link
         \/ wire' = wire /\ pending' = m.link
  PROVE  LinkInv'
<1> USE ShellAssumption DEF LinkInv
<1> DEFINE l == m.link
<1>0. l \in DeepLink /\ acted \in [DeepLink -> Nat] /\ l # NoLink
  BY DEF OnWire, LinksTyped
<1>1. CASE wire' = wire /\ pending' = l
  <2>1. LinksTyped'
    BY <1>0, <1>1 DEF LinksTyped
  <2> HIDE DEF l
  <2>2. \A k : OffWire(k)' <=> OffWire(k)
    BY <1>1 DEF OffWire
  <2>3. UnsentIsNowhere' /\ ArgvIsAhead'
    BY <1>0, <1>1, <2>2 DEF UnsentIsNowhere, ArgvIsAhead, l
  <2>4. PendingIsAhead' /\ WireIsAhead' /\ LinksActOnce'
    BY <1>0, <1>1, <2>2 DEF PendingIsAhead, WireIsAhead, LinksActOnce, l
  <2> QED BY <2>1, <2>3, <2>4
<1>2. CASE wire' = Append(wire, m) /\ pending' \in {pending, NoLink} /\ pending' # l
  <2> DEFINE n == Len(wire)
  <2>1. /\ wire' \in Seq(OnWire) /\ n \in Nat /\ DOMAIN wire = 1 .. n /\ DOMAIN wire' = 1 .. n + 1
        /\ \A i \in 1 .. n : wire'[i] = wire[i]
        /\ wire'[n + 1] = m
    BY <1>2, AppendProperties, LenProperties DEF LinksTyped
  <2>2. LinksTyped'
    BY <1>0, <1>2, <2>1 DEF LinksTyped
  <2> HIDE DEF n, l
  <2>3. \A k : OffWire(k)' <=> OffWire(k) /\ k # l
    <3>1. \A i \in 1 .. n + 1 : i \in 1 .. n \/ i = n + 1
      BY <2>1
    <3>2. n + 1 \in 1 .. n + 1 /\ 1 .. n \subseteq 1 .. n + 1
      BY <2>1
    <3> QED BY <2>1, <3>1, <3>2 DEF OffWire, l
  <2>4. UnsentIsNowhere' /\ ArgvIsAhead' /\ PendingIsAhead'
    BY <1>0, <1>2, <2>3 DEF UnsentIsNowhere, ArgvIsAhead, PendingIsAhead, l
  <2>5. WireIsAhead'
    <3> SUFFICES ASSUME NEW i \in 1 .. n + 1
                 PROVE  /\ acted[wire'[i].link] = 0
                        /\ \A j \in 1 .. n + 1 : wire'[i].link = wire'[j].link => i = j
      BY <2>1 DEF WireIsAhead
    <3>1. \A j \in 1 .. n : wire[j].link # l
      BY <2>1 DEF OffWire, l
    <3>2. \A j \in 1 .. n + 1 : j \in 1 .. n \/ j = n + 1
      BY <2>1
    <3>3. acted[l] = 0 /\ wire'[n + 1].link = l
      BY <2>1 DEF l
    <3>4. CASE i = n + 1
      BY <2>1, <3>1, <3>2, <3>3, <3>4
    <3>5. CASE i \in 1 .. n
      BY <2>1, <3>1, <3>2, <3>3, <3>5 DEF WireIsAhead
    <3> QED BY <3>2, <3>4, <3>5
  <2>6. LinksActOnce'
    BY DEF LinksActOnce
  <2> QED BY <2>2, <2>4, <2>5, <2>6
<1> QED BY <1>1, <1>2

\* A link leaves the wire, acted on or not.
LEMMA ArriveStep ==
  ASSUME LinkInv, LinkArrives
  PROVE  LinkInv'
<1> USE ShellAssumption DEF LinkInv
<1>0. PICK l, n : l = wire[1].link /\ n = Len(wire)
  OBVIOUS
<1>1. /\ wire' = Tail(wire) /\ wire # << >>
      /\ \/ acted' = acted
         \/ acted' = [acted EXCEPT ![l] = @]
         \/ acted' = [acted EXCEPT ![l] = @ + 1]
      /\ UNCHANGED <<life, argv, pending, claims, unsent>>
  BY <1>0 DEF LinkArrives, process
<1>2. wire \in Seq(OnWire) /\ acted \in [DeepLink -> Nat]
  BY DEF LinksTyped
<1>3. /\ n \in Nat \ {0} /\ DOMAIN wire = 1 .. n /\ wire' \in Seq(OnWire)
      /\ DOMAIN wire' = 1 .. n - 1
      /\ \A i \in 1 .. n - 1 : wire'[i] = wire[i + 1] /\ i + 1 \in 1 .. n
  BY <1>0, <1>1, <1>2, EmptySeq, LenProperties, HeadTailProperties
<1>4. 1 \in 1 .. n /\ l \in DeepLink /\ acted[l] = 0
  BY <1>0, <1>2, <1>3, WireHolds DEF WireIsAhead
<1>5. /\ acted' \in [DeepLink -> Nat] /\ acted'[l] <= 1
      /\ \A k \in DeepLink : k # l => acted'[k] = acted[k]
  BY <1>1, <1>2, <1>4
<1>6. LinksTyped'
  BY <1>1, <1>3, <1>5 DEF LinksTyped
<1>7. \A k : OffWire(k) => OffWire(k)' /\ k # l
  BY <1>0, <1>3, <1>4 DEF OffWire
<1>8. OffWire(l)'
  <2>1. \A i \in 1 .. n - 1 : i + 1 # 1
    BY <1>3
  <2> QED BY <1>0, <1>3, <1>4, <2>1 DEF OffWire, WireIsAhead
<1>9. UnsentIsNowhere' /\ ArgvIsAhead' /\ PendingIsAhead'
  BY <1>1, <1>5, <1>7 DEF UnsentIsNowhere, ArgvIsAhead, PendingIsAhead, Starting, LinksTyped
<1>10. WireIsAhead'
  <2> SUFFICES ASSUME NEW i \in 1 .. n - 1
               PROVE  /\ acted'[wire'[i].link] = 0
                      /\ \A j \in 1 .. n - 1 : wire'[i].link = wire'[j].link => i = j
    BY <1>3 DEF WireIsAhead
  <2>1. wire'[i].link # l /\ wire'[i].link \in DeepLink
    <3>1. \A w \in Seq(OnWire) : \A j \in DOMAIN w : w[j].link \in DeepLink
      BY WireHolds
    <3> QED BY <1>3, <1>8, <3>1 DEF OffWire
  <2>2. acted[wire[i + 1].link] = 0
    BY <1>3 DEF WireIsAhead
  <2>3. ASSUME NEW j \in 1 .. n - 1, wire'[i].link = wire'[j].link PROVE i = j
    <3>1. i + 1 \in DOMAIN wire /\ j + 1 \in DOMAIN wire /\ wire[i + 1].link = wire[j + 1].link
      BY <1>3, <2>3
    <3>2. \A a, b \in DOMAIN wire : wire[a].link = wire[b].link => a = b
      BY DEF WireIsAhead
    <3>3. i + 1 = j + 1
      BY <3>1, <3>2
    <3> QED BY <1>3, <3>3
  <2> QED BY <1>3, <1>5, <2>1, <2>2, <2>3
<1>11. LinksActOnce'
  BY <1>5 DEF LinksActOnce
<1> QED BY <1>1, <1>6, <1>9, <1>10, <1>11

LEMMA LaunchStep ==
  ASSUME LinkInv, NEW l \in DeepLink \cup {NoLink}, Launch(l)
  PROVE  LinkInv'
<1> USE ShellAssumption DEF LinkInv
<1>1. /\ argv' = l /\ unsent' = unsent \ {l} /\ (l = NoLink \/ l \in unsent)
      /\ UNCHANGED <<pending, claims, wire, acted>>
  BY DEF Launch, renderer
<1>2. LinksTyped' /\ \A k : OffWire(k)' <=> OffWire(k)
  BY <1>1 DEF LinksTyped, OffWire
<1>3. UnsentIsNowhere' /\ ArgvIsAhead'
  BY <1>1, <1>2 DEF UnsentIsNowhere, ArgvIsAhead
<1>4. PendingIsAhead' /\ WireIsAhead' /\ LinksActOnce'
  BY <1>1, <1>2 DEF PendingIsAhead, WireIsAhead, LinksActOnce
<1> QED BY <1>1, <1>2, <1>3, <1>4

LEMMA RelaunchStep ==
  ASSUME LinkInv, Relaunch
  PROVE  LinkInv'
<1> USE ShellAssumption DEF LinkInv
<1>1. /\ claims' = << >> /\ wire' = << >> /\ pending' = NoLink /\ acted' = [l \in DeepLink |-> 0]
      /\ argv' = argv /\ unsent' = unsent
  BY DEF Relaunch, Forget
<1>2. LinksTyped'
  BY <1>1, EmptySeq DEF LinksTyped
<1>3. DOMAIN wire' = {} /\ \A l \in DeepLink : acted'[l] = 0
  BY <1>1, EmptyDomain
<1>4. UnsentIsNowhere' /\ ArgvIsAhead'
  BY <1>1, <1>3 DEF UnsentIsNowhere, ArgvIsAhead, OffWire
<1>5. PendingIsAhead' /\ WireIsAhead' /\ LinksActOnce'
  BY <1>1, <1>3 DEF PendingIsAhead, WireIsAhead, LinksActOnce
<1> QED BY <1>1, <1>2, <1>4, <1>5

LEMMA ConsumeStep ==
  ASSUME LinkInv, ConsumePending
  PROVE  LinkInv'
<1> USE ShellAssumption DEF LinkInv
<1> DEFINE Who == {"router", "lobby", "nobody"}
<1>1. claims \in Seq(Who) /\ claims # << >> /\ claims' = Tail(claims) /\ pending' = NoLink
  BY DEF ConsumePending, LinksTyped
<1>2. claims' \in Seq(Who) /\ claims[1] \in Who
  BY <1>1, EmptySeq, HeadTailProperties, ElementOfSeq
<1>3. UNCHANGED <<life, argv, unsent, acted>>
  BY DEF ConsumePending, history
<1>4. CASE pending = NoLink
  <2>1. wire' = wire
    BY <1>4 DEF ConsumePending
  <2>2. LinksRest
    BY <1>1, <1>2, <1>3, <2>1 DEF LinksRest, LinksTyped, SameLinks, Starting
  <2> QED BY <2>2, LinksRestStep
<1>5. CASE pending # NoLink
  <2> DEFINE m == [to |-> claims[1], link |-> pending]
  <2>1. m \in OnWire /\ m.link = pending /\ wire' = Append(wire, m)
    BY <1>2, <1>5 DEF ConsumePending, OnWire, LinksTyped
  <2> HIDE DEF m
  <2>2. OffWire(m.link) /\ acted[m.link] = 0 /\ m.link \notin unsent
    BY <1>5, <2>1 DEF PendingIsAhead, UnsentIsNowhere
  <2>3. Starting' => Starting /\ argv # m.link
    BY <1>3, <1>5, <2>1 DEF ArgvIsAhead, Starting
  <2> QED BY <1>1, <1>2, <1>3, <1>5, <2>1, <2>2, <2>3, PutStep
<1> QED BY <1>4, <1>5

\* dispatchDeepLink()
LEMMA DispatchStep ==
  ASSUME LinkInv, NEW l \in DeepLink, NEW up, Dispatch(l, up), claims' = claims,
         acted' = acted, argv' = argv, unsent' \subseteq unsent, l \notin unsent', pending # l,
         OffWire(l), acted[l] = 0, Starting' => Starting /\ argv # l
  PROVE  LinkInv'
<1> DEFINE m == [to |-> "all", link |-> l]
<1>1. m \in OnWire /\ m.link = l
  BY DEF OnWire
<1>2. \/ wire' = Append(wire, m) /\ pending' = pending
      \/ wire' = wire /\ pending' = m.link
  BY DEF Dispatch
<1>3. claims' \in Seq({"router", "lobby", "nobody"})
  BY DEF LinkInv, LinksTyped
<1> HIDE DEF m
<1> QED BY <1>1, <1>2, <1>3, PutStep

LEMMA OpenStep ==
  ASSUME LinkInv, NEW l \in DeepLink, OpenLink(l)
  PROVE  LinkInv'
<1>1. /\ Dispatch(l, mainWindow) /\ l \in unsent /\ unsent' = unsent \ {l}
      /\ UNCHANGED <<life, argv, claims, acted>>
  BY DEF OpenLink
<1>2. pending # l /\ OffWire(l) /\ acted[l] = 0 /\ argv # l
  BY <1>1 DEF LinkInv, UnsentIsNowhere
<1>3. Starting' => Starting
  BY <1>1 DEF Starting
<1> QED BY <1>1, <1>2, <1>3, DispatchStep

LEMMA LoadedStep ==
  ASSUME LinkInv, Loaded
  PROVE  LinkInv'
<1>1. UNCHANGED <<argv, unsent, claims, acted>>
  BY DEF Loaded, WindowStep
<1>2. CASE life # "opening" \/ argv = NoLink
  <2>1. UNCHANGED <<wire, pending>> /\ (Starting' => Starting)
    BY <1>2 DEF Loaded, Starting
  <2>2. LinksRest
    BY <1>1, <2>1 DEF LinksRest, LinkInv, LinksTyped, SameLinks
  <2> QED BY <2>2, LinksRestStep
<1>3. CASE life = "opening" /\ argv # NoLink
  <2>1. Dispatch(argv, TRUE) /\ ~Starting' /\ Starting
    BY <1>3 DEF Loaded, Starting
  <2>2. argv \in DeepLink /\ pending # argv /\ OffWire(argv) /\ acted[argv] = 0
    BY <1>3, <2>1 DEF LinkInv, ArgvIsAhead
  <2>3. argv \notin unsent
    BY DEF LinkInv, UnsentIsNowhere
  <2>4. PICK l, w : l = argv /\ w = TRUE
    OBVIOUS
  <2> QED BY <1>1, <2>1, <2>2, <2>3, <2>4, DispatchStep
<1> QED BY <1>2, <1>3

LEMMA LinkStep == LinkInv /\ [ShellNext]_shellVars => LinkInv'
<1> SUFFICES ASSUME LinkInv, [ShellNext]_shellVars PROVE LinkInv'
  OBVIOUS
<1>1. \/ LinksRest
      \/ ConsumePending \/ LinkArrives \/ Loaded \/ Relaunch
      \/ \E l \in DeepLink \cup {NoLink} : Launch(l)
      \/ \E l \in DeepLink : OpenLink(l)
  BY ProcessStep, MountStep, ForgetStep DEF ShellNext
<1> QED BY <1>1, LinksRestStep, ConsumeStep, ArriveStep, LoadedStep, RelaunchStep, LaunchStep, OpenStep

\* However often the page is loaded and its components mount anew, and whatever
\* is opened meanwhile, no process acts on a link twice (deep-links.ts).
THEOREM LinksCorrect == ShellInit /\ [][ShellNext]_shellVars => []LinksActOnce
<1>1. LinkInv => LinksActOnce
  BY DEF LinkInv
<1> QED BY <1>1, LinksInitially, LinkStep, PTL

-----------------------------------------------------------------------------
(* Bags of calls and requests.                                             *)

LEMMA BagSum == ASSUME NEW B, NEW C PROVE BagToSet(B (+) C) = BagToSet(B) \cup BagToSet(C)
  BY DEF BagToSet, (+)

LEMMA BagRest == ASSUME NEW B, NEW C PROVE BagToSet(B (-) C) \subseteq BagToSet(B)
  BY DEF BagToSet, (-)

LEMMA BagOf == ASSUME NEW S PROVE BagToSet(SetToBag(S)) = S
  BY DEF BagToSet, SetToBag

LEMMA BagNone == BagToSet(EmptyBag) = {}
  BY DEF BagToSet, EmptyBag, SetToBag

-----------------------------------------------------------------------------
(* The lobby.  A call under way is of a session that there was; and if it  *)
(* is of the present one and enters a room, this session's user asked to.  *)
(* Without a session there is no screen, no call on it, and nothing due.   *)

Entering == {"row", "link", "silent", "redeem"}

Owed(c) ==
  /\ c \in Call /\ c.session \in 1 .. logins
  /\ c.op \in Entering /\ c.session = session /\ c.room # NoRoom => c.room \in asked

OutIsOut == session = 0 => ~lobby.mounted /\ lobby.phase = "lobby" /\ store.active = NoRoom /\ ~timer

\* LobbyTypeOK, without its calls.
LobbyTyped ==
  /\ does \in LobbyProfiles /\ server \in [Room -> Standing]
  /\ session \in 0 .. MaxSession /\ logins \in 0 .. MaxSession /\ top \in {"lobby", "other"}
  /\ invite \in BOOLEAN /\ store \in Store /\ lobby \in Screen /\ minimized \in BOOLEAN
  /\ mounts \in 0 .. MaxMount /\ timer \in BOOLEAN
  /\ asked \subseteq Room /\ excused \in BOOLEAN /\ moves \in 0 .. MaxMove

LobbyInv ==
  /\ LobbyTyped /\ session <= logins /\ OutIsOut /\ InCallsAskedFor
  /\ \A c \in UnderWay : Owed(c)

LEMMA LobbyInitially == LobbyInit => LobbyInv
<1> SUFFICES ASSUME LobbyInit PROVE LobbyInv
  OBVIOUS
<1> USE LobbyAssumption
<1>1. does.server \in [Room -> Standing]
  BY DEF LobbyInit, LobbyProfile
<1>2. NewStore \in Store /\ NewScreen \in Screen
  BY DEF NewStore, Store, NewScreen, Screen
<1>3. LobbyTyped
  <2>1. does \in LobbyProfiles /\ server \in [Room -> Standing] /\ store \in Store /\ lobby \in Screen
    BY <1>1, <1>2 DEF LobbyInit
  <2>2. /\ session \in 0 .. MaxSession /\ logins \in 0 .. MaxSession /\ mounts \in 0 .. MaxMount
        /\ moves \in 0 .. MaxMove
    BY DEF LobbyInit
  <2>3. /\ top \in {"lobby", "other"} /\ invite \in BOOLEAN /\ minimized \in BOOLEAN
        /\ timer \in BOOLEAN /\ asked \subseteq Room /\ excused \in BOOLEAN
    BY DEF LobbyInit
  <2> QED BY <2>1, <2>2, <2>3 DEF LobbyTyped
<1>4. session <= logins /\ OutIsOut /\ InCallsAskedFor
  BY DEF LobbyInit, OutIsOut, InCallsAskedFor, NewStore, NewScreen
<1>5. UnderWay = {}
  BY BagNone DEF LobbyInit, UnderWay
<1> QED BY <1>3, <1>4, <1>5 DEF LobbyInv

\* A step within a session, or without one.
LEMMA SessionStep ==
  ASSUME LobbyInv, LobbyTyped', session' = session, logins' = logins, asked \subseteq asked',
         \/ session # 0 /\ store'.active \in {store.active, NoRoom} \cup asked'
         \/ UNCHANGED <<lobby, store, timer>>,
         \A c \in UnderWay' : c \in UnderWay \/ Owed(c)'
  PROVE  LobbyInv'
<1> USE DEF LobbyInv
<1>1. session' <= logins'
  OBVIOUS
<1>2. OutIsOut'
  BY DEF OutIsOut
<1>3. InCallsAskedFor'
  BY DEF InCallsAskedFor
<1>4. \A c \in UnderWay' : Owed(c)'
  BY DEF Owed
<1> QED BY <1>1, <1>2, <1>3, <1>4

\* What the session sends is owed to it.
LEMMA SendsOwed ==
  ASSUME LobbyInv, session # 0, session' = session, logins' = logins,
         NEW op \in {"refresh", "create", "row", "link", "silent", "preview", "redeem", "act"},
         NEW r \in Room \cup {NoRoom}, op \in Entering /\ r # NoRoom => r \in asked',
         NEW c, c = CallOf(op, r)
  PROVE  Owed(c)'
<1>1. /\ c.op = op /\ c.room = r /\ c.session = session
      /\ session \in 1 .. logins
  BY LobbyAssumption DEF CallOf, LobbyInv, LobbyTyped
<1>2. c \in Call
  <2>1. NoRooms \in [Room -> Standing] /\ session \in Nat /\ mounts \in Nat
    BY LobbyAssumption DEF NoRooms, Standing, LobbyInv, LobbyTyped
  <2> QED BY <2>1 DEF CallOf, Call
<1> QED BY <1>1, <1>2 DEF Owed

\* So is what follows from a call that was.
LEMMA FollowsOwed ==
  ASSUME LobbyInv, NEW c \in UnderWay, NEW d \in Call, d.session = c.session,
         session' = session, logins' = logins, asked' = asked,
         d.op \in Entering => c.op \in Entering /\ d.room = c.room
  PROVE  Owed(d)'
  BY DEF LobbyInv, Owed

LEMMA UserTyped ==
  ASSUME LobbyInv, UserStep, lobby' \in Screen, store' \in Store, invite' \in BOOLEAN,
         minimized' \in BOOLEAN, asked' \subseteq Room
  PROVE  LobbyTyped' /\ session' = session /\ logins' = logins
<1>1. UNCHANGED <<does, server, session, logins, top, mounts, timer, excused>> /\ moves' \in 0 .. MaxMove
  BY LobbyAssumption DEF UserStep, Moves, shell, LobbyInv, LobbyTyped
<1> QED BY <1>1 DEF LobbyInv, LobbyTyped

\* What the user does in the lobby, but for what sends nothing.
LEMMA UserSteps ==
  ASSUME LobbyInv, NEW r \in Room \cup {NoRoom},
         \/ OpenForm \/ InviteComes \/ Redeem \/ CancelInvite \/ OpenModal
         \/ r # NoRoom /\ (AttemptJoin(r) \/ OnJoin(r) \/ SilentJoin(r) \/ Create(r) \/ LeaveRoom(r))
  PROVE  LobbyInv'
<1> USE DEF LobbyInv
<1>1. UserStep /\ session # 0
  BY DEF AttemptJoin, OpenForm, OnJoin, SilentJoin, InviteComes, Redeem, CancelInvite, OpenModal, Create,
         LeaveRoom, Acts, OutIsOut
<1>2. lobby \in Screen /\ store \in Store /\ invite \in BOOLEAN /\ minimized \in BOOLEAN /\ asked \subseteq Room
  BY DEF LobbyTyped
<1>3. lobby' \in Screen
  <2>1. \A s \in Screen :
          /\ [s EXCEPT !.joining = r, !.rowError = NoRoom] \in Screen
          /\ [s EXCEPT !.form = TRUE] \in Screen
          /\ [s EXCEPT !.linking = TRUE, !.linkError = FALSE] \in Screen
          /\ [s EXCEPT !.phase = "loading", !.form = FALSE] \in Screen
          /\ \A e, f \in BOOLEAN : [s EXCEPT !.linkError = e, !.form = f] \in Screen
          /\ [s EXCEPT !.phase = "loading"] \in Screen
          /\ [s EXCEPT !.redeeming = TRUE] \in Screen
          /\ [s EXCEPT !.phase = "lobby", !.redeeming = FALSE] \in Screen
          /\ \A m \in BOOLEAN : [s EXCEPT !.modal = m] \in Screen
          /\ [s EXCEPT !.creating = TRUE] \in Screen
    BY DEF Screen
  <2>2. CASE AttemptJoin(r) \/ OpenForm \/ SilentJoin(r) \/ InviteComes
    BY <1>2, <2>1, <2>2 DEF AttemptJoin, OpenForm, SilentJoin, InviteComes
  <2>3. CASE OnJoin(r)
    BY <1>2, <2>1, <2>3 DEF OnJoin
  <2>4. CASE Redeem \/ CancelInvite \/ Create(r) \/ LeaveRoom(r)
    BY <1>2, <2>1, <2>4 DEF Redeem, CancelInvite, Create, LeaveRoom
  <2>5. CASE OpenModal
    <3>1. PICK m : m = ~lobby.modal
      OBVIOUS
    <3>2. lobby' = [lobby EXCEPT !.modal = m]
      BY <2>5, <3>1 DEF OpenModal
    <3>3. m \in BOOLEAN
      BY <3>1
    <3> QED BY <1>2, <2>1, <3>2, <3>3
  <2> QED BY <2>2, <2>3, <2>4, <2>5
<1>4. store' \in Store /\ store'.active = store.active
  <2>1. store' = store \/ store' = [store EXCEPT !.error = TRUE]
    BY DEF AttemptJoin, OpenForm, OnJoin, SilentJoin, InviteComes, Redeem, CancelInvite, OpenModal, Create,
           LeaveRoom
  <2> QED BY <1>2, <2>1 DEF Store
<1>5. invite' \in BOOLEAN /\ minimized' \in BOOLEAN /\ asked \subseteq asked' /\ asked' \subseteq Room
  BY <1>2 DEF AttemptJoin, OpenForm, OnJoin, SilentJoin, InviteComes, ShowsInvite, Redeem, CancelInvite, OpenModal,
              Create, LeaveRoom
<1>6. LobbyTyped' /\ session' = session /\ logins' = logins
  BY <1>1, <1>3, <1>4, <1>5, UserTyped
<1>7. \A c \in UnderWay' : c \in UnderWay \/ Owed(c)'
  <2>1. \A op, q : BagToSet(Sent(CallOf(op, q))) = UnderWay \cup {CallOf(op, q)}
    BY BagSum, BagOf DEF Sent, UnderWay
  <2>2. ShowsInvite => UnderWay' = UnderWay \cup {CallOf("refresh", NoRoom), CallOf("preview", NoRoom)}
    BY BagSum, BagOf DEF ShowsInvite, UnderWay, CallOf
  <2>3. CASE \E op \in {"refresh", "create", "row", "link", "silent", "preview", "redeem", "act"},
               q \in Room \cup {NoRoom} :
               /\ op \in Entering /\ q # NoRoom => q \in asked'
               /\ calls' = Sent(CallOf(op, q))
    BY <1>1, <1>6, <2>1, <2>3, SendsOwed DEF UnderWay
  <2>4. CASE ShowsInvite
    BY <1>1, <1>6, <2>2, <2>4, SendsOwed DEF Entering
  <2>5. CASE calls' = calls
    BY <2>5 DEF UnderWay
  <2>6. CASE AttemptJoin(r) \/ OpenForm \/ SilentJoin(r) \/ InviteComes
    BY <2>3, <2>4, <2>5, <2>6 DEF AttemptJoin, OpenForm, SilentJoin, InviteComes
  <2>7. CASE OnJoin(r)
    BY <2>3, <2>4, <2>5, <2>7 DEF OnJoin
  <2>8. CASE Redeem
    BY <2>3, <2>8 DEF Redeem
  <2>9. CASE CancelInvite \/ OpenModal \/ Create(r) \/ LeaveRoom(r)
    BY <2>3, <2>5, <2>9 DEF CancelInvite, OpenModal, Create, LeaveRoom, Entering
  <2> QED BY <2>6, <2>7, <2>8, <2>9
<1> QED BY <1>1, <1>4, <1>5, <1>6, <1>7, SessionStep

\* The server, others, and the call on screen.
LEMMA ServerSteps ==
  ASSUME LobbyInv, NEW r,
         CallJoins \/ OthersAct(r) \/ PresenceUpdate \/ TimerFires \/ LeaveCall
  PROVE  LobbyInv'
<1> USE LobbyAssumption DEF LobbyInv
<1>1. UNCHANGED <<does, session, logins, top, invite, lobby, mounts, asked>>
  BY DEF CallJoins, OthersAct, PresenceUpdate, TimerFires, LeaveCall, shell, screen
<1>2. server' \in [Room -> Standing]
  <2>1. \A q, s : s \in Standing => [server EXCEPT ![q] = s] \in [Room -> Standing]
    BY DEF LobbyTyped
  <2>2. server' = server \/ \E q, s : s \in Standing /\ server' = [server EXCEPT ![q] = s]
    BY DEF CallJoins, OthersAct, PresenceUpdate, TimerFires, LeaveCall, Standing
  <2> QED BY <2>1, <2>2 DEF LobbyTyped
<1>3. store' \in Store /\ store'.active \in {store.active, NoRoom} /\ (session = 0 => store' = store)
  <2>1. \/ store' = store
        \/ store' = [store EXCEPT !.error = FALSE] /\ timer
        \/ store' = [store EXCEPT !.active = NoRoom] /\ store.active # NoRoom
    BY DEF CallJoins, OthersAct, PresenceUpdate, TimerFires, LeaveCall
  <2>2. store \in Store
    BY DEF LobbyTyped
  <2>3. /\ [store EXCEPT !.error = FALSE] \in Store /\ [store EXCEPT !.error = FALSE].active = store.active
        /\ [store EXCEPT !.active = NoRoom] \in Store /\ [store EXCEPT !.active = NoRoom].active = NoRoom
    BY <2>2 DEF Store
  <2> QED BY <2>1, <2>2, <2>3 DEF OutIsOut
<1>4. minimized' \in BOOLEAN /\ timer' \in BOOLEAN /\ (session = 0 => timer' = timer)
  BY DEF CallJoins, OthersAct, PresenceUpdate, TimerFires, LeaveCall, LobbyTyped, OutIsOut
<1>5. moves' \in 0 .. MaxMove
  BY DEF CallJoins, OthersAct, PresenceUpdate, TimerFires, LeaveCall, LobbyTyped, Moves
<1>6. excused' \in BOOLEAN
  <2>1. CASE CallJoins \/ OthersAct(r) \/ PresenceUpdate \/ TimerFires
    BY <2>1 DEF CallJoins, OthersAct, PresenceUpdate, TimerFires, LobbyTyped
  <2>2. CASE LeaveCall
    <3>1. excused' = (excused \/ server' # server)
      BY <2>2 DEF LeaveCall
    <3> QED BY <3>1
  <2> QED BY <2>1, <2>2
<1>7. LobbyTyped'
  BY <1>1, <1>2, <1>3, <1>4, <1>5, <1>6 DEF LobbyTyped
<1>8. \A c \in UnderWay' : c \in UnderWay \/ Owed(c)'
  <2>1. calls' = calls \/ (calls' = Sent(CallOf("refresh", NoRoom)) /\ session # 0)
    BY DEF CallJoins, OthersAct, PresenceUpdate, TimerFires, LeaveCall, OutIsOut
  <2>2. BagToSet(Sent(CallOf("refresh", NoRoom))) = UnderWay \cup {CallOf("refresh", NoRoom)}
    BY BagSum, BagOf DEF Sent, UnderWay
  <2> QED BY <1>1, <2>1, <2>2, SendsOwed DEF UnderWay, Entering
<1> QED BY <1>1, <1>3, <1>4, <1>7, <1>8, SessionStep

\* Screens come and go.
LEMMA MountsOwed ==
  ASSUME LobbyInv, NEW s \in 1 .. MaxSession, s <= logins', NEW code \in BOOLEAN, Mounts(s, code)
  PROVE  /\ mounts' \in 0 .. MaxMount /\ lobby' \in Screen
         /\ \A c \in UnderWay' : c \in UnderWay \/ (logins' \in Nat => Owed(c)')
<1> USE LobbyAssumption
<1>1. PICK c : c = [CallOf("refresh", NoRoom) EXCEPT !.session = s, !.mount = mounts + 1]
  OBVIOUS
<1>2. PICK p : p = [c EXCEPT !.op = "preview"]
  OBVIOUS
<1>3. /\ mounts < MaxMount /\ mounts' = mounts + 1
      /\ lobby' = [NewScreen EXCEPT !.mounted = TRUE, !.phase = IF code THEN "loading" ELSE "lobby"]
      /\ calls' = calls (+) (IF code THEN [x \in {c} |-> 3] (+) SetToBag({p}) ELSE [x \in {c} |-> 2])
  BY <1>1, <1>2 DEF Mounts
<1>4. mounts' \in 0 .. MaxMount /\ mounts + 1 \in Nat
  BY <1>3 DEF LobbyInv, LobbyTyped
<1>5. lobby' \in Screen
  BY <1>3 DEF NewScreen, Screen
<1>6. UnderWay' \subseteq UnderWay \cup {c, p}
  <2>1. BagToSet([x \in {c} |-> 3]) = {c} /\ BagToSet([x \in {c} |-> 2]) = {c} /\ BagToSet(SetToBag({p})) = {p}
    BY BagOf DEF BagToSet
  <2>2. BagToSet([x \in {c} |-> 3] (+) SetToBag({p})) = {c} \cup {p}
    <3>1. PICK B, C : B = [x \in {c} |-> 3] /\ C = SetToBag({p})
      OBVIOUS
    <3>2. BagToSet(B (+) C) = BagToSet(B) \cup BagToSet(C)
      BY BagSum
    <3> QED BY <2>1, <3>1, <3>2
  <2>3. PICK M : /\ M = IF code THEN [x \in {c} |-> 3] (+) SetToBag({p}) ELSE [x \in {c} |-> 2]
                 /\ calls' = calls (+) M
    BY <1>3
  <2>4. BagToSet(calls') = UnderWay \cup BagToSet(M)
    BY <2>3, BagSum DEF UnderWay
  <2>5. BagToSet(M) = {c} \cup {p} \/ BagToSet(M) = {c}
    BY <2>1, <2>2, <2>3
  <2> QED BY <2>4, <2>5 DEF UnderWay
<1>7. /\ c \in Call /\ p \in Call /\ c.session = s /\ p.session = s
      /\ c.op = "refresh" /\ p.op = "preview"
  <2>1. NoRooms \in [Room -> Standing] /\ session \in Nat /\ mounts \in Nat /\ s \in Nat
    BY DEF NoRooms, Standing, LobbyInv, LobbyTyped
  <2>2. CallOf("refresh", NoRoom) \in Call
    BY <2>1 DEF CallOf, Call
  <2>3. /\ c \in Call /\ c.session = s /\ c.op = "refresh"
    BY <1>1, <1>4, <2>1, <2>2 DEF CallOf, Call
  <2> QED BY <1>2, <2>3 DEF Call
<1>8. logins' \in Nat => s \in 1 .. logins'
  OBVIOUS
<1> QED BY <1>4, <1>5, <1>6, <1>7, <1>8 DEF Owed, Entering

LEMMA SignsInStep == ASSUME LobbyInv, SignsIn PROVE LobbyInv'
<1> USE LobbyAssumption DEF LobbyInv
<1>1. /\ session = 0 /\ logins < MaxSession /\ logins' = logins + 1 /\ session' = logins + 1
      /\ store' = NewStore /\ invite' = FALSE /\ minimized' = FALSE /\ asked' = {}
      /\ UNCHANGED <<does, server, top, timer, excused, moves>>
  BY DEF SignsIn, StoreOf
<1>2. logins \in Nat /\ session' \in 1 .. MaxSession /\ session' <= logins' /\ logins' \in 0 .. MaxSession
  BY <1>1 DEF LobbyTyped
<1>3. /\ mounts' \in 0 .. MaxMount /\ lobby' \in Screen
      /\ \A c \in UnderWay' : c \in UnderWay \/ Owed(c)'
  <2>1. CASE Mounts(logins + 1, FALSE)
    <3>1. PICK s, code : s = logins + 1 /\ code = FALSE
      OBVIOUS
    <3>2. Mounts(s, code)
      BY <2>1, <3>1, Zenon
    <3>3. s \in 1 .. MaxSession /\ s <= logins' /\ logins' \in Nat
      BY <1>1, <1>2, <3>1
    <3>4. code \in BOOLEAN
      BY <3>1, Zenon
    <3> HIDE DEF LobbyInv
    <3> QED BY <3>2, <3>3, <3>4, MountsOwed
  <2>2. CASE UNCHANGED <<screen, calls>>
    BY <2>2 DEF screen, UnderWay, LobbyTyped
  <2> QED BY <2>1, <2>2 DEF SignsIn
<1>4. LobbyTyped'
  <2>1. NewStore \in Store
    BY DEF NewStore, Store
  <2> QED BY <1>1, <1>2, <1>3, <2>1 DEF LobbyTyped
<1>5. \A c \in UnderWay : Owed(c)'
  BY <1>1, <1>2 DEF Owed
<1>6. OutIsOut' /\ InCallsAskedFor'
  BY <1>1, <1>2 DEF OutIsOut, InCallsAskedFor, NewStore
<1> QED BY <1>2, <1>3, <1>4, <1>5, <1>6

LEMMA SignsOutStep == ASSUME LobbyInv, SignsOut PROVE LobbyInv'
<1> USE LobbyAssumption DEF LobbyInv
<1>1. /\ session' = 0 /\ store' = NewStore /\ invite' = FALSE /\ minimized' = FALSE /\ timer' = FALSE
      /\ lobby' = NewScreen /\ calls' = calls /\ asked' = {} /\ excused' = TRUE
      /\ UNCHANGED <<does, server, logins, top, mounts>> /\ moves' \in 0 .. MaxMove
  BY DEF SignsOut, StoreOf, Unmounts, Moves, LobbyTyped
<1>2. LobbyTyped'
  <2>1. NewStore \in Store /\ NewScreen \in Screen /\ 0 \in 0 .. MaxSession
    BY DEF NewStore, Store, NewScreen, Screen
  <2> QED BY <1>1, <2>1 DEF LobbyTyped
<1>3. session' <= logins' /\ OutIsOut' /\ InCallsAskedFor'
  BY <1>1 DEF OutIsOut, InCallsAskedFor, NewStore, NewScreen, LobbyTyped
<1>4. \A c \in UnderWay' : Owed(c)'
  BY <1>1 DEF UnderWay, Owed
<1> QED BY <1>2, <1>3, <1>4

LEMMA GoToPageStep == ASSUME LobbyInv, GoToPage PROVE LobbyInv'
<1> USE LobbyAssumption DEF LobbyInv
<1>1. /\ session # 0 /\ UNCHANGED <<does, server, session, logins, invite, store, asked, excused>>
      /\ moves' \in 0 .. MaxMove /\ top' \in {"lobby", "other"}
      /\ minimized' \in BOOLEAN /\ timer' \in BOOLEAN
  BY DEF GoToPage, Moves, LobbyTyped
<1>2. /\ mounts' \in 0 .. MaxMount /\ lobby' \in Screen
      /\ \A c \in UnderWay' : c \in UnderWay \/ Owed(c)'
  <2>1. CASE Mounts(session, invite)
    BY <1>1, <2>1, MountsOwed DEF LobbyTyped
  <2>2. CASE Unmounts
    BY <2>2 DEF Unmounts, UnderWay, LobbyTyped, NewScreen, Screen
  <2> QED BY <2>1, <2>2 DEF GoToPage
<1>3. LobbyTyped'
  BY <1>1, <1>2 DEF LobbyTyped
<1> QED BY <1>1, <1>2, <1>3, SessionStep

LEMMA ServeStep == ASSUME LobbyInv, NEW c \in UnderWay, Serve(c) PROVE LobbyInv'
<1> USE LobbyAssumption DEF LobbyInv
<1>1. UNCHANGED <<does, session, logins, top, invite, store, lobby, mounts, minimized, timer, asked, moves>>
  BY DEF Serve, shell, screen
<1>2. server \in [Room -> Standing] /\ server' \in [Room -> Standing]
  <2>1. \A q, s : s \in Standing => [server EXCEPT ![q] = s] \in [Room -> Standing]
    BY DEF LobbyTyped
  <2>2. Effect(c) = server \/ \E q, s : s \in Standing /\ Effect(c) = [server EXCEPT ![q] = s]
    BY DEF Effect, Standing
  <2> QED BY <2>1, <2>2 DEF Serve, LobbyTyped
<1>3. excused' \in BOOLEAN
  <2>1. excused' = (excused \/ (server' # server /\ (~Mine(c) \/ c.op = "redeem")))
    BY DEF Serve
  <2> QED BY <2>1
<1>4. LobbyTyped'
  BY <1>1, <1>2, <1>3 DEF LobbyTyped
<1>5. PICK d \in Call : d.session = c.session /\ d.op = c.op /\ d.room = c.room /\ UnderWay' \subseteq UnderWay \cup {d}
  <2>1. c \in Call
    BY DEF Owed
  <2>2. \A f \in [Room -> Standing] :
          LET d == [c EXCEPT !.at = "done", !.seen = f] IN
          d \in Call /\ d.session = c.session /\ d.op = c.op /\ d.room = c.room
    BY <2>1 DEF Call
  <2>3. LET d == [c EXCEPT !.at = "failed"] IN
        d \in Call /\ d.session = c.session /\ d.op = c.op /\ d.room = c.room
    BY <2>1 DEF Call
  <2>4. \A d : BagToSet(Ended(c) (+) SetToBag({d})) \subseteq UnderWay \cup {d}
    BY BagSum, BagRest, BagOf DEF Ended, UnderWay
  <2>5. NoRooms \in [Room -> Standing]
    BY DEF NoRooms, Standing
  <2>6. PICK f : f = IF c.op = "refresh" THEN server ELSE NoRooms
    OBVIOUS
  <2>7. f \in [Room -> Standing]
    BY <1>2, <2>5, <2>6
  <2>8. \/ calls' = Ended(c) (+) SetToBag({[c EXCEPT !.at = "done", !.seen = f]})
        \/ calls' = Ended(c) (+) SetToBag({[c EXCEPT !.at = "failed"]})
    <3>1. CASE c.op = "refresh"
      BY <2>6, <3>1 DEF Serve
    <3>2. CASE c.op # "refresh"
      BY <2>6, <3>2 DEF Serve
    <3> QED BY <3>1, <3>2
  <2>9. PICK a, b : a = [c EXCEPT !.at = "done", !.seen = f] /\ b = [c EXCEPT !.at = "failed"]
    OBVIOUS
  <2>10. /\ a \in Call /\ a.session = c.session /\ a.op = c.op /\ a.room = c.room
         /\ b \in Call /\ b.session = c.session /\ b.op = c.op /\ b.room = c.room
    BY <2>2, <2>3, <2>7, <2>9
  <2>11. UnderWay' \subseteq UnderWay \cup {a} \/ UnderWay' \subseteq UnderWay \cup {b}
    <3>1. calls' = Ended(c) (+) SetToBag({a}) \/ calls' = Ended(c) (+) SetToBag({b})
      BY <2>8, <2>9
    <3> QED BY <2>4, <3>1 DEF UnderWay
  <2> QED BY <2>10, <2>11
<1>6. Owed(d)'
  BY <1>1, <1>5, FollowsOwed
<1> QED BY <1>1, <1>4, <1>5, <1>6, SessionStep

\* What the answers do to the store: only one that enters a room changes the
\* call, and only for the session that sent it.
LEMMA AnswersStore ==
  ASSUME LobbyInv, NEW c \in UnderWay, Answer(c)
  PROVE  /\ store' \in Store /\ (session = 0 => store' = store)
         /\ store'.active \in {store.active, NoRoom} \cup asked
<1> USE LobbyAssumption DEF LobbyInv
<1>1. store \in Store /\ Owed(c) /\ (session = 0 => ~Mine(c))
  BY DEF LobbyTyped, Owed, Mine
<1>2. CASE store' = store
  BY <1>1, <1>2
<1>3. ASSUME NEW s \in Store, s.active \in {store.active, NoRoom} \cup asked \/ ~Mine(c), StoreSet(c, s)
      PROVE  /\ store' \in Store /\ (session = 0 => store' = store)
             /\ store'.active \in {store.active, NoRoom} \cup asked
  BY <1>1, <1>3 DEF StoreSet
<1>4. \A e \in BOOLEAN : LET s == [store EXCEPT !.error = e] IN s \in Store /\ s.active = store.active
  BY <1>1 DEF Store
<1>5. CASE Refreshed(c)
  <2>1. PICK s : /\ s = IF c.at = "failed" THEN [store EXCEPT !.error = TRUE]
                       ELSE [store EXCEPT !.owned = [r \in Room |-> IF c.seen[r] = "owner" THEN 1 ELSE 0],
                                          !.recent = {r \in Room : c.seen[r] = "member"}]
                 /\ StoreSet(c, s)
    BY <1>5 DEF Refreshed
  <2>2. \A o \in [Room -> Nat], q \in SUBSET Room :
          LET t == [store EXCEPT !.owned = o, !.recent = q] IN t \in Store /\ t.active = store.active
    BY <1>1 DEF Store
  <2>3. /\ [r \in Room |-> IF c.seen[r] = "owner" THEN 1 ELSE 0] \in [Room -> Nat]
        /\ {r \in Room : c.seen[r] = "member"} \in SUBSET Room
    OBVIOUS
  <2>4. s \in Store /\ s.active = store.active
    BY <1>4, <2>1, <2>2, <2>3
  <2> QED BY <1>3, <2>1, <2>4
<1>6. CASE RowJoined(c) \/ LinkJoined(c) \/ SilentlyJoined(c)
  <2>1. Joined(c) /\ c.op \in {"row", "link", "silent"}
    BY <1>6 DEF RowJoined, LinkJoined, SilentlyJoined
  <2>2. CASE Entered(c)
    <3>1. PICK s : s = [store EXCEPT !.active = c.room, !.error = FALSE] /\ StoreSet(c, s)
      BY <2>2 DEF Entered
    <3>2. s \in Store /\ s.active = c.room
      <4>1. c.room \in Room \cup {NoRoom}
        BY <1>1 DEF Owed, Call
      <4> QED BY <1>1, <3>1, <4>1 DEF Store
    <3>3. Mine(c) => c.room \in {NoRoom} \cup asked
      BY <1>1, <2>1 DEF Mine, Owed, Entering
    <3> QED BY <1>3, <3>1, <3>2, <3>3
  <2>3. CASE NotEntered(c)
    <3>1. PICK s : s = [store EXCEPT !.error = TRUE] /\ StoreSet(c, s)
      BY <2>3 DEF NotEntered
    <3>2. s \in Store /\ s.active = store.active
      BY <1>4, <3>1
    <3> QED BY <1>3, <3>1, <3>2
  <2> QED BY <2>1, <2>2, <2>3 DEF Joined
<1>7. CASE Created(c)
  <2>1. CASE c.at = "failed"
    BY <1>2, <1>7, <2>1 DEF Created
  <2>2. CASE c.at # "failed"
    <3>1. PICK s : s = [store EXCEPT !.owned[c.room] = @ + 1] /\ StoreSet(c, s)
      BY <1>7, <2>2 DEF Created
    <3>2. store.owned \in [Room -> Nat]
      BY <1>1 DEF Store
    <3>3. PICK o : o = [store.owned EXCEPT ![c.room] = store.owned[c.room] + 1]
      OBVIOUS
    <3>4. o \in [Room -> Nat]
      <4>1. CASE c.room \in Room
        BY <3>2, <3>3, <4>1
      <4>2. CASE c.room \notin Room
        BY <3>2, <3>3, <4>2
      <4> QED BY <4>1, <4>2
    <3>5. s = [store EXCEPT !.owned = o]
      BY <1>1, <3>1, <3>3 DEF Store
    <3>6. s \in Store /\ s.active = store.active
      BY <1>1, <3>4, <3>5 DEF Store
    <3> QED BY <1>3, <3>1, <3>6
  <2> QED BY <2>1, <2>2
<1>8. CASE Left(c)
  <2>1. PICK e, s : e = (store.error /\ c.at = "failed") /\ s = [store EXCEPT !.error = e] /\ StoreSet(c, s)
    BY <1>8 DEF Left
  <2>2. e \in BOOLEAN
    BY <2>1
  <2>3. s \in Store /\ s.active = store.active
    BY <1>4, <2>1, <2>2
  <2> QED BY <1>3, <2>1, <2>3
<1>9. CASE Previewed(c) \/ Redeemed(c) \/ RedeemFails(c)
  BY <1>2, <1>9 DEF Previewed, Redeemed, RedeemFails
<1> QED BY <1>5, <1>6, <1>7, <1>8, <1>9 DEF Answer

LEMMA AnswersScreen ==
  ASSUME LobbyInv, NEW c \in UnderWay, Answer(c)
  PROVE  lobby' \in Screen /\ (session = 0 => lobby' = lobby)
<1> USE LobbyAssumption DEF LobbyInv
<1>1. lobby \in Screen /\ (Alive(c) => session # 0) /\ c.room \in Room \cup {NoRoom} /\ (Mine(c) => session # 0)
  BY DEF LobbyTyped, Alive, OutIsOut, Owed, Call, Mine
<1>2. CASE lobby' = lobby
  BY <1>1, <1>2
<1>3. ASSUME NEW s \in Screen, ScreenSet(c, s) PROVE lobby' \in Screen /\ (session = 0 => lobby' = lobby)
  BY <1>1, <1>3 DEF ScreenSet
<1>4. \A e, f \in BOOLEAN, r \in Room \cup {NoRoom}, p \in {"lobby", "shown", "missing"} :
        /\ [lobby EXCEPT !.joining = NoRoom, !.rowError = r] \in Screen
        /\ [lobby EXCEPT !.linking = FALSE, !.linkError = e, !.form = e] \in Screen
        /\ [lobby EXCEPT !.phase = p] \in Screen
        /\ [lobby EXCEPT !.phase = p, !.redeeming = FALSE] \in Screen
        /\ [lobby EXCEPT !.redeeming = FALSE] \in Screen
        /\ [lobby EXCEPT !.creating = FALSE, !.modal = e] \in Screen
  BY <1>1 DEF Screen
<1>5. CASE RowJoined(c)
  <2>1. PICK r, s : /\ r = IF store'.active = NoRoom /\ store'.error THEN c.room ELSE lobby.rowError
                    /\ s = [lobby EXCEPT !.joining = NoRoom, !.rowError = r]
                    /\ ScreenSet(c, s)
    BY <1>5 DEF RowJoined
  <2>2. r \in Room \cup {NoRoom}
    BY <1>1, <2>1 DEF Screen
  <2> QED BY <1>3, <1>4, <2>1, <2>2
<1>6. CASE LinkJoined(c)
  <2>1. PICK e, s : /\ e = (store'.active = NoRoom /\ store'.error)
                    /\ s = [lobby EXCEPT !.linking = FALSE, !.linkError = e, !.form = e]
                    /\ ScreenSet(c, s)
    BY <1>6 DEF LinkJoined
  <2>2. e \in BOOLEAN
    BY <2>1
  <2> QED BY <1>3, <1>4, <2>1, <2>2
<1>7. CASE Previewed(c)
  <2>1. PICK p, s : /\ p \in {"shown", "missing"}
                    /\ s = IF lobby.phase = "loading" THEN [lobby EXCEPT !.phase = p] ELSE lobby
                    /\ ScreenSet(c, s)
    BY <1>7 DEF Previewed
  <2>2. s \in Screen
    BY <1>1, <1>4, <2>1
  <2> QED BY <1>3, <2>1, <2>2
<1>8. CASE Redeemed(c)
  <2>1. CASE c.room = NoRoom /\ Mine(c)
    <3>1. NewScreen \in Screen
      BY DEF NewScreen, Screen
    <3>2. lobby' = NewScreen
      BY <1>8, <2>1 DEF Redeemed
    <3> QED BY <1>1, <2>1, <3>1, <3>2
  <2>2. CASE ~(c.room = NoRoom /\ Mine(c))
    <3>1. PICK s : s = [lobby EXCEPT !.phase = "lobby", !.redeeming = FALSE] /\ ScreenSet(c, s)
      BY <1>8, <2>2 DEF Redeemed
    <3> QED BY <1>3, <1>4, <3>1
  <2> QED BY <2>1, <2>2
<1>9. CASE RedeemFails(c)
  <2>1. PICK s : s = [lobby EXCEPT !.redeeming = FALSE] /\ ScreenSet(c, s)
    BY <1>9 DEF RedeemFails
  <2> QED BY <1>3, <1>4, <2>1
<1>10. CASE Created(c)
  <2>1. PICK e, s : /\ e = (lobby.modal /\ c.at = "failed")
                    /\ s = [lobby EXCEPT !.creating = FALSE, !.modal = e]
                    /\ ScreenSet(c, s)
    BY <1>10 DEF Created
  <2>2. e \in BOOLEAN
    BY <2>1
  <2> QED BY <1>3, <1>4, <2>1, <2>2
<1>11. CASE Refreshed(c) \/ SilentlyJoined(c) \/ Left(c)
  BY <1>2, <1>11 DEF Refreshed, SilentlyJoined, Left
<1> QED BY <1>5, <1>6, <1>7, <1>8, <1>9, <1>10, <1>11 DEF Answer

LEMMA AnswersCalls ==
  ASSUME LobbyInv, NEW c \in UnderWay, Answer(c), session' = session, logins' = logins, asked' = asked
  PROVE  \A d \in UnderWay' : d \in UnderWay \/ Owed(d)'
<1>1. c \in Call
  BY DEF LobbyInv, Owed
<1>2. BagToSet(Ended(c)) \subseteq UnderWay
  BY BagRest DEF Ended, UnderWay
<1>3. CASE calls' = Ended(c)
  BY <1>2, <1>3 DEF UnderWay
<1>4. CASE Left(c) /\ c.at # "failed"
  <2>1. PICK d : /\ d = [c EXCEPT !.op = "refresh", !.room = NoRoom, !.at = "sent"]
                 /\ calls' = Ended(c) (+) SetToBag({d})
    BY <1>4 DEF Left
  <2>2. d \in Call /\ d.session = c.session /\ d.op = "refresh"
    BY <1>1, <2>1 DEF Call
  <2>3. Owed(d)'
    BY <2>2, FollowsOwed DEF Entering
  <2> QED BY <1>2, <2>1, <2>3, BagSum, BagOf DEF UnderWay
<1>5. CASE Redeemed(c) /\ ~(c.room = NoRoom /\ Mine(c))
  <2>1. PICK x, d, A, J :
          /\ x = CallOf("refresh", NoRoom) /\ d = [c EXCEPT !.op = "silent", !.at = "sent"]
          /\ A = IF Alive(c) /\ lobby.phase # "lobby" THEN SetToBag({x}) ELSE EmptyBag
          /\ J = IF c.room = NoRoom THEN EmptyBag ELSE SetToBag({d})
          /\ calls' = (Ended(c) (+) A) (+) J
    BY <1>5 DEF Redeemed
  <2>2. /\ BagToSet(A) = {} \/ (BagToSet(A) = {x} /\ Alive(c))
        /\ BagToSet(J) \subseteq {d}
    BY <2>1, BagOf, BagNone
  <2>3. UnderWay' = (BagToSet(Ended(c)) \cup BagToSet(A)) \cup BagToSet(J)
    BY <2>1, BagSum DEF UnderWay
  <2>4. Alive(c) => Owed(x)'
    <3>1. Alive(c) => session # 0
      BY DEF Alive, LobbyInv, OutIsOut
    <3> QED BY <2>1, <3>1, SendsOwed DEF Entering
  <2>5. Owed(d)'
    <3>1. d \in Call /\ d.session = c.session /\ d.room = c.room /\ c.op \in Entering
      BY <1>1, <1>5, <2>1 DEF Call, Redeemed, Entering
    <3> QED BY <3>1, FollowsOwed
  <2> QED BY <1>2, <2>2, <2>3, <2>4, <2>5
<1> QED
  BY <1>3, <1>4, <1>5
  DEF Answer, Refreshed, RowJoined, LinkJoined, SilentlyJoined, Previewed, Redeemed, RedeemFails, Created, Left

LEMMA AnswersStep == ASSUME LobbyInv, NEW c \in UnderWay, Answer(c) PROVE LobbyInv'
<1> USE LobbyAssumption
<1>1. UNCHANGED <<does, server, session, logins, mounts, timer, asked, moves>>
  BY DEF Answer, Refreshed, RowJoined, LinkJoined, SilentlyJoined, Previewed, Redeemed, RedeemFails, Created,
         Left, AnswerStep, shell
<1>2. top' \in {"lobby", "other"} /\ invite' \in BOOLEAN
  <2>1. CASE Redeemed(c)
    <3>1. invite' = (invite /\ ~Mine(c)) /\ top' \in {top, "other"}
      BY <2>1 DEF Redeemed
    <3>2. invite' \in BOOLEAN
      BY <3>1
    <3> QED BY <3>1, <3>2 DEF LobbyInv, LobbyTyped
  <2>2. CASE ~Redeemed(c)
    <3>1. top' = top /\ invite' = invite
      BY <2>2 DEF Answer, Refreshed, RowJoined, LinkJoined, SilentlyJoined, Previewed, RedeemFails, Created,
                  Left, AnswerStep, shell
    <3> QED BY <3>1 DEF LobbyInv, LobbyTyped
  <2> QED BY <2>1, <2>2
<1>3. minimized' \in BOOLEAN
  <2>1. CASE minimized' = minimized
    BY <2>1 DEF LobbyInv, LobbyTyped
  <2>2. CASE minimized' = (minimized /\ store'.active = store.active)
    BY <2>2
  <2> QED
    BY <2>1, <2>2 DEF Answer, Refreshed, RowJoined, LinkJoined, SilentlyJoined, Previewed, Redeemed, RedeemFails,
                      Created, Left, Joined, Entered, NotEntered
<1>4. excused' \in BOOLEAN
  <2>1. CASE excused' = excused
    BY <2>1 DEF LobbyInv, LobbyTyped
  <2>2. CASE excused' = (excused \/ store.owned[c.room] > 0 \/ server[c.room] # "owner")
    BY <2>2
  <2>3. CASE excused' = (c.at = "failed" \/ c.seen # server)
    BY <2>3
  <2> QED
    BY <2>1, <2>2, <2>3 DEF Answer, Refreshed, RowJoined, LinkJoined, SilentlyJoined, Previewed, Redeemed,
                            RedeemFails, Created, Left
<1>5. /\ store' \in Store /\ (session = 0 => store' = store) /\ store'.active \in {store.active, NoRoom} \cup asked
      /\ lobby' \in Screen /\ (session = 0 => lobby' = lobby)
  BY AnswersStore, AnswersScreen
<1>6. LobbyTyped'
  BY <1>1, <1>2, <1>3, <1>4, <1>5 DEF LobbyInv, LobbyTyped
<1>7. \A d \in UnderWay' : d \in UnderWay \/ Owed(d)'
  BY <1>1, AnswersCalls
<1> QED BY <1>1, <1>5, <1>6, <1>7, SessionStep

LEMMA LobbyStep == LobbyInv /\ [LobbyNext]_lobbyVars => LobbyInv'
<1> SUFFICES ASSUME LobbyInv, [LobbyNext]_lobbyVars PROVE LobbyInv'
  OBVIOUS
<1>1. CASE UNCHANGED lobbyVars
  <2>1. UNCHANGED <<does, server, session, logins, top, invite, store, lobby, mounts, minimized, calls, timer, asked,
                    excused, moves>>
    BY <1>1 DEF lobbyVars, shell, screen
  <2> QED BY <2>1 DEF LobbyInv, LobbyTyped, OutIsOut, InCallsAskedFor, UnderWay, Owed
<1>2. CASE \/ OpenForm \/ InviteComes \/ Redeem \/ CancelInvite \/ OpenModal
           \/ \E r \in Room : AttemptJoin(r) \/ OnJoin(r) \/ SilentJoin(r) \/ Create(r) \/ LeaveRoom(r)
  BY <1>2, UserSteps, LobbyAssumption
<1>3. CASE LeaveCall \/ CallJoins \/ PresenceUpdate \/ TimerFires
  BY <1>3, ServerSteps
<1>4. CASE \E r \in Room : OthersAct(r)
  BY <1>4, ServerSteps
<1> QED BY <1>1, <1>2, <1>3, <1>4, SignsInStep, SignsOutStep, GoToPageStep, ServeStep, AnswersStep DEF LobbyNext

\* Nobody is put into a call they did not ask for, however late an answer comes
\* and whoever has signed in meanwhile (getRoomsStore, join).
THEOREM CallsCorrect == LobbyInit /\ [][LobbyNext]_lobbyVars => []InCallsAskedFor
<1>1. LobbyInv => InCallsAskedFor
  BY DEF LobbyInv
<1> QED BY <1>1, LobbyInitially, LobbyStep, PTL

-----------------------------------------------------------------------------
(* What the lobby shows.  If its list is not the server's, another one is  *)
(* on its way or follows the answer to an act, or the answer that adds a   *)
(* new room is; unless the history says that it need not be.               *)

Positive(B) == \A x \in DOMAIN B : B[x] \in Nat \ {0}

\* What D has is B's, C's, or of both.
Both(D, B, C) ==
  /\ Positive(D) /\ DOMAIN D = DOMAIN B \cup DOMAIN C
  /\ \A x \in DOMAIN D : x \notin DOMAIN C => D[x] = B[x]

LEMMA BagWith ==
  ASSUME NEW B, Positive(B), NEW C, Positive(C), NEW D, D = B (+) C
  PROVE  Both(D, B, C)
<1>1. /\ DOMAIN D = DOMAIN B \cup DOMAIN C
      /\ \A x \in DOMAIN D : D[x] = (IF x \in DOMAIN B THEN B[x] ELSE 0) + (IF x \in DOMAIN C THEN C[x] ELSE 0)
  BY DEF (+)
<1>2. \A x \in DOMAIN D : x \notin DOMAIN C => D[x] = B[x]
  BY <1>1 DEF Positive
<1>3. Positive(D)
  BY <1>1 DEF Positive
<1> QED BY <1>1, <1>2, <1>3 DEF Both

\* What R has is B's, with one a less.
OneLess(R, B, a) ==
  /\ Positive(R) /\ DOMAIN R = {x \in DOMAIN B : x # a \/ B[x] # 1}
  /\ \A x \in DOMAIN R : x # a => R[x] = B[x]

LEMMA BagWithout ==
  ASSUME NEW B, Positive(B), NEW a \in DOMAIN B, NEW rest, rest = B (-) SetToBag({a})
  PROVE  OneLess(rest, B, a)
<1> DEFINE one == SetToBag({a})
           left == [x \in DOMAIN B |-> IF x \in DOMAIN one THEN B[x] - one[x] ELSE B[x]]
<1>1. rest = [x \in {e \in DOMAIN left : left[e] > 0} |-> left[x]] /\ DOMAIN one = {a} /\ one[a] = 1
  BY DEF SetToBag, (-)
<1> HIDE DEF one
<1>2. /\ DOMAIN left = DOMAIN B /\ \A x \in DOMAIN B : left[x] = IF x = a THEN B[x] - 1 ELSE B[x]
      /\ \A x \in DOMAIN B : B[x] \in Nat \ {0}
  BY <1>1 DEF Positive
<1> HIDE DEF left
<1>3. DOMAIN rest = {e \in DOMAIN B : left[e] > 0} /\ \A x \in DOMAIN rest : rest[x] = left[x]
  BY <1>1, <1>2
<1>4. \A x \in DOMAIN B : left[x] > 0 <=> (x # a \/ B[x] # 1)
  BY <1>2
<1>5. DOMAIN rest = {x \in DOMAIN B : x # a \/ B[x] # 1}
  BY <1>3, <1>4
<1>6. \A x \in DOMAIN rest : left[x] \in Nat \ {0} /\ (x # a => left[x] = B[x])
  BY <1>2, <1>5
<1> QED BY <1>3, <1>5, <1>6 DEF Positive, OneLess


\* Its answer is a list, or is followed by one.
Refetches(c) == Mine(c) /\ (c.op = "refresh" \/ (c.op = "act" /\ c.at = "done"))
Fetching == \E c \in UnderWay : Refetches(c)

AsServer(r) ==
  /\ store.owned[r] = (IF server[r] = "owner" THEN 1 ELSE 0)
  /\ r \in store.recent <=> server[r] = "member"

\* The answer under way adds a new room.
Adds(c) == Mine(c) /\ c.op = "create" /\ c.at = "done"
Adding(r) ==
  /\ store.owned[r] = 0 /\ r \notin store.recent /\ server[r] = "owner"
  /\ \E c \in UnderWay : Adds(c) /\ c.room = r

ListShown == Fetching \/ \A r \in Room : AsServer(r) \/ Adding(r)

\* One request creates a room, and until then it is not there.
CreatesOnce ==
  /\ \A c \in UnderWay : c.op = "create" =>
       c.room \in Room /\ calls[c] = 1 /\ (c.at = "sent" => server[c.room] = "absent")
  /\ \A c, d \in UnderWay : c.op = "create" /\ d.op = "create" /\ c.room = d.room => c = d

ShownOrExcused == excused \/ (session # 0 /\ ListShown)

SidebarInv == Positive(calls) /\ CreatesOnce /\ ShownOrExcused

\* No request to create a room is sent, and those under way go on.
CreatesStay == \A c \in UnderWay' : c.op = "create" => c \in UnderWay /\ calls'[c] = calls[c]

LEMMA CreatesKept ==
  ASSUME CreatesOnce, CreatesStay,
         \A c \in UnderWay : c.op = "create" /\ c.at = "sent" => server'[c.room] = server[c.room]
  PROVE  CreatesOnce'
<1>1. \A c \in UnderWay' : c.op = "create" =>
        c.room \in Room /\ calls'[c] = 1 /\ (c.at = "sent" => server'[c.room] = "absent")
  BY DEF CreatesOnce, CreatesStay
<1>2. \A c, d \in UnderWay' : c.op = "create" /\ d.op = "create" /\ c.room = d.room => c = d
  BY DEF CreatesOnce, CreatesStay
<1> QED BY <1>1, <1>2 DEF CreatesOnce

LEMMA CallsAdded ==
  ASSUME Positive(calls), NEW M, Positive(M), calls' = calls (+) M, \A x \in DOMAIN M : x.op # "create"
  PROVE  Positive(calls') /\ CreatesStay /\ UnderWay' = UnderWay \cup DOMAIN M
<1>1. Both(calls', calls, M)
  BY BagWith
<1> QED BY <1>1 DEF Both, CreatesStay, UnderWay, BagToSet

LEMMA CallEnded ==
  ASSUME Positive(calls), CreatesOnce, NEW c \in UnderWay, calls' = Ended(c)
  PROVE  /\ Positive(calls') /\ CreatesStay /\ UnderWay \ {c} \subseteq UnderWay' /\ UnderWay' \subseteq UnderWay
<1>1. OneLess(calls', calls, c)
  BY BagWithout DEF UnderWay, BagToSet, Ended
<1> QED BY <1>1 DEF OneLess, UnderWay, BagToSet, CreatesStay, CreatesOnce

LEMMA CallFollowed ==
  ASSUME Positive(calls), CreatesOnce, NEW c \in UnderWay, NEW M, Positive(M), calls' = Ended(c) (+) M,
         \A x \in DOMAIN M : x.op # "create"
  PROVE  /\ Positive(calls') /\ CreatesStay /\ UnderWay \ {c} \subseteq UnderWay' /\ DOMAIN M \subseteq UnderWay'
<1>1. PICK R : R = Ended(c)
  OBVIOUS
<1>2. OneLess(R, calls, c)
  BY <1>1, BagWithout DEF UnderWay, BagToSet, Ended
<1>3. Both(calls', R, M)
  <2>1. Positive(R)
    BY <1>2 DEF OneLess
  <2> QED BY <1>1, <2>1, BagWith
<1> QED BY <1>2, <1>3 DEF OneLess, Both, UnderWay, BagToSet, CreatesStay, CreatesOnce

LEMMA PositiveOnce == ASSUME NEW S PROVE Positive(SetToBag(S)) /\ DOMAIN SetToBag(S) = S
  BY DEF Positive, SetToBag

\* A step that leaves the list and the server alone, or makes an excuse.
LEMMA ShownKept ==
  ASSUME ShownOrExcused, session' = session,
         \/ excused'
         \/ /\ ~excused /\ server' = server /\ store'.owned = store.owned /\ store'.recent = store.recent
            /\ \A c \in UnderWay : Refetches(c) => Fetching'
            /\ \A c \in UnderWay : Adds(c) => c \in UnderWay'
         \/ Fetching' /\ ~excused
  PROVE  ShownOrExcused'
<1>1. CASE excused'
  BY <1>1 DEF ShownOrExcused
<1>2. CASE Fetching' /\ ~excused
  BY <1>2 DEF ShownOrExcused, ListShown
<1>3. CASE /\ ~excused /\ server' = server /\ store'.owned = store.owned /\ store'.recent = store.recent
           /\ \A c \in UnderWay : Refetches(c) => Fetching'
           /\ \A c \in UnderWay : Adds(c) => c \in UnderWay'
  <2>1. \A r \in Room : AsServer(r) => AsServer(r)'
    BY <1>3 DEF AsServer
  <2>2. \A r \in Room : Adding(r) => Adding(r)'
    BY <1>3 DEF Adding, Adds, Mine
  <2>3. Fetching => Fetching'
    BY <1>3 DEF Fetching
  <2>4. session # 0 /\ ListShown
    BY <1>3 DEF ShownOrExcused
  <2>5. ListShown'
    BY <2>1, <2>2, <2>3, <2>4 DEF ListShown
  <2> QED BY <2>4, <2>5 DEF ShownOrExcused
<1> QED BY <1>1, <1>2, <1>3

\* What is under way goes on, and maybe more is sent.
LEMMA MoreIsSent ==
  ASSUME SidebarInv, session' = session, NEW M, Positive(M), calls' = calls \/ calls' = calls (+) M,
         \A x \in DOMAIN M : x.op # "create",
         \/ excused' /\ \A c \in UnderWay : c.op = "create" /\ c.at = "sent" => server'[c.room] = server[c.room]
         \/ excused' = excused /\ server' = server /\ store'.owned = store.owned /\ store'.recent = store.recent
  PROVE  SidebarInv'
<1>1. Positive(calls') /\ CreatesStay /\ UnderWay \subseteq UnderWay'
  <2>1. CASE calls' = calls
    BY <2>1 DEF SidebarInv, CreatesStay, UnderWay
  <2>2. CASE calls' = calls (+) M
    BY <2>2, CallsAdded DEF SidebarInv
  <2> QED BY <2>1, <2>2
<1>2. CreatesOnce'
  BY <1>1, CreatesKept DEF SidebarInv
<1>3. \A c \in UnderWay : Refetches(c) => Fetching'
  BY <1>1 DEF Fetching, Refetches, Mine
<1>4. ShownOrExcused'
  BY <1>1, <1>3, ShownKept DEF SidebarInv
<1> QED BY <1>1, <1>2, <1>4 DEF SidebarInv

LEMMA OneSent == ASSUME NEW c PROVE Positive(SetToBag({c})) /\ DOMAIN SetToBag({c}) = {c}
  BY PositiveOnce

LEMMA NothingSent == Positive(EmptyBag) /\ DOMAIN EmptyBag = {}
  BY DEF Positive, EmptyBag, SetToBag

LEMMA ErrorOnly ==
  ASSUME LobbyInv, NEW e, store' = [store EXCEPT !.error = e]
  PROVE  store'.owned = store.owned /\ store'.recent = store.recent
  BY DEF LobbyInv, LobbyTyped, Store

\* What the user does in the lobby, but for a new room.
LEMMA UserShown ==
  ASSUME LobbyInv, SidebarInv, NEW r,
         \/ OpenForm \/ InviteComes \/ Redeem \/ CancelInvite \/ OpenModal
         \/ AttemptJoin(r) \/ OnJoin(r) \/ SilentJoin(r) \/ LeaveRoom(r)
  PROVE  SidebarInv'
<1>1. UserStep
  BY DEF AttemptJoin, OpenForm, OnJoin, SilentJoin, InviteComes, Redeem, CancelInvite, OpenModal, LeaveRoom
<1>2. session' = session /\ excused' = excused /\ server' = server
  BY <1>1 DEF UserStep, shell
<1>3. store'.owned = store.owned /\ store'.recent = store.recent
  <2>1. store' = store \/ store' = [store EXCEPT !.error = TRUE]
    BY DEF AttemptJoin, OpenForm, OnJoin, SilentJoin, InviteComes, Redeem, CancelInvite, OpenModal, LeaveRoom
  <2> QED BY <2>1, ErrorOnly
<1>4. CASE calls' = calls
  BY <1>2, <1>3, <1>4, NothingSent, MoreIsSent
<1>5. ASSUME NEW S, \A x \in S : x.op # "create", calls' = calls (+) SetToBag(S)
      PROVE  SidebarInv'
  <2>1. Positive(SetToBag(S)) /\ DOMAIN SetToBag(S) = S
    BY PositiveOnce
  <2> QED BY <1>2, <1>3, <1>5, <2>1, MoreIsSent
<1>6. CASE \E q : \E op \in {"refresh", "row", "link", "silent", "redeem", "act"} : calls' = Sent(CallOf(op, q))
  <2>1. PICK q : \E op \in {"refresh", "row", "link", "silent", "redeem", "act"} : calls' = Sent(CallOf(op, q))
    BY <1>6
  <2>2. PICK op \in {"refresh", "row", "link", "silent", "redeem", "act"} : calls' = Sent(CallOf(op, q))
    BY <2>1
  <2>3. PICK S : S = {CallOf(op, q)}
    OBVIOUS
  <2>4. calls' = calls (+) SetToBag(S) /\ \A x \in S : x.op # "create"
    BY <2>2, <2>3 DEF Sent, CallOf
  <2> QED BY <1>5, <2>4
<1>7. CASE ShowsInvite
  <2>1. PICK c, S : c = CallOf("refresh", NoRoom) /\ S = {c, [c EXCEPT !.op = "preview"]}
    OBVIOUS
  <2>2. calls' = calls (+) SetToBag(S)
    BY <1>7, <2>1 DEF ShowsInvite
  <2>3. \A x \in S : x.op # "create"
    BY <2>1 DEF CallOf
  <2> QED BY <1>5, <2>2, <2>3
<1>8. CASE AttemptJoin(r) \/ OpenForm \/ SilentJoin(r) \/ InviteComes
  BY <1>4, <1>6, <1>7, <1>8 DEF AttemptJoin, OpenForm, SilentJoin, InviteComes
<1>9. CASE OnJoin(r)
  BY <1>4, <1>6, <1>7, <1>9 DEF OnJoin
<1>10. CASE Redeem
  BY <1>6, <1>10 DEF Redeem
<1>11. CASE CancelInvite \/ OpenModal \/ LeaveRoom(r)
  BY <1>4, <1>6, <1>11 DEF CancelInvite, OpenModal, LeaveRoom
<1> QED BY <1>8, <1>9, <1>10, <1>11

\* A new room: nobody else is about to have it.
LEMMA CreateShown == ASSUME LobbyInv, SidebarInv, NEW r \in Room, Create(r) PROVE SidebarInv'
<1>1. /\ session' = session /\ excused' = excused /\ server' = server /\ store' = store
      /\ server[r] = "absent" /\ \A c \in UnderWay : c.op = "create" => c.room # r
  BY DEF Create, UserStep, shell, Unclaimed
<1>2. PICK n : n = CallOf("create", r) /\ calls' = calls (+) SetToBag({n})
  BY DEF Create, Sent
<1>3. n.op = "create" /\ n.room = r /\ n.at = "sent" /\ n \notin UnderWay
  BY <1>1, <1>2 DEF CallOf
<1>4. PICK M : M = SetToBag({n})
  OBVIOUS
<1>5. Positive(M) /\ DOMAIN M = {n} /\ M[n] = 1
  BY <1>4 DEF Positive, SetToBag
<1>6. Both(calls', calls, M) /\ calls'[n] = 1
  <2>1. Both(calls', calls, M)
    BY <1>2, <1>4, <1>5, BagWith DEF SidebarInv
  <2>2. calls'[n] = (IF n \in DOMAIN calls THEN calls[n] ELSE 0) + (IF n \in DOMAIN M THEN M[n] ELSE 0)
    BY <1>2, <1>4, <1>5 DEF (+)
  <2>3. n \notin DOMAIN calls
    BY <1>3 DEF UnderWay, BagToSet
  <2> QED BY <1>5, <2>1, <2>2, <2>3
<1>7. /\ Positive(calls') /\ UnderWay' = UnderWay \cup {n} /\ calls'[n] = 1
      /\ \A c \in UnderWay : calls'[c] = calls[c]
  BY <1>3, <1>5, <1>6 DEF Both, UnderWay, BagToSet
<1>8. CreatesOnce'
  BY <1>1, <1>3, <1>7 DEF SidebarInv, CreatesOnce
<1>9. ShownOrExcused'
  <2>1. \A c \in UnderWay : Refetches(c) => Fetching'
    BY <1>1, <1>7 DEF Fetching, Refetches, Mine
  <2> QED BY <1>1, <1>7, <2>1, ShownKept DEF SidebarInv, ShownOrExcused
<1> QED BY <1>7, <1>8, <1>9 DEF SidebarInv

\* The server, others, and the call on screen.
LEMMA ServerShown ==
  ASSUME LobbyInv, SidebarInv, NEW r, CallJoins \/ OthersAct(r) \/ PresenceUpdate \/ TimerFires \/ LeaveCall
  PROVE  SidebarInv'
<1>1. session' = session
  BY DEF CallJoins, OthersAct, PresenceUpdate, TimerFires, LeaveCall, shell
<1>2. CASE PresenceUpdate \/ TimerFires
  <2>1. excused' = excused /\ server' = server /\ store'.owned = store.owned /\ store'.recent = store.recent
    BY <1>2, ErrorOnly DEF PresenceUpdate, TimerFires
  <2>2. CASE calls' = calls
    BY <1>1, <2>1, <2>2, NothingSent, MoreIsSent
  <2>3. CASE calls' = Sent(CallOf("refresh", NoRoom))
    <3>1. PICK n, M : n = CallOf("refresh", NoRoom) /\ M = SetToBag({n})
      OBVIOUS
    <3>2. calls' = calls (+) M /\ Positive(M) /\ \A x \in DOMAIN M : x.op # "create"
      BY <2>3, <3>1, OneSent DEF Sent, CallOf
    <3> QED BY <1>1, <2>1, <3>2, MoreIsSent
  <2> QED BY <1>2, <2>2, <2>3 DEF PresenceUpdate, TimerFires
<1>3. CASE CallJoins \/ OthersAct(r) \/ LeaveCall
  <2>1. calls' = calls
    BY <1>3 DEF CallJoins, OthersAct, LeaveCall
  <2>2. \A c \in UnderWay : c.op = "create" /\ c.at = "sent" => server'[c.room] = server[c.room]
    <3>1. \A c \in UnderWay : c.op = "create" /\ c.at = "sent" => c.room \in Room /\ server[c.room] = "absent"
      BY DEF SidebarInv, CreatesOnce
    <3>2. server \in [Room -> Standing]
      BY DEF LobbyInv, LobbyTyped
    <3>3. CASE CallJoins
      BY <3>1, <3>2, <3>3 DEF CallJoins
    <3>4. CASE OthersAct(r)
      BY <3>1, <3>2, <3>4 DEF OthersAct, Unclaimed
    <3>5. CASE LeaveCall
      <4>1. \/ server' = server
            \/ server' = [server EXCEPT ![store.active] =
                             IF server[store.active] = "member" THEN "open" ELSE "absent"]
        BY <3>5 DEF LeaveCall
      <4> QED BY <3>1, <3>2, <4>1
    <3> QED BY <1>3, <3>3, <3>4, <3>5
  <2>3. CASE excused'
    BY <1>1, <2>1, <2>2, <2>3, NothingSent, MoreIsSent
  <2>4. CASE ~excused'
    <3>1. LeaveCall /\ server' = server /\ store' = [store EXCEPT !.active = NoRoom]
      BY <1>3, <2>4 DEF CallJoins, OthersAct, LeaveCall
    <3>2. ~excused
      BY <2>4, <3>1 DEF LeaveCall
    <3>3. store'.owned = store.owned /\ store'.recent = store.recent
      BY <3>1 DEF LobbyInv, LobbyTyped, Store
    <3>4. Positive(calls') /\ CreatesStay /\ UnderWay' = UnderWay
      BY <2>1 DEF SidebarInv, CreatesStay, UnderWay
    <3>5. CreatesOnce'
      BY <2>2, <3>4, CreatesKept DEF SidebarInv
    <3>6. \A c \in UnderWay : Refetches(c) => Fetching'
      BY <1>1, <3>4 DEF Fetching, Refetches, Mine
    <3>7. ShownOrExcused'
      BY <1>1, <3>1, <3>2, <3>3, <3>4, <3>6, ShownKept DEF SidebarInv
    <3> QED BY <3>4, <3>5, <3>7 DEF SidebarInv
  <2> QED BY <2>3, <2>4
<1> QED BY <1>2, <1>3

\* Screens come and go.
LEMMA MountSends ==
  ASSUME NEW s, NEW code, Mounts(s, code)
  PROVE  \E M : Positive(M) /\ calls' = calls (+) M /\ \A x \in DOMAIN M : x.op # "create"
<1>1. PICK c : c = [CallOf("refresh", NoRoom) EXCEPT !.session = s, !.mount = mounts + 1]
  OBVIOUS
<1>2. PICK p, P : p = [c EXCEPT !.op = "preview"] /\ P = SetToBag({p})
  OBVIOUS
<1>3. c.op = "refresh" /\ p.op = "preview"
  BY <1>1, <1>2 DEF CallOf
<1>4. PICK M : M = IF code THEN [x \in {c} |-> 3] (+) P ELSE [x \in {c} |-> 2]
  OBVIOUS
<1>5. calls' = calls (+) M
  BY <1>1, <1>2, <1>4 DEF Mounts
<1>6. Positive(P) /\ DOMAIN P = {p}
  BY <1>2, OneSent
<1>7. Positive(M) /\ DOMAIN M \subseteq {c, p}
  <2>1. CASE code
    <3>1. PICK B : B = [x \in {c} |-> 3]
      OBVIOUS
    <3>2. Positive(B) /\ DOMAIN B = {c} /\ M = B (+) P
      BY <1>4, <2>1, <3>1 DEF Positive
    <3>3. Both(M, B, P)
      BY <1>6, <3>2, BagWith
    <3> QED BY <1>6, <3>2, <3>3 DEF Both
  <2>2. CASE ~code
    BY <1>4, <2>2 DEF Positive
  <2> QED BY <2>1, <2>2
<1> QED BY <1>3, <1>5, <1>7

LEMMA ComesShown == ASSUME LobbyInv, SidebarInv, SignsIn \/ GoToPage PROVE SidebarInv'
<1>1. PICK M : /\ Positive(M) /\ (calls' = calls \/ calls' = calls (+) M)
               /\ \A x \in DOMAIN M : x.op # "create"
  <2>1. CASE \E s, code : Mounts(s, code)
    BY <2>1, MountSends
  <2>2. CASE calls' = calls
    BY <2>2, NothingSent
  <2> QED BY <2>1, <2>2 DEF SignsIn, GoToPage, Unmounts
<1>2. CASE GoToPage
  <2>1. session' = session /\ excused' = excused /\ server' = server /\ store' = store
    BY <1>2 DEF GoToPage
  <2> QED BY <1>1, <2>1, MoreIsSent
<1>3. CASE SignsIn
  <2>1. excused' /\ server' = server
    BY <1>3 DEF SignsIn, SidebarInv, ShownOrExcused
  <2>2. Positive(calls') /\ CreatesStay
    <3>1. CASE calls' = calls
      BY <3>1 DEF SidebarInv, CreatesStay, UnderWay
    <3>2. CASE calls' = calls (+) M
      BY <1>1, <3>2, CallsAdded DEF SidebarInv
    <3> QED BY <1>1, <3>1, <3>2
  <2>3. CreatesOnce'
    BY <2>1, <2>2, CreatesKept DEF SidebarInv
  <2> QED BY <2>1, <2>2, <2>3 DEF SidebarInv, ShownOrExcused
<1> QED BY <1>2, <1>3

LEMMA SignsOutShown == ASSUME LobbyInv, SidebarInv, SignsOut PROVE SidebarInv'
<1>1. excused' = TRUE /\ server' = server /\ calls' = calls
  BY DEF SignsOut, Unmounts
<1>2. Positive(calls') /\ CreatesStay
  BY <1>1 DEF SidebarInv, CreatesStay, UnderWay
<1>3. CreatesOnce'
  BY <1>1, <1>2, CreatesKept DEF SidebarInv
<1> QED BY <1>1, <1>2, <1>3 DEF SidebarInv, ShownOrExcused

\* A call ends, and the others go on.
RestGoesOn(c) == Positive(calls') /\ CreatesStay /\ UnderWay \ {c} \subseteq UnderWay'

LEMMA CallEnds == ASSUME SidebarInv, NEW c \in UnderWay, calls' = Ended(c) PROVE RestGoesOn(c)
  BY CallEnded DEF SidebarInv, RestGoesOn

LEMMA CallGoesOn ==
  ASSUME SidebarInv, NEW c \in UnderWay, NEW d, d.op # "create", calls' = Ended(c) (+) SetToBag({d})
  PROVE  RestGoesOn(c) /\ d \in UnderWay'
<1>1. PICK M : M = SetToBag({d})
  OBVIOUS
<1>2. Positive(M) /\ DOMAIN M = {d} /\ calls' = Ended(c) (+) M
  BY <1>1, OneSent
<1> QED BY <1>2, CallFollowed DEF SidebarInv, RestGoesOn

\* An answer that leaves the list alone, to a call the list does not wait for.
LEMMA OtherAnswers ==
  ASSUME SidebarInv, NEW c \in UnderWay, RestGoesOn(c),
         session' = session, server' = server, store'.owned = store.owned, store'.recent = store.recent,
         excused' \/ ~excused, ~Refetches(c), ~Adds(c)
  PROVE  SidebarInv'
<1>1. Positive(calls') /\ CreatesStay /\ UnderWay \ {c} \subseteq UnderWay'
  BY DEF RestGoesOn
<1>2. CreatesOnce'
  BY <1>1, CreatesKept DEF SidebarInv
<1>3. \A d \in UnderWay : Refetches(d) => Fetching'
  BY <1>1 DEF Fetching, Refetches, Mine
<1>4. \A d \in UnderWay : Adds(d) => d \in UnderWay'
  BY <1>1
<1>5. ShownOrExcused'
  <2>1. ShownOrExcused
    BY DEF SidebarInv
  <2>2. CASE excused'
    BY <2>2 DEF ShownOrExcused
  <2>3. CASE ~excused
    BY <1>3, <1>4, <2>1, <2>3, ShownKept
  <2> QED BY <2>2, <2>3
<1> QED BY <1>1, <1>2, <1>5 DEF SidebarInv

LEMMA RefreshedShown == ASSUME LobbyInv, SidebarInv, NEW c \in UnderWay, Refreshed(c) PROVE SidebarInv'
<1>1. /\ c.op = "refresh" /\ c.at # "sent" /\ calls' = Ended(c) /\ session' = session /\ server' = server
  BY DEF Refreshed, AnswerStep, shell
<1>2. CASE ~Mine(c)
  <2>1. store' = store /\ excused' = excused
    BY <1>2 DEF Refreshed, StoreSet
  <2>2. ~Refetches(c) /\ ~Adds(c)
    BY <1>2 DEF Refetches, Adds
  <2> QED BY <1>1, <2>1, <2>2, CallEnds, OtherAnswers
<1>3. CASE Mine(c)
  <2>1. Positive(calls') /\ CreatesStay
    BY <1>1, CallEnded DEF SidebarInv
  <2>2. CreatesOnce'
    BY <1>1, <2>1, CreatesKept DEF SidebarInv
  <2>3. CASE c.at = "failed" \/ c.seen # server
    <3>1. excused' = (c.at = "failed" \/ c.seen # server)
      BY <1>3 DEF Refreshed
    <3> QED BY <2>1, <2>2, <2>3, <3>1 DEF SidebarInv, ShownOrExcused
  <2>4. CASE c.at # "failed" /\ c.seen = server
    <3>1. store' = [store EXCEPT !.owned = [r \in Room |-> IF c.seen[r] = "owner" THEN 1 ELSE 0],
                                 !.recent = {r \in Room : c.seen[r] = "member"}]
      BY <1>3, <2>4 DEF Refreshed, StoreSet
    <3>2. /\ store'.owned = [r \in Room |-> IF server[r] = "owner" THEN 1 ELSE 0]
          /\ store'.recent = {r \in Room : server[r] = "member"}
      BY <2>4, <3>1 DEF LobbyInv, LobbyTyped, Store
    <3>3. \A r \in Room : AsServer(r)'
      BY <1>1, <3>2 DEF AsServer
    <3>4. session' # 0
      BY <1>1, <1>3 DEF LobbyInv, LobbyTyped, Owed, Mine
    <3> QED BY <2>1, <2>2, <3>3, <3>4 DEF SidebarInv, ShownOrExcused, ListShown
  <2> QED BY <2>3, <2>4
<1> QED BY <1>2, <1>3

LEMMA JoinedShown ==
  ASSUME LobbyInv, SidebarInv, NEW c \in UnderWay, RowJoined(c) \/ LinkJoined(c) \/ SilentlyJoined(c)
  PROVE  SidebarInv'
<1>1. /\ c.op \in {"row", "link", "silent"} /\ calls' = Ended(c) /\ Joined(c)
      /\ session' = session /\ server' = server /\ excused' = excused
  BY DEF RowJoined, LinkJoined, SilentlyJoined, AnswerStep, shell
<1>2. store'.owned = store.owned /\ store'.recent = store.recent
  <2>1. CASE store' = [store EXCEPT !.active = c.room, !.error = FALSE]
    BY <2>1 DEF LobbyInv, LobbyTyped, Store
  <2> QED BY <1>1, <2>1, ErrorOnly DEF Joined, Entered, NotEntered, StoreSet
<1>3. ~Refetches(c) /\ ~Adds(c)
  BY <1>1 DEF Refetches, Adds
<1> QED BY <1>1, <1>2, <1>3, CallEnds, OtherAnswers

LEMMA InviteShown ==
  ASSUME LobbyInv, SidebarInv, NEW c \in UnderWay, Previewed(c) \/ Redeemed(c) \/ RedeemFails(c)
  PROVE  SidebarInv'
<1>1. /\ c.op \in {"preview", "redeem"} /\ session' = session /\ server' = server /\ store' = store
      /\ excused' = excused
  BY DEF Previewed, Redeemed, RedeemFails, AnswerStep, shell
<1>2. RestGoesOn(c)
  <2>1. CASE calls' = Ended(c)
    BY <2>1, CallEnds
  <2>2. CASE Redeemed(c) /\ ~(c.room = NoRoom /\ Mine(c))
    <3>1. PICK x, d, A, J, R, Q :
            /\ x = CallOf("refresh", NoRoom) /\ d = [c EXCEPT !.op = "silent", !.at = "sent"]
            /\ A = IF Alive(c) /\ lobby.phase # "lobby" THEN SetToBag({x}) ELSE EmptyBag
            /\ J = IF c.room = NoRoom THEN EmptyBag ELSE SetToBag({d})
            /\ R = Ended(c) /\ Q = R (+) A /\ calls' = Q (+) J
      BY <2>2 DEF Redeemed
    <3>2. c \in Call
      BY DEF LobbyInv, Owed
    <3>3. x.op # "create" /\ d.op # "create"
      BY <3>1, <3>2 DEF CallOf, Call
    <3>4. Positive(A) /\ Positive(J) /\ DOMAIN A \subseteq {x} /\ DOMAIN J \subseteq {d}
      BY <3>1, OneSent, NothingSent
    <3>5. OneLess(R, calls, c)
      BY <3>1, BagWithout DEF SidebarInv, UnderWay, BagToSet, Ended
    <3>6. Both(Q, R, A)
      BY <3>1, <3>4, <3>5, BagWith DEF OneLess
    <3>7. Both(calls', Q, J)
      <4>1. Positive(Q)
        BY <3>6 DEF Both
      <4> QED BY <3>1, <3>4, <4>1, BagWith
    <3>8. CreatesOnce
      BY DEF SidebarInv
    <3> QED BY <3>3, <3>4, <3>5, <3>6, <3>7, <3>8
           DEF RestGoesOn, OneLess, Both, UnderWay, BagToSet, CreatesStay, CreatesOnce
  <2> QED BY <2>1, <2>2 DEF Previewed, Redeemed, RedeemFails
<1>3. ~Refetches(c) /\ ~Adds(c)
  BY <1>1 DEF Refetches, Adds
<1> QED BY <1>1, <1>2, <1>3, OtherAnswers

\* The new room is put into the list.
LEMMA CreatedShown == ASSUME LobbyInv, SidebarInv, NEW c \in UnderWay, Created(c) PROVE SidebarInv'
<1>1. /\ c.op = "create" /\ c.at # "sent" /\ calls' = Ended(c) /\ session' = session /\ server' = server
      /\ ~Refetches(c) /\ c.room \in Room
  BY DEF Created, AnswerStep, shell, Refetches, SidebarInv, CreatesOnce
<1>2. CASE c.at = "failed" \/ ~Mine(c)
  <2>1. store' = store /\ (excused' \/ ~excused) /\ ~Adds(c)
    BY <1>2 DEF Created, StoreSet, Adds
  <2> QED BY <1>1, <2>1, CallEnds, OtherAnswers
<1>3. CASE c.at # "failed" /\ Mine(c)
  <2>1. Positive(calls') /\ CreatesStay /\ UnderWay \ {c} \subseteq UnderWay'
    BY <1>1, CallEnds DEF RestGoesOn
  <2>2. CreatesOnce'
    BY <1>1, <2>1, CreatesKept DEF SidebarInv
  <2>3. CASE excused'
    BY <2>1, <2>2, <2>3 DEF SidebarInv, ShownOrExcused
  <2>4. CASE ~excused'
    <3>1. /\ ~excused /\ ~(store.owned[c.room] > 0) /\ server[c.room] = "owner"
          /\ store' = [store EXCEPT !.owned[c.room] = store.owned[c.room] + 1]
      BY <1>3, <2>4 DEF Created, StoreSet
    <3>2. /\ store \in Store /\ store.owned \in [Room -> Nat]
          /\ store' = [store EXCEPT !.owned = [store.owned EXCEPT ![c.room] = store.owned[c.room] + 1]]
      BY <3>1 DEF LobbyInv, LobbyTyped, Store
    <3>3. store.owned[c.room] = 0
      BY <1>1, <3>1, <3>2
    <3>4. /\ store'.recent = store.recent
          /\ \A r \in Room : store'.owned[r] = IF r = c.room THEN 1 ELSE store.owned[r]
      <4>1. PICK o : o = [store.owned EXCEPT ![c.room] = store.owned[c.room] + 1]
        OBVIOUS
      <4>2. store'.owned = o /\ store'.recent = store.recent
        BY <3>2, <4>1 DEF Store
      <4> QED BY <3>2, <3>3, <4>1, <4>2
    <3>5. session # 0 /\ ListShown
      BY <3>1 DEF SidebarInv, ShownOrExcused
    <3>6. CASE Fetching
      <4>1. Fetching'
        BY <1>1, <2>1, <3>6 DEF Fetching, Refetches, Mine
      <4> QED BY <1>1, <2>1, <2>2, <3>5, <4>1 DEF SidebarInv, ShownOrExcused, ListShown
    <3>7. CASE \A r \in Room : AsServer(r) \/ Adding(r)
      <4>1. AsServer(c.room)'
        <5>1. c.room \notin store.recent
          BY <1>1, <3>1, <3>7 DEF AsServer, Adding
        <5> QED BY <1>1, <3>1, <3>4, <5>1 DEF AsServer
      <4>2. ASSUME NEW r \in Room, r # c.room PROVE AsServer(r)' \/ Adding(r)'
        <5>1. CASE AsServer(r)
          BY <1>1, <3>4, <4>2, <5>1 DEF AsServer
        <5>2. CASE Adding(r)
          BY <1>1, <2>1, <3>4, <4>2, <5>2 DEF Adding, Adds, Mine
        <5> QED BY <3>7, <5>1, <5>2
      <4>3. \A r \in Room : (AsServer(r) \/ Adding(r))'
        BY <4>1, <4>2
      <4> QED BY <1>1, <2>1, <2>2, <3>5, <4>3 DEF SidebarInv, ShownOrExcused, ListShown
    <3> QED BY <3>5, <3>6, <3>7 DEF ListShown
  <2> QED BY <2>3, <2>4
<1> QED BY <1>2, <1>3

LEMMA LeftShown == ASSUME LobbyInv, SidebarInv, NEW c \in UnderWay, Left(c) PROVE SidebarInv'
<1>1. /\ c.op = "act" /\ c.at # "sent" /\ session' = session /\ server' = server /\ excused' = excused
  BY DEF Left, AnswerStep, shell
<1>2. store'.owned = store.owned /\ store'.recent = store.recent
  <2>1. \/ store' = store
        \/ \E e : store' = [store EXCEPT !.error = e]
    BY DEF Left, StoreSet
  <2> QED BY <2>1, ErrorOnly
<1>3. CASE c.at = "failed"
  <2>1. calls' = Ended(c) /\ ~Refetches(c) /\ ~Adds(c)
    BY <1>1, <1>3 DEF Left, Refetches, Adds
  <2> QED BY <1>1, <1>2, <2>1, CallEnds, OtherAnswers
<1>4. CASE c.at # "failed"
  <2>1. PICK d : /\ d = [c EXCEPT !.op = "refresh", !.room = NoRoom, !.at = "sent"]
                 /\ calls' = Ended(c) (+) SetToBag({d})
    BY <1>4 DEF Left
  <2>2. d.op = "refresh" /\ d.session = c.session
    BY <2>1 DEF LobbyInv, Owed, Call
  <2>3. RestGoesOn(c) /\ d \in UnderWay'
    BY <2>1, <2>2, CallGoesOn
  <2>4. CASE ~Mine(c)
    BY <1>1, <1>2, <2>3, <2>4, OtherAnswers DEF Refetches, Adds
  <2>5. CASE Mine(c)
    <3>1. Fetching'
      BY <1>1, <2>2, <2>3, <2>5 DEF Fetching, Refetches, Mine
    <3>2. Positive(calls') /\ CreatesOnce'
      BY <1>1, <2>3, CreatesKept DEF SidebarInv, RestGoesOn
    <3>3. ShownOrExcused'
      BY <1>1, <3>1 DEF SidebarInv, ShownOrExcused, ListShown
    <3> QED BY <3>2, <3>3 DEF SidebarInv
  <2> QED BY <2>4, <2>5
<1> QED BY <1>3, <1>4

\* The server handles a request, but for one to create a room.
LEMMA ServeOther ==
  ASSUME LobbyInv, SidebarInv, NEW c \in UnderWay, Serve(c), c.op # "create"
  PROVE  SidebarInv'
<1>1. /\ c.at = "sent" /\ session' = session /\ store' = store /\ c \in Call
      /\ excused' = (excused \/ (server' # server /\ (~Mine(c) \/ c.op = "redeem")))
  BY DEF Serve, shell, LobbyInv, Owed
<1>2. PICK d : /\ calls' = Ended(c) (+) SetToBag({d}) /\ d.op = c.op /\ d.session = c.session
               /\ d.at = "failed" => server' = server
               /\ d.at = "failed" \/ (d.at = "done" /\ server' = Effect(c))
  <2>1. PICK f : /\ f = IF c.op = "refresh" THEN server ELSE NoRooms
    OBVIOUS
  <2>2. PICK a, b : a = [c EXCEPT !.at = "done", !.seen = f] /\ b = [c EXCEPT !.at = "failed"]
    OBVIOUS
  <2>3. \/ server' = Effect(c) /\ calls' = Ended(c) (+) SetToBag({a})
        \/ server' = server /\ calls' = Ended(c) (+) SetToBag({b})
    <3>1. CASE c.op = "refresh"
      BY <2>1, <2>2, <3>1 DEF Serve
    <3>2. CASE c.op # "refresh"
      BY <2>1, <2>2, <3>2 DEF Serve
    <3> QED BY <3>1, <3>2
  <2>4. /\ a.op = c.op /\ a.session = c.session /\ a.at = "done"
        /\ b.op = c.op /\ b.session = c.session /\ b.at = "failed"
    BY <1>1, <2>2 DEF Call
  <2>5. CASE server' = Effect(c) /\ calls' = Ended(c) (+) SetToBag({a})
    BY <2>4, <2>5
  <2>6. CASE server' = server /\ calls' = Ended(c) (+) SetToBag({b})
    BY <2>4, <2>6
  <2> QED BY <2>3, <2>5, <2>6
<1>3. RestGoesOn(c) /\ d \in UnderWay'
  BY <1>2, CallGoesOn
<1>4. Positive(calls') /\ CreatesStay /\ UnderWay \ {c} \subseteq UnderWay'
  BY <1>3 DEF RestGoesOn
<1>5. CreatesOnce'
  <2>1. \A r \in Room : server[r] = "absent" => server'[r] = "absent"
    <3>1. server \in [Room -> Standing]
      BY DEF LobbyInv, LobbyTyped
    <3>2. CASE server' = server
      BY <3>2
    <3>3. CASE server' = Effect(c)
      <4>1. \/ Effect(c) = server
            \/ \E s : Effect(c) = [server EXCEPT ![c.room] = s] /\ server[c.room] # "absent"
        BY DEF Effect
      <4> QED BY <3>1, <3>3, <4>1
    <3> QED BY <1>2, <3>2, <3>3
  <2>2. \A x \in UnderWay : x.op = "create" /\ x.at = "sent" => server'[x.room] = server[x.room]
    BY <2>1 DEF SidebarInv, CreatesOnce
  <2> QED BY <1>4, <2>2, CreatesKept DEF SidebarInv
<1>6. ShownOrExcused'
  <2>1. CASE excused'
    BY <2>1 DEF ShownOrExcused
  <2>2. CASE ~excused' /\ c.op = "act" /\ Mine(c) /\ d.at = "done"
    <3>1. Fetching' /\ ~excused
      BY <1>1, <1>2, <1>3, <2>2 DEF Fetching, Refetches, Mine
    <3> QED BY <1>1, <3>1, ShownKept DEF SidebarInv
  <2>3. CASE ~excused' /\ ~(c.op = "act" /\ Mine(c) /\ d.at = "done")
    <3>1. ~excused /\ server' = server
      BY <1>1, <1>2, <2>3 DEF Effect
    <3>2. \A x \in UnderWay : Refetches(x) => Fetching'
      <4>1. \A x \in UnderWay : Refetches(x) /\ x # c => Fetching'
        BY <1>1, <1>4 DEF Fetching, Refetches, Mine
      <4>2. Refetches(c) => Refetches(d)'
        BY <1>1, <1>2 DEF Refetches, Mine
      <4> QED BY <1>3, <4>1, <4>2 DEF Fetching
    <3>3. \A x \in UnderWay : Adds(x) => x \in UnderWay'
      BY <1>1, <1>4 DEF Adds
    <3> QED BY <1>1, <3>1, <3>2, <3>3, ShownKept DEF SidebarInv
  <2> QED BY <2>1, <2>2, <2>3
<1> QED BY <1>4, <1>5, <1>6 DEF SidebarInv

LEMMA CreateHandled ==
  ASSUME SidebarInv, NEW c \in UnderWay, c.op = "create", c.at = "sent",
         NEW d, d.op = "create", d.room = c.room, d.at # "sent", calls' = Ended(c) (+) SetToBag({d}),
         \A r \in Room : r # c.room => server'[r] = server[r]
  PROVE  Positive(calls') /\ CreatesOnce' /\ UnderWay' = (UnderWay \ {c}) \cup {d}
<1>1. PICK R, M : R = Ended(c) /\ M = SetToBag({d})
  OBVIOUS
<1>2. OneLess(R, calls, c)
  BY <1>1, BagWithout DEF SidebarInv, UnderWay, BagToSet, Ended
<1>3. Positive(M) /\ DOMAIN M = {d} /\ M[d] = 1
  BY <1>1 DEF Positive, SetToBag
<1>4. Positive(R) /\ calls[c] = 1 /\ d \notin UnderWay
  BY <1>2 DEF OneLess, SidebarInv, CreatesOnce
<1>5. DOMAIN R = UnderWay \ {c} /\ \A x \in DOMAIN R : R[x] = calls[x]
  BY <1>2, <1>4 DEF OneLess, UnderWay, BagToSet
<1>6. Both(calls', R, M) /\ calls'[d] = 1
  <2>1. Both(calls', R, M)
    BY <1>1, <1>3, <1>4, BagWith
  <2>2. calls'[d] = (IF d \in DOMAIN R THEN R[d] ELSE 0) + (IF d \in DOMAIN M THEN M[d] ELSE 0)
    BY <1>1, <1>3 DEF (+)
  <2> QED BY <1>3, <1>4, <1>5, <2>1, <2>2
<1>7. /\ Positive(calls') /\ UnderWay' = (UnderWay \ {c}) \cup {d} /\ calls'[d] = 1
      /\ \A x \in UnderWay \ {c} : calls'[x] = calls[x]
  BY <1>3, <1>4, <1>5, <1>6 DEF Both, UnderWay, BagToSet
<1>8. CreatesOnce'
  <2>1. CreatesOnce
    BY DEF SidebarInv
  <2>2. \A x \in UnderWay \ {c} : x.op = "create" => x.room \in Room /\ x.room # c.room
    BY <2>1 DEF CreatesOnce
  <2>3. \A x \in UnderWay' : x.op = "create" =>
          x.room \in Room /\ calls'[x] = 1 /\ (x.at = "sent" => server'[x.room] = "absent")
    BY <1>7, <2>1, <2>2 DEF CreatesOnce
  <2>4. \A x, y \in UnderWay' : x.op = "create" /\ y.op = "create" /\ x.room = y.room => x = y
    BY <1>7, <2>1, <2>2 DEF CreatesOnce
  <2> QED BY <2>3, <2>4 DEF CreatesOnce
<1> QED BY <1>7, <1>8

\* A room is created: its answer will put it into the list.
LEMMA ServeCreate ==
  ASSUME LobbyInv, SidebarInv, NEW c \in UnderWay, Serve(c), c.op = "create"
  PROVE  SidebarInv'
<1>1. /\ c.at = "sent" /\ session' = session /\ store' = store /\ c \in Call
      /\ c.room \in Room /\ server[c.room] = "absent" /\ server \in [Room -> Standing]
  BY DEF Serve, shell, LobbyInv, LobbyTyped, Owed, SidebarInv, CreatesOnce
<1>2. ~Refetches(c) /\ ~Adds(c)
  BY <1>1 DEF Refetches, Adds
<1>3. CASE server' = server /\ calls' = Ended(c) (+) SetToBag({[c EXCEPT !.at = "failed"]})
  <2>1. PICK d : d = [c EXCEPT !.at = "failed"]
    OBVIOUS
  <2>2. d.op = "create" /\ d.room = c.room /\ d.at # "sent"
    BY <1>1, <2>1 DEF Call
  <2>3. Positive(calls') /\ CreatesOnce' /\ UnderWay' = (UnderWay \ {c}) \cup {d}
    BY <1>1, <1>3, <2>1, <2>2, CreateHandled
  <2>4. excused' = excused
    BY <1>3, <1>1 DEF Serve, SidebarInv, ShownOrExcused, LobbyInv, LobbyTyped
  <2>5. \A x \in UnderWay : Refetches(x) => Fetching'
    BY <1>1, <1>2, <2>3 DEF Fetching, Refetches, Mine
  <2>6. \A x \in UnderWay : Adds(x) => x \in UnderWay'
    BY <1>2, <2>3
  <2>7. ShownOrExcused'
    BY <1>1, <1>3, <2>4, <2>5, <2>6, ShownKept DEF SidebarInv, ShownOrExcused
  <2> QED BY <2>3, <2>7 DEF SidebarInv
<1>4. CASE /\ server' = [server EXCEPT ![c.room] = "owner"]
           /\ calls' = Ended(c) (+) SetToBag({[c EXCEPT !.at = "done", !.seen = NoRooms]})
  <2>1. PICK d : d = [c EXCEPT !.at = "done", !.seen = NoRooms]
    OBVIOUS
  <2>2. d.op = "create" /\ d.room = c.room /\ d.at = "done" /\ d.session = c.session
    BY <1>1, <2>1 DEF Call
  <2>3. Positive(calls') /\ CreatesOnce' /\ UnderWay' = (UnderWay \ {c}) \cup {d}
    BY <1>1, <1>4, <2>1, <2>2, CreateHandled
  <2>4. server' # server /\ server'[c.room] = "owner"
    BY <1>1, <1>4
  <2>5. excused' = (excused \/ ~Mine(c))
    BY <2>4 DEF Serve
  <2>6. CASE excused'
    BY <2>3, <2>6 DEF SidebarInv, ShownOrExcused
  <2>7. CASE ~excused'
    <3>1. ~excused /\ Mine(c) /\ session # 0 /\ ListShown
      BY <2>5, <2>7 DEF SidebarInv, ShownOrExcused
    <3>2. CASE Fetching
      <4>1. Fetching'
        BY <1>1, <1>2, <2>3, <3>2 DEF Fetching, Refetches, Mine
      <4> QED BY <1>1, <2>3, <3>1, <4>1 DEF SidebarInv, ShownOrExcused, ListShown
    <3>3. CASE \A r \in Room : AsServer(r) \/ Adding(r)
      <4>1. Adding(c.room)'
        <5>1. store.owned[c.room] = 0 /\ c.room \notin store.recent
          BY <1>1, <3>3 DEF AsServer, Adding
        <5>2. Adds(d)'
          BY <1>1, <2>2, <3>1 DEF Adds, Mine
        <5> QED BY <1>1, <2>2, <2>3, <2>4, <5>1, <5>2 DEF Adding
      <4>2. ASSUME NEW r \in Room, r # c.room PROVE AsServer(r)' \/ Adding(r)'
        <5>1. server'[r] = server[r]
          BY <1>1, <1>4, <4>2
        <5>2. CASE AsServer(r)
          BY <1>1, <5>1, <5>2 DEF AsServer
        <5>3. CASE Adding(r)
          BY <1>1, <1>2, <2>3, <5>1, <5>3 DEF Adding, Adds, Mine
        <5> QED BY <3>3, <5>2, <5>3
      <4>3. \A r \in Room : (AsServer(r) \/ Adding(r))'
        BY <4>1, <4>2
      <4> QED BY <1>1, <2>3, <3>1, <4>3 DEF SidebarInv, ShownOrExcused, ListShown
    <3> QED BY <3>1, <3>2, <3>3 DEF ListShown
  <2> QED BY <2>6, <2>7
<1> QED BY <1>1, <1>3, <1>4 DEF Serve, Effect

LEMMA SidebarInitially == LobbyInit => SidebarInv
<1> SUFFICES ASSUME LobbyInit PROVE SidebarInv
  OBVIOUS
<1>1. UnderWay = {} /\ Positive(calls) /\ excused
  BY NothingSent DEF LobbyInit, UnderWay, BagToSet
<1> QED BY <1>1 DEF SidebarInv, CreatesOnce, ShownOrExcused

LEMMA SidebarStep == LobbyInv /\ SidebarInv /\ [LobbyNext]_lobbyVars => SidebarInv'
<1> SUFFICES ASSUME LobbyInv, SidebarInv, [LobbyNext]_lobbyVars PROVE SidebarInv'
  OBVIOUS
<1>1. CASE UNCHANGED lobbyVars
  <2>1. UNCHANGED <<server, session, store, calls, excused>>
    BY <1>1 DEF lobbyVars, shell
  <2>2. Positive(calls') /\ CreatesOnce'
    BY <2>1 DEF SidebarInv, CreatesOnce, UnderWay
  <2>3. ShownOrExcused'
    BY <2>1 DEF SidebarInv, ShownOrExcused, ListShown, Fetching, Refetches, AsServer, Adding, Adds, Mine, UnderWay
  <2> QED BY <2>2, <2>3 DEF SidebarInv
<1>2. CASE \/ OpenForm \/ InviteComes \/ Redeem \/ CancelInvite \/ OpenModal
           \/ \E r \in Room : AttemptJoin(r) \/ OnJoin(r) \/ SilentJoin(r) \/ LeaveRoom(r)
  BY <1>2, UserShown
<1>3. CASE \E r \in Room : Create(r)
  BY <1>3, CreateShown
<1>4. CASE LeaveCall \/ CallJoins \/ PresenceUpdate \/ TimerFires \/ \E r \in Room : OthersAct(r)
  BY <1>4, ServerShown
<1>5. ASSUME NEW c \in UnderWay, Serve(c) PROVE SidebarInv'
  BY <1>5, ServeOther, ServeCreate
<1>6. ASSUME NEW c \in UnderWay, Answer(c) PROVE SidebarInv'
  BY <1>6, RefreshedShown, JoinedShown, InviteShown, CreatedShown, LeftShown DEF Answer
<1> QED BY <1>1, <1>2, <1>3, <1>4, <1>5, <1>6, ComesShown, SignsOutShown DEF LobbyNext

\* Once nothing is under way the lobby shows the rooms as they are on the
\* server, each once, but for what the history excuses (rooms-store.ts,
\* LobbyScreen).
THEOREM SidebarCorrect == LobbyInit /\ [][LobbyNext]_lobbyVars => []SidebarSettles
<1>1. SidebarInv => SidebarSettles
  <2> SUFFICES ASSUME SidebarInv, session # 0, calls = EmptyBag, ~excused, NEW r \in Room
               PROVE  /\ store.owned[r] = (IF server[r] = "owner" THEN 1 ELSE 0)
                      /\ r \in store.recent <=> server[r] = "member"
    BY DEF SidebarSettles
  <2>1. UnderWay = {}
    BY BagNone DEF UnderWay
  <2>2. AsServer(r)
    BY <2>1 DEF SidebarInv, ShownOrExcused, ListShown, Fetching, Adding
  <2> QED BY <2>2 DEF AsServer
<1> QED BY <1>1, LobbyInitially, LobbyStep, SidebarInitially, SidebarStep, PTL

-----------------------------------------------------------------------------
(* The links of a room.  All that the user has seen was made once, so a    *)
(* new link is none of those that requests under way would take away: as   *)
(* long as no link was revoked and the room is there, one link works that  *)
(* no request is about to take.                                            *)

\* The request takes its link away, once it is handled or goes on.
Takes(q) == q.op = "swap" \/ (q.op = "mint" /\ q.at = "done")

Fits(q) ==
  /\ q \in Query /\ q.seen.live \subseteq room.minted
  /\ q.op \in {"mint", "swap"} => q.link \in room.minted
  /\ Takes(q) => q.new \in room.minted
  /\ q.op = "revoke" => withdrawn

\* SettingsTypeOK, without its bounds and requests.
SettingsTyped ==
  /\ room \in RoomState /\ pane \in Pane /\ dialog \in Dialog /\ panes \in Nat /\ dialogs \in Nat
  /\ listed \in BOOLEAN /\ withdrawn \in BOOLEAN

LinksKnown ==
  /\ room.live \subseteq room.minted /\ pane.links \subseteq room.minted
  /\ dialog.kind = "edit" => dialog.current \in room.minted

LinkStays == withdrawn \/ \E l \in room.live : \A q \in Sending : Takes(q) => q.link # l

SettingsInv ==
  /\ SettingsTyped /\ LinksKnown /\ LinkStays
  /\ \A q \in Sending : Fits(q)

LEMMA ClosedTyped == Closed \in Pane /\ Closed.links = {}
  BY DEF Closed, Pane

LEMMA NoDialogTyped == NoDialog \in Dialog /\ NoDialog.kind = "none"
  BY DEF NoDialog, Dialog

LEMMA UnseenTyped == Unseen \in RoomState /\ Unseen.live = {}
  BY DEF Unseen, RoomState, Member

LEMMA SettingsInitially == SettingsInit => SettingsInv
<1> SUFFICES ASSUME SettingsInit PROVE SettingsInv
  OBVIOUS
<1> USE SettingsAssumption
<1>1. PICK l \in Link : room = [there |-> TRUE, owner |-> plays.owner, members |-> Member, live |-> {l},
                                minted |-> {l}, public |-> FALSE]
  BY DEF SettingsInit
<1>2. plays.owner \in Member
  BY DEF SettingsInit
<1>3. room \in RoomState
  BY <1>1, <1>2 DEF RoomState
<1>4. SettingsTyped
  BY <1>3, ClosedTyped, NoDialogTyped DEF SettingsInit, SettingsTyped
<1>5. Sending = {}
  BY BagNone DEF SettingsInit, Sending
<1>6. LinksKnown /\ LinkStays
  BY <1>1, <1>5, ClosedTyped, NoDialogTyped DEF SettingsInit, LinksKnown, LinkStays
<1> QED BY <1>4, <1>5, <1>6 DEF SettingsInv

\* A step the room does not see, that sends what takes no other link than
\* what was under way.
LEMMA RoomRests ==
  ASSUME SettingsInv, SettingsTyped', LinksKnown', room' = room, withdrawn => withdrawn',
         \A n \in Sending' : \/ n \in Sending
                             \/ Fits(n)' /\ (Takes(n) => \E q \in Sending : Takes(q) /\ q.link = n.link)
  PROVE  SettingsInv'
<1> USE DEF SettingsInv
<1>1. \A q \in Sending : Fits(q)'
  BY DEF Fits
<1>2. LinkStays'
  <2>1. CASE withdrawn'
    BY <2>1 DEF LinkStays
  <2>2. CASE ~withdrawn
    <3>1. PICK l \in room.live : \A q \in Sending : Takes(q) => q.link # l
      BY <2>2 DEF LinkStays
    <3>2. \A n \in Sending' : Takes(n) => n.link # l
      BY <3>1
    <3> QED BY <3>1, <3>2 DEF LinkStays
  <2> QED BY <2>1, <2>2
<1> QED BY <1>1, <1>2

LEMMA RequestTyped ==
  ASSUME SettingsInv, NEW op \in {"list", "load", "fetch", "save", "flip", "kick", "add", "transfer", "depart",
                                  "delete", "generate", "mint", "swap", "revoke"}
  PROVE  /\ NewRequest(op) \in Query /\ NewRequest(op).op = op /\ NewRequest(op).at = "sent"
         /\ NewRequest(op).seen.live = {}
<1>1. /\ panes \in Nat /\ dialogs \in Nat /\ Me \in Member /\ From \in {"tab", "dialog", "panel"}
      /\ Unseen \in RoomState
  BY UnseenTyped DEF SettingsInv, SettingsTyped, Member, From
<1> QED BY <1>1, UnseenTyped DEF NewRequest, Query

\* What is sent and is not about links changes nothing for them.
Plain(n) ==
  n \in Query /\ n.op \notin {"mint", "swap", "revoke"} /\ n.seen.live \subseteq room.minted

LEMMA PlainFits == ASSUME NEW n, Plain(n), UNCHANGED room PROVE Fits(n)' /\ ~Takes(n)
  BY DEF Plain, Fits, Takes

LEMMA SendsOne == ASSUME NEW n, Send(n) PROVE Sending' = Sending \cup {n}
  BY BagSum, BagOf DEF Send, Sending

LEMMA FollowsOne == ASSUME NEW q, NEW n, Next1(q, n) PROVE Sending' \subseteq Sending \cup {n}
  BY BagSum, BagRest, BagOf DEF Next1, Sending

LEMMA DropsOne == ASSUME NEW q, Drop(q) PROVE Sending' \subseteq Sending
  BY BagRest DEF Drop, Sending

\* A step of what is open, that sends at most what is plain.
LEMMA QuietStep ==
  ASSUME SettingsInv, UNCHANGED <<room, withdrawn>>, listed' \in BOOLEAN, panes' \in Nat, dialogs' \in Nat,
         pane' \in Pane, pane'.links \subseteq room.minted,
         dialog' \in Dialog, dialog'.kind = "edit" => dialog'.current \in room.minted,
         \A n \in Sending' : n \in Sending \/ Plain(n)
  PROVE  SettingsInv'
<1>1. SettingsTyped' /\ LinksKnown'
  BY DEF SettingsInv, SettingsTyped, LinksKnown
<1>2. \A n \in Sending' : n \in Sending \/ (Fits(n)' /\ ~Takes(n))
  BY PlainFits
<1> QED BY <1>1, <1>2, RoomRests

LEMMA SendsPlain ==
  ASSUME SettingsInv, NEW n, Plain(n), Send(n)
  PROVE  \A m \in Sending' : m \in Sending \/ Plain(m)
  BY SendsOne

LEMMA SendsNothing ==
  ASSUME UNCHANGED requests PROVE \A m \in Sending' : m \in Sending \/ Plain(m)
  BY DEF Sending

LEMMA OpenTyped ==
  ASSUME SettingsInv
  PROVE  /\ pane \in Pane /\ pane.links \subseteq room.minted /\ panes \in Nat /\ dialogs \in Nat
         /\ listed \in BOOLEAN
         /\ dialog \in Dialog /\ (dialog.kind = "edit" => dialog.current \in room.minted)
  BY DEF SettingsInv, SettingsTyped, LinksKnown

LEMMA BusyTyped ==
  ASSUME SettingsInv, BusyPane PROVE pane' \in Pane /\ pane'.links \subseteq room.minted
  BY OpenTyped DEF BusyPane, Pane

LEMMA ShowsStep ==
  ASSUME SettingsInv, NEW kind \in {"overview", "members", "invites", "danger", "info"}, NEW owned \in BOOLEAN,
         Shows(kind, owned), UNCHANGED <<room, listed>>
  PROVE  SettingsInv'
<1>1. panes' \in Nat /\ dialogs' \in Nat /\ UNCHANGED <<room, withdrawn>>
  BY OpenTyped DEF Shows
<1>2. pane' \in Pane /\ pane'.links \subseteq room.minted
  <2>1. PICK b : b = (kind \in {"overview", "danger"})
    OBVIOUS
  <2>2. b \in BOOLEAN
    BY <2>1
  <2>3. pane' = [Closed EXCEPT !.kind = kind, !.owned = owned, !.loaded = b]
    BY <2>1 DEF Shows
  <2> QED BY <2>2, <2>3 DEF Closed, Pane
<1>3. dialog' \in Dialog /\ dialog'.kind # "edit"
  BY NoDialogTyped DEF Shows
<1>4. \A n \in Sending' : n \in Sending \/ Plain(n)
  <2>1. CASE UNCHANGED requests
    BY <2>1, SendsNothing
  <2>2. ASSUME NEW op \in {"load", "fetch"}, Send([NewRequest(op) EXCEPT !.pane = panes + 1])
        PROVE  \A n \in Sending' : n \in Sending \/ Plain(n)
    <3>1. PICK n : n = [NewRequest(op) EXCEPT !.pane = panes + 1]
      OBVIOUS
    <3>2. Plain(n)
      <4>1. panes + 1 \in Nat
        BY OpenTyped
      <4> QED BY <3>1, <4>1, RequestTyped DEF Plain, Query
    <3> QED BY <2>2, <3>1, <3>2, SendsPlain
  <2> QED BY <2>1, <2>2 DEF Shows
<1> QED BY <1>1, <1>2, <1>3, <1>4, OpenTyped, QuietStep

\* Opening and closing.
LEMMA OpensStep ==
  ASSUME SettingsInv, NEW k \in {"overview", "members", "invites", "danger"},
         OpenSettings \/ OpenInfo \/ SwitchTab(k)
  PROVE  SettingsInv'
<1>1. pane.owned \in BOOLEAN
  BY OpenTyped DEF Pane
<1>2. CASE OpenSettings
  BY <1>2, OpenTyped, ShowsStep DEF OpenSettings
<1>3. CASE OpenInfo
  BY <1>3, ShowsStep DEF OpenInfo, Pressed
<1>4. CASE SwitchTab(k)
  BY <1>1, <1>4, ShowsStep DEF SwitchTab, Pressed
<1> QED BY <1>2, <1>3, <1>4

LEMMA FetchIsPlain == ASSUME SettingsInv PROVE Plain(NewRequest("fetch"))
  BY RequestTyped DEF Plain

LEMMA DialogStep ==
  ASSUME SettingsInv, NEW k \in {"create", "edit", "transfer"}, NEW l \in Link \cup {NoInvite},
         ClosePane \/ CloseDialog \/ OpenDialog(k, l)
  PROVE  SettingsInv'
<1>1. CASE ClosePane
  <2>1. pane' \in Pane /\ pane'.links = {}
    BY <1>1, ClosedTyped DEF ClosePane
  <2> QED BY <1>1, <2>1, OpenTyped, QuietStep, SendsNothing DEF ClosePane, Pressed
<1>2. CASE CloseDialog
  <2>1. dialog' \in Dialog /\ dialog'.kind # "edit"
    BY <1>2, NoDialogTyped DEF CloseDialog
  <2>2. \A n \in Sending' : n \in Sending \/ Plain(n)
    BY <1>2, FetchIsPlain, SendsPlain, SendsNothing DEF CloseDialog
  <2> QED BY <1>2, <2>1, <2>2, OpenTyped, QuietStep DEF CloseDialog, Pressed
<1>3. CASE OpenDialog(k, l)
  <2>1. dialog' = [NoDialog EXCEPT !.kind = k, !.current = l] /\ dialogs' = dialogs + 1
    BY <1>3 DEF OpenDialog
  <2>2. dialog' \in Dialog /\ dialog'.kind = k /\ dialog'.current = l
    BY <2>1 DEF NoDialog, Dialog
  <2>3. k = "edit" => l \in room.minted
    BY <1>3, OpenTyped DEF OpenDialog
  <2>4. \A n \in Sending' : n \in Sending \/ Plain(n)
    BY <1>3, FetchIsPlain, SendsPlain, SendsNothing DEF OpenDialog
  <2>5. UNCHANGED <<room, withdrawn, listed, pane, panes>> /\ dialogs' \in Nat
    BY <1>3, <2>1, OpenTyped DEF OpenDialog, Pressed
  <2> QED BY <2>2, <2>3, <2>4, <2>5, OpenTyped, QuietStep
<1> QED BY <1>1, <1>2, <1>3

\* What the user does, one thing at a time.
LEMMA ActsStep ==
  ASSUME SettingsInv, NEW b \in BOOLEAN, Save(b) \/ Flip \/ Depart \/ Generate PROVE SettingsInv'
<1> SUFFICES \A n \in Sending' : n \in Sending \/ Plain(n)
  <2>1. UNCHANGED <<room, withdrawn, listed, panes, dialogs>>
    BY DEF Save, Flip, Depart, Generate, Pressed
  <2>2. pane' \in Pane /\ pane'.links \subseteq room.minted
    BY BusyTyped, OpenTyped DEF Save, Flip, Depart, Generate
  <2>3. UNCHANGED dialog \/ dialog' = [dialog EXCEPT !.busy = TRUE]
    BY DEF Save, Flip, Depart, Generate
  <2>4. dialog' \in Dialog /\ dialog'.kind = dialog.kind /\ dialog'.current = dialog.current
    BY <2>3, OpenTyped DEF Dialog
  <2> QED BY <2>1, <2>2, <2>4, OpenTyped, QuietStep
<1>1. ASSUME NEW op \in {"save", "flip"}, NEW c \in BOOLEAN, Send([NewRequest(op) EXCEPT !.choice = c])
      PROVE  \A n \in Sending' : n \in Sending \/ Plain(n)
  <2>1. PICK n : n = [NewRequest(op) EXCEPT !.choice = c]
    OBVIOUS
  <2>2. Plain(n)
    BY <2>1, RequestTyped DEF Plain, Query
  <2> QED BY <1>1, <2>1, <2>2, SendsPlain
<1>2. ASSUME NEW op \in {"delete", "depart", "generate"}, Send(NewRequest(op))
      PROVE  \A n \in Sending' : n \in Sending \/ Plain(n)
  <2>1. Plain(NewRequest(op))
    BY RequestTyped DEF Plain
  <2> QED BY <1>2, <2>1, SendsPlain
<1>3. CASE Save(b)
  BY <1>1, <1>3 DEF Save
<1>4. CASE Flip
  <2>1. PICK c : c = ~pane.public
    OBVIOUS
  <2>2. c \in BOOLEAN
    BY <2>1, Zenon
  <2>3. Send([NewRequest("flip") EXCEPT !.choice = c])
    BY <1>4, <2>1 DEF Flip
  <2> QED BY <1>1, <2>2, <2>3
<1>5. CASE Depart \/ Generate
  BY <1>2, <1>5 DEF Depart, Generate
<1> QED BY <1>3, <1>4, <1>5

LEMMA PeopleStep ==
  ASSUME SettingsInv, NEW m \in Member, NEW leave \in BOOLEAN, Kick(m) \/ AddFriend(m) \/ Transfer(m, leave)
  PROVE  SettingsInv'
<1>1. UNCHANGED <<room, withdrawn, listed, panes, dialogs>>
  BY DEF Kick, AddFriend, Transfer, Pressed
<1>2. pane' \in Pane /\ pane'.links \subseteq room.minted
  <2>1. UNCHANGED pane \/ BusyPane \/ pane' = [pane EXCEPT !.adding = TRUE]
    BY DEF Kick, AddFriend, Transfer
  <2> QED BY <2>1, BusyTyped, OpenTyped DEF Pane
<1>3. dialog' \in Dialog /\ dialog'.kind = dialog.kind /\ dialog'.current = dialog.current
  <2>1. UNCHANGED dialog \/ dialog' = [dialog EXCEPT !.busy = TRUE]
    BY DEF Kick, AddFriend, Transfer
  <2> QED BY <2>1, OpenTyped DEF Dialog
<1>4. \A n \in Sending' : n \in Sending \/ Plain(n)
  <2>1. ASSUME NEW op \in {"kick", "add", "transfer"}, NEW c \in BOOLEAN, NEW n,
               n = [NewRequest(op) EXCEPT !.member = m] \/ n = [NewRequest(op) EXCEPT !.member = m, !.choice = c]
        PROVE  Plain(n)
    <3>1. NewRequest(op) \in Query /\ NewRequest(op).op = op /\ NewRequest(op).seen.live = {}
      BY RequestTyped
    <3>2. \A r \in Query : /\ [r EXCEPT !.member = m] \in Query
                           /\ [r EXCEPT !.member = m, !.choice = c] \in Query
      BY DEF Query
    <3>3. n \in Query
      BY <2>1, <3>1, <3>2
    <3>4. n.op = op /\ n.seen.live = {}
      BY <2>1, <3>1 DEF Query
    <3> QED BY <3>3, <3>4 DEF Plain
  <2>2. PICK k : k = [NewRequest("kick") EXCEPT !.member = m]
    OBVIOUS
  <2>3. PICK a : a = [NewRequest("add") EXCEPT !.member = m]
    OBVIOUS
  <2>4. PICK t : t = [NewRequest("transfer") EXCEPT !.member = m, !.choice = leave]
    OBVIOUS
  <2>5. Plain(k) /\ Plain(a) /\ Plain(t)
    BY <2>1, <2>2, <2>3, <2>4
  <2>6. Send(k) \/ Send(a) \/ Send(t)
    BY <2>2, <2>3, <2>4 DEF Kick, AddFriend, Transfer
  <2> QED BY <2>5, <2>6, SendsPlain
<1> QED BY <1>1, <1>2, <1>3, <1>4, OpenTyped, QuietStep

LEMMA ReissueStep == ASSUME SettingsInv, Reissue PROVE SettingsInv'
<1>1. UNCHANGED <<room, withdrawn, listed, panes, dialogs, pane>>
  BY DEF Reissue, Pressed
<1>2. dialog' \in Dialog /\ dialog'.kind = dialog.kind /\ dialog'.current = dialog.current
  BY OpenTyped DEF Reissue, Dialog
<1>3. SettingsTyped' /\ LinksKnown'
  BY <1>1, <1>2 DEF SettingsInv, SettingsTyped, LinksKnown
<1>4. PICK n : n = [NewRequest("mint") EXCEPT !.link = dialog.current]
  OBVIOUS
<1>5. Fits(n)' /\ ~Takes(n)
  <2>1. dialog.current \in Link \cup {NoInvite} /\ dialog.current \in room.minted
    BY OpenTyped DEF Reissue, Dialog
  <2>2. n \in Query /\ n.op = "mint" /\ n.at = "sent" /\ n.seen.live = {} /\ n.link = dialog.current
    BY <1>4, <2>1, RequestTyped DEF Query
  <2> QED BY <1>1, <2>1, <2>2 DEF Fits, Takes
<1>6. Sending' = Sending \cup {n}
  BY <1>4, SendsOne DEF Reissue
<1> QED BY <1>1, <1>3, <1>5, <1>6, RoomRests

LEMMA RevokeStep == ASSUME SettingsInv, NEW l \in Link, Revoke(l) PROVE SettingsInv'
<1>1. UNCHANGED <<room, listed, panes, dialogs, pane>> /\ withdrawn'
  BY DEF Revoke, Pressed
<1>2. dialog' \in Dialog /\ dialog'.kind = dialog.kind /\ dialog'.current = dialog.current
  BY OpenTyped DEF Revoke, Dialog
<1>3. SettingsTyped' /\ LinksKnown'
  <2>1. withdrawn' \in BOOLEAN
    BY DEF Revoke
  <2> QED BY <1>1, <1>2, <2>1 DEF SettingsInv, SettingsTyped, LinksKnown
<1>4. PICK n : n = [NewRequest("revoke") EXCEPT !.link = l]
  OBVIOUS
<1>5. Fits(n)' /\ ~Takes(n)
  <2>1. n \in Query /\ n.op = "revoke" /\ n.seen.live = {}
    BY <1>4, RequestTyped DEF Query
  <2> QED BY <1>1, <2>1 DEF Fits, Takes
<1>6. Sending' = Sending \cup {n}
  BY <1>4, SendsOne DEF Revoke
<1> QED BY <1>1, <1>3, <1>5, <1>6, RoomRests

\* The server makes links and never unmakes one; what it takes away is what
\* the request says, or the room.
LEMMA MadeRoom ==
  ASSUME SettingsInv, NEW q \in Sending, NEW r \in Made(q)
  PROVE  /\ r \in RoomState /\ r.live \subseteq r.minted /\ room.minted \subseteq r.minted
         /\ \/ /\ q.op # "mint"
               /\ ~r.there \/ \A l \in room.live : l \in r.live \/ (q.op \in {"swap", "revoke"} /\ l = q.link)
            \/ /\ q.op = "mint"
               /\ \E l \in Link \ room.minted : r.live = room.live \cup {l} /\ r.minted = room.minted \cup {l}
<1>1. q \in Query /\ room \in RoomState /\ room.live \subseteq room.minted /\ room.there
  <2>1. q \in Query /\ room \in RoomState /\ room.live \subseteq room.minted
    BY DEF SettingsInv, SettingsTyped, LinksKnown, Fits
  <2>2. room.there
    BY DEF Made
  <2> QED BY <2>1, <2>2
<1>2. CASE q.op \in {"save", "flip"}
  <2>1. r = [room EXCEPT !.public = q.choice]
    BY <1>1, <1>2 DEF Made
  <2> QED BY <1>1, <1>2, <2>1 DEF RoomState, Query
<1>3. CASE q.op \in {"kick", "depart", "add"}
  <2>1. PICK s \in SUBSET Member : r = [room EXCEPT !.members = s]
    <3>1. q.member \in Member /\ room.members \subseteq Member /\ Me \in Member
      BY <1>1 DEF Query, RoomState, Member
    <3> QED BY <1>1, <1>3, <3>1 DEF Made
  <2> QED BY <1>1, <1>3, <2>1 DEF RoomState
<1>4. CASE q.op = "transfer"
  <2>1. r = [room EXCEPT !.owner = q.member]
    BY <1>1, <1>4 DEF Made
  <2> QED BY <1>1, <1>4, <2>1 DEF RoomState, Query
<1>5. CASE q.op = "delete"
  <2>1. r = Gone
    BY <1>1, <1>5 DEF Made
  <2> QED BY <1>1, <1>5, <2>1 DEF RoomState, Gone
<1>6. CASE q.op \in {"generate", "mint"}
  <2>1. PICK l \in Link \ room.minted :
          r = [room EXCEPT !.live = @ \cup {l}, !.minted = @ \cup {l}]
    BY <1>1, <1>6 DEF Made
  <2>2. r \in RoomState /\ r.live = room.live \cup {l} /\ r.minted = room.minted \cup {l}
    BY <1>1, <2>1 DEF RoomState
  <2> QED BY <1>1, <1>6, <2>2
<1>7. CASE q.op \in {"swap", "revoke"}
  <2>1. r = [room EXCEPT !.live = @ \ {q.link}]
    BY <1>1, <1>7 DEF Made
  <2>2. r \in RoomState /\ r.live = room.live \ {q.link} /\ r.minted = room.minted
    BY <1>1, <2>1 DEF RoomState
  <2> QED BY <1>1, <1>7, <2>2
<1>8. CASE q.op \in {"list", "load", "fetch"}
  <2>1. r = room
    BY <1>1, <1>8 DEF Made
  <2> QED BY <1>1, <1>8, <2>1
<1> QED BY <1>1, <1>2, <1>3, <1>4, <1>5, <1>6, <1>7, <1>8 DEF Query

\* The link that stays, once a request is handled: a new one, or the one that stayed.
LEMMA StaysHandled ==
  ASSUME SettingsInv, NEW q \in Sending, q.at = "sent", room' \in Made(q), ~withdrawn, room'.there
  PROVE  \E l \in room'.live : /\ q.op = "mint" => q.link # l
                               /\ \A n \in Sending : Takes(n) => n.link # l
<1>1. CASE q.op = "mint"
  <2>1. PICK l \in Link \ room.minted : room'.live = room.live \cup {l}
    BY <1>1, MadeRoom
  <2>2. q.link \in room.minted /\ \A n \in Sending : Takes(n) => n.link \in room.minted
    BY <1>1 DEF SettingsInv, Fits, Takes
  <2> QED BY <2>1, <2>2
<1>2. CASE q.op # "mint" /\ ~Takes(q)
  <2>1. PICK l \in room.live : \A n \in Sending : Takes(n) => n.link # l
    BY DEF SettingsInv, LinkStays
  <2>2. q.op # "revoke"
    BY DEF SettingsInv, Fits
  <2>3. l \in room'.live
    BY <1>2, <2>2, MadeRoom DEF Takes
  <2> QED BY <1>2, <2>1, <2>3
<1>3. CASE Takes(q)
  <2>1. PICK l \in room.live : \A n \in Sending : Takes(n) => n.link # l
    BY DEF SettingsInv, LinkStays
  <2> QED BY <1>3, <2>1, MadeRoom DEF Takes
<1> QED BY <1>1, <1>2, <1>3

\* The answer to a request fits the room that became of it.
LEMMA AnswerFits ==
  ASSUME SettingsInv, NEW q \in Sending, room' \in Made(q), withdrawn => withdrawn',
         NEW n \in Query, n.op = q.op, n.link = q.link, n.seen = room' \/ n.seen = Unseen,
         q.op = "mint" => n.new \in room'.minted, q.op # "mint" => n.new = q.new
  PROVE  Fits(n)'
<1>1. room' \in RoomState /\ room'.live \subseteq room'.minted /\ room.minted \subseteq room'.minted
  BY MadeRoom
<1>2. Fits(q)
  BY DEF SettingsInv
<1>3. Takes(n) => n.new \in room'.minted
  BY <1>1, <1>2 DEF Takes, Fits
<1>4. n.seen.live \subseteq room'.minted
  BY <1>1, UnseenTyped
<1>5. n.op \in {"mint", "swap"} => n.link \in room'.minted
  BY <1>1, <1>2 DEF Fits
<1>6. n.op = "revoke" => withdrawn'
  BY <1>2 DEF Fits
<1> QED BY <1>3, <1>4, <1>5, <1>6 DEF Fits

LEMMA FailureFits ==
  ASSUME NEW q, NEW n, n = [q EXCEPT !.at = "failed"], Fits(q)'
  PROVE  Fits(n)' /\ n.link = q.link /\ (Takes(n) => Takes(q))
<1>1. n \in Query /\ n.op = q.op /\ n.link = q.link /\ n.new = q.new /\ n.seen = q.seen /\ n.at = "failed"
  BY DEF Fits, Query
<1>2. Takes(n) => Takes(q)
  BY <1>1 DEF Takes
<1> QED BY <1>1, <1>2 DEF Fits

LEMMA HandlesStep == ASSUME SettingsInv, NEW q \in Sending, Handle(q) PROVE SettingsInv'
<1>1. UNCHANGED <<listed, pane, panes, dialog, dialogs>> /\ q.at = "sent"
      /\ withdrawn' = (withdrawn \/ ~room'.there)
  BY DEF Handle
<1>2. withdrawn' \in BOOLEAN /\ (withdrawn => withdrawn') /\ (~room'.there => withdrawn')
  BY <1>1
<1>3. CASE room' \in Made(q)
  <2>1. room' \in RoomState /\ room'.live \subseteq room'.minted /\ room.minted \subseteq room'.minted
    BY <1>3, MadeRoom
  <2>2. SettingsTyped' /\ LinksKnown'
    BY <1>1, <1>2, <2>1 DEF SettingsInv, SettingsTyped, LinksKnown
  <2>3. \A m \in Sending : Fits(m)'
    BY <1>2, <2>1 DEF SettingsInv, Fits
  <2>4. PICK n : /\ Next1(q, n) /\ Fits(n)' /\ n.link = q.link
                 /\ Takes(n) => Takes(q) \/ q.op = "mint"
    <3>1. CASE Next1(q, [q EXCEPT !.at = "failed"])
      <4>1. PICK n : n = [q EXCEPT !.at = "failed"]
        OBVIOUS
      <4> QED BY <2>3, <3>1, <4>1, FailureFits
    <3>2. CASE ~Next1(q, [q EXCEPT !.at = "failed"])
      <4>1. PICK made : made = CHOOSE l \in room'.minted : l \notin room.minted
        OBVIOUS
      <4>2. PICK new : new = IF q.op = "mint" THEN made ELSE q.new
        OBVIOUS
      <4>3. PICK view : view = IF q.op \in {"list", "load", "fetch"} THEN room' ELSE Unseen
        OBVIOUS
      <4>4. PICK n : n = [q EXCEPT !.at = "done", !.new = new, !.seen = view]
        OBVIOUS
      <4>5. Next1(q, n)
        BY <3>2, <4>1, <4>2, <4>3, <4>4 DEF Handle
      <4>6. Fits(n)' /\ n.op = q.op /\ n.link = q.link
        <5>1. view \in RoomState /\ (view = room' \/ view = Unseen)
          BY <2>1, <4>3, UnseenTyped
        <5>2. q.op # "mint" => new = q.new
          BY <4>2
        <5>3. ASSUME q.op = "mint" PROVE new \in room'.minted
          <6>1. PICK l \in Link \ room.minted : room'.minted = room.minted \cup {l}
            BY <1>3, <5>3, MadeRoom
          <6>2. made \in room'.minted
            BY <4>1, <6>1
          <6> QED BY <4>2, <5>3, <6>2
        <5>4. q \in Query /\ room'.minted \subseteq Link
          BY <2>1 DEF SettingsInv, Fits, RoomState
        <5>5. new \in Link \cup {NoInvite}
          BY <5>2, <5>3, <5>4 DEF Query
        <5>6. n \in Query /\ n.op = q.op /\ n.link = q.link /\ n.new = new /\ n.seen = view
          BY <4>4, <5>1, <5>4, <5>5 DEF Query
        <5> QED BY <1>2, <1>3, <5>1, <5>2, <5>3, <5>6, AnswerFits
      <4> QED BY <4>5, <4>6 DEF Takes
    <3> QED BY <3>1, <3>2
  <2>5. \A m \in Sending' : Fits(m)'
    BY <2>4, <2>3, FollowsOne
  <2>6. LinkStays'
    <3>1. CASE withdrawn'
      BY <3>1 DEF LinkStays
    <3>2. CASE ~withdrawn'
      <4>1. PICK l \in room'.live : /\ q.op = "mint" => q.link # l
                                    /\ \A m \in Sending : Takes(m) => m.link # l
        BY <1>1, <1>2, <1>3, <3>2, StaysHandled
      <4>2. \A m \in Sending' : Takes(m) => m.link # l
        BY <2>4, <4>1, FollowsOne
      <4> QED BY <4>1, <4>2 DEF LinkStays
    <3> QED BY <3>1, <3>2
  <2> QED BY <2>2, <2>5, <2>6 DEF SettingsInv
<1>4. CASE room' \notin Made(q)
  <2>1. Next1(q, [q EXCEPT !.at = "failed"]) /\ room' = room
    BY <1>4 DEF Handle
  <2>2. SettingsTyped' /\ LinksKnown'
    BY <1>1, <1>2, <2>1 DEF SettingsInv, SettingsTyped, LinksKnown
  <2>3. PICK n : n = [q EXCEPT !.at = "failed"]
    OBVIOUS
  <2>4. Fits(q)'
    BY <1>2, <2>1 DEF SettingsInv, Fits
  <2>5. Fits(n)' /\ n.link = q.link /\ (Takes(n) => Takes(q))
    BY <2>3, <2>4, FailureFits
  <2>6. Sending' \subseteq Sending \cup {n}
    BY <2>1, <2>3, FollowsOne
  <2> QED BY <1>2, <2>1, <2>2, <2>5, <2>6, RoomRests
<1> QED BY <1>3, <1>4

LEMMA OthersStep == ASSUME SettingsInv, OthersDo PROVE SettingsInv'
<1>1. /\ UNCHANGED <<listed, pane, panes, dialog, dialogs, requests>>
      /\ withdrawn' = (withdrawn \/ ~room'.there)
  BY DEF OthersDo
<1>2. withdrawn' \in BOOLEAN /\ (withdrawn => withdrawn') /\ (~room'.there => withdrawn')
  BY <1>1
<1>3. /\ room' \in RoomState /\ room'.minted = room.minted
      /\ room'.live \subseteq room.live /\ (room'.live = room.live \/ ~room'.there)
  <2>1. room \in RoomState
    BY DEF SettingsInv, SettingsTyped
  <2>2. CASE room' = Gone
    BY <2>1, <2>2 DEF RoomState, Gone
  <2>3. CASE room' # Gone
    <3>1. PICK s \in SUBSET Member : room' = [room EXCEPT !.members = s]
      BY <2>1, <2>3 DEF OthersDo, RoomState
    <3> QED BY <2>1, <3>1 DEF RoomState
  <2> QED BY <2>2, <2>3
<1>4. SettingsTyped' /\ LinksKnown'
  BY <1>1, <1>2, <1>3 DEF SettingsInv, SettingsTyped, LinksKnown
<1>5. Sending' = Sending
  BY <1>1 DEF Sending
<1>6. \A q \in Sending : Fits(q)'
  BY <1>2, <1>3 DEF SettingsInv, Fits
<1>7. LinkStays'
  BY <1>2, <1>3, <1>5 DEF SettingsInv, LinkStays
<1> QED BY <1>4, <1>5, <1>6, <1>7 DEF SettingsInv

\* What is open after an answer.
LEMMA ShownTyped ==
  ASSUME SettingsInv, NEW q, NEW p \in Pane, p.links \subseteq room.minted, PaneSet(q, p) \/ UNCHANGED pane
  PROVE  pane' \in Pane /\ pane'.links \subseteq room.minted
  BY OpenTyped DEF PaneSet

LEMMA PaneVariants ==
  ASSUME SettingsInv, NEW b \in BOOLEAN
  PROVE  /\ LET p == [pane EXCEPT !.busy = b] IN p \in Pane /\ p.links \subseteq room.minted
         /\ LET p == [pane EXCEPT !.adding = b] IN p \in Pane /\ p.links \subseteq room.minted
         /\ LET p == [pane EXCEPT !.busy = FALSE, !.public = b] IN p \in Pane /\ p.links \subseteq room.minted
         /\ LET p == [pane EXCEPT !.busy = FALSE, !.owned = b] IN p \in Pane /\ p.links \subseteq room.minted
         /\ \A m \in SUBSET Member :
              LET p == [pane EXCEPT !.busy = FALSE, !.members = m] IN p \in Pane /\ p.links \subseteq room.minted
  BY OpenTyped DEF Pane

LEMMA DialogFreed ==
  ASSUME SettingsInv, NEW q, NEW b \in BOOLEAN,
         DialogSet(q, [dialog EXCEPT !.busy = b]) \/ UNCHANGED dialog
  PROVE  dialog' \in Dialog /\ (dialog'.kind = "edit" => dialog'.current \in room.minted)
  BY OpenTyped DEF DialogSet, Dialog

LEMMA DropsPlain ==
  ASSUME NEW q, Drop(q) PROVE \A n \in Sending' : n \in Sending \/ Plain(n)
  BY DropsOne

LEMMA FollowsPlain ==
  ASSUME NEW q, NEW n, Next1(q, n), Plain(n) PROVE \A m \in Sending' : m \in Sending \/ Plain(m)
  BY FollowsOne

LEMMA ListIsPlain == ASSUME SettingsInv PROVE Plain(NewRequest("list"))
  BY RequestTyped DEF Plain

\* The request goes on as another.
LEMMA GoesOn ==
  ASSUME SettingsInv, NEW q \in Sending, NEW op \in {"fetch", "depart"}, NEW a \in {"none", "kick", "add"},
         NEW n, n = [q EXCEPT !.op = op, !.at = "sent", !.after = a] \/ n = [q EXCEPT !.op = op, !.at = "sent"]
  PROVE  Plain(n)
<1>1. q \in Query /\ q.seen.live \subseteq room.minted
  BY DEF SettingsInv, Fits
<1>2. n \in Query /\ n.op = op /\ n.seen = q.seen
  BY <1>1 DEF Query
<1> QED BY <1>1, <1>2 DEF Plain

LEMMA ListHeardStep == ASSUME SettingsInv, NEW q \in Sending, ListHeard(q) PROVE SettingsInv'
<1>1. listed' \in BOOLEAN
  <2>1. listed' = listed \/ listed' = (q.seen.there /\ q.seen.owner = Me)
    BY DEF ListHeard
  <2>2. PICK b : b = (q.seen.there /\ q.seen.owner = Me)
    OBVIOUS
  <2>3. b \in BOOLEAN
    BY <2>2
  <2> QED BY <2>1, <2>2, <2>3, OpenTyped
<1>2. \A n \in Sending' : n \in Sending \/ Plain(n)
  BY DropsPlain DEF ListHeard
<1> QED BY <1>1, <1>2, OpenTyped, QuietStep DEF ListHeard, Heard

LEMMA FetchedStep == ASSUME SettingsInv, NEW q \in Sending, Fetched(q) PROVE SettingsInv'
<1>1. q \in Query /\ q.seen.live \subseteq room.minted /\ q.seen \in RoomState
  BY DEF SettingsInv, Fits, Query
<1>2. pane \in Pane /\ pane.links \subseteq room.minted
  BY OpenTyped
<1>3. PICK b : b = (pane.busy /\ q.after # "kick")
  OBVIOUS
<1>4. PICK a : a = (pane.adding /\ q.after # "add")
  OBVIOUS
<1>5. PICK o : o = IF q.op = "load" THEN q.seen.owner = Me ELSE pane.owned
  OBVIOUS
<1>6. PICK free : free = [pane EXCEPT !.busy = b, !.adding = a]
  OBVIOUS
<1>7. PICK full : full = [free EXCEPT !.members = q.seen.members, !.links = q.seen.live, !.loaded = TRUE,
                                      !.public = q.seen.public, !.owned = o]
  OBVIOUS
<1>8. b \in BOOLEAN /\ a \in BOOLEAN /\ o \in BOOLEAN
  <2>1. pane.owned \in BOOLEAN
    BY <1>2 DEF Pane
  <2> QED BY <1>3, <1>4, <1>5, <2>1
<1>9. free \in Pane /\ free.links = pane.links /\ free.owned = pane.owned
  BY <1>2, <1>6, <1>8 DEF Pane
<1>10. full \in Pane /\ full.links = q.seen.live
  BY <1>1, <1>7, <1>8, <1>9 DEF Pane, RoomState
<1>11. PaneSet(q, free) \/ PaneSet(q, full)
  BY <1>3, <1>4, <1>5, <1>6, <1>7, <1>9 DEF Fetched
<1>12. pane' \in Pane /\ pane'.links \subseteq room.minted
  BY <1>1, <1>2, <1>9, <1>10, <1>11, ShownTyped
<1>13. \A n \in Sending' : n \in Sending \/ Plain(n)
  BY DropsPlain DEF Fetched
<1> QED BY <1>12, <1>13, OpenTyped, QuietStep DEF Fetched, Heard

LEMMA SavedStep ==
  ASSUME SettingsInv, NEW q \in Sending, Saved(q) \/ Flipped(q) \/ Kicked(q) \/ Added(q)
  PROVE  SettingsInv'
<1>1. UNCHANGED <<room, withdrawn, listed, panes, dialogs, dialog>>
  BY DEF Saved, Flipped, Kicked, Added, Heard
<1>2. q \in Query /\ pane \in Pane
  BY OpenTyped DEF SettingsInv, Fits
<1>3. pane' \in Pane /\ pane'.links \subseteq room.minted
  <2>1. CASE Saved(q)
    BY <2>1, PaneVariants, ShownTyped DEF Saved
  <2>2. CASE Flipped(q)
    <3>1. PICK b : b = IF q.at = "done" THEN q.choice ELSE pane.public
      OBVIOUS
    <3>2. b \in BOOLEAN
      BY <1>2, <3>1 DEF Query, Pane
    <3>3. PaneSet(q, [pane EXCEPT !.busy = FALSE, !.public = b])
      BY <2>2, <3>1 DEF Flipped
    <3> QED BY <3>2, <3>3, PaneVariants, ShownTyped
  <2>3. CASE Kicked(q)
    <3>1. PICK s : s = IF q.at = "done" THEN pane.members \ {q.member} ELSE pane.members
      OBVIOUS
    <3>2. s \in SUBSET Member
      BY <1>2, <3>1 DEF Pane
    <3>3. PaneSet(q, [pane EXCEPT !.busy = FALSE, !.members = s]) \/ UNCHANGED pane
      BY <2>3, <3>1 DEF Kicked
    <3> QED BY <3>2, <3>3, PaneVariants, ShownTyped, OpenTyped
  <2>4. CASE Added(q)
    BY <2>4, PaneVariants, ShownTyped, OpenTyped DEF Added
  <2> QED BY <2>1, <2>2, <2>3, <2>4
<1>4. \A n \in Sending' : n \in Sending \/ Plain(n)
  <2>1. \/ Drop(q) \/ Next1(q, NewRequest("list"))
        \/ Next1(q, [q EXCEPT !.op = "fetch", !.at = "sent", !.after = "kick"])
        \/ Next1(q, [q EXCEPT !.op = "fetch", !.at = "sent", !.after = "add"])
    BY DEF Saved, Flipped, Kicked, Added
  <2>2. PICK k : k = [q EXCEPT !.op = "fetch", !.at = "sent", !.after = "kick"]
    OBVIOUS
  <2>3. PICK a : a = [q EXCEPT !.op = "fetch", !.at = "sent", !.after = "add"]
    OBVIOUS
  <2>4. Plain(k) /\ Plain(a)
    BY <2>2, <2>3, GoesOn
  <2>5. Drop(q) \/ Next1(q, NewRequest("list")) \/ Next1(q, k) \/ Next1(q, a)
    BY <2>1, <2>2, <2>3
  <2> QED BY <2>4, <2>5, DropsPlain, FollowsPlain, ListIsPlain
<1> QED BY <1>1, <1>3, <1>4, OpenTyped, QuietStep

LEMMA CloseTyped ==
  ASSUME SettingsInv, CloseModal \/ ClosePanel \/ UNCHANGED <<pane, dialog>>
  PROVE  /\ pane' \in Pane /\ pane'.links \subseteq room.minted
         /\ dialog' \in Dialog /\ (dialog'.kind = "edit" => dialog'.current \in room.minted)
  BY OpenTyped, ClosedTyped, NoDialogTyped DEF CloseModal, ClosePanel

LEMMA TransferredStep ==
  ASSUME SettingsInv, NEW q \in Sending, Transferred(q) \/ TransferFails(q) PROVE SettingsInv'
<1>1. UNCHANGED <<room, withdrawn, listed, panes, dialogs>>
  BY DEF Transferred, TransferFails, Heard
<1>2. /\ pane' \in Pane /\ pane'.links \subseteq room.minted
      /\ dialog' \in Dialog /\ (dialog'.kind = "edit" => dialog'.current \in room.minted)
  <2>1. CASE CloseModal \/ UNCHANGED <<pane, dialog>>
    BY <2>1, CloseTyped
  <2>2. CASE PaneSet(q, [pane EXCEPT !.busy = FALSE, !.owned = FALSE]) /\ UNCHANGED dialog
    BY <2>2, PaneVariants, ShownTyped, OpenTyped
  <2>3. CASE PaneSet(q, [pane EXCEPT !.busy = FALSE]) /\ UNCHANGED dialog
    BY <2>3, PaneVariants, ShownTyped, OpenTyped
  <2>4. CASE DialogSet(q, [dialog EXCEPT !.busy = FALSE]) /\ UNCHANGED pane
    BY <2>4, DialogFreed, OpenTyped
  <2> QED BY <2>1, <2>2, <2>3, <2>4 DEF Transferred, TransferFails
<1>3. \A n \in Sending' : n \in Sending \/ Plain(n)
  <2>1. PICK d : d = [q EXCEPT !.op = "depart", !.at = "sent"]
    OBVIOUS
  <2>2. Plain(d)
    BY <2>1, GoesOn
  <2>3. Drop(q) \/ Next1(q, NewRequest("list")) \/ Next1(q, d)
    BY <2>1 DEF Transferred, TransferFails
  <2> QED BY <2>2, <2>3, DropsPlain, FollowsPlain, ListIsPlain
<1> QED BY <1>1, <1>2, <1>3, OpenTyped, QuietStep

LEMMA DepartedStep ==
  ASSUME SettingsInv, NEW q \in Sending, Departed(q) PROVE SettingsInv'
<1>1. UNCHANGED <<room, withdrawn, listed, panes, dialogs>>
  BY DEF Departed, Heard
<1>2. /\ pane' \in Pane /\ pane'.links \subseteq room.minted
      /\ dialog' \in Dialog /\ (dialog'.kind = "edit" => dialog'.current \in room.minted)
  <2>1. CASE q.at = "done"
    BY <2>1, CloseTyped DEF Departed
  <2>2. CASE q.at # "done"
    <3>1. PICK b : b = (pane.busy /\ q.from = "dialog")
      OBVIOUS
    <3>2. PICK c : c = (dialog.busy /\ q.from # "dialog")
      OBVIOUS
    <3>3. b \in BOOLEAN /\ c \in BOOLEAN
      BY <3>1, <3>2
    <3>4. PaneSet(q, [pane EXCEPT !.busy = b]) /\ DialogSet(q, [dialog EXCEPT !.busy = c])
      BY <2>2, <3>1, <3>2 DEF Departed
    <3> QED BY <3>3, <3>4, PaneVariants, ShownTyped, DialogFreed
  <2> QED BY <2>1, <2>2
<1>3. \A n \in Sending' : n \in Sending \/ Plain(n)
  BY DropsPlain, FollowsPlain, ListIsPlain DEF Departed
<1> QED BY <1>1, <1>2, <1>3, OpenTyped, QuietStep

LEMMA GeneratedStep ==
  ASSUME SettingsInv, NEW q \in Sending, Generated(q) \/ MintFails(q) PROVE SettingsInv'
<1>1. UNCHANGED <<room, withdrawn, listed, panes, dialogs, pane>>
  BY DEF Generated, MintFails, Heard
<1>2. dialog' \in Dialog /\ (dialog'.kind = "edit" => dialog'.current \in room.minted)
  BY DialogFreed DEF Generated, MintFails
<1>3. \A n \in Sending' : n \in Sending \/ Plain(n)
  BY DropsPlain DEF Generated, MintFails
<1> QED BY <1>1, <1>2, <1>3, OpenTyped, QuietStep

\* The new link is there: the old one may go.
LEMMA MintedStep == ASSUME SettingsInv, NEW q \in Sending, Minted(q) PROVE SettingsInv'
<1>1. UNCHANGED <<room, withdrawn, listed, panes, dialogs, pane, dialog>> /\ Takes(q) /\ q.op = "mint"
  BY DEF Minted, Heard, Takes
<1>2. SettingsTyped' /\ LinksKnown'
  BY <1>1 DEF SettingsInv, SettingsTyped, LinksKnown
<1>3. PICK n : n = [q EXCEPT !.op = "swap", !.at = "sent"]
  OBVIOUS
<1>4. Fits(q)
  BY DEF SettingsInv
<1>5. n \in Query /\ n.op = "swap" /\ n.link = q.link /\ n.new = q.new /\ n.seen = q.seen
  BY <1>3, <1>4 DEF Fits, Query
<1>6. Fits(n)'
  BY <1>1, <1>4, <1>5 DEF Fits
<1>7. Sending' \subseteq Sending \cup {n}
  BY <1>3, FollowsOne DEF Minted
<1> QED BY <1>1, <1>2, <1>5, <1>6, <1>7, RoomRests

LEMMA FetchFor ==
  ASSUME SettingsInv, NEW q \in Sending, NEW n, n = [NewRequest("fetch") EXCEPT !.pane = q.pane] PROVE Plain(n)
<1>1. q.pane \in Nat
  BY DEF SettingsInv, Fits, Query
<1> QED BY <1>1, RequestTyped DEF Plain, Query

LEMMA SwappedStep == ASSUME SettingsInv, NEW q \in Sending, Swapped(q) \/ Revoked(q) PROVE SettingsInv'
<1>1. UNCHANGED <<room, withdrawn, listed, panes, dialogs, pane>>
  BY DEF Swapped, Revoked, Heard
<1>2. Fits(q) /\ q \in Query
  BY DEF SettingsInv, Fits
<1>3. dialog' \in Dialog /\ (dialog'.kind = "edit" => dialog'.current \in room.minted)
  <2>1. CASE Swapped(q)
    <3>1. q.new \in room.minted /\ q.new \in Link \cup {NoInvite}
      BY <1>2, <2>1 DEF Swapped, Fits, Takes, Query
    <3>2. dialog' = dialog \/ dialog' = [dialog EXCEPT !.busy = FALSE, !.current = q.new]
      BY <2>1 DEF Swapped, DialogSet
    <3> QED BY <3>1, <3>2, OpenTyped DEF Dialog
  <2>2. CASE Revoked(q)
    <3>1. PICK c : c = (dialog.busy /\ q.from # "dialog")
      OBVIOUS
    <3>2. c \in BOOLEAN
      BY <3>1
    <3>3. dialog' = NoDialog \/ UNCHANGED dialog \/ DialogSet(q, [dialog EXCEPT !.busy = c])
      BY <2>2, <3>1 DEF Revoked
    <3> QED BY <3>2, <3>3, DialogFreed, NoDialogTyped
  <2> QED BY <2>1, <2>2
<1>4. \A n \in Sending' : n \in Sending \/ Plain(n)
  <2>1. PICK n : n = [NewRequest("fetch") EXCEPT !.pane = q.pane]
    OBVIOUS
  <2>2. Plain(n)
    BY <2>1, FetchFor
  <2>3. Drop(q) \/ Next1(q, n)
    BY <2>1 DEF Swapped, Revoked
  <2> QED BY <2>2, <2>3, DropsPlain, FollowsPlain
<1> QED BY <1>1, <1>3, <1>4, OpenTyped, QuietStep

LEMMA SettingsStep == SettingsInv /\ [SettingsNext]_settingsVars => SettingsInv'
<1> SUFFICES ASSUME SettingsInv, [SettingsNext]_settingsVars PROVE SettingsInv'
  OBVIOUS
<1>1. CASE \/ OpenSettings \/ OpenInfo \/ ClosePane \/ CloseDialog
           \/ \E k \in {"overview", "members", "invites", "danger"} : SwitchTab(k)
           \/ \E k \in {"create", "edit", "transfer"}, l \in Link \cup {NoInvite} : OpenDialog(k, l)
  BY <1>1, OpensStep, DialogStep
<1>2. CASE Flip \/ Depart \/ Generate \/ \E b \in BOOLEAN : Save(b)
  BY <1>2, ActsStep
<1>3. CASE \E m \in Member : Kick(m) \/ AddFriend(m) \/ \E leave \in BOOLEAN : Transfer(m, leave)
  BY <1>3, PeopleStep
<1>4. CASE Reissue \/ OthersDo \/ \E l \in Link : Revoke(l)
  BY <1>4, ReissueStep, OthersStep, RevokeStep
<1>5. ASSUME NEW q \in Sending, Handle(q) PROVE SettingsInv'
  BY <1>5, HandlesStep
<1>6. ASSUME NEW q \in Sending, Hear(q) PROVE SettingsInv'
  <2>1. CASE ListHeard(q) \/ Fetched(q) \/ Saved(q) \/ Flipped(q) \/ Kicked(q) \/ Added(q)
    BY <2>1, ListHeardStep, FetchedStep, SavedStep
  <2>2. CASE Transferred(q) \/ TransferFails(q) \/ Departed(q) \/ Generated(q)
    BY <2>2, TransferredStep, DepartedStep, GeneratedStep
  <2>3. CASE Minted(q) \/ MintFails(q) \/ Swapped(q) \/ Revoked(q)
    BY <2>3, MintedStep, GeneratedStep, SwappedStep
  <2> QED BY <1>6, <2>1, <2>2, <2>3 DEF Hear
<1>7. CASE UNCHANGED settingsVars
  <2>1. UNCHANGED <<room, listed, pane, panes, dialog, dialogs, requests, withdrawn>>
    BY <1>7 DEF settingsVars
  <2> QED BY <2>1, OpenTyped, QuietStep, SendsNothing
<1> QED BY <1>1, <1>2, <1>3, <1>4, <1>5, <1>6, <1>7 DEF SettingsNext

\* However the changes of links overlap and fail, a room is left without a
\* link only by "Revoke", or with the room (reissue).
THEOREM LinkRemains == SettingsInit /\ [][SettingsNext]_settingsVars => []NeverLinkless
<1>1. SettingsInv => NeverLinkless
  BY DEF SettingsInv, LinkStays, NeverLinkless
<1> QED BY <1>1, SettingsInitially, SettingsStep, PTL

-----------------------------------------------------------------------------
(* What is open in a room's settings, once nothing is under way.  What it  *)
(* shows that is not as the room is, an answer under way makes good, or    *)
(* closes: a tab fetches once more, and the panel of the call, that asks   *)
(* one thing at a time, takes the change itself.                           *)

\* What a request under way is about, by where it was sent from.
PanelOp == {"load", "flip", "kick", "transfer", "depart", "delete"}
Kinds(q) ==
  /\ q.pane <= panes /\ q.dialog <= dialogs
  /\ q.op = "kick" => q.from \in {"tab", "panel"}
  /\ q.op = "transfer" => q.from \in {"dialog", "panel"} /\ (q.from = "panel" => ~q.choice) /\ q.member # Me
  /\ q.op = "generate" /\ SameDialog(q) => dialog.kind = "create"
  /\ Same(q) =>
       /\ q.op \in {"load", "flip"} => pane.kind = "info"
       /\ q.op \in {"kick", "transfer", "depart", "delete"} => (q.from = "panel" <=> pane.kind = "info")
       /\ q.op = "fetch" => pane.kind \in {"members", "invites"}
       /\ q.op = "save" => pane.kind = "overview"
       /\ q.op = "add" => pane.kind = "members"
       /\ q.op \in {"kick", "transfer"} => pane.kind \in {"members", "info"}
       /\ q.op \in {"depart", "delete"} => pane.kind \in {"members", "danger", "info"}
       /\ q.op \in {"mint", "swap", "revoke"} => pane.kind = "invites"
       /\ q.op = "generate" => pane.kind \in {"invites", "info"}

DialogKinds ==
  /\ pane.kind = "none" => ~pane.loaded
  /\ dialog.kind = "create" => pane.kind \in {"invites", "info"}
  /\ dialog.kind = "edit" => pane.kind = "invites"
  /\ dialog.kind = "transfer" => pane.kind = "members"

\* The panel asks one thing at a time.
PanelAsk(q) == pane.kind = "info" /\ Same(q) /\ q.op \in PanelOp
OneInPanel ==
  \A q \in Sending : PanelAsk(q) =>
    /\ requests[q] = 1 /\ \A d \in Sending : PanelAsk(d) => d = q
    /\ q.op = "load" <=> ~pane.loaded
    /\ q.op # "load" => pane.busy

PanelTakes ==
  \A q \in Sending : PanelAsk(q) /\ q.at = "done" =>
    /\ q.op = "kick" => pane.members \ {q.member} = room.members
    /\ q.op = "flip" => q.choice = room.public
    /\ q.op = "transfer" => room.owner # Me
PanelFollows(ops) == \E q \in Sending : PanelAsk(q) /\ q.at = "done" /\ q.op \in ops
PanelInv ==
  pane.kind = "info" /\ pane.loaded /\ ~behind =>
    /\ PanelTakes
    /\ pane.members # room.members => PanelFollows({"kick", "depart", "delete"})
    /\ pane.public # room.public => PanelFollows({"flip"})
    /\ ~(pane.owned <=> room.owner = Me) => PanelFollows({"transfer"})

\* The answers that a tab fetches after, or that close the modal.
FollowsMembers(q) == Same(q) /\ (q.op = "fetch" \/ (q.op \in {"kick", "add", "depart", "delete"} /\ q.at = "done"))
FollowsLinks(q) ==
  Same(q) /\ \/ q.op \in {"fetch", "swap"} \/ (q.op \in {"mint", "revoke"} /\ q.at = "done")
             \/ q.op = "generate" /\ q.at = "done" /\ ~SameDialog(q)
FollowsOwner(q) == q.from = "dialog" /\ (q.op = "depart" \/ (q.op = "transfer" /\ q.at = "done"))
MembersInv ==
  pane.kind = "members" /\ pane.loaded /\ ~behind /\ pane.members # room.members =>
    \E q \in Sending : FollowsMembers(q)
LinksInv ==
  pane.kind = "invites" /\ pane.loaded /\ dialog.kind # "create" /\ ~behind /\ pane.links # room.live =>
    \E q \in Sending : FollowsLinks(q)
OwnerInv == IsModal /\ ~behind /\ ~(pane.owned <=> room.owner = Me) => \E q \in Sending : FollowsOwner(q)

Counted == \A q \in Sending : requests[q] \in Nat \ {0}
PanesInv ==
  /\ SettingsInv /\ Counted /\ behind \in BOOLEAN /\ DialogKinds /\ OneInPanel /\ PanelInv
  /\ MembersInv /\ LinksInv /\ OwnerInv /\ \A q \in Sending : Kinds(q)

-----------------------------------------------------------------------------
\* One more request, one less, and one that goes on as another.
LEMMA SendsCounted ==
  ASSUME Counted, NEW n, Send(n)
  PROVE  /\ Counted' /\ Sending' = Sending \cup {n} /\ \A d \in Sending \ {n} : requests'[d] = requests[d]
         /\ n \notin Sending => requests'[n] = 1
<1> DEFINE one == SetToBag({n})
<1>1. requests' = requests (+) one /\ DOMAIN one = {n} /\ one[n] = 1
  BY DEF Send, SetToBag
<1> HIDE DEF one
<1>2. /\ DOMAIN requests' = DOMAIN requests \cup {n}
      /\ \A d \in DOMAIN requests' :
           requests'[d] = (IF d \in DOMAIN requests THEN requests[d] ELSE 0) + (IF d = n THEN 1 ELSE 0)
  BY <1>1 DEF (+)
<1> QED BY <1>2 DEF Sending, BagToSet, Counted

LEMMA RestCounted ==
  ASSUME Counted, NEW q \in Sending, NEW rest, rest = requests (-) SetToBag({q})
  PROVE  /\ DOMAIN rest = {d \in Sending : d # q \/ requests[d] # 1}
         /\ \A d \in DOMAIN rest : rest[d] \in Nat \ {0} /\ (d # q => rest[d] = requests[d])
<1> DEFINE one == SetToBag({q})
           left == [d \in DOMAIN requests |-> IF d \in DOMAIN one THEN requests[d] - one[d] ELSE requests[d]]
<1>1. rest = [d \in {e \in DOMAIN left : left[e] > 0} |-> left[d]] /\ DOMAIN one = {q} /\ one[q] = 1
  BY DEF SetToBag, (-)
<1> HIDE DEF one
<1>2. /\ DOMAIN left = Sending /\ \A d \in Sending : left[d] = IF d = q THEN requests[d] - 1 ELSE requests[d]
      /\ \A d \in Sending : requests[d] \in Nat \ {0}
  BY <1>1 DEF Sending, BagToSet, Counted
<1> HIDE DEF left
<1>3. DOMAIN rest = {e \in Sending : left[e] > 0} /\ \A d \in DOMAIN rest : rest[d] = left[d]
  BY <1>1, <1>2
<1>4. \A d \in Sending : left[d] > 0 <=> (d # q \/ requests[d] # 1)
  BY <1>2
<1>5. DOMAIN rest = {d \in Sending : d # q \/ requests[d] # 1}
  BY <1>3, <1>4
<1>6. \A d \in DOMAIN rest : left[d] \in Nat \ {0} /\ (d # q => left[d] = requests[d])
  BY <1>2, <1>5
<1> QED BY <1>3, <1>5, <1>6

LEMMA DropsCounted ==
  ASSUME Counted, NEW q \in Sending, Drop(q)
  PROVE  /\ Counted' /\ Sending' \subseteq Sending /\ Sending \ {q} \subseteq Sending'
         /\ requests[q] = 1 => q \notin Sending'
         /\ \A d \in Sending' \ {q} : requests'[d] = requests[d]
  BY RestCounted DEF Drop, Sending, BagToSet, Counted

LEMMA FollowsCounted ==
  ASSUME Counted, NEW q \in Sending, NEW n, Next1(q, n)
  PROVE  /\ Counted' /\ Sending' \subseteq Sending \cup {n} /\ Sending \ {q} \subseteq Sending' /\ n \in Sending'
         /\ requests[q] = 1 => q \notin Sending' \/ q = n
         /\ \A d \in Sending' \ {q, n} : requests'[d] = requests[d]
         /\ n \notin Sending \/ (n = q /\ requests[q] = 1) => requests'[n] = 1
<1> DEFINE two == SetToBag({n})
<1>1. PICK rest : rest = requests (-) SetToBag({q})
  OBVIOUS
<1>2. requests' = rest (+) two /\ DOMAIN two = {n} /\ two[n] = 1
  BY <1>1 DEF Next1, SetToBag
<1> HIDE DEF two
<1>3. /\ DOMAIN rest = {d \in Sending : d # q \/ requests[d] # 1}
      /\ \A d \in DOMAIN rest : rest[d] \in Nat \ {0} /\ (d # q => rest[d] = requests[d])
  BY <1>1, RestCounted
<1>4. /\ DOMAIN requests' = DOMAIN rest \cup {n}
      /\ \A d \in DOMAIN requests' :
           requests'[d] = (IF d \in DOMAIN rest THEN rest[d] ELSE 0) + (IF d = n THEN 1 ELSE 0)
  BY <1>2 DEF (+)
<1> QED BY <1>3, <1>4 DEF Sending, BagToSet, Counted

-----------------------------------------------------------------------------
\* How what is open changes: the same, closed, or another.
PaneMoves ==
  /\ \/ panes' = panes /\ pane'.kind \in {pane.kind, "none"}
     \/ panes' = panes + 1
  /\ \/ dialogs' = dialogs /\ dialog'.kind \in {dialog.kind, "none"}
     \/ dialogs' = dialogs + 1

LEMMA KindsKept == ASSUME SettingsInv, PaneMoves, NEW q \in Query, Kinds(q) PROVE Kinds(q)'
<1>1. panes \in Nat /\ dialogs \in Nat /\ q.pane \in Nat /\ q.dialog \in Nat
  BY OpenTyped DEF Query
<1>2. q.pane <= panes /\ q.dialog <= dialogs
  BY DEF Kinds
<1>3. q.pane <= panes' /\ q.dialog <= dialogs'
  BY <1>1, <1>2 DEF PaneMoves
<1>4. Same(q)' => Same(q) /\ pane'.kind = pane.kind
  BY <1>1, <1>2 DEF PaneMoves, Same
<1>5. SameDialog(q)' => SameDialog(q) /\ dialog'.kind = dialog.kind
  BY <1>1, <1>2 DEF PaneMoves, SameDialog
<1> QED BY <1>3, <1>4, <1>5 DEF Kinds

LEMMA SentTyped ==
  ASSUME PanesInv
  PROVE  /\ \A q \in Sending : q \in Query /\ Kinds(q)
         /\ SettingsInv /\ Counted /\ panes \in Nat /\ dialogs \in Nat /\ pane \in Pane /\ dialog \in Dialog
         /\ room \in RoomState
  BY OpenTyped DEF PanesInv, SettingsInv, SettingsTyped, Fits

\* Where nothing is open, or what is open shows nothing yet.
LEMMA ShutPanes ==
  ASSUME PanesInv, SettingsInv', Counted', behind' \in BOOLEAN, PaneMoves, DialogKinds',
         pane'.kind = "none", \A n \in Sending' : n \in Sending \/ Kinds(n)'
  PROVE  PanesInv'
<1>1. \A q \in Sending' : Kinds(q)'
  BY SentTyped, KindsKept
<1>2. OneInPanel' /\ PanelInv' /\ MembersInv' /\ LinksInv' /\ OwnerInv'
  BY DEF OneInPanel, PanelAsk, PanelInv, MembersInv, LinksInv, OwnerInv, IsModal
<1> QED BY <1>1, <1>2 DEF PanesInv

LEMMA ShownPanes ==
  ASSUME PanesInv, SettingsInv', UNCHANGED <<room, dialogs>>, dialog'.kind = "none", panes' = panes + 1,
         behind' \in BOOLEAN, pane'.kind # "none", pane'.kind \in {"members", "invites", "info"} => ~pane'.loaded,
         \/ UNCHANGED requests /\ pane'.kind \notin {"members", "invites", "info"}
         \/ \E n \in Query : /\ Send(n) /\ n.pane = panes + 1 /\ n.dialog = dialogs
                             /\ n.op = (IF pane'.kind = "info" THEN "load" ELSE "fetch")
                             /\ pane'.kind \in {"members", "invites", "info"},
         \/ behind' = ~(pane'.owned <=> room.owner = Me)
         \/ IsModal /\ behind' = behind /\ pane'.owned = pane.owned
         \/ pane'.kind = "info"
  PROVE  PanesInv'
<1>1. \A q \in Sending : q \in Query /\ Kinds(q) /\ q.pane <= panes /\ q.pane \in Nat /\ panes \in Nat /\ dialogs \in Nat
  BY SentTyped DEF Kinds, Query
<1>2. PaneMoves
  BY DEF PaneMoves
<1>3. \A q \in Sending : Kinds(q)' /\ ~Same(q)'
  BY <1>1, <1>2, SentTyped, KindsKept DEF Same
<1>4. DialogKinds'
  BY DEF DialogKinds
<1>5. MembersInv' /\ LinksInv' /\ PanelInv'
  BY DEF MembersInv, LinksInv, PanelInv
<1>6. Sending \subseteq Sending'
  BY SendsCounted, SentTyped DEF Sending
<1>7. OwnerInv'
  <2>1. SUFFICES ASSUME IsModal', ~behind', ~(pane'.owned <=> room'.owner = Me)
                 PROVE  \E q \in Sending : FollowsOwner(q)
    BY <1>6 DEF OwnerInv, FollowsOwner
  <2>2. IsModal /\ ~behind /\ ~(pane.owned <=> room.owner = Me)
    BY <2>1 DEF IsModal
  <2> QED BY <2>2 DEF PanesInv, OwnerInv
<1>8. CASE UNCHANGED requests /\ pane'.kind \notin {"members", "invites", "info"}
  <2>1. Sending' = Sending /\ Counted'
    BY <1>8, SentTyped DEF Sending, Counted
  <2>2. OneInPanel'
    BY <1>8 DEF OneInPanel, PanelAsk
  <2> QED BY <1>3, <1>4, <1>5, <1>7, <2>1, <2>2 DEF PanesInv
<1>9. ASSUME NEW n \in Query, Send(n), n.pane = panes + 1, n.dialog = dialogs,
             n.op = (IF pane'.kind = "info" THEN "load" ELSE "fetch"), pane'.kind \in {"members", "invites", "info"}
      PROVE  PanesInv'
  <2>1. n \notin Sending
    BY <1>1, <1>9
  <2>2. Counted' /\ Sending' = Sending \cup {n} /\ requests'[n] = 1
    BY <1>9, <2>1, SentTyped, SendsCounted
  <2>3. Kinds(n)'
    BY <1>9, SentTyped DEF Kinds, Same, SameDialog
  <2>4. OneInPanel'
    BY <1>3, <1>9, <2>2 DEF OneInPanel, PanelAsk
  <2> QED BY <1>3, <1>4, <1>5, <1>7, <2>2, <2>3, <2>4 DEF PanesInv
<1> QED BY <1>8, <1>9

\* A pane that stays open, while the user acts on it.
LEMMA ActedPanes ==
  ASSUME PanesInv, SettingsInv', UNCHANGED <<room, behind, panes>>, PaneMoves, DialogKinds',
         pane'.kind = pane.kind, pane'.loaded = pane.loaded, pane'.owned = pane.owned, pane'.members = pane.members,
         pane'.links = pane.links, pane'.public = pane.public, pane.busy => pane'.busy,
         dialog.kind = "create" /\ dialog'.kind # "create" /\ pane.kind = "invites" =>
           \E n \in Sending' : FollowsLinks(n)',
         \/ UNCHANGED requests
         \/ \E n : /\ Send(n) /\ Kinds(n)' /\ n.at = "sent"
                   /\ PanelAsk(n) => pane.loaded /\ ~pane.busy /\ n.op # "load" /\ pane'.busy
  PROVE  PanesInv'
<1>1. Sending \subseteq Sending' /\ Counted'
  BY SendsCounted, SentTyped DEF Sending, Counted
<1>2. \A q \in Sending : Kinds(q)'
  BY SentTyped, KindsKept
<1>3. \A q \in Sending' : q \in Sending \/ (Kinds(q)' /\ q.at = "sent")
  BY SendsCounted, SentTyped DEF Sending
<1>4. \A q : (Same(q)' <=> Same(q)) /\ (PanelAsk(q)' <=> PanelAsk(q)) /\ (FollowsMembers(q)' <=> FollowsMembers(q))
             /\ (FollowsOwner(q)' <=> FollowsOwner(q))
  BY DEF Same, PanelAsk, FollowsMembers, FollowsOwner
<1>5. ASSUME NEW q \in Sending, FollowsLinks(q)
      PROVE  FollowsLinks(q)'
  <2>1. q.dialog <= dialogs /\ q.dialog \in Nat /\ dialogs \in Nat
    BY SentTyped DEF Kinds, Query
  <2>2. ~SameDialog(q) => ~SameDialog(q)'
    BY <2>1 DEF SameDialog, PaneMoves
  <2> QED BY <1>4, <1>5, <2>2 DEF FollowsLinks
<1>6. PanelInv'
  <2>1. SUFFICES ASSUME pane.kind = "info", pane.loaded, ~behind
                 PROVE  /\ PanelTakes'
                        /\ \A ops : PanelFollows(ops) => PanelFollows(ops)'
    BY DEF PanesInv, PanelInv
  <2>2. PanelTakes'
    BY <1>3, <1>4, <2>1 DEF PanesInv, PanelInv, PanelTakes
  <2> QED BY <1>1, <1>4, <2>2 DEF PanelFollows
<1>7. MembersInv' /\ OwnerInv'
  BY <1>1, <1>4 DEF PanesInv, MembersInv, OwnerInv, IsModal
<1>8. LinksInv'
  BY <1>1, <1>5 DEF PanesInv, LinksInv
<1>9. OneInPanel'
  <2>1. SUFFICES ASSUME pane.kind = "info"
                 PROVE  OneInPanel'
    BY DEF OneInPanel, PanelAsk
  <2>2. CASE UNCHANGED requests
    BY <1>4, <2>2 DEF PanesInv, OneInPanel, Sending
  <2>3. ASSUME NEW n, Send(n), PanelAsk(n) => pane.loaded /\ ~pane.busy /\ n.op # "load" /\ pane'.busy
        PROVE  OneInPanel'
    <3>1. /\ Sending' = Sending \cup {n} /\ \A d \in Sending \ {n} : requests'[d] = requests[d]
          /\ n \notin Sending => requests'[n] = 1
      BY <2>3, SendsCounted, SentTyped
    <3>2. CASE PanelAsk(n)
      <4>1. \A q \in Sending : ~PanelAsk(q)
        BY <2>3, <3>2 DEF PanesInv, OneInPanel
      <4> QED BY <1>4, <2>3, <3>1, <3>2, <4>1 DEF OneInPanel
    <3>3. CASE ~PanelAsk(n)
      BY <1>4, <3>1, <3>3 DEF PanesInv, OneInPanel
    <3> QED BY <3>2, <3>3
  <2> QED BY <2>2, <2>3
<1> QED BY <1>1, <1>2, <1>3, <1>6, <1>7, <1>8, <1>9 DEF PanesInv

-----------------------------------------------------------------------------
\* What the user does.
RequestOp == {"list", "load", "fetch", "save", "flip", "kick", "add", "transfer", "depart", "delete", "generate", "mint",
              "swap", "revoke"}
LEMMA NewFields ==
  ASSUME PanesInv, NEW op \in RequestOp, NEW r, r = NewRequest(op)
  PROVE  /\ r \in Query /\ r.op = op /\ r.pane = panes /\ r.dialog = dialogs /\ r.from = From /\ r.at = "sent"
         /\ ~r.choice /\ r.member = Me
<1>1. NewRequest(op) \in Query
  BY RequestTyped, SentTyped DEF RequestOp
<1>2. /\ r.op = op /\ r.pane = panes /\ r.dialog = dialogs /\ r.from = From /\ r.at = "sent"
      /\ r.choice = FALSE /\ r.member = Me
  BY DEF NewRequest
<1> QED BY <1>1, <1>2

LEMMA OpenPanes ==
  ASSUME PanesInv, SettingsInv', NEW k \in {"overview", "members", "invites", "danger"},
         OpenSettings \/ OpenInfo \/ SwitchTab(k)
  PROVE  PanesInv'
<1>1. ASSUME NEW kind \in {"overview", "members", "invites", "danger", "info"}, NEW owned \in BOOLEAN, Shows(kind, owned),
             UNCHANGED room, behind' \in BOOLEAN,
             \/ behind' = ~(owned <=> room.owner = Me)
             \/ IsModal /\ behind' = behind /\ owned = pane.owned
             \/ kind = "info"
      PROVE  PanesInv'
  <2>1. UNCHANGED dialogs /\ dialog'.kind = "none" /\ panes' = panes + 1
    BY <1>1, NoDialogTyped DEF Shows
  <2>2. pane' = [Closed EXCEPT !.kind = kind, !.owned = owned, !.loaded = kind \in {"overview", "danger"}]
    BY <1>1 DEF Shows
  <2>3. pane'.kind = kind /\ pane'.owned = owned /\ (pane'.loaded <=> kind \in {"overview", "danger"})
    BY <2>2 DEF Closed
  <2>4. CASE kind \notin {"members", "invites", "info"}
    <3>1. UNCHANGED requests
      BY <1>1, <2>4 DEF Shows
    <3> QED BY <1>1, <2>1, <2>3, <2>4, <3>1, ShownPanes
  <2>5. CASE kind \in {"members", "invites", "info"}
    <3>1. PICK op : op = IF kind = "info" THEN "load" ELSE "fetch"
      OBVIOUS
    <3>2. PICK r : r = NewRequest(op)
      OBVIOUS
    <3>3. PICK n : n = [r EXCEPT !.pane = panes + 1]
      OBVIOUS
    <3>4. r \in Query /\ r.op = op /\ r.dialog = dialogs /\ panes + 1 \in Nat
      BY <3>1, <3>2, NewFields, SentTyped DEF RequestOp
    <3>5. n \in Query /\ n.op = op /\ n.pane = panes + 1 /\ n.dialog = dialogs
      BY <3>3, <3>4 DEF Query
    <3>6. Send(n)
      BY <1>1, <2>5, <3>1, <3>2, <3>3 DEF Shows
    <3> QED BY <1>1, <2>1, <2>3, <2>5, <3>1, <3>5, <3>6, ShownPanes
  <2> QED BY <2>4, <2>5
<1>2. behind \in BOOLEAN /\ listed \in BOOLEAN /\ pane.owned \in BOOLEAN
  BY SentTyped DEF PanesInv, SettingsInv, SettingsTyped, Pane
<1>3. CASE OpenSettings
  <2>1. Shows("overview", listed) /\ UNCHANGED room /\ behind' = (listed # (room.owner = Me))
    BY <1>3 DEF OpenSettings
  <2>2. behind' \in BOOLEAN /\ behind' = ~(listed <=> room.owner = Me)
    BY <1>2, <2>1
  <2> QED BY <1>1, <1>2, <2>1, <2>2
<1>4. CASE OpenInfo
  BY <1>1, <1>2, <1>4 DEF OpenInfo, Pressed
<1>5. CASE SwitchTab(k)
  BY <1>1, <1>2, <1>5 DEF SwitchTab, Pressed, IsModal
<1> QED BY <1>3, <1>4, <1>5

LEMMA DialogPanes ==
  ASSUME PanesInv, SettingsInv', NEW k \in {"create", "edit", "transfer"}, NEW l \in Link \cup {NoInvite},
         ClosePane \/ CloseDialog \/ OpenDialog(k, l)
  PROVE  PanesInv'
<1>1. UNCHANGED <<room, behind, panes>>
  BY DEF ClosePane, CloseDialog, OpenDialog, Pressed
<1>2. PICK n : n = NewRequest("fetch")
  OBVIOUS
<1>3. n \in Query /\ n.op = "fetch" /\ n.pane = panes /\ n.dialog = dialogs /\ n.at = "sent"
  BY <1>2, NewFields DEF RequestOp
<1>4. ASSUME UNCHANGED pane, pane.kind = "invites", dialogs' >= dialogs
      PROVE  Kinds(n)' /\ FollowsLinks(n)' /\ ~PanelAsk(n)
  BY <1>1, <1>3, <1>4, SentTyped DEF Kinds, Same, SameDialog, FollowsLinks, PanelAsk
<1>5. CASE ClosePane
  <2>1. pane'.kind = "none" /\ PaneMoves /\ DialogKinds' /\ UNCHANGED requests
    BY <1>5 DEF ClosePane, Closed, PaneMoves, DialogKinds
  <2>2. Counted' /\ Sending' = Sending
    BY <2>1, SentTyped DEF Counted, Sending
  <2>3. behind' \in BOOLEAN
    BY <1>1 DEF PanesInv
  <2> QED BY <2>1, <2>2, <2>3, ShutPanes
<1>6. CASE CloseDialog
  <2>1. UNCHANGED <<pane, dialogs>> /\ dialog'.kind = "none" /\ PaneMoves
    BY <1>6, NoDialogTyped DEF CloseDialog, PaneMoves
  <2>2. DialogKinds'
    BY <2>1 DEF PanesInv, DialogKinds
  <2>3. CASE dialog.kind = "create" /\ pane.kind = "invites"
    <3>1. Send(n)
      BY <1>2, <1>6, <2>3 DEF CloseDialog
    <3>2. n \in Sending' /\ Kinds(n)' /\ FollowsLinks(n)' /\ ~PanelAsk(n)
      BY <1>4, <2>1, <2>3, <3>1, SentTyped, SendsCounted
    <3> QED BY <1>1, <1>3, <2>1, <2>2, <3>1, <3>2, ActedPanes
  <2>4. CASE ~(dialog.kind = "create" /\ pane.kind = "invites")
    BY <1>1, <1>6, <2>1, <2>2, <2>4, ActedPanes DEF CloseDialog
  <2> QED BY <2>3, <2>4
<1>7. CASE OpenDialog(k, l)
  <2>1. /\ UNCHANGED pane /\ dialogs' = dialogs + 1 /\ dialog.kind = "none"
        /\ dialog' = [NoDialog EXCEPT !.kind = k, !.current = l]
    BY <1>7 DEF OpenDialog
  <2>2. PaneMoves /\ dialog'.kind = k
    BY <1>1, <2>1 DEF PaneMoves, NoDialog
  <2>3. DialogKinds'
    BY <1>7, <2>1, <2>2 DEF OpenDialog, DialogKinds
  <2>4. CASE k = "create" /\ pane.kind = "invites"
    <3>1. Send(n)
      BY <1>2, <1>7, <2>4 DEF OpenDialog
    <3>2. Kinds(n)' /\ ~PanelAsk(n)
      BY <1>4, <2>1, <2>4, SentTyped
    <3> QED BY <1>1, <1>3, <2>1, <2>2, <2>3, <3>1, <3>2, ActedPanes
  <2>5. CASE ~(k = "create" /\ pane.kind = "invites")
    BY <1>1, <1>7, <2>1, <2>2, <2>3, <2>5, ActedPanes DEF OpenDialog
  <2> QED BY <2>4, <2>5
<1> QED BY <1>5, <1>6, <1>7

\* One request, from the tab, the panel or the dialog, which is busy until then.
LEMMA AskPanes ==
  ASSUME PanesInv, SettingsInv', UNCHANGED <<room, behind, panes, dialogs>>,
         \/ UNCHANGED pane \/ pane' = [pane EXCEPT !.busy = TRUE] \/ pane' = [pane EXCEPT !.adding = TRUE],
         \/ UNCHANGED dialog \/ dialog' = [dialog EXCEPT !.busy = TRUE],
         NEW n, Send(n), Kinds(n), n.at = "sent",
         PanelAsk(n) => pane.loaded /\ ~pane.busy /\ n.op # "load" /\ pane' = [pane EXCEPT !.busy = TRUE]
  PROVE  PanesInv'
<1>1. pane \in Pane /\ dialog \in Dialog
  BY SentTyped
<1>2. /\ pane'.kind = pane.kind /\ pane'.loaded = pane.loaded /\ pane'.owned = pane.owned /\ pane'.members = pane.members
      /\ pane'.links = pane.links /\ pane'.public = pane.public /\ (pane.busy => pane'.busy)
      /\ (pane' = [pane EXCEPT !.busy = TRUE] => pane'.busy)
  BY <1>1 DEF Pane
<1>3. dialog'.kind = dialog.kind
  BY <1>1 DEF Dialog
<1>4. PaneMoves /\ DialogKinds'
  BY <1>2, <1>3 DEF PaneMoves, PanesInv, DialogKinds
<1>5. Kinds(n)'
  BY <1>2, <1>3 DEF Kinds, Same, SameDialog
<1> QED BY <1>2, <1>3, <1>4, <1>5, ActedPanes

LEMMA ActPanes ==
  ASSUME PanesInv, SettingsInv', NEW m \in Member, NEW b \in BOOLEAN, NEW l \in Link,
         \/ Save(b) \/ Flip \/ Depart \/ Generate \/ Reissue \/ Revoke(l) \/ Kick(m) \/ AddFriend(m) \/ Transfer(m, b)
  PROVE  PanesInv'
<1> DEFINE Asks(n, op, from) ==
      n \in Query /\ n.op = op /\ n.from = from /\ n.pane = panes /\ n.dialog = dialogs /\ n.at = "sent"
<1>1. UNCHANGED <<room, behind, panes, dialogs>>
  BY DEF Save, Flip, Depart, Generate, Reissue, Revoke, Kick, AddFriend, Transfer, Pressed
<1>2. ASSUME NEW kind, Act(kind)
      PROVE  /\ pane.kind = kind /\ pane.loaded /\ dialog.kind = "none" /\ ~pane.busy
             /\ From = IF kind = "info" THEN "panel" ELSE "tab"
  BY <1>2 DEF Act, From
<1>3. ASSUME NEW op \in RequestOp
      PROVE  Asks(NewRequest(op), op, From)
  BY <1>3, NewFields
<1>4. panes \in Nat /\ dialogs \in Nat
  BY SentTyped
<1>5. CASE Save(b)
  <2>1. PICK n : n = [NewRequest("save") EXCEPT !.choice = b]
    OBVIOUS
  <2>2. Asks(n, "save", From)
    BY <1>3, <2>1 DEF Query, RequestOp
  <2>3. Send(n) /\ pane.kind = "overview" /\ BusyPane /\ UNCHANGED dialog
    BY <1>2, <1>5, <2>1 DEF Save
  <2>4. Kinds(n) /\ ~PanelAsk(n)
    BY <1>4, <2>2, <2>3 DEF Kinds, PanelAsk, Same
  <2> QED BY <1>1, <2>2, <2>3, <2>4, AskPanes DEF BusyPane
<1>6. CASE Flip
  <2>0. PICK c : c = ~pane.public
    OBVIOUS
  <2>1. PICK n : n = [NewRequest("flip") EXCEPT !.choice = c]
    OBVIOUS
  <2>2. Asks(n, "flip", From)
    <3>1. c \in BOOLEAN
      BY <2>0, Zenon
    <3> QED BY <1>3, <2>1, <3>1 DEF Query, RequestOp
  <2>3. Send(n) /\ pane.kind = "info" /\ pane.loaded /\ ~pane.busy /\ BusyPane /\ UNCHANGED dialog
    BY <1>2, <1>6, <2>0, <2>1 DEF Flip
  <2>4. Kinds(n)
    BY <1>4, <2>2, <2>3 DEF Kinds
  <2> QED BY <1>1, <2>2, <2>3, <2>4, AskPanes DEF BusyPane
<1>7. CASE Kick(m)
  <2>1. PICK n : n = [NewRequest("kick") EXCEPT !.member = m]
    OBVIOUS
  <2>2. Asks(n, "kick", From)
    BY <1>3, <2>1 DEF Query, RequestOp
  <2>3. /\ Send(n) /\ pane.kind \in {"members", "info"} /\ pane.loaded /\ ~pane.busy /\ BusyPane /\ UNCHANGED dialog
        /\ From = IF pane.kind = "info" THEN "panel" ELSE "tab"
    BY <1>2, <1>7, <2>1 DEF Kick
  <2>4. Kinds(n)
    BY <1>4, <2>2, <2>3 DEF Kinds
  <2> QED BY <1>1, <2>2, <2>3, <2>4, AskPanes DEF BusyPane
<1>8. CASE AddFriend(m)
  <2>1. PICK n : n = [NewRequest("add") EXCEPT !.member = m]
    OBVIOUS
  <2>2. Asks(n, "add", From)
    BY <1>3, <2>1 DEF Query, RequestOp
  <2>3. Send(n) /\ pane.kind = "members" /\ pane' = [pane EXCEPT !.adding = TRUE] /\ UNCHANGED dialog
    BY <1>8, <2>1 DEF AddFriend
  <2>4. Kinds(n) /\ ~PanelAsk(n)
    BY <1>4, <2>2, <2>3 DEF Kinds, PanelAsk
  <2> QED BY <1>1, <2>2, <2>3, <2>4, AskPanes
<1>9. CASE Transfer(m, b)
  <2>1. PICK n : n = [NewRequest("transfer") EXCEPT !.member = m, !.choice = b]
    OBVIOUS
  <2>2. Asks(n, "transfer", From) /\ n.member = m /\ (n.choice <=> b)
    <3>1. Asks(NewRequest("transfer"), "transfer", From)
      BY <1>3 DEF RequestOp
    <3>2. Asks(n, "transfer", From)
      BY <2>1, <3>1 DEF Query
    <3>3. n.member = m
      BY <2>1, <3>1 DEF Query
    <3>4. n.choice <=> b
      BY <2>1, <3>1 DEF Query
    <3> QED BY <3>2, <3>3, <3>4
  <2>3. Send(n) /\ m # Me
    BY <1>9, <2>1 DEF Transfer
  <2>4. CASE dialog.kind = "transfer" /\ dialog' = [dialog EXCEPT !.busy = TRUE] /\ UNCHANGED pane
    <3>1. pane.kind = "members" /\ From = "dialog"
      BY <2>4 DEF PanesInv, DialogKinds, From
    <3>2. Kinds(n) /\ ~PanelAsk(n)
      BY <1>4, <2>2, <2>3, <3>1 DEF Kinds, PanelAsk
    <3> QED BY <1>1, <2>2, <2>3, <2>4, <3>2, AskPanes
  <2>5. CASE Act("info") /\ ~b /\ BusyPane /\ UNCHANGED dialog
    <3>1. pane.kind = "info" /\ From = "panel" /\ pane.loaded /\ ~pane.busy
      BY <1>2, <2>5
    <3>2. Kinds(n)
      BY <1>4, <2>2, <2>3, <2>5, <3>1 DEF Kinds
    <3> QED BY <1>1, <2>2, <2>3, <2>5, <3>1, <3>2, AskPanes DEF BusyPane
  <2> QED BY <1>9, <2>4, <2>5 DEF Transfer
<1>10. CASE Depart
  <2>1. PICK op \in {"delete", "depart"} : op = IF pane.owned THEN "delete" ELSE "depart"
    OBVIOUS
  <2>2. PICK n : n = NewRequest(op)
    OBVIOUS
  <2>3. Asks(n, op, From)
    BY <1>3, <2>2 DEF RequestOp
  <2>4. /\ Send(n) /\ pane.kind \in {"danger", "info"} /\ pane.loaded /\ ~pane.busy /\ BusyPane /\ UNCHANGED dialog
        /\ From = IF pane.kind = "info" THEN "panel" ELSE "tab"
    BY <1>2, <1>10, <2>1, <2>2 DEF Depart
  <2>5. Kinds(n)
    BY <1>4, <2>3, <2>4 DEF Kinds
  <2> QED BY <1>1, <2>3, <2>4, <2>5, AskPanes DEF BusyPane
<1>11. CASE Generate
  <2>1. PICK n : n = NewRequest("generate")
    OBVIOUS
  <2>2. Asks(n, "generate", From)
    BY <1>3, <2>1 DEF RequestOp
  <2>3. Send(n) /\ dialog.kind = "create" /\ dialog' = [dialog EXCEPT !.busy = TRUE] /\ UNCHANGED pane
    BY <1>11, <2>1 DEF Generate
  <2>4. Kinds(n) /\ ~PanelAsk(n)
    BY <1>4, <2>2, <2>3 DEF Kinds, PanelAsk, PanelOp, PanesInv, DialogKinds
  <2> QED BY <1>1, <2>2, <2>3, <2>4, AskPanes
<1>12. CASE Reissue
  <2>1. PICK n : n = [NewRequest("mint") EXCEPT !.link = dialog.current]
    OBVIOUS
  <2>2. Asks(n, "mint", From)
    <3>1. dialog.current \in Link \cup {NoInvite}
      BY SentTyped DEF Dialog
    <3> QED BY <1>3, <2>1, <3>1 DEF Query, RequestOp
  <2>3. Send(n) /\ dialog.kind = "edit" /\ dialog' = [dialog EXCEPT !.busy = TRUE] /\ UNCHANGED pane
    BY <1>12, <2>1 DEF Reissue
  <2>4. Kinds(n) /\ ~PanelAsk(n)
    BY <1>4, <2>2, <2>3 DEF Kinds, PanelAsk, PanelOp, PanesInv, DialogKinds
  <2> QED BY <1>1, <2>2, <2>3, <2>4, AskPanes
<1>13. CASE Revoke(l)
  <2>1. PICK n : n = [NewRequest("revoke") EXCEPT !.link = l]
    OBVIOUS
  <2>2. Asks(n, "revoke", From)
    BY <1>3, <2>1 DEF Query, RequestOp
  <2>3. /\ Send(n) /\ (pane.kind = "invites" \/ dialog.kind = "edit") /\ UNCHANGED pane
        /\ UNCHANGED dialog \/ dialog' = [dialog EXCEPT !.busy = TRUE]
    BY <1>13, <2>1 DEF Revoke
  <2>4. Kinds(n) /\ ~PanelAsk(n)
    BY <1>4, <2>2, <2>3 DEF Kinds, PanelAsk, PanelOp, PanesInv, DialogKinds
  <2> QED BY <1>1, <2>2, <2>3, <2>4, AskPanes
<1> QED BY <1>5, <1>6, <1>7, <1>8, <1>9, <1>10, <1>11, <1>12, <1>13

-----------------------------------------------------------------------------
\* What the server and others do.
LEMMA OthersPanes == ASSUME PanesInv, SettingsInv', OthersDo PROVE PanesInv'
<1>1. UNCHANGED <<pane, panes, dialog, dialogs, requests>> /\ behind'
  BY DEF OthersDo
<1>2. behind' \in BOOLEAN
  BY DEF OthersDo
<1>3. /\ Sending' = Sending /\ Counted' /\ OneInPanel' /\ DialogKinds' /\ \A q \in Sending' : Kinds(q)'
  BY <1>1 DEF PanesInv, Sending, Counted, OneInPanel, PanelAsk, Same, DialogKinds, Kinds, SameDialog
<1>4. PanelInv' /\ MembersInv' /\ LinksInv' /\ OwnerInv'
  BY <1>1 DEF PanelInv, MembersInv, LinksInv, OwnerInv
<1> QED BY <1>2, <1>3, <1>4 DEF PanesInv

LEMMA MadeKeeps ==
  ASSUME PanesInv, NEW q \in Sending, NEW r \in Made(q)
  PROVE  /\ q.op \notin {"kick", "add", "depart", "delete"} => r.members = room.members
         /\ q.op \notin {"save", "flip"} => r.public = room.public
         /\ q.op # "transfer" => r.owner = room.owner
         /\ q.op \notin {"delete", "generate", "mint", "swap", "revoke"} => r.live = room.live
         /\ q.op = "kick" => r.members = room.members \ {q.member}
         /\ q.op = "flip" => r.public = q.choice
         /\ q.op = "transfer" => r.owner = q.member
<1>1. q \in Query /\ room \in RoomState /\ r \in IF ~room.there THEN {} ELSE Made(q)
  BY SentTyped DEF Made
<1>2. CASE q.op \in {"save", "flip"}
  <2>1. r = [room EXCEPT !.public = q.choice]
    BY <1>1, <1>2 DEF Made
  <2> QED BY <1>1, <1>2, <2>1 DEF RoomState
<1>3. CASE q.op \in {"kick", "depart", "add"}
  <2>1. PICK s : r = [room EXCEPT !.members = s] /\ (q.op = "kick" => s = room.members \ {q.member})
    BY <1>1, <1>3 DEF Made
  <2> QED BY <1>1, <1>3, <2>1 DEF RoomState
<1>4. CASE q.op = "transfer"
  <2>1. r = [room EXCEPT !.owner = q.member]
    BY <1>1, <1>4 DEF Made
  <2> QED BY <1>1, <1>4, <2>1 DEF RoomState
<1>5. CASE q.op = "delete"
  <2>1. r = Gone
    BY <1>1, <1>5 DEF Made
  <2> QED BY <1>1, <1>5, <2>1 DEF RoomState, Gone
<1>6. CASE q.op \in {"generate", "mint"}
  <2>1. PICK l \in Link \ room.minted : r = [room EXCEPT !.live = @ \cup {l}, !.minted = @ \cup {l}]
    BY <1>1, <1>6 DEF Made
  <2> QED BY <1>1, <1>6, <2>1 DEF RoomState
<1>7. CASE q.op \in {"swap", "revoke"}
  <2>1. r = [room EXCEPT !.live = @ \ {q.link}]
    BY <1>1, <1>7 DEF Made
  <2> QED BY <1>1, <1>7, <2>1 DEF RoomState
<1>8. CASE q.op \in {"list", "load", "fetch"}
  <2>1. r = room
    BY <1>1, <1>8 DEF Made
  <2> QED BY <1>1, <1>8, <2>1
<1> QED BY <1>1, <1>2, <1>3, <1>4, <1>5, <1>6, <1>7, <1>8 DEF Query

\* The same request, handled.
SameRequest(n, q) ==
  /\ n.op = q.op /\ n.pane = q.pane /\ n.dialog = q.dialog /\ n.from = q.from /\ n.member = q.member
  /\ n.choice = q.choice
TurnsTo(q, n) ==
  /\ q.at = "sent" /\ Next1(q, n) /\ SameRequest(n, q) /\ behind' \in BOOLEAN
  /\ UNCHANGED <<pane, panes, dialog, dialogs>>
  /\ \/ /\ room' \in Made(q) /\ n.at \in {"done", "failed"}
        /\ ~behind' => ~behind /\ n.at = "done" /\ (room' = room \/ Same(q))
     \/ UNCHANGED <<room, behind>> /\ n.at = "failed"

LEMMA HandleKinds ==
  ASSUME PanesInv, NEW q \in Sending, Handle(q)
  PROVE  \E n : TurnsTo(q, n)
<1>1. q \in Query /\ behind \in BOOLEAN /\ q.at = "sent" /\ UNCHANGED <<pane, panes, dialog, dialogs>>
  BY SentTyped DEF PanesInv, Handle
<1>2. PICK f : f = [q EXCEPT !.at = "failed"]
  OBVIOUS
<1>3. SameRequest(f, q) /\ f.at = "failed"
  BY <1>1, <1>2 DEF SameRequest, Query
<1>4. CASE Next1(q, f) /\ ((behind' = TRUE /\ room' \in Made(q)) \/ UNCHANGED <<room, behind>>)
  BY <1>1, <1>3, <1>4 DEF TurnsTo
<1>5. CASE ~(Next1(q, f) /\ ((behind' = TRUE /\ room' \in Made(q)) \/ UNCHANGED <<room, behind>>))
  <2>1. room' \in Made(q) /\ behind' = (behind \/ (room' # room /\ ~Same(q)))
    BY <1>2, <1>5 DEF Handle
  <2>2. PICK new, view : Next1(q, [q EXCEPT !.at = "done", !.new = new, !.seen = view])
    BY <1>2, <1>5 DEF Handle
  <2>3. PICK n : n = [q EXCEPT !.at = "done", !.new = new, !.seen = view]
    OBVIOUS
  <2>4. SameRequest(n, q) /\ n.at = "done"
    BY <1>1, <2>3 DEF SameRequest, Query
  <2>5. behind' \in BOOLEAN
    BY <2>1
  <2>6. TurnsTo(q, n)
    BY <1>1, <2>1, <2>2, <2>3, <2>4, <2>5 DEF TurnsTo
  <2> QED BY <2>6
<1> QED BY <1>4, <1>5

LEMMA HandlePanes == ASSUME PanesInv, SettingsInv', NEW q \in Sending, Handle(q) PROVE PanesInv'
<1>1. PICK n : TurnsTo(q, n)
  BY HandleKinds
<1>2. /\ q.at = "sent" /\ n.at # "sent" /\ n # q /\ SameRequest(n, q) /\ Next1(q, n)
      /\ UNCHANGED <<pane, panes, dialog, dialogs>> /\ behind' \in BOOLEAN
      /\ ~behind' => ~behind
  BY <1>1 DEF TurnsTo, PanesInv
<1>3. /\ Counted' /\ Sending' \subseteq Sending \cup {n} /\ Sending \ {q} \subseteq Sending' /\ n \in Sending'
      /\ requests[q] = 1 => q \notin Sending'
      /\ \A d \in Sending' \ {q, n} : requests'[d] = requests[d]
      /\ n \notin Sending => requests'[n] = 1
  BY <1>2, SentTyped, FollowsCounted
<1>4. \A d : /\ Same(d)' <=> Same(d)
             /\ SameDialog(d)' <=> SameDialog(d)
             /\ PanelAsk(d)' <=> PanelAsk(d)
             /\ Kinds(d)' <=> Kinds(d)
  BY <1>2 DEF Same, SameDialog, PanelAsk, Kinds
<1>5. (Same(n) <=> Same(q)) /\ (SameDialog(n) <=> SameDialog(q)) /\ (PanelAsk(n) <=> PanelAsk(q)) /\ (Kinds(q) => Kinds(n))
  BY <1>2 DEF SameRequest, Same, SameDialog, PanelAsk, Kinds
<1>6. \A d \in Sending' : Kinds(d)'
  BY <1>3, <1>4, <1>5 DEF PanesInv
<1>7. DialogKinds'
  BY <1>2 DEF PanesInv, DialogKinds
<1>8. OneInPanel'
  <2>1. CASE PanelAsk(q)
    <3>1. /\ requests[q] = 1 /\ \A d \in Sending : PanelAsk(d) => d = q
          /\ (q.op = "load" <=> ~pane.loaded) /\ (q.op # "load" => pane.busy)
      BY <2>1 DEF PanesInv, OneInPanel
    <3>2. requests'[n] = 1 /\ \A d \in Sending' : PanelAsk(d) => d = n
      BY <1>2, <1>3, <1>5, <2>1, <3>1
    <3> QED BY <1>2, <1>4, <3>1, <3>2 DEF OneInPanel, SameRequest
  <2>2. CASE ~PanelAsk(q)
    <3>1. \A d \in Sending' : PanelAsk(d) => d \in Sending /\ requests'[d] = requests[d]
      BY <1>3, <1>5, <2>2
    <3> QED BY <1>2, <1>4, <3>1 DEF PanesInv, OneInPanel
  <2> QED BY <2>1, <2>2
<1>9. Kinds(q) /\ q \in Query
  BY SentTyped
<1>10. UNCHANGED room \/ (room' \in Made(q) /\ (~behind' => n.at = "done" /\ Same(q)))
  BY <1>1 DEF TurnsTo
<1>11. PanelInv'
  <2>1. SUFFICES ASSUME pane.kind = "info", pane.loaded, ~behind'
                 PROVE  PanelInv'
    BY <1>2 DEF PanelInv
  <2>2. /\ PanelTakes
        /\ pane.members # room.members => PanelFollows({"kick", "depart", "delete"})
        /\ pane.public # room.public => PanelFollows({"flip"})
        /\ ~(pane.owned <=> room.owner = Me) => PanelFollows({"transfer"})
    BY <1>2, <2>1 DEF PanesInv, PanelInv
  <2>3. CASE PanelAsk(q)
    <3>1. (\A d \in Sending : PanelAsk(d) => d = q) /\ q.op # "load"
      BY <2>1, <2>3 DEF PanesInv, OneInPanel
    <3>2. pane.members = room.members /\ pane.public = room.public /\ (pane.owned <=> room.owner = Me)
      BY <1>2, <2>2, <3>1 DEF PanelFollows
    <3>3. \A d \in Sending' : PanelAsk(d) => d = n
      BY <1>3, <2>3, <3>1 DEF PanesInv, OneInPanel
    <3>4. CASE UNCHANGED room /\ n.at # "done"
      <4>1. PanelTakes'
        BY <1>4, <3>3, <3>4 DEF PanelTakes
      <4> QED BY <1>2, <3>2, <3>4, <4>1 DEF PanelInv
    <3>5. CASE room' \in Made(q) /\ n.at = "done"
      <4>1. /\ q.op \notin {"kick", "depart", "delete"} => room'.members = room.members
            /\ q.op # "flip" => room'.public = room.public
            /\ q.op # "transfer" => room'.owner = room.owner
            /\ q.op = "kick" => room'.members = room.members \ {q.member}
            /\ q.op = "flip" => room'.public = q.choice
            /\ q.op = "transfer" => room'.owner # Me
        <5>1. q.op \notin {"add", "save"} /\ (q.op = "transfer" => q.member # Me)
          BY <1>9, <2>3 DEF Kinds, PanelAsk, PanelOp
        <5> QED BY <3>5, <5>1, MadeKeeps
      <4>2. PanelTakes'
        BY <1>2, <1>4, <3>2, <3>3, <4>1 DEF PanelTakes, SameRequest
      <4>3. \A ops : q.op \in ops => PanelFollows(ops)'
        BY <1>2, <1>3, <1>4, <1>5, <2>3, <3>5 DEF PanelFollows, SameRequest
      <4> QED BY <1>2, <3>2, <4>1, <4>2, <4>3 DEF PanelInv
    <3> QED BY <1>1, <2>1, <3>4, <3>5 DEF TurnsTo
  <2>4. CASE ~PanelAsk(q)
    <3>1. room'.members = room.members /\ room'.public = room.public /\ room'.owner = room.owner
      <4>1. CASE room' \in Made(q) /\ Same(q)
        <5>1. q.op \notin {"kick", "add", "depart", "delete", "save", "flip", "transfer"}
          BY <1>9, <2>1, <2>4, <4>1 DEF Kinds, PanelAsk, PanelOp
        <5> QED BY <4>1, <5>1, MadeKeeps
      <4> QED BY <1>10, <2>1, <4>1
    <3>2. /\ \A d \in Sending' : PanelAsk(d) => d \in Sending
          /\ \A d \in Sending : PanelAsk(d) => d \in Sending'
      BY <1>3, <1>5, <2>4
    <3>3. PanelTakes'
      BY <1>2, <1>4, <2>2, <3>1, <3>2 DEF PanelTakes
    <3>4. \A ops : PanelFollows(ops) => PanelFollows(ops)'
      BY <1>4, <3>2 DEF PanelFollows
    <3> QED BY <1>2, <2>2, <3>1, <3>3, <3>4 DEF PanelInv
  <2> QED BY <2>3, <2>4
<1>12. MembersInv'
  <2>1. SUFFICES ASSUME pane.kind = "members", pane.loaded, ~behind', pane.members # room'.members
                 PROVE  \E d \in Sending' : FollowsMembers(d)
    BY <1>2, <1>4 DEF MembersInv, FollowsMembers
  <2>2. CASE room'.members = room.members
    <3>1. PICK d \in Sending : FollowsMembers(d)
      BY <1>2, <2>1, <2>2 DEF PanesInv, MembersInv
    <3>2. d = q => FollowsMembers(n)
      BY <1>2, <1>5, <3>1 DEF FollowsMembers, SameRequest
    <3> QED BY <1>3, <3>1, <3>2
  <2>3. CASE room'.members # room.members
    <3>1. room' \in Made(q) /\ n.at = "done" /\ Same(q)
      BY <1>10, <2>1, <2>3
    <3>2. n.op \in {"kick", "add", "depart", "delete"}
      BY <1>2, <2>3, <3>1, MadeKeeps DEF SameRequest
    <3> QED BY <1>3, <1>5, <3>1, <3>2 DEF FollowsMembers
  <2> QED BY <2>2, <2>3
<1>13. LinksInv'
  <2>1. SUFFICES ASSUME pane.kind = "invites", pane.loaded, dialog.kind # "create", ~behind', pane.links # room'.live
                 PROVE  \E d \in Sending' : FollowsLinks(d)
    BY <1>2, <1>4 DEF LinksInv, FollowsLinks
  <2>2. CASE room'.live = room.live
    <3>1. PICK d \in Sending : FollowsLinks(d)
      BY <1>2, <2>1, <2>2 DEF PanesInv, LinksInv
    <3>2. d = q => FollowsLinks(n)
      BY <1>2, <1>5, <3>1 DEF FollowsLinks, SameRequest
    <3> QED BY <1>3, <3>1, <3>2
  <2>3. CASE room'.live # room.live
    <3>1. room' \in Made(q) /\ n.at = "done" /\ Same(q)
      BY <1>10, <2>1, <2>3
    <3>2. q.op \in {"generate", "mint", "swap", "revoke"} /\ (q.op = "generate" => ~SameDialog(q))
      BY <1>9, <2>1, <2>3, <3>1, MadeKeeps DEF Kinds
    <3> QED BY <1>2, <1>3, <1>5, <3>1, <3>2 DEF FollowsLinks, SameRequest
  <2> QED BY <2>2, <2>3
<1>14. OwnerInv'
  <2>1. SUFFICES ASSUME IsModal, ~behind', ~(pane.owned <=> room'.owner = Me)
                 PROVE  \E d \in Sending' : FollowsOwner(d)
    BY <1>2, <1>4 DEF OwnerInv, FollowsOwner, IsModal
  <2>2. CASE room'.owner = room.owner
    <3>1. PICK d \in Sending : FollowsOwner(d)
      BY <1>2, <2>1, <2>2 DEF PanesInv, OwnerInv
    <3>2. d = q => FollowsOwner(n)
      BY <1>2, <3>1 DEF FollowsOwner, SameRequest
    <3> QED BY <1>3, <3>1, <3>2
  <2>3. CASE room'.owner # room.owner
    <3>1. room' \in Made(q) /\ n.at = "done" /\ Same(q)
      BY <1>10, <2>1, <2>3
    <3>2. q.op = "transfer" /\ q.from = "dialog"
      BY <1>9, <2>1, <2>3, <3>1, MadeKeeps DEF Kinds, IsModal
    <3> QED BY <1>2, <1>3, <3>1, <3>2 DEF FollowsOwner, SameRequest
  <2> QED BY <2>2, <2>3
<1> QED BY <1>2, <1>3, <1>6, <1>7, <1>8, <1>11, <1>12, <1>13, <1>14 DEF PanesInv

-----------------------------------------------------------------------------
\* What an answer changes, where the pane stays open.
LEMMA HeardPanes ==
  ASSUME PanesInv, SettingsInv', NEW q \in Sending, UNCHANGED <<room, panes, dialogs>>, behind' \in BOOLEAN,
         behind => behind', pane'.kind = pane.kind, pane'.loaded = pane.loaded, pane'.links = pane.links,
         IsModal => (pane'.owned <=> pane.owned) /\ pane'.members = pane.members,
         dialog'.kind \in {dialog.kind, "none"}, dialog.kind = "create" => dialog'.kind = "create",
         NEW n, Drop(q) \/ (Next1(q, n) /\ Kinds(n) /\ n.at = "sent" /\ ~PanelAsk(n)),
         \/ /\ ~PanelAsk(q) /\ (pane.busy => pane'.busy) /\ pane'.members = pane.members
            /\ (pane'.public <=> pane.public) /\ (pane'.owned <=> pane.owned)
         \/ /\ PanelAsk(q) /\ pane.loaded
            /\ ~behind' => pane'.members = room.members /\ pane'.public = room.public /\ (pane'.owned <=> room.owner = Me)
         \/ pane.kind # "info",
         pane.kind = "members" /\ ~behind' /\ FollowsMembers(q) => Next1(q, n) /\ FollowsMembers(n),
         pane.kind = "invites" /\ ~behind' /\ FollowsLinks(q) => Next1(q, n) /\ FollowsLinks(n),
         IsModal /\ ~behind' /\ FollowsOwner(q) => Next1(q, n) /\ FollowsOwner(n)
  PROVE  PanesInv'
<1>1. /\ Counted' /\ Sending \ {q} \subseteq Sending' /\ (Next1(q, n) => n \in Sending')
      /\ \/ /\ Sending' \subseteq Sending /\ \A d \in Sending' \ {q} : requests'[d] = requests[d]
            /\ requests[q] = 1 => q \notin Sending'
         \/ /\ Sending' \subseteq Sending \cup {n} /\ \A d \in Sending' \ {q, n} : requests'[d] = requests[d]
            /\ requests[q] = 1 => q \notin Sending' \/ q = n
            /\ Kinds(n) /\ n.at = "sent" /\ ~PanelAsk(n)
  <2>1. Next1(q, n) => n \in Sending'
    BY SentTyped, FollowsCounted
  <2>2. CASE Drop(q)
    BY <2>1, <2>2, SentTyped, DropsCounted
  <2>3. CASE Next1(q, n) /\ Kinds(n) /\ n.at = "sent" /\ ~PanelAsk(n)
    BY <2>3, SentTyped, FollowsCounted
  <2> QED BY <2>2, <2>3
<1>2. PaneMoves /\ DialogKinds'
  BY DEF PaneMoves, PanesInv, DialogKinds
<1>3. \A d \in Sending' : Kinds(d)'
  <2>1. \A d \in Sending' : d \in Query
    BY DEF SettingsInv, Fits
  <2>2. \A d \in Sending' : Kinds(d)
    BY <1>1, SentTyped
  <2> QED BY <1>2, <2>1, <2>2, SentTyped, KindsKept
<1>4. \A d : /\ Same(d)' <=> Same(d)
             /\ PanelAsk(d)' <=> PanelAsk(d)
             /\ FollowsMembers(d)' <=> FollowsMembers(d)
             /\ FollowsOwner(d)' <=> FollowsOwner(d)
             /\ FollowsLinks(d) => FollowsLinks(d)'
  BY DEF Same, SameDialog, PanelAsk, FollowsMembers, FollowsOwner, FollowsLinks
<1>5. \A d \in Sending' : PanelAsk(d) => d \in Sending /\ (d # q => requests'[d] = requests[d])
  BY <1>1
<1>6. ASSUME PanelAsk(q)
      PROVE  \A d \in Sending' : ~PanelAsk(d)
  <2>1. requests[q] = 1 /\ \A d \in Sending : PanelAsk(d) => d = q
    BY <1>6 DEF PanesInv, OneInPanel
  <2> QED BY <1>1, <1>5, <1>6, <2>1
<1>7. OneInPanel'
  <2>1. CASE PanelAsk(q) \/ pane.kind # "info"
    BY <1>4, <1>6, <2>1 DEF OneInPanel, PanelAsk
  <2>2. CASE ~PanelAsk(q) /\ (pane.busy => pane'.busy)
    BY <1>4, <1>5, <2>2 DEF PanesInv, OneInPanel
  <2> QED BY <2>1, <2>2
<1>8. PanelInv'
  <2>1. SUFFICES ASSUME pane.kind = "info", pane.loaded, ~behind'
                 PROVE  PanelInv'
    BY DEF PanelInv
  <2>2. CASE PanelAsk(q)
    BY <1>4, <1>6, <2>1, <2>2 DEF PanelInv, PanelTakes
  <2>3. CASE ~PanelAsk(q)
    <3>1. pane'.members = pane.members /\ (pane'.public <=> pane.public) /\ (pane'.owned <=> pane.owned)
      BY <2>1, <2>3
    <3>2. pane'.public = pane.public
      BY <3>1, SentTyped DEF SettingsInv, SettingsTyped, Pane
    <3>3. PanelTakes'
      BY <1>4, <1>5, <2>1, <3>1 DEF PanesInv, PanelInv, PanelTakes
    <3>4. \A ops : PanelFollows(ops) => PanelFollows(ops)'
      <4>1. \A d \in Sending : PanelAsk(d) => d \in Sending'
        BY <1>1, <2>3
      <4> QED BY <1>4, <4>1 DEF PanelFollows
    <3> QED BY <2>1, <3>1, <3>2, <3>3, <3>4 DEF PanesInv, PanelInv
  <2> QED BY <2>2, <2>3
<1>9. MembersInv'
  <2>1. SUFFICES ASSUME pane.kind = "members", pane.loaded, ~behind', pane.members # room.members
                 PROVE  \E d \in Sending' : FollowsMembers(d)
    BY <1>4 DEF MembersInv, IsModal
  <2>2. PICK d \in Sending : FollowsMembers(d)
    BY <2>1 DEF PanesInv, MembersInv
  <2> QED BY <1>1, <2>1, <2>2
<1>10. LinksInv'
  <2>1. SUFFICES ASSUME pane.kind = "invites", pane.loaded, dialog.kind # "create", ~behind', pane.links # room.live
                 PROVE  \E d \in Sending' : FollowsLinks(d)
    BY <1>4 DEF LinksInv
  <2>2. PICK d \in Sending : FollowsLinks(d)
    BY <2>1 DEF PanesInv, LinksInv
  <2> QED BY <1>1, <2>1, <2>2
<1>11. OwnerInv'
  <2>1. SUFFICES ASSUME IsModal, ~behind', ~(pane.owned <=> room.owner = Me)
                 PROVE  \E d \in Sending' : FollowsOwner(d)
    BY <1>4 DEF OwnerInv, IsModal
  <2>2. PICK d \in Sending : FollowsOwner(d)
    BY <2>1 DEF PanesInv, OwnerInv
  <2> QED BY <1>1, <2>1, <2>2
<1> QED BY <1>1, <1>2, <1>3, <1>7, <1>8, <1>9, <1>10, <1>11 DEF PanesInv

\* What the panel shows when the one answer it waits for arrives.
LEMMA PanelSettled ==
  ASSUME PanesInv, NEW q \in Sending, PanelAsk(q)
  PROVE  /\ pane.loaded <=> q.op # "load"
         /\ pane.loaded /\ ~behind =>
              /\ pane.members # room.members => q.at = "done" /\ q.op \in {"kick", "depart", "delete"}
              /\ pane.public # room.public => q.at = "done" /\ q.op = "flip"
              /\ ~(pane.owned <=> room.owner = Me) => q.at = "done" /\ q.op = "transfer"
              /\ q.at = "done" /\ q.op = "kick" => pane.members \ {q.member} = room.members
              /\ q.at = "done" /\ q.op = "flip" => q.choice = room.public
              /\ q.at = "done" /\ q.op = "transfer" => room.owner # Me
<1>1. (q.op = "load" <=> ~pane.loaded) /\ \A d \in Sending : PanelAsk(d) => d = q
  BY DEF PanesInv, OneInPanel
<1>2. \A ops : PanelFollows(ops) => q.at = "done" /\ q.op \in ops
  BY <1>1 DEF PanelFollows
<1>3. pane.kind = "info"
  BY DEF PanelAsk
<1> QED BY <1>1, <1>2, <1>3 DEF PanesInv, PanelInv, PanelTakes

LEMMA FetchPanes == ASSUME PanesInv, SettingsInv', NEW q \in Sending, Fetched(q) PROVE PanesInv'
<1>1. /\ q.op \in {"fetch", "load"} /\ q.at # "sent" /\ Drop(q) /\ UNCHANGED <<room, panes, dialogs, dialog>>
      /\ q \in Query /\ Kinds(q) /\ pane \in Pane /\ q.seen \in RoomState
  BY SentTyped DEF Fetched, Heard, Query
<1>2. PICK b \in BOOLEAN, a \in BOOLEAN, o \in BOOLEAN :
        /\ (pane.busy /\ q.after # "kick") <=> b
        /\ (pane.adding /\ q.after # "add") <=> a
        /\ o <=> (IF q.op = "load" THEN q.seen.owner = Me ELSE pane.owned)
  OBVIOUS
<1>3. CASE ~Same(q)
  <2>1. UNCHANGED <<pane, behind>>
    BY <1>3 DEF Fetched, PaneSet
  <2>2. behind' \in BOOLEAN /\ ~PanelAsk(q) /\ ~FollowsMembers(q) /\ ~FollowsLinks(q) /\ ~FollowsOwner(q)
    BY <1>1, <1>3, <2>1 DEF PanesInv, PanelAsk, FollowsMembers, FollowsLinks, FollowsOwner
  <2> QED BY <1>1, <2>1, <2>2, HeardPanes
<1>4. CASE Same(q)
  <2>1. /\ behind' \in BOOLEAN
        /\ ~behind' => /\ q.at = "done" /\ q.seen = room
                       /\ q.op = "fetch" => ~behind \/ (pane.owned <=> room.owner = Me)
    <3>1. /\ behind' = (q.at = "failed" \/ q.seen # room \/ (behind /\ q.op = "fetch" /\ (pane.owned # (room.owner = Me))))
          /\ behind \in BOOLEAN /\ pane.owned \in BOOLEAN
      BY <1>1, <1>4 DEF Fetched, PanesInv, Pane
    <3>2. q.at \in {"done", "failed"}
      BY <1>1 DEF Query
    <3> QED BY <3>1, <3>2
  <2>2. /\ pane'.kind = pane.kind
        /\ q.op = "fetch" => (pane'.owned <=> pane.owned)
        /\ q.at = "done" => /\ pane'.members = q.seen.members /\ pane'.links = q.seen.live /\ pane'.loaded
                            /\ pane'.public = q.seen.public /\ (q.op = "load" => (pane'.owned <=> q.seen.owner = Me))
    <3>1. PICK free : free = [pane EXCEPT !.busy = @ /\ q.after # "kick", !.adding = @ /\ q.after # "add"]
      OBVIOUS
    <3>2. free.kind = pane.kind /\ free.owned = pane.owned /\ DOMAIN free = DOMAIN pane
      BY <1>1, <3>1 DEF Pane
    <3>3. pane' = IF q.at = "failed" THEN free
                  ELSE [free EXCEPT !.members = q.seen.members, !.links = q.seen.live, !.loaded = TRUE,
                                    !.public = q.seen.public,
                                    !.owned = IF q.op = "load" THEN q.seen.owner = Me ELSE @]
      BY <1>4, <3>1 DEF Fetched, PaneSet
    <3> QED BY <1>1, <3>2, <3>3 DEF Pane
  <2>3. Counted' /\ Sending' \subseteq Sending /\ Sending \ {q} \subseteq Sending' /\ (requests[q] = 1 => q \notin Sending')
    BY <1>1, SentTyped, DropsCounted
  <2>4. PaneMoves /\ DialogKinds'
    BY <1>1, <1>4, <2>2 DEF PaneMoves, PanesInv, DialogKinds, Same
  <2>5. \A d \in Sending' : Kinds(d)'
    BY <2>3, <2>4, SentTyped, KindsKept
  <2>6. \A d : PanelAsk(d)' <=> PanelAsk(d)
    BY <1>1, <2>2 DEF PanelAsk, Same
  <2>7. CASE q.op = "load"
    <3>1. pane.kind = "info" /\ PanelAsk(q)
      BY <1>1, <1>4, <2>7 DEF Kinds, PanelAsk, PanelOp
    <3>2. \A d \in Sending' : ~PanelAsk(d)
      BY <2>3, <3>1 DEF PanesInv, OneInPanel
    <3>3. OneInPanel' /\ PanelTakes'
      BY <2>6, <3>2 DEF OneInPanel, PanelTakes
    <3>4. PanelInv'
      BY <1>1, <2>1, <2>2, <2>7, <3>3 DEF PanelInv
    <3>5. MembersInv' /\ LinksInv' /\ OwnerInv'
      BY <2>2, <3>1 DEF MembersInv, LinksInv, OwnerInv, IsModal
    <3> QED BY <2>1, <2>3, <2>4, <2>5, <3>3, <3>4, <3>5 DEF PanesInv
  <2>8. CASE q.op = "fetch"
    <3>1. pane.kind \in {"members", "invites"}
      BY <1>1, <1>4, <2>8 DEF Kinds
    <3>2. OneInPanel' /\ PanelInv'
      BY <2>2, <3>1 DEF OneInPanel, PanelAsk, PanelInv
    <3>3. MembersInv' /\ LinksInv'
      BY <1>1, <2>1, <2>2 DEF MembersInv, LinksInv
    <3>4. OwnerInv'
      <4>1. SUFFICES ASSUME IsModal, ~behind', ~(pane.owned <=> room.owner = Me)
                     PROVE  \E d \in Sending' : FollowsOwner(d)
        BY <1>1, <2>2, <2>8 DEF OwnerInv, FollowsOwner, IsModal
      <4>2. PICK d \in Sending : FollowsOwner(d)
        BY <2>1, <2>8, <4>1 DEF PanesInv, OwnerInv
      <4> QED BY <2>3, <2>8, <4>2 DEF FollowsOwner
    <3> QED BY <2>1, <2>3, <2>4, <2>5, <3>2, <3>3, <3>4 DEF PanesInv
  <2> QED BY <1>1, <2>7, <2>8
<1> QED BY <1>3, <1>4

\* An answer that leaves the pane as it is, or frees its buttons.
LEMMA FreesPane ==
  ASSUME PanesInv, NEW q \in Sending, q.op # "load", NEW b,
         UNCHANGED <<panes, pane>> \/ (UNCHANGED panes /\ PaneSet(q, [pane EXCEPT !.busy = b]))
                                   \/ (UNCHANGED panes /\ PaneSet(q, [pane EXCEPT !.adding = b]) /\ ~PanelAsk(q)),
         UNCHANGED room, behind => behind', PanelAsk(q) => q.at = "failed" /\ UNCHANGED panes,
         ~PanelAsk(q) => UNCHANGED pane \/ pane.kind # "info" \/ ~Same(q)
  PROVE  /\ pane'.kind = pane.kind /\ pane'.loaded = pane.loaded /\ pane'.links = pane.links
         /\ IsModal => (pane'.owned <=> pane.owned) /\ pane'.members = pane.members
         /\ \/ /\ ~PanelAsk(q) /\ (pane.busy => pane'.busy) /\ pane'.members = pane.members
               /\ (pane'.public <=> pane.public) /\ (pane'.owned <=> pane.owned)
            \/ /\ PanelAsk(q) /\ pane.loaded
               /\ ~behind' => pane'.members = room.members /\ pane'.public = room.public /\ (pane'.owned <=> room.owner = Me)
            \/ pane.kind # "info"
<1>1. /\ pane'.kind = pane.kind /\ pane'.loaded = pane.loaded /\ pane'.links = pane.links
      /\ pane'.owned = pane.owned /\ pane'.members = pane.members /\ pane'.public = pane.public
      /\ ~Same(q) => UNCHANGED pane
  BY SentTyped DEF PaneSet, Pane
<1>2. PanelAsk(q) => pane.loaded /\
        (~behind => pane.members = room.members /\ pane.public = room.public /\ (pane.owned <=> room.owner = Me))
  BY PanelSettled
<1> QED BY <1>1, <1>2

LEMMA PlainHeard ==
  ASSUME PanesInv, SettingsInv', NEW q \in Sending, ListHeard(q) \/ Generated(q) \/ Minted(q) \/ MintFails(q)
  PROVE  PanesInv'
<1>1. UNCHANGED <<room, panes, dialogs, pane>> /\ q \in Query /\ behind \in BOOLEAN
  BY SentTyped DEF ListHeard, Generated, Minted, MintFails, Heard, PanesInv
<1>2. dialog'.kind = dialog.kind
  BY SentTyped DEF ListHeard, Generated, Minted, MintFails, DialogSet, Dialog
<1>3. q.op \in {"list", "generate", "mint", "swap"}
  BY DEF ListHeard, Generated, Minted, MintFails
<1>4. ~PanelAsk(q) /\ ~FollowsMembers(q) /\ ~FollowsOwner(q)
  BY <1>3 DEF PanelAsk, PanelOp, FollowsMembers, FollowsOwner
<1>5. behind' \in BOOLEAN /\ (behind => behind')
  BY <1>1 DEF ListHeard, Generated, Minted, MintFails
<1>6. CASE Minted(q)
  <2>1. PICK n : n = [q EXCEPT !.op = "swap", !.at = "sent"]
    OBVIOUS
  <2>2. n.op = "swap" /\ n.at = "sent" /\ n.pane = q.pane /\ n.dialog = q.dialog /\ n.from = q.from
    BY <1>1, <2>1 DEF Query
  <2>3. Next1(q, n) /\ q.op = "mint" /\ q.at = "done" /\ Kinds(q)
    BY <1>6, <2>1, SentTyped DEF Minted
  <2>4. Kinds(n) /\ ~PanelAsk(n)
    BY <2>2, <2>3 DEF Kinds, PanelAsk, PanelOp, Same
  <2>5. FollowsLinks(q) => FollowsLinks(n)
    BY <2>2 DEF FollowsLinks, Same
  <2> QED BY <1>1, <1>2, <1>4, <1>5, <2>2, <2>3, <2>4, <2>5, HeardPanes
<1>7. CASE ~Minted(q)
  <2>1. Drop(q)
    BY <1>7 DEF ListHeard, Generated, MintFails
  <2>2. ~behind' => ~FollowsLinks(q)
    BY <1>3, <1>5, <1>7 DEF ListHeard, Generated, MintFails, FollowsLinks
  <2> QED BY <1>1, <1>2, <1>4, <1>5, <2>1, <2>2, HeardPanes
<1> QED BY <1>6, <1>7

LEMMA SavedPanes ==
  ASSUME PanesInv, SettingsInv', NEW q \in Sending, Saved(q) \/ Flipped(q)
  PROVE  PanesInv'
<1>1. UNCHANGED <<room, panes, dialogs, dialog, behind>> /\ q \in Query /\ behind \in BOOLEAN /\ Kinds(q) /\ q.at # "sent"
  BY SentTyped DEF Saved, Flipped, Heard, PanesInv
<1>2. ~FollowsMembers(q) /\ ~FollowsOwner(q) /\ ~FollowsLinks(q)
  BY DEF Saved, Flipped, FollowsMembers, FollowsOwner, FollowsLinks
<1>3. CASE Saved(q)
  <2>1. PICK n : n = NewRequest("list")
    OBVIOUS
  <2>2. n.op = "list" /\ n.at = "sent" /\ n.pane = panes /\ n.dialog = dialogs
    BY <2>1, NewFields DEF RequestOp
  <2>3. Kinds(n) /\ ~PanelAsk(n)
    BY <2>2, SentTyped DEF Kinds, PanelAsk, PanelOp
  <2>4. Drop(q) \/ Next1(q, n)
    BY <1>3, <2>1 DEF Saved
  <2>5. ~PanelAsk(q) /\ (pane.kind # "info" \/ ~Same(q)) /\ q.op # "load" /\ PaneSet(q, [pane EXCEPT !.busy = FALSE])
    BY <1>1, <1>3 DEF Saved, Kinds, PanelAsk, PanelOp
  <2> QED BY <1>1, <1>2, <2>2, <2>3, <2>4, <2>5, FreesPane, HeardPanes
<1>4. CASE Flipped(q)
  <2>1. /\ q.op = "flip" /\ Drop(q) /\ q.at \in {"done", "failed"}
        /\ PaneSet(q, [pane EXCEPT !.busy = FALSE, !.public = IF q.at = "done" THEN q.choice ELSE @])
    BY <1>1, <1>4 DEF Flipped, Query
  <2>2. CASE ~Same(q)
    BY <1>1, <1>2, <2>1, <2>2, HeardPanes DEF PaneSet, PanelAsk
  <2>3. CASE Same(q)
    <3>1. PanelAsk(q) /\ pane.kind = "info"
      BY <1>1, <2>1, <2>3 DEF Kinds, PanelAsk, PanelOp
    <3>2. /\ pane'.kind = pane.kind /\ pane'.loaded = pane.loaded /\ pane'.links = pane.links
          /\ pane'.owned = pane.owned /\ pane'.members = pane.members
          /\ pane'.public = IF q.at = "done" THEN q.choice ELSE pane.public
      BY <2>1, <2>3, SentTyped DEF PaneSet, Pane
    <3>3. /\ pane.loaded
          /\ ~behind => pane'.members = room.members /\ pane'.public = room.public /\ (pane'.owned <=> room.owner = Me)
      BY <2>1, <3>1, <3>2, PanelSettled
    <3> QED BY <1>1, <1>2, <2>1, <3>1, <3>2, <3>3, HeardPanes DEF IsModal
  <2> QED BY <2>2, <2>3
<1> QED BY <1>3, <1>4

LEMMA KickedPanes ==
  ASSUME PanesInv, SettingsInv', NEW q \in Sending, Kicked(q) \/ Added(q)
  PROVE  PanesInv'
<1>1. /\ UNCHANGED <<room, panes, dialogs, dialog, behind>> /\ q \in Query /\ behind \in BOOLEAN /\ Kinds(q)
      /\ q.at \in {"done", "failed"} /\ q.op \in {"kick", "add"}
  BY SentTyped DEF Kicked, Added, Heard, PanesInv, Query
<1>2. ~FollowsOwner(q) /\ ~FollowsLinks(q)
  BY <1>1 DEF FollowsOwner, FollowsLinks
<1>3. ASSUME NEW a, Next1(q, [q EXCEPT !.op = "fetch", !.at = "sent", !.after = a]), UNCHANGED pane,
             q.op = "kick" => q.from # "panel"
      PROVE  PanesInv'
  <2>1. PICK n : n = [q EXCEPT !.op = "fetch", !.at = "sent", !.after = a]
    OBVIOUS
  <2>2. n.op = "fetch" /\ n.at = "sent" /\ n.pane = q.pane /\ n.dialog = q.dialog /\ n.from = q.from
    BY <1>1, <2>1 DEF Query
  <2>3. Same(q) => pane.kind = "members"
    BY <1>1, <1>3 DEF Kinds
  <2>4. Kinds(n) /\ ~PanelAsk(n)
    BY <1>1, <2>2, <2>3 DEF Kinds, PanelAsk, PanelOp, Same
  <2>5. ~PanelAsk(q) /\ (FollowsMembers(q) => FollowsMembers(n))
    BY <2>2, <2>3 DEF PanelAsk, FollowsMembers, Same
  <2> QED BY <1>1, <1>2, <1>3, <2>1, <2>2, <2>4, <2>5, HeardPanes
<1>4. ASSUME Drop(q), q.at = "failed",
             PaneSet(q, [pane EXCEPT !.busy = FALSE]) \/ (PaneSet(q, [pane EXCEPT !.adding = FALSE]) /\ q.op = "add")
      PROVE  PanesInv'
  <2>1. ~FollowsMembers(q)
    BY <1>1, <1>4 DEF FollowsMembers
  <2>2. (q.op = "add" => ~PanelAsk(q)) /\ (~PanelAsk(q) => pane.kind # "info" \/ ~Same(q))
    BY <1>1 DEF Kinds, PanelAsk, PanelOp
  <2> QED BY <1>1, <1>2, <1>4, <2>1, <2>2, FreesPane, HeardPanes
<1>5. CASE Added(q)
  BY <1>1, <1>3, <1>4, <1>5 DEF Added
<1>6. CASE Kicked(q) /\ q.at = "done" /\ q.from # "panel"
  BY <1>3, <1>6 DEF Kicked
<1>7. CASE Kicked(q) /\ (q.at = "failed" \/ q.from = "panel")
  <2>1. /\ q.op = "kick" /\ Drop(q)
        /\ PaneSet(q, [pane EXCEPT !.busy = FALSE, !.members = IF q.at = "done" THEN @ \ {q.member} ELSE @])
    BY <1>7 DEF Kicked
  <2>2. CASE ~Same(q)
    BY <1>1, <1>2, <2>1, <2>2, HeardPanes DEF PaneSet, PanelAsk, FollowsMembers
  <2>3. CASE Same(q) /\ q.from # "panel"
    <3>1. q.at = "failed" /\ pane.kind = "members"
      BY <1>1, <1>7, <2>1, <2>3 DEF Kinds
    <3>2. PaneSet(q, [pane EXCEPT !.busy = FALSE])
      <4>1. [pane EXCEPT !.busy = FALSE, !.members = @] = [pane EXCEPT !.busy = FALSE]
        BY SentTyped DEF Pane
      <4> QED BY <2>1, <3>1, <4>1
    <3> QED BY <1>4, <2>1, <3>1, <3>2
  <2>4. CASE Same(q) /\ q.from = "panel"
    <3>1. PanelAsk(q) /\ pane.kind = "info"
      BY <1>1, <2>1, <2>4 DEF Kinds, PanelAsk, PanelOp
    <3>2. /\ pane'.kind = pane.kind /\ pane'.loaded = pane.loaded /\ pane'.links = pane.links
          /\ pane'.owned = pane.owned /\ pane'.public = pane.public
          /\ pane'.members = IF q.at = "done" THEN pane.members \ {q.member} ELSE pane.members
      BY <2>1, <2>4, SentTyped DEF PaneSet, Pane
    <3>3. /\ pane.loaded
          /\ ~behind => pane'.members = room.members /\ pane'.public = room.public /\ (pane'.owned <=> room.owner = Me)
      BY <1>1, <2>1, <3>1, <3>2, PanelSettled
    <3> QED BY <1>1, <1>2, <2>1, <3>1, <3>2, <3>3, HeardPanes DEF IsModal
  <2> QED BY <2>2, <2>3, <2>4
<1> QED BY <1>1, <1>5, <1>6, <1>7

\* The modal closes, or the panel, and a request may go on for the lobby.
LEMMA ClosesPanes ==
  ASSUME PanesInv, SettingsInv', NEW q \in Sending, UNCHANGED <<room, panes, dialogs>>, behind' \in BOOLEAN,
         pane' = Closed, dialog' = NoDialog, NEW n, Kinds(n), Drop(q) \/ Next1(q, n)
  PROVE  PanesInv'
<1>1. pane'.kind = "none" /\ ~pane'.loaded /\ dialog'.kind = "none"
  BY NoDialogTyped DEF Closed
<1>2. PaneMoves /\ DialogKinds'
  BY <1>1 DEF PaneMoves, DialogKinds
<1>3. Counted' /\ Sending' \subseteq Sending \cup {n}
  BY SentTyped, DropsCounted, FollowsCounted
<1>4. \A d \in Sending' : Kinds(d)'
  <2>1. \A d \in Sending' : d \in Query
    BY DEF SettingsInv, Fits
  <2>2. \A d \in Sending' : Kinds(d)
    BY <1>3, SentTyped
  <2> QED BY <1>2, <2>1, <2>2, SentTyped, KindsKept
<1> QED BY <1>1, <1>2, <1>3, <1>4, ShutPanes

\* The list of the lobby says nothing of what is open.
LEMMA ListKinds ==
  ASSUME PanesInv, NEW n, n = NewRequest("list")
  PROVE  Kinds(n) /\ n.at = "sent" /\ ~PanelAsk(n)
<1>1. n.op = "list" /\ n.at = "sent" /\ n.pane = panes /\ n.dialog = dialogs
  BY NewFields DEF RequestOp
<1> QED BY <1>1, SentTyped DEF Kinds, PanelAsk, PanelOp

LEMMA TransferPanes ==
  ASSUME PanesInv, SettingsInv', NEW q \in Sending, Transferred(q) \/ TransferFails(q)
  PROVE  PanesInv'
<1>1. /\ UNCHANGED <<room, panes, dialogs, behind>> /\ q \in Query /\ behind \in BOOLEAN /\ behind' \in BOOLEAN /\ Kinds(q)
      /\ q.op = "transfer" /\ q.from \in {"dialog", "panel"} /\ (q.from = "panel" => ~q.choice) /\ q.member # Me
  BY SentTyped DEF Transferred, TransferFails, Heard, PanesInv, Kinds
<1>2. ~FollowsMembers(q) /\ ~FollowsLinks(q)
  BY <1>1 DEF FollowsMembers, FollowsLinks
<1>3. ASSUME q.from = "panel", Same(q)
      PROVE  PanelAsk(q) /\ pane.kind = "info" /\ ~IsModal
  BY <1>1, <1>3 DEF Kinds, PanelAsk, PanelOp, IsModal
<1>4. ASSUME q.from = "dialog"
      PROVE  ~PanelAsk(q)
  BY <1>1, <1>4 DEF Kinds, PanelAsk
<1>5. CASE TransferFails(q)
  <2>1. Drop(q) /\ q.at = "failed" /\ ~FollowsOwner(q)
    BY <1>5 DEF TransferFails, FollowsOwner
  <2>2. dialog'.kind = dialog.kind
    BY <1>5, SentTyped DEF TransferFails, DialogSet, Dialog
  <2>3. UNCHANGED pane \/ (PaneSet(q, [pane EXCEPT !.busy = FALSE]) /\ q.from = "panel")
    BY <1>5 DEF TransferFails
  <2>4. ~PanelAsk(q) => UNCHANGED pane \/ ~Same(q)
    BY <1>3, <2>3
  <2> QED BY <1>1, <1>2, <2>1, <2>2, <2>3, <2>4, FreesPane, HeardPanes
<1>6. CASE Transferred(q) /\ q.choice
  <2>1. PICK n : n = [q EXCEPT !.op = "depart", !.at = "sent"]
    OBVIOUS
  <2>2. n.op = "depart" /\ n.at = "sent" /\ n.pane = q.pane /\ n.dialog = q.dialog /\ n.from = "dialog" /\ q.from = "dialog"
    BY <1>1, <1>6, <2>1 DEF Query
  <2>3. Next1(q, n) /\ UNCHANGED <<pane, dialog>> /\ q.at = "done"
    BY <1>6, <2>1 DEF Transferred
  <2>4. Same(q) => pane.kind = "members"
    BY <1>1, <2>2 DEF Kinds
  <2>5. Kinds(n) /\ ~PanelAsk(n)
    BY <1>1, <2>2, <2>4 DEF Kinds, PanelAsk, Same
  <2>6. FollowsOwner(n)
    BY <2>2 DEF FollowsOwner
  <2> QED BY <1>1, <1>2, <1>4, <2>2, <2>3, <2>5, <2>6, HeardPanes
<1>7. CASE Transferred(q) /\ ~q.choice /\ q.from = "panel"
  <2>1. /\ Drop(q) /\ UNCHANGED dialog /\ q.at = "done" /\ ~FollowsOwner(q)
        /\ PaneSet(q, [pane EXCEPT !.busy = FALSE, !.owned = FALSE])
    BY <1>7 DEF Transferred, FollowsOwner
  <2>2. CASE ~Same(q)
    BY <1>1, <1>2, <2>1, <2>2, HeardPanes DEF PaneSet, PanelAsk
  <2>3. CASE Same(q)
    <3>1. /\ pane'.kind = pane.kind /\ pane'.loaded = pane.loaded /\ pane'.links = pane.links
          /\ pane'.members = pane.members /\ pane'.public = pane.public /\ ~pane'.owned
      BY <2>1, <2>3, SentTyped DEF PaneSet, Pane
    <3>2. PanelAsk(q) /\ pane.kind = "info" /\ ~IsModal
      BY <1>3, <1>7, <2>3
    <3>3. /\ pane.loaded
          /\ ~behind => pane'.members = room.members /\ pane'.public = room.public /\ (pane'.owned <=> room.owner = Me)
      BY <1>1, <2>1, <3>1, <3>2, PanelSettled
    <3> QED BY <1>1, <1>2, <2>1, <3>1, <3>2, <3>3, HeardPanes
  <2> QED BY <2>2, <2>3
<1>8. CASE Transferred(q) /\ ~q.choice /\ q.from = "dialog"
  <2>1. PICK n : n = NewRequest("list")
    OBVIOUS
  <2>2. Next1(q, n) /\ CloseModal /\ Kinds(n) /\ n.at = "sent" /\ ~PanelAsk(n)
    BY <1>8, <2>1, ListKinds DEF Transferred
  <2>3. CASE IsModal
    BY <1>1, <2>2, <2>3, ClosesPanes DEF CloseModal
  <2>4. CASE ~IsModal
    <3>1. UNCHANGED <<pane, dialog>> /\ pane.kind # "members"
      BY <2>2, <2>4 DEF CloseModal, IsModal
    <3> QED BY <1>1, <1>2, <1>4, <1>8, <2>2, <2>4, <3>1, HeardPanes
  <2> QED BY <2>3, <2>4
<1> QED BY <1>1, <1>5, <1>6, <1>7, <1>8

LEMMA DepartPanes == ASSUME PanesInv, SettingsInv', NEW q \in Sending, Departed(q) PROVE PanesInv'
<1>1. /\ UNCHANGED <<room, panes, dialogs>> /\ q \in Query /\ behind \in BOOLEAN /\ Kinds(q)
      /\ q.op \in {"depart", "delete"} /\ q.at \in {"done", "failed"}
      /\ behind' = (behind \/ (q.from = "dialog" /\ q.at = "failed"))
  BY SentTyped DEF Departed, Heard, PanesInv, Query
<1>2. ~FollowsLinks(q) /\ behind' \in BOOLEAN /\ (behind => behind')
  BY <1>1 DEF FollowsLinks
<1>3. Same(q) => (q.from = "panel" <=> pane.kind = "info")
  BY <1>1 DEF Kinds
<1>4. PanelAsk(q) <=> Same(q) /\ q.from = "panel"
  BY <1>1, <1>3 DEF PanelAsk, PanelOp
<1>5. CASE q.at = "done" /\ q.from = "panel"
  <2>1. Drop(q) /\ ClosePanel
    BY <1>5 DEF Departed
  <2>2. CASE pane.kind = "info"
    <3>1. PICK n : n = NewRequest("list")
      OBVIOUS
    <3>2. Kinds(n)
      BY <3>1, ListKinds
    <3> QED BY <1>1, <1>2, <2>1, <2>2, <3>2, ClosesPanes DEF ClosePanel
  <2>3. CASE pane.kind # "info"
    <3>1. UNCHANGED <<pane, dialog>>
      BY <2>1, <2>3 DEF ClosePanel
    <3>2. ~FollowsMembers(q) /\ ~FollowsOwner(q)
      BY <1>3, <1>5, <2>3 DEF FollowsMembers, FollowsOwner
    <3> QED BY <1>1, <1>2, <2>1, <2>3, <3>1, <3>2, HeardPanes
  <2> QED BY <2>2, <2>3
<1>6. CASE q.at = "done" /\ q.from # "panel"
  <2>1. PICK n : n = NewRequest("list")
    OBVIOUS
  <2>2. Next1(q, n) /\ CloseModal /\ Kinds(n) /\ n.at = "sent" /\ ~PanelAsk(n)
    BY <1>6, <2>1, ListKinds DEF Departed
  <2>3. CASE IsModal
    BY <1>1, <1>2, <2>2, <2>3, ClosesPanes DEF CloseModal
  <2>4. CASE ~IsModal
    <3>1. UNCHANGED <<pane, dialog>> /\ pane.kind # "members" /\ ~PanelAsk(q)
      BY <1>4, <1>6, <2>2, <2>4 DEF CloseModal, IsModal
    <3> QED BY <1>1, <1>2, <2>2, <2>4, <3>1, HeardPanes
  <2> QED BY <2>3, <2>4
<1>7. CASE q.at = "failed"
  <2>1. PICK b : b = (pane.busy /\ q.from = "dialog")
    OBVIOUS
  <2>2. Drop(q) /\ PaneSet(q, [pane EXCEPT !.busy = b])
    BY <1>7, <2>1 DEF Departed
  <2>3. dialog'.kind = dialog.kind
    BY <1>7, SentTyped DEF Departed, DialogSet, Dialog
  <2>4. ~FollowsMembers(q) /\ (~behind' => ~FollowsOwner(q))
    BY <1>1, <1>7 DEF FollowsMembers, FollowsOwner
  <2>5. ~PanelAsk(q) => pane.kind # "info" \/ ~Same(q)
    BY <1>3, <1>4
  <2> QED BY <1>1, <1>2, <1>7, <2>2, <2>3, <2>4, <2>5, FreesPane, HeardPanes
<1> QED BY <1>1, <1>5, <1>6, <1>7

LEMMA SwapPanes == ASSUME PanesInv, SettingsInv', NEW q \in Sending, Swapped(q) \/ Revoked(q) PROVE PanesInv'
<1>1. /\ UNCHANGED <<room, panes, dialogs, pane, behind>> /\ q \in Query /\ behind \in BOOLEAN /\ Kinds(q)
      /\ q.op \in {"swap", "revoke"}
  BY SentTyped DEF Swapped, Revoked, Heard, PanesInv
<1>2. ~FollowsMembers(q) /\ ~FollowsOwner(q) /\ ~PanelAsk(q)
  BY <1>1 DEF FollowsMembers, FollowsOwner, PanelAsk, PanelOp
<1>3. dialog'.kind \in {dialog.kind, "none"} /\ (dialog.kind = "create" => dialog'.kind = "create")
  BY SentTyped, NoDialogTyped DEF Swapped, Revoked, DialogSet, Dialog
<1>4. PICK r : r = NewRequest("fetch")
  OBVIOUS
<1>5. PICK n : n = [r EXCEPT !.pane = q.pane]
  OBVIOUS
<1>6. n.op = "fetch" /\ n.at = "sent" /\ n.pane = q.pane /\ n.dialog = dialogs
  <2>1. r \in Query /\ r.op = "fetch" /\ r.at = "sent" /\ r.dialog = dialogs
    BY <1>4, NewFields DEF RequestOp
  <2> QED BY <1>5, <2>1 DEF Query
<1>7. Kinds(n) /\ ~PanelAsk(n) /\ (FollowsLinks(q) => FollowsLinks(n))
  BY <1>1, <1>6, SentTyped DEF Kinds, PanelAsk, PanelOp, FollowsLinks, Same
<1>8. Next1(q, n) \/ (Drop(q) /\ q.op = "revoke" /\ q.at # "done")
  BY <1>4, <1>5 DEF Swapped, Revoked
<1>9. ~Next1(q, n) => Drop(q) /\ ~FollowsLinks(q)
  BY <1>8 DEF FollowsLinks
<1> QED BY <1>1, <1>2, <1>3, <1>6, <1>7, <1>8, <1>9, HeardPanes

LEMMA PanesInitially == SettingsInit => PanesInv
<1> SUFFICES ASSUME SettingsInit PROVE PanesInv
  OBVIOUS
<1>1. SettingsInv
  BY SettingsInitially
<1>2. Sending = {}
  BY BagNone DEF SettingsInit, Sending
<1>3. pane.kind = "none" /\ ~pane.loaded /\ dialog.kind = "none" /\ behind \in BOOLEAN
  BY DEF SettingsInit, Closed, NoDialog
<1> QED BY <1>1, <1>2, <1>3 DEF PanesInv, Counted, DialogKinds, OneInPanel, PanelInv, MembersInv, LinksInv, OwnerInv, IsModal

LEMMA PanesStep == PanesInv /\ [SettingsNext]_settingsVars => PanesInv'
<1> SUFFICES ASSUME PanesInv, [SettingsNext]_settingsVars PROVE PanesInv'
  OBVIOUS
<1>0. SettingsInv'
  BY SettingsStep DEF PanesInv
<1>1. CASE \/ OpenSettings \/ OpenInfo \/ ClosePane \/ CloseDialog
           \/ \E k \in {"overview", "members", "invites", "danger"} : SwitchTab(k)
           \/ \E k \in {"create", "edit", "transfer"}, l \in Link \cup {NoInvite} : OpenDialog(k, l)
  BY <1>0, <1>1, OpenPanes, DialogPanes
<1>2. CASE \/ Flip \/ Depart \/ Generate \/ Reissue \/ \E b \in BOOLEAN : Save(b)
           \/ \E m \in Member : Kick(m) \/ AddFriend(m) \/ \E leave \in BOOLEAN : Transfer(m, leave)
           \/ \E l \in Link : Revoke(l)
  <2>1. PICK l \in Link : TRUE
    BY SettingsAssumption
  <2>2. Me \in Member
    BY DEF Member
  <2> QED BY <1>0, <1>2, <2>1, <2>2, ActPanes
<1>3. CASE OthersDo
  BY <1>0, <1>3, OthersPanes
<1>4. ASSUME NEW q \in Sending, Handle(q) PROVE PanesInv'
  BY <1>0, <1>4, HandlePanes
<1>5. ASSUME NEW q \in Sending, Hear(q) PROVE PanesInv'
  BY <1>0, <1>5, PlainHeard, FetchPanes, SavedPanes, KickedPanes, TransferPanes, DepartPanes, SwapPanes DEF Hear
<1>6. CASE UNCHANGED settingsVars
  <2>1. UNCHANGED <<room, listed, pane, panes, dialog, dialogs, requests, behind>>
    BY <1>6 DEF settingsVars
  <2>2. PaneMoves /\ DialogKinds'
    BY <2>1 DEF PaneMoves, PanesInv, DialogKinds
  <2> QED BY <1>0, <2>1, <2>2, ActedPanes
<1> QED BY <1>1, <1>2, <1>3, <1>4, <1>5, <1>6 DEF SettingsNext

\* Once nothing is under way, what is open shows the room as it is
\* (RoomSettingsModal, RoomInfoPanel).
THEOREM PanesCorrect == SettingsInit /\ [][SettingsNext]_settingsVars => []PanesSettle
<1>1. ASSUME PanesInv
      PROVE  PanesSettle
  <2>1. SUFFICES ASSUME requests = EmptyBag, pane.loaded, ~behind
                 PROVE  /\ pane.kind \in {"members", "info"} => pane.members = room.members
                        /\ pane.kind = "invites" /\ dialog.kind # "create" => pane.links = room.live
                        /\ pane.kind = "info" => pane.public = room.public
                        /\ pane.owned <=> room.owner = Me
    BY DEF PanesSettle
  <2>2. Sending = {}
    BY <2>1, BagNone DEF Sending
  <2>3. IsModal \/ pane.kind = "info"
    <3>1. pane.kind # "none"
      BY <1>1, <2>1 DEF PanesInv, DialogKinds
    <3> QED BY <1>1, <3>1, SentTyped DEF Pane, IsModal
  <2> QED BY <1>1, <2>1, <2>2, <2>3 DEF PanesInv, PanelInv, PanelFollows, MembersInv, LinksInv, OwnerInv
<1> QED BY <1>1, PanesInitially, PanesStep, PTL
-----------------------------------------------------------------------------
(* The lists of friends, once nothing is under way.  A list that is not as *)
(* the server has it is about to be fetched again: by an event that brings *)
(* word of the change, or after the answer to what the user did.           *)

AsksCounted == \A a \in Asked : asks[a] \in Nat \ {0}

\* The requests whose answer shows the list anew, or asks for it.
FetchesAgain(a) ==
  StillOpen(a) /\ \/ a.op = "list"
                  \/ a.op \in {"request", "accept", "reject", "block", "remove"} /\ a.at = "done"

FollowedUp ==
  mounted /\ part.page # "picker" /\ ~late /\ listing # Shown =>
    news # <<>> \/ \E a \in Asked : FetchesAgain(a)

FriendsInv == FriendsTypeOK /\ AsksCounted /\ FollowedUp

-----------------------------------------------------------------------------
\* One more request, one less, and one that goes on as another.
LEMMA PutsOne == ASSUME AsksCounted, NEW a, Put(a) PROVE AsksCounted' /\ Asked' = Asked \cup {a}
<1> DEFINE one == SetToBag({a})
<1>1. asks' = asks (+) one /\ DOMAIN one = {a} /\ one[a] = 1
  BY DEF Put, SetToBag
<1> HIDE DEF one
<1>2. /\ DOMAIN asks' = DOMAIN asks \cup {a}
      /\ \A d \in DOMAIN asks' :
           asks'[d] = (IF d \in DOMAIN asks THEN asks[d] ELSE 0) + (IF d = a THEN 1 ELSE 0)
  BY <1>1 DEF (+)
<1> QED BY <1>2 DEF Asked, BagToSet, AsksCounted

LEMMA AsksWithout ==
  ASSUME AsksCounted, NEW a \in Asked, NEW rest, rest = asks (-) SetToBag({a})
  PROVE  /\ DOMAIN rest \subseteq Asked /\ Asked \ {a} \subseteq DOMAIN rest
         /\ \A d \in DOMAIN rest : rest[d] \in Nat \ {0}
<1> DEFINE one == SetToBag({a})
           left == [d \in DOMAIN asks |-> IF d \in DOMAIN one THEN asks[d] - one[d] ELSE asks[d]]
<1>1. rest = [d \in {e \in DOMAIN left : left[e] > 0} |-> left[d]] /\ DOMAIN one = {a} /\ one[a] = 1
  BY DEF SetToBag, (-)
<1> HIDE DEF one
<1>2. /\ DOMAIN left = Asked /\ \A d \in Asked : left[d] = IF d = a THEN asks[d] - 1 ELSE asks[d]
      /\ \A d \in Asked : asks[d] \in Nat \ {0}
  BY <1>1 DEF Asked, BagToSet, AsksCounted
<1> HIDE DEF left
<1>3. DOMAIN rest = {e \in Asked : left[e] > 0} /\ \A d \in DOMAIN rest : rest[d] = left[d]
  BY <1>1, <1>2
<1>4. \A d \in Asked : left[d] \in Nat /\ (d # a => left[d] > 0)
  BY <1>2
<1> QED BY <1>3, <1>4

LEMMA TakesOne ==
  ASSUME AsksCounted, NEW a \in Asked, Take(a)
  PROVE  AsksCounted' /\ Asked' \subseteq Asked /\ Asked \ {a} \subseteq Asked'
  BY AsksWithout DEF Take, Asked, BagToSet, AsksCounted

LEMMA TurnsOne ==
  ASSUME AsksCounted, NEW a \in Asked, NEW b, Turn(a, b)
  PROVE  AsksCounted' /\ Asked' \subseteq Asked \cup {b} /\ (Asked \ {a}) \cup {b} \subseteq Asked'
<1> DEFINE two == SetToBag({b})
<1>1. PICK rest : rest = asks (-) SetToBag({a})
  OBVIOUS
<1>2. asks' = rest (+) two /\ DOMAIN two = {b} /\ two[b] = 1
  BY <1>1 DEF Turn, SetToBag
<1> HIDE DEF two
<1>3. /\ DOMAIN rest \subseteq Asked /\ Asked \ {a} \subseteq DOMAIN rest
      /\ \A d \in DOMAIN rest : rest[d] \in Nat \ {0}
  BY <1>1, AsksWithout
<1>4. /\ DOMAIN asks' = DOMAIN rest \cup {b}
      /\ \A d \in DOMAIN asks' :
           asks'[d] = (IF d \in DOMAIN rest THEN rest[d] ELSE 0) + (IF d = b THEN 1 ELSE 0)
  BY <1>2 DEF (+)
<1> QED BY <1>3, <1>4 DEF Asked, BagToSet, AsksCounted

-----------------------------------------------------------------------------
\* The types of what is written.
LEMMA AskTyped ==
  ASSUME FriendsTypeOK,
         NEW op \in {"list", "resolve", "request", "accept", "reject", "block", "remove"},
         NEW p \in Peer \cup {Nobody}
  PROVE  /\ AskFor(op, p) \in Ask
         /\ [AskFor(op, p) EXCEPT !.show = shows + 1] \in Ask /\ [AskFor(op, p) EXCEPT !.card = cards + 1] \in Ask
<1>1. shows \in Nat /\ cards \in Nat /\ NoRow \in [Peer -> ShownRelation]
  BY FriendsAssumption DEF FriendsTypeOK, NoRow, ShownRelation
<1>2. AskFor(op, p) \in Ask
  BY <1>1 DEF AskFor, Ask
<1> QED BY <1>1, <1>2 DEF Ask

LEMMA AnswerTyped ==
  ASSUME FriendsTypeOK, NEW a \in Ask
  PROVE  /\ [a EXCEPT !.at = "done", !.seen = Shown] \in Ask /\ [a EXCEPT !.at = "done"] \in Ask
         /\ [a EXCEPT !.at = "failed"] \in Ask /\ [a EXCEPT !.op = "list", !.at = "sent"] \in Ask
         /\ [a EXCEPT !.op = "list", !.at = "sent", !.busy = a.op = "request"] \in Ask
<1>1. Shown \in [Peer -> ShownRelation]
  BY DEF Shown, ShownRelation
<1> QED BY <1>1 DEF Ask

LEMMA FriendsInitially == FriendsInit => FriendsInv
<1> SUFFICES ASSUME FriendsInit PROVE FriendsInv
  OBVIOUS
<1>1. Asked = {}
  BY DEF FriendsInit, Asked, BagToSet, EmptyBag, SetToBag
<1>2. /\ part \in FriendsProfiles /\ rel \in [Peer -> Relation] /\ NoRow \in [Peer -> ShownRelation]
      /\ NoCard \in Card /\ EmptyField \in Finder
  BY FriendsAssumption DEF FriendsInit, Relation, NoRow, ShownRelation, NoCard, Card, EmptyField, Finder
<1>3. 0 \in 0 .. MaxShow /\ 0 \in 0 .. MaxDeed /\ 0 <= MaxNews
  BY FriendsAssumption
<1>4. <<>> \in Seq({"friend.request", "friend.accepted", "friend.removed", "presence.update"}) /\ Len(<<>>) = 0
  OBVIOUS
<1>5. FriendsTypeOK
  BY <1>1, <1>2, <1>3, <1>4 DEF FriendsInit, FriendsTypeOK, Asked
<1> QED BY <1>1, <1>5 DEF FriendsInit, FriendsInv, AsksCounted, FollowedUp

\* What keeps the list followed up: it is as before and what followed it still
\* does, or a new list is asked for.
LEMMA KeepsFollowing ==
  ASSUME FriendsInv, FriendsTypeOK', AsksCounted', UNCHANGED <<part, listing, mounted, shows>>, late => late',
         rel' = rel \/ news' # <<>> \/ late' \/ \E a \in Asked' : FetchesAgain(a)',
         news # <<>> => news' # <<>> \/ late' \/ \E a \in Asked' : FetchesAgain(a)',
         \A a \in Asked : FetchesAgain(a) => a \in Asked' \/ late' \/ \E b \in Asked' : FetchesAgain(b)'
  PROVE  FriendsInv'
<1>1. rel' = rel => Shown' = Shown
  BY DEF Shown
<1>2. \A a : FetchesAgain(a)' <=> FetchesAgain(a)
  BY DEF FetchesAgain, StillOpen
<1>3. FollowedUp'
  BY <1>1, <1>2 DEF FriendsInv, FollowedUp
<1> QED BY <1>3 DEF FriendsInv

LEMMA ListTyped ==
  ASSUME FriendsTypeOK
  PROVE  /\ part \in FriendsProfiles /\ part.page \in {"screen", "pane", "picker"}
         /\ shows \in Nat /\ shows <= MaxShow /\ cards \in Nat /\ cards <= MaxShow /\ deeds \in Nat
         /\ MaxShow \in Nat /\ MaxDeed \in Nat /\ MaxNews \in Nat
         /\ \A a \in Asked : a \in Ask
  BY FriendsAssumption DEF FriendsTypeOK, Asked

\* What the user does in the list.
LEMMA ShowStep == ASSUME FriendsInv, Show PROVE FriendsInv'
<1>1. FriendsTypeOK /\ AsksCounted
  BY DEF FriendsInv
<1>2. PICK a \in Ask : a = [AskFor("list", Nobody) EXCEPT !.show = shows + 1]
  BY <1>1, AskTyped
<1>3. part.page # "picker" => a.show = shows + 1 /\ a.op = "list" /\ AsksCounted' /\ Asked' = Asked \cup {a}
  <2>1. a.show = shows + 1 /\ a.op = "list"
    BY <1>2 DEF AskFor
  <2>2. part.page # "picker" => Put(a)
    BY <1>2 DEF Show
  <2> QED BY <1>1, <2>1, <2>2, PutsOne
<1>4. part.page = "picker" => AsksCounted' /\ Asked' = Asked
  BY <1>1 DEF Show, AsksCounted, Asked
<1>5. AsksCounted' /\ \A d \in Asked' : d \in Ask
  BY <1>1, <1>2, <1>3, <1>4, ListTyped
<1>6. NoRow \in [Peer -> ShownRelation]
  BY DEF NoRow, ShownRelation
<1>7. FriendsTypeOK'
  <2>1. /\ UNCHANGED <<part, rel, card, cards, news, online, finder, deeds>> /\ listing' = NoRow
        /\ shows < MaxShow /\ mounted' = TRUE /\ shows' = shows + 1 /\ late' = FALSE /\ sending' = FALSE
    BY DEF Show
  <2>2. shows' \in 0 .. MaxShow
    BY <1>1, <2>1, ListTyped
  <2>3. BagToSet(asks)' \subseteq Ask
    BY <1>5 DEF Asked
  <2> QED BY <1>1, <1>6, <2>1, <2>2, <2>3 DEF FriendsTypeOK
<1>8. FollowedUp'
  <2>1. part.page # "picker" => FetchesAgain(a)'
    <3>1. mounted' /\ shows' = shows + 1
      BY DEF Show
    <3> QED BY <1>3, <3>1 DEF FetchesAgain, StillOpen
  <2>2. part' = part
    BY DEF Show
  <2> QED BY <1>3, <2>1, <2>2 DEF FollowedUp
<1> QED BY <1>5, <1>7, <1>8 DEF FriendsInv

LEMMA HideStep == ASSUME FriendsInv, Hide PROVE FriendsInv'
<1>1. FriendsTypeOK /\ AsksCounted
  BY DEF FriendsInv
<1>2. AsksCounted' /\ Asked' = Asked
  BY <1>1 DEF Hide, AsksCounted, Asked
<1>3. NoCard \in Card /\ [EmptyField EXCEPT !.picked = finder.picked] \in Finder
  BY <1>1 DEF FriendsTypeOK, NoCard, Card, EmptyField, Finder
<1>4. FriendsTypeOK'
  <2>1. /\ UNCHANGED <<part, rel, listing, shows, sending, cards, asks, news, online, late>>
        /\ deeds < MaxDeed /\ deeds' = deeds + 1 /\ mounted' = FALSE /\ card' = NoCard
        /\ finder' = [EmptyField EXCEPT !.picked = finder.picked]
    BY DEF Hide, Deed
  <2>2. deeds' \in 0 .. MaxDeed
    BY <1>1, <2>1, ListTyped
  <2> QED BY <1>1, <1>3, <2>1, <2>2 DEF FriendsTypeOK
<1> QED BY <1>2, <1>4 DEF FriendsInv, FollowedUp, Hide

\* Something of the user's: a request more, or none.
LEMMA DeedStep ==
  ASSUME FriendsInv, UserDeed, NEW a \in Ask, Put(a) \/ UNCHANGED asks, sending' \in BOOLEAN, card' \in Card,
         cards' \in 0 .. MaxShow
  PROVE  FriendsInv'
<1>1. FriendsTypeOK /\ AsksCounted
  BY DEF FriendsInv
<1>2. AsksCounted' /\ Asked \subseteq Asked' /\ Asked' \subseteq Asked \cup {a}
  <2>1. CASE Put(a)
    BY <1>1, <2>1, PutsOne
  <2>2. CASE UNCHANGED asks
    BY <1>1, <2>2 DEF AsksCounted, Asked
  <2> QED BY <2>1, <2>2
<1>3. FriendsTypeOK'
  BY <1>1, <1>2, ListTyped DEF UserDeed, Deed, FriendsTypeOK, Asked
<1> QED BY <1>2, <1>3, KeepsFollowing DEF UserDeed

LEMMA ListDeeds ==
  ASSUME FriendsInv,
         \/ CloseCard \/ (\E op \in {"block", "remove"} : Click(op))
         \/ \E p \in Peer : SendRequest(p) \/ Accept(p) \/ Reject(p)
         \/ \E p \in Peer, k \in {"menu", "profile"} : OpenCard(p, k)
  PROVE  FriendsInv'
<1>1. FriendsTypeOK
  BY DEF FriendsInv
<1>2. NoCard \in Card /\ card \in Card /\ sending \in BOOLEAN /\ cards \in 0 .. MaxShow
  BY <1>1 DEF NoCard, Card, FriendsTypeOK
<1>3. CASE CloseCard
  <2>1. PICK a \in Ask : a = AskFor("list", Nobody)
    BY <1>1, AskTyped
  <2> QED BY <1>2, <1>3, DeedStep DEF CloseCard
<1>4. ASSUME NEW p \in Peer, NEW op \in {"request", "accept", "reject"}, Put(AskFor(op, p)), UserDeed,
             sending' \in BOOLEAN, UNCHANGED <<card, cards>>
      PROVE  FriendsInv'
  <2>1. AskFor(op, p) \in Ask
    BY <1>1, AskTyped
  <2> QED BY <1>2, <1>4, <2>1, DeedStep
<1>5. CASE \E p \in Peer : SendRequest(p) \/ Accept(p) \/ Reject(p)
  BY <1>2, <1>4, <1>5 DEF SendRequest, Accept, Reject
<1>6. ASSUME NEW p \in Peer, NEW k \in {"menu", "profile"}, OpenCard(p, k) PROVE FriendsInv'
  <2>1. [AskFor("resolve", p) EXCEPT !.card = cards + 1] \in Ask
    BY <1>1, AskTyped
  <2>2. card' \in Card
    BY <1>2, <1>6 DEF OpenCard, Card, NoCard
  <2>3. cards' \in 0 .. MaxShow
    <3>1. cards < MaxShow /\ cards' = cards + 1
      BY <1>6 DEF OpenCard
    <3>2. cards \in Nat /\ MaxShow \in Nat
      BY <1>1, ListTyped
    <3> QED BY <3>1, <3>2
  <2> QED BY <1>2, <1>6, <2>1, <2>2, <2>3, DeedStep DEF OpenCard
<1>7. ASSUME NEW op \in {"block", "remove"}, Click(op) PROVE FriendsInv'
  <2>1. AskFor(op, card.peer) \in Ask
    BY <1>1, <1>2, AskTyped DEF Card
  <2>2. card' \in Card
    BY <1>2, <1>7 DEF Click, Card
  <2>3. Put(AskFor(op, card.peer)) \/ UNCHANGED asks
    BY <1>7 DEF Click
  <2> QED BY <1>2, <1>7, <2>1, <2>2, <2>3, DeedStep DEF Click
<1> QED BY <1>3, <1>5, <1>6, <1>7

-----------------------------------------------------------------------------
\* The server, and the others.
LEMMA AskHandled == ASSUME FriendsInv, NEW a \in Asked, Handles(a) PROVE FriendsInv'
<1>1. FriendsTypeOK /\ AsksCounted /\ a \in Ask /\ a.at = "sent"
  BY ListTyped DEF FriendsInv, Handles
<1>2. UNCHANGED <<part, listing, mounted, shows, sending, card, cards, news, online, finder, deeds>>
  BY DEF Handles
<1>3. \E b \in Ask :
        /\ Turn(a, b) /\ b.op = a.op /\ b.show = a.show /\ (a.op # "list" => a.op = "resolve" \/ b.at \in {"done", "failed"})
        /\ \/ UNCHANGED <<rel, late>>
           \/ /\ a.op \in {"request", "accept", "reject", "block", "remove"} /\ b.at = "done"
              /\ late' = (late \/ ~StillOpen(a)) /\ \E r \in Relation : rel' = [rel EXCEPT ![a.peer] = r]
  <2>1. CASE a.op \in {"list", "resolve"} /\ Turn(a, [a EXCEPT !.at = "done", !.seen = Shown]) /\ UNCHANGED <<rel, late>>
    <3>1. PICK b \in Ask : b = [a EXCEPT !.at = "done", !.seen = Shown]
      BY <1>1, AnswerTyped
    <3> QED BY <1>1, <2>1, <3>1 DEF Ask
  <2>2. CASE Turn(a, [a EXCEPT !.at = "failed"]) /\ UNCHANGED <<rel, late>>
    <3>1. PICK b \in Ask : b = [a EXCEPT !.at = "failed"]
      BY <1>1, AnswerTyped
    <3> QED BY <1>1, <2>2, <3>1 DEF Ask
  <2>3. CASE /\ \E r \in Become(a) : rel' = [rel EXCEPT ![a.peer] = r]
             /\ Turn(a, [a EXCEPT !.at = "done"]) /\ late' = (late \/ ~StillOpen(a))
    <3>1. PICK b \in Ask : b = [a EXCEPT !.at = "done"]
      BY <1>1, AnswerTyped
    <3>2. a.op \in {"request", "accept", "reject", "block", "remove"} /\ Become(a) \subseteq Relation
      BY <1>1, <2>3 DEF Become, Relation
    <3> QED BY <1>1, <2>3, <3>1, <3>2 DEF Ask
  <2> QED BY <2>1, <2>2, <2>3 DEF Handles
<1>4. PICK b \in Ask :
        /\ Turn(a, b) /\ b.op = a.op /\ b.show = a.show /\ (a.op # "list" => a.op = "resolve" \/ b.at \in {"done", "failed"})
        /\ \/ UNCHANGED <<rel, late>>
           \/ /\ a.op \in {"request", "accept", "reject", "block", "remove"} /\ b.at = "done"
              /\ late' = (late \/ ~StillOpen(a)) /\ \E r \in Relation : rel' = [rel EXCEPT ![a.peer] = r]
  BY <1>3
<1>5. AsksCounted' /\ Asked' \subseteq Asked \cup {b} /\ (Asked \ {a}) \cup {b} \subseteq Asked'
  BY <1>1, <1>4, TurnsOne
<1>6. rel' \in [Peer -> Relation] /\ late' \in BOOLEAN /\ BagToSet(asks)' \subseteq Ask
  BY <1>1, <1>4, <1>5, ListTyped DEF FriendsTypeOK, Asked
<1>7. FriendsTypeOK'
  BY <1>1, <1>2, <1>6 DEF FriendsTypeOK
<1>8. FetchesAgain(a) => FetchesAgain(b)'
  BY <1>1, <1>2, <1>4 DEF FetchesAgain, StillOpen
<1>9. rel' = rel \/ late' \/ FetchesAgain(b)'
  BY <1>2, <1>4 DEF FetchesAgain, StillOpen
<1>10. \A d \in Asked : FetchesAgain(d) => d \in Asked' \/ \E e \in Asked' : FetchesAgain(e)'
  BY <1>5, <1>8
<1>11. (late => late') /\ (rel' = rel \/ late' \/ \E e \in Asked' : FetchesAgain(e)')
  BY <1>1, <1>4, <1>5, <1>9 DEF FriendsTypeOK
<1> QED BY <1>2, <1>5, <1>7, <1>10, <1>11, KeepsFollowing

LEMMA Tells ==
  ASSUME FriendsTypeOK, NEW e \in {"friend.request", "friend.accepted", "friend.removed", "presence.update"}, Tell(e)
  PROVE  /\ news' \in Seq({"friend.request", "friend.accepted", "friend.removed", "presence.update"})
         /\ Len(news') <= MaxNews /\ late' \in BOOLEAN /\ (late => late')
         /\ news' # <<>> \/ late'
<1>1. CASE online
  <2>1. news' = Append(news, e) /\ late' = late /\ Len(news) < MaxNews
    BY <1>1 DEF Tell
  <2>2. /\ news \in Seq({"friend.request", "friend.accepted", "friend.removed", "presence.update"})
        /\ late \in BOOLEAN /\ MaxNews \in Nat
    BY ListTyped DEF FriendsTypeOK
  <2> QED BY <2>1, <2>2
<1>2. CASE ~online
  BY <1>2 DEF Tell, FriendsTypeOK
<1> QED BY <1>1, <1>2

LEMMA PeerStep == ASSUME FriendsInv, NEW p \in Peer, PeerActs(p) PROVE FriendsInv'
<1> DEFINE E == {"friend.request", "friend.accepted", "friend.removed", "presence.update"}
<1>1. FriendsTypeOK /\ AsksCounted
  BY DEF FriendsInv
<1>2. /\ UNCHANGED <<part, listing, mounted, shows, sending, card, cards, asks, online, finder>>
      /\ deeds < MaxDeed /\ deeds' = deeds + 1
  BY DEF PeerActs, Deed
<1>3. rel' \in [Peer -> Relation]
  BY <1>1 DEF PeerActs, FriendsTypeOK, Relation
<1>4. /\ news' \in Seq(E) /\ Len(news') <= MaxNews /\ late' \in BOOLEAN /\ (late => late')
      /\ (news # <<>> => news' # <<>> \/ late') /\ (Shown' = Shown \/ news' # <<>> \/ late')
  <2>1. CASE Tell("friend.request") \/ Tell("friend.accepted") \/ Tell("friend.removed") \/ Tell("presence.update")
    <3>1. PICK e \in E : Tell(e)
      BY <2>1
    <3> QED BY <1>1, <3>1, Tells
  <2>2. CASE Untold
    BY <1>1, <2>2 DEF Untold, FriendsTypeOK
  <2>3. CASE rel[p] = "hidden" /\ rel' = [rel EXCEPT ![p] = "none"] /\ UNCHANGED <<news, late>>
    <3>1. Shown' = Shown
      BY <1>1, <2>3 DEF Shown, FriendsTypeOK, ShownRelation
    <3> QED BY <1>1, <2>3, <3>1 DEF FriendsTypeOK
  <2> QED BY <2>1, <2>2, <2>3 DEF PeerActs
<1>5. AsksCounted' /\ Asked' = Asked
  BY <1>1, <1>2 DEF AsksCounted, Asked
<1>6. FriendsTypeOK'
  <2>1. deeds' \in 0 .. MaxDeed
    BY <1>1, <1>2, ListTyped
  <2> QED BY <1>1, <1>2, <1>3, <1>4, <2>1 DEF FriendsTypeOK
<1>7. \A a : FetchesAgain(a)' <=> FetchesAgain(a)
  BY <1>2 DEF FetchesAgain, StillOpen
<1>8. FollowedUp'
  BY <1>2, <1>4, <1>5, <1>7 DEF FriendsInv, FollowedUp
<1> QED BY <1>5, <1>6, <1>8 DEF FriendsInv

LEMMA SocketStep == ASSUME FriendsInv, SocketTurns PROVE FriendsInv'
<1>1. FriendsTypeOK /\ AsksCounted
  BY DEF FriendsInv
<1>2. /\ UNCHANGED <<part, rel, listing, mounted, shows, sending, card, cards, asks, finder>>
      /\ deeds < MaxDeed /\ deeds' = deeds + 1 /\ online' = ~online /\ news' = <<>> /\ late' = (late \/ news # <<>>)
  BY DEF SocketTurns, Deed
<1>3. AsksCounted' /\ Asked' = Asked
  BY <1>1, <1>2 DEF AsksCounted, Asked
<1>4. deeds' \in 0 .. MaxDeed /\ Len(<<>>) = 0 /\ 0 <= MaxNews
  BY <1>1, <1>2, ListTyped
<1>5. FriendsTypeOK'
  BY <1>1, <1>2, <1>4 DEF FriendsTypeOK
<1> QED BY <1>2, <1>3, <1>5, KeepsFollowing

LEMMA EventStep == ASSUME FriendsInv, EventComes PROVE FriendsInv'
<1> DEFINE E == {"friend.request", "friend.accepted", "friend.removed", "presence.update"}
<1>1. FriendsTypeOK /\ AsksCounted
  BY DEF FriendsInv
<1>2. /\ news # <<>> /\ news' = Tail(news)
      /\ UNCHANGED <<part, rel, listing, mounted, shows, sending, card, cards, online, finder, deeds>>
      /\ late' = (late \/ (mounted /\ part.page = "pane" /\ Head(news) = "friend.removed"))
  BY DEF EventComes
<1>3. PICK a \in Ask : a = AskFor("list", Nobody)
  BY <1>1, AskTyped
<1>4. IF mounted /\ Listens(Head(news)) THEN Put(a) ELSE UNCHANGED asks
  BY <1>3 DEF EventComes
<1>5. /\ AsksCounted' /\ Asked \subseteq Asked' /\ Asked' \subseteq Asked \cup {a}
      /\ mounted /\ Listens(Head(news)) => a \in Asked'
  <2>1. CASE mounted /\ Listens(Head(news))
    BY <1>1, <1>4, <2>1, PutsOne
  <2>2. CASE ~(mounted /\ Listens(Head(news)))
    BY <1>1, <1>4, <2>2 DEF AsksCounted, Asked
  <2> QED BY <2>1, <2>2
<1>6. news' \in Seq(E) /\ Len(news') <= MaxNews
  <2>1. news \in Seq(E) /\ Len(news) <= MaxNews
    BY <1>1 DEF FriendsTypeOK
  <2> QED BY <1>1, <1>2, <2>1, HeadTailProperties, ListTyped
<1>7. FriendsTypeOK'
  <2>1. BagToSet(asks)' \subseteq Ask /\ late' \in BOOLEAN
    BY <1>1, <1>2, <1>5, ListTyped DEF Asked, FriendsTypeOK
  <2> QED BY <1>1, <1>2, <1>6, <2>1 DEF FriendsTypeOK
<1>8. FollowedUp'
  <2> SUFFICES ASSUME mounted', part'.page # "picker", ~late', listing' # Shown' PROVE \E d \in Asked' : FetchesAgain(d)'
    BY DEF FollowedUp
  <2>1. mounted /\ Listens(Head(news))
    BY <1>1, <1>2, ListTyped DEF Listens
  <2>2. a.op = "list" /\ a.show = shows
    BY <1>3 DEF AskFor
  <2>3. FetchesAgain(a)'
    BY <1>2, <2>1, <2>2 DEF FetchesAgain, StillOpen
  <2> QED BY <1>5, <2>1, <2>3
<1> QED BY <1>5, <1>7, <1>8 DEF FriendsInv

-----------------------------------------------------------------------------
\* The answers.
LEMMA ListStep == ASSUME FriendsInv, NEW a \in Asked, ListComes(a) PROVE FriendsInv'
<1>1. FriendsTypeOK /\ AsksCounted /\ a \in Ask
  BY ListTyped DEF FriendsInv
<1>2. /\ UNCHANGED <<part, rel, mounted, shows, card, cards, news, online, finder, deeds>>
      /\ a.op = "list" /\ Take(a) /\ sending' = (sending /\ ~(StillOpen(a) /\ a.busy)) /\ a.at # "sent"
      /\ listing' = IF StillOpen(a) /\ a.at = "done" THEN a.seen ELSE listing
      /\ late' = IF StillOpen(a) THEN a.at = "failed" \/ (a.seen # Shown /\ news = <<>>) ELSE late
  BY DEF ListComes, AnswerComes
<1>3. AsksCounted' /\ Asked' \subseteq Asked /\ Asked \ {a} \subseteq Asked'
  BY <1>1, <1>2, TakesOne
<1>4. FriendsTypeOK'
  <2>1. BagToSet(asks)' \subseteq Ask
    BY <1>3, <1>1, ListTyped DEF Asked
  <2>2. listing' \in [Peer -> ShownRelation] /\ late' \in BOOLEAN /\ sending' \in BOOLEAN
    BY <1>1, <1>2 DEF Ask, FriendsTypeOK
  <2> QED BY <1>1, <1>2, <2>1, <2>2 DEF FriendsTypeOK
<1>5. Shown' = Shown /\ \A d : FetchesAgain(d)' <=> FetchesAgain(d)
  BY <1>2 DEF Shown, FetchesAgain, StillOpen
<1>6. FollowedUp'
  <2>1. CASE StillOpen(a)
    BY <1>1, <1>2, <1>5, <2>1 DEF FollowedUp, Ask
  <2>2. CASE ~StillOpen(a)
    <3>1. ~FetchesAgain(a)
      BY <2>2 DEF FetchesAgain
    <3> QED BY <1>2, <1>3, <1>5, <2>2, <3>1 DEF FriendsInv, FollowedUp
  <2> QED BY <2>1, <2>2
<1> QED BY <1>3, <1>4, <1>6 DEF FriendsInv

LEMMA CardStep == ASSUME FriendsInv, NEW a \in Asked, CardResolved(a) PROVE FriendsInv'
<1>1. FriendsTypeOK /\ AsksCounted /\ a \in Ask
  BY ListTyped DEF FriendsInv
<1>2. /\ UNCHANGED <<part, rel, listing, mounted, shows, sending, cards, news, online, late, finder, deeds>>
      /\ a.op = "resolve" /\ Take(a)
      /\ card' = IF StillCard(a) THEN [card EXCEPT !.loaded = TRUE, !.friend = a.seen[a.peer] = "friend"] ELSE card
  BY DEF CardResolved, AnswerComes
<1>3. AsksCounted' /\ Asked' \subseteq Asked /\ Asked \ {a} \subseteq Asked'
  BY <1>1, <1>2, TakesOne
<1>4. FriendsTypeOK'
  <2>1. BagToSet(asks)' \subseteq Ask
    BY <1>3, <1>1, ListTyped DEF Asked
  <2>2. card' \in Card
    BY <1>1, <1>2 DEF FriendsTypeOK, Card
  <2> QED BY <1>1, <1>2, <2>1, <2>2 DEF FriendsTypeOK
<1>5. ~FetchesAgain(a)
  BY <1>2 DEF FetchesAgain
<1> QED BY <1>2, <1>3, <1>4, <1>5, KeepsFollowing

LEMMA DoneStep == ASSUME FriendsInv, NEW a \in Asked, Done(a) \/ CardDone(a) PROVE FriendsInv'
<1>1. FriendsTypeOK /\ AsksCounted /\ a \in Ask
  BY ListTyped DEF FriendsInv
<1>2. /\ UNCHANGED <<part, rel, listing, mounted, shows, cards, news, online, late, finder, deeds>>
      /\ a.op \in {"request", "accept", "reject", "block", "remove"} /\ a.at # "sent"
      /\ sending' \in BOOLEAN /\ card' \in Card
  <2>1. sending \in BOOLEAN /\ card \in Card /\ NoCard \in Card
    BY <1>1 DEF FriendsTypeOK, NoCard, Card
  <2>2. CASE Done(a)
    BY <2>1, <2>2 DEF Done, AnswerComes
  <2>3. CASE CardDone(a)
    BY <2>1, <2>3 DEF CardDone, AnswerComes
  <2> QED BY <2>2, <2>3
<1>3. a.at = "done" => \E b \in Ask : Turn(a, b) /\ b.op = "list" /\ b.show = a.show
  <2>1. CASE Done(a)
    <3>1. PICK b \in Ask : b = [a EXCEPT !.op = "list", !.at = "sent", !.busy = a.op = "request"]
      BY <1>1, AnswerTyped
    <3>2. b.op = "list" /\ b.show = a.show
      BY <1>1, <3>1 DEF Ask
    <3> QED BY <2>1, <3>1, <3>2 DEF Done
  <2>2. CASE CardDone(a)
    <3>1. PICK b \in Ask : b = [a EXCEPT !.op = "list", !.at = "sent"]
      BY <1>1, AnswerTyped
    <3>2. b.op = "list" /\ b.show = a.show
      BY <1>1, <3>1 DEF Ask
    <3> QED BY <2>2, <3>1, <3>2 DEF CardDone
  <2> QED BY <2>1, <2>2
<1>4. a.at # "done" => Take(a)
  BY DEF Done, CardDone
<1>5. /\ AsksCounted' /\ (\A d \in Asked' : d \in Ask) /\ Asked \ {a} \subseteq Asked'
      /\ a.at = "done" => \E b \in Asked' : b.op = "list" /\ b.show = a.show
  <2>1. CASE a.at = "done"
    <3>1. PICK b \in Ask : Turn(a, b) /\ b.op = "list" /\ b.show = a.show
      BY <1>3, <2>1
    <3>2. AsksCounted' /\ Asked' \subseteq Asked \cup {b} /\ (Asked \ {a}) \cup {b} \subseteq Asked'
      BY <1>1, <3>1, TurnsOne
    <3> QED BY <1>1, <3>1, <3>2, ListTyped
  <2>2. CASE a.at # "done"
    BY <1>1, <1>4, <2>2, TakesOne, ListTyped
  <2> QED BY <2>1, <2>2
<1>6. FriendsTypeOK'
  <2>1. BagToSet(asks)' \subseteq Ask
    BY <1>5 DEF Asked
  <2> QED BY <1>1, <1>2, <2>1 DEF FriendsTypeOK
<1>7. FetchesAgain(a) => \E b \in Asked' : FetchesAgain(b)'
  BY <1>2, <1>5 DEF FetchesAgain, StillOpen
<1>8. \A d \in Asked : FetchesAgain(d) => d \in Asked' \/ \E b \in Asked' : FetchesAgain(b)'
  BY <1>5, <1>7
<1> QED BY <1>2, <1>5, <1>6, <1>8, KeepsFollowing

\* The field that looks for a handle.
LEMMA FinderMoves ==
  ASSUME FriendsInv, LooksUp \/ Matches \/ Submits \/ LookedUp \/ \E h \in Peer \cup {Nobody} : Types(h)
  PROVE  FriendsInv'
<1>1. FriendsTypeOK /\ AsksCounted /\ finder \in Finder
  BY DEF FriendsInv, FriendsTypeOK
<1>2. UNCHANGED <<part, rel, listing, mounted, shows, sending, card, cards, asks, news, online, late>>
  BY DEF LooksUp, Matches, Submits, LookedUp, Types, FinderStep
<1>3. deeds' \in 0 .. MaxDeed
  <2>1. deeds' = deeds \/ (deeds < MaxDeed /\ deeds' = deeds + 1)
    BY DEF LooksUp, Matches, Submits, LookedUp, Types, Deed
  <2> QED BY <1>1, <2>1, ListTyped DEF FriendsTypeOK
<1>4. finder' \in Finder
  <2>1. CASE LooksUp
    BY <1>1, <2>1 DEF LooksUp, Finder
  <2>2. CASE Matches
    BY <1>1, <2>2 DEF Matches, Finder
  <2>3. ASSUME NEW x \in Peer, NEW y \in Peer PROVE [EmptyField EXCEPT !.picked = <<x, y>>] \in Finder
    BY DEF EmptyField, Finder
  <2>4. CASE Submits
    <3>1. CASE finder.match # Nobody
      <4>1. finder.text \in Peer /\ finder.match \in Peer
        BY <1>1, <2>4, <3>1 DEF Submits, Finder
      <4> QED BY <2>3, <2>4, <3>1, <4>1 DEF Submits
    <3>2. CASE finder.match = Nobody
      BY <1>1, <2>4, <3>2 DEF Submits, Finder
    <3> QED BY <3>1, <3>2
  <2>5. CASE LookedUp
    <3>1. finder.asked \in Peer
      BY <1>1, <2>5 DEF LookedUp, Finder
    <3>2. [EmptyField EXCEPT !.picked = <<finder.asked, finder.asked>>] \in Finder
      BY <2>3, <3>1
    <3>3. [finder EXCEPT !.busy = FALSE, !.asked = Nobody] \in Finder
      BY <1>1 DEF Finder
    <3> QED BY <2>5, <3>2, <3>3 DEF LookedUp
  <2>6. ASSUME NEW h \in Peer \cup {Nobody}, Types(h) PROVE finder' \in Finder
    BY <1>1, <2>6 DEF Types, Finder
  <2> QED BY <2>1, <2>2, <2>4, <2>5, <2>6
<1>5. FriendsTypeOK'
  BY <1>1, <1>2, <1>3, <1>4 DEF FriendsTypeOK
<1>6. AsksCounted' /\ Asked' = Asked
  BY <1>1, <1>2 DEF AsksCounted, Asked
<1> QED BY <1>2, <1>5, <1>6, KeepsFollowing

LEMMA FriendsStep == FriendsInv /\ [FriendsNext]_friendsVars => FriendsInv'
<1> SUFFICES ASSUME FriendsInv, [FriendsNext]_friendsVars PROVE FriendsInv'
  OBVIOUS
<1>1. CASE Show \/ Hide \/ SocketTurns \/ EventComes
  BY <1>1, ShowStep, HideStep, SocketStep, EventStep
<1>2. CASE \/ CloseCard \/ (\E op \in {"block", "remove"} : Click(op))
           \/ \E p \in Peer : SendRequest(p) \/ Accept(p) \/ Reject(p)
           \/ \E p \in Peer, k \in {"menu", "profile"} : OpenCard(p, k)
  BY <1>2, ListDeeds
<1>3. CASE LooksUp \/ Matches \/ Submits \/ LookedUp \/ \E h \in Peer \cup {Nobody} : Types(h)
  BY <1>3, FinderMoves
<1>4. CASE \E p \in Peer : PeerActs(p)
  BY <1>4, PeerStep
<1>5. ASSUME NEW a \in Asked, Handles(a) \/ ListComes(a) \/ CardResolved(a) \/ Done(a) \/ CardDone(a) PROVE FriendsInv'
  BY <1>5, AskHandled, ListStep, CardStep, DoneStep
<1>6. CASE UNCHANGED friendsVars
  <2>1. FriendsTypeOK'
    BY <1>6 DEF FriendsInv, FriendsTypeOK, friendsVars
  <2>2. AsksCounted' /\ Asked' = Asked
    BY <1>6 DEF FriendsInv, AsksCounted, Asked, friendsVars
  <2> QED BY <1>6, <2>1, <2>2, KeepsFollowing DEF friendsVars
<1> QED BY <1>1, <1>2, <1>3, <1>4, <1>5, <1>6 DEF FriendsNext

\* The page, the cards, the field and the requests under way are well formed.
THEOREM FriendsTypeCorrect == FriendsInit /\ [][FriendsNext]_friendsVars => []FriendsTypeOK
<1>1. FriendsInv => FriendsTypeOK
  BY DEF FriendsInv
<1> QED BY <1>1, FriendsInitially, FriendsStep, PTL

\* Whatever the user did, and whatever others did that the socket brings word
\* of, the list shows it once nothing is under way (FriendsScreen, FriendsPane).
THEOREM FriendsCorrect == FriendsInit /\ [][FriendsNext]_friendsVars => []FriendsSettle
<1>1. FriendsInv => FriendsSettle
  <2>1. asks = EmptyBag => Asked = {}
    BY DEF Asked, BagToSet, EmptyBag, SetToBag
  <2> QED BY <2>1 DEF FriendsInv, FollowedUp, FriendsSettle
<1> QED BY <1>1, FriendsInitially, FriendsStep, PTL
=============================================================================
