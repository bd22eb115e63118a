----------------------------- MODULE Friendships -----------------------------
(***************************************************************************)
(* apps/server/src/friends/routes.ts, with the friend invites that         *)
(* invites/routes.ts redeems: the rows of the Friendship table.            *)
(*                                                                         *)
(* A request reads, decides and then writes; other requests run between    *)
(* its read and its write.  Only block and redeem are transactions, and    *)
(* the table itself refuses a second row with the same two users in the    *)
(* same order.  A refused request changes nothing and is not an action.    *)
(***************************************************************************)
EXTENDS Naturals

CONSTANTS
  User,
  Req,        \* requests that can be under way
  NoUser,
  \* Bound: rows ever created.
  MaxRow

ASSUME FriendshipAssumption == NoUser \notin User /\ MaxRow \in Nat

VARIABLES
  rows,       \* the Friendship table
  created,    \* the number of rows created so far; ids are never used again
  req,        \* req[r]: what request r has read and is about to write
  \* History: the one of two users who made their last block, until they take
  \* it back.
  blocker

vars == <<rows, created, req, blocker>>

Status == {"pending", "accepted", "blocked"}
Id == 1 .. MaxRow
Pair == {{u, v} : u, v \in User}
Row == [id : Id, from : User, to : User, status : Status]

Idle == [at |-> "idle"]
Frame ==
  {Idle} \cup [at : {"create"}, from : User, to : User]
         \cup [at : {"accept", "delete"}, id : Id]

TypeOK ==
  /\ rows \subseteq Row
  /\ created \in 0 .. MaxRow
  /\ req \in [Req -> Frame]
  /\ blocker \in [Pair -> User \cup {NoUser}]

Init ==
  /\ rows = {}
  /\ created = 0
  /\ req = [r \in Req |-> Idle]
  /\ blocker = [p \in Pair |-> NoUser]

\* The rows of two users, either way round.
Between(u, v) == {f \in rows : {f.from, f.to} = {u, v}}

\* What GET /friends shows to u: not the blocks of u by others.
Visible(u) == {f \in rows : f.from = u \/ (f.to = u /\ f.status # "blocked")}

NewRow(u, v, status) == [id |-> created + 1, from |-> u, to |-> v, status |-> status]

\* The last block of u and v is now by w.
BlockedBy(u, v, w) == blocker' = [blocker EXCEPT ![{u, v}] = w]

Goto(r, frame) == req' = [req EXCEPT ![r] = frame]

-----------------------------------------------------------------------------
\* POST /friends/request and /request-by-handle: findFirst finds no row.
RequestCheck(r, u, v) ==
  /\ req[r] = Idle /\ u # v
  /\ Between(u, v) = {}
  /\ Goto(r, [at |-> "create", from |-> u, to |-> v])
  /\ UNCHANGED <<rows, created, blocker>>

\* The pending row is created, unless the table has one the same way round.
RequestCreate(r) ==
  LET u == req[r].from
      v == req[r].to
  IN  /\ req[r].at = "create"
      /\ IF \E f \in rows : f.from = u /\ f.to = v
         THEN UNCHANGED <<rows, created>>
         ELSE /\ created < MaxRow
              /\ rows' = rows \cup {NewRow(u, v, "pending")}
              /\ created' = created + 1
      /\ Goto(r, Idle)
      /\ UNCHANGED blocker

\* POST /friends/:id/accept reads a pending row as its recipient.
AcceptRead(r, f) ==
  /\ req[r] = Idle
  /\ f.status = "pending"
  /\ Goto(r, [at |-> "accept", id |-> f.id])
  /\ UNCHANGED <<rows, created, blocker>>

\* The row of that id is accepted, whatever it is by now; the update fails
\* when it is gone.
AcceptWrite(r) ==
  /\ req[r].at = "accept"
  /\ rows' = {IF f.id = req[r].id THEN [f EXCEPT !.status = "accepted"] ELSE f : f \in rows}
  /\ Goto(r, Idle)
  /\ UNCHANGED <<created, blocker>>

\* POST /friends/:id/reject (decline, withdraw, unfriend) reads a row of one's
\* own, and so does unblock: the ids a client has are those it was shown.
DeleteRead(r, u, f) ==
  /\ req[r] = Idle
  /\ f \in Visible(u)
  /\ Goto(r, [at |-> "delete", id |-> f.id])
  /\ UNCHANGED <<rows, created, blocker>>

\* The row of that id is deleted; if it is a block, it is taken back.
DeleteWrite(r) ==
  /\ req[r].at = "delete"
  /\ rows' = {f \in rows : f.id # req[r].id}
  /\ \/ \E f \in rows :
          /\ f.id = req[r].id /\ f.status = "blocked"
          /\ BlockedBy(f.from, f.to, NoUser)
     \/ /\ \A f \in rows : f.id = req[r].id => f.status # "blocked"
        /\ UNCHANGED blocker
  /\ Goto(r, Idle)
  /\ UNCHANGED created

\* Variants with a plausible fault, only for the mutation runs: block turns the
\* rows of the two into blocks where there are any; it removes only the rows
\* that the blocker sent.
BlockInPlace(u, v) ==
  /\ u # v
  /\ Between(u, v) # {}
  /\ rows' = (rows \ Between(u, v)) \cup
       {[f EXCEPT !.from = u, !.to = v, !.status = "blocked"] : f \in Between(u, v)}
  /\ BlockedBy(u, v, u)
  /\ UNCHANGED <<created, req>>

BlockOneWay(u, v) ==
  /\ u # v /\ created < MaxRow
  /\ rows' = {f \in rows : ~(f.from = u /\ f.to = v)} \cup {NewRow(u, v, "blocked")}
  /\ created' = created + 1
  /\ BlockedBy(u, v, u)
  /\ UNCHANGED req

\* POST /friends/block, one transaction: every row of the two is deleted and a
\* blocked row created.
Block(u, v) ==
  /\ u # v /\ created < MaxRow
  /\ rows' = (rows \ Between(u, v)) \cup {NewRow(u, v, "blocked")}
  /\ created' = created + 1
  /\ BlockedBy(u, v, u)
  /\ UNCHANGED req

\* u redeems a friend invite of v, one transaction.  findFirst takes any row of
\* the two: a pending one is accepted, a block refuses, no row is an accepted
\* one.  Anything else leaves the table as it is.
RedeemInvite(u, v) ==
  /\ u # v
  /\ \/ \E f \in Between(u, v) :
          /\ f.status = "pending"
          /\ rows' = (rows \ {f}) \cup {[f EXCEPT !.status = "accepted"]}
          /\ UNCHANGED created
     \/ /\ Between(u, v) = {} /\ created < MaxRow
        /\ rows' = rows \cup {NewRow(v, u, "accepted")}
        /\ created' = created + 1
  /\ UNCHANGED <<req, blocker>>

Next ==
  \/ \E r \in Req, u, v \in User : RequestCheck(r, u, v)
  \/ \E r \in Req : RequestCreate(r) \/ AcceptWrite(r) \/ DeleteWrite(r)
  \/ \E r \in Req, f \in rows : AcceptRead(r, f) \/ \E u \in User : DeleteRead(r, u, f)
  \/ \E u, v \in User : Block(u, v) \/ RedeemInvite(u, v)

Spec == Init /\ [][Next]_vars

-----------------------------------------------------------------------------
(* Properties.                                                             *)

\* The last block between two users holds until the one who made it takes it
\* back, and it is their only one: no request, acceptance, refusal or redeemed
\* invite that was under way when it was made undoes it, or lifts it later.
LastBlockHolds ==
  \A u, v \in User :
    LET blocks == {f \in Between(u, v) : f.status = "blocked"}
    IN  IF blocker[{u, v}] = NoUser
        THEN blocks = {}
        ELSE \E f \in blocks : blocks = {f} /\ f.from = blocker[{u, v}]

\* What a request under way may still do to a row is to accept it while it is
\* pending: an acceptance or a redemption that read a pending row never turns
\* the block that has replaced it into a friendship, and no row changes sides.
RowsOnlyAdvance ==
  [][\A f \in rows, g \in rows' :
       f.id = g.id => \/ g = f
                      \/ f.status = "pending" /\ g = [f EXCEPT !.status = "accepted"]]_vars
=============================================================================
