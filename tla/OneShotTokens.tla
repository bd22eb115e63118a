---------------------------- MODULE OneShotTokens ----------------------------
(***************************************************************************)
(* What the e-mail links of the server promise, with no table, no handler  *)
(* and no clock: for each account and purpose at most one token is usable, *)
(* the one issued last; using it takes one step and happens at most once.  *)
(* EmailTokens is shown to implement this.                                 *)
(***************************************************************************)
EXTENDS Naturals

CONSTANTS User, Kind, Token,
          NoToken       \* "no usable token"

VARIABLES issued,       \* tokens ever sent out
          usable,       \* usable[u][k]: the token that would be accepted
          granted       \* granted[t]: how often t was accepted

vars == <<issued, usable, granted>>

TypeOK ==
  /\ issued \subseteq Token
  /\ usable \in [User -> [Kind -> Token \cup {NoToken}]]
  /\ granted \in [Token -> Nat]

Init ==
  /\ issued = {}
  /\ usable = [u \in User |-> [k \in Kind |-> NoToken]]
  /\ granted = [t \in Token |-> 0]

\* A new token replaces the one issued before it for the same purpose.
Issue(u, k, t) ==
  /\ t \notin issued
  /\ issued' = issued \cup {t}
  /\ usable' = [usable EXCEPT ![u][k] = t]
  /\ UNCHANGED granted

\* A token is accepted: only the usable one, and it stops being usable.
Accept(u, k, t) ==
  /\ usable[u][k] = t
  /\ usable' = [usable EXCEPT ![u][k] = NoToken]
  /\ granted' = [granted EXCEPT ![t] = @ + 1]
  /\ UNCHANGED issued

\* The account goes away and its tokens with it.
Withdraw(u) ==
  /\ usable' = [usable EXCEPT ![u] = [k \in Kind |-> NoToken]]
  /\ UNCHANGED <<issued, granted>>

Next ==
  \/ \E u \in User, k \in Kind, t \in Token : Issue(u, k, t) \/ Accept(u, k, t)
  \/ \E u \in User : Withdraw(u)

Spec == Init /\ [][Next]_vars
=============================================================================
