----------------------------- MODULE EmailTokens -----------------------------
(***************************************************************************)
(* apps/server/src/email/tokens.ts: the EmailToken table behind the        *)
(* "verify your address" and "reset your password" links.                  *)
(*                                                                         *)
(* issueEmailToken is one database transaction.  consumeEmailToken awaits  *)
(* twice: it looks the row up, and later burns it with a conditional       *)
(* update, so any number of callers can be between the two.  A row lapses  *)
(* with time, is deleted when a newer token of its kind is issued, and is  *)
(* deleted with its user.                                                  *)
(***************************************************************************)
EXTENDS Naturals, FiniteSets

CONSTANTS User,         \* rows of the User table
          Kind,         \* purposes of a token: "verify", "reset"
          Token,        \* raw token values; 32 random bytes, so never drawn twice
          Caller,       \* requests that can be inside consumeEmailToken
          NoRow,        \* what findUnique returns when there is no row
          NoToken,      \* no token was issued yet
          NoCall        \* the caller is not between its two awaits

VARIABLES users,        \* the user ids that exist
          row,          \* row[t]: the EmailToken row whose hash is that of t
          minted,       \* raw values drawn so far
          call,         \* call[c]: the row that caller c found and will burn
          latest,       \* history: latest[u][k] is the newest token of u and k
          granted       \* history: granted[t] counts the successful burns of t

tokenVars == <<row, minted, call, latest, granted>>
vars == <<users, tokenVars>>

Row == [user : User, kind : Kind, used : BOOLEAN, expired : BOOLEAN]

\* What the constants satisfy; Auth, which gives them their values, assumes it.
SentinelAssumption ==
  /\ NoRow \notin Row
  /\ NoToken \notin Token
  /\ NoCall \notin Token

TypeOK ==
  /\ users \subseteq User
  /\ row \in [Token -> Row \cup {NoRow}]
  /\ minted \subseteq Token
  /\ call \in [Caller -> Token \cup {NoCall}]
  /\ latest \in [User -> [Kind -> Token \cup {NoToken}]]
  /\ granted \in [Token -> Nat]

\* usedAt: null.  An expired row can still be unused.
Unused(t) == row[t] # NoRow /\ ~row[t].used

TokensInit ==
  /\ row = [t \in Token |-> NoRow]
  /\ minted = {}
  /\ call = [c \in Caller |-> NoCall]
  /\ latest = [u \in User |-> [k \in Kind |-> NoToken]]
  /\ granted = [t \in Token |-> 0]

Init == users = {} /\ TokensInit

-----------------------------------------------------------------------------
\* Variant with a plausible fault, only for the mutation run: the deleteMany
\* forgets the kind.
SupersededAnyKind(t, u, k) == Unused(t) /\ row[t].user = u

\* The deleteMany of issueEmailToken: unused rows of this user and kind go.
Superseded(t, u, k) == Unused(t) /\ row[t].user = u /\ row[t].kind = k

\* issueEmailToken(u, k): delete the prior unused ones and create, in one
\* transaction.  The foreign key makes create fail when u is gone.
Issue(u, k, t) ==
  /\ u \in users
  /\ t \notin minted
  /\ row' = [x \in Token |->
               CASE x = t -> [user |-> u, kind |-> k, used |-> FALSE, expired |-> FALSE]
                 [] x # t /\ Superseded(x, u, k) -> NoRow
                 [] OTHER -> row[x]]
  /\ minted' = minted \cup {t}
  /\ latest' = [latest EXCEPT ![u][k] = t]
  /\ UNCHANGED <<users, call, granted>>

\* The tests consumeEmailToken makes on the row it read.
Valid(t, k) == Unused(t) /\ row[t].kind = k /\ ~row[t].expired

\* First await of consumeEmailToken, when the row passes the tests.
Lookup(c, t, k) ==
  /\ call[c] = NoCall
  /\ Valid(t, k)
  /\ call' = [call EXCEPT ![c] = t]
  /\ UNCHANGED <<users, row, minted, latest, granted>>

\* burned.count = 1: the row is still there and still unused.
Burns(c) == Unused(call[c])

\* Second await, the conditional update matching the row: the caller goes on
\* with the row's user.
Burn(c) ==
  /\ call[c] # NoCall
  /\ Burns(c)
  /\ row' = [row EXCEPT ![call[c]].used = TRUE]
  /\ granted' = [granted EXCEPT ![call[c]] = @ + 1]
  /\ call' = [call EXCEPT ![c] = NoCall]
  /\ UNCHANGED <<users, minted, latest>>

\* Second await, matching no row: consumeEmailToken returns null.
BurnMisses(c) ==
  /\ call[c] # NoCall
  /\ ~Burns(c)
  /\ call' = [call EXCEPT ![c] = NoCall]
  /\ UNCHANGED <<users, row, minted, latest, granted>>

\* Time passes expiresAt.
Expire(t) ==
  /\ row[t] # NoRow
  /\ ~row[t].expired
  /\ row' = [row EXCEPT ![t].expired = TRUE]
  /\ UNCHANGED <<users, minted, call, latest, granted>>

-----------------------------------------------------------------------------
\* The User row appears (register).
AddUser(u) ==
  /\ u \notin users
  /\ users' = users \cup {u}
  /\ UNCHANGED tokenVars

\* The User row goes (delete account) and EmailToken rows cascade.
RemoveUser(u) ==
  /\ u \in users
  /\ users' = users \ {u}
  /\ row' = [t \in Token |-> IF row[t] # NoRow /\ row[t].user = u THEN NoRow ELSE row[t]]
  /\ UNCHANGED <<minted, call, latest, granted>>

Next ==
  \/ \E u \in User : AddUser(u) \/ RemoveUser(u)
  \/ \E u \in User, k \in Kind, t \in Token : Issue(u, k, t)
  \/ \E c \in Caller, t \in Token, k \in Kind : Lookup(c, t, k)
  \/ \E c \in Caller : Burn(c) \/ BurnMisses(c)
  \/ \E t \in Token : Expire(t)

Spec == Init /\ [][Next]_vars

-----------------------------------------------------------------------------
(* Properties.                                                             *)

\* "Consumption is atomic via a conditional updateMany so a token can't be
\* redeemed twice concurrently": whatever number of callers looked the row up
\* while it was valid, one burn succeeds over the whole life of the token.
OneGrantPerToken == \A t \in Token : granted[t] <= 1

\* Issuing invalidates: the only token of an account and purpose that can
\* still be burned is the one issued last.
OnlyLatestUsable ==
  \A t \in Token : Unused(t) => latest[row[t].user][row[t].kind] = t

\* The table and its two-step consumers implement one-shot tokens.
UsableToken ==
  [u \in User |-> [k \in Kind |->
     IF latest[u][k] # NoToken /\ Unused(latest[u][k]) THEN latest[u][k] ELSE NoToken]]

OneShot == INSTANCE OneShotTokens
             WITH issued <- minted, usable <- UsableToken, granted <- granted

OneShotSpec == OneShot!Spec
=============================================================================
