-------------------------- MODULE EmailTokensProofs --------------------------
(***************************************************************************)
(* Proofs about EmailTokens for every number of users, kinds, tokens and   *)
(* concurrent callers: the type invariant, OneGrantPerToken,               *)
(* OnlyLatestUsable, and that EmailTokens implements OneShotTokens.        *)
(***************************************************************************)
EXTENDS EmailTokens, TLAPS

\* A value that was never drawn has no row and was never accepted.
FreshTokens == \A t \in Token \ minted : row[t] = NoRow /\ granted[t] = 0

\* Accepted tokens are spent: what is still unused was never accepted.
UnusedNotGranted == \A t \in Token : Unused(t) => granted[t] = 0

\* The newest token of an account and purpose was drawn, and its row, while it
\* is there, carries that account and purpose.
LatestBelongs ==
  \A u \in User, k \in Kind :
    latest[u][k] # NoToken =>
      /\ latest[u][k] \in minted
      /\ row[latest[u][k]] # NoRow => /\ row[latest[u][k]].user = u
                                     /\ row[latest[u][k]].kind = k

\* The inductive invariant.  OneGrantPerToken alone is not inductive: a burn
\* needs to know that the row it finds unused was never accepted before, and
\* an issue that the value it draws was not; the lemmas find what the constants
\* satisfy in it too.
IInv ==
  /\ SentinelAssumption
  /\ TypeOK
  /\ FreshTokens
  /\ UnusedNotGranted
  /\ OneGrantPerToken
  /\ OnlyLatestUsable
  /\ LatestBelongs

-----------------------------------------------------------------------------
\* The tables start empty.
LEMMA InitInv == SentinelAssumption /\ Init => IInv
BY DEF SentinelAssumption, Init, TokensInit, IInv, TypeOK, FreshTokens, UnusedNotGranted,
       OneGrantPerToken, OnlyLatestUsable, LatestBelongs, Unused

\* What Issue does to the rows, one row at a time.
LEMMA IssueRows ==
  ASSUME TypeOK, NEW u \in User, NEW k \in Kind, NEW t \in Token, Issue(u, k, t)
  PROVE  /\ row' \in [Token -> Row \cup {NoRow}]
         /\ row'[t] = [user |-> u, kind |-> k, used |-> FALSE, expired |-> FALSE]
         /\ \A x \in Token : x # t => row'[x] = IF Superseded(x, u, k) THEN NoRow ELSE row[x]
<1>1. [user |-> u, kind |-> k, used |-> FALSE, expired |-> FALSE] \in Row
  BY DEF Row
<1>. QED
  BY <1>1 DEF Issue, TypeOK

\* issueEmailToken preserves the invariant.
LEMMA IssueInv ==
  ASSUME IInv, NEW u \in User, NEW k \in Kind, NEW t \in Token, Issue(u, k, t)
  PROVE  IInv'
<1>. USE DEF IInv
<1>1. PICK r : r = [user |-> u, kind |-> k, used |-> FALSE, expired |-> FALSE]
  OBVIOUS
<1>2. /\ r.user = u /\ r.kind = k /\ r.used = FALSE /\ r \in Row
  BY <1>1 DEF Row
<1>3. /\ row' \in [Token -> Row \cup {NoRow}]
      /\ row'[t] = r
      /\ \A x \in Token : x # t => row'[x] = IF Superseded(x, u, k) THEN NoRow ELSE row[x]
  BY <1>1, IssueRows
<1>4. /\ t \notin minted /\ minted' = minted \cup {t}
      /\ latest' = [latest EXCEPT ![u][k] = t]
      /\ call' = call /\ granted' = granted /\ users' = users
  BY DEF Issue
<1>5. TypeOK'
  BY <1>3, <1>4 DEF TypeOK
<1>6. FreshTokens'
  BY <1>3, <1>4 DEF FreshTokens, TypeOK
<1>7. \A x \in Token : Unused(x)' => x = t \/ (Unused(x) /\ row'[x] = row[x] /\ ~Superseded(x, u, k))
  BY <1>3 DEF Unused
<1>8. UnusedNotGranted'
  BY <1>4, <1>7 DEF UnusedNotGranted, FreshTokens
<1>9. OneGrantPerToken'
  BY <1>4 DEF OneGrantPerToken
<1>10. OnlyLatestUsable'
  <2>. SUFFICES ASSUME NEW x \in Token, Unused(x)'
                PROVE  latest'[row'[x].user][row'[x].kind] = x
    BY DEF OnlyLatestUsable
  <2>1. CASE x = t
    BY <1>2, <1>3, <1>4, <2>1 DEF TypeOK
  <2>2. CASE x # t
    <3>1. Unused(x) /\ row'[x] = row[x] /\ ~Superseded(x, u, k)
      BY <1>7, <2>2
    <3>2. row[x] \in Row /\ row[x].user \in User /\ row[x].kind \in Kind
      BY <3>1 DEF Unused, TypeOK, Row
    <3>3. row[x].user # u \/ row[x].kind # k
      BY <3>1 DEF Superseded
    <3>4. latest[row[x].user][row[x].kind] = x
      BY <3>1 DEF OnlyLatestUsable
    <3>. QED
      BY <1>4, <3>1, <3>2, <3>3, <3>4 DEF TypeOK
  <2>. QED
    BY <2>1, <2>2
<1>11. LatestBelongs'
  <2>. SUFFICES ASSUME NEW v \in User, NEW j \in Kind, latest'[v][j] # NoToken
                PROVE  /\ latest'[v][j] \in minted'
                       /\ row'[latest'[v][j]] # NoRow => /\ row'[latest'[v][j]].user = v
                                                        /\ row'[latest'[v][j]].kind = j
    BY DEF LatestBelongs
  <2>1. CASE v = u /\ j = k
    BY <1>2, <1>3, <1>4, <2>1 DEF TypeOK
  <2>2. CASE ~(v = u /\ j = k)
    <3>1. latest'[v][j] = latest[v][j] /\ latest[v][j] \in Token
      BY <1>4, <2>2 DEF TypeOK
    <3>2. latest[v][j] \in minted /\ latest[v][j] # t
      BY <1>4, <3>1 DEF LatestBelongs
    <3>. QED
      BY <1>3, <1>4, <3>1, <3>2 DEF LatestBelongs
  <2>. QED
    BY <2>1, <2>2
<1>. QED
  BY <1>5, <1>6, <1>8, <1>9, <1>10, <1>11

\* The successful conditional update preserves the invariant.
LEMMA BurnInv ==
  ASSUME IInv, NEW c \in Caller, Burn(c)
  PROVE  IInv'
<1>. USE DEF IInv
<1>1. PICK t \in Token : t = call[c] /\ Unused(t)
  BY DEF SentinelAssumption, Burn, Burns, TypeOK
<1>2. row[t] \in Row
  BY <1>1 DEF Unused, TypeOK
<1>3. /\ row' = [row EXCEPT ![t].used = TRUE]
      /\ granted' = [granted EXCEPT ![t] = @ + 1]
      /\ call' = [call EXCEPT ![c] = NoCall]
      /\ users' = users /\ minted' = minted /\ latest' = latest
  BY <1>1 DEF Burn
<1>4. /\ row'[t] = [row[t] EXCEPT !.used = TRUE] /\ row'[t] \in Row /\ row'[t].used = TRUE
      /\ \A x \in Token : x # t => row'[x] = row[x]
  BY <1>2, <1>3 DEF TypeOK, Row
<1>5. TypeOK'
  BY <1>3, <1>4 DEF TypeOK
<1>6. t \in minted /\ granted[t] = 0
  BY <1>1 DEF FreshTokens, UnusedNotGranted, Unused
<1>7. ~Unused(t)' /\ \A x \in Token : x # t => Unused(x)' = Unused(x)
  BY <1>4 DEF Unused
<1>8. FreshTokens'
  BY <1>3, <1>4, <1>6 DEF FreshTokens, TypeOK
<1>9. UnusedNotGranted'
  BY <1>3, <1>7 DEF UnusedNotGranted, TypeOK
<1>10. OneGrantPerToken'
  BY <1>3, <1>6 DEF OneGrantPerToken, TypeOK
<1>11. OnlyLatestUsable'
  BY <1>3, <1>4, <1>7 DEF OnlyLatestUsable
<1>12. LatestBelongs'
  <2>1. row'[t].user = row[t].user /\ row'[t].kind = row[t].kind
    BY <1>2, <1>4 DEF Row
  <2>. SUFFICES ASSUME NEW v \in User, NEW j \in Kind, latest[v][j] # NoToken
                PROVE  /\ latest[v][j] \in minted
                       /\ row'[latest[v][j]] # NoRow => /\ row'[latest[v][j]].user = v
                                                       /\ row'[latest[v][j]].kind = j
    BY <1>3 DEF LatestBelongs
  <2>2. latest[v][j] \in Token
    BY DEF TypeOK
  <2>3. row[latest[v][j]] # NoRow => row[latest[v][j]].user = v /\ row[latest[v][j]].kind = j
    BY DEF LatestBelongs
  <2>4. latest[v][j] = t => row[latest[v][j]] # NoRow
    BY <1>1 DEF Unused
  <2>5. latest[v][j] \in minted
    BY DEF LatestBelongs
  <2>6. CASE latest[v][j] = t
    BY <2>1, <2>3, <2>4, <2>5, <2>6
  <2>7. CASE latest[v][j] # t
    <3>1. row'[latest[v][j]] = row[latest[v][j]]
      BY <1>4, <2>2, <2>7
    <3>. QED
      BY <2>3, <2>5, <3>1
  <2>. QED
    BY <2>6, <2>7
<1>. QED
  BY <1>5, <1>8, <1>9, <1>10, <1>11, <1>12

\* The steps that leave the rows alone, lapse one or remove some.
LEMMA OtherInv ==
  ASSUME IInv,
         \/ \E u \in User : AddUser(u) \/ RemoveUser(u)
         \/ \E c \in Caller, t \in Token, k \in Kind : Lookup(c, t, k)
         \/ \E c \in Caller : BurnMisses(c)
         \/ \E t \in Token : Expire(t)
         \/ UNCHANGED vars
  PROVE  IInv'
<1>. USE DEF IInv
<1>1. /\ TypeOK'
      /\ minted' = minted /\ granted' = granted /\ latest' = latest
      /\ \A t \in Token :
           \/ row'[t] = row[t]
           \/ row'[t] = NoRow
           \/ row[t] # NoRow /\ row'[t] # NoRow /\ row'[t] = [row[t] EXCEPT !.expired = TRUE]
  <2>1. ASSUME NEW u \in User, AddUser(u) \/ RemoveUser(u) PROVE <1>1
    BY <2>1 DEF AddUser, RemoveUser, TypeOK, tokenVars
  <2>2. ASSUME NEW c \in Caller, NEW t \in Token, NEW k \in Kind, Lookup(c, t, k) PROVE <1>1
    BY <2>2 DEF Lookup, TypeOK
  <2>3. ASSUME NEW c \in Caller, BurnMisses(c) PROVE <1>1
    BY <2>3 DEF BurnMisses, TypeOK
  <2>4. ASSUME NEW t \in Token, Expire(t) PROVE <1>1
    <3>1. row[t] \in Row /\ [row[t] EXCEPT !.expired = TRUE] \in Row
      BY <2>4 DEF Expire, TypeOK, Row
    <3>. QED
      BY <2>4, <3>1 DEF SentinelAssumption, Expire, TypeOK
  <2>5. CASE UNCHANGED vars
    BY <2>5 DEF vars, tokenVars, TypeOK
  <2>. QED
    BY <2>1, <2>2, <2>3, <2>4, <2>5
<1>2. \A t \in Token : Unused(t)' => /\ Unused(t)
                                     /\ row'[t].user = row[t].user
                                     /\ row'[t].kind = row[t].kind
  BY <1>1 DEF Unused, TypeOK, Row
<1>3. FreshTokens' /\ UnusedNotGranted' /\ OneGrantPerToken'
  BY <1>1, <1>2 DEF FreshTokens, UnusedNotGranted, OneGrantPerToken
<1>4. OnlyLatestUsable'
  BY <1>1, <1>2 DEF OnlyLatestUsable
<1>5. LatestBelongs'
  BY <1>1 DEF LatestBelongs, TypeOK, Row
<1>. QED
  BY <1>1, <1>3, <1>4, <1>5

\* Every step preserves the invariant.
LEMMA NextInv == IInv /\ [Next]_vars => IInv'
BY IssueInv, BurnInv, OtherInv DEF Next

\* The inductive invariant holds in every reachable state.
THEOREM Invariance == ASSUME SentinelAssumption PROVE Spec => []IInv
BY InitInv, NextInv, PTL DEF Spec

\* The variables keep their types.
THEOREM TypeCorrect == ASSUME SentinelAssumption PROVE Spec => []TypeOK
BY Invariance, PTL DEF IInv

\* No token is accepted twice, however many requests present it at once
\* (consumeEmailToken's conditional update).
THEOREM GrantedOnce == ASSUME SentinelAssumption PROVE Spec => []OneGrantPerToken
BY Invariance, PTL DEF IInv

\* A superseded token can never be burned again (issueEmailToken's
\* transaction).
THEOREM LatestOnly == ASSUME SentinelAssumption PROVE Spec => []OnlyLatestUsable
BY Invariance, PTL DEF IInv
-----------------------------------------------------------------------------
(* EmailTokens implements OneShotTokens.  A token is usable in the abstract *)
(* specification while its row is unused, whether or not it has expired:    *)
(* the caller that looked it up in time may burn it late.                   *)

\* A function of two arguments that differs from another at one point.
LEMMA NestedExcept ==
  ASSUME NEW f, NEW g, NEW u \in User, NEW k \in Kind, NEW w,
         f = [v \in User |-> [j \in Kind |-> f[v][j]]],
         g = [v \in User |-> [j \in Kind |-> g[v][j]]],
         g[u][k] = w,
         \A v \in User, j \in Kind : ~(v = u /\ j = k) => g[v][j] = f[v][j]
  PROVE  g = [f EXCEPT ![u][k] = w]
<1>. DEFINE h == [f EXCEPT ![u] = [f[u] EXCEPT ![k] = w]]
<1>1. f[u] = [j \in Kind |-> f[u][j]] /\ g[u] = [j \in Kind |-> g[u][j]]
  OBVIOUS
<1>2. h[u] = [j \in Kind |-> IF j = k THEN w ELSE f[u][j]]
  BY <1>1
<1>3. g[u] = h[u]
  BY <1>1, <1>2
<1>4. ASSUME NEW v \in User, v # u PROVE g[v] = h[v]
  <2>1. f[v] = [j \in Kind |-> f[v][j]] /\ g[v] = [j \in Kind |-> g[v][j]] /\ h[v] = f[v]
    BY <1>4
  <2>2. \A j \in Kind : g[v][j] = f[v][j]
    BY <1>4
  <2>3. [j \in Kind |-> f[v][j]] = [j \in Kind |-> g[v][j]]
    BY <2>2
  <2>. QED
    BY <2>1, <2>3
<1>5. g = [v \in User |-> g[v]] /\ h = [v \in User |-> h[v]]
  OBVIOUS
<1>. QED
  BY <1>3, <1>4, <1>5

\* UsableToken has that shape before and after a step.
LEMMA UsableShape ==
  /\ UsableToken = [v \in User |-> [j \in Kind |-> UsableToken[v][j]]]
  /\ UsableToken' = [v \in User |-> [j \in Kind |-> UsableToken'[v][j]]]
BY DEF UsableToken

\* The initial states map to initial states.
LEMMA InitImplements == Init => OneShot!Init
BY DEF Init, TokensInit, OneShot!Init, UsableToken

\* issueEmailToken is the abstract issue.
LEMMA IssueImplements ==
  ASSUME IInv, NEW u \in User, NEW k \in Kind, NEW t \in Token, Issue(u, k, t)
  PROVE  OneShot!Issue(u, k, t)
<1>. USE DEF IInv
<1>0. [user |-> u, kind |-> k, used |-> FALSE, expired |-> FALSE] \in Row
  BY DEF Row
<1>1. /\ row'[t] # NoRow /\ row'[t].used = FALSE
      /\ \A x \in Token : x # t => row'[x] = IF Superseded(x, u, k) THEN NoRow ELSE row[x]
  BY <1>0, IssueRows DEF SentinelAssumption
<1>2. /\ t \notin minted /\ minted' = minted \cup {t} /\ granted' = granted
      /\ latest' = [latest EXCEPT ![u][k] = t]
  BY DEF Issue
<1>3. ASSUME NEW v \in User, NEW j \in Kind, ~(v = u /\ j = k)
      PROVE  UsableToken'[v][j] = UsableToken[v][j]
  <2>1. latest'[v][j] = latest[v][j] /\ latest[v][j] \in Token \cup {NoToken}
    BY <1>2, <1>3 DEF TypeOK
  <2>2. latest[v][j] # NoToken =>
          /\ latest[v][j] # t
          /\ ~Superseded(latest[v][j], u, k)
    BY <1>2, <1>3 DEF LatestBelongs, Superseded, Unused
  <2>3. latest[v][j] # NoToken => Unused(latest[v][j])' = Unused(latest[v][j])
    BY <1>1, <2>1, <2>2 DEF Unused
  <2>. QED
    BY <2>1, <2>3 DEF UsableToken, Unused
<1>4. UsableToken'[u][k] = t
  BY <1>1, <1>2 DEF SentinelAssumption, UsableToken, Unused, TypeOK
<1>5. UsableToken' = [UsableToken EXCEPT ![u][k] = t]
  BY <1>3, <1>4, UsableShape, NestedExcept
<1>. QED
  BY <1>2, <1>5 DEF OneShot!Issue

\* A burn that succeeds is the abstract acceptance of the burned token.
LEMMA BurnImplements ==
  ASSUME IInv, NEW c \in Caller, Burn(c)
  PROVE  \E u \in User, k \in Kind, t \in Token : OneShot!Accept(u, k, t)
<1>. USE DEF IInv
<1>1. PICK t \in Token : t = call[c] /\ Unused(t)
  BY DEF SentinelAssumption, Burn, Burns, TypeOK
<1>2. row[t] \in Row
  BY <1>1 DEF Unused, TypeOK
<1>3. PICK u \in User, k \in Kind : u = row[t].user /\ k = row[t].kind
  BY <1>2 DEF Row
<1>4. /\ granted' = [granted EXCEPT ![t] = @ + 1]
      /\ row' = [row EXCEPT ![t].used = TRUE]
      /\ minted' = minted /\ latest' = latest
  BY <1>1 DEF Burn
<1>5. latest[u][k] = t /\ t # NoToken
  BY <1>1, <1>3 DEF SentinelAssumption, OnlyLatestUsable
<1>6. ~Unused(t)' /\ \A x \in Token : x # t => row'[x] = row[x]
  BY <1>2, <1>4 DEF Unused, TypeOK, Row
<1>7. ASSUME NEW v \in User, NEW j \in Kind, ~(v = u /\ j = k)
      PROVE  UsableToken'[v][j] = UsableToken[v][j]
  <2>1. latest[v][j] \in Token \cup {NoToken} /\ latest'[v][j] = latest[v][j]
    BY <1>4 DEF TypeOK
  <2>2. latest[v][j] # t
    BY <1>1, <1>3, <1>5, <1>7 DEF LatestBelongs, Unused
  <2>. QED
    BY <1>6, <2>1, <2>2 DEF UsableToken, Unused
<1>8. UsableToken[u][k] = t /\ UsableToken'[u][k] = NoToken
  BY <1>1, <1>4, <1>5, <1>6 DEF UsableToken
<1>9. UsableToken' = [UsableToken EXCEPT ![u][k] = NoToken]
  BY <1>7, <1>8, UsableShape, NestedExcept
<1>. QED
  BY <1>4, <1>8, <1>9 DEF OneShot!Accept

\* Deleting the account withdraws its tokens.
LEMMA RemoveUserImplements ==
  ASSUME IInv, NEW u \in User, RemoveUser(u)
  PROVE  OneShot!Withdraw(u)
<1>. USE DEF IInv
<1>1. /\ minted' = minted /\ granted' = granted /\ latest' = latest
      /\ \A t \in Token : row'[t] = IF row[t] # NoRow /\ row[t].user = u THEN NoRow ELSE row[t]
  BY DEF RemoveUser
<1>2. ASSUME NEW v \in User, NEW j \in Kind
      PROVE  UsableToken'[v][j] = IF v = u THEN NoToken ELSE UsableToken[v][j]
  <2>1. latest[v][j] \in Token \cup {NoToken} /\ latest'[v][j] = latest[v][j]
    BY <1>1 DEF TypeOK
  <2>2. latest[v][j] # NoToken /\ row[latest[v][j]] # NoRow => row[latest[v][j]].user = v
    BY DEF LatestBelongs
  <2>. QED
    BY <1>1, <2>1, <2>2 DEF UsableToken, Unused
<1>3. UsableToken' = [UsableToken EXCEPT ![u] = [k \in Kind |-> NoToken]]
  BY <1>2 DEF UsableToken
<1>. QED
  BY <1>1, <1>3 DEF OneShot!Withdraw

\* Looking a row up, missing it, its expiry and a new account change nothing.
LEMMA OtherImplements ==
  ASSUME IInv,
         \/ \E u \in User : AddUser(u)
         \/ \E c \in Caller, t \in Token, k \in Kind : Lookup(c, t, k)
         \/ \E c \in Caller : BurnMisses(c)
         \/ \E t \in Token : Expire(t)
         \/ UNCHANGED vars
  PROVE  UNCHANGED OneShot!vars
<1>. USE DEF IInv
<1>1. /\ minted' = minted /\ granted' = granted /\ latest' = latest
      /\ \A t \in Token : /\ row'[t] # NoRow <=> row[t] # NoRow
                          /\ row[t] # NoRow => row'[t].used = row[t].used
  <2>1. ASSUME NEW t \in Token, Expire(t) PROVE <1>1
    BY <2>1 DEF SentinelAssumption, Expire, TypeOK, Row
  <2>2. CASE \E u \in User : AddUser(u)
    BY <2>2 DEF AddUser, tokenVars
  <2>3. CASE \/ \E c \in Caller, t \in Token, k \in Kind : Lookup(c, t, k)
             \/ \E c \in Caller : BurnMisses(c)
             \/ UNCHANGED vars
    BY <2>3 DEF Lookup, BurnMisses, vars, tokenVars
  <2>. QED
    BY <2>1, <2>2, <2>3
<1>2. ASSUME NEW v \in User, NEW j \in Kind
      PROVE  UsableToken'[v][j] = UsableToken[v][j]
  <2>1. latest[v][j] \in Token \cup {NoToken} /\ latest'[v][j] = latest[v][j]
    BY <1>1 DEF TypeOK
  <2>. QED
    BY <1>1, <2>1 DEF UsableToken, Unused
<1>3. UsableToken' = UsableToken
  BY <1>2 DEF UsableToken
<1>. QED
  BY <1>1, <1>3 DEF OneShot!vars

\* Every step maps to a step of OneShotTokens or to a stutter.
LEMMA StepImplements == IInv /\ [Next]_vars => [OneShot!Next]_OneShot!vars
<1>. SUFFICES ASSUME IInv, [Next]_vars
              PROVE  OneShot!Next \/ UNCHANGED OneShot!vars
  OBVIOUS
<1>1. CASE \E u \in User, k \in Kind, t \in Token : Issue(u, k, t)
  BY <1>1, IssueImplements DEF OneShot!Next
<1>2. CASE \E c \in Caller : Burn(c)
  BY <1>2, BurnImplements DEF OneShot!Next
<1>3. CASE \E u \in User : RemoveUser(u)
  BY <1>3, RemoveUserImplements DEF OneShot!Next
<1>4. CASE \/ \E u \in User : AddUser(u)
           \/ \E c \in Caller, t \in Token, k \in Kind : Lookup(c, t, k)
           \/ \E c \in Caller : BurnMisses(c)
           \/ \E t \in Token : Expire(t)
           \/ UNCHANGED vars
  BY <1>4, OtherImplements
<1>. QED
  BY <1>1, <1>2, <1>3, <1>4 DEF Next

\* The table with its two-step, concurrent consumers implements one-shot
\* tokens: whatever callers interleave, each token behaves as if it were
\* accepted in one indivisible step, at most once, while it is the newest.
THEOREM ImplementsOneShot == ASSUME SentinelAssumption PROVE Spec => OneShotSpec
<1>1. Spec => OneShot!Init /\ [][OneShot!Next]_OneShot!vars
  BY InitImplements, StepImplements, Invariance, PTL DEF Spec
<1>. QED
  BY <1>1 DEF OneShotSpec, OneShot!Spec
=============================================================================
