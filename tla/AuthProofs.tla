------------------------------ MODULE AuthProofs ------------------------------
(***************************************************************************)
(* Proofs about Auth for every number of accounts, requests and tokens:    *)
(* the type invariant; that the e-mail tokens keep their promise under the *)
(* handlers that use them; what a reset of the password costs; and what    *)
(* may be spent of the backup codes.  And about AccountSettings: that the  *)
(* devices the settings open are closed again, and that the account tab    *)
(* tells the truth once nothing is under way.                              *)
(***************************************************************************)
EXTENDS Auth, AccountSettings, FiniteSetTheorems, TLAPS

\* The proofs about the tokens, for the requests of Auth.
P == INSTANCE EmailTokensProofs WITH Caller <- Req

-----------------------------------------------------------------------------
(* The parts of the invariant.                                             *)

Registered(u) == account[u] # NoAccount

\* Who exists was registered, and so was whomever a request, a session or a row
\* is about.
UsersRegistered == \A u \in users : Registered(u)
FramesRegistered == \A r \in Req : ~At(r, "idle") /\ ~At(r, "burning") => Registered(req[r].user)
SessionsRegistered == \A s \in sessions : Registered(s.user)
RowsOwned == \A t \in Token : row[t] # NoRow => row[t].user \in users

\* The requests that will create a session, unless they fail.
Suspended == {r \in Req : req[r].at \notin {"idle", "authed"}}
Creates(f) == f.at \in {"session", "stamp", "backup", "spend"} \/ (f.at = "mail" /\ f.next = "session")
Creating == {r \in Req : Creates(req[r])}

\* The token that is being burned, while its row is there, is one of the kind
\* that the handler asked for.
BurnsMatch ==
  \A r \in Req : At(r, "burning") =>
    call[r] \in minted /\ (row[call[r]] # NoRow => row[call[r]].kind = req[r].kind)

\* There is room for their sessions.
RoomIsKept ==
  /\ IsFiniteSet(sessions) /\ IsFiniteSet(Suspended)
  /\ Cardinality(sessions) + Cardinality(Creating) <= MaxSession

-----------------------------------------------------------------------------
\* The e-mail tokens are the same, as Auth and the proofs call them.
LEMMA SameTokens ==
  /\ Tokens!TypeOK <=> P!TypeOK
  /\ Tokens!TokensInit /\ users = {} <=> P!Init
  /\ [Tokens!Next]_tokenVars => [P!Next]_P!vars
  /\ AuthAssumption => P!SentinelAssumption
<1>1. Tokens!TypeOK <=> P!TypeOK
  BY DEF Tokens!TypeOK, P!TypeOK, Tokens!Row, P!Row
<1>2. Tokens!TokensInit /\ users = {} <=> P!Init
  BY DEF Tokens!TokensInit, P!TokensInit, P!Init
<1>3. Tokens!Next => P!Next
  BY DEF Tokens!Next, P!Next, Tokens!AddUser, P!AddUser, Tokens!RemoveUser, P!RemoveUser,
     Tokens!Issue, P!Issue, Tokens!Lookup, P!Lookup, Tokens!Burn, P!Burn, Tokens!BurnMisses, P!BurnMisses,
     Tokens!Expire, P!Expire, Tokens!Superseded, P!Superseded, Tokens!Unused, P!Unused,
     Tokens!Valid, P!Valid, Tokens!Burns, P!Burns, Tokens!tokenVars, P!tokenVars
<1>4. [Tokens!Next]_tokenVars => [P!Next]_P!vars
  BY <1>3 DEF tokenVars, P!vars, P!tokenVars
<1>5. AuthAssumption => P!SentinelAssumption
  BY DEF AuthAssumption, Tokens!SentinelAssumption, P!SentinelAssumption, Tokens!Row, P!Row
<1>. QED
  BY <1>1, <1>2, <1>4, <1>5

\* Every step of Auth is one of the tokens, or leaves them alone.
LEMMA StepOfTokens == ASSUME TypeOK, [Next]_vars PROVE [Tokens!Next]_tokenVars
<1>1. ASSUME NEW r \in Req, NEW u \in User, Register(r, u) PROVE Tokens!Next
  BY <1>1 DEF Register, Tokens!Next
<1>2. ASSUME NEW r \in Req, NEW t \in Token, Mail(r, t) PROVE Tokens!Next
  <2>1. req[r].user \in User /\ req[r].kind \in Kind
    BY <1>2 DEF Mail, At, TypeOK, Frame, Idle
  <2>. QED
    BY <1>2, <2>1 DEF Mail, Tokens!Next
<1>3. ASSUME NEW r \in Req, NEW t \in Token, NEW k \in Kind, Present(r, t, k) PROVE Tokens!Next
  BY <1>3 DEF Present, Tokens!Next
<1>4. ASSUME NEW r \in Req, TokenAccepted(r) \/ TokenRefused(r) PROVE Tokens!Next
  BY <1>4 DEF TokenAccepted, TokenRefused, Tokens!Next
<1>5. ASSUME NEW r \in Req, DeleteAccount(r) PROVE Tokens!Next \/ UNCHANGED tokenVars
  <2>1. req[r].user \in User
    BY <1>5 DEF DeleteAccount, At, TypeOK, Frame, Idle
  <2>. QED
    BY <1>5, <2>1 DEF DeleteAccount, Tokens!Next
<1>6. ASSUME NEW t \in Token, ExpireToken(t) PROVE Tokens!Next
  BY <1>6 DEF ExpireToken, Tokens!Next
<1>7. ASSUME NEW r \in Req,
             \/ \E u \in User : LoginRead(r, u) \/ RequestReset(r, u)
             \/ \E i \in intents : BackupRead(r, i) \/ \E step \in 1 .. MaxStep + 1 : TotpRead(r, i, step)
             \/ \E c \in Code : BackupFind(r, c)
             \/ \E s \in sessions : RequireAuth(r, s)
             \/ \E place \in {"mail", "stage", "enable", "codes", "disable", "delete"} : ReadUser(r, place)
      PROVE  UNCHANGED tokenVars
  BY <1>7 DEF LoginRead, RequestReset, BackupRead, TotpRead, BackupFind, RequireAuth, ReadUser
<1>8. ASSUME NEW r \in Req,
             \/ MailFails(r) \/ TotpStamp(r) \/ BackupRefused(r) \/ BackupSpend(r) \/ CreateSession(r)
             \/ Logout(r) \/ LogoutAll(r) \/ PutWrappedKey(r)
             \/ StageSecret(r) \/ EnableTotp(r) \/ IssueBackupCodes(r) \/ DisableTotp(r)
             \/ MarkVerified(r) \/ ResetPassword(r)
      PROVE  UNCHANGED tokenVars
  BY <1>8 DEF MailFails, TotpStamp, BackupRefused, BackupSpend, CreateSession, Logout, LogoutAll, PutWrappedKey,
     StageSecret, EnableTotp, IssueBackupCodes, DisableTotp, MarkVerified, ResetPassword
<1>9. CASE Tick \/ (\E i \in intents : ExpireIntent(i)) \/ UNCHANGED vars
  BY <1>9 DEF Tick, ExpireIntent, vars
<1>. QED
  BY <1>1, <1>2, <1>3, <1>4, <1>5, <1>6, <1>7, <1>8, <1>9 DEF Next

-----------------------------------------------------------------------------
(* Frames.                                                                 *)

\* What a suspended request holds, by the place where it is.
LEMMA FrameFields ==
  ASSUME TypeOK, NEW r \in Req
  PROVE  /\ ~At(r, "idle") /\ ~At(r, "burning") => req[r].user \in User
         /\ At(r, "mail") => req[r].kind \in Kind /\ req[r].next \in {"idle", "session"}
         /\ req[r].at \in {"session", "stamp", "backup", "spend", "authed"} =>
              req[r].password \in 0 .. MaxPassword
         /\ At(r, "session") => req[r].factor \in Factor
         /\ At(r, "stamp") => req[r].secret \in 1 .. MaxSecret /\ req[r].step \in 1 .. MaxStep + 1
         /\ At(r, "spend") => req[r].code \in Code
         /\ At(r, "burning") => req[r].kind \in Kind
<1>1. req[r] \in Frame
  BY DEF TypeOK
<1>. QED
  BY <1>1 DEF Frame, Idle, At

\* The frames that the handlers make.
LEMMA FramesMade ==
  ASSUME NEW u \in User
  PROVE  /\ Idle \in Frame
         /\ \A k \in Kind, n \in {"idle", "session"} :
              [at |-> "mail", user |-> u, kind |-> k, next |-> n] \in Frame
         /\ \A p \in 0 .. MaxPassword :
              /\ \A f \in Factor : [at |-> "session", user |-> u, password |-> p, factor |-> f] \in Frame
              /\ \A x \in 1 .. MaxSecret, n \in 1 .. MaxStep + 1 :
                   [at |-> "stamp", user |-> u, password |-> p, secret |-> x, step |-> n] \in Frame
              /\ [at |-> "backup", user |-> u, password |-> p] \in Frame
              /\ \A c \in Code : [at |-> "spend", user |-> u, password |-> p, code |-> c] \in Frame
              /\ \A i \in 1 .. MaxSession :
                   [at |-> "authed", user |-> u, sid |-> i, password |-> p] \in Frame
         /\ \A place \in {"stage", "enable", "codes", "disable", "delete", "verified", "newhash"} :
              [at |-> place, user |-> u] \in Frame
BY DEF Frame

LEMMA BurningMade == \A k \in Kind : [at |-> "burning", kind |-> k] \in Frame
BY DEF Frame

LEMMA FactorsMade ==
  /\ <<"password">> \in Factor
  /\ \A x \in 1 .. MaxSecret, n \in 1 .. MaxStep + 1 : <<"totp", x, n>> \in Factor
  /\ \A c \in Code : <<"code", c>> \in Factor
BY DEF Factor

\* updateMany changes nothing of a session but that it is live.
LEMMA Revoked ==
  ASSUME NEW S \in SUBSET sessions, Revoke(S)
  PROVE  \A s \in sessions' : \E z \in sessions : s = z \/ s = [z EXCEPT !.live = FALSE]
BY DEF Revoke

\* Nor does it make them more.
LEMMA RevokedCount ==
  ASSUME NEW S \in SUBSET sessions, Revoke(S), IsFiniteSet(sessions)
  PROVE  IsFiniteSet(sessions') /\ Cardinality(sessions') <= Cardinality(sessions)
<1>. DEFINE f == [s \in sessions |-> IF s \in S THEN [s EXCEPT !.live = FALSE] ELSE s]
<1>1. sessions' = {f[s] : s \in sessions}
  BY DEF Revoke
<1>2. f \in Surjection(sessions, sessions')
  BY <1>1 DEF Surjection
<1>. QED
  BY <1>2, FS_Surjection

-----------------------------------------------------------------------------
(* Which actions write which variables.                                    *)

\* A request reads, checks or goes on, and writes nothing but its frame, an
\* intent or what concerns the tokens.
Reads(r) ==
  \/ \E u \in User : LoginRead(r, u) \/ RequestReset(r, u)
  \/ \E t \in Token : Mail(r, t) \/ \E k \in Kind : Present(r, t, k)
  \/ \E i \in intents : BackupRead(r, i) \/ \E step \in 1 .. MaxStep + 1 : TotpRead(r, i, step)
  \/ \E c \in Code : BackupFind(r, c)
  \/ \E s \in sessions : RequireAuth(r, s)
  \/ \E place \in {"mail", "stage", "enable", "codes", "disable", "delete"} : ReadUser(r, place)
  \/ MailFails(r) \/ BackupRefused(r) \/ TokenAccepted(r) \/ TokenRefused(r)

\* It updates the row of its user.
Updates(r) ==
  \/ TotpStamp(r) \/ PutWrappedKey(r) \/ StageSecret(r) \/ EnableTotp(r) \/ IssueBackupCodes(r)
  \/ DisableTotp(r) \/ MarkVerified(r) \/ ResetPassword(r)

LEMMA Writers ==
  ASSUME [Next]_vars
  PROVE  \/ \E r \in Req, u \in User : Register(r, u)
         \/ \E r \in Req : Reads(r) /\ UNCHANGED <<account, sessions, codes, clock>>
                           /\ (UNCHANGED intents \/ \E u \in User : LoginRead(r, u))
                           /\ users' = users
         \/ \E r \in Req : Updates(r) /\ UNCHANGED <<intents, clock, tokenVars>>
                           /\ (UNCHANGED sessions \/ ResetPassword(r))
                           /\ (UNCHANGED codes \/ IssueBackupCodes(r))
         \/ \E r \in Req : BackupSpend(r) \/ CreateSession(r) \/ Logout(r) \/ LogoutAll(r) \/ DeleteAccount(r)
         \/ Tick \/ (\E i \in intents : ExpireIntent(i)) \/ (\E t \in Token : ExpireToken(t))
         \/ UNCHANGED vars
<1>1. ASSUME NEW r \in Req, Reads(r)
      PROVE  /\ UNCHANGED <<account, sessions, codes, clock>> /\ users' = users
             /\ UNCHANGED intents \/ \E u \in User : LoginRead(r, u)
  BY <1>1 DEF Reads, LoginRead, RequestReset, Mail, Present, BackupRead, TotpRead, BackupFind, RequireAuth,
     ReadUser, MailFails, BackupRefused, TokenAccepted, TokenRefused, factorVars, tokenVars,
     Tokens!Issue, Tokens!Lookup, Tokens!Burn, Tokens!BurnMisses
<1>2. ASSUME NEW r \in Req, Updates(r)
      PROVE  /\ UNCHANGED <<intents, clock, tokenVars>>
             /\ UNCHANGED sessions \/ ResetPassword(r)
             /\ UNCHANGED codes \/ IssueBackupCodes(r)
  BY <1>2 DEF Updates, TotpStamp, PutWrappedKey, StageSecret, EnableTotp, IssueBackupCodes, DisableTotp,
     MarkVerified, ResetPassword, factorVars
<1>3. ASSUME Next
      PROVE  \/ \E r \in Req, u \in User : Register(r, u)
             \/ \E r \in Req : Reads(r) \/ Updates(r)
             \/ \E r \in Req : BackupSpend(r) \/ CreateSession(r) \/ Logout(r) \/ LogoutAll(r) \/ DeleteAccount(r)
             \/ Tick \/ (\E i \in intents : ExpireIntent(i)) \/ (\E t \in Token : ExpireToken(t))
  BY <1>3 DEF Next, Reads, Updates
<1>. QED
  BY <1>1, <1>2, <1>3

-----------------------------------------------------------------------------
(* The user's row.                                                         *)

\* UpdateUser writes the row of one who exists, or does nothing to it.
LEMMA Updated ==
  ASSUME TypeOK, UsersRegistered, NEW r \in Req, NEW a, NEW frame, UpdateUser(r, a, frame),
         req[r].user \in User, req[r].user \in users => a \in Account
  PROVE  /\ account' \in [User -> Account \cup {NoAccount}]
         /\ req[r].user \in users => account' = [account EXCEPT ![req[r].user] = a]
         /\ req[r].user \notin users => account' = account
         /\ req' = [req EXCEPT ![r] = frame] \/ req' = [req EXCEPT ![r] = Idle]
BY DEF UpdateUser, TypeOK, Goto

LEMMA Numbers ==
  /\ MaxPassword \in Nat /\ MaxSecret \in Nat /\ MaxBatch \in Nat /\ CodesPerBatch \in Nat
  /\ MaxSession \in Nat /\ MaxStep \in Nat /\ MaxStep >= 2
  /\ NoAccount \notin Account /\ EmailEnabled \in BOOLEAN
BY AuthAssumption DEF AuthAssumption

\* The rows that the handlers make of a row.
LEMMA RowsMade ==
  ASSUME NEW a \in Account
  PROVE  /\ \A x \in 0 .. MaxStep + 1 : [a EXCEPT !.lastStep = x] \in Account
         /\ \A x \in 0 .. MaxPassword :
              /\ [a EXCEPT !.escrow = {x}] \in Account
              /\ [a EXCEPT !.password = x, !.verified = TRUE, !.escrow = {}] \in Account
         /\ \A x \in 0 .. MaxSecret :
              /\ [a EXCEPT !.secret = x, !.drawn = x] \in Account
              /\ [a EXCEPT !.secret = x, !.enabled = FALSE] \in Account
         /\ \A x \in 0 .. MaxBatch : [a EXCEPT !.batch = x] \in Account
         /\ [a EXCEPT !.enabled = TRUE] \in Account
         /\ [a EXCEPT !.verified = TRUE] \in Account
BY DEF Account

\* What a handler may make of the row that it updates: the password is changed
\* by a reset, the batch by new codes, and nothing else changes them.
RowOf(r, a, b) ==
  /\ b \in Account
  /\ b.password = IF At(r, "newhash") THEN a.password + 1 ELSE a.password
  /\ b.batch = IF At(r, "codes") THEN a.batch + 1 ELSE a.batch

LEMMA UpdatedRow ==
  ASSUME TypeOK, UsersRegistered, NEW r \in Req, Updates(r)
  PROVE  /\ req[r].user \in User
         /\ \/ account' = account /\ req[r].user \notin users
            \/ \E b : /\ RowOf(r, account[req[r].user], b) /\ req[r].user \in users
                      /\ account' = [account EXCEPT ![req[r].user] = b]
<1>. DEFINE u == req[r].user
            a == account[u]
            Writes(b) == RowOf(r, a, b) /\ account' = [account EXCEPT ![u] = b]
<1>1. u \in User
  BY FrameFields DEF Updates, At, TotpStamp, PutWrappedKey, StageSecret, EnableTotp, IssueBackupCodes,
     DisableTotp, MarkVerified, ResetPassword
<1>2. CASE u \notin users
  BY <1>1, <1>2 DEF Updates, TotpStamp, PutWrappedKey, StageSecret, EnableTotp, IssueBackupCodes,
     DisableTotp, MarkVerified, ResetPassword, UpdateUser
<1>3. CASE u \in users
  <2>1. a \in Account
    BY <1>1, <1>3 DEF TypeOK, UsersRegistered, Registered
  <2>2. /\ a.password \in Nat /\ a.batch \in Nat /\ a.drawn \in Nat
    BY <2>1 DEF Account
  <2>. SUFFICES \E b : Writes(b)
    BY <1>1, <1>3
  <2>3. CASE TotpStamp(r)
    <3>. DEFINE b == [a EXCEPT !.lastStep = req[r].step]
    <3>1. req[r].step \in 0 .. MaxStep + 1
      BY <2>3, FrameFields, Numbers DEF TotpStamp, At
    <3>2. b \in Account /\ b.password = a.password /\ b.batch = a.batch
      BY <2>1, <3>1, RowsMade DEF Account
    <3>3. account' = [account EXCEPT ![u] = b] /\ RowOf(r, a, b)
      BY <1>3, <2>3, <3>2 DEF TotpStamp, At, RowOf
    <3>. QED
      BY <3>3
  <2>4. CASE PutWrappedKey(r)
    <3>. DEFINE b == [a EXCEPT !.escrow = {req[r].password}]
    <3>1. req[r].password \in 0 .. MaxPassword
      BY <2>4, FrameFields DEF PutWrappedKey, At
    <3>2. b \in Account /\ b.password = a.password /\ b.batch = a.batch
      BY <2>1, <3>1, RowsMade DEF Account
    <3>3. account' = [account EXCEPT ![u] = b] /\ RowOf(r, a, b)
      BY <1>3, <2>4, <3>2 DEF PutWrappedKey, At, RowOf
    <3>. QED
      BY <3>3
  <2>5. CASE StageSecret(r)
    <3>. DEFINE x == a.drawn + 1
                b == [a EXCEPT !.secret = x, !.drawn = x]
    <3>1. x \in 0 .. MaxSecret
      BY <2>2, <2>5, Numbers DEF StageSecret
    <3>2. b \in Account /\ b.password = a.password /\ b.batch = a.batch
      BY <2>1, <3>1, RowsMade DEF Account
    <3>3. account' = [account EXCEPT ![u] = b] /\ RowOf(r, a, b)
      BY <1>3, <2>5, <3>2 DEF StageSecret, UpdateUser, At, RowOf
    <3>. QED
      BY <3>3
  <2>6. CASE EnableTotp(r)
    <3>. DEFINE b == [a EXCEPT !.enabled = TRUE]
    <3>1. b \in Account /\ b.password = a.password /\ b.batch = a.batch
      BY <2>1, RowsMade DEF Account
    <3>2. account' = [account EXCEPT ![u] = b] /\ RowOf(r, a, b)
      BY <1>3, <2>6, <3>1 DEF EnableTotp, UpdateUser, At, RowOf
    <3>. QED
      BY <3>2
  <2>7. CASE IssueBackupCodes(r)
    <3>. DEFINE x == a.batch + 1
                b == [a EXCEPT !.batch = x]
    <3>1. x \in 0 .. MaxBatch
      BY <2>2, <2>7, Numbers DEF IssueBackupCodes
    <3>2. b \in Account /\ b.password = a.password /\ b.batch = x
      BY <2>1, <3>1, RowsMade DEF Account
    <3>3. account' = [account EXCEPT ![u] = b] /\ RowOf(r, a, b)
      BY <1>3, <2>7, <3>2 DEF IssueBackupCodes, UpdateUser, At, RowOf
    <3>. QED
      BY <3>3
  <2>8. CASE DisableTotp(r)
    <3>. DEFINE b == [a EXCEPT !.secret = 0, !.enabled = FALSE]
    <3>0. 0 \in 0 .. MaxSecret
      BY Numbers
    <3>1. b \in Account /\ b.password = a.password /\ b.batch = a.batch
      BY <2>1, <3>0, RowsMade DEF Account
    <3>2. account' = [account EXCEPT ![u] = b] /\ RowOf(r, a, b)
      BY <1>3, <2>8, <3>1 DEF DisableTotp, UpdateUser, At, RowOf
    <3>. QED
      BY <3>2
  <2>9. CASE MarkVerified(r)
    <3>. DEFINE b == [a EXCEPT !.verified = TRUE]
    <3>1. b \in Account /\ b.password = a.password /\ b.batch = a.batch
      BY <2>1, RowsMade DEF Account
    <3>2. account' = [account EXCEPT ![u] = b] /\ RowOf(r, a, b)
      BY <1>3, <2>9, <3>1 DEF MarkVerified, UpdateUser, At, RowOf
    <3>. QED
      BY <3>2
  <2>10. CASE ResetPassword(r)
    <3>. DEFINE x == a.password + 1
                b == [a EXCEPT !.password = x, !.verified = TRUE, !.escrow = {}]
    <3>1. x \in 0 .. MaxPassword
      BY <2>2, <2>10, Numbers DEF ResetPassword
    <3>2. b \in Account /\ b.password = x /\ b.batch = a.batch
      BY <2>1, <3>1, RowsMade DEF Account
    <3>3. account' = [account EXCEPT ![u] = b] /\ RowOf(r, a, b)
      BY <1>3, <2>10, <3>2 DEF ResetPassword, UpdateUser, At, RowOf
    <3>. QED
      BY <3>3
  <2>. QED
    BY <2>3, <2>4, <2>5, <2>6, <2>7, <2>8, <2>9, <2>10 DEF Updates
<1>. QED
  BY <1>2, <1>3

\* Who is registered stays registered: the row of an account that is deleted is
\* remembered.
LEMMA StaysRegistered ==
  ASSUME TypeOK, UsersRegistered, [Next]_vars
  PROVE  \A u \in User : Registered(u) => account'[u] # NoAccount
<1>1. ASSUME NEW r \in Req, NEW u \in User, Register(r, u)
      PROVE  \A v \in User : Registered(v) => account'[v] # NoAccount
  BY <1>1 DEF Register, Registered, TypeOK
<1>2. ASSUME NEW r \in Req, Updates(r)
      PROVE  \A v \in User : Registered(v) => account'[v] # NoAccount
  BY <1>2, UpdatedRow, Numbers DEF RowOf, Registered, TypeOK
<1>3. ASSUME account' = account
      PROVE  \A v \in User : Registered(v) => account'[v] # NoAccount
  BY <1>3 DEF Registered
<1>4. ASSUME \/ \E r \in Req : BackupSpend(r) \/ CreateSession(r) \/ Logout(r) \/ LogoutAll(r) \/ DeleteAccount(r)
             \/ Tick \/ (\E i \in intents : ExpireIntent(i)) \/ (\E t \in Token : ExpireToken(t))
             \/ UNCHANGED vars
      PROVE  account' = account
  BY <1>4 DEF BackupSpend, CreateSession, Logout, LogoutAll, DeleteAccount, Tick, ExpireIntent, ExpireToken, vars
<1>. QED
  BY <1>1, <1>2, <1>3, <1>4, Writers

-----------------------------------------------------------------------------
(* Where a request goes.                                                   *)

\* What the frame f that r goes on with says: it is about a registered user, a
\* session was foreseen when there was room for it, a new password is set only
\* after a reset token was accepted, a token is burned after it was found, and a
\* session is opened with a code only after the code was marked.
Carries(r, f) ==
  /\ f.at \notin {"idle", "burning"} => f.user \in User /\ account'[f.user] # NoAccount
  /\ Creates(f) => Creates(req[r]) \/ RoomForSession
  /\ f.at = "newhash" => TokenAccepted(r) /\ req[r].kind = "reset" /\ f.user = row[call[r]].user
  /\ f.at = "burning" => \E t \in Token : Present(r, t, f.kind)
  /\ f.at = "session" => f.factor[1] # "code" \/ BackupSpend(r)

Moves(r) == \E f \in Frame : req' = [req EXCEPT ![r] = f] /\ Carries(r, f)

\* A request that ends, and one that mails.
LEMMA MovesToIdle == ASSUME NEW r \in Req, Goto(r, Idle) PROVE Moves(r)
<1>1. Idle \in Frame
  BY DEF Frame
<1>2. Carries(r, Idle)
  BY DEF Carries, Creates, Idle
<1>. QED
  BY <1>1, <1>2 DEF Goto, Moves

LEMMA MovesFromMail ==
  ASSUME TypeOK, UsersRegistered, FramesRegistered, [Next]_vars, NEW r \in Req, At(r, "mail"), Goto(r, AfterMail(r))
  PROVE  Moves(r)
<1>1. CASE req[r].next = "session"
  <2>. DEFINE f == [at |-> "session", user |-> req[r].user, password |-> 0, factor |-> <<"password">>]
  <2>1. req[r].user \in User /\ account'[req[r].user] # NoAccount
    BY FrameFields, StaysRegistered DEF FramesRegistered, At
  <2>2. 0 \in 0 .. MaxPassword
    BY Numbers
  <2>3. f \in Frame
    BY <2>1, <2>2, FramesMade, FactorsMade
  <2>4. Creates(req[r])
    BY <1>1 DEF At, Creates
  <2>5. Carries(r, f)
    BY <2>1, <2>4 DEF Carries, Creates
  <2>. QED
    BY <1>1, <2>3, <2>5 DEF Goto, AfterMail, Moves
<1>2. CASE req[r].next # "session"
  BY <1>2, MovesToIdle DEF AfterMail
<1>. QED
  BY <1>1, <1>2

\* Every request that goes on says the truth: registration and the reads.
LEMMA RegisterMoves ==
  ASSUME TypeOK, NEW r \in Req, NEW u \in User, Register(r, u)
  PROVE  Moves(r)
<1>. DEFINE f == [at |-> "mail", user |-> u, kind |-> "verify", next |-> "session"]
            g == [at |-> "session", user |-> u, password |-> 0, factor |-> <<"password">>]
<1>1. account'[u] = NewAccount /\ RoomForSession
  BY DEF Register, TypeOK
<1>2. NewAccount # NoAccount
  <2>1. 0 \in 0 .. MaxPassword /\ 0 \in 0 .. MaxSecret /\ 0 \in 0 .. MaxStep + 1 /\ 0 \in 0 .. MaxBatch
    BY Numbers
  <2>2. NewAccount \in Account
    BY <2>1, Numbers DEF NewAccount, Account
  <2>. QED
    BY <2>2, Numbers
<1>3. "verify" \in Kind /\ 0 \in 0 .. MaxPassword
  BY Numbers DEF Kind
<1>4. f \in Frame /\ g \in Frame
  BY <1>3, FramesMade, FactorsMade
<1>5. Carries(r, f) /\ Carries(r, g)
  BY <1>1, <1>2 DEF Carries, Creates
<1>6. req' = [req EXCEPT ![r] = f] \/ req' = [req EXCEPT ![r] = g]
  BY DEF Register, Goto
<1>. QED
  BY <1>4, <1>5, <1>6 DEF Moves

LEMMA ReadsMove ==
  ASSUME TypeOK, UsersRegistered, FramesRegistered, SessionsRegistered, RowsOwned, [Next]_vars,
         NEW r \in Req, Reads(r)
  PROVE  Moves(r) \/ req' = req
<1>. DEFINE Known(u) == u \in User /\ account'[u] # NoAccount
<1>1. \A u \in users : Known(u) /\ account[u] \in Account
  BY StaysRegistered DEF TypeOK, Tokens!TypeOK, UsersRegistered, Registered
<1>2. ~At(r, "idle") /\ ~At(r, "burning") => Known(req[r].user)
  BY FrameFields, StaysRegistered DEF FramesRegistered
<1>3. ASSUME NEW u \in User, LoginRead(r, u) PROVE Moves(r) \/ req' = req
  <2>. DEFINE f == [at |-> "session", user |-> u, password |-> account[u].password,
                    factor |-> <<"password">>]
  <2>1. Known(u) /\ account[u].password \in 0 .. MaxPassword /\ RoomForSession
    BY <1>1, <1>3 DEF LoginRead, Account
  <2>2. f \in Frame
    BY <2>1, FramesMade, FactorsMade
  <2>3. Carries(r, f)
    BY <2>1 DEF Carries, Creates
  <2>. QED
    BY <1>3, <2>2, <2>3 DEF LoginRead, Goto, Moves
<1>4. ASSUME NEW u \in User, RequestReset(r, u) PROVE Moves(r)
  <2>. DEFINE f == [at |-> "mail", user |-> u, kind |-> "reset", next |-> "idle"]
  <2>1. "reset" \in Kind
    BY DEF Kind
  <2>2. f \in Frame
    BY <2>1, FramesMade
  <2>3. Carries(r, f)
    BY <1>1, <1>4 DEF RequestReset, Carries, Creates
  <2>. QED
    BY <1>4, <2>2, <2>3 DEF RequestReset, Goto, Moves
<1>5. ASSUME NEW t \in Token, NEW k \in Kind, Present(r, t, k) PROVE Moves(r)
  <2>. DEFINE f == [at |-> "burning", kind |-> k]
  <2>1. f \in Frame
    BY BurningMade
  <2>2. Carries(r, f)
    BY <1>5 DEF Carries, Creates
  <2>. QED
    BY <1>5, <2>1, <2>2 DEF Present, Goto, Moves
<1>6. ASSUME NEW i \in intents, BackupRead(r, i) PROVE Moves(r)
  <2>. DEFINE f == [at |-> "backup", user |-> i.user, password |-> i.password]
  <2>1. i.user \in users /\ i.password \in 0 .. MaxPassword /\ RoomForSession
    BY <1>6 DEF BackupRead, TypeOK, Intent
  <2>2. f \in Frame
    BY <1>1, <2>1, FramesMade
  <2>3. Carries(r, f)
    BY <1>1, <2>1 DEF Carries, Creates
  <2>. QED
    BY <1>6, <2>2, <2>3 DEF BackupRead, Goto, Moves
<1>7. ASSUME NEW i \in intents, NEW step \in 1 .. MaxStep + 1, TotpRead(r, i, step) PROVE Moves(r)
  <2>. DEFINE f == [at |-> "stamp", user |-> i.user, password |-> i.password,
                    secret |-> account[i.user].secret, step |-> step]
  <2>1. i.user \in users /\ i.password \in 0 .. MaxPassword /\ RoomForSession
    BY <1>7 DEF TotpRead, TypeOK, Intent
  <2>2. account[i.user].secret \in 0 .. MaxSecret /\ account[i.user].secret # 0
    BY <1>1, <1>7, <2>1 DEF TotpRead, Account
  <2>3. account[i.user].secret \in 1 .. MaxSecret
    BY <2>2, Numbers
  <2>4. f \in Frame
    BY <1>1, <2>1, <2>3, FramesMade
  <2>5. Carries(r, f)
    BY <1>1, <2>1 DEF Carries, Creates
  <2>. QED
    BY <1>7, <2>4, <2>5 DEF TotpRead, Goto, Moves
<1>8. ASSUME NEW c \in Code, BackupFind(r, c) PROVE Moves(r)
  <2>. DEFINE f == [at |-> "spend", user |-> req[r].user, password |-> req[r].password, code |-> c]
  <2>1. Known(req[r].user) /\ req[r].password \in 0 .. MaxPassword /\ Creates(req[r])
    BY <1>2, <1>8, FrameFields DEF BackupFind, At, Creates
  <2>2. f \in Frame
    BY <2>1, FramesMade
  <2>3. Carries(r, f)
    BY <2>1 DEF Carries, Creates
  <2>. QED
    BY <1>8, <2>2, <2>3 DEF BackupFind, Goto, Moves
<1>9. ASSUME NEW s \in sessions, RequireAuth(r, s) PROVE Moves(r)
  <2>. DEFINE f == [at |-> "authed", user |-> s.user, sid |-> s.id, password |-> s.password]
  <2>1. s.user \in User /\ s.id \in 1 .. MaxSession /\ s.password \in 0 .. MaxPassword
    BY <1>9 DEF TypeOK, Session
  <2>2. account'[s.user] # NoAccount
    BY <2>1, StaysRegistered DEF SessionsRegistered
  <2>3. f \in Frame
    BY <2>1, FramesMade
  <2>4. Carries(r, f)
    BY <2>1, <2>2 DEF Carries, Creates
  <2>. QED
    BY <1>9, <2>3, <2>4 DEF RequireAuth, Goto, Moves
<1>10. ASSUME NEW place \in {"mail", "stage", "enable", "codes", "disable", "delete"}, ReadUser(r, place)
       PROVE  Moves(r)
  <2>. DEFINE u == req[r].user
              f == [at |-> "mail", user |-> u, kind |-> "verify", next |-> "idle"]
              g == [at |-> place, user |-> u]
  <2>1. Known(u) /\ "verify" \in Kind
    BY <1>1, <1>10 DEF ReadUser, Kind
  <2>2. CASE place = "mail"
    <3>1. f \in Frame
      BY <2>1, FramesMade
    <3>2. Carries(r, f)
      BY <2>1 DEF Carries, Creates
    <3>. QED
      BY <1>10, <2>2, <3>1, <3>2 DEF ReadUser, Goto, Moves
  <2>3. CASE place # "mail"
    <3>1. g \in Frame
      BY <2>1, <2>3, FramesMade
    <3>2. Carries(r, g)
      BY <2>1, <2>3 DEF Carries, Creates
    <3>. QED
      BY <1>10, <2>3, <3>1, <3>2 DEF ReadUser, Goto, Moves
  <2>. QED
    BY <2>2, <2>3
<1>11. ASSUME \/ MailFails(r) \/ \E t \in Token : Mail(r, t)
       PROVE  Moves(r)
  BY <1>11, MovesFromMail DEF MailFails, Mail
<1>12. ASSUME BackupRefused(r) \/ TokenRefused(r) PROVE Moves(r)
  BY <1>12, MovesToIdle DEF BackupRefused, TokenRefused
<1>13. ASSUME TokenAccepted(r) PROVE Moves(r)
  <2>. DEFINE u == row[call[r]].user
              place == IF req[r].kind = "verify" THEN "verified" ELSE "newhash"
              f == [at |-> place, user |-> u]
  <2>1. Known(u)
    <3>1. call[r] \in Token /\ row[call[r]] # NoRow
      BY <1>13 DEF TokenAccepted, Tokens!Burn, Tokens!Burns, Tokens!Unused, TypeOK, Tokens!TypeOK
    <3>. QED
      BY <1>1, <3>1 DEF RowsOwned
  <2>2. f \in Frame
    BY <2>1, FramesMade
  <2>3. At(r, "burning") /\ req[r].kind \in Kind
    BY <1>13, FrameFields DEF TokenAccepted
  <2>4. Carries(r, f)
    BY <1>13, <2>1, <2>3 DEF Carries, Creates, Kind
  <2>. QED
    BY <1>13, <2>2, <2>4 DEF TokenAccepted, Goto, Moves
<1>. QED
  BY <1>3, <1>4, <1>5, <1>6, <1>7, <1>8, <1>9, <1>10, <1>11, <1>12, <1>13 DEF Reads

\* The updates of the user's row.
LEMMA UpdatesMove ==
  ASSUME TypeOK, UsersRegistered, FramesRegistered, [Next]_vars, NEW r \in Req, Updates(r)
  PROVE  Moves(r)
<1>. DEFINE u == req[r].user
<1>1. u \in User /\ account'[u] # NoAccount
  BY UpdatedRow, StaysRegistered, FrameFields
  DEF FramesRegistered, Updates, At, TotpStamp, PutWrappedKey, StageSecret, EnableTotp, IssueBackupCodes,
      DisableTotp, MarkVerified, ResetPassword
<1>2. CASE TotpStamp(r)
  <2>. DEFINE f == [at |-> "session", user |-> u, password |-> req[r].password,
                    factor |-> <<"totp", req[r].secret, req[r].step>>]
  <2>1. At(r, "stamp") /\ Creates(req[r])
    BY <1>2 DEF TotpStamp, At, Creates
  <2>2. /\ req[r].password \in 0 .. MaxPassword
        /\ req[r].secret \in 1 .. MaxSecret /\ req[r].step \in 1 .. MaxStep + 1
    BY <2>1, FrameFields DEF At
  <2>3. f \in Frame
    BY <1>1, <2>2, FramesMade, FactorsMade
  <2>4. Carries(r, f)
    BY <1>1, <2>1 DEF Carries, Creates
  <2>5. req' = [req EXCEPT ![r] = f] \/ Goto(r, Idle)
    BY <1>2 DEF TotpStamp, Goto
  <2>. QED
    BY <2>3, <2>4, <2>5, MovesToIdle DEF Moves
<1>3. CASE EnableTotp(r)
  <2>. DEFINE f == [at |-> "codes", user |-> u]
  <2>1. f \in Frame
    BY <1>1, FramesMade
  <2>2. Carries(r, f)
    BY <1>1 DEF Carries, Creates
  <2>3. req' = [req EXCEPT ![r] = f] \/ Goto(r, Idle)
    BY <1>3 DEF EnableTotp, UpdateUser, Goto
  <2>. QED
    BY <2>1, <2>2, <2>3, MovesToIdle DEF Moves
<1>4. CASE ~TotpStamp(r) /\ ~EnableTotp(r)
  <2>1. Goto(r, Idle)
    BY <1>4 DEF Updates, PutWrappedKey, StageSecret, IssueBackupCodes, DisableTotp, MarkVerified, ResetPassword,
       UpdateUser
  <2>. QED
    BY <2>1, MovesToIdle
<1>. QED
  BY <1>2, <1>3, <1>4

\* Every step moves one request, or none.
LEMMA EveryMove ==
  ASSUME TypeOK, UsersRegistered, FramesRegistered, SessionsRegistered, RowsOwned, [Next]_vars
  PROVE  (\E r \in Req : Moves(r)) \/ req' = req
<1>1. ASSUME NEW r \in Req, BackupSpend(r) PROVE Moves(r)
  <2>. DEFINE f == [at |-> "session", user |-> req[r].user, password |-> req[r].password,
                    factor |-> <<"code", req[r].code>>]
  <2>1. At(r, "spend") /\ Creates(req[r])
    BY <1>1 DEF BackupSpend, At, Creates
  <2>2. /\ req[r].user \in User /\ account'[req[r].user] # NoAccount
        /\ req[r].password \in 0 .. MaxPassword /\ req[r].code \in Code
    BY <2>1, FrameFields, StaysRegistered DEF FramesRegistered, At
  <2>3. f \in Frame
    BY <2>2, FramesMade, FactorsMade
  <2>4. Carries(r, f)
    BY <1>1, <2>1, <2>2 DEF Carries, Creates
  <2>5. req' = [req EXCEPT ![r] = f] \/ Goto(r, Idle)
    BY <1>1 DEF BackupSpend, Goto
  <2>. QED
    BY <2>3, <2>4, <2>5, MovesToIdle DEF Moves
<1>2. ASSUME NEW r \in Req, CreateSession(r) \/ Logout(r) \/ LogoutAll(r) \/ DeleteAccount(r) PROVE Moves(r)
  BY <1>2, MovesToIdle DEF CreateSession, Logout, LogoutAll, DeleteAccount
<1>3. ASSUME Tick \/ (\E i \in intents : ExpireIntent(i)) \/ (\E t \in Token : ExpireToken(t)) \/ UNCHANGED vars
      PROVE  req' = req
  BY <1>3 DEF Tick, ExpireIntent, ExpireToken, vars
<1>. QED
  BY <1>1, <1>2, <1>3, RegisterMoves, ReadsMove, UpdatesMove, Writers

-----------------------------------------------------------------------------
(* The sessions.                                                           *)

LEMMA SessionsStep ==
  ASSUME [Next]_vars
  PROVE  \/ UNCHANGED sessions
         \/ \E S \in SUBSET sessions : Revoke(S)
         \/ \E r \in Req : CreateSession(r) /\ req[r].user \in users
<1>1. ASSUME NEW r \in Req, CreateSession(r)
      PROVE  UNCHANGED sessions \/ req[r].user \in users
  BY <1>1 DEF CreateSession
<1>2. ASSUME NEW r \in Req, Logout(r) \/ LogoutAll(r) \/ DeleteAccount(r) \/ ResetPassword(r)
      PROVE  UNCHANGED sessions \/ \E S \in SUBSET sessions : Revoke(S)
  BY <1>2 DEF Logout, LogoutAll, DeleteAccount, ResetPassword
<1>3. ASSUME \/ \E r \in Req, u \in User : Register(r, u)
             \/ \E r \in Req : BackupSpend(r)
             \/ Tick \/ (\E i \in intents : ExpireIntent(i)) \/ (\E t \in Token : ExpireToken(t))
             \/ UNCHANGED vars
      PROVE  UNCHANGED sessions
  BY <1>3 DEF Register, BackupSpend, Tick, ExpireIntent, ExpireToken, vars
<1>. QED
  BY <1>1, <1>2, <1>3, Writers

\* The next number of a session.
LEMMA RoomToCreate ==
  ASSUME RoomIsKept, NEW r \in Req, Creates(req[r])
  PROVE  /\ Cardinality(sessions) + 1 \in 1 .. MaxSession
         /\ Cardinality(sessions) \in Nat /\ Cardinality(Creating) \in Nat
         /\ IsFiniteSet(Creating)
         /\ Cardinality(Creating \ {r}) = Cardinality(Creating) - 1
<1>1. Creating \subseteq Suspended
  BY DEF Creating, Suspended, Creates
<1>2. IsFiniteSet(Creating) /\ Cardinality(Creating) \in Nat /\ Cardinality(sessions) \in Nat
  BY <1>1, FS_Subset, FS_CardinalityType DEF RoomIsKept
<1>3. r \in Creating
  BY DEF Creating
<1>4. /\ Cardinality(Creating \ {r}) = Cardinality(Creating) - 1
      /\ IsFiniteSet(Creating \ {r})
  BY <1>2, <1>3, FS_RemoveElement
<1>5. Cardinality(Creating \ {r}) \in Nat
  BY <1>4, FS_CardinalityType
<1>. QED
  BY <1>2, <1>4, <1>5, Numbers DEF RoomIsKept

LEMMA SessionsType ==
  ASSUME TypeOK, RoomIsKept, [Next]_vars
  PROVE  sessions' \subseteq Session
<1>1. ASSUME NEW S \in SUBSET sessions, Revoke(S) PROVE sessions' \subseteq Session
  <2>1. \A z \in Session : [z EXCEPT !.live = FALSE] \in Session
    BY DEF Session
  <2>. QED
    BY <1>1, <2>1, Revoked DEF TypeOK
<1>2. ASSUME NEW r \in Req, CreateSession(r) PROVE sessions' \subseteq Session
  <2>1. /\ req[r].user \in User /\ req[r].password \in 0 .. MaxPassword /\ req[r].factor \in Factor
        /\ Creates(req[r])
    BY <1>2, FrameFields DEF CreateSession, At, Creates
  <2>2. Cardinality(sessions) + 1 \in 1 .. MaxSession
    BY <2>1, RoomToCreate
  <2>3. [id |-> Cardinality(sessions) + 1, user |-> req[r].user, password |-> req[r].password,
         factor |-> req[r].factor, live |-> TRUE] \in Session
    BY <2>1, <2>2 DEF Session
  <2>. QED
    BY <1>2, <2>3 DEF CreateSession, TypeOK
<1>. QED
  BY <1>1, <1>2, SessionsStep DEF TypeOK

\* A request that may create a session was let in while there was room for one
\* more than were under way.
LEMMA RoomStep ==
  ASSUME TypeOK, UsersRegistered, FramesRegistered, SessionsRegistered, RowsOwned, RoomIsKept, [Next]_vars
  PROVE  RoomIsKept'
<1>1. Creating \subseteq Suspended
  BY DEF Creating, Suspended, Creates
<1>2. /\ IsFiniteSet(Creating) /\ Cardinality(Creating) \in Nat /\ Cardinality(sessions) \in Nat
      /\ Cardinality(Suspended) \in Nat /\ Cardinality(Creating) <= Cardinality(Suspended)
  BY <1>1, FS_Subset, FS_CardinalityType DEF RoomIsKept
<1>3. /\ IsFiniteSet(sessions')
      /\ \/ Cardinality(sessions') <= Cardinality(sessions)
         \/ /\ Cardinality(sessions') <= Cardinality(sessions) + 1
            /\ \E r \in Req : CreateSession(r)
  <2>1. ASSUME NEW S \in SUBSET sessions, Revoke(S) PROVE <1>3
    BY <2>1, RevokedCount DEF RoomIsKept
  <2>2. ASSUME NEW r \in Req, CreateSession(r), req[r].user \in users PROVE <1>3
    <3>1. PICK s : sessions' = sessions \cup {s}
      BY <2>2 DEF CreateSession
    <3>2. IsFiniteSet(sessions \cup {s}) /\ Cardinality(sessions \cup {s}) <= Cardinality(sessions) + 1
      <4>1. IsFiniteSet(sessions)
        BY DEF RoomIsKept
      <4>2. /\ IsFiniteSet(sessions \cup {s})
            /\ Cardinality(sessions \cup {s}) = IF s \in sessions THEN Cardinality(sessions)
                                                ELSE Cardinality(sessions) + 1
        BY <4>1, FS_AddElement, Zenon
      <4>. QED
        BY <1>2, <4>2
    <3>. QED
      BY <2>2, <3>1, <3>2
  <2>3. CASE UNCHANGED sessions
    BY <1>2, <2>3 DEF RoomIsKept
  <2>. QED
    BY <2>1, <2>2, <2>3, SessionsStep
<1>4. Cardinality(sessions') \in Nat
  BY <1>3, FS_CardinalityType
<1>5. ASSUME NEW r \in Req, CreateSession(r) PROVE RoomIsKept'
  <2>1. Suspended' = Suspended \ {r} /\ Creating' = Creating \ {r} /\ Creates(req[r])
    BY <1>5 DEF CreateSession, Goto, At, Suspended, Creating, Creates, Idle, TypeOK
  <2>2. IsFiniteSet(Suspended')
    BY <2>1, FS_Subset DEF RoomIsKept
  <2>3. Cardinality(Creating') = Cardinality(Creating) - 1
    BY <2>1, RoomToCreate
  <2>. QED
    BY <1>2, <1>3, <1>4, <2>2, <2>3, Numbers DEF RoomIsKept
<1>6. ASSUME NEW r \in Req, Moves(r), Cardinality(sessions') <= Cardinality(sessions) PROVE RoomIsKept'
  <2>1. PICK f \in Frame : req' = [req EXCEPT ![r] = f] /\ Carries(r, f)
    BY <1>6 DEF Moves
  <2>2. /\ \A x \in Req : x # r => req'[x] = req[x]
        /\ req'[r] = f
    BY <2>1 DEF TypeOK
  <2>3. Suspended' \subseteq Suspended \cup {r} /\ IsFiniteSet(Suspended \cup {r})
    BY <2>2, FS_AddElement DEF Suspended, RoomIsKept
  <2>4. IsFiniteSet(Suspended')
    BY <2>3, FS_Subset
  <2>5. CASE Creating' \subseteq Creating
    <3>1. Cardinality(Creating') \in Nat /\ Cardinality(Creating') <= Cardinality(Creating)
      BY <1>2, <2>5, FS_Subset, FS_CardinalityType
    <3>. QED
      BY <1>2, <1>3, <1>4, <1>6, <2>4, <3>1, Numbers DEF RoomIsKept
  <2>6. CASE ~(Creating' \subseteq Creating)
    <3>1. Creates(f) /\ ~Creates(req[r]) /\ RoomForSession
      BY <2>1, <2>2, <2>6 DEF Creating, Carries
    <3>2. Creating' \subseteq Creating \cup {r}
      BY <2>2 DEF Creating
    <3>3. /\ IsFiniteSet(Creating \cup {r}) /\ Cardinality(Creating \cup {r}) <= Cardinality(Creating) + 1
      BY <1>2, FS_AddElement
    <3>4. /\ Cardinality(Creating') \in Nat
          /\ Cardinality(Creating') <= Cardinality(Creating \cup {r}) /\ Cardinality(Creating \cup {r}) \in Nat
      BY <3>2, <3>3, FS_Subset, FS_CardinalityType
    <3>5. Cardinality(sessions) + Cardinality(Suspended) < MaxSession
      BY <3>1 DEF RoomForSession, Suspended
    <3>. QED
      BY <1>2, <1>3, <1>4, <1>6, <2>4, <3>3, <3>4, <3>5, Numbers DEF RoomIsKept
  <2>. QED
    BY <2>5, <2>6
<1>7. CASE req' = req /\ Cardinality(sessions') <= Cardinality(sessions)
  <2>1. Suspended' = Suspended /\ Creating' = Creating
    BY <1>7 DEF Suspended, Creating
  <2>. QED
    BY <1>2, <1>3, <1>4, <1>7, <2>1, Numbers DEF RoomIsKept
<1>. QED
  BY <1>3, <1>5, <1>6, <1>7, EveryMove

-----------------------------------------------------------------------------
(* The type invariant, with what its proof needs.                          *)

\* The inductive invariant of the module.  TypeOK alone is not inductive: the
\* number of a session stays in its range because every request that may create
\* one was let in while there was room, and a handler writes the row of a user
\* who was registered.
IInv ==
  /\ TypeOK
  /\ P!IInv
  /\ UsersRegistered
  /\ FramesRegistered
  /\ SessionsRegistered
  /\ RowsOwned
  /\ BurnsMatch
  /\ RoomIsKept

LEMMA InitInv == Init => IInv
<1>. SUFFICES ASSUME Init PROVE IInv
  OBVIOUS
<1>1. P!IInv
  BY SameTokens, P!InitInv, AuthAssumption DEF Init
<1>2. Tokens!TypeOK
  BY <1>1, SameTokens DEF P!IInv
<1>3. Idle \in Frame /\ clock \in 2 .. MaxStep
  BY Numbers DEF Frame, Init
<1>4. TypeOK
  BY <1>2, <1>3 DEF Init, TypeOK
<1>5. UsersRegistered /\ FramesRegistered /\ SessionsRegistered /\ RowsOwned /\ BurnsMatch
  BY DEF Init, Tokens!TokensInit, UsersRegistered, FramesRegistered, SessionsRegistered, RowsOwned, BurnsMatch,
     At, Idle
<1>6. RoomIsKept
  <2>1. Suspended = {} /\ Creating = {} /\ sessions = {}
    BY DEF Init, Suspended, Creating, Creates, Idle
  <2>. QED
    BY <2>1, FS_EmptySet, Numbers DEF RoomIsKept
<1>. QED
  BY <1>1, <1>4, <1>5, <1>6 DEF IInv

\* The codes and the intents.
LEMMA FactorsType ==
  ASSUME TypeOK, UsersRegistered, [Next]_vars
  PROVE  /\ codes' \in [User -> SUBSET [code : Code, used : BOOLEAN]]
         /\ intents' \subseteq Intent
         /\ clock' \in 2 .. MaxStep
<1>. DEFINE Codes == [code : Code, used : BOOLEAN]
<1>1. codes' \in [User -> SUBSET Codes]
  <2>1. ASSUME NEW r \in Req, IssueBackupCodes(r) PROVE codes' \in [User -> SUBSET Codes]
    <3>. DEFINE u == req[r].user
                b == account[u].batch + 1
    <3>1. CASE u \in users
      <4>1. u \in User /\ account[u] \in Account
        BY <3>1 DEF TypeOK, Tokens!TypeOK, UsersRegistered, Registered
      <4>2. account[u].batch \in Nat
        BY <4>1 DEF Account
      <4>3. b \in 1 .. MaxBatch
        BY <2>1, <4>2, Numbers DEF IssueBackupCodes
      <4>4. {[code |-> <<b, n>>, used |-> FALSE] : n \in 1 .. CodesPerBatch} \subseteq Codes
        <5>1. \A n \in 1 .. CodesPerBatch : <<b, n>> \in Code
          BY <4>3 DEF Code
        <5>2. \A n \in 1 .. CodesPerBatch : [code |-> <<b, n>>, used |-> FALSE] \in Codes
          BY <5>1
        <5>. QED
          BY <5>2
      <4>5. codes' = [codes EXCEPT ![u] = {[code |-> <<b, n>>, used |-> FALSE] : n \in 1 .. CodesPerBatch}]
        BY <2>1, <3>1 DEF IssueBackupCodes
      <4>. QED
        BY <4>4, <4>5 DEF TypeOK
    <3>2. CASE u \notin users
      BY <2>1, <3>2 DEF IssueBackupCodes, TypeOK
    <3>. QED
      BY <3>1, <3>2
  <2>2. ASSUME NEW r \in Req, BackupSpend(r) PROVE codes' \in [User -> SUBSET Codes]
    <3>1. req[r].user \in User /\ req[r].code \in Code
      BY <2>2, FrameFields DEF BackupSpend, At
    <3>2. [code |-> req[r].code, used |-> TRUE] \in Codes
      BY <3>1
    <3>3. codes[req[r].user] \subseteq Codes
      BY <3>1 DEF TypeOK
    <3>4. \/ codes' = codes
          \/ \E S \in SUBSET Codes : codes' = [codes EXCEPT ![req[r].user] = S]
      <4>. DEFINE S == (codes[req[r].user] \ {x \in codes[req[r].user] : x.code = req[r].code})
                       \cup {[code |-> req[r].code, used |-> TRUE]}
      <4>1. S \subseteq Codes
        BY <3>2, <3>3
      <4>2. codes' = codes \/ codes' = [codes EXCEPT ![req[r].user] = S]
        BY <2>2 DEF BackupSpend
      <4>. QED
        BY <4>1, <4>2
    <3>. QED
      BY <3>1, <3>4 DEF TypeOK
  <2>3. ASSUME NEW r \in Req, DeleteAccount(r) PROVE codes' \in [User -> SUBSET Codes]
    BY <2>3 DEF DeleteAccount, TypeOK
  <2>4. ASSUME \/ \E r \in Req, u \in User : Register(r, u)
               \/ \E r \in Req : CreateSession(r) \/ Logout(r) \/ LogoutAll(r)
               \/ Tick \/ (\E i \in intents : ExpireIntent(i)) \/ (\E t \in Token : ExpireToken(t))
               \/ UNCHANGED vars
        PROVE  UNCHANGED codes
    BY <2>4 DEF Register, CreateSession, Logout, LogoutAll, Tick, ExpireIntent, ExpireToken, vars, factorVars
  <2>. QED
    BY <2>1, <2>2, <2>3, <2>4, Writers DEF TypeOK
<1>2. intents' \subseteq Intent
  <2>1. ASSUME NEW r \in Req, NEW u \in User, LoginRead(r, u) PROVE intents' \subseteq Intent
    <3>1. account[u].password \in 0 .. MaxPassword
      BY <2>1 DEF LoginRead, TypeOK, UsersRegistered, Registered, Account
    <3>2. [user |-> u, password |-> account[u].password] \in Intent
      BY <3>1 DEF Intent
    <3>. QED
      BY <2>1, <3>2 DEF LoginRead, TypeOK
  <2>2. ASSUME \/ \E r \in Req, u \in User : Register(r, u)
               \/ \E r \in Req : BackupSpend(r) \/ CreateSession(r) \/ Logout(r) \/ LogoutAll(r) \/ DeleteAccount(r)
               \/ Tick \/ (\E i \in intents : ExpireIntent(i)) \/ (\E t \in Token : ExpireToken(t))
               \/ UNCHANGED vars
        PROVE  intents' \subseteq intents
    BY <2>2 DEF Register, BackupSpend, CreateSession, Logout, LogoutAll, DeleteAccount, Tick, ExpireIntent,
       ExpireToken, vars, factorVars
  <2>. QED
    BY <2>1, <2>2, Writers DEF TypeOK
<1>3. clock' \in 2 .. MaxStep
  <2>1. CASE Tick
    BY <2>1, Numbers DEF Tick, TypeOK
  <2>2. ASSUME \/ \E r \in Req, u \in User : Register(r, u)
               \/ \E r \in Req : BackupSpend(r) \/ CreateSession(r) \/ Logout(r) \/ LogoutAll(r) \/ DeleteAccount(r)
               \/ (\E i \in intents : ExpireIntent(i)) \/ (\E t \in Token : ExpireToken(t))
               \/ UNCHANGED vars
        PROVE  UNCHANGED clock
    BY <2>2 DEF Register, BackupSpend, CreateSession, Logout, LogoutAll, DeleteAccount, ExpireIntent,
       ExpireToken, vars, factorVars
  <2>. QED
    BY <2>1, <2>2, Writers DEF TypeOK
<1>. QED
  BY <1>1, <1>2, <1>3

\* The users' rows.
LEMMA AccountType ==
  ASSUME TypeOK, UsersRegistered, [Next]_vars
  PROVE  account' \in [User -> Account \cup {NoAccount}]
<1>1. ASSUME NEW r \in Req, NEW u \in User, Register(r, u) PROVE account' \in [User -> Account \cup {NoAccount}]
  <2>1. 0 \in 0 .. MaxPassword /\ 0 \in 0 .. MaxSecret /\ 0 \in 0 .. MaxStep + 1 /\ 0 \in 0 .. MaxBatch
    BY Numbers
  <2>2. NewAccount \in Account
    BY <2>1, Numbers DEF NewAccount, Account
  <2>. QED
    BY <1>1, <2>2 DEF Register, TypeOK
<1>2. ASSUME NEW r \in Req, Updates(r) PROVE account' \in [User -> Account \cup {NoAccount}]
  BY <1>2, UpdatedRow DEF RowOf, TypeOK
<1>3. ASSUME \/ \E r \in Req : BackupSpend(r) \/ CreateSession(r) \/ Logout(r) \/ LogoutAll(r) \/ DeleteAccount(r)
             \/ Tick \/ (\E i \in intents : ExpireIntent(i)) \/ (\E t \in Token : ExpireToken(t))
             \/ UNCHANGED vars
      PROVE  account' = account
  BY <1>3 DEF BackupSpend, CreateSession, Logout, LogoutAll, DeleteAccount, Tick, ExpireIntent, ExpireToken, vars
<1>. QED
  BY <1>1, <1>2, <1>3, Writers DEF TypeOK

-----------------------------------------------------------------------------
(* The rows of the tokens.                                                 *)

\* A row keeps its user and its kind; a new one is of a value that was not drawn
\* before, for a user who exists, and unused.
LEMMA RowStep ==
  ASSUME TypeOK, RowsOwned, [Tokens!Next]_tokenVars
  PROVE  /\ minted \subseteq minted'
         /\ \A t \in Token : row'[t] # NoRow =>
              \/ /\ row[t] # NoRow /\ row'[t].user = row[t].user /\ row'[t].kind = row[t].kind
                 /\ row[t].used => row'[t].used
                 /\ row[t].user \in users'
              \/ t \notin minted /\ row'[t].user \in users' /\ row'[t].used = FALSE
<1>. USE DEF TypeOK, Tokens!TypeOK
<1>1. ASSUME NEW u \in User, Tokens!AddUser(u)
      PROVE  users \subseteq users' /\ UNCHANGED <<row, minted>>
  BY <1>1 DEF Tokens!AddUser, Tokens!tokenVars
<1>2. ASSUME NEW u \in User, Tokens!RemoveUser(u)
      PROVE  /\ minted' = minted /\ users' = users \ {u}
             /\ \A t \in Token : row'[t] # NoRow => row'[t] = row[t] /\ row[t].user # u
  BY <1>2 DEF Tokens!RemoveUser
<1>3. ASSUME NEW u \in User, NEW k \in Kind, NEW t \in Token, Tokens!Issue(u, k, t)
      PROVE  /\ minted' = minted \cup {t} /\ users' = users /\ u \in users /\ t \notin minted
             /\ row'[t].user = u /\ row'[t].used = FALSE
             /\ \A x \in Token \ {t} : row'[x] # NoRow => row'[x] = row[x]
  <2>1. \A x \in Token :
          row'[x] = (CASE x = t -> [user |-> u, kind |-> k, used |-> FALSE, expired |-> FALSE]
                       [] x # t /\ Tokens!Superseded(x, u, k) -> NoRow
                       [] OTHER -> row[x])
    BY <1>3 DEF Tokens!Issue
  <2>2. row'[t] = [user |-> u, kind |-> k, used |-> FALSE, expired |-> FALSE]
    BY <2>1
  <2>3. \A x \in Token \ {t} : row'[x] # NoRow => row'[x] = row[x]
    BY <2>1
  <2>. QED
    BY <1>3, <2>2, <2>3 DEF Tokens!Issue
<1>4. ASSUME NEW c \in Req, Tokens!Burn(c)
      PROVE  /\ UNCHANGED <<users, minted>> /\ call[c] \in Token /\ row[call[c]] # NoRow
             /\ row' = [row EXCEPT ![call[c]].used = TRUE]
  BY <1>4 DEF Tokens!Burn, Tokens!Burns, Tokens!Unused
<1>5. ASSUME NEW t \in Token, Tokens!Expire(t)
      PROVE  /\ UNCHANGED <<users, minted>> /\ row[t] # NoRow /\ row' = [row EXCEPT ![t].expired = TRUE]
  BY <1>5 DEF Tokens!Expire
<1>6. ASSUME \/ \E c \in Req, t \in Token, k \in Kind : Tokens!Lookup(c, t, k)
             \/ \E c \in Req : Tokens!BurnMisses(c)
             \/ UNCHANGED tokenVars
      PROVE  UNCHANGED <<users, row, minted>>
  BY <1>6 DEF Tokens!Lookup, Tokens!BurnMisses, tokenVars
<1>7. ASSUME NEW c \in Req, Tokens!Burn(c)
      PROVE  /\ UNCHANGED <<users, minted>>
             /\ \A t \in Token : row'[t] # NoRow => /\ row[t] # NoRow /\ row'[t].user = row[t].user
                                                    /\ row'[t].kind = row[t].kind
                                                    /\ row[t].used => row'[t].used
  <2>1. row[call[c]] \in Tokens!Row /\ call[c] \in Token
    BY <1>4, <1>7
  <2>2. /\ row'[call[c]] = [row[call[c]] EXCEPT !.used = TRUE]
        /\ \A t \in Token \ {call[c]} : row'[t] = row[t]
    BY <1>4, <1>7, <2>1
  <2>3. /\ row'[call[c]].user = row[call[c]].user /\ row'[call[c]].kind = row[call[c]].kind
        /\ row'[call[c]].used = TRUE
    BY <2>1, <2>2 DEF Tokens!Row
  <2>. QED
    BY <1>4, <1>7, <2>2, <2>3
<1>8. ASSUME NEW t \in Token, Tokens!Expire(t)
      PROVE  /\ UNCHANGED <<users, minted>>
             /\ \A x \in Token : row'[x] # NoRow => /\ row[x] # NoRow /\ row'[x].user = row[x].user
                                                    /\ row'[x].kind = row[x].kind
                                                    /\ row[x].used => row'[x].used
  <2>1. row[t] \in Tokens!Row
    BY <1>5, <1>8
  <2>2. /\ row'[t] = [row[t] EXCEPT !.expired = TRUE] /\ \A x \in Token \ {t} : row'[x] = row[x]
    BY <1>5, <1>8, <2>1
  <2>3. row'[t].user = row[t].user /\ row'[t].kind = row[t].kind /\ row'[t].used = row[t].used
    BY <2>1, <2>2 DEF Tokens!Row
  <2>. QED
    BY <1>5, <1>8, <2>2, <2>3
<1>. DEFINE Kept == \A t \in Token : row'[t] # NoRow =>
                      /\ row[t] # NoRow /\ row'[t].user = row[t].user /\ row'[t].kind = row[t].kind
                      /\ row[t].used => row'[t].used
                      /\ row[t].user \in users'
<1>9. ASSUME NEW u \in User, Tokens!AddUser(u) PROVE Kept /\ minted' = minted
  BY <1>1, <1>9 DEF RowsOwned
<1>10. ASSUME NEW u \in User, Tokens!RemoveUser(u) PROVE Kept /\ minted' = minted
  BY <1>2, <1>10 DEF RowsOwned
<1>11. ASSUME NEW c \in Req, Tokens!Burn(c) PROVE Kept /\ minted' = minted
  BY <1>7, <1>11 DEF RowsOwned
<1>12. ASSUME NEW t \in Token, Tokens!Expire(t) PROVE Kept /\ minted' = minted
  BY <1>8, <1>12 DEF RowsOwned
<1>13. ASSUME UNCHANGED <<users, row, minted>> PROVE Kept /\ minted' = minted
  BY <1>13 DEF RowsOwned
<1>14. ASSUME NEW u \in User, NEW k \in Kind, NEW t \in Token, Tokens!Issue(u, k, t)
       PROVE  /\ minted \subseteq minted'
              /\ \A x \in Token : row'[x] # NoRow =>
                   \/ /\ row[x] # NoRow /\ row'[x].user = row[x].user /\ row'[x].kind = row[x].kind
                      /\ row[x].used => row'[x].used
                      /\ row[x].user \in users'
                   \/ x \notin minted /\ row'[x].user \in users' /\ row'[x].used = FALSE
  <2>1. /\ minted' = minted \cup {t} /\ users' = users /\ u \in users /\ t \notin minted
        /\ row'[t].user = u /\ row'[t].used = FALSE
        /\ \A x \in Token \ {t} : row'[x] # NoRow => row'[x] = row[x]
    BY <1>3, <1>14
  <2>2. ASSUME NEW x \in Token, x # t, row'[x] # NoRow
        PROVE  row'[x] = row[x] /\ row[x].user \in users'
    BY <2>1, <2>2 DEF RowsOwned
  <2>3. t \notin minted /\ row'[t].user \in users' /\ row'[t].used = FALSE
    BY <2>1
  <2>. QED
    BY <2>1, <2>2, <2>3
<1>. QED
  BY <1>6, <1>9, <1>10, <1>11, <1>12, <1>13, <1>14 DEF Tokens!Next

\* What the requests look up and burn.
LEMMA CallStep ==
  ASSUME TypeOK, [Next]_vars
  PROVE  \/ call' = call
         \/ \E r \in Req, t \in Token, k \in Kind : Present(r, t, k)
         \/ \E r \in Req : /\ TokenAccepted(r) \/ TokenRefused(r)
                           /\ call' = [call EXCEPT ![r] = NoCall]
                           /\ \E f : f.at # "burning" /\ req' = [req EXCEPT ![r] = f]
<1>1. ASSUME NEW r \in Req, TokenAccepted(r) \/ TokenRefused(r)
      PROVE  /\ call' = [call EXCEPT ![r] = NoCall]
             /\ \E f : f.at # "burning" /\ req' = [req EXCEPT ![r] = f]
  <2>1. call' = [call EXCEPT ![r] = NoCall]
    BY <1>1 DEF TokenAccepted, TokenRefused, Tokens!Burn, Tokens!BurnMisses
  <2>. DEFINE f == [at |-> IF req[r].kind = "verify" THEN "verified" ELSE "newhash", user |-> row[call[r]].user]
  <2>2. f.at # "burning" /\ Idle.at # "burning"
    BY DEF Idle
  <2>3. req' = [req EXCEPT ![r] = f] \/ req' = [req EXCEPT ![r] = Idle]
    BY <1>1 DEF TokenAccepted, TokenRefused, Goto
  <2>. QED
    BY <2>1, <2>2, <2>3
<1>2. ASSUME NEW r \in Req, Reads(r)
      PROVE  \/ call' = call
             \/ \E t \in Token, k \in Kind : Present(r, t, k)
             \/ TokenAccepted(r) \/ TokenRefused(r)
  BY <1>2 DEF Reads, LoginRead, RequestReset, Mail, BackupRead, TotpRead, BackupFind, RequireAuth,
     ReadUser, MailFails, BackupRefused, tokenVars, Tokens!Issue
<1>3. ASSUME \/ \E r \in Req, u \in User : Register(r, u)
             \/ \E r \in Req : BackupSpend(r) \/ CreateSession(r) \/ Logout(r) \/ LogoutAll(r) \/ DeleteAccount(r)
             \/ Tick \/ (\E i \in intents : ExpireIntent(i)) \/ (\E t \in Token : ExpireToken(t))
             \/ UNCHANGED vars \/ UNCHANGED tokenVars
      PROVE  call' = call
  BY <1>3 DEF Register, BackupSpend, CreateSession, Logout, LogoutAll, DeleteAccount, Tick, ExpireIntent,
     ExpireToken, vars, tokenVars, Tokens!AddUser, Tokens!RemoveUser, Tokens!Expire, Tokens!tokenVars
<1>. QED
  BY <1>1, <1>2, <1>3, Writers

-----------------------------------------------------------------------------
(* Every step preserves the invariant.                                     *)

\* Who appears was registered by that step.
LEMMA UsersStep ==
  ASSUME TypeOK, UsersRegistered, [Next]_vars
  PROVE  UsersRegistered'
<1>1. ASSUME NEW r \in Req, NEW u \in User, Register(r, u) PROVE UsersRegistered'
  <2>1. users' = users \cup {u}
    BY <1>1 DEF Register, Tokens!AddUser
  <2>2. account'[u] # NoAccount
    <3>1. 0 \in 0 .. MaxPassword /\ 0 \in 0 .. MaxSecret /\ 0 \in 0 .. MaxStep + 1 /\ 0 \in 0 .. MaxBatch
      BY Numbers
    <3>2. NewAccount \in Account
      BY <3>1, Numbers DEF NewAccount, Account
    <3>. QED
      BY <1>1, <3>2, Numbers DEF Register, TypeOK
  <2>. QED
    BY <2>1, <2>2, StaysRegistered DEF UsersRegistered, Registered, TypeOK, Tokens!TypeOK
<1>2. CASE users' \subseteq users
  BY <1>2, StaysRegistered DEF UsersRegistered, Registered, TypeOK, Tokens!TypeOK
<1>3. ASSUME \/ \E r \in Req : BackupSpend(r) \/ CreateSession(r) \/ Logout(r) \/ LogoutAll(r) \/ DeleteAccount(r)
             \/ Tick \/ (\E i \in intents : ExpireIntent(i)) \/ (\E t \in Token : ExpireToken(t))
             \/ UNCHANGED vars \/ UNCHANGED tokenVars
      PROVE  users' \subseteq users
  BY <1>3 DEF BackupSpend, CreateSession, Logout, LogoutAll, DeleteAccount, Tick, ExpireIntent,
     ExpireToken, vars, tokenVars, Tokens!RemoveUser, Tokens!Expire
<1>. QED
  BY <1>1, <1>2, <1>3, Writers

LEMMA BurnsStep ==
  ASSUME IInv, [Next]_vars
  PROVE  BurnsMatch'
<1>. USE DEF IInv
<1>1. SUFFICES ASSUME NEW x \in Req, At(x, "burning")'
               PROVE  call'[x] \in minted' /\ (row'[call'[x]] # NoRow => row'[call'[x]].kind = req'[x].kind)
  BY DEF BurnsMatch
<1>2. minted \subseteq minted' /\ minted \subseteq Token
  BY RowStep, StepOfTokens DEF TypeOK, Tokens!TypeOK
<1>3. ASSUME NEW t \in minted, row'[t] # NoRow PROVE row[t] # NoRow /\ row'[t].kind = row[t].kind
  BY <1>2, <1>3, RowStep, StepOfTokens
<1>4. ASSUME NEW t \in Token, NEW k \in Kind, Present(x, t, k)
      PROVE  call'[x] \in minted' /\ (row'[call'[x]] # NoRow => row'[call'[x]].kind = req'[x].kind)
  <2>1. /\ call'[x] = t /\ req'[x].kind = k /\ row' = row /\ minted' = minted
        /\ row[t] # NoRow /\ row[t].kind = k
    BY <1>4 DEF Present, Goto, Tokens!Lookup, Tokens!Valid, Tokens!Unused, TypeOK, Tokens!TypeOK
  <2>2. t \in minted
    BY <2>1 DEF P!IInv, P!FreshTokens
  <2>. QED
    BY <2>1, <2>2
<1>5. CASE \A t \in Token, k \in Kind : ~Present(x, t, k)
  <2>1. req'[x] = req[x]
    <3>1. ASSUME NEW r \in Req, Moves(r), r = x PROVE FALSE
      <4>1. PICK f \in Frame : req' = [req EXCEPT ![r] = f] /\ Carries(r, f)
        BY <3>1 DEF Moves
      <4>2. f.at = "burning"
        BY <1>1, <3>1, <4>1 DEF At, TypeOK
      <4>3. f.kind \in Kind
        BY <4>2 DEF Frame, Idle
      <4>. QED
        BY <1>5, <3>1, <4>1, <4>2, <4>3 DEF Carries
    <3>2. ASSUME NEW r \in Req, Moves(r), r # x PROVE req'[x] = req[x]
      BY <3>2 DEF Moves, TypeOK
    <3>. QED
      BY <3>1, <3>2, EveryMove
  <2>2. call'[x] = call[x]
    <3>1. ASSUME NEW r \in Req, NEW t \in Token, NEW k \in Kind, Present(r, t, k) PROVE call'[x] = call[x]
      BY <1>5, <3>1 DEF Present, Tokens!Lookup, TypeOK, Tokens!TypeOK
    <3>2. ASSUME NEW r \in Req, call' = [call EXCEPT ![r] = NoCall],
                 \E f : f.at # "burning" /\ req' = [req EXCEPT ![r] = f]
          PROVE  call'[x] = call[x]
      BY <1>1, <3>2 DEF At, TypeOK, Tokens!TypeOK
    <3>. QED
      BY <3>1, <3>2, CallStep
  <2>3. At(x, "burning") /\ call[x] \in minted /\ (row[call[x]] # NoRow => row[call[x]].kind = req[x].kind)
    BY <1>1, <2>1 DEF At, BurnsMatch
  <2>. QED
    BY <1>2, <1>3, <2>1, <2>2, <2>3
<1>. QED
  BY <1>4, <1>5

\* Every step preserves the invariant.
LEMMA NextInv == IInv /\ [Next]_vars => IInv'
<1>. SUFFICES ASSUME IInv, [Next]_vars PROVE IInv'
  OBVIOUS
<1>. USE DEF IInv
<1>1. P!IInv'
  BY P!NextInv, SameTokens, StepOfTokens
<1>2. Tokens!TypeOK'
  BY <1>1 DEF P!IInv, P!TypeOK, Tokens!TypeOK, P!Row, Tokens!Row
<1>3. req' \in [Req -> Frame]
  BY EveryMove DEF Moves, TypeOK
<1>4. TypeOK'
  BY <1>2, <1>3, AccountType, SessionsType, FactorsType DEF TypeOK
<1>5. FramesRegistered'
  <2>1. ASSUME NEW x \in Req, ~At(x, "idle")', ~At(x, "burning")'
        PROVE  account'[req'[x].user] # NoAccount
    <3>1. CASE req'[x] = req[x]
      <4>1. Registered(req[x].user) /\ req[x].user \in User
        BY <2>1, <3>1, FrameFields DEF FramesRegistered, At
      <4>. QED
        BY <3>1, <4>1, StaysRegistered
    <3>2. ASSUME NEW r \in Req, Moves(r), req'[x] # req[x] PROVE account'[req'[x].user] # NoAccount
      BY <2>1, <3>2 DEF Moves, Carries, At, TypeOK
    <3>. QED
      BY <3>1, <3>2, EveryMove
  <2>. QED
    BY <2>1 DEF FramesRegistered, Registered
<1>6. SessionsRegistered'
  <2>1. ASSUME NEW s \in sessions' PROVE s.user \in User /\ Registered(s.user)
    <3>1. \A z \in sessions : z \in Session /\ z.user \in User /\ Registered(z.user)
      BY DEF TypeOK, Session, SessionsRegistered
    <3>2. ASSUME NEW S \in SUBSET sessions, Revoke(S) PROVE s.user \in User /\ Registered(s.user)
      <4>1. PICK z \in sessions : s = z \/ s = [z EXCEPT !.live = FALSE]
        BY <2>1, <3>2, Revoked
      <4>2. s.user = z.user
        BY <3>1, <4>1 DEF Session
      <4>. QED
        BY <3>1, <4>2
    <3>3. ASSUME NEW r \in Req, CreateSession(r), req[r].user \in users
          PROVE  s.user \in User /\ Registered(s.user)
      BY <2>1, <3>1, <3>3 DEF CreateSession, UsersRegistered, TypeOK, Tokens!TypeOK
    <3>. QED
      BY <2>1, <3>1, <3>2, <3>3, SessionsStep
  <2>. QED
    BY <2>1, StaysRegistered DEF SessionsRegistered, Registered
<1>7. RowsOwned'
  BY RowStep, StepOfTokens DEF RowsOwned
<1>. QED
  BY <1>1, <1>4, <1>5, <1>6, <1>7, UsersStep, BurnsStep, RoomStep

\* The inductive invariant holds in every reachable state.
THEOREM Invariance == Spec => []IInv
BY InitInv, NextInv, PTL DEF Spec

\* The variables keep their types, whatever the requests interleave: no session
\* gets a number out of its range, and every frame is about a user.
THEOREM TypeCorrect == Spec => []TypeOK
BY Invariance, PTL DEF IInv

\* The e-mail tokens are one-shot under the handlers that use them: whatever
\* requests interleave, each is accepted in one indivisible step, at most once,
\* while it is the newest of its account and purpose.
THEOREM KeepsTokenPromise == Spec => TokensAreOneShot
<1>1. Init => Tokens!OneShot!Init
  BY DEF Init, Tokens!TokensInit, Tokens!OneShot!Init, Tokens!UsableToken
<1>2. IInv /\ [Next]_vars => [Tokens!OneShot!Next]_Tokens!OneShot!vars
  <2>. SUFFICES ASSUME IInv, [Next]_vars PROVE [Tokens!OneShot!Next]_Tokens!OneShot!vars
    OBVIOUS
  <2>1. [P!OneShot!Next]_P!OneShot!vars
    BY P!StepImplements, SameTokens, StepOfTokens DEF IInv
  <2>2. Tokens!UsableToken = P!UsableToken /\ Tokens!UsableToken' = P!UsableToken'
    BY DEF Tokens!UsableToken, P!UsableToken, Tokens!Unused, P!Unused
  <2>3. P!OneShot!Next => Tokens!OneShot!Next
    BY <2>2 DEF P!OneShot!Next, Tokens!OneShot!Next, P!OneShot!Issue, Tokens!OneShot!Issue, P!OneShot!Accept,
       Tokens!OneShot!Accept, P!OneShot!Withdraw, Tokens!OneShot!Withdraw
  <2>4. UNCHANGED P!OneShot!vars => UNCHANGED Tokens!OneShot!vars
    BY <2>2 DEF P!OneShot!vars, Tokens!OneShot!vars
  <2>. QED
    BY <2>1, <2>3, <2>4
<1>3. Spec => Tokens!OneShot!Init /\ [][Tokens!OneShot!Next]_Tokens!OneShot!vars
  BY <1>1, <1>2, Invariance, PTL DEF Spec
<1>. QED
  BY <1>3 DEF TokensAreOneShot, Tokens!OneShotSpec, Tokens!OneShot!Spec

-----------------------------------------------------------------------------
(* The backup codes.                                                       *)

\* Who is deleted has no codes.
CodesWithdrawn == \A u \in User \ users : codes[u] = {}

\* What the factor f of user u, in a session or about to be in one, says of the
\* codes: a code is of a batch that was issued, and if that is still the current
\* one, the code is there and marked.
Holds(u, f) ==
  f[1] = "code" =>
    /\ f[2][1] <= account[u].batch
    /\ u \in users /\ f[2][1] = account[u].batch => [code |-> f[2], used |-> TRUE] \in codes[u]

SessionsHold == \A s \in sessions : Holds(s.user, s.factor)
FramesHold == \A r \in Req : At(r, "session") => Holds(req[r].user, req[r].factor)

\* CodeSessionsSpentTheirCode speaks of the sessions, which come from frames that
\* wait for session.create; nothing refers to a batch that is still to come.
CodesInv == IInv /\ CodesWithdrawn /\ OnlyLastBatchSpendable /\ SessionsHold /\ FramesHold

LEMMA CodeFactor ==
  ASSUME NEW f \in Factor, f[1] = "code"
  PROVE  f[2] \in Code /\ f[2][1] \in Nat
<1>1. CASE f = <<"password">>
  BY <1>1
<1>2. CASE f \in {"totp"} \X (1 .. MaxSecret) \X (1 .. MaxStep + 1)
  BY <1>2
<1>3. CASE f \in {"code"} \X Code
  BY <1>3 DEF Code
<1>. QED
  BY <1>1, <1>2, <1>3 DEF Factor

\* Of whom it is known, only new codes change the number of the batch.
LEMMA BatchStep ==
  ASSUME TypeOK, UsersRegistered, [Next]_vars, NEW u \in User, Registered(u)
  PROVE  \/ account'[u].batch = account[u].batch
         \/ \E r \in Req : /\ IssueBackupCodes(r) /\ req[r].user = u /\ u \in users
                           /\ account'[u].batch = account[u].batch + 1
<1>1. ASSUME NEW r \in Req, Updates(r), req[r].user \in users,
             NEW b, RowOf(r, account[req[r].user], b), account' = [account EXCEPT ![req[r].user] = b]
      PROVE  \/ account'[u].batch = account[u].batch
             \/ /\ IssueBackupCodes(r) /\ req[r].user = u /\ u \in users
                /\ account'[u].batch = account[u].batch + 1
  <2>1. At(r, "codes") => IssueBackupCodes(r)
    BY <1>1 DEF Updates, At, TotpStamp, PutWrappedKey, StageSecret, EnableTotp, DisableTotp, MarkVerified,
       ResetPassword
  <2>. QED
    BY <1>1, <2>1 DEF RowOf, TypeOK
<1>2. ASSUME NEW r \in Req, NEW v \in User, Register(r, v) PROVE account'[u] = account[u]
  BY <1>2 DEF Register, Registered, TypeOK
<1>3. ASSUME \/ \E r \in Req : BackupSpend(r) \/ CreateSession(r) \/ Logout(r) \/ LogoutAll(r) \/ DeleteAccount(r)
             \/ Tick \/ (\E i \in intents : ExpireIntent(i)) \/ (\E t \in Token : ExpireToken(t))
             \/ UNCHANGED vars
      PROVE  account' = account
  BY <1>3 DEF BackupSpend, CreateSession, Logout, LogoutAll, DeleteAccount, Tick, ExpireIntent, ExpireToken, vars
<1>. QED
  BY <1>1, <1>2, <1>3, Writers, UpdatedRow

\* New codes are of the next batch.
LEMMA IssueStep ==
  ASSUME TypeOK, UsersRegistered, NEW r \in Req, IssueBackupCodes(r), NEW u \in users, req[r].user = u
  PROVE  /\ \A x \in codes'[u] : x.code[1] = account[u].batch + 1
         /\ account'[u].batch = account[u].batch + 1
         /\ users' = users
<1>1. u \in User /\ account[u] \in Account
  BY DEF TypeOK, Tokens!TypeOK, UsersRegistered, Registered
<1>2. codes'[u] = {[code |-> <<account[u].batch + 1, n>>, used |-> FALSE] : n \in 1 .. CodesPerBatch}
  BY <1>1 DEF IssueBackupCodes, TypeOK
<1>3. account'[u] = [account[u] EXCEPT !.batch = account[u].batch + 1] /\ users' = users
  BY <1>1 DEF IssueBackupCodes, UpdateUser, TypeOK, tokenVars
<1>. QED
  BY <1>1, <1>2, <1>3 DEF Account

\* The codes of u stay, are replaced by a new batch, are withdrawn, or one of
\* them is marked.
LEMMA CodesStep ==
  ASSUME TypeOK, UsersRegistered, [Next]_vars, NEW u \in User
  PROVE  \/ codes'[u] = codes[u] /\ (u \in users => u \in users')
         \/ codes'[u] = {} /\ u \notin users'
         \/ \E r \in Req : /\ IssueBackupCodes(r) /\ req[r].user = u /\ u \in users
                           /\ \A x \in codes'[u] : x.code[1] = account[u].batch + 1
                           /\ account'[u].batch = account[u].batch + 1
                           /\ users' = users
         \/ \E c \in Code : /\ \E x \in codes[u] : x.code = c
                            /\ codes'[u] = {x \in codes[u] : x.code # c} \cup {[code |-> c, used |-> TRUE]}
                            /\ account' = account /\ users' = users
<1>1. ASSUME NEW r \in Req, IssueBackupCodes(r), req[r].user = u, u \in users
      PROVE  /\ \A x \in codes'[u] : x.code[1] = account[u].batch + 1
             /\ account'[u].batch = account[u].batch + 1
             /\ users' = users
  BY <1>1, IssueStep
<1>2. ASSUME NEW r \in Req, IssueBackupCodes(r), ~(req[r].user = u /\ u \in users)
      PROVE  codes'[u] = codes[u] /\ users' = users
  BY <1>2 DEF IssueBackupCodes, tokenVars, TypeOK
<1>3. ASSUME NEW r \in Req, BackupSpend(r)
      PROVE  \/ codes'[u] = codes[u] /\ users' = users
             \/ \E c \in Code : /\ \E x \in codes[u] : x.code = c
                                /\ codes'[u] = {x \in codes[u] : x.code # c} \cup {[code |-> c, used |-> TRUE]}
                                /\ account' = account /\ users' = users
  <2>. DEFINE c == req[r].code
              found == {x \in codes[req[r].user] : x.code = c}
  <2>1. c \in Code /\ users' = users /\ account' = account
    BY <1>3, FrameFields DEF BackupSpend, At, tokenVars
  <2>2. CASE req[r].user = u /\ found # {}
    <3>1. codes'[u] = (codes[u] \ found) \cup {[code |-> c, used |-> TRUE]}
      BY <1>3, <2>2 DEF BackupSpend, TypeOK
    <3>2. codes[u] \ found = {x \in codes[u] : x.code # c}
      BY <2>2
    <3>. QED
      BY <2>1, <2>2, <3>1, <3>2
  <2>3. CASE ~(req[r].user = u /\ found # {})
    BY <1>3, <2>1, <2>3 DEF BackupSpend, TypeOK
  <2>. QED
    BY <2>2, <2>3
<1>4. ASSUME NEW r \in Req, DeleteAccount(r)
      PROVE  \/ codes'[u] = codes[u] /\ (u \in users => u \in users')
             \/ codes'[u] = {} /\ u \notin users'
  BY <1>4 DEF DeleteAccount, Tokens!RemoveUser, tokenVars, TypeOK
<1>5. ASSUME \/ \E r \in Req, v \in User : Register(r, v)
             \/ \E r \in Req : CreateSession(r) \/ Logout(r) \/ LogoutAll(r)
             \/ Tick \/ (\E i \in intents : ExpireIntent(i)) \/ (\E t \in Token : ExpireToken(t))
             \/ UNCHANGED vars
      PROVE  UNCHANGED codes /\ users \subseteq users'
  BY <1>5 DEF Register, CreateSession, Logout, LogoutAll, Tick, ExpireIntent, ExpireToken, vars, factorVars,
     tokenVars, Tokens!AddUser, Tokens!Expire
<1>6. ASSUME UNCHANGED codes, users \subseteq users'
      PROVE  codes'[u] = codes[u] /\ (u \in users => u \in users')
  BY <1>6
<1>7. ASSUME UNCHANGED tokenVars PROVE users' = users
  BY <1>7 DEF tokenVars
<1>. QED
  BY <1>1, <1>2, <1>3, <1>4, <1>5, <1>6, <1>7, Writers

\* Who appears was not registered before.
LEMMA NewUsers ==
  ASSUME [Next]_vars, NEW u \in users', u \notin users
  PROVE  ~Registered(u) /\ UNCHANGED codes
<1>1. ASSUME NEW r \in Req, NEW v \in User, Register(r, v) PROVE ~Registered(u) /\ UNCHANGED codes
  BY <1>1 DEF Register, Registered, Tokens!AddUser, factorVars
<1>2. ASSUME \/ \E r \in Req : BackupSpend(r) \/ CreateSession(r) \/ Logout(r) \/ LogoutAll(r) \/ DeleteAccount(r)
             \/ Tick \/ (\E i \in intents : ExpireIntent(i)) \/ (\E t \in Token : ExpireToken(t))
             \/ UNCHANGED vars \/ UNCHANGED tokenVars \/ users' = users
      PROVE  users' \subseteq users
  BY <1>2 DEF BackupSpend, CreateSession, Logout, LogoutAll, DeleteAccount, Tick, ExpireIntent,
     ExpireToken, vars, tokenVars, Tokens!RemoveUser, Tokens!Expire
<1>. QED
  BY <1>1, <1>2, Writers

\* What a factor says of the codes stays true: the batch only grows, and a mark
\* is taken back only with the whole batch.
LEMMA HoldsKept ==
  ASSUME IInv, [Next]_vars, NEW u \in User, NEW f \in Factor, Registered(u), Holds(u, f)
  PROVE  Holds(u, f)'
<1>. USE DEF IInv
<1>. SUFFICES ASSUME f[1] = "code"
              PROVE  /\ f[2][1] <= account'[u].batch
                     /\ u \in users' /\ f[2][1] = account'[u].batch =>
                          [code |-> f[2], used |-> TRUE] \in codes'[u]
  BY DEF Holds
<1>1. account[u].batch \in Nat /\ f[2][1] \in Nat /\ f[2][1] <= account[u].batch
  BY CodeFactor DEF TypeOK, Registered, Account, Holds
<1>2. f[2][1] <= account'[u].batch
  BY <1>1, BatchStep
<1>3. ASSUME u \in users', f[2][1] = account'[u].batch
      PROVE  [code |-> f[2], used |-> TRUE] \in codes'[u]
  <2>. DEFINE e == [code |-> f[2], used |-> TRUE]
  <2>1. u \in users
    BY <1>3, NewUsers
  <2>2. account'[u].batch = account[u].batch
    BY <1>1, <1>3, BatchStep
  <2>3. e \in codes[u]
    BY <1>3, <2>1, <2>2 DEF Holds
  <2>4. CASE \E r \in Req : /\ IssueBackupCodes(r) /\ req[r].user = u /\ u \in users
                            /\ account'[u].batch = account[u].batch + 1
    BY <1>1, <2>2, <2>4
  <2>5. ASSUME NEW c \in Code, codes'[u] = {x \in codes[u] : x.code # c} \cup {[code |-> c, used |-> TRUE]}
        PROVE  e \in codes'[u]
    <3>1. CASE f[2] = c
      BY <2>5, <3>1
    <3>2. CASE f[2] # c
      BY <2>3, <2>5, <3>2
    <3>. QED
      BY <3>1, <3>2
  <2>. QED
    BY <1>3, <2>3, <2>4, <2>5, CodesStep
<1>. QED
  BY <1>2, <1>3

\* The frame that consumeBackupCode goes on with.
LEMMA SpendHolds ==
  ASSUME IInv, CodesWithdrawn, OnlyLastBatchSpendable, NEW r \in Req, BackupSpend(r), At(r, "session")'
  PROVE  Holds(req[r].user, req[r].factor)'
<1>. USE DEF IInv
<1>. DEFINE u == req[r].user
            c == req[r].code
            found == {b \in codes[u] : b.code = c}
<1>1. u \in User /\ c \in Code
  BY FrameFields DEF BackupSpend, At
<1>2. found # {}
  BY DEF BackupSpend, At, Goto, Idle, TypeOK
<1>3. /\ codes' = [codes EXCEPT ![u] = (codes[u] \ found) \cup {[code |-> c, used |-> TRUE]}]
      /\ req' = [req EXCEPT ![r] = [at |-> "session", user |-> u, password |-> req[r].password,
                                    factor |-> <<"code", c>>]]
      /\ account' = account
  BY <1>2 DEF BackupSpend, Goto
<1>4. req'[r].user = u /\ req'[r].factor = <<"code", c>>
  BY <1>3 DEF TypeOK
<1>5. [code |-> c, used |-> TRUE] \in codes'[u]
  BY <1>1, <1>3 DEF TypeOK
<1>6. u \in users
  BY <1>1, <1>2 DEF CodesWithdrawn
<1>7. c[1] = account[u].batch
  BY <1>2, <1>6 DEF OnlyLastBatchSpendable
<1>8. account[u].batch \in Nat
  BY <1>1, <1>6 DEF UsersRegistered, Registered, TypeOK, Account
<1>9. req'[r].factor[2] = c
  BY <1>4
<1>10. c[1] <= account'[u].batch
  BY <1>3, <1>7, <1>8
<1>. QED
  BY <1>4, <1>5, <1>9, <1>10 DEF Holds

LEMMA CodesInvStep == CodesInv /\ [Next]_vars => CodesInv'
<1>. SUFFICES ASSUME CodesInv, [Next]_vars PROVE CodesInv'
  OBVIOUS
<1>. USE DEF CodesInv
<1>0. TypeOK /\ UsersRegistered /\ IInv /\ IInv'
  BY NextInv DEF IInv
<1>1. CodesWithdrawn'
  <2>1. ASSUME NEW u \in User, u \notin users' PROVE codes'[u] = {}
    <3>1. CASE u \in users
      BY <1>0, <2>1, <3>1, CodesStep
    <3>2. CASE u \notin users
      <4>1. codes[u] = {}
        BY <3>2 DEF CodesWithdrawn
      <4>. QED
        BY <1>0, <3>2, <4>1, CodesStep
    <3>. QED
      BY <3>1, <3>2
  <2>. QED
    BY <2>1 DEF CodesWithdrawn
<1>2. OnlyLastBatchSpendable'
  <2>1. ASSUME NEW u \in users', NEW x \in codes'[u] PROVE x.code[1] = account'[u].batch
    <3>1. u \in User
      BY <1>0 DEF IInv, TypeOK, Tokens!TypeOK
    <3>2. u \in users
      BY <2>1, <3>1, NewUsers DEF CodesWithdrawn
    <3>3. Registered(u) /\ \A y \in codes[u] : y.code[1] = account[u].batch
      BY <1>0, <3>2 DEF UsersRegistered, OnlyLastBatchSpendable
    <3>4. CASE \E r \in Req : IssueBackupCodes(r) /\ req[r].user = u
      BY <1>0, <2>1, <3>2, <3>4, IssueStep
    <3>5. CASE ~\E r \in Req : IssueBackupCodes(r) /\ req[r].user = u
      <4>1. account'[u].batch = account[u].batch
        BY <1>0, <3>1, <3>3, <3>5, BatchStep
      <4>2. CASE codes'[u] = codes[u]
        BY <2>1, <3>3, <4>1, <4>2
      <4>3. ASSUME NEW c \in Code, \E y \in codes[u] : y.code = c,
                   codes'[u] = {y \in codes[u] : y.code # c} \cup {[code |-> c, used |-> TRUE]}
            PROVE  x.code[1] = account'[u].batch
        BY <2>1, <3>3, <4>1, <4>3
      <4>. QED
        BY <1>0, <2>1, <3>1, <3>5, <4>2, <4>3, CodesStep
    <3>. QED
      BY <3>4, <3>5
  <2>. QED
    BY <2>1 DEF OnlyLastBatchSpendable
<1>3. SessionsHold'
  <2>1. ASSUME NEW s \in sessions' PROVE Holds(s.user, s.factor)'
    <3>1. ASSUME NEW z \in sessions, s.user = z.user, s.factor = z.factor PROVE Holds(s.user, s.factor)'
      <4>1. z.user \in User /\ z.factor \in Factor /\ Registered(z.user) /\ Holds(z.user, z.factor)
        BY <1>0 DEF IInv, TypeOK, Session, SessionsRegistered, SessionsHold
      <4>. QED
        BY <1>0, <3>1, <4>1, HoldsKept
    <3>2. ASSUME NEW S \in SUBSET sessions, Revoke(S) PROVE Holds(s.user, s.factor)'
      <4>1. PICK z \in sessions : s = z \/ s = [z EXCEPT !.live = FALSE]
        BY <2>1, <3>2, Revoked
      <4>2. s.user = z.user /\ s.factor = z.factor
        BY <1>0, <4>1 DEF TypeOK, Session
      <4>. QED
        BY <3>1, <4>2
    <3>3. ASSUME NEW r \in Req, CreateSession(r), s \notin sessions PROVE Holds(s.user, s.factor)'
      <4>1. s.user = req[r].user /\ s.factor = req[r].factor /\ At(r, "session")
        BY <2>1, <3>3 DEF CreateSession
      <4>2. /\ req[r].user \in User /\ req[r].factor \in Factor
            /\ Registered(req[r].user) /\ Holds(req[r].user, req[r].factor)
        BY <1>0, <4>1, FrameFields DEF At, IInv, FramesRegistered, FramesHold
      <4>. QED
        BY <1>0, <4>1, <4>2, HoldsKept
    <3>. QED
      BY <2>1, <3>1, <3>2, <3>3, SessionsStep
  <2>. QED
    BY <2>1 DEF SessionsHold
<1>4. FramesHold'
  <2>1. ASSUME NEW x \in Req, At(x, "session")' PROVE Holds(req[x].user, req[x].factor)'
    <3>1. CASE req'[x] = req[x]
      <4>1. PICK u, f : u = req[x].user /\ f = req[x].factor
        OBVIOUS
      <4>2. u \in User /\ f \in Factor /\ Registered(u) /\ Holds(u, f)
        BY <1>0, <2>1, <3>1, <4>1, FrameFields DEF At, IInv, FramesRegistered, FramesHold
      <4>3. Holds(u, f)'
        BY <1>0, <4>2, HoldsKept
      <4>. QED
        BY <3>1, <4>1, <4>3 DEF Holds
    <3>2. ASSUME NEW r \in Req, Moves(r), req'[x] # req[x] PROVE Holds(req[x].user, req[x].factor)'
      <4>1. PICK f \in Frame : req' = [req EXCEPT ![r] = f] /\ Carries(r, f)
        BY <3>2 DEF Moves
      <4>2. r = x /\ req'[x] = f /\ f.at = "session"
        BY <1>0, <2>1, <3>2, <4>1 DEF TypeOK, At
      <4>3. CASE BackupSpend(r)
        BY <1>0, <2>1, <4>2, <4>3, SpendHolds
      <4>4. CASE f.factor[1] # "code"
        BY <4>2, <4>4 DEF Holds
      <4>. QED
        BY <4>1, <4>2, <4>3, <4>4 DEF Carries
    <3>. QED
      BY <1>0, <3>1, <3>2, EveryMove DEF IInv
  <2>. QED
    BY <2>1 DEF FramesHold
<1>. QED
  BY <1>0, <1>1, <1>2, <1>3, <1>4

LEMMA CodesInitInv == Init => CodesInv
BY InitInv DEF Init, CodesInv, CodesWithdrawn, OnlyLastBatchSpendable, SessionsHold, FramesHold, At, Idle

\* What can be spent is the batch that was shown last, also when requests that
\* issue codes overlap with each other, with logins and with deletions.
THEOREM CodesCorrect == Spec => []OnlyLastBatchSpendable
BY CodesInitInv, CodesInvStep, PTL DEF Spec, CodesInv

\* A session that was opened with a backup code of the current batch found the
\* code spent, and nothing gives it back.
THEOREM SpentCorrect == Spec => []CodeSessionsSpentTheirCode
<1>1. CodesInv => CodeSessionsSpentTheirCode
  BY DEF CodesInv, SessionsHold, Holds, CodeSessionsSpentTheirCode
<1>. QED
  BY <1>1, CodesInitInv, CodesInvStep, PTL DEF Spec

-----------------------------------------------------------------------------
(* What a password costs.                                                  *)

\* The requests about to set a password of u, and the reset tokens of u that
\* were accepted.
Resetting(u) == {r \in Req : req[r].at = "newhash" /\ req[r].user = u}
UsedReset(t, u) == row[t] # NoRow /\ row[t].user = u /\ row[t].kind = "reset" /\ row[t].used
UsedResets(u) == {t \in Token : UsedReset(t, u)}

\* The count needs the sets it counts to be finite, which Req and Token need not
\* be: each step adds one member.
ResetsInv == IInv /\ PasswordChangesSpendTokens /\ \A u \in users : IsFiniteSet(UsedResets(u))

\* The rows of who stays are the same for it, unless one is burned.
LEMMA UsedKept ==
  ASSUME IInv, [Tokens!Next]_tokenVars, \A c \in Req : ~Tokens!Burn(c), NEW u \in users'
  PROVE  UsedResets(u)' = UsedResets(u)
<1>. USE DEF IInv, TypeOK, Tokens!TypeOK
<1>. SUFFICES ASSUME NEW t \in Token PROVE UsedReset(t, u)' <=> UsedReset(t, u)
  BY DEF UsedResets
<1>1. ASSUME NEW v \in User, Tokens!RemoveUser(v) PROVE UsedReset(t, u)' <=> UsedReset(t, u)
  <2>1. /\ v # u
        /\ row'[t] = IF row[t] # NoRow /\ row[t].user = v THEN NoRow ELSE row[t]
    BY <1>1 DEF Tokens!RemoveUser
  <2>. QED
    BY <2>1 DEF UsedReset
<1>2. ASSUME NEW v \in User, NEW k \in Kind, NEW n \in Token, Tokens!Issue(v, k, n)
      PROVE  UsedReset(t, u)' <=> UsedReset(t, u)
  <2>1. row'[t] = (CASE t = n -> [user |-> v, kind |-> k, used |-> FALSE, expired |-> FALSE]
                     [] t # n /\ Tokens!Superseded(t, v, k) -> NoRow
                     [] OTHER -> row[t])
    BY <1>2 DEF Tokens!Issue
  <2>2. CASE t = n
    <3>1. row[t] = NoRow
      BY <1>2, <2>2 DEF Tokens!Issue, IInv, P!IInv, P!FreshTokens
    <3>2. row'[t] = [user |-> v, kind |-> k, used |-> FALSE, expired |-> FALSE]
      BY <2>1, <2>2
    <3>3. row'[t].used = FALSE
      BY <3>2
    <3>. QED
      BY <3>1, <3>3 DEF UsedReset
  <2>3. CASE t # n /\ Tokens!Superseded(t, v, k)
    BY <2>1, <2>3 DEF UsedReset, Tokens!Superseded, Tokens!Unused
  <2>4. CASE t # n /\ ~Tokens!Superseded(t, v, k)
    BY <2>1, <2>4 DEF UsedReset
  <2>. QED
    BY <2>2, <2>3, <2>4
<1>3. ASSUME NEW n \in Token, Tokens!Expire(n) PROVE UsedReset(t, u)' <=> UsedReset(t, u)
  <2>1. row[n] \in Tokens!Row /\ row' = [row EXCEPT ![n].expired = TRUE]
    BY <1>3 DEF Tokens!Expire
  <2>2. CASE t = n
    <3>1. row'[t] = [row[t] EXCEPT !.expired = TRUE] /\ row'[t] \in Tokens!Row
      BY <2>1, <2>2 DEF Tokens!Row
    <3>2. /\ row'[t].user = row[t].user /\ row'[t].kind = row[t].kind /\ row'[t].used = row[t].used
      BY <2>1, <2>2, <3>1 DEF Tokens!Row
    <3>. QED
      BY <1>3, <2>1, <2>2, <3>1, <3>2, AuthAssumption
      DEF UsedReset, AuthAssumption, Tokens!SentinelAssumption
  <2>3. CASE t # n
    BY <2>1, <2>3 DEF UsedReset
  <2>. QED
    BY <2>2, <2>3
<1>4. ASSUME \/ \E v \in User : Tokens!AddUser(v)
             \/ \E c \in Req, n \in Token, k \in Kind : Tokens!Lookup(c, n, k)
             \/ \E c \in Req : Tokens!BurnMisses(c)
             \/ UNCHANGED tokenVars
      PROVE  UsedReset(t, u)' <=> UsedReset(t, u)
  <2>1. row' = row
    BY <1>4 DEF Tokens!AddUser, Tokens!Lookup, Tokens!BurnMisses, tokenVars, Tokens!tokenVars
  <2>. QED
    BY <2>1 DEF UsedReset
<1>. QED
  BY <1>1, <1>2, <1>3, <1>4 DEF Tokens!Next

\* A burned row counts, if it is a reset's.
LEMMA UsedByBurn ==
  ASSUME TypeOK, NEW r \in Req, Tokens!Burn(r), NEW u \in User
  PROVE  /\ users' = users /\ call[r] \in Token /\ row[call[r]] # NoRow /\ call[r] \notin UsedResets(u)
         /\ UsedResets(u)' = IF row[call[r]].user = u /\ row[call[r]].kind = "reset"
                             THEN UsedResets(u) \cup {call[r]} ELSE UsedResets(u)
<1>. USE DEF TypeOK, Tokens!TypeOK
<1>1. /\ users' = users /\ row' = [row EXCEPT ![call[r]].used = TRUE]
      /\ call[r] \in Token /\ row[call[r]] # NoRow /\ ~row[call[r]].used
  BY DEF Tokens!Burn, Tokens!Burns, Tokens!Unused
<1>2. row[call[r]] \in Tokens!Row
  BY <1>1
<1>3. /\ row'[call[r]] = [row[call[r]] EXCEPT !.used = TRUE] /\ row'[call[r]] \in Tokens!Row
      /\ \A t \in Token : t # call[r] => row'[t] = row[t]
  BY <1>1, <1>2 DEF Tokens!Row
<1>4. /\ row'[call[r]].user = row[call[r]].user /\ row'[call[r]].kind = row[call[r]].kind
      /\ row'[call[r]].used = TRUE
  BY <1>2, <1>3 DEF Tokens!Row
<1>5. row'[call[r]] # NoRow
  BY <1>3, AuthAssumption DEF AuthAssumption, Tokens!SentinelAssumption
<1>6. \A t \in Token : t # call[r] => (UsedReset(t, u)' <=> UsedReset(t, u))
  BY <1>3 DEF UsedReset
<1>7. PICK n \in Token : n = call[r]
  BY <1>1
<1>8. UsedReset(n, u)' <=> (row[n].user = u /\ row[n].kind = "reset")
  BY <1>4, <1>5, <1>7 DEF UsedReset
<1>9. ~UsedReset(n, u)
  BY <1>1, <1>7 DEF UsedReset
<1>. QED
  BY <1>1, <1>6, <1>7, <1>8, <1>9 DEF UsedResets

\* A token is burned only by the request that accepts it.
LEMMA BurnedByAccepting ==
  ASSUME TypeOK, [Next]_vars, NEW c \in Req, Tokens!Burn(c)
  PROVE  TokenAccepted(c)
<1>1. call[c] # NoCall /\ call'[c] = NoCall /\ Tokens!Burns(c)
  BY DEF Tokens!Burn, TypeOK, Tokens!TypeOK
<1>2. ASSUME NEW r \in Req, NEW t \in Token, NEW k \in Kind, Present(r, t, k) PROVE FALSE
  <2>1. call[r] = NoCall /\ call' = [call EXCEPT ![r] = t]
    BY <1>2 DEF Present, Tokens!Lookup
  <2>. QED
    BY <1>1, <2>1 DEF TypeOK, Tokens!TypeOK
<1>3. ASSUME NEW r \in Req, call' = [call EXCEPT ![r] = NoCall] PROVE r = c
  BY <1>1, <1>3 DEF TypeOK, Tokens!TypeOK
<1>4. ~TokenRefused(c)
  BY <1>1 DEF TokenRefused, Tokens!BurnMisses
<1>. QED
  BY <1>1, <1>2, <1>3, <1>4, CallStep

\* A request about to set a password goes on by setting it.
LEMMA LeavesNewhash ==
  ASSUME TypeOK, [Next]_vars, NEW x \in Req, At(x, "newhash"), req'[x] # req[x]
  PROVE  ResetPassword(x)
<1>1. ASSUME NEW r \in Req, Updates(r) PROVE ResetPassword(x)
  <2>1. r = x
    BY <1>1 DEF Updates, TotpStamp, PutWrappedKey, StageSecret, EnableTotp, IssueBackupCodes, DisableTotp,
       MarkVerified, ResetPassword, UpdateUser, Goto, TypeOK
  <2>. QED
    BY <1>1, <2>1 DEF Updates, At, TotpStamp, PutWrappedKey, StageSecret, EnableTotp, IssueBackupCodes,
       DisableTotp, MarkVerified
<1>2. ASSUME NEW r \in Req, Reads(r) PROVE FALSE
  <2>1. (\E f : req' = [req EXCEPT ![r] = f]) \/ req' = req
    BY <1>2 DEF Reads, LoginRead, RequestReset, Mail, Present, BackupRead, TotpRead, BackupFind, RequireAuth,
       ReadUser, MailFails, BackupRefused, TokenAccepted, TokenRefused, Goto
  <2>2. r = x
    BY <2>1 DEF TypeOK
  <2>. QED
    BY <1>2, <2>2 DEF Reads, LoginRead, RequestReset, Mail, Present, BackupRead, TotpRead, BackupFind,
       RequireAuth, ReadUser, MailFails, BackupRefused, TokenAccepted, TokenRefused, At
<1>3. ASSUME NEW r \in Req, \/ \E u \in User : Register(r, u)
                            \/ BackupSpend(r) \/ CreateSession(r) \/ Logout(r) \/ LogoutAll(r) \/ DeleteAccount(r)
      PROVE  FALSE
  <2>1. r = x
    BY <1>3 DEF Register, BackupSpend, CreateSession, Logout, LogoutAll, DeleteAccount, Goto, TypeOK
  <2>. QED
    BY <1>3, <2>1 DEF Register, BackupSpend, CreateSession, Logout, LogoutAll, DeleteAccount, At
<1>4. ASSUME Tick \/ (\E i \in intents : ExpireIntent(i)) \/ (\E t \in Token : ExpireToken(t)) \/ UNCHANGED vars
      PROVE  FALSE
  BY <1>4 DEF Tick, ExpireIntent, ExpireToken, vars
<1>. QED
  BY <1>1, <1>2, <1>3, <1>4, Writers

\* Of whom it is known, only a reset changes the number of the password.
LEMMA PasswordStep ==
  ASSUME TypeOK, UsersRegistered, [Next]_vars, NEW u \in User, Registered(u)
  PROVE  \/ account'[u].password = account[u].password
         \/ \E r \in Req : /\ ResetPassword(r) /\ req[r].user = u /\ u \in users
                           /\ account'[u].password = account[u].password + 1
<1>1. ASSUME NEW r \in Req, Updates(r), req[r].user \in users,
             NEW b, RowOf(r, account[req[r].user], b), account' = [account EXCEPT ![req[r].user] = b]
      PROVE  \/ account'[u].password = account[u].password
             \/ /\ ResetPassword(r) /\ req[r].user = u /\ u \in users
                /\ account'[u].password = account[u].password + 1
  <2>1. At(r, "newhash") => ResetPassword(r)
    BY <1>1 DEF Updates, At, TotpStamp, PutWrappedKey, StageSecret, EnableTotp, DisableTotp, MarkVerified,
       IssueBackupCodes
  <2>. QED
    BY <1>1, <2>1 DEF RowOf, TypeOK
<1>2. ASSUME NEW r \in Req, NEW v \in User, Register(r, v) PROVE account'[u] = account[u]
  BY <1>2 DEF Register, Registered, TypeOK
<1>3. ASSUME \/ \E r \in Req : BackupSpend(r) \/ CreateSession(r) \/ Logout(r) \/ LogoutAll(r) \/ DeleteAccount(r)
             \/ Tick \/ (\E i \in intents : ExpireIntent(i)) \/ (\E t \in Token : ExpireToken(t))
             \/ UNCHANGED vars
      PROVE  account' = account
  BY <1>3 DEF BackupSpend, CreateSession, Logout, LogoutAll, DeleteAccount, Tick, ExpireIntent, ExpireToken, vars
<1>. QED
  BY <1>1, <1>2, <1>3, Writers, UpdatedRow

\* A step that accepts no token and sets no password changes neither side.
LEMMA OtherResets ==
  ASSUME IInv, [Next]_vars, \A r \in Req : ~TokenAccepted(r) /\ ~ResetPassword(r),
         NEW u \in users, u \in users'
  PROVE  /\ account'[u].password = account[u].password
         /\ Resetting(u)' = Resetting(u)
         /\ UsedResets(u)' = UsedResets(u)
<1>. USE DEF IInv
<1>1. u \in User /\ Registered(u)
  BY DEF TypeOK, Tokens!TypeOK, UsersRegistered
<1>2. account'[u].password = account[u].password
  BY <1>1, PasswordStep
<1>3. Resetting(u)' = Resetting(u)
  <2>1. ASSUME NEW x \in Req, req'[x] # req[x] PROVE req[x].at # "newhash" /\ req'[x].at # "newhash"
    <3>1. PICK r \in Req : Moves(r)
      BY <2>1, EveryMove
    <3>2. PICK f \in Frame : req' = [req EXCEPT ![r] = f] /\ Carries(r, f)
      BY <3>1 DEF Moves
    <3>3. r = x /\ req'[x] = f
      BY <2>1, <3>2 DEF TypeOK
    <3>4. f.at # "newhash"
      BY <3>2 DEF Carries
    <3>5. req[x].at # "newhash"
      BY <2>1, LeavesNewhash DEF At
    <3>. QED
      BY <3>3, <3>4, <3>5
  <2>. QED
    BY <2>1 DEF Resetting
<1>4. UsedResets(u)' = UsedResets(u)
  BY BurnedByAccepting, UsedKept, StepOfTokens
<1>. QED
  BY <1>2, <1>3, <1>4

\* The counts are of finite sets.
LEMMA CountsFinite ==
  ASSUME ResetsInv, NEW u \in users
  PROVE  /\ u \in User /\ Registered(u) /\ account[u].password \in Nat
         /\ IsFiniteSet(Resetting(u)) /\ Cardinality(Resetting(u)) \in Nat
         /\ IsFiniteSet(UsedResets(u)) /\ Cardinality(UsedResets(u)) \in Nat
         /\ account[u].password + Cardinality(Resetting(u)) = Cardinality(UsedResets(u))
<1>1. u \in User /\ Registered(u)
  BY DEF ResetsInv, IInv, TypeOK, Tokens!TypeOK, UsersRegistered
<1>2. account[u].password \in Nat
  BY <1>1 DEF ResetsInv, IInv, TypeOK, Registered, Account
<1>3. Resetting(u) \subseteq Suspended /\ IsFiniteSet(Suspended)
  BY DEF Resetting, Suspended, ResetsInv, IInv, RoomIsKept
<1>4. IsFiniteSet(Resetting(u)) /\ IsFiniteSet(UsedResets(u))
  BY <1>3, FS_Subset DEF ResetsInv
<1>5. account[u].password + Cardinality(Resetting(u)) = Cardinality(UsedResets(u))
  BY DEF ResetsInv, PasswordChangesSpendTokens, Resetting, UsedResets, UsedReset
<1>. QED
  BY <1>1, <1>2, <1>4, <1>5, FS_CardinalityType

\* What the step has to keep, for one user.
Balanced(u) ==
  /\ account[u].password + Cardinality(Resetting(u)) = Cardinality(UsedResets(u))
  /\ IsFiniteSet(UsedResets(u))

\* A token that is accepted brings one request that sets a password.
LEMMA AcceptedBalances ==
  ASSUME ResetsInv, [Next]_vars, NEW r \in Req, TokenAccepted(r), NEW u \in users, u \in users'
  PROVE  Balanced(u)'
<1>. USE DEF ResetsInv, IInv
<1>0. u \in User /\ Registered(u) /\ account' = account
  BY CountsFinite DEF TokenAccepted
<1>1. Tokens!Burn(r) /\ At(r, "burning")
  BY DEF TokenAccepted
<1>2. /\ row[call[r]] # NoRow /\ call[r] \notin UsedResets(u)
      /\ UsedResets(u)' = IF row[call[r]].user = u /\ row[call[r]].kind = "reset"
                          THEN UsedResets(u) \cup {call[r]} ELSE UsedResets(u)
  BY <1>0, <1>1, UsedByBurn
<1>3. row[call[r]].kind = req[r].kind /\ req[r].kind \in {"verify", "reset"}
  BY <1>1, <1>2, FrameFields DEF BurnsMatch, Kind
<1>4. CASE row[call[r]].user = u /\ row[call[r]].kind = "reset"
  <2>1. req' = [req EXCEPT ![r] = [at |-> "newhash", user |-> u]]
    BY <1>3, <1>4 DEF TokenAccepted, Goto
  <2>2. Resetting(u)' = Resetting(u) \cup {r} /\ r \notin Resetting(u)
    BY <1>1, <2>1 DEF Resetting, At, TypeOK
  <2>3. UsedResets(u)' = UsedResets(u) \cup {call[r]}
    BY <1>2, <1>4
  <2>4. /\ Cardinality(Resetting(u)') = Cardinality(Resetting(u)) + 1
        /\ Cardinality(UsedResets(u)') = Cardinality(UsedResets(u)) + 1
        /\ IsFiniteSet(UsedResets(u)')
    <3>1. IsFiniteSet(Resetting(u)) /\ IsFiniteSet(UsedResets(u))
      BY CountsFinite
    <3>2. Cardinality(Resetting(u) \cup {r}) = IF r \in Resetting(u) THEN Cardinality(Resetting(u))
                                               ELSE Cardinality(Resetting(u)) + 1
      BY <3>1, FS_AddElement, Zenon
    <3>3. /\ IsFiniteSet(UsedResets(u) \cup {call[r]})
          /\ Cardinality(UsedResets(u) \cup {call[r]}) =
               IF call[r] \in UsedResets(u) THEN Cardinality(UsedResets(u))
               ELSE Cardinality(UsedResets(u)) + 1
      BY <3>1, FS_AddElement, Zenon
    <3>. QED
      BY <1>2, <2>2, <2>3, <3>2, <3>3, Zenon
  <2>. QED
    BY <1>0, <2>4, CountsFinite DEF Balanced
<1>5. CASE ~(row[call[r]].user = u /\ row[call[r]].kind = "reset")
  <2>1. req' = [req EXCEPT ![r] = [at |-> IF req[r].kind = "verify" THEN "verified" ELSE "newhash",
                                   user |-> row[call[r]].user]]
    BY DEF TokenAccepted, Goto
  <2>2. Resetting(u)' = Resetting(u)
    BY <1>1, <1>3, <1>5, <2>1 DEF Resetting, At, TypeOK
  <2>3. UsedResets(u)' = UsedResets(u)
    BY <1>2, <1>5
  <2>. QED
    BY <1>0, <2>2, <2>3, CountsFinite DEF Balanced
<1>. QED
  BY <1>4, <1>5

\* A password that is set takes one such request away.
LEMMA SettingBalances ==
  ASSUME ResetsInv, [Next]_vars, NEW r \in Req, ResetPassword(r), NEW u \in users, u \in users'
  PROVE  Balanced(u)'
<1>. USE DEF ResetsInv, IInv
<1>0. u \in User /\ Registered(u) /\ UNCHANGED tokenVars /\ At(r, "newhash") /\ Goto(r, Idle)
  BY CountsFinite DEF ResetPassword, UpdateUser
<1>1. UsedResets(u)' = UsedResets(u)
  BY <1>0 DEF UsedResets, UsedReset, tokenVars
<1>2. CASE req[r].user = u
  <2>1. account'[u] = [account[u] EXCEPT !.password = @ + 1, !.verified = TRUE, !.escrow = {}]
    BY <1>0, <1>2 DEF ResetPassword, UpdateUser, TypeOK
  <2>2. account[u] \in Account
    BY <1>0 DEF TypeOK, Registered
  <2>3. account'[u].password = account[u].password + 1
    BY <2>1, <2>2 DEF Account
  <2>4. Resetting(u)' = Resetting(u) \ {r} /\ r \in Resetting(u)
    BY <1>0, <1>2 DEF Resetting, At, Goto, Idle, TypeOK
  <2>5. Cardinality(Resetting(u)') = Cardinality(Resetting(u)) - 1
    BY <2>4, CountsFinite, FS_RemoveElement
  <2>. QED
    BY <1>1, <2>3, <2>5, CountsFinite DEF Balanced
<1>3. CASE req[r].user # u
  <2>1. account'[u] = account[u]
    BY <1>0, <1>3 DEF ResetPassword, UpdateUser, TypeOK
  <2>2. Resetting(u)' = Resetting(u)
    BY <1>0, <1>3 DEF Resetting, At, Goto, Idle, TypeOK
  <2>. QED
    BY <1>1, <2>1, <2>2, CountsFinite DEF Balanced
<1>. QED
  BY <1>2, <1>3

\* A new account starts with nothing on either side.
LEMMA NewBalances ==
  ASSUME ResetsInv, [Next]_vars, NEW u \in users', u \notin users
  PROVE  Balanced(u)'
<1>. USE DEF ResetsInv, IInv
<1>1. PICK r \in Req : Register(r, u) /\ u \in User
  <2>1. ASSUME NEW r \in Req, NEW v \in User, Register(r, v) PROVE v = u
    BY <2>1 DEF Register, Tokens!AddUser
  <2>2. ASSUME \/ \E r \in Req : BackupSpend(r) \/ CreateSession(r) \/ Logout(r) \/ LogoutAll(r) \/ DeleteAccount(r)
               \/ Tick \/ (\E i \in intents : ExpireIntent(i)) \/ (\E t \in Token : ExpireToken(t))
               \/ UNCHANGED vars \/ UNCHANGED tokenVars
        PROVE  users' \subseteq users
    BY <2>2 DEF BackupSpend, CreateSession, Logout, LogoutAll, DeleteAccount, Tick, ExpireIntent,
       ExpireToken, vars, tokenVars, Tokens!RemoveUser, Tokens!Expire
  <2>. QED
    BY <2>1, <2>2, Writers
<1>2. u \in User /\ row' = row /\ account' = [account EXCEPT ![u] = NewAccount] /\ ~Registered(u)
  BY <1>1 DEF Register, Tokens!AddUser, Tokens!tokenVars, TypeOK, Tokens!TypeOK, Registered
<1>3. account'[u].password = 0
  BY <1>2 DEF NewAccount, TypeOK
<1>4. UsedResets(u)' = {}
  BY <1>2 DEF UsedResets, UsedReset, RowsOwned
<1>5. Resetting(u)' = {}
  <2>1. Resetting(u) = {}
    BY <1>2 DEF Resetting, FramesRegistered, At
  <2>2. \A x \in Req : req'[x] # req[x] => req'[x].at # "newhash"
    BY <1>1 DEF Register, Goto, TypeOK
  <2>. QED
    BY <2>1, <2>2 DEF Resetting
<1>. QED
  BY <1>3, <1>4, <1>5, FS_EmptySet DEF Balanced

LEMMA ResetsInvStep == ResetsInv /\ [Next]_vars => ResetsInv'
<1>. SUFFICES ASSUME ResetsInv, [Next]_vars PROVE ResetsInv'
  OBVIOUS
<1>1. IInv'
  BY NextInv DEF ResetsInv
<1>2. ASSUME NEW u \in users' PROVE Balanced(u)'
  <2>1. CASE u \in users /\ \A r \in Req : ~TokenAccepted(r) /\ ~ResetPassword(r)
    <3>1. /\ account'[u].password = account[u].password
          /\ Resetting(u)' = Resetting(u) /\ UsedResets(u)' = UsedResets(u)
      BY <1>2, <2>1, OtherResets DEF ResetsInv
    <3>. QED
      BY <2>1, <3>1, CountsFinite DEF Balanced
  <2>. QED
    BY <1>2, <2>1, AcceptedBalances, SettingBalances, NewBalances
<1>. QED
  BY <1>1, <1>2 DEF ResetsInv, Balanced, PasswordChangesSpendTokens, Resetting, UsedResets, UsedReset

LEMMA ResetsInitInv == Init => ResetsInv
BY InitInv DEF Init, ResetsInv, PasswordChangesSpendTokens

\* Every password set after registration was paid for with one reset token of
\* the account that nothing else was bought with, whatever links are presented
\* at once and whoever is deleted meanwhile.
THEOREM ResetsCorrect == Spec => []PasswordChangesSpendTokens
BY ResetsInitInv, ResetsInvStep, PTL DEF Spec, ResetsInv

-----------------------------------------------------------------------------
(* The devices of the settings.                                            *)

\* The disjuncts of AccountNext, those that leave the devices alone taken as one.
LEMMA AccountCases ==
  ASSUME [AccountNext]_accountVars
  PROVE  \/ ChooseMic \/ Tune \/ RetryMic \/ TogglePreview \/ ChooseCamera \/ RetryCamera
         \/ \E m \in prompts : AccessAnswered(m)
         \/ \E s \in streams : Granted(s)
         \/ \E s \in streams : Refused(s)
         \/ \E to \in {"none", "account", "devices"} : tab' = to /\ Leave(to)
         \/ UNCHANGED <<tab, run, runs, streams>>
<1>1. ASSUME NEW to \in {"account", "devices"}, OpenTab(to)
      PROVE  tab' = to /\ Leave(to)
  BY <1>1 DEF OpenTab, Leave
<1>2. ASSUME CloseSettings
      PROVE  tab' = "none" /\ Leave("none")
  BY <1>2 DEF CloseSettings, Leave
<1>3. ASSUME NEW q, Hear(q)
      PROVE  (tab' = "none" /\ Leave("none")) \/ UNCHANGED <<tab, run, runs, streams>>
  BY <1>3 DEF Hear, Heard, device, Started, Saved, Refreshed, UrlSaved, Regenerated, Listed,
              Unblocked, SignsOut, SignedOut, Leave
<1>4. ASSUME NEW q, Handle(q)
      PROVE  UNCHANGED <<tab, run, runs, streams>>
  BY <1>4 DEF Handle, device
<1>5. RequestAccess => UNCHANGED <<tab, run, runs, streams>>
  BY DEF RequestAccess, OnDevices
<1>6. OnAccount => UNCHANGED <<tab, run, runs, streams>>
  BY DEF OnAccount, device
<1>7. \/ StartEnroll \/ VerifyEnroll \/ StartDisable \/ ConfirmDisable \/ Cancel
      \/ Regenerate \/ HideCodes
      \/ \E op \in {"save", "upload", "url"}, c \in Column : SaveColumn(op, c)
      \/ \E p \in Peer : Unblock(p)
      \/ \E op \in {"everywhere", "delete", "logout"} : SignOut(op)
      => OnAccount
  BY DEF StartEnroll, VerifyEnroll, StartDisable, ConfirmDisable, Cancel, Regenerate, HideCodes,
         SaveColumn, Unblock, SignOut, Pressed, Turned
<1>8. CASE UNCHANGED accountVars
  BY <1>8 DEF accountVars, device
<1>9. CASE AccountNext
  BY <1>1, <1>2, <1>3, <1>4, <1>5, <1>6, <1>7, <1>9 DEF AccountNext
<1>. QED  BY <1>8, <1>9

\* A component has a run only while the devices are shown; each run asked for one
\* stream, which is open only while the component wants it.
DevicesInv ==
  /\ run \in [Component -> Nat] /\ runs \in Nat
  /\ \A c \in Component : run[c] # 0 => tab = "devices"
  /\ \A s \in streams :
       /\ s \in [of : Component, run : Nat \ {0}, at : {"asked", "open"}]
       /\ s.run <= runs /\ (s.at = "open" => Wanted(s))
  /\ \A s, t \in streams : s.of = t.of /\ s.run = t.run => s = t

\* Running effects anew keeps it, when those that are run anew were cleaned up.
LEMMA RerunKeeps ==
  ASSUME DevicesInv, NEW cs \in SUBSET Component, NEW again \in SUBSET cs, Rerun(cs, again),
         tab' = "devices" \/ (cs = Component /\ again = {})
  PROVE  DevicesInv'
<1>. USE DEF DevicesInv, Rerun, Wanted
<1>1. run' \in [Component -> Nat] /\ runs' \in Nat /\ runs <= runs' /\ (again # {} => runs' = runs + 1)
  OBVIOUS
<1>2. \A c \in Component : run'[c] = IF c \in again THEN runs + 1 ELSE IF c \in cs THEN 0 ELSE run[c]
  OBVIOUS
<1>3. \A c \in Component : run'[c] # 0 => tab' = "devices"
  BY <1>2
<1>4. ASSUME NEW s \in streams'
      PROVE  \/ s \in streams /\ (s.of \in cs => s.at = "asked")
             \/ s.of \in again /\ s.run = runs + 1 /\ s.at = "asked" /\ runs' = runs + 1
                /\ s = [of |-> s.of, run |-> runs + 1, at |-> "asked"]
  BY <1>1
<1>5. ASSUME NEW s \in streams'
      PROVE  /\ s \in [of : Component, run : Nat \ {0}, at : {"asked", "open"}]
             /\ s.run <= runs' /\ (s.at = "open" => Wanted(s)')
  BY <1>1, <1>2, <1>4
<1>6. ASSUME NEW s \in streams', NEW t \in streams', s.of = t.of, s.run = t.run
      PROVE  s = t
  BY <1>4, <1>6
<1>. QED  BY <1>1, <1>3, <1>5, <1>6

\* No device stays open that no component on the screen wants.
THEOREM DevicesCorrect == AccountSpec => []DevicesAreReleased
<1>1. AccountInit => DevicesInv
  BY DEF AccountInit, DevicesInv, Component
<1>2. ASSUME DevicesInv, [AccountNext]_accountVars
      PROVE  DevicesInv'
  <2>1. {"level", "meter"} \subseteq Component /\ {"preview"} \subseteq Component
    BY DEF Component
  <2>2. CASE ChooseMic
    BY <1>2, <2>1, <2>2, RerunKeeps DEF ChooseMic, OnDevices
  <2>3. CASE Tune
    BY <1>2, <2>1, <2>3, RerunKeeps DEF Tune, OnDevices
  <2>4. CASE RetryMic
    BY <1>2, <2>1, <2>4, RerunKeeps DEF RetryMic, OnDevices
  <2>5. CASE TogglePreview
    BY <1>2, <2>1, <2>5, RerunKeeps DEF TogglePreview, OnDevices
  <2>6. CASE ChooseCamera
    BY <1>2, <2>1, <2>6, RerunKeeps DEF ChooseCamera, OnDevices
  <2>7. CASE RetryCamera
    BY <1>2, <2>1, <2>7, RerunKeeps DEF RetryCamera, OnDevices
  <2>8. ASSUME NEW m \in prompts, AccessAnswered(m)
        PROVE  DevicesInv'
    <3>1. CASE tab = "devices" /\ m = shown
      BY <1>2, <2>1, <2>8, <3>1, RerunKeeps DEF AccessAnswered, StaysOpen
    <3>2. CASE ~(tab = "devices" /\ m = shown)
      BY <1>2, <2>8, <3>2 DEF AccessAnswered, StaysOpen, DevicesInv, Wanted
    <3>. QED  BY <3>1, <3>2
  <2>9. ASSUME NEW s \in streams, Granted(s)
        PROVE  DevicesInv'
    <3>. DEFINE t == [s EXCEPT !.at = "open"]
    <3>1. /\ streams' = (streams \ {s}) \cup {x \in {t} : Wanted(s)} /\ UNCHANGED <<tab, run, runs>>
      BY <2>9 DEF Granted, StaysOpen
    <3>2. t.of = s.of /\ t.run = s.run /\ t \in [of : Component, run : Nat \ {0}, at : {"asked", "open"}]
      BY <1>2 DEF DevicesInv
    <3>. HIDE DEF t
    <3>. QED  BY <1>2, <3>1, <3>2 DEF DevicesInv, Wanted
  <2>10. ASSUME NEW s \in streams, Refused(s)
         PROVE  DevicesInv'
    <3>1. streams' = streams \ {s} /\ UNCHANGED <<tab, runs>>
      BY <2>10 DEF Refused, StaysOpen
    <3>2. \A t \in streams' : t.at = "open" => run'[t.of] = run[t.of]
      BY <1>2, <2>10, <3>1 DEF Refused, DevicesInv, Wanted
    <3>3. run' \in [Component -> Nat] /\ \A c \in Component : run'[c] # 0 => run[c] # 0
      BY <1>2, <2>10 DEF Refused, DevicesInv
    <3>. QED  BY <1>2, <3>1, <3>2, <3>3 DEF DevicesInv, Wanted
  <2>11. ASSUME NEW to \in {"none", "account", "devices"}, tab' = to, Leave(to)
         PROVE  DevicesInv'
    BY <1>2, <2>1, <2>11, RerunKeeps DEF Leave
  <2>12. CASE UNCHANGED <<tab, run, runs, streams>>
    BY <1>2, <2>12 DEF DevicesInv, Wanted
  <2>. QED  BY <1>2, <2>2, <2>3, <2>4, <2>5, <2>6, <2>7, <2>8, <2>9, <2>10, <2>11, <2>12, AccountCases
<1>3. DevicesInv => DevicesAreReleased
  BY DEF DevicesInv, DevicesAreReleased, Wanted
<1>. QED  BY <1>1, <1>2, <1>3, PTL DEF AccountSpec

-----------------------------------------------------------------------------
(* What the account tab makes of its answers.                              *)

\* The sections that a request is about, or what it follows.
About(q) == Section(q.op) \cup (IF q.after = "none" THEN {} ELSE Section(q.after))
Touching(s) == {q \in Under : s \in About(q)}

\* Nothing overlapped in a section: one request at most is about it.
Only(s) == \A q, r \in Touching(s) : q = r /\ requests[q] = 1

UserIsTrue == user = PublicOf(person)
FactorIsTrue == /\ form.phase = "enrolling" => form.secret = person.secret
                /\ form.codes # 0 => form.codes = person.batch
ListIsTrue == form.loaded => form.blocked = person.blocked

\* What is under way makes up for what is not true yet.
UserFollows(q) ==
  /\ q.op = "me" => q.at # "failed" /\ (q.at = "done" => PublicOf(q.seen) = PublicOf(person))
  /\ q.op = "url" /\ q.at = "done" =>
       [user EXCEPT !.profile["avatar"] = q.seen.profile["avatar"]] = PublicOf(person)
  /\ q.op # "me" /\ q.at # "done" => UserIsTrue
FactorFollows(q) ==
  /\ ~Same(q) => form.codes = 0 /\ form.phase # "enrolling"
  /\ form.phase = "enrolling" =>
       form.secret = person.secret /\ q.op \notin {"start", "disable"} /\ q.after # "disable"
  /\ form.codes # 0 => q.op # "regenerate"
  /\ form.codes # 0 /\ form.codes # person.batch => q.after = "verify" \/ (q.op = "verify" /\ q.at = "done")
  /\ q.op = "start" /\ q.at = "done" => q.number = person.secret
  /\ q.after = "verify" \/ (q.op \in {"verify", "regenerate"} /\ q.at = "done") => q.number = person.batch
ListFollows(q) ==
  /\ ~Same(q) => ~form.loaded
  /\ q.op = "list" => q.at # "failed" /\ (q.at = "done" => q.seen.blocked = person.blocked)
  /\ q.op = "unblock" /\ q.at # "done" => ListIsTrue

UserInv ==
  "user" \notin late => /\ Only("user") /\ (Touching("user") = {} => UserIsTrue)
                        /\ \A q \in Touching("user") : UserFollows(q)
FactorInv ==
  "factor" \notin late => /\ Only("factor") /\ (Touching("factor") = {} => FactorIsTrue)
                          /\ \A q \in Touching("factor") : FactorFollows(q)
ListInv ==
  "list" \notin late => /\ Only("list") /\ (Touching("list") = {} => ListIsTrue)
                        /\ \A q \in Touching("list") : ListFollows(q)

\* A session that was ended is about to be left.
SessionInv ==
  "session" \notin late /\ signedIn /\ ~valid =>
    \E q \in Under : q.op = "logout" \/ (q.op \in {"everywhere", "delete"} /\ q.at = "done")

\* The types, without the bounds.
Person == [profile : [Column -> BOOLEAN], on : BOOLEAN, secret : Nat, batch : Nat, drawn : Nat,
           blocked : SUBSET Peer]
Sheet == [phase : {"idle", "enrolling", "disabling"}, secret : Nat, codes : Nat,
          busy : SUBSET {"factor", "identity", "avatar", "everywhere", "delete"},
          loaded : BOOLEAN, blocked : SUBSET Peer]
Asked == [op : Op, after : {"none", "verify", "disable", "save", "upload"}, column : Column, value : BOOLEAN,
          peer : Peer \cup {NoPeer}, number : Nat, mount : Nat, at : {"sent", "done", "failed"}, seen : Person]
Shaped(q) == q \in Asked /\ (q.op = "me" <=> q.after # "none") /\ (q.op = "url" => q.column = "avatar")
BagTyped == \A q \in Under : requests[q] \in Nat \ {0}
SettingsTyped ==
  /\ person \in Person /\ user \in Public /\ form \in Sheet /\ shown \in Nat
  /\ BagTyped /\ \A q \in Under : Shaped(q)

-----------------------------------------------------------------------------
LEMMA SectionOf ==
  ASSUME NEW op
  PROVE  /\ "factor" \in Section(op) <=> op \in {"start", "regenerate", "verify", "disable"}
         /\ "user" \in Section(op) <=> op \in {"verify", "disable", "save", "upload", "url", "me"}
         /\ "list" \in Section(op) <=> op \in {"list", "unblock"}
         /\ "session" \in Section(op) <=> op \notin {"start", "regenerate", "verify", "disable", "save", "upload",
                                                     "url", "me", "list", "unblock"}
BY DEF Section

\* One more request, one less, and one that goes on as another.
LEMMA Sending ==
  ASSUME BagTyped, NEW q, Send(q)
  PROVE  /\ BagTyped' /\ Under' = Under \cup {q} /\ \A r \in Under \ {q} : requests'[r] = requests[r]
         /\ q \notin Under => requests'[q] = 1
<1>. DEFINE one == SetToBag({q})
<1>1. requests' = requests (+) one /\ DOMAIN one = {q} /\ one[q] = 1
  BY DEF Send, SetToBag
<1>. HIDE DEF one
<1>2. /\ DOMAIN requests' = DOMAIN requests \cup {q}
      /\ \A r \in DOMAIN requests' :
           requests'[r] = (IF r \in DOMAIN requests THEN requests[r] ELSE 0) + (IF r = q THEN 1 ELSE 0)
  BY <1>1 DEF (+)
<1>. QED  BY <1>2 DEF Under, BagToSet, BagTyped

LEMMA Dropping ==
  ASSUME BagTyped, NEW q \in Under, Drop(q)
  PROVE  /\ BagTyped' /\ Under' = {r \in Under : r # q \/ requests[r] # 1}
         /\ \A r \in Under' \ {q} : requests'[r] = requests[r]
<1>. DEFINE one == SetToBag({q})
<1>1. requests' = requests (-) one /\ DOMAIN one = {q} /\ one[q] = 1
  BY DEF Drop, SetToBag
<1>. HIDE DEF one
<1>. DEFINE left == [r \in DOMAIN requests |-> IF r \in DOMAIN one THEN requests[r] - one[r] ELSE requests[r]]
<1>2. requests' = [r \in {d \in DOMAIN left : left[d] > 0} |-> left[r]]
  BY <1>1 DEF (-)
<1>3. /\ DOMAIN left = Under /\ \A r \in Under : left[r] = IF r = q THEN requests[r] - 1 ELSE requests[r]
      /\ \A r \in Under : requests[r] \in Nat \ {0}
  BY <1>1 DEF Under, BagToSet, BagTyped
<1>. HIDE DEF left
<1>. QED  BY <1>2, <1>3 DEF Under, BagToSet, BagTyped

LEMMA Turning ==
  ASSUME BagTyped, NEW q \in Under, NEW r, Turn(q, r)
  PROVE  /\ BagTyped' /\ Under' = {d \in Under : d # q \/ requests[d] # 1} \cup {r}
         /\ \A d \in Under' \ {q, r} : requests'[d] = requests[d]
         /\ r \notin Under \/ (r = q /\ requests[q] = 1) => requests'[r] = 1
<1>. DEFINE one == SetToBag({q})
            two == SetToBag({r})
            rest == requests (-) one
            left == [d \in DOMAIN requests |-> IF d \in DOMAIN one THEN requests[d] - one[d] ELSE requests[d]]
<1>1. /\ requests' = rest (+) two /\ rest = [d \in {e \in DOMAIN left : left[e] > 0} |-> left[d]]
      /\ DOMAIN one = {q} /\ one[q] = 1 /\ DOMAIN two = {r} /\ two[r] = 1
  BY DEF Turn, SetToBag, (-)
<1>. HIDE DEF one, two
<1>2. /\ DOMAIN left = Under /\ \A d \in Under : left[d] = IF d = q THEN requests[d] - 1 ELSE requests[d]
      /\ \A d \in Under : requests[d] \in Nat \ {0}
  BY <1>1 DEF Under, BagToSet, BagTyped
<1>. HIDE DEF left, rest
<1>3. /\ DOMAIN rest = {d \in Under : d # q \/ requests[d] # 1}
      /\ \A d \in DOMAIN rest : rest[d] \in Nat \ {0} /\ (d # q => rest[d] = requests[d])
  BY <1>1, <1>2
<1>4. /\ DOMAIN requests' = DOMAIN rest \cup {r}
      /\ \A d \in DOMAIN requests' :
           requests'[d] = (IF d \in DOMAIN rest THEN rest[d] ELSE 0) + (IF d = r THEN 1 ELSE 0)
  BY <1>1 DEF (+)
<1>. QED  BY <1>3, <1>4 DEF Under, BagToSet, BagTyped

\* The same for those of one section.
LEMMA SendingIn ==
  ASSUME BagTyped, NEW q, Send(q), NEW s, s \in About(q) => Touching(s) = {}, Only(s)
  PROVE  Only(s)' /\ Touching(s)' = Touching(s) \cup (IF s \in About(q) THEN {q} ELSE {})
<1>1. Touching(s)' = {r \in Under' : s \in About(r)}
  BY DEF Touching, About, Section
<1>. QED  BY <1>1, Sending DEF Touching, Only

LEMMA DroppingIn ==
  ASSUME BagTyped, NEW q \in Under, Drop(q), NEW s, Only(s)
  PROVE  Only(s)' /\ Touching(s)' = Touching(s) \ {r \in {q} : s \in About(q)}
<1>1. Touching(s)' = {r \in Under' : s \in About(r)}
  BY DEF Touching, About, Section
<1>. QED  BY <1>1, Dropping DEF Touching, Only

LEMMA TurningIn ==
  ASSUME BagTyped, NEW q \in Under, NEW r, Turn(q, r), NEW s, s \in About(r) => s \in About(q), Only(s)
  PROVE  /\ Only(s)'
         /\ Touching(s)' = (Touching(s) \ {d \in {q} : s \in About(q)}) \cup {d \in {r} : s \in About(r)}
<1>1. Touching(s)' = {d \in Under' : s \in About(d)}
  BY DEF Touching, About, Section
<1>. QED  BY <1>1, Turning DEF Touching, Only
-----------------------------------------------------------------------------
\* The form forgets, or keeps what it showed.
Eases ==
  \/ form' = Fresh
  \/ /\ UNCHANGED <<tab, shown>>
     /\ form'.phase = "enrolling" => form.phase = "enrolling" /\ form'.secret = form.secret
     /\ form'.codes # 0 => form'.codes = form.codes
     /\ form'.loaded => form.loaded /\ form'.blocked = form.blocked

\* q is asked, where nothing shown contradicts it.
Asks(q) ==
  /\ Send(q) /\ Shaped(q) /\ q.at = "sent" /\ q.after = "none" /\ q.op # "me" /\ Same(q)' /\ late \subseteq late'
  /\ \A s \in Section(q.op) \ {"session"} : s \notin late' => Touching(s) = {}
  /\ q.op \in {"start", "disable"} => form'.phase # "enrolling"
  /\ q.op = "regenerate" => form'.codes = 0

\* What overlaps with nothing else that is under way.
LEMMA OverlapsGrows == \A op : Overlaps(op) => late \subseteq late'
BY DEF Overlaps

LEMMA Overlapping ==
  ASSUME NEW op, Overlaps(op), NEW s \in Section(op) \ {"session"}, s \notin late'
  PROVE  Touching(s) = {}
<1>1. ASSUME NEW d \in Under
      PROVE  s \notin Section(d.op) \cup Section(d.after)
  BY <1>1 DEF Overlaps
<1>. QED  BY <1>1 DEF Touching, About, Overlaps

\* What a request that is sent looks like.
AskOf(q, op, m) ==
  q \in Asked /\ q.op = op /\ q.after = "none" /\ q.at = "sent" /\ q.mount = m
LEMMA NewAskIs ==
  ASSUME NEW op \in Op, shown \in Nat
  PROVE  AskOf(NewAsk(op), op, shown)
BY DEF AskOf, Asked, NewAsk, Column, NoPeer, Blank, Person

LEMMA SheetTyped == SettingsTyped => form \in Sheet /\ Fresh \in Sheet /\ Blank \in Person
BY DEF SettingsTyped, Sheet, Fresh, Blank, Person, Column

\* What the user can do: it asks one thing or nothing.
LEMMA PressKinds ==
  ASSUME SettingsTyped,
         \/ ChooseMic \/ Tune \/ RetryMic \/ TogglePreview \/ ChooseCamera \/ RetryCamera \/ RequestAccess
         \/ \E m \in prompts : AccessAnswered(m)
         \/ \E s \in streams : Granted(s) \/ Refused(s)
         \/ \E to \in {"account", "devices"} : OpenTab(to)
         \/ CloseSettings \/ StartEnroll \/ VerifyEnroll \/ StartDisable \/ ConfirmDisable \/ Cancel
         \/ Regenerate \/ HideCodes
         \/ \E op \in {"save", "upload", "url"}, c \in Column : SaveColumn(op, c)
         \/ \E p \in Peer : Unblock(p)
         \/ \E op \in {"everywhere", "delete", "logout"} : SignOut(op)
  PROVE  /\ UNCHANGED <<server, user, signedIn>> /\ Eases /\ form' \in Sheet /\ shown' \in Nat
         /\ UNCHANGED <<requests, late>> \/ \E q : Asks(q)
<1>. DEFINE Goal == /\ UNCHANGED <<server, user, signedIn>> /\ Eases /\ form' \in Sheet /\ shown' \in Nat
                    /\ UNCHANGED <<requests, late>> \/ \E q : Asks(q)
<1>1. form \in Sheet /\ Fresh \in Sheet /\ Blank \in Person /\ shown \in Nat /\ user \in Public
  BY SheetTyped DEF SettingsTyped
<1>2. \/ ChooseMic \/ Tune \/ RetryMic \/ TogglePreview \/ ChooseCamera \/ RetryCamera \/ RequestAccess
      \/ \E m \in prompts : AccessAnswered(m)
      \/ \E s \in streams : Granted(s) \/ Refused(s)
      => UNCHANGED <<server, user, signedIn, tab, shown, form, requests, late>>
  BY DEF ChooseMic, Tune, RetryMic, TogglePreview, ChooseCamera, RetryCamera, RequestAccess, OnDevices,
         AccessAnswered, Granted, Refused, StaysOpen
<1>3. UNCHANGED <<server, user, signedIn, tab, shown, form, requests, late>> => Goal
  BY <1>1 DEF Eases
<1>4. ASSUME NEW op \in Op \ {"me", "url"}
      PROVE  AskOf(NewAsk(op), op, shown)
  BY <1>1, <1>4, NewAskIs
<1>5. ASSUME NEW to \in {"account", "devices"}, OpenTab(to)
      PROVE  Goal
  <2>1. /\ form' = Fresh /\ tab' = to /\ shown' = shown + 1 /\ UNCHANGED <<server, user, signedIn>>
    BY <1>5 DEF OpenTab, Leave
  <2>2. CASE UNCHANGED <<requests, late>>
    BY <1>1, <2>1, <2>2 DEF Eases
  <2>3. CASE to = "account" /\ Send([NewAsk("list") EXCEPT !.mount = shown + 1]) /\ Overlaps("list")
    <3>0. PICK q : q = [NewAsk("list") EXCEPT !.mount = shown + 1]
      OBVIOUS
    <3>1. Shaped(q) /\ AskOf(q, "list", shown + 1)
      BY <1>1, <1>4, <3>0 DEF AskOf, Asked, Shaped, Op
    <3>2. Send(q)
      BY <2>3, <3>0
    <3>3. Asks(q)
      BY <2>1, <2>3, <3>1, <3>2, Overlapping, OverlapsGrows DEF Asks, AskOf, Same
    <3>. QED  BY <1>1, <2>1, <3>3 DEF Eases
  <2>. QED  BY <1>5, <2>2, <2>3 DEF OpenTab
<1>6. CASE CloseSettings
  BY <1>1, <1>6 DEF CloseSettings, Leave, Eases
<1>7. ASSUME StartDisable \/ Cancel \/ HideCodes
      PROVE  Goal
  <2>1. UNCHANGED <<server, user, signedIn, tab, shown, requests, late>>
    BY <1>7 DEF StartDisable, Cancel, HideCodes, Turned, OnAccount
  <2>2. \/ form' = [form EXCEPT !.phase = "disabling"]
        \/ form' = [form EXCEPT !.phase = "idle", !.secret = 0]
        \/ form' = [form EXCEPT !.codes = 0]
    BY <1>7 DEF StartDisable, Cancel, HideCodes
  <2>3. form' \in Sheet
    <3>1. /\ [form EXCEPT !.phase = "disabling"] \in Sheet /\ [form EXCEPT !.codes = 0] \in Sheet
          /\ [form EXCEPT !.phase = "idle", !.secret = 0] \in Sheet
      BY <1>1 DEF Sheet
    <3>. QED  BY <2>2, <3>1
  <2>4. form'.loaded = form.loaded /\ form'.blocked = form.blocked
    BY <1>1, <2>2 DEF Sheet
  <2>5. \/ form'.phase = "disabling" /\ form'.codes = form.codes
        \/ form'.phase = "idle" /\ form'.codes = form.codes
        \/ form'.codes = 0 /\ form'.phase = form.phase /\ form'.secret = form.secret
    BY <1>1, <2>2 DEF Sheet
  <2>6. Eases
    BY <2>1, <2>4, <2>5 DEF Eases
  <2>. QED  BY <1>1, <2>1, <2>3, <2>6
<1>8. Pressed => UNCHANGED <<server, user, signedIn, tab, shown>> /\ tab = "account"
  BY DEF Pressed, OnAccount
<1>9. ASSUME NEW flag \in {"factor", "identity", "avatar", "everywhere", "delete"}, Pressed,
             Occupied(flag) \/ UNCHANGED form
      PROVE  /\ UNCHANGED <<server, user, signedIn>> /\ Eases /\ form' \in Sheet /\ shown' \in Nat
             /\ form'.phase = form.phase /\ form'.codes = form.codes
  BY <1>1, <1>8, <1>9 DEF Occupied, Eases, Sheet
<1>10. ASSUME NEW q, Pressed, Send(q), Overlaps(q.op), Shaped(q), AskOf(q, q.op, shown), q.op # "me",
              q.op \in {"start", "disable"} => form'.phase # "enrolling",
              q.op = "regenerate" => form'.codes = 0
       PROVE  Asks(q)
  BY <1>8, <1>10, Overlapping, OverlapsGrows DEF Asks, AskOf, Same
<1>11. ASSUME NEW op \in {"start", "disable", "regenerate"}
       PROVE  Shaped(NewAsk(op)) /\ AskOf(NewAsk(op), op, shown)
  BY <1>4, <1>11 DEF AskOf, Shaped, Op
<1>12. ASSUME StartEnroll \/ ConfirmDisable \/ Regenerate
       PROVE  Goal
  BY <1>9, <1>10, <1>11, <1>12 DEF StartEnroll, ConfirmDisable, Regenerate, AskOf
<1>13. CASE VerifyEnroll
  <2>0. PICK q : q = [NewAsk("verify") EXCEPT !.number = form.secret]
    OBVIOUS
  <2>1. Shaped(q) /\ AskOf(q, "verify", shown)
    BY <1>1, <1>4, <2>0 DEF AskOf, Asked, Shaped, Op, Sheet
  <2>2. Send(q) /\ Overlaps("verify") /\ Pressed /\ Occupied("factor")
    BY <1>13, <2>0 DEF VerifyEnroll
  <2>. QED  BY <1>9, <1>10, <2>1, <2>2 DEF AskOf
<1>14. ASSUME NEW op \in {"save", "upload", "url"}, NEW c \in Column, SaveColumn(op, c)
       PROVE  Goal
  <2>1. PICK v \in BOOLEAN : v = ~user.profile[c]
    OBVIOUS
  <2>0. PICK q : q = [NewAsk(op) EXCEPT !.column = c, !.value = v]
    OBVIOUS
  <2>2. op = "url" => c = "avatar"
    BY <1>14, <2>0 DEF SaveColumn
  <2>3. Shaped(q) /\ AskOf(q, op, shown)
    <3>1. AskOf(NewAsk(op), op, shown)
      BY <1>1, NewAskIs DEF Op
    <3>2. [NewAsk(op) EXCEPT !.column = c, !.value = v] \in Asked
      BY <3>1 DEF AskOf, Asked
    <3>. QED  BY <2>0, <2>2, <3>1, <3>2 DEF AskOf, Asked, Shaped
  <2>4. Send(q) /\ Overlaps(op) /\ Pressed /\ \E flag \in {"avatar", "identity"} : Occupied(flag)
    BY <1>14, <2>0, <2>1 DEF SaveColumn
  <2>. QED  BY <1>9, <1>10, <2>3, <2>4 DEF AskOf
<1>15. ASSUME NEW p \in Peer, Unblock(p)
       PROVE  Goal
  <2>0. PICK q : q = [NewAsk("unblock") EXCEPT !.peer = p]
    OBVIOUS
  <2>1. Shaped(q) /\ AskOf(q, "unblock", shown)
    BY <1>1, <1>4, <2>0 DEF AskOf, Asked, Shaped, Op
  <2>2. Send(q) /\ Overlaps("unblock") /\ Pressed /\ UNCHANGED form
    BY <1>15, <2>0 DEF Unblock
  <2>. QED  BY <1>9, <1>10, <2>1, <2>2 DEF AskOf
<1>16. ASSUME NEW op \in {"everywhere", "delete", "logout"}, SignOut(op)
       PROVE  Goal
  <2>0. PICK q : q = NewAsk(op)
    OBVIOUS
  <2>1. Shaped(q) /\ AskOf(q, op, shown)
    BY <1>1, <1>4, <2>0 DEF AskOf, Shaped, Op
  <2>2. Send(q) /\ late' = late /\ Pressed /\ (UNCHANGED form \/ \E flag \in {"everywhere", "delete"} : Occupied(flag))
    BY <1>16, <2>0 DEF SignOut
  <2>3. Section(op) = {"session"}
    BY DEF Section
  <2>4. Asks(q)
    BY <1>8, <2>1, <2>2, <2>3 DEF Asks, AskOf, Same
  <2>. QED  BY <1>9, <2>2, <2>4
<1>. QED  BY <1>2, <1>3, <1>5, <1>6, <1>7, <1>12, <1>13, <1>14, <1>15, <1>16

SettingsInv == SettingsTyped /\ UserInv /\ FactorInv /\ ListInv /\ SessionInv

LEMMA PressKeeps ==
  ASSUME SettingsInv, UNCHANGED <<server, user, signedIn>>, Eases, form' \in Sheet, shown' \in Nat,
         UNCHANGED <<requests, late>> \/ \E q : Asks(q)
  PROVE  SettingsInv'
<1>1. CASE UNCHANGED <<requests, late>>
  <2>1. Under' = Under /\ \A s : Touching(s)' = Touching(s) /\ (Only(s) => Only(s)')
    BY <1>1 DEF Under, BagToSet, Touching, About, Section, Only
  <2>2. SettingsTyped'
    BY <1>1, <2>1 DEF SettingsInv, SettingsTyped, BagTyped, Shaped, server
  <2>3. UserInv'
    BY <1>1, <2>1 DEF SettingsInv, UserInv, UserIsTrue, UserFollows, server
  <2>4. ASSUME NEW q \in Touching("factor"), FactorFollows(q)
        PROVE  FactorFollows(q)'
    BY <2>4 DEF Eases, Fresh, FactorFollows, Same, server
  <2>5. FactorIsTrue => FactorIsTrue'
    BY DEF Eases, Fresh, FactorIsTrue, server
  <2>6. FactorInv'
    BY <1>1, <2>1, <2>4, <2>5 DEF SettingsInv, FactorInv
  <2>7. ListIsTrue => ListIsTrue'
    BY DEF Eases, Fresh, ListIsTrue, server
  <2>8. ASSUME NEW q \in Touching("list"), ListFollows(q)
        PROVE  ListFollows(q)'
    BY <2>7, <2>8 DEF Eases, Fresh, ListFollows, Same, server
  <2>9. ListInv'
    BY <1>1, <2>1, <2>7, <2>8 DEF SettingsInv, ListInv
  <2>10. SessionInv'
    BY <1>1, <2>1 DEF SettingsInv, SessionInv, server
  <2>. QED  BY <2>2, <2>3, <2>6, <2>9, <2>10 DEF SettingsInv
<1>2. ASSUME NEW q, Asks(q)
      PROVE  SettingsInv'
  <2>1. /\ Send(q) /\ Shaped(q) /\ q.at = "sent" /\ q.after = "none" /\ q.op # "me" /\ Same(q)'
        /\ late \subseteq late' /\ q.op \in Op
    BY <1>2 DEF Asks, Shaped, Asked
  <2>2. BagTyped' /\ Under' = Under \cup {q}
    BY <2>1, Sending DEF SettingsInv, SettingsTyped
  <2>3. SettingsTyped'
    BY <2>1, <2>2 DEF SettingsInv, SettingsTyped, server, Shaped
  <2>4. ASSUME NEW s \in {"user", "factor", "list"}, s \notin late', Only(s)
        PROVE  /\ Only(s)' /\ Touching(s)' = Touching(s) \cup (IF s \in Section(q.op) THEN {q} ELSE {})
               /\ s \in Section(q.op) => Touching(s) = {}
    <3>1. About(q) = Section(q.op)
      BY <2>1 DEF About
    <3>2. s \in Section(q.op) => Touching(s) = {}
      BY <1>2, <2>4 DEF Asks
    <3>. QED  BY <2>1, <2>4, <3>1, <3>2, SendingIn DEF SettingsInv, SettingsTyped
  <2>5. UserInv'
    <3>1. SUFFICES ASSUME "user" \notin late'
                   PROVE  UserInv'
      BY DEF UserInv
    <3>2. UserIsTrue' <=> UserIsTrue
      BY DEF UserIsTrue, server
    <3>3. \A d : UserFollows(d)' <=> UserFollows(d)
      BY <3>2 DEF UserFollows, server
    <3>4. UserIsTrue => UserFollows(q)
      BY <2>1 DEF UserFollows
    <3>. QED  BY <2>1, <2>4, <3>1, <3>2, <3>3, <3>4 DEF SettingsInv, UserInv
  <2>6. FactorInv'
    <3>1. SUFFICES ASSUME "factor" \notin late'
                   PROVE  FactorInv'
      BY DEF FactorInv
    <3>2. FactorIsTrue => FactorIsTrue'
      BY DEF Eases, Fresh, FactorIsTrue, server
    <3>3. ASSUME NEW d, FactorFollows(d)
          PROVE  FactorFollows(d)'
      BY <3>3 DEF Eases, Fresh, FactorFollows, Same, server
    <3>4. FactorIsTrue => FactorFollows(q)'
      <4>1. form'.phase = "enrolling" => q.op \notin {"start", "disable"}
        BY <1>2 DEF Asks
      <4>2. form'.codes # 0 => q.op # "regenerate"
        BY <1>2 DEF Asks
      <4>. QED  BY <2>1, <3>2, <4>1, <4>2 DEF FactorFollows, FactorIsTrue
    <3>. QED  BY <2>1, <2>4, <3>1, <3>2, <3>3, <3>4 DEF SettingsInv, FactorInv
  <2>7. ListInv'
    <3>1. SUFFICES ASSUME "list" \notin late'
                   PROVE  ListInv'
      BY DEF ListInv
    <3>2. ListIsTrue => ListIsTrue'
      BY DEF Eases, Fresh, ListIsTrue, server
    <3>3. ASSUME NEW d, ListFollows(d)
          PROVE  ListFollows(d)'
      BY <3>2, <3>3 DEF Eases, Fresh, ListFollows, Same, server
    <3>4. ListIsTrue => ListFollows(q)'
      BY <2>1, <3>2 DEF ListFollows
    <3>. QED  BY <2>1, <2>4, <3>1, <3>2, <3>3, <3>4 DEF SettingsInv, ListInv
  <2>8. SessionInv'
    BY <2>1, <2>2 DEF SettingsInv, SessionInv, server
  <2>. QED  BY <2>3, <2>5, <2>6, <2>7, <2>8 DEF SettingsInv
<1>. QED  BY <1>1, <1>2

-----------------------------------------------------------------------------
\* What a request makes of the row.
LEMMA MadeOf ==
  ASSUME person \in Person, NEW q, Shaped(q), NEW r \in Made(q)
  PROVE  /\ valid /\ r \in Person
         /\ q.op # "unblock" => r.blocked = person.blocked
         /\ q.op \notin {"verify", "disable", "save", "upload", "url"} => PublicOf(r) = PublicOf(person)
         /\ q.op \notin {"start", "disable"} => r.secret = person.secret
         /\ q.op \notin {"verify", "regenerate"} => r.batch = person.batch
         /\ q.op = "url" => r = [person EXCEPT !.profile["avatar"] = r.profile["avatar"]]
<1>1. valid /\ q.column \in Column /\ q.value \in BOOLEAN /\ q.peer \in Peer \cup {NoPeer}
  BY DEF Made, Shaped, Asked
<1>. DEFINE n == person.drawn + 1
<1>0. n \in Nat
  BY DEF Person
<1>2. CASE q.op = "start"
  <2>1. r = [person EXCEPT !.drawn = n, !.secret = n]
    BY <1>1, <1>2 DEF Made, Draws, Person
  <2>. HIDE DEF n
  <2>. QED  BY <1>0, <1>1, <1>2, <2>1 DEF Person, PublicOf
<1>3. CASE q.op = "verify"
  <2>1. r = [person EXCEPT !.drawn = n, !.on = TRUE, !.batch = n]
    BY <1>1, <1>3 DEF Made, Draws, Person
  <2>. HIDE DEF n
  <2>. QED  BY <1>0, <1>1, <1>3, <2>1 DEF Person
<1>4. CASE q.op = "disable"
  <2>1. r = [person EXCEPT !.on = FALSE, !.secret = 0]
    BY <1>1, <1>4 DEF Made
  <2>. QED  BY <1>1, <1>4, <2>1 DEF Person
<1>5. CASE q.op = "regenerate"
  <2>1. r = [person EXCEPT !.drawn = n, !.batch = n]
    BY <1>1, <1>5 DEF Made, Draws, Person
  <2>. HIDE DEF n
  <2>. QED  BY <1>0, <1>1, <1>5, <2>1 DEF Person, PublicOf
<1>6. CASE q.op \in {"save", "upload", "url"}
  <2>1. r = [person EXCEPT !.profile[q.column] = q.value]
    BY <1>1, <1>6 DEF Made
  <2>2. q.op = "url" => q.column = "avatar"
    BY DEF Shaped
  <2>3. r \in Person
    BY <1>1, <2>1 DEF Person
  <2>. QED  BY <1>1, <1>6, <2>1, <2>2, <2>3 DEF Person
<1>7. CASE q.op = "unblock"
  BY <1>1, <1>7 DEF Made, Person, PublicOf
<1>8. CASE q.op \notin {"start", "verify", "disable", "regenerate", "save", "upload", "url", "unblock"}
  BY <1>1, <1>8 DEF Made
<1>. QED  BY <1>2, <1>3, <1>4, <1>5, <1>6, <1>7, <1>8

\* One that goes on about the same sections.
LEMMA TurnedIn ==
  ASSUME BagTyped, NEW q \in Under, NEW d, Turn(q, d), d.op = q.op, d.after = q.after, NEW s, Only(s)
  PROVE  /\ Only(s)' /\ Touching(s)' = IF s \in About(q) THEN {d} ELSE Touching(s)
         /\ s \in About(q) => Touching(s) = {q}
<1>1. About(d) = About(q)
  BY DEF About
<1>2. s \in About(q) => Touching(s) = {q}
  BY DEF Touching, Only
<1>3. s \notin About(q) => q \notin Touching(s)
  BY DEF Touching
<1>. QED  BY <1>1, <1>2, <1>3, TurningIn

\* How a request q is handled, that becomes d.
HandledAs(q, d) ==
  /\ q.at = "sent" /\ Turn(q, d) /\ Shaped(d) /\ d.op = q.op /\ d.after = q.after /\ d.mount = q.mount
  /\ late \subseteq late' /\ UNCHANGED <<user, signedIn, tab, shown, form>>
  /\ \/ /\ person' \in Made(q) /\ valid' = (valid /\ q.op \notin {"everywhere", "delete", "logout"})
        /\ \/ d.at = "done" /\ d.seen = person' /\ d.number = Drawn(q, person')
           \/ d.at = "failed" /\ d.number = q.number /\ Section(q.op) \subseteq late'
     \/ /\ UNCHANGED server /\ d.at = "failed" /\ d.number = q.number
        /\ q.op \in {"me", "list"} => Section(q.op) \subseteq late'

LEMMA HandleKinds ==
  ASSUME SettingsTyped, NEW q \in Under, Handle(q)
  PROVE  \E d : HandledAs(q, d)
<1>1. Shaped(q) /\ person \in Person /\ q.at = "sent" /\ UNCHANGED <<user, signedIn, tab, shown, form>>
  BY DEF SettingsTyped, Handle
<1>2. PICK f : f = [q EXCEPT !.at = "failed"]
  OBVIOUS
<1>3. Shaped(f) /\ f.op = q.op /\ f.after = q.after /\ f.mount = q.mount /\ f.number = q.number /\ f.at = "failed"
  BY <1>1, <1>2 DEF Shaped, Asked
<1>4. ASSUME NEW r \in Made(q), person' = r, valid' = (valid /\ q.op \notin {"everywhere", "delete", "logout"}),
             Turn(q, [q EXCEPT !.at = "done", !.seen = r, !.number = Drawn(q, r)]), UNCHANGED late
      PROVE  \E d : HandledAs(q, d)
  <2>1. r \in Person /\ Drawn(q, r) \in Nat
    BY <1>1, MadeOf DEF Drawn, Shaped, Asked, Person
  <2>2. PICK d : d = [q EXCEPT !.at = "done", !.seen = r, !.number = Drawn(q, r)]
    OBVIOUS
  <2>3. /\ Shaped(d) /\ d.op = q.op /\ d.after = q.after /\ d.mount = q.mount /\ d.at = "done"
        /\ d.seen = r /\ d.number = Drawn(q, r)
    BY <1>1, <2>1, <2>2 DEF Shaped, Asked
  <2>4. Turn(q, d)
    BY <1>4, <2>2
  <2>5. HandledAs(q, d)
    BY <1>1, <1>4, <2>3, <2>4 DEF HandledAs
  <2>. QED  BY <2>5
<1>5. ASSUME NEW r \in Made(q), person' = r, valid' = (valid /\ q.op \notin {"everywhere", "delete", "logout"}),
             Turn(q, f), late' = late \cup Section(q.op)
      PROVE  HandledAs(q, f)
  BY <1>1, <1>3, <1>5 DEF HandledAs
<1>6. ASSUME Turn(q, f), UNCHANGED server, late' = IF q.op \in {"me", "list"} THEN late \cup Section(q.op) ELSE late
      PROVE  HandledAs(q, f)
  BY <1>1, <1>3, <1>6 DEF HandledAs
<1>. QED  BY <1>2, <1>4, <1>5, <1>6 DEF Handle

LEMMA HandleKeeps ==
  ASSUME SettingsInv, NEW q \in Under, Handle(q)
  PROVE  SettingsInv'
<1>1. /\ SettingsTyped /\ BagTyped /\ person \in Person /\ Shaped(q) /\ q.op \in Op
      /\ q.after \in {"none", "verify", "disable", "save", "upload"} /\ (q.op = "me" <=> q.after # "none")
  BY DEF SettingsInv, SettingsTyped, Shaped, Asked
<1>2. PICK d : HandledAs(q, d)
  BY <1>1, HandleKinds
<1>3. /\ q.at = "sent" /\ Turn(q, d) /\ Shaped(d) /\ d.op = q.op /\ d.after = q.after /\ d.mount = q.mount
      /\ late \subseteq late' /\ UNCHANGED <<user, signedIn, tab, shown, form>>
  BY <1>2 DEF HandledAs
<1>4. \A s : Only(s) =>
        /\ Only(s)' /\ Touching(s)' = IF s \in About(q) THEN {d} ELSE Touching(s)
        /\ s \in About(q) => Touching(s) = {q}
  BY <1>1, <1>3, TurnedIn
<1>5. BagTyped' /\ Under' = {e \in Under : e # q \/ requests[e] # 1} \cup {d}
  BY <1>1, <1>3, Turning
<1>6. SettingsTyped'
  <2>1. person' \in Person
    BY <1>1, <1>2, MadeOf DEF HandledAs, server
  <2>. QED  BY <1>1, <1>3, <1>5, <2>1 DEF SettingsTyped, Shaped
<1>7. UserInv'
  <2>1. SUFFICES ASSUME "user" \notin late'
                 PROVE  UserInv'
    BY DEF UserInv
  <2>2. /\ Only("user") /\ (Touching("user") = {} => UserIsTrue) /\ \A e \in Touching("user") : UserFollows(e)
    BY <1>3, <2>1 DEF SettingsInv, UserInv
  <2>3. CASE "user" \notin About(q)
    <3>1. PublicOf(person') = PublicOf(person)
      <4>1. q.op \notin {"verify", "disable", "save", "upload", "url"}
        BY <2>3, SectionOf DEF About
      <4>. QED  BY <1>1, <1>2, <4>1, MadeOf DEF HandledAs, server
    <3>2. UserIsTrue' = UserIsTrue /\ \A e : UserFollows(e)' = UserFollows(e)
      BY <1>3, <3>1 DEF UserIsTrue, UserFollows
    <3>. QED  BY <1>4, <2>2, <2>3, <3>2 DEF UserInv
  <2>4. CASE "user" \in About(q)
    <3>1. UserFollows(q) /\ (q.op # "me" => UserIsTrue)
      BY <1>3, <1>4, <2>2, <2>4 DEF UserFollows
    <3>2. ~(Section(q.op) \subseteq late')
      BY <1>1, <2>1, <2>4, SectionOf DEF About
    <3>3. CASE person' \in Made(q) /\ d.at = "done" /\ d.seen = person'
      <4>1. ASSUME q.op = "url"
            PROVE  [user EXCEPT !.profile["avatar"] = person'.profile["avatar"]] = PublicOf(person')
        <5>1. person' = [person EXCEPT !.profile["avatar"] = person'.profile["avatar"]] /\ person' \in Person
          BY <1>1, <3>3, <4>1, MadeOf
        <5>2. user = PublicOf(person)
          BY <3>1, <4>1 DEF UserIsTrue
        <5>. QED  BY <1>1, <5>1, <5>2 DEF PublicOf, Person
      <4>2. UserFollows(d)'
        BY <1>3, <3>3, <4>1 DEF UserFollows
      <4>. QED  BY <1>4, <2>2, <2>4, <4>2 DEF UserInv
    <3>4. CASE UNCHANGED server /\ d.at = "failed" /\ q.op # "me"
      <4>1. UserFollows(d)'
        BY <1>3, <3>1, <3>4 DEF UserFollows, UserIsTrue, server
      <4>. QED  BY <1>4, <2>2, <2>4, <4>1 DEF UserInv
    <3>. QED  BY <1>2, <3>2, <3>3, <3>4 DEF HandledAs
  <2>. QED  BY <2>3, <2>4
<1>8. FactorInv'
  <2>1. SUFFICES ASSUME "factor" \notin late'
                 PROVE  FactorInv'
    BY DEF FactorInv
  <2>2. /\ Only("factor") /\ (Touching("factor") = {} => FactorIsTrue)
        /\ \A e \in Touching("factor") : FactorFollows(e)
    BY <1>3, <2>1 DEF SettingsInv, FactorInv
  <2>3. CASE "factor" \notin About(q)
    <3>1. person'.secret = person.secret /\ person'.batch = person.batch
      <4>1. q.op \notin {"start", "disable", "verify", "regenerate"}
        BY <2>3, SectionOf DEF About
      <4>. QED  BY <1>1, <1>2, <4>1, MadeOf DEF HandledAs, server
    <3>2. (FactorIsTrue => FactorIsTrue') /\ \A e : FactorFollows(e) => FactorFollows(e)'
      BY <1>3, <3>1 DEF FactorIsTrue, FactorFollows, Same
    <3>. QED  BY <1>4, <2>2, <2>3, <3>2 DEF FactorInv
  <2>4. CASE "factor" \in About(q)
    <3>1. FactorFollows(q)
      BY <1>4, <2>2, <2>4
    <3>2. q.op \in {"start", "disable", "verify", "regenerate"} \/ (q.op = "me" /\ q.after \in {"verify", "disable"})
      BY <1>1, <2>4, SectionOf DEF About
    <3>3. FactorFollows(d)'
      <4>1. Same(d)' = Same(q)
        BY <1>3 DEF Same
      <4>2. CASE person' \in Made(q) /\ d.at = "done" /\ d.number = Drawn(q, person')
        <5>1. /\ q.op \notin {"start", "disable"} => person'.secret = person.secret
              /\ q.op \notin {"verify", "regenerate"} => person'.batch = person.batch
          BY <1>1, <4>2, MadeOf
        <5>. QED  BY <1>1, <1>3, <3>1, <3>2, <4>1, <4>2, <5>1 DEF FactorFollows, Drawn
      <4>3. CASE UNCHANGED server /\ d.at = "failed" /\ d.number = q.number
        BY <1>1, <1>3, <3>1, <3>2, <4>1, <4>3 DEF FactorFollows, server
      <4>4. CASE d.at = "failed" /\ Section(q.op) \subseteq late' /\ person' \in Made(q) /\ d.number = q.number
        <5>1. q.op = "me"
          BY <2>1, <3>2, <4>4, SectionOf
        <5>2. person'.secret = person.secret /\ person'.batch = person.batch
          BY <1>1, <4>4, <5>1, MadeOf
        <5>. QED  BY <1>1, <1>3, <3>1, <4>1, <4>4, <5>1, <5>2 DEF FactorFollows
      <4>. QED  BY <1>2, <4>2, <4>3, <4>4 DEF HandledAs
    <3>. QED  BY <1>4, <2>2, <2>4, <3>3 DEF FactorInv
  <2>. QED  BY <2>3, <2>4
<1>9. ListInv'
  <2>1. SUFFICES ASSUME "list" \notin late'
                 PROVE  ListInv'
    BY DEF ListInv
  <2>2. /\ Only("list") /\ (Touching("list") = {} => ListIsTrue) /\ \A e \in Touching("list") : ListFollows(e)
    BY <1>3, <2>1 DEF SettingsInv, ListInv
  <2>3. CASE "list" \notin About(q)
    <3>1. person'.blocked = person.blocked
      <4>1. q.op # "unblock"
        BY <2>3, SectionOf DEF About
      <4>. QED  BY <1>1, <1>2, <4>1, MadeOf DEF HandledAs, server
    <3>2. (ListIsTrue => ListIsTrue') /\ \A e : ListFollows(e) => ListFollows(e)'
      BY <1>3, <3>1 DEF ListIsTrue, ListFollows, Same
    <3>. QED  BY <1>4, <2>2, <2>3, <3>2 DEF ListInv
  <2>4. CASE "list" \in About(q)
    <3>1. ListFollows(q) /\ (q.op = "unblock" => ListIsTrue)
      BY <1>3, <1>4, <2>2, <2>4 DEF ListFollows
    <3>2. q.op \in {"list", "unblock"} /\ "list" \in Section(q.op)
      BY <1>1, <2>4, SectionOf DEF About
    <3>3. ListFollows(d)'
      <4>1. Same(d)' = Same(q)
        BY <1>3 DEF Same
      <4>2. CASE d.at = "done" /\ d.seen = person'
        BY <1>3, <3>1, <4>1, <4>2 DEF ListFollows
      <4>3. CASE UNCHANGED server /\ d.at = "failed" /\ q.op = "unblock"
        BY <1>3, <3>1, <4>1, <4>3 DEF ListFollows, ListIsTrue, server
      <4>. QED  BY <1>2, <2>1, <3>2, <4>2, <4>3 DEF HandledAs
    <3>. QED  BY <1>4, <2>2, <2>4, <3>3 DEF ListInv
  <2>. QED  BY <2>3, <2>4
<1>10. SessionInv'
  <2>1. SUFFICES ASSUME "session" \notin late', signedIn', ~valid'
                 PROVE  \E e \in Under' : e.op = "logout" \/ (e.op \in {"everywhere", "delete"} /\ e.at = "done")
    BY DEF SessionInv
  <2>2. CASE valid
    <3>1. person' \in Made(q) /\ q.op \in {"everywhere", "delete", "logout"}
      BY <1>2, <2>1, <2>2 DEF HandledAs, server
    <3>2. ~(Section(q.op) \subseteq late')
      BY <2>1, <3>1, SectionOf
    <3>3. d.op = "logout" \/ (d.op \in {"everywhere", "delete"} /\ d.at = "done")
      BY <1>2, <1>3, <2>1, <2>2, <3>1, <3>2 DEF HandledAs, server
    <3>. QED  BY <1>5, <3>3
  <2>3. CASE ~valid
    <3>1. PICK e \in Under : e.op = "logout" \/ (e.op \in {"everywhere", "delete"} /\ e.at = "done")
      BY <1>3, <2>1, <2>3 DEF SettingsInv, SessionInv
    <3>. QED  BY <1>3, <1>5, <3>1
  <2>. QED  BY <2>2, <2>3
<1>. QED  BY <1>6, <1>7, <1>8, <1>9, <1>10 DEF SettingsInv

-----------------------------------------------------------------------------
\* What follows the answer to q, where something does.
GoesOn(q, d) ==
  /\ q.at = "done" /\ Turn(q, d) /\ Shaped(d) /\ d.at = "sent"
  /\ \/ /\ q.op \in {"verify", "disable", "save", "upload"} /\ d.op = "me" /\ d.after = q.op
        /\ d.number = q.number /\ d.mount = q.mount
     \/ q.op = "unblock" /\ d.op = "list" /\ d.after = "none" /\ d.mount = q.mount
     \/ q.op \in {"everywhere", "delete"} /\ d.op = "logout" /\ d.after = "none"

\* What an answer does to each section.
ToUser(q) ==
  user' = IF q.at = "done" /\ q.op = "me" THEN PublicOf(q.seen)
          ELSE IF q.at = "done" /\ q.op = "url" THEN [user EXCEPT !.profile["avatar"] = q.seen.profile["avatar"]]
          ELSE user
ToFactor(q) ==
  \/ form' = Fresh
  \/ /\ form'.phase = form.phase /\ form'.secret = form.secret /\ form'.codes = form.codes
     /\ q.after = "verify" => ~Same(q)
  \/ /\ Same(q) /\ q.op = "start" /\ q.at = "done"
     /\ form'.phase = "enrolling" /\ form'.secret = q.number /\ form'.codes = form.codes
  \/ Same(q) /\ q.op = "me" /\ q.after = "verify" /\ form'.phase = "idle" /\ form'.codes = q.number
  \/ Same(q) /\ q.op = "me" /\ q.after = "disable" /\ form'.phase = "idle" /\ form'.codes = form.codes
  \/ /\ Same(q) /\ q.op = "regenerate" /\ q.at = "done"
     /\ form'.codes = q.number /\ form'.phase = form.phase /\ form'.secret = form.secret
ToList(q) ==
  \/ form' = Fresh
  \/ (form'.loaded => form.loaded) /\ form'.blocked = form.blocked /\ (q.op = "list" => ~Same(q))
  \/ Same(q) /\ q.op = "list" /\ (q.at = "done" => form'.blocked = q.seen.blocked)

\* What an answer may do.
Answers(q) ==
  /\ q.at # "sent" /\ UNCHANGED <<server, late, shown>> /\ form' \in Sheet
  /\ ToUser(q) /\ ToFactor(q) /\ ToList(q)
  /\ \/ UNCHANGED <<tab, signedIn>>
     \/ q.op = "logout" /\ form' = Fresh /\ ~signedIn'
  /\ \/ /\ Drop(q) /\ (q.op = "logout" => ~signedIn')
        /\ q.at = "done" => q.op \in {"start", "me", "url", "regenerate", "list", "logout"}
     \/ \E d : GoesOn(q, d)

\* The form with a flag gone, and what else an answer writes.
LEMMA FreeTyped ==
  ASSUME form \in Sheet, NEW flag, NEW n \in Nat, NEW b \in SUBSET Peer
  PROVE  LET free == Free(flag) IN
         /\ free \in Sheet /\ free.phase = form.phase /\ free.secret = form.secret /\ free.codes = form.codes
         /\ free.loaded = form.loaded /\ free.blocked = form.blocked
BY DEF Free, Sheet

LEMMA WrittenTyped ==
  ASSUME NEW f \in Sheet, NEW n \in Nat, NEW b \in SUBSET Peer
  PROVE  /\ [f EXCEPT !.phase = "enrolling", !.secret = n] \in Sheet
         /\ [f EXCEPT !.phase = "idle", !.secret = 0, !.codes = n] \in Sheet
         /\ [f EXCEPT !.phase = "idle"] \in Sheet
         /\ [f EXCEPT !.codes = n] \in Sheet
         /\ [f EXCEPT !.loaded = TRUE, !.blocked = b] \in Sheet
BY DEF Sheet

LEMMA HearKinds ==
  ASSUME SettingsTyped, NEW q \in Under, Hear(q)
  PROVE  Answers(q)
<1>1. /\ Shaped(q) /\ q \in Asked /\ form \in Sheet /\ Fresh \in Sheet /\ shown \in Nat /\ q.number \in Nat
      /\ q.seen.blocked \in SUBSET Peer /\ form.blocked \in SUBSET Peer
      /\ (q.op = "me" <=> q.after # "none") /\ q.op \in Op
  BY SheetTyped DEF SettingsTyped, Shaped, Asked, Sheet, Person
<1>2. Heard => UNCHANGED <<server, late, shown, tab, signedIn>>
  BY DEF Heard
<1>3. \A flag : /\ Free(flag) \in Sheet /\ Free(flag).phase = form.phase /\ Free(flag).secret = form.secret
                /\ Free(flag).codes = form.codes /\ Free(flag).loaded = form.loaded
                /\ Free(flag).blocked = form.blocked
  BY <1>1, FreeTyped
<1>4. ASSUME NEW flag, FormSet(q, Free(flag)) \/ UNCHANGED form, q.op # "me", q.op # "list"
      PROVE  form' \in Sheet /\ ToFactor(q) /\ ToList(q)
  BY <1>1, <1>3, <1>4 DEF FormSet, ToFactor, ToList
<1>5. CASE Started(q)
  <2>1. q.op = "start" /\ q.at # "sent" /\ Drop(q) /\ UNCHANGED user /\ Heard
    BY <1>5 DEF Started
  <2>2. form' \in Sheet /\ ToFactor(q) /\ ToList(q)
    <3>1. CASE q.at = "failed"
      BY <1>4, <1>5, <2>1, <3>1 DEF Started
    <3>2. CASE q.at # "failed"
      <4>1. q.at = "done"
        BY <1>1, <2>1, <3>2 DEF Asked
      <4>2. PICK f \in Sheet : f = Free("factor")
        BY <1>3
      <4>3. FormSet(q, [f EXCEPT !.phase = "enrolling", !.secret = q.number])
        BY <1>5, <3>2, <4>2 DEF Started
      <4>4. [f EXCEPT !.phase = "enrolling", !.secret = q.number] \in Sheet
        BY <1>1, WrittenTyped
      <4>5. CASE Same(q)
        <5>1. form' = [f EXCEPT !.phase = "enrolling", !.secret = q.number]
          BY <4>3, <4>5 DEF FormSet
        <5>2. /\ form'.phase = "enrolling" /\ form'.secret = q.number /\ form'.codes = f.codes
              /\ form'.loaded = f.loaded /\ form'.blocked = f.blocked
          BY <5>1 DEF Sheet
        <5>. QED  BY <1>3, <2>1, <4>1, <4>2, <4>4, <4>5, <5>1, <5>2 DEF ToFactor, ToList
      <4>6. CASE ~Same(q)
        BY <1>1, <2>1, <4>3, <4>6 DEF FormSet, ToFactor, ToList
      <4>. QED  BY <4>5, <4>6
    <3>. QED  BY <3>1, <3>2
  <2>. QED  BY <1>2, <2>1, <2>2 DEF Answers, ToUser
<1>6. CASE Saved(q)
  <2>1. q.op \in {"verify", "disable", "save", "upload"} /\ q.at # "sent" /\ UNCHANGED user /\ Heard
    BY <1>6 DEF Saved
  <2>2. form' \in Sheet /\ ToFactor(q) /\ ToList(q)
    BY <1>4, <1>6, <2>1 DEF Saved
  <2>3. CASE q.at = "done"
    <3>1. PICK d : d = [q EXCEPT !.op = "me", !.after = q.op, !.at = "sent"]
      OBVIOUS
    <3>2. /\ Shaped(d) /\ d.op = "me" /\ d.after = q.op /\ d.at = "sent" /\ d.number = q.number
          /\ d.mount = q.mount
      BY <1>1, <2>1, <3>1 DEF Shaped, Asked, Op
    <3>3. Turn(q, d)
      BY <1>6, <2>3, <3>1 DEF Saved
    <3>4. GoesOn(q, d)
      BY <2>1, <2>3, <3>2, <3>3 DEF GoesOn
    <3>. QED  BY <1>2, <2>1, <2>2, <3>4 DEF Answers, ToUser
  <2>4. CASE q.at # "done"
    BY <1>2, <1>6, <2>1, <2>2, <2>4 DEF Answers, ToUser, Saved
  <2>. QED  BY <2>3, <2>4
<1>7. CASE Refreshed(q)
  <2>1. q.op = "me" /\ q.at # "sent" /\ Drop(q) /\ Heard /\ ToUser(q)
    BY <1>7 DEF Refreshed, ToUser
  <2>2. CASE ~Same(q)
    <3>1. UNCHANGED form
      BY <1>7, <2>2 DEF Refreshed, FormSet
    <3>. QED  BY <1>1, <1>2, <2>1, <2>2, <3>1 DEF Answers, ToFactor, ToList
  <2>3. CASE Same(q)
    <3>1. PICK f \in Sheet : f = Free(Flag(q.after))
      BY <1>3
    <3>2. form' = CASE q.after = "verify" -> [f EXCEPT !.phase = "idle", !.secret = 0, !.codes = q.number]
                    [] q.after = "disable" -> [f EXCEPT !.phase = "idle"]
                    [] OTHER -> f
      BY <1>7, <2>3, <3>1 DEF Refreshed, FormSet
    <3>3. /\ q.after = "verify" => form' = [f EXCEPT !.phase = "idle", !.secret = 0, !.codes = q.number]
          /\ q.after = "disable" => form' = [f EXCEPT !.phase = "idle"]
          /\ q.after \notin {"verify", "disable"} => form' = f
      BY <3>2
    <3>4. /\ [f EXCEPT !.phase = "idle", !.secret = 0, !.codes = q.number] \in Sheet
          /\ [f EXCEPT !.phase = "idle"] \in Sheet
      BY <1>1, WrittenTyped
    <3>5. form' \in Sheet /\ form'.loaded = f.loaded /\ form'.blocked = f.blocked
      BY <3>3, <3>4 DEF Sheet
    <3>6. /\ q.after = "verify" => form'.phase = "idle" /\ form'.codes = q.number
          /\ q.after = "disable" => form'.phase = "idle" /\ form'.codes = f.codes
      BY <3>3 DEF Sheet
    <3>7. ToFactor(q)
      BY <1>3, <2>1, <2>3, <3>1, <3>3, <3>6 DEF ToFactor
    <3>8. ToList(q)
      BY <1>3, <2>1, <3>1, <3>5 DEF ToList
    <3>. QED  BY <1>2, <2>1, <3>5, <3>7, <3>8 DEF Answers
  <2>. QED  BY <2>2, <2>3
<1>8. CASE UrlSaved(q)
  <2>1. q.op = "url" /\ q.at # "sent" /\ Drop(q) /\ Heard /\ FormSet(q, Free("avatar")) /\ ToUser(q)
    BY <1>8 DEF UrlSaved, ToUser
  <2>. QED  BY <1>2, <1>4, <2>1 DEF Answers
<1>9. CASE Regenerated(q)
  <2>1. q.op = "regenerate" /\ q.at # "sent" /\ Drop(q) /\ UNCHANGED user /\ Heard
    BY <1>9 DEF Regenerated
  <2>2. form' \in Sheet /\ ToFactor(q) /\ ToList(q)
    <3>1. CASE UNCHANGED form
      BY <1>4, <2>1, <3>1
    <3>2. CASE Same(q) /\ q.at = "done" /\ form' = [form EXCEPT !.codes = q.number]
      <4>1. form' \in Sheet
        BY <1>1, <3>2, WrittenTyped
      <4>2. /\ form'.codes = q.number /\ form'.phase = form.phase /\ form'.secret = form.secret
            /\ form'.loaded = form.loaded /\ form'.blocked = form.blocked
        BY <1>1, <3>2 DEF Sheet
      <4>. QED  BY <2>1, <3>2, <4>1, <4>2 DEF ToFactor, ToList
    <3>. QED  BY <1>9, <3>1, <3>2 DEF Regenerated, FormSet
  <2>. QED  BY <1>2, <2>1, <2>2 DEF Answers, ToUser
<1>10. CASE Listed(q)
  <2>1. q.op = "list" /\ q.at # "sent" /\ Drop(q) /\ UNCHANGED user /\ Heard
    BY <1>10 DEF Listed
  <2>2. CASE ~Same(q)
    <3>1. UNCHANGED form
      BY <1>10, <2>2 DEF Listed, FormSet
    <3>. QED  BY <1>1, <1>2, <2>1, <2>2, <3>1 DEF Answers, ToUser, ToFactor, ToList
  <2>3. CASE Same(q)
    <3>1. PICK b \in SUBSET Peer : b = IF q.at = "done" THEN q.seen.blocked ELSE form.blocked
      BY <1>1
    <3>2. form' = [form EXCEPT !.loaded = TRUE, !.blocked = b]
      BY <1>10, <2>3, <3>1 DEF Listed, FormSet
    <3>3. form' \in Sheet
      BY <1>1, <3>2, WrittenTyped
    <3>4. /\ form'.blocked = b /\ form'.phase = form.phase /\ form'.secret = form.secret
          /\ form'.codes = form.codes
      BY <1>1, <3>2 DEF Sheet
    <3>5. ToFactor(q) /\ ToList(q)
      BY <1>1, <2>1, <2>3, <3>1, <3>4 DEF ToFactor, ToList
    <3>. QED  BY <1>2, <2>1, <3>3, <3>5 DEF Answers, ToUser
  <2>. QED  BY <2>2, <2>3
<1>11. CASE Unblocked(q)
  <2>1. q.op = "unblock" /\ q.at # "sent" /\ UNCHANGED <<user, form>> /\ Heard
    BY <1>11 DEF Unblocked
  <2>2. CASE q.at = "done"
    <3>1. PICK d : d = [q EXCEPT !.op = "list", !.at = "sent"]
      OBVIOUS
    <3>2. Shaped(d) /\ d.op = "list" /\ d.after = "none" /\ d.at = "sent" /\ d.mount = q.mount
      BY <1>1, <2>1, <3>1 DEF Shaped, Asked, Op
    <3>3. Turn(q, d)
      BY <1>11, <2>2, <3>1 DEF Unblocked
    <3>4. GoesOn(q, d)
      BY <2>1, <2>2, <3>2, <3>3 DEF GoesOn
    <3>. QED  BY <1>2, <1>4, <2>1, <3>4 DEF Answers, ToUser
  <2>3. CASE q.at # "done"
    BY <1>2, <1>4, <1>11, <2>1, <2>3 DEF Answers, ToUser, Unblocked
  <2>. QED  BY <2>2, <2>3
<1>12. CASE SignsOut(q)
  <2>1. q.op \in {"everywhere", "delete"} /\ q.at # "sent" /\ UNCHANGED user /\ Heard
    BY <1>12 DEF SignsOut
  <2>2. form' \in Sheet /\ ToFactor(q) /\ ToList(q)
    BY <1>4, <1>12, <2>1 DEF SignsOut, FormSet
  <2>3. CASE q.at = "done"
    <3>1. PICK d : d = NewAsk("logout")
      OBVIOUS
    <3>2. Shaped(d) /\ d.op = "logout" /\ d.after = "none" /\ d.at = "sent"
      BY <1>1, <3>1, NewAskIs DEF AskOf, Shaped, Op
    <3>3. Turn(q, d)
      BY <1>12, <2>3, <3>1 DEF SignsOut
    <3>4. GoesOn(q, d)
      BY <2>1, <2>3, <3>2, <3>3 DEF GoesOn
    <3>. QED  BY <1>2, <2>1, <2>2, <3>4 DEF Answers, ToUser
  <2>4. CASE q.at # "done"
    BY <1>2, <1>12, <2>1, <2>2, <2>4 DEF Answers, ToUser, SignsOut
  <2>. QED  BY <2>3, <2>4
<1>13. CASE SignedOut(q)
  BY <1>1, <1>13 DEF SignedOut, Leave, Answers, ToUser, ToFactor, ToList
<1>. QED  BY <1>5, <1>6, <1>7, <1>8, <1>9, <1>10, <1>11, <1>12, <1>13 DEF Hear

\* The sections that are left when an answer is heard.
LEMMA AnsweredIn ==
  ASSUME BagTyped, NEW q \in Under, Shaped(q), Answers(q), NEW s \in {"user", "factor", "list"}, Only(s)
  PROVE  /\ Only(s)' /\ (s \in About(q) => Touching(s) = {q}) /\ BagTyped'
         /\ \/ /\ Drop(q) /\ Touching(s)' = IF s \in About(q) THEN {} ELSE Touching(s)
               /\ q.at = "done" => q.op \in {"start", "me", "url", "regenerate", "list", "logout"}
            \/ \E d : GoesOn(q, d) /\ Touching(s)' = IF s \in About(q) THEN {d} ELSE Touching(s)
<1>1. (s \in About(q) => Touching(s) = {q}) /\ (s \notin About(q) => q \notin Touching(s))
  BY DEF Touching, Only
<1>2. CASE Drop(q) /\ (q.at = "done" => q.op \in {"start", "me", "url", "regenerate", "list", "logout"})
  <2>1. Only(s)' /\ BagTyped' /\ Touching(s)' = Touching(s) \ {r \in {q} : s \in About(q)}
    BY <1>2, Dropping, DroppingIn
  <2>. QED  BY <1>1, <1>2, <2>1
<1>3. ASSUME NEW d, GoesOn(q, d)
      PROVE  /\ Only(s)' /\ BagTyped'
             /\ Touching(s)' = IF s \in About(q) THEN {d} ELSE Touching(s)
  <2>1. Turn(q, d)
    BY <1>3 DEF GoesOn
  <2>2. s \in About(d) <=> s \in About(q)
    BY <1>3, SectionOf DEF GoesOn, About, Shaped
  <2>. QED  BY <1>1, <2>1, <2>2, Turning, TurningIn
<1>. QED  BY <1>1, <1>2, <1>3 DEF Answers

LEMMA HearKeeps ==
  ASSUME SettingsInv, NEW q \in Under, Hear(q)
  PROVE  SettingsInv'
<1>1. /\ SettingsTyped /\ BagTyped /\ Shaped(q) /\ q \in Asked /\ (q.op = "me" <=> q.after # "none")
      /\ q.op \in Op /\ q.after \in {"none", "verify", "disable", "save", "upload"}
      /\ q.at \in {"sent", "done", "failed"} /\ q.seen \in Person
  BY DEF SettingsInv, SettingsTyped, Shaped, Asked
<1>2. Answers(q)
  BY <1>1, HearKinds
<1>3. /\ q.at \in {"done", "failed"} /\ UNCHANGED <<person, valid, late, shown>> /\ form' \in Sheet
      /\ ToUser(q) /\ ToFactor(q) /\ ToList(q)
      /\ UNCHANGED <<tab, signedIn>> \/ form' = Fresh
  BY <1>1, <1>2 DEF Answers, server
<1>4. BagTyped' /\ \A e \in Under' : e \in Under \/ GoesOn(q, e)
  BY <1>1, <1>2, Dropping, Turning DEF Answers, GoesOn
<1>5. SettingsTyped'
  <2>1. user' \in Public
    BY <1>1, <1>3 DEF ToUser, PublicOf, Public, Person, SettingsTyped, Column
  <2>. QED  BY <1>1, <1>3, <1>4, <2>1 DEF SettingsTyped, GoesOn, Shaped
<1>6. UserInv'
  <2>1. SUFFICES ASSUME "user" \notin late
                 PROVE  UserInv'
    BY <1>3 DEF UserInv
  <2>2. /\ Only("user") /\ (Touching("user") = {} => UserIsTrue) /\ \A e \in Touching("user") : UserFollows(e)
    BY <2>1 DEF SettingsInv, UserInv
  <2>3. /\ Only("user")' /\ ("user" \in About(q) => Touching("user") = {q})
        /\ \/ /\ Drop(q) /\ Touching("user")' = IF "user" \in About(q) THEN {} ELSE Touching("user")
              /\ q.at = "done" => q.op \in {"start", "me", "url", "regenerate", "list", "logout"}
           \/ \E d : GoesOn(q, d) /\ Touching("user")' = IF "user" \in About(q) THEN {d} ELSE Touching("user")
    BY <1>1, <1>2, <2>2, AnsweredIn
  <2>4. CASE "user" \notin About(q)
    <3>1. UNCHANGED user
      BY <1>3, <2>4, SectionOf DEF About, ToUser
    <3>2. UserIsTrue' = UserIsTrue /\ \A e : UserFollows(e)' = UserFollows(e)
      BY <1>3, <3>1 DEF UserIsTrue, UserFollows
    <3>. QED  BY <2>2, <2>3, <2>4, <3>2 DEF UserInv
  <2>5. CASE "user" \in About(q)
    <3>1. /\ UserFollows(q) /\ Touching("user") = {q}
          /\ q.op \in {"verify", "disable", "save", "upload", "url", "me"}
      BY <1>1, <2>2, <2>3, <2>5, SectionOf DEF About
    <3>2. CASE Drop(q) /\ Touching("user")' = {} /\ (q.at = "done" => q.op \in {"url", "me"})
      <4>1. UserIsTrue'
        BY <1>3, <3>1, <3>2 DEF UserIsTrue, UserFollows, ToUser
      <4>. QED  BY <2>3, <3>2, <4>1 DEF UserInv
    <3>3. ASSUME NEW d, GoesOn(q, d), Touching("user")' = {d}
          PROVE  UserInv'
      <4>1. d.op = "me" /\ d.at = "sent"
        BY <3>1, <3>3 DEF GoesOn
      <4>2. UserFollows(d)'
        BY <4>1 DEF UserFollows
      <4>. QED  BY <2>3, <3>3, <4>2 DEF UserInv
    <3>. QED  BY <2>3, <2>5, <3>1, <3>2, <3>3
  <2>. QED  BY <2>4, <2>5
<1>7. FactorInv'
  <2>1. SUFFICES ASSUME "factor" \notin late
                 PROVE  FactorInv'
    BY <1>3 DEF FactorInv
  <2>2. /\ Only("factor") /\ (Touching("factor") = {} => FactorIsTrue)
        /\ \A e \in Touching("factor") : FactorFollows(e)
    BY <2>1 DEF SettingsInv, FactorInv
  <2>3. /\ Only("factor")' /\ ("factor" \in About(q) => Touching("factor") = {q})
        /\ \/ /\ Drop(q) /\ Touching("factor")' = IF "factor" \in About(q) THEN {} ELSE Touching("factor")
              /\ q.at = "done" => q.op \in {"start", "me", "url", "regenerate", "list", "logout"}
           \/ \E d : /\ GoesOn(q, d)
                    /\ Touching("factor")' = IF "factor" \in About(q) THEN {d} ELSE Touching("factor")
    BY <1>1, <1>2, <2>2, AnsweredIn
  <2>4. CASE "factor" \notin About(q)
    <3>1. \/ form' = Fresh
          \/ form'.phase = form.phase /\ form'.secret = form.secret /\ form'.codes = form.codes
      BY <1>1, <1>3, <2>4, SectionOf DEF About, ToFactor
    <3>2. FactorIsTrue => FactorIsTrue'
      BY <1>3, <3>1 DEF FactorIsTrue, Fresh
    <3>3. ASSUME NEW e, FactorFollows(e)
          PROVE  FactorFollows(e)'
      BY <1>3, <3>1, <3>3 DEF FactorFollows, Fresh, Same
    <3>. QED  BY <2>2, <2>3, <2>4, <3>2, <3>3 DEF FactorInv
  <2>5. CASE "factor" \in About(q)
    <3>1. FactorFollows(q) /\ q.op # "logout"
      BY <1>1, <2>2, <2>3, <2>5, SectionOf DEF About
    <3>2. q.op \in {"start", "verify", "disable", "regenerate"} \/ (q.op = "me" /\ q.after \in {"verify", "disable"})
      BY <1>1, <2>5, SectionOf DEF About
    <3>3. CASE Drop(q) /\ Touching("factor")' = {} /\ (q.at = "done" => q.op \in {"start", "me", "regenerate"})
      <4>1. FactorIsTrue'
        BY <1>1, <1>3, <3>1, <3>2, <3>3 DEF FactorIsTrue, FactorFollows, ToFactor, Fresh
      <4>. QED  BY <2>3, <3>3, <4>1 DEF FactorInv
    <3>4. ASSUME NEW d, GoesOn(q, d), Touching("factor")' = {d}
          PROVE  FactorInv'
      <4>1. /\ d.op = "me" /\ d.at = "sent" /\ d.after = q.op /\ d.number = q.number /\ d.mount = q.mount
            /\ q.op \in {"verify", "disable"} /\ q.at = "done" /\ q.after = "none"
        BY <1>1, <3>2, <3>4 DEF GoesOn
      <4>2. /\ form'.phase = form.phase /\ form'.secret = form.secret /\ form'.codes = form.codes
            \/ form' = Fresh
        BY <1>3, <4>1 DEF ToFactor
      <4>3. FactorFollows(d)'
        BY <1>3, <3>1, <4>1, <4>2 DEF FactorFollows, Fresh, Same
      <4>. QED  BY <2>3, <3>4, <4>3 DEF FactorInv
    <3>. QED  BY <2>3, <2>5, <3>2, <3>3, <3>4
  <2>. QED  BY <2>4, <2>5
<1>8. ListInv'
  <2>1. SUFFICES ASSUME "list" \notin late
                 PROVE  ListInv'
    BY <1>3 DEF ListInv
  <2>2. /\ Only("list") /\ (Touching("list") = {} => ListIsTrue) /\ \A e \in Touching("list") : ListFollows(e)
    BY <2>1 DEF SettingsInv, ListInv
  <2>3. /\ Only("list")' /\ ("list" \in About(q) => Touching("list") = {q})
        /\ \/ /\ Drop(q) /\ Touching("list")' = IF "list" \in About(q) THEN {} ELSE Touching("list")
              /\ q.at = "done" => q.op \in {"start", "me", "url", "regenerate", "list", "logout"}
           \/ \E d : GoesOn(q, d) /\ Touching("list")' = IF "list" \in About(q) THEN {d} ELSE Touching("list")
    BY <1>1, <1>2, <2>2, AnsweredIn
  <2>4. CASE "list" \notin About(q)
    <3>1. form' = Fresh \/ ((form'.loaded => form.loaded) /\ form'.blocked = form.blocked)
      BY <1>1, <1>3, <2>4, SectionOf DEF About, ToList
    <3>2. ListIsTrue => ListIsTrue'
      BY <1>3, <3>1 DEF ListIsTrue, Fresh, Sheet
    <3>3. ASSUME NEW e, ListFollows(e)
          PROVE  ListFollows(e)'
      BY <1>3, <3>1, <3>2, <3>3 DEF ListFollows, Fresh, Same
    <3>. QED  BY <2>2, <2>3, <2>4, <3>2, <3>3 DEF ListInv
  <2>5. CASE "list" \in About(q)
    <3>1. ListFollows(q) /\ q.op \in {"list", "unblock"}
      BY <1>1, <2>2, <2>3, <2>5, SectionOf DEF About
    <3>2. CASE Drop(q) /\ Touching("list")' = {} /\ (q.at = "done" => q.op = "list")
      <4>1. ListIsTrue'
        BY <1>1, <1>3, <3>1, <3>2 DEF ListIsTrue, ListFollows, ToList, Fresh, Sheet
      <4>. QED  BY <2>3, <3>2, <4>1 DEF ListInv
    <3>3. ASSUME NEW d, GoesOn(q, d), Touching("list")' = {d}
          PROVE  ListInv'
      <4>1. d.op = "list" /\ d.at = "sent" /\ d.mount = q.mount /\ q.op = "unblock"
        BY <3>1, <3>3 DEF GoesOn
      <4>2. form' = Fresh \/ ((form'.loaded => form.loaded) /\ form'.blocked = form.blocked)
        BY <1>3, <4>1 DEF ToList
      <4>3. ListFollows(d)'
        BY <1>3, <3>1, <4>1, <4>2 DEF ListFollows, Fresh, Same
      <4>. QED  BY <2>3, <3>3, <4>3 DEF ListInv
    <3>. QED  BY <2>3, <2>5, <3>1, <3>2, <3>3
  <2>. QED  BY <2>4, <2>5
<1>9. SessionInv'
  <2>1. SUFFICES ASSUME "session" \notin late, signedIn', ~valid
                 PROVE  \E e \in Under' : e.op = "logout" \/ (e.op \in {"everywhere", "delete"} /\ e.at = "done")
    BY <1>3 DEF SessionInv
  <2>2. signedIn
    BY <1>2, <2>1 DEF Answers
  <2>3. PICK e \in Under : e.op = "logout" \/ (e.op \in {"everywhere", "delete"} /\ e.at = "done")
    BY <2>1, <2>2 DEF SettingsInv, SessionInv
  <2>4. CASE /\ Drop(q) /\ (q.op = "logout" => ~signedIn')
             /\ q.at = "done" => q.op \in {"start", "me", "url", "regenerate", "list", "logout"}
    <3>1. e # q
      BY <2>1, <2>3, <2>4
    <3>. QED  BY <1>1, <2>3, <2>4, <3>1, Dropping
  <2>5. ASSUME NEW d, GoesOn(q, d)
        PROVE  \E x \in Under' : x.op = "logout" \/ (x.op \in {"everywhere", "delete"} /\ x.at = "done")
    <3>1. Turn(q, d) /\ (q.op \in {"everywhere", "delete"} => d.op = "logout") /\ q.op # "logout"
      BY <2>5 DEF GoesOn
    <3>. QED  BY <1>1, <2>3, <3>1, Turning
  <2>. QED  BY <1>2, <2>4, <2>5 DEF Answers
<1>. QED  BY <1>5, <1>6, <1>7, <1>8, <1>9 DEF SettingsInv

LEMMA SettingsStep ==
  ASSUME SettingsInv, [AccountNext]_accountVars
  PROVE  SettingsInv'
<1>1. SettingsTyped
  BY DEF SettingsInv
<1>2. CASE UNCHANGED accountVars
  <2>1. /\ UNCHANGED <<server, user, signedIn, tab, shown, form, requests, late>>
    BY <1>2 DEF accountVars
  <2>2. Eases /\ form' \in Sheet /\ shown' \in Nat
    BY <1>1, <2>1 DEF Eases, SettingsTyped
  <2>. QED  BY <2>1, <2>2, PressKeeps
<1>3. ASSUME NEW q \in Under, Handle(q) \/ Hear(q)
      PROVE  SettingsInv'
  BY <1>3, HandleKeeps, HearKeeps
<1>4. CASE AccountNext /\ ~\E q \in Under : Handle(q) \/ Hear(q)
  BY <1>1, <1>4, PressKinds, PressKeeps DEF AccountNext
<1>. QED  BY <1>2, <1>3, <1>4

LEMMA SettingsStart == AccountInit => SettingsInv
<1>. SUFFICES ASSUME AccountInit
              PROVE  SettingsInv
  OBVIOUS
<1>1. Under = {} /\ \A s : Touching(s) = {}
  BY DEF AccountInit, EmptyBag, SetToBag, Under, BagToSet, Touching
<1>2. person \in Person /\ user \in Public /\ form \in Sheet /\ shown \in Nat /\ user = PublicOf(person)
  BY DEF AccountInit, Blank, Person, Public, PublicOf, Fresh, Sheet, Column
<1>3. FactorIsTrue /\ ListIsTrue /\ valid
  BY DEF AccountInit, Fresh, FactorIsTrue, ListIsTrue
<1>. QED  BY <1>1, <1>2, <1>3 DEF SettingsInv, SettingsTyped, BagTyped, UserInv, FactorInv, ListInv, SessionInv,
                                  Only, UserIsTrue

\* The account tab tells the truth once nothing is under way, whatever the user
\* pressed and in whatever order the answers came.
THEOREM AccountCorrect == AccountSpec => []AccountSettles
<1>1. SettingsInv => AccountSettles
  <2>. SUFFICES ASSUME SettingsInv, requests = EmptyBag, signedIn
                PROVE  AccountSettles
    BY DEF AccountSettles
  <2>1. Under = {} /\ \A s : Touching(s) = {}
    BY DEF EmptyBag, SetToBag, Under, BagToSet, Touching
  <2>. QED  BY <2>1 DEF SettingsInv, UserInv, FactorInv, ListInv, SessionInv, UserIsTrue, FactorIsTrue, ListIsTrue,
                        AccountSettles
<1>. QED  BY <1>1, SettingsStart, SettingsStep, PTL DEF AccountSpec
=============================================================================
