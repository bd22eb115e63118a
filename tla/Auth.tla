-------------------------------- MODULE Auth --------------------------------
(***************************************************************************)
(* apps/server/src/auth/routes.ts with middleware.ts, jwt.ts, totp.ts and  *)
(* the account deletion of users/routes.ts: accounts, sessions, password   *)
(* reset, the second factor and its backup codes.                          *)
(*                                                                         *)
(* One process runs every request, so a request is suspended only at its   *)
(* awaits: each action below is the code between two of them, and a        *)
(* request keeps in its frame what it read before and will use after.      *)
(* A refused request changes nothing and is not an action.                 *)
(***************************************************************************)
EXTENDS Naturals, FiniteSets

CONSTANTS
  User,           \* ids of User rows, one e-mail address each
  Req,            \* requests in progress
  Token,          \* e-mail token values
  EmailEnabled,   \* SMTP is configured
  NoRow, NoToken, NoCall,
  NoAccount,      \* the id was never registered
  \* Bounds: how often a run may draw a new value.
  MaxPassword,    \* passwords set after the first one
  MaxSecret,      \* TOTP secrets generated
  MaxStep,        \* 30-second steps of the clock
  MaxBatch,       \* batches of backup codes issued
  CodesPerBatch,  \* codes in a batch (10 in the code)
  MaxSession      \* sessions created

Kind == {"verify", "reset"}
Code == (1 .. MaxBatch) \X (1 .. CodesPerBatch)

VARIABLES
  users, row, minted, call, latest, granted,   \* EmailTokens
  account,      \* account[u]: the columns of u's User row; the last ones, once deleted
  sessions,     \* Session rows ever created; live until revoked or deleted
  codes,        \* TotpBackupCode rows: <<batch, number>>, with usedAt
  intents,      \* two-factor tokens in circulation (signed for 5 minutes)
  clock,        \* the current 30-second step
  req           \* req[r]: the frame of request r

Tokens == INSTANCE EmailTokens WITH Caller <- Req

tokenVars == <<users, row, minted, call, latest, granted>>
factorVars == <<codes, intents, clock>>
vars == <<tokenVars, account, sessions, factorVars, req>>

\* Passwords, secrets and batches are drawn fresh, so their number identifies
\* them; 0 is the password of register, and null for the rest.
Account ==
  [password : 0 .. MaxPassword, verified : BOOLEAN, secret : 0 .. MaxSecret,
   enabled : BOOLEAN,
   drawn : 0 .. MaxSecret,       \* history: the secret generated last
   lastStep : 0 .. MaxStep + 1,
   batch : 0 .. MaxBatch,       \* history: the batch issued last
   escrow : SUBSET (0 .. MaxPassword)]   \* the password it is wrapped under, if any

\* The bounds are numbers, and the clock can be at its first steps.
ASSUME AuthAssumption ==
  /\ Tokens!SentinelAssumption
  /\ EmailEnabled \in BOOLEAN /\ NoAccount \notin Account
  /\ {MaxPassword, MaxSecret, MaxBatch, CodesPerBatch, MaxSession} \subseteq Nat
  /\ MaxStep \in Nat /\ MaxStep >= 2

\* What a session was opened with: nothing but the password, a TOTP step of a
\* secret, or a backup code.
Factor ==
  {<<"password">>} \cup
  ({"totp"} \X (1 .. MaxSecret) \X (1 .. MaxStep + 1)) \cup ({"code"} \X Code)

Session == [id : 1 .. MaxSession, user : User, password : 0 .. MaxPassword,
            factor : Factor, live : BOOLEAN]

Intent == [user : User, password : 0 .. MaxPassword]

-----------------------------------------------------------------------------
(* Frames: where a request is suspended and what it holds.                 *)

Idle == [at |-> "idle"]

Frame ==
  {Idle}
  \cup [at : {"mail"}, user : User, kind : Kind, next : {"idle", "session"}]
  \cup [at : {"session"}, user : User, password : 0 .. MaxPassword, factor : Factor]
  \cup [at : {"stamp"}, user : User, password : 0 .. MaxPassword,
        secret : 1 .. MaxSecret, step : 1 .. MaxStep + 1]
  \cup [at : {"backup"}, user : User, password : 0 .. MaxPassword]
  \cup [at : {"spend"}, user : User, password : 0 .. MaxPassword, code : Code]
  \cup [at : {"authed"}, user : User, sid : 1 .. MaxSession, password : 0 .. MaxPassword]
  \cup [at : {"stage", "enable", "codes", "disable", "delete", "verified", "newhash"},
        user : User]
  \cup [at : {"burning"}, kind : Kind]

TypeOK ==
  /\ Tokens!TypeOK
  /\ account \in [User -> Account \cup {NoAccount}]
  /\ sessions \subseteq Session
  /\ codes \in [User -> SUBSET [code : Code, used : BOOLEAN]]
  /\ intents \subseteq Intent
  /\ clock \in 2 .. MaxStep
  /\ req \in [Req -> Frame]

NewAccount ==
  [password |-> 0, verified |-> ~EmailEnabled, secret |-> 0, enabled |-> FALSE,
   drawn |-> 0, lastStep |-> 0, batch |-> 0, escrow |-> {}]

Init ==
  /\ users = {}
  /\ Tokens!TokensInit
  /\ account = [u \in User |-> NoAccount]
  /\ sessions = {}
  /\ codes = [u \in User |-> {}]
  /\ intents = {}
  /\ clock = 2
  /\ req = [r \in Req |-> Idle]

At(r, place) == req[r].at = place
Goto(r, frame) == req' = [req EXCEPT ![r] = frame]

\* Bound: a session can still be created for every request under way.
RoomForSession ==
  Cardinality(sessions) + Cardinality({r \in Req : req[r].at \notin {"idle", "authed"}})
    < MaxSession

-----------------------------------------------------------------------------
(* POST /auth/register.  A taken address violates the unique index and the  *)
(* request ends with no effect.                                            *)

Register(r, u) ==
  /\ At(r, "idle") /\ RoomForSession
  /\ account[u] = NoAccount
  /\ Tokens!AddUser(u)
  /\ account' = [account EXCEPT ![u] = NewAccount]
  /\ IF EmailEnabled
     THEN Goto(r, [at |-> "mail", user |-> u, kind |-> "verify", next |-> "session"])
     ELSE Goto(r, [at |-> "session", user |-> u, password |-> 0, factor |-> <<"password">>])
  /\ UNCHANGED <<sessions, factorVars>>

\* Where a request goes once its mail is sent, or sending it failed.
AfterMail(r) ==
  IF req[r].next = "session"
  THEN [at |-> "session", user |-> req[r].user, password |-> 0, factor |-> <<"password">>]
  ELSE Idle

\* issueEmailToken and sendMail.
Mail(r, t) ==
  /\ At(r, "mail")
  /\ Tokens!Issue(req[r].user, req[r].kind, t)
  /\ Goto(r, AfterMail(r))
  /\ UNCHANGED <<account, sessions, factorVars>>

\* Issuing or sending fails; every caller logs the error and goes on.
MailFails(r) ==
  /\ At(r, "mail")
  /\ Goto(r, AfterMail(r))
  /\ UNCHANGED <<tokenVars, account, sessions, factorVars>>

-----------------------------------------------------------------------------
(* POST /auth/login and /auth/login/totp.                                  *)

\* The user row is read once; verifyPassword and the two-factor gate use what
\* was read.  The presented password is the one on record at that moment.
LoginRead(r, u) ==
  /\ At(r, "idle") /\ u \in users /\ RoomForSession
  /\ IF account[u].enabled /\ account[u].secret # 0
     THEN /\ intents' = intents \cup {[user |-> u, password |-> account[u].password]}
          /\ UNCHANGED req
     ELSE /\ Goto(r, [at |-> "session", user |-> u, password |-> account[u].password,
                      factor |-> <<"password">>])
          /\ UNCHANGED intents
  /\ UNCHANGED <<tokenVars, account, sessions, codes, clock>>

\* login/totp reads the user and matches a six-digit code: window 1 accepts the
\* steps around the current one, steps up to the stored one are replays.
TotpRead(r, i, step) ==
  /\ At(r, "idle") /\ RoomForSession
  /\ i.user \in users /\ account[i.user].secret # 0
  /\ step \in (clock - 1) .. (clock + 1)
  /\ step > account[i.user].lastStep
  /\ Goto(r, [at |-> "stamp", user |-> i.user, password |-> i.password,
              secret |-> account[i.user].secret, step |-> step])
  /\ UNCHANGED <<tokenVars, account, sessions, factorVars>>

\* The step is stored, whatever is stored by then; the update fails when the
\* row is gone.
TotpStamp(r) ==
  /\ At(r, "stamp")
  /\ IF req[r].user \in users
     THEN /\ account' = [account EXCEPT ![req[r].user].lastStep = req[r].step]
          /\ Goto(r, [at |-> "session", user |-> req[r].user, password |-> req[r].password,
                      factor |-> <<"totp", req[r].secret, req[r].step>>])
     ELSE /\ Goto(r, Idle)
          /\ UNCHANGED account
  /\ UNCHANGED <<tokenVars, sessions, factorVars>>

\* login/totp with a code that is no TOTP code: consumeBackupCode comes next.
BackupRead(r, i) ==
  /\ At(r, "idle") /\ RoomForSession
  /\ i.user \in users /\ account[i.user].secret # 0
  /\ Goto(r, [at |-> "backup", user |-> i.user, password |-> i.password])
  /\ UNCHANGED <<tokenVars, account, sessions, factorVars>>

\* findFirst of an unused code.
BackupFind(r, c) ==
  /\ At(r, "backup")
  /\ [code |-> c, used |-> FALSE] \in codes[req[r].user]
  /\ Goto(r, [at |-> "spend", user |-> req[r].user, password |-> req[r].password, code |-> c])
  /\ UNCHANGED <<tokenVars, account, sessions, factorVars>>

\* findFirst finds nothing (wrong, used or withdrawn code): refused.
BackupRefused(r) ==
  /\ At(r, "backup")
  /\ Goto(r, Idle)
  /\ UNCHANGED <<tokenVars, account, sessions, factorVars>>

\* Variant with a plausible fault, only for the mutation runs: the code is
\* found but never marked.
BackupSpendUnmarked(r) ==
  /\ At(r, "spend")
  /\ Goto(r, [at |-> "session", user |-> req[r].user, password |-> req[r].password,
              factor |-> <<"code", req[r].code>>])
  /\ UNCHANGED <<tokenVars, account, sessions, factorVars>>

\* The update of consumeBackupCode is by row id: it marks the row again if it
\* was marked meanwhile, and fails if the row is gone.
BackupSpend(r) ==
  LET u == req[r].user
      c == req[r].code
      found == {b \in codes[u] : b.code = c}
  IN  /\ At(r, "spend")
      /\ IF found # {}
         THEN /\ codes' = [codes EXCEPT ![u] = (@ \ found) \cup {[code |-> c, used |-> TRUE]}]
              /\ Goto(r, [at |-> "session", user |-> u, password |-> req[r].password,
                          factor |-> <<"code", c>>])
         ELSE /\ Goto(r, Idle)
              /\ UNCHANGED codes
      /\ UNCHANGED <<tokenVars, account, sessions, intents, clock>>

\* session.create: the last await of register and of both logins.  The
\* foreign key refuses a deleted user.
CreateSession(r) ==
  /\ At(r, "session")
  /\ sessions' = IF req[r].user \in users
                 THEN sessions \cup
                        {[id |-> Cardinality(sessions) + 1, user |-> req[r].user,
                          password |-> req[r].password, factor |-> req[r].factor,
                          live |-> TRUE]}
                 ELSE sessions
  /\ Goto(r, Idle)
  /\ UNCHANGED <<tokenVars, account, factorVars>>
-----------------------------------------------------------------------------
(* Requests behind requireAuth: the session row is read first, the handler *)
(* runs later, whatever happened to the session meanwhile.                 *)

RequireAuth(r, s) ==
  /\ At(r, "idle") /\ s \in sessions /\ s.live
  /\ Goto(r, [at |-> "authed", user |-> s.user, sid |-> s.id, password |-> s.password])
  /\ UNCHANGED <<tokenVars, account, sessions, factorVars>>

\* updateMany where revokedAt is null.
Revoke(S) == sessions' = (sessions \ S) \cup {[s EXCEPT !.live = FALSE] : s \in S}

\* POST /auth/logout.
Logout(r) ==
  /\ At(r, "authed")
  /\ Revoke({s \in sessions : s.id = req[r].sid})
  /\ Goto(r, Idle)
  /\ UNCHANGED <<tokenVars, account, factorVars>>

\* POST /auth/logout-all.
LogoutAll(r) ==
  /\ At(r, "authed")
  /\ Revoke({s \in sessions : s.user = req[r].user})
  /\ Goto(r, Idle)
  /\ UNCHANGED <<tokenVars, account, factorVars>>

\* PUT /auth/e2ee/wrapped-key: the client wraps under the password it used.
PutWrappedKey(r) ==
  /\ At(r, "authed") /\ req[r].user \in users
  /\ account' = [account EXCEPT ![req[r].user].escrow = {req[r].password}]
  /\ Goto(r, Idle)
  /\ UNCHANGED <<tokenVars, sessions, factorVars>>

\* The user row each of these handlers reads before it decides: which place
\* it goes on to, when it does not refuse.  verifyPassword and the TOTP code
\* are checked against this row.
Admits(place, a) ==
  CASE place = "mail"    -> EmailEnabled /\ ~a.verified   \* verify-email/resend
    [] place = "stage"   -> ~a.enabled /\ a.drawn < MaxSecret   \* 2fa/enroll-start
    [] place = "enable"  -> a.secret # 0                  \* 2fa/enroll-verify
    [] place = "codes"   -> a.enabled /\ a.batch < MaxBatch     \* 2fa/backup-codes
    [] place = "disable" -> TRUE                          \* 2fa/disable
    [] place = "delete"  -> TRUE                          \* DELETE /me

ReadUser(r, place) ==
  LET u == req[r].user
  IN  /\ At(r, "authed") /\ u \in users
      /\ Admits(place, account[u])
      /\ Goto(r, IF place = "mail"
                 THEN [at |-> "mail", user |-> u, kind |-> "verify", next |-> "idle"]
                 ELSE [at |-> place, user |-> u])
      /\ UNCHANGED <<tokenVars, account, sessions, factorVars>>

\* An update of a user row: it fails, and ends the request, when the row is gone.
UpdateUser(r, newRow, frame) ==
  IF req[r].user \in users
  THEN /\ account' = [account EXCEPT ![req[r].user] = newRow]
       /\ Goto(r, frame)
  ELSE /\ Goto(r, Idle)
       /\ UNCHANGED account

\* enroll-start stores a fresh secret over whatever is there.
StageSecret(r) ==
  LET a == account[req[r].user]
      fresh == a.drawn + 1
  IN  /\ At(r, "stage") /\ a.drawn < MaxSecret
      /\ UpdateUser(r, [a EXCEPT !.secret = fresh, !.drawn = fresh], Idle)
      /\ UNCHANGED <<tokenVars, sessions, factorVars>>

\* enroll-verify stores totpEnabledAt only, then issues backup codes.
EnableTotp(r) ==
  /\ At(r, "enable")
  /\ UpdateUser(r, [account[req[r].user] EXCEPT !.enabled = TRUE],
                [at |-> "codes", user |-> req[r].user])
  /\ UNCHANGED <<tokenVars, sessions, factorVars>>

\* Variant: a new batch is added to the codes that are there.
IssueMoreBackupCodes(r) ==
  LET u == req[r].user
      b == account[u].batch + 1
  IN  /\ At(r, "codes") /\ b <= MaxBatch
      /\ UpdateUser(r, [account[u] EXCEPT !.batch = b], Idle)
      /\ codes' = [codes EXCEPT ![u] = @ \cup {[code |-> <<b, n>>, used |-> FALSE] :
                                                n \in 1 .. CodesPerBatch}]
      /\ UNCHANGED <<tokenVars, sessions, intents, clock>>

\* issueBackupCodes: delete all, create a batch, in one transaction.
IssueBackupCodes(r) ==
  LET u == req[r].user
      b == account[u].batch + 1
  IN  /\ At(r, "codes") /\ b <= MaxBatch
      /\ UpdateUser(r, [account[u] EXCEPT !.batch = b], Idle)
      /\ codes' = IF u \in users
                  THEN [codes EXCEPT ![u] = {[code |-> <<b, n>>, used |-> FALSE] :
                                               n \in 1 .. CodesPerBatch}]
                  ELSE codes
      /\ UNCHANGED <<tokenVars, sessions, intents, clock>>

\* 2fa/disable: lastTotpStep and the backup codes stay.
DisableTotp(r) ==
  /\ At(r, "disable")
  /\ UpdateUser(r, [account[req[r].user] EXCEPT !.secret = 0, !.enabled = FALSE], Idle)
  /\ UNCHANGED <<tokenVars, sessions, factorVars>>

\* DELETE /me: sessions, tokens and backup codes cascade.
DeleteAccount(r) ==
  LET u == req[r].user
  IN  /\ At(r, "delete")
      /\ IF u \in users
         THEN /\ Tokens!RemoveUser(u)
              /\ Revoke({s \in sessions : s.user = u})
              /\ codes' = [codes EXCEPT ![u] = {}]
         ELSE UNCHANGED <<tokenVars, sessions, codes>>
      /\ Goto(r, Idle)
      /\ UNCHANGED <<account, intents, clock>>

-----------------------------------------------------------------------------
(* Links: /auth/verify-email and /auth/password-reset.                     *)

\* password-reset/request for a registered address.
RequestReset(r, u) ==
  /\ At(r, "idle") /\ EmailEnabled /\ u \in users
  /\ Goto(r, [at |-> "mail", user |-> u, kind |-> "reset", next |-> "idle"])
  /\ UNCHANGED <<tokenVars, account, sessions, factorVars>>

\* Either handler presents the token to consumeEmailToken.
Present(r, t, k) ==
  /\ At(r, "idle")
  /\ Tokens!Lookup(r, t, k)
  /\ Goto(r, [at |-> "burning", kind |-> k])
  /\ UNCHANGED <<account, sessions, factorVars>>

\* Variants: the token is taken without being burned, and the count of the
\* burn is ignored.
TokenTakenUnburned(r) ==
  /\ At(r, "burning") /\ row[call[r]] # NoRow
  /\ granted' = [granted EXCEPT ![call[r]] = @ + 1]
  /\ call' = [call EXCEPT ![r] = NoCall]
  /\ Goto(r, [at |-> IF req[r].kind = "verify" THEN "verified" ELSE "newhash",
              user |-> row[call[r]].user])
  /\ UNCHANGED <<users, row, minted, latest, account, sessions, factorVars>>

TokenCountIgnored(r) ==
  /\ At(r, "burning") /\ row[call[r]] # NoRow
  /\ Tokens!BurnMisses(r)
  /\ Goto(r, [at |-> IF req[r].kind = "verify" THEN "verified" ELSE "newhash",
              user |-> row[call[r]].user])
  /\ UNCHANGED <<account, sessions, factorVars>>

\* consumeEmailToken returns the user id: verify-email goes on to the user
\* row, password-reset/confirm to hashing the new password.
TokenAccepted(r) ==
  /\ At(r, "burning")
  /\ Tokens!Burn(r)
  /\ Goto(r, [at |-> IF req[r].kind = "verify" THEN "verified" ELSE "newhash",
              user |-> row[call[r]].user])
  /\ UNCHANGED <<account, sessions, factorVars>>

\* It returns null: refused.
TokenRefused(r) ==
  /\ At(r, "burning")
  /\ Tokens!BurnMisses(r)
  /\ Goto(r, Idle)
  /\ UNCHANGED <<account, sessions, factorVars>>

\* verify-email stores emailVerifiedAt.
MarkVerified(r) ==
  /\ At(r, "verified")
  /\ UpdateUser(r, [account[req[r].user] EXCEPT !.verified = TRUE], Idle)
  /\ UNCHANGED <<tokenVars, sessions, factorVars>>

\* password-reset/confirm: the new hash, the verified address, no escrow and
\* no session, in one transaction.
ResetPassword(r) ==
  LET u == req[r].user
      a == account[u]
  IN  /\ At(r, "newhash") /\ a.password < MaxPassword
      /\ UpdateUser(r, [a EXCEPT !.password = @ + 1, !.verified = TRUE, !.escrow = {}],
                    Idle)
      /\ IF u \in users THEN Revoke({s \in sessions : s.user = u}) ELSE UNCHANGED sessions
      /\ UNCHANGED <<tokenVars, factorVars>>

-----------------------------------------------------------------------------
\* Time: the TOTP clock, two-factor tokens and e-mail tokens.
Tick ==
  /\ clock < MaxStep
  /\ clock' = clock + 1
  /\ UNCHANGED <<tokenVars, account, sessions, codes, intents, req>>

ExpireIntent(i) ==
  /\ intents' = intents \ {i}
  /\ UNCHANGED <<tokenVars, account, sessions, codes, clock, req>>

ExpireToken(t) ==
  /\ Tokens!Expire(t)
  /\ UNCHANGED <<account, sessions, factorVars, req>>

Next ==
  \/ \E r \in Req, u \in User : Register(r, u) \/ LoginRead(r, u) \/ RequestReset(r, u)
  \/ \E r \in Req, t \in Token : Mail(r, t) \/ \E k \in Kind : Present(r, t, k)
  \/ \E r \in Req, i \in intents :
       BackupRead(r, i) \/ \E step \in 1 .. MaxStep + 1 : TotpRead(r, i, step)
  \/ \E r \in Req, c \in Code : BackupFind(r, c)
  \/ \E r \in Req, s \in sessions : RequireAuth(r, s)
  \/ \E r \in Req, place \in {"mail", "stage", "enable", "codes", "disable", "delete"} :
       ReadUser(r, place)
  \/ \E r \in Req :
       \/ MailFails(r) \/ TotpStamp(r) \/ BackupRefused(r) \/ BackupSpend(r) \/ CreateSession(r)
       \/ Logout(r) \/ LogoutAll(r) \/ PutWrappedKey(r)
       \/ StageSecret(r) \/ EnableTotp(r) \/ IssueBackupCodes(r) \/ DisableTotp(r)
       \/ DeleteAccount(r)
       \/ TokenAccepted(r) \/ TokenRefused(r) \/ MarkVerified(r) \/ ResetPassword(r)
  \/ Tick
  \/ \E i \in intents : ExpireIntent(i)
  \/ \E t \in Token : ExpireToken(t)

Spec == Init /\ [][Next]_vars
-----------------------------------------------------------------------------
(* Properties.                                                             *)

\* Every password set after registration was paid for with one reset token of
\* the account, and every reset token accepted sets one password or is about
\* to (password-reset/confirm, over any interleaving of links, requests and
\* deletions).
PasswordChangesSpendTokens ==
  \A u \in users :
    account[u].password + Cardinality({r \in Req : req[r].at = "newhash" /\ req[r].user = u})
      = Cardinality({t \in Token : row[t] # NoRow /\ row[t].user = u /\ row[t].kind = "reset"
                                   /\ row[t].used})

\* A session opened with a backup code of the current batch found the code
\* spent and nothing gives the code back (consumeBackupCode and
\* issueBackupCodes, suspended between lookup, update and session.create).
CodeSessionsSpentTheirCode ==
  \A s \in sessions :
    s.user \in users /\ s.factor[1] = "code" /\ s.factor[2][1] = account[s.user].batch
      => [code |-> s.factor[2], used |-> TRUE] \in codes[s.user]

\* Regenerating the codes withdraws all the previous ones, also when two
\* regenerations, or one and an enrolment, overlap: what can be spent is the
\* batch shown last (issueBackupCodes).
OnlyLastBatchSpendable ==
  \A u \in users : \A x \in codes[u] : x.code[1] = account[u].batch

\* The e-mail tokens keep their promise under the handlers that use them.
TokensAreOneShot == Tokens!OneShotSpec

=============================================================================
