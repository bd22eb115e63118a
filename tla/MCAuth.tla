------------------------------- MODULE MCAuth -------------------------------
(***************************************************************************)
(* Accounts at the server, and the settings of the client that use them,   *)
(* side by side: a behaviour is one of one part, whose stage it is.  They  *)
(* share no state that the models keep.  Requests of Auth differ only in   *)
(* their names.                                                            *)
(***************************************************************************)
EXTENDS Auth, AccountSettings, TLC

CONSTANTS p, q    \* people the user has blocked

VARIABLE stage

AccountWorld(ops, n) == [ops |-> ops, acts |-> n]
AccountWorlds ==
  { AccountWorld({"factor"}, 5), AccountWorld({"profile", "avatar"}, 3), AccountWorld({"factor", "loss", "leave"}, 2),
    AccountWorld({"blocked", "loss"}, 3), AccountWorld({"blocked", "leave", "profile"}, 2), AccountWorld({"devices", "mac"}, 0) }

\* A part whose stage it is not has one initial state.
AccountsInit ==
  /\ stage \in {"server", "settings"}
  /\ Init /\ AccountInit
  /\ stage # "settings" => does = CHOOSE w \in Profiles : TRUE

AccountsNext ==
  \/ stage = "server" /\ Next /\ UNCHANGED <<stage, accountVars>>
  \/ stage = "settings" /\ AccountNext /\ UNCHANGED <<stage, vars>>

AccountsSpec == AccountsInit /\ [][AccountsNext]_<<stage, vars, accountVars>>

RequestSymmetry == Permutations(Req)

SecretDrawn == \E u \in User : account[u] # NoAccount /\ account[u].drawn > 0
CodesIssued == \E u \in User : account[u] # NoAccount /\ account[u].batch > 0

\* Bounds: a run is about mails, links and the escrow or about the second factor
\* (all that the handlers of both write is the user's row), and the clock moves
\* only where no backup codes were issued.
OneStory ==
  /\ SecretDrawn => /\ minted = {} /\ \A r \in Req : ~At(r, "mail")
              /\ \A u \in users : account[u].escrow = {}
  /\ clock > 2 => ~CodesIssued
=============================================================================
