-------------------------------- MODULE MCStart --------------------------------
(***************************************************************************)
(* How the desktop client comes up: the main process with its window, and  *)
(* the sign-in of its devices, side by side.  A behaviour is one of one    *)
(* part, whose stage it is; they share no state that the models keep.      *)
(***************************************************************************)
EXTENDS SignIn, Shell

CONSTANTS ann, ben, d1, d2,    \* accounts and devices
          toRoom, toInvite     \* links

VARIABLE stage

NoLegacy == [d \in {d1, d2} |-> None]
SignInWorld(ops, devices, known, escrowed, guarded, bare, legacy, moved, failed) ==
  [ops |-> ops, devices |-> devices, known |-> known, escrowed |-> escrowed, guarded |-> guarded,
   bare |-> bare, legacy |-> legacy, moves |-> moved, faults |-> failed]
SignInWorlds ==
  { SignInWorld({"register", "crash", "verify"}, {d1}, {}, {}, {}, {ann}, NoLegacy, 5, 1),
    SignInWorld({"register", "crash"}, {d1}, {ben}, {ben}, {}, {}, NoLegacy, 6, 0),
    SignInWorld({"reset", "keys"}, {d1, d2}, {ann}, {ann}, {}, {}, NoLegacy, 5, 0),
    SignInWorld({"restore", "refresh"}, {d1}, {ann, ben}, {ann}, {ben}, {}, NoLegacy, 6, 0),
    SignInWorld({"keyring", "crash"}, {d1}, {ann, ben}, {ann}, {}, {}, [NoLegacy EXCEPT ![d1] = ann], 6, 0),
    SignInWorld({"reset", "refresh", "crash"}, {d1}, {ann}, {}, {ann}, {}, [NoLegacy EXCEPT ![d1] = ann], 6, 1) }

ShellSetup(ops, self, mac, links) == [ops |-> ops, self |-> self, mac |-> mac, links |-> links]
MCShellProfiles ==
  { ShellSetup({"update"}, TRUE, FALSE, {}), ShellSetup({"offers"}, TRUE, FALSE, {}),
    ShellSetup({"offers"}, FALSE, FALSE, {}),
    ShellSetup({"crash", "reload", "menu"}, TRUE, FALSE, {toRoom}),
    ShellSetup({"session"}, FALSE, FALSE, {toRoom, toInvite}), ShellSetup({"pages"}, FALSE, FALSE, {toRoom, toInvite}),
    ShellSetup({"menu"}, FALSE, TRUE, {toRoom}), ShellSetup({}, TRUE, FALSE, {toRoom, toInvite}) }

\* A part whose stage it is not has one initial state.
Init ==
  /\ stage \in {"sign-in", "shell"}
  /\ SignInInit /\ ShellInit
  /\ stage # "sign-in" => does = CHOOSE w \in Profiles : TRUE
  /\ stage # "shell" => setup = CHOOSE w \in ShellProfiles : TRUE

Next ==
  \/ stage = "sign-in" /\ SignInNext /\ UNCHANGED <<shellVars, stage>>
  \/ stage = "shell" /\ ShellNext /\ UNCHANGED <<signInVars, stage>>

\* Fairness of SignIn and ShellFairness, each while it is the stage of its part.
Fairness ==
  /\ \A d \in {d1, d2} : /\ WF_signInVars(stage = "sign-in" /\ AnswerSignIn(d))
                         /\ WF_signInVars(stage = "sign-in" /\ AnswerRefresh(d))
                         /\ WF_signInVars(stage = "sign-in" /\ PollGate(d))
  /\ WF_shellVars(stage = "shell" /\ TimeUp)
  /\ WF_shellVars(stage = "shell" /\ ReadyToShow)
  /\ WF_shellVars(stage = "shell" /\ Reveal)

Spec == Init /\ [][Next]_<<stage, signInVars, shellVars>> /\ Fairness
=============================================================================
