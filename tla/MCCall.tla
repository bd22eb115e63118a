-------------------------------- MODULE MCCall --------------------------------
(* Call on small instances: what goes on differs by profile.                 *)
EXTENDS Call

CONSTANTS r1, r2

P(ops, device, rooms, joins) == [ops |-> ops, device |-> device, rooms |-> rooms, joins |-> joins]

MCProfiles ==
  { P({"switch"}, TRUE, {r1, r2}, 2),
    P({"switch", "kick"}, FALSE, {r1, r2}, 2),
    P({"retry", "talk"}, TRUE, {r1}, 2),
    P({"signout"}, FALSE, {r1}, 2),
    P({"reopen", "talk", "kick"}, TRUE, {r1}, 1),
    P({"share", "kick"}, FALSE, {r1}, 1) }

\* One room, entered once and left.
LeavingProfiles == { P({}, TRUE, {r1}, 1) }
=============================================================================
