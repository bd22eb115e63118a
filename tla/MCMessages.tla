----------------------------- MODULE MCMessages -----------------------------
(* Messages on small instances: what the users do differs by scenario.      *)
EXTENDS Messages, TLC

CONSTANTS room, hall, a, b, p1, p2

S(ops, threads, mounts, requests) ==
  [ops |-> ops, threads |-> threads, mounts |-> mounts, requests |-> requests]

\* What goes on in one room, in whose panel nothing is ever switched, in the
\* panel of two conversations, and in a room that is left and shown again.
MCScenarios ==
  { S({"send", "delete", "older", "failure"}, {room}, 1, 2),
    S({"send", "cut"}, {room}, 1, 2),
    S({"send", "edit", "delete"}, {room}, 1, 2),
    S({"edit", "pin", "delete"}, {room}, 1, 3),
    S({"react", "unreact", "failure"}, {room}, 1, 4),
    S({"vote", "pin", "delete"}, {room}, 1, 3),
    S({"send", "failure"}, {a, b}, 2, 1),
    S({"edit", "delete"}, {room, hall}, 3, 2),
    S({"vote"}, {room, hall}, 3, 2) }

Symmetry == Permutations({p1, p2})
=============================================================================
