--------------------------- MODULE MCNotifications ---------------------------
(* Notifications on small instances: what goes on differs by profile.       *)
EXTENDS Notifications, TLC

CONSTANTS u, v, a, b, c, i1

\* Two threads of u, one of v.
MCOf == (a :> u) @@ (b :> u) @@ (c :> v)

P(ops, threads, sent, most, moved, asked, fed) ==
  [ops |-> ops, threads |-> threads, invites |-> sent,
   messages |-> most, moves |-> moved, refreshes |-> asked, feeds |-> fed]

MCProfiles ==
  { P({"screens"}, {a, b}, {}, 1, 4, 1, 1),
    P({"screens"}, {a, b}, {}, 0, 5, 1, 1),
    P({"screens"}, {a}, {}, 1, 5, 1, 1),
    P({"screens"}, {a}, {}, 2, 3, 2, 1),
    P({"mute", "failure"}, {a}, {}, 2, 1, 1, 1),
    P({"mute", "screens"}, {a}, {}, 1, 3, 1, 1),
    P({"bell", "failure"}, {}, {i1}, 0, 2, 1, 2),
    P({"bell"}, {}, {i1}, 0, 3, 1, 3),
    P({"accounts", "failure"}, {a, c}, {}, 1, 4, 2, 1) }
=============================================================================
