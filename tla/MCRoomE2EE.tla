------------------------------ MODULE MCRoomE2EE ------------------------------
(* The calls of an owner and two members; the room may change hands.        *)
EXTENDS RoomE2EE, TLC

CONSTANTS olga, mia, noah, o1, o2, m1, n1

MCUser == {olga, mia, noah}
\* Three users once each, so that a member may pass the key on.
MCSession == {o1, m1, n1}
MCUserOf == (o1 :> olga) @@ (m1 :> mia) @@ (n1 :> noah)
\* The last to come asks the member the owner gave the key to, who asked the
\* owner.
MCWatched == {<<n1, m1>>, <<m1, o1>>}
\* All goes well, or publishing fails and metadata is locked.
MCFaults == {{}, {"publishing", "metadata"}}
=============================================================================
