--------------------------- MODULE MCChatGateway ---------------------------
(* Two friends, one with two devices, a room and their DM thread.          *)
EXTENDS ChatGateway, TLC

CONSTANTS alice, bob, a1, a2, b1, dm

MCUser == {alice, bob}
MCConn == {a1, a2, b1}
MCUserOf == (a1 :> alice) @@ (a2 :> alice) @@ (b1 :> bob)
MCParticipants == dm :> {alice, bob}
MCReporting == {alice}
MCFriends == {<<alice, bob>>, <<bob, alice>>}
\* Alice's devices may be exchanged: both belong to her.
DeviceSymmetry == Permutations({a1, a2})
=============================================================================
