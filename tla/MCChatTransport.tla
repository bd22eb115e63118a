--------------------------- MODULE MCChatTransport ---------------------------
(* Two sign-ins, one of them with a token the server refuses; the panel of a *)
(* room and those of two direct messages.                                    *)
EXTENDS ChatTransport

CONSTANTS good, bad, dm1, dm2, room, p1, p2, p3

MCLogin == {good, bad}
MCThread == {dm1, dm2, room}
MCDm == {dm1, dm2}
MCPanel == {p1, p2, p3}
MCThreadOf == [p \in MCPanel |-> CASE p = p1 -> dm1 [] p = p2 -> dm2 [] p = p3 -> room]
=============================================================================
