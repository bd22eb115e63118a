------------------------------- MODULE MCRooms -------------------------------
(* Rooms on small instances.  Users differ only in their names, and so do   *)
(* requests.                                                                *)
EXTENDS Rooms, TLC

RoomSymmetry == Permutations(User) \cup Permutations(Req)
=============================================================================
