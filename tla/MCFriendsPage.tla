----------------------------- MODULE MCFriendsPage -----------------------------
(***************************************************************************)
(* The picker of a new conversation alone: a handle is typed over another. *)
(***************************************************************************)
EXTENDS FriendsPage, TLC

CONSTANTS p, q

MCFriendsProfiles ==
  { [ops |-> {"find"}, page |-> "picker", start |-> (p :> "none" @@ q :> "none")] }

Spec == FriendsInit /\ [][FriendsNext]_friendsVars
=============================================================================
