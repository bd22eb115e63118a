-------------------------------- MODULE MCPages --------------------------------
(***************************************************************************)
(* The screen picker and the pages of the client side by side, with the    *)
(* table of friendships at the server: a behaviour is one of one part,     *)
(* whose stage it is.  They share no state that the models keep.           *)
(***************************************************************************)
EXTENDS Friendships, ScreenPicker, Lobby, RoomSettings, FriendsPage, TLC

CONSTANTS attic, cellar,    \* rooms
          p, q              \* people

VARIABLE stage

Rooms(ops, ofA, ofB) == [ops |-> ops, server |-> (attic :> ofA @@ cellar :> ofB)]
MCLobbyProfiles ==
  { Rooms({"create", "leave"}, "absent", "member"), Rooms({"join", "leave", "others"}, "owner", "member"),
    Rooms({"link", "invite", "join"}, "open", "owner"), Rooms({"silent", "session", "pages"}, "open", "absent"),
    Rooms({"pages", "invite"}, "owner", "open"), Rooms({"pages", "join"}, "owner", "open"),
    Rooms({"session", "join", "leave"}, "owner", "absent") }

MCSettingsProfiles ==
  [ops : {{"members"}, {"links"}, {"members", "danger", "others"}, {"info", "danger"}, {"links", "loss"}},
   owner : {Me}]
  \cup [ops : {{"danger", "members", "others"}, {"info", "others", "danger"}}, owner : {p}]

Page(ops, page, ofP, ofQ) == [ops |-> ops, page |-> page, start |-> (p :> ofP @@ q :> ofQ)]
MCFriendsProfiles ==
  { Page({"requests"}, "screen", "none", "in"), Page({"card", "hide"}, "screen", "friend", "out"),
    Page({"requests", "socket", "hide"}, "pane", "out", "friend"), Page({"find"}, "picker", "none", "none") }

\* A part whose stage it is not has one initial state.
PagesInit ==
  /\ stage \in {"friendships", "picker", "lobby", "settings", "friends"}
  /\ Init /\ PickerInit /\ LobbyInit /\ SettingsInit /\ FriendsInit
  /\ stage # "lobby" => does = CHOOSE w \in LobbyProfiles : TRUE
  /\ stage # "settings" => plays = CHOOSE w \in SettingsProfiles : TRUE
  /\ stage # "friends" => part = CHOOSE w \in FriendsProfiles : TRUE

PagesNext ==
  \/ /\ stage = "friendships" /\ Next
     /\ UNCHANGED <<stage, pickerVars, lobbyVars, settingsVars, friendsVars>>
  \/ /\ stage = "picker" /\ PickerNext
     /\ UNCHANGED <<stage, vars, lobbyVars, settingsVars, friendsVars>>
  \/ /\ stage = "lobby" /\ LobbyNext
     /\ UNCHANGED <<stage, vars, pickerVars, settingsVars, friendsVars>>
  \/ /\ stage = "settings" /\ SettingsNext
     /\ UNCHANGED <<stage, vars, pickerVars, lobbyVars, friendsVars>>
  \/ /\ stage = "friends" /\ FriendsNext
     /\ UNCHANGED <<stage, vars, pickerVars, lobbyVars, settingsVars>>

PagesSpec ==
  PagesInit /\ [][PagesNext]_<<stage, vars, pickerVars, lobbyVars, settingsVars, friendsVars>>

\* Requests of the table are only told apart by what they have read.
MCSymmetry == Permutations(Req)
=============================================================================
