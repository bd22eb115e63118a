----------------------------- MODULE RoomSettings -----------------------------
(***************************************************************************)
(* The settings of one room as one user sees them: the modal of the lobby  *)
(* (RoomSettingsModal, with its tabs and the dialogs EditInviteModal,      *)
(* TransferOwnershipModal and InviteCreateModal) and the panel of the call *)
(* (RoomInfoPanel).  Both show what they fetched, and act on it by         *)
(* requests that overlap: what is open can be closed while one is under    *)
(* way, and what its answer starts goes on.                                *)
(***************************************************************************)
EXTENDS Naturals, FiniteSets, Bags

CONSTANTS
  Me, Others, Link,
  SettingsProfiles,  \* what goes on, and who owns the room at first
  \* Bounds.
  MaxPane,           \* panes shown, that is, tabs and panels
  MaxDialog, MaxRequest, MaxPress

Member == {Me} \cup Others
SettingsOperation == {"members", "links", "danger", "info", "others", "loss"}

ASSUME SettingsAssumption ==
  /\ Me \notin Others /\ Link # {}
  /\ SettingsProfiles \subseteq [ops : SUBSET SettingsOperation, owner : Member]
  /\ {MaxPane, MaxDialog, MaxRequest, MaxPress} \subseteq Nat

VARIABLES
  plays,     \* the profile; never changes
  room,      \* the room at the server; see Room
  listed,    \* isOwner in the lobby's list, which opens the modal
  pane,      \* what is open; see Pane
  panes,     \* panes shown so far
  dialog,    \* the dialog over it; see Dialog
  dialogs,   \* dialogs so far
  requests,  \* the bag of requests under way
  withdrawn, \* history: the user revoked a link, or the room went
  behind,    \* history: the pane may be out of date; see PanesSettle
  presses    \* bound: what the user and others did so far

settingsVars == <<plays, room, listed, pane, panes, dialog, dialogs, requests, withdrawn, behind, presses>>

\* live: the user's links that work; minted: all there have been.
RoomState == [there : BOOLEAN, owner : Member, members : SUBSET Member, live : SUBSET Link,
         minted : SUBSET Link, public : BOOLEAN]
\* owned: isOwner, as the pane has it; busy: its buttons are disabled;
\* adding: those of InviteFriendsSection are.  members, links: what was fetched,
\* which loaded says is there.
Pane == [kind : {"none", "overview", "members", "invites", "danger", "info"}, owned : BOOLEAN,
         busy : BOOLEAN, adding : BOOLEAN, loaded : BOOLEAN, members : SUBSET Member,
         links : SUBSET Link, public : BOOLEAN]
NoInvite == "no link"
Dialog == [kind : {"none", "create", "edit", "transfer"}, busy : BOOLEAN, current : Link \cup {NoInvite}]
\* choice: what is chosen, to be public or to leave too; after: what a fetch
\* follows; from, pane, dialog: what sent it, and its number; seen: the room as
\* the server answered.
Query == [op : {"list", "load", "fetch", "save", "flip", "kick", "add", "transfer", "depart", "delete", "generate",
                  "mint", "swap", "revoke"},
            member : Member, link : Link \cup {NoInvite}, new : Link \cup {NoInvite}, choice : BOOLEAN,
            after : {"none", "kick", "add"}, from : {"tab", "dialog", "panel"}, pane : Nat, dialog : Nat,
             at : {"sent", "done", "failed"}, seen : RoomState]

SettingsTypeOK ==
  /\ plays \in SettingsProfiles /\ room \in RoomState /\ listed \in BOOLEAN
  /\ pane \in Pane /\ panes \in 0 .. MaxPane /\ dialog \in Dialog /\ dialogs \in 0 .. MaxDialog
  /\ BagToSet(requests) \subseteq Query /\ withdrawn \in BOOLEAN /\ behind \in BOOLEAN
  /\ presses \in 0 .. MaxPress

Closed == [kind |-> "none", owned |-> FALSE, busy |-> FALSE, adding |-> FALSE, loaded |-> FALSE,
           members |-> {}, links |-> {}, public |-> FALSE]
NoDialog == [kind |-> "none", busy |-> FALSE, current |-> NoInvite]

SettingsInit ==
  /\ plays \in SettingsProfiles
  /\ LET first == {CHOOSE l \in Link : TRUE}
     IN room = [there |-> TRUE, owner |-> plays.owner, members |-> Member, live |-> first,
                minted |-> first, public |-> FALSE]
  /\ listed = (plays.owner = Me) /\ pane = Closed /\ panes = 0 /\ dialog = NoDialog /\ dialogs = 0
  /\ requests = EmptyBag /\ withdrawn = FALSE /\ behind = FALSE /\ presses = 0

Plays(op) == op \in plays.ops
Sending == BagToSet(requests)
Unseen == [there |-> FALSE, owner |-> Me, members |-> {}, live |-> {}, minted |-> {}, public |-> FALSE]
From == IF dialog.kind # "none" THEN "dialog" ELSE IF pane.kind = "info" THEN "panel" ELSE "tab"
NewRequest(op) == [op |-> op, member |-> Me, link |-> NoInvite, new |-> NoInvite, choice |-> FALSE,
                   after |-> "none", from |-> From, pane |-> panes, dialog |-> dialogs, at |-> "sent",
                   seen |-> Unseen]
Send(r) == requests' = requests (+) SetToBag({r})
Next1(q, r) == requests' = (requests (-) SetToBag({q})) (+) SetToBag({r})
Drop(q) == requests' = requests (-) SetToBag({q})

\* The pane, or the dialog, that sent the request is still the one that is open.
Same(q) == pane.kind # "none" /\ q.pane = panes
SameDialog(q) == dialog.kind # "none" /\ q.dialog = dialogs
PaneSet(q, p) == pane' = IF Same(q) THEN p ELSE pane
DialogSet(q, d) == dialog' = IF SameDialog(q) THEN d ELSE dialog

Presses == presses < MaxPress /\ presses' = presses + 1 /\ BagCardinality(requests) < MaxRequest
Pressed == Presses /\ UNCHANGED <<plays, room, listed, behind>>

-----------------------------------------------------------------------------
\* Opening and closing.

\* A tab fetches what it shows as it is mounted.
Shows(kind, owned) ==
  /\ panes < MaxPane /\ panes' = panes + 1
  /\ pane' = [Closed EXCEPT !.kind = kind, !.owned = owned, !.loaded = kind \in {"overview", "danger"}]
  /\ dialog' = NoDialog /\ UNCHANGED <<dialogs, withdrawn>>
  /\ IF kind \in {"members", "invites", "info"}
     THEN Send([NewRequest(IF kind = "info" THEN "load" ELSE "fetch") EXCEPT !.pane = panes + 1])
     ELSE UNCHANGED requests

OpenSettings ==
  /\ pane.kind = "none" /\ plays.ops \cap {"members", "links", "danger"} # {} /\ Shows("overview", listed)
  /\ Presses /\ behind' = (listed # (room.owner = Me)) /\ UNCHANGED <<plays, room, listed>>

\* A tab of the rail; that of the links is the owner's.
SwitchTab(kind) ==
  /\ pane.kind \in {"overview", "members", "invites", "danger"} /\ dialog.kind = "none" /\ kind # pane.kind
  /\ kind = "members" => Plays("members")
  /\ kind = "invites" => Plays("links") /\ pane.owned
  /\ kind = "danger" => Plays("danger")
  /\ Shows(kind, pane.owned) /\ Pressed

OpenInfo == Plays("info") /\ pane.kind = "none" /\ Shows("info", FALSE) /\ Pressed

ClosePane ==
  /\ pane.kind # "none" /\ dialog.kind = "none" /\ pane' = Closed
  /\ UNCHANGED <<panes, dialog, dialogs, requests, withdrawn>> /\ Pressed

OpenDialog(kind, l) ==
  /\ pane.loaded /\ dialog.kind = "none" /\ dialogs < MaxDialog
  /\ CASE kind = "create" -> pane.kind \in {"invites", "info"} /\ l = NoInvite
       [] kind = "edit" -> pane.kind = "invites" /\ l \in pane.links
       [] kind = "transfer" -> pane.kind = "members" /\ pane.owned /\ ~pane.busy /\ l = NoInvite
  /\ dialogs' = dialogs + 1 /\ dialog' = [NoDialog EXCEPT !.kind = kind, !.current = l]
  /\ IF kind = "create" /\ pane.kind = "invites" THEN Send(NewRequest("fetch")) ELSE UNCHANGED requests
  /\ UNCHANGED <<pane, panes, withdrawn>> /\ Pressed

\* Not held back by what is under way.  The list is fetched again when the
\* dialog that makes links goes, and on no other.
CloseDialog ==
  /\ dialog.kind # "none" /\ dialog' = NoDialog
  /\ IF dialog.kind = "create" /\ pane.kind = "invites" THEN Send(NewRequest("fetch"))
     ELSE UNCHANGED requests
  /\ UNCHANGED <<pane, panes, dialogs, withdrawn>> /\ Pressed

-----------------------------------------------------------------------------
\* What the user does; one thing at a time where busy says so.

Act(kind) == pane.kind = kind /\ pane.loaded /\ dialog.kind = "none" /\ ~pane.busy
BusyPane == pane' = [pane EXCEPT !.busy = TRUE]

Save(p) ==
  /\ Act("overview") /\ pane.owned /\ BusyPane /\ Send([NewRequest("save") EXCEPT !.choice = p])
  /\ UNCHANGED <<panes, dialog, dialogs, withdrawn>> /\ Pressed

\* toggleVisibility()
Flip ==
  /\ Act("info") /\ pane.owned /\ BusyPane /\ Send([NewRequest("flip") EXCEPT !.choice = ~pane.public])
  /\ UNCHANGED <<panes, dialog, dialogs, withdrawn>> /\ Pressed

\* kick() and confirmRemove()
Kick(m) ==
  /\ Act("members") \/ Act("info")
  /\ pane.owned /\ m \in pane.members \ {Me} /\ BusyPane
  /\ Send([NewRequest("kick") EXCEPT !.member = m])
  /\ UNCHANGED <<panes, dialog, dialogs, withdrawn>> /\ Pressed

\* "Add": a friend who is not in the list.
AddFriend(m) ==
  /\ pane.kind = "members" /\ pane.loaded /\ dialog.kind = "none" /\ pane.owned /\ ~pane.adding
  /\ m \in Others \ pane.members /\ pane' = [pane EXCEPT !.adding = TRUE]
  /\ Send([NewRequest("add") EXCEPT !.member = m])
  /\ UNCHANGED <<panes, dialog, dialogs, withdrawn>> /\ Pressed

\* "Transfer to", in the dialog with or without leaving, and in the call.
Transfer(m, leave) ==
  /\ \/ /\ dialog.kind = "transfer" /\ ~dialog.busy
        /\ dialog' = [dialog EXCEPT !.busy = TRUE] /\ UNCHANGED pane
     \/ Act("info") /\ pane.owned /\ ~leave /\ BusyPane /\ UNCHANGED dialog
  /\ m \in pane.members \ {Me} /\ Send([NewRequest("transfer") EXCEPT !.member = m, !.choice = leave])
  /\ UNCHANGED <<panes, dialogs, withdrawn>> /\ Pressed

\* "Delete room" and "Leave room"; confirmDelete() and confirmLeave().
Depart ==
  /\ Act("danger") \/ (Act("info") /\ Plays("danger"))
  /\ BusyPane /\ Send(NewRequest(IF pane.owned THEN "delete" ELSE "depart"))
  /\ UNCHANGED <<panes, dialog, dialogs, withdrawn>> /\ Pressed

\* generate()
Generate ==
  /\ dialog.kind = "create" /\ ~dialog.busy /\ dialog' = [dialog EXCEPT !.busy = TRUE]
  /\ Send(NewRequest("generate")) /\ UNCHANGED <<pane, panes, dialogs, withdrawn>> /\ Pressed

\* Variant with a plausible fault, as all definitions called a variant here,
\* only for the mutation runs: the old link is revoked first.
RevokesFirst ==
  /\ dialog.kind = "edit" /\ ~dialog.busy /\ dialog' = [dialog EXCEPT !.busy = TRUE]
  /\ Send([NewRequest("swap") EXCEPT !.link = dialog.current])
  /\ UNCHANGED <<pane, panes, dialogs, withdrawn>> /\ Pressed

\* reissue(), for "Save changes" and "Regenerate": a link cannot be changed, so
\* another is made, and then the old one revoked.
Reissue ==
  /\ dialog.kind = "edit" /\ ~dialog.busy /\ dialog' = [dialog EXCEPT !.busy = TRUE]
  /\ Send([NewRequest("mint") EXCEPT !.link = dialog.current])
  /\ UNCHANGED <<pane, panes, dialogs, withdrawn>> /\ Pressed

\* revoke(), at a row or in the dialog.
Revoke(l) ==
  /\ \/ pane.kind = "invites" /\ pane.loaded /\ dialog.kind = "none" /\ l \in pane.links /\ UNCHANGED dialog
     \/ dialog.kind = "edit" /\ ~dialog.busy /\ l = dialog.current /\ dialog' = [dialog EXCEPT !.busy = TRUE]
  /\ Send([NewRequest("revoke") EXCEPT !.link = l]) /\ withdrawn' = TRUE
  /\ UNCHANGED <<pane, panes, dialogs>> /\ Pressed

-----------------------------------------------------------------------------
\* The server.

Gone == [room EXCEPT !.there = FALSE, !.members = {}, !.live = {}]

\* What the room becomes; the empty set where the server refuses.
Made(q) ==
  IF ~room.there THEN {} ELSE
  CASE q.op \in {"save", "flip"} -> IF room.owner = Me THEN {[room EXCEPT !.public = q.choice]} ELSE {}
    [] q.op = "kick" ->
         IF room.owner = Me /\ q.member \in room.members THEN {[room EXCEPT !.members = @ \ {q.member}]} ELSE {}
    [] q.op = "add" -> IF room.owner = Me THEN {[room EXCEPT !.members = @ \cup {q.member}]} ELSE {}
    [] q.op = "transfer" ->
         IF room.owner = Me /\ q.member \in room.members THEN {[room EXCEPT !.owner = q.member]} ELSE {}
    [] q.op = "depart" -> IF room.owner # Me THEN {[room EXCEPT !.members = @ \ {Me}]} ELSE {}
    [] q.op = "delete" -> IF room.owner = Me THEN {Gone} ELSE {}
    [] q.op \in {"generate", "mint"} ->
         {[room EXCEPT !.live = @ \cup {l}, !.minted = @ \cup {l}] : l \in Link \ room.minted}
    [] q.op \in {"swap", "revoke"} -> {[room EXCEPT !.live = @ \ {q.link}]}
    [] OTHER -> {room}

\* A request is handled, or not; an answer may be lost.
Handle(q) ==
  /\ q.at = "sent"
  /\ \/ \E r \in Made(q) :
          LET new == IF q.op = "mint" THEN CHOOSE l \in r.minted : l \notin room.minted ELSE q.new IN
          /\ room' = r
          /\ \/ /\ Next1(q, [q EXCEPT !.at = "done", !.new = new,
                                 !.seen = IF q.op \in {"list", "load", "fetch"} THEN r ELSE Unseen])
                /\ behind' = (behind \/ (r # room /\ ~Same(q)))
             \/ Plays("loss") /\ Next1(q, [q EXCEPT !.at = "failed"]) /\ behind' = TRUE
     \/ Next1(q, [q EXCEPT !.at = "failed"]) /\ UNCHANGED <<room, behind>>
  /\ withdrawn' = (withdrawn \/ ~room'.there)
  /\ UNCHANGED <<plays, listed, pane, panes, dialog, dialogs, presses>>

\* Somebody joins or leaves, the new owner puts the user out, or deletes the room.
OthersDo ==
  /\ Plays("others") /\ room.there /\ presses < MaxPress /\ presses' = presses + 1
  /\ \E m \in Member :
       \/ m \in room.members \ {room.owner} /\ room' = [room EXCEPT !.members = @ \ {m}]
       \/ m \notin room.members /\ room' = [room EXCEPT !.members = @ \cup {m}]
       \/ room.owner # Me /\ room' = Gone
  /\ behind' = TRUE /\ withdrawn' = (withdrawn \/ ~room'.there)
  /\ UNCHANGED <<plays, listed, pane, panes, dialog, dialogs, requests>>

-----------------------------------------------------------------------------
\* The answers.

Heard == UNCHANGED <<plays, room, panes, dialogs, presses>>

\* The lobby's refresh(), which onChanged and onGone call.
ListHeard(q) ==
  /\ q.op = "list" /\ q.at # "sent" /\ Drop(q)
  /\ listed' = IF q.at = "done" THEN q.seen.there /\ q.seen.owner = Me ELSE listed
  /\ UNCHANGED <<pane, dialog, withdrawn, behind>> /\ Heard

\* refresh() of a tab and load() of the panel: whichever answers last is shown.
\* Only load() asks again who owns the room: a tab keeps what the modal was
\* opened with, so what a tab fetches leaves that out of date if it was.
Fetched(q) ==
  /\ q.op \in {"fetch", "load"} /\ q.at # "sent" /\ Drop(q)
  /\ LET freed == [pane EXCEPT !.busy = @ /\ q.after # "kick", !.adding = @ /\ q.after # "add"] IN
     PaneSet(q, IF q.at = "failed" THEN freed
                ELSE [freed EXCEPT !.members = q.seen.members, !.links = q.seen.live, !.loaded = TRUE,
                                   !.public = q.seen.public,
                                   !.owned = IF q.op = "load" THEN q.seen.owner = Me ELSE @])
  /\ behind' = IF ~Same(q) THEN behind
               ELSE \/ q.at = "failed" \/ q.seen # room
                    \/ behind /\ q.op = "fetch" /\ (pane.owned # (room.owner = Me))
  /\ UNCHANGED <<listed, dialog, withdrawn>> /\ Heard

\* save() tells the lobby and keeps what the modal was opened with.
Saved(q) ==
  /\ q.op = "save" /\ q.at # "sent" /\ PaneSet(q, [pane EXCEPT !.busy = FALSE])
  /\ IF q.at = "done" THEN Next1(q, NewRequest("list")) ELSE Drop(q)
  /\ UNCHANGED <<listed, dialog, withdrawn, behind>> /\ Heard

Flipped(q) ==
  /\ q.op = "flip" /\ q.at # "sent" /\ Drop(q)
  /\ PaneSet(q, [pane EXCEPT !.busy = FALSE, !.public = IF q.at = "done" THEN q.choice ELSE @])
  /\ UNCHANGED <<listed, dialog, withdrawn, behind>> /\ Heard

\* Variant: nothing is fetched after somebody was put out.
KickedUnseen(q) ==
  /\ q.op = "kick" /\ q.at # "sent" /\ Drop(q) /\ PaneSet(q, [pane EXCEPT !.busy = FALSE])
  /\ UNCHANGED <<listed, dialog, withdrawn, behind>> /\ Heard

\* The tab fetches the list, busy until then; the panel takes the member out.
Kicked(q) ==
  /\ q.op = "kick" /\ q.at # "sent"
  /\ IF q.at = "failed" \/ q.from = "panel"
     THEN /\ Drop(q)
          /\ PaneSet(q, [pane EXCEPT !.busy = FALSE, !.members = IF q.at = "done" THEN @ \ {q.member} ELSE @])
     ELSE Next1(q, [q EXCEPT !.op = "fetch", !.at = "sent", !.after = "kick"]) /\ UNCHANGED pane
  /\ UNCHANGED <<listed, dialog, withdrawn, behind>> /\ Heard

Added(q) ==
  /\ q.op = "add" /\ q.at # "sent"
  /\ IF q.at = "failed" THEN Drop(q) /\ PaneSet(q, [pane EXCEPT !.adding = FALSE])
     ELSE Next1(q, [q EXCEPT !.op = "fetch", !.at = "sent", !.after = "add"]) /\ UNCHANGED pane
  /\ UNCHANGED <<listed, dialog, withdrawn, behind>> /\ Heard

IsModal == pane.kind \in {"overview", "members", "invites", "danger"}
\* onClose() of the modal, which is not that of the pane that sent the request.
CloseModal == IF IsModal THEN pane' = Closed /\ dialog' = NoDialog ELSE UNCHANGED <<pane, dialog>>

ClosePanel ==
  IF pane.kind = "info" THEN pane' = Closed /\ dialog' = NoDialog
  ELSE UNCHANGED <<pane, dialog>>

\* transfer() goes on, to leave the room or to close the modal; in the call the
\* panel takes the new owner.
Transferred(q) ==
  /\ q.op = "transfer" /\ q.at = "done"
  /\ IF q.choice THEN Next1(q, [q EXCEPT !.op = "depart", !.at = "sent"]) /\ UNCHANGED <<pane, dialog>>
     ELSE IF q.from = "panel"
     THEN Drop(q) /\ PaneSet(q, [pane EXCEPT !.busy = FALSE, !.owned = FALSE]) /\ UNCHANGED dialog
     ELSE Next1(q, NewRequest("list")) /\ CloseModal
  /\ UNCHANGED <<listed, withdrawn, behind>> /\ Heard

TransferFails(q) ==
  /\ q.op = "transfer" /\ q.at = "failed" /\ Drop(q)
  /\ IF q.from = "panel" THEN PaneSet(q, [pane EXCEPT !.busy = FALSE]) /\ UNCHANGED dialog
     ELSE DialogSet(q, [dialog EXCEPT !.busy = FALSE]) /\ UNCHANGED pane
  /\ UNCHANGED <<listed, withdrawn, behind>> /\ Heard

\* onGone(), or onDeparture() of the call.  Who has given the room away and
\* cannot leave keeps the owner's controls.
Departed(q) ==
  /\ q.op \in {"depart", "delete"} /\ q.at # "sent"
  /\ IF q.at = "done"
     THEN IF q.from = "panel" THEN Drop(q) /\ ClosePanel ELSE Next1(q, NewRequest("list")) /\ CloseModal
     ELSE /\ Drop(q) /\ PaneSet(q, [pane EXCEPT !.busy = @ /\ q.from = "dialog"])
          /\ DialogSet(q, [dialog EXCEPT !.busy = @ /\ q.from # "dialog"])
  /\ behind' = (behind \/ (q.from = "dialog" /\ q.at = "failed"))
  /\ UNCHANGED <<listed, withdrawn>> /\ Heard

Generated(q) ==
  /\ q.op = "generate" /\ q.at # "sent" /\ Drop(q)
  /\ DialogSet(q, [dialog EXCEPT !.busy = FALSE])
  /\ behind' = (behind \/ (q.at = "done" /\ ~SameDialog(q)))
  /\ UNCHANGED <<listed, pane, withdrawn>> /\ Heard

\* reissue() goes on, dialog or not.
Minted(q) ==
  /\ q.op = "mint" /\ q.at = "done" /\ Next1(q, [q EXCEPT !.op = "swap", !.at = "sent"])
  /\ UNCHANGED <<listed, pane, dialog, withdrawn, behind>> /\ Heard

MintFails(q) ==
  /\ q.op \in {"mint", "swap"} /\ q.at = "failed" /\ Drop(q)
  /\ DialogSet(q, [dialog EXCEPT !.busy = FALSE])
  /\ behind' = (behind \/ q.op = "swap")
  /\ UNCHANGED <<listed, pane, withdrawn>> /\ Heard

\* onChanged(): the tab fetches its list.
Swapped(q) ==
  /\ q.op = "swap" /\ q.at = "done"
  /\ Next1(q, [NewRequest("fetch") EXCEPT !.pane = q.pane])
  /\ DialogSet(q, [dialog EXCEPT !.busy = FALSE, !.current = q.new])
  /\ UNCHANGED <<listed, pane, withdrawn, behind>> /\ Heard

\* The dialog's revoke() closes the one that is open then.
Revoked(q) ==
  /\ q.op = "revoke" /\ q.at # "sent"
  /\ IF q.at = "done"
     THEN /\ Next1(q, [NewRequest("fetch") EXCEPT !.pane = q.pane])
          /\ dialog' = IF q.from = "dialog" /\ dialog.kind = "edit" THEN NoDialog ELSE dialog
     ELSE Drop(q) /\ DialogSet(q, [dialog EXCEPT !.busy = @ /\ q.from # "dialog"])
  /\ UNCHANGED <<listed, pane, withdrawn, behind>> /\ Heard

Hear(q) ==
  \/ ListHeard(q) \/ Fetched(q) \/ Saved(q) \/ Flipped(q) \/ Kicked(q) \/ Added(q) \/ Transferred(q)
  \/ TransferFails(q) \/ Departed(q) \/ Generated(q) \/ Minted(q) \/ MintFails(q) \/ Swapped(q) \/ Revoked(q)

SettingsNext ==
  \/ OpenSettings \/ OpenInfo \/ ClosePane \/ CloseDialog \/ Flip \/ Depart \/ Generate \/ Reissue \/ OthersDo
  \/ \E k \in {"overview", "members", "invites", "danger"} : SwitchTab(k)
  \/ \E k \in {"create", "edit", "transfer"}, l \in Link \cup {NoInvite} : OpenDialog(k, l)
  \/ \E p \in BOOLEAN : Save(p)
  \/ \E m \in Member : Kick(m) \/ AddFriend(m) \/ \E leave \in BOOLEAN : Transfer(m, leave)
  \/ \E l \in Link : Revoke(l)
  \/ \E q \in Sending : Handle(q) \/ Hear(q)

-----------------------------------------------------------------------------
\* Whichever step fails, and however the changes of one link overlap, a room
\* whose link is changed is never left without one: only "Revoke" takes the last
\* link away (reissue).
NeverLinkless == room.live = {} => withdrawn

\* Once nothing is under way, what is open shows the room as it is: the members,
\* the links and, to the owner alone, the owner's controls.  But for what others
\* did meanwhile, a request that failed in part or whose pane was closed, and
\* answers out of order (RoomSettingsModal, RoomInfoPanel).
PanesSettle ==
  (requests = EmptyBag /\ pane.loaded /\ ~behind) =>
    /\ pane.kind \in {"members", "info"} => pane.members = room.members
    /\ pane.kind = "invites" /\ dialog.kind # "create" => pane.links = room.live
    /\ pane.kind = "info" => pane.public = room.public
    /\ pane.owned <=> room.owner = Me
=============================================================================
