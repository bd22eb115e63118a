------------------------------ MODULE FriendsPage ------------------------------
(***************************************************************************)
(* What the client shows of a user's friends: the page FriendsScreen and   *)
(* the pane FriendsPane of the DM screen, the menu and the popover of a    *)
(* person (UserContextMenu, PeerProfilePopover), and the pickers that find *)
(* somebody by handle (useHandleMatch, NewDmPicker).                       *)
(*                                                                         *)
(* The lists are fetched, and fetched again when the socket brings word of *)
(* a change.  The routes of apps/server/src/friends say which changes it   *)
(* brings word of.                                                         *)
(***************************************************************************)
EXTENDS Naturals, Sequences, Bags

CONSTANTS
  Peer,
  Nobody,
  FriendsProfiles,  \* what is shown, and what goes on
  \* Bounds.
  MaxShow,          \* mounts, and cards
  MaxAsk,           \* requests under way when something is done
  MaxNews,          \* events under way
  MaxDeed           \* what the user and others do

FriendsOperation == {"requests", "card", "find", "socket", "hide"}

ASSUME FriendsAssumption ==
  /\ Nobody \notin Peer
  /\ FriendsProfiles \subseteq [ops : SUBSET FriendsOperation, page : {"screen", "pane", "picker"},
                         start : [Peer -> {"none", "in", "out", "friend", "blocked", "hidden"}]]
  /\ {MaxShow, MaxAsk, MaxNews, MaxDeed} \subseteq Nat

VARIABLES
  part,    \* the profile; never changes
  rel,     \* rel[p]: what p is to the user, at the server
  listing, \* listing[p]: what the list shows
  mounted, shows,
  sending, \* busy, of the form that asks for a friend
  card,    \* the menu or popover of a person; see Card
  cards,   \* cards so far
  asks,    \* the bag of requests under way
  news,    \* the events that the socket is about to bring
  online,  \* the socket
  late,    \* history: the list may be out of date; see FriendsSettle
  finder,  \* the field that looks for a handle; see Finder
  deeds    \* bound

friendsVars == <<part, rel, listing, mounted, shows, sending, card, cards, asks, news, online, late, finder, deeds>>

\* "hidden": blocked by p.  A block of one's own is a row that no page shows.
Relation == {"none", "in", "out", "friend", "blocked", "hidden"}
ShownRelation == {"none", "in", "out", "friend"}
Card == [peer : Peer \cup {Nobody}, kind : {"menu", "profile"}, friend : BOOLEAN, loaded : BOOLEAN,
         armed : SUBSET {"block", "remove"}]
\* at: "sent", or what the server made of it.
Ask == [op : {"list", "resolve", "request", "accept", "reject", "block", "remove"},
        peer : Peer \cup {Nobody}, show : Nat, card : Nat, busy : BOOLEAN,
        at : {"sent", "done", "failed"}, seen : [Peer -> ShownRelation]]
\* text: the handle in the field, which may be nobody's; match: whose card is
\* shown; due: the delay runs; looking: the lookup that counts; asked: the
\* direct one; picked: what Enter was pressed on, and whom it opened.
Finder == [text : Peer \cup {Nobody}, match : Peer \cup {Nobody}, due : BOOLEAN, looking : BOOLEAN,
           asked : Peer \cup {Nobody}, busy : BOOLEAN,
           picked : {<<>>} \cup (Peer \X Peer)]

FriendsTypeOK ==
  /\ part \in FriendsProfiles /\ rel \in [Peer -> Relation] /\ listing \in [Peer -> ShownRelation]
  /\ mounted \in BOOLEAN /\ shows \in 0 .. MaxShow /\ sending \in BOOLEAN /\ card \in Card
  /\ cards \in 0 .. MaxShow /\ BagToSet(asks) \subseteq Ask /\ online \in BOOLEAN /\ late \in BOOLEAN
  /\ news \in Seq({"friend.request", "friend.accepted", "friend.removed", "presence.update"})
  /\ Len(news) <= MaxNews /\ finder \in Finder /\ deeds \in 0 .. MaxDeed

NoRow == [p \in Peer |-> "none"]
NoCard == [peer |-> Nobody, kind |-> "menu", friend |-> FALSE, loaded |-> FALSE, armed |-> {}]
EmptyField == [text |-> Nobody, match |-> Nobody, due |-> FALSE, looking |-> FALSE, asked |-> Nobody,
               busy |-> FALSE, picked |-> <<>>]

FriendsInit ==
  /\ part \in FriendsProfiles /\ rel = part.start /\ listing = NoRow /\ mounted = FALSE /\ shows = 0
  /\ sending = FALSE /\ card = NoCard /\ cards = 0 /\ asks = EmptyBag /\ news = <<>> /\ online = TRUE
  /\ late = FALSE /\ finder = EmptyField /\ deeds = 0

Does(op) == op \in part.ops
Deed == deeds < MaxDeed /\ deeds' = deeds + 1
Asked == BagToSet(asks)
AskFor(op, p) == [op |-> op, peer |-> p, show |-> shows, card |-> cards, busy |-> FALSE,
                  at |-> "sent", seen |-> NoRow]
Put(a) == asks' = asks (+) SetToBag({a})
Take(a) == asks' = asks (-) SetToBag({a})
Turn(a, b) == asks' = (asks (-) SetToBag({a})) (+) SetToBag({b})
Room1 == BagCardinality(asks) < MaxAsk

\* GET /friends
Shown == [p \in Peer |-> IF rel[p] \in ShownRelation THEN rel[p] ELSE "none"]
StillOpen(a) == mounted /\ a.show = shows
StillCard(a) == card.peer # Nobody /\ a.card = cards

-----------------------------------------------------------------------------
\* What the user does in the list.

Show ==
  /\ ~mounted /\ shows < MaxShow /\ mounted' = TRUE /\ shows' = shows + 1 /\ listing' = NoRow
  /\ late' = FALSE /\ sending' = FALSE
  /\ IF part.page = "picker" THEN UNCHANGED asks ELSE Put([AskFor("list", Nobody) EXCEPT !.show = shows + 1])
  /\ UNCHANGED <<part, rel, card, cards, news, online, finder, deeds>>

Hide ==
  /\ Does("hide") /\ mounted /\ Deed /\ mounted' = FALSE /\ card' = NoCard
  /\ finder' = [EmptyField EXCEPT !.picked = finder.picked]
  /\ UNCHANGED <<part, rel, listing, shows, sending, cards, asks, news, online, late>>

UserDeed ==
  /\ mounted /\ Room1 /\ Deed
  /\ UNCHANGED <<part, rel, listing, mounted, shows, news, online, late, finder>>

\* sendRequest(); whoever is asked for, the server decides.
SendRequest(p) ==
  /\ Does("requests") /\ ~sending /\ sending' = TRUE /\ Put(AskFor("request", p))
  /\ UserDeed /\ UNCHANGED <<card, cards>>

Accept(p) ==
  /\ Does("requests") /\ listing[p] = "in" /\ Put(AskFor("accept", p)) /\ UserDeed
  /\ UNCHANGED <<sending, card, cards>>

\* "Decline", and "Cancel" at a request of one's own.
Reject(p) ==
  /\ Does("requests") /\ listing[p] \in {"in", "out"} /\ Put(AskFor("reject", p))
  /\ UserDeed /\ UNCHANGED <<sending, card, cards>>

\* The menu of a row, and the popover of "View profile", which takes its place;
\* both fetch the friends once for themselves.
OpenCard(p, kind) ==
  /\ Does("card") /\ cards < MaxShow /\ cards' = cards + 1
  /\ IF kind = "menu" THEN listing[p] = "friend" /\ card.peer = Nobody ELSE card.peer = p /\ card.kind = "menu"
  /\ card' = [NoCard EXCEPT !.peer = p, !.kind = kind]
  /\ Put([AskFor("resolve", p) EXCEPT !.card = cards + 1]) /\ UserDeed /\ UNCHANGED sending

CloseCard == card.peer # Nobody /\ card' = NoCard /\ UserDeed /\ UNCHANGED <<sending, cards, asks>>

\* "Block" and "Remove friend": the first click arms.  The menu stays until the
\* server has done it; the popover does not.
Click(op) ==
  /\ card.peer # Nobody
  /\ op = "block" => card.loaded \/ card.kind = "menu"
  /\ op = "remove" => card.friend
  /\ IF op \notin card.armed THEN card' = [card EXCEPT !.armed = @ \cup {op}] /\ UNCHANGED asks
     ELSE /\ Put(AskFor(op, card.peer))
          /\ card' = IF card.kind = "menu" THEN card ELSE NoCard
  /\ UserDeed /\ UNCHANGED <<sending, cards>>

-----------------------------------------------------------------------------
\* The server, and the others.

\* What the request of the user makes of the two; the empty set where it is refused.
Become(a) ==
  CASE a.op = "request" /\ rel[a.peer] = "none" -> {"out"}
    [] a.op = "accept" /\ rel[a.peer] = "in" -> {"friend"}
    [] a.op \in {"reject", "remove"} /\ rel[a.peer] \in {"in", "out", "friend"} -> {"none"}
    [] a.op = "block" -> {"blocked"}
    [] OTHER -> {}

Handles(a) ==
  /\ a.at = "sent"
  /\ \/ /\ a.op \in {"list", "resolve"} /\ Turn(a, [a EXCEPT !.at = "done", !.seen = Shown])
        /\ UNCHANGED <<rel, late>>
     \/ /\ \E r \in Become(a) : rel' = [rel EXCEPT ![a.peer] = r]
        /\ Turn(a, [a EXCEPT !.at = "done"]) /\ late' = (late \/ ~StillOpen(a))
     \/ Turn(a, [a EXCEPT !.at = "failed"]) /\ UNCHANGED <<rel, late>>
  /\ UNCHANGED <<part, listing, mounted, shows, sending, card, cards, news, online, finder, deeds>>

\* sendToUser(): an event for a socket that is not there is gone.
Tell(event) ==
  /\ Len(news) < MaxNews
  /\ IF online THEN news' = Append(news, event) /\ UNCHANGED late ELSE late' = TRUE /\ UNCHANGED news
Untold == late' = TRUE /\ UNCHANGED news

\* What the other side does: ask, accept, and block are told; to withdraw, to
\* decline, to end the friendship and to redeem an invite are not.
PeerActs(p) ==
  /\ Deed
  /\ \/ rel[p] = "none" /\ rel' = [rel EXCEPT ![p] = "in"] /\ Tell("friend.request")
     \/ rel[p] = "out" /\ rel' = [rel EXCEPT ![p] = "friend"] /\ Tell("friend.accepted")
     \/ rel[p] # "hidden" /\ rel' = [rel EXCEPT ![p] = "hidden"] /\ Tell("friend.removed")
     \/ rel[p] = "hidden" /\ rel' = [rel EXCEPT ![p] = "none"] /\ UNCHANGED <<news, late>>
     \/ rel[p] \in {"in", "out", "friend"} /\ rel' = [rel EXCEPT ![p] = "none"] /\ Untold
     \/ rel[p] \in {"none", "in"} /\ rel' = [rel EXCEPT ![p] = "friend"] /\ Untold
     \/ rel[p] = "friend" /\ UNCHANGED rel /\ Tell("presence.update")
  /\ UNCHANGED <<part, listing, mounted, shows, sending, card, cards, asks, online, finder>>

SocketTurns ==
  /\ Does("socket") /\ Deed /\ online' = ~online /\ news' = <<>> /\ late' = (late \/ news # <<>>)
  /\ UNCHANGED <<part, rel, listing, mounted, shows, sending, card, cards, asks, finder>>

\* Variant with a plausible fault, as all definitions called a variant here,
\* only for the mutation runs: what the pane listens to.
PaneListens(event) == event # "friend.removed"

\* The pane does not listen to "friend.removed".
Listens(event) == part.page = "screen" \/ (part.page = "pane" /\ event # "friend.removed")

EventComes ==
  /\ news # <<>> /\ news' = Tail(news)
  /\ IF mounted /\ Listens(Head(news)) THEN Put(AskFor("list", Nobody)) ELSE UNCHANGED asks
  /\ late' = (late \/ (mounted /\ part.page = "pane" /\ Head(news) = "friend.removed"))
  /\ UNCHANGED <<part, rel, listing, mounted, shows, sending, card, cards, online, finder, deeds>>

-----------------------------------------------------------------------------
\* The answers.

AnswerComes == UNCHANGED <<part, rel, mounted, shows, cards, news, online, finder, deeds>>

\* refresh(): whichever answers last is shown.
ListComes(a) ==
  /\ a.op = "list" /\ a.at # "sent" /\ Take(a)
  /\ listing' = IF StillOpen(a) /\ a.at = "done" THEN a.seen ELSE listing
  /\ late' = IF StillOpen(a) THEN a.at = "failed" \/ (a.seen # Shown /\ news = <<>>) ELSE late
  /\ sending' = (sending /\ ~(StillOpen(a) /\ a.busy))
  /\ UNCHANGED card /\ AnswerComes

CardResolved(a) ==
  /\ a.op = "resolve" /\ a.at # "sent" /\ Take(a)
  /\ card' = IF StillCard(a)
             THEN [card EXCEPT !.loaded = TRUE, !.friend = a.seen[a.peer] = "friend"] ELSE card
  /\ UNCHANGED <<listing, sending, late>> /\ AnswerComes

\* sendRequest(), accept() and reject() go on to refresh().
Done(a) ==
  /\ a.op \in {"request", "accept", "reject"} /\ a.at # "sent"
  /\ IF a.at = "done" THEN Turn(a, [a EXCEPT !.op = "list", !.at = "sent", !.busy = a.op = "request"]) ELSE Take(a)
  /\ sending' = (sending /\ ~(StillOpen(a) /\ a.op = "request" /\ a.at = "failed"))
  /\ UNCHANGED <<listing, card, late>> /\ AnswerComes

\* onChanged(), and onClose() of whichever menu is open then.
CardDone(a) ==
  /\ a.op \in {"block", "remove"} /\ a.at # "sent"
  /\ IF a.at = "done" THEN Turn(a, [a EXCEPT !.op = "list", !.at = "sent"]) ELSE Take(a)
  /\ card' = IF a.at = "done" /\ card.kind = "menu" THEN NoCard ELSE card
  /\ UNCHANGED <<listing, sending, late>> /\ AnswerComes

-----------------------------------------------------------------------------
\* useHandleMatch() and NewDmPicker.

FinderStep ==
  /\ mounted /\ Does("find")
  /\ UNCHANGED <<part, rel, listing, mounted, shows, sending, card, cards, asks, news, online, late>>

\* Every change of the text starts the delay anew and makes the lookups that are
\* under way count no more.  What is no handle takes the card away; another
\* handle does not.
Types(h) ==
  /\ Deed /\ h # finder.text /\ ~finder.busy
  /\ finder' = [finder EXCEPT !.text = h, !.due = h # Nobody, !.looking = FALSE, !.picked = <<>>,
                              !.match = IF h = Nobody THEN Nobody ELSE @]
  /\ FinderStep

LooksUp ==
  /\ finder.due /\ finder' = [finder EXCEPT !.due = FALSE, !.looking = TRUE]
  /\ FinderStep /\ UNCHANGED deeds

Matches ==
  /\ finder.looking
  /\ \E m \in {finder.text, Nobody} : finder' = [finder EXCEPT !.looking = FALSE, !.match = m]
  /\ FinderStep /\ UNCHANGED deeds

\* submit(): the match, or else a lookup of the text.  (The friends whose names
\* have the text in them come between; here there are none.)
Submits ==
  /\ Deed /\ finder.text # Nobody /\ ~finder.busy
  /\ finder' = IF finder.match # Nobody
               THEN [EmptyField EXCEPT !.picked = <<finder.text, finder.match>>]
               ELSE [finder EXCEPT !.busy = TRUE, !.asked = finder.text]
  /\ FinderStep

LookedUp ==
  /\ finder.asked # Nobody
  /\ finder' \in {[EmptyField EXCEPT !.picked = <<finder.asked, finder.asked>>],
                  [finder EXCEPT !.busy = FALSE, !.asked = Nobody]}
  /\ FinderStep /\ UNCHANGED deeds

FriendsNext ==
  \/ Show \/ Hide \/ CloseCard \/ SocketTurns \/ EventComes \/ LooksUp \/ Matches \/ Submits \/ LookedUp
  \/ \E p \in Peer : SendRequest(p) \/ Accept(p) \/ Reject(p) \/ (part.page # "picker" /\ PeerActs(p))
  \/ \E p \in Peer, k \in {"menu", "profile"} : OpenCard(p, k)
  \/ \E op \in {"block", "remove"} : Click(op)
  \/ \E h \in Peer \cup {Nobody} : Types(h)
  \/ \E a \in Asked : Handles(a) \/ ListComes(a) \/ CardResolved(a) \/ Done(a) \/ CardDone(a)

-----------------------------------------------------------------------------
\* Once nothing is under way the list shows the friends and the requests that
\* there are: after whatever the user did, from the list, a menu or a popover,
\* and after what others did that the socket brings word of.  But for words
\* lost, unheard or never sent, a fetch that failed, and answers out of order
\* (FriendsScreen, FriendsPane).
FriendsSettle ==
  (mounted /\ part.page # "picker" /\ asks = EmptyBag /\ news = <<>> /\ ~late) => listing = Shown

\* "Enter falls back to a direct handle lookup, so pasting a full @handle works
\* even before the debounced match lands" (NewDmPicker.tsx:68-69): the
\* conversation that Enter opens is with the one whose handle is in the field.
EnterOpensTheTyped == finder.picked # <<>> => finder.picked[1] = finder.picked[2]
=============================================================================
