------------------------------ MODULE Messages ------------------------------
(***************************************************************************)
(* apps/server/src/chat/routes.ts and the list of messages kept by         *)
(* apps/client/src/renderer/src/components/RoomChatPanel.tsx: posting,     *)
(* editing, deleting, pinning, reacting and voting on the server, and one  *)
(* panel that follows a thread by its history, by the events the gateway   *)
(* pushes, by the answers to its own requests and by what it shows before  *)
(* they are answered.                                                      *)
(*                                                                         *)
(* Messages are numbered in the order of their creation, which is the      *)
(* order of createdAt.  A request reads the row in one step and writes in  *)
(* another; the broadcast follows the write without an await in between.   *)
(* Requests are answered over other connections than the WebSocket, so     *)
(* answers and events come in any order; events come in theirs.  Texts     *)
(* are reduced to the thread they were written, and in a DM encrypted, for.*)
(***************************************************************************)
EXTENDS Naturals, Sequences, FiniteSets, SequencesExt

CONSTANTS
  Me, Peer,          \* the user of the panel; whoever else takes part
  Conversation, Direct,  \* threads; the direct messages among them
  Option,            \* options of the polls
  PanelReq, OtherReq,\* requests of the panel, and of other clients
  Scenarios,         \* what the users do, and its bounds; see Scenario
  NoThread, NoVote, Idle, NoPage,
  \* Bounds.
  PageSize,          \* messages of a page of history: 50 in the code
  MaxMessage, MaxMount

User == {Me, Peer}
Req == PanelReq \cup OtherReq
Run == 1 .. MaxMount
Updates == {"edit", "pin", "vote", "delete", "react", "unreact"}
\* Which operations and faults there are, between which threads the panel is
\* switched, how often, and how many requests are made.
Scenario == [ops : SUBSET (Updates \cup {"send", "failure", "cut", "older"}),
             threads : SUBSET Conversation, mounts : Run, requests : Nat]

ASSUME MessagesAssumption ==
  /\ Direct \subseteq Conversation /\ NoThread \notin Conversation
  /\ Me # Peer /\ NoVote \notin Option
  /\ PanelReq \cap OtherReq = {}
  /\ Scenarios \subseteq Scenario
  /\ PageSize \in Nat \ {0}
  /\ MaxMessage \in Nat \ {0} /\ MaxMount \in Nat

VARIABLES
  does,      \* the scenario; never changes
  rows,      \* the Message table, with the reactions to each
  req,       \* req[r]: what a request is about and where it is; Idle when none
  made,      \* bound: requests made so far
  heard,     \* the thread whose events the gateway pushes to the panel's socket
  events,    \* the events on their way to it
  \* The panel.
  mount,     \* how often its effect ran; each run has a thread of its own
  open,      \* the thread it shows
  list,      \* messages
  loading,   \* historyLoading
  hasMore,
  bubbles,   \* pending: bubbles[r] is the state of the bubble of request r
  editing,   \* editingId; 0 when none
  peerKey,   \* peerPublicKey, by the thread whose peer it belongs to
  fetches,   \* fetches[n]: the history asked for by run n of the effect
  keys,      \* the runs whose request for the peer's key is under way
  older,     \* the page asked for by scrolling up
  \* History.
  clean,     \* no event was lost on this thread since its history was read
  exact      \* nor was a reaction counted twice, or a request of ours lost

table == <<rows, req, made>>
socket == <<heard, events>>
composer == <<bubbles, editing, peerKey, keys>>
panel == <<mount, open, list, loading, hasMore, fetches, older>>
history == <<clean, exact>>
messagesVars == <<does, table, socket, composer, panel, history>>

Id == 1 .. MaxMessage
Row == [thread : Conversation, author : User, body : Conversation, deleted : BOOLEAN,
        reacted : SUBSET User, votes : [User -> Option \cup {NoVote}]]
Entry == [id : Id, thread : Conversation, deleted : BOOLEAN, count : Nat, mine : BOOLEAN,
          tally : [Option -> Nat], myVote : Option \cup {NoVote}]
Event == [type : {"message", "edited"}, entry : Entry]
           \cup [type : {"deleted"}, thread : Conversation, id : Id]
           \cup [type : {"reaction"}, thread : Conversation, id : Id, by : User, add : BOOLEAN, vain : BOOLEAN]
Request == [op : Updates \cup {"send"}, by : User, thread : Conversation \cup {NoThread}, id : Id \cup {0},
            arg : Conversation \cup Option \cup {NoThread},
            votes : [User -> Option \cup {NoVote}],
            at : {"sent", "read", "answered", "failed"}]
ASSUME IdleAssumption == Idle \notin Request
Page == [thread : Conversation, at : {"asked", "messages", "ready"}, page : Seq(Entry),
         clean : BOOLEAN, exact : BOOLEAN]
OlderPage == [at : {"asked", "ready"}, thread : Conversation, before : Id, page : Seq(Entry),
              mount : Run, clean : BOOLEAN, exact : BOOLEAN]

MessagesTypeOK ==
  /\ does \in Scenarios
  /\ rows \in Seq(Row) /\ Len(rows) <= MaxMessage
  /\ req \in [Req -> Request \cup {Idle}]
  /\ made \in 0 .. does.requests
  /\ heard \in Conversation \cup {NoThread}
  /\ events \in Seq(Event)
  /\ mount \in 0 .. MaxMount
  /\ open \in Conversation \cup {NoThread}
  /\ list \in Seq(Entry)
  /\ loading \in BOOLEAN /\ hasMore \in BOOLEAN
  /\ bubbles \in [PanelReq -> {"none", "sending", "failed"}]
  /\ editing \in Id \cup {0}
  /\ peerKey \in Conversation \cup {NoThread}
  /\ fetches \in [Run -> Page \cup {NoPage}]
  /\ keys \subseteq Run
  /\ older \in OlderPage \cup {NoPage}
  /\ clean \in BOOLEAN /\ exact \in BOOLEAN

-----------------------------------------------------------------------------
(* The server.                                                             *)

NoVotes == [u \in User |-> NoVote]

\* One message is there from the start, in a room a poll.
FirstRow(t, u) == [thread |-> t, author |-> u, body |-> t, deleted |-> FALSE,
                   reacted |-> {}, votes |-> NoVotes]

Tally(votes) == [o \in Option |-> Cardinality({u \in User : votes[u] = o})]

\* toDTO for a viewer, without reactions.
ToDTO(id, row, viewer) ==
  [id |-> id, thread |-> row.thread, deleted |-> row.deleted, count |-> 0, mine |-> FALSE,
   tally |-> Tally(row.votes), myVote |-> row.votes[viewer]]

\* attachReactions, for this user.
AttachReactions(page) ==
  [i \in DOMAIN page |->
    LET reacted == rows[page[i].id].reacted
    IN [page[i] EXCEPT !.count = Cardinality(reacted), !.mine = Me \in reacted]]

\* A finite set of numbers, in order.
Ordered(S) == [k \in 1 .. Cardinality(S) |-> CHOOSE i \in S : Cardinality({j \in S : j <= i}) = k]

\* The last messages of a thread below an id, oldest first.
History(t, below) ==
  LET ids == {i \in DOMAIN rows : rows[i].thread = t /\ i < below}
      last == Ordered({i \in ids : Cardinality({j \in ids : j > i}) < PageSize})
  IN [k \in DOMAIN last |-> ToDTO(last[k], rows[last[k]], Me)]

Broadcast(t, event) ==
  events' = IF heard = t THEN Append(events, event) ELSE events

\* Whether the operation changes nobody's reaction.
NoChange(q) == (q.op = "react") = (q.by \in rows[q.id].reacted)

\* A request gets the row it is about.  The thread's access check that follows
\* is not modelled (see Rooms): a refusal is a failure.
Admits(op, u, id) ==
  /\ id \in 1 .. Len(rows)
  /\ op \in {"edit", "delete"} => rows[id].author = u
  /\ op \in {"edit", "pin", "vote", "react"} => ~rows[id].deleted
  /\ op = "vote" => rows[id].thread \notin Direct

\* Bound: each request counts, and there are so many at a time.
Begin(r, q) ==
  /\ req[r] = Idle /\ made < does.requests
  /\ made' = made + 1
  /\ req' = [req EXCEPT ![r] = q]

Frame(op, u, t, id, arg, votes, at) ==
  [op |-> op, by |-> u, thread |-> t, id |-> id, arg |-> arg, votes |-> votes, at |-> at]

\* Another client has asked for something, and the handler has read the row.
OtherAsks(r, op, u, id, arg) ==
  /\ r \in OtherReq /\ op \in does.ops /\ Admits(op, u, id)
  /\ Begin(r, Frame(op, u, rows[id].thread, id, arg, rows[id].votes, "read"))
  /\ UNCHANGED <<does, rows, socket, composer, panel, history>>

OtherSends(r, u, t) ==
  /\ r \in OtherReq /\ "send" \in does.ops /\ t \in does.threads
  /\ Begin(r, Frame("send", u, t, 0, t, NoVotes, "read"))
  /\ UNCHANGED <<does, rows, socket, composer, panel, history>>

\* A request of the panel is read by its handler.
Read(r) ==
  LET q == req[r] IN
  /\ r \in PanelReq /\ q # Idle /\ q.at = "sent"
  /\ IF q.op = "send"
     THEN req' = [req EXCEPT ![r].at = "read"]
     ELSE req' = IF Admits(q.op, q.by, q.id)
                 THEN [req EXCEPT ![r].at = "read", ![r].votes = rows[q.id].votes]
                 ELSE [req EXCEPT ![r].at = "failed"]
  /\ UNCHANGED <<does, rows, made, socket, composer, panel, history>>

\* Whoever asked gets an answer; of others' answers nothing depends.
Reply(r, id) ==
  req' = IF r \in PanelReq THEN [req EXCEPT ![r].at = "answered", ![r].id = id]
                           ELSE [req EXCEPT ![r] = Idle]

\* POST /chat/messages: create, broadcast, reply.
Create(r) ==
  LET q == req[r]
      id == Len(rows) + 1
      row == [thread |-> q.thread, author |-> q.by, body |-> q.arg, deleted |-> FALSE,
              reacted |-> {}, votes |-> NoVotes]
  IN
  /\ q # Idle /\ q.op = "send" /\ q.at = "read" /\ id \in Id
  /\ rows' = Append(rows, row)
  /\ Broadcast(q.thread, [type |-> "message", entry |-> ToDTO(id, row, q.by)])
  /\ Reply(r, id)
  /\ UNCHANGED <<does, made, heard, composer, panel, history>>

\* What an update makes of the row: the poll is written as it was read, but
\* for the voter's own vote, which a second vote for the same option takes back.
Updated(q) ==
  LET row == rows[q.id] IN
  CASE q.op = "edit" -> [row EXCEPT !.body = q.arg]
    [] q.op = "vote" -> [row EXCEPT !.votes =
                          [q.votes EXCEPT ![q.by] = IF @ = q.arg THEN NoVote ELSE q.arg]]
    [] q.op = "delete" -> [row EXCEPT !.deleted = TRUE]
    [] q.op = "react" -> [row EXCEPT !.reacted = @ \cup {q.by}]
    [] q.op = "unreact" -> [row EXCEPT !.reacted = @ \ {q.by}]
    [] OTHER -> row

\* Variant with a plausible fault, as all definitions called a variant here,
\* only for the mutation runs: the message is broadcast as it was read.
UpdateEventAsRead(q) ==
  CASE q.op \in {"edit", "pin", "vote"} ->
         [type |-> "edited", entry |-> ToDTO(q.id, rows[q.id], q.by)]
    [] q.op = "delete" -> [type |-> "deleted", thread |-> q.thread, id |-> q.id]
    [] OTHER -> [type |-> "reaction", thread |-> q.thread, id |-> q.id, by |-> q.by,
                 add |-> q.op = "react", vain |-> NoChange(q)]

\* PATCH, pin and vote broadcast the whole message, the others what changed.
UpdateEvent(q) ==
  CASE q.op \in {"edit", "pin", "vote"} ->
         [type |-> "edited", entry |-> ToDTO(q.id, Updated(q), q.by)]
    [] q.op = "delete" -> [type |-> "deleted", thread |-> q.thread, id |-> q.id]
    [] OTHER -> [type |-> "reaction", thread |-> q.thread, id |-> q.id, by |-> q.by,
                 add |-> q.op = "react", vain |-> NoChange(q)]

Update(r) ==
  LET q == req[r] IN
  /\ q # Idle /\ q.op \in Updates /\ q.at = "read"
  /\ rows' = [rows EXCEPT ![q.id] = Updated(q)]
  /\ Broadcast(q.thread, UpdateEvent(q))
  /\ Reply(r, q.id)
  /\ UNCHANGED <<does, made, heard, composer, panel, history>>

\* A request is refused, or its answer is lost.
Fail(r) ==
  LET q == req[r] IN
  /\ "failure" \in does.ops /\ r \in PanelReq /\ q # Idle /\ q.at \in {"sent", "answered"}
  /\ req' = [req EXCEPT ![r].at = "failed"]
  /\ UNCHANGED <<does, rows, made, socket, composer, panel, history>>

EventThread(event) == IF event.type \in {"message", "edited"} THEN event.entry.thread ELSE event.thread

\* Fewer than a page of messages came after this one.
Recent(k) == Cardinality({j \in DOMAIN rows : rows[j].thread = rows[k].thread /\ j > k}) < PageSize

\* An event says that a message is deleted, or shows it as one that is not.
Says(v, k) == (v.type = "deleted" /\ v.id = k) \/ (v.type = "edited" /\ v.entry.id = k /\ v.entry.deleted)
Denies(v, k) == v.type \in {"edited", "message"} /\ v.entry.id = k /\ ~v.entry.deleted

\* The answer to a message sent is on its way.
SendAnswered(r) == req[r] # Idle /\ req[r].op = "send" /\ req[r].at = "answered"

\* What is on its way about a thread fits its history as it is now: it tells of no
\* message older than a page, and what it tells is still so, or is followed by what is.
\* Not so with a page of messages under way, or with what was pushed before the panel
\* left the thread and came back: what changed in between was not pushed.
Timely(t) ==
  /\ \A r \in PanelReq : SendAnswered(r) /\ req[r].thread = t => Recent(req[r].id)
  /\ \A i \in DOMAIN events : \A k \in {j \in DOMAIN rows : rows[j].thread = t} :
       /\ events[i].type = "message" /\ events[i].entry.id = k => Recent(k)
       /\ rows[k].deleted /\ Denies(events[i], k) => \E j \in DOMAIN events : i < j /\ Says(events[j], k)
       /\ events[i].type = "edited" /\ events[i].entry.id = k =>
            \/ events[i].entry.tally = Tally(rows[k].votes)
            \/ \E j \in DOMAIN events : i < j /\ events[j].type = "edited" /\ events[j].entry.id = k

\* GET /chat/messages reads the messages, then the reactions to them.
ReadHistory(n) ==
  LET f == fetches[n] IN
  /\ f # NoPage /\ f.at = "asked"
  /\ fetches' = [fetches EXCEPT ![n].at = "messages", ![n].clean = heard = f.thread /\ Timely(f.thread),
                                ![n].page = History(f.thread, MaxMessage + 1)]
  /\ UNCHANGED <<does, table, socket, composer, mount, open, list, loading, hasMore, older, history>>

\* A reaction that these counts include and whose event is on its way will be
\* counted twice.
NoReactionUnderWay == \A i \in DOMAIN events : events[i].type # "reaction"

ReadReactions(n) ==
  /\ fetches[n] # NoPage /\ fetches[n].at = "messages"
  /\ fetches' = [fetches EXCEPT ![n].at = "ready", ![n].page = AttachReactions(@),
                                ![n].exact = NoReactionUnderWay]
  /\ UNCHANGED <<does, table, socket, composer, mount, open, list, loading, hasMore, older, history>>

ReadOlder ==
  /\ older # NoPage /\ older.at = "asked"
  /\ older' = [older EXCEPT !.at = "ready", !.exact = NoReactionUnderWay,
                            !.page = AttachReactions(History(older.thread, older.before))]
  /\ UNCHANGED <<does, table, socket, composer, mount, open, list, loading, hasMore, fetches, history>>

-----------------------------------------------------------------------------
(* The gateway, as far as the panel can tell (see ChatGateway).             *)

\* It has carried out the panel's commands: unsubscribe, subscribe.
Serve ==
  /\ heard # open
  /\ heard' = open
  /\ UNCHANGED <<does, table, events, composer, panel, history>>

\* The connection is lost, and with it what was on its way.  The transport
\* subscribes again; nobody asks for the history again.
Cut ==
  /\ "cut" \in does.ops /\ heard # NoThread
  /\ heard' = NoThread /\ events' = <<>>
  /\ fetches' = [n \in Run |-> IF fetches[n] = NoPage THEN NoPage
                               ELSE [fetches[n] EXCEPT !.clean = FALSE]]
  /\ clean' = FALSE /\ exact' = FALSE
  /\ UNCHANGED <<does, table, composer, mount, open, list, loading, hasMore, older>>

-----------------------------------------------------------------------------
(* The panel.                                                              *)

Shown(id) == \E i \in DOMAIN list : list[i].id = id /\ ~list[i].deleted

\* prev.map(m => m.id === id ? ... : m)
MapEntry(id, F(_)) == [i \in DOMAIN list |-> IF list[i].id = id THEN F(list[i]) ELSE list[i]]

\* Dedup by id.
Insert(entry) ==
  IF \E i \in DOMAIN list : list[i].id = entry.id THEN list ELSE Append(list, entry)

\* Variant: the bubbles stay.
OpenKeepingBubbles(t) ==
  /\ t # open /\ mount < does.mounts /\ t \in does.threads
  /\ mount' = mount + 1 /\ open' = t
  /\ loading' = TRUE
  /\ fetches' = [fetches EXCEPT ![mount + 1] =
                   [thread |-> t, at |-> "asked", page |-> <<>>, clean |-> FALSE, exact |-> FALSE]]
  /\ keys' = IF t \in Direct THEN keys \cup {mount + 1} ELSE keys
  /\ clean' = FALSE /\ exact' = FALSE
  /\ UNCHANGED <<does, table, socket, bubbles, editing, peerKey, list, hasMore, older>>

\* The effect runs for another thread: the state of the former one that the
\* code resets is reset, and no more.
Open(t) ==
  /\ t # open /\ mount < does.mounts /\ t \in does.threads
  /\ mount' = mount + 1 /\ open' = t
  /\ loading' = TRUE
  /\ bubbles' = [r \in PanelReq |-> "none"]
  /\ fetches' = [fetches EXCEPT ![mount + 1] =
                   [thread |-> t, at |-> "asked", page |-> <<>>, clean |-> FALSE, exact |-> FALSE]]
  /\ keys' = IF t \in Direct THEN keys \cup {mount + 1} ELSE keys
  /\ clean' = FALSE /\ exact' = FALSE
  /\ UNCHANGED <<does, table, socket, editing, peerKey, list, hasMore, older>>

\* Variant: the flag that the effect's cleanup sets is not looked at.
HistoryArrivesLate(n) ==
  LET f == fetches[n] IN
  /\ f # NoPage /\ f.at = "ready"
  /\ fetches' = [fetches EXCEPT ![n] = NoPage]
  /\ list' = f.page
  /\ hasMore' = (Len(f.page) >= PageSize)
  /\ loading' = FALSE
  /\ IF n = mount THEN clean' = f.clean /\ exact' = (f.clean /\ f.exact) ELSE UNCHANGED history
  /\ UNCHANGED <<does, table, socket, composer, mount, open, older>>

\* Only the answer to the last run's request is used.
HistoryArrives(n) ==
  LET f == fetches[n] IN
  /\ f # NoPage /\ f.at = "ready"
  /\ fetches' = [fetches EXCEPT ![n] = NoPage]
  /\ IF n = mount
     THEN /\ list' = f.page
          /\ hasMore' = (Len(f.page) >= PageSize)
          /\ loading' = FALSE
          /\ clean' = f.clean /\ exact' = (f.clean /\ f.exact)
     ELSE UNCHANGED <<list, hasMore, loading, history>>
  /\ UNCHANGED <<does, table, socket, composer, mount, open, older>>

HistoryFails(n) ==
  /\ "failure" \in does.ops /\ fetches[n] # NoPage
  /\ fetches' = [fetches EXCEPT ![n] = NoPage]
  /\ loading' = (loading /\ n # mount)
  /\ UNCHANGED <<does, table, socket, composer, mount, open, list, hasMore, older, history>>

KeyArrives(n) ==
  /\ n \in keys
  /\ keys' = keys \ {n}
  /\ peerKey' = IF n = mount THEN open ELSE peerKey
  /\ UNCHANGED <<does, table, socket, bubbles, editing, panel, history>>

KeyFails(n) ==
  /\ "failure" \in does.ops /\ n \in keys
  /\ keys' = keys \ {n}
  /\ peerKey' = IF n = mount THEN NoThread ELSE peerKey
  /\ UNCHANGED <<does, table, socket, bubbles, editing, panel, history>>

\* Variants: whatever is taken back was counted; one's own are counted again.
ReactBelowZero(e, by, add) ==
  LET own == by = Me
      less == [e EXCEPT !.count = @ - 1, !.mine = @ /\ ~own]
  IN IF own /\ e.mine = add THEN e
     ELSE IF add THEN [e EXCEPT !.count = @ + 1, !.mine = @ \/ own]
     ELSE IF less.count = 0 THEN [less EXCEPT !.mine = FALSE] ELSE less

ReactAgain(e, by, add) ==
  LET own == by = Me
      less == [e EXCEPT !.count = @ - 1, !.mine = @ /\ ~own]
  IN IF ~add /\ e.count = 0 THEN e
     ELSE IF add THEN [e EXCEPT !.count = @ + 1, !.mine = @ \/ own]
     ELSE IF less.count = 0 THEN [less EXCEPT !.mine = FALSE] ELSE less

\* A reaction of somebody, counted; one's own may have been counted before.
React(e, by, add) ==
  LET own == by = Me
      less == [e EXCEPT !.count = @ - 1, !.mine = @ /\ ~own]
  IN IF (own /\ e.mine = add) \/ (~add /\ e.count = 0) THEN e
     ELSE IF add THEN [e EXCEPT !.count = @ + 1, !.mine = @ \/ own]
     ELSE IF less.count = 0 THEN [less EXCEPT !.mine = FALSE] ELSE less

Applied(event) ==
  CASE event.type = "message" -> Insert(event.entry)
    [] event.type = "edited" ->
         MapEntry(event.entry.id, LAMBDA e : [event.entry EXCEPT !.count = e.count, !.mine = e.mine])
    [] event.type = "deleted" -> MapEntry(event.id, LAMBDA e : [e EXCEPT !.deleted = TRUE])
    [] event.type = "reaction" -> MapEntry(event.id, LAMBDA e : React(e, event.by, event.add))

\* An event of the open thread is applied to the list as it is; a page that is
\* on its way does not know of it.
Deliver ==
  LET event == Head(events) IN
  /\ events # <<>>
  /\ events' = Tail(events)
  /\ IF EventThread(event) = open
     THEN /\ list' = Applied(event)
          /\ fetches' = [n \in Run |-> IF fetches[n] = NoPage THEN NoPage
                                        ELSE [fetches[n] EXCEPT !.clean = FALSE]]
          /\ older' = IF older # NoPage /\ older.at = "ready" THEN [older EXCEPT !.clean = FALSE]
                                                              ELSE older
          \* Somebody's reaction is told again though nothing changed.
          /\ exact' = (exact /\ ~(event.type = "reaction" /\ event.vain /\ event.by # Me))
     ELSE UNCHANGED <<list, fetches, older, exact>>
  /\ UNCHANGED <<does, table, heard, composer, mount, open, loading, hasMore, clean>>

\* In a DM, what one writes is encrypted for the key at hand.
CanWrite == open # NoThread /\ (open \in Direct => peerKey # NoThread)
Written == IF open \in Direct THEN peerKey ELSE open

\* send() without a message being edited.
SendText(r) ==
  /\ "send" \in does.ops /\ CanWrite /\ editing = 0
  /\ r \in PanelReq /\ bubbles[r] = "none"
  /\ Begin(r, Frame("send", Me, open, 0, Written, NoVotes, "sent"))
  /\ bubbles' = [bubbles EXCEPT ![r] = "sending"]
  /\ UNCHANGED <<does, rows, socket, editing, peerKey, keys, panel, history>>

\* Attachments and polls, in rooms, are not shown before they are accepted.
SendPlain(r) ==
  /\ "send" \in does.ops /\ open \in Conversation \ Direct
  /\ r \in PanelReq /\ bubbles[r] = "none"
  /\ Begin(r, Frame("send", Me, open, 0, open, NoVotes, "sent"))
  /\ UNCHANGED <<does, rows, socket, composer, panel, history>>

RetryPending(r) ==
  /\ bubbles[r] = "failed" /\ CanWrite
  /\ Begin(r, Frame("send", Me, open, 0, Written, NoVotes, "sent"))
  /\ bubbles' = [bubbles EXCEPT ![r] = "sending"]
  /\ UNCHANGED <<does, rows, socket, editing, peerKey, keys, panel, history>>

DiscardPending(r) ==
  /\ bubbles[r] = "failed"
  /\ bubbles' = [bubbles EXCEPT ![r] = "none"]
  /\ UNCHANGED <<does, table, socket, editing, peerKey, keys, panel, history>>

StartEdit(id) ==
  /\ "edit" \in does.ops /\ Shown(id) /\ rows[id].author = Me
  /\ editing' = id
  /\ UNCHANGED <<does, table, socket, bubbles, peerKey, keys, panel, history>>

CancelEdit ==
  /\ editing # 0
  /\ editing' = 0
  /\ UNCHANGED <<does, table, socket, bubbles, peerKey, keys, panel, history>>

\* send() while a message is being edited.
SubmitEdit(r) ==
  /\ editing # 0 /\ CanWrite
  /\ r \in PanelReq /\ bubbles[r] = "none"
  /\ Begin(r, Frame("edit", Me, rows[editing].thread, editing, Written, NoVotes, "sent"))
  /\ editing' = 0
  /\ UNCHANGED <<does, rows, socket, bubbles, peerKey, keys, panel, history>>

\* A request about a message shown, whose effect, if any, is shown at once.
Ask(r, op, id, arg, F(_)) ==
  /\ op \in does.ops /\ Shown(id)
  /\ r \in PanelReq /\ bubbles[r] = "none"
  /\ Begin(r, Frame(op, Me, rows[id].thread, id, arg, NoVotes, "sent"))
  /\ list' = MapEntry(id, F)
  /\ UNCHANGED <<does, rows, socket, composer, mount, open, loading, hasMore, fetches, older, history>>

Pin(r, id) == Ask(r, "pin", id, NoThread, LAMBDA e : e)

Delete(r, id) == Shown(id) /\ rows[id].author = Me /\ Ask(r, "delete", id, NoThread, LAMBDA e : e)

\* toggleReaction takes back what the message shows as one's own.
ToggleReaction(r, id) ==
  \/ /\ \E i \in DOMAIN list : list[i].id = id /\ list[i].mine
     /\ Ask(r, "unreact", id, NoThread,
            LAMBDA e : IF e.count = 0 THEN e ELSE [e EXCEPT !.count = @ - 1, !.mine = FALSE])
  \/ /\ \E i \in DOMAIN list : list[i].id = id /\ ~list[i].mine
     /\ Ask(r, "react", id, NoThread, LAMBDA e : [e EXCEPT !.count = @ + 1, !.mine = TRUE])

Dec(n) == IF n = 0 THEN 0 ELSE n - 1

HandleVote(r, id, o) ==
  /\ Shown(id) /\ rows[id].thread \notin Direct
  /\ Ask(r, "vote", id, o,
         LAMBDA e :
           IF e.myVote = o THEN [e EXCEPT !.tally[o] = Dec(@), !.myVote = NoVote]
           ELSE [e EXCEPT !.tally = [p \in Option |-> IF p = o THEN @[p] + 1
                                                      ELSE IF p = e.myVote THEN Dec(@[p]) ELSE @[p]],
                          !.myVote = o])

\* The answer is used whatever thread is open by now.  That to a vote is an
\* object with the message in it where the caller expects the message, and so
\* is not found in the list.
Answered(r) ==
  LET q == req[r] IN
  /\ q # Idle /\ q.at = "answered"
  /\ req' = [req EXCEPT ![r] = Idle]
  /\ bubbles' = IF q.op = "send" THEN [bubbles EXCEPT ![r] = "none"] ELSE bubbles
  /\ list' = CASE q.op = "send" -> Insert(ToDTO(q.id, [FirstRow(q.thread, Me) EXCEPT !.body = q.arg], Me))
               [] q.op = "delete" -> MapEntry(q.id, LAMBDA e : [e EXCEPT !.deleted = TRUE])
               [] OTHER -> list
  /\ UNCHANGED <<does, rows, made, socket, editing, peerKey, keys, mount, open, loading, hasMore,
                 fetches, older, history>>

\* A bubble can be sent again; what was shown too early stays.
Failed(r) ==
  LET q == req[r] IN
  /\ q # Idle /\ q.at = "failed"
  /\ req' = [req EXCEPT ![r] = Idle]
  /\ bubbles' = IF bubbles[r] = "sending" THEN [bubbles EXCEPT ![r] = "failed"] ELSE bubbles
  /\ exact' = (exact /\ q.op \notin {"react", "unreact", "vote"})
  /\ UNCHANGED <<does, rows, made, socket, editing, peerKey, keys, panel, clean>>

ScrollUp ==
  /\ "older" \in does.ops
  /\ hasMore /\ older = NoPage /\ list # <<>> /\ open # NoThread
  /\ older' = [at |-> "asked", thread |-> open, before |-> list[1].id, page |-> <<>>,
               mount |-> mount, clean |-> ~loading, exact |-> FALSE]
  /\ UNCHANGED <<does, table, socket, composer, mount, open, list, loading, hasMore, fetches, history>>

\* The page goes before whatever the list shows by now.
OlderArrives ==
  LET sound == clean /\ older.clean /\ older.mount = mount IN
  /\ older # NoPage /\ older.at = "ready"
  /\ older' = NoPage
  /\ list' = older.page \o list
  /\ hasMore' = (Len(older.page) >= PageSize)
  /\ clean' = sound
  /\ exact' = (sound /\ exact /\ older.exact)
  /\ UNCHANGED <<does, table, socket, composer, mount, open, loading, fetches>>

OlderFails ==
  /\ "failure" \in does.ops /\ older # NoPage
  /\ older' = NoPage
  /\ UNCHANGED <<does, table, socket, composer, mount, open, list, loading, hasMore, fetches, history>>

-----------------------------------------------------------------------------

MessagesInit ==
  /\ does \in Scenarios
  /\ \E t \in does.threads, u \in User : rows = <<FirstRow(t, u)>>
  /\ req = [r \in Req |-> Idle] /\ made = 0
  /\ heard = NoThread /\ events = <<>>
  /\ mount = 0 /\ open = NoThread /\ list = <<>> /\ loading = TRUE /\ hasMore = TRUE
  /\ bubbles = [r \in PanelReq |-> "none"] /\ editing = 0
  /\ peerKey = NoThread /\ keys = {}
  /\ fetches = [n \in Run |-> NoPage] /\ older = NoPage
  /\ clean = FALSE /\ exact = FALSE

OfServer ==
  \/ \E r \in OtherReq, u \in User, id \in Id :
       \/ \E op \in Updates \ {"edit", "vote"} : OtherAsks(r, op, u, id, NoThread)
       \/ \E o \in Option : OtherAsks(r, "vote", u, id, o)
       \/ OtherAsks(r, "edit", u, id, rows[id].thread)
  \/ \E r \in OtherReq, u \in User, t \in Conversation : OtherSends(r, u, t)
  \/ \E r \in Req : Read(r) \/ Create(r) \/ Update(r) \/ Fail(r)
  \/ \E n \in Run : ReadHistory(n) \/ ReadReactions(n)
  \/ ReadOlder \/ Serve \/ Cut

OfPanel ==
  \/ \E t \in Conversation : Open(t)
  \/ \E n \in Run : HistoryArrives(n) \/ HistoryFails(n) \/ KeyArrives(n) \/ KeyFails(n)
  \/ Deliver \/ ScrollUp \/ OlderArrives \/ OlderFails \/ CancelEdit
  \/ \E id \in Id : StartEdit(id)
  \/ \E r \in PanelReq : \/ SendText(r) \/ SendPlain(r) \/ RetryPending(r) \/ DiscardPending(r)
                         \/ SubmitEdit(r) \/ Answered(r) \/ Failed(r)
  \/ \E r \in PanelReq, id \in Id :
       \/ Pin(r, id) \/ Delete(r, id) \/ ToggleReaction(r, id)
       \/ \E o \in Option : HandleVote(r, id, o)

MessagesNext == OfServer \/ OfPanel

MessagesSpec == MessagesInit /\ [][MessagesNext]_messagesVars

-----------------------------------------------------------------------------
(* Properties.                                                             *)

\* No event of the open thread is on its way, and none was lost.
Quiet == clean /\ heard = open /\ \A i \in DOMAIN events : EventThread(events[i]) # open

\* Entries of the open thread in the list: answers to requests made in another
\* thread may have added others.
Own == {i \in DOMAIN list : list[i].thread = open}

\* Once a history was read while the panel was subscribed and no event came in
\* between, the list has every message of the thread from the oldest it shows,
\* each of them once, and shows exactly those that are not deleted: whatever
\* the order of events, answers and older pages, and whichever requests fail.
ListIsComplete ==
  Quiet =>
    LET ids == {list[i].id : i \in Own}
        first == IF ids = {} THEN 1 ELSE CHOOSE k \in ids : \A j \in ids : k <= j
    IN /\ ids = {k \in first .. Len(rows) : rows[k].thread = open}
       /\ \A i \in Own : list[i].deleted = rows[list[i].id].deleted
       /\ \A i, j \in Own : i # j => list[i].id # list[j].id

\* Whether the panel's own request of some kind is under way.
Busy(ops) == \E r \in PanelReq : req[r] # Idle /\ req[r].op \in ops

\* Optimistic toggles and votes, their echoes, those on the user's other devices
\* and those of others leave each post with the right number and the right "mine",
\* and each poll with the votes that the server has, however they interleave, once
\* all have been heard of and none failed.
TalliesSettle ==
  Quiet /\ exact =>
    /\ ~Busy({"react", "unreact"}) =>
         \A i \in Own : LET reacted == rows[list[i].id].reacted
                        IN list[i].count = Cardinality(reacted) /\ list[i].mine = (Me \in reacted)
    /\ ~Busy({"vote"}) => \A i \in Own : list[i].tally = Tally(rows[list[i].id].votes)

\* A bubble is a text sent, or that failed to be sent, in the thread that is
\* open: "Retry" never posts into another conversation.
BubblesBelong ==
  \A r \in PanelReq : bubbles[r] = "sending" =>
    req[r] # Idle /\ req[r].op = "send" /\ req[r].thread = open
=============================================================================
