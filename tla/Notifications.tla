--------------------------- MODULE Notifications ---------------------------
(***************************************************************************)
(* What calls for a user's attention: the unread counts of their direct    *)
(* messages, the mutes that silence them, and the bell with its room       *)
(* invites.                                                                *)
(*                                                                         *)
(* The server keeps, in apps/server/src/notifications, when each thread    *)
(* was last read, its mute level and when the bell was last seen, and      *)
(* counts on demand.  The client keeps copies (lib/unread-store.ts,        *)
(* lib/notifications-store.ts, the mute cache of lib/chat-transport.ts,    *)
(* the cards of components/InviteQueue.tsx), which it changes ahead of the *)
(* server, on events of the gateway, and by answers to requests that       *)
(* overlap all this.                                                       *)
(*                                                                         *)
(* The connection stays up and brings events in order; ChatTransport has   *)
(* what happens when it does not.  All mutes are set on this client, and   *)
(* invites are those of one account: profiles have invites or accounts.    *)
(***************************************************************************)
EXTENDS Naturals, Sequences, FiniteSets, SequencesExt

CONSTANTS
  Account,           \* the accounts that sign in on this client
  Direct, Of,        \* threads of direct messages; Of[t]: the account of t
  Invite,            \* directed room invites
  Profiles,          \* what goes on, and its bounds; see Profile
  NoAccount, NoThread, NoBanner

Operation == {"screens", "mute", "bell", "accounts", "failure"}
Profile == [ops : SUBSET Operation, threads : SUBSET Direct, invites : SUBSET Invite,
            messages : Nat, moves : Nat, refreshes : Nat, feeds : Nat]

ASSUME NotificationsAssumption ==
  /\ Of \in [Direct -> Account]
  /\ NoThread \notin Direct /\ NoAccount \notin Account
  /\ Profiles \subseteq Profile
  /\ \A p \in Profiles : p.invites = {} \/ "accounts" \notin p.ops

Level == {"all", "mentions", "none"}
Kind == {"message", "mention"}

VARIABLES
  does,        \* the profile; never changes
  \* The server.
  now,         \* its clock: each step that looks at it has a time of its own
  messages,    \* of the peers: thread, createdAt, whether the user is mentioned
  lastReadAt,  \* ThreadReadState; 0 when there is no row
  mute,        \* ThreadMuteState: the level, "all" when there is no row
  invite,      \* the status of each invite; "none" before it is sent
  events,      \* on their way to the client
  \* The client: its account, its transport, and what is on the screen.
  me,
  transport,   \* the number of transports made; the last is that of me, if any
  wired,       \* wiredTo: the transport that the bell listens to
  screen, active, split,
  viewing,     \* _viewingThread: one slot, though two panels may be open
  subscribed,
  moves,       \* bound: how often the screen or the account changed
  \* The unread counts and what may change them.
  counts, totalUnread,
  reading,     \* POST /chat/read under way
  refreshing,  \* GET /chat/unread under way, in the order they were asked
  \* The mutes.
  muteCache, muting,
  lookups,     \* events that wait for GET .../mute before they are announced
  banner,      \* the last OS notification
  \* The bell, its invites and the cards of the invite queue.
  invites, loaded, queue,
  feeds,       \* GET /notifications/feed under way, in the order they were asked
  answering,   \* accepting and declining under way
  \* History.
  owed,        \* threads with a mention that came while nobody was looking
  promised,    \* promised[t]: the level that the user was told is in force
  settled      \* the bell was last filled by a feed that nothing overtook

server == <<now, messages, lastReadAt, mute, invite, events>>
place == <<me, transport, wired, screen, active, split, viewing, subscribed, moves>>
unread == <<counts, totalUnread, reading, refreshing, owed>>
mutes == <<muteCache, muting, lookups, banner, promised>>
bell == <<invites, loaded, queue, feeds, answering, settled>>
notificationsVars == <<does, server, place, unread, mutes, bell>>

Zero == [t \in Direct |-> 0]
Default == [t \in Direct |-> "all"]

Message == [thread : Direct, at : Nat, mention : BOOLEAN]
Event == [kind : Kind, thread : Direct] \cup [kind : {"invite"}, invite : Invite]
Reading == [thread : Direct, move : Nat, at : Nat]
Refresh == [of : Account, at : {"asked", "reads", "mutes", "counted"},
            reads : [Direct -> Nat], mutes : [Direct -> Level], counts : [Direct -> Nat]]
Lookup == [n : Nat, over : Nat, kind : Kind, thread : Direct, level : Level \cup {"asked"}, due : Level]
Feed == [listed : BOOLEAN, invites : SUBSET Invite, fresh : BOOLEAN]
Answer == [op : {"accepted", "declined"}, invite : Invite, from : {"bell", "card"},
           at : {"sent", "done", "failed"}]
Announced == [kind : Kind, thread : Direct, due : Level]

ServerTypes ==
  /\ now \in Nat /\ messages \in Seq(Message) /\ Len(messages) <= does.messages
  /\ lastReadAt \in [Direct -> 0 .. now]
  /\ mute \in [Direct -> Level]
  /\ invite \in [Invite -> {"none", "pending", "accepted", "declined"}]
  /\ events \in Seq(Event)

PlaceTypes ==
  /\ me \in Account \cup {NoAccount} /\ transport \in 0 .. moves /\ wired \in 0 .. transport
  /\ screen \in {"none", "lobby", "dms"}
  /\ active \in Direct \cup {NoThread} /\ split \in Direct \cup {NoThread}
  /\ viewing \in Direct \cup {NoThread} /\ subscribed \subseteq Direct
  /\ moves \in 0 .. does.moves
  /\ (me = NoAccount) = (screen = "none") /\ (split # NoThread => active # NoThread)

UnreadTypes ==
  /\ counts \in [Direct -> Nat] /\ owed \subseteq Direct
  /\ reading \subseteq Reading /\ (\A r \in reading : r.at <= now) /\ refreshing \in Seq(Refresh)

MuteTypes ==
  /\ muteCache \in [Direct -> Level \cup {"unknown"}]
  /\ muting \subseteq [thread : Direct, level : Level, done : BOOLEAN]
  /\ lookups \subseteq Lookup /\ banner \in Announced \cup {NoBanner}
  /\ promised \in [Direct -> Level]

BellTypes ==
  /\ invites \subseteq Invite /\ loaded \in BOOLEAN /\ queue \subseteq Invite
  /\ feeds \in Seq(Feed) /\ answering \subseteq Answer /\ settled \in BOOLEAN

NotificationsTypeOK ==
  /\ does \in Profiles /\ totalUnread \in Nat
  /\ ServerTypes /\ PlaceTypes /\ UnreadTypes /\ MuteTypes /\ BellTypes
-----------------------------------------------------------------------------
(* The server.                                                             *)

\* computeUnread, from what was read of the other two tables.
ComputeUnread(u, reads, levels) ==
  [t \in Direct |->
    IF Of[t] # u \/ levels[t] = "none" THEN 0
    ELSE Cardinality({i \in DOMAIN messages :
           /\ messages[i].thread = t /\ messages[i].at > reads[t]
           /\ levels[t] = "mentions" => messages[i].mention})]

\* A peer writes: subscribers get the message, who is mentioned gets it anyway.
PeerSends(t, mention) ==
  /\ Len(messages) < does.messages /\ t \in does.threads
  /\ now' = now + 1
  /\ messages' = Append(messages, [thread |-> t, at |-> now + 1, mention |-> mention])
  /\ events' = events
       \o (IF t \in subscribed THEN <<[kind |-> "message", thread |-> t]>> ELSE <<>>)
       \o (IF mention /\ Of[t] = me THEN <<[kind |-> "mention", thread |-> t]>> ELSE <<>>)
  /\ UNCHANGED <<does, lastReadAt, mute, invite, place, unread, mutes, bell>>

\* POST /chat/read takes the time, then writes it.
ReadStamped(r) ==
  /\ r \in reading /\ r.at = 0
  /\ now' = now + 1
  /\ reading' = (reading \ {r}) \cup {[r EXCEPT !.at = now + 1]}
  /\ UNCHANGED <<does, messages, lastReadAt, mute, invite, events, place,
                 counts, totalUnread, refreshing, owed, mutes, bell>>

ReadWritten(r) ==
  /\ r \in reading /\ r.at # 0
  /\ lastReadAt' = [lastReadAt EXCEPT ![r.thread] = r.at]
  /\ reading' = reading \ {r}
  /\ UNCHANGED <<does, now, messages, mute, invite, events, place,
                 counts, totalUnread, refreshing, owed, mutes, bell>>

\* GET /chat/unread queries one table after the other.
CountUnread(k) ==
  LET f == refreshing[k] IN
  /\ f.at # "counted"
  /\ refreshing' = [refreshing EXCEPT ![k] =
       CASE f.at = "asked" -> [f EXCEPT !.at = "reads", !.reads = lastReadAt]
         [] f.at = "reads" -> [f EXCEPT !.at = "mutes", !.mutes = mute]
         [] f.at = "mutes" -> [f EXCEPT !.at = "counted",
                                        !.counts = ComputeUnread(f.of, f.reads, f.mutes)]]
  /\ UNCHANGED <<does, server, place, counts, totalUnread, reading, owed, mutes, bell>>

MuteWritten(m) ==
  /\ m \in muting /\ ~m.done
  /\ mute' = [mute EXCEPT ![m.thread] = m.level]
  /\ muting' = (muting \ {m}) \cup {[m EXCEPT !.done = TRUE]}
  /\ owed' = IF m.level = "none" THEN owed \ {m.thread} ELSE owed
  /\ UNCHANGED <<does, now, messages, lastReadAt, invite, events, place, counts,
                 totalUnread, reading, refreshing, muteCache, lookups, banner, promised, bell>>

MuteRead(l) ==
  /\ l \in lookups /\ l.level = "asked"
  /\ lookups' = (lookups \ {l}) \cup {[l EXCEPT !.level = mute[l.thread]]}
  /\ UNCHANGED <<does, server, place, unread, muteCache, muting, banner, promised, bell>>

InviteSent(i) ==
  /\ i \in does.invites /\ invite[i] = "none" /\ me # NoAccount
  /\ invite' = [invite EXCEPT ![i] = "pending"]
  /\ events' = Append(events, [kind |-> "invite", invite |-> i])
  /\ UNCHANGED <<does, now, messages, lastReadAt, mute, place, unread, mutes, bell>>

Pending == {i \in Invite : invite[i] = "pending"}

FeedRead(k) ==
  /\ ~feeds[k].listed
  /\ feeds' = [feeds EXCEPT ![k] = [listed |-> TRUE, invites |-> Pending,
                                    fresh |-> answering = {}]]
  /\ UNCHANGED <<does, server, place, unread, mutes, invites, loaded, queue, answering, settled>>

\* What these feeds say is not the last word.
Overtaken(fs) == [k \in DOMAIN fs |-> [fs[k] EXCEPT !.fresh = FALSE]]

\* An invite is accepted or declined, once (see Rooms for the steps).
AnswerHandled(r) ==
  /\ r \in answering /\ r.at = "sent"
  /\ IF invite[r.invite] = "pending"
     THEN /\ invite' = [invite EXCEPT ![r.invite] = r.op]
          /\ answering' = (answering \ {r}) \cup {[r EXCEPT !.at = "done"]}
     ELSE /\ answering' = (answering \ {r}) \cup {[r EXCEPT !.at = "failed"]}
          /\ UNCHANGED invite
  /\ UNCHANGED <<does, now, messages, lastReadAt, mute, events, place, unread, mutes,
                 invites, loaded, queue, feeds, settled>>

-----------------------------------------------------------------------------
(* The client: the account, the screens and the unread counts.             *)

Sum(f) == FoldFunction(+, 0, f)

AskUnread == [of |-> me, at |-> "asked", reads |-> Zero, mutes |-> Default, counts |-> Zero]
AskFeed == [listed |-> FALSE, invites |-> {}, fresh |-> FALSE]

\* Bounds: so many requests of a kind at a time.
Refreshes(ask) == /\ Len(refreshing) < does.refreshes
                  /\ refreshing' = Append(refreshing, ask)

RefreshesBell == Len(feeds) < does.feeds /\ feeds' = Append(feeds, AskFeed)

Move == moves < does.moves /\ moves' = moves + 1

\* Signing in shows the lobby, which refreshes the counts, and the column with
\* the bell, which is filled unless it was filled before, and wired to the
\* transport there is: none, for the transport is made by an effect of the
\* column's parent, which runs after its own.
SignIn(u) ==
  /\ me = NoAccount /\ Move
  /\ me' = u /\ transport' = transport + 1
  /\ screen' = "lobby"
  /\ Refreshes([AskUnread EXCEPT !.of = u])
  /\ IF loaded THEN UNCHANGED feeds ELSE RefreshesBell
  /\ UNCHANGED <<does, server, wired, active, split, viewing, subscribed, counts, totalUnread,
                 reading, owed, mutes, invites, loaded, queue, answering, settled>>

\* The unread counts are reset, the bell and the cards are not.
SignOut ==
  /\ "accounts" \in does.ops /\ me # NoAccount /\ Move
  /\ me' = NoAccount /\ screen' = "none"
  /\ active' = NoThread /\ split' = NoThread /\ viewing' = NoThread /\ subscribed' = {}
  /\ events' = <<>>
  /\ counts' = Zero /\ totalUnread' = 0
  /\ owed' = {}
  /\ muteCache' = [t \in Direct |-> "unknown"] /\ promised' = Default
  /\ UNCHANGED <<does, now, messages, lastReadAt, mute, invite, transport, wired, reading,
                 refreshing, muting, lookups, banner, bell>>

\* For MentionsAreBadged: opening a thread marks all of them.
MarkEverything(open) ==
  /\ reading' = reading \cup {[thread |-> t, move |-> moves', at |-> 0] : t \in open}
  /\ counts' = Zero /\ totalUnread' = 0
  /\ owed' = owed \ open

\* What a change of the open threads does: the effect marks each of them read
\* and clears its count.
MarkOpen(open) ==
  /\ reading' = reading \cup {[thread |-> t, move |-> moves', at |-> 0] : t \in open}
  /\ counts' = [t \in Direct |-> IF t \in open THEN 0 ELSE counts[t]]
  /\ totalUnread' = totalUnread - Sum([t \in Direct |-> IF t \in open THEN counts[t] ELSE 0])
  /\ owed' = owed \ open

Mine == {t \in does.threads : Of[t] = me}

NoThreadless(open) == open \ {NoThread}

GoToDms ==
  /\ "screens" \in does.ops /\ screen = "lobby" /\ Move
  /\ screen' = "dms"
  /\ Refreshes(AskUnread)
  /\ UNCHANGED <<does, server, me, transport, wired, active, split, viewing, subscribed,
                 counts, totalUnread, reading, owed, mutes, bell>>

GoToLobby ==
  /\ screen = "dms" /\ Move
  /\ screen' = "lobby"
  /\ active' = NoThread /\ split' = NoThread /\ viewing' = NoThread /\ subscribed' = {}
  /\ Refreshes(AskUnread)
  /\ UNCHANGED <<does, server, me, transport, wired, counts, totalUnread, reading, owed, mutes, bell>>

\* Another thread in the first pane.  When it is the one in the second pane,
\* that pane closes, and its panel unsubscribes and stops viewing the thread
\* that the first pane now shows.
Select(t) ==
  /\ screen = "dms" /\ t \in Mine /\ t # active /\ Move
  /\ active' = t
  /\ split' = IF split = t THEN NoThread ELSE split
  /\ viewing' = IF split = t THEN NoThread ELSE t
  /\ subscribed' = (subscribed \ {active, split}) \cup ({t, split} \ (IF split = t THEN {t} ELSE {NoThread}))
  /\ MarkOpen(NoThreadless({t, split}))
  /\ UNCHANGED <<does, server, me, transport, wired, screen, refreshing, mutes, bell>>

\* Another thread in the second pane.
Split(t) ==
  /\ active # NoThread /\ t \in Mine /\ t \notin {active, split} /\ Move
  /\ split' = t /\ viewing' = t
  /\ subscribed' = (subscribed \ {split}) \cup {t}
  /\ MarkOpen({active, t})
  /\ UNCHANGED <<does, server, me, transport, wired, screen, active, refreshing, mutes, bell>>

\* Closing the second pane clears the slot, whatever the first one shows.
Unsplit ==
  /\ split # NoThread /\ Move
  /\ split' = NoThread /\ viewing' = NoThread
  /\ subscribed' = subscribed \ {split}
  /\ MarkOpen({active})
  /\ UNCHANGED <<does, server, me, transport, wired, screen, active, refreshing, mutes, bell>>

\* Closing the first one promotes the second.
CloseActive ==
  /\ active # NoThread /\ Move
  /\ active' = split /\ split' = NoThread
  /\ viewing' = split
  /\ subscribed' = {split} \ {NoThread}
  /\ MarkOpen(NoThreadless({split}))
  /\ UNCHANGED <<does, server, me, transport, wired, screen, refreshing, mutes, bell>>

\* The counts are what the answer says, whoever asked.
UnreadArrives(k) ==
  LET f == refreshing[k] IN
  /\ f.at = "counted"
  /\ refreshing' = RemoveAt(refreshing, k)
  /\ counts' = f.counts /\ totalUnread' = Sum(f.counts)
  /\ UNCHANGED <<does, server, place, reading, owed, mutes, bell>>

UnreadFails(k) ==
  /\ "failure" \in does.ops
  /\ refreshing' = RemoveAt(refreshing, k)
  /\ UNCHANGED <<does, server, place, counts, totalUnread, reading, owed, mutes, bell>>

-----------------------------------------------------------------------------
(* The client: events, mutes and banners.                                  *)

Allows(level, kind) == level = "all" \/ (level = "mentions" /\ kind = "mention")

\* routeNotification for a message in a thread whose level is known.
Announce(level, kind, t, due) ==
  banner' = IF Allows(level, kind) THEN [kind |-> kind, thread |-> t, due |-> due] ELSE banner

\* A badge is owed, unless it is muted, answers under way do not know of it, or
\* the thread was marked read while the event was on its way.
OwedFor(t) ==
  IF /\ mute[t] # "none" /\ refreshing = <<>> /\ \A r \in reading : r.thread # t
     /\ \E i \in DOMAIN messages :
          messages[i].thread = t /\ messages[i].mention /\ messages[i].at > lastReadAt[t]
  THEN {t} ELSE {}

DeliverMessage ==
  LET e == Head(events)
      t == e.thread
      level == muteCache[t]
  IN
  /\ events # <<>> /\ e.kind \in Kind
  /\ events' = Tail(events)
  /\ IF viewing = t
     THEN UNCHANGED <<counts, totalUnread, owed, lookups, banner>>
     ELSE /\ counts' = [counts EXCEPT ![t] = @ + 1] /\ totalUnread' = totalUnread + 1
          /\ owed' = IF e.kind = "mention" THEN owed \cup OwedFor(t) ELSE owed
          /\ IF level = "unknown"
             THEN /\ lookups' = lookups \cup
                       {[n |-> now, over |-> transport, kind |-> e.kind, thread |-> t,
                        level |-> "asked", due |-> promised[t]]}
                  /\ UNCHANGED banner
             ELSE Announce(level, e.kind, t, promised[t]) /\ UNCHANGED lookups
  /\ UNCHANGED <<does, now, messages, lastReadAt, mute, invite, place, reading, refreshing,
                 muteCache, muting, promised, bell>>

\* getMuteLevel has its answer; the cache is that of the transport that asked.
MuteArrives(l) ==
  /\ l \in lookups /\ l.level # "asked"
  /\ lookups' = lookups \ {l}
  /\ muteCache' = IF l.over = transport THEN [muteCache EXCEPT ![l.thread] = l.level] ELSE muteCache
  /\ Announce(l.level, l.kind, l.thread, l.due)
  /\ UNCHANGED <<does, server, place, unread, muting, promised, bell>>

\* The default is used once, and not kept.
MuteLookupFails(l) ==
  /\ "failure" \in does.ops /\ l \in lookups
  /\ lookups' = lookups \ {l}
  /\ Announce("all", l.kind, l.thread, "all")
  /\ UNCHANGED <<does, server, place, unread, muteCache, muting, promised, bell>>

\* MutePopover: submit.
SetMute(t, level) ==
  /\ "mute" \in does.ops /\ t \in Mine
  /\ muting = {}                                  \* one popover, busy meanwhile
  /\ muting' = {[thread |-> t, level |-> level, done |-> FALSE]}
  /\ promised' = [promised EXCEPT ![t] = "all"]
  /\ lookups' = {IF l.thread = t THEN [l EXCEPT !.due = "all"] ELSE l : l \in lookups}
  /\ UNCHANGED <<does, server, place, unread, muteCache, banner, bell>>

\* For MutedIsSilent: the cached level is not dropped.
MuteAnsweredKeepingCache(m) ==
  /\ m \in muting /\ m.done
  /\ muting' = {}
  /\ promised' = IF \E l \in lookups : l.thread = m.thread THEN promised
                 ELSE [promised EXCEPT ![m.thread] = m.level]
  /\ UNCHANGED <<does, server, place, unread, muteCache, lookups, banner, bell>>

\* The cached level is dropped; a lookup under way may yet bring the old one.
MuteAnswered(m) ==
  /\ m \in muting /\ m.done
  /\ muting' = {}
  /\ muteCache' = [muteCache EXCEPT ![m.thread] = "unknown"]
  /\ promised' = IF \E l \in lookups : l.thread = m.thread THEN promised
                 ELSE [promised EXCEPT ![m.thread] = m.level]
  /\ UNCHANGED <<does, server, place, unread, lookups, banner, bell>>

-----------------------------------------------------------------------------
(* The client: the bell and the cards.                                     *)

\* A card goes when its invite leaves the bell, however it does.
BellShows(is) == invites' = is /\ queue' = queue \ (invites \ is)

DeliverInvite ==
  LET e == Head(events) IN
  /\ events # <<>> /\ e.kind = "invite"
  /\ events' = Tail(events)
  /\ queue' = queue \cup {e.invite}
  /\ IF wired = transport
     THEN RefreshesBell /\ UNCHANGED settled
     ELSE feeds' = Overtaken(feeds) /\ settled' = FALSE
  /\ UNCHANGED <<does, now, messages, lastReadAt, mute, invite, place, unread, mutes,
                 invites, loaded, answering>>

\* A feed fills the bell; the first one also has it wired, for the effect runs
\* again when loaded changes.
FeedArrives(k) ==
  LET f == feeds[k] IN
  /\ f.listed
  /\ feeds' = Overtaken(SubSeq(feeds, 1, k - 1)) \o SubSeq(feeds, k + 1, Len(feeds))
  /\ BellShows(f.invites)
  /\ loaded' = TRUE
  /\ settled' = f.fresh
  /\ wired' = IF ~loaded /\ me # NoAccount THEN transport ELSE wired
  /\ UNCHANGED <<does, server, me, transport, screen, active, split, viewing, subscribed, moves,
                 unread, mutes, answering>>

FeedFails(k) ==
  /\ "failure" \in does.ops
  /\ feeds' = Overtaken(RemoveAt(feeds, k))
  /\ settled' = FALSE
  /\ UNCHANGED <<does, server, place, unread, mutes, invites, loaded, queue, answering>>

OpenBell ==
  /\ "bell" \in does.ops /\ me # NoAccount /\ Move
  /\ wired' = transport
  /\ RefreshesBell
  /\ UNCHANGED <<does, server, me, transport, screen, active, split, viewing, subscribed,
                 unread, mutes, invites, loaded, queue, answering, settled>>

Asks(op, i, from) ==
  /\ me # NoAccount /\ \A r \in answering : r.invite # i \/ r.from # from
  /\ answering' = answering \cup {[op |-> op, invite |-> i, from |-> from, at |-> "sent"]}
  /\ feeds' = Overtaken(feeds)

\* In the bell, and when a card is dismissed, the row goes before the answer.
AnswerInBell(op, i) ==
  /\ i \in invites /\ Asks(op, i, "bell")
  /\ BellShows(invites \ {i})
  /\ UNCHANGED <<does, server, place, unread, mutes, loaded, settled>>

DismissCard(i) ==
  /\ i \in queue /\ Asks("declined", i, "card")
  /\ invites' = invites \ {i} /\ queue' = queue \ {i}
  /\ UNCHANGED <<does, server, place, unread, mutes, loaded, settled>>

\* "Join room" on a card waits for the answer.
JoinFromCard(i) ==
  /\ i \in queue /\ Asks("accepted", i, "card")
  /\ UNCHANGED <<does, server, place, unread, mutes, invites, loaded, queue, settled>>

CloseCard(i) ==
  /\ i \in queue /\ queue' = queue \ {i}
  /\ UNCHANGED <<does, server, place, unread, mutes, invites, loaded, feeds, answering, settled>>

AnswerLost(r) ==
  /\ "failure" \in does.ops /\ r \in answering /\ r.at = "sent"
  /\ answering' = (answering \ {r}) \cup {[r EXCEPT !.at = "failed"]}
  /\ UNCHANGED <<does, server, place, unread, mutes, invites, loaded, queue, feeds, settled>>

\* For BellSettles: what was removed too early stays removed.
AnswerArrivesUnchecked(r) ==
  /\ r \in answering /\ r.at # "sent"
  /\ answering' = answering \ {r}
  /\ IF r.from = "card" /\ r.op = "accepted" THEN BellShows(invites \ {r.invite})
                                             ELSE UNCHANGED <<invites, queue>>
  /\ UNCHANGED <<does, server, place, unread, mutes, loaded, feeds, settled>>

\* A failure in the bell has the feed read again; one on a card does not.
AnswerArrives(r) ==
  /\ r \in answering /\ r.at # "sent"
  /\ answering' = answering \ {r}
  /\ IF r.at = "failed"
     THEN IF r.from = "bell"
          THEN RefreshesBell /\ UNCHANGED <<invites, queue, settled>>
          ELSE queue' = queue \ {r.invite} /\ settled' = FALSE /\ UNCHANGED <<invites, feeds>>
     ELSE /\ IF r.from = "card" /\ r.op = "accepted" THEN BellShows(invites \ {r.invite})
                                                     ELSE UNCHANGED <<invites, queue>>
          /\ UNCHANGED <<feeds, settled>>
  /\ UNCHANGED <<does, server, place, unread, mutes, loaded>>

-----------------------------------------------------------------------------

NotificationsInit ==
  /\ does \in Profiles
  /\ now = 0 /\ messages = <<>> /\ lastReadAt = Zero /\ mute = Default
  /\ invite = [i \in Invite |-> "none"] /\ events = <<>>
  /\ me = NoAccount /\ transport = 0 /\ wired = 0
  /\ screen = "none" /\ active = NoThread /\ split = NoThread
  /\ viewing = NoThread /\ subscribed = {} /\ moves = 0
  /\ counts = Zero /\ totalUnread = 0 /\ reading = {} /\ refreshing = <<>>
  /\ muteCache = [t \in Direct |-> "unknown"] /\ muting = {} /\ lookups = {} /\ banner = NoBanner
  /\ invites = {} /\ loaded = FALSE /\ queue = {} /\ feeds = <<>> /\ answering = {}
  /\ owed = {} /\ promised = Default /\ settled = FALSE

OfServer ==
  \/ \E t \in Direct, mention \in BOOLEAN : PeerSends(t, mention)
  \/ \E r \in reading : ReadStamped(r) \/ ReadWritten(r)
  \/ \E k \in DOMAIN refreshing : CountUnread(k)
  \/ \E m \in muting : MuteWritten(m)
  \/ \E l \in lookups : MuteRead(l)
  \/ \E i \in Invite : InviteSent(i)
  \/ \E k \in DOMAIN feeds : FeedRead(k)
  \/ \E r \in answering : AnswerHandled(r)

OfScreens ==
  \/ \E u \in Account : SignIn(u)
  \/ SignOut \/ GoToDms \/ GoToLobby \/ Unsplit \/ CloseActive
  \/ \E t \in Direct : Select(t) \/ Split(t)
  \/ \E k \in DOMAIN refreshing : UnreadArrives(k) \/ UnreadFails(k)

OfMutes ==
  \/ DeliverMessage
  \/ \E l \in lookups : MuteArrives(l) \/ MuteLookupFails(l)
  \/ \E t \in Direct, level \in Level : SetMute(t, level)
  \/ \E m \in muting : MuteAnswered(m)

OfBell ==
  \/ DeliverInvite \/ OpenBell
  \/ \E k \in DOMAIN feeds : FeedArrives(k) \/ FeedFails(k)
  \/ \E i \in Invite : \/ \E op \in {"accepted", "declined"} : AnswerInBell(op, i)
                       \/ DismissCard(i) \/ JoinFromCard(i) \/ CloseCard(i)
  \/ \E r \in answering : AnswerLost(r) \/ AnswerArrives(r)

NotificationsNext == OfServer \/ OfScreens \/ OfMutes \/ OfBell

NotificationsSpec == NotificationsInit /\ [][NotificationsNext]_notificationsVars

-----------------------------------------------------------------------------
(* Properties.                                                             *)

\* A mention that came while its thread was not looked at has a badge until the
\* thread is opened, unless a count or a mark that did not know of it was under
\* way at the time, a mark had been made since it was sent, or the thread is muted
\* then or later.
MentionsAreBadged == \A t \in owed : counts[t] > 0

\* Once a mute is confirmed, no message it excludes is announced, unless a
\* lookup was under way across the change.
MutedIsSilent == banner # NoBanner => Allows(banner.due, banner.kind)

\* With no event, feed or answer under way, the bell shows the invites that are
\* pending: each event has the feed read again, and what was removed too early
\* comes back.  Excepted are feeds that fail or come in the other order, or that
\* were under way when an invite was answered, and cards whose answer failed.
BellSettles ==
  settled /\ feeds = <<>> /\ answering = {} /\ (\A k \in DOMAIN events : events[k].kind # "invite")
    => invites = Pending
=============================================================================
