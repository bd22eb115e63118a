# R3DVoice: a verification project

R3DVoice is a self-hosted voice and chat application: a Fastify server over
SQLite (through Prisma), a LiveKit server that carries the media, and an
Electron client written in React. These modules model the parts of it whose
correctness depends on the order in which things happen, check them with TLC
on small instances, and prove the most important properties with TLAPS for
every value of the constants.

Paths below are relative to the repository; `server` stands for
`apps/server/src` and `renderer` for `apps/client/src/renderer/src`.

## 1. Inventory

The server is one Node process. A request runs without interruption up to an
`await`, and anything else may run before it goes on. A single Prisma call is
atomic, and so is a `$transaction`; nothing else is. All the interleavings
below come from this, from the WebSocket callbacks, and from the clients, each
of which is a single-threaded program with timers, sockets and IPC.

| component | state | operations | what is hard, and what must hold |
|---|---|---|---|
| e-mail tokens (`server/email/tokens.ts`) | `EmailToken` rows | issue, look up, burn, expiry, cascade | two clicks on one link; a newer link overtaking; each token works once, only the last one works |
| accounts, sessions, second factor (`server/auth`) | `User`, `Session`, `TotpBackupCode` rows; intent tokens | register, login, login/totp, logout, reset, verify, enrol, disable, backup codes, escrow, delete | read-check-write with awaits; sessions created late; codes spent once |
| gateway (`server/chat/ws.ts`, `ws-state.ts`) | subscriptions and online sockets, in memory | connect, subscribe, unsubscribe, typing, close | awaited access checks, detached clean-up after a close, several devices |
| presence (`server/presence`) | `User.currentRoomId`, `lastSeenAt` | report a room; clean-up of a disconnect | events in another order than writes; ghosts in rooms |
| friends and blocks (`server/friends`) | `Friendship` rows | request, accept, reject, block, unblock | requests under way while a block lands; crossed requests |
| invites (`server/invites`) | `Invite`, `DirectInvite` rows | create, revoke, redeem, accept, decline | use counts, replacement of pending invites |
| rooms and LiveKit tokens (`server/rooms`, `livekit.ts`) | `Room`, `RoomMembership` rows | create, update, delete, transfer, add, remove, leave, mint a token | stale ownership checks; a member that is removed while joining |
| messages (`server/chat/routes.ts`, `renderer/components/RoomChatPanel.tsx`) | `Message`, `Reaction` rows; the panel's list, bubbles and drafts | send, edit, delete, pin, react, vote, history, older pages | a history that replaces what events brought; optimistic tallies and their echoes; lost votes; answers in another thread |
| read states and unread counts (`server/notifications`, `renderer/lib/unread-store.ts`, `notifications-store.ts`) | `ThreadReadState`, `ThreadMuteState`; counts, mute cache, bell in the client | mark read, mute, compute; bump, clear, refresh, announce, answer an invite | a refresh that overwrites newer bumps; a banner decided on a stale mute; a bell that keeps what is gone |
| chat transport (`renderer/lib/chat-transport.ts`) | socket, timers, remembered subscriptions | start, stop, retry, subscribe, the socket's events | late events of old sockets; "Retry now" against the timer; re-subscription |
| room keys (`renderer/lib/room-e2ee.ts`) | the key of the call, attempts, retry timer | start, stop, request, answer, offer | lost connections, returning owners, failing publishes |
| call media (`renderer/lib/livekit-room.ts`, `screens/InRoomScreen.tsx`) | LiveKit room, tracks, microphone pipeline, capture of a share | join, leave, retry, switch, mute, reopen the microphone, share a screen | leaving while joining; a microphone that goes out unmuted; steps of a share that fail |
| screen picker (`apps/client/src/main/screen-picker.ts`) | pending request, picker window | open, load, choose, close | requests that are never settled; windows that close late |
| desktop shell (`apps/client/src/main`, `preload`) | update outcome, splash, window, pending link, argv | launch, update, crash, hang, reload, relaunch, open a link | an updater that never answers; links told before anybody listens, or twice |
| sign-in state and keys (`renderer/lib/auth-store.ts`, `key-storage.ts`, `main/token-store.ts`) | token, user, key slots, token file | hydrate, sign in, second factor, register, refresh, sign out | crashes between steps; keys of another account; late answers |
| lobby (`renderer/screens/LobbyScreen.tsx`, `lib/rooms-store.ts`) | room list, active room, invite shown | create, join, redeem, leave, refresh | lists fetched in any order; joins answered after sign-out |
| dialogs of a room (`RoomSettingsModal.tsx`, `EditInviteModal.tsx`, `RoomInfoPanel.tsx`, ...) | what each fetched | rename, kick, add, transfer, leave, delete, invite links | half-failed reissues; owner's controls of a former owner |
| lists of friends (`FriendsScreen.tsx`, `FriendsPane.tsx`, pickers) | rows, open card, match of a handle | request, accept, reject, block, remove, find | acts that send no event; matches of what was typed before |
| settings (`SettingsModal.tsx`, `server/users/routes.ts`) | forms of the account tab, open devices | second factor, backup codes, profile, blocked users, sign out everywhere, delete; meters and preview | requests that overlap; codes that no longer count; devices opened for nobody |
| cryptography, native helper, shared types | – | – | not modelled: library calls and declarations |

How they interact. Routes call `sendToUser` and `broadcastToThread` of the
gateway's registry. Deleting an account cascades to tokens, sessions and codes.
The gateway reads room tables when it checks access, and is not told when they
change. The client's transport is one per signed-in user; panels borrow it.
The key protocol runs over LiveKit's data channel and learns from the server
only whether its user owns the room. The rooms store, one per session, says which
call one is in: the lobby writes it, the call screen leaves it. The auth store
is read by every screen, and written by the sign-in screens, the gates and the
settings. The main process talks to the renderer over IPC, one message at a time.

The hazards this code is exposed to, each at its line with the properties that
cover it, are listed in `PROJECT.json`.

## 2. Modules

| module | models | |
|---|---|---|
| `OneShotTokens` | the promise of e-mail links, without table, handler or clock | abstract |
| `EmailTokens` | `email/tokens.ts` | implements `OneShotTokens` |
| `EmailTokensProofs` | | proofs |
| `Auth` | `auth/routes.ts`, `middleware.ts`, `jwt.ts`, `totp.ts`, `DELETE /me` | composes `EmailTokens` by `INSTANCE` |
| `AuthProofs` | | proofs of `Auth` and `AccountSettings` |
| `ChatGateway`, `MCChatGateway` | `chat/ws.ts`, `chat/ws-state.ts`, `presence/routes.ts` | |
| `Friendships` | `friends/routes.ts`, friend invites of `invites/routes.ts` | |
| `RoomE2EE`, `MCRoomE2EE` | `lib/room-e2ee.ts`, join and leave of `InRoomScreen.tsx` | |
| `ChatTransport`, `MCChatTransport` | `lib/chat-transport.ts` with the effects of `App.tsx`, `RoomChatPanel.tsx`, `ConnectionBanner.tsx` | |
| `ChatTransportProofs` | | proofs of `ChatTransport` and `Messages` |
| `Rooms`, `MCRooms` | `rooms/routes.ts`, `livekit.ts`, room and direct invites of `invites/routes.ts`, `DELETE /me` | |
| `RoomsProofs` | | proofs |
| `Messages`, `MCMessages` | `chat/routes.ts` and the list of `RoomChatPanel.tsx` | |
| `Notifications`, `MCNotifications` | `notifications/routes.ts`, `unread.ts`, `invites/routes.ts` (direct invites), `unread-store.ts`, `notifications-store.ts`, `notification-router.ts`, `InviteQueue.tsx` | |
| `GatewayProofs` | | proofs of `ChatGateway` and `Notifications` |
| `ShareAudio` | the sound of a share in `livekit-room.ts`, `system-audio-stream.ts`, `main/system-audio-capture.ts`, `main/linux-audio-routing.ts` | extended by `Call` |
| `Call`, `MCCall` | `InRoomScreen.tsx` over `livekit-room.ts` | |
| `CallProofs` | | proofs of `RoomE2EE` and `Call` |
| `SignIn` | `auth-store.ts`, `key-storage.ts`, `main/token-store.ts`, sign-in screens and gates | |
| `SignInProofs` | | proofs |
| `Shell` | `main/index.ts`, `auto-update.ts`, `deep-links.ts`, `preload`, `App.tsx`, update gate and prompt | |
| `ScreenPicker` | `main/screen-picker.ts`, `ScreenPickerDialog.tsx` | |
| `Lobby` | `LobbyScreen.tsx`, `rooms-store.ts`, `rooms-singleton.ts`, create, public rooms, invite preview | |
| `RoomSettings` | `RoomSettingsModal.tsx`, `EditInviteModal.tsx`, `TransferOwnershipModal.tsx`, `InviteCreateModal.tsx`, `RoomInfoPanel.tsx` | |
| `FriendsPage`, `MCFriendsPage` | `FriendsScreen.tsx`, `FriendsPane.tsx`, `UserContextMenu.tsx`, `PeerProfilePopover.tsx`, `NewDmPicker.tsx`, `HandleMatchCard.tsx` | |
| `AccountSettings` | `SettingsModal.tsx` (account and devices), `users/routes.ts` | |
| `MCAuth` | `Auth` and `AccountSettings`, one per behaviour | |
| `PagesProofs` | | proofs about `Friendships`, `ScreenPicker`, `Shell`, `Lobby`, `RoomSettings`, `FriendsPage` |
| `MCStart` | `SignIn` and `Shell`, one per behaviour | |
| `MCPages` | `Friendships`, `ScreenPicker`, `Lobby`, `RoomSettings`, `FriendsPage`, one per behaviour | |

In every module an action is the code between two suspensions, named after the
handler or method it belongs to. What a handler read before an `await` and uses
after it is kept in its frame (`req[r]`, `call[c]`, `post[p]`, `cleanup[c]`,
`commands`), so that it can be stale when used. Definitions whose comment calls
them a variant are plausible faults; no specification uses them, they exist for
mutation runs, which replace the correct definition by the variant and expect
the property to fail. Variables commented as history record what happened for
the sake of a property and influence no other variable.

**EmailTokens.** `row` is the table by token, `call[c]` the row that caller `c`
of `consumeEmailToken` found and has not burned yet. `Issue` is the transaction
that deletes prior unused tokens of the same kind and creates one; `Lookup` and
`Burn`/`BurnMisses` are the two awaits of `consumeEmailToken`. `UsableToken` is
the refinement mapping: the abstract usable token is the last one issued,
while it is unused.

**Auth.** A request goes from `"idle"` through the places at which it is
suspended: `"mail"`, `"session"`, `"stamp"`, `"backup"`, `"spend"` for the
logins, `"authed"` once `requireAuth` has read the session, and the place before
the write of each handler that reads the user first (`ReadUser`, `Admits`).
Passwords, secrets and batches of codes are numbered as they are drawn. The
columns of a deleted account keep their last values; `users` says who exists.

**ChatGateway.** `conn`, `onlineSockets` and `subscriptions` are the sockets and
the two maps of `ws-state.ts`. A command on a DM thread is checked without I/O
and takes effect at once; one on a room is received, checked and finished in
three steps. `Close` is the synchronous part of the close callback, followed by
the detached steps `CleanupStamp`, `CleanupRead`, `CleanupClear`,
`CleanupNotify`. `told` is what each client last heard of each friend's room.

**Friendships.** `rows` is the table. Requests, acceptances and deletions read
in one step and write in another, by row id; block and redeem are transactions.

**RoomE2EE.** A session is one call of one client. `Start` is the answer of
`api.getRoom` with the part of `start()` after `setMetadata`; `SendKeyRequest`
is the timer's callback up to the broadcast, `RequestSent` the rest. The data
channel (`net`) delivers in any order, to whoever is in the call. `Cut` is a
connection lost for good: nothing is stopped, as in the code. `faults` is what
does not work in a call from the start: publishing, which may then fail at any
time, or setting metadata.

**ChatTransport.** One transport per sign-in, with the fields of the class as
functions of the login. A socket that is closing belongs to the transport that
made it until its close event, which is how late events reach a stopped
transport. `up`, `checking` and `serving` are the gateway's side: commands on
their way, room commands awaiting their access check, and subscriptions.

**Rooms.** `room`, `members`, `codes` and `directs` are the tables, `req[r]` is
what a request has read and where it is suspended: `OwnerReads` is
`loadRoomOr404` and `requireOwner` of every owner's request, `LeaveReads`,
`TokenReads`, `CodeReads`, `RevokeReads`, `DirectReads` and `AnswerReads` those
of the others; the actions named after what is written follow. A write whose
row or parent is gone by then fails and ends the request (`MayJoin`, `Exists`),
and deletions take along what `Cascade` lists. LiveKit is external: `tokens`
are those minted and not expired, `inCall` the participants, `kicks` and
`closing` the calls to it that were not awaited, each of which may fail. A
room's call and its tokens outlive the room. `strays` records who entered
without being a member or could not be kicked, the two exceptions of
`LeaversAreKicked`.

**Messages.** `rows` is the table with reactions and votes; `req[r]` is a
request of the panel (`PanelReq`) or of anybody else (`OtherReq`), which reads
the row in one step, writes it and broadcasts in another, and is answered in a
third. The panel is `list`, `bubbles`, `editing`, `peerKey` and the requests of
its effect: `fetches[n]` and `keys` by the run that made them, `older` for the
page above. `ToDTO` is what an event or an answer says of a row; what the panel
changes before an answer is in the action of the press. `clean` and `exact`
record that an event was lost, or a reaction counted twice: what the panel
cannot know of. A history counts as clean when the server served the thread as it
read the rows, and what was then on its way fits what it read (`Timely`): no
message older than a page, which would be added a second time by the page above,
and nothing pushed before the panel left the thread and came back which has
changed since, untold.

**Notifications.** The server's clock moves with each step that reads it. The
client's stores hold copies that are changed ahead of the server (marking
a thread read, muting, answering an invite), by events and by answers; `reading`, `refreshing`, `feeds`,
`lookups` and `answering` are what is under way. `owed` and `promised` record what
the user was told: a mention that came while nobody looked, a mute confirmed.

**Call** and **ShareAudio.** `screen` are the mounts of `InRoomScreen`, `join`
the runs of its effect, each at the await where it stands, `reopen` the
reopenings of the microphone. `lk`, `mics` and `live` are LiveKit's side:
connection and microphone tracks by the run that published them. In
`ShareAudio`, `cap[s]` and `dis[s]` say where an enable and a disable of a
wrapper stand; the capture behind them is one for the client.

**SignIn.** A call of the store is a frame: the request it awaits and what it
has in hand. `Goto` and `Return` move a frame along its method; each action is
one answer, or one press. A device may crash at any point, which empties the
memory and keeps `slot`, `staged` and `file`.

**Shell.** `life` is how far `whenReady` got; `wire` are messages from main to
renderer, `claims` requests for the link kept; `app` says which components are
mounted and listen. A launch is a new process with its `argv`; `Relaunch` keeps it.

**ScreenPicker.** `request[r]` is a call of the display-media handler; `window`
are windows as Electron has them, against the module's own `pendingPick` and
`pickerWindow`, which is where they differ.

**Lobby, RoomSettings, FriendsPage, AccountSettings.** One pattern: requests
under way are a bag of records that name the mount, pane, card or session
that sent them; the server carries one out in one step (the modules of the
server have more), and its answer, or failure, arrives in another, in any
order. What the code checks when an answer arrives is the guard there, such as
`Alive`, `PaneSet`, `StillCard`, `Same`: where the code does not check, the
answer changes what is on the screen by then. In `AccountSettings` the devices
are the streams of three effects, each of which may be rerun or cleaned up
before its stream is granted.

**MCAuth**, **MCStart** and **MCPages.** `stage` picks the part that a behaviour is about.
The parts share no variable: what joins them in the code (the token, the active
room, the window) is a profile or an action of each. They run together since each
is small; `MCStart` conjoins the fairness of its parts.

## 3. Runs

Every run takes less than three minutes with two workers.

| run | module, bounds | what it shows |
|---|---|---|
| `auth` | `MCAuth`, see below for the settings; 1 account, 2 requests, 2 tokens, 2 secrets, 2 batches of 1 code, 3 sessions, clock up to 3; a behaviour is about mails, links and escrow or about the second factor (`OneStory`) | resets spend tokens (`PasswordChangesSpendTokens`), a backup code's session leaves the code spent, only the last batch can be spent, tokens refine their promise under the real handlers (`TokensAreOneShot`); devices are released, the account tab settles |
| `chat_gateway` | 2 friends, 3 devices, 1 room, 1 DM, 1 command and 1 presence request under way | the registry is exact, nobody offline is left in a room, nobody is subscribed without ever having had access |
| `room_e2ee` | owner and 2 members, one session each, one heir, lost connections, 2 attempts; either all goes well or publishing fails and metadata is locked | no member draws a key; where publishing works, a member gets it while it and a holder stay |
| `chat_transport` | 2 sign-ins (one with a refused token), 3 sockets, 3 panels on 2 DMs and a room, 2 lost connections, 2 commands under way | one way to the server at any time, panels served, the connection returns |
| `rooms` | 2 users, 1 room, 1 code of at most 2 uses, 1 direct invite, 2 requests at once, 4 requests of more than one step in all | inviters have been in the room, whoever is removed is kicked |
| `messages` | 1 room or 2 DMs, 2 requests of the panel and 1 other, 3 messages, pages of 2, 2 runs of the effect; 7 scenarios | the list is complete, tallies agree with the server, no text changes conversation |
| `notifications` | 3 threads, 2 accounts, 1 invite; 9 profiles of at most 2 messages and 5 moves | a mention keeps its badge, a confirmed mute silences, the bell ends with the pending invites |
| `call` | 2 rooms, 2 screens, 2 runs of the join effect, 2 reopenings; profiles for joining, kicks, microphone and shares | an undisturbed join is muted until the user opts in, live microphones have a pipeline, joins and kicks settle, a failed share leaves nothing running |
| `call_muted` | as `call`, one profile | **violated**: "every join starts muted" |
| `start` | `MCStart`, see below | keys stay their account's, the session is whole, no link acts twice; the window and the screens behind the loader appear |
| `pages` | `MCPages`, see below | a block holds until taken back; shares, calls, links and lists are as they should be once all is answered |
| `handle_match` | `MCFriendsPage`: the picker alone, 2 handles | **violated**: Enter opens what was typed |

The parts of `auth`: the server's handlers, as in the table, and the *settings*,
2 mounts, 2 requests under way, up to 5 presses, 3 runs of the effects, 6 profiles
(`DevicesAreReleased`, `AccountSettles`).

The parts of `start`: *sign-in*, 2 accounts, 1 or 2 devices, 6 profiles with
5 or 6 acts and at most 1 failure (`OwnKeyOnly`, `SignInIsWhole`, `KeysAreKept`,
`ScreensMoveOn`); *shell*, 2 launches, 1 fault, 2 links, 8 profiles
(`LinksActOnce`, `StartsUp`).

The parts of `pages`: *friendships*, 2 users, 3 requests, 5 rows
(`LastBlockHolds`); *picker*, 3 requests, 3 windows
(`WaitingIsAnswerable`); *lobby*, 2 rooms, 2 sessions, 2 mounts, 2 calls under way,
3 moves, 7 profiles (`SidebarSettles`, `InCallsAskedFor`); *room dialogs*, 2
others, 3 links, 3 panes, 2 dialogs, 2 requests under way, 5 presses, 7 profiles
(`NeverLinkless`, `PanesSettle`); *friends*, 2 others, 2 shows, 2 requests, 2
events, 3 acts, 4 profiles (`FriendsSettle`).

Why the bounds are enough. Every property is about one account, one pair of
users, one socket or one pair of sessions, and every race in the code is
between two suspended handlers, so two requests (three for friendships: two
writers and a block) reach each order of their steps. Three tokens give a
token, its successor and one of the other kind. Two devices for one user are
the smallest case in which a close is not the last. Three sockets are the
current one, a lost one and one of the former sign-in that is still closing.
`MaxAttempts` is 2 instead of 5: first, last and "no more" all occur.
In `rooms`, four requests (two at once) are a transfer or an invite, a removal or
a departure, and a token for either user: enough for a request to act on what
two others have changed since it read; creating a room, redeeming, deleting an
account and what LiveKit does are not counted.
In `messages`, two requests of the panel and one of another client are an
optimistic change, its echo and somebody else's; three messages over pages of two make a
second page. In `notifications` one message, one count and one mark overlap in
every order, and five moves reach a mark that is written while the mention it
covers is on its way. In `call`, the second screen is the one that a switch or a retry
mounts while the first still joins. In the parts of `pages` two requests under
way are one and the one that overtakes it, two mounts the tab that asked and the
next one; profiles keep apart what does not interact, so that each can
have enough steps. Where a property excuses a case (`late`, `excused`, `behind`,
`rushed`, `clean`, `exact`), the excuse is a history variable whose comment and
hazard say what the code does then; runs reach both sides of it, since the
mutants fail where there is no excuse.
`SYMMETRY` is used in runs that check no liveness, for users, requests or devices
that the specification does not tell apart. `CHECK_DEADLOCK FALSE` is set in
every run, because the bounded systems may stop: users need not do anything,
and the bounds run out.

**Fairness.** `RoomE2EE!Fairness`: timers fire, an awaited publish is answered,
and messages on the reliable channel arrive. Nobody has to join, leave or hand
the room over, and `start()` need not be reached. `KeyArrives` is stated for a
member with an attempt left and for a holder that both stay, as attempts are
bounded and the code gives up after them. `ChatTransport!Fairness`: the
reconnect timer fires, and a socket that connects or closes gets its event. Nobody
has to sign in, stay signed in or press "Retry now"; the number of failing
connections is bounded by `MaxDrops`, without which nothing could come back.
The close event is weakly fair since the browser always delivers it.

`Call`: every answer LiveKit, the browser or the server owes arrives or
fails (`WF_vars(Answers)`), timers fire; presses are free. `SignIn`: requests are
answered or fail and the gate's timer runs, so `ScreensMoveOn` says that the
loader and the gates are left. `Shell`: the thirty-second timeout of the updater
fires, and a window whose renderer lives is painted and shown; neither the
update server nor the user need do anything.

**Findings.** Two runs are kept for disagreements between a comment and the
code. `call_muted`: a join that is cancelled while the microphone opens goes on,
publishes it, and skips the mute that follows. `handle_match`: the match of a
handle outlives the handle, and Enter takes it. Met on the way, each with a note
in the list of hazards, and no run of its own:

- a backup code can be used by two logins at once; two friendship rows for one
  pair can exist; an owner that returns to a call draws a second key; an
  enrolment restarted while it is verified enables an unconfirmed secret;
- friends are shown a disconnected user in a room when the events overtake each
  other; two votes at once lose one; two senders leave two pending invites;
- an update that arrives after the timeout quits a running client, and links of
  a cold start are sent before anybody is signed in to take them;
- the lobby is not refetched after a room was left or deleted from within its
  call, nor a list of friends after declining, withdrawing or unfriending;
- two panels of one conversation (direct messages under the overlay of a call,
  and "Open DM" in the call) share one remembered subscription: the first to
  close stops the events of the other. `chat_transport` and `ServedCorrect` are
  about panels of different threads, `MemoryCorrect` about any;
- a sign-in that is sent while the start still reads the token file can be
  overwritten by what the file says, and then keys are stored under the wrong
  account; a device that adopted the keys another had not saved yet can leave the
  escrow with a pair its user no longer has (both need several clicks within the
  time of one read or request);
- with two mounts of the call screen (signed out during an enable of a share's
  sound, and in again) `FailedShareHoldsNothing` says too much: the capture is one
  for the client, and taking a share's track back leaves its link up, so the first
  enable can end while something of the second mount still runs. The profile of
  `call` that shares mounts one screen, and so does `ShareFailsClean`;
- a thread that is opened while a mention in it is on its way is marked read up to
  a time after that mention; when the thread is left before the mention comes, its
  badge appears, and goes with the next count. The first statement of
  `MentionsAreBadged` did not except this; the bounds of the run were one move
  short of it, and its proof did not go through;
- a reissued link whose revoke fails leaves two; codes drawn twice may show the
  batch that no longer counts; a late "sign out everywhere" signs out whoever is
  signed in by then.

## 4. Proofs

TLAPS checks the following, for all values of the constants. Where a theorem
states a property of a run, the run shows it on a small instance; the others
(`RowsHaveParents`, `UsesWithinLimit`, `OwnersAreNoStrangers`, `OfflineIsStamped`,
`KeepsAsking`, `RowsOnlyAdvance`, `StatusIsHonest`, the two halves of
`OneWayToServer`, `MemoryIsServed`, type correctness and those of `EmailTokens`)
were model-checked before they were proved and have no run any more. So was every
inductive invariant named below, on the bounds of the run.

*EmailTokensProofs.* `IInv` adds to the type invariant that a value never drawn
has no row and was never accepted (`FreshTokens`), that an unused token was
never accepted (`UnusedNotGranted`), and that the newest token of an account
and purpose was drawn and its row carries that account and purpose
(`LatestBelongs`). `OneGrantPerToken` alone is not inductive: a burn has to know
that the row it finds unused was never accepted before. The same invariant shows
that every step maps to a step of `OneShotTokens` or leaves the mapping
unchanged, so `Spec => OneShotSpec`.

*AuthProofs.* A request is at one place with one frame, and a step moves one
request, so each invariant says what a frame at a place may rely on. `IInv` adds
to the type invariant that the user of a frame was registered, that a burn is of
a token of the kind the handler asked for (`BurnsMatch`), and that there is room
for the sessions of all requests that will create one (`RoomIsKept`): without it
the number of a session leaves its range. `TokensAreOneShot` follows: each
step of the real handlers that touches a token is one of `EmailTokens`, which
implements the promise. For the codes, `CodesInv` adds that no code of an earlier
batch is left (`OnlyLastBatchSpendable`, `CodesWithdrawn`) and that the factor of
a session, or of a frame about to create one, is a spent code or of a batch since
withdrawn (`SessionsHold`, `FramesHold`): `consumeBackupCode` and `session.create`
are two awaits. `PasswordChangesSpendTokens` counts: a reset spends its token in
one step and stores the password in another, and the frame between them is counted
on the other side. Requests and tokens may be infinitely many there; only
what is counted has to be finite, and each step adds one. The theorems have none
of `MCAuth`'s `OneStory`, which keeps the run small.

For the settings, `DevicesInv` says that each run of an effect asked for one stream,
that a component has a run only on the tab of the devices, and that an open stream
is of the component's current run; `RerunKeeps` is the step that most actions
take. Hence `DevicesAreReleased`. `SettingsInv` says of each section in which
nothing overlapped or failed in part that one request at most is about it (`Only`),
that the section is true when none is, and otherwise what the request, as far as it
has got, makes up for (`UserFollows`, `FactorFollows`, `ListFollows`). A press
asks one thing (`PressKinds`), the server moves one request on (`HandleKinds`), an
answer ends one or turns it into another about the same sections (`HearKinds`).
Hence `AccountSettles`, for profiles with any operations.

*SignInProofs.* `Sound(d)` says, device by device, what each call of the store has
at hand at each of its places, and that a call that signs in is alone on its device
(`CallsHold`); what the loader, the sign-in form, the second factor and the
signed-in application may count on is `LoaderHolds`, `LoginHolds`, `TotpHolds`
and `AppHolds`. With that, the keys that a frame carries are of the account that
its token is of, wherever a crash or a failure cuts it: `OwnKeyOnly` and
`SignInIsWhole`. Both are proved for every profile without `"cross"`, which lets the form be sent
while the start still reads the token file. With it they are false, in the
model and in the code: TLC finds the sign-in, the answer of the start that
overwrites it, and a second sign-in that saves its keys under the first. The form
is hidden behind the loader in all but one frame of the screen, so the theorem
says where the danger is. `KeysAreKept` has no theorem: for arbitrary profiles it
is false (two devices, one of which adopts a pair that is staged for an account
by the other before it is saved), and it stays with TLC on the profiles of `start`.

*GatewayProofs.* Gateway: `OnlineIffOpen`, `OfflineIsStamped` and `NoGhostInRoom` are
each inductive together with the type invariant; the clean-up's place is what
carries the promise between the awaits. For `SubscribersWereAllowed` the
invariant adds that whatever a user may use now is in `held` of their open
sockets (`HeldKeepsUp`), that `held` is empty before a socket opens
(`HeldSinceOpened`), and that a granted command names a thread in `held`
(`GrantsWereAllowed`): access is checked at one moment and used at a later one.

Notifications: what is on the screen was under way before, so the invariants speak
of what is. `MuteInv`: what a user was promised is what the server has and what
the cache has, if anything; what a lookup brings is what was promised when it was
asked; while the pop-over's request is under way nothing is promised of its
thread. Hence `MutedIsSilent`. `BadgeInv`: for each badge owed there is one
mention (`Known`) that is later than the last mark and that every count under way
has seen, or will see, as far as it has got; `CountsKnown` then says that the
count is not zero. Hence `MentionsAreBadged`. `BellInv`: a feed that nothing
overtook has what is pending, or another event or feed is to come; and a bell
filled by such a feed shows an invite that is pending unless the row went ahead of
its answer, and none that is not, unless a card has yet to hear of its own
(`Matches`). Hence `BellSettles`. Types are proved but for `totalUnread`, which is
a number only if the sum over the threads is what it should be: a sum is a fold,
and an induction over data.

*CallProofs.* Keys: `KeyInv` adds to the type invariant that whoever is to be
offered a key is so by a holder (`WelcomersHold`), that a session is an owner's
only once it has started (`OwnersStarted`), and that the key of every offer under
way names such a session (`OffersComeFromOwners`); without the last,
`KeysComeFromOwners` is not inductive. `KeepsAsking` speaks of calls in which
publishing works (`~Unreliable`), which does not change during a call
(`FaultsStay`).

Media: `CallShape` adds to the type invariant whose the runs, reopenings and
connections are. `RollInv` says which runs a screen has: one at least, at most
one that was not cleaned up, none once it is gone. So a screen that is
`Undisturbed` has one run, and `Alone` says what that run may rely on at each
await: it published nothing before its connection stood, the connection is where
the run waits for it, a reopening comes after the run, and the pipeline that the
screen holds is open and the one behind the track until the user leaves. It needs
that tracks and pipelines keep to the screen of their run (`MicsAreOwn`,
`PipesAreOwn`): one screen's clean-up or reopening closes nothing of another's.
`MutedUntilOptIn` and `LiveIsHeard` follow. Both speak of undisturbed screens only;
that the others may send unmuted is the finding of `call_muted`.

Share: `Orderly` says for each stage of an enable what runs of the capture and
what of it ran before; an enable that ends without a track then leaves nothing of
its own (`FailedShareHoldsNothing`). The capture is one for all wrappers, so this
holds while one screen was mounted, whatever it does (`[]OneScreen`). With two it
is false, see "Met on the way".

*PagesProofs.* The theorems about pages speak of `XInit /\ [][XNext]_xVars`, without
the profiles and bounds of `MCPages` and `MCStart`.

Friendships: `RowInv` adds that ids are unique, not above the number of
rows created, and rows join two users (`IdsDiffer`), that a row about to be
created joins two users (`CreatesJoinTwo`), and that the row an acceptance has
read is not a block (`AcceptsNoBlock`). A block gets a fresh id, which no request
under way can name; hence `RowsOnlyAdvance`. `BlockInv` adds `BlocksAreLast`,
which says row by row that a block is the last one of its pair; `LastBlockHolds`
follows.

Picker: a request that waits is the pending one, and the window it was opened for
is known, or is closing and knows for whom (`WindowIsThere`): hence
`WaitingIsAnswerable`, although windows close late.

Links: a link is with the operating system, kept by main (`PendingIsAhead`), on
the wire (`WireIsAhead`), kept by the preload, or with the renderer, in one place at
a time; and it was not acted on before it left the wire. Hence `LinksActOnce`: what a reload
repeats is the request for the link, not the link.

Lobby: the room that an answer under way will enter is one that was asked for in
the session of that request (`OutIsOut` for who is signed out), so an answer
that comes late enters nothing: `InCallsAskedFor`. What the lobby lists: unless the
history excuses it, a list is on its way or follows the answer to a leave
(`Fetching`), or else every room is as the server has it, or has just been created
by a request whose answer will add it (`Adding`). For that to add it once, one
request creates a room, once, and until it is handled the room is nobody's
(`CreatesOnce`). Hence `SidebarSettles`.

Dialogs of a room: a request takes a link away only once its new link exists, a new
link is one that no request under way takes, and one live link that no
request takes always stays (`LinkStays`): `NeverLinkless`, though any number of
reissues overlap and fail at any step. What is open: if it shows what the room no
longer is, an answer under way makes that good or closes it. For a tab of the
modal that is a list, or an answer after which one is fetched (`MembersInv`, `LinksInv`,
`OwnerInv`). The panel of a call fetches nothing; it asks one thing at a time
(`OneInPanel`), and what was done at the server is exactly what its answer changes
here (`PanelInv`). Hence `PanesSettle`.

Friends: a list that is not as the server has it will be fetched again, because an
event that says so is to come, or a list is asked for, or an answer is
under way after which one is (`FollowedUp`): `FriendsSettle`.

*ChatTransportProofs.* `LinkInv` says how transports, sockets and timers belong
together: a login not used yet has nothing (`FreshIsUntouched`); only the
current transport has a socket, while it is not closed (`SocketOfInstance`); a
socket in use is its transport's, or was given up by a closed transport and
awaits its close event (`SocketsAreOwned`); only the current transport waits to
reconnect (`TimerOfInstance`). With `SocketsAreOwned` a late close event of a
former sign-in cannot touch the current transport: hence `OneLiveSocket`,
`NeverStranded`, together `OneWayToServer`, and `StatusIsHonest`. `ServeInv` adds the
commands: for each thread of an open socket the last word under way (the last
command sent, or the one that awaits its access check, or else what the gateway
did) says what the transport remembers (`Settled`), but for rooms whose commands
overlapped or were refused; what is said on a socket is forgotten when
it closes (`QuietUnlessOpen`). Sending adds a last word, receiving keeps it, and
opening lists what is remembered, each thread once. Hence `MemoryIsServed`, and
`PanelsAreServed` where no two panels show one thread (`OnePanelEach`). Without
this hypothesis it is false, see "Met on the way". `ConnectionReturns` stays
with TLC.

Messages: `BubblesInv` says that the request of a bubble is one that sends a text, in
the thread that is open, and that a key is at hand whenever text can be sent; a
request that moves on stays what it is. Hence `BubblesBelong`.
`ListComplete`: what the events say is true, and the last of them about a deleted
message says that it is deleted. The list together with the events on their way
has every message of the thread from its first one up, at least a page of them,
each once, and shows deleted what is or awaits the word of it; so has a page on its
way to the panel, and an older page goes right before the first one shown. When
nothing is on its way, that is `ListIsComplete`.
`TallyInv` counts over all events under way. Every event tells the truth of the moment it
is pushed, so the last edit of a message shows the votes there are, and the last of
one's own reactions is the one that counts. For the peer's that is not enough, since each
adds or subtracts one: there is a sequence of states from the one counted to the one the
server has, and each event on the way either changes it or is in vain (the server
had it already, and broadcasts nevertheless). A tally shown early is excused by a
request of one's own that the server has not carried out, and from then on by its
event. A message told of, but not in the list yet, is told of without votes or reactions
before anything becomes of it. Hence `TalliesCorrect`. It speaks, as the property
does, of lists that are `exact`: since the history was read no event of the peer's was in
vain (the panel counts such a one twice), and no toggle or vote of one's own failed.

*RoomsProofs.* `RoomInv` adds that ids of direct invites tell them apart
(`IdsMatch`) and that an answer under way names an invite made to whoever
answers (`AnswersMatch`): an acceptance checks nothing again, so
`RowsHaveParents` rests on what its id refers to. The rest says that what a
request has checked stays true of the past, though no longer of the present:
members and owners have been in the room (`MembersStood`, `OwnersStood`), public
rooms are recorded (`PublicsRecorded`), and a request past its check speaks for
somebody of whom that was so (`FramesStood`); nothing is known of a room not made
yet (`SpareIsFresh`). Hence `InvitersHadStanding` and `OwnersAreNoStrangers`.

Assumptions: the named `ASSUME`s of the modules (sentinels differ from values and
rows, functions have their types, places of frames are no rows), which TLC
evaluates in the runs. The theorems of `EmailTokens` carry theirs as a hypothesis
(`ASSUME SentinelAssumption`), since `Auth` instantiates the module and makes that
assumption of its own.

Where a definition could not be reasoned about, it was the definition that was
loose: two `CASE`s had overlapping guards, which TLC resolves by taking the first
and TLA+ leaves open (`RoomSettings!Made`, `AccountSettings!Made`). And where an
invariant could not be made inductive, a property held in the runs for want of
room: with six presses a list fetched after a lost answer to a transfer ended what
excuses the modal, although the list does not say who owns the room
(`RoomSettings!Fetched`, history `behind`); others could open a room under the id of one about to be created
(`Lobby!Unclaimed`: ids are drawn at random, nobody has them before); and with a third
mount an edit told before the panel left a thread and came back brings back a message
deleted in between, or a vote taken back: the panel does not fetch again, and the socket
is the same (`Messages!Timely`; the run has that panel now, and without either of the
two clauses about edits it fails).

Only model-checked: `KeysAreKept` and the liveness properties: TLAPS does not handle
fairness and `ENABLED`.

## 5. Not modelled

Rendering and layout, hashing, encryption and encodings (keys, passwords and
codes are identities), wording of errors, rate limits, timing (delays,
backoff), and the SQL underneath Prisma. Refused requests that the client does
not wait for change nothing and are no actions. LiveKit is modelled by what the
client relies on: a reliable data channel, and one connection per identity. A
crash of the server loses the gateway's memory and every connection with it, and
starts again from `Init` with the tables kept: the token and friendship tables
are written in single transactions, so a crash shows nothing that a request that
stops does not.

Left out of the modules that exist:

- `Messages`: unpinning and the list of pins, typing, the access check (in
  `ChatGateway` and `Friendships`), attachments, encryption, a panel that is
  closed and opened again;
- `Notifications`: the seen mark of mentions, friend requests in the bell, quiet
  hours, threads of rooms; "dismiss all" is its single steps;
- `Call`: ghost mode, camera, volumes and deafening, the pointer, statistics,
  remote tracks; `ShareAudio`: the helper's capture session in steps;
- `Shell`: installing through pacman, window bounds, phases of the splash, key
  bindings, crash reporting;
- `Lobby`, `RoomSettings`, `FriendsPage`: texts and counts, direct invites of
  `InviteCreateModal`, the list of one's friend codes, details of presence;
- `AccountSettings`: the list of sessions, the speaker test, and the tabs for
  preferences, key bindings, themes and updates, which set local values.

Components without a module are listed with the reason in `PROJECT.json`.

## 6. Plan

Done: tokens, accounts, gateway, keys, friendships, transport, rooms, sign-in,
picker, links, calls, notifications, pages, devices, bubbles, the list of messages and
its tallies, each with its proofs. Next: `Rooms` composed with the gateway's access, in
place of its `mayUse`.
