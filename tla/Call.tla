--------------------------------- MODULE Call ---------------------------------
(***************************************************************************)
(* A call, as App.tsx and screens/InRoomScreen.tsx run it over the         *)
(* LiveKitRoom of lib/livekit-room.ts: joining, with the microphone opened *)
(* on the way, muted from the start; leaving, cancelling, trying again,    *)
(* going over to another room and being put out by the server, with each   *)
(* of the steps still under way; and the sound of a screen share           *)
(* (ShareAudio), which leaving turns off.                                  *)
(*                                                                         *)
(* Each mount of the screen has a wrapper of its own, which it keeps when  *)
(* another room is chosen.  Of LiveKit (external) the model has: connect   *)
(* returns at once when connected and joins a connect under way;           *)
(* disconnect ends both and takes all tracks back; a publish waits for the *)
(* connection and fails after a while without.                             *)
(***************************************************************************)
EXTENDS Naturals, Sequences, FiniteSetsExt, ShareAudio

CONSTANTS
  Room, NoRoom,
  Profiles,    \* what goes on; see Profile
  MaxScreen,   \* bound: mounts of the screen
  MaxJoin,     \* bound: runs of the join effect
  MaxReopen    \* bound: changes of the microphone's processing

Screen == 1 .. MaxScreen
\* A pipeline goes by the number of the run or the reopening that opened it.
Pipe == 1 .. MaxJoin + MaxReopen
Operation == {"switch", "retry", "kick", "signout", "reopen", "talk", "share"}
\* device: a microphone is chosen in the settings, so that the client opens it
\* itself; without one LiveKit opens its own.
Profile == [ops : SUBSET Operation, device : BOOLEAN, rooms : SUBSET Room, joins : 1 .. MaxJoin]

ASSUME CallAssumption ==
  /\ MaxScreen \in Nat \ {0} /\ MaxJoin \in Nat \ {0} /\ MaxReopen \in Nat
  /\ NoRoom \notin Room /\ Profiles \subseteq Profile /\ Wrapper = Screen

VARIABLES
  does,      \* the profile; never changes
  active,    \* activeRoomId of the rooms store
  screen,    \* the screens, in the order they were mounted: see ScreenState
  join,      \* the runs of the join effect: see JoinState
  reopen,    \* the reopenings of the microphone: see ReopenState
  open,      \* the pipelines that hold the microphone
  lk,        \* lk[s]: the connection of the wrapper of s
  mics,      \* mics[s]: the microphone tracks published, by the run; 0: by a toggle
  live,      \* live[s]: those that are not muted
  feed,      \* feed[j]: the pipeline behind the track of j; 0: one of LiveKit's own
  video      \* video[s]: the picture of a share is published

wire == <<lk, mics, live, feed, video>>
callVars == <<does, active, screen, join, reopen, open, wire, share>>

\* shown: the room prop of a mounted screen; phase: conn; cancelled:
\* cancelRequestedRef; quit: how far handleLeave is; kind: disconnectKind, with
\* the timer of the effect on it; ref: micPipelineRef; opted: the user unmuted.
ScreenState == [shown : Room \cup {NoRoom}, phase : {"connecting", "connected", "error"},
                cancelled : BOOLEAN, quit : {"no", "audio", "disconnect"},
                kind : BOOLEAN, timer : BOOLEAN, ref : Nat, opted : BOOLEAN]
\* cancelled: the effect was cleaned up; leave: how far its leave is.
JoinState == [screen : Screen, room : Room,
              at : {"mint", "mic", "connect", "publish", "mute", "keys", "end"},
              cancelled : BOOLEAN, leave : {"no", "audio", "disconnect", "done"}]
ReopenState == [screen : Screen, at : {"mic", "replace", "end"}, cancelled : BOOLEAN]
Connection == [at : {"off", "connecting", "on"}, room : Room \cup {NoRoom}]

CallTypeOK ==
  /\ does \in Profiles /\ active \in Room \cup {NoRoom}
  /\ screen \in Seq(ScreenState) /\ Len(screen) <= MaxScreen
  /\ join \in Seq(JoinState) /\ Len(join) <= does.joins
  /\ reopen \in Seq(ReopenState) /\ Len(reopen) <= MaxReopen
  /\ open \subseteq Pipe /\ feed \in [0 .. MaxJoin -> Pipe \cup {0}]
  /\ lk \in [Screen -> Connection] /\ video \in [Screen -> BOOLEAN]
  /\ mics \in [Screen -> SUBSET (0 .. MaxJoin)] /\ live \in [Screen -> SUBSET (0 .. MaxJoin)]
  /\ ShareTypeOK
  /\ \A s \in Screen : lk[s].at # "on" => mics[s] = {} /\ ~shared[s] /\ ~video[s]

Does(op) == op \in does.ops

CallInit ==
  /\ does \in Profiles /\ active = NoRoom
  /\ screen = <<>> /\ join = <<>> /\ reopen = <<>> /\ open = {}
  /\ feed = [j \in 0 .. MaxJoin |-> 0]
  /\ lk = [s \in Screen |-> [at |-> "off", room |-> NoRoom]]
  /\ video = [s \in Screen |-> FALSE]
  /\ mics = [s \in Screen |-> {}] /\ live = [s \in Screen |-> {}]
  /\ ShareInit /\ (Does("share") \/ platform = "linux")

Mounted(s) == s \in DOMAIN screen /\ screen[s].shown # NoRoom

(***************************************************************************)
(* Going into a room, and what that ends.                                  *)
(***************************************************************************)
NewScreen(r) == [shown |-> r, phase |-> "connecting", cancelled |-> FALSE, quit |-> "no",
                 kind |-> FALSE, timer |-> FALSE, ref |-> 0, opted |-> FALSE]
NewRun(s, r) == [screen |-> s, room |-> r, at |-> "mint", cancelled |-> FALSE, leave |-> "no"]

\* The cleanup of the join effect of s: the run is cancelled, wherever it is, and
\* its leave begins.
CleanedUp(s, runs) ==
  [j \in DOMAIN runs |->
     IF runs[j].screen = s /\ ~runs[j].cancelled
     THEN [runs[j] EXCEPT !.cancelled = TRUE, !.leave = "audio"] ELSE runs[j]]

\* Reopenings that a later one, or the unmount, calls off.
CalledOff(s) == [i \in DOMAIN reopen |-> [reopen[i] EXCEPT !.cancelled = @ \/ reopen[i].screen = s]]

\* The lobby sets activeRoomId.  The shell mounts the screen, or gives the one
\* that is there another room: its join effect runs again, its state stays.
JoinRoom(r) ==
  /\ active # r /\ active' = r
  /\ Len(join) < does.joins
  /\ \/ /\ active = NoRoom /\ Len(screen) < MaxScreen
        /\ screen' = Append(screen, NewScreen(r))
        /\ join' = Append(join, NewRun(Len(screen) + 1, r))
     \/ /\ active # NoRoom /\ Does("switch")
        /\ LET s == Len(screen) IN
           /\ screen' = [screen EXCEPT ![s].shown = r]
           /\ join' = Append(CleanedUp(s, join), NewRun(s, r))
  /\ UNCHANGED <<does, reopen, open, wire, share>>

\* "Try again".
Retry(s) ==
  /\ Does("retry") /\ Mounted(s) /\ screen[s].phase = "error" /\ Len(join) < does.joins
  /\ screen' = [screen EXCEPT ![s].phase = "connecting", ![s].cancelled = FALSE]
  /\ join' = Append(CleanedUp(s, join), NewRun(s, screen[s].shown))
  /\ UNCHANGED <<does, active, reopen, open, wire, share>>

\* Signing out takes the shell, and the screen with it.
SignOut(s) ==
  /\ Does("signout") /\ Mounted(s)
  /\ active' = NoRoom
  /\ screen' = [screen EXCEPT ![s].shown = NoRoom, ![s].timer = FALSE]
  /\ join' = CleanedUp(s, join) /\ reopen' = CalledOff(s)
  /\ UNCHANGED <<does, open, wire, share>>

(***************************************************************************)
(* The join effect, from one await to the next.                            *)
(***************************************************************************)
At(j, stage) == [join EXCEPT ![j].at = stage]
On(s) == lk[s].at = "on"

\* A run that failed shows the error, unless it was cancelled.
Shows(s, runs) ==
  IF (\E j \in runs : ~join[j].cancelled) /\ ~screen[s].cancelled THEN "error" ELSE screen[s].phase

\* room.connect, at the end of a step of run j.
Connects(j) ==
  LET s == join[j].screen IN
  /\ join' = At(j, IF On(s) THEN "publish" ELSE "connect")
  /\ lk' = IF lk[s].at = "off" THEN [lk EXCEPT ![s] = [at |-> "connecting", room |-> join[j].room]] ELSE lk
  /\ UNCHANGED <<mics, live, feed, video>>

\* The token came.  This is the only await after which the run looks at
\* cancelled before it goes on.
Minted(j) ==
  /\ join[j].at = "mint"
  /\ \/ join[j].cancelled /\ join' = At(j, "end") /\ UNCHANGED wire
     \/ ~join[j].cancelled /\ does.device /\ join' = At(j, "mic") /\ UNCHANGED wire
     \/ ~join[j].cancelled /\ ~does.device /\ Connects(j)
  /\ UNCHANGED <<does, active, screen, reopen, open, share>>

MicOpened(j) ==
  /\ join[j].at = "mic"
  /\ open' = open \cup {j}
  /\ screen' = [screen EXCEPT ![join[j].screen].ref = j]
  /\ Connects(j)
  /\ UNCHANGED <<does, active, reopen, share>>

Connected(s) ==
  /\ lk[s].at = "connecting"
  /\ lk' = [lk EXCEPT ![s].at = "on"]
  /\ join' = [j \in DOMAIN join |-> IF join[j].screen = s /\ join[j].at = "connect"
                                   THEN [join[j] EXCEPT !.at = "publish"] ELSE join[j]]
  /\ UNCHANGED <<does, active, screen, reopen, open, mics, live, feed, video, share>>

Waiting(s) == {j \in DOMAIN join : join[j].screen = s /\ join[j].at = "connect"}
Ended(runs) == [j \in DOMAIN join |-> IF j \in runs THEN [join[j] EXCEPT !.at = "end"] ELSE join[j]]

ConnectFails(s) ==
  /\ lk[s].at = "connecting"
  /\ lk' = [lk EXCEPT ![s].at = "off"]
  /\ join' = Ended(Waiting(s))
  /\ screen' = [screen EXCEPT ![s].phase = Shows(s, Waiting(s))]
  /\ UNCHANGED <<does, active, reopen, open, mics, live, feed, video, share>>

\* Mutant: a run that fails shows nothing.
RunFailsSilently(j) ==
  /\ join[j].at \in {"mint", "mic", "publish"}
  /\ join' = At(j, "end")
  /\ UNCHANGED <<does, active, screen, reopen, open, wire, share>>

\* Any other step that threw: the server, the microphone, the publish.
RunFails(j) ==
  /\ join[j].at \in {"mint", "mic", "publish"}
  /\ join' = At(j, "end")
  /\ screen' = [screen EXCEPT ![join[j].screen].phase = Shows(join[j].screen, {j})]
  /\ UNCHANGED <<does, active, reopen, open, wire, share>>

\* setMicrophoneEnabled(TRUE) of run j (0: a toggle): the first track is unmuted,
\* or there is one from now on.  With FALSE the first is muted.
Enabled(s, j) ==
  LET m == IF mics[s] = {} THEN j ELSE Min(mics[s]) IN
  /\ mics' = [mics EXCEPT ![s] = @ \cup {m}] /\ live' = [live EXCEPT ![s] = @ \cup {m}]
  /\ feed' = IF mics[s] = {} THEN [feed EXCEPT ![j] = 0] ELSE feed
Muted(s) == live' = [live EXCEPT ![s] = IF mics[s] = {} THEN @ ELSE @ \ {Min(mics[s])}]

\* Mutant: no run mutes the track that it published.
PublishedOnly(j) ==
  LET s == join[j].screen IN
  /\ join[j].at = "publish" /\ On(s)
  /\ mics' = [mics EXCEPT ![s] = @ \cup {j}] /\ live' = [live EXCEPT ![s] = @ \cup {j}]
  /\ feed' = [feed EXCEPT ![j] = IF does.device THEN j ELSE 0]
  /\ join' = At(j, "keys")
  /\ UNCHANGED <<does, active, screen, reopen, open, lk, video, share>>

\* The track is published, unmuted.  setMuted follows in the same breath, but
\* not for a run that was cancelled.
Published(j) ==
  LET s == join[j].screen IN
  /\ join[j].at = "publish" /\ On(s)
  /\ \/ ~does.device /\ Enabled(s, j)
     \/ /\ does.device
        /\ mics' = [mics EXCEPT ![s] = @ \cup {j}] /\ live' = [live EXCEPT ![s] = @ \cup {j}]
        /\ feed' = [feed EXCEPT ![j] = j]
  /\ join' = At(j, IF join[j].cancelled THEN "keys" ELSE "mute")
  /\ UNCHANGED <<does, active, screen, reopen, open, lk, video, share>>

MutedAfter(j) ==
  /\ join[j].at = "mute"
  /\ Muted(join[j].screen)
  /\ join' = At(j, "keys")
  /\ UNCHANGED <<does, active, screen, reopen, open, lk, mics, feed, video, share>>

\* The key distribution was started, or skipped (RoomE2EE).
KeysDone(j) ==
  /\ join[j].at = "keys"
  /\ join' = At(j, "end")
  /\ screen' = IF join[j].cancelled THEN screen ELSE [screen EXCEPT ![join[j].screen].phase = "connected"]
  /\ UNCHANGED <<does, active, reopen, open, wire, share>>

(***************************************************************************)
(* Leaving.                                                                *)
(***************************************************************************)
\* disableScreenShareAudio, as leave runs it.
AudioOff(s) ==
  /\ shared' = [shared EXCEPT ![s] = FALSE] /\ Forgotten(s)
  /\ native' = (native /\ ~StopsNative)
  /\ UNCHANGED <<platform, cap, dis>>

\* room.disconnect: the tracks are taken back, a connect under way is aborted.
Disconnected(s) ==
  /\ lk' = [lk EXCEPT ![s] = [at |-> "off", room |-> NoRoom]]
  /\ mics' = [mics EXCEPT ![s] = {}] /\ live' = [live EXCEPT ![s] = {}] /\ feed' = feed
  /\ video' = [video EXCEPT ![s] = FALSE]
  /\ Unpublished(s)
  /\ UNCHANGED <<platform, native, stream, cap, dis>>

\* The screen after it.  The event of a connection that ends by the client's own
\* wish clears disconnectKind, and with it the timer.
AfterDisconnect(s) ==
  [screen[s] EXCEPT !.phase = Shows(s, Waiting(s)), !.kind = @ /\ ~On(s), !.timer = @ /\ ~On(s)]

\* handleLeave, by Leave, by Cancel (c) or by the timer.  Only one is under way
\* per screen: a second does nothing but the same.
Quits(s, c) ==
  /\ screen' = [screen EXCEPT ![s].quit = "audio", ![s].ref = 0, ![s].timer = FALSE, ![s].cancelled = @ \/ c]
  /\ open' = open \ {screen[s].ref}

HandleLeave(s) ==
  /\ Mounted(s) /\ screen[s].quit = "no"
  /\ \E c \in BOOLEAN : (c => screen[s].phase = "connecting") /\ Quits(s, c)
  /\ UNCHANGED <<does, active, join, reopen, wire, share>>

QuitAudio(s) ==
  /\ s \in DOMAIN screen /\ screen[s].quit = "audio"
  /\ screen' = [screen EXCEPT ![s].quit = "disconnect"]
  /\ AudioOff(s)
  /\ UNCHANGED <<does, active, join, reopen, open, wire>>

\* At its end onLeave clears activeRoomId, whatever room that is by now.
QuitDone(s) ==
  /\ s \in DOMAIN screen /\ screen[s].quit = "disconnect"
  /\ Disconnected(s)
  /\ screen' = [screen EXCEPT ![s] =
                  [AfterDisconnect(s) EXCEPT !.quit = "no", !.shown = NoRoom, !.timer = FALSE]]
  /\ \/ /\ Mounted(s) /\ active' = NoRoom
        /\ join' = CleanedUp(s, Ended(Waiting(s))) /\ reopen' = CalledOff(s)
     \/ ~Mounted(s) /\ join' = Ended(Waiting(s)) /\ UNCHANGED <<active, reopen>>
  /\ UNCHANGED <<does, open>>

\* The leave of the effect's cleanup: the same, and nothing is closed.
LeaveAudio(j) ==
  /\ join[j].leave = "audio"
  /\ join' = [join EXCEPT ![j].leave = "disconnect"]
  /\ AudioOff(join[j].screen)
  /\ UNCHANGED <<does, active, screen, reopen, open, wire>>

LeaveDone(j) ==
  LET s == join[j].screen IN
  /\ join[j].leave = "disconnect"
  /\ Disconnected(s)
  /\ join' = [Ended(Waiting(s)) EXCEPT ![j].leave = "done"]
  /\ screen' = [screen EXCEPT ![s] = AfterDisconnect(s)]
  /\ UNCHANGED <<does, active, reopen, open>>

\* The server ends the call: the room was deleted, the user removed.  The screen
\* shows it, and leaves when its timer fires.
Kick(s) ==
  /\ Does("kick") /\ On(s)
  /\ Disconnected(s)
  /\ screen' = [screen EXCEPT ![s].kind = TRUE, ![s].timer = @ \/ (Mounted(s) /\ ~screen[s].kind)]
  /\ UNCHANGED <<does, active, join, reopen, open>>

\* Mutant: the timer is heeded in a call that got in only.
TimerFiresConnected(s) ==
  /\ s \in DOMAIN screen /\ screen[s].timer /\ screen[s].phase = "connected"
  /\ \/ screen[s].quit = "no" /\ Quits(s, FALSE)
     \/ screen[s].quit # "no" /\ screen' = [screen EXCEPT ![s].timer = FALSE] /\ open' = open
  /\ UNCHANGED <<does, active, join, reopen, wire, share>>

TimerFires(s) ==
  /\ s \in DOMAIN screen /\ screen[s].timer
  /\ \/ screen[s].quit = "no" /\ Quits(s, FALSE)
     \/ screen[s].quit # "no" /\ screen' = [screen EXCEPT ![s].timer = FALSE] /\ open' = open
  /\ UNCHANGED <<does, active, join, reopen, wire, share>>

(***************************************************************************)
(* In the call.                                                            *)
(***************************************************************************)
Inside(s) == Mounted(s) /\ screen[s].phase = "connected" /\ On(s)

\* The mute button, or push to talk.
SetMuted(s) ==
  /\ Does("talk") /\ Inside(s)
  /\ \/ Enabled(s, 0) /\ screen' = [screen EXCEPT ![s].opted = TRUE]
     \/ live[s] # {} /\ Muted(s) /\ UNCHANGED <<mics, feed, screen>>
  /\ UNCHANGED <<does, active, join, reopen, open, lk, video, share>>

\* A setting changed that needs a new pipeline; an earlier change is called off.
ReopenMic(s) ==
  /\ Does("reopen") /\ does.device /\ Mounted(s) /\ screen[s].phase = "connected"
  /\ Len(reopen) < MaxReopen
  /\ reopen' = Append(CalledOff(s), [screen |-> s, at |-> "mic", cancelled |-> FALSE])
  /\ UNCHANGED <<does, active, screen, join, open, wire, share>>

\* It opened, or did not.  One that was called off is closed at once.
Reopened(i) ==
  /\ reopen[i].at = "mic"
  /\ \/ /\ ~reopen[i].cancelled /\ open' = open \cup {MaxJoin + i}
        /\ reopen' = [reopen EXCEPT ![i].at = "replace"]
     \/ open' = open /\ reopen' = [reopen EXCEPT ![i].at = "end"]
  /\ UNCHANGED <<does, active, screen, join, wire, share>>

\* Mutant: the old pipeline is closed, the new one not put behind the track.
ReplacedNowhere(i) ==
  LET s == reopen[i].screen IN
  /\ reopen[i].at = "replace"
  /\ open' = open \ {screen[s].ref}
  /\ screen' = [screen EXCEPT ![s].ref = MaxJoin + i]
  /\ reopen' = [reopen EXCEPT ![i].at = "end"]
  /\ UNCHANGED <<does, active, join, wire, share>>

\* replaceMicTrack, if a track is published; then the old pipeline is closed.
Replaced(i) ==
  LET s == reopen[i].screen IN
  /\ reopen[i].at = "replace"
  /\ feed' = IF mics[s] = {} THEN feed ELSE [feed EXCEPT ![Min(mics[s])] = MaxJoin + i]
  /\ open' = open \ {screen[s].ref}
  /\ screen' = [screen EXCEPT ![s].ref = MaxJoin + i]
  /\ reopen' = [reopen EXCEPT ![i].at = "end"]
  /\ UNCHANGED <<does, active, join, lk, mics, live, video, share>>

\* The share button: the picture, with sound if asked for.
StartShare(s) ==
  /\ Does("share") /\ Inside(s) /\ ~video[s]
  /\ video' = [video EXCEPT ![s] = TRUE]
  /\ UNCHANGED <<does, active, screen, join, reopen, open, lk, mics, live, feed>>
  /\ UNCHANGED <<platform, native, stream, aux, shared, dis>>
  /\ Enable(s) \/ UNCHANGED cap

\* "Share audio", later.
StartShareAudio(s) ==
  /\ Inside(s) /\ video[s] /\ ~shared[s] /\ ~InFlight(s)
  /\ UNCHANGED <<does, active, screen, join, reopen, open, wire>>
  /\ UNCHANGED <<platform, native, stream, aux, shared, dis>>
  /\ Enable(s)

\* setScreenShare(FALSE): LiveKit takes back the picture and the sound with it.
StopShare(s) ==
  /\ Inside(s) /\ video[s]
  /\ video' = [video EXCEPT ![s] = FALSE]
  /\ Unpublished(s)
  /\ UNCHANGED <<does, active, screen, join, reopen, open, lk, mics, live, feed>>
  /\ UNCHANGED <<platform, native, stream, cap, dis>>

ShareStep(s) ==
  /\ \/ ShareNext(s)
     \/ Inside(s) /\ DisableShare(s)
     \/ On(s) /\ SharePublished(s)
     \/ SharePublishFails(s)
  /\ UNCHANGED <<does, active, screen, join, reopen, open, wire>>

HelperGone == HelperDies /\ UNCHANGED <<does, active, screen, join, reopen, open, wire>>

(***************************************************************************)
(* The specification.  Every answer comes some time: the server, LiveKit   *)
(* and the devices answer or fail, and the timer fires.  One condition is  *)
(* enough, for there are finitely many of these steps.                     *)
(***************************************************************************)
RunStep(j) == Minted(j) \/ MicOpened(j) \/ RunFails(j) \/ Published(j) \/ MutedAfter(j) \/ KeysDone(j)
LeaveStep(j) == LeaveAudio(j) \/ LeaveDone(j)
QuitStep(s) == QuitAudio(s) \/ QuitDone(s)
ConnectStep(s) == Connected(s) \/ ConnectFails(s)
ReopenStep(i) == Reopened(i) \/ Replaced(i)
UserStep(s) ==
  \/ Retry(s) \/ SignOut(s) \/ HandleLeave(s) \/ SetMuted(s) \/ ReopenMic(s)
  \/ StartShare(s) \/ StartShareAudio(s) \/ StopShare(s)

Answers ==
  \/ \E j \in DOMAIN join : RunStep(j) \/ LeaveStep(j)
  \/ \E s \in Screen : ConnectStep(s) \/ QuitStep(s) \/ TimerFires(s)

CallNext ==
  \/ \E r \in does.rooms : JoinRoom(r)
  \/ \E s \in Screen : UserStep(s) \/ Kick(s) \/ ShareStep(s)
  \/ Answers
  \/ \E i \in DOMAIN reopen : ReopenStep(i)
  \/ HelperGone

CallSpec == CallInit /\ [][CallNext]_callVars /\ WF_callVars(Answers)

(***************************************************************************)
(* What a call promises.                                                   *)
(***************************************************************************)
\* A screen that says "connecting" does not say so for ever: it gets in, shows
\* an error, or goes away.
JoinSettles ==
  \A s \in Screen :
    (Mounted(s) /\ screen[s].phase = "connecting")
      ~> (~Mounted(s) \/ screen[s].phase # "connecting")

\* A screen that shows that the server ended the call goes back to the lobby,
\* unless a later end of the connection took that back.
KickBounces ==
  \A s \in Screen : (Mounted(s) /\ screen[s].kind) ~> (~Mounted(s) \/ ~screen[s].kind)

\* No run of the join effect of s was cleaned up yet: no other room, no second
\* try, no leaving.
Undisturbed(s) == \A j \in DOMAIN join : join[j].screen = s => ~join[j].cancelled

\* On a screen whose run was left alone, a microphone track goes out unmuted only
\* once the user unmuted, or in the moment between the publish and the mute that
\* follows.
MutedUntilOptIn ==
  \A s \in DOMAIN screen : Undisturbed(s) /\ live[s] # {} =>
    screen[s].opted \/ \E m \in live[s] : join[m].at = "mute"

\* InRoomScreen.tsx:1988-1989: "every join starts muted. Mute right after publish
\* so no audio frames leave before the user opts in."  The same, of every screen.
StartsMuted ==
  \A s \in DOMAIN screen : live[s] # {} =>
    screen[s].opted \/ \E m \in live[s] : join[m].at = "mute"

\* A microphone that is live on such a screen has an open pipeline behind it: no
\* reopening closed the one in use, or put one in use that was called off.
LiveIsHeard ==
  \A s \in DOMAIN screen : Undisturbed(s) /\ screen[s].quit = "no" =>
    \A m \in live[s] : feed[m] \in open \cup {0}

\* livekit-room.ts:1065-1068 and system-audio-stream.ts:111-114: an enable that
\* ends without a published track leaves nothing running that it started, unless
\* a disable that came in between has yet to stop it.  (The capture is one for
\* all wrappers: what another wrapper runs is not held against this one.)
FailedShareHoldsNothing ==
  [][\A s \in Screen : InFlight(s) /\ ~InFlight(s)' /\ ~shared'[s] /\ dis[s] = "no"
             /\ (\A w \in Screen : InFlight(w) \/ shared[w] => w = s) =>
       Running' \subseteq cap[s].had /\ ~aux'[s]]_callVars
=============================================================================
