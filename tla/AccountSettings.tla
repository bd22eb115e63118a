---------------------------- MODULE AccountSettings ----------------------------
(***************************************************************************)
(* The settings of the client, components/SettingsModal.tsx: the sections  *)
(* of the account tab over the routes of apps/server/src/auth and          *)
(* apps/server/src/users that they use, and the devices that the tab of    *)
(* that name opens to show a level or a picture.                           *)
(*                                                                         *)
(* Requests are numbered by the mount of the tab that sent them; the       *)
(* server handles each in one step (Auth has them in more) and its answer  *)
(* comes in another.  What a tab sent goes on when it is gone, and then    *)
(* changes only the user of the store.                                     *)
(***************************************************************************)
EXTENDS Naturals, Bags

CONSTANTS
  Peer,
  Profiles,    \* what goes on, and in how many presses; see Profile
  \* Bounds.
  MaxShown,    \* mounts of a tab
  MaxAct,      \* presses that send a request
  MaxUnder,    \* requests under way when the user does something
  MaxRun       \* runs of the effects that open a device

Operation == {"factor", "profile", "avatar", "blocked", "leave", "devices", "mac", "loss"}
Profile == [ops : SUBSET Operation, acts : 0 .. MaxAct]

AccountSettingsAssumption == Profiles \subseteq Profile

VARIABLES
  does,      \* the profile; never changes
  person,    \* the user's row at the server: see Row
  user,      \* that of the store: what is public of the row
  signedIn,  \* the client has a session
  valid,     \* which the server knows
  tab, shown,\* the tab that is open; mounts so far
  form,      \* the account tab: see Form
  requests,  \* the bag of requests under way
  late,      \* history: what may be out of date; see AccountSettles
  run, runs, \* run[c]: the run of the effect of c, 0 for none; runs so far
  streams,   \* what getUserMedia was asked for, or has opened
  denied,    \* the components that show PermissionDeniedBlock
  prompts,   \* the mounts whose request for the camera the system shows
  acts       \* bound

device == <<run, runs, streams, denied, prompts>>
server == <<person, valid>>
accountVars == <<does, server, user, signedIn, tab, shown, form, requests, late, device, acts>>

Column == {"name", "handle", "avatar"}
Component == {"level", "meter", "preview"}
\* secret, batch: 0 for none; numbered as they are drawn.
Row == [profile : [Column -> BOOLEAN], on : BOOLEAN, secret : 0 .. MaxAct, batch : 0 .. MaxAct,
        drawn : 0 .. MaxAct, blocked : SUBSET Peer]
Public == [profile : [Column -> BOOLEAN], on : BOOLEAN]
\* busy: the flags of the sections; codes: those that are shown.
Form == [phase : {"idle", "enrolling", "disabling"}, secret : 0 .. MaxAct, codes : 0 .. MaxAct,
         busy : SUBSET {"factor", "identity", "avatar", "everywhere", "delete"},
         loaded : BOOLEAN, blocked : SUBSET Peer]
Op == {"start", "verify", "disable", "regenerate", "save", "upload", "url", "me", "list", "unblock",
       "everywhere", "delete", "logout"}
\* after: what refreshUser() or a list follows; number: the secret of a code, or
\* what was drawn; seen: the row as the server answered.
NoPeer == "nobody"
Ask == [op : Op, after : Op \cup {"none"}, column : Column, value : BOOLEAN, peer : Peer \cup {NoPeer},
        number : 0 .. MaxAct, mount : 0 .. MaxShown, at : {"sent", "done", "failed"}, seen : Row]

Fresh == [phase |-> "idle", secret |-> 0, codes |-> 0, busy |-> {}, loaded |-> FALSE, blocked |-> {}]
Blank == [profile |-> [c \in Column |-> FALSE], on |-> FALSE, secret |-> 0, batch |-> 0, drawn |-> 0,
          blocked |-> Peer]
PublicOf(r) == [profile |-> r.profile, on |-> r.on]

AccountTypeOK ==
  /\ does \in Profiles /\ person \in Row /\ user \in Public /\ signedIn \in BOOLEAN /\ valid \in BOOLEAN
  /\ tab \in {"none", "account", "devices"} /\ shown \in 0 .. MaxShown /\ form \in Form
  /\ BagToSet(requests) \subseteq Ask /\ late \subseteq {"factor", "user", "list", "session"}
  /\ run \in [Component -> 0 .. MaxRun] /\ runs \in 0 .. MaxRun /\ denied \subseteq Component
  /\ streams \subseteq [of : Component, run : 1 .. MaxRun, at : {"asked", "open"}]
  /\ prompts \subseteq 1 .. MaxShown /\ acts \in 0 .. MaxAct

AccountInit ==
  /\ does \in Profiles /\ person = Blank /\ user = PublicOf(Blank) /\ signedIn = TRUE /\ valid = TRUE
  /\ tab = "none" /\ shown = 0 /\ form = Fresh /\ requests = EmptyBag /\ late = {}
  /\ run = [c \in Component |-> 0] /\ runs = 0 /\ streams = {} /\ denied = {} /\ prompts = {} /\ acts = 0

Does(op) == op \in does.ops
Under == BagToSet(requests)
NewAsk(op) == [op |-> op, after |-> "none", column |-> "name", value |-> FALSE, peer |-> NoPeer,
               number |-> 0, mount |-> shown, at |-> "sent", seen |-> Blank]
Send(q) == requests' = requests (+) SetToBag({q})
Turn(q, r) == requests' = (requests (-) SetToBag({q})) (+) SetToBag({r})
Drop(q) == requests' = requests (-) SetToBag({q})

\* What a request writes, or reads.
Section(op) ==
  CASE op \in {"start", "regenerate"} -> {"factor"}
    [] op \in {"verify", "disable"} -> {"factor", "user"}
    [] op \in {"save", "upload", "url", "me"} -> {"user"}
    [] op \in {"list", "unblock"} -> {"list"}
    [] OTHER -> {"session"}

Acts == signedIn /\ BagCardinality(requests) < MaxUnder /\ UNCHANGED acts
\* A press while what it is about is under way: busy is one of a section and
\* of a mount, and some buttons know none.
Overlaps(op) ==
  late' = late \cup UNION {Section(op) \cap (Section(q.op) \cup Section(q.after)) : q \in Under}

-----------------------------------------------------------------------------
\* The devices.

\* The effects of the components cs are cleaned up, and those of again run
\* anew: what is open is closed, and what was only asked for stays asked.
Rerun(cs, again) ==
  /\ streams' = {s \in streams : s.of \in cs => s.at = "asked"}
                \cup {[of |-> c, run |-> runs + 1, at |-> "asked"] : c \in again}
  /\ again = {} \/ runs < MaxRun
  /\ runs' = IF again = {} THEN runs ELSE runs + 1
  /\ run' = [c \in Component |-> IF c \in again THEN runs + 1 ELSE IF c \in cs THEN 0 ELSE run[c]]

OnDevices ==
  /\ tab = "devices" /\ Acts
  /\ UNCHANGED <<does, server, user, signedIn, tab, shown, form, requests, late>>

\* Another microphone is chosen, in MicLevelRow and SensitivityMeter.
ChooseMic == OnDevices /\ Rerun({"level", "meter"}, {"level", "meter"}) /\ UNCHANGED <<denied, prompts>>
\* The threshold is dragged, or voice activity switched.
Tune == OnDevices /\ Rerun({"meter"}, {"meter"}) /\ UNCHANGED <<denied, prompts>>
RetryMic ==
  /\ OnDevices /\ "level" \in denied /\ Rerun({"level"}, {"level"})
  /\ UNCHANGED <<denied, prompts>>

\* "Preview" and "Stop".
TogglePreview ==
  /\ OnDevices /\ denied' = denied \ {"preview"} /\ UNCHANGED prompts
  /\ Rerun({"preview"}, IF run["preview"] = 0 THEN {"preview"} ELSE {})

\* Another camera or resolution.
ChooseCamera ==
  OnDevices /\ run["preview"] # 0 /\ Rerun({"preview"}, {"preview"}) /\ UNCHANGED <<denied, prompts>>

\* "Retry", and "Request access" where there is no prompt.
RetryCamera ==
  /\ OnDevices /\ "preview" \in denied /\ denied' = denied \ {"preview"}
  /\ Rerun({"preview"}, {"preview"}) /\ UNCHANGED prompts

\* "Request access" on a Mac.
RequestAccess ==
  /\ OnDevices /\ Does("mac") /\ "preview" \in denied /\ prompts' = prompts \cup {shown}
  /\ UNCHANGED <<run, runs, streams, denied>>

StaysOpen == UNCHANGED <<does, server, user, signedIn, tab, shown, form, requests, late, acts>>

\* onRetry() of the mount that asked, whatever was pressed meanwhile.
AccessAnswered(m) ==
  /\ m \in prompts /\ prompts' = prompts \ {m} /\ StaysOpen
  /\ IF tab = "devices" /\ m = shown
     THEN denied' = denied \ {"preview"} /\ Rerun({"preview"}, {"preview"})
     ELSE UNCHANGED <<run, runs, streams, denied>>

Wanted(s) == run[s.of] = s.run

\* Variant with a plausible fault, as all definitions called a variant here,
\* only for the mutation runs: an effect that was cleaned up keeps its stream.
KeepsStream(s) ==
  /\ s \in streams /\ s.at = "asked" /\ StaysOpen
  /\ streams' = (streams \ {s}) \cup {[s EXCEPT !.at = "open"]}
  /\ denied' = denied \ {s.of} /\ UNCHANGED <<run, runs, prompts>>

\* getUserMedia gives the stream, which nobody may want any more.
Granted(s) ==
  /\ s \in streams /\ s.at = "asked" /\ StaysOpen
  /\ streams' = (streams \ {s}) \cup {t \in {[s EXCEPT !.at = "open"]} : Wanted(s)}
  /\ denied' = IF Wanted(s) THEN denied \ {s.of} ELSE denied
  /\ UNCHANGED <<run, runs, prompts>>

\* It is refused.  The meter says nothing; the preview ends.
Refused(s) ==
  /\ s \in streams /\ s.at = "asked" /\ streams' = streams \ {s} /\ StaysOpen
  /\ denied' = IF Wanted(s) THEN denied \cup ({s.of} \ {"meter"}) ELSE denied
  /\ run' = IF Wanted(s) /\ s.of = "preview" THEN [run EXCEPT !["preview"] = 0] ELSE run
  /\ UNCHANGED <<runs, prompts>>

-----------------------------------------------------------------------------
\* The tabs.

Leave(to) ==
  /\ tab' = to /\ form' = Fresh /\ denied' = {} /\ UNCHANGED prompts
  /\ Rerun(Component, IF to = "devices" THEN {"level", "meter"} ELSE {})

\* The account tab fetches who is blocked.
OpenTab(to) ==
  /\ to # tab /\ shown < MaxShown /\ shown' = shown + 1 /\ Leave(to) /\ Acts
  /\ to = "devices" => Does("devices")
  /\ to = "account" => does.ops \cap {"factor", "profile", "avatar", "blocked", "leave"} # {}
  /\ IF to = "account" /\ Does("blocked")
     THEN Send([NewAsk("list") EXCEPT !.mount = shown + 1]) /\ Overlaps("list")
     ELSE UNCHANGED <<requests, late>>
  /\ UNCHANGED <<does, server, user, signedIn>>

CloseSettings ==
  /\ tab # "none" /\ Leave("none") /\ Acts
  /\ UNCHANGED <<does, server, user, signedIn, shown, requests, late>>

-----------------------------------------------------------------------------
\* The account tab: what the user presses.

OnAccount == tab = "account" /\ UNCHANGED <<does, server, user, signedIn, tab, shown, device>>
\* Something that sends no request, and something that does.
Turned == OnAccount /\ Acts /\ UNCHANGED <<requests, late>>
Pressed ==
  /\ OnAccount /\ signedIn /\ BagCardinality(requests) < MaxUnder
  /\ acts < does.acts /\ acts' = acts + 1
Occupied(flag) == form' = [form EXCEPT !.busy = @ \cup {flag}]
Ready(flag) == flag \notin form.busy

StartEnroll ==
  /\ Pressed /\ Does("factor") /\ form.phase = "idle" /\ ~user.on /\ Ready("factor")
  /\ Occupied("factor") /\ Send(NewAsk("start")) /\ Overlaps("start")

\* The code is one of the secret that is shown.
VerifyEnroll ==
  /\ Pressed /\ form.phase = "enrolling" /\ Ready("factor") /\ Occupied("factor")
  /\ Send([NewAsk("verify") EXCEPT !.number = form.secret]) /\ Overlaps("verify")

StartDisable ==
  /\ Turned /\ Does("factor") /\ form.phase = "idle" /\ user.on
  /\ form' = [form EXCEPT !.phase = "disabling"]

ConfirmDisable ==
  /\ Pressed /\ form.phase = "disabling" /\ Ready("factor") /\ Occupied("factor")
  /\ Send(NewAsk("disable")) /\ Overlaps("disable")

Cancel ==
  /\ Turned /\ form.phase # "idle" /\ form' = [form EXCEPT !.phase = "idle", !.secret = 0]


\* "Generate", which may be pressed again before it is answered.
Regenerate ==
  /\ Pressed /\ Does("factor") /\ user.on /\ form.codes = 0 /\ UNCHANGED form
  /\ Send(NewAsk("regenerate")) /\ Overlaps("regenerate")

\* "I saved them"
HideCodes ==
  /\ Turned /\ form.codes # 0 /\ form' = [form EXCEPT !.codes = 0]

\* saveName() and saveHandle(); "Save URL" and "Remove"; onPickAvatarFile().
SaveColumn(op, c) ==
  /\ Pressed
  /\ LET flag == IF c = "avatar" THEN "avatar" ELSE "identity" IN Ready(flag) /\ Occupied(flag)
  /\ IF c = "avatar" THEN Does("avatar") /\ op \in {"upload", "url"} ELSE Does("profile") /\ op = "save"
  /\ Send([NewAsk(op) EXCEPT !.column = c, !.value = ~user.profile[c]]) /\ Overlaps(op)

Unblock(p) ==
  /\ Pressed /\ p \in form.blocked /\ UNCHANGED form
  /\ Send([NewAsk("unblock") EXCEPT !.peer = p]) /\ Overlaps("unblock")

\* "Yes, everywhere" and "Delete my account forever"; handleSwitch(), of the
\* buttons that sign out.
SignOut(op) ==
  /\ Pressed /\ Does("leave") /\ op \in {"everywhere", "delete", "logout"}
  /\ IF op = "logout" THEN UNCHANGED form ELSE Ready(op) /\ Occupied(op)
  /\ Send(NewAsk(op)) /\ UNCHANGED late

-----------------------------------------------------------------------------
\* The server.

Draws == [person EXCEPT !.drawn = @ + 1]
\* What the row becomes; the empty set where the request is refused.
Made(q) ==
  IF ~valid THEN {} ELSE
  CASE q.op = "start" -> IF person.on THEN {} ELSE {[Draws EXCEPT !.secret = person.drawn + 1]}
    [] q.op = "verify" ->
         IF person.secret # 0 /\ person.secret = q.number
         THEN {[Draws EXCEPT !.on = TRUE, !.batch = person.drawn + 1]} ELSE {}
    [] q.op = "disable" -> {[person EXCEPT !.on = FALSE, !.secret = 0]}
    [] q.op = "regenerate" -> IF person.on THEN {[Draws EXCEPT !.batch = person.drawn + 1]} ELSE {}
    [] q.op \in {"save", "upload", "url"} -> {[person EXCEPT !.profile[q.column] = q.value]}
    [] q.op = "unblock" ->
         IF q.peer \in person.blocked THEN {[person EXCEPT !.blocked = @ \ {q.peer}]} ELSE {}
    [] OTHER -> {person}

\* What the answer brings that is shown once: the secret, or the codes.
Drawn(q, r) == IF q.op = "me" THEN q.number ELSE IF q.op = "start" THEN r.secret ELSE r.batch

\* A request is handled, or not; what was handled may be answered in vain.
Handle(q) ==
  /\ q.at = "sent"
  /\ \/ \E r \in Made(q) :
          /\ person' = r /\ valid' = (valid /\ q.op \notin {"everywhere", "delete", "logout"})
          /\ \/ Turn(q, [q EXCEPT !.at = "done", !.seen = r, !.number = Drawn(q, r)]) /\ UNCHANGED late
             \/ Does("loss") /\ Turn(q, [q EXCEPT !.at = "failed"]) /\ late' = late \cup Section(q.op)
     \/ Turn(q, [q EXCEPT !.at = "failed"]) /\ UNCHANGED server
        /\ late' = IF q.op \in {"me", "list"} THEN late \cup Section(q.op) ELSE late
  /\ UNCHANGED <<does, user, signedIn, tab, shown, form, device, acts>>

-----------------------------------------------------------------------------
\* The answers.

Same(q) == tab = "account" /\ q.mount = shown
FormSet(q, f) == form' = IF Same(q) THEN f ELSE form
Free(flag) == [form EXCEPT !.busy = @ \ {flag}]
Heard == UNCHANGED <<does, server, signedIn, tab, shown, late, device, acts>>

Started(q) ==
  /\ q.op = "start" /\ q.at # "sent" /\ Drop(q) /\ UNCHANGED user /\ Heard
  /\ FormSet(q, IF q.at = "failed" THEN Free("factor")
                ELSE [Free("factor") EXCEPT !.phase = "enrolling", !.secret = q.number])

\* Variant: the store is not refreshed when a column was saved.
SavedOnly(q) ==
  /\ q.op \in {"verify", "disable", "save", "upload"} /\ q.at # "sent"
  /\ UNCHANGED user /\ Heard
  /\ IF q.at = "done" /\ q.op # "save"
     THEN Turn(q, [q EXCEPT !.op = "me", !.after = q.op, !.at = "sent"]) /\ UNCHANGED form
     ELSE Drop(q) /\ FormSet(q, [form EXCEPT !.busy = @ \ {"factor", "identity", "avatar"}])

Flag(op) ==
  CASE op \in {"verify", "disable"} -> "factor" [] op = "save" -> "identity" [] OTHER -> "avatar"

\* refreshUser() follows, and the rest of the handler after it.
Saved(q) ==
  /\ q.op \in {"verify", "disable", "save", "upload"} /\ q.at # "sent" /\ UNCHANGED user /\ Heard
  /\ IF q.at = "done"
     THEN Turn(q, [q EXCEPT !.op = "me", !.after = q.op, !.at = "sent"]) /\ UNCHANGED form
     ELSE Drop(q) /\ FormSet(q, Free(Flag(q.op)))

\* It never fails to its caller, and does not ask whose tab it was.
Refreshed(q) ==
  /\ q.op = "me" /\ q.at # "sent" /\ Drop(q) /\ Heard
  /\ user' = IF q.at = "done" THEN PublicOf(q.seen) ELSE user
  /\ FormSet(q, LET free == Free(Flag(q.after)) IN
                CASE q.after = "verify" -> [free EXCEPT !.phase = "idle", !.secret = 0, !.codes = q.number]
                  [] q.after = "disable" -> [free EXCEPT !.phase = "idle"]
                  [] OTHER -> free)

\* updateAvatarUrl() takes the avatar of the answer alone.
UrlSaved(q) ==
  /\ q.op = "url" /\ q.at # "sent" /\ Drop(q) /\ Heard /\ FormSet(q, Free("avatar"))
  /\ user' = IF q.at = "done"
             THEN [user EXCEPT !.profile["avatar"] = q.seen.profile["avatar"]] ELSE user

Regenerated(q) ==
  /\ q.op = "regenerate" /\ q.at # "sent" /\ Drop(q) /\ UNCHANGED user /\ Heard
  /\ FormSet(q, IF q.at = "done" THEN [form EXCEPT !.codes = q.number] ELSE form)

\* refresh() of the section of blocked users.
Listed(q) ==
  /\ q.op = "list" /\ q.at # "sent" /\ Drop(q) /\ UNCHANGED user /\ Heard
  /\ FormSet(q, [form EXCEPT !.loaded = TRUE, !.blocked = IF q.at = "done" THEN q.seen.blocked ELSE @])

Unblocked(q) ==
  /\ q.op = "unblock" /\ q.at # "sent" /\ UNCHANGED <<user, form>> /\ Heard
  /\ IF q.at = "done" THEN Turn(q, [q EXCEPT !.op = "list", !.at = "sent"]) ELSE Drop(q)

\* handleSwitch(): logout(), and then the login screen, whatever the server said.
SignsOut(q) ==
  /\ q.op \in {"everywhere", "delete"} /\ q.at # "sent" /\ UNCHANGED user /\ Heard
  /\ IF q.at = "done" THEN Turn(q, NewAsk("logout")) ELSE Drop(q)
  /\ FormSet(q, IF q.at = "done" /\ q.op = "delete" THEN form ELSE Free(q.op))

SignedOut(q) ==
  /\ q.op = "logout" /\ q.at # "sent" /\ Drop(q) /\ signedIn' = FALSE /\ Leave("none")
  /\ UNCHANGED <<does, server, user, shown, late, acts>>

Hear(q) ==
  \/ Started(q) \/ Saved(q) \/ Refreshed(q) \/ UrlSaved(q) \/ Regenerated(q) \/ Listed(q) \/ Unblocked(q)
  \/ SignsOut(q) \/ SignedOut(q)

AccountNext ==
  \/ ChooseMic \/ Tune \/ RetryMic \/ TogglePreview \/ ChooseCamera \/ RetryCamera \/ RequestAccess
  \/ \E m \in prompts : AccessAnswered(m)
  \/ \E s \in streams : Granted(s) \/ Refused(s)
  \/ \E to \in {"account", "devices"} : OpenTab(to)
  \/ CloseSettings \/ StartEnroll \/ VerifyEnroll \/ StartDisable \/ ConfirmDisable \/ Cancel
  \/ Regenerate \/ HideCodes
  \/ \E op \in {"save", "upload", "url"}, c \in Column : SaveColumn(op, c)
  \/ \E p \in Peer : Unblock(p)
  \/ \E op \in {"everywhere", "delete", "logout"} : SignOut(op)
  \/ \E q \in Under : Handle(q) \/ Hear(q)

AccountSpec == AccountInit /\ [][AccountNext]_accountVars

-----------------------------------------------------------------------------
\* However fast the user goes through microphones, cameras and tabs, and however
\* late the system gives a stream: none stays open that no component on the
\* screen wants (MicLevelRow, SensitivityMeter, VideoSection).
DevicesAreReleased ==
  \A s \in streams : s.at = "open" => Wanted(s) /\ tab = "devices"

\* Once nothing is under way the account tab tells the truth: the user as the
\* server has them, the secret that is being enrolled, backup codes that still
\* count, who is blocked, and a session that has not been ended.  But for what
\* failed in part or could not be read, and what the user pressed, or opened anew,
\* before the last press was answered
\* (ProfileIdentityFields, TwoFactorSection, BlockedUsersSection, AccountTab).
AccountSettles ==
  (requests = EmptyBag /\ signedIn) =>
    /\ "user" \notin late => user = PublicOf(person)
    /\ "factor" \notin late => /\ form.phase = "enrolling" => form.secret = person.secret
                               /\ form.codes # 0 => form.codes = person.batch
    /\ "list" \notin late /\ form.loaded => form.blocked = person.blocked
    /\ "session" \notin late => valid
=============================================================================
