--------------------------------- MODULE Shell ---------------------------------
(***************************************************************************)
(* The main process of the desktop client: main/index.ts with its updater  *)
(* (main/auto-update.ts), the splash, the one main window, and the links   *)
(* (main/deep-links.ts, preload/index.ts) down to the components of        *)
(* App.tsx and LobbyScreen.tsx that listen for them.                       *)
(*                                                                         *)
(* Messages of main to the renderer are one queue, wire; requests of the   *)
(* renderer for a link kept for it are another, claims.                    *)
(***************************************************************************)
EXTENDS Naturals, Sequences, SequencesExt

CONSTANTS
  DeepLink, JoinLink,   \* links, and those among them that join a room
  NoLink,
  ShellProfiles,         \* what goes on; see Profile
  MaxLaunch,        \* bound on the number of processes
  MaxFault          \* bound on crashes, hangs, reloads, failed checks and installs

\* links: those that are opened; self: the build updates itself; mac: closing
\* the last window does not quit.
ShellOperation == {"update", "offers", "crash", "reload", "pages", "session", "menu"}
ShellProfile == [ops : SUBSET ShellOperation, self : BOOLEAN, mac : BOOLEAN, links : SUBSET DeepLink]

ASSUME ShellAssumption ==
  JoinLink \subseteq DeepLink /\ NoLink \notin DeepLink /\ ShellProfiles \subseteq ShellProfile

VARIABLES
  setup,        \* the profile; never changes
  life,        \* where app.whenReady() is: "starting" awaits the updater,
               \* "opening" the window, "lost" is a window that failed to load
  argv,        \* the link the process was launched with
  splash,      \* the splash is open
  updater,     \* see Updater
  version,     \* the version that is installed
  released,    \* the newest there is
  main,        \* the main window; see Window
  mainWindow,  \* the variable of that name holds a window that is there
  pending,     \* the link kept for the renderer
  claims,        \* the listeners that asked for it, in order
  wire,        \* what is on its way to the renderer: [to, link]
  app,         \* what is mounted there; see App
  unsent,      \* links nobody has opened yet
  acted,       \* history: how often this process acted on a link
  running,     \* the version that runs (APP_VERSION)
  floor,       \* the oldest version the server admits
  seen,        \* what its /health answered last: [floor, latest], 0 for nothing
  prompt,      \* the update prompt: "on", "later" (this session), "off" (for good)
  launches,    \* bound: processes so far
  faults       \* bound: things that went wrong so far

process == <<life, argv, splash, updater, main, mainWindow, pending>>
renderer == <<claims, wire, app>>
install == <<version, running>>
offers == <<seen, prompt>>
feed == <<released, floor>>
updates == <<install, offers, feed>>
history == <<unsent, acted, launches, faults>>
shellVars == <<setup, process, renderer, updates, history>>

Outcome == {"no-update", "error", "timeout", "installing"}
\* check: of autoUpdater; downloaded: the version it holds, 0 for none; timer:
\* the startup timeout; settled: what initAutoUpdate resolved to; installing:
\* quitAndInstall is due.
Updater == [check : {"idle", "asked", "found"}, downloaded : Nat, timer : BOOLEAN,
            settled : Outcome \cup {NoLink}, installing : BOOLEAN]
NoUpdater == [check |-> "idle", downloaded |-> 0, timer |-> FALSE, settled |-> NoLink,
              installing |-> FALSE]
\* painted: ready-to-show has fired; fading: the 300 ms after it; asking: the
\* message boxes that are open.
Window == [page : {"none", "loading", "loaded"}, painted : BOOLEAN, fading : BOOLEAN,
           shown : BOOLEAN, renderer : {"ok", "gone", "hung"}, asking : SUBSET {"gone", "hung"}]
NoWindow == [page |-> "none", painted |-> FALSE, fading |-> FALSE, shown |-> FALSE,
             renderer |-> "ok", asking |-> {}]
\* status: of the auth store, by which Router is keyed; hydrating: the saved
\* token is being read; code: pendingInviteCode; phase: the invite the lobby shows.
App == [status : {"none", "out", "loading", "in"}, hydrating : BOOLEAN,
        top : {"lobby", "other"}, code : DeepLink \cup {NoLink}, phase : DeepLink \cup {NoLink}]
NoApp == [status |-> "none", hydrating |-> FALSE, top |-> "lobby", code |-> NoLink, phase |-> NoLink]

Unknown == [floor |-> 0, latest |-> 0]

ShellTypeOK ==
  /\ setup \in ShellProfiles /\ life \in {"off", "starting", "opening", "up", "lost"}
  /\ argv \in DeepLink \cup {NoLink} /\ splash \in BOOLEAN /\ updater \in Updater
  /\ version \in Nat /\ running \in Nat /\ released \in Nat /\ floor \in Nat
  /\ seen \in [floor : Nat, latest : Nat] /\ prompt \in {"on", "later", "off"}
  /\ main \in Window /\ mainWindow \in BOOLEAN
  /\ pending \in DeepLink \cup {NoLink} /\ claims \in Seq({"router", "lobby", "nobody"})
  /\ wire \in Seq([to : {"all", "router", "lobby", "nobody"}, link : DeepLink])
  /\ app \in App /\ unsent \subseteq DeepLink /\ acted \in [DeepLink -> Nat]
  /\ launches \in 0 .. MaxLaunch /\ faults \in 0 .. MaxFault

ShellInit ==
  /\ setup \in ShellProfiles
  /\ life = "off" /\ argv = NoLink /\ splash = FALSE /\ updater = NoUpdater
  /\ version = 1 /\ running = 0 /\ released = 1 /\ floor = 1 /\ seen = Unknown /\ prompt = "on"
  /\ main = NoWindow /\ mainWindow = FALSE /\ pending = NoLink
  /\ claims = <<>> /\ wire = <<>> /\ app = NoApp
  /\ unsent = setup.links /\ acted = [l \in DeepLink |-> 0] /\ launches = 0 /\ faults = 0

With(op) == op \in setup.ops
Fails == faults < MaxFault /\ faults' = faults + 1

-----------------------------------------------------------------------------
\* What is mounted in the renderer, and what it does with links.

LobbyMounted(a) == a.status = "in" /\ a.top = "lobby"
\* The lobby turns to the invite that is pending when it shows none (an effect).
Displays(a) ==
  IF LobbyMounted(a) /\ a.phase = NoLink THEN [a EXCEPT !.phase = a.code]
  ELSE IF LobbyMounted(a) THEN a ELSE [a EXCEPT !.phase = NoLink]
\* Children subscribe before their parents.
Subscribers(a) == IF LobbyMounted(a) THEN <<"lobby", "router">> ELSE <<"router">>

\* Router is keyed by the status: each change mounts it anew, without its code,
\* and what its predecessor asked for is answered to nobody.
Remount(status) ==
  LET a == Displays([app EXCEPT !.status = status, !.hydrating = FALSE, !.code = NoLink, !.phase = NoLink])
  IN /\ app' = a
     /\ claims' = [i \in DOMAIN claims |-> "nobody"] \o Subscribers(a)
     /\ wire' = [i \in DOMAIN wire |->
                   IF wire[i].to = "all" THEN wire[i] ELSE [wire[i] EXCEPT !.to = "nobody"]]

\* Scripts run while the page loads: Router is mounted, and hydrate() begins.
Boot ==
  /\ main.page = "loading" /\ main.renderer = "ok" /\ app.status = "none"
  /\ app' = [NoApp EXCEPT !.status = "out", !.hydrating = TRUE]
  /\ claims' = Append(claims, "router")
  /\ UNCHANGED <<setup, process, wire, updates, history>>

Running == app.status # "none" /\ main.renderer = "ok"

\* hydrate(): there is no saved token, or it is looked up.
Hydrate ==
  /\ Running /\ app.hydrating
  /\ \/ app' = [app EXCEPT !.hydrating = FALSE] /\ UNCHANGED <<claims, wire>>
     \/ Remount("loading")
  /\ UNCHANGED <<setup, process, updates, unsent, acted, launches, faults>>

\* The server answers hydrate() or a sign-in.
SignedIn(status) ==
  /\ Running /\ app.status = "loading" /\ Remount(status)
  /\ UNCHANGED <<setup, process, updates, unsent, acted, launches, faults>>

SignIn ==
  /\ With("session") /\ Running /\ app.status = "out" /\ ~app.hydrating
  /\ Fails /\ Remount("loading")
  /\ UNCHANGED <<setup, process, updates, unsent, acted, launches>>

SignOut ==
  /\ With("session") /\ Running /\ app.status = "in" /\ Fails /\ Remount("out")
  /\ UNCHANGED <<setup, process, updates, unsent, acted, launches>>

\* goPage(): the lobby is unmounted, or mounted again and asks once more.
GoPage ==
  /\ With("pages") /\ Running /\ app.status = "in" /\ Len(claims) < 2
  /\ LET a == Displays([app EXCEPT !.top = IF app.top = "lobby" THEN "other" ELSE "lobby"])
     IN app' = a /\ claims' = (IF LobbyMounted(a) THEN Append(claims, "lobby") ELSE claims)
  /\ UNCHANGED <<setup, process, wire, updates, history>>

\* The invite on display is redeemed or dismissed: onInviteCodeConsumed().
InviteDone ==
  /\ Running /\ app.phase # NoLink
  /\ app' = [app EXCEPT !.code = NoLink, !.phase = NoLink]
  /\ UNCHANGED <<setup, process, claims, wire, updates, unsent, acted, launches, faults>>

\* Variant with a plausible fault, only for the mutation runs: it is given to
\* whoever asks.
LendPending ==
  /\ claims # <<>> /\ claims' = Tail(claims) /\ UNCHANGED pending
  /\ wire' = IF pending = NoLink THEN wire ELSE Append(wire, [to |-> claims[1], link |-> pending])
  /\ UNCHANGED <<setup, life, argv, splash, updater, main, mainWindow, app, updates, history>>

\* Main gives the link away that it kept: to whoever asks first.
ConsumePending ==
  /\ claims # <<>> /\ claims' = Tail(claims) /\ pending' = NoLink
  /\ wire' = IF pending = NoLink THEN wire ELSE Append(wire, [to |-> claims[1], link |-> pending])
  /\ UNCHANGED <<setup, life, argv, splash, updater, main, mainWindow, app, updates, history>>

Hears(who, to) ==
  IF to = "all" THEN IF who = "router" THEN Running ELSE Running /\ LobbyMounted(app)
  ELSE who = to /\ Running

\* A link reaches the listeners: Router takes invites, the lobby joins.  A lobby
\* that was left still joins: its callback holds the store.
LinkArrives ==
  /\ wire # <<>> /\ wire' = Tail(wire)
  /\ LET l == wire[1].link  to == wire[1].to IN
     IF l \in JoinLink
     THEN /\ acted' = [acted EXCEPT ![l] = IF Hears("lobby", to) THEN @ + 1 ELSE @]
          /\ UNCHANGED app
     ELSE IF Hears("router", to)
     THEN /\ app' = Displays([app EXCEPT !.code = l]) /\ acted' = [acted EXCEPT ![l] = @ + 1]
     ELSE UNCHANGED <<app, acted>>
  /\ UNCHANGED <<setup, process, claims, updates, unsent, launches, faults>>

-----------------------------------------------------------------------------
\* The process and its window.

\* What ends with the page: all that it mounted, and what it was to be sent.
Forget ==
  /\ claims' = <<>> /\ wire' = <<>> /\ app' = NoApp
  /\ seen' = Unknown /\ prompt' = IF prompt = "later" THEN "on" ELSE prompt

Installed == IF updater.downloaded > version THEN updater.downloaded ELSE version

\* What ends with the process.  An update that was downloaded is installed as it
\* quits.
Leave ==
  /\ life' = "off" /\ splash' = FALSE /\ updater' = NoUpdater
  /\ main' = NoWindow /\ mainWindow' = FALSE /\ pending' = NoLink /\ Forget
  /\ acted' = [l \in DeepLink |-> 0] /\ version' = Installed /\ running' = 0

OpenedWindow == [NoWindow EXCEPT !.page = "loading"]
\* loadFile() rejects when its page is replaced or dies.
Aborted == IF life = "opening" THEN "lost" ELSE life

Starts ==
  IF setup.self
  THEN /\ life' = "starting" /\ main' = NoWindow
       /\ updater' = [NoUpdater EXCEPT !.check = "asked", !.timer = TRUE]
  ELSE life' = "opening" /\ main' = OpenedWindow /\ updater' = NoUpdater

\* app.whenReady(): the splash, then the updater, whose checks end at once in
\* builds that do not update themselves.
Launch(l) ==
  /\ life = "off" /\ launches < MaxLaunch /\ launches' = launches + 1
  /\ l = NoLink \/ l \in unsent
  /\ argv' = l /\ unsent' = unsent \ {l} /\ splash' = TRUE
  /\ running' = version /\ Starts
  /\ UNCHANGED <<setup, mainWindow, pending, renderer, version, offers, feed, acted, faults>>

\* initAutoUpdate() resolves, if it has not: the window is opened, unless an
\* update is going to be installed.
Settle(up, o) ==
  IF life # "starting" \/ up.settled # NoLink
  THEN updater' = up /\ UNCHANGED <<life, main>>
  ELSE /\ updater' = [up EXCEPT !.settled = o]
       /\ IF o = "installing" THEN UNCHANGED <<life, main>>
          ELSE life' = "opening" /\ main' = OpenedWindow

UpdaterStep == UNCHANGED <<setup, argv, splash, mainWindow, pending, renderer, updates, unsent,
                           acted, launches>>

CheckAnswered ==
  /\ updater.check = "asked" /\ UNCHANGED faults
  /\ IF released > version
     THEN updater' = [updater EXCEPT !.check = "found"] /\ UNCHANGED <<life, main>>
     ELSE Settle([updater EXCEPT !.check = "idle"], "no-update")
  /\ UpdaterStep

\* Offline, rate-limited, a broken download.
CheckFails ==
  /\ updater.check # "idle" /\ Fails
  /\ Settle([updater EXCEPT !.check = "idle"], "error") /\ UpdaterStep

Downloaded ==
  /\ updater.check = "found" /\ UNCHANGED faults
  /\ Settle([updater EXCEPT !.check = "idle", !.downloaded = released, !.installing = TRUE], "installing")
  /\ UpdaterStep

\* Variant with a plausible fault, as all definitions called a variant here,
\* only for the mutation runs: the timeout decides nothing.
TimeUpUnheard ==
  /\ updater.timer /\ UNCHANGED faults
  /\ updater' = [updater EXCEPT !.timer = FALSE] /\ UNCHANGED <<life, main>> /\ UpdaterStep

TimeUp ==
  /\ updater.timer /\ UNCHANGED faults
  /\ Settle([updater EXCEPT !.timer = FALSE], "timeout") /\ UpdaterStep

\* Every two hours.
Recheck ==
  /\ With("update") /\ setup.self /\ life \in {"opening", "up", "lost"} /\ updater.check = "idle"
  /\ released > version /\ ~updater.installing /\ updater.downloaded < released
  /\ updater' = [updater EXCEPT !.check = "asked"]
  /\ UNCHANGED <<life, main, faults>> /\ UpdaterStep

\* quitAndInstall(), whatever there is on screen; it may throw.
Install ==
  /\ updater.installing
  /\ \/ Leave /\ UNCHANGED faults
     \/ /\ Fails /\ updater' = [updater EXCEPT !.installing = FALSE]
        /\ UNCHANGED <<life, splash, main, mainWindow, pending, renderer, install, offers, acted>>
  /\ UNCHANGED <<setup, argv, feed, unsent, launches>>

Release ==
  /\ setup.ops \cap {"update", "offers"} # {} /\ released = 1 /\ released' = 2
  /\ UNCHANGED <<setup, process, renderer, install, offers, floor, history>>

\* MIN_CLIENT_VERSION is raised.
RaiseFloor ==
  /\ With("offers") /\ floor < released /\ floor' = released
  /\ UNCHANGED <<setup, process, renderer, install, offers, released, history>>

\* Outside the client, a package manager installs the release.
PackageUpdate ==
  /\ With("offers") /\ ~setup.self /\ version < released /\ version' = released
  /\ UNCHANGED <<setup, process, renderer, running, offers, feed, history>>

-----------------------------------------------------------------------------
\* What the renderer makes of it: UpdateGate, UpdatePrompt, UpdateButton.

Walled == seen.floor > running     \* isUpdateRequired: the wall is up
Outdated == seen.latest > running  \* the button in the title bar
Prompted == Outdated /\ prompt = "on" /\ app.status = "in"

\* The wall and the offers poll /health each for itself; no answer is no floor.
Poll ==
  /\ With("offers") /\ Running
  /\ \/ seen' = [seen EXCEPT !.floor = floor] /\ UNCHANGED faults
     \/ seen' = [seen EXCEPT !.latest = released] /\ UNCHANGED faults
     \/ Fails /\ seen' = [seen EXCEPT !.floor = 0]
     \/ Fails /\ seen' = [seen EXCEPT !.latest = 0]
  /\ UNCHANGED <<setup, process, renderer, install, prompt, feed, unsent, acted, launches>>

\* "Later", or automatic updates switched off, which silences the prompt for good.
DismissPrompt(for) ==
  /\ Running /\ Prompted /\ prompt' = for
  /\ UNCHANGED <<setup, process, renderer, install, seen, feed, history>>

-----------------------------------------------------------------------------
WindowStep == UNCHANGED <<setup, argv, updater, install, feed, unsent, launches>>

ReadyToShow ==
  /\ main.page # "none" /\ ~main.painted /\ main.renderer = "ok"
  /\ main' = [main EXCEPT !.painted = TRUE, !.fading = TRUE]
  /\ WindowStep /\ UNCHANGED <<life, splash, mainWindow, pending, renderer, offers, acted, faults>>

Reveal ==
  /\ main.fading /\ main' = [main EXCEPT !.fading = FALSE, !.shown = TRUE] /\ splash' = FALSE
  /\ WindowStep /\ UNCHANGED <<life, mainWindow, pending, renderer, offers, acted, faults>>

\* dispatchDeepLink(): to the window if there is one, else it is kept.
Dispatch(l, window) ==
  IF window /\ main.page # "none"
  THEN wire' = Append(wire, [to |-> "all", link |-> l]) /\ UNCHANGED pending
  ELSE pending' = l /\ UNCHANGED wire

\* loadFile() resolves: mainWindow is set, and the link of the launch dispatched.
Loaded ==
  /\ main.page = "loading" /\ Running
  /\ main' = [main EXCEPT !.page = "loaded"]
  /\ mainWindow' = (life # "lost")
  /\ IF life # "opening" THEN UNCHANGED <<life, wire, pending>>
     ELSE /\ life' = "up"
          /\ IF argv = NoLink THEN UNCHANGED <<wire, pending>> ELSE Dispatch(argv, TRUE)
  /\ WindowStep /\ UNCHANGED <<splash, claims, app, offers, acted, faults>>

\* A link is opened while the client runs: a second instance, or open-url.
OpenLink(l) ==
  /\ life # "off" /\ l \in unsent /\ unsent' = unsent \ {l}
  /\ Dispatch(l, mainWindow)
  /\ UNCHANGED <<setup, life, argv, splash, updater, main, mainWindow, claims, app, updates,
                 acted, launches, faults>>

\* The page is loaded again: by Ctrl+R, the crash page or a message box.
Reloaded(window) ==
  /\ main' = [window EXCEPT !.page = "loading", !.renderer = "ok"]
  /\ life' = Aborted /\ Forget

Reload ==
  /\ With("reload") /\ main.shown /\ main.renderer = "ok" /\ Fails /\ Reloaded(main)
  /\ WindowStep /\ UNCHANGED <<splash, mainWindow, pending, acted>>

RendererGone ==
  /\ With("crash") /\ main.page # "none" /\ main.renderer # "gone" /\ Fails
  /\ main' = [main EXCEPT !.renderer = "gone", !.asking = @ \cup {"gone"}]
  /\ life' = Aborted /\ Forget
  /\ WindowStep /\ UNCHANGED <<splash, mainWindow, pending, acted>>

Unresponsive ==
  /\ With("crash") /\ main.shown /\ main.renderer = "ok" /\ Fails
  /\ main' = [main EXCEPT !.renderer = "hung", !.asking = @ \cup {"hung"}]
  /\ WindowStep /\ UNCHANGED <<life, splash, mainWindow, pending, renderer, offers, acted>>

Responsive ==
  /\ main.renderer = "hung" /\ main' = [main EXCEPT !.renderer = "ok"]
  /\ WindowStep /\ UNCHANGED <<life, splash, mainWindow, pending, renderer, offers, acted, faults>>

\* The message box of a crash: reload, or quit.
CrashAnswered ==
  /\ "gone" \in main.asking
  /\ \/ /\ Reloaded([main EXCEPT !.asking = @ \ {"gone"}])
        /\ UNCHANGED <<splash, updater, mainWindow, pending, install, acted>>
     \/ Leave
  /\ UNCHANGED <<setup, argv, feed, unsent, launches, faults>>

\* That of a hang: kill the renderer (whose end asks again), wait, or quit.
HangAnswered ==
  /\ "hung" \in main.asking
  /\ \/ /\ main' = [main EXCEPT !.renderer = "gone", !.asking = {"gone"}]
        /\ Forget /\ life' = Aborted
        /\ UNCHANGED <<splash, updater, mainWindow, pending, install, acted>>
     \/ /\ main' = [main EXCEPT !.asking = @ \ {"hung"}]
        /\ UNCHANGED <<life, splash, updater, mainWindow, pending, renderer, install, offers, acted>>
     \/ Leave
  /\ UNCHANGED <<setup, argv, feed, unsent, launches, faults>>

\* The user closes the window: the client quits with it, except on macOS.
CloseWindow ==
  /\ With("menu") /\ main.shown
  /\ IF ~setup.mac /\ ~splash THEN Leave
     ELSE /\ main' = NoWindow /\ mainWindow' = FALSE /\ Forget /\ life' = Aborted
          /\ UNCHANGED <<splash, updater, pending, install, acted>>
  /\ UNCHANGED <<setup, argv, feed, unsent, launches, faults>>

\* macOS: the dock icon opens a window again; its load sets mainWindow anew.
Activate ==
  /\ setup.mac /\ life = "up" /\ main.page = "none" /\ ~splash /\ main' = OpenedWindow
  /\ WindowStep /\ UNCHANGED <<life, splash, mainWindow, pending, renderer, offers, acted, faults>>

\* "Restart to update": app.relaunch() keeps the arguments, app.exit() ends.
Relaunch ==
  /\ Running /\ main.shown /\ (Walled \/ (setup.self /\ Outdated))
  /\ launches < MaxLaunch /\ launches' = launches + 1
  /\ version' = Installed /\ running' = Installed /\ splash' = TRUE /\ Starts /\ Forget
  /\ mainWindow' = FALSE /\ pending' = NoLink /\ acted' = [l \in DeepLink |-> 0]
  /\ UNCHANGED <<setup, argv, feed, unsent, faults>>

-----------------------------------------------------------------------------
ShellNext ==
  \/ Boot \/ Hydrate \/ ConsumePending \/ LinkArrives \/ ReadyToShow \/ Reveal \/ Loaded
  \/ CheckAnswered \/ CheckFails \/ Downloaded \/ TimeUp \/ Recheck \/ Install \/ Release
  \/ RaiseFloor \/ PackageUpdate \/ Poll \/ (\E for \in {"later", "off"} : DismissPrompt(for))
  \/ (\E s \in {"in", "out"} : SignedIn(s)) \/ SignIn \/ SignOut \/ GoPage \/ InviteDone
  \/ (\E l \in DeepLink \cup {NoLink} : Launch(l)) \/ (\E l \in DeepLink : OpenLink(l))
  \/ Reload \/ RendererGone \/ Unresponsive \/ Responsive \/ CrashAnswered \/ HangAnswered
  \/ CloseWindow \/ Activate \/ Relaunch

\* The timeout runs off, and a window whose renderer lives is painted and shown;
\* neither the updater's server nor the user need do anything.
ShellFairness == WF_shellVars(TimeUp) /\ WF_shellVars(ReadyToShow) /\ WF_shellVars(Reveal)

-----------------------------------------------------------------------------
\* Whatever the updater does or fails to do, a process that was launched shows
\* its window, or ends; except that it waits on the splash for an installer, and
\* for an answer when its renderer died (initAutoUpdate, createWindow).
StartsUp ==
  life \in {"starting", "opening"} ~>
    (main.shown \/ life = "off" \/ updater.settled = "installing" \/ "gone" \in main.asking)

\* However often Router and the lobby are mounted, and each asks for the link
\* that was kept, no link is acted on twice by one process.
LinksActOnce == \A l \in DeepLink : acted[l] <= 1

=============================================================================
