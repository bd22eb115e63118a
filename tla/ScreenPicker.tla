----------------------------- MODULE ScreenPicker -----------------------------
(***************************************************************************)
(* The window in which the user picks what to share (main/screen-picker.ts,*)
(* ScreenPickerDialog.tsx), and the handler of getDisplayMedia in          *)
(* main/index.ts that opens it.  There is one pending request and one      *)
(* picker window at a time, or so the two variables of the module say:     *)
(* windows load, and close, some time after they are told to.              *)
(***************************************************************************)
EXTENDS Naturals

CONSTANTS Request, PickerWindow, Nothing

ASSUME PickerAssumption == Nothing \notin Request \cup PickerWindow

VARIABLES
  request,       \* where each call of the handler stands
  window,        \* [state, for]: for is the request that opened it
  pendingPick,   \* pending: the request whose promise the next answer settles
  pickerWindow,
  rushed         \* history: a request came while a window was loading

pickerVars == <<request, window, pendingPick, pickerWindow, rushed>>

RequestState == {"idle", "loading", "waiting", "picked", "shared", "denied"}
WindowState == {"none", "loading", "open", "closing", "closed"}

PickerTypeOK ==
  /\ request \in [Request -> RequestState]
  /\ window \in [PickerWindow -> [state : WindowState, for : Request \cup {Nothing}]]
  /\ pendingPick \in Request \cup {Nothing} /\ pickerWindow \in PickerWindow \cup {Nothing}
  /\ rushed \in BOOLEAN

PickerInit ==
  /\ request = [r \in Request |-> "idle"]
  /\ window = [w \in PickerWindow |-> [state |-> "none", for |-> Nothing]]
  /\ pendingPick = Nothing /\ pickerWindow = Nothing /\ rushed = FALSE

In(state) == {w \in PickerWindow : window[w].state = state}

\* pending.resolve(answer), in the table of requests f.
Resolved(f, answer) == IF pendingPick = Nothing THEN f ELSE [f EXCEPT ![pendingPick] = answer]

\* openScreenPicker(): whoever waits is refused; a window that is there is
\* brought to the front, else one is loaded.
OpenScreenPicker(r) ==
  /\ request[r] = "idle" /\ rushed' = (rushed \/ In("loading") # {})
  /\ LET refused == Resolved(request, "denied") IN
     IF pickerWindow # Nothing
     THEN /\ request' = [refused EXCEPT ![r] = "waiting"] /\ pendingPick' = r
          /\ UNCHANGED <<window, pickerWindow>>
     ELSE \E w \in In("none") :
            /\ request' = [refused EXCEPT ![r] = "loading"] /\ pendingPick' = Nothing
            /\ window' = [window EXCEPT ![w] = [state |-> "loading", for |-> r]]
            /\ pickerWindow' = w

\* loadFile() resolves: only now is the request the pending one.
PickerLoaded(w) ==
  /\ window[w].state = "loading" /\ window' = [window EXCEPT ![w].state = "open"]
  /\ request' = [request EXCEPT ![window[w].for] = "waiting"] /\ pendingPick' = window[w].for
  /\ UNCHANGED <<pickerWindow, rushed>>

\* It rejects: the handler denies the request, and the window stays.
PickerFails(w) ==
  /\ window[w].state = "loading" /\ window' = [window EXCEPT ![w].state = "open"]
  /\ request' = [request EXCEPT ![window[w].for] = "denied"]
  /\ UNCHANGED <<pendingPick, pickerWindow, rushed>>

\* A window closed while it loads has its request denied.
Denied(f, w) == IF window[w].state = "loading" THEN [f EXCEPT ![window[w].for] = "denied"] ELSE f

ClosePicker(w) ==
  /\ window[w].state \in {"loading", "open"}
  /\ request' = Denied(request, w) /\ window' = [window EXCEPT ![w].state = "closing"]
  /\ UNCHANGED <<pendingPick, pickerWindow, rushed>>

\* Variant with a plausible fault, only for the mutation runs: the event clears
\* the variable of the window only.
PickerForgotten(w) ==
  /\ window[w].state = "closing" /\ window' = [window EXCEPT ![w].state = "closed"]
  /\ pickerWindow' = Nothing /\ UNCHANGED <<request, pendingPick, rushed>>

\* The "closed" event of any picker window: the variables are not its own.
PickerClosed(w) ==
  /\ window[w].state = "closing" /\ window' = [window EXCEPT ![w].state = "closed"]
  /\ request' = Resolved(request, "denied") /\ pendingPick' = Nothing /\ pickerWindow' = Nothing
  /\ UNCHANGED rushed

\* screen-picker:select and :cancel, from the dialog in w; the window closed is
\* the one the variable names.
PickerAnswered(w, answer) ==
  /\ window[w].state = "open" /\ pendingPick' = Nothing
  /\ LET settled == Resolved(request, answer) IN
     IF pickerWindow = Nothing THEN request' = settled /\ UNCHANGED window
     ELSE /\ request' = Denied(settled, pickerWindow)
          /\ window' = [window EXCEPT ![pickerWindow].state = "closing"]
  /\ pickerWindow' = Nothing /\ UNCHANGED rushed

\* getSources(): what was picked is shared, unless it is gone meanwhile.
SourcesListed(r) ==
  /\ request[r] = "picked"
  /\ \E answer \in {"shared", "denied"} : request' = [request EXCEPT ![r] = answer]
  /\ UNCHANGED <<window, pendingPick, pickerWindow, rushed>>

PickerNext ==
  \/ \E r \in Request : OpenScreenPicker(r) \/ SourcesListed(r)
  \/ \E w \in PickerWindow :
       \/ PickerLoaded(w) \/ PickerFails(w) \/ ClosePicker(w) \/ PickerClosed(w)
       \/ \E answer \in {"picked", "denied"} : PickerAnswered(w, answer)

-----------------------------------------------------------------------------
\* No share hangs: unless a request came while a window was loading, one that
\* waits is the pending one, and there is a window whose answer or end settles
\* it; however late the windows of former requests close (openScreenPicker:
\* "otherwise the previous getDisplayMedia promise never resolves").
WaitingIsAnswerable ==
  ~rushed => \A r \in Request : request[r] = "waiting" =>
               pendingPick = r /\ In("open") \cup In("closing") # {}
=============================================================================
