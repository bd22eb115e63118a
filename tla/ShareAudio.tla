------------------------------ MODULE ShareAudio ------------------------------
(***************************************************************************)
(* The sound of a screen share: enableScreenShareAudio and                 *)
(* disableScreenShareAudio of lib/livekit-room.ts, over the capture that   *)
(* the desktop gives them: on Windows the helper process of                *)
(* main/system-audio-capture.ts fed into lib/system-audio-stream.ts, or    *)
(* the loopback of getDisplayMedia; on Linux the venmic link of            *)
(* main/linux-audio-routing.ts and its monitor device.                     *)
(*                                                                         *)
(* The capture is one for the whole client; a wrapper (a LiveKitRoom) has  *)
(* at most one enable in flight.  The actions say nothing about the        *)
(* connection and the share of the picture: Call composes them with those. *)
(***************************************************************************)
EXTENDS FiniteSets

CONSTANT Wrapper     \* the LiveKitRooms

Platform == {"win32", "linux"}

VARIABLES
  platform,    \* never changes
  native,      \* main: the helper runs (session), or venmic is linked (linked)
  stream,      \* `active`: the helper's sound as a stream of the renderer
  cap,         \* cap[w]: how far the enable in flight is, and what ran before it
  aux,         \* aux[w]: screenAudioAuxStream is captured
  shared,      \* shared[w]: a screen_share_audio track is published
  dis          \* dis[w]: a disable of the user that is under way

share == <<platform, native, stream, cap, aux, shared, dis>>

\* "start": the main process was asked; "setup": the helper runs and gets its
\* audio graph; "grab", "grabRouted": the monitor is captured, without and with
\* a link; "ask": getDisplayMedia; "publish": the track waits to be published.
Stage == {"no", "start", "setup", "grab", "grabRouted", "ask", "publish"}

\* The captures of the client as a whole.
Running == (IF native THEN {"native"} ELSE {}) \cup (IF stream THEN {"stream"} ELSE {})

ShareTypeOK ==
  /\ platform \in Platform /\ native \in BOOLEAN /\ stream \in BOOLEAN
  /\ cap \in [Wrapper -> [at : Stage, had : SUBSET {"native", "stream"}]]
  /\ aux \in [Wrapper -> BOOLEAN] /\ shared \in [Wrapper -> BOOLEAN]
  /\ dis \in [Wrapper -> {"no", "stop", "pick", "stopping", "picking"}]
  /\ stream => platform = "win32"

ShareInit ==
  /\ platform \in Platform /\ native = FALSE /\ stream = FALSE
  /\ cap = [w \in Wrapper |-> [at |-> "no", had |-> {}]]
  /\ aux = [w \in Wrapper |-> FALSE] /\ shared = [w \in Wrapper |-> FALSE]
  /\ dis = [w \in Wrapper |-> "no"]

InFlight(w) == cap[w].at # "no"
To(w, stage) == cap' = [cap EXCEPT ![w].at = stage]

(***************************************************************************)
(* enableScreenShareAudio.                                                 *)
(***************************************************************************)
\* The call itself, at the end of a step: it does nothing when a track is
\* published or another call is in flight.  A stream that is still there is
\* published again.
Enable(w) ==
  IF shared'[w] \/ InFlight(w) THEN UNCHANGED cap
  ELSE cap' = [cap EXCEPT ![w] = [at |-> IF stream' THEN "publish" ELSE "start", had |-> Running']]

\* The main process answers.  The helper gave its first sound, or one runs; it
\* is missing, failed or stayed silent; venmic is linked, or is not.
HelperStarts(w) ==
  /\ platform = "win32" /\ cap[w].at = "start"
  /\ \/ native' = TRUE /\ To(w, "setup")
     \/ ~native /\ native' = native /\ To(w, "ask")
  /\ UNCHANGED <<platform, stream, aux, shared, dis>>

VenmicLinks(w) ==
  /\ platform = "linux" /\ cap[w].at = "start"
  /\ \/ native' = TRUE /\ To(w, "grabRouted")
     \/ native' = native /\ To(w, "grab")
  /\ UNCHANGED <<platform, stream, aux, shared, dis>>

\* The audio graph stands, or its setup threw and the helper is stopped.
HelperWired(w) ==
  /\ cap[w].at = "setup"
  /\ \/ stream' = TRUE /\ native' = native /\ To(w, "publish")
     \/ stream' = stream /\ native' = FALSE /\ To(w, "ask")
  /\ UNCHANGED <<platform, aux, shared, dis>>

\* captureLinuxMonitorSource found its device and captured it, or did not: then
\* the link of this call is taken down.
MonitorGrabbed(w) ==
  /\ cap[w].at \in {"grab", "grabRouted"}
  /\ \/ aux' = [aux EXCEPT ![w] = TRUE] /\ native' = native /\ To(w, "publish")
     \/ aux' = aux /\ native' = (native /\ cap[w].at = "grab") /\ To(w, "no")
  /\ UNCHANGED <<platform, stream, shared, dis>>

\* getDisplayMedia gave the loopback, or was denied.
LoopbackAnswered(w) ==
  /\ cap[w].at = "ask"
  /\ \/ aux' = [aux EXCEPT ![w] = TRUE] /\ To(w, "publish")
     \/ aux' = aux /\ To(w, "no")
  /\ UNCHANGED <<platform, native, stream, shared, dis>>

SharePublished(w) ==
  /\ cap[w].at = "publish"
  /\ shared' = [shared EXCEPT ![w] = TRUE] /\ To(w, "no")
  /\ UNCHANGED <<platform, native, stream, aux, dis>>

\* Mutant: only the loopback is let go of.
TornLoopback(w) ==
  /\ aux' = [aux EXCEPT ![w] = FALSE]
  /\ UNCHANGED <<native, stream>>

\* What the platform's path may have left running: its stream with its helper,
\* or its link.
Torn(w) ==
  /\ aux' = [aux EXCEPT ![w] = FALSE]
  /\ stream' = FALSE
  /\ native' = (native /\ platform = "win32" /\ ~stream)

SharePublishFails(w) ==
  /\ cap[w].at = "publish"
  /\ Torn(w) /\ To(w, "no")
  /\ UNCHANGED <<platform, shared, dis>>

\* The helper dies.  The renderer hears of it when its stream stands.
HelperDies ==
  /\ platform = "win32" /\ native /\ native' = FALSE /\ stream' = FALSE
  /\ UNCHANGED <<platform, cap, aux, shared, dis>>

(***************************************************************************)
(* disableScreenShareAudio, from the button or to pick another source.     *)
(***************************************************************************)
\* Mutant: the publication outlives its track.
UnpublishedLater(w) ==
  shared' = shared /\ aux' = [aux EXCEPT ![w] = @ /\ ~shared[w]]

\* LiveKit takes the track back, and ends it.
Unpublished(w) ==
  shared' = [shared EXCEPT ![w] = FALSE] /\ aux' = [aux EXCEPT ![w] = @ /\ ~shared[w]]

DisableShare(w) ==
  /\ shared[w] /\ dis[w] = "no"
  /\ Unpublished(w)
  /\ dis' \in {[dis EXCEPT ![w] = d] : d \in {"stop", "pick"}}
  /\ UNCHANGED <<platform, native, stream, cap>>

\* stopSystemAudioStream forgets the stream at once, and has the helper stopped
\* after it closed the audio graph; a link is taken down in the same call.
Forgotten(w) == aux' = [aux EXCEPT ![w] = FALSE] /\ stream' = FALSE
StopsNative == stream \/ platform = "linux"

\* At its end the choice of another source starts the capture again.
Disabled(w) ==
  /\ dis' = [dis EXCEPT ![w] = "no"]
  /\ IF dis[w] \in {"pick", "picking"} THEN Enable(w) ELSE UNCHANGED cap

ShareForgotten(w) ==
  /\ dis[w] \in {"stop", "pick"}
  /\ Forgotten(w)
  /\ UNCHANGED <<platform, native, shared>>
  /\ \/ /\ StopsNative
        /\ dis' = [dis EXCEPT ![w] = IF dis[w] = "stop" THEN "stopping" ELSE "picking"]
        /\ UNCHANGED cap
     \/ ~StopsNative /\ Disabled(w)

ShareReleased(w) ==
  /\ dis[w] \in {"stopping", "picking"}
  /\ native' = FALSE
  /\ UNCHANGED <<platform, stream, aux, shared>>
  /\ Disabled(w)

ShareNext(w) ==
  \/ HelperStarts(w) \/ VenmicLinks(w) \/ HelperWired(w) \/ MonitorGrabbed(w)
  \/ LoopbackAnswered(w) \/ DisableShare(w) \/ ShareForgotten(w) \/ ShareReleased(w)
=============================================================================
