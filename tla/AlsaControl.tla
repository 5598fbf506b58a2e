---------------------------- MODULE AlsaControl ----------------------------
(***************************************************************************)
(* The Linux side of the driver: class alsa_control, which owns one        *)
(* playback PCM and, when a capture device is configured, one capture PCM. *)
(*                                                                         *)
(* The PCMs themselves belong to ALSA, which is outside the repository;    *)
(* they are modelled by the states of snd_pcm_state and the number of      *)
(* frames in each ring buffer, as far as the calls alsa_control makes can  *)
(* tell.  Frames are counted in a unit that divides Period.                *)
(*                                                                         *)
(* Every operator below is a piece of an action: Casio.tla calls it from   *)
(* the host thread or from the audio thread, one operator per ioctl, so    *)
(* that the other thread and the hardware may act between two ioctls.      *)
(***************************************************************************)
EXTENDS Integers

CONSTANTS
  Period,   \* alsa_period_size, also avail_min of the playback PCM
  Buffer    \* alsa_buffer_size, frames the ring buffer of a PCM holds

ASSUME GeometryAssumption ==
  /\ Period \in Nat \ {0}
  /\ Buffer \in Nat \ {0}
  /\ Period < Buffer
  /\ Buffer % Period = 0

VARIABLES
  linked,           \* alsa_control::linked
  capture_enabled,  \* alsa_control::capture_enabled
  pcm,              \* state of each PCM; "closed" while *_initialized is false
  fill              \* frames queued (playback) or captured (capture)

alsaVars == <<linked, capture_enabled, pcm, fill>>
pcmVars == <<pcm, fill>>

Streams == {"playback", "capture"}

\* snd_pcm_state_t, and "closed" for a handle that is not open.
PcmStates == {"closed", "open", "setup", "prepared", "running",
              "xrun", "suspended", "gone"}

AlsaTypeOK ==
  /\ linked \in BOOLEAN
  /\ capture_enabled \in BOOLEAN
  /\ pcm \in [Streams -> PcmStates]
  /\ fill \in [Streams -> 0..Buffer]

AlsaInit ==
  /\ linked = FALSE
  /\ capture_enabled = FALSE
  /\ pcm = [s \in Streams |-> "closed"]
  /\ fill = [s \in Streams |-> 0]

CaptureInitialized == pcm["capture"] # "closed"

----------------------------------------------------------------------------
(* PCM primitives. A call on one stream of a linked pair acts on both.      *)

Group(s) == IF linked THEN Streams ELSE {s}

\* The group of s enters state st; leaving the data path empties the buffers.
Enter(s, st) ==
  /\ pcm' = [t \in Streams |-> IF t \in Group(s) THEN st ELSE pcm[t]]
  /\ fill' = [t \in Streams |-> IF t \in Group(s) THEN 0 ELSE fill[t]]

\* snd_pcm_prepare: EBUSY while running, EBADFD without hw_params; an
\* error leaves every stream as it was.
PcmPrepare(s, ok) ==
  IF ok
  THEN /\ \A t \in Group(s) :
             pcm[t] \in {"setup", "prepared", "xrun", "suspended"}
       /\ Enter(s, "prepared")
  ELSE UNCHANGED pcmVars

\* snd_pcm_start: only from PREPARED, a playback stream only with data queued.
PcmStart(s, ok) ==
  IF ok
  THEN /\ \A t \in Group(s) : pcm[t] = "prepared"
       /\ "playback" \in Group(s) => fill["playback"] > 0
       /\ pcm' = [t \in Streams |->
                     IF t \in Group(s) THEN "running" ELSE pcm[t]]
       /\ UNCHANGED fill
  ELSE UNCHANGED pcmVars

\* snd_pcm_drop: stops the stream at once and wakes whoever waits on it.
PcmDrop(s) ==
  IF pcm[s] \in {"closed", "open", "gone"}
  THEN UNCHANGED pcmVars
  ELSE Enter(s, "setup")

\* What a transfer or a wait reports of a stream that is not transferring.
FaultOf(s) == IF pcm[s] = "xrun" THEN "xrun" ELSE "error"

Transferring(s) == pcm[s] \in {"prepared", "running"}

Least(m, n) == IF m < n THEN m ELSE n

----------------------------------------------------------------------------
(* alsa_control operations.                                                 *)

\* The constructor, called from init_alsa_func. A capture device that is
\* "(None)" or does not open leaves a control that plays only.
OpenControl ==
  /\ \E c \in {"closed", "open"} :
        pcm' = [s \in Streams |-> IF s = "playback" THEN "open" ELSE c]
  /\ fill' = [s \in Streams |-> 0]
  /\ linked' = FALSE
  /\ capture_enabled' = FALSE

\* Mutant of InitAlsa: init_alsa_func without its test for an open control.
InitAlsaAgain == OpenControl

\* init_alsa_func when it succeeds: with a control open it fails and changes
\* nothing.
InitAlsa ==
  /\ pcm["playback"] = "closed"
  /\ OpenControl

\* uninit_alsa: the destructor drops the streams and closes them.
UninitAlsa ==
  /\ pcm' = [s \in Streams |-> "closed"]
  /\ fill' = [s \in Streams |-> 0]
  /\ linked' = FALSE
  /\ capture_enabled' = FALSE

\* hw_params and sw_params of one stream. On success alsa-lib has also
\* prepared it; a failure leaves it as it was, without parameters, or
\* (sw_params, or values other than the requested ones) prepared.
Configured(s, ok) ==
  IF pcm[s] \in {"open", "setup", "prepared"}
  THEN IF ok THEN {"prepared"} ELSE {pcm[s], "open", "prepared"}
  ELSE IF ok THEN {} ELSE {pcm[s]}

\* Mutant of SetBuffer: a pair that is linked already is not unlinked first.
SetBufferKeepingLink(enable, ok) ==
  LET enabling == enable /\ CaptureInitialized IN
  /\ capture_enabled' = enabling
  /\ linked' \in {linked, linked \/ (enabling /\ ok)}
  /\ UNCHANGED fill
  /\ \E p \in Configured("playback", ok) :
        pcm' = [s \in Streams |->
                  IF s = "playback" \/ linked \/ enabling THEN p ELSE pcm[s]]

\* set_buffer(..., enable): capture_enabled changes first, whatever fails
\* afterwards; then unlink, playback parameters, capture parameters, link.
\* A link that the kernel refuses is not an error. No stream holds frames
\* when it is called.
SetBuffer(enable, ok) ==
  LET enabling == enable /\ CaptureInitialized IN
  /\ capture_enabled' = enabling
  /\ UNCHANGED fill
  /\ \/ /\ linked /\ ~ok                              \* unlink fails
        /\ UNCHANGED <<linked, pcm>>
     \/ /\ ~ok                                        \* playback fails
        /\ linked' = FALSE
        /\ \E p \in Configured("playback", FALSE) :
              pcm' = [pcm EXCEPT !["playback"] = p]
     \/ /\ ~enabling /\ ok
        /\ linked' = FALSE
        /\ \E p \in Configured("playback", TRUE) :
              pcm' = [pcm EXCEPT !["playback"] = p]
     \/ /\ enabling
        /\ \E p \in Configured("playback", TRUE),
               c \in Configured("capture", ok) :
              pcm' = [s \in Streams |-> IF s = "playback" THEN p ELSE c]
        /\ IF ok THEN linked' \in BOOLEAN ELSE linked' = FALSE

\* prepare, first ioctl; second one only for an enabled, unlinked capture.
PreparePlayback(ok) == PcmPrepare("playback", ok)
PrepareCapture(ok) == PcmPrepare("capture", ok)
SplitCapture == ~linked /\ capture_enabled

\* start: the capture PCM first when it is not linked.
StartPlayback(ok) == PcmStart("playback", ok)
StartCapture(ok) == PcmStart("capture", ok)

\* stop: the capture PCM is dropped too when it is not linked, and whatever
\* the first drop returned.
DropPlayback == PcmDrop("playback")
DropCapture == PcmDrop("capture")

\* One snd_pcm_writei of write, of which rem frames are left: it moves what
\* fits and sleeps while nothing does.
Writable == Transferring("playback") /\ fill["playback"] < Buffer
WriteChunk(rem) == Least(rem, Buffer - fill["playback"])

\* One snd_pcm_readi of read. A prepared capture stream is not modelled as
\* starting by itself here: Casio's WaitsOnlyOnStarted shows none is read.
Readable == pcm["capture"] = "running" /\ fill["capture"] > 0
ReadChunk(rem) == Least(rem, fill["capture"])

\* Mutant of WaitResults: a wait that times out is taken for an underrun.
WaitTimeoutIsXrun ==
  IF Transferring("playback") THEN {"ok", "xrun"} ELSE {FaultOf("playback")}

\* wait_period: room for avail_min frames. A stream dropped under the
\* wait may report either way.
WaitResults ==
  IF Transferring("playback")
  THEN {r \in {"ok"} : Buffer - fill["playback"] >= Period}
  ELSE {FaultOf("playback")} \cup {r \in {"ok"} : pcm["playback"] = "setup"}

----------------------------------------------------------------------------
(* The environment: the device clock, system suspend and unplugging.        *)

\* One more period would empty the playback buffer or fill the capture one.
Starved(s) ==
  IF s = "playback" THEN fill[s] <= Period ELSE fill[s] + Period >= Buffer

Tick(s) ==
  /\ pcm[s] = "running"
  /\ IF \E t \in Group(s) : Starved(t)
     THEN Enter(s, "xrun")
     ELSE /\ fill' = [t \in Streams |->
                 IF t \notin Group(s) THEN fill[t]
                 ELSE IF t = "playback" THEN fill[t] - Period
                 ELSE fill[t] + Period]
          /\ UNCHANGED pcm
  /\ UNCHANGED <<linked, capture_enabled>>

Suspend(s) ==
  /\ pcm[s] \in {"prepared", "running", "xrun"}
  /\ Enter(s, "suspended")
  /\ UNCHANGED <<linked, capture_enabled>>

DeviceLost(s) ==
  /\ pcm[s] \notin {"closed", "gone"}
  /\ Enter(s, "gone")
  /\ UNCHANGED <<linked, capture_enabled>>

Hardware == \E s \in Streams : Tick(s) \/ Suspend(s) \/ DeviceLost(s)

============================================================================
