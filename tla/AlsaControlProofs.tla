------------------------- MODULE AlsaControlProofs -------------------------
(***************************************************************************)
(* What each alsa_control operation and each hardware event keeps, for any *)
(* sizes of period and buffer.  CasioProofs cites these lemmas and does    *)
(* not look inside the operations again.                                   *)
(***************************************************************************)
EXTENDS AlsaControl, TLAPS

\* A linked pair moves as one.
LinkedAgree == linked => pcm["playback"] = pcm["capture"]

AlsaInv == AlsaTypeOK /\ LinkedAgree

\* The step starts no stream, and closes none.
NothingStarts ==
  \A s \in Streams : pcm'[s] = "running" => pcm[s] = "running"
StaysOpen ==
  \A s \in Streams : pcm[s] # "closed" => pcm'[s] # "closed"

\* What a call or an event on open streams keeps.
Settled == AlsaInv' /\ NothingStarts /\ StaysOpen

\* Entering a state other than running or closed keeps a linked pair together.
LEMMA EnterSettles ==
  ASSUME AlsaInv, NEW s \in Streams, NEW st \in PcmStates,
         st \notin {"running", "closed"}, Enter(s, st),
         UNCHANGED <<linked, capture_enabled>>
  PROVE  Settled /\ pcm'[s] = st /\ (linked => \A t \in Streams : pcm'[t] = st)
<1>1. 0 \in 0..Buffer
  BY GeometryAssumption
<1>2. AlsaTypeOK'
  BY <1>1 DEF AlsaInv, AlsaTypeOK, Enter, Group
<1>3. LinkedAgree'
  BY DEF AlsaInv, AlsaTypeOK, LinkedAgree, Enter, Group, Streams
<1>4. NothingStarts /\ StaysOpen
  BY DEF AlsaInv, AlsaTypeOK, NothingStarts, StaysOpen, Enter, Group
<1>5. pcm'[s] = st /\ (linked => \A t \in Streams : pcm'[t] = st)
  BY DEF Enter, Group
<1> QED
  BY <1>2, <1>3, <1>4, <1>5 DEF AlsaInv, Settled

\* A step that leaves the streams alone.
LEMMA NoChangeSettles ==
  ASSUME AlsaInv, UNCHANGED alsaVars
  PROVE  Settled
<1>1. AlsaTypeOK' /\ LinkedAgree'
  BY DEF AlsaInv, AlsaTypeOK, LinkedAgree, alsaVars
<1> QED
  BY <1>1 DEF AlsaInv, Settled, NothingStarts, StaysOpen, alsaVars

\* snd_pcm_prepare, successful or not.
LEMMA PrepareSettles ==
  ASSUME AlsaInv, NEW s \in Streams, NEW ok \in BOOLEAN, PcmPrepare(s, ok),
         UNCHANGED <<linked, capture_enabled>>
  PROVE  Settled
<1>1. CASE ok
  <2>1. Enter(s, "prepared")
    BY <1>1 DEF PcmPrepare
  <2>2. "prepared" \in PcmStates
    BY DEF PcmStates
  <2> QED
    BY <2>1, <2>2, EnterSettles
<1>2. CASE ~ok
  <2>1. UNCHANGED alsaVars
    BY <1>2 DEF PcmPrepare, alsaVars, pcmVars
  <2> QED
    BY <2>1, NoChangeSettles
<1> QED
  BY <1>1, <1>2

\* snd_pcm_drop leaves its stream, and the other one of a linked pair,
\* stopped.
LEMMA DropSettles ==
  ASSUME AlsaInv, NEW s \in Streams, PcmDrop(s),
         UNCHANGED <<linked, capture_enabled>>
  PROVE  /\ Settled
         /\ pcm'[s] # "running"
         /\ linked => \A t \in Streams : pcm'[t] # "running"
<1>1. CASE pcm[s] \in {"closed", "open", "gone"}
  <2>1. UNCHANGED alsaVars
    BY <1>1 DEF PcmDrop, alsaVars, pcmVars
  <2>2. linked => \A t \in Streams : pcm[t] = pcm[s]
    BY DEF AlsaInv, LinkedAgree, Streams
  <2> QED
    BY <1>1, <2>1, <2>2, NoChangeSettles DEF alsaVars
<1>2. CASE pcm[s] \notin {"closed", "open", "gone"}
  <2>1. Enter(s, "setup")
    BY <1>2 DEF PcmDrop
  <2>2. "setup" \in PcmStates
    BY DEF PcmStates
  <2> QED
    BY <2>1, <2>2, EnterSettles
<1> QED
  BY <1>1, <1>2

\* snd_pcm_start: only the group of its stream may come to run.
LEMMA StartKeeps ==
  ASSUME AlsaInv, NEW s \in Streams, NEW ok \in BOOLEAN, PcmStart(s, ok),
         UNCHANGED <<linked, capture_enabled>>
  PROVE  /\ AlsaInv' /\ StaysOpen
         /\ \A t \in Streams \ Group(s) : pcm'[t] = pcm[t]
         /\ ~ok => NothingStarts
<1>1. CASE ok
  <2>1. AlsaTypeOK'
    BY <1>1 DEF AlsaInv, AlsaTypeOK, PcmStart, PcmStates
  <2>2. LinkedAgree'
    BY <1>1 DEF AlsaInv, LinkedAgree, PcmStart, Group, Streams
  <2>3. StaysOpen /\ \A t \in Streams \ Group(s) : pcm'[t] = pcm[t]
    BY <1>1 DEF PcmStart, StaysOpen
  <2> QED
    BY <1>1, <2>1, <2>2, <2>3 DEF AlsaInv
<1>2. CASE ~ok
  <2>1. UNCHANGED alsaVars
    BY <1>2 DEF PcmStart, alsaVars, pcmVars
  <2> QED
    BY <2>1, NoChangeSettles DEF Settled, alsaVars
<1> QED
  BY <1>1, <1>2

\* A transfer that changes one fill level within the buffer.
LEMMA TransferSettles ==
  ASSUME AlsaInv, fill' \in [Streams -> 0..Buffer],
         UNCHANGED <<linked, capture_enabled, pcm>>
  PROVE  Settled
<1>1. AlsaTypeOK' /\ LinkedAgree'
  BY DEF AlsaInv, AlsaTypeOK, LinkedAgree
<1> QED
  BY <1>1 DEF AlsaInv, Settled, NothingStarts, StaysOpen

\* A tick of the device clock, system suspend, unplugging.
LEMMA HardwareSettles ==
  ASSUME AlsaInv, Hardware
  PROVE  Settled
<1>1. PICK s \in Streams : Tick(s) \/ Suspend(s) \/ DeviceLost(s)
  BY DEF Hardware
<1>2. {"xrun", "suspended", "gone"} \subseteq PcmStates
  BY DEF PcmStates
<1>3. CASE Suspend(s)
  BY <1>2, <1>3, EnterSettles DEF Suspend
<1>4. CASE DeviceLost(s)
  BY <1>2, <1>4, EnterSettles DEF DeviceLost
<1>5. CASE Tick(s)
  <2>1. CASE \E t \in Group(s) : Starved(t)
    BY <1>2, <1>5, <2>1, EnterSettles DEF Tick
  <2>2. CASE ~ \E t \in Group(s) : Starved(t)
    <3>1. fill' = [t \in Streams |->
                     IF t \notin Group(s) THEN fill[t]
                     ELSE IF t = "playback" THEN fill[t] - Period
                     ELSE fill[t] + Period]
      BY <1>5, <2>2 DEF Tick
    <3>2. ASSUME NEW t \in Streams
          PROVE  fill'[t] \in 0..Buffer
      <4>1. fill[t] \in 0..Buffer
        BY DEF AlsaInv, AlsaTypeOK
      <4>2. t \in Group(s) => ~Starved(t)
        BY <2>2
      <4> QED
        BY <3>1, <4>1, <4>2, GeometryAssumption DEF Starved
    <3>3. fill' \in [Streams -> 0..Buffer]
      BY <3>1, <3>2
    <3> QED
      BY <1>5, <2>2, <3>3, TransferSettles DEF Tick
  <2> QED
    BY <2>1, <2>2
<1> QED
  BY <1>1, <1>3, <1>4, <1>5

\* Opening and closing the control stop everything.
LEMMA OpenCloseKeeps ==
  ASSUME AlsaInv, OpenControl \/ UninitAlsa
  PROVE  /\ AlsaInv'
         /\ \A s \in Streams : pcm'[s] # "running"
         /\ OpenControl => pcm'["playback"] = "open"
<1>1. 0 \in 0..Buffer
  BY GeometryAssumption
<1>2. CASE OpenControl
  <2>1. PICK c \in {"closed", "open"} :
          pcm' = [s \in Streams |-> IF s = "playback" THEN "open" ELSE c]
    BY <1>2 DEF OpenControl
  <2>2. AlsaTypeOK'
    BY <1>1, <1>2, <2>1 DEF OpenControl, AlsaTypeOK, PcmStates
  <2>3. LinkedAgree'
    BY <1>2 DEF OpenControl, LinkedAgree
  <2> QED
    BY <2>1, <2>2, <2>3 DEF AlsaInv, Streams
<1>3. CASE UninitAlsa
  <2>1. AlsaTypeOK' /\ LinkedAgree'
    BY <1>1, <1>3 DEF UninitAlsa, AlsaTypeOK, LinkedAgree, PcmStates
  <2> QED
    BY <1>3, <2>1 DEF AlsaInv, UninitAlsa, OpenControl, Streams
<1> QED
  BY <1>2, <1>3

\* set_buffer, whichever of its calls fails: it links only two streams it has
\* just prepared.
LEMMA SetBufferSettles ==
  ASSUME AlsaInv, NEW enable \in BOOLEAN, NEW ok \in BOOLEAN,
         SetBuffer(enable, ok)
  PROVE  Settled
<1> DEFINE enabling == enable /\ CaptureInitialized
<1>1. fill' = fill /\ capture_enabled' = enabling /\ enabling \in BOOLEAN
  BY DEF SetBuffer, CaptureInitialized
<1>2. ASSUME NEW s \in Streams, NEW r \in BOOLEAN, NEW q \in Configured(s, r)
      PROVE  /\ q \in PcmStates
             /\ q = "running" => pcm[s] = "running"
             /\ pcm[s] # "closed" => q # "closed"
             /\ r => q = "prepared"
  BY <1>2 DEF Configured, AlsaInv, AlsaTypeOK, PcmStates
<1>3. CASE linked /\ ~ok /\ UNCHANGED <<linked, pcm>>
  BY <1>1, <1>3 DEF AlsaInv, AlsaTypeOK, LinkedAgree, Settled, NothingStarts,
                    StaysOpen
<1>4. ASSUME NEW r \in BOOLEAN, linked' = FALSE,
             \E p \in Configured("playback", r) :
                pcm' = [pcm EXCEPT !["playback"] = p]
      PROVE  Settled
  <2>1. PICK p \in Configured("playback", r) :
          pcm' = [pcm EXCEPT !["playback"] = p]
    BY <1>4
  <2>2. pcm \in [Streams -> PcmStates] /\ "playback" \in Streams
    BY DEF AlsaInv, AlsaTypeOK, Streams
  <2>3. AlsaTypeOK'
    BY <1>1, <1>2, <1>4, <2>1, <2>2 DEF AlsaInv, AlsaTypeOK
  <2>4. NothingStarts /\ StaysOpen
    BY <1>2, <2>1, <2>2 DEF NothingStarts, StaysOpen
  <2> QED
    BY <1>4, <2>3, <2>4 DEF AlsaInv, LinkedAgree, Settled
<1>5. CASE /\ \E p \in Configured("playback", TRUE),
                 c \in Configured("capture", ok) :
                 pcm' = [s \in Streams |-> IF s = "playback" THEN p ELSE c]
           /\ IF ok THEN linked' \in BOOLEAN ELSE linked' = FALSE
  <2>1. PICK p \in Configured("playback", TRUE),
             c \in Configured("capture", ok) :
          pcm' = [s \in Streams |-> IF s = "playback" THEN p ELSE c]
    BY <1>5
  <2>2. "playback" \in Streams /\ "capture" \in Streams
    BY DEF Streams
  <2>3. p \in PcmStates /\ c \in PcmStates /\ p = "prepared"
        /\ (ok => c = "prepared")
    BY <1>2, <2>2
  <2>4. AlsaTypeOK'
    BY <1>1, <1>5, <2>1, <2>3 DEF AlsaInv, AlsaTypeOK
  <2>5. LinkedAgree'
    BY <1>5, <2>1, <2>2, <2>3 DEF LinkedAgree
  <2>6. NothingStarts /\ StaysOpen
    BY <1>2, <2>1, <2>2, <2>3 DEF NothingStarts, StaysOpen, Streams
  <2> QED
    BY <2>4, <2>5, <2>6 DEF AlsaInv, Settled
<1> QED
  BY <1>3, <1>4, <1>5 DEF SetBuffer

----------------------------------------------------------------------------
(* What they leave of the set-up: open handles, prepared streams.            *)

\* The step neither opens nor closes the capture PCM.
CaptureStays == CaptureInitialized' = CaptureInitialized

\* The step puts no stream into the state that start() waits to leave.
NothingPrepares ==
  \A s \in Streams : pcm'[s] = "prepared" => pcm[s] = "prepared"

\* A group that leaves its state together stays open.
LEMMA EnterQuiet ==
  ASSUME AlsaInv, NEW s \in Streams, pcm[s] # "closed",
         NEW st \in PcmStates, st # "closed", Enter(s, st)
  PROVE  CaptureStays /\ (st # "prepared" => NothingPrepares)
<1>1. \A t \in Streams : pcm'[t] = IF t \in Group(s) THEN st ELSE pcm[t]
  BY DEF Enter
<1>2. \A t \in Group(s) : pcm[t] # "closed"
  BY DEF Group, AlsaInv, LinkedAgree, Streams
<1> QED
  BY <1>1, <1>2 DEF CaptureStays, CaptureInitialized, NothingPrepares, Streams

LEMMA UnchangedQuiet ==
  ASSUME UNCHANGED pcm
  PROVE  CaptureStays /\ NothingPrepares
  BY DEF CaptureStays, CaptureInitialized, NothingPrepares

LEMMA DropQuiet ==
  ASSUME AlsaInv, NEW s \in Streams, PcmDrop(s)
  PROVE  CaptureStays /\ NothingPrepares
<1>1. "setup" \in PcmStates
  BY DEF PcmStates
<1> QED
  BY <1>1, EnterQuiet, UnchangedQuiet DEF PcmDrop, pcmVars

LEMMA PrepareQuiet ==
  ASSUME AlsaInv, NEW s \in Streams, NEW ok \in BOOLEAN, PcmPrepare(s, ok)
  PROVE  CaptureStays
<1>1. "prepared" \in PcmStates /\ s \in Group(s)
  BY DEF PcmStates, Group
<1> QED
  BY <1>1, EnterQuiet, UnchangedQuiet DEF PcmPrepare, pcmVars

\* A stream that has been started is not prepared any more.
LEMMA StartQuiet ==
  ASSUME AlsaInv, NEW s \in Streams, NEW ok \in BOOLEAN, PcmStart(s, ok)
  PROVE  /\ CaptureStays /\ NothingPrepares
         /\ ok => \A t \in Group(s) \cap Streams : pcm'[t] = "running"
<1>1. CASE ok
  BY <1>1 DEF PcmStart, CaptureStays, CaptureInitialized, NothingPrepares,
              Streams
<1>2. CASE ~ok
  BY <1>2, UnchangedQuiet DEF PcmStart, pcmVars
<1> QED
  BY <1>1, <1>2

LEMMA HardwareQuiet ==
  ASSUME AlsaInv, Hardware
  PROVE  CaptureStays /\ NothingPrepares
<1>1. PICK s \in Streams : Tick(s) \/ Suspend(s) \/ DeviceLost(s)
  BY DEF Hardware
<1>2. {"xrun", "suspended", "gone"} \subseteq PcmStates
  BY DEF PcmStates
<1>3. CASE Tick(s)
  BY <1>2, <1>3, EnterQuiet, UnchangedQuiet DEF Tick
<1>4. CASE Suspend(s)
  BY <1>2, <1>4, EnterQuiet DEF Suspend
<1>5. CASE DeviceLost(s)
  BY <1>2, <1>5, EnterQuiet DEF DeviceLost
<1> QED
  BY <1>1, <1>3, <1>4, <1>5

\* set_buffer opens and closes nothing, and when it succeeds the pair is
\* linked only if capture is enabled.
LEMMA SetBufferQuiet ==
  ASSUME AlsaInv, NEW enable \in BOOLEAN, NEW ok \in BOOLEAN,
         SetBuffer(enable, ok)
  PROVE  /\ CaptureStays
         /\ capture_enabled' = (enable /\ CaptureInitialized)
         /\ ok => (linked' => capture_enabled')
<1>1. capture_enabled' = (enable /\ CaptureInitialized)
  BY DEF SetBuffer
<1>2. /\ CaptureInitialized => CaptureInitialized'
  BY SetBufferSettles DEF Settled, StaysOpen, CaptureInitialized, Streams
<1>3. ~CaptureInitialized => ~CaptureInitialized'
  <2>1. pcm \in [Streams -> PcmStates] /\ "capture" \in Streams
    BY DEF AlsaInv, AlsaTypeOK, Streams
  <2> QED
    BY <2>1 DEF SetBuffer, CaptureInitialized
<1>4. ok => (linked' => capture_enabled')
  BY <1>1 DEF SetBuffer
<1> QED
  BY <1>1, <1>2, <1>3, <1>4 DEF CaptureStays, CaptureInitialized

============================================================================
