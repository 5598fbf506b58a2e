---------------------------- MODULE StreamProofs ----------------------------
(***************************************************************************)
(* What the host and the device see of a running stream: halves and        *)
(* position in step, prefills that fit, what is queued when the host is    *)
(* asked for a half, the contract of AsioContract, and whose data goes     *)
(* where.  On top of the invariants of CasioProofs.                        *)
(*                                                                         *)
(* BlockAssumption is what the static_asserts ask of the sizes.  Some of   *)
(* these results need more of the code's values (CASIO.cpp, lines 18 to    *)
(* 21: a buffer of 128 frames, blocks of 64), and say so as a hypothesis.  *)
(***************************************************************************)
EXTENDS StreamData, CasioProofs

\* A buffer holds whole pairs of halves.
EvenBlocks == Buffer % (2 * Block) = 0

\* It holds one pair: the two blocks of start() fill it.
DoubleBuffered == Buffer = 2 * Block

\* From the first bufferSwitch to the loop, and in recover_xrun's silence.
Filling == {"first", "fill", "fillDone", "launch", "starting",
            "startingPlayback"}

\* Where the next bufferSwitch will name the other half, and where the last
\* one has just named this one.
Switching ==
  /\ lastHalf = -1 <=> apc \in {"none", "begin"}
  /\ recovering => apc \notin {"none", "begin", "first"}
  /\ apc \in {"reprepare", "reprepareCapture"} => recovering
  /\ apc \in {"switch", "output", "outputDone"} => index = lastHalf
  /\ apc \in {"loop", "input", "inputDone", "recover", "reprepare",
              "reprepareCapture"} => index = 1 - lastHalf
  /\ apc \in Filling => IF recovering THEN index = 1 - lastHalf
                        ELSE lastHalf = 0

\* Nothing plays before start_backend has started it.
Unstarted ==
  apc \in Filling \cup {"begin", "reprepareCapture"} =>
    pcm["playback"] # "running"

\* Only a stream that has stopped makes a transfer or a wait fail, but for
\* the two streams of a pair that is not linked.
Stopped == ~SplitCapture => pcm["playback"] # "running"
Faulted ==
  /\ apc \in {"inputDone", "outputDone"} /\ ar # "ok" => Stopped
  /\ apc \in {"recover", "reprepare"} => Stopped

\* A capture stream holds frames only while it runs.
CaptureEmpty == pcm["capture"] # "running" => fill["capture"] = 0

\* The position is at the start of the half that was named last.
InStep == lastHalf # -1 => sample_position % (2 * Block) = lastHalf * Block

\* What a prefill puts into the playback buffer, and how much of it is there.
Target == IF recovering THEN Buffer ELSE FirstBlocks * Block
Prefilled ==
  pcm["playback"] = "prepared" =>
    /\ hpc = "preparing" => fill["playback"] = 0
    /\ apc \in {"begin", "first", "reprepareCapture"} => fill["playback"] = 0
    /\ apc = "fill" => fill["playback"] + rem + (blocks - 1) * Block = Target
    /\ apc = "fillDone" /\ ar = "ok" =>
         fill["playback"] + blocks * Block = Target
    /\ apc \in {"launch", "starting", "startingPlayback"} =>
         fill["playback"] = Target

\* The frames on their way through the driver: with the two streams linked they
\* are a full buffer, less what the thread has read and not written yet.
Queued == fill["playback"] + fill["capture"]
Balanced ==
  linked /\ pcm["playback"] = "running" =>
    /\ apc = "loop" => Queued = Buffer
    /\ apc = "input" => Queued + Block = Buffer + rem
    /\ apc = "inputDone" /\ ar = "ok" => Queued + Block = Buffer
    /\ apc = "switch" => Queued + Block = Buffer
    /\ apc = "output" => Queued + rem = Buffer
    /\ apc = "outputDone" /\ ar = "ok" => Queued = Buffer

\* Without capture there is room for a period when wait_period has returned.
Awaited ==
  ~linked /\ ~capture_enabled /\ pcm["playback"] = "running" =>
    /\ apc = "inputDone" /\ ar = "ok" => fill["playback"] + Period <= Buffer
    /\ apc = "switch" => fill["playback"] + Period <= Buffer

\* The stream reads exactly when an input port was asked for.
Chosen ==
  state \in {"Prepared", "Running"} =>
    (capture_active <=> \E p \in active : p[1] = "in")

\* The second block of a start is what the host put into half 0.
HostBlockReady ==
  Plays /\ ~recovering =>
    /\ apc = "fill" =>
         blocks \in {1, 2} /\ (blocks = 2 => output_half[0] = "new")
    /\ apc = "fillDone" =>
         blocks \in {0, 1} /\ (blocks = 1 => output_half[0] = "new")

CycleInv == Switching /\ Unstarted /\ Faulted /\ CaptureEmpty

----------------------------------------------------------------------------
(* Arithmetic.                                                              *)

\* Quotient and remainder.
LEMMA DivMod ==
  ASSUME NEW a \in Nat, NEW m \in Nat \ {0}
  PROVE  /\ a \div m \in Nat /\ a % m \in 0..(m - 1)
         /\ a = (a \div m) * m + (a % m)
BY Z3

\* They are the only such pair.
LEMMA DivModUnique ==
  ASSUME NEW m \in Nat \ {0}, NEW k \in Nat, NEW r \in 0..(m - 1)
  PROVE  /\ (k * m + r) \div m = k
         /\ (k * m + r) % m = r
<1> DEFINE a == k * m + r
           d == a \div m
           s == a % m
<1>1. a \in Nat
  BY Z3
<1>2. d \in Nat /\ s \in 0..(m - 1) /\ a = d * m + s
  BY <1>1, DivMod
<1> HIDE DEF d, s
<1>3. (d - k) * m = r - s
  BY <1>1, <1>2, Z3
<1>4. ASSUME d - k >= 1 PROVE FALSE
  BY <1>2, <1>3, <1>4, Z3
<1>5. ASSUME d - k <= -1 PROVE FALSE
  BY <1>2, <1>3, <1>5, Z3
<1>6. d = k
  BY <1>2, <1>4, <1>5
<1>7. s = r
  BY <1>2, <1>6, Z3
<1> QED
  BY <1>6, <1>7 DEF d, s

\* Reducing first by a multiple of the modulus changes no remainder.
LEMMA ModWrap ==
  ASSUME NEW a \in Nat, NEW m \in Nat \ {0}, NEW w \in Nat \ {0}, w % m = 0
  PROVE  (a % w) % m = a % m
<1> DEFINE p == a \div w
           b == a % w
           e == w \div m
           q == b \div m
           r == b % m
<1>1. p \in Nat /\ b \in Nat /\ a = p * w + b
  BY DivMod
<1>2. e \in Nat /\ w = e * m
  BY DivMod
<1>3. q \in Nat /\ r \in 0..(m - 1) /\ b = q * m + r
  BY <1>1, DivMod
<1> HIDE DEF p, b, e, q, r
<1>4. p * e + q \in Nat
  BY <1>1, <1>2, <1>3, Z3
<1>5. p * (e * m) = (p * e) * m
  BY <1>1, <1>2, Z3
<1>6. a = (p * e) * m + q * m + r
  BY <1>1, <1>2, <1>3, <1>5
<1>7. (p * e + q) * m = (p * e) * m + q * m
  BY <1>1, <1>2, <1>3, Z3
<1>8. a = (p * e + q) * m + r
  BY <1>1, <1>2, <1>3, <1>6, <1>7, Z3
<1>9. a % m = r
  BY <1>3, <1>4, <1>8, DivModUnique
<1> QED
  BY <1>9 DEF r, b

\* Neither does adding one.
LEMMA ModShift ==
  ASSUME NEW a \in Nat, NEW m \in Nat \ {0}, NEW n \in Nat, n % m = 0
  PROVE  (a + n) % m = a % m
<1> DEFINE q == a \div m
           r == a % m
           e == n \div m
<1>1. q \in Nat /\ r \in 0..(m - 1) /\ a = q * m + r
  BY DivMod
<1>2. e \in Nat /\ n = e * m
  BY DivMod
<1> HIDE DEF q, r, e
<1>3. a + n = (q + e) * m + r
  BY <1>1, <1>2, Z3
<1>4. (a + n) % m = r
  BY <1>1, <1>2, <1>3, DivModUnique
<1> QED
  BY <1>4 DEF r

\* A position at the start of half h: a block further on is the other half,
\* and h is the parity of its block.
LEMMA HalfOf ==
  ASSUME NEW a \in Nat, NEW b \in Nat \ {0}, NEW h \in {0, 1},
         a % (2 * b) = h * b
  PROVE  /\ (a + b) % (2 * b) = (1 - h) * b
         /\ (a \div b) % 2 = h
<1> DEFINE q == a \div (2 * b)
<1>1. 2 * b \in Nat \ {0}
  BY Z3
<1>2. q \in Nat /\ a = q * (2 * b) + h * b
  BY <1>1, DivMod
<1> HIDE DEF q
<1>3. CASE h = 0
  <2>1. a + b = q * (2 * b) + b /\ b \in 0..(2 * b - 1)
    BY <1>2, <1>3, Z3
  <2>2. (a + b) % (2 * b) = b
    BY <1>1, <1>2, <2>1, DivModUnique
  <2>3. a = (q * 2) * b + 0 /\ q * 2 \in Nat /\ 0 \in 0..(b - 1)
    BY <1>2, <1>3, Z3
  <2>4. a \div b = q * 2 + 0
    BY <2>3, DivModUnique
  <2>5. (q * 2 + 0) % 2 = 0
    BY <1>2, DivModUnique
  <2> QED
    BY <1>3, <2>2, <2>4, <2>5
<1>4. CASE h = 1
  <2>1. a + b = (q + 1) * (2 * b) + 0 /\ 0 \in 0..(2 * b - 1)
    BY <1>2, <1>4, Z3
  <2>2. (a + b) % (2 * b) = 0
    BY <1>1, <1>2, <2>1, DivModUnique
  <2>3. a = (q * 2 + 1) * b + 0 /\ q * 2 + 1 \in Nat /\ 0 \in 0..(b - 1)
    BY <1>2, <1>4, Z3
  <2>4. a \div b = q * 2 + 1
    BY <2>3, DivModUnique
  <2>5. (q * 2 + 1) % 2 = 1
    BY <1>2, DivModUnique
  <2> QED
    BY <1>4, <2>2, <2>4, <2>5
<1> QED
  BY <1>3, <1>4

----------------------------------------------------------------------------
(* The cycle of the audio thread.                                           *)

\* Calls and events that leave the audio thread's place alone.
AwayFromThread ==
  \/ NewDriver \/ InitDriver \/ CreateBuffersInvalid \/ CreateBuffers
  \/ DisposePrepared \/ Destroy \/ RequestStop \/ DropBackend
  \/ DropBackendCapture \/ HardwareNext

\* What no step of them moves.
LEMMA AwayKeeps ==
  ASSUME AwayFromThread
  PROVE  UNCHANGED threadVars
BY DEF AwayFromThread, NewDriver, InitDriver, CreateBuffersInvalid,
       CreateBuffers, DisposePrepared, Destroy, RequestStop, DropBackend,
       DropBackendCapture, HardwareNext, ThreadIdle, threadVars

\* The object is not Running when start() is called, and has no thread.
LEMMA StartFacts ==
  ASSUME IInv, StartPrepare \/ StartPrepareCapture
  PROVE  /\ apc = "none" /\ state = "Prepared"
         /\ \A s \in Streams : pcm'[s] # "running"
         /\ UNCHANGED <<linked, capture_enabled, capture_active, active,
                        allocated, stop, index, lastHalf, ar, rem, blocks,
                        recovering, sample_position>>
         /\ \/ apc' = "begin" /\ state' = "Running"
            \/ UNCHANGED <<apc, state>>
<1>1. state = "Prepared"
  BY DEF StartPrepare, StartPrepareCapture, IInv, HostInside
<1>2. \E s \in Streams, ok \in BOOLEAN : PcmPrepare(s, ok)
  BY DEF StartPrepare, StartPrepareCapture, PreparePlayback, PrepareCapture,
         Streams
<1>3. UNCHANGED <<linked, capture_enabled>>
  BY DEF StartPrepare, StartPrepareCapture
<1>4. NothingStarts
  BY <1>2, <1>3, PrepareSettles DEF IInv, Settled
<1> QED
  BY <1>1, <1>4 DEF StartPrepare, StartPrepareCapture, Spawn, IInv, Life,
     NothingStarts, Streams

\* start_backend: the capture stream of an unlinked pair first, then playback;
\* the loop begins when both run.
LEMMA StartOutcomes ==
  ASSUME StartStreams \/ StartStreamsPlayback
  PROVE  /\ apc \in Starting
         /\ UNCHANGED <<linked, capture_enabled, lastHalf, ar, rem, blocks,
                        recovering, sample_position>>
         /\ \/ /\ apc' = "startingPlayback" /\ UNCHANGED index
               /\ SplitCapture /\ StartCapture(TRUE)
            \/ apc' = "exited" /\ UNCHANGED <<index, pcm, fill>>
            \/ /\ apc' = "loop" /\ index' = IF recovering THEN index ELSE 1
               /\ StartPlayback(TRUE)
<1>1. CASE StartStreams /\ SplitCapture
  BY <1>1 DEF StartStreams, Launched, Goto, Exit, Starting, StartCapture,
              PcmStart, pcmVars
<1>2. CASE (StartStreams /\ ~SplitCapture) \/ StartStreamsPlayback
  <2>1. PICK ok \in BOOLEAN : StartPlayback(ok) /\ Launched(ok)
    BY <1>2 DEF StartStreams, StartStreamsPlayback
  <2>2. apc \in Starting
    BY <1>2 DEF StartStreams, StartStreamsPlayback, Starting
  <2> QED
    BY <2>1, <2>2 DEF Launched, Goto, Exit, StartPlayback, PcmStart, pcmVars
<1> QED
  BY <1>1, <1>2

\* Half and index move together.
LEMMA SwitchingNext == IInv /\ Switching /\ [Next]_vars => Switching'
<1> SUFFICES ASSUME IInv, Switching, [Next]_vars PROVE Switching'
  OBVIOUS
<1> USE DEF Switching, Filling
<1>1. CASE AwayFromThread \/ UNCHANGED vars
  <2>1. UNCHANGED <<apc, index, lastHalf, recovering>>
    BY <1>1, AwayKeeps DEF threadVars, vars
  <2> QED
    BY <2>1
<1>2. CASE StartPrepare \/ StartPrepareCapture
  BY <1>2, StartFacts
<1>3. CASE Join
  BY <1>3 DEF Join
<1>4. index \in 0..1 /\ lastHalf \in -1..1
  BY DEF IInv, ThreadTypeOK
<1>5. CASE Begin \/ FirstSwitched \/ FillDone \/ Launch
  BY <1>4, <1>5 DEF Begin, FirstSwitched, FillDone, Launch, Goto, Exit
<1>6. CASE Fill \/ Output
  BY <1>4, <1>6 DEF Fill, Output, Write, Goto
<1>7. CASE StartStreams \/ StartStreamsPlayback
  <2>1. /\ apc \in Starting /\ lastHalf' = lastHalf /\ recovering' = recovering
        /\ \/ apc' = "startingPlayback" /\ index' = index
           \/ apc' = "exited" /\ index' = index
           \/ apc' = "loop" /\ index' = IF recovering THEN index ELSE 1
    BY <1>7, StartOutcomes
  <2>2. lastHalf # -1 /\ IF recovering THEN index = 1 - lastHalf ELSE lastHalf = 0
    BY <2>1 DEF Starting
  <2>3. CASE recovering
    BY <1>4, <2>1, <2>2, <2>3
  <2>4. CASE ~recovering
    BY <1>4, <2>1, <2>2, <2>4
  <2> QED
    BY <2>3, <2>4
<1>8. CASE Loop \/ Read \/ WaitPeriod \/ InputDone
  BY <1>4, <1>8 DEF Loop, Read, WaitPeriod, InputDone, Goto, Exit
<1>9. CASE Switched \/ OutputDone \/ Recover
  BY <1>4, <1>9 DEF Switched, OutputDone, Recover, Goto, Exit
<1>10. CASE Reprepare \/ ReprepareCapture
  BY <1>4, <1>10 DEF Reprepare, ReprepareCapture, Reprepared, Goto, Exit
<1> QED
  BY <1>1, <1>2, <1>3, <1>5, <1>6, <1>7, <1>8, <1>9, <1>10
  DEF Next, HostCalls, HostInCall, AudioNext, AwayFromThread

\* Only start_backend starts a stream.
LEMMA OnlyStartsStart ==
  ASSUME IInv, [Next]_vars, ~StartStreams, ~StartStreamsPlayback
  PROVE  NothingStarts
<1> USE DEF IInv
<1>1. CASE AudioNext
  <2>1. CASE Reprepare \/ ReprepareCapture
    <3>1. /\ \E s \in Streams, ok \in BOOLEAN : PcmPrepare(s, ok)
          /\ UNCHANGED <<linked, capture_enabled>>
      BY <2>1 DEF Reprepare, ReprepareCapture, PreparePlayback, PrepareCapture,
                  Streams
    <3> QED
      BY <3>1, PrepareSettles DEF Settled
  <2>2. CASE ~Reprepare /\ ~ReprepareCapture
    <3>1. UNCHANGED pcm
      BY <1>1, <2>2 DEF AudioNext, Begin, FirstSwitched, Fill, FillDone, Loop,
         Read, WaitPeriod, InputDone, Switched, Output, OutputDone, Recover,
         Write, Launch, alsaVars
    <3> QED
      BY <3>1 DEF NothingStarts
  <2> QED
    BY <2>1, <2>2
<1>2. CASE HardwareNext
  BY <1>2, HardwareSettles DEF HardwareNext, Settled
<1>3. CASE StartPrepare \/ StartPrepareCapture
  BY <1>3, StartFacts DEF NothingStarts
<1>4. CASE DropBackend \/ DropBackendCapture
  <2>1. /\ \E s \in Streams : PcmDrop(s)
        /\ UNCHANGED <<linked, capture_enabled>>
    BY <1>4 DEF DropBackend, DropBackendCapture, DropPlayback, DropCapture,
                Streams
  <2> QED
    BY <2>1, DropSettles DEF Settled
<1>5. CASE InitDriver \/ Destroy \/ Join
  BY <1>5, OpenCloseKeeps
  DEF InitDriver, InitAlsa, Destroy, Join, NothingStarts, alsaVars
<1>6. CASE CreateBuffers
  BY <1>6, SetBufferSettles DEF CreateBuffers, Settled
<1>7. CASE NewDriver \/ CreateBuffersInvalid \/ DisposePrepared \/ RequestStop
           \/ UNCHANGED vars
  BY <1>7 DEF NewDriver, CreateBuffersInvalid, DisposePrepared, RequestStop,
              vars, alsaVars, NothingStarts
<1> QED
  BY <1>1, <1>2, <1>3, <1>4, <1>5, <1>6, <1>7 DEF Next, HostCalls, HostInCall

\* Nothing plays while the thread prepares and fills.
LEMMA UnstartedNext == IInv /\ Unstarted /\ [Next]_vars => Unstarted'
<1> SUFFICES ASSUME IInv, Unstarted, [Next]_vars PROVE Unstarted'
  OBVIOUS
<1> USE DEF Unstarted, Filling
<1>1. CASE AwayFromThread \/ UNCHANGED vars
  <2>1. UNCHANGED apc
    BY <1>1, AwayKeeps DEF threadVars, vars
  <2>2. NothingStarts
    BY <1>1, OnlyStartsStart
    DEF AwayFromThread, NewDriver, InitDriver, CreateBuffersInvalid,
        CreateBuffers, DisposePrepared, Destroy, RequestStop, DropBackend,
        DropBackendCapture, HardwareNext, ThreadIdle, StartStreams, Goto,
        StartStreamsPlayback, Launched, Exit, vars, threadVars
  <2> QED
    BY <2>1, <2>2 DEF NothingStarts, Streams
<1>2. CASE StartPrepare \/ StartPrepareCapture
  BY <1>2, StartFacts DEF Streams
<1>3. CASE Join
  BY <1>3 DEF Join
<1>4. CASE StartStreams \/ StartStreamsPlayback
  <2>1. CASE apc' = "startingPlayback" /\ SplitCapture /\ StartCapture(TRUE)
    <3>1. pcm'["playback"] = pcm["playback"]
      BY <2>1 DEF StartCapture, PcmStart, Group, SplitCapture, Streams
    <3> QED
      BY <1>4, <2>1, <3>1, StartOutcomes DEF Starting
  <2> QED
    BY <1>4, <2>1, StartOutcomes
<1>5. CASE Reprepare
  <2>1. CASE PreparePlayback(TRUE)
    BY <2>1 DEF PreparePlayback, PcmPrepare, Enter, Group, Streams
  <2> QED
    BY <1>5, <2>1 DEF Reprepare, Exit, Goto
<1>6. CASE /\ AudioNext /\ ~Reprepare
           /\ ~StartStreams /\ ~StartStreamsPlayback
  <2>1. NothingStarts
    BY <1>6, OnlyStartsStart
  <2>2. apc' \in Filling \cup {"begin", "reprepareCapture"} =>
          apc \in Filling \cup {"begin", "reprepareCapture"}
    <3>1. CASE Begin \/ FirstSwitched \/ Fill \/ FillDone \/ Launch \/ Loop
               \/ Read \/ WaitPeriod
      BY <3>1 DEF Begin, FirstSwitched, Fill, FillDone, Launch, Loop, Read,
                  WaitPeriod, Write, Goto, Exit
    <3>2. CASE InputDone \/ Switched \/ Output \/ OutputDone \/ Recover
               \/ ReprepareCapture
      BY <3>2 DEF InputDone, Switched, Output, OutputDone, Recover,
                  ReprepareCapture, Reprepared, Write, Goto, Exit
    <3> QED
      BY <1>6, <3>1, <3>2 DEF AudioNext
  <2> QED
    BY <2>1, <2>2 DEF NothingStarts, Streams
<1> QED
  BY <1>1, <1>2, <1>3, <1>4, <1>5, <1>6
  DEF Next, HostCalls, HostInCall, AudioNext, AwayFromThread

\* The streams of a run are linked, or not, and capture is used, or not, for
\* the whole of it.
LEMMA PairKept ==
  ASSUME AudioNext
  PROVE  UNCHANGED <<linked, capture_enabled, lifeVars, hostVars, stop>>
<1>1. CASE Begin \/ FirstSwitched \/ Fill \/ FillDone \/ Launch \/ Loop
           \/ Read \/ WaitPeriod
  BY <1>1 DEF Begin, FirstSwitched, Fill, FillDone, Launch, Loop, Read,
              WaitPeriod, Write, AudioNext, alsaVars
<1>2. CASE InputDone \/ Switched \/ Output \/ OutputDone \/ Recover
           \/ Reprepare \/ ReprepareCapture
  BY <1>2 DEF InputDone, Switched, Output, OutputDone, Recover, Reprepare,
              ReprepareCapture, Write, AudioNext, alsaVars
<1>3. CASE StartStreams \/ StartStreamsPlayback
  BY <1>3, StartOutcomes DEF AudioNext
<1> QED
  BY <1>1, <1>2, <1>3 DEF AudioNext

\* Both sides agree on capture while there is a thread.
LEMMA PairFacts ==
  ASSUME IInv, SetupInv, apc # "none"
  PROVE  /\ capture_active = capture_enabled
         /\ linked => capture_enabled
         /\ linked => pcm["playback"] = pcm["capture"]
         /\ state = "Running"
BY DEF IInv, Life, SetupInv, Configuration, AlsaInv, LinkedAgree

\* A call that failed found its stream stopped.
LEMMA FaultedNext ==
  IInv /\ SetupInv /\ Faulted /\ [Next]_vars => Faulted'
<1> SUFFICES ASSUME IInv, SetupInv, Faulted, [Next]_vars PROVE Faulted'
  OBVIOUS
<1> USE DEF Faulted, Stopped, SplitCapture
<1>1. CASE AwayFromThread \/ UNCHANGED vars
  <2>1. UNCHANGED <<apc, ar>>
    BY <1>1, AwayKeeps DEF threadVars, vars
  <2>2. CASE apc = "none"
    BY <2>1, <2>2
  <2>3. CASE apc # "none"
    <3>1. UNCHANGED <<linked, capture_enabled>>
      BY <1>1, <2>3 DEF IInv, Life, AwayFromThread, NewDriver, InitDriver,
         InitAlsa, CreateBuffersInvalid, CreateBuffers, DisposePrepared,
         Destroy, RequestStop, DropBackend, DropBackendCapture, HardwareNext,
         Hardware, Tick, Suspend, DeviceLost, vars, alsaVars
    <3>2. CASE StartStreams \/ StartStreamsPlayback
      BY <2>1, <3>2, StartOutcomes DEF Starting
    <3>3. CASE ~StartStreams /\ ~StartStreamsPlayback
      <4>1. NothingStarts
        BY <3>3, OnlyStartsStart
      <4> QED
        BY <2>1, <3>1, <4>1 DEF NothingStarts, Streams
    <3> QED
      BY <3>2, <3>3
  <2> QED
    BY <2>2, <2>3
<1>2. CASE StartPrepare \/ StartPrepareCapture
  BY <1>2, StartFacts
<1>3. CASE Join
  BY <1>3 DEF Join
<1>4. CASE AudioNext
  <2>1. UNCHANGED <<linked, capture_enabled, lifeVars>> /\ apc # "none"
    BY <1>4, PairKept
    DEF AudioNext, Begin, FirstSwitched, Fill, FillDone, Launch, Loop, Read,
        WaitPeriod, InputDone, Switched, Output, OutputDone, Recover,
        Reprepare, ReprepareCapture, StartStreams, StartStreamsPlayback
  <2>2. /\ capture_active = capture_enabled
        /\ linked => pcm["playback"] = pcm["capture"]
    BY <2>1, PairFacts
  <2>3. CASE Read
    BY <2>1, <2>2, <2>3 DEF Read, Transferring, Goto
  <2>4. CASE WaitPeriod
    BY <2>1, <2>2, <2>4
    DEF WaitPeriod, WaitResults, Transferring, Goto, alsaVars
  <2>5. CASE Fill \/ Output
    BY <2>1, <2>5 DEF Fill, Output, Write, Transferring, Goto
  <2>6. CASE InputDone \/ OutputDone \/ Recover
    BY <2>1, <2>6 DEF InputDone, OutputDone, Recover, Goto, Exit, alsaVars
  <2>7. CASE Begin \/ FirstSwitched \/ FillDone \/ Launch \/ Loop \/ Switched
    BY <2>7 DEF Begin, FirstSwitched, FillDone, Launch, Loop, Switched, Goto,
                Exit
  <2>8. CASE Reprepare \/ ReprepareCapture
    BY <2>8 DEF Reprepare, ReprepareCapture, Reprepared, Goto, Exit
  <2>9. CASE StartStreams \/ StartStreamsPlayback
    BY <2>9, StartOutcomes
  <2> QED
    BY <1>4, <2>3, <2>4, <2>5, <2>6, <2>7, <2>8, <2>9 DEF AudioNext
<1> QED
  BY <1>1, <1>2, <1>3, <1>4 DEF Next, HostCalls, HostInCall, AwayFromThread

\* A stream that stops loses what it held.
LEMMA EnterEmpties ==
  ASSUME AlsaInv, CaptureEmpty, NEW s \in Streams, NEW st \in PcmStates,
         Enter(s, st)
  PROVE  CaptureEmpty'
BY DEF Enter, CaptureEmpty, Streams, AlsaInv, AlsaTypeOK

\* Frames that have been captured belong to a stream that runs.
LEMMA CaptureEmptyNext == IInv /\ CaptureEmpty /\ [Next]_vars => CaptureEmpty'
<1> SUFFICES ASSUME IInv, CaptureEmpty, [Next]_vars PROVE CaptureEmpty'
  OBVIOUS
<1>1. AlsaInv
  BY DEF IInv
<1>2. {"prepared", "setup", "xrun", "suspended", "gone"} \subseteq PcmStates
  BY DEF PcmStates
<1>3. ASSUME UNCHANGED pcmVars PROVE CaptureEmpty'
  BY <1>3 DEF pcmVars, CaptureEmpty
<1>4. ASSUME NEW s \in Streams, NEW ok \in BOOLEAN, PcmPrepare(s, ok)
      PROVE  CaptureEmpty'
  BY <1>1, <1>2, <1>3, <1>4, EnterEmpties DEF PcmPrepare
<1>5. ASSUME NEW s \in Streams, PcmDrop(s) PROVE CaptureEmpty'
  BY <1>1, <1>2, <1>3, <1>5, EnterEmpties DEF PcmDrop
<1>6. ASSUME NEW s \in Streams, NEW ok \in BOOLEAN, PcmStart(s, ok)
      PROVE  CaptureEmpty'
  <2>1. CASE ok
    BY <1>6, <2>1 DEF PcmStart, CaptureEmpty, Streams
  <2> QED
    BY <1>3, <1>6, <2>1 DEF PcmStart
<1>7. CASE AudioNext
  <2>1. CASE Fill \/ Output
    BY <1>1, <2>1 DEF Fill, Output, Write, CaptureEmpty, AlsaInv, AlsaTypeOK,
                      Streams
  <2>2. CASE Read
    BY <1>1, <2>2 DEF Read, Readable, CaptureEmpty
  <2>3. CASE StartStreams \/ StartStreamsPlayback
    BY <1>6, <2>3 DEF StartStreams, StartStreamsPlayback, StartCapture,
                      StartPlayback, Streams
  <2>4. CASE Reprepare \/ ReprepareCapture
    BY <1>4, <2>4 DEF Reprepare, ReprepareCapture, PreparePlayback,
                      PrepareCapture, Streams
  <2>5. CASE Begin \/ FirstSwitched \/ FillDone \/ Launch \/ Loop
             \/ WaitPeriod \/ InputDone \/ Switched \/ OutputDone \/ Recover
    BY <1>3, <2>5
    DEF Begin, FirstSwitched, FillDone, Launch, Loop, WaitPeriod, InputDone,
        Switched, OutputDone, Recover, alsaVars, pcmVars
  <2> QED
    BY <1>7, <2>1, <2>2, <2>3, <2>4, <2>5 DEF AudioNext
<1>8. CASE HardwareNext
  <2>1. PICK s \in Streams : Tick(s) \/ Suspend(s) \/ DeviceLost(s)
    BY <1>8 DEF HardwareNext, Hardware
  <2>2. CASE Suspend(s) \/ DeviceLost(s)
    BY <1>1, <1>2, <2>2, EnterEmpties DEF Suspend, DeviceLost
  <2>3. CASE Tick(s) /\ \E t \in Group(s) : Starved(t)
    BY <1>1, <1>2, <2>3, EnterEmpties DEF Tick
  <2>4. CASE Tick(s) /\ ~ \E t \in Group(s) : Starved(t)
    BY <1>1, <2>4 DEF Tick, CaptureEmpty, Group, Streams, AlsaInv, LinkedAgree
  <2> QED
    BY <2>1, <2>2, <2>3, <2>4
<1>9. CASE StartPrepare \/ StartPrepareCapture
  BY <1>4, <1>9 DEF StartPrepare, StartPrepareCapture, PreparePlayback,
                    PrepareCapture, Streams
<1>10. CASE DropBackend \/ DropBackendCapture
  BY <1>5, <1>10 DEF DropBackend, DropBackendCapture, DropPlayback,
                     DropCapture, Streams
<1>11. CASE InitDriver \/ Destroy \/ Join
  BY <1>3, <1>11
  DEF InitDriver, InitAlsa, OpenControl, Destroy, Join, UninitAlsa,
      CaptureEmpty, Streams, alsaVars, pcmVars
<1>12. CASE CreateBuffers
  <2>1. fill' = fill
    BY <1>12 DEF CreateBuffers, SetBuffer
  <2>2. pcm["capture"] # "running"
    BY <1>12 DEF CreateBuffers, IInv, Life, Streams
  <2> QED
    BY <2>1, <2>2 DEF CaptureEmpty
<1>13. CASE NewDriver \/ CreateBuffersInvalid \/ DisposePrepared
            \/ RequestStop \/ UNCHANGED vars
  BY <1>3, <1>13
  DEF NewDriver, CreateBuffersInvalid, DisposePrepared, RequestStop, vars,
      alsaVars, pcmVars
<1> QED
  BY <1>7, <1>8, <1>9, <1>10, <1>11, <1>12, <1>13 DEF Next, HostCalls,
     HostInCall

\* The cycle, on top of the earlier invariants.
LEMMA CycleInit == Init => CycleInv
BY DEF Init, AlsaInit, CycleInv, Switching, Unstarted, Faulted, CaptureEmpty,
       Filling, Streams

THEOREM CycleInductive == Spec => [](IInv /\ SetupInv /\ CycleInv)
<1>1. Init => IInv /\ SetupInv /\ CycleInv
  BY InitIInv, SetupInit, CycleInit
<1>2. IInv /\ SetupInv /\ CycleInv /\ [Next]_vars =>
        (IInv /\ SetupInv /\ CycleInv)'
  BY NextIInv, SetupNext, SwitchingNext, UnstartedNext, FaultedNext,
     CaptureEmptyNext DEF CycleInv
<1> QED
  BY <1>1, <1>2, PTL DEF Spec

\* When recover_xrun prepares the streams, they have stopped, but for a pair
\* that is not linked.
THEOREM PreparesStoppedStreams == Spec => []RecoveryFindsStreamsStopped
<1>1. CycleInv => RecoveryFindsStreamsStopped
  BY DEF CycleInv, Faulted, Stopped, RecoveryFindsStreamsStopped
<1> QED
  BY <1>1, CycleInductive, PTL

----------------------------------------------------------------------------
(* Halves and position.                                                     *)

\* The wrap of sample_position keeps its place in a pair of halves.
LEMMA AdvancePlace ==
  ASSUME NEW n \in Nat, sample_position \in Nat, Advance(n)
  PROVE  sample_position' % (2 * Block) = (sample_position + n) % (2 * Block)
<1>1. /\ 2 * Block \in Nat \ {0} /\ PositionWrap \in Nat \ {0}
      /\ PositionWrap % (2 * Block) = 0
  BY BlockAssumption, Z3
<1>2. sample_position + n \in Nat
  OBVIOUS
<1> QED
  BY <1>1, <1>2, ModWrap DEF Advance

LEMMA InStepNext ==
  ASSUME EvenBlocks, IInv, Switching, InStep, [Next]_vars
  PROVE  InStep'
<1>1. /\ Block \in Nat \ {0} /\ Buffer \in Nat \ {0}
      /\ 2 * Block \in Nat \ {0}
  BY BlockAssumption, GeometryAssumption, Z3
<1>2. sample_position \in Nat /\ index \in 0..1 /\ lastHalf \in -1..1
  BY BlockAssumption DEF IInv, ThreadTypeOK
<1>3. ASSUME UNCHANGED <<lastHalf, sample_position>> PROVE InStep'
  BY <1>3 DEF InStep
<1>4. ASSUME lastHalf' = -1 PROVE InStep'
  BY <1>4 DEF InStep
<1>5. CASE Begin
  <2>1. 0 % (2 * Block) = 0
    BY <1>1, Z3
  <2> QED
    BY <1>1, <1>5, <2>1 DEF Begin, InStep
<1>6. CASE FillDone
  <2>1. CASE Advance(Buffer)
    <3>1. /\ sample_position' % (2 * Block) = (sample_position + Buffer) % (2 * Block)
      BY <1>1, <1>2, <2>1, AdvancePlace
    <3>2. (sample_position + Buffer) % (2 * Block) = sample_position % (2 * Block)
      BY <1>1, <1>2, ModShift DEF EvenBlocks
    <3> QED
      BY <1>6, <3>1, <3>2 DEF FillDone, InStep
  <2>2. CASE UNCHANGED sample_position
    BY <1>3, <1>6, <2>2 DEF FillDone
  <2> QED
    BY <1>6, <2>1, <2>2 DEF FillDone
<1>7. CASE InputDone
  <2>1. CASE UNCHANGED <<lastHalf, sample_position>>
    BY <1>3, <2>1
  <2>2. CASE Advance(Block) /\ lastHalf' = index
    <3>1. index = 1 - lastHalf /\ lastHalf # -1
      BY <1>7 DEF InputDone, Switching
    <3>2. lastHalf \in {0, 1} /\ sample_position % (2 * Block) = lastHalf * Block
      BY <1>2, <3>1 DEF InStep
    <3>3. (sample_position + Block) % (2 * Block) = (1 - lastHalf) * Block
      BY <1>1, <1>2, <3>2, HalfOf
    <3>4. sample_position' % (2 * Block) = (sample_position + Block) % (2 * Block)
      BY <1>1, <1>2, <2>2, AdvancePlace
    <3> QED
      BY <2>2, <3>1, <3>3, <3>4 DEF InStep
  <2> QED
    BY <1>7, <2>1, <2>2 DEF InputDone
<1>8. CASE Destroy
  BY <1>4, <1>8 DEF Destroy, threadVars, Switching, IInv, Life
<1>9. CASE Join
  BY <1>4, <1>9 DEF Join
<1>10. CASE HostCalls /\ ~Destroy
  BY <1>3, <1>10
  DEF HostCalls, NewDriver, InitDriver, CreateBuffersInvalid, CreateBuffers,
      DisposePrepared, StartPrepare, RequestStop, ThreadIdle, threadVars
<1>11. CASE StartPrepareCapture \/ DropBackend \/ DropBackendCapture
            \/ HardwareNext \/ UNCHANGED vars
  BY <1>3, <1>11
  DEF StartPrepareCapture, DropBackend, DropBackendCapture, HardwareNext,
      threadVars, vars
<1>12. CASE FirstSwitched \/ Fill \/ Launch \/ Loop \/ Read \/ WaitPeriod
            \/ Switched \/ Output \/ OutputDone \/ Recover \/ Reprepare
            \/ ReprepareCapture
  BY <1>3, <1>12
  DEF FirstSwitched, Fill, Launch, Loop, Read, WaitPeriod, Switched, Output,
      OutputDone, Recover, Reprepare, ReprepareCapture, Write
<1>13. CASE StartStreams \/ StartStreamsPlayback
  BY <1>3, <1>13, StartOutcomes
<1> QED
  BY <1>5, <1>6, <1>7, <1>8, <1>9, <1>10, <1>11, <1>12, <1>13
  DEF Next, AudioNext, HostInCall

\* A host that computes the half from getSamplePosition gets the one the last
\* bufferSwitch named: through every recovery and every wrap.
THEOREM HalfAndPosition == ASSUME EvenBlocks PROVE Spec => []HalfMatchesPosition
<1>1. Init => InStep
  BY DEF Init, InStep
<1>2. IInv /\ CycleInv /\ InStep /\ [Next]_vars => InStep'
  BY InStepNext DEF CycleInv
<1>3. IInv /\ InStep => HalfMatchesPosition
  <2> SUFFICES ASSUME IInv, InStep, lastHalf # -1
               PROVE  (sample_position \div Block) % 2 = lastHalf
    BY DEF HalfMatchesPosition
  <2>1. sample_position \in Nat /\ lastHalf \in {0, 1} /\ Block \in Nat \ {0}
    BY BlockAssumption DEF IInv, ThreadTypeOK
  <2> QED
    BY <2>1, HalfOf DEF InStep
<1> QED
  BY <1>1, <1>2, <1>3, CycleInductive, PTL DEF Spec

----------------------------------------------------------------------------
(* The contract: every step is one of AsioContract's, or none.              *)

Sounding == pcm["playback"] = "running"
ContractStep == [Contract!Next]_(Contract!contractVars)

\* A step the host does not see, or that ends the sound.
LEMMA UnseenStep ==
  ASSUME UNCHANGED <<state, lastHalf, sample_position>>,
         Accounted' <=> Accounted, Sounding' => Sounding
  PROVE  ContractStep
<1>1. CASE Sounding' <=> Sounding
  BY <1>1 DEF ContractStep, Contract!contractVars, Sounding, Accounted
<1>2. CASE Sounding /\ ~Sounding'
  <2>1. Contract!Hush
    BY <1>2 DEF Contract!Hush, Sounding, Accounted
  <2> QED
    BY <2>1 DEF ContractStep, Contract!Next
<1> QED
  BY <1>1, <1>2

\* The thread ends, perhaps before the streams have started.
LEMMA GivingUp ==
  ASSUME UNCHANGED <<state, lastHalf, sample_position, pcm>>, ~Accounted'
  PROVE  ContractStep
<1>1. CASE Accounted
  <2>1. Contract!GiveUp
    BY <1>1 DEF Contract!GiveUp, Accounted
  <2> QED
    BY <2>1 DEF ContractStep, Contract!Next
<1>2. CASE ~Accounted
  BY <1>2, UnseenStep DEF Sounding
<1> QED
  BY <1>1, <1>2

\* A change of phase outside any run.
LEMMA PhaseStep ==
  ASSUME <<state, state'>> \in Contract!Lifecycle, ~Sounding, ~Sounding',
         lastHalf' = -1, ~Accounted', sample_position' \in {0, sample_position}
  PROVE  ContractStep
<1>1. Contract!ChangePhase
  BY DEF Contract!ChangePhase, Sounding, Accounted
<1> QED
  BY <1>1 DEF ContractStep, Contract!Next

\* The audio thread.
LEMMA AudioContract ==
  ASSUME IInv, CycleInv, AudioNext
  PROVE  ContractStep
<1> USE DEF CycleInv
<1>1. state = "Running" /\ state' = state
  <2>1. apc # "none"
    BY DEF AudioNext, Begin, FirstSwitched, Fill, FillDone, Launch, Loop, Read,
           WaitPeriod, InputDone, Switched, Output, OutputDone, Recover,
           Reprepare, ReprepareCapture, StartStreams, StartStreamsPlayback
  <2> QED
    BY <2>1, PairKept DEF IInv, Life, lifeVars
<1>2. CASE Begin
  <2>1. Contract!FirstSwitch
    BY <1>1, <1>2
    DEF Begin, Goto, Contract!FirstSwitch, Accounted, Switching, Unstarted,
        alsaVars
  <2> QED
    BY <2>1 DEF ContractStep, Contract!Next
<1>3. CASE FirstSwitched
  <2>1. UNCHANGED <<state, lastHalf, sample_position, pcm, recovering>>
    BY <1>1, <1>3 DEF FirstSwitched, alsaVars
  <2>2. CASE apc' = "exited"
    BY <2>1, <2>2, GivingUp DEF Accounted
  <2>3. CASE apc' = "fill"
    BY <1>3, <2>1, <2>3, UnseenStep DEF FirstSwitched, Accounted, Sounding
  <2> QED
    BY <1>3, <2>2, <2>3 DEF FirstSwitched, Goto, Exit
<1>4. CASE Fill
  BY <1>1, <1>4, UnseenStep DEF Fill, Write, Goto, Accounted, Sounding
<1>5. CASE FillDone
  <2>1. UNCHANGED <<state, lastHalf, pcm, recovering>> /\ apc = "fillDone"
    BY <1>1, <1>5 DEF FillDone, alsaVars
  <2>2. CASE apc' = "exited" /\ UNCHANGED sample_position
    BY <2>1, <2>2, GivingUp DEF Accounted
  <2>3. CASE apc' \in {"fill", "launch"} /\ UNCHANGED sample_position
             /\ (apc' = "launch" => ~recovering)
    BY <2>1, <2>3, UnseenStep DEF Accounted, Sounding
  <2>4. CASE apc' = "launch" /\ recovering /\ Advance(Buffer)
    <3>1. ~Accounted /\ Accounted'
      BY <2>1, <2>4 DEF Accounted
    <3>2. lastHalf # -1 /\ pcm["playback"] # "running"
      BY <2>1 DEF Switching, Unstarted, Filling
    <3>3. Contract!Skip
      BY <1>1, <2>1, <2>4, <3>1, <3>2 DEF Contract!Skip, Advance
    <3> QED
      BY <3>3 DEF ContractStep, Contract!Next
  <2> QED
    BY <1>5, <2>2, <2>3, <2>4 DEF FillDone, Goto, Exit
<1>6. CASE Launch
  <2>1. UNCHANGED <<state, lastHalf, sample_position, pcm>> /\ apc = "launch"
    BY <1>1, <1>6 DEF Launch, alsaVars
  <2>2. CASE apc' = "exited"
    BY <2>1, <2>2, GivingUp DEF Accounted
  <2>3. CASE apc' = "starting"
    BY <2>1, <2>3, UnseenStep DEF Accounted, Sounding
  <2> QED
    BY <1>6, <2>2, <2>3 DEF Launch, Goto, Exit
<1>7. CASE StartStreams \/ StartStreamsPlayback
  <2>1. /\ apc \in Starting /\ Accounted
        /\ UNCHANGED <<state, lastHalf, sample_position>>
    BY <1>1, <1>7, StartOutcomes DEF Starting, Accounted
  <2>2. CASE apc' = "startingPlayback" /\ SplitCapture /\ StartCapture(TRUE)
    <3>1. pcm'["playback"] = pcm["playback"]
      BY <2>2 DEF StartCapture, PcmStart, Group, SplitCapture, Streams
    <3> QED
      BY <2>1, <2>2, <3>1, UnseenStep DEF Accounted, Sounding
  <2>3. CASE apc' = "exited" /\ UNCHANGED pcm
    BY <2>1, <2>3, GivingUp DEF Accounted
  <2>4. CASE apc' = "loop" /\ StartPlayback(TRUE)
    <3>1. pcm["playback"] # "running" /\ pcm'["playback"] = "running"
      BY <2>4 DEF StartPlayback, PcmStart, Group, Streams
    <3>2. ~Accounted'
      BY <2>4 DEF Accounted
    <3>3. Contract!Sound
      BY <1>1, <2>1, <3>1, <3>2 DEF Contract!Sound
    <3> QED
      BY <3>3 DEF ContractStep, Contract!Next
  <2> QED
    BY <1>7, <2>2, <2>3, <2>4, StartOutcomes
<1>8. CASE InputDone
  <2>1. UNCHANGED <<state, pcm>> /\ apc = "inputDone"
    BY <1>1, <1>8 DEF InputDone, alsaVars
  <2>2. CASE /\ apc' \in {"recover", "exited"}
             /\ UNCHANGED <<lastHalf, sample_position>>
    BY <2>1, <2>2, UnseenStep DEF Accounted, Sounding
  <2>3. CASE apc' = "switch" /\ Advance(Block) /\ lastHalf' = index
    <3>1. lastHalf # -1 /\ lastHalf' = 1 - lastHalf
      BY <2>1, <2>3 DEF Switching
    <3>2. ~Accounted /\ ~Accounted'
      BY <2>1, <2>3 DEF Accounted
    <3>3. Contract!Switch
      BY <1>1, <2>1, <2>3, <3>1, <3>2 DEF Contract!Switch, Advance, Accounted
    <3> QED
      BY <3>3 DEF ContractStep, Contract!Next
  <2> QED
    BY <1>8, <2>2, <2>3 DEF InputDone, Goto, Exit
<1>9. CASE Loop \/ Read \/ WaitPeriod \/ Switched \/ Output \/ OutputDone
           \/ Recover
  <2>1. UNCHANGED <<state, lastHalf, sample_position, pcm>>
    BY <1>1, <1>9
    DEF Loop, Read, WaitPeriod, Switched, Output, OutputDone, Recover, Write,
        alsaVars
  <2>2. ~Accounted /\ ~Accounted'
    BY <1>9
    DEF Loop, Read, WaitPeriod, Switched, Output, OutputDone, Recover, Write,
        Goto, Exit, Accounted
  <2> QED
    BY <2>1, <2>2, UnseenStep DEF Sounding
<1>10. CASE Reprepare \/ ReprepareCapture
  <2>1. UNCHANGED <<state, lastHalf, sample_position>>
    BY <1>1, <1>10 DEF Reprepare, ReprepareCapture
  <2>2. ~Accounted /\ ~Accounted'
    BY <1>10 DEF Reprepare, ReprepareCapture, Reprepared, Goto, Exit, Accounted,
                 Switching
  <2>3. NothingStarts
    BY <1>10, OnlyStartsStart
    DEF Next, AudioNext, Reprepare, ReprepareCapture, StartStreams,
        StartStreamsPlayback
  <2> QED
    BY <2>1, <2>2, <2>3, UnseenStep DEF Sounding, NothingStarts, Streams
<1> QED
  BY <1>2, <1>3, <1>4, <1>5, <1>6, <1>7, <1>8, <1>9, <1>10 DEF AudioNext

\* The host thread and the device.
LEMMA HostContract ==
  ASSUME IInv, IInv', CycleInv, HostCalls \/ HostInCall
  PROVE  ContractStep
<1> USE DEF CycleInv
<1>1. ASSUME apc = "none" PROVE lastHalf = -1 /\ ~Accounted /\ ~Sounding
  BY <1>1 DEF IInv, Life, Switching, Accounted, Sounding, Streams
<1>2. ASSUME state' # "Running" PROVE ~Accounted' /\ ~Sounding'
  BY <1>2 DEF IInv, Life, Accounted, Sounding, Streams
<1>3. CASE NewDriver \/ InitDriver \/ CreateBuffers \/ DisposePrepared
           \/ Destroy \/ CreateBuffersInvalid
  <2>1. UNCHANGED threadVars /\ sample_position' \in {0, sample_position}
    BY <1>3, AwayKeeps
    DEF AwayFromThread, NewDriver, InitDriver, CreateBuffers, DisposePrepared,
        Destroy, CreateBuffersInvalid, ThreadIdle, NoObject
  <2>2. /\ state # "Running" /\ state' # "Running"
        /\ \/ <<state, state'>> \in Contract!Lifecycle
           \/ UNCHANGED <<state, sample_position>>
    BY <1>3
    DEF NewDriver, InitDriver, InitAlsa, CreateBuffers, DisposePrepared,
        ReleaseBuffers, Destroy, CreateBuffersInvalid, ThreadIdle, NoObject,
        IInv, Life, HostTypeOK, LifeStates, Contract!Lifecycle
  <2>3. apc = "none" /\ lastHalf' = lastHalf
    BY <2>1, <2>2 DEF IInv, Life, threadVars
  <2>4. /\ lastHalf = -1 /\ ~Accounted /\ ~Sounding
        /\ ~Accounted' /\ ~Sounding'
    BY <1>1, <1>2, <2>2, <2>3
  <2> QED
    BY <2>1, <2>2, <2>3, <2>4, PhaseStep, UnseenStep
<1>4. CASE StartPrepare \/ StartPrepareCapture
  <2>1. /\ state = "Prepared" /\ UNCHANGED <<lastHalf, sample_position>>
        /\ lastHalf = -1 /\ ~Accounted /\ ~Sounding
        /\ apc' \in {"none", "begin"} /\ ~Sounding'
        /\ state' \in {state, "Running"}
    BY <1>1, <1>4, StartFacts DEF Sounding, Streams
  <2>2. ~Accounted'
    BY <2>1 DEF Accounted
  <2>3. CASE state' = "Running"
    <3>1. <<state, state'>> \in Contract!Lifecycle
      BY <2>1, <2>3 DEF Contract!Lifecycle
    <3> QED
      BY <2>1, <2>2, <3>1, PhaseStep
  <2>4. CASE state' = state
    BY <2>1, <2>2, <2>4, UnseenStep
  <2> QED
    BY <2>1, <2>3, <2>4
<1>5. CASE RequestStop \/ DropBackend \/ DropBackendCapture
  <2>1. UNCHANGED <<state, threadVars, sample_position>>
    BY <1>5 DEF RequestStop, DropBackend, DropBackendCapture, lifeVars
  <2>2. NothingStarts
    <3>1. apc' = apc
      BY <2>1 DEF threadVars
    <3>2. ~StartStreams /\ ~StartStreamsPlayback
      BY <1>5, <3>1 DEF StartStreams, StartStreamsPlayback, Launched, Goto,
                        Exit, RequestStop, DropBackend, DropBackendCapture
    <3> QED
      BY <1>5, <3>2, OnlyStartsStart DEF Next, HostCalls, HostInCall
  <2> QED
    BY <2>1, <2>2, UnseenStep
    DEF threadVars, Accounted, Sounding, NothingStarts, Streams
<1>6. CASE Join
  <2>1. /\ state = "Running" /\ ~Sounding
        /\ lastHalf' = -1 /\ apc' = "none"
        /\ state' \in {"Prepared", "Initialized", "Deleted"}
        /\ sample_position' \in {0, sample_position}
    BY <1>6 DEF Join, ReleaseBuffers, NoObject, IInv, HostInside, Dropped,
                Sounding, Streams
  <2>2. ~Accounted' /\ ~Sounding'
    BY <1>2, <2>1
  <2>3. <<state, state'>> \in Contract!Lifecycle
    BY <2>1 DEF Contract!Lifecycle
  <2> QED
    BY <2>1, <2>2, <2>3, PhaseStep
<1> QED
  BY <1>3, <1>4, <1>5, <1>6 DEF HostCalls, HostInCall

\* The driver keeps the contract of AsioContract, for all sizes and wraps: in
\* every interleaving of host, audio thread and device.
THEOREM ImplementsContract == Spec => KeepsContract
<1>1. Init => Contract!Init
  BY DEF Init, AlsaInit, Contract!Init, Accounted, Streams
<1>2. IInv /\ CycleInv /\ IInv' /\ [Next]_vars => ContractStep
  <2> SUFFICES ASSUME IInv, CycleInv, IInv', [Next]_vars PROVE ContractStep
    OBVIOUS
  <2>1. CASE HardwareNext
    <3>1. UNCHANGED <<state, threadVars, sample_position>>
      BY <2>1 DEF HardwareNext, lifeVars
    <3>2. NothingStarts
      BY <2>1, HardwareSettles DEF HardwareNext, IInv, Settled
    <3> QED
      BY <3>1, <3>2, UnseenStep
      DEF threadVars, Accounted, Sounding, NothingStarts, Streams
  <2>2. CASE UNCHANGED vars
    BY <2>2, UnseenStep
    DEF vars, lifeVars, threadVars, alsaVars, Accounted, Sounding
  <2> QED
    BY <2>1, <2>2, AudioContract, HostContract DEF Next
<1> QED
  BY <1>1, <1>2, CycleInductive, PTL
  DEF Spec, KeepsContract, Contract!Spec, ContractStep

----------------------------------------------------------------------------
(* The prefill.                                                             *)

\* The step does not prepare the playback stream or move its frames, or it
\* ends that state.
PlaybackStays ==
  pcm'["playback"] = "prepared" =>
    pcm["playback"] = "prepared" /\ fill'["playback"] = fill["playback"]

\* Stopping it ends that state; so does nothing else of a stop or a device.
LEMMA HardwareStays ==
  ASSUME AlsaInv, HardwareNext \/ DropBackend \/ DropBackendCapture
  PROVE  PlaybackStays
<1> USE DEF PlaybackStays
<1>1. ASSUME NEW s \in Streams, NEW st, st # "prepared", Enter(s, st)
      PROVE  PlaybackStays
  BY <1>1 DEF Enter, Streams
<1>2. CASE DropBackend \/ DropBackendCapture
  BY <1>1, <1>2 DEF DropBackend, DropBackendCapture, DropPlayback, DropCapture,
                    PcmDrop, Streams, pcmVars
<1>3. CASE HardwareNext
  <2>1. PICK s \in Streams : Tick(s) \/ Suspend(s) \/ DeviceLost(s)
    BY <1>3 DEF HardwareNext, Hardware
  <2>2. CASE Suspend(s) \/ DeviceLost(s)
    BY <1>1, <2>2 DEF Suspend, DeviceLost
  <2>3. CASE Tick(s) /\ \E t \in Group(s) : Starved(t)
    BY <1>1, <2>3 DEF Tick
  <2>4. CASE Tick(s) /\ ~ \E t \in Group(s) : Starved(t)
    BY <2>4 DEF Tick, Group, Streams, AlsaInv, LinkedAgree
  <2> QED
    BY <2>1, <2>2, <2>3, <2>4
<1> QED
  BY <1>2, <1>3

\* snd_pcm_prepare on playback empties it; on capture it leaves it alone or,
\* when the two are linked, empties it too.
LEMMA PrepareStays ==
  ASSUME NEW ok \in BOOLEAN
  PROVE  /\ PcmPrepare("capture", ok) =>
              PlaybackStays \/ fill'["playback"] = 0
         /\ PcmPrepare("playback", TRUE) => fill'["playback"] = 0
         /\ PcmPrepare("playback", FALSE) => PlaybackStays
BY DEF PcmPrepare, Enter, Group, Streams, PlaybackStays, pcmVars

\* Blocks and frames of the prefills.
LEMMA BlockCounts ==
  /\ Block \in Nat \ {0} /\ Buffer \in Nat \ {0} /\ FirstBlocks = 2
  /\ RecoveryBlocks \in Nat /\ RecoveryBlocks * Block = Buffer
  /\ \A b \in Nat : b * Block \in Nat /\ b * Block = Block + (b - 1) * Block
<1>1. Block \in Nat \ {0} /\ Buffer \in Nat \ {0} /\ Buffer % Block = 0
  BY BlockAssumption, GeometryAssumption
<1>2. RecoveryBlocks \in Nat /\ RecoveryBlocks * Block = Buffer
  BY <1>1, DivMod DEF RecoveryBlocks
<1>3. \A b \in Nat : b * Block \in Nat /\ b * Block = Block + (b - 1) * Block
  BY <1>1, Z3
<1> QED
  BY <1>1, <1>2, <1>3 DEF FirstBlocks

\* A buffer of whole pairs of halves has room for one.
LEMMA PairFits ==
  ASSUME EvenBlocks
  PROVE  2 * Block <= Buffer
<1> DEFINE m == 2 * Block
           d == Buffer \div m
<1>1. m \in Nat \ {0} /\ Buffer \in Nat \ {0} /\ Buffer % m = 0
  BY BlockAssumption, GeometryAssumption DEF EvenBlocks
<1> HIDE DEF m
<1>2. d \in Nat /\ Buffer = d * m + 0
  BY <1>1, DivMod
<1> HIDE DEF d
<1>3. CASE d = 0
  BY <1>1, <1>2, <1>3
<1>4. CASE d - 1 \in Nat
  <2>1. d * m = (d - 1) * m + m /\ (d - 1) * m >= 0
    BY <1>1, <1>2, <1>4, Z3
  <2> QED
    BY <1>1, <1>2, <2>1 DEF m
<1> QED
  BY <1>2, <1>3, <1>4

\* Every block of a prefill is accounted for until the streams start.
LEMMA PrefilledNext ==
  IInv /\ Switching /\ Unstarted /\ Prefilled /\ [Next]_vars => Prefilled'
<1> SUFFICES ASSUME IInv, Switching, Unstarted, Prefilled, [Next]_vars
             PROVE  Prefilled'
  OBVIOUS
<1>1. /\ AlsaInv /\ rem \in 0..Block /\ fill["playback"] \in 0..Buffer
      /\ blocks \in Nat
  BY BlockCounts DEF IInv, AlsaInv, AlsaTypeOK, ThreadTypeOK, Streams
<1>2. ASSUME PlaybackStays, UNCHANGED <<hpc, apc, rem, blocks, ar, recovering>>
      PROVE  Prefilled'
  BY <1>2 DEF Prefilled, PlaybackStays, Target
<1>3. ASSUME apc' \notin Filling \cup {"begin", "reprepareCapture"},
             hpc' # "preparing"
      PROVE  Prefilled'
  BY <1>3 DEF Prefilled, Filling
<1>4. ASSUME UNCHANGED alsaVars
      PROVE  PlaybackStays
  BY <1>4 DEF PlaybackStays, alsaVars
<1>5. CASE NewDriver \/ InitDriver \/ CreateBuffersInvalid \/ CreateBuffers
           \/ DisposePrepared \/ Destroy \/ Join
  <2>1. apc' = "none" /\ hpc' # "preparing"
    <3>1. CASE Join
      BY <3>1 DEF Join
    <3>2. CASE ~Join
      <4>1. UNCHANGED <<apc, hpc>> /\ hpc = "idle"
        BY <1>5, <3>2, AwayKeeps
        DEF AwayFromThread, NewDriver, InitDriver, CreateBuffersInvalid,
            CreateBuffers, DisposePrepared, Destroy, hostVars, threadVars
      <4>2. state # "Running"
        BY <1>5, <3>2
        DEF NewDriver, InitDriver, InitAlsa, CreateBuffersInvalid,
            CreateBuffers, DisposePrepared, Destroy, IInv, Life
      <4> QED
        BY <4>1, <4>2 DEF IInv, Life
    <3> QED
      BY <3>1, <3>2
  <2> QED
    BY <1>3, <2>1 DEF Filling
<1>6. CASE HardwareNext \/ UNCHANGED vars
  <2>1. UNCHANGED <<hpc, apc, rem, blocks, ar, recovering>>
    BY <1>6 DEF HardwareNext, hostVars, threadVars, vars
  <2>2. PlaybackStays
    BY <1>1, <1>4, <1>6, HardwareStays DEF vars
  <2> QED
    BY <1>2, <2>1, <2>2
<1>7. CASE RequestStop \/ DropBackend \/ DropBackendCapture
  <2>1. /\ UNCHANGED <<apc, rem, blocks, ar, recovering>>
        /\ hpc' # "preparing"
    BY <1>7 DEF RequestStop, DropBackend, DropBackendCapture, threadVars
  <2>2. PlaybackStays
    BY <1>1, <1>4, <1>7, HardwareStays DEF RequestStop
  <2> QED
    BY <2>1, <2>2 DEF Prefilled, PlaybackStays, Target
<1>8. CASE StartPrepare
  <2>1. fill'["playback"] = 0
    BY <1>8, PrepareStays DEF StartPrepare, PreparePlayback
  <2>2. apc' \in {"none", "begin"}
    BY <1>8, StartFacts
  <2> QED
    BY <2>1, <2>2 DEF Prefilled
<1>9. CASE StartPrepareCapture
  <2>1. PlaybackStays \/ fill'["playback"] = 0
    BY <1>9, PrepareStays DEF StartPrepareCapture, PrepareCapture
  <2>2. apc' \in {"none", "begin"} /\ hpc = "preparing"
    BY <1>9, StartFacts DEF StartPrepareCapture
  <2> QED
    BY <2>1, <2>2 DEF Prefilled, PlaybackStays
<1>10. CASE AudioNext
  <2>1. UNCHANGED hpc /\ hpc # "preparing"
    BY <1>10, PairKept
    DEF hostVars, IInv, HostInside, Life, AudioNext, Begin, FirstSwitched,
        Fill, FillDone, Launch, Loop, Read, WaitPeriod, InputDone, Switched,
        Output, OutputDone, Recover, Reprepare, ReprepareCapture,
        StartStreams, StartStreamsPlayback
  <2>2. CASE Begin
    BY <2>1, <2>2 DEF Begin, Goto, Prefilled, alsaVars
  <2>3. CASE FirstSwitched
    <3>1. CASE apc' = "exited"
      BY <1>3, <2>1, <3>1 DEF Filling
    <3>2. CASE apc' = "fill" /\ rem' = Block /\ blocks' = FirstBlocks
      <4>1. ~recovering /\ recovering' = recovering /\ UNCHANGED <<pcm, fill>>
        BY <2>3 DEF FirstSwitched, Switching, alsaVars
      <4>2. pcm["playback"] = "prepared" => fill["playback"] = 0
        BY <2>3 DEF FirstSwitched, Prefilled
      <4>3. 0 + Block + (2 - 1) * Block = 2 * Block
        BY BlockCounts
      <4> QED
        BY <2>1, <3>2, <4>1, <4>2, <4>3, BlockCounts DEF Prefilled, Target
    <3> QED
      BY <2>3, <3>1, <3>2 DEF FirstSwitched, Goto, Exit
  <2>4. CASE Fill
    <3>1. UNCHANGED <<pcm, recovering>> /\ apc = "fill"
      BY <2>4 DEF Fill, Write
    <3>2. CASE ~Writable
      <4>1. pcm["playback"] # "prepared"
        BY <2>4, <3>2 DEF Fill, Write, Transferring
      <4> QED
        BY <3>1, <4>1 DEF Prefilled
    <3>3. CASE Writable
      <4> DEFINE n == WriteChunk(rem)
      <4>1. n \in 0..rem
        BY <1>1, BlockCounts DEF WriteChunk, Least
      <4>2. /\ fill'["playback"] = fill["playback"] + n
            /\ rem' = rem - n
            /\ \/ n = rem /\ apc' = "fillDone" /\ blocks' = blocks - 1
               \/ n # rem /\ apc' = "fill" /\ blocks' = blocks
        BY <1>1, <2>4, <3>1, <3>3
        DEF Fill, Write, Goto, AlsaInv, AlsaTypeOK, Streams
      <4> HIDE DEF n
      <4>3. pcm["playback"] = "prepared" =>
              fill["playback"] + rem + (blocks - 1) * Block = Target
        BY <3>1 DEF Prefilled
      <4>4. Target' = Target /\ (blocks - 1) * Block \in Int
        BY <1>1, <3>1, BlockCounts DEF Target
      <4>5. rem \in Int /\ fill["playback"] \in Int /\ Target \in Int
        BY <1>1, BlockCounts DEF Target
      <4> QED
        BY <2>1, <3>1, <4>1, <4>2, <4>3, <4>4, <4>5 DEF Prefilled
    <3> QED
      BY <3>2, <3>3
  <2>5. CASE FillDone
    <3>1. UNCHANGED <<pcm, fill, blocks, ar, recovering>> /\ apc = "fillDone"
      BY <2>5 DEF FillDone, alsaVars
    <3>2. CASE apc' = "exited"
      BY <1>3, <2>1, <3>2 DEF Filling
    <3>3. ASSUME ar = "ok", pcm["playback"] = "prepared"
          PROVE  fill["playback"] + blocks * Block = Target /\ Target' = Target
      BY <3>1, <3>3 DEF Prefilled, Target
    <3>4. CASE apc' = "fill" /\ rem' = Block /\ ar = "ok"
      <4>1. blocks * Block = Block + (blocks - 1) * Block
        BY <1>1, BlockCounts
      <4>2. (blocks - 1) * Block \in Int /\ Block \in Int
        BY <1>1, BlockCounts
      <4> QED
        BY <1>1, <2>1, <3>1, <3>3, <3>4, <4>1, <4>2 DEF Prefilled
    <3>5. CASE apc' = "launch" /\ ar = "ok" /\ blocks = 0
      <4>1. blocks * Block = 0
        BY <3>5, BlockCounts
      <4> QED
        BY <1>1, <2>1, <3>1, <3>3, <3>5, <4>1 DEF Prefilled
    <3> QED
      BY <2>5, <3>2, <3>4, <3>5 DEF FillDone, Goto, Exit
  <2>6. CASE Launch
    BY <2>1, <2>6 DEF Launch, Goto, Exit, Prefilled, Target, alsaVars
  <2>7. CASE StartStreams \/ StartStreamsPlayback
    <3>1. CASE apc' = "startingPlayback" /\ SplitCapture /\ StartCapture(TRUE)
      <4>1. PlaybackStays
        BY <3>1 DEF StartCapture, PcmStart, Group, SplitCapture, Streams,
                    PlaybackStays
      <4>2. apc \in {"starting", "startingPlayback"} /\ recovering' = recovering
        BY <2>7, StartOutcomes DEF Starting
      <4>3. Target' = Target
        BY <4>2 DEF Target
      <4>4. pcm'["playback"] = "prepared" => fill'["playback"] = Target'
        BY <4>1, <4>2, <4>3 DEF Prefilled, PlaybackStays
      <4> QED
        BY <2>1, <3>1, <4>4 DEF Prefilled
    <3>2. CASE apc' \in {"exited", "loop"}
      BY <1>3, <2>1, <3>2 DEF Filling
    <3> QED
      BY <2>7, <3>1, <3>2, StartOutcomes
  <2>8. CASE Reprepare \/ ReprepareCapture
    <3>1. recovering' = recovering /\ recovering
      BY <2>8 DEF Reprepare, ReprepareCapture, Switching
    <3>2. CASE apc' = "exited"
      BY <1>3, <2>1, <3>2 DEF Filling
    <3>3. CASE apc' # "exited"
      <4>1. pcm'["playback"] = "prepared" => fill'["playback"] = 0
        <5>1. CASE Reprepare
          BY <3>3, <5>1, PrepareStays DEF Reprepare, PreparePlayback, Exit, Goto
        <5>2. CASE ReprepareCapture
          <6>1. PlaybackStays \/ fill'["playback"] = 0
            BY <5>2, PrepareStays DEF ReprepareCapture, PrepareCapture
          <6>2. pcm["playback"] = "prepared" => fill["playback"] = 0
            BY <5>2 DEF ReprepareCapture, Prefilled
          <6> QED
            BY <6>1, <6>2 DEF PlaybackStays
        <5> QED
          BY <2>8, <5>1, <5>2
      <4>2. \/ apc' = "fillDone" /\ blocks' = RecoveryBlocks
            \/ apc' = "reprepareCapture"
        BY <2>8, <3>3 DEF Reprepare, ReprepareCapture, Reprepared, Goto, Exit
      <4> QED
        BY <2>1, <3>1, <4>1, <4>2, BlockCounts DEF Prefilled, Target
    <3> QED
      BY <3>2, <3>3
  <2>9. CASE Loop \/ Read \/ WaitPeriod \/ InputDone \/ Switched \/ Output
             \/ OutputDone \/ Recover
    <3>1. apc' \notin Filling \cup {"begin", "reprepareCapture"}
      BY <2>9 DEF Loop, Read, WaitPeriod, InputDone, Switched, Output, Write,
                  OutputDone, Recover, Goto, Exit, Filling
    <3> QED
      BY <1>3, <2>1, <3>1
  <2> QED
    BY <1>10, <2>2, <2>3, <2>4, <2>5, <2>6, <2>7, <2>8, <2>9 DEF AudioNext
<1> QED
  BY <1>5, <1>6, <1>7, <1>8, <1>9, <1>10 DEF Next, HostCalls, HostInCall

LEMMA PrefilledInductive == Spec => []Prefilled
<1>1. Init => Prefilled
  BY DEF Init, AlsaInit, Prefilled, Streams
<1>2. IInv /\ CycleInv /\ Prefilled /\ [Next]_vars => Prefilled'
  BY PrefilledNext DEF CycleInv
<1> QED
  BY <1>1, <1>2, CycleInductive, PTL DEF Spec

\* No block of a prefill, and no silence of a recovery, is ever more than the
\* room left: no write blocks for ever before the streams start.
THEOREM PrefillAlwaysFits == ASSUME EvenBlocks PROVE Spec => []PrefillFits
<1>1. IInv /\ Prefilled => PrefillFits
  <2> SUFFICES ASSUME IInv, Prefilled, apc = "fill",
                      pcm["playback"] = "prepared"
               PROVE  fill["playback"] + rem <= Buffer
    BY DEF PrefillFits
  <2>1. fill["playback"] + rem + (blocks - 1) * Block = Target
    BY DEF Prefilled
  <2>2. fill["playback"] \in Nat /\ rem \in Nat /\ blocks - 1 \in Nat
    BY BlockCounts DEF IInv, AlsaInv, AlsaTypeOK, ThreadTypeOK, FillCounts,
                       Streams
  <2>3. (blocks - 1) * Block \in Nat
    BY <2>2, BlockCounts
  <2>4. Target <= Buffer /\ Target \in Nat
    <3>1. Block \in Nat \ {0} /\ Buffer \in Nat \ {0} /\ FirstBlocks = 2
      BY BlockCounts
    <3>2. 2 * Block <= Buffer
      BY <3>1, PairFits
    <3> QED
      BY <3>1, <3>2 DEF Target
  <2> QED
    BY <2>1, <2>2, <2>3, <2>4, BlockCounts
<1> QED
  BY <1>1, CycleInductive, PrefilledInductive, PTL

----------------------------------------------------------------------------
(* What stop() waits for: the part of StopReturns that needs no fairness.    *)
(* NothingHoldsUpStop is that whoever it waits for can take a step, EndIsNear *)
(* that no more than a bounded number of those steps are left.               *)

\* The audio thread is not in a transfer that sleeps, nor before a taken mutex.
Awake ==
  /\ apc = "launch" => mutex = "free"
  /\ apc = "input" => IF capture_active
                      THEN Readable \/ ~Transferring("capture")
                      ELSE WaitResults # {}
  /\ apc \in {"fill", "output"} => Writable \/ ~Transferring("playback")

\* In stop() the mutex is free or its holder is between the two ioctls of
\* start_backend; before join the audio thread is there and can go on.
StopCanGoOn ==
  /\ hpc = "dropping" => mutex = "free" \/ apc \in Starting
  /\ hpc = "joining" => apc # "none" /\ Awake

\* Steps from the end of the audio thread, at most, once stop() has dropped the
\* streams.
Distance ==
  CASE apc \in {"none", "exited"} -> 0
    [] apc \in {"first", "launch", "loop", "inputDone", "outputDone",
                "recover"} -> 1
    [] apc \in {"begin", "fillDone", "input", "output"} -> 2
    [] apc \in {"fill", "switch", "reprepareCapture"} -> 3
    [] OTHER -> 4

\* One step nearer to the end, or a piece of the same block written.
Nearer == Distance' < Distance \/ (Distance' = Distance /\ rem' < rem)

\* A block under way has frames left.
RestLeft == apc = "fill" => rem > 0

LEMMA RestLeftNext == IInv /\ RestLeft /\ [Next]_vars => RestLeft'
<1> SUFFICES ASSUME IInv, RestLeft, [Next]_vars, apc' = "fill"
             PROVE  rem' > 0
  BY DEF RestLeft
<1>1. Block \in Nat \ {0} /\ rem \in Nat
  BY BlockCounts DEF IInv, ThreadTypeOK
<1>2. CASE AwayFromThread \/ UNCHANGED vars
  BY <1>2, AwayKeeps DEF threadVars, vars, RestLeft
<1>3. CASE StartPrepare \/ StartPrepareCapture
  BY <1>3, StartFacts
<1>4. CASE Join
  BY <1>4 DEF Join
<1>5. CASE AudioNext
  <2>1. CASE FirstSwitched \/ FillDone
    BY <1>1, <2>1 DEF FirstSwitched, FillDone, Goto, Exit
  <2>2. CASE Fill
    <3>1. apc = "fill" /\ Writable
      BY <2>2 DEF Fill, Write, Goto
    <3>2. rem' = rem - WriteChunk(rem) /\ WriteChunk(rem) # rem
      BY <2>2, <3>1 DEF Fill, Write, Goto
    <3>3. Buffer - fill["playback"] \in Int
      BY BlockCounts DEF IInv, AlsaInv, AlsaTypeOK, Streams
    <3> QED
      BY <1>1, <3>2, <3>3 DEF WriteChunk, Least
  <2>3. CASE StartStreams \/ StartStreamsPlayback
    BY <2>3, StartOutcomes
  <2>4. CASE Begin \/ Launch \/ Loop \/ Read \/ WaitPeriod \/ InputDone
             \/ Switched \/ Output \/ OutputDone \/ Recover \/ Reprepare
             \/ ReprepareCapture
    BY <2>4 DEF Begin, Launch, Loop, Read, WaitPeriod, InputDone, Switched,
                Output, Write, OutputDone, Recover, Reprepare,
                ReprepareCapture, Reprepared, Goto, Exit
  <2> QED
    BY <1>5, <2>1, <2>2, <2>3, <2>4 DEF AudioNext
<1> QED
  BY <1>2, <1>3, <1>4, <1>5 DEF Next, HostCalls, HostInCall, AwayFromThread

LEMMA RestLeftInductive == Spec => []RestLeft
<1>1. Init => RestLeft
  BY DEF Init, RestLeft
<1>2. IInv /\ RestLeft /\ [Next]_vars => RestLeft'
  BY RestLeftNext
<1> QED
  BY <1>1, <1>2, Inductive, PTL DEF Spec

\* Whichever way the audio thread blocks, in a read, a wait, a write, a prefill
\* of streams it prepared after they had been dropped, or before the mutex:
\* once stop() waits for it, what it waits for is there.
THEOREM NothingHoldsUpStop == ASSUME EvenBlocks PROVE Spec => []StopCanGoOn
<1>1. IInv /\ SetupInv /\ PrefillFits /\ RestLeft => StopCanGoOn
  <2> SUFFICES ASSUME IInv, SetupInv, PrefillFits, RestLeft
               PROVE  StopCanGoOn
    OBVIOUS
  <2>1. ASSUME hpc = "dropping"
        PROVE  mutex = "free" \/ apc \in Starting
    BY <2>1 DEF IInv, MutexOwner, HostTypeOK
  <2>2. ASSUME hpc = "joining"
        PROVE  apc # "none" /\ Awake
    <3>1. state = "Running" /\ apc # "none" /\ apc \notin Starting
      BY <2>2 DEF IInv, HostInside, Life, Dropped
    <3>2. mutex = "free"
      BY <2>2, <3>1 DEF IInv, MutexOwner, HostTypeOK
    <3>3. pcm["playback"] # "running" /\ pcm["capture"] # "running"
      BY <2>2 DEF IInv, Dropped, Streams
    <3>4. ASSUME apc = "input"
          PROVE  IF capture_active THEN Readable \/ ~Transferring("capture")
                                   ELSE WaitResults # {}
      <4>1. ~Transferring("playback")
        BY <3>3, <3>4 DEF SetupInv, Started, Streaming, Transferring
      <4>2. capture_active => ~Transferring("capture")
        BY <3>3, <3>4 DEF SetupInv, Started, Streaming, Transferring
      <4>3. FaultOf("playback") \in WaitResults
        BY <4>1 DEF WaitResults
      <4> QED
        BY <4>2, <4>3
    <3>5. ASSUME apc = "output"
          PROVE  ~Transferring("playback")
      BY <3>3, <3>5 DEF SetupInv, Started, Streaming, Transferring
    <3>6. ASSUME apc = "fill"
          PROVE  Writable \/ ~Transferring("playback")
      <4> SUFFICES ASSUME pcm["playback"] = "prepared"
                   PROVE  fill["playback"] < Buffer
        BY <3>3 DEF Writable, Transferring
      <4>1. fill["playback"] + rem <= Buffer /\ rem > 0
        BY <3>6 DEF PrefillFits, RestLeft
      <4>2. fill["playback"] \in Nat /\ rem \in Nat /\ Buffer \in Nat
        BY BlockCounts DEF IInv, AlsaInv, AlsaTypeOK, ThreadTypeOK, Streams
      <4> QED
        BY <4>1, <4>2
    <3> QED
      BY <3>1, <3>2, <3>4, <3>5, <3>6 DEF Awake
  <2> QED
    BY <2>1, <2>2 DEF StopCanGoOn
<1> QED
  BY <1>1, SetupInductive, PrefillAlwaysFits, RestLeftInductive, PTL

\* A step of the audio thread after the drop.
LEMMA JoinedStepNearer ==
  ASSUME IInv, SetupInv, RestLeft, hpc = "joining", AudioNext
  PROVE  Nearer
<1> USE DEF Distance, Nearer
<1>1. stop /\ apc \notin Starting
  BY DEF IInv, HostInside, Dropped
<1>2. pcm["playback"] # "running" /\ pcm["capture"] # "running"
  BY DEF IInv, Dropped, Streams
<1>3. CASE Begin \/ Loop \/ Launch \/ InputDone \/ OutputDone \/ Recover
           \/ FirstSwitched \/ Switched \/ WaitPeriod
  BY <1>1, <1>3 DEF Begin, Loop, Launch, InputDone, OutputDone, Recover,
                    FirstSwitched, Switched, WaitPeriod, Goto, Exit
<1>4. CASE FillDone
  BY <1>1, <1>4 DEF FillDone, Goto, Exit
<1>5. CASE Read
  <2>1. ~Readable
    BY <1>2 DEF Readable
  <2> QED
    BY <1>5, <2>1 DEF Read, Goto
<1>6. CASE Output
  <2>1. ~Writable
    BY <1>2, <1>6 DEF Output, Writable, Transferring, SetupInv, Started,
                      Streaming
  <2> QED
    BY <1>6, <2>1 DEF Output, Write, Goto
<1>7. CASE Fill
  <2>1. apc = "fill" /\ rem > 0 /\ rem \in Nat
    BY <1>7, BlockCounts DEF Fill, RestLeft, IInv, ThreadTypeOK
  <2>2. CASE apc' = "fillDone"
    BY <2>1, <2>2
  <2>3. CASE apc' # "fillDone"
    <3>1. Writable /\ apc' = "fill" /\ rem' = rem - WriteChunk(rem)
      BY <1>7, <2>1, <2>3 DEF Fill, Write, Goto
    <3>2. fill["playback"] < Buffer /\ Buffer - fill["playback"] \in Int
      BY <3>1, BlockCounts DEF Writable, IInv, AlsaInv, AlsaTypeOK, Streams
    <3>3. WriteChunk(rem) > 0 /\ WriteChunk(rem) \in Int
      <4>1. fill["playback"] \in Int /\ Buffer \in Int
        BY BlockCounts DEF IInv, AlsaInv, AlsaTypeOK, Streams
      <4> QED
        BY <2>1, <3>2, <4>1 DEF WriteChunk, Least
    <3> QED
      BY <2>1, <3>1, <3>3
  <2> QED
    BY <2>2, <2>3
<1>8. CASE Reprepare \/ ReprepareCapture
  <2>1. \/ /\ apc = "reprepare"
           /\ apc' \in {"reprepareCapture", "fillDone", "exited"}
        \/ /\ apc = "reprepareCapture"
           /\ apc' \in {"fillDone", "exited"}
    BY <1>8 DEF Reprepare, ReprepareCapture, Reprepared, Goto, Exit
  <2> QED
    BY <2>1
<1>9. ~(StartStreams \/ StartStreamsPlayback)
  BY <1>1, StartOutcomes
<1> QED
  BY <1>3, <1>4, <1>5, <1>6, <1>7, <1>8, <1>9 DEF AudioNext

\* Nothing but the audio thread moves it, and every step it takes after the drop
\* is one nearer to its end. Once asked to stop it does not take the mutex again,
\* and it leaves start_backend, and with it the mutex, in two steps.
Winding ==
  /\ apc \in Starting /\ AudioNext =>
       \/ mutex' = "free"
       \/ apc = "starting" /\ apc' = "startingPlayback"
  /\ hpc = "joining" /\ AudioNext => Nearer
  /\ hpc = "joining" /\ hpc' = "joining" => Nearer \/ UNCHANGED <<apc, rem>>
  /\ stop /\ mutex' = "audio" => mutex = "audio"

\* stop() waits for a bounded number of steps of the audio thread: four, and as
\* many as one block takes to write.
THEOREM EndIsNear == Spec => [][Winding]_vars
<1>1. IInv /\ SetupInv /\ RestLeft /\ [Next]_vars => [Winding]_vars
  <2> SUFFICES ASSUME IInv, SetupInv, RestLeft, Next PROVE Winding
    OBVIOUS
  <2>1. ASSUME hpc = "joining", AudioNext PROVE Nearer
    BY <2>1, JoinedStepNearer
  <2>2. ASSUME hpc = "joining", hpc' = "joining"
        PROVE  Nearer \/ UNCHANGED <<apc, rem>>
    <3>1. CASE AudioNext
      BY <2>1, <2>2, <3>1
    <3>2. CASE AwayFromThread
      BY <3>2, AwayKeeps DEF threadVars
    <3>3. ~(StartPrepare \/ StartPrepareCapture \/ Join)
      BY <2>2 DEF StartPrepare, StartPrepareCapture, Join
    <3> QED
      BY <3>1, <3>2, <3>3 DEF Next, HostCalls, HostInCall, AwayFromThread
  <2>3. ASSUME stop, mutex' = "audio" PROVE mutex = "audio"
    <3>1. CASE AudioNext
      BY <2>3, <3>1
      DEF AudioNext, Begin, FirstSwitched, Fill, FillDone, Launch,
          StartStreams, StartStreamsPlayback, Launched, Loop, Read,
          WaitPeriod, InputDone, Switched, Output, Write, OutputDone,
          Recover, Reprepare, ReprepareCapture
    <3>2. CASE ~AudioNext
      BY <2>3, <3>2
      DEF Next, HostInCall, HostCalls, HardwareNext, ThreadIdle, NewDriver,
          InitDriver, CreateBuffersInvalid, CreateBuffers, DisposePrepared,
          Destroy, StartPrepare, RequestStop, StartPrepareCapture,
          DropBackend, DropBackendCapture, Join
    <3> QED
      BY <3>1, <3>2
  <2>4. ASSUME apc \in Starting, AudioNext
        PROVE  \/ mutex' = "free"
               \/ apc = "starting" /\ apc' = "startingPlayback"
    <3>1. StartStreams \/ StartStreamsPlayback
      BY <2>4 DEF AudioNext, Starting, Begin, FirstSwitched, Fill, FillDone,
                  Launch, Loop, Read, WaitPeriod, InputDone, Switched, Output,
                  OutputDone, Recover, Reprepare, ReprepareCapture
    <3> QED
      BY <3>1 DEF StartStreams, StartStreamsPlayback, Launched, Goto
  <2> QED
    BY <2>1, <2>2, <2>3, <2>4 DEF Winding
<1> QED
  BY <1>1, SetupInductive, RestLeftInductive, PTL DEF Spec

----------------------------------------------------------------------------
(* The latency.                                                             *)

\* The device moves frames from one stream of a linked pair to the other, and
\* out of a stream that is not linked.
LEMMA TickMoves ==
  ASSUME AlsaInv, HardwareNext, pcm'["playback"] = "running"
  PROVE  /\ pcm["playback"] = "running" /\ UNCHANGED <<linked, capture_enabled>>
         /\ fill'["playback"] <= fill["playback"]
         /\ linked => Queued' = Queued
<1>1. PICK s \in Streams : Tick(s) \/ Suspend(s) \/ DeviceLost(s)
  BY DEF HardwareNext, Hardware
<1>2. /\ fill["playback"] \in Int /\ fill["capture"] \in Int
      /\ Period \in Nat
  BY GeometryAssumption DEF AlsaInv, AlsaTypeOK, Streams
<1>3. UNCHANGED <<linked, capture_enabled>>
  BY <1>1 DEF Tick, Suspend, DeviceLost
<1>4. ASSUME NEW st, st # "running", Enter(s, st)
      PROVE  /\ pcm["playback"] = "running" /\ ~linked
             /\ fill'["playback"] = fill["playback"]
  BY <1>4 DEF Enter, Group, Streams
<1>5. CASE Suspend(s) \/ DeviceLost(s)
  BY <1>2, <1>3, <1>4, <1>5 DEF Suspend, DeviceLost
<1>6. CASE Tick(s) /\ \E t \in Group(s) : Starved(t)
  BY <1>2, <1>3, <1>4, <1>6 DEF Tick
<1>7. CASE Tick(s) /\ ~ \E t \in Group(s) : Starved(t)
  <2>1. /\ pcm' = pcm
        /\ fill' = [t \in Streams |->
                      IF t \notin Group(s) THEN fill[t]
                      ELSE IF t = "playback" THEN fill[t] - Period
                      ELSE fill[t] + Period]
    BY <1>7 DEF Tick
  <2> QED
    BY <1>2, <1>3, <2>1 DEF Group, Streams, Queued
<1> QED
  BY <1>1, <1>5, <1>6, <1>7

\* A drop that leaves playback running has touched neither stream's frames, or
\* only those of a pair that is not linked.
LEMMA DropMoves ==
  ASSUME IInv, DropBackend \/ DropBackendCapture, pcm'["playback"] = "running"
  PROVE  SplitCapture /\ UNCHANGED <<linked, capture_enabled>>
<1>1. CASE DropBackend
  BY <1>1 DEF DropBackend, DropPlayback, PcmDrop, Enter, Group, Streams,
              pcmVars, IInv, AlsaInv, AlsaTypeOK
<1>2. CASE DropBackendCapture
  BY <1>2 DEF DropBackendCapture, IInv, Dropped, SplitCapture
<1> QED
  BY <1>1, <1>2

LEMMA LatencyNext ==
  ASSUME DoubleBuffered, IInv, SetupInv, CycleInv, Prefilled,
         Balanced, Awaited, [Next]_vars
  PROVE  Balanced' /\ Awaited'
<1> USE DEF CycleInv
<1>1. /\ rem \in 0..Block /\ Block \in Nat /\ Buffer \in Nat
      /\ fill["playback"] \in Nat /\ fill["capture"] \in Nat
      /\ Period \in Nat /\ AlsaInv
  BY BlockAssumption, GeometryAssumption
  DEF IInv, ThreadTypeOK, AlsaInv, AlsaTypeOK, Streams
<1> DEFINE Cycle == {"loop", "input", "inputDone", "switch", "output",
                     "outputDone"}
<1>2. ASSUME apc' \notin Cycle PROVE Balanced' /\ Awaited'
  BY <1>2 DEF Balanced, Awaited
<1>3. ASSUME UNCHANGED <<linked, capture_enabled, pcm, fill, apc, ar, rem>>
      PROVE  Balanced' /\ Awaited'
  BY <1>3 DEF Balanced, Awaited, Queued
<1>4. CASE RequestStop \/ UNCHANGED vars
  BY <1>3, <1>4 DEF RequestStop, vars, alsaVars, threadVars
<1>5. CASE HardwareNext
  <2>1. CASE pcm'["playback"] = "running"
    <3>1. /\ pcm["playback"] = "running" /\ UNCHANGED <<linked, capture_enabled>>
          /\ fill'["playback"] <= fill["playback"]
          /\ linked => Queued' = Queued
      BY <1>1, <1>5, <2>1, TickMoves
    <3>2. UNCHANGED <<apc, ar, rem>> /\ fill'["playback"] \in Int
      BY <1>1, <1>5, HardwareSettles
      DEF HardwareNext, threadVars, Settled, AlsaInv, AlsaTypeOK, Streams
    <3>3. Balanced'
      BY <3>1, <3>2 DEF Balanced
    <3>4. Awaited'
      BY <1>1, <3>1, <3>2 DEF Awaited
    <3> QED
      BY <3>3, <3>4
  <2> QED
    BY <2>1 DEF Balanced, Awaited
<1>6. CASE DropBackend \/ DropBackendCapture
  BY <1>6, DropMoves DEF Balanced, Awaited, SplitCapture
<1>7. CASE StartPrepare \/ StartPrepareCapture
  BY <1>2, <1>7, StartFacts
<1>8. CASE NewDriver \/ InitDriver \/ CreateBuffersInvalid \/ CreateBuffers
           \/ DisposePrepared \/ Destroy \/ Join
  <2>1. apc' = "none"
    <3>1. CASE Join
      BY <3>1 DEF Join
    <3>2. CASE ~Join
      <4>1. apc' = apc
        BY <1>8, <3>2, AwayKeeps DEF AwayFromThread, threadVars
      <4>2. state # "Running"
        BY <1>8, <3>2
        DEF NewDriver, InitDriver, InitAlsa, CreateBuffersInvalid,
            CreateBuffers, DisposePrepared, Destroy, IInv, Life
      <4> QED
        BY <4>1, <4>2 DEF IInv, Life
    <3> QED
      BY <3>1, <3>2
  <2> QED
    BY <1>2, <2>1
<1>9. CASE AudioNext
  <2>1. /\ UNCHANGED <<linked, capture_enabled, capture_active>>
        /\ capture_active = capture_enabled /\ (linked => capture_enabled)
        /\ linked => pcm["playback"] = pcm["capture"]
    <3>1. apc # "none"
      BY <1>9
      DEF AudioNext, Begin, FirstSwitched, Fill, FillDone, Launch, Loop, Read,
          WaitPeriod, InputDone, Switched, Output, OutputDone, Recover,
          Reprepare, ReprepareCapture, StartStreams, StartStreamsPlayback
    <3> QED
      BY <1>9, <3>1, PairKept, PairFacts DEF lifeVars
  <2>2. CASE StartStreams \/ StartStreamsPlayback
    <3>1. CASE apc' = "loop" /\ StartPlayback(TRUE)
      <4>1. ASSUME linked PROVE Queued' = Buffer
        <5>1. /\ pcm["playback"] = "prepared" /\ pcm["capture"] = "prepared"
              /\ fill' = fill
          BY <2>1, <3>1, <4>1 DEF StartPlayback, PcmStart, Group, Streams
        <5>2. fill["playback"] = Target /\ fill["capture"] = 0
          BY <2>2, <5>1, StartOutcomes DEF Prefilled, CaptureEmpty, Starting
        <5>3. Target = Buffer
          BY DEF Target, FirstBlocks, DoubleBuffered
        <5> QED
          BY <1>1, <5>1, <5>2, <5>3 DEF Queued
      <4> QED
        BY <2>1, <3>1, <4>1 DEF Balanced, Awaited
    <3> QED
      BY <1>2, <2>2, <3>1, StartOutcomes
  <2>3. CASE Loop
    <3>1. UNCHANGED <<pcm, fill>> /\ apc = "loop"
      BY <2>3 DEF Loop, alsaVars
    <3>2. CASE apc' = "input" /\ rem' = IF capture_active THEN Block ELSE 0
      BY <1>1, <2>1, <3>1, <3>2 DEF Balanced, Awaited, Queued
    <3> QED
      BY <1>2, <2>3, <3>2 DEF Loop, Goto, Exit
  <2>4. CASE Read
    <3>1. UNCHANGED pcm /\ apc = "input" /\ capture_active
      BY <2>4 DEF Read
    <3>2. Awaited'
      BY <2>1, <3>1 DEF Awaited
    <3>3. CASE Readable
      <4> DEFINE n == ReadChunk(rem)
      <4>1. n \in 0..rem
        BY <1>1 DEF ReadChunk, Least
      <4>2. /\ fill'["playback"] = fill["playback"]
            /\ fill'["capture"] = fill["capture"] - n
            /\ rem' = rem - n
            /\ apc' = IF n = rem THEN "inputDone" ELSE "input"
        BY <1>1, <2>4, <3>1, <3>3 DEF Read, Goto, AlsaInv, AlsaTypeOK, Streams
      <4> HIDE DEF n
      <4>3. Queued' + rem = Queued + rem'
        BY <1>1, <4>1, <4>2 DEF Queued
      <4>4. Queued \in Int /\ Queued' \in Int
        BY <1>1, <4>1, <4>2 DEF Queued
      <4>5. linked' /\ pcm'["playback"] = "running" =>
              Queued' + Block = Buffer + rem'
        <5>1. linked' /\ pcm'["playback"] = "running" =>
                Queued + Block = Buffer + rem
          BY <2>1, <3>1 DEF Balanced
        <5>2. rem' \in Int
          BY <1>1, <4>1, <4>2
        <5> HIDE DEF Queued
        <5>3. ASSUME Queued + Block = Buffer + rem
              PROVE  Queued' + Block = Buffer + rem'
          BY <1>1, <4>3, <4>4, <5>2, <5>3, GeometryAssumption, BlockAssumption
        <5> QED
          BY <5>1, <5>3
      <4>6. Balanced'
        <5>1. CASE n = rem
          <6>1. rem' = 0 /\ apc' = "inputDone"
            BY <1>1, <4>2, <5>1
          <6>2. linked' /\ pcm'["playback"] = "running" =>
                  Queued' + Block = Buffer
            BY <1>1, <4>5, <6>1
          <6> QED
            BY <6>1, <6>2 DEF Balanced
        <5>2. CASE n # rem
          <6>1. apc' = "input"
            BY <4>2, <5>2
          <6> QED
            BY <4>5, <6>1 DEF Balanced
        <5> QED
          BY <5>1, <5>2
      <4> QED
        BY <3>2, <4>6
    <3>4. CASE ~Readable
      <4>1. linked => pcm["playback"] # "running"
        BY <2>1, <2>4, <3>4 DEF Read, Transferring
      <4> QED
        BY <2>1, <3>1, <3>2, <4>1 DEF Balanced
    <3> QED
      BY <3>3, <3>4
  <2>5. CASE WaitPeriod
    <3>1. UNCHANGED <<pcm, fill>> /\ apc' = "inputDone" /\ ~linked
      BY <2>1, <2>5 DEF WaitPeriod, Goto, alsaVars
    <3>2. ar' = "ok" /\ pcm["playback"] = "running" =>
            fill["playback"] + Period <= Buffer
      BY <1>1, <2>5 DEF WaitPeriod, WaitResults, Transferring
    <3> QED
      BY <2>1, <3>1, <3>2 DEF Balanced, Awaited
  <2>6. CASE InputDone
    <3>1. UNCHANGED <<pcm, fill>> /\ apc = "inputDone"
      BY <2>6 DEF InputDone, alsaVars
    <3>2. CASE apc' = "switch" /\ ar = "ok"
      BY <2>1, <3>1, <3>2 DEF Balanced, Awaited, Queued
    <3> QED
      BY <1>2, <2>6, <3>2 DEF InputDone, Goto, Exit
  <2>7. CASE Switched
    <3>1. UNCHANGED <<pcm, fill>> /\ apc = "switch" /\ apc' = "output"
          /\ rem' = Block
      BY <2>7 DEF Switched, Goto, alsaVars
    <3> QED
      BY <2>1, <3>1 DEF Balanced, Awaited, Queued
  <2>8. CASE Output
    <3>1. UNCHANGED pcm /\ apc = "output" /\ apc' \in {"output", "outputDone"}
      BY <2>8 DEF Output, Write, Goto
    <3>2. Awaited'
      BY <3>1 DEF Awaited
    <3>3. CASE Writable
      <4> DEFINE n == WriteChunk(rem)
      <4>1. n \in Int
        BY <1>1 DEF WriteChunk, Least
      <4>2. /\ fill'["capture"] = fill["capture"]
            /\ fill'["playback"] = fill["playback"] + n
            /\ rem' = rem - n
            /\ apc' = IF n = rem THEN "outputDone" ELSE "output"
        BY <1>1, <2>8, <3>1, <3>3
        DEF Output, Write, Goto, AlsaInv, AlsaTypeOK, Streams
      <4> HIDE DEF n
      <4>3. Queued' + rem' = Queued + rem /\ Queued' \in Int /\ rem' \in Int
        BY <1>1, <4>1, <4>2 DEF Queued
      <4>4. linked' /\ pcm'["playback"] = "running" => Queued' + rem' = Buffer
        BY <2>1, <3>1, <4>3 DEF Balanced
      <4>5. Balanced'
        <5>1. CASE n = rem
          <6>1. rem' = 0 /\ apc' = "outputDone"
            BY <1>1, <4>2, <5>1
          <6>2. linked' /\ pcm'["playback"] = "running" => Queued' = Buffer
            BY <4>3, <4>4, <6>1
          <6> QED
            BY <6>1, <6>2 DEF Balanced
        <5>2. CASE n # rem
          <6>1. apc' = "output"
            BY <4>2, <5>2
          <6> QED
            BY <4>4, <6>1 DEF Balanced
        <5> QED
          BY <5>1, <5>2
      <4> QED
        BY <3>2, <4>5
    <3>4. CASE ~Writable
      <4>1. pcm["playback"] # "running"
        BY <2>8, <3>4 DEF Output, Write, Transferring
      <4> QED
        BY <3>1, <3>2, <4>1 DEF Balanced
    <3> QED
      BY <3>3, <3>4
  <2>9. CASE OutputDone
    <3>1. UNCHANGED <<pcm, fill, ar>> /\ apc = "outputDone"
      BY <2>9 DEF OutputDone, alsaVars
    <3>2. CASE apc' = "loop" /\ ar = "ok"
      BY <2>1, <3>1, <3>2 DEF Balanced, Awaited, Queued
    <3>3. ar \in {"ok", "xrun", "error"}
      BY DEF IInv, ThreadTypeOK
    <3> QED
      BY <1>2, <2>9, <3>2, <3>3 DEF OutputDone, Goto, Exit
  <2>10. CASE Begin \/ FirstSwitched \/ Fill \/ FillDone \/ Launch \/ Recover
              \/ Reprepare \/ ReprepareCapture
    <3>1. apc' \notin Cycle
      BY <2>10
      DEF Begin, FirstSwitched, Fill, FillDone, Launch, Recover, Reprepare,
          ReprepareCapture, Reprepared, Write, Goto, Exit
    <3> QED
      BY <1>2, <3>1
  <2> QED
    BY <1>9, <2>2, <2>3, <2>4, <2>5, <2>6, <2>7, <2>8, <2>9, <2>10
    DEF AudioNext
<1> QED
  BY <1>4, <1>5, <1>6, <1>7, <1>8, <1>9 DEF Next, HostCalls, HostInCall

LEMMA LatencyInductive == ASSUME DoubleBuffered PROVE Spec => [](Balanced /\ Awaited)
<1>1. Init => Balanced /\ Awaited
  BY DEF Init, AlsaInit, Balanced, Awaited
<1>2. IInv /\ SetupInv /\ CycleInv /\ Prefilled /\ Balanced /\ Awaited
        /\ [Next]_vars => (Balanced /\ Awaited)'
  BY LatencyNext
<1> QED
  BY <1>1, <1>2, CycleInductive, PrefilledInductive, PTL DEF Spec

\* With linked streams, whatever xruns there have been, the host is asked for a
\* half when what waits to be played and to be read is a block short of a full
\* buffer: the round trip is the same for a whole run.
THEOREM SameRoundTrip == ASSUME DoubleBuffered PROVE Spec => []RoundTripFixed
<1>1. IInv /\ Balanced => RoundTripFixed
  <2> SUFFICES ASSUME IInv, Balanced, apc = "switch", linked,
                      pcm["playback"] = "running"
               PROVE  fill["playback"] + fill["capture"] = Buffer - Block
    BY DEF RoundTripFixed
  <2>1. Queued + Block = Buffer
    BY DEF Balanced
  <2>2. fill["playback"] \in Int /\ fill["capture"] \in Int /\ Block \in Int
        /\ Buffer \in Int
    BY BlockCounts DEF IInv, AlsaInv, AlsaTypeOK, Streams
  <2> QED
    BY <2>1, <2>2 DEF Queued
<1> QED
  BY <1>1, CycleInductive, LatencyInductive, PTL

\* With a capture stream linked, or none, a host that is asked for a half never
\* finds more frames queued in the ring buffer than getLatencies reports. An
\* unlinked pair is outside the statement: there a whole buffer may be queued.
THEOREM QueueBoundedByLatency ==
  ASSUME DoubleBuffered PROVE Spec => []QueuedWithinLatency
<1>1. Period <= Block
  <2> DEFINE d == Buffer \div Period
  <2>1. /\ Period \in Nat \ {0} /\ Buffer \in Nat \ {0} /\ Period < Buffer
        /\ Buffer % Period = 0 /\ Block \in Nat
    BY GeometryAssumption, BlockAssumption
  <2>2. d \in Nat /\ Buffer = d * Period + 0
    BY <2>1, DivMod
  <2> HIDE DEF d
  <2>3. CASE d = 0 \/ d = 1
    BY <2>1, <2>2, <2>3
  <2>4. CASE d - 2 \in Nat
    <3>1. d * Period = (d - 2) * Period + 2 * Period
          /\ (d - 2) * Period >= 0
      BY <2>1, <2>2, <2>4, Z3
    <3> QED
      BY <2>1, <2>2, <3>1 DEF DoubleBuffered
  <2> QED
    BY <2>2, <2>3, <2>4
<1>2. IInv /\ SetupInv /\ Balanced /\ Awaited => QueuedWithinLatency
  <2> SUFFICES ASSUME IInv, Balanced, Awaited, apc = "switch", ~SplitCapture,
                      pcm["playback"] = "running"
               PROVE  fill["playback"] <= Buffer - Period
    BY DEF QueuedWithinLatency, PacedByPlayback, OutputLatency
  <2>1. fill["playback"] \in Nat /\ fill["capture"] \in Nat /\ Block \in Nat
        /\ Buffer \in Nat /\ Period \in Nat
    BY BlockCounts, GeometryAssumption DEF IInv, AlsaInv, AlsaTypeOK, Streams
  <2>2. CASE linked
    <3>1. Queued + Block = Buffer
      BY <2>2 DEF Balanced
    <3> QED
      BY <1>1, <2>1, <3>1 DEF Queued
  <2>3. CASE ~linked
    <3>1. fill["playback"] + Period <= Buffer
      BY <2>3 DEF Awaited, SplitCapture
    <3> QED
      BY <2>1, <3>1
  <2> QED
    BY <2>2, <2>3
<1> QED
  BY <1>2, CycleInductive, LatencyInductive, PTL

----------------------------------------------------------------------------
(* Whose data goes where: StreamData on top of Casio.                       *)

\* A step of the data model is the step of the driver it describes.
LEMMA DataStepMaps == [DataNext]_<<vars, dataVars>> => [Next]_vars
BY DEF DataNext, AssignBuffers, JoinRun, FreeBuffers, HostElsewhere, BeginRun,
       FirstBlock, NextBlock, InputBlock, OutputBlock, AudioElsewhere, Next,
       HostCalls, HostInCall, AudioNext, lifeVars, hostVars

\* Whatever the buffers hold, the driver takes the steps of Casio only.
THEOREM DataAddsNothing == DataSpec => Spec
<1>1. DataInit => Init
  BY DEF DataInit
<1> QED
  BY <1>1, DataStepMaps, PTL DEF DataSpec, Spec

LEMMA ChosenNext == IInv /\ Chosen /\ [Next]_vars => Chosen'
<1> SUFFICES ASSUME IInv, Chosen, [Next]_vars PROVE Chosen'
  OBVIOUS
<1> USE DEF Chosen
<1>1. CASE UNCHANGED vars \/ AudioNext \/ HardwareNext \/ RequestStop
           \/ DropBackend \/ DropBackendCapture
  <2>1. UNCHANGED <<state, capture_active, active>>
    BY <1>1 DEF vars, lifeVars, AudioNext, HardwareNext, RequestStop,
                DropBackend, DropBackendCapture
  <2> QED
    BY <2>1
<1>2. CASE CreateBuffers
  BY <1>2 DEF CreateBuffers
<1>3. CASE NewDriver \/ InitDriver \/ CreateBuffersInvalid \/ DisposePrepared
           \/ Destroy
  <2>1. state' \notin {"Prepared", "Running"}
    BY <1>3 DEF NewDriver, InitDriver, CreateBuffersInvalid, DisposePrepared,
                ReleaseBuffers, Destroy, NoObject
  <2> QED
    BY <2>1
<1>4. CASE StartPrepare \/ StartPrepareCapture
  BY <1>4, StartFacts
<1>5. CASE Join
  <2>1. state = "Running"
    BY <1>5 DEF Join, IInv, HostInside
  <2> QED
    BY <1>5, <2>1 DEF Join, ReleaseBuffers, NoObject
<1> QED
  BY <1>1, <1>2, <1>3, <1>4, <1>5 DEF Next, HostCalls, HostInCall

\* An object whose thread is alive reads into, and plays from, ports that have
\* storage.
LEMMA PortsHaveStorage ==
  ASSUME IInv, SetupInv, Chosen, apc # "none"
  PROVE  /\ capture_active => Stored("in")
         /\ Plays => Stored("out")
BY DEF IInv, Life, SetupInv, Configuration, Chosen, Stored, Plays

\* interleave sends what a half holds, or silence, and frees no storage.
LEMMA InterleaveType ==
  ASSUME NEW h \in [0..1 -> Contents], NEW i \in 0..1,
         Plays => \A j \in 0..1 : h[j] # "none",
         Interleave(h, i)
  PROVE  /\ interleaved_buffer' \in Contents \ {"none"}
         /\ output_half' \in [0..1 -> Contents]
         /\ \A j \in 0..1 : output_half'[j] = "none" <=> h[j] = "none"
BY DEF Interleave, Contents

\* The host fills a half that has storage, and no other.
LEMMA FilledType ==
  ASSUME output_half \in [0..1 -> Contents], NEW i \in 0..1,
         Plays => \A j \in 0..1 : output_half[j] # "none"
  PROVE  /\ Filled(i) \in [0..1 -> Contents]
         /\ \A j \in 0..1 : Filled(i)[j] = "none" <=> output_half[j] = "none"
         /\ Plays => Filled(i)[i] = "new"
BY DEF Filled, Contents


\* The audio thread finds storage wherever it writes.
LEMMA AudioDataType ==
  ASSUME IInv, SetupInv, Chosen, DataTypeOK,
         BeginRun \/ FirstBlock \/ NextBlock \/ InputBlock \/ OutputBlock
           \/ AudioElsewhere,
         UNCHANGED lifeVars
  PROVE  DataTypeOK'
<1>1. /\ input_half \in [0..1 -> Contents] /\ output_half \in [0..1 -> Contents]
      /\ interleaved_buffer \in Contents \ {"none"}
      /\ \A j \in 0..1 : /\ input_half[j] # "none" <=> Stored("in")
                         /\ output_half[j] # "none" <=> Stored("out")
  BY DEF DataTypeOK
<1>2. apc # "none"
  BY DEF BeginRun, FirstBlock, NextBlock, InputBlock, OutputBlock,
         AudioElsewhere, Begin, FirstSwitched, FillDone, InputDone, Switched,
         Fill, Launch, StartStreams, StartStreamsPlayback, Loop, Read,
         WaitPeriod, Output, OutputDone, Recover, Reprepare, ReprepareCapture
<1>3. /\ capture_active => \A j \in 0..1 : input_half[j] # "none"
      /\ Plays => \A j \in 0..1 : output_half[j] # "none"
  BY <1>1, <1>2, PortsHaveStorage
<1>4. /\ allocated' = allocated /\ Stored("in")' = Stored("in")
      /\ Stored("out")' = Stored("out")
  BY DEF lifeVars, Stored
<1>5. index \in 0..1 /\ 0 \in 0..1 /\ 1 \in 0..1
  BY DEF IInv, ThreadTypeOK
<1>6. SUFFICES /\ input_half' \in [0..1 -> Contents]
               /\ \A j \in 0..1 : input_half'[j] = "none" <=> input_half[j] = "none"
               /\ output_half' \in [0..1 -> Contents]
               /\ \A j \in 0..1 : output_half'[j] = "none" <=> output_half[j] = "none"
               /\ interleaved_buffer' \in Contents \ {"none"}
  BY <1>1, <1>4 DEF DataTypeOK
<1>7. CASE BeginRun
  BY <1>1, <1>3, <1>5, <1>7 DEF BeginRun, Contents
<1>8. CASE FirstBlock
  <2> DEFINE h == Filled(0)
  <2>1. /\ h \in [0..1 -> Contents]
        /\ \A j \in 0..1 : h[j] = "none" <=> output_half[j] = "none"
    BY <1>1, <1>3, <1>5, FilledType
  <2>2. CASE apc' = "exited"
    BY <1>1, <1>8, <2>1, <2>2 DEF FirstBlock
  <2>3. CASE apc' # "exited"
    <3>1. Interleave(h, 1)
      BY <1>8, <2>3 DEF FirstBlock
    <3> HIDE DEF h
    <3>2. Plays => \A j \in 0..1 : h[j] # "none"
      BY <1>3, <2>1
    <3>3. /\ interleaved_buffer' \in Contents \ {"none"}
          /\ output_half' \in [0..1 -> Contents]
          /\ \A j \in 0..1 : output_half'[j] = "none" <=> h[j] = "none"
      BY <1>5, <2>1, <3>1, <3>2, InterleaveType
    <3> QED
      BY <1>1, <1>8, <2>1, <3>3 DEF FirstBlock
  <2> QED
    BY <2>2, <2>3
<1>9. CASE NextBlock
  <2>1. CASE apc' = "fill" /\ ~recovering
    <3>1. Interleave(output_half, 0)
      BY <1>9, <2>1 DEF NextBlock
    <3> QED
      BY <1>1, <1>3, <1>5, <1>9, <3>1, InterleaveType DEF NextBlock
  <2>2. CASE ~(apc' = "fill" /\ ~recovering)
    BY <1>1, <1>9, <2>2 DEF NextBlock, Contents
  <2> QED
    BY <2>1, <2>2
<1>10. CASE InputBlock
  BY <1>1, <1>3, <1>5, <1>10 DEF InputBlock, Contents
<1>11. CASE OutputBlock
  <2> DEFINE h == Filled(index)
  <2>1. /\ h \in [0..1 -> Contents]
        /\ \A j \in 0..1 : h[j] = "none" <=> output_half[j] = "none"
    BY <1>1, <1>3, <1>5, FilledType
  <2>2. Interleave(h, index)
    BY <1>11 DEF OutputBlock
  <2> HIDE DEF h
  <2>3. Plays => \A j \in 0..1 : h[j] # "none"
    BY <1>3, <2>1
  <2>4. /\ interleaved_buffer' \in Contents \ {"none"}
        /\ output_half' \in [0..1 -> Contents]
        /\ \A j \in 0..1 : output_half'[j] = "none" <=> h[j] = "none"
    BY <1>5, <2>1, <2>2, <2>3, InterleaveType
  <2>5. /\ input_half' \in [0..1 -> Contents]
        /\ \A j \in 0..1 : input_half'[j] = "none" <=> input_half[j] = "none"
    BY <1>1, <1>3, <1>5, <1>11 DEF OutputBlock, Contents
  <2> QED
    BY <2>1, <2>4, <2>5
<1>12. CASE AudioElsewhere
  BY <1>1, <1>12 DEF AudioElsewhere, dataVars
<1> QED
  BY <1>7, <1>8, <1>9, <1>10, <1>11, <1>12

\* createBuffers zeroes what it stores, and disposeBuffers and the destructor
\* free all of it.
LEMMA DataTypeNext ==
  IInv /\ SetupInv /\ Chosen /\ DataTypeOK /\ [DataNext]_<<vars, dataVars>> =>
    DataTypeOK'
<1> SUFFICES ASSUME IInv, SetupInv, Chosen, DataTypeOK,
                    [DataNext]_<<vars, dataVars>>
             PROVE  DataTypeOK'
  OBVIOUS
<1>1. CASE UNCHANGED <<allocated, dataVars>>
  BY <1>1 DEF DataTypeOK, Stored, dataVars
<1>2. CASE UNCHANGED <<vars, dataVars>> \/ (HardwareNext /\ UNCHANGED dataVars)
           \/ HostElsewhere
  <2>1. UNCHANGED <<allocated, dataVars>>
    BY <1>2
    DEF vars, lifeVars, HardwareNext, HostElsewhere, NewDriver, InitDriver,
        StartPrepare, RequestStop, StartPrepareCapture, DropBackend,
        DropBackendCapture
  <2> QED
    BY <1>1, <2>1
<1>3. CASE AssignBuffers
  <2>1. interleaved_buffer' = interleaved_buffer
    BY <1>3 DEF AssignBuffers
  <2> QED
    BY <1>3, <2>1 DEF AssignBuffers, Assigned, Both, DataTypeOK, Contents
<1>4. CASE JoinRun
  <2>1. CASE call = "stop"
    BY <1>4, <2>1 DEF JoinRun, Join, Aged, DataTypeOK, Contents, Stored
  <2>2. CASE call # "stop"
    <3>1. allocated' = {}
      BY <1>4, <2>2 DEF JoinRun, Join, ReleaseBuffers, NoObject
    <3> QED
      BY <1>4, <2>2, <3>1 DEF JoinRun, Both, DataTypeOK, Contents, Stored
  <2> QED
    BY <2>1, <2>2
<1>5. CASE FreeBuffers
  <2>1. allocated' = {}
    BY <1>5 DEF FreeBuffers, DisposePrepared, Destroy, ReleaseBuffers, NoObject
  <2> QED
    BY <1>5, <2>1 DEF FreeBuffers, Both, DataTypeOK, Contents, Stored
<1> QED
  BY <1>2, <1>3, <1>4, <1>5, AudioDataType DEF DataNext

\* Halves have contents while their ports have storage, and what is sent is
\* never what has none, for any ports and sizes.
THEOREM DataTypeCorrect == DataSpec => []DataTypeOK
<1>1. DataInit => DataTypeOK /\ Chosen
  BY DEF DataInit, Init, DataTypeOK, Chosen, Both, Contents, Stored
<1>2. IInv /\ SetupInv /\ Chosen /\ DataTypeOK /\ [DataNext]_<<vars, dataVars>>
        => (Chosen /\ DataTypeOK)'
  BY DataStepMaps, ChosenNext, DataTypeNext
<1> QED
  BY <1>1, <1>2, DataAddsNothing, Inductive, SetupInductive, PTL DEF DataSpec


\* While a run lasts, the calls of the host and the hardware change neither
\* the buffers nor what the audio thread knows of them.
LEMMA BuffersAreTheThreads ==
  ASSUME IInv,
         AssignBuffers \/ JoinRun \/ FreeBuffers \/ HostElsewhere
           \/ (HardwareNext /\ UNCHANGED dataVars)
           \/ UNCHANGED <<vars, dataVars>>
  PROVE  \/ apc' \in {"none", "begin"}
         \/ UNCHANGED <<threadVars, capture_active, active, dataVars>>
<1>1. CASE AssignBuffers \/ FreeBuffers
  <2>1. state # "Running" /\ AwayFromThread
    BY <1>1 DEF AssignBuffers, FreeBuffers, CreateBuffers,
                CreateBuffersInvalid, DisposePrepared, Destroy, AwayFromThread
  <2>2. apc = "none" /\ apc' = apc
    BY <2>1, AwayKeeps DEF IInv, Life, threadVars
  <2> QED
    BY <2>2
<1>2. CASE JoinRun
  BY <1>2 DEF JoinRun, Join
<1>3. CASE HostElsewhere
  <2>1. CASE NewDriver \/ InitDriver
    <3>1. UNCHANGED <<capture_active, active>> /\ AwayFromThread
      BY <2>1 DEF NewDriver, InitDriver, AwayFromThread
    <3> QED
      BY <1>3, <3>1, AwayKeeps DEF HostElsewhere
  <2>2. CASE StartPrepare \/ StartPrepareCapture
    BY <2>2, StartFacts
  <2>3. CASE RequestStop \/ DropBackend \/ DropBackendCapture
    <3>1. UNCHANGED <<capture_active, active>> /\ AwayFromThread
      BY <2>3 DEF RequestStop, DropBackend, DropBackendCapture, lifeVars,
                  AwayFromThread
    <3> QED
      BY <1>3, <3>1, AwayKeeps DEF HostElsewhere
  <2> QED
    BY <1>3, <2>1, <2>2, <2>3 DEF HostElsewhere
<1>4. CASE HardwareNext /\ UNCHANGED dataVars
  BY <1>4 DEF HardwareNext, lifeVars
<1>5. CASE UNCHANGED <<vars, dataVars>>
  BY <1>5 DEF vars, lifeVars
<1> QED
  BY <1>1, <1>2, <1>3, <1>4, <1>5

LEMMA FreshNext ==
  IInv /\ DataTypeOK /\ ShowsFreshInput /\ [DataNext]_<<vars, dataVars>> =>
    ShowsFreshInput'
<1> SUFFICES ASSUME IInv, DataTypeOK, ShowsFreshInput,
                    [DataNext]_<<vars, dataVars>>
             PROVE  ShowsFreshInput'
  OBVIOUS
<1>1. CASE apc' \notin {"first", "switch"}
  BY <1>1 DEF ShowsFreshInput
<1>2. CASE UNCHANGED <<threadVars, capture_active, active, dataVars>>
  BY <1>2 DEF ShowsFreshInput, threadVars, dataVars
<1>3. CASE AssignBuffers \/ JoinRun \/ FreeBuffers \/ HostElsewhere
           \/ (HardwareNext /\ UNCHANGED dataVars)
           \/ UNCHANGED <<vars, dataVars>>
  BY <1>1, <1>2, <1>3, BuffersAreTheThreads
<1>4. ASSUME UNCHANGED <<lifeVars, hostVars, stop>>,
             BeginRun \/ FirstBlock \/ NextBlock \/ InputBlock \/ OutputBlock
               \/ AudioElsewhere
      PROVE  ShowsFreshInput'
  <2>1. CASE BeginRun
    BY <1>4, <2>1
    DEF BeginRun, Begin, Goto, ShowsFreshInput, DataTypeOK, lifeVars
  <2>2. CASE InputBlock
    <3>1. CASE apc' = "switch"
      <4>1. lastHalf' = index /\ index \in 0..1
        BY <2>2, <3>1
        DEF InputBlock, InputDone, Goto, Exit, IInv, ThreadTypeOK
      <4> QED
        BY <1>4, <2>2, <3>1, <4>1
        DEF InputBlock, ShowsFreshInput, DataTypeOK, lifeVars
    <3>2. CASE apc' # "switch"
      <4>1. apc' # "first"
        BY <2>2 DEF InputBlock, InputDone, Goto, Exit
      <4> QED
        BY <1>1, <3>2, <4>1
    <3> QED
      BY <3>1, <3>2
  <2>3. CASE FirstBlock \/ NextBlock \/ OutputBlock
    <3>1. apc' \notin {"first", "switch"}
      BY <2>3 DEF FirstBlock, FirstSwitched, NextBlock, FillDone, OutputBlock,
                  Switched, Goto, Exit
    <3> QED
      BY <1>1, <3>1
  <2>4. CASE AudioElsewhere
    <3>1. apc' \notin {"first", "switch"}
      <4>1. CASE StartStreams \/ StartStreamsPlayback
        BY <4>1, StartOutcomes
      <4>2. CASE ~(StartStreams \/ StartStreamsPlayback)
        BY <2>4, <4>2
        DEF AudioElsewhere, Fill, Launch, Loop, Read, WaitPeriod, Output,
            OutputDone, Recover, Reprepare, ReprepareCapture, Reprepared,
            Write, Goto, Exit
      <4> QED
        BY <4>1, <4>2
    <3> QED
      BY <1>1, <3>1
  <2> QED
    BY <1>4, <2>1, <2>2, <2>3, <2>4
<1> QED
  BY <1>3, <1>4 DEF DataNext

\* Every bufferSwitch shows the host silence, in the first, or the block that
\* was just read: with any number of ports, through stop, start and recovery.
THEOREM InputIsFresh == DataSpec => []ShowsFreshInput
<1>1. DataInit => ShowsFreshInput
  BY DEF DataInit, Init, ShowsFreshInput
<1> QED
  BY <1>1, FreshNext, DataAddsNothing, Inductive, DataTypeCorrect, PTL
  DEF DataSpec

LEMMA ReadyNext ==
  IInv /\ SetupInv /\ CycleInv /\ DataTypeOK /\ HostBlockReady
    /\ OnlyFirstBlockIsStale /\ [DataNext]_<<vars, dataVars>> =>
      (HostBlockReady /\ OnlyFirstBlockIsStale)'
<1> SUFFICES ASSUME IInv, SetupInv, CycleInv, DataTypeOK, HostBlockReady,
                    OnlyFirstBlockIsStale, [DataNext]_<<vars, dataVars>>
             PROVE  (HostBlockReady /\ OnlyFirstBlockIsStale)'
  OBVIOUS
<1>1. CASE apc' \notin {"fill", "fillDone", "output"}
  BY <1>1 DEF HostBlockReady, OnlyFirstBlockIsStale
<1>2. CASE UNCHANGED <<threadVars, capture_active, active, dataVars>>
  <2>1. Plays' = Plays
    BY <1>2 DEF Plays
  <2> QED
    BY <1>2, <2>1
    DEF HostBlockReady, OnlyFirstBlockIsStale, threadVars, dataVars
<1>3. CASE AssignBuffers \/ JoinRun \/ FreeBuffers \/ HostElsewhere
           \/ (HardwareNext /\ UNCHANGED dataVars)
           \/ UNCHANGED <<vars, dataVars>>
  BY <1>1, <1>2, <1>3, BuffersAreTheThreads
<1>4. output_half \in [0..1 -> Contents] /\ index \in 0..1 /\ blocks \in Int
  BY RecoveryCount DEF DataTypeOK, IInv, ThreadTypeOK, FirstBlocks
<1>5. ASSUME UNCHANGED <<lifeVars, hostVars, stop>>,
             BeginRun \/ FirstBlock \/ NextBlock \/ InputBlock \/ OutputBlock
               \/ AudioElsewhere
      PROVE  (HostBlockReady /\ OnlyFirstBlockIsStale)'
  <2>1. Plays' = Plays
    BY <1>5 DEF lifeVars, Plays
  <2>2. CASE BeginRun \/ InputBlock
    <3>1. apc' \notin {"fill", "fillDone", "output"}
      BY <2>2 DEF BeginRun, Begin, InputBlock, InputDone, Goto, Exit
    <3> QED
      BY <1>1, <3>1
  <2>3. CASE FirstBlock
    <3>1. CASE apc' = "fill"
      <4>1. blocks' = 2 /\ recovering' = recovering /\ Interleave(Filled(0), 1)
        BY <2>3, <3>1 DEF FirstBlock, FirstSwitched, Goto, Exit, FirstBlocks
      <4>2. Plays => output_half'[0] = "new"
        BY <1>4, <4>1 DEF Interleave, Filled
      <4> QED
        BY <2>1, <3>1, <4>1, <4>2
        DEF HostBlockReady, OnlyFirstBlockIsStale, FirstBlocks
    <3>2. CASE apc' # "fill"
      <4>1. apc' = "exited"
        BY <2>3, <3>2 DEF FirstBlock, FirstSwitched, Goto, Exit
      <4> QED
        BY <1>1, <4>1
    <3> QED
      BY <3>1, <3>2
  <2>4. CASE NextBlock
    <3>1. apc = "fillDone" /\ UNCHANGED <<recovering, blocks>>
      BY <2>4 DEF NextBlock, FillDone
    <3>2. CASE apc' = "fill" /\ ~recovering
      <4>1. Interleave(output_half, 0) /\ blocks > 0
        BY <2>4, <3>2 DEF NextBlock, FillDone, Goto, Exit
      <4>2. Plays => blocks = 1 /\ output_half[0] = "new"
        BY <3>1, <3>2, <4>1 DEF HostBlockReady
      <4>3. Plays => interleaved_buffer' = "new"
        BY <4>1, <4>2 DEF Interleave
      <4> QED
        BY <2>1, <3>1, <3>2, <4>2, <4>3
        DEF HostBlockReady, OnlyFirstBlockIsStale
    <3>3. CASE apc' = "fill" /\ recovering
      BY <3>1, <3>3 DEF HostBlockReady, OnlyFirstBlockIsStale
    <3>4. CASE apc' # "fill"
      <4>1. apc' \in {"exited", "launch"}
        BY <2>4, <3>4 DEF NextBlock, FillDone, Goto, Exit
      <4> QED
        BY <1>1, <4>1
    <3> QED
      BY <3>2, <3>3, <3>4
  <2>5. CASE OutputBlock
    <3>1. apc' = "output" /\ Interleave(Filled(index), index)
      BY <2>5 DEF OutputBlock, Switched, Goto
    <3>2. Plays => interleaved_buffer' = "new"
      BY <1>4, <3>1 DEF Interleave, Filled
    <3> QED
      BY <2>1, <3>1, <3>2 DEF HostBlockReady, OnlyFirstBlockIsStale
  <2>6. CASE AudioElsewhere
    <3>1. UNCHANGED dataVars
      BY <2>6 DEF AudioElsewhere
    <3>2. CASE Fill
      <4>1. /\ apc = "fill" /\ recovering' = recovering
            /\ \/ apc' = "fill" /\ blocks' = blocks
               \/ apc' = "fillDone" /\ blocks' = blocks - 1
        BY <3>2 DEF Fill, Write, Goto
      <4> QED
        BY <1>4, <2>1, <3>1, <4>1
        DEF HostBlockReady, OnlyFirstBlockIsStale, dataVars
    <3>3. CASE Output
      <4>1. /\ apc = "output" /\ recovering' = recovering
            /\ apc' \in {"output", "outputDone"}
        BY <3>3 DEF Output, Write, Goto
      <4> QED
        BY <2>1, <3>1, <4>1
        DEF HostBlockReady, OnlyFirstBlockIsStale, dataVars
    <3>4. CASE Reprepare \/ ReprepareCapture
      <4>1. recovering /\ recovering' = recovering
        BY <3>4 DEF Reprepare, ReprepareCapture, CycleInv, Switching
      <4>2. apc' \notin {"fill", "output"}
        BY <3>4 DEF Reprepare, ReprepareCapture, Reprepared, Goto, Exit
      <4> QED
        BY <4>1, <4>2 DEF HostBlockReady, OnlyFirstBlockIsStale
    <3>5. CASE StartStreams \/ StartStreamsPlayback
      BY <1>1, <3>5, StartOutcomes
    <3>6. CASE Launch \/ Loop \/ Read \/ WaitPeriod \/ OutputDone \/ Recover
      <4>1. apc' \notin {"fill", "fillDone", "output"}
        BY <3>6 DEF Launch, Loop, Read, WaitPeriod, OutputDone, Recover, Goto,
                    Exit
      <4> QED
        BY <1>1, <4>1
    <3> QED
      BY <2>6, <3>2, <3>3, <3>4, <3>5, <3>6 DEF AudioElsewhere
  <2> QED
    BY <1>5, <2>2, <2>3, <2>4, <2>5, <2>6
<1> QED
  BY <1>3, <1>5 DEF DataNext

\* After the first block of a run the device plays what the host has filled in
\* that run, each half once, or the silence of a recovery, for any ports.
THEOREM OutputIsTheHosts == DataSpec => []OnlyFirstBlockIsStale
<1>1. DataInit => HostBlockReady /\ OnlyFirstBlockIsStale
  BY DEF DataInit, Init, HostBlockReady, OnlyFirstBlockIsStale, Plays
<1> QED
  BY <1>1, ReadyNext, DataAddsNothing, CycleInductive, DataTypeCorrect, PTL
  DEF DataSpec

=============================================================================
