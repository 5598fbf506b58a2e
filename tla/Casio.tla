------------------------------- MODULE Casio -------------------------------
(***************************************************************************)
(* class CASIO, the ASIO driver object a host application loads, on top of *)
(* the alsa_control it drives.                                             *)
(*                                                                         *)
(* Two threads share it.  The host thread calls init, createBuffers,       *)
(* start, stop, disposeBuffers and the last Release.  start() spawns the   *)
(* audio thread, which fills the playback buffer, starts the streams and   *)
(* then, for every half of the double buffer, waits for the hardware,      *)
(* calls bufferSwitch and writes the half.  They meet in three places: the *)
(* stop token of the jthread, backend_state_mutex (held around             *)
(* start_backend and stop_backend only) and join.                          *)
(*                                                                         *)
(* Each action runs from one point where the other thread or the hardware  *)
(* can matter to the next: one ioctl, one test of the stop token, one      *)
(* acquisition of the mutex, one callback.                                 *)
(*                                                                         *)
(* Assumed of the host: it calls the driver from one thread at a time (the *)
(* class is registered ThreadingModel=Apartment), it does not call stop,   *)
(* disposeBuffers or Release from inside a callback, and callbacks return. *)
(* Ghost: lastHalf, the argument of the last bufferSwitch of this start.   *)
(***************************************************************************)
EXTENDS AlsaControl

CONSTANTS
  Block,         \* asio_buffer_size, frames in half a double buffer
  Channels,      \* the channels of each direction
  PositionWrap   \* modulus of sample_position (2^64 in the code)

ASSUME BlockAssumption ==
  /\ Block \in Nat \ {0}
  /\ Buffer % Block = 0
  /\ PositionWrap \in Nat \ {0}
  /\ PositionWrap % (2 * Block) = 0

VARIABLES
  state,                 \* CASIO::state, and "Deleted" without an object
  is_capture_available,
  capture_active,
  active,                \* input_active, output_active
  allocated,             \* ports whose two halves have storage
  callbacks,             \* the host's callbacks are installed
  hpc,                   \* where the host thread is inside a call
  call,                  \* the call that is stopping the stream
  stop,                  \* audio_thread.get_stop_token().stop_requested()
  mutex,                 \* owner of backend_state_mutex
  apc,                   \* where the audio thread is
  index,                 \* its local index
  lastHalf,              \* ghost: last bufferSwitch argument, -1 before
  ar,                    \* result of its last backend transfer
  rem,                   \* frames left of the transfer under way
  blocks,                \* blocks left to prefill
  recovering,            \* it is inside recover_xrun
  sample_position

lifeVars == <<state, is_capture_available, capture_active, active, allocated,
              callbacks>>
hostVars == <<hpc, call>>
threadVars == <<apc, index, lastHalf, ar, rem, blocks, recovering>>
vars == <<alsaVars, lifeVars, hostVars, stop, mutex, threadVars,
          sample_position>>

Ports == {"in", "out"} \X Channels

\* Mutants of the two constants below: one block of prefill too many.
FirstBlocksPlusOne == 3
RecoveryBlocksPlusOne == Buffer \div Block + 1

\* Blocks written before the streams start: two by start(), then as many as
\* fill the playback buffer in recover_xrun.
FirstBlocks == 2
RecoveryBlocks == Buffer \div Block

\* State::..., before the class factory makes the object and after delete.
LifeStates == {"Created", "Initialized", "Prepared", "Running", "Deleted"}

HostSteps == {"idle", "preparing", "dropping", "droppingCapture", "joining"}

AudioSteps == {"none", "begin", "first", "fillDone", "fill", "launch",
               "starting", "startingPlayback", "loop", "input", "inputDone",
               "switch", "output", "outputDone", "recover", "reprepare",
               "reprepareCapture", "exited"}

TypeOK ==
  /\ AlsaTypeOK
  /\ state \in LifeStates
  /\ is_capture_available \in BOOLEAN
  /\ capture_active \in BOOLEAN
  /\ active \subseteq Ports
  /\ allocated \subseteq Ports
  /\ callbacks \in BOOLEAN
  /\ hpc \in HostSteps
  /\ call \in {"none", "stop", "dispose", "destroy"}
  /\ stop \in BOOLEAN
  /\ mutex \in {"free", "host", "audio"}
  /\ apc \in AudioSteps
  /\ index \in 0..1
  /\ lastHalf \in -1..1
  /\ ar \in {"ok", "xrun", "error"}
  /\ rem \in 0..Block
  /\ blocks \in 0..(FirstBlocks + RecoveryBlocks)
  /\ recovering \in BOOLEAN
  /\ sample_position \in 0..(PositionWrap - 1)

Init ==
  /\ AlsaInit
  /\ state = "Created"
  /\ is_capture_available = FALSE
  /\ capture_active = FALSE
  /\ active = {}
  /\ allocated = {}
  /\ callbacks = FALSE
  /\ hpc = "idle"
  /\ call = "none"
  /\ stop = FALSE
  /\ mutex = "free"
  /\ apc = "none"
  /\ index = 0
  /\ lastHalf = -1
  /\ ar = "ok"
  /\ rem = 0
  /\ blocks = 0
  /\ recovering = FALSE
  /\ sample_position = 0

\* sample_position.fetch_add(n)
Advance(n) == sample_position' = (sample_position + n) % PositionWrap

----------------------------------------------------------------------------
(* Host thread: calls that do not meet a live audio thread.                 *)

ThreadIdle == UNCHANGED <<stop, mutex, threadVars, sample_position>>

\* The members of a deleted object, as the next constructor sets them.
NoObject ==
  /\ state' = "Deleted"
  /\ is_capture_available' = FALSE
  /\ capture_active' = FALSE
  /\ active' = {}
  /\ allocated' = {}
  /\ callbacks' = FALSE
  /\ sample_position' = 0

\* The class factory makes another object once the last one is deleted.
NewDriver ==
  /\ hpc = "idle" /\ state = "Deleted"
  /\ state' = "Created"
  /\ UNCHANGED <<alsaVars, is_capture_available, capture_active, active,
                 allocated, callbacks, hostVars>>
  /\ ThreadIdle

\* init(): backend_initialized becomes true with this state. The code tests
\* no state; init_backend fails while the control is open.
InitDriver ==
  /\ hpc = "idle" /\ state # "Deleted"
  /\ InitAlsa
  /\ state' = "Initialized"
  /\ is_capture_available' = (pcm'["capture"] # "closed")
  /\ UNCHANGED <<capture_active, active, allocated, callbacks, hostVars>>
  /\ ThreadIdle

\* Ports createBuffers accepts.
OfferedPorts == {p \in Ports : p[1] = "in" => is_capture_available}

\* createBuffers() that meets a bad or repeated channel after the ports in
\* done: the flags and the storage set so far stay.
CreateBuffersInvalid ==
  /\ hpc = "idle" /\ state = "Initialized"
  /\ \E done \in (SUBSET OfferedPorts) \ {Ports} :
        /\ active' = done
        /\ allocated' = allocated \cup done
  /\ UNCHANGED <<alsaVars, state, is_capture_available, capture_active,
                 callbacks, hostVars>>
  /\ ThreadIdle

\* createBuffers() with a valid list; set_backend_buffer may fail.
CreateBuffers ==
  /\ hpc = "idle" /\ state = "Initialized"
  /\ \E ports \in (SUBSET OfferedPorts) \ {{}}, ok \in BOOLEAN :
        /\ active' = ports
        /\ allocated' = allocated \cup ports
        /\ callbacks' = TRUE
        /\ capture_active' = (\E p \in ports : p[1] = "in")
        /\ SetBuffer(capture_active', ok)
        /\ state' = IF ok THEN "Prepared" ELSE state
  /\ UNCHANGED <<is_capture_available, hostVars>>
  /\ ThreadIdle

\* disposeBuffers() from Prepared on.
ReleaseBuffers ==
  /\ allocated' = {}
  /\ active' = {}
  /\ callbacks' = FALSE
  /\ state' = "Initialized"
  /\ UNCHANGED <<is_capture_available, capture_active>>

\* Mutant of DisposePrepared: disposeBuffers that does not stop first.
DisposeWithoutStop ==
  /\ hpc = "idle" /\ state \in {"Prepared", "Running"}
  /\ ReleaseBuffers
  /\ UNCHANGED <<alsaVars, hostVars>>
  /\ ThreadIdle

DisposePrepared ==
  /\ hpc = "idle" /\ state = "Prepared"
  /\ ReleaseBuffers
  /\ UNCHANGED <<alsaVars, hostVars>>
  /\ ThreadIdle

\* ~CASIO() without a stream to stop.
Destroy ==
  /\ hpc = "idle" /\ state \in {"Created", "Initialized", "Prepared"}
  /\ NoObject
  /\ IF state = "Created" THEN UNCHANGED alsaVars ELSE UninitAlsa
  /\ UNCHANGED <<hostVars, stop, mutex, threadVars>>

----------------------------------------------------------------------------
(* Host thread: start() and the calls that stop a stream.                   *)

\* The rest of start(): the audio thread exists from here on.
Spawn ==
  /\ state' = "Running"
  /\ apc' = "begin"
  /\ hpc' = "idle"

\* start() up to its first ioctl; a failed prepare_backend ends it.
StartPrepare ==
  /\ hpc = "idle" /\ state = "Prepared"
  /\ PreparePlayback(TRUE)
  /\ IF SplitCapture
     THEN hpc' = "preparing" /\ UNCHANGED <<state, apc>>
     ELSE Spawn
  /\ UNCHANGED <<linked, capture_enabled, is_capture_available,
                 capture_active, active, allocated, callbacks, call, stop,
                 mutex, index, lastHalf, ar, rem, blocks, recovering,
                 sample_position>>

\* start(), second ioctl of prepare_backend; the playback PCM stays prepared
\* when it fails.
StartPrepareCapture ==
  /\ hpc = "preparing"
  /\ \/ PrepareCapture(TRUE) /\ Spawn
     \/ PrepareCapture(FALSE) /\ hpc' = "idle" /\ UNCHANGED <<state, apc>>
  /\ UNCHANGED <<linked, capture_enabled, is_capture_available,
                 capture_active, active, allocated, callbacks, call, stop,
                 mutex, index, lastHalf, ar, rem, blocks, recovering,
                 sample_position>>

\* Mutant of RequestStop: the streams are dropped with no stop requested.
StopWithoutRequest ==
  /\ hpc = "idle" /\ state = "Running"
  /\ hpc' = "dropping"
  /\ call' \in {"stop", "dispose", "destroy"}
  /\ UNCHANGED <<alsaVars, lifeVars, stop, mutex, threadVars,
                 sample_position>>

\* stop(), disposeBuffers() or ~CASIO() of a running stream: request_stop.
RequestStop ==
  /\ hpc = "idle" /\ state = "Running"
  /\ stop' = TRUE
  /\ hpc' = "dropping"
  /\ call' \in {"stop", "dispose", "destroy"}
  /\ UNCHANGED <<alsaVars, lifeVars, mutex, threadVars, sample_position>>

\* Mutant of DropBackend: stop() joins without stopping the backend.
JoinWithoutDrop ==
  /\ hpc = "dropping"
  /\ hpc' = "joining"
  /\ UNCHANGED <<alsaVars, lifeVars, call, stop, mutex, threadVars,
                 sample_position>>

\* stop_backend under backend_state_mutex; its result does not matter here.
DropBackend ==
  /\ hpc = "dropping" /\ mutex = "free"
  /\ DropPlayback
  /\ IF SplitCapture
     THEN hpc' = "droppingCapture" /\ mutex' = "host"
     ELSE hpc' = "joining" /\ UNCHANGED mutex
  /\ UNCHANGED <<linked, capture_enabled, lifeVars, call, stop, threadVars,
                 sample_position>>

DropBackendCapture ==
  /\ hpc = "droppingCapture"
  /\ DropCapture
  /\ hpc' = "joining"
  /\ mutex' = "free"
  /\ UNCHANGED <<linked, capture_enabled, lifeVars, call, stop, threadVars,
                 sample_position>>

\* join, and what the call does after stop(): the audio thread is over, so
\* its locals go back to their resting values.
Join ==
  /\ hpc = "joining" /\ apc = "exited"
  /\ hpc' = "idle" /\ call' = "none"
  /\ stop' = FALSE
  /\ apc' = "none" /\ index' = 0 /\ lastHalf' = -1 /\ ar' = "ok"
  /\ rem' = 0 /\ blocks' = 0 /\ recovering' = FALSE
  /\ UNCHANGED mutex
  /\ \/ /\ call = "stop"
        /\ state' = "Prepared"
        /\ UNCHANGED <<alsaVars, is_capture_available, capture_active,
                       active, allocated, callbacks, sample_position>>
     \/ /\ call = "dispose"
        /\ ReleaseBuffers
        /\ UNCHANGED <<alsaVars, sample_position>>
     \/ /\ call = "destroy"
        /\ NoObject
        /\ UninitAlsa

HostInCall == StartPrepareCapture \/ DropBackend \/ DropBackendCapture \/ Join

HostCalls ==
  \/ NewDriver \/ InitDriver \/ CreateBuffersInvalid \/ CreateBuffers
  \/ DisposePrepared \/ Destroy \/ StartPrepare \/ RequestStop

----------------------------------------------------------------------------
(* Audio thread.                                                            *)

Goto(l) == apc' = l
Exit == Goto("exited")

\* The position and the input half 0 are cleared, then bufferSwitch(0).
Begin ==
  /\ apc = "begin"
  /\ sample_position' = 0
  /\ lastHalf' = 0
  /\ Goto("first")
  /\ UNCHANGED <<alsaVars, mutex, index, ar, rem, blocks, recovering>>

\* bufferSwitch(0) returns.
FirstSwitched ==
  /\ apc = "first"
  /\ IF stop
     THEN Exit /\ UNCHANGED <<rem, blocks>>
     ELSE Goto("fill") /\ rem' = Block /\ blocks' = FirstBlocks
  /\ UNCHANGED <<alsaVars, mutex, index, lastHalf, ar, recovering,
                 sample_position>>

\* Mutant of Write: every snd_pcm_writei is given the whole block, not what is
\* left of it.
WriteWholeBlock(done) ==
  /\ \/ /\ Writable
        /\ LET n == WriteChunk(Block) IN
             /\ fill' = [fill EXCEPT !["playback"] = @ + n]
             /\ rem' = rem - n
             /\ IF n >= rem THEN Goto(done) /\ ar' = "ok"
                            ELSE UNCHANGED <<apc, ar>>
     \/ /\ ~Transferring("playback")
        /\ ar' = FaultOf("playback") /\ rem' = 0
        /\ Goto(done)
        /\ UNCHANGED fill
  /\ UNCHANGED <<linked, capture_enabled, pcm, mutex, index, lastHalf,
                 recovering, sample_position>>

\* write_backend, one snd_pcm_writei: done is where a finished transfer and
\* one that failed continue.
Write(done) ==
  /\ IF Writable
     THEN LET n == WriteChunk(rem) IN
            /\ fill' = [fill EXCEPT !["playback"] = @ + n]
            /\ rem' = rem - n
            /\ IF n = rem THEN Goto(done) /\ ar' = "ok"
                          ELSE UNCHANGED <<apc, ar>>
     ELSE /\ ~Transferring("playback")
          /\ ar' = FaultOf("playback")
          /\ rem' = 0
          /\ Goto(done)
          /\ UNCHANGED fill
  /\ UNCHANGED <<linked, capture_enabled, pcm, mutex, index, lastHalf,
                 recovering, sample_position>>

\* One block of the prefill.
Fill ==
  /\ apc = "fill"
  /\ Write("fillDone")
  /\ blocks' = IF apc' = "fillDone" THEN blocks - 1 ELSE blocks

\* Mutant of FillDone: the silence of a recovery is not added to the position.
FillDoneUncounted ==
  /\ apc = "fillDone"
  /\ IF ar # "ok" \/ (stop /\ (recovering => blocks > 0))
     THEN Exit /\ UNCHANGED rem
     ELSE IF blocks > 0 THEN Goto("fill") /\ rem' = Block
     ELSE Goto("launch") /\ UNCHANGED rem
  /\ UNCHANGED <<alsaVars, mutex, index, lastHalf, ar, blocks, recovering,
                 sample_position>>

\* Between two blocks of the prefill, and after the last. start() tests the
\* stop token after each block, recover_xrun before each.
FillDone ==
  /\ apc = "fillDone"
  /\ \/ /\ ar # "ok" \/ (stop /\ (recovering => blocks > 0))
        /\ Exit
        /\ UNCHANGED <<rem, sample_position>>
     \/ /\ ar = "ok" /\ ~stop /\ blocks > 0
        /\ Goto("fill")
        /\ rem' = Block
        /\ UNCHANGED sample_position
     \/ /\ ar = "ok" /\ blocks = 0 /\ (stop => recovering)
        /\ Goto("launch")
        /\ IF recovering THEN Advance(Buffer) ELSE UNCHANGED sample_position
        /\ UNCHANGED rem
  /\ UNCHANGED <<alsaVars, mutex, index, lastHalf, ar, blocks, recovering>>

\* backend_state_mutex is taken and the stop token tested under it.
Launch ==
  /\ apc = "launch" /\ mutex = "free"
  /\ IF stop
     THEN Exit /\ UNCHANGED mutex
     ELSE Goto("starting") /\ mutex' = "audio"
  /\ UNCHANGED <<alsaVars, index, lastHalf, ar, rem, blocks, recovering,
                 sample_position>>

\* Mutant of Launched: a recovery goes on as if the transfer had succeeded.
LaunchedOnwards(ok) ==
  /\ mutex' = "free"
  /\ IF ok
     THEN /\ Goto(IF recovering THEN "switch" ELSE "loop")
          /\ index' = IF recovering THEN index ELSE 1
     ELSE Exit /\ UNCHANGED index
  /\ UNCHANGED <<linked, capture_enabled, lastHalf, ar, rem, blocks,
                 recovering, sample_position>>

\* start_backend has returned and the mutex is released. After the first
\* start the loop begins with half 1.
Launched(ok) ==
  /\ mutex' = "free"
  /\ IF ok
     THEN Goto("loop") /\ index' = IF recovering THEN index ELSE 1
     ELSE Exit /\ UNCHANGED index
  /\ UNCHANGED <<linked, capture_enabled, lastHalf, ar, rem, blocks,
                 recovering, sample_position>>

\* Mutant of StartStreams: only the playback PCM is ever started.
StartPlaybackOnly ==
  /\ apc = "starting"
  /\ \E ok \in BOOLEAN : StartPlayback(ok) /\ Launched(ok)

\* start_backend, first ioctl: the capture PCM when it is not linked.
StartStreams ==
  /\ apc = "starting"
  /\ IF SplitCapture
     THEN \/ /\ StartCapture(TRUE)
             /\ Goto("startingPlayback")
             /\ UNCHANGED <<linked, capture_enabled, mutex, index, lastHalf,
                            ar, rem, blocks, recovering, sample_position>>
          \/ StartCapture(FALSE) /\ Launched(FALSE)
     ELSE \E ok \in BOOLEAN : StartPlayback(ok) /\ Launched(ok)

StartStreamsPlayback ==
  /\ apc = "startingPlayback"
  /\ \E ok \in BOOLEAN : StartPlayback(ok) /\ Launched(ok)

\* while (!stop.stop_requested())
Loop ==
  /\ apc = "loop"
  /\ IF stop
     THEN Exit /\ UNCHANGED rem
     ELSE Goto("input") /\ rem' = IF capture_active THEN Block ELSE 0
  /\ UNCHANGED <<alsaVars, mutex, index, lastHalf, ar, blocks, recovering,
                 sample_position>>

\* read_backend, one snd_pcm_readi.
Read ==
  /\ apc = "input" /\ capture_active
  /\ IF Readable
     THEN LET n == ReadChunk(rem) IN
            /\ fill' = [fill EXCEPT !["capture"] = @ - n]
            /\ rem' = rem - n
            /\ IF n = rem THEN Goto("inputDone") /\ ar' = "ok"
                          ELSE UNCHANGED <<apc, ar>>
     ELSE /\ ~Transferring("capture")
          /\ ar' = FaultOf("capture")
          /\ rem' = 0
          /\ Goto("inputDone")
          /\ UNCHANGED fill
  /\ UNCHANGED <<linked, capture_enabled, pcm, mutex, index, lastHalf,
                 blocks, recovering, sample_position>>

\* wait_backend_period
WaitPeriod ==
  /\ apc = "input" /\ ~capture_active
  /\ ar' \in WaitResults
  /\ Goto("inputDone")
  /\ UNCHANGED <<alsaVars, mutex, index, lastHalf, rem, blocks, recovering,
                 sample_position>>

\* The input half is filled, the position advances, bufferSwitch(index).
InputDone ==
  /\ apc = "inputDone"
  /\ IF stop \/ ar # "ok"
     THEN /\ IF ~stop /\ ar = "xrun" THEN Goto("recover") ELSE Exit
          /\ UNCHANGED <<lastHalf, sample_position>>
     ELSE /\ Goto("switch")
          /\ Advance(Block)
          /\ lastHalf' = index
  /\ UNCHANGED <<alsaVars, mutex, index, ar, rem, blocks, recovering>>

\* bufferSwitch(index) returns and the half is interleaved.
Switched ==
  /\ apc = "switch"
  /\ Goto("output")
  /\ rem' = Block
  /\ UNCHANGED <<alsaVars, mutex, index, lastHalf, ar, blocks, recovering,
                 sample_position>>

Output ==
  /\ apc = "output"
  /\ Write("outputDone")
  /\ UNCHANGED blocks

\* Mutant of OutputDone: the index stays when the write met an underrun.
OutputDoneUntoggled ==
  /\ apc = "outputDone"
  /\ IF stop \/ ar = "error"
     THEN Exit /\ UNCHANGED index
     ELSE /\ index' = IF ar = "xrun" THEN index ELSE 1 - index
          /\ Goto(IF ar = "xrun" THEN "recover" ELSE "loop")
  /\ UNCHANGED <<alsaVars, mutex, lastHalf, ar, rem, blocks, recovering,
                 sample_position>>

\* A half lost to an underrun is not written again: the loop moves on.
OutputDone ==
  /\ apc = "outputDone"
  /\ IF stop \/ ar = "error"
     THEN Exit /\ UNCHANGED index
     ELSE /\ index' = 1 - index
          /\ Goto(IF ar = "xrun" THEN "recover" ELSE "loop")
  /\ UNCHANGED <<alsaVars, mutex, lastHalf, ar, rem, blocks, recovering,
                 sample_position>>

\* recover_xrun up to prepare_backend; the overload notice is a callback.
Recover ==
  /\ apc = "recover"
  /\ IF stop
     THEN Exit /\ UNCHANGED recovering
     ELSE Goto("reprepare") /\ recovering' = TRUE
  /\ UNCHANGED <<alsaVars, mutex, index, lastHalf, ar, rem, blocks,
                 sample_position>>

\* prepare_backend has succeeded: a buffer of silence is to be written.
Reprepared ==
  /\ Goto("fillDone")
  /\ ar' = "ok"
  /\ blocks' = RecoveryBlocks

\* prepare_backend in recover_xrun, outside the mutex.
Reprepare ==
  /\ apc = "reprepare"
  /\ \/ /\ PreparePlayback(TRUE)
        /\ IF SplitCapture
           THEN Goto("reprepareCapture") /\ UNCHANGED <<ar, blocks>>
           ELSE Reprepared
     \/ PreparePlayback(FALSE) /\ Exit /\ UNCHANGED <<ar, blocks>>
  /\ UNCHANGED <<linked, capture_enabled, mutex, index, lastHalf, rem,
                 recovering, sample_position>>

ReprepareCapture ==
  /\ apc = "reprepareCapture"
  /\ \/ PrepareCapture(TRUE) /\ Reprepared
     \/ PrepareCapture(FALSE) /\ Exit /\ UNCHANGED <<ar, blocks>>
  /\ UNCHANGED <<linked, capture_enabled, mutex, index, lastHalf, rem,
                 recovering, sample_position>>

\* The audio thread changes nothing of the object but its position.
AudioNext ==
  /\ \/ Begin \/ FirstSwitched \/ Fill \/ FillDone \/ Launch
     \/ StartStreams \/ StartStreamsPlayback \/ Loop \/ Read
     \/ WaitPeriod \/ InputDone \/ Switched \/ Output \/ OutputDone
     \/ Recover \/ Reprepare \/ ReprepareCapture
  /\ UNCHANGED <<lifeVars, hostVars, stop>>

----------------------------------------------------------------------------
HardwareNext ==
  /\ Hardware
  /\ UNCHANGED <<lifeVars, hostVars, stop, mutex, threadVars,
                 sample_position>>

Next == HostInCall \/ HostCalls \/ AudioNext \/ HardwareNext

Spec == Init /\ [][Next]_vars

\* The audio thread is scheduled, callbacks return and the host thread goes
\* on inside a call of the driver. The device promises nothing.
ThreadsSpec == Spec /\ WF_vars(AudioNext) /\ WF_vars(HostInCall)

\* In addition the clock of a running stream goes on.
TickNext(s) ==
  /\ Tick(s)
  /\ UNCHANGED <<lifeVars, hostVars, stop, mutex, threadVars,
                 sample_position>>
ClockSpec == ThreadsSpec /\ \A s \in Streams : WF_vars(TickNext(s))

----------------------------------------------------------------------------
(* Safety.                                                                  *)

\* Outside Running the driver is at rest: no audio thread is left over (the
\* destructor's "defensive fallback" for one has nothing to do) and no stream
\* runs, whichever of stop, disposeBuffers and Release ended the run.
StoppedIsSilent ==
  state # "Running" =>
    /\ apc = "none"
    /\ \A s \in Streams : pcm[s] # "running"

\* Once stop() has dropped the streams and waits for the audio thread, that
\* thread does not start them again, even from inside recover_xrun, which
\* prepares and fills them outside backend_state_mutex.
DropIsFinal ==
  hpc = "joining" => \A s \in Streams : pcm[s] # "running"

\* While the audio thread can touch them, the buffers of the active ports,
\* the callbacks and the PCM handles it uses exist.
LiveThreadOwnsBuffers ==
  apc \notin {"none", "exited"} =>
    /\ active # {} /\ active \subseteq allocated
    /\ callbacks
    /\ pcm["playback"] # "closed"
    /\ capture_active => pcm["capture"] # "closed"

\* The half a bufferSwitch names and the position getSamplePosition reports
\* stay in step, through both kinds of xrun recovery.
HalfMatchesPosition ==
  lastHalf # -1 => (sample_position \div Block) % 2 = lastHalf

\* Before the streams start, a block of the prefill or of recovery's silence
\* always fits: with start_threshold above the buffer size nothing would ever
\* drain a playback buffer overfilled there.
PrefillFits ==
  apc = "fill" /\ pcm["playback"] = "prepared" =>
    fill["playback"] + rem <= Buffer

\* After a successful createBuffers both sides agree on whether input is
\* read, whatever an earlier set_buffer left behind, and a linked pair is
\* one that capture uses.
ConfigAgreement ==
  state \in {"Prepared", "Running"} =>
    /\ capture_active = capture_enabled
    /\ linked => capture_enabled
    /\ capture_active => is_capture_available
    /\ is_capture_available = CaptureInitialized

\* The audio thread never waits for a stream that nobody has started.
WaitsOnlyOnStarted ==
  apc = "input" =>
    /\ pcm["playback"] # "prepared"
    /\ capture_active => pcm["capture"] # "prepared"

\* Mutant of OutputLatency: a block is taken off instead of a period.
OutputLatencyShort == Buffer - Block

\* getLatencies: the output latency reported to the host.
OutputLatency == Buffer - Period

\* The playback stream paces the audio thread, by itself or through a capture
\* stream linked to it; a capture stream that is not linked has its own pace.
PacedByPlayback == ~SplitCapture

\* When the playback stream paces the thread and a host is asked for a half of a
\* running stream, no more frames are queued ahead of it in the ring buffer than
\* the output latency getLatencies reports. Of an unlinked capture stream this
\* is not said: the code reports the same constant, yet up to a whole buffer may
\* be queued. Nor is it said when the half is heard, which the device's own
\* delay puts off further (README measures 174 frames for 160 reported).
QueuedWithinLatency ==
  apc = "switch" /\ pcm["playback"] = "running" /\ PacedByPlayback =>
    fill["playback"] <= OutputLatency

\* The round trip is the same for a whole run, recoveries included: with the
\* two streams linked, a host that gets a block finds what waits to be played
\* and to be read a block short of a full buffer. README's benchmark measures
\* it ten times over.
RoundTripFixed ==
  apc = "switch" /\ linked /\ pcm["playback"] = "running" =>
    fill["playback"] + fill["capture"] = Buffer - Block

\* recover_xrun prepares streams that have stopped; snd_pcm_prepare refuses a
\* running one. Two streams that are not linked are the exception.
RecoveryFindsStreamsStopped ==
  apc = "reprepare" /\ ~SplitCapture => pcm["playback"] # "running"

----------------------------------------------------------------------------
(* Refinement.                                                              *)

\* The prefill counts as accounted for; recovery's silence once it is in.
Accounted ==
  \/ apc \in {"launch", "starting", "startingPlayback"}
  \/ apc \in {"first", "fill", "fillDone"} /\ ~recovering

Contract == INSTANCE AsioContract WITH
  Silence <- Buffer,
  phase <- state,
  half <- lastHalf,
  position <- sample_position,
  ready <- Accounted,
  sounding <- (pcm["playback"] = "running")

\* The driver keeps the contract of AsioContract: halves alternate from 0,
\* each switch advances the position by a block, an interruption by the
\* silence that bridges it, and sound is confined to Running.
KeepsContract == Contract!Spec

----------------------------------------------------------------------------
(* Liveness.                                                                *)

\* stop, disposeBuffers and Release return, even when the device has stopped
\* delivering: dropping the streams frees an audio thread blocked on them.
StopReturns == (hpc # "idle") ~> (hpc = "idle")

\* While the clocks of running streams go on, no read, wait or write of the
\* audio thread blocks for ever.
TransfersReturn ==
  (apc \in {"input", "output", "fill"}) ~>
    (apc \notin {"input", "output", "fill"})

============================================================================
