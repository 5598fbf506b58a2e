---------------------------- MODULE CasioProofs ----------------------------
(***************************************************************************)
(* Casio.tla is type correct, at rest outside Running, and does not start  *)
(* a stream again once stop() has dropped it: for any block, period and    *)
(* buffer sizes that BlockAssumption and GeometryAssumption admit, and any *)
(* set of channels.                                                        *)
(***************************************************************************)
EXTENDS Casio, AlsaControlProofs

\* The types of what the audio thread writes.
ThreadTypeOK ==
  /\ apc \in AudioSteps
  /\ index \in 0..1
  /\ lastHalf \in -1..1
  /\ ar \in {"ok", "xrun", "error"}
  /\ rem \in 0..Block
  /\ blocks \in 0..(FirstBlocks + RecoveryBlocks)
  /\ recovering \in BOOLEAN
  /\ sample_position \in 0..(PositionWrap - 1)

\* The types of the object and of the host thread.
HostTypeOK ==
  /\ state \in LifeStates
  /\ is_capture_available \in BOOLEAN
  /\ capture_active \in BOOLEAN
  /\ active \subseteq Ports
  /\ allocated \subseteq Ports
  /\ callbacks \in BOOLEAN
  /\ hpc \in HostSteps
  /\ call \in {"none", "stop", "dispose", "destroy"}
  /\ stop \in BOOLEAN
  /\ mutex \in {"free", "host", "audio"}

\* The audio thread exists exactly in Running, the control is open from
\* Initialized on, and only Running has running streams.
Life ==
  /\ state = "Running" <=> apc # "none"
  /\ state \in {"Initialized", "Prepared", "Running"} =>
       pcm["playback"] # "closed"
  /\ \A s \in Streams : pcm[s] = "running" => state = "Running"

\* What the host thread knows inside start() and inside stop().
HostInside ==
  /\ hpc = "preparing" => state = "Prepared"
  /\ hpc \in {"dropping", "droppingCapture", "joining"} =>
       state = "Running" /\ stop

\* The steps at which each thread holds backend_state_mutex.
Starting == {"starting", "startingPlayback"}
MutexOwner ==
  /\ mutex = "audio" <=> apc \in Starting
  /\ mutex = "host" <=> hpc = "droppingCapture"

\* stop_backend reaches every stream that runs.
CaptureUsed == pcm["capture"] = "running" => linked \/ capture_enabled

\* What stop() has dropped stays stopped.
Dropped ==
  /\ hpc = "droppingCapture" => SplitCapture /\ pcm["playback"] # "running"
  /\ hpc = "joining" =>
       apc \notin Starting /\ \A s \in Streams : pcm[s] # "running"

FillCounts == apc = "fill" => blocks > 0

IInv ==
  /\ AlsaInv /\ HostTypeOK /\ ThreadTypeOK
  /\ Life /\ HostInside /\ MutexOwner /\ CaptureUsed /\ Dropped /\ FillCounts

----------------------------------------------------------------------------
(* Arithmetic of the constants.                                             *)

\* The number of silent blocks of a recovery is a count.
LEMMA RecoveryCount == RecoveryBlocks \in Nat
<1>1. Buffer \in Nat /\ Block \in Nat \ {0}
  BY GeometryAssumption, BlockAssumption
<1> QED
  BY <1>1, Z3 DEF RecoveryBlocks

\* sample_position wraps within its range.
LEMMA AdvanceType ==
  ASSUME NEW n \in Nat, sample_position \in 0..(PositionWrap - 1), Advance(n)
  PROVE  sample_position' \in 0..(PositionWrap - 1)
<1>1. PositionWrap \in Nat \ {0}
  BY BlockAssumption
<1> QED
  BY <1>1, Z3 DEF Advance

\* Zero is a fill level, a rest of a transfer, a count of blocks, a position.
LEMMA RestingValues ==
  /\ 0 \in 0..Buffer /\ 0 \in 0..Block
  /\ 0 \in 0..(FirstBlocks + RecoveryBlocks)
  /\ 0 \in 0..(PositionWrap - 1)
  /\ 0 \in 0..1 /\ -1 \in -1..1
<1>1. FirstBlocks + RecoveryBlocks \in Nat
  BY RecoveryCount DEF FirstBlocks
<1> QED
  BY <1>1, GeometryAssumption, BlockAssumption

----------------------------------------------------------------------------
(* Steps of the audio thread that do not touch the mutex.                   *)

\* Such a step keeps the invariant when it starts nothing and stays away from
\* the part of the thread under the mutex.
LEMMA AudioStepKeeps ==
  ASSUME IInv, Settled, ThreadTypeOK',
         UNCHANGED <<linked, capture_enabled, lifeVars, hostVars, stop, mutex>>,
         apc \notin Starting \cup {"none"},
         apc' \notin Starting \cup {"none"},
         FillCounts'
  PROVE  IInv'
<1>1. HostTypeOK'
  BY DEF IInv, HostTypeOK, lifeVars, hostVars
<1>2. Life'
  BY DEF IInv, Life, Settled, NothingStarts, StaysOpen, lifeVars, Streams
<1>3. HostInside'
  BY DEF IInv, HostInside, lifeVars, hostVars
<1>4. MutexOwner'
  BY DEF IInv, MutexOwner, hostVars
<1>5. CaptureUsed'
  BY DEF IInv, CaptureUsed, Settled, NothingStarts, Streams
<1>6. Dropped'
  BY DEF IInv, Dropped, Settled, NothingStarts, Streams, SplitCapture, hostVars
<1> QED
  BY <1>1, <1>2, <1>3, <1>4, <1>5, <1>6 DEF IInv, Settled

\* write_backend moves frames within the ring buffer and the block.
LEMMA WriteKeeps ==
  ASSUME IInv, NEW done \in AudioSteps, Write(done)
  PROVE  /\ Settled
         /\ rem' \in 0..Block
         /\ ar' \in {"ok", "xrun", "error"}
         /\ apc' = apc \/ apc' = done
<1>1. AlsaTypeOK /\ rem \in 0..Block /\ ar \in {"ok", "xrun", "error"}
  BY DEF IInv, AlsaInv, ThreadTypeOK
<1>2. Block \in Nat /\ Buffer \in Nat
  BY GeometryAssumption, BlockAssumption
<1>3. fill["playback"] \in 0..Buffer
  BY <1>1 DEF AlsaTypeOK, Streams
<1>4. CASE Writable
  <2>1. /\ WriteChunk(rem) \in 0..rem
        /\ fill["playback"] + WriteChunk(rem) \in 0..Buffer
    BY <1>1, <1>2, <1>3 DEF WriteChunk, Least
  <2>2. fill' = [fill EXCEPT !["playback"] = @ + WriteChunk(rem)]
        /\ rem' = rem - WriteChunk(rem)
    BY <1>4 DEF Write
  <2>3. fill' \in [Streams -> 0..Buffer]
    BY <1>1, <2>1, <2>2 DEF AlsaTypeOK
  <2>4. Settled
    BY <2>3, TransferSettles DEF Write, IInv
  <2>5. rem' \in 0..Block
    BY <1>1, <1>2, <2>1, <2>2
  <2> QED
    BY <1>1, <1>4, <2>4, <2>5 DEF Write, Goto
<1>5. CASE ~Writable
  <2>1. UNCHANGED alsaVars
    BY <1>5 DEF Write, alsaVars
  <2>2. Settled
    BY <2>1, NoChangeSettles DEF IInv
  <2>3. ar' \in {"ok", "xrun", "error"}
    BY <1>5 DEF Write, FaultOf
  <2>4. rem' \in 0..Block /\ apc' = done
    BY <1>2, <1>5 DEF Write, Goto
  <2> QED
    BY <2>2, <2>3, <2>4
<1> QED
  BY <1>4, <1>5

\* Every step of the audio thread that neither takes nor holds the mutex.
FreeAudioStep ==
  /\ \/ Begin \/ FirstSwitched \/ Fill \/ FillDone \/ Loop \/ Read
     \/ WaitPeriod \/ InputDone \/ Switched \/ Output \/ OutputDone
     \/ Recover \/ Reprepare \/ ReprepareCapture
  /\ UNCHANGED <<lifeVars, hostVars, stop>>

LEMMA FreeAudioKeeps ==
  ASSUME IInv, FreeAudioStep
  PROVE  IInv'
<1> USE DEF IInv
<1>1. /\ Block \in Nat \ {0} /\ Buffer \in Nat \ {0}
      /\ PositionWrap \in Nat \ {0} /\ RecoveryBlocks \in Nat
      /\ FirstBlocks = 2
  BY GeometryAssumption, BlockAssumption, RecoveryCount DEF FirstBlocks
<1>2. UNCHANGED <<linked, capture_enabled, lifeVars, hostVars, stop, mutex>>
  BY DEF FreeAudioStep, Begin, FirstSwitched, Fill, FillDone, Loop, Read,
         WaitPeriod, InputDone, Switched, Output, OutputDone, Recover,
         Reprepare, ReprepareCapture, Write, alsaVars
<1> DEFINE Ends ==
      /\ Settled /\ ThreadTypeOK' /\ FillCounts'
      /\ apc \notin Starting \cup {"none"}
      /\ apc' \notin Starting \cup {"none"}
<1>3. ASSUME Ends PROVE IInv'
  BY <1>2, <1>3, AudioStepKeeps
<1>4. ASSUME UNCHANGED alsaVars PROVE Settled
  BY <1>4, NoChangeSettles
<1>5. CASE Begin
  <2>1. Settled
    BY <1>4, <1>5 DEF Begin
  <2>2. ThreadTypeOK'
    BY <1>1, <1>5 DEF Begin, ThreadTypeOK, Goto, AudioSteps
  <2> QED
    BY <1>3, <1>5, <2>1, <2>2 DEF Begin, Goto, FillCounts, Starting
<1>6. CASE FirstSwitched
  <2>1. Settled
    BY <1>4, <1>6 DEF FirstSwitched
  <2>2. ThreadTypeOK'
    BY <1>1, <1>6 DEF FirstSwitched, ThreadTypeOK, Goto, Exit, AudioSteps
  <2> QED
    BY <1>1, <1>3, <1>6, <2>1, <2>2
    DEF FirstSwitched, Goto, Exit, FillCounts, Starting
<1>7. CASE Fill
  <2>1. "fillDone" \in AudioSteps /\ Write("fillDone") /\ apc = "fill"
    BY <1>7 DEF Fill, AudioSteps
  <2>2. /\ Settled /\ rem' \in 0..Block /\ ar' \in {"ok", "xrun", "error"}
        /\ apc' \in {"fill", "fillDone"}
    BY <2>1, WriteKeeps
  <2>3. blocks \in 1..(FirstBlocks + RecoveryBlocks)
    BY <1>1, <2>1 DEF ThreadTypeOK, FillCounts
  <2>4. /\ blocks' \in 0..(FirstBlocks + RecoveryBlocks)
        /\ apc' = "fill" => blocks' > 0
    BY <1>1, <1>7, <2>2, <2>3 DEF Fill
  <2>5. ThreadTypeOK'
    BY <2>1, <2>2, <2>4 DEF Write, ThreadTypeOK, AudioSteps
  <2> QED
    BY <1>3, <2>1, <2>2, <2>4, <2>5 DEF FillCounts, Starting
<1>8. CASE FillDone
  <2>1. Settled
    BY <1>4, <1>8 DEF FillDone
  <2>2. sample_position' \in 0..(PositionWrap - 1)
    BY <1>1, <1>8, AdvanceType DEF FillDone, ThreadTypeOK
  <2>3. ThreadTypeOK'
    BY <1>1, <1>8, <2>2 DEF FillDone, ThreadTypeOK, Goto, Exit, AudioSteps
  <2> QED
    BY <1>1, <1>3, <1>8, <2>1, <2>3
    DEF FillDone, Goto, Exit, FillCounts, Starting
<1>9. CASE Loop
  <2>1. Settled
    BY <1>4, <1>9 DEF Loop
  <2>2. ThreadTypeOK'
    BY <1>1, <1>9 DEF Loop, ThreadTypeOK, Goto, Exit, AudioSteps
  <2> QED
    BY <1>3, <1>9, <2>1, <2>2 DEF Loop, Goto, Exit, FillCounts, Starting
<1>10. CASE Read
  <2>1. AlsaTypeOK /\ rem \in 0..Block /\ fill["capture"] \in 0..Buffer
    BY DEF AlsaInv, AlsaTypeOK, ThreadTypeOK, Streams
  <2>2. /\ ReadChunk(rem) \in 0..rem
        /\ fill["capture"] - ReadChunk(rem) \in 0..Buffer
    BY <1>1, <2>1 DEF ReadChunk, Least
  <2>3. CASE Readable
    <3>1. fill' = [fill EXCEPT !["capture"] = @ - ReadChunk(rem)]
          /\ rem' = rem - ReadChunk(rem)
      BY <1>10, <2>3 DEF Read
    <3>2. fill' \in [Streams -> 0..Buffer]
      BY <2>1, <2>2, <3>1 DEF AlsaTypeOK
    <3>3. Settled
      BY <1>10, <3>2, TransferSettles DEF Read
    <3>4. rem' \in 0..Block
      BY <1>1, <2>1, <2>2, <3>1
    <3>5. apc' \in {"input", "inputDone"} /\ ar' \in {"ok", "xrun", "error"}
      BY <1>10, <2>3 DEF Read, Goto, ThreadTypeOK
    <3>6. ThreadTypeOK'
      BY <1>10, <3>4, <3>5 DEF Read, ThreadTypeOK, AudioSteps
    <3> QED
      BY <1>3, <1>10, <3>3, <3>5, <3>6 DEF Read, FillCounts, Starting
  <2>4. CASE ~Readable
    <3>1. Settled
      BY <1>4, <1>10, <2>4 DEF Read, alsaVars
    <3>2. ThreadTypeOK'
      BY <1>1, <1>10, <2>4
      DEF Read, ThreadTypeOK, Goto, FaultOf, AudioSteps
    <3> QED
      BY <1>3, <1>10, <2>4, <3>1, <3>2 DEF Read, Goto, FillCounts, Starting
  <2> QED
    BY <2>3, <2>4
<1>11. CASE WaitPeriod
  <2>1. Settled
    BY <1>4, <1>11 DEF WaitPeriod
  <2>2. WaitResults \subseteq {"ok", "xrun", "error"}
    BY DEF WaitResults, FaultOf
  <2>3. ThreadTypeOK'
    BY <1>11, <2>2 DEF WaitPeriod, ThreadTypeOK, Goto, AudioSteps
  <2> QED
    BY <1>3, <1>11, <2>1, <2>3 DEF WaitPeriod, Goto, FillCounts, Starting
<1>12. CASE InputDone
  <2>1. Settled
    BY <1>4, <1>12 DEF InputDone
  <2>2. sample_position' \in 0..(PositionWrap - 1)
    BY <1>1, <1>12, AdvanceType DEF InputDone, ThreadTypeOK
  <2>3. ThreadTypeOK'
    BY <1>12, <2>2 DEF InputDone, ThreadTypeOK, Goto, Exit, AudioSteps
  <2> QED
    BY <1>3, <1>12, <2>1, <2>3
    DEF InputDone, Goto, Exit, FillCounts, Starting
<1>13. CASE Switched
  <2>1. Settled
    BY <1>4, <1>13 DEF Switched
  <2>2. ThreadTypeOK'
    BY <1>1, <1>13 DEF Switched, ThreadTypeOK, Goto, AudioSteps
  <2> QED
    BY <1>3, <1>13, <2>1, <2>2 DEF Switched, Goto, FillCounts, Starting
<1>14. CASE Output
  <2>1. "outputDone" \in AudioSteps /\ Write("outputDone") /\ apc = "output"
    BY <1>14 DEF Output, AudioSteps
  <2>2. /\ Settled /\ rem' \in 0..Block /\ ar' \in {"ok", "xrun", "error"}
        /\ apc' \in {"output", "outputDone"}
    BY <2>1, WriteKeeps
  <2>3. ThreadTypeOK'
    BY <1>14, <2>1, <2>2 DEF Output, Write, ThreadTypeOK, AudioSteps
  <2> QED
    BY <1>3, <2>1, <2>2, <2>3 DEF FillCounts, Starting
<1>15. CASE OutputDone
  <2>1. Settled
    BY <1>4, <1>15 DEF OutputDone
  <2>2. ThreadTypeOK'
    BY <1>15 DEF OutputDone, ThreadTypeOK, Goto, Exit, AudioSteps
  <2> QED
    BY <1>3, <1>15, <2>1, <2>2
    DEF OutputDone, Goto, Exit, FillCounts, Starting
<1>16. CASE Recover
  <2>1. Settled
    BY <1>4, <1>16 DEF Recover
  <2>2. ThreadTypeOK'
    BY <1>16 DEF Recover, ThreadTypeOK, Goto, Exit, AudioSteps
  <2> QED
    BY <1>3, <1>16, <2>1, <2>2 DEF Recover, Goto, Exit, FillCounts, Starting
<1>17. CASE Reprepare
  <2>1. \E ok \in BOOLEAN : PcmPrepare("playback", ok)
    BY <1>17 DEF Reprepare, PreparePlayback
  <2>2. Settled
    BY <1>2, <2>1, PrepareSettles DEF Streams
  <2>3. \/ apc' = "fillDone" /\ ar' = "ok" /\ blocks' = RecoveryBlocks
        \/ apc' = "exited" /\ UNCHANGED <<ar, blocks>>
        \/ apc' = "reprepareCapture" /\ UNCHANGED <<ar, blocks>>
    BY <1>17 DEF Reprepare, Reprepared, Goto, Exit
  <2>4. blocks' \in 0..(FirstBlocks + RecoveryBlocks)
    BY <1>1, <2>3 DEF ThreadTypeOK
  <2>5. ThreadTypeOK'
    BY <1>17, <2>3, <2>4 DEF Reprepare, ThreadTypeOK, AudioSteps
  <2> QED
    BY <1>3, <1>17, <2>2, <2>3, <2>5 DEF Reprepare, FillCounts, Starting
<1>18. CASE ReprepareCapture
  <2>1. \E ok \in BOOLEAN : PcmPrepare("capture", ok)
    BY <1>18 DEF ReprepareCapture, PrepareCapture
  <2>2. Settled
    BY <1>2, <2>1, PrepareSettles DEF Streams
  <2>3. \/ apc' = "fillDone" /\ ar' = "ok" /\ blocks' = RecoveryBlocks
        \/ apc' = "exited" /\ UNCHANGED <<ar, blocks>>
    BY <1>18 DEF ReprepareCapture, Reprepared, Goto, Exit
  <2>4. blocks' \in 0..(FirstBlocks + RecoveryBlocks)
    BY <1>1, <2>3 DEF ThreadTypeOK
  <2>5. ThreadTypeOK'
    BY <1>18, <2>3, <2>4 DEF ReprepareCapture, ThreadTypeOK, AudioSteps
  <2> QED
    BY <1>3, <1>18, <2>2, <2>3, <2>5 DEF ReprepareCapture, FillCounts, Starting
<1> QED
  BY <1>5, <1>6, <1>7, <1>8, <1>9, <1>10, <1>11, <1>12, <1>13, <1>14, <1>15,
     <1>16, <1>17, <1>18 DEF FreeAudioStep

----------------------------------------------------------------------------
(* Steps of the audio thread under backend_state_mutex.                     *)

\* Taking the mutex: the stop token is not set, so stop() is not waiting.
LEMMA LaunchKeeps ==
  ASSUME IInv, Launch, UNCHANGED <<lifeVars, hostVars, stop>>
  PROVE  IInv'
<1> USE DEF IInv
<1>1. Settled
  BY NoChangeSettles DEF Launch
<1>2. UNCHANGED <<linked, capture_enabled, pcm>>
  BY DEF Launch, alsaVars
<1>3. ThreadTypeOK' /\ HostTypeOK'
  BY DEF Launch, Goto, Exit, ThreadTypeOK, HostTypeOK, AudioSteps, lifeVars,
         hostVars
<1>4. Life' /\ HostInside'
  BY <1>2 DEF Launch, Goto, Exit, Life, HostInside, lifeVars, hostVars
<1>5. MutexOwner'
  BY DEF Launch, Goto, Exit, MutexOwner, Starting, hostVars
<1>6. CaptureUsed' /\ Dropped' /\ FillCounts'
  BY <1>2 DEF Launch, Goto, Exit, CaptureUsed, Dropped, FillCounts, Starting,
              HostInside, SplitCapture, hostVars
<1> QED
  BY <1>1, <1>3, <1>4, <1>5, <1>6 DEF Settled

\* start_backend, each ioctl: the stream it starts belongs to Running, stop()
\* has not dropped it yet, and stop_backend will reach it.
LEMMA StartStreamsKeeps ==
  ASSUME IInv, StartStreams \/ StartStreamsPlayback,
         UNCHANGED <<lifeVars, hostVars, stop>>
  PROVE  IInv'
<1> USE DEF IInv
<1>1. /\ apc \in Starting /\ mutex = "audio"
      /\ UNCHANGED <<linked, capture_enabled>>
  BY DEF StartStreams, StartStreamsPlayback, Launched, Starting, MutexOwner
<1>2. PICK s \in Streams, ok \in BOOLEAN :
        PcmStart(s, ok) /\ (s = "capture" => SplitCapture)
  BY DEF StartStreams, StartStreamsPlayback, StartCapture, StartPlayback,
         Streams
<1>3. /\ AlsaInv' /\ StaysOpen
      /\ \A t \in Streams \ Group(s) : pcm'[t] = pcm[t]
  BY <1>1, <1>2, StartKeeps
<1>4. /\ UNCHANGED <<lastHalf, ar, rem, blocks, recovering, sample_position>>
      /\ index' \in {index, 1}
      /\ \/ apc' = "startingPlayback" /\ mutex' = "audio"
         \/ apc' \in {"loop", "exited"} /\ mutex' = "free"
  BY <1>1 DEF StartStreams, StartStreamsPlayback, Launched, Goto, Exit
<1>5. ThreadTypeOK' /\ HostTypeOK'
  BY <1>4 DEF ThreadTypeOK, HostTypeOK, AudioSteps, lifeVars, hostVars
<1>6. state = "Running" /\ hpc # "joining" /\ hpc # "droppingCapture"
  BY <1>1 DEF Life, Dropped, MutexOwner, Starting
<1>7. Life'
  BY <1>3, <1>4, <1>6 DEF Life, StaysOpen, Streams, lifeVars
<1>8. HostInside' /\ Dropped'
  BY <1>6 DEF HostInside, Dropped, lifeVars, hostVars
<1>9. MutexOwner'
  BY <1>4, <1>6 DEF MutexOwner, Starting, hostVars
<1>10. CaptureUsed'
  <2>1. CASE "capture" \in Group(s)
    BY <1>1, <1>2, <2>1 DEF CaptureUsed, Group, SplitCapture
  <2>2. CASE "capture" \notin Group(s)
    BY <1>1, <1>3, <2>2 DEF CaptureUsed, Streams
  <2> QED
    BY <2>1, <2>2
<1> QED
  BY <1>3, <1>4, <1>5, <1>7, <1>8, <1>9, <1>10 DEF FillCounts

----------------------------------------------------------------------------
(* Host thread.                                                             *)

\* A call outside Running that leaves no audio thread and no running stream.
LEMMA QuietCallKeeps ==
  ASSUME IInv, AlsaInv', HostTypeOK', sample_position' \in {0, sample_position},
         hpc = "idle", UNCHANGED <<hostVars, stop, mutex, threadVars>>,
         state # "Running", state' # "Running",
         state' \in {"Initialized", "Prepared"} => pcm'["playback"] # "closed",
         \A s \in Streams : pcm'[s] # "running"
  PROVE  IInv'
<1> USE DEF IInv
<1>1. PositionWrap \in Nat \ {0}
  BY BlockAssumption
<1>2. ThreadTypeOK'
  BY <1>1 DEF ThreadTypeOK, threadVars
<1>3. Life' /\ HostInside'
  BY DEF Life, HostInside, hostVars, threadVars
<1>4. MutexOwner' /\ FillCounts'
  BY DEF MutexOwner, FillCounts, hostVars, threadVars
<1>5. CaptureUsed' /\ Dropped'
  BY DEF CaptureUsed, Dropped, Streams, hostVars
<1> QED
  BY <1>2, <1>3, <1>4, <1>5

\* The calls of HostCalls other than start and stop.
LEMMA HostCallKeeps ==
  ASSUME IInv,
         \/ NewDriver \/ InitDriver \/ CreateBuffersInvalid \/ CreateBuffers
         \/ DisposePrepared \/ Destroy
  PROVE  IInv'
<1> USE DEF IInv
<1>1. ASSUME state # "Running" PROVE \A s \in Streams : pcm[s] # "running"
  BY <1>1 DEF Life
<1>2. OfferedPorts \subseteq Ports
  BY DEF OfferedPorts
<1>3. CASE NewDriver
  <2>1. HostTypeOK' /\ UNCHANGED alsaVars /\ Settled
    BY <1>3, NoChangeSettles
    DEF NewDriver, ThreadIdle, HostTypeOK, LifeStates, hostVars
  <2> QED
    BY <1>1, <1>3, <2>1, QuietCallKeeps
    DEF NewDriver, ThreadIdle, alsaVars, Settled
<1>4. CASE InitDriver
  <2>1. AlsaInv' /\ (\A s \in Streams : pcm'[s] # "running")
        /\ pcm'["playback"] = "open"
    BY <1>4, OpenCloseKeeps DEF InitDriver, InitAlsa
  <2>2. HostTypeOK'
    BY <1>4 DEF InitDriver, ThreadIdle, HostTypeOK, LifeStates, hostVars
  <2>3. state # "Running"
    BY <1>4 DEF InitDriver, InitAlsa, Life
  <2> QED
    BY <1>4, <2>1, <2>2, <2>3, QuietCallKeeps DEF InitDriver, ThreadIdle
<1>5. CASE CreateBuffersInvalid
  <2>1. HostTypeOK' /\ UNCHANGED alsaVars /\ Settled
    BY <1>2, <1>5, NoChangeSettles
    DEF CreateBuffersInvalid, ThreadIdle, HostTypeOK, hostVars
  <2> QED
    BY <1>1, <1>5, <2>1, QuietCallKeeps
    DEF CreateBuffersInvalid, ThreadIdle, alsaVars, Settled, Life
<1>6. CASE CreateBuffers
  <2>1. capture_active' \in BOOLEAN
    BY <1>6 DEF CreateBuffers
  <2>2. Settled
    BY <1>6, <2>1, SetBufferSettles DEF CreateBuffers
  <2>3. HostTypeOK'
    BY <1>2, <1>6, <2>1
    DEF CreateBuffers, ThreadIdle, HostTypeOK, LifeStates, hostVars
  <2>4. state = "Initialized" /\ state' \in {"Initialized", "Prepared"}
    BY <1>6 DEF CreateBuffers
  <2>5. /\ pcm'["playback"] # "closed"
        /\ \A s \in Streams : pcm'[s] # "running"
    BY <1>1, <2>2, <2>4 DEF Settled, NothingStarts, StaysOpen, Life, Streams
  <2> QED
    BY <1>6, <2>2, <2>3, <2>4, <2>5, QuietCallKeeps
    DEF CreateBuffers, ThreadIdle, Settled
<1>7. CASE DisposePrepared
  <2>1. HostTypeOK' /\ UNCHANGED alsaVars /\ Settled
    BY <1>7, NoChangeSettles
    DEF DisposePrepared, ReleaseBuffers, ThreadIdle, HostTypeOK, LifeStates,
        hostVars
  <2> QED
    BY <1>1, <1>7, <2>1, QuietCallKeeps
    DEF DisposePrepared, ReleaseBuffers, ThreadIdle, alsaVars, Settled, Life
<1>8. CASE Destroy
  <2>1. state # "Running" /\ hpc = "idle" /\ state' = "Deleted"
    BY <1>8 DEF Destroy, NoObject
  <2>2. HostTypeOK'
    BY <1>8 DEF Destroy, NoObject, HostTypeOK, LifeStates, hostVars
  <2>3. CASE UNCHANGED alsaVars
    <3>1. Settled
      BY <2>3, NoChangeSettles
    <3> QED
      BY <1>1, <1>8, <2>1, <2>2, <2>3, <3>1, QuietCallKeeps
      DEF Destroy, NoObject, alsaVars, Settled
  <2>4. CASE UninitAlsa
    <3>1. AlsaInv' /\ \A s \in Streams : pcm'[s] # "running"
      BY <2>4, OpenCloseKeeps
    <3> QED
      BY <1>8, <2>1, <2>2, <3>1, QuietCallKeeps DEF Destroy, NoObject
  <2> QED
    BY <1>8, <2>3, <2>4 DEF Destroy
<1> QED
  BY <1>3, <1>4, <1>5, <1>6, <1>7, <1>8

\* start(), both ioctls of its prepare_backend.
LEMMA StartCallKeeps ==
  ASSUME IInv, StartPrepare \/ StartPrepareCapture
  PROVE  IInv'
<1> USE DEF IInv
<1>1. /\ state = "Prepared" /\ apc = "none"
      /\ hpc \in {"idle", "preparing"}
  BY DEF StartPrepare, StartPrepareCapture, HostInside, Life
<1>2. /\ UNCHANGED <<linked, capture_enabled, is_capture_available,
                     capture_active, active, allocated, callbacks, call,
                     stop, mutex, index, lastHalf, ar, rem, blocks,
                     recovering, sample_position>>
      /\ \/ state' = "Running" /\ apc' = "begin" /\ hpc' = "idle"
         \/ UNCHANGED <<state, apc>> /\ hpc' \in {"idle", "preparing"}
  BY DEF StartPrepare, StartPrepareCapture, Spawn
<1>3. \E s \in Streams, ok \in BOOLEAN : PcmPrepare(s, ok)
  BY DEF StartPrepare, StartPrepareCapture, PreparePlayback, PrepareCapture,
         Streams
<1>4. Settled
  BY <1>2, <1>3, PrepareSettles
<1>5. ThreadTypeOK'
  BY <1>2 DEF ThreadTypeOK, AudioSteps
<1>6. HostTypeOK'
  BY <1>2 DEF HostTypeOK, LifeStates, HostSteps
<1>7. Life' /\ HostInside'
  BY <1>1, <1>2, <1>4
  DEF Life, HostInside, Settled, NothingStarts, StaysOpen, Streams
<1>8. MutexOwner' /\ FillCounts'
  BY <1>1, <1>2 DEF MutexOwner, FillCounts, Starting
<1>9. CaptureUsed' /\ Dropped'
  BY <1>1, <1>2, <1>4
  DEF CaptureUsed, Dropped, Settled, NothingStarts, Streams
<1> QED
  BY <1>4, <1>5, <1>6, <1>7, <1>8, <1>9 DEF Settled

\* stop() up to the join: the drops reach every stream that runs, and the
\* mutex keeps start_backend out between them.
LEMMA StopCallKeeps ==
  ASSUME IInv, RequestStop \/ DropBackend \/ DropBackendCapture
  PROVE  IInv'
<1> USE DEF IInv
<1>1. /\ UNCHANGED <<linked, capture_enabled, lifeVars, threadVars,
                     sample_position>>
      /\ state = "Running"
  BY DEF RequestStop, DropBackend, DropBackendCapture, HostInside, alsaVars
<1>2. ThreadTypeOK' /\ FillCounts'
  BY <1>1 DEF ThreadTypeOK, FillCounts, threadVars
<1>3. HostTypeOK'
  BY <1>1 DEF RequestStop, DropBackend, DropBackendCapture, HostTypeOK,
              HostSteps, lifeVars
<1>4. ASSUME Settled PROVE Life' /\ CaptureUsed'
  BY <1>1, <1>4
  DEF Life, CaptureUsed, Settled, NothingStarts, StaysOpen, Streams,
      lifeVars, threadVars
<1>5. HostInside'
  BY <1>1 DEF RequestStop, DropBackend, DropBackendCapture, HostInside,
              lifeVars
<1>6. MutexOwner'
  BY <1>1 DEF RequestStop, DropBackend, DropBackendCapture, MutexOwner,
              threadVars
<1>7. CASE RequestStop
  <2>1. Settled
    BY <1>7, NoChangeSettles DEF RequestStop
  <2>2. Dropped'
    BY <1>7 DEF RequestStop, Dropped
  <2> QED
    BY <1>2, <1>3, <1>4, <1>5, <1>6, <2>1, <2>2 DEF Settled
<1>8. CASE DropBackend
  <2>1. /\ Settled /\ pcm'["playback"] # "running"
        /\ linked => \A t \in Streams : pcm'[t] # "running"
    BY <1>1, <1>8, DropSettles DEF DropBackend, DropPlayback, Streams
  <2>2. apc \notin Starting
    BY <1>8 DEF DropBackend, MutexOwner
  <2>3. ~linked /\ ~capture_enabled => pcm'["capture"] # "running"
    BY <2>1 DEF CaptureUsed, Settled, NothingStarts, Streams
  <2>4. Dropped'
    BY <1>1, <1>8, <2>1, <2>2, <2>3
    DEF DropBackend, Dropped, SplitCapture, Streams, threadVars
  <2> QED
    BY <1>2, <1>3, <1>4, <1>5, <1>6, <2>1, <2>4 DEF Settled
<1>9. CASE DropBackendCapture
  <2>1. Settled /\ pcm'["capture"] # "running"
    BY <1>1, <1>9, DropSettles DEF DropBackendCapture, DropCapture, Streams
  <2>2. pcm["playback"] # "running" /\ apc \notin Starting
    BY <1>9 DEF DropBackendCapture, Dropped, MutexOwner
  <2>3. Dropped'
    BY <1>1, <1>9, <2>1, <2>2
    DEF DropBackendCapture, Dropped, Settled, NothingStarts, Streams,
        threadVars
  <2> QED
    BY <1>2, <1>3, <1>4, <1>5, <1>6, <2>1, <2>3 DEF Settled
<1> QED
  BY <1>7, <1>8, <1>9

\* join and the rest of stop(), disposeBuffers() or ~CASIO().
LEMMA JoinKeeps ==
  ASSUME IInv, Join
  PROVE  IInv'
<1> USE DEF IInv
<1>1. /\ \A s \in Streams : pcm[s] # "running"
      /\ state = "Running" /\ mutex = "free"
  BY DEF Join, Dropped, HostInside, MutexOwner, HostTypeOK, Starting
<1>2. /\ AlsaInv' /\ \A s \in Streams : pcm'[s] # "running"
      /\ state' \in {"Initialized", "Prepared"} => pcm'["playback"] # "closed"
  <2>1. CASE UNCHANGED alsaVars
    <3>1. Settled
      BY <2>1, NoChangeSettles
    <3> QED
      BY <1>1, <2>1, <3>1 DEF Settled, alsaVars, Life
  <2>2. CASE UninitAlsa /\ state' = "Deleted"
    BY <2>2, OpenCloseKeeps
  <2> QED
    BY <2>1, <2>2 DEF Join, NoObject
<1>3. /\ state' \in {"Prepared", "Initialized", "Deleted"}
      /\ sample_position' \in {0, sample_position}
  BY DEF Join, NoObject, ReleaseBuffers
<1>4. sample_position' \in 0..(PositionWrap - 1)
  BY <1>3, RestingValues DEF ThreadTypeOK
<1>5. ThreadTypeOK'
  BY <1>4, RestingValues DEF Join, ThreadTypeOK, AudioSteps
<1>6. HostTypeOK'
  BY DEF Join, HostTypeOK, NoObject, ReleaseBuffers, LifeStates, HostSteps
<1>7. Life' /\ HostInside'
  BY <1>2, <1>3 DEF Join, Life, HostInside
<1>8. MutexOwner' /\ FillCounts' /\ CaptureUsed' /\ Dropped'
  BY <1>1, <1>2
  DEF Join, MutexOwner, FillCounts, CaptureUsed, Dropped, Starting, Streams
<1> QED
  BY <1>2, <1>5, <1>6, <1>7, <1>8

----------------------------------------------------------------------------
(* The device.                                                              *)

\* Neither the clock, nor suspend, nor unplugging starts a stream.
LEMMA HardwareKeeps ==
  ASSUME IInv, HardwareNext
  PROVE  IInv'
<1> USE DEF IInv
<1>1. Settled
  BY HardwareSettles DEF HardwareNext
<1>2. UNCHANGED <<linked, capture_enabled>>
  BY DEF HardwareNext, Hardware, Tick, Suspend, DeviceLost
<1>3. ThreadTypeOK' /\ HostTypeOK'
  BY DEF HardwareNext, ThreadTypeOK, HostTypeOK, lifeVars, hostVars,
         threadVars
<1>4. Life' /\ CaptureUsed'
  BY <1>1, <1>2 DEF HardwareNext, Life, CaptureUsed, Settled, NothingStarts,
                    StaysOpen, Streams, lifeVars, threadVars
<1>5. HostInside' /\ MutexOwner' /\ FillCounts'
  BY DEF HardwareNext, HostInside, MutexOwner, FillCounts, lifeVars, hostVars,
         threadVars
<1>6. Dropped'
  BY <1>1, <1>2 DEF HardwareNext, Dropped, Settled, NothingStarts, Streams,
                    SplitCapture, hostVars, threadVars
<1> QED
  BY <1>1, <1>3, <1>4, <1>5, <1>6 DEF Settled

----------------------------------------------------------------------------
(* Theorems.                                                                *)

\* The driver is loaded with nothing open and nothing running.
LEMMA InitIInv == Init => IInv
<1> SUFFICES ASSUME Init PROVE IInv
  OBVIOUS
<1>1. AlsaTypeOK
  BY RestingValues DEF Init, AlsaInit, AlsaTypeOK, PcmStates
<1>2. AlsaInv
  BY <1>1 DEF Init, AlsaInit, AlsaInv, LinkedAgree
<1>3. HostTypeOK
  BY DEF Init, HostTypeOK, LifeStates, HostSteps
<1>4. ThreadTypeOK
  BY RestingValues DEF Init, ThreadTypeOK, AudioSteps
<1>5. Life /\ CaptureUsed
  BY DEF Init, AlsaInit, Life, CaptureUsed, Streams
<1>6. HostInside /\ MutexOwner /\ Dropped /\ FillCounts
  BY DEF Init, HostInside, MutexOwner, Dropped, FillCounts, Starting
<1> QED
  BY <1>2, <1>3, <1>4, <1>5, <1>6 DEF IInv

\* Every step, and every stutter, keeps the inductive invariant.
LEMMA NextIInv == IInv /\ [Next]_vars => IInv'
<1> SUFFICES ASSUME IInv, [Next]_vars PROVE IInv'
  OBVIOUS
<1>1. CASE AudioNext
  BY <1>1, FreeAudioKeeps, LaunchKeeps, StartStreamsKeeps
  DEF AudioNext, FreeAudioStep
<1>2. CASE HostCalls
  BY <1>2, HostCallKeeps, StartCallKeeps, StopCallKeeps DEF HostCalls
<1>3. CASE HostInCall
  BY <1>3, StartCallKeeps, StopCallKeeps, JoinKeeps DEF HostInCall
<1>4. CASE HardwareNext
  BY <1>4, HardwareKeeps
<1>5. CASE UNCHANGED vars
  <2>1. Settled
    BY <1>5, NoChangeSettles DEF vars, IInv
  <2> QED
    BY <1>5, <2>1
    DEF IInv, Settled, HostTypeOK, ThreadTypeOK, Life, HostInside, MutexOwner,
        CaptureUsed, Dropped, FillCounts, SplitCapture, vars, alsaVars,
        lifeVars, hostVars, threadVars
<1> QED
  BY <1>1, <1>2, <1>3, <1>4, <1>5 DEF Next

\* The inductive invariant holds throughout.
THEOREM Inductive == Spec => []IInv
<1> QED
  BY InitIInv, NextIInv, PTL DEF Spec

\* Every variable keeps its type, which bounds the frames in each ring buffer,
\* the transfer counters and the wrapping position.
THEOREM TypeCorrect == Spec => []TypeOK
<1>1. IInv => TypeOK
  BY DEF IInv, AlsaInv, HostTypeOK, ThreadTypeOK, TypeOK
<1> QED
  BY <1>1, Inductive, PTL

\* Outside Running no audio thread exists and no stream runs.
THEOREM Silence == Spec => []StoppedIsSilent
<1>1. IInv => StoppedIsSilent
  BY DEF IInv, Life, StoppedIsSilent
<1> QED
  BY <1>1, Inductive, PTL

\* No stream runs while stop() waits for the audio thread to end.
THEOREM NoRestart == Spec => []DropIsFinal
<1>1. IInv => DropIsFinal
  BY DEF IInv, Dropped, DropIsFinal
<1> QED
  BY <1>1, Inductive, PTL

----------------------------------------------------------------------------
(* What createBuffers has set up.                                            *)

\* The two things createBuffers leaves to later calls.
Available ==
  state \in {"Initialized", "Prepared", "Running"} =>
    is_capture_available = CaptureInitialized
Configuration ==
  state \in {"Prepared", "Running"} =>
    /\ active # {} /\ active \subseteq allocated /\ callbacks
    /\ capture_active = capture_enabled
    /\ linked => capture_enabled
    /\ capture_active => is_capture_available

\* Where the audio thread takes the streams to have been started.
Streaming == {"loop", "input", "inputDone", "switch", "output", "outputDone",
              "recover"}
Started ==
  /\ apc \in Streaming =>
       /\ pcm["playback"] # "prepared"
       /\ capture_active => pcm["capture"] # "prepared"
  /\ apc = "startingPlayback" => pcm["capture"] # "prepared"

SetupInv == Available /\ Configuration /\ Started

\* A step that leaves the configuration alone and goes no further in the life
\* cycle than Running.
LEMMA ConfigurationKept ==
  ASSUME SetupInv, CaptureStays,
         UNCHANGED <<linked, capture_enabled, is_capture_available,
                     capture_active, active, allocated, callbacks>>,
         state' = state \/ (state = "Prepared" /\ state' = "Running")
                        \/ (state = "Running" /\ state' = "Prepared")
  PROVE  Available' /\ Configuration'
  BY DEF SetupInv, Available, Configuration, CaptureStays

\* Steps of the audio thread outside start_backend: those that prepare a
\* stream do not go on to wait for it.
LEMMA FreeAudioSetup ==
  ASSUME IInv, SetupInv, FreeAudioStep \/ (Launch /\ UNCHANGED <<lifeVars, hostVars, stop>>)
  PROVE  SetupInv'
<1> USE DEF IInv
<1>1. CaptureStays /\ (apc \notin {"reprepare", "reprepareCapture"} => NothingPrepares)
  <2>1. CASE Reprepare
    BY <2>1, PrepareQuiet DEF Reprepare, PreparePlayback, Streams
  <2>2. CASE ReprepareCapture
    BY <2>2, PrepareQuiet DEF ReprepareCapture, PrepareCapture, Streams
  <2>3. CASE ~Reprepare /\ ~ReprepareCapture
    <3>1. UNCHANGED pcm
      BY <2>3 DEF FreeAudioStep, Begin, FirstSwitched, Fill, FillDone, Loop,
         Read, WaitPeriod, InputDone, Switched, Output, OutputDone, Recover,
         Write, Launch, alsaVars
    <3> QED
      BY <3>1, UnchangedQuiet
  <2> QED
    BY <2>1, <2>2, <2>3
<1>2. UNCHANGED <<linked, capture_enabled, is_capture_available, capture_active,
                  active, allocated, callbacks, state>>
  BY DEF FreeAudioStep, Begin, FirstSwitched, Fill, FillDone, Loop, Read,
         WaitPeriod, InputDone, Switched, Output, OutputDone, Recover,
         Reprepare, ReprepareCapture, Write, Launch, alsaVars, lifeVars
<1>3. Available' /\ Configuration'
  BY <1>1, <1>2, ConfigurationKept
<1>4. /\ apc' # "startingPlayback"
      /\ apc' \in Streaming => apc \in Streaming
  <2>1. CASE Fill \/ Output
    BY <2>1 DEF Fill, Output, Write, Goto, Streaming
  <2>2. CASE Begin \/ FirstSwitched \/ FillDone \/ Loop \/ Read \/ WaitPeriod
             \/ Launch
    BY <2>2 DEF Begin, FirstSwitched, FillDone, Loop, Read, WaitPeriod, Launch,
                Goto, Exit, Streaming
  <2>3. CASE InputDone \/ Switched \/ OutputDone \/ Recover
    BY <2>3 DEF InputDone, Switched, OutputDone, Recover, Goto, Exit, Streaming
  <2>4. CASE Reprepare \/ ReprepareCapture
    BY <2>4 DEF Reprepare, ReprepareCapture, Reprepared, Goto, Exit, Streaming
  <2> QED
    BY <2>1, <2>2, <2>3, <2>4 DEF FreeAudioStep
<1>5. Started'
  BY <1>1, <1>2, <1>4 DEF SetupInv, Started, NothingPrepares, Streams, Streaming
<1> QED
  BY <1>3, <1>5 DEF SetupInv

\* start_backend: the loop is entered only when both streams have started.
LEMMA StartSetup ==
  ASSUME IInv, SetupInv, StartStreams \/ StartStreamsPlayback,
         UNCHANGED <<lifeVars, hostVars, stop>>
  PROVE  SetupInv'
<1> USE DEF IInv
<1>1. PICK s \in Streams, ok \in BOOLEAN : PcmStart(s, ok)
  BY DEF StartStreams, StartStreamsPlayback, StartCapture, StartPlayback, Streams
<1>2. CaptureStays /\ NothingPrepares
  BY <1>1, StartQuiet
<1>3. UNCHANGED <<linked, capture_enabled, is_capture_available, capture_active,
                  active, allocated, callbacks, state>>
  BY DEF StartStreams, StartStreamsPlayback, Launched, lifeVars
<1>4. Available' /\ Configuration'
  BY <1>2, <1>3, ConfigurationKept
<1>5. capture_active = capture_enabled
  <2>1. apc # "none"
    BY DEF StartStreams, StartStreamsPlayback
  <2> QED
    BY <2>1 DEF Life, SetupInv, Configuration
<1>6. CASE StartStreams /\ SplitCapture
  <2>1. CASE StartCapture(TRUE) /\ apc' = "startingPlayback"
    <3>1. pcm'["capture"] = "running"
      BY <2>1, StartQuiet DEF StartCapture, Group, Streams
    <3> QED
      BY <1>4, <2>1, <3>1 DEF SetupInv, Started, Streaming
  <2>2. CASE Launched(FALSE)
    BY <1>4, <2>2 DEF Launched, Exit, Goto, SetupInv, Started, Streaming
  <2> QED
    BY <1>6, <2>1, <2>2 DEF StartStreams, Goto
<1>7. CASE (StartStreams /\ ~SplitCapture) \/ StartStreamsPlayback
  <2>1. PICK r \in BOOLEAN : StartPlayback(r) /\ Launched(r)
    BY <1>7 DEF StartStreams, StartStreamsPlayback
  <2>2. CASE r
    <3>1. /\ pcm'["playback"] = "running"
          /\ linked => pcm'["capture"] = "running"
      BY <2>1, <2>2, StartQuiet DEF StartPlayback, Group, Streams
    <3>2. StartStreamsPlayback => pcm'["capture"] # "prepared"
      BY <1>2 DEF StartStreamsPlayback, SetupInv, Started, NothingPrepares, Streams
    <3>3. capture_active => pcm'["capture"] # "prepared"
      BY <1>5, <1>7, <3>1, <3>2 DEF SplitCapture
    <3>4. apc' = "loop"
      BY <2>1, <2>2 DEF Launched, Goto
    <3> QED
      BY <1>3, <1>4, <3>1, <3>3, <3>4 DEF SetupInv, Started, Streaming
  <2>3. CASE ~r
    BY <1>4, <2>1, <2>3 DEF Launched, Exit, Goto, SetupInv, Started, Streaming
  <2> QED
    BY <2>2, <2>3
<1> QED
  BY <1>6, <1>7

\* Calls of the host while there is no audio thread.
LEMMA HostSetup ==
  ASSUME IInv, SetupInv,
         \/ NewDriver \/ InitDriver \/ CreateBuffersInvalid \/ CreateBuffers
         \/ DisposePrepared \/ Destroy
  PROVE  SetupInv'
<1> USE DEF IInv
<1>1. Started'
  <2>1. apc = "none"
    <3>1. CASE InitDriver
      BY <3>1 DEF InitDriver, InitAlsa, Life
    <3>2. CASE ~InitDriver
      BY <3>2 DEF NewDriver, CreateBuffersInvalid, CreateBuffers,
                  DisposePrepared, Destroy, Life
    <3> QED
      BY <3>1, <3>2
  <2>2. apc' = apc
    BY DEF NewDriver, InitDriver, CreateBuffersInvalid, CreateBuffers,
           DisposePrepared, Destroy, ThreadIdle, threadVars
  <2> QED
    BY <2>1, <2>2 DEF Started, Streaming
<1>2. CASE NewDriver \/ Destroy
  BY <1>1, <1>2 DEF NewDriver, Destroy, NoObject, SetupInv, Available, Configuration
<1>3. CASE InitDriver
  BY <1>1, <1>3 DEF InitDriver, CaptureInitialized, SetupInv, Available, Configuration
<1>4. CASE CreateBuffersInvalid
  BY <1>1, <1>4, UnchangedQuiet
  DEF CreateBuffersInvalid, CaptureStays, SetupInv, Available, Configuration, alsaVars
<1>5. CASE CreateBuffers
  <2>1. PICK ports \in (SUBSET OfferedPorts) \ {{}}, ok \in BOOLEAN :
          /\ active' = ports /\ allocated' = allocated \cup ports
          /\ callbacks' = TRUE
          /\ capture_active' = (\E p \in ports : p[1] = "in")
          /\ SetBuffer(capture_active', ok)
          /\ state' = IF ok THEN "Prepared" ELSE state
    BY <1>5 DEF CreateBuffers
  <2>2. /\ state = "Initialized" /\ is_capture_available' = is_capture_available
        /\ capture_active' \in BOOLEAN
    BY <1>5, <2>1 DEF CreateBuffers
  <2>3. /\ CaptureStays
        /\ capture_enabled' = (capture_active' /\ CaptureInitialized)
        /\ ok => (linked' => capture_enabled')
    BY <2>1, <2>2, SetBufferQuiet
  <2>4. capture_active' => is_capture_available
    BY <2>1 DEF OfferedPorts
  <2>5. is_capture_available = CaptureInitialized
    BY <2>2 DEF SetupInv, Available
  <2>6. Available'
    BY <2>2, <2>3, <2>5 DEF Available, CaptureStays
  <2>7. Configuration'
    BY <2>1, <2>2, <2>3, <2>4, <2>5 DEF Configuration
  <2> QED
    BY <1>1, <2>6, <2>7 DEF SetupInv
<1>6. CASE DisposePrepared
  BY <1>1, <1>6, UnchangedQuiet
  DEF DisposePrepared, ReleaseBuffers, CaptureStays, SetupInv, Available,
      Configuration, alsaVars
<1> QED
  BY <1>2, <1>3, <1>4, <1>5, <1>6

\* start(), the steps of stop(), and join.
LEMMA RunSetup ==
  ASSUME IInv, SetupInv,
         \/ StartPrepare \/ StartPrepareCapture \/ RequestStop \/ DropBackend
         \/ DropBackendCapture \/ Join
  PROVE  SetupInv'
<1> USE DEF IInv
<1>1. CASE StartPrepare \/ StartPrepareCapture
  <2>1. CaptureStays
    BY <1>1, PrepareQuiet
    DEF StartPrepare, StartPrepareCapture, PreparePlayback, PrepareCapture, Streams
  <2>2. state = "Prepared" /\ state' \in {state, "Running"}
    BY <1>1 DEF StartPrepare, StartPrepareCapture, Spawn, HostInside
  <2>3. apc' \in {"none", "begin"}
    BY <1>1, <2>2 DEF StartPrepare, StartPrepareCapture, Spawn, Life
  <2>4. Available' /\ Configuration'
    BY <1>1, <2>1, <2>2, ConfigurationKept DEF StartPrepare, StartPrepareCapture
  <2> QED
    BY <2>3, <2>4 DEF SetupInv, Started, Streaming
<1>2. CASE RequestStop \/ DropBackend \/ DropBackendCapture
  <2>1. CaptureStays /\ NothingPrepares
    BY <1>2, DropQuiet, UnchangedQuiet
    DEF RequestStop, DropBackend, DropBackendCapture, DropPlayback, DropCapture,
        Streams, alsaVars
  <2>2. /\ UNCHANGED <<linked, capture_enabled, is_capture_available,
                       capture_active, active, allocated, callbacks, state>>
        /\ UNCHANGED apc
    BY <1>2 DEF RequestStop, DropBackend, DropBackendCapture, lifeVars,
                threadVars, alsaVars
  <2>3. Available' /\ Configuration'
    BY <2>1, <2>2, ConfigurationKept
  <2> QED
    BY <2>1, <2>2, <2>3 DEF SetupInv, Started, NothingPrepares, Streams
<1>3. CASE Join
  <2>1. apc' = "none" /\ state = "Running"
    BY <1>3 DEF Join, HostInside
  <2>2. Started'
    BY <2>1 DEF Started, Streaming
  <2>3. CASE call = "stop"
    <3>1. CaptureStays
      BY <1>3, <2>3, UnchangedQuiet DEF Join, alsaVars
    <3>2. Available' /\ Configuration'
      BY <1>3, <2>1, <2>3, <3>1, ConfigurationKept DEF Join, alsaVars
    <3> QED
      BY <2>2, <3>2 DEF SetupInv
  <2>4. CASE call = "dispose"
    BY <1>3, <2>1, <2>2, <2>4, UnchangedQuiet
    DEF Join, ReleaseBuffers, CaptureStays, SetupInv, Available, Configuration,
        alsaVars
  <2>5. CASE call = "destroy"
    BY <1>3, <2>2, <2>5 DEF Join, NoObject, SetupInv, Available, Configuration
  <2> QED
    BY <1>3, <2>3, <2>4, <2>5 DEF Join
<1> QED
  BY <1>1, <1>2, <1>3

LEMMA HardwareSetup ==
  ASSUME IInv, SetupInv, HardwareNext
  PROVE  SetupInv'
<1>1. CaptureStays /\ NothingPrepares
  BY HardwareQuiet DEF HardwareNext, IInv
<1>2. /\ UNCHANGED <<linked, capture_enabled, is_capture_available,
                     capture_active, active, allocated, callbacks, state>>
      /\ UNCHANGED apc
  BY DEF HardwareNext, Hardware, Tick, Suspend, DeviceLost, lifeVars, threadVars
<1>3. Available' /\ Configuration'
  BY <1>1, <1>2, ConfigurationKept
<1> QED
  BY <1>1, <1>2, <1>3 DEF SetupInv, Started, NothingPrepares, Streams

LEMMA SetupInit == Init => SetupInv
  BY DEF Init, AlsaInit, SetupInv, Available, Configuration, Started, Streaming

LEMMA SetupNext == IInv /\ SetupInv /\ [Next]_vars => SetupInv'
<1> SUFFICES ASSUME IInv, SetupInv, [Next]_vars PROVE SetupInv'
  OBVIOUS
<1>1. CASE AudioNext
  BY <1>1, FreeAudioSetup, StartSetup DEF AudioNext, FreeAudioStep
<1>2. CASE HostCalls
  BY <1>2, HostSetup, RunSetup DEF HostCalls
<1>3. CASE HostInCall
  BY <1>3, RunSetup DEF HostInCall
<1>4. CASE HardwareNext
  BY <1>4, HardwareSetup
<1>5. CASE UNCHANGED vars
  BY <1>5
  DEF vars, alsaVars, lifeVars, threadVars, SetupInv, Available, Configuration,
      Started, CaptureInitialized
<1> QED
  BY <1>1, <1>2, <1>3, <1>4, <1>5 DEF Next

\* What createBuffers has set up, and both invariants together.
THEOREM SetupInductive == Spec => [](IInv /\ SetupInv)
<1>1. Init => IInv /\ SetupInv
  BY InitIInv, SetupInit
<1>2. IInv /\ SetupInv /\ [Next]_vars => (IInv /\ SetupInv)'
  BY NextIInv, SetupNext
<1> QED
  BY <1>1, <1>2, PTL DEF Spec

\* Nothing the audio thread uses is freed, and no handle it uses is closed,
\* before the thread has ended.
THEOREM NothingFreedUnderThread == Spec => []LiveThreadOwnsBuffers
<1>1. IInv /\ SetupInv => LiveThreadOwnsBuffers
  BY DEF IInv, Life, SetupInv, Available, Configuration, CaptureInitialized,
         LiveThreadOwnsBuffers
<1> QED
  BY <1>1, SetupInductive, PTL

\* From createBuffers to disposeBuffers CASIO and alsa_control agree on whether
\* input is read, whatever an earlier set_buffer that failed has left.
THEOREM BothSidesAgree == Spec => []ConfigAgreement
<1>1. SetupInv => ConfigAgreement
  BY DEF SetupInv, Available, Configuration, ConfigAgreement
<1> QED
  BY <1>1, SetupInductive, PTL

\* The audio thread reads from, waits for and writes to started streams only.
THEOREM NoWaitOnUnstarted == Spec => []WaitsOnlyOnStarted
<1>1. SetupInv => WaitsOnlyOnStarted
  BY DEF SetupInv, Started, Streaming, WaitsOnlyOnStarted
<1> QED
  BY <1>1, SetupInductive, PTL

============================================================================
