----------------------------- MODULE StreamData -----------------------------
(***************************************************************************)
(* What is in the double buffers of class CASIO and in the block it sends, *)
(* on top of every step of Casio.tla: whose data a bufferSwitch shows to   *)
(* the host, and whose data goes to the device.                            *)
(*                                                                         *)
(* A half is one token for the channels of its direction together: they    *)
(* are filled, cleared and copied in one loop.  Assumed of the host: it    *)
(* reads the input half and fills the output half a bufferSwitch names     *)
(* before it returns (directProcess is True in every call).                *)
(***************************************************************************)
EXTENDS Casio

VARIABLES
  input_half,          \* what each half of input_buffers holds
  output_half,         \* what each half of output_buffers holds
  interleaved_buffer   \* what the write under way sends, silence_buffer too

dataVars == <<input_half, output_half, interleaved_buffer>>

\* "none": no storage.  "silence": zeros.  "new": filled by the device or the
\* host in this run, and not used by the other side yet.  "used": and used.
\* "old": of an earlier run.
Contents == {"none", "silence", "new", "used", "old"}

Stored(direction) == \E p \in allocated : p[1] = direction

\* Halves have contents exactly while their ports have storage.
DataTypeOK ==
  /\ {input_half, output_half} \subseteq [0..1 -> Contents]
  /\ interleaved_buffer \in Contents \ {"none"}
  /\ \A i \in 0..1 : /\ input_half[i] # "none" <=> Stored("in")
                     /\ output_half[i] # "none" <=> Stored("out")

Both(content) == [i \in 0..1 |-> content]

DataInit ==
  /\ Init
  /\ input_half = Both("none") /\ output_half = Both("none")
  /\ interleaved_buffer = "silence"

Plays == \E p \in active : p[1] = "out"

----------------------------------------------------------------------------
\* createBuffers, also one that fails half-way: what has storage is zeroed.
Assigned(direction) == Both(IF Stored(direction)' THEN "silence" ELSE "none")

AssignBuffers ==
  /\ CreateBuffers \/ CreateBuffersInvalid
  /\ input_half' = Assigned("in") /\ output_half' = Assigned("out")
  /\ UNCHANGED interleaved_buffer

\* What a finished run leaves.
Aged(halves) ==
  [i \in 0..1 |-> IF halves[i] \in {"new", "used"} THEN "old" ELSE halves[i]]

\* Mutant of JoinRun: every call that stops leaves the contents.
JoinRunKept ==
  /\ Join
  /\ interleaved_buffer' = "silence"
  /\ input_half' = Aged(input_half) /\ output_half' = Aged(output_half)

\* The rest of stop(), and of the calls that stop and free the buffers.
JoinRun ==
  /\ Join
  /\ interleaved_buffer' = "silence"
  /\ IF call = "stop"
     THEN input_half' = Aged(input_half) /\ output_half' = Aged(output_half)
     ELSE input_half' = Both("none") /\ output_half' = Both("none")

FreeBuffers ==
  /\ DisposePrepared \/ Destroy
  /\ input_half' = Both("none") /\ output_half' = Both("none")
  /\ UNCHANGED interleaved_buffer

HostElsewhere ==
  /\ \/ NewDriver \/ InitDriver \/ StartPrepare \/ RequestStop
     \/ StartPrepareCapture \/ DropBackend \/ DropBackendCapture
  /\ UNCHANGED dataVars

----------------------------------------------------------------------------
(* Audio thread.                                                            *)

\* bufferSwitch(i) has returned.
Filled(i) == IF Plays THEN [output_half EXCEPT ![i] = "new"] ELSE output_half

\* interleave(i), from those halves, into the block to be written.
Interleave(halves, i) ==
  /\ interleaved_buffer' = IF Plays THEN halves[i] ELSE "silence"
  /\ output_half' = IF Plays /\ halves[i] = "new"
                    THEN [halves EXCEPT ![i] = "used"] ELSE halves

\* Mutant of BeginRun: the input half of bufferSwitch(0) is not cleared.
BeginRunUncleared ==
  /\ Begin
  /\ UNCHANGED dataVars

\* The run begins; the half of bufferSwitch(0) is cleared.
BeginRun ==
  /\ Begin
  /\ input_half' = IF capture_active THEN [input_half EXCEPT ![0] = "silence"]
                   ELSE input_half
  /\ UNCHANGED <<output_half, interleaved_buffer>>

\* Mutant of FirstBlock: half 0 is taken first, half 1 after it.
FirstBlockSwapped ==
  /\ FirstSwitched
  /\ Interleave(Filled(0), 0)
  /\ UNCHANGED input_half

\* bufferSwitch(0) returns; the first block is half 1.
FirstBlock ==
  /\ FirstSwitched
  /\ IF apc' = "exited"
     THEN output_half' = Filled(0) /\ UNCHANGED interleaved_buffer
     ELSE Interleave(Filled(0), 1)
  /\ UNCHANGED input_half

\* The second block of a start is half 0; those of a recovery are silence.
NextBlock ==
  /\ FillDone
  /\ IF apc' = "fill" /\ ~recovering
     THEN Interleave(output_half, 0)
     ELSE /\ interleaved_buffer' =
               IF apc' = "fill" THEN "silence" ELSE interleaved_buffer
          /\ UNCHANGED output_half
  /\ UNCHANGED input_half

\* deinterleave(index): the block read goes into the half bufferSwitch names.
InputBlock ==
  /\ InputDone
  /\ input_half' = IF apc' = "switch" /\ capture_active
                   THEN [input_half EXCEPT ![index] = "new"] ELSE input_half
  /\ UNCHANGED <<output_half, interleaved_buffer>>

\* bufferSwitch(index) returns and its output half is taken.
OutputBlock ==
  /\ Switched
  /\ input_half' = IF capture_active THEN [input_half EXCEPT ![index] = "used"]
                   ELSE input_half
  /\ Interleave(Filled(index), index)

AudioElsewhere ==
  /\ \/ Fill \/ Launch \/ StartStreams \/ StartStreamsPlayback \/ Loop \/ Read
     \/ WaitPeriod \/ Output \/ OutputDone \/ Recover \/ Reprepare
     \/ ReprepareCapture
  /\ UNCHANGED dataVars

DataNext ==
  \/ AssignBuffers \/ JoinRun \/ FreeBuffers \/ HostElsewhere
  \/ /\ \/ BeginRun \/ FirstBlock \/ NextBlock \/ InputBlock \/ OutputBlock
        \/ AudioElsewhere
     /\ UNCHANGED <<lifeVars, hostVars, stop>>
  \/ HardwareNext /\ UNCHANGED dataVars

DataSpec == DataInit /\ [][DataNext]_<<vars, dataVars>>

----------------------------------------------------------------------------
\* A bufferSwitch shows the host the block just read, or silence when it is
\* the first: never a half of an earlier run, or one it has seen, whatever
\* recoveries came in between.
ShowsFreshInput ==
  capture_active =>
    /\ apc = "first" => input_half[0] = "silence"
    /\ apc = "switch" => input_half[lastHalf] = "new"

\* Only the first block of a run can be one the host has not filled in it: the
\* half 1 that no bufferSwitch has named yet, silent after createBuffers and
\* left over from the run before after stop() and start(). What follows, but
\* for the silence of a recovery, is the host's, each half once.
OnlyFirstBlockIsStale ==
  Plays /\ interleaved_buffer # "new" =>
    /\ apc # "output"
    /\ apc = "fill" => recovering \/ blocks = FirstBlocks

=============================================================================
