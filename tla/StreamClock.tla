---------------------------- MODULE StreamClock ----------------------------
(***************************************************************************)
(* The clock of class CASIO: the audio thread counts sample_position and   *)
(* latches stream_start_timestamp_ns, and getSamplePosition makes the      *)
(* host's time stamp out of the two.                                       *)
(*                                                                         *)
(* The host may ask from a callback, which the audio thread runs, or from  *)
(* its own thread, between start() and stop().  In the second case it      *)
(* loads the two one after the other with nothing that orders the loads:   *)
(* sample_position is atomic but relaxed, the start is a plain word that   *)
(* the audio thread may be writing (the build is x86-64, so the load is    *)
(* not torn).                                                              *)
(*                                                                         *)
(* The audio thread is that of Casio without its transfers: each of its    *)
(* steps may be the last, when a stop is requested or a transfer fails.    *)
(***************************************************************************)
EXTENDS Integers

CONSTANTS
  Rate,       \* 48000, frames per second
  Rates,      \* what a host may pass to setSampleRate
  NsPerS,     \* 10^9
  NsPerMs,    \* 10^6
  MsWrap,     \* modulus of timeGetTime (2^32)
  Word,       \* modulus of the arithmetic and of sample_position (2^64)
  Block,      \* asio_buffer_size
  Buffer,     \* alsa_buffer_size
  MaxTime,    \* bound: milliseconds the model runs for
  MaxPosition \* bound: frames a run counts; see the last assumption

ASSUME ClockAssumption ==
  /\ {Rate, NsPerS, NsPerMs, MsWrap, Word, Block, Buffer} \subseteq Nat \ {0}
  /\ Rate <= NsPerS
  /\ Rate * NsPerS < Word
  /\ {MaxTime, MaxPosition} \subseteq Nat

\* A run ends before its time stamp leaves the word, in 2^64 ns or 584 years.
ASSUME WordAssumption ==
  MsWrap * NsPerMs + ((MaxPosition * NsPerS) \div Rate) < Word

VARIABLES
  now,         \* milliseconds since the machine started
  state,       \* CASIO::state, "Prepared" or "Running"
  sample_rate,
  sample_position,
  stream_start_timestamp_ns,
  latched,     \* ghost: now of the last latch
  stop,        \* a stop is requested
  hpc,         \* where the host thread is inside a call
  apc,         \* where the audio thread is
  query,       \* what the host thread's getSamplePosition has loaded
  relies,      \* ghost: the host had had a callback when that call began
  floor,       \* ghost: answered when that call began
  answered     \* ghost: the last answer of this run that the host relies on

hostVars == <<state, sample_rate, stop, hpc>>
clockVars == <<sample_position, stream_start_timestamp_ns, latched>>
queryVars == <<query, relies, floor, answered>>
vars == <<now, hostVars, clockVars, apc, queryVars>>

----------------------------------------------------------------------------
(* The arithmetic, modulo the word; the code's constants make no            *)
(* intermediate result wrap before the time stamp itself would.             *)

\* Mutant of Timestamp: the position is multiplied as a whole.
TimestampNaive(rate, start, pos) ==
  (start + (((pos * NsPerS) % Word) \div rate)) % Word

\* getSamplePosition: whole seconds and the remainder are converted apart.
Timestamp(rate, start, pos) ==
  LET seconds == ((pos \div rate) * NsPerS) % Word
      remainder == ((pos % rate) * NsPerS) % Word
  IN  (((start + seconds) % Word) + (remainder \div rate)) % Word

\* The time stamp the code means to compute.
ExactTime(start, pos) == start + ((pos * NsPerS) \div Rate)

Answers == [position : Nat, start : Nat, timestamp : Nat, latched : Nat]

NoAnswer == [position |-> 0, start |-> 0, timestamp |-> 0, latched |-> 0]

Answer(pos, start, at) ==
  [position |-> pos, start |-> start, latched |-> at,
   timestamp |-> Timestamp(sample_rate, start, pos)]

\* Steps of the audio thread inside a callback of the host.
Calling == {"first", "switch", "overload"}

\* Steps of the audio thread at which the first bufferSwitch of the run has
\* come: from then on the host knows that the run has begun.
Called == Calling \cup {"started", "loop", "exited"}

----------------------------------------------------------------------------
Init ==
  /\ now = 0
  /\ state = "Prepared" /\ sample_rate = Rate
  /\ sample_position = 0 /\ stream_start_timestamp_ns = 0 /\ latched = 0
  /\ stop = FALSE
  /\ hpc = "idle" /\ apc = "none"
  /\ query = NoAnswer /\ relies = FALSE
  /\ floor = NoAnswer /\ answered = NoAnswer

\* timeGetTime goes on.
Tick ==
  /\ now < MaxTime
  /\ now' = now + 1
  /\ UNCHANGED <<hostVars, clockVars, apc, queryVars>>

(* Host thread.                                                             *)

\* Mutant of SetSampleRate: any rate is taken.
SetAnyRate ==
  /\ hpc = "idle" /\ state # "Running"
  /\ sample_rate' \in Rates
  /\ UNCHANGED <<now, state, stop, hpc, clockVars, apc, queryVars>>

\* setSampleRate; canSampleRate accepts one rate.
SetSampleRate ==
  /\ hpc = "idle" /\ state # "Running"
  /\ sample_rate' \in Rates \cap {Rate}
  /\ UNCHANGED <<now, state, stop, hpc, clockVars, apc, queryVars>>

\* Mutant of Start: the state is left to the assignment after the thread.
StartLate ==
  /\ hpc = "idle" /\ state = "Prepared"
  /\ hpc' = "spawning"
  /\ UNCHANGED <<now, state, sample_rate, stop, clockVars, apc, queryVars>>

\* start() up to the thread: prepare_backend has succeeded.
Start ==
  /\ hpc = "idle" /\ state = "Prepared"
  /\ state' = "Running" /\ hpc' = "spawning"
  /\ UNCHANGED <<now, sample_rate, stop, clockVars, apc, queryVars>>

Spawn ==
  /\ hpc = "spawning"
  /\ apc' = "begin" /\ hpc' = "spawned"
  /\ UNCHANGED <<now, state, sample_rate, stop, clockVars, queryVars>>

\* The end of start(): the state is set once more.
Started ==
  /\ hpc = "spawned"
  /\ state' = "Running" /\ hpc' = "idle"
  /\ UNCHANGED <<now, sample_rate, stop, clockVars, apc, queryVars>>

\* stop(), and what ends a run with it.
RequestStop ==
  /\ hpc = "idle" /\ state = "Running"
  /\ stop' = TRUE /\ hpc' = "joining"
  /\ UNCHANGED <<now, state, sample_rate, clockVars, apc, queryVars>>

\* The rest of stop(): what was answered was about this run.
Join ==
  /\ hpc = "joining" /\ apc = "exited"
  /\ apc' = "none" /\ hpc' = "idle"
  /\ state' = "Prepared" /\ stop' = FALSE
  /\ answered' = NoAnswer
  /\ UNCHANGED <<now, sample_rate, clockVars, query, relies, floor>>

\* getSamplePosition on the host thread; outside Running it answers
\* SPNotAdvancing.
Ask ==
  /\ hpc = "idle" /\ state = "Running"
  /\ hpc' = "asking"
  /\ relies' = (apc \in Called) /\ floor' = answered
  /\ UNCHANGED <<now, state, sample_rate, stop, clockVars, apc, query,
                 answered>>

LoadPosition ==
  /\ hpc \in {"asking", "startLoaded"}
  /\ hpc' = IF hpc = "asking" THEN "positionLoaded" ELSE "answering"
  /\ query' = [query EXCEPT !.position = sample_position]
  /\ UNCHANGED <<now, state, sample_rate, stop, clockVars, apc, relies, floor,
                 answered>>

LoadStart ==
  /\ hpc \in {"asking", "positionLoaded"}
  /\ hpc' = IF hpc = "asking" THEN "startLoaded" ELSE "answering"
  /\ query' = [query EXCEPT !.start = stream_start_timestamp_ns,
                            !.latched = latched]
  /\ UNCHANGED <<now, state, sample_rate, stop, clockVars, apc, relies, floor,
                 answered>>

\* An answer to a call that began before the first callback may mix two runs:
\* the host cannot rely on it.
Reply ==
  /\ hpc = "answering"
  /\ hpc' = "idle"
  /\ answered' = IF relies THEN Answer(query.position, query.start, query.latched)
                 ELSE answered
  /\ query' = NoAnswer /\ relies' = FALSE /\ floor' = NoAnswer
  /\ UNCHANGED <<now, state, sample_rate, stop, clockVars, apc>>

----------------------------------------------------------------------------
(* Audio thread.                                                            *)

\* The thread ends after a stop request, or when a transfer has failed.
Exit ==
  /\ apc \in Called \ {"exited"}
  /\ apc' = "exited"
  /\ UNCHANGED <<now, hostVars, clockVars, queryVars>>

\* The position is cleared and bufferSwitch(0) called.
Begin ==
  /\ apc = "begin" /\ apc' = "first"
  /\ sample_position' = 0
  /\ UNCHANGED <<now, hostVars, stream_start_timestamp_ns, latched, queryVars>>

\* The callback has returned, the prefill is written, the streams started.
Launch ==
  /\ apc = "first" /\ ~stop
  /\ apc' = "started"
  /\ UNCHANGED <<now, hostVars, clockVars, queryVars>>

Latch ==
  /\ stream_start_timestamp_ns' = (now % MsWrap) * NsPerMs
  /\ latched' = now

\* latch_start_timestamp
LatchStart ==
  /\ apc = "started" /\ apc' = "loop"
  /\ Latch
  /\ UNCHANGED <<now, hostVars, sample_position, queryVars>>

\* sample_position.fetch_add, within the bound.
Advance(n) ==
  /\ sample_position + n <= MaxPosition
  /\ sample_position' = (sample_position + n) % Word

\* The next half is due: the position advances and bufferSwitch is called.
Switch ==
  /\ apc = "loop" /\ ~stop
  /\ apc' = "switch"
  /\ Advance(Block)
  /\ UNCHANGED <<now, hostVars, stream_start_timestamp_ns, latched, queryVars>>

\* The callback has returned and the half is written.
Switched ==
  /\ apc = "switch" /\ ~stop
  /\ apc' = "loop"
  /\ UNCHANGED <<now, hostVars, clockVars, queryVars>>

\* An xrun of the read, the wait or the write; the host is told.
Overload ==
  /\ apc \in {"loop", "switch"} /\ ~stop
  /\ apc' = "overload"
  /\ UNCHANGED <<now, hostVars, clockVars, queryVars>>

\* Mutant of Recovered: the clock starts again with the streams.
RecoveredRestarted ==
  /\ apc = "overload" /\ apc' = "loop"
  /\ sample_position' = 0 /\ Latch
  /\ UNCHANGED <<now, hostVars, queryVars>>

\* recover_xrun has written a buffer of silence and started the streams.
Recovered ==
  /\ apc = "overload" /\ apc' = "loop"
  /\ Advance(Buffer)
  /\ UNCHANGED <<now, hostVars, stream_start_timestamp_ns, latched, queryVars>>

\* getSamplePosition inside a callback: only this thread writes what it reads.
AskInCallback ==
  /\ apc \in Calling /\ state = "Running"
  /\ answered' = Answer(sample_position, stream_start_timestamp_ns, latched)
  /\ UNCHANGED <<now, hostVars, clockVars, apc, query, relies, floor>>

Host ==
  \/ SetSampleRate \/ Start \/ Spawn \/ Started \/ RequestStop \/ Join
  \/ Ask \/ LoadPosition \/ LoadStart \/ Reply

Audio ==
  \/ Begin \/ Launch \/ LatchStart \/ Switch \/ Switched \/ Overload
  \/ Recovered \/ Exit \/ AskInCallback

Next == Tick \/ Host \/ Audio

Spec == Init /\ [][Next]_vars

----------------------------------------------------------------------------
\* The rate that divides the position is the one the hardware runs at,
\* whatever a host has asked setSampleRate for.
TypeOK ==
  /\ now \in 0..MaxTime
  /\ state \in {"Prepared", "Running"}
  /\ sample_rate = Rate
  /\ sample_position \in 0..MaxPosition
  /\ stream_start_timestamp_ns \in 0..(MsWrap * NsPerMs)
  /\ latched \in 0..now
  /\ {stop, relies} \subseteq BOOLEAN
  /\ hpc \in {"idle", "spawning", "spawned", "joining", "asking",
              "positionLoaded", "startLoaded", "answering"}
  /\ apc \in {"none", "begin"} \cup Called
  /\ {query, floor, answered} \subseteq Answers

\* A host that asks for the position inside any callback, the very first
\* included, is answered: start() sets the state before the thread exists.
CallbackAnswered == apc \in Calling => state = "Running"

\* Every answer's time stamp is the start plus the exact time of its position,
\* though the code computes in a word that the plain product would leave.
TimestampExact ==
  answered.timestamp = ExactTime(answered.start, answered.position)

\* Answer b is no earlier than answer a: its position, its start, and, unless
\* timeGetTime has wrapped in between, its time stamp; and no two positions
\* counted from one start share a time stamp.
NotBefore(a, b) ==
  /\ a.position <= b.position /\ a.latched <= b.latched
  /\ a.latched \div MsWrap = b.latched \div MsWrap => a.timestamp <= b.timestamp
  /\ a.position < b.position /\ a.start = b.start => a.timestamp < b.timestamp

\* From the first callback of a run on the clock never goes back for the host,
\* whichever thread it asks on: not when the start is latched after answers
\* that used the start of an earlier run, not through a recovery, and not when
\* the audio thread moves between the two loads.
AnswersAdvance ==
  [][/\ hpc = "answering" /\ relies /\ hpc' = "idle" => NotBefore(floor, answered')
     /\ answered' # answered /\ hpc' = hpc => NotBefore(answered, answered')]_vars

============================================================================
