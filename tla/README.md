# WineDirectALSA in TLA+

WineDirectALSA is an ASIO driver for Wine that plays and records directly on
ALSA `hw:` devices. A host application loads a COM object (`CASIO`); a Unix
library behind Wine's Unix-call table owns the ALSA streams (`alsa_control`)
and reserves the sound cards on the user's D-Bus (`audio_reservation`). The
modules here model the threads, the streams and the reservation protocol; the
TLC runs check them on small instances, and TLAPS proves the safety properties for
all sizes.

## 1. Inventory

| Component | State | Operations | Meets others through |
|---|---|---|---|
| `CASIO` (`windows/src/CASIO.cpp`) | life-cycle `state`, active ports and their buffers, callbacks, `sample_position`, `audio_thread`, `backend_state_mutex` | `init`, `createBuffers`, `start`, `stop`, `disposeBuffers`, destructor, queries; the audio thread started by `start` | host calls; `bufferSwitch`/`asioMessage` callbacks; Unix calls |
| `alsa_control` (`linux/src/alsa_control.cpp`) | two PCM handles, `*_initialized`, `linked`, `capture_enabled` | constructor (open with retry), `set_buffer`, `prepare`, `start`, `read`, `write`, `wait_period`, `stop`, destructor, `get_devices` | ALSA; called from the host thread and from the audio thread |
| Bridge (`ALSABackend.cpp`, `linux/src/main.cpp`, `wine_unixlib.c`) | one process-wide `ac` | twelve Unix calls | `CASIO` above, `alsa_control` and `audio_reservation` below |
| `audio_reservation` (`linux/src/audio_reservation.cpp`) | `bus`, `reservations`, `dbus_thread` | `request_acquire`, `release`, answers to `RequestRelease` | D-Bus names and calls between processes |
| COM server (`CASIOClassFactory.cpp`, `dllmain.cpp`) | `global_ref_count`, per-object counts, registry entries | class factory, `LockServer`, `DllCanUnloadNow`, registration | creates and deletes `CASIO`; hosts find it in the registry |
| Control panel (`wdactrl/winmain.cpp`) | the device list, two registry values | refresh, select, apply | `get_devices`; the registry values `CASIO::init` reads |
| `realtime_thread` (`linux/src/realtime_thread.cpp`) | the process's `RLIMIT_RTTIME` | asks RealtimeKit for real-time priority | RealtimeKit on D-Bus; called first by every audio thread |
| `asio.h`, `asio.cppm`, `WDA.cpp` | none | declarations, GUIDs | |
| `wda-install` | none | copies files, registers the DLL | |

What makes them hard:

* `stop()` runs on the host thread while the audio thread may be anywhere,
  including blocked in an ioctl or in the middle of `recover_xrun`, whose
  prepare and writes are outside the mutex. Correct means: `stop` returns, the
  streams are silent afterwards, and nothing is freed under the thread.
* Two streams may be linked or not. Unlinked ones are prepared, started and
  dropped by two ioctls, either of which may fail. Correct means: nobody waits
  on a stream that never started, none is left running.
* A device may underrun, suspend or disappear between any two calls. Correct
  means: the half named by `bufferSwitch` and the sample position stay in
  step, the silence written in recovery fits and is accounted for, and no
  more is queued ahead of the host than the latency it was told, as far as the
  playback stream paces the thread.
* `createBuffers` and `set_buffer` return from the middle of their work.
  Correct means: later calls do not build on the mixture they leave.
* The host may ask for the position from a callback or from its own thread,
  which loads the position and the start of the run with nothing that orders
  the loads, while the audio thread moves. Correct means: time stamps are exact
  and never go back.
* The halves of the double buffers outlive a run. Correct means: the host sees
  fresh input, and the device gets what the host wrote, each half once.
* The reservation spans processes that block on each other, time out, answer
  late and die. Correct means: a card believed reserved is owned, no name is
  left behind by a failure, and `request_acquire` returns.
* One `alsa_control` serves all `CASIO` objects of a process, and an object
  whose `init` failed is deleted like any other. Correct means: only the object
  that opened the backend closes it, a failed `init` gives everything back, and
  no card is released while a PCM on it is open.
* Objects, factories and locks share one count; a registration may stop after
  any of its registry calls. Correct means: the DLL stays while a client needs
  it, and a driver that is listed can be created.
* Devices come and go while the control panel lists them, and a driver may read
  the registry between its two writes. Correct means: the list and the combo
  boxes agree, and what is stored is usable and what the user chose.
* Each run's audio thread lowers a limit that belongs to the process, outlives the
  thread and cannot be raised again. Correct means: a later run is not refused
  because of what an earlier one has left.

`PROJECT.json` lists the hazards by source line, with the properties that
cover each, or the reason none does.

## 2. Modules

| Module | Models |
|---|---|
| `AlsaControl` | `alsa_control`, and the part of ALSA it relies on |
| `Casio` | `CASIO` with both threads, extending `AlsaControl` |
| `AsioContract` | abstract specification: what an ASIO host relies on |
| `StreamData` | what the double buffers hold, composed with every step of `Casio` |
| `StreamClock` | `getSamplePosition` against the audio thread's clock |
| `RealtimeThread`, `MCRealtimeThread` | `make_realtime_thread` run after run, and RealtimeKit |
| `Reservation` | `audio_reservation` in several processes, the bus, other programs |
| `CardLease` | abstract specification: what reserving cards promises |
| `UnixLib` | the Unix library of several processes: objects over one `ac`, composed with `Reservation` |
| `ComServer` | class factories, counts, loading and unloading, registration |
| `DevicePanel`, `MCDevicePanel` | the control panel, the machine's devices, a driver that reads the registry |
| `AlsaControlProofs`, `CasioProofs`, `StreamClockProofs`, `RealtimeThreadProofs`, `ComServerProofs`, `DevicePanelProofs` | theorems about the module of that name |
| `StreamProofs` | theorems about the audio thread's cycle in `Casio`, its refinement of `AsioContract`, and `StreamData` |
| `UnixLibProofs` | theorems about `Reservation`, and about `UnixLib` on top of it |

Operators introduced by a comment "Mutant of X" are faulty variants of the
definition below them (a dropped guard, an off-by-one). No specification uses
them; put in the place of X, each violates a property, which shows that the
property depends on that piece of code.

### AlsaControl

State: `linked`, `capture_enabled` as in the class; `pcm[s]` is the state of
each PCM (`closed` stands for `*_initialized == false`), `fill[s]` the frames
in its ring buffer. The module has no `Next`: each operator is one ioctl or one
piece of an operation, and `Casio` uses it from either thread, so that the
other thread and the device can act between two ioctls of the same
`alsa_control` call. `SetBuffer` is one step, since no stream runs and no other
thread exists when it is called; it has every early return of the code, with
what each leaves behind.

ALSA is outside the repository. What is taken of it: `snd_pcm_prepare` works
from setup, prepared, xrun and suspended, on both streams of a linked pair, and
fails on a running one; `snd_pcm_start` works only from prepared, for playback
only with data queued; `snd_pcm_drop` stops at once and wakes a blocked call; a
transfer moves what fits and blocks otherwise; a stream that starves goes to
xrun with everything linked to it. `Tick` is one period of the device's clock:
the two streams of a linked pair share it, unlinked ones tick independently.
`Suspend` and `DeviceLost` may happen at any time. Any ioctl that the code
tests for failure may fail.

### Casio

`hpc` is where the host thread is inside `start` or `stop`, `apc` where the
audio thread is:

| `apc` | in the code (`CASIO.cpp`) |
|---|---|
| `begin`, `first` | 248-259: position and input cleared; inside `bufferSwitch(0)` |
| `fill`, `fillDone` | 263-277 and 110-118: a block of prefill or of recovery's silence |
| `launch` | 279, 122: about to lock `backend_state_mutex` |
| `starting`, `startingPlayback` | `start_backend`, one or two ioctls, mutex held |
| `loop` | 291: test of the stop token |
| `input`, `inputDone` | 292-313: `read_backend` or `wait_backend_period` |
| `switch` | 317: inside `bufferSwitch(index)` |
| `output`, `outputDone` | 320-340 |
| `recover`, `reprepare`, `reprepareCapture` | 87-104 |
| `exited` | the lambda has returned, nobody has joined it |

A transfer is split into the chunks `writei` or `readi` moves (`rem` is what is
left), so `stop` may drop the stream half-way. `blocks` counts the prefill;
`recovering` tells `recover_xrun` from the first start and, once set, stays set:
from then on only `recover_xrun` fills. It also decides whether the stop token
is tested before a block or after it, as the two pieces of code differ there.
`stop`, `disposeBuffers` and the destructor share the actions that stop a
running stream (`call` says which of them it is); they differ in `Join`.
`Join` also resets the variables that stand for locals of the lambda.

`lastHalf`, the argument of the last `bufferSwitch`, is a ghost.

Assumed of the host: it calls the object from one thread at a time (the class
is registered with `ThreadingModel=Apartment`), never calls `stop`,
`disposeBuffers` or `Release` from inside a callback (`stop` would join its own
thread), and its callbacks return. It may make any call in any state
otherwise: calls the code rejects change nothing and are left out. Creating a
`jthread` is taken to succeed.

Modelled elsewhere: the contents of the buffers (`StreamData`), time stamps and
`setSampleRate` (`StreamClock`), reference counts (`ComServer`), the registry
values (`DevicePanel`), several objects and the reservation (`UnixLib`).
`InitDriver` is the successful `init`; a failed one changes nothing of this
state. Read-only queries that return constants are left out, but for the output
latency. `make_realtime_thread`, the first thing the thread does, is taken to
return: its D-Bus calls have timeouts, but the stop token does not interrupt
them, so `StopReturns` includes that wait.

### AsioContract

One thread, no ALSA: `phase`, the last `half`, the `position`, whether the
stream is `sounding`, and `ready`: the position accounts for everything up to
the next start. The first switch of a run names half 0 at position 0, before
any sound; each later one names the other half, one block further on; an
interruption moves the position by one buffer of silence, and only after that
may sound start again; phases change only along the ASIO life cycle, and in
silence. `Casio` implements it with `phase <- state`, `half <- lastHalf`,
`position <- sample_position`, `sounding <- pcm["playback"] = "running"` and
`ready <- Accounted`: the audio thread is between the end of the accounting
(the first `bufferSwitch`, or recovery's `fetch_add`) and `start_backend`.

### StreamData

Extends `Casio` and adds the contents of the two input halves, the two output
halves and the block being written, one token each: `none` (no storage),
`silence`, `new` (written in this run, not used yet), `used`, `old` (of an
earlier run). Every action of `DataNext` is one of `Casio` together with what it
does to the buffers: zeroed by `createBuffers`, shown to the host and filled by
it in `bufferSwitch`, taken by `interleave`, filled by `deinterleave`, left over
by `stop`, freed by `disposeBuffers`. The host is assumed to read and fill the
halves before a `bufferSwitch` returns (`directProcess` is always true).
Channels of a direction are moved in one loop and have one token.

### StreamClock

The audio thread of `Casio` reduced to the steps that touch the clock, each of
which may be its last, and the host thread inside `getSamplePosition`:
`LoadPosition` and `LoadStart` come in either order, since nothing in the code
orders them. `timeGetTime` is `now` modulo `MsWrap`; the arithmetic is modulo
`Word`, with the split into seconds and remainder as in the code. The start
is a plain 64-bit word: on the x86-64 the project builds for, a load is not
torn. `latched`, `relies`, `floor` and `answered` are ghosts: when the start was
latched, and the last answer of this run the host could rely on. A call that
began before the first callback of a run is not relied on: its answer may be
about the run before (`CASIO.cpp:470` is reached with the old position until the
new thread has run).

### RealtimeThread

`make_realtime_thread` step by step: the two properties of RealtimeKit,
`getrlimit`, `setrlimit`, `MakeThreadRealtime`. A process has one audio thread at
a time, since one object holds the backend (`OneHolder`) and `stop` joins its
thread (`StoppedIsSilent`); the hard `RLIMIT_RTTIME` of the process stays from run
to run and only falls. `stayed` is a ghost: RealtimeKit has not changed since the
thread of this run began. RealtimeKit is
external: it grants a request when the limit is at most what it advertises and
the priority is in its range; it may be absent, restart, or change. What it
advertises is signed and may be negative; the casts to unsigned are modelled.
`End` is the end of a run: the next one asks again.

### Reservation

`owner` and `replaceable` are the bus's: who owns a card's name and whether it
said `ALLOW_REPLACEMENT`. Per process of this code: `pc` in
`request_acquire`, the `cards` still to be acquired, its `reservations`, the
connection it `asked` and the `answer`. `dbus_thread` exists exactly in
`serving`; a process that is itself inside `request_acquire` answers nobody.
`Apps` are processes that run this code, `Peers` are other programs of the
protocol: they take free names, leave, and answer what they like or never. They
do not replace a process of this code, since the protocol has them ask first
and `request_release` accepts no priority an `int` can hold.
`Fail` is the failure of `acquire` with the `cleanup` that `request_acquire`
then makes. Closing the connection makes unanswered calls fail at their
callers (`HangUp`). A failed
`sd_bus_open_user` changes nothing and is not an action. `Crash` is the death of
a process; the bus frees its names. The three constant properties
of the D-Bus object are left out.

`CardLease` is what the protocol is for: a process takes all the cards it wants
in one step, when nobody has any, and drops all in one step. `Reservation`
implements it, as long as only processes of this code take part, with
`held <-` the reservations of processes in `serving`.

### UnixLib

Extends `Reservation` with what is above it in each process: `upc` is where the
process is inside `init_alsa_func` or `uninit_alsa_func`, `caller` the object
whose `init` runs, `control` whether `ac` is set, `user` which process has each
PCM open in the kernel. While `upc` is `reserving`, `Reservation` says where.
Opening a PCM retries for 500 ms: `OpenPlayback` waits for a free PCM and
`OpenFails` is the deadline or any other error. `ProcessDies` kills a process
anywhere; the bus notices at once, and the kernel closes its PCMs some time
after (`dead`), so that the next process may own the name and find the device
busy. Other programs may open a PCM without reserving anything. A process makes
its calls from one thread. Only devices that name a card are considered; others
reserve nothing. What happens between open and close is `Casio`.

### ComServer

One process with the DLL loaded or not; factories and drivers with the
references clients hold (`held`) beside the count in the object (`ref_count`);
`LockServer`; `Unload` when COM is told it may. A failed `QueryInterface` on a
new object is the case `queried = 0`. Registration runs in another process
(`regsvr32`), one registry call per step, and may stop after any. Clients are
taken to release only what they hold, and the calls of one apartment not to
overlap: `global_ref_count` is a plain integer.

### DevicePanel

One panel. `RefreshDevices` calls `get_devices` twice, for the number and for
the list, and devices come and go in between: with no device at first the
second call gets no room and succeeds all the same, and the list is resized to
entries that are all zeros (`Fetched`). The combo boxes keep indices into the
list; `PressOK` reads the ids through them; `StoreInput` and `StoreOutput` are
the two registry writes, either of which may fail. A driver reads the two values
one by one at any time; `driver.promised` is the pair that the last "you must
restart" message announced when it started.

## 3. Runs

| Run | Specification | Checks | States |
|---|---|---|---|
| `casio_safety` | `Casio!Spec` | type invariant, ten invariants, `KeepsContract` (refinement of `AsioContract`) | 171 183 |
| `casio_stop` | `ThreadsSpec` | `StopReturns` | 88 131 |
| `casio_transfers` | `ClockSpec` | `TransfersReturn` | 88 131 |
| `stream_data` | `DataSpec` | `DataTypeOK`, `ShowsFreshInput`, `OnlyFirstBlockIsStale` | 139 492 |
| `stream_clock` | `StreamClock!Spec` | `TypeOK`, `CallbackAnswered`, `TimestampExact`, `AnswersAdvance` | 245 679 |
| `realtime_thread` | any number of runs | `TypeOK`, `AskedMeansRealtime` | 1 687 |
| `reservation_returns` | `FairSpec`, two processes, one other | `TypeOK`, `NoNameLeaked`, `AcquireReturns` | 21 052 |
| `reservation_preempted` | two processes, one other program | `HeldMeansOwned`: violated | |
| `lib_apps` | `LibSpec`, two processes, nobody else | `HeldMeansOwned`, `OpenMeansOwned`, `LeasesCards` (refinement of `CardLease`) | 43 842 |
| `lib_objects` | `FairLibSpec`, two objects in a process, one other program | `OneHolder`, `CallsReturn` | 166 392 |
| `com_server` | `ComServer!Spec` | `TypeOK`, `UnloadedMeansUnused`, `CountsReferences`, `ListedMeansLoadable` | 11 573 |
| `device_panel` | three devices | `TypeOK`, `ItemsListed`, `StoredIsUsable`, `RestartTakesEffect`, `RefreshKeepsChoice` | 561 168 |

What `casio_safety` shows, beside types:

* `StoppedIsSilent`: outside Running there is no audio thread and no running
  stream. In particular the destructor's "defensive fallback" never has a
  thread to join.
* `DropIsFinal`: once `stop_backend` has returned to `stop`, the audio thread
  cannot start the streams again. The stop token, tested under the mutex, is
  what ensures it: the mutex alone would not, as recovery prepares outside it.
* `LiveThreadOwnsBuffers`: buffers, callbacks and handles exist while the
  thread can use them.
* `HalfMatchesPosition`: `(sample_position / block) % 2` is the half of the last
  switch, through both kinds of xrun. It rests on a buffer being an even number
  of blocks, and on `index` being toggled exactly when a switch has happened.
* `PrefillFits`: a block of prefill or silence never exceeds the room in a
  buffer that nothing drains.
* `ConfigAgreement`: after a successful `createBuffers`, both sides agree on
  whether input is read, and a linked pair is one capture uses.
* `WaitsOnlyOnStarted`: the thread never waits on a stream nobody started.
* `QueuedWithinLatency`: when the playback stream paces the thread, alone or linked
  to a capture stream, no more than the reported output latency is queued in its
  ring buffer when the host is asked for a half. An unlinked capture stream is
  excepted: it paces the thread by its own clock, a whole buffer may be queued
  then, and `getLatencies` reports the same constant (`CASIO.cpp:387-389`). It is
  a statement about the queue, not about when a half is heard: what the device
  adds behind the ring buffer is in the 174 frames `src/README.md:88` measures
  against 160 reported, and not in the model.
* `RecoveryFindsStreamsStopped`: recovery prepares stopped streams only.
  Unlinked pairs are excepted: when only one of two unlinked streams met the
  xrun, `snd_pcm_prepare` refuses the other (EBUSY), `recover_xrun` fails and
  the audio thread ends; the state stays Running until the host calls `stop`.
* `RoundTripFixed`: with linked streams, whenever the host is asked for a half,
  what is queued for playback and what is captured but unread add up to the same
  number, first run and recoveries alike. The README's benchmark measures the
  round trip ten times and gets 174 each time (`src/README.md:93`); here it holds
  through every xrun.

What the others show:

* `stream_data`: a `bufferSwitch` shows the block just read, or silence when it
  is the first of a run, never a half left over. Of the blocks sent, only the
  very first of a run (half 1, which no `bufferSwitch` has named yet) can be one
  the host has not filled in that run: after `stop` and `start` without
  `disposeBuffers` it is the last half 1 of the run before. Everything else but
  the silence of a recovery is the host's, each half once.
* `stream_clock`: the state is set before the thread exists, so every callback
  is answered; the split into seconds and remainder gives the exact time stamp
  although the plain product leaves the word; and answers the host relies on
  never go back, whichever thread asks and whichever load comes first. Across a
  wrap of `timeGetTime` between two runs time stamps do go back; the property
  excepts it.
* `realtime_thread`: while RealtimeKit stays and grants something, the thread of
  every run becomes real-time, also when an earlier run, under a RealtimeKit
  that advertised less, has left a lower limit. No run sets a limit of 0.
* `reservation_returns`: `request_acquire` returns also when two processes hold
  the card the other one asks for and neither answers, and leaves no name.
* `lib_apps`: an open PCM implies that its card's name is owned, through deaths;
  reserving card by card looks like taking all at once.
* `lib_objects`: with several objects, an exclusive backend has one holder, who
  can close it; a failed `init` keeps no card and no PCM; every call returns even
  if a device stays busy for ever or nobody answers on the bus.
* `com_server`: counts agree with references through failed `QueryInterface`s;
  the DLL is not unloaded while anyone holds a reference or a lock; a driver
  listed under `ASIO` has its class, server path and threading model, wherever a
  registration stopped.
* `device_panel`: item data always index the list, though `IDOK` does not check;
  an entry that was never filled in can be selected as an input but not stored,
  because no output is listed beside it; a driver started after the message gets
  the announced pair; a refresh keeps the selection.

`reservation_preempted` is the one disagreement between code and comment. A
process asks another program for a card; that program gives up the name before
it answers; a second WineDirectALSA process takes the free name and plays; the
answer "yes" arrives and the first process replaces the second. The comment in
`request_release` (`audio_reservation.cpp:41-43`) calls the reservation
non-preemptible, but every name is requested with `ALLOW_REPLACEMENT`, so
`request_release` is never asked. `lib_apps` and the theorem
`AppsKeepReservations` show that it takes a third program: processes of this
code alone do not preempt each other.

### Bounds

* `Period = 1, Block = 2, Buffer = 4` is 32 : 64 : 128, the code's values, in
  units of a period. The device's pointer moves by whole periods, and every
  threshold the code depends on (`avail_min`, a block, a buffer) is a whole
  number of them.
* `PositionWrap = 8` (4 in the liveness runs) stands for 2^64; it is a multiple
  of two blocks, as 2^64 is, so that a wrap keeps the parity of the half. A
  run wraps within two recoveries.
* `Channels = {c1}`, one channel per direction of the code's two. Channels are
  distinguished only in which ports are active; one per direction already gives
  input only, output only, both, and a port list that fails after either.
* `stream_data` has `Period = Block = 1, Buffer = 2`: which half goes where
  depends on blocks, not on the periods inside them.
* `stream_clock`: `Rate = 3`, `NsPerS = 10`, so that the division has a
  remainder; `NsPerMs = 2`, `MsWrap = 4`, so that `timeGetTime` wraps within
  `MaxTime = 5`; `Word = 45` is less than the product of the largest position
  and `NsPerS`, as 2^64 is after four and a half days at 48 kHz, and more than any time stamp
  reached. `MaxPosition = 10` is two recoveries and a block; `MaxTime` and
  `MaxPosition` stop a run there. `Rates` has a rate the driver refuses.
* `realtime_thread`: `Infinity = 5` is the largest number; RealtimeKit
  advertises -1, 0 and two useful numbers, and the initial limit is 0, useful
  or unlimited. Runs and restarts of RealtimeKit are unlimited.
* Two cards are the most one request names; two processes and one other
  program are the least that show every pair of roles. `lib_objects` has two
  objects, of which one may hold the backend while the other one tries.
* `com_server`: two factories and two drivers, `MaxRefs = 2` references each,
  `MaxLocks = 1`; the proofs are for any numbers.
* `device_panel`: one device of each type; a fourth would be another of some
  type. Devices come and go without limit.

Nothing else is bounded: runs, recoveries, restarts, `createBuffers` calls,
deaths and deleted objects are unlimited. Deadlock is checked in every run.

### Fairness

`ThreadsSpec`: weak fairness of the audio thread and of the host thread inside
a driver call. Operating-system scheduling and returning callbacks justify it;
the host need not make any call, and the device promises nothing, not even
that its clock goes on. That is enough for `StopReturns`, because the drop wakes
a blocked audio thread. `ClockSpec` adds weak fairness of the ticks of a
running stream: a running device's clock goes on. `FairSpec`: weak fairness of
each process inside `request_acquire`, which includes the timeout of the D-Bus
call; nothing is assumed of other programs or of `dbus_thread`.
`FairLibSpec`: weak fairness of each process inside `init` or the destructor,
which includes that timeout and the 500 ms after which opening a busy device
fails; the device may stay busy for ever.

## 4. Proofs

Every safety invariant, action property and refinement that a passing run checks
is also a theorem. The theorems hold for every `Period`, `Block`, `Buffer` and
`PositionWrap` that `GeometryAssumption` and `BlockAssumption` admit, every set of channels,
and every set of processes, other programs and cards that `ProcessAssumption`
admits (pairwise disjoint, and nobody is `NoOwner`). The two assumptions on
sizes are the `static_assert`s of `CASIO.cpp:23-25`, positivity, and a wrap that
keeps parity. Some results need more of the sizes the code has (`CASIO.cpp:18-21`: a
period of 32, blocks of 64 and a buffer of 128 frames) and name it as a
hypothesis: `EvenBlocks` (a whole number of pairs of halves to the buffer) or
`DoubleBuffered` (exactly one pair). `DeviceAssumption`, `ServerAssumption` and `RealtimeAssumption`
keep names apart and numbers in range; `ClockAssumption` asks that a second of
frames times 10^9 fits the word, and `WordAssumption` that a run ends before its
time stamp leaves it, after 584 years.

`AlsaControlProofs` has one lemma per operation and per hardware event: it keeps
types, keeps a linked pair in one state (`LinkedAgree`), starts nothing unless
it is a start, closes nothing unless it is a close. `CasioProofs` cites them and
never opens an operation again. `SetBufferSettles` is the one with content of
its own: a failed `set_buffer` that left a pair linked and in two states
would break everything above.

`CasioProofs`:

* `Inductive` (`Spec => []IInv`). `StoppedIsSilent` and `DropIsFinal` are not
  inductive: nothing in them says who may start a stream. `IInv` adds:
  `Life` (the audio thread exists exactly in Running; only Running has running
  streams), `HostInside` (inside `stop` the token is set), `MutexOwner` (each
  thread holds the mutex exactly at the steps where the code does),
  `CaptureUsed` (a running capture stream is linked or enabled, hence
  `stop_backend` reaches it), `Dropped` (what `stop` has dropped stays
  stopped, and the audio thread is not between lock and start), `FillCounts`
  (a block being filled has been counted) and `AlsaInv`.
* The argument for `DropIsFinal`: a start needs the mutex and a token that is
  not set; from `RequestStop` on the token is set, so whoever gets the mutex
  after that exits; and a start under way has the mutex, so the drop comes
  after it and reaches what it started.
* `TypeCorrect`, `Silence`, `NoRestart` follow for `TypeOK`, `StoppedIsSilent`
  and `DropIsFinal`.

`CasioProofs` then adds to `IInv` what `createBuffers` leaves to later calls
(`SetupInv`): `Available` (`is_capture_available` says whether the capture PCM
is open), `Configuration` (ports, storage, callbacks, and both sides' idea of
capture) and `Started` (from the loop on nothing is in the state `prepare` left
it in). Nothing but `init` and the destructor opens or closes the capture PCM;
nothing but a `prepare` or `set_buffer` makes a stream prepared, and the audio
thread does not return to the loop from a `prepare` without starting what it
uses. `NothingFreedUnderThread`, `BothSidesAgree` and `NoWaitOnUnstarted` follow
for `LiveThreadOwnsBuffers`, `ConfigAgreement` and `WaitsOnlyOnStarted`.

`StreamProofs`, for the audio thread's cycle:

* `CycleInductive` adds `CycleInv` to the two invariants above: `Switching` (at each
  step, whether `index` is the half named last or the other one), `Unstarted`
  (nothing plays until `start_backend` has started it), `Faulted` (a transfer
  fails only on a stream that has stopped, and between the failure and the
  `prepare` nothing starts it) and `CaptureEmpty`. `PreparesStoppedStreams`
  (`RecoveryFindsStreamsStopped`) follows.
* `HalfAndPosition` (`HalfMatchesPosition`), under `EvenBlocks`, from `InStep`: the
  position modulo a pair of halves is where the half named last begins. A
  `bufferSwitch` moves both by a block, the silence of a recovery moves the
  position by whole pairs, and a wrap takes whole pairs away (`ModWrap`,
  `ModShift`, `HalfOf`). Without `EvenBlocks` it fails: a recovery writes one
  buffer of silence and does not change the half.
* `ImplementsContract` (`KeepsContract`): each action is a step of `AsioContract` or
  leaves its state alone. `PhaseStep`, `HostContract` and `AudioContract` are the
  cases; that a step which sets `sounding` has accounted for the position comes
  from `Switching` and `Unstarted`.
* `PrefillAlwaysFits` (`PrefillFits`), under `EvenBlocks`, from `Prefilled`: what is in
  the playback buffer, what is left of the block being written and the blocks
  still to come are together the blocks the prefill began with.
* `NothingHoldsUpStop` (under `EvenBlocks`) and `EndIsNear`: the part of `StopReturns`
  that needs no fairness. The first: while `stop` waits for the mutex, its holder is
  inside `start_backend`; while it waits for the join, the audio thread is in no
  transfer that sleeps and before no taken mutex (`StopCanGoOn`), even when it
  prepared and fills the streams after the drop, since a prefill always
  fits. The second: a thread asked to stop takes the mutex no more and leaves
  `start_backend` in two steps, and every step it takes after the drop brings it
  nearer to its end, by `Distance` or within one block by `rem` (`Winding`). Weak
  fairness of the threads, and that their guards are what `ENABLED` would
  say, are all that is left to TLC.
* `SameRoundTrip` (`RoundTripFixed`) and `QueueBoundedByLatency` (`QueuedWithinLatency`), under
  `DoubleBuffered`, from `Balanced` and `Awaited`. The two ring buffers of a linked
  pair hold a full buffer between them, less what the thread has read and not
  written yet: a tick takes a period from one and puts it into the other, the
  thread moves the same frames the other way, and whatever loses frames stops the
  pair, after which a prefill starts from a full buffer again. Without capture,
  `wait_period` returns only when there is room for a period. Both leave out the
  unlinked pair, whose two ring buffers nothing balances.

and for the data, where `DataAddsNothing` carries all of that over to `StreamData`:

* `DataTypeCorrect` (`DataTypeOK`), from `Chosen` (the driver reads exactly when an
  input port is active) and `Configuration`: the thread writes only halves that
  have storage.
* `InputIsFresh` (`ShowsFreshInput`) and `OutputIsTheHosts` (`OnlyFirstBlockIsStale`).
  While the thread is alive no call changes a buffer (`BuffersAreTheThreads`);
  `HostBlockReady` says that half 0 is the host's and unused until the second
  block of a start takes it.

`UnixLibProofs`, for the reservation: `NothingLeaked` for `NoNameLeaked`, from the
invariant that
a process owns only names it has a reservation for and that idle processes
have none; `AppsKeepReservations` for `HeldMeansOwned` under `Peers = {}`, from
the invariant that without other programs nobody is ever told yes. The
assumption is needed: `reservation_preempted` is the counterexample without
it. `ImplementsLease` (`LeasesCards`): a step of the protocol changes what one
process holds at most; it becomes `serving` with cards it owns, so nobody else
holds them. `ReservationTypes` (`TypeOK`): what is left of a request is a request
whose cards are not reserved yet (`Unreserved`), which is what keeps a process
from asking the bus for a name it has.

`UnixLibProofs`, for the library: `UsesReservation`, every step of the library is a step of
`Reservation` or leaves it alone, so that its theorems carry over;
`LibInductive`, whose `Phase` says for each point of a call which cards the
process has reserved or has yet to, whether it has the control, and that it uses
no PCM where it gives cards back; `HolderIsUnique` for `OneHolder`, any number of
processes, objects and other programs; `StreamsAreReserved` for
`OpenMeansOwned` under `Peers = {}`.

`ComServerProofs`: `CountsAgree` and `StaysWhileUsed` from `Counted` (the counts
agree, and an unloaded DLL has no objects and no locks), with the cardinality of
the living objects followed step by step, and `ServerTypes`; `ListedIsLoadable` from `Written`,
what `regsvr32` has written before each write that depends on it.

`StreamClockProofs`: `ConversionIsExact` states the arithmetic for every rate,
word, start and position whose time stamp fits, from the uniqueness of quotient
and remainder (`DivMod`, `DivUnique`). `IInv` says that what a call has loaded
was current when it was read (`Records`), in which run (`Threads`) and after
what (`Ordered`); `ClockTypes`, `CallbacksAreAnswered`, `TimestampsAreExact` and
`ClockNeverGoesBack` follow.

`RealtimeThreadProofs`: `ThreadsBecomeRealtime` and `NoLimitOfZero` for any number
of runs and any numbers advertised. `Promised`: the thread about to set the limit
asks for no more than what is advertised and no more than what the limit is, so
that neither the kernel nor RealtimeKit has a reason to refuse.

`DevicePanelProofs`, for any sequence of devices and their types: `PanelInductive`
joins `Listed` (items are entries of their kind, and an input is selected wherever
a command runs), `Remembered` (a refresh knows what was selected), `Storing` (the
pair being stored is usable; between its two writes no message is in force) and
`Promised` (a message in force tells what is stored, and a driver started under
it has read that much). `PanelTypes`, `ItemsAreListed`, `OnlyUsableIsStored`,
`RestartIsEnough` and `ChoiceSurvivesRefresh` follow for `TypeOK`, `ItemsListed`,
`StoredIsUsable`, `RestartTakesEffect` and `RefreshKeepsChoice`. That an unfilled
entry is never stored rests on lists being all devices or all unfilled
(`ListEntries`): an output can be selected only in the former. The list of a machine
is built by a recursive function, and what `Find` chooses is a maximum; both
exist because every set of naturals has a least element (`LeastNatural`,
`LastIndex`, `CurrentType`), the form in which an induction over data is within
the provers' reach.

Only model-checked: the liveness properties `StopReturns` (but for the two theorems
above), `TransfersReturn`, `CallsReturn` and `AcquireReturns`. Proofs under fairness and about `ENABLED` are
out of the reach of the provers used. The run `reservation_preempted` is a
violation and has nothing to prove.

## 5. Not modelled

* Two apartments that create drivers in one process: `global_ref_count` and `ac`
  are then unsynchronised, and nothing in the repository promises anything.
  One apartment per process is an assumption of `Casio`, `UnixLib` and
  `ComServer`.
* Two control panels open at once: the last writer of each registry value wins.
* Devices whose name has no card number: they reserve nothing, and what remains
  is opening and closing.
* Sample values: `interleave` and `deinterleave` move them unchanged; which
  block goes where is in `StreamData`.
* Queries that return constants (channels, buffer sizes, clock sources, names),
  messages and dialogs, and the forwarding functions of the Unix call table.
* `asio.h` and its companions: declarations. `wda-install`: a script that copies
  files and registers the DLL once.

## 6. Plan

Every component with behaviour has its module, and every safety property its
theorem. What is left:

1. Theorems that say more than the runs ask: of a host with several runs, that what
   the contract alone promises (`AsioContract`) implies the parity of half and
   position; of `OpenMeansOwned`, what is left of it when other programs take
   cards.
2. What `EndIsNear` does for `stop`, for the other calls with a liveness property:
   `getSamplePosition` against a run that goes on, and an acquisition that meets
   several owners.
3. `StreamClock`'s assumption that a run ends before its time stamp leaves the
   word, replaced by the number of blocks it takes.
