------------------------------ MODULE UnixLib ------------------------------
(***************************************************************************)
(* The Unix library of a process and the driver objects above it: one      *)
(* alsa_control (the static ac of main.cpp) for all CASIO objects, opened  *)
(* by init after the cards are reserved and closed, before they are        *)
(* released, when the object that opened it is deleted.                    *)
(*                                                                         *)
(* Several processes share the cards, and any of them may die.  A process  *)
(* makes its calls from one thread, so that upc says which call is running *)
(* and how far it has come; while it is inside request_acquire, Reservation*)
(* says where.  Only devices that name a card are considered: the others   *)
(* reserve nothing.                                                        *)
(***************************************************************************)
EXTENDS Reservation

CONSTANTS
  Objects,   \* the CASIO objects of a process
  NoDevice   \* "(None)" as the input device

ASSUME DeviceAssumption ==
  NoDevice \notin Cards /\ {"free", "dead"} \cap (Apps \cup Peers) = {}

VARIABLES
  upc,      \* where a process is in init_alsa_func or uninit_alsa_func
  caller,   \* the object whose init runs
  devices,  \* <<output, input>> the registry gave it
  objects,  \* "none", "created" or, with backend_initialized, "initialized"
  control,  \* ac # nullptr
  user      \* the kernel: who has each PCM open

libVars == <<upc, caller, devices, objects, control, user>>

Directions == {"playback", "capture"}
Pcms == Cards \X Directions

\* A PCM is in the hands of an app, of another program, of nobody, or of a
\* process that has died and whose files the kernel has not closed yet.
Users == Processes \cup {"free", "dead"}

\* Only a device that has a name is opened.
LibTypeOK ==
  /\ upc \in [Apps -> {"idle", "reserving", "openPlayback", "openCapture",
                       "releasing"}]
  /\ caller \in [Apps -> Objects]
  /\ devices \in [Apps -> Cards \X (Cards \cup {NoDevice})]
  /\ objects \in [Apps -> [Objects -> {"none", "created", "initialized"}]]
  /\ control \in [Apps -> BOOLEAN]
  /\ user \in [Pcms -> Users]
  /\ \A a \in Apps : upc[a] = "openCapture" => devices[a][2] \in Cards

LibInit ==
  /\ Init
  /\ upc = [a \in Apps |-> "idle"]
  /\ caller \in [Apps -> Objects]
  /\ devices \in [Apps -> Cards \X {NoDevice}]
  /\ objects = [a \in Apps |-> [o \in Objects |-> "none"]]
  /\ control = [a \in Apps |-> FALSE]
  /\ user = [pcm \in Pcms |-> "free"]

\* The cards behind a pair of devices, each once.
CardsOf(d) == IF d[2] \in {d[1], NoDevice} THEN <<d[1]>> ELSE d

\* Mutant of Close: the capture device is left open.
ClosePlayback(a) ==
  user' = [pcm \in Pcms |-> IF user[pcm] = a /\ pcm[2] = "playback"
                            THEN "free" ELSE user[pcm]]

\* The destructor of alsa_control.
Close(a) ==
  user' = [pcm \in Pcms |-> IF user[pcm] = a THEN "free" ELSE user[pcm]]

----------------------------------------------------------------------------
\* CreateInstance, or the class factory of another caller.
NewObject(a, o) ==
  /\ upc[a] = "idle" /\ objects[a][o] = "none"
  /\ objects' = [objects EXCEPT ![a][o] = "created"]
  /\ UNCHANGED <<vars, upc, caller, devices, control, user>>

\* CASIO::init and init_alsa_func up to request_acquire's loop. While ac is
\* there, for this object or for another one, init fails and changes nothing.
InitCall(a, o) ==
  /\ upc[a] = "idle" /\ objects[a][o] # "none"
  /\ ~control[a]
  /\ RequestAcquire(a)
  /\ \E out \in Cards, in \in Cards \cup {NoDevice} :
        /\ devices' = [devices EXCEPT ![a] = <<out, in>>]
        /\ cards'[a] = CardsOf(<<out, in>>)
  /\ upc' = [upc EXCEPT ![a] = "reserving"]
  /\ caller' = [caller EXCEPT ![a] = o]
  /\ UNCHANGED <<objects, control, user>>

\* request_acquire's loop; when it returns, init goes on or fails.
Reserve(a) ==
  /\ upc[a] = "reserving"
  /\ Acquiring(a)
  /\ upc' = [upc EXCEPT ![a] =
                 IF pc'[a] \in Acquisition THEN "reserving"
                 ELSE IF pc'[a] = "serving" THEN "openPlayback" ELSE "idle"]
  /\ UNCHANGED <<caller, devices, objects, control, user>>

\* The control is there: init succeeds.
Initialized(a) ==
  /\ upc' = [upc EXCEPT ![a] = "idle"]
  /\ control' = [control EXCEPT ![a] = TRUE]
  /\ objects' = [objects EXCEPT ![a][caller[a]] = "initialized"]

WithCapture(a) == devices[a][2] # NoDevice

\* The constructor opens the playback device, and ac is there if it has no
\* capture device to open.
OpenPlayback(a) ==
  LET pcm == <<devices[a][1], "playback">> IN
    /\ upc[a] = "openPlayback" /\ user[pcm] = "free"
    /\ user' = [user EXCEPT ![pcm] = a]
    /\ IF WithCapture(a)
       THEN /\ upc' = [upc EXCEPT ![a] = "openCapture"]
            /\ UNCHANGED <<control, objects>>
       ELSE Initialized(a)
    /\ UNCHANGED <<vars, caller, devices>>

\* Mutant of OpenFails: a busy device is tried again for ever.
OpenFailsUnlessBusy(a) ==
  /\ upc[a] = "openPlayback" /\ user[<<devices[a][1], "playback">>] = "free"
  /\ upc' = [upc EXCEPT ![a] = "releasing"]
  /\ UNCHANGED <<vars, caller, devices, objects, control, user>>

\* The playback device was busy for 500 ms, or cannot be opened at all.
OpenFails(a) ==
  /\ upc[a] = "openPlayback"
  /\ upc' = [upc EXCEPT ![a] = "releasing"]
  /\ UNCHANGED <<vars, caller, devices, objects, control, user>>

\* Likewise capture; without it the driver only plays, and keeps the card.
OpenCapture(a) ==
  LET pcm == <<devices[a][2], "capture">> IN
    /\ upc[a] = "openCapture"
    /\ \/ user[pcm] = "free" /\ user' = [user EXCEPT ![pcm] = a]
       \/ UNCHANGED user
    /\ Initialized(a)
    /\ UNCHANGED <<vars, caller, devices>>

\* Mutant of OwnsBackend: every object uninitialises the backend.
OwnsBackendAlways(a, o) == control[a]

\* backend_initialized.
OwnsBackend(a, o) == objects[a][o] = "initialized"

\* The destructor. Only the object that initialised the backend resets ac,
\* which closes both PCMs; the cards are released after that.
DeleteObject(a, o) ==
  /\ upc[a] = "idle" /\ objects[a][o] # "none"
  /\ objects' = [objects EXCEPT ![a][o] = "none"]
  /\ IF OwnsBackend(a, o)
     THEN /\ control' = [control EXCEPT ![a] = FALSE]
          /\ upc' = [upc EXCEPT ![a] = "releasing"]
          /\ Close(a)
     ELSE UNCHANGED <<control, upc, user>>
  /\ UNCHANGED <<vars, caller, devices>>

\* release(), after a failed open and after the destructor of ac.
ReleaseCards(a) ==
  /\ upc[a] = "releasing"
  /\ Release(a)
  /\ upc' = [upc EXCEPT ![a] = "idle"]
  /\ UNCHANGED <<caller, devices, objects, control, user>>

\* The process dies. The bus may notice before the kernel closes its PCMs.
ProcessDies(a) ==
  /\ IF pc[a] = "idle" THEN UNCHANGED vars ELSE Crash(a)
  /\ upc' = [upc EXCEPT ![a] = "idle"]
  /\ objects' = [objects EXCEPT ![a] = [o \in Objects |-> "none"]]
  /\ control' = [control EXCEPT ![a] = FALSE]
  /\ user' = [pcm \in Pcms |-> IF user[pcm] = a THEN "dead" ELSE user[pcm]]
  /\ UNCHANGED <<caller, devices>>

\* The kernel closes what a dead process had open; another program, which
\* need not reserve anything, opens or closes a PCM.
PcmChanges ==
  /\ \E pcm \in Pcms :
        \/ /\ user[pcm] \in Peers \cup {"dead"}
           /\ user' = [user EXCEPT ![pcm] = "free"]
        \/ /\ user[pcm] = "free"
           /\ \E p \in Peers : user' = [user EXCEPT ![pcm] = p]
  /\ UNCHANGED <<vars, upc, caller, devices, objects, control>>

\* What the D-Bus thread and the other programs do on the bus.
BusStep ==
  /\ (\E a \in Apps, b \in Apps : Serve(a, b)) \/ PeerNext
  /\ UNCHANGED libVars

----------------------------------------------------------------------------
\* What a process does by itself inside a call.
Inside(a) ==
  Reserve(a) \/ OpenPlayback(a) \/ OpenFails(a) \/ OpenCapture(a)
    \/ ReleaseCards(a)

LibNext ==
  \/ \E a \in Apps, o \in Objects :
        NewObject(a, o) \/ InitCall(a, o) \/ DeleteObject(a, o)
  \/ \E a \in Apps : Inside(a) \/ ProcessDies(a)
  \/ PcmChanges \/ BusStep

LibSpec == LibInit /\ [][LibNext]_<<vars, libVars>>

FairLibSpec == LibSpec /\ \A a \in Apps : WF_<<vars, libVars>>(Inside(a))

----------------------------------------------------------------------------
\* A PCM is opened after and closed before its card's name is owned: no
\* process is granted a card that another one still plays on.
OpenMeansOwned ==
  \A a \in Apps, pcm \in Pcms : user[pcm] = a => owner[pcm[1]] = a

\* Between calls ac belongs to exactly one object, which can be deleted to
\* close it; and a process without ac holds no card and no PCM, whichever of
\* reserving and opening failed.
OneHolder ==
  \A a \in Apps : upc[a] = "idle" =>
    IF control[a]
    THEN \E o \in Objects : \A p \in Objects :
            objects[a][p] = "initialized" <=> p = o
    ELSE /\ \A o \in Objects : objects[a][o] # "initialized"
         /\ reservations[a] = {}
         /\ \A pcm \in Pcms : user[pcm] # a

\* init and the destructor return, though a device stays busy for ever and
\* a program that was asked for a card never answers.
CallsReturn == \A a \in Apps : upc[a] # "idle" ~> upc[a] = "idle"

============================================================================
