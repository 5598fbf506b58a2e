---------------------------- MODULE DevicePanel ----------------------------
(***************************************************************************)
(* The control panel: it lists the PCM devices in two calls of get_devices *)
(* while devices come and go, lets the user choose an output and an input, *)
(* and stores the two in the registry, where a driver's init reads them.   *)
(*                                                                         *)
(* The dialog is modal and runs on one thread: inside a command only the   *)
(* machine and the driver move.  A driver reads, and the panel writes, one *)
(* registry value at a time.                                               *)
(***************************************************************************)
EXTENDS SequencesExt, Integers

CONSTANTS
  Order,   \* the devices a machine may have, in the order ALSA numbers them
  Type,    \* "input", "output" or "inout" for each
  None,    \* "(None)": item data -2
  Empty,   \* the empty string, and what nothing selected stands for
  Missing  \* a registry value that does not exist

Devices == ToSet(Order)

ASSUME PanelAssumption ==
  /\ Order \in Seq(Devices)
  /\ Type \in [Devices -> {"input", "output", "inout"}]
  /\ None # Empty /\ None # Missing /\ Empty # Missing
  /\ Devices \cap {None, Empty, Missing} = {}
  /\ None \notin Nat /\ Empty \notin Nat

VARIABLES
  plugged,   \* devices the machine has now
  pc,        \* "closed", "open", or where the running command is
  devices,   \* DialogState: the ids listed
  outputs, inputs,    \* item data of the two combo boxes
  output, input,      \* item data selected; Empty when nothing is
  length,    \* result of the first call of RefreshDevices
  ids,       \* <<output, input>> to select again, or to store
  registry,  \* <<output, input>> stored
  restart,   \* the pair of the last "You must restart" message, Nothing when
             \* there is none or a value has been written since
  driver     \* what a driver's init has got, and what it was promised by the
             \* message in force when it started

panelVars == <<pc, devices, outputs, inputs, output, input, length, ids>>
vars == <<panelVars, plugged, registry, restart, driver>>

Ids == Devices \cup {None, Empty}
Nothing == <<Empty, Empty>>

\* The list is filled in as a whole or not at all.
TypeOK ==
  /\ plugged \subseteq Devices
  /\ pc \in {"closed", "open", "loading", "loadingAgain", "refreshing",
             "refreshingAgain", "storingInput", "storingOutput"}
  /\ devices \in Seq(Devices) \cup Seq({Empty})
  /\ inputs \subseteq Nat \cup {None} /\ outputs \subseteq Nat
  /\ output \in outputs \cup {Empty} /\ input \in inputs \cup {Empty}
  /\ length \in Nat
  /\ {ids, restart, driver.promised} \subseteq Ids \X Ids
  /\ registry \in (Ids \cup {Missing}) \X (Ids \cup {Missing})
  /\ driver.got \in (Ids \cup {Missing}) \X (Ids \cup {Missing})
  /\ driver.phase \in {"idle", "reading", "read"}

Init ==
  /\ plugged \in SUBSET Devices
  /\ pc = "closed" /\ devices = <<>>
  /\ outputs = {} /\ inputs = {} /\ output = Empty /\ input = Empty
  /\ length = 0 /\ ids = Nothing
  /\ registry = <<Missing, Missing>> /\ restart = Nothing
  /\ driver = [phase |-> "idle", got |-> Nothing, promised |-> Nothing]

----------------------------------------------------------------------------
(* Helpers: what the machine has, and what a list entry shows.              *)

\* get_devices: every device of every card, in order.
Current ==
  LET Upto[i \in 0..Len(Order)] ==
        IF i = 0 THEN <<>>
        ELSE IF Order[i] \in plugged THEN Append(Upto[i - 1], Order[i])
        ELSE Upto[i - 1]
  IN  Upto[Len(Order)]

\* Mutant of Plays: an entry that was never filled in counts as an output.
PlaysUnfilled(e) == e = Empty \/ Type[e] # "input"

\* Whether an entry goes into a combo box. One that was never filled in is
\* all zeros, which is an input without a name.
Plays(e) == e # Empty /\ Type[e] # "input"
Captures(e) == e = Empty \/ Type[e] # "output"

\* GetSelectedDeviceId.
IdOf(data) == IF data \in {None, Empty} THEN data ELSE devices[data]

\* The last entry of that name among the items, or the default.
Find(items, list, id, default) ==
  LET same == {i \in items \ {None} : list[i] = id}
  IN  IF same = {} THEN default
      ELSE CHOOSE i \in same : \A j \in same : j <= i

\* Mutant of Populate: the two names are passed in the wrong order.
PopulateSwapped(list, wanted) ==
  /\ outputs' = {i \in DOMAIN list : Plays(list[i])}
  /\ inputs' = {None} \cup {i \in DOMAIN list : Captures(list[i])}
  /\ output' = Find(outputs', list, wanted[2], Empty)
  /\ input' = Find(inputs', list, wanted[1], None)

\* PopulateDeviceLists.
Populate(list, wanted) ==
  /\ outputs' = {i \in DOMAIN list : Plays(list[i])}
  /\ inputs' = {None} \cup {i \in DOMAIN list : Captures(list[i])}
  /\ output' = Find(outputs', list, wanted[1], Empty)
  /\ input' = Find(inputs', list, wanted[2], None)

----------------------------------------------------------------------------
(* RefreshDevices, for WM_INITDIALOG ("loading") and for IDC_REFRESH.       *)

\* LoadSettings: both values, or neither.
Open ==
  /\ pc = "closed"
  /\ pc' = "loading"
  /\ ids' = IF Missing \in {registry[1], registry[2]} THEN <<Empty, None>>
            ELSE registry
  /\ UNCHANGED <<plugged, devices, outputs, inputs, output, input, length,
                 registry, restart, driver>>

\* EndDialog; the program ends.
Exit ==
  /\ pc' = "closed" /\ devices' = <<>>
  /\ outputs' = {} /\ inputs' = {} /\ output' = Empty /\ input' = Empty
  /\ length' = 0 /\ ids' = Nothing

PressRefresh ==
  /\ pc = "open"
  /\ pc' = "refreshing"
  /\ ids' = <<IdOf(output), IdOf(input)>>
  /\ UNCHANGED <<plugged, devices, outputs, inputs, output, input, length,
                 registry, restart, driver>>

\* The first call, for the number of devices.
FirstCall ==
  /\ pc \in {"loading", "refreshing"}
  /\ pc' = IF pc = "loading" THEN "loadingAgain" ELSE "refreshingAgain"
  /\ length' = Len(Current)
  /\ UNCHANGED <<plugged, devices, outputs, inputs, output, input, ids,
                 registry, restart, driver>>

\* Mutant of Fetched: the list keeps the length of the first call.
FetchedUnresized ==
  [i \in 1..length |-> IF i <= Len(Current) THEN Current[i] ELSE Empty]

\* What the second call leaves in the list. With room for none it fills in
\* nothing and still succeeds with the length there is by now.
Fetched ==
  IF length = 0 THEN [i \in 1..Len(Current) |-> Empty] ELSE Current

\* The second call, unless there are more devices by now than room for them.
SecondCall ==
  /\ pc \in {"loadingAgain", "refreshingAgain"}
  /\ length = 0 \/ Len(Current) <= length
  /\ pc' = "open" /\ devices' = Fetched
  /\ Populate(Fetched, ids)
  /\ length' = 0 /\ ids' = Nothing
  /\ UNCHANGED <<plugged, registry, restart, driver>>

\* Mutant of Failed: the list is gone, the combo boxes are not.
FailedCleared ==
  /\ pc' = "open" /\ devices' = <<>>
  /\ UNCHANGED <<outputs, inputs, output, input>>

\* A failed refresh leaves everything; a dialog that is opening shows the
\* empty list.
Failed ==
  /\ pc' = "open" /\ UNCHANGED devices
  /\ IF pc \in {"loading", "loadingAgain"}
     THEN Populate(devices, ids)
     ELSE UNCHANGED <<outputs, inputs, output, input>>

\* Either call fails when there is no card; the second when too many devices
\* have come.
CallFails ==
  /\ \/ plugged = {} /\ pc \in {"loading", "loadingAgain", "refreshing",
                                "refreshingAgain"}
     \/ pc \in {"loadingAgain", "refreshingAgain"} /\ length # 0
          /\ Len(Current) > length
  /\ Failed
  /\ length' = 0 /\ ids' = Nothing
  /\ UNCHANGED <<plugged, registry, restart, driver>>

----------------------------------------------------------------------------
(* The user and IDOK.                                                       *)

Select ==
  /\ pc = "open"
  /\ \/ output' \in outputs /\ UNCHANGED input
     \/ input' \in inputs /\ UNCHANGED output
  /\ UNCHANGED <<plugged, pc, devices, outputs, inputs, length, ids, registry,
                 restart, driver>>

\* IDOK, with both selected.
PressOK ==
  /\ pc = "open" /\ output # Empty /\ input # Empty
  /\ ids' = <<IdOf(output), IdOf(input)>> /\ pc' = "storingInput"
  /\ UNCHANGED <<plugged, devices, outputs, inputs, output, input, length,
                 registry, restart, driver>>

\* IDCANCEL.
Cancel ==
  /\ pc = "open"
  /\ Exit
  /\ UNCHANGED <<plugged, registry, restart, driver>>

\* The key cannot be opened or a value not written: the dialog ends with an
\* error.
StoreFails ==
  /\ pc \in {"storingInput", "storingOutput"}
  /\ Exit
  /\ UNCHANGED <<plugged, registry, restart, driver>>

StoreInput ==
  /\ pc = "storingInput" /\ pc' = "storingOutput"
  /\ registry' = [registry EXCEPT ![2] = ids[2]]
  /\ restart' = Nothing /\ driver' = [driver EXCEPT !.promised = Nothing]
  /\ UNCHANGED <<plugged, devices, outputs, inputs, output, input, length, ids>>

\* Mutant of StoreOutput: a failed write is not noticed.
StoreOutputUnnoticed ==
  /\ pc = "storingOutput"
  /\ registry' \in {[registry EXCEPT ![1] = ids[1]], registry}
  /\ restart' = ids /\ Exit
  /\ UNCHANGED <<plugged, driver>>

\* The last write, and the message that the driver must be restarted.
StoreOutput ==
  /\ pc = "storingOutput"
  /\ registry' = [registry EXCEPT ![1] = ids[1]]
  /\ restart' = ids /\ Exit
  /\ UNCHANGED <<plugged, driver>>

----------------------------------------------------------------------------
(* Around the panel.                                                        *)

Plug ==
  /\ \E d \in Devices :
        plugged' = IF d \in plugged THEN plugged \ {d} ELSE plugged \cup {d}
  /\ UNCHANGED <<panelVars, registry, restart, driver>>

\* CASIO::init reads the input, then the output, of a driver that starts at
\* any time; it fails when one is missing.
DriverReads ==
  /\ \/ /\ driver.phase # "reading"
        /\ driver' = [phase |-> "reading", got |-> <<Empty, registry[2]>>,
                      promised |-> restart]
     \/ /\ driver.phase = "reading"
        /\ driver' = [driver EXCEPT !.phase = "read",
                                    !.got = <<registry[1], @[2]>>]
  /\ UNCHANGED <<panelVars, plugged, registry, restart>>

Next ==
  \/ Open \/ PressRefresh \/ Select \/ PressOK \/ Cancel
  \/ FirstCall \/ SecondCall \/ CallFails
  \/ StoreInput \/ StoreOutput \/ StoreFails
  \/ Plug \/ DriverReads

Spec == Init /\ [][Next]_vars

----------------------------------------------------------------------------
\* Every item names an entry of the list, also after a refresh that failed
\* half-way: IDOK indexes the list with the item data and does not look.
ItemsListed ==
  pc # "loading" /\ pc # "loadingAgain" =>
    (outputs \cup inputs) \ {None} \subseteq DOMAIN devices

\* What is stored is a device that plays and (None) or a device that
\* captures, never an entry get_devices left empty: such an entry can be
\* selected as the input, but no output is listed beside it.
StoredIsUsable ==
  /\ registry[1] # Missing => registry[1] \in Devices /\ Type[registry[1]] # "input"
  /\ registry[2] \notin {Missing, None} =>
       registry[2] \in Devices /\ Type[registry[2]] # "output"

\* "You must restart the program using the driver for the changes to take
\* effect": a driver started after that gets the two devices chosen, not one
\* of them and an earlier one.
RestartTakesEffect ==
  driver.phase = "read" /\ driver.promised # Nothing =>
    driver.got = driver.promised

\* A refresh keeps the user's choice as long as the device is still listed,
\* though its place in the list has changed.
KeepsChoice ==
  pc \in {"refreshing", "refreshingAgain"} /\ pc' = "open" =>
    /\ (\E i \in outputs' : devices'[i] = IdOf(output)) =>
         output' # Empty /\ devices'[output'] = IdOf(output)
    /\ (\E i \in inputs' \ {None} : devices'[i] = IdOf(input)) =>
         input' # None /\ devices'[input'] = IdOf(input)
RefreshKeepsChoice == [][KeepsChoice]_vars

============================================================================
