------------------------- MODULE DevicePanelProofs -------------------------
(***************************************************************************)
(* The control panel for any machine: whatever devices come and go between *)
(* two of its steps, its items name entries of the list, it stores usable  *)
(* devices, what it says of a restart is true and a refresh keeps what was *)
(* selected.                                                               *)
(***************************************************************************)
EXTENDS DevicePanel, SequenceTheorems, WellFoundedInduction, TLAPS

\* TypeOK, and the record it leaves to the eye.
Shapes ==
  /\ TypeOK
  /\ driver \in [phase : {"idle", "reading", "read"},
                 got : (Ids \cup {Missing}) \X (Ids \cup {Missing}),
                 promised : Ids \X Ids]

\* Items are entries of the list of their kind, and something is selected for
\* the input wherever a command can run.
Listed ==
  /\ \A i \in outputs : i \in DOMAIN devices /\ Plays(devices[i])
  /\ \A i \in inputs \ {None} : i \in DOMAIN devices /\ Captures(devices[i])
  /\ pc \notin {"closed", "loading", "loadingAgain"} => input \in inputs

\* A refresh remembers what is selected while it runs.
Remembered ==
  pc \in {"refreshing", "refreshingAgain"} =>
    ids = <<IdOf(output), IdOf(input)>>

\* StoredIsUsable of a pair that is to be stored.
Usable(pair) ==
  /\ pair[1] # Missing => pair[1] \in Devices /\ Type[pair[1]] # "input"
  /\ pair[2] \notin {Missing, None} =>
       pair[2] \in Devices /\ Type[pair[2]] # "output"

\* Between the two writes no message is in force.
Storing ==
  /\ pc \in {"storingInput", "storingOutput"} => Usable(ids)
  /\ pc = "storingOutput" => registry[2] = ids[2] /\ restart = Nothing

\* The message in force tells what is stored, and a driver started under it
\* has read that much of it.
Promised ==
  /\ restart # Nothing => registry = restart
  /\ driver.promised # Nothing =>
       /\ driver.promised = restart
       /\ driver.phase # "idle"
       /\ driver.phase = "reading" => driver.got[2] = restart[2]
       /\ driver.phase = "read" => driver.got = restart

PanelInv ==
  Shapes /\ Listed /\ Remembered /\ StoredIsUsable /\ Storing /\ Promised

----------------------------------------------------------------------------
(* Sequences and numbers.                                                   *)

\* Every set of numbers has a least one.
LEMMA LeastNatural ==
  ASSUME NEW T \in SUBSET Nat, T # {}
  PROVE  \E n \in T : \A m \in T : n <= m
<1> DEFINE R == {ss \in Nat \X Nat : ss[1] < ss[2]}
<1>1. IsWellFoundedOn(R, Nat)
  BY NatLessThanWellFounded DEF OpToRel
<1>2. PICK n \in T : \A m \in T : <<m, n>> \notin R
  <2> HIDE DEF R
  <2> QED
    BY <1>1, WFMin
<1>3. ASSUME NEW m \in T PROVE n <= m
  <2>1. m \in Nat /\ n \in Nat
    OBVIOUS
  <2>2. m < n => <<m, n>> \in R
    BY <2>1
  <2> QED
    BY <1>2, <2>1, <2>2
<1> QED
  BY <1>3

\* A set of indices has a greatest one: what Find chooses exists.
LEMMA LastIndex ==
  ASSUME NEW n \in Nat, NEW T \in SUBSET (1..n), T # {}
  PROVE  \E i \in T : \A j \in T : j <= i
<1> DEFINE D == {n - i : i \in T}
<1>1. D \in SUBSET Nat /\ D # {}
  <2>1. \A i \in T : n - i \in Nat
    OBVIOUS
  <2> QED
    BY <2>1
<1>2. PICK d \in D : \A e \in D : d <= e
  BY <1>1, LeastNatural
<1>3. PICK i \in T : d = n - i
  OBVIOUS
<1>4. ASSUME NEW j \in T PROVE j <= i
  <2>1. n - j \in D
    OBVIOUS
  <2>2. n - i <= n - j
    BY <1>2, <1>3, <2>1
  <2> QED
    BY <2>2
<1> QED
  BY <1>4

\* The list a machine gives, built device by device.
LEMMA CurrentType == Current \in Seq(plugged)
<1> DEFINE L == Len(Order)
           Body(f) == [i \in 0..L |->
                         IF i = 0 THEN <<>>
                         ELSE IF Order[i] \in plugged
                              THEN Append(f[i - 1], Order[i])
                         ELSE f[i - 1]]
           Good(f, n) == \A i \in 0..n :
                           f[i] = IF i = 0 THEN <<>>
                                  ELSE IF Order[i] \in plugged
                                       THEN Append(f[i - 1], Order[i])
                                  ELSE f[i - 1]
           Bad == {n \in 0..L : ~\E f \in [0..n -> Seq(plugged)] : Good(f, n)}
<1>1. L \in Nat
  BY PanelAssumption
<1>2. Bad = {}
  <2> SUFFICES ASSUME Bad # {} PROVE FALSE
    OBVIOUS
  <2>0. Bad \in SUBSET Nat
    BY <1>1
  <2>1. PICK n \in Bad : \A m \in Bad : n <= m
    <3> HIDE DEF Bad
    <3> QED
      BY <2>0, LeastNatural
  <2>2. CASE n = 0
    <3> DEFINE f == [i \in 0..0 |-> <<>>]
    <3>1. f \in [0..0 -> Seq(plugged)] /\ Good(f, 0)
      OBVIOUS
    <3> QED
      BY <2>1, <2>2, <3>1
  <2>3. CASE n # 0
    <3>0. n \in 0..L
      OBVIOUS
    <3>1. n \in 1..L /\ n - 1 \in 0..L /\ n - 1 \notin Bad
      <4> HIDE DEF Bad
      <4> QED
        BY <1>1, <2>1, <2>3, <3>0
    <3>2. PICK g \in [0..(n - 1) -> Seq(plugged)] : Good(g, n - 1)
      BY <3>1
    <3> DEFINE last == IF Order[n] \in plugged THEN Append(g[n - 1], Order[n])
                       ELSE g[n - 1]
               f == [i \in 0..n |-> IF i = n THEN last ELSE g[i]]
    <3>3. g[n - 1] \in Seq(plugged)
      BY <3>1
    <3>4. last \in Seq(plugged)
      BY <3>3
    <3> HIDE DEF last
    <3>5. f \in [0..n -> Seq(plugged)]
      BY <3>1, <3>4
    <3>6. Good(f, n)
      <4> SUFFICES ASSUME NEW i \in 0..n
                   PROVE  f[i] = IF i = 0 THEN <<>>
                                 ELSE IF Order[i] \in plugged
                                      THEN Append(f[i - 1], Order[i])
                                 ELSE f[i - 1]
        OBVIOUS
      <4>1. CASE i = n
        <5>1. f[i] = last /\ f[i - 1] = g[n - 1] /\ i # 0
          BY <3>1, <4>1
        <5> QED
          BY <4>1, <5>1 DEF last
      <4>2. CASE i # n
        <5>1. i \in 0..(n - 1) /\ f[i] = g[i] /\ (i # 0 => f[i - 1] = g[i - 1])
          BY <3>1, <4>2
        <5> QED
          BY <3>2, <5>1
      <4> QED
        BY <4>1, <4>2
    <3> QED
      BY <2>1, <3>5, <3>6
  <2> QED
    BY <2>2, <2>3
<1>3. PICK g \in [0..L -> Seq(plugged)] : Good(g, L)
  BY <1>1, <1>2
<1>4. g = Body(g)
  BY <1>1, <1>3
<1> DEFINE F == CHOOSE f : f = Body(f)
<1>5. F = Body(F)
  BY <1>4
<1>6. Current = F[L]
  BY DEF Current
<1> HIDE DEF F
<1> DEFINE Wrong == {i \in 0..L : F[i] \notin Seq(plugged)}
<1>7. Wrong = {}
  <2> SUFFICES ASSUME Wrong # {} PROVE FALSE
    OBVIOUS
  <2>0. Wrong \in SUBSET Nat
    BY <1>1
  <2>1. PICK i \in Wrong : \A j \in Wrong : i <= j
    <3> HIDE DEF Wrong
    <3> QED
      BY <2>0, LeastNatural
  <2>2. F[i] = IF i = 0 THEN <<>>
               ELSE IF Order[i] \in plugged THEN Append(F[i - 1], Order[i])
               ELSE F[i - 1]
    BY <1>5
  <2>3. i \in 0..L /\ F[i] \notin Seq(plugged)
    OBVIOUS
  <2>4. i # 0
    BY <2>2, <2>3
  <2>5. i - 1 \in 0..L /\ i - 1 \notin Wrong
    <3> HIDE DEF Wrong
    <3> QED
      BY <1>1, <2>1, <2>3, <2>4
  <2>6. F[i - 1] \in Seq(plugged)
    BY <2>5
  <2> QED
    BY <2>2, <2>3, <2>4, <2>6
<1> QED
  BY <1>1, <1>6, <1>7

----------------------------------------------------------------------------
(* What a refresh does.                                                     *)

\* A list of devices, or one that was never filled in.
IsList(list) == list \in Seq(Devices) \cup Seq({Empty})

\* What its entries are, and where.
LEMMA ListEntries ==
  ASSUME NEW list, IsList(list)
  PROVE  /\ DOMAIN list \subseteq Nat
         /\ \A i \in DOMAIN list : list[i] \in Devices \cup {Empty}
         /\ \A i, j \in DOMAIN list : list[i] # Empty => list[j] # Empty
         /\ \E n \in Nat : DOMAIN list = 1..n
<1>1. CASE list \in Seq(Devices)
  BY <1>1, PanelAssumption
<1>2. CASE list \in Seq({Empty})
  BY <1>2
<1> QED
  BY <1>1, <1>2 DEF IsList

\* The second call gives one of these.
LEMMA FetchedList == ASSUME TypeOK PROVE IsList(Fetched) /\ Len(Current) \in Nat
<1>1. Current \in Seq(plugged) /\ plugged \subseteq Devices
  BY CurrentType DEF TypeOK
<1>2. Current \in Seq(Devices) /\ Len(Current) \in Nat
  BY <1>1
<1>3. [i \in 1..Len(Current) |-> Empty] \in Seq({Empty})
  BY <1>2
<1> QED
  BY <1>2, <1>3 DEF Fetched, IsList

\* Find gives the last item of that name when there is one.
LEMMA FindWorks ==
  ASSUME NEW items, NEW list, IsList(list), items \ {None} \subseteq DOMAIN list,
         NEW id, NEW default
  PROVE  /\ (\E i \in items \ {None} : list[i] = id) =>
              /\ Find(items, list, id, default) \in items \ {None}
              /\ list[Find(items, list, id, default)] = id
         /\ Find(items, list, id, default) \in (items \ {None}) \cup {default}
<1> DEFINE same == {i \in items \ {None} : list[i] = id}
           f == CHOOSE i \in same : \A j \in same : j <= i
<1>1. Find(items, list, id, default) = IF same = {} THEN default ELSE f
  BY DEF Find
<1>2. ASSUME same # {} PROVE f \in same
  <2>1. PICK n \in Nat : DOMAIN list = 1..n
    BY ListEntries
  <2>2. same \in SUBSET (1..n)
    BY <2>1
  <2> HIDE DEF same
  <2>3. \E i \in same : \A j \in same : j <= i
    BY <1>2, <2>2, LastIndex
  <2> QED
    BY <2>3
<1> HIDE DEF f
<1>3. CASE same = {}
  BY <1>1, <1>3
<1>4. CASE same # {}
  BY <1>1, <1>2, <1>4
<1> QED
  BY <1>3, <1>4

\* Filling the combo boxes leaves items that are listed, and shows what was
\* wanted when it is there.
LEMMA PopulateShows ==
  ASSUME NEW list, IsList(list), NEW wanted, Populate(list, wanted)
  PROVE  /\ outputs' \subseteq DOMAIN list /\ outputs' \subseteq Nat
         /\ \A i \in outputs' : Plays(list[i])
         /\ inputs' \ {None} \subseteq DOMAIN list
         /\ inputs' \subseteq Nat \cup {None}
         /\ \A i \in inputs' \ {None} : Captures(list[i])
         /\ output' \in outputs' \cup {Empty} /\ input' \in inputs'
         /\ (\E i \in outputs' : list[i] = wanted[1]) =>
              output' \in outputs' /\ list[output'] = wanted[1]
         /\ (\E i \in inputs' \ {None} : list[i] = wanted[2]) =>
              input' \in inputs' \ {None} /\ list[input'] = wanted[2]
<1>1. /\ outputs' = {i \in DOMAIN list : Plays(list[i])}
      /\ inputs' = {None} \cup {i \in DOMAIN list : Captures(list[i])}
      /\ output' = Find(outputs', list, wanted[1], Empty)
      /\ input' = Find(inputs', list, wanted[2], None)
  BY DEF Populate
<1>2. DOMAIN list \subseteq Nat /\ None \notin DOMAIN list
  BY ListEntries, PanelAssumption
<1>3. /\ (\E i \in outputs' \ {None} : list[i] = wanted[1]) =>
           output' \in outputs' \ {None} /\ list[output'] = wanted[1]
      /\ output' \in (outputs' \ {None}) \cup {Empty}
  <2>1. outputs' \ {None} \subseteq DOMAIN list
    BY <1>1
  <2> QED
    BY <1>1, <2>1, FindWorks
<1>4. /\ (\E i \in inputs' \ {None} : list[i] = wanted[2]) =>
           input' \in inputs' \ {None} /\ list[input'] = wanted[2]
      /\ input' \in (inputs' \ {None}) \cup {None}
  <2>1. inputs' \ {None} \subseteq DOMAIN list
    BY <1>1
  <2> QED
    BY <1>1, <2>1, FindWorks
<1>5. outputs' \ {None} = outputs'
  BY <1>1, <1>2
<1> QED
  BY <1>1, <1>2, <1>3, <1>4, <1>5


----------------------------------------------------------------------------
(* Every step keeps the invariant.                                          *)

\* What the two selected items stand for.
LEMMA SelectedIds ==
  ASSUME Shapes, Listed, pc \notin {"closed", "loading", "loadingAgain"}
  PROVE  /\ IdOf(output) \in Ids /\ IdOf(input) \in Ids
         /\ output # Empty => IdOf(output) = devices[output]
                              /\ output \in outputs /\ Plays(devices[output])
         /\ input # None => IdOf(input) = devices[input]
                            /\ input \in inputs /\ Captures(devices[input])
         /\ output # Empty => Usable(<<IdOf(output), IdOf(input)>>)
<1>1. /\ outputs \subseteq Nat /\ inputs \subseteq Nat \cup {None}
      /\ output \in outputs \cup {Empty} /\ input \in inputs
  BY DEF Shapes, TypeOK, Listed
<1>2. IsList(devices)
  BY DEF Shapes, TypeOK, IsList
<1>3. /\ output # Empty => IdOf(output) = devices[output] /\ output # None
                           /\ output \in DOMAIN devices /\ output \in outputs
                           /\ Plays(devices[output])
      /\ output = Empty => IdOf(output) = Empty
  BY <1>1, PanelAssumption DEF IdOf, Listed
<1>4. /\ input # None => IdOf(input) = devices[input] /\ input # Empty
                         /\ input \in DOMAIN devices /\ input \in inputs
                         /\ Captures(devices[input])
      /\ input = None => IdOf(input) = None
  BY <1>1, PanelAssumption DEF IdOf, Listed
<1>5. /\ \A i \in DOMAIN devices : devices[i] \in Devices \cup {Empty}
      /\ \A i, j \in DOMAIN devices : devices[i] # Empty => devices[j] # Empty
  BY <1>2, ListEntries
<1>6. IdOf(output) \in Ids /\ IdOf(input) \in Ids
  BY <1>3, <1>4, <1>5 DEF Ids
<1>7. ASSUME output # Empty PROVE Usable(<<IdOf(output), IdOf(input)>>)
  <2>1. IdOf(output) \in Devices /\ Type[IdOf(output)] # "input"
    BY <1>3, <1>5, <1>7 DEF Plays
  <2>2. input # None => IdOf(input) \in Devices /\ Type[IdOf(input)] # "output"
    BY <1>3, <1>4, <1>5, <1>7 DEF Plays, Captures
  <2> QED
    BY <1>4, <2>1, <2>2 DEF Usable
<1> QED
  BY <1>3, <1>4, <1>6, <1>7

\* The list and the items, through a refresh, a selection and the end.
LEMMA ListNext ==
  ASSUME Shapes, Listed, [Next]_vars
  PROVE  /\ Listed'
         /\ devices' \in Seq(Devices) \cup Seq({Empty})
         /\ inputs' \subseteq Nat \cup {None} /\ outputs' \subseteq Nat
         /\ output' \in outputs' \cup {Empty} /\ input' \in inputs' \cup {Empty}
<1> DEFINE Goal ==
      /\ Listed'
      /\ devices' \in Seq(Devices) \cup Seq({Empty})
      /\ inputs' \subseteq Nat \cup {None} /\ outputs' \subseteq Nat
      /\ output' \in outputs' \cup {Empty} /\ input' \in inputs' \cup {Empty}
<1>1. /\ IsList(devices)
      /\ inputs \subseteq Nat \cup {None} /\ outputs \subseteq Nat
      /\ output \in outputs \cup {Empty} /\ input \in inputs \cup {Empty}
  BY DEF Shapes, TypeOK, IsList
<1>2. CASE /\ UNCHANGED <<devices, outputs, inputs, output, input>>
           /\ pc' \in {"closed", "loading", "loadingAgain"}
                \/ pc \notin {"closed", "loading", "loadingAgain"}
  BY <1>1, <1>2 DEF IsList, Listed
<1>3. ASSUME NEW list, IsList(list), NEW wanted, Populate(list, wanted),
             devices' = list
      PROVE  Goal
  BY <1>3, PopulateShows DEF IsList, Listed
<1>4. CASE Exit
  <2>1. /\ pc' = "closed" /\ devices' = <<>> /\ outputs' = {} /\ inputs' = {}
        /\ output' = Empty /\ input' = Empty
    BY <1>4 DEF Exit
  <2>2. <<>> \in Seq(Devices)
    OBVIOUS
  <2> QED
    BY <2>1, <2>2 DEF Listed
<1>5. CASE SecondCall
  BY <1>3, <1>5, FetchedList DEF SecondCall, Shapes
<1>6. CASE CallFails
  <2>1. pc \in {"loading", "loadingAgain", "refreshing", "refreshingAgain"}
    BY <1>6 DEF CallFails
  <2>2. CASE pc \in {"loading", "loadingAgain"}
    BY <1>1, <1>3, <1>6, <2>2 DEF CallFails, Failed
  <2>3. CASE pc \notin {"loading", "loadingAgain"}
    BY <1>2, <1>6, <2>1, <2>3 DEF CallFails, Failed
  <2> QED
    BY <2>2, <2>3
<1>7. CASE Select
  <2>1. /\ pc' = pc /\ pc = "open" /\ UNCHANGED <<devices, outputs, inputs>>
        /\ output' \in outputs \cup {output} /\ input' \in inputs \cup {input}
    BY <1>7 DEF Select
  <2> QED
    BY <1>1, <2>1 DEF Listed, IsList
<1>8. CASE Open \/ PressRefresh \/ PressOK \/ FirstCall \/ StoreInput \/ Plug
           \/ DriverReads \/ UNCHANGED vars
  BY <1>2, <1>8 DEF Open, PressRefresh, PressOK, FirstCall, StoreInput, Plug,
                    DriverReads, panelVars, vars
<1>9. CASE Cancel \/ StoreOutput \/ StoreFails
  BY <1>4, <1>9 DEF Cancel, StoreOutput, StoreFails
<1> QED
  BY <1>5, <1>6, <1>7, <1>8, <1>9 DEF Next

\* The second read of a driver completes its pair.
LEMMA SecondRead ==
  ASSUME Shapes, DriverReads, driver.phase = "reading"
  PROVE  driver' = [phase |-> "read", got |-> <<registry[1], driver.got[2]>>,
                    promised |-> driver.promised]
BY DEF DriverReads, Shapes

\* The rest of the types.
LEMMA ShapesNext == Shapes /\ Listed /\ [Next]_vars => Shapes'
<1> SUFFICES ASSUME Shapes, Listed, [Next]_vars PROVE Shapes'
  OBVIOUS
<1> USE DEF Shapes
<1>1. /\ plugged \subseteq Devices /\ length \in Nat
      /\ ids \in Ids \X Ids /\ restart \in Ids \X Ids
      /\ registry \in (Ids \cup {Missing}) \X (Ids \cup {Missing})
      /\ Nothing \in Ids \X Ids
  BY DEF TypeOK, Nothing, Ids
<1>2. plugged' \subseteq Devices
  BY <1>1 DEF Next, Open, PressRefresh, Select, PressOK, Cancel, FirstCall,
     SecondCall, CallFails, StoreInput, StoreOutput, StoreFails, Plug,
     DriverReads, vars
<1>3. pc' \in {"closed", "open", "loading", "loadingAgain", "refreshing",
               "refreshingAgain", "storingInput", "storingOutput"}
  BY DEF TypeOK, Next, Open, PressRefresh, Select, PressOK, Cancel, FirstCall,
     SecondCall, CallFails, StoreInput, StoreOutput, StoreFails, Plug,
     DriverReads, vars, panelVars, Failed, Exit
<1>4. length' \in Nat
  BY <1>1, FetchedList
  DEF Next, Open, PressRefresh, Select, PressOK, Cancel, FirstCall, SecondCall,
     CallFails, StoreInput, StoreOutput, StoreFails, Plug, DriverReads, vars,
     panelVars, Exit
<1>5. ids' \in Ids \X Ids
  <2>1. CASE Open
    <3>1. CASE Missing \in {registry[1], registry[2]}
      BY <2>1, <3>1 DEF Open, Ids
    <3>2. CASE Missing \notin {registry[1], registry[2]}
      BY <1>1, <2>1, <3>2 DEF Open
    <3> QED
      BY <3>1, <3>2
  <2>2. CASE PressRefresh \/ PressOK
    BY <2>2, SelectedIds DEF PressRefresh, PressOK
  <2>3. CASE ids' = ids \/ ids' = Nothing
    BY <1>1, <2>3
  <2> QED
    BY <2>1, <2>2, <2>3
    DEF Next, Select, Cancel, FirstCall, SecondCall, CallFails, StoreInput,
     StoreOutput, StoreFails, Plug, DriverReads, vars, panelVars, Exit
<1>6. restart' \in Ids \X Ids
  BY <1>1
  DEF Next, Open, PressRefresh, Select, PressOK, Cancel, FirstCall, SecondCall,
     CallFails, StoreInput, StoreOutput, StoreFails, Plug, DriverReads, vars
<1>7. registry' \in (Ids \cup {Missing}) \X (Ids \cup {Missing})
  <2>1. CASE StoreInput
    <3>1. registry' = <<registry[1], ids[2]>>
      BY <1>1, <2>1 DEF StoreInput
    <3> QED
      BY <1>1, <3>1
  <2>2. CASE StoreOutput
    <3>1. registry' = <<ids[1], registry[2]>>
      BY <1>1, <2>2 DEF StoreOutput
    <3> QED
      BY <1>1, <3>1
  <2> QED
    BY <1>1, <2>1, <2>2
    DEF Next, Open, PressRefresh, Select, PressOK, Cancel, FirstCall,
     SecondCall, CallFails, StoreFails, Plug, DriverReads, vars
<1>8. driver' \in [phase : {"idle", "reading", "read"},
                   got : (Ids \cup {Missing}) \X (Ids \cup {Missing}),
                   promised : Ids \X Ids]
  <2>1. CASE StoreInput
    BY <1>1, <2>1 DEF StoreInput
  <2>2. CASE DriverReads /\ driver.phase # "reading"
    <3>1. driver' = [phase |-> "reading", got |-> <<Empty, registry[2]>>,
                     promised |-> restart]
      BY <2>2 DEF DriverReads
    <3>2. <<Empty, registry[2]>> \in (Ids \cup {Missing}) \X (Ids \cup {Missing})
      BY <1>1 DEF Ids
    <3> QED
      BY <1>1, <3>1, <3>2
  <2>3. CASE DriverReads /\ driver.phase = "reading"
    <3>1. driver' = [phase |-> "read", got |-> <<registry[1], driver.got[2]>>,
                     promised |-> driver.promised]
      BY <2>3, SecondRead
    <3>2. <<registry[1], driver.got[2]>>
            \in (Ids \cup {Missing}) \X (Ids \cup {Missing})
      BY <1>1
    <3> QED
      BY <3>1, <3>2
  <2> QED
    BY <2>1, <2>2, <2>3
    DEF Next, Open, PressRefresh, Select, PressOK, Cancel, FirstCall,
     SecondCall, CallFails, StoreOutput, StoreFails, Plug, vars
<1> QED
  BY <1>2, <1>3, <1>4, <1>5, <1>6, <1>7, <1>8, ListNext DEF TypeOK


LEMMA RememberedNext == Shapes /\ Listed /\ Remembered /\ [Next]_vars => Remembered'
<1> SUFFICES ASSUME Remembered, [Next]_vars,
                    pc' \in {"refreshing", "refreshingAgain"}
             PROVE  ids' = <<IdOf(output), IdOf(input)>>'
  BY DEF Remembered
<1>1. UNCHANGED <<devices, output, input>> /\ ids' = <<IdOf(output), IdOf(input)>>
  BY DEF Next, Open, PressRefresh, Select, PressOK, Cancel, FirstCall,
     SecondCall, CallFails, StoreInput, StoreOutput, StoreFails, Plug,
     DriverReads, vars, panelVars, Failed, Exit, Remembered
<1> QED
  BY <1>1 DEF IdOf

\* Between the two writes the registry holds half of the pair, and no promise.
LEMMA StoreNext ==
  Shapes /\ Listed /\ StoredIsUsable /\ Storing /\ [Next]_vars =>
    (StoredIsUsable /\ Storing)'
<1> SUFFICES ASSUME Shapes, Listed, StoredIsUsable, Storing, [Next]_vars
             PROVE  (StoredIsUsable /\ Storing)'
  OBVIOUS
<1> USE DEF StoredIsUsable, Storing
<1>1. CASE PressOK
  <2>1. /\ ids' = <<IdOf(output), IdOf(input)>> /\ registry' = registry
        /\ pc' = "storingInput"
    BY <1>1 DEF PressOK
  <2>2. Usable(<<IdOf(output), IdOf(input)>>)
    BY <1>1, SelectedIds DEF PressOK
  <2> QED
    BY <2>1, <2>2 DEF Usable
<1>2. registry = <<registry[1], registry[2]>> /\ ids = <<ids[1], ids[2]>>
  BY DEF Shapes, TypeOK
<1>3. CASE StoreInput
  <2>1. /\ pc = "storingInput" /\ pc' = "storingOutput" /\ ids' = ids
        /\ restart' = Nothing /\ registry' = <<registry[1], ids[2]>>
    BY <1>2, <1>3 DEF StoreInput
  <2> QED
    BY <2>1 DEF Usable
<1>4. CASE StoreOutput
  <2>1. pc' = "closed" /\ registry' = <<ids[1], registry[2]>>
    BY <1>2, <1>4 DEF StoreOutput, Exit
  <2>2. Usable(ids)
    BY <1>4 DEF StoreOutput
  <2> QED
    BY <2>1, <2>2 DEF Usable
<1>5. CASE ~(PressOK \/ StoreInput \/ StoreOutput)
  <2>1. /\ UNCHANGED <<registry, restart>>
        /\ pc' \in {"storingInput", "storingOutput"} => UNCHANGED <<pc, ids>>
    BY <1>5
    DEF Next, Open, PressRefresh, Select, Cancel, FirstCall, SecondCall,
     CallFails, StoreFails, Plug, DriverReads, vars, panelVars, Failed, Exit
  <2> QED
    BY <2>1 DEF Usable
<1> QED
  BY <1>1, <1>3, <1>4, <1>5

LEMMA PromisedNext ==
  Shapes /\ Storing /\ Promised /\ [Next]_vars => Promised'
<1> SUFFICES ASSUME Shapes, Storing, Promised, [Next]_vars PROVE Promised'
  OBVIOUS
<1> USE DEF Promised
<1>1. registry = <<registry[1], registry[2]>> /\ ids = <<ids[1], ids[2]>>
  BY DEF Shapes, TypeOK
<1>2. CASE StoreInput
  BY <1>2 DEF StoreInput, Shapes
<1>3. CASE StoreOutput
  <2>1. pc = "storingOutput" /\ restart' = ids /\ driver' = driver
    BY <1>3 DEF StoreOutput
  <2>2. registry' = <<ids[1], registry[2]>>
    BY <1>1, <1>3 DEF StoreOutput
  <2>3. registry' = ids /\ driver.promised = Nothing
    BY <1>1, <2>1, <2>2 DEF Storing
  <2> QED
    BY <2>1, <2>3
<1>4. CASE DriverReads /\ driver.phase # "reading"
  BY <1>4 DEF DriverReads
<1>5. CASE DriverReads /\ driver.phase = "reading"
  <2>1. /\ driver' = [phase |-> "read", got |-> <<registry[1], driver.got[2]>>,
                      promised |-> driver.promised]
        /\ UNCHANGED <<registry, restart>>
    BY <1>5, SecondRead DEF DriverReads
  <2>2. ASSUME driver.promised # Nothing
        PROVE  <<registry[1], driver.got[2]>> = restart
    <3>1. restart # Nothing /\ driver.got[2] = registry[2] /\ registry = restart
      BY <1>5, <2>2
    <3> QED
      BY <1>1, <3>1
  <2> QED
    BY <2>1, <2>2
<1>6. CASE UNCHANGED <<registry, restart, driver>>
  BY <1>6
<1> QED
  BY <1>2, <1>3, <1>4, <1>5, <1>6
  DEF Next, Open, PressRefresh, Select, PressOK, Cancel, FirstCall, SecondCall,
     CallFails, StoreFails, Plug, vars

LEMMA PanelInit == Init => PanelInv
<1> SUFFICES ASSUME Init PROVE PanelInv
  OBVIOUS
<1>1. /\ <<>> \in Seq(Devices) /\ Nothing \in Ids \X Ids
      /\ <<Missing, Missing>> \in (Ids \cup {Missing}) \X (Ids \cup {Missing})
      /\ Nothing \in (Ids \cup {Missing}) \X (Ids \cup {Missing})
  BY DEF Nothing, Ids
<1>2. Shapes
  BY <1>1 DEF Init, Shapes, TypeOK
<1>3. Listed /\ Remembered /\ Storing /\ Promised
  BY DEF Init, Listed, Remembered, Storing, Promised
<1>4. StoredIsUsable
  <2>1. registry[1] = Missing /\ registry[2] = Missing
    BY DEF Init
  <2> QED
    BY <2>1 DEF StoredIsUsable
<1> QED
  BY <1>2, <1>3, <1>4 DEF PanelInv

\* The panel's invariant, on any machine.
THEOREM PanelInductive == Spec => []PanelInv
<1>1. PanelInv /\ [Next]_vars => PanelInv'
  BY ShapesNext, ListNext, RememberedNext, StoreNext, PromisedNext DEF PanelInv
<1> QED
  BY <1>1, PanelInit, PTL DEF Spec

----------------------------------------------------------------------------
\* The list, the items and what is selected are typed together; a list is
\* filled in as a whole or not at all.
THEOREM PanelTypes == Spec => []TypeOK
<1>1. PanelInv => TypeOK
  BY DEF PanelInv, Shapes
<1> QED
  BY <1>1, PanelInductive, PTL

\* The item data IDOK indexes the list with is in range, however the number of
\* devices changed between the two calls of a refresh.
THEOREM ItemsAreListed == Spec => []ItemsListed
<1>1. PanelInv => ItemsListed
  BY PanelAssumption DEF PanelInv, Shapes, TypeOK, Listed, ItemsListed
<1> QED
  BY <1>1, PanelInductive, PTL

\* No nameless entry and no device of the wrong kind reaches the registry.
THEOREM OnlyUsableIsStored == Spec => []StoredIsUsable
<1>1. PanelInv => StoredIsUsable
  BY DEF PanelInv
<1> QED
  BY <1>1, PanelInductive, PTL

\* A driver started after the restart message gets the pair it announced,
\* whatever has been written, or failed to be, since.
THEOREM RestartIsEnough == Spec => []RestartTakesEffect
<1>1. PanelInv => RestartTakesEffect
  BY DEF PanelInv, Promised, RestartTakesEffect
<1> QED
  BY <1>1, PanelInductive, PTL

\* A refresh, also one that fails, selects again what was selected when it is
\* still listed.
THEOREM ChoiceSurvivesRefresh == Spec => RefreshKeepsChoice
<1>1. PanelInv /\ [Next]_vars => [KeepsChoice]_vars
  <2> SUFFICES ASSUME PanelInv, [Next]_vars,
                      pc \in {"refreshing", "refreshingAgain"}, pc' = "open"
               PROVE  /\ (\E i \in outputs' : devices'[i] = IdOf(output)) =>
                           output' # Empty /\ devices'[output'] = IdOf(output)
                      /\ (\E i \in inputs' \ {None} : devices'[i] = IdOf(input)) =>
                           input' # None /\ devices'[input'] = IdOf(input)
    BY DEF KeepsChoice
  <2>1. /\ Shapes /\ Listed /\ ids = <<IdOf(output), IdOf(input)>>
        /\ SecondCall \/ CallFails
    BY DEF PanelInv, Remembered, Next, Open, PressRefresh, Select, PressOK,
       Cancel, FirstCall, StoreInput, StoreOutput, StoreFails, Plug,
       DriverReads, vars, panelVars, Exit
  <2>2. CASE SecondCall
    <3>1. devices' = Fetched /\ Populate(Fetched, ids) /\ IsList(Fetched)
      BY <2>1, <2>2, FetchedList DEF SecondCall, Shapes
    <3>2. /\ outputs' \subseteq Nat
          /\ (\E i \in outputs' : Fetched[i] = ids[1]) =>
               output' \in outputs' /\ Fetched[output'] = ids[1]
          /\ (\E i \in inputs' \ {None} : Fetched[i] = ids[2]) =>
               input' \in inputs' \ {None} /\ Fetched[input'] = ids[2]
      BY <3>1, PopulateShows
    <3> QED
      BY <2>1, <3>1, <3>2, PanelAssumption
  <2>3. CASE CallFails
    <3>1. UNCHANGED <<devices, outputs, inputs, output, input>>
      BY <2>3 DEF CallFails, Failed
    <3>2. /\ output # Empty => IdOf(output) = devices[output]
          /\ input # None => IdOf(input) = devices[input]
      BY <2>1, SelectedIds
    <3>3. ASSUME NEW i \in outputs, devices[i] = IdOf(output)
          PROVE  output # Empty
      BY <2>1, <3>3, PanelAssumption DEF Listed, Plays, IdOf
    <3>4. ASSUME NEW i \in inputs \ {None}, devices[i] = IdOf(input)
          PROVE  input # None
      <4>1. IsList(devices) /\ i \in DOMAIN devices
        BY <2>1 DEF Shapes, TypeOK, IsList, Listed
      <4>2. devices[i] \in Devices \cup {Empty}
        BY <4>1, ListEntries
      <4> QED
        BY <3>4, <4>2, PanelAssumption DEF IdOf
    <3> QED
      BY <3>1, <3>2, <3>3, <3>4
  <2> QED
    BY <2>1, <2>2, <2>3
<1> QED
  BY <1>1, PanelInductive, PTL DEF Spec, RefreshKeepsChoice

=============================================================================
