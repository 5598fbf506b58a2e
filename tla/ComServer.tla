----------------------------- MODULE ComServer -----------------------------
(***************************************************************************)
(* The DLL as a COM server: class factories and drivers that count their   *)
(* references and delete themselves, global_ref_count, by which COM may    *)
(* unload the DLL, and the registry entries through which hosts find it.   *)
(*                                                                         *)
(* The class is apartment-threaded and the calls of one apartment do not   *)
(* overlap: each is one step.  Registration runs in another process, and a *)
(* host may look at the registry between any two of its writes.  Clients   *)
(* release what they hold and undo the locks they made, never more.        *)
(***************************************************************************)
EXTENDS Integers, FiniteSets

CONSTANTS
  Factories, Drivers,  \* CASIOClassFactory and CASIO objects
  MaxRefs, MaxLocks    \* bounds: references to one object, locks

ASSUME ServerAssumption ==
  /\ IsFiniteSet(Factories) /\ IsFiniteSet(Drivers)
  /\ Factories \cap Drivers = {}
  /\ MaxRefs \in Nat /\ MaxLocks \in Nat

VARIABLES
  loaded,            \* the DLL is in the process
  ref_count,         \* of each object; 0 when it does not exist
  global_ref_count,
  held,              \* references the clients have to each object
  locks,             \* LockServer(TRUE) calls they have not undone
  registry,          \* entries that are there
  registrar          \* the next write of regsvr32, or "idle"

serverVars == <<loaded, ref_count, global_ref_count, held, locks>>
vars == <<serverVars, registry, registrar>>

Objects == Factories \cup Drivers
Live == {x \in Objects : ref_count[x] > 0}

\* What DllRegisterServer writes, and what DllUnregisterServer deletes.
Entries == {"class", "classDescription", "InprocServer32", "path",
            "ThreadingModel", "ASIO", "CLSID", "Description"}
Trees == {"deleteASIO", "deleteInproc", "deleteClass"}

TypeOK ==
  /\ loaded \in BOOLEAN
  /\ ref_count \in [Objects -> Nat] /\ held \in [Objects -> Nat]
  /\ global_ref_count \in Int /\ locks \in Nat
  /\ registry \in SUBSET Entries
  /\ registrar \in Entries \cup Trees \cup {"idle"}

Init ==
  /\ loaded = FALSE
  /\ ref_count = [x \in Objects |-> 0] /\ held = [x \in Objects |-> 0]
  /\ global_ref_count = 0 /\ locks = 0
  /\ registry = {} /\ registrar = "idle"

----------------------------------------------------------------------------
\* COM loads the DLL it finds in the registry; DllMain may fail.
Load ==
  /\ ~loaded /\ {"InprocServer32", "path"} \subseteq registry
  /\ loaded' = TRUE /\ global_ref_count' = 0
  /\ UNCHANGED <<ref_count, held, locks, registry, registrar>>

\* A new object with the references r that are left of it, of which the
\* caller has given; without any it has deleted itself.
Construct(x, r, given) ==
  /\ ref_count' = [ref_count EXCEPT ![x] = r]
  /\ held' = [held EXCEPT ![x] = given]
  /\ global_ref_count' =
       IF r = 0 THEN global_ref_count ELSE global_ref_count + 1
  /\ UNCHANGED <<loaded, locks, registry, registrar>>

\* Mutant of GetClassObject: the factory keeps its own AddRef.
GetClassObjectKept(x) ==
  /\ loaded /\ ref_count[x] = 0
  /\ \E queried \in {0, 1} : Construct(x, 1 + queried, queried)

\* DllGetClassObject: AddRef, a QueryInterface that may fail, Release.
GetClassObject(x) ==
  /\ loaded /\ ref_count[x] = 0
  /\ \E queried \in {0, 1} : Construct(x, 1 + queried - 1, queried)

\* CreateInstance of some factory: QueryInterface is the first reference;
\* when it fails the object is deleted.
CreateInstance(x) ==
  /\ ref_count[x] = 0 /\ \E f \in Factories : held[f] > 0
  /\ \E queried \in {0, 1} : Construct(x, queried, queried)

\* AddRef, or a QueryInterface that succeeds.
AddRef(x) ==
  /\ held[x] > 0 /\ held[x] < MaxRefs
  /\ held' = [held EXCEPT ![x] = @ + 1]
  /\ ref_count' = [ref_count EXCEPT ![x] = @ + 1]
  /\ UNCHANGED <<loaded, global_ref_count, locks, registry, registrar>>

\* Mutant of Release: the object deletes itself with one reference left.
ReleaseEarly(x) ==
  /\ held[x] > 0
  /\ held' = [held EXCEPT ![x] = @ - 1]
  /\ ref_count' = [ref_count EXCEPT ![x] = IF @ = 2 THEN 0 ELSE @ - 1]
  /\ global_ref_count' =
       IF ref_count[x] <= 2 THEN global_ref_count - 1 ELSE global_ref_count
  /\ UNCHANGED <<loaded, locks, registry, registrar>>

\* Release; the destructor counts the object out.
Release(x) ==
  /\ held[x] > 0
  /\ held' = [held EXCEPT ![x] = @ - 1]
  /\ ref_count' = [ref_count EXCEPT ![x] = @ - 1]
  /\ global_ref_count' =
       IF ref_count[x] = 1 THEN global_ref_count - 1 ELSE global_ref_count
  /\ UNCHANGED <<loaded, locks, registry, registrar>>

\* LockServer of some factory, which may be gone when the lock is undone
\* through another one.
LockServer ==
  /\ \E f \in Factories : held[f] > 0
  /\ \/ locks < MaxLocks /\ locks' = locks + 1
        /\ global_ref_count' = global_ref_count + 1
     \/ locks > 0 /\ locks' = locks - 1
        /\ global_ref_count' = global_ref_count - 1
  /\ UNCHANGED <<loaded, ref_count, held, registry, registrar>>

\* Mutant of CanUnloadNow: the factory in hand is not counted.
CanUnloadWithOne == global_ref_count <= 1

CanUnloadNow == global_ref_count <= 0

\* COM asks DllCanUnloadNow and unloads.
Unload ==
  /\ loaded /\ CanUnloadNow
  /\ loaded' = FALSE
  /\ UNCHANGED <<ref_count, global_ref_count, held, locks, registry, registrar>>

----------------------------------------------------------------------------
\* regsvr32 starts, to register or to unregister.
StartRegsvr32 ==
  /\ registrar = "idle"
  /\ registrar' \in {"class", "deleteASIO"}
  /\ UNCHANGED <<serverVars, registry>>

\* The write, or deletion, that follows each.
Following ==
  [class |-> "classDescription", classDescription |-> "InprocServer32",
   InprocServer32 |-> "path", path |-> "ThreadingModel",
   ThreadingModel |-> "ASIO", ASIO |-> "CLSID", CLSID |-> "Description",
   Description |-> "idle", deleteASIO |-> "deleteInproc",
   deleteInproc |-> "deleteClass", deleteClass |-> "idle"]

\* Mutant of Under: the class goes first.
UnderSwapped ==
  [deleteASIO |-> {"InprocServer32", "path", "ThreadingModel"},
   deleteInproc |-> {"class", "classDescription"},
   deleteClass |-> {"ASIO", "CLSID", "Description"}]

\* What each deletion takes: RegDeleteTree deletes subkeys before the key.
Under ==
  [deleteASIO |-> {"ASIO", "CLSID", "Description"},
   deleteInproc |-> {"InprocServer32", "path", "ThreadingModel"},
   deleteClass |-> {"class", "classDescription"}]

\* DllRegisterServer and DllUnregisterServer: one registry call, or the end
\* of it all when it fails or regsvr32 is killed.
RegistryCall ==
  /\ registrar # "idle"
  /\ \/ registrar' = "idle" /\ UNCHANGED registry
     \/ /\ registrar' = Following[registrar]
        /\ registry' = IF registrar \in Entries
                       THEN registry \cup {registrar}
                       ELSE registry \ Under[registrar]
  /\ UNCHANGED serverVars

----------------------------------------------------------------------------
Next ==
  \/ \E x \in Factories : GetClassObject(x)
  \/ \E x \in Drivers : CreateInstance(x)
  \/ \E x \in Objects : AddRef(x) \/ Release(x)
  \/ LockServer \/ Load \/ Unload \/ StartRegsvr32 \/ RegistryCall

Spec == Init /\ [][Next]_vars

----------------------------------------------------------------------------
\* The code of the DLL is not unloaded while a client can still call it.
UnloadedMeansUnused ==
  ~loaded => locks = 0 /\ \A x \in Objects : held[x] = 0

\* Objects live exactly as long as a client has a reference to them, also
\* when the QueryInterface that was to give the first one fails; and once
\* clients have released everything nothing keeps the DLL loaded.
CountsReferences ==
  /\ \A x \in Objects : ref_count[x] = held[x]
  /\ loaded => global_ref_count = Cardinality(Live) + locks

\* A host that finds the driver listed under ASIO can create it, whichever
\* registry call of a registration failed or has not been made yet.
ListedMeansLoadable ==
  "CLSID" \in registry =>
    {"class", "InprocServer32", "path", "ThreadingModel"} \subseteq registry

============================================================================
