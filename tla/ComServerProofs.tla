-------------------------- MODULE ComServerProofs --------------------------
(***************************************************************************)
(* For any number of objects, references and locks: global_ref_count is    *)
(* the number of living objects and locks, hence the DLL stays while it is *)
(* used; and for every interleaving of regsvr32 with a host's look at the  *)
(* registry, a listed driver can be created.                               *)
(***************************************************************************)
EXTENDS ComServer, FiniteSetTheorems, TLAPS

\* Everything the counts say: the strengthening of UnloadedMeansUnused.
Counted ==
  /\ TypeOK /\ CountsReferences
  /\ ~loaded => Live = {} /\ locks = 0

\* What regsvr32 has written before each write that depends on it.
Written ==
  /\ registrar \in {"InprocServer32", "path", "ThreadingModel", "ASIO", "CLSID"}
       => "class" \in registry
  /\ registrar \in {"path", "ThreadingModel", "ASIO", "CLSID"}
       => "InprocServer32" \in registry
  /\ registrar \in {"ThreadingModel", "ASIO", "CLSID"} => "path" \in registry
  /\ registrar \in {"ASIO", "CLSID"} => "ThreadingModel" \in registry
  /\ registrar = "classDescription" => "class" \in registry
  /\ registrar \in {"deleteInproc", "deleteClass"} => "CLSID" \notin registry

----------------------------------------------------------------------------
LEMMA LiveFinite == IsFiniteSet(Live) /\ Cardinality(Live) \in Nat
<1>1. IsFiniteSet(Objects)
  BY ServerAssumption, FS_Union DEF Objects
<1>2. Live \subseteq Objects
  BY DEF Live
<1> QED
  BY <1>1, <1>2, FS_Subset, FS_CardinalityType

\* One object's count changes: the number of living objects follows.
LEMMA CountChanges ==
  ASSUME TypeOK, NEW x \in Objects, NEW r \in Nat,
         ref_count' = [ref_count EXCEPT ![x] = r]
  PROVE  Cardinality(Live') = Cardinality(Live)
           + (IF ref_count[x] = 0 /\ r > 0 THEN 1
              ELSE IF ref_count[x] > 0 /\ r = 0 THEN -1 ELSE 0)
<1>1. \A y \in Objects :
        ref_count'[y] = IF y = x THEN r ELSE ref_count[y]
  BY DEF TypeOK
<1>2. ref_count[x] \in Nat
  BY DEF TypeOK
<1>3. CASE ref_count[x] = 0 /\ r > 0
  <2>1. Live' = Live \cup {x} /\ x \notin Live
    BY <1>1, <1>3 DEF Live
  <2> QED
    BY <1>3, <2>1, LiveFinite, FS_AddElement
<1>4. CASE ref_count[x] > 0 /\ r = 0
  <2>1. Live' = Live \ {x} /\ x \in Live
    BY <1>1, <1>4 DEF Live
  <2> QED
    BY <1>4, <2>1, LiveFinite, FS_RemoveElement
<1>5. CASE (ref_count[x] = 0 /\ r = 0) \/ (ref_count[x] > 0 /\ r > 0)
  <2>1. Live' = Live
    BY <1>1, <1>5 DEF Live
  <2> QED
    BY <1>5, <2>1, LiveFinite
<1> QED
  BY <1>2, <1>3, <1>4, <1>5

\* A client that holds a reference to an object finds the DLL loaded.
LEMMA HeldMeansLoaded ==
  ASSUME Counted, NEW x \in Objects, held[x] > 0
  PROVE  loaded
  BY DEF Counted, TypeOK, CountsReferences, Live

LEMMA ConstructKeeps ==
  ASSUME Counted, NEW x \in Objects, ref_count[x] = 0, loaded,
         NEW r \in {0, 1}, Construct(x, r, r)
  PROVE  Counted'
<1>1. /\ ref_count' = [ref_count EXCEPT ![x] = r]
      /\ held' = [held EXCEPT ![x] = r]
      /\ global_ref_count' =
           IF r = 0 THEN global_ref_count ELSE global_ref_count + 1
      /\ UNCHANGED <<loaded, locks, registry, registrar>>
  BY DEF Construct
<1>2. TypeOK /\ TypeOK'
  BY <1>1 DEF Counted, TypeOK
<1>3. Cardinality(Live') = Cardinality(Live) + r
  <2>0. r \in Nat /\ ref_count' = [ref_count EXCEPT ![x] = r]
    BY <1>1
  <2>1. Cardinality(Live') = Cardinality(Live)
          + (IF ref_count[x] = 0 /\ r > 0 THEN 1
             ELSE IF ref_count[x] > 0 /\ r = 0 THEN -1 ELSE 0)
    BY <1>2, <2>0, CountChanges
  <2> QED
    BY <2>1, LiveFinite
<1>4. CountsReferences'
  BY <1>1, <1>2, <1>3, LiveFinite DEF Counted, CountsReferences, TypeOK
<1> QED
  BY <1>1, <1>2, <1>4 DEF Counted

LEMMA CountedNext == Counted /\ [Next]_vars => Counted'
<1> SUFFICES ASSUME Counted, [Next]_vars PROVE Counted'
  OBVIOUS
<1>t. TypeOK /\ Cardinality(Live) \in Nat
  BY LiveFinite DEF Counted
<1>1. ASSUME NEW x \in Factories, GetClassObject(x) PROVE Counted'
  <2>1. /\ x \in Objects /\ loaded /\ ref_count[x] = 0
        /\ \E queried \in {0, 1} : Construct(x, 1 + queried - 1, queried)
    BY <1>1 DEF GetClassObject, Objects
  <2>2. PICK r \in {0, 1} : Construct(x, r, r)
    <3>1. PICK r \in {0, 1} : Construct(x, 1 + r - 1, r)
      BY <2>1
    <3>2. 1 + r - 1 = r
      OBVIOUS
    <3> QED
      BY <3>1, <3>2
  <2> QED
    BY <2>1, <2>2, ConstructKeeps
<1>2. ASSUME NEW x \in Drivers, CreateInstance(x) PROVE Counted'
  <2>1. x \in Objects /\ loaded /\ ref_count[x] = 0
    BY <1>2, HeldMeansLoaded DEF CreateInstance, Objects
  <2> QED
    BY <1>2, <2>1, ConstructKeeps DEF CreateInstance
<1>3. ASSUME NEW x \in Objects, AddRef(x) PROVE Counted'
  <2>1. /\ held[x] > 0 /\ held' = [held EXCEPT ![x] = held[x] + 1]
        /\ ref_count' = [ref_count EXCEPT ![x] = ref_count[x] + 1]
        /\ UNCHANGED <<loaded, global_ref_count, locks, registry, registrar>>
    BY <1>3 DEF AddRef
  <2>2. ref_count[x] = held[x] /\ held[x] \in Nat /\ loaded
    BY <1>t, <2>1, HeldMeansLoaded DEF Counted, CountsReferences, TypeOK
  <2>3. TypeOK'
    BY <1>t, <2>1, <2>2 DEF TypeOK
  <2>4. Cardinality(Live') = Cardinality(Live)
    <3> DEFINE r == ref_count[x] + 1
    <3>1. ref_count[x] > 0 /\ r \in Nat /\ r > 0
      BY <2>1, <2>2
    <3>2. ref_count' = [ref_count EXCEPT ![x] = r]
      BY <2>1
    <3> HIDE DEF r
    <3>3. Cardinality(Live') = Cardinality(Live)
            + (IF ref_count[x] = 0 /\ r > 0 THEN 1
               ELSE IF ref_count[x] > 0 /\ r = 0 THEN -1 ELSE 0)
      BY <1>t, <3>1, <3>2, CountChanges
    <3> QED
      BY <1>t, <3>1, <3>3
  <2> QED
    BY <1>t, <2>1, <2>2, <2>3, <2>4 DEF Counted, CountsReferences, TypeOK
<1>4. ASSUME NEW x \in Objects, Release(x) PROVE Counted'
  <2>1. /\ held[x] > 0 /\ held' = [held EXCEPT ![x] = held[x] - 1]
        /\ ref_count' = [ref_count EXCEPT ![x] = ref_count[x] - 1]
        /\ global_ref_count' = IF ref_count[x] = 1 THEN global_ref_count - 1
                               ELSE global_ref_count
        /\ UNCHANGED <<loaded, locks, registry, registrar>>
    BY <1>4 DEF Release
  <2>2. ref_count[x] = held[x] /\ held[x] \in Nat /\ loaded
    BY <1>t, <2>1, HeldMeansLoaded DEF Counted, CountsReferences, TypeOK
  <2>3. TypeOK'
    BY <1>t, <2>1, <2>2 DEF TypeOK
  <2>4. Cardinality(Live') = Cardinality(Live)
          - (IF ref_count[x] = 1 THEN 1 ELSE 0)
    <3> DEFINE r == ref_count[x] - 1
    <3>1. ref_count[x] > 0 /\ r \in Nat /\ (r = 0 <=> ref_count[x] = 1)
      BY <2>1, <2>2
    <3>2. Cardinality(Live') = Cardinality(Live)
            + (IF ref_count[x] = 0 /\ r > 0 THEN 1
               ELSE IF ref_count[x] > 0 /\ r = 0 THEN -1 ELSE 0)
      <4>1. ref_count' = [ref_count EXCEPT ![x] = r]
        BY <2>1
      <4> HIDE DEF r
      <4> QED
        BY <1>t, <3>1, <4>1, CountChanges
    <3> HIDE DEF r
    <3> QED
      BY <1>t, <3>1, <3>2
  <2> QED
    BY <1>t, <2>1, <2>2, <2>3, <2>4 DEF Counted, CountsReferences, TypeOK
<1>5. CASE LockServer
  <2>1. loaded
    BY <1>5, HeldMeansLoaded DEF LockServer, Objects
  <2>2. /\ UNCHANGED <<loaded, ref_count, held, registry, registrar>>
        /\ \/ locks' = locks + 1 /\ global_ref_count' = global_ref_count + 1
           \/ /\ locks > 0 /\ locks' = locks - 1
              /\ global_ref_count' = global_ref_count - 1
    BY <1>5 DEF LockServer
  <2> QED
    BY <1>t, <2>1, <2>2 DEF Counted, CountsReferences, TypeOK, Live
<1>6. CASE Load
  <2>1. Live = {} /\ Cardinality(Live) = 0 /\ locks = 0
    BY <1>6, FS_EmptySet DEF Load, Counted
  <2> QED
    BY <1>t, <1>6, <2>1 DEF Load, Counted, CountsReferences, TypeOK, Live
<1>7. CASE Unload
  <2>1. Cardinality(Live) = 0 /\ locks = 0
    BY <1>t, <1>7 DEF Unload, CanUnloadNow, Counted, CountsReferences, TypeOK
  <2>2. Live = {}
    BY <2>1, LiveFinite, FS_EmptySet
  <2> QED
    BY <1>t, <1>7, <2>1, <2>2
    DEF Unload, Counted, CountsReferences, TypeOK, Live
<1>8. CASE StartRegsvr32 \/ RegistryCall
  <2>2. UNCHANGED serverVars
    BY <1>8 DEF StartRegsvr32, RegistryCall
  <2>3. /\ registry' \in SUBSET Entries
        /\ registrar' \in Entries \cup Trees \cup {"idle"}
    <3>1. CASE StartRegsvr32
      BY <1>t, <3>1 DEF StartRegsvr32, TypeOK, Entries, Trees
    <3>2. \A e \in Entries \cup Trees :
            Following[e] \in Entries \cup Trees \cup {"idle"}
      BY DEF Following, Entries, Trees
    <3>3. CASE RegistryCall
      BY <1>t, <3>2, <3>3 DEF RegistryCall, TypeOK
    <3> QED
      BY <1>8, <3>1, <3>3
  <2>1. TypeOK'
    BY <1>t, <2>2, <2>3 DEF serverVars, TypeOK
  <2> QED
    BY <2>1, <2>2 DEF serverVars, Counted, CountsReferences, Live
<1>9. CASE UNCHANGED vars
  BY <1>9 DEF vars, serverVars, Counted, CountsReferences, TypeOK, Live
<1> QED
  BY <1>1, <1>2, <1>3, <1>4, <1>5, <1>6, <1>7, <1>8, <1>9 DEF Next

LEMMA CountedInit == Init => Counted
<1> SUFFICES ASSUME Init PROVE Counted
  OBVIOUS
<1>1. TypeOK
  <2>1. /\ ref_count = [x \in Objects |-> 0] /\ held = [x \in Objects |-> 0]
        /\ global_ref_count = 0 /\ locks = 0
    BY DEF Init
  <2>2. /\ ref_count \in [Objects -> Nat] /\ held \in [Objects -> Nat]
        /\ global_ref_count \in Int /\ locks \in Nat
    BY <2>1
  <2>3. /\ loaded \in BOOLEAN /\ registry \in SUBSET Entries
        /\ registrar \in Entries \cup Trees \cup {"idle"}
    BY DEF Init
  <2> QED
    BY <2>2, <2>3 DEF TypeOK
<1>2. Live = {} /\ locks = 0 /\ ~loaded
  BY DEF Init, Live
<1>3. CountsReferences
  BY <1>2 DEF Init, CountsReferences
<1> QED
  BY <1>1, <1>2, <1>3 DEF Counted

LEMMA WrittenNext ==
  TypeOK /\ Written /\ ListedMeansLoadable /\ [Next]_vars =>
    (Written /\ ListedMeansLoadable)'
<1> SUFFICES ASSUME TypeOK, Written, ListedMeansLoadable, [Next]_vars
             PROVE  (Written /\ ListedMeansLoadable)'
  OBVIOUS
<1>1. CASE StartRegsvr32
  BY <1>1 DEF StartRegsvr32, Written, ListedMeansLoadable
<1>2. CASE RegistryCall /\ registrar' # "idle"
  BY <1>2 DEF RegistryCall, TypeOK, Entries, Trees, Following, Under, Written,
              ListedMeansLoadable
<1>3. CASE RegistryCall /\ registrar' = "idle"
  BY <1>3 DEF RegistryCall, TypeOK, Entries, Trees, Following, Under, Written,
              ListedMeansLoadable
<1>4. CASE UNCHANGED <<registry, registrar>>
  BY <1>4 DEF Written, ListedMeansLoadable
<1> QED
  BY <1>1, <1>2, <1>3, <1>4
  DEF Next, vars, GetClassObject, CreateInstance, Construct, AddRef, Release,
      LockServer, Load, Unload

----------------------------------------------------------------------------
\* Every state is well typed, references and locks are never counted below
\* zero: for any number of objects, references and locks.
THEOREM ServerTypes == Spec => []TypeOK
<1>1. Counted => TypeOK
  BY DEF Counted
<1> QED
  BY <1>1, CountedInit, CountedNext, PTL DEF Spec

\* The counters of objects, factories and the server agree with what clients
\* hold: for any number of objects, references and locks.
THEOREM CountsAgree == Spec => []CountsReferences
<1>1. Counted => CountsReferences
  BY DEF Counted
<1> QED
  BY <1>1, CountedInit, CountedNext, PTL DEF Spec

\* DllCanUnloadNow never says yes while a client can still call the DLL.
THEOREM StaysWhileUsed == Spec => []UnloadedMeansUnused
<1>1. Counted => UnloadedMeansUnused
  BY DEF Counted, CountsReferences, TypeOK, Live, UnloadedMeansUnused
<1> QED
  BY <1>1, CountedInit, CountedNext, PTL DEF Spec

\* A driver that hosts are shown can be created, however far registration
\* and unregistration have come and whichever of their calls failed.
THEOREM ListedIsLoadable == Spec => []ListedMeansLoadable
<1>1. Init => Counted /\ Written /\ ListedMeansLoadable
  BY CountedInit DEF Init, Written, ListedMeansLoadable
<1>2. Counted => TypeOK
  BY DEF Counted
<1> QED
  BY <1>1, <1>2, CountedNext, WrittenNext, PTL DEF Spec

============================================================================
