------------------------ MODULE RealtimeThreadProofs ------------------------
(***************************************************************************)
(* Any number of runs, one after the other, and any numbers RealtimeKit    *)
(* may advertise, before them and between them.                            *)
(***************************************************************************)
EXTENDS RealtimeThread, TLAPS

\* The two numbers asked for, without Min.
LEMMA MinOfTwo ==
  ASSUME NEW a \in Int, NEW b \in Int
  PROVE  Min({a, b}) = IF a <= b THEN a ELSE b
<1> DEFINE m == IF a <= b THEN a ELSE b
<1>1. m \in {a, b} /\ \A y \in {a, b} : m <= y
  OBVIOUS
<1>2. \A x \in {a, b} : (\A y \in {a, b} : x <= y) => x = m
  OBVIOUS
<1> QED
  BY <1>1, <1>2 DEF Min

LEMMA Numbers ==
  /\ Infinity \in Nat \ {0} /\ Wanted \in Nat \ {0}
  /\ \A n \in Advertised : /\ n \in Int /\ n < Infinity /\ Unsigned(n) \in 0..Infinity
                           /\ n > 0 => Unsigned(n) = n
  /\ \A n \in Priorities : /\ n \in Int /\ Unsigned(n) \in Nat
                           /\ n > 0 => Unsigned(n) = n
  BY RealtimeAssumption DEF Unsigned

LEMMA ServiceNumbers ==
  ASSUME rtkit \in Services
  PROVE  /\ rtkit.time \in Int /\ rtkit.priority \in Int
         /\ rtkit.time < Infinity
         /\ Unsigned(rtkit.time) \in 0..Infinity /\ Unsigned(rtkit.priority) \in Nat
         /\ Generous => /\ rtkit # Absent
                        /\ Unsigned(rtkit.time) = rtkit.time
                        /\ Unsigned(rtkit.priority) = rtkit.priority
<1>1. CASE rtkit = Absent
  BY <1>1, Numbers DEF Absent, Generous, Unsigned
<1>2. CASE rtkit \in [time : Advertised, priority : Priorities]
  <2>1. rtkit.time \in Advertised /\ rtkit.priority \in Priorities
    BY <1>2
  <2>2. Generous => rtkit # Absent
    BY DEF Generous, Absent
  <2> QED
    BY <2>1, <2>2, Numbers DEF Generous
<1> QED
  BY <1>1, <1>2 DEF Services

\* What the thread has got so far while RealtimeKit has stayed and is generous:
\* its target is at most what is advertised and at most what the limit is, so
\* that neither the kernel nor RealtimeKit has anything to refuse.
Promised ==
  /\ pc = "limit" => target = rtkit.time
  /\ pc = "set" => target <= rtkit.time /\ target <= limit
  /\ pc \in {"priority", "request"} => limit <= rtkit.time
  /\ pc = "request" => 1 <= priority /\ priority <= rtkit.priority
  /\ pc = "done" => realtime

IInv == TypeOK /\ (stayed /\ Generous /\ limit > 0 => Promised)

LEMMA TargetValue ==
  ASSUME NEW time \in 0..Infinity, NEW current \in 0..Infinity
  PROVE  Target(time, current) = IF time <= current THEN time ELSE current
<1>1. CASE current = Infinity
  BY <1>1, Numbers DEF Target
<1>2. CASE current # Infinity
  BY <1>2, MinOfTwo, Numbers DEF Target
<1> QED
  BY <1>1, <1>2

LEMMA TypeInit == Init => TypeOK
<1> SUFFICES ASSUME Init PROVE TypeOK
  OBVIOUS
<1>1. 0 \in 0..Infinity /\ 0 \in 0..Wanted /\ limit \in 0..Infinity
  BY RealtimeAssumption DEF Init
<1>2. realtime \in BOOLEAN /\ ~realtime /\ stayed \in BOOLEAN
  BY DEF Init
<1> QED
  BY <1>1, <1>2 DEF Init, TypeOK

\* A step of the thread keeps types.
LEMMA TypeStep ==
  ASSUME TypeOK, Thread
  PROVE  TypeOK'
<1> USE DEF TypeOK
<1>0. /\ Wanted \in Nat \ {0} /\ Infinity \in Nat \ {0}
      /\ Unsigned(rtkit.time) \in 0..Infinity /\ Unsigned(rtkit.priority) \in Nat
  BY Numbers, ServiceNumbers
<1>1. CASE Begin
  BY <1>1 DEF Begin, Thread
<1>2. CASE ReadTime /\ UNCHANGED stayed
  BY <1>0, <1>2 DEF ReadTime, Thread, Return
<1>3. CASE ReadLimit /\ UNCHANGED stayed
  <2>1. Target(target, limit) \in 0..Infinity
    BY TargetValue
  <2> QED
    BY <1>0, <1>3, <2>1 DEF ReadLimit, Thread, Return
<1>4. CASE SetLimit /\ UNCHANGED stayed
  BY <1>0, <1>4 DEF SetLimit, Thread, Return
<1>5. CASE ReadPriority /\ UNCHANGED stayed
  <2>1. Min({Wanted, Unsigned(rtkit.priority)}) \in 0..Wanted
    BY <1>0, MinOfTwo
  <2> QED
    BY <1>5, <2>1 DEF ReadPriority, Thread, Return
<1>6. CASE Request /\ UNCHANGED stayed
  BY <1>6 DEF Request, Thread, Grants
<1>7. CASE End /\ UNCHANGED stayed
  <2>1. realtime' \in BOOLEAN /\ ~realtime' /\ stayed' \in BOOLEAN
    BY <1>7 DEF End
  <2> QED
    BY <1>0, <1>7, <2>1 DEF End, Thread
<1>8. Begin \/ ((ReadTime \/ ReadLimit \/ SetLimit \/ ReadPriority \/ Request
                 \/ End) /\ UNCHANGED stayed)
  BY DEF Thread
<1> QED
  BY <1>1, <1>2, <1>3, <1>4, <1>5, <1>6, <1>7, <1>8

\* What a step adds to it.
LEMMA PromiseStep ==
  ASSUME TypeOK, Generous, limit > 0, Promised, Thread, ~Begin
  PROVE  Promised'
<1> USE DEF TypeOK, Promised
<1>0. /\ rtkit' = rtkit /\ rtkit # Absent
      /\ rtkit.time \in 1..(Infinity - 1) /\ rtkit.priority \in Nat \ {0}
      /\ Unsigned(rtkit.time) = rtkit.time
      /\ Unsigned(rtkit.priority) = rtkit.priority
      /\ Wanted \in Nat \ {0} /\ Infinity \in Nat \ {0}
  BY Numbers, ServiceNumbers DEF Thread, Generous
<1>1. CASE ReadTime
  BY <1>0, <1>1 DEF ReadTime
<1>2. CASE ReadLimit
  <2>1. Target(target, limit) = IF rtkit.time <= limit THEN rtkit.time ELSE limit
    BY <1>0, <1>2, TargetValue DEF ReadLimit
  <2>2. Target(target, limit) >= 1
    BY <1>0, <2>1
  <2> QED
    BY <1>0, <1>2, <2>1, <2>2 DEF ReadLimit
<1>3. CASE SetLimit
  BY <1>0, <1>3 DEF SetLimit
<1>4. CASE ReadPriority
  <2>1. LET p == Min({Wanted, Unsigned(rtkit.priority)})
        IN  1 <= p /\ p <= rtkit.priority
    BY <1>0, MinOfTwo
  <2> QED
    BY <1>0, <1>4, <2>1 DEF ReadPriority
<1>5. CASE Request
  BY <1>0, <1>5 DEF Request, Grants
<1>6. CASE End
  BY <1>0, <1>6 DEF End
<1> QED
  BY <1>1, <1>2, <1>3, <1>4, <1>5, <1>6 DEF Thread

LEMMA IInvInit == Init => IInv
  BY TypeInit DEF Init, IInv, Promised

\* A run begins with nothing promised; within it the limit never rises, and a
\* RealtimeKit that has changed is not relied on.
LEMMA IInvNext == IInv /\ [Next]_vars => IInv'
<1> SUFFICES ASSUME IInv, [Next]_vars PROVE IInv'
  OBVIOUS
<1>1. CASE UNCHANGED vars
  BY <1>1 DEF vars, IInv, TypeOK, Generous, Promised
<1>2. CASE Restart
  BY <1>2 DEF Restart, IInv, TypeOK
<1>3. CASE Thread
  <2>1. TypeOK /\ TypeOK'
    BY <1>3, TypeStep DEF IInv
  <2>2. CASE Begin
    <3>1. Promised'
      BY <2>2 DEF Begin, Promised
    <3> QED
      BY <2>1, <3>1 DEF IInv
  <2>3. CASE ~Begin
    <3>1. rtkit' = rtkit /\ stayed' = stayed
      BY <1>3, <2>3 DEF Thread
    <3>2. limit' > 0 => limit > 0
      BY <1>3, <2>1, <2>3 DEF Thread, ReadTime, ReadLimit, SetLimit,
         ReadPriority, Request, End, Return, TypeOK
    <3>3. ASSUME stayed', Generous', limit' > 0
          PROVE  Promised'
      <4>1. stayed /\ Generous /\ limit > 0
        BY <3>1, <3>2, <3>3 DEF Generous
      <4> QED
        BY <1>3, <2>1, <2>3, <4>1, PromiseStep DEF IInv
    <3> QED
      BY <2>1, <3>3 DEF IInv
  <2> QED
    BY <2>2, <2>3
<1> QED
  BY <1>1, <1>2, <1>3 DEF Next

\* The invariant of the module, over any number of runs.
THEOREM Inductive == Spec => []IInv
  BY IInvInit, IInvNext, PTL DEF Spec

\* Types; above all, the thread is never about to set a limit of 0, under which
\* the kernel would kill it.
THEOREM NoLimitOfZero == Spec => []TypeOK
<1>1. IInv => TypeOK
  BY DEF IInv
<1> QED
  BY <1>1, Inductive, PTL

\* With a RealtimeKit that has something to grant and stays while it is asked,
\* make_realtime_thread makes the audio thread of every run real-time, however
\* low earlier runs have left the limit of the process.
THEOREM ThreadsBecomeRealtime == Spec => []AskedMeansRealtime
<1>1. IInv => AskedMeansRealtime
  BY DEF IInv, Promised, TypeOK, AskedMeansRealtime
<1> QED
  BY <1>1, Inductive, PTL

=============================================================================
