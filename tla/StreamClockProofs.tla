------------------------- MODULE StreamClockProofs -------------------------
(***************************************************************************)
(* The time stamps of StreamClock.tla are exact and never go back for a    *)
(* host, for any rate, block and buffer sizes and any word that            *)
(* ClockAssumption and WordAssumption admit.                               *)
(***************************************************************************)
EXTENDS StreamClock, TLAPS

----------------------------------------------------------------------------
(* Arithmetic.                                                              *)

\* A product with a natural number is monotone.
LEMMA TimesMonotone ==
  ASSUME NEW a \in Int, NEW b \in Int, a <= b, NEW n \in Nat
  PROVE  a * n <= b * n
<1>1. (b - a) * n >= 0
  BY Z3
<1> QED
  BY <1>1, Z3

\* Quotient and remainder.
LEMMA DivMod ==
  ASSUME NEW a \in Nat, NEW m \in Nat \ {0}
  PROVE  /\ a \div m \in Nat /\ a % m \in 0..(m - 1)
         /\ a = (a \div m) * m + (a % m)
BY Z3

\* They are the only such pair.
LEMMA DivUnique ==
  ASSUME NEW m \in Nat \ {0}, NEW k \in Nat, NEW r \in 0..(m - 1)
  PROVE  (k * m + r) \div m = k
<1> DEFINE a == k * m + r
           d == a \div m
<1>1. a \in Nat
  BY Z3
<1>2. d \in Nat /\ a % m \in 0..(m - 1) /\ a = d * m + (a % m)
  BY <1>1, DivMod
<1>3. ASSUME d >= k + 1 PROVE FALSE
  <2>1. (k + 1) * m <= d * m
    BY <1>2, <1>3, TimesMonotone
  <2>2. (k + 1) * m = k * m + m
    BY Z3
  <2> QED
    BY <1>1, <1>2, <2>1, <2>2, Z3
<1>4. ASSUME d + 1 <= k PROVE FALSE
  <2>1. (d + 1) * m <= k * m
    BY <1>2, <1>4, TimesMonotone
  <2>2. (d + 1) * m = d * m + m
    BY <1>2, Z3
  <2> QED
    BY <1>1, <1>2, <2>1, <2>2, Z3
<1> QED
  BY <1>2, <1>3, <1>4

\* A quotient is monotone, and grows when the dividend grows by the divisor.
LEMMA DivMonotone ==
  ASSUME NEW m \in Nat \ {0}, NEW a \in Nat, NEW b \in Nat
  PROVE  /\ a <= b => a \div m <= b \div m
         /\ a + m <= b => a \div m < b \div m
<1> DEFINE p == a \div m
           q == b \div m
<1>1. /\ p \in Nat /\ a % m \in 0..(m - 1) /\ a = p * m + (a % m)
      /\ q \in Nat /\ b % m \in 0..(m - 1) /\ b = q * m + (b % m)
  BY DivMod
<1> HIDE DEF p, q
<1>2. (q + 1) * m = q * m + m /\ (p + 1) * m = p * m + m
  BY <1>1, Z3
<1>3. ASSUME a <= b, q + 1 <= p PROVE FALSE
  <2>1. (q + 1) * m <= p * m
    BY <1>1, <1>3, TimesMonotone
  <2> QED
    BY <1>1, <1>2, <1>3, <2>1, Z3
<1>4. ASSUME a + m <= b, q <= p PROVE FALSE
  <2>1. q * m <= p * m
    BY <1>1, <1>4, TimesMonotone
  <2> QED
    BY <1>1, <1>4, <2>1, Z3
<1>5. (a <= b => p <= q) /\ (a + m <= b => p < q)
  BY <1>1, <1>3, <1>4
<1> QED
  BY <1>5 DEF p, q

\* What is below its modulus stays.
LEMMA ModBelow ==
  ASSUME NEW a \in Nat, NEW w \in Nat, a < w
  PROVE  a % w = a
BY Z3

----------------------------------------------------------------------------
(* The time stamp.                                                          *)

\* getSamplePosition, CASIO.cpp lines 473 to 478: converting whole seconds and
\* the remainder apart gives the exact time of a position, rounded down once,
\* whenever that time fits the word; no step of the computation wraps.
THEOREM ConversionIsExact ==
  ASSUME NEW start \in Nat, NEW pos \in Nat, ExactTime(start, pos) < Word
  PROVE  Timestamp(Rate, start, pos) = ExactTime(start, pos)
<1> DEFINE q == pos \div Rate
           r == pos % Rate
           x == r * NsPerS
           e == (pos * NsPerS) \div Rate
<1>1. Rate \in Nat \ {0} /\ NsPerS \in Nat /\ Word \in Nat /\ Rate * NsPerS < Word
  BY ClockAssumption
<1>2. q \in Nat /\ r \in 0..(Rate - 1) /\ pos = q * Rate + r
  BY <1>1, DivMod
<1>3. x \in Nat /\ x < Word
  <2>1. r * NsPerS <= Rate * NsPerS
    BY <1>1, <1>2, TimesMonotone
  <2> QED
    BY <1>1, <1>2, <2>1, Z3
<1>4. x \div Rate \in Nat /\ x % Rate \in 0..(Rate - 1)
        /\ x = (x \div Rate) * Rate + (x % Rate)
  BY <1>1, <1>3, DivMod
<1>5. e = q * NsPerS + x \div Rate
  <2> DEFINE y == x \div Rate
             z == x % Rate
  <2>1. pos * NsPerS = (q * Rate) * NsPerS + x
    BY <1>1, <1>2, Z3
  <2>2. (q * Rate) * NsPerS = (q * NsPerS) * Rate
    BY <1>1, <1>2, Z3
  <2> HIDE DEF x
  <2>3. y \in Nat /\ z \in 0..(Rate - 1) /\ x = y * Rate + z
    BY <1>4
  <2>4. q * NsPerS \in Nat
    BY <1>1, <1>2, Z3
  <2> HIDE DEF y, z, q
  <2>5. (q * NsPerS + y) * Rate = (q * NsPerS) * Rate + y * Rate
    BY <1>1, <2>3, <2>4, Z3
  <2>6. q * NsPerS + y \in Nat
    BY <2>3, <2>4
  <2>7. pos * NsPerS = (q * NsPerS + y) * Rate + z
    BY <1>1, <2>1, <2>2, <2>3, <2>4, <2>5, Z3
  <2>8. ((q * NsPerS + y) * Rate + z) \div Rate = q * NsPerS + y
    BY <1>1, <2>3, <2>6, DivUnique
  <2>9. e = q * NsPerS + y
    BY <2>7, <2>8
  <2> QED
    BY <2>9 DEF y
<1>6. q * NsPerS \in Nat
  BY <1>1, <1>2, Z3
<1>7. start + e < Word
  BY DEF ExactTime
<1> HIDE DEF q, x, e
<1>8. /\ (q * NsPerS) % Word = q * NsPerS
      /\ x % Word = x
      /\ (start + q * NsPerS) % Word = start + q * NsPerS
      /\ (start + q * NsPerS + x \div Rate) % Word = start + q * NsPerS + x \div Rate
  <2> DEFINE b == q * NsPerS
             c == x \div Rate
  <2>1. b \in Nat /\ c \in Nat /\ start + b + c < Word
    BY <1>4, <1>5, <1>6, <1>7
  <2> HIDE DEF b, c
  <2>2. b % Word = b /\ x % Word = x
    BY <1>1, <1>3, <2>1, ModBelow
  <2>3. (start + b) % Word = start + b
    <3>1. start + b \in Nat /\ start + b < Word
      BY <1>1, <2>1
    <3> QED
      BY <1>1, <3>1, ModBelow
  <2>4. (start + b + c) % Word = start + b + c
    <3>1. start + b + c \in Nat
      BY <2>1
    <3> QED
      BY <1>1, <2>1, <3>1, ModBelow
  <2> QED
    BY <2>2, <2>3, <2>4 DEF b, c
<1>9. Timestamp(Rate, start, pos) =
        (((start + ((q * NsPerS) % Word)) % Word) + ((x % Word) \div Rate)) % Word
  BY DEF Timestamp, q, x
<1>10. ExactTime(start, pos) = start + e
  BY DEF ExactTime, e
<1> QED
  BY <1>5, <1>8, <1>9, <1>10, <1>1, <1>3, <1>4, <1>6

\* Exact time grows with the start and with the position, by a nanosecond at
\* least for each frame.
LEMMA ExactTimeMonotone ==
  ASSUME NEW s \in Nat, NEW t \in Nat, NEW p \in Nat, NEW q \in Nat,
         s <= t, p <= q
  PROVE  /\ ExactTime(s, p) <= ExactTime(t, q)
         /\ p < q => ExactTime(s, p) < ExactTime(t, q)
         /\ ExactTime(s, p) \in Nat
<1>1. Rate \in Nat \ {0} /\ NsPerS \in Nat /\ Rate <= NsPerS
  BY ClockAssumption
<1>2. p * NsPerS \in Nat /\ q * NsPerS \in Nat
  BY <1>1, Z3
<1>3. p * NsPerS <= q * NsPerS
  BY <1>1, TimesMonotone
<1>4. p < q => p * NsPerS + Rate <= q * NsPerS
  <2> SUFFICES ASSUME p < q PROVE p * NsPerS + Rate <= q * NsPerS
    OBVIOUS
  <2>1. (p + 1) * NsPerS <= q * NsPerS
    BY <1>1, TimesMonotone
  <2>2. (p + 1) * NsPerS = p * NsPerS + NsPerS
    BY <1>1, Z3
  <2> QED
    BY <1>1, <1>2, <2>1, <2>2
<1> DEFINE x == (p * NsPerS) \div Rate
           y == (q * NsPerS) \div Rate
<1>5. x <= y /\ (p < q => x < y)
  BY <1>1, <1>2, <1>3, <1>4, DivMonotone
<1>6. x \in Nat /\ y \in Nat
  BY <1>1, <1>2, DivMod
<1> HIDE DEF x, y
<1>7. ExactTime(s, p) = s + x /\ ExactTime(t, q) = t + y
  BY DEF ExactTime, x, y
<1> QED
  BY <1>5, <1>6, <1>7

----------------------------------------------------------------------------
(* The inductive invariant.                                                 *)

\* What can have been latched, and what follows from it.
StartOf(at) == (at % MsWrap) * NsPerMs

\* An answer, or what a call has loaded, is a pair that was current when it
\* was read.
Pair(r) == r \in Answers /\ r.start = StartOf(r.latched)

Sound(r) == Pair(r) /\ r.position <= MaxPosition /\ r.latched <= now

Exact(r) == r.timestamp = ExactTime(r.start, r.position)

\* r was read no later than now, in this run.
Past(r) == r.position <= sample_position /\ r.latched <= latched

ClockInv ==
  /\ now \in 0..MaxTime /\ latched \in 0..now
  /\ sample_position \in 0..MaxPosition
  /\ stream_start_timestamp_ns = StartOf(latched)

Records ==
  /\ Sound(query) /\ Sound(floor) /\ Sound(answered)
  /\ Exact(floor) /\ Exact(answered)

Asking == {"asking", "positionLoaded", "startLoaded", "answering"}

\* The thread exists only in Running; a call the host relies on lives in a run
\* that has made its first callback.
Threads ==
  /\ sample_rate = Rate
  /\ state \in {"Prepared", "Running"} /\ {stop, relies} \subseteq BOOLEAN
  /\ hpc \in {"idle", "spawning", "spawned", "joining"} \cup Asking
  /\ apc \in {"none", "begin"} \cup Called
  /\ apc # "none" => state = "Running"
  /\ hpc = "spawning" => apc = "none" /\ state = "Running"
  /\ relies => hpc \in Asking /\ apc \in Called

\* Answers belong to this run, and no earlier than the floor is what a call the
\* host relies on has loaded.
Ordered ==
  /\ apc \in {"none", "begin"} => answered = NoAnswer
  /\ apc \in Called => Past(answered)
  /\ hpc \notin Asking => query = NoAnswer
  /\ relies => Past(floor) /\ Past(query)
  /\ relies /\ hpc \in {"positionLoaded", "answering"} =>
       floor.position <= query.position
  /\ relies /\ hpc \in {"startLoaded", "answering"} =>
       floor.latched <= query.latched

IInv == ClockInv /\ Records /\ Threads /\ Ordered

----------------------------------------------------------------------------
(* Lemmas about answers.                                                    *)

LEMMA Constants ==
  /\ {Rate, NsPerS, NsPerMs, MsWrap, Word, Block, Buffer} \subseteq Nat \ {0}
  /\ {MaxTime, MaxPosition} \subseteq Nat /\ MaxPosition < Word
<1>1. Rate \in Nat \ {0} /\ NsPerS \in Nat /\ Rate <= NsPerS /\ Word \in Nat
        /\ MaxPosition \in Nat /\ MsWrap \in Nat /\ NsPerMs \in Nat
  BY ClockAssumption
<1> DEFINE e == (MaxPosition * NsPerS) \div Rate
<1>2. MaxPosition <= e
  <2>1. Rate * MaxPosition <= NsPerS * MaxPosition
    BY <1>1, TimesMonotone
  <2>2. Rate * MaxPosition = MaxPosition * Rate + 0
          /\ NsPerS * MaxPosition = MaxPosition * NsPerS
    BY <1>1, Z3
  <2>3. (MaxPosition * Rate + 0) \div Rate = MaxPosition
    BY <1>1, DivUnique
  <2>4. Rate * MaxPosition \in Nat /\ NsPerS * MaxPosition \in Nat
    BY <1>1, Z3
  <2>5. (Rate * MaxPosition) \div Rate <= (NsPerS * MaxPosition) \div Rate
    BY <1>1, <2>1, <2>4, DivMonotone
  <2> QED
    BY <2>2, <2>3, <2>5
<1>3. MsWrap * NsPerMs \in Nat
  BY <1>1, Z3
<1>4. MsWrap * NsPerMs + e < Word
  BY WordAssumption
<1>5. e \in Nat
  <2>1. MaxPosition * NsPerS \in Nat
    BY <1>1, Z3
  <2> QED
    BY <1>1, <2>1, DivMod
<1> HIDE DEF e
<1>6. MaxPosition < Word
  BY <1>1, <1>2, <1>3, <1>4, <1>5
<1> QED
  BY <1>1, <1>6, ClockAssumption

\* A latched start is a count of nanoseconds below the wrap of timeGetTime.
LEMMA StartRange ==
  ASSUME NEW at \in Nat
  PROVE  StartOf(at) \in 0..(MsWrap * NsPerMs)
<1>1. MsWrap \in Nat \ {0} /\ NsPerMs \in Nat
  BY Constants
<1>2. at % MsWrap \in 0..(MsWrap - 1)
  BY <1>1, DivMod
<1>3. (at % MsWrap) * NsPerMs <= MsWrap * NsPerMs
  BY <1>1, <1>2, TimesMonotone
<1>4. (at % MsWrap) * NsPerMs \in Nat /\ MsWrap * NsPerMs \in Nat
  BY <1>1, <1>2, Z3
<1> QED
  BY <1>3, <1>4 DEF StartOf

\* Any position of a run counted from any start has an exact time stamp.
LEMMA AnswerExact ==
  ASSUME NEW at \in Nat, NEW pos \in 0..MaxPosition
  PROVE  /\ Timestamp(Rate, StartOf(at), pos) = ExactTime(StartOf(at), pos)
         /\ ExactTime(StartOf(at), pos) \in Nat
<1> DEFINE last == MsWrap * NsPerMs
           s == StartOf(at)
<1>1. MaxPosition \in Nat /\ last \in Nat /\ Word \in Nat
  <2>1. MsWrap \in Nat /\ NsPerMs \in Nat
    BY Constants
  <2> QED
    BY <2>1, Constants, Z3
<1>2. s \in 0..last
  BY StartRange
<1>3. ExactTime(last, MaxPosition) < Word
  BY WordAssumption DEF ExactTime
<1> HIDE DEF last, s
<1>4. s \in Nat /\ s <= last /\ pos \in Nat /\ pos <= MaxPosition
  BY <1>1, <1>2
<1>5. ExactTime(s, pos) <= ExactTime(last, MaxPosition) /\ ExactTime(s, pos) \in Nat
  BY <1>1, <1>4, ExactTimeMonotone
<1>6. ExactTime(last, MaxPosition) \in Nat
  BY <1>1, ExactTimeMonotone
<1>7. ExactTime(s, pos) < Word
  BY <1>1, <1>3, <1>5, <1>6
<1>8. Timestamp(Rate, s, pos) = ExactTime(s, pos)
  BY <1>4, <1>7, ConversionIsExact
<1> QED
  BY <1>5, <1>8 DEF s

LEMMA AnswerSound ==
  ASSUME NEW at \in Nat, at <= now, NEW pos \in 0..MaxPosition,
         sample_rate = Rate
  PROVE  /\ Sound(Answer(pos, StartOf(at), at))
         /\ Exact(Answer(pos, StartOf(at), at))
<1> DEFINE t == Timestamp(Rate, StartOf(at), pos)
<1>1. t \in Nat /\ t = ExactTime(StartOf(at), pos)
  BY AnswerExact
<1>2. StartOf(at) \in Nat
  BY StartRange
<1>3. Answer(pos, StartOf(at), at) =
        [position |-> pos, start |-> StartOf(at), latched |-> at, timestamp |-> t]
  BY DEF Answer
<1> HIDE DEF t
<1>4. pos \in Nat /\ pos <= MaxPosition
  BY Constants
<1> QED
  BY <1>1, <1>2, <1>3, <1>4 DEF Sound, Pair, Exact, Answers

LEMMA NoAnswerSound ==
  ASSUME now \in Nat
  PROVE  Sound(NoAnswer) /\ Exact(NoAnswer)
<1>1. MsWrap \in Nat \ {0} /\ NsPerMs \in Nat /\ Rate \in Nat \ {0} /\ NsPerS \in Nat
        /\ MaxPosition \in Nat
  BY Constants
<1>2. 0 % MsWrap = 0
  BY <1>1, ModBelow
<1>3. StartOf(0) = 0
  BY <1>1, <1>2 DEF StartOf
<1>4. ExactTime(0, 0) = 0
  <2>1. (0 * Rate + 0) \div Rate = 0
    BY <1>1, DivUnique
  <2> QED
    BY <1>1, <2>1 DEF ExactTime
<1> QED
  BY <1>1, <1>3, <1>4 DEF Sound, Pair, Exact, Answers, NoAnswer

\* Two exact answers whose parts are in order are in order.
LEMMA InOrder ==
  ASSUME NEW a, NEW b, Pair(a), Pair(b), Exact(a), Exact(b),
         a.position <= b.position, a.latched <= b.latched
  PROVE  NotBefore(a, b)
<1>1. /\ a.position \in Nat /\ a.start \in Nat /\ a.latched \in Nat
      /\ b.position \in Nat /\ b.start \in Nat /\ b.latched \in Nat
      /\ a.start = StartOf(a.latched) /\ b.start = StartOf(b.latched)
  BY DEF Pair, Answers
<1>2. a.timestamp = ExactTime(a.start, a.position)
        /\ b.timestamp = ExactTime(b.start, b.position)
  BY DEF Exact
<1>3. ASSUME a.latched \div MsWrap = b.latched \div MsWrap
      PROVE  a.timestamp <= b.timestamp
  <2> DEFINE w == MsWrap
             k == a.latched \div w
             x == a.latched % w
             y == b.latched % w
  <2>1. w \in Nat \ {0} /\ NsPerMs \in Nat
    BY Constants
  <2>2. /\ k \in Nat /\ x \in 0..(w - 1) /\ a.latched = k * w + x
        /\ y \in 0..(w - 1) /\ b.latched = k * w + y
    BY <1>1, <1>3, <2>1, DivMod
  <2>3. a.start = x * NsPerMs /\ b.start = y * NsPerMs
    BY <1>1 DEF StartOf
  <2> HIDE DEF w, k, x, y
  <2>4. k * w \in Nat
    BY <2>1, <2>2, Z3
  <2>5. x <= y
    BY <2>1, <2>2, <2>4
  <2>6. x * NsPerMs <= y * NsPerMs
    BY <2>1, <2>2, <2>5, TimesMonotone
  <2>7. a.start <= b.start
    BY <2>3, <2>6
  <2>8. ExactTime(a.start, a.position) <= ExactTime(b.start, b.position)
    BY <1>1, <2>7, ExactTimeMonotone
  <2> QED
    BY <1>2, <2>8
<1>4. ASSUME a.position < b.position, a.start = b.start
      PROVE  a.timestamp < b.timestamp
  BY <1>1, <1>2, <1>4, ExactTimeMonotone
<1> QED
  BY <1>3, <1>4 DEF NotBefore

----------------------------------------------------------------------------
(* The invariant is inductive.                                              *)

LEMMA Initially == Init => IInv
<1> SUFFICES ASSUME Init PROVE IInv
  OBVIOUS
<1>1. Sound(NoAnswer) /\ Exact(NoAnswer)
  BY NoAnswerSound DEF Init
<1>2. StartOf(0) = 0
  BY <1>1 DEF Sound, Pair, NoAnswer
<1>3. ClockInv
  BY <1>2, Constants DEF Init, ClockInv
<1>4. Records
  BY <1>1 DEF Init, Records
<1>5. Threads
  BY DEF Init, Threads, Called, Calling, Asking
<1>6. Ordered
  BY DEF Init, Ordered, Asking, Called, Calling
<1> QED
  BY <1>3, <1>4, <1>5, <1>6 DEF IInv

\* What a step does to the clock and to the answers on record.
LEMMA StepKeepsRecords ==
  ASSUME IInv, [Next]_vars
  PROVE  ClockInv' /\ Records'
<1> USE DEF IInv
<1>1. Sound(NoAnswer) /\ Exact(NoAnswer) /\ StartOf(0) = 0
  <2>1. Sound(NoAnswer) /\ Exact(NoAnswer)
    BY NoAnswerSound DEF ClockInv
  <2> QED
    BY <2>1 DEF Sound, Pair, NoAnswer
<1>2. ASSUME now' = now, UNCHANGED queryVars PROVE Records'
  BY <1>2 DEF Records, Sound, Pair, Exact, queryVars
<1>3. ASSUME UNCHANGED <<now, clockVars>> PROVE ClockInv'
  BY <1>3 DEF ClockInv, clockVars
<1>4. CASE Tick
  <2>1. ClockInv'
    BY <1>4, Constants DEF Tick, ClockInv, clockVars
  <2>2. ASSUME NEW r, Sound(r) PROVE r.latched <= now'
    BY <1>4, <2>2 DEF Tick, Sound, Pair, Answers, ClockInv
  <2>3. Records'
    BY <1>4, <2>2 DEF Tick, Records, Sound, Pair, Exact, queryVars
  <2> QED
    BY <2>1, <2>3
<1>5. CASE SetSampleRate \/ Start \/ Spawn \/ Started \/ RequestStop
  BY <1>2, <1>3, <1>5
    DEF SetSampleRate, Start, Spawn, Started, RequestStop, queryVars, clockVars
<1>6. CASE Join
  BY <1>1, <1>3, <1>6 DEF Join, Records, Sound, Pair, Exact
<1>7. CASE Ask
  BY <1>3, <1>7 DEF Ask, Records, Sound, Pair, Exact
<1>8. CASE LoadPosition
  <2>1. Sound(query)'
    BY <1>8, Constants DEF LoadPosition, Records, Sound, Pair, Answers, ClockInv
  <2> QED
    BY <1>3, <1>8, <2>1 DEF LoadPosition, Records, Sound, Pair, Exact
<1>9. CASE LoadStart
  <2>1. Sound(query)'
    <3>1. latched \in Nat /\ StartOf(latched) \in Nat /\ latched <= now
      BY StartRange DEF ClockInv
    <3> QED
      BY <1>9, <3>1 DEF LoadStart, Records, Sound, Pair, Answers, ClockInv
  <2> QED
    BY <1>3, <1>9, <2>1 DEF LoadStart, Records, Sound, Pair, Exact
<1>10. CASE Reply
  <2>1. Sound(Answer(query.position, query.start, query.latched))
          /\ Exact(Answer(query.position, query.start, query.latched))
    <3>1. /\ query.latched \in Nat /\ query.latched <= now
          /\ query.position \in 0..MaxPosition
          /\ query.start = StartOf(query.latched)
      BY Constants DEF Records, Sound, Pair, Answers
    <3> QED
      BY <3>1, AnswerSound DEF Threads
  <2>2. Sound(answered') /\ Exact(answered')
    BY <1>10, <2>1 DEF Reply, Records
  <2>3. Sound(query') /\ Sound(floor') /\ Exact(floor')
    BY <1>1, <1>10 DEF Reply
  <2> QED
    BY <1>3, <1>10, <2>2, <2>3 DEF Reply, Records, Sound, Pair, Exact
<1>11. CASE Begin
  BY <1>2, <1>11, Constants DEF Begin, ClockInv
<1>12. CASE Launch \/ Switched \/ Overload \/ Exit
  BY <1>2, <1>3, <1>12 DEF Launch, Switched, Overload, Exit
<1>13. CASE LatchStart
  BY <1>2, <1>13 DEF LatchStart, Latch, ClockInv, StartOf
<1>14. ASSUME NEW n \in Nat, Advance(n)
       PROVE  sample_position' \in 0..MaxPosition
  <2>1. sample_position + n \in Nat /\ sample_position + n <= MaxPosition
    BY <1>14, Constants DEF Advance, ClockInv
  <2>2. sample_position' = sample_position + n
    <3>1. Word \in Nat /\ sample_position + n < Word
      BY <2>1, Constants
    <3>2. (sample_position + n) % Word = sample_position + n
      BY <2>1, <3>1, ModBelow
    <3> QED
      BY <1>14, <3>2 DEF Advance
  <2> QED
    BY <2>1, <2>2, Constants
<1>15. CASE Switch
  BY <1>2, <1>14, <1>15, Constants DEF Switch, ClockInv
<1>16. CASE Recovered
  BY <1>2, <1>14, <1>16, Constants DEF Recovered, ClockInv
<1>17. CASE AskInCallback
  <2>1. Sound(answered') /\ Exact(answered')
    <3>1. latched \in Nat /\ latched <= now /\ sample_position \in 0..MaxPosition
            /\ stream_start_timestamp_ns = StartOf(latched)
      BY DEF ClockInv
    <3> QED
      BY <1>17, <3>1, AnswerSound DEF AskInCallback, Threads
  <2> QED
    BY <1>3, <1>17, <2>1 DEF AskInCallback, Records, Sound, Pair, Exact
<1>18. CASE UNCHANGED vars
  BY <1>2, <1>3, <1>18 DEF vars
<1> QED
  BY <1>4, <1>5, <1>6, <1>7, <1>8, <1>9, <1>10, <1>11, <1>12, <1>13, <1>15,
     <1>16, <1>17, <1>18 DEF Next, Host, Audio

\* What a step does to the two threads.
LEMMA StepKeepsThreads ==
  ASSUME IInv, [Next]_vars
  PROVE  Threads'
<1> USE DEF IInv, Threads, Asking, Called, Calling
<1>1. CASE Tick
  BY <1>1 DEF Tick, hostVars, queryVars
<1>2. CASE SetSampleRate \/ Start \/ Spawn \/ Started \/ RequestStop
  <2>1. CASE SetSampleRate
    BY <1>2, <2>1 DEF SetSampleRate, queryVars
  <2>2. CASE Start
    BY <1>2, <2>2 DEF Start, queryVars
  <2>3. CASE Spawn
    BY <1>2, <2>3 DEF Spawn, queryVars
  <2>4. CASE Started
    BY <1>2, <2>4 DEF Started, queryVars
  <2>5. CASE RequestStop
    BY <1>2, <2>5 DEF RequestStop, queryVars
  <2> QED
    BY <1>2, <2>1, <2>2, <2>3, <2>4, <2>5
<1>3. CASE Join
  BY <1>3 DEF Join
<1>4. CASE Ask
  BY <1>4 DEF Ask
<1>5. CASE LoadPosition \/ LoadStart
  BY <1>5 DEF LoadPosition, LoadStart
<1>6. CASE Reply
  BY <1>6 DEF Reply
<1>7. CASE Audio
  BY <1>7 DEF Audio, Begin, Launch, LatchStart, Switch, Switched, Overload,
       Recovered, Exit, AskInCallback, hostVars, queryVars
<1>8. CASE UNCHANGED vars
  BY <1>8 DEF vars, hostVars, queryVars
<1> QED
  BY <1>1, <1>2, <1>3, <1>4, <1>5, <1>6, <1>7, <1>8 DEF Next, Host

\* What a step does to the order of the answers.
LEMMA StepKeepsOrder ==
  ASSUME IInv, [Next]_vars
  PROVE  Ordered'
<1> USE DEF IInv
<1>1. /\ sample_position \in Nat /\ latched \in Nat
      /\ \A r \in {query, floor, answered} : r.position \in Nat /\ r.latched \in Nat
      /\ NoAnswer.position = 0 /\ NoAnswer.latched = 0
  BY Constants DEF ClockInv, Records, Sound, Pair, Answers, NoAnswer
<1>2. ASSUME UNCHANGED <<clockVars, queryVars, apc>>,
             hpc' = hpc \/ hpc \notin Asking
      PROVE  Ordered'
  BY <1>2 DEF Ordered, Past, Threads, clockVars, queryVars
<1>3. CASE Tick
  BY <1>2, <1>3 DEF Tick, hostVars
<1>4. CASE SetSampleRate \/ Start \/ Started \/ RequestStop
  BY <1>2, <1>4 DEF SetSampleRate, Start, Started, RequestStop, Asking
<1>5. CASE Spawn
  BY <1>5 DEF Spawn, Ordered, Threads, Asking, Called, Calling, queryVars
<1>6. CASE Join
  BY <1>6 DEF Join, Ordered, Threads, Asking, Called, Calling
<1>7. CASE Ask
  <2>1. query = NoAnswer
    BY <1>7 DEF Ask, Ordered, Asking
  <2>2. Past(query)
    BY <1>1, <2>1 DEF Past
  <2>3. relies' => apc \in Called
    BY <1>7 DEF Ask
  <2>4. UNCHANGED <<query, answered, apc, sample_position, latched>>
          /\ floor' = answered /\ hpc' = "asking"
    BY <1>7 DEF Ask, clockVars
  <2> QED
    BY <2>2, <2>3, <2>4 DEF Ordered, Past, Asking
<1>8. CASE LoadPosition
  BY <1>1, <1>8
     DEF LoadPosition, Ordered, Past, Asking, clockVars, Records, Sound, Pair, Answers
<1>9. CASE LoadStart
  BY <1>1, <1>9
     DEF LoadStart, Ordered, Past, Asking, clockVars, Records, Sound, Pair, Answers
<1>10. CASE Reply
  BY <1>10 DEF Reply, Ordered, Past, Threads, Answer, Called, Calling, clockVars
<1>11. ASSUME UNCHANGED <<hpc, queryVars>>,
              apc \in Called, apc' \in Called,
              sample_position <= sample_position', latched <= latched',
              sample_position' \in Nat, latched' \in Nat
       PROVE  Ordered'
  BY <1>1, <1>11 DEF Ordered, Past, queryVars, Called, Calling
<1>12. CASE Begin
  BY <1>1, <1>12 DEF Begin, Ordered, Past, Threads, Called, Calling, hostVars,
     queryVars
<1>13. CASE Launch \/ Switched \/ Overload \/ Exit
  BY <1>1, <1>11, <1>13
     DEF Launch, Switched, Overload, Exit, clockVars, hostVars, Called, Calling
<1>14. CASE LatchStart
  BY <1>1, <1>11, <1>14 DEF LatchStart, Latch, hostVars, Called, Calling, ClockInv
<1>15. ASSUME NEW n \in Nat, Advance(n)
       PROVE  sample_position <= sample_position' /\ sample_position' \in Nat
  <2>1. sample_position + n \in Nat /\ sample_position + n < Word /\ Word \in Nat
    BY <1>1, <1>15, Constants DEF Advance
  <2>2. sample_position' = sample_position + n
    <3>1. (sample_position + n) % Word = sample_position + n
      BY <2>1, ModBelow
    <3> QED
      BY <1>15, <3>1 DEF Advance
  <2> QED
    BY <1>1, <2>1, <2>2
<1>16. CASE Switch
  BY <1>1, <1>11, <1>15, <1>16, Constants DEF Switch, hostVars, Called, Calling
<1>17. CASE Recovered
  BY <1>1, <1>11, <1>15, <1>17, Constants DEF Recovered, hostVars, Called, Calling
<1>18. CASE AskInCallback
  BY <1>1, <1>18 DEF AskInCallback, Ordered, Past, Answer, hostVars, clockVars,
     Called, Calling
<1>19. CASE UNCHANGED vars
  BY <1>2, <1>19 DEF vars, hostVars
<1> QED
  BY <1>3, <1>4, <1>5, <1>6, <1>7, <1>8, <1>9, <1>10, <1>12, <1>13, <1>14,
     <1>16, <1>17, <1>18, <1>19 DEF Next, Host, Audio

----------------------------------------------------------------------------
(* Theorems.                                                                *)

LEMMA Step == IInv /\ [Next]_vars => IInv'
BY StepKeepsRecords, StepKeepsThreads, StepKeepsOrder DEF IInv

THEOREM ClockInductive == Spec => []IInv
BY Initially, Step, PTL DEF Spec

\* Types; above all, the rate that divides the position is the one the hardware
\* runs at, whatever a host has asked setSampleRate for.
THEOREM ClockTypes == Spec => []TypeOK
<1>1. ASSUME IInv PROVE TypeOK
  <2>1. latched \in Nat
    BY <1>1, Constants DEF IInv, ClockInv
  <2>2. stream_start_timestamp_ns \in 0..(MsWrap * NsPerMs)
    BY <1>1, <2>1, StartRange DEF IInv, ClockInv
  <2>3. {query, floor, answered} \subseteq Answers
    BY <1>1 DEF IInv, Records, Sound, Pair
  <2> QED
    BY <1>1, <2>2, <2>3 DEF IInv, ClockInv, Threads, Asking, TypeOK
<1> QED
  BY <1>1, ClockInductive, PTL

\* A host that asks inside any callback, the first included, is answered.
THEOREM CallbacksAreAnswered == Spec => []CallbackAnswered
<1>1. IInv => CallbackAnswered
  BY DEF IInv, Threads, CallbackAnswered, Called, Calling
<1> QED
  BY <1>1, ClockInductive, PTL

\* Every time stamp is the exact time of its position, though the word is
\* only as large as ClockAssumption and WordAssumption say.
THEOREM TimestampsAreExact == Spec => []TimestampExact
<1>1. IInv => TimestampExact
  BY DEF IInv, Records, Exact, TimestampExact
<1> QED
  BY <1>1, ClockInductive, PTL

\* From the first callback of a run on no answer goes back: neither position,
\* nor start, nor, within one wrap of timeGetTime, time stamp.
THEOREM ClockNeverGoesBack == Spec => AnswersAdvance
<1> DEFINE A ==
      /\ hpc = "answering" /\ relies /\ hpc' = "idle" => NotBefore(floor, answered')
      /\ answered' # answered /\ hpc' = hpc => NotBefore(answered, answered')
<1>1. IInv /\ IInv' /\ [Next]_vars => [A]_vars
  <2> SUFFICES ASSUME IInv, IInv', Next PROVE A
    BY DEF vars, A
  <2>1. Pair(floor) /\ Exact(floor) /\ Pair(answered) /\ Exact(answered)
    BY DEF IInv, Records, Sound
  <2>2. Pair(answered') /\ Exact(answered')
    BY DEF IInv, Records, Sound, Pair, Exact
  <2>3. ASSUME hpc = "answering", relies, hpc' = "idle"
        PROVE  NotBefore(floor, answered')
    <3>1. Reply
      BY <2>3 DEF Next, Host, Audio, Tick, SetSampleRate, Start, Spawn, Started,
         RequestStop, Join, Ask, LoadPosition, LoadStart, Begin, Launch,
         LatchStart, Switch, Switched, Overload, Recovered, Exit,
         AskInCallback, hostVars
    <3>2. answered'.position = query.position /\ answered'.latched = query.latched
      BY <2>3, <3>1 DEF Reply, Answer
    <3>3. floor.position <= query.position /\ floor.latched <= query.latched
      BY <2>3 DEF IInv, Ordered
    <3> QED
      BY <2>1, <2>2, <3>2, <3>3, InOrder
  <2>4. ASSUME answered' # answered, hpc' = hpc
        PROVE  NotBefore(answered, answered')
    <3>1. AskInCallback
      BY <2>4 DEF Next, Host, Audio, Tick, SetSampleRate, Start, Spawn, Started,
         RequestStop, Join, Ask, LoadPosition, LoadStart, Reply, Begin, Launch,
         LatchStart, Switch, Switched, Overload, Recovered, Exit, queryVars
    <3>2. answered'.position = sample_position /\ answered'.latched = latched
      BY <3>1 DEF AskInCallback, Answer
    <3>3. answered.position <= sample_position /\ answered.latched <= latched
      BY <3>1 DEF AskInCallback, IInv, Ordered, Past, Called
    <3> QED
      BY <2>1, <2>2, <3>2, <3>3, InOrder
  <2> QED
    BY <2>3, <2>4
<1>2. Spec => [][A]_vars
  BY <1>1, ClockInductive, PTL DEF Spec
<1> QED
  BY <1>2 DEF AnswersAdvance

============================================================================
