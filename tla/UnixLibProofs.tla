--------------------------- MODULE UnixLibProofs ---------------------------
(***************************************************************************)
(* For any processes, objects and cards: the reservation leaks no name and *)
(* implements CardLease; the library uses it as Reservation allows; one    *)
(* object holds the backend; and among processes of this code a card whose *)
(* PCM is open is never granted to another one.                            *)
(***************************************************************************)
EXTENDS UnixLib, SequenceTheorems, TLAPS

----------------------------------------------------------------------------
(* The reservation by itself: Reservation.tla, which UnixLib extends.       *)

\* The part of TypeOK the proofs below use.
Shapes ==
  /\ owner \in [Cards -> Processes \cup {NoOwner}]
  /\ pc \in [Apps -> Steps]
  /\ reservations \in [Apps -> SUBSET Cards]
  /\ answer \in [Apps -> {"none", "yes", "no"}]
  /\ cards \in [Apps -> Seq(Cards)]
  /\ \A a \in Apps : pc[a] \in Acquisition => cards[a] # <<>>

\* A process owns a name only under a reservation, and holds none when idle.
Accounted ==
  /\ \A a \in Apps, c \in Cards : owner[c] = a => c \in reservations[a]
  /\ \A a \in Apps : pc[a] = "idle" => reservations[a] = {}

\* Without peers nobody is ever told yes.
Refused == \A a \in Apps : answer[a] # "yes" /\ pc[a] # "taking"

----------------------------------------------------------------------------
\* What a request lists are cards.
LEMMA RequestsAreCards == Requests \subseteq Seq(Cards)
<1>1. ASSUME NEW s \in Cards \X Cards PROVE s \in Seq(Cards)
  <2>1. s = <<s[1], s[2]>> /\ s[1] \in Cards /\ s[2] \in Cards
    OBVIOUS
  <2>2. \A c \in Cards, d \in Cards : <<c, d>> \in Seq(Cards)
    OBVIOUS
  <2> QED
    BY <2>1, <2>2, Zenon
<1>2. \A c \in Cards : <<c>> \in Seq(Cards)
  OBVIOUS
<1>3. <<>> \in Seq(Cards)
  OBVIOUS
<1> QED
  BY <1>1, <1>2, <1>3 DEF Requests

\* Success with the current card, which the process owns from here on.
LEMMA OwnKeeps ==
  ASSUME Shapes, NEW a \in Apps, pc[a] \in Acquisition,
         Own(a, Head(cards[a])), Acquired(a)
  PROVE  /\ Shapes'
         /\ Accounted => Accounted'
         /\ /\ HeldMeansOwned
            /\ \A b \in Apps : Head(cards[a]) \notin reservations[b]
            => HeldMeansOwned'
         /\ Refused => Refused'
<1> DEFINE c == Head(cards[a])
<1>1. /\ c \in Cards /\ Tail(cards[a]) \in Seq(Cards)
      /\ Len(cards[a]) # 1 => Tail(cards[a]) # <<>>
  <2>1. cards[a] \in Seq(Cards) /\ cards[a] # <<>>
    BY DEF Shapes
  <2>2. /\ c \in Cards /\ Tail(cards[a]) \in Seq(Cards)
        /\ Len(cards[a]) \in Nat \ {0}
        /\ Len(Tail(cards[a])) = Len(cards[a]) - 1
    BY <2>1, HeadTailProperties, EmptySeq, LenProperties
  <2>3. Len(cards[a]) # 1 => Len(Tail(cards[a])) # 0
    BY <2>2
  <2> QED
    BY <2>2, <2>3, EmptySeq
<1>2. /\ owner' = [owner EXCEPT ![c] = a]
      /\ reservations' = [reservations EXCEPT ![a] = @ \cup {c}]
      /\ cards' = [cards EXCEPT ![a] = Tail(@)]
      /\ answer' = [answer EXCEPT ![a] = "none"]
      /\ pc' = [pc EXCEPT ![a] =
                  IF Len(cards[a]) = 1 THEN "serving" ELSE "requesting"]
  BY DEF Own, Acquired
<1>3. Shapes'
  <2>1. owner' \in [Cards -> Processes \cup {NoOwner}]
    BY <1>1, <1>2 DEF Shapes, Processes
  <2>2. reservations' \in [Apps -> SUBSET Cards]
    BY <1>1, <1>2 DEF Shapes
  <2>3. cards' \in [Apps -> Seq(Cards)]
    BY <1>1, <1>2 DEF Shapes
  <2>4. pc' \in [Apps -> Steps] /\ answer' \in [Apps -> {"none", "yes", "no"}]
    BY <1>2 DEF Shapes, Steps, Acquisition
  <2>5. \A b \in Apps : pc'[b] \in Acquisition => cards'[b] # <<>>
    BY <1>1, <1>2 DEF Shapes, Acquisition
  <2> QED
    BY <2>1, <2>2, <2>3, <2>4, <2>5 DEF Shapes
<1>4. Accounted => Accounted'
  BY <1>1, <1>2 DEF Shapes, Accounted
<1>5. /\ HeldMeansOwned
      /\ \A b \in Apps : c \notin reservations[b]
      => HeldMeansOwned'
  BY <1>1, <1>2 DEF Shapes, HeldMeansOwned
<1>6. Refused => Refused'
  BY <1>2 DEF Shapes, Refused
<1> QED
  BY <1>3, <1>4, <1>5, <1>6

\* Failure and release give back what is still owned and touch nothing else.
LEMMA FailKeeps ==
  ASSUME Shapes, NEW a \in Apps, Fail(a)
  PROVE  /\ Shapes'
         /\ Accounted => Accounted'
         /\ HeldMeansOwned => HeldMeansOwned'
         /\ Refused => Refused'
<1>1. /\ owner' = [c \in Cards |->
                     IF c \in reservations[a] /\ owner[c] = a
                     THEN NoOwner ELSE owner[c]]
      /\ reservations' = [reservations EXCEPT ![a] = {}]
      /\ cards' = [cards EXCEPT ![a] = <<>>]
      /\ pc' = [pc EXCEPT ![a] = "idle"]
      /\ HangUp(a)
  BY DEF Fail, Cleanup
<1>2. /\ answer' \in [Apps -> {"none", "yes", "no"}]
      /\ Refused => \A b \in Apps : answer'[b] # "yes"
  BY <1>1 DEF HangUp, Shapes, Refused
<1>3. Shapes'
  <2>1. <<>> \in Seq(Cards)
    OBVIOUS
  <2> QED
    BY <1>1, <1>2, <2>1 DEF Shapes, Steps, Acquisition
<1>4. Accounted => Accounted'
  BY <1>1, ProcessAssumption DEF Shapes, Accounted
<1>5. HeldMeansOwned => HeldMeansOwned'
  BY <1>1 DEF Shapes, HeldMeansOwned
<1>6. Refused => Refused'
  BY <1>1, <1>2 DEF Shapes, Refused
<1> QED
  BY <1>3, <1>4, <1>5, <1>6

\* Steps of request_acquire that neither take nor give back a name.
LEMMA BetweenKeeps ==
  ASSUME Shapes, NEW a \in Apps, UNCHANGED <<owner, reservations, answer>>,
         pc' \in [Apps -> Steps], cards' \in [Apps -> Seq(Cards)],
         \A b \in Apps : pc'[b] \in Acquisition => cards'[b] # <<>>,
         \A b \in Apps : pc'[b] = "idle" => pc[b] = "idle",
         \A b \in Apps : pc'[b] = "taking" =>
            pc[b] = "taking" \/ answer[b] = "yes"
  PROVE  /\ Shapes'
         /\ Accounted => Accounted'
         /\ HeldMeansOwned => HeldMeansOwned'
         /\ Refused => Refused'
  BY DEF Shapes, Accounted, HeldMeansOwned, Refused

\* What peers do to the bus.
LEMMA PeerKeeps ==
  ASSUME Shapes, PeerNext
  PROVE  /\ Shapes'
         /\ Accounted => Accounted'
<1>1. PICK p \in Peers :
        \/ \E c \in Cards : PeerTake(p, c) \/ PeerLeave(p, c)
        \/ \E a \in Apps : PeerAnswer(p, a)
  BY DEF PeerNext
<1>2. CASE \E c \in Cards : PeerTake(p, c) \/ PeerLeave(p, c)
  <2>1. PICK c \in Cards, q \in {p, NoOwner} :
          owner' = [owner EXCEPT ![c] = q]
    BY <1>2 DEF PeerTake, PeerLeave
  <2>2. UNCHANGED <<pc, cards, reservations, answer>>
    BY <1>2 DEF PeerTake, PeerLeave
  <2>3. q \in Processes \cup {NoOwner} /\ q \notin Apps
    BY ProcessAssumption DEF Processes
  <2> QED
    BY <2>1, <2>2, <2>3 DEF Shapes, Accounted
<1>3. CASE \E a \in Apps : PeerAnswer(p, a)
  BY <1>3 DEF PeerAnswer, busVars, Shapes, Accounted
<1> QED
  BY <1>1, <1>2, <1>3

\* One lemma for every step: what it keeps with peers, and what without.
LEMMA NextKeeps ==
  ASSUME Shapes, [Next]_vars
  PROVE  /\ Shapes'
         /\ Accounted => Accounted'
         /\ Peers = {} /\ Refused /\ HeldMeansOwned =>
              Refused' /\ HeldMeansOwned'
<1> DEFINE Keeps ==
      /\ Shapes'
      /\ Accounted => Accounted'
      /\ Peers = {} /\ Refused /\ HeldMeansOwned =>
           Refused' /\ HeldMeansOwned'
<1>1. ASSUME NEW a \in Apps, RequestAcquire(a) PROVE Keeps
  <2>1. PICK wanted \in Requests :
          /\ cards' = [cards EXCEPT ![a] = wanted]
          /\ pc' = [pc EXCEPT ![a] =
                      IF wanted = <<>> THEN "serving" ELSE "requesting"]
    BY <1>1 DEF RequestAcquire
  <2>2. wanted \in Seq(Cards)
    BY RequestsAreCards
  <2>3. UNCHANGED <<owner, reservations, answer>>
    BY <1>1 DEF RequestAcquire, busVars
  <2>4. pc' \in [Apps -> Steps] /\ cards' \in [Apps -> Seq(Cards)]
    BY <2>1, <2>2 DEF Shapes, Steps, Acquisition
  <2>5. /\ \A b \in Apps : pc'[b] \in Acquisition => cards'[b] # <<>>
        /\ \A b \in Apps : pc'[b] = "idle" => pc[b] = "idle"
        /\ \A b \in Apps : pc'[b] = "taking" => pc[b] = "taking"
    BY <2>1 DEF Shapes, Acquisition
  <2> QED
    BY <2>3, <2>4, <2>5, BetweenKeeps
<1>2. ASSUME NEW a \in Apps, RequestName(a) PROVE Keeps
  <2>1. pc[a] \in Acquisition
    BY <1>2 DEF RequestName, Acquisition
  <2>2. CASE Fail(a)
    BY <2>2, FailKeeps
  <2>3. CASE /\ owner[Head(cards[a])] = NoOwner
             /\ Own(a, Head(cards[a])) /\ Acquired(a)
    <3>1. HeldMeansOwned =>
            \A b \in Apps : Head(cards[a]) \notin reservations[b]
      BY <2>3, ProcessAssumption DEF HeldMeansOwned
    <3> QED
      BY <2>1, <2>3, <3>1, OwnKeeps
  <2>4. CASE /\ pc' = [pc EXCEPT ![a] = "busy"]
             /\ UNCHANGED <<busVars, cards, reservations, asked, answer>>
    <3>1. /\ pc' = [pc EXCEPT ![a] = "busy"]
          /\ UNCHANGED <<owner, cards, reservations, answer>>
      BY <2>4 DEF busVars
    <3>2. pc' \in [Apps -> Steps] /\ cards' \in [Apps -> Seq(Cards)]
      BY <3>1 DEF Shapes, Steps, Acquisition
    <3>3. /\ \A b \in Apps : pc'[b] \in Acquisition => cards'[b] # <<>>
          /\ \A b \in Apps : pc'[b] = "idle" => pc[b] = "idle"
          /\ \A b \in Apps : pc'[b] = "taking" => pc[b] = "taking"
      BY <2>1, <3>1 DEF Shapes
    <3> QED
      BY <3>1, <3>2, <3>3, BetweenKeeps
  <2> QED
    BY <1>2, <2>2, <2>3, <2>4 DEF RequestName
<1>3. ASSUME NEW a \in Apps, CallRequestRelease(a) PROVE Keeps
  <2>1. CASE Fail(a)
    BY <2>1, FailKeeps
  <2>2. CASE ~Fail(a)
    <3>1. /\ pc' = [pc EXCEPT ![a] = "waiting"] /\ pc[a] = "busy"
          /\ UNCHANGED <<owner, cards, reservations, answer>>
      BY <1>3, <2>2 DEF CallRequestRelease, busVars
    <3>2. pc' \in [Apps -> Steps] /\ cards' \in [Apps -> Seq(Cards)]
      BY <3>1 DEF Shapes, Steps, Acquisition
    <3>3. /\ \A b \in Apps : pc'[b] \in Acquisition => cards'[b] # <<>>
          /\ \A b \in Apps : pc'[b] = "idle" => pc[b] = "idle"
          /\ \A b \in Apps : pc'[b] = "taking" => pc[b] = "taking"
      BY <3>1 DEF Shapes, Acquisition
    <3> QED
      BY <3>1, <3>2, <3>3, BetweenKeeps
  <2> QED
    BY <2>1, <2>2
<1>4. ASSUME NEW a \in Apps, Answered(a) PROVE Keeps
  <2>1. CASE Fail(a)
    BY <2>1, FailKeeps
  <2>2. CASE ~Fail(a)
    <3>1. /\ pc' = [pc EXCEPT ![a] = "taking"]
          /\ pc[a] = "waiting" /\ answer[a] = "yes"
          /\ UNCHANGED <<owner, cards, reservations, answer>>
      BY <1>4, <2>2 DEF Answered, busVars
    <3>2. pc' \in [Apps -> Steps] /\ cards' \in [Apps -> Seq(Cards)]
      BY <3>1 DEF Shapes, Steps, Acquisition
    <3>3. /\ \A b \in Apps : pc'[b] \in Acquisition => cards'[b] # <<>>
          /\ \A b \in Apps : pc'[b] = "idle" => pc[b] = "idle"
          /\ \A b \in Apps : pc'[b] = "taking" =>
                pc[b] = "taking" \/ answer[b] = "yes"
      BY <3>1 DEF Shapes, Acquisition
    <3> QED
      BY <3>1, <3>2, <3>3, BetweenKeeps
  <2> QED
    BY <2>1, <2>2
<1>5. ASSUME NEW a \in Apps, CallFails(a) \/ Release(a) \/ Crash(a)
     PROVE Keeps
  BY <1>5, FailKeeps DEF CallFails, Release, Crash
<1>6. ASSUME NEW a \in Apps, TakeOver(a) PROVE Keeps
  <2>1. pc[a] \in Acquisition /\ ~Refused
    BY <1>6 DEF TakeOver, Acquisition, Refused
  <2>2. CASE Fail(a)
    BY <2>2, FailKeeps
  <2>3. CASE Own(a, Head(cards[a])) /\ Acquired(a)
    BY <2>1, <2>3, OwnKeeps
  <2> QED
    BY <1>6, <2>2, <2>3 DEF TakeOver
<1>7. ASSUME NEW a \in Apps, NEW b \in Apps, Serve(a, b) PROVE Keeps
  <2>1. /\ answer' = [answer EXCEPT ![b] = "no"]
        /\ UNCHANGED <<owner, pc, cards, reservations>>
    BY <1>7 DEF Serve, Accepts, ReservationPriority, busVars
  <2> QED
    BY <2>1 DEF Shapes, Accounted, HeldMeansOwned, Refused
<1>8. ASSUME PeerNext PROVE Keeps
  BY <1>8, PeerKeeps DEF PeerNext
<1>9. CASE UNCHANGED vars
  BY <1>9 DEF vars, Shapes, Accounted, HeldMeansOwned, Refused
<1> QED
  BY <1>1, <1>2, <1>3, <1>4, <1>5, <1>6, <1>7, <1>8, <1>9 DEF Next, Acquiring

\* Nothing is reserved at first.
LEMMA InitKeeps == Init => Shapes /\ Accounted /\ Refused /\ HeldMeansOwned
<1>1. <<>> \in Seq(Cards)
  OBVIOUS
<1> QED
  BY <1>1, ProcessAssumption
  DEF Init, Shapes, Accounted, Refused, HeldMeansOwned, Steps, Acquisition

----------------------------------------------------------------------------
\* However a request ends, an idle process owns no name: with any number of
\* processes, peers and cards.
THEOREM NothingLeaked == Spec => []NoNameLeaked
<1>1. Init => Shapes /\ Accounted
  BY InitKeeps
<1>2. Shapes /\ Accounted /\ [Next]_vars => (Shapes /\ Accounted)'
  BY NextKeeps
<1>3. Shapes /\ Accounted => NoNameLeaked
  BY DEF Shapes, Accounted, NoNameLeaked
<1> QED
  BY <1>1, <1>2, <1>3, PTL DEF Spec

\* Among processes of this code alone a reservation is not preempted: with
\* any number of processes and cards. With peers it can be.
THEOREM AppsKeepReservations ==
  ASSUME Peers = {} PROVE Spec => []HeldMeansOwned
<1>1. Init => Shapes /\ Refused /\ HeldMeansOwned
  BY InitKeeps
<1>2. Shapes /\ Refused /\ HeldMeansOwned /\ [Next]_vars =>
        (Shapes /\ Refused /\ HeldMeansOwned)'
  BY NextKeeps
<1> QED
  BY <1>1, <1>2, PTL DEF Spec

----------------------------------------------------------------------------
\* A step changes the phase and the reservations of one process at most, and
\* those of one that holds its cards only by ending that.
LEMMA OneProcessMoves ==
  ASSUME Shapes, [Next]_vars
  PROVE  \/ UNCHANGED <<pc, reservations>>
         \/ \E a \in Apps :
              /\ \A b \in Apps \ {a} : /\ pc'[b] = pc[b]
                                       /\ reservations'[b] = reservations[b]
              /\ pc[a] = "serving" => pc'[a] # "serving"
<1> DEFINE Moves(a) ==
      /\ \A b \in Apps \ {a} : /\ pc'[b] = pc[b]
                               /\ reservations'[b] = reservations[b]
      /\ pc[a] = "serving" => pc'[a] # "serving"
<1>1. ASSUME NEW a \in Apps, Fail(a) PROVE Moves(a)
  BY <1>1 DEF Fail, Cleanup, Shapes
<1>2. ASSUME NEW a \in Apps, Acquired(a), pc[a] # "serving" PROVE Moves(a)
  BY <1>2 DEF Acquired, Shapes
<1>3. ASSUME NEW a \in Apps, RequestAcquire(a) PROVE Moves(a)
  BY <1>3 DEF RequestAcquire, Shapes
<1>4. ASSUME NEW a \in Apps, Acquiring(a) PROVE Moves(a)
  <2>1. CASE Fail(a)
    BY <1>1, <2>1
  <2>2. CASE ~Fail(a)
    <3>1. /\ pc[a] # "serving"
          /\ \/ Acquired(a)
             \/ /\ UNCHANGED reservations
                /\ pc' \in {[pc EXCEPT ![a] = s] : s \in Acquisition}
      BY <1>4, <2>2
      DEF Acquiring, RequestName, CallRequestRelease, Answered, CallFails,
          TakeOver, Acquisition
    <3> QED
      BY <1>2, <3>1 DEF Shapes
  <2> QED
    BY <2>1, <2>2
<1>5. ASSUME NEW a \in Apps, Release(a) \/ Crash(a) PROVE Moves(a)
  BY <1>1, <1>5 DEF Release, Crash
<1>6. CASE (\E a \in Apps, b \in Apps : Serve(a, b)) \/ PeerNext
  BY <1>6 DEF Serve, PeerNext, PeerTake, PeerLeave, PeerAnswer
<1>7. CASE UNCHANGED vars
  BY <1>7 DEF vars
<1> QED
  BY <1>3, <1>4, <1>5, <1>6, <1>7 DEF Next

\* Reserving card by card over the bus implements taking all of them at
\* once, with any number of processes of this code and cards.
THEOREM ImplementsLease == ASSUME Peers = {} PROVE Spec => LeasesCards
<1> DEFINE H == [a \in Apps |->
                   IF pc[a] = "serving" THEN reservations[a] ELSE {}]
<1>1. Init => Lease!LeaseInit
  BY DEF Init, Lease!LeaseInit
<1>2. ASSUME Shapes, Refused, HeldMeansOwned, [Next]_vars
      PROVE  [Lease!LeaseNext]_H
  <2>1. Shapes' /\ HeldMeansOwned'
    BY <1>2, NextKeeps
  <2>2. CASE UNCHANGED <<pc, reservations>>
    BY <2>2
  <2>3. ASSUME NEW a \in Apps, pc[a] = "serving" => pc'[a] # "serving",
               \A b \in Apps \ {a} : /\ pc'[b] = pc[b]
                                     /\ reservations'[b] = reservations[b]
        PROVE  Lease!LeaseNext
    <3>1. H' = [H EXCEPT ![a] = H'[a]]
      BY <2>3
    <3>2. CASE pc'[a] # "serving"
      BY <3>1, <3>2 DEF Lease!LeaseNext, Lease!Drop
    <3>3. CASE pc'[a] = "serving" /\ pc[a] # "serving"
      <4>1. H[a] = {} /\ H'[a] = reservations'[a]
        BY <3>3
      <4>2. reservations'[a] \in SUBSET Cards
        BY <2>1 DEF Shapes
      <4>3. \A b \in Apps : H[b] \cap reservations'[a] = {}
        <5>1. ASSUME NEW b \in Apps \ {a}
              PROVE  H[b] \cap reservations'[a] = {}
          <6>1. H[b] \subseteq reservations'[b]
            BY <2>3, <5>1
          <6>2. \A c \in reservations'[b] : owner'[c] = b
            BY <2>1, <5>1 DEF HeldMeansOwned
          <6>3. \A c \in reservations'[a] : owner'[c] = a
            BY <2>1 DEF HeldMeansOwned
          <6> QED
            BY <5>1, <6>1, <6>2, <6>3
        <5> QED
          BY <4>1, <5>1
      <4>4. Lease!Take(a)
        BY <3>1, <4>1, <4>2, <4>3 DEF Lease!Take
      <4> QED
        BY <4>4 DEF Lease!LeaseNext
    <3> QED
      BY <2>3, <3>2, <3>3
  <2> QED
    BY <1>2, <2>2, <2>3, OneProcessMoves
<1>3. Init => Shapes /\ Refused /\ HeldMeansOwned
  BY InitKeeps
<1>4. Shapes /\ Refused /\ HeldMeansOwned /\ [Next]_vars =>
        (Shapes /\ Refused /\ HeldMeansOwned)'
  BY NextKeeps
<1> QED
  BY <1>1, <1>2, <1>3, <1>4, PTL DEF Spec, LeasesCards, Lease!LeaseSpec

----------------------------------------------------------------------------
(* Types, and the bus never being asked for a name its owner asks again.    *)

\* The bus and the calls under way, as TypeOK types them.
BusTypeOK ==
  /\ replaceable \in [Cards -> BOOLEAN]
  /\ asked \in [Apps -> Processes \cup {NoOwner}]

\* What is left of a request is a request, and of cards not reserved yet.
Unreserved ==
  \A a \in Apps :
    /\ cards[a] \in Requests
    /\ \A i \in DOMAIN cards[a] : cards[a][i] \notin reservations[a]

\* The rest of a request is one that does not name its first card again.
LEMMA RestOfRequest ==
  ASSUME NEW s \in Requests, s # <<>>
  PROVE  /\ Tail(s) \in Requests
         /\ Head(s) \in Cards
         /\ \A i \in DOMAIN Tail(s) :
              Tail(s)[i] # Head(s) /\ \E j \in DOMAIN s : Tail(s)[i] = s[j]
<1>1. CASE \E c \in Cards : s = <<c>>
  <2>1. PICK c \in Cards : s = <<c>>
    BY <1>1
  <2>2. Head(s) = c /\ Tail(s) = <<>>
    BY <2>1
  <2> QED
    BY <2>2 DEF Requests
<1>2. CASE s \in {t \in Cards \X Cards : t[1] # t[2]}
  <2>1. PICK c \in Cards, d \in Cards : s = <<c, d>> /\ c # d
    BY <1>2
  <2>2. Head(s) = c /\ Tail(s) = <<d>> /\ DOMAIN Tail(s) = {1} /\ Tail(s)[1] = d
    BY <2>1
  <2>3. 2 \in DOMAIN s /\ s[2] = d
    BY <2>1
  <2> QED
    BY <2>1, <2>2, <2>3 DEF Requests
<1> QED
  BY <1>1, <1>2 DEF Requests

\* A request has two cards at most.
LEMMA RequestLength == \A s \in Requests : s \in Seq(Cards) /\ Len(s) <= 2
<1>1. ASSUME NEW s \in Requests PROVE Len(s) <= 2
  <2>1. CASE s \in {t \in Cards \X Cards : t[1] # t[2]}
    <3>1. PICK c \in Cards, d \in Cards : s = <<c, d>>
      BY <2>1
    <3> QED
      BY <3>1
  <2>2. CASE \E c \in Cards : s = <<c>>
    <3>1. PICK c \in Cards : s = <<c>>
      BY <2>2
    <3> QED
      BY <3>1
  <2>3. CASE s = <<>>
    <3>1. Len(<<>>) = 0
      OBVIOUS
    <3> QED
      BY <2>3, <3>1
  <2>4. s \in {<<>>} \/ \E c \in Cards : s = <<c>>
          \/ s \in {t \in Cards \X Cards : t[1] # t[2]}
    BY Zenon DEF Requests
  <2> QED
    BY <2>1, <2>2, <2>3, <2>4
<1> QED
  BY <1>1, RequestsAreCards

\* A call that ends, well or not, leaves the bus and the requests typed.
LEMMA EndKeepsTypes ==
  ASSUME Shapes, BusTypeOK, Unreserved, NEW a \in Apps,
         \/ Fail(a)
         \/ pc[a] \in Acquisition /\ Own(a, Head(cards[a])) /\ Acquired(a)
  PROVE  BusTypeOK' /\ Unreserved'
<1>1. CASE Fail(a)
  <2>1. BusTypeOK'
    BY <1>1 DEF Fail, Cleanup, BusTypeOK
  <2>2. Unreserved'
    BY <1>1 DEF Fail, Cleanup, Shapes, Unreserved, Requests
  <2> QED
    BY <2>1, <2>2
<1>2. CASE pc[a] \in Acquisition /\ Own(a, Head(cards[a])) /\ Acquired(a)
  <2>1. cards[a] \in Requests /\ cards[a] # <<>>
    BY <1>2 DEF Shapes, Unreserved
  <2>2. BusTypeOK'
    BY <1>2, <2>1, RestOfRequest DEF Own, Acquired, BusTypeOK
  <2>3. /\ cards' = [cards EXCEPT ![a] = Tail(cards[a])]
        /\ reservations' =
             [reservations EXCEPT ![a] = reservations[a] \cup {Head(cards[a])}]
    BY <1>2 DEF Acquired
  <2>4. ASSUME NEW b \in Apps
        PROVE  /\ cards'[b] \in Requests
               /\ \A i \in DOMAIN cards'[b] : cards'[b][i] \notin reservations'[b]
    <3>1. CASE b = a
      <4>1. /\ cards'[b] = Tail(cards[a])
            /\ reservations'[b] = reservations[a] \cup {Head(cards[a])}
        BY <2>3, <3>1 DEF Shapes
      <4> QED
        BY <2>1, <4>1, RestOfRequest DEF Unreserved
    <3>2. CASE b # a
      <4>1. cards'[b] = cards[b] /\ reservations'[b] = reservations[b]
        BY <2>3, <3>2 DEF Shapes
      <4> QED
        BY <4>1 DEF Unreserved
    <3> QED
      BY <3>1, <3>2
  <2> QED
    BY <2>2, <2>4 DEF Unreserved
<1> QED
  BY <1>1, <1>2

LEMMA TypesNext ==
  Shapes /\ Accounted /\ BusTypeOK /\ Unreserved /\ [Next]_vars =>
    (BusTypeOK /\ Unreserved)'
<1> SUFFICES ASSUME Shapes, Accounted, BusTypeOK, Unreserved, [Next]_vars
             PROVE  BusTypeOK' /\ Unreserved'
  OBVIOUS
<1>1. CASE UNCHANGED <<replaceable, asked, cards, reservations>>
  BY <1>1 DEF BusTypeOK, Unreserved
<1>2. ASSUME NEW a \in Apps,
             Fail(a) \/ (pc[a] \in Acquisition /\ Own(a, Head(cards[a]))
                           /\ Acquired(a))
      PROVE  BusTypeOK' /\ Unreserved'
  BY <1>2, EndKeepsTypes
<1>3. ASSUME NEW a \in Apps, RequestAcquire(a)
      PROVE  BusTypeOK' /\ Unreserved'
  <2>1. PICK wanted \in Requests : cards' = [cards EXCEPT ![a] = wanted]
    BY <1>3 DEF RequestAcquire
  <2>2. UNCHANGED <<replaceable, asked, reservations>> /\ reservations[a] = {}
    BY <1>3 DEF RequestAcquire, busVars, Accounted
  <2> QED
    BY <2>1, <2>2 DEF Shapes, BusTypeOK, Unreserved
<1>4. ASSUME NEW a \in Apps, CallRequestRelease(a)
      PROVE  BusTypeOK' /\ Unreserved'
  <2>1. CASE Fail(a)
    BY <1>2, <2>1
  <2>2. CASE ~Fail(a)
    <3>1. /\ asked' = [asked EXCEPT ![a] = owner[Head(cards[a])]]
          /\ UNCHANGED <<replaceable, cards, reservations>>
      BY <1>4, <2>2 DEF CallRequestRelease, busVars
    <3>2. Head(cards[a]) \in Cards
      BY <1>4, RestOfRequest
      DEF CallRequestRelease, Shapes, Unreserved, Acquisition
    <3>3. owner[Head(cards[a])] \in Processes \cup {NoOwner}
      BY <3>2 DEF Shapes
    <3> QED
      BY <3>1, <3>3 DEF BusTypeOK, Unreserved
  <2> QED
    BY <2>1, <2>2
<1>5. ASSUME NEW a \in Apps,
             RequestName(a) \/ Answered(a) \/ CallFails(a) \/ TakeOver(a)
               \/ Release(a) \/ Crash(a)
      PROVE  BusTypeOK' /\ Unreserved'
  <2>1. \/ Fail(a)
        \/ pc[a] \in Acquisition /\ Own(a, Head(cards[a])) /\ Acquired(a)
        \/ UNCHANGED <<replaceable, asked, cards, reservations>>
    BY <1>5 DEF RequestName, Answered, CallFails, TakeOver, Release, Crash,
                busVars, Acquisition
  <2> QED
    BY <1>1, <1>2, <2>1
<1>6. ASSUME NEW a \in Apps, NEW b \in Apps, Serve(a, b)
      PROVE  BusTypeOK' /\ Unreserved'
  BY <1>1, <1>6 DEF Serve, busVars
<1>7. CASE PeerNext
  <2>1. /\ UNCHANGED <<asked, cards, reservations>>
        /\ replaceable' \in [Cards -> BOOLEAN]
    BY <1>7 DEF PeerNext, PeerTake, PeerLeave, PeerAnswer, busVars, BusTypeOK
  <2> QED
    BY <2>1 DEF BusTypeOK, Unreserved
<1>8. CASE UNCHANGED vars
  BY <1>1, <1>8 DEF vars
<1> QED
  BY <1>3, <1>4, <1>5, <1>6, <1>7, <1>8 DEF Next, Acquiring

\* Every state is well typed, and no process asks the bus for a name it has
\* reserved: with any number of processes, peers and cards.
THEOREM ReservationTypes == Spec => []TypeOK
<1>1. Init => Shapes /\ Accounted /\ BusTypeOK /\ Unreserved
  BY InitKeeps DEF Init, BusTypeOK, Unreserved, Requests
<1>2. Shapes /\ Accounted /\ BusTypeOK /\ Unreserved /\ [Next]_vars =>
        (Shapes /\ Accounted /\ BusTypeOK /\ Unreserved)'
  BY NextKeeps, TypesNext
<1>3. Shapes /\ BusTypeOK /\ Unreserved => TypeOK
  <2> SUFFICES ASSUME Shapes, BusTypeOK, Unreserved PROVE TypeOK
    OBVIOUS
  <2>1. \A a \in Apps : cards[a] \in Seq(Cards) /\ Len(cards[a]) <= 2
    BY RequestLength DEF Unreserved
  <2>2. ASSUME NEW a \in Apps, pc[a] \in Acquisition
        PROVE  cards[a] # <<>> /\ Head(cards[a]) \notin reservations[a]
    <3>1. cards[a] # <<>> /\ cards[a] \in Seq(Cards)
      BY <2>1, <2>2 DEF Shapes
    <3>2. 1 \in DOMAIN cards[a] /\ Head(cards[a]) = cards[a][1]
      BY <3>1
    <3> QED
      BY <3>1, <3>2 DEF Unreserved
  <2> QED
    BY <2>1, <2>2 DEF Shapes, BusTypeOK, TypeOK
<1> QED
  BY <1>1, <1>2, <1>3, PTL DEF Spec

----------------------------------------------------------------------------
(* The library on top of it.                                                *)

Uses(a) == \E pcm \in Pcms : user[pcm] = a

\* The cards an init needs.
Wanted(a) == {devices[a][1], devices[a][2]} \ {NoDevice}

\* Reserved already, or still to come.
Pending(a, c) ==
  c \in reservations[a] \/ \E i \in DOMAIN cards[a] : cards[a][i] = c

\* No object of the process holds the backend, or exactly one does.
Nobody(a) == \A o \in Objects : objects[a][o] # "initialized"
Somebody(a) == \E o \in Objects : \A p \in Objects :
                  objects[a][p] = "initialized" <=> p = o

\* What a process has at each point of a call.
Phase(a) ==
  /\ upc[a] = "reserving" =>
       /\ pc[a] \in Acquisition /\ ~control[a] /\ ~Uses(a) /\ Nobody(a)
       /\ \A c \in Wanted(a) : Pending(a, c)
  /\ upc[a] \in {"openPlayback", "openCapture"} =>
       /\ pc[a] = "serving" /\ ~control[a] /\ Nobody(a)
       /\ Wanted(a) \subseteq reservations[a]
  /\ upc[a] \in {"openPlayback", "releasing"} => ~Uses(a)
  /\ upc[a] = "openCapture" => devices[a][2] # NoDevice
  /\ upc[a] = "releasing" =>
       pc[a] = "serving" /\ ~control[a] /\ Nobody(a)
  /\ upc[a] = "idle" =>
       IF control[a] THEN pc[a] = "serving" /\ Somebody(a)
       ELSE pc[a] = "idle" /\ ~Uses(a) /\ Nobody(a)

\* An open PCM is one of a reserved card.
OpenMeansReserved ==
  \A a \in Apps, pcm \in Pcms : user[pcm] = a => pcm[1] \in reservations[a]

LibInv ==
  /\ LibTypeOK
  /\ \A a \in Apps : Phase(a)
  /\ OpenMeansReserved

----------------------------------------------------------------------------
\* A step of request_acquire's loop: the cards it is asked for stay pending
\* until they are reserved, and no other process is touched.
LEMMA AcquiringMoves ==
  ASSUME Shapes, NEW a \in Apps, Acquiring(a)
  PROVE  /\ \A b \in Apps \ {a} : /\ pc'[b] = pc[b]
                                  /\ reservations'[b] = reservations[b]
                                  /\ cards'[b] = cards[b]
         /\ \/ pc'[a] = "idle"
            \/ /\ pc'[a] \in Acquisition
               /\ \A c \in Cards : Pending(a, c) => Pending(a, c)'
            \/ /\ pc'[a] = "serving"
               /\ \A c \in Cards : Pending(a, c) => c \in reservations'[a]
<1> DEFINE Moves ==
      /\ \A b \in Apps \ {a} : /\ pc'[b] = pc[b]
                               /\ reservations'[b] = reservations[b]
                               /\ cards'[b] = cards[b]
      /\ \/ pc'[a] = "idle"
         \/ /\ pc'[a] \in Acquisition
            /\ \A c \in Cards : Pending(a, c) => Pending(a, c)'
         \/ /\ pc'[a] = "serving"
            /\ \A c \in Cards : Pending(a, c) => c \in reservations'[a]
<1>1. pc[a] \in Acquisition
  BY DEF Acquiring, RequestName, CallRequestRelease, Answered, CallFails,
         TakeOver, Acquisition
<1>2. CASE Fail(a)
  BY <1>2 DEF Fail, Cleanup, Shapes
<1>3. CASE Acquired(a)
  <2>1. cards[a] \in Seq(Cards) /\ cards[a] # <<>>
    BY <1>1 DEF Shapes
  <2>2. /\ reservations' = [reservations EXCEPT ![a] = @ \cup {Head(cards[a])}]
        /\ cards' = [cards EXCEPT ![a] = Tail(@)]
        /\ pc' = [pc EXCEPT ![a] =
                    IF Len(cards[a]) = 1 THEN "serving" ELSE "requesting"]
    BY <1>3 DEF Acquired
  <2>3. ASSUME NEW c \in Cards, Pending(a, c), c \notin reservations'[a]
        PROVE  Pending(a, c)' /\ Len(cards[a]) # 1
    <3>1. PICK i \in DOMAIN cards[a] : cards[a][i] = c
      BY <2>2, <2>3 DEF Pending, Shapes
    <3>2. i \in 1..Len(cards[a]) /\ i # 1
      BY <2>1, <2>2, <2>3, <3>1 DEF Shapes
    <3>3. /\ i - 1 \in DOMAIN Tail(cards[a])
          /\ Tail(cards[a])[i - 1] = c
      BY <2>1, <3>1, <3>2
    <3>4. cards'[a] = Tail(cards[a]) /\ Len(cards[a]) # 1
      BY <2>2, <3>2 DEF Shapes
    <3> QED
      BY <3>3, <3>4 DEF Pending
  <2> QED
    BY <2>2, <2>3 DEF Shapes, Pending, Acquisition
<1>4. CASE /\ pc' \in {[pc EXCEPT ![a] = s] : s \in Acquisition}
           /\ UNCHANGED <<cards, reservations>>
  BY <1>4 DEF Pending, Shapes
<1> QED
  <2>1. /\ RequestName(a) => Fail(a) \/ Acquired(a)
              \/ (pc' = [pc EXCEPT ![a] = "busy"]
                    /\ UNCHANGED <<cards, reservations>>)
        /\ CallRequestRelease(a) => Fail(a)
              \/ (pc' = [pc EXCEPT ![a] = "waiting"]
                    /\ UNCHANGED <<cards, reservations>>)
        /\ Answered(a) => Fail(a)
              \/ (pc' = [pc EXCEPT ![a] = "taking"]
                    /\ UNCHANGED <<cards, reservations>>)
        /\ CallFails(a) => Fail(a)
        /\ TakeOver(a) => Fail(a) \/ Acquired(a)
    BY DEF RequestName, CallRequestRelease, Answered, CallFails, TakeOver
  <2>2. {"busy", "waiting", "taking"} \subseteq Acquisition
    BY DEF Acquisition
  <2> QED
    BY <1>2, <1>3, <1>4, <2>1, <2>2 DEF Acquiring

\* The part of a process's state that Phase speaks of, unchanged.
Still(b) ==
  /\ upc'[b] = upc[b] /\ devices'[b] = devices[b]
  /\ objects'[b] = objects[b] /\ control'[b] = control[b]
  /\ pc'[b] = pc[b] /\ reservations'[b] = reservations[b]
  /\ cards'[b] = cards[b]
  /\ \A pcm \in Pcms : (user'[pcm] = b) <=> (user[pcm] = b)

LEMMA StillKeeps ==
  ASSUME NEW b \in Apps, Still(b)
  PROVE  /\ Phase(b) => Phase(b)'
         /\ (\A pcm \in Pcms : user[pcm] = b => pcm[1] \in reservations[b]) =>
            (\A pcm \in Pcms : user[pcm] = b => pcm[1] \in reservations[b])'
  BY DEF Still, Phase, Uses, Wanted, Pending, Nobody, Somebody

\* What a step of one process leaves alone of the others.
LEMMA OthersStill ==
  ASSUME LibTypeOK, Shapes, NEW a \in Apps,
         \/ \E o \in Objects :
               NewObject(a, o) \/ InitCall(a, o) \/ DeleteObject(a, o)
         \/ Inside(a) \/ ProcessDies(a)
  PROVE  \A b \in Apps \ {a} : Still(b)
<1> USE DEF LibTypeOK, Shapes, Still
<1>1. Fail(a) => \A b \in Apps \ {a} :
        /\ pc'[b] = pc[b] /\ reservations'[b] = reservations[b]
        /\ cards'[b] = cards[b]
  BY DEF Fail, Cleanup
<1>2. ASSUME NEW o \in Objects, NewObject(a, o)
      PROVE  \A b \in Apps \ {a} : Still(b)
  BY <1>2 DEF NewObject, vars
<1>3. ASSUME NEW o \in Objects, InitCall(a, o)
      PROVE  \A b \in Apps \ {a} : Still(b)
  BY <1>3 DEF InitCall, RequestAcquire
<1>4. ASSUME NEW o \in Objects, DeleteObject(a, o)
      PROVE  \A b \in Apps \ {a} : Still(b)
  BY <1>4, DeviceAssumption DEF DeleteObject, Close, vars
<1>5. CASE Reserve(a)
  BY <1>5, AcquiringMoves DEF Reserve
<1>6. CASE OpenPlayback(a) \/ OpenFails(a) \/ OpenCapture(a)
  <2>1. UNCHANGED <<devices, pc, reservations, cards>>
    BY <1>6 DEF OpenPlayback, OpenFails, OpenCapture, vars
  <2>2. user' = user \/ \E pcm : user[pcm] = "free"
                               /\ user' = [user EXCEPT ![pcm] = a]
    BY <1>6 DEF OpenPlayback, OpenFails, OpenCapture
  <2>3. \A b \in Apps \ {a}, pcm \in Pcms :
          (user'[pcm] = b) <=> (user[pcm] = b)
    BY <2>2, DeviceAssumption
  <2>4. \A b \in Apps \ {a} :
          upc'[b] = upc[b] /\ objects'[b] = objects[b]
            /\ control'[b] = control[b]
    BY <1>6 DEF OpenPlayback, OpenFails, OpenCapture, Initialized
  <2> QED
    BY <2>1, <2>3, <2>4
<1>7. CASE ReleaseCards(a)
  BY <1>1, <1>7 DEF ReleaseCards, Release
<1>8. CASE ProcessDies(a)
  BY <1>1, <1>8, DeviceAssumption DEF ProcessDies, Crash, vars
<1> QED
  BY <1>2, <1>3, <1>4, <1>5, <1>6, <1>7, <1>8 DEF Inside

\* A step of a process leads from each point of a call to the next.
LEMMA PhaseMoves ==
  ASSUME LibInv, Shapes, Accounted, NEW a \in Apps,
         \/ \E o \in Objects :
               NewObject(a, o) \/ InitCall(a, o) \/ DeleteObject(a, o)
         \/ Inside(a) \/ ProcessDies(a)
  PROVE  /\ LibTypeOK'
         /\ Phase(a)'
         /\ (\A pcm \in Pcms : user[pcm] = a => pcm[1] \in reservations[a])'
<1> DEFINE Held ==
      \A pcm \in Pcms : user[pcm] = a => pcm[1] \in reservations[a]
<1> DEFINE Moves == LibTypeOK' /\ Phase(a)' /\ Held'
<1>0. LibTypeOK /\ Phase(a) /\ Held
  BY DEF LibInv, OpenMeansReserved
<1>f. Fail(a) => /\ pc'[a] = "idle" /\ reservations'[a] = {}
  BY DEF Fail, Cleanup, Shapes
<1>1. ASSUME NEW o \in Objects, NewObject(a, o) PROVE Moves
  <2>1. /\ upc[a] = "idle" /\ objects[a][o] = "none"
        /\ objects' = [objects EXCEPT ![a][o] = "created"]
        /\ UNCHANGED <<upc, caller, devices, control, user>>
        /\ UNCHANGED <<pc, cards, reservations>>
    BY <1>1 DEF NewObject, vars
  <2>2. LibTypeOK'
    BY <1>0, <2>1 DEF LibTypeOK
  <2>3. /\ Nobody(a) => Nobody(a)'
        /\ Somebody(a) => Somebody(a)'
    BY <1>0, <2>1 DEF LibTypeOK, Nobody, Somebody
  <2> QED
    BY <1>0, <2>1, <2>2, <2>3 DEF Phase, Uses
<1>2. ASSUME NEW o \in Objects, InitCall(a, o) PROVE Moves
  <2>1. PICK out \in Cards, in \in Cards \cup {NoDevice} :
          /\ devices' = [devices EXCEPT ![a] = <<out, in>>]
          /\ cards'[a] = CardsOf(<<out, in>>)
    BY <1>2 DEF InitCall
  <2>2. /\ upc[a] = "idle" /\ ~control[a]
        /\ upc' = [upc EXCEPT ![a] = "reserving"]
        /\ caller' = [caller EXCEPT ![a] = o]
        /\ UNCHANGED <<objects, control, user, reservations>>
    BY <1>2 DEF InitCall, RequestAcquire
  <2>3. LibTypeOK'
    BY <1>0, <2>1, <2>2 DEF LibTypeOK
  <2>4. pc'[a] \in Acquisition
    <3>1. PICK wanted \in Requests :
            /\ cards' = [cards EXCEPT ![a] = wanted]
            /\ pc' = [pc EXCEPT ![a] =
                        IF wanted = <<>> THEN "serving" ELSE "requesting"]
      BY <1>2 DEF InitCall, RequestAcquire
    <3>2. wanted = CardsOf(<<out, in>>)
      BY <2>1, <3>1 DEF Shapes
    <3>3. wanted # <<>>
      BY <3>2 DEF CardsOf
    <3> QED
      BY <3>1, <3>3 DEF Acquisition, Shapes
  <2>5. \A c \in Wanted(a)' : Pending(a, c)'
    <3>1. Wanted(a)' = {out, in} \ {NoDevice}
      BY <1>0, <2>1 DEF Wanted, LibTypeOK
    <3>2. ASSUME NEW c \in {out, in} \ {NoDevice}
          PROVE  \E i \in DOMAIN CardsOf(<<out, in>>) :
                    CardsOf(<<out, in>>)[i] = c
      <4>1. CASE c = out
        BY <4>1 DEF CardsOf
      <4>2. CASE c = in /\ in # out
        BY <4>2 DEF CardsOf
      <4> QED
        BY <4>1, <4>2
    <3> QED
      BY <2>1, <3>1, <3>2 DEF Pending
  <2>6. ~Uses(a)' /\ Nobody(a)'
    BY <1>0, <2>2 DEF Phase, Uses, Nobody
  <2> QED
    BY <1>0, <2>2, <2>3, <2>4, <2>5, <2>6 DEF Phase, Uses, LibTypeOK
<1>3. ASSUME NEW o \in Objects, DeleteObject(a, o) PROVE Moves
  <2>1. /\ upc[a] = "idle" /\ objects' = [objects EXCEPT ![a][o] = "none"]
        /\ UNCHANGED <<caller, devices, pc, cards, reservations>>
    BY <1>3 DEF DeleteObject, vars
  <2>2. CASE objects[a][o] = "initialized"
    <3>1. /\ control' = [control EXCEPT ![a] = FALSE]
          /\ upc' = [upc EXCEPT ![a] = "releasing"]
          /\ Close(a)
      BY <1>3, <2>2 DEF DeleteObject, OwnsBackend
    <3>2. control[a] /\ pc[a] = "serving" /\ Nobody(a)'
      BY <1>0, <2>1, <2>2 DEF Phase, Nobody, Somebody, LibTypeOK
    <3>3. LibTypeOK'
      BY <1>0, <2>1, <3>1 DEF LibTypeOK, Close, Users
    <3>4. ~Uses(a)'
      BY <1>0, <3>1, DeviceAssumption DEF Uses, Close, Processes
    <3> QED
      BY <1>0, <2>1, <3>1, <3>2, <3>3, <3>4 DEF Phase, LibTypeOK, Uses
  <2>3. CASE objects[a][o] # "initialized"
    <3>1. UNCHANGED <<control, upc, user>>
      BY <1>3, <2>3 DEF DeleteObject, OwnsBackend
    <3>2. LibTypeOK'
      BY <1>0, <2>1, <3>1 DEF LibTypeOK
    <3>3. /\ Nobody(a) => Nobody(a)'
          /\ Somebody(a) => Somebody(a)'
      BY <1>0, <2>1, <2>3 DEF LibTypeOK, Nobody, Somebody
    <3> QED
      BY <1>0, <2>1, <3>1, <3>2, <3>3 DEF Phase, Uses
  <2> QED
    BY <2>2, <2>3
<1>4. CASE Reserve(a)
  <2>1. /\ upc[a] = "reserving"
        /\ upc' = [upc EXCEPT ![a] =
                      IF pc'[a] \in Acquisition THEN "reserving"
                      ELSE IF pc'[a] = "serving" THEN "openPlayback"
                      ELSE "idle"]
        /\ UNCHANGED <<caller, devices, objects, control, user>>
    BY <1>4 DEF Reserve
  <2>2. LibTypeOK'
    BY <1>0, <2>1 DEF LibTypeOK
  <2>3. /\ ~control[a]' /\ ~Uses(a)' /\ Nobody(a)'
        /\ Wanted(a)' = Wanted(a) /\ Wanted(a) \subseteq Cards
    BY <1>0, <2>1 DEF Phase, Uses, Nobody, Wanted, LibTypeOK
  <2>4. \/ pc'[a] = "idle"
        \/ /\ pc'[a] \in Acquisition
           /\ \A c \in Wanted(a)' : Pending(a, c)'
        \/ /\ pc'[a] = "serving"
           /\ Wanted(a)' \subseteq reservations'[a]
    BY <1>0, <1>4, <2>1, <2>3, AcquiringMoves DEF Reserve, Phase
  <2> QED
    BY <1>0, <2>1, <2>2, <2>3, <2>4 DEF Phase, Uses, LibTypeOK, Acquisition
<1>5. CASE OpenPlayback(a)
  <2> DEFINE pcm == <<devices[a][1], "playback">>
  <2>1. /\ upc[a] = "openPlayback" /\ user' = [user EXCEPT ![pcm] = a]
        /\ UNCHANGED <<caller, devices, pc, cards, reservations>>
    BY <1>5 DEF OpenPlayback, vars
  <2>2. Held'
    BY <1>0, <2>1, DeviceAssumption DEF Phase, Wanted, LibTypeOK
  <2>3. CASE devices[a][2] = NoDevice
    <3>1. Initialized(a)
      BY <1>5, <2>3 DEF OpenPlayback, WithCapture
    <3>2. LibTypeOK' /\ control'[a] /\ upc'[a] = "idle" /\ Somebody(a)'
      BY <1>0, <2>1, <3>1
      DEF LibTypeOK, Initialized, Phase, Nobody, Somebody, Users, Processes
    <3> QED
      BY <1>0, <2>1, <2>2, <3>2 DEF Phase
  <2>4. CASE devices[a][2] # NoDevice
    <3>1. /\ upc' = [upc EXCEPT ![a] = "openCapture"]
          /\ UNCHANGED <<control, objects>>
      BY <1>5, <2>4 DEF OpenPlayback, WithCapture
    <3>2. LibTypeOK'
      BY <1>0, <2>1, <2>4, <3>1 DEF LibTypeOK, Users, Processes
    <3> QED
      BY <1>0, <2>1, <2>2, <2>4, <3>1, <3>2
      DEF Phase, LibTypeOK, Wanted, Nobody
  <2> QED
    BY <2>3, <2>4
<1>6. CASE OpenFails(a)
  <2>1. /\ upc[a] = "openPlayback"
        /\ upc' = [upc EXCEPT ![a] = "releasing"]
        /\ UNCHANGED <<caller, devices, objects, control, user>>
        /\ UNCHANGED <<pc, cards, reservations>>
    BY <1>6 DEF OpenFails, vars
  <2> QED
    BY <1>0, <2>1 DEF Phase, LibTypeOK, Uses, Nobody
<1>7. CASE OpenCapture(a)
  <2> DEFINE pcm == <<devices[a][2], "capture">>
  <2>1. /\ upc[a] = "openCapture" /\ Initialized(a)
        /\ user' \in {[user EXCEPT ![pcm] = a], user}
        /\ UNCHANGED <<caller, devices, pc, cards, reservations>>
    BY <1>7 DEF OpenCapture, vars
  <2>2. Held'
    BY <1>0, <2>1 DEF Phase, Wanted, LibTypeOK
  <2>3. LibTypeOK' /\ control'[a] /\ upc'[a] = "idle" /\ Somebody(a)'
    BY <1>0, <2>1
    DEF LibTypeOK, Initialized, Phase, Nobody, Somebody, Users, Processes
  <2> QED
    BY <1>0, <2>1, <2>2, <2>3 DEF Phase
<1>8. CASE ReleaseCards(a)
  <2>1. /\ upc[a] = "releasing" /\ Fail(a)
        /\ upc' = [upc EXCEPT ![a] = "idle"]
        /\ UNCHANGED <<caller, devices, objects, control, user>>
    BY <1>8 DEF ReleaseCards, Release
  <2> QED
    BY <1>0, <1>f, <2>1 DEF Phase, LibTypeOK, Uses, Nobody
<1>9. CASE ProcessDies(a)
  <2>1. /\ upc' = [upc EXCEPT ![a] = "idle"]
        /\ objects' = [objects EXCEPT ![a] = [o \in Objects |-> "none"]]
        /\ control' = [control EXCEPT ![a] = FALSE]
        /\ user' = [pcm \in Pcms |->
                      IF user[pcm] = a THEN "dead" ELSE user[pcm]]
        /\ UNCHANGED <<caller, devices>>
    BY <1>9 DEF ProcessDies
  <2>2. pc'[a] = "idle"
    BY <1>9, <1>f DEF ProcessDies, Crash, vars
  <2>3. ~Uses(a)'
    BY <1>0, <2>1, DeviceAssumption DEF Uses
  <2>4. LibTypeOK'
    BY <1>0, <2>1 DEF LibTypeOK, Users
  <2>5. Nobody(a)' /\ upc'[a] = "idle" /\ ~control'[a]
    BY <1>0, <2>1 DEF Nobody, LibTypeOK
  <2> QED
    BY <2>2, <2>3, <2>4, <2>5 DEF Phase, Uses
<1> QED
  BY <1>1, <1>2, <1>3, <1>4, <1>5, <1>6, <1>7, <1>8, <1>9 DEF Inside

\* What the kernel, the D-Bus threads and other programs do.
LEMMA OutsideKeeps ==
  ASSUME LibInv, Shapes, PcmChanges \/ BusStep
  PROVE  LibInv'
<1>1. CASE PcmChanges
  <2>1. /\ UNCHANGED <<upc, caller, devices, objects, control>>
        /\ UNCHANGED <<pc, cards, reservations>>
        /\ \E pcm \in Pcms, q \in Peers \cup {"free"} :
              /\ user[pcm] \in Peers \cup {"free", "dead"}
              /\ user' = [user EXCEPT ![pcm] = q]
    BY <1>1 DEF PcmChanges, vars
  <2>2. \A a \in Apps : Still(a)
    BY <2>1, DeviceAssumption, ProcessAssumption DEF Still, LibInv, LibTypeOK
  <2>3. LibTypeOK'
    BY <2>1 DEF LibInv, LibTypeOK, Users, Processes
  <2> QED
    BY <2>2, <2>3, StillKeeps DEF LibInv, OpenMeansReserved
<1>2. CASE BusStep
  <2>1. UNCHANGED <<pc, cards, reservations>> /\ UNCHANGED libVars
    BY <1>2 DEF BusStep, Serve, PeerNext, PeerTake, PeerLeave, PeerAnswer
  <2>2. \A a \in Apps : Still(a)
    BY <2>1 DEF Still, libVars
  <2>3. LibTypeOK'
    BY <2>1 DEF LibInv, LibTypeOK, libVars
  <2> QED
    BY <2>2, <2>3, StillKeeps DEF LibInv, OpenMeansReserved
<1> QED
  BY <1>1, <1>2

\* Whatever the library does is a step of Reservation, or none.
LEMMA StepMaps == [LibNext]_<<vars, libVars>> => [Next]_vars
<1>1. ASSUME NEW a \in Apps, NEW o \in Objects,
             NewObject(a, o) \/ InitCall(a, o) \/ DeleteObject(a, o)
      PROVE  [Next]_vars
  BY <1>1 DEF NewObject, InitCall, DeleteObject, Next
<1>2. ASSUME NEW a \in Apps, Inside(a) \/ ProcessDies(a) PROVE [Next]_vars
  BY <1>2 DEF Inside, Reserve, OpenPlayback, OpenFails, OpenCapture,
              ReleaseCards, ProcessDies, Next
<1>3. CASE PcmChanges \/ BusStep
  BY <1>3 DEF PcmChanges, BusStep, Next
<1> QED
  BY <1>1, <1>2, <1>3 DEF LibNext

LEMMA LibInvInit == LibInit => LibInv
  BY DeviceAssumption, ProcessAssumption
  DEF LibInit, Init, LibInv, LibTypeOK, Users, Phase, Uses, Nobody,
      OpenMeansReserved

LEMMA LibInvNext ==
  ASSUME LibInv, Shapes, Accounted, [LibNext]_<<vars, libVars>>
  PROVE  LibInv'
<1>1. ASSUME NEW a \in Apps,
             \/ \E o \in Objects :
                   NewObject(a, o) \/ InitCall(a, o) \/ DeleteObject(a, o)
             \/ Inside(a) \/ ProcessDies(a)
      PROVE  LibInv'
  <2>1. LibTypeOK' /\ Phase(a)'
        /\ (\A pcm \in Pcms : user[pcm] = a => pcm[1] \in reservations[a])'
    BY <1>1, PhaseMoves
  <2>2. \A b \in Apps \ {a} : Still(b)
    BY <1>1, OthersStill DEF LibInv
  <2> QED
    BY <2>1, <2>2, StillKeeps DEF LibInv, OpenMeansReserved
<1>2. CASE UNCHANGED <<vars, libVars>>
  <2>1. \A a \in Apps : Still(a)
    BY <1>2 DEF Still, vars, libVars
  <2>2. LibTypeOK'
    BY <1>2 DEF LibInv, LibTypeOK, libVars
  <2> QED
    BY <2>1, <2>2, StillKeeps DEF LibInv, OpenMeansReserved
<1> QED
  BY <1>1, <1>2, OutsideKeeps DEF LibNext

----------------------------------------------------------------------------
\* main.cpp and the driver objects call request_acquire and release only
\* when Reservation lets them: every behaviour of the library is one of
\* Reservation, and what holds there holds here.
THEOREM UsesReservation == LibSpec => Spec
<1>1. LibInit => Init
  BY DEF LibInit
<1> QED
  BY <1>1, StepMaps, PTL DEF LibSpec, Spec

\* What each point of a call has reserved, opened and initialised.
THEOREM LibInductive == LibSpec => [](LibInv /\ Shapes /\ Accounted)
<1>1. LibInit => LibInv /\ Shapes /\ Accounted
  BY LibInvInit, InitKeeps DEF LibInit
<1>2. LibInv /\ Shapes /\ Accounted /\ [LibNext]_<<vars, libVars>> =>
        (LibInv /\ Shapes /\ Accounted)'
  BY LibInvNext, StepMaps, NextKeeps
<1> QED
  BY <1>1, <1>2, PTL DEF LibSpec

\* The ac of a process belongs to one object between calls, and without it
\* nothing is reserved or open, for any number of processes and objects.
THEOREM HolderIsUnique == LibSpec => []OneHolder
<1>1. LibInv /\ Shapes /\ Accounted => OneHolder
  BY DEF LibInv, Phase, Accounted, OneHolder, Uses, Nobody, Somebody
<1> QED
  BY <1>1, LibInductive, PTL

\* Without other programs a process has a PCM open only while it owns the
\* card's name: nobody is granted a card that is still being played on.
THEOREM StreamsAreReserved ==
  ASSUME Peers = {} PROVE LibSpec => []OpenMeansOwned
<1>1. LibInv /\ HeldMeansOwned => OpenMeansOwned
  BY DEF LibInv, OpenMeansReserved, HeldMeansOwned, OpenMeansOwned
<1>2. Spec => []HeldMeansOwned
  BY AppsKeepReservations
<1> QED
  BY <1>1, <1>2, UsesReservation, LibInductive, PTL

============================================================================
