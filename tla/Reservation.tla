---------------------------- MODULE Reservation ----------------------------
(***************************************************************************)
(* module audio_reservation: how a Wine process reserves the sound cards   *)
(* of its playback and capture devices through the ReserveDevice1 protocol *)
(* on the user's D-Bus before it opens them.                               *)
(*                                                                         *)
(* A card is reserved by owning a well-known bus name.  A process that     *)
(* finds the name taken calls RequestRelease on the owner and, when told   *)
(* yes, takes the name over.  Several processes run this code (Apps);      *)
(* other programs (Peers: a sound server, say) follow the same protocol    *)
(* from outside the repository.                                            *)
(*                                                                         *)
(* request_acquire runs on the thread that calls it and a process answers  *)
(* RequestRelease only from dbus_thread, which runs from the end of a      *)
(* successful request_acquire to cleanup: a process that is itself waiting *)
(* for an answer gives none.                                               *)
(*                                                                         *)
(* The bus and libsystemd are external.  A call that is not answered times *)
(* out in the caller; how long that takes is not modelled.                 *)
(***************************************************************************)
EXTENDS Sequences, FiniteSets, Integers

CONSTANTS
  Apps,      \* processes running this code
  Peers,     \* other programs of the protocol
  Cards,     \* sound cards, one bus name each
  NoOwner    \* a name nobody owns

ASSUME ProcessAssumption ==
  /\ Apps \cap Peers = {}
  /\ NoOwner \notin Apps \cup Peers

VARIABLES
  owner,         \* the bus: owner of each name
  replaceable,   \* the bus: the owner gave ALLOW_REPLACEMENT
  pc,            \* where a process is in request_acquire
  cards,         \* its cards still to be acquired, the current one first
  reservations,  \* its reservations
  asked,         \* connection its RequestRelease call went to
  answer         \* what came back

busVars == <<owner, replaceable>>
vars == <<owner, replaceable, pc, cards, reservations, asked, answer>>

Processes == Apps \cup Peers

\* Inside request_acquire, and outside of it.
Acquisition == {"requesting", "busy", "waiting", "taking"}
Steps == Acquisition \cup {"idle", "serving"}

\* A process inside acquire has a card to acquire, and not one it holds: the
\* bus refuses a name its owner asks for again.
TypeOK ==
  /\ owner \in [Cards -> Processes \cup {NoOwner}]
  /\ replaceable \in [Cards -> BOOLEAN]
  /\ pc \in [Apps -> Steps]
  /\ \A a \in Apps : cards[a] \in Seq(Cards) /\ Len(cards[a]) <= 2
  /\ reservations \in [Apps -> SUBSET Cards]
  /\ asked \in [Apps -> Processes \cup {NoOwner}]
  /\ answer \in [Apps -> {"none", "yes", "no"}]
  /\ \A a \in Apps : pc[a] \in Acquisition =>
        cards[a] # <<>> /\ Head(cards[a]) \notin reservations[a]

Init ==
  /\ owner = [c \in Cards |-> NoOwner]
  /\ replaceable = [c \in Cards |-> FALSE]
  /\ pc = [a \in Apps |-> "idle"]
  /\ cards = [a \in Apps |-> <<>>]
  /\ reservations = [a \in Apps |-> {}]
  /\ asked = [a \in Apps |-> NoOwner]
  /\ answer = [a \in Apps |-> "none"]

\* Mutant of Requests: one card behind both devices is reserved twice.
RequestsRepeated ==
  {<<>>} \cup {<<c>> : c \in Cards} \cup (Cards \X Cards)

\* The playback card and the capture card; one entry when they are the same
\* and none for a device that names no card.
Requests ==
  {<<>>} \cup {<<c>> : c \in Cards}
    \cup {s \in Cards \X Cards : s[1] # s[2]}

Own(a, c) ==
  /\ owner' = [owner EXCEPT ![c] = a]
  /\ replaceable' = [replaceable EXCEPT ![c] = TRUE]

\* cleanup(): dbus_thread is joined, every name released that is still owned
\* (releasing another one fails and does nothing), the bus closed.
Cleanup(a) ==
  /\ owner' = [c \in Cards |->
                 IF c \in reservations[a] /\ owner[c] = a
                 THEN NoOwner ELSE owner[c]]
  /\ replaceable' = [c \in Cards |-> replaceable[c] /\ owner'[c] # NoOwner]
  /\ reservations' = [reservations EXCEPT ![a] = {}]

\* The connection is gone: calls it has not answered come back as errors,
\* which their callers treat as a refusal.
HangUp(a) ==
  answer' = [b \in Apps |->
               IF b = a THEN "none"
               ELSE IF asked[b] = a /\ answer[b] = "none" THEN "no"
               ELSE answer[b]]

\* Mutant of Fail: acquire's own reservation is dropped, the earlier ones of
\* the same request are not.
FailWithoutCleanup(a) ==
  /\ reservations' = [reservations EXCEPT ![a] = {}]
  /\ pc' = [pc EXCEPT ![a] = "idle"]
  /\ cards' = [cards EXCEPT ![a] = <<>>]
  /\ asked' = [asked EXCEPT ![a] = NoOwner]
  /\ HangUp(a)
  /\ UNCHANGED busVars

\* acquire() has failed: request_acquire cleans up and returns false.
Fail(a) ==
  /\ Cleanup(a)
  /\ pc' = [pc EXCEPT ![a] = "idle"]
  /\ cards' = [cards EXCEPT ![a] = <<>>]
  /\ asked' = [asked EXCEPT ![a] = NoOwner]
  /\ HangUp(a)

\* acquire() has succeeded for the current card: the next one, or dbus_thread
\* starts and request_acquire returns true.
Acquired(a) ==
  /\ reservations' = [reservations EXCEPT ![a] = @ \cup {Head(cards[a])}]
  /\ cards' = [cards EXCEPT ![a] = Tail(@)]
  /\ pc' = [pc EXCEPT ![a] =
               IF Len(cards[a]) = 1 THEN "serving" ELSE "requesting"]
  /\ asked' = [asked EXCEPT ![a] = NoOwner]
  /\ answer' = [answer EXCEPT ![a] = "none"]

----------------------------------------------------------------------------
(* A process running this code.                                             *)

\* request_acquire up to its loop. Without a card to reserve it returns true.
RequestAcquire(a) ==
  /\ pc[a] = "idle"
  /\ \E wanted \in Requests :
        /\ cards' = [cards EXCEPT ![a] = wanted]
        /\ pc' = [pc EXCEPT ![a] =
                     IF wanted = <<>> THEN "serving" ELSE "requesting"]
  /\ UNCHANGED <<busVars, reservations, asked, answer>>

\* acquire: sd_bus_request_name without replacing; EEXIST when it is taken.
\* Adding the D-Bus object, or the request, may fail in another way.
RequestName(a) ==
  /\ pc[a] = "requesting"
  /\ \/ Fail(a)
     \/ /\ owner[Head(cards[a])] = NoOwner
        /\ Own(a, Head(cards[a]))
        /\ Acquired(a)
     \/ /\ owner[Head(cards[a])] # NoOwner
        /\ pc' = [pc EXCEPT ![a] = "busy"]
        /\ UNCHANGED <<busVars, cards, reservations, asked, answer>>

\* acquire: RequestRelease is sent to whoever owns the name by now.
CallRequestRelease(a) ==
  /\ pc[a] = "busy"
  /\ LET c == Head(cards[a]) IN
       IF owner[c] = NoOwner
       THEN Fail(a)
       ELSE /\ asked' = [asked EXCEPT ![a] = owner[c]]
            /\ pc' = [pc EXCEPT ![a] = "waiting"]
            /\ UNCHANGED <<busVars, cards, reservations, answer>>

\* acquire: the reply to RequestRelease.
Answered(a) ==
  /\ pc[a] = "waiting"
  /\ \/ /\ answer[a] = "yes"
        /\ pc' = [pc EXCEPT ![a] = "taking"]
        /\ UNCHANGED <<busVars, cards, reservations, asked, answer>>
     \/ answer[a] = "no" /\ Fail(a)

\* Mutant of CallFails: the call waits for its answer for ever.
CallNeverFails(a) ==
  /\ pc[a] = "waiting" /\ answer[a] = "no"
  /\ Fail(a)

\* acquire: the call times out.
CallFails(a) ==
  /\ pc[a] = "waiting" /\ answer[a] = "none"
  /\ Fail(a)

\* acquire: second sd_bus_request_name, replacing an owner that allows it.
TakeOver(a) ==
  /\ pc[a] = "taking"
  /\ \/ Fail(a)
     \/ /\ owner[Head(cards[a])] = NoOwner \/ replaceable[Head(cards[a])]
        /\ Own(a, Head(cards[a]))
        /\ Acquired(a)

\* release(), when the driver is deleted or cannot open its playback device.
Release(a) ==
  /\ pc[a] = "serving"
  /\ Fail(a)

\* The process dies: the bus drops the names of a closed connection.
Crash(a) ==
  /\ pc[a] # "idle"
  /\ Fail(a)

\* reservation_priority, which every process asks with too; request_release
\* accepts a higher one only.
ReservationPriority == 0

\* Mutant of Accepts: an equal priority is enough.
AcceptsEqual(requested) == requested >= ReservationPriority

Accepts(requested) == requested > ReservationPriority

\* dbus_loop answers a call that came to this process.
Serve(a, b) ==
  /\ pc[a] = "serving"
  /\ asked[b] = a /\ answer[b] = "none"
  /\ answer' = [answer EXCEPT ![b] =
                   IF Accepts(ReservationPriority) THEN "yes" ELSE "no"]
  /\ UNCHANGED <<busVars, pc, cards, reservations, asked>>

----------------------------------------------------------------------------
(* Peers take free names, answer as they like and leave when they like.     *)
(* The protocol lets them replace an owner only once it has agreed, which a *)
(* process of this code never does.                                        *)

PeerTake(p, c) ==
  /\ owner[c] = NoOwner
  /\ owner' = [owner EXCEPT ![c] = p]
  /\ \E r \in BOOLEAN : replaceable' = [replaceable EXCEPT ![c] = r]
  /\ UNCHANGED <<pc, cards, reservations, asked, answer>>

PeerLeave(p, c) ==
  /\ owner[c] = p
  /\ owner' = [owner EXCEPT ![c] = NoOwner]
  /\ replaceable' = [replaceable EXCEPT ![c] = FALSE]
  /\ UNCHANGED <<pc, cards, reservations, asked, answer>>

PeerAnswer(p, a) ==
  /\ asked[a] = p /\ answer[a] = "none"
  /\ \E r \in {"yes", "no"} : answer' = [answer EXCEPT ![a] = r]
  /\ UNCHANGED <<busVars, pc, cards, reservations, asked>>

PeerNext ==
  \E p \in Peers :
     \/ \E c \in Cards : PeerTake(p, c) \/ PeerLeave(p, c)
     \/ \E a \in Apps : PeerAnswer(p, a)

----------------------------------------------------------------------------
\* What a process does by itself once it is inside request_acquire.
Acquiring(a) ==
  RequestName(a) \/ CallRequestRelease(a) \/ Answered(a) \/ CallFails(a)
    \/ TakeOver(a)

Next ==
  \/ \E a \in Apps :
        RequestAcquire(a) \/ Acquiring(a) \/ Release(a) \/ Crash(a)
  \/ \E a \in Apps, b \in Apps : Serve(a, b)
  \/ PeerNext

Spec == Init /\ [][Next]_vars

FairSpec == Spec /\ \A a \in Apps : WF_vars(Acquiring(a))

----------------------------------------------------------------------------
\* A process that reserved a card owns its name for as long as it holds the
\* reservation: nobody takes a card from under a stream that may be active.
HeldMeansOwned ==
  \A a \in Apps : \A c \in reservations[a] : owner[c] = a

\* However request_acquire fails, and after release, no name stays behind.
NoNameLeaked ==
  \A a \in Apps : pc[a] = "idle" => \A c \in Cards : owner[c] # a

\* request_acquire returns even when two processes hold the card the other
\* one waits for, neither of which answers: the call's timeout ends that.
AcquireReturns ==
  \A a \in Apps :
     pc[a] \in Acquisition ~> pc[a] \notin Acquisition

\* Although the cards are reserved one after the other, and given back one
\* by one when the second is refused, a process gets both at once or none,
\* and none that another process has.
Lease == INSTANCE CardLease
  WITH held <- [a \in Apps |->
                  IF pc[a] = "serving" THEN reservations[a] ELSE {}]
LeasesCards == Lease!LeaseSpec

============================================================================
