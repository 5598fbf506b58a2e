--------------------------- MODULE RealtimeThread ---------------------------
(***************************************************************************)
(* make_realtime_thread: the audio thread asks RealtimeKit for real-time   *)
(* scheduling at the start of each run.  RealtimeKit grants it only to a   *)
(* process whose RLIMIT_RTTIME is at most what it advertises, so the       *)
(* thread lowers the limit first.  A process has one audio thread at a     *)
(* time: one object holds the backend (main.cpp), and stop() joins its     *)
(* thread.  But the limit belongs to the process and stays from run to     *)
(* run, and without privilege it can never be raised again.                *)
(*                                                                         *)
(* Between any two calls RealtimeKit may stop, or come back with another   *)
(* configuration.  Every failure is ignored: the thread then runs with the *)
(* scheduling it has.                                                      *)
(***************************************************************************)
EXTENDS Integers, FiniteSetsExt

CONSTANTS
  Infinity,    \* RLIM_INFINITY, the largest rlim_t
  Initial,     \* what the hard RLIMIT_RTTIME of the process may be
  Advertised,  \* what RTTimeUSecMax may be, a signed number
  Priorities,  \* what MaxRealtimePriority may be, a signed number
  Wanted       \* 20, the priority the driver asks for at most

\* Infinity stands for the largest number of either unsigned type.
ASSUME RealtimeAssumption ==
  /\ {Infinity, Wanted} \subseteq Nat \ {0}
  /\ Initial \subseteq 0..Infinity
  /\ \A n \in Advertised : n \in Int /\ -Infinity <= n /\ n < Infinity
  /\ \A n \in Priorities : n \in Int /\ Wanted - Infinity <= n

VARIABLES
  rtkit,      \* the service: its two properties, or Absent when it, or the
              \* system bus, is out of reach
  stayed,     \* ghost: it has not changed since the thread of this run began
  limit,      \* RLIMIT_RTTIME of the process, rlim_max
  pc,         \* where the audio thread is, "none" between two runs
  target,     \* its rttime_usec_max, then its target
  priority,   \* the priority it asks for
  realtime    \* it has real-time scheduling

vars == <<rtkit, stayed, limit, pc, target, priority, realtime>>

Absent == [time |-> 0, priority |-> 0]
Services == [time : Advertised, priority : Priorities] \cup {Absent}

\* Casts to unsigned: a negative number counts down from the top, and stays
\* far above Wanted.
Unsigned(n) == IF n < 0 THEN Infinity + 1 + n ELSE n

\* Types; above all, the thread is never about to set a limit of 0, under which
\* the kernel would kill a real-time thread at once.
TypeOK ==
  /\ rtkit \in Services /\ stayed \in BOOLEAN
  /\ limit \in 0..Infinity
  /\ pc \in {"none", "time", "limit", "set", "priority", "request", "done"}
  /\ target \in 0..Infinity
  /\ pc = "set" => target > 0
  /\ priority \in 0..Wanted
  /\ realtime \in BOOLEAN /\ (realtime => pc = "done")

Init ==
  /\ rtkit \in Services /\ stayed = TRUE
  /\ limit \in Initial
  /\ pc = "none"
  /\ target = 0 /\ priority = 0
  /\ realtime = FALSE

\* The bus is released and the function returns.
Return == pc' = "done" /\ UNCHANGED <<limit, target, priority, realtime>>

\* The audio thread of a run starts.
Begin ==
  /\ pc = "none"
  /\ pc' = "time"
  /\ stayed' = TRUE
  /\ UNCHANGED <<limit, target, priority, realtime>>

ReadTime ==
  /\ pc = "time"
  /\ IF rtkit = Absent
     THEN Return
     ELSE /\ target' = Unsigned(rtkit.time)
          /\ pc' = "limit"
          /\ UNCHANGED <<limit, priority, realtime>>

\* Mutant of Target: the limit the process has is not looked at.
TargetAdvertised(time, current) == time

\* What to lower the limit to.
Target(time, current) ==
  IF current # Infinity THEN Min({time, current}) ELSE time

\* Mutant of ReadLimit: a limit of 0 is not noticed.
ReadLimitUnchecked ==
  /\ pc = "limit"
  /\ target' = Target(target, limit)
  /\ pc' = "set"
  /\ UNCHANGED <<limit, priority, realtime>>

\* getrlimit
ReadLimit ==
  /\ pc = "limit"
  /\ IF Target(target, limit) < 1
     THEN Return
     ELSE /\ target' = Target(target, limit)
          /\ pc' = "set"
          /\ UNCHANGED <<limit, priority, realtime>>

\* setrlimit: the kernel refuses to raise a hard limit.
SetLimit ==
  /\ pc = "set"
  /\ IF target > limit
     THEN Return
     ELSE /\ limit' = target
          /\ pc' = "priority"
          /\ UNCHANGED <<target, priority, realtime>>

ReadPriority ==
  /\ pc = "priority"
  /\ IF rtkit = Absent
     THEN Return
     ELSE /\ priority' = Min({Wanted, Unsigned(rtkit.priority)})
          /\ pc' = "request"
          /\ UNCHANGED <<limit, target, realtime>>

\* What RealtimeKit checks before it makes a thread real-time.
Grants ==
  /\ rtkit # Absent
  /\ limit <= rtkit.time
  /\ 1 <= priority /\ priority <= rtkit.priority

\* MakeThreadRealtime
Request ==
  /\ pc = "request"
  /\ pc' = "done"
  /\ realtime' = Grants
  /\ UNCHANGED <<limit, target, priority>>

\* The run ends, and with it the thread.
End ==
  /\ pc = "done"
  /\ pc' = "none"
  /\ target' = 0 /\ priority' = 0
  /\ realtime' = FALSE
  /\ UNCHANGED limit

\* RealtimeKit stops or starts, perhaps with another configuration.
Restart ==
  /\ rtkit' \in Services \ {rtkit} /\ stayed' = FALSE
  /\ UNCHANGED <<limit, pc, target, priority, realtime>>

Thread ==
  /\ \/ Begin
     \/ /\ \/ ReadTime \/ ReadLimit \/ SetLimit
           \/ ReadPriority \/ Request \/ End
        /\ UNCHANGED stayed
  /\ UNCHANGED rtkit

Next == Restart \/ Thread

Spec == Init /\ [][Next]_vars

----------------------------------------------------------------------------
\* With a RealtimeKit that has something to grant and stays while it is asked,
\* the audio thread of every run becomes real-time, whatever limit the process
\* began with and whatever earlier runs, under a RealtimeKit configured
\* otherwise, have left of it.
Generous == rtkit.time > 0 /\ rtkit.priority > 0

AskedMeansRealtime ==
  pc = "done" /\ stayed /\ Generous /\ limit > 0 => realtime

=============================================================================
