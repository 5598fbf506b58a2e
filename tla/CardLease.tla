----------------------------- MODULE CardLease -----------------------------
(***************************************************************************)
(* What reserving cards promises, without bus, names or calls: a process   *)
(* takes all the cards it asked for in one step, when nobody else has any  *)
(* of them, keeps them, and drops all of them in one step.                 *)
(***************************************************************************)
CONSTANTS Apps, Cards

VARIABLE held  \* the cards each process has

LeaseInit == held = [a \in Apps |-> {}]

Take(a) ==
  /\ held[a] = {}
  /\ \E wanted \in SUBSET Cards :
        /\ \A b \in Apps : held[b] \cap wanted = {}
        /\ held' = [held EXCEPT ![a] = wanted]

Drop(a) == held' = [held EXCEPT ![a] = {}]

LeaseNext == \E a \in Apps : Take(a) \/ Drop(a)

LeaseSpec == LeaseInit /\ [][LeaseNext]_held

============================================================================
