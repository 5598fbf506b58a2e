-------------------------- MODULE MCRealtimeThread --------------------------
(* What RealtimeKit may advertise, negative numbers included, for TLC. *)
EXTENDS RealtimeThread

MCAdvertised == {-1, 0, 2, 3}
MCPriorities == {-1, 0, 1, 3}

=============================================================================
