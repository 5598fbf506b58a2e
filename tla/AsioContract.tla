---------------------------- MODULE AsioContract ----------------------------
(***************************************************************************)
(* What an ASIO host relies on, with one thread and no ALSA: in which      *)
(* phase bufferSwitch comes, which half it names, how the sample position  *)
(* goes with it and when sound may leave the device.  Casio.tla implements *)
(* this (KeepsContract there).                                             *)
(***************************************************************************)
EXTENDS Integers

CONSTANTS
  Block,          \* frames of a half
  Silence,        \* frames of silence that bridge an interruption
  PositionWrap    \* modulus of the sample position

VARIABLES
  phase,      \* the driver's state
  half,       \* half named by the last bufferSwitch of this run, -1 before it
  position,   \* what getSamplePosition reads
  ready,      \* the position accounts for everything up to the next start
  sounding    \* the playback stream runs

contractVars == <<phase, half, position, ready, sounding>>

Init ==
  /\ phase = "Created"
  /\ half = -1
  /\ position = 0
  /\ ready = FALSE
  /\ sounding = FALSE

Lifecycle ==
  {<<"Created", "Initialized">>, <<"Created", "Deleted">>,
   <<"Initialized", "Prepared">>, <<"Initialized", "Deleted">>,
   <<"Prepared", "Initialized">>, <<"Prepared", "Running">>,
   <<"Prepared", "Deleted">>,
   <<"Running", "Prepared">>, <<"Running", "Initialized">>,
   <<"Running", "Deleted">>, <<"Deleted", "Created">>}

\* Every change of phase happens in silence and forgets the last half.
ChangePhase ==
  /\ <<phase, phase'>> \in Lifecycle
  /\ ~sounding /\ ~sounding'
  /\ half' = -1
  /\ ~ready'
  /\ position' \in {0, position}

\* The first bufferSwitch of a run names half 0, at position 0, in silence.
FirstSwitch ==
  /\ phase = "Running" /\ half = -1 /\ ~sounding
  /\ half' = 0
  /\ position' = 0
  /\ ready' = TRUE
  /\ UNCHANGED <<phase, sounding>>

\* Every later one names the other half, one block further on.
Switch ==
  /\ phase = "Running" /\ half # -1
  /\ half' = 1 - half
  /\ position' = (position + Block) % PositionWrap
  /\ UNCHANGED <<phase, ready, sounding>>

\* An interruption advances the position by the silence that bridges it.
Skip ==
  /\ phase = "Running" /\ half # -1 /\ ~sounding /\ ~ready
  /\ position' = (position + Silence) % PositionWrap
  /\ ready' = TRUE
  /\ UNCHANGED <<phase, half, sounding>>

\* Sound starts only once the position accounts for what came before.
Sound ==
  /\ phase = "Running" /\ ready /\ ~sounding
  /\ sounding' = TRUE
  /\ ready' = FALSE
  /\ UNCHANGED <<phase, half, position>>

Hush ==
  /\ sounding
  /\ sounding' = FALSE
  /\ UNCHANGED <<phase, half, position, ready>>

\* The stream does not start after all.
GiveUp ==
  /\ ready
  /\ ready' = FALSE
  /\ UNCHANGED <<phase, half, position, sounding>>

Next ==
  \/ ChangePhase \/ FirstSwitch \/ Switch \/ Skip \/ Sound \/ Hush \/ GiveUp

Spec == Init /\ [][Next]_contractVars

=============================================================================
