------------------------------ MODULE SafeRelay ------------------------------
(***************************************************************************)
(* What the socket promises about its load: the relay is closed only by a  *)
(* pass that saw no overcurrent in the latest power sample, and never      *)
(* while the overcurrent lock is engaged.  The firmware that keeps the     *)
(* promise is SocketControl.                                               *)
(***************************************************************************)
EXTENDS Integers

VARIABLES
  relay,   \* 1: the load is powered
  over,    \* 1: the latest power sample was above the limit
  lock     \* 1: tripped, waiting to be switched on again

vars == <<relay, over, lock>>

Init == relay = 0 /\ over = 0 /\ lock = 0

Sample == over' \in {0, 1} /\ UNCHANGED <<relay, lock>>

Trip == over = 1 /\ lock' = 1 /\ UNCHANGED <<relay, over>>

Release == over = 0 /\ lock = 1 /\ lock' = 0 /\ UNCHANGED <<relay, over>>

Close == over = 0 /\ lock = 0 /\ relay' = 1 /\ UNCHANGED <<over, lock>>

Open == relay' = 0 /\ UNCHANGED <<over, lock>>

Reset == relay' = 0 /\ over' = 0 /\ lock' = 0

Next == Sample \/ Trip \/ Release \/ Close \/ Open \/ Reset

Spec == Init /\ [][Next]_vars
=============================================================================
