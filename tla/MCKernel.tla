------------------------------- MODULE MCKernel -------------------------------
(* Values for the constants of Kernel: three tasks of different priorities.  *)
EXTENDS Kernel, TLC

CONSTANTS high, mid, low, A, B

MCCreations == {high :> 1 @@ mid :> 2 @@ low :> 3}

\* Two tasks nest their mutexes in either order: they may even lock each other
\* out, but a wait may be timed.
MCLocks == (high :> {A, B}) @@ (mid :> {A}) @@ (low :> {A, B})
=============================================================================
