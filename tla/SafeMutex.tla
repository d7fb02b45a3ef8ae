------------------------------- MODULE SafeMutex -------------------------------
(***************************************************************************)
(* What a set of mutexes promises: one owner each, who alone gives it up;  *)
(* a mutex that is given up while tasks wait for it passes to one of them, *)
(* so that nobody barges in before them; only a task that ends leaves its  *)
(* mutexes to whoever comes next, and then nobody is left waiting.  The    *)
(* kernel that keeps the promise is Kernel.                                *)
(***************************************************************************)
CONSTANTS Task, Mutex, NoTask, NoMutex

VARIABLES
  owner,        \* of each mutex
  waits         \* the mutex each task waits for

vars == <<owner, waits>>

Init ==
  /\ owner = [m \in Mutex |-> NoTask]
  /\ waits = [t \in Task |-> NoMutex]

Waiters(m) == {t \in Task : waits[t] = m}

Take(t, m) ==
  /\ waits[t] = NoMutex /\ owner[m] = NoTask
  /\ owner' = [owner EXCEPT ![m] = t]
  /\ UNCHANGED waits

Wait(t, m) ==
  /\ waits[t] = NoMutex /\ owner[m] \notin {NoTask, t}
  /\ waits' = [waits EXCEPT ![t] = m]
  /\ UNCHANGED owner

Release(m) ==
  /\ Waiters(m) = {}
  /\ owner' = [owner EXCEPT ![m] = NoTask]
  /\ UNCHANGED waits

\* The owner does not wait for anything when it gives the mutex up.
PassOn(m, heir) ==
  /\ owner[m] # NoTask /\ waits[owner[m]] = NoMutex /\ heir \in Waiters(m)
  /\ owner' = [owner EXCEPT ![m] = heir]
  /\ waits' = [waits EXCEPT ![heir] = NoMutex]

\* One interrupt may end several waits.
GiveUp(tasks) ==
  /\ waits' = [t \in Task |-> IF t \in tasks THEN NoMutex ELSE waits[t]]
  /\ UNCHANGED owner

Die(t) ==
  /\ owner' = [m \in Mutex |-> IF owner[m] = t THEN NoTask ELSE owner[m]]
  /\ waits' = [u \in Task |->
                 IF waits[u] # NoMutex /\ owner[waits[u]] = t
                   THEN NoMutex ELSE waits[u]]

Next ==
  \/ \E t \in Task : Die(t) \/ \E m \in Mutex : Take(t, m) \/ Wait(t, m)
  \/ \E m \in Mutex : Release(m) \/ \E heir \in Task : PassOn(m, heir)
  \/ \E tasks \in SUBSET Task : GiveUp(tasks)

Spec == Init /\ [][Next]_vars
=============================================================================
