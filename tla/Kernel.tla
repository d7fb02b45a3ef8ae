-------------------------------- MODULE Kernel --------------------------------
(***************************************************************************)
(* The TencentOS-tiny kernel core under the product: ready queue, pend     *)
(* lists, mutexes with priority inheritance, the list of ticks, round      *)
(* robin and the context switch (tos_sched.c, tos_pend.c, tos_mutex.c,     *)
(* tos_task.c, tos_tick.c, tos_robin.c, tos_sys.c and the port's PendSV).  *)
(*                                                                         *)
(* A kernel call runs with interrupts disabled, then enables them and      *)
(* calls knl_sched: two steps, with the tick interrupt anywhere between.   *)
(* A smaller number is a higher priority.  An operator with a first        *)
(* argument s is the C function of its name on the kernel's state s.       *)
(* Calls nobody makes here are left out: no-wait pends, suspend and        *)
(* resume, delay abort, yield and the destruction of a mutex.  A field     *)
(* nothing reads before it is assigned again is reset, to merge states.    *)
(***************************************************************************)
EXTENDS Naturals, FiniteSets, SequencesExt, FiniteSetsExt

CONSTANTS
  Task, Idle, Mutex,
  NoTask, NoMutex,      \* K_NULL
  PrioMax,              \* TOS_CFG_TASK_PRIO_MAX
  Creations,            \* the priorities tos_task_create may be called with
  Timeouts,             \* of tos_mutex_pend_timed; FOREVER is one of them
  FOREVER,              \* TOS_TIME_FOREVER
  Delays,               \* of tos_task_delay
  Locks,                \* the mutexes each task locks
  MaxNesting,           \* the largest k_nesting_t
  MaxDeaths             \* tasks that destroy themselves in a behaviour

Thread == Task \cup {Idle}
PrioIdle == PrioMax - 1
INVALID == PrioMax      \* K_TASK_PRIO_INVALID
Prio == 0..PrioIdle

ASSUME ConstantsAssumption ==
  /\ Task # {} /\ IsFiniteSet(Task) /\ Idle \notin Task
  /\ NoTask \notin Thread /\ NoMutex \notin Mutex
  /\ PrioMax \in Nat /\ PrioMax > 1
  /\ Creations \subseteq [Task -> 0..PrioIdle - 1]
  /\ Delays \subseteq Nat \ {0} /\ Timeouts \subseteq Nat \ {0}
  /\ MaxNesting \in Nat \ {0} /\ MaxDeaths \in Nat

VARIABLES
  k,            \* the kernel's state
  pc,           \* of each task: "run", "sched" before knl_sched, "return" from
                \* tos_mutex_pend_timed
  base,         \* the priority each task was created with
  left,         \* ticks until each sleeping task is due
  asked,        \* the mutex a task's tos_mutex_pend_timed is about
  bid,          \* the priority a waiter had when it began to wait
  raised        \* the tasks that came by a mutex, or a pending priority, that
                \* is not of their own priority since they last owned none

vars == <<k, pc, base, left, asked, bid, raised>>

-----------------------------------------------------------------------------
(* tos_sched.c.  prio_mask is the set of priorities with a task.            *)

\* tos_list_del.
Unlink(list, node) ==
  RemoveAt(list, CHOOSE i \in DOMAIN list : list[i] = node)

IsPending(s, t) == s.pending_obj[t] # NoMutex
IsSleeping(s, t) == Contains(s.tick_list, t)
IsReady(s, t) == ~IsPending(s, t) /\ ~IsSleeping(s, t) /\ t \notin s.deleted

AddAt(s, t, list) ==
  LET p == s.prio[t] IN
  [s EXCEPT !.task_list[p] = list,
            !.highest_prio = IF s.task_list[p] = <<>> /\ p < @ THEN p ELSE @]

readyqueue_add_head(s, t) == AddAt(s, t, <<t>> \o s.task_list[s.prio[t]])
readyqueue_add_tail(s, t) == AddAt(s, t, Append(s.task_list[s.prio[t]], t))

readyqueue_add(s, t) ==
  IF s.prio[t] = s.prio[s.curr]
    THEN readyqueue_add_tail(s, t)
    ELSE readyqueue_add_head(s, t)

\* Mutant: highest_prio is searched before the list has lost the task.
RemoveSearchesFirst(s, t) ==
  LET p == s.prio[t]
  IN [s EXCEPT !.task_list[p] = Unlink(@, t),
               !.highest_prio = IF p = @
                                  THEN Min({q \in Prio : s.task_list[q] # <<>>})
                                  ELSE @]

readyqueue_remove(s, t) ==
  LET p == s.prio[t]
      lists == [s.task_list EXCEPT ![p] = Unlink(@, t)]
  IN [s EXCEPT !.task_list = lists,
               !.highest_prio = IF p = @
                                  THEN Min({q \in Prio : lists[q] # <<>>})
                                  ELSE @]

highest_ready_task(s) == Head(s.task_list[s.highest_prio])

-----------------------------------------------------------------------------
(* tos_sys.c.  The context switch is left to PendSV, which interrupts the   *)
(* task as soon as interrupts are enabled.                                  *)

SwitchTo(s, t) ==
  [s EXCEPT !.next = t, !.pendsv = @ \/ t # s.curr]

\* Scheduling is locked while a task destroys itself.
knl_sched(s) ==
  IF s.sched_locked THEN s ELSE SwitchTo(s, highest_ready_task(s))

-----------------------------------------------------------------------------
(* tos_tick.c: each entry holds the ticks that follow its predecessor's.    *)

\* The ticks until the i-th task of the list is due.
Due(s, i) ==
  LET due[j \in 0..Len(s.tick_list)] ==
        IF j = 0 THEN 0 ELSE due[j - 1] + s.tick_expires[s.tick_list[j]]
  IN due[i]

tick_task_place(s, t, timeout) ==
  LET len == Len(s.tick_list)
      later == {i \in 1..len :
                  \/ timeout < Due(s, i)
                  \/ timeout = Due(s, i) /\ s.prio[t] < s.prio[s.tick_list[i]]}
      at == Min(later \cup {len + 1})
      ticks == timeout - Due(s, at - 1)
  IN [s EXCEPT
       !.tick_list = InsertAt(@, at, t),
       !.tick_expires =
         [u \in Task |->
            CASE u = t -> ticks
              [] at <= len /\ u = s.tick_list[at] -> @[u] - ticks
              [] OTHER -> @[u]]]

\* Mutant: the ticks of a task that leaves early are not given to the next.
TakeoffLosesTicks(s, t) ==
  [s EXCEPT !.tick_list = Unlink(@, t), !.tick_expires[t] = 0]

tick_list_remove(s, t) ==
  LET i == CHOOSE j \in DOMAIN s.tick_list : s.tick_list[j] = t
      rest == RemoveAt(s.tick_list, i)
  IN [s EXCEPT
       !.tick_list = rest,
       !.tick_expires =
         [u \in Task |->
            CASE u = t -> 0
              [] i <= Len(rest) /\ u = rest[i] -> @[u] + @[t]
              [] OTHER -> @[u]]]

-----------------------------------------------------------------------------
(* tos_pend.c.                                                             *)

pend_list_add(s, t, m) ==
  LET list == s.pend_list[m]
      behind == {i \in DOMAIN list : s.prio[t] < s.prio[list[i]]}
  IN [s EXCEPT
       !.pend_list[m] = InsertAt(@, Min(behind \cup {Len(list) + 1}), t),
       !.pending_obj[t] = m]

\* Mutant: a waiting task keeps its place.
AdjustNothing(s, t) == s

pend_list_adjust(s, t) ==
  LET m == s.pending_obj[t]
  IN pend_list_add([s EXCEPT !.pend_list[m] = Unlink(@, t)], t, m)

pend_highest_pending_prio_get(s, m) ==
  IF s.pend_list[m] = <<>> THEN INVALID ELSE s.prio[Head(s.pend_list[m])]

pend_list_remove(s, t) ==
  [s EXCEPT !.pend_list[s.pending_obj[t]] = Unlink(@, t),
            !.pending_obj[t] = NoMutex]

pend_task_wakeup(s, t, state) ==
  LET s1 == IF IsPending(s, t)
              THEN pend_list_remove([s EXCEPT !.pend_state[t] = state], t)
              ELSE s
      s2 == IF IsSleeping(s1, t) THEN tick_list_remove(s1, t) ELSE s1
  IN readyqueue_add(s2, t)

pend_task_block(s, t, m, timeout) ==
  LET s1 == [readyqueue_remove(s, t) EXCEPT !.pend_state[t] = "NONE"]
      s2 == pend_list_add(s1, t, m)
  IN IF timeout = FOREVER THEN s2 ELSE tick_task_place(s2, t, timeout)

pend_wakeup_all(s, m, state) ==
  LET n == Len(s.pend_list[m])
      woken[i \in 0..n] ==
        IF i = 0 THEN s
        ELSE pend_task_wakeup(woken[i - 1], Head(woken[i - 1].pend_list[m]), state)
  IN woken[n]

-----------------------------------------------------------------------------
(* tos_task.c.                                                             *)

task_highest_pending_prio_get(s, t) ==
  Min({INVALID} \cup {pend_highest_pending_prio_get(s, m) :
                        m \in ToSet(s.mutex_own_list[t])})

\* A task that others wait for keeps their priority; its new one is pending.
tos_task_prio_change(s, t, prio_new) ==
  IF prio_new >= PrioIdle THEN s
  ELSE IF s.prio[t] = prio_new THEN knl_sched(s)
  ELSE
    LET top == task_highest_pending_prio_get(s, t)
        held == s.mutex_own_list[t] # <<>> /\ prio_new > top
        p == IF held THEN top ELSE prio_new
        s1 == IF held THEN [s EXCEPT !.prio_pending[t] = prio_new] ELSE s
        ranked == [s1 EXCEPT !.prio[t] = p]
        unready == [readyqueue_remove(s1, t) EXCEPT !.prio[t] = p]
    IN knl_sched(
         CASE IsPending(s, t) -> pend_list_adjust(ranked, t)
           [] ~IsPending(s, t) /\ IsSleeping(s, t) -> ranked
           [] IsReady(s, t) /\ t = s.curr -> readyqueue_add_head(unready, t)
           [] IsReady(s, t) /\ t # s.curr -> readyqueue_add_tail(unready, t)
           [] OTHER -> s1)

-----------------------------------------------------------------------------
(* tos_mutex.c.                                                            *)

\* Mutant: only a pending priority is restored.
ReleaseOnlyPending(s, m) ==
  LET t == s.owner[m]
      s1 == [s EXCEPT !.mutex_own_list[t] = Unlink(@, m),
                      !.owner[m] = NoTask, !.pend_nesting[m] = 0,
                      !.owner_orig_prio[m] = INVALID]
  IN IF s1.prio_pending[t] = INVALID
       THEN s1
       ELSE [tos_task_prio_change(s1, t, s1.prio_pending[t])
               EXCEPT !.prio_pending[t] = INVALID]

\* Mutant: the owner falls back whoever waits for its other mutexes.
ReleaseFallsBack(s, m) ==
  LET t == s.owner[m]
      s1 == [s EXCEPT !.mutex_own_list[t] = <<>>,
                      !.owner[m] = NoTask, !.pend_nesting[m] = 0,
                      !.owner_orig_prio[m] = INVALID]
      s2 == tos_task_prio_change(s1, t, s.owner_orig_prio[m])
  IN [s2 EXCEPT !.mutex_own_list[t] = Unlink(s.mutex_own_list[t], m)]

mutex_old_owner_release(s, m) ==
  LET t == s.owner[m]
      orig == s.owner_orig_prio[m]
      s1 == [s EXCEPT !.mutex_own_list[t] = Unlink(@, m),
                      !.owner[m] = NoTask, !.pend_nesting[m] = 0,
                      !.owner_orig_prio[m] = INVALID]
  IN IF s1.prio_pending[t] # INVALID
       THEN [tos_task_prio_change(s1, t, s1.prio_pending[t])
               EXCEPT !.prio_pending[t] = INVALID]
     ELSE IF s1.prio[t] # orig
       THEN tos_task_prio_change(s1, t, orig)
     ELSE s1

mutex_fresh_owner_mark(s, m, t) ==
  [s EXCEPT !.owner[m] = t, !.owner_orig_prio[m] = s.prio[t],
            !.pend_nesting[m] = 1, !.mutex_own_list[t] = <<m>> \o @]

mutex_new_owner_mark(s, m, t) ==
  LET s1 == mutex_fresh_owner_mark(s, m, t)
      top == pend_highest_pending_prio_get(s1, m)
  IN IF s1.prio[t] > top THEN tos_task_prio_change(s1, t, top) ELSE s1

mutex_release(s, m) ==
  pend_wakeup_all(mutex_old_owner_release(s, m), m, "OWNER_DIE")

\* Mutant: a task that ends gives up only the mutex it locked last.
ReleaseOnlyLast(s, t) ==
  IF s.mutex_own_list[t] = <<>> THEN s
  ELSE mutex_release(s, Head(s.mutex_own_list[t]))

task_mutex_release(s, t) ==
  LET n == Len(s.mutex_own_list[t])
      released[i \in 0..n] ==
        IF i = 0 THEN s
        ELSE mutex_release(released[i - 1], Head(released[i - 1].mutex_own_list[t]))
  IN released[n]

-----------------------------------------------------------------------------
(* The calls of the task that runs.                                        *)

Init ==
  /\ base \in Creations
  /\ LET prio == [t \in Thread |-> IF t = Idle THEN PrioIdle ELSE base[t]]
         first == Min({base[t] : t \in Task})
         orders(p) == SetToSeqs({t \in Thread : prio[t] = p})
     IN \E lists \in [Prio -> UNION {orders(p) : p \in Prio}] :
          /\ \A p \in Prio : lists[p] \in orders(p)
          /\ k = [task_list |-> lists, highest_prio |-> first, prio |-> prio,
               prio_pending |-> [t \in Thread |-> INVALID],
               pending_obj |-> [t \in Thread |-> NoMutex],
               pend_state |-> [t \in Thread |-> "NONE"],
               tick_list |-> <<>>, tick_expires |-> [t \in Task |-> 0],
               owner |-> [m \in Mutex |-> NoTask],
               pend_nesting |-> [m \in Mutex |-> 0],
               owner_orig_prio |-> [m \in Mutex |-> INVALID],
               pend_list |-> [m \in Mutex |-> <<>>],
               mutex_own_list |-> [t \in Thread |-> <<>>],
               curr |-> Head(lists[first]), next |-> Head(lists[first]),
               pendsv |-> FALSE, sched_locked |-> FALSE,
               deleted |-> {}]
  /\ pc = [t \in Task |-> "run"]
  /\ left = [t \in Task |-> 0]
  /\ asked = [t \in Task |-> NoMutex]
  /\ bid = [t \in Task |-> INVALID]
  /\ raised = {}

\* tos_mutex_post may leave a task at the priority at which it came by a mutex.
Raised ==
  {t \in Task :
     /\ \/ t \in raised
        \/ k'.prio_pending[t] \notin {INVALID, base[t]}
        \/ \E m \in Mutex : /\ k'.owner[m] = t /\ k.owner[m] # t
                            /\ k'.owner_orig_prio[m] # base[t]
     /\ k'.mutex_own_list[t] # <<>> \/ k'.prio[t] # base[t]}

Running(t) == t = k.curr /\ ~k.pendsv /\ t \in Task

Calls(t, step) == Running(t) /\ pc[t] = step

\* tos_mutex_pend_timed, the first to come or the owner come again.
PendFree(t, m) ==
  /\ Calls(t, "run") /\ m \in Locks[t]
  /\ \/ k.pend_nesting[m] = 0 /\ k' = mutex_fresh_owner_mark(k, m, t)
     \/ /\ k.owner[m] = t /\ k.pend_nesting[m] < MaxNesting
        /\ k' = [k EXCEPT !.pend_nesting[m] = @ + 1]
  /\ raised' = Raised
  /\ UNCHANGED <<pc, base, left, asked, bid>>

\* It waits; the owner gets its priority first.
PendWait(t, m, timeout) ==
  /\ Calls(t, "run") /\ m \in Locks[t] /\ k.pend_nesting[m] > 0 /\ k.owner[m] # t
  /\ LET o == k.owner[m]
         s == IF k.prio[o] > k.prio[t]
                THEN tos_task_prio_change(k, o, k.prio[t])
                ELSE k
     IN k' = pend_task_block(s, t, m, timeout)
  /\ pc' = [pc EXCEPT ![t] = "sched"]
  /\ left' = [left EXCEPT ![t] = IF timeout = FOREVER THEN 0 ELSE timeout]
  /\ asked' = [asked EXCEPT ![t] = m]
  /\ bid' = [bid EXCEPT ![t] = k.prio[t]]
  /\ raised' = Raised
  /\ UNCHANGED base

\* pend_state2errno.
Return(t) ==
  /\ Calls(t, "return") /\ pc' = [pc EXCEPT ![t] = "run"]
  /\ k' = [k EXCEPT !.pend_state[t] = "NONE"]
  /\ bid' = [bid EXCEPT ![t] = INVALID]
  /\ asked' = [asked EXCEPT ![t] = NoMutex]
  /\ UNCHANGED <<base, left, raised>>

\* Callers unlock in the reverse of the order in which they locked.
Innermost(t, m) ==
  k.mutex_own_list[t] # <<>> /\ m = Head(k.mutex_own_list[t])

\* Mutant: the mutex is free until the waiter that was woken takes it.
PostFrees(t, m) ==
  /\ Calls(t, "run") /\ Innermost(t, m) /\ k.pend_nesting[m] = 1
  /\ LET s == mutex_old_owner_release(k, m)
     IN IF s.pend_list[m] = <<>>
          THEN k' = s /\ UNCHANGED pc
          ELSE /\ k' = pend_task_wakeup(s, Head(s.pend_list[m]), "POST")
               /\ pc' = [pc EXCEPT ![t] = "sched"]
  /\ raised' = Raised
  /\ UNCHANGED <<base, left, asked, bid>>

\* Mutant: post returns without knl_sched.
PostWithoutSched(t, m) ==
  /\ Calls(t, "run") /\ Innermost(t, m)
  /\ LET s == mutex_old_owner_release(k, m)
         heir == Head(s.pend_list[m])
     IN k' = IF k.pend_nesting[m] > 1
               THEN [k EXCEPT !.pend_nesting[m] = @ - 1]
             ELSE IF s.pend_list[m] = <<>> THEN s
             ELSE pend_task_wakeup(mutex_new_owner_mark(s, m, heir), heir,
                                   "POST")
  /\ raised' = Raised
  /\ UNCHANGED <<pc, base, left, asked, bid>>

\* tos_mutex_post: the next owner is marked here, before it runs.
Post(t, m) ==
  /\ Calls(t, "run") /\ Innermost(t, m)
  /\ LET s == mutex_old_owner_release(k, m)
         heir == Head(s.pend_list[m])
     IN IF k.pend_nesting[m] > 1
          THEN /\ k' = [k EXCEPT !.pend_nesting[m] = @ - 1]
               /\ UNCHANGED pc
        ELSE IF s.pend_list[m] = <<>>
          THEN k' = s /\ UNCHANGED pc
        ELSE /\ k' = pend_task_wakeup(mutex_new_owner_mark(s, m, heir),
                                      heir, "POST")
             /\ pc' = [pc EXCEPT ![t] = "sched"]
  /\ raised' = Raised
  /\ UNCHANGED <<base, left, asked, bid>>

\* tos_task_delay.
Delay(t, ticks) ==
  /\ Calls(t, "run")
  /\ k' = readyqueue_remove(tick_task_place(k, t, ticks), t)
  /\ pc' = [pc EXCEPT ![t] = "sched"]
  /\ left' = [left EXCEPT ![t] = ticks]
  /\ UNCHANGED <<base, asked, bid, raised>>

\* tos_task_destroy(K_NULL).
Destroy(t) ==
  /\ Calls(t, "run") /\ Cardinality(k.deleted) < MaxDeaths
  /\ LET s1 == task_mutex_release([k EXCEPT !.sched_locked = TRUE], t)
         s2 == readyqueue_remove(s1, t)
     IN k' = [s2 EXCEPT !.prio_pending[t] = INVALID,
                        !.pend_state[t] = "NONE",
                        !.sched_locked = FALSE,
                        !.deleted = @ \cup {t}]
  /\ pc' = [pc EXCEPT ![t] = "sched"]
  /\ UNCHANGED <<base, left, asked, bid, raised>>

\* The knl_sched that ends a call.
Sched(t) ==
  /\ Calls(t, "sched") /\ k' = knl_sched(k)
  /\ pc' = [pc EXCEPT ![t] = IF asked[t] = NoMutex THEN "run" ELSE "return"]
  /\ UNCHANGED <<base, left, asked, bid, raised>>

-----------------------------------------------------------------------------
(* The interrupts.                                                         *)

WakeFirst(s) ==
  IF s.tick_list = <<>> \/ s.tick_expires[Head(s.tick_list)] > 0
    THEN s
    ELSE pend_task_wakeup(s, Head(s.tick_list), "TIMEOUT")

WakeDue(s) ==
  LET n == Len(s.tick_list)
      woken[i \in 0..n] == IF i = 0 THEN s ELSE WakeFirst(woken[i - 1])
  IN woken[n]

tick_update(s) ==
  IF s.tick_list = <<>>
    THEN s
    ELSE WakeDue([s EXCEPT !.tick_expires[Head(s.tick_list)] =
                             IF @ <= 1 THEN 0 ELSE @ - 1])

\* The slice of the first task is up at some ticks; how long it is is left out.
robin_sched(s, up) ==
  LET list == s.task_list[s.prio[s.curr]]
  IN IF Len(list) < 2 \/ list[1] = Idle \/ ~up
       THEN s
       ELSE [s EXCEPT !.task_list[s.prio[s.curr]] = Append(Tail(list), list[1])]

\* SysTick: tos_tick_handler between tos_knl_irq_enter and tos_knl_irq_leave.
Tick(up) ==
  /\ LET s == robin_sched(tick_update(k), up)
     IN k' = SwitchTo(s, highest_ready_task(s))
  /\ left' = [t \in Task |->
                IF IsSleeping(k, t) /\ left[t] > 0 THEN left[t] - 1 ELSE left[t]]
  /\ UNCHANGED <<pc, base, asked, bid, raised>>

PendSV ==
  /\ k.pendsv /\ k' = [k EXCEPT !.curr = k.next, !.pendsv = FALSE]
  /\ UNCHANGED <<pc, base, left, asked, bid, raised>>

TaskStep(t) ==
  \/ \E m \in Mutex :
       \/ PendFree(t, m) \/ Post(t, m)
       \/ \E timeout \in Timeouts : PendWait(t, m, timeout)
  \/ \E ticks \in Delays : Delay(t, ticks)
  \/ Destroy(t) \/ Sched(t) \/ Return(t)

Next == (\E t \in Task : TaskStep(t)) \/ (\E up \in BOOLEAN : Tick(up)) \/ PendSV

Spec == Init /\ [][Next]_vars

-----------------------------------------------------------------------------
(* Properties.                                                             *)

\* The ready queue holds each ready task once, under its present priority, and
\* the cached highest_prio is the best of theirs, whatever inheritance,
\* wake-ups and the interrupt do in between.
ReadyQueueRight ==
  /\ \A t \in Thread, p \in Prio :
       Cardinality({i \in DOMAIN k.task_list[p] : k.task_list[p][i] = t})
         = IF IsReady(k, t) /\ k.prio[t] = p THEN 1 ELSE 0
  /\ k.highest_prio = Min({k.prio[t] : t \in {u \in Thread : IsReady(k, u)}})

\* A pend list is in the order of its tasks' present priorities, also when one
\* of them inherits a priority while it waits.
PendListsSorted ==
  \A m \in Mutex : \A i, j \in DOMAIN k.pend_list[m] :
    /\ k.pending_obj[k.pend_list[m][i]] = m
    /\ i < j => /\ k.pend_list[m][i] # k.pend_list[m][j]
                /\ k.prio[k.pend_list[m][i]] <= k.prio[k.pend_list[m][j]]

\* The differences in the tick list add up to the time each task has left;
\* tasks that enter, leave early and time out move nobody else's.
TickListExact ==
  \A i \in DOMAIN k.tick_list :
    LET t == k.tick_list[i] IN Due(k, i) = left[t] /\ left[t] > 0

\* The owner of a mutex runs at least at the priority each of its waiters had
\* when it began to wait, until it posts, whatever else it owns and releases.
OwnerInherits ==
  \A m \in Mutex : \A i \in DOMAIN k.pend_list[m] :
    k.prio[k.owner[m]] <= bid[k.pend_list[m][i]]

\* A task that owns no mutex is back at its own priority, if it took none
\* while it ran at another one and no waiter's priority was left pending.  (If
\* so, it can be left with that one: owner_orig_prio is remembered per mutex,
\* prio_pending once per task.)
BaseWhenFree ==
  \A t \in Task :
    k.mutex_own_list[t] = <<>> /\ t \notin raised => k.prio[t] = base[t]

\* tos_mutex_pend_timed returns K_ERR_NONE to the owner of the mutex and to
\* nobody else, whichever of post, timeout and the owner's end came first.
ReturnsOwner ==
  \A t \in Task : Calls(t, "return") =>
    /\ k.pend_state[t] = "POST" <=> k.owner[asked[t]] = t
    /\ k.pend_state[t] \in {"POST", "TIMEOUT", "OWNER_DIE"}

\* A task of the best ready priority runs, but for the pending switch and the
\* time a poster that was switched away needs to get to its knl_sched: its
\* post chose k_next_task before it woke the new owner.
RunsBest ==
  ~k.pendsv /\ (k.curr \in Task => pc[k.curr] = "run") =>
    \/ k.prio[k.curr] = k.highest_prio
    \/ \E t \in Task : t # k.curr /\ pc[t] = "sched" /\ IsReady(k, t)

\* The kernel implements the promise of the mutexes.
Promise == INSTANCE SafeMutex
             WITH owner <- k.owner, waits <- [t \in Task |-> k.pending_obj[t]]
KeepsMutexPromise == Promise!Spec

=============================================================================
