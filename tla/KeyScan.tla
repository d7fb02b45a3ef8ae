------------------------------- MODULE KeyScan -------------------------------
(***************************************************************************)
(* key.c: the timer interrupt runs key_scan, which shifts the key's level  *)
(* into a two-bit state and hands it over in key_ret; user_task calls      *)
(* key_read, whose two statements the interrupt may separate, and counts a *)
(* click when a run of nonzero answers ends (user_task.c).                 *)
(***************************************************************************)
EXTENDS Integers

CONSTANT MaxPresses      \* presses the scans observe

ASSUME MaxPressesAssumption == MaxPresses \in Nat

VARIABLES
  level,        \* the key is down
  key_state,    \* 2 * previous level + current level
  key_ret,
  key_is_read,
  rpc,          \* key_read: between its statements or not
  held,         \* user_task is in the loop that waits for the release
  presses,      \* rising edges scanned
  clicks        \* releases user_task has seen

vars == <<level, key_state, key_ret, key_is_read, rpc, held, presses, clicks>>

KEY_STATE_RELEASE == 0
KEY_STATE_RISING  == 1
KEY_STATE_FALLING == 2
KEY_STATE_PUSH    == 3
KeyState == {KEY_STATE_RELEASE, KEY_STATE_RISING, KEY_STATE_FALLING,
             KEY_STATE_PUSH}

Init ==
  /\ level = 0 /\ key_state = KEY_STATE_RELEASE
  /\ key_ret = 0 /\ key_is_read = 1
  /\ rpc = "call" /\ held = 0
  /\ presses = 0 /\ clicks = 0

\* The finger on the key.
Finger ==
  /\ \/ level = 1
     \/ presses < MaxPresses
  /\ level' = 1 - level
  /\ UNCHANGED <<key_state, key_ret, key_is_read, rpc, held, presses, clicks>>

\* The new state: the current level moves up, the level just read moves in.
Shifted == 2 * (key_state % 2) + level

\* Mutant: the scan that follows a read does not hand its state over.
ScanHandsNothing ==
  /\ key_state' = Shifted
  /\ presses' = IF Shifted = KEY_STATE_RISING THEN presses + 1 ELSE presses
  /\ \/ /\ key_is_read = 1
        /\ key_is_read' = 0 /\ UNCHANGED key_ret
     \/ /\ key_is_read = 0
        /\ key_ret' = IF Shifted # 0 THEN Shifted ELSE key_ret
        /\ UNCHANGED key_is_read
  /\ UNCHANGED <<level, rpc, held, clicks>>

\* The interrupt is one step: nothing preempts it on this core.
key_scan ==
  /\ key_state' = Shifted
  /\ presses' = IF Shifted = KEY_STATE_RISING THEN presses + 1 ELSE presses
  /\ \/ /\ key_is_read = 1
        /\ key_is_read' = 0 /\ key_ret' = Shifted
     \/ /\ key_is_read = 0
        /\ key_ret' = IF Shifted # 0 THEN Shifted ELSE key_ret
        /\ UNCHANGED key_is_read
  /\ UNCHANGED <<level, rpc, held, clicks>>

\* Mutant: reading does not release the slot.
ReadKeepsFlag ==
  /\ rpc = "call" /\ rpc' = "return"
  /\ UNCHANGED <<level, key_state, key_ret, key_is_read, held, presses,
                 clicks>>

\* key_is_read = 1;
key_read_flag ==
  /\ rpc = "call" /\ rpc' = "return"
  /\ key_is_read' = 1
  /\ UNCHANGED <<level, key_state, key_ret, held, presses, clicks>>

\* Mutant: the answer is consumed by the read.
ReadConsumes ==
  /\ rpc = "return" /\ rpc' = "call"
  /\ held' = IF key_ret # 0 THEN 1 ELSE 0
  /\ clicks' = IF held = 1 /\ key_ret = 0 THEN clicks + 1 ELSE clicks
  /\ key_ret' = 0
  /\ UNCHANGED <<level, key_state, key_is_read, presses>>

\* return key_ret; user_task waits while the answers are nonzero, and a
\* zero ends the wait.
key_read_return ==
  /\ rpc = "return" /\ rpc' = "call"
  /\ held' = IF key_ret # 0 THEN 1 ELSE 0
  /\ clicks' = IF held = 1 /\ key_ret = 0 THEN clicks + 1 ELSE clicks
  /\ UNCHANGED <<level, key_state, key_ret, key_is_read, presses>>

Next == Finger \/ key_scan \/ key_read_flag \/ key_read_return

Spec == Init /\ [][Next]_vars

\* The timer keeps interrupting and user_task keeps polling.
FairSpec ==
  Spec /\ WF_vars(key_scan) /\ WF_vars(key_read_flag \/ key_read_return)

-----------------------------------------------------------------------------
TypeOK ==
  /\ level \in {0, 1} /\ key_state \in KeyState /\ key_ret \in KeyState
  /\ key_is_read \in {0, 1} /\ rpc \in {"call", "return"}
  /\ held \in {0, 1} /\ presses \in 0..MaxPresses
  /\ clicks \in 0..MaxPresses

\* Every wait for a release, finished or under way, stems from a press of its
\* own, wherever the interrupt falls in key_read: no press counts twice.
ClicksFollowPresses == clicks + held <= presses

\* A key that stays up is eventually reported up, also when the interrupt
\* has just left a nonzero state nobody has read.
ReleaseIsSeen == held = 1 ~> (held = 0 \/ level = 1)

\* A key that stays down is eventually reported down.
PressIsSeen == level = 1 ~> (held = 1 \/ level = 0)
=============================================================================
