---------------------------- MODULE KeyScanProofs ----------------------------
(***************************************************************************)
(* No press counts twice, for any number of presses and wherever the scan  *)
(* interrupt falls in key_read.                                            *)
(***************************************************************************)
EXTENDS KeyScan, TLAPS

\* A nonzero answer on its way to a user_task that does not wait yet.
Announced == IF held = 0 /\ key_ret # 0 THEN 1 ELSE 0

\* A press no scan has seen.
Unscanned == IF level = 1 /\ key_state % 2 = 0 THEN 1 ELSE 0

\* A zero in key_ret is no older than the state: a nonzero state is always
\* handed over, and kept.
Pairing == key_ret = 0 => key_state = 0

IInv ==
  /\ TypeOK
  /\ Pairing
  /\ clicks + held + Announced <= presses
  /\ presses + Unscanned <= MaxPresses

\* key_scan's state keeps two bits: the last level and the one before.
LEMMA ShiftedValue ==
  ASSUME NEW s \in KeyState, NEW l \in {0, 1}
  PROVE  /\ 2 * (s % 2) + l \in KeyState
         /\ (2 * (s % 2) + l) % 2 = l
         /\ 2 * (s % 2) + l = 1 <=> s % 2 = 0 /\ l = 1
         /\ s = 0 => 2 * (s % 2) + l \in {0, 1}
BY DEF KeyState, KEY_STATE_RELEASE, KEY_STATE_RISING, KEY_STATE_FALLING,
       KEY_STATE_PUSH

LEMMA InitIInv == Init => IInv
BY MaxPressesAssumption
   DEF Init, IInv, TypeOK, Pairing, Announced, Unscanned, KeyState,
       KEY_STATE_RELEASE, KEY_STATE_RISING, KEY_STATE_FALLING, KEY_STATE_PUSH

LEMMA NextIInv == IInv /\ [Next]_vars => IInv'
<1> SUFFICES ASSUME IInv, [Next]_vars PROVE IInv'
  OBVIOUS
<1> USE MaxPressesAssumption
<1>0. /\ KeyState = {0, 1, 2, 3} /\ KEY_STATE_RISING = 1
  BY DEF KeyState, KEY_STATE_RELEASE, KEY_STATE_RISING, KEY_STATE_FALLING,
         KEY_STATE_PUSH
<1>1. CASE Finger
  BY <1>0, <1>1 DEF Finger, IInv, TypeOK, Pairing, Announced, Unscanned
<1>2. CASE key_scan
  <2> DEFINE s == Shifted
  <2>1. /\ s \in KeyState /\ s % 2 = level
        /\ s = 1 <=> key_state % 2 = 0 /\ level = 1
        /\ key_state = 0 => s \in {0, 1}
    BY ShiftedValue DEF IInv, TypeOK, Shifted
  <2>2. /\ key_state' = s
        /\ presses' = IF s = 1 THEN presses + 1 ELSE presses
        /\ key_ret' \in {s, key_ret} /\ key_is_read' \in {0, 1}
        /\ key_ret' = 0 <=> s = 0 /\ (key_ret = 0 \/ key_is_read = 1)
        /\ UNCHANGED <<level, rpc, held, clicks>>
    BY <1>0, <1>2 DEF key_scan, IInv, TypeOK
  <2> HIDE DEF s
  <2>3. presses' + Unscanned' <= MaxPresses
    BY <2>1, <2>2 DEF IInv, TypeOK, Unscanned
  <2>4. clicks' + held' + Announced' <= presses'
    BY <1>0, <2>1, <2>2 DEF IInv, TypeOK, Pairing, Announced
  <2>5. presses' \in 0..MaxPresses
    BY <2>1, <2>2 DEF IInv, TypeOK, Unscanned
  <2>6. TypeOK'
    BY <2>1, <2>2, <2>5 DEF IInv, TypeOK
  <2>7. Pairing'
    BY <2>1, <2>2 DEF IInv, TypeOK, Pairing
  <2> QED
    BY <2>3, <2>4, <2>6, <2>7 DEF IInv
<1>3. CASE key_read_flag
  BY <1>0, <1>3 DEF key_read_flag, IInv, TypeOK, Pairing, Announced, Unscanned
<1>4. CASE key_read_return
  <2>1. clicks' + held' + Announced' <= presses'
    BY <1>0, <1>4 DEF key_read_return, IInv, TypeOK, Announced
  <2>2. /\ UNCHANGED <<level, key_state, key_ret, key_is_read, presses>>
        /\ rpc' = "call" /\ held' \in {0, 1} /\ clicks' \in Nat
    BY <1>4 DEF key_read_return, IInv, TypeOK
  <2>3. clicks' \in 0..MaxPresses
    BY <1>0, <1>4 DEF key_read_return, IInv, TypeOK, Announced
  <2> QED
    BY <2>1, <2>2, <2>3 DEF IInv, TypeOK, Pairing, Unscanned
<1>5. CASE UNCHANGED vars
  BY <1>5 DEF vars, IInv, TypeOK, Pairing, Announced, Unscanned
<1> QED
  BY <1>1, <1>2, <1>3, <1>4, <1>5 DEF Next

LEMMA AlwaysIInv == Spec => []IInv
BY InitIInv, NextIInv, PTL DEF Spec

\* The types of key.c and of user_task's loop.
THEOREM TypeCorrect == Spec => []TypeOK
<1>1. IInv => TypeOK
  BY DEF IInv
<1> QED
  BY <1>1, AlwaysIInv, PTL

\* Every click user_task counts, and the wait for a release it is in, has a
\* press of its own, although key_ret keeps a nonzero state until it is read
\* and the interrupt may fall between the statements of key_read.
THEOREM NoPressCountsTwice == Spec => []ClicksFollowPresses
<1>1. IInv => ClicksFollowPresses
  BY DEF IInv, TypeOK, Announced, ClicksFollowPresses
<1> QED
  BY <1>1, AlwaysIInv, PTL
=============================================================================
