-------------------------- MODULE FlashSearchProofs --------------------------
(***************************************************************************)
(* The binary search is correct for every size of the region and every     *)
(* fill of the log.                                                        *)
(***************************************************************************)
EXTENDS FlashSearch, TLAPS

\* The loop invariant.  Everything left of low is programmed and is not the
\* last; everything right of high is blank or outside the region.
LoopInv ==
  /\ low > 0 => Programmed(low - 1) /\ Programmed(low)
  /\ high < Max => ~Programmed(high + 1)

Inv == TypeOK /\ LoopInv /\ FindsLast

LEMMA Midpoint ==
  ASSUME NEW l \in Int, NEW h \in Int, l <= h
  PROVE  LET m == l + (h - l) \div 2 IN m \in Int /\ l <= m /\ m <= h /\ (m = h => l = h)
OBVIOUS

(***************************************************************************)
(* What flash_search returns, at whatever iteration.                       *)
(***************************************************************************)
THEOREM SearchCorrect == Spec => []FindsLast
<1> USE MaxAssumption
<1>1. Init => Inv
  BY DEF Init, Inv, TypeOK, LoopInv, FindsLast, Programmed, Searching
<1>2. Inv /\ [Next]_vars => Inv'
  <2> SUFFICES ASSUME Inv, [Next]_vars PROVE Inv'
    OBVIOUS
  <2> USE DEF Inv, TypeOK, LoopInv, FindsLast, Programmed, Searching, NULL
  <2>1. low <= high => /\ mid \in Int /\ low <= mid /\ mid <= high
                       /\ mid = high => low = high
    BY Midpoint DEF mid
  <2>2. CASE Return
    <3>1. result' = mid /\ low <= mid /\ mid <= high /\ mid \in Int
      BY <2>1, <2>2 DEF Return
    <3>2. mid = Max => n = Max /\ past = 1
      <4>1. mid = Max => low = Max
        BY <2>1, <2>2, <3>1 DEF Return
      <4> QED BY <4>1
    <3>3. mid # Max => /\ mid < n
                       /\ mid + 1 # Max => mid + 1 >= n
                       /\ mid + 1 = Max => past = 0
      BY <2>2, <3>1 DEF Return
    <3>4. result' = Expected
      BY <3>1, <3>2, <3>3 DEF Expected
    <3> QED BY <2>2, <3>1, <3>4 DEF Return, Expected
  <2>3. CASE GoLeft
    BY <2>1, <2>3 DEF GoLeft, Expected
  <2>4. CASE GoRight
    BY <2>1, <2>4 DEF GoRight, Expected
  <2>5. CASE NotFound
    <3>1. n = 0
      BY <2>5 DEF NotFound
    <3> QED BY <2>5, <3>1 DEF NotFound, Expected
  <2>6. CASE UNCHANGED vars
    BY <2>6 DEF vars, Expected
  <2> QED BY <2>2, <2>3, <2>4, <2>5, <2>6 DEF Next
<1> QED BY <1>1, <1>2, PTL DEF Spec, Inv
=============================================================================
