----------------------------- MODULE FlashSearch -----------------------------
(***************************************************************************)
(* flash_search of user_utils.c: a binary search for the last programmed   *)
(* double word of the energy log.  The first n double words are            *)
(* programmed, the rest are blank; the double word past the region, which  *)
(* the loop reads as ptr[mid+1], is whatever the chip has there.           *)
(***************************************************************************)
EXTENDS Integers

CONSTANT Max        \* double words in the region: USER_FLASH_SIZE / 8

ASSUME MaxAssumption == Max \in Nat \ {0}

VARIABLES
  n,            \* programmed double words
  past,         \* 1: the double word after the region reads as programmed
  low, high,
  result        \* the index returned, NULL, or Searching

vars == <<n, past, low, high, result>>

NULL == -1
Searching == -2

Programmed(i) == IF i = Max THEN past = 1 ELSE i < n

Init ==
  /\ n \in 0..Max /\ past \in {0, 1}
  /\ low = 0 /\ high = Max /\ result = Searching

mid == low + (high - low) \div 2

\* Mutant: the successor of mid is not looked at.
ReturnAnyProgrammed ==
  /\ result = Searching /\ low <= high
  /\ \/ mid = Max
     \/ Programmed(mid)
  /\ result' = mid
  /\ UNCHANGED <<n, past, low, high>>

\* mid is one past the region, or the last programmed double word.
Return ==
  /\ result = Searching /\ low <= high
  /\ \/ mid = Max
     \/ Programmed(mid) /\ ~Programmed(mid + 1)
  /\ result' = mid
  /\ UNCHANGED <<n, past, low, high>>

GoLeft ==
  /\ result = Searching /\ low <= high /\ mid # Max
  /\ ~Programmed(mid)
  /\ high' = mid - 1
  /\ UNCHANGED <<n, past, low, result>>

\* Mutant: the left bound keeps mid.
GoRightSlowly ==
  /\ result = Searching /\ low <= high /\ mid # Max
  /\ Programmed(mid) /\ Programmed(mid + 1)
  /\ low' = mid
  /\ UNCHANGED <<n, past, high, result>>

GoRight ==
  /\ result = Searching /\ low <= high /\ mid # Max
  /\ Programmed(mid) /\ Programmed(mid + 1)
  /\ low' = mid + 1
  /\ UNCHANGED <<n, past, high, result>>

NotFound ==
  /\ result = Searching /\ low > high
  /\ result' = NULL
  /\ UNCHANGED <<n, past, low, high>>

Next == Return \/ GoLeft \/ GoRight \/ NotFound

Spec == Init /\ [][Next]_vars

\* The loop runs in one task and nothing holds it up.
FairSpec == Spec /\ WF_vars(Next)

-----------------------------------------------------------------------------
TypeOK ==
  /\ n \in 0..Max /\ past \in {0, 1}
  /\ low \in 0..Max /\ high \in -1..Max
  /\ result \in -2..Max

\* What the comment above flash_search promises: the last programmed double
\* word, or NULL when there is none.  Of a full region it is the last one
\* only if the double word read past the end is blank; otherwise the answer
\* is one past the region.
Expected ==
  CASE n = 0 -> NULL
    [] n = Max /\ past = 1 -> Max
    [] OTHER -> n - 1

FindsLast == result # Searching => result = Expected

Terminates == <>(result # Searching)
=============================================================================
