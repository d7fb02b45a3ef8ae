--------------------------- MODULE RingBufferProofs ---------------------------
(***************************************************************************)
(* Proofs about RingBuffer for a buffer of any size and any number of      *)
(* bytes.  The inductive invariant IInv says where every accepted byte is: *)
(* Contents, and what the parser's own flush has left behind.              *)
(***************************************************************************)
EXTENDS RingBuffer, TLAPS

USE SizeAssumption, BytesAssumption DEF Slot, Succ, NUL

\* While the parser is in ring_buff_flush every accepted byte may be cleared,
\* and the read index is back at the first slot.
FlushInv == Flushing => spoiled = accepted /\ readpoint = 0

IInv == TypeOK /\ Contents /\ FlushInv /\ OutIsNext

\* One step more is the next slot.
LEMMA ForwardSucc ==
  ASSUME NEW p \in Slot, NEW k \in Nat, k + 1 < Size
  PROVE  /\ Forward(p, k) \in Slot
         /\ Succ(Forward(p, k)) = Forward(p, k + 1)
         /\ Forward(Succ(p), k) = Forward(p, k + 1)
  BY DEF Forward

\* Steps of less than a turn end in different slots.
LEMMA ForwardInjective ==
  ASSUME NEW p \in Slot, NEW j \in Nat, NEW k \in Nat, j < k, k < Size
  PROVE  /\ Forward(p, j) # Forward(p, k)
         /\ Forward(p, k) \in Slot
         /\ Forward(p, j) \in Slot
         /\ Forward(p, 0) = p
  BY DEF Forward

\* A whole turn comes back: the buffer that is one short of it is full.
LEMMA FullTurn ==
  ASSUME NEW p \in Slot
  PROVE  Succ(Forward(p, Size - 1)) = p
  BY DEF Forward

\* Every variable of RingBuffer keeps its type.
LEMMA TypeStep == TypeOK /\ Contents /\ [Next]_vars => TypeOK'
  <1> SUFFICES ASSUME TypeOK, Contents, [Next]_vars
               PROVE  TypeOK'
    OBVIOUS
  <1> USE DEF TypeOK
  <1>1. CASE Push
    <2>1. CASE ~Full /\ Accept
      <3>1. /\ writepoint' \in Slot /\ buffer' \in [Slot -> 0..MaxBytes]
            /\ accepted' \in 0..received' /\ received' \in 0..MaxBytes
        BY <1>1, <2>1 DEF Push, Accept
      <3> QED
        BY <1>1, <2>1, <3>1 DEF Push, Accept
    <2>2. CASE Full /\ Drop
      BY <1>1, <2>2 DEF Push, Drop
    <2> QED
      BY <1>1, <2>1, <2>2 DEF Push
  <1>2. CASE Advance
    <2>1. accepted - taken # 0
      BY <1>2 DEF Advance, Contents, Forward
    <2> QED
      BY <1>2, <2>1 DEF Advance
  <1>3. CASE Read
    BY <1>3 DEF Read
  <1>4. CASE FlushReadpoint
    BY <1>4 DEF FlushReadpoint
  <1>5. CASE FlushWritepoint
    BY <1>5 DEF FlushWritepoint
  <1>6. CASE ClearByte
    BY <1>6 DEF ClearByte
  <1>7. CASE UNCHANGED vars
    BY <1>7 DEF vars
  <1> QED
    BY <1>1, <1>2, <1>3, <1>4, <1>5, <1>6, <1>7
    DEF Next, Parser, Pop, Flush

\* The interrupt leaves every byte that has not left at its place.
LEMMA PushKeepsContents ==
  ASSUME IInv, Push PROVE Contents'
  <1> USE DEF IInv, TypeOK
  <1>1. CASE Drop
    BY <1>1 DEF Push, Drop, Contents, Holds, Forward
  <1>2. CASE ~Full /\ Accept
    <2> DEFINE d == accepted - taken
    <2>0. d \in Nat
      OBVIOUS
    <2>1. /\ pc' = pc /\ readpoint' = readpoint /\ taken' = taken
          /\ accepted' = accepted + 1 /\ writepoint' = Succ(writepoint)
          /\ buffer' = [buffer EXCEPT ![Succ(writepoint)] = accepted + 1]
          /\ spoiled' \in Nat /\ spoiled' >= spoiled
      BY <1>2 DEF Push, Accept, Flushing
    <2>2. ASSUME pc # "writepoint"
          PROVE  /\ d + 1 < Size
                 /\ Succ(writepoint) = Forward(readpoint, d + 1)
      <3>1. writepoint = Forward(readpoint, d) /\ d < Size
        BY <2>2 DEF Contents
      <3>2. d # Size - 1
        BY <3>1, <1>2, FullTurn DEF Full
      <3> QED
        <4>1. d + 1 < Size
          BY <3>1, <3>2, <2>0
        <4> QED
          BY <3>1, <4>1, <2>0, ForwardSucc
    <2>3. ASSUME pc # "writepoint", NEW k \in 1..(d + 1)
          PROVE  Holds(Forward(readpoint, k), taken + k)'
      <3>1. CASE k = d + 1
        <4>1. Forward(readpoint, k) \in Slot
          BY <2>2, <2>3, <2>0, <3>1 DEF Forward
        <4> QED
          BY <2>1, <2>2, <2>3, <3>1, <4>1 DEF Holds, Forward
      <3>2. CASE k # d + 1
        <4>1. k < d + 1 /\ k \in Nat /\ d + 1 \in Nat /\ k \in 1..d
          BY <2>3, <3>2, <2>0
        <4>2. Forward(readpoint, k) # Succ(writepoint)
          BY <2>2, <2>3, <4>1, ForwardInjective
        <4>3. Holds(Forward(readpoint, k), taken + k)
          BY <2>3, <4>1 DEF Contents
        <4>4. Forward(readpoint, k) \in Slot
          BY <2>2, <2>3, <4>1, ForwardInjective
        <4> QED
          BY <2>1, <4>2, <4>3, <4>4 DEF Holds, Forward
      <3> QED
        BY <3>1, <3>2
    <2>4. ASSUME pc = "read" PROVE Holds(readpoint, taken)'
      <3>1. Holds(readpoint, taken)
        BY <2>4 DEF Contents
      <3>2. readpoint # Succ(writepoint)
        BY <2>2, <2>4, <2>0, ForwardInjective
      <3> QED
        BY <2>1, <3>1, <3>2 DEF Holds
    <2> QED
      BY <2>0, <2>1, <2>2, <2>3, <2>4 DEF Contents, Forward
  <1> QED
    BY <1>1, <1>2 DEF Push

\* The parser takes the slots in their order.
LEMMA AdvanceKeepsContents ==
  ASSUME IInv, Advance PROVE Contents'
  <1> USE DEF IInv, TypeOK
  <1> DEFINE d == accepted - taken
  <1>1. /\ pc = "idle" /\ pc' = "read" /\ readpoint' = Succ(readpoint)
        /\ taken' = taken + 1 /\ accepted' = accepted
        /\ writepoint' = writepoint /\ buffer' = buffer /\ spoiled' = spoiled
    BY DEF Advance
  <1>2. /\ d \in Nat /\ d < Size /\ d # 0
        /\ writepoint = Forward(readpoint, d)
    BY <1>1 DEF Advance, Contents, Forward
  <1>3. writepoint' = Forward(readpoint', accepted' - taken')
    BY <1>1, <1>2 DEF Forward
  <1>4. ASSUME NEW k \in 1..(d - 1)
        PROVE  Holds(Forward(readpoint, k), taken + k)'
    <2>1. Forward(Succ(readpoint), k) = Forward(readpoint, k + 1)
      BY <1>2, <1>4, ForwardSucc
    <2>2. Holds(Forward(readpoint, k + 1), taken + (k + 1))
      BY <1>1, <1>2, <1>4 DEF Contents
    <2> QED
      BY <1>1, <2>1, <2>2 DEF Holds, Forward
  <1>5. Holds(readpoint, taken)'
    <2>1. Holds(Forward(readpoint, 1), taken + 1)
      BY <1>1, <1>2 DEF Contents
    <2>2. Forward(readpoint, 1) = Succ(readpoint)
      BY DEF Forward
    <2> QED
      BY <1>1, <2>1, <2>2 DEF Holds
  <1> QED
    BY <1>1, <1>2, <1>3, <1>4, <1>5 DEF Contents

\* No step of either side breaks the inductive invariant.
LEMMA InvStep == IInv /\ [Next]_vars => IInv'
  <1> SUFFICES ASSUME IInv, [Next]_vars
               PROVE  Contents' /\ FlushInv' /\ OutIsNext'
    BY TypeStep DEF IInv
  <1> USE DEF IInv, TypeOK
  <1>1. CASE Push
    <2>1. Contents'
      BY <1>1, PushKeepsContents
    <2>2. FlushInv' /\ OutIsNext'
      BY <1>1 DEF Push, Accept, Drop, Full, FlushInv, OutIsNext, Flushing
    <2> QED
      BY <2>1, <2>2
  <1>2. CASE Advance
    <2>1. Contents'
      BY <1>2, AdvanceKeepsContents
    <2>2. FlushInv' /\ OutIsNext'
      BY <1>2 DEF Advance, FlushInv, OutIsNext, Flushing
    <2> QED
      BY <2>1, <2>2
  <1>3. CASE Read
    <2>1. Contents'
      BY <1>3 DEF Read, Contents, Holds, Forward
    <2>2. FlushInv' /\ OutIsNext'
      BY <1>3 DEF Read, FlushInv, OutIsNext, Flushing, Contents, Holds
    <2> QED
      BY <2>1, <2>2
  <1>4. CASE FlushReadpoint
    BY <1>4
    DEF FlushReadpoint, Contents, Holds, FlushInv, OutIsNext, Flushing
  <1>5. CASE FlushWritepoint
    BY <1>5 DEF FlushWritepoint, Contents, Holds, Forward, FlushInv,
                OutIsNext, Flushing
  <1>6. CASE ClearByte
    <2>1. /\ buffer' = [buffer EXCEPT ![i] = NUL] /\ readpoint' = readpoint
          /\ writepoint' = writepoint /\ accepted' = accepted
          /\ taken' = taken /\ spoiled' = spoiled /\ pc = "memset"
          /\ pc' \in {"idle", "memset"} /\ spoiled = accepted
          /\ readpoint = 0
      BY <1>6 DEF ClearByte, FlushInv, Flushing
    <2>2. ASSUME NEW k \in 1..(accepted - taken)
          PROVE  Holds(Forward(readpoint, k), taken + k)'
      <3>1. Holds(Forward(readpoint, k), taken + k)
        BY <2>1, <2>2 DEF Contents
      <3>2. Forward(readpoint, k) \in Slot
        BY <2>1, <2>2 DEF Contents, Forward
      <3>3. taken + k <= spoiled
        BY <2>1, <2>2
      <3> HIDE DEF TypeOK
      <3>4. Forward(readpoint, k)' = Forward(readpoint, k)
        BY <2>1 DEF Forward
      <3> QED
        BY <2>1, <3>1, <3>2, <3>3, <3>4 DEF Holds, TypeOK
    <2>3. Contents'
      BY <2>1, <2>2 DEF Contents, Forward
    <2> QED
      BY <2>1, <2>3 DEF FlushInv, OutIsNext, Flushing
  <1>7. CASE UNCHANGED vars
    BY <1>7 DEF vars, Contents, Holds, Forward, FlushInv, OutIsNext, Flushing
  <1> QED
    BY <1>1, <1>2, <1>3, <1>4, <1>5, <1>6, <1>7
    DEF Next, Parser, Pop, Flush

\* The cleared buffer satisfies it.
LEMMA InvInit == Init => IInv
  BY DEF Init, IInv, TypeOK, Contents, FlushInv, Flushing, OutIsNext, Forward

\* Every variable keeps its type, the indices stay inside the buffer.
THEOREM TypeCorrect == Spec => []TypeOK
  <1>1. Spec => []IInv
    BY InvInit, InvStep, PTL DEF Spec
  <1>2. IInv => TypeOK
    BY DEF IInv
  <1> QED
    BY <1>1, <1>2, PTL

\* The slots between the two indices hold what has not been taken, in order.
THEOREM ContentsKept == Spec => []Contents
  <1>1. Spec => []IInv
    BY InvInit, InvStep, PTL DEF Spec
  <1>2. IInv => Contents
    BY DEF IInv
  <1> QED
    BY <1>1, <1>2, PTL

\* ring_buff_pop_data returns the bytes in the order of ring_buff_push_data.
THEOREM FirstInFirstOut == Spec => []OutIsNext
  <1>1. Spec => []IInv
    BY InvInit, InvStep, PTL DEF Spec
  <1>2. IInv => OutIsNext
    BY DEF IInv
  <1> QED
    BY <1>1, <1>2, PTL

\* The interrupt loses a byte only at a full buffer or into a flush.
THEOREM LosesOnlyWhenFull == Spec => DropsOnlyWhenFull
  <1>1. IInv /\ [Next]_vars =>
          [received' # received /\ accepted' = accepted
             => accepted - taken = Size - 1 \/ Flushing]_vars
    <2> SUFFICES ASSUME IInv, Next, received' # received,
                        accepted' = accepted, ~Flushing
                 PROVE  accepted - taken = Size - 1
      BY DEF vars
    <2>1. Full /\ Drop
      BY DEF Next, Push, Parser, Pop, Flush, Advance, Read, FlushReadpoint,
             FlushWritepoint, ClearByte, Accept, IInv, TypeOK
    <2>2. writepoint = Forward(readpoint, accepted - taken)
          /\ accepted - taken < Size /\ accepted - taken \in Nat
      BY DEF IInv, Contents, Flushing, TypeOK
    <2> QED
      BY <2>1, <2>2 DEF Full, Forward, IInv, TypeOK
  <1>2. Spec => []IInv
    BY InvInit, InvStep, PTL DEF Spec
  <1> QED
    BY <1>1, <1>2, PTL DEF Spec, DropsOnlyWhenFull
=============================================================================
