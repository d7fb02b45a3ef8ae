------------------------------ MODULE RingBuffer ------------------------------
(***************************************************************************)
(* The receive ring buffer of the AT client (ringbuff.c): the UART         *)
(* interrupt pushes bytes, the parser's task pops them one at a time and,  *)
(* after a line that did not fit, flushes the buffer with the interrupt    *)
(* enabled.  The interrupt runs to its end; it may fall between any two    *)
(* accesses of the parser's task.                                          *)
(*                                                                         *)
(* A byte is its number: the n-th byte the buffer has accepted is n.       *)
(***************************************************************************)
EXTENDS Naturals

CONSTANTS
  Size,         \* ring_buff->size: RING_BUFF_LEN
  MaxBytes      \* bytes received in a behaviour

ASSUME SizeAssumption == Size \in Nat /\ Size > 1
ASSUME BytesAssumption == MaxBytes \in Nat

VARIABLES
  buffer, readpoint, writepoint,
  pc,           \* where the parser is: "idle", "read" in ring_buff_pop_data,
                \* "writepoint" and "memset" in ring_buff_flush
  i,            \* the byte memset clears next
  accepted,     \* bytes the buffer accepted
  received,     \* bytes the interrupt was given
  taken,        \* number of the last byte that left the buffer
  spoiled,      \* number of the last byte accepted during a flush
  out           \* what ring_buff_pop_data returned last

vars == <<buffer, readpoint, writepoint, pc, i, accepted, received, taken,
          spoiled, out>>

Slot == 0..Size - 1
Flushing == pc \in {"writepoint", "memset"}
NUL == 0

Succ(p) == IF p = Size - 1 THEN 0 ELSE p + 1

\* at_client_para_init: ring_buff_init has cleared the buffer, and its parser
\* starts.
Init ==
  /\ buffer = [s \in Slot |-> NUL]
  /\ readpoint = 0 /\ writepoint = 0
  /\ pc = "idle" /\ i = 0
  /\ accepted = 0 /\ received = 0 /\ taken = 0 /\ spoiled = 0 /\ out = 0

-----------------------------------------------------------------------------
(* The interrupt.  USART2_IRQHandler pushes one byte each time it runs; when *)
(* only the overrun flag has raised it, that byte is what the stack held.    *)

Full == Succ(writepoint) = readpoint

Accept ==
  /\ writepoint' = Succ(writepoint)
  /\ buffer' = [buffer EXCEPT ![Succ(writepoint)] = accepted + 1]
  /\ accepted' = accepted + 1
  /\ spoiled' = IF Flushing THEN accepted + 1 ELSE spoiled

\* RINGBUFF_FULL, which the handler ignores.
Drop == UNCHANGED <<writepoint, buffer, accepted, spoiled>>

\* Mutant: the last free slot is used, and full looks like empty.
PushIntoLastSlot ==
  /\ received < MaxBytes /\ received' = received + 1
  /\ Accept
  /\ UNCHANGED <<readpoint, pc, i, taken, out>>

\* Mutant: two slots stay free.
PushLeavesTwoFree ==
  /\ received < MaxBytes /\ received' = received + 1
  /\ \/ ~Full /\ Succ(Succ(writepoint)) # readpoint /\ Accept
     \/ (Full \/ Succ(Succ(writepoint)) = readpoint) /\ Drop
  /\ UNCHANGED <<readpoint, pc, i, taken, out>>

Push ==
  /\ received < MaxBytes /\ received' = received + 1
  /\ \/ ~Full /\ Accept
     \/ Full /\ Drop
  /\ UNCHANGED <<readpoint, pc, i, taken, out>>

-----------------------------------------------------------------------------
(* The parser: at_client_getchar pops, at_recv_readline flushes.             *)

Advance ==
  /\ pc = "idle" /\ writepoint # readpoint
  /\ pc' = "read"
  /\ readpoint' = Succ(readpoint) /\ taken' = taken + 1
  /\ UNCHANGED <<buffer, writepoint, i, accepted, received, spoiled, out>>

Read ==
  /\ pc = "read" /\ pc' = "idle"
  /\ out' = buffer[readpoint]
  /\ UNCHANGED <<buffer, readpoint, writepoint, i, accepted, received, taken,
                 spoiled>>

\* A newline has ended a line longer than recv_bufsz.  What was received so
\* far is given up.
FlushReadpoint ==
  /\ pc = "idle" /\ out # NUL /\ pc' = "writepoint"
  /\ readpoint' = 0 /\ taken' = accepted /\ spoiled' = accepted
  /\ UNCHANGED <<buffer, writepoint, i, accepted, received, out>>

\* Mutant: the write index is left alone.
FlushKeepsWritepoint ==
  /\ pc = "writepoint" /\ pc' = "memset"
  /\ taken' = accepted /\ i' = 0
  /\ UNCHANGED <<buffer, readpoint, writepoint, accepted, received, spoiled,
                 out>>

FlushWritepoint ==
  /\ pc = "writepoint" /\ pc' = "memset"
  /\ writepoint' = 0 /\ taken' = accepted /\ i' = 0
  /\ UNCHANGED <<buffer, readpoint, accepted, received, spoiled, out>>

\* Mutant: memset is entered again and again.
ClearForever ==
  /\ pc = "memset"
  /\ buffer' = [buffer EXCEPT ![i] = NUL]
  /\ i' = IF i = Size - 1 THEN 0 ELSE i + 1
  /\ UNCHANGED <<readpoint, writepoint, pc, accepted, received, taken,
                 spoiled, out>>

\* One byte of the memset; the flush returns after the last one.
ClearByte ==
  /\ pc = "memset"
  /\ buffer' = [buffer EXCEPT ![i] = NUL]
  /\ i' = IF i = Size - 1 THEN 0 ELSE i + 1
  /\ pc' = IF i = Size - 1 THEN "idle" ELSE "memset"
  /\ UNCHANGED <<readpoint, writepoint, accepted, received, taken, spoiled,
                 out>>

Pop == Advance \/ Read
Flush == FlushReadpoint \/ FlushWritepoint \/ ClearByte
Parser == Pop \/ Flush

Next == Push \/ Parser

Spec == Init /\ [][Next]_vars

\* The parser's task polls the buffer without end and shares the processor.
FairSpec == Spec /\ WF_vars(Parser)

-----------------------------------------------------------------------------
TypeOK ==
  /\ buffer \in [Slot -> 0..MaxBytes]
  /\ readpoint \in Slot /\ writepoint \in Slot /\ i \in Slot
  /\ pc \in {"idle", "read", "writepoint", "memset"}
  /\ received \in 0..MaxBytes /\ accepted \in 0..received
  /\ taken \in 0..accepted /\ spoiled \in 0..accepted
  /\ out \in 0..MaxBytes

\* Bytes come out once, in the order they came in and as they came in: the
\* interrupt never reuses the slot the parser has stepped to and not read.
\* Only a byte received while the buffer was being flushed may come out as
\* NUL.  (Between two pops the last one returned byte number taken, unless a
\* flush has skipped over the rest.)
OutIsNext ==
  pc = "idle" /\ taken > spoiled => out = taken

\* The slot k places after p.
Forward(p, k) == IF p + k < Size THEN p + k ELSE p + k - Size

\* Slot s holds byte n, unless a flush has cleared it.
Holds(s, n) == buffer[s] = n \/ (buffer[s] = NUL /\ n <= spoiled)

\* The slots from the read to the write index hold the accepted bytes that
\* have not left, each at its place, and so does the slot the parser has
\* stepped to; the interrupt cannot overwrite any of them.
Contents ==
  /\ pc # "writepoint" =>
       /\ writepoint = Forward(readpoint, accepted - taken)
       /\ accepted - taken < Size
       /\ \A k \in 1..accepted - taken :
            Holds(Forward(readpoint, k), taken + k)
  /\ pc = "read" => Holds(readpoint, taken)

\* The interrupt loses a byte only when all slots but one hold bytes that
\* have not left, or into a flush.
DropsOnlyWhenFull ==
  [][received' # received /\ accepted' = accepted
       => accepted - taken = Size - 1 \/ Flushing]_vars

\* Every byte the buffer accepts leaves it: the two indices cannot drift
\* apart so that the parser takes a buffer with bytes for an empty one.
BytesLeave == \A n \in 1..MaxBytes : (accepted >= n) ~> (taken >= n)
=============================================================================
