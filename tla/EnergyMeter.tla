------------------------------ MODULE EnergyMeter ------------------------------
(***************************************************************************)
(* The power meter: the HLW8032 counts pulses and sends frames without     *)
(* being asked; hlw8032_recv assembles their bytes in the receive          *)
(* interrupt and hlw8032_analyse turns pulses into watt-hours (hlw8032.c). *)
(* Bytes may be lost on the line, an interrupt may come too late, and the  *)
(* controller may restart on its own.                                      *)
(*                                                                         *)
(* A frame's bytes are left out but for its state; its pulse register and  *)
(* bit 7 of its update register follow from the pulses, and the checksum   *)
(* holds for a whole frame and for nothing put together from two.          *)
(***************************************************************************)
EXTENDS Integers

CONSTANTS
  FrameLen,     \* 24 bytes
  PfSize,       \* 65536: the size of the pulse register
  WhPulses,     \* wh_pf_cnt, from the power parameter of a valid frame
  BadWhPulses,  \* what the parameter of an invalid frame can make of it
  States,       \* the state registers sent: a subset of StateReg
  MaxPulses,    \* bound on the pulses
  MaxWh,        \* bound on info.total_wh
  MaxCount      \* bound on pf_cnt

\* 0x55, the overflow bits of voltage or current alone, that of power, bit 0,
\* and 0xAA: the parameter registers cannot be used.
StateReg == {"55", "F8", "F4", "F2", "F1", "AA"}

ASSUME MeterAssumption ==
  /\ FrameLen \in Nat \ {0} /\ PfSize \in Nat \ {0}
  /\ WhPulses \in Nat \ {0} /\ BadWhPulses \subseteq Nat
  /\ States \subseteq StateReg
  /\ MaxPulses \in Nat /\ MaxWh \in Nat /\ MaxCount \in Nat

VARIABLES
  chip,         \* pulses the meter has counted
  frame,        \* the state of the frame being sent
  sent,         \* bytes of it that have left the meter
  gap,          \* more than 20 ms since last_tick
  listening,    \* the receive interrupt is enabled
  pos,          \* of hlw8032_recv
  aligned,      \* recv_buf holds the first pos bytes of this frame
  broken,       \* a byte of this frame was lost
  taken,        \* this frame was analysed
  last_pf, pf_cnt, wh_pf_cnt,
  info,         \* info.total_wh
  counted,      \* watt-hours added to it since the controller started
  skipped       \* pulses passed over since then, while power was too small

link == <<frame, sent, gap, listening, pos, aligned, broken, taken>>
count == <<last_pf, pf_cnt, wh_pf_cnt, info, counted, skipped>>
meter == <<chip, link, count>>

\* The PF register and bit 7 of the update register, which toggles when the
\* former overflows.
pf == chip % PfSize
bit7 == (chip \div PfSize) % 2 = 1

\* The static variables of hlw8032.c; main enables the receive interrupt.
McuStarts ==
  /\ listening' = TRUE
  /\ pos' = 0 /\ aligned' = TRUE /\ gap' = TRUE
  /\ broken' = TRUE /\ taken' = FALSE
  /\ last_pf' = 0 /\ pf_cnt' = 0 /\ wh_pf_cnt' = 0
  /\ info' = 0 /\ counted' = 0 /\ skipped' = 0

MeterInit ==
  /\ chip = 0 /\ frame = "AA" /\ sent = FrameLen /\ listening = TRUE
  /\ pos = 0 /\ aligned = TRUE /\ gap = TRUE /\ broken = TRUE /\ taken = FALSE
  /\ last_pf = 0 /\ pf_cnt = 0 /\ wh_pf_cnt = 0
  /\ info = 0 /\ counted = 0 /\ skipped = 0

-----------------------------------------------------------------------------
\* The meter counts and sends a frame every 50 ms; the pause between two is
\* longer than the 20 ms by which hlw8032_recv tells them apart.
FrameStarts ==
  /\ sent = FrameLen /\ sent' = 0
  /\ chip' \in chip..MaxPulses /\ chip' < chip + PfSize
  /\ frame' \in States
  /\ gap' = TRUE /\ broken' = FALSE /\ taken' = FALSE
  /\ aligned' = (pos = 0)
  /\ UNCHANGED <<listening, pos, count>>

\* A byte does not reach hlw8032_recv.  Some in a row make a pause.
Missed ==
  /\ sent < FrameLen /\ sent' = sent + 1
  /\ broken' = TRUE /\ gap' \in {gap, TRUE}
  /\ UNCHANGED <<chip, frame, listening, pos, aligned, taken, count>>

\* Its start bit is lost in the noise on the line.
ByteLost == listening /\ Missed

\* UART_EndRxTransfer has disabled the receive interrupt, and nothing enables
\* it again.
ByteIgnored == ~listening /\ Missed

-----------------------------------------------------------------------------
(* hlw8032_analyse, for a frame whose checksum is right.                    *)

\* Pulses of a frame that is counted.  last_data_updata is zero: it is never
\* assigned.
New == (IF bit7 THEN PfSize ELSE 0) + pf - last_pf

\* Mutant: the pulses of a frame are not taken from the backlog.
CountKeepsBacklog ==
  /\ last_pf' = pf
  /\ LET sum == pf_cnt + New
     IN /\ sum <= MaxCount /\ info < MaxWh
        /\ pf_cnt' = sum
        /\ IF sum > wh_pf_cnt'
             THEN info' = info + 1 /\ counted' = counted + 1
             ELSE UNCHANGED <<info, counted>>
  /\ UNCHANGED skipped

Count ==
  /\ last_pf' = pf
  /\ LET sum == pf_cnt + New
     IN /\ sum <= MaxCount /\ info < MaxWh
        /\ IF sum > wh_pf_cnt'
             THEN /\ pf_cnt' = sum - wh_pf_cnt'
                  /\ info' = info + 1 /\ counted' = counted + 1
             ELSE pf_cnt' = sum /\ UNCHANGED <<info, counted>>
  /\ UNCHANGED skipped

\* Power is too small to be measured: the pulses are not energy.
Skip ==
  /\ last_pf' = pf /\ skipped' = skipped + pf - last_pf
  /\ UNCHANGED <<pf_cnt, info, counted>>

\* The first frame settles wh_pf_cnt, whatever its state.
Settle ==
  IF wh_pf_cnt # 0 THEN UNCHANGED wh_pf_cnt
  ELSE wh_pf_cnt' \in IF frame = "AA" THEN BadWhPulses ELSE {WhPulses}

Analyse ==
  /\ Settle
  /\ \/ frame \in {"AA", "F1"}
        /\ UNCHANGED <<last_pf, pf_cnt, info, counted, skipped>>
     \/ frame = "F2" /\ Skip
     \/ frame \in {"55", "F8", "F4"} /\ Count

\* Mutant: a frame begins where the last byte was put.
RecvWithoutGap == pos

\* hlw8032_recv: a pause starts a new frame.
Place == IF gap THEN 0 ELSE pos

NextPos == (Place + 1) % FrameLen

ByteArrives ==
  /\ listening
  /\ sent < FrameLen /\ sent' = sent + 1 /\ gap' = FALSE
  /\ pos' = NextPos
  /\ LET whole == (Place = 0 \/ aligned) /\ Place = sent
     IN /\ aligned' = (pos' = 0 \/ whole)
        /\ IF pos' = 0 /\ whole
             THEN Analyse /\ taken' = TRUE
             ELSE UNCHANGED <<last_pf, pf_cnt, wh_pf_cnt, info, counted,
                              skipped, taken>>
  /\ UNCHANGED <<chip, frame, listening, broken>>

\* The byte before was still unread: this one is lost, and HAL_UART_IRQHandler
\* ends the reception.  If the overrun fell between its look at the flags and
\* the read of that byte, the interrupt comes once more without a byte, and
\* hlw8032_recv gets an uninitialised one; in the place of the checksum it
\* may by chance be right.
Overrun ==
  /\ listening /\ listening' = FALSE
  /\ sent < FrameLen /\ sent' = sent + 1 /\ broken' = TRUE
  /\ \/ UNCHANGED <<gap, pos, aligned, taken, count>>
     \/ /\ gap' = FALSE /\ pos' = NextPos /\ aligned' = (pos' = 0)
        /\ \/ UNCHANGED <<taken, count>>
           \/ /\ pos' = 0 /\ aligned /\ Place = sent
              /\ Analyse /\ taken' = TRUE
  /\ UNCHANGED <<chip, frame>>

MeterNext ==
  FrameStarts \/ ByteLost \/ ByteIgnored \/ ByteArrives \/ Overrun

MeterSpec == MeterInit /\ [][MeterNext]_meter

-----------------------------------------------------------------------------
MeterTypeOK ==
  /\ chip \in Nat /\ frame \in StateReg /\ sent \in 0..FrameLen
  /\ gap \in BOOLEAN /\ listening \in BOOLEAN
  /\ pos \in 0..FrameLen - 1 /\ aligned \in BOOLEAN
  /\ broken \in BOOLEAN /\ taken \in BOOLEAN
  /\ last_pf \in 0..PfSize - 1 /\ pf_cnt \in Int /\ wh_pf_cnt \in Nat
  /\ info \in 0..MaxWh /\ counted \in Nat /\ skipped \in Int

\* hlw8032_recv finds the frames again: whatever bytes the line lost before,
\* and wherever the controller restarted in a frame, the next frame of which
\* every byte is received is analysed.  After an overrun none is received
\* until the controller restarts.
WholeFrameTaken == sent = FrameLen /\ ~broken => taken

\* Until the register overflows, pulses are neither lost nor counted twice: damaged
\* frames and frames of the error states leave theirs to a later frame, and
\* only those that pass while power is too small are left out.  What the meter
\* had counted when the controller started is taken in as well.
PulsesKept ==
  chip < PfSize => wh_pf_cnt * counted + pf_cnt + skipped = last_pf

\* hlw8032.c: "each change of bit 7 says that pf has overflowed".  No more
\* energy is counted than the meter has sent pulses for.
NoEnergyInvented ==
  wh_pf_cnt * counted + pf_cnt + skipped <= chip
=============================================================================
