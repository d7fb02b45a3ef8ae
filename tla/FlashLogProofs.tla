---------------------------- MODULE FlashLogProofs ----------------------------
(***************************************************************************)
(* The energy pipeline keeps its pulses and its totals, and never reads    *)
(* back an old one, for a log, a page, a frame and a register of any size, *)
(* and any number of boots and power failures.                             *)
(***************************************************************************)
EXTENDS FlashLog, WellFoundedInduction, TLAPS

-----------------------------------------------------------------------------
(* The meter and its driver, for frames and registers of any size.         *)

\* A frame of which no byte was lost is either about to begin, after a pause,
\* or its first bytes are those in recv_buf, or it was analysed.
LinkInv ==
  ~broken =>
    \/ sent = 0 /\ gap
    \/ /\ sent > 0 /\ ~gap
       /\ sent < FrameLen => pos = sent /\ aligned
       /\ sent = FrameLen => taken

\* No watt-hour is counted before the first frame settles its pulses.
SettledFirst == wh_pf_cnt = 0 => counted = 0

\* MeterTypeOK in two parts.
Flags ==
  /\ gap \in BOOLEAN /\ listening \in BOOLEAN /\ aligned \in BOOLEAN
  /\ broken \in BOOLEAN /\ taken \in BOOLEAN
Numbers ==
  /\ chip \in Nat /\ frame \in StateReg /\ sent \in 0..FrameLen
  /\ pos \in 0..FrameLen - 1
  /\ last_pf \in 0..PfSize - 1 /\ pf_cnt \in Int /\ wh_pf_cnt \in Nat
  /\ info \in 0..MaxWh /\ counted \in Nat /\ skipped \in Int

MeterInv == MeterTypeOK /\ LinkInv /\ SettledFirst /\ PulsesKept

LEMMA TypeParts == MeterTypeOK <=> Flags /\ Numbers
BY DEF MeterTypeOK, Flags, Numbers

-----------------------------------------------------------------------------
(* Arithmetic.                                                             *)

\* hlw8032_recv's position: it advances, and starts over at the frame's end.
LEMMA NextPosition ==
  ASSUME NEW p \in 0..FrameLen - 1
  PROVE  (p + 1) % FrameLen = IF p + 1 = FrameLen THEN 0 ELSE p + 1
BY MeterAssumption, Z3

\* The register holds less than its size.
LEMMA RegisterRange == ASSUME NEW c \in Nat PROVE c % PfSize \in 0..PfSize - 1
BY MeterAssumption

\* Before its first overflow the register holds the pulses, and bit 7 is down.
LEMMA BeforeOverflow ==
  ASSUME NEW c \in Nat, c < PfSize
  PROVE  c % PfSize = c /\ (c \div PfSize) % 2 # 1
<1>1. c % PfSize = c /\ c \div PfSize = 0
  BY MeterAssumption, Z3
<1> QED
  BY <1>1

LEMMA NoneAtAll == ASSUME NEW w \in Nat PROVE w * 0 = 0
OBVIOUS

\* A watt-hour more is its pulses more.
LEMMA OneMore ==
  ASSUME NEW w \in Nat, NEW n \in Nat
  PROVE  w * (n + 1) = w * n + w
OBVIOUS

-----------------------------------------------------------------------------
(* The steps.                                                              *)

LEMMA InitMeterInv == MeterInit => MeterInv
<1> SUFFICES ASSUME MeterInit PROVE MeterInv
  OBVIOUS
<1>1. MeterTypeOK
  <2>1. Flags
    BY DEF MeterInit, Flags
  <2>2. Numbers
    BY MeterAssumption DEF MeterInit, Numbers, StateReg
  <2> QED
    BY <2>1, <2>2 DEF MeterTypeOK, Flags, Numbers
<1>2. PulsesKept
  BY DEF MeterInit, PulsesKept
<1> QED
  BY <1>1, <1>2 DEF MeterInit, MeterInv, LinkInv, SettledFirst

\* A restart forgets what was counted and where the frame was.
LEMMA RestartMeterInv ==
  ASSUME MeterInv, McuStarts,
         \/ UNCHANGED <<chip, frame, sent>>
         \/ chip' = 0 /\ frame' = "AA" /\ sent' = FrameLen
  PROVE  MeterInv'
<1>1. MeterTypeOK'
  <2>1. Flags'
    BY DEF McuStarts, Flags
  <2>2. Numbers'
    BY MeterAssumption, TypeParts DEF MeterInv, McuStarts, Numbers, StateReg
  <2> QED
    BY <2>1, <2>2 DEF MeterTypeOK, Flags, Numbers
<1>2. PulsesKept'
  <2>1. wh_pf_cnt' * counted' = 0
    BY DEF McuStarts
  <2> QED
    BY <2>1 DEF McuStarts, PulsesKept
<1> QED
  BY <1>1, <1>2 DEF McuStarts, MeterInv, LinkInv, SettledFirst

LEMMA FrameStartsStep ==
  ASSUME MeterInv, FrameStarts
  PROVE  MeterInv' /\ info' >= info
<1>1. chip' \in Nat /\ chip' >= chip /\ UNCHANGED <<listening, pos, count>>
  BY MeterAssumption DEF FrameStarts, MeterInv, MeterTypeOK
<1>2. MeterTypeOK'
  <2>1. Flags'
    BY TypeParts DEF FrameStarts, MeterInv, Flags
  <2>2. Numbers'
    BY <1>1, MeterAssumption, TypeParts
       DEF FrameStarts, MeterInv, Numbers, count
  <2> QED
    BY <2>1, <2>2 DEF MeterTypeOK, Flags, Numbers
<1>3. PulsesKept'
  <2>1. wh_pf_cnt' * counted' = wh_pf_cnt * counted
    BY <1>1 DEF count
  <2>2. chip' < PfSize => chip < PfSize
    BY <1>1, MeterAssumption DEF MeterInv, MeterTypeOK
  <2> QED
    BY <1>1, <2>1, <2>2 DEF MeterInv, PulsesKept, count
<1> QED
  BY <1>1, <1>2, <1>3
     DEF FrameStarts, MeterInv, MeterTypeOK, LinkInv, SettledFirst, count

LEMMA MissedStep ==
  ASSUME MeterInv, Missed
  PROVE  MeterInv' /\ info' >= info
<1>1. MeterTypeOK'
  <2>1. Flags'
    BY TypeParts DEF Missed, MeterInv, Flags
  <2>2. Numbers'
    BY MeterAssumption, TypeParts DEF Missed, MeterInv, Numbers, count
  <2> QED
    BY <2>1, <2>2 DEF MeterTypeOK, Flags, Numbers
<1> QED
  BY <1>1 DEF Missed, MeterInv, MeterTypeOK, LinkInv, SettledFirst,
              PulsesKept, count

\* The analysis of a frame keeps the account of the pulses.
LEMMA AnalyseStep ==
  ASSUME MeterInv, Analyse, UNCHANGED <<chip, frame>>
  PROVE  /\ last_pf' \in 0..PfSize - 1 /\ pf_cnt' \in Int
         /\ wh_pf_cnt' \in Nat /\ info' \in 0..MaxWh
         /\ counted' \in Nat /\ skipped' \in Int
         /\ SettledFirst' /\ PulsesKept'
         /\ info' >= info
<1> USE MeterAssumption
<1> DEFINE energy == wh_pf_cnt' * counted
<1>1. /\ chip \in Nat /\ last_pf \in 0..PfSize - 1 /\ pf_cnt \in Int
      /\ wh_pf_cnt \in Nat /\ info \in 0..MaxWh /\ counted \in Nat
      /\ skipped \in Int
  BY DEF MeterInv, MeterTypeOK
<1>2. /\ wh_pf_cnt' \in Nat
      /\ wh_pf_cnt # 0 => wh_pf_cnt' = wh_pf_cnt
      /\ frame # "AA" => wh_pf_cnt' # 0
  BY <1>1 DEF Analyse, Settle
<1>3. energy = wh_pf_cnt * counted /\ energy \in Int
  <2>1. CASE wh_pf_cnt = 0
    <3>1. counted = 0
      BY <2>1 DEF MeterInv, SettledFirst
    <3>2. wh_pf_cnt' * 0 = 0 /\ wh_pf_cnt * 0 = 0
      BY <1>1, <1>2, NoneAtAll
    <3> QED
      BY <3>1, <3>2
  <2>2. CASE wh_pf_cnt # 0
    BY <1>1, <1>2, <2>2
  <2> QED
    BY <2>1, <2>2
<1> HIDE DEF energy
<1>4. pf \in 0..PfSize - 1 /\ pf \in Int
  BY <1>1, RegisterRange DEF pf
<1>5. chip < PfSize => ~bit7 /\ pf = chip /\ energy + pf_cnt + skipped = last_pf
  BY <1>1, <1>3, BeforeOverflow DEF pf, bit7, MeterInv, PulsesKept
<1>6. CASE UNCHANGED <<last_pf, pf_cnt, info, counted, skipped>>
  <2>1. SettledFirst'
    BY <1>2, <1>6 DEF MeterInv, SettledFirst
  <2>2. PulsesKept'
    BY <1>1, <1>3, <1>5, <1>6 DEF PulsesKept, energy
  <2> QED
    BY <1>1, <1>2, <1>6, <2>1, <2>2
<1>7. CASE frame # "AA" /\ Skip
  <2>1. /\ last_pf' = pf /\ skipped' = skipped + pf - last_pf
        /\ UNCHANGED <<pf_cnt, info, counted>>
    BY <1>7 DEF Skip
  <2>2. PulsesKept'
    <3>1. wh_pf_cnt' * counted' = energy
      BY <2>1 DEF energy
    <3> QED
      BY <1>1, <1>3, <1>4, <1>5, <2>1, <3>1 DEF PulsesKept
  <2> QED
    BY <1>1, <1>2, <1>4, <1>7, <2>1, <2>2 DEF SettledFirst
<1>8. CASE frame # "AA" /\ Count
  <2>1. New \in Int /\ (chip < PfSize => New = pf - last_pf)
    BY <1>1, <1>4, <1>5 DEF New
  <2>2. /\ last_pf' = pf /\ skipped' = skipped /\ info < MaxWh
        /\ \/ /\ pf_cnt' = pf_cnt + New - wh_pf_cnt'
              /\ info' = info + 1 /\ counted' = counted + 1
           \/ pf_cnt' = pf_cnt + New /\ info' = info /\ counted' = counted
    BY <1>1, <1>2, <1>8, <2>1 DEF Count
  <2>3. \/ wh_pf_cnt' * counted' = energy + wh_pf_cnt' /\ counted' = counted + 1
        \/ wh_pf_cnt' * counted' = energy /\ counted' = counted
    BY <1>1, <1>2, <2>2, OneMore DEF energy
  <2>4. wh_pf_cnt' * counted' + pf_cnt' = energy + pf_cnt + New
    BY <1>1, <1>2, <1>3, <2>1, <2>2, <2>3
  <2>5. PulsesKept'
    <3> SUFFICES ASSUME chip < PfSize
                 PROVE  (wh_pf_cnt' * counted' + pf_cnt') + skipped' = last_pf'
      BY DEF PulsesKept
    <3>1. energy + pf_cnt + New + skipped = pf
      BY <1>1, <1>3, <1>4, <1>5, <2>1
    <3> QED
      BY <1>1, <1>3, <2>1, <2>2, <2>4, <3>1
  <2> QED
    BY <1>1, <1>2, <1>4, <1>8, <2>1, <2>2, <2>5 DEF SettledFirst
<1> QED
  BY <1>6, <1>7, <1>8 DEF Analyse

LEMMA ByteArrivesStep ==
  ASSUME MeterInv, ByteArrives
  PROVE  MeterInv' /\ info' >= info
<1> USE MeterAssumption
<1> DEFINE whole == (Place = 0 \/ aligned) /\ Place = sent
<1>1. /\ sent \in 0..FrameLen /\ sent < FrameLen /\ sent' = sent + 1
      /\ gap' = FALSE /\ pos' = NextPos /\ aligned' = (pos' = 0 \/ whole)
      /\ UNCHANGED <<chip, frame, listening, broken>>
  BY DEF ByteArrives, MeterInv, MeterTypeOK
<1>2. Place \in 0..FrameLen - 1 /\ pos \in 0..FrameLen - 1
  BY DEF Place, MeterInv, MeterTypeOK
<1>3. pos' = IF Place + 1 = FrameLen THEN 0 ELSE Place + 1
  BY <1>1, <1>2, NextPosition DEF NextPos
<1>4. /\ last_pf' \in 0..PfSize - 1 /\ pf_cnt' \in Int
      /\ wh_pf_cnt' \in Nat /\ info' \in 0..MaxWh
      /\ counted' \in Nat /\ skipped' \in Int
      /\ SettledFirst' /\ PulsesKept'
      /\ info' >= info
  <2>1. CASE pos' = 0 /\ whole
    <3>1. Analyse
      BY <2>1 DEF ByteArrives
    <3> QED
      BY <1>1, <3>1, AnalyseStep
  <2>2. CASE ~(pos' = 0 /\ whole)
    <3>1. UNCHANGED <<last_pf, pf_cnt, wh_pf_cnt, info, counted, skipped>>
      BY <2>2 DEF ByteArrives
    <3> QED
      BY <1>1, <3>1 DEF MeterInv, MeterTypeOK, SettledFirst, PulsesKept
  <2> QED
    BY <2>1, <2>2
<1>5. taken' \in BOOLEAN /\ (pos' = 0 /\ whole => taken')
  BY DEF ByteArrives, MeterInv, MeterTypeOK
<1>6. MeterTypeOK'
  <2>1. Flags'
    BY <1>1, <1>5, TypeParts DEF MeterInv, Flags
  <2>2. Numbers'
    BY <1>1, <1>2, <1>3, <1>4, TypeParts DEF MeterInv, Numbers
  <2> QED
    BY <2>1, <2>2 DEF MeterTypeOK, Flags, Numbers
<1>7. LinkInv'
  <2> SUFFICES ASSUME ~broken PROVE LinkInv'
    BY <1>1 DEF LinkInv
  <2>1. whole
    BY <1>1, <1>2 DEF MeterInv, MeterTypeOK, LinkInv, Place
  <2>2. sent' = FrameLen => taken'
    BY <1>1, <1>2, <1>3, <1>5, <2>1
  <2>3. sent' < FrameLen => pos' = sent'
    BY <1>1, <1>2, <1>3, <2>1
  <2>4. aligned'
    BY <1>1, <2>1
  <2> QED
    BY <1>1, <2>2, <2>3, <2>4 DEF LinkInv
<1> QED
  BY <1>4, <1>6, <1>7 DEF MeterInv

\* An overrun breaks the frame, and may still complete it by chance.
LEMMA OverrunStep ==
  ASSUME MeterInv, Overrun
  PROVE  MeterInv' /\ info' >= info
<1> USE MeterAssumption
<1>1. /\ listening' = FALSE /\ sent' \in 0..FrameLen /\ broken' = TRUE
      /\ UNCHANGED <<chip, frame>>
  BY DEF Overrun, MeterInv, MeterTypeOK
<1>2. Place \in 0..FrameLen - 1 /\ pos \in 0..FrameLen - 1
  BY DEF Place, MeterInv, MeterTypeOK
<1>3. NextPos \in 0..FrameLen - 1
  BY <1>2, NextPosition DEF NextPos
<1>4. pos' \in 0..FrameLen - 1
  BY <1>2, <1>3 DEF Overrun
<1>5. /\ gap' \in BOOLEAN /\ aligned' \in BOOLEAN /\ taken' \in BOOLEAN
  BY TypeParts DEF Overrun, MeterInv, Flags
<1>6. /\ last_pf' \in 0..PfSize - 1 /\ pf_cnt' \in Int
      /\ wh_pf_cnt' \in Nat /\ info' \in 0..MaxWh
      /\ counted' \in Nat /\ skipped' \in Int
      /\ SettledFirst' /\ PulsesKept'
      /\ info' >= info
  <2>1. CASE Analyse
    BY <1>1, <2>1, AnalyseStep
  <2>2. CASE UNCHANGED count
    BY <1>1, <2>2
       DEF MeterInv, MeterTypeOK, SettledFirst, PulsesKept, count
  <2> QED
    BY <2>1, <2>2 DEF Overrun
<1>7. MeterTypeOK'
  <2>1. Flags'
    BY <1>1, <1>5 DEF Flags
  <2>2. Numbers'
    BY <1>1, <1>4, <1>6, TypeParts DEF MeterInv, Numbers
  <2> QED
    BY <2>1, <2>2 DEF MeterTypeOK, Flags, Numbers
<1>8. LinkInv'
  BY <1>1 DEF LinkInv
<1> QED
  BY <1>6, <1>7, <1>8 DEF MeterInv

LEMMA MeterStep ==
  ASSUME MeterInv, MeterNext
  PROVE  MeterInv' /\ info' >= info
BY FrameStartsStep, MissedStep, ByteArrivesStep, OverrunStep
   DEF MeterNext, ByteLost, ByteIgnored

-----------------------------------------------------------------------------
(* flash_search.                                                           *)

\* A set of natural numbers that is not empty has a least element.
LEMMA Least ==
  ASSUME NEW T \in SUBSET Nat, T # {}
  PROVE  \E x \in T : \A y \in T : x <= y
<1>1. \E x \in T : \A y \in T : ~(<<y, x>> \in OpToRel(<, Nat))
  BY WFMin, NatLessThanWellFounded
<1>2. PICK x \in T : \A y \in T : ~(<<y, x>> \in OpToRel(<, Nat))
  BY <1>1
<1>3. \A y \in T : ~(y < x)
  BY <1>2 DEF OpToRel
<1> QED
  BY <1>3

\* Induction, for a property that is a set.
LEMMA Induction ==
  ASSUME NEW T, 0 \in T, \A n \in Nat : n \in T => n + 1 \in T
  PROVE  Nat \subseteq T
<1> DEFINE Out == Nat \ T
<1> SUFFICES ASSUME Out # {} PROVE FALSE
  OBVIOUS
<1>1. PICK x \in Out : \A y \in Out : x <= y
  <2> Out \in SUBSET Nat
    OBVIOUS
  <2> HIDE DEF Out
  <2> QED
    BY Least
<1>2. x # 0 /\ x - 1 \in Nat /\ x - 1 \notin Out
  BY <1>1
<1> QED
  BY <1>1, <1>2

\* The bounds after i rounds.
Bounds(f, i) ==
  IF i = 0 THEN [low |-> 0, high |-> Dwords] ELSE Round(f[i - 1])

\* The loop is well defined.
LEMMA LoopDefined ==
  \A n \in Nat : \E f : f = [i \in 0..n |-> Bounds(f, i)]
<1> DEFINE T == {n \in Nat : \E f : f = [i \in 0..n |-> Bounds(f, i)]}
<1>1. 0 \in T
  <2> DEFINE f == [i \in 0..0 |-> [low |-> 0, high |-> Dwords]]
  <2>1. f = [i \in 0..0 |-> Bounds(f, i)]
    BY DEF Bounds
  <2> QED
    BY <2>1
<1>2. ASSUME NEW n \in Nat, n \in T PROVE n + 1 \in T
  <2>1. PICK f : f = [i \in 0..n |-> Bounds(f, i)]
    BY <1>2
  <2> DEFINE g == [i \in 0..n + 1 |-> IF i <= n THEN f[i] ELSE Bounds(f, n + 1)]
  <2>2. ASSUME NEW i \in 0..n + 1 PROVE g[i] = Bounds(g, i)
    <3>1. CASE i <= n
      <4>1. g[i] = Bounds(f, i)
        BY <2>1, <3>1
      <4>2. i # 0 => g[i - 1] = f[i - 1]
        BY <3>1
      <4> QED
        BY <4>1, <4>2 DEF Bounds
    <3>2. CASE i = n + 1
      <4>1. g[i] = Bounds(f, i) /\ g[i - 1] = f[i - 1]
        BY <3>2
      <4> QED
        BY <4>1 DEF Bounds
    <3> QED
      BY <3>1, <3>2
  <2>3. g = [i \in 0..n + 1 |-> Bounds(g, i)]
    <3>1. g = [i \in 0..n + 1 |-> g[i]]
      OBVIOUS
    <3> HIDE DEF g
    <3> QED
      BY <2>2, <3>1, Zenon
  <2>4. \E h : h = [i \in 0..n + 1 |-> Bounds(h, i)]
    <3> HIDE DEF g
    <3> QED
      BY <2>3
  <2> QED
    BY <2>4
<1>3. Nat \subseteq T
  <2> HIDE DEF T
  <2> QED
    BY <1>1, <1>2, Induction
<1> QED
  BY <1>3

LEMMA LoopRounds ==
  /\ loop[0] = [low |-> 0, high |-> Dwords]
  /\ \A i \in 1..Dwords + 2 : loop[i] = Round(loop[i - 1])
<1> USE BoundsAssumption
<1>1. Dwords + 2 \in Nat
  OBVIOUS
<1>2. \E f : f = [i \in 0..Dwords + 2 |-> Bounds(f, i)]
  BY <1>1, LoopDefined
<1>3. loop = CHOOSE f : f = [i \in 0..Dwords + 2 |-> Bounds(f, i)]
  BY DEF loop, Rounds, Bounds
<1>4. loop = [i \in 0..Dwords + 2 |-> Bounds(loop, i)]
  BY <1>2, <1>3
<1>5. \A i \in 0..Dwords + 2 : loop[i] = Bounds(loop, i)
  BY <1>4
<1>6. 0 \in 0..Dwords + 2 /\ \A i \in 1..Dwords + 2 : i \in 0..Dwords + 2 /\ i # 0
  OBVIOUS
<1> QED
  BY <1>5, <1>6 DEF Bounds

Half == Dwords \div 2

\* What holds of the bounds after any round: they are those of an interval
\* whose left end is programmed or the region's, and whose right end comes
\* before a blank double word or past the region.
Within(s) ==
  /\ s = [low |-> s.low, high |-> s.high]
  /\ s.low \in 0..Dwords + 1 /\ s.high \in -1..Dwords /\ s.low <= s.high + 1
  /\ s.low > 0 => s.low <= s.high /\ At(s.low) # Blank
  /\ s.high < Dwords => At(s.high + 1) = Blank

\* What holds from the first round on, which looks at the middle.
Halved(s) ==
  /\ At(Half) = Blank => s.high < Half
  /\ At(Half) # Blank => s.low > 0 \/ (s.low <= s.high /\ Hit(Middle(s)))

LEMMA MiddleInside ==
  ASSUME NEW l \in Int, NEW h \in Int, l <= h
  PROVE  LET m == l + (h - l) \div 2
         IN m \in Int /\ l <= m /\ m <= h /\ (m = h => l = h)
OBVIOUS

LEMMA HalfInside ==
  /\ Half \in 0..Dwords - 1 /\ Half = 0 + (Dwords - 0) \div 2
  /\ Dwords > 1 => Half > 0
BY BoundsAssumption DEF Half

\* A round narrows the interval, unless the search is over.
LEMMA RoundNarrows ==
  ASSUME NEW s, Within(s)
  PROVE  /\ Within(Round(s))
         /\ \/ s.low > s.high /\ Round(s) = s
            \/ Hit(Middle(s)) /\ Round(s) = s
            \/ /\ ~Hit(Middle(s))
               /\ Round(s).high - Round(s).low < s.high - s.low
               /\ Round(s).low >= s.low /\ Round(s).high <= s.high
<1> USE BoundsAssumption
<1> DEFINE m == Middle(s)
           r == Round(s)
<1>1. /\ s.low \in 0..Dwords + 1 /\ s.high \in -1..Dwords
      /\ s = [low |-> s.low, high |-> s.high]
      /\ s.low > 0 => s.low <= s.high /\ At(s.low) # Blank
      /\ s.high < Dwords => At(s.high + 1) = Blank
  BY DEF Within
<1>2. CASE s.low > s.high \/ Hit(m)
  BY <1>2 DEF Round
<1>3. CASE s.low <= s.high /\ ~Hit(m)
  <2>1. m \in Int /\ s.low <= m /\ m <= s.high
    BY <1>1, <1>3, MiddleInside DEF Middle
  <2>2. m # Dwords /\ (At(m) # Blank => At(m + 1) # Blank)
    BY <1>3 DEF Hit
  <2>3. CASE At(m) = Blank
    <3>1. r = [low |-> s.low, high |-> m - 1]
      BY <1>1, <1>3, <2>3 DEF Round
    <3>2. s.low > 0 => s.low # m
      BY <1>1, <2>3
    <3> HIDE DEF m, r
    <3>3. (m - 1) + 1 = m
      BY <2>1
    <3>4. r.low = s.low /\ r.high = m - 1
      BY <3>1
    <3>5. Within(r)
      BY <1>1, <2>1, <2>3, <3>1, <3>2, <3>3, <3>4 DEF Within
    <3>6. r.high - r.low < s.high - s.low /\ r.low >= s.low /\ r.high <= s.high
      BY <1>1, <2>1, <3>4
    <3> QED
      BY <1>3, <3>5, <3>6 DEF m, r
  <2>4. CASE At(m) # Blank
    <3>1. r = [low |-> m + 1, high |-> s.high]
      BY <1>1, <1>3, <2>4 DEF Round
    <3>2. m # s.high
      BY <1>1, <2>1, <2>2, <2>4
    <3> HIDE DEF m, r
    <3>3. r.low = m + 1 /\ r.high = s.high
      BY <3>1
    <3>4. Within(r)
      BY <1>1, <2>1, <2>2, <2>4, <3>1, <3>2, <3>3 DEF Within
    <3>5. r.high - r.low < s.high - s.low /\ r.low >= s.low /\ r.high <= s.high
      BY <1>1, <2>1, <3>3
    <3> QED
      BY <1>3, <3>4, <3>5 DEF m, r
  <2> QED
    BY <2>3, <2>4
<1> QED
  BY <1>1, <1>2, <1>3

\* The first round looks at the middle of the region.
LEMMA FirstRound == Within(loop[0]) /\ Halved(loop[1])
<1> USE BoundsAssumption
<1> DEFINE s == [low |-> 0, high |-> Dwords]
<1>1. loop[0] = s /\ loop[1] = Round(s)
  <2>1. 1 \in 1..Dwords + 2 /\ 1 - 1 = 0
    OBVIOUS
  <2> QED
    BY <2>1, LoopRounds
<1>2. s.low = 0 /\ s.high = Dwords /\ Middle(s) = Half
  BY HalfInside DEF Middle
<1>3. Within(s)
  BY <1>2 DEF Within
<1>4. Halved(Round(s))
  <2>1. Half \in 0..Dwords - 1 /\ Half # Dwords /\ ~(s.low > s.high)
    BY <1>2, HalfInside
  <2>2. CASE At(Half) = Blank
    <3>1. ~Hit(Half)
      BY <2>1, <2>2 DEF Hit
    <3>2. Round(s) = [s EXCEPT !.high = Half - 1]
      BY <1>2, <2>1, <2>2, <3>1 DEF Round
    <3>3. Round(s).high = Half - 1
      BY <3>2
    <3> QED
      BY <2>1, <2>2, <3>3 DEF Halved
  <2>3. CASE At(Half) # Blank /\ Hit(Half)
    <3>1. Round(s) = s
      BY <1>2, <2>3 DEF Round
    <3> HIDE DEF s
    <3> QED
      BY <1>2, <2>3, <3>1 DEF Halved
  <2>4. CASE At(Half) # Blank /\ ~Hit(Half)
    <3>1. Round(s) = [s EXCEPT !.low = Half + 1]
      BY <1>2, <2>1, <2>4 DEF Round
    <3>2. Round(s).low = Half + 1
      BY <3>1
    <3> QED
      BY <2>1, <2>4, <3>2 DEF Halved
  <2> QED
    BY <2>2, <2>3, <2>4
<1> QED
  BY <1>1, <1>3, <1>4

\* No round spoils what the first one has found out.
LEMMA RoundKeepsHalves ==
  ASSUME NEW s, Within(s), Halved(s)
  PROVE  Halved(Round(s))
<1> USE BoundsAssumption
<1> DEFINE r == Round(s)
<1>1. /\ Within(r)
      /\ \/ r = s
         \/ /\ ~Hit(Middle(s))
            /\ r.low >= s.low /\ r.high <= s.high
  BY RoundNarrows
<1> HIDE DEF r
<1>2. /\ s.low \in Int /\ s.high \in Int /\ r.low \in Int /\ r.high \in Int
      /\ Half \in Int
  BY <1>1, HalfInside DEF Within
<1>3. CASE r = s
  BY <1>3 DEF r
<1>4. CASE ~Hit(Middle(s)) /\ r.low >= s.low /\ r.high <= s.high
  BY <1>2, <1>4 DEF Halved, r
<1> QED
  BY <1>1, <1>3, <1>4

\* The loop ends within Dwords + 2 rounds.
LEMMA LoopEnds ==
  LET s == loop[Dwords + 2]
  IN Within(s) /\ Halved(s) /\ (s.low > s.high \/ Hit(Middle(s)))
<1> USE BoundsAssumption
<1> DEFINE Ended(s) == s.low > s.high \/ Hit(Middle(s))
           Sound(i) == /\ Within(loop[i]) /\ (i > 0 => Halved(loop[i]))
                       /\ \/ Ended(loop[i])
                          \/ loop[i].high - loop[i].low <= Dwords - i
           T == {i \in Nat : i <= Dwords + 2 => Sound(i)}
<1>1. 0 \in T
  <2>1. loop[0].high = Dwords /\ loop[0].low = 0
    BY LoopRounds
  <2> QED
    BY <2>1, FirstRound
<1>2. ASSUME NEW i \in Nat, i \in T PROVE i + 1 \in T
  <2> SUFFICES ASSUME i + 1 <= Dwords + 2 PROVE Sound(i + 1)
    OBVIOUS
  <2> DEFINE s == loop[i]
             r == loop[i + 1]
  <2>1. r = Round(s)
    <3>1. i + 1 \in 1..Dwords + 2 /\ i + 1 - 1 = i
      OBVIOUS
    <3> QED
      BY <3>1, LoopRounds
  <2>2. /\ Within(s) /\ (i > 0 => Halved(s))
        /\ Ended(s) \/ s.high - s.low <= Dwords - i
    BY <1>2
  <2>3. Halved(r)
    <3>1. CASE i = 0
      BY <3>1, FirstRound
    <3>2. CASE i > 0
      <4> HIDE DEF s, r
      <4> QED
        BY <2>1, <2>2, <3>2, RoundKeepsHalves
    <3> QED
      BY <3>1, <3>2
  <2> HIDE DEF s, r
  <2>4. /\ Within(r)
        /\ \/ Ended(s) /\ r = s
           \/ r.high - r.low < s.high - s.low
    BY <2>1, <2>2, RoundNarrows
  <2>5. Ended(r) \/ r.high - r.low <= Dwords - (i + 1)
    <3>1. CASE r = s /\ Ended(s)
      BY <3>1
    <3>2. CASE r.high - r.low < s.high - s.low /\ s.high - s.low <= Dwords - i
      <4>1. /\ s.low \in Int /\ s.high \in Int
            /\ r.low \in Int /\ r.high \in Int
        BY <2>2, <2>4 DEF Within
      <4> QED
        BY <3>2, <4>1
    <3>3. CASE Ended(s) /\ r # s
      <4>1. Round(s) = s
        BY <3>3 DEF Round
      <4> QED
        BY <2>1, <3>3, <4>1
    <3> QED
      BY <2>2, <2>4, <3>1, <3>2, <3>3
  <2> QED
    BY <2>3, <2>4, <2>5 DEF r
<1>3. Nat \subseteq T
  <2> HIDE DEF T
  <2> QED
    BY <1>1, <1>2, Induction
<1>4. Sound(Dwords + 2)
  <2>1. Dwords + 2 \in T
    <3> HIDE DEF T
    <3> QED
      BY <1>3
  <2> QED
    BY <2>1
<1>5. loop[Dwords + 2].high - loop[Dwords + 2].low <= -2 => Ended(loop[Dwords + 2])
  BY <1>4 DEF Within
<1> QED
  BY <1>4, <1>5

\* What flash_search returns, whatever the log looks like: nothing, when the
\* first double word and the middle one are blank; or a programmed double word
\* with a blank one after it, in the left half when the middle one is blank;
\* or one past the region.
LEMMA SearchResult ==
  \/ /\ flash_search = NoAddress
     /\ At(0) = Blank /\ At(Half) = Blank
  \/ \E m \in 0..Dwords :
       /\ flash_search = 2 * m /\ At(m) # Blank
       /\ m # Dwords => At(m + 1) = Blank
       /\ At(Half) = Blank => m < Half
<1> USE BoundsAssumption
<1> DEFINE s == loop[Dwords + 2]
<1>1. Within(s) /\ Halved(s) /\ (s.low > s.high \/ Hit(Middle(s)))
  BY LoopEnds
<1>2. flash_search = IF s.low > s.high THEN NoAddress ELSE 2 * Middle(s)
  BY DEF flash_search
<1> HIDE DEF s
<1>3. /\ s.low \in 0..Dwords + 1 /\ s.high \in -1..Dwords
      /\ s.low <= s.high + 1
      /\ s.low > 0 => s.low <= s.high /\ At(s.low) # Blank
      /\ s.high < Dwords => At(s.high + 1) = Blank
  BY <1>1 DEF Within
<1>4. CASE s.low > s.high
  <2>1. s.low = 0 /\ s.high = -1
    BY <1>3, <1>4
  <2>2. At(0) = Blank
    BY <1>3, <2>1
  <2>3. At(Half) = Blank
    BY <1>1, <2>1 DEF Halved
  <2> QED
    BY <1>2, <1>4, <2>2, <2>3
<1>5. CASE s.low <= s.high
  <2> DEFINE m == Middle(s)
  <2>1. m \in 0..Dwords /\ s.low <= m /\ m <= s.high /\ (m = s.high => s.low = s.high)
    BY <1>3, <1>5, MiddleInside DEF Middle
  <2>2. Hit(m) /\ flash_search = 2 * m
    BY <1>1, <1>2, <1>3, <1>5
  <2> HIDE DEF m
  <2>3. At(m) # Blank /\ (m # Dwords => At(m + 1) = Blank)
    <3>1. CASE m = Dwords
      <4>1. s.low = Dwords
        BY <1>3, <2>1, <3>1
      <4> QED
        BY <1>3, <1>5, <3>1, <4>1
    <3>2. CASE m # Dwords
      BY <2>2, <3>2 DEF Hit
    <3> QED
      BY <3>1, <3>2
  <2>4. At(Half) = Blank => m < Half
    <3>1. At(Half) = Blank => s.high < Half
      BY <1>1 DEF Halved
    <3> QED
      BY <1>3, <2>1, <3>1, HalfInside
  <2> QED
    BY <2>1, <2>2, <2>3, <2>4
<1> QED
  BY <1>3, <1>4, <1>5

-----------------------------------------------------------------------------
(* The shape of the log.                                                   *)

\* Totals up to the newest one, as saves leave it; a rest at the end, as an
\* interrupted erase leaves it; or that rest and the first total saved after
\* it.  There the rest does not reach the middle of the region, or it would
\* have been found and erased before.
Saves == \A i \in Dword : flash[i] # Blank <=> i <= newest
Rest(t) == newest = Dwords - 1 /\ \A i \in Dword : flash[i] # Blank <=> i >= t
First(t) ==
  /\ newest = 0 /\ t > Half
  /\ \A i \in Dword : flash[i] # Blank <=> i = 0 \/ i >= t
LogShape == Saves \/ \E t \in 1..Dwords - 1 : Rest(t) \/ First(t)

\* While it is erased, the log is blank up to the page that comes next.
Empty == newest = -1 /\ \A i \in Dword : flash[i] = Blank
EraseShape ==
  IF pc = "erase" THEN Empty \/ \E t \in Dword : Rest(t) /\ erased <= t
  ELSE erased = 0

\* Within a run the meter's total is never behind a saved one: it starts from
\* what was read back.  A sample taken is never behind either, and a minute
\* does not end before the first sample is taken or due.
GrowInv ==
  /\ pc \in {"off", "start"} => g_total = 0 /\ sampled = 0 /\ minute = 0
  /\ pc \in {"run", "erase"} =>
       /\ total_wh <= info /\ g_total <= info
       /\ sampled = 1 => total_wh <= g_total
       /\ minute = 1 => sampleDue = 1 \/ sampled = 1

RegionInv == LogShape /\ EraseShape
IInv == LogTypeOK /\ RegionInv /\ MeterInv /\ GrowInv

\* In a log of one of the shapes what is found is the newest total.
LEMMA ShapeFindsNewest ==
  ASSUME flash \in Log, newest \in -1..Dwords - 1, LogShape
  PROVE  NeverReadsOld
<1> USE BoundsAssumption DEF Dword
<1> SUFFICES ASSUME flash_search \notin {NoAddress, 2 * Dwords}
             PROVE  flash_search = 2 * newest
  BY DEF NeverReadsOld
<1>1. PICK m \in 0..Dwords :
        /\ flash_search = 2 * m /\ At(m) # Blank
        /\ m # Dwords => At(m + 1) = Blank
        /\ At(Half) = Blank => m < Half
  BY SearchResult
<1>2. m \in Dword /\ flash[m] # Blank
  BY <1>1 DEF At
<1>3. m + 1 \in Dword => flash[m + 1] = Blank
  BY <1>1, <1>2 DEF At
<1>4. m = newest
  <2>1. CASE Saves
    BY <1>2, <1>3, <2>1 DEF Saves
  <2>2. CASE \E t \in 1..Dwords - 1 : Rest(t)
    BY <1>2, <1>3, <2>2 DEF Rest
  <2>3. CASE \E t \in 1..Dwords - 1 : First(t)
    <3>1. PICK t \in 1..Dwords - 1 : First(t)
      BY <2>3
    <3>2. m = 0 \/ m >= t
      BY <1>2, <3>1 DEF First
    <3>3. Half \in Dword /\ Half # 0 /\ ~(Half >= t)
      BY <3>1, HalfInside DEF First
    <3>4. At(Half) = Blank
      BY <3>1, <3>3 DEF First, At
    <3> QED
      BY <1>1, <3>1, <3>2, <3>3, <3>4 DEF First
  <2> QED
    BY <2>1, <2>2, <2>3 DEF LogShape
<1> QED
  BY <1>1, <1>4

\* What is read back is a total, or what lies past the region.
LEMMA ReadTotal ==
  ASSUME flash \in Log, past \in Pasts
  PROVE  read_wh \in 0..MaxWh
<1> USE BoundsAssumption, MeterAssumption, PastsAssumption
<1>1. CASE flash_search = NoAddress
  BY <1>1 DEF read_wh
<1>2. CASE flash_search # NoAddress
  <2>1. PICK m \in 0..Dwords : flash_search = 2 * m /\ At(m) # Blank
    BY <1>2, SearchResult
  <2>2. flash_search \div 2 = m
    BY <2>1
  <2>3. At(m) \in 0..MaxWh \cup {Blank}
    BY DEF At, Log, Dword
  <2> QED
    BY <1>2, <2>1, <2>2, <2>3 DEF read_wh
<1> QED
  BY <1>1, <1>2

\* The region with its types.
RegionOK == flash \in Log /\ newest \in -1..Dwords - 1 /\ RegionInv

\* A save programs the first double word, asks in vain for half a double word,
\* or begins to erase a full log.
LEMMA SaveStep ==
  ASSUME RegionOK, pc = "run", NEW wh \in 0..MaxWh, save_wh(wh),
         UNCHANGED erased
  PROVE  RegionOK' /\ pc' \in {"run", "erase"}
<1> USE BoundsAssumption, BlankAssumption, MeterAssumption DEF Dword
<1>1. /\ flash \in Log /\ newest \in -1..Dwords - 1 /\ LogShape
      /\ erased = 0 /\ erased' = 0
  BY DEF RegionOK, RegionInv, EraseShape
<1>2. NeverReadsOld
  BY <1>1, ShapeFindsNewest
<1>3. CASE /\ flash_search = 2 * (Dwords - 1) /\ pc' = "erase"
           /\ UNCHANGED <<flash, newest>>
  <2>1. newest = Dwords - 1
    <3>1. 2 * (Dwords - 1) \notin {NoAddress, 2 * Dwords}
      BY DEF NoAddress
    <3> QED
      BY <1>1, <1>2, <1>3, <3>1 DEF NeverReadsOld
  <2>2. \E t \in Dword : Rest(t)
    <3>1. CASE Saves
      <4>1. Rest(0)
        BY <2>1, <3>1 DEF Saves, Rest
      <4> QED
        BY <4>1
    <3>2. CASE \E t \in 1..Dwords - 1 : Rest(t)
      BY <3>2
    <3>3. CASE \E t \in 1..Dwords - 1 : First(t)
      BY <2>1, <3>3 DEF First
    <3> QED
      BY <1>1, <3>1, <3>2, <3>3 DEF LogShape
  <2>3. PICK t \in Dword : Rest(t)
    BY <2>2
  <2>4. Rest(t)'
    BY <1>3, <2>3 DEF Rest
  <2>5. LogShape'
    BY <1>1, <1>3 DEF LogShape, Saves, Rest, First
  <2> QED
    BY <1>1, <1>3, <2>4, <2>5 DEF RegionOK, RegionInv, EraseShape
<1>4. CASE UNCHANGED <<flash, newest, pc>>
  BY <1>1, <1>4
     DEF RegionOK, RegionInv, EraseShape, LogShape, Saves, Rest, First
<1> DEFINE a == IF flash_search = NoAddress THEN 0 ELSE flash_search + 1
<1>5. CASE /\ UNCHANGED pc /\ Programmable(a)
           /\ flash' = [flash EXCEPT ![a \div 2] = wh] /\ newest' = a \div 2
  <2>1. a % 2 = 0 /\ flash[a \div 2] = Blank
    BY <1>5 DEF Programmable
  <2>2. flash_search = NoAddress /\ At(0) = Blank /\ At(Half) = Blank
    <3> SUFFICES ASSUME NEW m \in 0..Dwords, flash_search = 2 * m PROVE FALSE
      BY SearchResult
    <3>1. a = 2 * m + 1
      BY DEF NoAddress
    <3>2. (2 * m + 1) % 2 = 1
      OBVIOUS
    <3> QED
      BY <2>1, <3>1, <3>2
  <2>3. flash[0] = Blank /\ flash[Half] = Blank
    BY <2>2, HalfInside DEF At
  <2>4. flash' = [flash EXCEPT ![0] = wh] /\ newest' = 0
    BY <1>5, <2>2
  <2>5. flash' \in Log
    BY <1>1, <2>4 DEF Log
  <2>6. flash'[0] # Blank /\ \A i \in Dword : i # 0 => flash'[i] = flash[i]
    BY <1>1, <2>4 DEF Log
  <2>7. LogShape'
    <3>1. CASE Saves
      <4>1. Saves'
        BY <2>3, <2>4, <2>6, <3>1, <1>1 DEF Saves
      <4> QED
        BY <4>1 DEF LogShape
    <3>2. CASE \E t \in 1..Dwords - 1 : Rest(t)
      <4>1. PICK t \in 1..Dwords - 1 : Rest(t)
        BY <3>2
      <4>2. t > Half
        BY <2>3, <4>1, HalfInside DEF Rest
      <4>3. First(t)'
        BY <2>4, <2>6, <4>1, <4>2 DEF Rest, First, Half
      <4> QED
        BY <4>3 DEF LogShape
    <3>3. CASE \E t \in 1..Dwords - 1 : First(t)
      BY <2>3, <3>3 DEF First
    <3> QED
      BY <1>1, <3>1, <3>2, <3>3 DEF LogShape
  <2> QED
    BY <1>1, <1>5, <2>4, <2>5, <2>7 DEF RegionOK, RegionInv, EraseShape
<1> QED
  BY <1>3, <1>4, <1>5 DEF save_wh, Program

\* A page more is blank.
LEMMA ErasePageStep ==
  ASSUME RegionOK, erased \in Nat, ErasePage
  PROVE  RegionOK' /\ erased' \in Nat
<1> USE BoundsAssumption DEF Dword
<1> DEFINE gone == {i \in Dword : i \in erased..erased' - 1}
<1>1. /\ pc = "erase" /\ pc' = "erase" /\ erased < Dwords
      /\ erased' = erased + PageDwords /\ erased' \in Nat
      /\ flash' = [i \in Dword |-> IF i \in gone THEN Blank ELSE flash[i]]
      /\ newest' = IF newest \in gone THEN -1 ELSE newest
  BY DEF ErasePage, task
<1>2. /\ flash \in Log /\ newest \in -1..Dwords - 1
      /\ Empty \/ \E t \in Dword : Rest(t) /\ erased <= t
  BY <1>1 DEF RegionOK, RegionInv, EraseShape
<1>3. flash' \in Log /\ newest' \in -1..Dwords - 1
  BY <1>1, <1>2 DEF Log
<1>4. \A i \in Dword : flash'[i] = IF i >= erased /\ i < erased' THEN Blank
                                   ELSE flash[i]
  BY <1>1
<1>5. newest' = IF newest >= erased /\ newest < erased' THEN -1 ELSE newest
  BY <1>1, <1>2
<1> HIDE DEF gone
<1>6. Empty' \/ \E t \in Dword : Rest(t)' /\ erased' <= t
  <2>1. CASE Empty
    BY <1>4, <1>5, <2>1 DEF Empty
  <2>2. CASE ~Empty
    <3>1. PICK t \in Dword : Rest(t) /\ erased <= t
      BY <1>2, <2>2
    <3>2. CASE erased' >= Dwords
      BY <1>1, <1>4, <1>5, <3>1, <3>2 DEF Empty, Rest
    <3>3. CASE erased' < Dwords /\ erased' <= t
      <4>1. Rest(t)'
        BY <1>1, <1>4, <1>5, <3>1, <3>3 DEF Rest
      <4> QED
        BY <3>3, <4>1
    <3>4. CASE erased' < Dwords /\ erased' > t
      <4>1. PICK u \in Dword : u = erased'
        BY <1>1, <3>4
      <4>2. Rest(u)'
        BY <1>1, <1>4, <1>5, <3>1, <3>4, <4>1 DEF Rest
      <4> QED
        BY <4>1, <4>2
    <3> QED
      BY <1>1, <3>2, <3>3, <3>4
  <2> QED
    BY <2>1, <2>2
<1>7. LogShape'
  <2>1. Empty' \/ \E t \in Dword : Rest(t)'
    BY <1>6
  <2>2. CASE Empty'
    BY <2>2 DEF Empty, LogShape, Saves
  <2>3. CASE \E t \in Dword : Rest(t)'
    <3>1. PICK t \in Dword : Rest(t)'
      BY <2>3
    <3>2. CASE t = 0
      BY <3>1, <3>2 DEF Rest, LogShape, Saves
    <3>3. CASE t # 0
      <4>1. t \in 1..Dwords - 1
        BY <3>3
      <4> QED
        BY <3>1, <4>1 DEF LogShape
    <3> QED
      BY <3>2, <3>3
  <2> QED
    BY <2>1, <2>2, <2>3
<1> QED
  BY <1>1, <1>3, <1>6, <1>7 DEF RegionOK, RegionInv, EraseShape

\* The first total of a log started over.
LEMMA ProgramFirstStep ==
  ASSUME RegionOK, erased \in Nat, total_wh \in 0..MaxWh, ProgramFirst
  PROVE  RegionOK'
<1> USE BoundsAssumption, BlankAssumption, MeterAssumption DEF Dword
<1>1. /\ pc = "erase" /\ pc' = "run" /\ erased >= Dwords /\ erased' = 0
      /\ Program(0, total_wh) /\ flash \in Log
  BY DEF ProgramFirst, RegionOK
<1>2. Empty
  BY <1>1 DEF RegionOK, RegionInv, EraseShape
<1>3. flash' = [flash EXCEPT ![0] = total_wh] /\ newest' = 0
  <2>1. Programmable(0)
    BY <1>2 DEF Programmable, Empty
  <2>2. 0 \div 2 = 0
    OBVIOUS
  <2> QED
    BY <1>1, <2>1, <2>2 DEF Program
<1>4. flash' \in Log
  BY <1>1, <1>3 DEF Log
<1>5. Saves'
  BY <1>1, <1>2, <1>3 DEF Saves, Empty, Log
<1> QED
  BY <1>1, <1>3, <1>4, <1>5
     DEF RegionOK, RegionInv, LogShape, EraseShape

\* The region stays as it is, and the controller does not erase.
LEMMA RegionKept ==
  ASSUME RegionOK, UNCHANGED <<flash, newest>>,
         \/ UNCHANGED <<erased, pc>>
         \/ pc # "erase" /\ pc' # "erase" /\ UNCHANGED erased
         \/ erased' = 0 /\ pc' # "erase"
  PROVE  RegionOK'
<1>1. LogShape'
  BY DEF RegionOK, RegionInv, LogShape, Saves, Rest, First
<1>2. EraseShape'
  <2>1. CASE UNCHANGED <<erased, pc>>
    BY <2>1 DEF RegionOK, RegionInv, EraseShape, Empty, Rest
  <2>2. CASE pc' # "erase" /\ erased' = 0
    BY <2>2 DEF EraseShape
  <2>3. CASE pc # "erase" /\ pc' # "erase" /\ UNCHANGED erased
    BY <2>3 DEF RegionOK, RegionInv, EraseShape
  <2> QED
    BY <2>1, <2>2, <2>3
<1> QED
  BY <1>1, <1>2 DEF RegionOK, RegionInv

\* The fields beside the region.
TaskOK ==
  /\ past \in Pasts /\ erased \in Nat
  /\ pc \in {"off", "start", "run", "erase"}
  /\ g_total \in 0..MaxWh /\ total_wh \in 0..MaxWh
  /\ sampleDue \in {0, 1} /\ minute \in {0, 1} /\ sampled \in {0, 1}
  /\ boots \in 0..MaxBoots

LEMMA Parts == IInv <=> RegionOK /\ TaskOK /\ MeterInv /\ GrowInv
BY DEF IInv, LogTypeOK, RegionOK, TaskOK

-----------------------------------------------------------------------------
(* The steps.                                                              *)

LEMMA InitIInv == Init => IInv
<1> SUFFICES ASSUME Init PROVE IInv
  OBVIOUS
<1> USE BoundsAssumption, MeterAssumption
<1>1. TaskOK
  BY DEF Init, TaskOK
<1>2. RegionOK
  BY DEF Init, RegionOK, RegionInv, LogShape, Saves, EraseShape
<1>3. MeterInv
  BY InitMeterInv DEF Init
<1>4. GrowInv
  BY DEF Init, GrowInv
<1> QED
  BY <1>1, <1>2, <1>3, <1>4, Parts

\* Whatever leaves the meter and its driver alone.
LEMMA MeterUnchanged == MeterInv /\ UNCHANGED meter => MeterInv'
BY DEF meter, link, count, MeterInv, MeterTypeOK, LinkInv, SettledFirst,
       PulsesKept

\* A pass saves only what is not below the last total saved.
LEMMA PassStep ==
  ASSUME IInv, Pass
  PROVE  IInv' /\ total_wh' >= total_wh
<1> USE BoundsAssumption, MeterAssumption
<1>1. RegionOK /\ TaskOK /\ GrowInv /\ MeterInv
  BY Parts
<1>2. /\ info \in 0..MaxWh /\ g_total \in 0..MaxWh /\ total_wh \in 0..MaxWh
      /\ sampleDue \in {0, 1} /\ sampled \in {0, 1} /\ minute \in {0, 1}
  BY <1>1 DEF TaskOK, MeterInv, MeterTypeOK
<1>3. /\ pc = "run" /\ sampleDue' = 0
      /\ g_total' = IF sampleDue = 1 THEN info ELSE g_total
      /\ sampled' = IF sampleDue = 1 THEN 1 ELSE sampled
      /\ UNCHANGED <<meter, past, erased, boots>>
      /\ \/ /\ minute = 1 /\ minute' = 0 /\ total_wh' = g_total'
            /\ save_wh(g_total')
         \/ /\ minute = 0 \/ total_wh = g_total'
            /\ UNCHANGED <<flash, newest, pc, total_wh, minute>>
  BY DEF Pass
<1>4. PICK wh \in 0..MaxWh : wh = g_total'
  BY <1>2, <1>3
<1>5. RegionOK' /\ pc' \in {"run", "erase"}
  <2>1. CASE save_wh(wh)
    BY <1>1, <1>3, <2>1, SaveStep
  <2>2. CASE UNCHANGED <<flash, newest, pc>>
    BY <1>1, <1>3, <2>2, RegionKept
  <2> QED
    BY <1>3, <1>4, <2>1, <2>2
<1>6. /\ total_wh' \in 0..MaxWh /\ total_wh' >= total_wh
      /\ total_wh' <= info /\ g_total' <= info
      /\ sampled' = 1 => total_wh' <= g_total'
      /\ minute' = 1 => sampled' = 1
      /\ sampled' \in {0, 1} /\ minute' \in {0, 1} /\ sampleDue' \in {0, 1}
  BY <1>1, <1>2, <1>3, <1>4 DEF GrowInv
<1>7. TaskOK'
  BY <1>1, <1>3, <1>4, <1>5, <1>6 DEF TaskOK
<1>8. MeterInv' /\ info' = info
  BY <1>1, <1>3, MeterUnchanged DEF meter, count
<1>9. GrowInv'
  BY <1>5, <1>6, <1>8 DEF GrowInv
<1>10. IInv'
  BY <1>5, <1>7, <1>8, <1>9 DEF IInv, LogTypeOK, RegionOK, TaskOK
<1> QED
  BY <1>6, <1>10

LEMMA NextIInv == IInv /\ [Next]_vars => IInv'
<1> SUFFICES ASSUME IInv, [Next]_vars PROVE IInv'
  OBVIOUS
<1> USE BoundsAssumption, MeterAssumption
<1>0. RegionOK /\ TaskOK /\ MeterInv /\ GrowInv
  BY Parts
<1> SUFFICES RegionOK' /\ TaskOK' /\ MeterInv' /\ GrowInv'
  BY DEF IInv, LogTypeOK, RegionOK, TaskOK
<1>1. CASE PowerOn
  <2>1. /\ UNCHANGED <<meter, region, task>> /\ pc = "off" /\ pc' = "start"
        /\ boots' = boots + 1 /\ boots < MaxBoots
    BY <1>1 DEF PowerOn
  <2>2. RegionOK'
    BY <1>0, <2>1, RegionKept DEF region
  <2>3. TaskOK'
    BY <1>0, <2>1 DEF TaskOK, task, region
  <2>4. GrowInv'
    BY <1>0, <2>1 DEF GrowInv, task
  <2> QED
    BY <1>0, <2>1, <2>2, <2>3, <2>4, MeterUnchanged
<1>2. CASE Reset
  <2>1. /\ McuStarts /\ TaskStarts /\ UNCHANGED <<chip, frame, sent, region>>
        /\ pc = "run" /\ pc' = "start" /\ boots' = boots + 1 /\ boots < MaxBoots
    BY <1>2 DEF Reset
  <2>2. MeterInv'
    BY <1>0, <2>1, RestartMeterInv
  <2>3. RegionOK'
    BY <1>0, <2>1, RegionKept DEF region
  <2>4. TaskOK'
    BY <1>0, <2>1 DEF TaskOK, TaskStarts, region
  <2>5. GrowInv'
    BY <2>1 DEF TaskStarts, GrowInv
  <2> QED
    BY <2>2, <2>3, <2>4, <2>5
<1>3. CASE Boot
  <2>1. /\ total_wh' = read_wh /\ info' = read_wh
        /\ pc = "start" /\ pc' = "run"
        /\ UNCHANGED <<chip, link, last_pf, pf_cnt, wh_pf_cnt, counted, skipped,
                       region, g_total, sampleDue, minute, sampled, boots>>
    BY <1>3 DEF Boot
  <2>2. read_wh \in 0..MaxWh
    BY <1>0, ReadTotal DEF RegionOK, TaskOK
  <2>3. MeterInv'
    <3>1. MeterTypeOK'
      BY <1>0, <2>1, <2>2 DEF MeterInv, MeterTypeOK, link
    <3>2. LinkInv' /\ SettledFirst' /\ PulsesKept'
      BY <1>0, <2>1 DEF MeterInv, LinkInv, SettledFirst, PulsesKept, link
    <3> QED
      BY <3>1, <3>2 DEF MeterInv
  <2>4. RegionOK'
    BY <1>0, <2>1, RegionKept DEF region
  <2>5. TaskOK'
    BY <1>0, <2>1, <2>2 DEF TaskOK, region
  <2>6. GrowInv'
    BY <1>0, <2>1, <2>2 DEF GrowInv
  <2> QED
    BY <2>3, <2>4, <2>5, <2>6
<1>4. CASE Meter
  <2>1. MeterNext /\ UNCHANGED <<region, pc, task, boots>>
    BY <1>4 DEF Meter
  <2>2. MeterInv' /\ info' >= info
    BY <1>0, <2>1, MeterStep
  <2>3. RegionOK'
    BY <1>0, <2>1, RegionKept DEF region
  <2>4. TaskOK'
    BY <1>0, <2>1 DEF TaskOK, task, region
  <2>5. GrowInv'
    <3>1. info \in Int /\ info' \in Int
      BY <1>0, <2>2 DEF MeterInv, MeterTypeOK
    <3>2. total_wh \in Int /\ g_total \in Int
      BY <1>0 DEF TaskOK
    <3> QED
      BY <1>0, <2>1, <2>2, <3>1, <3>2 DEF GrowInv, task
  <2> QED
    BY <2>2, <2>3, <2>4, <2>5
<1>5. CASE TwoSecondsPass \/ MinutePasses
  <2>1. /\ UNCHANGED <<meter, region, pc, g_total, total_wh, sampled, boots>>
        /\ pc = "run"
        /\ \/ sampleDue' = 1 /\ UNCHANGED minute
           \/ /\ minute' = 1 /\ UNCHANGED sampleDue
              /\ sampleDue = 1 \/ sampled = 1
    BY <1>5 DEF TwoSecondsPass, MinutePasses
  <2>2. RegionOK'
    BY <1>0, <2>1, RegionKept DEF region
  <2>3. TaskOK'
    BY <1>0, <2>1 DEF TaskOK, region
  <2>4. GrowInv'
    BY <1>0, <2>1 DEF GrowInv, meter, count
  <2> QED
    BY <1>0, <2>1, <2>2, <2>3, <2>4, MeterUnchanged
<1>6. CASE Pass
  BY <1>6, PassStep DEF IInv, LogTypeOK, RegionOK, TaskOK
<1>7. CASE ErasePage
  <2>1. /\ UNCHANGED <<meter, past, task, boots>>
        /\ pc = "erase" /\ pc' = "erase"
    BY <1>7 DEF ErasePage
  <2>2. RegionOK' /\ erased' \in Nat
    BY <1>0, <1>7, ErasePageStep DEF TaskOK
  <2>3. TaskOK'
    BY <1>0, <2>1, <2>2 DEF TaskOK, task
  <2>4. GrowInv'
    BY <1>0, <2>1 DEF GrowInv, task, meter, count
  <2> QED
    BY <1>0, <2>1, <2>2, <2>3, <2>4, MeterUnchanged
<1>8. CASE ProgramFirst
  <2>1. /\ UNCHANGED <<meter, past, task, boots>> /\ erased' = 0
        /\ pc = "erase" /\ pc' = "run"
    BY <1>8 DEF ProgramFirst
  <2>2. RegionOK'
    BY <1>0, <1>8, ProgramFirstStep DEF TaskOK
  <2>3. TaskOK'
    BY <1>0, <2>1 DEF TaskOK, task
  <2>4. GrowInv'
    BY <1>0, <2>1 DEF GrowInv, task, meter, count
  <2> QED
    BY <1>0, <2>1, <2>2, <2>3, <2>4, MeterUnchanged
<1>9. CASE PowerFails
  <2>1. /\ McuStarts /\ TaskStarts /\ erased' = 0 /\ pc' = "off"
        /\ chip' = 0 /\ frame' = "AA" /\ sent' = FrameLen
        /\ UNCHANGED <<flash, past, newest, boots>>
    BY <1>9 DEF PowerFails
  <2>2. MeterInv'
    BY <1>0, <2>1, RestartMeterInv
  <2>3. RegionOK'
    BY <1>0, <2>1, RegionKept
  <2>4. TaskOK'
    BY <1>0, <2>1 DEF TaskOK, TaskStarts
  <2>5. GrowInv'
    BY <2>1 DEF TaskStarts, GrowInv
  <2> QED
    BY <2>2, <2>3, <2>4, <2>5
<1>10. CASE UNCHANGED vars
  <2>1. UNCHANGED <<meter, region, pc, task, boots>>
    BY <1>10 DEF vars
  <2>2. RegionOK'
    BY <1>0, <2>1, RegionKept DEF region
  <2>3. TaskOK'
    BY <1>0, <2>1 DEF TaskOK, task, region
  <2>4. GrowInv'
    BY <1>0, <2>1 DEF GrowInv, task, meter, count
  <2> QED
    BY <1>0, <2>1, <2>2, <2>3, <2>4, MeterUnchanged
<1> QED
  BY <1>1, <1>2, <1>3, <1>4, <1>5, <1>6, <1>7, <1>8, <1>9, <1>10 DEF Next

LEMMA AlwaysIInv == Spec => []IInv
BY InitIInv, NextIInv, PTL DEF Spec

-----------------------------------------------------------------------------
\* The types of hlw8032.c, of user_task and of the log; in particular no read
\* hands out an erased double word.
THEOREM TypeCorrect == Spec => []TypeOK
<1>1. IInv => TypeOK
  BY DEF IInv, MeterInv, TypeOK
<1> QED
  BY <1>1, AlwaysIInv, PTL

\* Saves, rejected writes, page after page of an erase, resets and power
\* failures between any of these leave a log in which flash_search finds the
\* latest total there still is, or none.
THEOREM NewestTotalRead == Spec => []NeverReadsOld
<1>1. IInv => NeverReadsOld
  BY ShapeFindsNewest DEF IInv, LogTypeOK, RegionInv
<1> QED
  BY <1>1, AlwaysIInv, PTL

\* hlw8032_recv finds the frames again: a frame of which every byte is received
\* is analysed, whatever bytes the line lost before and wherever the controller
\* restarted.  After an overrun no frame is received until it restarts, and
\* nothing is claimed of those sent meanwhile.
THEOREM FramesFoundAgain == Spec => []WholeFrameTaken
<1>1. IInv => WholeFrameTaken
  BY MeterAssumption
     DEF IInv, MeterInv, MeterTypeOK, LinkInv, WholeFrameTaken
<1> QED
  BY <1>1, AlwaysIInv, PTL

\* hlw8032_analyse neither loses a pulse nor counts it twice before the pulse
\* register overflows.
THEOREM PulsesCountOnce == Spec => []PulsesKept
<1>1. IInv => PulsesKept
  BY DEF IInv, MeterInv
<1> QED
  BY <1>1, AlwaysIInv, PTL

\* user_task never saves a total below the last one it saved or read back.
THEOREM SavesGrow == Spec => SavedOnlyGrows
<1>1. IInv /\ [Next]_vars =>
        [pc = "run" /\ pc' \in {"run", "erase"} => total_wh' >= total_wh]_vars
  <2> SUFFICES ASSUME IInv, Next, pc = "run", pc' \in {"run", "erase"}
               PROVE  total_wh' >= total_wh
    OBVIOUS
  <2>1. total_wh \in Int
    BY DEF IInv, LogTypeOK
  <2>2. CASE Pass
    BY <2>2, PassStep
  <2>3. CASE Meter \/ TwoSecondsPass \/ MinutePasses
    BY <2>1, <2>3 DEF Meter, TwoSecondsPass, MinutePasses, task
  <2> QED
    BY <2>2, <2>3
       DEF Next, PowerOn, Reset, Boot, ErasePage, ProgramFirst, PowerFails
<1> QED
  BY <1>1, AlwaysIInv, PTL DEF Spec, SavedOnlyGrows
=============================================================================
