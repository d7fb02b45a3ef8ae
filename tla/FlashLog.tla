------------------------------- MODULE FlashLog -------------------------------
(***************************************************************************)
(* The energy counter across restarts: user_task samples the meter's       *)
(* total, saves it at most once a minute and reads it back at boot         *)
(* (user_task.c); save_wh appends it to a log in flash (user_utils.c).     *)
(* The meter counts meanwhile, as EnergyMeter has it.  Power may fail      *)
(* between any two steps, and wifi_config may reset the controller alone.  *)
(*                                                                         *)
(* Addresses are counted in 32-bit words, the unit in which save_wh moves  *)
(* its pointer; the log is made of 64-bit double words.                    *)
(***************************************************************************)
EXTENDS EnergyMeter

CONSTANTS
  Dwords,       \* double words in the region: USER_FLASH_SIZE / 8
  PageDwords,   \* double words in a page: FLASH_PAGE_SIZE / 8
  MaxBoots,     \* boots in a behaviour
  Blank,        \* an erased double word
  Pasts         \* what may be read past the region

ASSUME BoundsAssumption ==
  /\ Dwords \in Nat \ {0} /\ PageDwords \in Nat \ {0} /\ MaxBoots \in Nat
ASSUME BlankAssumption == Blank \notin Int
ASSUME PastsAssumption == Pasts \subseteq 0..MaxWh \cup {Blank}

VARIABLES
  flash,        \* the log: the value of each double word
  past,         \* what the double word past the region reads as
  newest,       \* where the latest total in the log is, -1 if there is none
  erased,       \* double words erase_wh has erased
  pc,           \* "off", "start" before user_task's loop, "run", or "erase":
                \* inside save_wh, the log is being started over
  g_total,      \* g_power_info.total_wh
  total_wh,     \* the value user_task saved last
  sampleDue,    \* more than 2 s since power_timer_old
  minute,       \* more than 60 s since wh_timer_old
  sampled,      \* a sample was taken since boot
  boots

task == <<g_total, total_wh, sampleDue, minute, sampled>>
region == <<flash, past, newest, erased>>
vars == <<meter, region, pc, task, boots>>

Dword == 0..Dwords - 1
Log == [Dword -> 0..MaxWh \cup {Blank}]

\* The double words the processor can read.
At(i) == IF i = Dwords THEN past ELSE flash[i]

\* flash_search: the loop's bounds after each round, until it returns.  mid is
\* one past the region, or programmed with a blank one after it.
Middle(s) == s.low + (s.high - s.low) \div 2
Hit(mid) == mid = Dwords \/ (At(mid) # Blank /\ At(mid + 1) = Blank)
Round(s) ==
  IF s.low > s.high \/ Hit(Middle(s)) THEN s
  ELSE IF At(Middle(s)) = Blank THEN [s EXCEPT !.high = Middle(s) - 1]
                                ELSE [s EXCEPT !.low = Middle(s) + 1]
Rounds == 0..Dwords + 2
loop[i \in Rounds] ==
  IF i = 0 THEN [low |-> 0, high |-> Dwords] ELSE Round(loop[i - 1])

\* The word address it returns.
NoAddress == -1
flash_search ==
  LET s == loop[Dwords + 2]
  IN IF s.low > s.high THEN NoAddress ELSE 2 * Middle(s)

\* Mutant: a blank log is not told apart.
ReadBlank == At(IF flash_search = NoAddress THEN 0 ELSE flash_search \div 2)

read_wh == IF flash_search = NoAddress THEN 0 ELSE At(flash_search \div 2)

\* The flash controller: a double word is programmed only at its own address
\* and only over a blank one; otherwise the operation sets PGAERR or PROGERR
\* and leaves the array alone.  save_wh ignores the status.
Programmable(address) == address % 2 = 0 /\ flash[address \div 2] = Blank
Program(address, wh) ==
  \/ /\ Programmable(address)
     /\ flash' = [flash EXCEPT ![address \div 2] = wh]
     /\ newest' = address \div 2
  \/ ~Programmable(address) /\ UNCHANGED <<flash, newest>>

\* The region survives reprogramming of the firmware, so the log holds what
\* any earlier firmware saved: a prefix of growing totals.
Growing(f) ==
  \A i, j \in Dword :
    f[j] # Blank => f[j] > 0 /\ (i < j => f[i] # Blank /\ f[i] <= f[j])

Init ==
  /\ flash \in {f \in Log : Growing(f)} /\ past \in Pasts
  /\ newest \in -1..Dwords - 1
  /\ \A i \in Dword : flash[i] # Blank <=> i <= newest
  /\ erased = 0
  /\ MeterInit /\ pc = "off"
  /\ g_total = 0 /\ total_wh = 0
  /\ sampleDue = 0 /\ minute = 0 /\ sampled = 0
  /\ boots = 0

TaskStarts ==
  /\ g_total' = 0 /\ total_wh' = 0
  /\ sampleDue' = 0 /\ minute' = 0 /\ sampled' = 0

PowerOn ==
  /\ pc = "off" /\ pc' = "start"
  /\ boots < MaxBoots /\ boots' = boots + 1
  /\ UNCHANGED <<meter, region, task>>

\* wifi_config resets the controller; the meter counts on.
Reset ==
  /\ pc = "run" /\ pc' = "start"
  /\ boots < MaxBoots /\ boots' = boots + 1
  /\ McuStarts /\ TaskStarts
  /\ UNCHANGED <<chip, frame, sent, region>>

\* user_task up to its loop, with hlw8032_init.
Boot ==
  /\ pc = "start" /\ pc' = "run"
  /\ total_wh' = read_wh /\ info' = read_wh
  /\ UNCHANGED <<chip, link, last_pf, pf_cnt, wh_pf_cnt, counted, skipped,
                 region, g_total, sampleDue, minute, sampled, boots>>

\* The receive interrupt is enabled before the tasks run.
Meter ==
  /\ pc # "off" /\ MeterNext
  /\ UNCHANGED <<region, pc, task, boots>>

TwoSecondsPass ==
  /\ pc = "run" /\ sampleDue' = 1
  /\ UNCHANGED <<meter, region, pc, g_total, total_wh, minute, sampled, boots>>

\* By the time a minute is over, two seconds are: a sample has been taken or
\* is due.
MinutePasses ==
  /\ pc = "run" /\ minute' = 1
  /\ sampleDue = 1 \/ sampled = 1
  /\ UNCHANGED <<meter, region, pc, g_total, total_wh, sampleDue, sampled,
                 boots>>

\* save_wh starts the log over when the last double word is in use; otherwise
\* it advances the uint32_t pointer by one.
save_wh(wh) ==
  \/ /\ flash_search = 2 * (Dwords - 1) /\ pc' = "erase"
     /\ UNCHANGED <<flash, newest>>
  \/ /\ flash_search # 2 * (Dwords - 1) /\ UNCHANGED pc
     /\ Program(IF flash_search = NoAddress THEN 0 ELSE flash_search + 1, wh)

\* Mutant: the save comes before the sample in the pass.
PassSavesFirst ==
  /\ pc = "run"
  /\ g_total' = IF sampleDue = 1 THEN info ELSE g_total
  /\ sampleDue' = 0
  /\ sampled' = IF sampleDue = 1 THEN 1 ELSE sampled
  /\ \/ /\ minute = 1 /\ total_wh # g_total
        /\ minute' = 0 /\ total_wh' = g_total
        /\ save_wh(g_total)
     \/ /\ minute = 0 \/ total_wh = g_total
        /\ UNCHANGED <<flash, newest, pc, total_wh, minute>>
  /\ UNCHANGED <<meter, past, erased, boots>>

\* The top of user_task's pass: sample when due, then save when a minute is
\* over and the total has changed.
Pass ==
  /\ pc = "run"
  /\ g_total' = IF sampleDue = 1 THEN info ELSE g_total
  /\ sampleDue' = 0
  /\ sampled' = IF sampleDue = 1 THEN 1 ELSE sampled
  /\ \/ /\ minute = 1 /\ total_wh # g_total'
        /\ minute' = 0 /\ total_wh' = g_total'
        /\ save_wh(g_total')
     \/ /\ minute = 0 \/ total_wh = g_total'
        /\ UNCHANGED <<flash, newest, pc, total_wh, minute>>
  /\ UNCHANGED <<meter, past, erased, boots>>

\* Mutant: the pages are erased from the last one backwards.
EraseBackwards ==
  /\ pc = "erase" /\ erased < Dwords
  /\ erased' = erased + PageDwords
  /\ LET gone == {i \in Dword : Dwords - 1 - i \in erased..erased' - 1}
     IN  /\ flash' = [i \in Dword |-> IF i \in gone THEN Blank ELSE flash[i]]
         /\ newest' = IF newest \in gone THEN -1 ELSE newest
  /\ UNCHANGED <<meter, past, pc, task, boots>>

\* erase_wh: HAL_FLASHEx_Erase takes one page after the other.
ErasePage ==
  /\ pc = "erase" /\ erased < Dwords
  /\ erased' = erased + PageDwords
  /\ LET gone == {i \in Dword : i \in erased..erased' - 1}
     IN  /\ flash' = [i \in Dword |-> IF i \in gone THEN Blank ELSE flash[i]]
         /\ newest' = IF newest \in gone THEN -1 ELSE newest
  /\ UNCHANGED <<meter, past, pc, task, boots>>

\* The rest of save_wh.
ProgramFirst ==
  /\ pc = "erase" /\ erased >= Dwords
  /\ pc' = "run" /\ erased' = 0
  /\ Program(0, total_wh)
  /\ UNCHANGED <<meter, past, task, boots>>

\* The meter loses its power with the controller.
PowerFails ==
  /\ pc # "off" /\ pc' = "off"
  /\ chip' = 0 /\ frame' = "AA" /\ sent' = FrameLen
  /\ McuStarts /\ TaskStarts /\ erased' = 0
  /\ UNCHANGED <<flash, past, newest, boots>>

Next ==
  \/ PowerOn \/ Reset \/ Boot \/ Meter \/ TwoSecondsPass \/ MinutePasses \/ Pass
  \/ ErasePage \/ ProgramFirst \/ PowerFails

Spec == Init /\ [][Next]_vars

-----------------------------------------------------------------------------
LogTypeOK ==
  /\ flash \in Log /\ past \in Pasts
  /\ newest \in -1..Dwords - 1 /\ erased \in Nat
  /\ pc \in {"off", "start", "run", "erase"}
  /\ g_total \in 0..MaxWh /\ total_wh \in 0..MaxWh
  /\ sampleDue \in {0, 1} /\ minute \in {0, 1} /\ sampled \in {0, 1}
  /\ boots \in 0..MaxBoots

TypeOK == LogTypeOK /\ MeterTypeOK

\* Whatever flash_search would find now, after a power failure between two
\* pages of an erase for one, is the latest total that is still in the log,
\* not an older one.  It may find nothing; and past the region, if that reads
\* as programmed and the log is full, what it finds is no total.
NeverReadsOld ==
  flash_search \notin {NoAddress, 2 * Dwords} => flash_search = 2 * newest

\* The zero that g_power_info starts with is never taken for a total: within
\* a run the saved count only grows.
SavedOnlyGrows ==
  [][pc = "run" /\ pc' \in {"run", "erase"} => total_wh' >= total_wh]_vars

\* user_task.c: the accumulated energy is saved.  Outside save_wh, what a
\* restart would read is what user_task believes it saved.
SavedIsReadBack == pc = "run" => read_wh = total_wh
=============================================================================
