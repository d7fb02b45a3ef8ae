---------------------------- MODULE AtClientProofs ----------------------------
(***************************************************************************)
(* Proofs about AtClient, for any number of commands and unsolicited       *)
(* lines: a command that starts clean returns its own answer, and until    *)
(* the first timeout every command starts clean and the parser uses no     *)
(* response object that is gone.                                           *)
(***************************************************************************)
EXTENDS AtClient, TLAPS

Verdicts == {"OK", "ERROR"}

\* A caller that owns the lock, and one that has its result.
Holding ==
  {"status", "resp", "send", "wait", "clear_resp", "clear_notice", "unlock"}
Leaving == {"clear_resp", "clear_notice", "unlock"}

\* Where the owner of the lock is.
Where == IF lock = Nobody THEN "idle" ELSE cpc[lock]

-----------------------------------------------------------------------------
(* The lines on the wire.                                                  *)

NoVerdict(w) == \A i \in 1..Len(w) : w[i] \notin Verdicts
NoText(w) == \A i \in 1..Len(w) : w[i] # "text"
OneVerdict(w, v) ==
  \A i, j \in 1..Len(w) :
    w[i] \in Verdicts /\ w[j] \in Verdicts => i = j /\ w[i] = v
OneText(w) ==
  \A i, j \in 1..Len(w) : w[i] = "text" /\ w[j] = "text" => i = j
TextFirst(w) ==
  \A i, j \in 1..Len(w) : w[i] = "text" /\ w[j] \in Verdicts => i < j

LEMMA NoVerdictIsOne ==
  ASSUME NEW w \in Seq(Line), NEW v, NoVerdict(w)
  PROVE  OneVerdict(w, v)
BY DEF NoVerdict, OneVerdict

\* Only unsolicited lines.
LEMMA UrcsOnly ==
  ASSUME NEW w \in Seq(Line)
  PROVE  (\A i \in 1..Len(w) : InUrcTable(w[i])) <=> NoVerdict(w) /\ NoText(w)
<1>1. \A i \in 1..Len(w) : w[i] \in Line
  OBVIOUS
<1> QED
  BY <1>1 DEF NoVerdict, NoText, InUrcTable, Line, Verdicts

\* What is left after a line was read.
LEMMA LineRead ==
  ASSUME NEW w \in Seq(Line), w # <<>>
  PROVE  /\ Head(w) \in Line /\ Tail(w) \in Seq(Line)
         /\ NoVerdict(w) => NoVerdict(Tail(w)) /\ Head(w) \notin Verdicts
         /\ NoText(w) => NoText(Tail(w)) /\ Head(w) # "text"
         /\ \A v : OneVerdict(w, v) =>
              /\ OneVerdict(Tail(w), v)
              /\ Head(w) \in Verdicts => Head(w) = v /\ NoVerdict(Tail(w))
         /\ OneText(w) =>
              OneText(Tail(w)) /\ (Head(w) = "text" => NoText(Tail(w)))
         /\ TextFirst(w) =>
              TextFirst(Tail(w)) /\ (Head(w) \in Verdicts => NoText(Tail(w)))
<1>1. /\ Head(w) \in Line /\ Tail(w) \in Seq(Line)
      /\ Head(w) = w[1] /\ 1 \in 1..Len(w)
      /\ Len(Tail(w)) = Len(w) - 1 /\ Len(w) \in Nat
      /\ \A i \in 1..Len(Tail(w)) : Tail(w)[i] = w[i + 1]
  OBVIOUS
<1>2. \A i \in 1..Len(Tail(w)) :
        /\ Tail(w)[i] = w[i + 1] /\ i + 1 \in 1..Len(w) /\ i + 1 # 1
        /\ ~(i + 1 < 1)
  BY <1>1
<1>3. NoVerdict(w) => NoVerdict(Tail(w)) /\ Head(w) \notin Verdicts
  BY <1>1, <1>2 DEF NoVerdict
<1>4. NoText(w) => NoText(Tail(w)) /\ Head(w) # "text"
  BY <1>1, <1>2 DEF NoText
<1>5. ASSUME NEW v, OneVerdict(w, v)
      PROVE  /\ OneVerdict(Tail(w), v)
             /\ Head(w) \in Verdicts => Head(w) = v /\ NoVerdict(Tail(w))
  <2>1. ASSUME NEW i \in 1..Len(Tail(w)), NEW j \in 1..Len(Tail(w)),
               Tail(w)[i] \in Verdicts, Tail(w)[j] \in Verdicts
        PROVE  i = j /\ Tail(w)[i] = v
    <3>1. i + 1 = j + 1 /\ w[i + 1] = v
      BY <1>2, <1>5, <2>1 DEF OneVerdict
    <3> QED
      BY <1>2, <3>1
  <2>2. ASSUME Head(w) \in Verdicts
        PROVE  Head(w) = v /\ NoVerdict(Tail(w))
    BY <1>1, <1>2, <1>5, <2>2 DEF OneVerdict, NoVerdict
  <2> QED
    BY <2>1, <2>2 DEF OneVerdict
<1>6. ASSUME OneText(w)
      PROVE  OneText(Tail(w)) /\ (Head(w) = "text" => NoText(Tail(w)))
  <2>1. ASSUME NEW i \in 1..Len(Tail(w)), NEW j \in 1..Len(Tail(w)),
               Tail(w)[i] = "text", Tail(w)[j] = "text"
        PROVE  i = j
    <3>1. i + 1 = j + 1
      BY <1>2, <1>6, <2>1 DEF OneText
    <3> QED
      BY <3>1
  <2>2. Head(w) = "text" => NoText(Tail(w))
    BY <1>1, <1>2, <1>6 DEF OneText, NoText
  <2> QED
    BY <2>1, <2>2 DEF OneText
<1>7. ASSUME TextFirst(w)
      PROVE  TextFirst(Tail(w)) /\ (Head(w) \in Verdicts => NoText(Tail(w)))
  <2>1. ASSUME NEW i \in 1..Len(Tail(w)), NEW j \in 1..Len(Tail(w)),
               Tail(w)[i] = "text", Tail(w)[j] \in Verdicts
        PROVE  i < j
    <3>1. i + 1 < j + 1
      BY <1>2, <1>7, <2>1 DEF TextFirst
    <3> QED
      BY <3>1
  <2>2. Head(w) \in Verdicts => NoText(Tail(w))
    BY <1>1, <1>2, <1>7 DEF TextFirst, NoText
  <2> QED
    BY <2>1, <2>2 DEF TextFirst
<1> QED
  BY <1>1, <1>3, <1>4, <1>5, <1>6, <1>7

\* An unsolicited line arrives.
LEMMA UrcArrives ==
  ASSUME NEW w \in Seq(Line), NEW u \in {"pub", "discon"}
  PROVE  /\ Append(w, u) \in Seq(Line)
         /\ NoVerdict(w) => NoVerdict(Append(w, u))
         /\ NoText(w) => NoText(Append(w, u))
         /\ \A v : OneVerdict(w, v) => OneVerdict(Append(w, u), v)
         /\ OneText(w) => OneText(Append(w, u))
         /\ TextFirst(w) => TextFirst(Append(w, u))
<1> DEFINE a == Append(w, u)
<1>1. /\ a \in Seq(Line) /\ Len(w) \in Nat /\ Len(a) = Len(w) + 1
      /\ \A i \in 1..Len(w) : a[i] = w[i]
      /\ a[Len(w) + 1] = u
  BY DEF Line
<1>2. \A i \in 1..Len(a) :
        \/ a[i] \notin Verdicts /\ a[i] # "text"
        \/ i \in 1..Len(w) /\ a[i] = w[i]
  <2>1. u \notin Verdicts /\ u # "text"
    BY DEF Verdicts
  <2> QED
    BY <1>1, <2>1
<1> HIDE DEF a
<1>3. /\ NoVerdict(w) => NoVerdict(a)
      /\ NoText(w) => NoText(a)
      /\ \A v : OneVerdict(w, v) => OneVerdict(a, v)
      /\ OneText(w) => OneText(a)
      /\ TextFirst(w) => TextFirst(a)
  BY <1>2 DEF NoVerdict, NoText, OneVerdict, OneText, TextFirst, Verdicts
<1> QED
  BY <1>1, <1>3 DEF a

\* The beginning of a line is lost.
LEMMA LineCut ==
  ASSUME NEW w \in Seq(Line), w # <<>>
  PROVE  /\ [w EXCEPT ![1] = "text"] \in Seq(Line)
         /\ NoVerdict(w) => NoVerdict([w EXCEPT ![1] = "text"])
         /\ \A v : OneVerdict(w, v) => OneVerdict([w EXCEPT ![1] = "text"], v)
<1> DEFINE c == [w EXCEPT ![1] = "text"]
<1>1. /\ c \in Seq(Line) /\ Len(c) = Len(w)
      /\ \A i \in 1..Len(w) : c[i] = "text" \/ c[i] = w[i]
  BY DEF Line
<1> HIDE DEF c
<1>2. /\ NoVerdict(w) => NoVerdict(c)
      /\ \A v : OneVerdict(w, v) => OneVerdict(c, v)
  BY <1>1 DEF NoVerdict, OneVerdict, Verdicts
<1> QED
  BY <1>1, <1>2 DEF c

\* The module answers: a line of text or none, and a verdict.
Answered(w, t, v) == w \o [i \in 1..t |-> "text"] \o <<v>>

LEMMA AnswerArrives ==
  ASSUME NEW w \in Seq(Line), NEW t \in {0, 1}, NEW v \in Verdicts
  PROVE  /\ Answered(w, t, v) \in Seq(Line)
         /\ NoVerdict(w) => OneVerdict(Answered(w, t, v), v)
         /\ NoText(w) => OneText(Answered(w, t, v))
         /\ NoText(w) /\ t = 0 => NoText(Answered(w, t, v))
         /\ NoText(w) /\ NoVerdict(w) => TextFirst(Answered(w, t, v))
<1> DEFINE a == Answered(w, t, v)
<1> DEFINE s == [i \in 1..t |-> "text"]
<1>1. /\ s \in Seq(Line) /\ Len(s) = t /\ <<v>> \in Seq(Line) /\ Len(<<v>>) = 1
      /\ <<v>>[1] = v
  BY DEF Line, Verdicts
<1>2. /\ a \in Seq(Line) /\ Len(w) \in Nat /\ Len(a) = Len(w) + t + 1
      /\ \A i \in 1..Len(w) : a[i] = w[i]
      /\ \A i \in 1..t : a[Len(w) + i] = "text"
      /\ a[Len(w) + t + 1] = v
  BY <1>1 DEF Answered
<1> HIDE DEF a
<1>3. \A i \in 1..Len(a) :
        \/ i \in 1..Len(w) /\ a[i] = w[i]
        \/ t = 1 /\ i = Len(w) + 1 /\ a[i] = "text"
        \/ i = Len(w) + t + 1 /\ a[i] = v
  <2>1. CASE t = 0
    BY <1>2, <2>1
  <2>2. CASE t = 1
    BY <1>2, <2>2
  <2> QED
    BY <2>1, <2>2
<1>4. "text" \notin Verdicts /\ v # "text"
  BY DEF Verdicts
<1>5. NoVerdict(w) => OneVerdict(a, v)
  BY <1>3, <1>4 DEF NoVerdict, OneVerdict
<1>6. ASSUME NoText(w) PROVE OneText(a) /\ (t = 0 => NoText(a))
  <2>1. \A i \in 1..Len(a) : a[i] = "text" => t = 1 /\ i = Len(w) + 1
    BY <1>3, <1>4, <1>6 DEF NoText
  <2>2. OneText(a)
    BY <2>1, Zenon DEF OneText
  <2>3. t = 0 => NoText(a)
    BY <2>1 DEF NoText
  <2> QED
    BY <2>2, <2>3
<1>7. NoText(w) /\ NoVerdict(w) => TextFirst(a)
  BY <1>2, <1>3, <1>4 DEF NoText, NoVerdict, TextFirst
<1> QED
  BY <1>2, <1>5, <1>6, <1>7 DEF a

-----------------------------------------------------------------------------
(* The invariant.                                                          *)

\* The owner of the lock is where only an owner is, and who waits for it waits
\* for the other caller.
MutexInv ==
  \A c \in Caller :
    /\ cpc[c] \in Holding <=> lock = c
    /\ cpc[c] = "blocked" => lock = Other(c)

ResultInv == result # "none" => Where \in Leaving

\* Every command of user_task times out: without a timeout it is still in its
\* first one.
UserInv ==
  /\ cpc["user"] = "reset" => started["user"] = UserCommands
  /\ ~unclaimed =>
       /\ cpc["user"] \in {"idle", "blocked", "status", "resp", "send", "wait"}
       /\ cpc["user"] = "idle" => started["user"] \notin 1..UserCommands - 1

\* No line is cut: user_task has not started, or nothing has timed out.
Uncut == ~unclaimed \/ started["user"] = 0

Resting == ppc \in {"read", "dead"}

\* The parser rests or has a line of text in hand.
Reading == Resting \/ (ppc \in {"test", "fit", "copy", "verdict"} /\ line = "text")

\* An uncut answer's line of text is still to come, on the wire before the
\* verdict, in the parser's hands, or counted.
NoTextYet == line_counts = 0 /\ Resting /\ NoText(wire)
TextOnce ==
  \/ NoTextYet
  \/ /\ pending = <<>> /\ texts = 1
     /\ \/ line_counts = 0 /\ Resting /\ OneText(wire) /\ TextFirst(wire)
        \/ line_counts = 0 /\ ppc \in {"test", "fit", "copy"} /\ NoText(wire)
        \/ line_counts <= 1 /\ ppc \in {"verdict", "read", "dead"} /\ NoText(wire)

\* The stages of a command that started clean: its verdict has not been read,
Waiting ==
  /\ resp = lock /\ ~resp_notice
  /\ Reading
  /\ ppc = "copy" => target = lock
  /\ \/ pending = <<>> /\ OneVerdict(wire, verdict)
     \/ pending = <<"now">> /\ NoVerdict(wire)
  /\ Uncut => TextOnce

\* its verdict is in the parser's hands,
Judged ==
  /\ resp = lock /\ ~resp_notice /\ lock = "data"
  /\ ppc \in {"test", "fit", "copy", "verdict", "counts", "clear"}
  /\ line = verdict /\ line \in Verdicts
  /\ ppc = "copy" => target = lock
  /\ ppc \in {"counts", "clear"} => resp_status = verdict
  /\ pending = <<>> /\ NoVerdict(wire)
  /\ Uncut =>
       /\ NoText(wire)
       /\ ppc \in {"test", "fit", "copy"} => line_counts <= texts
       /\ line_counts <= texts + 1
       /\ ppc = "clear" => counted <= texts + 1

\* and the parser has let go of the response object.
Over ==
  /\ resp = Nobody /\ pending = <<>> /\ NoVerdict(wire)
  /\ Uncut => NoText(wire) /\ counted <= texts + 1
Cleared ==
  Over /\ lock = "data" /\ ~resp_notice /\ ppc = "notify" /\ resp_status = verdict
Settled ==
  /\ Over /\ (Resting \/ (ppc = "test" /\ line = "text"))
  /\ Uncut => Resting /\ line_counts = 0
Told == Settled /\ lock = "data" /\ resp_notice /\ resp_status = verdict
Returned ==
  /\ Settled /\ (Where = "unlock" => ~resp_notice)
  /\ result \in Verdicts => result = verdict

Fresh ==
  /\ Waiting /\ pending = <<>> /\ NoVerdict(wire)
  /\ Uncut => NoTextYet

ExchangeInv ==
  clean =>
    /\ Where = "send" => Fresh
    /\ Where = "wait" => Waiting \/ Judged \/ Cleared \/ Told
    /\ Where \in Leaving /\ (result # "TIMEOUT" \/ ~unclaimed) => Returned

\* Until a timeout every exchange leaves nothing behind and starts clean.
QuietInv ==
  ~unclaimed /\ Where \in {"idle", "status", "resp", "unlock"} => Quiet
CleanInv == ~unclaimed /\ Where \in {"send", "wait"} \cup Leaving => clean

IInv ==
  /\ TypeOK /\ MutexInv /\ ResultInv /\ UserInv
  /\ ExchangeInv /\ QuietInv /\ CleanInv

LEMMA InitIInv == Init => IInv
<1> SUFFICES ASSUME Init PROVE IInv
  OBVIOUS
<1>1. TypeOK
  <2>1. <<>> \in Seq(Line) /\ <<"OK">> \in Seq(Line)
    BY DEF Line
  <2>4. wire \in Seq(Line)
    BY <2>1 DEF Init
  <2>5. /\ unclaimed \in BOOLEAN /\ clean \in BOOLEAN
        /\ resp_notice \in BOOLEAN
    BY Zenon DEF Init
  <2>2. cpc \in [Caller -> CallerPC] /\ started \in [Caller -> Nat]
    BY DEF Init, CallerPC
  <2>3. \A c \in Caller : started[c] <= Limit(c)
    BY CommandsAssumption DEF Init, Limit
  <2> QED
    BY <2>2, <2>3, <2>4, <2>5, CommandsAssumption
    DEF Init, TypeOK, Nobody, ParserPC, Result
<1>2. MutexInv /\ Where = "idle"
  BY DEF Init, MutexInv, Caller, Nobody, Holding, Where
<1>3. ResultInv /\ UserInv /\ ExchangeInv /\ CleanInv
  BY <1>2 DEF Init, ResultInv, UserInv, ExchangeInv, CleanInv, Leaving, Caller
<1>4. QuietInv
  <2>1. ~unclaimed => wire = <<>>
    BY DEF Init
  <2> QED
    BY <2>1 DEF Init, QuietInv, Quiet
<1> QED
  BY <1>1, <1>2, <1>3, <1>4 DEF IInv

-----------------------------------------------------------------------------
(* The simple parts.                                                       *)

\* Stays typed.
LEMMA TypeStep == TypeOK /\ [Next]_vars => TypeOK'
<1> SUFFICES ASSUME TypeOK, [Next]_vars PROVE TypeOK'
  OBVIOUS
<1> USE CommandsAssumption
<1> USE DEF TypeOK, Moves, Caller, CallerPC, ParserPC, Result, Line, Nobody,
            callers, client, parser, underWay, urcs, others
<1>1. ASSUME NEW c \in Caller, Lock(c) PROVE TypeOK'
  BY <1>1 DEF Lock, Limit
<1>2. ASSUME NEW c \in Caller, SetStatus(c) PROVE TypeOK'
  BY <1>2 DEF SetStatus
<1>3. ASSUME NEW c \in Caller, SetResp(c) PROVE TypeOK'
  BY <1>3 DEF SetResp, Quiet
<1>4. ASSUME NEW c \in Caller, Send(c) PROVE TypeOK'
  BY <1>4 DEF Send
<1>5. ASSUME NEW c \in Caller, See(c) PROVE TypeOK'
  BY <1>5 DEF See
<1>6. ASSUME NEW c \in Caller, TimeOut(c) PROVE TypeOK'
  BY <1>6 DEF TimeOut
<1>7. ASSUME NEW c \in Caller, ClearResp(c) PROVE TypeOK'
  BY <1>7 DEF ClearResp
<1>8. ASSUME NEW c \in Caller, ClearNotice(c) PROVE TypeOK'
  <2>1. cpc' \in [Caller -> CallerPC]
    BY <1>8 DEF ClearNotice
  <2>2. resp_notice' \in BOOLEAN
    BY <1>8, Zenon DEF ClearNotice
  <2> QED
    BY <1>8, <2>1, <2>2 DEF ClearNotice
<1>9. ASSUME NEW c \in Caller, Unlock(c) PROVE TypeOK'
  <2>1. Then(c) \in CallerPC /\ Other(c) \in Caller
    BY DEF Then, Other
  <2>2. pending' \in Seq({"now", "old"})
    BY <1>9 DEF Unlock, Return
  <2>3. cpc' \in [Caller -> CallerPC] /\ lock' \in Caller \cup {Nobody}
    BY <1>9, <2>1 DEF Unlock
  <2>4. clean' \in BOOLEAN
    BY <1>9, Zenon DEF Unlock, Return
  <2> QED
    BY <1>9, <2>2, <2>3, <2>4 DEF Unlock, Return
<1>10. ASSUME Reset PROVE TypeOK'
  <2>1. cpc' \in [Caller -> CallerPC]
    BY <1>10 DEF Reset
  <2>2. /\ clean' \in BOOLEAN /\ unclaimed' \in BOOLEAN
        /\ resp_notice' \in BOOLEAN
    BY <1>10, Zenon DEF Reset
  <2> QED
    BY <1>10, <2>1, <2>2 DEF Reset
<1>11. ASSUME ReadLine PROVE TypeOK'
  <2>1. Head(wire) \in Line /\ Tail(wire) \in Seq(Line)
    BY <1>11 DEF ReadLine
  <2> QED
    BY <1>11, <2>1 DEF ReadLine, At, InUrcTable
<1>12. ASSUME CutLine PROVE TypeOK'
  BY <1>12, LineCut DEF CutLine, At
<1>13. ASSUME Test PROVE TypeOK'
  BY <1>13 DEF Test, At
<1>14. ASSUME Fit PROVE TypeOK'
  BY <1>14 DEF Fit, Fault, At
<1>15. ASSUME Copy PROVE TypeOK'
  BY <1>15 DEF Copy, At
<1>16. ASSUME Verdict PROVE TypeOK'
  BY <1>16 DEF Verdict, Fault, At
<1>17. ASSUME SetCounts PROVE TypeOK'
  BY <1>17 DEF SetCounts, Fault, At
<1>18. ASSUME Clear PROVE TypeOK'
  BY <1>18 DEF Clear, At
<1>19. ASSUME Notify PROVE TypeOK'
  BY <1>19 DEF Notify, At
<1>20. ASSUME Answer PROVE TypeOK'
  <2>1. ASSUME NEW v \in Verdicts, NEW t \in {0, 1}
        PROVE  Answered(wire, t, v) \in Seq(Line)
    BY AnswerArrives
  <2>2. wire' \in Seq(Line)
    BY <1>20, <2>1 DEF Answer, Answered, Verdicts
  <2>3. pending' \in Seq({"now", "old"})
    BY <1>20 DEF Answer
  <2> QED
    BY <1>20, <2>2, <2>3 DEF Answer
<1>21. ASSUME SendUrc PROVE TypeOK'
  BY <1>21, UrcArrives DEF SendUrc
<1>22. ASSUME UNCHANGED vars PROVE TypeOK'
  BY <1>22 DEF vars
<1> QED
  BY <1>1, <1>2, <1>3, <1>4, <1>5, <1>6, <1>7, <1>8, <1>9, <1>10, <1>11, <1>12,
     <1>13, <1>14, <1>15, <1>16, <1>17, <1>18, <1>19, <1>20, <1>21, <1>22
  DEF Next, CallerStep, ParserStep

\* A step inside at_obj_exec_cmd is the owner's.
LEMMA OwnerMoves ==
  ASSUME TypeOK, MutexInv, NEW c \in Caller, NEW here \in Holding,
         NEW there \in Holding, Moves(c, here, there), lock' = lock
  PROVE  lock = c /\ Where = here /\ Where' = there /\ MutexInv'
<1>1. lock = c /\ cpc[c] = here /\ c # Nobody
  BY DEF Moves, MutexInv, Caller, Nobody
<1>2. cpc'[c] = there /\ \A d \in Caller \ {c} : cpc'[d] = cpc[d]
  BY DEF Moves, TypeOK
<1>3. Where = here /\ Where' = there
  BY <1>1, <1>2 DEF Where
<1>4. there # "blocked" /\ c # Other(c)
  BY DEF Holding, Other, Caller
<1> QED
  BY <1>1, <1>2, <1>3, <1>4 DEF MutexInv

LEMMA NobodyMoves ==
  ASSUME MutexInv, UNCHANGED callers
  PROVE  Where' = Where /\ MutexInv'
BY DEF callers, Where, MutexInv

\* While the parser runs user_task sleeps and does not own the lock.
LEMMA ParserAlone ==
  ASSUME TypeOK, MutexInv, ParserRuns
  PROVE  cpc["user"] = "idle" /\ lock \in {Nobody, "data"}
BY DEF TypeOK, MutexInv, ParserRuns, Holding, Caller, Nobody

LEMMA LockMutex ==
  ASSUME TypeOK, MutexInv, NEW c \in Caller, Lock(c)
  PROVE  /\ MutexInv' /\ cpc[c] \in {"idle", "call"}
         /\ \/ lock = Nobody /\ Where = "idle" /\ Where' = "status"
               /\ lock' = c /\ cpc' = [cpc EXCEPT ![c] = "status"]
            \/ lock = Other(c) /\ Where' = Where
               /\ lock' = lock /\ cpc' = [cpc EXCEPT ![c] = "blocked"]
<1>1. cpc[c] \in {"idle", "call"} /\ lock # c /\ c # Nobody
  BY DEF Lock, Moves, MutexInv, Holding, Caller, Nobody
<1>2. Other(c) \in Caller /\ Other(c) # c /\ Other(Other(c)) = c
      /\ \A d \in Caller : d # c => d = Other(c)
  BY DEF Other, Caller
<1>3. CASE lock = Nobody
  <2>1. lock' = c /\ cpc' = [cpc EXCEPT ![c] = "status"]
    BY <1>3 DEF Lock, Moves
  <2>2. cpc'[c] = "status" /\ \A d \in Caller \ {c} : cpc'[d] = cpc[d]
    BY <2>1 DEF TypeOK
  <2>3. Where = "idle" /\ Where' = "status"
    BY <1>1, <1>3, <2>1, <2>2 DEF Where
  <2>4. MutexInv'
    BY <1>1, <1>2, <1>3, <2>1, <2>2 DEF MutexInv, Holding, Nobody, Caller
  <2> QED
    BY <1>1, <1>3, <2>1, <2>3, <2>4
<1>4. CASE lock # Nobody
  <2>1. lock = Other(c)
    BY <1>1, <1>2, <1>4 DEF TypeOK
  <2>2. lock' = lock /\ cpc' = [cpc EXCEPT ![c] = "blocked"]
    BY <1>4 DEF Lock, Moves
  <2>3. cpc'[c] = "blocked" /\ \A d \in Caller \ {c} : cpc'[d] = cpc[d]
    BY <2>2 DEF TypeOK
  <2>4. Where' = Where
    BY <1>2, <1>4, <2>1, <2>2, <2>3 DEF Where
  <2>5. MutexInv'
    BY <1>1, <1>2, <2>1, <2>2, <2>3 DEF MutexInv, Holding
  <2> QED
    BY <1>1, <2>1, <2>2, <2>4, <2>5
<1> QED
  BY <1>3, <1>4

LEMMA UnlockMutex ==
  ASSUME TypeOK, MutexInv, NEW c \in Caller, Unlock(c)
  PROVE  /\ MutexInv' /\ lock = c /\ Where = "unlock"
         /\ Where' \in {"idle", "status"}
         /\ cpc'[c] = Then(c)
         /\ cpc'[Other(c)] = cpc[Other(c)] \/ cpc'[Other(c)] = "status"
<1>1. lock = c /\ cpc[c] = "unlock" /\ c # Nobody
  BY DEF Unlock, MutexInv, Holding, Caller, Nobody
<1>2. Other(c) \in Caller /\ Other(c) # c /\ Other(c) # Nobody
      /\ \A d \in Caller : d = c \/ d = Other(c)
  BY DEF Other, Caller, Nobody
<1>3. Then(c) \notin Holding /\ Then(c) # "blocked"
  BY DEF Then, Holding
<1>4. Where = "unlock"
  BY <1>1 DEF Where
<1>5. CASE cpc[Other(c)] = "blocked"
  <2>1. lock' = Other(c)
        /\ cpc' = [cpc EXCEPT ![c] = Then(c), ![Other(c)] = "status"]
    BY <1>5 DEF Unlock
  <2>2. cpc'[c] = Then(c) /\ cpc'[Other(c)] = "status"
    BY <1>2, <2>1 DEF TypeOK
  <2>3. Where' = "status"
    BY <1>2, <2>1, <2>2 DEF Where
  <2>4. MutexInv'
    BY <1>2, <1>3, <2>1, <2>2 DEF MutexInv, Holding
  <2> QED
    BY <1>1, <1>4, <2>2, <2>3, <2>4
<1>6. CASE cpc[Other(c)] # "blocked"
  <2>1. lock' = Nobody /\ cpc' = [cpc EXCEPT ![c] = Then(c)]
    BY <1>6 DEF Unlock
  <2>2. cpc'[c] = Then(c) /\ cpc'[Other(c)] = cpc[Other(c)]
    BY <1>2, <2>1 DEF TypeOK
  <2>3. Where' = "idle"
    BY <2>1 DEF Where
  <2>4. MutexInv'
    BY <1>1, <1>2, <1>3, <1>6, <2>1, <2>2 DEF MutexInv, Nobody
  <2> QED
    BY <1>1, <1>4, <2>2, <2>3, <2>4
<1> QED
  BY <1>5, <1>6

-----------------------------------------------------------------------------
(* The steps of the callers.                                               *)

\* The conjuncts that are about the exchange.
Exchange == ResultInv /\ UserInv /\ ExchangeInv /\ QuietInv /\ CleanInv

\* A step that touches neither the exchange nor where its owner is.
LEMMA ExchangeKept ==
  ASSUME ExchangeInv, QuietInv, CleanInv, ResultInv,
         UNCHANGED <<client, parser, wire, pending, underWay, unclaimed, lock>>,
         Where' = Where, Uncut' => Uncut
  PROVE  ExchangeInv' /\ QuietInv' /\ CleanInv' /\ ResultInv'
<1> USE DEF client, parser, underWay
<1>1. (Waiting => Waiting') /\ (Fresh => Fresh')
  BY DEF Waiting, Fresh, Reading, Resting, TextOnce, NoTextYet
<1>2. (Judged => Judged') /\ (Over => Over')
  BY DEF Judged, Over
<1>3. (Cleared => Cleared') /\ (Settled => Settled')
  BY <1>2 DEF Cleared, Settled, Resting
<1>4. (Told => Told') /\ (Returned => Returned')
  BY <1>3 DEF Told, Returned
<1>5. ExchangeInv'
  BY <1>1, <1>2, <1>3, <1>4 DEF ExchangeInv
<1>6. QuietInv' /\ CleanInv' /\ ResultInv'
  BY DEF QuietInv, Quiet, CleanInv, ResultInv
<1> QED
  BY <1>5, <1>6

LEMMA LockStep ==
  ASSUME TypeOK, MutexInv, Exchange, NEW c \in Caller, Lock(c)
  PROVE  Exchange'
<1> USE DEF Exchange
<1>1. UNCHANGED <<client, parser, wire, pending, underWay, unclaimed>>
      /\ started' = [started EXCEPT ![c] = @ + 1]
  BY DEF Lock
<1>2. /\ started'["user"] = 0 => started["user"] = 0
      /\ c # "user" => started'["user"] = started["user"]
  BY <1>1 DEF TypeOK, Caller
<1>3. Uncut' => Uncut
  BY <1>1, <1>2, Zenon DEF Uncut
<1>4. UserInv'
  <2>1. c = "user" => cpc'["user"] \in {"status", "blocked"}
                      /\ (cpc["user"] = "call" => unclaimed)
    BY LockMutex DEF TypeOK, UserInv, Caller
  <2>2. c # "user" => cpc'["user"] = cpc["user"]
    BY LockMutex DEF TypeOK, Caller
  <2> QED
    BY <1>1, <1>2, <2>1, <2>2, LockMutex DEF UserInv
<1>5. CASE lock = Nobody
  <2>1. Where = "idle" /\ Where' = "status"
    BY <1>5, LockMutex DEF Other, Nobody
  <2>2. QuietInv'
    BY <1>1, <2>1 DEF QuietInv, Quiet, client, parser
  <2>3. ExchangeInv' /\ CleanInv' /\ ResultInv'
    BY <1>1, <2>1 DEF ExchangeInv, CleanInv, ResultInv, Leaving, underWay
  <2> QED
    BY <1>4, <2>2, <2>3
<1>6. CASE lock # Nobody
  <2>1. Where' = Where /\ lock' = lock
    BY <1>6, LockMutex
  <2> QED
    BY <1>1, <1>3, <1>4, <2>1, ExchangeKept
<1> QED
  BY <1>5, <1>6

\* The owner's steps leave user_task where UserInv wants it.
LEMMA OwnerUser ==
  ASSUME TypeOK, UserInv, NEW c \in Caller, NEW here \in Holding,
         NEW there \in Holding, Moves(c, here, there),
         UNCHANGED <<started, unclaimed>>,
         c = "user" /\ ~unclaimed => there \notin Leaving
  PROVE  UserInv' /\ (Uncut' => Uncut)
<1>1. cpc'["user"] = IF c = "user" THEN there ELSE cpc["user"]
  BY DEF Moves, TypeOK, Caller
<1>2. UserInv'
  BY <1>1 DEF UserInv, Holding, Leaving
<1> QED
  BY <1>2, Zenon DEF Uncut

LEMMA SetStatusStep ==
  ASSUME TypeOK, MutexInv, Exchange, NEW c \in Caller, SetStatus(c)
  PROVE  MutexInv' /\ Exchange'
<1> USE DEF Exchange
<1>1. Moves(c, "status", "resp") /\ lock' = lock
      /\ UNCHANGED <<started, unclaimed>>
  BY DEF SetStatus
<1>2. "status" \in Holding /\ "resp" \in Holding /\ "resp" \notin Leaving
  BY DEF Holding, Leaving
<1>3. MutexInv' /\ Where = "status" /\ Where' = "resp"
  BY <1>1, <1>2, OwnerMoves
<1>4. UserInv'
  BY <1>1, <1>2, OwnerUser
<1>5. QuietInv'
  BY <1>3 DEF QuietInv, Quiet, SetStatus, parser
<1>6. ExchangeInv' /\ CleanInv' /\ ResultInv'
  BY <1>3 DEF ExchangeInv, CleanInv, ResultInv, Leaving, SetStatus
<1> QED
  BY <1>3, <1>4, <1>5, <1>6

LEMMA SetRespStep ==
  ASSUME TypeOK, MutexInv, Exchange, NEW c \in Caller, SetResp(c)
  PROVE  MutexInv' /\ Exchange'
<1> USE DEF Exchange
<1>1. Moves(c, "resp", "send") /\ lock' = lock
      /\ UNCHANGED <<started, unclaimed>>
  BY DEF SetResp
<1>2. "resp" \in Holding /\ "send" \in Holding /\ "send" \notin Leaving
  BY DEF Holding, Leaving
<1>3. MutexInv' /\ Where = "resp" /\ Where' = "send" /\ lock = c
  BY <1>1, <1>2, OwnerMoves
<1>4. UserInv'
  BY <1>1, <1>2, OwnerUser
<1>5. CleanInv'
  BY <1>3 DEF QuietInv, CleanInv, SetResp
<1>6. Quiet => Fresh'
  <2> SUFFICES ASSUME Quiet PROVE Fresh'
    OBVIOUS
  <2>1. NoVerdict(wire) /\ NoText(wire) /\ OneVerdict(wire, verdict)
    BY UrcsOnly, NoVerdictIsOne DEF Quiet, TypeOK
  <2>2. /\ resp' = lock' /\ ~resp_notice' /\ pending' = <<>> /\ wire' = wire
        /\ ppc' \in {"read", "dead"} /\ line_counts' = 0 /\ verdict' = verdict
    BY <1>3 DEF SetResp, Quiet, parser
  <2>3. Reading' /\ TextOnce' /\ NoTextYet' /\ ppc' # "copy"
    BY <2>1, <2>2 DEF Reading, Resting, TextOnce, NoTextYet
  <2> QED
    BY <2>1, <2>2, <2>3 DEF Fresh, Waiting
<1>7. ExchangeInv'
  BY <1>3, <1>6 DEF ExchangeInv, Leaving, SetResp
<1>8. QuietInv' /\ ResultInv'
  BY <1>3 DEF QuietInv, ResultInv, Leaving, SetResp
<1> QED
  BY <1>3, <1>4, <1>5, <1>7, <1>8

LEMMA SendStep ==
  ASSUME TypeOK, MutexInv, Exchange, NEW c \in Caller, Send(c)
  PROVE  MutexInv' /\ Exchange'
<1> USE DEF Exchange
<1>1. Moves(c, "send", "wait") /\ lock' = lock
      /\ UNCHANGED <<started, unclaimed, client, parser, wire, underWay>>
  BY DEF Send
<1>2. "send" \in Holding /\ "wait" \in Holding /\ "wait" \notin Leaving
  BY DEF Holding, Leaving
<1>3. MutexInv' /\ Where = "send" /\ Where' = "wait"
  BY <1>1, <1>2, OwnerMoves
<1>4. UserInv' /\ (Uncut' => Uncut)
  BY <1>1, <1>2, OwnerUser
<1>5. Fresh => Waiting'
  <2> SUFFICES ASSUME Fresh PROVE Waiting'
    OBVIOUS
  <2>1. pending' = <<"now">>
    BY DEF Fresh, Send
  <2>2. Waiting /\ NoVerdict(wire)
    BY DEF Fresh
  <2> QED
    BY <1>1, <1>4, <2>1, <2>2
    DEF Fresh, Waiting, Reading, Resting, TextOnce, NoTextYet, client, parser
<1>6. ExchangeInv'
  BY <1>1, <1>3, <1>5 DEF ExchangeInv, Leaving, underWay
<1>7. QuietInv' /\ CleanInv' /\ ResultInv'
  BY <1>1, <1>3 DEF QuietInv, CleanInv, ResultInv, Leaving, underWay
<1> QED
  BY <1>3, <1>4, <1>6, <1>7

LEMMA SeeStep ==
  ASSUME TypeOK, MutexInv, Exchange, NEW c \in Caller, See(c)
  PROVE  MutexInv' /\ Exchange'
<1> USE DEF Exchange
<1>1. /\ Moves(c, "wait", "clear_resp") /\ lock' = lock /\ resp_notice
      /\ UNCHANGED <<started, unclaimed, resp, resp_notice, parser, wire,
                     pending, counted, verdict, texts, clean>>
  BY DEF See
<1>2. "wait" \in Holding /\ "clear_resp" \in Holding /\ "clear_resp" \in Leaving
  BY DEF Holding, Leaving
<1>3. MutexInv' /\ Where = "wait" /\ Where' = "clear_resp" /\ lock = c
  BY <1>1, <1>2, OwnerMoves
<1>4. clean => Told
  BY <1>1, <1>3 DEF ExchangeInv, Waiting, Judged, Cleared
<1>5. c = "user" => unclaimed
  BY <1>3, <1>4 DEF CleanInv, Told
<1>6. UserInv' /\ (Uncut' => Uncut)
  BY <1>1, <1>2, <1>5, OwnerUser
<1>7. result' \in Verdicts /\ resp_status # "TIMEOUT" => result' = resp_status
  BY DEF See, Verdicts, TypeOK
<1>8. Told => Returned'
  <2> SUFFICES ASSUME Told PROVE Returned'
    OBVIOUS
  <2>1. resp_status = verdict /\ verdict # "TIMEOUT"
    BY DEF Told, TypeOK
  <2>2. Settled'
    BY <1>1, <1>6 DEF Told, Settled, Over, Resting, parser
  <2> QED
    BY <1>1, <1>3, <1>7, <2>1, <2>2 DEF Returned
<1>9. ExchangeInv'
  BY <1>1, <1>3, <1>4, <1>8 DEF ExchangeInv
<1>10. QuietInv' /\ CleanInv' /\ ResultInv'
  BY <1>1, <1>2, <1>3 DEF QuietInv, CleanInv, ResultInv
<1> QED
  BY <1>3, <1>6, <1>9, <1>10

LEMMA TimeOutStep ==
  ASSUME TypeOK, MutexInv, Exchange, NEW c \in Caller, TimeOut(c)
  PROVE  MutexInv' /\ Exchange'
<1> USE DEF Exchange
<1>1. /\ Moves(c, "wait", "clear_resp") /\ lock' = lock
      /\ unclaimed' = TRUE /\ result' = "TIMEOUT" /\ UNCHANGED started
  BY DEF TimeOut
<1>2. "wait" \in Holding /\ "clear_resp" \in Holding /\ "clear_resp" \in Leaving
  BY DEF Holding, Leaving
<1>3. MutexInv' /\ Where' = "clear_resp"
  BY <1>1, <1>2, OwnerMoves
<1>4. cpc'["user"] = IF c = "user" THEN "clear_resp" ELSE cpc["user"]
  BY <1>1 DEF Moves, TypeOK, Caller
<1>5. UserInv'
  BY <1>1, <1>4 DEF UserInv
<1>6. ExchangeInv' /\ QuietInv' /\ CleanInv' /\ ResultInv'
  BY <1>1, <1>2, <1>3 DEF ExchangeInv, QuietInv, CleanInv, ResultInv
<1> QED
  BY <1>3, <1>5, <1>6

LEMMA ClearRespStep ==
  ASSUME TypeOK, MutexInv, Exchange, NEW c \in Caller, ClearResp(c)
  PROVE  MutexInv' /\ Exchange'
<1> USE DEF Exchange
<1>1. /\ Moves(c, "clear_resp", "clear_notice") /\ lock' = lock
      /\ UNCHANGED <<started, unclaimed, resp_status, resp_notice, parser, wire,
                     pending, underWay>>
      /\ resp' = Nobody
  BY DEF ClearResp
<1>2. /\ "clear_notice" \in Holding /\ "clear_notice" \in Leaving
      /\ "clear_resp" \in Holding /\ "clear_resp" \in Leaving
  BY DEF Holding, Leaving
<1>3. MutexInv' /\ Where = "clear_resp" /\ Where' = "clear_notice" /\ lock = c
  BY <1>1, <1>2, OwnerMoves
<1>4. c = "user" => unclaimed
  BY <1>1, <1>2 DEF UserInv, Moves
<1>5. UserInv' /\ (Uncut' => Uncut)
  BY <1>1, <1>2, <1>4, OwnerUser
<1>6. Returned => Returned'
  BY <1>1, <1>3, <1>5
  DEF Returned, Settled, Over, Resting, parser, underWay
<1>7. ExchangeInv'
  BY <1>1, <1>2, <1>3, <1>6 DEF ExchangeInv, underWay
<1>8. QuietInv' /\ CleanInv' /\ ResultInv'
  BY <1>1, <1>2, <1>3 DEF QuietInv, CleanInv, ResultInv, underWay
<1> QED
  BY <1>3, <1>5, <1>7, <1>8

LEMMA ClearNoticeStep ==
  ASSUME TypeOK, MutexInv, Exchange, NEW c \in Caller, ClearNotice(c)
  PROVE  MutexInv' /\ Exchange'
<1> USE DEF Exchange
<1>1. /\ Moves(c, "clear_notice", "unlock") /\ lock' = lock
      /\ UNCHANGED <<started, unclaimed, resp, resp_status, parser, wire,
                     pending, underWay>>
      /\ ~resp_notice'
  BY DEF ClearNotice
<1>2. /\ "clear_notice" \in Holding /\ "clear_notice" \in Leaving
      /\ "unlock" \in Holding /\ "unlock" \in Leaving
  BY DEF Holding, Leaving
<1>3. MutexInv' /\ Where = "clear_notice" /\ Where' = "unlock" /\ lock = c
  BY <1>1, <1>2, OwnerMoves
<1>4. c = "user" => unclaimed
  BY <1>1 DEF UserInv, Moves
<1>5. UserInv' /\ (Uncut' => Uncut)
  BY <1>1, <1>2, <1>4, OwnerUser
<1>6. Returned => Returned'
  BY <1>1, <1>3, <1>5
  DEF Returned, Settled, Over, Resting, parser, underWay
<1>7. ExchangeInv'
  BY <1>1, <1>2, <1>3, <1>6 DEF ExchangeInv, underWay
<1>8. QuietInv'
  <2> SUFFICES ASSUME ~unclaimed PROVE Quiet'
    BY <1>1 DEF QuietInv
  <2>1. Returned
    BY <1>2, <1>3 DEF CleanInv, ExchangeInv
  <2>2. /\ NoVerdict(wire) /\ NoText(wire) /\ pending = <<>> /\ Resting
        /\ line_counts = 0
    BY <2>1 DEF Returned, Settled, Over, Uncut
  <2>3. \A i \in 1..Len(wire) : InUrcTable(wire[i])
    BY <2>2, UrcsOnly DEF TypeOK
  <2> QED
    BY <1>1, <2>2, <2>3 DEF Quiet, Resting, parser
<1>9. CleanInv' /\ ResultInv'
  BY <1>1, <1>2, <1>3 DEF CleanInv, ResultInv, underWay
<1> QED
  BY <1>3, <1>5, <1>7, <1>8, <1>9

LEMMA UnlockStep ==
  ASSUME TypeOK, MutexInv, Exchange, NEW c \in Caller, Unlock(c)
  PROVE  MutexInv' /\ Exchange'
<1> USE DEF Exchange
<1>1. /\ MutexInv' /\ lock = c /\ Where = "unlock" /\ Where' \in {"idle", "status"}
      /\ cpc'[c] = Then(c)
      /\ cpc'[Other(c)] = cpc[Other(c)] \/ cpc'[Other(c)] = "status"
  BY UnlockMutex
<1>2. /\ UNCHANGED <<started, client, ppc, line, line_counts, wire, unclaimed>>
      /\ pending' = [i \in 1..Len(pending) |-> "old"]
      /\ result' = "none" /\ ~clean'
  BY DEF Unlock, Return
<1>3. UserInv'
  <2>1. CASE c = "user"
    <3>1. unclaimed /\ cpc'["user"] = Then("user")
      BY <1>1, <2>1 DEF Unlock, UserInv
    <3>2. Then("user") = "reset" => started["user"] = UserCommands
      BY DEF Then
    <3> QED
      BY <1>2, <3>1, <3>2 DEF UserInv
  <2>2. CASE c # "user"
    <3>1. cpc'["user"] = cpc["user"] \/ cpc'["user"] = "status"
      BY <1>1, <2>2 DEF Other, Caller
    <3> QED
      BY <1>2, <3>1 DEF UserInv
  <2> QED
    BY <2>1, <2>2
<1>4. QuietInv'
  <2> SUFFICES ASSUME ~unclaimed PROVE Quiet'
    BY <1>2 DEF QuietInv
  <2>1. Quiet
    BY <1>1 DEF QuietInv
  <2>2. pending' = <<>>
    BY <1>2, <2>1 DEF Quiet
  <2> QED
    BY <1>2, <2>1, <2>2 DEF Quiet, client
<1>5. ExchangeInv' /\ CleanInv' /\ ResultInv'
  BY <1>1, <1>2 DEF ExchangeInv, CleanInv, ResultInv, Leaving
<1> QED
  BY <1>1, <1>3, <1>4, <1>5

-----------------------------------------------------------------------------
(* The steps of the parser.                                                *)

Stage == Waiting \/ Judged \/ Cleared \/ Told

\* What the parser leaves alone, and what is left to show.
LEMMA ParserFrame ==
  ASSUME TypeOK, MutexInv, Exchange, ParserRuns,
         UNCHANGED <<others, result, clean>>,
         ~unclaimed /\ Resting /\ Quiet => Quiet',
         lock = "data" /\ Where = "send" /\ Fresh => Fresh',
         lock = "data" /\ Where = "wait" /\ Stage => Stage',
         lock = "data" /\ Where \in Leaving /\ Returned => Returned'
  PROVE  MutexInv' /\ Exchange'
<1> USE DEF Exchange
<1>1. Where' = Where /\ MutexInv'
  BY NobodyMoves DEF others
<1>2. UserInv'
  BY DEF UserInv, others, callers
<1>3. CleanInv' /\ ResultInv'
  BY <1>1 DEF CleanInv, ResultInv, others
<1>4. Quiet => Resting
  BY DEF Quiet, Resting
<1>5. QuietInv'
  BY <1>1, <1>4 DEF QuietInv, others
<1>6. lock = Nobody => Where = "idle"
  BY DEF Where
<1>7. Where # "idle" => lock = "data"
  BY <1>6, ParserAlone
<1>8. ExchangeInv'
  BY <1>1, <1>7 DEF ExchangeInv, Stage, Leaving, others
<1> QED
  BY <1>1, <1>2, <1>3, <1>5, <1>8

LEMMA ReadLineStep ==
  ASSUME TypeOK, MutexInv, Exchange, ReadLine
  PROVE  MutexInv' /\ Exchange'
<1> DEFINE l == Head(wire)
<1>1. /\ ParserRuns /\ UNCHANGED <<others, result, clean>>
      /\ UNCHANGED <<client, target, line_counts, counted, verdict, texts>>
      /\ wire # <<>> /\ wire' = Tail(wire) /\ ppc = "read"
      /\ \/ ~InUrcTable(l) /\ line' = l /\ ppc' = "test"
         \/ InUrcTable(l) /\ ppc' \in {"read", "dead"} /\ line' = line
  BY DEF ReadLine, At, underWay
<1>2. /\ UNCHANGED <<resp, resp_status, resp_notice, lock, pending, unclaimed,
                     started>>
      /\ Uncut' <=> Uncut
  BY <1>1, Zenon DEF client, others, callers, Uncut
<1>3. l \in Line /\ (InUrcTable(l) \/ l = "text" \/ l \in Verdicts)
  BY <1>1, LineRead DEF TypeOK, InUrcTable, Line, Verdicts
<1> HIDE DEF l
<1>4. /\ NoVerdict(wire) => NoVerdict(wire') /\ l \notin Verdicts
      /\ NoText(wire) => NoText(wire') /\ l # "text"
      /\ OneVerdict(wire, verdict) =>
           /\ OneVerdict(wire', verdict)
           /\ l \in Verdicts => l = verdict /\ NoVerdict(wire')
      /\ OneText(wire) => OneText(wire') /\ (l = "text" => NoText(wire'))
      /\ TextFirst(wire) => TextFirst(wire') /\ (l \in Verdicts => NoText(wire'))
  BY <1>1, LineRead DEF l, TypeOK
<1>5. Quiet => Quiet'
  <2>1. ASSUME Quiet PROVE Quiet'
    <3>1. NoVerdict(wire) /\ NoText(wire)
      BY <2>1, UrcsOnly DEF Quiet, TypeOK
    <3>2. NoVerdict(wire') /\ NoText(wire') /\ InUrcTable(l)
      BY <1>3, <1>4, <3>1
    <3>3. wire' \in Seq(Line)
      BY <1>1, LineRead DEF TypeOK
    <3>4. \A i \in 1..Len(wire') : InUrcTable(wire'[i])
      BY <3>2, <3>3, UrcsOnly
    <3> QED
      BY <1>1, <1>2, <2>1, <3>2, <3>4 DEF Quiet
  <2> QED
    BY <2>1
<1>6. TextOnce /\ l = "text" => TextOnce'
  BY <1>1, <1>2, <1>4 DEF TextOnce, NoTextYet, Resting, InUrcTable
<1>7. TextOnce /\ InUrcTable(l) => TextOnce'
  BY <1>1, <1>2, <1>4 DEF TextOnce, NoTextYet, Resting
<1>8. TextOnce /\ l \in Verdicts => NoText(wire') /\ line_counts <= texts
  BY <1>1, <1>2, <1>4 DEF TextOnce, NoTextYet, Resting, TypeOK
<1>9. Waiting /\ l \notin Verdicts => Waiting'
  <2> SUFFICES ASSUME Waiting, l \notin Verdicts PROVE Waiting'
    OBVIOUS
  <2>1. Reading' /\ ppc' # "copy"
    BY <1>1, <1>3 DEF Reading, Resting
  <2>2. Uncut' => TextOnce'
    BY <1>2, <1>3, <1>6, <1>7 DEF Waiting
  <2>3. /\ resp' = lock' /\ ~resp_notice'
        /\ \/ pending' = <<>> /\ OneVerdict(wire', verdict')
           \/ pending' = <<"now">> /\ NoVerdict(wire')
    BY <1>1, <1>2, <1>4 DEF Waiting
  <2> QED
    BY <2>1, <2>2, <2>3 DEF Waiting
<1>10. lock = "data" /\ Waiting /\ l \in Verdicts => Judged'
  <2> SUFFICES ASSUME lock = "data", Waiting, l \in Verdicts PROVE Judged'
    OBVIOUS
  <2>1. line' = l /\ ppc' = "test"
    BY <1>1 DEF InUrcTable, Verdicts
  <2>2. pending = <<>> /\ l = verdict /\ NoVerdict(wire')
    BY <1>4 DEF Waiting
  <2>3. Uncut' => NoText(wire') /\ line_counts <= texts
    BY <1>2, <1>8 DEF Waiting
  <2>4. Uncut' => line_counts' <= texts' /\ line_counts' <= texts' + 1
    BY <1>1, <2>3 DEF TypeOK
  <2> QED
    BY <1>1, <1>2, <2>1, <2>2, <2>3, <2>4 DEF Waiting, Judged
<1>11. Settled => Settled' /\ (Resting' \/ l = "text")
  <2> SUFFICES ASSUME Settled PROVE Settled' /\ (Resting' \/ l = "text")
    OBVIOUS
  <2>1. l \notin Verdicts /\ Over'
    BY <1>1, <1>2, <1>4 DEF Settled, Over
  <2>2. Uncut => l # "text" /\ line_counts = 0
    BY <1>4 DEF Settled, Over
  <2> QED
    BY <1>1, <1>2, <1>3, <2>1, <2>2 DEF Settled, Resting
<1>12. Fresh => Fresh'
  <2> SUFFICES ASSUME Fresh PROVE Fresh'
    OBVIOUS
  <2>1. l \notin Verdicts /\ NoVerdict(wire') /\ Waiting'
    BY <1>4, <1>9 DEF Fresh
  <2>2. Uncut' => NoTextYet'
    BY <1>1, <1>2, <1>3, <1>4, <2>1 DEF Fresh, NoTextYet, Resting
  <2> QED
    BY <1>2, <2>1, <2>2 DEF Fresh
<1>13. lock = "data" /\ Stage => Stage'
  <2>1. Told => Told'
    BY <1>2, <1>1, <1>11 DEF Told
  <2>2. ~Judged /\ ~Cleared
    BY <1>1 DEF Judged, Cleared
  <2> QED
    BY <1>9, <1>10, <2>1, <2>2 DEF Stage
<1>14. Returned => Returned'
  BY <1>1, <1>2, <1>11, NobodyMoves DEF Returned, others
<1> QED
  BY <1>1, <1>5, <1>12, <1>13, <1>14, ParserFrame

LEMMA CutLineStep ==
  ASSUME TypeOK, MutexInv, Exchange, CutLine
  PROVE  MutexInv' /\ Exchange'
<1>1. /\ ParserRuns /\ UNCHANGED <<others, result, clean>>
      /\ UNCHANGED <<client, line, target, line_counts, counted, verdict, texts,
                     ppc>>
      /\ ppc = "read" /\ wire # <<>> /\ wire' = [wire EXCEPT ![1] = "text"]
  BY DEF CutLine, At, underWay
<1>2. ~Uncut /\ ~Uncut' /\ unclaimed
  <2>1. started["user"] \in 1..UserCommands - 1
    BY DEF CutLine
  <2>2. unclaimed /\ started["user"] # 0
    BY <1>1, <2>1, ParserAlone DEF Exchange, UserInv
  <2> QED
    BY <1>1, <2>2 DEF Uncut, others, callers
<1>3. /\ NoVerdict(wire) => NoVerdict(wire')
      /\ OneVerdict(wire, verdict) => OneVerdict(wire', verdict')
  BY <1>1, LineCut DEF TypeOK
<1>4. Waiting => Waiting'
  BY <1>1, <1>2, <1>3
  DEF Waiting, Reading, Resting, client, others, callers
<1>5. Fresh => Fresh'
  BY <1>1, <1>2, <1>3, <1>4 DEF Fresh, others
<1>6. Over => Over'
  BY <1>1, <1>2, <1>3 DEF Over, client, others
<1>7. Settled => Settled'
  BY <1>1, <1>2, <1>6 DEF Settled, Resting
<1>8. Stage => Stage'
  <2>1. Told => Told'
    BY <1>1, <1>7 DEF Told, client, others, callers
  <2>2. ~Judged /\ ~Cleared
    BY <1>1 DEF Judged, Cleared
  <2> QED
    BY <1>4, <2>1, <2>2 DEF Stage
<1>9. Returned => Returned'
  BY <1>1, <1>7, NobodyMoves DEF Returned, others, client
<1> QED
  BY <1>1, <1>2, <1>5, <1>8, <1>9, ParserFrame

LEMMA TestStep ==
  ASSUME TypeOK, MutexInv, Exchange, Test
  PROVE  MutexInv' /\ Exchange'
<1>1. /\ ParserRuns /\ UNCHANGED <<others, result, clean>>
      /\ UNCHANGED <<client, target, line_counts, wire, counted, verdict, texts>>
      /\ ppc = "test"
      /\ resp # Nobody => ppc' = "fit" /\ line' = line
      /\ resp = Nobody => ppc' = "read" /\ line' = "text"
  BY DEF Test, At, underWay
<1>2. /\ UNCHANGED <<resp, resp_status, resp_notice, lock, pending>>
      /\ Uncut' <=> Uncut
  BY <1>1, Zenon DEF client, others, callers, Uncut
<1>3. TextOnce /\ resp # Nobody => TextOnce'
  BY <1>1, <1>2 DEF TextOnce, NoTextYet, Resting
<1>4. lock = "data" /\ Waiting => Waiting'
  BY <1>1, <1>2, <1>3 DEF Waiting, Reading, Resting, Nobody
<1>5. lock = "data" /\ Judged => Judged'
  BY <1>1, <1>2 DEF Judged, Nobody
<1>6. Settled => Settled'
  BY <1>1, <1>2 DEF Settled, Over, Resting
<1>7. lock = "data" /\ Fresh => Fresh'
  BY <1>1, <1>2, <1>4 DEF Fresh, NoTextYet, Resting
<1>8. lock = "data" /\ Stage => Stage'
  BY <1>1, <1>2, <1>4, <1>5, <1>6 DEF Stage, Cleared, Told
<1>9. Returned => Returned'
  BY <1>1, <1>2, <1>6, NobodyMoves DEF Returned, others
<1> QED
  BY <1>1, <1>7, <1>8, <1>9, ParserFrame DEF Resting

\* Until the parser clears client->resp, the response object is there: it does
\* not fault.
LEMMA FitStep ==
  ASSUME TypeOK, MutexInv, Exchange, Fit
  PROVE  MutexInv' /\ Exchange'
<1>1. /\ ParserRuns /\ UNCHANGED <<others, result, clean>>
      /\ UNCHANGED <<resp, resp_notice, line, line_counts, wire, counted, verdict,
                     texts>>
      /\ ppc = "fit"
      /\ resp # Nobody => \/ ppc' = "copy" /\ target' = resp
                          \/ ppc' = "verdict"
  BY DEF Fit, Fault, At, underWay, client
<1>2. UNCHANGED <<lock, pending>> /\ (Uncut' <=> Uncut)
  BY <1>1, Zenon DEF others, callers, Uncut
<1>3. TextOnce /\ resp # Nobody => TextOnce'
  BY <1>1, <1>2 DEF TextOnce, NoTextYet, Resting
<1>4. lock = "data" /\ Waiting => Waiting'
  BY <1>1, <1>2, <1>3 DEF Waiting, Reading, Resting, Nobody
<1>5. lock = "data" /\ Judged => Judged'
  BY <1>1, <1>2 DEF Judged, Nobody
<1>6. ~Settled
  BY <1>1 DEF Settled, Resting
<1>7. lock = "data" /\ Fresh => Fresh'
  BY <1>1, <1>2, <1>4 DEF Fresh, NoTextYet, Resting
<1>8. lock = "data" /\ Stage => Stage'
  BY <1>1, <1>4, <1>5, <1>6 DEF Stage, Cleared, Told
<1> QED
  BY <1>1, <1>6, <1>7, <1>8, ParserFrame DEF Resting, Returned

LEMMA CopyStep ==
  ASSUME TypeOK, MutexInv, Exchange, Copy
  PROVE  MutexInv' /\ Exchange'
<1>1. /\ ParserRuns /\ UNCHANGED <<others, result, clean>>
      /\ UNCHANGED <<client, line, wire, counted, verdict, texts>>
      /\ line_counts' = line_counts + 1 /\ ppc = "copy"
      /\ target = "data" => ppc' = "verdict"
  BY DEF Copy, At, underWay
<1>2. /\ UNCHANGED <<resp, resp_status, resp_notice, lock, pending>>
      /\ Uncut' <=> Uncut
  BY <1>1, Zenon DEF client, others, callers, Uncut
<1>3. TextOnce /\ target = "data" => TextOnce'
  BY <1>1, <1>2 DEF TextOnce, NoTextYet, Resting
<1>4. lock = "data" /\ Waiting => Waiting'
  BY <1>1, <1>2, <1>3 DEF Waiting, Reading, Resting
<1>5. lock = "data" /\ Judged => Judged'
  <2> SUFFICES ASSUME lock = "data", Judged PROVE Judged'
    OBVIOUS
  <2>1. ppc' = "verdict"
    BY <1>1 DEF Judged
  <2>2. Uncut' => line_counts' <= texts' + 1
    BY <1>1, <1>2 DEF Judged, TypeOK
  <2> QED
    BY <1>1, <1>2, <2>1, <2>2 DEF Judged
<1>6. ~Settled
  BY <1>1 DEF Settled, Resting
<1>7. lock = "data" /\ Fresh => Fresh'
  BY <1>1, <1>2, <1>4 DEF Fresh, NoTextYet, Resting
<1>8. lock = "data" /\ Stage => Stage'
  BY <1>1, <1>4, <1>5, <1>6 DEF Stage, Cleared, Told
<1> QED
  BY <1>1, <1>6, <1>7, <1>8, ParserFrame DEF Resting, Returned

LEMMA VerdictStep ==
  ASSUME TypeOK, MutexInv, Exchange, Verdict
  PROVE  MutexInv' /\ Exchange'
<1>1. /\ ParserRuns /\ UNCHANGED <<others, result, clean>>
      /\ UNCHANGED <<resp, resp_notice, line, line_counts, wire, counted, verdict,
                     texts>>
      /\ ppc = "verdict"
      /\ resp # Nobody =>
           \/ line # "text" /\ ppc' = "counts" /\ resp_status' = line
           \/ line = "text" /\ ppc' = "read"
  BY DEF Verdict, Fault, At, underWay, client
<1>2. UNCHANGED <<lock, pending>> /\ (Uncut' <=> Uncut)
  BY <1>1, Zenon DEF others, callers, Uncut
<1>3. TextOnce /\ ppc' = "read" => TextOnce'
  BY <1>1, <1>2 DEF TextOnce, NoTextYet, Resting
<1>4. lock = "data" /\ Waiting => Waiting'
  BY <1>1, <1>2, <1>3 DEF Waiting, Reading, Resting, Nobody
<1>5. lock = "data" /\ Judged => Judged'
  BY <1>1, <1>2 DEF Judged, Nobody, Verdicts
<1>6. ~Settled
  BY <1>1 DEF Settled, Resting
<1>7. lock = "data" /\ Fresh => Fresh'
  BY <1>1, <1>2, <1>4 DEF Fresh, NoTextYet, Resting
<1>8. lock = "data" /\ Stage => Stage'
  BY <1>1, <1>4, <1>5, <1>6 DEF Stage, Cleared, Told
<1> QED
  BY <1>1, <1>6, <1>7, <1>8, ParserFrame DEF Resting, Returned

LEMMA SetCountsStep ==
  ASSUME TypeOK, MutexInv, Exchange, SetCounts
  PROVE  MutexInv' /\ Exchange'
<1>1. /\ ParserRuns /\ UNCHANGED <<others, result, clean>>
      /\ UNCHANGED <<client, line, line_counts, wire, verdict, texts>>
      /\ ppc = "counts"
      /\ resp # Nobody => ppc' = "clear" /\ counted' = line_counts
  BY DEF SetCounts, Fault, At, underWay
<1>2. /\ UNCHANGED <<resp, resp_status, resp_notice, lock, pending>>
      /\ Uncut' <=> Uncut
  BY <1>1, Zenon DEF client, others, callers, Uncut
<1>3. lock = "data" /\ Judged => Judged'
  BY <1>1, <1>2 DEF Judged, Nobody
<1>4. ~Settled /\ ~Waiting
  BY <1>1 DEF Settled, Waiting, Reading, Resting
<1>5. lock = "data" /\ Stage => Stage'
  BY <1>1, <1>3, <1>4 DEF Stage, Cleared, Told
<1> QED
  BY <1>1, <1>4, <1>5, ParserFrame DEF Resting, Returned, Fresh

LEMMA ClearStep ==
  ASSUME TypeOK, MutexInv, Exchange, Clear
  PROVE  MutexInv' /\ Exchange'
<1>1. /\ ParserRuns /\ UNCHANGED <<others, result, clean>>
      /\ UNCHANGED <<resp_status, resp_notice, wire, counted, verdict, texts>>
      /\ ppc = "clear" /\ ppc' = "notify" /\ resp' = Nobody
  BY DEF Clear, At, underWay
<1>2. UNCHANGED <<lock, pending>> /\ (Uncut' <=> Uncut)
  BY <1>1, Zenon DEF others, callers, Uncut
<1>3. Judged => Cleared'
  BY <1>1, <1>2 DEF Judged, Cleared, Over
<1>4. ~Settled /\ ~Waiting
  BY <1>1 DEF Settled, Waiting, Reading, Resting
<1>5. Stage => Stage'
  BY <1>1, <1>3, <1>4 DEF Stage, Cleared, Told
<1> QED
  BY <1>1, <1>4, <1>5, ParserFrame DEF Resting, Returned, Fresh

LEMMA NotifyStep ==
  ASSUME TypeOK, MutexInv, Exchange, Notify
  PROVE  MutexInv' /\ Exchange'
<1>1. /\ ParserRuns /\ UNCHANGED <<others, result, clean>>
      /\ UNCHANGED <<resp, resp_status, wire, counted, verdict, texts>>
      /\ ppc = "notify" /\ ppc' = "read" /\ resp_notice' /\ line_counts' = 0
  BY DEF Notify, At, underWay
<1>2. UNCHANGED <<lock, pending>> /\ (Uncut' <=> Uncut)
  BY <1>1, Zenon DEF others, callers, Uncut
<1>3. Cleared => Told'
  BY <1>1, <1>2 DEF Cleared, Told, Settled, Over, Resting
<1>4. ~Settled /\ ~Waiting
  BY <1>1 DEF Settled, Waiting, Reading, Resting
<1>5. Stage => Stage'
  BY <1>1, <1>3, <1>4 DEF Stage, Judged, Told
<1> QED
  BY <1>1, <1>4, <1>5, ParserFrame DEF Resting, Returned, Fresh

-----------------------------------------------------------------------------
(* The module's steps and the reset.                                       *)

LEMMA ModuleFrame ==
  ASSUME TypeOK, MutexInv, Exchange,
         UNCHANGED <<callers, unclaimed, result, clean>>,
         Quiet => Quiet', Fresh => Fresh', Stage => Stage', Returned => Returned'
  PROVE  MutexInv' /\ Exchange'
<1> USE DEF Exchange
<1>1. Where' = Where /\ MutexInv'
  BY NobodyMoves
<1>2. UserInv'
  BY DEF UserInv, callers
<1>3. CleanInv' /\ ResultInv' /\ QuietInv'
  BY <1>1 DEF CleanInv, ResultInv, QuietInv
<1>4. ExchangeInv'
  BY <1>1 DEF ExchangeInv, Stage
<1> QED
  BY <1>1, <1>2, <1>3, <1>4

LEMMA AnswerStep ==
  ASSUME TypeOK, MutexInv, Exchange, Answer
  PROVE  MutexInv' /\ Exchange'
<1>1. /\ UNCHANGED <<callers, unclaimed, result, clean, client, parser, counted>>
      /\ pending # <<>> /\ pending' = Tail(pending)
  BY DEF Answer
<1>2. Uncut' <=> Uncut
  BY <1>1, Zenon DEF callers, Uncut
<1>3. Waiting => Waiting'
  <2> SUFFICES ASSUME Waiting PROVE Waiting'
    OBVIOUS
  <2>1. pending = <<"now">> /\ NoVerdict(wire) /\ (Uncut => NoTextYet)
    BY <1>1 DEF Waiting, TextOnce
  <2>2. pending' = <<>> /\ Head(pending) = "now"
    BY <1>1, <2>1
  <2>3. OneVerdict(wire', verdict') /\ (Uncut => TextOnce')
    <3>1. CASE UNCHANGED <<wire, verdict, texts>>
      BY <1>1, <2>1, <3>1, NoVerdictIsOne
      DEF TypeOK, TextOnce, NoTextYet, Resting, parser
    <3>2. ASSUME NEW v \in Verdicts, NEW t \in {0, 1},
                 wire' = Answered(wire, t, v),
                 verdict' = v, texts' = t
          PROVE  OneVerdict(wire', verdict') /\ (Uncut => TextOnce')
      <4>1. /\ OneVerdict(wire', v)
            /\ NoText(wire) =>
                 /\ OneText(wire') /\ TextFirst(wire')
                 /\ t = 0 => NoText(wire')
        BY <2>1, <3>2, AnswerArrives DEF TypeOK
      <4>2. CASE t = 0
        BY <1>1, <2>1, <3>2, <4>1, <4>2
        DEF TextOnce, NoTextYet, Resting, parser
      <4>3. CASE t = 1
        BY <1>1, <2>1, <2>2, <3>2, <4>1, <4>3
        DEF TextOnce, NoTextYet, Resting, parser
      <4> QED
        BY <3>2, <4>1, <4>2, <4>3
    <3> QED
      BY <2>2, <3>1, <3>2 DEF Answer, Answered, Verdicts
  <2> QED
    BY <1>1, <1>2, <2>2, <2>3
    DEF Waiting, Reading, Resting, callers, client, parser
<1>4. ~Fresh /\ ~Judged /\ ~Over /\ ~Quiet
  BY <1>1 DEF Fresh, Judged, Over, Quiet
<1>5. Stage => Stage'
  BY <1>3, <1>4 DEF Stage, Cleared, Told, Settled
<1> QED
  BY <1>1, <1>4, <1>5, ModuleFrame DEF Returned, Settled

LEMMA SendUrcStep ==
  ASSUME TypeOK, MutexInv, Exchange, SendUrc
  PROVE  MutexInv' /\ Exchange'
<1>1. UNCHANGED <<callers, pending, unclaimed, client, parser, underWay>>
  BY DEF SendUrc, others
<1>2. PICK u \in {"pub", "discon"} : wire' = Append(wire, u)
  BY DEF SendUrc
<1>3. /\ wire' \in Seq(Line)
      /\ NoVerdict(wire) => NoVerdict(wire')
      /\ NoText(wire) => NoText(wire')
      /\ OneVerdict(wire, verdict) => OneVerdict(wire', verdict)
      /\ OneText(wire) => OneText(wire')
      /\ TextFirst(wire) => TextFirst(wire')
  BY <1>2, UrcArrives DEF TypeOK
<1>4. /\ UNCHANGED <<lock, ppc, line, target, line_counts, resp, resp_status,
                     resp_notice, counted, result, verdict, texts, clean>>
      /\ Uncut' <=> Uncut
  BY <1>1, Zenon DEF callers, client, parser, underWay, Uncut
<1>5. TextOnce => TextOnce'
  BY <1>1, <1>3, <1>4 DEF TextOnce, NoTextYet, Resting
<1>6. Waiting => Waiting'
  BY <1>1, <1>3, <1>4, <1>5 DEF Waiting, Reading, Resting
<1>7. Judged => Judged'
  BY <1>1, <1>3, <1>4 DEF Judged
<1>8. Over => Over'
  BY <1>1, <1>3, <1>4 DEF Over
<1>9. Settled => Settled'
  BY <1>4, <1>8 DEF Settled, Resting
<1>10. Stage => Stage'
  BY <1>4, <1>6, <1>7, <1>8, <1>9 DEF Stage, Cleared, Told
<1>11. Fresh => Fresh'
  BY <1>1, <1>3, <1>4, <1>6 DEF Fresh, NoTextYet, Resting
<1>12. Returned => Returned'
  BY <1>1, <1>4, <1>9, NobodyMoves DEF Returned
<1>13. ASSUME Quiet PROVE Quiet'
  <2>1. NoVerdict(wire') /\ NoText(wire')
    BY <1>3, <1>13, UrcsOnly DEF Quiet, TypeOK
  <2>2. \A i \in 1..Len(wire') : InUrcTable(wire'[i])
    BY <1>3, <2>1, UrcsOnly
  <2> QED
    BY <1>1, <1>4, <1>13, <2>2 DEF Quiet
<1> QED
  BY <1>1, <1>4, <1>10, <1>11, <1>12, <1>13, ModuleFrame

LEMMA ResetStep ==
  ASSUME TypeOK, Exchange, Reset
  PROVE  MutexInv' /\ Exchange'
<1>1. started'["user"] = UserCommands
  BY DEF Reset, Exchange, UserInv
<1>2. /\ \A c \in Caller : cpc'[c] = "idle" /\ lock' # c
      /\ lock' = Nobody /\ Where' = "idle"
  BY DEF Reset, Caller, Nobody, Where
<1>3. MutexInv'
  BY <1>2 DEF MutexInv, Holding
<1>4. UserInv'
  BY <1>1, <1>2, CommandsAssumption DEF UserInv, Caller
<1>5. Quiet'
  BY DEF Reset, Quiet
<1>6. ResultInv' /\ ExchangeInv' /\ QuietInv' /\ CleanInv'
  BY <1>2, <1>5 DEF Reset, ResultInv, ExchangeInv, QuietInv, CleanInv, Leaving
<1> QED
  BY <1>3, <1>4, <1>6 DEF Exchange

-----------------------------------------------------------------------------
LEMMA NextIInv == IInv /\ [Next]_vars => IInv'
<1> SUFFICES ASSUME IInv, [Next]_vars PROVE IInv'
  OBVIOUS
<1>1. TypeOK /\ MutexInv /\ Exchange
  BY DEF IInv, Exchange
<1>2. TypeOK'
  BY <1>1, TypeStep
<1>3. ASSUME NEW c \in Caller, CallerStep(c) PROVE MutexInv' /\ Exchange'
  BY <1>1, <1>3, LockMutex, LockStep, SetStatusStep, SetRespStep, SendStep,
     SeeStep, TimeOutStep, ClearRespStep, ClearNoticeStep, UnlockStep
  DEF CallerStep
<1>4. ASSUME Reset PROVE MutexInv' /\ Exchange'
  BY <1>1, <1>4, ResetStep DEF Exchange
<1>5. ASSUME ParserStep PROVE MutexInv' /\ Exchange'
  BY <1>1, <1>5, ReadLineStep, CutLineStep, TestStep, FitStep, CopyStep,
     VerdictStep, SetCountsStep, ClearStep, NotifyStep DEF ParserStep
<1>6. ASSUME Answer PROVE MutexInv' /\ Exchange'
  BY <1>1, <1>6, AnswerStep
<1>7. ASSUME SendUrc PROVE MutexInv' /\ Exchange'
  BY <1>1, <1>7, SendUrcStep
<1>8. ASSUME UNCHANGED vars PROVE MutexInv' /\ Exchange'
  <2>1. UNCHANGED <<callers, client, parser, wire, pending, underWay, unclaimed>>
    BY <1>8 DEF vars
  <2>2. Where' = Where /\ MutexInv'
    BY <1>1, <2>1, NobodyMoves
  <2>3. UserInv' /\ (Uncut' => Uncut)
    BY <1>1, <2>1, Zenon DEF Exchange, UserInv, Uncut, callers
  <2> QED
    BY <1>1, <2>1, <2>2, <2>3, ExchangeKept DEF Exchange, callers
<1>9. MutexInv' /\ Exchange'
  BY <1>3, <1>4, <1>5, <1>6, <1>7, <1>8 DEF Next
<1> QED
  BY <1>2, <1>9 DEF IInv, Exchange

LEMMA AlwaysIInv == Spec => []IInv
BY InitIInv, NextIInv, PTL DEF Spec

\* Every variable of the AT client keeps its type.
THEOREM TypeCorrect == Spec => []TypeOK
<1>1. IInv => TypeOK
  BY DEF IInv
<1> QED
  BY AlwaysIInv, <1>1, PTL

\* at_obj_exec_cmd never returns another command's answer to a command that
\* starts with nothing of an earlier exchange about, for any number of commands
\* and whatever comes between.
THEOREM AnswersOwn == Spec => []OwnAnswer
<1>1. IInv => OwnAnswer
  <2> SUFFICES ASSUME IInv, clean, result \in {"OK", "ERROR"}
               PROVE  result = verdict /\ (started["user"] = 0 => counted <= texts + 1)
    BY DEF OwnAnswer
  <2>1. Where \in Leaving
    BY DEF IInv, ResultInv
  <2>2. Returned
    BY <2>1 DEF IInv, ExchangeInv
  <2> QED
    BY <2>2 DEF Returned, Settled, Over, Uncut, Verdicts
<1> QED
  BY AlwaysIInv, <1>1, PTL

\* Until a command times out, every command starts with its predecessor's
\* notice, lines and answer gone.
THEOREM StaysInStep == Spec => []InStep
<1>1. IInv => InStep
  <2> SUFFICES ASSUME IInv, NEW c \in Caller, ~unclaimed,
                      cpc[c] \in {"send", "wait", "clear_resp", "clear_notice",
                                  "unlock"}
               PROVE  clean
    BY DEF InStep
  <2>1. lock = c /\ c # Nobody
    BY DEF IInv, MutexInv, Holding, Caller, Nobody
  <2>2. Where = cpc[c]
    BY <2>1 DEF Where
  <2> QED
    BY <2>2 DEF IInv, CleanInv, Leaving
<1> QED
  BY AlwaysIInv, <1>1, PTL

\* Until a command times out, client_parser uses no response object that is
\* gone.
THEOREM FaultsNeedTimeout == Spec => []FaultNeedsTimeout
<1>1. IInv => FaultNeedsTimeout
  <2> SUFFICES ASSUME IInv, ~unclaimed PROVE ppc # "fault"
    BY DEF FaultNeedsTimeout
  <2>1. Where \in Holding \cup {"idle"}
    BY DEF IInv, TypeOK, MutexInv, Where
  <2>2. CASE Where \in {"idle", "status", "resp", "unlock"}
    BY <2>2 DEF IInv, QuietInv, Quiet
  <2>3. CASE Where \in {"send", "wait", "clear_resp", "clear_notice"}
    <3>1. Fresh \/ Waiting \/ Judged \/ Cleared \/ Told \/ Returned
      BY <2>3 DEF IInv, CleanInv, ExchangeInv, Leaving
    <3> QED
      BY <3>1 DEF Fresh, Waiting, Judged, Cleared, Told, Returned, Settled,
                  Reading, Resting
  <2> QED
    BY <2>1, <2>2, <2>3 DEF Holding
<1> QED
  BY AlwaysIInv, <1>1, PTL
=============================================================================
