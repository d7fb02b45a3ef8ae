------------------------------ MODULE AtClient ------------------------------
(***************************************************************************)
(* The AT client: at_obj_exec_cmd, called by data_template_demo_task (and  *)
(* by user_task in wifi_config), and client_parser, which reads the lines  *)
(* of the module.  The lock of the client keeps the two callers apart; the *)
(* caller and the parser share client->resp, client->resp_status and       *)
(* client->resp_notice without any.                                        *)
(*                                                                         *)
(* Both sides spin.  The data task and the parser have priority 4 and take *)
(* turns by time slices; user_task has priority 3, so nobody else runs     *)
(* unless it sleeps or waits for the lock, and while it waits the owner of *)
(* the lock runs at priority 3 by inheritance and the parser does not.     *)
(*                                                                         *)
(* Every response object of the program is created with line_num = 0.      *)
(***************************************************************************)
EXTENDS Integers, Sequences

CONSTANTS
  DataCommands,   \* commands data_template_demo_task executes
  UserCommands,   \* commands wifi_config executes, then it resets the chip
  Burst,          \* after how many of them it sleeps: 3 of 4 in the code
  MaxUrcs         \* unsolicited lines the module sends

ASSUME CommandsAssumption ==
  /\ DataCommands \in Nat /\ UserCommands \in Nat
  /\ Burst \in Nat /\ MaxUrcs \in Nat

Caller == {"data", "user"}
Nobody == "nobody"
Limit(c) == IF c = "data" THEN DataCommands ELSE UserCommands

VARIABLES
  cpc,              \* where each caller is in at_obj_exec_cmd
  started,          \* how many commands each caller has started
  lock,             \* owner of client->lock
  resp,             \* client->resp: whose response object, or Nobody
  resp_status,
  resp_notice,
  ppc,              \* where client_parser is
  line,             \* recv_buffer while a response is looked at, else "text"
  target,           \* whose object memcpy of the parser writes to, or "freed"
  line_counts,      \* local of client_parser
  wire,             \* lines received and not read
  pending,          \* commands not answered, "now" if still under way
  counted,          \* resp->line_counts of the command under way
  result,           \* what at_obj_exec_cmd is about to return for it
  verdict,          \* what the module answered to it
  texts,            \* the lines of that answer before the verdict
  clean,            \* it started with no earlier answer about
  unclaimed,        \* an answer may come that nobody waits for
  sent,             \* unsolicited lines sent
  handled           \* unsolicited lines handed to their functions

callers == <<cpc, started, lock>>
client  == <<resp, resp_status, resp_notice>>
parser  == <<ppc, line, target, line_counts>>
underWay == <<counted, result, verdict, texts, clean>>
urcs == <<sent, handled>>
vars == <<callers, client, parser, wire, pending, underWay, unclaimed, urcs>>

CallerPC == {"idle", "call", "blocked", "status", "resp", "send", "wait",
             "clear_resp", "clear_notice", "unlock", "reset"}
ParserPC == {"read", "test", "fit", "copy", "verdict", "counts", "clear",
             "notify", "dead", "fault"}
Result == {"none", "OK", "ERROR", "TIMEOUT"}
Line == {"OK", "ERROR", "text", "pub", "discon"}

\* module_power_on sends AT+RST, whose answer may come after the parser has
\* started.
Init ==
  /\ cpc = [c \in Caller |-> "idle"]
  /\ started = [c \in Caller |-> 0] /\ lock = Nobody
  /\ resp = Nobody /\ resp_status = "OK" /\ resp_notice = FALSE
  /\ ppc = "read" /\ line = "text" /\ target = Nobody /\ line_counts = 0
  /\ wire \in {<<>>, <<"OK">>} /\ pending = <<>>
  /\ counted = 0 /\ result = "none" /\ verdict = "none" /\ texts = 0
  /\ clean = FALSE /\ unclaimed = (wire # <<>>)
  /\ sent = 0 /\ handled = 0

-----------------------------------------------------------------------------
(* Who may run.                                                            *)

UserRuns == cpc["user"] \notin {"idle", "blocked"}
Runs(c) == c = "user" \/ ~UserRuns
ParserRuns == cpc["user"] = "idle"

InUrcTable(l) == l \in {"pub", "discon"}

\* Nothing of an earlier exchange is left anywhere.
Quiet ==
  /\ pending = <<>> /\ ppc \in {"read", "dead"} /\ ~resp_notice /\ line_counts = 0
  /\ \A i \in 1..Len(wire) : InUrcTable(wire[i])

-----------------------------------------------------------------------------
(* at_obj_exec_cmd.                                                        *)

Other(c) == IF c = "data" THEN "user" ELSE "data"
Moves(c, here, there) ==
  Runs(c) /\ cpc[c] = here /\ cpc' = [cpc EXCEPT ![c] = there]

\* HAL_MutexLock, in a task that sleeps or does something else before, or
\* right after another command.
Lock(c) ==
  /\ \E here \in {"idle", "call"} :
       Moves(c, here, IF lock = Nobody THEN "status" ELSE "blocked")
  /\ started[c] < Limit(c)
  /\ started' = [started EXCEPT ![c] = @ + 1]
  /\ lock' = IF lock = Nobody THEN c ELSE lock
  /\ UNCHANGED <<client, parser, wire, pending, underWay, unclaimed, urcs>>

SetStatus(c) ==
  /\ Moves(c, "status", "resp")
  /\ resp_status' = "OK" /\ counted' = 0
  /\ UNCHANGED <<started, lock, resp, resp_notice, parser, wire, pending,
                 result, verdict, texts, clean, unclaimed, urcs>>

SetResp(c) ==
  /\ Moves(c, "resp", "send")
  /\ resp' = c /\ clean' = Quiet
  /\ UNCHANGED <<started, lock, resp_status, resp_notice, parser, wire,
                 pending, counted, result, verdict, texts, unclaimed, urcs>>

Send(c) ==
  /\ Moves(c, "send", "wait")
  /\ pending' = Append(pending, "now")
  /\ UNCHANGED <<started, lock, client, parser, wire, underWay, unclaimed,
                 urcs>>

\* The loop sees resp_notice.  After a good status the timer is looked at
\* once more and may have expired meanwhile.
See(c) ==
  /\ Moves(c, "wait", "clear_resp") /\ resp_notice
  /\ \/ resp_status # "OK" /\ result' = "ERROR" /\ UNCHANGED resp_status
     \/ resp_status = "OK" /\ result' = "OK" /\ UNCHANGED resp_status
     \/ resp_status = "OK" /\ result' = "TIMEOUT" /\ resp_status' = "TIMEOUT"
  /\ UNCHANGED <<started, lock, resp, resp_notice, parser, wire, pending,
                 counted, verdict, texts, clean, unclaimed, urcs>>

TimeOut(c) ==
  /\ Moves(c, "wait", "clear_resp")
  /\ resp_status' = "TIMEOUT" /\ result' = "TIMEOUT" /\ unclaimed' = TRUE
  /\ UNCHANGED <<started, lock, resp, resp_notice, parser, wire, pending,
                 counted, verdict, texts, clean, urcs>>

ClearResp(c) ==
  /\ Moves(c, "clear_resp", "clear_notice")
  /\ resp' = Nobody
  /\ UNCHANGED <<started, lock, resp_status, resp_notice, parser, wire,
                 pending, underWay, unclaimed, urcs>>

\* Mutant: the notice is left for the next command.
ClearNoticeNot(c) ==
  /\ Moves(c, "clear_notice", "unlock")
  /\ UNCHANGED <<started, lock, client, parser, wire, pending, underWay,
                 unclaimed, urcs>>

ClearNotice(c) ==
  /\ Moves(c, "clear_notice", "unlock")
  /\ resp_notice' = FALSE
  /\ UNCHANGED <<started, lock, resp, resp_status, parser, wire, pending,
                 underWay, unclaimed, urcs>>

\* What a caller does with its result in hand.  The data task frees its
\* response object; wifi_config keeps one object for all its commands, sleeps
\* after Burst of them and resets the chip after the last.
Then(c) ==
  IF c = "data" \/ started[c] = Burst THEN "idle"
  ELSE IF started[c] = UserCommands THEN "reset" ELSE "call"
Return(c) ==
  /\ pending' = [i \in 1..Len(pending) |-> "old"]
  /\ counted' = 0 /\ result' = "none" /\ verdict' = "none" /\ texts' = 0
  /\ clean' = FALSE
  /\ target' = IF c = "data" /\ target = c THEN "freed" ELSE target
  /\ UNCHANGED <<started, client, ppc, line, line_counts, wire, unclaimed,
                 urcs>>

\* Mutant: the lock is not handed to the task that waits for it.
UnlockForgetsWaiter(c) ==
  /\ Moves(c, "unlock", Then(c)) /\ lock' = Nobody
  /\ Return(c)

\* HAL_MutexUnlock hands the lock to the task that waits for it.
Unlock(c) ==
  /\ Runs(c) /\ cpc[c] = "unlock"
  /\ \/ /\ cpc[Other(c)] = "blocked" /\ lock' = Other(c)
        /\ cpc' = [cpc EXCEPT ![c] = Then(c), ![Other(c)] = "status"]
     \/ /\ cpc[Other(c)] # "blocked" /\ lock' = Nobody
        /\ cpc' = [cpc EXCEPT ![c] = Then(c)]
  /\ Return(c)

CallerStep(c) ==
  \/ Lock(c) \/ SetStatus(c) \/ SetResp(c) \/ Send(c) \/ See(c) \/ TimeOut(c)
  \/ ClearResp(c) \/ ClearNotice(c) \/ Unlock(c)

\* The end of wifi_config: HAL_NVIC_SystemReset.
Reset ==
  /\ cpc["user"] = "reset"
  /\ cpc' = [c \in Caller |-> "idle"] /\ lock' = Nobody
  /\ resp' = Nobody /\ resp_status' = "OK" /\ resp_notice' = FALSE
  /\ ppc' = "read" /\ line' = "text" /\ target' = Nobody /\ line_counts' = 0
  /\ wire' = <<>> /\ pending' = <<>>
  /\ counted' = 0 /\ result' = "none" /\ verdict' = "none" /\ texts' = 0
  /\ clean' = FALSE /\ unclaimed' = FALSE
  /\ UNCHANGED <<started, urcs>>

-----------------------------------------------------------------------------
(* client_parser.                                                          *)

At(here, there) == ParserRuns /\ ppc = here /\ ppc' = there
others == <<callers, pending, unclaimed>>

\* Mutant: a line is a response whenever one is expected.
ReadLineResponseFirst ==
  /\ wire # <<>> /\ wire' = Tail(wire)
  /\ LET l == IF resp # Nobody THEN "text" ELSE Head(wire) IN
       \/ /\ ~InUrcTable(l) /\ line' = l /\ At("read", "test")
          /\ UNCHANGED handled
       \/ /\ InUrcTable(l) /\ handled' = handled + 1
          /\ At("read", IF l = "discon" THEN "dead" ELSE "read")
          /\ UNCHANGED line
  /\ UNCHANGED <<others, client, target, line_counts, underWay, sent>>

\* at_recv_readline, and the URC's function if the line is in the table.
\* That of a disconnection destroys the task it runs in.
ReadLine ==
  /\ wire # <<>> /\ wire' = Tail(wire)
  /\ LET l == Head(wire) IN
       \/ /\ ~InUrcTable(l) /\ line' = l /\ At("read", "test")
          /\ UNCHANGED handled
       \/ /\ InUrcTable(l) /\ handled' = handled + 1
          /\ At("read", IF l = "discon" THEN "dead" ELSE "read")
          /\ UNCHANGED line
  /\ UNCHANGED <<others, client, target, line_counts, underWay, sent>>

\* at_client_getchar takes a character and then finds its 5 s expired: the
\* line so far is dropped, its rest is read as a line.  Only the spinning of
\* user_task keeps the parser from running for that long; after its last
\* command the chip is reset.
CutLine ==
  /\ At("read", "read") /\ started["user"] \in 1..UserCommands - 1
  /\ wire # <<>> /\ wire' = [wire EXCEPT ![1] = "text"]
  /\ UNCHANGED <<others, client, line, target, line_counts, underWay, urcs>>

Test ==
  /\ At("test", IF resp # Nobody THEN "fit" ELSE "read")
  /\ line' = IF resp # Nobody THEN line ELSE "text"
  /\ UNCHANGED <<others, client, target, line_counts, wire, underWay,
                 urcs>>

\* The parser dereferences client->resp: once another task has cleared it,
\* what follows is undefined.
Fault(here) ==
  /\ At(here, "fault") /\ resp = Nobody
  /\ UNCHANGED <<others, client, line, target, line_counts, wire, underWay,
                 urcs>>

Fit ==
  \/ /\ resp # Nobody /\ target' = resp /\ At("fit", "copy")
     /\ UNCHANGED <<others, client, line, line_counts, wire, underWay, urcs>>
  \/ /\ resp # Nobody /\ resp_status' = "ERROR"    \* AT_RESP_BUFF_FULL
     /\ At("fit", "verdict")
     /\ UNCHANGED <<others, resp, resp_notice, line, target, line_counts, wire,
                    underWay, urcs>>
  \/ Fault("fit")

Copy ==
  /\ At("copy", IF target = "freed" THEN "fault" ELSE "verdict")
  /\ line_counts' = line_counts + 1 /\ target' = Nobody
  /\ UNCHANGED <<others, client, line, wire, underWay, urcs>>

\* Mutant: every line ends the response.
VerdictAnyLine ==
  \/ /\ resp # Nobody /\ At("verdict", "counts") /\ resp_status' = line
     /\ UNCHANGED <<others, resp, resp_notice, line, target, line_counts, wire,
                    underWay, urcs>>
  \/ line # "ERROR" /\ Fault("verdict")

\* Mutant: client->resp is cleared before it is used for the last time.
VerdictClearsFirst ==
  \/ /\ line # "text" /\ (line = "OK" => resp # Nobody)
     /\ At("verdict", "counts") /\ resp_status' = line /\ resp' = Nobody
     /\ UNCHANGED <<others, resp_notice, line, target, line_counts, wire,
                    underWay, urcs>>
  \/ /\ line = "text" /\ resp # Nobody /\ At("verdict", "read")
     /\ UNCHANGED <<others, client, line, target, line_counts, wire, underWay,
                    urcs>>
  \/ line # "ERROR" /\ Fault("verdict")

\* Every response object is created with line_num = 0: OK ends a response,
\* the number of lines never does.
Verdict ==
  \/ /\ line # "text" /\ (line = "OK" => resp # Nobody)
     /\ At("verdict", "counts") /\ resp_status' = line
     /\ UNCHANGED <<others, resp, resp_notice, line, target, line_counts, wire,
                    underWay, urcs>>
  \/ /\ line = "text" /\ resp # Nobody /\ At("verdict", "read")
     /\ UNCHANGED <<others, client, line, target, line_counts, wire, underWay,
                    urcs>>
  \/ line # "ERROR" /\ Fault("verdict")

SetCounts ==
  \/ /\ resp # Nobody /\ At("counts", "clear")
     /\ counted' = line_counts
     /\ UNCHANGED <<others, client, line, target, line_counts, wire, result,
                    verdict, texts, clean, urcs>>
  \/ Fault("counts")

Clear ==
  /\ At("clear", "notify") /\ resp' = Nobody
  /\ UNCHANGED <<others, resp_status, resp_notice, line, target, line_counts,
                 wire, underWay, urcs>>

Notify ==
  /\ At("notify", "read") /\ resp_notice' = TRUE /\ line_counts' = 0
  /\ line' = "text"
  /\ UNCHANGED <<others, resp, resp_status, target, wire, underWay,
                 urcs>>

ParserStep ==
  \/ ReadLine \/ CutLine \/ Test \/ Fit \/ Copy \/ Verdict \/ SetCounts
  \/ Clear \/ Notify

-----------------------------------------------------------------------------
(* The module on the serial line.                                          *)

\* It answers a command with at most one line and a verdict, or not at all.
Answer ==
  /\ pending # <<>> /\ pending' = Tail(pending)
  /\ \/ \E v \in {"OK", "ERROR"}, t \in {0, 1} :
          /\ wire' = wire \o [i \in 1..t |-> "text"] \o <<v>>
          /\ IF Head(pending) = "now"
               THEN verdict' = v /\ texts' = t
               ELSE UNCHANGED <<verdict, texts>>
     \/ UNCHANGED <<wire, verdict, texts>>
  /\ UNCHANGED <<callers, client, parser, counted, result, clean, unclaimed,
                 urcs>>

SendUrc ==
  /\ sent < MaxUrcs /\ sent' = sent + 1
  /\ \E u \in {"pub", "discon"} : wire' = Append(wire, u)
  /\ UNCHANGED <<others, client, parser, underWay, handled>>

Next ==
  \/ \E c \in Caller : CallerStep(c)
  \/ Reset \/ ParserStep \/ Answer \/ SendUrc

Spec == Init /\ [][Next]_vars

(***************************************************************************)
(* A caller that has entered at_obj_exec_cmd goes on, its timer runs out   *)
(* and the parser gets its time slices.  user_task executes UserCommands   *)
(* commands at most, so weak fairness is enough for those below it.        *)
(***************************************************************************)
Fairness ==
  /\ \A c \in Caller : WF_vars(cpc[c] # "idle" /\ CallerStep(c))
  /\ WF_vars(ParserStep) /\ WF_vars(Reset)

FairSpec == Spec /\ Fairness
-----------------------------------------------------------------------------
(* Properties.                                                             *)

TypeOK ==
  /\ cpc \in [Caller -> CallerPC] /\ lock \in Caller \cup {Nobody}
  /\ started \in [Caller -> Nat]
  /\ \A c \in Caller : started[c] <= Limit(c)
  /\ resp \in Caller \cup {Nobody}
  /\ resp_status \in {"OK", "ERROR", "TIMEOUT"} /\ resp_notice \in BOOLEAN
  /\ ppc \in ParserPC /\ line \in {"OK", "ERROR", "text"} /\ line_counts \in Nat
  /\ target \in Caller \cup {Nobody, "freed"}
  /\ wire \in Seq(Line) /\ pending \in Seq({"now", "old"})
  /\ counted \in Nat /\ texts \in {0, 1}
  /\ result \in Result /\ verdict \in {"none", "OK", "ERROR"}
  /\ clean \in BOOLEAN /\ unclaimed \in BOOLEAN
  /\ sent \in 0..MaxUrcs /\ handled \in Nat

\* A command that starts with nothing of an earlier exchange about never
\* returns another command's answer: what it returns is the module's verdict
\* on it, or a timeout; nor does it count more lines than its own answer has,
\* unless wifi_config has held the parser up.
OwnAnswer ==
  clean /\ result \in {"OK", "ERROR"} =>
    /\ result = verdict
    /\ started["user"] = 0 => counted <= texts + 1

\* The exchange stays in step until a command times out: each one starts with
\* its predecessor's notice, lines and answer gone.
InStep ==
  \A c \in Caller :
    ~unclaimed /\ cpc[c] \in {"send", "wait", "clear_resp", "clear_notice",
                              "unlock"}
      => clean

\* Until a command times out the parser never uses a response object that is
\* gone: whoever finds client->resp set may rely on it.
FaultNeedsTimeout == ppc = "fault" => unclaimed

\* at_obj_exec_cmd returns, whatever the module, the parser and the other
\* caller do; the program is undefined after a fault.
CommandReturns ==
  \A c \in Caller :
    cpc[c] \notin {"idle", "call"}
      ~> (cpc[c] \in {"idle", "call"} \/ ppc = "fault")

\* An unsolicited line reaches its function, also in the middle of a response,
\* while no one disconnects the device and wifi_config has not started.
UrcsHandled ==
  \A n \in 1..MaxUrcs :
    sent >= n ~> (\/ handled >= n \/ ppc \in {"dead", "fault"}
                       \/ started["user"] > 0)
=============================================================================
