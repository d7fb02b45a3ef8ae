---------------------------- MODULE TemplateClient ----------------------------
(***************************************************************************)
(* The data template client: requests that wait for the cloud's answers,   *)
(* the synchronous calls, timeouts, events and downstream messages         *)
(* (data_template_client.c, data_template_client_manager.c,                *)
(* data_template_event.c), driven by data_template_demo_task.              *)
(*                                                                         *)
(* The parser's task puts a message on pMsgList when it arrives; all else  *)
(* happens in the data task, most of it in IOT_Template_Yield.  Messages   *)
(* travel with QoS 0 and may be lost.  Timers are flags that rise in the   *)
(* order in which the timers were set: every request waits 10 s, an event  *)
(* ten thousand.                                                           *)
(***************************************************************************)
EXTENDS Naturals, SequencesExt

CONSTANTS
  MaxRequests,  \* MAX_APPENDING_REQUEST_AT_ANY_GIVEN_TIME
  MaxEvents,    \* MAX_EVENT_WAIT_REPLY
  MaxTokens,    \* bound on the client tokens used
  MaxControls   \* bound on the control messages sent

ASSUME BoundsAssumption ==
  /\ MaxRequests \in Nat \ {0} /\ MaxEvents \in Nat
  /\ MaxTokens \in Nat \ {0, 1} /\ MaxControls \in Nat

VARIABLES
  pc,           \* where data_template_demo_task is
  call,         \* the synchronous call it makes, or "NONE" in its main loop
  ack,          \* ack_report or ack_request, a local variable of that call
  msgs,         \* pMsgList, the oldest message first
  more,         \* the iterator of _handle_message has a next node
  reply_list, event_list,
  token_num,
  clientToken,  \* sg_template_clientToken; 0 stands for the cloud's tokens
  arrived,      \* sg_control_msg_arrived
  asked,        \* what the cloud has not answered yet
  controls      \* control messages sent

task == <<pc, call, ack, more>>
lists == <<reply_list, event_list, token_num, clientToken, arrived>>
vars == <<task, msgs, lists, asked, controls>>

Sync == {"RINFO", "GET"}
Method == Sync \cup {"REPORT", "REPLY", "CLEAR"}
Token == 1..MaxTokens
Code == {"accepted", "rejected", "unreadable"}
Message ==
  [to : {"RINFO", "GET", "REPORT", "CLEAR", "EVENT", "CONTROL"},
   token : 0..MaxTokens, code : Code, control : BOOLEAN]
Request == [method : Method, token : 0..MaxTokens, due : BOOLEAN]
Event == [token : Token, due : BOOLEAN]

Init ==
  /\ pc = "send" /\ call = "RINFO" /\ ack = "NONE" /\ more = FALSE
  /\ msgs = <<>> /\ reply_list = <<>> /\ event_list = <<>>
  /\ token_num = 1 /\ clientToken = 0 /\ arrived = FALSE
  /\ asked = {} /\ controls = 0

-----------------------------------------------------------------------------
(* Requests.                                                               *)

\* The loops over a list that unlink the nodes in gone.
Without(list, gone) ==
  LET kept[i \in 0..Len(list)] ==
        IF i = 0 THEN <<>>
        ELSE IF list[i] \in gone THEN kept[i - 1]
        ELSE Append(kept[i - 1], list[i])
  IN kept[Len(list)]

\* module_mqtt_pub: the cloud may get what it says could not be sent.
Publish(question, sent) ==
  \/ asked' = asked \cup {question}
  \/ ~sent /\ UNCHANGED asked

\* Mutant: one request more than there is room for.
RoomForOneMore == Len(reply_list) <= MaxRequests

Room == Len(reply_list) < MaxRequests

\* send_template_request: the message goes out before the request is listed;
\* ok is what it returns.
Send(method, token, ok) ==
  \E sent \in BOOLEAN :
    /\ ok = (sent /\ Room)
    /\ IF method = "REPLY"
         THEN UNCHANGED asked
         ELSE Publish([to |-> method, token |-> token], sent)
    /\ reply_list' =
         IF ok THEN Append(reply_list, [method |-> method, token |-> token,
                                        due |-> FALSE])
         ELSE reply_list

NewToken == token_num <= MaxTokens /\ token_num' = token_num + 1

\* IOT_Template_Report_SysInfo_Sync and IOT_Template_GetStatus_sync.
SyncSend ==
  /\ pc = "send" /\ NewToken /\ ack' = "NONE"
  /\ \E ok \in BOOLEAN :
       /\ Send(call, token_num, ok)
       /\ pc' = IF ok THEN "yield" ELSE "end"
  /\ UNCHANGED <<call, more, msgs, event_list, clientToken, arrived, controls>>

\* The loop of a synchronous call, or the rest of the main loop.
YieldReturns ==
  /\ pc = "check"
  /\ IF call \in Sync
       THEN \/ ack = "NONE" /\ pc' = "yield" /\ UNCHANGED call
            \/ ack = "ACCEPTED" /\ call = "RINFO" /\ call' = "GET" /\ pc' = "send"
            \/ ack = "ACCEPTED" /\ call = "GET" /\ call' = "NONE" /\ pc' = "yield"
            \/ ack \in {"REJECTED", "TIMEOUT"} /\ call' = "NONE" /\ pc' = "end"
       ELSE pc' = (IF arrived THEN "reply" ELSE "report") /\ UNCHANGED call
  /\ UNCHANGED <<ack, more, msgs, lists, asked, controls>>

\* IOT_Template_ControlReply: a failure ends the task.
ControlReply ==
  /\ pc = "reply"
  /\ \E ok \in BOOLEAN :
       /\ Send("REPLY", clientToken, ok)
       /\ pc' = IF ok THEN "report" ELSE "end"
       /\ arrived' = ~ok
  /\ UNCHANGED <<call, ack, more, msgs, event_list, token_num, clientToken,
                 controls>>

Report ==
  /\ pc = "report" /\ pc' = "event" /\ NewToken
  /\ \E ok \in BOOLEAN : Send("REPORT", token_num, ok)
  /\ UNCHANGED <<call, ack, more, msgs, event_list, clientToken, arrived,
                 controls>>

\* _create_event_add_to_list.
TakeSlot ==
  /\ NewToken
  /\ event_list' = Append(event_list, [token |-> token_num, due |-> FALSE])

\* IOT_Post_Event: the slot is taken first and kept when the publish fails.
PostEvent ==
  /\ pc = "event" /\ pc' = "yield"
  /\ IF Len(event_list) >= MaxEvents
       THEN UNCHANGED <<event_list, token_num, asked>>
       ELSE /\ TakeSlot
            /\ \E sent \in BOOLEAN :
                 Publish([to |-> "EVENT", token |-> token_num], sent)
  /\ UNCHANGED <<call, ack, more, msgs, reply_list, clientToken, arrived,
                 controls>>

\* There may be nothing to report, and no event.
NothingToSay ==
  /\ \/ pc = "report" /\ pc' = "event"
     \/ pc = "event" /\ pc' = "yield"
  /\ UNCHANGED <<call, ack, more, msgs, lists, asked, controls>>

-----------------------------------------------------------------------------
(* IOT_Template_Yield: messages, then requests that are due, then events.   *)

HandleMessages ==
  /\ pc = "yield"
  /\ pc' = IF msgs = <<>> THEN "expire" ELSE "deliver"
  /\ more' = (Len(msgs) > 1)
  /\ UNCHANGED <<call, ack, msgs, lists, asked, controls>>

\* Mutant: a message that was handled is not unlinked.
NextMessageStaying ==
  /\ UNCHANGED msgs /\ more' = (more /\ Len(msgs) > 2)
  /\ pc' = IF more THEN "deliver" ELSE "expire"

\* The rest of the loop of _handle_message.  The iterator steps on before a
\* message is delivered, so it may miss one that arrives meanwhile.
NextMessage ==
  /\ msgs' = Tail(msgs) /\ more' = (more /\ Len(msgs) > 2)
  /\ pc' = IF more THEN "deliver" ELSE "expire"

Delivers(to) == pc = "deliver" /\ Head(msgs).to = to

DeliverControl ==
  /\ Delivers("CONTROL") /\ NextMessage
  /\ clientToken' = 0 /\ arrived' = TRUE
  /\ UNCHANGED <<call, ack, reply_list, event_list, token_num, asked, controls>>

\* _on_event_reply_callback.
DeliverEvent ==
  /\ Delivers("EVENT") /\ NextMessage
  /\ event_list' =
       IF Head(msgs).code = "unreadable" THEN event_list
       ELSE Without(event_list,
                    {e \in ToSet(event_list) : e.token = Head(msgs).token})
  /\ UNCHANGED <<call, ack, reply_list, token_num, clientToken, arrived, asked,
                 controls>>

\* Mutant: an answer is matched by its method.
SameMethod(r) == r.method = Head(msgs).to

Matches(r) == r.token = Head(msgs).token

Listed == ToSet(reply_list)

\* Mutant: an answered request stays listed.
UnmatchedAndMatched == reply_list

Unmatched == Without(reply_list, {r \in Listed : Matches(r)})

\* _handle_template_reply_callback on each request that matches.  Its callback
\* writes the status through user_context; an answer without a code ends the
\* request without calling it.
DeliverReply ==
  /\ pc = "deliver" /\ Head(msgs).to \notin {"CONTROL", "EVENT"}
  /\ ~(Head(msgs).control /\ \E r \in Listed : r.method = "GET" /\ Matches(r))
  /\ NextMessage
  /\ reply_list' = Unmatched
  /\ ack' = IF \E r \in Listed : Matches(r) /\ r.method \in Sync
              THEN CASE Head(msgs).code = "accepted" -> "ACCEPTED"
                     [] Head(msgs).code = "rejected" -> "REJECTED"
                     [] Head(msgs).code = "unreadable" -> ack
              ELSE ack
  /\ UNCHANGED <<call, event_list, token_num, clientToken, arrived, asked,
                 controls>>

\* The status brings control data that wait in the cloud: they are handled, and
\* _get_status_reply_ack_cb clears them in the cloud.
DeliverStatus ==
  /\ Delivers("GET") /\ Head(msgs).control
  /\ \E r \in Listed : r.method = "GET" /\ Matches(r)
  /\ clientToken' = Head(msgs).token /\ arrived' = TRUE
  /\ ack' = "ACCEPTED" /\ pc' = "clear"
  /\ UNCHANGED <<call, more, msgs, reply_list, event_list, token_num, asked,
                 controls>>

\* IOT_Template_ClearControl, and then the GET leaves the list.
ClearControl ==
  /\ pc = "clear" /\ NextMessage
  /\ LET token == Head(msgs).token
         clear == [method |-> "CLEAR", token |-> token, due |-> FALSE]
     IN \E sent \in BOOLEAN :
          /\ Publish([to |-> "CLEAR", token |-> token], sent)
          /\ reply_list' = IF sent /\ Room THEN Append(Unmatched, clear)
                           ELSE Unmatched
  /\ UNCHANGED <<call, ack, event_list, token_num, clientToken, arrived,
                 controls>>

\* Mutant: what is due stays listed.
ExpireNothing ==
  /\ pc = "expire" /\ pc' = "events"
  /\ UNCHANGED <<call, ack, more, msgs, lists, asked, controls>>

\* handle_template_expired_reply.  The callback gets user_context where it
\* expects the request, and so writes through a word of its caller's frame: the
\* call's ack stays as it is, or the processor faults.
Expire ==
  /\ pc = "expire"
  /\ \/ pc' = "events"
     \/ (\E r \in Listed : r.due /\ r.method \in Sync) /\ pc' = "fault"
  /\ reply_list' = Without(reply_list, {r \in Listed : r.due})
  /\ UNCHANGED <<call, ack, more, msgs, event_list, token_num, clientToken,
                 arrived, asked, controls>>

ExpireEvents ==
  /\ pc = "events" /\ pc' = "check"
  /\ event_list' = Without(event_list, {e \in ToSet(event_list) : e.due})
  /\ UNCHANGED <<call, ack, more, msgs, reply_list, token_num, clientToken,
                 arrived, asked, controls>>

TaskStep ==
  \/ SyncSend \/ YieldReturns \/ ControlReply \/ Report \/ PostEvent
  \/ NothingToSay \/ HandleMessages \/ DeliverControl \/ DeliverEvent
  \/ DeliverReply \/ DeliverStatus \/ ClearControl \/ Expire \/ ExpireEvents

-----------------------------------------------------------------------------
(* The cloud and the clock.                                                *)

Arrives(message) == msgs' = Append(msgs, message)

\* An answer that is lost never comes; only a synchronous call tells a refusal
\* from a consent.
Answer ==
  /\ \E question \in asked, code \in Code, control \in BOOLEAN :
       /\ control => question.to = "GET" /\ code = "accepted"
       /\ code = "rejected" => question.to \in Sync
       /\ Arrives([to |-> question.to, token |-> question.token, code |-> code,
                   control |-> control])
       /\ asked' = asked \ {question}
  /\ UNCHANGED <<task, lists, controls>>

Control ==
  /\ controls < MaxControls /\ controls' = controls + 1
  /\ Arrives([to |-> "CONTROL", token |-> 0, code |-> "accepted",
              control |-> TRUE])
  /\ UNCHANGED <<task, lists, asked>>

Rise(list) ==
  \E first \in DOMAIN list :
    /\ ~list[first].due /\ \A i \in 1..first - 1 : list[i].due
    /\ list' = [list EXCEPT ![first].due = TRUE]

TimePasses ==
  /\ Rise(reply_list)
  /\ UNCHANGED <<task, msgs, event_list, token_num, clientToken, arrived, asked,
                 controls>>

\* An event's time comes long after that of the requests of its day.
LongTimePasses ==
  /\ \A r \in Listed : r.due
  /\ Rise(event_list)
  /\ UNCHANGED <<task, msgs, reply_list, token_num, clientToken, arrived, asked,
                 controls>>

Next ==
  \/ TaskStep \/ Answer \/ Control \/ TimePasses \/ LongTimePasses

\* The data task gets its turn again and again, and time goes by.
FairSpec == Init /\ [][Next]_vars /\ WF_vars(TaskStep) /\ WF_vars(TimePasses)

-----------------------------------------------------------------------------
(* Properties.                                                             *)

Dead == {"end", "fault"}
Sections ==
  {"send", "yield", "deliver", "clear", "expire", "events", "check", "reply",
   "report", "event"}

TypeOK ==
  /\ pc \in Sections \cup Dead /\ call \in Sync \cup {"NONE"}
  /\ ack \in {"NONE", "ACCEPTED", "REJECTED", "TIMEOUT"} /\ more \in BOOLEAN
  /\ msgs \in Seq(Message)
  /\ reply_list \in Seq(Request) /\ Len(reply_list) <= MaxRequests
  /\ event_list \in Seq(Event) /\ Len(event_list) <= MaxEvents
  /\ token_num \in 1..MaxTokens + 1 /\ clientToken \in 0..MaxTokens
  /\ arrived \in BOOLEAN /\ controls \in 0..MaxControls
  /\ asked \subseteq [to : {"RINFO", "GET", "REPORT", "CLEAR", "EVENT"},
                      token : Token]

\* A request that points into the frame of a synchronous call is listed only
\* while that call waits: no later answer is written into a dead frame.
NoDanglingAck ==
  \A r \in Listed : r.method \in Sync =>
    /\ call = r.method
    /\ ack = "NONE" \/ pc = "clear"

\* What ends in a step: its answer is at hand, or its time is over.
EndsForCause ==
  /\ \A r \in Listed \ ToSet(reply_list') :
       \/ pc = "expire" /\ r.due
       \/ /\ pc \in {"deliver", "clear"} /\ r.token = Head(msgs).token
          /\ Head(msgs).to \notin {"EVENT", "CONTROL"}
  /\ \A e \in ToSet(event_list) \ ToSet(event_list') :
       \/ pc = "events" /\ e.due
       \/ Delivers("EVENT") /\ e.token = Head(msgs).token

\* A request leaves the list for an answer with its token or because its time
\* is over, and so does an event: a late answer, or somebody else's timeout,
\* ends nothing.  (A step that changes neither pc nor msgs is a timer's.)
LeavesForCause == [][UNCHANGED <<pc, msgs>> \/ EndsForCause]_vars

\* Every request ends, by its answer or by its timeout, as long as the task
\* lives, even if a synchronous call waits for ever: the bounded number of
\* requests of a behaviour leaves an empty list behind.
RequestsEnd == <>[](reply_list = <<>> \/ pc \in Dead)

\* Messages that arrive while others are being handled, when the iterator may
\* miss them, are handled at last.
MessagesHandled == msgs # <<>> ~> msgs = <<>> \/ pc \in Dead

\* qcloud_iot_export_method.h: ACK_TIMEOUT, "the request timed out", for which
\* the synchronous calls test.  When the request of such a call is found to be
\* over its time, the call returns.
TimeoutEndsCall ==
  pc = "expire" /\ (\E r \in Listed : r.due /\ r.method \in Sync)
    ~> call = "NONE" \/ pc \in Dead
=============================================================================
