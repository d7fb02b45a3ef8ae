---------------------------- MODULE SocketControl ----------------------------
(***************************************************************************)
(* The application of the smart socket: user_task (priority 3), which      *)
(* samples the power meter, reads the key, runs the countdown, trips on    *)
(* overcurrent and drives the relay, and data_template_demo_task (priority *)
(* 4), which applies the cloud's control messages, reports the properties  *)
(* and posts the overcurrent event.  They share unprotected globals.       *)
(*                                                                         *)
(* user_task has the higher priority: the data task runs only while        *)
(* user_task sleeps, but may then be preempted between any two of its      *)
(* accesses to a shared variable, so each access is a step of its own.     *)
(* HAL_Delay is a busy wait: time passes, no other task runs.              *)
(***************************************************************************)
EXTENDS Integers, Sequences

CONSTANTS
  MaxCountDown,   \* largest count_down the cloud sets
  MaxMsgs,        \* control messages the cloud sends
  MaxClicks,      \* presses of the key
  MaxFaults,      \* publishes that fail, answers that are lost, overruns,
                  \* frames that cannot be used
  NoValue         \* "this property is not in the message"

ASSUME BoundsAssumption ==
  /\ MaxCountDown \in Nat /\ MaxMsgs \in Nat
  /\ MaxClicks \in Nat /\ MaxFaults \in Nat
ASSUME NoValueAssumption == NoValue \notin Int

VARIABLES
  upc,                      \* where user_task is
  dpc,                      \* where data_template_demo_task is
  g_switch,
  g_count_down,
  g_count_down_update,
  g_overcurrent_event,
  g_overcurrent_lock,
  g_do_upload_property,
  meter,                    \* info.current > 4.9 in the meter's latest frame
  listening,                \* the receive interrupt of USART3 is enabled
  over,                     \* g_power_info.current > 4.9
  relay,                    \* the output pin of the relay
  demand,                   \* the appliance would draw more than the limit
  second,                   \* HAL_GetTick() / 1000 has left time_sec_old
  sg_ProductData,
  changed,                  \* the properties whose state is eCHANGED
  sg_control_msg_arrived,
  sg_template_clientToken,  \* token of the last control handled
  inbox,                    \* control messages on their way to the device
  sent,                     \* control messages sent so far
  settled,                  \* controls the cloud need not keep: replied to,
                            \* or cleared after get_status delivered them
  reported,                 \* the cloud's copy of the properties
  clicks,
  faults

userVars  == <<upc, g_overcurrent_lock, over, relay, clicks>>
dataVars  == <<dpc, sg_ProductData, changed, sg_control_msg_arrived,
               sg_template_clientToken>>
cloudVars == <<inbox, sent, settled, reported>>
worldVars == <<demand, second, meter, listening>>
vars == <<userVars, dataVars, cloudVars, worldVars, g_switch, g_count_down,
          g_count_down_update, g_overcurrent_event, g_do_upload_property,
          faults>>

Property == {"power_switch", "count_down"}
ProductData == [power_switch : {0, 1}, count_down : 0..MaxCountDown]
Control == [power_switch : {0, 1, NoValue},
            count_down : 0..MaxCountDown \cup {NoValue}]
NoData == [power_switch |-> 0, count_down |-> 0]
Update(data, names, new) ==
  [power_switch |-> IF "power_switch" \in names THEN new.power_switch
                                                ELSE data.power_switch,
   count_down |-> IF "count_down" \in names THEN new.count_down
                                            ELSE data.count_down]

UserPC == {"key", "keyheld", "wifi", "count", "drive", "delay", "fault"}
DataPC == {"connect", "yield", "apply_switch", "apply_count", "arm", "reply",
           "copy_switch", "copy_count", "report", "event", "ack_event",
           "post", "sync", "dead", "hung"}

\* No sample is due in the first pass.
Init ==
  /\ upc = "key" /\ dpc = "connect"
  /\ g_switch = 0 /\ g_count_down = 0 /\ g_count_down_update = 0
  /\ g_overcurrent_event = 0 /\ g_overcurrent_lock = 0
  /\ g_do_upload_property = 1
  /\ meter = 0 /\ listening = TRUE /\ over = 0 /\ relay = 0
  /\ demand \in {0, 1} /\ second = 0
  /\ sg_ProductData = NoData /\ changed = {}
  /\ sg_control_msg_arrived = 0 /\ sg_template_clientToken = 0
  /\ inbox = <<>> /\ sent = 0 /\ settled = {}
  /\ reported = NoData
  /\ clicks = 0 /\ faults = 0

-----------------------------------------------------------------------------
(* user_task: one pass of its loop.                                        *)

\* Mutant: the blinking in the overcurrent lock sleeps instead of spinning.
UserAsleepWhileBlinking == upc \in {"delay", "keyheld", "wifi", "drive"}

\* The program points at which user_task sleeps and lower priorities run.
UserAsleep == upc \in {"delay", "keyheld", "wifi"}

\* key_read
ReadKey ==
  \/ upc' = "count" /\ UNCHANGED clicks
  \/ clicks < MaxClicks /\ upc' = "keyheld" /\ clicks' = clicks + 1

\* A pass begins, after tos_task_delay or with the loop itself, and reads the
\* key: no other task runs meanwhile, and what the meter sends is not looked
\* at again.  Every 2000 ms it copies the meter's latest values, which may be
\* older than the last move of the relay.
TakeSample ==
  /\ upc = "delay" /\ ReadKey
  /\ over' = meter
  /\ UNCHANGED <<g_overcurrent_lock, relay, g_switch, g_count_down,
                 g_count_down_update, g_overcurrent_event,
                 g_do_upload_property, faults>>
  /\ UNCHANGED <<dataVars, cloudVars, worldVars>>

SkipSample ==
  /\ upc \in {"key", "delay"} /\ ReadKey
  /\ UNCHANGED <<over, g_overcurrent_lock, relay, g_switch, g_count_down,
                 g_count_down_update, g_overcurrent_event,
                 g_do_upload_property, faults>>
  /\ UNCHANGED <<dataVars, cloudVars, worldVars>>

\* The key is let go: below 1 s toggles, 5 to 10 s configures the network;
\* 10 to 15 s only blinks (erase_wh is commented out), like every other
\* duration it changes nothing here.
ReleaseKey ==
  /\ upc = "keyheld"
  /\ \/ /\ g_switch' = 1 - g_switch /\ upc' = "count"
        /\ UNCHANGED g_do_upload_property
     \/ /\ upc' = "wifi" /\ g_do_upload_property' = 0
        /\ UNCHANGED g_switch
     \/ /\ upc' = "count"
        /\ UNCHANGED <<g_switch, g_do_upload_property>>
  /\ UNCHANGED <<over, g_overcurrent_lock, relay, clicks, g_count_down,
                 g_count_down_update, g_overcurrent_event, faults>>
  /\ UNCHANGED <<dataVars, cloudVars, worldVars>>

\* wifi_config ends in HAL_NVIC_SystemReset: everything in RAM starts over.
\* What is on the wire for the device is lost with its connection.
WifiReset ==
  /\ upc = "wifi"
  /\ upc' = "key" /\ dpc' = "connect"
  /\ g_switch' = 0 /\ g_count_down' = 0 /\ g_count_down_update' = 0
  /\ g_overcurrent_event' = 0 /\ g_overcurrent_lock' = 0
  /\ g_do_upload_property' = 1
  /\ over' = 0 /\ relay' = 0 /\ second' = 0 /\ meter' = 0
  /\ listening' = TRUE
  /\ sg_ProductData' = NoData /\ changed' = {}
  /\ sg_control_msg_arrived' = 0 /\ sg_template_clientToken' = 0
  /\ inbox' = <<>>
  /\ UNCHANGED <<demand, sent, settled, reported, clicks, faults>>

\* Mutant: the count is decremented whatever its value.
TickUnguarded == second = 1

\* time_sec_old moves only when the count does, so the first second of a
\* countdown set after an idle period is taken at once.
Tick == g_count_down > 0 /\ second = 1
Left == IF Tick THEN g_count_down - 1 ELSE g_count_down

\* Mutant: the flip is considered only in a pass that decrements.
FlipWhenTicking == Tick /\ Left = 0 /\ g_count_down_update = 1

Flip == Left = 0 /\ g_count_down_update = 1

CountDown ==
  /\ g_count_down' = Left
  /\ second' = IF Tick THEN 0 ELSE second
  /\ g_count_down_update' = IF Flip THEN 0 ELSE g_count_down_update

\* The switch after the countdown, when the overcurrent check sees it.
Counted == IF Flip THEN 1 - g_switch ELSE g_switch

\* Mutant: the lock is never released.
ProtectNeverUnlocks ==
  /\ g_switch' = IF over = 1 THEN 0 ELSE Counted
  /\ g_overcurrent_lock' = IF over = 1 THEN 1 ELSE g_overcurrent_lock
  /\ g_overcurrent_event' = IF over = 1 THEN 1 ELSE g_overcurrent_event

\* Mutant: a trip does not turn the switch off.
ProtectForgetsSwitch ==
  /\ g_switch' = Counted
  /\ LET lock == IF over = 1 THEN 1 ELSE g_overcurrent_lock
     IN  g_overcurrent_lock' = IF lock = 1 /\ g_switch' = 1 THEN 0 ELSE lock
  /\ g_overcurrent_event' = IF over = 1 THEN 1 ELSE g_overcurrent_event

\* Trip on overcurrent; while locked blink for a second in HAL_Delay and
\* unlock once the switch is on again.
Protect ==
  /\ g_switch' = IF over = 1 THEN 0 ELSE Counted
  /\ LET lock == IF over = 1 THEN 1 ELSE g_overcurrent_lock
     IN  g_overcurrent_lock' = IF lock = 1 /\ g_switch' = 1 THEN 0 ELSE lock
  /\ g_overcurrent_event' = IF over = 1 THEN 1 ELSE g_overcurrent_event

\* The rest of the pass up to relay_switch.
CountAndProtect ==
  /\ upc = "count" /\ upc' = "drive"
  /\ CountDown /\ Protect
  /\ UNCHANGED <<over, relay, clicks, demand, meter, listening,
                 g_do_upload_property, faults>>
  /\ UNCHANGED <<dataVars, cloudVars>>

\* relay_switch(g_switch), then tos_task_delay
Drive ==
  /\ upc = "drive" /\ upc' = "delay"
  /\ relay' = g_switch
  /\ UNCHANGED <<over, g_overcurrent_lock, clicks, g_switch, g_count_down,
                 g_count_down_update, g_overcurrent_event,
                 g_do_upload_property, faults>>
  /\ UNCHANGED <<dataVars, cloudVars, worldVars>>

UserStep ==
  \/ TakeSample \/ SkipSample \/ ReleaseKey \/ WifiReset
  \/ CountAndProtect \/ Drive

\* HardFault_Handler spins above every task and interrupt, and no watchdog
\* is started.
Alive == upc # "fault"

-----------------------------------------------------------------------------
(* data_template_demo_task.                                                *)

At(here, there) == UserAsleep /\ dpc = here /\ dpc' = there

\* The parts of the state that a step of the data task leaves alone unless
\* it says otherwise.
userKept == <<userVars, worldVars>>
globals  == <<g_switch, g_count_down, g_count_down_update,
              g_overcurrent_event, g_do_upload_property>>

\* _handle_control: each property named in the message is stored in its
\* field of sg_ProductData, and OnControlMsgCallback marks it.
Named(m) == {p \in Property : m[p] # NoValue}
Handle(m, token) ==
  /\ sg_ProductData' = Update(sg_ProductData, Named(m), m)
  /\ changed' = changed \cup Named(m)
  /\ sg_control_msg_arrived' =
       IF Named(m) # {} THEN 1 ELSE sg_control_msg_arrived
  /\ sg_template_clientToken' = token

\* net_prepare ... _register_data_template_property; any failure ends the
\* task.
Connect ==
  /\ UserAsleep /\ dpc = "connect"
  /\ \/ /\ faults < MaxFaults /\ faults' = faults + 1
        /\ dpc' = "dead" /\ UNCHANGED sg_ProductData
     \/ /\ dpc' = "sync" /\ sg_ProductData' = NoData
        /\ UNCHANGED faults
  /\ UNCHANGED <<userKept, globals, changed, sg_control_msg_arrived,
                 sg_template_clientToken, cloudVars>>

\* IOT_Template_Yield handles the messages that have arrived, in order.  The
\* loops of Report_SysInfo_Sync and GetStatus_sync call it as well.
HandleControl ==
  /\ UserAsleep /\ dpc \in {"sync", "yield", "hung"} /\ UNCHANGED dpc
  /\ inbox # <<>> /\ inbox' = Tail(inbox)
  /\ Handle(Head(inbox).control, Head(inbox).token)
  /\ UNCHANGED <<userKept, globals, sent, settled, reported, faults>>

\* Both requests are answered, and get_status brings no control.
SyncDone ==
  /\ At("sync", "yield")
  /\ UNCHANGED <<userKept, globals, sg_ProductData, changed,
                 sg_control_msg_arrived, sg_template_clientToken, cloudVars,
                 faults>>

\* get_status brings a control the cloud kept.  It is handled, and
\* IOT_Template_ClearControl clears what the cloud keeps; the callback drops
\* its result.
SyncDoneWithControl ==
  /\ At("sync", "yield")
  /\ sent < MaxMsgs /\ sent' = sent + 1
  /\ \E m \in Control : Named(m) # {} /\ Handle(m, sent')
  /\ \/ settled' = settled \cup 1..sent' /\ UNCHANGED faults
     \/ /\ faults < MaxFaults /\ faults' = faults + 1
        /\ UNCHANGED settled
  /\ UNCHANGED <<userKept, globals, inbox, reported>>

\* A request cannot be sent, or is rejected: the task ends.
SyncRefused ==
  /\ At("sync", "dead")
  /\ faults < MaxFaults /\ faults' = faults + 1
  /\ UNCHANGED <<userKept, globals, sg_ProductData, changed,
                 sg_control_msg_arrived, sg_template_clientToken, cloudVars>>

\* An answer is lost or cannot be parsed.  ack stays ACK_NONE and the loop
\* never ends; the timeout's callback takes ack for the request and writes
\* through the word it finds there, which may be no address at all.
SyncLost ==
  /\ At("sync", "hung")
  /\ faults < MaxFaults /\ faults' = faults + 1
  /\ upc' = upc \/ upc' = "fault"
  /\ UNCHANGED <<g_overcurrent_lock, over, relay, clicks, worldVars, globals,
                 sg_ProductData, changed, sg_control_msg_arrived,
                 sg_template_clientToken, cloudVars>>

YieldDone ==
  /\ At("yield",
        IF sg_control_msg_arrived = 1 THEN "apply_switch" ELSE "copy_switch")
  /\ UNCHANGED <<userKept, globals, sg_ProductData, changed,
                 sg_control_msg_arrived, sg_template_clientToken, cloudVars,
                 faults>>

\* deal_down_stream_user_logic, one shared write at a time
ApplySwitch ==
  /\ At("apply_switch", "apply_count")
  /\ g_switch' = sg_ProductData.power_switch
  /\ UNCHANGED <<userKept, g_count_down, g_count_down_update,
                 g_overcurrent_event, g_do_upload_property, sg_ProductData,
                 changed, sg_control_msg_arrived, sg_template_clientToken,
                 cloudVars, faults>>

\* Mutant: the count is loaded without its update flag.
ApplyCountUnarmed ==
  /\ \/ /\ sg_ProductData.count_down # 0
        /\ At("apply_count", "reply")
        /\ g_count_down' = sg_ProductData.count_down
     \/ /\ sg_ProductData.count_down = 0
        /\ At("apply_count", "reply")
        /\ UNCHANGED g_count_down
  /\ UNCHANGED <<userKept, g_switch, g_count_down_update,
                 g_overcurrent_event, g_do_upload_property, sg_ProductData,
                 changed, sg_control_msg_arrived, sg_template_clientToken,
                 cloudVars, faults>>

ApplyCount ==
  /\ \/ /\ sg_ProductData.count_down # 0
        /\ At("apply_count", "arm")
        /\ g_count_down' = sg_ProductData.count_down
     \/ /\ sg_ProductData.count_down = 0
        /\ At("apply_count", "reply")
        /\ UNCHANGED g_count_down
  /\ UNCHANGED <<userKept, g_switch, g_count_down_update,
                 g_overcurrent_event, g_do_upload_property, sg_ProductData,
                 changed, sg_control_msg_arrived, sg_template_clientToken,
                 cloudVars, faults>>

Arm ==
  /\ At("arm", "reply")
  /\ g_count_down_update' = 1
  /\ UNCHANGED <<userKept, g_switch, g_count_down, g_overcurrent_event,
                 g_do_upload_property, sg_ProductData, changed,
                 sg_control_msg_arrived, sg_template_clientToken, cloudVars,
                 faults>>

\* IOT_Template_ControlReply: a failure breaks out of the loop and the task
\* destroys itself.
ControlReply ==
  /\ \/ /\ At("reply", "copy_switch")
        /\ sg_control_msg_arrived' = 0
        /\ settled' = settled \cup {sg_template_clientToken}
        /\ UNCHANGED faults
     \/ /\ faults < MaxFaults /\ faults' = faults + 1
        /\ At("reply", "dead")
        /\ UNCHANGED <<sg_control_msg_arrived, settled>>
  /\ UNCHANGED <<userKept, globals, sg_ProductData, changed,
                 sg_template_clientToken, inbox, sent, reported>>

\* deal_up_stream_user_logic, one shared read at a time
CopySwitch ==
  /\ \/ /\ g_do_upload_property = 1
        /\ At("copy_switch", "copy_count")
        /\ changed' = changed \cup {"power_switch"}
        /\ sg_ProductData' = [sg_ProductData EXCEPT !.power_switch = g_switch]
     \/ /\ g_do_upload_property = 0
        /\ At("copy_switch", "report")
        /\ UNCHANGED <<sg_ProductData, changed>>
  /\ UNCHANGED <<userKept, globals, sg_control_msg_arrived,
                 sg_template_clientToken, cloudVars, faults>>

\* Mutant: the copied count is not marked as changed.
CopyCountUnmarked ==
  /\ At("copy_count", "report")
  /\ changed' = changed
  /\ sg_ProductData' = [sg_ProductData EXCEPT !.count_down = g_count_down]
  /\ UNCHANGED <<userKept, globals, sg_control_msg_arrived,
                 sg_template_clientToken, cloudVars, faults>>

CopyCount ==
  /\ At("copy_count", "report")
  /\ changed' = changed \cup {"count_down"}
  /\ sg_ProductData' = [sg_ProductData EXCEPT !.count_down = g_count_down]
  /\ UNCHANGED <<userKept, globals, sg_control_msg_arrived,
                 sg_template_clientToken, cloudVars, faults>>

\* The changed properties are collected and reported; a report that fails is
\* only logged.
Report ==
  /\ At("report", "event")
  /\ changed' = {}
  /\ \/ /\ reported' = Update(reported, changed, sg_ProductData)
        /\ UNCHANGED faults
     \/ /\ changed # {} /\ faults < MaxFaults /\ faults' = faults + 1
        /\ UNCHANGED reported
  /\ UNCHANGED <<userKept, globals, sg_ProductData, sg_control_msg_arrived,
                 sg_template_clientToken, inbox, sent, settled>>

\* eventPostCheck: FLAG_EVENT0 is raised, g_overcurrent_event is cleared, and
\* the flag is cleared before the event is posted.  The flag is 0 outside.
CheckEvent ==
  /\ At("event", IF g_overcurrent_event = 1 THEN "ack_event" ELSE "yield")
  /\ UNCHANGED <<userKept, globals, sg_ProductData, changed,
                 sg_control_msg_arrived, sg_template_clientToken, cloudVars,
                 faults>>

\* Mutant: the event is acknowledged without being posted.
AckEventUnposted ==
  /\ At("ack_event", "yield")
  /\ g_overcurrent_event' = 0
  /\ UNCHANGED <<userKept, g_switch, g_count_down, g_count_down_update,
                 g_do_upload_property, sg_ProductData, changed,
                 sg_control_msg_arrived, sg_template_clientToken, cloudVars,
                 faults>>

AckEvent ==
  /\ At("ack_event", "post")
  /\ g_overcurrent_event' = 0
  /\ UNCHANGED <<userKept, g_switch, g_count_down, g_count_down_update,
                 g_do_upload_property, sg_ProductData, changed,
                 sg_control_msg_arrived, sg_template_clientToken, cloudVars,
                 faults>>

\* A post that fails is only logged: nothing asks for the event any more.
PostEvent ==
  /\ At("post", "yield")
  /\ \/ UNCHANGED faults
     \/ faults < MaxFaults /\ faults' = faults + 1
  /\ UNCHANGED <<userKept, globals, sg_ProductData, changed,
                 sg_control_msg_arrived, sg_template_clientToken, cloudVars>>

DataStep ==
  \/ Connect \/ SyncDone \/ SyncDoneWithControl \/ SyncRefused \/ SyncLost
  \/ HandleControl \/ YieldDone \/ ApplySwitch \/ ApplyCount
  \/ Arm \/ ControlReply \/ CopySwitch \/ CopyCount \/ Report
  \/ CheckEvent \/ AckEvent \/ PostEvent

-----------------------------------------------------------------------------
(* The world around the tasks.                                             *)

SendControl ==
  /\ sent < MaxMsgs /\ sent' = sent + 1
  /\ dpc \notin {"connect", "dead"}
  /\ \E m \in Control :
       Named(m) # {} /\ inbox' = Append(inbox, [control |-> m, token |-> sent'])
  /\ UNCHANGED <<userVars, dataVars, worldVars, globals, settled, reported,
                 faults>>

LoadChanges ==
  /\ demand' = 1 - demand
  /\ UNCHANGED <<userVars, dataVars, cloudVars, second, meter, listening,
                 globals, faults>>

SecondPasses ==
  /\ Alive
  /\ second = 0 /\ second' = 1
  /\ UNCHANGED <<userVars, dataVars, cloudVars, demand, meter, listening,
                 globals, faults>>

\* What a frame of the meter brings: an open relay draws nothing.
Measured == IF relay = 1 THEN demand ELSE 0

\* A frame of the meter, in its interrupt.  Those with one of the overflow
\* bits leave the current as it is or bring it.
MeterFrame ==
  /\ Alive /\ listening
  /\ meter' = Measured
  /\ UNCHANGED <<userVars, dataVars, cloudVars, demand, second, listening,
                 globals, faults>>

\* A frame that says its parameters cannot be used sets the current to zero;
\* it changes nothing if that is what it was.
InvalidFrame ==
  /\ Alive /\ listening /\ meter = 1
  /\ faults < MaxFaults /\ faults' = faults + 1
  /\ meter' = 0
  /\ UNCHANGED <<userVars, dataVars, cloudVars, demand, second, listening,
                 globals>>

\* An interrupt that comes too late ends the reception until main starts it
\* again; the byte it still pushes may complete a frame (EnergyMeter).
MeterOverrun ==
  /\ Alive /\ listening /\ listening' = FALSE
  /\ faults < MaxFaults /\ faults' = faults + 1
  /\ meter' \in {meter, Measured}
  /\ UNCHANGED <<userVars, dataVars, cloudVars, demand, second, globals>>

World ==
  \/ SendControl \/ LoadChanges \/ SecondPasses
  \/ MeterFrame \/ InvalidFrame \/ MeterOverrun

Next == UserStep \/ DataStep \/ World

Spec == Init /\ [][Next]_vars

(***************************************************************************)
(* user_task is never held up, the user lets go of the key, and the sample *)
(* interval elapses again and again.  The data task gets the processor     *)
(* only while user_task sleeps, so it is enabled again and again, not for  *)
(* ever: strong fairness.  That it leaves "sync" assumes an answer or none *)
(* (SyncLost), not a good one.  Faults are counted: MaxFaults at most.     *)
(***************************************************************************)
Fairness ==
  /\ WF_vars(UserStep) /\ SF_vars(TakeSample)
  /\ SF_vars(DataStep)
  /\ WF_vars(SecondPasses) /\ WF_vars(MeterFrame)

FairSpec == Spec /\ Fairness
-----------------------------------------------------------------------------
(* Properties.                                                             *)

TypeOK ==
  /\ upc \in UserPC /\ dpc \in DataPC
  /\ g_switch \in {0, 1} /\ g_count_down \in 0..MaxCountDown
  /\ g_count_down_update \in {0, 1} /\ g_overcurrent_event \in {0, 1}
  /\ g_overcurrent_lock \in {0, 1} /\ g_do_upload_property \in {0, 1}
  /\ meter \in {0, 1} /\ over \in {0, 1} /\ relay \in {0, 1}
  /\ demand \in {0, 1} /\ second \in {0, 1} /\ listening \in BOOLEAN
  /\ sg_ProductData \in ProductData /\ changed \subseteq Property
  /\ sg_control_msg_arrived \in {0, 1}
  /\ sg_template_clientToken \in 0..MaxMsgs
  /\ inbox \in Seq([control : Control, token : 1..MaxMsgs])
  /\ sent \in 0..MaxMsgs /\ settled \subseteq 0..MaxMsgs
  /\ reported \in ProductData
  /\ clicks \in 0..MaxClicks /\ faults \in 0..MaxFaults

\* Nothing the data task does between two of user_task's sleeps can close
\* the relay after a pass that saw an overcurrent: from the check to
\* relay_switch the switch that is about to be driven is one the check let
\* through.
NoCloseOnOvercurrent ==
  upc = "drive" /\ g_switch = 1 => over = 0 /\ g_overcurrent_lock = 0

\* While the load is powered the overcurrent lock is not engaged, except in
\* the pass that has just tripped and is still blinking.
LockedMeansOpen ==
  g_overcurrent_lock = 1 /\ relay = 1 => upc = "drive" /\ g_switch = 0

\* A countdown that is running will flip the switch when it ends: its update
\* flag is up, or the data task is about to raise it.  This is what the order
\* of the two writes in deal_down_stream_user_logic is for.
CountDownArmed ==
  g_count_down > 0 => g_count_down_update = 1 \/ dpc = "arm"

\* The firmware implements the promise about the relay.
Promise == INSTANCE SafeRelay WITH lock <- g_overcurrent_lock
KeepsPromise == Promise!Spec

\* Every trip reaches the call of IOT_Post_Event: a trip that falls between
\* the raising of FLAG_EVENT0 and the clearing of g_overcurrent_event is
\* covered by the post that follows.  Excused are a data task that has ended
\* or hangs in a synchronous request (a hard fault included), and a reset.
TripIsPosted ==
  g_overcurrent_event = 1
    ~> (dpc \in {"post", "dead", "hung"} \/ upc = "wifi")

\* An appliance that stays above the limit is cut off, whatever becomes of
\* the data task.  Excused are an overrun, after which the current is never
\* measured again, and a hard fault.
OverloadIsCut ==
  (relay = 1 /\ demand = 1)
    ~> (relay = 0 \/ demand = 0 \/ ~listening \/ ~Alive)

\* A countdown ends, and takes its flag with it, also when the count reaches
\* zero before the data task has raised the flag, and also when that task
\* ends or hangs afterwards.
CountDownEnds ==
  (g_count_down > 0 \/ g_count_down_update = 1)
    ~> (\/ g_count_down = 0 /\ g_count_down_update = 0 /\ dpc # "arm"
        \/ ~Alive)

\* Once the inputs stop the relay agrees with the switch, and so does the
\* cloud's copy, with the count, while the data task runs its loop.
CloudConverges ==
  <>[](\/ ~Alive
       \/ /\ relay = g_switch
          /\ \/ dpc \in {"dead", "hung"}
             \/ reported = [power_switch |-> g_switch,
                            count_down |-> g_count_down])

-----------------------------------------------------------------------------
(* What a comment says, and the code does not do.                          *)

\* data_template_usr_logic.c: the server is told that each control message
\* was received, or else it keeps it.  After the reply none of the messages
\* handled so far is still kept.
ControlsAcknowledged ==
  dpc = "copy_switch" => 1..sg_template_clientToken \subseteq settled
=============================================================================
