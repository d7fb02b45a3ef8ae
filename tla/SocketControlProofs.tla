------------------------- MODULE SocketControlProofs -------------------------
(***************************************************************************)
(* Proofs about SocketControl, for every value of its constants.           *)
(***************************************************************************)
EXTENDS SocketControl, TLAPS

(***************************************************************************)
(* Merging the properties a message names into typed data gives typed data. *)
(***************************************************************************)
LEMMA UpdateTyped ==
  ASSUME NEW data \in ProductData, NEW names, NEW m \in Control,
         \A p \in Property : p \in names => m[p] # NoValue
  PROVE  Update(data, names, m) \in ProductData
<1>1. "power_switch" \in names => m.power_switch \in {0, 1}
  BY DEF Property, Control
<1>2. "count_down" \in names => m.count_down \in 0..MaxCountDown
  BY DEF Property, Control
<1> QED BY <1>1, <1>2 DEF Update, ProductData

(***************************************************************************)
(* _handle_control and its callback leave the data task's state typed.     *)
(***************************************************************************)
LEMMA HandleTyped ==
  ASSUME TypeOK, NEW m \in Control, NEW token \in 1..MaxMsgs,
         Handle(m, token)
  PROVE  /\ sg_ProductData' \in ProductData
         /\ changed' \subseteq Property
         /\ sg_control_msg_arrived' \in {0, 1}
         /\ sg_template_clientToken' \in 0..MaxMsgs
<1>1. \A p \in Property : p \in Named(m) => m[p] # NoValue
  BY DEF Named
<1>2. sg_ProductData' \in ProductData
  BY <1>1, UpdateTyped DEF Handle, TypeOK
<1> QED BY <1>2, BoundsAssumption DEF Handle, TypeOK, Named

(***************************************************************************)
(* Every variable keeps its type.                                          *)
(***************************************************************************)
THEOREM TypeCorrect == Spec => []TypeOK
<1> USE BoundsAssumption, NoValueAssumption
<1>1. Init => TypeOK
  BY DEF Init, TypeOK, NoData, ProductData, UserPC, DataPC, Property
<1>2. TypeOK /\ [Next]_vars => TypeOK'
  <2> SUFFICES ASSUME TypeOK, [Next]_vars PROVE TypeOK'
    OBVIOUS
  <2>1. CASE UserStep
    <3> USE DEF TypeOK, UserPC, userVars, dataVars, cloudVars, worldVars
    <3>1. CASE TakeSample BY <3>1 DEF TakeSample, ReadKey
    <3>2. CASE SkipSample BY <3>2 DEF SkipSample, ReadKey
    <3>4. CASE ReleaseKey BY <3>4 DEF ReleaseKey
    <3>5. CASE WifiReset BY <3>5 DEF WifiReset, NoData, ProductData, DataPC
    <3>6. CASE CountAndProtect
      BY <3>6 DEF CountAndProtect, CountDown, Protect, Tick, Left, Flip, Counted
    <3>8. CASE Drive BY <3>8 DEF Drive
    <3> QED BY <2>1, <3>1, <3>2, <3>4, <3>5, <3>6, <3>8 DEF UserStep
  <2>2. CASE DataStep
    <3> USE DEF TypeOK, DataPC, userVars, dataVars, cloudVars, worldVars,
                userKept, globals, At
    <3>1. CASE Connect
      BY <3>1 DEF Connect, NoData, ProductData
    <3>14. CASE SyncDone BY <3>14 DEF SyncDone
    <3>15. CASE SyncDoneWithControl
      <4>1. PICK m \in Control : Handle(m, sent')
        BY <3>15 DEF SyncDoneWithControl
      <4>2. sent' \in 1..MaxMsgs
        BY <3>15 DEF SyncDoneWithControl
      <4>3. /\ sg_ProductData' \in ProductData
            /\ changed' \subseteq Property
            /\ sg_control_msg_arrived' \in {0, 1}
            /\ sg_template_clientToken' \in 0..MaxMsgs
        BY <4>1, <4>2, HandleTyped
      <4>4. settled' \subseteq 0..MaxMsgs
        <5>1. 1..sent' \subseteq 0..MaxMsgs
          BY <4>2
        <5>2. settled' \subseteq settled \cup 1..sent'
          BY <3>15 DEF SyncDoneWithControl
        <5> QED BY <5>1, <5>2
      <4>5. faults' \in 0..MaxFaults
        BY <3>15 DEF SyncDoneWithControl
      <4> QED BY <3>15, <4>2, <4>3, <4>4, <4>5 DEF SyncDoneWithControl
    <3>16. CASE SyncRefused BY <3>16 DEF SyncRefused
    <3>17. CASE SyncLost BY <3>17 DEF SyncLost, UserPC
    <3>2. CASE HandleControl
      <4> DEFINE Message == [control : Control, token : 1..MaxMsgs]
      <4>1. Head(inbox) \in Message /\ inbox' \in Seq(Message)
        <5>1. inbox \in Seq(Message) /\ inbox # <<>> /\ inbox' = Tail(inbox)
          BY <3>2 DEF HandleControl
        <5> HIDE DEF Message
        <5> QED BY <5>1
      <4>2. /\ Head(inbox).control \in Control
            /\ Head(inbox).token \in 1..MaxMsgs
            /\ Handle(Head(inbox).control, Head(inbox).token)
        BY <3>2, <4>1 DEF HandleControl
      <4>3. /\ sg_ProductData' \in ProductData
            /\ changed' \subseteq Property
            /\ sg_control_msg_arrived' \in {0, 1}
            /\ sg_template_clientToken' \in 0..MaxMsgs
        BY <4>2, HandleTyped
      <4> QED BY <3>2, <4>1, <4>3 DEF HandleControl
    <3>3. CASE YieldDone BY <3>3 DEF YieldDone
    <3>4. CASE ApplySwitch BY <3>4 DEF ApplySwitch, ProductData
    <3>5. CASE ApplyCount BY <3>5 DEF ApplyCount, ProductData
    <3>6. CASE Arm BY <3>6 DEF Arm
    <3>7. CASE ControlReply
      <4>1. settled' \subseteq 0..MaxMsgs
        BY <3>7 DEF ControlReply
      <4> QED BY <3>7, <4>1 DEF ControlReply
    <3>8. CASE CopySwitch BY <3>8 DEF CopySwitch, ProductData, Property
    <3>9. CASE CopyCount
      <4>1. sg_ProductData' \in ProductData
        BY <3>9 DEF CopyCount, ProductData
      <4>2. changed' \subseteq Property
        BY <3>9 DEF CopyCount, Property
      <4> QED BY <3>9, <4>1, <4>2 DEF CopyCount
    <3>10. CASE Report
      <4>1. reported' \in ProductData
        BY <3>10 DEF Report, Update, ProductData
      <4> QED BY <3>10, <4>1 DEF Report
    <3>11. CASE CheckEvent BY <3>11 DEF CheckEvent
    <3>12. CASE AckEvent BY <3>12 DEF AckEvent
    <3>13. CASE PostEvent BY <3>13 DEF PostEvent
    <3> QED BY <2>2, <3>1, <3>2, <3>3, <3>4, <3>5, <3>6, <3>7, <3>8, <3>9,
               <3>10, <3>11, <3>12, <3>13, <3>14, <3>15, <3>16, <3>17
            DEF DataStep
  <2>3. CASE World
    <3> USE DEF TypeOK, userVars, dataVars, cloudVars, worldVars, globals
    <3>1. CASE SendControl BY <3>1 DEF SendControl, Control
    <3>2. CASE LoadChanges BY <3>2 DEF LoadChanges
    <3>3. CASE SecondPasses BY <3>3 DEF SecondPasses
    <3>4. CASE MeterFrame BY <3>4 DEF MeterFrame, Measured
    <3>5. CASE MeterOverrun
      <4>1. meter' \in {0, 1} /\ faults' \in 0..MaxFaults
        BY <3>5 DEF MeterOverrun, Measured
      <4>2. listening' \in BOOLEAN
        BY <3>5 DEF MeterOverrun
      <4> QED BY <3>5, <4>1, <4>2 DEF MeterOverrun
    <3>6. CASE InvalidFrame BY <3>6 DEF InvalidFrame
    <3> QED BY <2>3, <3>1, <3>2, <3>3, <3>4, <3>5, <3>6 DEF World
  <2>4. CASE UNCHANGED vars
    BY <2>4 DEF TypeOK, vars, userVars, dataVars, cloudVars, worldVars
  <2> QED BY <2>1, <2>2, <2>3, <2>4 DEF Next
<1> QED BY <1>1, <1>2, PTL DEF Spec

-----------------------------------------------------------------------------
(***************************************************************************)
(* The relay.  NoCloseOnOvercurrent is about one program point of          *)
(* user_task; it is inductive because every step of the data task needs    *)
(* user_task asleep, so none falls between Protect and Drive.              *)
(* LockedMeansOpen rests on it: the only step that closes the relay is     *)
(* Drive.                                                                  *)
(***************************************************************************)
RelayInv == NoCloseOnOvercurrent /\ LockedMeansOpen

\* The relay starts open and unlocked.
LEMMA RelayInvInitially == Init => RelayInv
BY DEF Init, RelayInv, NoCloseOnOvercurrent, LockedMeansOpen

\* No step of user_task, of the data task or of the world breaks it.
LEMMA RelayInvStep == TypeOK /\ RelayInv /\ [Next]_vars => RelayInv'
<1> SUFFICES ASSUME TypeOK, RelayInv, [Next]_vars PROVE RelayInv'
  OBVIOUS
<1> USE DEF TypeOK, UserPC, RelayInv, NoCloseOnOvercurrent, LockedMeansOpen,
            userVars, dataVars, cloudVars, worldVars
<1>1. CASE UserStep
  <2>1. CASE TakeSample BY <2>1 DEF TakeSample, ReadKey
  <2>2. CASE SkipSample BY <2>2 DEF SkipSample, ReadKey
  <2>4. CASE ReleaseKey BY <2>4 DEF ReleaseKey
  <2>5. CASE WifiReset BY <2>5 DEF WifiReset
  <2>6. CASE CountAndProtect
    BY <2>6 DEF CountAndProtect, CountDown, Protect, Tick, Left, Flip, Counted
  <2>8. CASE Drive BY <2>8 DEF Drive
  <2> QED BY <1>1, <2>1, <2>2, <2>4, <2>5, <2>6, <2>8 DEF UserStep
<1>2. CASE DataStep
  \* user_task sleeps, and the data task touches neither relay nor lock
  <2>1. /\ UserAsleep /\ upc' \in {upc, "fault"}
        /\ UNCHANGED <<g_overcurrent_lock, over, relay>>
    BY <1>2 DEF DataStep, At, userKept, Connect, SyncDone,
       SyncDoneWithControl, SyncRefused, SyncLost, HandleControl, YieldDone,
       ApplySwitch, ApplyCount, Arm, ControlReply, CopySwitch, CopyCount,
       Report, CheckEvent, AckEvent, PostEvent
  <2> QED BY <2>1 DEF UserAsleep
<1>3. CASE World
  BY <1>3 DEF World, SendControl, LoadChanges, SecondPasses, MeterFrame,
     InvalidFrame, MeterOverrun, globals
<1>4. CASE UNCHANGED vars BY <1>4 DEF vars
<1> QED BY <1>1, <1>2, <1>3, <1>4 DEF Next

\* The relay is never about to close on an overcurrent, and stays open while
\* the lock is engaged: what the overcurrent check of user_task is for.
THEOREM RelaySafe == Spec => []NoCloseOnOvercurrent /\ []LockedMeansOpen
<1>1. RelayInv => NoCloseOnOvercurrent /\ LockedMeansOpen
  BY DEF RelayInv
<1> QED BY <1>1, RelayInvInitially, RelayInvStep, TypeCorrect, PTL DEF Spec

(***************************************************************************)
(* Every step of the firmware is a step of SafeRelay or leaves its state   *)
(* alone: a trip is Trip, the unlocking pass is Release, relay_switch is   *)
(* Open or, by NoCloseOnOvercurrent, Close.                                *)
(***************************************************************************)
LEMMA PromiseStep ==
  TypeOK /\ RelayInv /\ [Next]_vars => [Promise!Next]_(Promise!vars)
<1> SUFFICES ASSUME TypeOK, RelayInv, [Next]_vars
             PROVE  [Promise!Next]_(Promise!vars)
  OBVIOUS
<1> USE DEF TypeOK, Promise!Next, Promise!vars
<1>1. CASE TakeSample
  BY <1>1 DEF TakeSample, Promise!Sample
<1>2. CASE CountAndProtect
  BY <1>2 DEF CountAndProtect, Protect, Counted, Flip, Promise!Trip,
     Promise!Release
<1>3. CASE Drive
  <2>1. CASE g_switch = 1
    BY <1>3, <2>1 DEF Drive, RelayInv, NoCloseOnOvercurrent, Promise!Close
  <2>2. CASE g_switch = 0
    BY <1>3, <2>2 DEF Drive, Promise!Open
  <2> QED BY <2>1, <2>2
<1>4. CASE WifiReset
  BY <1>4 DEF WifiReset, Promise!Reset
<1>5. CASE SkipSample \/ ReleaseKey
  BY <1>5 DEF SkipSample, ReleaseKey
<1>6. CASE DataStep
  BY <1>6 DEF DataStep, At, userKept, userVars, Connect, SyncDone,
     SyncDoneWithControl, SyncRefused, SyncLost, HandleControl, YieldDone,
     ApplySwitch, ApplyCount, Arm, ControlReply, CopySwitch, CopyCount,
     Report, CheckEvent, AckEvent, PostEvent
<1>7. CASE World
  BY <1>7 DEF World, SendControl, LoadChanges, SecondPasses, MeterFrame,
     InvalidFrame, MeterOverrun, userVars
<1>8. CASE UNCHANGED vars
  BY <1>8 DEF vars, userVars
<1> QED BY <1>1, <1>2, <1>3, <1>4, <1>5, <1>6, <1>7, <1>8 DEF Next, UserStep

\* The two tasks implement SafeRelay, which is stated without either task.
THEOREM ImplementsSafeRelay == Spec => KeepsPromise
<1>1. Init => Promise!Init
  BY DEF Init, Promise!Init
<1> QED BY <1>1, RelayInvInitially, RelayInvStep, PromiseStep, TypeCorrect,
           PTL DEF Spec, KeepsPromise, Promise!Spec

-----------------------------------------------------------------------------
(***************************************************************************)
(* The countdown: a running count always has its flip armed, because the   *)
(* data task writes the count before the flag and only user_task, at zero, *)
(* takes the flag down.                                                    *)
(***************************************************************************)
LEMMA ArmedStep == TypeOK /\ CountDownArmed /\ [Next]_vars => CountDownArmed'
<1> SUFFICES ASSUME TypeOK, CountDownArmed, [Next]_vars PROVE CountDownArmed'
  OBVIOUS
<1> USE BoundsAssumption
        DEF TypeOK, CountDownArmed, At, userKept, globals, userVars,
            dataVars, cloudVars, worldVars
<1>1. CASE CountAndProtect
  BY <1>1 DEF CountAndProtect, CountDown, Tick, Left, Flip
<1>2. CASE WifiReset BY <1>2 DEF WifiReset
<1>3. CASE TakeSample \/ SkipSample \/ ReleaseKey \/ Drive
  BY <1>3 DEF TakeSample, SkipSample, ReleaseKey, Drive
<1>4. CASE ApplyCount BY <1>4 DEF ApplyCount
<1>5. CASE Arm BY <1>5 DEF Arm
<1>6. CASE Connect \/ SyncDone \/ SyncDoneWithControl \/ SyncRefused
           \/ SyncLost \/ HandleControl \/ YieldDone \/ ApplySwitch
           \/ ControlReply \/ CopySwitch \/ CopyCount \/ Report
           \/ CheckEvent \/ AckEvent \/ PostEvent
  <2>1. dpc # "arm" /\ UNCHANGED <<g_count_down, g_count_down_update>>
    BY <1>6 DEF Connect, SyncDone, SyncDoneWithControl, SyncRefused, SyncLost,
       HandleControl, YieldDone, ApplySwitch, ControlReply, CopySwitch,
       CopyCount, Report, CheckEvent, AckEvent, PostEvent
  <2> QED BY <2>1
<1>7. CASE World
  BY <1>7 DEF World, SendControl, LoadChanges, SecondPasses, MeterFrame,
     InvalidFrame, MeterOverrun
<1>8. CASE UNCHANGED vars BY <1>8 DEF vars
<1> QED BY <1>1, <1>2, <1>3, <1>4, <1>5, <1>6, <1>7, <1>8
        DEF Next, UserStep, DataStep

\* No interleaving of deal_down_stream_user_logic with user_task's countdown
\* leaves a count running whose end would not flip the switch.
THEOREM CountDownStaysArmed == Spec => []CountDownArmed
<1>1. Init => CountDownArmed
  BY DEF Init, CountDownArmed
<1> QED BY <1>1, ArmedStep, TypeCorrect, PTL DEF Spec
=============================================================================
