# Formal model of the smart socket firmware

This directory is a TLA+ model of the firmware in `src/project`: an STM32G0
that switches and meters a mains socket, talks to Tencent Cloud IoT through an
ESP8266 WiFi module over AT commands, and runs on the TencentOS-tiny kernel.
TLC checks the modules on small instances, and TLAPS proves the main safety
results for every value of the constants. Paths below are relative to
`src/project`; `SDK` is `qcloud-iot-sdk-tencent-at-based`, and `README` is the
repository's `src/README.md`.

## 1. The system

| component | state | operations | who else touches it |
|---|---|---|---|
| `user_task` (`user_code/user_task.c`, priority 3) | `g_switch`, `g_count_down(_update)`, `g_overcurrent_event/lock`, `g_power_info` | one pass per loop: sample, save, key, countdown, overcurrent, relay, delay | the data task reads and writes the globals without a lock |
| cloud application task (`SDK/usr_logic/data_template_usr_logic.c`, priority 4) | `sg_ProductData`, `sg_DataTemplate`, `sg_control_msg_arrived`, event flags | yield, apply a control, reply, report, post events | `user_task`; the template client's callbacks |
| energy log (`user_code/user_utils.c`) | a region of flash, written in double words | `flash_search`, `erase_wh`, `save_wh`, `read_wh` | survives power failures |
| key scanner (`user_code/key.c`) | `key_state`, `key_ret`, `key_is_read` | `key_scan` in the TIM7 interrupt, `key_read` in `user_task` | both sides without masking the interrupt |
| meter driver (`user_code/hlw8032.c`) | frame buffer, `info`, pulse counters | `hlw8032_recv`/`_analyse` in the UART interrupt, `hlw8032_get_info` | `user_task` copies `info` |
| AT client (`SDK/src/module_at/at_client.c`) | `client->resp`, `resp_status`, `resp_notice`, `lock` | `at_obj_exec_cmd` in the callers, `client_parser` in a task of its own (priority 4) | data task, `user_task` (`wifi_config`), parser |
| receive ring buffer (`SDK/src/module_at/ringbuff.c`) | two indices, the bytes | push in the UART interrupt, pop and flush in the parser | no lock |
| module API, MQTT glue (`module_api_inf.c`, `SDK/src/mqtt/mqtt.c`) | `sg_flags`, subscription table | commands, URC functions, dispatch by topic | parser sets flags the callers poll |
| template client (`SDK/src/data_template/*`) | request list, property list, event list, message list, tokens | report, get status, control reply, timeouts, yield | parser appends messages, data task consumes |
| SDK port (`SDK/port/*`) | task table, lock table | threads, mutexes, sleep, UART output | everyone |
| TencentOS-tiny kernel (`TencentOS-tiny/kernel/core`) | ready queue, pend lists, tick list, mutex ownership | schedule, pend/post, delay, round robin, priority inheritance | everyone |

How they interact. The UART interrupt pushes bytes into the ring buffer; the
parser makes lines of them, hands responses to the caller that waits in
`at_obj_exec_cmd` and unsolicited lines (URCs) to their functions, which queue
cloud messages. The data task takes the messages in `IOT_Template_Yield`, stores
control messages in `sg_ProductData`, applies them to the globals of `user_task`
and reports the globals back. `user_task` drives the relay from `g_switch`.

What is hard about it:

* two tasks share globals without a lock; only priorities and the place of the
  sleeps and busy waits keep some sequences undivided;
* the relay must stay safe on samples that are older than its last move;
* a command that times out leaves its answer, and a parser half way through it;
* everything that spins (`HAL_Delay`, `at_obj_exec_cmd`, `at_client_getchar`)
  starves what is below it;
* power fails and `wifi_config` resets the chip at any point, also between two
  pages of an erase;
* a lost answer hangs the task that waits for it, and one late interrupt ends the
  reception of a UART;
* interrupts fall between two statements of a read.

What makes each component correct:

* relay control: an overcurrent opens the relay and nothing closes it before
  the switch is turned on afresh; a countdown flips the switch exactly when it
  ends; while the data task runs, trips are announced and the cloud's copy
  converges;
* energy log: what a restart reads is the latest total in it, totals never go
  backwards, what was saved is what is read;
* key: one click per press, releases and presses that last are seen;
* AT client: each command gets its own answer or a timeout, the parser never
  touches an object that is gone, calls return, URCs are delivered;
* ring buffer: bytes come out once, in order, uncorrupted, except for overflow;
* template client: every request ends by reply or timeout once, lists stay
  bounded;
* kernel: one owner per mutex, priorities restored, nobody woken twice, wake-up
  times kept, no starvation among equals.

## 2. The modules

| module | stands for | its environment |
|---|---|---|
| `SafeRelay` | the promise about relay and overcurrent lock | - |
| `SocketControl` (`...Proofs`) | `user_task`, the data task, `_handle_control`, `wifi_config`; implements `SafeRelay` | the cloud, the load, the meter's frames, time |
| `KeyScan` (`...Proofs`) | `key_scan` against `key_read` | the finger |
| `FlashSearch` (`...Proofs`) | the binary search of `flash_search`, for any size | every fill level |
| `EnergyMeter` | `hlw8032_recv` and `hlw8032_analyse`, from bytes to watt-hours | the meter chip, lost bytes |
| `FlashLog` (`...Proofs`, for `EnergyMeter` too) | the energy pipeline: `EnergyMeter`, `user_task`'s sampling and saving, the log in flash | power, resets, the flash controller |
| `RingBuffer` (`...Proofs`) | `ringbuff.c` between interrupt and parser | received bytes |
| `AtClient` (`...Proofs`) | `at_obj_exec_cmd` and `client_parser` | the module on the serial line |
| `TemplateClient` (`...Proofs`) | requests, synchronous calls, events, messages of the template client, in the order of the data task's loop | the cloud, lost messages, time |
| `SafeMutex` | the promise of a set of mutexes | - |
| `Kernel` (`...Proofs`, `MCKernel`) | the kernel core: scheduler, pend lists, mutexes, ticks, round robin; implements `SafeMutex` | calls of the tasks, the tick interrupt |

### SocketControl

Variables carry the source's names. `upc` and `dpc` say where the two tasks are.
`user_task` has the higher priority, so a pass is cut only where it sleeps:
`UserAsleep` names these points (`tos_task_delay` at the end of the pass, the
loop that waits for the key's release, `wifi_config`). Between two sleeps a pass is
two or three steps: the sample with the reading of the key, the key's release, and
`CountAndProtect`, which is the countdown and the overcurrent check; the blink
comes before `Drive`, which moves the relay. An interrupt that falls within
such a step comes, for what the step reads of it, before the step or after. The
blinking in the overcurrent lock uses `HAL_Delay`, which spins, so the data task
does not run there, and the promise about the relay depends on it: the mutant
`UserAsleepWhileBlinking` makes it sleep and breaks `KeepsPromise`. The data task
may be preempted between any two accesses to a shared variable, so each access is
an action: `ApplySwitch`, `ApplyCount`, `Arm`, `CopySwitch`, `CopyCount`,
`CheckEvent`, `AckEvent`, `PostEvent`.

`meter` is the overcurrent test on the driver's latest frame, `over` the same on
`g_power_info`, the copy taken every 2 s: a move of the relay shows in `meter`
only after the next frame, and in `over` only after the next sample. A frame in
state 0xAA or 0xF1 sets the current to zero (`InvalidFrame`), and an overrun ends
the frames until the controller restarts (`MeterOverrun`, in detail in
`EnergyMeter`): the overcurrent check keeps the last current it had. `second` is
the clock as the countdown sees it. Two properties are modelled, `power_switch`
and `count_down`; the measured values are only reported. Publishing is one step
that succeeds or, `MaxFaults` times, fails. A failed control reply and a failed
connection end the data task for good (`dead`), as in the code.

After connecting, the data task makes two synchronous requests,
`IOT_Template_Report_SysInfo_Sync` and `IOT_Template_GetStatus_sync` (`sync`).
They loop on `IOT_Template_Yield`, so a control message may be handled meanwhile.
Their end is one of four. Both are answered (`SyncDone`). The second answer brings
a control that the cloud kept, which is handled, and which
`IOT_Template_ClearControl` has the cloud forget (`SyncDoneWithControl`). A request
is refused, and the task ends (`SyncRefused`). Or an answer is lost or cannot be
parsed (`SyncLost`): then the loop never ends (`hung`), although it still handles
control messages, which nothing applies. The request's timeout also passes its
callback the wrong pointer, and the callback writes through a word of the caller's
stack. The model has that write either without effect or as a hard fault, in which
`HardFault_Handler` spins above everything (`upc = "fault"`); it does not follow a
write that hits some other variable. `TemplateClient` has the two calls in detail.
`settled` is what the cloud need not keep any longer: the controls replied to or
cleared.

So `TripIsPosted` and `CloudConverges` hold only while the data task neither ends
nor hangs. `OverloadIsCut` and `CountDownEnds` are `user_task`'s own affair and hold
whatever becomes of the data task, short of the hard fault; an overload is cut if
it is measured, that is before an overrun.

`SafeRelay` says what may happen to the relay, the sample and the lock: the relay
closes only while the sample is good and the lock is open, the lock engages on a
bad sample and opens on a good one. `SocketControl` implements it with
`lock <- g_overcurrent_lock` and the relay and the sample as they are
(`KeepsPromise`).

### KeyScan

`key_scan` is one step, since nothing preempts the interrupt; `key_read` is two,
between which the interrupt may fall. `held` is the loop of `user_task` that
waits for the release.

### FlashSearch, EnergyMeter and FlashLog

`FlashSearch` is the search, one comparison per step, over a log of `Max` double
words filled up to any point.

`EnergyMeter` assembles frames byte by byte. A byte's start bit may be lost in the
noise (`ByteLost`), and lost bytes may make a pause; a pause is what `hlw8032_recv`
finds the next frame by, and the 20 ms it waits are shorter than the pause between
two frames of the meter (external). A damaged byte leaves a frame whose checksum
is wrong, which the code drops like one that lost a byte; that two errors make a
checksum right again is left out. The frame's content is its state register; its
pulse register and the toggle bit follow from the pulses counted. `Settle`, `Skip`
and `Count` are the branches of `hlw8032_analyse`; `last_data_updata` is the
constant zero it is in the code. `counted` and `skipped` are what the properties
need to keep the books.

An interrupt that comes too late is something else (`Overrun`):
`HAL_UART_IRQHandler` ends the reception, and only `main` ever starts it. Until the
controller restarts, the bytes of the meter go nowhere (`ByteIgnored`). The
interrupt may also come once more with nothing to read, and then
`USART3_4_LPUART1_IRQHandler` pushes a variable it never set, which is a byte of the
frame like any other and may, in the last place, be the right checksum.

`FlashLog` extends it with the controller's life: boots, resets that leave the
meter running, power failures that do not. `hlw8032_init` overwrites
`info.total_wh` with what was read from flash, as in the code. Addresses count
32-bit words, as `save_wh`'s pointer does, and the flash controller (external)
programs a double word only at its own address and only over a blank one.

`flash_search` here is the code's own loop, applied to whatever the region holds,
since a region is not always a log: an erase cut off by a power failure leaves a
blank front and old totals behind it. The loop also looks one double word past the
region (`past`), which is past the 128 KB of the chip. What is read there is left
open, blank or programmed; a bus error is outside the model. On a full log with a
programmed word there, the search names that word, and `save_wh` asks for an
address after it, which the controller rejects: the log never starts over again.

`erase_wh` takes one page after the other (`ErasePage`), with power failing between
any two of them and before the first entry is programmed (`ProgramFirst`). A page
is erased or not: a failure inside one is not modelled. The erase begins with the
oldest totals, and the mutant `EraseBackwards` shows that `NeverReadsOld` needs
that. It still loses the latest total when it is cut off: the search then finds
nothing and the count starts again from zero, or it finds the latest one.
`newest` is where that is. Each page erase also stalls the processor, as the chip
executes from the same flash, which is one way to an overrun; that a stall swallows
the ticks of a pause is not modelled. The initial log is what any firmware may have
left: a prefix of growing totals.

### RingBuffer

A byte is its number in the order of acceptance, so order, loss and duplication
are visible in what comes out. The interrupt's push is one step. The parser's pop
is two (the read index, then the byte) and its flush takes the two indices and
each byte of the `memset` one at a time, with the interrupt between any two.
`taken` counts what has left, `spoiled` is the last byte that was accepted during
a flush, which the flush may still clear.

### AtClient

Callers are `data` and `user`; `cpc` and `ppc` say where callers and parser are.
One action per access to `client->resp`, `resp_status` and `resp_notice`. The
scheduling: `user_task` spins at priority 3, so while it is neither asleep nor
waiting for the lock nobody else moves (`UserRuns`), and while it waits for the
lock, the data task runs at inherited priority and the parser starves
(`ParserRuns`). The lock is handed to its waiter by the post, as
`tos_mutex_post` does (`Kernel`).

A line is its kind. The module answers each command with `OK` or `ERROR`, after
one line of text or none, or does not answer. The answer of the module's own
reset (`AT+RST` in `module_power_on`) may be on the wire when the parser starts.
A timeout may happen at any moment a caller waits. The parser's use of
`client->resp` after another task has cleared it, and of a buffer the data task
has freed, is undefined behaviour and ends in the state `fault`. A starved
parser may lose the beginning of a line (`CutLine`): `at_client_getchar` takes a
character and then reports its 5 s timeout.

`counted`, `result`, `verdict`, `texts` and `clean` belong to the command under
way and are forgotten when it returns. `clean` says that it started with nothing
of an earlier exchange about, `unclaimed` that an answer may come that nobody
waits for.

### TemplateClient

`pc` walks through the data task: the two synchronous calls it starts with, then
`IOT_Template_Yield` (messages, due requests, due events), the reply to a control
message, the report, the event. `msgs` is the list the parser fills
(`Answer`, `Control`) while `_handle_message` iterates over it: `more` is the
iterator's next node, taken before the message is delivered, so a message that
arrives meanwhile may be missed in this round. A request carries its token; a
control has the token of the cloud, which the model calls 0. The list entry of a
synchronous call points to `ack`, a local variable of the call. Timers rise in
the order in which they were set: all requests wait 10 s, and events 10,000 s,
because `_create_event_add_to_list` gives its milliseconds to a function that
counts seconds. The callback of a request that timed out is given the user
context where it expects the request, so `ack` stays as it is or the processor
faults (`Expire`). Publishing succeeds or fails at any time, and a message that
could not be sent may have reached the cloud.

### Kernel

The kernel's state is one record, and an operator with the name of a C function is
that function on the record, so that the calls nest as they do in the code. A
call runs with interrupts disabled and then, in a second step, calls
`knl_sched` (`Sched`); the tick interrupt and PendSV come anywhere between.
`readyqueue_add` puts a task at the head or the tail as the code decides,
`highest_prio` is the cached value, the tick list stores differences, the pend
lists are sorted by priority, `prio_pending` holds a priority that was asked for
while its owner still holds mutexes. A task locks its mutexes in any order and unlocks
them innermost first (`Innermost`; a task that releases them in another order is
outside the model, and nothing here is said of it), sleeps, waits with or without
a timeout, and may end itself, also while it owns mutexes and others wait for them.

`base`, `left`, `asked`, `bid` and `raised` only watch: the priority a task was
created with, the ticks a sleeper has left, the mutex a pend is about, the
priority a waiter had when it began to wait, and who came by a mutex, or by a
pending priority, that was not its own. The loops of the code (`Due`,
`pend_wakeup_all`, `task_mutex_release`, `WakeDue`) are recursive functions from
the number of rounds to the state after them.

`SafeMutex` is what `AtClient` takes for granted: one owner, who alone gives up
the mutex, and gives it to a waiter if there is one; a wait ends by the mutex, by
a timeout or by the end of the owner.

## 3. Runs

| run | checks | shows |
|---|---|---|
| `socket` | `TypeOK`, `LockedMeansOpen`, `CountDownArmed`, `KeepsPromise`; `TripIsPosted`, `OverloadIsCut`, `CountDownEnds`, `CloudConverges` | the relay promise and the countdown's arming in every interleaving with a control message, a key press and one fault (a failing publish, a refused or a lost synchronous request, an invalid frame, an overrun); whatever becomes of the data task, overloads that are measured are cut and countdowns end with their flag; while it neither ends nor hangs, trips reach the post, and at rest relay, switch, count and the cloud's copy agree |
| `key_scan` | `ClicksFollowPresses`; `ReleaseIsSeen`, `PressIsSeen` | the interrupt may fall anywhere in `key_read` |
| `flash_search` | `FindsLast`; `Terminates` | the search is right for every fill level of the real 2048 double words |
| `flash_log` | `TypeOK`, `NeverReadsOld`, `WholeFrameTaken`, `PulsesKept`; `SavedOnlyGrows` (an action property) | whatever bytes were lost on the line, the next frame that is received is taken; pulses are counted once, also around an overrun; whatever is left of the log, also by an erase cut off between two pages, the search finds its latest total or none; totals never go backwards in a run |
| `ring_buffer` | `OutIsNext`, `Contents`, `DropsOnlyWhenFull`; `BytesLeave` | bytes come out once, in order, but for those received during a flush |
| `at_client` | `OwnAnswer`, `InStep`, `FaultNeedsTimeout`; `CommandReturns`, `UrcsHandled` | answers go to their commands; nothing goes out of step, and the parser touches nothing that is gone, before a first timeout; calls return although `wifi_config` starves the parser; URCs reach their functions |
| `template` | `TypeOK`, `NoDanglingAck`, `LeavesForCause`; `RequestsEnd`, `MessagesHandled` | a request ends by its own answer or timeout, and always does; no answer is written into a call that has returned; a message the iterator misses is handled later |
| `kernel` | `ReadyQueueRight`, `PendListsSorted`, `TickListExact`, `OwnerInherits`, `BaseWhenFree`, `ReturnsOwner`, `RunsBest`, `KeepsMutexPromise` | the kernel's lists agree with its tasks, priorities are inherited and given back, wake-up times are kept, and each mutex has the owner its calls say |
| `controls_acked` | `ControlsAcknowledged` (violated) | of two control messages handled before one reply, in one yield or during a synchronous request, only the last is acknowledged; a control that comes with `get_status` is cleared and does not count |
| `flash_saved` | `SavedIsReadBack` (violated) | from the second save on, the total is not stored |
| `meter_count` | `NoEnergyInvented` (violated) | after an overflow of the pulse register each frame with bit 7 set counts a whole register again |
| `timeout_ends_call` | `TimeoutEndsCall` (violated) | the timeout of a synchronous call's request does not reach the call, which waits for ever |

The properties after a semicolon are liveness, but for `SavedOnlyGrows`. The last
four runs state what a comment, a header or the README says and what the code does
otherwise; `PROJECT.json` quotes the lines. The type invariants of `KeyScan`, `FlashSearch`,
`RingBuffer` and `AtClient` are proved instead of run.

Two properties say less than one might expect, because the code does:

* `BaseWhenFree` excuses tasks in `raised`. A task that comes by a mutex while it
  inherits a priority records that one as the mutex's `owner_orig_prio`, and may
  be left with it after it has released everything. And when it releases one
  mutex while a better task waits for another, the priority it should fall back
  to becomes its one `prio_pending`, to be restored with its last mutex: if that
  was an inherited one, it outlives the inheritance. The second case takes four
  tasks; the instance of the run has three, and the attempt to prove the property
  without it showed it.
* `RunsBest` has a second disjunct. A task that posts and is switched away before
  its own `knl_sched` leaves the new owner ready and not chosen until it runs
  again or the next tick comes.

### Bounds

* `SocketControl`: `MaxCountDown = 1`; one message, one key press and one fault
  (which ends or hangs the data task, stops the processor or the meter, or is a
  failing publish or an invalid frame in a loop that goes on) are enough for each
  race, because a race is between one write of the data task
  and one pass of `user_task`, and passes, samples, seconds, frames and load
  changes are unbounded. `controls_acked` has two messages. The theorems hold for
  every bound.
* `KeyScan`: four presses, unbounded scans and reads.
* `FlashSearch`: `Max = 2048`, the real region of 16 KB.
* `FlashLog`: three double words are the first, the last and one between, each in
  a page of its own, so that a failure leaves one or two pages erased; what lies
  past the region is blank or a total. Two boots are one power failure or reset
  inside `save_wh` and a run after it. Frames of three bytes have a first, a last
  and one between; a register of three overflows within `MaxPulses = 3`;
  `MaxWh = 2` is a save that changes the total and one after it; `MaxCount = 3`
  is a register's worth of backlog. The states sent are one of each branch of
  `hlw8032_analyse` (0xF1 goes the way of 0xAA after the first frame, 0xF8 and 0xF4
  that of 0x55).
* `RingBuffer`: four slots and eight bytes: each index goes around twice, with
  flushes and drops between.
* `AtClient`: one command of the data task and two of `wifi_config`: one to go out
  of step and one to suffer from it, with `wifi_config` sleeping after the first
  (`Burst`: 3 of 4 in the code) and resetting the chip after the second; one URC,
  which may be a disconnection.
* `TemplateClient`: room for two requests and one event, four tokens (the two
  synchronous calls, a report, an event), one control message; messages may be
  lost, so none is enough as well. `timeout_ends_call` needs no more than the
  two tokens of its calls.
* `Kernel`: three tasks of three priorities are an owner, a waiter and one to come
  between; two mutexes that two of them nest in either order, `MaxNesting = 2`
  for locking again, waits for ever and for one tick, delays of one tick, one
  task that ends. `FOREVER` is a number no timeout has. Every delay and timeout
  being one tick, the later differences in TLC's tick lists are zero; the theorem
  `TickListRight` has any delays.

Deadlock is checked for `SocketControl`, `KeyScan` and `Kernel` (idle's tick goes
on for ever, so for the kernel this only says that an interrupt is always
handled; tasks that lock each other out, which nested untimed waits allow, are
legal there). The searches end, the bytes, boots, pulses, tokens and commands are
bounded: the runs of `FlashSearch`, `EnergyMeter`, `FlashLog`, `RingBuffer`,
`AtClient` and `TemplateClient` say `CHECK_DEADLOCK FALSE`.

### Fairness

* `user_task` is the highest of the application's tasks and its loop has no
  unbounded wait except for the key, which the user lets go: `WF(UserStep)`. The
  2 s of the sample elapse again and again, while a single pass may be too early:
  `SF(TakeSample)`.
* The data task runs only while `user_task` sleeps, which it does in every pass
  but not continuously: `SF(DataStep)`. It assumes no good answer: a synchronous
  request ends in its answer or in its loss (`SyncLost`, `SyncRefused`), and only
  `MaxFaults` bounds the losses. A hung task handles messages and does no more.
* The second and the meter's frames are interrupts: weak fairness, for the frames
  while the receive interrupt is enabled.
* `KeyScan`: the timer interrupt and the polling loop go on.
* `RingBuffer`: the parser polls the buffer without end and gets its time slices:
  `WF(Parser)`. Nothing is assumed about the bytes.
* `AtClient`: a caller inside `at_obj_exec_cmd` goes on when it has the processor,
  and its timer runs out; data task and parser share theirs by time slices.
  `user_task` executes a bounded number of commands, so weak fairness is enough.
  Nothing is assumed about the module: it may never answer.
* `TemplateClient`: the data task goes on (`CommandReturns` of `AtClient` is why
  its publishes return) and the 10 s of a request pass. Nothing is assumed about
  the cloud: every message may be lost. Events may wait for ever.
* `Kernel` has none: what it should eventually do depends on what its tasks call.

## 4. Proofs

Every theorem holds for all values of the constants that satisfy the ASSUMEs of
its module; there are no others. Type invariants are proved first, and are part
of each inductive invariant.

`SocketControlProofs`, from `BoundsAssumption` and `NoValueAssumption` (the bounds
are natural numbers, "no value" is not a number):

* `TypeCorrect`: `Spec => []TypeOK`.
* `RelaySafe`: `NoCloseOnOvercurrent` and `LockedMeansOpen`. Neither is inductive
  alone: that a locked relay is open needs that `Drive` closes it only when
  unlocked, which is the first, and the first needs the type invariant (`over`
  and the lock are bits) and that no step of the data task happens at `drive`.
  Their conjunction (`RelayInv`) with `TypeOK` is inductive.
* `ImplementsSafeRelay`: the initial state maps to an initial state of
  `SafeRelay` and every step to one of its steps or a stutter, under that
  invariant.
* `CountDownStaysArmed`: `CountDownArmed`. A running count whose flag is down is
  one whose data task stands between the two writes; the invariant survives the
  countdown reaching zero, and even a flip, before the flag is raised.

`FlashSearchProofs`: `SearchCorrect`, for a region of any size: the search returns
the last programmed double word. The invariant is that everything left of the
interval is programmed and everything right of it is blank.

`KeyScanProofs`: `TypeCorrect` and `NoPressCountsTwice`, for any number of presses.
`ClicksFollowPresses` counts clicks against presses. To be inductive it has to
count what is on its way as well: an answer that `user_task` has not taken
(`Announced`) and a press no scan has seen (`Unscanned`). `Pairing`, that a zero
answer means a zero state, is what keeps one press from being announced twice.

`RingBufferProofs`, for a buffer of any size above one: `TypeCorrect`,
`ContentsKept`, `FirstInFirstOut`, `LosesOnlyWhenFull`. `Contents` is the
inductive invariant: the slots between the indices hold the accepted bytes that
have not left, each at its place. The arithmetic of the circle is in
`ForwardSucc`, `ForwardInjective` and `FullTurn`, without division.

`FlashLogProofs`, for frames, registers and logs
of any size:

* `FramesFoundAgain`: `WholeFrameTaken`, for a frame of which every byte is
  received. Its invariant `LinkInv` says that a position inside a frame that began
  with a pause is the number of its bytes; an overrun breaks the frame it falls in,
  and a frame that starts while nobody listens is broken with its first byte.
* `PulsesCountOnce`: `PulsesKept`. It needs `SettledFirst`, that no watt-hour is
  counted before `wh_pf_cnt` is settled, and that a register that has not
  overflowed shows all pulses (`BeforeOverflow`). The byte that an overrun may
  push can at most stand in for a frame's last one, so a frame is still counted at
  most once.
* `NewestTotalRead`: `NeverReadsOld`. The invariant is the shape of the region
  (`LogShape`): blank up to some point, programmed from there to `newest`, blank
  behind it; and while it is erased, how far the erase has come (`EraseShape`).
  That the search on a region of that shape finds `newest`, nothing or the double
  word past it (`ShapeFindsNewest`) rests on lemmas about its loop: a round halves
  the interval (`RoundNarrows`, `RoundKeepsHalves`), enough rounds end it
  (`LoopEnds`), and it ends where a programmed double word has a blank one after it
  (`SearchResult`).
* `SavesGrow`: `SavedOnlyGrows`, an action property. The invariant `GrowInv` orders
  the meter's total, the sample and what was saved, and says that a minute is
  over only when a sample is taken or due.
* `TypeCorrect`: no read hands out an erased double word.

`AtClientProofs`, for any number of commands, `Burst` and unsolicited lines:
`AnswersOwn` (`OwnAnswer`), `StaysInStep` (`InStep`), `FaultsNeedTimeout`, and
`TypeCorrect`. The invariant follows one exchange. `MutexInv` makes the owner of
the lock the only caller inside, so `Where` is where the exchange is. A command
that started clean goes through the stages `Fresh` and `Waiting` (its verdict is
to come or on the wire, at most once, and nobody else's is), `Judged` (in the
parser's hands, with the response object still there), `Cleared`, `Told` and
`Returned` (`ExchangeInv`); how many lines it counts is known while no line was
cut (`Uncut`, `TextOnce`). Without a timeout the end of one exchange is the clean
start of the next (`QuietInv`, `CleanInv`), and `UserInv` says why `user_task` does
not disturb that: its first command cannot end without a timeout.

`TemplateClientProofs`, for lists of any size and any number of messages:
`TypeCorrect`, `NoAckDangles` (`NoDanglingAck`) and `NobodyElseEnds`
(`LeavesForCause`, an action property). `NoDanglingAck` is inductive only together
with `OneCall`, that the listed requests of synchronous calls are all of one call
(a call must not begin before its predecessor's request is gone), and with
`DeliveryInv`, that a message that is being delivered is still at the head of its
list and that what is cleared after a status is the status' own request. What
`Without` leaves of a list is described by lemmas about its members, proved by
induction over the rounds of its loop.

`KernelProofs`, from `ConstantsAssumption` (a finite set of tasks, natural
priorities, delays and timeouts that are not zero), for any number of tasks,
mutexes and priorities: all eight properties of the run. It goes bottom up.

* Lists. `ListOf(list, S)` is a list of the members of `S`, each once. Adding,
  unlinking, inserting by rank and rotating keep it.
* Each C function, as a relation of what it leaves to what it was given, among
  them `tos_task_prio_change` (`PrioChanged`), `pend_task_wakeup` (`Woken`),
  `mutex_old_owner_release` (`Released`) and the loops. `Struct` is what they all
  need and keep: the ready queue, the pend lists and the tick list agree with
  `prio`, `pending_obj` and each other. Within a call the state is not one that
  any invariant of the specification could speak of (a new owner that still waits,
  a task with two priorities), so these are lemmas about the functions, not
  about steps. The loops are handled by induction over their rounds
  (`Induction`, for a property that is a set, and `LoopDefined`).
* The tick list. `TicksFrom(s, left, 1)`: each entry is what its task has left
  beyond its predecessor. Placing and removing keep it, a tick takes one from
  everybody and wakes exactly those at zero.
* The invariant `IInv`. Beside `Struct` and `OwnOK` (the lists of owned mutexes
  agree with the owners) it says who may wait for whom (`Manned`), that the task
  that runs is ready unless it is on its way to `knl_sched` (`Runs`), that a
  pend's answer is settled from the wake-up on (`Answers`, where `ReturnsOwner` is
  about the return), that an owner is as urgent as each waiter was (`Inherits`),
  where an owner's own priority is kept (`Bases`: in `owner_orig_prio` of all its
  mutexes, or in `prio_pending`), and that the best task is chosen or somebody is
  about to choose (`Bests`). TLC checked each conjunct on the run's instance
  before it was proved.
* `QueueRight`, `PendListsRight`, `TickListRight`, `OwnerKeepsBids`, `FallsBack`,
  `AnswersRight` and `BestRuns` follow from `IInv`; `MutexPromiseKept` maps each
  step to one of `SafeMutex` or to a stutter.

What only TLC checks: every liveness property (fairness and ENABLED are beyond
the prover) and the termination of the search. Every safety property that a
passing run checks is a theorem as well.

## 5. What is not modelled

Most of the repository's lines are vendored or generated: STM32 drivers, CMSIS
headers, the kernel's unused components, the SDK's JSON and
string code. The modules cover the product's own code and those parts of the SDK
and the kernel it runs through; the rest would be modelled only to be counted.

* Colours, formatting, logging, the JSON text and topics: no property depends on
  them. The flash controller's and the module's behaviour is modelled as external
  where it matters.
* LED driver: output only. Actions (`data_template_aciton.c`) are compiled out.
  `evtdrv`, `pm`, `osal` and the queues of the kernel are not used here.
* `at_client_wait_connect`, `at_client_obj_recv`, the line parser of responses,
  `IOT_Template_Report_Sync` and `IOT_Post_Event_Raw` have no callers.
  `AT+TCMQTTPUBL`, which sends its payload outside the lock, is left out.
* Kernel: no-wait pends, suspend and resume, delay abort, yield, mutex
  destruction, locking of the scheduler by callers, heap and software timers;
  the length of a time slice is left open (`robin_sched` rotates or does not).
* The SDK's port: `HAL_MutexCreate` searches a table without protection, and
  `HAL_MutexLock` only prints the error of its pend. `HAL_Malloc` calls a heap without a lock (`hal_os.c:157`).
* The pointer updates of `pMsgList`, by the parser and by the data task, are not
  taken apart: `TemplateClient` keeps each whole.
* In the documentation and not in the code, so in no module: the energy total is
  cleared past 10000 kWh (README:48); holding the key for 10 s clears the energy
  total (README:67; the call of `erase_wh` is commented out, `user_task.c:103`, and
  `ReleaseKey` does nothing there).

### Known deviations

The models have these behaviours; the properties are stated so that they hold
with them.

* A synchronous request whose answer is lost hangs the data task
  (`timeout_ends_call`): until the next reset no control is applied, nothing is
  reported and no trip is posted.
* One overrun ends the reception of a UART until the controller restarts. On
  USART3 the energy stops counting and the overcurrent check keeps the last
  current it had, so that `OverloadIsCut` excuses it. On USART2, which has the same handler, the module is no
  longer heard: for `RingBuffer` no more bytes come, and for `AtClient` it is a
  module that never answers, which both models contain.
* A power failure during the erase of a full log loses the total.
* A full log whose next double word, past the region, reads as programmed is never
  erased again, and what `flash_search` finds is no total.
* A control message that names one property applies the whole `sg_ProductData`
  (`data_template_usr_logic.c:163-171`), so a countdown message can undo a key
  press (README:62 and :65 describe the two as independent).
* `IOT_Post_Event` may fail after the flags that ask for it were cleared
  (`data_template_usr_logic.c:305-312`): that trip's alarm (README:49) is lost.
  `TripIsPosted` follows a trip up to the call.
* A short press that is scanned between the two statements of `key_read` is lost,
  although `key.c:72` says that the last key is kept. `PressIsSeen` is about
  presses that last.
* After an overload that is gone, switching on trips again when the sample still
  in `g_power_info` is the overload's (README:63 promises that once is enough).
* A command that is executed while an earlier one's answer may still come is
  outside `OwnAnswer`: the code gives it that answer. `InStep` says that this
  takes a timeout.
* After a reset of the controller alone, `last_pf` is zero and the meter's whole
  register is counted again (`PulsesKept` counts from the start of the controller).
  Watt-hours counted before `hlw8032_init` are overwritten by it. A first frame in
  state 0xAA settles `wh_pf_cnt` from an unusable parameter register.
* Priority inheritance is not transitive: a waiter raises the owner of what it
  waits for, not the owner of what that one waits for. `OwnerInherits` is about
  direct waiters.

## 6. What the plan has left

1. `MqttDispatch`: the flags that callers of the module API poll, and
   `AT+TCMQTTPUBL` outside the lock.
2. The message list pointer by pointer.
3. The kernel's left-out calls, and the message list beside them, in the proofs.
