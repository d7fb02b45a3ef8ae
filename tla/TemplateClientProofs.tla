------------------------- MODULE TemplateClientProofs -------------------------
(***************************************************************************)
(* The data template client keeps its lists apart from the frames of the   *)
(* synchronous calls and ends requests for a cause only, for lists of any  *)
(* size and any number of messages.                                        *)
(***************************************************************************)
EXTENDS TemplateClient, WellFoundedInduction, TLAPS

-----------------------------------------------------------------------------
(* Unlinking nodes from a list.                                            *)

\* A set of natural numbers that is not empty has a least element.
LEMMA Least ==
  ASSUME NEW T \in SUBSET Nat, T # {}
  PROVE  \E x \in T : \A y \in T : x <= y
<1>1. \E x \in T : \A y \in T : ~(<<y, x>> \in OpToRel(<, Nat))
  BY WFMin, NatLessThanWellFounded
<1>2. PICK x \in T : \A y \in T : ~(<<y, x>> \in OpToRel(<, Nat))
  BY <1>1
<1>3. \A y \in T : ~(y < x)
  BY <1>2 DEF OpToRel
<1> QED
  BY <1>3

\* Induction, for a property that is a set.
LEMMA Induction ==
  ASSUME NEW T, 0 \in T, \A n \in Nat : n \in T => n + 1 \in T
  PROVE  Nat \subseteq T
<1> DEFINE Out == Nat \ T
<1> SUFFICES ASSUME Out # {} PROVE FALSE
  OBVIOUS
<1>1. PICK x \in Out : \A y \in Out : x <= y
  <2> Out \in SUBSET Nat
    OBVIOUS
  <2> HIDE DEF Out
  <2> QED
    BY Least
<1>2. x # 0 /\ x - 1 \in Nat /\ x - 1 \notin Out
  BY <1>1
<1> QED
  BY <1>1, <1>2

\* What the loop has kept of the first i nodes.
Keeping(list, gone, f, i) ==
  IF i = 0 THEN <<>>
  ELSE IF list[i] \in gone THEN f[i - 1]
  ELSE Append(f[i - 1], list[i])

\* The loop is well defined.
LEMMA LoopDefined ==
  ASSUME NEW list, NEW gone
  PROVE  \A n \in Nat :
           \E f : f = [i \in 0..n |-> Keeping(list, gone, f, i)]
<1> DEFINE T == {n \in Nat : \E f : f = [i \in 0..n |-> Keeping(list, gone, f, i)]}
<1>1. 0 \in T
  <2> DEFINE f == [i \in 0..0 |-> <<>>]
  <2>1. f = [i \in 0..0 |-> Keeping(list, gone, f, i)]
    BY DEF Keeping
  <2> QED
    BY <2>1
<1>2. ASSUME NEW n \in Nat, n \in T PROVE n + 1 \in T
  <2>1. PICK f : f = [i \in 0..n |-> Keeping(list, gone, f, i)]
    BY <1>2
  <2> DEFINE g == [i \in 0..n + 1 |-> IF i <= n THEN f[i]
                                      ELSE Keeping(list, gone, f, n + 1)]
  <2>2. ASSUME NEW i \in 0..n + 1 PROVE g[i] = Keeping(list, gone, g, i)
    <3>1. CASE i <= n
      <4>1. g[i] = Keeping(list, gone, f, i)
        BY <2>1, <3>1
      <4>2. i # 0 => g[i - 1] = f[i - 1]
        BY <3>1
      <4> QED
        BY <4>1, <4>2 DEF Keeping
    <3>2. CASE i = n + 1
      <4>1. g[i] = Keeping(list, gone, f, i) /\ g[i - 1] = f[i - 1]
        BY <3>2
      <4> QED
        BY <4>1 DEF Keeping
    <3> QED
      BY <3>1, <3>2
  <2>3. g = [i \in 0..n + 1 |-> Keeping(list, gone, g, i)]
    <3>1. g = [i \in 0..n + 1 |-> g[i]]
      OBVIOUS
    <3> HIDE DEF g
    <3> QED
      BY <2>2, <3>1, Zenon
  <2>4. \E h : h = [i \in 0..n + 1 |-> Keeping(list, gone, h, i)]
    <3> HIDE DEF g
    <3> QED
      BY <2>3
  <2> QED
    BY <2>4
<1>3. Nat \subseteq T
  <2> HIDE DEF T
  <2> QED
    BY <1>1, <1>2, Induction
<1> QED
  BY <1>3

\* The nodes of a list that has grown.
LEMMA AppendSet ==
  ASSUME NEW S, NEW list \in Seq(S), NEW e
  PROVE  ToSet(Append(list, e)) = ToSet(list) \cup {e}
<1> DEFINE new == Append(list, e)
           N == Len(list)
<1>1. N \in Nat /\ DOMAIN list = 1..N
  OBVIOUS
<1>2. DOMAIN new = 1..N + 1 /\ new[N + 1] = e
  OBVIOUS
<1>3. \A i \in 1..N : new[i] = list[i]
  OBVIOUS
<1> HIDE DEF new, N
<1>4. ToSet(new) = {new[i] : i \in 1..N + 1} /\ ToSet(list) = {list[i] : i \in 1..N}
  BY <1>1, <1>2 DEF ToSet
<1>5. 1..N + 1 = 1..N \cup {N + 1}
  BY <1>1
<1>6. ToSet(new) = ToSet(list) \cup {e}
  BY <1>2, <1>3, <1>4, <1>5
<1> QED
  BY <1>6 DEF new

\* What is left of a list: the nodes that are not gone, and no more of them.
LEMMA WithoutKeeps ==
  ASSUME NEW S, NEW list \in Seq(S), NEW gone
  PROVE  /\ Without(list, gone) \in Seq(S)
         /\ Len(Without(list, gone)) <= Len(list)
         /\ ToSet(Without(list, gone)) = ToSet(list) \ gone
<1> DEFINE N == Len(list)
           kept == CHOOSE f : f = [i \in 0..N |-> Keeping(list, gone, f, i)]
<1>1. N \in Nat
  OBVIOUS
<1>2. kept = [i \in 0..N |-> Keeping(list, gone, kept, i)]
  BY <1>1, LoopDefined
<1>3. Without(list, gone) = kept[N]
  BY DEF Without, Keeping
<1> HIDE DEF kept
<1>4. kept[0] = <<>>
  BY <1>1, <1>2 DEF Keeping
<1>5. ASSUME NEW i \in 1..N
      PROVE  kept[i] = IF list[i] \in gone THEN kept[i - 1]
                       ELSE Append(kept[i - 1], list[i])
  <2>1. i \in 0..N /\ i # 0
    BY <1>1
  <2>2. kept[i] = Keeping(list, gone, kept, i)
    BY <1>2, <2>1
  <2> QED
    BY <2>1, <2>2 DEF Keeping
<1> DEFINE First(i) == {list[j] : j \in 1..i} \ gone
           Right(i) == /\ kept[i] \in Seq(S) /\ Len(kept[i]) <= i
                       /\ ToSet(kept[i]) = First(i)
           T == {i \in Nat : i <= N => Right(i)}
<1>6. 0 \in T
  <2>1. ToSet(<<>>) = {} /\ First(0) = {}
    BY DEF ToSet
  <2>2. Right(0)
    <3>1. <<>> \in Seq(S) /\ Len(<<>>) = 0
      OBVIOUS
    <3>2. ToSet(kept[0]) = First(0)
      BY <1>4, <2>1, Zenon
    <3> QED
      BY <1>4, <3>1, <3>2
  <2> QED
    BY <2>2
<1>7. ASSUME NEW i \in Nat, i \in T PROVE i + 1 \in T
  <2> SUFFICES ASSUME i + 1 <= N PROVE Right(i + 1)
    OBVIOUS
  <2>1. i + 1 \in 1..N /\ list[i + 1] \in S /\ Right(i)
    BY <1>1, <1>7
  <2>2. First(i + 1) = IF list[i + 1] \in gone THEN First(i)
                       ELSE First(i) \cup {list[i + 1]}
    BY <2>1
  <2> HIDE DEF First
  <2>3. CASE list[i + 1] \in gone
    BY <1>5, <2>1, <2>2, <2>3
  <2>4. CASE list[i + 1] \notin gone
    <3>1. kept[i + 1] = Append(kept[i], list[i + 1])
      <4>1. (i + 1) - 1 = i
        OBVIOUS
      <4> QED
        BY <1>5, <2>1, <2>4, <4>1
    <3>2. ToSet(kept[i + 1]) = ToSet(kept[i]) \cup {list[i + 1]}
      BY <2>1, <3>1, AppendSet
    <3> QED
      BY <2>1, <2>2, <2>4, <3>1, <3>2
  <2> QED
    BY <2>3, <2>4
<1>8. N \in T
  <2> HIDE DEF T
  <2> QED
    BY <1>1, <1>6, <1>7, Induction
<1>9. First(N) = ToSet(list) \ gone
  BY DEF ToSet
<1> QED
  BY <1>1, <1>3, <1>8, <1>9

-----------------------------------------------------------------------------
(* The invariant.                                                          *)

\* A message is being delivered, the iterator has a next one if it says so, and
\* what is cleared is the status that was just delivered.
DeliveryInv ==
  /\ pc \in {"deliver", "clear"} => msgs # <<>>
  /\ more => Len(msgs) > 1
  /\ pc = "clear" => Head(msgs).to = "GET" /\ Head(msgs).token \in Token

\* The requests of synchronous calls.
Waiting == {r \in Listed : r.method \in Sync}

\* They are those of one call: of its token, and none before it is sent.
OneCall ==
  /\ pc = "send" => call \in Sync /\ Waiting = {}
  /\ \A r, q \in Waiting : r.token = q.token
  /\ \A r \in Waiting : /\ r.token \in Token
                        /\ pc = "clear" => r.token = Head(msgs).token

IInv == TypeOK /\ DeliveryInv /\ OneCall /\ NoDanglingAck

Question ==
  [to : {"RINFO", "GET", "REPORT", "CLEAR", "EVENT"}, token : Token]

\* The parts of TypeOK that the requests, the events and the messages take.
ListsOK ==
  /\ reply_list \in Seq(Request) /\ Len(reply_list) <= MaxRequests
  /\ event_list \in Seq(Event) /\ Len(event_list) <= MaxEvents
  /\ asked \subseteq Question
  /\ token_num \in 1..MaxTokens + 1 /\ clientToken \in 0..MaxTokens
  /\ arrived \in BOOLEAN

TaskOK ==
  /\ pc \in Sections \cup Dead /\ call \in Sync \cup {"NONE"}
  /\ ack \in {"NONE", "ACCEPTED", "REJECTED", "TIMEOUT"} /\ more \in BOOLEAN
  /\ msgs \in Seq(Message) /\ controls \in 0..MaxControls

LEMMA TypeParts ==
  /\ TypeOK <=> ListsOK /\ TaskOK
  /\ TypeOK' <=> ListsOK' /\ TaskOK'
BY DEF TypeOK, ListsOK, TaskOK, Question

-----------------------------------------------------------------------------
(* The pieces of the actions.                                              *)

\* What a publish leaves of the cloud's questions.
LEMMA PublishType ==
  ASSUME asked \subseteq Question, NEW q \in Question, NEW sent \in BOOLEAN,
         Publish(q, sent)
  PROVE  asked' \subseteq Question
BY DEF Publish

\* A request is listed at the end, if there is room, or not at all.
LEMMA SendLists ==
  ASSUME ListsOK, NEW method \in Method, NEW token \in 0..MaxTokens,
         method # "REPLY" => token \in Token,
         NEW ok \in BOOLEAN, Send(method, token, ok)
  PROVE  /\ reply_list' \in Seq(Request) /\ Len(reply_list') <= MaxRequests
         /\ asked' \subseteq Question
         /\ Listed \subseteq Listed'
         /\ Listed' \subseteq
              Listed \cup {[method |-> method, token |-> token, due |-> FALSE]}
<1> DEFINE new == [method |-> method, token |-> token, due |-> FALSE]
<1> USE BoundsAssumption DEF ListsOK
<1>1. new \in Request
  BY DEF Request
<1>2. reply_list' = IF ok THEN Append(reply_list, new) ELSE reply_list
  BY DEF Send
<1>3. ok => Len(reply_list) < MaxRequests
  BY DEF Send, Room
<1>4. Listed' = ToSet(reply_list')
  BY DEF Listed
<1>5. /\ reply_list' \in Seq(Request) /\ Len(reply_list') <= MaxRequests
      /\ Listed \subseteq Listed' /\ Listed' \subseteq Listed \cup {new}
  <2> HIDE DEF new
  <2>1. CASE ok
    <3>1. Listed' = Listed \cup {new}
      BY <1>2, <1>4, <2>1, AppendSet DEF Listed
    <3> QED
      BY <1>1, <1>2, <1>3, <2>1, <3>1
  <2>2. CASE ~ok
    BY <1>2, <1>4, <2>2 DEF Listed
  <2> QED
    BY <2>1, <2>2
<1>6. asked' \subseteq Question
  <2>1. CASE method = "REPLY"
    BY <2>1 DEF Send
  <2>2. CASE method # "REPLY"
    <3>1. [to |-> method, token |-> token] \in Question
      BY <2>2 DEF Question, Method, Sync
    <3>2. PICK sent \in BOOLEAN : Publish([to |-> method, token |-> token], sent)
      BY <2>2 DEF Send
    <3> QED
      BY <3>1, <3>2, PublishType
  <2> QED
    BY <2>1, <2>2
<1> QED
  BY <1>5, <1>6

\* The loop goes on to a message there is, or to the requests that are due.
LEMMA NextMessageStep ==
  ASSUME TaskOK, DeliveryInv, pc \in {"deliver", "clear"}, NextMessage
  PROVE  /\ msgs' \in Seq(Message) /\ more' \in BOOLEAN
         /\ pc' \in {"deliver", "expire"}
         /\ DeliveryInv'
<1>1. Len(msgs) > 0 /\ msgs' = Tail(msgs) /\ Len(msgs') = Len(msgs) - 1
  BY DEF NextMessage, DeliveryInv, TaskOK
<1>2. more' \in BOOLEAN /\ (more' => Len(msgs') > 1)
  <2>1. more' = (more /\ Len(msgs) > 2)
    BY DEF NextMessage
  <2>2. more' => Len(msgs) > 2
    BY <2>1
  <2> QED
    BY <1>1, <2>1, <2>2 DEF TaskOK
<1>3. pc' = "deliver" => Len(msgs') > 0
  BY <1>1 DEF NextMessage, TaskOK, DeliveryInv
<1>4. pc' \in {"deliver", "expire"} /\ msgs' \in Seq(Message)
  BY <1>1 DEF NextMessage, TaskOK
<1>5. pc' \in {"deliver", "clear"} => msgs' # <<>>
  <2>1. Len(msgs') > 0 => msgs' # <<>>
    OBVIOUS
  <2> QED
    BY <1>3, <1>4, <2>1
<1> QED
  BY <1>2, <1>4, <1>5 DEF DeliveryInv

\* The message that is delivered.
LEMMA HeadMessage ==
  ASSUME TaskOK, DeliveryInv, pc \in {"deliver", "clear"}
  PROVE  Head(msgs) \in Message
BY DEF TaskOK, DeliveryInv

\* Requests that leave a list for their token or their time.
LEMMA RequestsLeave ==
  ASSUME ListsOK, NEW gone, reply_list' = Without(reply_list, gone)
  PROVE  /\ reply_list' \in Seq(Request) /\ Len(reply_list') <= MaxRequests
         /\ Listed' = Listed \ gone
<1>1. /\ reply_list' \in Seq(Request) /\ Len(reply_list') <= Len(reply_list)
      /\ ToSet(reply_list') = ToSet(reply_list) \ gone
  BY WithoutKeeps DEF ListsOK
<1> QED
  BY <1>1, BoundsAssumption DEF Listed, ListsOK

\* So do events.
LEMMA EventsLeave ==
  ASSUME ListsOK, NEW gone, event_list' = Without(event_list, gone)
  PROVE  /\ event_list' \in Seq(Event) /\ Len(event_list') <= MaxEvents
         /\ ToSet(event_list') = ToSet(event_list) \ gone
<1>1. /\ event_list' \in Seq(Event) /\ Len(event_list') <= Len(event_list)
      /\ ToSet(event_list') = ToSet(event_list) \ gone
  BY WithoutKeeps DEF ListsOK
<1> QED
  BY <1>1, BoundsAssumption DEF ListsOK

-----------------------------------------------------------------------------
(* The steps.                                                              *)

LEMMA InitIInv == Init => IInv
<1> SUFFICES ASSUME Init PROVE IInv
  OBVIOUS
<1> USE BoundsAssumption DEF Init
<1>1. Listed = {}
  BY DEF Listed, ToSet
<1>2. ListsOK
  <2>1. Len(<<>>) = 0 /\ <<>> \in Seq(Request) /\ <<>> \in Seq(Event)
    OBVIOUS
  <2>2. arrived \in BOOLEAN
    BY Zenon
  <2>3. token_num \in 1..MaxTokens + 1 /\ clientToken \in 0..MaxTokens
    OBVIOUS
  <2> QED
    BY <2>1, <2>2, <2>3 DEF ListsOK
<1>3. TaskOK
  <2>1. <<>> \in Seq(Message)
    OBVIOUS
  <2>2. more \in BOOLEAN
    BY Zenon
  <2>3. controls \in 0..MaxControls
    OBVIOUS
  <2> QED
    BY <2>1, <2>2, <2>3 DEF TaskOK, Sections, Sync
<1> QED
  BY <1>1, <1>2, <1>3, TypeParts
     DEF IInv, DeliveryInv, OneCall, NoDanglingAck, Waiting, Sync

\* What disturbs neither the synchronous call nor the message it clears: the
\* requests of such calls that are left have the methods and tokens of old ones.
LEMMA CallUndisturbed ==
  ASSUME IInv, call' = call, ack' = ack,
         \A r \in Waiting' :
           \E q \in Waiting : r.method = q.method /\ r.token = q.token,
         pc' = "send" => pc = "send",
         pc' = "clear" <=> pc = "clear",
         pc = "clear" => Head(msgs') = Head(msgs)
  PROVE  OneCall' /\ NoDanglingAck'
<1>1. pc' = "send" => call' \in Sync /\ Waiting' = {}
  BY DEF IInv, OneCall
<1>2. ASSUME NEW r \in Waiting', NEW q \in Waiting' PROVE r.token = q.token
  BY DEF IInv, OneCall
<1>3. ASSUME NEW r \in Waiting'
      PROVE  r.token \in Token /\ (pc' = "clear" => r.token = Head(msgs').token)
  BY DEF IInv, OneCall
<1>4. OneCall'
  BY <1>1, <1>2, <1>3 DEF OneCall
<1>5. ASSUME NEW r \in Waiting'
      PROVE  call' = r.method /\ (ack' = "NONE" \/ pc' = "clear")
  BY DEF IInv, NoDanglingAck, Waiting
<1>6. NoDanglingAck'
  BY <1>5 DEF NoDanglingAck, Waiting
<1> QED
  BY <1>4, <1>6

\* A step outside _handle_message leaves the messages in hand alone.
LEMMA DeliveryUndisturbed ==
  ASSUME DeliveryInv, pc' \notin {"deliver", "clear"}, UNCHANGED <<more, msgs>>
  PROVE  DeliveryInv'
BY DEF DeliveryInv

\* A request of a synchronous call is listed when it is sent, and none else.
LEMMA SyncSendKeeps == IInv /\ SyncSend => IInv'
<1> SUFFICES ASSUME IInv, SyncSend PROVE IInv'
  OBVIOUS
<1> USE BoundsAssumption
<1>1. ListsOK /\ TaskOK
  BY TypeParts DEF IInv
<1>2. call \in Sync /\ token_num \in Token /\ pc = "send" /\ Waiting = {}
  BY <1>1 DEF SyncSend, NewToken, ListsOK, Token, IInv, OneCall
<1> DEFINE new == [method |-> call, token |-> token_num, due |-> FALSE]
<1>3. PICK ok \in BOOLEAN :
        Send(call, token_num, ok) /\ pc' = IF ok THEN "yield" ELSE "end"
  BY DEF SyncSend
<1>4. call \in Method /\ token_num \in 0..MaxTokens
  BY <1>2 DEF Method, Token
<1>5. /\ reply_list' \in Seq(Request) /\ Len(reply_list') <= MaxRequests
      /\ asked' \subseteq Question /\ Listed' \subseteq Listed \cup {new}
  BY <1>1, <1>2, <1>3, <1>4, SendLists
<1>6. Waiting' \subseteq {new}
  <2> HIDE DEF new
  <2> QED
    BY <1>2, <1>5 DEF Waiting
<1>7. ListsOK'
  BY <1>1, <1>5 DEF ListsOK, SyncSend, NewToken
<1>8. TaskOK'
  BY <1>1, <1>3 DEF TaskOK, SyncSend, Sections, Dead
<1>9. DeliveryInv'
  BY <1>3, DeliveryUndisturbed DEF IInv, SyncSend
<1>10. OneCall' /\ NoDanglingAck'
  <2>1. \A r \in Waiting' : r.token = token_num /\ r.method = call
    BY <1>6
  <2>2. ack' = "NONE" /\ call' = call /\ pc' \notin {"send", "clear"}
    BY <1>3 DEF SyncSend
  <2> QED
    BY <1>2, <2>1, <2>2 DEF OneCall, NoDanglingAck, Waiting
<1> QED
  BY <1>7, <1>8, <1>9, <1>10, TypeParts DEF IInv

\* A call ends when its answer has taken its request off the list.
LEMMA YieldReturnsKeeps == IInv /\ YieldReturns => IInv'
<1> SUFFICES ASSUME IInv, YieldReturns PROVE IInv'
  OBVIOUS
<1>1. ListsOK /\ TaskOK
  BY TypeParts DEF IInv
<1>2. ListsOK' /\ UNCHANGED <<Listed, Waiting, msgs, more, ack>>
  BY <1>1 DEF ListsOK, YieldReturns, lists, Listed, Waiting
<1>3. pc = "check" /\ pc' \in {"yield", "send", "end", "reply", "report"}
  BY DEF YieldReturns
<1>4. call' \in Sync \cup {"NONE"} /\ UNCHANGED controls
  BY <1>1 DEF YieldReturns, TaskOK, Sync
<1>5. TaskOK'
  BY <1>1, <1>2, <1>3, <1>4 DEF TaskOK, Sections, Dead
<1>6. DeliveryInv'
  BY <1>2, <1>3, DeliveryUndisturbed DEF IInv
<1>7. CASE pc' # "send" /\ call' = call
  BY <1>2, <1>3, <1>5, <1>6, <1>7, CallUndisturbed, TypeParts DEF IInv
<1>8. CASE ~(pc' # "send" /\ call' = call)
  <2>1. ack # "NONE" /\ (pc' = "send" => call' \in Sync)
    BY <1>8 DEF YieldReturns, Sync
  <2>2. Waiting = {}
    BY <1>3, <2>1 DEF IInv, NoDanglingAck, Waiting
  <2>3. OneCall' /\ NoDanglingAck'
    BY <1>2, <2>1, <2>2 DEF OneCall, NoDanglingAck, Waiting
  <2> QED
    BY <1>2, <1>5, <1>6, <2>3, TypeParts DEF IInv
<1> QED
  BY <1>7, <1>8

\* The main loop's own requests are of no synchronous call.
LEMMA SayKeeps ==
  IInv /\ (ControlReply \/ Report \/ PostEvent \/ NothingToSay) => IInv'
<1> SUFFICES ASSUME IInv, ControlReply \/ Report \/ PostEvent \/ NothingToSay
             PROVE  IInv'
  OBVIOUS
<1> USE BoundsAssumption
<1>1. ListsOK /\ TaskOK
  BY TypeParts DEF IInv
<1>2. /\ pc \in {"reply", "report", "event"}
      /\ pc' \in {"report", "end", "event", "yield"}
      /\ UNCHANGED <<call, ack, more, msgs, controls>>
  BY DEF ControlReply, Report, PostEvent, NothingToSay
<1>3. TaskOK'
  BY <1>1, <1>2 DEF TaskOK, Sections, Dead
<1>4. DeliveryInv'
  BY <1>2, DeliveryUndisturbed DEF IInv
<1>5. ListsOK' /\ Waiting' \subseteq Waiting
  <2>1. CASE ControlReply
    <3>1. PICK ok \in BOOLEAN : Send("REPLY", clientToken, ok) /\ arrived' = ~ok
      BY <2>1 DEF ControlReply
    <3>2. "REPLY" \in Method /\ "REPLY" \notin Sync /\ clientToken \in 0..MaxTokens
      BY <1>1 DEF Method, Sync, ListsOK
    <3>3. /\ reply_list' \in Seq(Request) /\ Len(reply_list') <= MaxRequests
          /\ asked' \subseteq Question
          /\ Listed' \subseteq Listed \cup {[method |-> "REPLY", token |-> clientToken,
                                           due |-> FALSE]}
      BY <1>1, <3>1, <3>2, SendLists
    <3>4. ListsOK'
      BY <1>1, <2>1, <3>1, <3>3 DEF ListsOK, ControlReply
    <3> QED
      BY <3>2, <3>3, <3>4 DEF Waiting
  <2>2. CASE Report
    <3>1. PICK ok \in BOOLEAN : Send("REPORT", token_num, ok)
      BY <2>2 DEF Report
    <3>2. /\ "REPORT" \in Method /\ "REPORT" \notin Sync
          /\ token_num \in 0..MaxTokens /\ token_num \in Token
      BY <1>1, <2>2 DEF Method, Sync, ListsOK, Report, NewToken, Token
    <3>3. /\ reply_list' \in Seq(Request) /\ Len(reply_list') <= MaxRequests
          /\ asked' \subseteq Question
          /\ Listed' \subseteq Listed \cup {[method |-> "REPORT", token |-> token_num,
                                           due |-> FALSE]}
      BY <1>1, <3>1, <3>2, SendLists
    <3>4. ListsOK'
      BY <1>1, <2>2, <3>3 DEF ListsOK, Report, NewToken
    <3> QED
      BY <3>2, <3>3, <3>4 DEF Waiting
  <2>3. CASE PostEvent
    <3>1. reply_list' = reply_list /\ UNCHANGED <<clientToken, arrived>>
      BY <2>3 DEF PostEvent
    <3>2. Waiting' = Waiting
      BY <3>1 DEF Waiting, Listed
    <3>3. CASE Len(event_list) >= MaxEvents
      BY <1>1, <2>3, <3>1, <3>2, <3>3 DEF PostEvent, ListsOK
    <3>4. CASE Len(event_list) < MaxEvents
      <4> DEFINE new == [token |-> token_num, due |-> FALSE]
      <4>1. /\ event_list' = Append(event_list, new)
            /\ token_num \in Token /\ token_num' = token_num + 1
            /\ \E sent \in BOOLEAN :
                 Publish([to |-> "EVENT", token |-> token_num], sent)
        BY <1>1, <2>3, <3>4 DEF PostEvent, TakeSlot, NewToken, ListsOK, Token
      <4>2. new \in Event /\ [to |-> "EVENT", token |-> token_num] \in Question
        BY <4>1 DEF Event, Question
      <4>3. asked' \subseteq Question
        BY <1>1, <4>1, <4>2, PublishType DEF ListsOK
      <4>4. event_list' \in Seq(Event) /\ Len(event_list') <= MaxEvents
        <5> HIDE DEF new
        <5> QED
          BY <1>1, <3>4, <4>1, <4>2 DEF ListsOK
      <4> QED
        BY <1>1, <3>1, <3>2, <4>1, <4>3, <4>4 DEF ListsOK, Token
    <3> QED
      BY <1>1, <3>3, <3>4 DEF ListsOK
  <2>4. CASE NothingToSay
    BY <1>1, <2>4 DEF NothingToSay, ListsOK, lists, Waiting, Listed
  <2> QED
    BY <2>1, <2>2, <2>3, <2>4
<1>6. OneCall' /\ NoDanglingAck'
  BY <1>2, <1>5, CallUndisturbed
<1> QED
  BY <1>3, <1>4, <1>5, <1>6, TypeParts DEF IInv

\* _handle_message takes up the messages there are.
LEMMA HandleMessagesKeeps == IInv /\ HandleMessages => IInv'
<1> SUFFICES ASSUME IInv, HandleMessages PROVE IInv'
  OBVIOUS
<1>1. ListsOK /\ TaskOK
  BY TypeParts DEF IInv
<1>2. ListsOK' /\ UNCHANGED <<Waiting, call, ack, msgs, controls>>
  BY <1>1 DEF ListsOK, HandleMessages, lists, Waiting, Listed
<1>3. pc = "yield" /\ pc' = IF msgs = <<>> THEN "expire" ELSE "deliver"
  BY DEF HandleMessages
<1>4. more' \in BOOLEAN /\ (more' => Len(msgs) > 1)
  <2>1. more' = (Len(msgs) > 1)
    BY DEF HandleMessages
  <2>2. (Len(msgs) > 1) \in BOOLEAN
    OBVIOUS
  <2>3. more' \in BOOLEAN
    BY <2>1, <2>2, Zenon
  <2> QED
    BY <2>1, <2>3
<1>5. TaskOK'
  BY <1>1, <1>2, <1>3, <1>4 DEF TaskOK, Sections
<1>6. DeliveryInv'
  BY <1>2, <1>3, <1>4 DEF DeliveryInv
<1>7. OneCall' /\ NoDanglingAck'
  BY <1>2, <1>3, CallUndisturbed
<1> QED
  BY <1>2, <1>5, <1>6, <1>7, TypeParts DEF IInv

\* A message that is for no request.
LEMMA DeliverOtherKeeps == IInv /\ (DeliverControl \/ DeliverEvent) => IInv'
<1> SUFFICES ASSUME IInv, DeliverControl \/ DeliverEvent PROVE IInv'
  OBVIOUS
<1>1. ListsOK /\ TaskOK /\ DeliveryInv
  BY TypeParts DEF IInv
<1>2. /\ pc = "deliver" /\ NextMessage
      /\ UNCHANGED <<call, ack, reply_list, token_num, asked, controls>>
  BY DEF DeliverControl, DeliverEvent, Delivers
<1>3. /\ msgs' \in Seq(Message) /\ more' \in BOOLEAN
      /\ pc' \in {"deliver", "expire"} /\ DeliveryInv'
  BY <1>1, <1>2, NextMessageStep
<1>4. TaskOK'
  BY <1>1, <1>2, <1>3 DEF TaskOK, Sections
<1>5. ListsOK'
  <2>1. CASE DeliverControl
    <3>1. /\ arrived' = TRUE /\ clientToken' \in 0..MaxTokens
          /\ UNCHANGED <<reply_list, event_list, asked, token_num>>
      BY <2>1, BoundsAssumption DEF DeliverControl
    <3>2. arrived' \in BOOLEAN
      BY <3>1, Zenon
    <3> QED
      BY <1>1, <3>1, <3>2 DEF ListsOK
  <2>2. CASE DeliverEvent
    <3>1. event_list' \in Seq(Event) /\ Len(event_list') <= MaxEvents
      BY <1>1, <2>2, EventsLeave DEF DeliverEvent, ListsOK
    <3> QED
      BY <1>1, <1>2, <2>2, <3>1 DEF DeliverEvent, ListsOK
  <2> QED
    BY <2>1, <2>2
<1>6. Waiting' = Waiting
  BY <1>2 DEF Waiting, Listed
<1>7. OneCall' /\ NoDanglingAck'
  BY <1>2, <1>3, <1>6, CallUndisturbed
<1> QED
  BY <1>3, <1>4, <1>5, <1>7, TypeParts DEF IInv

\* An answer takes every request with its token off the list, and with it the
\* synchronous call's, or leaves the call to wait.
LEMMA DeliverReplyKeeps == IInv /\ DeliverReply => IInv'
<1> SUFFICES ASSUME IInv, DeliverReply PROVE IInv'
  OBVIOUS
<1>1. ListsOK /\ TaskOK /\ DeliveryInv
  BY TypeParts DEF IInv
<1> DEFINE gone == {r \in Listed : Matches(r)}
<1>2. /\ pc = "deliver" /\ NextMessage /\ reply_list' = Without(reply_list, gone)
      /\ UNCHANGED <<call, event_list, token_num, clientToken, arrived, asked,
                     controls>>
  BY DEF DeliverReply, Unmatched
<1>3. /\ msgs' \in Seq(Message) /\ more' \in BOOLEAN
      /\ pc' \in {"deliver", "expire"} /\ DeliveryInv'
  BY <1>1, <1>2, NextMessageStep
<1>4. /\ reply_list' \in Seq(Request) /\ Len(reply_list') <= MaxRequests
      /\ Listed' = Listed \ gone
  BY <1>1, <1>2, RequestsLeave
<1>5. ListsOK'
  BY <1>1, <1>2, <1>4 DEF ListsOK
<1>6. Head(msgs).code \in Code
  BY <1>1, <1>2, HeadMessage DEF Message
<1>7. TaskOK'
  <2>1. ack' \in {"NONE", "ACCEPTED", "REJECTED", "TIMEOUT"}
    BY <1>1, <1>6 DEF DeliverReply, Code, TaskOK
  <2> QED
    BY <1>1, <1>2, <1>3, <2>1 DEF TaskOK, Sections
<1>8. Waiting' = Waiting \ gone
  BY <1>4 DEF Waiting
<1>9. OneCall' /\ NoDanglingAck'
  <2>1. CASE \E r \in Waiting : Matches(r)
    <3>1. \A r \in Waiting : Matches(r)
      BY <2>1 DEF IInv, OneCall, Matches
    <3>2. Waiting' = {}
      BY <1>8, <3>1 DEF Waiting
    <3> QED
      BY <1>3, <3>2 DEF OneCall, NoDanglingAck, Waiting
  <2>2. CASE ~\E r \in Waiting : Matches(r)
    <3>1. ack' = ack /\ Waiting' \subseteq Waiting
      BY <1>8, <2>2 DEF DeliverReply, Waiting
    <3> QED
      BY <1>2, <1>3, <3>1, CallUndisturbed
  <2> QED
    BY <2>1, <2>2
<1> QED
  BY <1>3, <1>5, <1>7, <1>9, TypeParts DEF IInv

\* The call has its status, and its request is still listed.
LEMMA DeliverStatusKeeps == IInv /\ DeliverStatus => IInv'
<1> SUFFICES ASSUME IInv, DeliverStatus PROVE IInv'
  OBVIOUS
<1>1. ListsOK /\ TaskOK /\ DeliveryInv
  BY TypeParts DEF IInv
<1>2. /\ pc = "deliver" /\ pc' = "clear" /\ ack' = "ACCEPTED"
      /\ Head(msgs).to = "GET"
      /\ UNCHANGED <<call, more, msgs, reply_list, event_list, token_num, asked,
                     controls>>
  BY DEF DeliverStatus, Delivers
<1>3. PICK r \in Waiting : r.token = Head(msgs).token
  BY DEF DeliverStatus, Matches, Waiting, Sync
<1>4. Head(msgs).token \in Token
  BY <1>3 DEF IInv, OneCall
<1>5. ListsOK'
  BY <1>1, <1>2, <1>4 DEF ListsOK, DeliverStatus, Token
<1>6. TaskOK'
  BY <1>1, <1>2 DEF TaskOK, Sections
<1>7. DeliveryInv'
  BY <1>1, <1>2, <1>4 DEF DeliveryInv
<1>8. Waiting' = Waiting /\ Listed' = Listed
  BY <1>2 DEF Waiting, Listed
<1>9. OneCall'
  BY <1>2, <1>3, <1>8 DEF IInv, OneCall
<1>10. NoDanglingAck'
  BY <1>2, <1>8 DEF IInv, NoDanglingAck
<1> QED
  BY <1>5, <1>6, <1>7, <1>9, <1>10, TypeParts DEF IInv

\* The control data are cleared, and the status' request leaves the list.
LEMMA ClearControlKeeps == IInv /\ ClearControl => IInv'
<1> SUFFICES ASSUME IInv, ClearControl PROVE IInv'
  OBVIOUS
<1>1. ListsOK /\ TaskOK /\ DeliveryInv
  BY TypeParts DEF IInv
<1> DEFINE gone == {r \in Listed : Matches(r)}
           token == Head(msgs).token
           clear == [method |-> "CLEAR", token |-> token, due |-> FALSE]
<1>2. /\ pc = "clear" /\ NextMessage
      /\ UNCHANGED <<call, ack, event_list, token_num, clientToken, arrived,
                     controls>>
  BY DEF ClearControl
<1>3. PICK sent \in BOOLEAN :
        /\ Publish([to |-> "CLEAR", token |-> token], sent)
        /\ reply_list' = IF sent /\ Room
                         THEN Append(Without(reply_list, gone), clear)
                         ELSE Without(reply_list, gone)
  BY DEF ClearControl, Unmatched
<1>4. /\ msgs' \in Seq(Message) /\ more' \in BOOLEAN
      /\ pc' \in {"deliver", "expire"} /\ DeliveryInv'
  BY <1>1, <1>2, NextMessageStep
<1>5. token \in Token
  BY <1>1, <1>2 DEF DeliveryInv
<1>6. asked' \subseteq Question
  <2>1. [to |-> "CLEAR", token |-> token] \in Question
    BY <1>5 DEF Question
  <2> QED
    BY <1>1, <1>3, <2>1, PublishType DEF ListsOK
<1>7. /\ Without(reply_list, gone) \in Seq(Request)
      /\ Len(Without(reply_list, gone)) <= Len(reply_list)
      /\ ToSet(Without(reply_list, gone)) = Listed \ gone
  <2> HIDE DEF gone
  <2> QED
    BY <1>1, WithoutKeeps DEF ListsOK, Listed
<1>8. clear \in Request
  BY <1>5 DEF Request, Method, Token
<1>9. /\ reply_list' \in Seq(Request) /\ Len(reply_list') <= MaxRequests
      /\ Listed' \subseteq (Listed \ gone) \cup {clear}
  <2> HIDE DEF gone, clear
  <2> USE BoundsAssumption DEF ListsOK
  <2>1. CASE sent /\ Room
    <3>1. Listed' = (Listed \ gone) \cup {clear}
      BY <1>3, <1>7, <2>1, AppendSet DEF Listed
    <3> QED
      BY <1>1, <1>3, <1>7, <1>8, <2>1, <3>1 DEF Room
  <2>2. CASE ~(sent /\ Room)
    BY <1>1, <1>3, <1>7, <2>2 DEF Listed
  <2> QED
    BY <2>1, <2>2
<1>10. ListsOK'
  BY <1>1, <1>2, <1>6, <1>9 DEF ListsOK
<1>11. TaskOK'
  BY <1>1, <1>2, <1>4 DEF TaskOK, Sections
<1>12. Waiting' = {}
  <2>1. \A r \in Waiting : r \in gone
    BY <1>2 DEF IInv, OneCall, Matches, Waiting
  <2>2. clear.method \notin Sync
    BY DEF Sync
  <2> QED
    BY <1>9, <2>1, <2>2 DEF Waiting
<1>13. OneCall' /\ NoDanglingAck'
  BY <1>4, <1>12 DEF OneCall, NoDanglingAck, Waiting
<1> QED
  BY <1>4, <1>10, <1>11, <1>13, TypeParts DEF IInv

\* What is due leaves its list.
LEMMA ExpireKeeps == IInv /\ (Expire \/ ExpireEvents) => IInv'
<1> SUFFICES ASSUME IInv, Expire \/ ExpireEvents PROVE IInv'
  OBVIOUS
<1>1. ListsOK /\ TaskOK /\ DeliveryInv
  BY TypeParts DEF IInv
<1>2. /\ pc \in {"expire", "events"} /\ pc' \in {"events", "fault", "check"}
      /\ UNCHANGED <<call, ack, more, msgs, token_num, clientToken, arrived,
                     asked, controls>>
  BY DEF Expire, ExpireEvents
<1>3. TaskOK'
  BY <1>1, <1>2 DEF TaskOK, Sections, Dead
<1>4. DeliveryInv'
  BY <1>1, <1>2, DeliveryUndisturbed
<1>5. ListsOK' /\ Waiting' \subseteq Waiting
  <2>1. CASE Expire
    <3>1. /\ reply_list' \in Seq(Request) /\ Len(reply_list') <= MaxRequests
          /\ Listed' \subseteq Listed
      BY <1>1, <2>1, RequestsLeave DEF Expire
    <3> QED
      BY <1>1, <1>2, <2>1, <3>1 DEF Expire, ListsOK, Waiting
  <2>2. CASE ExpireEvents
    <3>1. event_list' \in Seq(Event) /\ Len(event_list') <= MaxEvents
      BY <1>1, <2>2, EventsLeave DEF ExpireEvents
    <3> QED
      BY <1>1, <1>2, <2>2, <3>1 DEF ExpireEvents, ListsOK, Waiting, Listed
  <2> QED
    BY <2>1, <2>2
<1>6. OneCall' /\ NoDanglingAck'
  BY <1>2, <1>5, CallUndisturbed
<1> QED
  BY <1>3, <1>4, <1>5, <1>6, TypeParts DEF IInv

\* A message that arrives goes behind those in hand.
LEMMA ArrivesStep ==
  ASSUME TaskOK, DeliveryInv, pc' = pc, more' = more,
         NEW message \in Message, Arrives(message)
  PROVE  /\ msgs' \in Seq(Message) /\ DeliveryInv'
         /\ msgs # <<>> => Head(msgs') = Head(msgs)
<1>1. /\ msgs' \in Seq(Message) /\ Len(msgs') = Len(msgs) + 1
      /\ msgs # <<>> => Head(msgs') = Head(msgs)
  BY DEF Arrives, TaskOK
<1>2. msgs' # <<>> /\ (Len(msgs) > 1 => Len(msgs') > 1)
  <2>1. Len(msgs) \in Nat /\ Len(<<>>) = 0
    BY DEF TaskOK
  <2> QED
    BY <1>1, <2>1
<1> QED
  BY <1>1, <1>2 DEF DeliveryInv

\* The cloud's messages touch no list but pMsgList.
LEMMA CloudKeeps == IInv /\ (Answer \/ Control) => IInv'
<1> SUFFICES ASSUME IInv, Answer \/ Control PROVE IInv'
  OBVIOUS
<1>1. ListsOK /\ TaskOK /\ DeliveryInv
  BY TypeParts DEF IInv
<1>2. /\ UNCHANGED <<pc, call, ack, more, reply_list, event_list, token_num,
                     clientToken, arrived>>
      /\ asked' \subseteq asked /\ controls' \in 0..MaxControls
  <2>1. CASE Answer
    BY <1>1, <2>1 DEF Answer, task, lists, TaskOK
  <2>2. CASE Control
    BY <1>1, <2>2, BoundsAssumption DEF Control, task, lists, TaskOK
  <2> QED
    BY <2>1, <2>2
<1>3. \E message \in Message : Arrives(message)
  <2>1. CASE Answer
    <3>1. PICK question \in asked, code \in Code, control \in BOOLEAN :
            Arrives([to |-> question.to, token |-> question.token,
                     code |-> code, control |-> control])
      BY <2>1 DEF Answer
    <3>2. question \in Question
      BY <1>1 DEF ListsOK
    <3>3. question.to \in {"RINFO", "GET", "REPORT", "CLEAR", "EVENT"}
          /\ question.token \in 0..MaxTokens
      BY <3>2 DEF Question, Token
    <3>4. [to |-> question.to, token |-> question.token, code |-> code,
           control |-> control] \in Message
      BY <3>3 DEF Message
    <3> QED
      BY <3>1, <3>4
  <2>2. CASE Control
    <3>1. [to |-> "CONTROL", token |-> 0, code |-> "accepted", control |-> TRUE]
            \in Message
      BY BoundsAssumption DEF Message, Code
    <3> QED
      BY <2>2, <3>1 DEF Control
  <2> QED
    BY <2>1, <2>2
<1>4. /\ msgs' \in Seq(Message) /\ DeliveryInv'
      /\ msgs # <<>> => Head(msgs') = Head(msgs)
  BY <1>1, <1>2, <1>3, ArrivesStep
<1>5. ListsOK' /\ TaskOK' /\ Waiting' = Waiting
  BY <1>1, <1>2, <1>4 DEF ListsOK, TaskOK, Waiting, Listed
<1>6. OneCall' /\ NoDanglingAck'
  BY <1>1, <1>2, <1>4, <1>5, CallUndisturbed DEF DeliveryInv
<1> QED
  BY <1>4, <1>5, <1>6, TypeParts DEF IInv

\* A timer's flag rises in its place.
LEMMA RiseRequest ==
  ASSUME ListsOK, Rise(reply_list)
  PROVE  /\ reply_list' \in Seq(Request) /\ Len(reply_list') = Len(reply_list)
         /\ \A r \in Listed' :
              \E q \in Listed : r.method = q.method /\ r.token = q.token
<1>1. PICK i \in DOMAIN reply_list :
        reply_list' = [reply_list EXCEPT ![i].due = TRUE]
  BY DEF Rise
<1> DEFINE new == [reply_list[i] EXCEPT !.due = TRUE]
<1>2. reply_list \in Seq(Request) /\ reply_list[i] \in Request
  BY DEF ListsOK
<1>3. new \in Request /\ new.method = reply_list[i].method
      /\ new.token = reply_list[i].token
  BY <1>2 DEF Request
<1>4. reply_list' = [reply_list EXCEPT ![i] = new]
  BY <1>1
<1> HIDE DEF new
<1>5. reply_list' \in Seq(Request) /\ Len(reply_list') = Len(reply_list)
  BY <1>2, <1>3, <1>4
<1>6. \A j \in DOMAIN reply_list' :
        /\ j \in DOMAIN reply_list
        /\ reply_list'[j] = IF j = i THEN new ELSE reply_list[j]
  BY <1>4
<1>7. \A r \in Listed' :
        \E q \in Listed : r.method = q.method /\ r.token = q.token
  BY <1>3, <1>6 DEF Listed, ToSet
<1> QED
  BY <1>5, <1>7

LEMMA RiseEvent ==
  ASSUME ListsOK, Rise(event_list)
  PROVE  event_list' \in Seq(Event) /\ Len(event_list') = Len(event_list)
<1>1. PICK i \in DOMAIN event_list :
        event_list' = [event_list EXCEPT ![i].due = TRUE]
  BY DEF Rise
<1> DEFINE new == [event_list[i] EXCEPT !.due = TRUE]
<1>2. event_list \in Seq(Event) /\ event_list[i] \in Event
  BY DEF ListsOK
<1>3. new \in Event
  BY <1>2 DEF Event
<1>4. event_list' = [event_list EXCEPT ![i] = new]
  BY <1>1
<1> HIDE DEF new
<1> QED
  BY <1>2, <1>3, <1>4

\* The clock changes no request's method and no token.
LEMMA ClockKeeps == IInv /\ (TimePasses \/ LongTimePasses) => IInv'
<1> SUFFICES ASSUME IInv, TimePasses \/ LongTimePasses PROVE IInv'
  OBVIOUS
<1>1. ListsOK /\ TaskOK /\ DeliveryInv
  BY TypeParts DEF IInv
<1>2. UNCHANGED <<pc, call, ack, more, msgs, token_num, clientToken, arrived,
                  asked, controls>>
  BY DEF TimePasses, LongTimePasses, task
<1>3. TaskOK' /\ DeliveryInv'
  BY <1>1, <1>2 DEF TaskOK, DeliveryInv
<1>4. /\ ListsOK'
      /\ \A r \in Listed' :
           \E q \in Listed : r.method = q.method /\ r.token = q.token
  <2>1. CASE TimePasses
    BY <1>1, <1>2, <2>1, RiseRequest DEF TimePasses, ListsOK
  <2>2. CASE LongTimePasses
    <3>1. event_list' \in Seq(Event) /\ Len(event_list') = Len(event_list)
          /\ reply_list' = reply_list /\ Listed' = Listed
      BY <1>1, <2>2, RiseEvent DEF LongTimePasses, Listed
    <3> QED
      BY <1>1, <1>2, <3>1 DEF ListsOK
  <2> QED
    BY <2>1, <2>2
<1>5. \A r \in Waiting' :
        \E q \in Waiting : r.method = q.method /\ r.token = q.token
  BY <1>4 DEF Waiting
<1>6. OneCall' /\ NoDanglingAck'
  BY <1>2, <1>5, CallUndisturbed
<1> QED
  BY <1>3, <1>4, <1>6, TypeParts DEF IInv

LEMMA StutterKeeps == IInv /\ UNCHANGED vars => IInv'
BY DEF vars, task, lists, IInv, TypeOK, DeliveryInv, OneCall, NoDanglingAck,
       Waiting, Listed, Question

LEMMA AlwaysIInv == FairSpec => []IInv
<1>1. IInv /\ [Next]_vars => IInv'
  BY SyncSendKeeps, YieldReturnsKeeps, SayKeeps, HandleMessagesKeeps,
     DeliverOtherKeeps, DeliverReplyKeeps, DeliverStatusKeeps,
     ClearControlKeeps, ExpireKeeps, CloudKeeps, ClockKeeps, StutterKeeps
     DEF Next, TaskStep
<1> QED
  BY InitIInv, <1>1, PTL DEF FairSpec

-----------------------------------------------------------------------------
(* Theorems.                                                               *)

\* No list of the client overflows, and nothing it holds is out of its type:
\* among others, every token the cloud is asked to answer is the client's.
THEOREM TypeCorrect == FairSpec => []TypeOK
<1>1. IInv => TypeOK
  BY DEF IInv
<1> QED
  BY AlwaysIInv, <1>1, PTL

\* No request outlives the frame of the synchronous call it points into: the
\* answer that ends a call takes its request off the list.
THEOREM NoAckDangles == FairSpec => []NoDanglingAck
<1>1. IInv => NoDanglingAck
  BY DEF IInv
<1> QED
  BY AlwaysIInv, <1>1, PTL

\* The nodes that a step takes off the two lists.
RequestsGone == Listed \ ToSet(reply_list')
EventsGone == ToSet(event_list) \ ToSet(event_list')

LEMMA LeavesStep ==
  ASSUME IInv, Next, ~UNCHANGED <<pc, msgs>>
  PROVE  EndsForCause
<1>1. ListsOK /\ TaskOK /\ DeliveryInv
  BY TypeParts DEF IInv
<1> USE DEF RequestsGone, EventsGone, EndsForCause
<1>2. reply_list' = reply_list => RequestsGone = {}
  BY DEF Listed
<1>3. event_list' = event_list => EventsGone = {}
  OBVIOUS
<1>4. CASE SyncSend \/ ControlReply \/ Report
  <2>1. EventsGone = {}
    BY <1>3, <1>4 DEF SyncSend, ControlReply, Report
  <2>2. PICK method \in Method, token \in 0..MaxTokens, ok \in BOOLEAN :
          Send(method, token, ok) /\ (method # "REPLY" => token \in Token)
    <3>1. CASE SyncSend
      <4>1. call \in Method /\ token_num \in 0..MaxTokens /\ token_num \in Token
        BY <1>1, <3>1
           DEF SyncSend, NewToken, ListsOK, Token, Method, IInv, OneCall
      <4> QED
        BY <3>1, <4>1 DEF SyncSend
    <3>2. CASE ControlReply
      BY <1>1, <3>2 DEF ControlReply, Method, ListsOK
    <3>3. CASE Report
      <4>1. token_num \in 0..MaxTokens /\ token_num \in Token
        BY <1>1, <3>3 DEF Report, NewToken, ListsOK, Token
      <4> QED
        BY <3>3, <4>1 DEF Report, Method
    <3> QED
      BY <1>4, <3>1, <3>2, <3>3
  <2>3. Listed \subseteq Listed'
    BY <1>1, <2>2, SendLists
  <2> QED
    BY <2>1, <2>3 DEF Listed
<1>5. CASE YieldReturns \/ NothingToSay \/ HandleMessages \/ DeliverControl
           \/ DeliverStatus
  <2>1. UNCHANGED <<reply_list, event_list>>
    BY <1>5 DEF YieldReturns, NothingToSay, HandleMessages, DeliverControl,
                DeliverStatus, lists
  <2> QED
    BY <1>2, <1>3, <2>1
<1>6. CASE PostEvent
  <2>1. RequestsGone = {}
    BY <1>2, <1>6 DEF PostEvent
  <2>2. EventsGone = {}
    <3>1. event_list' = event_list \/ \E e : event_list' = Append(event_list, e)
      BY <1>6 DEF PostEvent, TakeSlot
    <3>2. event_list \in Seq(Event)
      BY <1>1 DEF ListsOK
    <3>3. CASE event_list' = event_list
      BY <1>3, <3>3
    <3>4. ASSUME NEW e, event_list' = Append(event_list, e) PROVE EventsGone = {}
      <4>1. ToSet(event_list') = ToSet(event_list) \cup {e}
        BY <3>2, <3>4, AppendSet
      <4> QED
        BY <4>1
    <3> QED
      BY <3>1, <3>3, <3>4
  <2> QED
    BY <2>1, <2>2
<1>7. CASE DeliverEvent
  <2>1. RequestsGone = {}
    BY <1>2, <1>7 DEF DeliverEvent
  <2>2. \A e \in EventsGone : e.token = Head(msgs).token
    <3> DEFINE gone == {e \in ToSet(event_list) : e.token = Head(msgs).token}
    <3>1. CASE event_list' = Without(event_list, gone)
      <4>1. ToSet(event_list') = ToSet(event_list) \ gone
        BY <1>1, <3>1, EventsLeave
      <4> QED
        BY <4>1
    <3> QED
      BY <1>3, <1>7, <3>1 DEF DeliverEvent
  <2> QED
    BY <1>7, <2>1, <2>2 DEF DeliverEvent
<1>8. CASE DeliverReply
  <2> DEFINE gone == {r \in Listed : Matches(r)}
  <2>1. Listed' = Listed \ gone
    BY <1>1, <1>8, RequestsLeave DEF DeliverReply, Unmatched
  <2>2. EventsGone = {}
    BY <1>3, <1>8 DEF DeliverReply
  <2> QED
    BY <1>8, <2>1, <2>2 DEF DeliverReply, Matches, Listed
<1>9. CASE ClearControl
  <2> DEFINE gone == {r \in Listed : Matches(r)}
  <2>1. EventsGone = {}
    BY <1>3, <1>9 DEF ClearControl
  <2>2. Listed \ gone \subseteq ToSet(reply_list')
    <3>1. /\ Without(reply_list, gone) \in Seq(Request)
          /\ ToSet(Without(reply_list, gone)) = Listed \ gone
      <4> HIDE DEF gone
      <4> QED
        BY <1>1, WithoutKeeps DEF ListsOK, Listed
    <3>2. \/ reply_list' = Without(reply_list, gone)
          \/ \E clear : reply_list' = Append(Without(reply_list, gone), clear)
      BY <1>9 DEF ClearControl, Unmatched
    <3> QED
      BY <3>1, <3>2, AppendSet
  <2>3. pc = "clear" /\ Head(msgs).to = "GET"
    BY <1>1, <1>9 DEF ClearControl, DeliveryInv
  <2> QED
    BY <2>1, <2>2, <2>3 DEF Matches
<1>10. CASE Expire
  <2> DEFINE gone == {r \in Listed : r.due}
  <2>1. Listed' = Listed \ gone
    BY <1>1, <1>10, RequestsLeave DEF Expire
  <2>2. EventsGone = {}
    BY <1>3, <1>10 DEF Expire
  <2> QED
    BY <1>10, <2>1, <2>2 DEF Expire, Listed
<1>11. CASE ExpireEvents
  <2> DEFINE gone == {e \in ToSet(event_list) : e.due}
  <2>1. ToSet(event_list') = ToSet(event_list) \ gone
    BY <1>1, <1>11, EventsLeave DEF ExpireEvents
  <2>2. RequestsGone = {}
    BY <1>2, <1>11 DEF ExpireEvents
  <2> QED
    BY <1>11, <2>1, <2>2 DEF ExpireEvents
<1>12. CASE Answer \/ Control
  <2>1. UNCHANGED <<reply_list, event_list>>
    BY <1>12 DEF Answer, Control, lists
  <2> QED
    BY <1>2, <1>3, <2>1
<1>13. ~(TimePasses \/ LongTimePasses)
  BY DEF TimePasses, LongTimePasses, task
<1> QED
  BY <1>4, <1>5, <1>6, <1>7, <1>8, <1>9, <1>10, <1>11, <1>12, <1>13
     DEF Next, TaskStep

\* A request or an event leaves its list for an answer with its own token or
\* for its own time, whatever answers come late, twice or for somebody else.
THEOREM NobodyElseEnds == FairSpec => LeavesForCause
<1>1. IInv /\ [Next]_vars => [UNCHANGED <<pc, msgs>> \/ EndsForCause]_vars
  BY LeavesStep
<1> QED
  BY AlwaysIInv, <1>1, PTL DEF FairSpec, LeavesForCause
=============================================================================
