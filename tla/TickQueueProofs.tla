--------------------------- MODULE TickQueueProofs ---------------------------
(***************************************************************************)
(* Safety of TickQueue for every queue size and every number of ticks.     *)
(*                                                                         *)
(* The accounting is inductive together with the types.  The order of the  *)
(* published ticks needs more: what is published depends on everything     *)
(* that is still on its way, so InOrder relates each stage (published, the *)
(* tick being sent, the queue, the callbacks) to itself and to each later  *)
(* one, and Waiting says which puts can still append to the queue: the one *)
(* the thread waits for, which is the newest tick, and dropped ones.       *)
(***************************************************************************)
EXTENDS TickQueue, TLAPS

\* b may follow a, when the ticks of D were dropped.
MayFollow(a, b, D) == b < a => b \in D

Ordered(s, D) == \A i, j \in 1..Len(s) : i < j => MayFollow(s[i], s[j], D)

Precedes(A, B, D) == \A a \in A, b \in B : MayFollow(a, b, D)

Sending == {current} \ {0}

Waiting ==
    /\ thread \in {0, received}
    /\ \A t \in pending : t = thread \/ t \in dropped
    /\ blocking => scheduled = <<>>
    /\ ~blocking => pending = {}

UpToReceived ==
    /\ Elements(scheduled) \subseteq 1..received
    /\ pending \subseteq 1..received
    /\ Elements(queue) \subseteq 1..received
    /\ Sending \subseteq 1..received
    /\ Elements(published) \subseteq 1..received

InOrder ==
    /\ Ordered(published, dropped)
    /\ Ordered(queue, dropped)
    /\ Ordered(scheduled, dropped)
    /\ Precedes(Elements(published), Sending, dropped)
    /\ Precedes(Elements(published), Elements(queue), dropped)
    /\ Precedes(Elements(published), Elements(scheduled), dropped)
    /\ Precedes(Sending, Elements(queue), dropped)
    /\ Precedes(Sending, Elements(scheduled), dropped)
    /\ Precedes(Elements(queue), Elements(scheduled), dropped)

-----------------------------------------------------------------------------
(* Sequences.                                                              *)

(***************************************************************************)
(* Appending adds exactly the new element: Queue.put and the callbacks.    *)
(***************************************************************************)
LEMMA AppendElements ==
    ASSUME NEW S, NEW s \in Seq(S), NEW x
    PROVE  /\ Elements(Append(s, x)) = Elements(s) \cup {x}
           /\ Len(Append(s, x)) = Len(s) + 1
<1>1. /\ Len(Append(s, x)) = Len(s) + 1 /\ Len(s) \in Nat
      /\ \A i \in 1..Len(s) : Append(s, x)[i] = s[i]
      /\ Append(s, x)[Len(s) + 1] = x
  OBVIOUS
<1>2. 1..(Len(s) + 1) = 1..Len(s) \cup {Len(s) + 1}
  BY <1>1
<1> QED BY <1>1, <1>2 DEF Elements

(***************************************************************************)
(* The head of a nonempty sequence and the elements of its tail are        *)
(* together its elements: Queue.get and the loop's next callback.          *)
(***************************************************************************)
LEMMA HeadTailElements ==
    ASSUME NEW S, NEW s \in Seq(S), s # <<>>
    PROVE  /\ Head(s) \in S /\ Tail(s) \in Seq(S)
           /\ Len(Tail(s)) = Len(s) - 1
           /\ Elements(s) = {Head(s)} \cup Elements(Tail(s))
<1>1. /\ Len(s) \in Nat /\ Len(s) >= 1 /\ Head(s) = s[1] /\ Head(s) \in S
      /\ Tail(s) \in Seq(S) /\ Len(Tail(s)) = Len(s) - 1
      /\ \A i \in 1..Len(Tail(s)) : Tail(s)[i] = s[i + 1]
  OBVIOUS
<1>2. ASSUME NEW x \in Elements(s) PROVE x \in {Head(s)} \cup Elements(Tail(s))
  <2>1. PICK i \in 1..Len(s) : x = s[i]
    BY DEF Elements
  <2>2. CASE i = 1
    BY <2>1, <2>2, <1>1
  <2>3. CASE i # 1
    <3>1. i - 1 \in 1..Len(Tail(s)) /\ Tail(s)[i - 1] = s[i]
      BY <1>1, <2>3
    <3> QED BY <2>1, <3>1 DEF Elements
  <2> QED BY <2>2, <2>3
<1>3. ASSUME NEW x \in {Head(s)} \cup Elements(Tail(s)) PROVE x \in Elements(s)
  <2>1. CASE x = Head(s)
    BY <2>1, <1>1 DEF Elements
  <2>2. CASE x \in Elements(Tail(s))
    <3>1. PICK i \in 1..Len(Tail(s)) : x = Tail(s)[i]
      BY <2>2 DEF Elements
    <3>2. i + 1 \in 1..Len(s) /\ x = s[i + 1]
      BY <3>1, <1>1
    <3> QED BY <3>2 DEF Elements
  <2> QED BY <2>1, <2>2, <1>3
<1> QED BY <1>1, <1>2, <1>3

(***************************************************************************)
(* A sequence in order stays so when a tick is appended that may follow    *)
(* all of it.                                                              *)
(***************************************************************************)
LEMMA OrderedAppend ==
    ASSUME NEW S, NEW s \in Seq(S), NEW x, NEW D,
           Ordered(s, D), Precedes(Elements(s), {x}, D)
    PROVE  Ordered(Append(s, x), D)
<1>1. /\ Len(Append(s, x)) = Len(s) + 1 /\ Len(s) \in Nat
      /\ \A i \in 1..Len(s) : Append(s, x)[i] = s[i]
      /\ Append(s, x)[Len(s) + 1] = x
  OBVIOUS
<1>2. SUFFICES ASSUME NEW i \in 1..(Len(s) + 1), NEW j \in 1..(Len(s) + 1), i < j
               PROVE  MayFollow(Append(s, x)[i], Append(s, x)[j], D)
  BY <1>1 DEF Ordered
<1>3. i \in 1..Len(s) /\ Append(s, x)[i] = s[i] /\ s[i] \in Elements(s)
  BY <1>1, <1>2 DEF Elements
<1>4. CASE j = Len(s) + 1
  BY <1>1, <1>3, <1>4 DEF Precedes
<1>5. CASE j \in 1..Len(s)
  BY <1>1, <1>2, <1>3, <1>5 DEF Ordered
<1> QED BY <1>1, <1>4, <1>5

(***************************************************************************)
(* Of a sequence in order the tail is in order and the head precedes it.   *)
(***************************************************************************)
LEMMA OrderedTail ==
    ASSUME NEW S, NEW s \in Seq(S), s # <<>>, NEW D, Ordered(s, D)
    PROVE  Ordered(Tail(s), D) /\ Precedes({Head(s)}, Elements(Tail(s)), D)
<1>1. /\ Len(s) \in Nat /\ Len(s) >= 1 /\ Head(s) = s[1]
      /\ Len(Tail(s)) = Len(s) - 1
      /\ \A i \in 1..Len(Tail(s)) : Tail(s)[i] = s[i + 1] /\ i + 1 \in 1..Len(s) /\ 1 < i + 1
  OBVIOUS
<1>2. Ordered(Tail(s), D)
  BY <1>1 DEF Ordered
<1>3. ASSUME NEW b \in Elements(Tail(s)) PROVE MayFollow(Head(s), b, D)
  <2>1. PICK i \in 1..Len(Tail(s)) : b = Tail(s)[i]
    BY DEF Elements
  <2> QED BY <2>1, <1>1 DEF Ordered
<1> QED BY <1>2, <1>3 DEF Precedes

(***************************************************************************)
(* Dropping more ticks disturbs no order.                                  *)
(***************************************************************************)
LEMMA DroppingKeepsOrder ==
    ASSUME NEW D, NEW E, D \subseteq E
    PROVE  /\ \A s : Ordered(s, D) => Ordered(s, E)
           /\ \A A, B : Precedes(A, B, D) => Precedes(A, B, E)
BY DEF Ordered, Precedes, MayFollow

-----------------------------------------------------------------------------
(* Types and accounting.                                                   *)

(***************************************************************************)
(* Every state of the feed is well-typed and its queue within its bound.   *)
(***************************************************************************)
THEOREM QueueTypeCorrect == Spec => []TypeOK
<1>1. Init => TypeOK
  BY TickQueueAssumption DEF Init, TypeOK, TickNo
<1>2. TypeOK /\ [Next]_vars => TypeOK'
  <2> SUFFICES ASSUME TypeOK, [Next]_vars PROVE TypeOK'
    OBVIOUS
  <2> USE TickQueueAssumption DEF TypeOK, TickNo, thread_vars, handover_vars, processor_vars
  <2>0. CASE UNCHANGED vars
    BY <2>0 DEF vars
  <2>1. ASSUME NEW n \in 1..MaxBatch, OnTicks(n) PROVE TypeOK'
    BY <2>1 DEF OnTicks
  <2>2. CASE Malformed
    BY <2>2 DEF Malformed
  <2>3. CASE EnqueueSoon
    BY <2>3 DEF EnqueueSoon, NextTick
  <2>4. CASE EnqueueBlocking
    BY <2>4 DEF EnqueueBlocking, NextTick
  <2>5. CASE EnqueueReturns
    BY <2>5 DEF EnqueueReturns
  <2>6. CASE ResultTimeout
    BY <2>6 DEF ResultTimeout
  <2>7. CASE EnqueueNowait
    <3>1. Head(scheduled) \in TickNo /\ Tail(scheduled) \in Seq(TickNo)
      BY <2>7 DEF EnqueueNowait
    <3>2. /\ queue' \in Seq(TickNo) /\ Len(queue') <= QueueMax
          /\ dropped' \in SUBSET TickNo
      <4>1. CASE Len(queue) < QueueMax
        <5>1. queue' = Append(queue, Head(scheduled)) /\ dropped' = dropped
          BY <2>7, <4>1 DEF EnqueueNowait
        <5>2. Len(Append(queue, Head(scheduled))) = Len(queue) + 1 /\ Len(queue) \in Nat
          BY AppendElements
        <5>3. Append(queue, Head(scheduled)) \in Seq(TickNo)
          BY <3>1
        <5> QED BY <4>1, <5>1, <5>2, <5>3
      <4>2. CASE ~(Len(queue) < QueueMax)
        BY <2>7, <3>1, <4>2 DEF EnqueueNowait
      <4> QED BY <4>1, <4>2
    <3> QED BY <2>7, <3>1, <3>2 DEF EnqueueNowait
  <2>8. ASSUME NEW t \in pending, Put(t) PROVE TypeOK'
    BY <2>8 DEF Put
  <2>9. ASSUME NEW t \in pending, PutTimeout(t) PROVE TypeOK'
    BY <2>9 DEF PutTimeout
  <2>10. CASE Get
    BY <2>10 DEF Get
  <2>11. CASE SendReturns
    BY <2>11 DEF SendReturns
  <2>12. CASE SendRaises
    <3>1. current \in TickNo /\ Append(published, current) \in Seq(TickNo)
      BY <2>12 DEF SendRaises
    <3>2. published' \in Seq(TickNo) /\ failed' \in SUBSET TickNo
      BY <2>12, <3>1 DEF SendRaises
    <3> QED BY <2>12, <3>2 DEF SendRaises
  <2>13. CASE CancelProcessor
    <3>1. published' \in Seq(TickNo) /\ cancelled' \in SUBSET TickNo
      <4>1. CASE current = 0
        BY <2>13, <4>1 DEF CancelProcessor
      <4>2. CASE current # 0
        <5>1. current \in TickNo /\ Append(published, current) \in Seq(TickNo)
          BY <4>2
        <5> QED BY <2>13, <4>2, <5>1 DEF CancelProcessor
      <4> QED BY <4>1, <4>2
    <3> QED BY <2>13, <3>1 DEF CancelProcessor
  <2>14. CASE StopRunning
    BY <2>14 DEF StopRunning
  <2> QED BY <2>0, <2>1, <2>2, <2>3, <2>4, <2>5, <2>6, <2>7, <2>8, <2>9, <2>10, <2>11, <2>12, <2>13, <2>14
          DEF Next, SdkThread, Handover, Processor, Stop
<1> QED BY <1>1, <1>2, PTL DEF Spec

(***************************************************************************)
(* Only the put the thread waits for and puts it has given up are pending. *)
(***************************************************************************)
LEMMA WaitingStep == TypeOK /\ Waiting /\ [Next]_vars => Waiting'
<1> SUFFICES ASSUME TypeOK, Waiting, [Next]_vars PROVE Waiting'
  OBVIOUS
<1> USE DEF Waiting, thread_vars, handover_vars, processor_vars
<1>a. received \in Nat
  BY DEF TypeOK
<1>0. CASE UNCHANGED vars
  BY <1>0 DEF vars
<1>1. ASSUME NEW n \in 1..MaxBatch, OnTicks(n) PROVE Waiting'
  BY <1>1 DEF OnTicks
<1>2. CASE Malformed
  BY <1>2 DEF Malformed
<1>3. CASE EnqueueSoon
  <2>1. ~blocking' /\ pending' = {} /\ thread' = 0
    BY <1>3 DEF EnqueueSoon, NextTick
  <2> QED BY <2>1
<1>4. CASE EnqueueBlocking
  <2>1. blocking' /\ scheduled' = <<>>
    BY <1>4 DEF EnqueueBlocking
  <2>2. thread = 0 /\ thread' = received + 1 /\ received' = received + 1 /\ dropped' = dropped
    BY <1>4 DEF EnqueueBlocking, NextTick
  <2>3. \A t \in pending : t \in TickNo
    BY DEF TypeOK
  <2>4. \A t \in pending : t \in dropped
    BY <2>2, <2>3 DEF TickNo
  <2>5. pending' = pending \cup {received + 1}
    BY <1>4 DEF EnqueueBlocking
  <2> QED BY <2>1, <2>2, <2>4, <2>5
<1>5. CASE EnqueueReturns
  BY <1>5 DEF EnqueueReturns
<1>6. CASE ResultTimeout
  BY <1>6 DEF ResultTimeout
<1>7. CASE EnqueueNowait
  BY <1>7 DEF EnqueueNowait
<1>8. ASSUME NEW t \in pending, Put(t) PROVE Waiting'
  BY <1>8 DEF Put
<1>9. ASSUME NEW t \in pending, PutTimeout(t) PROVE Waiting'
  BY <1>9 DEF PutTimeout
<1>10. CASE Get
  BY <1>10 DEF Get
<1>11. CASE SendReturns
  BY <1>11 DEF SendReturns
<1>12. CASE SendRaises
  BY <1>12 DEF SendRaises
<1>13. CASE CancelProcessor
  BY <1>13 DEF CancelProcessor
<1>14. CASE StopRunning
  BY <1>14 DEF StopRunning
<1> QED BY <1>0, <1>1, <1>2, <1>3, <1>4, <1>5, <1>6, <1>7, <1>8, <1>9, <1>10, <1>11, <1>12, <1>13, <1>14
        DEF Next, SdkThread, Handover, Processor, Stop

(***************************************************************************)
(* What a tick may be part of only grows or moves on: the accounting       *)
(* survives every step.                                                    *)
(***************************************************************************)
LEMMA AccountingStep == TypeOK /\ Waiting /\ TickAccounted /\ [Next]_vars => TickAccounted'
<1> SUFFICES ASSUME TypeOK, Waiting, TickAccounted, [Next]_vars PROVE TickAccounted'
  OBVIOUS
<1> USE DEF TickAccounted, Held, Settled, thread_vars, handover_vars, processor_vars
<1>a. /\ scheduled \in Seq(TickNo) /\ queue \in Seq(TickNo) /\ published \in Seq(TickNo)
      /\ received \in Nat
  BY DEF TypeOK
<1>b. 1..(received + 1) = 1..received \cup {received + 1}
  BY <1>a
<1>c. Elements(Append(published, current)) = Elements(published) \cup {current}
  BY <1>a, AppendElements
<1>0. CASE UNCHANGED vars
  BY <1>0 DEF vars
<1>1. ASSUME NEW n \in 1..MaxBatch, OnTicks(n) PROVE TickAccounted'
  BY <1>1 DEF OnTicks
<1>2. CASE Malformed
  BY <1>2 DEF Malformed
<1>3. CASE EnqueueSoon
  <2>1. Elements(scheduled') = Elements(scheduled) \cup {received + 1}
    BY <1>3, <1>a, AppendElements DEF EnqueueSoon
  <2>2. received' = received + 1
    BY <1>3 DEF EnqueueSoon, NextTick
  <2> QED BY <1>3, <1>b, <2>1, <2>2 DEF EnqueueSoon
<1>4. CASE EnqueueBlocking
  BY <1>4, <1>b DEF EnqueueBlocking, NextTick
<1>5. CASE EnqueueReturns
  BY <1>5 DEF EnqueueReturns
<1>6. CASE ResultTimeout
  BY <1>6 DEF ResultTimeout
<1>7. CASE EnqueueNowait
  <2>1. Elements(scheduled) = {Head(scheduled)} \cup Elements(scheduled')
    BY <1>7, <1>a, HeadTailElements DEF EnqueueNowait
  <2>2. CASE Len(queue) < QueueMax
    <3>1. Elements(queue') = Elements(queue) \cup {Head(scheduled)}
      BY <1>7, <1>a, <2>2, AppendElements DEF EnqueueNowait
    <3> QED BY <1>7, <2>1, <2>2, <3>1 DEF EnqueueNowait
  <2>3. CASE ~(Len(queue) < QueueMax)
    BY <1>7, <2>1, <2>3 DEF EnqueueNowait
  <2> QED BY <2>2, <2>3
<1>8. ASSUME NEW t \in pending, Put(t) PROVE TickAccounted'
  <2>1. Elements(queue') = Elements(queue) \cup {t}
    BY <1>8, <1>a, AppendElements DEF Put
  <2> QED BY <1>8, <2>1 DEF Put
<1>9. ASSUME NEW t \in pending, PutTimeout(t) PROVE TickAccounted'
  <2>1. t \in dropped'
    BY <1>9 DEF PutTimeout, Waiting
  <2>2. dropped \subseteq dropped'
    BY <1>9 DEF PutTimeout
  <2> QED BY <1>9, <2>1, <2>2 DEF PutTimeout
<1>10. CASE Get
  <2>1. Elements(queue) = {current'} \cup Elements(queue')
    BY <1>10, <1>a, HeadTailElements DEF Get
  <2>2. 0 \notin 1..received
    BY <1>a
  <2> QED BY <1>10, <2>1, <2>2 DEF Get
<1>11. CASE SendReturns
  BY <1>11, <1>c DEF SendReturns
<1>12. CASE SendRaises
  <2>1. Elements(published) \subseteq Elements(published')
    BY <1>12, <1>c DEF SendRaises
  <2> QED BY <1>12, <2>1 DEF SendRaises
<1>13. CASE CancelProcessor
  <2>1. Elements(published) \subseteq Elements(published')
    BY <1>13, <1>c DEF CancelProcessor
  <2>2. cancelled' = cancelled \cup {current} \/ (current = 0 /\ cancelled' = cancelled)
    BY <1>13 DEF CancelProcessor
  <2>3. 0 \notin 1..received
    BY <1>a
  <2> QED BY <1>13, <2>1, <2>2, <2>3 DEF CancelProcessor
<1>14. CASE StopRunning
  BY <1>14 DEF StopRunning
<1> QED BY <1>0, <1>1, <1>2, <1>3, <1>4, <1>5, <1>6, <1>7, <1>8, <1>9, <1>10, <1>11, <1>12, <1>13, <1>14
        DEF Next, SdkThread, Handover, Processor, Stop


(***************************************************************************)
(* No tick vanishes without a trace, for every queue size and feed length. *)
(***************************************************************************)
THEOREM NoTickVanishes == Spec => []TickAccounted
<1>1. Init => Waiting /\ TickAccounted
  BY DEF Init, Waiting, TickAccounted
<1>2. TypeOK /\ Waiting /\ TickAccounted /\ [Next]_vars => Waiting' /\ TickAccounted'
  BY WaitingStep, AccountingStep
<1> QED BY <1>1, <1>2, QueueTypeCorrect, PTL DEF Spec

-----------------------------------------------------------------------------
(* Order.                                                                  *)

(***************************************************************************)
(* Nothing on its way is newer than the newest tick.                       *)
(***************************************************************************)
LEMMA UpToReceivedStep == TypeOK /\ UpToReceived /\ [Next]_vars => UpToReceived'
<1> SUFFICES ASSUME TypeOK, UpToReceived, [Next]_vars PROVE UpToReceived'
  OBVIOUS
<1> USE DEF UpToReceived, Sending, thread_vars, handover_vars, processor_vars
<1>a. /\ scheduled \in Seq(TickNo) /\ queue \in Seq(TickNo) /\ published \in Seq(TickNo)
      /\ received \in Nat /\ current \in Nat
  BY TickQueueAssumption DEF TypeOK, TickNo
<1>b. 1..(received + 1) = 1..received \cup {received + 1}
  BY <1>a
<1>c. current # 0 => Elements(Append(published, current)) \subseteq 1..received
  BY <1>a, AppendElements
<1>0. CASE UNCHANGED vars
  BY <1>0 DEF vars
<1>1. ASSUME NEW n \in 1..MaxBatch, OnTicks(n) PROVE UpToReceived'
  BY <1>1 DEF OnTicks
<1>2. CASE Malformed
  BY <1>2 DEF Malformed
<1>3. CASE EnqueueSoon
  <2>1. Elements(scheduled') = Elements(scheduled) \cup {received + 1}
    BY <1>3, <1>a, AppendElements DEF EnqueueSoon
  <2>2. received' = received + 1
    BY <1>3 DEF EnqueueSoon, NextTick
  <2> QED BY <1>3, <1>b, <2>1, <2>2 DEF EnqueueSoon
<1>4. CASE EnqueueBlocking
  BY <1>4, <1>b DEF EnqueueBlocking, NextTick
<1>5. CASE EnqueueReturns
  BY <1>5 DEF EnqueueReturns
<1>6. CASE ResultTimeout
  BY <1>6 DEF ResultTimeout
<1>7. CASE EnqueueNowait
  <2>1. Elements(scheduled) = {Head(scheduled)} \cup Elements(scheduled')
    BY <1>7, <1>a, HeadTailElements DEF EnqueueNowait
  <2>2. Elements(queue') \subseteq Elements(queue) \cup {Head(scheduled)}
    BY <1>7, <1>a, AppendElements DEF EnqueueNowait
  <2> QED BY <1>7, <2>1, <2>2 DEF EnqueueNowait
<1>8. ASSUME NEW t \in pending, Put(t) PROVE UpToReceived'
  <2>1. Elements(queue') = Elements(queue) \cup {t}
    BY <1>8, <1>a, AppendElements DEF Put
  <2> QED BY <1>8, <2>1 DEF Put
<1>9. ASSUME NEW t \in pending, PutTimeout(t) PROVE UpToReceived'
  BY <1>9 DEF PutTimeout
<1>10. CASE Get
  <2>1. Elements(queue) = {current'} \cup Elements(queue')
    BY <1>10, <1>a, HeadTailElements DEF Get
  <2> QED BY <1>10, <2>1 DEF Get
<1>11. CASE SendReturns
  BY <1>11, <1>c DEF SendReturns
<1>12. CASE SendRaises
  <2>1. Elements(published') \subseteq 1..received
    BY <1>12, <1>c DEF SendRaises
  <2> QED BY <1>12, <2>1 DEF SendRaises
<1>13. CASE CancelProcessor
  <2>1. Elements(published') \subseteq 1..received
    BY <1>13, <1>c DEF CancelProcessor
  <2> QED BY <1>13, <2>1 DEF CancelProcessor
<1>14. CASE StopRunning
  BY <1>14 DEF StopRunning
<1> QED BY <1>0, <1>1, <1>2, <1>3, <1>4, <1>5, <1>6, <1>7, <1>8, <1>9, <1>10, <1>11, <1>12, <1>13, <1>14
        DEF Next, SdkThread, Handover, Processor, Stop

(***************************************************************************)
(* Publishing the tick that is being sent keeps the published ticks in     *)
(* order, and before everything behind it.                                 *)
(***************************************************************************)
LEMMA PublishCurrent ==
    ASSUME TypeOK, InOrder, current # 0
    PROVE  LET p == Append(published, current) IN
           /\ Ordered(p, dropped)
           /\ Precedes(Elements(p), Elements(queue), dropped)
           /\ Precedes(Elements(p), Elements(scheduled), dropped)
<1> DEFINE p == Append(published, current)
<1>1. published \in Seq(TickNo) /\ Sending = {current}
  BY DEF TypeOK, Sending
<1>2. Elements(p) = Elements(published) \cup {current}
  BY <1>1, AppendElements
<1>3. Ordered(p, dropped)
  <2>1. Ordered(published, dropped) /\ Precedes(Elements(published), {current}, dropped)
    BY <1>1 DEF InOrder
  <2> QED BY <1>1, <2>1, OrderedAppend
<1>4. Precedes(Elements(p), Elements(queue), dropped)
  BY <1>1, <1>2 DEF InOrder, Precedes
<1>5. Precedes(Elements(p), Elements(scheduled), dropped)
  BY <1>1, <1>2 DEF InOrder, Precedes
<1> QED BY <1>3, <1>4, <1>5

(***************************************************************************)
(* Nothing precedes or follows an idle processor's tick.                   *)
(***************************************************************************)
LEMMA NothingSending ==
    ASSUME NEW A, NEW D
    PROVE  Precedes(A, {}, D) /\ Precedes({}, A, D)
BY DEF Precedes

(***************************************************************************)
(* The stages stay in order.                                               *)
(***************************************************************************)
LEMMA InOrderStep ==
    TypeOK /\ Waiting /\ UpToReceived /\ InOrder /\ [Next]_vars => InOrder'
<1> SUFFICES ASSUME TypeOK, Waiting, UpToReceived, InOrder, [Next]_vars PROVE InOrder'
  OBVIOUS
<1> USE DEF thread_vars, handover_vars, processor_vars
<1>a. /\ scheduled \in Seq(TickNo) /\ queue \in Seq(TickNo) /\ published \in Seq(TickNo)
      /\ received \in Nat /\ current \in Nat
  BY TickQueueAssumption DEF TypeOK, TickNo
<1>s. ASSUME UNCHANGED <<published, current, queue, scheduled>>, dropped \subseteq dropped'
      PROVE  InOrder'
  BY <1>s, DroppingKeepsOrder DEF InOrder, Sending
<1>p. ASSUME UNCHANGED <<queue, scheduled, dropped>>, current' = 0,
             current # 0, published' = Append(published, current)
      PROVE  InOrder'
  <2>1. Sending' = {}
    BY <1>p DEF Sending
  <2> QED BY <1>p, <2>1, PublishCurrent, NothingSending DEF InOrder
<1>q. ASSUME UNCHANGED <<queue, scheduled, dropped, published>>, current' = 0
      PROVE  InOrder'
  <2>1. Sending' = {}
    BY <1>q DEF Sending
  <2> QED BY <1>q, <2>1, NothingSending DEF InOrder
<1>0. CASE UNCHANGED vars
  BY <1>0, <1>s DEF vars
<1>1. ASSUME NEW n \in 1..MaxBatch, OnTicks(n) PROVE InOrder'
  BY <1>1, <1>s DEF OnTicks
<1>2. CASE Malformed
  BY <1>2, <1>s DEF Malformed
<1>3. CASE EnqueueSoon
  <2>1. /\ scheduled' = Append(scheduled, received + 1)
        /\ UNCHANGED <<published, current, queue, dropped>>
    BY <1>3 DEF EnqueueSoon
  <2>2. Elements(scheduled') = Elements(scheduled) \cup {received + 1}
    BY <1>a, <2>1, AppendElements
  <2>3. ASSUME NEW A, A \subseteq 1..received PROVE Precedes(A, {received + 1}, dropped)
    BY <1>a, <2>3 DEF Precedes, MayFollow
  <2>4. Ordered(scheduled', dropped')
    BY <1>a, <2>1, <2>3, OrderedAppend DEF InOrder, UpToReceived
  <2>5. ASSUME NEW A, A \subseteq 1..received, Precedes(A, Elements(scheduled), dropped)
        PROVE  Precedes(A, Elements(scheduled'), dropped')
    BY <2>1, <2>2, <2>3, <2>5 DEF Precedes
  <2>6. /\ Precedes(Elements(published), Elements(scheduled'), dropped')
        /\ Precedes(Sending, Elements(scheduled'), dropped')
        /\ Precedes(Elements(queue), Elements(scheduled'), dropped')
    BY <2>5 DEF UpToReceived, InOrder
  <2> QED BY <2>1, <2>4, <2>6 DEF InOrder, Sending
<1>4. CASE EnqueueBlocking
  BY <1>4, <1>s DEF EnqueueBlocking
<1>5. CASE EnqueueReturns
  BY <1>5, <1>s DEF EnqueueReturns
<1>6. CASE ResultTimeout
  BY <1>6, <1>s DEF ResultTimeout
<1>7. CASE EnqueueNowait
  <2> DEFINE h == Head(scheduled)
  <2>1. /\ scheduled # <<>> /\ scheduled' = Tail(scheduled)
        /\ UNCHANGED <<published, current>>
    BY <1>7 DEF EnqueueNowait
  <2>2. Elements(scheduled) = {h} \cup Elements(scheduled')
    BY <1>a, <2>1, HeadTailElements
  <2>3. Ordered(scheduled', dropped) /\ Precedes({h}, Elements(scheduled'), dropped)
    BY <1>a, <2>1, OrderedTail DEF InOrder
  <2>4. /\ Precedes(Elements(published), Elements(scheduled'), dropped)
        /\ Precedes(Sending, Elements(scheduled'), dropped)
        /\ Precedes(Elements(queue), Elements(scheduled'), dropped)
        /\ Precedes(Elements(published), {h}, dropped)
        /\ Precedes(Sending, {h}, dropped)
        /\ Precedes(Elements(queue), {h}, dropped)
    BY <2>2 DEF InOrder, Precedes
  <2>5. CASE Len(queue) < QueueMax
    <3>1. queue' = Append(queue, h) /\ dropped' = dropped
      BY <1>7, <2>5 DEF EnqueueNowait
    <3>2. Elements(queue') = Elements(queue) \cup {h}
      BY <1>a, <3>1, AppendElements
    <3>3. Ordered(queue', dropped)
      BY <1>a, <2>4, <3>1, OrderedAppend DEF InOrder
    <3>4. /\ Precedes(Elements(published), Elements(queue'), dropped)
          /\ Precedes(Sending, Elements(queue'), dropped)
          /\ Precedes(Elements(queue'), Elements(scheduled'), dropped)
      BY <2>3, <2>4, <3>2 DEF InOrder, Precedes
    <3> QED BY <2>1, <2>3, <2>4, <3>1, <3>3, <3>4 DEF InOrder, Sending
  <2>6. CASE ~(Len(queue) < QueueMax)
    <3>1. queue' = queue /\ dropped \subseteq dropped'
      BY <1>7, <2>6 DEF EnqueueNowait
    <3> QED BY <2>1, <2>3, <2>4, <3>1, DroppingKeepsOrder DEF InOrder, Sending
  <2> QED BY <2>5, <2>6
<1>8. ASSUME NEW t \in pending, Put(t) PROVE InOrder'
  <2>1. queue' = Append(queue, t) /\ UNCHANGED <<published, current, scheduled, dropped>>
    BY <1>8 DEF Put
  <2>2. Elements(queue') = Elements(queue) \cup {t}
    BY <1>a, <2>1, AppendElements
  <2>3. t \in dropped \/ t = received
    BY <1>a DEF Waiting, UpToReceived
  <2>4. ASSUME NEW A, A \subseteq 1..received PROVE Precedes(A, {t}, dropped)
    BY <1>a, <2>3, <2>4 DEF Precedes, MayFollow
  <2>5. scheduled = <<>>
    BY DEF Waiting
  <2>6. Elements(scheduled) = {}
    BY <2>5 DEF Elements
  <2>7. Ordered(queue', dropped)
    BY <1>a, <2>1, <2>4, OrderedAppend DEF InOrder, UpToReceived
  <2>8. Precedes(Elements(published), Elements(queue'), dropped)
    BY <2>2, <2>4 DEF InOrder, UpToReceived, Precedes
  <2>9. Precedes(Sending, Elements(queue'), dropped)
    BY <2>2, <2>4 DEF InOrder, UpToReceived, Precedes
  <2> QED BY <2>1, <2>6, <2>7, <2>8, <2>9, NothingSending DEF InOrder, Sending
<1>9. ASSUME NEW t \in pending, PutTimeout(t) PROVE InOrder'
  BY <1>9, <1>s DEF PutTimeout
<1>10. CASE Get
  <2>1. /\ queue # <<>> /\ current' = Head(queue) /\ queue' = Tail(queue)
        /\ UNCHANGED <<published, scheduled, dropped>>
    BY <1>10 DEF Get
  <2>2. Elements(queue) = {current'} \cup Elements(queue') /\ current' \in TickNo
    BY <1>a, <2>1, HeadTailElements
  <2>3. Sending' = {current'}
    BY <2>2 DEF Sending, TickNo
  <2>4. Ordered(queue', dropped) /\ Precedes({current'}, Elements(queue'), dropped)
    BY <1>a, <2>1, OrderedTail DEF InOrder
  <2>5. /\ Precedes(Elements(published), {current'}, dropped)
        /\ Precedes(Elements(published), Elements(queue'), dropped)
        /\ Precedes({current'}, Elements(scheduled), dropped)
        /\ Precedes(Elements(queue'), Elements(scheduled), dropped)
    BY <2>2 DEF InOrder, Precedes
  <2> QED BY <2>1, <2>3, <2>4, <2>5 DEF InOrder
<1>11. CASE SendReturns
  BY <1>11, <1>p DEF SendReturns
<1>12. CASE SendRaises
  <2>1. CASE published' = published
    BY <1>12, <1>q, <2>1 DEF SendRaises
  <2>2. CASE published' = Append(published, current)
    BY <1>12, <1>p, <2>2 DEF SendRaises
  <2> QED BY <1>12, <2>1, <2>2 DEF SendRaises
<1>13. CASE CancelProcessor
  <2>1. CASE published' = published
    BY <1>13, <1>q, <2>1 DEF CancelProcessor
  <2>2. CASE current # 0 /\ published' = Append(published, current)
    BY <1>13, <1>p, <2>2 DEF CancelProcessor
  <2> QED BY <1>13, <2>1, <2>2 DEF CancelProcessor
<1>14. CASE StopRunning
  BY <1>14, <1>s DEF StopRunning
<1> QED BY <1>0, <1>1, <1>2, <1>3, <1>4, <1>5, <1>6, <1>7, <1>8, <1>9, <1>10, <1>11, <1>12, <1>13, <1>14
        DEF Next, SdkThread, Handover, Processor, Stop

(***************************************************************************)
(* A tick published after a newer one was counted as dropped, whatever the *)
(* size of the queue and the number of ticks.                              *)
(***************************************************************************)
THEOREM LateTicksWereDropped == Spec => []LateOnlyIfDropped
<1>1. Init => Waiting /\ UpToReceived /\ InOrder
  <2> SUFFICES ASSUME Init PROVE Waiting /\ UpToReceived /\ InOrder
    OBVIOUS
  <2>1. /\ Elements(published) = {} /\ Elements(queue) = {} /\ Elements(scheduled) = {}
        /\ Sending = {} /\ pending = {} /\ scheduled = <<>> /\ thread = 0
    BY DEF Init, Elements, Sending
  <2>2. Ordered(<<>>, dropped)
    BY DEF Ordered
  <2>3. InOrder
    BY <2>1, <2>2, NothingSending DEF InOrder, Init
  <2>4. UpToReceived /\ Waiting
    BY <2>1 DEF UpToReceived, Waiting
  <2> QED BY <2>3, <2>4
<1>2. TypeOK /\ Waiting /\ UpToReceived /\ InOrder /\ [Next]_vars
        => Waiting' /\ UpToReceived' /\ InOrder'
  BY WaitingStep, UpToReceivedStep, InOrderStep
<1>3. TypeOK /\ InOrder => LateOnlyIfDropped
  <2> SUFFICES ASSUME TypeOK, InOrder PROVE LateOnlyIfDropped
    OBVIOUS
  <2>1. Len(published) \in Nat
    BY DEF TypeOK
  <2> QED BY <2>1 DEF InOrder, Ordered, MayFollow, LateOnlyIfDropped
<1> QED BY <1>1, <1>2, <1>3, QueueTypeCorrect, PTL DEF Spec

=============================================================================
