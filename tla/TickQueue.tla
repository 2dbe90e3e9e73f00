------------------------------ MODULE TickQueue ------------------------------
(***************************************************************************)
(* services/market_feed/service.py: from the SDK's thread to the topic     *)
(* market.ticks.  _on_ticks runs on the SDK's thread and hands every tick  *)
(* to the event loop, where a bounded queue feeds _tick_processor.         *)
(*                                                                         *)
(* Ticks are numbered in the order in which _on_ticks formats them.  A     *)
(* tick is handed over in one of two ways, fixed by the settings: either a *)
(* callback that drops it when the queue is full, or a put with a timeout  *)
(* for which the thread waits, with the same timeout of its own.           *)
(***************************************************************************)
EXTENDS Naturals, Sequences

CONSTANTS
    QueueMax,   \* queue_maxsize
    MaxTicks,   \* bound: well-formed ticks
    MaxBatch    \* bound: ticks of one _on_ticks call

ASSUME TickQueueAssumption ==
    /\ QueueMax \in Nat \ {0}
    /\ MaxTicks \in Nat
    /\ MaxBatch \in Nat

VARIABLES
    blocking,     \* _enqueue_block_timeout_ms is set
    running,      \* _running
    processing,   \* the processor task has not ended
    batch,        \* ticks of the current _on_ticks call still to come
    received,     \* ticks_processed, the number of the latest tick
    thread,       \* the tick the SDK's thread waits for, 0 for none
    scheduled,    \* ticks of enqueue callbacks the loop has not run
    pending,      \* ticks of _put_with_timeout coroutines
    queue,        \* _tick_queue
    current,      \* the tick the processor is sending, 0 for none
    published,    \* market.ticks
    failed,       \* ticks counted by _failed_sends
    dropped,      \* ticks counted by _dropped_ticks
    cancelled     \* history: the tick being sent when the processor was cancelled

thread_vars == <<batch, received, thread>>
handover_vars == <<scheduled, pending>>
processor_vars == <<processing, current, published, failed, cancelled>>
vars == <<blocking, running, thread_vars, handover_vars, queue, dropped, processor_vars>>

Init ==
    /\ blocking \in BOOLEAN
    /\ running = TRUE
    /\ processing = TRUE
    /\ batch = 0
    /\ received = 0
    /\ thread = 0
    /\ scheduled = <<>>
    /\ pending = {}
    /\ queue = <<>>
    /\ current = 0
    /\ published = <<>>
    /\ failed = {}
    /\ dropped = {}
    /\ cancelled = {}

Elements(s) == {s[i] : i \in 1..Len(s)}

-----------------------------------------------------------------------------
(* The SDK's thread.                                                       *)

\* _on_ticks looks at _running once per call.
OnTicks(n) ==
    /\ batch = 0 /\ thread = 0
    /\ running
    /\ received + n <= MaxTicks
    /\ batch' = n
    /\ UNCHANGED <<blocking, running, received, thread, handover_vars, queue, dropped, processor_vars>>

\* Formatting raises: the tick is logged and skipped.
Malformed ==
    /\ batch > 0 /\ thread = 0
    /\ batch' = batch - 1
    /\ UNCHANGED <<blocking, running, received, thread, handover_vars, queue, dropped, processor_vars>>

NextTick ==
    /\ batch > 0 /\ thread = 0
    /\ batch' = batch - 1
    /\ received' = received + 1

\* call_soon_threadsafe(_enqueue_nowait, tick)
EnqueueSoon ==
    /\ ~blocking
    /\ NextTick
    /\ scheduled' = Append(scheduled, received + 1)
    /\ UNCHANGED <<blocking, running, thread, pending, queue, dropped, processor_vars>>

\* Mutant of EnqueueBlocking: the thread does not wait for the future.
EnqueueNotWaiting ==
    /\ blocking
    /\ NextTick
    /\ pending' = pending \cup {received + 1}
    /\ UNCHANGED <<blocking, running, thread, scheduled, queue, dropped, processor_vars>>

\* run_coroutine_threadsafe(_put_with_timeout(tick)), then fut.result(timeout)
EnqueueBlocking ==
    /\ blocking
    /\ NextTick
    /\ pending' = pending \cup {received + 1}
    /\ thread' = received + 1
    /\ UNCHANGED <<blocking, running, scheduled, queue, dropped, processor_vars>>

\* The put has succeeded and its result has arrived.
EnqueueReturns ==
    /\ thread # 0
    /\ thread \notin pending
    /\ thread' = 0
    /\ UNCHANGED <<blocking, running, batch, received, handover_vars, queue, dropped, processor_vars>>

\* fut.result times out, whatever the put is doing; the put is not cancelled.
ResultTimeout ==
    /\ thread # 0
    /\ dropped' = dropped \cup {thread}
    /\ thread' = 0
    /\ UNCHANGED <<blocking, running, batch, received, handover_vars, queue, processor_vars>>

-----------------------------------------------------------------------------
(* The event loop: callbacks and puts.                                     *)

\* Mutant of EnqueueNowait: the queue has no limit.
EnqueueUnlimited ==
    /\ scheduled # <<>>
    /\ scheduled' = Tail(scheduled)
    /\ queue' = Append(queue, Head(scheduled))
    /\ UNCHANGED <<blocking, running, thread_vars, pending, dropped, processor_vars>>

\* Mutant of EnqueueNowait: QueueFull is not counted.
EnqueueUncounted ==
    /\ scheduled # <<>>
    /\ scheduled' = Tail(scheduled)
    /\ queue' = IF Len(queue) < QueueMax THEN Append(queue, Head(scheduled)) ELSE queue
    /\ UNCHANGED <<blocking, running, thread_vars, pending, dropped, processor_vars>>

\* _enqueue_nowait
EnqueueNowait ==
    /\ scheduled # <<>>
    /\ scheduled' = Tail(scheduled)
    /\ IF Len(queue) < QueueMax
       THEN queue' = Append(queue, Head(scheduled)) /\ UNCHANGED dropped
       ELSE dropped' = dropped \cup {Head(scheduled)} /\ UNCHANGED queue
    /\ UNCHANGED <<blocking, running, thread_vars, pending, processor_vars>>

\* Queue.put finds room.  A put that starts while a woken one has not run yet
\* takes the slot first, so any pending put may be the one.
Put(t) ==
    /\ t \in pending
    /\ Len(queue) < QueueMax
    /\ queue' = Append(queue, t)
    /\ pending' = pending \ {t}
    /\ UNCHANGED <<blocking, running, thread_vars, scheduled, dropped, processor_vars>>

\* wait_for cancels the put; the thread gets the exception if it still waits.
PutTimeout(t) ==
    /\ t \in pending
    /\ pending' = pending \ {t}
    /\ IF thread = t
       THEN thread' = 0 /\ dropped' = dropped \cup {t}
       ELSE UNCHANGED <<thread, dropped>>
    /\ UNCHANGED <<blocking, running, batch, received, scheduled, queue, processor_vars>>

-----------------------------------------------------------------------------
(* The event loop: _tick_processor and stop().                             *)

Get ==
    /\ processing
    /\ current = 0
    /\ queue # <<>>
    /\ current' = Head(queue)
    /\ queue' = Tail(queue)
    /\ UNCHANGED <<blocking, running, thread_vars, handover_vars, dropped,
                   processing, published, failed, cancelled>>

\* The gathered send and metrics update return; the latter never raises.
SendReturns ==
    /\ current # 0
    /\ published' = Append(published, current)
    /\ current' = 0
    /\ UNCHANGED <<blocking, running, thread_vars, handover_vars, queue, dropped,
                   processing, failed, cancelled>>

\* Mutant of SendRaises: the exception ends the processor.
SendRaisesFatal ==
    /\ current # 0
    /\ failed' = failed \cup {current}
    /\ current' = 0
    /\ processing' = FALSE
    /\ UNCHANGED <<blocking, running, thread_vars, handover_vars, queue, dropped,
                   published, cancelled>>

\* The send raises, delivered or not; the processor goes on.
SendRaises ==
    /\ current # 0
    /\ failed' = failed \cup {current}
    /\ published' \in {published, Append(published, current)}
    /\ current' = 0
    /\ UNCHANGED <<blocking, running, thread_vars, handover_vars, queue, dropped,
                   processing, cancelled>>

\* stop() begins, or the last reconnection attempt has failed: no further batch.
StopRunning ==
    /\ running
    /\ running' = FALSE
    /\ UNCHANGED <<blocking, thread_vars, handover_vars, queue, dropped, processor_vars>>

\* stop() cancels the processor wherever it waits; what is queued stays queued.
CancelProcessor ==
    /\ ~running
    /\ processing
    /\ processing' = FALSE
    /\ current' = 0
    /\ IF current = 0
       THEN UNCHANGED <<published, cancelled>>
       ELSE /\ cancelled' = cancelled \cup {current}
            /\ published' \in {published, Append(published, current)}
    /\ UNCHANGED <<blocking, running, thread_vars, handover_vars, queue, dropped, failed>>

Stop == StopRunning \/ CancelProcessor

SdkThread ==
    \/ Malformed \/ EnqueueSoon \/ EnqueueBlocking \/ EnqueueReturns \/ ResultTimeout

Handover == EnqueueNowait \/ \E t \in pending : Put(t) \/ PutTimeout(t)

Processor == Get \/ SendReturns \/ SendRaises

Next == (\E n \in 1..MaxBatch : OnTicks(n)) \/ SdkThread \/ Handover \/ Processor \/ Stop

Spec == Init /\ [][Next]_vars

\* Each thread is scheduled and each of its waits ends: the loop runs its
\* callbacks, timers fire, a send returns or raises.  The feed may fall silent,
\* and nobody need call stop().
FairSpec == Spec /\ WF_vars(SdkThread) /\ WF_vars(Handover) /\ WF_vars(Processor)

-----------------------------------------------------------------------------

TickNo == 1..MaxTicks

\* Types, and the bound of the queue that both ways of handing over respect.
TypeOK ==
    /\ blocking \in BOOLEAN
    /\ running \in BOOLEAN
    /\ processing \in BOOLEAN
    /\ batch \in Nat
    /\ received \in Nat /\ received + batch <= MaxTicks
    /\ thread \in TickNo \cup {0}
    /\ scheduled \in Seq(TickNo)
    /\ pending \in SUBSET TickNo
    /\ queue \in Seq(TickNo) /\ Len(queue) <= QueueMax
    /\ current \in TickNo \cup {0}
    /\ published \in Seq(TickNo)
    /\ failed \in SUBSET TickNo
    /\ dropped \in SUBSET TickNo
    /\ cancelled \in SUBSET TickNo

\* Where a tick may be found.
Held == Elements(scheduled) \cup pending \cup Elements(queue) \cup {current}
Settled == Elements(published) \cup failed \cup dropped \cup cancelled

(***************************************************************************)
(* No tick vanishes without a trace: every tick _on_ticks has formatted is *)
(* on its way, published, or counted as dropped or as a failed send (or it *)
(* was being sent when stop() cancelled the processor), over full queues,  *)
(* both timeouts of the blocking hand-over and failing sends.              *)
(***************************************************************************)
TickAccounted == 1..received \subseteq Held \cup Settled

(***************************************************************************)
(* Prices arrive in order: a tick published after a newer one is one that  *)
(* was counted as dropped, whose put outlived the thread's timeout.  Ticks *)
(* that were not given up are published in the order of _on_ticks.         *)
(***************************************************************************)
LateOnlyIfDropped ==
    \A i, j \in 1..Len(published) :
        i < j /\ published[j] < published[i] => published[j] \in dropped

(***************************************************************************)
(* Backpressure never wedges the feed: every tick is eventually published, *)
(* dropped or counted as failed, unless stop() cancels the processor.  It  *)
(* outlives failing sends, and the thread every full queue, also when the  *)
(* feed has given up and no longer runs.                                   *)
(***************************************************************************)
Drains ==
    \A t \in TickNo : (t <= received) ~> (t \in Settled \/ (~running /\ ~processing))

=============================================================================
