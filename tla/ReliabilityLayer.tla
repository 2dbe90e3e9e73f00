-------------------------- MODULE ReliabilityLayer --------------------------
(***************************************************************************)
(* One consumption loop of a streaming service: ServiceOrchestrator's      *)
(* _consumption_loop drives ReliabilityLayer.process_message, which calls  *)
(* the DeduplicationManager, the business handler, MessageConsumer.commit  *)
(* and, when anything raises, ErrorHandler with its retry and its DLQ.     *)
(*                                                                         *)
(* The loop handles one message at a time, so its control state is a       *)
(* program counter pc that names the await the loop is suspended at.  At   *)
(* each await the process may crash, the orchestrator may cancel the task, *)
(* the group may rebalance, Redis keys may expire and messages may arrive. *)
(*                                                                         *)
(* One partition; message number o (from 1) has broker offset o - 1, and   *)
(* committed and position are the broker's next-offset-to-read values.     *)
(* Every service of the repository builds its loops with deduplication and *)
(* error handling configured, and that configuration is the one modelled.  *)
(***************************************************************************)
EXTENDS DeduplicationManager, Sequences

CONSTANTS
    NoKey,           \* an envelope without an id: deduplication does not apply
    NoError,         \* no exception is being handled
    HandlerErrors,   \* exceptions the business handler may raise
    ClientErrors,    \* exceptions a Kafka commit or a Redis write may raise
    Faults,          \* the remote calls that may fail, a subset of FaultKind
    MaxLog,          \* bound: messages published to the partition
    MaxDisruptions   \* bound: crashes, stops and rebalances together

\* class ErrorType
ErrorType ==
    {"TRANSIENT", "POISON", "BUSINESS", "INFRASTRUCTURE", "AUTHENTICATION", "RATE_LIMIT"}

(***************************************************************************)
(* An exception as ErrorHandler sees it: the class ErrorClassifier gives   *)
(* it, whether is_retryable_error lets it be retried (plain exceptions     *)
(* always), and the max_retries a TransientError carries (plain ones carry *)
(* none, which any number past the table's 8 expresses).                   *)
(***************************************************************************)
Exceptions == [type : ErrorType, retryable : BOOLEAN, max_retries : Nat]

FaultKind == {"consume", "redis_read", "redis_write", "redis_write_ack", "commit", "dlq"}

ASSUME ReliabilityAssumption ==
    /\ NoKey \notin Key
    /\ NoError \notin Exceptions
    /\ HandlerErrors \subseteq Exceptions
    /\ ClientErrors \subseteq Exceptions
    /\ Faults \subseteq FaultKind
    /\ MaxLog \in Nat
    /\ MaxDisruptions \in Nat

VARIABLES
    log,           \* event key of each message of the partition
    committed,     \* the group's committed offset, kept by the broker
    position,      \* the consumer's fetch position
    cur,           \* number of the message in flight, 0 before the first
    pc,            \* the await the loop is suspended at
    error,         \* the exception being handled
    retry_count,   \* _message_retry_count, 0 for an absent entry
    handled,       \* history: completed executions of the business handler
    dlq,           \* messages in the dead letter topic, per original message
    skipped,       \* history: messages skipped as duplicates
    abandoned,     \* history: messages error handling gave up without a commit
    disruptions    \* crashes, stops and rebalances so far

loop_vars == <<cur, pc, error, retry_count>>
history_vars == <<handled, dlq, skipped, abandoned>>
vars == <<dedup_vars, log, committed, position, loop_vars, history_vars, disruptions>>

Message == 1..MaxLog

\* Loop states in which a consumption task exists and has not ended.
Processing ==
    {"check", "dup_commit", "handler", "commit", "mark",
     "error", "retry", "retry_commit", "dlq", "dlq_commit"}

\* idle waits in the consumer's iterator; dead: the task ended by an exception;
\* stopped: cancelled by stop(); down: no process.
Running == Processing \cup {"idle"}

LoopState == Running \cup {"dead", "stopped", "down"}

Init ==
    /\ DedupInit
    /\ log = <<>>
    /\ committed = 0
    /\ position = 0
    /\ cur = 0
    /\ pc = "idle"
    /\ error = NoError
    /\ retry_count = [o \in Message |-> 0]
    /\ handled = [o \in Message |-> 0]
    /\ dlq = [o \in Message |-> 0]
    /\ skipped = {}
    /\ abandoned = {}
    /\ disruptions = 0

-----------------------------------------------------------------------------
(* The topic and the consumer.                                             *)

\* A producer, or a DLQ replay that repeats an id, appends to the partition.
Publish(key) ==
    /\ Len(log) < MaxLog
    /\ log' = Append(log, key)
    /\ UNCHANGED <<dedup_vars, committed, position, loop_vars, history_vars, disruptions>>

\* Mutant of Consume: offsets are committed on fetch (enable_auto_commit=True).
ConsumeAutoCommit ==
    /\ pc = "idle"
    /\ position < Len(log)
    /\ cur' = position + 1
    /\ position' = position + 1
    /\ committed' = position + 1
    /\ pc' = "check"
    /\ UNCHANGED <<dedup_vars, log, error, retry_count, history_vars, disruptions>>

\* Mutant of Consume: the fetch position advances past a message not yielded.
ConsumeSkipping ==
    /\ pc = "idle"
    /\ position < Len(log)
    /\ cur' = Len(log)
    /\ position' = Len(log)
    /\ pc' = "check"
    /\ UNCHANGED <<dedup_vars, log, committed, error, retry_count, history_vars, disruptions>>

\* consume() yields the next message to process_message.
Consume ==
    /\ pc = "idle"
    /\ position < Len(log)
    /\ cur' = position + 1
    /\ position' = position + 1
    /\ pc' = "check"
    /\ UNCHANGED <<dedup_vars, log, committed, error, retry_count, history_vars, disruptions>>

Goto(from, to) == pc = from /\ pc' = to

\* The consumer's iterator or a deserializer raises: consume() logs and raises
\* again, and so does _consumption_loop, which ends the task.
ConsumeRaises ==
    /\ "consume" \in Faults
    /\ Goto("idle", "dead")
    /\ UNCHANGED <<dedup_vars, log, committed, position, cur, error, retry_count,
                   history_vars, disruptions>>

\* Mutant of Commit: the offset after the next message is committed.
CommitOneTooFar == committed' = cur + 1

\* MessageConsumer.commit(message): offset + 1 of this message, whatever the
\* group has committed before.
Commit == committed' = cur

\* A commit that raises; the broker may have applied it before the reply was lost.
CommitFails == "commit" \in Faults /\ (Commit \/ UNCHANGED committed)

-----------------------------------------------------------------------------
(* process_message: the duplicate check.                                   *)

SkipDuplicate ==
    /\ Goto("check", "dup_commit")
    /\ log[cur] # NoKey
    /\ FoundLocally(log[cur]) \/ FoundInRedis(log[cur])
    /\ skipped' = skipped \cup {cur}
    /\ UNCHANGED <<log, committed, position, cur, error, retry_count,
                   handled, dlq, abandoned, disruptions>>

\* Mutant of AcceptNew: only the in-process set is consulted.
AcceptNotCached ==
    /\ Goto("check", "handler")
    /\ log[cur] \notin local_cache
    /\ UNCHANGED <<dedup_vars, log, committed, position, cur, error, retry_count,
                   history_vars, disruptions>>

\* Mutant of AcceptNew: the offset is committed before the handler runs.
AcceptCommitting ==
    /\ Goto("check", "handler")
    /\ log[cur] = NoKey \/ log[cur] \notin local_cache \cup redis_keys
    /\ Commit
    /\ UNCHANGED <<dedup_vars, log, position, cur, error, retry_count, history_vars, disruptions>>

\* Mutant of AcceptNew: the event is recorded as processed before the handler runs.
AcceptMarking ==
    /\ Goto("check", "handler")
    /\ log[cur] # NoKey
    /\ log[cur] \notin local_cache \cup redis_keys
    /\ MarkProcessed(log[cur])
    /\ UNCHANGED <<log, committed, position, cur, error, retry_count, history_vars, disruptions>>

AcceptNew ==
    /\ Goto("check", "handler")
    /\ \/ log[cur] = NoKey /\ UNCHANGED dedup_vars
       \/ log[cur] # NoKey /\ NotFound(log[cur])
    /\ UNCHANGED <<log, committed, position, cur, error, retry_count,
                   history_vars, disruptions>>

\* The Redis read raises; the check is outside process_message's try, so the
\* exception ends the consumption task.
CheckRaises ==
    /\ "redis_read" \in Faults
    /\ Goto("check", "dead")
    /\ log[cur] # NoKey
    /\ log[cur] \notin local_cache
    /\ UNCHANGED <<dedup_vars, log, committed, position, cur, error, retry_count,
                   history_vars, disruptions>>

CommitDuplicate ==
    /\ pc = "dup_commit"
    /\ \/ Commit /\ pc' = "idle"
       \/ CommitFails /\ pc' = "dead"
    /\ UNCHANGED <<dedup_vars, log, position, cur, error, retry_count, history_vars, disruptions>>

-----------------------------------------------------------------------------
(* process_message: the handler, the commit and the mark.                  *)

HandlerReturns ==
    /\ Goto("handler", "commit")
    /\ handled' = [handled EXCEPT ![cur] = @ + 1]
    /\ UNCHANGED <<dedup_vars, log, committed, position, cur, error, retry_count,
                   dlq, skipped, abandoned, disruptions>>

Raise(from, e) ==
    /\ Goto(from, "error")
    /\ error' = e

HandlerRaises(e) ==
    /\ Raise("handler", e)
    /\ UNCHANGED <<dedup_vars, log, committed, position, cur, retry_count, history_vars, disruptions>>

\* An envelope without an id is never marked.
CommitHandled ==
    /\ Goto("commit", IF log[cur] = NoKey THEN "idle" ELSE "mark")
    /\ Commit
    /\ UNCHANGED <<dedup_vars, log, position, cur, error, retry_count, history_vars, disruptions>>

\* The handler has run, and its message goes to error handling all the same.
CommitHandledRaises(e) ==
    /\ Raise("commit", e)
    /\ CommitFails
    /\ UNCHANGED <<dedup_vars, log, position, cur, retry_count, history_vars, disruptions>>

Mark ==
    /\ Goto("mark", "idle")
    /\ MarkProcessed(log[cur])
    /\ UNCHANGED <<log, committed, position, cur, error, retry_count, history_vars, disruptions>>

\* setex raises, applied or not; the committed message goes to error handling.
MarkRaises(e) ==
    /\ Raise("mark", e)
    /\ \/ "redis_write" \in Faults /\ UNCHANGED dedup_vars
       \/ "redis_write_ack" \in Faults /\ MarkProcessedUnacknowledged(log[cur])
    /\ UNCHANGED <<log, committed, position, cur, retry_count, history_vars, disruptions>>

-----------------------------------------------------------------------------
(* ErrorHandler.handle_processing_error, _retry_processing and             *)
(* _send_to_dlq_and_commit.                                                *)

should_retry(type) == type \in {"TRANSIENT", "INFRASTRUCTURE", "RATE_LIMIT", "BUSINESS"}

\* get_retry_config(type).max_attempts
max_attempts ==
    [TRANSIENT |-> 5, INFRASTRUCTURE |-> 3, RATE_LIMIT |-> 8,
     BUSINESS |-> 2, AUTHENTICATION |-> 1, POISON |-> 0]

RetryLimit(e) ==
    IF max_attempts[e.type] <= e.max_retries THEN max_attempts[e.type] ELSE e.max_retries

\* Poison and authentication errors, structured errors that are not retryable
\* and exhausted budgets are not retried.
MayRetry(e, count) ==
    /\ should_retry(e.type)
    /\ e.retryable
    /\ count < RetryLimit(e)

\* _retry_processing counts the attempt and sleeps.
BeginRetry ==
    /\ Goto("error", "retry")
    /\ MayRetry(error, retry_count[cur])
    /\ retry_count' = [retry_count EXCEPT ![cur] = @ + 1]
    /\ UNCHANGED <<dedup_vars, log, committed, position, cur, error, history_vars, disruptions>>

RetryReturns ==
    /\ Goto("retry", "retry_commit")
    /\ handled' = [handled EXCEPT ![cur] = @ + 1]
    /\ retry_count' = [retry_count EXCEPT ![cur] = 0]
    /\ UNCHANGED <<dedup_vars, log, committed, position, cur, error,
                   dlq, skipped, abandoned, disruptions>>

\* The single retry failed: False is returned, process_message ignores it and
\* the loop goes on to the next message.
RetryRaises ==
    /\ HandlerErrors # {}
    /\ Goto("retry", "idle")
    /\ error' = NoError
    /\ abandoned' = abandoned \cup {cur}
    /\ UNCHANGED <<dedup_vars, log, committed, position, cur, retry_count,
                   handled, dlq, skipped, disruptions>>

\* Mutant of CommitRetried: the commit is outside the retry's try, and what it
\* raises is handled like any other error of the message.
CommitRetriedOrError ==
    /\ \/ Goto("retry_commit", "idle") /\ Commit /\ error' = NoError
       \/ Goto("retry_commit", "error") /\ CommitFails /\ UNCHANGED error
    /\ UNCHANGED <<dedup_vars, log, position, cur, retry_count, history_vars, disruptions>>

\* A commit that raises here is caught together with a failing retry.
CommitRetried ==
    /\ Goto("retry_commit", "idle")
    /\ error' = NoError
    /\ Commit \/ CommitFails
    /\ UNCHANGED <<dedup_vars, log, position, cur, retry_count, history_vars, disruptions>>

GiveUp ==
    /\ Goto("error", "dlq")
    /\ ~MayRetry(error, retry_count[cur])
    /\ UNCHANGED <<dedup_vars, log, committed, position, cur, error, retry_count,
                   history_vars, disruptions>>

SendToDlq ==
    /\ Goto("dlq", "dlq_commit")
    /\ dlq' = [dlq EXCEPT ![cur] = @ + 1]
    /\ retry_count' = [retry_count EXCEPT ![cur] = 0]
    /\ UNCHANGED <<dedup_vars, log, committed, position, cur, error,
                   handled, skipped, abandoned, disruptions>>

\* send_to_dlq answers False: a critical log line, no commit, and the loop goes on.
SendToDlqFails ==
    /\ "dlq" \in Faults
    /\ Goto("dlq", "idle")
    /\ error' = NoError
    /\ abandoned' = abandoned \cup {cur}
    /\ UNCHANGED <<dedup_vars, log, committed, position, cur, retry_count,
                   handled, dlq, skipped, disruptions>>

\* A commit that raises here leaves process_message and ends the task.
CommitDlq ==
    /\ pc = "dlq_commit"
    /\ \/ Commit /\ pc' = "idle"
       \/ CommitFails /\ pc' = "dead"
    /\ error' = NoError
    /\ UNCHANGED <<dedup_vars, log, position, cur, retry_count, history_vars, disruptions>>

-----------------------------------------------------------------------------
(* The environment: expiry, crashes, stop and start, rebalances.           *)

ExpireKey(key) ==
    /\ Expire(key)
    /\ UNCHANGED <<log, committed, position, loop_vars, history_vars, disruptions>>

Disrupt ==
    /\ disruptions < MaxDisruptions
    /\ disruptions' = disruptions + 1

\* The process ends at any await; what it held in memory is gone.
Crash ==
    /\ pc # "down"
    /\ Disrupt
    /\ pc' = "down"
    /\ error' = NoError
    /\ retry_count' = [o \in Message |-> 0]
    /\ ForgetLocal
    /\ UNCHANGED <<log, committed, position, cur, history_vars>>

\* ServiceOrchestrator.stop cancels the task at the await it is suspended at;
\* the service's manager and error handler objects live on.
Stop ==
    /\ pc \in Running \cup {"dead"}
    /\ Disrupt
    /\ pc' = "stopped"
    /\ error' = NoError
    /\ UNCHANGED <<dedup_vars, log, committed, position, cur, retry_count, history_vars>>

\* A new process, or start() after stop(): the consumer resumes at the
\* committed offset (auto_offset_reset is earliest).
Start ==
    /\ pc \in {"down", "stopped"}
    /\ pc' = "idle"
    /\ position' = committed
    /\ UNCHANGED <<dedup_vars, log, committed, cur, error, retry_count, history_vars, disruptions>>

\* The group rebalances under a live loop and the partition comes back: the
\* fetch position is the committed offset again, the message in flight goes on.
Rebalance ==
    /\ pc \in Running
    /\ Disrupt
    /\ position' = committed
    /\ UNCHANGED <<dedup_vars, log, committed, loop_vars, history_vars>>

-----------------------------------------------------------------------------

ErrorHandling ==
    \/ BeginRetry \/ RetryReturns \/ RetryRaises \/ CommitRetried
    \/ GiveUp \/ SendToDlq \/ SendToDlqFails \/ CommitDlq

LoopStep ==
    \/ Consume
    \/ SkipDuplicate \/ AcceptNew \/ CheckRaises \/ CommitDuplicate
    \/ HandlerReturns \/ \E e \in HandlerErrors : HandlerRaises(e)
    \/ CommitHandled \/ \E e \in ClientErrors : CommitHandledRaises(e)
    \/ Mark \/ \E e \in ClientErrors : MarkRaises(e)
    \/ ErrorHandling

Environment ==
    \/ \E key \in Key \cup {NoKey} : Publish(key)
    \/ \E key \in Key : ExpireKey(key)
    \/ Crash \/ Stop \/ Start \/ Rebalance \/ ConsumeRaises

Next == LoopStep \/ Environment

Spec == Init /\ [][Next]_vars

\* The event loop schedules a runnable task again and again, and every await of
\* the loop ends (a reply, an error or a finished sleep).  Nothing restarts a
\* stopped, crashed or dead loop by itself.
FairSpec == Spec /\ WF_vars(LoopStep)

-----------------------------------------------------------------------------

\* Types, and the offsets: commit and fetch position never pass the end of the log.
TypeOK ==
    /\ DedupTypeOK
    /\ log \in Seq(Key \cup {NoKey})
    /\ Len(log) <= MaxLog
    /\ committed \in 0..Len(log)
    /\ position \in 0..Len(log)
    /\ cur \in 0..Len(log)
    /\ pc \in LoopState
    /\ pc \in Processing => cur >= 1
    /\ error \in Exceptions \cup {NoError}
    /\ pc \in {"error", "retry"} => error \in Exceptions
    /\ pc = "mark" => log[cur] # NoKey
    /\ retry_count \in [Message -> Nat]
    /\ handled \in [Message -> Nat]
    /\ dlq \in [Message -> Nat]
    /\ skipped \in SUBSET Message
    /\ abandoned \in SUBSET Message
    /\ disruptions \in 0..MaxDisruptions

\* The event of message o has been handled, as this message or under the same id
\* as another one, or message o is in the dead letter topic.
Settled(o) ==
    \/ handled[o] > 0
    \/ dlq[o] > 0
    \/ log[o] # NoKey /\ \E p \in 1..Len(log) : log[p] = log[o] /\ handled[p] > 0

(***************************************************************************)
(* The only ways to lose a message: an offset the group has committed past *)
(* is settled, or error handling gave its message up without a commit (a   *)
(* failed retry or a failed DLQ send) and a later message's commit covered *)
(* it.  Crashes, cancellations, rebalances, commit and Redis failures, and *)
(* the order commit-then-mark of process_message lose nothing.             *)
(***************************************************************************)
CommittedIsAccounted == \A o \in 1..committed : Settled(o) \/ o \in abandoned

(***************************************************************************)
(* A message skipped as a duplicate really had its event handled, by this  *)
(* delivery's message or by another with the same id: is_duplicate then    *)
(* commit drops no event, whatever crash or expiry preceded it.            *)
(***************************************************************************)
SkippedWasHandled ==
    \A o \in skipped : log[o] # NoKey /\ \E p \in 1..Len(log) : log[p] = log[o] /\ handled[p] > 0

(***************************************************************************)
(* What one delivery may cost.  handle_processing_error repeats a handler  *)
(* at most once for a delivery, also when the handler had completed and    *)
(* only the commit or the mark failed, and also when the commit after the  *)
(* retry fails, where the retry counter is already deleted; its budget of  *)
(* up to 8 attempts is spent across deliveries only.  So completed         *)
(* executions, dead letters and retries counted without success are at     *)
(* most two for each delivery, and a message is delivered once and then    *)
(* again at most once for each crash, stop or rebalance.                   *)
(***************************************************************************)
Effects(o) == handled[o] + dlq[o] + retry_count[o]

TwoEffectsPerDelivery == \A o \in Message : Effects(o) <= 2 * (disruptions + 1)

(***************************************************************************)
(* While Redis holds an event's key, the handler completes for that event  *)
(* again only as the retry of the very delivery that wrote the key (a      *)
(* setex that raised although it was applied); no redelivery, duplicate    *)
(* publication or restart gets past is_duplicate.                          *)
(***************************************************************************)
RecordedNotReexecuted ==
    [][\A o \in Message :
        handled'[o] > handled[o] => log[o] \notin redis_keys \/ pc = "retry"]_vars

(***************************************************************************)
(* Every published message is eventually accounted for, unless the loop    *)
(* is no longer running: it ended by an exception, was stopped or crashed. *)
(***************************************************************************)
EventuallyAccounted ==
    \A o \in Message :
        (o <= Len(log)) ~> (o <= Len(log) /\ (Settled(o) \/ o \in abandoned \/ pc \notin Running))

(***************************************************************************)
(* The loop implements AccountedDelivery: reading the outcomes off the     *)
(* effects of the handler, the dead letter topic, the skips and the        *)
(* abandonments, every step of the loop and of its environment is a step   *)
(* of the promise, and the committed offset covers only resolved messages. *)
(***************************************************************************)
OutcomesOf(o) ==
    (IF handled[o] > 0 THEN {"handled"} ELSE {})
    \cup (IF dlq[o] > 0 THEN {"dead_letter"} ELSE {})
    \cup (IF o \in skipped THEN {"duplicate"} ELSE {})
    \cup (IF o \in abandoned THEN {"abandoned"} ELSE {})

Promise == INSTANCE AccountedDelivery WITH
    Messages <- Message,
    published <- Len(log),
    outcomes <- [o \in Message |-> OutcomesOf(o)],
    offset <- committed

ImplementsDelivery == Promise!DeliverySpec

(***************************************************************************)
(* What handle_processing_error's docstring and send_to_dlq's comment say: *)
(* "True if handled successfully (including DLQ), False if should be       *)
(* reprocessed" and "we must not lose the message": nothing the group has  *)
(* committed past is unsettled.                                            *)
(***************************************************************************)
NoMessageLost == \A o \in 1..committed : Settled(o)

=============================================================================
