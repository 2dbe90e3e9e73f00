----------------------- MODULE ReliabilityLayerProofs -----------------------
(***************************************************************************)
(* Safety of the consumption loop for every number of messages, every set  *)
(* of keys, every choice of exceptions and faults, and every number of     *)
(* crashes, stops and rebalances; before it, of the deduplication manager  *)
(* by itself, for every capacity of at least 4.                            *)
(***************************************************************************)
EXTENDS ReliabilityLayer, FiniteSetTheorems, TLAPS

-----------------------------------------------------------------------------
(* The deduplication manager: its cache stays within its bound and it      *)
(* answers True only for keys that were marked.                            *)

\* The inductive invariant: types, the bound and soundness together.
DedupInv == DedupTypeOK /\ CacheBounded /\ DuplicateWasMarked

(***************************************************************************)
(* _add_to_local_cache keeps the set finite and within _cache_max_size,    *)
(* and what it holds afterwards is the new key or was there before.        *)
(***************************************************************************)
LEMMA AddKeepsCache ==
    ASSUME NEW key \in Key, DedupTypeOK, CacheBounded, AddToLocalCache(key)
    PROVE  /\ local_cache' \in SUBSET Key
           /\ IsFiniteSet(local_cache')
           /\ Cardinality(local_cache') <= CacheMax
           /\ local_cache' \subseteq local_cache \cup {key}
<1> DEFINE n == Cardinality(local_cache)
<1>1. PICK gone \in Evictable(local_cache) : local_cache' = (local_cache \ gone) \cup {key}
  BY DEF AddToLocalCache
<1>2. IsFiniteSet(local_cache) /\ local_cache \subseteq Key
  BY DEF DedupTypeOK
<1>3. n \in Nat
  BY <1>2, FS_CardinalityType
<1>4. gone \subseteq local_cache
  BY <1>1 DEF Evictable
<1>5. IsFiniteSet(gone) /\ Cardinality(gone) \in Nat
  BY <1>2, <1>4, FS_Subset, FS_CardinalityType
<1>6. IsFiniteSet(local_cache \ gone) /\ Cardinality(local_cache \ gone) = n - Cardinality(local_cache \cap gone)
  BY <1>2, FS_Difference
<1>7. local_cache \cap gone = gone
  BY <1>4
<1>8. Cardinality(local_cache \ gone) \in Nat /\ Cardinality(local_cache \ gone) <= CacheMax - 1
  <2>1. CASE n >= CacheMax
    <3>1. Cardinality(gone) = CacheMax \div 4
      BY <1>1, <2>1 DEF Evictable
    <3>2. CacheMax \div 4 >= 1
      BY CacheAssumption
    <3>3. n <= CacheMax
      BY DEF CacheBounded
    <3>4. Cardinality(local_cache \ gone) \in Nat
      BY <1>6, FS_CardinalityType
    <3>5. Cardinality(local_cache \ gone) = n - Cardinality(gone)
      BY <1>6, <1>7
    <3> HIDE DEF n
    <3> QED BY <1>3, <1>5, <3>1, <3>2, <3>3, <3>4, <3>5, CacheAssumption
  <2>2. CASE ~(n >= CacheMax)
    <3>1. gone = {}
      BY <1>1, <2>2 DEF Evictable
    <3>2. local_cache \ gone = local_cache
      BY <3>1
    <3> QED BY <1>3, <2>2, <3>2, CacheAssumption
  <2> QED BY <2>1, <2>2
<1>9. IsFiniteSet(local_cache') /\ Cardinality(local_cache') <= Cardinality(local_cache \ gone) + 1
  <2>1. /\ IsFiniteSet((local_cache \ gone) \cup {key})
        /\ Cardinality((local_cache \ gone) \cup {key}) =
              IF key \in local_cache \ gone THEN Cardinality(local_cache \ gone)
              ELSE Cardinality(local_cache \ gone) + 1
    BY <1>6, FS_AddElement
  <2> QED BY <2>1, <1>1, <1>8
<1>10. Cardinality(local_cache') \in Nat
  BY <1>9, FS_CardinalityType
<1> QED BY <1>1, <1>2, <1>8, <1>9, <1>10, CacheAssumption

(***************************************************************************)
(* Every operation of the manager preserves the inductive invariant.       *)
(***************************************************************************)
LEMMA DedupStep == DedupInv /\ [DedupNext]_dedup_vars => DedupInv'
<1> SUFFICES ASSUME DedupInv, [DedupNext]_dedup_vars PROVE DedupInv'
  OBVIOUS
<1> USE DEF DedupInv
<1>0. CASE UNCHANGED dedup_vars
  BY <1>0 DEF dedup_vars, DedupTypeOK, CacheBounded, DuplicateWasMarked
<1>1. CASE \E key \in Key : FoundLocally(key) \/ NotFound(key)
  BY <1>0, <1>1 DEF FoundLocally, NotFound
<1>2. ASSUME NEW key \in Key, FoundInRedis(key) PROVE DedupInv'
  BY <1>2, AddKeepsCache DEF FoundInRedis, DedupTypeOK, CacheBounded, DuplicateWasMarked
<1>3. ASSUME NEW key \in Key, MarkProcessed(key) PROVE DedupInv'
  BY <1>3, AddKeepsCache DEF MarkProcessed, DedupTypeOK, CacheBounded, DuplicateWasMarked
<1>4. ASSUME NEW key \in Key, MarkProcessedUnacknowledged(key) PROVE DedupInv'
  BY <1>4 DEF MarkProcessedUnacknowledged, DedupTypeOK, CacheBounded, DuplicateWasMarked
<1>5. ASSUME NEW key \in Key, Expire(key) PROVE DedupInv'
  BY <1>5 DEF Expire, DedupTypeOK, CacheBounded, DuplicateWasMarked
<1>6. CASE ForgetLocal
  BY <1>6, FS_EmptySet, CacheAssumption DEF ForgetLocal, DedupTypeOK, CacheBounded, DuplicateWasMarked
<1> QED
  BY <1>0, <1>1, <1>2, <1>3, <1>4, <1>5, <1>6 DEF DedupNext

(***************************************************************************)
(* The in-process set never outgrows _cache_max_size.                      *)
(***************************************************************************)
THEOREM CacheIsBounded == DedupSpec => []CacheBounded
<1>1. DedupInit => DedupInv
  BY FS_EmptySet, CacheAssumption DEF DedupInit, DedupInv, DedupTypeOK, CacheBounded, DuplicateWasMarked
<1>2. DedupInv => CacheBounded
  BY DEF DedupInv
<1> QED BY <1>1, <1>2, DedupStep, PTL DEF DedupSpec

(***************************************************************************)
(* is_duplicate never answers True for an event that was not marked.       *)
(***************************************************************************)
THEOREM DuplicatesAreSound == DedupSpec => []DuplicateWasMarked
<1>1. DedupInit => DedupInv
  BY FS_EmptySet, CacheAssumption DEF DedupInit, DedupInv, DedupTypeOK, CacheBounded, DuplicateWasMarked
<1>2. DedupInv => DuplicateWasMarked
  BY DEF DedupInv
<1> QED BY <1>1, <1>2, DedupStep, PTL DEF DedupSpec

-----------------------------------------------------------------------------
(* Type correctness.                                                       *)

Types == TypeOK /\ CacheBounded

(***************************************************************************)
(* A service starts with an empty partition, cache and retry memory.       *)
(***************************************************************************)
LEMMA InitTypes == Init => Types
BY ReliabilityAssumption, CacheAssumption, FS_EmptySet
   DEF Init, DedupInit, Types, TypeOK, DedupTypeOK, CacheBounded, Message, LoopState, Running,
       Processing, Exceptions

(***************************************************************************)
(* The message in flight is a message of the partition, and marked events  *)
(* carry a key.                                                            *)
(***************************************************************************)
LEMMA InFlight ==
    ASSUME TypeOK, pc \in Processing
    PROVE  cur \in Message /\ cur \in 1..Len(log) /\ log[cur] \in Key \cup {NoKey}
<1>1. log \in Seq(Key \cup {NoKey}) /\ Len(log) \in Nat /\ Len(log) <= MaxLog
  BY DEF TypeOK
<1>2. cur \in 1..Len(log)
  BY DEF TypeOK
<1>3. cur \in Message
  BY <1>1, <1>2, ReliabilityAssumption DEF Message
<1> QED
  BY <1>1, <1>2, <1>3

(***************************************************************************)
(* Every step of the loop and of its environment preserves the types.      *)
(***************************************************************************)
LEMMA StepTypes == Types /\ [Next]_vars => Types'
<1> SUFFICES ASSUME Types, [Next]_vars PROVE Types'
  OBVIOUS
<1> USE ReliabilityAssumption
    DEF Types, TypeOK, LoopState, Running, Processing, loop_vars, history_vars, dedup_vars
<1>a. pc \in Processing => cur \in Message
  BY InFlight
<1>b. pc \in Processing => log[cur] \in Key \cup {NoKey}
  BY InFlight
<1>0. CASE UNCHANGED vars
  BY <1>0 DEF vars, DedupTypeOK, CacheBounded
<1>1. ASSUME NEW key \in Key \cup {NoKey}, Publish(key) PROVE Types'
  BY <1>1 DEF Publish, DedupTypeOK, CacheBounded
<1>2. CASE Consume
  BY <1>2 DEF Consume, DedupTypeOK, CacheBounded
<1>3. CASE SkipDuplicate
  <2> USE <1>3 DEF SkipDuplicate, Goto
  <2>1. log[cur] \in Key
    BY <1>b
  <2>2. CASE FoundLocally(log[cur])
    BY <2>2, <1>a DEF FoundLocally, DedupTypeOK, CacheBounded
  <2>3. CASE FoundInRedis(log[cur])
    <3>1. DedupTypeOK' /\ CacheBounded'
      BY <2>1, <2>3, AddKeepsCache DEF FoundInRedis, DedupTypeOK, CacheBounded
    <3> QED BY <3>1, <1>a
  <2> QED BY <2>2, <2>3
<1>4. CASE AcceptNew
  BY <1>4 DEF AcceptNew, NotFound, Goto, DedupTypeOK, CacheBounded
<1>5. CASE CheckRaises
  BY <1>5 DEF CheckRaises, Goto, DedupTypeOK, CacheBounded
<1>6. CASE CommitDuplicate
  BY <1>6 DEF CommitDuplicate, Commit, CommitFails, DedupTypeOK, CacheBounded
<1>7. CASE HandlerReturns
  BY <1>7, <1>a DEF HandlerReturns, Goto, DedupTypeOK, CacheBounded
<1>8. ASSUME NEW e \in HandlerErrors, HandlerRaises(e) PROVE Types'
  BY <1>8 DEF HandlerRaises, Raise, Goto, DedupTypeOK, CacheBounded
<1>9. CASE CommitHandled
  BY <1>9 DEF CommitHandled, Commit, Goto, DedupTypeOK, CacheBounded
<1>10. ASSUME NEW e \in ClientErrors, CommitHandledRaises(e) PROVE Types'
  BY <1>10 DEF CommitHandledRaises, Raise, Commit, CommitFails, Goto, DedupTypeOK, CacheBounded
<1>11. CASE Mark
  <2> USE <1>11 DEF Mark, Goto
  <2>1. log[cur] \in Key
    BY <1>b
  <2>2. DedupTypeOK' /\ CacheBounded'
    BY <2>1, AddKeepsCache DEF MarkProcessed, DedupTypeOK, CacheBounded
  <2> QED BY <2>2
<1>12. ASSUME NEW e \in ClientErrors, MarkRaises(e) PROVE Types'
  <2> USE <1>12 DEF MarkRaises, Raise, Goto
  <2>1. log[cur] \in Key
    BY <1>b
  <2>2. DedupTypeOK' /\ CacheBounded'
    BY <2>1 DEF MarkProcessedUnacknowledged, DedupTypeOK, CacheBounded
  <2> QED BY <2>2
<1>13. CASE BeginRetry
  BY <1>13, <1>a DEF BeginRetry, Goto, DedupTypeOK, CacheBounded
<1>14. CASE RetryReturns
  BY <1>14, <1>a DEF RetryReturns, Goto, DedupTypeOK, CacheBounded
<1>15. CASE RetryRaises
  BY <1>15, <1>a DEF RetryRaises, Goto, DedupTypeOK, CacheBounded
<1>16. CASE CommitRetried
  BY <1>16 DEF CommitRetried, Commit, CommitFails, Goto, DedupTypeOK, CacheBounded
<1>17. CASE GiveUp
  BY <1>17 DEF GiveUp, Goto, DedupTypeOK, CacheBounded
<1>18. CASE SendToDlq
  BY <1>18, <1>a DEF SendToDlq, Goto, DedupTypeOK, CacheBounded
<1>19. CASE SendToDlqFails
  BY <1>19, <1>a DEF SendToDlqFails, Goto, DedupTypeOK, CacheBounded
<1>20. CASE CommitDlq
  BY <1>20 DEF CommitDlq, Commit, CommitFails, DedupTypeOK, CacheBounded
<1>21. ASSUME NEW key \in Key, ExpireKey(key) PROVE Types'
  BY <1>21 DEF ExpireKey, Expire, DedupTypeOK, CacheBounded
<1>22. CASE Crash
  <2> USE <1>22 DEF Crash, Disrupt
  <2>1. DedupTypeOK' /\ CacheBounded'
    BY FS_EmptySet, CacheAssumption DEF ForgetLocal, DedupTypeOK, CacheBounded
  <2> QED BY <2>1
<1>23. CASE Stop
  BY <1>23 DEF Stop, Disrupt, DedupTypeOK, CacheBounded
<1>24. CASE Start
  BY <1>24 DEF Start, DedupTypeOK, CacheBounded
<1>25. CASE Rebalance
  BY <1>25 DEF Rebalance, Disrupt, DedupTypeOK, CacheBounded
<1>26. CASE ConsumeRaises
  BY <1>26 DEF ConsumeRaises, Goto, DedupTypeOK, CacheBounded
<1> QED
  BY <1>0, <1>1, <1>2, <1>3, <1>4, <1>5, <1>6, <1>7, <1>8, <1>9, <1>10, <1>11, <1>12, <1>13,
     <1>14, <1>15, <1>16, <1>17, <1>18, <1>19, <1>20, <1>21, <1>22, <1>23, <1>24, <1>25, <1>26
     DEF Next, LoopStep, ErrorHandling, Environment

(***************************************************************************)
(* The state is well typed and the in-process cache bounded in every       *)
(* behaviour of the loop.                                                  *)
(***************************************************************************)
THEOREM TypeCorrect == Spec => []TypeOK
<1>1. Types => TypeOK
  BY DEF Types
<1> QED BY <1>1, InitTypes, StepTypes, PTL DEF Spec

-----------------------------------------------------------------------------
(* Accounting.  CommittedIsAccounted is not inductive: that a commit only  *)
(* covers messages with an outcome rests on the loop having gone through   *)
(* every earlier message since it last resumed at the committed offset.    *)

HasOutcome(o) == handled[o] > 0 \/ dlq[o] > 0 \/ o \in skipped \/ o \in abandoned

\* The step the loop is at tells what has happened to the message in flight.
StepTells ==
    /\ pc \in {"commit", "mark", "retry_commit"} => handled[cur] > 0
    /\ pc = "dlq_commit" => dlq[cur] > 0
    /\ pc = "dup_commit" => cur \in skipped

\* A live loop has passed no message without an outcome, but the one in flight.
PassedHasOutcome ==
    pc \in Running =>
        \A o \in 1..position : HasOutcome(o) \/ (o = cur /\ pc \in Processing)

BeforeInFlightHasOutcome == pc \in Processing => \A o \in 1..(cur - 1) : HasOutcome(o)

CommittedHasOutcome == \A o \in 1..committed : HasOutcome(o)

Handled(key) == \E p \in 1..Len(log) : log[p] = key /\ handled[p] > 0

MarkedWasHandled == \A key \in marked : Handled(key)

SkippedKeyHandled == \A o \in skipped : o \in 1..Len(log) /\ log[o] # NoKey /\ Handled(log[o])

Accounting ==
    /\ StepTells
    /\ PassedHasOutcome
    /\ BeforeInFlightHasOutcome
    /\ CommittedHasOutcome
    /\ DuplicateWasMarked
    /\ MarkedWasHandled
    /\ SkippedKeyHandled

IInv == Types /\ Accounting

(***************************************************************************)
(* Outcomes, executions and the log only grow, whatever step is taken.     *)
(***************************************************************************)
LEMMA HistoryGrows ==
    ASSUME Types, [Next]_vars
    PROVE  /\ \A o \in Message : handled'[o] >= handled[o] /\ dlq'[o] >= dlq[o]
           /\ skipped \subseteq skipped' /\ abandoned \subseteq abandoned'
           /\ Len(log') >= Len(log)
           /\ \A o \in 1..Len(log) : log'[o] = log[o]
<1> DEFINE Goal == /\ \A o \in Message : handled'[o] >= handled[o] /\ dlq'[o] >= dlq[o]
                   /\ skipped \subseteq skipped' /\ abandoned \subseteq abandoned'
                   /\ Len(log') >= Len(log)
                   /\ \A o \in 1..Len(log) : log'[o] = log[o]
<1> USE DEF Types, TypeOK
<1>1. CASE UNCHANGED <<log, history_vars>>
  BY <1>1 DEF history_vars
<1>2. ASSUME NEW key \in Key \cup {NoKey}, Publish(key) PROVE Goal
  BY <1>2 DEF Publish, history_vars
<1>3. CASE SkipDuplicate
  BY <1>3 DEF SkipDuplicate
<1>4. CASE HandlerReturns \/ RetryReturns
  <2>1. handled' = [handled EXCEPT ![cur] = @ + 1] /\ UNCHANGED <<log, dlq, skipped, abandoned>>
    BY <1>4 DEF HandlerReturns, RetryReturns
  <2>2. \A o \in Message : handled'[o] >= handled[o]
    BY <2>1
  <2> QED BY <2>1, <2>2
<1>5. CASE RetryRaises \/ SendToDlqFails
  BY <1>5 DEF RetryRaises, SendToDlqFails
<1>6. CASE SendToDlq
  BY <1>6 DEF SendToDlq
<1>7. \/ UNCHANGED <<log, history_vars>>
      \/ \E key \in Key \cup {NoKey} : Publish(key)
      \/ SkipDuplicate \/ HandlerReturns \/ RetryReturns \/ RetryRaises \/ SendToDlqFails \/ SendToDlq
  BY DEF Next, LoopStep, ErrorHandling, Environment, vars, Consume, ConsumeRaises, AcceptNew, CheckRaises,
         CommitDuplicate, HandlerRaises, CommitHandled, CommitHandledRaises, Mark, MarkRaises,
         BeginRetry, CommitRetried, GiveUp, CommitDlq, ExpireKey, Crash, Stop, Start, Rebalance
<1> HIDE DEF Types, TypeOK
<1> QED BY <1>1, <1>2, <1>3, <1>4, <1>5, <1>6, <1>7

(***************************************************************************)
(* So a message keeps its outcome, and an event stays handled.             *)
(***************************************************************************)
LEMMA OutcomeKept ==
    ASSUME Types, Types', [Next]_vars
    PROVE  /\ \A o \in Message : HasOutcome(o) => HasOutcome(o)'
           /\ \A key : Handled(key) => Handled(key)'
<1>1. \A o \in Message : /\ handled[o] \in Nat /\ handled'[o] \in Nat
                         /\ dlq[o] \in Nat /\ dlq'[o] \in Nat
  BY DEF Types, TypeOK
<1>2. Len(log) \in Nat /\ Len(log') \in Nat /\ 1..Len(log) \subseteq Message
  BY ReliabilityAssumption DEF Types, TypeOK, Message
<1>3. \A o \in Message : HasOutcome(o) => HasOutcome(o)'
  BY <1>1, HistoryGrows DEF HasOutcome
<1>4. ASSUME NEW key, Handled(key) PROVE Handled(key)'
  <2>1. PICK p \in 1..Len(log) : log[p] = key /\ handled[p] > 0
    BY <1>4 DEF Handled
  <2>2. p \in 1..Len(log') /\ log'[p] = key /\ handled'[p] > 0
    BY <1>1, <1>2, <2>1, HistoryGrows
  <2> QED BY <2>2 DEF Handled
<1> QED BY <1>3, <1>4

\* The loop's own steps and the environment's, sorted by what they do to the
\* loop's control state and its place in the partition.
Undisturbed == UNCHANGED <<pc, cur, position>>
Resumes == position' = committed /\ UNCHANGED cur /\ (pc' = "idle" \/ pc' = pc)
Moves == pc \in Processing /\ UNCHANGED <<cur, position>> /\ pc' \in Processing
Finishes == pc \in Processing /\ UNCHANGED <<cur, position>> /\ pc' = "idle"
Ends == pc' \notin Running

(***************************************************************************)
(* Every step is of one of these sorts.                                    *)
(***************************************************************************)
LEMMA StepSorts ==
    ASSUME Types, [Next]_vars
    PROVE  Consume \/ Undisturbed \/ Resumes \/ Moves \/ Finishes \/ Ends
<1> USE DEF Undisturbed, Resumes, Moves, Finishes, Ends, Processing, Running, loop_vars, Goto, Raise
<1>1. CASE UNCHANGED vars
  BY <1>1 DEF vars
<1>2. CASE \E key \in Key \cup {NoKey} : Publish(key)
  BY <1>2 DEF Publish
<1>3. CASE \E key \in Key : ExpireKey(key)
  BY <1>3 DEF ExpireKey
<1>4. CASE Crash \/ Stop \/ ConsumeRaises
  BY <1>4 DEF Crash, Stop, ConsumeRaises
<1>5. CASE Start \/ Rebalance
  BY <1>5 DEF Start, Rebalance
<1>6. CASE SkipDuplicate \/ AcceptNew \/ CheckRaises \/ CommitDuplicate
  BY <1>6 DEF SkipDuplicate, AcceptNew, CheckRaises, CommitDuplicate
<1>7. CASE HandlerReturns \/ CommitHandled \/ Mark
  BY <1>7 DEF HandlerReturns, CommitHandled, Mark
<1>8. CASE \/ \E e \in HandlerErrors : HandlerRaises(e)
           \/ \E e \in ClientErrors : CommitHandledRaises(e) \/ MarkRaises(e)
  BY <1>8 DEF HandlerRaises, CommitHandledRaises, MarkRaises
<1>9. CASE ErrorHandling
  BY <1>9 DEF ErrorHandling, BeginRetry, RetryReturns, RetryRaises, CommitRetried, GiveUp,
              SendToDlq, SendToDlqFails, CommitDlq
<1> QED
  BY <1>1, <1>2, <1>3, <1>4, <1>5, <1>6, <1>7, <1>8, <1>9 DEF Next, LoopStep, Environment

(***************************************************************************)
(* The offset moves only by a commit of the message in flight, at one of   *)
(* the four commit steps of process_message and ErrorHandler.              *)
(***************************************************************************)
LEMMA OffsetMoves ==
    ASSUME [Next]_vars
    PROVE  \/ committed' = committed
           \/ committed' = cur /\ pc \in {"dup_commit", "commit", "retry_commit", "dlq_commit"}
<1> USE DEF Commit, CommitFails, Goto, Raise
<1>1. CASE CommitDuplicate \/ CommitHandled \/ CommitRetried \/ CommitDlq
           \/ \E e \in ClientErrors : CommitHandledRaises(e)
  BY <1>1 DEF CommitDuplicate, CommitHandled, CommitRetried, CommitDlq, CommitHandledRaises
<1> QED
  BY <1>1 DEF Next, LoopStep, ErrorHandling, Environment, vars, Publish, Consume, ConsumeRaises, SkipDuplicate,
         AcceptNew, CheckRaises, HandlerReturns, HandlerRaises, Mark, MarkRaises, BeginRetry,
         RetryReturns, RetryRaises, GiveUp, SendToDlq, SendToDlqFails, ExpireKey, Crash, Stop,
         Start, Rebalance

(***************************************************************************)
(* Where the loop stands keeps telling what happened to its message, and a *)
(* message the loop leaves has an outcome.                                 *)
(***************************************************************************)
LEMMA StepTellsKept ==
    ASSUME Types, Types', StepTells, [Next]_vars
    PROVE  StepTells' /\ (Finishes => HasOutcome(cur)')
<1> DEFINE Goal == StepTells' /\ (Finishes => HasOutcome(cur)')
<1> USE DEF StepTells, Finishes, Processing, Goto, Raise
<1>a. pc \in Processing => cur \in Message
  BY InFlight DEF Types
<1>b. \A o \in Message : handled'[o] \in Nat /\ handled[o] \in Nat
                         /\ dlq'[o] \in Nat /\ dlq[o] \in Nat
  BY DEF Types, TypeOK
<1>c. handled \in [Message -> Nat] /\ dlq \in [Message -> Nat]
  BY DEF Types, TypeOK
<1>1. CASE Undisturbed \/ Rebalance
  <2>1. UNCHANGED <<pc, cur>>
    BY <1>1 DEF Undisturbed, Rebalance, loop_vars
  <2> QED BY <2>1, <1>a, <1>b, HistoryGrows
<1>2. CASE Consume \/ ConsumeRaises \/ Crash \/ Stop \/ Start
  BY <1>2 DEF Consume, ConsumeRaises, Crash, Stop, Start
<1>3. CASE SkipDuplicate \/ AcceptNew \/ CheckRaises
  BY <1>3 DEF SkipDuplicate, AcceptNew, CheckRaises
<1>4. CASE CommitDuplicate
  BY <1>4 DEF CommitDuplicate, history_vars, HasOutcome
<1>5. CASE HandlerReturns \/ RetryReturns
  BY <1>5, <1>a, <1>b, <1>c DEF HandlerReturns, RetryReturns
<1>6. CASE CommitHandled \/ Mark
  BY <1>6 DEF CommitHandled, Mark, history_vars, HasOutcome
<1>7. CASE \/ \E e \in HandlerErrors : HandlerRaises(e)
           \/ \E e \in ClientErrors : CommitHandledRaises(e) \/ MarkRaises(e)
  BY <1>7 DEF HandlerRaises, CommitHandledRaises, MarkRaises
<1>8. CASE BeginRetry \/ GiveUp
  BY <1>8 DEF BeginRetry, GiveUp
<1>9. CASE RetryRaises \/ SendToDlqFails
  BY <1>9 DEF RetryRaises, SendToDlqFails, HasOutcome
<1>10. CASE SendToDlq
  BY <1>10, <1>a, <1>b, <1>c DEF SendToDlq
<1>11. CASE CommitRetried \/ CommitDlq
  BY <1>11 DEF CommitRetried, CommitDlq, history_vars, HasOutcome
<1>12. ASSUME \/ UNCHANGED vars
              \/ \E key \in Key \cup {NoKey} : Publish(key)
              \/ \E key \in Key : ExpireKey(key)
       PROVE  Undisturbed
  BY <1>12 DEF vars, Publish, ExpireKey, loop_vars, Undisturbed
<1> HIDE DEF StepTells, Finishes, Processing, Goto, Raise
<1> QED
  BY <1>1, <1>2, <1>3, <1>4, <1>5, <1>6, <1>7, <1>8, <1>9, <1>10, <1>11, <1>12
     DEF Next, LoopStep, ErrorHandling, Environment

(***************************************************************************)
(* Keys are recorded and messages skipped only for handled events.         *)
(***************************************************************************)
LEMMA KeysKept ==
    ASSUME Types, Types', Accounting, [Next]_vars
    PROVE  DuplicateWasMarked' /\ MarkedWasHandled' /\ SkippedKeyHandled'
<1> USE DEF Accounting
<1>a. pc \in Processing => cur \in 1..Len(log) /\ log[cur] \in Key \cup {NoKey}
  BY InFlight DEF Types
<1>b. DedupTypeOK /\ CacheBounded
  BY DEF Types, TypeOK
<1>c. \A key : Handled(key) => Handled(key)'
  BY OutcomeKept
<1>1. CASE UNCHANGED <<dedup_vars, skipped>>
  <2>1. DuplicateWasMarked' /\ MarkedWasHandled'
    BY <1>1, <1>c DEF dedup_vars, DuplicateWasMarked, MarkedWasHandled
  <2>2. Len(log) \in Nat /\ Len(log') \in Nat
    BY DEF Types, TypeOK
  <2>3. SkippedKeyHandled'
    BY <1>1, <1>c, <2>2, HistoryGrows DEF SkippedKeyHandled
  <2> QED BY <2>1, <2>3
<1>2. CASE SkipDuplicate
  <2>1. cur \in 1..Len(log) /\ log[cur] \in Key /\ UNCHANGED <<log, handled, marked>>
    BY <1>2, <1>a DEF SkipDuplicate, Goto, Processing, FoundLocally, FoundInRedis, dedup_vars
  <2>2. log[cur] \in marked
    BY <1>2 DEF SkipDuplicate, FoundLocally, FoundInRedis, DuplicateWasMarked
  <2>3. DuplicateWasMarked'
    <3>1. CASE FoundLocally(log[cur])
      BY <3>1 DEF FoundLocally, dedup_vars, DuplicateWasMarked
    <3>2. CASE FoundInRedis(log[cur])
      <4>1. local_cache' \subseteq local_cache \cup {log[cur]}
        BY <3>2, <2>1, <1>b, AddKeepsCache DEF FoundInRedis
      <4> QED BY <4>1, <3>2, <2>2 DEF FoundInRedis, DuplicateWasMarked
    <3> QED BY <3>1, <3>2, <1>2 DEF SkipDuplicate
  <2>4. MarkedWasHandled'
    BY <2>1, <1>c DEF MarkedWasHandled
  <2>5. Handled(log[cur]) /\ log[cur] # NoKey
    BY <2>2, <1>2 DEF MarkedWasHandled, SkipDuplicate
  <2>6. skipped' = skipped \cup {cur}
    BY <1>2 DEF SkipDuplicate
  <2>7. SkippedKeyHandled'
    BY <2>1, <2>5, <2>6, <1>c DEF SkippedKeyHandled
  <2> QED BY <2>3, <2>4, <2>7
<1>3. CASE Mark \/ \E e \in ClientErrors : MarkRaises(e)
  <2>1. /\ pc = "mark" /\ UNCHANGED <<log, handled, skipped>>
        /\ cur \in 1..Len(log) /\ log[cur] \in Key
    BY <1>3, <1>a DEF Mark, MarkRaises, Raise, Goto, Processing, history_vars, Types, TypeOK
  <2>2. Handled(log[cur])
    BY <2>1 DEF StepTells, Handled
  <2>3. /\ marked' \subseteq marked \cup {log[cur]}
        /\ DuplicateWasMarked'
    <3>1. CASE UNCHANGED dedup_vars
      BY <3>1 DEF dedup_vars, DuplicateWasMarked
    <3>2. CASE MarkProcessed(log[cur])
      <4>1. local_cache' \subseteq local_cache \cup {log[cur]}
        BY <3>2, <2>1, <1>b, AddKeepsCache DEF MarkProcessed
      <4> QED BY <4>1, <3>2 DEF MarkProcessed, DuplicateWasMarked
    <3>3. CASE MarkProcessedUnacknowledged(log[cur])
      BY <3>3 DEF MarkProcessedUnacknowledged, DuplicateWasMarked
    <3> QED BY <3>1, <3>2, <3>3, <1>3 DEF Mark, MarkRaises
  <2>4. MarkedWasHandled'
    BY <2>2, <2>3, <1>c DEF MarkedWasHandled
  <2>5. SkippedKeyHandled'
    BY <2>1, <1>c DEF SkippedKeyHandled
  <2> QED BY <2>3, <2>4, <2>5
<1>4. CASE Crash \/ \E key \in Key : ExpireKey(key)
  <2>1. UNCHANGED <<log, handled, skipped, marked>>
    BY <1>4 DEF Crash, ForgetLocal, ExpireKey, Expire, history_vars
  <2>2. DuplicateWasMarked'
    BY <1>4 DEF Crash, ForgetLocal, ExpireKey, Expire, DuplicateWasMarked
  <2>3. MarkedWasHandled' /\ SkippedKeyHandled'
    BY <2>1, <1>c DEF MarkedWasHandled, SkippedKeyHandled
  <2> QED BY <2>2, <2>3
<1>5. \/ UNCHANGED <<dedup_vars, skipped>>
      \/ SkipDuplicate \/ Mark \/ \E e \in ClientErrors : MarkRaises(e)
      \/ Crash \/ \E key \in Key : ExpireKey(key)
  BY DEF Next, LoopStep, ErrorHandling, Environment, vars, history_vars, Publish, Consume,
         ConsumeRaises, AcceptNew, NotFound, CheckRaises, CommitDuplicate, HandlerReturns, HandlerRaises,
         CommitHandled, CommitHandledRaises, BeginRetry, RetryReturns, RetryRaises,
         CommitRetried, GiveUp, SendToDlq, SendToDlqFails, CommitDlq, Stop, Start, Rebalance
<1> QED BY <1>1, <1>2, <1>3, <1>4, <1>5

(***************************************************************************)
(* The committed offset and the loop's position stay behind outcomes.      *)
(***************************************************************************)
LEMMA OutcomesKept ==
    ASSUME Types, Types', Accounting, [Next]_vars
    PROVE  PassedHasOutcome' /\ BeforeInFlightHasOutcome' /\ CommittedHasOutcome'
<1> USE DEF Accounting
<1>a. /\ Len(log) \in Nat /\ MaxLog \in Nat /\ Len(log) <= MaxLog
      /\ committed \in 0..Len(log) /\ position \in 0..Len(log) /\ cur \in 0..Len(log)
      /\ pc \in Processing => cur >= 1
  BY ReliabilityAssumption DEF Types, TypeOK
<1>b. \A o \in 1..MaxLog : HasOutcome(o) => HasOutcome(o)'
  BY OutcomeKept DEF Message
<1>c. pc \in {"dup_commit", "commit", "retry_commit", "dlq_commit"} => HasOutcome(cur)
  BY DEF StepTells, HasOutcome
<1>1. CommittedHasOutcome'
  <2>1. CASE committed' = committed
    BY <2>1, <1>a, <1>b DEF CommittedHasOutcome
  <2>2. CASE committed' = cur /\ pc \in {"dup_commit", "commit", "retry_commit", "dlq_commit"}
    <3>1. \A o \in 1..cur : HasOutcome(o)
      BY <2>2, <1>a, <1>c DEF BeforeInFlightHasOutcome, Processing
    <3> QED BY <3>1, <2>2, <1>a, <1>b DEF CommittedHasOutcome
  <2> QED BY <2>1, <2>2, OffsetMoves
<1>2. CASE Undisturbed
  <2>1. pc' = pc /\ cur' = cur /\ position' = position
    BY <1>2 DEF Undisturbed
  <2>2. PassedHasOutcome'
    BY <2>1, <1>a, <1>b DEF PassedHasOutcome
  <2>3. BeforeInFlightHasOutcome'
    BY <2>1, <1>a, <1>b DEF BeforeInFlightHasOutcome
  <2> QED BY <1>1, <2>2, <2>3
<1>3. CASE Consume
  <2>1. /\ pc = "idle" /\ pc' = "check" /\ cur' = position + 1 /\ position' = position + 1
        /\ position + 1 <= Len(log)
    BY <1>3, <1>a DEF Consume
  <2>2. \A o \in 1..position : HasOutcome(o)
    BY <2>1 DEF PassedHasOutcome, Running, Processing
  <2>3. \A o \in 1..position : HasOutcome(o)'
    BY <2>2, <1>a, <1>b
  <2>4. PassedHasOutcome'
    BY <2>1, <2>3, <1>a DEF PassedHasOutcome, Processing
  <2>5. BeforeInFlightHasOutcome'
    BY <2>1, <2>3, <1>a DEF BeforeInFlightHasOutcome
  <2> QED BY <1>1, <2>4, <2>5
<1>4. CASE Resumes
  <2>1. \A o \in 1..committed : HasOutcome(o)'
    BY <1>a, <1>b DEF CommittedHasOutcome
  <2>2. PassedHasOutcome'
    BY <1>4, <2>1 DEF Resumes, PassedHasOutcome
  <2>3. BeforeInFlightHasOutcome'
    BY <1>4, <1>a, <1>b DEF Resumes, BeforeInFlightHasOutcome, Processing
  <2> QED BY <1>1, <2>2, <2>3
<1>5. CASE Moves
  BY <1>1, <1>5, <1>a, <1>b DEF Moves, PassedHasOutcome, BeforeInFlightHasOutcome, Running
<1>6. CASE Finishes
  <2>1. HasOutcome(cur)'
    BY <1>6, StepTellsKept
  <2>2. PassedHasOutcome'
    BY <1>6, <2>1, <1>a, <1>b DEF Finishes, PassedHasOutcome, Running
  <2>3. BeforeInFlightHasOutcome'
    BY <1>6 DEF Finishes, BeforeInFlightHasOutcome, Processing
  <2> QED BY <1>1, <2>2, <2>3
<1>7. CASE Ends
  BY <1>1, <1>7 DEF Ends, PassedHasOutcome, BeforeInFlightHasOutcome, Running
<1> QED BY <1>1, <1>2, <1>3, <1>4, <1>5, <1>6, <1>7, StepSorts

(***************************************************************************)
(* The accounting invariant is inductive.                                  *)
(***************************************************************************)
LEMMA IInvInductive == (Init => IInv) /\ (IInv /\ [Next]_vars => IInv')
<1>1. Init => IInv
  BY InitTypes, ReliabilityAssumption
     DEF Init, DedupInit, IInv, Accounting, StepTells, PassedHasOutcome, BeforeInFlightHasOutcome,
         CommittedHasOutcome, DuplicateWasMarked, MarkedWasHandled, SkippedKeyHandled, Processing
<1>2. ASSUME IInv, [Next]_vars PROVE IInv'
  <2>1. Types /\ Types' /\ Accounting
    BY <1>2, StepTypes DEF IInv
  <2>2. StepTells'
    BY <1>2, <2>1, StepTellsKept DEF Accounting
  <2> QED BY <1>2, <2>1, <2>2, KeysKept, OutcomesKept DEF IInv, Accounting
<1> QED BY <1>1, <1>2

(***************************************************************************)
(* The only way to lose a message is to abandon it: whatever the group has *)
(* committed past was handled, dead-lettered or a duplicate of a handled   *)
(* event, or was given up by a failed retry or a failed DLQ send.          *)
(***************************************************************************)
THEOREM NothingElseIsLost == Spec => []CommittedIsAccounted
<1>1. IInv => CommittedIsAccounted
  <2> SUFFICES ASSUME IInv, NEW o \in 1..committed
               PROVE  Settled(o) \/ o \in abandoned
    BY DEF CommittedIsAccounted
  <2>1. HasOutcome(o)
    BY DEF IInv, Accounting, CommittedHasOutcome
  <2>2. o \in skipped => log[o] # NoKey /\ Handled(log[o])
    BY DEF IInv, Accounting, SkippedKeyHandled
  <2> QED BY <2>1, <2>2 DEF HasOutcome, Settled, Handled
<1> QED BY <1>1, IInvInductive, PTL DEF Spec

(***************************************************************************)
(* A message is skipped as a duplicate only when its event was handled.    *)
(***************************************************************************)
THEOREM SkipsAreSafe == Spec => []SkippedWasHandled
<1>1. IInv => SkippedWasHandled
  BY DEF IInv, Accounting, SkippedKeyHandled, SkippedWasHandled, Handled
<1> QED BY <1>1, IInvInductive, PTL DEF Spec

-----------------------------------------------------------------------------
(* The cost of a delivery.  TwoEffectsPerDelivery is not inductive: what   *)
(* the message in flight may still cost depends on the step the loop is    *)
(* at, and on whether a rebalance has already counted its redelivery.      *)

Spent(step) ==
    IF step \in {"check", "dup_commit", "handler"} THEN 0
    ELSE IF step \in {"commit", "mark", "error", "dlq"} THEN 1 ELSE 2

Allowance(o) ==
    IF pc \in {"down", "stopped"} THEN 2 * disruptions
    ELSE IF o = cur /\ pc \in Processing
    THEN IF o <= position THEN 2 * disruptions + Spent(pc) ELSE 2 * disruptions + Spent(pc) - 2
    ELSE IF o <= position THEN 2 * disruptions + 2 ELSE 2 * disruptions

WithinAllowance == \A o \in Message : Effects(o) <= Allowance(o)

RetryIsCounted == pc = "retry" => retry_count[cur] >= 1

CostInv == Types /\ RetryIsCounted /\ WithinAllowance

\* Steps that add no effect and do not lower what the message in flight may
\* have cost, and steps that add one effect of the message in flight.
Quiet ==
    /\ \A o \in Message : Effects(o)' <= Effects(o)
    /\ UNCHANGED <<cur, position, disruptions>>
    /\ \/ pc' = pc
       \/ pc \in Processing /\ pc' \in {"idle", "dead"}
       \/ pc \in Processing /\ pc' \in Processing /\ Spent(pc) <= Spent(pc')
       \/ pc = "idle" /\ pc' = "dead"

Spends ==
    /\ Effects(cur)' <= Effects(cur) + 1
    /\ \A o \in Message : o # cur => Effects(o)' <= Effects(o)
    /\ UNCHANGED <<cur, position, disruptions>>
    /\ pc \in Processing /\ pc' \in Processing
    /\ Spent(pc') = Spent(pc) + 1

(***************************************************************************)
(* The effects of a message, and each of their kinds, are a number.        *)
(***************************************************************************)
LEMMA EffectsNat ==
    ASSUME Types, NEW o \in Message
    PROVE  /\ Effects(o) \in Nat
           /\ handled[o] \in Nat /\ dlq[o] \in Nat /\ retry_count[o] \in Nat
BY DEF Types, TypeOK, Effects

(***************************************************************************)
(* A running retry has been counted.                                       *)
(***************************************************************************)
LEMMA CountedKept == ASSUME Types, RetryIsCounted, [Next]_vars PROVE RetryIsCounted'
<1> SUFFICES ASSUME pc' = "retry" PROVE retry_count'[cur'] >= 1
  BY DEF RetryIsCounted
<1>1. CASE BeginRetry
  <2>1. cur \in Message /\ retry_count \in [Message -> Nat]
    BY <1>1, InFlight DEF BeginRetry, Goto, Types, TypeOK, Processing
  <2>2. cur' = cur /\ retry_count' = [retry_count EXCEPT ![cur] = @ + 1]
    BY <1>1 DEF BeginRetry
  <2>3. retry_count[cur] \in Nat /\ retry_count'[cur] = retry_count[cur] + 1
    BY <2>1, <2>2
  <2> QED BY <2>2, <2>3
<1>2. CASE UNCHANGED <<pc, cur, retry_count>>
  BY <1>2 DEF RetryIsCounted
<1>3. BeginRetry \/ UNCHANGED <<pc, cur, retry_count>>
  BY DEF Next, LoopStep, ErrorHandling, Environment, vars, loop_vars, Goto, Raise, Publish,
         Consume, ConsumeRaises, SkipDuplicate, AcceptNew, CheckRaises, CommitDuplicate,
         HandlerReturns, HandlerRaises, CommitHandled, CommitHandledRaises, Mark, MarkRaises,
         RetryReturns, RetryRaises, CommitRetried, GiveUp, SendToDlq, SendToDlqFails, CommitDlq,
         ExpireKey, Crash, Stop, Start, Rebalance
<1> QED BY <1>1, <1>2, <1>3

(***************************************************************************)
(* Every step of the loop but Consume is quiet or spends; the other steps  *)
(* are the fetch and the disruptions.                                      *)
(***************************************************************************)
LEMMA StepCosts ==
    ASSUME Types, Types', RetryIsCounted, [Next]_vars
    PROVE  Quiet \/ Spends \/ Consume \/ Crash \/ Stop \/ Start \/ Rebalance
<1>a. pc \in Processing => cur \in Message
  BY InFlight DEF Types
<1>b. /\ handled \in [Message -> Nat] /\ dlq \in [Message -> Nat]
      /\ retry_count \in [Message -> Nat]
  BY DEF Types, TypeOK
<1>c. ASSUME UNCHANGED <<handled, dlq, retry_count>>
      PROVE  \A o \in Message : Effects(o)' <= Effects(o)
  BY <1>c, <1>b DEF Effects
<1>1. CASE \/ UNCHANGED vars
           \/ \E key \in Key \cup {NoKey} : Publish(key)
           \/ \E key \in Key : ExpireKey(key)
  <2>1. UNCHANGED <<handled, dlq, retry_count, cur, position, disruptions, pc>>
    BY <1>1 DEF vars, Publish, ExpireKey, loop_vars, history_vars
  <2> QED BY <2>1, <1>c DEF Quiet
<1>2. CASE \/ ConsumeRaises \/ SkipDuplicate \/ AcceptNew \/ CheckRaises \/ CommitDuplicate
           \/ CommitHandled \/ Mark \/ RetryRaises \/ CommitRetried \/ GiveUp
           \/ SendToDlqFails \/ CommitDlq
           \/ \E e \in HandlerErrors : HandlerRaises(e)
           \/ \E e \in ClientErrors : CommitHandledRaises(e) \/ MarkRaises(e)
  <2>1. /\ UNCHANGED <<handled, dlq, retry_count, cur, position, disruptions>>
        /\ \/ pc \in Processing /\ pc' \in {"idle", "dead"}
           \/ pc \in Processing /\ pc' \in Processing /\ Spent(pc) <= Spent(pc')
           \/ pc = "idle" /\ pc' = "dead"
    BY <1>2 DEF ConsumeRaises, SkipDuplicate, AcceptNew, CheckRaises, CommitDuplicate,
         CommitHandled, Mark, RetryRaises, CommitRetried, GiveUp, SendToDlqFails, CommitDlq,
         HandlerRaises, CommitHandledRaises, MarkRaises, Goto, Raise, Processing, Spent, history_vars
  <2> QED BY <2>1, <1>c DEF Quiet
<1>3. CASE HandlerReturns
  <2>1. /\ handled' = [handled EXCEPT ![cur] = @ + 1]
        /\ UNCHANGED <<dlq, retry_count, cur, position, disruptions>>
        /\ pc \in Processing /\ pc' \in Processing /\ Spent(pc') = Spent(pc) + 1
    BY <1>3 DEF HandlerReturns, Goto, Processing, Spent
  <2>2. /\ handled'[cur] = handled[cur] + 1
        /\ \A o \in Message : o # cur => handled'[o] = handled[o]
    BY <2>1, <1>a, <1>b
  <2>3. /\ Effects(cur)' <= Effects(cur) + 1
        /\ \A o \in Message : o # cur => Effects(o)' <= Effects(o)
    BY <2>1, <2>2, <1>a, <1>b DEF Effects
  <2> QED BY <2>1, <2>3 DEF Spends
<1>4. CASE BeginRetry
  <2>1. /\ retry_count' = [retry_count EXCEPT ![cur] = @ + 1]
        /\ UNCHANGED <<handled, dlq, cur, position, disruptions>>
        /\ pc \in Processing /\ pc' \in Processing /\ Spent(pc') = Spent(pc) + 1
    BY <1>4 DEF BeginRetry, Goto, Processing, Spent, history_vars
  <2>2. /\ retry_count'[cur] = retry_count[cur] + 1
        /\ \A o \in Message : o # cur => retry_count'[o] = retry_count[o]
    BY <2>1, <1>a, <1>b
  <2>3. /\ Effects(cur)' <= Effects(cur) + 1
        /\ \A o \in Message : o # cur => Effects(o)' <= Effects(o)
    BY <2>1, <2>2, <1>a, <1>b DEF Effects
  <2> QED BY <2>1, <2>3 DEF Spends
<1>5. CASE SendToDlq
  <2>1. /\ dlq' = [dlq EXCEPT ![cur] = @ + 1]
        /\ retry_count' = [retry_count EXCEPT ![cur] = 0]
        /\ UNCHANGED <<handled, cur, position, disruptions>>
        /\ pc \in Processing /\ pc' \in Processing /\ Spent(pc') = Spent(pc) + 1
    BY <1>5 DEF SendToDlq, Goto, Processing, Spent
  <2>2. /\ dlq'[cur] = dlq[cur] + 1 /\ retry_count'[cur] = 0
        /\ \A o \in Message : o # cur => dlq'[o] = dlq[o] /\ retry_count'[o] = retry_count[o]
    BY <2>1, <1>a, <1>b
  <2>3. /\ Effects(cur)' <= Effects(cur) + 1
        /\ \A o \in Message : o # cur => Effects(o)' <= Effects(o)
    BY <2>1, <2>2, <1>a, <1>b DEF Effects
  <2> QED BY <2>1, <2>3 DEF Spends
<1>6. CASE RetryReturns
  <2>1. /\ handled' = [handled EXCEPT ![cur] = @ + 1]
        /\ retry_count' = [retry_count EXCEPT ![cur] = 0]
        /\ UNCHANGED <<dlq, cur, position, disruptions>>
        /\ pc \in Processing /\ pc' \in Processing /\ Spent(pc) <= Spent(pc')
        /\ pc = "retry"
    BY <1>6 DEF RetryReturns, Goto, Processing, Spent
  <2>2. /\ handled'[cur] = handled[cur] + 1 /\ retry_count'[cur] = 0
        /\ \A o \in Message : o # cur => handled'[o] = handled[o] /\ retry_count'[o] = retry_count[o]
    BY <2>1, <1>a, <1>b
  <2>3. retry_count[cur] >= 1
    BY <2>1 DEF RetryIsCounted
  <2>4. \A o \in Message : Effects(o)' <= Effects(o)
    BY <2>1, <2>2, <2>3, <1>a, <1>b DEF Effects
  <2> QED BY <2>1, <2>4 DEF Quiet
<1> QED
  BY <1>1, <1>2, <1>3, <1>4, <1>5, <1>6 DEF Next, LoopStep, ErrorHandling, Environment

(***************************************************************************)
(* The allowance is kept.                                                  *)
(***************************************************************************)
LEMMA AllowanceKept ==
    ASSUME CostInv, Types', [Next]_vars
    PROVE  WithinAllowance'
<1> USE DEF CostInv
<1> SUFFICES ASSUME NEW o \in Message PROVE Effects(o)' <= Allowance(o)'
  BY DEF WithinAllowance
<1>i. disruptions \in Nat /\ position \in Nat /\ cur \in Nat
  BY ReliabilityAssumption DEF Types, TypeOK
<1>j. disruptions' \in Nat /\ position' \in Nat /\ cur' \in Nat
  BY ReliabilityAssumption DEF Types, TypeOK
<1>k. Effects(o) \in Nat /\ (pc \in Processing => cur \in Message)
  BY EffectsNat, InFlight DEF Types
<1>l. o \in Nat
  BY ReliabilityAssumption DEF Message
<1>m. handled' \in [Message -> Nat] /\ dlq' \in [Message -> Nat] /\ retry_count' \in [Message -> Nat]
  BY DEF Types, TypeOK, Message
<1>a. /\ Effects(o) \in Nat /\ disruptions \in Nat /\ position \in Nat /\ cur \in Nat /\ o \in Nat
      /\ position' \in Nat /\ cur' \in Nat /\ disruptions' \in Nat
      /\ pc \in Processing => cur \in Message
  BY <1>i, <1>j, <1>k, <1>l
<1>b. Effects(o)' \in Nat
  BY <1>m DEF Effects
<1>c. Effects(o) <= Allowance(o)
  BY DEF WithinAllowance
<1>d. Spent(pc) \in 0..2 /\ Spent(pc') \in 0..2
  BY DEF Spent
<1>e. Effects(o) <= 2 * disruptions + 2
  BY <1>a, <1>c, <1>d DEF Allowance
<1> HIDE DEF CostInv
<1>1. CASE Quiet
  <2>1. /\ Effects(o)' <= Effects(o)
        /\ cur' = cur /\ position' = position /\ disruptions' = disruptions
    BY <1>1 DEF Quiet
  <2>2. CASE pc' = pc
    <3>1. Allowance(o)' = Allowance(o)
      BY <2>1, <2>2 DEF Allowance
    <3>2. Allowance(o) \in Int
      BY <1>a, <1>d DEF Allowance
    <3> HIDE DEF Allowance, Effects
    <3> QED BY <2>1, <3>1, <3>2, <1>a, <1>b, <1>c
  <2>3. CASE pc \in Processing /\ pc' \in {"idle", "dead"}
    BY <2>1, <2>3, <1>a, <1>b, <1>c, <1>d DEF Allowance, Processing
  <2>4. CASE pc \in Processing /\ pc' \in Processing /\ Spent(pc) <= Spent(pc')
    BY <2>1, <2>4, <1>a, <1>b, <1>c, <1>d DEF Allowance, Processing
  <2>5. CASE pc = "idle" /\ pc' = "dead"
    BY <2>1, <2>5, <1>a, <1>b, <1>c DEF Allowance, Processing
  <2> QED BY <1>1, <2>2, <2>3, <2>4, <2>5 DEF Quiet
<1>2. CASE Spends
  <2>1. /\ cur' = cur /\ position' = position /\ disruptions' = disruptions
        /\ pc \in Processing /\ pc' \in Processing
        /\ Spent(pc') = Spent(pc) + 1
        /\ o = cur => Effects(o)' <= Effects(o) + 1
        /\ o # cur => Effects(o)' <= Effects(o)
    BY <1>2 DEF Spends
  <2> QED BY <2>1, <1>a, <1>b, <1>c, <1>d DEF Allowance, Processing
<1>3. CASE Consume
  <2>1. /\ cur' = position + 1 /\ position' = position + 1 /\ disruptions' = disruptions
        /\ pc = "idle" /\ pc' = "check"
        /\ UNCHANGED <<handled, dlq, retry_count>>
    BY <1>3 DEF Consume, history_vars
  <2>2. Effects(o)' = Effects(o)
    BY <2>1 DEF Effects
  <2> QED BY <2>1, <2>2, <1>a, <1>b, <1>c DEF Allowance, Processing, Spent
<1>4. CASE Crash
  <2>1. /\ disruptions' = disruptions + 1 /\ pc' = "down" /\ UNCHANGED <<handled, dlq>>
        /\ retry_count' = [p \in Message |-> 0]
    BY <1>4 DEF Crash, Disrupt, history_vars
  <2>2. Effects(o)' <= Effects(o)
    BY <2>1, EffectsNat DEF Effects, CostInv
  <2>3. Allowance(o)' = 2 * disruptions'
    BY <2>1 DEF Allowance
  <2> HIDE DEF Effects, Allowance
  <2> QED BY <2>1, <2>2, <2>3, <1>a, <1>b, <1>e
<1>5. CASE Stop
  <2>1. /\ disruptions' = disruptions + 1 /\ pc' = "stopped"
        /\ UNCHANGED <<handled, dlq, retry_count>>
    BY <1>5 DEF Stop, Disrupt, history_vars
  <2>2. Effects(o)' = Effects(o) /\ Allowance(o)' = 2 * disruptions'
    BY <2>1 DEF Effects, Allowance
  <2> HIDE DEF Effects, Allowance
  <2> QED BY <2>1, <2>2, <1>a, <1>b, <1>e
<1>6. CASE Start
  <2>1. /\ pc \in {"down", "stopped"} /\ pc' = "idle" /\ disruptions' = disruptions
        /\ UNCHANGED <<handled, dlq, retry_count>>
    BY <1>6 DEF Start, history_vars
  <2>2. Effects(o)' = Effects(o)
    BY <2>1 DEF Effects
  <2> QED BY <2>1, <2>2, <1>a, <1>b, <1>c DEF Allowance, Processing
<1>7. CASE Rebalance
  <2>1. /\ pc \in Running /\ pc' = pc /\ cur' = cur /\ disruptions' = disruptions + 1
        /\ UNCHANGED <<handled, dlq, retry_count>>
    BY <1>7 DEF Rebalance, Disrupt, history_vars, loop_vars
  <2>2. Effects(o)' = Effects(o)
    BY <2>1 DEF Effects
  <2> QED BY <2>1, <2>2, <1>a, <1>b, <1>c, <1>d DEF Allowance, Processing, Running
<1> QED BY <1>1, <1>2, <1>3, <1>4, <1>5, <1>6, <1>7, StepCosts DEF CostInv

(***************************************************************************)
(* The consumption loop causes at most two effects of a message for each   *)
(* delivery, and delivers it at most once more for each disruption.        *)
(***************************************************************************)
THEOREM EffectsAreBounded == Spec => []TwoEffectsPerDelivery
<1>1. Init => CostInv
  <2> SUFFICES ASSUME Init PROVE CostInv
    OBVIOUS
  <2>1. Types
    BY InitTypes
  <2>2. RetryIsCounted
    BY DEF Init, RetryIsCounted
  <2>3. WithinAllowance
    BY ReliabilityAssumption DEF Init, WithinAllowance, Effects, Allowance, Processing, Message
  <2> QED BY <2>1, <2>2, <2>3 DEF CostInv
<1>2. CostInv /\ [Next]_vars => CostInv'
  BY StepTypes, CountedKept, AllowanceKept DEF CostInv
<1>3. CostInv => TwoEffectsPerDelivery
  <2> SUFFICES ASSUME CostInv, NEW o \in Message PROVE Effects(o) <= 2 * (disruptions + 1)
    BY DEF TwoEffectsPerDelivery
  <2>1. Effects(o) \in Nat /\ disruptions \in Nat /\ Effects(o) <= Allowance(o)
    BY EffectsNat DEF CostInv, Types, TypeOK, WithinAllowance
  <2>2. Allowance(o) \in Int /\ Allowance(o) <= 2 * disruptions + 2
    BY <2>1 DEF Allowance, Spent
  <2> HIDE DEF Effects, Allowance
  <2> QED BY <2>1, <2>2
<1> QED BY <1>1, <1>2, <1>3, PTL DEF Spec

-----------------------------------------------------------------------------
(* Deduplication of what Redis still records.                              *)

\* The message whose handler is about to run is not recorded in Redis.
Unrecorded == pc = "handler" => log[cur] \notin redis_keys

(***************************************************************************)
(* While Redis holds an event's key, only the retry of the delivery that   *)
(* wrote it can execute the handler for that event once more.              *)
(***************************************************************************)
THEOREM RecordedIsFinal == Spec => RecordedNotReexecuted
<1> DEFINE Reexecution == \A o \in Message :
              handled'[o] > handled[o] => log[o] \notin redis_keys \/ pc = "retry"
<1>1. Init => Unrecorded
  BY DEF Init, Unrecorded
<1>2. Types /\ Unrecorded /\ [Next]_vars => Unrecorded'
  <2> SUFFICES ASSUME Types, Unrecorded, [Next]_vars, pc' = "handler"
               PROVE  log'[cur'] \notin redis_keys'
    BY DEF Unrecorded
  <2>1. CASE AcceptNew
    BY <2>1, ReliabilityAssumption
       DEF AcceptNew, NotFound, dedup_vars, Types, TypeOK, DedupTypeOK
  <2>2. CASE pc = "handler" /\ UNCHANGED cur /\ redis_keys' \subseteq redis_keys
    <3>1. cur \in 1..Len(log)
      BY <2>2, InFlight DEF Types, Processing
    <3>2. log'[cur] = log[cur]
      BY <3>1, HistoryGrows
    <3> QED BY <2>2, <3>2 DEF Unrecorded
  <2>3. AcceptNew \/ (pc = "handler" /\ UNCHANGED cur /\ redis_keys' \subseteq redis_keys)
    BY DEF Next, LoopStep, ErrorHandling, Environment, vars, loop_vars, dedup_vars, Goto, Raise,
           Publish, Consume, ConsumeRaises, SkipDuplicate, CheckRaises, CommitDuplicate, HandlerReturns,
           HandlerRaises, CommitHandled, CommitHandledRaises, Mark, MarkRaises, BeginRetry,
           RetryReturns, RetryRaises, CommitRetried, GiveUp, SendToDlq, SendToDlqFails, CommitDlq,
           ExpireKey, Expire, Crash, Stop, Start, Rebalance
  <2> QED BY <2>1, <2>2, <2>3
<1>3. Types /\ Unrecorded /\ [Next]_vars => Reexecution
  <2> SUFFICES ASSUME Types, Unrecorded, [Next]_vars PROVE Reexecution
    OBVIOUS
  <2>a. handled \in [Message -> Nat]
    BY DEF Types, TypeOK
  <2>1. CASE HandlerReturns
    <3>1. pc = "handler" /\ handled' = [handled EXCEPT ![cur] = @ + 1]
      BY <2>1 DEF HandlerReturns, Goto
    <3>2. \A o \in Message : o # cur => handled'[o] = handled[o]
      BY <3>1, <2>a
    <3> QED BY <3>1, <3>2, <2>a DEF Unrecorded
  <2>2. CASE RetryReturns
    BY <2>2 DEF RetryReturns, Goto
  <2>3. CASE UNCHANGED handled
    BY <2>3, <2>a
  <2>4. HandlerReturns \/ RetryReturns \/ UNCHANGED handled
    BY DEF Next, LoopStep, ErrorHandling, Environment, vars, history_vars, Publish, Consume,
           ConsumeRaises, SkipDuplicate, AcceptNew, CheckRaises, CommitDuplicate, HandlerRaises, CommitHandled,
           CommitHandledRaises, Mark, MarkRaises, BeginRetry, RetryRaises, CommitRetried, GiveUp,
           SendToDlq, SendToDlqFails, CommitDlq, ExpireKey, Crash, Stop, Start, Rebalance
  <2> QED BY <2>1, <2>2, <2>3, <2>4
<1>4. Types /\ Unrecorded /\ [Next]_vars => [Reexecution]_vars
  BY <1>3
<1> QED BY <1>1, <1>2, <1>4, InitTypes, StepTypes, PTL DEF Spec, RecordedNotReexecuted

-----------------------------------------------------------------------------
(* Refinement.                                                             *)

(***************************************************************************)
(* Every step of the loop is a step of AccountedDelivery or leaves its     *)
(* state alone.                                                            *)
(***************************************************************************)
LEMMA StepRefines ==
    ASSUME IInv, IInv', [Next]_vars
    PROVE  [Promise!DeliveryNext]_(Promise!delivery_vars)
<1> DEFINE out == [o \in Message |-> OutcomesOf(o)]
<1>a. pc \in Processing => cur \in Message /\ cur \in 1..Len(log)
  BY InFlight DEF IInv, Types
<1>b. \A o \in Message : handled[o] \in Nat /\ handled'[o] \in Nat /\ dlq[o] \in Nat /\ dlq'[o] \in Nat
  BY DEF IInv, Types, TypeOK
<1>c. /\ handled \in [Message -> Nat] /\ dlq \in [Message -> Nat]
      /\ Len(log) \in Nat /\ cur \in 0..Len(log)
  BY DEF IInv, Types, TypeOK
<1>1. CASE UNCHANGED <<log, committed, history_vars>>
  <2>1. Len(log)' = Len(log) /\ committed' = committed /\ out' = out
    BY <1>1 DEF history_vars, OutcomesOf, Message
  <2> QED BY <2>1 DEF Promise!delivery_vars
<1>2. ASSUME NEW key \in Key \cup {NoKey}, Publish(key)
      PROVE  [Promise!DeliveryNext]_(Promise!delivery_vars)
  <2>1. Len(log)' = Len(log) + 1 /\ committed' = committed
    BY <1>2 DEF Publish, IInv, Types, TypeOK
  <2>2. out' = out
    BY <1>2 DEF Publish, history_vars, OutcomesOf
  <2>3. Promise!Arrive
    BY <2>1, <2>2 DEF Promise!Arrive
  <2> QED BY <2>3 DEF Promise!DeliveryNext
<1>3. ASSUME NEW kind \in Promise!Outcome, pc \in Processing, UNCHANGED <<log, committed>>,
             \A o \in Message : OutcomesOf(o)' =
                 IF o = cur THEN OutcomesOf(o) \cup {kind} ELSE OutcomesOf(o)
      PROVE  [Promise!DeliveryNext]_(Promise!delivery_vars)
  <2>1. out' = [out EXCEPT ![cur] = @ \cup {kind}]
    BY <1>3, <1>a
  <2>2. Len(log)' = Len(log) /\ cur <= Len(log) /\ cur \in Message
    BY <1>3, <1>a, <1>c
  <2>3. Promise!Resolve(cur, kind)
    BY <1>3, <2>1, <2>2 DEF Promise!Resolve
  <2> QED BY <2>2, <2>3, <1>3 DEF Promise!DeliveryNext
<1>4. CASE SkipDuplicate
  <2>1. pc \in Processing /\ UNCHANGED <<log, committed, handled, dlq, abandoned>> /\ skipped' = skipped \cup {cur}
    BY <1>4 DEF SkipDuplicate, Goto, Processing
  <2>2. \A o \in Message : OutcomesOf(o)' =
                 IF o = cur THEN OutcomesOf(o) \cup {"duplicate"} ELSE OutcomesOf(o)
    BY <2>1 DEF OutcomesOf
  <2> QED BY <1>3, <2>1, <2>2 DEF Promise!Outcome
<1>5. CASE HandlerReturns \/ RetryReturns
  <2>1. /\ pc \in Processing /\ UNCHANGED <<log, committed, dlq, skipped, abandoned>>
        /\ handled' = [handled EXCEPT ![cur] = @ + 1]
    BY <1>5 DEF HandlerReturns, RetryReturns, Goto, Processing
  <2>2. handled'[cur] > 0 /\ \A o \in Message : o # cur => handled'[o] = handled[o]
    BY <2>1, <1>a, <1>b, <1>c
  <2>3. \A o \in Message : OutcomesOf(o)' =
                 IF o = cur THEN OutcomesOf(o) \cup {"handled"} ELSE OutcomesOf(o)
    BY <2>1, <2>2 DEF OutcomesOf
  <2> QED BY <1>3, <2>1, <2>3 DEF Promise!Outcome
<1>6. CASE SendToDlq
  <2>1. /\ pc \in Processing /\ UNCHANGED <<log, committed, handled, skipped, abandoned>>
        /\ dlq' = [dlq EXCEPT ![cur] = @ + 1]
    BY <1>6 DEF SendToDlq, Goto, Processing
  <2>2. dlq'[cur] > 0 /\ \A o \in Message : o # cur => dlq'[o] = dlq[o]
    BY <2>1, <1>a, <1>b, <1>c
  <2>3. \A o \in Message : OutcomesOf(o)' =
                 IF o = cur THEN OutcomesOf(o) \cup {"dead_letter"} ELSE OutcomesOf(o)
    BY <2>1, <2>2 DEF OutcomesOf
  <2> QED BY <1>3, <2>1, <2>3 DEF Promise!Outcome
<1>7. CASE RetryRaises \/ SendToDlqFails
  <2>1. pc \in Processing /\ UNCHANGED <<log, committed, handled, dlq, skipped>> /\ abandoned' = abandoned \cup {cur}
    BY <1>7 DEF RetryRaises, SendToDlqFails, Goto, Processing
  <2>2. \A o \in Message : OutcomesOf(o)' =
                 IF o = cur THEN OutcomesOf(o) \cup {"abandoned"} ELSE OutcomesOf(o)
    BY <2>1 DEF OutcomesOf
  <2> QED BY <1>3, <2>1, <2>2 DEF Promise!Outcome
<1>8. CASE pc \in Processing /\ committed' = cur /\ UNCHANGED <<log, history_vars>>
  <2>1. out' = out /\ Len(log)' = Len(log)
    BY <1>8 DEF history_vars, OutcomesOf
  <2>2. \A o \in 1..committed' : HasOutcome(o)'
    BY DEF IInv, Accounting, CommittedHasOutcome
  <2>3. \A o \in Message : o <= cur => OutcomesOf(o) # {}
    BY <1>8, <2>2, <1>c DEF HasOutcome, OutcomesOf, Message, history_vars
  <2>4. cur \in Message /\ cur <= Len(log)
    BY <1>8, <1>a, <1>c
  <2>5. Promise!MoveOffset(cur)
    BY <1>8, <2>1, <2>3, <2>4 DEF Promise!MoveOffset
  <2> QED BY <2>4, <2>5 DEF Promise!DeliveryNext
<1>9. CASE CommitDuplicate \/ CommitHandled \/ CommitRetried \/ CommitDlq
           \/ \E e \in ClientErrors : CommitHandledRaises(e)
  <2>1. /\ pc \in Processing /\ UNCHANGED <<log, history_vars>>
        /\ committed' = cur \/ committed' = committed
    BY <1>9 DEF CommitDuplicate, CommitHandled, CommitRetried, CommitDlq, CommitHandledRaises,
                Commit, CommitFails, Raise, Goto, Processing
  <2> QED BY <2>1, <1>1, <1>8
<1>10. \/ UNCHANGED <<log, committed, history_vars>>
       \/ \E key \in Key \cup {NoKey} : Publish(key)
       \/ SkipDuplicate \/ HandlerReturns \/ RetryReturns \/ SendToDlq
       \/ RetryRaises \/ SendToDlqFails
       \/ CommitDuplicate \/ CommitHandled \/ CommitRetried \/ CommitDlq
       \/ \E e \in ClientErrors : CommitHandledRaises(e)
  BY DEF Next, LoopStep, ErrorHandling, Environment, vars, Consume, ConsumeRaises, AcceptNew, CheckRaises,
         HandlerRaises, Mark, MarkRaises, BeginRetry, GiveUp, ExpireKey, Crash, Stop, Start, Rebalance
<1> QED BY <1>1, <1>2, <1>4, <1>5, <1>6, <1>7, <1>9, <1>10

(***************************************************************************)
(* The consumption loop implements the delivery promise AccountedDelivery. *)
(***************************************************************************)
THEOREM LoopImplementsDelivery == Spec => ImplementsDelivery
<1>1. Init => Promise!DeliveryInit
  BY ReliabilityAssumption DEF Init, Promise!DeliveryInit, OutcomesOf, Message
<1>2. IInv /\ [Next]_vars => [Promise!DeliveryNext]_(Promise!delivery_vars)
  BY IInvInductive, StepRefines
<1> QED BY <1>1, <1>2, IInvInductive, PTL DEF Spec, ImplementsDelivery, Promise!DeliverySpec

=============================================================================
