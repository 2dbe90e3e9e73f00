--------------------------- MODULE FeedConnection ---------------------------
(***************************************************************************)
(* services/market_feed/service.py: keeping the WebSocket feed alive.  The *)
(* KiteTicker objects live on the SDK's reactor thread, which reconnects a *)
(* lost connection by itself; the service's _on_close callback schedules   *)
(* _attempt_reconnection tasks on the event loop as well.  The tasks take  *)
(* turns under _reconnection_lock.                                         *)
(*                                                                         *)
(* Ticker names are reused once a ticker can no longer connect, so that an *)
(* endless sequence of reconnections is a cycle of the state graph.        *)
(***************************************************************************)
EXTENDS Naturals, FiniteSets

CONSTANTS
    Ticker,         \* names of KiteTicker objects
    FirstTicker,    \* the one start() creates
    max_attempts,   \* ReconnectionConfig.max_attempts
    MaxFaults       \* bound: lost connections, failed handshakes and logins, timeouts

ASSUME FeedAssumption ==
    /\ FirstTicker \in Ticker
    /\ IsFiniteSet(Ticker)
    /\ max_attempts \in Nat \ {0}
    /\ MaxFaults \in Nat

VARIABLES
    running,     \* _running
    stop_pc,     \* where stop() is suspended
    kws,         \* self.kws
    link,        \* state of every ticker's connection
    attempts,    \* _reconnection_attempts
    waiting,     \* _attempt_reconnection tasks that have not got the lock
    attempt_pc,  \* where the task that holds the lock is suspended
    faults       \* faults so far

vars == <<running, stop_pc, kws, link, attempts, waiting, attempt_pc, faults>>

(***************************************************************************)
(* unused: no such ticker; connecting: the SDK dials, at first or again    *)
(* after a loss; open; closing: close() was called and on_close is still   *)
(* to come; closed: after a close(), for good; exhausted: the SDK has used *)
(* up its retries.                                                         *)
(***************************************************************************)
LinkState == {"unused", "connecting", "open", "closing", "closed", "exhausted"}

\* The state start() leaves behind: _run_feed has called connect on the first ticker.
Init ==
    /\ running = TRUE
    /\ stop_pc = "none"
    /\ kws = FirstTicker
    /\ link = [t \in Ticker |-> IF t = FirstTicker THEN "connecting" ELSE "unused"]
    /\ attempts = 0
    /\ waiting = 0
    /\ attempt_pc = "none"
    /\ faults = 0

-----------------------------------------------------------------------------
(* The SDK's thread.                                                       *)

Fault == faults < MaxFaults /\ faults' = faults + 1

\* Mutant of OnClose: the callback schedules a task of its own besides the retry.
OnCloseTwice(t) ==
    IF running THEN waiting' = waiting + 2 ELSE UNCHANGED waiting

\* _on_close: whichever ticker the callback is for, one more task is scheduled.
OnClose(t) ==
    IF running THEN waiting' = waiting + 1 ELSE UNCHANGED waiting

\* The handshake succeeds; _on_connect subscribes.
Open(t) ==
    /\ link[t] = "connecting"
    /\ link' = [link EXCEPT ![t] = "open"]
    /\ UNCHANGED <<running, stop_pc, kws, attempts, waiting, attempt_pc, faults>>

\* The server refuses the handshake: on_close is called and the SDK dials again.
HandshakeFails(t) ==
    /\ Fault
    /\ link[t] = "connecting"
    /\ OnClose(t)
    /\ UNCHANGED <<running, stop_pc, kws, link, attempts, attempt_pc>>

\* An open connection is lost: on_close is called and the SDK dials again.
Lost(t) ==
    /\ Fault
    /\ link[t] = "open"
    /\ link' = [link EXCEPT ![t] = "connecting"]
    /\ OnClose(t)
    /\ UNCHANGED <<running, stop_pc, kws, attempts, attempt_pc>>

\* The SDK has retried in vain; on_noreconnect has no handler.
Exhausted(t) ==
    /\ Fault
    /\ link[t] = "connecting"
    /\ link' = [link EXCEPT ![t] = "exhausted"]
    /\ UNCHANGED <<running, stop_pc, kws, attempts, waiting, attempt_pc>>

\* A connection closed by close() reports on_close, too.
Closed(t) ==
    /\ link[t] = "closing"
    /\ link' = [link EXCEPT ![t] = "closed"]
    /\ OnClose(t)
    /\ UNCHANGED <<running, stop_pc, kws, attempts, attempt_pc, faults>>

-----------------------------------------------------------------------------
(* _attempt_reconnection.                                                  *)

Close(t) == IF link[t] = "open" THEN [link EXCEPT ![t] = "closing"] ELSE link

\* A task gets the lock: it returns when the service is not running, and stops
\* the service when the attempts are used up.
AbandonAttempt ==
    /\ attempt_pc = "none"
    /\ waiting > 0
    /\ ~running \/ attempts >= max_attempts
    /\ waiting' = waiting - 1
    /\ running' = FALSE
    /\ UNCHANGED <<stop_pc, kws, link, attempts, attempt_pc, faults>>

\* Mutant of BeginAttempt: the limit on attempts is not looked at.
BeginAttemptUncapped ==
    /\ attempt_pc = "none"
    /\ waiting > 0
    /\ running
    /\ waiting' = waiting - 1
    /\ attempts' = attempts + 1
    /\ attempt_pc' = "backoff"
    /\ UNCHANGED <<running, stop_pc, kws, link, faults>>

BeginAttempt ==
    /\ attempt_pc = "none"
    /\ waiting > 0
    /\ running /\ attempts < max_attempts
    /\ waiting' = waiting - 1
    /\ attempts' = attempts + 1
    /\ attempt_pc' = "backoff"
    /\ UNCHANGED <<running, stop_pc, kws, link, faults>>

\* The backoff sleep is over: a connected ticker is closed, one that is still
\* dialling is left alone; then a new ticker is asked for.
CloseExisting ==
    /\ attempt_pc = "backoff"
    /\ link' = Close(kws)
    /\ attempt_pc' = "login"
    /\ UNCHANGED <<running, stop_pc, kws, attempts, waiting, faults>>

\* Mutant of Reschedule: a failed attempt schedules no other.
RescheduleNever == UNCHANGED waiting

\* The exception handler schedules another task while the service runs.
Reschedule == IF running THEN waiting' = waiting + 1 ELSE UNCHANGED waiting

\* get_ticker raises: no authenticated session, or the session service fails.
LoginFails ==
    /\ attempt_pc = "login"
    /\ Fault
    /\ Reschedule
    /\ attempt_pc' = "none"
    /\ UNCHANGED <<running, stop_pc, kws, link, attempts>>

\* The new ticker replaces self.kws and dials.
Connect(t) ==
    /\ attempt_pc = "login"
    /\ t # kws
    /\ link[t] \in {"unused", "closed", "exhausted"}
    /\ kws' = t
    /\ link' = [link EXCEPT ![t] = "connecting"]
    /\ attempt_pc' = "connecting"
    /\ UNCHANGED <<running, stop_pc, attempts, waiting, faults>>

\* Mutant of Reconnected: the attempts go on counting.
ReconnectedCounting ==
    /\ attempt_pc = "connecting"
    /\ link[kws] = "open"
    /\ attempt_pc' = "none"
    /\ UNCHANGED <<running, stop_pc, kws, link, attempts, waiting, faults>>

Reconnected ==
    /\ attempt_pc = "connecting"
    /\ link[kws] = "open"
    /\ attempts' = 0
    /\ attempt_pc' = "none"
    /\ UNCHANGED <<running, stop_pc, kws, link, waiting, faults>>

\* The timeout, while the service runs, or the service was stopped meanwhile.
ReconnectFails ==
    /\ attempt_pc = "connecting"
    /\ link[kws] # "open"
    /\ IF running THEN Fault ELSE UNCHANGED faults
    /\ Reschedule
    /\ attempt_pc' = "none"
    /\ UNCHANGED <<running, stop_pc, kws, link, attempts>>

\* stop() cancels the feed and processor tasks and awaits their end, while the
\* reconnection tasks go on; then it closes the ticker that is current.
BeginStop ==
    /\ stop_pc = "none"
    /\ stop_pc' = "cancelling"
    /\ running' = FALSE
    /\ UNCHANGED <<kws, link, attempts, waiting, attempt_pc, faults>>

EndStop ==
    /\ stop_pc = "cancelling"
    /\ stop_pc' = "done"
    /\ link' = Close(kws)
    /\ UNCHANGED <<running, kws, attempts, waiting, attempt_pc, faults>>

Attempt ==
    \/ AbandonAttempt \/ BeginAttempt \/ CloseExisting \/ LoginFails
    \/ (\E t \in Ticker : Connect(t)) \/ Reconnected \/ ReconnectFails

Sdk(t) == Open(t) \/ HandshakeFails(t) \/ Lost(t) \/ Exhausted(t) \/ Closed(t)

Next == Attempt \/ (\E t \in Ticker : Sdk(t)) \/ BeginStop \/ EndStop

Spec == Init /\ [][Next]_vars

\* Timers fire and tasks run; the SDK completes a dial that is not disturbed and
\* reports a close.  Faults are bounded, so they end.
FairSpec ==
    /\ Spec
    /\ WF_vars(Attempt)
    /\ \A t \in Ticker : WF_vars(Open(t)) /\ WF_vars(Closed(t))

-----------------------------------------------------------------------------

\* Types, and the limit of _attempt_reconnection: attempts never exceed max_attempts.
TypeOK ==
    /\ running \in BOOLEAN
    /\ stop_pc \in {"none", "cancelling", "done"}
    /\ kws \in Ticker
    /\ link \in [Ticker -> LinkState]
    /\ attempts \in 0..max_attempts
    /\ waiting \in Nat
    /\ attempt_pc \in {"none", "backoff", "login", "connecting"}
    /\ faults \in 0..MaxFaults

Active == attempt_pc # "none" \/ waiting > 0

(***************************************************************************)
(* The feed is never given up in silence: while the service runs, a        *)
(* current ticker that is not connected is being dialled or closed by the  *)
(* SDK, or a reconnection task is under way.  The one exception is the SDK *)
(* running out of retries (_on_close and the except branch of              *)
(* _attempt_reconnection together).                                        *)
(***************************************************************************)
SomeoneReconnects ==
    running => Active \/ link[kws] \in {"open", "connecting", "closing", "exhausted"}

(***************************************************************************)
(* Reconnection tasks do not multiply: the tasks queued on the lock, the   *)
(* one in its backoff sleep and those that pending on_close callbacks will *)
(* add are together at most as many as there were faults, although both    *)
(* _on_close and a failing attempt create tasks and an attempt that closes *)
(* a connection causes an on_close of its own.                             *)
(***************************************************************************)
TasksBounded ==
    waiting + (IF attempt_pc = "backoff" THEN 1 ELSE 0)
        + (IF running THEN Cardinality({t \in Ticker : link[t] = "closing"}) ELSE 0) <= faults

(***************************************************************************)
(* "Maximum reconnection attempts reached": unless stop() ended it, the    *)
(* service gives up only after more faults than it allows attempts.  An    *)
(* attempt that closes a connection the SDK has repaired causes further    *)
(* attempts without any fault; these must never add up to the limit.       *)
(***************************************************************************)
GivesUpOnlyAfterFailures == ~running /\ stop_pc = "none" => faults > max_attempts

(***************************************************************************)
(* Auto-reconnection: once the faults have ended, a running feed is        *)
(* connected again and again, unless the SDK ran out of retries on the     *)
(* current ticker with no task to replace it.                              *)
(***************************************************************************)
Recovers == []<>(~running \/ link[kws] \in {"open", "exhausted"})

=============================================================================
