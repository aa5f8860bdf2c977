--------------------------- MODULE RetrievalRunner ---------------------------
(***************************************************************************)
(* BoundedRetrievalRunner (apps/backend/services/retrieval_runner.py): sync *)
(* retrieval calls run on a thread pool behind an asyncio semaphore.  The   *)
(* semaphore is taken by run() and given back by the monitor task of the    *)
(* thread's future, never by the caller: a thread cannot be killed, so a    *)
(* caller that times out leaves its permit with the thread.  Code between   *)
(* two awaits is one action.                                                *)
(***************************************************************************)
EXTENDS Naturals, FiniteSets

CONSTANTS
    Call,           \* invocations of run()
    MaxConcurrency  \* semaphore permits and worker threads

ASSUME ConcurrencyAssumption == MaxConcurrency \in Nat \ {0}
ASSUME CallAssumption == IsFiniteSet(Call)

VARIABLES
    pc,         \* [Call -> {"idle", "waiting", "awaiting", "done"}]
    outcome,    \* [Call -> RunOutcomes]: what run() returned or raised
    future,     \* [Call -> FutureStates]: the executor's future
    result,     \* [Call -> Results]: the asyncio future the caller awaits
    active,     \* keys of _active: futures with a live monitor task
    permits,    \* value of the _capacity semaphore
    accepting,  \* _accepting
    closing,    \* where aclose() is: "open", "grace", "closed"
    unfinished  \* the count aclose() returned

runnerVars == <<pc, outcome, future, result, active, permits, accepting,
                closing, unfinished>>

RunOutcomes == {"none", "ok", "error", "timeout", "closed", "cancelled"}
FutureStates == {"none", "queued", "running", "ok", "error", "cancelled"}
FutureDone == {"ok", "error", "cancelled"}
Results == {"pending"} \cup FutureDone

Running == {c \in Call : future[c] = "running"}
Queued == {c \in Call : future[c] = "queued"}

RunnerInit ==
    /\ pc = [c \in Call |-> "idle"]
    /\ outcome = [c \in Call |-> "none"]
    /\ future = [c \in Call |-> "none"]
    /\ result = [c \in Call |-> "pending"]
    /\ active = {}
    /\ permits = MaxConcurrency
    /\ accepting = TRUE
    /\ closing = "open"
    /\ unfinished = 0

-----------------------------------------------------------------------------
(* run() *)

Return(c, x) ==
    /\ pc' = [pc EXCEPT ![c] = "done"]
    /\ outcome' = [outcome EXCEPT ![c] = x]

\* future.cancel(): only a future no thread has picked up is cancelled.
CancelQueued(S) ==
    future' = [c \in Call |-> IF c \in S /\ future[c] = "queued"
                              THEN "cancelled" ELSE future[c]]

\* run() is called and starts to wait for a permit under asyncio.timeout.
Run(c) ==
    /\ pc[c] = "idle"
    /\ pc' = [pc EXCEPT ![c] = "waiting"]
    /\ UNCHANGED <<outcome, future, result, active, permits, accepting, closing,
                   unfinished>>

\* The permit is acquired, the call is submitted and its monitor is tracked.
Submit(c) ==
    /\ pc[c] = "waiting"
    /\ permits > 0
    /\ accepting
    /\ permits' = permits - 1
    /\ future' = [future EXCEPT ![c] = "queued"]
    /\ active' = active \cup {c}
    /\ pc' = [pc EXCEPT ![c] = "awaiting"]
    /\ UNCHANGED <<outcome, result, accepting, closing, unfinished>>

\* executor.submit raises: the permit is released again.
SubmitFails(c) ==
    /\ pc[c] = "waiting"
    /\ permits > 0
    /\ accepting
    /\ Return(c, "error")
    /\ UNCHANGED <<future, result, active, permits, accepting, closing,
                   unfinished>>

\* The permit is acquired while the runner shuts down: it is released again.
RefuseClosed(c) ==
    /\ pc[c] = "waiting"
    /\ permits > 0
    /\ ~accepting
    /\ Return(c, "closed")
    /\ UNCHANGED <<future, result, active, permits, accepting, closing,
                   unfinished>>

\* The awaited future is done: its result, its exception, or CancelledError.
Wake(c) ==
    /\ pc[c] = "awaiting"
    /\ result[c] # "pending"
    /\ Return(c, result[c])
    /\ UNCHANGED <<future, result, active, permits, accepting, closing,
                   unfinished>>

\* Mutant: the caller gives the permit back when it stops waiting.
TimeoutReleases(c) ==
    /\ pc[c] \in {"waiting", "awaiting"}
    /\ Return(c, "timeout")
    /\ CancelQueued({c})
    /\ permits' = IF c \in active THEN permits + 1 ELSE permits
    /\ active' = active \ {c}
    /\ UNCHANGED <<result, accepting, closing, unfinished>>

\* asyncio.timeout expires, waiting for a permit or for the result.
RunTimesOut(c) ==
    /\ pc[c] \in {"waiting", "awaiting"}
    /\ Return(c, "timeout")
    /\ CancelQueued({c})
    /\ UNCHANGED <<result, active, permits, accepting, closing, unfinished>>

\* The caller's task is cancelled.
CancelCaller(c) ==
    /\ pc[c] \in {"waiting", "awaiting"}
    /\ Return(c, "cancelled")
    /\ CancelQueued({c})
    /\ UNCHANGED <<result, active, permits, accepting, closing, unfinished>>

-----------------------------------------------------------------------------
(* Worker threads and monitor tasks *)

\* A free worker thread of the executor picks the call up ...
Start(c) ==
    /\ future[c] = "queued"
    /\ Cardinality(Running) < MaxConcurrency
    /\ future' = [future EXCEPT ![c] = "running"]
    /\ UNCHANGED <<pc, outcome, result, active, permits, accepting, closing,
                   unfinished>>

\* ... and finishes it, with a result or an exception.
Complete(c) ==
    /\ future[c] = "running"
    /\ \E x \in {"ok", "error"} : future' = [future EXCEPT ![c] = x]
    /\ UNCHANGED <<pc, outcome, result, active, permits, accepting, closing,
                   unfinished>>

\* Mutant: the monitor polls for completion and never sees a cancellation.
MonitorMissesCancel(c) ==
    /\ c \in active
    /\ future[c] \in {"ok", "error"}
    /\ result' = [result EXCEPT ![c] = future[c]]
    /\ active' = active \ {c}
    /\ permits' = permits + 1
    /\ UNCHANGED <<pc, outcome, future, accepting, closing, unfinished>>

\* _monitor sees the future done: it hands the outcome over, drops the future
\* from _active and releases the permit.
Monitor(c) ==
    /\ c \in active
    /\ future[c] \in FutureDone
    /\ result' = [result EXCEPT ![c] = future[c]]
    /\ active' = active \ {c}
    /\ permits' = permits + 1
    /\ UNCHANGED <<pc, outcome, future, accepting, closing, unfinished>>

-----------------------------------------------------------------------------
(* aclose() *)

\* Stop accepting and cancel what no thread has started.
CloseBegin ==
    /\ accepting
    /\ accepting' = FALSE
    /\ closing' = "grace"
    /\ CancelQueued(active)
    /\ UNCHANGED <<pc, outcome, result, active, permits, unfinished>>

\* Mutant: only the calls whose caller still waits are counted.
CloseEndCountsWaiters ==
    /\ closing = "grace"
    /\ closing' = "closed"
    /\ unfinished' = Cardinality({c \in active : pc[c] = "awaiting"})
    /\ CancelQueued(Call)
    /\ UNCHANGED <<pc, outcome, result, active, permits, accepting>>

\* Nothing is active any more or the grace period is over: count what is left,
\* executor.shutdown(wait=False, cancel_futures=True).
CloseEnd ==
    /\ closing = "grace"
    /\ closing' = "closed"
    /\ unfinished' = Cardinality(active)
    /\ CancelQueued(Call)
    /\ UNCHANGED <<pc, outcome, result, active, permits, accepting>>

-----------------------------------------------------------------------------
Caller(c) ==
    Submit(c) \/ SubmitFails(c) \/ RefuseClosed(c) \/ Wake(c) \/ RunTimesOut(c)

RunnerNext ==
    \/ \E c \in Call : Run(c) \/ Caller(c) \/ CancelCaller(c) \/ Start(c)
                       \/ Complete(c) \/ Monitor(c)
    \/ CloseBegin
    \/ CloseEnd

RunnerSpec == RunnerInit /\ [][RunnerNext]_runnerVars

\* The event loop wakes callers and fires their timers, free threads take
\* queued calls, monitors poll every 5 ms; nothing is assumed of the threads.
RunnerFairness ==
    /\ \A c \in Call : /\ WF_runnerVars(Caller(c)) /\ WF_runnerVars(Start(c))
                       /\ WF_runnerVars(Monitor(c))
    /\ WF_runnerVars(CloseEnd)

-----------------------------------------------------------------------------
(* Properties *)

\* A call that waits for a thread or runs on one is tracked, so it holds a
\* permit even after its caller gave up, and no permit is lost or invented:
\* at most MaxConcurrency calls occupy the executor, and a queued call always
\* finds a free thread.
CapacityBound ==
    /\ permits + Cardinality(active) = MaxConcurrency
    /\ Running \cup Queued \subseteq active
    /\ Cardinality(Running \cup Queued) <= MaxConcurrency
    /\ Queued # {} => Cardinality(Running) < MaxConcurrency

\* When aclose() reports that nothing is unfinished, no thread is inside a
\* retrieval call: the runtime's driver may be closed.  What it reports covers
\* every thread still running.
CloseReportSound ==
    closing = "closed" => Queued = {} /\ Cardinality(Running) <= unfinished

\* If retrieval calls return (the Neo4j driver's timeouts), every permit comes
\* back.
PermitReturns ==
    (\A c \in Call : WF_runnerVars(Complete(c)))
        => \A c \in Call : c \in active ~> c \notin active
=============================================================================
