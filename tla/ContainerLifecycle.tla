------------------------- MODULE ContainerLifecycle -------------------------
(***************************************************************************)
(* The backend's composition root: build_container with its startup         *)
(* rollback, the application's lifespan, and Container.close                *)
(* (apps/backend/container.py, apps/backend/main.py).  A resource is what   *)
(* some close() gives back: the retrieval runtime and its Neo4j driver, the *)
(* runner's threads, the planner, the document browser's driver, the answer *)
(* generator, the PostgreSQL engine and the canonical lookup's driver.      *)
(* Composed with the runner: requests of the serving application call       *)
(* run(), and the container's close() of it is aclose().                    *)
(***************************************************************************)
EXTENDS RetrievalRunner, Sequences, SequencesExt

CONSTANT Settings   \* features that may be enabled: "planning", "answers"

VARIABLES
    phase,    \* "building", "rollback", "failed", "starting", "serving",
              \* "closing", "closed"
    options,  \* features enabled in the settings
    step,     \* position in BuildOrder
    built,    \* resources constructed so far
    todo,     \* resources the current cleanup has still to close
    raised,   \* some close() of the cleanup raised (first_error)
    tried     \* [Resource -> Nat]: close calls made

containerVars == <<phase, options, step, built, todo, raised, tried>>
vars == <<containerVars, runnerVars>>

\* "processor" stands for the signer and the query processor: nothing to
\* close, but their construction can raise.
BuildOrder == <<"runtime", "runner", "planner", "browser", "answer", "engine",
                "lookup", "processor">>
Resource == ToSet(BuildOrder) \ {"processor"}

\* The settings that make a construction step happen.
Enabled(r) ==
    CASE r = "planner" -> "planning" \in options
      [] r \in {"answer", "engine", "lookup", "processor"} -> "answers" \in options
      [] OTHER -> TRUE

\* What build_container's except clauses close, in order, when the
\* construction of r raises.
Rollback(r) ==
    CASE r = "runtime" -> <<>>
      [] r = "runner" -> <<"runtime">>
      [] r = "planner" -> <<"runner", "runtime">>
      [] r = "browser" -> <<"planner", "runner", "runtime">>
      [] r = "answer" -> <<"browser", "planner", "runner", "runtime">>
      [] OTHER -> <<"browser", "planner", "runner", "runtime", "answer">>

\* The order of Container.close.
CloseOrder == <<"engine", "lookup", "answer", "planner", "browser", "runner", "runtime">>

Init ==
    /\ phase = "building"
    /\ options \in Settings
    /\ step = 1
    /\ built = {}
    /\ todo = <<>>
    /\ raised = FALSE
    /\ tried = [r \in Resource |-> 0]
    /\ RunnerInit

-----------------------------------------------------------------------------
\* One constructor of build_container succeeds (or its feature is off).
Build ==
    /\ phase = "building"
    /\ step <= Len(BuildOrder)
    /\ built' = IF Enabled(BuildOrder[step])
                THEN built \cup ({BuildOrder[step]} \cap Resource) ELSE built
    /\ step' = step + 1
    /\ UNCHANGED <<phase, options, todo, raised, tried, runnerVars>>

\* It raises: the except clause rolls back what it knows of.
BuildFails ==
    /\ phase = "building"
    /\ step <= Len(BuildOrder)
    /\ Enabled(BuildOrder[step])
    /\ todo' = SelectSeq(Rollback(BuildOrder[step]), LAMBDA r : r \in built)
    /\ phase' = "rollback"
    /\ UNCHANGED <<options, step, built, raised, tried, runnerVars>>

\* The container is published; the lifespan's try block begins.
Publish ==
    /\ phase = "building"
    /\ step > Len(BuildOrder)
    /\ phase' = "starting"
    /\ UNCHANGED <<options, step, built, todo, raised, tried, runnerVars>>

\* verify_conversation_store and warmup succeed.
Serve ==
    /\ phase = "starting"
    /\ phase' = "serving"
    /\ UNCHANGED <<options, step, built, todo, raised, tried, runnerVars>>

\* Startup verification fails or the server stops: Container.close.
Shutdown ==
    /\ phase \in {"starting", "serving"}
    /\ phase' = "closing"
    /\ todo' = SelectSeq(CloseOrder, LAMBDA r : r \in built)
    /\ UNCHANGED <<options, step, built, raised, tried, runnerVars>>

\* Mutant: an exception of a close() ends the cleanup.
AfterError(fails) == IF fails THEN <<>> ELSE Tail(todo)

\* An exception of a close() is logged or kept, and the cleanup goes on.
AfterClose(fails) == Tail(todo)

\* The close() of the next resource of the cleanup returns or raises.
CloseNext(fails) ==
    /\ tried' = [tried EXCEPT ![Head(todo)] = @ + 1]
    /\ raised' = (raised \/ fails)
    /\ todo' = AfterClose(fails)
    /\ UNCHANGED <<phase, options, step, built>>

Closing(r) == phase \in {"rollback", "closing"} /\ todo # <<>> /\ Head(todo) = r

Close(fails) ==
    /\ \E r \in Resource \ {"runner"} : Closing(r)
    /\ CloseNext(fails)
    /\ UNCHANGED runnerVars

\* The runner's aclose() is awaited: while it waits for its threads requests and
\* threads go on, the cleanup does not.
CloseRunner == Closing("runner") /\ CloseBegin /\ UNCHANGED containerVars

RunnerClosed == Closing("runner") /\ CloseEnd /\ CloseNext(FALSE)

\* The cleanup is done: startup re-raises, or the application is down.
CleanupDone ==
    /\ phase \in {"rollback", "closing"}
    /\ todo = <<>>
    /\ phase' = IF phase = "rollback" THEN "failed" ELSE "closed"
    /\ UNCHANGED <<options, step, built, todo, raised, tried, runnerVars>>

\* A request calls run() while the application is up, also from a handler that
\* is still busy when the server stops.
Request(c) ==
    /\ phase \in {"serving", "closing"}
    /\ Run(c)
    /\ UNCHANGED containerVars

\* What callers, threads and monitor tasks do goes on beside the container.
Work(c) ==
    /\ Caller(c) \/ CancelCaller(c) \/ Start(c) \/ Complete(c) \/ Monitor(c)
    /\ UNCHANGED containerVars

Next ==
    \/ Build \/ BuildFails \/ Publish \/ Serve \/ Shutdown
    \/ (\E fails \in BOOLEAN : Close(fails)) \/ CloseRunner \/ RunnerClosed
    \/ CleanupDone
    \/ \E c \in Call : Request(c) \/ Work(c)

\* Fairness is the runner's; nothing is assumed of the container.
Spec == Init /\ [][Next]_vars /\ RunnerFairness

-----------------------------------------------------------------------------
(* Properties *)

\* Container.close reaches every resource of the container exactly once,
\* whichever close() raises and whether startup got as far as serving; the
\* rollback of a failed startup closes the retrieval side and the answer
\* generator exactly once (it forgets the engine and the canonical lookup).
\* Whatever calls were waiting, queued or running when the server stopped, the
\* runtime's driver is closed only after the runner, and under no more running
\* retrievals than aclose() has reported.
CloseReachesAll ==
    /\ phase = "closed" => \A r \in built : tried[r] = 1
    /\ phase = "failed" => \A r \in built \ {"engine", "lookup"} : tried[r] = 1
    /\ tried["runtime"] > 0 /\ "runner" \in built =>
          closing = "closed" /\ Cardinality(Running) <= unfinished
=============================================================================
