----------------------- MODULE ReferenceReconciliation -----------------------
(***************************************************************************)
(* Materialisation of the citations of one processed document as REFERS_TO *)
(* edges.  Three stores are written without a common transaction:          *)
(*   - the graph (Neo4j), one transaction per citation bundle;             *)
(*   - the attempt ledger, an append-only JSONL file;                      *)
(*   - the checkpoint file, replaced as a whole.                           *)
(* `reconcile-external-references' runs write them in that order under the *)
(* document's advisory file lock; extraction rewrites the checkpoints too. *)
(* A process may die between any two steps.                                *)
(*                                                                         *)
(* Abstractions.  A bundle's ordered target tuple is a set.  Ledger rows   *)
(* that are not COMMITTED are never read back by the code and are left     *)
(* out.  The build receipt (id, two hashes) is one value.  The graph's     *)
(* other documents are the environment: the endpoint checks of a write     *)
(* may fail at any time.  A transaction whose outcome the client does not  *)
(* learn has taken effect, or never will, by the time the lock is free.    *)
(* Not modelled: the write of the document itself, which merges the        *)
(* REFERS_TO edges of its LOCAL bundles from the payload under the same    *)
(* bundle ids, and clear-database, which takes every edge away.            *)
(***************************************************************************)
EXTENDS Naturals, FiniteSets

CONSTANTS
    Runs,        \* concurrent reconciliation processes
    Bundles,     \* reference_bundle_ids of the document
    TargetSets,  \* target sets a registry build may resolve a citation to
    LocalSet,    \* the target set of a citation of the document itself
    Builds,      \* registry builds
    NoRun, NoBuild, NoBundle,
    MaxStarts    \* bound: resolution passes (reconciliations and extractions)

ASSUME ConstantsAssumption ==
    /\ \A T \in TargetSets : T # {}
    /\ LocalSet \notin TargetSets /\ LocalSet # {}
    /\ NoRun \notin Runs /\ NoBuild \notin Builds /\ NoBundle \notin Bundles
    /\ MaxStarts \in Nat

VARIABLES
    cp,         \* reference_resolutions.jsonl: one checkpoint per bundle
    committed,  \* committed_target_history of the attempt ledger
    torn,       \* the ledger ends in a truncated row
    graph,      \* bundle -> targets of its REFERS_TO edges
    lock,       \* holder of .reference_reconciliation.lock
    run,        \* local state of every reconciliation process
    starts

vars == <<cp, committed, torn, graph, lock, run, starts>>

-----------------------------------------------------------------------------
(* Resolved references and checkpoints.                                    *)

\* "external": RESOLVED, EXTERNAL scope or projected.  "invalid": the same, but
\* the validator rejects its evidence (a projected self reference, a duplicated
\* target).  "local": RESOLVED inside the document.  "unsnapshotted": UNRESOLVED
\* because the target document is not in a corpus snapshot.  "none": not detected.
Kinds == {"external", "invalid", "local", "unresolved", "unsnapshotted", "none"}
AnyTargets == TargetSets \cup {LocalSet, {}}

Reference(kind, targets, build) ==
    [kind |-> kind, targets |-> targets, build |-> build]

NotDetected == Reference("none", {}, NoBuild)

\* What extraction can say of a citation: it has no corpus registry.
ExtractedReferences ==
    {Reference("local", LocalSet, NoBuild), Reference("unresolved", {}, NoBuild),
     Reference("unsnapshotted", {}, NoBuild), NotDetected}

\* What reconciliation against build b can say of it.
DetectedReferences(b) ==
    ExtractedReferences \cup {Reference("local", LocalSet, b)}
    \cup {Reference(k, T, b) : k \in {"external", "invalid"}, T \in TargetSets}

Statuses == {"NOT_APPLICABLE", "PENDING", "WRITTEN", "FAILED", "BLOCKED", "ABSENT"}
Settled == {"WRITTEN", "BLOCKED"}

Checkpoint == [kind : Kinds, targets : AnyTargets, build : Builds \cup {NoBuild},
               mat : Statuses]

\* The file has no row for the bundle.
NoRow == [kind |-> "none", targets |-> {}, build |-> NoBuild, mat |-> "ABSENT"]

Row(ref, mat) == [kind |-> ref.kind, targets |-> ref.targets, build |-> ref.build,
                  mat |-> mat]

Materializable(c) == c.kind \in {"external", "invalid"}

CheckpointFromReference(ref, prior, priorWritten) ==
    Row(ref, IF prior.mat # "ABSENT" /\ prior.targets = ref.targets THEN prior.mat
             ELSE IF prior.mat # "ABSENT" /\ (priorWritten \/ prior.mat \in Settled)
                  THEN "BLOCKED"
             ELSE IF Materializable(ref) THEN "PENDING" ELSE "NOT_APPLICABLE")

\* validate_external_reference_bundle accepts the checkpoint for the build.
Validates(c, b) == c.kind = "external" /\ c.mat # "BLOCKED" /\ c.build = b

-----------------------------------------------------------------------------
(* Reconciliation processes.                                               *)

Idle == [pc |-> "idle", build |-> NoBuild, todo |-> {}, failures |-> {},
         cur |-> NoBundle, seen |-> [b \in Bundles |-> NoRow], outcome |-> "none"]

Outcomes == {"none", "COMMITTED", "UNKNOWN", "FAILED", "BLOCKED"}

Holding(r) == run[r].pc \in {"write", "append", "swap"}

Init ==
    /\ cp = [b \in Bundles |-> NoRow]
    /\ committed = [b \in Bundles |-> {}]
    /\ torn = FALSE
    /\ graph = [b \in Bundles |-> {}]
    /\ lock = NoRun
    /\ run = [r \in Runs |-> Idle]
    /\ starts = 0

\* _replace_resolution_state, kept as one step: it runs under the lock, reads
\* both files and its only effect is one atomic replacement.
Replaced(refs) ==
    [b \in Bundles |->
        IF refs[b].kind # "none"
        THEN CheckpointFromReference(refs[b], cp[b], committed[b] # {})
        ELSE IF committed[b] # {} \/ cp[b].mat \in Settled THEN cp[b] ELSE NoRow]

ResolvedPass(refs) ==
    /\ lock = NoRun /\ ~torn /\ starts < MaxStarts
    /\ starts' = starts + 1
    /\ cp' = Replaced(refs)

\* A dry run stops after the resolution pass.
DryRun ==
    \E build \in Builds : \E refs \in [Bundles -> DetectedReferences(build)] :
        /\ ResolvedPass(refs)
        /\ UNCHANGED <<committed, torn, graph, lock, run>>

\* An applying run also collects the bundles to materialise and the ones whose
\* evidence does not validate.
Resolve(r) ==
    /\ run[r].pc = "idle"
    /\ \E build \in Builds : \E refs \in [Bundles -> DetectedReferences(build)] :
        /\ ResolvedPass(refs)
        /\ LET external == {b \in Bundles : Materializable(cp'[b])}
           IN run' = [run EXCEPT ![r] =
                 [Idle EXCEPT !.pc = "loop", !.build = build, !.todo = external,
                    !.failures = {b \in external : ~Validates(cp'[b], build)}]]
    /\ UNCHANGED <<committed, torn, graph, lock>>

\* _update_reference_checkpoints: extraction of the selected articles.
Extracted(selected, refs) ==
    [b \in Bundles |->
        IF b \notin selected THEN cp[b]
        ELSE IF refs[b].kind = "none"
             THEN IF cp[b].mat \in Settled THEN cp[b] ELSE NoRow
        ELSE IF refs[b].kind = "unsnapshotted" /\ cp[b].build # NoBuild THEN cp[b]
        ELSE CheckpointFromReference(refs[b], cp[b], committed[b] # {})]

Extract ==
    /\ lock = NoRun /\ ~torn /\ starts < MaxStarts
    /\ starts' = starts + 1
    /\ \E selected \in SUBSET Bundles : \E refs \in [selected -> ExtractedReferences] :
        cp' = Extracted(selected, refs)
    /\ UNCHANGED <<committed, torn, graph, lock, run>>

-----------------------------------------------------------------------------
(* The apply loop: one lock section per bundle.  The order of the loop is  *)
(* the order of a dictionary; every order is allowed here.                 *)

End(r) == run' = [run EXCEPT ![r] = Idle]

Drop(r, b) == run' = [run EXCEPT ![r].todo = @ \ {b}]

Turn(r, b) == run[r].pc = "loop" /\ lock = NoRun /\ b \in run[r].todo

\* The durable history contradicts the targets now resolved.
Contradicted(b) == committed[b] # {} /\ cp[b].targets \notin committed[b]

\* An exception leaves the function: the ledger cannot be read, another run has
\* removed the row, or has re-resolved it against another build.
Abort(r, b) ==
    /\ Turn(r, b)
    /\ \/ torn
       \/ cp[b].mat = "ABSENT"
       \/ /\ cp[b].mat \notin Settled
          /\ ~Contradicted(b)
          /\ b \notin run[r].failures
          /\ ~Validates(cp[b], run[r].build)
    /\ End(r)
    /\ UNCHANGED <<cp, committed, torn, graph, lock, starts>>

Skip(r, b) ==
    /\ Turn(r, b) /\ ~torn
    /\ cp[b].mat \in Settled
    /\ Drop(r, b)
    /\ UNCHANGED <<cp, committed, torn, graph, lock, starts>>

\* Preflight: a contradicted bundle is BLOCKED, one whose evidence did not
\* validate FAILED, before any graph access.
Preflight(r, b) ==
    /\ Turn(r, b) /\ ~torn
    /\ cp[b].mat \notin Settled \cup {"ABSENT"}
    /\ \/ Contradicted(b) /\ cp' = [cp EXCEPT ![b].mat = "BLOCKED"]
       \/ /\ ~Contradicted(b) /\ b \in run[r].failures
          /\ cp' = [cp EXCEPT ![b].mat = "FAILED"]
    /\ Drop(r, b)
    /\ UNCHANGED <<committed, torn, graph, lock, starts>>

\* The bundle is to be written: the lock stays held until the checkpoint swap.
Claim(r, b) ==
    /\ Turn(r, b) /\ ~torn
    /\ cp[b].mat \notin Settled \cup {"ABSENT"}
    /\ ~Contradicted(b) /\ b \notin run[r].failures
    /\ Validates(cp[b], run[r].build)
    /\ lock' = r
    /\ run' = [run EXCEPT ![r].pc = "write", ![r].cur = b, ![r].seen = cp]
    /\ UNCHANGED <<cp, committed, torn, graph, starts>>

Expected(r) == run[r].seen[run[r].cur].targets

Learn(r, outcome) ==
    run' = [run EXCEPT ![r].pc = "append", ![r].outcome = outcome]

\* An endpoint is missing or owned by another document (FAILED), or owned by
\* several (BLOCKED): the transaction is rolled back.
WriteRefused(r) ==
    /\ run[r].pc = "write"
    /\ \E outcome \in {"FAILED", "BLOCKED"} : Learn(r, outcome)
    /\ UNCHANGED <<cp, committed, torn, graph, lock, starts>>

\* The graph holds other targets for the bundle: rolled back.
WriteConflict(r) ==
    /\ run[r].pc = "write"
    /\ graph[run[r].cur] \notin {{}, Expected(r)}
    /\ Learn(r, "BLOCKED")
    /\ UNCHANGED <<cp, committed, torn, graph, lock, starts>>

\* Mutant: the targets already in the graph are not compared.
WriteCommitBlindly(r) ==
    /\ run[r].pc = "write"
    /\ graph' = [graph EXCEPT ![run[r].cur] = @ \cup Expected(r)]
    /\ \E outcome \in {"COMMITTED", "UNKNOWN"} : Learn(r, outcome)
    /\ UNCHANGED <<cp, committed, torn, lock, starts>>

\* The edges are merged; the client may or may not learn that they were.
WriteCommit(r) ==
    /\ run[r].pc = "write"
    /\ graph[run[r].cur] \in {{}, Expected(r)}
    /\ graph' = [graph EXCEPT ![run[r].cur] = Expected(r)]
    /\ \E outcome \in {"COMMITTED", "UNKNOWN"} : Learn(r, outcome)
    /\ UNCHANGED <<cp, committed, torn, lock, starts>>

\* The connection fails and nothing was committed.
WriteLost(r) ==
    /\ run[r].pc = "write"
    /\ Learn(r, "UNKNOWN")
    /\ UNCHANGED <<cp, committed, torn, graph, lock, starts>>

\* append_attempt: one row, synced before the checkpoint is touched.
Append(r) ==
    /\ run[r].pc = "append"
    /\ committed' = IF run[r].outcome = "COMMITTED"
                    THEN [committed EXCEPT ![run[r].cur] = @ \cup {Expected(r)}]
                    ELSE committed
    /\ run' = [run EXCEPT ![r].pc = "swap"]
    /\ UNCHANGED <<cp, torn, graph, lock, starts>>

\* The append stops in the middle of the row (disk full, process killed).
AppendTorn(r) ==
    /\ run[r].pc = "append"
    /\ torn' = TRUE
    /\ lock' = NoRun
    /\ End(r)
    /\ UNCHANGED <<cp, committed, graph, starts>>

\* Mutant: an attempt without a typed error counts as written.
StatusOfOptimistic(outcome) ==
    CASE outcome = "FAILED"  -> "FAILED"
      [] outcome = "BLOCKED" -> "BLOCKED"
      [] OTHER               -> "WRITTEN"

\* An UNKNOWN outcome is a failed attempt, never a write.
StatusOf(outcome) ==
    CASE outcome = "COMMITTED" -> "WRITTEN"
      [] outcome = "BLOCKED"   -> "BLOCKED"
      [] OTHER                 -> "FAILED"

\* compare_and_swap of the checkpoints read under the lock, and its release; a
\* checkpoint file that has changed since raises.
Swap(r) ==
    /\ run[r].pc = "swap"
    /\ lock' = NoRun
    /\ IF cp = run[r].seen
       THEN /\ cp' = [cp EXCEPT ![run[r].cur].mat = StatusOf(run[r].outcome)]
            /\ run' = [run EXCEPT ![r] =
                  [Idle EXCEPT !.pc = "loop", !.build = run[r].build,
                     !.todo = run[r].todo \ {run[r].cur},
                     !.failures = run[r].failures]]
       ELSE End(r) /\ UNCHANGED cp
    /\ UNCHANGED <<committed, torn, graph, starts>>

Finish(r) ==
    /\ run[r].pc = "loop" /\ run[r].todo = {}
    /\ End(r)
    /\ UNCHANGED <<cp, committed, torn, graph, lock, starts>>

\* The process dies; the operating system releases its lock.
Crash(r) ==
    /\ run[r].pc # "idle"
    /\ End(r)
    /\ lock' = IF lock = r THEN NoRun ELSE lock
    /\ UNCHANGED <<cp, committed, torn, graph, starts>>

\* A step of a process that keeps running.
Step(r) ==
    \/ \E b \in Bundles : Abort(r, b) \/ Skip(r, b) \/ Preflight(r, b) \/ Claim(r, b)
    \/ WriteRefused(r) \/ WriteConflict(r) \/ WriteCommit(r) \/ WriteLost(r)
    \/ Append(r) \/ AppendTorn(r) \/ Swap(r) \/ Finish(r)

Next ==
    \/ DryRun
    \/ Extract
    \/ \E r \in Runs : Resolve(r) \/ Step(r) \/ Crash(r)

Spec == Init /\ [][Next]_vars

-----------------------------------------------------------------------------
(* Properties.                                                             *)

\* The variables keep their types; a process inside a lock section is on a bundle.
TypeOK ==
    /\ cp \in [Bundles -> Checkpoint]
    /\ committed \in [Bundles -> SUBSET AnyTargets]
    /\ torn \in BOOLEAN
    /\ graph \in [Bundles -> AnyTargets]
    /\ lock \in Runs \cup {NoRun}
    /\ run \in [Runs -> [pc : {"idle", "loop", "write", "append", "swap"},
                         build : Builds \cup {NoBuild},
                         todo : SUBSET Bundles, failures : SUBSET Bundles,
                         cur : Bundles \cup {NoBundle},
                         seen : [Bundles -> Checkpoint],
                         outcome : Outcomes]]
    /\ \A r \in Runs : Holding(r) => run[r].cur \in Bundles
    /\ starts \in Nat

\* A checkpoint says WRITTEN only when the graph holds exactly its targets and
\* the ledger recorded their commit first, whatever process died in between.
WrittenIsMaterialised ==
    \A b \in Bundles : cp[b].mat = "WRITTEN" =>
        /\ graph[b] = cp[b].targets
        /\ cp[b].targets \in committed[b]

\* Every COMMITTED row of the ledger is still what the graph holds, so a bundle
\* is committed for one target set only.
LedgerIsTruthful ==
    \A b \in Bundles : \A T \in committed[b] : graph[b] = T

\* The three stores agree although no transaction spans them: a WRITTEN
\* checkpoint has its edges and its ledger row, and a ledger row has its edges.
StoresAgree == WrittenIsMaterialised /\ LedgerIsTruthful

\* An old target is never deleted, replaced or joined by a new one (writer's
\* target comparison): the edges of a bundle are written once.
EdgesAreStable ==
    [][\A b \in Bundles : graph[b] # {} => graph'[b] = graph[b]]_vars

\* A settled bundle is never reopened: WRITTEN keeps its targets or becomes
\* BLOCKED, and BLOCKED stays, under every later resolution pass.
SettledIsFinal ==
    [][\A b \in Bundles :
        /\ cp[b].mat = "BLOCKED" => cp'[b].mat = "BLOCKED"
        /\ cp[b].mat = "WRITTEN" =>
             \/ cp'[b].mat = "BLOCKED"
             \/ cp'[b].mat = "WRITTEN" /\ cp'[b].targets = cp[b].targets]_vars

\* A truncated ledger proves nothing: no process that starts or continues after
\* it changes a checkpoint, the ledger or the graph.
TornLedgerFreezes ==
    [][torn => UNCHANGED <<cp, committed, torn, graph>>]_vars
=============================================================================
