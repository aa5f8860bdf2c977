-------------------- MODULE ReferenceReconciliationProofs --------------------
(***************************************************************************)
(* Crash safety of the reference reconciliation, for every number of       *)
(* processes, bundles, target sets, builds and passes.                     *)
(*                                                                         *)
(* Neither WrittenIsMaterialised nor LedgerIsTruthful is inductive.  IInv  *)
(* adds what the open lock section knows: its process holds the lock, the  *)
(* checkpoints it read are still the file, and a COMMITTED outcome it      *)
(* learned is in the graph (before the append) and in the ledger (before   *)
(* the swap).  Target sets are not empty, so an untouched bundle of the    *)
(* graph is told from a written one.                                       *)
(***************************************************************************)
EXTENDS ReferenceReconciliation, TLAPS

RunType == [pc : {"idle", "loop", "write", "append", "swap"},
            build : Builds \cup {NoBuild},
            todo : SUBSET Bundles, failures : SUBSET Bundles,
            cur : Bundles \cup {NoBundle},
            seen : [Bundles -> Checkpoint],
            outcome : Outcomes]

\* What an open lock section knows of the three stores.
SectionInv ==
    \A r \in Runs : Holding(r) =>
        /\ lock = r
        /\ run[r].cur \in Bundles
        /\ run[r].seen = cp
        /\ Expected(r) \in TargetSets
        /\ cp[run[r].cur].mat \notin Settled
        /\ run[r].pc # "write" /\ run[r].outcome = "COMMITTED"
              => graph[run[r].cur] = Expected(r)
        /\ run[r].pc = "swap" /\ run[r].outcome = "COMMITTED"
              => Expected(r) \in committed[run[r].cur]

\* A torn ledger has no process in a lock section.
TornInv == torn => \A r \in Runs : ~Holding(r)

TargetsInv ==
    \A b \in Bundles :
        /\ Materializable(cp[b]) => cp[b].targets \in TargetSets
        /\ committed[b] \subseteq TargetSets

IInv == /\ TypeOK /\ SectionInv /\ TornInv /\ TargetsInv
        /\ WrittenIsMaterialised /\ LedgerIsTruthful

\* What a resolution pass may turn a bundle's checkpoint into.
RowOK(new, old) ==
    /\ new \in Checkpoint
    /\ Materializable(new) => new.targets \in TargetSets
    /\ new.mat = "WRITTEN" => old.mat = "WRITTEN" /\ new.targets = old.targets
    /\ old.mat = "BLOCKED" => new.mat = "BLOCKED"
    /\ old.mat = "WRITTEN" => new.mat \in Settled

PassOK(new) == new \in [Bundles -> Checkpoint] /\ \A b \in Bundles : RowOK(new[b], cp[b])

-----------------------------------------------------------------------------
LEMMA NoRowType == NoRow \in Checkpoint /\ ~Materializable(NoRow)
BY DEF NoRow, Checkpoint, Kinds, AnyTargets, Statuses, Materializable

LEMMA IdleType == Idle \in RunType
BY NoRowType DEF Idle, RunType, Outcomes

\* What every detected reference satisfies.
RefOK(ref) ==
    /\ ref.kind \in Kinds /\ ref.targets \in AnyTargets
    /\ ref.build \in Builds \cup {NoBuild}
    /\ Materializable(ref) => ref.targets \in TargetSets

LEMMA DetectedOK ==
    /\ \A ref \in ExtractedReferences : RefOK(ref)
    /\ \A b \in Builds : \A ref \in DetectedReferences(b) : RefOK(ref)
BY DEF DetectedReferences, ExtractedReferences, NotDetected, Reference, Kinds,
       AnyTargets, Materializable, RefOK

\* One bundle under checkpoint_from_reference.
LEMMA FromReference ==
    ASSUME NEW ref, RefOK(ref), NEW prior \in Checkpoint, NEW w \in BOOLEAN
    PROVE  RowOK(CheckpointFromReference(ref, prior, w), prior)
<1> DEFINE mat == IF prior.mat # "ABSENT" /\ prior.targets = ref.targets THEN prior.mat
             ELSE IF prior.mat # "ABSENT" /\ (w \/ prior.mat \in Settled)
                  THEN "BLOCKED"
             ELSE IF Materializable(ref) THEN "PENDING" ELSE "NOT_APPLICABLE"
<1>2. prior.mat \in Statuses
  BY DEF Checkpoint
<1>3. /\ mat \in Statuses
      /\ mat = "WRITTEN" => prior.mat = "WRITTEN" /\ ref.targets = prior.targets
      /\ prior.mat = "BLOCKED" => mat = "BLOCKED"
      /\ prior.mat = "WRITTEN" => mat \in Settled
  BY <1>2 DEF Statuses, Settled
<1>4. CheckpointFromReference(ref, prior, w) =
        [kind |-> ref.kind, targets |-> ref.targets, build |-> ref.build, mat |-> mat]
  BY DEF CheckpointFromReference, Row
<1> HIDE DEF mat
<1> QED
  BY <1>3, <1>4 DEF RowOK, RefOK, Checkpoint, Materializable

\* _replace_resolution_state is a resolution pass.
LEMMA ReplacedPass ==
    ASSUME TypeOK, TargetsInv, NEW b \in Builds,
           NEW refs \in [Bundles -> DetectedReferences(b)]
    PROVE  PassOK(Replaced(refs))
<1> SUFFICES ASSUME NEW x \in Bundles PROVE RowOK(Replaced(refs)[x], cp[x])
  BY DEF PassOK, RowOK, Replaced
<1>1. cp[x] \in Checkpoint /\ (Materializable(cp[x]) => cp[x].targets \in TargetSets)
  BY DEF TypeOK, TargetsInv
<1>2. CASE refs[x].kind # "none"
  <2>1. Replaced(refs)[x] = CheckpointFromReference(refs[x], cp[x], committed[x] # {})
    BY <1>2 DEF Replaced
  <2>2. (committed[x] # {}) \in BOOLEAN /\ RefOK(refs[x])
    BY DetectedOK
  <2> QED BY <1>1, <2>1, <2>2, FromReference, Zenon
<1>3. CASE refs[x].kind = "none"
  <2>1. Replaced(refs)[x] = cp[x] \/ (Replaced(refs)[x] = NoRow /\ cp[x].mat \notin Settled)
    BY <1>3 DEF Replaced
  <2> QED BY <1>1, <2>1, NoRowType DEF RowOK, NoRow, Settled
<1> QED BY <1>2, <1>3

\* _update_reference_checkpoints is a resolution pass.
LEMMA ExtractedPass ==
    ASSUME TypeOK, TargetsInv, NEW selected \in SUBSET Bundles,
           NEW refs \in [selected -> ExtractedReferences]
    PROVE  PassOK(Extracted(selected, refs))
<1> SUFFICES ASSUME NEW x \in Bundles PROVE RowOK(Extracted(selected, refs)[x], cp[x])
  BY DEF PassOK, RowOK, Extracted
<1>1. cp[x] \in Checkpoint /\ (Materializable(cp[x]) => cp[x].targets \in TargetSets)
  BY DEF TypeOK, TargetsInv
<1>2. CASE Extracted(selected, refs)[x] = cp[x]
  BY <1>1, <1>2 DEF RowOK, Settled
<1>3. CASE Extracted(selected, refs)[x] = NoRow /\ cp[x].mat \notin Settled
  BY <1>1, <1>3, NoRowType DEF RowOK, NoRow, Settled
<1>4. CASE x \in selected /\ Extracted(selected, refs)[x] =
             CheckpointFromReference(refs[x], cp[x], committed[x] # {})
  <2>1. RefOK(refs[x])
    BY <1>4, DetectedOK
  <2>2. (committed[x] # {}) \in BOOLEAN
    OBVIOUS
  <2>3. RowOK(CheckpointFromReference(refs[x], cp[x], committed[x] # {}), cp[x])
    BY <1>1, <2>1, <2>2, FromReference, Zenon
  <2> QED BY <1>4, <2>3
<1>5. \/ Extracted(selected, refs)[x] = cp[x]
      \/ Extracted(selected, refs)[x] = NoRow /\ cp[x].mat \notin Settled
      \/ x \in selected /\ Extracted(selected, refs)[x] =
             CheckpointFromReference(refs[x], cp[x], committed[x] # {})
  BY DEF Extracted
<1> QED BY <1>2, <1>3, <1>4, <1>5

-----------------------------------------------------------------------------
(* Type correctness.                                                       *)

TypeRest ==
    /\ cp \in [Bundles -> Checkpoint]
    /\ committed \in [Bundles -> SUBSET AnyTargets]
    /\ torn \in BOOLEAN
    /\ graph \in [Bundles -> AnyTargets]
    /\ lock \in Runs \cup {NoRun}
    /\ starts \in Nat

RunOK(x) == x \in RunType /\ (x.pc \in {"write", "append", "swap"} => x.cur \in Bundles)

LEMMA TypeParts == TypeOK <=> /\ TypeRest
                              /\ run \in [Runs -> RunType]
                              /\ \A r \in Runs : RunOK(run[r])
BY DEF TypeOK, TypeRest, RunOK, RunType, Holding

\* Replacing one process's local state by a well-typed one.
LEMMA TypeOneRun ==
    ASSUME TypeOK, TypeRest', NEW r \in Runs, NEW x, RunOK(x),
           run' = [run EXCEPT ![r] = x]
    PROVE  TypeOK'
<1>1. run \in [Runs -> RunType] /\ \A q \in Runs : RunOK(run[q])
  BY TypeParts
<1>2. x \in RunType
  BY DEF RunOK
<1>3. run' \in [Runs -> RunType]
  BY <1>1, <1>2
<1>4. ASSUME NEW q \in Runs PROVE RunOK(run'[q])
  <2>1. run'[q] = IF q = r THEN x ELSE run[q]
    BY <1>1
  <2> QED BY <1>1, <2>1
<1>5. TypeOK' <=> /\ TypeRest'
                  /\ run' \in [Runs -> RunType]
                  /\ \A q \in Runs : RunOK(run'[q])
  BY DEF TypeOK, TypeRest, RunOK, RunType, Holding
<1> QED BY <1>3, <1>4, <1>5

LEMMA TypeSameRun ==
    ASSUME TypeOK, TypeRest', UNCHANGED run
    PROVE  TypeOK'
BY DEF TypeOK, TypeRest, Holding

LEMMA IdleOK == RunOK(Idle)
BY IdleType DEF RunOK, Idle

\* Nobody is in a lock section while the lock is free; nobody else while r is.
LEMMA FreeLock ==
    ASSUME SectionInv, lock = NoRun, NEW q \in Runs
    PROVE  ~Holding(q)
BY ConstantsAssumption DEF SectionInv

LEMMA Alone ==
    ASSUME SectionInv, NEW r \in Runs, Holding(r), NEW q \in Runs, q # r
    PROVE  ~Holding(q)
BY DEF SectionInv

-----------------------------------------------------------------------------
(* Steps that leave the three stores alone, and resolution passes.         *)

\* A process outside a lock section, or leaving one, changes only itself.
LEMMA QuietStep ==
    ASSUME IInv, NEW r \in Runs, NEW x, RunOK(x), x.pc \in {"idle", "loop"},
           run' = [run EXCEPT ![r] = x],
           lock' \in {lock, NoRun}, lock # r => lock' = lock,
           UNCHANGED <<cp, committed, torn, graph, starts>>
    PROVE  IInv'
<1>1. TypeOK'
  <2>1. TypeRest'
    BY DEF IInv, TypeOK, TypeRest
  <2> QED BY <2>1, TypeOneRun DEF IInv
<1>2. \A q \in Runs : run'[q] = IF q = r THEN x ELSE run[q]
  BY DEF IInv, TypeOK
<1>3. \A q \in Runs : Holding(q)' => q # r /\ Holding(q)
  BY <1>2 DEF Holding
<1>4. SectionInv'
  <2> SUFFICES ASSUME NEW q \in Runs, Holding(q)'
               PROVE  /\ lock' = q
                      /\ run'[q].cur \in Bundles
                      /\ run'[q].seen = cp'
                      /\ Expected(q)' \in TargetSets
                      /\ cp'[run'[q].cur].mat \notin Settled
                      /\ run'[q].pc # "write" /\ run'[q].outcome = "COMMITTED"
                            => graph'[run'[q].cur] = Expected(q)'
                      /\ run'[q].pc = "swap" /\ run'[q].outcome = "COMMITTED"
                            => Expected(q)' \in committed'[run'[q].cur]
    BY DEF SectionInv
  <2>1. q # r /\ Holding(q) /\ run'[q] = run[q] /\ lock = q
    BY <1>2, <1>3 DEF IInv, SectionInv
  <2>2. Expected(q)' = Expected(q)
    BY <2>1 DEF Expected
  <2> QED BY <2>1, <2>2 DEF IInv, SectionInv
<1>5. TornInv'
  BY <1>3 DEF IInv, TornInv
<1>6. TargetsInv' /\ WrittenIsMaterialised' /\ LedgerIsTruthful'
  BY DEF IInv, TargetsInv, WrittenIsMaterialised, LedgerIsTruthful
<1> QED BY <1>1, <1>4, <1>5, <1>6 DEF IInv

\* The checkpoints are replaced while nobody is in a lock section.
LEMMA PassStep ==
    ASSUME IInv, lock = NoRun, PassOK(cp'), starts' \in Nat,
           TypeOK', \A q \in Runs : Holding(q)' => Holding(q),
           UNCHANGED <<committed, torn, graph, lock>>
    PROVE  IInv'
<1>1. \A q \in Runs : ~Holding(q)'
  BY FreeLock DEF IInv
<1>2. SectionInv' /\ TornInv'
  BY <1>1 DEF SectionInv, TornInv
<1>3. TargetsInv' /\ WrittenIsMaterialised' /\ LedgerIsTruthful'
  BY DEF IInv, TargetsInv, WrittenIsMaterialised, LedgerIsTruthful, PassOK, RowOK
<1> QED BY <1>2, <1>3 DEF IInv

LEMMA DryRunStep == IInv /\ DryRun => IInv'
<1> SUFFICES ASSUME IInv, DryRun PROVE IInv'
  OBVIOUS
<1>1. PICK build \in Builds : \E refs \in [Bundles -> DetectedReferences(build)] :
        ResolvedPass(refs)
  BY DEF DryRun
<1>2. PICK refs \in [Bundles -> DetectedReferences(build)] : ResolvedPass(refs)
  BY <1>1
<1>3. PassOK(cp')
  BY <1>2, ReplacedPass DEF ResolvedPass, IInv
<1>4. TypeRest' /\ UNCHANGED <<run, committed, torn, graph, lock>>
  BY <1>2, <1>3 DEF DryRun, ResolvedPass, IInv, TypeOK, TypeRest, PassOK
<1>5. TypeOK'
  BY <1>4, TypeSameRun DEF IInv
<1> QED
  BY <1>2, <1>3, <1>4, <1>5, PassStep DEF ResolvedPass, Holding, TypeRest

LEMMA ExtractStep == IInv /\ Extract => IInv'
<1> SUFFICES ASSUME IInv, Extract PROVE IInv'
  OBVIOUS
<1>1. PICK selected \in SUBSET Bundles : \E refs \in [selected -> ExtractedReferences] :
        cp' = Extracted(selected, refs)
  BY DEF Extract
<1>2. PICK refs \in [selected -> ExtractedReferences] : cp' = Extracted(selected, refs)
  BY <1>1
<1>3. PassOK(cp')
  BY <1>2, ExtractedPass DEF IInv
<1>4. TypeRest' /\ UNCHANGED <<run, committed, torn, graph, lock>> /\ lock = NoRun
  BY <1>3 DEF Extract, IInv, TypeOK, TypeRest, PassOK
<1>5. TypeOK'
  BY <1>4, TypeSameRun DEF IInv
<1> QED
  BY <1>3, <1>4, <1>5, PassStep DEF Holding, TypeRest

LEMMA ResolveStep == ASSUME IInv, NEW r \in Runs, Resolve(r) PROVE IInv'
<1>1. PICK build \in Builds : \E refs \in [Bundles -> DetectedReferences(build)] :
        /\ ResolvedPass(refs)
        /\ LET external == {b \in Bundles : Materializable(cp'[b])}
           IN run' = [run EXCEPT ![r] =
                 [Idle EXCEPT !.pc = "loop", !.build = build, !.todo = external,
                    !.failures = {b \in external : ~Validates(cp'[b], build)}]]
  BY DEF Resolve
<1> DEFINE external == {b \in Bundles : Materializable(cp'[b])}
           x == [Idle EXCEPT !.pc = "loop", !.build = build, !.todo = external,
                    !.failures = {b \in external : ~Validates(cp'[b], build)}]
<1>2. PICK refs \in [Bundles -> DetectedReferences(build)] :
        ResolvedPass(refs) /\ run' = [run EXCEPT ![r] = x]
  BY <1>1
<1>3. PassOK(cp')
  BY <1>2, ReplacedPass DEF ResolvedPass, IInv
<1>4. RunOK(x) /\ x.pc = "loop"
  BY IdleType DEF RunOK, RunType, Idle
<1> HIDE DEF x
<1>5. TypeRest' /\ UNCHANGED <<committed, torn, graph, lock>>
  BY <1>2, <1>3 DEF Resolve, ResolvedPass, IInv, TypeOK, TypeRest, PassOK
<1>6. TypeOK'
  BY <1>2, <1>4, <1>5, TypeOneRun DEF IInv
<1>7. \A q \in Runs : Holding(q)' => Holding(q)
  BY <1>2, <1>4 DEF IInv, TypeOK, Holding
<1> QED
  BY <1>2, <1>3, <1>5, <1>6, <1>7, PassStep DEF ResolvedPass, TypeRest

-----------------------------------------------------------------------------
(* The apply loop.                                                         *)

LEMMA RunTypes ==
    ASSUME TypeOK, NEW r \in Runs
    PROVE  run[r] \in RunType /\ RunOK(run[r])
BY TypeParts

\* Abort, Skip, Finish and Crash only end or shorten the run.
LEMMA EndStep ==
    ASSUME IInv, NEW r \in Runs,
           \/ \E b \in Bundles : Abort(r, b) \/ Skip(r, b)
           \/ Finish(r) \/ Crash(r)
    PROVE  IInv'
<1>2. CASE /\ End(r)
           /\ lock' \in {lock, NoRun} /\ (lock # r => lock' = lock)
           /\ UNCHANGED <<cp, committed, torn, graph, starts>>
  <2>1. Idle.pc = "idle"
    BY DEF Idle
  <2> QED BY <1>2, <2>1, IdleOK, QuietStep DEF End
<1>3. ASSUME NEW b \in Bundles, Skip(r, b) PROVE IInv'
  <2> DEFINE x == [run[r] EXCEPT !.todo = @ \ {b}]
  <2>1. run' = [run EXCEPT ![r] = x]
    BY <1>3, RunTypes DEF Skip, Drop, IInv, RunType
  <2>2. RunOK(x) /\ x.pc = "loop"
    BY <1>3, RunTypes DEF Skip, Turn, IInv, RunOK, RunType
  <2>3. /\ lock' \in {lock, NoRun} /\ (lock # r => lock' = lock)
        /\ UNCHANGED <<cp, committed, torn, graph, starts>>
    BY <1>3 DEF Skip, Turn
  <2> HIDE DEF x
  <2> QED BY <2>1, <2>2, <2>3, QuietStep
<1>4. CASE Finish(r)
  BY <1>2, <1>4 DEF Finish
<1>5. CASE Crash(r)
  BY <1>2, <1>5 DEF Crash
<1>6. ASSUME NEW b \in Bundles, Abort(r, b) PROVE IInv'
  BY <1>2, <1>6 DEF Abort, Turn
<1> QED BY <1>3, <1>4, <1>5, <1>6

\* A bundle is BLOCKED or FAILED before any graph access.
LEMMA PreflightStep ==
    ASSUME IInv, NEW r \in Runs, NEW b \in Bundles, Preflight(r, b)
    PROVE  IInv'
<1> DEFINE x == [run[r] EXCEPT !.todo = @ \ {b}]
<1>1. run' = [run EXCEPT ![r] = x]
  BY RunTypes DEF Preflight, Drop, IInv, RunType
<1>2. RunOK(x) /\ x.pc = "loop"
  BY RunTypes DEF Preflight, Turn, IInv, RunOK, RunType
<1> HIDE DEF x
<1>3. /\ lock = NoRun /\ cp[b].mat \notin Settled
      /\ UNCHANGED <<committed, torn, graph, lock, starts>>
  BY DEF Preflight, Turn
<1>4. PICK s \in {"BLOCKED", "FAILED"} : cp' = [cp EXCEPT ![b].mat = s]
  BY DEF Preflight
<1>5. PassOK(cp')
  <2>1. cp \in [Bundles -> Checkpoint]
    BY DEF IInv, TypeOK
  <2>2. ASSUME NEW c \in Bundles PROVE RowOK(cp'[c], cp[c])
    <3>1. CASE c = b
      <4>1. cp'[c] = [cp[c] EXCEPT !.mat = s]
        BY <1>4, <2>1, <3>1
      <4>2. cp[c] \in Checkpoint /\ (Materializable(cp[c]) => cp[c].targets \in TargetSets)
        BY <2>1 DEF IInv, TargetsInv
      <4> QED
        BY <1>3, <3>1, <4>1, <4>2 DEF RowOK, Checkpoint, Materializable, Statuses, Settled
    <3>2. CASE c # b
      BY <1>4, <2>1, <3>2 DEF RowOK, IInv, TargetsInv, Settled
    <3> QED BY <3>1, <3>2
  <2>3. cp' \in [Bundles -> Checkpoint]
    BY <1>4, <2>1, <2>2 DEF RowOK
  <2> QED BY <2>2, <2>3 DEF PassOK
<1>6. TypeRest'
  BY <1>3, <1>5 DEF IInv, TypeOK, TypeRest, PassOK
<1>7. TypeOK'
  BY <1>1, <1>2, <1>6, TypeOneRun DEF IInv
<1>8. \A q \in Runs : Holding(q)' => Holding(q)
  BY <1>1, <1>2 DEF IInv, TypeOK, Holding
<1> QED BY <1>3, <1>5, <1>6, <1>7, <1>8, PassStep DEF TypeRest

LEMMA ClaimStep ==
    ASSUME IInv, NEW r \in Runs, NEW b \in Bundles, Claim(r, b)
    PROVE  IInv'
<1> DEFINE x == [run[r] EXCEPT !.pc = "write", !.cur = b, !.seen = cp]
<1>1. /\ lock = NoRun /\ lock' = r /\ ~torn /\ run[r].pc = "loop"
      /\ Validates(cp[b], run[r].build) /\ cp[b].mat \notin Settled
      /\ UNCHANGED <<cp, committed, torn, graph, starts>>
  BY DEF Claim, Turn
<1>2. run' = [run EXCEPT ![r] = x]
  BY RunTypes DEF Claim, IInv, RunType
<1>3. /\ RunOK(x) /\ x.pc = "write" /\ x.cur = b /\ x.seen = cp
  BY RunTypes DEF IInv, RunOK, RunType, TypeOK
<1> HIDE DEF x
<1>4. TypeRest'
  BY <1>1 DEF IInv, TypeOK, TypeRest
<1>5. TypeOK'
  BY <1>2, <1>3, <1>4, TypeOneRun DEF IInv
<1>6. run'[r] = x /\ \A q \in Runs : Holding(q)' => q = r
  BY <1>1, <1>2, FreeLock DEF IInv, TypeOK, Holding
<1>7. Expected(r)' = cp[b].targets /\ cp[b].targets \in TargetSets
  BY <1>1, <1>3, <1>6 DEF Expected, Validates, Materializable, IInv, TargetsInv
<1>8. SectionInv'
  BY <1>1, <1>3, <1>6, <1>7 DEF SectionInv
<1>9. TornInv' /\ TargetsInv' /\ WrittenIsMaterialised' /\ LedgerIsTruthful'
  BY <1>1 DEF IInv, TornInv, TargetsInv, WrittenIsMaterialised, LedgerIsTruthful
<1> QED BY <1>5, <1>8, <1>9 DEF IInv

\* The transaction of the bundle in hand, however it ends.
LEMMA WriteStep ==
    ASSUME IInv, NEW r \in Runs,
           WriteRefused(r) \/ WriteConflict(r) \/ WriteCommit(r) \/ WriteLost(r)
    PROVE  IInv'
<1> DEFINE b == run[r].cur
           T == Expected(r)
<1>1. /\ run[r].pc = "write" /\ Holding(r)
      /\ UNCHANGED <<cp, committed, torn, lock, starts>>
  BY DEF WriteRefused, WriteConflict, WriteCommit, WriteLost, Holding
<1>2. /\ lock = r /\ b \in Bundles /\ run[r].seen = cp /\ T \in TargetSets
      /\ T = cp[b].targets /\ cp[b].mat \notin Settled
  BY <1>1 DEF IInv, SectionInv, Expected
<1>3. PICK o \in Outcomes : /\ Learn(r, o)
                            /\ o = "COMMITTED" => WriteCommit(r)
  BY DEF WriteRefused, WriteConflict, WriteCommit, WriteLost, Outcomes
<1>4. graph' = graph \/ (graph[b] \in {{}, T} /\ graph' = [graph EXCEPT ![b] = T])
  BY DEF WriteRefused, WriteConflict, WriteCommit, WriteLost
<1>5. o = "COMMITTED" => graph'[b] = T
  BY <1>2, <1>3 DEF WriteCommit, IInv, TypeOK
<1> DEFINE x == [run[r] EXCEPT !.pc = "append", !.outcome = o]
<1>6. run' = [run EXCEPT ![r] = x]
  BY <1>3, RunTypes DEF Learn, IInv, RunType
<1>7. /\ RunOK(x) /\ x.pc = "append" /\ x.cur = b /\ x.seen = run[r].seen
      /\ x.outcome = o
  BY <1>2, RunTypes DEF IInv, RunOK, RunType
<1> HIDE DEF x
<1>8. TypeRest'
  <2>1. graph' \in [Bundles -> AnyTargets]
    BY <1>2, <1>4 DEF IInv, TypeOK, AnyTargets
  <2> QED BY <1>1, <2>1 DEF IInv, TypeOK, TypeRest
<1>9. TypeOK'
  BY <1>6, <1>7, <1>8, TypeOneRun DEF IInv
<1>10. run'[r] = x /\ \A q \in Runs : Holding(q)' => q = r
  BY <1>1, <1>6, Alone DEF IInv, TypeOK, Holding
<1>11. Expected(r)' = T
  BY <1>7, <1>10 DEF Expected
<1>12. SectionInv'
  BY <1>1, <1>2, <1>5, <1>7, <1>10, <1>11 DEF SectionInv
<1>13. TornInv' /\ TargetsInv'
  BY <1>1 DEF IInv, TornInv, TargetsInv
<1>14. \A c \in Bundles : graph[c] # {} => graph'[c] = graph[c]
  BY <1>2, <1>4 DEF IInv, TypeOK
<1>15. \A c \in Bundles : \A S \in committed[c] : S # {} /\ graph[c] = S
  BY ConstantsAssumption DEF IInv, TargetsInv, LedgerIsTruthful
<1>16. LedgerIsTruthful' /\ WrittenIsMaterialised'
  BY <1>1, <1>14, <1>15 DEF IInv, LedgerIsTruthful, WrittenIsMaterialised
<1> QED BY <1>9, <1>12, <1>13, <1>16 DEF IInv

LEMMA AppendStep ==
    ASSUME IInv, NEW r \in Runs, Append(r)
    PROVE  IInv'
<1> DEFINE b == run[r].cur
           T == Expected(r)
           x == [run[r] EXCEPT !.pc = "swap"]
<1>1. /\ run[r].pc = "append" /\ Holding(r)
      /\ UNCHANGED <<cp, graph, torn, lock, starts>>
  BY DEF Append, Holding
<1>2. /\ lock = r /\ b \in Bundles /\ run[r].seen = cp /\ T \in TargetSets
      /\ cp[b].mat \notin Settled
      /\ run[r].outcome = "COMMITTED" => graph[b] = T
  BY <1>1 DEF IInv, SectionInv
<1>3. committed' = IF run[r].outcome = "COMMITTED"
                   THEN [committed EXCEPT ![b] = @ \cup {T}] ELSE committed
  BY DEF Append
<1>4. run' = [run EXCEPT ![r] = x]
  BY RunTypes DEF Append, IInv, RunType
<1>5. /\ RunOK(x) /\ x.pc = "swap" /\ x.cur = b /\ x.seen = run[r].seen
      /\ x.outcome = run[r].outcome
  BY <1>2, RunTypes DEF IInv, RunOK, RunType
<1> HIDE DEF x
<1>6. committed \in [Bundles -> SUBSET AnyTargets] /\ T \in AnyTargets
  BY <1>2 DEF IInv, TypeOK, AnyTargets
<1>7. /\ committed' \in [Bundles -> SUBSET AnyTargets]
      /\ \A c \in Bundles : committed'[c] =
            IF c = b /\ run[r].outcome = "COMMITTED" THEN committed[c] \cup {T}
            ELSE committed[c]
  BY <1>2, <1>3, <1>6
<1>8. TypeRest'
  BY <1>1, <1>7 DEF IInv, TypeOK, TypeRest
<1>9. TypeOK'
  BY <1>4, <1>5, <1>8, TypeOneRun DEF IInv
<1>10. run'[r] = x /\ \A q \in Runs : Holding(q)' => q = r
  BY <1>1, <1>4, Alone DEF IInv, TypeOK, Holding
<1>11. Expected(r)' = T
  BY <1>5, <1>10 DEF Expected
<1>12. SectionInv'
  BY <1>1, <1>2, <1>5, <1>7, <1>10, <1>11 DEF SectionInv
<1>13. TornInv' /\ TargetsInv'
  BY <1>1, <1>2, <1>7 DEF IInv, TornInv, TargetsInv
<1>14. LedgerIsTruthful' /\ WrittenIsMaterialised'
  BY <1>1, <1>2, <1>7 DEF IInv, LedgerIsTruthful, WrittenIsMaterialised
<1> QED BY <1>9, <1>12, <1>13, <1>14 DEF IInv

LEMMA AppendTornStep ==
    ASSUME IInv, NEW r \in Runs, AppendTorn(r)
    PROVE  IInv'
<1>1. /\ Holding(r) /\ lock' = NoRun /\ torn' = TRUE
      /\ run' = [run EXCEPT ![r] = Idle]
      /\ UNCHANGED <<cp, committed, graph, starts>>
  BY DEF AppendTorn, Holding, End
<1>2. TypeRest'
  BY <1>1 DEF IInv, TypeOK, TypeRest
<1>3. TypeOK'
  BY <1>1, <1>2, IdleOK, TypeOneRun DEF IInv
<1>4. \A q \in Runs : ~Holding(q)'
  BY <1>1, Alone DEF IInv, TypeOK, Holding, Idle
<1>5. SectionInv' /\ TornInv'
  BY <1>4 DEF SectionInv, TornInv
<1>6. TargetsInv' /\ WrittenIsMaterialised' /\ LedgerIsTruthful'
  BY <1>1 DEF IInv, TargetsInv, WrittenIsMaterialised, LedgerIsTruthful
<1> QED BY <1>3, <1>5, <1>6 DEF IInv

LEMMA SwapStep ==
    ASSUME IInv, NEW r \in Runs, Swap(r)
    PROVE  IInv'
<1> DEFINE b == run[r].cur
           s == StatusOf(run[r].outcome)
           x == [Idle EXCEPT !.pc = "loop", !.build = run[r].build,
                   !.todo = run[r].todo \ {run[r].cur}, !.failures = run[r].failures]
<1>1. /\ run[r].pc = "swap" /\ Holding(r) /\ lock' = NoRun
      /\ UNCHANGED <<committed, torn, graph, starts>>
  BY DEF Swap, Holding
<1>2. /\ b \in Bundles /\ run[r].seen = cp /\ Expected(r) = cp[b].targets
      /\ run[r].outcome = "COMMITTED"
            => graph[b] = cp[b].targets /\ cp[b].targets \in committed[b]
  BY <1>1 DEF IInv, SectionInv, Expected
<1>3. cp' = [cp EXCEPT ![b].mat = s] /\ run' = [run EXCEPT ![r] = x]
  BY <1>2 DEF Swap
<1>4. s \in Statuses /\ (s = "WRITTEN" => run[r].outcome = "COMMITTED")
  BY DEF StatusOf, Statuses
<1>5. RunOK(x) /\ x.pc = "loop"
  BY IdleType, RunTypes DEF IInv, RunOK, RunType, Idle
<1> HIDE DEF x, s
<1>6. cp \in [Bundles -> Checkpoint]
  BY DEF IInv, TypeOK
<1>7. \A c \in Bundles : cp'[c] = IF c = b THEN [cp[c] EXCEPT !.mat = s] ELSE cp[c]
  BY <1>2, <1>3, <1>6
<1>8. /\ cp' \in [Bundles -> Checkpoint]
      /\ \A c \in Bundles : cp'[c].targets = cp[c].targets /\ cp'[c].kind = cp[c].kind
      /\ cp'[b].mat = s
  BY <1>2, <1>3, <1>4, <1>6, <1>7 DEF Checkpoint
<1>9. TypeRest'
  BY <1>1, <1>8 DEF IInv, TypeOK, TypeRest
<1>10. TypeOK'
  BY <1>3, <1>5, <1>9, TypeOneRun DEF IInv
<1>11. \A q \in Runs : ~Holding(q)'
  BY <1>1, <1>3, <1>5, Alone DEF IInv, TypeOK, Holding
<1>12. SectionInv' /\ TornInv'
  BY <1>11 DEF SectionInv, TornInv
<1>13. TargetsInv'
  BY <1>1, <1>8 DEF IInv, TargetsInv, Materializable
<1>14. WrittenIsMaterialised'
  BY <1>1, <1>2, <1>4, <1>7, <1>8 DEF IInv, WrittenIsMaterialised
<1>15. LedgerIsTruthful'
  BY <1>1 DEF IInv, LedgerIsTruthful
<1> QED BY <1>10, <1>12, <1>13, <1>14, <1>15 DEF IInv

-----------------------------------------------------------------------------
(* The invariant and the theorems.                                         *)

LEMMA InitIInv == Init => IInv
<1> SUFFICES ASSUME Init PROVE IInv
  OBVIOUS
<1>1. TypeRest
  BY NoRowType DEF Init, TypeRest, AnyTargets
<1>2. run \in [Runs -> RunType] /\ \A r \in Runs : RunOK(run[r]) /\ ~Holding(r)
  BY IdleType, IdleOK DEF Init, Holding, Idle
<1>3. TypeOK
  BY <1>1, <1>2, TypeParts
<1>4. SectionInv /\ TornInv
  BY <1>2 DEF SectionInv, TornInv
<1>5. TargetsInv /\ WrittenIsMaterialised /\ LedgerIsTruthful
  BY NoRowType DEF Init, TargetsInv, WrittenIsMaterialised, LedgerIsTruthful, NoRow
<1> QED BY <1>3, <1>4, <1>5 DEF IInv

LEMMA NextIInv == IInv /\ [Next]_vars => IInv'
<1> SUFFICES ASSUME IInv, [Next]_vars PROVE IInv'
  OBVIOUS
<1>1. CASE DryRun
  BY <1>1, DryRunStep
<1>2. CASE Extract
  BY <1>2, ExtractStep
<1>3. ASSUME NEW r \in Runs, Resolve(r) PROVE IInv'
  BY <1>3, ResolveStep
<1>4. ASSUME NEW r \in Runs, Crash(r) PROVE IInv'
  BY <1>4, EndStep
<1>5. ASSUME NEW r \in Runs, Step(r) PROVE IInv'
  <2>1. CASE \E b \in Bundles : Abort(r, b) \/ Skip(r, b)
    BY <2>1, EndStep
  <2>2. ASSUME NEW b \in Bundles, Preflight(r, b) \/ Claim(r, b) PROVE IInv'
    BY <2>2, PreflightStep, ClaimStep
  <2>3. CASE WriteRefused(r) \/ WriteConflict(r) \/ WriteCommit(r) \/ WriteLost(r)
    BY <2>3, WriteStep
  <2>4. CASE Append(r) \/ AppendTorn(r) \/ Swap(r)
    BY <2>4, AppendStep, AppendTornStep, SwapStep
  <2>5. CASE Finish(r)
    BY <2>5, EndStep
  <2> QED BY <1>5, <2>1, <2>2, <2>3, <2>4, <2>5 DEF Step
<1>6. CASE UNCHANGED vars
  <2>1. TypeOK' /\ \A q \in Runs : Holding(q)' <=> Holding(q)
    BY <1>6 DEF vars, IInv, TypeOK, Holding
  <2>2. \A q \in Runs : Expected(q)' = Expected(q)
    BY <1>6 DEF vars, Expected
  <2>3. SectionInv' /\ TornInv'
    BY <1>6, <2>1, <2>2 DEF vars, IInv, SectionInv, TornInv
  <2>4. TargetsInv' /\ WrittenIsMaterialised' /\ LedgerIsTruthful'
    BY <1>6 DEF vars, IInv, TargetsInv, WrittenIsMaterialised, LedgerIsTruthful
  <2> QED BY <2>1, <2>3, <2>4 DEF IInv
<1> QED
  BY <1>1, <1>2, <1>3, <1>4, <1>5, <1>6 DEF Next

LEMMA IInvAlways == Spec => []IInv
BY InitIInv, NextIInv, PTL DEF Spec

\* The stores keep their types (reference_checkpoint_store.py).
THEOREM TypeCorrect == Spec => []TypeOK
<1>1. IInv => TypeOK
  BY DEF IInv
<1> QED BY <1>1, IInvAlways, PTL

\* A WRITTEN checkpoint has its edges and its ledger row, and a COMMITTED row
\* its edges, wherever the processes were killed
\* (external_reference_reconciliation.py, the order graph, ledger, checkpoint).
THEOREM StoresAgreeCorrect == Spec => []StoresAgree
<1>1. IInv => StoresAgree
  BY DEF IInv, StoresAgree
<1> QED BY <1>1, IInvAlways, PTL

-----------------------------------------------------------------------------
(* What no step does.                                                      *)

\* The graph is changed by a commit only.
LEMMA GraphChange ==
    ASSUME IInv, [Next]_vars, graph' # graph
    PROVE  \E r \in Runs : WriteCommit(r)
<1>1. CASE DryRun \/ Extract \/ UNCHANGED vars
  BY <1>1 DEF DryRun, Extract, vars
<1>2. ASSUME NEW r \in Runs, Resolve(r) \/ Crash(r) PROVE FALSE
  BY <1>2 DEF Resolve, ResolvedPass, Crash
<1>3. ASSUME NEW r \in Runs, Step(r), ~WriteCommit(r) PROVE FALSE
  BY <1>3 DEF Step, Abort, Skip, Preflight, Claim, WriteRefused, WriteConflict, WriteLost,
              Append, AppendTorn, Swap, Finish
<1> QED
  BY <1>1, <1>2, <1>3 DEF Next

\* The edges of a bundle are written once: an old target is never deleted,
\* replaced or joined by a new one (Neo4jExternalReferenceWriter._write_bundle).
THEOREM EdgesCorrect == Spec => EdgesAreStable
<1>1. ASSUME IInv, [Next]_vars, NEW b \in Bundles, graph[b] # {}
      PROVE  graph'[b] = graph[b]
  <2>1. CASE graph' = graph
    BY <2>1
  <2>2. CASE graph' # graph
    <3>1. PICK r \in Runs : WriteCommit(r)
      BY <1>1, <2>2, GraphChange
    <3>2. /\ graph[run[r].cur] \in {{}, Expected(r)}
          /\ graph' = [graph EXCEPT ![run[r].cur] = Expected(r)]
          /\ graph \in [Bundles -> AnyTargets]
      BY <1>1, <3>1 DEF WriteCommit, IInv, TypeOK
    <3> QED BY <1>1, <3>2
  <2> QED BY <2>1, <2>2
<1>2. IInv /\ [Next]_vars =>
        [\A b \in Bundles : graph[b] # {} => graph'[b] = graph[b]]_vars
  BY <1>1
<1> QED BY <1>2, IInvAlways, PTL DEF Spec, EdgesAreStable

\* A change of the checkpoints is a resolution pass, a preflight or a swap.
LEMMA CheckpointChange ==
    ASSUME IInv, [Next]_vars, cp' # cp
    PROVE  \/ PassOK(cp')
           \/ \E r \in Runs, b \in Bundles : Preflight(r, b)
           \/ \E r \in Runs : Swap(r)
<1>1. CASE DryRun \/ \E r \in Runs : Resolve(r)
  <2>1. PICK build \in Builds : \E refs \in [Bundles -> DetectedReferences(build)] :
          cp' = Replaced(refs)
    BY <1>1 DEF DryRun, Resolve, ResolvedPass
  <2> QED BY <2>1, ReplacedPass DEF IInv
<1>2. CASE Extract
  BY <1>2, ExtractedPass DEF Extract, IInv
<1>3. CASE \E r \in Runs : Step(r) \/ Crash(r)
  <2>1. PICK r \in Runs : Step(r) \/ Crash(r)
    BY <1>3
  <2>2. CASE Crash(r)
    BY <2>2 DEF Crash
  <2>3. CASE Step(r)
    <3>1. (\E b \in Bundles : Preflight(r, b)) \/ Swap(r)
      BY <2>3 DEF Step, Abort, Skip, Claim, WriteRefused, WriteConflict, WriteCommit,
                  WriteLost, Append, AppendTorn, Finish
    <3> QED BY <3>1
  <2> QED BY <2>1, <2>2, <2>3
<1> QED BY <1>1, <1>2, <1>3 DEF Next, vars

SettledStep(b) ==
    /\ cp[b].mat = "BLOCKED" => cp'[b].mat = "BLOCKED"
    /\ cp[b].mat = "WRITTEN" =>
         \/ cp'[b].mat = "BLOCKED"
         \/ cp'[b].mat = "WRITTEN" /\ cp'[b].targets = cp[b].targets

\* A settled bundle is never reopened, whatever later passes resolve
\* (checkpoint_from_reference, _replace_resolution_state,
\* _update_reference_checkpoints and the skip of the apply loop).
THEOREM SettledCorrect == Spec => SettledIsFinal
<1>1. ASSUME IInv, [Next]_vars, NEW b \in Bundles PROVE SettledStep(b)
  <2>0. cp \in [Bundles -> Checkpoint]
    BY <1>1 DEF IInv, TypeOK
  <2>1. CASE cp' = cp
    BY <2>1 DEF SettledStep
  <2>2. CASE PassOK(cp')
    BY <2>2 DEF PassOK, RowOK, SettledStep, Settled
  <2>3. ASSUME NEW r \in Runs, NEW c \in Bundles, Preflight(r, c) PROVE SettledStep(b)
    <3>1. PICK s \in {"BLOCKED", "FAILED"} : cp' = [cp EXCEPT ![c].mat = s]
      BY <2>3 DEF Preflight
    <3>2. cp[c].mat \notin Settled
      BY <2>3 DEF Preflight
    <3> QED BY <2>0, <3>1, <3>2 DEF SettledStep, Settled
  <2>4. ASSUME NEW r \in Runs, Swap(r) PROVE SettledStep(b)
    <3>1. cp[run[r].cur].mat \notin Settled
      BY <1>1, <2>4 DEF Swap, Holding, IInv, SectionInv
    <3>2. cp' = cp \/ cp' = [cp EXCEPT ![run[r].cur].mat = StatusOf(run[r].outcome)]
      BY <2>4 DEF Swap
    <3> QED BY <2>0, <3>1, <3>2 DEF SettledStep, Settled
  <2> QED BY <1>1, <2>1, <2>2, <2>3, <2>4, CheckpointChange
<1>2. IInv /\ [Next]_vars => [\A b \in Bundles : SettledStep(b)]_vars
  BY <1>1
<1>3. IInv /\ [Next]_vars =>
        [\A b \in Bundles :
          /\ cp[b].mat = "BLOCKED" => cp'[b].mat = "BLOCKED"
          /\ cp[b].mat = "WRITTEN" =>
               \/ cp'[b].mat = "BLOCKED"
               \/ cp'[b].mat = "WRITTEN" /\ cp'[b].targets = cp[b].targets]_vars
  BY <1>2 DEF SettledStep
<1> QED BY <1>3, IInvAlways, PTL DEF Spec, SettledIsFinal

\* Nothing is written behind a truncated ledger (read_attempts under every lock).
THEOREM TornCorrect == Spec => TornLedgerFreezes
<1>1. ASSUME IInv, [Next]_vars, torn PROVE UNCHANGED <<cp, committed, torn, graph>>
  <2>1. \A r \in Runs : run[r].pc \notin {"write", "append", "swap"}
    BY <1>1 DEF IInv, TornInv, Holding
  <2>2. CASE DryRun \/ Extract \/ \E r \in Runs : Resolve(r)
    BY <1>1, <2>2 DEF DryRun, Extract, Resolve, ResolvedPass
  <2>3. ASSUME NEW r \in Runs, Step(r) \/ Crash(r)
        PROVE UNCHANGED <<cp, committed, torn, graph>>
    BY <1>1, <2>1, <2>3 DEF Step, Abort, Skip, Preflight, Claim, WriteRefused,
       WriteConflict, WriteCommit, WriteLost, Append, AppendTorn, Swap, Finish, Crash
  <2> QED BY <1>1, <2>2, <2>3 DEF Next, vars
<1>2. IInv /\ [Next]_vars => [torn => UNCHANGED <<cp, committed, torn, graph>>]_vars
  BY <1>1
<1> QED BY <1>2, IInvAlways, PTL DEF Spec, TornLedgerFreezes
=============================================================================
