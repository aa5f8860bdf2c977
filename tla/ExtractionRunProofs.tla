------------------------ MODULE ExtractionRunProofs ------------------------
(***************************************************************************)
(* Theorems about ExtractionRun, for every number of Articles, workers,    *)
(* attempts, models, types, setups, runs and events: the types of the      *)
(* merged entities do not depend on the order of completion, at most a     *)
(* window of paid answers is ever lost, no current checkpoint is paid for  *)
(* twice, and what passes the readiness gate is one complete run.          *)
(***************************************************************************)
EXTENDS ExtractionRun, FiniteSetTheorems, WellFoundedInduction, TLAPS

-----------------------------------------------------------------------------
(* The inductive invariant.                                                *)

MaybeRow == Row \cup {NoRow}
MaybeType == Types \cup {NoType}

Cell == {Idle, [at |-> "failed"]}
        \cup [at : {"queued"}, row : MaybeRow]
        \cup [at : {"calling"}, try : Nat]
        \cup [at : {"done"}, row : Row]

Run == [pc : {"off", "pool", "shutdown", "publish", "unblock", "record"},
        mode : {"none", "extract", "normalize", "batch"},
        sel : SUBSET Articles, todo : SUBSET Articles,
        fate : {"none", "SUCCESS", "FAILED"}]

ArtifactSet == [complete : BOOLEAN, index : MaybeType, archived : BOOLEAN]

Merged == [index : MaybeType, conflict : BOOLEAN, from : 0..N]

InputsOK ==
    /\ text \in [Articles -> Nat \ {0}] /\ prompt \in Nat /\ served \in Models

DiskOK ==
    /\ rows \in [Articles -> MaybeRow]
    /\ sets \in Seq(ArtifactSet) /\ sets # <<>>
    /\ alias \in [Names -> Nat \cup {Link}]
    /\ pointer \in Nat
    /\ ledger \in {"none", "SUCCESS", "FAILED"}
    /\ other \in {"unread", "none", "SUCCESS", "FAILED"}

MemoryOK ==
    /\ checkpoints \in [Articles -> MaybeRow]
    /\ merged \in Merged
    /\ run.pc \in {"pool", "publish"} => results \in [Articles -> MaybeType]
    /\ paid \subseteq Articles

TypeOK == InputsOK /\ DiskOK /\ MemoryOK /\ run \in Run /\ work \in [Articles -> Cell]

Active == {a \in Articles : work[a].at # "idle"}
Lost == {a \in paid : ~ExactMatch(a, rows[a])}

\* The pool runs only in a run, and a queued Article is picked up only while the
\* main thread takes results.
Quiet ==
    /\ run.pc \notin {"pool", "shutdown"} => work = NoWork
    /\ run.pc \in {"off", "record"} => paid = {}
    /\ \A a \in Articles : work[a].at = "queued" => run.pc = "pool"

\* An Article is submitted once in a run, with the checkpoint the run has of it,
\* and comes back as a row that is current.
Once ==
    \A a \in Articles :
        /\ work[a].at = "queued" => work[a].row = checkpoints[a]
        /\ work[a].at = "done" => ExactMatch(a, work[a].row)
        /\ run.pc = "pool" /\ (a \in Active \/ a \in run.todo) => results[a] = NoType
        /\ run.pc = "pool" /\ a \in Active => a \notin run.todo

\* The checkpoints in memory are at least as good as those on disk, and what was
\* paid for and has left the pool is in both.
Saved ==
    run.pc = "pool" =>
        \A a \in Articles :
            /\ ~synthetic /\ checkpoints[a] = NoRow => ~ExactMatch(a, rows[a])
            /\ a \in paid \ Active => /\ ExactMatch(a, checkpoints[a])
                                      /\ ExactMatch(a, rows[a])

\* The pool and what a failure has thrown away fit in the window together.
InWindow == Cardinality(Active \cup Lost) <= MaxWorkers

SameModel(cps) ==
    \A a, b \in Articles :
        cps[a] # NoRow /\ cps[b] # NoRow => cps[a].model = cps[b].model

OneModelInv == SameModel(rows) /\ SameModel(checkpoints)

\* The types the absorbed Articles gave to the entity.
Seen == {results[a] : a \in Articles} \ {NoType}

MergeInv ==
    run.pc \in {"pool", "publish"} =>
        /\ merged.index = NoType => Seen = {} /\ ~merged.conflict
        /\ merged.index # NoType => merged.index \in Seen
        /\ ~merged.conflict /\ merged.index # NoType =>
              merged.from \in Articles /\ results[merged.from] = merged.index
        /\ merged.conflict <=> \E t \in Seen : t # merged.index

\* Links and pointer: a legacy file is never left under `records' alone, and once
\* there is a pointer every alias is a link or archived.
PublishInv ==
    /\ sets[1].complete
    /\ pointer <= Len(sets)
    /\ symlinks =>
          /\ \A n \in Names : alias[n] \in {0, 1, Link}
          /\ alias["records"] = 1 => alias["extraction_run"] = 1
          /\ pointer # 0 => /\ \A n \in Names : alias[n] # 1
                            /\ alias["extraction_run"] = Link

LedgerInv ==
    ledger = "SUCCESS" \/ other = "SUCCESS" \/ run.fate = "SUCCESS"
        \/ run.pc = "unblock" => pointer # 0

IInv == /\ TypeOK /\ Quiet /\ Once /\ Saved /\ InWindow /\ OneModelInv
        /\ MergeInv /\ PublishInv /\ LedgerInv
-----------------------------------------------------------------------------
(* Facts about the operators.                                              *)

LEMMA NamesAre == Names = {"records", "entity_index", "extraction_run"}
BY DEF Names, NameOrder

LEMMA RowFacts ==
    /\ NoRow \notin Row
    /\ NoRow \in MaybeRow
    /\ \A r \in MaybeRow : r # NoRow => r \in Row
<1>1. \A r \in Row : r.text # 0
  BY DEF Row
<1> QED BY <1>1 DEF NoRow, MaybeRow

LEMMA CellFacts ==
    /\ Idle.at = "idle"
    /\ Idle \in Cell /\ [at |-> "failed"] \in Cell
    /\ \A w \in Cell : w.at = "queued" => w.row \in MaybeRow
    /\ \A w \in Cell : w.at = "done" => w.row \in Row
    /\ \A w \in Cell : w.at = "calling" => w.try \in Nat /\ w = [at |-> "calling", try |-> w.try]
    /\ \A w \in Cell : w.at = "idle" => w = Idle
BY DEF Cell, Idle

LEMMA RunFacts ==
    /\ Off \in Run /\ Off.pc = "off" /\ Off.fate = "none" /\ Off.todo = {}
    /\ \A f \in {"none", "SUCCESS", "FAILED"} :
          /\ [Off EXCEPT !.pc = "record", !.fate = f] \in Run
          /\ [Off EXCEPT !.pc = "record", !.fate = f].pc = "record"
          /\ [Off EXCEPT !.pc = "record", !.fate = f].fate = f
BY DEF Off, Run

\* The least-number principle, from the well-foundedness of < on Nat.
LEMMA LeastNat ==
    ASSUME NEW S, S \subseteq Nat, S # {}
    PROVE  \E n \in S : \A m \in S : n <= m
<1> DEFINE R == OpToRel(<, Nat)
<1>1. IsWellFoundedOn(R, Nat)
  BY NatLessThanWellFounded
<1>2. PICK n \in S : \A m \in S : ~(<<m, n>> \in R)
  <2> HIDE DEF R
  <2> QED BY <1>1, WFMin, Zenon
<1>3. \A m \in S : <<m, n>> \in R <=> m < n
  BY SMT DEF OpToRel
<1> HIDE DEF R
<1>4. \A m \in S : ~(m < n)
  BY <1>2, <1>3, Zenon
<1>5. \A m \in S : n <= m
  BY <1>4, SMT
<1> QED BY <1>5

LEMMA GreatestNat ==
    ASSUME NEW S, NEW n \in Nat, S \subseteq 0..n, S # {}
    PROVE  \E a \in S : \A b \in S : b <= a
<1> DEFINE T == {n - a : a \in S}
<1>1. \A a \in S : n - a \in Nat
  BY SMT
<1>2. T \subseteq Nat /\ T # {}
  BY <1>1
<1>3. PICK t \in T : \A u \in T : t <= u
  <2> HIDE DEF T
  <2> QED BY <1>2, LeastNat, Zenon
<1>4. PICK a \in S : t = n - a
  BY <1>3
<1>5. \A b \in S : n - b \in T
  OBVIOUS
<1>6. \A b \in S : b <= a
  BY <1>3, <1>4, <1>5, SMT
<1> QED BY <1>6

LEMMA ArticlesFinite == N \in Nat /\ Articles \subseteq 0..N /\ IsFiniteSet(Articles)
BY ExtractionAssumption, FS_Interval DEF Articles

\* The Article submitted next is one of those that wait.
LEMMA UpcomingFacts ==
    ASSUME NEW todo, todo \subseteq Articles, todo # {}
    PROVE  Upcoming(todo) \in todo
<1>1. todo \subseteq Nat
  BY ArticlesFinite
<1>2. \E a \in todo : \A b \in todo : a <= b
  BY <1>1, LeastNat, Zenon
<1> QED BY <1>2 DEF Upcoming

\* The first submissions fill at most the window: all but the last of them lie
\* before it, and fewer than MaxWorkers do.
LEMMA WindowFacts ==
    ASSUME NEW S, S \subseteq Articles
    PROVE  /\ Window(S) \subseteq S
           /\ IsFiniteSet(Window(S))
           /\ Cardinality(Window(S)) <= MaxWorkers
<1> DEFINE W == Window(S)
<1>1. W \subseteq S /\ W \subseteq Articles
  BY DEF Window
<1>2. IsFiniteSet(W) /\ IsFiniteSet(S)
  BY <1>1, ArticlesFinite, FS_Subset
<1>3. MaxWorkers \in Nat
  BY ExtractionAssumption
<1>4. CASE W = {}
  <2>1. Cardinality(W) = 0
    BY <1>4, FS_EmptySet
  <2> HIDE DEF W
  <2>2. Cardinality(W) <= MaxWorkers
    BY <2>1, <1>3, SMT
  <2> QED BY <1>1, <1>2, <2>2 DEF W
<1>5. CASE W # {}
  <2>1. W \subseteq 0..N
    BY <1>1, ArticlesFinite
  <2> HIDE DEF W
  <2>2. PICK a \in W : \A b \in W : b <= a
    BY <2>1, <1>5, ArticlesFinite, GreatestNat, Zenon
  <2> DEFINE B == {b \in S : b < a}
  <2>3. Cardinality(B) < MaxWorkers
    BY <2>2 DEF W, Window
  <2>4. W \ {a} \subseteq B
    BY <2>1, <2>2, <1>1, SMT
  <2>5. IsFiniteSet(B) /\ Cardinality(B) \in Nat
    BY <1>2, FS_Subset, FS_CardinalityType
  <2>6. Cardinality(W \ {a}) <= Cardinality(B)
    BY <2>4, <2>5, FS_Subset
  <2>7. Cardinality(W \ {a}) = Cardinality(W) - 1
    BY <1>2, <2>2, FS_RemoveElement
  <2>8. Cardinality(W) \in Nat
    BY <1>2, FS_CardinalityType
  <2>9. Cardinality(W) <= MaxWorkers
    BY <2>3, <2>5, <2>6, <2>7, <2>8, <1>3, SMT
  <2> QED BY <1>1, <1>2, <2>9 DEF W
<1> QED BY <1>1, <1>2, <1>4, <1>5

LEMMA NothingMergedType == NothingMerged \in Merged
<1>1. 0 \in 0..N
  BY ExtractionAssumption
<1> QED BY <1>1 DEF NothingMerged, Merged, MaybeType

LEMMA MergeType ==
    ASSUME NEW m \in Merged, NEW a \in Articles, NEW t \in Types
    PROVE  Merge(m, a, t) \in Merged
<1>1. a \in 0..N
  BY DEF Articles
<1>2. /\ [m EXCEPT !.conflict = TRUE] \in Merged
      /\ [m EXCEPT !.index = t, !.from = a] \in Merged
  BY <1>1 DEF Merged, MaybeType
<1> QED BY <1>2 DEF Merge

-----------------------------------------------------------------------------
(* Types.                                                                  *)

\* The result of a worker is a row over the current text and prompt.
LEMMA CheckpointRowFacts ==
    ASSUME InputsOK, NEW a \in Articles, NEW result,
           result.model \in Models, result.type \in Types
    PROVE  /\ CheckpointRow(a, result) \in Row
           /\ ExactMatch(a, CheckpointRow(a, result))
<1>1. CheckpointRow(a, result) \in Row
  BY DEF InputsOK, CheckpointRow, Row
<1> QED BY <1>1, RowFacts DEF CheckpointRow, ExactMatch

\* What a worker leaves in its place.
LEMMA ProcessedFacts ==
    ASSUME InputsOK, NEW a \in Articles, NEW result,
           result.model \in Models, result.type \in Types, Processed(a, result)
    PROVE  \E w \in Cell : /\ Worker(a, w)
                           /\ \/ w.at = "failed"
                              \/ w.at = "done" /\ ExactMatch(a, w.row)
<1> DEFINE w == [at |-> "done", row |-> CheckpointRow(a, result)]
<1>1. w \in Cell /\ w.at = "done" /\ ExactMatch(a, w.row)
  BY CheckpointRowFacts DEF Cell
<1>2. [at |-> "failed"] \in Cell
  BY CellFacts
<1> QED BY <1>1, <1>2 DEF Processed

\* Every step of a worker replaces its cell by one that is not queued any more,
\* and a call is started only for an Article queued without a checkpoint.
LEMMA WorkerFacts ==
    ASSUME TypeOK, NEW a \in Articles, WorkerStep(a)
    PROVE  \E w \in Cell :
               /\ Worker(a, w)
               /\ work[a].at \in {"queued", "calling"}
               /\ w.at \in {"calling", "failed", "done"}
               /\ w.at = "done" => ExactMatch(a, w.row)
               /\ w.at = "calling" /\ work[a].at = "queued" => work[a].row = NoRow
               /\ paid' \subseteq paid \cup {a}
               /\ paid \subseteq paid'
<1>1. InputsOK /\ work[a] \in Cell /\ served \in Models
  BY DEF TypeOK, InputsOK
<1>2. CASE Pick(a)
  <2>1. CASE work[a].row # NoRow /\ Processed(a, work[a].row)
    <3>1. work[a].row \in Row
      BY <1>1, <1>2, <2>1, CellFacts, RowFacts DEF Pick
    <3>2. work[a].row.model \in Models /\ work[a].row.type \in Types
      BY <3>1 DEF Row
    <3> QED BY <1>1, <1>2, <2>1, <3>2, ProcessedFacts DEF Pick
  <2>2. CASE work[a].row = NoRow /\ Worker(a, [at |-> "calling", try |-> 1])
    <3>1. [at |-> "calling", try |-> 1] \in Cell
      BY DEF Cell
    <3> QED BY <1>2, <2>2, <3>1 DEF Pick
  <2> QED BY <1>2, <2>1, <2>2 DEF Pick
<1>3. CASE Answer(a)
  <2>1. PICK t \in Types : Processed(a, [model |-> served, type |-> t])
    BY <1>3 DEF Answer
  <2>2. PICK w \in Cell : /\ Worker(a, w)
                          /\ \/ w.at = "failed"
                             \/ w.at = "done" /\ ExactMatch(a, w.row)
    BY <1>1, <2>1, ProcessedFacts
  <2> QED BY <1>3, <2>2 DEF Answer
<1>4. CASE Retry(a)
  <2>1. PICK n \in Nat : work[a] = [at |-> "calling", try |-> n]
    BY <1>1, <1>4, CellFacts DEF Retry
  <2>2. [work[a] EXCEPT !.try = @ + 1] = [at |-> "calling", try |-> n + 1]
    BY <2>1
  <2>3. [at |-> "calling", try |-> n + 1] \in Cell
    BY <2>1 DEF Cell
  <2> QED BY <1>4, <2>1, <2>2, <2>3 DEF Retry
<1>5. CASE WorkerFails(a)
  BY <1>5, CellFacts DEF WorkerFails
<1> QED BY <1>2, <1>3, <1>4, <1>5 DEF WorkerStep

LEMMA QueuedType ==
    ASSUME NEW cps \in [Articles -> MaybeRow], NEW a \in Articles
    PROVE  Queued(a, cps) \in Cell
BY DEF Queued, Cell

LEMMA SubmittedType ==
    ASSUME NEW w \in [Articles -> Cell], NEW todo, todo \subseteq Articles,
           NEW cps \in [Articles -> MaybeRow]
    PROVE  /\ Submitted(w, todo, cps) \in [Articles -> Cell]
           /\ Drop(todo) \subseteq Articles
<1>1. CASE todo = {}
  BY <1>1 DEF Submitted, Drop
<1>2. CASE todo # {}
  <2>1. Upcoming(todo) \in Articles
    BY <1>2, UpcomingFacts
  <2>2. Queued(Upcoming(todo), cps) \in Cell
    BY <2>1, QueuedType
  <2> QED BY <1>2, <2>1, <2>2 DEF Submitted, Drop
<1> QED BY <1>1, <1>2

LEMMA LoadType ==
    ASSUME TypeOK, NEW legacy
    PROVE  LoadCheckpoints(legacy) \in [Articles -> MaybeRow]
BY RowFacts DEF TypeOK, DiskOK, LoadCheckpoints

LEMMA NoWorkType == NoWork \in [Articles -> Cell]
BY CellFacts DEF NoWork

LEMMA ForgetType ==
    ASSUME Forget
    PROVE  checkpoints' \in [Articles -> MaybeRow] /\ merged' \in Merged /\ paid' = {}
BY RowFacts, NothingMergedType DEF Forget

LEMMA LeaveFacts ==
    ASSUME NEW fate \in {"SUCCESS", "FAILED"}, Leave(fate)
    PROVE  /\ run' \in Run /\ run'.pc \in {"off", "record"}
           /\ run'.fate \in {"none", fate}
           /\ Forget
BY RunFacts DEF Leave

LEMMA GotoFacts ==
    ASSUME run \in Run, NEW pc \in {"shutdown", "publish", "unblock"}, Goto(pc)
    PROVE  /\ run' \in Run /\ run'.pc = pc /\ run'.fate = run.fate
           /\ run'.todo = run.todo /\ run'.sel = run.sel
BY DEF Goto, Run

LEMMA StartType ==
    ASSUME TypeOK, NEW mode \in {"extract", "normalize", "batch"},
           NEW sel \in Selections, Start(mode, sel)
    PROVE  /\ TypeOK'
           /\ sel \subseteq Articles
           /\ run'.pc = "pool" /\ run'.todo = After(sel) /\ run'.fate = "none"
<1>1. sel \subseteq Articles /\ After(sel) \subseteq Articles
  BY ExtractionAssumption DEF Selections, After
<1>2. /\ run' \in Run /\ run'.pc = "pool" /\ run'.todo = After(sel)
      /\ run'.fate = "none"
  BY <1>1 DEF Start, Run
<1>3. checkpoints' \in [Articles -> MaybeRow]
  BY LoadType DEF Start
<1>4. work' \in [Articles -> Cell]
  <2>1. \A a \in Articles : Queued(a, checkpoints') \in Cell
    BY <1>3, QueuedType
  <2> QED BY <2>1, CellFacts DEF Start
<1>5. MemoryOK'
  BY <1>3, NothingMergedType DEF Start, MemoryOK, MaybeType
<1>6. InputsOK' /\ DiskOK'
  BY DEF TypeOK, InputsOK, DiskOK, Start, inputs, disk
<1> QED BY <1>1, <1>2, <1>4, <1>5, <1>6 DEF TypeOK

LEMMA WorkerType ==
    ASSUME TypeOK, NEW a \in Articles, WorkerStep(a)
    PROVE  TypeOK'
<1>1. PICK w \in Cell : Worker(a, w) /\ paid' \subseteq paid \cup {a}
  BY WorkerFacts
<1>2. work' \in [Articles -> Cell]
  BY <1>1 DEF Worker, TypeOK
<1>3. InputsOK' /\ DiskOK' /\ MemoryOK' /\ run' \in Run
  BY <1>1 DEF Worker, TypeOK, InputsOK, DiskOK, MemoryOK, inputs, disk, memory
<1> QED BY <1>2, <1>3 DEF TypeOK

LEMMA StopType ==
    ASSUME TypeOK, NEW a \in Articles, Blocked(a) \/ ModelChanged(a)
    PROVE  TypeOK' /\ run'.pc = "shutdown" /\ run'.fate = run.fate
<1>1. Stop(a) /\ work[a] \in Cell
  BY DEF Blocked, ModelChanged, TypeOK
<1>2. merged' \in Merged
  <2>1. CASE Blocked(a)
    BY <2>1 DEF Blocked, TypeOK, MemoryOK
  <2>2. CASE ModelChanged(a)
    <3>1. work[a].row.type \in Types
      BY <1>1, <2>2, CellFacts DEF ModelChanged, Row
    <3> QED BY <2>2, <3>1, MergeType DEF ModelChanged, TypeOK, MemoryOK
  <2> QED BY <2>1, <2>2
<1>3. run' \in Run /\ run'.pc = "shutdown" /\ run'.fate = run.fate
  BY <1>1, GotoFacts DEF Stop, TypeOK
<1>4. work' \in [Articles -> Cell]
  BY <1>1, CellFacts DEF Stop, TypeOK
<1>5. InputsOK' /\ DiskOK' /\ MemoryOK'
  BY <1>1, <1>2, <1>3 DEF Stop, TypeOK, InputsOK, DiskOK, MemoryOK, inputs
<1> QED BY <1>3, <1>4, <1>5 DEF TypeOK

LEMMA AbsorbType ==
    ASSUME TypeOK, NEW a \in Articles, Absorb(a)
    PROVE  /\ TypeOK' /\ run' = [run EXCEPT !.todo = Drop(run.todo)]
           /\ run'.pc = "pool" /\ run'.fate = run.fate /\ run'.todo = Drop(run.todo)
           /\ work[a].row \in Row /\ work[a].row.type \in Types
<1>1. /\ work[a] \in Cell /\ run \in Run /\ run.todo \subseteq Articles
      /\ run.pc = "pool"
  BY DEF TypeOK, Run, Absorb, At
<1>2. work[a].row \in Row
  BY <1>1, CellFacts DEF Absorb
<1>3. work[a].row.type \in Types /\ work[a].row \in MaybeRow
  BY <1>2 DEF Row, MaybeRow
<1>4. checkpoints' \in [Articles -> MaybeRow]
  BY <1>3 DEF Absorb, TypeOK, MemoryOK
<1>5. [work EXCEPT ![a] = Idle] \in [Articles -> Cell]
  BY CellFacts DEF TypeOK
<1>6. work' \in [Articles -> Cell] /\ Drop(run.todo) \subseteq Articles
  BY <1>1, <1>4, <1>5, SubmittedType DEF Absorb
<1>7. /\ run' \in Run /\ run'.pc = "pool" /\ run'.fate = run.fate
      /\ run'.todo = Drop(run.todo)
  BY <1>1, <1>6 DEF Absorb, Run
<1>8. merged' \in Merged
  BY <1>3, MergeType DEF Absorb, TypeOK, MemoryOK
<1>9. MemoryOK'
  BY <1>1, <1>3, <1>4, <1>8 DEF Absorb, TypeOK, MemoryOK, MaybeType
<1>10. InputsOK' /\ DiskOK'
  BY <1>4 DEF Absorb, TypeOK, InputsOK, DiskOK, inputs
<1> QED BY <1>2, <1>3, <1>6, <1>7, <1>9, <1>10 DEF TypeOK, Absorb

\* The run is over: run_pipeline returned or raised, was refused, was recorded,
\* or the process died.
Ending == Shutdown \/ PublishFails \/ Unblock \/ Refuse \/ Record \/ Crash

LEMMA EndingFacts ==
    ASSUME TypeOK, Quiet, Ending
    PROVE  /\ TypeOK'
           /\ run'.pc \in {"off", "record"}
           /\ work' = NoWork /\ paid' = {}
           /\ Forget \/ UNCHANGED memory
           /\ UNCHANGED <<inputs, rows, sets, alias, pointer, other>>
           /\ ledger' \in {ledger, run.fate}
           /\ run'.fate = "SUCCESS" => run.pc = "unblock"
<1>1. /\ run' \in Run /\ run'.pc \in {"off", "record"}
      /\ run'.fate = "SUCCESS" => run.pc = "unblock"
      /\ Forget \/ (UNCHANGED memory /\ paid' = {})
      /\ work' = NoWork
      /\ ledger' \in {ledger, run.fate}
      /\ UNCHANGED <<inputs, rows, sets, alias, pointer, other>>
  <2>1. CASE Shutdown
    BY <2>1, LeaveFacts DEF Shutdown, disk
  <2>2. CASE PublishFails
    BY <2>2, LeaveFacts DEF PublishFails, disk, Quiet, At
  <2>3. CASE Unblock
    BY <2>3, LeaveFacts DEF Unblock, Quiet, At
  <2>4. CASE Refuse
    <3>1. paid = {} /\ work = NoWork
      BY <2>4 DEF Refuse, Quiet, At
    <3> QED BY <2>4, <3>1, RunFacts DEF Refuse, disk
  <2>5. CASE Record
    <3>1. paid = {} /\ work = NoWork
      BY <2>5 DEF Record, Quiet, At
    <3> QED BY <2>5, <3>1, RunFacts DEF Record
  <2>6. CASE Crash
    BY <2>6, RunFacts DEF Crash, disk
  <2> QED BY <2>1, <2>2, <2>3, <2>4, <2>5, <2>6 DEF Ending
<1>2. paid' = {} /\ checkpoints' \in [Articles -> MaybeRow] /\ merged' \in Merged
  BY <1>1, ForgetType DEF TypeOK, MemoryOK, memory
<1>3. MemoryOK'
  BY <1>1, <1>2 DEF MemoryOK
<1>4. ledger' \in {"none", "SUCCESS", "FAILED"}
  BY <1>1 DEF TypeOK, DiskOK, Run
<1>5. InputsOK' /\ DiskOK'
  BY <1>1, <1>4 DEF TypeOK, InputsOK, DiskOK, inputs
<1> QED BY <1>1, <1>2, <1>3, <1>5, NoWorkType DEF TypeOK

LEMMA NewestFacts ==
    ASSUME TypeOK
    PROVE  Newest \in Nat \ {0} /\ Newest = Len(sets) /\ 1 \in 1..Len(sets)
           /\ sets[1] \in ArtifactSet
<1>1. sets \in Seq(ArtifactSet) /\ sets # <<>>
  BY DEF TypeOK, DiskOK
<1>2. Len(sets) \in Nat \ {0}
  BY <1>1
<1> QED BY <1>1, <1>2 DEF Newest

LEMMA StageFacts ==
    ASSUME TypeOK, Stage
    PROVE  /\ TypeOK' /\ run'.pc = "publish" /\ run'.fate = run.fate
           /\ Len(sets') = Len(sets) + 1 /\ sets'[1] = sets[1]
<1> DEFINE e == [complete |-> run.sel = Articles,
                 index |-> PublishedIndex(merged), archived |-> FALSE]
<1>1. PublishedIndex(merged) \in MaybeType
  BY DEF PublishedIndex, TypeOK, MemoryOK, Merged, MaybeType
<1>2. e \in ArtifactSet
  BY <1>1 DEF ArtifactSet
<1>3. sets' = Append(sets, e) /\ sets \in Seq(ArtifactSet) /\ Len(sets) \in Nat \ {0}
  BY NewestFacts DEF Stage, TypeOK, DiskOK
<1> HIDE DEF e
<1>4. /\ sets' \in Seq(ArtifactSet) /\ sets' # <<>>
      /\ Len(sets') = Len(sets) + 1 /\ sets'[1] = sets[1]
  BY <1>2, <1>3
<1>5. run' \in Run /\ run'.pc = "publish" /\ run'.fate = run.fate
  BY GotoFacts DEF Stage, TypeOK
<1>6. DiskOK'
  BY <1>4 DEF Stage, TypeOK, DiskOK
<1>7. InputsOK' /\ MemoryOK' /\ work' \in [Articles -> Cell]
  BY DEF Stage, TypeOK, InputsOK, MemoryOK, inputs, memory, At
<1> QED BY <1>4, <1>5, <1>6, <1>7 DEF TypeOK

LEMMA InstallFacts ==
    ASSUME TypeOK, NEW i \in DOMAIN NameOrder, InstallAlias(i)
    PROVE  TypeOK' /\ NameOrder[i] \in Names
<1>1. NameOrder[i] \in Names
  BY DEF Names
<1>2. Installed \in Nat \cup {Link}
  BY NewestFacts DEF Installed
<1>3. alias' \in [Names -> Nat \cup {Link}]
  BY <1>1, <1>2 DEF InstallAlias, TypeOK, DiskOK
<1> QED BY <1>1, <1>3 DEF InstallAlias, TypeOK, InputsOK, DiskOK, MemoryOK, inputs, memory

LEMMA SwitchFacts ==
    ASSUME TypeOK, SwitchPointer
    PROVE  TypeOK' /\ run'.pc = "unblock" /\ run'.fate = run.fate
<1>1. run' \in Run /\ run'.pc = "unblock" /\ run'.fate = run.fate
  BY GotoFacts DEF SwitchPointer, TypeOK
<1> QED BY <1>1, NewestFacts
        DEF SwitchPointer, TypeOK, InputsOK, DiskOK, MemoryOK, inputs, memory

LEMMA ArchiveFacts ==
    ASSUME TypeOK, Archive
    PROVE  /\ TypeOK'
           /\ Len(sets') = Len(sets) /\ sets'[1].complete = sets[1].complete
<1> DEFINE F(k) == [sets[k] EXCEPT !.archived = @ \/ k = Read("records")]
<1>1. sets \in Seq(ArtifactSet) /\ sets # <<>> /\ DOMAIN sets = 1..Len(sets)
      /\ Len(sets) \in Nat /\ 1 \in 1..Len(sets)
  BY NewestFacts DEF TypeOK, DiskOK
<1>2. \A k \in 1..Len(sets) : F(k) \in ArtifactSet /\ F(k).complete = sets[k].complete
  <2>1. \A e \in ArtifactSet, b \in BOOLEAN :
           /\ [e EXCEPT !.archived = b] \in ArtifactSet
           /\ [e EXCEPT !.archived = b].complete = e.complete
    BY DEF ArtifactSet
  <2>2. \A e \in ArtifactSet, k \in 1..Len(sets) :
           (e.archived \/ k = Read("records")) \in BOOLEAN
    BY Zenon DEF ArtifactSet
  <2>3. TAKE k \in 1..Len(sets)
  <2>4. sets[k] \in ArtifactSet
    BY <1>1
  <2>5. (sets[k].archived \/ k = Read("records")) \in BOOLEAN
    BY <2>2, <2>4, Zenon
  <2> QED BY <2>1, <2>4, <2>5, Zenon
<1>3. sets' = [k \in 1..Len(sets) |-> F(k)]
  BY <1>1 DEF Archive
<1> HIDE DEF F
<1>4. /\ sets' \in Seq(ArtifactSet) /\ Len(sets') = Len(sets)
      /\ sets'[1].complete = sets[1].complete
  BY <1>1, <1>2, <1>3
<1>5. sets' # <<>>
  BY <1>1, <1>4
<1>6. alias' \in [Names -> Nat \cup {Link}]
  BY DEF Archive, TypeOK, DiskOK
<1>7. InputsOK' /\ MemoryOK' /\ run' \in Run /\ work' \in [Articles -> Cell]
  BY DEF Archive, TypeOK, InputsOK, MemoryOK, inputs, memory
<1>8. DiskOK'
  BY <1>4, <1>5, <1>6 DEF Archive, TypeOK, DiskOK
<1> QED BY <1>4, <1>7, <1>8 DEF TypeOK

\* Events around the runs that leave the artifacts alone.
Around == OtherReads \/ OtherWrites \/ NewPrompt \/ NewModel
          \/ \E a \in Articles : Reparse(a)

LEMMA AroundFacts ==
    ASSUME TypeOK, Around
    PROVE  /\ TypeOK'
           /\ UNCHANGED <<synthetic, symlinks, rows, sets, alias, pointer, run, work,
                          memory, paid>>
           /\ run.pc # "off" => UNCHANGED <<text, prompt>>
<1>1. CASE OtherReads \/ OtherWrites
  BY <1>1 DEF OtherReads, OtherWrites, TypeOK, InputsOK, DiskOK, MemoryOK, inputs,
              disk, memory
<1>2. CASE NewPrompt \/ NewModel
  BY <1>2 DEF NewPrompt, NewModel, TypeOK, InputsOK, DiskOK, MemoryOK, disk, memory, At
<1>3. ASSUME NEW a \in Articles, Reparse(a)
      PROVE  text' \in [Articles -> Nat \ {0}]
  BY <1>3 DEF Reparse, TypeOK, InputsOK
<1>4. CASE \E a \in Articles : Reparse(a)
  BY <1>3, <1>4 DEF Reparse, TypeOK, InputsOK, DiskOK, MemoryOK, disk, memory, At
<1> QED BY <1>1, <1>2, <1>4 DEF Around

\* The steps of the system, by what they do.
LEMMA NextCases ==
    ASSUME Next
    PROVE  \/ \E mode \in {"extract", "normalize", "batch"}, sel \in Selections :
                 Start(mode, sel)
           \/ \E a \in Articles : WorkerStep(a)
           \/ \E a \in Articles : Blocked(a) \/ ModelChanged(a)
           \/ \E a \in Articles : Absorb(a)
           \/ Ending \/ Stage
           \/ \E i \in DOMAIN NameOrder : InstallAlias(i)
           \/ SwitchPointer \/ Archive \/ Around
BY DEF Next, MainStep, Ending, Around

LEMMA TypeStep ==
    ASSUME TypeOK, Quiet, [Next]_vars
    PROVE  TypeOK'
<1>1. CASE UNCHANGED vars
  BY <1>1 DEF vars, TypeOK, InputsOK, DiskOK, MemoryOK
<1>2. CASE Next
  BY <1>2, NextCases, StartType, WorkerType, StopType, AbsorbType, EndingFacts,
     StageFacts, InstallFacts, SwitchFacts, ArchiveFacts, AroundFacts
<1> QED BY <1>1, <1>2

-----------------------------------------------------------------------------
(* The pool: submitted once, saved before the next result is taken.        *)

\* The pool after a result has been absorbed.
LEMMA AbsorbWork ==
    ASSUME TypeOK, NEW a \in Articles, Absorb(a)
    PROVE  \A b \in Articles :
               /\ run.todo # {} /\ b = Upcoming(run.todo)
                     => work'[b] = Queued(b, checkpoints') /\ b \in run.todo
               /\ ~(run.todo # {} /\ b = Upcoming(run.todo))
                     => work'[b] = IF b = a THEN Idle ELSE work[b]
<1>1. work \in [Articles -> Cell] /\ run.todo \subseteq Articles
  BY DEF TypeOK, Run
<1>2. work' = Submitted([work EXCEPT ![a] = Idle], run.todo, checkpoints')
  BY DEF Absorb
<1>3. CASE run.todo = {}
  BY <1>1, <1>2, <1>3 DEF Submitted
<1>4. CASE run.todo # {}
  <2>1. Upcoming(run.todo) \in run.todo
    BY <1>1, <1>4, UpcomingFacts
  <2> QED BY <1>1, <1>2, <1>4, <2>1 DEF Submitted
<1> QED BY <1>3, <1>4

LEMMA QuietStep ==
    ASSUME TypeOK, Quiet, [Next]_vars
    PROVE  Quiet'
<1>1. CASE UNCHANGED vars
  BY <1>1 DEF vars, Quiet
<1>2. ASSUME NEW mode \in {"extract", "normalize", "batch"}, NEW sel \in Selections,
             Start(mode, sel)
      PROVE  Quiet'
  BY <1>2, StartType DEF Quiet
<1>3. ASSUME NEW a \in Articles, WorkerStep(a)
      PROVE  Quiet'
  <2>1. PICK w \in Cell : /\ Worker(a, w) /\ w.at \in {"calling", "failed", "done"}
                          /\ work[a].at \in {"queued", "calling"}
    BY <1>3, WorkerFacts
  <2>2. run' = run /\ work' = [work EXCEPT ![a] = w] /\ work \in [Articles -> Cell]
    BY <2>1 DEF Worker, TypeOK
  <2>3. run.pc \in {"pool", "shutdown"}
    <3>1. NoWork[a].at = "idle"
      BY DEF NoWork, Idle
    <3> QED BY <3>1, <2>1 DEF Quiet
  <2> QED BY <2>1, <2>2, <2>3 DEF Quiet
<1>4. ASSUME NEW a \in Articles, Blocked(a) \/ ModelChanged(a)
      PROVE  Quiet'
  <2>1. Stop(a) /\ run'.pc = "shutdown"
    BY <1>4, StopType DEF Blocked, ModelChanged
  <2>2. \A b \in Articles : work'[b].at # "queued"
    BY <2>1, CellFacts DEF Stop
  <2> QED BY <2>1, <2>2 DEF Quiet
<1>5. ASSUME NEW a \in Articles, Absorb(a)
      PROVE  Quiet'
  BY <1>5, AbsorbType DEF Quiet
<1>6. CASE Ending
  BY <1>6, EndingFacts DEF Quiet, NoWork, Idle
<1>7. CASE Stage
  <2>1. work' = NoWork /\ run'.pc = "publish"
    BY <1>7, StageFacts DEF Stage
  <2> QED BY <2>1 DEF Quiet, NoWork, Idle
<1>8. ASSUME NEW i \in DOMAIN NameOrder, InstallAlias(i)
      PROVE  Quiet'
  BY <1>8 DEF InstallAlias, Quiet, memory
<1>9. CASE SwitchPointer
  <2>1. work' = NoWork /\ run'.pc = "unblock"
    BY <1>9, SwitchFacts DEF SwitchPointer, At, Quiet
  <2> QED BY <2>1 DEF Quiet, NoWork, Idle
<1>10. CASE Archive \/ Around
  <2>1. UNCHANGED <<run, work, paid>>
    BY <1>10, AroundFacts DEF Archive
  <2> QED BY <2>1 DEF Quiet
<1> QED BY <1>1, <1>2, <1>3, <1>4, <1>5, <1>6, <1>7, <1>8, <1>9, <1>10, NextCases

LEMMA OnceStep ==
    ASSUME TypeOK, Quiet, Once, [Next]_vars
    PROVE  Once'
<1> DEFINE OK(a) ==
        /\ work[a].at = "queued" => work[a].row = checkpoints[a]
        /\ work[a].at = "done" => ExactMatch(a, work[a].row)
        /\ run.pc = "pool" /\ (a \in Active \/ a \in run.todo) => results[a] = NoType
        /\ run.pc = "pool" /\ a \in Active => a \notin run.todo
<1>0. /\ \A a \in Articles : OK(a)
      /\ Once' <=> \A a \in Articles : OK(a)'
  BY DEF Once
<1>1. CASE UNCHANGED vars
  BY <1>1 DEF vars, Once, Active, ExactMatch
<1>2. ASSUME NEW mode \in {"extract", "normalize", "batch"}, NEW sel \in Selections,
             Start(mode, sel), NEW a \in Articles
      PROVE  OK(a)'
  <2>1. run'.pc = "pool" /\ run'.todo = sel \ Window(sel)
    BY <1>2, StartType DEF After
  <2>2. /\ work'[a] = IF a \in Window(sel) THEN Queued(a, checkpoints') ELSE Idle
        /\ results'[a] = NoType
    BY <1>2 DEF Start
  <2>3. CASE a \in Window(sel)
    BY <2>1, <2>2, <2>3 DEF Queued, Active
  <2>4. CASE a \notin Window(sel)
    BY <2>1, <2>2, <2>4, CellFacts DEF Active
  <2> QED BY <2>3, <2>4
<1>3. ASSUME NEW b \in Articles, WorkerStep(b), NEW a \in Articles
      PROVE  OK(a)'
  <2>1. PICK w \in Cell : /\ Worker(b, w) /\ w.at \in {"calling", "failed", "done"}
                          /\ work[b].at \in {"queued", "calling"}
                          /\ w.at = "done" => ExactMatch(b, w.row)
    BY <1>3, WorkerFacts
  <2>2. /\ run' = run /\ checkpoints' = checkpoints /\ results' = results
        /\ text' = text /\ prompt' = prompt
        /\ work'[a] = IF a = b THEN w ELSE work[a]
    BY <2>1 DEF Worker, TypeOK, inputs, memory
  <2>3. (a \in Active)' <=> a \in Active
    BY <2>1, <2>2 DEF Active
  <2>4. (work'[a].at = "done" => ExactMatch(a, work[a].row)')
    BY <2>1, <2>2, <1>0 DEF ExactMatch
  <2> QED BY <1>0, <2>1, <2>2, <2>3, <2>4
<1>4. ASSUME NEW b \in Articles, Blocked(b) \/ ModelChanged(b), NEW a \in Articles
      PROVE  OK(a)'
  <2>1. Stop(b) /\ run'.pc = "shutdown"
    BY <1>4, StopType DEF Blocked, ModelChanged
  <2>2. /\ work'[a] = IF a = b \/ work[a].at = "queued" THEN Idle ELSE work[a]
        /\ text' = text /\ prompt' = prompt
    BY <2>1 DEF Stop, inputs
  <2> QED BY <1>0, <2>1, <2>2, CellFacts DEF ExactMatch
<1>5. ASSUME NEW b \in Articles, Absorb(b), NEW a \in Articles
      PROVE  OK(a)'
  <2>1. /\ run'.pc = "pool" /\ run'.todo = Drop(run.todo) /\ run.pc = "pool"
        /\ run.todo \subseteq Articles
    BY <1>5, AbsorbType DEF Absorb, At, TypeOK, Run
  <2>2. /\ results'[a] = IF a = b THEN work[b].row.type ELSE results[a]
        /\ checkpoints'[a] = IF a = b THEN work[b].row ELSE checkpoints[a]
        /\ text' = text /\ prompt' = prompt
        /\ work[b].at = "done"
    BY <1>5, <2>1 DEF Absorb, TypeOK, MemoryOK, inputs
  <2>3. b \in Active /\ b \notin run.todo
    BY <1>0, <2>1, <2>2 DEF Active
  <2>4. CASE run.todo # {} /\ a = Upcoming(run.todo)
    <3>1. work'[a] = Queued(a, checkpoints') /\ a \in run.todo
      BY <1>5, <2>4, AbsorbWork
    <3>2. a \notin run'.todo /\ a # b
      BY <2>1, <2>3, <2>4, <3>1 DEF Drop
    <3>3. results'[a] = NoType
      BY <1>0, <2>1, <2>2, <3>1, <3>2
    <3> QED BY <3>1, <3>2, <3>3 DEF Queued
  <2>5. CASE ~(run.todo # {} /\ a = Upcoming(run.todo))
    <3>1. work'[a] = IF a = b THEN Idle ELSE work[a]
      BY <1>5, <2>5, AbsorbWork
    <3>2. a \in run'.todo => a \in run.todo
      BY <2>1 DEF Drop
    <3>3. CASE a = b
      BY <2>3, <3>1, <3>2, <3>3, CellFacts DEF Active
    <3>4. CASE a # b
      <4>1. work'[a] = work[a] /\ results'[a] = results[a]
            /\ checkpoints'[a] = checkpoints[a]
        BY <2>2, <3>1, <3>4
      <4>2. (a \in Active)' <=> a \in Active
        BY <4>1 DEF Active
      <4>3. work'[a].at = "done" => ExactMatch(a, work[a].row)'
        BY <1>0, <2>2, <4>1 DEF ExactMatch
      <4> QED BY <1>0, <2>1, <3>2, <4>1, <4>2, <4>3
    <3> QED BY <3>3, <3>4
  <2> QED BY <2>4, <2>5
<1>6. CASE Ending
  BY <1>6, EndingFacts, <1>0 DEF NoWork, Idle
<1>7. CASE Stage
  <2>1. work' = NoWork /\ run'.pc = "publish"
    BY <1>7, StageFacts DEF Stage
  <2> QED BY <2>1, <1>0 DEF NoWork, Idle
<1>8. ASSUME NEW i \in DOMAIN NameOrder, InstallAlias(i)
      PROVE  Once'
  BY <1>8 DEF InstallAlias, Once, Active, ExactMatch, inputs, memory
<1>9. CASE SwitchPointer
  <2>1. work' = NoWork /\ run'.pc = "unblock"
    BY <1>9, SwitchFacts DEF SwitchPointer, At, Quiet
  <2> QED BY <2>1, <1>0 DEF NoWork, Idle
<1>10. CASE Archive
  BY <1>10 DEF Archive, Once, Active, ExactMatch, inputs, memory
<1>11. CASE Around
  <2>1. CASE run.pc = "off"
    <3>1. work' = NoWork /\ run'.pc = "off"
      BY <1>11, <2>1, AroundFacts DEF Quiet
    <3> QED BY <3>1, <1>0 DEF NoWork, Idle
  <2>2. CASE run.pc # "off"
    BY <1>11, <2>2, AroundFacts DEF Once, Active, ExactMatch, memory
  <2> QED BY <2>1, <2>2
<1>12. CASE Next
  BY <1>0, <1>2, <1>3, <1>4, <1>5, <1>6, <1>7, <1>8, <1>9, <1>10, <1>11, <1>12, NextCases
<1> QED BY <1>1, <1>12

LEMMA SavedStep ==
    ASSUME TypeOK, Quiet, Once, Saved, [Next]_vars
    PROVE  Saved'
<1> DEFINE OK(a) ==
        /\ ~synthetic /\ checkpoints[a] = NoRow => ~ExactMatch(a, rows[a])
        /\ a \in paid \ Active => ExactMatch(a, checkpoints[a]) /\ ExactMatch(a, rows[a])
<1>0. /\ run.pc = "pool" => \A a \in Articles : OK(a)
      /\ Saved' <=> (run'.pc = "pool" => \A a \in Articles : OK(a)')
  BY DEF Saved
<1>1. CASE UNCHANGED vars
  BY <1>1 DEF vars, Saved, Active, ExactMatch
<1>2. ASSUME NEW mode \in {"extract", "normalize", "batch"}, NEW sel \in Selections,
             Start(mode, sel), NEW a \in Articles
      PROVE  OK(a)'
  <2>1. /\ checkpoints'[a] = IF ~synthetic
               /\ \/ ExactMatch(a, rows[a])
                  \/ ~ProviderCallsAllowed(mode) /\ LegacyMatch(a, rows[a])
             THEN rows[a] ELSE NoRow
        /\ paid' = {}
        /\ UNCHANGED <<inputs, rows>>
    BY <1>2 DEF Start, LoadCheckpoints, disk
  <2> QED BY <2>1 DEF ExactMatch, inputs
<1>3. ASSUME NEW b \in Articles, WorkerStep(b), NEW a \in Articles, run'.pc = "pool"
      PROVE  OK(a)'
  <2>1. PICK w \in Cell : /\ Worker(b, w) /\ w.at \in {"calling", "failed", "done"}
                          /\ work[b].at \in {"queued", "calling"}
                          /\ paid' \subseteq paid \cup {b}
    BY <1>3, WorkerFacts
  <2>2. /\ run' = run /\ UNCHANGED <<inputs, rows, checkpoints>>
        /\ work'[a] = IF a = b THEN w ELSE work[a]
    BY <2>1 DEF Worker, TypeOK, memory, disk
  <2>3. a \in (paid \ Active)' => a \in paid \ Active
    BY <2>1, <2>2 DEF Active
  <2>4. OK(a)
    BY <1>0, <1>3, <2>2
  <2> QED BY <2>2, <2>3, <2>4 DEF ExactMatch, inputs
<1>4. ASSUME NEW b \in Articles, Blocked(b) \/ ModelChanged(b)
      PROVE  run'.pc # "pool"
  BY <1>4, StopType
<1>5. ASSUME NEW b \in Articles, Absorb(b), NEW a \in Articles
      PROVE  OK(a)'
  <2>1. OK(a) /\ run.pc = "pool" /\ work[b].at = "done"
    BY <1>0, <1>5 DEF Absorb, At
  <2>2. /\ checkpoints'[a] = IF a = b THEN work[b].row ELSE checkpoints[a]
        /\ rows' = checkpoints' /\ paid' = paid /\ UNCHANGED inputs
    BY <1>5 DEF Absorb, TypeOK, MemoryOK
  <2>3. ~synthetic' /\ checkpoints'[a] = NoRow => ~ExactMatch(a, rows[a])'
    BY <2>2 DEF ExactMatch
  <2>4. ASSUME a \in (paid \ Active)'
        PROVE  ExactMatch(a, checkpoints[a])'
    <3>1. work'[a].at = "idle"
      BY <2>4 DEF Active
    <3>2. ~(run.todo # {} /\ a = Upcoming(run.todo))
      <4>1. Queued(a, checkpoints').at = "queued"
        BY DEF Queued
      <4> QED BY <1>5, <3>1, <4>1, AbsorbWork
    <3>3. work'[a] = IF a = b THEN Idle ELSE work[a]
      BY <1>5, <3>2, AbsorbWork
    <3>4. CASE a = b
      BY <2>1, <2>2, <3>4 DEF Once, ExactMatch, inputs
    <3>5. CASE a # b
      <4>1. a \in paid \ Active
        BY <2>2, <2>4, <3>1, <3>3, <3>5 DEF Active
      <4> QED BY <2>1, <2>2, <3>5, <4>1 DEF ExactMatch, inputs
    <3> QED BY <3>4, <3>5
  <2> QED BY <2>2, <2>3, <2>4
<1>6. CASE Ending
  BY <1>6, EndingFacts, <1>0
<1>7. CASE Stage \/ SwitchPointer
  BY <1>7, StageFacts, SwitchFacts, <1>0
<1>8. ASSUME NEW i \in DOMAIN NameOrder, InstallAlias(i)
      PROVE  Saved'
  BY <1>8 DEF InstallAlias, Saved, Active, ExactMatch, inputs, memory
<1>9. CASE Archive
  BY <1>9 DEF Archive, Saved, Active, ExactMatch, inputs, memory
<1>10. CASE Around
  BY <1>10, AroundFacts DEF Saved, Active, ExactMatch, memory
<1>11. CASE Next
  BY <1>0, <1>2, <1>3, <1>4, <1>5, <1>6, <1>7, <1>8, <1>9, <1>10, <1>11, NextCases
<1> QED BY <1>1, <1>11

-----------------------------------------------------------------------------
(* The window bounds what can be lost.                                     *)

LEMMA WindowAssumption == MaxWorkers \in Nat /\ 0 <= MaxWorkers
BY ExtractionAssumption

\* A part of what fits in the window fits in it.
LEMMA PartFits ==
    ASSUME NEW S, NEW T, T \subseteq Articles, S \subseteq T,
           Cardinality(T) <= MaxWorkers
    PROVE  Cardinality(S) <= MaxWorkers
<1>1. IsFiniteSet(T) /\ IsFiniteSet(S) /\ Cardinality(S) <= Cardinality(T)
  BY ArticlesFinite, FS_Subset
<1>2. Cardinality(S) \in Nat /\ Cardinality(T) \in Nat
  BY <1>1, FS_CardinalityType
<1> QED BY <1>1, <1>2, WindowAssumption

LEMMA NothingFits == Cardinality({}) <= MaxWorkers
BY FS_EmptySet, WindowAssumption

\* Replacing one Article of the window by another keeps it within its size.
LEMMA SwapFits ==
    ASSUME NEW T, T \subseteq Articles, Cardinality(T) <= MaxWorkers,
           NEW a \in T, NEW b
    PROVE  Cardinality((T \ {a}) \cup {b}) <= MaxWorkers
<1>1. IsFiniteSet(T) /\ Cardinality(T) \in Nat
  BY ArticlesFinite, FS_Subset, FS_CardinalityType
<1>2. IsFiniteSet(T \ {a}) /\ Cardinality(T \ {a}) = Cardinality(T) - 1
  BY <1>1, FS_RemoveElement
<1>3. Cardinality((T \ {a}) \cup {b}) <= Cardinality(T \ {a}) + 1
  <2>1. Cardinality(T \ {a}) \in Nat
    BY <1>2, FS_CardinalityType
  <2>2. CASE b \in T \ {a}
    <3>1. (T \ {a}) \cup {b} = T \ {a}
      BY <2>2
    <3> QED BY <2>1, <3>1
  <2>3. CASE b \notin T \ {a}
    <3>1. Cardinality((T \ {a}) \cup {b}) = Cardinality(T \ {a}) + 1
      BY <1>2, <2>3, FS_AddElement
    <3> QED BY <2>1, <3>1
  <2> QED BY <2>2, <2>3
<1>4. Cardinality((T \ {a}) \cup {b}) \in Nat
  BY <1>2, FS_AddElement, FS_CardinalityType
<1> QED BY <1>1, <1>2, <1>3, <1>4, WindowAssumption

LEMMA InWindowStep ==
    ASSUME TypeOK, Quiet, Once, Saved, InWindow, Saved', TypeOK', [Next]_vars
    PROVE  InWindow'
<1> DEFINE T == Active \cup Lost
<1>0. T \subseteq Articles /\ Cardinality(T) <= MaxWorkers /\ paid \subseteq Articles
  BY DEF InWindow, Active, Lost, TypeOK, MemoryOK
<1>a. ASSUME (Active \cup Lost)' \subseteq T
      PROVE  InWindow'
  <2> HIDE DEF T
  <2> QED BY <1>0, <1>a, PartFits DEF InWindow
<1>1. CASE UNCHANGED vars
  BY <1>1 DEF vars, InWindow, Active, Lost, ExactMatch
<1>2. ASSUME NEW mode \in {"extract", "normalize", "batch"}, NEW sel \in Selections,
             Start(mode, sel)
      PROVE  InWindow'
  <2>1. sel \subseteq Articles
    BY <1>2, StartType
  <2>2. Window(sel) \subseteq Articles /\ Cardinality(Window(sel)) <= MaxWorkers
    BY <2>1, WindowFacts
  <2>3. /\ \A a \in Articles : work'[a] = IF a \in Window(sel)
                                          THEN Queued(a, checkpoints') ELSE Idle
        /\ paid' = {}
    BY <1>2 DEF Start
  <2>4. (Active \cup Lost)' \subseteq Window(sel)
    BY <2>3, CellFacts DEF Active, Lost
  <2> QED BY <2>2, <2>4, PartFits DEF InWindow
<1>3. ASSUME NEW b \in Articles, WorkerStep(b)
      PROVE  InWindow'
  <2>1. PICK w \in Cell : /\ Worker(b, w) /\ w.at \in {"calling", "failed", "done"}
                          /\ work[b].at \in {"queued", "calling"}
                          /\ paid' \subseteq paid \cup {b}
    BY <1>3, WorkerFacts
  <2>2. /\ UNCHANGED <<inputs, rows>>
        /\ \A a \in Articles : work'[a] = IF a = b THEN w ELSE work[a]
    BY <2>1 DEF Worker, TypeOK, disk
  <2>3. Active' = Active /\ b \in Active
    BY <2>1, <2>2 DEF Active
  <2>4. Lost' \subseteq Lost \cup {b}
    BY <2>1, <2>2 DEF Lost, ExactMatch, inputs
  <2> QED BY <1>a, <2>3, <2>4
<1>4. ASSUME NEW b \in Articles, Blocked(b) \/ ModelChanged(b)
      PROVE  InWindow'
  <2>1. Stop(b)
    BY <1>4 DEF Blocked, ModelChanged
  <2>2. Active' \subseteq Active
    BY <2>1, CellFacts DEF Stop, Active
  <2>3. Lost' = Lost
    BY <2>1 DEF Stop, Lost, ExactMatch, inputs
  <2> QED BY <1>a, <2>2, <2>3
<1>5. ASSUME NEW b \in Articles, Absorb(b)
      PROVE  InWindow'
  <2>1. run'.pc = "pool" /\ b \in Active
    BY <1>5, AbsorbType DEF Absorb, Active
  <2>2. Lost' \subseteq Active'
    BY <2>1 DEF Saved, Lost, Active, TypeOK, MemoryOK
  <2>3. PICK u : Active' \subseteq (Active \ {b}) \cup {u}
    <3>1. \A a \in Articles : a # Upcoming(run.todo) \/ run.todo = {} =>
             work'[a] = IF a = b THEN Idle ELSE work[a]
      BY <1>5, AbsorbWork
    <3>2. Active' \subseteq (Active \ {b}) \cup {Upcoming(run.todo)}
      BY <3>1, CellFacts DEF Active
    <3> QED BY <3>2
  <2>4. Cardinality((T \ {b}) \cup {u}) <= MaxWorkers
    <3>1. b \in T
      BY <2>1
    <3> HIDE DEF T
    <3> QED BY <1>0, <3>1, SwapFits
  <2>5. (Active \cup Lost)' \subseteq (T \ {b}) \cup {u}
    BY <2>2, <2>3
  <2>6. (Active \cup Lost)' \subseteq Articles
    BY DEF Active, Lost, TypeOK, MemoryOK
  <2>7. (Active \cup Lost)' \subseteq ((T \ {b}) \cup {u}) \cap Articles
    BY <2>5, <2>6
  <2> DEFINE X == (T \ {b}) \cup {u}
  <2>8. IsFiniteSet(X)
    <3> HIDE DEF T
    <3>1. IsFiniteSet(T)
      BY <1>0, ArticlesFinite, FS_Subset
    <3> QED BY <3>1, FS_RemoveElement, FS_AddElement
  <2>9. Cardinality(X) \in Nat /\ Cardinality((Active \cup Lost)') <= Cardinality(X)
        /\ Cardinality((Active \cup Lost)') \in Nat
    <3> HIDE DEF X
    <3>1. (Active \cup Lost)' \subseteq X
      BY <2>5 DEF X
    <3> QED BY <2>8, <3>1, FS_Subset, FS_CardinalityType
  <2> QED BY <2>4, <2>9, WindowAssumption DEF InWindow
<1>6. CASE Ending
  <2>1. (Active \cup Lost)' = {}
    BY <1>6, EndingFacts DEF Active, Lost, NoWork, Idle
  <2> QED BY <2>1, NothingFits DEF InWindow
<1>7. CASE Stage \/ SwitchPointer
  BY <1>7 DEF Stage, SwitchPointer, InWindow, Active, Lost, ExactMatch, inputs, memory
<1>8. ASSUME NEW i \in DOMAIN NameOrder, InstallAlias(i)
      PROVE  InWindow'
  BY <1>8 DEF InstallAlias, InWindow, Active, Lost, ExactMatch, inputs, memory
<1>9. CASE Archive
  BY <1>9 DEF Archive, InWindow, Active, Lost, ExactMatch, inputs, memory
<1>10. CASE Around
  <2>1. CASE run.pc = "off"
    <3>1. (Active \cup Lost)' = {}
      BY <1>10, <2>1, AroundFacts DEF Quiet, Active, Lost, NoWork, Idle
    <3> QED BY <3>1, NothingFits DEF InWindow
  <2>2. CASE run.pc # "off"
    BY <1>10, <2>2, AroundFacts DEF InWindow, Active, Lost, ExactMatch
  <2> QED BY <2>1, <2>2
<1>11. CASE Next
  BY <1>2, <1>3, <1>4, <1>5, <1>6, <1>7, <1>8, <1>9, <1>10, <1>11, NextCases
<1> QED BY <1>1, <1>11

-----------------------------------------------------------------------------
(* One model, and one index whatever the order.                            *)

LEMMA OneModelStep ==
    ASSUME TypeOK, Quiet, OneModelInv, [Next]_vars
    PROVE  OneModelInv'
<1>1. CASE UNCHANGED vars
  BY <1>1 DEF vars, OneModelInv, SameModel
<1>2. ASSUME NEW mode \in {"extract", "normalize", "batch"}, NEW sel \in Selections,
             Start(mode, sel)
      PROVE  OneModelInv'
  <2>1. rows' = rows /\ \A a \in Articles : checkpoints'[a] \in {rows[a], NoRow}
    BY <1>2 DEF Start, LoadCheckpoints, disk
  <2> QED BY <2>1 DEF OneModelInv, SameModel
<1>3. ASSUME NEW a \in Articles, WorkerStep(a)
      PROVE  OneModelInv'
  <2>1. PICK w \in Cell : Worker(a, w)
    BY <1>3, WorkerFacts
  <2> QED BY <2>1 DEF Worker, disk, memory, OneModelInv, SameModel
<1>4. ASSUME NEW a \in Articles, Blocked(a) \/ ModelChanged(a)
      PROVE  OneModelInv'
  BY <1>4 DEF Blocked, ModelChanged, Stop, OneModelInv, SameModel
<1>5. ASSUME NEW a \in Articles, Absorb(a)
      PROVE  OneModelInv'
  <2>1. /\ \A b \in Articles : checkpoints'[b] = IF b = a THEN work[a].row
                                                 ELSE checkpoints[b]
        /\ rows' = checkpoints'
        /\ ModelsOf(checkpoints) # {} => work[a].row.model \in ModelsOf(checkpoints)
    BY <1>5 DEF Absorb, TypeOK, MemoryOK
  <2>2. ASSUME NEW b \in Articles, checkpoints[b] # NoRow
        PROVE  work[a].row.model = checkpoints[b].model
    <3>1. checkpoints[b].model \in ModelsOf(checkpoints)
      BY <2>2 DEF ModelsOf
    <3>2. PICK c \in Articles : /\ checkpoints[c] # NoRow
                                /\ work[a].row.model = checkpoints[c].model
      BY <2>1, <3>1 DEF ModelsOf
    <3> QED BY <2>2, <3>2 DEF OneModelInv, SameModel
  <2>3. SameModel(checkpoints)
    BY DEF OneModelInv
  <2>4. SameModel(checkpoints')
    BY <2>1, <2>2, <2>3 DEF SameModel
  <2> QED BY <2>1, <2>4 DEF OneModelInv, SameModel
<1>6. CASE Ending
  <2>1. rows' = rows /\ (checkpoints' = checkpoints \/ Forget)
    BY <1>6, EndingFacts DEF memory
  <2> QED BY <2>1 DEF Forget, OneModelInv, SameModel
<1>7. CASE Stage \/ SwitchPointer \/ \E i \in DOMAIN NameOrder : InstallAlias(i)
  BY <1>7 DEF Stage, SwitchPointer, InstallAlias, memory, OneModelInv, SameModel
<1>8. CASE Archive \/ Around
  BY <1>8, AroundFacts DEF Archive, memory, OneModelInv, SameModel
<1>9. CASE Next
  BY <1>2, <1>3, <1>4, <1>5, <1>6, <1>7, <1>8, <1>9, NextCases
<1> QED BY <1>1, <1>9

LEMMA TypeIsSome == \A t \in Types : t # NoType
BY ExtractionAssumption DEF NoType

LEMMA MergeStep ==
    ASSUME TypeOK, Quiet, Once, MergeInv, [Next]_vars
    PROVE  MergeInv'
<1>1. CASE UNCHANGED vars
  BY <1>1 DEF vars, MergeInv, Seen
<1>2. ASSUME NEW mode \in {"extract", "normalize", "batch"}, NEW sel \in Selections,
             Start(mode, sel)
      PROVE  MergeInv'
  <2>1. Seen' = {}
    BY <1>2 DEF Start, Seen
  <2>2. merged'.index = NoType /\ merged'.conflict = FALSE
    BY <1>2 DEF Start, NothingMerged
  <2> QED BY <2>1, <2>2 DEF MergeInv
<1>3. ASSUME NEW a \in Articles, WorkerStep(a)
      PROVE  MergeInv'
  <2>1. PICK w \in Cell : Worker(a, w)
    BY <1>3, WorkerFacts
  <2> QED BY <2>1 DEF Worker, memory, MergeInv, Seen
<1>4. ASSUME NEW a \in Articles, Blocked(a) \/ ModelChanged(a)
      PROVE  MergeInv'
  BY <1>4, StopType DEF MergeInv
<1>5. ASSUME NEW a \in Articles, Absorb(a)
      PROVE  MergeInv'
  <2> DEFINE t == work[a].row.type
  <2>1. t \in Types /\ t # NoType /\ run.pc = "pool" /\ run'.pc = "pool"
    BY <1>5, AbsorbType, TypeIsSome DEF Absorb, At
  <2>2. results \in [Articles -> MaybeType] /\ results' = [results EXCEPT ![a] = t]
    BY <1>5, <2>1 DEF TypeOK, MemoryOK, Absorb
  <2>3. results[a] = NoType
    BY <1>5, <2>1 DEF Once, Absorb, Active
  <2>4. merged \in Merged /\ merged' = Merge(merged, a, t)
    BY <1>5 DEF TypeOK, MemoryOK, Absorb
  <2> HIDE DEF t
  <2>5. Seen' = Seen \cup {t}
    BY <2>1, <2>2, <2>3 DEF Seen
  <2>6. /\ merged.index = NoType => Seen = {} /\ ~merged.conflict
        /\ merged.index # NoType => merged.index \in Seen
        /\ ~merged.conflict /\ merged.index # NoType =>
              merged.from \in Articles /\ results[merged.from] = merged.index
        /\ merged.conflict <=> \E x \in Seen : x # merged.index
    BY <2>1 DEF MergeInv
  <2>7. CASE merged.index # NoType /\ merged.index # t
    <3>1. merged'.index = merged.index /\ merged'.conflict = TRUE
      BY <2>4, <2>7 DEF Merge, Merged
    <3> QED BY <2>5, <2>6, <2>7, <3>1 DEF MergeInv
  <2>8. CASE ~(merged.index # NoType /\ merged.index # t) /\ ~merged.conflict
    <3>1. merged'.index = t /\ merged'.conflict = merged.conflict /\ merged'.from = a
      BY <2>4, <2>8 DEF Merge, Merged
    <3>2. results'[a] = t
      BY <2>2
    <3> QED BY <2>1, <2>5, <2>6, <2>8, <3>1, <3>2 DEF MergeInv
  <2>9. CASE ~(merged.index # NoType /\ merged.index # t) /\ merged.conflict
    <3>1. merged' = merged
      BY <2>4, <2>9 DEF Merge
    <3> QED BY <2>1, <2>5, <2>6, <2>9, <3>1 DEF MergeInv
  <2> QED BY <2>7, <2>8, <2>9
<1>6. CASE Ending
  BY <1>6, EndingFacts DEF MergeInv
<1>7. CASE Stage
  <2>1. UNCHANGED memory /\ run.pc = "pool"
    BY <1>7 DEF Stage, At
  <2> QED BY <2>1 DEF MergeInv, Seen, memory
<1>8. CASE SwitchPointer
  BY <1>8, SwitchFacts DEF MergeInv
<1>9. CASE \E i \in DOMAIN NameOrder : InstallAlias(i)
  BY <1>9 DEF InstallAlias, memory, MergeInv, Seen
<1>10. CASE Archive \/ Around
  BY <1>10, AroundFacts DEF Archive, memory, MergeInv, Seen
<1>11. CASE Next
  BY <1>2, <1>3, <1>4, <1>5, <1>6, <1>7, <1>8, <1>9, <1>10, <1>11, NextCases
<1> QED BY <1>1, <1>11

LEMMA OneModelHolds ==
    ASSUME OneModelInv
    PROVE  OneModel
<1>1. CASE ModelsOf(rows) = {}
  BY <1>1, FS_EmptySet DEF OneModel
<1>2. CASE ModelsOf(rows) # {}
  <2>1. PICK m : m \in ModelsOf(rows)
    BY <1>2
  <2>2. ModelsOf(rows) = {m}
    BY <2>1 DEF ModelsOf, OneModelInv, SameModel
  <2>3. Cardinality(ModelsOf(rows)) = 1
    BY <2>2, FS_Singleton
  <2> QED BY <2>3 DEF OneModel
<1> QED BY <1>1, <1>2

LEMMA IndexHolds ==
    ASSUME TypeOK, MergeInv
    PROVE  TypeIsAgreed /\ EntryIsOfAnAgreeingArticle
<1> SUFFICES ASSUME run.pc \in {"pool", "publish"}
             PROVE  /\ PublishedIndex(merged) = IF Cardinality(Seen) = 1
                                                THEN CHOOSE t \in Seen : TRUE
                                                ELSE NoType
                    /\ PublishedIndex(merged) # NoType =>
                          /\ merged.from \in Articles
                          /\ results[merged.from] = PublishedIndex(merged)
  BY DEF TypeIsAgreed, EntryIsOfAnAgreeingArticle, Seen
<1>1. IsFiniteSet(Seen)
  <2> DEFINE R == {results[a] : a \in Articles}
  <2>1. results \in Surjection(Articles, R)
    BY DEF TypeOK, MemoryOK, Surjection
  <2>2. IsFiniteSet(R)
    BY <2>1, ArticlesFinite, FS_Surjection
  <2>3. Seen \subseteq R
    BY DEF Seen
  <2> QED BY <2>2, <2>3, FS_Subset
<1>2. Cardinality(Seen) = 1 <=> \E t : Seen = {t}
  BY <1>1, FS_Singleton
<1>3. CASE merged.conflict
  <2>1. PICK t \in Seen : t # merged.index
    BY <1>3 DEF MergeInv
  <2>2. merged.index \in Seen
    BY <1>3 DEF MergeInv
  <2>3. Cardinality(Seen) # 1
    BY <1>2, <2>1, <2>2
  <2> QED BY <1>3, <2>3 DEF PublishedIndex
<1>4. CASE ~merged.conflict /\ merged.index = NoType
  <2>1. Seen = {}
    BY <1>4 DEF MergeInv
  <2>2. Cardinality(Seen) # 1
    BY <1>2, <2>1
  <2> QED BY <1>4, <2>2 DEF PublishedIndex
<1>5. CASE ~merged.conflict /\ merged.index # NoType
  <2>1. Seen = {merged.index}
    BY <1>5 DEF MergeInv
  <2>2. Cardinality(Seen) = 1 /\ (CHOOSE t \in Seen : TRUE) = merged.index
    BY <1>2, <2>1
  <2>3. merged.from \in Articles /\ results[merged.from] = merged.index
    BY <1>5 DEF MergeInv
  <2> QED BY <1>5, <2>2, <2>3 DEF PublishedIndex
<1> QED BY <1>3, <1>4, <1>5

-----------------------------------------------------------------------------
(* Publication.                                                            *)

LEMMA LinkIsNoSet == Link \notin Nat /\ Link # 0 /\ Link # 1
BY ExtractionAssumption

\* The aliases are replaced in the order of NameOrder: a link at extraction_run is
\* put there after the link at records.
LEMMA InstallOrder ==
    ASSUME TypeOK, NEW i \in DOMAIN NameOrder, InstallAlias(i), symlinks
    PROVE  /\ alias' = [alias EXCEPT ![NameOrder[i]] = Link]
           /\ NameOrder[i] = "extraction_run" => alias["records"] = Link
<1>1. Installed = Link
  BY DEF Installed
<1>2. i \in 1..3 /\ NameOrder[1] = "records"
      /\ (NameOrder[i] = "extraction_run" => i = 3)
  BY DEF NameOrder
<1>3. i = 3 => alias["records"] = Link
  BY <1>1, <1>2 DEF InstallAlias
<1> QED BY <1>1, <1>2, <1>3 DEF InstallAlias

LEMMA PublishStep ==
    ASSUME TypeOK, Quiet, PublishInv, [Next]_vars
    PROVE  PublishInv' /\ (pointer # 0 => pointer' # 0)
<1> DEFINE Published == <<sets, alias, pointer, symlinks>>
<1>0. alias \in [Names -> Nat \cup {Link}] /\ pointer \in Nat
      /\ {"records", "extraction_run"} \subseteq Names
  BY NamesAre DEF TypeOK, DiskOK
<1>a. ASSUME UNCHANGED Published
      PROVE  PublishInv' /\ pointer' = pointer
  BY <1>a DEF PublishInv
<1>1. CASE UNCHANGED vars
  BY <1>a, <1>1 DEF vars
<1>2. CASE \E mode \in {"extract", "normalize", "batch"}, sel \in Selections :
              Start(mode, sel)
  BY <1>a, <1>2 DEF Start, inputs, disk
<1>3. ASSUME NEW a \in Articles, WorkerStep(a)
      PROVE  UNCHANGED Published
  <2>1. PICK w \in Cell : Worker(a, w)
    BY <1>3, WorkerFacts
  <2> QED BY <2>1 DEF Worker, inputs, disk
<1>4. CASE \E a \in Articles : Blocked(a) \/ ModelChanged(a)
  BY <1>a, <1>4 DEF Blocked, ModelChanged, Stop, inputs
<1>5. CASE \E a \in Articles : Absorb(a)
  BY <1>a, <1>5 DEF Absorb, inputs
<1>6. CASE Ending
  BY <1>a, <1>6, EndingFacts DEF inputs
<1>7. CASE Stage
  <2>1. UNCHANGED <<alias, pointer, symlinks>>
    BY <1>7 DEF Stage, inputs
  <2>2. Len(sets) \in Nat /\ Len(sets') = Len(sets) + 1 /\ sets'[1] = sets[1]
    BY <1>7, StageFacts, NewestFacts
  <2>3. pointer' <= Len(sets')
    BY <1>0, <2>1, <2>2 DEF PublishInv
  <2> QED BY <2>1, <2>2, <2>3 DEF PublishInv
<1>8. ASSUME NEW i \in DOMAIN NameOrder, InstallAlias(i)
      PROVE  PublishInv' /\ pointer' = pointer
  <2>1. UNCHANGED <<sets, pointer, symlinks>>
    BY <1>8 DEF InstallAlias, inputs
  <2>2. CASE ~symlinks
    BY <2>1, <2>2 DEF PublishInv
  <2>3. CASE symlinks
    <3>1. /\ \A n \in Names : alias'[n] = IF n = NameOrder[i] THEN Link ELSE alias[n]
          /\ NameOrder[i] = "extraction_run" => alias["records"] = Link
      BY <1>0, <1>8, <2>3, InstallOrder
    <3>2. alias'["records"] = 1 => alias'["extraction_run"] = 1
      BY <1>0, <2>3, <3>1, LinkIsNoSet DEF PublishInv
    <3> QED BY <1>0, <2>1, <2>3, <3>1, <3>2, LinkIsNoSet DEF PublishInv
  <2> QED BY <2>2, <2>3
<1>9. CASE SwitchPointer
  <2>1. UNCHANGED <<sets, alias, symlinks>> /\ pointer' = Newest
        /\ \A n \in Names : alias[n] = Installed
    BY <1>9 DEF SwitchPointer, inputs
  <2>2. pointer' \in Nat \ {0} /\ pointer' <= Len(sets')
    BY <2>1, NewestFacts
  <2>3. symlinks => \A n \in Names : alias'[n] = Link
    BY <2>1 DEF Installed
  <2> QED BY <1>0, <2>1, <2>2, <2>3, LinkIsNoSet DEF PublishInv
<1>10. CASE Archive
  <2>1. /\ UNCHANGED <<pointer, symlinks>>
        /\ \A n \in Names : alias'[n] \in {0, alias[n]}
        /\ alias'["extraction_run"] = alias["extraction_run"]
    BY <1>0, <1>10 DEF Archive, inputs
  <2>2. sets'[1].complete = sets[1].complete /\ Len(sets') = Len(sets)
    BY <1>10, ArchiveFacts
  <2> QED BY <1>0, <2>1, <2>2, LinkIsNoSet DEF PublishInv
<1>11. CASE Around
  BY <1>a, <1>11, AroundFacts
<1>12. CASE Next
  BY <1>a, <1>2, <1>3, <1>4, <1>5, <1>6, <1>7, <1>8, <1>9, <1>10, <1>11, <1>12, NextCases
<1> QED BY <1>1, <1>12

LEMMA LedgerStep ==
    ASSUME TypeOK, Quiet, PublishInv, LedgerInv, [Next]_vars
    PROVE  LedgerInv'
<1>0. pointer # 0 => pointer' # 0
  BY PublishStep
<1>1. CASE UNCHANGED vars
  BY <1>1 DEF vars, LedgerInv
<1>2. ASSUME NEW mode \in {"extract", "normalize", "batch"}, NEW sel \in Selections,
             Start(mode, sel)
      PROVE  LedgerInv'
  <2>1. UNCHANGED <<ledger, other, pointer>> /\ run'.pc = "pool" /\ run'.fate = "none"
    BY <1>2, StartType DEF Start, disk
  <2> QED BY <2>1 DEF LedgerInv
<1>3. ASSUME NEW a \in Articles, WorkerStep(a)
      PROVE  LedgerInv'
  <2>1. PICK w \in Cell : Worker(a, w)
    BY <1>3, WorkerFacts
  <2> QED BY <2>1 DEF Worker, disk, LedgerInv
<1>4. ASSUME NEW a \in Articles, Blocked(a) \/ ModelChanged(a)
      PROVE  LedgerInv'
  <2>1. /\ UNCHANGED <<ledger, other, pointer>>
        /\ run'.pc = "shutdown" /\ run'.fate = run.fate
    BY <1>4, StopType DEF Blocked, ModelChanged, Stop
  <2> QED BY <2>1 DEF LedgerInv
<1>5. ASSUME NEW a \in Articles, Absorb(a)
      PROVE  LedgerInv'
  <2>1. /\ UNCHANGED <<ledger, other, pointer>>
        /\ run'.pc = "pool" /\ run'.fate = run.fate
    BY <1>5, AbsorbType DEF Absorb
  <2> QED BY <2>1 DEF LedgerInv
<1>6. CASE Ending
  BY <1>6, EndingFacts DEF LedgerInv
<1>7. CASE Stage
  <2>1. /\ UNCHANGED <<ledger, other, pointer>>
        /\ run'.pc = "publish" /\ run'.fate = run.fate
    BY <1>7, StageFacts DEF Stage
  <2> QED BY <2>1 DEF LedgerInv
<1>8. CASE \E i \in DOMAIN NameOrder : InstallAlias(i)
  BY <1>8 DEF InstallAlias, LedgerInv
<1>9. CASE SwitchPointer
  <2>1. pointer' # 0
    BY <1>9, NewestFacts DEF SwitchPointer
  <2> QED BY <2>1 DEF LedgerInv
<1>10. CASE Archive
  BY <1>10 DEF Archive, LedgerInv
<1>11. CASE Around
  <2>1. /\ UNCHANGED <<pointer, run>>
        /\ ledger' \in {ledger, other} /\ other' \in {"unread", ledger, other}
    BY <1>11, AroundFacts
       DEF Around, OtherReads, OtherWrites, NewPrompt, NewModel, Reparse, disk
  <2> QED BY <2>1 DEF LedgerInv
<1>12. CASE Next
  BY <1>2, <1>3, <1>4, <1>5, <1>6, <1>7, <1>8, <1>9, <1>10, <1>11, <1>12, NextCases
<1> QED BY <1>1, <1>12

LEMMA ReadyHolds ==
    ASSUME TypeOK, PublishInv, LedgerInv
    PROVE  ReadyIsOneRun
<1>0. /\ Names = {"records", "entity_index", "extraction_run"}
      /\ alias \in [Names -> Nat \cup {Link}] /\ pointer \in Nat
      /\ sets \in Seq(ArtifactSet) /\ Len(sets) \in Nat \ {0}
      /\ DOMAIN sets = 1..Len(sets)
  BY NamesAre, NewestFacts DEF TypeOK, DiskOK
<1>1. ASSUME symlinks, Ready
      PROVE  \E k \in DOMAIN sets : sets[k].complete /\ \A n \in Names : Read(n) = k
  <2>1. CASE pointer = 0
    <3>1. alias["records"] = 1 /\ alias["entity_index"] = 1
      BY <1>0, <1>1, <2>1 DEF Ready, Read, PublishInv
    <3>2. alias["extraction_run"] = 1
      BY <1>1, <3>1 DEF PublishInv
    <3>3. \A n \in Names : Read(n) = 1
      BY <1>0, <3>1, <3>2, LinkIsNoSet DEF Read
    <3> QED BY <1>0, <3>3 DEF PublishInv
  <2>2. CASE pointer # 0
    <3>1. alias["extraction_run"] = Link
      BY <1>1, <2>2 DEF PublishInv
    <3>2. alias["records"] = Link /\ alias["entity_index"] = Link
      BY <1>0, <1>1, <2>2, LinkIsNoSet DEF Ready, Read, PublishInv
    <3>3. \A n \in Names : Read(n) = pointer
      BY <1>0, <3>1, <3>2 DEF Read
    <3>4. sets[pointer].complete
      BY <1>0, <1>1, <2>2, <3>3 DEF Ready
    <3>5. pointer \in DOMAIN sets
      BY <1>0, <2>2 DEF PublishInv
    <3> QED BY <3>3, <3>4, <3>5
  <2> QED BY <2>1, <2>2
<1>2. ledger = "SUCCESS" => pointer # 0
  BY DEF LedgerInv
<1> QED BY <1>1, <1>2 DEF ReadyIsOneRun

-----------------------------------------------------------------------------
(* The theorems.                                                           *)

LEMMA Initially ==
    ASSUME Init
    PROVE  IInv
<1>1. TypeOK
  <2>1. InputsOK
    BY ExtractionAssumption DEF Init, InputsOK
  <2>2. sets \in Seq(ArtifactSet) /\ sets # <<>>
    <3>1. Legacy \in ArtifactSet
      BY ExtractionAssumption DEF Legacy, ArtifactSet, MaybeType
    <3> QED BY <3>1 DEF Init
  <2>3. DiskOK
    BY <2>2, RowFacts DEF Init, DiskOK
  <2>4. MemoryOK
    BY RowFacts, NothingMergedType DEF Init, MemoryOK, Off, MaybeType
  <2> QED BY <2>1, <2>3, <2>4, RunFacts, NoWorkType DEF Init, TypeOK
<1>2. /\ run.pc = "off" /\ run.fate = "none" /\ work = NoWork /\ paid = {}
      /\ \A a \in Articles : work[a].at = "idle" /\ rows[a] = NoRow
                             /\ checkpoints[a] = NoRow
  BY RunFacts DEF Init, NoWork, Idle
<1>3. Quiet /\ Once /\ Saved /\ OneModelInv /\ MergeInv
  BY <1>2 DEF Quiet, Once, Saved, OneModelInv, SameModel, MergeInv
<1>4. InWindow
  <2>1. Active \cup Lost = {}
    BY <1>2 DEF Active, Lost
  <2> QED BY <2>1, NothingFits DEF InWindow
<1>5. PublishInv
  <2>1. sets[1].complete /\ Len(sets) = 1
    BY DEF Init, Legacy
  <2>2. pointer = 0 /\ \/ \A n \in Names : alias[n] = 1
                       \/ \A n \in Names : alias[n] = 0
    BY DEF Init
  <2> QED BY <2>1, <2>2, NamesAre DEF PublishInv
<1>6. LedgerInv
  BY <1>2 DEF Init, LedgerInv
<1> QED BY <1>1, <1>3, <1>4, <1>5, <1>6 DEF IInv

\* IInv is inductive: it holds at first and every step of a command, of a worker,
\* of another process or of a fault keeps it.
THEOREM Invariance == Spec => []IInv
<1>1. IInv /\ [Next]_vars => IInv'
  <2> SUFFICES ASSUME IInv, [Next]_vars
               PROVE  IInv'
    OBVIOUS
  <2>1. /\ TypeOK /\ Quiet /\ Once /\ Saved /\ InWindow /\ OneModelInv
        /\ MergeInv /\ PublishInv /\ LedgerInv
    BY DEF IInv
  <2>2. TypeOK' /\ Quiet' /\ Once' /\ Saved'
    BY <2>1, TypeStep, QuietStep, OnceStep, SavedStep
  <2>3. InWindow'
    BY <2>1, <2>2, InWindowStep
  <2>4. OneModelInv' /\ MergeInv' /\ PublishInv' /\ LedgerInv'
    BY <2>1, OneModelStep, MergeStep, PublishStep, LedgerStep
  <2> QED BY <2>2, <2>3, <2>4 DEF IInv
<1> QED BY Initially, <1>1, PTL DEF Spec

\* For any number of Articles and workers and any interleaving of them with
\* crashes and other models, the checkpoint file holds answers of one model, the
\* type an entity is published with is the one the Articles of the run agree on,
\* and its entry is that of one of them.
THEOREM MergeCorrect == Spec => []TypesAreOrderFree
<1>1. IInv => TypesAreOrderFree
  BY OneModelHolds, IndexHolds DEF IInv, TypesAreOrderFree
<1> QED BY <1>1, Invariance, PTL

\* Whatever happens in a run, the answered Articles whose checkpoint is not on
\* disk are never more than the workers.
THEOREM LossCorrect == Spec => []LossIsBounded
<1>1. IInv => LossIsBounded
  <2> SUFFICES ASSUME IInv
               PROVE  Cardinality(Lost) <= MaxWorkers
    BY DEF LossIsBounded, Lost
  <2>1. Active \cup Lost \subseteq Articles /\ Lost \subseteq Active \cup Lost
    BY DEF IInv, TypeOK, MemoryOK, Active, Lost
  <2>2. Cardinality(Active \cup Lost) <= MaxWorkers
    BY DEF IInv, InWindow
  <2> QED BY <2>1, <2>2, PartFits
<1> QED BY <1>1, Invariance, PTL

\* What passes the readiness gate is one complete run, at every moment of a
\* publication and after a crash in it, and success is recorded only for a
\* document with a published set.
THEOREM ReadyCorrect == Spec => []ReadyIsOneRun
<1>1. IInv => ReadyIsOneRun
  BY ReadyHolds DEF IInv
<1> QED BY <1>1, Invariance, PTL

\* No step sends an Article to the provider whose checkpoint on disk is current.
THEOREM PaidOnceCorrect == Spec => PaidOnce
<1> DEFINE Unpaid == \A a \in Articles :
              work[a].at = "queued" /\ work'[a].at = "calling"
                 => synthetic \/ ~ExactMatch(a, rows[a])
<1>1. ASSUME IInv, [Next]_vars
      PROVE  [Unpaid]_vars
  <2> SUFFICES ASSUME Next, NEW a \in Articles,
                      work[a].at = "queued", work'[a].at = "calling"
               PROVE  synthetic \/ ~ExactMatch(a, rows[a])
    BY <1>1
  <2>1. TypeOK /\ Quiet /\ Once /\ Saved /\ run.pc = "pool"
    BY <1>1 DEF IInv, Quiet
  <2>2. work[a].row = checkpoints[a]
    BY <2>1 DEF Once
  <2>3. work[a].row = NoRow
    <3>1. CASE \E b \in Articles : WorkerStep(b)
      <4>1. PICK b \in Articles : WorkerStep(b)
        BY <3>1
      <4>2. PICK w \in Cell :
               /\ Worker(b, w)
               /\ w.at = "calling" /\ work[b].at = "queued" => work[b].row = NoRow
        BY <2>1, <4>1, WorkerFacts
      <4>3. work'[a] = IF a = b THEN w ELSE work[a]
        BY <2>1, <4>2 DEF Worker, TypeOK
      <4> QED BY <4>2, <4>3
    <3>2. CASE \E b \in Articles : Blocked(b) \/ ModelChanged(b)
      <4>1. work'[a] = Idle
        BY <3>2 DEF Blocked, ModelChanged, Stop
      <4> QED BY <4>1, CellFacts
    <3>3. CASE \E b \in Articles : Absorb(b)
      <4>1. PICK b \in Articles : Absorb(b)
        BY <3>3
      <4>2. Queued(a, checkpoints').at = "queued"
        BY DEF Queued
      <4>3. work'[a] \in {Queued(a, checkpoints'), Idle, work[a]}
        BY <2>1, <4>1, AbsorbWork
      <4> QED BY <4>2, <4>3, CellFacts
    <3>4. CASE \/ \E mode \in {"extract", "normalize", "batch"}, sel \in Selections :
                     Start(mode, sel)
               \/ Archive
      BY <2>1, <3>4 DEF Start, Archive, At
    <3>5. CASE Ending
      <4>1. work'[a] = Idle
        BY <2>1, <3>5, EndingFacts DEF NoWork
      <4> QED BY <4>1, CellFacts
    <3>6. CASE \/ Stage \/ SwitchPointer \/ Around
               \/ \E i \in DOMAIN NameOrder : InstallAlias(i)
      <4>1. work' = work
        BY <2>1, <3>6, AroundFacts DEF Stage, SwitchPointer, InstallAlias
      <4> QED BY <4>1
    <3> QED BY <3>1, <3>2, <3>3, <3>4, <3>5, <3>6, NextCases
  <2> QED BY <2>1, <2>2, <2>3 DEF Saved
<1>2. Spec => [][Unpaid]_vars
  <2> HIDE DEF Unpaid
  <2> QED BY <1>1, Invariance, PTL DEF Spec
<1> QED BY <1>2 DEF PaidOnce
=============================================================================
