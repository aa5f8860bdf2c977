# Verification of the Legal GraphRAG platform

TLA+ specifications of the parts of this repository where order, failure and
bounds decide whether the system is correct, the TLC runs that check them on
small instances, and TLAPS proofs of what matters most for every instance.
`PROJECT.json` holds the machine-readable index: components, runs, the mutation of
the code that each property catches, the map from definitions to source lines, the
findings and the hazards. Paths below are relative to the repository root.

## 1. The system

The platform answers questions about Vietnamese law with verifiable citations. It
has two phases that meet in Neo4j.

* **Ingestion (offline).** Crawl, parse into a structure tree, extract entities and
  relations Article by Article with a language model, decide what is accepted,
  publish an artifact set, write the graph, reconcile references between documents.
* **Serving (online).** A FastAPI backend keeps conversations in PostgreSQL, resolves
  what a message refers to, retrieves evidence (vector, full text, graph), has a
  model write an answer from the projected evidence and validates that answer before
  it is stored and streamed.

### Inventory

| Component | State it keeps | Operations | Interacts with | Hard because | Correct means |
|---|---|---|---|---|---|
| Chat turn (`apps/backend/conversation`, `api/routes/chat.py`) | none of its own; one coroutine per request | `stream_chat` | store, lock, resolver, retrieval, generator | concurrent retries of one `client_turn_id`, cancellation, crash | one generation per turn id, a replay is the stored answer, turns of a conversation are serial |
| Conversation store (`persistence/`) | `conversations`, `turns`, `messages`, focuses, pending clarification; advisory locks; a bounded pool | begin, persist, replay, list, detail, rename, delete, title, claim | every backend service | a session lock on a pooled connection held over minutes of model latency | no leak of lock or connection, rows final once terminal |
| Conversation context (`resolution/`) | grounded focuses (TTL, limit), one pending clarification | resolve, upsert, prune, expire, select, cancel | store, canonical lookup (Neo4j) | state that ages over turns, several detectors | anaphora never guesses; ordinals mean what was shown |
| Retrieval runner (`services/retrieval_runner.py`) | semaphore, executor, active futures | `run`, `aclose` | every blocking retrieval call | threads cannot be killed; timeout, cancellation and close race | capacity bound, no lost permit, sound close report |
| Composition root (`container.py`, `main.py`) | the resources and their order | build, rollback, lifespan, close | all drivers and pools | one of several constructors or closes fails | everything built is closed once, users before providers |
| Answer generation (`src/generation`) | none; one request | sufficiency, validation, compaction, projection, provider call, repair, grounding | runner's contexts, answer provider | four filters that must agree, a budget, one repair | fail-closed, bounded cost, no unsupported answer |
| Answer provider (`gemini_answer_provider.py`) | capacity semaphore, closed flag | `generate_structured`, `aclose` | Gemini | deadline over wait, attempts and backoff | bounded attempts, always ends |
| Retrieval runtime (`src/retrieval`) | none | route, seed channels, fuse, expand, filter, rerank, pin, plan execution | Neo4j, embedder, reranker | temporal validity, pinned evidence, exact planned paths | evidence in force, anchors kept, one exact path or refusal |
| Query planning and processing | none | decompose, link, bind | LLM, Neo4j | untrusted model output | only plans of the ontology are executed |
| Ingestion pipeline (`src/pipeline/main.py`, `pipeline/pipeline`) | Article checkpoints, staged artifact sets and their aliases, batch ledger | extract, normalize, publish, archive, `record_doc_status` | LLM providers, file system | parallel Articles, crash and resume, atomic publication, two batch processes | nothing paid is lost or paid twice, readers see one set |
| Structure parser (`src/pipeline/parser`) | open containers of a one-pass state machine | parse a text, split Appendices and attached instruments | extraction, payload builder | headings, quotations and capitals in any order | every unit under its nearest heading, spans are the source |
| Extraction and validation (`src/pipeline/extraction`, `shared/ontology`) | structural registry, provider candidates, records | resolve labels, refresh candidates, merge, score, gate, build payload | parser, LLM answers, provider links | three finders of one citation, bundles, a payload that is refused whole | no half citation, no edge on the model's word alone, accepted means loadable |
| Reference reconciliation | checkpoint file, attempt ledger, file lock, graph relations | `reconcile_external_references` | Neo4j writer | three stores updated in sequence, unknown commit outcome | the ledger explains the graph; a written target is never silently replaced |
| Neo4j adapters (`src/infrastructure/neo4j`) | the graph | node and relation statements, hierarchy reconciliation, vectors | both phases | auto-committed statements, older layouts in the graph, stale vectors | a load is whole, one parent per unit, vectors of the current text |
| Crawlers | files, progress | crawl, resume | web | interruption | not modelled |
| Frontend chat (`apps/frontend`) | messages, stream, timer | send, read SSE, abort | `/api/v1/chat` | abort races the server | not modelled; what it sends again is a request of `ConversationTurn` |
| Accounts (`api/routes/auth.py`, `auth/`) | accounts, cookies | register, login, logout, claim a guest's conversations | store | ownership changes while requests run | a conversation is its owner's only |
| Observability, browser, evaluation | logs, reports | – | – | – | not modelled: best effort, read-only or offline |

### How the modelled parts interact

A chat request (`ConversationTurn`) holds the conversation's advisory lock from
before its begin-turn commit until after its final commit. Inside it, the context of
the conversation is read and written by one turn after another
(`ConversationContext`); retrieval runs as blocking calls behind
`RetrievalRunner`; the retrieved contexts and the answer model are the business of
`AnswerGeneration`, whose outcomes are the statuses `ConversationTurn!Generate`
may choose. `ContainerLifecycle` says when the resources all of them use exist.
Between turns, `ConversationHistory` interleaves the statements of the history and
account routes with the two transactions of a turn.

Offline, `HierarchyParser` makes a structure tree of a text, and `StructuralIds`
gives its units names twice, as extraction does and as the payload builder does.
`ExtractionRun` obtains and keeps the model's answers for the Articles of a document
and publishes the decision artifacts; `RelationRecords` says what these contain, from
provider candidates (`ProviderCandidates`), rules, model and diagram. `GraphLoad`
writes payloads into Neo4j and computes vectors, and `ReferenceReconciliation` later
writes the citations between documents, one document at a time, under that document's
file lock.

## 2. Modules

| Module | Models | State ↔ code | Actions ↔ code |
|---|---|---|---|
| `ConversationTurn` | `conversation/service.py`, `persistence/repository.py`, `persistence/lock.py`, `api/routes/chat.py` | `pc`: the await the coroutine is at; `conns`, `lock`: pooled connections, advisory locks; `convOwner`, `nextNo`, `turns`, `msgs`: the rows; `calls`: history of `generate()` | one action per SQL transaction or awaited stage; `Cancel`, `UnhandledError`, `Crash`, `PoolTimeout` are the environment |
| `TurnLedger` | the promise of `client_turn_id` | a turn is absent, processing, or finished with one reply | `OpenEntry`, `CloseEntry`, `Answer`, `LoseAll` |
| `ConversationContext` | `resolution/resolver.py`, focus and clarification methods of `repository.py` | `focuses`, `pending` as the tables, `message` as what the detectors find; `asked`: history, the list the last answered turn ended with | begin (load and expire), resolve, persist |
| `RetrievalRunner` | `services/retrieval_runner.py` | `permits`, `active`, `future`, `accepting` | the code between two awaits of `run`, `_monitor`, `aclose`; threads are external |
| `ContainerLifecycle` | `container.py`, `main.py`, composed with `RetrievalRunner` | `built`, `todo`, `tried`, and the runner's state | construction step, failure with its rollback, serve, close; requests and threads of the runner go on beside them, its `aclose()` is one of the closes |
| `AnswerGeneration` | `src/generation`, `query_processing/fanout.py`, `gemini_answer_provider.py`, what `runtime.execute` may return | `ctx`: RetrievalContext; `operands`: AnswerCompositionPlan; `proj`: ProjectedAnswerContext; `round`, `attempt`, `calls` | retrieve (atomic or fan-out and merge); each way out of `generate`; each provider attempt |
| `ReferenceReconciliation` | `external_reference_reconciliation.py`, `reference_checkpoint_store.py`, `reference_writer.py` (bundle transaction), `external_reference_validator.py`, `_update_reference_checkpoints` of `orchestrator.py` | `cp`: checkpoint file; `committed`, `torn`: attempt ledger; `graph`: REFERS_TO edges per bundle; `lock`: the file lock; `run`: locals of a process (`todo` = external list, `failures` = validation_failures, `seen` = what its lock section read) | a resolution pass (`Resolve`, `DryRun`, `Extract`), then per bundle each way through the lock section: skip, preflight, claim, graph outcome, append, swap; `Crash`, `AppendTorn` are the environment |
| `ConversationHistory` | `api/routes/conversations.py`, `api/routes/auth.py`, management methods of `repository.py` | `row`, `turns`, `turnIds`, `msgs`: the tables; `rowLock`: the row lock of an open transaction; `cookie`, `accounts`; `req`: locals of a handler | one action per SQL statement (READ COMMITTED), a single-statement transaction is one action; `Abort` is the environment |
| `ExtractionRun` | `run_pipeline` and its checkpoints in `orchestrator.py`, `artifact_store.py`, `batch_progress_ledger.py`, the providers' retries, extract, normalize and archive commands of `main.py` | `rows`: checkpoint file; `sets`, `pointer`, alias files: artifact sets; `ledger`; `run`, `work`: locals of the main thread and the workers | the code between two writes to disk or two thread switches; `Crash`, the second batch process and changed texts, prompts and models are the environment |
| `StructuralIds` | `structural_references.py` (registry), `payload_builder.py` (ids) | none: operators on parsed groups | registration and resolution (`Registered…`, `Resolve…`) beside the nodes that are written |
| `HierarchyParser` | `hierarchy_parser.py`, `parser/models.py`, patterns | `st`: the locals of `_parse_hierarchy`; `todo`, `groups` | one line of the source per step; splitting and failing over |
| `ProviderCandidates` | `provider_relation_candidates.py` | none: operators on mentions | classify, resolve, refresh |
| `RelationRecords` | record building, gate and bundles of `orchestrator.py`, `confidence_scorer.py`, validators, `payload_builder.py` | `sidecar`: candidate file; `records`; `payload` | batch-parse, collect, judge, decide, settle bundles, build |
| `GraphLoad` | write and embed commands of `main.py`, `writer.py`, `hierarchy_reconciler.py`, `embedding_writer.py` | `nodes`, `edges`: the graph; `disk`, `extracted`: files; `cmd`, `jobs`: the command and its threads | one action per Cypher statement; `StatementFails`, `Crash`, `Reparse`, `ClearDatabase` are the environment |
| `MC…` | constants for TLC | | |
| `…Proofs` | theorems about `ConversationTurn`, `ConversationHistory`, `ConversationContext`, `RetrievalRunner` (in `AnswerGenerationProofs`), `AnswerGeneration`, `ExtractionRun`, `RelationRecords`, `GraphLoad`, `ReferenceReconciliation` | the inductive invariants | one step per action |

What is abstracted. Texts, prompts and scores are left out: a legal unit is its
document, version family, content class, validity interval and cost; a message is
what the detectors find in it; a stage of a turn is the branch the service takes
after it. A ranked list is the function from its members to their places, which is all
that the code's sorts by `rank` look at. `Contexts` in `AnswerGeneration`
over-approximates retrieval: any ranking, any subset of the paths the intent's policy
allows, constrained by what `runtime.execute` guarantees (temporal filter, one version
per family, hydrated anchors and goal paths pinned first, no expansion on a decisive
negative). The hash that breaks ties between equally ranked bundle sets is a free choice. Definitions
whose comment starts with "Mutant" are variants of the code used to show that a
property can fail; no specification uses them.

## 3. Runs

| Run | Checks | Instance |
|---|---|---|
| `turn` | exclusion and no leak (`LockSafety`), one `generate()` per turn id (`GenerationBudget`), a replay is the stored row (`ReplayParity`), `SerialTranscript`, PROCESSING orphans only by fault (`OrphanOnlyByFault`), refinement of `TurnLedger` (`ImplementsLedger`), `EveryRequestEnds` under fairness | 3 requests, 2 turn ids, 2 principals, 1 conversation, pool of 2, all faults; 267,372 states |
| `history` | a history read while a turn commits is whole (`HistoryIsWhole`), a user's title survives the turns (`RenameSurvives`), what a request learns or does stays within its owner and no conversation passes between users, one replay excepted (`OwnerIsolation`) | 3 requests of nine kinds, 2 browsers, 2 users, 2 turns, 2 client turn ids, a guest's conversation or none; 800,415 states up to symmetry |
| `runner` | permits conserved within capacity (`CapacityBound`), `CloseReportSound`, close reaches everything once and the runtime's driver after the runner (`CloseReachesAll`), `PermitReturns` | 3 calls, 2 permits, planning and answers on or off; 842,869 states |
| `context` | focuses mirror citations, anaphora never guesses, a number picks from the list shown last (`FocusMirrorsCitations`, `AnaphoraIsSafe`, `PickAnswersTheQuestion`) | 4 units, 5 turns, limit 2, TTL 2; 978,085 states |
| `generation` | `NoDeadEnd`, `ProjectionIsComplete`, `OperandCovered`, `ProviderBudget`, `AnswerIsSupported` | 3 units, 5 paths, 4 anchor sets, 3 budgets, 1 retry; 665,681 states |
| `extraction` | one model, and entity types that depend on no order of completion (`TypesAreOrderFree`), at most one window of paid answers lost (`LossIsBounded`), where aliases are links what is ready is one complete run (`ReadyIsOneRun`), a current checkpoint is not paid again (`PaidOnce`), every command ends (`ExtractionEnds`) | 3 Articles, 2 workers, 2 attempts, 2 models, 2 commands, 1 change around them, crashes; 1,218,965 states |
| `structure` | registry and payload name the same headings and units (`IdsAgree`), every label that extraction resolves is written (`LabelsAreWritten`), `ParentIsNearest`, `SpansMatchText` | every text of the alphabet in `MCHierarchyParser` up to its length; 485,410 states |
| `chapters` (violation) | Plan 18: a Chapter assigned to two Parts is refused (`ChapterHasOnePart`) | same |
| `records` | candidates are settled by what the whole batch became (`CandidatesAreSettled`), no half citation (`BundleIsWhole`), model edges repeat no rule and have evidence (`LlmEdgesAreEarned`), what is accepted can be loaded (`AcceptedIsBuildable`) | 2 documents, 2 batches, the answers, references, links and diagrams of `MCRelationRecords`; 98,670 states |
| `load` | what a command reports as written is there and is one tree (`WrittenIsOneTree`), vectors are of the current text (`EmbeddedIsCurrent`), no statement detaches a unit (`StaysReachable`) | 2 documents, 4 layouts, 2 threads, 11 commands, 3 given, 1 fault; 2,850,813 states |
| `load_again` (violation) | Plan 18: reconciliation is idempotent (`WriteIsRepeatable`) | same, no fault |
| `reconciliation` | graph, ledger and checkpoint agree across crashes (`StoresAgree`), edges are written once (`EdgesAreStable`) | 1 bundle, 2 processes, 2 nested target sets, 2 builds, 5 passes; 55,619 states |

### Bounds, and why they are enough

* *Turns.* Three requests are a first attempt, its retry and a competitor; two
  owners and two turn ids make all of them differ or agree. Two connections are the
  smallest pool in which a waiting request holds one while another finishes.
  Requests, turn ids and owners are interchangeable, so `Representative` keeps one of
  the initial states that differ by renaming; every action touches one request and one
  conversation.
* *History.* A reader, a turn and a third party (a rename, a login or a claim) are the
  most that meet in one property; two client turn ids let two users name the same turn
  or not; accounts and cookies are any that may exist when
  the first request arrives, so no request is spent on reaching them.
* *Runner.* Three calls on two permits give a running, a running-abandoned and a
  waiting call at once, with close at any point. The composition root only constrains
  when `run` and `aclose` are called: of the settings the least and the most are taken.
* *Context.* Five turns exceed the TTL of two and the focus limit of two with room
  for a clarification over three of them.
* *Generation.* Two subqueries are the least that merge. Of three units two repeat a
  text in one document (deduplication), two are versions of one family, one is out
  of force on the query date. The budgets are: nothing left, one bundle, everything.
  Five paths give every relation class the code tests, one with two edges. A
  candidate cites one or two units, shows a path or asserts validity, truly or not,
  on the right date or not.
* *Extraction.* Three Articles over two workers give one that waits for the window;
  two commands are a run and what comes after it, with one change of text, prompt,
  model or archive around them; the setups are a document published by older code, one
  without an Article and a platform without symbolic links.
* *Structure.* Texts are short sequences over the kinds of line that the state machine
  tells apart; headings repeat numbers so that Parts, Chapters and Articles start again.
* *Records.* One citation found by model, rule and link at once, with a target that
  appears, changes or is missing between two batches.
* *Load.* The four layouts are one without Chapters and the three releases of the
  hierarchy (Chapter-Article, Section, Part and Subsection); the edge of the first is one
  that no cleanup looks for. Three commands load, load again after a re-parse, and embed.
  The second document is an Appendix without Articles, which is embedded itself, and
  shares a concept node with the first.
* *Reconciliation.* Two target sets, one inside the other, give the partial and the
  conflicting bundle; two builds give a checkpoint validated against the wrong one.
  Five passes are enough for: write, crash before the checkpoint, extraction drops the
  row, a pass resolves another target, a concurrent run meets it. Bundles interact
  only through the whole-file swap, which the proof covers for any number of them.
* Named caps: `MaxStarts` (passes), `MaxTurns`, `MaxFound`, `MaxCitations` (context),
  `MaxTurns` (history), `MaxUnits` (units per context), `MaxRuns`, `MaxChanges`
  (extraction), `MaxBatches` (records), `MaxCommands`, `MaxFaults` (load). Nothing else
  is capped.

### Fairness

* `ConversationTurn!FairSpec`: weak fairness of each request's own step. A coroutine
  that is not cancelled is resumed, every stage has a timeout in the code, and the
  lock wait has a deadline (`LockBusy`). Sending is not fair, faults are not.
* `RunnerFairness`: callers (timeouts), executor pick-up, monitors and the
  grace period of `aclose`. A thread's completion is *not* fair; only
  `PermitReturns` assumes it, in its own hypothesis, since a permit is held by a
  thread nobody can kill.
* `ExtractionRun!Spec`: weak fairness of the command's own steps (main thread and
  workers together). A worker's call returns or raises, its retries are bounded by
  `stop_after_attempt`, and the main thread waits for futures only. Starting a command,
  crashing and what happens around the runs are not fair.

The other specifications state no fairness and are checked for safety only.

## 4. Proofs

Eight modules hold the proofs. Each states an inductive invariant `IInv`, proves that
`Init` implies it and that every action keeps it (one step per action, under it one per
conjunct the action can disturb), and derives the properties of the runs from it.

| Module (obligations) | Theorems about properties of a run | Also |
|---|---|---|
| `ConversationTurnProofs` (1537) | `LockCorrect`, `BudgetCorrect`, `ReplayCorrect`, `OrphanCorrect`, `SerialCorrect`, `LedgerRefinement` | `TypeCorrect`, `BeginCorrect`, `FinalCorrect` |
| `ConversationHistoryProofs` (915) | `HistoryCorrect`, `OwnerCorrect`, `RenameCorrect` | `TypeCorrect` |
| `ConversationContextProofs` (529) | `MirrorCorrect`, `AnaphoraCorrect`, `PickCorrect` | |
| `AnswerGenerationProofs` (1182) | `ProviderBudgetCorrect`, `AnswerCorrect`, `ProjectionCorrect`, `OperandCorrect`, `NoDeadEndCorrect`; of the runner `RunnerCapacityCorrect`, `RunnerCloseReportCorrect` | |
| `ExtractionRunProofs` (1600) | `MergeCorrect`, `LossCorrect`, `ReadyCorrect`, `PaidOnceCorrect` | |
| `RelationRecordsProofs` (2659) | `CandidatesCorrect`, `BundleCorrect`, `EarnedCorrect`, `BuildableCorrect` | |
| `GraphLoadProofs` (3501) | `WrittenIsOneTreeAlways`, `EmbeddedIsCurrentAlways`, `StaysReachableAlways` | |
| `ReferenceReconciliationProofs` (672) | `StoresAgreeCorrect`, `EdgesCorrect` | `TypeCorrect`, `SettledCorrect`, `TornCorrect` |

The theorems in the last column state what no run lists, because what a run checks
follows from it or needs it: that a begin meets no row, that terminal rows and settled
bundles are final, that nothing is written behind a torn ledger.

### The arguments

* *Turns*, for any finite set of requests and any conversations, turn ids, owners, pool
  size and faults. `IInv` is the type invariant, `LockSafety` and `RowInv`. That the
  begin-turn insert meets no row needs exclusion between the re-check and the insert,
  which needs that only the lock holder is in a locked position; at most one
  `generate()` needs that a handler inside the downstream stages is the starter of its
  PROCESSING row (`HandlerOwnsTurn`), that calls made so far depend on its position
  (`CallsSoFar`) and that a row once begun never becomes absent again; replay parity
  needs that a reply agrees with its row (`ReplyAgrees`). The transcript is serial
  because an open turn's question is the last message (`OpenIsLast`) and numbers are
  below `next_user_turn_no`. For the refinement every action is a ledger step or a
  stutter: begin opens an entry, the final transaction closes it, a step that ends a
  request answers it (a cancellation or a refusal too), a crash is `LoseAll`.
* *History*, for any requests, browsers, users and number of turns. What a request
  answers rests on what an earlier statement of it read; the invariant says for each
  position of a handler what is still true of that (`RequestOK`), that one turn is open
  at a time and what its first transaction read of the row still holds (`ChatInv`), and
  that an assistant message has its turn's snapshot (`AnsweredTurns`). `OwnerCorrect`
  includes the lookup under the lock, which the code does not scope to the owner: a
  request that it answers owns the conversation or found none in its first lookup. The
  second is the exception that `OwnerIsolation` names (section 5).
* *Context*, for any units, limits and TTL. `FocusMirrorsCitations` is inductive with
  dates (`Dated`, `Fresh`); eviction needs that the rows dropped are the last in the
  order of `_load_focuses`, an argument over finite sets and a least element.
  `PickAnswersTheQuestion` needs that the pending row is what the last answered turn
  ended with, whatever failed since (`PendingIsAsked`).
* *Runner*, for any calls and any `MaxConcurrency`. Permits are in the semaphore or
  with a tracked call (`Conserved`), and every future that a thread holds or may pick up
  is tracked (`Tracked`). The theorems are about the runner alone; every step of
  `ContainerLifecycle` is one of its steps or leaves its state as it is.
* *Answer generation*, for any units, paths, anchors, budgets, retries and model
  outputs. The call budget needs how far the running call has come (`IInv`). The four
  evidence properties follow from `EInv`: what the provider is given is `Supported`. It is
  derived without induction over data: every kind of required bundle set guarantees its
  part (`BundleSetOK`); the unit that stands for a deduplicated one has the same
  document, family and text; and the greedy fill stays inside the budget because the
  last unit it kept was checked against all that were kept before it. `NoDeadEndCorrect`
  assumes `Expressive`: the output schema can cite a unit with or without a path or a
  validity assertion; TLC evaluates it on the instance.
* *Extraction*, for any Articles, workers, attempts, models, commands and changes. `InWindow`
  bounds the workers' cells together with the answers that are not on disk; `Once` and
  `Saved` say that an Article is submitted once and that what left the pool is saved; `OneModelInv` and `MergeInv` relate the running
  index to the set of Articles merged so far, so that the order drops out of an entity's
  type. It does not drop out of the label, which is the last agreeing Article's; the
  theorem says only that the entry is of an Article with that type;
  `PublishInv` goes through the publication file by file; `LedgerInv` ties recorded
  success to a published set.
* *Records*, for any host document, answers, references, links and diagrams. `RecordInv`
  and `MarkInv` say what a record is and which marks it has at every stage, `DecideInv`
  and `PayloadInv` that a bundle's decisions agree and that the payload holds accepted
  records. `EarnedCorrect` covers the citations of the rule resolver, not those of
  provider candidates (section 5). `BuildableCorrect` needs more: endpoint types stay what the Article's own
  answer said or are in conflict (`PlaceInv`), a superseded bundle has a twin record
  for each of its own (`TwinInv`), and only a refused payload falls back to structure
  (`RefusalInv`). It assumes `Unambiguous`: entity slugs are not unit ids, and the same
  words of one unit name the same targets. Both are facts about texts and slugs that
  the code does not enforce; the instance satisfies them and TLC evaluates them.
* *Load*, for any documents, layouts, accepted meaning, threads, commands, failures and
  crashes. A write is a script of statements computed from a payload; `InWrite` says, for
  every thread and every place in its script, what the statements before it left: the
  nodes with their text, the relations, and of the chains already handled no flattened
  edge. It survives the other threads because a document is written by one thread of a
  command (`WrittenOnce`) and no two documents share a unit. That a finished script
  leaves one parent for each unit (`FinishedWhole`) needs that every `CONTAINS` edge in
  the graph is of a layout the document has or had (`Known`): the layout on disk has the
  edge, or a chain of the reconciler's covers it, or it is one of `Strays`, which
  `OneParent` excepts by name. How one layout follows another is not assumed. Vectors need
  more (`EInv`): a vector is of the text whose hash it carries or is gone (`Hashed`), the
  threads of one phase are done before the next (`InPhase`), an embed job works on
  targets of its own document (`Seeking`), and in an end-to-end load a document is
  embedded only after it was written, and what the job has not left to do is current
  (`WriteFirst`). For `StaysReachable` the nine steps of the recursive function are
  unfolded: labels only go down, so that nine steps reach everything
  (`DescentIsClosed`, `DescentIsLeast`), and an edge that a step deletes has a chain of
  edges that stay in its place (`ReconcileBridges`, `EdgesStay`).
* *Reconciliation*, for any processes, bundles, target sets and builds and any number
  of passes. `SectionInv` says what an open lock section knows: its process holds the
  lock, the checkpoints it read are still the file, its bundle is not settled, and a
  COMMITTED outcome is already in the graph (before the append) and in the ledger
  (before the swap). `TargetsInv` says that committed target sets are not empty, without
  which a commit over "no edges yet" could contradict a ledger row; `TornInv` that no
  section is open behind a torn ledger. The three writers of the checkpoint file are
  handled by one lemma about what a resolution pass may do to a row (`RowOK`).

Assumptions on constants: `ReqAssumption`, `PoolAssumption`, `FaultsAssumption`,
`NoneAssumption` (turns), `PrincipalsAssumption`, `TurnsAssumption` (history),
`SizesAssumption` (context), `ConcurrencyAssumption`, `CallAssumption` (runner),
`ShapeAssumption` (generation), `ExtractionAssumption`, `RecordsAssumption`,
`ConstantsAssumption` (reconciliation): sizes are positive, requests and units finite,
names distinct, a citation's id unique in its document. The load has two.
`LoadAssumption`: sizes, and that a layout begins with its Document. `PayloadAssumption`:
what the writer relies on of `load_validated_payload` (`Consistent`, from
`payload_consistency_validator.py`: no dangling relation, one `CONTAINS` parent of an allowed
label; its checks of cycles, orphaned groups and mixed children are not needed and left
out), that extraction adds no `CONTAINS` (`orchestrator.py` refuses it with
`llm_structural_relation_forbidden`) and no unit labels, and that unit ids begin with the id of
their document.
TLC evaluates all of them in the runs.

### Only model-checked

* Liveness under fairness: `EveryRequestEnds`, `PermitReturns`, `ExtractionEnds`.
* `IdsAgree`, `LabelsAreWritten`, `ParentIsNearest`, `SpansMatchText`: the parser is a
  loop over the lines of a text and its properties compare the result with a reading
  of the whole text, which is induction over data.
* `CloseReachesAll`: apart from the runner's, whose theorems are proved,
  `ContainerLifecycle` has no state that a larger instance would enlarge.

## 5. What the runs found

Two statements of the repository have a violation run and an entry under `findings`:

* the hierarchy reconciler demands a direct Section-Article edge also for Articles under a
  Subsection, so writing such a document fails, the first time and every time after
  (`load_again`);
* a Law whose Parts each begin with Chapter I is accepted, with one Chapter node under the
  first Part for the Articles of both (`chapters`), where Plan 18 (line 449) refuses
  "the same Chapter assigned to two Parts".

More were met while modelling; the models contain each of them and show it when the
statement is put as an invariant. Properties that come near them name the exception:

1. a cancelled request leaves its turn PROCESSING, and its retries are told to wait
   (`chat.py:52-53`), where Plan 19 (line 174) marks the turn FAILED;
2. the lookup under the lock is not owner-scoped (`repository.py:228`), where the
   module docstring (line 11) says "Every operation is owner-scoped"; it takes a first
   lookup made before the conversation existed (`LockedFindTurn`; `OwnerIsolation`
   excepts exactly a reply of such a request);
3. a reply that names a legal unit does not leave a pending SELECT
   (`resolver.py:96-117`), where the module docstring (lines 11-15) says it does;
4. merging subquery contexts can make a comparison operand's own top hit ineligible
   (`fanout.py:67`), where `evidence_compaction.py:284-286` keeps it on purpose;
5. the grounding validator accepts a validity answer about any allowlisted unit
   (`grounding.py:196`), where the output contract (`context_projection.py:375-379`)
   says "for an anchored subject unit";
6. the records of provider candidates are added after the rules have marked what they
   supersede (`orchestrator.py:1049-1051`), so that an edge of the model may stand beside
   the candidate's edge of the same citation, where Plan 22 (lines 360-368 and 552) says
   that the model cannot override provider evidence (`CitedOnce` excepts these bundles);
7. an edge of an older layout that the reconciler's three queries do not look for stays:
   an Article moved from the Document under a Part or a Chapter has two parents, where
   Plan 18 (line 861) says "exactly one canonical parent" (`Strays`);
8. a Subsection of the main body outside any Chapter is written nowhere and a Section
   without Chapter is accepted, where Plan 18 (line 446) refuses a "Section without an
   active Chapter" (`DroppedSubsection`);
9. a failure inside `_build_conversation_chat` closes neither the PostgreSQL engine nor
   the lookup driver already built, where Plan 10 (line 438) says "Partial startup failure
   must close every resource already created" (`CloseReachesAll` excepts the two).

Observations met on the way, without a run of their own: extraction keeps a checkpoint
row by its status alone (`orchestrator.py:1367`), where reconciliation also keeps the
bundles the ledger knows as committed, so a bundle whose process died between append
and swap can lose its row and come back as PENDING or NOT_APPLICABLE for another
target, while Plan 17 (`plans/agent-plan-feats/17_…plan.md:544`) says "target changed
after any prior write -> BLOCKED"; the preflight of the next applying run and the
writer's comparison then prevent a second target set, as `EdgesAreStable` shows; a
reconciliation whose bundle another process removed or re-resolved ends with an
untyped error (`Abort`); a comparison plan with one
subquery raises a pydantic error no handler of the turn names
(`AnswerGeneration!ShortComparison`, `ConversationTurn!UnhandledError`); a runner
timeout in the query-processor stage does the same; the path alternatives of a
comparison carry no version key, so `ProjectedContextValidator` always refuses them
and they can shadow a complete alternative; `README.md` §6 and
`src/generation/README.md` call a second grounding failure a refusal, the code (and
its test) makes it an error; `gather` does not cancel the sibling retrievals of a
failed one; a caller of the runner can see `CancelledError` because `aclose`
cancelled its queued call; the lookup and browser drivers are closed before the
runner drained.

Observations in the offline side, none with a run of its own:

* *Extraction.* Checkpoints of a document without Articles (`SP_` chunks) are never
  found again; normalization stamps older rows with the current prompt version;
  without symbolic links a publication is file by file, contrary to
  `artifact_store.py:40-42`, so that readers may take a mixture of two runs as
  ready (`ReadyIsOneRun` says what holds where aliases are links, and only there); a row of another model blocks every later run until it is
  removed by hand; archiving moves relative links, so the archived counts are 0; the
  label kept for an entity is that of the Article that finished last; `--retry-failed`
  also repeats documents that succeeded; two batch processes lose each other's ledger
  entries.
* *Structure.* A quotation in a Point extends the Point and not its Clause
  (`hierarchy_parser.py:533-543`); a capital line after an untitled Chapter is taken as
  its title (`:679-684`), so that an Article or Section heading in capitals is lost there
  (`TakenAsTitle`, which `ParentIsNearest` requires of every heading that is lost); `pending_article_title` (`:812-818`) is never set; a bare "1."
  followed by Points leaves an empty Clause and refuses the document; the second Section of one number is registered under an id
  that is never written; `infer_source_effective_from` may raise outside the `try`.
* *Records.* A diagram relation that is accepted names another Document, which the
  payload does not contain, so the document is silently loaded with its structure only;
  an entity slug may equal the issuer's; the threshold 0.8 is reached by rounding;
  several accepted targets of one AMENDS or REPEALS make
  `validate_provider_temporal_candidates` raise (`:71-77`); a citation superseded by a
  rule bundle that is then sent to review is lost; `parse` of a folder does not rebuild
  candidates, `batch-parse` does; a candidate whose host Article is unknown aborts the
  extraction; Plan 22 (470-472) lets the owner of the text govern a candidate's source,
  `provider_relation_candidates.py:401-432` takes the unit of the link;
  `extraction_validator.py` is not called by the orchestrator.
* *Load.* `--skip-existing` compares the raw document code with graph ids and takes a
  half-written document as loaded; a rewrite clears the vectors; `batch-ingest-all` stops at the first failing write; relations are matched
  by id without label, over all documents; two processes writing one document are not
  protected from each other.
* *History.* Rename and chat also work on a soft-deleted conversation, a generated
  title replaces a rename made while it was derived, and late list or detail responses
  fill the page of the next user (`apps/frontend`, `page.tsx:134`).

## 6. Not modelled

Text recognition (the patterns that say what a line, a citation or an anaphora is,
extraction prompts, quote matching), ranking and embedding arithmetic, the corpus-wide
registry, query plan parsing, observability, the document browser, crawlers, evaluation
and reports, generated and vendored files: pure functions of text, read-only or
offline measurement, with no state that order or failure could damage. The frontend is
not modelled; what it sends again after an abort or a timeout is a request of
`ConversationTurn`. Password hashes, signatures and token formats are abstracted to
"valid or not".

Advisory-lock key collisions, the loss of a session lock when a driver operation is
cancelled, and several backend processes are outside the models (the service runs as
one uvicorn process). Debug traces are written after the turn and change nothing of it.
In the reconciliation, the provider temporal relations written after the loop, the
order of a bundle's targets, the document write (`GraphLoad`), which merges the REFERS_TO
edges of LOCAL bundles under the same bundle ids, `clear-database`, and a transaction that commits after its client has given
up the lock. Of `main.py`, the review, report, inspection and schema commands.

## 7. Plan

Done: the chat turn with its abstract ledger and proofs, the conversation context, the
history and accounts, the runner, the composition root, answer generation, the
structure parser and its ids, extraction with publication, relation records, the graph
load, reference reconciliation; proofs about nine of the
eleven state machines, the graph load last.

Proofs worth having next: what a line of the parser keeps of the nesting of open groups.

Worth modelling next: `RetrievalRuntime` (routing with fail-closed dates, capability
checks, planned paths, negative validity; fusion and version resolution as operators
against reference definitions), the provider temporal writer, the crawlers' resume.
