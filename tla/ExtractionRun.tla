---------------------------- MODULE ExtractionRun ----------------------------
(***************************************************************************)
(* Semantic extraction of one document (run_pipeline) by the commands      *)
(* extract, normalize-extraction and batch-extract.  Articles go to a pool *)
(* of workers through a sliding window; each finished Article is put into  *)
(* the checkpoint file at once; when all are in, the decision artifacts    *)
(* are staged and published behind stable aliases.  The process may die    *)
(* between any two steps, and what it left on disk is what the next run,   *)
(* the readiness gate and the batch ledger go by.                          *)
(*                                                                         *)
(* Abstractions.  A checkpoint row keeps what decides its reuse (the text  *)
(* and the prompt version it was made from), the model that answered and   *)
(* the type the answer gives to one entity that every Article mentions.    *)
(* What becomes of the extracted relations is in RelationRecords.  The     *)
(* seven artifact files are three: those that archive-extraction moves     *)
(* (records, entity index) and the one it leaves (extraction_run.json).    *)
(* Parsing, a new prompt and another served model happen between runs, the *)
(* model also during one.                                                  *)
(***************************************************************************)
EXTENDS Naturals, Sequences, FiniteSets

CONSTANTS
    N,            \* Articles of the document, in document order
    MaxWorkers,   \* settings.extraction_max_workers
    MaxAttempts,  \* stop_after_attempt of the provider
    Smoke,        \* Articles of a smoke extraction (--articles)
    Models,       \* models a provider may report as resolved_model
    Types,        \* ontology types of a semantic entity
    Setups,       \* documents and platforms to start from: [synthetic, symlinks,
                  \* legacy, provider], legacy for plain files of an older version
    Link,         \* an alias that is a symbolic link through the pointer
    MaxRuns,      \* bound: runs started
    MaxChanges    \* bound: events around the runs (another text, prompt or
                  \* model, an archived set, a batch process that reads)

Articles == 1..N

ASSUME ExtractionAssumption ==
    /\ N \in Nat \ {0} /\ MaxWorkers \in Nat \ {0} /\ MaxAttempts \in Nat \ {0}
    /\ Smoke \subseteq Articles /\ Smoke # {}
    /\ Models # {} /\ Types # {} /\ "none" \notin Types
    /\ Link \notin Nat
    /\ MaxRuns \in Nat /\ MaxChanges \in Nat

\* ACTIVE_ARTIFACT_NAMES
NameOrder == <<"records", "entity_index", "extraction_run">>
Names == {NameOrder[i] : i \in DOMAIN NameOrder}

VARIABLES
    text,       \* hierarchy.json: version of each Article's text
    synthetic,  \* the parser found no Article: chunks SP_1, SP_2... stand in
    prompt,     \* PROMPT_VERSION of the installed code
    provider,   \* settings.llm_provider
    served,     \* the model that answers the provider's requests
    rows,       \* article_extractions.jsonl
    blocked,    \* extraction_blocked.json exists
    sets,       \* artifact_sets/: the published sets, in order
    alias,      \* what stands at processed/<doc>/<name>
    pointer,    \* current_extraction: number of a set, 0 when absent
    symlinks,   \* the platform lets the process create symbolic links
    ledger,     \* history["extract"] of the document in batch_progress.json
    other,      \* what another batch process has read of that entry
    run,        \* the command in progress
    work,       \* the pool: state of the worker of each Article
    checkpoints,\* rows in the memory of the run
    merged,     \* entity_index and semantic_type_conflicts of the run
    results,    \* results_by_article of the run
    paid,       \* Articles a provider has answered in the run
    runs, changes

disk == <<rows, blocked, sets, alias, pointer, ledger>>
inputs == <<text, synthetic, prompt, provider, served, symlinks>>
memory == <<checkpoints, merged, results>>
vars == <<text, synthetic, prompt, provider, served, rows, blocked, sets, alias,
          pointer, symlinks, ledger, other, run, work, checkpoints, merged, results, paid,
          runs, changes>>

-----------------------------------------------------------------------------
(* Article checkpoints.                                                    *)

NoRow == [text |-> 0]
Row == [text : Nat \ {0}, prompt : Nat, model : Models, type : Types]

\* exact_match of _load_checkpoints: the fingerprint is taken over the context,
\* the text, the row's own provider and the current prompt version.
ExactMatch(a, r) == r # NoRow /\ r.text = text[a] /\ r.prompt = prompt

\* legacy_match: normalization goes by the content hash alone.
LegacyMatch(a, r) == r # NoRow /\ r.text = text[a]

\* Mutant of LoadCheckpoints: the fingerprint is taken over the configured model.
LoadCheckpointsByModel(legacy) ==
    [a \in Articles |->
        IF ~synthetic /\ rows[a] # NoRow /\ rows[a].model = served
           /\ (ExactMatch(a, rows[a]) \/ (legacy /\ LegacyMatch(a, rows[a])))
        THEN rows[a] ELSE NoRow]

\* _load_checkpoints: contexts exist only for Articles the parser found, so the
\* row of a synthetic chunk is never taken back.
LoadCheckpoints(legacy) ==
    [a \in Articles |->
        IF ~synthetic
           /\ (ExactMatch(a, rows[a]) \/ (legacy /\ LegacyMatch(a, rows[a])))
        THEN rows[a] ELSE NoRow]

\* _checkpoint_row: a reused row is stamped with the current prompt version.
CheckpointRow(a, result) ==
    [text |-> text[a], prompt |-> prompt, model |-> result.model,
     type |-> result.type]

ModelsOf(cps) == {cps[a].model : a \in {b \in Articles : cps[b] # NoRow}}

-----------------------------------------------------------------------------
(* Entity index and artifacts.                                             *)

NoType == "none"
NothingMerged == [index |-> NoType, conflict |-> FALSE, from |-> 0]

\* Mutant of Merge: the last Article wins.
MergeLast(m, a, type) == [m EXCEPT !.index = type, !.from = a]

\* Article a's entry for the entity goes into the run's index: it replaces one of
\* the same type, label included, and from is the Article whose entry stands.
Merge(m, a, type) ==
    IF m.index # NoType /\ m.index # type THEN [m EXCEPT !.conflict = TRUE]
    ELSE IF ~m.conflict THEN [m EXCEPT !.index = type, !.from = a] ELSE m

\* What is published: a conflicted entity is popped from the index.
PublishedIndex(m) == IF m.conflict THEN NoType ELSE m.index

\* The set that readers of <name> get, 0 when they get nothing.  An alias is
\* absent (0), a symbolic link through the pointer, or a plain file that holds
\* the contents of one set; set 1 is what a document published before there
\* were artifact sets.
Read(name) == IF alias[name] = Link THEN pointer ELSE alias[name]

\* validate_extraction_readiness
Ready ==
    /\ ~blocked
    /\ Read("extraction_run") # 0 => sets[Read("extraction_run")].complete
    /\ pointer # 0 => Read("extraction_run") # 0
    /\ Read("records") # 0 /\ Read("entity_index") # 0
    /\ sets[Read("entity_index")].index # NoType

-----------------------------------------------------------------------------
Idle == [at |-> "idle"]
NoWork == [a \in Articles |-> Idle]
Off == [pc |-> "off", mode |-> "none", sel |-> {}, todo |-> {}, fate |-> "none"]
Legacy == [complete |-> TRUE, index |-> CHOOSE t \in Types : TRUE,
           archived |-> FALSE]

Init ==
    /\ text = [a \in Articles |-> 1] /\ prompt = 1
    /\ served = CHOOSE m \in Models : TRUE
    /\ rows = [a \in Articles |-> NoRow]
    /\ blocked = FALSE
    /\ sets = <<Legacy>> /\ pointer = 0
    /\ \E s \in Setups :
          /\ synthetic = s.synthetic /\ symlinks = s.symlinks
          /\ provider = s.provider
          /\ alias = [n \in Names |-> IF s.legacy THEN 1 ELSE 0]
    /\ ledger = "none" /\ other = "unread"
    /\ run = Off /\ work = NoWork
    /\ checkpoints = [a \in Articles |-> NoRow]
    /\ merged = NothingMerged /\ results = <<>> /\ paid = {}
    /\ runs = 0 /\ changes = 0

At(pc) == run.pc = pc

\* The process, or run_pipeline, is gone.
Forget ==
    /\ checkpoints' = [a \in Articles |-> NoRow]
    /\ merged' = NothingMerged /\ results' = <<>> /\ paid' = {}

Goto(pc) == run' = [run EXCEPT !.pc = pc]

\* run_pipeline returns or raises; batch-extract still records the outcome.
Leave(fate) ==
    /\ run' = IF run.mode = "batch" THEN [Off EXCEPT !.pc = "record", !.fate = fate]
              ELSE Off
    /\ Forget

-----------------------------------------------------------------------------
(* Starting a run.                                                         *)

\* filter_documents_for_step, and a missing extract.jsonl makes it pending again.
Pending(retryFailed) ==
    ledger = "none" \/ retryFailed \/ Read("records") = 0

Selections == {Articles, Smoke}

\* The first MaxWorkers Articles of a selection in document order, and the others.
Window(S) == {a \in S : Cardinality({b \in S : b < a}) < MaxWorkers}
After(S) == S \ Window(S)

Queued(a, cps) == [at |-> "queued", row |-> cps[a]]

\* The next of the Articles to submit, in document order.
Upcoming(todo) == CHOOSE a \in todo : \A b \in todo : a <= b

\* submit_next: it enters the pool with its checkpoint.
Submitted(w, todo, cps) ==
    IF todo = {} THEN w
    ELSE [w EXCEPT ![Upcoming(todo)] = Queued(Upcoming(todo), cps)]

Drop(todo) == IF todo = {} THEN todo ELSE todo \ {Upcoming(todo)}

\* normalize-extraction runs without the provider.
ProviderCallsAllowed(mode) == mode # "normalize"

\* A full `extract' is a batch-extract that ends without a ledger entry, as one does
\* that dies before Record; `extract' itself is taken for smoke subsets.
\* run_pipeline up to the pool: selection, checkpoints, and the refusal of a
\* normalization that has an Article without one.
Start(mode, sel) ==
    /\ At("off") /\ runs < MaxRuns
    /\ mode = "batch" => sel = Articles /\ \E retry \in BOOLEAN : Pending(retry)
    /\ mode = "extract" => sel = Smoke
    /\ synthetic => sel = Articles
    /\ checkpoints' = LoadCheckpoints(~ProviderCallsAllowed(mode))
    /\ ~ProviderCallsAllowed(mode) => \A a \in sel : checkpoints'[a] # NoRow
    /\ work' = [a \in Articles |->
                   IF a \in Window(sel) THEN Queued(a, checkpoints') ELSE Idle]
    /\ run' = [pc |-> "pool", mode |-> mode, sel |-> sel, todo |-> After(sel),
               fate |-> "none"]
    /\ merged' = NothingMerged
    /\ results' = [a \in Articles |-> NoType]
    /\ paid' = {}
    /\ runs' = runs + 1
    /\ UNCHANGED <<inputs, disk, other, changes>>

\* A document batch-extract cannot even start on: no hierarchy, no usable source
\* span, a duplicated checkpoint row.  Nothing is marked as blocked.
Refuse ==
    /\ At("off") /\ runs < MaxRuns
    /\ \E retry \in BOOLEAN : Pending(retry)
    /\ run' = [Off EXCEPT !.pc = "record", !.fate = "FAILED"]
    /\ runs' = runs + 1
    /\ UNCHANGED <<inputs, disk, other, work, memory, paid, changes>>

-----------------------------------------------------------------------------
(* Workers.                                                                *)

Worker(a, state) ==
    /\ work' = [work EXCEPT ![a] = state]
    /\ UNCHANGED <<inputs, disk, other, run, memory, runs, changes>>

\* process_article over the result: the future returns its row, or raises because
\* the entities or the checkpoint are refused.
Processed(a, result) ==
    \/ Worker(a, [at |-> "done", row |-> CheckpointRow(a, result)])
    \/ Worker(a, [at |-> "failed"])

\* _process_article_worker: the checkpoint if there is one, else extract_article.
Pick(a) ==
    /\ work[a].at = "queued"
    /\ \/ work[a].row # NoRow /\ Processed(a, work[a].row)
       \/ work[a].row = NoRow /\ Worker(a, [at |-> "calling", try |-> 1])
    /\ UNCHANGED paid

\* Both passes are answered, the entities of the first being normalized for the
\* prompt of the second; resolved_model is that of the last response.
Answer(a) ==
    /\ work[a].at = "calling"
    /\ \E t \in Types : Processed(a, [model |-> served, type |-> t])
    /\ paid' = paid \cup {a}

\* Mutant of Retry: the attempts are counted anew.
RetryForever(a) ==
    /\ work[a].at = "calling"
    /\ Worker(a, [work[a] EXCEPT !.try = IF @ < MaxAttempts THEN @ + 1 ELSE 1])
    /\ UNCHANGED paid

\* What can go wrong in a request, and what each provider makes of it.
Faults == {"rate_limit", "quota", "auth", "transport", "garbled", "empty"}

\* _raise_classified_provider_error and _validate_structured_response
GeminiClass(fault) == IF fault \in {"quota", "auth"} THEN "fatal" ELSE "retry"

\* Structured output falls back to JSON mode; what the fallback raises is retried
\* when it is an APIError, not when the answer cannot be read.
OpenAIClass(fault) == IF fault \in {"garbled", "empty"} THEN "fatal" ELSE "retry"

\* HTTP errors and unreadable JSON are retried, an empty answer is not.
OllamaClass(fault) == IF fault = "empty" THEN "fatal" ELSE "retry"

\* get_provider
Class(fault) ==
    CASE provider = "gemini" -> GeminiClass(fault)
      [] provider = "ollama" -> OllamaClass(fault)
      [] OTHER -> OpenAIClass(fault)

\* A retryable error: the request is made again.
Retry(a) ==
    /\ work[a].at = "calling" /\ work[a].try < MaxAttempts
    /\ \E f \in Faults : Class(f) = "retry"
    /\ Worker(a, [work[a] EXCEPT !.try = @ + 1])
    /\ UNCHANGED paid

\* A fatal error, or the last attempt of a retryable one.
WorkerFails(a) ==
    /\ work[a].at = "calling"
    /\ \E f \in Faults : Class(f) = "fatal" \/ work[a].try = MaxAttempts
    /\ Worker(a, [at |-> "failed"])
    /\ UNCHANGED paid

-----------------------------------------------------------------------------
(* The main thread, one finished future at a time.                         *)

\* _write_extraction_blocked and the exception; executor.shutdown then cancels
\* what no thread has picked up and waits for the rest.
Stop(a) ==
    /\ blocked' = TRUE
    /\ work' = [b \in Articles |->
                   IF b = a \/ work[b].at = "queued" THEN Idle ELSE work[b]]
    /\ Goto("shutdown")
    /\ UNCHANGED <<inputs, rows, sets, alias, pointer, ledger, other, checkpoints,
                   results, paid, runs, changes>>

Blocked(a) ==
    /\ At("pool") /\ work[a].at = "failed"
    /\ Stop(a) /\ UNCHANGED merged

\* "Resolved model changed within extraction checkpoints"
ModelChanged(a) ==
    /\ At("pool") /\ work[a].at = "done"
    /\ ModelsOf(checkpoints) # {}
    /\ work[a].row.model \notin ModelsOf(checkpoints)
    /\ merged' = Merge(merged, a, work[a].row.type)
    /\ Stop(a)

AbsorbLater(a) ==
    /\ At("pool") /\ work[a].at = "done"
    /\ ModelsOf(checkpoints) # {} => work[a].row.model \in ModelsOf(checkpoints)
    /\ results' = [results EXCEPT ![a] = work[a].row.type]
    /\ merged' = Merge(merged, a, work[a].row.type)
    /\ checkpoints' = [checkpoints EXCEPT ![a] = work[a].row]
    /\ work' = Submitted([work EXCEPT ![a] = Idle], run.todo, checkpoints')
    /\ run' = [run EXCEPT !.todo = Drop(run.todo)]
    /\ UNCHANGED <<inputs, rows, blocked, sets, alias, pointer, ledger, other, paid,
                   runs, changes>>

\* The Article is merged, the checkpoint file replaced, the next one submitted.
Absorb(a) ==
    /\ At("pool") /\ work[a].at = "done"
    /\ ModelsOf(checkpoints) # {} => work[a].row.model \in ModelsOf(checkpoints)
    /\ results' = [results EXCEPT ![a] = work[a].row.type]
    /\ merged' = Merge(merged, a, work[a].row.type)
    /\ checkpoints' = [checkpoints EXCEPT ![a] = work[a].row]
    /\ rows' = checkpoints'
    /\ work' = Submitted([work EXCEPT ![a] = Idle], run.todo, checkpoints')
    /\ run' = [run EXCEPT !.todo = Drop(run.todo)]
    /\ UNCHANGED <<inputs, blocked, sets, alias, pointer, ledger, other, paid, runs,
                   changes>>

\* No thread runs any more: the exception leaves run_pipeline.
Shutdown ==
    /\ At("shutdown")
    /\ \A a \in Articles : work[a].at \in {"idle", "done", "failed"}
    /\ work' = NoWork
    /\ Leave("FAILED")
    /\ UNCHANGED <<inputs, disk, other, runs, changes>>

-----------------------------------------------------------------------------
(* Publication (artifact_store.py).                                        *)

\* The seven files are written to the staging directory, which is renamed.
Stage ==
    /\ At("pool") /\ work = NoWork
    /\ sets' = Append(sets, [complete |-> run.sel = Articles,
                             index |-> PublishedIndex(merged),
                             archived |-> FALSE])
    /\ Goto("publish")
    /\ UNCHANGED <<inputs, rows, blocked, alias, pointer, ledger, other, work, memory,
                   paid, runs, changes>>

Newest == Len(sets)

\* Mutant of Installed: every alias is a copy.
InstalledCopy == Newest

\* What a run leaves under an alias: a link, or without links a copy.
Installed == IF symlinks THEN Link ELSE Newest

\* The next alias is replaced.
InstallAlias(i) ==
    /\ At("publish") /\ alias[NameOrder[i]] # Installed
    /\ \A j \in 1..(i - 1) : alias[NameOrder[j]] = Installed
    /\ alias' = [alias EXCEPT ![NameOrder[i]] = Installed]
    /\ UNCHANGED <<inputs, rows, blocked, sets, pointer, ledger, other, run, work,
                   memory, paid, runs, changes>>

\* The pointer is replaced last.
SwitchPointer ==
    /\ At("publish") /\ \A n \in Names : alias[n] = Installed
    /\ pointer' = Newest
    /\ Goto("unblock")
    /\ UNCHANGED <<inputs, rows, blocked, sets, alias, ledger, other, work, memory,
                   paid, runs, changes>>

\* Any other OSError; what has been replaced stays.
PublishFails ==
    /\ At("publish")
    /\ Leave("FAILED")
    /\ UNCHANGED <<inputs, disk, other, work, runs, changes>>

Unblock ==
    /\ At("unblock")
    /\ blocked' = FALSE
    /\ Leave("SUCCESS")
    /\ UNCHANGED <<inputs, rows, sets, alias, pointer, ledger, other, work, runs,
                   changes>>

-----------------------------------------------------------------------------
(* The batch ledger, other commands, faults.                               *)

\* record_doc_status: read, change and replace under the lock of this process.
Record ==
    /\ At("record")
    /\ ledger' = run.fate
    /\ run' = Off
    /\ UNCHANGED <<inputs, rows, blocked, sets, alias, pointer, other, work, memory,
                   paid, runs, changes>>

\* Another batch process updates its own documents in the same file: it puts back
\* the entry of this document as it has read it.
OtherReads ==
    /\ other = "unread" /\ changes < MaxChanges
    /\ other' = ledger
    /\ changes' = changes + 1
    /\ UNCHANGED <<inputs, disk, run, work, memory, paid, runs>>

OtherWrites ==
    /\ other # "unread"
    /\ ledger' = other
    /\ other' = "unread"
    /\ UNCHANGED <<inputs, rows, blocked, sets, alias, pointer, run, work, memory,
                   paid, runs, changes>>

\* archive-extraction moves the decision artifacts away, not extraction_run.json.
Archive ==
    /\ At("off") /\ changes < MaxChanges
    /\ \E n \in Names \ {"extraction_run"} : Read(n) # 0
    /\ alias' = [n \in Names |->
                    IF n # "extraction_run" /\ Read(n) # 0 THEN 0 ELSE alias[n]]
    /\ sets' = [k \in DOMAIN sets |->
                   [sets[k] EXCEPT !.archived = @ \/ k = Read("records")]]
    /\ changes' = changes + 1
    /\ UNCHANGED <<inputs, rows, blocked, pointer, ledger, other, run, work,
                   memory, paid, runs>>

\* An Article is parsed anew, a new prompt is installed.
Reparse(a) ==
    /\ At("off") /\ changes < MaxChanges
    /\ text' = [text EXCEPT ![a] = @ + 1]
    /\ changes' = changes + 1
    /\ UNCHANGED <<synthetic, prompt, provider, served, symlinks, disk, other, run, work,
                   memory, paid, runs>>

NewPrompt ==
    /\ At("off") /\ changes < MaxChanges
    /\ prompt' = prompt + 1
    /\ changes' = changes + 1
    /\ UNCHANGED <<text, synthetic, provider, served, symlinks, disk, other, run, work,
                   memory, paid, runs>>

NewModel ==
    /\ changes < MaxChanges
    /\ served' \in Models \ {served}
    /\ changes' = changes + 1
    /\ UNCHANGED <<text, synthetic, prompt, provider, symlinks, disk, other, run, work,
                   memory, paid, runs>>

Crash ==
    /\ run.pc # "off"
    /\ run' = Off /\ work' = NoWork /\ Forget
    /\ UNCHANGED <<inputs, disk, other, runs, changes>>

-----------------------------------------------------------------------------
WorkerStep(a) ==
    Pick(a) \/ Answer(a) \/ Retry(a) \/ WorkerFails(a)

MainStep ==
    \/ \E a \in Articles : Blocked(a) \/ ModelChanged(a) \/ Absorb(a)
    \/ Shutdown \/ Stage
    \/ \E i \in DOMAIN NameOrder : InstallAlias(i)
    \/ SwitchPointer \/ PublishFails \/ Unblock \/ Record

Next ==
    \/ \E mode \in {"extract", "normalize", "batch"}, sel \in Selections :
          Start(mode, sel)
    \/ Refuse
    \/ \E a \in Articles : WorkerStep(a) \/ Reparse(a)
    \/ MainStep
    \/ OtherReads \/ OtherWrites \/ Archive \/ NewPrompt \/ NewModel \/ Crash

\* The process as a whole goes on: some thread of it that can take a step does.
Spec == Init /\ [][Next]_vars
        /\ WF_vars(MainStep \/ \E a \in Articles : WorkerStep(a))

-----------------------------------------------------------------------------
(* Properties.                                                             *)

\* All Articles in the checkpoint file were answered by one model, whatever was
\* reused, interrupted or served in between.
OneModel == Cardinality(ModelsOf(rows)) <= 1

\* An Article with a checkpoint that is current is never sent to a provider
\* again, after crashes, partial runs and normalizations.
PaidOnce ==
    [][\A a \in Articles :
          work[a].at = "queued" /\ work'[a].at = "calling"
             => synthetic \/ ~ExactMatch(a, rows[a])]_vars

\* However a run ends, at most one window of answered Articles is lost: every
\* other one is on disk.
LossIsBounded ==
    run.pc # "off" =>
        Cardinality({a \in paid : ~ExactMatch(a, rows[a])}) <= MaxWorkers

\* The type an entity is published with does not depend on the order in which
\* Articles are finished: it is the one all Articles of the run agree on, and an
\* entity they disagree on is not published at all.
TypeIsAgreed ==
    run.pc \in {"pool", "publish"} =>
        LET types == {results[a] : a \in Articles} \ {NoType}
        IN PublishedIndex(merged) = IF Cardinality(types) = 1
                                    THEN CHOOSE t \in types : TRUE ELSE NoType

\* The entry, and so the label, that is published with that type is the one of an
\* Article of the run that gave this type.  Which of them does depend on the order:
\* the one that was finished last.
EntryIsOfAnAgreeingArticle ==
    run.pc \in {"pool", "publish"} /\ PublishedIndex(merged) # NoType =>
        merged.from \in Articles /\ results[merged.from] = PublishedIndex(merged)

\* Which entities a run publishes, with which types and from which model, does not
\* depend on the order its Articles finish in.  Their labels do: of those the
\* Articles of the run gave, any may be kept.
TypesAreOrderFree == OneModel /\ TypeIsAgreed /\ EntryIsOfAnAgreeingArticle

\* Where aliases are links, what passes the readiness gate is the whole of one
\* complete run, at every moment of a publication and after any crash in it; and
\* the ledger reports success only for a document that has a published set, also
\* when another process has put back an old entry.
ReadyIsOneRun ==
    /\ symlinks /\ Ready =>
          \E k \in DOMAIN sets : sets[k].complete /\ \A n \in Names : Read(n) = k
    /\ ledger = "SUCCESS" => pointer # 0

\* Every command ends: retries are bounded and a failure does not leave the main
\* thread waiting.
ExtractionEnds == run.pc # "off" ~> run.pc = "off"
=============================================================================
