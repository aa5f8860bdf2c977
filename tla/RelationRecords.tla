--------------------------- MODULE RelationRecords ---------------------------
(***************************************************************************)
(* From links and LLM answers to the edges of a document's graph payload.  *)
(* batch-parse leaves the provider candidates of a document; run_pipeline  *)
(* turns the Articles' answers, the references found by rule, the          *)
(* candidates and the diagram into records, judges each of them, decides,  *)
(* and keeps bundles whole; build_graph_payload makes nodes and edges of   *)
(* what was accepted and the ontology validator takes the payload or       *)
(* refuses all of it, in which case the document is loaded with its        *)
(* structure only.                                                         *)
(*                                                                         *)
(* Abstractions.  An Article's answer is the type it gives to semantic     *)
(* entities and a set of relations; how answers are obtained and kept is   *)
(* in ExtractionRun.  A citation is a model value; overlap of texts is     *)
(* equality.  Records are pydantic objects before they are judged, so the  *)
(* schema check always passes.  The metadata of a parsed document give its *)
(* effective date.  Properties of an edge are those that a rule looks at.  *)
(***************************************************************************)
EXTENDS ProviderCandidates

CONSTANTS
    Articles,    \* the host's Articles with a text, in document order
    Answers,     \* what the LLM may answer: [article, types, relations]
    References,  \* what the rule resolver may find in a text: sets of references
    Links,       \* what may be in references.jsonl of the host: sets of mentions
    Diagrams,    \* what may be in diagram.json: sets of [category, target]
    IssuerId,    \* the slug of the issuing body's name
    Manifest,    \* Documents that the curated manifest names
    MaxBatches   \* bound: batch-parse commands

\* Resolution methods of _rule_reference_records
ByRule == {"RULE", "ENTITY_LINKING"}

\* References and mentions of one text have names of their own.
ASSUME RecordsAssumption ==
    /\ MaxBatches \in Nat
    /\ IssuerId \notin DOMAIN HostTypes
    /\ \A i \in DOMAIN Articles : Articles[i] \in DOMAIN HostTypes
    /\ \A answer \in Answers : \A x \in answer.relations : x.evidence \in Nat
    /\ \A refs \in References : \A x, y \in refs :
          /\ x.method \in ByRule /\ IsFiniteSet(x.targets)
          /\ x.id \in Nat /\ (x.id = y.id => x = y)
    /\ \A ms \in Links : \A m, n \in ms :
          /\ IsFiniteSet(m.items)
          /\ m.pos \in Nat /\ (m.pos = n.pos => m = n)

VARIABLES
    links,    \* references.jsonl of the host
    corpus,   \* what is on disk of the host and of the target
    sidecar,  \* provider_relation_candidates.jsonl of the host
    ledger,   \* history["parse"] of both documents
    batch,    \* the batch-parse in progress
    batches,  \* batch-parse commands started
    pc,       \* where run_pipeline is
    todo,     \* Articles whose records are still to be added
    index,    \* entity_index
    conflicts,\* semantic_type_conflicts
    records,  \* all_records
    payload   \* what is handed to the graph writer

vars == <<links, corpus, sidecar, ledger, batch, batches, pc, todo, index,
          conflicts, records, payload>>
parsing == <<corpus, sidecar, ledger, batch, batches>>
Docs == {Host, Target}

-----------------------------------------------------------------------------
(* Judging a record.                                                       *)

Structural == {"Appendix", "Article", "Clause", "Point"}
Amendable == {"Document", "Article", "Clause", "Point"}

\* valid_pairs, allowed_head and allowed_tail of CONSTRAINTS
AllowedPair(rel, ht, tt) ==
    CASE rel \in {"AMENDS", "REPEALS"} -> {ht, tt} \subseteq Amendable
      [] rel \in {"REPLACES", "GUIDES"} -> {ht, tt} = {"Document"}
      [] rel = "REFERS_TO" ->
            /\ ht \in Structural
            /\ tt \in Structural \cup {"Document", "Part", "Chapter", "Section",
                                       "Subsection"}
      [] rel = "DEFINES" -> ht \in {"Article", "Clause"} /\ tt = "LegalConcept"
      [] rel = "REGULATES" -> /\ ht \in {"Article", "Clause"}
                              /\ tt \in {"LegalSubject", "LegalAction"}
      [] rel = "REQUIRES" -> ht = "LegalSubject" /\ tt = "LegalConcept"
      [] OTHER -> FALSE

Temporal == {"AMENDS", "REPEALS", "REPLACES"}

\* validate_relation: no self-loop but of references, a date for temporal edges,
\* the pair of types (the whitelist of GUIDES is taken to hold).
OntologyValid(ht, rel, tt, head, tail, hasDate) ==
    /\ rel # "REFERS_TO" => head # tail
    /\ rel \in Temporal => hasDate
    /\ AllowedPair(rel, ht, tt)

\* validate_record_relation, given that the ontology holds: the review reason of
\* an unknown endpoint, or none where it is a plain error.
ConsistencyReview(rel) == rel \in {"REFERS_TO", "GUIDES"} \cup Temporal

\* What is known of a record before it is judged; ord is its place in all_records
\* as far as a later record may replace an earlier one.
Raw(via, head, rel, tail) ==
    [via |-> via, head |-> head, rel |-> rel, tail |-> tail, ord |-> 0, cite |-> "",
     range |-> FALSE, article |-> NoUnit, bundle |-> <<>>, count |-> 1,
     evidence |-> 0, deferred |-> FALSE, superseded |-> FALSE, blocked |-> FALSE,
     ontology |-> FALSE, consistent |-> FALSE, review |-> FALSE,
     decision |-> "none"]

\* A record with its verdicts; review: it has a review reason.
Judged(r, ht, tt, known, dated) ==
    LET ontology == OntologyValid(ht, r.rel, tt, r.head, r.tail, dated)
        missing == {r.head, r.tail} \ known # {}
    IN  [r EXCEPT !.ontology = ontology, !.consistent = ontology /\ ~missing,
                  !.review = ontology /\ missing /\ ConsistencyReview(r.rel)]

-----------------------------------------------------------------------------
(* Records of the Articles (process_article).                              *)

Semantic == {"LegalConcept", "LegalSubject", "LegalAction"}
SemanticOf(types) == {e \in DOMAIN types : types[e] \in Semantic}

\* _resolve_endpoint: the Article's own entities, the host's units, then what the
\* answer calls a Document; anything else is rejected.
Resolvable(raw, types) == raw \in DOMAIN types \cup Registered
EndpointType(raw, types) ==
    IF raw \in SemanticOf(types) \/ raw \notin Registered THEN types[raw]
    ELSE HostTypes[raw]

\* An LLM may not build structure, and both endpoints must be resolvable.
ArticleRecord(a, types, x) ==
    LET r == [Raw("LLM", x.head, x.rel, x.tail) EXCEPT
                 !.article = a, !.cite = x.cite, !.evidence = x.evidence]
    IN  IF x.rel = "CONTAINS" \/ ~Resolvable(x.head, types)
           \/ ~Resolvable(x.tail, types)
        THEN r
        ELSE Judged(r, EndpointType(x.head, types), EndpointType(x.tail, types),
                    Registered \cup SemanticOf(types), TRUE)

\* The index keeps the first type of an entity; another one is a conflict.
Merge(ix, types) ==
    [e \in DOMAIN ix \cup SemanticOf(types) |->
        IF e \in DOMAIN ix THEN ix[e] ELSE types[e]]
Clashes(ix, types) ==
    {e \in DOMAIN ix \cap SemanticOf(types) : ix[e] # types[e]}

-----------------------------------------------------------------------------
(* Records found by rule (_rule_reference_records).                        *)

\* provider_owned_source_spans: spans of every candidate, whatever its status.
Owned == {c.cite : c \in sidecar}

\* A reference to other units is a bundle of its targets, one record for each.
ReferenceRecord(ref, t) ==
    Judged([Raw(ref.method, ref.source, "REFERS_TO", t) EXCEPT
               !.cite = ref.cite, !.range = Cardinality(ref.targets) > 1,
               !.bundle = <<"reference", ref.id>>, !.ord = ref.id,
               !.count = Cardinality(ref.targets)],
           TypeOf(ref.source), TypeOf(t), Registered, TRUE)

ReferenceRecords(ref) == {ReferenceRecord(ref, t) : t \in ref.targets}

\* is_self_reference: its one target is the unit that cites.
SelfReference(ref) == ref.targets = {ref.source}

\* Only LOCAL, resolved references to other units that no candidate owns
RuleRecords(refs) ==
    UNION {ReferenceRecords(ref) : ref \in {x \in refs :
              /\ x.status = "RESOLVED" /\ x.scope = "LOCAL" /\ ~SelfReference(x)
              /\ x.cite \notin Owned}}

\* _mark_llm_relations_superseded_by_rules: same source and same citation.
Supersede(rs) ==
    {[r EXCEPT !.superseded =
        /\ r.via = "LLM" /\ r.rel = "REFERS_TO"
        /\ \E d \in rs : d.via \in ByRule /\ d.head = r.head
                         /\ d.cite = r.cite] : r \in rs}

-----------------------------------------------------------------------------
(* Records of provider candidates (build_provider_relation_records).       *)

Supported(c) ==
    c.status = "RESOLVED" /\ c.rel \in {"AMENDS", "REPEALS", "REFERS_TO"}

\* _host_article_number: quoted text of the target has no Article in the host.
HostArticleKnown(c) ==
    LET u == IF c.host = NoUnit THEN c.src ELSE c.host
    IN  u \in DOMAIN HostTypes /\ HostTypes[u] \in {"Article", "Clause", "Point"}

\* A candidate whose host Article is not found stops the extraction, unless it is
\* a projected reference.
Stops(c) ==
    Supported(c) /\ ~HostArticleKnown(c) /\ ~(c.rel = "REFERS_TO" /\ c.projected)

\* What the single document's payload cannot hold waits for reconciliation.
Deferred(c) == c.rel # "REFERS_TO" \/ ~({c.src} \cup c.targets \subseteq Registered)

CandidateRecord(c, t) ==
    Judged([Raw(IF c.rel = "REFERS_TO" THEN "ENTITY_LINKING" ELSE "PROVIDER_HTML",
                c.src, c.rel, t) EXCEPT
               !.cite = c.cite, !.range = Cardinality(c.targets) > 1,
               !.bundle = <<"candidate", c.id>>, !.ord = 100 + c.id,
               !.count = Cardinality(c.targets), !.deferred = Deferred(c)],
           TypeOf(c.src), TypeOf(t), Registered \cup c.targets \cup {c.src}, TRUE)

CandidateRecords(c) == {CandidateRecord(c, t) : t \in c.targets}

ProviderRecords ==
    UNION {CandidateRecords(c) : c \in {x \in sidecar :
              Supported(x) /\ HostArticleKnown(x)}}

-----------------------------------------------------------------------------
(* Records of the diagram.                                                 *)

\* DOCUMENT_RELATION_MAP; other categories are unsupported or unknown.
Categories ==
    [amended |-> [rel |-> "AMENDS", out |-> TRUE],
     amending |-> [rel |-> "AMENDS", out |-> FALSE],
     replaced |-> [rel |-> "REPLACES", out |-> TRUE],
     replacing |-> [rel |-> "REPLACES", out |-> FALSE],
     repealed |-> [rel |-> "REPEALS", out |-> TRUE],
     repealing |-> [rel |-> "REPEALS", out |-> FALSE],
     guides |-> [rel |-> "GUIDES", out |-> TRUE],
     guided |-> [rel |-> "GUIDES", out |-> FALSE]]

\* parse_diagram, and resolve_diagram_relations without its self-loops
Drawn(d) ==
    {i \in d : i.category \in DOMAIN Categories /\ i.target # HostId}

\* build_diagram_records
DiagramRaw(i) ==
    LET c == Categories[i.category]
    IN  IF c.out THEN Raw("DIAGRAM", HostId, c.rel, i.target)
        ELSE Raw("DIAGRAM", i.target, c.rel, HostId)

\* _validate_diagram_records: an unresolved target, or a temporal relation that
\* another document acts in, blocks.  The acting document is dated when it is the
\* host.
DiagramRecord(i) ==
    LET r == DiagramRaw(i)
        dated == r.head = HostId
    IN  IF i.target \notin Manifest \/ (r.rel \in Temporal /\ ~dated)
        THEN [r EXCEPT !.blocked = TRUE]
        ELSE Judged(r, "Document", "Document", Manifest \cup {HostId}, dated)

-----------------------------------------------------------------------------
(* Decisions.                                                              *)

\* An endpoint of two types sends a record to review.
Conflicted(r) ==
    IF r.ontology /\ {r.head, r.tail} \cap conflicts # {}
    THEN [r EXCEPT !.consistent = FALSE, !.review = TRUE] ELSE r

\* The five weights, in ten-thousandths, of a record that passed its checks.  In
\* doubles 0.3 + 0.3 + 0.2 * 0 + 0.1 + 0.1 is 0.7999999999999999.
Unsupported == 7999
AutoAccept == 8000

\* Mutant of Score: exact decimal arithmetic.
ScoreInDecimals(evidence) == 8000 + 200 * evidence

\* evidence: tenths of the evidence's words that are in the Article's text
Score(evidence) == Unsupported + 200 * evidence

\* _apply_decision_gate
Decision(r) ==
    IF r.superseded THEN "rejected"
    ELSE IF r.blocked THEN "review"
    ELSE IF ~r.ontology THEN "rejected"
    ELSE IF ~r.consistent THEN IF r.review THEN "review" ELSE "rejected"
    ELSE IF r.via # "LLM" \/ Score(r.evidence) >= AutoAccept THEN "accepted" ELSE "review"

Gated(rs) ==
    {[Conflicted(r) EXCEPT !.decision = Decision(Conflicted(r))] : r \in rs}

\* Mutant of BundleDecision: each record keeps its own decision.
OwnDecision(r, rs) == r.decision

\* _apply_atomic_bundle_decisions: accepted together or not at all.
BundleDecision(r, rs) ==
    LET all == {x.decision : x \in {y \in rs : y.bundle = r.bundle}}
    IN  IF r.bundle = <<>> THEN r.decision
        ELSE IF all = {"accepted"} THEN "accepted"
        ELSE IF "rejected" \in all THEN "rejected" ELSE "review"

Bundled(rs) == {[r EXCEPT !.decision = BundleDecision(r, rs)] : r \in rs}

-----------------------------------------------------------------------------
(* The payload (build_graph_payload, validate_graph_payload).              *)

NoPayload == [mode |-> "none", edges |-> {}]
StructureOnly == [mode |-> "structural", edges |-> {}]

\* Accepted records that are not left to reconciliation.
Local(rs) == {r \in rs : r.decision = "accepted" /\ ~r.deferred}

\* _resolve_endpoint_id: the document's own units, then the entity index.
HasEndpoint(ix, id) == id \in DOMAIN HostTypes \cup DOMAIN ix

\* _add_node: an Issuer keeps its id against a semantic entity.
NodeType(ix, id) ==
    CASE id \in DOMAIN HostTypes -> HostTypes[id]
      [] id = IssuerId -> "Issuer"
      [] OTHER -> ix[id]

\* relation_identity with its discriminator
Identity(r) ==
    <<r.head, r.rel, r.tail,
      IF r.rel = "REFERS_TO" THEN r.cite ELSE "",
      r.rel = "REFERS_TO" /\ r.range,
      IF r.rel = "REQUIRES" THEN r.article ELSE NoUnit>>

\* _add_relation: the last record of an identity stands.
Edges(rs) ==
    {r \in rs : \A x \in rs : Identity(x) = Identity(r) => x.ord <= r.ord}

\* validate_payload_consistency: a bundle has as many edges as it has targets.
BundleComplete(r, es) ==
    r.bundle # <<>> => Cardinality({x \in es : x.bundle = r.bundle}) = r.count

\* The payload can be built, and the validators find nothing.
Takes(ix, rs) ==
    /\ \A r \in rs : HasEndpoint(ix, r.head) /\ HasEndpoint(ix, r.tail)
    /\ \A r \in Edges(rs) :
          /\ AllowedPair(r.rel, NodeType(ix, r.head), NodeType(ix, r.tail))
          /\ BundleComplete(r, Edges(rs))

-----------------------------------------------------------------------------
NoBatch == [at |-> "off", work |-> [d \in Docs |-> "idle"]]

Init ==
    /\ links \in Links
    /\ \E t \in {"absent", "raw"} :
          corpus = [d \in Docs |-> IF d = Host THEN "raw" ELSE t]
    /\ sidecar = {}
    /\ ledger = [d \in Docs |-> "none"]
    /\ batch = NoBatch /\ batches = 0
    /\ pc = "off" /\ todo = Articles
    /\ index = [e \in {} |-> ""] /\ conflicts = {}
    /\ records = {} /\ payload = NoPayload

run == <<pc, todo, index, conflicts, records, payload>>

-----------------------------------------------------------------------------
(* batch-parse.                                                            *)

Free == pc = "off" /\ batch.at \in {"off", "ended"}

\* The other document is crawled.
Crawl ==
    /\ Free /\ corpus[Target] = "absent"
    /\ corpus' = [corpus EXCEPT ![Target] = "raw"]
    /\ batch' = NoBatch
    /\ UNCHANGED <<links, sidecar, ledger, batches, run>>

\* parse --raw-doc-code: the sidecars of other documents are not looked at.
ParseOne(d) ==
    /\ Free /\ corpus[d] # "absent"
    /\ corpus' = [corpus EXCEPT ![d] = "parsed"]
    /\ sidecar' = IF d = Host THEN Candidates(corpus', links) ELSE sidecar
    /\ batch' = NoBatch
    /\ UNCHANGED <<links, ledger, batches, run>>

\* filter_documents_for_step; without pending documents only the candidates are
\* rebuilt.
StartBatch(retryFailed) ==
    /\ Free /\ batches < MaxBatches
    /\ LET pending == {d \in Docs : ledger[d] = "none" \/ retryFailed}
       IN  batch' = [at |-> "run", work |-> [d \in Docs |->
                        IF d \in pending THEN "queued" ELSE "idle"]]
    /\ batches' = batches + 1
    /\ UNCHANGED <<links, corpus, sidecar, ledger, run>>

Work(d, state) == batch' = [batch EXCEPT !.work[d] = state]

\* _write_parse_artifacts, first file
WriteHierarchy(d) ==
    /\ batch.at = "run" /\ batch.work[d] = "queued" /\ corpus[d] # "absent"
    /\ corpus' = [corpus EXCEPT ![d] = "parsed"]
    /\ Work(d, "written")
    /\ UNCHANGED <<links, sidecar, ledger, batches, run>>

\* Second file, over the hierarchies that are there by now.
WriteSidecar(d) ==
    /\ batch.at = "run" /\ batch.work[d] = "written"
    /\ sidecar' = IF d = Host THEN Candidates(corpus, links) ELSE sidecar
    /\ ledger' = [ledger EXCEPT ![d] = "SUCCESS"]
    /\ Work(d, "done")
    /\ UNCHANGED <<links, corpus, batches, run>>

\* The worker returns False (nothing to read, a text that cannot be parsed, a file
\* that cannot be written): no artifact of it is taken back.
ParseFails(d) ==
    /\ batch.at = "run" /\ batch.work[d] \in {"queued", "written"}
    /\ ledger' = [ledger EXCEPT ![d] = "FAILED"]
    /\ Work(d, "done")
    /\ UNCHANGED <<links, corpus, sidecar, batches, run>>

Finished == batch.at = "run" /\ \A d \in Docs : batch.work[d] \in {"idle", "done"}

\* Mutant of Refresh: only documents of this batch are rebuilt.
RefreshPending ==
    /\ Finished
    /\ sidecar' = IF corpus[Host] = "parsed" /\ batch.work[Host] = "done"
                  THEN Candidates(corpus, links) ELSE sidecar
    /\ batch' = [NoBatch EXCEPT !.at = "ended"]
    /\ UNCHANGED <<links, corpus, ledger, batches, run>>

\* _rebuild_provider_candidates_after_batch_parse: every selected document that
\* has a hierarchy, parsed in this batch or before.
Refresh ==
    /\ Finished
    /\ sidecar' = IF corpus[Host] = "parsed" THEN Candidates(corpus, links)
                  ELSE sidecar
    /\ batch' = [NoBatch EXCEPT !.at = "ended"]
    /\ UNCHANGED <<links, corpus, ledger, batches, run>>

\* The process dies, or an exception ends it, before the candidates are rebuilt.
Crash ==
    /\ batch.at = "run"
    /\ batch' = NoBatch
    /\ UNCHANGED <<links, corpus, sidecar, ledger, batches, run>>

-----------------------------------------------------------------------------
(* run_pipeline.                                                           *)

\* Provider records are made first, and may stop the run.  Of the parsing before
\* it only the sidecar is read from here on: the rest is forgotten.
Begin ==
    /\ Free /\ corpus[Host] = "parsed"
    /\ pc' = IF \E c \in sidecar : Stops(c) THEN "stopped" ELSE "articles"
    /\ ledger' = [d \in Docs |-> "none"] /\ batch' = NoBatch /\ batches' = 0
    /\ UNCHANGED <<links, corpus, sidecar, todo, index, conflicts, records, payload>>

\* The records and entities of the next Article in document order.
AddArticle(answer) ==
    /\ pc = "articles" /\ todo # <<>> /\ answer.article = Head(todo)
    /\ records' = records \cup
          {ArticleRecord(answer.article, answer.types, x) : x \in answer.relations}
    /\ conflicts' = conflicts \cup Clashes(index, answer.types)
    /\ index' = Merge(index, answer.types)
    /\ todo' = Tail(todo)
    /\ UNCHANGED <<links, parsing, pc, payload>>

AddRules(refs) ==
    /\ pc = "articles" /\ todo = <<>>
    /\ records' = Supersede(records \cup RuleRecords(refs)) \cup ProviderRecords
    /\ pc' = "diagram"
    /\ UNCHANGED <<links, parsing, todo, index, conflicts, payload>>

AddDiagram(d) ==
    /\ pc = "diagram"
    /\ records' = records \cup {DiagramRecord(i) : i \in Drawn(d)}
    /\ pc' = "decide"
    /\ UNCHANGED <<links, parsing, todo, index, conflicts, payload>>

\* Mutant of Decide: conflicted entities leave the index, their records stay.
DecideUnmarked ==
    /\ pc = "decide"
    /\ index' = [e \in DOMAIN index \ conflicts |-> index[e]]
    /\ records' = Bundled({[r EXCEPT !.decision = Decision(r)] : r \in records})
    /\ pc' = "build"
    /\ UNCHANGED <<links, parsing, todo, conflicts, payload>>

\* Conflicts leave the index; every record is decided, then every bundle.
Decide ==
    /\ pc = "decide"
    /\ index' = [e \in DOMAIN index \ conflicts |-> index[e]]
    /\ records' = Bundled(Gated(records))
    /\ pc' = "build"
    /\ UNCHANGED <<links, parsing, todo, conflicts, payload>>

\* _validated_payload_for_raw_doc_code: a full payload that cannot be built or is
\* not valid gives way to the structural one.
BuildPayload ==
    /\ pc = "build"
    /\ payload' = IF Takes(index, Local(records))
                  THEN [mode |-> "full", edges |-> Edges(Local(records))]
                  ELSE StructureOnly
    /\ pc' = "done"
    /\ UNCHANGED <<links, parsing, todo, index, conflicts, records>>

Next ==
    \/ Crawl \/ Refresh \/ Crash \/ Begin
    \/ \E d \in Docs :
          ParseOne(d) \/ WriteHierarchy(d) \/ WriteSidecar(d) \/ ParseFails(d)
    \/ \E retryFailed \in BOOLEAN : StartBatch(retryFailed)
    \/ \E answer \in Answers : AddArticle(answer)
    \/ \E refs \in References : AddRules(refs)
    \/ \E d \in Diagrams : AddDiagram(d)
    \/ Decide \/ BuildPayload

Spec == Init /\ [][Next]_vars

-----------------------------------------------------------------------------
(* Properties.                                                             *)

\* A batch-parse that ran to its end leaves the host's candidates as the whole
\* corpus resolves them, in whatever order the workers finished, whichever failed
\* and whenever the target was parsed.
CandidatesAreSettled ==
    batch.at = "ended" /\ corpus[Host] = "parsed" =>
        sidecar = Candidates(corpus, links)

\* A citation of several targets is written with all of them or with none, in the
\* payload as in what is left to reconciliation: bundles span the gate, the
\* replacement of equal edges and the split into local and deferred records.
BundleIsWhole ==
    pc = "done" => \A r \in records : r.bundle # <<>> =>
        LET written == IF r.deferred THEN {x \in records : x.decision = "accepted"}
                       ELSE payload.edges
        IN  Cardinality({x \in written : x.bundle = r.bundle}) \in {0, r.count}

\* A citation that the rule resolver has resolved (_rule_reference_records) is not
\* written a second time from the LLM's reading of it, whatever target that names.
\* This is not so of a provider candidate's citation: its records come after the
\* LLM's are marked, and both edges may be written.
CitedOnce ==
    \A e, f \in payload.edges :
        /\ e.via \in ByRule /\ e.bundle[1] = "reference"
        /\ f.via = "LLM" /\ f.rel = "REFERS_TO"
        => e.head # f.head \/ e.cite # f.cite

\* No edge stands on an LLM's word alone: some of its evidence is in the text.
EvidenceBacked ==
    \A e \in payload.edges : e.via = "LLM" => e.evidence > 0

\* An LLM relation is written only when its evidence is in the text and, if it is a
\* reference, the rule resolver has not resolved its citation itself.  An LLM
\* reference beside the edge of a provider candidate is not excluded.
LlmEdgesAreEarned == CitedOnce /\ EvidenceBacked

\* The same words of one unit name the same targets ...
SameWords(T, U) ==
    T \cap U # {} /\ ((Cardinality(T) > 1) <=> (Cardinality(U) > 1)) => T = U

\* ... and no entity has the name of a unit: what the texts must give for the payload
\* builder to take every accepted record.
Unambiguous ==
    /\ \A answer \in Answers : SemanticOf(answer.types) \cap DOMAIN HostTypes = {}
    /\ \A refs \in References : \A x, y \in refs :
          x.source = y.source /\ x.cite = y.cite => SameWords(x.targets, y.targets)
    /\ \A ms \in Links, k \in [Docs -> {"absent", "raw", "parsed"}] :
          \A c, d \in Candidates(k, ms) :
             c.src = d.src /\ c.cite = d.cite => SameWords(c.targets, d.targets)

\* What the gate accepts the payload builder takes: a document loses its semantic
\* edges only to a diagram relation or to an entity that has the issuer's id.
AcceptedIsBuildable ==
    payload.mode = "structural" =>
        \E r \in Local(records) : r.via = "DIAGRAM" \/ IssuerId \in {r.head, r.tail}
=============================================================================
