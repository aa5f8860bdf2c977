------------------------------ MODULE GraphLoad ------------------------------
(***************************************************************************)
(* Loading parsed documents into Neo4j: the commands of main.py that write *)
(* and embed (single, batch, end to end), the threads of a batch, the      *)
(* writer's statements one by one, the removal of edges that a finer       *)
(* hierarchy replaces, and the vectors.                                    *)
(*                                                                         *)
(* Abstractions.  Each parser release reads a document into the next of    *)
(* its Layouts; the texts of a layout are its number.  Ids are unique over *)
(* labels.  The uniqueness constraints of the schema make a MERGE atomic.  *)
(* A batch of embeddings is larger than a document.  What extraction       *)
(* accepts is the constant Meaning.  The Issuer node, which all documents  *)
(* merge alike, is left out.                                               *)
(***************************************************************************)
EXTENDS Naturals, Sequences, FiniteSets, SequencesExt

CONSTANTS
    Order,       \* the documents, as the manifest lists them
    Layouts,     \* of a document: its hierarchies, [nodes, edges] each
    Meaning,     \* of a document: the nodes and edges its extraction adds
    Type,        \* labels of nodes
    Workers,     \* threads of a batch, numbered
    Commands,    \* commands that are given
    MaxCommands, \* bound: commands given
    MaxFaults    \* bound: failing statements and crashes

Docs == Range(Order)
Ids == DOMAIN Type
CommandNames ==
    {"write", "write-structural", "embed", "ingest", "batch-write", "batch-embed",
     "batch-load-parsed", "batch-load-parsed --skip-existing",
     "batch-sync-semantics", "batch-ingest-all", "ingest-folder --doc-by-doc"}

ASSUME LoadAssumption ==
    /\ IsFiniteSet(Workers) /\ Workers \subseteq Nat
    /\ MaxCommands \in Nat /\ MaxFaults \in Nat
    /\ Order \in Seq(Ids) /\ IsInjective(Order)
    /\ Commands \subseteq CommandNames
    /\ \A d \in Docs : Layouts[d] # <<>> /\ Layouts[d][1].nodes[1] = d

VARIABLES
    disk,       \* layout in hierarchy.json of each document
    extracted,  \* documents with extraction artifacts
    indexes,    \* vector indexes are online with the right dimension
    nodes,      \* nodes of the graph: text, vector and its content hash
    edges,      \* relationships of the graph
    cmd,        \* the command that runs or that ended last
    jobs,       \* what each thread does
    commands,   \* commands given
    faults      \* failing statements and crashes

vars == <<disk, extracted, indexes, nodes, edges, cmd, jobs, commands, faults>>
corpus == <<disk, extracted, indexes>>
graph == <<nodes, edges>>

-----------------------------------------------------------------------------
(* Payloads.                                                               *)

\* build_payload_from_paths
Build(d, layout, full) ==
    [nodes |-> layout.nodes \o (IF full THEN Meaning[d].nodes ELSE <<>>),
     edges |-> layout.edges \o (IF full THEN Meaning[d].edges ELSE <<>>)]

\* load_validated_payload, with the structural payload where the full one is not
\* ready
Full(d, mode) == mode = "full" /\ d \in extracted
Payload(d, mode) == Build(d, Layouts[d][disk[d]], Full(d, mode))

\* A relationship is its head, its tail and its type.
Containing(head, tail) == <<head, tail, "CONTAINS">>
Edges(p) == Range(p.edges)
Structure(p) == {e \in Edges(p) : e[3] = "CONTAINS"}
OfTypes(p, ht, tt) == {e \in Structure(p) : Type[e[1]] = ht /\ Type[e[2]] = tt}

\* STRUCTURAL_LABELS and STRUCTURAL_PAIRS: the labels from the Document down and
\* what each may contain
Labels == <<"Document", "AttachedInstrument", "Appendix", "Part", "Chapter",
            "Section", "Subsection", "Article", "Clause", "Point">>
Levels == {"Part", "Chapter", "Section", "Article"}
StructuralPairs ==
    {<<"Document", "AttachedInstrument">>, <<"Document", "Appendix">>,
     <<"AttachedInstrument", "Appendix">>, <<"Section", "Subsection">>,
     <<"Section", "Article">>, <<"Subsection", "Article">>,
     <<"Article", "Clause">>, <<"Clause", "Point">>}
    \cup {"Document", "AttachedInstrument", "Appendix"} \X Levels
    \cup {"Part"} \X (Levels \ {"Part"})
    \cup {"Chapter"} \X {"Section", "Article"}

\* What the writer relies on of validate_payload_consistency: no relation dangles,
\* and every unit below the Document has one parent, of a label that may contain
\* it.  That it also refuses cycles, orphaned groups and mixed children of one unit
\* is not needed: the payloads considered here are more than it lets pass.
Consistent(p) ==
    /\ \A e \in Edges(p) : {e[1], e[2]} \subseteq Range(p.nodes)
    /\ \A e \in Structure(p) : <<Type[e[1]], Type[e[2]]>> \in StructuralPairs
    /\ \A n \in Range(p.nodes) : Type[n] \in Range(Labels) \ {"Document"} =>
          \E e \in Structure(p) : \A f \in Structure(p) : f[2] = n <=> f = e

\* The payloads that the commands load.  Ids of units begin with the id of their
\* document, so no two documents share one; _document_node makes the one Document.
\* Extraction accepts no CONTAINS and its entities have labels of their own.
Payloads ==
    [nodes : Seq(Ids), edges : Seq(Ids \X Ids \X STRING)]

ASSUME PayloadAssumption ==
    \A d \in Docs :
        /\ Meaning[d] \in Payloads
        /\ \A n \in Range(Meaning[d].nodes) : Type[n] \notin Range(Labels)
        /\ \A e \in Range(Meaning[d].edges) : e[3] # "CONTAINS"
        /\ Layouts[d] \in Seq(Payloads)
        /\ \A v \in DOMAIN Layouts[d] :
              /\ \A n \in Range(Layouts[d][v].nodes) :
                    /\ Type[n] \in Range(Labels)
                    /\ Type[n] = "Document" <=> n = d
                    /\ \A f \in Docs \ {d} : \A u \in DOMAIN Layouts[f] :
                          n \notin Range(Layouts[f][u].nodes)
              /\ \A e \in Edges(Layouts[d][v]) : e[3] = "CONTAINS"
              /\ \A full \in BOOLEAN : Consistent(Build(d, Layouts[d][v], full))

\* What the reconciler knows of how one layout refines another: p has the edge e
\* still, or a Part, Section or Subsection (or both) between its ends.
Kept(p, e) ==
    \/ e \in Edges(p)
    \/ \E f, g \in Edges(p) :
          /\ e[1] = f[1] /\ f[2] = g[1] /\ g[2] = e[2]
          /\ <<Type[f[1]], Type[f[2]], Type[g[2]]>> \in
                {<<"Document", "Part", "Chapter">>, <<"Chapter", "Section", "Article">>,
                 <<"Section", "Subsection", "Article">>}
    \/ \E f, g, h \in Edges(p) :
          /\ e[1] = f[1] /\ f[2] = g[1] /\ g[2] = h[1] /\ h[2] = e[2]
          /\ <<Type[f[1]], Type[f[2]], Type[g[2]], Type[h[2]]>> =
                <<"Chapter", "Section", "Subsection", "Article">>

\* Edges that meet make a chain.
Chains(es, fs) ==
    {<<c[1][1], c[1][2], c[2][2]>> : c \in {x \in es \X fs : x[1][2] = x[2][1]}}

\* _subsection_article_mappings
SubsectionMappings(p) ==
    Chains(OfTypes(p, "Section", "Subsection"), OfTypes(p, "Subsection", "Article"))

\* Mutant of SectionMappings: Articles of Subsections are left out.
DirectSectionMappings(p) ==
    Chains(OfTypes(p, "Chapter", "Section"), OfTypes(p, "Section", "Article"))

\* _section_article_mappings: Articles of a Section and of its Subsections
SectionMappings(p) ==
    Chains(OfTypes(p, "Chapter", "Section"),
           OfTypes(p, "Section", "Article")
               \cup {Containing(m[1], m[3]) : m \in SubsectionMappings(p)})

\* _part_chapter_mappings
PartMappings(p) ==
    Chains(OfTypes(p, "Document", "Part"), OfTypes(p, "Part", "Chapter"))

-----------------------------------------------------------------------------
(* Statements of a write.                                                  *)

NoVector == 0
Unembedded(text) == [text |-> text, vector |-> NoVector, hash |-> NoVector]

\* _merge_node: the payload has no embedding, so SET n += $properties removes the
\* vector; its metadata stay.
MergeNode(id, text) ==
    nodes' = [n \in DOMAIN nodes \cup {id} |->
                IF n # id THEN nodes[n]
                ELSE IF id \in DOMAIN nodes
                THEN [nodes[id] EXCEPT !.text = text, !.vector = NoVector]
                ELSE Unembedded(text)]

\* _merge_relation: without both endpoints the MATCH finds nothing, silently.
MergeRelation(e) ==
    edges' = IF {e[1], e[2]} \subseteq DOMAIN nodes THEN edges \cup {e} ELSE edges

\* all_chains_exist of the reconciliation queries
ChainsExist(mappings) ==
    \A m \in mappings : {Containing(m[1], m[2]), Containing(m[2], m[3])} \subseteq edges

\* Mutant of Legacy: the lower edge of the chain is taken for the old one.
LegacyBelow(mappings) == {Containing(m[2], m[3]) : m \in mappings}

\* The flattened edges that the chains replace
Legacy(mappings) == {Containing(m[1], m[3]) : m \in mappings}

\* The three queries, each only where it has something to do.
Clean(mappings) == IF mappings = {} THEN <<>> ELSE <<[kind |-> "clean", of |-> mappings]>>
Cleanup(p) ==
    Clean(SectionMappings(p)) \o Clean(PartMappings(p)) \o Clean(SubsectionMappings(p))

\* GraphIngestionService.ingest
Statements(p) ==
    [i \in 1..Len(p.nodes) |-> [kind |-> "node", of |-> p.nodes[i]]]
    \o [i \in 1..Len(p.edges) |-> [kind |-> "relation", of |-> p.edges[i]]]
    \o Cleanup(p)

\* The statements of every write there can be
Scripts ==
    [d \in Docs |-> [v \in DOMAIN Layouts[d] |-> [full \in BOOLEAN |->
        Statements(Build(d, Layouts[d][v], full))]]]

-----------------------------------------------------------------------------
(* Vectors.                                                                *)

\* MAX_DOCUMENT_TO_CITABLE_UNIT_DEPTH
MaxDepth == 9
WithChildren(ns) ==
    ns \cup {e[2] : e \in {f \in edges : f[1] \in ns /\ f[3] = "CONTAINS"}}

\* reachable_embedding_state: CONTAINS*1..MaxDepth from the Document
Reachable(d) ==
    LET within[k \in 0..MaxDepth] ==
            IF k = 0 THEN {d} \cap DOMAIN nodes
            ELSE UNION {WithChildren(ns) : ns \in {within[k - 1]}}
    IN  within[MaxDepth] \ {d}

\* The units that edges of a hierarchy lead to from x, and x
Descendants(es, x) ==
    LET below[k \in 0..MaxDepth] ==
            IF k = 0 THEN {x}
            ELSE UNION {ns \cup {e[2] : e \in {f \in es : f[1] \in ns}} : ns \in {below[k - 1]}}
    IN  below[MaxDepth]

\* appendix_ids_with_articles
HoldsArticle(p, x) == \E n \in Descendants(Structure(p), x) : Type[n] = "Article"

\* embedding_targets: an Appendix that has no Articles stands for itself.
Targets(p) ==
    {n \in Range(p.nodes) :
        \/ Type[n] \in {"Article", "Clause"}
        \/ Type[n] = "Appendix" /\ ~HoldsArticle(p, n)}

\* Mutant of Stale: the metadata alone are compared.
StaleByHash(p, text) == {n \in Targets(p) : nodes[n].hash # text}

\* stale_target_ids: the size of the vector and the metadata
Stale(p, text) ==
    {n \in Targets(p) : nodes[n].vector = NoVector \/ nodes[n].hash # text}

\* _projection_diagnostics of a snapshot: missing or changed nodes, and missing
\* relations
Missing(p, text) ==
    {<<n>> : n \in {x \in Range(p.nodes) :
                        x \notin DOMAIN nodes \/ nodes[x].text # text}}
    \cup (Edges(p) \ edges)

\* _embedding_coverage: targets with a vector
Embedded(p) == {n \in Targets(p) \cap DOMAIN nodes : nodes[n].vector # NoVector}

-----------------------------------------------------------------------------
(* Commands.                                                               *)

\* A phase has its documents written or embedded by so many threads; fail says
\* what one failure does: nothing ("count"), no more of that document ("doc"), the
\* end of the command ("all").
Phase(op, mode, docs, width, fail) ==
    [op |-> op, mode |-> mode, docs |-> docs, width |-> width, fail |-> fail]
All == Cardinality(Workers)

\* _discover_processed_doc_codes
Processed == Docs

\* batch_write --skip-existing: a Document node is taken for a loaded document.
NotExisting(skip) ==
    {d \in Processed : ~(skip /\ d \in DOMAIN nodes)}

\* batch_write, batch_embed
BatchWrite(mode, skip) == <<Phase("write", mode, NotExisting(skip), All, "count")>>
BatchEmbed == <<Phase("embed", "full", Processed, 1, "count")>>

\* batch_load_parsed
BatchLoad(skip) == BatchWrite("structural", skip) \o BatchEmbed

\* batch_sync_semantics over _discover_extraction_ready_doc_codes
BatchSync ==
    <<Phase("write", "full", Docs \cap extracted, All, "count")>>

\* batch_ingest_all, ingest_folder: writes one by one, then vectors
IngestAll == <<Phase("write", "full", Docs, 1, "all")>> \o BatchEmbed

\* ingest_folder --doc-by-doc
DocByDoc ==
    [i \in 1..(2 * Len(Order)) |->
        Phase(IF i % 2 = 1 THEN "write" ELSE "embed", "full",
              {Order[(i + 1) \div 2]}, 1, "doc")]

\* ingest of one document: the vectors are tried though the write failed.
Ingest(d) ==
    <<Phase("write", "full", {d}, 1, "count"),
      Phase("embed", "full", {d}, 1, "count")>>

WriteOne(d, mode) == <<Phase("write", mode, {d}, 1, "all")>>

PhasesOf(name, d) ==
    CASE name = "write" -> WriteOne(d, "full")
      [] name = "write-structural" -> WriteOne(d, "structural")
      [] name = "embed" -> <<Phase("embed", "full", {d}, 1, "all")>>
      [] name = "ingest" -> Ingest(d)
      [] name = "batch-write" -> BatchWrite("structural", FALSE)
      [] name = "batch-embed" -> BatchEmbed
      [] name = "batch-load-parsed" -> BatchLoad(FALSE)
      [] name = "batch-load-parsed --skip-existing" -> BatchLoad(TRUE)
      [] name = "batch-sync-semantics" -> BatchSync
      [] name = "batch-ingest-all" -> IngestAll
      [] name = "ingest-folder --doc-by-doc" -> DocByDoc

\* Commands that leave a document whole when they report no failure.
EndToEnd ==
    {"ingest", "batch-load-parsed", "batch-ingest-all", "ingest-folder --doc-by-doc"}

\* A job knows the payload it was given and how many of its statements are done;
\* an embed job, once it has looked, the targets that are left.
NoJob == [op |-> "none", doc |-> "", mode |-> "", done |-> 0, left |-> {}]
NoCommand == [at |-> "idle", name |-> "", phases |-> <<>>, written |-> {},
              embedded |-> {}, failed |-> {}]

Init ==
    /\ disk = [d \in Docs |-> 1]
    /\ extracted = {} /\ indexes = FALSE
    /\ nodes = [n \in {} |-> Unembedded(0)] /\ edges = {}
    /\ cmd = NoCommand /\ jobs = [w \in Workers |-> NoJob]
    /\ commands = 0 /\ faults = 0

-----------------------------------------------------------------------------
(* Between commands.                                                       *)

Quiet == cmd.at # "run"

\* Another parser release
Reparse(d) ==
    /\ Quiet /\ disk[d] < Len(Layouts[d])
    /\ disk' = [disk EXCEPT ![d] = @ + 1]
    /\ cmd' = NoCommand
    /\ UNCHANGED <<extracted, indexes, graph, jobs, commands, faults>>

\* batch-extract
Extract ==
    /\ Quiet /\ extracted # Docs
    /\ extracted' = Docs
    /\ cmd' = NoCommand
    /\ UNCHANGED <<disk, indexes, graph, jobs, commands, faults>>

\* init-schema
InitSchema ==
    /\ Quiet /\ ~indexes
    /\ indexes' = TRUE
    /\ cmd' = NoCommand
    /\ UNCHANGED <<disk, extracted, graph, jobs, commands, faults>>

\* clear-database: indexes and constraints stay.
ClearDatabase ==
    /\ Quiet /\ DOMAIN nodes # {}
    /\ nodes' = [n \in {} |-> Unembedded(0)] /\ edges' = {}
    /\ cmd' = NoCommand
    /\ UNCHANGED <<corpus, jobs, commands, faults>>

Start(name, d) ==
    /\ Quiet /\ commands < MaxCommands
    /\ commands' = commands + 1
    /\ cmd' = [NoCommand EXCEPT !.at = "run", !.name = name,
                                !.phases = PhasesOf(name, d)]
    /\ UNCHANGED <<corpus, graph, jobs, faults>>

-----------------------------------------------------------------------------
(* A command at work.                                                      *)

Current == Head(cmd.phases)
Busy == {w \in Workers : jobs[w] # NoJob}

\* A thread takes the next document: write_graph or embed_graph reads its payload.
\* Threads are alike: the first that is idle takes it.
Take(w) ==
    /\ cmd.at = "run" /\ cmd.phases # <<>>
    /\ jobs[w] = NoJob /\ Cardinality(Busy) < Current.width
    /\ \A v \in Workers \ Busy : w <= v
    /\ \E i \in DOMAIN Order :
          /\ Order[i] \in Current.docs
          /\ \A j \in 1..(i - 1) : Order[j] \notin Current.docs
          /\ jobs' = [jobs EXCEPT ![w] =
                [NoJob EXCEPT !.op = Current.op, !.doc = Order[i],
                              !.mode = Current.mode]]
          /\ cmd' = [cmd EXCEPT !.phases[1].docs = @ \ {Order[i]}]
    /\ UNCHANGED <<corpus, graph, commands, faults>>

\* The phases that are left after a failure
After(d) ==
    IF Current.fail = "all" THEN <<>>
    ELSE IF Current.fail = "doc"
    THEN [i \in DOMAIN cmd.phases |-> [cmd.phases[i] EXCEPT !.docs = @ \ {d}]]
    ELSE cmd.phases

\* The exception of a statement is caught by the thread or ends the command.
Failed(w) ==
    /\ jobs' = [jobs EXCEPT ![w] = NoJob]
    /\ cmd' = [cmd EXCEPT !.phases = After(jobs[w].doc),
                          !.failed = @ \cup {jobs[w].doc}]

\* The corpus does not change under a command.
Given(w) == Payload(jobs[w].doc, jobs[w].mode)
Text(w) == disk[jobs[w].doc]
Script(w) == Scripts[jobs[w].doc][Text(w)][Full(jobs[w].doc, jobs[w].mode)]
Statement(w) == Script(w)[jobs[w].done + 1]
Writing(w, kind) ==
    /\ jobs[w].op = "write" /\ jobs[w].done < Len(Script(w))
    /\ Statement(w).kind = kind
Finished(w) ==
    \/ jobs[w].op = "write" /\ jobs[w].done = Len(Script(w))
    \/ jobs[w].op = "embed" /\ jobs[w].done = 1 /\ jobs[w].left = {}

Advance(w) ==
    /\ jobs' = [jobs EXCEPT ![w].done = @ + 1]
    /\ UNCHANGED cmd

WriteNode(w) ==
    /\ Writing(w, "node")
    /\ MergeNode(Statement(w).of, Text(w))
    /\ Advance(w)
    /\ UNCHANGED <<corpus, edges, commands, faults>>

WriteRelation(w) ==
    /\ Writing(w, "relation")
    /\ MergeRelation(Statement(w).of)
    /\ Advance(w)
    /\ UNCHANGED <<corpus, nodes, commands, faults>>

\* _reconcile_mappings: old edges go when every chain is there; else it raises.
Reconcile(w) ==
    /\ Writing(w, "clean")
    /\ \/ /\ ChainsExist(Statement(w).of)
          /\ edges' = edges \ Legacy(Statement(w).of)
          /\ Advance(w)
       \/ /\ ~ChainsExist(Statement(w).of)
          /\ UNCHANGED edges
          /\ Failed(w)
    /\ UNCHANGED <<corpus, nodes, commands, faults>>

\* verify_vector_indexes and stale_target_ids: what is stale is embedded anew.
FindStale(w) ==
    /\ jobs[w].op = "embed" /\ jobs[w].done = 0
    /\ LET ready == indexes /\ Targets(Given(w)) \subseteq Reachable(jobs[w].doc)
       IN  \/ /\ ready
              /\ jobs' = [jobs EXCEPT ![w].done = 1, ![w].left = Stale(Given(w), Text(w))]
              /\ UNCHANGED cmd
           \/ ~ready /\ Failed(w)
    /\ UNCHANGED <<corpus, graph, commands, faults>>

\* write_embeddings, one node
WriteVector(w) ==
    \E n \in jobs[w].left :
        /\ nodes' = [nodes EXCEPT ![n].vector = Text(w), ![n].hash = Text(w)]
        /\ jobs' = [jobs EXCEPT ![w].left = @ \ {n}]
        /\ UNCHANGED <<corpus, edges, cmd, commands, faults>>

\* write_graph or embed_graph returns.
Done(w) ==
    /\ Finished(w)
    /\ jobs' = [jobs EXCEPT ![w] = NoJob]
    /\ cmd' = IF jobs[w].op = "write" THEN [cmd EXCEPT !.written = @ \cup {jobs[w].doc}]
              ELSE [cmd EXCEPT !.embedded = @ \cup {jobs[w].doc}]
    /\ UNCHANGED <<corpus, graph, commands, faults>>

\* A statement fails: the server is gone, the model cannot be loaded.
StatementFails(w) ==
    /\ jobs[w] # NoJob /\ ~Finished(w) /\ faults < MaxFaults
    /\ faults' = faults + 1
    /\ Failed(w)
    /\ UNCHANGED <<corpus, graph, commands>>

\* The pool is joined before the next phase; the last one ends the command.
EndPhase ==
    /\ cmd.at = "run" /\ Busy = {}
    /\ \/ /\ cmd.phases # <<>> /\ Current.docs = {}
          /\ cmd' = [cmd EXCEPT !.phases = Tail(@)]
       \/ /\ cmd.phases = <<>>
          /\ cmd' = [cmd EXCEPT !.at = "ended"]
    /\ UNCHANGED <<corpus, graph, jobs, commands, faults>>

\* The process dies between two statements: what was written stays.
Crash ==
    /\ cmd.at = "run" /\ faults < MaxFaults
    /\ faults' = faults + 1
    /\ cmd' = NoCommand /\ jobs' = [w \in Workers |-> NoJob]
    /\ UNCHANGED <<corpus, graph, commands>>

Step(w) ==
    \/ Take(w) \/ WriteNode(w) \/ WriteRelation(w) \/ Reconcile(w)
    \/ FindStale(w) \/ WriteVector(w) \/ Done(w)

Next ==
    \/ InitSchema \/ ClearDatabase \/ EndPhase \/ Crash
    \/ Extract \/ \E d \in Docs : Reparse(d)
    \/ \E name \in Commands, d \in Docs : Start(name, d)
    \/ \E w \in Workers : Step(w) \/ StatementFails(w)

Spec == Init /\ [][Next]_vars

-----------------------------------------------------------------------------
(* Properties.                                                             *)

\* What a write reported as done is in the graph: every node with its text and
\* every relation, whatever was left by a write that failed or died before it and
\* whatever other threads wrote.
WrittenIsWhole ==
    cmd.at = "ended" => \A d \in cmd.written : Missing(Payload(d, "structural"), disk[d]) = {}

\* Edges of older layouts that nobody looks for: the layout on disk neither has them
\* nor refines them in a way the reconciler knows.  Such is the edge from the
\* Document to an Article that a later release puts under a Part.
Strays(d) ==
    {e \in UNION {Edges(Layouts[d][v]) : v \in 1..(disk[d] - 1)} :
        ~Kept(Layouts[d][disk[d]], e)}

\* After a write that succeeded every unit of the document hangs under one parent,
\* Strays apart, also where other layouts were loaded before, in part or in whole.
OneParent ==
    cmd.at = "ended" => \A d \in cmd.written :
        \A n \in Range(Layouts[d][disk[d]].nodes) \ {d} :
            Cardinality({e \in edges \ Strays(d) : e[2] = n /\ e[3] = "CONTAINS"}) = 1

\* What a command has written stands in the graph as one whole tree.  Beside it may
\* stand only edges of older layouts that no cleanup knows of, and units that such a
\* layout had and the one on disk has not.
WrittenIsOneTree == WrittenIsWhole /\ OneParent

\* No statement cuts a unit off from its document: the reconciler's deletions,
\* a failure or a crash at any point leave what could be cited citable.
StaysReachable ==
    [][ DOMAIN nodes' # {} => \A d \in Docs : Reachable(d) \subseteq Reachable(d)' ]_vars

\* An end-to-end load that reports no failure leaves a vector of the current text
\* on every target, though each write takes the vectors away and leaves the
\* metadata by which staleness is judged.
EmbeddedIsCurrent ==
    (cmd.at = "ended" /\ cmd.name \in EndToEnd /\ cmd.failed = {}) =>
        \A d \in cmd.embedded :
            LET p == Payload(d, "structural")
            IN  /\ Embedded(p) = Targets(p)
                /\ \A n \in Targets(p) : nodes[n].vector = nodes[n].text

\* "Reparse/reconciliation is idempotent": a write fails only where a statement
\* failed.
WriteIsRepeatable ==
    (faults = 0 /\ cmd.at = "ended" /\ cmd.name = "batch-load-parsed")
        => cmd.written = Docs
=============================================================================
