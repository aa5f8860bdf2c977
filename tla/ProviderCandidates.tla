------------------------- MODULE ProviderCandidates -------------------------
(***************************************************************************)
(* What the provider's HTML links become: each link of the host document   *)
(* (a mention) is classified by the words before it, its endpoints are     *)
(* looked up in the documents of the corpus, and the resulting candidate   *)
(* waits in provider_relation_candidates.jsonl for the extraction.         *)
(*                                                                         *)
(* Abstractions.  The words before a marker are the operation they name;   *)
(* positions are numbers, quote being the place of the quotation mark that *)
(* opens the replacement text around the mention (0 outside of one).       *)
(* HTML-to-source alignment is the function that says in which unit a      *)
(* provider item lies.                                                     *)
(***************************************************************************)
EXTENDS Naturals, Sequences, FiniteSets

CONSTANTS
    HostTypes,    \* the host's graph nodes and their types
    TargetTypes,  \* those of the other document
    ItemUnit      \* provider items, as far as they align with a unit

NoUnit == "no unit"
Host == "host"
Target == "target"
HostId == CHOOSE u \in DOMAIN HostTypes : HostTypes[u] = "Document"
TargetId == CHOOSE u \in DOMAIN TargetTypes : TargetTypes[u] = "Document"
GraphId(d) == IF d = Host THEN HostId ELSE TargetId
UnitsOf(d) == IF d = Host THEN DOMAIN HostTypes ELSE DOMAIN TargetTypes
TypeOf(u) == IF u \in DOMAIN HostTypes THEN HostTypes[u] ELSE TargetTypes[u]

\* registry.types of the host: main-body Subsections are registered by number
\* only.
Registered == {u \in DOMAIN HostTypes : HostTypes[u] # "Subsection"}

-----------------------------------------------------------------------------
(* Identity indexes (build_luatvietnam_identity_indexes).                  *)

\* A document whose metadata is in the corpus has an identity.
DocumentIndex(corpus) == {d \in DOMAIN corpus : corpus[d] # "absent"}

\* An item is resolved in a document whose hierarchy can be read, to the
\* smallest unit that holds its span.
UnitIndex(corpus, d) ==
    IF d \in DOMAIN corpus /\ corpus[d] = "parsed"
    THEN {i \in DOMAIN ItemUnit : ItemUnit[i] \in UnitsOf(d)}
    ELSE {}

Resolved(corpus, d, items) ==
    {ItemUnit[i] : i \in items \cap UnitIndex(corpus, d)}

-----------------------------------------------------------------------------
(* Candidates (build_provider_relation_candidates).                        *)

\* _classify_relation
Classify(m) ==
    IF m.link = "REFERENCE" THEN "REFERS_TO"
    ELSE IF m.link = "UNKNOWN" THEN "UNKNOWN"
    ELSE CASE m.op = "amends" -> "AMENDS"
           [] m.op = "repeals" -> "REPEALS"
           [] m.op = "adds after" -> "POSITIONAL_ANCHOR"
           [] OTHER -> "UNKNOWN"

\* _inside_open_replacement_quote
Projected(m) == m.quote > 0

\* Amendments before a quoted mention whose quotation was still to open.
Governing(m, ms) ==
    {g \in ms : /\ g.link = "CHANGE_CONTENT"
                /\ g.pos < m.pos /\ g.pos < m.quote}

\* A governing mention that decides: a positional anchor, or one whose items
\* lie in exactly one unit.
Decides(corpus, g) ==
    \/ Classify(g) = "POSITIONAL_ANCHOR"
    \/ Cardinality(Resolved(corpus, g.doc, g.items)) = 1

NoSource == [unit |-> NoUnit, basis |-> 0]

\* _projected_source_endpoint: the owner of quoted text is the target of the
\* last governing mention that decides.
ProjectedSource(corpus, m, ms) ==
    LET deciding == {g \in Governing(m, ms) : Decides(corpus, g)}
        g == CHOOSE x \in deciding : \A y \in deciding : y.pos <= x.pos
    IN  IF deciding = {} THEN NoSource
        ELSE IF Classify(g) \in {"AMENDS", "REPEALS"}
        THEN [unit |-> CHOOSE u \in Resolved(corpus, g.doc, g.items) : TRUE,
              basis |-> g.pos]
        ELSE [unit |-> NoUnit, basis |-> g.pos]

\* canonical_source_id: the unit of the host, or the owner of the quotation.
Source(corpus, m, ms) ==
    IF Projected(m) THEN ProjectedSource(corpus, m, ms)
    ELSE [unit |-> m.unit, basis |-> 0]

\* A mention without items points to the document as a whole.
Targets(corpus, m) ==
    IF m.doc \in DocumentIndex(corpus) /\ m.items = {} THEN {GraphId(m.doc)}
    ELSE Resolved(corpus, m.doc, m.items)

\* The chain of conditions that ends in RESOLVED.
Status(corpus, m, ms) ==
    IF Classify(m) = "POSITIONAL_ANCHOR" THEN "NOT_APPLICABLE"
    ELSE IF Classify(m) = "UNKNOWN" THEN "AMBIGUOUS"
    ELSE IF \/ Source(corpus, m, ms).unit = NoUnit
            \/ m.doc \notin DocumentIndex(corpus)
            \/ m.number = "other"
            \/ ~(m.items \subseteq UnitIndex(corpus, m.doc))
    THEN "UNRESOLVED" ELSE "RESOLVED"

Candidate(corpus, m, ms) ==
    [id |-> m.pos, cite |-> m.cite, rel |-> Classify(m),
     projected |-> Projected(m), host |-> m.unit,
     src |-> Source(corpus, m, ms).unit, basis |-> Source(corpus, m, ms).basis,
     targets |-> Targets(corpus, m), status |-> Status(corpus, m, ms)]

\* The candidates of a document over what is in the corpus now.
Candidates(corpus, ms) == {Candidate(corpus, m, ms) : m \in ms}
=============================================================================
