--------------------------- MODULE GraphLoadProofs ---------------------------
(***************************************************************************)
(* Theorems about GraphLoad, for any documents, layouts, accepted meaning, *)
(* number of threads and bounds: what a write reports is one tree, what an *)
(* end-to-end load embedded is current, and no step cuts a unit off.       *)
(***************************************************************************)
EXTENDS GraphLoad, FiniteSetTheorems, SequenceTheorems, TLAPS

\* The layout that hierarchy.json of a document holds
Own(d) == Layouts[d][disk[d]]
Units(d) == Range(Own(d).nodes)

(***************************************************************************)
(* The inductive invariant, in parts.                                      *)
(***************************************************************************)
PhaseSet ==
    [op : {"write", "embed"}, mode : {"full", "structural"}, docs : SUBSET Docs,
     width : Nat, fail : {"count", "doc", "all"}]

CommandSet ==
    [at : {"idle", "run", "ended"}, name : CommandNames \cup {""},
     phases : Seq(PhaseSet),
     written : SUBSET Docs, embedded : SUBSET Docs, failed : SUBSET Docs]

JobSet ==
    [op : {"write", "embed"}, doc : Docs, mode : {"full", "structural"},
     done : Nat, left : SUBSET Ids] \cup {NoJob}

NodeSet == [text : Nat, vector : Nat, hash : Nat]

TypeOK ==
    /\ disk \in [Docs -> Nat] /\ \A d \in Docs : disk[d] \in DOMAIN Layouts[d]
    /\ extracted \subseteq Docs
    /\ nodes \in [DOMAIN nodes -> NodeSet]
    /\ cmd \in CommandSet
    /\ jobs \in [Workers -> JobSet]

\* Threads work only for a command that runs.
Attended == Quiet => \A w \in Workers : jobs[w] = NoJob

\* An edge has both its ends, and one of a hierarchy is of a layout that the
\* document has or had.
Anchored == \A e \in edges : {e[1], e[2]} \subseteq DOMAIN nodes
OfLayout(e) == \E d \in Docs : \E v \in 1..disk[d] : e \in Edges(Layouts[d][v])
Known == \A e \in edges : e[3] = "CONTAINS" => OfLayout(e)

\* A document is written once by a command, and by one thread.
WritePhases == {i \in DOMAIN cmd.phases : cmd.phases[i].op = "write"}
Writers == {w \in Workers : jobs[w].op = "write"}
WrittenOnce ==
    /\ \A w \in Writers :
          /\ jobs[w].doc \notin cmd.written
          /\ \A i \in WritePhases : jobs[w].doc \notin cmd.phases[i].docs
          /\ \A v \in Writers : jobs[v].doc = jobs[w].doc => v = w
    /\ \A i \in WritePhases :
          /\ \A d \in cmd.phases[i].docs : d \notin cmd.written
          /\ \A j \in WritePhases \ {i} : \A d \in cmd.phases[i].docs :
                d \notin cmd.phases[j].docs

\* What a statement of a write leaves behind, as long as no other write of the
\* document comes between.
Applied(s, d) ==
    /\ s.kind = "node" /\ s.of \in Units(d) =>
          s.of \in DOMAIN nodes /\ nodes[s.of].text = disk[d]
    /\ s.kind = "relation" /\ s.of \in Edges(Own(d)) => s.of \in edges
    /\ s.kind = "clean" => \A e \in Legacy(s.of) : e \notin edges

InWrite ==
    \A w \in Writers :
        /\ jobs[w].done <= Len(Script(w))
        /\ \A i \in 1..jobs[w].done : Applied(Script(w)[i], jobs[w].doc)

\* A written document: every unit with its text, every edge, and no other edge of a
\* hierarchy into a unit but strays.
Whole(d) ==
    /\ \A n \in Units(d) : n \in DOMAIN nodes /\ nodes[n].text = disk[d]
    /\ \A e \in Edges(Own(d)) : e \in edges
    /\ \A e \in edges : e[3] = "CONTAINS" /\ e[2] \in Units(d) =>
          e \in Edges(Own(d)) \/ e \in Strays(d)

WrittenWhole == \A d \in cmd.written : Whole(d)

IInv ==
    /\ TypeOK /\ Attended /\ Anchored /\ Known /\ WrittenOnce /\ InWrite
    /\ WrittenWhole

\* A vector is kept with the hash of the text it is of.
Hashed ==
    \A n \in DOMAIN nodes :
        nodes[n].vector # NoVector => nodes[n].vector = nodes[n].hash

\* Threads embed what is to be embedded, and look for it first.
Seeking ==
    \A w \in Workers :
        IF jobs[w].op = "embed" THEN jobs[w].left \subseteq Targets(Own(jobs[w].doc))
        ELSE jobs[w].left = {}

\* The threads of one phase are done before the next begins.
InPhase ==
    \A w \in Workers : jobs[w] # NoJob =>
        /\ cmd.phases # <<>> => jobs[w].op = Current.op
        /\ cmd.failed = {} => cmd.phases # <<>>

\* Units that have a vector of the text on disk
Fresh(d, ns) ==
    \A n \in ns : n \in DOMAIN nodes /\ nodes[n].vector # NoVector /\ nodes[n].hash = disk[d]

\* A document is embedded after it was written, as long as nothing failed.
WriteFirst ==
    (cmd.name \in EndToEnd /\ cmd.failed = {}) =>
        /\ \A d \in cmd.embedded : d \in cmd.written /\ Fresh(d, Targets(Own(d)))
        /\ \A w \in Workers : jobs[w].op = "embed" =>
              /\ jobs[w].doc \in cmd.written
              /\ jobs[w].done = 1 =>
                    Fresh(jobs[w].doc, Targets(Own(jobs[w].doc)) \ jobs[w].left)
        /\ \A i \in DOMAIN cmd.phases : cmd.phases[i].op = "embed" =>
              \A d \in cmd.phases[i].docs :
                  \/ d \in cmd.written
                  \/ \E w \in Writers : jobs[w].doc = d
                  \/ \E j \in WritePhases : j < i /\ d \in cmd.phases[j].docs

EInv == IInv /\ Hashed /\ Seeking /\ InPhase /\ WriteFirst

-----------------------------------------------------------------------------
(* Facts about payloads.                                                   *)

LEMMA InRange ==
    ASSUME NEW S, NEW s \in Seq(S)
    PROVE  /\ Range(s) \subseteq S
           /\ \A i \in 1..Len(s) : s[i] \in Range(s)
           /\ \A x \in Range(s) : \E i \in 1..Len(s) : x = s[i]
           /\ Len(s) \in Nat /\ DOMAIN s = 1..Len(s)
  BY DEF Range

LEMMA JoinFacts ==
    ASSUME NEW S, NEW s \in Seq(S), NEW t \in Seq(S)
    PROVE  /\ s \o t \in Seq(S) /\ Len(s \o t) = Len(s) + Len(t)
           /\ \A i \in 1..Len(s) : (s \o t)[i] = s[i]
           /\ \A i \in 1..Len(t) : (s \o t)[Len(s) + i] = t[i]
  OBVIOUS

LEMMA TableIsSequence ==
    ASSUME NEW S, NEW n \in Nat, NEW f \in [1..n -> S]
    PROVE  f \in Seq(S) /\ Len(f) = n
  OBVIOUS

LEMMA RangeOfJoin ==
    ASSUME NEW S, NEW s \in Seq(S), NEW t \in Seq(S)
    PROVE  Range(s \o t) = Range(s) \cup Range(t)
  <1> DEFINE u == s \o t
  <1>1. /\ u \in Seq(S) /\ Len(u) = Len(s) + Len(t)
        /\ \A i \in 1..Len(u) : u[i] = IF i <= Len(s) THEN s[i] ELSE t[i - Len(s)]
    OBVIOUS
  <1>2. ASSUME NEW x \in Range(u) PROVE x \in Range(s) \cup Range(t)
    <2>1. PICK i \in 1..Len(u) : x = u[i]
      BY <1>1, InRange
    <2>2. CASE i <= Len(s)
      BY <1>1, <2>1, <2>2, InRange
    <2>3. CASE i > Len(s)
      <3>1. i - Len(s) \in 1..Len(t)
        BY <1>1, <2>3, InRange
      <3> QED
        BY <1>1, <2>1, <2>3, <3>1, InRange
    <2> QED
      BY <2>2, <2>3, InRange
  <1>3. ASSUME NEW x \in Range(s) PROVE x \in Range(u)
    <2>1. PICK i \in 1..Len(s) : x = s[i]
      BY InRange
    <2>2. u[i] = x /\ i \in 1..Len(u)
      BY <1>1, <2>1, InRange
    <2> QED
      BY <1>1, <2>2, InRange
  <1>4. ASSUME NEW x \in Range(t) PROVE x \in Range(u)
    <2>1. PICK i \in 1..Len(t) : x = t[i]
      BY InRange
    <2>2. u[i + Len(s)] = x /\ i + Len(s) \in 1..Len(u)
      BY <1>1, <2>1, InRange
    <2> QED
      BY <1>1, <2>2, InRange
  <1> QED
    BY <1>2, <1>3, <1>4

\* What the assumptions say of one layout, in the form that proofs use.
LEMMA LayoutFacts ==
    ASSUME NEW d \in Docs, NEW v \in DOMAIN Layouts[d]
    PROVE  /\ Layouts[d][v] \in Payloads
           /\ Edges(Layouts[d][v]) \subseteq Ids \X Ids \X STRING
           /\ \A e \in Edges(Layouts[d][v]) : e[3] = "CONTAINS"
           /\ Meaning[d] \in Payloads
           /\ \A n \in Range(Meaning[d].nodes) : Type[n] \notin Range(Labels)
           /\ \A e \in Range(Meaning[d].edges) : e[3] # "CONTAINS"
           /\ \A n \in Range(Layouts[d][v].nodes) :
                 Type[n] \in Range(Labels) /\ (Type[n] = "Document" <=> n = d)
  <1>1. Layouts[d] \in Seq(Payloads)
    BY PayloadAssumption
  <1>2. Layouts[d][v] \in Payloads
    BY <1>1
  <1>3. Edges(Layouts[d][v]) \subseteq Ids \X Ids \X STRING
    BY <1>2, InRange DEF Edges, Payloads
  <1> QED
    BY <1>2, <1>3, PayloadAssumption

LEMMA BuildFacts ==
    ASSUME NEW d \in Docs, NEW v \in DOMAIN Layouts[d], NEW full \in BOOLEAN
    PROVE  LET p == Build(d, Layouts[d][v], full)
           IN  /\ p \in Payloads
               /\ Structure(p) = Edges(Layouts[d][v])
               /\ Range(Layouts[d][v].nodes) \subseteq Range(p.nodes)
               /\ Range(p.nodes) \subseteq
                     Range(Layouts[d][v].nodes) \cup Range(Meaning[d].nodes)
               /\ Edges(p) \subseteq Edges(Layouts[d][v]) \cup Range(Meaning[d].edges)
  <1> DEFINE own == Layouts[d][v]
             p == Build(d, own, full)
             mn == IF full THEN Meaning[d].nodes ELSE <<>>
             me == IF full THEN Meaning[d].edges ELSE <<>>
  <1>1. /\ own.nodes \in Seq(Ids) /\ own.edges \in Seq(Ids \X Ids \X STRING)
        /\ mn \in Seq(Ids) /\ me \in Seq(Ids \X Ids \X STRING)
        /\ Range(mn) \subseteq Range(Meaning[d].nodes)
        /\ Range(me) \subseteq Range(Meaning[d].edges)
    BY LayoutFacts DEF Payloads, Range
  <1>2. p = [nodes |-> own.nodes \o mn, edges |-> own.edges \o me]
    BY DEF Build
  <1>3. p \in Payloads
    BY <1>1, <1>2 DEF Payloads
  <1> HIDE DEF mn, me, own
  <1>4. Range(p.nodes) = Range(own.nodes) \cup Range(mn)
    <2>1. Range(own.nodes \o mn) = Range(own.nodes) \cup Range(mn)
      BY <1>1, RangeOfJoin
    <2> QED
      BY <1>2, <2>1
  <1>5. Range(p.edges) = Range(own.edges) \cup Range(me)
    <2>1. Range(own.edges \o me) = Range(own.edges) \cup Range(me)
      BY <1>1, RangeOfJoin
    <2> QED
      BY <1>2, <2>1
  <1> USE DEF own
  <1>6. Structure(p) = Edges(own)
    BY <1>1, <1>5, LayoutFacts DEF Structure, Edges
  <1> QED
    BY <1>1, <1>3, <1>4, <1>5, <1>6 DEF Edges

-----------------------------------------------------------------------------
(* Hierarchies.                                                            *)

\* How deep a label may stand under its Document
Level ==
    [Document |-> 0, AttachedInstrument |-> 1, Appendix |-> 2, Part |-> 3,
     Chapter |-> 4, Section |-> 5, Subsection |-> 6, Article |-> 7, Clause |-> 8,
     Point |-> 9]

LEMMA LabelSet ==
    Range(Labels) = {"Document", "AttachedInstrument", "Appendix", "Part", "Chapter",
                     "Section", "Subsection", "Article", "Clause", "Point"}
  <1>1. DOMAIN Labels = {1, 2, 3, 4, 5, 6, 7, 8, 9, 10}
    BY DEF Labels
  <1>2. /\ Labels[1] = "Document" /\ Labels[2] = "AttachedInstrument"
        /\ Labels[3] = "Appendix" /\ Labels[4] = "Part" /\ Labels[5] = "Chapter"
        /\ Labels[6] = "Section" /\ Labels[7] = "Subsection" /\ Labels[8] = "Article"
        /\ Labels[9] = "Clause" /\ Labels[10] = "Point"
    BY DEF Labels
  <1> QED
    BY <1>1, <1>2 DEF Range

\* A label contains only labels that stand deeper.
LEMMA PairsDescend ==
    ASSUME NEW a, NEW b, <<a, b>> \in StructuralPairs
    PROVE  /\ a \in Range(Labels) /\ b \in Range(Labels) \ {"Document"}
           /\ Level[a] \in 0..9 /\ Level[b] \in 0..9 /\ Level[a] < Level[b]
  <1>1. \/ a = "Document" /\ b \in
              {"AttachedInstrument", "Appendix", "Part", "Chapter", "Section", "Article"}
        \/ a = "AttachedInstrument" /\ b \in {"Appendix", "Part", "Chapter", "Section", "Article"}
        \/ a = "Appendix" /\ b \in {"Part", "Chapter", "Section", "Article"}
        \/ a = "Part" /\ b \in {"Chapter", "Section", "Article"}
        \/ a = "Chapter" /\ b \in {"Section", "Article"}
        \/ a = "Section" /\ b \in {"Subsection", "Article"}
        \/ a = "Subsection" /\ b = "Article"
        \/ a = "Article" /\ b = "Clause"
        \/ a = "Clause" /\ b = "Point"
    BY DEF StructuralPairs, Levels
  <1> QED
    BY <1>1, LabelSet DEF Level

\* A layout is a tree: its edges join its units, go down, and are one per unit.
LEMMA LayoutIsTree ==
    ASSUME NEW d \in Docs, NEW v \in DOMAIN Layouts[d]
    PROVE  /\ \A e \in Edges(Layouts[d][v]) :
                 /\ e[1] \in Range(Layouts[d][v].nodes)
                 /\ e[2] \in Range(Layouts[d][v].nodes)
                 /\ <<Type[e[1]], Type[e[2]]>> \in StructuralPairs
           /\ \A e, f \in Edges(Layouts[d][v]) : e[2] = f[2] => e = f
           /\ \A n \in Range(Layouts[d][v].nodes) \ {d} :
                 \E e \in Edges(Layouts[d][v]) : e[2] = n
  <1> DEFINE own == Layouts[d][v]
             p == Build(d, own, FALSE)
  <1>1. Consistent(p)
    BY PayloadAssumption
  <1>2. /\ Structure(p) = Edges(own) /\ Structure(p) \subseteq Edges(p)
        /\ Range(own.nodes) \subseteq Range(p.nodes)
        /\ Range(p.nodes) \subseteq Range(own.nodes) \cup Range(Meaning[d].nodes)
    BY BuildFacts DEF Structure
  <1>3. ASSUME NEW e \in Edges(own)
        PROVE  /\ e[1] \in Range(own.nodes) /\ e[2] \in Range(own.nodes)
               /\ <<Type[e[1]], Type[e[2]]>> \in StructuralPairs
               /\ Type[e[2]] \in Range(Labels) \ {"Document"}
    <2>1. /\ e[1] \in Range(p.nodes) /\ e[2] \in Range(p.nodes)
          /\ <<Type[e[1]], Type[e[2]]>> \in StructuralPairs
      BY <1>1, <1>2 DEF Consistent
    <2>2. Type[e[1]] \in Range(Labels) /\ Type[e[2]] \in Range(Labels) \ {"Document"}
      BY <2>1, PairsDescend
    <2>3. \A n \in Range(Meaning[d].nodes) : Type[n] \notin Range(Labels)
      BY LayoutFacts
    <2> HIDE DEF p, own
    <2> QED
      BY <1>2, <2>1, <2>2, <2>3
  <1>4. ASSUME NEW n \in Range(own.nodes), Type[n] # "Document"
        PROVE  \E e \in Edges(own) : \A f \in Edges(own) : f[2] = n <=> f = e
    <2> HIDE DEF p
    <2>1. n \in Range(p.nodes) /\ Type[n] \in Range(Labels) \ {"Document"}
      BY <1>2, <1>4, LayoutFacts
    <2> QED
      BY <1>1, <1>2, <2>1 DEF Consistent
  <1>5. ASSUME NEW e \in Edges(own), NEW f \in Edges(own), e[2] = f[2] PROVE e = f
    <2>1. e[2] \in Range(own.nodes) /\ Type[e[2]] # "Document"
      BY <1>3
    <2>2. PICK g \in Edges(own) : \A h \in Edges(own) : h[2] = e[2] <=> h = g
      BY <1>4, <2>1
    <2> QED
      BY <1>5, <2>2
  <1>6. ASSUME NEW n \in Range(own.nodes) \ {d} PROVE \E e \in Edges(own) : e[2] = n
    <2>1. n \in Range(own.nodes) /\ Type[n] # "Document"
      BY LayoutFacts
    <2>2. PICK g \in Edges(own) : \A h \in Edges(own) : h[2] = n <=> h = g
      BY <1>4, <2>1
    <2> QED
      BY <2>2
  <1> QED
    BY <1>3, <1>5, <1>6

-----------------------------------------------------------------------------
(* Mappings of the reconciler.                                             *)

LEMMA ChainEnds ==
    ASSUME NEW es, NEW fs
    PROVE  /\ \A m \in Chains(es, fs) : \E e \in es, f \in fs :
                 e[2] = f[1] /\ m = <<e[1], e[2], f[2]>>
           /\ \A e \in es, f \in fs : e[2] = f[1] => <<e[1], e[2], f[2]>> \in Chains(es, fs)
  <1>1. ASSUME NEW m \in Chains(es, fs)
        PROVE  \E e \in es, f \in fs : e[2] = f[1] /\ m = <<e[1], e[2], f[2]>>
    <2>1. PICK c \in {x \in es \X fs : x[1][2] = x[2][1]} :
             m = <<c[1][1], c[1][2], c[2][2]>>
      BY DEF Chains
    <2>2. c[1] \in es /\ c[2] \in fs /\ c[1][2] = c[2][1]
      BY <2>1
    <2> QED
      BY <2>1, <2>2
  <1>2. ASSUME NEW e \in es, NEW f \in fs, e[2] = f[1]
        PROVE  <<e[1], e[2], f[2]>> \in Chains(es, fs)
    <2>1. <<e, f>> \in {x \in es \X fs : x[1][2] = x[2][1]}
      BY <1>2
    <2>2. /\ <<e, f>>[1] = e /\ <<e, f>>[2] = f
      OBVIOUS
    <2> QED
      BY <2>1, <2>2 DEF Chains
  <1> QED
    BY <1>1, <1>2

\* The labels of a kind of mapping, and where its unit hangs in the payload
Between(es, m, a, b, c) ==
    /\ m = <<m[1], m[2], m[3]>>
    /\ Type[m[1]] = a /\ Type[m[2]] = b /\ Type[m[3]] = c
    /\ \E e \in es : e[2] = m[3] /\ Type[e[1]] # a

\* What the three kinds of mappings hold of a payload whose hierarchy is es
LEMMA MappingParts ==
    ASSUME NEW p
    PROVE  /\ \A m \in SubsectionMappings(p) :
                 Between(Structure(p), m, "Section", "Subsection", "Article")
           /\ \A m \in SectionMappings(p) :
                 Between(Structure(p), m, "Chapter", "Section", "Article")
           /\ \A m \in PartMappings(p) :
                 Between(Structure(p), m, "Document", "Part", "Chapter")
  <1>1. ASSUME NEW a, NEW b, NEW c, NEW m \in Chains(OfTypes(p, a, b), OfTypes(p, b, c)),
               a # b
        PROVE  Between(Structure(p), m, a, b, c)
    <2>1. PICK e \in OfTypes(p, a, b), f \in OfTypes(p, b, c) :
             e[2] = f[1] /\ m = <<e[1], e[2], f[2]>>
      BY ChainEnds
    <2>2. m[1] = e[1] /\ m[2] = e[2] /\ m[3] = f[2]
      BY <2>1
    <2>3. /\ f \in Structure(p) /\ Type[f[1]] = b /\ Type[f[2]] = c
          /\ Type[e[1]] = a /\ Type[e[2]] = b
      BY <2>1 DEF OfTypes
    <2> QED
      BY <1>1, <2>1, <2>2, <2>3 DEF Between
  <1>2. ASSUME NEW m \in SubsectionMappings(p)
        PROVE  Between(Structure(p), m, "Section", "Subsection", "Article")
    BY <1>1 DEF SubsectionMappings
  <1>3. ASSUME NEW m \in SectionMappings(p)
        PROVE  Between(Structure(p), m, "Chapter", "Section", "Article")
    <2> DEFINE fs == OfTypes(p, "Section", "Article")
                        \cup {Containing(k[1], k[3]) : k \in SubsectionMappings(p)}
    <2>1. PICK e \in OfTypes(p, "Chapter", "Section"), f \in fs :
             e[2] = f[1] /\ m = <<e[1], e[2], f[2]>>
      <3> HIDE DEF fs
      <3>1. m \in Chains(OfTypes(p, "Chapter", "Section"), fs)
        BY DEF SectionMappings, fs
      <3> QED
        BY <3>1, ChainEnds
    <2>2. m[1] = e[1] /\ m[2] = e[2] /\ m[3] = f[2]
      BY <2>1
    <2>3. Type[e[1]] = "Chapter" /\ Type[e[2]] = "Section"
      BY <2>1 DEF OfTypes
    <2>4. CASE f \in OfTypes(p, "Section", "Article")
      <3>1. f \in Structure(p) /\ Type[f[1]] = "Section" /\ Type[f[2]] = "Article"
        BY <2>4 DEF OfTypes
      <3> QED
        BY <2>1, <2>2, <2>3, <3>1 DEF Between
    <2>5. CASE f \in {Containing(k[1], k[3]) : k \in SubsectionMappings(p)}
      <3>1. PICK k \in SubsectionMappings(p) : f = Containing(k[1], k[3])
        BY <2>5
      <3>2. Between(Structure(p), k, "Section", "Subsection", "Article")
        BY <1>2
      <3>3. PICK g, h : /\ g \in OfTypes(p, "Section", "Subsection")
                        /\ h \in OfTypes(p, "Subsection", "Article")
                        /\ k = <<g[1], g[2], h[2]>>
        BY ChainEnds DEF SubsectionMappings
      <3>4. /\ h \in Structure(p) /\ Type[h[1]] = "Subsection" /\ h[2] = k[3]
        BY <3>3 DEF OfTypes
      <3>5. f[2] = k[3] /\ Type[k[3]] = "Article"
        BY <3>1, <3>2 DEF Between, Containing
      <3> QED
        BY <2>1, <2>2, <2>3, <3>4, <3>5 DEF Between
    <2> QED
      BY <2>1, <2>4, <2>5
  <1>4. ASSUME NEW m \in PartMappings(p)
        PROVE  Between(Structure(p), m, "Document", "Part", "Chapter")
    BY <1>1 DEF PartMappings
  <1> QED
    BY <1>2, <1>3, <1>4

Mappings(p) == {SectionMappings(p), PartMappings(p), SubsectionMappings(p)}

\* No edge that a cleanup may delete is in the payload or in a chain it checks.
LEMMA CleanupSpares ==
    ASSUME NEW d \in Docs, NEW v \in DOMAIN Layouts[d], NEW full \in BOOLEAN,
           NEW ms \in Mappings(Build(d, Layouts[d][v], full)), NEW m \in ms
    PROVE  /\ Containing(m[1], m[3]) \notin Edges(Layouts[d][v])
           /\ Containing(m[1], m[2]) \notin Legacy(ms)
           /\ Containing(m[2], m[3]) \notin Legacy(ms)
  <1> DEFINE own == Layouts[d][v]
             p == Build(d, own, full)
  <1>1. Structure(p) = Edges(own)
    BY BuildFacts
  <1>2. PICK a, b, c : /\ a # b /\ b # c /\ a # c
                       /\ \A k \in ms : Between(Structure(p), k, a, b, c)
    <2>1. ms = SectionMappings(p) \/ ms = PartMappings(p) \/ ms = SubsectionMappings(p)
      BY DEF Mappings
    <2> HIDE DEF p
    <2> QED
      BY <2>1, MappingParts
  <1> HIDE DEF p, own
  <1>3. PICK e \in Edges(own) : e[2] = m[3] /\ Type[e[1]] # Type[m[1]]
    BY <1>1, <1>2 DEF Between
  <1>4. Containing(m[1], m[3]) \notin Edges(own)
    <2> SUFFICES ASSUME Containing(m[1], m[3]) \in Edges(own) PROVE FALSE
      OBVIOUS
    <2>1. Containing(m[1], m[3])[1] = m[1] /\ Containing(m[1], m[3])[2] = m[3]
      BY DEF Containing
    <2> QED
      BY <1>3, <2>1, LayoutIsTree DEF own
  <1>5. ASSUME NEW k \in ms
        PROVE  /\ Containing(m[1], m[2]) # Containing(k[1], k[3])
               /\ Containing(m[2], m[3]) # Containing(k[1], k[3])
    <2>1. /\ Type[m[2]] # Type[k[3]] /\ Type[m[2]] # Type[k[1]]
      BY <1>2 DEF Between
    <2> QED
      BY <2>1 DEF Containing
  <1> QED
    BY <1>4, <1>5 DEF own, Legacy

\* Every edge that a finer layout replaces is one that a cleanup deletes.
LEMMA CleanupReaches ==
    ASSUME NEW d \in Docs, NEW v \in DOMAIN Layouts[d], NEW full \in BOOLEAN,
           NEW e \in Ids \X Ids \X STRING, e[3] = "CONTAINS",
           Kept(Layouts[d][v], e), e \notin Edges(Layouts[d][v])
    PROVE  \E ms \in Mappings(Build(d, Layouts[d][v], full)) : ms # {} /\ e \in Legacy(ms)
  <1> DEFINE own == Layouts[d][v]
             p == Build(d, own, full)
  <1>1. Structure(p) = Edges(own)
    BY BuildFacts
  <1>2. e = Containing(e[1], e[2])
    BY DEF Containing
  <1> HIDE DEF p
  <1>3. ASSUME NEW ms \in Mappings(p), NEW m \in ms, m[1] = e[1], m[3] = e[2]
        PROVE  ms # {} /\ e \in Legacy(ms)
    BY <1>2, <1>3 DEF Legacy
  <1>4. ASSUME NEW f \in Edges(own), NEW g \in Edges(own), f[2] = g[1],
               NEW a, NEW b, NEW c,
               Type[f[1]] = a, Type[f[2]] = b, Type[g[2]] = c
        PROVE  <<f[1], f[2], g[2]>> \in Chains(OfTypes(p, a, b), OfTypes(p, b, c))
    <2>1. f \in OfTypes(p, a, b) /\ g \in OfTypes(p, b, c)
      BY <1>1, <1>4 DEF OfTypes
    <2> QED
      BY <1>4, <2>1, ChainEnds
  <1>5. ASSUME NEW f \in Edges(own), NEW g \in Edges(own),
               e[1] = f[1], f[2] = g[1], g[2] = e[2],
               <<Type[f[1]], Type[f[2]], Type[g[2]]>> \in
                  {<<"Document", "Part", "Chapter">>, <<"Chapter", "Section", "Article">>,
                   <<"Section", "Subsection", "Article">>}
        PROVE  \E ms \in Mappings(p) : ms # {} /\ e \in Legacy(ms)
    <2> DEFINE m == <<f[1], f[2], g[2]>>
    <2>1. m[1] = e[1] /\ m[3] = e[2]
      BY <1>5
    <2>2. CASE Type[f[1]] = "Document" /\ Type[f[2]] = "Part" /\ Type[g[2]] = "Chapter"
      <3>1. m \in PartMappings(p)
        BY <1>4, <1>5, <2>2 DEF PartMappings
      <3> QED
        BY <1>3, <2>1, <3>1 DEF Mappings
    <2>3. CASE Type[f[1]] = "Section" /\ Type[f[2]] = "Subsection" /\ Type[g[2]] = "Article"
      <3>1. m \in SubsectionMappings(p)
        BY <1>4, <1>5, <2>3 DEF SubsectionMappings
      <3> QED
        BY <1>3, <2>1, <3>1 DEF Mappings
    <2>4. CASE Type[f[1]] = "Chapter" /\ Type[f[2]] = "Section" /\ Type[g[2]] = "Article"
      <3>1. f \in OfTypes(p, "Chapter", "Section") /\ g \in OfTypes(p, "Section", "Article")
        BY <1>1, <2>4, <1>5 DEF OfTypes
      <3>2. m \in SectionMappings(p)
        BY <1>5, <3>1, ChainEnds DEF SectionMappings
      <3> QED
        BY <1>3, <2>1, <3>2 DEF Mappings
    <2> QED
      BY <1>5, <2>2, <2>3, <2>4
  <1>6. ASSUME NEW f \in Edges(own), NEW g \in Edges(own), NEW h \in Edges(own),
               e[1] = f[1], f[2] = g[1], g[2] = h[1], h[2] = e[2],
               <<Type[f[1]], Type[f[2]], Type[g[2]], Type[h[2]]>> =
                  <<"Chapter", "Section", "Subsection", "Article">>
        PROVE  \E ms \in Mappings(p) : ms # {} /\ e \in Legacy(ms)
    <2>1. <<g[1], g[2], h[2]>> \in SubsectionMappings(p)
      BY <1>4, <1>6 DEF SubsectionMappings
    <2> DEFINE l == Containing(g[1], h[2])
               fs == OfTypes(p, "Section", "Article")
                        \cup {Containing(k[1], k[3]) : k \in SubsectionMappings(p)}
    <2>2. l \in fs /\ l[1] = g[1] /\ l[2] = h[2]
      <3>1. <<g[1], g[2], h[2]>>[1] = g[1] /\ <<g[1], g[2], h[2]>>[3] = h[2]
        OBVIOUS
      <3> QED
        BY <2>1, <3>1 DEF Containing
    <2>3. f \in OfTypes(p, "Chapter", "Section")
      BY <1>1, <1>6 DEF OfTypes
    <2>4. <<f[1], f[2], l[2]>> \in SectionMappings(p)
      <3> HIDE DEF l, fs
      <3>1. <<f[1], f[2], l[2]>> \in Chains(OfTypes(p, "Chapter", "Section"), fs)
        BY <1>6, <2>2, <2>3, ChainEnds
      <3> QED
        BY <3>1 DEF SectionMappings, fs
    <2>5. <<f[1], f[2], l[2]>>[1] = e[1] /\ <<f[1], f[2], l[2]>>[3] = e[2]
      BY <1>6, <2>2
    <2> QED
      BY <1>3, <2>4, <2>5 DEF Mappings
  <1>7. Kept(own, e) /\ e \notin Edges(own)
    OBVIOUS
  <1> HIDE DEF own
  <1> QED
    BY <1>5, <1>6, <1>7 DEF Kept, own, p

-----------------------------------------------------------------------------
(* Scripts.                                                                *)

LEMMA CleanupStatements ==
    ASSUME NEW p
    PROVE  LET S == {[kind |-> "clean", of |-> ms] : ms \in Mappings(p)}
           IN  /\ Cleanup(p) \in Seq(S)
               /\ \A ms \in Mappings(p) :
                     ms # {} => [kind |-> "clean", of |-> ms] \in Range(Cleanup(p))
  <1> DEFINE S == {[kind |-> "clean", of |-> ms] : ms \in Mappings(p)}
  <1>1. ASSUME NEW ms \in Mappings(p)
        PROVE  /\ Clean(ms) \in Seq(S)
               /\ ms # {} => [kind |-> "clean", of |-> ms] \in Range(Clean(ms))
    <2>1. [kind |-> "clean", of |-> ms] \in S
      OBVIOUS
    <2> HIDE DEF S
    <2>2. CASE ms = {}
      BY <2>2 DEF Clean
    <2>3. CASE ms # {}
      <3>1. Clean(ms) = <<[kind |-> "clean", of |-> ms]>>
        BY <2>3 DEF Clean
      <3>2. Clean(ms) \in Seq(S) /\ Len(Clean(ms)) = 1
            /\ Clean(ms)[1] = [kind |-> "clean", of |-> ms]
        BY <2>1, <3>1
      <3> QED
        BY <3>2, InRange
    <2> QED
      BY <2>2, <2>3
  <1> DEFINE c1 == Clean(SectionMappings(p))
             c2 == Clean(PartMappings(p))
             c3 == Clean(SubsectionMappings(p))
  <1>2. c1 \in Seq(S) /\ c2 \in Seq(S) /\ c3 \in Seq(S)
    BY <1>1 DEF Mappings
  <1>3. Cleanup(p) = (c1 \o c2) \o c3
    BY DEF Cleanup
  <1> HIDE DEF S, c1, c2, c3
  <1>4. Range(c1 \o c2) = Range(c1) \cup Range(c2) /\ c1 \o c2 \in Seq(S)
    BY <1>2, RangeOfJoin
  <1> DEFINE c == c1 \o c2
  <1>5. Range(c \o c3) = Range(c) \cup Range(c3) /\ c \o c3 \in Seq(S)
    <2>1. c \in Seq(S)
      BY <1>4
    <2> HIDE DEF c
    <2> QED
      BY <1>2, <2>1, RangeOfJoin
  <1>6. ASSUME NEW ms \in Mappings(p), ms # {}
        PROVE  [kind |-> "clean", of |-> ms] \in Range(Cleanup(p))
    <2>1. [kind |-> "clean", of |-> ms] \in Range(Clean(ms))
      BY <1>1, <1>6
    <2>2. Clean(ms) = c1 \/ Clean(ms) = c2 \/ Clean(ms) = c3
      BY DEF Mappings, c1, c2, c3
    <2> QED
      BY <1>3, <1>4, <1>5, <2>1, <2>2
  <1> QED
    BY <1>3, <1>5, <1>6 DEF S

\* The statements of a write: nodes, then relations, then the cleanups that have
\* something to do.
WellScripted(s, p) ==
    /\ Len(s) \in Nat
    /\ \A i \in 1..Len(s) :
          \/ s[i].kind = "node" /\ s[i].of \in Range(p.nodes)
          \/ s[i].kind = "relation" /\ s[i].of \in Edges(p)
          \/ s[i].kind = "clean" /\ s[i].of \in Mappings(p)
    /\ \A n \in Range(p.nodes) : \E i \in 1..Len(s) :
          s[i].kind = "node" /\ s[i].of = n
    /\ \A e \in Edges(p) : \E i \in 1..Len(s) :
          s[i].kind = "relation" /\ s[i].of = e
    /\ \A ms \in Mappings(p) : ms # {} => \E i \in 1..Len(s) :
          s[i].kind = "clean" /\ s[i].of = ms
    /\ \A i, j \in 1..Len(s) :
          s[i].kind = "node" /\ s[j].kind = "relation" => i < j

LEMMA ScriptFacts ==
    ASSUME NEW d \in Docs, NEW v \in DOMAIN Layouts[d], NEW full \in BOOLEAN
    PROVE  WellScripted(Scripts[d][v][full], Build(d, Layouts[d][v], full))
  <1> DEFINE p == Build(d, Layouts[d][v], full)
             s == Scripts[d][v][full]
             A == [i \in 1..Len(p.nodes) |-> [kind |-> "node", of |-> p.nodes[i]]]
             B == [i \in 1..Len(p.edges) |-> [kind |-> "relation", of |-> p.edges[i]]]
             C == Cleanup(p)
             SA == {[kind |-> "node", of |-> n] : n \in Range(p.nodes)}
             SB == {[kind |-> "relation", of |-> e] : e \in Edges(p)}
             SC == {[kind |-> "clean", of |-> ms] : ms \in Mappings(p)}
             S == SA \cup SB \cup SC
             a == Len(p.nodes)
             b == Len(p.edges)
  <1>1. s = (A \o B) \o C
    BY DEF Scripts, Statements
  <1>2. /\ p.nodes \in Seq(Ids) /\ p.edges \in Seq(Ids \X Ids \X STRING)
        /\ a \in Nat /\ b \in Nat
    BY BuildFacts DEF Payloads
  <1>3. C \in Seq(SC) /\ \A ms \in Mappings(p) :
            ms # {} => [kind |-> "clean", of |-> ms] \in Range(C)
    BY CleanupStatements
  <1> HIDE DEF p, C
  <1>4. A \in Seq(S) /\ Len(A) = a
    <2>1. \A i \in 1..a : A[i] \in S
      BY <1>2, InRange
    <2>2. A = [i \in 1..a |-> A[i]]
      OBVIOUS
    <2> HIDE DEF A, S
    <2>3. A \in [1..a -> S]
      BY <2>1, <2>2
    <2> QED
      BY <1>2, <2>3, TableIsSequence
  <1>5. B \in Seq(S) /\ Len(B) = b
    <2>1. \A i \in 1..b : B[i] \in S
      BY <1>2, InRange DEF Edges
    <2>2. B = [i \in 1..b |-> B[i]]
      OBVIOUS
    <2> HIDE DEF B, S
    <2>3. B \in [1..b -> S]
      BY <2>1, <2>2
    <2> QED
      BY <1>2, <2>3, TableIsSequence
  <1>6. C \in Seq(S) /\ Len(C) \in Nat
    <2>1. Len(C) \in Nat /\ \A i \in 1..Len(C) : C[i] \in S
      BY <1>3
    <2> QED
      BY <1>3, <2>1
  <1>7. /\ \A i \in 1..a : A[i].kind = "node" /\ A[i].of = p.nodes[i]
        /\ \A i \in 1..b : B[i].kind = "relation" /\ B[i].of = p.edges[i]
        /\ \A i \in 1..Len(C) : C[i].kind = "clean" /\ C[i].of \in Mappings(p)
    <2>1. \A i \in 1..Len(C) : C[i] \in SC
      BY <1>3, InRange
    <2> QED
      BY <2>1
  <1> HIDE DEF A, B, S, a, b
  <1>8. /\ Len(s) = a + b + Len(C)
        /\ \A i \in 1..a : s[i] = A[i]
        /\ \A i \in 1..b : s[a + i] = B[i]
        /\ \A i \in 1..Len(C) : s[a + b + i] = C[i]
    <2>1. /\ A \o B \in Seq(S) /\ Len(A \o B) = a + b
          /\ \A i \in 1..a : (A \o B)[i] = A[i]
          /\ \A i \in 1..b : (A \o B)[a + i] = B[i]
      <3>1. A \in Seq(S) /\ B \in Seq(S)
        BY <1>4, <1>5
      <3>2. /\ A \o B \in Seq(S) /\ Len(A \o B) = Len(A) + Len(B)
            /\ \A i \in 1..Len(A) : (A \o B)[i] = A[i]
            /\ \A i \in 1..Len(B) : (A \o B)[Len(A) + i] = B[i]
        BY <3>1, JoinFacts
      <3> QED
        BY <1>4, <1>5, <3>2, Zenon
    <2> DEFINE AB == A \o B
    <2> HIDE DEF AB
    <2>2. /\ Len(AB \o C) = a + b + Len(C)
          /\ \A i \in 1..(a + b) : (AB \o C)[i] = AB[i]
          /\ \A i \in 1..Len(C) : (AB \o C)[a + b + i] = C[i]
      <3>1. Len(AB) = a + b
        BY <2>1 DEF AB
      <3>2. AB \in Seq(S) /\ C \in Seq(S)
        BY <1>6, <2>1 DEF AB
      <3>3. /\ Len(AB \o C) = Len(AB) + Len(C)
            /\ \A i \in 1..Len(AB) : (AB \o C)[i] = AB[i]
            /\ \A i \in 1..Len(C) : (AB \o C)[Len(AB) + i] = C[i]
        BY <3>2, JoinFacts
      <3> QED
        BY <3>1, <3>3, Zenon
    <2>3. /\ \A i \in 1..a : i \in 1..(a + b)
          /\ \A i \in 1..b : a + i \in 1..(a + b)
      BY <1>2
    <2>4. s = AB \o C
      BY <1>1 DEF AB
    <2> HIDE DEF s
    <2> QED
      BY <2>1, <2>2, <2>3, <2>4 DEF AB
  <1> HIDE DEF s
  <1>9. ASSUME NEW i \in 1..Len(s)
        PROVE  \/ i \in 1..a
               \/ \E j \in 1..b : i = a + j
               \/ \E j \in 1..Len(C) : i = a + b + j
    <2>1. CASE i > a /\ i <= a + b
      <3>1. i - a \in 1..b /\ i = a + (i - a)
        BY <1>2, <1>6, <1>8, <2>1
      <3> QED
        BY <3>1
    <2>2. CASE i > a + b
      <3>1. i - (a + b) \in 1..Len(C) /\ i = a + b + (i - (a + b))
        BY <1>2, <1>6, <1>8, <2>2
      <3> QED
        BY <3>1
    <2> QED
      BY <1>2, <1>6, <1>8, <2>1, <2>2
  <1>10. ASSUME NEW i \in 1..Len(s)
         PROVE  /\ \/ s[i].kind = "node" /\ s[i].of \in Range(p.nodes)
                   \/ s[i].kind = "relation" /\ s[i].of \in Edges(p)
                   \/ s[i].kind = "clean" /\ s[i].of \in Mappings(p)
                /\ s[i].kind = "node" => i <= a
                /\ s[i].kind = "relation" => i > a
    <2>1. CASE i \in 1..a
      <3>1. s[i].kind = "node" /\ s[i].of = p.nodes[i]
        BY <1>7, <1>8, <2>1
      <3>2. p.nodes[i] \in Range(p.nodes)
        BY <1>2, <2>1, InRange DEF a
      <3> QED
        BY <1>2, <2>1, <3>1, <3>2
    <2>2. CASE \E j \in 1..b : i = a + j
      <3>1. PICK j \in 1..b : i = a + j
        BY <2>2
      <3>2. s[i].kind = "relation" /\ s[i].of = p.edges[j]
        BY <1>7, <1>8, <3>1
      <3>3. p.edges[j] \in Edges(p)
        BY <1>2, InRange DEF b, Edges
      <3> QED
        BY <1>2, <3>1, <3>2, <3>3
    <2>3. CASE \E j \in 1..Len(C) : i = a + b + j
      <3>1. PICK j \in 1..Len(C) : i = a + b + j
        BY <2>3
      <3>2. s[i].kind = "clean" /\ s[i].of \in Mappings(p)
        BY <1>7, <1>8, <3>1
      <3> QED
        BY <3>2
    <2> QED
      BY <1>9, <2>1, <2>2, <2>3
  <1>11. ASSUME NEW n \in Range(p.nodes)
         PROVE  \E i \in 1..Len(s) : s[i].kind = "node" /\ s[i].of = n
    <2>1. PICK i \in 1..a : n = p.nodes[i]
      BY <1>2, InRange DEF a
    <2>2. i \in 1..Len(s)
      BY <1>2, <1>6, <1>8
    <2> QED
      BY <1>7, <1>8, <2>1, <2>2
  <1>12. ASSUME NEW e \in Edges(p)
         PROVE  \E i \in 1..Len(s) : s[i].kind = "relation" /\ s[i].of = e
    <2>1. PICK i \in 1..b : e = p.edges[i]
      BY <1>2, InRange DEF b, Edges
    <2>2. a + i \in 1..Len(s)
      BY <1>2, <1>6, <1>8
    <2> QED
      BY <1>7, <1>8, <2>1, <2>2
  <1>13. ASSUME NEW ms \in Mappings(p), ms # {}
         PROVE  \E i \in 1..Len(s) : s[i].kind = "clean" /\ s[i].of = ms
    <2>1. [kind |-> "clean", of |-> ms] \in Range(C)
      BY <1>3, <1>13
    <2>2. PICK i \in 1..Len(C) : C[i] = [kind |-> "clean", of |-> ms]
      BY <1>6, <2>1, InRange
    <2>3. a + b + i \in 1..Len(s)
      BY <1>2, <1>6, <1>8
    <2>4. s[a + b + i] = [kind |-> "clean", of |-> ms]
      BY <1>8, <2>2
    <2> QED
      BY <2>3, <2>4
  <1>14. Len(s) \in Nat
    BY <1>2, <1>6, <1>8
  <1>15. ASSUME NEW i \in 1..Len(s), NEW j \in 1..Len(s),
                s[i].kind = "node", s[j].kind = "relation"
         PROVE  i < j
    BY <1>2, <1>10, <1>14, <1>15
  <1>16. WellScripted(s, p)
    BY <1>10, <1>11, <1>12, <1>13, <1>14, <1>15 DEF WellScripted
  <1> QED
    BY <1>16 DEF p, s

-----------------------------------------------------------------------------
(* Phases of the commands.                                                 *)

\* No two phases write the same document.
Disjoint(ph) ==
    \A i, j \in DOMAIN ph : i # j /\ ph[i].op = "write" /\ ph[j].op = "write" =>
        \A x \in ph[i].docs : x \notin ph[j].docs

\* What a phase embeds an earlier one writes.
Preceded(ph) ==
    \A i \in DOMAIN ph : ph[i].op = "embed" =>
        \A x \in ph[i].docs : \E j \in DOMAIN ph :
            j < i /\ ph[j].op = "write" /\ x \in ph[j].docs

LEMMA OnePhase ==
    ASSUME NEW q \in PhaseSet
    PROVE  <<q>> \in Seq(PhaseSet) /\ Disjoint(<<q>>)
  <1>1. <<q>> \in Seq(PhaseSet) /\ DOMAIN <<q>> = {1}
    OBVIOUS
  <1> QED
    BY <1>1 DEF Disjoint

LEMMA TwoPhases ==
    ASSUME NEW q \in PhaseSet, NEW r \in PhaseSet, q.op = "write", r.op = "embed"
    PROVE  /\ <<q, r>> \in Seq(PhaseSet) /\ Disjoint(<<q, r>>)
           /\ r.docs \subseteq q.docs => Preceded(<<q, r>>)
  <1>1. /\ <<q, r>> \in Seq(PhaseSet) /\ DOMAIN <<q, r>> = {1, 2}
        /\ <<q, r>>[1] = q /\ <<q, r>>[2] = r
    OBVIOUS
  <1>2. Disjoint(<<q, r>>)
    BY <1>1 DEF Disjoint
  <1>3. r.docs \subseteq q.docs => Preceded(<<q, r>>)
    BY <1>1 DEF Preceded
  <1> QED
    BY <1>1, <1>2, <1>3

LEMMA JoinTwo ==
    ASSUME NEW q, NEW r
    PROVE  <<q>> \o <<r>> = <<q, r>>
  <1>1. <<q>> \in Seq({q, r}) /\ <<r>> \in Seq({q, r}) /\ <<q, r>> \in Seq({q, r})
    OBVIOUS
  <1>2. /\ <<q>> \o <<r>> \in Seq({q, r}) /\ Len(<<q>> \o <<r>>) = 2
        /\ (<<q>> \o <<r>>)[1] = q /\ (<<q>> \o <<r>>)[2] = r
    BY <1>1
  <1> DEFINE s == <<q>> \o <<r>>
             t == <<q, r>>
  <1>3. Len(s) = Len(t) /\ \A i \in 1..Len(s) : s[i] = t[i]
    BY <1>2
  <1> HIDE DEF s, t
  <1>4. s = t
    BY <1>1, <1>2, <1>3, SeqEqual DEF s, t
  <1> QED
    BY <1>4 DEF s, t

LEMMA OrderFacts ==
    /\ Len(Order) \in Nat /\ DOMAIN Order = 1..Len(Order)
    /\ \A i \in 1..Len(Order) : Order[i] \in Docs
    /\ \A i, j \in 1..Len(Order) : Order[i] = Order[j] => i = j
    /\ Docs \subseteq Ids
  <1>1. Order \in Seq(Ids)
    BY LoadAssumption
  <1>2. \A i, j \in DOMAIN Order : Order[i] = Order[j] => i = j
    BY LoadAssumption DEF IsInjective
  <1> QED
    BY <1>1, <1>2, InRange DEF Docs

LEMMA DocByDocPhases ==
    DocByDoc \in Seq(PhaseSet) /\ Disjoint(DocByDoc) /\ Preceded(DocByDoc)
  <1> DEFINE n == 2 * Len(Order)
             at(i) == (i + 1) \div 2
  <1>1. n \in Nat
    BY OrderFacts
  <1>2. ASSUME NEW i \in 1..n PROVE at(i) \in 1..Len(Order)
    BY OrderFacts
  <1>3. ASSUME NEW i \in 1..n
        PROVE  /\ DocByDoc[i] \in PhaseSet /\ DocByDoc[i].docs = {Order[at(i)]}
               /\ DocByDoc[i].op = "write" <=> i % 2 = 1
               /\ DocByDoc[i].op = "embed" <=> i % 2 # 1
    <2>1. DocByDoc[i] = Phase(IF i % 2 = 1 THEN "write" ELSE "embed", "full",
                              {Order[at(i)]}, 1, "doc")
      BY DEF DocByDoc
    <2>2. {Order[at(i)]} \in SUBSET Docs
      BY <1>2, OrderFacts
    <2> HIDE DEF at
    <2> QED
      BY <2>1, <2>2 DEF Phase, PhaseSet
  <1>4. DocByDoc \in Seq(PhaseSet) /\ DOMAIN DocByDoc = 1..n
    <2>1. DocByDoc = [i \in 1..n |-> DocByDoc[i]]
      BY DEF DocByDoc
    <2>2. DocByDoc \in [1..n -> PhaseSet]
      BY <1>3, <2>1
    <2> QED
      BY <1>1, <2>2, TableIsSequence
  <1>5. Disjoint(DocByDoc)
    <2> SUFFICES ASSUME NEW i \in 1..n, NEW j \in 1..n, i # j, i % 2 = 1, j % 2 = 1
                 PROVE  Order[at(i)] # Order[at(j)]
      BY <1>3, <1>4 DEF Disjoint
    <2>1. at(i) # at(j)
      BY <1>1
    <2> HIDE DEF at
    <2> QED
      BY <1>2, <2>1, OrderFacts
  <1>6. Preceded(DocByDoc)
    <2>1. ASSUME NEW i \in 1..n, i % 2 # 1
          PROVE  i - 1 \in 1..n /\ i - 1 < i /\ (i - 1) % 2 = 1 /\ at(i) = at(i - 1)
      BY <1>1, <2>1
    <2> HIDE DEF at
    <2>2. ASSUME NEW i \in DOMAIN DocByDoc, DocByDoc[i].op = "embed",
                 NEW x \in DocByDoc[i].docs
          PROVE  \E j \in DOMAIN DocByDoc :
                     j < i /\ DocByDoc[j].op = "write" /\ x \in DocByDoc[j].docs
      <3>1. i \in 1..n /\ i % 2 # 1 /\ x = Order[at(i)]
        BY <1>3, <1>4, <2>2
      <3>2. i - 1 \in 1..n /\ i - 1 < i /\ (i - 1) % 2 = 1 /\ at(i) = at(i - 1)
        BY <2>1, <3>1
      <3>3. DocByDoc[i - 1].op = "write" /\ DocByDoc[i - 1].docs = {Order[at(i - 1)]}
        BY <1>3, <3>2
      <3> QED
        BY <1>4, <3>1, <3>2, <3>3
    <2> QED
      BY <2>2 DEF Preceded
  <1> QED
    BY <1>4, <1>5, <1>6

LEMMA PhaseTyped ==
    ASSUME NEW op \in {"write", "embed"}, NEW mode \in {"full", "structural"},
           NEW docs \in SUBSET Docs, NEW width \in Nat, NEW fail \in {"count", "doc", "all"}
    PROVE  /\ Phase(op, mode, docs, width, fail) \in PhaseSet
           /\ Phase(op, mode, docs, width, fail).op = op
           /\ Phase(op, mode, docs, width, fail).docs = docs
  BY DEF Phase, PhaseSet

\* The phases of a command write a document once; those of an end-to-end command
\* embed what they have written.
LEMMA PhaseFacts ==
    ASSUME NEW name \in CommandNames, NEW d \in Docs
    PROVE  /\ PhasesOf(name, d) \in Seq(PhaseSet)
           /\ Disjoint(PhasesOf(name, d))
           /\ name \in EndToEnd => Preceded(PhasesOf(name, d))
  <1>1. All \in Nat /\ {d} \in SUBSET Docs /\ Docs \in SUBSET Docs
    BY LoadAssumption, FS_CardinalityType DEF All
  <1> DEFINE w(mode, docs, width, fail) == Phase("write", mode, docs, width, fail)
             e(docs, fail) == Phase("embed", "full", docs, 1, fail)
  <1>2. CASE name = "write"
    <2>1. PhasesOf(name, d) = <<w("full", {d}, 1, "all")>>
      BY <1>2 DEF PhasesOf, WriteOne
    <2>2. w("full", {d}, 1, "all") \in PhaseSet
      BY <1>1, PhaseTyped
    <2>3. name \notin EndToEnd
      BY <1>2 DEF EndToEnd
    <2> HIDE DEF w, e
    <2> QED
      BY <2>1, <2>2, <2>3, OnePhase
  <1>3. CASE name = "write-structural"
    <2>1. PhasesOf(name, d) = <<w("structural", {d}, 1, "all")>>
      BY <1>3 DEF PhasesOf, WriteOne
    <2>2. w("structural", {d}, 1, "all") \in PhaseSet
      BY <1>1, PhaseTyped
    <2>3. name \notin EndToEnd
      BY <1>3 DEF EndToEnd
    <2> HIDE DEF w, e
    <2> QED
      BY <2>1, <2>2, <2>3, OnePhase
  <1>4. CASE name = "embed"
    <2>1. PhasesOf(name, d) = <<e({d}, "all")>>
      BY <1>4 DEF PhasesOf
    <2>2. e({d}, "all") \in PhaseSet
      BY <1>1, PhaseTyped
    <2>3. name \notin EndToEnd
      BY <1>4 DEF EndToEnd
    <2> HIDE DEF w, e
    <2> QED
      BY <2>1, <2>2, <2>3, OnePhase
  <1>5. CASE name = "ingest"
    <2>1. PhasesOf(name, d) = <<w("full", {d}, 1, "count"), e({d}, "count")>>
      BY <1>5 DEF PhasesOf, Ingest
    <2> QED
      BY <1>1, <2>1, PhaseTyped, TwoPhases
  <1>6. CASE name = "batch-write"
    <2>1. PhasesOf(name, d) = <<w("structural", NotExisting(FALSE), All, "count")>>
      BY <1>6 DEF PhasesOf, BatchWrite
    <2>2. NotExisting(FALSE) \in SUBSET Docs
      BY DEF NotExisting, Processed
    <2>3. w("structural", NotExisting(FALSE), All, "count") \in PhaseSet
      BY <1>1, <2>2, PhaseTyped
    <2>4. name \notin EndToEnd
      BY <1>6 DEF EndToEnd
    <2> HIDE DEF w, e
    <2> QED
      BY <2>1, <2>3, <2>4, OnePhase
  <1>7. CASE name = "batch-embed"
    <2>1. PhasesOf(name, d) = <<e(Docs, "count")>>
      BY <1>7 DEF PhasesOf, BatchEmbed, Processed
    <2>2. e(Docs, "count") \in PhaseSet
      BY <1>1, PhaseTyped
    <2>3. name \notin EndToEnd
      BY <1>7 DEF EndToEnd
    <2> HIDE DEF w, e
    <2> QED
      BY <2>1, <2>2, <2>3, OnePhase
  <1>8. ASSUME NEW skip \in BOOLEAN
        PROVE  /\ BatchLoad(skip) \in Seq(PhaseSet) /\ Disjoint(BatchLoad(skip))
               /\ ~skip => Preceded(BatchLoad(skip))
    <2>1. BatchLoad(skip) = <<w("structural", NotExisting(skip), All, "count"), e(Docs, "count")>>
      BY JoinTwo DEF BatchLoad, BatchWrite, BatchEmbed, Processed
    <2>2. NotExisting(skip) \in SUBSET Docs /\ (~skip => NotExisting(skip) = Docs)
      BY DEF NotExisting, Processed
    <2> QED
      BY <1>1, <2>1, <2>2, PhaseTyped, TwoPhases
  <1>9. CASE name = "batch-load-parsed"
    <2>1. PhasesOf(name, d) = BatchLoad(FALSE)
      BY <1>9 DEF PhasesOf
    <2> QED
      BY <1>8, <2>1
  <1>10. CASE name = "batch-load-parsed --skip-existing"
    <2>1. PhasesOf(name, d) = BatchLoad(TRUE)
      BY <1>10 DEF PhasesOf
    <2> QED
      BY <1>8, <1>10, <2>1 DEF EndToEnd
  <1>11. CASE name = "batch-sync-semantics"
    <2>1. PhasesOf(name, d) = <<w("full", Docs \cap extracted, All, "count")>>
      BY <1>11 DEF PhasesOf, BatchSync
    <2>2. w("full", Docs \cap extracted, All, "count") \in PhaseSet
      BY <1>1, PhaseTyped
    <2>3. name \notin EndToEnd
      BY <1>11 DEF EndToEnd
    <2> HIDE DEF w, e
    <2> QED
      BY <2>1, <2>2, <2>3, OnePhase
  <1>12. CASE name = "batch-ingest-all"
    <2>1. PhasesOf(name, d) = <<w("full", Docs, 1, "all"), e(Docs, "count")>>
      BY <1>12, JoinTwo DEF PhasesOf, IngestAll, BatchEmbed, Processed
    <2> QED
      BY <1>1, <2>1, PhaseTyped, TwoPhases
  <1>13. CASE name = "ingest-folder --doc-by-doc"
    <2>1. PhasesOf(name, d) = DocByDoc
      BY <1>13 DEF PhasesOf
    <2> QED
      BY <2>1, DocByDocPhases
  <1> QED
    BY <1>2, <1>3, <1>4, <1>5, <1>6, <1>7, <1>9, <1>10, <1>11, <1>12, <1>13 DEF CommandNames

-----------------------------------------------------------------------------
(* Types.                                                                  *)

LEMMA NoJobFacts == NoJob.op = "none" /\ NoJob.left = {}
  BY DEF NoJob

LEMMA NoCommandFacts ==
    /\ NoCommand \in CommandSet /\ NoCommand.at = "idle" /\ NoCommand.phases = <<>>
    /\ NoCommand.written = {} /\ NoCommand.embedded = {} /\ NoCommand.failed = {}
    /\ NoCommand.name \notin EndToEnd
  <1>1. <<>> \in Seq(PhaseSet)
    OBVIOUS
  <1> QED
    BY <1>1 DEF NoCommand, CommandSet, EndToEnd

LEMMA JobFacts ==
    ASSUME TypeOK, NEW w \in Workers, jobs[w].op # "none"
    PROVE  /\ jobs[w] # NoJob
           /\ jobs[w] \in [op : {"write", "embed"}, doc : Docs,
                           mode : {"full", "structural"}, done : Nat, left : SUBSET Ids]
           /\ disk[jobs[w].doc] \in DOMAIN Layouts[jobs[w].doc]
  BY NoJobFacts DEF TypeOK, JobSet

LEMMA BusyFacts ==
    ASSUME TypeOK, NEW w \in Workers, jobs[w] # NoJob
    PROVE  jobs[w].op \in {"write", "embed"} /\ jobs[w].doc \in Docs
  BY DEF TypeOK, JobSet

LEMMA PhasesFacts ==
    ASSUME TypeOK
    PROVE  /\ cmd.phases \in Seq(PhaseSet) /\ Len(cmd.phases) \in Nat
           /\ DOMAIN cmd.phases = 1..Len(cmd.phases)
           /\ \A i \in DOMAIN cmd.phases : cmd.phases[i] \in PhaseSet
           /\ cmd.phases # <<>> => 1 \in DOMAIN cmd.phases /\ Current = cmd.phases[1]
  <1>1. cmd.phases \in Seq(PhaseSet)
    BY DEF TypeOK, CommandSet
  <1> QED
    BY <1>1 DEF Current

\* What is left of the phases after a failure
LEMMA AfterFacts ==
    ASSUME TypeOK, NEW d
    PROVE  /\ After(d) \in Seq(PhaseSet)
           /\ DOMAIN After(d) \subseteq DOMAIN cmd.phases
           /\ \A i \in DOMAIN After(d) :
                 /\ After(d)[i].op = cmd.phases[i].op
                 /\ After(d)[i].docs \subseteq cmd.phases[i].docs
  <1> DEFINE ph == [i \in DOMAIN cmd.phases |-> [cmd.phases[i] EXCEPT !.docs = @ \ {d}]]
  <1>1. /\ cmd.phases \in Seq(PhaseSet) /\ DOMAIN cmd.phases = 1..Len(cmd.phases)
        /\ Len(cmd.phases) \in Nat /\ \A i \in DOMAIN cmd.phases : cmd.phases[i] \in PhaseSet
    BY PhasesFacts
  <1>2. ASSUME NEW i \in DOMAIN cmd.phases
        PROVE  /\ ph[i] \in PhaseSet /\ ph[i].op = cmd.phases[i].op
               /\ ph[i].docs \subseteq cmd.phases[i].docs
    <2>1. ph[i] = [cmd.phases[i] EXCEPT !.docs = @ \ {d}]
      OBVIOUS
    <2> QED
      BY <1>1, <2>1 DEF PhaseSet
  <1>3. ph \in Seq(PhaseSet) /\ DOMAIN ph = DOMAIN cmd.phases
    <2>1. ph \in [1..Len(cmd.phases) -> PhaseSet]
      BY <1>1, <1>2
    <2> HIDE DEF ph
    <2> QED
      BY <1>1, <2>1, TableIsSequence
  <1>4. After(d) = <<>> \/ After(d) = ph \/ After(d) = cmd.phases
    BY DEF After
  <1>5. CASE After(d) = <<>>
    <2>1. <<>> \in Seq(PhaseSet) /\ DOMAIN <<>> = {}
      OBVIOUS
    <2> QED
      BY <1>5, <2>1
  <1> HIDE DEF ph
  <1>6. CASE After(d) = ph
    BY <1>2, <1>3, <1>6
  <1>7. CASE After(d) = cmd.phases
    BY <1>1, <1>7
  <1> QED
    BY <1>4, <1>5, <1>6, <1>7

LEMMA FailedTypes ==
    ASSUME TypeOK, NEW w \in Workers, jobs[w] # NoJob, Failed(w)
    PROVE  cmd' \in CommandSet /\ jobs' \in [Workers -> JobSet]
  <1>1. jobs[w].doc \in Docs
    BY BusyFacts
  <1>2. After(jobs[w].doc) \in Seq(PhaseSet)
    BY AfterFacts
  <1>3. cmd' \in CommandSet
    BY <1>1, <1>2 DEF Failed, TypeOK, CommandSet
  <1>4. jobs' \in [Workers -> JobSet]
    BY DEF Failed, TypeOK, JobSet
  <1> QED
    BY <1>3, <1>4

LEMMA TypeInit == Init => TypeOK
  <1> SUFFICES ASSUME Init PROVE TypeOK
    OBVIOUS
  <1>1. \A d \in Docs : 1 \in DOMAIN Layouts[d]
    <2>1. \A d \in Docs : Layouts[d] \in Seq(Payloads) /\ Layouts[d] # <<>>
      BY PayloadAssumption, LoadAssumption
    <2> QED
      BY <2>1
  <1>2. nodes \in [DOMAIN nodes -> NodeSet]
    BY DEF Init
  <1> QED
    BY <1>1, <1>2, NoCommandFacts DEF Init, TypeOK, JobSet

LEMMA TypeStep == TypeOK /\ [Next]_vars => TypeOK'
  <1> SUFFICES ASSUME TypeOK, [Next]_vars PROVE TypeOK'
    OBVIOUS
  <1> USE DEF corpus, graph
  <1>0. /\ disk \in [Docs -> Nat] /\ \A d \in Docs : disk[d] \in DOMAIN Layouts[d]
        /\ extracted \subseteq Docs /\ nodes \in [DOMAIN nodes -> NodeSet]
        /\ cmd \in CommandSet /\ jobs \in [Workers -> JobSet]
    BY DEF TypeOK
  <1>1. CASE InitSchema
    BY <1>0, <1>1, NoCommandFacts DEF InitSchema, TypeOK
  <1>2. CASE ClearDatabase
    <2>1. nodes' \in [DOMAIN nodes' -> NodeSet]
      BY <1>2 DEF ClearDatabase
    <2> QED
      BY <1>0, <1>2, <2>1, NoCommandFacts DEF ClearDatabase, TypeOK
  <1>3. CASE EndPhase
    <2>1. cmd.phases # <<>> => Tail(cmd.phases) \in Seq(PhaseSet)
      BY PhasesFacts
    <2>2. cmd' \in CommandSet
      BY <1>0, <1>3, <2>1 DEF EndPhase, CommandSet
    <2> QED
      BY <1>0, <1>3, <2>2 DEF EndPhase, TypeOK
  <1>4. CASE Crash
    BY <1>0, <1>4, NoCommandFacts DEF Crash, TypeOK, JobSet
  <1>5. CASE Extract
    BY <1>0, <1>5, NoCommandFacts DEF Extract, TypeOK
  <1>6. ASSUME NEW d \in Docs, Reparse(d) PROVE TypeOK'
    <2>1. Layouts[d] \in Seq(Payloads)
      BY PayloadAssumption
    <2>2. disk[d] + 1 \in DOMAIN Layouts[d]
      BY <1>0, <1>6, <2>1 DEF Reparse
    <2>3. disk' \in [Docs -> Nat] /\ \A x \in Docs : disk'[x] \in DOMAIN Layouts[x]
      BY <1>0, <1>6, <2>2 DEF Reparse
    <2> QED
      BY <1>0, <1>6, <2>3, NoCommandFacts DEF Reparse, TypeOK
  <1>7. ASSUME NEW name \in Commands, NEW d \in Docs, Start(name, d) PROVE TypeOK'
    <2>1. name \in CommandNames
      BY LoadAssumption
    <2>2. PhasesOf(name, d) \in Seq(PhaseSet)
      BY <2>1, PhaseFacts
    <2>3. cmd' \in CommandSet
      BY <1>7, <2>1, <2>2 DEF Start, NoCommand, CommandSet
    <2> QED
      BY <1>0, <1>7, <2>3 DEF Start, TypeOK
  <1>8. ASSUME NEW w \in Workers, Take(w) PROVE TypeOK'
    <2>1. PICK i \in DOMAIN Order :
            /\ jobs' = [jobs EXCEPT ![w] =
                  [NoJob EXCEPT !.op = Current.op, !.doc = Order[i], !.mode = Current.mode]]
            /\ cmd' = [cmd EXCEPT !.phases[1].docs = @ \ {Order[i]}]
      BY <1>8 DEF Take
    <2>2. Current \in PhaseSet /\ Current = cmd.phases[1] /\ 1 \in DOMAIN cmd.phases
      BY <1>8, PhasesFacts DEF Take
    <2>3. Order[i] \in Docs
      BY OrderFacts
    <2>4. jobs' \in [Workers -> JobSet]
      <3>1. [NoJob EXCEPT !.op = Current.op, !.doc = Order[i], !.mode = Current.mode] \in JobSet
        BY <2>2, <2>3 DEF NoJob, JobSet, PhaseSet
      <3> QED
        BY <1>0, <2>1, <3>1
    <2>5. cmd' \in CommandSet
      <3> DEFINE q == [cmd.phases[1] EXCEPT !.docs = @ \ {Order[i]}]
                 ph == [cmd.phases EXCEPT ![1] = q]
      <3>1. q \in PhaseSet
        BY <2>2 DEF PhaseSet
      <3>2. cmd' = [cmd EXCEPT !.phases = ph]
        BY <2>1
      <3> HIDE DEF q
      <3>3. ph \in Seq(PhaseSet)
        BY <2>2, <3>1, PhasesFacts, ExceptSeq
      <3> HIDE DEF ph
      <3> QED
        BY <1>0, <3>2, <3>3 DEF CommandSet
    <2> QED
      BY <1>0, <1>8, <2>4, <2>5 DEF Take, TypeOK
  <1>9. ASSUME NEW w \in Workers, jobs[w].op = "write", Advance(w)
        PROVE  cmd' \in CommandSet /\ jobs' \in [Workers -> JobSet]
    <2>1. [jobs[w] EXCEPT !.done = @ + 1] \in JobSet
      BY <1>9, JobFacts DEF JobSet
    <2> QED
      BY <1>0, <1>9, <2>1 DEF Advance
  <1>10. ASSUME NEW w \in Workers, WriteNode(w) PROVE TypeOK'
    <2>1. cmd' \in CommandSet /\ jobs' \in [Workers -> JobSet]
      BY <1>9, <1>10 DEF WriteNode, Writing
    <2>2. Text(w) \in Nat
      BY <1>0, <1>10, JobFacts DEF Text, WriteNode, Writing
    <2>3. nodes' \in [DOMAIN nodes' -> NodeSet]
      BY <1>0, <1>10, <2>2 DEF WriteNode, MergeNode, NodeSet, Unembedded, NoVector
    <2> QED
      BY <1>0, <1>10, <2>1, <2>3 DEF WriteNode, TypeOK
  <1>11. ASSUME NEW w \in Workers, WriteRelation(w) PROVE TypeOK'
    BY <1>0, <1>9, <1>11 DEF WriteRelation, Writing, TypeOK
  <1>12. ASSUME NEW w \in Workers, Reconcile(w) PROVE TypeOK'
    <2>1. jobs[w].op = "write" /\ jobs[w] # NoJob
      BY <1>12, NoJobFacts DEF Reconcile, Writing
    <2>2. cmd' \in CommandSet /\ jobs' \in [Workers -> JobSet]
      BY <1>9, <1>12, <2>1, FailedTypes DEF Reconcile
    <2> QED
      BY <1>0, <1>12, <2>2 DEF Reconcile, TypeOK
  <1>13. ASSUME NEW w \in Workers, FindStale(w) PROVE TypeOK'
    <2>1. jobs[w].op = "embed" /\ jobs[w] # NoJob
      BY <1>13, NoJobFacts DEF FindStale
    <2>2. CASE Failed(w)
      BY <1>0, <1>13, <2>1, <2>2, FailedTypes DEF FindStale, TypeOK
    <2>3. CASE /\ jobs' = [jobs EXCEPT ![w].done = 1, ![w].left = Stale(Given(w), Text(w))]
               /\ UNCHANGED cmd
      <3>1. Stale(Given(w), Text(w)) \in SUBSET Ids
        <4>1. /\ jobs[w].doc \in Docs /\ disk[jobs[w].doc] \in DOMAIN Layouts[jobs[w].doc]
              /\ Full(jobs[w].doc, jobs[w].mode) \in BOOLEAN
          BY <2>1, JobFacts DEF Full
        <4>2. Given(w) \in Payloads
          BY <4>1, BuildFacts DEF Given, Payload
        <4>3. Range(Given(w).nodes) \subseteq Ids
          BY <4>2, InRange DEF Payloads
        <4> QED
          BY <4>3 DEF Stale, Targets
      <3>2. [jobs[w] EXCEPT !.done = 1, !.left = Stale(Given(w), Text(w))] \in JobSet
        BY <2>1, <3>1, JobFacts DEF JobSet
      <3>3. jobs' = [jobs EXCEPT ![w] =
                        [jobs[w] EXCEPT !.done = 1, !.left = Stale(Given(w), Text(w))]]
        BY <1>0, <2>3
      <3>4. jobs' \in [Workers -> JobSet]
        BY <1>0, <3>2, <3>3
      <3> QED
        BY <1>0, <1>13, <2>3, <3>4 DEF FindStale, TypeOK
    <2> QED
      BY <1>13, <2>2, <2>3 DEF FindStale
  <1>14. ASSUME NEW w \in Workers, WriteVector(w) PROVE TypeOK'
    <2>1. PICK n \in jobs[w].left :
             /\ nodes' = [nodes EXCEPT ![n].vector = Text(w), ![n].hash = Text(w)]
             /\ jobs' = [jobs EXCEPT ![w].left = @ \ {n}]
             /\ UNCHANGED <<corpus, edges, cmd, commands, faults>>
      BY <1>14 DEF WriteVector
    <2>2. jobs[w].op # "none"
      BY <1>0, <2>1, NoJobFacts DEF JobSet
    <2>3. Text(w) \in Nat
      BY <1>0, <2>2, JobFacts DEF Text
    <2>4. nodes' \in [DOMAIN nodes' -> NodeSet]
      BY <1>0, <2>1, <2>3 DEF NodeSet
    <2>5. [jobs[w] EXCEPT !.left = @ \ {n}] \in JobSet
      BY <2>2, JobFacts DEF JobSet
    <2> QED
      BY <1>0, <2>1, <2>4, <2>5 DEF TypeOK
  <1>15. ASSUME NEW w \in Workers, Done(w) PROVE TypeOK'
    <2>1. jobs[w].op # "none" /\ jobs[w].doc \in Docs
      BY <1>15, JobFacts DEF Done, Finished
    <2>2. cmd' \in CommandSet
      BY <1>0, <1>15, <2>1 DEF Done, CommandSet
    <2> QED
      BY <1>0, <1>15, <2>2 DEF Done, TypeOK, JobSet
  <1>16. ASSUME NEW w \in Workers, StatementFails(w) PROVE TypeOK'
    BY <1>0, <1>16, FailedTypes DEF StatementFails, TypeOK
  <1>17. CASE UNCHANGED vars
    BY <1>0, <1>17 DEF vars, TypeOK
  <1> QED
    BY <1>1, <1>2, <1>3, <1>4, <1>5, <1>6, <1>7, <1>8, <1>10, <1>11, <1>12, <1>13,
       <1>14, <1>15, <1>16, <1>17 DEF Next, Step

-----------------------------------------------------------------------------
(* What a statement of one document leaves alone.                          *)

LEMMA OwnFacts ==
    ASSUME TypeOK, NEW d \in Docs
    PROVE  /\ disk[d] \in DOMAIN Layouts[d]
           /\ disk[d] \in Nat /\ disk[d] \in 1..disk[d] /\ disk[d] # NoVector
           /\ 1..disk[d] \subseteq DOMAIN Layouts[d]
  <1>1. disk[d] \in DOMAIN Layouts[d] /\ Layouts[d] \in Seq(Payloads)
    BY PayloadAssumption DEF TypeOK
  <1> QED
    BY <1>1 DEF NoVector

\* A unit belongs to one document.
LEMMA OneOwner ==
    ASSUME NEW d \in Docs, NEW e \in Docs, NEW v \in DOMAIN Layouts[d],
           NEW u \in DOMAIN Layouts[e], NEW n,
           n \in Range(Layouts[d][v].nodes), n \in Range(Layouts[e][u].nodes)
    PROVE  d = e
  BY PayloadAssumption

LEMMA MappedUnit ==
    ASSUME NEW d \in Docs, NEW v \in DOMAIN Layouts[d], NEW full \in BOOLEAN,
           NEW ms \in Mappings(Build(d, Layouts[d][v], full)), NEW m \in ms
    PROVE  m[3] \in Range(Layouts[d][v].nodes)
  <1> DEFINE own == Layouts[d][v]
             p == Build(d, own, full)
  <1>1. Structure(p) = Edges(own)
    BY BuildFacts
  <1>2. ms = SectionMappings(p) \/ ms = PartMappings(p) \/ ms = SubsectionMappings(p)
    BY DEF Mappings
  <1> HIDE DEF p
  <1>3. \E e \in Edges(own) : e[2] = m[3]
    BY <1>1, <1>2, MappingParts DEF Between
  <1> QED
    BY <1>3, LayoutIsTree

\* A step that changes the graph only as a statement of document d may
StepOf(d) ==
    /\ disk' = disk
    /\ DOMAIN nodes \subseteq DOMAIN nodes'
    /\ \A n \in DOMAIN nodes :
          \/ nodes'[n].text = nodes[n].text
          \/ n \in Units(d) /\ nodes'[n].text = disk[d]
          \/ Type[n] \notin Range(Labels)
    /\ \A e \in edges' : e \notin edges /\ e[3] = "CONTAINS" => e \in Edges(Own(d))
    /\ \A e \in edges : e \notin edges' =>
          e[2] \in Units(d) /\ e \notin Edges(Own(d))

LEMMA AppliedStays ==
    ASSUME TypeOK, NEW d \in Docs, StepOf(d), NEW e \in Docs, NEW full \in BOOLEAN,
           NEW i \in 1..Len(Scripts[e][disk[e]][full]),
           Applied(Scripts[e][disk[e]][full][i], e)
    PROVE  Applied(Scripts[e][disk[e]][full][i], e)'
  <1> DEFINE s == Scripts[e][disk[e]][full][i]
  <1>1. /\ \/ s.kind = "node"
           \/ s.kind = "relation"
           \/ s.kind = "clean" /\ s.of \in Mappings(Build(e, Own(e), full))
        /\ disk[e] \in DOMAIN Layouts[e] /\ disk[d] \in DOMAIN Layouts[d]
    <2>1. disk[e] \in DOMAIN Layouts[e] /\ disk[d] \in DOMAIN Layouts[d]
      BY OwnFacts
    <2>2. WellScripted(Scripts[e][disk[e]][full], Build(e, Own(e), full))
      BY <2>1, ScriptFacts DEF Own
    <2> QED
      BY <2>1, <2>2 DEF WellScripted
  <1>2. s' = s /\ Own(e)' = Own(e) /\ Units(e)' = Units(e) /\ disk'[e] = disk[e]
    BY DEF StepOf, Own, Units
  <1> HIDE DEF s
  <1>3. ASSUME s.kind = "node", s.of \in Units(e)
        PROVE  s.of \in DOMAIN nodes' /\ nodes'[s.of].text = disk[e]
    <2>1. s.of \in DOMAIN nodes /\ nodes[s.of].text = disk[e]
      BY <1>3 DEF Applied, s
    <2>2. Type[s.of] \in Range(Labels)
      BY <1>1, <1>3, LayoutFacts DEF Units, Own
    <2>3. s.of \in Units(d) => d = e
      BY <1>1, <1>3, OneOwner DEF Units, Own
    <2> QED
      BY <2>1, <2>2, <2>3 DEF StepOf
  <1>4. ASSUME s.kind = "relation", s.of \in Edges(Own(e))
        PROVE  s.of \in edges'
    <2>1. s.of \in edges
      BY <1>4 DEF Applied, s
    <2>2. s.of[2] \in Units(e)
      BY <1>1, <1>4, LayoutIsTree DEF Units, Own
    <2>3. s.of[2] \in Units(d) => d = e
      BY <1>1, <2>2, OneOwner DEF Units, Own
    <2> QED
      BY <1>4, <2>1, <2>3 DEF StepOf
  <1>5. ASSUME s.kind = "clean", NEW x \in Legacy(s.of), x \in edges'
        PROVE  FALSE
    <2>1. PICK m \in s.of : x = Containing(m[1], m[3])
      BY DEF Legacy
    <2>2. x[2] = m[3] /\ x[3] = "CONTAINS"
      BY <2>1 DEF Containing
    <2>3. x \notin edges
      BY <1>5 DEF Applied, s
    <2>4. x \in Edges(Own(d))
      BY <1>5, <2>2, <2>3 DEF StepOf
    <2>5. s.of \in Mappings(Build(e, Own(e), full))
      BY <1>1, <1>5
    <2>6. x[2] \in Units(e) /\ x \notin Edges(Own(e))
      BY <1>1, <2>1, <2>2, <2>5, MappedUnit, CleanupSpares DEF Units, Own
    <2>7. x[2] \in Units(d)
      BY <1>1, <2>4, LayoutIsTree DEF Units, Own
    <2>8. d = e
      BY <1>1, <2>6, <2>7, OneOwner DEF Units, Own
    <2> QED
      BY <2>4, <2>6, <2>8
  <1>6. Applied(s, e)'
    BY <1>2, <1>3, <1>4, <1>5 DEF Applied, Legacy
  <1> QED
    BY <1>6 DEF s

LEMMA WholeStays ==
    ASSUME TypeOK, NEW d \in Docs, StepOf(d), NEW e \in Docs, e # d, Whole(e)
    PROVE  Whole(e)'
  <1>1. disk[e] \in DOMAIN Layouts[e] /\ disk[d] \in DOMAIN Layouts[d]
    BY OwnFacts
  <1>2. /\ Own(e)' = Own(e) /\ Units(e)' = Units(e) /\ disk'[e] = disk[e]
        /\ Strays(e)' = Strays(e)
    BY DEF StepOf, Own, Units, Strays
  <1>3. \A n \in Units(e) : n \notin Units(d)
    BY <1>1, OneOwner DEF Units, Own
  <1>4. ASSUME NEW n \in Units(e) PROVE n \in DOMAIN nodes' /\ nodes'[n].text = disk[e]
    <2>1. Type[n] \in Range(Labels)
      BY <1>1, LayoutFacts DEF Units, Own
    <2> QED
      BY <1>3, <2>1 DEF StepOf, Whole
  <1>5. ASSUME NEW x \in Edges(Own(e)) PROVE x \in edges'
    <2>1. x[2] \in Units(e)
      BY <1>1, LayoutIsTree DEF Units, Own
    <2> QED
      BY <1>3, <2>1 DEF StepOf, Whole
  <1>6. ASSUME NEW x \in edges', x[3] = "CONTAINS", x[2] \in Units(e)
        PROVE  x \in Edges(Own(e)) \/ x \in Strays(e)
    <2>1. x \in Edges(Own(d)) => x[2] \in Units(d)
      BY <1>1, LayoutIsTree DEF Units, Own
    <2> QED
      BY <1>3, <1>6, <2>1 DEF StepOf, Whole
  <1> QED
    BY <1>2, <1>4, <1>5, <1>6 DEF Whole

LEMMA KnownStays ==
    ASSUME TypeOK, Known, NEW d \in Docs, StepOf(d)
    PROVE  Known'
  <1>1. disk' = disk /\ disk[d] \in 1..disk[d]
    BY OwnFacts DEF StepOf
  <1>2. ASSUME NEW e \in edges', e[3] = "CONTAINS" PROVE OfLayout(e)
    BY <1>1, <1>2 DEF StepOf, Known, OfLayout, Own
  <1> QED
    BY <1>1, <1>2 DEF Known, OfLayout

-----------------------------------------------------------------------------
(* The statements of a write.                                              *)

LEMMA WriterFacts ==
    ASSUME TypeOK, NEW w \in Workers, jobs[w].op = "write"
    PROVE  /\ w \in Writers
           /\ jobs[w].doc \in Docs /\ jobs[w].done \in Nat
           /\ disk[jobs[w].doc] \in DOMAIN Layouts[jobs[w].doc]
           /\ Full(jobs[w].doc, jobs[w].mode) \in BOOLEAN
           /\ Len(Script(w)) \in Nat
           /\ jobs[w].done < Len(Script(w)) => jobs[w].done + 1 \in 1..Len(Script(w))
  <1>1. /\ jobs[w].doc \in Docs /\ jobs[w].done \in Nat
        /\ disk[jobs[w].doc] \in DOMAIN Layouts[jobs[w].doc]
    BY JobFacts
  <1>2. Full(jobs[w].doc, jobs[w].mode) \in BOOLEAN
    BY DEF Full
  <1>3. Len(Script(w)) \in Nat
    BY <1>1, <1>2, ScriptFacts DEF Script, Text, WellScripted
  <1> QED
    BY <1>1, <1>2, <1>3 DEF Writers

\* What a payload of the layout on disk and the script of it consist of.
LEMMA OwnPayload ==
    ASSUME TypeOK, NEW d \in Docs, NEW full \in BOOLEAN
    PROVE  LET p == Build(d, Own(d), full)
           IN  /\ Structure(p) = Edges(Own(d)) /\ Structure(p) \subseteq Edges(p)
               /\ Units(d) \subseteq Range(p.nodes)
               /\ \A n \in Range(p.nodes) : n \in Units(d) \/ Type[n] \notin Range(Labels)
               /\ \A e \in Edges(p) : e \in Edges(Own(d)) \/ e[3] # "CONTAINS"
  <1>1. disk[d] \in DOMAIN Layouts[d]
    BY OwnFacts
  <1> QED
    BY <1>1, BuildFacts, LayoutFacts DEF Structure, Own, Units

LEMMA OwnScript ==
    ASSUME TypeOK, NEW d \in Docs, NEW full \in BOOLEAN
    PROVE  WellScripted(Scripts[d][disk[d]][full], Build(d, Own(d), full))
  <1>1. disk[d] \in DOMAIN Layouts[d]
    BY OwnFacts
  <1> QED
    BY <1>1, ScriptFacts DEF Own

LEMMA OwnTree ==
    ASSUME TypeOK, NEW d \in Docs
    PROVE  /\ \A e \in Edges(Own(d)) :
                 /\ e \in Ids \X Ids \X STRING /\ e[3] = "CONTAINS"
                 /\ e[1] \in Units(d) /\ e[2] \in Units(d)
                 /\ <<Type[e[1]], Type[e[2]]>> \in StructuralPairs
           /\ \A e, f \in Edges(Own(d)) : e[2] = f[2] => e = f
           /\ \A n \in Units(d) \ {d} : \E e \in Edges(Own(d)) : e[2] = n
           /\ \A n \in Units(d) :
                 Type[n] \in Range(Labels) /\ (Type[n] = "Document" <=> n = d)
  <1>1. disk[d] \in DOMAIN Layouts[d]
    BY OwnFacts
  <1> QED
    BY <1>1, LayoutIsTree, LayoutFacts DEF Own, Units

\* The script of a thread, and the payload that it was made from
ScriptFrom(w, p) ==
    /\ WellScripted(Script(w), p)
    /\ \E full \in BOOLEAN : p = Build(jobs[w].doc, Own(jobs[w].doc), full)
    /\ Structure(p) = Edges(Own(jobs[w].doc)) /\ Structure(p) \subseteq Edges(p)
    /\ Units(jobs[w].doc) \subseteq Range(p.nodes)
    /\ \A n \in Range(p.nodes) : n \in Units(jobs[w].doc) \/ Type[n] \notin Range(Labels)
    /\ \A e \in Edges(p) : e \in Edges(Own(jobs[w].doc)) \/ e[3] # "CONTAINS"

LEMMA ScriptExists ==
    ASSUME TypeOK, NEW w \in Writers
    PROVE  \E p : ScriptFrom(w, p)
  <1>1. PICK d : d = jobs[w].doc
    OBVIOUS
  <1>2. PICK full \in BOOLEAN : Script(w) = Scripts[d][disk[d]][full]
    <2>1. Full(d, jobs[w].mode) \in BOOLEAN
      BY DEF Full
    <2>2. Script(w) = Scripts[d][disk[d]][Full(d, jobs[w].mode)]
      BY <1>1 DEF Script, Text
    <2> QED
      BY <2>1, <2>2
  <1>3. d \in Docs
    BY <1>1, WriterFacts DEF Writers
  <1>4. PICK p : p = Build(d, Own(d), full)
    OBVIOUS
  <1>5. WellScripted(Script(w), p)
    BY <1>2, <1>3, <1>4, OwnScript
  <1>6. /\ Structure(p) = Edges(Own(d)) /\ Structure(p) \subseteq Edges(p)
        /\ Units(d) \subseteq Range(p.nodes)
        /\ \A n \in Range(p.nodes) : n \in Units(d) \/ Type[n] \notin Range(Labels)
        /\ \A e \in Edges(p) : e \in Edges(Own(d)) \/ e[3] # "CONTAINS"
    BY <1>3, <1>4, OwnPayload
  <1>7. ScriptFrom(w, p)
    BY <1>1, <1>4, <1>5, <1>6 DEF ScriptFrom
  <1> QED
    BY <1>7

\* The statement that a thread is at is one of its script.
LEMMA StatementFacts ==
    ASSUME TypeOK, NEW w \in Workers, NEW kind, Writing(w, kind), NEW p, ScriptFrom(w, p),
           NEW s, s = Statement(w)
    PROVE  /\ w \in Writers /\ jobs[w].doc \in Docs
           /\ disk[jobs[w].doc] \in DOMAIN Layouts[jobs[w].doc]
           /\ Len(Script(w)) \in Nat
           /\ jobs[w].done \in Nat /\ jobs[w].done + 1 \in 1..Len(Script(w))
           /\ s = Script(w)[jobs[w].done + 1] /\ s.kind = kind
           /\ kind = "node" => s.of \in Range(p.nodes)
           /\ kind = "relation" => s.of \in Edges(p)
           /\ kind = "clean" => s.of \in Mappings(p)
  <1>1. jobs[w].op = "write" /\ jobs[w].done < Len(Script(w)) /\ s.kind = kind
    BY DEF Writing
  <1>2. /\ w \in Writers /\ jobs[w].doc \in Docs
        /\ disk[jobs[w].doc] \in DOMAIN Layouts[jobs[w].doc]
        /\ Len(Script(w)) \in Nat
        /\ jobs[w].done \in Nat /\ jobs[w].done + 1 \in 1..Len(Script(w))
    BY <1>1, WriterFacts
  <1>3. s = Script(w)[jobs[w].done + 1]
    BY DEF Statement
  <1>4. WellScripted(Script(w), p)
    BY DEF ScriptFrom
  <1>5. \/ s.kind = "node" /\ s.of \in Range(p.nodes)
        \/ s.kind = "relation" /\ s.of \in Edges(p)
        \/ s.kind = "clean" /\ s.of \in Mappings(p)
    BY <1>2, <1>3, <1>4 DEF WellScripted
  <1> QED
    BY <1>1, <1>2, <1>3, <1>5

LEMMA WriteNodeStep ==
    ASSUME TypeOK, Anchored, NEW w \in Workers, WriteNode(w),
           NEW d, d = jobs[w].doc, NEW s, s = Statement(w)
    PROVE  StepOf(d) /\ Applied(s, d)' /\ Anchored'
  <1>0. PICK p : ScriptFrom(w, p)
    <2>1. w \in Writers
      BY DEF WriteNode, Writing, Writers
    <2> QED
      BY <2>1, ScriptExists
  <1>1. /\ d \in Docs /\ disk[d] \in DOMAIN Layouts[d] /\ s.kind = "node"
        /\ s.of \in Range(p.nodes)
    BY <1>0, StatementFacts DEF WriteNode
  <1>2. /\ disk' = disk /\ edges' = edges /\ Text(w) = disk[d]
        /\ MergeNode(s.of, disk[d])
    BY DEF WriteNode, corpus, Text
  <1>3. s.of \in Units(d) \/ Type[s.of] \notin Range(Labels)
    BY <1>0, <1>1 DEF ScriptFrom
  <1>4. nodes \in [DOMAIN nodes -> NodeSet]
    BY DEF TypeOK
  <1>5. /\ DOMAIN nodes' = DOMAIN nodes \cup {s.of}
        /\ nodes'[s.of].text = disk[d]
        /\ \A n \in DOMAIN nodes \ {s.of} : nodes'[n] = nodes[n]
    <2>1. nodes' = [n \in DOMAIN nodes \cup {s.of} |->
                IF n # s.of THEN nodes[n]
                ELSE IF s.of \in DOMAIN nodes
                THEN [nodes[s.of] EXCEPT !.text = disk[d], !.vector = NoVector]
                ELSE Unembedded(disk[d])]
      BY <1>2 DEF MergeNode
    <2>2. \A n \in DOMAIN nodes : nodes[n] \in NodeSet
      BY <1>4
    <2> QED
      BY <2>1, <2>2 DEF NodeSet, Unembedded
  <1>6. StepOf(d)
    BY <1>2, <1>3, <1>5 DEF StepOf
  <1>7. Applied(s, d)'
    BY <1>1, <1>2, <1>5 DEF Applied
  <1>8. Anchored'
    BY <1>2, <1>5 DEF Anchored
  <1> QED
    BY <1>6, <1>7, <1>8

\* The nodes come before the relations, so that no MATCH finds nothing.
LEMMA WriteRelationStep ==
    ASSUME TypeOK, Anchored, InWrite, NEW w \in Workers, WriteRelation(w),
           NEW d, d = jobs[w].doc, NEW s, s = Statement(w)
    PROVE  StepOf(d) /\ Applied(s, d)' /\ Anchored'
  <1>0. PICK p : ScriptFrom(w, p)
    <2>1. w \in Writers
      BY DEF WriteRelation, Writing, Writers
    <2> QED
      BY <2>1, ScriptExists
  <1> DEFINE k == jobs[w].done
  <1>1. /\ d \in Docs /\ disk[d] \in DOMAIN Layouts[d] /\ s.kind = "relation"
        /\ w \in Writers /\ Len(Script(w)) \in Nat /\ s.of \in Edges(p)
        /\ k \in Nat /\ k + 1 \in 1..Len(Script(w)) /\ s = Script(w)[k + 1]
    BY <1>0, StatementFacts DEF WriteRelation
  <1>2. disk' = disk /\ nodes' = nodes /\ MergeRelation(s.of)
    BY DEF WriteRelation, corpus
  <1>3. s.of \in Edges(Own(d)) \/ s.of[3] # "CONTAINS"
    BY <1>0, <1>1 DEF ScriptFrom
  <1>4. ASSUME s.of \in Edges(Own(d)), NEW n \in {s.of[1], s.of[2]}
        PROVE  n \in DOMAIN nodes
    <2>0. s.of[1] \in Units(d) /\ s.of[2] \in Units(d)
      BY <1>1, <1>4, OwnTree
    <2>1. n \in Units(d)
      BY <1>4, <2>0
    <2>2. PICK i \in 1..Len(Script(w)) :
             Script(w)[i].kind = "node" /\ Script(w)[i].of = n
      BY <1>0, <1>1, <2>1 DEF ScriptFrom, WellScripted
    <2>3. i < k + 1
      BY <1>0, <1>1, <2>2 DEF ScriptFrom, WellScripted
    <2>4. Applied(Script(w)[i], d)
      BY <1>1, <2>2, <2>3 DEF InWrite
    <2> QED
      BY <2>1, <2>2, <2>4 DEF Applied
  <1>5. /\ edges \subseteq edges' /\ edges' \subseteq edges \cup {s.of}
        /\ s.of \in Edges(Own(d)) => s.of \in edges'
        /\ s.of \in edges' => s.of \in edges \/ {s.of[1], s.of[2]} \subseteq DOMAIN nodes
    BY <1>2, <1>4 DEF MergeRelation
  <1>6. StepOf(d)
    BY <1>2, <1>3, <1>5 DEF StepOf
  <1>7. Applied(s, d)'
    BY <1>1, <1>2, <1>5 DEF Applied, Own
  <1>8. Anchored'
    BY <1>2, <1>5 DEF Anchored
  <1> QED
    BY <1>6, <1>7, <1>8

LEMMA ReconcileStep ==
    ASSUME TypeOK, Anchored, NEW w \in Workers, Writing(w, "clean"),
           NEW d, d = jobs[w].doc, NEW s, s = Statement(w),
           edges' = edges \ Legacy(s.of), disk' = disk, nodes' = nodes
    PROVE  StepOf(d) /\ Applied(s, d)' /\ Anchored'
  <1>0. PICK p : ScriptFrom(w, p)
    <2>1. w \in Writers
      BY DEF Writing, Writers
    <2> QED
      BY <2>1, ScriptExists
  <1>1. /\ d \in Docs /\ disk[d] \in DOMAIN Layouts[d] /\ s.kind = "clean"
        /\ s.of \in Mappings(p)
    BY <1>0, StatementFacts
  <1>2. ASSUME NEW e \in Legacy(s.of) PROVE e[2] \in Units(d) /\ e \notin Edges(Own(d))
    <2>1. PICK m \in s.of : e = Containing(m[1], m[3])
      BY DEF Legacy
    <2>2. e[2] = m[3]
      BY <2>1 DEF Containing
    <2>3. PICK full \in BOOLEAN : p = Build(d, Own(d), full)
      BY <1>0 DEF ScriptFrom
    <2> QED
      BY <1>1, <2>1, <2>2, <2>3, MappedUnit, CleanupSpares DEF Units, Own
  <1>3. StepOf(d)
    BY <1>2 DEF StepOf
  <1>4. Applied(s, d)'
    BY <1>1 DEF Applied, Legacy
  <1>5. Anchored'
    BY DEF Anchored
  <1> QED
    BY <1>3, <1>4, <1>5

-----------------------------------------------------------------------------
(* The parts of the invariant, one step at a time.                         *)

LEMMA StatementStays ==
    ASSUME TypeOK, NEW d \in Docs, StepOf(d), NEW v \in Writers,
           NEW i \in 1..Len(Script(v)), NEW x, x = Script(v)[i],
           NEW e, e = jobs[v].doc, Applied(x, e)
    PROVE  Applied(x, e)'
  <1>1. PICK full \in BOOLEAN : Script(v) = Scripts[e][disk[e]][full]
    <2>1. Full(e, jobs[v].mode) \in BOOLEAN
      BY DEF Full
    <2>2. Script(v) = Scripts[e][disk[e]][Full(e, jobs[v].mode)]
      BY DEF Script, Text
    <2> QED
      BY <2>1, <2>2
  <1>2. e \in Docs
    BY WriterFacts DEF Writers
  <1>3. x = Scripts[e][disk[e]][full][i] /\ i \in 1..Len(Scripts[e][disk[e]][full])
    BY <1>1
  <1>4. Applied(Scripts[e][disk[e]][full][i], e)'
    BY <1>2, <1>3, AppliedStays
  <1>5. (Scripts[e][disk[e]][full][i])' = x
    BY <1>3 DEF StepOf
  <1> QED
    BY <1>4, <1>5

\* A thread has the document, the mode and the place in its script that it had.
Continues(v) ==
    /\ jobs'[v].op = jobs[v].op /\ jobs'[v].doc = jobs[v].doc
    /\ jobs'[v].mode = jobs[v].mode /\ jobs'[v].done = jobs[v].done

\* Threads go on with the scripts that they have, of documents that are written
\* by no one else.
LEMMA InWriteStays ==
    ASSUME TypeOK, InWrite, NEW d \in Docs, StepOf(d), extracted' = extracted,
           NEW v \in Writers, Continues(v)
    PROVE  /\ jobs'[v].done <= Len(Script(v)')
           /\ \A i \in 1..jobs'[v].done : Applied(Script(v)[i], jobs[v].doc)'
  <1>1. PICK e : e = jobs[v].doc
    OBVIOUS
  <1>2. PICK S : S = Script(v)
    OBVIOUS
  <1>3. /\ disk' = disk /\ Script(v)' = S /\ jobs'[v].doc = e
        /\ v \in Workers /\ jobs[v].op = "write"
    BY <1>1, <1>2 DEF StepOf, Script, Text, Full, Writers, Continues
  <1>4. /\ jobs[v].done <= Len(S) /\ jobs[v].done \in Nat /\ Len(S) \in Nat
        /\ \A i \in 1..jobs[v].done : Applied(S[i], e)
    BY <1>1, <1>2, <1>3, WriterFacts DEF InWrite
  <1>5. ASSUME NEW i \in 1..jobs[v].done PROVE Applied(S[i], e)'
    <2>1. PICK x : x = S[i]
      OBVIOUS
    <2>2. i \in 1..Len(Script(v)) /\ x = Script(v)[i] /\ Applied(x, e)
      BY <1>2, <1>4, <2>1
    <2>3. Applied(x, e)'
      BY <1>1, <2>2, StatementStays
    <2> QED
      BY <2>1, <2>3
  <1>6. jobs'[v].done = jobs[v].done
    BY DEF Continues
  <1> QED
    BY <1>3, <1>4, <1>5, <1>6

\* A statement that was carried out: the graph changes as its document allows, the
\* thread goes on, and the command is as it was.
LEMMA AdvanceStep ==
    ASSUME IInv, TypeOK', NEW w \in Writers, NEW d, d = jobs[w].doc,
           NEW s, s = Statement(w), jobs[w].done < Len(Script(w)),
           StepOf(d), Applied(s, d)', Anchored', Advance(w), extracted' = extracted
    PROVE  IInv'
  <1>1. /\ TypeOK /\ Attended /\ Known /\ WrittenOnce /\ InWrite /\ WrittenWhole
        /\ w \in Workers /\ jobs[w].op = "write" /\ disk' = disk
    BY DEF IInv, Writers, StepOf
  <1>2. d \in Docs /\ jobs[w].done \in Nat /\ Len(Script(w)) \in Nat
    BY <1>1, WriterFacts
  <1>3. /\ cmd' = cmd /\ jobs' = [jobs EXCEPT ![w].done = @ + 1]
        /\ jobs \in [Workers -> JobSet] /\ jobs[w] # NoJob
    BY <1>1, JobFacts DEF Advance, TypeOK
  <1>4. /\ \A v \in Workers \ {w} : jobs'[v] = jobs[v]
        /\ jobs'[w].op = "write" /\ jobs'[w].doc = d
        /\ jobs'[w].mode = jobs[w].mode /\ jobs'[w].done = jobs[w].done + 1
    <2>1. jobs[w] \in [op : {"write", "embed"}, doc : Docs,
                       mode : {"full", "structural"}, done : Nat, left : SUBSET Ids]
      BY <1>1, JobFacts
    <2> QED
      BY <1>1, <1>3, <2>1
  <1>5. Known'
    BY <1>1, <1>2, KnownStays
  <1>6. Writers' = Writers /\ \A v \in Writers : jobs'[v].doc = jobs[v].doc
    BY <1>1, <1>4 DEF Writers
  <1>7. Attended'
    <2>1. cmd.at = "run"
      BY <1>1, <1>3 DEF Attended, Quiet
    <2> QED
      BY <1>3, <2>1 DEF Attended, Quiet
  <1>8. WrittenOnce'
    BY <1>1, <1>3, <1>6 DEF WrittenOnce, WritePhases
  <1>9. InWrite'
    <2>1. PICK S : S = Script(w)
      OBVIOUS
    <2>2. Script(w)' = S
      BY <1>1, <1>4, <2>1 DEF Script, Text, Full
    <2>3. ASSUME NEW i \in 1..jobs'[w].done PROVE Applied(S[i], d)'
      <3>1. CASE i = jobs[w].done + 1
        <4>1. S[i] = s
          BY <2>1, <3>1 DEF Statement
        <4> QED
          BY <4>1
      <3>2. CASE i # jobs[w].done + 1
        <4>1. i \in 1..jobs[w].done /\ i \in 1..Len(Script(w))
          BY <1>2, <1>4, <3>2
        <4>2. PICK x : x = S[i]
          OBVIOUS
        <4>3. x = Script(w)[i] /\ Applied(x, d)
          BY <1>1, <2>1, <4>1, <4>2 DEF InWrite
        <4>4. Applied(x, d)'
          BY <1>1, <1>2, <4>1, <4>3, StatementStays
        <4> QED
          BY <4>2, <4>4
      <3> QED
        BY <3>1, <3>2
    <2>4. /\ jobs'[w].done <= Len(Script(w)')
          /\ \A i \in 1..jobs'[w].done : Applied(Script(w)[i], jobs[w].doc)'
      BY <1>2, <1>4, <2>1, <2>2, <2>3
    <2>5. ASSUME NEW v \in Writers \ {w}
          PROVE  /\ jobs'[v].done <= Len(Script(v)')
                 /\ \A i \in 1..jobs'[v].done : Applied(Script(v)[i], jobs[v].doc)'
      <3>1. Continues(v) /\ v \in Writers
        BY <1>4 DEF Writers, Continues
      <3> QED
        BY <1>1, <1>2, <3>1, InWriteStays
    <2> QED
      BY <1>6, <2>4, <2>5 DEF InWrite
  <1>10. WrittenWhole'
    <2>1. ASSUME NEW e \in cmd.written PROVE Whole(e)'
      <3>1. e # d /\ e \in Docs /\ Whole(e)
        BY <1>1 DEF WrittenOnce, WrittenWhole, TypeOK, CommandSet
      <3> QED
        BY <1>1, <1>2, <3>1, WholeStays
    <2> QED
      BY <1>3, <2>1 DEF WrittenWhole
  <1> QED
    BY <1>5, <1>7, <1>8, <1>9, <1>10 DEF IInv

\* A step that leaves the graph and the corpus alone and the scripts where they are
LEMMA GraphStays ==
    ASSUME TypeOK, InWrite, UNCHANGED <<disk, extracted, nodes, edges>>
    PROVE  /\ \A d \in Docs : StepOf(d)
           /\ \A d : Whole(d)' <=> Whole(d)
           /\ \A v \in Writers : Continues(v) =>
                 /\ jobs'[v].done <= Len(Script(v)')
                 /\ \A i \in 1..jobs'[v].done : Applied(Script(v)[i], jobs[v].doc)'
  <1>1. ASSUME NEW d \in Docs PROVE StepOf(d)
    BY DEF StepOf
  <1>2. ASSUME NEW d PROVE Whole(d)' <=> Whole(d)
    BY DEF Whole, Units, Own, Strays
  <1>3. ASSUME NEW v \in Writers, Continues(v)
        PROVE  /\ jobs'[v].done <= Len(Script(v)')
               /\ \A i \in 1..jobs'[v].done : Applied(Script(v)[i], jobs[v].doc)'
    <2>1. PICK d : d \in Docs
      BY WriterFacts DEF Writers
    <2> QED
      BY <1>1, <1>3, <2>1, InWriteStays
  <1> QED
    BY <1>1, <1>2, <1>3

\* A write that came to its end has made its document whole: an edge that an older
\* layout left into a unit is of the layout on disk or a stray, or a cleanup has
\* removed it.
LEMMA FinishedWhole ==
    ASSUME IInv, NEW w \in Writers, jobs[w].done = Len(Script(w)), NEW d, d = jobs[w].doc
    PROVE  Whole(d)
  <1>1. TypeOK /\ Known /\ InWrite /\ w \in Workers /\ jobs[w].op = "write"
    BY DEF IInv, Writers
  <1>2. PICK p : ScriptFrom(w, p)
    BY <1>1, ScriptExists
  <1>3. PICK S : S = Script(w)
    OBVIOUS
  <1>4. \A i \in 1..Len(S) : Applied(S[i], d)
    BY <1>1, <1>3 DEF InWrite
  <1>5. WellScripted(S, p)
    BY <1>2, <1>3 DEF ScriptFrom
  <1>6. d \in Docs /\ disk[d] \in DOMAIN Layouts[d] /\ disk[d] \in Nat
    BY <1>1, WriterFacts, OwnFacts
  <1>7. ASSUME NEW n \in Units(d) PROVE n \in DOMAIN nodes /\ nodes[n].text = disk[d]
    <2>1. n \in Range(p.nodes)
      BY <1>2 DEF ScriptFrom
    <2>2. PICK i \in 1..Len(S) : S[i].kind = "node" /\ S[i].of = n
      BY <1>5, <2>1 DEF WellScripted
    <2>3. Applied(S[i], d)
      BY <1>4
    <2> QED
      BY <2>2, <2>3 DEF Applied
  <1>8. ASSUME NEW e \in Edges(Own(d)) PROVE e \in edges
    <2>1. e \in Edges(p)
      BY <1>2 DEF ScriptFrom
    <2>2. PICK i \in 1..Len(S) : S[i].kind = "relation" /\ S[i].of = e
      BY <1>5, <2>1 DEF WellScripted
    <2>3. Applied(S[i], d)
      BY <1>4
    <2> QED
      BY <2>2, <2>3 DEF Applied
  <1>9. ASSUME NEW e \in edges, e[3] = "CONTAINS", e[2] \in Units(d),
               e \notin Edges(Own(d)), e \notin Strays(d)
        PROVE  FALSE
    <2>1. PICK f \in Docs : \E v \in 1..disk[f] : e \in Edges(Layouts[f][v])
      BY <1>1, <1>9 DEF Known, OfLayout
    <2>2. PICK v \in 1..disk[f] : e \in Edges(Layouts[f][v])
      BY <2>1
    <2>3. v \in DOMAIN Layouts[f]
      BY <1>1, OwnFacts
    <2>4. e[2] \in Range(Layouts[f][v].nodes)
      BY <2>2, <2>3, LayoutIsTree
    <2>5. f = d
      BY <1>6, <1>9, <2>3, <2>4, OneOwner DEF Units, Own
    <2>6. v < disk[d]
      BY <1>6, <1>9, <2>2, <2>5 DEF Own
    <2>7. Kept(Own(d), e)
      BY <1>6, <1>9, <2>2, <2>3, <2>5, <2>6 DEF Strays, Own
    <2>8. e \in Ids \X Ids \X STRING
      BY <2>2, <2>3, LayoutFacts
    <2>9. PICK full \in BOOLEAN : p = Build(d, Own(d), full)
      BY <1>2 DEF ScriptFrom
    <2>10. PICK ms \in Mappings(p) : ms # {} /\ e \in Legacy(ms)
      BY <1>6, <1>9, <2>7, <2>8, <2>9, CleanupReaches DEF Own
    <2>11. PICK i \in 1..Len(S) : S[i].kind = "clean" /\ S[i].of = ms
      BY <1>5, <2>10 DEF WellScripted
    <2>12. Applied(S[i], d)
      BY <1>4
    <2> QED
      BY <1>9, <2>10, <2>11, <2>12 DEF Applied
  <1> QED
    BY <1>7, <1>8, <1>9 DEF Whole

-----------------------------------------------------------------------------
(* What a command's own steps do to its phases and threads.                *)

\* A thread takes one document out of the first phase.
LEMMA TakeFacts ==
    ASSUME TypeOK, NEW w \in Workers, Take(w)
    PROVE  \E d \in Docs :
              /\ cmd.at = "run" /\ cmd.phases # <<>> /\ jobs[w] = NoJob
              /\ d \in cmd.phases[1].docs /\ 1 \in DOMAIN cmd.phases
              /\ DOMAIN cmd'.phases = DOMAIN cmd.phases
              /\ \A i \in DOMAIN cmd.phases \ {1} : cmd'.phases[i] = cmd.phases[i]
              /\ cmd'.phases[1].op = cmd.phases[1].op
              /\ cmd'.phases[1].docs = cmd.phases[1].docs \ {d}
              /\ cmd'.at = cmd.at /\ cmd'.name = cmd.name /\ cmd'.written = cmd.written
              /\ cmd'.embedded = cmd.embedded /\ cmd'.failed = cmd.failed
              /\ \A v \in Workers \ {w} : jobs'[v] = jobs[v]
              /\ jobs'[w].op = cmd.phases[1].op /\ jobs'[w].doc = d
              /\ jobs'[w].done = 0 /\ jobs'[w].left = {}
              /\ UNCHANGED <<disk, extracted, nodes, edges>>
  <1>1. PICK i \in DOMAIN Order :
          /\ Order[i] \in Current.docs
          /\ jobs' = [jobs EXCEPT ![w] =
                [NoJob EXCEPT !.op = Current.op, !.doc = Order[i], !.mode = Current.mode]]
          /\ cmd' = [cmd EXCEPT !.phases[1].docs = @ \ {Order[i]}]
    BY DEF Take
  <1>2. /\ cmd.phases \in Seq(PhaseSet) /\ Current = cmd.phases[1]
        /\ 1 \in DOMAIN cmd.phases /\ cmd.phases[1] \in PhaseSet
        /\ DOMAIN cmd.phases = 1..Len(cmd.phases) /\ Len(cmd.phases) \in Nat
    BY PhasesFacts DEF Take
  <1>3. Order[i] \in Docs
    BY OrderFacts
  <1>4. jobs \in [Workers -> JobSet] /\ cmd \in CommandSet
    BY DEF TypeOK
  <1> DEFINE q == [cmd.phases[1] EXCEPT !.docs = @ \ {Order[i]}]
             ph == [cmd.phases EXCEPT ![1] = q]
  <1>5. q.op = cmd.phases[1].op /\ q.docs = cmd.phases[1].docs \ {Order[i]}
    BY <1>2 DEF PhaseSet
  <1>6. cmd' = [cmd EXCEPT !.phases = ph]
    BY <1>1
  <1>7. /\ DOMAIN ph = DOMAIN cmd.phases /\ ph[1] = q
        /\ \A j \in DOMAIN cmd.phases \ {1} : ph[j] = cmd.phases[j]
    BY <1>2
  <1> HIDE DEF q, ph
  <1>8. /\ cmd'.phases = ph
        /\ cmd'.at = cmd.at /\ cmd'.name = cmd.name /\ cmd'.written = cmd.written
        /\ cmd'.embedded = cmd.embedded /\ cmd'.failed = cmd.failed
    BY <1>4, <1>6 DEF CommandSet
  <1>9. /\ \A v \in Workers \ {w} : jobs'[v] = jobs[v]
        /\ jobs'[w].op = cmd.phases[1].op /\ jobs'[w].doc = Order[i]
        /\ jobs'[w].done = 0 /\ jobs'[w].left = {}
    BY <1>1, <1>2, <1>4 DEF NoJob
  <1>10. /\ cmd.at = "run" /\ cmd.phases # <<>> /\ jobs[w] = NoJob
         /\ UNCHANGED <<disk, extracted, nodes, edges>>
    BY DEF Take, corpus, graph
  <1> QED
    BY <1>1, <1>2, <1>3, <1>5, <1>7, <1>8, <1>9, <1>10

LEMMA FailedFacts ==
    ASSUME TypeOK, NEW w \in Workers, jobs[w] # NoJob, Failed(w)
    PROVE  /\ DOMAIN cmd'.phases \subseteq DOMAIN cmd.phases
           /\ \A i \in DOMAIN cmd'.phases :
                 /\ cmd'.phases[i].op = cmd.phases[i].op
                 /\ cmd'.phases[i].docs \subseteq cmd.phases[i].docs
           /\ cmd'.at = cmd.at /\ cmd'.name = cmd.name /\ cmd'.written = cmd.written
           /\ cmd'.embedded = cmd.embedded
           /\ cmd'.failed = cmd.failed \cup {jobs[w].doc}
           /\ \A v \in Workers \ {w} : jobs'[v] = jobs[v]
           /\ jobs'[w] = NoJob
  <1>1. jobs \in [Workers -> JobSet] /\ cmd \in CommandSet
    BY DEF TypeOK
  <1>2. PICK ph : ph = After(jobs[w].doc)
    OBVIOUS
  <1>3. /\ DOMAIN ph \subseteq DOMAIN cmd.phases
        /\ \A i \in DOMAIN ph :
              /\ ph[i].op = cmd.phases[i].op
              /\ ph[i].docs \subseteq cmd.phases[i].docs
    BY <1>2, AfterFacts
  <1>4. cmd' = [cmd EXCEPT !.phases = ph, !.failed = @ \cup {jobs[w].doc}]
    BY <1>2 DEF Failed
  <1>5. /\ cmd'.phases = ph /\ cmd'.at = cmd.at /\ cmd'.name = cmd.name
        /\ cmd'.written = cmd.written /\ cmd'.embedded = cmd.embedded
        /\ cmd'.failed = cmd.failed \cup {jobs[w].doc}
    BY <1>1, <1>4 DEF CommandSet
  <1>6. jobs'[w] = NoJob /\ \A v \in Workers \ {w} : jobs'[v] = jobs[v]
    BY <1>1 DEF Failed
  <1> QED
    BY <1>3, <1>5, <1>6

LEMMA DoneFacts ==
    ASSUME TypeOK, NEW w \in Workers, Done(w)
    PROVE  /\ jobs[w].op \in {"write", "embed"} /\ jobs[w].doc \in Docs
           /\ cmd'.at = cmd.at /\ cmd'.name = cmd.name /\ cmd'.phases = cmd.phases
           /\ cmd'.failed = cmd.failed
           /\ jobs[w].op = "write" =>
                 /\ cmd'.written = cmd.written \cup {jobs[w].doc}
                 /\ cmd'.embedded = cmd.embedded
                 /\ jobs[w].done = Len(Script(w))
           /\ jobs[w].op = "embed" =>
                 /\ cmd'.embedded = cmd.embedded \cup {jobs[w].doc}
                 /\ cmd'.written = cmd.written
                 /\ jobs[w].done = 1 /\ jobs[w].left = {}
           /\ \A v \in Workers \ {w} : jobs'[v] = jobs[v]
           /\ jobs'[w] = NoJob
           /\ UNCHANGED <<disk, extracted, nodes, edges>>
  <1>1. jobs \in [Workers -> JobSet] /\ cmd \in CommandSet
    BY DEF TypeOK
  <1>2. jobs[w].op \in {"write", "embed"} /\ jobs[w].op # "none"
    BY DEF Done, Finished
  <1>3. jobs[w].doc \in Docs
    BY <1>2, JobFacts
  <1>4. jobs'[w] = NoJob /\ \A v \in Workers \ {w} : jobs'[v] = jobs[v]
    BY <1>1 DEF Done
  <1>5. CASE jobs[w].op = "write"
    <2>1. cmd' = [cmd EXCEPT !.written = @ \cup {jobs[w].doc}]
      BY <1>5 DEF Done
    <2> QED
      BY <1>1, <1>3, <1>4, <1>5, <2>1 DEF Done, Finished, CommandSet, corpus, graph
  <1>6. CASE jobs[w].op = "embed"
    <2>1. cmd' = [cmd EXCEPT !.embedded = @ \cup {jobs[w].doc}]
      BY <1>6 DEF Done
    <2> QED
      BY <1>1, <1>3, <1>4, <1>6, <2>1 DEF Done, Finished, CommandSet, corpus, graph
  <1> QED
    BY <1>2, <1>5, <1>6

-----------------------------------------------------------------------------
(* The invariant is inductive.                                             *)

\* No thread works and nothing is reported as written.
LEMMA IdleInv ==
    ASSUME TypeOK, \A w \in Workers : jobs[w] = NoJob, cmd.written = {},
           Disjoint(cmd.phases), Anchored, Known
    PROVE  IInv
  <1>1. Writers = {}
    BY NoJobFacts DEF Writers
  <1>2. Attended /\ InWrite /\ WrittenWhole
    BY <1>1 DEF Attended, InWrite, WrittenWhole
  <1>3. WrittenOnce
    BY <1>1 DEF WrittenOnce, WritePhases, Disjoint
  <1> QED
    BY <1>2, <1>3 DEF IInv

LEMMA TakeInv ==
    ASSUME IInv, TypeOK', NEW w \in Workers, Take(w)
    PROVE  IInv'
  <1>1. /\ TypeOK /\ Attended /\ Anchored /\ Known /\ WrittenOnce /\ InWrite
        /\ WrittenWhole
    BY DEF IInv
  <1>2. PICK d \in Docs :
          /\ cmd.at = "run" /\ jobs[w] = NoJob
          /\ d \in cmd.phases[1].docs /\ 1 \in DOMAIN cmd.phases
          /\ DOMAIN cmd'.phases = DOMAIN cmd.phases
          /\ \A i \in DOMAIN cmd.phases \ {1} : cmd'.phases[i] = cmd.phases[i]
          /\ cmd'.phases[1].op = cmd.phases[1].op
          /\ cmd'.phases[1].docs = cmd.phases[1].docs \ {d}
          /\ cmd'.at = cmd.at /\ cmd'.written = cmd.written
          /\ \A v \in Workers \ {w} : jobs'[v] = jobs[v]
          /\ jobs'[w].op = cmd.phases[1].op /\ jobs'[w].doc = d
          /\ jobs'[w].done = 0
          /\ UNCHANGED <<disk, extracted, nodes, edges>>
    BY <1>1, TakeFacts
  <1>3. Attended' /\ Anchored' /\ Known'
    BY <1>1, <1>2 DEF Attended, Quiet, Anchored, Known, OfLayout
  <1>4. w \notin Writers
    BY <1>2, NoJobFacts DEF Writers
  <1>5. Writers' = Writers \cup (IF cmd.phases[1].op = "write" THEN {w} ELSE {})
    BY <1>2, <1>4 DEF Writers
  <1>6. WritePhases' = WritePhases
    BY <1>2 DEF WritePhases
  <1>7. \A i \in WritePhases : cmd'.phases[i].docs \subseteq cmd.phases[i].docs
    BY <1>2 DEF WritePhases
  <1>8. cmd.phases[1].op = "write" =>
           /\ d \notin cmd.written
           /\ \A i \in WritePhases : d \notin cmd'.phases[i].docs
           /\ \A v \in Writers : jobs[v].doc # d
    <2>1. cmd.phases[1].op = "write" => 1 \in WritePhases
      BY <1>2 DEF WritePhases
    <2> QED
      BY <1>1, <1>2, <2>1 DEF WrittenOnce, WritePhases
  <1>9. \A v \in Writers : v # w /\ v \in Workers /\ jobs'[v] = jobs[v]
    BY <1>2, <1>4 DEF Writers
  <1>10. WrittenOnce'
    <2>1. ASSUME NEW v \in Writers'
          PROVE  /\ jobs'[v].doc \notin cmd'.written
                 /\ \A i \in WritePhases' : jobs'[v].doc \notin cmd'.phases[i].docs
                 /\ \A u \in Writers' : jobs'[u].doc = jobs'[v].doc => u = v
      BY <1>1, <1>2, <1>5, <1>6, <1>7, <1>8, <1>9 DEF WrittenOnce
    <2>2. ASSUME NEW i \in WritePhases'
          PROVE  /\ \A e \in cmd'.phases[i].docs : e \notin cmd'.written
                 /\ \A j \in WritePhases' \ {i} : \A e \in cmd'.phases[i].docs :
                       e \notin cmd'.phases[j].docs
      BY <1>1, <1>2, <1>6, <1>7 DEF WrittenOnce
    <2> QED
      BY <2>1, <2>2 DEF WrittenOnce
  <1>11. InWrite'
    <2>1. ASSUME NEW v \in Writers
          PROVE  /\ jobs'[v].done <= Len(Script(v)')
                 /\ \A i \in 1..jobs'[v].done : Applied(Script(v)[i], jobs[v].doc)'
      <3>1. Continues(v)
        BY <1>9 DEF Continues
      <3> QED
        BY <1>1, <1>2, <3>1, GraphStays
    <2>2. ASSUME cmd.phases[1].op = "write"
          PROVE  jobs'[w].done <= Len(Script(w)')
      <3>1. PICK full \in BOOLEAN : Script(w)' = Scripts[d][disk[d]][full]
        <4>1. Full(d, jobs'[w].mode) \in BOOLEAN
          BY DEF Full
        <4>2. Script(w)' = Scripts[d][disk[d]][Full(d, jobs'[w].mode)]
          BY <1>2 DEF Script, Text, Full
        <4> QED
          BY <4>1, <4>2
      <3>2. Len(Script(w)') \in Nat
        <4>1. WellScripted(Scripts[d][disk[d]][full], Build(d, Own(d), full))
          BY <1>1, OwnScript
        <4> QED
          BY <3>1, <4>1 DEF WellScripted
      <3> QED
        BY <1>2, <3>2
    <2>3. \A i \in 1..jobs'[w].done : FALSE
      BY <1>2
    <2> QED
      BY <1>5, <2>1, <2>2, <2>3 DEF InWrite
  <1>12. WrittenWhole'
    BY <1>1, <1>2, GraphStays DEF WrittenWhole
  <1> QED
    BY <1>3, <1>10, <1>11, <1>12 DEF IInv

LEMMA FailInv ==
    ASSUME IInv, TypeOK', NEW w \in Workers, jobs[w] # NoJob, Failed(w),
           UNCHANGED <<disk, extracted, nodes, edges>>
    PROVE  IInv'
  <1>1. /\ TypeOK /\ Attended /\ Anchored /\ Known /\ WrittenOnce /\ InWrite
        /\ WrittenWhole
    BY DEF IInv
  <1>2. /\ DOMAIN cmd'.phases \subseteq DOMAIN cmd.phases
        /\ \A i \in DOMAIN cmd'.phases :
              /\ cmd'.phases[i].op = cmd.phases[i].op
              /\ cmd'.phases[i].docs \subseteq cmd.phases[i].docs
        /\ cmd'.at = cmd.at /\ cmd'.written = cmd.written
        /\ \A v \in Workers \ {w} : jobs'[v] = jobs[v]
        /\ jobs'[w] = NoJob
    BY <1>1, FailedFacts
  <1>3. Attended' /\ Anchored' /\ Known'
    BY <1>1, <1>2 DEF Attended, Quiet, Anchored, Known, OfLayout
  <1>4. \A v \in Writers' : v \in Writers /\ jobs'[v] = jobs[v]
    BY <1>2, NoJobFacts DEF Writers
  <1>5. \A i \in WritePhases' :
           i \in WritePhases /\ cmd'.phases[i].docs \subseteq cmd.phases[i].docs
    BY <1>2 DEF WritePhases
  <1>6. WrittenOnce'
    BY <1>1, <1>2, <1>4, <1>5 DEF WrittenOnce
  <1>7. InWrite'
    <2>1. ASSUME NEW v \in Writers'
          PROVE  /\ jobs'[v].done <= Len(Script(v)')
                 /\ \A i \in 1..jobs'[v].done : Applied(Script(v)[i], jobs[v].doc)'
      <3>1. Continues(v) /\ v \in Writers
        BY <1>4 DEF Continues
      <3> QED
        BY <1>1, <3>1, GraphStays
    <2> QED
      BY <2>1 DEF InWrite
  <1>8. WrittenWhole'
    BY <1>1, <1>2, GraphStays DEF WrittenWhole
  <1> QED
    BY <1>3, <1>6, <1>7, <1>8 DEF IInv

LEMMA DoneInv ==
    ASSUME IInv, TypeOK', NEW w \in Workers, Done(w)
    PROVE  IInv'
  <1>1. /\ TypeOK /\ Attended /\ Anchored /\ Known /\ WrittenOnce /\ InWrite
        /\ WrittenWhole
    BY DEF IInv
  <1>2. /\ jobs[w].op \in {"write", "embed"} /\ jobs[w].doc \in Docs
        /\ cmd'.at = cmd.at /\ cmd'.phases = cmd.phases
        /\ jobs[w].op = "write" =>
              /\ cmd'.written = cmd.written \cup {jobs[w].doc}
              /\ jobs[w].done = Len(Script(w))
        /\ jobs[w].op = "embed" => cmd'.written = cmd.written
        /\ \A v \in Workers \ {w} : jobs'[v] = jobs[v]
        /\ jobs'[w] = NoJob
        /\ UNCHANGED <<disk, extracted, nodes, edges>>
    BY <1>1, DoneFacts
  <1>3. Attended' /\ Anchored' /\ Known'
    BY <1>1, <1>2 DEF Attended, Quiet, Anchored, Known, OfLayout
  <1>4. \A v \in Writers' : v \in Writers /\ jobs'[v] = jobs[v] /\ v # w
    BY <1>2, NoJobFacts DEF Writers
  <1>5. WritePhases' = WritePhases
    BY <1>2 DEF WritePhases
  <1>6. \A d \in cmd'.written : d \in cmd.written \/ (w \in Writers /\ d = jobs[w].doc)
    <2>1. CASE jobs[w].op = "write"
      <3>1. w \in Writers /\ cmd'.written = cmd.written \cup {jobs[w].doc}
        BY <1>2, <2>1 DEF Writers
      <3> QED
        BY <3>1
    <2>2. CASE jobs[w].op = "embed"
      BY <1>2, <2>2
    <2> QED
      BY <1>2, <2>1, <2>2
  <1>7. WrittenOnce'
    BY <1>1, <1>2, <1>4, <1>5, <1>6 DEF WrittenOnce
  <1>8. InWrite'
    <2>1. ASSUME NEW v \in Writers'
          PROVE  /\ jobs'[v].done <= Len(Script(v)')
                 /\ \A i \in 1..jobs'[v].done : Applied(Script(v)[i], jobs[v].doc)'
      <3>1. Continues(v) /\ v \in Writers
        BY <1>4 DEF Continues
      <3> QED
        BY <1>1, <1>2, <3>1, GraphStays
    <2> QED
      BY <2>1 DEF InWrite
  <1>9. WrittenWhole'
    <2>1. ASSUME NEW d \in cmd'.written PROVE Whole(d)
      <3>1. CASE d \in cmd.written
        BY <1>1, <3>1 DEF WrittenWhole
      <3>2. CASE w \in Writers /\ d = jobs[w].doc
        BY <1>2, <3>2, FinishedWhole DEF Writers
      <3> QED
        BY <1>6, <3>1, <3>2
    <2> QED
      BY <1>1, <1>2, <2>1, GraphStays DEF WrittenWhole
  <1> QED
    BY <1>3, <1>7, <1>8, <1>9 DEF IInv

\* A step of an embedding: no text, no edge and no command changes, and threads keep
\* what they write.
LEMMA EmbedInv ==
    ASSUME IInv, TypeOK', UNCHANGED <<disk, extracted, edges, cmd>>,
           DOMAIN nodes' = DOMAIN nodes, \A n \in DOMAIN nodes : nodes'[n].text = nodes[n].text,
           \A v \in Workers : jobs[v] = NoJob => jobs'[v] = NoJob,
           \A v \in Workers : jobs'[v].op = jobs[v].op,
           \A v \in Writers : Continues(v)
    PROVE  IInv'
  <1>1. /\ TypeOK /\ Attended /\ Anchored /\ Known /\ WrittenOnce /\ InWrite
        /\ WrittenWhole
    BY DEF IInv
  <1>2. \A d \in Docs : StepOf(d)
    BY DEF StepOf
  <1>3. Attended' /\ Anchored' /\ Known'
    BY <1>1 DEF Attended, Quiet, Anchored, Known, OfLayout
  <1>4. Writers' = Writers /\ \A v \in Writers : jobs'[v].doc = jobs[v].doc
    BY DEF Writers, Continues
  <1>5. WrittenOnce'
    BY <1>1, <1>4 DEF WrittenOnce, WritePhases
  <1>6. InWrite'
    <2>1. ASSUME NEW v \in Writers
          PROVE  /\ jobs'[v].done <= Len(Script(v)')
                 /\ \A i \in 1..jobs'[v].done : Applied(Script(v)[i], jobs[v].doc)'
      <3>1. PICK d \in Docs : TRUE
        BY <1>1, WriterFacts DEF Writers
      <3> QED
        BY <1>1, <1>2, <3>1, InWriteStays
    <2> QED
      BY <1>4, <2>1 DEF InWrite
  <1>7. WrittenWhole'
    <2>1. ASSUME NEW d, Whole(d) PROVE Whole(d)'
      BY <2>1 DEF Whole, Units, Own, Strays
    <2> QED
      BY <1>1, <2>1 DEF WrittenWhole
  <1> QED
    BY <1>3, <1>5, <1>6, <1>7 DEF IInv

LEMMA FindStaleFacts ==
    ASSUME TypeOK, NEW w \in Workers, FindStale(w)
    PROVE  /\ jobs[w].op = "embed" /\ jobs[w] # NoJob /\ jobs[w].done = 0
           /\ UNCHANGED <<disk, extracted, nodes, edges>>
           /\ \/ /\ UNCHANGED cmd
                 /\ Targets(Given(w)) \subseteq Reachable(jobs[w].doc)
                 /\ \A v \in Workers \ {w} : jobs'[v] = jobs[v]
                 /\ jobs'[w].op = "embed" /\ jobs'[w].doc = jobs[w].doc
                 /\ jobs'[w].done = 1 /\ jobs'[w].left = Stale(Given(w), Text(w))
              \/ Failed(w)
  <1>1. jobs[w].op = "embed" /\ jobs[w].op # "none" /\ jobs[w].done = 0
    BY DEF FindStale
  <1>2. /\ jobs[w] # NoJob /\ jobs \in [Workers -> JobSet]
        /\ jobs[w] \in [op : {"write", "embed"}, doc : Docs,
                        mode : {"full", "structural"}, done : Nat, left : SUBSET Ids]
    BY <1>1, JobFacts DEF TypeOK
  <1>3. UNCHANGED <<disk, extracted, nodes, edges>>
    BY DEF FindStale, corpus, graph
  <1>4. \/ /\ UNCHANGED cmd /\ Targets(Given(w)) \subseteq Reachable(jobs[w].doc)
           /\ jobs' = [jobs EXCEPT ![w].done = 1, ![w].left = Stale(Given(w), Text(w))]
        \/ Failed(w)
    BY DEF FindStale
  <1>5. CASE /\ UNCHANGED cmd /\ Targets(Given(w)) \subseteq Reachable(jobs[w].doc)
             /\ jobs' = [jobs EXCEPT ![w].done = 1, ![w].left = Stale(Given(w), Text(w))]
    <2>1. PICK left : left = Stale(Given(w), Text(w))
      OBVIOUS
    <2>2. jobs' = [jobs EXCEPT ![w].done = 1, ![w].left = left]
      BY <1>5, <2>1
    <2>3. /\ \A v \in Workers \ {w} : jobs'[v] = jobs[v]
          /\ jobs'[w].op = "embed" /\ jobs'[w].doc = jobs[w].doc
          /\ jobs'[w].done = 1 /\ jobs'[w].left = left
      BY <1>1, <1>2, <2>2
    <2> QED
      BY <1>1, <1>2, <1>3, <1>5, <2>1, <2>3
  <1> QED
    BY <1>1, <1>2, <1>3, <1>4, <1>5

LEMMA WriteVectorFacts ==
    ASSUME TypeOK, NEW w \in Workers, WriteVector(w)
    PROVE  \E n \in jobs[w].left :
              /\ jobs[w] # NoJob /\ Text(w) = disk[jobs[w].doc]
              /\ UNCHANGED <<disk, extracted, edges, cmd>>
              /\ DOMAIN nodes' = DOMAIN nodes
              /\ \A x \in DOMAIN nodes \ {n} : nodes'[x] = nodes[x]
              /\ n \in DOMAIN nodes =>
                    /\ nodes'[n].text = nodes[n].text
                    /\ nodes'[n].vector = Text(w) /\ nodes'[n].hash = Text(w)
              /\ \A v \in Workers : Continues(v)
              /\ \A v \in Workers \ {w} : jobs'[v] = jobs[v]
              /\ jobs'[w].left = jobs[w].left \ {n}
  <1>1. PICK n \in jobs[w].left :
          /\ nodes' = [nodes EXCEPT ![n].vector = Text(w), ![n].hash = Text(w)]
          /\ jobs' = [jobs EXCEPT ![w].left = @ \ {n}]
          /\ UNCHANGED <<corpus, edges, cmd, commands, faults>>
    BY DEF WriteVector
  <1>2. jobs[w] # NoJob /\ jobs \in [Workers -> JobSet]
    BY NoJobFacts DEF TypeOK
  <1>3. jobs[w] \in [op : {"write", "embed"}, doc : Docs,
                     mode : {"full", "structural"}, done : Nat, left : SUBSET Ids]
    BY <1>2 DEF JobSet
  <1>4. /\ \A v \in Workers \ {w} : jobs'[v] = jobs[v]
        /\ jobs'[w].left = jobs[w].left \ {n}
        /\ jobs'[w].op = jobs[w].op /\ jobs'[w].doc = jobs[w].doc
        /\ jobs'[w].mode = jobs[w].mode /\ jobs'[w].done = jobs[w].done
    BY <1>1, <1>2, <1>3
  <1>5. \A v \in Workers : Continues(v)
    BY <1>4 DEF Continues
  <1>6. PICK t : t = Text(w)
    OBVIOUS
  <1>7. /\ DOMAIN nodes' = DOMAIN nodes
        /\ \A x \in DOMAIN nodes \ {n} : nodes'[x] = nodes[x]
        /\ n \in DOMAIN nodes =>
              /\ nodes'[n].text = nodes[n].text
              /\ nodes'[n].vector = t /\ nodes'[n].hash = t
    <2>1. nodes \in [DOMAIN nodes -> NodeSet]
      BY DEF TypeOK
    <2>2. nodes' = [nodes EXCEPT ![n].vector = t, ![n].hash = t]
      BY <1>1, <1>6
    <2> QED
      BY <2>1, <2>2 DEF NodeSet
  <1> QED
    BY <1>1, <1>2, <1>4, <1>5, <1>6, <1>7 DEF corpus, Text

\* The next phase, or the end of the command
LEMMA EndPhaseFacts ==
    ASSUME TypeOK, EndPhase
    PROVE  /\ cmd.at = "run" /\ UNCHANGED <<disk, extracted, nodes, edges, jobs>>
           /\ \A w \in Workers : jobs[w] = NoJob
           /\ cmd'.name = cmd.name /\ cmd'.written = cmd.written
           /\ cmd'.embedded = cmd.embedded /\ cmd'.failed = cmd.failed
           /\ \/ /\ 1 \in DOMAIN cmd.phases /\ cmd.phases[1].docs = {}
                 /\ \A i \in DOMAIN cmd'.phases :
                       /\ i + 1 \in DOMAIN cmd.phases /\ i \in Nat
                       /\ cmd'.phases[i] = cmd.phases[i + 1]
                 /\ \A i \in DOMAIN cmd.phases \ {1} :
                       i - 1 \in DOMAIN cmd'.phases /\ i \in Nat
              \/ DOMAIN cmd'.phases = {}
  <1>1. /\ cmd.at = "run" /\ UNCHANGED <<disk, extracted, nodes, edges, jobs>>
        /\ \A w \in Workers : jobs[w] = NoJob
        /\ \/ /\ cmd.phases # <<>> /\ Current.docs = {}
              /\ cmd' = [cmd EXCEPT !.phases = Tail(cmd.phases)]
           \/ /\ cmd.phases = <<>>
              /\ cmd' = [cmd EXCEPT !.at = "ended"]
    BY DEF EndPhase, corpus, graph, Busy
  <1>2. cmd \in CommandSet /\ cmd.phases \in Seq(PhaseSet)
    BY DEF TypeOK, CommandSet
  <1>3. CASE /\ cmd.phases # <<>> /\ Current.docs = {}
             /\ cmd' = [cmd EXCEPT !.phases = Tail(cmd.phases)]
    <2>1. PICK ph : ph = Tail(cmd.phases)
      OBVIOUS
    <2>2. /\ ph \in Seq(PhaseSet) /\ Len(ph) = Len(cmd.phases) - 1 /\ Len(cmd.phases) \in Nat
          /\ \A i \in 1..Len(ph) : ph[i] = cmd.phases[i + 1]
      BY <1>2, <1>3, <2>1
    <2>3. /\ 1 \in DOMAIN cmd.phases /\ cmd.phases[1].docs = {}
          /\ DOMAIN cmd.phases = 1..Len(cmd.phases)
      BY <1>3, PhasesFacts
    <2>4. cmd' = [cmd EXCEPT !.phases = ph]
      BY <1>3, <2>1
    <2>5. /\ cmd'.phases = ph /\ cmd'.name = cmd.name /\ cmd'.written = cmd.written
          /\ cmd'.embedded = cmd.embedded /\ cmd'.failed = cmd.failed
      BY <1>2, <2>4 DEF CommandSet
    <2>6. DOMAIN ph = 1..Len(ph)
      BY <2>2
    <2>7. /\ \A i \in DOMAIN cmd'.phases :
                /\ i + 1 \in DOMAIN cmd.phases /\ i \in Nat
                /\ cmd'.phases[i] = cmd.phases[i + 1]
          /\ \A i \in DOMAIN cmd.phases \ {1} : i - 1 \in DOMAIN cmd'.phases /\ i \in Nat
      BY <2>2, <2>3, <2>5, <2>6
    <2> QED
      BY <1>1, <2>3, <2>5, <2>7
  <1>4. CASE cmd.phases = <<>> /\ cmd' = [cmd EXCEPT !.at = "ended"]
    <2>1. /\ cmd'.phases = <<>> /\ cmd'.name = cmd.name /\ cmd'.written = cmd.written
          /\ cmd'.embedded = cmd.embedded /\ cmd'.failed = cmd.failed
      BY <1>2, <1>4 DEF CommandSet
    <2> QED
      BY <1>1, <2>1
  <1> QED
    BY <1>1, <1>3, <1>4

LEMMA EndPhaseInv ==
    ASSUME IInv, TypeOK', EndPhase
    PROVE  IInv'
  <1>1. /\ TypeOK /\ Attended /\ Anchored /\ Known /\ WrittenOnce /\ InWrite
        /\ WrittenWhole
    BY DEF IInv
  <1>2. /\ UNCHANGED <<disk, extracted, nodes, edges, jobs>>
        /\ \A w \in Workers : jobs[w] = NoJob
        /\ cmd'.written = cmd.written
        /\ \/ \A i \in DOMAIN cmd'.phases :
                 /\ i + 1 \in DOMAIN cmd.phases /\ i \in Nat
                 /\ cmd'.phases[i] = cmd.phases[i + 1]
           \/ DOMAIN cmd'.phases = {}
    BY <1>1, EndPhaseFacts
  <1>3. Attended' /\ Anchored' /\ Known' /\ Writers' = {}
    BY <1>1, <1>2, NoJobFacts DEF Attended, Quiet, Anchored, Known, OfLayout, Writers
  <1>4. \A i \in WritePhases' :
           i + 1 \in WritePhases /\ i \in Nat /\ cmd'.phases[i].docs = cmd.phases[i + 1].docs
    BY <1>2 DEF WritePhases
  <1>5. WrittenOnce'
    BY <1>1, <1>2, <1>3, <1>4 DEF WrittenOnce
  <1>6. InWrite'
    BY <1>3 DEF InWrite
  <1>7. WrittenWhole'
    BY <1>1, <1>2, GraphStays DEF WrittenWhole
  <1> QED
    BY <1>3, <1>5, <1>6, <1>7 DEF IInv

LEMMA IdleStep ==
    ASSUME TypeOK', \A w \in Workers : jobs'[w] = NoJob, cmd'.written = {},
           Disjoint(cmd'.phases), Anchored', Known'
    PROVE  IInv'
  <1>1. Writers' = {}
    BY NoJobFacts DEF Writers
  <1>2. Attended' /\ InWrite' /\ WrittenWhole'
    BY <1>1 DEF Attended, InWrite, WrittenWhole
  <1>3. WrittenOnce'
    BY <1>1 DEF WrittenOnce, WritePhases, Disjoint
  <1> QED
    BY <1>2, <1>3 DEF IInv

LEMMA IInvInit == Init => IInv
  <1> SUFFICES ASSUME Init PROVE IInv
    OBVIOUS
  <1>1. TypeOK
    BY TypeInit
  <1>2. /\ \A w \in Workers : jobs[w] = NoJob
        /\ cmd = NoCommand /\ edges = {}
    BY DEF Init
  <1>3. cmd.written = {} /\ Disjoint(cmd.phases)
    BY <1>2, NoCommandFacts DEF Disjoint
  <1>4. Anchored /\ Known
    BY <1>2 DEF Anchored, Known
  <1> QED
    BY <1>1, <1>2, <1>3, <1>4, IdleInv

\* What happens between commands, and a crash, leave no thread at work.
LEMMA IInvBetween ==
    ASSUME IInv, TypeOK',
           \/ InitSchema \/ ClearDatabase \/ Extract \/ Crash
           \/ \E d \in Docs : Reparse(d)
    PROVE  IInv'
  <1>1. TypeOK /\ Attended /\ Anchored /\ Known
    BY DEF IInv
  <1>2. cmd' = NoCommand
    BY DEF InitSchema, ClearDatabase, Extract, Crash, Reparse
  <1>3. cmd'.written = {} /\ Disjoint(cmd'.phases)
    BY <1>2, NoCommandFacts DEF Disjoint
  <1>4. \A w \in Workers : jobs'[w] = NoJob
    BY <1>1 DEF Attended, InitSchema, ClearDatabase, Extract, Crash, Reparse
  <1>5. Anchored'
    BY <1>1 DEF Anchored, InitSchema, ClearDatabase, Extract, Crash, Reparse, graph
  <1>6. Known'
    <2>1. CASE ClearDatabase
      BY <2>1 DEF ClearDatabase, Known
    <2>2. CASE InitSchema \/ Extract \/ Crash
      BY <1>1, <2>2 DEF InitSchema, Extract, Crash, corpus, graph, Known, OfLayout
    <2>3. ASSUME NEW d \in Docs, Reparse(d) PROVE Known'
      <3>1. /\ edges' = edges /\ disk' = [disk EXCEPT ![d] = @ + 1]
            /\ disk \in [Docs -> Nat]
        BY <1>1, <2>3 DEF Reparse, graph, TypeOK
      <3>2. \A f \in Docs : 1..disk[f] \subseteq 1..disk'[f]
        BY <3>1
      <3> QED
        BY <1>1, <3>1, <3>2 DEF Known, OfLayout
    <2> QED
      BY <2>1, <2>2, <2>3
  <1> QED
    BY <1>3, <1>4, <1>5, <1>6, IdleStep

LEMMA IInvStart ==
    ASSUME IInv, TypeOK', NEW name \in Commands, NEW d \in Docs, Start(name, d)
    PROVE  IInv'
  <1>1. TypeOK /\ Attended /\ Anchored /\ Known
    BY DEF IInv
  <1>2. PICK ph : ph = PhasesOf(name, d)
    OBVIOUS
  <1>3. cmd' = [NoCommand EXCEPT !.at = "run", !.name = name, !.phases = ph]
    BY <1>2 DEF Start
  <1>4. cmd'.phases = ph /\ cmd'.written = {}
    BY <1>3 DEF NoCommand
  <1>5. name \in CommandNames
    BY LoadAssumption
  <1>6. Disjoint(cmd'.phases)
    BY <1>2, <1>4, <1>5, PhaseFacts
  <1>7. \A w \in Workers : jobs'[w] = NoJob
    BY <1>1 DEF Attended, Start
  <1>8. Anchored' /\ Known'
    BY <1>1 DEF Start, corpus, graph, Anchored, Known, OfLayout
  <1> QED
    BY <1>4, <1>6, <1>7, <1>8, IdleStep

\* The statements of a write
LEMMA IInvStatement ==
    ASSUME IInv, TypeOK', NEW w \in Workers,
           WriteNode(w) \/ WriteRelation(w) \/ Reconcile(w)
    PROVE  IInv'
  <1>1. TypeOK /\ Anchored /\ InWrite
    BY DEF IInv
  <1>2. PICK d : d = jobs[w].doc
    OBVIOUS
  <1>3. PICK s : s = Statement(w)
    OBVIOUS
  <1>4. /\ w \in Writers /\ jobs[w].op = "write" /\ jobs[w].op # "none"
        /\ jobs[w].done < Len(Script(w)) /\ extracted' = extracted
    BY DEF WriteNode, WriteRelation, Reconcile, Writing, Writers, corpus
  <1>5. CASE WriteNode(w)
    <2>1. StepOf(d) /\ Applied(s, d)' /\ Anchored' /\ Advance(w)
      BY <1>1, <1>2, <1>3, <1>5, WriteNodeStep DEF WriteNode
    <2> QED
      BY <1>2, <1>3, <1>4, <2>1, AdvanceStep
  <1>6. CASE WriteRelation(w)
    <2>1. StepOf(d) /\ Applied(s, d)' /\ Anchored' /\ Advance(w)
      BY <1>1, <1>2, <1>3, <1>6, WriteRelationStep DEF WriteRelation
    <2> QED
      BY <1>2, <1>3, <1>4, <2>1, AdvanceStep
  <1>7. CASE Reconcile(w) /\ edges' = edges \ Legacy(s.of) /\ Advance(w)
    <2>1. StepOf(d) /\ Applied(s, d)' /\ Anchored'
      BY <1>1, <1>2, <1>3, <1>7, ReconcileStep DEF Reconcile, corpus
    <2> QED
      BY <1>2, <1>3, <1>4, <1>7, <2>1, AdvanceStep
  <1>8. CASE Reconcile(w) /\ UNCHANGED edges /\ Failed(w)
    <2>1. jobs[w] # NoJob
      BY <1>4, NoJobFacts
    <2> QED
      BY <1>8, <2>1, FailInv DEF Reconcile, corpus
  <1>9. Reconcile(w) =>
          \/ edges' = edges \ Legacy(s.of) /\ Advance(w)
          \/ UNCHANGED edges /\ Failed(w)
    BY <1>3 DEF Reconcile
  <1> QED
    BY <1>5, <1>6, <1>7, <1>8, <1>9

LEMMA IInvEmbed ==
    ASSUME IInv, TypeOK', NEW w \in Workers, FindStale(w) \/ WriteVector(w)
    PROVE  IInv'
  <1>1. TypeOK
    BY DEF IInv
  <1>2. CASE WriteVector(w)
    <2>1. PICK n \in jobs[w].left :
            /\ jobs[w] # NoJob /\ UNCHANGED <<disk, extracted, edges, cmd>>
            /\ DOMAIN nodes' = DOMAIN nodes
            /\ \A x \in DOMAIN nodes \ {n} : nodes'[x] = nodes[x]
            /\ n \in DOMAIN nodes => nodes'[n].text = nodes[n].text
            /\ \A v \in Workers : Continues(v)
            /\ \A v \in Workers \ {w} : jobs'[v] = jobs[v]
      BY <1>1, <1>2, WriteVectorFacts
    <2>2. \A x \in DOMAIN nodes : nodes'[x].text = nodes[x].text
      BY <2>1
    <2>3. \A v \in Workers : jobs'[v].op = jobs[v].op
      BY <2>1 DEF Continues
    <2>4. \A v \in Writers : Continues(v)
      BY <2>1 DEF Writers
    <2> QED
      BY <2>1, <2>2, <2>3, <2>4, EmbedInv
  <1>3. CASE FindStale(w)
    <2>1. /\ jobs[w].op = "embed" /\ jobs[w] # NoJob
          /\ UNCHANGED <<disk, extracted, nodes, edges>>
          /\ \/ /\ UNCHANGED cmd
                /\ \A v \in Workers \ {w} : jobs'[v] = jobs[v]
                /\ jobs'[w].op = "embed"
             \/ Failed(w)
      BY <1>1, <1>3, FindStaleFacts
    <2>2. CASE Failed(w)
      BY <2>1, <2>2, FailInv
    <2>3. CASE /\ UNCHANGED cmd /\ jobs'[w].op = "embed"
               /\ \A v \in Workers \ {w} : jobs'[v] = jobs[v]
      <3>1. \A v \in Writers : Continues(v)
        BY <2>1, <2>3 DEF Writers, Continues
      <3> QED
        BY <2>1, <2>3, <3>1, EmbedInv
    <2> QED
      BY <2>1, <2>2, <2>3
  <1> QED
    BY <1>2, <1>3

LEMMA IInvStutter ==
    ASSUME IInv, UNCHANGED vars
    PROVE  IInv'
  <1>1. /\ disk' = disk /\ extracted' = extracted /\ nodes' = nodes /\ edges' = edges
        /\ cmd' = cmd /\ jobs' = jobs
    BY DEF vars
  <1>2. TypeOK' /\ Attended' /\ Anchored' /\ Known'
    BY <1>1 DEF IInv, TypeOK, Attended, Quiet, Anchored, Known, OfLayout
  <1>3. WrittenOnce'
    BY <1>1 DEF IInv, WrittenOnce, WritePhases, Writers
  <1>4. InWrite'
    <2>1. ASSUME NEW v \in Writers
          PROVE  /\ jobs'[v].done <= Len(Script(v)')
                 /\ \A i \in 1..jobs'[v].done : Applied(Script(v)[i], jobs[v].doc)'
      <3>1. Continues(v)
        BY <1>1 DEF Continues
      <3> QED
        BY <1>1, <3>1, GraphStays DEF IInv
    <2>2. Writers' = Writers
      BY <1>1 DEF Writers
    <2> QED
      BY <2>1, <2>2 DEF InWrite
  <1>5. WrittenWhole'
    BY <1>1, GraphStays DEF IInv, WrittenWhole
  <1> QED
    BY <1>2, <1>3, <1>4, <1>5 DEF IInv

LEMMA IInvStep == IInv /\ [Next]_vars => IInv'
  <1> SUFFICES ASSUME IInv, [Next]_vars PROVE IInv'
    OBVIOUS
  <1>1. TypeOK /\ TypeOK'
    BY TypeStep DEF IInv
  <1>2. CASE \/ InitSchema \/ ClearDatabase \/ Extract \/ Crash
             \/ \E d \in Docs : Reparse(d)
    BY <1>1, <1>2, IInvBetween
  <1>3. CASE EndPhase
    BY <1>1, <1>3, EndPhaseInv
  <1>4. ASSUME NEW name \in Commands, NEW d \in Docs, Start(name, d) PROVE IInv'
    BY <1>1, <1>4, IInvStart
  <1>5. ASSUME NEW w \in Workers, Take(w) PROVE IInv'
    BY <1>1, <1>5, TakeInv
  <1>6. ASSUME NEW w \in Workers, WriteNode(w) \/ WriteRelation(w) \/ Reconcile(w)
        PROVE  IInv'
    BY <1>1, <1>6, IInvStatement
  <1>7. ASSUME NEW w \in Workers, FindStale(w) \/ WriteVector(w) PROVE IInv'
    BY <1>1, <1>7, IInvEmbed
  <1>8. ASSUME NEW w \in Workers, Done(w) PROVE IInv'
    BY <1>1, <1>8, DoneInv
  <1>9. ASSUME NEW w \in Workers, StatementFails(w) PROVE IInv'
    BY <1>1, <1>9, FailInv DEF StatementFails, corpus, graph
  <1>10. CASE UNCHANGED vars
    BY <1>10, IInvStutter
  <1> QED
    BY <1>2, <1>3, <1>4, <1>5, <1>6, <1>7, <1>8, <1>9, <1>10 DEF Next, Step

\* The payload without extraction is the layout.
LEMMA PlainPayload ==
    ASSUME TypeOK, NEW d \in Docs, NEW p, p = Payload(d, "structural")
    PROVE  /\ Range(p.nodes) = Units(d) /\ Edges(p) = Edges(Own(d))
           /\ p.nodes = Own(d).nodes
  <1>1. /\ Own(d).nodes \in Seq(Ids) /\ Own(d).edges \in Seq(Ids \X Ids \X STRING)
    BY OwnFacts, LayoutFacts DEF Own, Payloads
  <1>2. ~Full(d, "structural")
    BY DEF Full
  <1>3. p = [nodes |-> Own(d).nodes \o <<>>, edges |-> Own(d).edges \o <<>>]
    BY <1>2 DEF Payload, Build, Own
  <1>4. p.nodes = Own(d).nodes /\ p.edges = Own(d).edges
    BY <1>1, <1>3
  <1> QED
    BY <1>4 DEF Units, Edges

\* What a command reports as written, when it has ended, is whole and hangs under one
\* parent each.
LEMMA WholeIsOneTree == IInv => WrittenIsOneTree
  <1> SUFFICES ASSUME IInv, NEW d \in cmd.written
               PROVE  /\ Missing(Payload(d, "structural"), disk[d]) = {}
                      /\ \A n \in Range(Layouts[d][disk[d]].nodes) \ {d} :
                            Cardinality({e \in edges \ Strays(d) :
                                            e[2] = n /\ e[3] = "CONTAINS"}) = 1
    BY DEF WrittenIsOneTree, WrittenIsWhole, OneParent
  <1>1. TypeOK /\ d \in Docs /\ Whole(d)
    BY DEF IInv, TypeOK, CommandSet, WrittenWhole
  <1>2. Missing(Payload(d, "structural"), disk[d]) = {}
    <2>1. PICK p : p = Payload(d, "structural")
      OBVIOUS
    <2>2. Range(p.nodes) = Units(d) /\ Edges(p) = Edges(Own(d))
      BY <1>1, <2>1, PlainPayload
    <2>3. Missing(p, disk[d]) = {}
      BY <1>1, <2>2 DEF Missing, Whole
    <2> QED
      BY <2>1, <2>3
  <1>3. ASSUME NEW n \in Units(d) \ {d}
        PROVE  Cardinality({e \in edges \ Strays(d) : e[2] = n /\ e[3] = "CONTAINS"}) = 1
    <2>1. PICK f \in Edges(Own(d)) : f[2] = n /\ f[3] = "CONTAINS"
      BY <1>1, OwnTree
    <2>2. \A e \in edges \ Strays(d) : e[2] = n /\ e[3] = "CONTAINS" => e \in Edges(Own(d))
      BY <1>1 DEF Whole
    <2>3. \A e \in Edges(Own(d)) : e[2] = f[2] => e = f
      BY <1>1, OwnTree
    <2>4. f \notin Strays(d)
      BY <2>1 DEF Strays, Kept, Own
    <2>5. {e \in edges \ Strays(d) : e[2] = n /\ e[3] = "CONTAINS"} = {f}
      BY <1>1, <2>1, <2>2, <2>3, <2>4 DEF Whole
    <2> QED
      BY <2>5, FS_Singleton
  <1> QED
    BY <1>2, <1>3 DEF Units, Own

\* A command that has ended leaves every document that it reports as written as one
\* whole tree in the graph, for any documents, layouts, numbers of threads, failures
\* and crashes: write_graph over GraphIngestionService.ingest and the reconciler.
\* Excepted are Strays, edges of an older layout that no query of the reconciler
\* looks for; nothing is assumed of how one layout follows another.
THEOREM WrittenIsOneTreeAlways == Spec => []WrittenIsOneTree
  <1>1. Init => IInv
    BY IInvInit
  <1>2. IInv /\ [Next]_vars => IInv'
    BY IInvStep
  <1>3. IInv => WrittenIsOneTree
    BY WholeIsOneTree
  <1> QED
    BY <1>1, <1>2, <1>3, PTL DEF Spec

-----------------------------------------------------------------------------
(* Vectors.                                                                *)

LEMMA TargetFacts ==
    ASSUME TypeOK, NEW d \in Docs
    PROVE  /\ Targets(Own(d)) \subseteq Units(d)
           /\ \A n \in Units(d) : Type[n] \in Range(Labels)
           /\ \A full \in BOOLEAN : Targets(Build(d, Own(d), full)) = Targets(Own(d))
  <1>1. Targets(Own(d)) \subseteq Units(d)
    BY DEF Targets, Units
  <1>2. \A n \in Units(d) : Type[n] \in Range(Labels)
    BY OwnTree
  <1>3. ASSUME NEW full \in BOOLEAN
        PROVE  Targets(Build(d, Own(d), full)) = Targets(Own(d))
    <2>1. PICK p : p = Build(d, Own(d), full)
      OBVIOUS
    <2>2. /\ Units(d) \subseteq Range(p.nodes)
          /\ \A n \in Range(p.nodes) : n \in Units(d) \/ Type[n] \notin Range(Labels)
      BY <2>1, OwnPayload
    <2>3. {"Article", "Clause", "Appendix"} \subseteq Range(Labels)
      BY LabelSet
    <2>4. Structure(p) = Structure(Own(d))
      <3>1. Structure(p) = Edges(Own(d))
        BY <2>1, OwnFacts, BuildFacts DEF Own
      <3>2. \A e \in Edges(Own(d)) : e[3] = "CONTAINS"
        BY OwnFacts, LayoutFacts DEF Own
      <3> QED
        BY <3>1, <3>2 DEF Structure
    <2>5. \A n : HoldsArticle(p, n) <=> HoldsArticle(Own(d), n)
      BY <2>4 DEF HoldsArticle
    <2>6. Targets(p) = Targets(Own(d))
      BY <2>2, <2>3, <2>5 DEF Targets, Units
    <2> QED
      BY <2>1, <2>6
  <1> QED
    BY <1>1, <1>2, <1>3

LEMMA GivenTargets ==
    ASSUME TypeOK, NEW w \in Workers, jobs[w].doc \in Docs
    PROVE  Targets(Given(w)) = Targets(Own(jobs[w].doc))
  <1>1. Full(jobs[w].doc, jobs[w].mode) \in BOOLEAN
    BY DEF Full
  <1>2. Given(w) = Build(jobs[w].doc, Own(jobs[w].doc), Full(jobs[w].doc, jobs[w].mode))
    BY DEF Given, Payload, Own
  <1>3. \A full \in BOOLEAN :
           Targets(Build(jobs[w].doc, Own(jobs[w].doc), full)) = Targets(Own(jobs[w].doc))
    BY TargetFacts
  <1> QED
    BY <1>1, <1>2, <1>3

\* A write takes the vector of the node it merges, and no other.
LEMMA WriteNodeVectors ==
    ASSUME TypeOK, NEW w \in Workers, WriteNode(w), NEW d, d = jobs[w].doc
    PROVE  \E n :
              /\ n \in Units(d) \/ Type[n] \notin Range(Labels)
              /\ DOMAIN nodes' = DOMAIN nodes \cup {n}
              /\ nodes'[n].vector = NoVector
              /\ \A x \in DOMAIN nodes \ {n} : nodes'[x] = nodes[x]
  <1>1. w \in Writers
    BY DEF WriteNode, Writing, Writers
  <1>2. PICK p : ScriptFrom(w, p)
    BY <1>1, ScriptExists
  <1>3. PICK s : s = Statement(w)
    OBVIOUS
  <1>4. s.of \in Range(p.nodes)
    BY <1>2, <1>3, StatementFacts DEF WriteNode
  <1>5. s.of \in Units(d) \/ Type[s.of] \notin Range(Labels)
    BY <1>2, <1>4 DEF ScriptFrom
  <1>6. nodes' = [n \in DOMAIN nodes \cup {s.of} |->
                IF n # s.of THEN nodes[n]
                ELSE IF s.of \in DOMAIN nodes
                THEN [nodes[s.of] EXCEPT !.text = Text(w), !.vector = NoVector]
                ELSE Unembedded(Text(w))]
    BY <1>3 DEF WriteNode, MergeNode
  <1>7. \A n \in DOMAIN nodes : nodes[n] \in NodeSet
    BY DEF TypeOK
  <1>8. /\ DOMAIN nodes' = DOMAIN nodes \cup {s.of}
        /\ nodes'[s.of].vector = NoVector
        /\ \A x \in DOMAIN nodes \ {s.of} : nodes'[x] = nodes[x]
    BY <1>6, <1>7 DEF NodeSet, Unembedded
  <1> QED
    BY <1>5, <1>8

\* Vectors that other documents' writes leave alone
LEMMA FreshStays ==
    ASSUME TypeOK, NEW d \in Docs, NEW e \in Docs, d # e, disk' = disk,
           NEW n, n \in Units(d) \/ Type[n] \notin Range(Labels),
           DOMAIN nodes' = DOMAIN nodes \cup {n},
           \A x \in DOMAIN nodes \ {n} : nodes'[x] = nodes[x],
           NEW ns, ns \subseteq Units(e), Fresh(e, ns)
    PROVE  Fresh(e, ns)'
  <1>1. n \notin ns
    <2>1. n \in Units(e) => n \notin Units(d)
      BY OwnFacts, OneOwner DEF Units, Own
    <2>2. n \in Units(e) => Type[n] \in Range(Labels)
      BY TargetFacts
    <2> QED
      BY <2>1, <2>2
  <1> QED
    BY <1>1 DEF Fresh

LEMMA EIdle ==
    ASSUME IInv', \A w \in Workers : jobs'[w] = NoJob, Hashed',
           cmd'.name \in EndToEnd => cmd'.embedded = {} /\ Preceded(cmd'.phases)
    PROVE  EInv'
  <1>1. Seeking' /\ InPhase'
    BY NoJobFacts DEF Seeking, InPhase
  <1>2. \A w \in Workers : jobs'[w].op # "embed"
    BY NoJobFacts
  <1>3. cmd'.name \in EndToEnd =>
          \A i \in DOMAIN cmd'.phases : cmd'.phases[i].op = "embed" =>
              \A d \in cmd'.phases[i].docs :
                  \E j \in WritePhases' : j < i /\ d \in cmd'.phases[j].docs
    BY DEF Preceded, WritePhases
  <1>4. WriteFirst'
    BY <1>2, <1>3 DEF WriteFirst
  <1> QED
    BY <1>1, <1>4 DEF EInv

LEMMA EInvInit == Init => EInv
  <1> SUFFICES ASSUME Init PROVE EInv
    OBVIOUS
  <1>1. IInv
    BY IInvInit
  <1>2. /\ \A w \in Workers : jobs[w] = NoJob
        /\ DOMAIN nodes = {} /\ cmd = NoCommand
    BY DEF Init
  <1>3. Hashed /\ Seeking /\ InPhase
    BY <1>2, NoJobFacts DEF Hashed, Seeking, InPhase
  <1>4. WriteFirst
    BY <1>2, NoCommandFacts DEF WriteFirst
  <1> QED
    BY <1>1, <1>3, <1>4 DEF EInv

LEMMA EInvBetween ==
    ASSUME EInv, IInv',
           \/ InitSchema \/ ClearDatabase \/ Extract \/ Crash
           \/ \E d \in Docs : Reparse(d)
    PROVE  EInv'
  <1>1. cmd' = NoCommand
    BY DEF InitSchema, ClearDatabase, Extract, Crash, Reparse
  <1>2. \A w \in Workers : jobs'[w] = NoJob
    BY DEF EInv, IInv, Attended, InitSchema, ClearDatabase, Extract, Crash, Reparse
  <1>3. Hashed'
    BY DEF EInv, Hashed, InitSchema, ClearDatabase, Extract, Crash, Reparse, graph
  <1> QED
    BY <1>1, <1>2, <1>3, EIdle, NoCommandFacts

LEMMA EInvStart ==
    ASSUME EInv, IInv', NEW name \in Commands, NEW d \in Docs, Start(name, d)
    PROVE  EInv'
  <1>2. PICK ph : ph = PhasesOf(name, d)
    OBVIOUS
  <1>3. cmd' = [NoCommand EXCEPT !.at = "run", !.name = name, !.phases = ph]
    BY <1>2 DEF Start
  <1>4. cmd'.phases = ph /\ cmd'.embedded = {} /\ cmd'.name = name
    BY <1>3 DEF NoCommand
  <1>5. name \in CommandNames
    BY LoadAssumption
  <1>6. name \in EndToEnd => Preceded(cmd'.phases)
    BY <1>2, <1>4, <1>5, PhaseFacts
  <1>7. \A w \in Workers : jobs'[w] = NoJob
    BY DEF EInv, IInv, Attended, Start
  <1>8. Hashed'
    BY DEF EInv, Hashed, Start, graph
  <1> QED
    BY <1>4, <1>6, <1>7, <1>8, EIdle

\* A failure: what end-to-end loads promise is promised no more.
LEMMA FailE ==
    ASSUME EInv, IInv', NEW w \in Workers, jobs[w] # NoJob, Failed(w),
           UNCHANGED <<disk, extracted, nodes, edges>>
    PROVE  EInv'
  <1>1. TypeOK /\ TypeOK' /\ Hashed /\ Seeking /\ InPhase
    BY DEF EInv, IInv
  <1>2. /\ DOMAIN cmd'.phases \subseteq DOMAIN cmd.phases
        /\ \A i \in DOMAIN cmd'.phases : cmd'.phases[i].op = cmd.phases[i].op
        /\ cmd'.failed = cmd.failed \cup {jobs[w].doc}
        /\ \A v \in Workers \ {w} : jobs'[v] = jobs[v]
        /\ jobs'[w] = NoJob
    BY <1>1, FailedFacts
  <1>3. cmd'.failed # {}
    BY <1>2
  <1>4. Hashed'
    BY <1>1 DEF Hashed
  <1>5. Seeking'
    BY <1>1, <1>2, NoJobFacts DEF Seeking, Own, Targets
  <1>6. InPhase'
    <2>1. cmd'.phases # <<>> => 1 \in DOMAIN cmd'.phases /\ Current' = cmd'.phases[1]
      <3>1. cmd'.phases \in Seq(PhaseSet)
        BY <1>1 DEF TypeOK, CommandSet
      <3> QED
        BY <3>1 DEF Current
    <2>2. cmd.phases # <<>> => Current = cmd.phases[1]
      BY <1>1, PhasesFacts
    <2>3. cmd'.phases # <<>> => cmd.phases # <<>> /\ Current'.op = Current.op
      BY <1>2, <2>1, <2>2
    <2>4. \A v \in Workers : jobs'[v] # NoJob => jobs[v] # NoJob /\ jobs'[v].op = jobs[v].op
      BY <1>2
    <2> QED
      BY <1>1, <1>3, <2>3, <2>4 DEF InPhase
  <1>7. WriteFirst'
    BY <1>3 DEF WriteFirst
  <1> QED
    BY <1>4, <1>5, <1>6, <1>7 DEF EInv

\* A thread takes a document to embed only after the phase that writes it is over.
LEMMA TakeE ==
    ASSUME EInv, IInv', NEW w \in Workers, Take(w)
    PROVE  EInv'
  <1>1. TypeOK /\ Hashed /\ Seeking /\ InPhase /\ WriteFirst
    BY DEF EInv, IInv
  <1>2. PICK d \in Docs :
          /\ cmd.phases # <<>> /\ jobs[w] = NoJob
          /\ d \in cmd.phases[1].docs /\ 1 \in DOMAIN cmd.phases
          /\ DOMAIN cmd'.phases = DOMAIN cmd.phases
          /\ \A i \in DOMAIN cmd.phases \ {1} : cmd'.phases[i] = cmd.phases[i]
          /\ cmd'.phases[1].op = cmd.phases[1].op
          /\ cmd'.phases[1].docs = cmd.phases[1].docs \ {d}
          /\ cmd'.name = cmd.name /\ cmd'.written = cmd.written
          /\ cmd'.embedded = cmd.embedded /\ cmd'.failed = cmd.failed
          /\ \A v \in Workers \ {w} : jobs'[v] = jobs[v]
          /\ jobs'[w].op = cmd.phases[1].op /\ jobs'[w].doc = d
          /\ jobs'[w].done = 0 /\ jobs'[w].left = {}
          /\ UNCHANGED <<disk, extracted, nodes, edges>>
    BY <1>1, TakeFacts
  <1>3. Hashed'
    BY <1>1, <1>2 DEF Hashed
  <1>4. Seeking'
    BY <1>1, <1>2 DEF Seeking, Own, Targets
  <1>5. Current = cmd.phases[1] /\ Current' = cmd'.phases[1] /\ cmd'.phases # <<>>
    BY <1>1, <1>2, PhasesFacts DEF Current
  <1>6. InPhase'
    BY <1>1, <1>2, <1>5 DEF InPhase
  <1>7. WriteFirst'
    <2> SUFFICES ASSUME cmd.name \in EndToEnd, cmd.failed = {}
                 PROVE  WriteFirst'
      BY <1>2 DEF WriteFirst
    <2>1. \A e \in cmd'.embedded : e \in cmd'.written /\ Fresh(e, Targets(Own(e)))'
      BY <1>1, <1>2 DEF WriteFirst, Fresh, Targets, Own
    <2>2. cmd.phases[1].op = "embed" => d \in cmd.written
      <3>1. cmd.phases[1].op = "embed" => \A v \in Writers : FALSE
        BY <1>1, <1>2, <1>5, NoJobFacts DEF InPhase, Writers
      <3>2. \A j \in WritePhases : ~(j < 1)
        BY <1>1, PhasesFacts DEF WritePhases
      <3> QED
        BY <1>1, <1>2, <3>1, <3>2 DEF WriteFirst
    <2>3. ASSUME NEW v \in Workers, jobs'[v].op = "embed"
          PROVE  /\ jobs'[v].doc \in cmd'.written
                 /\ jobs'[v].done = 1 =>
                       Fresh(jobs[v].doc, Targets(Own(jobs[v].doc)) \ jobs[v].left)'
      <3>1. CASE v = w
        BY <1>2, <2>2, <2>3, <3>1
      <3>2. CASE v # w
        BY <1>1, <1>2, <2>3, <3>2 DEF WriteFirst, Fresh, Targets, Own
      <3> QED
        BY <3>1, <3>2
    <2>4. ASSUME NEW i \in DOMAIN cmd'.phases, cmd'.phases[i].op = "embed",
                 NEW e \in cmd'.phases[i].docs
          PROVE  \/ e \in cmd'.written
                 \/ \E v \in Writers' : jobs'[v].doc = e
                 \/ \E j \in WritePhases' : j < i /\ e \in cmd'.phases[j].docs
      <3>1. i \in DOMAIN cmd.phases /\ cmd.phases[i].op = "embed" /\ e \in cmd.phases[i].docs
        BY <1>2, <2>4
      <3>2. CASE e \in cmd.written
        BY <1>2, <3>2
      <3>3. ASSUME NEW v \in Writers, jobs[v].doc = e
            PROVE  \E u \in Writers' : jobs'[u].doc = e
        <4>1. v # w
          BY <1>2, NoJobFacts DEF Writers
        <4> QED
          BY <1>2, <3>3, <4>1 DEF Writers
      <3>4. ASSUME NEW j \in WritePhases, j < i, e \in cmd.phases[j].docs
            PROVE  \/ \E v \in Writers' : jobs'[v].doc = e
                   \/ \E k \in WritePhases' : k < i /\ e \in cmd'.phases[k].docs
        <4>1. j \in WritePhases'
          BY <1>2 DEF WritePhases
        <4>2. CASE j = 1 /\ e = d
          BY <1>2, <4>2 DEF Writers, WritePhases
        <4>3. CASE ~(j = 1 /\ e = d)
          BY <1>2, <3>4, <4>1, <4>3 DEF WritePhases
        <4> QED
          BY <4>2, <4>3
      <3> QED
        BY <1>1, <3>1, <3>2, <3>3, <3>4 DEF WriteFirst
    <2> QED
      BY <2>1, <2>3, <2>4 DEF WriteFirst
  <1> QED
    BY <1>3, <1>4, <1>6, <1>7 DEF EInv

LEMMA DoneE ==
    ASSUME EInv, IInv', NEW w \in Workers, Done(w)
    PROVE  EInv'
  <1>1. TypeOK /\ Hashed /\ Seeking /\ InPhase /\ WriteFirst
    BY DEF EInv, IInv
  <1>2. /\ jobs[w].op \in {"write", "embed"} /\ jobs[w].doc \in Docs
        /\ cmd'.name = cmd.name /\ cmd'.phases = cmd.phases /\ cmd'.failed = cmd.failed
        /\ jobs[w].op = "write" =>
              /\ cmd'.written = cmd.written \cup {jobs[w].doc}
              /\ cmd'.embedded = cmd.embedded
        /\ jobs[w].op = "embed" =>
              /\ cmd'.embedded = cmd.embedded \cup {jobs[w].doc}
              /\ cmd'.written = cmd.written
              /\ jobs[w].done = 1 /\ jobs[w].left = {}
        /\ \A v \in Workers \ {w} : jobs'[v] = jobs[v]
        /\ jobs'[w] = NoJob
        /\ UNCHANGED <<disk, extracted, nodes, edges>>
    BY <1>1, DoneFacts
  <1>3. Hashed'
    BY <1>1, <1>2 DEF Hashed
  <1>4. Seeking'
    BY <1>1, <1>2, NoJobFacts DEF Seeking, Own, Targets
  <1>5. InPhase'
    BY <1>1, <1>2 DEF InPhase, Current
  <1>6. WriteFirst'
    <2> SUFFICES ASSUME cmd.name \in EndToEnd, cmd.failed = {}
                 PROVE  WriteFirst'
      BY <1>2 DEF WriteFirst
    <2>1. cmd.written \subseteq cmd'.written
      BY <1>2
    <2>2. ASSUME NEW e \in cmd'.embedded
          PROVE  e \in cmd'.written /\ Fresh(e, Targets(Own(e)))'
      <3>1. CASE e \in cmd.embedded
        BY <1>1, <1>2, <2>1, <3>1 DEF WriteFirst, Fresh, Targets, Own
      <3>2. CASE jobs[w].op = "embed" /\ e = jobs[w].doc
        <4>1. e \in cmd.written /\ Fresh(e, Targets(Own(e)) \ {})
          BY <1>1, <1>2, <3>2 DEF WriteFirst
        <4> QED
          BY <1>2, <2>1, <4>1 DEF Fresh, Targets, Own
      <3>3. e \in cmd.embedded \/ (jobs[w].op = "embed" /\ e = jobs[w].doc)
        <4>1. CASE jobs[w].op = "write"
          BY <1>2, <4>1
        <4>2. CASE jobs[w].op = "embed"
          <5>1. cmd'.embedded = cmd.embedded \cup {jobs[w].doc}
            BY <1>2, <4>2
          <5> QED
            BY <4>2, <5>1
        <4> QED
          BY <1>2, <4>1, <4>2
      <3> QED
        BY <3>1, <3>2, <3>3
    <2>3. ASSUME NEW v \in Workers, jobs'[v].op = "embed"
          PROVE  /\ jobs'[v].doc \in cmd'.written
                 /\ jobs'[v].done = 1 =>
                       Fresh(jobs[v].doc, Targets(Own(jobs[v].doc)) \ jobs[v].left)'
      <3>1. v # w /\ jobs'[v] = jobs[v]
        BY <1>2, <2>3, NoJobFacts
      <3> QED
        BY <1>1, <1>2, <2>1, <2>3, <3>1 DEF WriteFirst, Fresh, Targets, Own
    <2>4. ASSUME NEW i \in DOMAIN cmd'.phases, cmd'.phases[i].op = "embed",
                 NEW e \in cmd'.phases[i].docs
          PROVE  \/ e \in cmd'.written
                 \/ \E v \in Writers' : jobs'[v].doc = e
                 \/ \E j \in WritePhases' : j < i /\ e \in cmd'.phases[j].docs
      <3>1. CASE e \in cmd.written
        BY <2>1, <3>1
      <3>2. ASSUME NEW v \in Writers, jobs[v].doc = e
            PROVE  e \in cmd'.written \/ \E u \in Writers' : jobs'[u].doc = e
        <4>1. CASE v = w
          <5>1. cmd'.written = cmd.written \cup {jobs[w].doc}
            BY <1>2, <4>1 DEF Writers
          <5> QED
            BY <3>2, <4>1, <5>1
        <4>2. CASE v # w
          BY <1>2, <3>2, <4>2 DEF Writers
        <4> QED
          BY <4>1, <4>2
      <3>3. WritePhases' = WritePhases
        BY <1>2 DEF WritePhases
      <3> QED
        BY <1>1, <1>2, <2>4, <3>1, <3>2, <3>3 DEF WriteFirst
    <2> QED
      BY <2>2, <2>3, <2>4 DEF WriteFirst
  <1> QED
    BY <1>3, <1>4, <1>5, <1>6 DEF EInv

LEMMA EndPhaseE ==
    ASSUME EInv, IInv', EndPhase
    PROVE  EInv'
  <1>1. TypeOK /\ Hashed /\ Seeking /\ InPhase /\ WriteFirst
    BY DEF EInv, IInv
  <1>2. /\ UNCHANGED <<disk, extracted, nodes, edges, jobs>>
        /\ \A w \in Workers : jobs[w] = NoJob
        /\ cmd'.name = cmd.name /\ cmd'.written = cmd.written
        /\ cmd'.embedded = cmd.embedded /\ cmd'.failed = cmd.failed
        /\ \/ /\ 1 \in DOMAIN cmd.phases /\ cmd.phases[1].docs = {}
              /\ \A i \in DOMAIN cmd'.phases :
                    /\ i + 1 \in DOMAIN cmd.phases /\ i \in Nat
                    /\ cmd'.phases[i] = cmd.phases[i + 1]
              /\ \A i \in DOMAIN cmd.phases \ {1} :
                    i - 1 \in DOMAIN cmd'.phases /\ i \in Nat
           \/ DOMAIN cmd'.phases = {}
    BY <1>1, EndPhaseFacts
  <1>3. Hashed'
    BY <1>1, <1>2 DEF Hashed
  <1>4. Seeking' /\ InPhase'
    BY <1>1, <1>2, NoJobFacts DEF Seeking, InPhase
  <1>5. WriteFirst'
    <2> SUFFICES ASSUME cmd.name \in EndToEnd, cmd.failed = {}
                 PROVE  WriteFirst'
      BY <1>2 DEF WriteFirst
    <2>1. \A e \in cmd'.embedded : e \in cmd'.written /\ Fresh(e, Targets(Own(e)))'
      BY <1>1, <1>2 DEF WriteFirst, Fresh, Targets, Own
    <2>2. \A v \in Workers : jobs'[v].op # "embed"
      BY <1>2, NoJobFacts
    <2>3. ASSUME NEW i \in DOMAIN cmd'.phases, cmd'.phases[i].op = "embed",
                 NEW e \in cmd'.phases[i].docs
          PROVE  \/ e \in cmd'.written
                 \/ \E j \in WritePhases' : j < i /\ e \in cmd'.phases[j].docs
      <3>1. /\ i + 1 \in DOMAIN cmd.phases /\ i \in Nat /\ cmd'.phases[i] = cmd.phases[i + 1]
            /\ cmd.phases[1].docs = {}
            /\ \A k \in DOMAIN cmd.phases \ {1} : k - 1 \in DOMAIN cmd'.phases /\ k \in Nat
            /\ \A k \in DOMAIN cmd'.phases : cmd'.phases[k] = cmd.phases[k + 1]
        BY <1>2
      <3>2. \A v \in Writers : FALSE
        BY <1>2, NoJobFacts DEF Writers
      <3>3. e \in cmd.written \/ \E j \in WritePhases : j < i + 1 /\ e \in cmd.phases[j].docs
        BY <1>1, <2>3, <3>1, <3>2 DEF WriteFirst
      <3>4. ASSUME NEW j \in WritePhases, j < i + 1, e \in cmd.phases[j].docs
            PROVE  \E k \in WritePhases' : k < i /\ e \in cmd'.phases[k].docs
        <4>1. j # 1 /\ j \in DOMAIN cmd.phases /\ cmd.phases[j].op = "write"
          BY <3>1, <3>4 DEF WritePhases
        <4>2. j - 1 \in DOMAIN cmd'.phases /\ j \in Nat
          BY <3>1, <4>1
        <4>3. cmd'.phases[j - 1] = cmd.phases[j] /\ j - 1 < i
          BY <3>1, <3>4, <4>2
        <4> QED
          BY <3>4, <4>1, <4>2, <4>3 DEF WritePhases
      <3> QED
        BY <1>2, <3>3, <3>4
    <2> QED
      BY <2>1, <2>2, <2>3 DEF WriteFirst
  <1> QED
    BY <1>3, <1>4, <1>5 DEF EInv

\* Statements of a write take vectors of no document that is written.
LEMMA StatementE ==
    ASSUME EInv, IInv', NEW w \in Workers, Advance(w), jobs[w].op = "write",
           UNCHANGED <<disk, extracted>>,
           \/ WriteNode(w)
           \/ UNCHANGED nodes
    PROVE  EInv'
  <1>1. TypeOK /\ WrittenOnce /\ Hashed /\ Seeking /\ InPhase /\ WriteFirst
    BY DEF EInv, IInv
  <1>2. /\ cmd' = cmd /\ jobs' = [jobs EXCEPT ![w].done = @ + 1]
        /\ jobs \in [Workers -> JobSet] /\ jobs[w] # NoJob
        /\ jobs[w] \in [op : {"write", "embed"}, doc : Docs,
                       mode : {"full", "structural"}, done : Nat, left : SUBSET Ids]
    BY <1>1, JobFacts DEF Advance, TypeOK
  <1>3. /\ \A v \in Workers \ {w} : jobs'[v] = jobs[v]
        /\ jobs'[w].op = "write" /\ jobs'[w].doc = jobs[w].doc
        /\ jobs'[w].left = jobs[w].left
    BY <1>2
  <1>4. ASSUME NEW e \in cmd.written, NEW ns, ns \subseteq Units(e), Fresh(e, ns)
        PROVE  Fresh(e, ns)'
    <2>1. CASE UNCHANGED nodes
      BY <1>4, <2>1 DEF Fresh
    <2>2. CASE WriteNode(w)
      <3>1. PICK d : d = jobs[w].doc
        OBVIOUS
      <3>2. d \in Docs /\ e \in Docs /\ d # e
        BY <1>1, <1>2, <3>1 DEF WrittenOnce, Writers, TypeOK, CommandSet
      <3>3. PICK n : /\ n \in Units(d) \/ Type[n] \notin Range(Labels)
                     /\ DOMAIN nodes' = DOMAIN nodes \cup {n}
                     /\ \A x \in DOMAIN nodes \ {n} : nodes'[x] = nodes[x]
        BY <1>1, <2>2, <3>1, WriteNodeVectors
      <3> QED
        BY <1>1, <1>4, <3>2, <3>3, FreshStays
    <2> QED
      BY <2>1, <2>2
  <1>5. Hashed'
    <2>1. CASE UNCHANGED nodes
      BY <1>1, <2>1 DEF Hashed
    <2>2. CASE WriteNode(w)
      <3>1. PICK d : d = jobs[w].doc
        OBVIOUS
      <3>2. PICK n : /\ DOMAIN nodes' = DOMAIN nodes \cup {n}
                     /\ nodes'[n].vector = NoVector
                     /\ \A x \in DOMAIN nodes \ {n} : nodes'[x] = nodes[x]
        BY <1>1, <2>2, <3>1, WriteNodeVectors
      <3> QED
        BY <1>1, <3>2 DEF Hashed
    <2> QED
      BY <2>1, <2>2
  <1>6. Seeking'
    BY <1>1, <1>3 DEF Seeking, Own, Targets
  <1>7. InPhase'
    BY <1>1, <1>2, <1>3 DEF InPhase, Current
  <1>8. WriteFirst'
    <2> SUFFICES ASSUME cmd.name \in EndToEnd, cmd.failed = {}
                 PROVE  WriteFirst'
      BY <1>2 DEF WriteFirst
    <2>1. ASSUME NEW e \in cmd.embedded
          PROVE  e \in cmd.written /\ Fresh(e, Targets(Own(e)))'
      <3>1. PICK ns : ns = Targets(Own(e))
        OBVIOUS
      <3>2. e \in cmd.written /\ Fresh(e, ns)
        BY <1>1, <3>1 DEF WriteFirst
      <3>3. ns \subseteq Units(e)
        BY <3>1 DEF Targets, Units
      <3>4. Fresh(e, ns)'
        BY <1>4, <3>2, <3>3
      <3>5. ns = Targets(Own(e))'
        BY <3>1 DEF Targets, Own
      <3> QED
        BY <3>2, <3>4, <3>5
    <2>2. ASSUME NEW v \in Workers, jobs'[v].op = "embed"
          PROVE  /\ jobs'[v].doc \in cmd.written
                 /\ jobs'[v].done = 1 =>
                       Fresh(jobs[v].doc, Targets(Own(jobs[v].doc)) \ jobs[v].left)'
      <3>1. v # w /\ jobs'[v] = jobs[v]
        BY <1>3, <2>2
      <3>2. PICK ns : ns = Targets(Own(jobs[v].doc)) \ jobs[v].left
        OBVIOUS
      <3>3. /\ jobs[v].doc \in cmd.written
            /\ jobs[v].done = 1 => Fresh(jobs[v].doc, ns)
        BY <1>1, <2>2, <3>1, <3>2 DEF WriteFirst
      <3>4. PICK e : e = jobs[v].doc
        OBVIOUS
      <3>5. ns \subseteq Units(e)
        BY <3>2, <3>4 DEF Targets, Units
      <3>6. jobs[v].done = 1 => Fresh(e, ns)'
        BY <1>4, <3>3, <3>4, <3>5
      <3>7. ns = (Targets(Own(jobs[v].doc)) \ jobs[v].left)' /\ e = jobs'[v].doc
        BY <3>1, <3>2, <3>4 DEF Targets, Own
      <3> QED
        BY <3>1, <3>3, <3>6, <3>7
    <2>3. Writers' = Writers /\ \A v \in Writers : jobs'[v].doc = jobs[v].doc
      BY <1>3 DEF Writers
    <2>4. ASSUME NEW i \in DOMAIN cmd.phases, cmd.phases[i].op = "embed",
                 NEW e \in cmd.phases[i].docs
          PROVE  \/ e \in cmd.written
                 \/ \E v \in Writers' : jobs'[v].doc = e
                 \/ \E j \in WritePhases : j < i /\ e \in cmd.phases[j].docs
      BY <1>1, <2>3, <2>4 DEF WriteFirst
    <2>5. WritePhases' = WritePhases
      BY <1>2 DEF WritePhases
    <2> QED
      BY <1>2, <2>1, <2>2, <2>4, <2>5 DEF WriteFirst
  <1> QED
    BY <1>5, <1>6, <1>7, <1>8 DEF EInv

\* What is not stale has its vector; a document to embed is written, so that its
\* targets are there.
LEMMA StaleE ==
    ASSUME EInv, IInv', NEW w \in Workers, FindStale(w)
    PROVE  EInv'
  <1>1. TypeOK /\ WrittenWhole /\ Hashed /\ Seeking /\ InPhase /\ WriteFirst
    BY DEF EInv, IInv
  <1>2. /\ jobs[w].op = "embed" /\ jobs[w] # NoJob /\ jobs[w].doc \in Docs
        /\ UNCHANGED <<disk, extracted, nodes, edges>>
        /\ \/ /\ UNCHANGED cmd
              /\ \A v \in Workers \ {w} : jobs'[v] = jobs[v]
              /\ jobs'[w].op = "embed" /\ jobs'[w].doc = jobs[w].doc
              /\ jobs'[w].done = 1 /\ jobs'[w].left = Stale(Given(w), Text(w))
           \/ Failed(w)
    BY <1>1, FindStaleFacts, BusyFacts
  <1>3. CASE Failed(w)
    BY <1>2, <1>3, FailE
  <1>4. CASE /\ UNCHANGED cmd
             /\ \A v \in Workers \ {w} : jobs'[v] = jobs[v]
             /\ jobs'[w].op = "embed" /\ jobs'[w].doc = jobs[w].doc
             /\ jobs'[w].done = 1 /\ jobs'[w].left = Stale(Given(w), Text(w))
    <2>1. PICK d : d = jobs[w].doc
      OBVIOUS
    <2>2. jobs'[w].left = {n \in Targets(Own(d)) :
                             nodes[n].vector = NoVector \/ nodes[n].hash # disk[d]}
      BY <1>1, <1>2, <1>4, <2>1, GivenTargets DEF Stale, Text
    <2>3. Hashed' /\ InPhase'
      BY <1>1, <1>2, <1>4 DEF Hashed, InPhase, Current
    <2>4. Seeking'
      <3>1. jobs'[w].left \subseteq Targets(Own(d))
        BY <2>2
      <3>2. \A x : Targets(Own(x))' = Targets(Own(x))
        BY <1>2 DEF Targets, Own
      <3>3. ASSUME NEW v \in Workers
            PROVE  IF jobs'[v].op = "embed"
                   THEN jobs'[v].left \subseteq Targets(Own(jobs'[v].doc))
                   ELSE jobs'[v].left = {}
        <4>1. CASE v = w
          BY <1>4, <2>1, <3>1, <4>1
        <4>2. CASE v # w
          BY <1>1, <1>4, <4>2 DEF Seeking
        <4> QED
          BY <4>1, <4>2
      <3> QED
        BY <1>2, <3>3 DEF Seeking, Targets, Own
    <2>5. WriteFirst'
      <3> SUFFICES ASSUME cmd.name \in EndToEnd, cmd.failed = {}
                   PROVE  WriteFirst'
        BY <1>4 DEF WriteFirst
      <3>1. \A e \in cmd.embedded : e \in cmd.written /\ Fresh(e, Targets(Own(e)))'
        BY <1>1, <1>2 DEF WriteFirst, Fresh, Targets, Own
      <3>2. ASSUME NEW v \in Workers, jobs'[v].op = "embed"
            PROVE  /\ jobs'[v].doc \in cmd.written
                   /\ jobs'[v].done = 1 =>
                         Fresh(jobs[v].doc, Targets(Own(jobs[v].doc)) \ jobs[v].left)'
        <4>1. CASE v # w
          BY <1>1, <1>2, <1>4, <3>2, <4>1 DEF WriteFirst, Fresh, Targets, Own
        <4>2. CASE v = w
          <5>1. d \in cmd.written
            BY <1>1, <1>2, <2>1 DEF WriteFirst
          <5>2. \A n \in Targets(Own(d)) : n \in DOMAIN nodes
            BY <1>1, <5>1 DEF WrittenWhole, Whole, Targets, Units
          <5>3. Fresh(d, Targets(Own(d)) \ jobs'[w].left)
            BY <2>2, <5>2 DEF Fresh
          <5> QED
            BY <1>2, <1>4, <2>1, <4>2, <5>1, <5>3 DEF Fresh, Targets, Own
        <4> QED
          BY <4>1, <4>2
      <3>3. Writers' = Writers /\ \A v \in Writers : jobs'[v].doc = jobs[v].doc
        BY <1>2, <1>4 DEF Writers
      <3>4. ASSUME NEW i \in DOMAIN cmd.phases, cmd.phases[i].op = "embed",
                   NEW e \in cmd.phases[i].docs
            PROVE  \/ e \in cmd.written
                   \/ \E v \in Writers' : jobs'[v].doc = e
                   \/ \E j \in WritePhases : j < i /\ e \in cmd.phases[j].docs
        BY <1>1, <3>3, <3>4 DEF WriteFirst
      <3>5. WritePhases' = WritePhases
        BY <1>4 DEF WritePhases
      <3> QED
        BY <1>4, <3>1, <3>2, <3>4, <3>5 DEF WriteFirst
    <2> QED
      BY <2>3, <2>4, <2>5 DEF EInv
  <1> QED
    BY <1>2, <1>3, <1>4

\* A vector is one more that is current.
LEMMA VectorE ==
    ASSUME EInv, IInv', NEW w \in Workers, WriteVector(w)
    PROVE  EInv'
  <1>1. TypeOK /\ WrittenWhole /\ Hashed /\ Seeking /\ InPhase /\ WriteFirst
    BY DEF EInv, IInv
  <1>2. PICK n \in jobs[w].left :
          /\ jobs[w] # NoJob /\ Text(w) = disk[jobs[w].doc]
          /\ UNCHANGED <<disk, extracted, edges, cmd>>
          /\ DOMAIN nodes' = DOMAIN nodes
          /\ \A x \in DOMAIN nodes \ {n} : nodes'[x] = nodes[x]
          /\ n \in DOMAIN nodes =>
                nodes'[n].vector = Text(w) /\ nodes'[n].hash = Text(w)
          /\ \A v \in Workers : Continues(v)
          /\ \A v \in Workers \ {w} : jobs'[v] = jobs[v]
          /\ jobs'[w].left = jobs[w].left \ {n}
    BY <1>1, WriteVectorFacts
  <1>3. PICK d : d = jobs[w].doc
    OBVIOUS
  <1>4. /\ jobs[w].op = "embed" /\ d \in Docs /\ n \in Targets(Own(d)) /\ n \in Units(d)
        /\ disk[d] # NoVector /\ disk[d] \in DOMAIN Layouts[d]
    <2>1. jobs[w].op = "embed" /\ n \in Targets(Own(d))
      BY <1>1, <1>2, <1>3 DEF Seeking
    <2>2. d \in Docs
      BY <1>1, <1>2, <1>3, BusyFacts
    <2> QED
      BY <1>1, <2>1, <2>2, OwnFacts, TargetFacts
  <1>5. \A v \in Workers : /\ jobs'[v].op = jobs[v].op /\ jobs'[v].doc = jobs[v].doc
                           /\ jobs'[v].done = jobs[v].done
    BY <1>2 DEF Continues
  <1>6. n \in DOMAIN nodes => nodes'[n].vector = disk[d] /\ nodes'[n].hash = disk[d]
    BY <1>2, <1>3
  <1>7. Hashed'
    BY <1>1, <1>2, <1>6 DEF Hashed
  <1>8. Seeking'
    BY <1>1, <1>2, <1>4, <1>5 DEF Seeking, Targets, Own
  <1>9. InPhase'
    <2>1. \A v \in Workers : jobs'[v] # NoJob => jobs[v] # NoJob
      BY <1>2
    <2> QED
      BY <1>1, <1>2, <1>5, <2>1 DEF InPhase, Current
  <1>10. ASSUME NEW e \in Docs, NEW ns, ns \subseteq Units(e), Fresh(e, ns)
         PROVE  Fresh(e, ns)'
    <2>1. n \in ns => e = d
      BY <1>1, <1>4, <1>10, OwnFacts, OneOwner DEF Units, Own
    <2> QED
      BY <1>2, <1>4, <1>6, <1>10, <2>1 DEF Fresh
  <1>11. WriteFirst'
    <2> SUFFICES ASSUME cmd.name \in EndToEnd, cmd.failed = {}
                 PROVE  WriteFirst'
      BY <1>2 DEF WriteFirst
    <2>0. cmd.written \subseteq Docs
      BY <1>1 DEF TypeOK, CommandSet
    <2>1. ASSUME NEW e \in cmd.embedded
          PROVE  e \in cmd.written /\ Fresh(e, Targets(Own(e)))'
      <3>1. PICK ns : ns = Targets(Own(e))
        OBVIOUS
      <3>2. e \in cmd.written /\ e \in Docs /\ Fresh(e, ns)
        BY <1>1, <2>0, <3>1 DEF WriteFirst
      <3>3. ns \subseteq Units(e)
        BY <3>1 DEF Targets, Units
      <3>4. Fresh(e, ns)'
        BY <1>10, <3>2, <3>3
      <3>5. ns = Targets(Own(e))'
        BY <1>2, <3>1 DEF Targets, Own
      <3> QED
        BY <3>2, <3>4, <3>5
    <2>2. ASSUME NEW v \in Workers, jobs'[v].op = "embed"
          PROVE  /\ jobs'[v].doc \in cmd.written
                 /\ jobs'[v].done = 1 =>
                       Fresh(jobs[v].doc, Targets(Own(jobs[v].doc)) \ jobs[v].left)'
      <3>1. PICK e : e = jobs[v].doc
        OBVIOUS
      <3>2. PICK ns : ns = Targets(Own(e)) \ jobs[v].left
        OBVIOUS
      <3>3. /\ e \in cmd.written /\ e \in Docs
            /\ jobs[v].done = 1 => Fresh(e, ns)
        BY <1>1, <1>5, <2>0, <2>2, <3>1, <3>2 DEF WriteFirst
      <3>4. ns \subseteq Units(e)
        BY <3>2 DEF Targets, Units
      <3>5. jobs[v].done = 1 => Fresh(e, ns)'
        BY <1>10, <3>3, <3>4
      <3>6. CASE v # w
        <4>1. ns = (Targets(Own(jobs[v].doc)) \ jobs[v].left)' /\ e = jobs'[v].doc
          BY <1>2, <3>1, <3>2, <3>6 DEF Targets, Own
        <4> QED
          BY <1>5, <3>3, <3>5, <4>1
      <3>7. CASE v = w
        <4>1. e = d /\ n \in DOMAIN nodes
          BY <1>1, <1>3, <1>4, <3>1, <3>3, <3>7 DEF WrittenWhole, Whole
        <4>2. PICK ms : ms = ns \cup {n}
          OBVIOUS
        <4>3. jobs[v].done = 1 => Fresh(e, ms)'
          BY <1>2, <1>4, <1>6, <3>5, <4>1, <4>2 DEF Fresh
        <4>4. ms = (Targets(Own(jobs[v].doc)) \ jobs[v].left)' /\ e = jobs'[v].doc
          <5>1. Targets(Own(e))' = Targets(Own(e)) /\ e = jobs'[v].doc
            BY <1>2, <1>5, <3>1 DEF Targets, Own
          <5>2. ms = Targets(Own(e)) \ jobs'[v].left
            BY <1>2, <1>4, <3>2, <3>7, <4>1, <4>2
          <5>3. (Targets(Own(jobs[v].doc)))' = Targets(Own(e))'
            BY <5>1 DEF Targets, Own
          <5> QED
            BY <5>1, <5>2, <5>3
        <4> QED
          BY <1>5, <3>3, <4>3, <4>4
      <3> QED
        BY <3>6, <3>7
    <2>3. Writers' = Writers /\ \A v \in Writers : jobs'[v].doc = jobs[v].doc
      BY <1>5 DEF Writers
    <2>4. ASSUME NEW i \in DOMAIN cmd.phases, cmd.phases[i].op = "embed",
                 NEW e \in cmd.phases[i].docs
          PROVE  \/ e \in cmd.written
                 \/ \E v \in Writers' : jobs'[v].doc = e
                 \/ \E j \in WritePhases : j < i /\ e \in cmd.phases[j].docs
      BY <1>1, <2>3, <2>4 DEF WriteFirst
    <2>5. WritePhases' = WritePhases
      BY <1>2 DEF WritePhases
    <2> QED
      BY <1>2, <2>1, <2>2, <2>4, <2>5 DEF WriteFirst
  <1> QED
    BY <1>7, <1>8, <1>9, <1>11 DEF EInv

LEMMA EInvStep == EInv /\ [Next]_vars => EInv'
  <1> SUFFICES ASSUME EInv, [Next]_vars PROVE EInv'
    OBVIOUS
  <1>1. TypeOK /\ IInv /\ IInv'
    BY IInvStep DEF EInv, IInv
  <1>2. CASE \/ InitSchema \/ ClearDatabase \/ Extract \/ Crash
             \/ \E d \in Docs : Reparse(d)
    BY <1>1, <1>2, EInvBetween
  <1>3. CASE EndPhase
    BY <1>1, <1>3, EndPhaseE
  <1>4. ASSUME NEW name \in Commands, NEW d \in Docs, Start(name, d) PROVE EInv'
    BY <1>1, <1>4, EInvStart
  <1>5. ASSUME NEW w \in Workers, Take(w) PROVE EInv'
    BY <1>1, <1>5, TakeE
  <1>6. ASSUME NEW w \in Workers, WriteNode(w) \/ WriteRelation(w) PROVE EInv'
    <2>1. /\ Advance(w) /\ jobs[w].op = "write" /\ UNCHANGED <<disk, extracted>>
          /\ WriteNode(w) \/ UNCHANGED nodes
      BY <1>6 DEF WriteNode, WriteRelation, Writing, corpus
    <2> QED
      BY <1>1, <2>1, StatementE
  <1>7. ASSUME NEW w \in Workers, Reconcile(w) PROVE EInv'
    <2>1. /\ jobs[w].op = "write" /\ UNCHANGED <<disk, extracted, nodes>>
          /\ Advance(w) \/ (Failed(w) /\ UNCHANGED edges)
      BY <1>7 DEF Reconcile, Writing, corpus
    <2>2. jobs[w] # NoJob
      BY <2>1, NoJobFacts
    <2> QED
      BY <1>1, <2>1, <2>2, StatementE, FailE
  <1>8. ASSUME NEW w \in Workers, FindStale(w) PROVE EInv'
    BY <1>1, <1>8, StaleE
  <1>9. ASSUME NEW w \in Workers, WriteVector(w) PROVE EInv'
    BY <1>1, <1>9, VectorE
  <1>10. ASSUME NEW w \in Workers, Done(w) PROVE EInv'
    BY <1>1, <1>10, DoneE
  <1>11. ASSUME NEW w \in Workers, StatementFails(w) PROVE EInv'
    BY <1>1, <1>11, FailE DEF StatementFails, corpus, graph
  <1>12. CASE UNCHANGED vars
    <2>1. /\ disk' = disk /\ extracted' = extracted /\ nodes' = nodes /\ edges' = edges
          /\ cmd' = cmd /\ jobs' = jobs
      BY <1>12 DEF vars
    <2>2. Hashed' /\ Seeking' /\ InPhase'
      BY <2>1 DEF EInv, Hashed, Seeking, InPhase, Current, Targets, Own
    <2>3. WriteFirst'
      BY <2>1 DEF EInv, WriteFirst, Fresh, Targets, Own, Writers, WritePhases
    <2> QED
      BY <1>1, <2>2, <2>3 DEF EInv
  <1> QED
    BY <1>2, <1>3, <1>4, <1>5, <1>6, <1>7, <1>8, <1>9, <1>10, <1>11, <1>12 DEF Next, Step

LEMMA EmbeddedAfterWrite == EInv => EmbeddedIsCurrent
  <1> SUFFICES ASSUME EInv, cmd.name \in EndToEnd, cmd.failed = {}, NEW d \in cmd.embedded,
                      NEW p, p = Payload(d, "structural")
               PROVE  /\ Embedded(p) = Targets(p)
                      /\ \A n \in Targets(p) : nodes[n].vector = nodes[n].text
    BY DEF EmbeddedIsCurrent
  <1>1. TypeOK /\ WrittenWhole /\ Hashed /\ WriteFirst
    BY DEF EInv, IInv
  <1>2. d \in cmd.written /\ Fresh(d, Targets(Own(d)))
    BY <1>1 DEF WriteFirst
  <1>3. d \in Docs /\ Whole(d)
    BY <1>1, <1>2 DEF TypeOK, CommandSet, WrittenWhole
  <1>4. Targets(p) = Targets(Own(d)) /\ Targets(p) \subseteq Units(d)
    BY <1>1, <1>3, PlainPayload DEF Targets, HoldsArticle, Structure
  <1>5. ASSUME NEW n \in Targets(p)
        PROVE  /\ n \in DOMAIN nodes /\ nodes[n].vector # NoVector
               /\ nodes[n].vector = nodes[n].text
    BY <1>1, <1>2, <1>3, <1>4 DEF Fresh, Hashed, Whole
  <1> QED
    BY <1>5 DEF Embedded

\* An end-to-end load that reports no failure leaves on every target of what it
\* embedded (Articles, Clauses, Appendices without Articles) a vector of the text on
\* disk: embed_graph after write_graph, with staleness judged by metadata that a
\* write leaves behind.
THEOREM EmbeddedIsCurrentAlways == Spec => []EmbeddedIsCurrent
  <1>1. Init => EInv
    BY EInvInit
  <1>2. EInv /\ [Next]_vars => EInv'
    BY EInvStep
  <1>3. EInv => EmbeddedIsCurrent
    BY EmbeddedAfterWrite
  <1> QED
    BY <1>1, <1>2, <1>3, PTL DEF Spec

-----------------------------------------------------------------------------
(* What a query reaches from a Document.                                   *)

\* The steps of Reachable, for any relationships
Below(E, ns) == ns \cup {e[2] : e \in {f \in E : f[1] \in ns /\ f[3] = "CONTAINS"}}

IsDescent(w, E, top) ==
    w = [k \in 0..MaxDepth |->
            IF k = 0 THEN top ELSE UNION {Below(E, ns) : ns \in {w[k - 1]}}]
Descent(E, top) == CHOOSE w : IsDescent(w, E, top)

LEMMA ReachableIs ==
    ASSUME NEW d
    PROVE  Reachable(d) = Descent(edges, {d} \cap DOMAIN nodes)[MaxDepth] \ {d}
  BY Zenon DEF Reachable, Descent, IsDescent, Below, WithChildren

LEMMA ReachableNext ==
    ASSUME NEW d
    PROVE  Reachable(d)' = Descent(edges', {d} \cap DOMAIN nodes')[MaxDepth] \ {d}
  BY Zenon DEF Reachable, Descent, IsDescent, Below, WithChildren

\* The recursion has a solution: it is MaxDepth steps deep.
LEMMA DescentExists ==
    ASSUME NEW E, NEW top
    PROVE  \E w : IsDescent(w, E, top)
  <1> DEFINE W0 == top
             W1 == Below(E, W0)
             W2 == Below(E, W1)
             W3 == Below(E, W2)
             W4 == Below(E, W3)
             W5 == Below(E, W4)
             W6 == Below(E, W5)
             W7 == Below(E, W6)
             W8 == Below(E, W7)
             W9 == Below(E, W8)
             g == [k \in 0..MaxDepth |->
                     IF k = 0 THEN W0 ELSE IF k = 1 THEN W1 ELSE IF k = 2 THEN W2
                     ELSE IF k = 3 THEN W3 ELSE IF k = 4 THEN W4 ELSE IF k = 5 THEN W5
                     ELSE IF k = 6 THEN W6 ELSE IF k = 7 THEN W7 ELSE IF k = 8 THEN W8
                     ELSE W9]
  <1>1. \A ns : UNION {Below(E, x) : x \in {ns}} = Below(E, ns)
    OBVIOUS
  <1>2. /\ W1 = Below(E, W0) /\ W2 = Below(E, W1) /\ W3 = Below(E, W2)
        /\ W4 = Below(E, W3) /\ W5 = Below(E, W4) /\ W6 = Below(E, W5)
        /\ W7 = Below(E, W6) /\ W8 = Below(E, W7) /\ W9 = Below(E, W8) /\ W0 = top
    OBVIOUS
  <1> HIDE DEF W0, W1, W2, W3, W4, W5, W6, W7, W8, W9
  <1>3. /\ g[0] = W0 /\ g[1] = W1 /\ g[2] = W2 /\ g[3] = W3 /\ g[4] = W4 /\ g[5] = W5
        /\ g[6] = W6 /\ g[7] = W7 /\ g[8] = W8 /\ g[9] = W9
    BY DEF MaxDepth
  <1>4. g = [k \in 0..MaxDepth |-> g[k]]
    OBVIOUS
  <1> HIDE DEF g
  <1>5. ASSUME NEW k \in 1..9 PROVE g[k] = Below(E, g[k - 1])
    <2>1. k \in {1, 2, 3, 4, 5, 6, 7, 8, 9}
      OBVIOUS
    <2> QED
      BY <1>2, <1>3, <2>1
  <1>6. \A k \in 0..MaxDepth :
           g[k] = IF k = 0 THEN top ELSE UNION {Below(E, ns) : ns \in {g[k - 1]}}
    <2>1. g[0] = top
      BY <1>2, <1>3
    <2>2. \A k \in 1..9 : g[k] = UNION {Below(E, ns) : ns \in {g[k - 1]}}
      BY <1>1, <1>5
    <2>3. \A k \in 0..MaxDepth : k = 0 \/ (k # 0 /\ k \in 1..9)
      BY DEF MaxDepth
    <2> QED
      BY <2>1, <2>2, <2>3
  <1>7. IsDescent(g, E, top)
    BY <1>4, <1>6 DEF IsDescent
  <1> QED
    BY <1>7

LEMMA DescentSteps ==
    ASSUME NEW E, NEW top
    PROVE  LET w == Descent(E, top)
           IN  /\ w[0] = top
               /\ \A k \in 1..9 : w[k] = Below(E, w[k - 1])
  <1>1. IsDescent(Descent(E, top), E, top)
    BY DescentExists DEF Descent
  <1>2. PICK w : w = Descent(E, top)
    OBVIOUS
  <1>3. w = [k \in 0..9 |-> IF k = 0 THEN top ELSE UNION {Below(E, ns) : ns \in {w[k - 1]}}]
    BY <1>1, <1>2 DEF IsDescent, MaxDepth
  <1>4. \A ns : UNION {Below(E, x) : x \in {ns}} = Below(E, ns)
    OBVIOUS
  <1>5. PICK h : h = w
    OBVIOUS
  <1>6. w = [k \in 0..9 |-> IF k = 0 THEN top ELSE Below(E, h[k - 1])]
    BY <1>3, <1>4, <1>5
  <1> HIDE <1>5
  <1>7. w[0] = top /\ \A k \in 1..9 : w[k] = Below(E, h[k - 1])
    BY <1>6
  <1> QED
    BY <1>2, <1>5, <1>7

\* Nothing of a set that holds the top and what hangs under its members is missed.
LEMMA DescentIsLeast ==
    ASSUME NEW E, NEW top, NEW C, top \subseteq C,
           \A e \in E : e[3] = "CONTAINS" /\ e[1] \in C => e[2] \in C
    PROVE  Descent(E, top)[9] \subseteq C
  <1>1. PICK w : w = Descent(E, top)
    OBVIOUS
  <1>2. w[0] = top /\ \A k \in 1..9 : w[k] = Below(E, w[k - 1])
    BY <1>1, DescentSteps
  <1>3. \A ns : ns \subseteq C => Below(E, ns) \subseteq C
    BY DEF Below
  <1>4. \A k \in 1..9 : w[k - 1] \subseteq C => w[k] \subseteq C
    BY <1>2, <1>3
  <1>5. w[1] \subseteq C
    BY <1>2, <1>4
  <1>6. w[2] \subseteq C
    BY <1>4, <1>5
  <1>7. w[3] \subseteq C
    BY <1>4, <1>6
  <1>8. w[4] \subseteq C
    BY <1>4, <1>7
  <1>9. w[5] \subseteq C
    BY <1>4, <1>8
  <1>10. w[6] \subseteq C
    BY <1>4, <1>9
  <1>11. w[7] \subseteq C
    BY <1>4, <1>10
  <1>12. w[8] \subseteq C
    BY <1>4, <1>11
  <1>13. w[9] \subseteq C
    BY <1>4, <1>12
  <1> QED
    BY <1>1, <1>13

\* Levels only go down, so that MaxDepth steps reach everything.
LEMMA DescentIsClosed ==
    ASSUME NEW E, NEW top, NEW L,
           \A e \in E : e[3] = "CONTAINS" =>
               L[e[1]] \in 0..9 /\ L[e[2]] \in 0..9 /\ L[e[1]] < L[e[2]]
    PROVE  LET C == Descent(E, top)[9]
           IN  /\ top \subseteq C
               /\ \A e \in E : e[3] = "CONTAINS" /\ e[1] \in C => e[2] \in C
  <1>1. PICK w : w = Descent(E, top)
    OBVIOUS
  <1>2. w[0] = top /\ \A k \in 1..9 : w[k] = Below(E, w[k - 1])
    BY <1>1, DescentSteps
  <1> DEFINE Deep(k) == \A e \in E :
               e[3] = "CONTAINS" /\ e[1] \in w[k] /\ e[1] \notin w[k - 1] => L[e[1]] >= k
  <1>3. \A k \in 1..9 : w[k - 1] \subseteq w[k]
    BY <1>2 DEF Below
  <1>4. \A k \in 1..9 : \A e \in E : e[3] = "CONTAINS" /\ e[1] \in w[k - 1] => e[2] \in w[k]
    BY <1>2 DEF Below
  <1>5. ASSUME NEW k \in 1..9, NEW x \in w[k], x \notin w[k - 1]
        PROVE  \E e \in E : e[3] = "CONTAINS" /\ e[1] \in w[k - 1] /\ e[2] = x
    BY <1>2, <1>5 DEF Below
  <1>6. Deep(1)
    <2>1. ASSUME NEW e \in E, e[3] = "CONTAINS", e[1] \in w[1], e[1] \notin w[0]
          PROVE  L[e[1]] >= 1
      <3>1. PICK f \in E : f[3] = "CONTAINS" /\ f[1] \in w[0] /\ f[2] = e[1]
        BY <1>5, <2>1
      <3> QED
        BY <3>1
    <2> QED
      BY <2>1
  <1>7. ASSUME NEW k \in 1..8, Deep(k) PROVE Deep(k + 1)
    <2>1. ASSUME NEW e \in E, e[3] = "CONTAINS", e[1] \in w[k + 1], e[1] \notin w[k]
          PROVE  L[e[1]] >= k + 1
      <3>1. k + 1 \in 1..9 /\ (k + 1) - 1 = k /\ k \in 1..9
        OBVIOUS
      <3>2. PICK f \in E : f[3] = "CONTAINS" /\ f[1] \in w[k] /\ f[2] = e[1]
        BY <1>5, <2>1, <3>1
      <3>3. f[1] \notin w[k - 1]
        BY <1>4, <2>1, <3>1, <3>2
      <3>4. L[f[1]] >= k
        BY <1>7, <3>2, <3>3
      <3> QED
        BY <3>2, <3>4
    <2>2. (k + 1) - 1 = k
      OBVIOUS
    <2> QED
      BY <2>1, <2>2
  <1> HIDE DEF Deep
  <1>8. Deep(2)
    BY <1>6, <1>7
  <1>9. Deep(3)
    BY <1>7, <1>8
  <1>10. Deep(4)
    BY <1>7, <1>9
  <1>11. Deep(5)
    BY <1>7, <1>10
  <1>12. Deep(6)
    BY <1>7, <1>11
  <1>13. Deep(7)
    BY <1>7, <1>12
  <1>14. Deep(8)
    BY <1>7, <1>13
  <1>15. Deep(9)
    BY <1>7, <1>14
  <1>16. ASSUME NEW e \in E, e[3] = "CONTAINS", e[1] \in w[9] PROVE e[2] \in w[9]
    <2>1. CASE e[1] \in w[8]
      BY <1>4, <1>16, <2>1
    <2>2. CASE e[1] \notin w[8]
      <3>1. L[e[1]] >= 9
        BY <1>15, <1>16, <2>2 DEF Deep
      <3> QED
        BY <1>16, <3>1
    <2> QED
      BY <2>1, <2>2
  <1>17. top \subseteq w[9]
    <2>1. /\ w[0] \subseteq w[1] /\ w[1] \subseteq w[2] /\ w[2] \subseteq w[3]
          /\ w[3] \subseteq w[4] /\ w[4] \subseteq w[5] /\ w[5] \subseteq w[6]
          /\ w[6] \subseteq w[7] /\ w[7] \subseteq w[8] /\ w[8] \subseteq w[9]
      BY <1>3
    <2> QED
      BY <1>2, <2>1
  <1> QED
    BY <1>1, <1>16, <1>17

\* The edges of a hierarchy go down, whatever layout they are of.
Depth == [n \in Ids |-> Level[Type[n]]]

LEMMA KnownDescends ==
    ASSUME TypeOK', Known', NEW e \in edges', e[3] = "CONTAINS"
    PROVE  Depth[e[1]] \in 0..9 /\ Depth[e[2]] \in 0..9 /\ Depth[e[1]] < Depth[e[2]]
  <1>1. PICK d \in Docs : \E v \in 1..disk'[d] : e \in Edges(Layouts[d][v])
    BY DEF Known, OfLayout
  <1>0. PICK v \in 1..disk'[d] : e \in Edges(Layouts[d][v])
    BY <1>1
  <1>2. v \in DOMAIN Layouts[d]
    <2>1. disk'[d] \in DOMAIN Layouts[d] /\ Layouts[d] \in Seq(Payloads)
      BY PayloadAssumption DEF TypeOK
    <2> QED
      BY <2>1
  <1>3. e \in Ids \X Ids \X STRING /\ <<Type[e[1]], Type[e[2]]>> \in StructuralPairs
    BY <1>0, <1>2, LayoutFacts, LayoutIsTree
  <1>4. /\ Level[Type[e[1]]] \in 0..9 /\ Level[Type[e[2]]] \in 0..9
        /\ Level[Type[e[1]]] < Level[Type[e[2]]]
    BY <1>3, PairsDescend
  <1> QED
    BY <1>3, <1>4 DEF Depth

\* The edge that a reconciler deletes has the chain that replaces it.
Bridged(e) ==
    \E x : {Containing(e[1], x), Containing(x, e[2])} \subseteq edges'

LEMMA ReconcileBridges ==
    ASSUME TypeOK, NEW w \in Workers, Reconcile(w), NEW e \in edges, e \notin edges'
    PROVE  Bridged(e)
  <1>1. PICK s : s = Statement(w)
    OBVIOUS
  <1>2. /\ Writing(w, "clean") /\ ChainsExist(s.of) /\ edges' = edges \ Legacy(s.of)
    BY <1>1 DEF Reconcile
  <1>3. w \in Writers
    BY <1>2 DEF Writing, Writers
  <1>4. PICK p : ScriptFrom(w, p)
    BY <1>3, ScriptExists
  <1>5. PICK d : d = jobs[w].doc
    OBVIOUS
  <1>6. d \in Docs /\ disk[d] \in DOMAIN Layouts[d] /\ s.of \in Mappings(p)
    BY <1>1, <1>2, <1>4, <1>5, StatementFacts
  <1>7. PICK full \in BOOLEAN : p = Build(d, Own(d), full)
    BY <1>4, <1>5 DEF ScriptFrom
  <1>8. PICK m \in s.of : e = Containing(m[1], m[3])
    BY <1>2 DEF Legacy
  <1>9. {Containing(m[1], m[2]), Containing(m[2], m[3])} \subseteq edges
    BY <1>2 DEF ChainsExist
  <1>10. /\ Containing(m[1], m[2]) \notin Legacy(s.of)
         /\ Containing(m[2], m[3]) \notin Legacy(s.of)
    BY <1>6, <1>7, CleanupSpares DEF Own
  <1>11. e[1] = m[1] /\ e[2] = m[3]
    BY <1>8 DEF Containing
  <1>12. {Containing(m[1], m[2]), Containing(m[2], m[3])} \subseteq edges'
    BY <1>2, <1>9, <1>10
  <1> QED
    BY <1>11, <1>12 DEF Bridged

\* A step deletes no node and no edge without such a chain, unless it clears the
\* database.
LEMMA EdgesStay ==
    ASSUME TypeOK, [Next]_vars, DOMAIN nodes' # {}
    PROVE  /\ DOMAIN nodes \subseteq DOMAIN nodes'
           /\ \A e \in edges : e \in edges' \/ Bridged(e)
  <1>1. CASE ClearDatabase
    BY <1>1 DEF ClearDatabase
  <1>2. CASE \/ InitSchema \/ Extract \/ Crash \/ EndPhase \/ UNCHANGED vars
             \/ \E d \in Docs : Reparse(d)
             \/ \E name \in Commands, d \in Docs : Start(name, d)
    BY <1>2 DEF InitSchema, Extract, Crash, EndPhase, Reparse, Start, graph, vars
  <1>3. ASSUME NEW w \in Workers,
               Take(w) \/ FindStale(w) \/ Done(w) \/ StatementFails(w)
        PROVE  UNCHANGED graph
    BY <1>3 DEF Take, FindStale, Done, StatementFails
  <1>4. ASSUME NEW w \in Workers, WriteNode(w)
        PROVE  DOMAIN nodes \subseteq DOMAIN nodes' /\ edges' = edges
    BY <1>4 DEF WriteNode, MergeNode
  <1>5. ASSUME NEW w \in Workers, WriteRelation(w)
        PROVE  nodes' = nodes /\ edges \subseteq edges'
    BY <1>5 DEF WriteRelation, MergeRelation
  <1>6. ASSUME NEW w \in Workers, WriteVector(w)
        PROVE  DOMAIN nodes' = DOMAIN nodes /\ edges' = edges
    BY <1>6, WriteVectorFacts
  <1>7. ASSUME NEW w \in Workers, Reconcile(w)
        PROVE  nodes' = nodes /\ \A e \in edges : e \in edges' \/ Bridged(e)
    BY <1>7, ReconcileBridges DEF Reconcile
  <1> QED
    BY <1>1, <1>2, <1>3, <1>4, <1>5, <1>6, <1>7 DEF Next, Step, graph

LEMMA ReachStep ==
    ASSUME TypeOK, TypeOK', Known', [Next]_vars, DOMAIN nodes' # {}, NEW d \in Docs
    PROVE  Reachable(d) \subseteq Reachable(d)'
  <1>1. /\ DOMAIN nodes \subseteq DOMAIN nodes'
        /\ \A e \in edges : e \in edges' \/ Bridged(e)
    BY EdgesStay
  <1>2. PICK E : E = edges
    OBVIOUS
  <1>3. PICK F : F = edges'
    OBVIOUS
  <1>4. PICK top : top = {d} \cap DOMAIN nodes
    OBVIOUS
  <1>5. PICK top2 : top2 = {d} \cap DOMAIN nodes'
    OBVIOUS
  <1>6. PICK C : C = Descent(F, top2)[9]
    OBVIOUS
  <1>7. \A e \in F : e[3] = "CONTAINS" =>
           Depth[e[1]] \in 0..9 /\ Depth[e[2]] \in 0..9 /\ Depth[e[1]] < Depth[e[2]]
    BY <1>3, KnownDescends
  <1>8. top2 \subseteq C /\ \A e \in F : e[3] = "CONTAINS" /\ e[1] \in C => e[2] \in C
    BY <1>6, <1>7, DescentIsClosed
  <1>9. top \subseteq C
    BY <1>1, <1>4, <1>5, <1>8
  <1>10. ASSUME NEW e \in E, e[3] = "CONTAINS", e[1] \in C PROVE e[2] \in C
    <2>1. CASE e \in F
      BY <1>8, <1>10, <2>1
    <2>2. CASE Bridged(e)
      <3>1. PICK x : Containing(e[1], x) \in F /\ Containing(x, e[2]) \in F
        BY <1>3, <2>2 DEF Bridged
      <3>2. PICK f, g : f = Containing(e[1], x) /\ g = Containing(x, e[2])
        OBVIOUS
      <3>3. /\ f[1] = e[1] /\ f[2] = x /\ f[3] = "CONTAINS" /\ f \in F
            /\ g[1] = x /\ g[2] = e[2] /\ g[3] = "CONTAINS" /\ g \in F
        BY <3>1, <3>2 DEF Containing
      <3>4. x \in C
        BY <1>8, <1>10, <3>3
      <3> QED
        BY <1>8, <3>3, <3>4
    <2> QED
      BY <1>1, <1>2, <1>3, <1>10, <2>1, <2>2
  <1>11. Descent(E, top)[9] \subseteq C
    BY <1>9, <1>10, DescentIsLeast
  <1>12. Reachable(d) = Descent(E, top)[9] \ {d}
    BY <1>2, <1>4, ReachableIs DEF MaxDepth
  <1>13. Reachable(d)' = C \ {d}
    BY <1>3, <1>5, <1>6, ReachableNext DEF MaxDepth
  <1> QED
    BY <1>11, <1>12, <1>13

\* No step cuts a unit off from its Document, unless it clears the database: the
\* deletions of the reconciler leave the chain that they rest on.
THEOREM StaysReachableAlways == Spec => StaysReachable
  <1> DEFINE Keeps == DOMAIN nodes' # {} =>
                 \A d \in Docs : Reachable(d) \subseteq Reachable(d)'
  <1>1. Init => IInv
    BY IInvInit
  <1>2. IInv /\ [Next]_vars => IInv'
    BY IInvStep
  <1>3. IInv /\ [Next]_vars => [Keeps]_vars
    BY IInvStep, ReachStep DEF IInv
  <1> QED
    BY <1>1, <1>2, <1>3, PTL DEF Spec, StaysReachable
=============================================================================
