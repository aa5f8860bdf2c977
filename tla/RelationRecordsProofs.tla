------------------------ MODULE RelationRecordsProofs ------------------------
(***************************************************************************)
(* What a document's records and payload satisfy for every host document,  *)
(* every set of answers, references, links and diagrams.                   *)
(***************************************************************************)
EXTENDS RelationRecords, FiniteSetTheorems, FunctionTheorems, TLAPS

-----------------------------------------------------------------------------
(* The inductive invariant.                                                *)

Corpora == [Docs -> {"absent", "raw", "parsed"}]
WorkStates == {"idle", "queued", "written", "done"}
Batches == [at : {"off", "run", "ended"}, work : [Docs -> WorkStates]]

\* A record written out with all its fields.
Fields(r) ==
    [via |-> r.via, head |-> r.head, rel |-> r.rel, tail |-> r.tail,
     ord |-> r.ord, cite |-> r.cite, range |-> r.range, article |-> r.article,
     bundle |-> r.bundle, count |-> r.count, evidence |-> r.evidence,
     deferred |-> r.deferred, superseded |-> r.superseded, blocked |-> r.blocked,
     ontology |-> r.ontology, consistent |-> r.consistent, review |-> r.review,
     decision |-> r.decision]

\* A value that is a record of all_records, whatever its fields hold.
IsRecord(r) == r = Fields(r)

\* What a record is apart from its verdicts, which later steps change.
SameRecord(r, s) ==
    /\ s.via = r.via /\ s.head = r.head /\ s.rel = r.rel /\ s.tail = r.tail
    /\ s.ord = r.ord /\ s.cite = r.cite /\ s.range = r.range
    /\ s.article = r.article /\ s.bundle = r.bundle /\ s.count = r.count
    /\ s.evidence = r.evidence /\ s.deferred = r.deferred

Verdicts(r) ==
    /\ r.superseded \in BOOLEAN /\ r.ontology \in BOOLEAN /\ r.consistent \in BOOLEAN
    /\ r.consistent = TRUE => r.ontology = TRUE

\* The records of r's bundle are one for each member of T, with the bundle's size
\* and place.
BundleOver(rs, r, T) ==
    /\ IsFiniteSet(T) /\ Cardinality(T) = r.count
    /\ \A t \in T : \E x \in rs : x.bundle = r.bundle /\ x.tail = t
    /\ \A x \in rs : x.bundle = r.bundle =>
          x.tail \in T /\ x.count = r.count /\ x.deferred = r.deferred
    /\ \A x, y \in rs : x.bundle = r.bundle /\ y.bundle = r.bundle /\ x.tail = y.tail
          => x = y
Whole(rs) == \A r \in rs : r.bundle # <<>> => \E T : BundleOver(rs, r, T)

\* Which records are members of bundles.
Shape(r) ==
    /\ IsRecord(r) /\ Verdicts(r)
    /\ r.evidence \in Nat
    /\ r.via \in {"LLM", "DIAGRAM"} => r.bundle = <<>>
    /\ r.via \in ByRule =>
          r.bundle # <<>> /\ r.bundle[1] \in {"reference", "candidate"}

BatchInv ==
    /\ links \in Links /\ corpus \in Corpora
    /\ batch \in Batches
    /\ CandidatesAreSettled

\* The sidecar is what some state of the corpus gave.
SidecarInv == \E k \in Corpora : sidecar \subseteq Candidates(k, links)

PhaseInv ==
    /\ pc \in {"off", "articles", "stopped", "diagram", "decide", "build", "done"}
    /\ pc = "off" => records = {}
    /\ pc \in {"off", "articles"} => \A r \in records : r.via = "LLM"
    /\ pc # "done" => payload = NoPayload

RecordInv == Whole(records) /\ \A r \in records : Shape(r)

\* No model reading of a citation that a rule resolved escapes the mark.
Marked(rs) ==
    \A e, f \in rs :
        /\ e.via \in ByRule /\ e.bundle[1] = "reference"
        /\ f.via = "LLM" /\ f.rel = "REFERS_TO"
        /\ e.head = f.head /\ e.cite = f.cite
        => f.superseded = TRUE
MarkInv == pc \in {"diagram", "decide", "build", "done"} => Marked(records)

\* Decisions are one per bundle, and the gate's for a record of the model.
Settled(rs) ==
    \A r \in rs :
        /\ r.bundle # <<>> => \A x \in rs : x.bundle = r.bundle => x.decision = r.decision
        /\ r.decision = "accepted" /\ r.via = "LLM" =>
              r.superseded # TRUE /\ r.evidence > 0
DecideInv == pc \in {"build", "done"} => Settled(records)

PayloadInv ==
    pc = "done" =>
        /\ payload.edges \subseteq Local(records)
        /\ \A r \in payload.edges : BundleComplete(r, payload.edges)

IInv ==
    /\ BatchInv /\ SidecarInv /\ PhaseInv /\ RecordInv /\ MarkInv /\ DecideInv
    /\ PayloadInv

-----------------------------------------------------------------------------
(* Records.                                                                *)

LEMMA VerdictSame ==
    ASSUME NEW r, IsRecord(r), NEW o, NEW c, NEW v,
           NEW s, s = [r EXCEPT !.ontology = o, !.consistent = c, !.review = v]
    PROVE  /\ IsRecord(s) /\ SameRecord(r, s)
           /\ s.superseded = r.superseded /\ s.decision = r.decision
           /\ s.ontology = o /\ s.consistent = c /\ s.review = v
           /\ s.blocked = r.blocked
BY DEF Fields, IsRecord, SameRecord

LEMMA JudgedSame ==
    ASSUME NEW r, IsRecord(r), Verdicts(r), NEW ht, NEW tt, NEW known, NEW dated
    PROVE  /\ IsRecord(Judged(r, ht, tt, known, dated))
           /\ SameRecord(r, Judged(r, ht, tt, known, dated))
           /\ Verdicts(Judged(r, ht, tt, known, dated))
           /\ Judged(r, ht, tt, known, dated).consistent = TRUE =>
                /\ OntologyValid(ht, r.rel, tt, r.head, r.tail, dated)
                /\ r.head \in known /\ r.tail \in known
<1> DEFINE o == OntologyValid(ht, r.rel, tt, r.head, r.tail, dated)
           c == o /\ ~({r.head, r.tail} \ known # {})
           v == o /\ {r.head, r.tail} \ known # {} /\ ConsistencyReview(r.rel)
<1>1. Judged(r, ht, tt, known, dated)
        = [r EXCEPT !.ontology = o, !.consistent = c, !.review = v]
  BY Zenon DEF Judged
<1>2. ({r.head, r.tail} \ known = {}) => r.head \in known /\ r.tail \in known
  OBVIOUS
<1>3. c => o /\ r.head \in known /\ r.tail \in known
  BY <1>2, Zenon
<1>b. o \in BOOLEAN /\ c \in BOOLEAN /\ (c => o)
  BY Zenon DEF OntologyValid
<1> HIDE DEF o, c, v
<1>4. PICK s : s = Judged(r, ht, tt, known, dated)
  OBVIOUS
<1>5. s = [r EXCEPT !.ontology = o, !.consistent = c, !.review = v]
  BY <1>1, <1>4, Zenon
<1>6. /\ IsRecord(s) /\ SameRecord(r, s)
      /\ s.consistent = c /\ s.ontology = o /\ s.superseded = r.superseded
  BY <1>5 DEF Fields, IsRecord, SameRecord
<1>7. Verdicts(s)
  BY <1>b, <1>6, Zenon DEF Verdicts
<1> QED
  BY <1>3, <1>4, <1>6, <1>7, Zenon DEF o

LEMMA RawRecord ==
    ASSUME NEW via, NEW head, NEW rel, NEW tail,
           NEW r, r = Raw(via, head, rel, tail)
    PROVE  /\ IsRecord(r) /\ r.via = via /\ r.head = head /\ r.rel = rel
           /\ r.tail = tail /\ r.bundle = <<>> /\ r.count = 1 /\ r.evidence = 0
           /\ r.superseded = FALSE /\ r.deferred = FALSE /\ r.decision = "none"
           /\ r.ord = 0 /\ r.cite = "" /\ r.range = FALSE /\ r.blocked = FALSE
           /\ r.ontology = FALSE /\ r.consistent = FALSE
BY DEF Raw, IsRecord, Fields

LEMMA ExceptSame ==
    ASSUME NEW r, IsRecord(r), NEW v, NEW s
    PROVE  /\ s = [r EXCEPT !.superseded = v] =>
                 /\ IsRecord(s) /\ SameRecord(r, s) /\ s.superseded = v
                 /\ s.decision = r.decision /\ s.ontology = r.ontology
                 /\ s.consistent = r.consistent /\ s.blocked = r.blocked
           /\ s = [r EXCEPT !.decision = v] =>
                 /\ IsRecord(s) /\ SameRecord(r, s) /\ s.decision = v
                 /\ s.superseded = r.superseded /\ s.ontology = r.ontology
                 /\ s.consistent = r.consistent /\ s.blocked = r.blocked
BY DEF IsRecord, Fields, SameRecord

\* What a record of an Article's answer says.
OfArticle(types, x, s) ==
    /\ Shape(s) /\ s.via = "LLM" /\ s.bundle = <<>>
    /\ s.head = x.head /\ s.rel = x.rel /\ s.tail = x.tail
    /\ s.ord = 0 /\ s.deferred = FALSE
    /\ s.consistent = TRUE =>
          /\ OntologyValid(EndpointType(x.head, types), x.rel,
                           EndpointType(x.tail, types), x.head, x.tail, TRUE)
          /\ x.head \in Registered \cup SemanticOf(types)
          /\ x.tail \in Registered \cup SemanticOf(types)

LEMMA ArticleFacts ==
    ASSUME NEW a, NEW types, NEW x, x.evidence \in Nat
    PROVE  OfArticle(types, x, ArticleRecord(a, types, x))
<1> DEFINE r == [Raw("LLM", x.head, x.rel, x.tail) EXCEPT
                    !.article = a, !.cite = x.cite, !.evidence = x.evidence]
           hd == EndpointType(x.head, types)
           tl == EndpointType(x.tail, types)
           known == Registered \cup SemanticOf(types)
           yes == TRUE
<1>0. PICK s : s = ArticleRecord(a, types, x)
  OBVIOUS
<1>1. PICK q : q = r
  OBVIOUS
<1>v. Verdicts(q)
  BY <1>1 DEF Raw, Verdicts
<1>2. /\ IsRecord(q) /\ q.via = "LLM" /\ q.bundle = <<>> /\ q.evidence = x.evidence
      /\ q.head = x.head /\ q.rel = x.rel /\ q.tail = x.tail
      /\ q.ord = 0 /\ q.deferred = FALSE /\ q.consistent = FALSE
  BY <1>1 DEF Raw, IsRecord, Fields
<1>3. s = q \/ s = Judged(q, hd, tl, known, yes)
  BY <1>0, <1>1, Zenon DEF ArticleRecord
<1> HIDE DEF r, hd, tl, known, yes
<1>4. /\ IsRecord(s) /\ SameRecord(q, s) /\ Verdicts(s)
      /\ s.consistent = TRUE =>
            /\ OntologyValid(hd, q.rel, tl, q.head, q.tail, yes)
            /\ q.head \in known /\ q.tail \in known
  <2>1. CASE s = q
    BY <2>1, <1>2, <1>v DEF SameRecord
  <2>2. CASE s = Judged(q, hd, tl, known, yes)
    <3> DEFINE j == Judged(q, hd, tl, known, yes)
    <3>1. /\ IsRecord(j) /\ SameRecord(q, j) /\ Verdicts(j)
          /\ j.consistent = TRUE =>
                /\ OntologyValid(hd, q.rel, tl, q.head, q.tail, yes)
                /\ q.head \in known /\ q.tail \in known
      BY <1>2, <1>v, JudgedSame
    <3> HIDE DEF j
    <3> QED
      BY <3>1, <2>2, Zenon DEF j
  <2> QED
    BY <1>3, <2>1, <2>2
<1>5. /\ s.via = "LLM" /\ s.bundle = <<>> /\ s.evidence = x.evidence
      /\ s.head = x.head /\ s.rel = x.rel /\ s.tail = x.tail
      /\ s.ord = 0 /\ s.deferred = FALSE
  <2>1. SameRecord(q, s)
    BY <1>4
  <2> QED
    BY <2>1, <1>2 DEF SameRecord
<1>6. Shape(s)
  BY <1>4, <1>5 DEF Shape, ByRule
<1>7. s.consistent = TRUE =>
         /\ OntologyValid(hd, x.rel, tl, x.head, x.tail, yes)
         /\ x.head \in known /\ x.tail \in known
  BY <1>4, <1>2, Zenon
<1>8. OfArticle(types, x, s)
  BY <1>5, <1>6, <1>7, Zenon DEF OfArticle, hd, tl, known, yes
<1> QED
  BY <1>0, <1>8, Zenon

\* What a record of a resolved reference says.
OfReference(ref, t, s) ==
    /\ IsRecord(s) /\ Verdicts(s) /\ s.evidence = 0
    /\ s.via = ref.method /\ s.head = ref.source /\ s.rel = "REFERS_TO"
    /\ s.cite = ref.cite /\ s.bundle = <<"reference", ref.id>>
    /\ s.range = (Cardinality(ref.targets) > 1)
    /\ s.ord = ref.id /\ s.count = Cardinality(ref.targets)
    /\ s.deferred = FALSE /\ s.tail = t
    /\ s.consistent = TRUE =>
          /\ OntologyValid(TypeOf(ref.source), "REFERS_TO", TypeOf(s.tail),
                           ref.source, s.tail, TRUE)
          /\ ref.source \in Registered /\ s.tail \in Registered

LEMMA ReferenceFacts ==
    ASSUME NEW ref, NEW t
    PROVE  OfReference(ref, t, ReferenceRecord(ref, t))
<1>0. PICK s : s = ReferenceRecord(ref, t)
  OBVIOUS
<1> DEFINE r == [Raw(ref.method, ref.source, "REFERS_TO", t) EXCEPT
                !.cite = ref.cite, !.range = Cardinality(ref.targets) > 1,
                !.bundle = <<"reference", ref.id>>, !.ord = ref.id,
                !.count = Cardinality(ref.targets)]
<1>1. s = Judged(r, TypeOf(ref.source), TypeOf(t), Registered, TRUE)
  BY <1>0, Zenon DEF ReferenceRecord
<1>2. PICK q : q = r
  OBVIOUS
<1>3. PICK many : many = (Cardinality(ref.targets) > 1)
  OBVIOUS
<1>4. q = [Raw(ref.method, ref.source, "REFERS_TO", t) EXCEPT
                !.cite = ref.cite, !.range = many,
                !.bundle = <<"reference", ref.id>>, !.ord = ref.id,
                !.count = Cardinality(ref.targets)]
  BY <1>2, <1>3, Zenon
<1>5. s = Judged(q, TypeOf(ref.source), TypeOf(t), Registered, TRUE)
  BY <1>1, <1>2, Zenon
<1> HIDE DEF r
<1>v. Verdicts(q)
  BY <1>4 DEF Raw, Verdicts
<1>6. /\ IsRecord(q) /\ q.evidence = 0
      /\ q.via = ref.method /\ q.head = ref.source /\ q.rel = "REFERS_TO"
      /\ q.cite = ref.cite /\ q.bundle = <<"reference", ref.id>>
      /\ q.range = many /\ q.ord = ref.id
      /\ q.count = Cardinality(ref.targets)
      /\ q.deferred = FALSE /\ q.tail = t
  BY <1>4 DEF Raw, IsRecord, Fields
<1>7. /\ IsRecord(s) /\ SameRecord(q, s) /\ Verdicts(s)
      /\ s.consistent = TRUE =>
            /\ OntologyValid(TypeOf(ref.source), q.rel, TypeOf(t), q.head, q.tail, TRUE)
            /\ q.head \in Registered /\ q.tail \in Registered
  <2> DEFINE yes == TRUE
             j == Judged(q, TypeOf(ref.source), TypeOf(t), Registered, yes)
  <2> HIDE DEF yes
  <2>1. IsRecord(q)
    BY <1>6
  <2>2. /\ IsRecord(j) /\ SameRecord(q, j) /\ Verdicts(j)
        /\ j.consistent = TRUE =>
             /\ OntologyValid(TypeOf(ref.source), q.rel, TypeOf(t), q.head, q.tail, yes)
             /\ q.head \in Registered /\ q.tail \in Registered
    BY <2>1, <1>v, JudgedSame
  <2>3. s = j
    BY <1>5, Zenon DEF yes
  <2> HIDE DEF j
  <2> QED
    BY <2>2, <2>3, Zenon DEF yes
<1>8. /\ s.evidence = 0
      /\ s.via = ref.method /\ s.head = ref.source /\ s.rel = "REFERS_TO"
      /\ s.cite = ref.cite /\ s.bundle = <<"reference", ref.id>>
      /\ s.range = many /\ s.ord = ref.id
      /\ s.count = Cardinality(ref.targets)
      /\ s.deferred = FALSE /\ s.tail = t
  <2>1. SameRecord(q, s)
    BY <1>7
  <2> QED
    BY <2>1, <1>6 DEF SameRecord
<1>9. q.rel = "REFERS_TO" /\ q.head = ref.source /\ q.tail = s.tail /\ t = s.tail
  BY <1>6, <1>8, Zenon
<1>10. s.consistent = TRUE =>
          /\ OntologyValid(TypeOf(ref.source), "REFERS_TO", TypeOf(s.tail),
                           ref.source, s.tail, TRUE)
          /\ ref.source \in Registered /\ s.tail \in Registered
  BY <1>7, <1>9, Zenon
<1>11. OfReference(ref, t, s)
  BY <1>3, <1>7, <1>8, <1>10, Zenon DEF OfReference
<1> QED
  BY <1>0, <1>11, Zenon
\* What a record of a candidate says.
OfCandidate(c, t, s) ==
    /\ IsRecord(s) /\ Verdicts(s) /\ s.evidence = 0
    /\ s.via \in {"ENTITY_LINKING", "PROVIDER_HTML"}
    /\ s.head = c.src /\ s.rel = c.rel
    /\ s.cite = c.cite /\ s.bundle = <<"candidate", c.id>>
    /\ s.range = (Cardinality(c.targets) > 1)
    /\ s.ord = 100 + c.id /\ s.count = Cardinality(c.targets)
    /\ s.deferred = Deferred(c) /\ s.tail = t
    /\ s.consistent = TRUE =>
          OntologyValid(TypeOf(c.src), c.rel, TypeOf(s.tail), c.src, s.tail, TRUE)

LEMMA CandidateFacts ==
    ASSUME NEW c, NEW t
    PROVE  OfCandidate(c, t, CandidateRecord(c, t))
<1>0. PICK s : s = CandidateRecord(c, t)
  OBVIOUS
<1> DEFINE by == IF c.rel = "REFERS_TO" THEN "ENTITY_LINKING" ELSE "PROVIDER_HTML"
           r == [Raw(by, c.src, c.rel, t) EXCEPT
                       !.cite = c.cite, !.range = Cardinality(c.targets) > 1,
                       !.bundle = <<"candidate", c.id>>, !.ord = 100 + c.id,
                       !.count = Cardinality(c.targets), !.deferred = Deferred(c)]
           known == Registered \cup c.targets \cup {c.src}
<1>1. s = Judged(r, TypeOf(c.src), TypeOf(t), known, TRUE)
  BY <1>0, Zenon DEF CandidateRecord
<1>2. PICK q : q = r
  OBVIOUS
<1>3. PICK many : many = (Cardinality(c.targets) > 1)
  OBVIOUS
<1>4. PICK later : later = Deferred(c)
  OBVIOUS
<1>5. q = [Raw(by, c.src, c.rel, t) EXCEPT
                !.cite = c.cite, !.range = many,
                !.bundle = <<"candidate", c.id>>, !.ord = 100 + c.id,
                !.count = Cardinality(c.targets), !.deferred = later]
  BY <1>2, <1>3, <1>4, Zenon
<1>6. s = Judged(q, TypeOf(c.src), TypeOf(t), known, TRUE)
  BY <1>1, <1>2, Zenon
<1> HIDE DEF r, by, known
<1>v. Verdicts(q)
  BY <1>5 DEF Raw, Verdicts
<1>7. /\ IsRecord(q) /\ q.evidence = 0 /\ q.via = by /\ q.head = c.src
      /\ q.rel = c.rel /\ q.cite = c.cite /\ q.bundle = <<"candidate", c.id>>
      /\ q.range = many /\ q.ord = 100 + c.id
      /\ q.count = Cardinality(c.targets)
      /\ q.deferred = later /\ q.tail = t
  BY <1>5 DEF Raw, IsRecord, Fields
<1>8. /\ IsRecord(s) /\ SameRecord(q, s) /\ Verdicts(s)
      /\ s.consistent = TRUE =>
            OntologyValid(TypeOf(c.src), q.rel, TypeOf(t), q.head, q.tail, TRUE)
  <2> DEFINE yes == TRUE
             j == Judged(q, TypeOf(c.src), TypeOf(t), known, yes)
  <2> HIDE DEF yes
  <2>1. IsRecord(q)
    BY <1>7
  <2>2. /\ IsRecord(j) /\ SameRecord(q, j) /\ Verdicts(j)
        /\ j.consistent = TRUE =>
             OntologyValid(TypeOf(c.src), q.rel, TypeOf(t), q.head, q.tail, yes)
    BY <2>1, <1>v, JudgedSame
  <2>3. s = j
    BY <1>6, Zenon DEF yes
  <2> HIDE DEF j
  <2> QED
    BY <2>2, <2>3, Zenon DEF yes
<1>9. /\ s.evidence = 0 /\ s.via = by /\ s.head = c.src
      /\ s.rel = c.rel /\ s.cite = c.cite /\ s.bundle = <<"candidate", c.id>>
      /\ s.range = many /\ s.ord = 100 + c.id
      /\ s.count = Cardinality(c.targets)
      /\ s.deferred = later /\ s.tail = t
  <2>1. SameRecord(q, s)
    BY <1>8
  <2> QED
    BY <2>1, <1>7 DEF SameRecord
<1>10. q.rel = c.rel /\ q.head = c.src /\ q.tail = s.tail /\ t = s.tail
  BY <1>7, <1>9, Zenon
<1>11. s.consistent = TRUE =>
          OntologyValid(TypeOf(c.src), c.rel, TypeOf(s.tail), c.src, s.tail, TRUE)
  BY <1>8, <1>10, Zenon
<1>12. by \in {"ENTITY_LINKING", "PROVIDER_HTML"}
  BY DEF by
<1>13. OfCandidate(c, t, s)
  BY <1>3, <1>4, <1>8, <1>9, <1>11, <1>12, Zenon DEF OfCandidate
<1> QED
  BY <1>0, <1>13, Zenon

\* The members of a bundle are told apart by their targets.
LEMMA BundleMembers ==
    ASSUME NEW x
    PROVE  /\ \A t \in x.targets : \E s \in ReferenceRecords(x) : s.tail = t
           /\ \A r, s \in ReferenceRecords(x) : r.tail = s.tail => r = s
           /\ \A t \in x.targets : \E s \in CandidateRecords(x) : s.tail = t
           /\ \A r, s \in CandidateRecords(x) : r.tail = s.tail => r = s
<1>1. ASSUME NEW t PROVE ReferenceRecord(x, t).tail = t /\ CandidateRecord(x, t).tail = t
  <2>1. OfReference(x, t, ReferenceRecord(x, t)) /\ OfCandidate(x, t, CandidateRecord(x, t))
    BY ReferenceFacts, CandidateFacts, Zenon
  <2> QED
    BY <2>1, Zenon DEF OfReference, OfCandidate
<1>2. ASSUME NEW t \in x.targets
      PROVE  /\ ReferenceRecord(x, t) \in ReferenceRecords(x)
             /\ CandidateRecord(x, t) \in CandidateRecords(x)
  BY Zenon DEF ReferenceRecords, CandidateRecords
<1>3. ASSUME NEW r \in ReferenceRecords(x), NEW s \in ReferenceRecords(x), r.tail = s.tail
      PROVE  r = s
  <2>1. PICK t \in x.targets : r = ReferenceRecord(x, t)
    BY Zenon DEF ReferenceRecords
  <2>2. PICK u \in x.targets : s = ReferenceRecord(x, u)
    BY Zenon DEF ReferenceRecords
  <2>3. t = u
    <3>1. r.tail = t /\ s.tail = u
      BY <1>1, <2>1, <2>2, Zenon
    <3> QED
      BY <3>1, <1>3
  <2> QED
    BY <2>1, <2>2, <2>3, Zenon
<1>4. ASSUME NEW r \in CandidateRecords(x), NEW s \in CandidateRecords(x), r.tail = s.tail
      PROVE  r = s
  <2>1. PICK t \in x.targets : r = CandidateRecord(x, t)
    BY Zenon DEF CandidateRecords
  <2>2. PICK u \in x.targets : s = CandidateRecord(x, u)
    BY Zenon DEF CandidateRecords
  <2>3. t = u
    <3>1. r.tail = t /\ s.tail = u
      BY <1>1, <2>1, <2>2, Zenon
    <3> QED
      BY <3>1, <1>4
  <2> QED
    BY <2>1, <2>2, <2>3, Zenon
<1> QED
  BY <1>1, <1>2, <1>3, <1>4, Zenon

-----------------------------------------------------------------------------
(* Bundles.                                                                *)

\* A step that changes verdicts only keeps bundles whole.
LEMMA WholeImage ==
    ASSUME NEW rs, Whole(rs), NEW f, \A r \in rs : SameRecord(r, f[r])
    PROVE  Whole({f[r] : r \in rs})
<1> DEFINE ss == {f[r] : r \in rs}
<1> SUFFICES ASSUME NEW s \in ss, s.bundle # <<>>
             PROVE  \E T : BundleOver(ss, s, T)
  BY DEF Whole
<1>1. PICK r \in rs : s = f[r]
  OBVIOUS
<1>2. \A x \in rs : /\ f[x].bundle = x.bundle /\ f[x].tail = x.tail
                    /\ f[x].count = x.count /\ f[x].deferred = x.deferred
  BY Zenon DEF SameRecord
<1>3. PICK T : BundleOver(rs, r, T)
  BY <1>1, <1>2 DEF Whole
<1>4. BundleOver(ss, s, T)
  <2>1. IsFiniteSet(T) /\ Cardinality(T) = s.count
    BY <1>1, <1>2, <1>3 DEF BundleOver
  <2>2. ASSUME NEW t \in T PROVE \E x \in ss : x.bundle = s.bundle /\ x.tail = t
    <3>1. PICK x \in rs : x.bundle = r.bundle /\ x.tail = t
      BY <1>3 DEF BundleOver
    <3>2. f[x] \in ss /\ f[x].bundle = s.bundle /\ f[x].tail = t
      BY <3>1, <1>1, <1>2
    <3> QED
      BY <3>2
  <2>3. ASSUME NEW x \in ss, x.bundle = s.bundle
        PROVE  x.tail \in T /\ x.count = s.count /\ x.deferred = s.deferred
    <3>1. PICK y \in rs : x = f[y]
      OBVIOUS
    <3>2. y.tail \in T /\ y.count = r.count /\ y.deferred = r.deferred
      BY <3>1, <2>3, <1>1, <1>2, <1>3 DEF BundleOver
    <3> QED
      BY <3>1, <3>2, <1>1, <1>2
  <2>4. ASSUME NEW x \in ss, NEW y \in ss, x.bundle = s.bundle, y.bundle = s.bundle,
               x.tail = y.tail
        PROVE  x = y
    <3>1. PICK u \in rs : x = f[u]
      OBVIOUS
    <3>2. PICK v \in rs : y = f[v]
      OBVIOUS
    <3>3. u = v
      BY <3>1, <3>2, <2>4, <1>1, <1>2, <1>3 DEF BundleOver
    <3> QED
      BY <3>1, <3>2, <3>3
  <2> QED
    BY <2>1, <2>2, <2>3, <2>4 DEF BundleOver
<1> QED
  BY <1>4

\* Records that share no bundle.
LEMMA WholeUnion ==
    ASSUME NEW rs, NEW ss, Whole(rs), Whole(ss),
           \A r \in rs, s \in ss : r.bundle = s.bundle => r.bundle = <<>>
    PROVE  Whole(rs \cup ss)
<1> SUFFICES ASSUME NEW r \in rs \cup ss, r.bundle # <<>>
             PROVE  \E T : BundleOver(rs \cup ss, r, T)
  BY DEF Whole
<1>1. CASE r \in rs
  <2>1. PICK T : BundleOver(rs, r, T)
    BY <1>1 DEF Whole
  <2>2. \A x \in rs \cup ss : x.bundle = r.bundle => x \in rs
    BY <1>1
  <2>3. BundleOver(rs \cup ss, r, T)
    BY <2>1, <2>2 DEF BundleOver
  <2> QED
    BY <2>3
<1>2. CASE r \in ss
  <2>1. PICK T : BundleOver(ss, r, T)
    BY <1>2 DEF Whole
  <2>2. \A x \in rs \cup ss : x.bundle = r.bundle => x \in ss
    BY <1>2
  <2>3. BundleOver(rs \cup ss, r, T)
    BY <2>1, <2>2 DEF BundleOver
  <2> QED
    BY <2>3
<1> QED
  BY <1>1, <1>2

\* A whole bundle has as many records as it has targets.
LEMMA BundleCount ==
    ASSUME NEW rs, NEW r \in rs, r.bundle # <<>>, Whole(rs)
    PROVE  Cardinality({x \in rs : x.bundle = r.bundle}) = r.count
<1> DEFINE B == {x \in rs : x.bundle = r.bundle}
<1>1. PICK T : BundleOver(rs, r, T)
  BY DEF Whole
<1> DEFINE f == [x \in B |-> x.tail]
<1>2. f \in Bijection(B, T)
  <2>1. f \in [B -> T]
    BY <1>1 DEF BundleOver
  <2>2. \A x, y \in B : f[x] = f[y] => x = y
    BY <1>1 DEF BundleOver
  <2>3. \A t \in T : \E x \in B : f[x] = t
    BY <1>1 DEF BundleOver
  <2> QED
    BY <2>1, <2>2, <2>3, Fun_IsBij, Zenon
<1>3. ExistsBijection(T, B)
  BY <1>2, Fun_ExistsBijSymmetric, Zenon DEF ExistsBijection
<1>4. IsFiniteSet(T) /\ Cardinality(T) = r.count
  BY <1>1, Zenon DEF BundleOver
<1> QED
  BY <1>3, <1>4, FS_Bijection, Zenon

LEMMA RuleMember ==
    ASSUME NEW refs, NEW s \in RuleRecords(refs)
    PROVE  \E ref \in refs : \E t \in ref.targets :
              /\ s = ReferenceRecord(ref, t) /\ OfReference(ref, t, s)
              /\ ref.cite \notin Owned
              /\ ReferenceRecords(ref) \subseteq RuleRecords(refs)
<1>1. PICK ref \in refs :
        /\ s \in ReferenceRecords(ref) /\ ref.cite \notin Owned
        /\ ReferenceRecords(ref) \subseteq RuleRecords(refs)
  BY Zenon DEF RuleRecords
<1>2. PICK t \in ref.targets : s = ReferenceRecord(ref, t)
  BY <1>1, Zenon DEF ReferenceRecords
<1>3. OfReference(ref, t, s)
  BY <1>2, ReferenceFacts, Zenon
<1> QED
  BY <1>1, <1>2, <1>3, Zenon

LEMMA ProviderMember ==
    ASSUME NEW s \in ProviderRecords
    PROVE  \E c \in sidecar : \E t \in c.targets :
              /\ s = CandidateRecord(c, t) /\ OfCandidate(c, t, s)
              /\ CandidateRecords(c) \subseteq ProviderRecords
<1>1. PICK c \in sidecar :
        /\ s \in CandidateRecords(c)
        /\ CandidateRecords(c) \subseteq ProviderRecords
  BY Zenon DEF ProviderRecords
<1>2. PICK t \in c.targets : s = CandidateRecord(c, t)
  BY <1>1, Zenon DEF CandidateRecords
<1>3. OfCandidate(c, t, s)
  BY <1>2, CandidateFacts, Zenon
<1> QED
  BY <1>1, <1>2, <1>3, Zenon

\* Bundles of one text have different names.
LEMMA RuleWhole ==
    ASSUME NEW refs \in References
    PROVE  Whole(RuleRecords(refs))
<1> DEFINE rs == RuleRecords(refs)
<1> SUFFICES ASSUME NEW s \in rs, s.bundle # <<>>
             PROVE  \E T : BundleOver(rs, s, T)
  BY Zenon DEF Whole
<1>1. PICK ref \in refs : \E t \in ref.targets :
         /\ OfReference(ref, t, s) /\ ReferenceRecords(ref) \subseteq rs
  BY RuleMember, Zenon
<1>2. /\ s.bundle = <<"reference", ref.id>> /\ s.count = Cardinality(ref.targets)
      /\ s.deferred = FALSE
  BY <1>1, Zenon DEF OfReference
<1>3. ASSUME NEW x \in rs, x.bundle = s.bundle
      PROVE  /\ x \in ReferenceRecords(ref) /\ x.tail \in ref.targets
             /\ x.count = s.count /\ x.deferred = s.deferred
  <2>0. PICK other \in refs : \E t \in other.targets :
          x = ReferenceRecord(other, t) /\ OfReference(other, t, x)
    BY RuleMember, Zenon
  <2>1. PICK t \in other.targets :
          x = ReferenceRecord(other, t) /\ OfReference(other, t, x)
    BY <2>0
  <2>2. other.id = ref.id
    <3>1. x.bundle = <<"reference", other.id>>
      BY <2>1, Zenon DEF OfReference
    <3> QED
      BY <3>1, <1>2, <1>3
  <2>3. other = ref
    BY <2>2, RecordsAssumption, Zenon
  <2>4. x.tail = t /\ x.count = Cardinality(ref.targets) /\ x.deferred = FALSE
    BY <2>1, <2>3, Zenon DEF OfReference
  <2> QED
    BY <2>1, <2>3, <2>4, <1>2, Zenon DEF ReferenceRecords
<1>4. ASSUME NEW x \in ReferenceRecords(ref) PROVE x \in rs /\ x.bundle = s.bundle
  <2>1. PICK t \in ref.targets : x = ReferenceRecord(ref, t)
    BY Zenon DEF ReferenceRecords
  <2>2. OfReference(ref, t, x)
    BY <2>1, ReferenceFacts, Zenon
  <2> QED
    BY <2>2, <1>1, <1>2, Zenon DEF OfReference
<1>5. IsFiniteSet(ref.targets)
  BY RecordsAssumption, Zenon
<1>6. ASSUME NEW t \in ref.targets
      PROVE  \E x \in rs : x.bundle = s.bundle /\ x.tail = t
  <2>1. PICK x \in ReferenceRecords(ref) : x.tail = t
    BY BundleMembers, Zenon
  <2>2. x \in rs /\ x.bundle = s.bundle
    BY <1>4
  <2> QED
    BY <2>1, <2>2, Zenon
<1>7. \A x, y \in rs : x.bundle = s.bundle /\ y.bundle = s.bundle /\ x.tail = y.tail
         => x = y
  BY <1>3, BundleMembers, Zenon
<1> HIDE DEF rs
<1>8. BundleOver(rs, s, ref.targets)
  BY <1>2, <1>3, <1>5, <1>6, <1>7, Zenon DEF BundleOver
<1> QED
  BY <1>8, Zenon

LEMMA FiniteTargets ==
    ASSUME NEW ms \in Links, NEW m \in ms, NEW k
    PROVE  IsFiniteSet(Targets(k, m))
<1>1. IsFiniteSet({GraphId(m.doc)})
  BY FS_Singleton, Zenon
<1>2. IsFiniteSet(Resolved(k, m.doc, m.items))
  <2> DEFINE S == m.items \cap UnitIndex(k, m.doc)
             T == {ItemUnit[i] : i \in S}
             f == [i \in S |-> ItemUnit[i]]
  <2>1. IsFiniteSet(m.items)
    BY RecordsAssumption, Zenon
  <2>2. IsFiniteSet(S)
    BY <2>1, FS_Intersection, Zenon
  <2>3. f \in Surjection(S, T)
    <3> HIDE DEF S
    <3>1. f \in [S -> T]
      OBVIOUS
    <3>2. \A t \in T : \E i \in S : f[i] = t
      OBVIOUS
    <3> QED
      BY <3>1, <3>2, Fun_IsSurj, Zenon
  <2> HIDE DEF S, f
  <2>4. IsFiniteSet(T)
    BY <2>2, <2>3, FS_Surjection, Zenon
  <2> QED
    BY <2>4, Zenon DEF Resolved, S
<1> QED
  BY <1>1, <1>2, Zenon DEF Targets

\* What the sidecar of an extraction holds.
LEMMA SidecarFacts ==
    ASSUME links \in Links, SidecarInv
    PROVE  \A c, d \in sidecar : IsFiniteSet(c.targets) /\ (c.id = d.id => c = d)
<1>1. PICK k \in Corpora : sidecar \subseteq Candidates(k, links)
  BY DEF SidecarInv
<1>2. ASSUME NEW c \in sidecar
      PROVE  \E m \in links : /\ c = Candidate(k, m, links) /\ c.id = m.pos
                              /\ c.targets = Targets(k, m)
  <2>1. PICK m \in links : c = Candidate(k, m, links)
    BY <1>1, Zenon DEF Candidates
  <2>2. c.id = m.pos /\ c.targets = Targets(k, m)
    BY <2>1 DEF Candidate
  <2> QED
    BY <2>1, <2>2
<1> SUFFICES ASSUME NEW c \in sidecar, NEW d \in sidecar
             PROVE  IsFiniteSet(c.targets) /\ (c.id = d.id => c = d)
  OBVIOUS
<1>3. PICK m \in links : /\ c = Candidate(k, m, links) /\ c.id = m.pos
                         /\ c.targets = Targets(k, m)
  BY <1>2
<1>4. PICK n \in links : d = Candidate(k, n, links) /\ d.id = n.pos
  BY <1>2
<1>5. m.pos = n.pos => m = n
  BY RecordsAssumption, Zenon
<1> QED
  BY <1>3, <1>4, <1>5, FiniteTargets, Zenon

LEMMA ProviderWhole ==
    ASSUME links \in Links, SidecarInv
    PROVE  Whole(ProviderRecords)
<1> DEFINE rs == ProviderRecords
<1> SUFFICES ASSUME NEW s \in rs, s.bundle # <<>>
             PROVE  \E T : BundleOver(rs, s, T)
  BY Zenon DEF Whole
<1>1. PICK c \in sidecar : \E t \in c.targets :
         /\ OfCandidate(c, t, s) /\ CandidateRecords(c) \subseteq rs
  BY ProviderMember, Zenon
<1>2. /\ s.bundle = <<"candidate", c.id>> /\ s.count = Cardinality(c.targets)
      /\ s.deferred = Deferred(c)
  BY <1>1, Zenon DEF OfCandidate
<1>3. ASSUME NEW x \in rs, x.bundle = s.bundle
      PROVE  /\ x \in CandidateRecords(c) /\ x.tail \in c.targets
             /\ x.count = s.count /\ x.deferred = s.deferred
  <2>0. PICK d \in sidecar : \E t \in d.targets :
          x = CandidateRecord(d, t) /\ OfCandidate(d, t, x)
    BY ProviderMember, Zenon
  <2>1. PICK t \in d.targets : x = CandidateRecord(d, t) /\ OfCandidate(d, t, x)
    BY <2>0
  <2>2. d.id = c.id
    <3>1. x.bundle = <<"candidate", d.id>>
      BY <2>1, Zenon DEF OfCandidate
    <3> QED
      BY <3>1, <1>2, <1>3
  <2>3. d = c
    BY <2>2, SidecarFacts, Zenon
  <2>4. x.tail = t /\ x.count = Cardinality(c.targets) /\ x.deferred = Deferred(c)
    BY <2>1, <2>3, Zenon DEF OfCandidate
  <2> QED
    BY <2>1, <2>3, <2>4, <1>2, Zenon DEF CandidateRecords
<1>4. ASSUME NEW x \in CandidateRecords(c) PROVE x \in rs /\ x.bundle = s.bundle
  <2>1. PICK t \in c.targets : x = CandidateRecord(c, t)
    BY Zenon DEF CandidateRecords
  <2>2. OfCandidate(c, t, x)
    BY <2>1, CandidateFacts, Zenon
  <2> QED
    BY <2>2, <1>1, <1>2, Zenon DEF OfCandidate
<1>5. IsFiniteSet(c.targets)
  BY SidecarFacts, Zenon
<1>6. ASSUME NEW t \in c.targets
      PROVE  \E x \in rs : x.bundle = s.bundle /\ x.tail = t
  <2>1. PICK x \in CandidateRecords(c) : x.tail = t
    BY BundleMembers, Zenon
  <2>2. x \in rs /\ x.bundle = s.bundle
    BY <1>4
  <2> QED
    BY <2>1, <2>2, Zenon
<1>7. \A x, y \in rs : x.bundle = s.bundle /\ y.bundle = s.bundle /\ x.tail = y.tail
         => x = y
  BY <1>3, BundleMembers, Zenon
<1> HIDE DEF rs
<1>8. BundleOver(rs, s, c.targets)
  BY <1>2, <1>3, <1>5, <1>6, <1>7, Zenon DEF BundleOver
<1> QED
  BY <1>8, Zenon

-----------------------------------------------------------------------------
(* What each stage does to the records.                                    *)

\* A model reading of a citation that some rule record of rs has.
Overruled(r, rs) ==
    /\ r.via = "LLM" /\ r.rel = "REFERS_TO"
    /\ \E d \in rs : d.via \in ByRule /\ d.head = r.head /\ d.cite = r.cite

LEMMA SupersedeFacts ==
    ASSUME NEW rs, \A r \in rs : Shape(r), Whole(rs)
    PROVE  /\ Whole(Supersede(rs))
           /\ \A s \in Supersede(rs) :
                /\ Shape(s)
                /\ \E r \in rs : /\ SameRecord(r, s) /\ s.consistent = r.consistent
                                 /\ Overruled(r, rs) => s.superseded = TRUE
<1> DEFINE f == [r \in rs |-> [r EXCEPT !.superseded = Overruled(r, rs)]]
<1>1. ASSUME NEW r \in rs
      PROVE  /\ SameRecord(r, f[r]) /\ Shape(f[r]) /\ f[r].consistent = r.consistent
             /\ Overruled(r, rs) => f[r].superseded = TRUE
  <2>1. PICK v : v = Overruled(r, rs)
    OBVIOUS
  <2>2. PICK s : s = f[r]
    OBVIOUS
  <2>3. s = [r EXCEPT !.superseded = v]
    BY <2>1, <2>2, Zenon
  <2>4. v \in BOOLEAN
    BY <2>1, Zenon DEF Overruled
  <2>5. IsRecord(r) /\ Verdicts(r) /\ Shape(r)
    BY Zenon DEF Shape
  <2> HIDE DEF f
  <2>6. /\ IsRecord(s) /\ SameRecord(r, s) /\ s.superseded = v
        /\ s.ontology = r.ontology /\ s.consistent = r.consistent
    BY <2>3, <2>5, ExceptSame
  <2>7. Verdicts(s)
    BY <2>4, <2>5, <2>6, Zenon DEF Verdicts
  <2>8. Shape(s)
    BY <2>5, <2>6, <2>7, Zenon DEF Shape, SameRecord
  <2> QED
    BY <2>1, <2>2, <2>6, <2>8, Zenon
<1>2. Supersede(rs) = {f[r] : r \in rs}
  BY Zenon DEF Supersede, Overruled
<1> HIDE DEF f
<1>3. Whole({f[r] : r \in rs})
  <2>1. \A r \in rs : SameRecord(r, f[r])
    BY <1>1, Zenon
  <2> QED
    BY <2>1, WholeImage, Zenon
<1>4. ASSUME NEW s \in {f[r] : r \in rs}
      PROVE  /\ Shape(s)
             /\ \E r \in rs : /\ SameRecord(r, s) /\ s.consistent = r.consistent
                              /\ Overruled(r, rs) => s.superseded = TRUE
  <2>1. PICK r \in rs : s = f[r]
    OBVIOUS
  <2> QED
    BY <1>1, <2>1, Zenon
<1> QED
  BY <1>2, <1>3, <1>4, Zenon

\* The gate accepts no record that is marked, inconsistent, in conflict or a
\* model's without evidence.
GateOK(r, s) ==
    s.decision = "accepted" =>
        /\ s.superseded = FALSE /\ s.consistent = TRUE /\ r.consistent = TRUE
        /\ r.head \notin conflicts /\ r.tail \notin conflicts
        /\ s.via = "LLM" => s.evidence > 0

LEMMA ConflictedFacts ==
    ASSUME NEW r, Shape(r)
    PROVE  /\ Shape(Conflicted(r)) /\ SameRecord(r, Conflicted(r))
           /\ Conflicted(r).superseded = r.superseded
           /\ Conflicted(r).consistent = TRUE =>
                 /\ r.consistent = TRUE
                 /\ r.head \notin conflicts /\ r.tail \notin conflicts
<1>0. IsRecord(r) /\ Verdicts(r)
  BY DEF Shape
<1>1. CASE r.ontology /\ {r.head, r.tail} \cap conflicts # {}
  <2>1. PICK s : s = Conflicted(r)
    OBVIOUS
  <2>2. s = [r EXCEPT !.consistent = FALSE, !.review = TRUE]
    BY <2>1, <1>1, Zenon DEF Conflicted
  <2>3. /\ IsRecord(s) /\ SameRecord(r, s) /\ s.superseded = r.superseded
        /\ s.ontology = r.ontology /\ s.consistent = FALSE
    BY <2>2, <1>0 DEF IsRecord, Fields, SameRecord
  <2>4. Verdicts(s)
    BY <1>0, <2>3, Zenon DEF Verdicts
  <2>5. Shape(s)
    BY <2>3, <2>4, Zenon DEF Shape, SameRecord
  <2> QED
    BY <2>1, <2>3, <2>5
<1>2. CASE ~(r.ontology /\ {r.head, r.tail} \cap conflicts # {})
  <2>1. Conflicted(r) = r
    BY <1>2, Zenon DEF Conflicted
  <2>2. r.consistent = TRUE => {r.head, r.tail} \cap conflicts = {}
    BY <1>0, <1>2, Zenon DEF Verdicts
  <2>3. {r.head, r.tail} \cap conflicts = {} => r.head \notin conflicts /\ r.tail \notin conflicts
    OBVIOUS
  <2>4. SameRecord(r, r)
    BY DEF SameRecord
  <2> QED
    BY <2>1, <2>2, <2>3, <2>4, Zenon
<1> QED
  BY <1>1, <1>2

LEMMA DecisionFacts ==
    ASSUME NEW r, Shape(r), Decision(r) = "accepted"
    PROVE  /\ r.superseded = FALSE /\ r.consistent = TRUE
           /\ r.via = "LLM" => r.evidence > 0
<1>1. /\ r.superseded \in BOOLEAN /\ r.consistent \in BOOLEAN /\ r.evidence \in Nat
  BY Zenon DEF Shape, Verdicts
<1>s. "rejected" # "accepted" /\ "review" # "accepted"
  OBVIOUS
<1>2. ~r.superseded /\ r.consistent /\ (r.via # "LLM" \/ Score(r.evidence) >= AutoAccept)
  BY <1>s, Zenon DEF Decision
<1>3. ASSUME NEW e \in Nat, Score(e) >= AutoAccept PROVE e > 0
  BY <1>3 DEF Score, AutoAccept, Unsupported
<1> QED
  BY <1>1, <1>2, <1>3, Zenon

LEMMA GatedFacts ==
    ASSUME NEW rs, \A r \in rs : Shape(r), Whole(rs)
    PROVE  /\ Whole(Gated(rs))
           /\ \A s \in Gated(rs) :
                /\ Shape(s)
                /\ \E r \in rs : /\ SameRecord(r, s) /\ s.superseded = r.superseded
                                 /\ GateOK(r, s)
<1> DEFINE g == [r \in rs |-> [Conflicted(r) EXCEPT !.decision = Decision(Conflicted(r))]]
<1>1. ASSUME NEW r \in rs
      PROVE  /\ SameRecord(r, g[r]) /\ Shape(g[r]) /\ g[r].superseded = r.superseded
             /\ GateOK(r, g[r])
  <2>1. PICK c : c = Conflicted(r)
    OBVIOUS
  <2>2. PICK d : d = Decision(c)
    OBVIOUS
  <2>3. PICK s : s = g[r]
    OBVIOUS
  <2>4. s = [c EXCEPT !.decision = d]
    BY <2>1, <2>2, <2>3, Zenon
  <2> HIDE DEF g
  <2>5. /\ Shape(c) /\ SameRecord(r, c) /\ c.superseded = r.superseded
        /\ c.consistent = TRUE => /\ r.consistent = TRUE
                                  /\ r.head \notin conflicts /\ r.tail \notin conflicts
    BY <2>1, ConflictedFacts, Zenon
  <2>6. IsRecord(c) /\ Verdicts(c)
    BY <2>5, Zenon DEF Shape
  <2>7. /\ IsRecord(s) /\ SameRecord(c, s) /\ s.decision = d
        /\ s.superseded = c.superseded /\ s.ontology = c.ontology
        /\ s.consistent = c.consistent
    BY <2>4, <2>6, ExceptSame
  <2>8. Verdicts(s)
    BY <2>6, <2>7, Zenon DEF Verdicts
  <2>9. Shape(s)
    BY <2>5, <2>7, <2>8, Zenon DEF Shape, SameRecord
  <2>10. SameRecord(r, s)
    BY <2>5, <2>7, Zenon DEF SameRecord
  <2>11. d = "accepted" => /\ c.superseded = FALSE /\ c.consistent = TRUE
                           /\ c.via = "LLM" => c.evidence > 0
    BY <2>2, <2>5, DecisionFacts, Zenon
  <2>12. s.via = c.via /\ s.evidence = c.evidence
    BY <2>7, Zenon DEF SameRecord
  <2>13. GateOK(r, s)
    BY <2>5, <2>7, <2>11, <2>12, Zenon DEF GateOK
  <2>14. s.superseded = r.superseded
    BY <2>5, <2>7, Zenon
  <2> QED
    BY <2>3, <2>9, <2>10, <2>13, <2>14, Zenon
<1>2. Gated(rs) = {g[r] : r \in rs}
  BY Zenon DEF Gated
<1> HIDE DEF g
<1>3. Whole({g[r] : r \in rs})
  <2>1. \A r \in rs : SameRecord(r, g[r])
    BY <1>1, Zenon
  <2> QED
    BY <2>1, WholeImage, Zenon
<1> QED
  BY <1>1, <1>2, <1>3, Zenon

LEMMA BundleDecisionFacts ==
    ASSUME NEW rs, NEW r \in rs
    PROVE  /\ BundleDecision(r, rs) = "accepted" => r.decision = "accepted"
           /\ \A x \in rs : r.bundle # <<>> /\ x.bundle = r.bundle =>
                 BundleDecision(x, rs) = BundleDecision(r, rs)
<1>1. "rejected" # "accepted" /\ "review" # "accepted"
  OBVIOUS
<1> DEFINE all == {x.decision : x \in {y \in rs : y.bundle = r.bundle}}
<1>2. r.decision \in all
  OBVIOUS
<1>3. BundleDecision(r, rs) = "accepted" =>
        (r.bundle = <<>> /\ r.decision = "accepted") \/ all = {"accepted"}
  BY <1>1, Zenon DEF BundleDecision
<1>4. all = {"accepted"} => r.decision = "accepted"
  BY <1>2
<1>5. \A x \in rs : r.bundle # <<>> /\ x.bundle = r.bundle =>
         BundleDecision(x, rs) = BundleDecision(r, rs)
  BY Zenon DEF BundleDecision
<1> QED
  BY <1>3, <1>4, <1>5, Zenon

LEMMA DecideFacts ==
    ASSUME NEW rs, \A r \in rs : Shape(r), Whole(rs)
    PROVE  /\ Whole(Bundled(Gated(rs))) /\ Settled(Bundled(Gated(rs)))
           /\ \A s \in Bundled(Gated(rs)) :
                /\ Shape(s)
                /\ \E r \in rs : /\ SameRecord(r, s) /\ s.superseded = r.superseded
                                 /\ GateOK(r, s)
<1> DEFINE gs == Gated(rs)
           h == [s \in gs |-> [s EXCEPT !.decision = BundleDecision(s, gs)]]
<1>1. /\ Whole(gs)
      /\ \A s \in gs : /\ Shape(s)
                       /\ \E r \in rs : /\ SameRecord(r, s) /\ s.superseded = r.superseded
                                        /\ GateOK(r, s)
  BY GatedFacts, Zenon
<1>2. Bundled(gs) = {h[s] : s \in gs}
  BY Zenon DEF Bundled
<1> HIDE DEF gs
<1>3. ASSUME NEW s \in gs
      PROVE  /\ SameRecord(s, h[s]) /\ Shape(h[s]) /\ h[s].superseded = s.superseded
             /\ h[s].decision = BundleDecision(s, gs) /\ h[s].consistent = s.consistent
             /\ h[s].bundle = s.bundle
  <2>1. PICK d : d = BundleDecision(s, gs)
    OBVIOUS
  <2>2. PICK u : u = h[s]
    OBVIOUS
  <2>3. u = [s EXCEPT !.decision = d]
    BY <2>1, <2>2, Zenon
  <2> HIDE DEF h
  <2>4. IsRecord(s) /\ Verdicts(s) /\ Shape(s)
    BY <1>1, Zenon DEF Shape
  <2>5. /\ IsRecord(u) /\ SameRecord(s, u) /\ u.decision = d
        /\ u.superseded = s.superseded /\ u.ontology = s.ontology
        /\ u.consistent = s.consistent
    BY <2>3, <2>4, ExceptSame
  <2>6. Verdicts(u)
    BY <2>4, <2>5, Zenon DEF Verdicts
  <2>7. Shape(u)
    BY <2>4, <2>5, <2>6, Zenon DEF Shape, SameRecord
  <2>8. u.bundle = s.bundle
    BY <2>5, Zenon DEF SameRecord
  <2> QED
    BY <2>1, <2>2, <2>5, <2>7, <2>8, Zenon
<1> HIDE DEF h
<1>4. Whole({h[s] : s \in gs})
  <2>1. Whole(gs)
    BY <1>1, Zenon
  <2>2. \A s \in gs : SameRecord(s, h[s])
    BY <1>3, Zenon
  <2> QED
    BY <2>1, <2>2, WholeImage, Zenon
<1>5. ASSUME NEW s \in gs
      PROVE  \E r \in rs : /\ SameRecord(r, h[s]) /\ h[s].superseded = r.superseded
                           /\ GateOK(r, h[s])
  <2>1. PICK r \in rs : SameRecord(r, s) /\ s.superseded = r.superseded /\ GateOK(r, s)
    BY <1>1, Zenon
  <2>2. SameRecord(r, h[s])
    BY <2>1, <1>3, Zenon DEF SameRecord
  <2>3. h[s].decision = "accepted" => s.decision = "accepted"
    BY <1>3, BundleDecisionFacts, Zenon
  <2>4. h[s].via = s.via /\ h[s].evidence = s.evidence
    BY <1>3, Zenon DEF SameRecord
  <2>5. GateOK(r, h[s])
    BY <2>1, <2>3, <2>4, <1>3, Zenon DEF GateOK
  <2> QED
    BY <2>1, <2>2, <2>5, <1>3, Zenon
<1>6. Settled({h[s] : s \in gs})
  <2> SUFFICES ASSUME NEW s \in gs
      PROVE  /\ h[s].bundle # <<>> => \A x \in gs : h[x].bundle = h[s].bundle
                    => h[x].decision = h[s].decision
             /\ h[s].decision = "accepted" /\ h[s].via = "LLM" =>
                    h[s].superseded # TRUE /\ h[s].evidence > 0
    BY Zenon DEF Settled
  <2>1. ASSUME h[s].bundle # <<>>, NEW x \in gs, h[x].bundle = h[s].bundle
        PROVE  h[x].decision = h[s].decision
    <3>1. s.bundle # <<>> /\ x.bundle = s.bundle
      BY <1>3, <2>1, Zenon
    <3>2. BundleDecision(x, gs) = BundleDecision(s, gs)
      BY <3>1, BundleDecisionFacts, Zenon
    <3> QED
      BY <3>2, <1>3, Zenon
  <2>2. h[s].decision = "accepted" /\ h[s].via = "LLM" =>
                    h[s].superseded = FALSE /\ h[s].evidence > 0
    BY <1>5, Zenon DEF GateOK
  <2> QED
    BY <2>1, <2>2, Zenon
<1> QED
  BY <1>2, <1>3, <1>4, <1>5, <1>6, Zenon DEF gs

LEMMA DiagramFacts ==
    ASSUME NEW i
    PROVE  /\ Shape(DiagramRecord(i)) /\ DiagramRecord(i).via = "DIAGRAM"
           /\ DiagramRecord(i).ord = 0
<1>1. PICK r : r = DiagramRaw(i)
  OBVIOUS
<1>2. PICK head, rel, tail : r = Raw("DIAGRAM", head, rel, tail)
  BY <1>1, Zenon DEF DiagramRaw
<1>3. /\ IsRecord(r) /\ r.via = "DIAGRAM" /\ r.bundle = <<>> /\ r.evidence = 0 /\ r.ord = 0
      /\ r.superseded = FALSE /\ r.ontology = FALSE /\ r.consistent = FALSE
  BY <1>2 DEF Raw, IsRecord, Fields
<1>4. Verdicts(r)
  BY <1>3 DEF Verdicts
<1>5. PICK dated : dated = (r.head = HostId)
  OBVIOUS
<1>6. PICK s : s = DiagramRecord(i)
  OBVIOUS
<1>7. \/ s = [r EXCEPT !.blocked = TRUE]
      \/ s = Judged(r, "Document", "Document", Manifest \cup {HostId}, dated)
  BY <1>1, <1>5, <1>6, Zenon DEF DiagramRecord
<1>8. IsRecord(s) /\ SameRecord(r, s) /\ Verdicts(s)
  <2>1. CASE s = [r EXCEPT !.blocked = TRUE]
    <3>1. /\ IsRecord(s) /\ SameRecord(r, s) /\ s.superseded = r.superseded
          /\ s.ontology = r.ontology /\ s.consistent = r.consistent
      BY <2>1, <1>3 DEF IsRecord, Fields, SameRecord
    <3> QED
      BY <3>1, <1>4, Zenon DEF Verdicts
  <2>2. CASE s = Judged(r, "Document", "Document", Manifest \cup {HostId}, dated)
    <3> DEFINE j == Judged(r, "Document", "Document", Manifest \cup {HostId}, dated)
    <3>1. IsRecord(j) /\ SameRecord(r, j) /\ Verdicts(j)
      BY <1>3, <1>4, JudgedSame, Zenon
    <3> HIDE DEF j
    <3> QED
      BY <3>1, <2>2, Zenon DEF j
  <2> QED
    BY <1>7, <2>1, <2>2
<1>9. Shape(s) /\ s.via = "DIAGRAM" /\ s.ord = 0
  BY <1>3, <1>8 DEF Shape, SameRecord, ByRule
<1> QED
  BY <1>6, <1>9, Zenon

\* Rule records are shaped, and their bundles are not those of candidates.
LEMMA RuleShape ==
    ASSUME NEW refs \in References, NEW s \in RuleRecords(refs)
    PROVE  /\ Shape(s) /\ s.via \in ByRule /\ s.bundle # <<>>
           /\ s.bundle[1] = "reference"
<1>1. PICK ref \in refs : \E t : OfReference(ref, t, s)
  BY RuleMember, Zenon
<1>2. /\ IsRecord(s) /\ Verdicts(s) /\ s.evidence = 0 /\ s.via = ref.method
      /\ s.bundle = <<"reference", ref.id>>
  BY <1>1, Zenon DEF OfReference
<1>3. ref.method \in ByRule
  BY RecordsAssumption, Zenon
<1> QED
  BY <1>2, <1>3 DEF Shape, ByRule

LEMMA ProviderShape ==
    ASSUME NEW s \in ProviderRecords
    PROVE  /\ Shape(s) /\ s.via # "LLM" /\ s.bundle # <<>>
           /\ s.bundle[1] = "candidate"
<1>1. PICK c \in sidecar : \E t : OfCandidate(c, t, s)
  BY ProviderMember, Zenon
<1>2. /\ IsRecord(s) /\ Verdicts(s) /\ s.evidence = 0
      /\ s.via \in {"ENTITY_LINKING", "PROVIDER_HTML"}
      /\ s.bundle = <<"candidate", c.id>>
  BY <1>1, Zenon DEF OfCandidate
<1> QED
  BY <1>2 DEF Shape, ByRule

LEMMA RulesFacts ==
    ASSUME links \in Links, SidecarInv, RecordInv, \A r \in records : r.via = "LLM",
           NEW refs \in References,
           NEW ns, ns = Supersede(records \cup RuleRecords(refs)) \cup ProviderRecords
    PROVE  Whole(ns) /\ Marked(ns) /\ \A r \in ns : Shape(r)
<1> DEFINE rs == records \cup RuleRecords(refs)
<1>1. \A r \in records : Shape(r) /\ r.bundle = <<>>
  BY DEF RecordInv, Shape
<1>2. \A r \in rs : Shape(r)
  BY <1>1, RuleShape, Zenon
<1>3. Whole(rs)
  <2>1. Whole(records) /\ Whole(RuleRecords(refs))
    BY RuleWhole, Zenon DEF RecordInv
  <2> QED
    BY <2>1, <1>1, WholeUnion, Zenon
<1>4. \A r \in rs : r.bundle # <<>> => r.bundle[1] = "reference"
  BY <1>1, RuleShape, Zenon
<1> HIDE DEF rs
<1>5. /\ Whole(Supersede(rs))
      /\ \A s \in Supersede(rs) :
           /\ Shape(s)
           /\ \E r \in rs : SameRecord(r, s) /\ (Overruled(r, rs) => s.superseded = TRUE)
  BY <1>2, <1>3, SupersedeFacts, Zenon
<1>6. \A s \in Supersede(rs) : s.bundle # <<>> => s.bundle[1] = "reference"
  <2> SUFFICES ASSUME NEW s \in Supersede(rs), s.bundle # <<>>
               PROVE  s.bundle[1] = "reference"
    OBVIOUS
  <2>1. PICK r \in rs : SameRecord(r, s)
    BY <1>5, Zenon
  <2>2. s.bundle = r.bundle
    BY <2>1, Zenon DEF SameRecord
  <2> QED
    BY <1>4, <2>2, Zenon
<1>7. Whole(ProviderRecords)
  BY ProviderWhole, Zenon
<1>8. \A s \in Supersede(rs), p \in ProviderRecords : s.bundle = p.bundle => s.bundle = <<>>
  <2>1. "reference" # "candidate"
    OBVIOUS
  <2> QED
    BY <2>1, <1>6, ProviderShape, Zenon
<1>9. ns = Supersede(rs) \cup ProviderRecords
  BY Zenon DEF rs
<1>10. Whole(ns)
  BY <1>5, <1>7, <1>8, <1>9, WholeUnion, Zenon
<1>11. \A r \in ns : Shape(r)
  BY <1>5, <1>9, ProviderShape, Zenon
<1>12. Marked(ns)
  <2> SUFFICES ASSUME NEW e \in ns, NEW f \in ns, e.via \in ByRule,
                      e.bundle[1] = "reference", f.via = "LLM", f.rel = "REFERS_TO",
                      e.head = f.head, e.cite = f.cite
               PROVE  f.superseded = TRUE
    BY Zenon DEF Marked
  <2>1. "reference" # "candidate"
    OBVIOUS
  <2>2. e \in Supersede(rs) /\ f \in Supersede(rs)
    BY <2>1, <1>9, ProviderShape, Zenon
  <2>3. PICK d \in rs : SameRecord(d, e)
    BY <2>2, <1>5, Zenon
  <2>4. PICK g \in rs : SameRecord(g, f) /\ (Overruled(g, rs) => f.superseded = TRUE)
    BY <2>2, <1>5, Zenon
  <2>5. d.via \in ByRule /\ d.head = g.head /\ d.cite = g.cite
    BY <2>3, <2>4 DEF SameRecord
  <2>6. g.via = "LLM" /\ g.rel = "REFERS_TO"
    BY <2>4 DEF SameRecord
  <2> QED
    BY <2>4, <2>5, <2>6, Zenon DEF Overruled
<1> QED
  BY <1>10, <1>11, <1>12

-----------------------------------------------------------------------------
(* Invariance.                                                             *)

\* What batch-parse leaves alone
LEMMA RunUnchanged ==
    ASSUME PhaseInv, RecordInv, MarkInv, DecideInv, PayloadInv, UNCHANGED run
    PROVE  PhaseInv' /\ RecordInv' /\ MarkInv' /\ DecideInv' /\ PayloadInv'
<1>1. UNCHANGED <<pc, records, payload>>
  BY DEF run
<1> QED
  BY <1>1 DEF PhaseInv, RecordInv, MarkInv, DecideInv, PayloadInv, Local

\* The pipeline leaves what parsing wrote.
LEMMA ParsingUnchanged ==
    ASSUME BatchInv, SidecarInv, UNCHANGED links, UNCHANGED parsing
    PROVE  BatchInv' /\ SidecarInv'
<1>1. UNCHANGED <<links, corpus, sidecar, batch>>
  BY DEF parsing
<1> QED
  BY <1>1 DEF BatchInv, SidecarInv, CandidatesAreSettled

LEMMA SidecarKept ==
    ASSUME SidecarInv, UNCHANGED <<links, sidecar>>
    PROVE  SidecarInv'
BY Zenon DEF SidecarInv

LEMMA SidecarBuilt ==
    ASSUME NEW k \in Corpora, sidecar' = Candidates(k, links), UNCHANGED links
    PROVE  SidecarInv'
BY Zenon DEF SidecarInv

LEMMA InitIInv == Init => IInv
<1> SUFFICES ASSUME Init PROVE IInv
  OBVIOUS
<1> USE DEF Init
<1>1. links \in Links /\ corpus \in Corpora
  BY DEF Corpora, Docs, Host, Target
<1>2. batch = NoBatch /\ NoBatch \in Batches
  BY DEF NoBatch, Batches, WorkStates
<1>3. batch.at # "ended"
  BY DEF NoBatch, Batches, WorkStates
<1>4. BatchInv
  BY <1>1, <1>2, <1>3, Zenon DEF BatchInv, CandidatesAreSettled
<1>5. SidecarInv
  BY <1>1, Zenon DEF SidecarInv
<1>6. PhaseInv
  BY DEF PhaseInv
<1>7. RecordInv
  BY Zenon DEF RecordInv, Whole
<1>8. MarkInv /\ DecideInv /\ PayloadInv
  BY DEF MarkInv, DecideInv, PayloadInv
<1> QED
  BY <1>4, <1>5, <1>6, <1>7, <1>8, Zenon DEF IInv

\* batch-parse and parse
LEMMA ParsingStep ==
    ASSUME BatchInv, SidecarInv,
           \/ Crawl \/ Refresh \/ Crash
           \/ \E d \in Docs : ParseOne(d) \/ WriteHierarchy(d) \/ WriteSidecar(d) \/ ParseFails(d)
           \/ \E retryFailed \in BOOLEAN : StartBatch(retryFailed)
    PROVE  BatchInv' /\ SidecarInv' /\ UNCHANGED run
<1> USE DEF BatchInv
<1>t. Host \in Docs /\ Target \in Docs
  BY DEF Docs
<1>n. NoBatch \in Batches /\ NoBatch.at = "off"
  BY DEF NoBatch, Batches, WorkStates
<1>w. ASSUME NEW d \in Docs, NEW v \in WorkStates, batch.at = "run", Work(d, v)
      PROVE  /\ batch' \in Batches
             /\ batch'.at = "run"
  BY <1>w DEF Work, Batches
<1>1. ASSUME Crawl PROVE BatchInv' /\ SidecarInv' /\ UNCHANGED run
  <2>1. corpus' \in Corpora
    BY <1>1, <1>t DEF Crawl, Corpora
  <2>2. batch' = NoBatch /\ UNCHANGED <<links, sidecar, run>>
    BY <1>1 DEF Crawl
  <2>3. CandidatesAreSettled'
    BY <2>2, <1>n DEF CandidatesAreSettled
  <2> QED
    BY <2>1, <2>2, <2>3, <1>n, SidecarKept
<1>2. ASSUME Refresh PROVE BatchInv' /\ SidecarInv' /\ UNCHANGED run
  <2>1. UNCHANGED <<links, corpus, run>>
    BY <1>2 DEF Refresh
  <2>2. batch' \in Batches
    BY <1>2, <1>n DEF Refresh, Batches
  <2>3. sidecar' = IF corpus[Host] = "parsed" THEN Candidates(corpus, links) ELSE sidecar
    BY <1>2 DEF Refresh
  <2>4. CandidatesAreSettled'
    BY <2>1, <2>3 DEF CandidatesAreSettled
  <2>5. SidecarInv'
    BY <2>1, <2>3, SidecarKept, SidecarBuilt, Zenon
  <2> QED
    BY <2>1, <2>2, <2>4, <2>5
<1>3. ASSUME Crash PROVE BatchInv' /\ SidecarInv' /\ UNCHANGED run
  <2>1. batch' = NoBatch /\ UNCHANGED <<links, corpus, sidecar, run>>
    BY <1>3 DEF Crash
  <2>2. CandidatesAreSettled'
    BY <2>1, <1>n DEF CandidatesAreSettled
  <2> QED
    BY <2>1, <2>2, <1>n, SidecarKept
<1>4. ASSUME NEW d \in Docs, ParseOne(d) PROVE BatchInv' /\ SidecarInv' /\ UNCHANGED run
  <2>1. corpus' \in Corpora
    BY <1>4 DEF ParseOne, Corpora
  <2>2. batch' = NoBatch /\ UNCHANGED <<links, run>>
    BY <1>4 DEF ParseOne
  <2>3. CandidatesAreSettled'
    BY <2>2, <1>n DEF CandidatesAreSettled
  <2>4. sidecar' = IF d = Host THEN Candidates(corpus', links) ELSE sidecar
    BY <1>4 DEF ParseOne
  <2>5. SidecarInv'
    BY <2>1, <2>2, <2>4, SidecarKept, SidecarBuilt, Zenon
  <2> QED
    BY <2>1, <2>2, <2>3, <2>5, <1>n
<1>5. ASSUME NEW d \in Docs, WriteHierarchy(d)
      PROVE  BatchInv' /\ SidecarInv' /\ UNCHANGED run
  <2>1. corpus' \in Corpora /\ UNCHANGED <<links, sidecar, run>>
    BY <1>5 DEF WriteHierarchy, Corpora
  <2>2. /\ batch' \in Batches
        /\ batch'.at = "run"
    BY <1>5, <1>w DEF WriteHierarchy, WorkStates
  <2>3. CandidatesAreSettled'
    BY <2>2 DEF CandidatesAreSettled
  <2> QED
    BY <2>1, <2>2, <2>3, SidecarKept
<1>6. ASSUME NEW d \in Docs, WriteSidecar(d)
      PROVE  BatchInv' /\ SidecarInv' /\ UNCHANGED run
  <2>1. UNCHANGED <<links, corpus, run>>
    BY <1>6 DEF WriteSidecar
  <2>2. /\ batch' \in Batches
        /\ batch'.at = "run"
    BY <1>6, <1>w DEF WriteSidecar, WorkStates
  <2>3. CandidatesAreSettled'
    BY <2>2 DEF CandidatesAreSettled
  <2>4. sidecar' = IF d = Host THEN Candidates(corpus, links) ELSE sidecar
    BY <1>6 DEF WriteSidecar
  <2>5. SidecarInv'
    BY <2>1, <2>4, SidecarKept, SidecarBuilt, Zenon
  <2> QED
    BY <2>1, <2>2, <2>3, <2>5
<1>7. ASSUME NEW d \in Docs, ParseFails(d)
      PROVE  BatchInv' /\ SidecarInv' /\ UNCHANGED run
  <2>1. UNCHANGED <<links, corpus, sidecar, run>>
    BY <1>7 DEF ParseFails
  <2>2. /\ batch' \in Batches
        /\ batch'.at = "run"
    BY <1>7, <1>w DEF ParseFails, WorkStates
  <2>3. CandidatesAreSettled'
    BY <2>2 DEF CandidatesAreSettled
  <2> QED
    BY <2>1, <2>2, <2>3, SidecarKept
<1>8. ASSUME NEW b \in BOOLEAN, StartBatch(b)
      PROVE  BatchInv' /\ SidecarInv' /\ UNCHANGED run
  <2>1. UNCHANGED <<links, corpus, sidecar, run>>
    BY <1>8 DEF StartBatch
  <2>2. /\ batch' \in Batches
        /\ batch'.at = "run"
    BY <1>8 DEF StartBatch, Batches, WorkStates
  <2>3. CandidatesAreSettled'
    BY <2>2 DEF CandidatesAreSettled
  <2> QED
    BY <2>1, <2>2, <2>3, SidecarKept
<1> QED
  BY <1>1, <1>2, <1>3, <1>4, <1>5, <1>6, <1>7, <1>8, Zenon

\* run_pipeline, stage by stage
LEMMA BeginStep == IInv /\ Begin => IInv'
<1> SUFFICES ASSUME IInv, Begin PROVE IInv'
  OBVIOUS
<1> USE DEF IInv
<1>1. /\ UNCHANGED <<links, corpus, sidecar, records, payload>> /\ batch' = NoBatch
      /\ pc = "off" /\ pc' \in {"stopped", "articles"}
  BY DEF Begin, Free
<1>2. batch' \in Batches /\ batch'.at = "off"
  BY <1>1 DEF NoBatch, Batches, WorkStates
<1>3. BatchInv'
  BY <1>1, <1>2 DEF BatchInv, CandidatesAreSettled
<1>4. SidecarInv'
  BY <1>1, SidecarKept, Zenon
<1>5. PhaseInv' /\ RecordInv'
  BY <1>1 DEF PhaseInv, RecordInv
<1>6. MarkInv' /\ DecideInv' /\ PayloadInv'
  BY <1>1 DEF MarkInv, DecideInv, PayloadInv
<1> QED
  BY <1>3, <1>4, <1>5, <1>6, Zenon

LEMMA AddArticleStep ==
    ASSUME IInv, NEW answer \in Answers, AddArticle(answer)
    PROVE  IInv'
<1> USE DEF IInv
<1> DEFINE ns == {ArticleRecord(answer.article, answer.types, x) : x \in answer.relations}
<1>1. /\ UNCHANGED <<links, parsing, pc, payload>> /\ pc = "articles"
      /\ records' = records \cup ns
  BY DEF AddArticle
<1>2. ASSUME NEW s \in ns PROVE Shape(s) /\ s.via = "LLM" /\ s.bundle = <<>>
  <2>1. PICK x \in answer.relations : s = ArticleRecord(answer.article, answer.types, x)
    BY Zenon
  <2>2. x.evidence \in Nat
    BY RecordsAssumption, Zenon
  <2>3. OfArticle(answer.types, x, s)
    BY <2>1, <2>2, ArticleFacts, Zenon
  <2> QED
    BY <2>3, Zenon DEF OfArticle
<1> HIDE DEF ns
<1>3. BatchInv' /\ SidecarInv'
  BY <1>1, ParsingUnchanged, Zenon
<1>4. PhaseInv'
  BY <1>1, <1>2 DEF PhaseInv
<1>5. Whole(ns)
  BY <1>2, Zenon DEF Whole
<1>6. Whole(records') /\ \A r \in records' : Shape(r)
  <2>1. Whole(records \cup ns)
    BY <1>2, <1>5, WholeUnion, Zenon DEF RecordInv
  <2> QED
    BY <2>1, <1>1, <1>2, Zenon DEF RecordInv
<1>7. RecordInv'
  BY <1>6 DEF RecordInv
<1>8. MarkInv' /\ DecideInv' /\ PayloadInv'
  BY <1>1 DEF MarkInv, DecideInv, PayloadInv
<1> QED
  BY <1>3, <1>4, <1>7, <1>8, Zenon

LEMMA AddRulesStep ==
    ASSUME IInv, NEW refs \in References, AddRules(refs)
    PROVE  IInv'
<1> USE DEF IInv
<1>1. /\ UNCHANGED <<links, parsing, payload>> /\ pc = "articles" /\ pc' = "diagram"
      /\ records' = Supersede(records \cup RuleRecords(refs)) \cup ProviderRecords
  BY DEF AddRules
<1>2. links \in Links /\ \A r \in records : r.via = "LLM"
  BY <1>1 DEF BatchInv, PhaseInv
<1>3. Whole(records') /\ Marked(records') /\ \A r \in records' : Shape(r)
  BY <1>1, <1>2, RulesFacts
<1>4. BatchInv' /\ SidecarInv'
  BY <1>1, ParsingUnchanged, Zenon
<1>5. PhaseInv'
  BY <1>1 DEF PhaseInv
<1>6. RecordInv' /\ MarkInv'
  BY <1>3 DEF RecordInv, MarkInv
<1>7. DecideInv' /\ PayloadInv'
  BY <1>1 DEF DecideInv, PayloadInv
<1> QED
  BY <1>4, <1>5, <1>6, <1>7, Zenon

LEMMA AddDiagramStep ==
    ASSUME IInv, NEW d \in Diagrams, AddDiagram(d)
    PROVE  IInv'
<1> USE DEF IInv
<1> DEFINE ns == {DiagramRecord(i) : i \in Drawn(d)}
<1>1. /\ UNCHANGED <<links, parsing, payload>> /\ pc = "diagram" /\ pc' = "decide"
      /\ records' = records \cup ns
  BY DEF AddDiagram
<1>2. \A s \in ns : Shape(s) /\ s.via = "DIAGRAM"
  BY DiagramFacts, Zenon
<1> HIDE DEF ns
<1>3. \A s \in ns : s.bundle = <<>>
  BY <1>2 DEF Shape
<1>4. BatchInv' /\ SidecarInv'
  BY <1>1, ParsingUnchanged, Zenon
<1>5. PhaseInv'
  BY <1>1 DEF PhaseInv
<1>6. Whole(records \cup ns)
  <2>1. Whole(ns)
    BY <1>3, Zenon DEF Whole
  <2> QED
    BY <2>1, <1>3, WholeUnion, Zenon DEF RecordInv
<1>7. Whole(records') /\ \A r \in records' : Shape(r)
  BY <1>1, <1>2, <1>6, Zenon DEF RecordInv
<1>8. Marked(records')
  <2>1. Marked(records)
    BY <1>1 DEF MarkInv
  <2>2. \A s \in ns : s.via # "LLM" /\ s.via \notin ByRule
    BY <1>2 DEF ByRule
  <2> QED
    BY <2>1, <2>2, <1>1, Zenon DEF Marked
<1>9. RecordInv' /\ MarkInv'
  BY <1>7, <1>8 DEF RecordInv, MarkInv
<1>10. DecideInv' /\ PayloadInv'
  BY <1>1 DEF DecideInv, PayloadInv
<1> QED
  BY <1>4, <1>5, <1>9, <1>10, Zenon

LEMMA DecideStep == IInv /\ Decide => IInv'
<1> SUFFICES ASSUME IInv, Decide PROVE IInv'
  OBVIOUS
<1> USE DEF IInv
<1>1. /\ UNCHANGED <<links, parsing, payload>> /\ pc = "decide" /\ pc' = "build"
      /\ records' = Bundled(Gated(records))
  BY DEF Decide
<1>2. Whole(records) /\ \A r \in records : Shape(r)
  BY DEF RecordInv
<1>3. /\ Whole(records') /\ Settled(records')
      /\ \A s \in records' :
           /\ Shape(s)
           /\ \E r \in records : SameRecord(r, s) /\ s.superseded = r.superseded
  BY <1>1, <1>2, DecideFacts, Zenon
<1>4. BatchInv' /\ SidecarInv'
  BY <1>1, ParsingUnchanged, Zenon
<1>5. PhaseInv'
  BY <1>1 DEF PhaseInv
<1>6. Marked(records')
  <2> SUFFICES ASSUME NEW e \in records', NEW f \in records', e.via \in ByRule,
                      e.bundle[1] = "reference", f.via = "LLM", f.rel = "REFERS_TO",
                      e.head = f.head, e.cite = f.cite
               PROVE  f.superseded = TRUE
    BY Zenon DEF Marked
  <2>1. PICK d \in records : SameRecord(d, e)
    BY <1>3, Zenon
  <2>2. PICK g \in records : SameRecord(g, f) /\ f.superseded = g.superseded
    BY <1>3, Zenon
  <2>3. Marked(records)
    BY <1>1 DEF MarkInv
  <2>4. /\ d.via \in ByRule /\ d.bundle[1] = "reference" /\ g.via = "LLM"
        /\ g.rel = "REFERS_TO" /\ d.head = g.head /\ d.cite = g.cite
    BY <2>1, <2>2 DEF SameRecord
  <2> QED
    BY <2>2, <2>3, <2>4, Zenon DEF Marked
<1>7. RecordInv' /\ MarkInv' /\ DecideInv'
  BY <1>3, <1>6, Zenon DEF RecordInv, MarkInv, DecideInv
<1>8. PayloadInv'
  BY <1>1 DEF PayloadInv
<1> QED
  BY <1>4, <1>5, <1>7, <1>8, Zenon

LEMMA BuildPayloadStep == IInv /\ BuildPayload => IInv'
<1> SUFFICES ASSUME IInv, BuildPayload PROVE IInv'
  OBVIOUS
<1> USE DEF IInv
<1>1. /\ UNCHANGED <<links, parsing, records>> /\ pc = "build" /\ pc' = "done"
  BY DEF BuildPayload
<1>2. BatchInv' /\ SidecarInv'
  BY <1>1, ParsingUnchanged, Zenon
<1>3. PhaseInv' /\ RecordInv' /\ MarkInv' /\ DecideInv'
  BY <1>1 DEF PhaseInv, RecordInv, MarkInv, DecideInv
<1>4. /\ payload'.edges \subseteq Local(records)
      /\ \A r \in payload'.edges : BundleComplete(r, payload'.edges)
  <2>1. CASE Takes(index, Local(records))
    <3>1. payload' = [mode |-> "full", edges |-> Edges(Local(records))]
      BY <2>1, Zenon DEF BuildPayload
    <3>2. payload'.edges = Edges(Local(records))
      BY <3>1
    <3> QED
      BY <2>1, <3>2, Zenon DEF Takes, Edges
  <2>2. CASE ~Takes(index, Local(records))
    <3>1. payload' = StructureOnly
      BY <2>2, Zenon DEF BuildPayload
    <3>2. payload'.edges = {}
      BY <3>1 DEF StructureOnly
    <3> QED
      BY <3>2
  <2> QED
    BY <2>1, <2>2
<1>5. PayloadInv'
  BY <1>1, <1>4 DEF PayloadInv, Local
<1> QED
  BY <1>2, <1>3, <1>5, Zenon

\* The invariant is inductive.
THEOREM Invariance == Spec => []IInv
<1>1. ASSUME IInv, [Next]_vars PROVE IInv'
  <2>1. CASE UNCHANGED vars
    BY <1>1, <2>1, ParsingUnchanged, RunUnchanged DEF vars, IInv, parsing, run
  <2>2. ASSUME \/ Crawl \/ Refresh \/ Crash
               \/ \E d \in Docs : ParseOne(d) \/ WriteHierarchy(d) \/ WriteSidecar(d) \/ ParseFails(d)
               \/ \E retryFailed \in BOOLEAN : StartBatch(retryFailed)
        PROVE  IInv'
    <3>1. BatchInv' /\ SidecarInv' /\ UNCHANGED run
      BY <1>1, <2>2, ParsingStep, Zenon DEF IInv
    <3> QED
      BY <1>1, <3>1, RunUnchanged, Zenon DEF IInv
  <2> QED
    BY <1>1, <2>1, <2>2, BeginStep, AddArticleStep, AddRulesStep, AddDiagramStep,
       DecideStep, BuildPayloadStep, Zenon DEF Next
<1> QED
  BY <1>1, InitIInv, PTL DEF Spec

-----------------------------------------------------------------------------
(* Results.                                                                *)

\* CandidatesAreSettled: after a batch-parse the host's candidates are what the
\* whole corpus resolves (_rebuild_provider_candidates_after_batch_parse), for
\* every corpus, order of workers, failure and crash before it.
THEOREM CandidatesCorrect == Spec => []CandidatesAreSettled
<1>1. IInv => CandidatesAreSettled
  BY DEF IInv, BatchInv
<1> QED
  BY <1>1, Invariance, PTL

\* BundleIsWhole: a citation of several targets is written whole or not at all
\* (_apply_atomic_bundle_decisions, build_graph_payload), whatever the answers,
\* references and links are.
THEOREM BundleCorrect == Spec => []BundleIsWhole
<1>1. ASSUME IInv PROVE BundleIsWhole
  <2> DEFINE written(r) == IF r.deferred THEN {x \in records : x.decision = "accepted"}
                           ELSE payload.edges
  <2> SUFFICES ASSUME pc = "done", NEW r \in records, r.bundle # <<>>
               PROVE  Cardinality({x \in written(r) : x.bundle = r.bundle}) \in {0, r.count}
    BY Zenon DEF BundleIsWhole
  <2>1. Whole(records) /\ Settled(records)
    BY <1>1 DEF IInv, RecordInv, DecideInv
  <2>2. Cardinality({}) = 0
    BY FS_EmptySet, Zenon
  <2>3. CASE r.deferred
    <3> DEFINE acc == {x \in {y \in records : y.decision = "accepted"} : x.bundle = r.bundle}
    <3>0. {x \in written(r) : x.bundle = r.bundle} = acc
      BY <2>3, Zenon
    <3>1. CASE r.decision = "accepted"
      <4>1. \A x \in records : x.bundle = r.bundle => x.decision = "accepted"
        BY <2>1, <3>1, Zenon DEF Settled
      <4>2. acc = {x \in records : x.bundle = r.bundle}
        BY <4>1
      <4>3. Cardinality(acc) = r.count
        BY <2>1, <4>2, BundleCount, Zenon
      <4> QED
        BY <3>0, <4>3, Zenon
    <3>2. CASE r.decision # "accepted"
      <4>1. \A x \in records : x.bundle = r.bundle => x.decision # "accepted"
        BY <2>1, <3>2, Zenon DEF Settled
      <4>2. acc = {}
        BY <4>1
      <4> QED
        BY <3>0, <4>2, <2>2, Zenon
    <3> QED
      BY <3>1, <3>2
  <2>4. CASE ~r.deferred
    <3> DEFINE here == {x \in payload.edges : x.bundle = r.bundle}
    <3>0. {x \in written(r) : x.bundle = r.bundle} = here
      BY <2>4, Zenon
    <3>1. CASE here = {}
      BY <3>0, <3>1, <2>2, Zenon
    <3>2. CASE here # {}
      <4>1. PICK e \in payload.edges : e.bundle = r.bundle
        BY <3>2
      <4>2. e \in records /\ BundleComplete(e, payload.edges)
        BY <1>1 DEF IInv, PayloadInv, Local
      <4>3. Cardinality({x \in payload.edges : x.bundle = e.bundle}) = e.count
        BY <4>1, <4>2, Zenon DEF BundleComplete
      <4>4. e.count = r.count
        BY <2>1, <4>1, <4>2, Zenon DEF Whole, BundleOver
      <4> QED
        BY <3>0, <4>1, <4>3, <4>4, Zenon
    <3> QED
      BY <3>1, <3>2
  <2> QED
    BY <2>3, <2>4
<1> QED
  BY <1>1, Invariance, PTL

\* LlmEdgesAreEarned: an edge from the model repeats no citation that a rule
\* resolved (_mark_llm_relations_superseded_by_rules) and has evidence in the text
\* (compute_confidence, _apply_decision_gate).  The citation of a provider candidate
\* is not covered: run_pipeline adds those records after the mark, and an edge of the
\* model may stand beside the candidate's.
THEOREM EarnedCorrect == Spec => []LlmEdgesAreEarned
<1>1. ASSUME IInv PROVE LlmEdgesAreEarned
  <2>1. CASE pc = "done"
    <3>1. \A e \in payload.edges : e \in records /\ e.decision = "accepted"
      BY <1>1, <2>1 DEF IInv, PayloadInv, Local
    <3>2. Marked(records) /\ Settled(records)
      BY <1>1, <2>1 DEF IInv, MarkInv, DecideInv
    <3>3. \A e \in payload.edges : e.via = "LLM" => e.superseded # TRUE /\ e.evidence > 0
      BY <3>1, <3>2, Zenon DEF Settled
    <3>4. ASSUME NEW e \in payload.edges, NEW f \in payload.edges,
                 e.via \in ByRule, f.via = "LLM", f.rel = "REFERS_TO",
                 e.head = f.head, e.cite = f.cite
          PROVE  e.bundle[1] = "candidate"
      <4>1. e.bundle[1] # "reference"
        BY <3>1, <3>2, <3>3, <3>4, Zenon DEF Marked
      <4>2. e.bundle[1] \in {"reference", "candidate"}
        BY <1>1, <3>1, <3>4, Zenon DEF IInv, RecordInv, Shape
      <4> QED
        BY <4>1, <4>2
    <3> QED
      BY <3>3, <3>4, Zenon DEF LlmEdgesAreEarned, CitedOnce, EvidenceBacked
  <2>2. CASE pc # "done"
    <3>1. payload.edges = {}
      BY <1>1, <2>2 DEF IInv, PhaseInv, NoPayload
    <3> QED
      BY <3>1, Zenon DEF LlmEdgesAreEarned, CitedOnce, EvidenceBacked
  <2> QED
    BY <2>1, <2>2
<1> QED
  BY <1>1, Invariance, PTL

-----------------------------------------------------------------------------
(* What the payload builder needs of the accepted records, for texts that are *)
(* unambiguous: endpoints of allowed types, and bundles that replace each      *)
(* other as a whole.                                                           *)

\* An endpoint of type t, in the index unless it is a unit of the host ...
At(ix, u, t) ==
    \/ u \in DOMAIN HostTypes /\ HostTypes[u] = t
    \/ u \notin DOMAIN HostTypes /\ u \in DOMAIN ix /\ ix[u] = t

\* ... or an entity that has got a second type.
Placed(ix, cf, u, t) ==
    \/ At(ix, u, t)
    \/ u \notin DOMAIN HostTypes /\ u \in DOMAIN ix /\ u \in cf

Drawable(r) == r.via # "DIAGRAM" /\ ~r.deferred

Placeable(ix, cf, r) ==
    r.consistent = TRUE /\ Drawable(r) =>
        \E ht, tt : /\ AllowedPair(r.rel, ht, tt)
                    /\ Placed(ix, cf, r.head, ht) /\ Placed(ix, cf, r.tail, tt)

Buildable(ix, r) ==
    r.decision = "accepted" /\ Drawable(r) =>
        \E ht, tt : /\ AllowedPair(r.rel, ht, tt)
                    /\ At(ix, r.head, ht) /\ At(ix, r.tail, tt)

PlaceInv ==
    /\ pc \notin {"build", "done"} => \A r \in records : Placeable(index, conflicts, r)
    /\ pc \in {"build", "done"} => \A r \in records : Buildable(index, r)

\* Records of one bundle have one place, which is before no record without one.
Ranked(rs) ==
    /\ \A r \in rs : r.ord \in Nat /\ (r.bundle = <<>> => r.ord = 0)
    /\ \A r, s \in rs : r.bundle # <<>> /\ r.bundle = s.bundle => r.ord = s.ord

Replaces(r, s) ==
    /\ r.bundle # <<>> /\ s.bundle # <<>> /\ ~r.deferred /\ ~s.deferred
    /\ Identity(r) = Identity(s)

\* The bundle of y has a record for r.
Counterpart(rs, y, r) == \E s \in rs : s.bundle = y.bundle /\ Identity(s) = Identity(r)

\* A bundle of which one record may replace another has a record for each.
Twin(rs) ==
    \A x, y, r \in rs :
        Replaces(x, y) /\ r.bundle = x.bundle => Counterpart(rs, y, r)

TwinInv == Ranked(records) /\ Twin(records)

\* Only a payload that the validators refuse gives way.
RefusalInv ==
    payload.mode = "structural" => pc = "done" /\ ~Takes(index, Local(records))

BInv == PlaceInv /\ TwinInv /\ RefusalInv

LEMMA IdentitySame ==
    ASSUME NEW r, NEW s, SameRecord(r, s)
    PROVE  /\ Identity(s) = Identity(r)
           /\ Drawable(s) <=> Drawable(r)
BY Zenon DEF SameRecord, Identity, Drawable

LEMMA IdentityParts ==
    ASSUME NEW r, NEW s, r.rel = "REFERS_TO"
    PROVE  Identity(r) = Identity(s) <=>
              /\ s.head = r.head /\ s.rel = r.rel /\ s.tail = r.tail /\ s.cite = r.cite
              /\ r.range <=> s.range
<1>1. Identity(r) = Identity(s) =>
              /\ s.head = r.head /\ s.rel = r.rel /\ s.tail = r.tail /\ s.cite = r.cite
              /\ (r.range <=> s.range)
  BY DEF Identity
<1>2. s.head = r.head /\ s.rel = r.rel /\ s.tail = r.tail /\ s.cite = r.cite
              /\ (r.range <=> s.range) => Identity(r) = Identity(s)
  BY DEF Identity
<1> QED
  BY <1>1, <1>2, Zenon

LEMMA TwinImage ==
    ASSUME NEW rs, NEW ss, Ranked(rs), Twin(rs),
           \A s \in ss : \E r \in rs : SameRecord(r, s),
           \A r \in rs : \E s \in ss : SameRecord(r, s)
    PROVE  Ranked(ss) /\ Twin(ss)
<1>1. ASSUME NEW s \in ss PROVE s.ord \in Nat /\ (s.bundle = <<>> => s.ord = 0)
  <2>1. PICK r \in rs : SameRecord(r, s)
    OBVIOUS
  <2>2. r.ord \in Nat /\ (r.bundle = <<>> => r.ord = 0)
    BY Zenon DEF Ranked
  <2> QED
    BY <2>1, <2>2, Zenon DEF SameRecord
<1>2. ASSUME NEW s \in ss, NEW t \in ss, s.bundle # <<>>, s.bundle = t.bundle
      PROVE  s.ord = t.ord
  <2>1. PICK r \in rs : SameRecord(r, s)
    OBVIOUS
  <2>2. PICK q \in rs : SameRecord(q, t)
    OBVIOUS
  <2>3. r.bundle # <<>> /\ r.bundle = q.bundle
    BY <1>2, <2>1, <2>2, Zenon DEF SameRecord
  <2>4. r.ord = q.ord
    BY <2>3, Zenon DEF Ranked
  <2> QED
    BY <2>1, <2>2, <2>4, Zenon DEF SameRecord
<1>3. ASSUME NEW x \in ss, NEW y \in ss, NEW r \in ss, Replaces(x, y), r.bundle = x.bundle
      PROVE  Counterpart(ss, y, r)
  <2>1. PICK a \in rs : SameRecord(a, x)
    OBVIOUS
  <2>2. PICK b \in rs : SameRecord(b, y)
    OBVIOUS
  <2>3. PICK c \in rs : SameRecord(c, r)
    OBVIOUS
  <2>4. Identity(x) = Identity(a) /\ Identity(y) = Identity(b) /\ Identity(r) = Identity(c)
    BY <2>1, <2>2, <2>3, IdentitySame, Zenon
  <2>5. Replaces(a, b)
    BY <1>3, <2>1, <2>2, <2>4, Zenon DEF Replaces, SameRecord
  <2>6. c.bundle = a.bundle
    BY <1>3, <2>1, <2>3, Zenon DEF SameRecord
  <2>7. PICK d \in rs : d.bundle = b.bundle /\ Identity(d) = Identity(c)
    <3>1. Counterpart(rs, b, c)
      BY <2>5, <2>6, Zenon DEF Twin
    <3> QED
      BY <3>1, Zenon DEF Counterpart
  <2>8. PICK s \in ss : SameRecord(d, s)
    OBVIOUS
  <2>9. Identity(s) = Identity(d) /\ s.bundle = d.bundle /\ b.bundle = y.bundle
    BY <2>8, <2>2, IdentitySame, Zenon DEF SameRecord
  <2> QED
    BY <2>4, <2>7, <2>9, Zenon DEF Counterpart
<1>4. Ranked(ss)
  BY <1>1, <1>2, Zenon DEF Ranked
<1>5. Twin(ss)
  BY <1>3, Zenon DEF Twin
<1> QED
  BY <1>4, <1>5

LEMMA TwinUnion ==
    ASSUME NEW rs, NEW ss, Ranked(rs), Twin(rs), Ranked(ss), Twin(ss),
           \A r \in rs, s \in ss :
              /\ r.bundle = s.bundle => r.bundle = <<>>
              /\ ~Replaces(r, s) /\ ~Replaces(s, r)
    PROVE  Ranked(rs \cup ss) /\ Twin(rs \cup ss)
<1>1. Ranked(rs \cup ss)
  BY Zenon DEF Ranked
<1>2. ASSUME NEW x \in rs \cup ss, NEW y \in rs \cup ss, NEW r \in rs \cup ss,
             Replaces(x, y), r.bundle = x.bundle
      PROVE  Counterpart(rs \cup ss, y, r)
  <2>1. x.bundle # <<>>
    BY <1>2, Zenon DEF Replaces
  <2>2. CASE x \in rs
    <3>1. y \in rs /\ r \in rs
      BY <1>2, <2>1, <2>2, Zenon
    <3>2. Counterpart(rs, y, r)
      BY <1>2, <2>2, <3>1, Zenon DEF Twin
    <3> QED
      BY <3>2, Zenon DEF Counterpart
  <2>3. CASE x \in ss
    <3>1. y \in ss /\ r \in ss
      BY <1>2, <2>1, <2>3, Zenon
    <3>2. Counterpart(ss, y, r)
      BY <1>2, <2>3, <3>1, Zenon DEF Twin
    <3> QED
      BY <3>2, Zenon DEF Counterpart
  <2> QED
    BY <2>2, <2>3
<1> QED
  BY <1>1, <1>2, Zenon DEF Twin

\* The same words of one unit name the same targets, so one reference replaces
\* another as a whole.
LEMMA RuleTwin ==
    ASSUME Unambiguous, NEW refs \in References
    PROVE  Ranked(RuleRecords(refs)) /\ Twin(RuleRecords(refs))
<1> DEFINE rs == RuleRecords(refs)
<1> DEFINE Says(ref, s) ==
             /\ s.bundle = <<"reference", ref.id>> /\ s.ord = ref.id
             /\ s.rel = "REFERS_TO" /\ s.head = ref.source /\ s.cite = ref.cite
             /\ s.range = (Cardinality(ref.targets) > 1) /\ s.tail \in ref.targets
<1>1. ASSUME NEW ref, NEW t \in ref.targets, NEW s, OfReference(ref, t, s)
      PROVE  Says(ref, s) /\ s.tail = t
  BY <1>1, Zenon DEF OfReference
<1>2. ASSUME NEW s \in rs
      PROVE  \E ref \in refs : Says(ref, s) /\ ReferenceRecords(ref) \subseteq rs
  <2>1. PICK ref \in refs : \E t \in ref.targets :
                /\ OfReference(ref, t, s) /\ ReferenceRecords(ref) \subseteq rs
    BY RuleMember, Zenon
  <2> HIDE DEF Says, rs
  <2> QED
    BY <2>1, <1>1, Zenon
<1>3. ASSUME NEW p \in refs, NEW q \in refs, <<"reference", p.id>> = <<"reference", q.id>>
      PROVE  p = q
  <2>1. p.id = q.id
    BY <1>3
  <2> QED
    BY <2>1, RecordsAssumption, Zenon
<1> HIDE DEF rs
<1>4. Ranked(rs)
  <2>1. ASSUME NEW s \in rs PROVE s.ord \in Nat /\ (s.bundle = <<>> => s.ord = 0)
    <3>1. PICK ref \in refs : Says(ref, s)
      BY <1>2, Zenon
    <3>2. s.ord = ref.id /\ s.bundle = <<"reference", ref.id>>
      BY <3>1, Zenon
    <3>3. ref.id \in Nat
      BY RecordsAssumption, Zenon
    <3> QED
      BY <3>2, <3>3
  <2>2. ASSUME NEW r \in rs, NEW s \in rs, r.bundle = s.bundle PROVE r.ord = s.ord
    <3>1. PICK p \in refs : Says(p, r)
      BY <1>2, Zenon
    <3>2. PICK q \in refs : Says(q, s)
      BY <1>2, Zenon
    <3>3. /\ r.ord = p.id /\ r.bundle = <<"reference", p.id>>
          /\ s.ord = q.id /\ s.bundle = <<"reference", q.id>>
      BY <3>1, <3>2, Zenon
    <3> QED
      BY <1>3, <2>2, <3>3, Zenon
  <2> QED
    BY <2>1, <2>2, Zenon DEF Ranked
<1>5. ASSUME NEW x \in rs, NEW y \in rs, NEW r \in rs, Replaces(x, y), r.bundle = x.bundle
      PROVE  Counterpart(rs, y, r)
  <2>1. PICK p \in refs : Says(p, x)
    BY <1>2, Zenon
  <2>2. PICK q \in refs : Says(q, y) /\ ReferenceRecords(q) \subseteq rs
    BY <1>2, Zenon
  <2>3. PICK o \in refs : Says(o, r)
    BY <1>2, Zenon
  <2>4. o = p
    BY <1>3, <1>5, <2>1, <2>3, Zenon
  <2>5. y.head = x.head /\ y.tail = x.tail /\ y.cite = x.cite /\ (x.range <=> y.range)
    BY <1>5, <2>1, IdentityParts, Zenon DEF Replaces
  <2>6. SameWords(p.targets, q.targets)
    <3>1. p.source = q.source /\ p.cite = q.cite
      BY <2>1, <2>2, <2>5, Zenon
    <3> QED
      BY <3>1, Zenon DEF Unambiguous
  <2>7. p.targets = q.targets
    <3>0. x.tail \in p.targets /\ x.tail \in q.targets
      BY <2>1, <2>2, <2>5, Zenon
    <3>1. p.targets \cap q.targets # {}
      BY <3>0
    <3>2. (Cardinality(p.targets) > 1) <=> (Cardinality(q.targets) > 1)
      BY <2>1, <2>2, <2>5, Zenon
    <3> QED
      BY <2>6, <3>1, <3>2, Zenon DEF SameWords
  <2>8. PICK s : s = ReferenceRecord(q, r.tail)
    OBVIOUS
  <2>9. r.tail \in q.targets
    BY <2>3, <2>4, <2>7, Zenon
  <2>10. s \in rs /\ Says(q, s) /\ s.tail = r.tail
    <3>1. OfReference(q, r.tail, s)
      BY <2>8, ReferenceFacts, Zenon
    <3>2. s \in rs
      BY <2>2, <2>8, <2>9, Zenon DEF ReferenceRecords
    <3> HIDE DEF Says
    <3> QED
      BY <1>1, <2>9, <3>1, <3>2, Zenon
  <2>11. Identity(s) = Identity(r)
    <3>1. r.head = s.head /\ r.rel = s.rel /\ r.tail = s.tail /\ r.cite = s.cite
      BY <2>1, <2>2, <2>3, <2>4, <2>5, <2>10, Zenon
    <3>2. r.range = s.range
      BY <2>3, <2>4, <2>7, <2>10, Zenon
    <3>3. s.range <=> r.range
      BY <3>2, Zenon
    <3> QED
      BY <2>10, <3>1, <3>3, IdentityParts, Zenon
  <2> QED
    BY <2>2, <2>10, <2>11, Zenon DEF Counterpart
<1>6. Twin(rs)
  BY <1>5, Zenon DEF Twin
<1> QED
  BY <1>4, <1>6, Zenon DEF rs

LEMMA SidecarIds ==
    ASSUME links \in Links, SidecarInv, NEW c \in sidecar
    PROVE  c.id \in Nat
<1>1. PICK k \in Corpora : sidecar \subseteq Candidates(k, links)
  BY DEF SidecarInv
<1>2. PICK m \in links : c = Candidate(k, m, links)
  BY <1>1, Zenon DEF Candidates
<1>3. c.id = m.pos
  BY <1>2 DEF Candidate
<1> QED
  BY <1>3, RecordsAssumption, Zenon

\* The same for candidates; only references stay in the document.
LEMMA ProviderTwin ==
    ASSUME Unambiguous, links \in Links, SidecarInv
    PROVE  Ranked(ProviderRecords) /\ Twin(ProviderRecords)
<1> DEFINE rs == ProviderRecords
<1> DEFINE Says(c, s) ==
             /\ s.bundle = <<"candidate", c.id>> /\ s.ord = 100 + c.id
             /\ s.rel = c.rel /\ s.head = c.src /\ s.cite = c.cite
             /\ s.range = (Cardinality(c.targets) > 1) /\ s.tail \in c.targets
             /\ s.deferred = Deferred(c)
<1>1. ASSUME NEW c, NEW t \in c.targets, NEW s, OfCandidate(c, t, s)
      PROVE  Says(c, s) /\ s.tail = t
  BY <1>1, Zenon DEF OfCandidate
<1>2. ASSUME NEW s \in rs
      PROVE  \E c \in sidecar : Says(c, s) /\ CandidateRecords(c) \subseteq rs
  <2>1. PICK c \in sidecar : \E t \in c.targets :
                /\ OfCandidate(c, t, s) /\ CandidateRecords(c) \subseteq rs
    BY ProviderMember, Zenon
  <2> HIDE DEF Says, rs
  <2> QED
    BY <2>1, <1>1, Zenon
<1>3. ASSUME NEW p \in sidecar, NEW q \in sidecar,
             <<"candidate", p.id>> = <<"candidate", q.id>>
      PROVE  p = q
  <2>1. p.id = q.id
    BY <1>3
  <2> QED
    BY <2>1, SidecarFacts, Zenon
<1> HIDE DEF rs
<1>4. Ranked(rs)
  <2>1. ASSUME NEW s \in rs PROVE s.ord \in Nat /\ (s.bundle = <<>> => s.ord = 0)
    <3>1. PICK c \in sidecar : Says(c, s)
      BY <1>2, Zenon
    <3>2. s.ord = 100 + c.id /\ s.bundle = <<"candidate", c.id>>
      BY <3>1, Zenon
    <3>3. c.id \in Nat
      BY SidecarIds
    <3> QED
      BY <3>2, <3>3
  <2>2. ASSUME NEW r \in rs, NEW s \in rs, r.bundle = s.bundle PROVE r.ord = s.ord
    <3>1. PICK p \in sidecar : Says(p, r)
      BY <1>2, Zenon
    <3>2. PICK q \in sidecar : Says(q, s)
      BY <1>2, Zenon
    <3>3. /\ r.ord = 100 + p.id /\ r.bundle = <<"candidate", p.id>>
          /\ s.ord = 100 + q.id /\ s.bundle = <<"candidate", q.id>>
      BY <3>1, <3>2, Zenon
    <3> QED
      BY <1>3, <2>2, <3>3, Zenon
  <2> QED
    BY <2>1, <2>2, Zenon DEF Ranked
<1>5. ASSUME NEW x \in rs, NEW y \in rs, NEW r \in rs, Replaces(x, y), r.bundle = x.bundle
      PROVE  Counterpart(rs, y, r)
  <2>1. PICK p \in sidecar : Says(p, x)
    BY <1>2, Zenon
  <2>2. PICK q \in sidecar : Says(q, y) /\ CandidateRecords(q) \subseteq rs
    BY <1>2, Zenon
  <2>3. PICK o \in sidecar : Says(o, r)
    BY <1>2, Zenon
  <2>4. o = p
    <3>1. x.bundle = <<"candidate", p.id>> /\ r.bundle = <<"candidate", o.id>>
      BY <2>1, <2>3, Zenon
    <3>2. <<"candidate", o.id>> = <<"candidate", p.id>>
      BY <1>5, <3>1, Zenon
    <3> HIDE DEF Says
    <3> QED
      BY <1>3, <3>2, Zenon
  <2>r. x.rel = "REFERS_TO" /\ y.rel = "REFERS_TO"
    <3>1. ~Deferred(p) /\ ~Deferred(q)
      BY <1>5, <2>1, <2>2, Zenon DEF Replaces
    <3> QED
      BY <2>1, <2>2, <3>1, Zenon DEF Deferred
  <2>5. y.head = x.head /\ y.tail = x.tail /\ y.cite = x.cite /\ (x.range <=> y.range)
    BY <1>5, <2>r, IdentityParts, Zenon DEF Replaces
  <2>6. SameWords(p.targets, q.targets)
    <3>1. p.src = q.src /\ p.cite = q.cite
      BY <2>1, <2>2, <2>5, Zenon
    <3>2. PICK k \in Corpora : sidecar \subseteq Candidates(k, links)
      BY DEF SidecarInv
    <3>3. p \in Candidates(k, links) /\ q \in Candidates(k, links)
      BY <3>2
    <3> QED
      BY <3>1, <3>3, Zenon DEF Unambiguous, Corpora
  <2>7. p.targets = q.targets
    <3>0. x.tail \in p.targets /\ x.tail \in q.targets
      BY <2>1, <2>2, <2>5, Zenon
    <3>1. p.targets \cap q.targets # {}
      BY <3>0
    <3>2. (Cardinality(p.targets) > 1) <=> (Cardinality(q.targets) > 1)
      BY <2>1, <2>2, <2>5, Zenon
    <3> QED
      BY <2>6, <3>1, <3>2, Zenon DEF SameWords
  <2>8. PICK s : s = CandidateRecord(q, r.tail)
    OBVIOUS
  <2>9. r.tail \in q.targets
    BY <2>3, <2>4, <2>7, Zenon
  <2>10. s \in rs /\ Says(q, s) /\ s.tail = r.tail
    <3>1. OfCandidate(q, r.tail, s)
      BY <2>8, CandidateFacts, Zenon
    <3>2. s \in rs
      BY <2>2, <2>8, <2>9, Zenon DEF CandidateRecords
    <3> HIDE DEF Says
    <3> QED
      BY <1>1, <2>9, <3>1, <3>2, Zenon
  <2>11. Identity(s) = Identity(r)
    <3>1. /\ r.head = s.head /\ r.rel = s.rel /\ r.tail = s.tail /\ r.cite = s.cite
          /\ s.rel = "REFERS_TO"
      BY <2>1, <2>2, <2>3, <2>4, <2>5, <2>10, <2>r, Zenon
    <3>2. r.range = s.range
      BY <2>3, <2>4, <2>7, <2>10, Zenon
    <3>3. s.range <=> r.range
      BY <3>2, Zenon
    <3> QED
      BY <3>1, <3>3, IdentityParts, Zenon
  <2> QED
    BY <2>2, <2>10, <2>11, Zenon DEF Counterpart
<1>6. Twin(rs)
  BY <1>5, Zenon DEF Twin
<1> QED
  BY <1>4, <1>6, Zenon DEF rs

\* A marker's words are left to its candidate: no reference replaces one.
LEMMA RulesTwin ==
    ASSUME Unambiguous, links \in Links, SidecarInv, RecordInv, TwinInv,
           \A r \in records : r.via = "LLM", NEW refs \in References,
           NEW ns, ns = Supersede(records \cup RuleRecords(refs)) \cup ProviderRecords
    PROVE  Ranked(ns) /\ Twin(ns)
<1> DEFINE rs == records \cup RuleRecords(refs)
           ss == Supersede(rs)
<1>1. \A r \in records : Shape(r) /\ r.bundle = <<>>
  BY DEF RecordInv, Shape
<1>2. \A r \in rs : Shape(r)
  BY <1>1, RuleShape, Zenon
<1>3. Ranked(rs) /\ Twin(rs)
  BY <1>1, RuleTwin, TwinUnion, Zenon DEF TwinInv, Replaces
<1>4. Whole(rs)
  BY <1>1, RuleWhole, WholeUnion, Zenon DEF RecordInv
<1>5. \A r \in rs : r.bundle # <<>> =>
         r.bundle[1] = "reference" /\ r.rel = "REFERS_TO" /\ r.cite \notin Owned
  <2> SUFFICES ASSUME NEW r \in rs, r.bundle # <<>>
               PROVE  r.bundle[1] = "reference" /\ r.rel = "REFERS_TO" /\ r.cite \notin Owned
    OBVIOUS
  <2>1. r \in RuleRecords(refs)
    BY <1>1
  <2>2. r.bundle[1] = "reference"
    BY <2>1, RuleShape, Zenon
  <2>3. PICK ref \in refs : (\E t \in ref.targets : OfReference(ref, t, r)) /\ ref.cite \notin Owned
    BY <2>1, RuleMember, Zenon
  <2>4. r.rel = "REFERS_TO" /\ r.cite = ref.cite
    BY <2>3, Zenon DEF OfReference
  <2> QED
    BY <2>2, <2>3, <2>4, Zenon
<1> HIDE DEF rs
<1>6. ASSUME NEW r \in rs PROVE \E s \in ss : SameRecord(r, s)
  <2>1. PICK v : v = Overruled(r, rs)
    OBVIOUS
  <2>2. PICK s : s = [r EXCEPT !.superseded = v]
    OBVIOUS
  <2>3. s \in ss
    BY <2>1, <2>2, Zenon DEF Supersede, Overruled
  <2>4. IsRecord(r)
    BY <1>2, Zenon DEF Shape
  <2>5. SameRecord(r, s)
    BY <2>2, <2>4, ExceptSame
  <2> QED
    BY <2>3, <2>5
<1>7. \A s \in ss : \E r \in rs : SameRecord(r, s)
  BY <1>2, <1>4, SupersedeFacts, Zenon
<1> HIDE DEF ss
<1>8. Ranked(ss) /\ Twin(ss)
  BY <1>3, <1>6, <1>7, TwinImage, Zenon
<1>9. \A s \in ss : s.bundle # <<>> =>
         s.bundle[1] = "reference" /\ s.rel = "REFERS_TO" /\ s.cite \notin Owned
  <2> SUFFICES ASSUME NEW s \in ss, s.bundle # <<>>
               PROVE  s.bundle[1] = "reference" /\ s.rel = "REFERS_TO" /\ s.cite \notin Owned
    OBVIOUS
  <2>1. PICK r \in rs : SameRecord(r, s)
    BY <1>7, Zenon
  <2>2. s.bundle = r.bundle /\ s.rel = r.rel /\ s.cite = r.cite
    BY <2>1, Zenon DEF SameRecord
  <2>3. r.bundle[1] = "reference" /\ r.rel = "REFERS_TO" /\ r.cite \notin Owned
    BY <1>5, <2>2, Zenon
  <2> QED
    BY <2>2, <2>3, Zenon
<1>10. \A p \in ProviderRecords :
          p.bundle # <<>> /\ p.bundle[1] = "candidate" /\ p.cite \in Owned
  <2> SUFFICES ASSUME NEW p \in ProviderRecords
               PROVE  p.bundle # <<>> /\ p.bundle[1] = "candidate" /\ p.cite \in Owned
    OBVIOUS
  <2>1. PICK c \in sidecar : \E t \in c.targets : OfCandidate(c, t, p)
    BY ProviderMember, Zenon
  <2>2. p.cite = c.cite
    BY <2>1, Zenon DEF OfCandidate
  <2>3. p.cite \in Owned
    BY <2>2 DEF Owned
  <2> QED
    BY <2>3, ProviderShape, Zenon
<1>11. ASSUME NEW s \in ss, NEW p \in ProviderRecords
       PROVE  /\ s.bundle = p.bundle => s.bundle = <<>>
              /\ ~Replaces(s, p) /\ ~Replaces(p, s)
  <2>1. "reference" # "candidate"
    OBVIOUS
  <2>2. ~Replaces(s, p)
    <3> SUFFICES ASSUME Replaces(s, p) PROVE FALSE
      OBVIOUS
    <3>1. s.bundle # <<>> /\ Identity(s) = Identity(p)
      BY Zenon DEF Replaces
    <3>2. s.rel = "REFERS_TO" /\ s.cite \notin Owned /\ p.cite \in Owned
      BY <1>9, <1>10, <3>1, Zenon
    <3>3. p.cite = s.cite
      BY <3>1, <3>2, IdentityParts, Zenon
    <3> QED
      BY <3>2, <3>3, Zenon
  <2>3. ~Replaces(p, s)
    BY <2>2, Zenon DEF Replaces
  <2> QED
    BY <2>1, <2>2, <2>3, <1>9, <1>10, Zenon
<1>12. Ranked(ss \cup ProviderRecords) /\ Twin(ss \cup ProviderRecords)
  BY <1>8, <1>11, ProviderTwin, TwinUnion, Zenon
<1> QED
  BY <1>12, Zenon DEF ss, rs

LEMMA ArticlePlaced ==
    ASSUME Unambiguous, NEW answer \in Answers, NEW x, NEW s,
           OfArticle(answer.types, x, s)
    PROVE  Placeable(Merge(index, answer.types),
                     conflicts \cup Clashes(index, answer.types), s)
<1> DEFINE types == answer.types
           ix == Merge(index, types)
           cf == conflicts \cup Clashes(index, types)
<1>1. SemanticOf(types) \cap DOMAIN HostTypes = {}
  BY Zenon DEF Unambiguous
<1>2. ASSUME NEW u \in Registered \cup SemanticOf(types)
      PROVE  Placed(ix, cf, u, EndpointType(u, types))
  <2>1. CASE u \in SemanticOf(types)
    <3>1. u \notin DOMAIN HostTypes /\ EndpointType(u, types) = types[u]
      BY <1>1, <2>1 DEF EndpointType
    <3>2. u \in DOMAIN ix /\ (u \in DOMAIN index => ix[u] = index[u])
          /\ (u \notin DOMAIN index => ix[u] = types[u])
      BY <2>1 DEF Merge
    <3>3. u \in DOMAIN index /\ index[u] # types[u] => u \in cf
      BY <2>1 DEF Clashes
    <3> HIDE DEF ix, cf, types
    <3> QED
      BY <3>1, <3>2, <3>3, Zenon DEF Placed, At
  <2>2. CASE u \notin SemanticOf(types)
    <3>1. u \in Registered /\ EndpointType(u, types) = HostTypes[u]
      BY <2>2 DEF EndpointType
    <3>2. u \in DOMAIN HostTypes
      BY <3>1 DEF Registered
    <3> QED
      BY <3>1, <3>2, Zenon DEF Placed, At
  <2> QED
    BY <2>1, <2>2
<1> HIDE DEF ix, cf, types
<1> SUFFICES ASSUME s.consistent = TRUE
             PROVE  \E ht, tt : /\ AllowedPair(s.rel, ht, tt)
                                /\ Placed(ix, cf, s.head, ht) /\ Placed(ix, cf, s.tail, tt)
  BY Zenon DEF Placeable, ix, cf, types
<1>3. /\ OntologyValid(EndpointType(x.head, types), x.rel,
                       EndpointType(x.tail, types), x.head, x.tail, TRUE)
      /\ x.head \in Registered \cup SemanticOf(types)
      /\ x.tail \in Registered \cup SemanticOf(types)
      /\ s.head = x.head /\ s.rel = x.rel /\ s.tail = x.tail
  BY Zenon DEF OfArticle, types
<1>4. AllowedPair(x.rel, EndpointType(x.head, types), EndpointType(x.tail, types))
  BY <1>3, Zenon DEF OntologyValid
<1>5. /\ Placed(ix, cf, x.head, EndpointType(x.head, types))
      /\ Placed(ix, cf, x.tail, EndpointType(x.tail, types))
  BY <1>2, <1>3, Zenon
<1> QED
  BY <1>3, <1>4, <1>5, Zenon

\* The index only grows, and an entity keeps its type in it.
LEMMA StaysPlaced ==
    ASSUME NEW types, NEW r, Placeable(index, conflicts, r)
    PROVE  Placeable(Merge(index, types), conflicts \cup Clashes(index, types), r)
<1> DEFINE ix == Merge(index, types)
           cf == conflicts \cup Clashes(index, types)
<1>1. \A u \in DOMAIN index : u \in DOMAIN ix /\ ix[u] = index[u]
  BY DEF Merge
<1>2. conflicts \subseteq cf
  OBVIOUS
<1> HIDE DEF ix, cf
<1>3. \A u, t : Placed(index, conflicts, u, t) => Placed(ix, cf, u, t)
  BY <1>1, <1>2, Zenon DEF Placed, At
<1>4. Placeable(ix, cf, r)
  BY <1>3, Zenon DEF Placeable
<1> QED
  BY <1>4, Zenon DEF ix, cf

\* Units of the host need no index.
LEMMA HostPlaced ==
    ASSUME NEW ix, NEW cf, NEW s, NEW u, NEW v, s.head = u, s.tail = v,
           s.consistent = TRUE =>
              OntologyValid(TypeOf(u), s.rel, TypeOf(v), u, v, TRUE),
           s.consistent = TRUE /\ ~s.deferred => u \in Registered /\ v \in Registered
    PROVE  Placeable(ix, cf, s)
<1> SUFFICES ASSUME s.consistent = TRUE, ~s.deferred
             PROVE  \E ht, tt : /\ AllowedPair(s.rel, ht, tt)
                                /\ Placed(ix, cf, s.head, ht) /\ Placed(ix, cf, s.tail, tt)
  BY Zenon DEF Placeable, Drawable
<1>1. u \in DOMAIN HostTypes /\ v \in DOMAIN HostTypes
  BY DEF Registered
<1>2. AllowedPair(s.rel, TypeOf(u), TypeOf(v))
  BY Zenon DEF OntologyValid
<1>3. TypeOf(u) = HostTypes[u] /\ TypeOf(v) = HostTypes[v]
  BY <1>1, Zenon DEF TypeOf
<1> QED
  BY <1>1, <1>2, <1>3, Zenon DEF Placed, At

LEMMA RulePlaced ==
    ASSUME NEW refs, NEW s \in RuleRecords(refs), NEW ix, NEW cf
    PROVE  Placeable(ix, cf, s)
<1>1. PICK ref \in refs : \E t : OfReference(ref, t, s)
  BY RuleMember, Zenon
<1>2. /\ s.head = ref.source /\ s.rel = "REFERS_TO"
      /\ s.consistent = TRUE =>
            /\ OntologyValid(TypeOf(ref.source), "REFERS_TO", TypeOf(s.tail),
                             ref.source, s.tail, TRUE)
            /\ ref.source \in Registered /\ s.tail \in Registered
  BY <1>1, Zenon DEF OfReference
<1>3. s.consistent = TRUE =>
         OntologyValid(TypeOf(ref.source), s.rel, TypeOf(s.tail), ref.source, s.tail, TRUE)
  BY <1>2, Zenon
<1> QED
  BY <1>2, <1>3, HostPlaced, Zenon

LEMMA ProviderPlaced ==
    ASSUME NEW s \in ProviderRecords, NEW ix, NEW cf
    PROVE  Placeable(ix, cf, s)
<1>1. PICK c \in sidecar : \E t \in c.targets : OfCandidate(c, t, s)
  BY ProviderMember, Zenon
<1>2. /\ s.head = c.src /\ s.rel = c.rel /\ s.tail \in c.targets
      /\ s.deferred = Deferred(c)
      /\ s.consistent = TRUE =>
            OntologyValid(TypeOf(c.src), c.rel, TypeOf(s.tail), c.src, s.tail, TRUE)
  BY <1>1, Zenon DEF OfCandidate
<1>3. s.consistent = TRUE =>
         OntologyValid(TypeOf(c.src), s.rel, TypeOf(s.tail), c.src, s.tail, TRUE)
  BY <1>2, Zenon
<1>4. ~s.deferred => {c.src} \cup c.targets \subseteq Registered
  BY <1>2, Zenon DEF Deferred
<1>5. ~s.deferred => c.src \in Registered /\ s.tail \in Registered
  BY <1>2, <1>4, Zenon
<1> QED
  BY <1>2, <1>3, <1>5, HostPlaced, Zenon

\* An accepted record has no endpoint of two types, so what the index keeps is its
\* type.
LEMMA GatePlaces ==
    ASSUME NEW r, NEW s, SameRecord(r, s), GateOK(r, s), Placeable(index, conflicts, r),
           NEW ix, ix = [e \in DOMAIN index \ conflicts |-> index[e]]
    PROVE  Buildable(ix, s)
<1>1. ASSUME NEW u, NEW t, u \notin conflicts, Placed(index, conflicts, u, t)
      PROVE  At(ix, u, t)
  <2>1. At(index, u, t)
    BY <1>1, Zenon DEF Placed
  <2>2. u \in DOMAIN index => u \in DOMAIN ix /\ ix[u] = index[u]
    BY <1>1
  <2> QED
    BY <2>1, <2>2, Zenon DEF At
<1> SUFFICES ASSUME s.decision = "accepted", Drawable(s)
             PROVE  \E ht, tt : /\ AllowedPair(s.rel, ht, tt)
                                /\ At(ix, s.head, ht) /\ At(ix, s.tail, tt)
  BY Zenon DEF Buildable
<1>2. /\ r.consistent = TRUE /\ r.head \notin conflicts /\ r.tail \notin conflicts
  BY Zenon DEF GateOK
<1>3. Drawable(r) /\ s.rel = r.rel /\ s.head = r.head /\ s.tail = r.tail
  BY Zenon DEF Drawable, SameRecord
<1>4. PICK ht, tt : /\ AllowedPair(r.rel, ht, tt)
                    /\ Placed(index, conflicts, r.head, ht)
                    /\ Placed(index, conflicts, r.tail, tt)
  BY <1>2, <1>3, Zenon DEF Placeable
<1>5. At(ix, r.head, ht) /\ At(ix, r.tail, tt)
  BY <1>1, <1>2, <1>4, Zenon
<1> QED
  BY <1>3, <1>4, <1>5, Zenon

LEMMA PlacedSame ==
    ASSUME NEW r, NEW s, SameRecord(r, s), s.consistent = r.consistent,
           NEW ix, NEW cf, Placeable(ix, cf, r)
    PROVE  Placeable(ix, cf, s)
BY Zenon DEF Placeable, Drawable, SameRecord

\* Decide drops no record.
LEMMA DecideKeeps ==
    ASSUME NEW rs, \A r \in rs : Shape(r), NEW r \in rs
    PROVE  \E s \in Bundled(Gated(rs)) : SameRecord(r, s)
<1>1. PICK c : c = Conflicted(r)
  OBVIOUS
<1>2. PICK d : d = Decision(c)
  OBVIOUS
<1>3. PICK g : g = [c EXCEPT !.decision = d]
  OBVIOUS
<1>4. g \in Gated(rs)
  BY <1>1, <1>2, <1>3, Zenon DEF Gated
<1>5. PICK b : b = BundleDecision(g, Gated(rs))
  OBVIOUS
<1>6. PICK s : s = [g EXCEPT !.decision = b]
  OBVIOUS
<1>7. s \in Bundled(Gated(rs))
  BY <1>4, <1>5, <1>6, Zenon DEF Bundled
<1>8. Shape(c) /\ SameRecord(r, c)
  BY <1>1, ConflictedFacts, Zenon
<1>9. IsRecord(c)
  BY <1>8, Zenon DEF Shape
<1>10. IsRecord(g) /\ SameRecord(c, g)
  BY <1>3, <1>9, ExceptSame
<1>11. SameRecord(g, s)
  BY <1>6, <1>10, ExceptSame
<1>12. SameRecord(r, s)
  BY <1>8, <1>10, <1>11, Zenon DEF SameRecord
<1> QED
  BY <1>7, <1>12

\* What the gate has accepted the builder takes.
LEMMA AcceptedTaken ==
    ASSUME Whole(records), Settled(records), Ranked(records), Twin(records),
           \A r \in records : Buildable(index, r),
           \A r \in Local(records) : r.via # "DIAGRAM" /\ IssuerId \notin {r.head, r.tail}
    PROVE  Takes(index, Local(records))
<1> DEFINE L == Local(records)
           E == Edges(L)
<1>1. ASSUME NEW u, NEW t, u # IssuerId, At(index, u, t)
      PROVE  HasEndpoint(index, u) /\ NodeType(index, u) = t
  BY <1>1 DEF At, HasEndpoint, NodeType
<1>2. ASSUME NEW r \in L
      PROVE  /\ r \in records /\ r.decision = "accepted" /\ ~r.deferred
             /\ HasEndpoint(index, r.head) /\ HasEndpoint(index, r.tail)
             /\ AllowedPair(r.rel, NodeType(index, r.head), NodeType(index, r.tail))
  <2>1. r \in records /\ r.decision = "accepted" /\ ~r.deferred
    BY Zenon DEF Local
  <2>2. r.via # "DIAGRAM" /\ r.head # IssuerId /\ r.tail # IssuerId
    OBVIOUS
  <2>3. PICK ht, tt : /\ AllowedPair(r.rel, ht, tt)
                      /\ At(index, r.head, ht) /\ At(index, r.tail, tt)
    BY <2>1, <2>2, Zenon DEF Buildable, Drawable
  <2>4. /\ HasEndpoint(index, r.head) /\ NodeType(index, r.head) = ht
        /\ HasEndpoint(index, r.tail) /\ NodeType(index, r.tail) = tt
    BY <1>1, <2>2, <2>3, Zenon
  <2> QED
    BY <2>1, <2>3, <2>4, Zenon
\* The whole bundle is local ...
<1>3. ASSUME NEW r \in L, r.bundle # <<>>, NEW x \in records, x.bundle = r.bundle
      PROVE  x \in L
  <2>1. r \in records /\ r.decision = "accepted" /\ ~r.deferred
    BY Zenon DEF Local
  <2>2. x.decision = "accepted"
    BY <1>3, <2>1, Zenon DEF Settled
  <2>3. x.deferred = r.deferred
    BY <1>3, <2>1, Zenon DEF Whole, BundleOver
  <2> QED
    BY <2>1, <2>2, <2>3, Zenon DEF Local
\* ... and none of it is replaced when one of it is not.
<1>4. ASSUME NEW r \in E, r.bundle # <<>>, NEW x \in records, x.bundle = r.bundle
      PROVE  x \in E
  <2>1. r \in L /\ r \in records
    BY Zenon DEF Edges, Local
  <2>2. x \in L
    BY <1>3, <1>4, <2>1, Zenon
  <2>3. ASSUME NEW y \in L, Identity(y) = Identity(x) PROVE y.ord <= x.ord
    <3>1. y \in records /\ ~y.deferred /\ ~x.deferred /\ ~r.deferred
      BY <2>1, <2>2, <1>2, Zenon
    <3>2. x.ord \in Nat /\ y.ord \in Nat /\ r.ord = x.ord
      BY <1>4, <2>1, <3>1, Zenon DEF Ranked
    <3>3. CASE y.bundle = <<>>
      <4>1. y.ord = 0
        BY <3>1, <3>3, Zenon DEF Ranked
      <4> QED
        BY <3>2, <4>1
    <3>4. CASE y.bundle # <<>>
      <4>1. Replaces(x, y)
        BY <1>4, <2>3, <3>1, <3>4, Zenon DEF Replaces
      <4>2. Counterpart(records, y, r)
        BY <4>1, <1>4, <2>1, <3>1, Zenon DEF Twin
      <4>3. PICK s \in records : s.bundle = y.bundle /\ Identity(s) = Identity(r)
        BY <4>2, Zenon DEF Counterpart
      <4>4. s \in L
        BY <1>3, <2>3, <3>4, <4>3, Zenon
      <4>5. s.ord <= r.ord
        BY <4>3, <4>4, Zenon DEF Edges
      <4>6. s.ord = y.ord
        BY <3>1, <3>4, <4>3, Zenon DEF Ranked
      <4> QED
        BY <3>2, <4>5, <4>6
    <3> QED
      BY <3>3, <3>4
  <2> QED
    BY <2>2, <2>3, Zenon DEF Edges
<1>5. E \subseteq L /\ E \subseteq records
  BY Zenon DEF Edges, Local
<1>6. ASSUME NEW r \in E PROVE BundleComplete(r, E)
  <2> SUFFICES ASSUME r.bundle # <<>>
               PROVE  Cardinality({x \in E : x.bundle = r.bundle}) = r.count
    BY Zenon DEF BundleComplete
  <2> HIDE DEF E
  <2>1. {x \in E : x.bundle = r.bundle} = {x \in records : x.bundle = r.bundle}
    BY <1>4, <1>5
  <2>2. r \in records
    BY <1>5
  <2> QED
    BY <2>1, <2>2, BundleCount, Zenon
<1> HIDE DEF L
<1>7. \A r \in L : HasEndpoint(index, r.head) /\ HasEndpoint(index, r.tail)
  BY <1>2, Zenon
<1>8. \A r \in Edges(L) :
          /\ AllowedPair(r.rel, NodeType(index, r.head), NodeType(index, r.tail))
          /\ BundleComplete(r, Edges(L))
  BY <1>2, <1>5, <1>6, Zenon
<1> QED
  BY <1>7, <1>8, Zenon DEF Takes, L

LEMMA InitBInv == Init => BInv
<1> SUFFICES ASSUME Init PROVE BInv
  OBVIOUS
<1>1. pc = "off" /\ records = {} /\ payload = NoPayload
  BY DEF Init
<1>2. payload.mode = "none"
  BY <1>1 DEF NoPayload
<1>3. PlaceInv /\ RefusalInv
  BY <1>1, <1>2 DEF PlaceInv, RefusalInv
<1>4. TwinInv
  BY <1>1, Zenon DEF TwinInv, Ranked, Twin
<1> QED
  BY <1>3, <1>4, Zenon DEF BInv

\* Whatever leaves the run alone, and Begin
LEMMA RunKept ==
    ASSUME BInv, UNCHANGED <<index, conflicts, records, payload>>,
           pc' = pc \/ (pc = "off" /\ pc' \in {"stopped", "articles"})
    PROVE  BInv'
<1>1. PlaceInv'
  BY Zenon DEF BInv, PlaceInv
<1>2. TwinInv'
  BY DEF BInv, TwinInv
<1>3. RefusalInv'
  BY DEF BInv, RefusalInv, Local
<1> QED
  BY <1>1, <1>2, <1>3, Zenon DEF BInv

LEMMA ArticleBuilds ==
    ASSUME Unambiguous, IInv, BInv, NEW answer \in Answers, AddArticle(answer)
    PROVE  BInv'
<1> DEFINE ns == {ArticleRecord(answer.article, answer.types, x) : x \in answer.relations}
           ix == Merge(index, answer.types)
           cf == conflicts \cup Clashes(index, answer.types)
<1>1. /\ pc = "articles" /\ UNCHANGED <<pc, payload>>
      /\ records' = records \cup ns /\ index' = ix /\ conflicts' = cf
  BY DEF AddArticle
<1>2. ASSUME NEW s \in ns
      PROVE  /\ Placeable(ix, cf, s) /\ s.bundle = <<>> /\ s.ord = 0
  <2>1. PICK x \in answer.relations : s = ArticleRecord(answer.article, answer.types, x)
    BY Zenon
  <2>2. x.evidence \in Nat
    BY RecordsAssumption, Zenon
  <2>3. OfArticle(answer.types, x, s)
    BY <2>1, <2>2, ArticleFacts, Zenon
  <2>4. s.bundle = <<>> /\ s.ord = 0
    BY <2>3, Zenon DEF OfArticle
  <2>5. Placeable(ix, cf, s)
    BY <2>3, ArticlePlaced, Zenon
  <2> QED
    BY <2>4, <2>5
<1> HIDE DEF ns
<1>3. \A r \in records : Placeable(ix, cf, r)
  BY <1>1, StaysPlaced DEF BInv, PlaceInv
<1> HIDE DEF ix, cf
<1>4. PlaceInv'
  <2>1. \A r \in records' : Placeable(index', conflicts', r)
    BY <1>1, <1>2, <1>3, Zenon
  <2> QED
    BY <1>1, <2>1 DEF PlaceInv
<1>5. TwinInv'
  <2>1. Ranked(ns) /\ Twin(ns)
    <3>1. Ranked(ns)
      BY <1>2 DEF Ranked
    <3>2. Twin(ns)
      BY <1>2, Zenon DEF Twin, Replaces
    <3> QED
      BY <3>1, <3>2
  <2>2. Ranked(records \cup ns) /\ Twin(records \cup ns)
    BY <1>2, <2>1, TwinUnion, Zenon DEF BInv, TwinInv, Replaces
  <2> QED
    BY <1>1, <2>2 DEF TwinInv
<1>6. RefusalInv'
  BY <1>1 DEF IInv, PhaseInv, NoPayload, RefusalInv
<1> QED
  BY <1>4, <1>5, <1>6, Zenon DEF BInv

LEMMA RulesBuild ==
    ASSUME Unambiguous, IInv, BInv, NEW refs \in References, AddRules(refs)
    PROVE  BInv'
<1> DEFINE rs == records \cup RuleRecords(refs)
<1>1. /\ pc = "articles" /\ pc' = "diagram" /\ UNCHANGED <<index, conflicts, payload>>
      /\ records' = Supersede(rs) \cup ProviderRecords
  BY DEF AddRules
<1>2. links \in Links /\ SidecarInv /\ RecordInv /\ \A r \in records : r.via = "LLM"
  BY <1>1 DEF IInv, BatchInv, PhaseInv
<1>3. Ranked(records') /\ Twin(records')
  BY <1>1, <1>2, RulesTwin, Zenon DEF BInv
<1>4. \A r \in rs : Placeable(index, conflicts, r)
  <2>1. \A r \in records : Placeable(index, conflicts, r)
    BY <1>1 DEF BInv, PlaceInv
  <2> QED
    BY <2>1, RulePlaced, Zenon
<1>5. (\A r \in rs : Shape(r)) /\ Whole(rs)
  <2>1. \A r \in records : Shape(r) /\ r.bundle = <<>>
    BY <1>2 DEF RecordInv, Shape
  <2> QED
    BY <1>2, <2>1, RuleShape, RuleWhole, WholeUnion, Zenon DEF RecordInv
<1> HIDE DEF rs
<1>6. \A s \in Supersede(rs) : Placeable(index, conflicts, s)
  BY <1>4, <1>5, SupersedeFacts, PlacedSame, Zenon
<1>7. PlaceInv'
  <2>1. \A r \in records' : Placeable(index', conflicts', r)
    BY <1>1, <1>6, ProviderPlaced, Zenon
  <2> QED
    BY <1>1, <2>1 DEF PlaceInv
<1>8. TwinInv' /\ RefusalInv'
  BY <1>1, <1>3 DEF TwinInv, IInv, PhaseInv, NoPayload, RefusalInv
<1> QED
  BY <1>7, <1>8, Zenon DEF BInv

LEMMA DiagramBuilds ==
    ASSUME IInv, BInv, NEW d \in Diagrams, AddDiagram(d)
    PROVE  BInv'
<1> DEFINE ns == {DiagramRecord(i) : i \in Drawn(d)}
<1>1. /\ pc = "diagram" /\ pc' = "decide" /\ UNCHANGED <<index, conflicts, payload>>
      /\ records' = records \cup ns
  BY DEF AddDiagram
<1>2. \A s \in ns : Shape(s) /\ s.via = "DIAGRAM" /\ s.ord = 0
  BY DiagramFacts, Zenon
<1> HIDE DEF ns
<1>3. \A s \in ns : s.bundle = <<>> /\ Placeable(index, conflicts, s)
  BY <1>2, Zenon DEF Shape, Placeable, Drawable
<1>4. PlaceInv'
  <2>1. \A r \in records : Placeable(index, conflicts, r)
    BY <1>1 DEF BInv, PlaceInv
  <2>2. \A r \in records' : Placeable(index', conflicts', r)
    BY <1>1, <1>3, <2>1, Zenon
  <2> QED
    BY <1>1, <2>2 DEF PlaceInv
<1>5. TwinInv'
  <2>1. Ranked(ns)
    BY <1>2, <1>3 DEF Ranked
  <2>2. Twin(ns)
    BY <1>3, Zenon DEF Twin, Replaces
  <2>3. Ranked(records \cup ns) /\ Twin(records \cup ns)
    BY <1>3, <2>1, <2>2, TwinUnion, Zenon DEF BInv, TwinInv, Replaces
  <2> QED
    BY <1>1, <2>3 DEF TwinInv
<1>6. RefusalInv'
  BY <1>1 DEF IInv, PhaseInv, NoPayload, RefusalInv
<1> QED
  BY <1>4, <1>5, <1>6, Zenon DEF BInv

LEMMA DecideBuilds == IInv /\ BInv /\ Decide => BInv'
<1> SUFFICES ASSUME IInv, BInv, Decide PROVE BInv'
  OBVIOUS
<1>1. /\ pc = "decide" /\ pc' = "build" /\ UNCHANGED payload
      /\ index' = [e \in DOMAIN index \ conflicts |-> index[e]]
      /\ records' = Bundled(Gated(records))
  BY DEF Decide
<1>2. Whole(records) /\ \A r \in records : Shape(r)
  BY DEF IInv, RecordInv
<1>3. \A s \in records' : \E r \in records : SameRecord(r, s) /\ GateOK(r, s)
  BY <1>1, <1>2, DecideFacts, Zenon
<1>4. \A r \in records : \E s \in records' : SameRecord(r, s)
  BY <1>1, <1>2, DecideKeeps, Zenon
<1>5. TwinInv'
  BY <1>3, <1>4, TwinImage, Zenon DEF BInv, TwinInv
<1>6. \A r \in records : Placeable(index, conflicts, r)
  BY <1>1 DEF BInv, PlaceInv
<1>7. \A s \in records' : Buildable(index', s)
  BY <1>1, <1>3, <1>6, GatePlaces, Zenon
<1>8. PlaceInv'
  BY <1>1, <1>7 DEF PlaceInv
<1>9. RefusalInv'
  BY <1>1 DEF IInv, PhaseInv, NoPayload, RefusalInv
<1> QED
  BY <1>5, <1>8, <1>9, Zenon DEF BInv

LEMMA PayloadBuilds == IInv /\ BInv /\ BuildPayload => BInv'
<1> SUFFICES ASSUME IInv, BInv, BuildPayload PROVE BInv'
  OBVIOUS
<1>1. pc = "build" /\ pc' = "done" /\ UNCHANGED <<index, conflicts, records>>
  BY DEF BuildPayload
<1>2. PlaceInv' /\ TwinInv'
  BY <1>1 DEF BInv, PlaceInv, TwinInv
<1>3. Takes(index, Local(records)) => payload'.mode = "full"
  <2>1. Takes(index, Local(records)) =>
          payload' = [mode |-> "full", edges |-> Edges(Local(records))]
    BY Zenon DEF BuildPayload
  <2> QED
    BY <2>1
<1>4. "full" # "structural"
  OBVIOUS
<1>5. payload'.mode = "structural" => ~Takes(index', Local(records'))
  BY <1>1, <1>3, <1>4, Zenon
<1>6. RefusalInv'
  <2>1. Local(records)' = Local(records')
    BY DEF Local
  <2> QED
    BY <1>1, <1>5 DEF RefusalInv
<1> QED
  BY <1>2, <1>6, Zenon DEF BInv

\* AcceptedIsBuildable: for texts that are unambiguous, build_graph_payload and
\* validate_graph_payload take all that _apply_decision_gate accepted, but for
\* diagram relations and entities with the issuer's id: the pair of types was
\* checked against the Article's own answer, the payload is checked against the
\* index of all of them.
THEOREM BuildableCorrect ==
    ASSUME Unambiguous
    PROVE  Spec => []AcceptedIsBuildable
<1>1. ASSUME IInv, BInv, [Next]_vars PROVE BInv'
  <2>1. CASE UNCHANGED vars
    BY <1>1, <2>1, RunKept, Zenon DEF vars
  <2>2. ASSUME \/ Crawl \/ Refresh \/ Crash
               \/ \E d \in Docs : ParseOne(d) \/ WriteHierarchy(d) \/ WriteSidecar(d) \/ ParseFails(d)
               \/ \E retryFailed \in BOOLEAN : StartBatch(retryFailed)
        PROVE  BInv'
    <3>1. UNCHANGED run
      BY <1>1, <2>2, ParsingStep, Zenon DEF IInv
    <3> QED
      BY <1>1, <3>1, RunKept, Zenon DEF run
  <2>3. ASSUME Begin PROVE BInv'
    <3>1. /\ UNCHANGED <<index, conflicts, records, payload>>
          /\ pc = "off" /\ pc' \in {"stopped", "articles"}
      BY <2>3 DEF Begin, Free
    <3> QED
      BY <1>1, <3>1, RunKept
  <2> QED
    BY <1>1, <2>1, <2>2, <2>3, ArticleBuilds, RulesBuild, DiagramBuilds,
       DecideBuilds, PayloadBuilds, Zenon DEF Next
<1>2. ASSUME IInv, BInv PROVE AcceptedIsBuildable
  <2> SUFFICES ASSUME payload.mode = "structural",
                      \A r \in Local(records) :
                         r.via # "DIAGRAM" /\ IssuerId \notin {r.head, r.tail}
               PROVE  FALSE
    BY Zenon DEF AcceptedIsBuildable
  <2>1. pc = "done" /\ ~Takes(index, Local(records))
    BY <1>2 DEF BInv, RefusalInv
  <2>2. /\ Whole(records) /\ Settled(records) /\ Ranked(records) /\ Twin(records)
        /\ \A r \in records : Buildable(index, r)
    BY <1>2, <2>1 DEF IInv, BInv, RecordInv, DecideInv, TwinInv, PlaceInv
  <2> QED
    BY <2>1, <2>2, AcceptedTaken, Zenon
<1> QED
  BY <1>1, <1>2, InitBInv, Invariance, PTL DEF Spec
=============================================================================
