-------------------------- MODULE AnswerGeneration --------------------------
(***************************************************************************)
(* From retrieved evidence to a grounded answer: the fan-out and merge of  *)
(* conversation/service.py, the evidence pipeline of src/generation        *)
(* (sufficiency, contract validation, compaction, projection, projected    *)
(* validation), the bounded provider call and the single grounding repair. *)
(*                                                                         *)
(* AnswerGenerator.generate has no await before the provider call, so that *)
(* part is one action per way out of it (InsufficientEvidence,             *)
(* ContractViolated, ProjectionRefused, CallProvider); every provider      *)
(* attempt is an action of its own.                                        *)
(* What a unit or a path says is abstracted to the attributes the pipeline *)
(* tests; what the language model answers is any candidate of Candidates.  *)
(* A ranked list of units is the function from its units to their places.  *)
(***************************************************************************)
EXTENDS Naturals, FiniteSets, FiniteSetsExt

CONSTANTS Units,      \* citable legal units
          Paths,      \* graph paths, one per topology fingerprint
          UnitInfo,   \* unit -> [doc, family, content, from, to, cost]
          PathInfo,   \* path -> [edges, citable, cost]
          Anchors,    \* the anchor sets a resolved reference may give: units,
                      \* or nodes above them that hydrate to no unit
          Budgets,    \* evidence budgets left by the fixed prompt overhead
          MaxUnits,   \* bound: units per retrieval context (final_k)
          MaxRetries, \* GenerationConfig.max_retries
          Candidates  \* the schema-valid outputs of the answer model

NoDate == 0
None == "none"

ASSUME ShapeAssumption ==
    /\ \A u \in Units : /\ UnitInfo[u].from \in Nat /\ UnitInfo[u].to \in Nat
                        /\ UnitInfo[u].cost \in Nat \ {0}
    /\ \A p \in Paths : /\ PathInfo[p].citable \subseteq Units
                        /\ PathInfo[p].edges # {} /\ PathInfo[p].cost \in Nat
    /\ IsFiniteSet(Units) /\ {} \in Anchors
    /\ Budgets \subseteq Nat /\ MaxRetries \in Nat /\ MaxUnits \in Nat

VARIABLES phase,    \* start, retrieved, calling, done
          ctx,      \* the (merged) RetrievalContext
          operands, \* composition plan: ranked units per operand, or << >>
          proj,     \* the ProjectedAnswerContext handed to the provider
          round,    \* 1 the first candidate, 2 the repair
          attempt,  \* attempts made by the running generate_structured
          calls,    \* provider attempts of the whole request
          resp      \* the outcome of the request
vars == <<phase, ctx, operands, proj, round, attempt, calls, resp>>

Intents == {"factual", "definition", "validity", "hierarchy",
            "comparison", "multi_hop"}
SubqueryIntents == {"factual", "definition", "validity", "hierarchy"}
Outcomes == {None, "answered", "cannot", "failed", "escaped"}

-----------------------------------------------------------------------------
(* What retrieval can hand over. *)

\* The relations the graph channel follows for an intent.
PolicyOf(intent) ==
    CASE intent = "factual"    -> {"REFERS_TO", "REGULATES", "DEFINES", "REQUIRES"}
      [] intent = "definition" -> {"DEFINES"}
      [] intent = "validity"   -> {"AMENDS", "REPLACES", "REPEALS"}
      [] intent = "hierarchy"  -> {"GUIDES", "CONTAINS"}
      [] intent = "comparison" -> {"AMENDS", "REPLACES"}
      [] intent = "multi_hop"  -> {"ISSUED_BY", "CONTAINS", "GUIDES", "REFERS_TO",
                                   "AMENDS", "REPEALS", "REPLACES", "DEFINES",
                                   "REGULATES", "REQUIRES"}

RelationsOf(p) == {e.type : e \in PathInfo[p].edges}

\* An edge of the path with the requested relation leaves an anchor.
ProvesGoal(p, goal, anchors) ==
    \E e \in PathInfo[p].edges : e.type = goal /\ e.source \in anchors

\* [from, to) contains the date; a unit without a start is never valid.
ValidOn(u, date) ==
    /\ UnitInfo[u].from # NoDate /\ UnitInfo[u].from <= date
    /\ UnitInfo[u].to = NoDate \/ date < UnitInfo[u].to

\* TemporalFilter.filter on the units that are not pinned.
Timely(us, from, to, intent) ==
    /\ from # NoDate =>
         \A u \in us : /\ UnitInfo[u].from # NoDate /\ UnitInfo[u].from <= to
                       /\ UnitInfo[u].to = NoDate \/ UnitInfo[u].to > from
    /\ intent # "comparison" =>
         \A u, v \in us : UnitInfo[u].family # None
                          /\ UnitInfo[u].family = UnitInfo[v].family => u = v

\* The units the runtime keeps whatever their rank: the hydrated anchors and
\* the citable units of the paths that prove the relation goal.
Pinned(us, ps, anchors, goal) ==
    us \cap (anchors \cup
             UNION {PathInfo[p].citable : p \in {q \in ps : ProvesGoal(q, goal, anchors)}})

\* EvidenceVerifier: a retrieved unit is eligible, a node that is only on a
\* path gets an ineligible item.
Evidence(us, ps) ==
    [u \in us \cup UNION {PathInfo[p].citable : p \in ps} |-> u \in us]

\* _has_decisive_negative_validity: every anchor is outside its closed interval,
\* so the graph is not expanded.
DecisiveNegative(intent, anchors, date) ==
    /\ intent = "validity" /\ anchors # {}
    /\ \A u \in anchors : /\ u \in Units /\ UnitInfo[u].from # NoDate
                          /\ ~ValidOn(u, date)

\* Places from 1 on, as ContextBuilder numbers them.
RankedUnits ==
    UNION {{r \in [us -> 1..Cardinality(us)] : \A u, v \in us : r[u] = r[v] => u = v} :
             us \in {vs \in SUBSET Units : Cardinality(vs) <= MaxUnits}}

UnitsIn(c) == DOMAIN c.rank

\* The best-ranked of some units.
First(rank, us) == CHOOSE u \in us : \A v \in us : rank[u] <= rank[v]

\* A query date the router resolves for an intent: one day, a period, or, for
\* a comparison that spans all versions, none.
Periods(intent) == {<<2, 2>>, <<1, 3>>}
                   \cup (IF intent = "comparison" THEN {<<NoDate, NoDate>>} ELSE {})

\* The exact paths a bound plan may be satisfied by (none without a plan).
SatisfiedPaths(intent) ==
    {{}} \cup {{p} : p \in {q \in Paths : /\ intent = "multi_hop"
                                       /\ Cardinality(PathInfo[q].edges) >= 2}}

\* The context of a request, from the units, the followed paths and the paths
\* of the bound plan that its channels returned.
Context(intent, period, anchors, goal, found) ==
    LET paths == found.followed \cup found.sat
    IN [intent |-> intent, from |-> period[1], to |-> period[2], anchors |-> anchors,
        goal |-> goal, rank |-> found.rank, paths |-> paths, sat |-> found.sat,
        evidence |-> Evidence(DOMAIN found.rank, paths)]

\* The contexts one runtime.execute can build: hydrated anchors are always kept
\* and pinned units come first.
Contexts(intent, period, anchors, goal) ==
    LET relations == IF goal = None THEN PolicyOf(intent) ELSE {goal}
        traversed == {p \in Paths : RelationsOf(p) \subseteq relations}
        built == {Context(intent, period, anchors, goal, found) :
                    found \in [rank : RankedUnits, followed : SUBSET traversed,
                               sat : SatisfiedPaths(intent)]}
    IN {c \in built :
          LET pinned == Pinned(UnitsIn(c), c.paths, anchors, goal)
          IN /\ anchors \cap Units \subseteq UnitsIn(c)
             /\ DecisiveNegative(intent, anchors, c.from) => c.paths = {}
             /\ Timely(UnitsIn(c) \ pinned, c.from, c.to, intent)
             /\ \A u \in UnitsIn(c), v \in pinned :
                   c.rank[u] < c.rank[v] => u \in pinned}

\* The contexts of a query retrieved as it is; a relation goal comes with the
\* anchors it starts from and an intent whose policy has the relation.
AtomicContexts ==
    UNION {Contexts(r.intent, r.period, r.anchors, r.goal) :
             r \in {q \in [intent : Intents, period : UNION {Periods(i) : i \in Intents},
                          anchors : Anchors, goal : {None, "REFERS_TO"}] :
                     /\ q.period \in Periods(q.intent)
                     /\ q.goal # None => q.anchors # {} /\ q.goal \in PolicyOf(q.intent)}}

\* The contexts of a subquery, routed by its own intent and date; the anchors
\* are those of the whole query.
SubqueryContexts ==
    {c \in AtomicContexts : c.intent \in SubqueryIntents /\ c.goal = None}

-----------------------------------------------------------------------------
(* conversation/service.py and query_processing/fanout.py *)

\* merge_contexts: the first context is the base and its units come before those
\* of the second (only the order of places matters); units and evidence keep the
\* first occurrence of an id, the paths are concatenated.
MergeRank(a, b) ==
    [u \in DOMAIN a \cup DOMAIN b |-> IF u \in DOMAIN a THEN a[u] ELSE MaxUnits + b[u]]

MergeEvidence(a, b) ==
    [u \in DOMAIN a \cup DOMAIN b |-> IF u \in DOMAIN a THEN a[u] ELSE b[u]]

Merge(a, b) ==
    [a EXCEPT !.rank = MergeRank(a.rank, b.rank),
              !.paths = a.paths \cup b.paths,
              !.evidence = MergeEvidence(a.evidence, b.evidence)]

\* _build_answer_composition_plan: an operand is the units its own context
\* found eligible, in that context's rank.
Operand(c) == [u \in {v \in UnitsIn(c) : c.evidence[v]} |-> c.rank[u]]

-----------------------------------------------------------------------------
(* EvidenceSufficiencyPolicy *)

HasRelation(c, types) == \E p \in c.paths : RelationsOf(p) \cap types # {}

\* Mutant: a period counts as a resolved date.
TemporalEvidenceOnPeriod(c) ==
    /\ c.from # NoDate
    /\ IF c.anchors # {}
       THEN \A u \in c.anchors : u \in UnitsIn(c) /\ UnitInfo[u].from # NoDate
       ELSE \E u \in UnitsIn(c) : ValidOn(u, c.from)

TemporalEvidence(c) ==
    /\ c.from # NoDate /\ c.to = c.from
    /\ IF c.anchors # {}
       THEN \A u \in c.anchors : u \in UnitsIn(c) /\ UnitInfo[u].from # NoDate
       ELSE \E u \in UnitsIn(c) : ValidOn(u, c.from)

\* A version family is verified by two documents of it among the units.
FamilyVerified(us) ==
    \E u, v \in us : /\ UnitInfo[u].family # None
                     /\ UnitInfo[u].family = UnitInfo[v].family
                     /\ UnitInfo[u].doc # UnitInfo[v].doc

Sufficient(c) ==
    /\ UnitsIn(c) # {}
    /\ c.goal # None => \E p \in c.paths : ProvesGoal(p, c.goal, c.anchors)
    /\ c.intent = "hierarchy" => HasRelation(c, {"CONTAINS"})
    /\ c.intent = "multi_hop" =>
         \E p \in c.paths \cap c.sat : PathInfo[p].citable \subseteq UnitsIn(c)
    /\ c.intent = "validity" => TemporalEvidence(c)
    /\ c.intent = "comparison" =>
         FamilyVerified(UnitsIn(c)) \/ HasRelation(c, {"AMENDS", "REPLACES"})
    /\ \E u \in DOMAIN c.evidence : c.evidence[u]

-----------------------------------------------------------------------------
(* EvidenceCompactor *)

\* _authoritative_paths
PlanPaths(c) == IF c.intent = "multi_hop" THEN c.paths \cap c.sat ELSE c.paths

\* The candidates compaction starts from: those a composition plan assigns,
\* those on the satisfied path of a multi-hop plan, or all.
SourceUnits(c, ops, protected) ==
    IF ops # << >> THEN {u \in UnitsIn(c) : \E i \in DOMAIN ops : u \in DOMAIN ops[i]}
    ELSE IF c.intent = "multi_hop" THEN UnitsIn(c) \cap protected
    ELSE UnitsIn(c)

Key(u) == <<UnitInfo[u].doc, UnitInfo[u].family, UnitInfo[u].content>>

\* _deduplicate: the unprotected unit that stands for u, the first of the same
\* document, family and text; a unit on a kept path stands for itself.
Retained(c, src, protected, u) ==
    IF u \notin src \ protected THEN u
    ELSE First(c.rank, {v \in src \ protected : Key(v) = Key(u)})

Bundle(us, ps, subjects, versions, operand) ==
    [units |-> us, paths |-> ps, subjects |-> subjects, versions |-> versions,
     operand |-> operand]

\* Mutant: an operand is served by the best candidate of the merged context.
CompositionBundlesShared(c, cands, ops, stands) ==
    LET own == {u \in cands : c.evidence[u]}
    IN IF own = {} THEN {} ELSE {{Bundle({First(c.rank, own)}, {}, {}, {}, i) : i \in DOMAIN ops}}

\* _composition_bundles: one bundle set, with the first eligible unit of every
\* operand in the operand's own order; the plan names the units that stand for
\* those deduplicated.
CompositionBundles(c, cands, ops, stands) ==
    LET own(i) == {u \in DOMAIN ops[i] : stands[u] \in cands /\ c.evidence[stands[u]]}
    IN IF \E i \in DOMAIN ops : own(i) = {} THEN {}
       ELSE {{Bundle({stands[First(ops[i], own(i))]}, {}, {}, {}, i) : i \in DOMAIN ops}}

\* Mutant: a path is bundled with the citable units that survived.
PathBundlesPartial(ps, cands) ==
    {{Bundle(PathInfo[p].citable \cap cands, {p}, {}, {}, 0)} :
        p \in {q \in ps : PathInfo[q].citable \cap cands # {}}}

\* Paths whose citable units are two or more and all at hand.
PathBundles(ps, cands) ==
    {{Bundle(PathInfo[p].citable, {p}, {}, {}, 0)} :
        p \in {q \in ps : /\ Cardinality(PathInfo[q].citable) >= 2
                          /\ PathInfo[q].citable \subseteq cands}}

\* The version alternatives of a comparison: the first unit of every document
\* of a family with two documents, or the units of an amending path.
ComparisonBundles(c, ps, cands) ==
    LET first(f, d) == First(c.rank, {u \in cands : /\ UnitInfo[u].family = f
                                                    /\ UnitInfo[u].doc = d})
        docs(f) == {UnitInfo[u].doc : u \in {v \in cands : UnitInfo[v].family = f}}
        families == {f \in {UnitInfo[u].family : u \in cands} \ {None} :
                        Cardinality(docs(f)) >= 2}
        atHand(p) == PathInfo[p].citable \cap cands
    IN {{Bundle({first(f, d)}, {}, {}, {<<f, d>>}, 0) : d \in docs(f)} : f \in families}
       \cup {{Bundle(atHand(p), {p}, {}, {}, 0)} :
                p \in {q \in ps : /\ RelationsOf(q) \cap {"AMENDS", "REPLACES"} # {}
                                  /\ Cardinality(atHand(q)) >= 2}}

ValiditySubject(c, u) ==
    /\ c.evidence[u]
    /\ IF c.anchors # {} THEN u \in c.anchors /\ UnitInfo[u].from # NoDate
                         ELSE ValidOn(u, c.from)

\* _resolve_required_bundles: the alternative bundle sets, any one of which
\* supports the intent.
RequiredBundles(c, cands, ps, ops, stands) ==
    IF ops # << >> THEN CompositionBundles(c, cands, ops, stands)
    ELSE IF c.goal # None
    THEN PathBundles({p \in ps : ProvesGoal(p, c.goal, c.anchors)}, cands)
    ELSE CASE c.intent \in {"factual", "definition"} ->
                {{Bundle({u}, {}, {}, {}, 0)} : u \in {v \in cands : c.evidence[v]}}
           [] c.intent = "hierarchy" ->
                PathBundles({p \in ps : "CONTAINS" \in RelationsOf(p)}, cands)
           [] c.intent = "multi_hop" -> PathBundles(ps, cands)
           [] c.intent = "validity" ->
                {{Bundle({u}, {}, {u}, {}, 0)} :
                    u \in {v \in cands : ValiditySubject(c, v)}}
           [] c.intent = "comparison" -> ComparisonBundles(c, ps, cands)

Compact(c, ops) ==
    LET ps        == PlanPaths(c)
        protected == UNION {PathInfo[p].citable : p \in ps}
        src       == SourceUnits(c, ops, protected)
        stands    == [u \in Units |-> Retained(c, src, protected, u)]
        cands     == {u \in src : stands[u] = u}
    IN [cands |-> cands, paths |-> ps, ops |-> ops,
        required |-> RequiredBundles(c, cands, ps, ops, stands)]

-----------------------------------------------------------------------------
(* ContextProjector and ProjectedContextValidator *)

UnitsOf(bs) == UNION {b.units : b \in bs}
PathsOf(bs) == UNION {b.paths : b \in bs}
CostOf(us, ps) == MapThenSumSet(LAMBDA u : UnitInfo[u].cost, us)
                  + MapThenSumSet(LAMBDA p : PathInfo[p].cost, ps)

\* Rank of a bundle set: that of its best unit in the merged context.
SourceRank(c, bs) == c.rank[First(c.rank, UnitsOf(bs))]

Cheaper(c, a, b) ==
    LET cost(bs) == CostOf(UnitsOf(bs), PathsOf(bs))
    IN \/ SourceRank(c, a) < SourceRank(c, b)
       \/ SourceRank(c, a) = SourceRank(c, b) /\ cost(a) < cost(b)

\* The bundle sets the projector may admit: the first that fits in the order
\* of rank and cost; the hash that breaks a tie is left open.
Chosen(c, plan, budget) ==
    LET fits == {bs \in plan.required : CostOf(UnitsOf(bs), PathsOf(bs)) <= budget}
    IN {bs \in fits : \A other \in fits : ~Cheaper(c, other, bs)}

\* The other candidates in rank order, each kept when it fits with the required
\* units and those kept before it (one set: the condition decides rank by rank).
AddOptional(c, plan, bs, budget) ==
    {UnitsOf(bs) \cup more : more \in {us \in SUBSET (plan.cands \ UnitsOf(bs)) :
        \A u \in plan.cands \ UnitsOf(bs) :
            LET before == {v \in us : c.rank[v] < c.rank[u]}
            IN u \in us <=>
                  CostOf(UnitsOf(bs) \cup before \cup {u}, PathsOf(bs)) <= budget}}

Project(c, plan, budget) ==
    UNION {{[units |-> us, paths |-> PathsOf(bs), admitted |-> bs, budget |-> budget] :
              us \in AddOptional(c, plan, bs, budget)} : bs \in Chosen(c, plan, budget)}

NoProjection == [units |-> {}, paths |-> {}, admitted |-> {}, budget |-> 0]

\* ProjectedContextValidator.evaluate
ProjectedSufficient(c, plan, pr) ==
    /\ UnitsOf(pr.admitted) \subseteq pr.units
    /\ PathsOf(pr.admitted) \subseteq pr.paths
    /\ plan.ops # << >> => {b.operand : b \in pr.admitted} \ {0} = DOMAIN plan.ops
    /\ c.intent \in {"factual", "definition"} => pr.units # {}
    /\ c.intent = "hierarchy" => \E p \in pr.paths : "CONTAINS" \in RelationsOf(p)
    /\ c.intent = "multi_hop" => /\ pr.paths # {} /\ plan.required # {}
                                 /\ c.sat # {} /\ pr.paths \subseteq c.sat
    /\ c.intent = "validity" =>
         LET subjects == UNION {b.subjects : b \in pr.admitted}
         IN /\ c.from # NoDate /\ subjects # {}
            /\ \A u \in subjects : u \in pr.units /\ UnitInfo[u].from # NoDate
    /\ c.intent = "comparison" =>
         Cardinality(UNION {b.versions : b \in pr.admitted}) >= 2

-----------------------------------------------------------------------------
(* GroundingValidator *)

\* Mutant: the interval is checked on the date the model chose.
GroundedOnAnyDate(c, pr, x) ==
    /\ x.text = "fine" /\ x.cites \subseteq pr.units
    /\ c.goal # None => x.paths # {}
    /\ \A p \in x.paths : /\ p \in pr.paths
                          /\ c.goal # None => ProvesGoal(p, c.goal, c.anchors)
    /\ c.intent = "validity" => x.asserts # {}
    /\ x.linked
    /\ \A a \in x.asserts : a.subject \in pr.units /\ a.valid = ValidOn(a.subject, a.date)

\* validate_and_render accepts the candidate.  `text` abstracts the statement
\* texts and quotes: fine, a blank statement, or a quote that is not verbatim.
Grounded(c, pr, x) ==
    /\ x.text = "fine" /\ x.cites \subseteq pr.units
    /\ c.goal # None => x.paths # {}
    /\ \A p \in x.paths : /\ p \in pr.paths
                          /\ c.goal # None => ProvesGoal(p, c.goal, c.anchors)
    /\ c.intent = "validity" => x.asserts # {}
    /\ x.linked
    /\ \A a \in x.asserts : /\ c.from # NoDate /\ c.to = c.from /\ a.date = c.from
                            /\ a.subject \in pr.units
                            /\ a.valid = ValidOn(a.subject, a.date)

-----------------------------------------------------------------------------
(* The state machine of one answer request *)

Response(outcome, reason, x) == [outcome |-> outcome, reason |-> reason, answer |-> x]
NoAnswer == [text |-> "fine", cites |-> {}, paths |-> {}, asserts |-> {}, linked |-> TRUE]

\* A context no request has filled yet.
Unfilled == [intent |-> "factual", from |-> NoDate, to |-> NoDate, anchors |-> {},
             goal |-> None, rank |-> << >>, paths |-> {}, sat |-> {}, evidence |-> << >>]

Init == /\ phase = "start" /\ ctx = Unfilled /\ operands = << >>
        /\ proj = NoProjection /\ round = 0 /\ attempt = 0 /\ calls = 0
        /\ resp = Response(None, None, NoAnswer)

\* generate returns or raises: the turn is answered, refused, failed
\* (a typed error the service persists) or escapes the service's handler.
Finish(outcome, reason, x) ==
    /\ phase' = "done" /\ resp' = Response(outcome, reason, x)
    /\ UNCHANGED <<ctx, operands, proj, round, attempt>>

\* A query with a relation goal, or a service without a query processor,
\* is retrieved as it is.
RetrieveAtomic ==
    /\ phase = "start"
    /\ ctx' \in AtomicContexts
    /\ phase' = "retrieved"
    /\ UNCHANGED <<operands, proj, round, attempt, calls, resp>>

\* The query processor's subqueries are retrieved concurrently and merged;
\* only a query without a relation goal gets here.
RetrieveFanOut ==
    /\ phase = "start"
    /\ \E a, b \in SubqueryContexts, comparison \in BOOLEAN :
         /\ a.anchors = b.anchors
         /\ ctx' = Merge(a, b)
         /\ operands' = IF comparison THEN <<Operand(a), Operand(b)>> ELSE << >>
    /\ phase' = "retrieved"
    /\ UNCHANGED <<proj, round, attempt, calls, resp>>

\* One subquery fails; gather raises the first typed error.
RetrievalFails ==
    /\ phase = "start" /\ Finish("failed", "retrieval", NoAnswer) /\ UNCHANGED calls

\* A comparison plan with one subquery: AnswerCompositionPlan needs two
\* operands, and its ValidationError is no error the service catches.
ShortComparison ==
    /\ phase = "start" /\ Finish("escaped", "one_operand", NoAnswer) /\ UNCHANGED calls

InsufficientEvidence ==
    /\ phase = "retrieved" /\ ~Sufficient(ctx)
    /\ Finish("cannot", "evidence", NoAnswer) /\ UNCHANGED calls

\* EvidenceValidator refuses a malformed unit or path.
ContractViolated ==
    /\ phase = "retrieved" /\ Sufficient(ctx)
    /\ Finish("failed", "contract", NoAnswer) /\ UNCHANGED calls

\* No bundle set is complete, none fits, the fixed overhead leaves nothing, or
\* the projected context no longer supports the intent.
ProjectionRefused ==
    /\ phase = "retrieved" /\ Sufficient(ctx)
    /\ \E budget \in Budgets :
         LET plan == Compact(ctx, operands)
             prs  == Project(ctx, plan, budget)
         IN \/ budget = 0 /\ Finish("failed", "budget", NoAnswer)
            \/ /\ budget > 0
               /\ prs = {} \/ \E pr \in prs : ~ProjectedSufficient(ctx, plan, pr)
               /\ Finish("cannot", "evidence", NoAnswer)
    /\ UNCHANGED calls

CallProvider ==
    /\ phase = "retrieved" /\ Sufficient(ctx)
    /\ \E budget \in Budgets \ {0} :
         LET plan == Compact(ctx, operands)
         IN \E pr \in Project(ctx, plan, budget) :
              ProjectedSufficient(ctx, plan, pr) /\ proj' = pr
    /\ phase' = "calling" /\ round' = 1
    /\ UNCHANGED <<ctx, operands, attempt, calls, resp>>

\* A provider error of the first candidate is the turn's; one of the repair
\* degrades to a refusal.
ProviderError ==
    IF round = 1 THEN Finish("failed", "provider", NoAnswer)
                 ELSE Finish("cannot", "repair", NoAnswer)

\* The deadline covers the wait for capacity, every attempt and the backoff;
\* it may cut an attempt that was already sent.
Timeout == phase = "calling" /\ ProviderError /\ calls' \in {calls, calls + 1}

\* The provider was closed before this call entered it.
ProviderClosed ==
    phase = "calling" /\ attempt = 0 /\ ProviderError /\ UNCHANGED calls

\* Mutant: the SDK's own retry stays on underneath.
TransientFailureTwice ==
    /\ phase = "calling" /\ calls' = calls + 2
    /\ \/ attempt < MaxRetries /\ attempt' = attempt + 1
          /\ UNCHANGED <<phase, ctx, operands, proj, round, resp>>
       \/ attempt = MaxRetries /\ ProviderError

\* A transient failure is retried MaxRetries times.
TransientFailure ==
    /\ phase = "calling" /\ calls' = calls + 1
    /\ \/ attempt < MaxRetries /\ attempt' = attempt + 1
          /\ UNCHANGED <<phase, ctx, operands, proj, round, resp>>
       \/ attempt = MaxRetries /\ ProviderError

\* A permanent API error, or output that is empty or violates the schema.
PermanentFailure == phase = "calling" /\ calls' = calls + 1 /\ ProviderError

\* The model says it cannot answer.
ModelDeclines ==
    /\ phase = "calling" /\ calls' = calls + 1 /\ Finish("cannot", "model", NoAnswer)

AcceptCandidate ==
    /\ phase = "calling" /\ calls' = calls + 1
    /\ \E x \in Candidates : Grounded(ctx, proj, x) /\ Finish("answered", None, x)

\* An ungrounded first candidate gets one repair call, a second one fails.
RejectCandidate ==
    /\ phase = "calling" /\ calls' = calls + 1
    /\ {x \in Candidates : ~Grounded(ctx, proj, x)} # {}
    /\ \/ /\ round = 1 /\ round' = 2 /\ attempt' = 0
          /\ UNCHANGED <<phase, ctx, operands, proj, resp>>
       \/ round = 2 /\ Finish("failed", "grounding", NoAnswer)

Done == phase = "done" /\ UNCHANGED vars

Retrieve == RetrieveAtomic \/ RetrieveFanOut \/ RetrievalFails \/ ShortComparison

Generate == \/ InsufficientEvidence \/ ContractViolated \/ ProjectionRefused \/ CallProvider
            \/ Timeout \/ ProviderClosed \/ TransientFailure \/ PermanentFailure
            \/ ModelDeclines \/ AcceptCandidate \/ RejectCandidate

Next == Retrieve \/ Generate \/ Done

Spec == Init /\ [][Next]_vars

-----------------------------------------------------------------------------
(* Properties *)

\* The output schema can say what an answer needs: cite a unit, with a path or with
\* an assertion of its validity on the day of the question.
Expressive ==
    \A u \in Units :
        LET said(ps, as) == [text |-> "fine", cites |-> {u}, paths |-> ps,
                             asserts |-> as, linked |-> TRUE]
        IN /\ said({}, {}) \in Candidates
           /\ \A p \in Paths : said({p}, {}) \in Candidates
           /\ \A v \in BOOLEAN, day \in {q[1] : q \in {r \in Periods("validity") :
                                                          r[1] = r[2]}} :
                 said({}, {[subject |-> u, date |-> day, valid |-> v]}) \in Candidates

\* A paid call always has a way to succeed: whenever the provider is asked,
\* some schema-valid candidate passes the grounding validator for the context
\* that was projected.  Sufficiency, compaction, projection and grounding are
\* four separate pieces of code; this says they agree on every intent.
NoDeadEnd ==
    phase = "calling" => \E x \in Candidates : Grounded(ctx, proj, x)

\* What the projector cut away never leaves an argument half-supported: a path
\* shown to the model comes with every unit it passes through, an atomic
\* comparison with two documents of one version family, and the whole context
\* stays inside the evidence budget although units are added greedily.
ProjectionIsComplete ==
    phase = "calling" =>
        /\ \A p \in proj.paths : PathInfo[p].citable \subseteq proj.units
        /\ ctx.intent = "comparison" => FamilyVerified(proj.units)
        /\ CostOf(proj.units, proj.paths) <= proj.budget

\* Deduplication, merging and the budget never drop a side of a comparison:
\* every operand has a unit of its own retrieval, or one of the same document,
\* family and text, in front of the model.
OperandCovered ==
    phase = "calling" =>
        \A i \in DOMAIN operands :
            \E u \in DOMAIN operands[i], v \in proj.units : Key(u) = Key(v)

\* One request pays for at most two candidates with their retries, and nothing
\* when the evidence, its contract or the budget refuses it.
ProviderBudget ==
    /\ calls <= 2 * (MaxRetries + 1)
    /\ resp.reason \in {"retrieval", "one_operand", "evidence", "contract", "budget"}
           => calls = 0

\* An answer that leaves the generator is supported by what was retrieved, end
\* to end: it cites retrieved units only, its validity statements are true of
\* their unit on the one date the question was resolved to, a relation answer
\* shows a retrieved path that leaves an anchor by the relation, and a
\* multi-hop path is one the bound plan was satisfied by.
AnswerIsSupported ==
    resp.outcome = "answered" =>
        LET x == resp.answer
        IN /\ x.cites \subseteq UnitsIn(ctx)
           /\ \A a \in x.asserts : /\ a.date = ctx.from /\ ctx.from = ctx.to
                                   /\ a.valid <=> ValidOn(a.subject, ctx.from)
           /\ ctx.intent = "validity" => x.asserts # {}
           /\ x.paths \subseteq ctx.paths
           /\ ctx.goal # None => \E p \in x.paths : ProvesGoal(p, ctx.goal, ctx.anchors)
           /\ ctx.intent = "multi_hop" => x.paths \subseteq ctx.sat

=============================================================================
