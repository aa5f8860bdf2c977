----------------------- MODULE AnswerGenerationProofs -----------------------
(***************************************************************************)
(* One answer request, for every evidence universe, every retrieval, every *)
(* set of model outputs and every MaxRetries.                              *)
(*                                                                         *)
(* ProviderBudget is not inductive: it does not say how far the running    *)
(* call has come.  IInv does: while the provider is called, the attempts   *)
(* of the running call are counted by `attempt` and those of the first     *)
(* call are at most MaxRetries + 1.                                        *)
(*                                                                         *)
(* The evidence properties rest on EInv: a retrieved context is one the    *)
(* runtime or the merge can build (ContextOK, OperandsOK), and what the    *)
(* provider is given supports the question (Supported).  Supported follows *)
(* from what every required bundle set guarantees on its own (BundleSetOK, *)
(* one lemma per kind of bundle) and from the greedy fill: the last unit   *)
(* it kept was checked against everything kept before it.                  *)
(*                                                                         *)
(* The last section is about the runner that carries the request's         *)
(* retrieval calls (RetrievalRunner).                                      *)
(***************************************************************************)
EXTENDS AnswerGeneration, RetrievalRunner, FiniteSetTheorems, WellFoundedInduction,
        TLAPS

Unpaid == {"retrieval", "one_operand", "evidence", "contract", "budget"}

IInv ==
    /\ phase \in {"start", "retrieved", "calling", "done"}
    /\ calls \in Nat /\ attempt \in 0..MaxRetries /\ round \in 0..2
    /\ phase \in {"start", "retrieved"} => calls = 0 /\ attempt = 0 /\ round = 0
    /\ phase = "calling" => /\ round \in {1, 2}
                            /\ round = 1 => calls = attempt
                            /\ round = 2 => calls <= (MaxRetries + 1) + attempt
    /\ phase # "done" => resp.reason = None
    /\ calls <= 2 * (MaxRetries + 1)
    /\ resp.reason \in Unpaid => calls = 0

LEMMA RetriesType == MaxRetries \in Nat
BY ShapeAssumption

\* The budget invariant holds initially.
LEMMA InitBudget == Init => IInv
BY RetriesType DEF Init, IInv, Response, NoAnswer, None, Unpaid

\* A step that ends a call with a provider error keeps the invariant.
LEMMA ErrorStep ==
    ASSUME IInv, phase = "calling", ProviderError,
           calls' \in {calls, calls + 1}
    PROVE  IInv'
<1>1. resp'.reason \in {"provider", "repair"} /\ phase' = "done"
      /\ UNCHANGED <<round, attempt>>
  BY DEF ProviderError, Finish, Response
<1>2. calls' \in Nat /\ calls' <= 2 * (MaxRetries + 1)
  BY RetriesType DEF IInv
<1> QED
  BY <1>1, <1>2 DEF IInv, Unpaid

\* Every step of Next keeps the invariant, one case per action.
LEMMA NextBudget == IInv /\ [Next]_vars => IInv'
<1> SUFFICES ASSUME IInv, [Next]_vars PROVE IInv'
  OBVIOUS
<1> USE RetriesType
<1>1. CASE RetrieveAtomic
  BY <1>1 DEF RetrieveAtomic, IInv
<1>2. CASE RetrieveFanOut
  BY <1>2 DEF RetrieveFanOut, IInv
<1>3. CASE RetrievalFails \/ ShortComparison
  BY <1>3 DEF RetrievalFails, ShortComparison, Finish, IInv
<1>4. CASE InsufficientEvidence \/ ContractViolated
  BY <1>4 DEF InsufficientEvidence, ContractViolated, Finish, IInv
<1>5. CASE ProjectionRefused
  <2>1. phase = "retrieved" /\ phase' = "done" /\ UNCHANGED <<calls, round, attempt>>
    BY <1>5 DEF ProjectionRefused, Finish
  <2> QED BY <2>1 DEF IInv
<1>6. CASE CallProvider
  <2>1. /\ phase = "retrieved" /\ phase' = "calling" /\ round' = 1
        /\ UNCHANGED <<calls, attempt, resp>>
    BY <1>6 DEF CallProvider
  <2> QED BY <2>1 DEF IInv
<1>7. CASE Timeout \/ ProviderClosed \/ PermanentFailure
  <2>1. phase = "calling" /\ ProviderError /\ calls' \in {calls, calls + 1}
    BY <1>7 DEF Timeout, ProviderClosed, PermanentFailure
  <2> QED BY <2>1, ErrorStep
<1>8. CASE TransientFailure
  <2>1. CASE attempt = MaxRetries /\ ProviderError
    BY <1>8, <2>1, ErrorStep DEF TransientFailure
  <2>2. CASE /\ attempt < MaxRetries /\ attempt' = attempt + 1
             /\ UNCHANGED <<phase, ctx, operands, proj, round, resp>>
    <3>1. phase = "calling" /\ calls' = calls + 1
      BY <1>8 DEF TransientFailure
    <3>2. None \notin Unpaid
      BY DEF None, Unpaid
    <3> QED BY <3>1, <3>2, <2>2 DEF IInv
  <2> QED BY <1>8, <2>1, <2>2 DEF TransientFailure
<1>9. CASE ModelDeclines
  <2>1. /\ phase = "calling" /\ calls' = calls + 1 /\ phase' = "done"
        /\ resp'.reason = "model" /\ UNCHANGED <<round, attempt>>
    BY <1>9 DEF ModelDeclines, Finish, Response
  <2> QED BY <2>1 DEF IInv, Unpaid
<1>10. CASE AcceptCandidate
  <2>1. /\ phase = "calling" /\ calls' = calls + 1 /\ phase' = "done"
        /\ resp'.reason = None /\ UNCHANGED <<round, attempt>>
    BY <1>10 DEF AcceptCandidate, Finish, Response
  <2> QED BY <2>1 DEF IInv, Unpaid, None
<1>11. CASE RejectCandidate
  <2>0. phase = "calling" /\ calls' = calls + 1
    BY <1>11 DEF RejectCandidate
  <2>1. CASE /\ round = 1 /\ round' = 2 /\ attempt' = 0
             /\ UNCHANGED <<phase, ctx, operands, proj, resp>>
    BY <2>0, <2>1 DEF IInv, Unpaid, None
  <2>2. CASE round = 2 /\ Finish("failed", "grounding", NoAnswer)
    <3>1. phase' = "done" /\ resp'.reason = "grounding" /\ UNCHANGED <<round, attempt>>
      BY <2>2 DEF Finish, Response
    <3> QED BY <2>0, <2>2, <3>1 DEF IInv, Unpaid
  <2> QED BY <1>11, <2>1, <2>2 DEF RejectCandidate
<1>12. CASE UNCHANGED vars
  BY <1>12 DEF vars, IInv
<1> QED
  BY <1>1, <1>2, <1>3, <1>4, <1>5, <1>6, <1>7, <1>8, <1>9, <1>10, <1>11, <1>12
     DEF Next, Retrieve, Generate, Done

\* One answer request pays the model provider for at most two candidates with
\* MaxRetries retries each, and for nothing when retrieval, the evidence, its
\* contract or the context budget refuses it (generation/service.py,
\* gemini_answer_provider.py), whatever is retrieved and whatever is answered.
THEOREM ProviderBudgetCorrect == Spec => []ProviderBudget
<1>1. IInv => ProviderBudget
  BY DEF IInv, ProviderBudget, Unpaid
<1> QED
  BY <1>1, InitBudget, NextBudget, PTL DEF Spec

-----------------------------------------------------------------------------
(* Ranks.                                                                  *)

\* A non-empty set of numbers has a least one.
LEMMA LeastNat ==
    ASSUME NEW S, S \subseteq Nat, S # {}
    PROVE  \E n \in S : \A m \in S : n <= m
<1> DEFINE R == OpToRel(<, Nat)
<1>1. IsWellFoundedOn(R, Nat)
  BY NatLessThanWellFounded
<1>2. PICK n \in S : \A m \in S : ~(<<m, n>> \in R)
  <2> HIDE DEF R
  <2> QED BY <1>1, WFMin, Zenon
<1>3. \A m \in S : <<m, n>> \in R <=> m < n
  BY SMT DEF OpToRel
<1> HIDE DEF R
<1>4. \A m \in S : ~(m < n)
  BY <1>2, <1>3, Zenon
<1>5. \A m \in S : n <= m
  BY <1>4, SMT
<1> QED BY <1>5

\* The best-ranked of some units is one of them.
LEMMA FirstIsOne ==
    ASSUME NEW rank, NEW us, us # {}, \A u \in us : rank[u] \in Nat
    PROVE  First(rank, us) \in us
<1> DEFINE places == {rank[u] : u \in us}
<1>1. places \subseteq Nat /\ places # {}
  OBVIOUS
<1>2. PICK n \in places : \A m \in places : n <= m
  BY <1>1, LeastNat
<1>3. PICK u \in us : n = rank[u]
  OBVIOUS
<1>4. \A v \in us : rank[u] <= rank[v]
  BY <1>2, <1>3
<1> QED
  BY <1>4, Zenon DEF First

\* A ranked list: units with places of their own.
Ranking(r, bound) ==
    /\ DOMAIN r \subseteq Units
    /\ \A u \in DOMAIN r : r[u] \in 1..bound
    /\ \A u, v \in DOMAIN r : r[u] = r[v] => u = v

LEMMA RankedIsRanking ==
    ASSUME NEW r \in RankedUnits
    PROVE  Ranking(r, MaxUnits)
<1>1. PICK us \in SUBSET Units :
        /\ Cardinality(us) <= MaxUnits /\ r \in [us -> 1..Cardinality(us)]
        /\ \A u, v \in us : r[u] = r[v] => u = v
  BY DEF RankedUnits
<1>2. Cardinality(us) \in Nat /\ MaxUnits \in Nat
  BY FS_Subset, FS_CardinalityType, ShapeAssumption
<1>3. \A u \in us : r[u] \in 1..MaxUnits
  BY <1>1, <1>2
<1> QED
  BY <1>1, <1>3 DEF Ranking

LEMMA MergedRanking ==
    ASSUME NEW a, NEW b, Ranking(a, MaxUnits), Ranking(b, MaxUnits)
    PROVE  /\ Ranking(MergeRank(a, b), 2 * MaxUnits)
           /\ DOMAIN MergeRank(a, b) = DOMAIN a \cup DOMAIN b
<1>1. MaxUnits \in Nat
  BY ShapeAssumption
<1>2. DOMAIN MergeRank(a, b) = DOMAIN a \cup DOMAIN b
  BY DEF MergeRank
<1>3. ASSUME NEW u \in DOMAIN a \cup DOMAIN b
      PROVE  MergeRank(a, b)[u] = IF u \in DOMAIN a THEN a[u] ELSE MaxUnits + b[u]
  BY DEF MergeRank
<1>4. \A u \in DOMAIN a : a[u] \in 1..MaxUnits
  BY DEF Ranking
<1>5. \A u \in DOMAIN b : b[u] \in 1..MaxUnits
  BY DEF Ranking
<1>6. \A u \in DOMAIN a \cup DOMAIN b : MergeRank(a, b)[u] \in 1..(2 * MaxUnits)
  BY <1>1, <1>3, <1>4, <1>5
<1>7. ASSUME NEW u \in DOMAIN a \cup DOMAIN b, NEW v \in DOMAIN a \cup DOMAIN b,
             MergeRank(a, b)[u] = MergeRank(a, b)[v]
      PROVE  u = v
  <2>1. CASE u \in DOMAIN a /\ v \in DOMAIN a
    BY <2>1, <1>3, <1>7 DEF Ranking
  <2>2. CASE u \in DOMAIN a /\ v \notin DOMAIN a
    BY <2>2, <1>1, <1>3, <1>4, <1>5, <1>7
  <2>3. CASE u \notin DOMAIN a /\ v \in DOMAIN a
    BY <2>3, <1>1, <1>3, <1>4, <1>5, <1>7
  <2>4. CASE u \notin DOMAIN a /\ v \notin DOMAIN a
    <3>1. u \in DOMAIN b /\ v \in DOMAIN b
      BY <2>4
    <3>2. b[u] = b[v]
      BY <3>1, <2>4, <1>1, <1>3, <1>5, <1>7
    <3> QED
      BY <3>1, <3>2 DEF Ranking
  <2> QED
    BY <2>1, <2>2, <2>3, <2>4
<1> QED
  BY <1>2, <1>6, <1>7 DEF Ranking

\* Every non-empty set of ranked units has a last one.
LEMMA LastOfRanked ==
    ASSUME NEW r, NEW n \in Nat, Ranking(r, n), NEW us, us \subseteq DOMAIN r, us # {}
    PROVE  \E u \in us : \A v \in us : v # u => r[v] < r[u]
<1> DEFINE S == {n - r[u] : u \in us}
<1>1. \A u \in us : r[u] \in 1..n
  BY DEF Ranking
<1>2. S \subseteq Nat /\ S # {}
  BY <1>1
<1>3. PICK k \in S : \A m \in S : k <= m
  BY <1>2, LeastNat
<1>4. PICK u \in us : k = n - r[u]
  OBVIOUS
<1>5. \A v \in us : n - r[u] <= n - r[v]
  BY <1>3, <1>4
<1>6. \A v \in us : r[v] <= r[u]
  BY <1>1, <1>5
<1>7. \A v \in us : r[v] = r[u] => v = u
  BY DEF Ranking
<1> QED
  BY <1>1, <1>6, <1>7

-----------------------------------------------------------------------------
(* What retrieval hands over.                                              *)

\* A context: its places are those of its units, its paths are paths, and a
\* relation goal is one of its intent.
ContextOK(c, bound) ==
    /\ Ranking(c.rank, bound)
    /\ c.paths \subseteq Paths
    /\ c.intent \in Intents
    /\ c.goal # None => c.goal = "REFERS_TO" /\ "REFERS_TO" \in PolicyOf(c.intent)
    /\ c.intent = "validity" => <<c.from, c.to>> \in Periods("validity")

\* A context written out with all its fields.
IsContext(c) ==
    c = [intent |-> c.intent, from |-> c.from, to |-> c.to, anchors |-> c.anchors,
         goal |-> c.goal, rank |-> c.rank, paths |-> c.paths, sat |-> c.sat,
         evidence |-> c.evidence]

LEMMA ContextFacts ==
    ASSUME NEW intent, NEW period, NEW anchors, NEW goal,
           NEW c \in Contexts(intent, period, anchors, goal)
    PROVE  /\ IsContext(c) /\ Ranking(c.rank, MaxUnits) /\ c.paths \subseteq Paths
           /\ c.intent = intent /\ c.from = period[1] /\ c.to = period[2]
           /\ c.goal = goal
<1> DEFINE relations == IF goal = None THEN PolicyOf(intent) ELSE {goal}
           traversed == {p \in Paths : RelationsOf(p) \subseteq relations}
<1>1. PICK found \in [rank : RankedUnits, followed : SUBSET traversed,
                      sat : SatisfiedPaths(intent)] :
        c = Context(intent, period, anchors, goal, found)
  BY Zenon DEF Contexts
<1>2. found.rank \in RankedUnits /\ found.followed \subseteq Paths
  BY <1>1
<1>3. found.sat \subseteq Paths
  <2>1. found.sat \in SatisfiedPaths(intent)
    BY <1>1
  <2> QED
    BY <2>1 DEF SatisfiedPaths
<1>4. PICK paths, e : paths = found.followed \cup found.sat /\ e = Evidence(DOMAIN found.rank, paths)
  OBVIOUS
<1>5. c = [intent |-> intent, from |-> period[1], to |-> period[2], anchors |-> anchors,
           goal |-> goal, rank |-> found.rank, paths |-> paths, sat |-> found.sat,
           evidence |-> e]
  BY <1>1, <1>4, Zenon DEF Context
<1>6. /\ IsContext(c) /\ c.rank = found.rank /\ c.paths = paths
      /\ c.intent = intent /\ c.from = period[1] /\ c.to = period[2]
      /\ c.goal = goal
  BY <1>5 DEF IsContext
<1>7. c.paths \subseteq Paths
  BY <1>2, <1>3, <1>4, <1>6
<1> QED
  BY <1>2, <1>6, <1>7, RankedIsRanking, Zenon

LEMMA AtomicFacts ==
    ASSUME NEW c \in AtomicContexts
    PROVE  IsContext(c) /\ ContextOK(c, MaxUnits)
<1>1. PICK q \in [intent : Intents, period : UNION {Periods(i) : i \in Intents},
                  anchors : Anchors, goal : {None, "REFERS_TO"}] :
        /\ q.period \in Periods(q.intent)
        /\ q.goal # None => q.anchors # {} /\ q.goal \in PolicyOf(q.intent)
        /\ c \in Contexts(q.intent, q.period, q.anchors, q.goal)
  BY Zenon DEF AtomicContexts
<1>2. q.intent \in Intents /\ q.goal \in {None, "REFERS_TO"}
  BY <1>1
<1>3. /\ IsContext(c) /\ Ranking(c.rank, MaxUnits) /\ c.paths \subseteq Paths
      /\ c.intent = q.intent /\ c.from = q.period[1] /\ c.to = q.period[2]
      /\ c.goal = q.goal
  <2>1. PICK i, d, a, g : i = q.intent /\ d = q.period /\ a = q.anchors /\ g = q.goal
    OBVIOUS
  <2>2. c \in Contexts(i, d, a, g)
    BY <1>1, <2>1, Zenon
  <2>3. /\ IsContext(c) /\ Ranking(c.rank, MaxUnits) /\ c.paths \subseteq Paths
        /\ c.intent = i /\ c.from = d[1] /\ c.to = d[2] /\ c.goal = g
    BY <2>2, ContextFacts
  <2> QED
    BY <2>1, <2>3
<1>4. c.intent = "validity" => <<c.from, c.to>> \in Periods("validity")
  <2> SUFFICES ASSUME c.intent = "validity" PROVE <<c.from, c.to>> \in Periods("validity")
    OBVIOUS
  <2>1. q.period \in Periods("validity")
    BY <1>1, <1>3
  <2>2. q.period \in {<<2, 2>>, <<1, 3>>}
    BY <2>1 DEF Periods
  <2>3. <<c.from, c.to>> = q.period
    BY <1>3, <2>2
  <2> QED
    BY <2>1, <2>3
<1>5. c.goal # None => c.goal = "REFERS_TO" /\ "REFERS_TO" \in PolicyOf(c.intent)
  <2>1. q.goal # None => q.goal = "REFERS_TO"
    BY <1>2
  <2> QED
    BY <1>1, <1>3, <2>1, Zenon
<1> QED
  BY <1>2, <1>3, <1>4, <1>5, Zenon DEF ContextOK

\* The plan's operands are ranked units of the context.
OperandsOK(c, ops) ==
    /\ \A i \in DOMAIN ops : /\ DOMAIN ops[i] \subseteq UnitsIn(c)
                             /\ \A u \in DOMAIN ops[i] : ops[i][u] \in Nat
    /\ ops # << >> => DOMAIN ops = {1, 2} /\ c.goal = None /\ c.intent \in SubqueryIntents

LEMMA AtomicRetrieved ==
    ASSUME NEW c \in AtomicContexts
    PROVE  ContextOK(c, 2 * MaxUnits) /\ OperandsOK(c, << >>)
<1>1. ContextOK(c, MaxUnits)
  BY AtomicFacts
<1>2. Ranking(c.rank, 2 * MaxUnits)
  BY <1>1, ShapeAssumption DEF ContextOK, Ranking
<1> QED
  BY <1>1, <1>2 DEF ContextOK, OperandsOK

LEMMA MergeFacts ==
    ASSUME NEW a \in SubqueryContexts, NEW b \in SubqueryContexts,
           NEW ops, ops = << >> \/ ops = <<Operand(a), Operand(b)>>
    PROVE  ContextOK(Merge(a, b), 2 * MaxUnits) /\ OperandsOK(Merge(a, b), ops)
<1>1. /\ IsContext(a) /\ ContextOK(a, MaxUnits) /\ ContextOK(b, MaxUnits)
      /\ a.intent \in SubqueryIntents /\ a.goal = None
  BY AtomicFacts DEF SubqueryContexts
<1>2. PICK r : r = MergeRank(a.rank, b.rank)
  OBVIOUS
<1>3. PICK e : e = MergeEvidence(a.evidence, b.evidence)
  OBVIOUS
<1>4. PICK c : c = Merge(a, b)
  OBVIOUS
<1>5. c = [a EXCEPT !.rank = r, !.paths = a.paths \cup b.paths, !.evidence = e]
  BY <1>2, <1>3, <1>4, Zenon DEF Merge
<1>6. /\ c.rank = r /\ c.paths = a.paths \cup b.paths /\ c.intent = a.intent
      /\ c.goal = a.goal /\ c.from = a.from /\ c.to = a.to
  BY <1>1, <1>5 DEF IsContext
<1>7. Ranking(r, 2 * MaxUnits) /\ DOMAIN r = DOMAIN a.rank \cup DOMAIN b.rank
  BY <1>1, <1>2, MergedRanking DEF ContextOK
<1>8. ContextOK(c, 2 * MaxUnits)
  BY <1>1, <1>6, <1>7 DEF ContextOK
<1>9. ASSUME NEW x, ContextOK(x, MaxUnits)
      PROVE  /\ DOMAIN Operand(x) \subseteq DOMAIN x.rank
             /\ \A u \in DOMAIN Operand(x) : Operand(x)[u] \in Nat
  BY <1>9 DEF Operand, UnitsIn, ContextOK, Ranking
<1>10. OperandsOK(c, ops)
  <2>1. CASE ops = << >>
    BY <2>1 DEF OperandsOK
  <2>2. CASE ops = <<Operand(a), Operand(b)>>
    <3>1. DOMAIN ops = {1, 2} /\ ops[1] = Operand(a) /\ ops[2] = Operand(b)
      BY <2>2
    <3>2. /\ DOMAIN Operand(a) \subseteq UnitsIn(c)
          /\ DOMAIN Operand(b) \subseteq UnitsIn(c)
      BY <1>1, <1>6, <1>7, <1>9 DEF UnitsIn
    <3>3. \A i \in DOMAIN ops : /\ DOMAIN ops[i] \subseteq UnitsIn(c)
                                /\ \A u \in DOMAIN ops[i] : ops[i][u] \in Nat
      BY <3>1, <3>2, <1>1, <1>9
    <3> QED
      BY <3>3, <1>1, <1>6 DEF OperandsOK
  <2> QED
    BY <2>1, <2>2
<1> QED
  BY <1>4, <1>8, <1>10

-----------------------------------------------------------------------------
(* Required bundle sets.                                                   *)

\* A set of two or more has two different elements; one of one or more is not
\* empty.
LEMMA TwoOf ==
    ASSUME NEW S, Cardinality(S) >= 2
    PROVE  \E x, y \in S : x # y
<1> SUFFICES ASSUME ~ \E x, y \in S : x # y PROVE FALSE
  OBVIOUS
<1>1. CASE S = {}
  <2>1. Cardinality(S) = 0
    BY <1>1, FS_EmptySet, Zenon
  <2> QED
    BY <2>1
<1>2. CASE S # {}
  <2>1. PICK x : x \in S
    BY <1>2
  <2>2. S = {x}
    BY <2>1
  <2>3. Cardinality(S) = 1
    BY <2>2, FS_Singleton, Zenon
  <2> QED
    BY <2>3
<1> QED
  BY <1>1, <1>2

SubjectsOf(bs) == UNION {b.subjects : b \in bs}
VersionsOf(bs) == UNION {b.versions : b \in bs}

LEMMA BundleFields ==
    ASSUME NEW us, NEW ps, NEW subjects, NEW versions, NEW operand
    PROVE  /\ Bundle(us, ps, subjects, versions, operand).units = us
           /\ Bundle(us, ps, subjects, versions, operand).paths = ps
           /\ Bundle(us, ps, subjects, versions, operand).versions = versions
BY DEF Bundle

LEMMA OneBundle ==
    ASSUME NEW us, NEW ps, NEW subjects, NEW versions, NEW operand,
           NEW bs, bs = {Bundle(us, ps, subjects, versions, operand)}
    PROVE  UnitsOf(bs) = us /\ PathsOf(bs) = ps /\ VersionsOf(bs) = versions
<1>1. PICK b : b = Bundle(us, ps, subjects, versions, operand)
  OBVIOUS
<1>2. b.units = us /\ b.paths = ps /\ b.versions = versions
  BY <1>1, BundleFields
<1>3. bs = {b}
  BY <1>1
<1>4. /\ {x.units : x \in bs} = {us} /\ {x.paths : x \in bs} = {ps}
      /\ {x.versions : x \in bs} = {versions}
  BY <1>2, <1>3
<1>5. UNION {us} = us /\ UNION {ps} = ps /\ UNION {versions} = versions
  OBVIOUS
<1> QED
  BY <1>4, <1>5, Zenon DEF UnitsOf, PathsOf, VersionsOf

\* What a required bundle set guarantees on its own: it is made of candidates
\* and of paths of the plan, a path comes with its citable units (only the
\* amending paths of a comparison may lack some, and those carry no version),
\* it proves the goal, it holds two versions when it claims two, and it serves
\* every operand.
BundleSetOK(c, cands, ps, ops, bs) ==
    /\ UnitsOf(bs) \subseteq cands /\ UnitsOf(bs) # {}
    /\ PathsOf(bs) \subseteq ps
    /\ \/ \A p \in PathsOf(bs) : PathInfo[p].citable \subseteq UnitsOf(bs)
       \/ c.intent = "comparison" /\ VersionsOf(bs) = {}
    /\ c.goal # None => \E p \in PathsOf(bs) : ProvesGoal(p, c.goal, c.anchors)
    /\ VersionsOf(bs) # {} => FamilyVerified(UnitsOf(bs))
    /\ \A i \in DOMAIN ops :
          \E u \in DOMAIN ops[i], v \in UnitsOf(bs) : Key(u) = Key(v)

\* One unit on its own.
LEMMA UnitBundle ==
    ASSUME NEW c, NEW cands, NEW ps, NEW u \in cands, NEW subjects, c.goal = None
    PROVE  BundleSetOK(c, cands, ps, << >>, {Bundle({u}, {}, subjects, {}, 0)})
<1>1. PICK bs : bs = {Bundle({u}, {}, subjects, {}, 0)}
  OBVIOUS
<1>2. UnitsOf(bs) = {u} /\ PathsOf(bs) = {} /\ VersionsOf(bs) = {}
  BY <1>1, OneBundle
<1>3. BundleSetOK(c, cands, ps, << >>, bs)
  BY <1>2 DEF BundleSetOK
<1> QED
  BY <1>1, <1>3, Zenon

\* A path with all of its units.
LEMMA PathBundle ==
    ASSUME NEW c, NEW cands, NEW ps, NEW qs \in SUBSET ps,
           c.goal # None => \A p \in qs : ProvesGoal(p, c.goal, c.anchors),
           NEW bs \in PathBundles(qs, cands)
    PROVE  BundleSetOK(c, cands, ps, << >>, bs)
<1>1. PICK p \in qs : /\ Cardinality(PathInfo[p].citable) >= 2
                      /\ PathInfo[p].citable \subseteq cands
                      /\ bs = {Bundle(PathInfo[p].citable, {p}, {}, {}, 0)}
  BY DEF PathBundles
<1>2. /\ UnitsOf(bs) = PathInfo[p].citable /\ PathsOf(bs) = {p} /\ VersionsOf(bs) = {}
  BY <1>1, OneBundle
<1>3. PathInfo[p].citable # {}
  BY <1>1, TwoOf
<1> QED
  BY <1>1, <1>2, <1>3 DEF BundleSetOK

\* The versions of a family, or an amending path.
LEMMA ComparisonBundle ==
    ASSUME NEW c, NEW cands, NEW ps, c.goal = None, c.intent = "comparison",
           \A u \in cands : c.rank[u] \in Nat,
           NEW bs \in ComparisonBundles(c, ps, cands)
    PROVE  BundleSetOK(c, cands, ps, << >>, bs)
<1> DEFINE mine(f, d) == {u \in cands : UnitInfo[u].family = f /\ UnitInfo[u].doc = d}
           first(f, d) == First(c.rank, mine(f, d))
           docs(f) == {UnitInfo[u].doc : u \in {v \in cands : UnitInfo[v].family = f}}
           families == {f \in {UnitInfo[u].family : u \in cands} \ {None} :
                           Cardinality(docs(f)) >= 2}
           atHand(p) == PathInfo[p].citable \cap cands
<1>1. \/ \E f \in families : bs = {Bundle({first(f, d)}, {}, {}, {<<f, d>>}, 0) : d \in docs(f)}
      \/ \E p \in ps : Cardinality(atHand(p)) >= 2 /\ bs = {Bundle(atHand(p), {p}, {}, {}, 0)}
  BY DEF ComparisonBundles
<1>2. ASSUME NEW f \in families,
             bs = {Bundle({first(f, d)}, {}, {}, {<<f, d>>}, 0) : d \in docs(f)}
      PROVE  BundleSetOK(c, cands, ps, << >>, bs)
  <2>1. ASSUME NEW d \in docs(f)
        PROVE  first(f, d) \in mine(f, d)
    <3>1. mine(f, d) # {}
      OBVIOUS
    <3>2. \A u \in mine(f, d) : c.rank[u] \in Nat
      OBVIOUS
    <3> HIDE DEF mine
    <3> QED
      BY <3>1, <3>2, FirstIsOne
  <2>2. PICK d1, d2 \in docs(f) : d1 # d2
    <3>1. Cardinality(docs(f)) >= 2
      OBVIOUS
    <3> HIDE DEF docs
    <3> QED
      BY <3>1, TwoOf
  <2>3. UnitsOf(bs) = {first(f, d) : d \in docs(f)} /\ PathsOf(bs) = {}
    <3> HIDE DEF first, docs
    <3>1. \A d \in docs(f) :
            /\ Bundle({first(f, d)}, {}, {}, {<<f, d>>}, 0).units = {first(f, d)}
            /\ Bundle({first(f, d)}, {}, {}, {<<f, d>>}, 0).paths = {}
      BY DEF Bundle
    <3>2. \A b \in bs : b.paths = {} /\ \E d \in docs(f) : b.units = {first(f, d)}
      BY <1>2, <3>1, Zenon
    <3>3. \A d \in docs(f) : \E b \in bs : b.units = {first(f, d)}
      BY <1>2, <3>1, Zenon
    <3>4. PathsOf(bs) = {}
      BY <3>2 DEF PathsOf
    <3>5. UnitsOf(bs) \subseteq {first(f, d) : d \in docs(f)}
      BY <3>2 DEF UnitsOf
    <3>6. {first(f, d) : d \in docs(f)} \subseteq UnitsOf(bs)
      BY <3>3 DEF UnitsOf
    <3> QED
      BY <3>4, <3>5, <3>6
  <2>4. FamilyVerified(UnitsOf(bs))
    <3>1. first(f, d1) \in mine(f, d1) /\ first(f, d2) \in mine(f, d2)
      BY <2>1, <2>2, Zenon
    <3>2. f # None
      OBVIOUS
    <3> HIDE DEF first, docs
    <3>3. first(f, d1) \in UnitsOf(bs) /\ first(f, d2) \in UnitsOf(bs)
      BY <2>2, <2>3
    <3> HIDE DEF first
    <3> QED
      BY <3>1, <3>2, <3>3, <2>2 DEF FamilyVerified
  <2>5. \A d \in docs(f) : first(f, d) \in cands
    <3>1. \A d : mine(f, d) \subseteq cands
      OBVIOUS
    <3> HIDE DEF first, docs, mine
    <3> QED
      BY <2>1, <3>1
  <2> HIDE DEF first, docs, mine
  <2>6. UnitsOf(bs) \subseteq cands /\ UnitsOf(bs) # {}
    BY <2>5, <2>2, <2>3
  <2>7. PathsOf(bs) = {} /\ DOMAIN << >> = {}
    BY <2>3
  <2> QED
    BY <2>7, <2>4, <2>6 DEF BundleSetOK
<1>3. ASSUME NEW p \in ps, Cardinality(atHand(p)) >= 2,
             bs = {Bundle(atHand(p), {p}, {}, {}, 0)}
      PROVE  BundleSetOK(c, cands, ps, << >>, bs)
  <2>1. atHand(p) # {}
    <3> HIDE DEF atHand
    <3> QED BY <1>3, TwoOf
  <2>2. /\ UnitsOf(bs) = atHand(p) /\ PathsOf(bs) = {p} /\ VersionsOf(bs) = {}
    <3> HIDE DEF atHand, families, first, docs, mine
    <3> QED BY <1>3, OneBundle
  <2> QED
    BY <2>1, <2>2 DEF BundleSetOK
<1> HIDE DEF families, atHand, first, docs
<1> QED
  BY <1>1, <1>2, <1>3, Zenon

\* The first eligible unit of every operand, or the unit that stands for it.
LEMMA CompositionBundle ==
    ASSUME NEW c, NEW cands, NEW ps, NEW ops, NEW stands, c.goal = None,
           DOMAIN ops # {},
           \A i \in DOMAIN ops : \A u \in DOMAIN ops[i] :
               u \in Units /\ ops[i][u] \in Nat,
           \A u \in Units : Key(stands[u]) = Key(u),
           NEW bs \in CompositionBundles(c, cands, ops, stands)
    PROVE  BundleSetOK(c, cands, ps, ops, bs)
<1> DEFINE own(i) == {u \in DOMAIN ops[i] : stands[u] \in cands /\ c.evidence[stands[u]]}
           best(i) == First(ops[i], own(i))
<1>1. /\ \A i \in DOMAIN ops : own(i) # {}
      /\ bs = {Bundle({stands[best(i)]}, {}, {}, {}, i) : i \in DOMAIN ops}
  BY DEF CompositionBundles
<1>2. ASSUME NEW i \in DOMAIN ops
      PROVE  best(i) \in own(i)
  <2>1. own(i) # {} /\ \A u \in own(i) : ops[i][u] \in Nat
    BY <1>1
  <2> HIDE DEF own
  <2> QED
    BY <2>1, FirstIsOne
<1>3. ASSUME NEW i \in DOMAIN ops
      PROVE  /\ best(i) \in DOMAIN ops[i] /\ stands[best(i)] \in cands
             /\ Key(stands[best(i)]) = Key(best(i))
  <2>1. best(i) \in DOMAIN ops[i] /\ stands[best(i)] \in cands
    <3>1. best(i) \in own(i)
      BY <1>2
    <3> HIDE DEF best
    <3> QED BY <3>1
  <2> HIDE DEF best
  <2> QED
    BY <2>1
<1> HIDE DEF best, own
<1>4. UnitsOf(bs) = {stands[best(i)] : i \in DOMAIN ops} /\ PathsOf(bs) = {} /\ VersionsOf(bs) = {}
  <2>1. \A i \in DOMAIN ops :
          /\ Bundle({stands[best(i)]}, {}, {}, {}, i).units = {stands[best(i)]}
          /\ Bundle({stands[best(i)]}, {}, {}, {}, i).paths = {}
          /\ Bundle({stands[best(i)]}, {}, {}, {}, i).versions = {}
    BY DEF Bundle
  <2>2. \A b \in bs : /\ b.paths = {} /\ b.versions = {}
                      /\ \E i \in DOMAIN ops : b.units = {stands[best(i)]}
    BY <1>1, <2>1, Zenon
  <2>3. \A i \in DOMAIN ops : \E b \in bs : b.units = {stands[best(i)]}
    BY <1>1, <2>1, Zenon
  <2>4. PathsOf(bs) = {} /\ VersionsOf(bs) = {}
    BY <2>2 DEF PathsOf, VersionsOf
  <2>5. UnitsOf(bs) \subseteq {stands[best(i)] : i \in DOMAIN ops}
    BY <2>2 DEF UnitsOf
  <2>6. {stands[best(i)] : i \in DOMAIN ops} \subseteq UnitsOf(bs)
    BY <2>3 DEF UnitsOf
  <2> QED
    BY <2>4, <2>5, <2>6
<1>5. UnitsOf(bs) \subseteq cands /\ UnitsOf(bs) # {}
  BY <1>3, <1>4
<1>6. \A i \in DOMAIN ops : \E u \in DOMAIN ops[i], v \in UnitsOf(bs) : Key(u) = Key(v)
  <2> SUFFICES ASSUME NEW i \in DOMAIN ops
               PROVE  \E u \in DOMAIN ops[i], v \in UnitsOf(bs) : Key(u) = Key(v)
    OBVIOUS
  <2>1. stands[best(i)] \in UnitsOf(bs)
    BY <1>4
  <2> QED
    BY <1>3, <2>1, Zenon
<1> QED
  BY <1>4, <1>5, <1>6 DEF BundleSetOK

-----------------------------------------------------------------------------
(* Compaction and projection.                                              *)

\* Whatever the intent, a required bundle set keeps its guarantees.
LEMMA RequiredOK ==
    ASSUME NEW c, NEW cands, NEW ps, NEW ops, NEW stands,
           c.intent \in Intents,
           \A u \in cands : c.rank[u] \in Nat,
           ops # << >> => DOMAIN ops # {} /\ c.goal = None,
           \A i \in DOMAIN ops : \A u \in DOMAIN ops[i] :
               u \in Units /\ ops[i][u] \in Nat,
           \A u \in Units : Key(stands[u]) = Key(u),
           NEW bs \in RequiredBundles(c, cands, ps, ops, stands)
    PROVE  BundleSetOK(c, cands, ps, ops, bs)
<1>1. CASE ops # << >>
  <2>1. bs \in CompositionBundles(c, cands, ops, stands)
    BY <1>1, Zenon DEF RequiredBundles
  <2> QED
    BY <1>1, <2>1, CompositionBundle
<1>2. CASE ops = << >> /\ c.goal # None
  <2> DEFINE qs == {p \in ps : ProvesGoal(p, c.goal, c.anchors)}
  <2>1. bs \in PathBundles(qs, cands)
    BY <1>2, Zenon DEF RequiredBundles
  <2>2. qs \in SUBSET ps /\ \A p \in qs : ProvesGoal(p, c.goal, c.anchors)
    OBVIOUS
  <2> HIDE DEF qs
  <2> QED
    BY <1>2, <2>1, <2>2, PathBundle
<1>3. CASE ops = << >> /\ c.goal = None
  <2>1. CASE c.intent \in {"factual", "definition"}
    <3>1. PICK u \in cands : bs = {Bundle({u}, {}, {}, {}, 0)}
      BY <1>3, <2>1 DEF RequiredBundles
    <3> QED
      BY <1>3, <3>1, UnitBundle
  <2>2. CASE c.intent = "hierarchy"
    <3> DEFINE qs == {p \in ps : "CONTAINS" \in RelationsOf(p)}
    <3>1. bs \in PathBundles(qs, cands)
      BY <1>3, <2>2 DEF RequiredBundles
    <3>2. qs \in SUBSET ps
      OBVIOUS
    <3> HIDE DEF qs
    <3> QED
      BY <1>3, <3>1, <3>2, PathBundle
  <2>3. CASE c.intent = "multi_hop"
    <3>1. bs \in PathBundles(ps, cands)
      BY <1>3, <2>3 DEF RequiredBundles
    <3>2. ps \in SUBSET ps
      OBVIOUS
    <3> QED
      BY <1>3, <3>1, <3>2, PathBundle
  <2>4. CASE c.intent = "validity"
    <3>1. PICK u \in cands : bs = {Bundle({u}, {}, {u}, {}, 0)}
      BY <1>3, <2>4 DEF RequiredBundles
    <3> QED
      BY <1>3, <3>1, UnitBundle
  <2>5. CASE c.intent = "comparison"
    <3>1. bs \in ComparisonBundles(c, ps, cands)
      BY <1>3, <2>5 DEF RequiredBundles
    <3> QED
      BY <1>3, <2>5, <3>1, ComparisonBundle
  <2> QED
    BY <2>1, <2>2, <2>3, <2>4, <2>5 DEF Intents
<1> QED
  BY <1>1, <1>2, <1>3

\* The plan of a context: candidates and paths are the context's, and every
\* required bundle set keeps its guarantees.
PlanOK(c, ops, plan) ==
    /\ plan.cands \subseteq UnitsIn(c)
    /\ plan.paths \subseteq c.paths
    /\ c.intent = "multi_hop" => plan.paths \subseteq c.sat
    /\ \A bs \in plan.required : BundleSetOK(c, plan.cands, plan.paths, ops, bs)

LEMMA CompactOK ==
    ASSUME NEW c, NEW ops, ContextOK(c, 2 * MaxUnits), OperandsOK(c, ops)
    PROVE  PlanOK(c, ops, Compact(c, ops))
<1> DEFINE ps        == PlanPaths(c)
           protected == UNION {PathInfo[p].citable : p \in ps}
           src       == SourceUnits(c, ops, protected)
           stands    == [u \in Units |-> Retained(c, src, protected, u)]
           cands     == {u \in src : stands[u] = u}
           required  == RequiredBundles(c, cands, ps, ops, stands)
<1>1. PICK plan : plan = Compact(c, ops)
  OBVIOUS
<1>2. plan.cands = cands /\ plan.paths = ps /\ plan.required = required
  <2>1. plan = [cands |-> cands, paths |-> ps, ops |-> ops, required |-> required]
    BY <1>1, Zenon DEF Compact
  <2> HIDE DEF cands, ps, required
  <2> QED
    BY <2>1
<1>3. ps \subseteq c.paths /\ (c.intent = "multi_hop" => ps \subseteq c.sat)
  BY DEF PlanPaths
<1>4. src \subseteq UnitsIn(c)
  <2> HIDE DEF protected
  <2> QED
    BY DEF SourceUnits
<1>5. UnitsIn(c) \subseteq Units /\ \A u \in UnitsIn(c) : c.rank[u] \in Nat
  BY DEF ContextOK, Ranking, UnitsIn
<1>6. \A u \in Units : Key(stands[u]) = Key(u)
  <2> SUFFICES ASSUME NEW u \in Units PROVE Key(stands[u]) = Key(u)
    OBVIOUS
  <2>1. stands[u] = Retained(c, src, protected, u)
    OBVIOUS
  <2> HIDE DEF src, protected
  <2>2. CASE u \notin src \ protected
    <3>1. Retained(c, src, protected, u) = u
      BY <2>2, Zenon DEF Retained
    <3> QED
      BY <2>1, <3>1
  <2>3. CASE u \in src \ protected
    <3> DEFINE twins == {v \in src \ protected : Key(v) = Key(u)}
    <3>1. Retained(c, src, protected, u) = First(c.rank, twins)
      BY <2>3, Zenon DEF Retained
    <3>2. twins # {}
      BY <2>3
    <3>3. \A v \in twins : c.rank[v] \in Nat
      BY <1>4, <1>5
    <3>4. First(c.rank, twins) \in twins
      <4> HIDE DEF twins
      <4> QED
        BY <3>2, <3>3, FirstIsOne
    <3>5. Key(First(c.rank, twins)) = Key(u)
      BY <3>4
    <3> QED
      BY <2>1, <3>1, <3>5
  <2> QED
    BY <2>2, <2>3
<1>7. cands \subseteq UnitsIn(c) /\ \A u \in cands : c.rank[u] \in Nat
  <2>1. cands \subseteq src
    <3> HIDE DEF src, stands
    <3> QED
      OBVIOUS
  <2> QED
    BY <2>1, <1>4, <1>5
<1>8. /\ ops # << >> => DOMAIN ops # {} /\ c.goal = None
      /\ \A i \in DOMAIN ops : \A u \in DOMAIN ops[i] : u \in Units /\ ops[i][u] \in Nat
  BY <1>5 DEF OperandsOK
<1>9. c.intent \in Intents
  BY DEF ContextOK
<1>10. ASSUME NEW bs \in required
       PROVE  BundleSetOK(c, cands, ps, ops, bs)
  <2>1. bs \in RequiredBundles(c, cands, ps, ops, stands)
    OBVIOUS
  <2> HIDE DEF cands, ps, stands, required
  <2> QED
    BY <2>1, <1>6, <1>7, <1>8, <1>9, RequiredOK
<1> HIDE DEF cands, ps, required
<1>11. PlanOK(c, ops, plan)
  BY <1>2, <1>3, <1>7, <1>10 DEF PlanOK
<1> QED
  BY <1>1, <1>11, Zenon

\* What the model is shown: retrieved units, the required ones among them,
\* inside the budget.
LEMMA ProjectOK ==
    ASSUME NEW c, NEW plan, NEW budget, NEW pr \in Project(c, plan, budget),
           ContextOK(c, 2 * MaxUnits), plan.cands \subseteq UnitsIn(c)
    PROVE  \E bs \in plan.required :
              /\ pr.admitted = bs /\ pr.paths = PathsOf(bs) /\ pr.budget = budget
              /\ UnitsOf(bs) \subseteq pr.units
              /\ pr.units \subseteq UnitsOf(bs) \cup plan.cands
              /\ CostOf(pr.units, pr.paths) <= budget
<1>1. PICK bs \in Chosen(c, plan, budget) : \E us \in AddOptional(c, plan, bs, budget) :
        pr = [units |-> us, paths |-> PathsOf(bs), admitted |-> bs, budget |-> budget]
  BY Zenon DEF Project
<1>2. PICK us \in AddOptional(c, plan, bs, budget) :
        pr = [units |-> us, paths |-> PathsOf(bs), admitted |-> bs, budget |-> budget]
  BY <1>1
<1>3. bs \in plan.required /\ CostOf(UnitsOf(bs), PathsOf(bs)) <= budget
  BY <1>1, Zenon DEF Chosen
<1>4. PICK more \in SUBSET (plan.cands \ UnitsOf(bs)) :
        /\ us = UnitsOf(bs) \cup more
        /\ \A u \in plan.cands \ UnitsOf(bs) :
             u \in more <=>
               CostOf(UnitsOf(bs) \cup {v \in more : c.rank[v] < c.rank[u]} \cup {u},
                      PathsOf(bs)) <= budget
  BY <1>2, Zenon DEF AddOptional
<1>5. CostOf(us, PathsOf(bs)) <= budget
  <2>1. CASE more = {}
    <3>1. us = UnitsOf(bs)
      BY <2>1, <1>4
    <3> QED
      BY <3>1, <1>3
  <2>2. CASE more # {}
    <3>1. Ranking(c.rank, 2 * MaxUnits) /\ 2 * MaxUnits \in Nat /\ more \subseteq DOMAIN c.rank
      BY <1>4, ShapeAssumption DEF ContextOK, UnitsIn
    <3>2. PICK u \in more : \A v \in more : v # u => c.rank[v] < c.rank[u]
      BY <2>2, <3>1, LastOfRanked
    <3>3. c.rank[u] \in Nat
      BY <3>1 DEF Ranking
    <3> DEFINE before == {v \in more : c.rank[v] < c.rank[u]}
    <3>4. before = more \ {u}
      BY <3>2, <3>3
    <3>5. UnitsOf(bs) \cup before \cup {u} = us
      BY <1>4, <3>4
    <3>6. CostOf(UnitsOf(bs) \cup before \cup {u}, PathsOf(bs)) <= budget
      BY <1>4, Zenon
    <3> HIDE DEF before
    <3> QED
      BY <3>5, <3>6, Zenon
  <2> QED
    BY <2>1, <2>2
<1>6. pr.units = us /\ pr.paths = PathsOf(bs) /\ pr.admitted = bs /\ pr.budget = budget
  BY <1>2
<1> QED
  BY <1>3, <1>4, <1>5, <1>6

-----------------------------------------------------------------------------
(* The evidence invariant.                                                 *)

\* What the provider is given supports the question.
Supported(c, ops, pr) ==
    /\ pr.units \subseteq UnitsIn(c) /\ pr.units # {}
    /\ pr.paths \subseteq c.paths
    /\ c.intent = "multi_hop" => pr.paths \subseteq c.sat
    /\ \A p \in pr.paths : PathInfo[p].citable \subseteq pr.units
    /\ c.intent = "comparison" => FamilyVerified(pr.units)
    /\ CostOf(pr.units, pr.paths) <= pr.budget
    /\ \A i \in DOMAIN ops : \E u \in DOMAIN ops[i], v \in pr.units : Key(u) = Key(v)
    /\ c.goal # None => \E p \in pr.paths : ProvesGoal(p, c.goal, c.anchors)
    /\ c.intent = "validity" => c.from # NoDate /\ c.to = c.from

EInv ==
    /\ phase = "start" => operands = << >>
    /\ phase \in {"retrieved", "calling"} =>
          ContextOK(ctx, 2 * MaxUnits) /\ OperandsOK(ctx, operands)
    /\ phase = "calling" => Supported(ctx, operands, proj)
    /\ resp.outcome = "answered" => phase = "done"
    /\ AnswerIsSupported

\* Two documents of a family stay two documents of it among more units.
LEMMA FamilyGrows ==
    ASSUME NEW us, NEW vs, us \subseteq vs, FamilyVerified(us)
    PROVE  FamilyVerified(vs)
BY DEF FamilyVerified

\* A projection that passes the projected validator supports the question: the
\* sufficiency policy, the compactor, the projector and the validator agree.
LEMMA ProjectionSupports ==
    ASSUME NEW c, NEW ops, NEW budget, ContextOK(c, 2 * MaxUnits), OperandsOK(c, ops),
           Sufficient(c), NEW pr \in Project(c, Compact(c, ops), budget),
           ProjectedSufficient(c, Compact(c, ops), pr)
    PROVE  Supported(c, ops, pr)
<1>1. PICK plan : plan = Compact(c, ops)
  OBVIOUS
<1>2. PlanOK(c, ops, plan)
  BY <1>1, CompactOK
<1>3. PICK bs \in plan.required :
        /\ pr.admitted = bs /\ pr.paths = PathsOf(bs) /\ pr.budget = budget
        /\ UnitsOf(bs) \subseteq pr.units
        /\ pr.units \subseteq UnitsOf(bs) \cup plan.cands
        /\ CostOf(pr.units, pr.paths) <= budget
  <2>1. pr \in Project(c, plan, budget) /\ plan.cands \subseteq UnitsIn(c)
    BY <1>1, <1>2 DEF PlanOK
  <2> QED
    BY <2>1, ProjectOK
<1>4. BundleSetOK(c, plan.cands, plan.paths, ops, bs)
  BY <1>2, <1>3 DEF PlanOK
<1>5. c.intent = "comparison" => VersionsOf(bs) # {}
  <2> SUFFICES ASSUME c.intent = "comparison" PROVE VersionsOf(bs) # {}
    OBVIOUS
  <2>1. Cardinality(UNION {b.versions : b \in pr.admitted}) >= 2
    BY Zenon DEF ProjectedSufficient
  <2>2. Cardinality(VersionsOf(bs)) >= 2
    BY <2>1, <1>3, Zenon DEF VersionsOf
  <2> QED
    BY <2>2, TwoOf
<1>6. c.intent = "validity" => c.from # NoDate /\ c.to = c.from
  BY Zenon DEF Sufficient, TemporalEvidence
<1>7. pr.units \subseteq UnitsIn(c) /\ pr.units # {}
  BY <1>2, <1>3, <1>4 DEF PlanOK, BundleSetOK
<1>8. pr.paths \subseteq c.paths /\ (c.intent = "multi_hop" => pr.paths \subseteq c.sat)
  BY <1>2, <1>3, <1>4 DEF PlanOK, BundleSetOK
<1>9. \A p \in pr.paths : PathInfo[p].citable \subseteq pr.units
  BY <1>3, <1>4, <1>5 DEF BundleSetOK
<1>10. c.intent = "comparison" => FamilyVerified(pr.units)
  BY <1>3, <1>4, <1>5, FamilyGrows DEF BundleSetOK
<1>11. \A i \in DOMAIN ops : \E u \in DOMAIN ops[i], v \in pr.units : Key(u) = Key(v)
  BY <1>3, <1>4, Zenon DEF BundleSetOK
<1>12. c.goal # None => \E p \in pr.paths : ProvesGoal(p, c.goal, c.anchors)
  BY <1>3, <1>4, Zenon DEF BundleSetOK
<1>13. CostOf(pr.units, pr.paths) <= pr.budget
  BY <1>3, Zenon
<1> QED
  BY <1>6, <1>7, <1>8, <1>9, <1>10, <1>11, <1>12, <1>13, Zenon DEF Supported

\* An answer the grounding validator accepts is supported end to end.
LEMMA GroundedIsSupported ==
    ASSUME NEW c, NEW ops, NEW pr, NEW x, Supported(c, ops, pr), Grounded(c, pr, x)
    PROVE  /\ x.cites \subseteq UnitsIn(c)
           /\ \A a \in x.asserts : /\ a.date = c.from /\ c.from = c.to
                                   /\ a.valid <=> ValidOn(a.subject, c.from)
           /\ c.intent = "validity" => x.asserts # {}
           /\ x.paths \subseteq c.paths
           /\ c.goal # None => \E p \in x.paths : ProvesGoal(p, c.goal, c.anchors)
           /\ c.intent = "multi_hop" => x.paths \subseteq c.sat
<1>1. x.cites \subseteq UnitsIn(c) /\ x.paths \subseteq pr.paths
  BY DEF Supported, Grounded
<1>2. x.paths \subseteq c.paths /\ (c.intent = "multi_hop" => x.paths \subseteq c.sat)
  BY <1>1 DEF Supported
<1>3. c.goal # None => \E p \in x.paths : ProvesGoal(p, c.goal, c.anchors)
  BY DEF Grounded
<1>4. c.intent = "validity" => x.asserts # {}
  BY DEF Grounded
<1>5. \A a \in x.asserts : /\ a.date = c.from /\ c.from = c.to
                           /\ a.valid <=> ValidOn(a.subject, c.from)
  BY Zenon DEF Grounded
<1> QED
  BY <1>1, <1>2, <1>3, <1>4, <1>5, Zenon

LEMMA InitEvidence == Init => EInv
<1> SUFFICES ASSUME Init PROVE EInv
  OBVIOUS
<1>1. phase = "start" /\ operands = << >> /\ resp.outcome # "answered"
  BY DEF Init, Response, None
<1> QED
  BY <1>1 DEF EInv, AnswerIsSupported

\* A request that ends without an answer keeps the invariant.
LEMMA RefusalStep ==
    ASSUME NEW out, NEW reason, Finish(out, reason, NoAnswer), out # "answered"
    PROVE  EInv'
<1>1. phase' = "done" /\ resp'.outcome # "answered"
  BY DEF Finish, Response
<1> QED
  BY <1>1 DEF EInv, AnswerIsSupported

\* A step that leaves the request where it is keeps the invariant.
LEMMA SamePlace ==
    ASSUME EInv, UNCHANGED <<phase, ctx, operands, proj, resp>>
    PROVE  EInv'
BY DEF EInv, AnswerIsSupported

LEMMA NextEvidence == EInv /\ [Next]_vars => EInv'
<1> SUFFICES ASSUME EInv, [Next]_vars PROVE EInv'
  OBVIOUS
<1>1. CASE RetrieveAtomic
  <2>1. /\ phase = "start" /\ ctx' \in AtomicContexts /\ phase' = "retrieved"
        /\ operands' = operands /\ resp' = resp
    BY <1>1 DEF RetrieveAtomic
  <2>2. operands' = << >> /\ resp'.outcome # "answered"
    BY <2>1 DEF EInv
  <2>3. ContextOK(ctx', 2 * MaxUnits) /\ OperandsOK(ctx', operands')
    BY <2>1, <2>2, AtomicRetrieved
  <2>4. ContextOK(ctx, 2 * MaxUnits)' /\ OperandsOK(ctx, operands)'
    BY <2>3
  <2> QED
    BY <2>1, <2>2, <2>4 DEF EInv, AnswerIsSupported
<1>2. CASE RetrieveFanOut
  <2>1. /\ phase = "start" /\ phase' = "retrieved" /\ resp' = resp
    BY <1>2 DEF RetrieveFanOut
  <2>2. PICK a, b \in SubqueryContexts, comparison \in BOOLEAN :
          /\ ctx' = Merge(a, b)
          /\ operands' = IF comparison THEN <<Operand(a), Operand(b)>> ELSE << >>
    BY <1>2, Zenon DEF RetrieveFanOut
  <2>3. operands' = << >> \/ operands' = <<Operand(a), Operand(b)>>
    BY <2>2, Zenon
  <2>4. ContextOK(ctx', 2 * MaxUnits) /\ OperandsOK(ctx', operands')
    BY <2>2, <2>3, MergeFacts
  <2>5. ContextOK(ctx, 2 * MaxUnits)' /\ OperandsOK(ctx, operands)'
    BY <2>4
  <2>6. resp'.outcome # "answered"
    BY <2>1 DEF EInv
  <2> QED
    BY <2>1, <2>5, <2>6 DEF EInv, AnswerIsSupported
<1>3. CASE RetrievalFails \/ ShortComparison \/ InsufficientEvidence \/ ContractViolated
           \/ ProjectionRefused \/ ModelDeclines
  <2>1. \/ Finish("failed", "retrieval", NoAnswer) \/ Finish("escaped", "one_operand", NoAnswer)
        \/ Finish("cannot", "evidence", NoAnswer) \/ Finish("failed", "contract", NoAnswer)
        \/ Finish("failed", "budget", NoAnswer) \/ Finish("cannot", "model", NoAnswer)
    BY <1>3, Zenon DEF RetrievalFails, ShortComparison, InsufficientEvidence,
                       ContractViolated, ProjectionRefused, ModelDeclines
  <2> QED
    BY <2>1, RefusalStep
<1>4. CASE CallProvider
  <2>1. /\ phase = "retrieved" /\ Sufficient(ctx) /\ phase' = "calling"
        /\ ctx' = ctx /\ operands' = operands /\ resp' = resp
    BY <1>4 DEF CallProvider
  <2>2. PICK budget \in Budgets \ {0} :
          \E pr \in Project(ctx, Compact(ctx, operands), budget) :
              ProjectedSufficient(ctx, Compact(ctx, operands), pr) /\ proj' = pr
    BY <1>4, Zenon DEF CallProvider
  <2>3. /\ proj' \in Project(ctx, Compact(ctx, operands), budget)
        /\ ProjectedSufficient(ctx, Compact(ctx, operands), proj')
    BY <2>2, Zenon
  <2>4. ContextOK(ctx, 2 * MaxUnits) /\ OperandsOK(ctx, operands)
    BY <2>1 DEF EInv
  <2>5. Supported(ctx, operands, proj')
    BY <2>1, <2>3, <2>4, ProjectionSupports
  <2>6. /\ ContextOK(ctx, 2 * MaxUnits)' /\ OperandsOK(ctx, operands)'
        /\ Supported(ctx, operands, proj)'
    BY <2>1, <2>4, <2>5
  <2>7. resp'.outcome # "answered"
    BY <2>1 DEF EInv
  <2> QED
    BY <2>1, <2>6, <2>7 DEF EInv, AnswerIsSupported
<1>5. CASE Timeout \/ ProviderClosed \/ PermanentFailure \/ TransientFailure
  <2>1. CASE ProviderError
    <3>1. Finish("failed", "provider", NoAnswer) \/ Finish("cannot", "repair", NoAnswer)
      BY <2>1, Zenon DEF ProviderError
    <3> QED
      BY <3>1, RefusalStep
  <2>2. CASE UNCHANGED <<phase, ctx, operands, proj, round, resp>>
    BY <2>2, SamePlace
  <2> QED
    BY <1>5, <2>1, <2>2, Zenon DEF Timeout, ProviderClosed, PermanentFailure, TransientFailure
<1>6. CASE AcceptCandidate
  <2>1. PICK x \in Candidates : Grounded(ctx, proj, x) /\ Finish("answered", None, x)
    BY <1>6, Zenon DEF AcceptCandidate
  <2>2. /\ phase = "calling" /\ phase' = "done" /\ ctx' = ctx
        /\ resp'.outcome = "answered" /\ resp'.answer = x
    BY <1>6, <2>1 DEF AcceptCandidate, Finish, Response
  <2>3. Supported(ctx, operands, proj)
    BY <2>2 DEF EInv
  <2>4. /\ x.cites \subseteq UnitsIn(ctx)
        /\ \A a \in x.asserts : /\ a.date = ctx.from /\ ctx.from = ctx.to
                                /\ a.valid <=> ValidOn(a.subject, ctx.from)
        /\ ctx.intent = "validity" => x.asserts # {}
        /\ x.paths \subseteq ctx.paths
        /\ ctx.goal # None => \E p \in x.paths : ProvesGoal(p, ctx.goal, ctx.anchors)
        /\ ctx.intent = "multi_hop" => x.paths \subseteq ctx.sat
    BY <2>1, <2>3, GroundedIsSupported, Zenon
  <2>5. AnswerIsSupported'
    BY <2>2, <2>4, Zenon DEF AnswerIsSupported
  <2> QED
    BY <2>2, <2>5 DEF EInv
<1>7. CASE RejectCandidate
  <2>1. CASE UNCHANGED <<phase, ctx, operands, proj, resp>>
    BY <2>1, SamePlace
  <2>2. CASE Finish("failed", "grounding", NoAnswer)
    BY <2>2, RefusalStep
  <2> QED
    BY <1>7, <2>1, <2>2, Zenon DEF RejectCandidate
<1>8. CASE UNCHANGED vars
  BY <1>8, SamePlace DEF vars
<1> QED
  BY <1>1, <1>2, <1>3, <1>4, <1>5, <1>6, <1>7, <1>8, Zenon DEF Next, Retrieve, Generate, Done

LEMMA EvidenceInvariance == Spec => []EInv
BY InitEvidence, NextEvidence, PTL DEF Spec

\* What generation/service.py lets out is supported by what was retrieved, end
\* to end (sufficiency.py to grounding.py), for every evidence universe, every
\* retrieval and every model output.
THEOREM AnswerCorrect == Spec => []AnswerIsSupported
<1>1. EInv => AnswerIsSupported
  BY DEF EInv
<1> QED
  BY <1>1, EvidenceInvariance, PTL

\* The projector (context_projection.py) never cuts an argument in half and
\* never overruns the budget, although it fills up greedily.
THEOREM ProjectionCorrect == Spec => []ProjectionIsComplete
<1>1. EInv => ProjectionIsComplete
  BY Zenon DEF EInv, Supported, ProjectionIsComplete
<1> QED
  BY <1>1, EvidenceInvariance, PTL

\* No side of a composed comparison is lost by merging (fanout.py),
\* deduplication (evidence_compaction.py) or the budget.
THEOREM OperandCorrect == Spec => []OperandCovered
<1>1. EInv => OperandCovered
  BY Zenon DEF EInv, Supported, OperandCovered
<1> QED
  BY <1>1, EvidenceInvariance, PTL

\* If the output schema can say what an answer needs, every provider call the
\* pipeline pays for has a candidate that the grounding validator would accept.
THEOREM NoDeadEndCorrect ==
    ASSUME Expressive
    PROVE  Spec => []NoDeadEnd
<1>1. ASSUME EInv, phase = "calling"
      PROVE  \E x \in Candidates : Grounded(ctx, proj, x)
  <2> DEFINE said(u, ps, as) == [text |-> "fine", cites |-> {u}, paths |-> ps,
                                 asserts |-> as, linked |-> TRUE]
  <2>1. ContextOK(ctx, 2 * MaxUnits) /\ Supported(ctx, operands, proj)
    BY <1>1 DEF EInv
  <2>2. PICK u \in proj.units : u \in Units
    BY <2>1 DEF Supported, ContextOK, UnitsIn, Ranking
  <2>3. CASE ctx.goal # None
    <3>1. ctx.intent # "validity"
      BY <2>1, <2>3 DEF ContextOK, PolicyOf
    <3>2. PICK p \in proj.paths : ProvesGoal(p, ctx.goal, ctx.anchors) /\ p \in Paths
      BY <2>1, <2>3 DEF Supported, ContextOK
    <3>3. PICK x : x = said(u, {p}, {})
      OBVIOUS
    <3>4. x \in Candidates
      BY <2>2, <3>2, <3>3, Zenon DEF Expressive
    <3>5. x.text = "fine" /\ x.cites = {u} /\ x.paths = {p} /\ x.asserts = {} /\ x.linked = TRUE
      BY <3>3
    <3>6. Grounded(ctx, proj, x)
      BY <2>2, <3>1, <3>2, <3>5 DEF Grounded
    <3> QED
      BY <3>4, <3>6
  <2>4. CASE ctx.goal = None /\ ctx.intent = "validity"
    <3>1. ctx.from # NoDate /\ ctx.to = ctx.from /\ <<ctx.from, ctx.to>> \in Periods("validity")
      BY <2>1, <2>4 DEF Supported, ContextOK
    <3>2. ctx.from \in {q[1] : q \in {r \in Periods("validity") : r[1] = r[2]}}
      BY <3>1
    <3>3. PICK v \in BOOLEAN : v = ValidOn(u, ctx.from)
      BY DEF ValidOn
    <3>4. PICK a : a = [subject |-> u, date |-> ctx.from, valid |-> v]
      OBVIOUS
    <3>5. PICK x : x = said(u, {}, {a})
      OBVIOUS
    <3>6. x \in Candidates
      BY <2>2, <3>2, <3>3, <3>4, <3>5, Zenon DEF Expressive
    <3>7. x.text = "fine" /\ x.cites = {u} /\ x.paths = {} /\ x.asserts = {a} /\ x.linked = TRUE
      BY <3>5
    <3>8. a.subject = u /\ a.date = ctx.from /\ a.valid = ValidOn(a.subject, a.date)
      BY <3>3, <3>4, Zenon
    <3>9. Grounded(ctx, proj, x)
      BY <2>2, <2>4, <3>1, <3>7, <3>8 DEF Grounded
    <3> QED
      BY <3>6, <3>9
  <2>5. CASE ctx.goal = None /\ ctx.intent # "validity"
    <3>1. PICK x : x = said(u, {}, {})
      OBVIOUS
    <3>2. x \in Candidates
      BY <2>2, <3>1, Zenon DEF Expressive
    <3>3. x.text = "fine" /\ x.cites = {u} /\ x.paths = {} /\ x.asserts = {} /\ x.linked = TRUE
      BY <3>1
    <3>4. Grounded(ctx, proj, x)
      BY <2>2, <2>5, <3>3 DEF Grounded
    <3> QED
      BY <3>2, <3>4
  <2> QED
    BY <2>3, <2>4, <2>5
<1>2. EInv => NoDeadEnd
  BY <1>1 DEF NoDeadEnd
<1> QED
  BY <1>2, EvidenceInvariance, PTL

-----------------------------------------------------------------------------
(***************************************************************************)
(* The runner, for any calls and any concurrency limit.                    *)
(*                                                                         *)
(* CapacityBound counts permits against tracked calls, so it needs that a  *)
(* call which has not been submitted is not tracked (its permit is taken   *)
(* exactly once); CloseReportSound counts threads, so it needs that a      *)
(* runner that is closing submits nothing more.                            *)
(***************************************************************************)

\* What the runner's variables hold.
RunnerTypeOK ==
    /\ pc \in [Call -> {"idle", "waiting", "awaiting", "done"}]
    /\ outcome \in [Call -> RunOutcomes]
    /\ future \in [Call -> FutureStates]
    /\ result \in [Call -> Results]
    /\ active \subseteq Call
    /\ permits \in Nat
    /\ accepting \in BOOLEAN
    /\ closing \in {"open", "grace", "closed"}
    /\ unfinished \in Nat

\* A call that waits for its permit has no future and no monitor.
Unsubmitted == \A c \in Call : pc[c] \in {"idle", "waiting"} =>
                  c \notin active /\ future[c] = "none"

\* Every future a thread holds or may pick up has a live monitor.
Tracked == \A c \in Call : future[c] \in {"queued", "running"} => c \in active

\* Permits are only ever in the semaphore or with a tracked call.
Conserved == permits + Cardinality(active) = MaxConcurrency

\* aclose() stops submission first, then waits, then reports.
CloseOrder == accepting <=> closing = "open"

\* The inductive invariant of the runner.
RunnerInv ==
    /\ RunnerTypeOK /\ Unsubmitted /\ Tracked /\ Conserved /\ CloseOrder
    /\ CloseReportSound

-----------------------------------------------------------------------------
\* Tracked calls and running calls are counted by a natural number.
LEMMA ActiveFinite == RunnerTypeOK => IsFiniteSet(active) /\ Cardinality(active) \in Nat
  BY CallAssumption, FS_Subset, FS_CardinalityType DEF RunnerTypeOK

LEMMA RunningFinite == IsFiniteSet(Running) /\ Cardinality(Running) \in Nat
  BY CallAssumption, FS_Subset, FS_CardinalityType DEF Running

\* The thread that is counted at most is one the report counts: fewer running
\* calls keep the report sound.
LEMMA FewerRunning ==
    ASSUME CloseReportSound, closing = "closed", UNCHANGED <<unfinished>>,
           Running' \subseteq Running, Queued' = {}, unfinished \in Nat
    PROVE  CloseReportSound'
  <1>1. Cardinality(Running') <= Cardinality(Running) /\ Cardinality(Running') \in Nat
    BY RunningFinite, FS_Subset, FS_CardinalityType
  <1> QED
    BY <1>1, RunningFinite DEF CloseReportSound

\* The inductive invariant implies what the runner promises of its capacity.
LEMMA CapacityFromInv == RunnerInv => CapacityBound
  <1> SUFFICES ASSUME RunnerInv PROVE CapacityBound
    OBVIOUS
  <1>1. IsFiniteSet(active) /\ Cardinality(active) \in Nat
    BY ActiveFinite DEF RunnerInv
  <1>2. Running \cup Queued \subseteq active
    BY DEF RunnerInv, Tracked, Running, Queued
  <1>3. Cardinality(active) <= MaxConcurrency
    BY <1>1, ConcurrencyAssumption DEF RunnerInv, Conserved, RunnerTypeOK
  <1>4. /\ Cardinality(Running \cup Queued) \in Nat
        /\ Cardinality(Running \cup Queued) <= Cardinality(active)
    BY <1>1, <1>2, FS_Subset, FS_CardinalityType
  <1>5. Queued # {} => Cardinality(Running) < MaxConcurrency
    <2> SUFFICES ASSUME NEW q \in Queued PROVE Cardinality(Running) < MaxConcurrency
      OBVIOUS
    <2>1. Running \subseteq active /\ q \in active /\ q \notin Running
      BY <1>2 DEF Running, Queued
    <2>2. Running # active
      BY <2>1
    <2>3. Cardinality(Running) < Cardinality(active)
      BY <1>1, <2>1, <2>2, RunningFinite, FS_Subset, FS_CardinalityType
    <2> QED
      BY <1>1, <1>3, <2>3, RunningFinite, ConcurrencyAssumption
  <1> QED
    BY <1>1, <1>2, <1>3, <1>4, <1>5, ConcurrencyAssumption DEF RunnerInv, Conserved, CapacityBound

\* The invariant holds initially: every permit is in the semaphore.
LEMMA RunnerInvInit == RunnerInit => RunnerInv
  <1> SUFFICES ASSUME RunnerInit PROVE RunnerInv
    OBVIOUS
  <1>1. RunnerTypeOK
    BY ConcurrencyAssumption DEF RunnerInit, RunnerTypeOK, RunOutcomes, FutureStates, Results
  <1>2. Conserved
    BY FS_EmptySet, ConcurrencyAssumption DEF RunnerInit, Conserved
  <1> QED
    BY <1>1, <1>2 DEF RunnerInit, RunnerInv, Unsubmitted, Tracked, CloseOrder, CloseReportSound

\* A caller that comes back, with whatever outcome, gives no permit back: it
\* may only cancel its own queued future, whose monitor stays.
LEMMA ReturnKeeps ==
    ASSUME RunnerInv, NEW c \in Call, NEW x \in RunOutcomes, NEW S \in SUBSET Call,
           pc[c] \in {"waiting", "awaiting"}, Return(c, x), CancelQueued(S),
           UNCHANGED <<result, active, permits, accepting, closing, unfinished>>
    PROVE  RunnerInv'
  <1> USE DEF RunnerInv
  <1>1. RunnerTypeOK'
    BY DEF RunnerTypeOK, Return, CancelQueued, FutureStates
  <1>2. Unsubmitted'
    BY DEF RunnerTypeOK, Unsubmitted, Return, CancelQueued
  <1>3. Tracked'
    BY DEF RunnerTypeOK, Tracked, CancelQueued
  <1>4. CloseReportSound'
    <2>1. Running' = Running /\ Queued' \subseteq Queued
      BY DEF RunnerTypeOK, CancelQueued, Running, Queued
    <2> QED
      BY <2>1 DEF CloseReportSound
  <1> QED
    BY <1>1, <1>2, <1>3, <1>4 DEF Conserved, CloseOrder

\* Each step of a caller, a thread, a monitor or aclose() keeps the invariant.
LEMMA RunnerInvNext == RunnerInv /\ [RunnerNext]_runnerVars => RunnerInv'
  <1> SUFFICES ASSUME RunnerInv, [RunnerNext]_runnerVars PROVE RunnerInv'
    OBVIOUS
  <1> USE DEF RunnerInv
  <1>0. future = [c \in Call |-> future[c]]
    BY DEF RunnerTypeOK
  <1>1. ASSUME NEW c \in Call, Run(c) PROVE RunnerInv'
    BY <1>1 DEF Run, RunnerTypeOK, Unsubmitted, Tracked, Conserved, CloseOrder, CloseReportSound, Running, Queued
  <1>2. ASSUME NEW c \in Call, Submit(c) PROVE RunnerInv'
    <2>1. RunnerTypeOK' /\ Unsubmitted' /\ Tracked' /\ CloseOrder'
      BY <1>2 DEF Submit, RunnerTypeOK, Unsubmitted, Tracked, CloseOrder, FutureStates
    <2>2. Conserved'
      <3>1. c \notin active
        BY <1>2 DEF Submit, Unsubmitted
      <3>2. Cardinality(active') = Cardinality(active) + 1
        BY <1>2, <3>1, ActiveFinite, FS_AddElement DEF Submit
      <3> QED
        BY <1>2, <3>2, ActiveFinite, ConcurrencyAssumption DEF Submit, Conserved, RunnerTypeOK
    <2>3. CloseReportSound'
      BY <1>2 DEF Submit, CloseOrder, CloseReportSound
    <2> QED
      BY <2>1, <2>2, <2>3
  <1>3. ASSUME NEW c \in Call, SubmitFails(c) \/ RefuseClosed(c) \/ Wake(c) PROVE RunnerInv'
    <2>1. CancelQueued({})
      BY <1>0, <1>3 DEF SubmitFails, RefuseClosed, Wake, CancelQueued
    <2>2. \E x \in RunOutcomes : Return(c, x)
      BY <1>3 DEF SubmitFails, RefuseClosed, Wake, RunnerTypeOK, RunOutcomes, Results, FutureDone
    <2> QED
      BY <1>3, <2>1, <2>2, ReturnKeeps DEF SubmitFails, RefuseClosed, Wake
  <1>4. ASSUME NEW c \in Call, RunTimesOut(c) \/ CancelCaller(c) PROVE RunnerInv'
    BY <1>4, ReturnKeeps DEF RunTimesOut, CancelCaller, RunOutcomes
  <1>5. ASSUME NEW c \in Call, Start(c) PROVE RunnerInv'
    <2>1. RunnerTypeOK' /\ Unsubmitted' /\ Tracked' /\ CloseOrder' /\ Conserved'
      BY <1>5 DEF Start, RunnerTypeOK, Unsubmitted, Tracked, CloseOrder, Conserved, FutureStates
    <2>2. closing # "closed"
      BY <1>5 DEF Start, CloseReportSound, Queued
    <2> QED
      BY <1>5, <2>1, <2>2 DEF Start, CloseReportSound
  <1>6. ASSUME NEW c \in Call, Complete(c) PROVE RunnerInv'
    <2>1. RunnerTypeOK' /\ Unsubmitted' /\ Tracked' /\ CloseOrder' /\ Conserved'
      BY <1>6 DEF Complete, RunnerTypeOK, Unsubmitted, Tracked, CloseOrder, Conserved, FutureStates
    <2>2. Running' \subseteq Running /\ Queued' \subseteq Queued
      BY <1>6 DEF Complete, RunnerTypeOK, Running, Queued
    <2>3. CloseReportSound'
      <3>1. CASE closing = "closed"
        <4>1. Queued' = {}
          BY <2>2, <3>1 DEF CloseReportSound
        <4> QED
          BY <1>6, <2>2, <3>1, <4>1, FewerRunning DEF Complete, RunnerTypeOK
      <3>2. CASE closing # "closed"
        BY <1>6, <3>2 DEF Complete, CloseReportSound
      <3> QED
        BY <3>1, <3>2
    <2> QED
      BY <2>1, <2>3
  <1>7. ASSUME NEW c \in Call, Monitor(c) PROVE RunnerInv'
    <2>1. RunnerTypeOK' /\ Unsubmitted' /\ Tracked' /\ CloseOrder'
      BY <1>7 DEF Monitor, RunnerTypeOK, Unsubmitted, Tracked, CloseOrder, FutureDone, Results
    <2>2. Conserved'
      <3>1. Cardinality(active') = Cardinality(active) - 1
        BY <1>7, ActiveFinite, FS_RemoveElement DEF Monitor
      <3> QED
        BY <1>7, <3>1, ActiveFinite, ConcurrencyAssumption DEF Monitor, Conserved, RunnerTypeOK
    <2>3. CloseReportSound'
      BY <1>7 DEF Monitor, CloseReportSound, Running, Queued
    <2> QED
      BY <2>1, <2>2, <2>3
  <1>8. CASE CloseBegin
    BY <1>8 DEF CloseBegin, CancelQueued, RunnerTypeOK, Unsubmitted, Tracked, CloseOrder, Conserved,
                CloseReportSound, FutureStates
  <1>9. CASE CloseEnd
    <2>1. RunnerTypeOK' /\ Unsubmitted' /\ Tracked' /\ CloseOrder' /\ Conserved'
      BY <1>9, ActiveFinite DEF CloseEnd, CancelQueued, RunnerTypeOK, Unsubmitted, Tracked, CloseOrder,
                                Conserved, FutureStates
    <2>2. Queued' = {} /\ Running' = Running
      BY <1>9 DEF CloseEnd, CancelQueued, RunnerTypeOK, Running, Queued
    <2>3. Cardinality(Running) <= Cardinality(active)
      <3>1. Running \subseteq active
        BY DEF Tracked, Running
      <3> QED
        BY <3>1, ActiveFinite, FS_Subset
    <2>4. CloseReportSound'
      BY <1>9, <2>2, <2>3 DEF CloseEnd, CloseReportSound
    <2> QED
      BY <2>1, <2>4
  <1>10. CASE UNCHANGED runnerVars
    BY <1>10 DEF runnerVars, RunnerTypeOK, Unsubmitted, Tracked, CloseOrder, Conserved, CloseReportSound,
                 Running, Queued
  <1> QED
    BY <1>1, <1>2, <1>3, <1>4, <1>5, <1>6, <1>7, <1>8, <1>9, <1>10 DEF RunnerNext, Caller

-----------------------------------------------------------------------------
\* The invariant holds in every behaviour of the runner.
THEOREM RunnerInvariance == RunnerSpec => []RunnerInv
  BY RunnerInvInit, RunnerInvNext, PTL DEF RunnerSpec

\* The semaphore and the executor agree whatever the callers do: a timed out
\* or cancelled caller leaves its permit with the thread, so at most
\* MaxConcurrency calls occupy the executor and a queued call finds a thread.
THEOREM RunnerCapacityCorrect == RunnerSpec => []CapacityBound
  BY RunnerInvariance, CapacityFromInv, PTL

\* aclose() reports at least the threads that are still inside a retrieval
\* call, now and for as long as they run: 0 means the driver may be closed.
THEOREM RunnerCloseReportCorrect == RunnerSpec => []CloseReportSound
  <1>1. RunnerInv => CloseReportSound
    BY DEF RunnerInv
  <1> QED
    BY <1>1, RunnerInvariance, PTL
=============================================================================
