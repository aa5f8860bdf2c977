--------------------- MODULE ConversationContextProofs ---------------------
(***************************************************************************)
(* Theorems about ConversationContext, for any legal units, limits and     *)
(* number of turns: the focus rows mirror the grounded citations, a        *)
(* back-reference resolves only to the one unit it can mean, and a pick    *)
(* only to what was last shown at its place.                               *)
(***************************************************************************)
EXTENDS ConversationContext, FiniteSetTheorems, WellFoundedInduction, TLAPS

-----------------------------------------------------------------------------
(* The inductive invariant.                                                *)

FocusRow == [last : Nat, order : Nat]

\* A table of focus rows: at most one row for a unit.
FocusTable(f) == DOMAIN f \subseteq Node /\ f \in [DOMAIN f -> FocusRow]

TypeOK ==
    /\ phase \in {"idle", "begun", "resolved"}
    /\ turnNo \in Nat
    /\ phase # "idle" => turnNo > 0
    /\ FocusTable(focuses)
    /\ groundedAt \in [Node -> Nat]

\* No citation lies in the future.
Dated == \A n \in Node : groundedAt[n] <= turnNo

\* Once a turn has begun, the rows it sees are within the TTL.
Fresh ==
    phase # "idle" => \A n \in DOMAIN focuses : turnNo - focuses[n].last <= FocusTtl

\* What is pending is what the last answered turn asked.
PendingIsAsked == pending = asked

IInv ==
    /\ TypeOK /\ Dated /\ FocusMirrorsCitations /\ Fresh /\ AnaphoraIsSafe
    /\ PendingIsAsked /\ PickAnswersTheQuestion

-----------------------------------------------------------------------------
(* Naturals and finite sets of units.                                      *)

\* A bounded set of naturals has a greatest element.
LEMMA GreatestNat ==
    ASSUME NEW S, NEW n \in Nat, S \subseteq 0..n, S # {}
    PROVE  \E a \in S : \A b \in S : b <= a
<1> DEFINE R == OpToRel(<, Nat)
           T == {n - a : a \in S}
<1>1. \A a \in S : n - a \in Nat
  BY SMT
<1>2. T \subseteq Nat /\ T # {}
  BY <1>1
<1>3. IsWellFoundedOn(R, Nat)
  BY NatLessThanWellFounded
<1>4. PICK t \in T : \A u \in T : ~(<<u, t>> \in R)
  <2> HIDE DEF R, T
  <2> QED BY <1>2, <1>3, WFMin, Zenon
<1>5. \A u \in T : <<u, t>> \in R <=> u < t
  <2> HIDE DEF T
  <2> QED BY <1>2, SMT DEF OpToRel
<1>6. \A u \in T : ~(u < t)
  <2> HIDE DEF R, T
  <2> QED BY <1>4, <1>5, Zenon
<1> HIDE DEF R
<1>7. PICK a \in S : t = n - a
  BY <1>4
<1>8. \A b \in S : ~(n - b < n - a)
  BY <1>6, <1>7
<1>9. \A b \in S : b <= a
  BY <1>8, SMT
<1> QED BY <1>9

LEMMA NodesFinite == IsFiniteSet(Node) /\ Node \subseteq Nat
BY SizesAssumption, FS_Interval DEF Node

LEMMA UnitsFinite ==
    ASSUME NEW S, S \subseteq Node
    PROVE  IsFiniteSet(S) /\ Cardinality(S) \in Nat
BY NodesFinite, FS_Subset, FS_CardinalityType

LEMMA FewerUnits ==
    ASSUME NEW S, NEW T, S \subseteq T, T \subseteq Node
    PROVE  Cardinality(S) <= Cardinality(T)
BY UnitsFinite, FS_Subset

-----------------------------------------------------------------------------
(* The order of the rows and the limit of the table.                       *)

\* The ORDER BY of the focus queries is a strict total order on the rows.
LEMMA BeforeIsOrder ==
    ASSUME NEW f, FocusTable(f)
    PROVE  /\ \A n \in DOMAIN f : ~Before(f, n, n)
           /\ \A m, n \in DOMAIN f : m # n => Before(f, m, n) \/ Before(f, n, m)
           /\ \A k, m, n \in DOMAIN f :
                 Before(f, k, m) /\ Before(f, m, n) => Before(f, k, n)
<1>1. \A n \in DOMAIN f : f[n].last \in Nat /\ f[n].order \in Nat /\ n \in Nat
  BY NodesFinite DEF FocusTable, FocusRow
<1> QED BY <1>1 DEF Before

Earlier(f, n) == {m \in DOMAIN f : Before(f, m, n)}

\* A row has fewer rows before it than any row it is before.
LEMMA RankGrows ==
    ASSUME NEW f, FocusTable(f), NEW m \in DOMAIN f, NEW n \in DOMAIN f,
           Before(f, m, n)
    PROVE  Cardinality(Earlier(f, m)) < Cardinality(Earlier(f, n))
<1>1. Earlier(f, m) \subseteq Earlier(f, n) /\ m \in Earlier(f, n) /\ m \notin Earlier(f, m)
  BY BeforeIsOrder DEF Earlier
<1>2. Earlier(f, n) \subseteq Node /\ Earlier(f, m) \subseteq Node
  BY DEF Earlier, FocusTable
<1>3. IsFiniteSet(Earlier(f, n)) /\ Cardinality(Earlier(f, n)) \in Nat
      /\ Cardinality(Earlier(f, m)) \in Nat
  BY <1>2, UnitsFinite
<1>4. /\ Cardinality(Earlier(f, m)) <= Cardinality(Earlier(f, n))
      /\ Cardinality(Earlier(f, n)) # Cardinality(Earlier(f, m))
  BY <1>1, <1>3, FS_Subset
<1> QED BY <1>3, <1>4

\* The first MaxFocuses rows are at most MaxFocuses: their ranks differ.
LEMMA KeepIsBounded ==
    ASSUME NEW f, FocusTable(f)
    PROVE  /\ Keep(f) \subseteq DOMAIN f
           /\ Cardinality(Keep(f)) <= MaxFocuses
           /\ \A n \in DOMAIN f \ Keep(f) : Cardinality(Earlier(f, n)) >= MaxFocuses
<1> DEFINE rank == [n \in Keep(f) |-> Cardinality(Earlier(f, n))]
           Ranks == 0..(MaxFocuses - 1)
<1>0. MaxFocuses \in Nat \ {0}
  BY SizesAssumption
<1>1. /\ Keep(f) \subseteq DOMAIN f /\ Keep(f) \subseteq Node
      /\ \A n \in Keep(f) : Cardinality(Earlier(f, n)) < MaxFocuses
      /\ \A n \in DOMAIN f \ Keep(f) : ~(Cardinality(Earlier(f, n)) < MaxFocuses)
  BY DEF Keep, Earlier, FocusTable
<1>2. \A n \in DOMAIN f : Cardinality(Earlier(f, n)) \in Nat
  BY UnitsFinite DEF Earlier, FocusTable
<1>3. rank \in [Keep(f) -> Ranks]
  BY <1>0, <1>1, <1>2
<1>4. \A m, n \in Keep(f) : rank[m] = rank[n] => m = n
  BY <1>1, <1>2, BeforeIsOrder, RankGrows
<1>5. rank \in Injection(Keep(f), Ranks)
  <2> HIDE DEF rank, Ranks
  <2> QED BY <1>3, <1>4 DEF Injection, IsInjective
<1>6. IsFiniteSet(Ranks) /\ Cardinality(Ranks) = MaxFocuses
  BY <1>0, FS_Interval
<1>7. Cardinality(Keep(f)) <= Cardinality(Ranks)
  <2> HIDE DEF rank, Ranks
  <2> QED BY <1>5, <1>6, FS_Injection
<1> QED BY <1>0, <1>1, <1>2, <1>6, <1>7

\* A table within the limit is returned whole.
LEMMA KeepAll ==
    ASSUME NEW f, FocusTable(f), Cardinality(DOMAIN f) <= MaxFocuses
    PROVE  Keep(f) = DOMAIN f
<1>1. ASSUME NEW n \in DOMAIN f
      PROVE  Cardinality(Earlier(f, n)) < MaxFocuses
  <2>1. Earlier(f, n) \subseteq DOMAIN f \ {n} /\ DOMAIN f \subseteq Node
    BY BeforeIsOrder DEF Earlier, FocusTable
  <2>2. IsFiniteSet(DOMAIN f) /\ Cardinality(DOMAIN f) \in Nat
    BY <2>1, UnitsFinite
  <2>3. Cardinality(DOMAIN f \ {n}) = Cardinality(DOMAIN f) - 1
    BY <2>2, FS_RemoveElement
  <2>4. Cardinality(Earlier(f, n)) <= Cardinality(DOMAIN f \ {n})
        /\ Cardinality(Earlier(f, n)) \in Nat
    BY <2>1, FewerUnits, UnitsFinite
  <2> QED BY <2>2, <2>3, <2>4, SizesAssumption
<1> QED BY <1>1 DEF Keep, Earlier

-----------------------------------------------------------------------------
(* What the statements on the table leave.                                 *)

\* The order of a row is the place of the last citation of its unit.
LEMMA LastCitation ==
    ASSUME NEW cited \in SeqOf(Node, MaxCitations), NEW n \in Range(cited)
    PROVE  (CHOOSE i \in DOMAIN cited :
               cited[i] = n /\ \A j \in DOMAIN cited : cited[j] = n => j <= i) \in Nat
<1> DEFINE S == {i \in DOMAIN cited : cited[i] = n}
<1>1. PICK k \in 0..MaxCitations : cited \in [1..k -> Node]
  BY DEF SeqOf
<1>2. S \subseteq 0..k /\ S # {} /\ k \in Nat /\ DOMAIN cited \subseteq Nat
  BY <1>1, SizesAssumption DEF Range
<1>3. PICK i \in S : \A j \in S : j <= i
  <2> HIDE DEF S
  <2> QED BY <1>2, GreatestNat
<1>4. \E x \in DOMAIN cited :
         cited[x] = n /\ \A j \in DOMAIN cited : cited[j] = n => j <= x
  BY <1>3
<1> QED BY <1>2, <1>4

LEMMA CitedUnits ==
    ASSUME NEW cited \in SeqOf(Node, MaxCitations)
    PROVE  Range(cited) \subseteq Node
<1>1. PICK k \in 0..MaxCitations : cited \in [1..k -> Node]
  BY DEF SeqOf
<1> QED BY <1>1 DEF Range

\* The table u is f with the cited units dated with turn no.
Upserted(u, f, cited, no) ==
    /\ FocusTable(u)
    /\ DOMAIN u = DOMAIN f \cup Range(cited)
    /\ \A n \in DOMAIN u : u[n].last = IF n \in Range(cited) THEN no ELSE f[n].last

LEMMA UpsertTable ==
    ASSUME NEW f, FocusTable(f), NEW cited \in SeqOf(Node, MaxCitations), NEW no \in Nat,
           NEW u, u = UpsertFocuses(f, cited, no)
    PROVE  Upserted(u, f, cited, no)
<1> DEFINE place(n) == CHOOSE i \in DOMAIN cited :
                          cited[i] = n /\ \A j \in DOMAIN cited : cited[j] = n => j <= i
           row(n) == IF n \in Range(cited) THEN [last |-> no, order |-> place(n)] ELSE f[n]
<1>1. u = [n \in DOMAIN f \cup Range(cited) |-> row(n)]
  BY DEF UpsertFocuses
<1>2. \A n \in Range(cited) : place(n) \in Nat
  BY LastCitation
<1> HIDE DEF place
<1>3. \A n \in DOMAIN f \cup Range(cited) : row(n) \in FocusRow
  BY <1>2 DEF FocusTable, FocusRow
<1>4. Range(cited) \subseteq Node
  BY CitedUnits
<1>5. FocusTable(u) /\ DOMAIN u = DOMAIN f \cup Range(cited)
  <2> HIDE DEF row
  <2> QED BY <1>1, <1>3, <1>4 DEF FocusTable
<1>6. \A n \in DOMAIN u : u[n].last = IF n \in Range(cited) THEN no ELSE f[n].last
  BY <1>1
<1> QED BY <1>5, <1>6 DEF Upserted

LEMMA PruneTable ==
    ASSUME NEW f, FocusTable(f)
    PROVE  /\ FocusTable(PruneFocuses(f)) /\ DOMAIN PruneFocuses(f) = Keep(f)
           /\ \A n \in Keep(f) : PruneFocuses(f)[n] = f[n]
BY KeepIsBounded DEF PruneFocuses, FocusTable

LEMMA EvictTable ==
    ASSUME NEW f, FocusTable(f), NEW no, NEW e, e = EvictExpired(f, no)
    PROVE  /\ FocusTable(e) /\ DOMAIN e = {m \in DOMAIN f : no - f[m].last <= FocusTtl}
           /\ \A n \in DOMAIN e : e[n] = f[n]
BY DEF EvictExpired, FocusTable

-----------------------------------------------------------------------------
(* The table mirrors the citations.                                        *)

\* The steps that end a turn without writing the table.
Untouched == UNCHANGED <<turnNo, focuses, groundedAt>>

LEMMA StepKinds ==
    ASSUME Next
    PROVE  \/ \E m \in Messages : BeginTurn(m)
           \/ Resolve
           \/ EndTurn /\ Untouched
           \/ \E cited \in SeqOf(Node, MaxCitations) :
                 /\ EndTurn /\ phase = "resolved"
                 /\ focuses' = PruneFocuses(UpsertFocuses(focuses, cited, turnNo))
                 /\ groundedAt' = [n \in Node |-> IF n \in Range(cited) THEN turnNo
                                                  ELSE groundedAt[n]]
<1>1. CASE \E cited \in SeqOf(Node, MaxCitations), ca \in BOOLEAN :
              PersistAnswer(cited, ca)
  <2>1. PICK cited \in SeqOf(Node, MaxCitations), ca \in BOOLEAN :
           PersistAnswer(cited, ca)
    BY <1>1
  <2>2. CASE ca \/ cited = <<>>
    BY <2>1, <2>2 DEF PersistAnswer, EndTurn, Untouched
  <2>3. CASE ~(ca \/ cited = <<>>)
    BY <2>1, <2>3 DEF PersistAnswer, Answerable
  <2> QED BY <2>2, <2>3
<1>2. CASE PersistDirect \/ PersistClarification \/ AskToRestate \/ FailTurn
  BY <1>2 DEF PersistDirect, PersistClarification, AskToRestate, FailTurn, EndTurn,
              Untouched
<1> QED BY <1>1, <1>2 DEF Next

LEMMA TypeStep ==
    ASSUME TypeOK, Dated, [Next]_vars
    PROVE  TypeOK' /\ Dated'
<1>1. CASE UNCHANGED vars
  BY <1>1 DEF vars, TypeOK, Dated, FocusTable
<1>2. ASSUME NEW m \in Messages, BeginTurn(m)
      PROVE  TypeOK' /\ Dated'
  <2>1. FocusTable(focuses')
    BY <1>2, EvictTable DEF BeginTurn, TypeOK
  <2>2. turnNo \in Nat /\ turnNo' = turnNo + 1
    BY <1>2 DEF BeginTurn, TypeOK
  <2>3. Dated'
    BY <1>2, <2>2 DEF BeginTurn, Dated, TypeOK
  <2> QED BY <1>2, <2>1, <2>2, <2>3 DEF BeginTurn, TypeOK, FocusTable
<1>3. CASE Resolve
  BY <1>3 DEF Resolve, TypeOK, Dated, FocusTable
<1>4. CASE EndTurn /\ Untouched
  BY <1>4 DEF EndTurn, Untouched, TypeOK, Dated, FocusTable
<1>5. ASSUME NEW cited \in SeqOf(Node, MaxCitations), EndTurn,
             focuses' = PruneFocuses(UpsertFocuses(focuses, cited, turnNo)),
             groundedAt' = [n \in Node |-> IF n \in Range(cited) THEN turnNo
                                           ELSE groundedAt[n]]
      PROVE  TypeOK' /\ Dated'
  <2>1. FocusTable(focuses')
    BY <1>5, UpsertTable, PruneTable DEF TypeOK, Upserted
  <2>2. groundedAt' \in [Node -> Nat] /\ Dated'
    BY <1>5 DEF TypeOK, Dated, EndTurn
  <2> QED BY <1>5, <2>1, <2>2 DEF TypeOK, EndTurn, FocusTable
<1> QED BY <1>1, <1>2, <1>3, <1>4, <1>5, StepKinds

\* Why a cited unit may have no row.
Missed(n, g, no) ==
    \/ no - g[n] > FocusTtl
    \/ Cardinality({m \in Node : g[m] >= g[n] /\ m # n}) >= MaxFocuses

LEMMA MirrorStep ==
    ASSUME TypeOK, Dated, FocusMirrorsCitations, [Next]_vars
    PROVE  FocusMirrorsCitations'
<1>0. /\ Cardinality(DOMAIN focuses) <= MaxFocuses
      /\ \A n \in DOMAIN focuses : focuses[n].last > 0 /\ focuses[n].last = groundedAt[n]
      /\ \A n \in Node \ DOMAIN focuses : groundedAt[n] > 0 => Missed(n, groundedAt, turnNo)
  BY DEF FocusMirrorsCitations, Missed
<1>a. ASSUME UNCHANGED <<turnNo, focuses, groundedAt>>
      PROVE  FocusMirrorsCitations'
  BY <1>a DEF FocusMirrorsCitations
<1>1. CASE UNCHANGED vars
  BY <1>1, <1>a DEF vars
<1>2. ASSUME NEW m \in Messages, BeginTurn(m)
      PROVE  FocusMirrorsCitations'
  <2>1. /\ turnNo \in Nat /\ turnNo' = turnNo + 1 /\ groundedAt' = groundedAt
        /\ groundedAt \in [Node -> Nat] /\ DOMAIN focuses \subseteq Node
    BY <1>2 DEF BeginTurn, TypeOK, FocusTable
  <2>2. /\ DOMAIN focuses' = {n \in DOMAIN focuses : turnNo' - focuses[n].last <= FocusTtl}
        /\ \A n \in DOMAIN focuses' : focuses'[n] = focuses[n]
    BY <1>2 DEF BeginTurn, EvictExpired
  <2>3. Cardinality(DOMAIN focuses') <= MaxFocuses
    <3>1. Cardinality(DOMAIN focuses') <= Cardinality(DOMAIN focuses)
      BY <2>1, <2>2, FewerUnits
    <3>2. Cardinality(DOMAIN focuses') \in Nat /\ Cardinality(DOMAIN focuses) \in Nat
      BY <2>1, <2>2, UnitsFinite
    <3> QED BY <1>0, <3>1, <3>2, SizesAssumption
  <2>4. \A n \in DOMAIN focuses' :
           focuses'[n].last > 0 /\ focuses'[n].last = groundedAt'[n]
    BY <1>0, <2>1, <2>2
  <2>5. ASSUME NEW n \in Node \ DOMAIN focuses', groundedAt'[n] > 0
        PROVE  Missed(n, groundedAt', turnNo')
    <3>1. CASE n \in DOMAIN focuses
      <4>1. turnNo' - groundedAt[n] > FocusTtl
        BY <1>0, <2>1, <2>2, <2>5, <3>1, SizesAssumption
      <4> QED BY <2>1, <4>1 DEF Missed
    <3>2. CASE n \notin DOMAIN focuses
      <4>1. Missed(n, groundedAt, turnNo)
        BY <1>0, <2>1, <2>5, <3>2
      <4>2. turnNo - groundedAt[n] > FocusTtl => turnNo' - groundedAt[n] > FocusTtl
        BY <2>1, <2>5, SizesAssumption
      <4> QED BY <2>1, <4>1, <4>2 DEF Missed
    <3> QED BY <3>1, <3>2
  <2> QED BY <2>3, <2>4, <2>5 DEF FocusMirrorsCitations, Missed
<1>3. CASE Resolve
  BY <1>3, <1>a DEF Resolve
<1>4. CASE EndTurn /\ Untouched
  BY <1>4, <1>a DEF Untouched
<1>5. ASSUME NEW cited \in SeqOf(Node, MaxCitations), EndTurn, phase = "resolved",
             focuses' = PruneFocuses(UpsertFocuses(focuses, cited, turnNo)),
             groundedAt' = [n \in Node |-> IF n \in Range(cited) THEN turnNo
                                           ELSE groundedAt[n]]
      PROVE  FocusMirrorsCitations'
  <2>1. PICK u : u = UpsertFocuses(focuses, cited, turnNo)
    OBVIOUS
  <2>2. /\ turnNo \in Nat /\ turnNo > 0 /\ turnNo' = turnNo
        /\ groundedAt \in [Node -> Nat] /\ groundedAt' \in [Node -> Nat]
        /\ DOMAIN focuses \subseteq Node
    BY <1>5 DEF EndTurn, TypeOK, FocusTable
  <2>3. /\ FocusTable(u) /\ DOMAIN u = DOMAIN focuses \cup Range(cited)
        /\ \A n \in DOMAIN u : u[n].last = IF n \in Range(cited) THEN turnNo
                                           ELSE focuses[n].last
        /\ DOMAIN u \subseteq Node
    <3>1. FocusTable(focuses)
      BY DEF TypeOK
    <3>2. Upserted(u, focuses, cited, turnNo)
      BY <2>1, <2>2, <3>1, UpsertTable
    <3> QED BY <3>2 DEF Upserted, FocusTable
  <2>4. DOMAIN focuses' = Keep(u) /\ \A n \in Keep(u) : focuses'[n] = u[n]
    BY <1>5, <2>1, <2>3, PruneTable
  <2>5. /\ Keep(u) \subseteq DOMAIN u /\ Cardinality(Keep(u)) <= MaxFocuses
        /\ \A n \in DOMAIN u \ Keep(u) : Cardinality(Earlier(u, n)) >= MaxFocuses
    BY <2>3, KeepIsBounded
  <2>6. \A n \in DOMAIN u : u[n].last = groundedAt'[n] /\ u[n].last > 0
    BY <1>0, <1>5, <2>2, <2>3
  <2>7. ASSUME NEW n \in Node \ Keep(u), groundedAt'[n] > 0
        PROVE  Missed(n, groundedAt', turnNo')
    <3> DEFINE Newer == {m \in Node : groundedAt'[m] >= groundedAt'[n] /\ m # n}
    <3>1. Cardinality(Newer) \in Nat
      BY UnitsFinite
    <3>2. CASE n \in DOMAIN u
      <4>1. Earlier(u, n) \subseteq Newer
        BY <2>2, <2>3, <2>6, <3>2, BeforeIsOrder DEF Earlier, Before
      <4>2. Cardinality(Earlier(u, n)) <= Cardinality(Newer)
        BY <4>1, FewerUnits
      <4>3. Cardinality(Earlier(u, n)) >= MaxFocuses /\ Cardinality(Earlier(u, n)) \in Nat
        BY <2>3, <2>5, <2>7, <3>2, UnitsFinite DEF Earlier
      <4>4. Cardinality(Newer) >= MaxFocuses
        BY <3>1, <4>2, <4>3, SizesAssumption
      <4> QED BY <4>4 DEF Missed
    <3>3. CASE n \notin DOMAIN u
      <4>1. groundedAt'[n] = groundedAt[n] /\ n \notin DOMAIN focuses
        BY <1>5, <2>3, <3>3
      <4>2. Missed(n, groundedAt, turnNo)
        BY <1>0, <2>7, <4>1
      <4> DEFINE Older == {m \in Node : groundedAt[m] >= groundedAt[n] /\ m # n}
      <4>3. Older \subseteq Newer
        BY <1>5, <2>2, <4>1 DEF Dated
      <4>4. Cardinality(Older) <= Cardinality(Newer) /\ Cardinality(Older) \in Nat
        BY <4>3, FewerUnits, UnitsFinite
      <4>5. Cardinality(Older) >= MaxFocuses => Cardinality(Newer) >= MaxFocuses
        BY <3>1, <4>4, SizesAssumption
      <4> QED BY <2>2, <4>1, <4>2, <4>5 DEF Missed
    <3> QED BY <3>2, <3>3
  <2> QED BY <2>4, <2>5, <2>6, <2>7 DEF FocusMirrorsCitations, Missed
<1> QED BY <1>1, <1>2, <1>3, <1>4, <1>5, StepKinds

-----------------------------------------------------------------------------
(* The resolver.                                                           *)

\* One matching row: the list of the matches is that row.
LEMMA SingleMatch ==
    ASSUME NEW f, FocusTable(f), NEW S, S \subseteq DOMAIN f, Len(InOrder(f, S)) = 1
    PROVE  S = {InOrder(f, S)[1]}
<1>1. S \subseteq Node /\ IsFiniteSet(S) /\ Cardinality(S) \in Nat
  BY UnitsFinite DEF FocusTable
<1>2. Cardinality(S) = 1
  BY <1>1 DEF InOrder
<1>3. PICK x : S = {x}
  BY <1>1, <1>2, FS_Singleton
<1>4. {m \in S : Before(f, m, x)} = {}
  BY <1>3, BeforeIsOrder
<1>5. Cardinality({m \in S : Before(f, m, x)}) = 1 - 1
  BY <1>4, FS_EmptySet
<1> DEFINE at(i) == CHOOSE n \in S : Cardinality({m \in S : Before(f, m, n)}) = i - 1
<1>6. InOrder(f, S) = [i \in 1..Cardinality(S) |-> at(i)]
  BY Zenon DEF InOrder
<1>7. at(1) = x
  BY <1>3, <1>5
<1>8. InOrder(f, S)[1] = x
  <2> HIDE DEF at
  <2> QED BY <1>2, <1>6, <1>7
<1> QED BY <1>3, <1>8

\* What one candidate, several and none make of a reference.
LEMMA CandidateOutcomes ==
    ASSUME NEW nodes, NEW src
    PROVE  \/ /\ Len(nodes) = 1
              /\ FromCandidates(nodes, src) = Resolved(nodes[1], src)
           \/ FromCandidates(nodes, src).kind = "clarify"
BY DEF FromCandidates, ClarifyFromCandidates, Clarify

LEMMA FreshOutcomes ==
    ASSUME ResolveFresh(message).kind = "resolved",
           ResolveFresh(message).source = "grounded_history"
    PROVE  /\ message.kind = "anaphora"
           /\ Len(AnaphoraMatches(message.type)) = 1
           /\ ResolveFresh(message).node = AnaphoraMatches(message.type)[1]
<1>1. CASE message.kind = "explicit"
  <2>1. ResolveFresh(message) = FromCandidates(message.found, "current_message")
    BY <1>1 DEF ResolveFresh
  <2> QED BY <2>1, CandidateOutcomes DEF Resolved
<1>2. CASE message.kind = "anaphora"
  <2>1. ResolveFresh(message)
           = FromCandidates(AnaphoraMatches(message.type), "grounded_history")
    BY <1>2 DEF ResolveFresh
  <2> QED BY <1>2, <2>1, CandidateOutcomes DEF Resolved
<1>3. CASE message.kind \notin {"explicit", "anaphora"}
  BY <1>3 DEF ResolveFresh, Standalone
<1> QED BY <1>1, <1>2, <1>3

\* A fresh message answers no pending question.
LEMMA FreshIsNoPick ==
    ASSUME ResolveFresh(message).kind = "resolved"
    PROVE  ResolveFresh(message).source # "pending_clarification"
<1>1. ASSUME NEW nodes, NEW src \in {"current_message", "grounded_history"},
             FromCandidates(nodes, src).kind = "resolved"
      PROVE  FromCandidates(nodes, src).source # "pending_clarification"
  BY <1>1, CandidateOutcomes DEF Resolved
<1>2. CASE message.kind = "explicit"
  <2>1. ResolveFresh(message) = FromCandidates(message.found, "current_message")
    BY <1>2 DEF ResolveFresh
  <2> QED BY <1>1, <2>1
<1>3. CASE message.kind = "anaphora"
  <2>1. ResolveFresh(message)
           = FromCandidates(AnaphoraMatches(message.type), "grounded_history")
    BY <1>3 DEF ResolveFresh
  <2> QED BY <1>1, <2>1
<1>4. CASE message.kind \notin {"explicit", "anaphora"}
  BY <1>4 DEF ResolveFresh, Standalone
<1> QED BY <1>2, <1>3, <1>4

\* While a question is pending, a message is answered as a fresh one, resolves
\* nothing, or picks a candidate of the SELECT.
LEMMA PendingOutcomes ==
    \/ ResolvePending(message) = ResolveFresh(message)
    \/ ResolvePending(message).kind # "resolved"
    \/ /\ message.kind = "pick" /\ pending.mode = "SELECT"
       /\ message.index \in DOMAIN pending.candidates
       /\ ResolvePending(message)
             = Resolved(pending.candidates[message.index].node, "pending_clarification")
<1>1. CASE message.kind = "cancel"
  <2>1. ResolvePending(message) = Cancelled
    BY <1>1 DEF ResolvePending
  <2> QED BY <2>1 DEF Cancelled
<1>2. CASE message.kind # "cancel" /\ pending.mode = "SELECT"
  <2>1. CASE message.kind = "pick" /\ message.index \in DOMAIN pending.candidates
    BY <1>2, <2>1 DEF ResolvePending
  <2>2. CASE ~(message.kind = "pick" /\ message.index \in DOMAIN pending.candidates)
    <3>1. ResolvePending(message) = Clarify(pending)
      BY <1>2, <2>2 DEF ResolvePending
    <3> QED BY <3>1 DEF Clarify
  <2> QED BY <2>1, <2>2
<1>3. CASE message.kind # "cancel" /\ pending.mode # "SELECT"
  BY <1>3 DEF ResolvePending
<1> QED BY <1>1, <1>2, <1>3

LEMMA ResolverStep ==
    ASSUME TypeOK, FocusMirrorsCitations, Fresh, PendingIsAsked, Resolve
    PROVE  AnaphoraIsSafe' /\ PickAnswersTheQuestion'
<1>1. /\ phase = "begun" /\ FocusTable(focuses)
      /\ UNCHANGED <<turnNo, focuses, pending, message, groundedAt, asked>>
      /\ outcome' = IF pending = NoPending THEN ResolveFresh(message)
                                           ELSE ResolvePending(message)
  BY DEF Resolve, TypeOK
<1>2. ASSUME outcome'.kind = "resolved", outcome'.source = "grounded_history"
      PROVE  /\ message.kind = "anaphora"
             /\ turnNo - groundedAt[outcome'.node] <= FocusTtl
             /\ \A n \in DOMAIN focuses :
                   message.type \in {"Any", NodeType[n]} => n = outcome'.node
  <2>1. outcome' = ResolveFresh(message)
    BY <1>1, <1>2, PendingOutcomes DEF Resolved
  <2> DEFINE S == {n \in DOMAIN focuses :
                      message.type = "Any" \/ NodeType[n] = message.type}
  <2>2. AnaphoraMatches(message.type) = InOrder(focuses, S)
    BY <1>1, KeepAll DEF AnaphoraMatches, LoadFocuses, FocusMirrorsCitations
  <2>3. /\ message.kind = "anaphora" /\ Len(InOrder(focuses, S)) = 1
        /\ outcome'.node = InOrder(focuses, S)[1]
    BY <1>2, <2>1, <2>2, FreshOutcomes
  <2>4. S = {outcome'.node}
    <3>1. S \subseteq DOMAIN focuses
      OBVIOUS
    <3> HIDE DEF S
    <3> QED BY <1>1, <2>3, <3>1, SingleMatch
  <2>5. outcome'.node \in DOMAIN focuses
    BY <2>4
  <2>6. turnNo - groundedAt[outcome'.node] <= FocusTtl
    BY <1>1, <2>5 DEF Fresh, FocusMirrorsCitations
  <2> QED BY <2>3, <2>4, <2>6
<1>3. AnaphoraIsSafe'
  BY <1>1, <1>2 DEF AnaphoraIsSafe
<1>4. ASSUME outcome'.kind = "resolved", outcome'.source = "pending_clarification"
      PROVE  /\ message.kind = "pick"
             /\ asked.mode = "SELECT" /\ message.index \in DOMAIN asked.candidates
             /\ outcome'.node = asked.candidates[message.index].node
  <2>1. outcome' # ResolveFresh(message)
    BY <1>4, FreshIsNoPick
  <2> QED BY <1>1, <1>4, <2>1, PendingOutcomes DEF Resolved, PendingIsAsked
<1>5. PickAnswersTheQuestion'
  BY <1>1, <1>4 DEF PickAnswersTheQuestion
<1> QED BY <1>3, <1>5

LEMMA ContextStep ==
    ASSUME TypeOK, Dated, FocusMirrorsCitations, Fresh, AnaphoraIsSafe, PendingIsAsked,
           PickAnswersTheQuestion, [Next]_vars
    PROVE  Fresh' /\ AnaphoraIsSafe' /\ PickAnswersTheQuestion'
<1>1. CASE UNCHANGED vars
  BY <1>1 DEF vars, Fresh, AnaphoraIsSafe, PickAnswersTheQuestion
<1>2. ASSUME NEW m \in Messages, BeginTurn(m)
      PROVE  Fresh' /\ AnaphoraIsSafe' /\ PickAnswersTheQuestion'
  BY <1>2 DEF BeginTurn, EvictExpired, Fresh, AnaphoraIsSafe, PickAnswersTheQuestion
<1>3. CASE Resolve
  BY <1>3, ResolverStep DEF Resolve, Fresh
<1>4. CASE EndTurn
  BY <1>4 DEF EndTurn, Fresh, AnaphoraIsSafe, PickAnswersTheQuestion
<1> QED BY <1>1, <1>2, <1>3, <1>4, StepKinds

\* Every step writes the pending clarification with the reply that asks it.
LEMMA AskedStep ==
    ASSUME PendingIsAsked, [Next]_vars
    PROVE  PendingIsAsked'
<1>1. CASE UNCHANGED vars \/ Resolve \/ FailTurn \/ \E m \in Messages : BeginTurn(m)
  BY <1>1 DEF vars, Resolve, FailTurn, BeginTurn, PendingIsAsked
<1>2. CASE PersistDirect \/ PersistClarification \/ AskToRestate
            \/ \E cited \in SeqOf(Node, MaxCitations), ca \in BOOLEAN :
                  PersistAnswer(cited, ca)
  BY <1>2 DEF PersistDirect, PersistClarification, AskToRestate, PersistAnswer,
              PendingIsAsked
<1> QED BY <1>1, <1>2 DEF Next

-----------------------------------------------------------------------------
(* The theorems.                                                           *)

LEMMA Initially ==
    ASSUME Init
    PROVE  IInv
<1>1. DOMAIN focuses = {}
  BY DEF Init
<1>2. Cardinality(DOMAIN focuses) <= MaxFocuses
  BY <1>1, FS_EmptySet, SizesAssumption
<1>3. TypeOK /\ Dated
  BY <1>1 DEF Init, TypeOK, Dated, FocusTable
<1>4. FocusMirrorsCitations
  BY <1>1, <1>2 DEF Init, FocusMirrorsCitations
<1> QED BY <1>3, <1>4 DEF Init, IInv, Fresh, AnaphoraIsSafe, PendingIsAsked,
                          PickAnswersTheQuestion

\* IInv is inductive: every turn, however it ends, keeps it.
THEOREM Invariance == Spec => []IInv
<1>1. IInv /\ [Next]_vars => IInv'
  BY TypeStep, MirrorStep, ContextStep, AskedStep DEF IInv
<1> QED BY Initially, <1>1, PTL DEF Spec

\* For any limits and any sequence of answers, failures and questions, the focus
\* rows are the last grounded citations, at most MaxFocuses of them, and a cited
\* unit is missing only when it expired or enough others were cited no earlier.
THEOREM MirrorCorrect == Spec => []FocusMirrorsCitations
<1>1. IInv => FocusMirrorsCitations
  BY DEF IInv
<1> QED BY <1>1, Invariance, PTL

\* A back-reference never resolves to a unit that is stale or that is not the only
\* remembered one of its type.
THEOREM AnaphoraCorrect == Spec => []AnaphoraIsSafe
<1>1. IInv => AnaphoraIsSafe
  BY DEF IInv
<1> QED BY <1>1, Invariance, PTL

\* An ordinal resolves to what stands at its place in the list that the last
\* answered turn showed, over any turns that failed or were cancelled since.
THEOREM PickCorrect == Spec => []PickAnswersTheQuestion
<1>1. IInv => PickAnswersTheQuestion
  BY DEF IInv
<1> QED BY <1>1, Invariance, PTL
=============================================================================
