------------------------- MODULE ConversationContext -------------------------
(***************************************************************************)
(* The context one conversation carries from turn to turn: grounded         *)
(* focuses, the pending clarification, and the deterministic reference      *)
(* resolver that reads them (apps/backend/resolution/resolver.py,           *)
(* persistence/repository.py, conversation/service.py).  The turns of a     *)
(* conversation are serialised by its advisory lock (ConversationTurn), so  *)
(* here they follow one another.  A message is abstracted to what the       *)
(* resolver's detectors find in it, a legal unit to a number that is its    *)
(* node_id (and sorts like it) with a type.                                 *)
(***************************************************************************)
EXTENDS Naturals, Sequences, FiniteSets, SequencesExt

CONSTANTS
    NodeCount,     \* legal units are 1..NodeCount
    NodeType,      \* [Node -> UnitTypes]
    MaxFocuses,    \* MAX_GROUNDED_FOCUSES
    FocusTtl,      \* FOCUS_TTL_USER_TURNS
    MaxCandidates, \* _MAX_CLARIFICATION_CANDIDATES
    MaxFound,      \* bound: canonical candidates one message names
    MaxCitations,  \* bound: citations of one answer
    MaxTurns       \* bound: user turns of the conversation

Node == 1..NodeCount
UnitTypes == {"Document", "Article", "Clause"}

ASSUME SizesAssumption ==
    /\ NodeCount \in Nat /\ NodeType \in [Node -> UnitTypes]
    /\ MaxFocuses \in Nat \ {0} /\ FocusTtl \in Nat /\ MaxCandidates \in Nat \ {0, 1}
    /\ MaxFound \in Nat /\ MaxCitations \in Nat /\ MaxTurns \in Nat

VARIABLES
    phase,      \* "idle", "begun" (context loaded), "resolved"
    turnNo,     \* user_turn_no of the latest turn
    focuses,    \* grounded_focuses: partial function Node -> [last, order]
    pending,    \* pending_clarifications: NoPending or [mode, candidates]
    message,    \* what the current user message contains
    outcome,    \* the resolver's outcome for it
    groundedAt, \* [Node -> Nat]: turn of the last grounded citation (history)
    asked       \* what the last answered turn asked the user to do (history)

vars == <<phase, turnNo, focuses, pending, message, outcome, groundedAt, asked>>

Candidate == [node : Node, source : {"current_message", "grounded_history"}]
NoPending == [mode |-> "NONE", candidates |-> <<>>]
Restate == [mode |-> "RESTATE", candidates |-> <<>>]
Select(cs) == [mode |-> "SELECT", candidates |-> cs]

\* A message as the detectors see it; "pick" is an ordinal or a label.
Messages ==
    [kind : {"cancel", "greeting", "plain"}]
    \cup [kind : {"pick"}, index : 1..MaxCandidates]
    \cup [kind : {"explicit"}, found : {s \in SeqOf(Node, MaxFound) : IsInjective(s)}]
    \cup [kind : {"anaphora"}, type : UnitTypes \cup {"Point", "Any"}]

NoMessage == [kind |-> "none"]
Standalone == [kind |-> "standalone"]
Cancelled == [kind |-> "cancel"]
Clarify(p) == [kind |-> "clarify", pending |-> p]
Resolved(n, src) == [kind |-> "resolved", node |-> n, source |-> src]
NoOutcome == [kind |-> "none"]

Init ==
    /\ phase = "idle"
    /\ turnNo = 0
    /\ focuses = [n \in {} |-> 0]
    /\ pending = NoPending
    /\ message = NoMessage
    /\ outcome = NoOutcome
    /\ groundedAt = [n \in Node |-> 0]
    /\ asked = NoPending

-----------------------------------------------------------------------------
(* Grounded focuses *)

\* Mutant: the oldest focus first.
BeforeOldest(f, m, n) ==
    \/ f[m].last < f[n].last
    \/ f[m].last = f[n].last /\ f[m].order < f[n].order
    \/ f[m].last = f[n].last /\ f[m].order = f[n].order /\ m < n

\* ORDER BY last_grounded_user_turn_no DESC, citation_order ASC, node_id ASC.
Before(f, m, n) ==
    \/ f[m].last > f[n].last
    \/ f[m].last = f[n].last /\ f[m].order < f[n].order
    \/ f[m].last = f[n].last /\ f[m].order = f[n].order /\ m < n

\* The first MaxFocuses rows in that order.
Keep(f) == {n \in DOMAIN f : Cardinality({m \in DOMAIN f : Before(f, m, n)}) < MaxFocuses}

\* _load_focuses deletes the rows idle for more than the TTL.
EvictExpired(f, no) == [n \in {m \in DOMAIN f : no - f[m].last <= FocusTtl} |-> f[n]]

\* ... and returns at most MaxFocuses of the rest ...
LoadFocuses(f) == Keep(f)

\* ... in that order: the rows S of f, each after those that come before it.
InOrder(f, S) ==
    [i \in 1..Cardinality(S) |->
        CHOOSE n \in S : Cardinality({m \in S : Before(f, m, n)}) = i - 1]

\* focus_upserts_from_citations and _upsert_focuses: in citation order, a
\* later citation of the same node wins.
UpsertFocuses(f, cited, no) ==
    [n \in DOMAIN f \cup Range(cited) |->
        IF n \in Range(cited)
        THEN [last |-> no, order |-> CHOOSE i \in DOMAIN cited :
                 cited[i] = n /\ \A j \in DOMAIN cited : cited[j] = n => j <= i]
        ELSE f[n]]

\* _prune_focuses.
PruneFocuses(f) == [n \in Keep(f) |-> f[n]]

-----------------------------------------------------------------------------
(* ReferenceResolver *)

\* _clarify_from_candidates: SELECT over the first MaxCandidates.
ClarifyFromCandidates(nodes, src) ==
    LET k == IF Len(nodes) < MaxCandidates THEN Len(nodes) ELSE MaxCandidates IN
    Clarify(Select([i \in 1..k |-> [node |-> nodes[i], source |-> src]]))

\* One candidate resolves, several ask to select, none asks to restate.
FromCandidates(nodes, src) ==
    IF Len(nodes) = 1 THEN Resolved(nodes[1], src)
    ELSE IF Len(nodes) > 1 THEN ClarifyFromCandidates(nodes, src)
    ELSE Clarify(Restate)

\* _resolve_anaphora: the loaded focuses of the expected type; a Point is
\* never the type of a focus.
AnaphoraMatches(type) ==
    InOrder(focuses,
            {n \in LoadFocuses(focuses) : type = "Any" \/ NodeType[n] = type})

\* Mutant: the most recent of several focuses is taken.
ResolveFreshMostRecent(m) ==
    CASE m.kind = "explicit" -> FromCandidates(m.found, "current_message")
      [] m.kind = "anaphora" ->
            LET matches == AnaphoraMatches(m.type) IN
            IF matches # <<>> THEN Resolved(matches[1], "grounded_history")
            ELSE Clarify(Restate)
      [] OTHER -> Standalone

\* _resolve_fresh: explicit references, then anaphora, then standalone.
ResolveFresh(m) ==
    CASE m.kind = "explicit" -> FromCandidates(m.found, "current_message")
      [] m.kind = "anaphora" -> FromCandidates(AnaphoraMatches(m.type), "grounded_history")
      [] OTHER -> Standalone

\* _resolve_pending: cancel, a valid pick of a SELECT, the same SELECT again,
\* or a fresh message after a RESTATE.
ResolvePending(m) ==
    CASE m.kind = "cancel" -> Cancelled
      [] m.kind # "cancel" /\ pending.mode = "SELECT" ->
            IF m.kind = "pick" /\ m.index \in DOMAIN pending.candidates
            THEN Resolved(pending.candidates[m.index].node, "pending_clarification")
            ELSE Clarify(pending)
      [] OTHER -> ResolveFresh(m)

-----------------------------------------------------------------------------
(* Turns *)

\* begin_turn_and_load_context: the next turn number, eviction, the context.
BeginTurn(m) ==
    /\ phase = "idle"
    /\ turnNo < MaxTurns
    /\ turnNo' = turnNo + 1
    /\ focuses' = EvictExpired(focuses, turnNo')
    /\ message' = m
    /\ phase' = "begun"
    /\ UNCHANGED <<pending, outcome, groundedAt, asked>>

\* resolver.resolve: a pending clarification has precedence.
Resolve ==
    /\ phase = "begun"
    /\ outcome' = IF pending = NoPending THEN ResolveFresh(message)
                                         ELSE ResolvePending(message)
    /\ phase' = "resolved"
    /\ UNCHANGED <<turnNo, focuses, pending, message, groundedAt, asked>>

EndTurn ==
    /\ phase' = "idle"
    /\ message' = NoMessage
    /\ outcome' = NoOutcome
    /\ UNCHANGED turnNo

\* _persist_cancel and _persist_small_talk: persist_grounded_answer without
\* citations, which deletes the pending clarification.
PersistDirect ==
    /\ phase = "resolved"
    /\ \/ outcome.kind = "cancel"
       \/ outcome.kind = "standalone" /\ message.kind = "greeting"
    /\ pending' = NoPending
    /\ asked' = NoPending
    /\ EndTurn
    /\ UNCHANGED <<focuses, groundedAt>>

\* _persist_clarification of the resolver's question.
PersistClarification ==
    /\ phase = "resolved"
    /\ outcome.kind = "clarify"
    /\ pending' = outcome.pending
    /\ asked' = outcome.pending
    /\ EndTurn
    /\ UNCHANGED <<focuses, groundedAt>>

Answerable ==
    /\ phase = "resolved"
    /\ \/ outcome.kind = "resolved"
       \/ outcome.kind = "standalone" /\ message.kind # "greeting"

\* A filter conflict (of a resolved reference) or the query processor asks
\* the user to restate.
AskToRestate ==
    /\ Answerable
    /\ pending' = Restate
    /\ asked' = Restate
    /\ EndTurn
    /\ UNCHANGED <<focuses, groundedAt>>

\* Mutant: only a grounded answer deletes the pending clarification.
PersistAnswerOnly(cited, cannotAnswer) ==
    /\ Answerable
    /\ pending' = IF cannotAnswer \/ cited = <<>> THEN pending ELSE NoPending
    /\ asked' = NoPending
    /\ IF cannotAnswer \/ cited = <<>>
       THEN UNCHANGED <<focuses, groundedAt>>
       ELSE /\ focuses' = PruneFocuses(UpsertFocuses(focuses, cited, turnNo))
            /\ groundedAt' = [n \in Node |-> IF n \in Range(cited) THEN turnNo
                                             ELSE groundedAt[n]]
    /\ EndTurn

\* _finish_answer: persist_grounded_answer deletes the pending clarification
\* and, unless the answer is cannot_answer or cites nothing, upserts and
\* prunes the focuses.
PersistAnswer(cited, cannotAnswer) ==
    /\ Answerable
    /\ pending' = NoPending
    /\ asked' = NoPending
    /\ IF cannotAnswer \/ cited = <<>>
       THEN UNCHANGED <<focuses, groundedAt>>
       ELSE /\ focuses' = PruneFocuses(UpsertFocuses(focuses, cited, turnNo))
            /\ groundedAt' = [n \in Node |-> IF n \in Range(cited) THEN turnNo
                                             ELSE groundedAt[n]]
    /\ EndTurn

\* mark_turn_failed, or no final transaction at all (cancellation, crash):
\* neither the pending clarification nor the focuses are written.
FailTurn ==
    /\ phase \in {"begun", "resolved"}
    /\ EndTurn
    /\ UNCHANGED <<focuses, pending, groundedAt, asked>>

Next ==
    \/ \E m \in Messages : BeginTurn(m)
    \/ Resolve
    \/ PersistDirect
    \/ PersistClarification
    \/ AskToRestate
    \/ \E cited \in SeqOf(Node, MaxCitations), ca \in BOOLEAN : PersistAnswer(cited, ca)
    \/ FailTurn

Spec == Init /\ [][Next]_vars

-----------------------------------------------------------------------------
(* Properties *)

\* The focus rows mirror the grounded citations.  Every row is a unit cited by
\* a completed answer, dated with the last such turn, and there are at most
\* MaxFocuses of them; no clarification, failure or cannot-answer leaves one.
\* Pruning prefers what was cited last: a cited unit has no row only if it
\* expired or MaxFocuses units were cited no earlier.
FocusMirrorsCitations ==
    /\ Cardinality(DOMAIN focuses) <= MaxFocuses
    /\ \A n \in DOMAIN focuses : focuses[n].last > 0 /\ focuses[n].last = groundedAt[n]
    /\ \A n \in Node \ DOMAIN focuses : groundedAt[n] > 0 =>
        \/ turnNo - groundedAt[n] > FocusTtl
        \/ Cardinality({m \in Node : groundedAt[m] >= groundedAt[n] /\ m # n}) >= MaxFocuses

\* A back-reference resolves only to the single remembered unit of its type,
\* cited at most FocusTtl turns ago: recency never decides between two.
AnaphoraIsSafe ==
    phase = "resolved" /\ outcome.kind = "resolved" /\ outcome.source = "grounded_history" =>
        /\ message.kind = "anaphora"
        /\ turnNo - groundedAt[outcome.node] <= FocusTtl
        /\ \A n \in DOMAIN focuses :
              message.type \in {"Any", NodeType[n]} => n = outcome.node

\* An ordinal or a label means what the user was last shown: it resolves to the
\* unit at that place of the list the last answered turn ended with, whatever
\* turns failed since, and to nothing if that turn ended with an answer.
PickAnswersTheQuestion ==
    phase = "resolved" /\ outcome.kind = "resolved"
            /\ outcome.source = "pending_clarification" =>
        /\ message.kind = "pick"
        /\ asked.mode = "SELECT" /\ message.index \in DOMAIN asked.candidates
        /\ outcome.node = asked.candidates[message.index].node
=============================================================================
