------------------------- MODULE MCAnswerGeneration -------------------------
(* Three units of one version family and five one- or two-edge paths. *)
EXTENDS AnswerGeneration, TLC

CONSTANTS u1, u2, u3

\* u1 and u3 repeat the same text of one document, u2 is the other version;
\* u2 is out of force on day 2.
MCUnitInfo ==
    (u1 :> [doc |-> "d1", family |-> "f", content |-> "x", from |-> 1, to |-> NoDate, cost |-> 1])
    @@ (u2 :> [doc |-> "d2", family |-> "f", content |-> "y", from |-> 1, to |-> 2, cost |-> 2])
    @@ (u3 :> [doc |-> "d1", family |-> None, content |-> "x", from |-> 1, to |-> NoDate, cost |-> 1])

Edge(t, s) == [type |-> t, source |-> s]
MCPathInfo ==
    ("ref" :> [edges |-> {Edge("REFERS_TO", u1)}, citable |-> {u1, u3}, cost |-> 1])
    @@ ("ref2" :> [edges |-> {Edge("REFERS_TO", u2)}, citable |-> {u2, u3}, cost |-> 0])
    @@ ("part" :> [edges |-> {Edge("CONTAINS", u1)}, citable |-> {u1, u3}, cost |-> 1])
    @@ ("amend" :> [edges |-> {Edge("AMENDS", u2)}, citable |-> {u2, u3}, cost |-> 1])
    @@ ("hop" :> [edges |-> {Edge("CONTAINS", u1), Edge("REFERS_TO", u3)},
                  citable |-> {u1, u3}, cost |-> 1])
MCPaths == DOMAIN MCPathInfo
MCAnchors == {{}, {u1}, {u2}, {"document"}}

\* Quotes are verbatim or not, assertions are linked or not; a candidate cites
\* one unit or two and shows a path or asserts about a unit.
Assertions == {{}} \cup {{[subject |-> u, date |-> d, valid |-> v]} :
                            u \in Units, d \in {2, 3}, v \in BOOLEAN}
Candidate(t, cs, ps, as, l) ==
    [text |-> t, cites |-> cs, paths |-> ps, asserts |-> as, linked |-> l]
MCCandidates ==
    {Candidate("fine", {u}, ps, {}, TRUE) : u \in Units, ps \in {{p} : p \in MCPaths}}
    \cup {Candidate("fine", {u}, {}, as, TRUE) : u \in Units, as \in Assertions}
    \cup {Candidate("fine", {u1, u2}, {}, {}, TRUE),
          Candidate("paraphrased", {u1}, {}, {}, TRUE),
          Candidate("fine", {u1}, {}, {}, FALSE)}

\* The candidates of the instance can say what an answer needs.
ASSUME CandidatesAssumption == Expressive
=============================================================================
