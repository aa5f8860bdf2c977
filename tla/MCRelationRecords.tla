-------------------------- MODULE MCRelationRecords --------------------------
EXTENDS RelationRecords

MCHostTypes == [h |-> "Document", h1 |-> "Article", h2 |-> "Article",
                c1 |-> "Clause", s1 |-> "Subsection"]
MCTargetTypes == [t |-> "Document", t1 |-> "Article", t2 |-> "Article",
                  tc |-> "Chapter"]
\* i1 and i3 lie in one Article of the target, i9 in none.
MCItemUnit == [i1 |-> "t1", i2 |-> "t2", i3 |-> "t1", i4 |-> "tc",
               j1 |-> "h2", j2 |-> "h1"]
MCArticles == <<"h1", "h2">>

Rel(head, rel, tail, cite, evidence) ==
    [head |-> head, rel |-> rel, tail |-> tail, cite |-> cite,
     evidence |-> evidence]
Typed(tax, gov) == [tax |-> tax, gov |-> gov]

\* A definition and a reference, an entity of another type, the issuing body as a
\* subject, relations without evidence, to other documents and to nothing.
MCAnswers ==
    {[article |-> "h1", types |-> Typed("LegalConcept", "LegalSubject"),
      relations |-> rs] : rs \in
        {{}, {Rel("h1", "DEFINES", "tax", "", 10), Rel("h1", "REFERS_TO", "h2", "x", 10)},
         {Rel("c1", "REFERS_TO", "h1", "x", 1), Rel("h1", "DEFINES", "tax", "", 0)},
         {Rel("gov", "REQUIRES", "tax", "", 10)},
         {Rel("h1", "REGULATES", "gov", "", 1), Rel("h1", "CONTAINS", "c1", "", 10)},
         {Rel("h1", "REFERS_TO", "h2", "m", 10), Rel("h1", "AMENDS", "h2", "", 10)}}}
    \cup
    {[article |-> "h2", types |-> types, relations |-> rs] :
        types \in {[tax |-> "LegalConcept"], [tax |-> "LegalSubject"],
                   [law |-> "Document", tax |-> "LegalConcept"]},
        rs \in {{}, {Rel("h2", "DEFINES", "tax", "", 10), Rel("h2", "DEFINES", "law", "", 10)},
                {Rel("h2", "REFERS_TO", "law", "w", 10), Rel("h2", "GUIDES", "h1", "", 10)}}}

Ref(id, cite, source, targets, method, status, scope) ==
    [id |-> id, cite |-> cite, source |-> source, targets |-> targets,
     method |-> method, status |-> status, scope |-> scope]

\* One target, two, the same words twice, a Subsection among the targets, a
\* marker's words, a unit that cites itself, and references that are not local or not
\* resolved.
MCReferences ==
    {{}, {Ref(1, "x", "h1", {"h2", "c1"}, "RULE", "RESOLVED", "LOCAL"),
          Ref(2, "x", "h1", {"h2", "c1"}, "RULE", "RESOLVED", "LOCAL")},
     {Ref(1, "x", "c1", {"h2"}, "ENTITY_LINKING", "RESOLVED", "LOCAL"),
      Ref(2, "y", "h2", {"h1"}, "RULE", "UNRESOLVED", "LOCAL")},
     {Ref(1, "x", "h1", {"h2", "s1"}, "RULE", "RESOLVED", "LOCAL")},
     {Ref(1, "m", "h1", {"h2"}, "RULE", "RESOLVED", "LOCAL"),
      Ref(2, "y", "h2", {"t1"}, "RULE", "RESOLVED", "EXTERNAL"),
      Ref(3, "x", "c1", {"c1"}, "RULE", "RESOLVED", "LOCAL")}}

Mention(pos, link, op, doc, items, unit, quote) ==
    [pos |-> pos, link |-> link, op |-> op, doc |-> doc, items |-> items,
     number |-> "none", unit |-> unit, quote |-> quote, cite |-> "m"]

MCLinks ==
    {{Mention(1, "REFERENCE", "", Target, {}, "h1", 0),
      Mention(2, "REFERENCE", "", Host, {"j1", "j2"}, "c1", 0)},
     \* two amendments, the second followed by replacement text
     {Mention(1, "CHANGE_CONTENT", "amends", Host, {"j1"}, "h1", 0),
      Mention(2, "CHANGE_CONTENT", "amends", Target, {"i1", "i3"}, "h1", 0),
      Mention(4, "REFERENCE", "", Host, {"j2"}, "h1", 3)},
     {Mention(1, "CHANGE_CONTENT", "adds after", Target, {"i2"}, "h1", 0),
      Mention(2, "UNKNOWN", "", Target, {}, "h1", 0),
      Mention(4, "REFERENCE", "", Target, {"i1", "i9"}, "h1", 3)},
     {[Mention(1, "CHANGE_CONTENT", "repeals", Target, {"i1", "i2"}, "c1", 0)
        EXCEPT !.number = "same"],
      [Mention(2, "REFERENCE", "", Target, {}, "h2", 0) EXCEPT !.number = "other"],
      \* an Article and a Chapter repealed together
      Mention(3, "CHANGE_CONTENT", "repeals", Target, {"i1", "i4"}, "h1", 0)},
     \* an amendment inside replacement text, outside of every Article
     {Mention(1, "CHANGE_CONTENT", "amends", Target, {"i1"}, "no unit", 0),
      Mention(3, "CHANGE_CONTENT", "repeals", Target, {"i2"}, "no unit", 2)}}

MCDiagrams ==
    {{}, {[category |-> "amended", target |-> "t"],
          [category |-> "amending", target |-> "t"]},
     {[category |-> "guides", target |-> "t"],
      [category |-> "replaced", target |-> "h"]},
     {[category |-> "repealed", target |-> "u"],
      [category |-> "unsupported", target |-> "t"]}}

\* The texts of the instance are such that every accepted record can be built.
ASSUME TextsAssumption == Unambiguous
=============================================================================
