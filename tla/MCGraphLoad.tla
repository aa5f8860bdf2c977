----------------------------- MODULE MCGraphLoad -----------------------------
EXTENDS GraphLoad

MCOrder == <<"d", "e">>
MCType == [d |-> "Document", p |-> "Part", ch |-> "Chapter", s |-> "Section",
           ss |-> "Subsection", a |-> "Article", e |-> "Document",
           x |-> "Appendix", tax |-> "LegalConcept"]

\* A Law as four releases of the parser read it, the first without its Chapter, and
\* a document that is an Appendix.
MCLayouts ==
    [d |-> <<[nodes |-> <<"d", "a">>, edges |-> <<Containing("d", "a")>>],
             [nodes |-> <<"d", "ch", "a">>,
              edges |-> <<Containing("d", "ch"), Containing("ch", "a")>>],
             [nodes |-> <<"d", "ch", "s", "a">>,
              edges |-> <<Containing("d", "ch"), Containing("ch", "s"), Containing("s", "a")>>],
             [nodes |-> <<"d", "p", "ch", "s", "ss", "a">>,
              edges |-> <<Containing("d", "p"), Containing("p", "ch"), Containing("ch", "s"),
                          Containing("s", "ss"), Containing("ss", "a")>>]>>,
     e |-> <<[nodes |-> <<"e", "x">>, edges |-> <<Containing("e", "x")>>]>>]

\* Both define the same concept, and an Article of the Law refers to the Law.
MCMeaning ==
    [d |-> [nodes |-> <<"tax">>,
            edges |-> <<<<"a", "tax", "DEFINES">>, <<"a", "d", "REFERS_TO">>>>],
     e |-> [nodes |-> <<"tax">>, edges |-> <<>>]]
=============================================================================
