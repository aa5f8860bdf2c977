------------------------- MODULE MCHierarchyParser -------------------------
EXTENDS HierarchyParser

L(k, n, t) == [k |-> k, n |-> n, t |-> t, u |-> FALSE]
U(k, n, t) == [k |-> k, n |-> n, t |-> t, u |-> TRUE]

Articles == {L("article", "1", "A"), L("article", "2", "A")}

\* Parts and Chapters whose numbers start again, spelled in two ways
InParts == Articles \cup {L("part", "I", "A"), L("part", "2", ""),
                          L("chapter", "I", "A"), U("text", "", "")}
\* Sections and Subsections, some without title, Chapter or Article
InSections == {L("article", "1", "A"), L("article", "2", "A"), L("chapter", "I", "A"),
               L("section", "1", ""), L("section", "1", "B"), L("subsection", "1", "A")}
\* Clauses, Points and quoted amendments of one Article
InArticles == {L("clause", "1", "intro"), L("clause", "2", ""), L("point", "a", "A"),
               L("point", "b", "intro"), L("text", "", ""), L("quote", "", ""),
               L("close", "", "")}
\* Citations at the start of a line, headings inside and after quotations
InQuotes == {L("text", "", "leads"), L("article", "2", ""), L("text", "", "follows"),
             L("text", "", "open"), L("quote", "", "closed"), L("close", "", ""),
             L("article", "3", "A"), L("stamp", "", "")}
\* Attachments
InAttachments == {L("article", "1", "A"), L("appendix", "1", ""),
                  L("appendix", "", "form"), L("instrument", "", ""), L("adopt", "", ""),
                  L("toc", "", ""), L("part", "I", "A")}
\* Headings in capitals, untitled and overlong headings
InCapitals == {L("chapter", "I", ""), U("section", "1", ""), U("article", "1", "A"),
               L("article", "2", "A"), U("text", "", ""), L("part", "2", "long"),
               L("part", "I", ""), L("blank", "", "")}

Strings(S, k) == [1..k -> S]
After(prefix, S, k) == {prefix \o x : x \in Strings(S, k)}

MCTexts ==
    Strings(InParts, 5) \cup After(<<L("part", "I", "A")>>, InParts, 5)
    \cup Strings(InSections, 5) \cup After(<<L("chapter", "I", "A")>>, InSections, 5)
    \cup After(<<L("article", "1", "")>>, InArticles, 5)
    \cup After(<<L("article", "1", "A"), L("clause", "1", "A")>>, InQuotes, 4)
    \cup Strings(InAttachments, 4) \cup Strings(InCapitals, 4)
    \cup After(<<L("instrument", "", ""), L("adopt", "", "")>>, InAttachments, 4)
    \cup After(<<L("article", "1", "A"), L("appendix", "1", "")>>, InAttachments, 3)

MCLabels ==
    [k : {"Part"}, n : {"I", "2"}]
    \cup [k : {"Chapter", "Article"}, n : {"I", "1", "2"}]
    \cup [k : {"Section"}, n : {"1"}, c : {"", "I"}]
    \cup [k : {"Subsection"}, n : {"1"}, s : {"1"}, c : {"", "I"}]
    \cup [k : {"Clause"}, n : {"1", "2"}, a : {"1"}]
    \cup [k : {"Point"}, n : {"a"}, s : {"1"}, a : {"1"}]
============================================================================
