---------------------------- MODULE StructuralIds ----------------------------
(***************************************************************************)
(* What a parsed document becomes.  Two parts of the pipeline give names   *)
(* to the same provisions, each by code of its own: the registry that      *)
(* extraction resolves citations with (StructuralRegistry) and the payload *)
(* that is written to the graph (build_graph_payload).                     *)
(*                                                                         *)
(* A parsed document is a set of groups: the main body, the Appendices and *)
(* the attached instruments, each                                          *)
(*   [owner, parts, secs, subs, arts]                                      *)
(* with the lists that _ParsedHierarchy holds.  A number is the text of    *)
(* the heading, "" where there is none; a place in the source is a line.   *)
(* An id is the path that its text spells out, a sequence of components    *)
(* <<prefix, number, suffix>>, suffix 0 when nothing is appended.          *)
(***************************************************************************)
EXTENDS Naturals, Sequences, FiniteSets

\* normalize_chapter_number, normalize_part_number: "I" and "1" are one number
Norm(n) == CASE n = "I" -> "1" [] n = "II" -> "2" [] OTHER -> n

\* legal_number_sort_key
SortKey(n) == CASE n = "1" -> 1 [] n = "2" -> 2 [] n = "3" -> 3 [] OTHER -> 4

Elements(s) == {s[i] : i \in DOMAIN s}

MainOwner == <<>>
PartId(o, n) == Append(o, <<"part", Norm(n), 0>>)
ChapterId(o, c) == Append(o, <<"ch", Norm(c), 0>>)
SectionId(o, c, s) ==
    Append(IF c = "" THEN o ELSE ChapterId(o, c), <<"sec", s, 0>>)
SubsectionId(o, c, s, b) == Append(SectionId(o, c, s), <<"subsec", b, 0>>)

----------------------------------------------------------------------------
(* ParsedDocument                                                          *)

SectionKey(x) == <<Norm(x.part), Norm(x.chap), x.num>>
ArticleSectionKey(a) == <<Norm(a.part), Norm(a.chap), a.sec>>
SubsectionKey(x) == <<Norm(x.part), Norm(x.chap), x.sec, x.num>>

Repeats(s, Key(_)) == \E i, j \in DOMAIN s : i # j /\ Key(s[i]) = Key(s[j])

\* The errors of the model validator.  A Section number may repeat, a Part
\* number, a Subsection of one Section and an Article of one Part may not.
Valid(g) ==
    LET sections == {SectionKey(x) : x \in Elements(g.secs)}
        parts == {Norm(x.num) : x \in Elements(g.parts)} \cup {""}
    IN  /\ ~Repeats(g.arts, LAMBDA a : <<Norm(a.part), a.num>>)
        /\ ~Repeats(g.parts, LAMBDA x : Norm(x.num))
        /\ ~Repeats(g.subs, SubsectionKey)
        /\ \A x \in Elements(g.secs) : Norm(x.part) \in parts
        /\ \A x \in Elements(g.subs) :
              <<Norm(x.part), Norm(x.chap), x.sec>> \in sections
        /\ \A a \in Elements(g.arts) :
              /\ Norm(a.part) \in parts
              /\ a.sub # "" => a.sec # ""
              /\ a.sec # "" => ArticleSectionKey(a) \in sections
              /\ a.chap # "" /\ a.sub # "" =>
                   \E x \in Elements(g.subs) :
                      SubsectionKey(x) = Append(ArticleSectionKey(a), a.sub)

\* Sections and Subsections that no Article refers to are dropped; what a
\* Subsection without a Chapter holds does not count as a reference.
WithoutOrphans(g) ==
    [g EXCEPT
       !.secs = SelectSeq(@, LAMBDA x : \E a \in Elements(g.arts) :
                   a.sec # "" /\ ArticleSectionKey(a) = SectionKey(x)),
       !.subs = SelectSeq(@, LAMBDA x : \E a \in Elements(g.arts) :
                   /\ a.chap # "" /\ a.sub # ""
                   /\ Append(ArticleSectionKey(a), a.sub) = SubsectionKey(x))]

----------------------------------------------------------------------------
(* StructuralRegistry                                                      *)

IsMain(g) == g.owner = MainOwner
SameNumber(g, a) == {x \in Elements(g.arts) : x.num = a.num}

\* (mutant) repeated Article numbers are not told apart
RegisteredByNumber(g, a) == Append(g.owner, <<"art", a.num, 0>>)

\* An Article number that repeats in the main body is told apart by its Part.
RegisteredArticle(g, a) ==
    IF IsMain(g) /\ Cardinality(SameNumber(g, a)) > 1
    THEN <<<<"p", Norm(a.part), 0>>, <<"art", a.num, 0>>>>
    ELSE Append(g.owner, <<"art", a.num, 0>>)

RegisteredClause(g, a, c) == Append(RegisteredArticle(g, a), <<"cl", c.num, 0>>)
RegisteredPoint(g, a, c, pt) ==
    Append(RegisteredClause(g, a, c), <<"p", pt.num, 0>>)

\* A repeated Section of the main body is registered under its number and the
\* count; the Part is not part of its key.
RegisteredSection(g, i) ==
    LET x == g.secs[i]
        before == {j \in 1..(i - 1) :
                     g.secs[j].chap = x.chap /\ g.secs[j].num = x.num}
        id == SectionId(g.owner, x.chap, x.num)
    IN  IF IsMain(g) /\ before # {}
        THEN [id EXCEPT ![Len(id)][3] = Cardinality(before) + 1]
        ELSE id

\* Errors of the constructor, the AttributeError of a Subsection outside any
\* Chapter of the main body among them.
RegistryRefuses(g) ==
    \/ /\ IsMain(g)
       /\ \/ \E a \in Elements(g.arts) :
                a.part = "" /\ Cardinality(SameNumber(g, a)) > 1
          \/ \E x \in Elements(g.subs) : x.chap = ""
    \/ \E x \in Elements(g.subs) :
          ~\E y \in Elements(g.secs) : y.chap = x.chap /\ y.num = x.sec
    \/ ~IsMain(g) /\ Repeats(g.arts, LAMBDA a : a.num)

\* The unit at each place: (start of the unit, id) for Articles, Clauses and
\* Points.
RegisteredUnits(g) ==
    UNION {{<<a.s, RegisteredArticle(g, a)>>}
           \cup UNION {{<<c.s, RegisteredClause(g, a, c)>>}
                       \cup {<<pt.s, RegisteredPoint(g, a, c, pt)>> :
                               pt \in Elements(c.points)} :
                         c \in Elements(a.clauses)} :
             a \in Elements(g.arts)}

\* _register_chapter: a Chapter is known from a Section or from an Article.
RegisteredChapters(g) ==
    ({x.chap : x \in Elements(g.secs)} \cup {a.chap : a \in Elements(g.arts)})
      \ {""}

\* The label "Phần n", "Chương n", "Mục n Chương c", "Tiểu mục n Mục s Chương c",
\* "Điều n", "Khoản n Điều a" or "Điểm n Khoản s Điều a", read in the group g.
\* A label spells a Chapter in Roman numerals.
ResolvePart(g, l) ==
    {PartId(g.owner, x.num) : x \in {y \in Elements(g.parts) : Norm(y.num) = Norm(l.n)}}
ResolveChapter(g, l) ==
    {ChapterId(g.owner, c) : c \in RegisteredChapters(g) \cap {l.n}}
ResolveSection(g, l) ==
    {SectionId(g.owner, x.chap, x.num) :
       x \in {y \in Elements(g.secs) : y.chap = l.c /\ y.num = l.n}}
ResolveSubsection(g, l) ==
    {SubsectionId(g.owner, x.chap, x.sec, x.num) :
       x \in {y \in Elements(g.subs) : y.chap = l.c /\ y.sec = l.s /\ y.num = l.n}}
KeyedArticles(g, n) ==
    {a \in Elements(g.arts) : a.num = n /\ (IsMain(g) => SameNumber(g, a) = {a})}
ResolveArticle(g, l) == {RegisteredArticle(g, a) : a \in KeyedArticles(g, l.n)}
ResolveClause(g, l) ==
    UNION {{RegisteredClause(g, a, c) :
              c \in {y \in Elements(a.clauses) : y.num = l.n}} :
           a \in KeyedArticles(g, l.a)}
ResolvePoint(g, l) ==
    UNION {UNION {{RegisteredPoint(g, a, c, pt) :
                     pt \in {y \in Elements(c.points) : y.num = l.n}} :
                  c \in {y \in Elements(a.clauses) : y.num = l.s}} :
           a \in KeyedArticles(g, l.a)}

ResolveIn(g, l) ==
    CASE l.k = "Part" -> ResolvePart(g, l)
      [] l.k = "Chapter" -> ResolveChapter(g, l)
      [] l.k = "Section" -> ResolveSection(g, l)
      [] l.k = "Subsection" -> ResolveSubsection(g, l)
      [] l.k = "Article" -> ResolveArticle(g, l)
      [] l.k = "Clause" -> ResolveClause(g, l)
      [] l.k = "Point" -> ResolvePoint(g, l)

\* resolve: the group of the citing Article first, then the main body.
Resolve(g, main, l) ==
    IF ResolveIn(g, l) # {} THEN ResolveIn(g, l) ELSE ResolveIn(main, l)

----------------------------------------------------------------------------
(* build_graph_payload                                                     *)

NodeArticle(g, a) ==
    IF IsMain(g) /\ Cardinality(SameNumber(g, a)) > 1
    THEN <<<<"p", Norm(a.part), 0>>, <<"art", a.num, 0>>>>
    ELSE Append(g.owner, <<"art", a.num, 0>>)

LastTitle(s, Match(_)) ==
    LET hits == {i \in DOMAIN s : Match(s[i])}
    IN  s[CHOOSE i \in hits : \A j \in hits : j <= i].title

SectionOf(g, a) ==
    {y \in Elements(g.secs) : a.sec # "" /\ SectionKey(y) = ArticleSectionKey(a)}
SubsectionOf(g, a) ==
    {y \in Elements(g.subs) :
       /\ a.sub # "" /\ SectionOf(g, a) # {}
       /\ SubsectionKey(y) = Append(ArticleSectionKey(a), a.sub)}

\* The nodes above an Article, outermost first, with the title that the
\* payload gives them.
Above(g, a) ==
    LET part == IF a.part = "" THEN <<>>
                ELSE <<<<PartId(g.owner, a.part),
                         LastTitle(g.parts, LAMBDA y : Norm(y.num) = Norm(a.part))>>>>
        chapter == IF a.chap = "" THEN <<>>
                   ELSE <<<<ChapterId(g.owner, a.chap), a.ctitle>>>>
        section == IF SectionOf(g, a) = {} THEN <<>>
                   ELSE <<<<SectionId(g.owner, a.chap, a.sec),
                            LastTitle(g.secs, LAMBDA y : y \in SectionOf(g, a))>>>>
        subsection == IF SubsectionOf(g, a) = {} THEN <<>>
                      ELSE <<<<SubsectionId(g.owner, a.chap, a.sec, a.sub),
                               LastTitle(g.subs, LAMBDA y : y \in SubsectionOf(g, a))>>>>
    IN  part \o chapter \o section \o subsection

PathTo(g, a) == <<g.owner>> \o [i \in DOMAIN Above(g, a) |-> Above(g, a)[i][1]]
                \o <<NodeArticle(g, a)>>

\* CONTAINS of one Article's headings: in the main body an edge is added only
\* with its node, elsewhere with every Article.
HeadingEdges(g) ==
    LET path(i) == PathTo(g, g.arts[i])
        known(i, id) == \E j \in 1..(i - 1) : id \in Elements(path(j))
    IN  UNION {{<<path(i)[k], path(i)[k + 1]>> :
                  k \in {m \in 1..(Len(path(i)) - 1) :
                           IsMain(g) => \/ m = Len(path(i)) - 1
                                        \/ ~known(i, path(i)[m + 1])}} :
               i \in DOMAIN g.arts}

NodeClause(g, a, c) == Append(NodeArticle(g, a), <<"cl", c.num, 0>>)
NodePoint(g, a, c, pt) == Append(NodeClause(g, a, c), <<"p", pt.num, 0>>)

UnitEdges(g) ==
    UNION {UNION {{<<NodeArticle(g, a), NodeClause(g, a, c)>>}
                  \cup {<<NodeClause(g, a, c), NodePoint(g, a, c, pt)>> :
                          pt \in Elements(c.points)} :
                    c \in Elements(a.clauses)} :
             a \in Elements(g.arts)}

NodeUnits(g) ==
    UNION {{<<a.s, NodeArticle(g, a)>>}
           \cup UNION {{<<c.s, NodeClause(g, a, c)>>}
                       \cup {<<pt.s, NodePoint(g, a, c, pt)>> :
                               pt \in Elements(c.points)} :
                         c \in Elements(a.clauses)} :
             a \in Elements(g.arts)}

\* The edge from the Document or the instrument to an attached owner.
OwnerEdges(g) ==
    IF IsMain(g) THEN {} ELSE {<<SubSeq(g.owner, 1, Len(g.owner) - 1), g.owner>>}

\* PayloadBuildError: an Article number repeated outside any Part, a heading
\* that is missing, a node id with two payloads.
BuildRefuses(g) ==
    \/ IsMain(g) /\ \E a \in Elements(g.arts) :
         a.part = "" /\ Cardinality(SameNumber(g, a)) > 1
    \/ \E a \in Elements(g.arts) :
         \/ a.part # "" /\ ~\E y \in Elements(g.parts) : Norm(y.num) = Norm(a.part)
         \/ (~IsMain(g) \/ a.chap # "") /\ a.sec # "" /\ SectionOf(g, a) = {}
         \/ (~IsMain(g) \/ a.chap # "") /\ a.sub # "" /\ SubsectionOf(g, a) = {}
    \/ Repeats(g.arts, LAMBDA a : NodeArticle(g, a))
    \/ ~IsMain(g) /\ \E a, b \in Elements(g.arts) :
         \E x \in Elements(Above(g, a)), y \in Elements(Above(g, b)) :
            x[1] = y[1] /\ x[2] # y[2]

----------------------------------------------------------------------------
(* validate_payload_consistency and validate_graph_payload                 *)

Type(id) == IF id = MainOwner THEN "Document"
            ELSE CASE id[Len(id)][1] = "part" -> "Part"
                   [] id[Len(id)][1] = "ch" -> "Chapter"
                   [] id[Len(id)][1] = "sec" -> "Section"
                   [] id[Len(id)][1] = "subsec" -> "Subsection"
                   [] id[Len(id)][1] = "art" -> "Article"
                   [] id[Len(id)][1] = "cl" -> "Clause"
                   [] id[Len(id)][1] = "p" -> "Point"
                   [] id[Len(id)][1] = "app" -> "Appendix"
                   [] id[Len(id)][1] = "inst" -> "AttachedInstrument"

StructuralPairs ==
    ({"Document", "AttachedInstrument", "Appendix"}
       \X {"Part", "Chapter", "Section", "Article"})
    \cup ({"Part"} \X {"Chapter", "Section", "Article"})
    \cup ({"Chapter"} \X {"Section", "Article"})
    \cup ({"Section"} \X {"Subsection", "Article"})
    \cup {<<"Subsection", "Article">>, <<"Article", "Clause">>,
          <<"Clause", "Point">>, <<"Document", "Appendix">>,
          <<"Document", "AttachedInstrument">>, <<"AttachedInstrument", "Appendix">>}

Nodes(edges) == {MainOwner} \cup {e[1] : e \in edges} \cup {e[2] : e \in edges}
Children(edges, id) == {e[2] : e \in {x \in edges : x[1] = id}}
ChildTypes(edges, id) == {Type(c) : c \in Children(edges, id)}

\* _descendant_article_ids, at most two levels below a Section
DescendantArticles(edges, id) ==
    {c \in Children(edges, id) \cup
           UNION {Children(edges, x) : x \in Children(edges, id)} :
       Type(c) = "Article"}

\* A Chapter may hold Articles before its Sections, by number; a Section holds
\* Articles or Subsections.
ModesAllowed(edges, id) ==
    /\ ~(Type(id) = "Section" /\ {"Subsection", "Article"} \subseteq ChildTypes(edges, id))
    /\ Type(id) = "Chapter" /\ {"Section", "Article"} \subseteq ChildTypes(edges, id) =>
         \A x \in {c \in Children(edges, id) : Type(c) = "Article"} :
         \A s \in {c \in Children(edges, id) : Type(c) = "Section"} :
         \A y \in DescendantArticles(edges, s) :
            SortKey(x[Len(x)][2]) < SortKey(y[Len(y)][2])

Consistent(edges) ==
    /\ \A e \in edges : <<Type(e[1]), Type(e[2])>> \in StructuralPairs
    /\ \A id \in Nodes(edges) \ {MainOwner} :
          Cardinality({e \in edges : e[2] = id}) = 1
    /\ \A id \in Nodes(edges) : ModesAllowed(edges, id)

\* validate_article, validate_clause, validate_point: content_raw is required.
ContentPresent(g) ==
    \A a \in Elements(g.arts) :
       /\ a.text # {}
       /\ \A c \in Elements(a.clauses) :
             /\ c.text # {}
             /\ \A pt \in Elements(c.points) : pt.text # {}

GraphEdges(groups) ==
    UNION {HeadingEdges(g) \cup UnitEdges(g) \cup OwnerEdges(g) : g \in groups}

\* The payload of the document reaches the writer.
Accepted(groups) ==
    /\ \A g \in groups : ~BuildRefuses(g) /\ ContentPresent(g)
    /\ \A g, h \in groups : g.owner = h.owner => g = h
    /\ Consistent(GraphEdges(groups))
=============================================================================
