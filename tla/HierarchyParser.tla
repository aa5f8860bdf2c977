--------------------------- MODULE HierarchyParser ---------------------------
(***************************************************************************)
(* parse_text_with_diagnostics: the source text is split into main body,   *)
(* Appendices, attached instruments and table of contents; each group is   *)
(* read line by line by a one-pass state machine (_parse_hierarchy); any   *)
(* ValueError gives the structure up and preserves the whole source.       *)
(*                                                                         *)
(* A line is [k, n, t, u]: the pattern it matches, the number, what else   *)
(* matters of its text, and whether it is in capitals.  t is               *)
(*   "" / "A" / "B" / "long"  a heading without or with a title, "long"    *)
(*                            past MAX_STRUCTURAL_TITLE_LENGTH;            *)
(*   "leads" / "follows"      a text that ends, begins, like a citation;   *)
(*   "intro" / "open"         a line that introduces an amendment, "open"  *)
(*                            one that also opens the quotation;           *)
(*   "closed"                 a quotation closed on its line;              *)
(*   "form"                   an Appendix that is a form, list or table.   *)
(* Kinds that are no heading: "text", "quote" (starts with a quotation     *)
(* mark), "close" (ends a quotation), "adopt" (issued together with...),   *)
(* "blank", "stamp" (page number, signature block, gazette header).        *)
(***************************************************************************)
EXTENDS StructuralIds

CONSTANTS Texts,      \* the source texts: sequences of lines
          Labels      \* the citations that extraction resolves

VARIABLES text,       \* the canonical source
          todo,       \* groups still to parse: <<[owner, lines]...>>
          pos,        \* next line of the first of them
          st,         \* state of _parse_hierarchy
          groups,     \* groups parsed so far
          status      \* "split", "reading", "failed", "parsed"
vars == <<text, todo, pos, st, groups, status>>

Headings == {"part", "chapter", "section", "subsection"}
Skipped == {"blank", "stamp"}     \* should_skip_line
Kind(i) == text[i].k

----------------------------------------------------------------------------
(* partition_source_sections                                               *)

\* An instrument heading needs the adoption formula among the next three
\* lines with text, before any Article.
IsInstrument(lines, i) ==
    /\ Kind(lines[i]) = "instrument"
    /\ \E j \in (i + 1)..Len(lines) :
         /\ j <= i + 5 /\ Kind(lines[j]) = "adopt"
         /\ \A m \in (i + 1)..(j - 1) : Kind(lines[m]) # "article"
         /\ Cardinality({m \in (i + 1)..(j - 1) : Kind(lines[m]) # "blank"}) <= 2

\* Where each line goes (main body, table of contents, or the Appendix or
\* instrument that its heading opened) and how many headings came before.
\* Lines after the table of contents belong to it, lines of an instrument and
\* lines of an Appendix stay there until the next heading of their kind.
Places(lines) ==
    LET at[i \in 0..Len(lines)] ==
          IF i = 0 THEN [in |-> "main", app |-> 0, inst |-> 0, seen |-> FALSE]
          ELSE LET was == at[i - 1]
                   k == Kind(lines[i])
               IN  CASE was.in = "toc" -> was
                     [] was.in \in {"main", "inst"} /\ IsInstrument(lines, i) ->
                          [was EXCEPT !.in = "inst", !.inst = @ + 1]
                     [] was.in \in {"main", "app"} /\ k = "appendix" ->
                          [was EXCEPT !.in = "app", !.app = @ + 1]
                     [] /\ was.in = "main" /\ k = "toc" /\ was.seen
                        /\ i - 1 >= Len(lines) \div 2 -> [was EXCEPT !.in = "toc"]
                     [] was.in = "main" /\ k = "article" -> [was EXCEPT !.seen = TRUE]
                     [] OTHER -> was
    IN  [i \in 1..Len(lines) |->
           CASE at[i].in = "app" -> <<"app", at[i].app>>
             [] at[i].in = "inst" -> <<"inst", at[i].inst>>
             [] OTHER -> <<at[i].in, 0>>]

At(lines, place) ==
    LET keep == {i \in 1..Len(lines) : Places(lines)[i] = place}
    IN  [k \in 1..Cardinality(keep) |->
           lines[CHOOSE i \in keep : Cardinality({j \in keep : j <= i}) = k]]

Count(lines, k) ==
    Cardinality({Places(lines)[i] : i \in {j \in 1..Len(lines) : Places(lines)[j][1] = k}})

\* _appendix_scope: the number, else the order in the source.  Two Appendices
\* of the document with one number are told apart by a suffix; those of an
\* instrument are not.
AppendixOwner(owner, lines, k) ==
    LET number(j) == text[At(lines, <<"app", j>>)[1]].n
        twins == {j \in 1..(k - 1) : number(j) = number(k)}
    IN  Append(owner, IF number(k) = "" THEN <<"app", "x", k>>
                      ELSE <<"app", number(k),
                             IF owner = MainOwner THEN Cardinality(twins) ELSE 0>>)

\* _classify_appendix: only legal content is read for structure
LegalContent(body) ==
    /\ text[body[1]].t # "form"
    /\ \E i \in 2..Len(body) : Kind(body[i]) = "article"

AppendixGroups(owner, lines) ==
    LET legal(k) == LegalContent(At(lines, <<"app", k>>))
    IN  [k \in 1..Count(lines, "app") |->
           [owner |-> AppendixOwner(owner, lines, k),
            lines |-> IF legal(k) THEN Tail(At(lines, <<"app", k>>)) ELSE <<>>]]

\* _attached_instrument_from_records
InstrumentGroups(lines, k) ==
    LET owner == <<<<"inst", "regulation", k>>>>
        body == Tail(At(lines, <<"inst", k>>))
    IN  <<[owner |-> owner, lines |-> At(body, <<"main", 0>>)]>>
        \o AppendixGroups(owner, body)

NestedInstrument(lines, k) == Count(Tail(At(lines, <<"inst", k>>)), "inst") > 0

Flat(s) == LET f[i \in 0..Len(s)] == IF i = 0 THEN <<>> ELSE f[i - 1] \o s[i]
           IN  f[Len(s)]

GroupsOf(lines) ==
    <<[owner |-> MainOwner, lines |-> At(lines, <<"main", 0>>)]>>
    \o AppendixGroups(MainOwner, lines)
    \o Flat([k \in 1..Count(lines, "inst") |-> InstrumentGroups(lines, k)])

----------------------------------------------------------------------------
(* Recognition                                                             *)

\* _replacement_quote_lines: the positions inside quotations that an
\* amendment introduces and that are closed.
Quoted(lines) ==
    LET scan[i \in 0..Len(lines)] ==
          IF i = 0 THEN [mode |-> "none", open |-> {}, out |-> {}]
          ELSE LET q == scan[i - 1]
                   l == text[lines[i]]
                   held == q.open \cup {i}
               IN  CASE l.k = "blank" -> q
                     [] l.k # "blank" /\ q.mode = "active" ->
                          IF l.k = "close"
                          THEN [mode |-> "none", open |-> {}, out |-> q.out \cup held]
                          ELSE [q EXCEPT !.open = held]
                     [] q.mode = "intro" /\ l.k = "quote" ->
                          IF l.t = "closed"
                          THEN [mode |-> "none", open |-> {}, out |-> q.out \cup held]
                          ELSE [q EXCEPT !.mode = "active", !.open = held]
                     [] /\ q.mode # "active" /\ l.t \in {"intro", "open"}
                        /\ ~(q.mode = "intro" /\ l.k = "quote") ->
                          [q EXCEPT !.mode = IF l.t = "open" THEN "active" ELSE "intro",
                                    !.open = {}]
                     [] OTHER -> [q EXCEPT !.mode = "none"]
    IN  scan[Len(lines)].out

\* is_citation_context: a bare "Điều n" between the halves of a citation
CitationContext(lines, i) ==
    /\ text[lines[i]].t = ""
    /\ \/ i > 1 /\ text[lines[i - 1]].t = "leads"
       \/ i < Len(lines) /\ text[lines[i + 1]].t = "follows"

IsArticle(lines, i) == Kind(lines[i]) = "article" /\ ~CitationContext(lines, i)

LooksLikeTitle(l) == l.u /\ l.t # "long"
LooksLikeStructuralTitle(l) ==
    /\ LooksLikeTitle(l)
    /\ l.k \notin Headings \cup {"article", "clause", "point"}

----------------------------------------------------------------------------
(* The state of _parse_hierarchy.  What may be None is a sequence of at    *)
(* most one element.                                                       *)

Fresh == [part |-> <<>>, chap |-> "", ctitle |-> "", sec |-> <<>>, sub |-> <<>>,
          art |-> <<>>, clause |-> <<>>, point |-> <<>>,
          inPart |-> 0, inChap |-> 0, inSec |-> 0, inSub |-> 0,
          pending |-> <<>>,        \* heading that waits for its title
          chapterTitle |-> FALSE,  \* pending_chapter_title
          parts |-> <<>>, secs |-> <<>>, subs |-> <<>>, arts |-> <<>>]

NumberOf(x) == IF x = <<>> THEN "" ELSE x[1].num

FlushPoint(s) ==
    IF s.point = <<>> \/ s.clause = <<>> THEN [s EXCEPT !.point = <<>>]
    ELSE LET pt == s.point[1]
             same == {i \in DOMAIN s.clause[1].points :
                        s.clause[1].points[i].num = pt.num}
         IN  [s EXCEPT !.point = <<>>,
                       !.clause[1].points =
                          IF same = {} THEN Append(@, pt)
                          ELSE [i \in DOMAIN @ |->
                                  IF i \in same
                                  THEN [@[i] EXCEPT !.text = @ \cup pt.text,
                                                    !.e = pt.e]
                                  ELSE @[i]]]

FlushClause(s) ==
    IF s.clause = <<>> \/ s.art = <<>>
    THEN [s EXCEPT !.clause = <<>>, !.point = <<>>]
    ELSE LET f == FlushPoint(s)
         IN  [f EXCEPT !.art[1].clauses = Append(@, f.clause[1]), !.clause = <<>>]

FlushArticle(s) ==
    IF s.art = <<>> THEN [s EXCEPT !.clause = <<>>, !.point = <<>>]
    ELSE LET f == FlushClause(s)
         IN  [f EXCEPT !.arts = Append(@, f.art[1]), !.art = <<>>]

WithoutLast(s, x) ==
    IF s # <<>> /\ s[Len(s)] = x THEN SubSeq(s, 1, Len(s) - 1) ELSE s

\* require_current_..._has_article: a heading without Articles leaves no trace
DropEmptySubsection(s) ==
    IF s.sub # <<>> /\ s.inSub = 0
    THEN [s EXCEPT !.subs = WithoutLast(@, s.sub[1]), !.sub = <<>>] ELSE s
DropEmptySection(s) ==
    IF s.sec # <<>> /\ s.inSec = 0
    THEN [s EXCEPT !.secs = WithoutLast(@, s.sec[1]), !.sec = <<>>] ELSE s
\* (mutant) an empty Part stays
KeepEmptyPart(s) == s
DropEmptyPart(s) ==
    IF s.part # <<>> /\ s.inPart = 0
    THEN [s EXCEPT !.parts = WithoutLast(@, s.part[1]), !.part = <<>>] ELSE s

\* A Part, Section or Subsection with its title, under what is open.
Opened(s, kind, num, title, i, j) ==
    LET x == [num |-> num, title |-> title, part |-> NumberOf(s.part),
              chap |-> s.chap, sec |-> NumberOf(s.sec), s |-> i, e |-> j]
    IN  CASE kind = "part" ->
               [s EXCEPT !.part = <<x>>, !.parts = Append(@, x), !.pending = <<>>]
          [] kind = "section" ->
               [s EXCEPT !.sec = <<x>>, !.secs = Append(@, x), !.pending = <<>>]
          [] kind = "subsection" ->
               [s EXCEPT !.sub = <<x>>, !.subs = Append(@, x), !.pending = <<>>]

\* The heading before this line has no title of its own: "Section 1"
Settled(s) ==
    IF s.pending = <<>> THEN s
    ELSE LET h == s.pending[1] IN Opened(s, h.k, h.n, "default", h.s, h.s)

\* A heading line: its title, or the wait for it.
Headed(s, l, i) ==
    IF l.t = "" THEN [s EXCEPT !.pending = <<[k |-> l.k, n |-> l.n, s |-> i]>>]
    ELSE Opened(s, l.k, l.n, l.t, i, i)

\* Another line of the open unit.
Extended(s, i) ==
    LET grown(x) == [x EXCEPT !.text = @ \cup {i}, !.e = i]
    IN  IF s.point # <<>> THEN [s EXCEPT !.point[1] = grown(@)]
        ELSE IF s.clause # <<>> THEN [s EXCEPT !.clause[1] = grown(@)]
        ELSE s

InArticle(s, i) == [s EXCEPT !.art[1].text = @ \cup {i}, !.art[1].e = i]
\* (mutant) the Clause ends where its Points begin
ClauseStays(s, i) == s
ClauseReaches(s, i) == IF s.clause = <<>> THEN s ELSE [s EXCEPT !.clause[1].e = i]

----------------------------------------------------------------------------
(* One line after the other                                                *)

Lines == todo[1].lines
Here == Lines[pos]
Line == text[Here]

Reading == status = "reading" /\ todo # <<>> /\ pos <= Len(Lines)
Advance(s) == st' = s /\ pos' = pos + 1 /\ UNCHANGED <<text, todo, groups, status>>

\* _source_preserved_document: no structure, the source kept whole
Fail ==
    /\ status' = "failed" /\ todo' = <<>> /\ groups' = {} /\ st' = Fresh
    /\ UNCHANGED <<text, pos>>

SkipLine == Reading /\ Line.k \in Skipped /\ Advance(st)

\* A line of a quoted amendment is text of the unit that quotes it.
ReadQuoted ==
    /\ Reading /\ Line.k \notin Skipped /\ pos \in Quoted(Lines)
    /\ Advance(IF st.art = <<>> THEN st ELSE Extended(InArticle(st, Here), Here))

Plain == Reading /\ Line.k \notin Skipped /\ pos \notin Quoted(Lines)
TitleExpected == st.pending # <<>> /\ LooksLikeStructuralTitle(Line)

ReadTitle ==
    /\ Plain /\ TitleExpected
    /\ LET h == st.pending[1] IN Advance(Opened(st, h.k, h.n, "own", h.s, Here))

ReadPart ==
    /\ Plain /\ ~TitleExpected /\ Line.k = "part"
    /\ IF Line.t = "long" THEN Fail
       ELSE LET s == DropEmptyPart(DropEmptySection(DropEmptySubsection(
                       FlushArticle(Settled(st)))))
            IN  Advance(Headed([s EXCEPT !.part = <<>>, !.chap = "", !.ctitle = "",
                                         !.sec = <<>>, !.sub = <<>>, !.inPart = 0,
                                         !.inChap = 0, !.inSec = 0, !.inSub = 0],
                               Line, Here))

\* (mutant) the Section of the Chapter before stays open
ReadChapterInSection ==
    /\ Plain /\ ~TitleExpected /\ Line.k = "chapter"
    /\ LET s == FlushArticle(Settled(st))
       IN  Advance([s EXCEPT !.chap = Line.n, !.ctitle = Line.t, !.inChap = 0,
                             !.chapterTitle = (Line.t = "")])

ReadChapter ==
    /\ Plain /\ ~TitleExpected /\ Line.k = "chapter"
    /\ LET s == DropEmptySection(DropEmptySubsection(FlushArticle(Settled(st))))
       IN  Advance([s EXCEPT !.chap = Line.n, !.ctitle = Line.t, !.sec = <<>>,
                             !.sub = <<>>, !.inChap = 0, !.inSec = 0, !.inSub = 0,
                             !.chapterTitle = (Line.t = "")])

Below == Plain /\ ~TitleExpected /\ Line.k \notin {"part", "chapter"}

\* The line under an untitled Chapter is its title when it is in capitals,
\* whatever else it may be.
ReadChapterTitle ==
    /\ Below /\ st.chapterTitle /\ LooksLikeTitle(Line)
    /\ Advance([Settled(st) EXCEPT !.ctitle = "own", !.chapterTitle = FALSE])

Body == Below /\ ~(st.chapterTitle /\ LooksLikeTitle(Line))
Now == [Settled(st) EXCEPT !.chapterTitle = FALSE]

ReadSection ==
    /\ Body /\ Line.k = "section"
    /\ IF Line.t = "long" THEN Fail
       ELSE LET s == DropEmptySection(DropEmptySubsection(FlushArticle(Now)))
            IN  Advance(Headed([s EXCEPT !.sec = <<>>, !.sub = <<>>,
                                         !.inSec = 0, !.inSub = 0], Line, Here))

ReadSubsection ==
    /\ Body /\ Line.k = "subsection"
    /\ IF Line.t = "long" \/ Now.sec = <<>> THEN Fail
       ELSE LET s == DropEmptySubsection(FlushArticle(Now))
            IN  Advance(Headed([s EXCEPT !.sub = <<>>, !.inSub = 0], Line, Here))

ReadArticle ==
    /\ Body /\ IsArticle(Lines, pos)
    /\ LET s == FlushArticle(Now)
           a == [num |-> Line.n, part |-> NumberOf(s.part), chap |-> s.chap,
                 ctitle |-> s.ctitle, sec |-> NumberOf(s.sec), sub |-> NumberOf(s.sub),
                 s |-> Here, e |-> Here, clauses |-> <<>>,
                 text |-> IF Line.t = "" THEN {} ELSE {Here}]
       IN  Advance([s EXCEPT !.art = <<a>>, !.inPart = @ + 1, !.inChap = @ + 1,
                             !.inSec = @ + 1, !.inSub = @ + 1])

NoBoundary == Body /\ Line.k \notin Headings /\ ~IsArticle(Lines, pos)

\* A line outside any Article: preamble, signatures.
DropLine == NoBoundary /\ Now.art = <<>> /\ Advance(Now)

\* A number that the Article has already is text, once a Clause is open.
NewClause ==
    /\ Line.k = "clause"
    /\ Now.clause # <<>> =>
         Line.n \notin {c.num : c \in Elements(Now.art[1].clauses)} \cup {NumberOf(Now.clause)}
NewPoint ==
    /\ Line.k = "point" /\ Now.clause # <<>>
    /\ Now.point # <<>> => Line.n \notin {x.num : x \in Elements(Now.clause[1].points)}

ReadClause ==
    /\ NoBoundary /\ Now.art # <<>> /\ NewClause
    /\ LET c == [num |-> Line.n, s |-> Here, e |-> Here, points |-> <<>>,
                 text |-> IF Line.t = "" THEN {} ELSE {Here}]
       IN  Advance([InArticle(FlushClause(Now), Here) EXCEPT !.clause = <<c>>])

ReadPoint ==
    /\ NoBoundary /\ Now.art # <<>> /\ NewPoint
    /\ LET pt == [num |-> Line.n, s |-> Here, e |-> Here,
                  text |-> IF Line.t = "" THEN {} ELSE {Here}]
       IN  Advance(ClauseReaches([InArticle(FlushPoint(Now), Here) EXCEPT
                                    !.point = <<pt>>], Here))

ReadText ==
    /\ NoBoundary /\ Now.art # <<>> /\ ~NewClause /\ ~NewPoint
    /\ Advance(ClauseReaches(Extended(InArticle(Now, Here), Here), Here))

----------------------------------------------------------------------------
(* Groups                                                                  *)

Init ==
    /\ text \in Texts
    /\ todo = <<>> /\ pos = 1 /\ st = Fresh /\ groups = {} /\ status = "split"

Whole == [i \in 1..Len(text) |-> i]

Partition ==
    /\ status = "split"
    /\ IF \E k \in 1..Count(Whole, "inst") : NestedInstrument(Whole, k) THEN Fail
       ELSE /\ todo' = GroupsOf(Whole) /\ status' = "reading"
            /\ UNCHANGED <<text, pos, st, groups>>

\* The end of a group: a heading still without its title, a hierarchy that
\* ParsedDocument refuses and an instrument without Articles are errors.
EndGroup ==
    /\ status = "reading" /\ todo # <<>> /\ pos > Len(Lines)
    /\ LET s == DropEmptyPart(DropEmptySection(DropEmptySubsection(FlushArticle(st))))
           g == [owner |-> todo[1].owner, parts |-> s.parts, secs |-> s.secs,
                 subs |-> s.subs, arts |-> s.arts]
       IN  IF \/ st.pending # <<>> \/ ~Valid(g)
              \/ ~IsMain(g) /\ g.owner[Len(g.owner)][1] = "inst" /\ g.arts = <<>>
           THEN Fail
           ELSE /\ groups' = groups \cup {IF IsMain(g) THEN WithoutOrphans(g) ELSE g}
                /\ todo' = Tail(todo) /\ pos' = 1 /\ st' = Fresh
                /\ status' = IF Tail(todo) = <<>> THEN "parsed" ELSE "reading"
                /\ UNCHANGED text

Next ==
    \/ Partition \/ EndGroup
    \/ SkipLine \/ ReadQuoted \/ ReadTitle \/ ReadPart \/ ReadChapter
    \/ ReadChapterTitle \/ ReadSection \/ ReadSubsection \/ ReadArticle
    \/ DropLine \/ ReadClause \/ ReadPoint \/ ReadText

Spec == Init /\ [][Next]_vars

----------------------------------------------------------------------------
(* Properties                                                              *)

Main == CHOOSE g \in groups : IsMain(g)
OwnedLines(gs, g) == gs[CHOOSE k \in DOMAIN gs : gs[k].owner = g.owner].lines
LinesOf(g) == OwnedLines(GroupsOf(Whole), g)
Ready == /\ status = "parsed" /\ Accepted(groups)
         /\ \A g \in groups : ~RegistryRefuses(g)

\* In these, q is the set of the quoted positions of the lines.
\* The line is the title of the Part whose untitled heading is right before it.
IsPartTitle(lines, q, i) ==
    /\ i \notin q /\ LooksLikeStructuralTitle(text[lines[i]])
    /\ \E j \in (1..(i - 1)) \ q :
         /\ Kind(lines[j]) = "part" /\ text[lines[j]].t = ""
         /\ \A m \in ((j + 1)..(i - 1)) \ q : Kind(lines[m]) \in Skipped

\* Line i is the title of the untitled Chapter heading at j: the first line in
\* capitals after it that is no Chapter and has to do with no Part, even when it
\* is the heading of an Article or a Section.
IsChapterTitle(lines, q, j, i) ==
    /\ j \notin q /\ Kind(lines[j]) = "chapter" /\ text[lines[j]].t = ""
    /\ i \notin q /\ LooksLikeTitle(text[lines[i]])
    /\ Kind(lines[i]) \notin Skipped \cup {"part", "chapter"} /\ ~IsPartTitle(lines, q, i)
    /\ \A m \in ((j + 1)..(i - 1)) \ q :
         IsPartTitle(lines, q, m) \/ Kind(lines[m]) \in Skipped \cup {"part"}
TakenAsTitle(lines, q, i) == \E j \in 1..(i - 1) : IsChapterTitle(lines, q, j, i)

\* The positions that can be a heading.
Standing(lines, q) == {i \in DOMAIN lines \ q : ~TakenAsTitle(lines, q, i)}
LastOf(S) == IF S = {} THEN 0 ELSE CHOOSE j \in S : \A m \in S : m <= j
NumberAt(lines, j) == IF j = 0 THEN "" ELSE text[lines[j]].n

Ranks == <<"part", "chapter", "section", "subsection">>
\* the heading of rank d that line i is under: none of a higher rank follows it
Nearest(lines, standing, d, i) ==
    LastOf({j \in standing :
              /\ j < i /\ Kind(lines[j]) = Ranks[d]
              /\ \A m \in standing \cap (j..(i - 1)) :
                    Kind(lines[m]) \notin {Ranks[h] : h \in 1..(d - 1)}})

\* the title of the Chapter heading at j as line i, below it, should know it
ChapterTitleAt(lines, q, j, i) ==
    IF text[lines[j]].t # "" THEN text[lines[j]].t
    ELSE IF \E m \in (j + 1)..(i - 1) : IsChapterTitle(lines, q, j, m) THEN "own" ELSE ""

\* The Articles parsed from the group x of lines.  (Appendices of an instrument
\* may share their owner.)
ArticlesFrom(x) ==
    {a \in UNION {Elements(g.arts) : g \in {h \in groups : h.owner = x.owner}} :
       a.s \in Elements(x.lines)}

ArticlesAreUnderNearest(articles, lines, q, standing) ==
    \A i \in DOMAIN lines :
        LET here == {a \in articles : a.s = lines[i]}
            chapter == Nearest(lines, standing, 2, i)
        IN  /\ here # {} <=> IsArticle(lines, i) /\ i \in standing
            /\ \A a \in here :
                  /\ a.num = NumberAt(lines, i)
                  /\ <<a.part, a.chap, a.sec, a.sub>>
                        = [d \in 1..4 |-> NumberAt(lines, Nearest(lines, standing, d, i))]
                  /\ chapter # 0 => a.ctitle = ChapterTitleAt(lines, q, chapter, i)

\* An Article belongs to the nearest headings before it: the last Part, the
\* last Chapter since that Part, the last Section since that Chapter, the last
\* Subsection since that Section; headings in quoted amendments and citations
\* at the start of a line do not count.  No Article is invented, and of the
\* Article and Section headings exactly those are lost that a Chapter without a
\* title of its own takes for its title, one line at most and one in capitals;
\* such a line is the title its Chapter has.
ParentIsNearest ==
    status = "parsed" =>
      \A x \in Elements(GroupsOf(Whole)) :
        LET q == Quoted(x.lines)
        IN  ArticlesAreUnderNearest(ArticlesFrom(x), x.lines, q, Standing(x.lines, q))

RegisteredHeadings(g) ==
    {PartId(g.owner, x.num) : x \in Elements(g.parts)}
    \cup {ChapterId(g.owner, c) : c \in RegisteredChapters(g)}
    \cup {RegisteredSection(g, i) : i \in DOMAIN g.secs}
    \cup {SubsectionId(g.owner, x.chap, x.sec, x.num) : x \in Elements(g.subs)}

\* The heading of rank d an Article is under: its line and its node.
HeadingLine(lines, standing, a, d) ==
    Nearest(lines, standing, d, CHOOSE i \in DOMAIN lines : lines[i] = a.s)
RankTypes == <<"Part", "Chapter", "Section", "Subsection">>
HeadingNode(g, a, d) ==
    {x[1] : x \in {y \in Elements(Above(g, a)) : Type(y[1]) = RankTypes[d]}}

\* Two headings of rank d, over the Articles a and b, that the payload may write
\* as one node: the Part is not in the id of what is below it, and a Chapter or a
\* Section whose number comes again is not told apart.
MayBeOneNode(a, b, d) ==
    CASE d = 1 -> FALSE
      [] d \in {2, 3} -> TRUE
      [] d = 4 -> Norm(a.part) # Norm(b.part)

\* A Subsection of the main body outside any Chapter has no node.
DroppedSubsection(g, a, d) == IsMain(g) /\ d = 4 /\ a.chap = ""

HeadingsAgree(g, lines, standing) ==
    LET arts == Elements(g.arts)
        line == [a \in arts |->
                   [d \in DOMAIN Ranks |-> HeadingLine(lines, standing, a, d)]]
        node == [a \in arts |-> [d \in DOMAIN Ranks |-> HeadingNode(g, a, d)]]
    IN  \A a, b \in arts, d \in DOMAIN Ranks :
           /\ node[a][d] # {} <=> line[a][d] # 0 /\ ~DroppedSubsection(g, a, d)
           /\ line[a][d] = line[b][d] => node[a][d] = node[b][d]
           /\ node[a][d] \cap node[b][d] # {} =>
                 line[a][d] = line[b][d] \/ MayBeOneNode(a, b, d)

\* Extraction and the graph writer give an Article, Clause or Point the same
\* name, and no two of these share one: StructuralRegistry and
\* build_graph_payload assign ids independently, from lists that repeat numbers.
\* Above the Articles every heading of the text is one node, and one that
\* extraction knows (DroppedSubsection apart).  The converse holds for Parts, and
\* for Subsections of one Part: there a node is one heading.  It does not hold for
\* Chapters and Sections (MayBeOneNode, ChapterHasOnePart), and of what is
\* registered in the main body the second of two Sections of one Chapter and
\* number, "_2", is never written.
IdsAgree ==
    Ready =>
      /\ \A g \in groups : RegisteredUnits(g) = NodeUnits(g)
      /\ \A g, h \in groups : \A x \in NodeUnits(g), y \in NodeUnits(h) :
            x[2] = y[2] => x[1] = y[1]
      /\ \A g \in groups :
            LET written == UNION {{x[1] : x \in Elements(Above(g, a))} :
                                    a \in Elements(g.arts)}
            IN  /\ written \subseteq RegisteredHeadings(g)
                /\ IsMain(g) =>
                     \A id \in RegisteredHeadings(g) \ written : id[Len(id)][3] > 1
                /\ LET lines == LinesOf(g)
                   IN  HeadingsAgree(g, lines, Standing(lines, Quoted(lines)))

\* Plan 18, 7.5: the same Chapter assigned to two Parts is a hard failure.
ChapterHasOnePart ==
    Ready =>
      \A g \in groups : \A a, b \in Elements(g.arts) :
         /\ a.part # "" /\ b.part # ""
         /\ HeadingNode(g, a, 2) \cap HeadingNode(g, b, 2) # {}
         => Norm(a.part) = Norm(b.part)

\* Whatever a label resolves to is one node of the payload: an endpoint that
\* is missing from it makes build_graph_payload refuse the whole document.
LabelsAreWritten ==
    Ready =>
      \A g \in groups, l \in Labels :
         /\ Cardinality(Resolve(g, Main, l)) <= 1
         /\ Resolve(g, Main, l) \subseteq Nodes(GraphEdges(groups))

\* _article_segments and _subtract_intervals: what a unit's span leaves to it
ArticleSegment(a) == (a.s..a.e) \ UNION {c.s..c.e : c \in Elements(a.clauses)}
ClauseSegment(c) == (c.s..c.e) \ UNION {x.s..x.e : x \in Elements(c.points)}
PointSegment(x) == x.s..x.e
HeldBelow(a) ==
    UNION {{c.s} \cup c.text
           \cup UNION {{x.s} \cup x.text : x \in Elements(c.points)} :
           c \in Elements(a.clauses)}
Units(a) ==
    {<<a.s, a.text \ HeldBelow(a), ArticleSegment(a)>>}
    \cup UNION {{<<c.s, c.text, ClauseSegment(c)>>}
                \cup {<<x.s, x.text, PointSegment(x)>> : x \in Elements(c.points)} :
                c \in Elements(a.clauses)}

\* A citation is searched for in the span of a unit and recorded as said by
\* it: every line of a unit's text lies in its own segment and in no other
\* unit's, quoted amendments apart.
SpansMatchText ==
    status = "parsed" =>
      LET quoted == UNION {{x.lines[i] : i \in Quoted(x.lines)} :
                             x \in Elements(GroupsOf(Whole))}
      IN  \A g \in groups :
        LET units == UNION {Units(a) : a \in Elements(g.arts)}
        IN  \A u \in units : \A x \in (u[2] \cup {u[1]}) \ quoted :
              {v[1] : v \in {w \in units : x \in w[3]}} = {u[1]}
=============================================================================
