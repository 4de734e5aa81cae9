------------------------------- MODULE DocsAdapter -------------------------------
(***************************************************************************)
(* parse_docs: fetched pages become texts, the texts overlapping chunks.   *)
(* A URL is a host and the parts of its path; HTML is what the parser      *)
(* calls back with, one start tag, end tag or run of words after another.  *)
(***************************************************************************)
EXTENDS SourceAdapters

CONSTANTS
    ChunkWords,     \* target_words of chunk_text
    OverlapWords    \* overlap_words

Tolerance == LET t == ChunkWords \div 10 IN IF t > 1 THEN t ELSE 1
Step == ChunkWords - OverlapWords

\* The docstring's overlap is a tenth of the target; were the step no longer than
\* the tolerance, the same chunk would be cut for ever.
ASSUME ChunkAssumption ==
    /\ ChunkWords \in Nat /\ OverlapWords \in Nat
    /\ Step > Tolerance

-----------------------------------------------------------------------------
(* What a URL says. *)

DocsHost == "docs.databricks.com"
LearnHost == "learn.microsoft.com"

CorpusCloud(url) ==
    CASE url.host = DocsHost /\ url.path # <<>> /\ url.path[1] \in {"aws", "azure", "gcp"} ->
            url.path[1]
      [] url.host = LearnHost /\ IsPrefix(<<"azure", "databricks">>, Tail(url.path)) -> "mslearn"
      [] OTHER -> None

\* The section is the part after /<cloud>/en or /en-us/azure/databricks.
SectionRoot(url) ==
    LET at == CASE url.host = DocsHost -> 3 [] url.host = LearnHost -> 4 [] OTHER -> 1
    IN IF at = 1 \/ Len(url.path) < at THEN None ELSE url.path[at]

\* Neither a landing page nor of a section without skills.
IsSkillBearing(url) ==
    /\ CorpusCloud(url) # None
    /\ url.path # <<>> /\ Last(url.path) \notin {"index", "index.html", "index.htm"}
    /\ ~url.slash
    /\ SectionRoot(url) \notin {"release-notes", "error-messages", "archive"}

-----------------------------------------------------------------------------
(* _HtmlExtractor *)

DropTags == {"script", "style", "nav", "header", "footer", "aside", "noscript", "svg"}
BlockTags == {"p", "div", "li", "ul", "ol", "blockquote", "pre", "section", "article"}
HeadingLevel == [h1 |-> 1, h2 |-> 2, h3 |-> 3, h4 |-> 4, h5 |-> 5, h6 |-> 6]

NoText == [drop |-> 0, level |-> 0, heading |-> <<>>, inTitle |-> FALSE, title |-> <<>>,
           words |-> <<>>, breaks |-> {}, newlines |-> 0, headings |-> <<>>]

\* Words go to the text; after an empty line they start a paragraph.
Write(x, words) ==
    IF words = <<>> THEN x
    ELSE [x EXCEPT !.words = @ \o words, !.newlines = 0,
                   !.breaks = IF x.newlines > 1 THEN @ \cup {Len(x.words)} ELSE @]

NewLines(x, n) == [x EXCEPT !.newlines = @ + n]

HandleStartTag(x, tag) ==
    IF tag \in DropTags THEN [x EXCEPT !.drop = @ + 1]
    ELSE IF x.drop > 0 THEN x
    ELSE CASE tag = "title" -> [x EXCEPT !.inTitle = TRUE, !.title = <<>>]
           [] tag = "br" -> NewLines(x, 1)
           [] tag \in DOMAIN HeadingLevel ->
                [x EXCEPT !.level = HeadingLevel[tag], !.heading = <<>>]
           [] OTHER -> x

\* A heading is part of the text, in a paragraph of its own.
CloseHeading(x) ==
    LET written == IF x.level = 0 \/ x.heading = <<>> THEN x
                   ELSE LET h == [level |-> x.level, words |-> x.heading]
                        IN NewLines(Write(NewLines([x EXCEPT !.headings = Append(@, h)], 2),
                                          x.heading), 2)
    IN [written EXCEPT !.level = 0, !.heading = <<>>]

HandleEndTag(x, tag) ==
    IF tag \in DropTags THEN [x EXCEPT !.drop = IF @ > 0 THEN @ - 1 ELSE 0]
    ELSE IF x.drop > 0 THEN x
    ELSE CASE tag = "title" -> [x EXCEPT !.inTitle = FALSE]
           [] tag \in DOMAIN HeadingLevel -> CloseHeading(x)
           [] tag \in BlockTags -> NewLines(x, 2)
           [] OTHER -> x

HandleData(x, words) ==
    IF x.drop > 0 THEN x
    ELSE IF x.inTitle THEN [x EXCEPT !.title = @ \o words]
    ELSE IF x.level > 0 THEN [x EXCEPT !.heading = @ \o words]
    ELSE Write(x, words)

\* feed: one callback for each event.
Handle(x, e) ==
    CASE e[1] = "start" -> HandleStartTag(x, e[2])
      [] e[1] = "end" -> HandleEndTag(x, e[2])
      [] OTHER -> HandleData(x, e[2])

\* _parse_html
ParseHtml(html) == Steps(Handle, NoText, html)

-----------------------------------------------------------------------------
(* chunk_text *)

SnapToParagraph_Forward(breaks, start) ==       \* mutant: the next paragraph
    LET near == {b \in breaks : b >= start /\ b - start <= Tolerance}
    IN IF near = {} THEN start ELSE CHOOSE b \in near : \A c \in near : b <= c

\* The last paragraph start at or shortly before a word.
SnapToParagraph(breaks, start) ==
    LET near == {b \in breaks : b <= start /\ start - b <= Tolerance}
    IN IF near = {} THEN start ELSE CHOOSE b \in near : \A c \in near : c <= b

\* chunk_text, on a text of this many words whose paragraphs start at breaks: the
\* words a chunk spans, counted from 0, upto excluded.
ChunkText(words, breaks) ==
    LET chunk(c) == LET from == SnapToParagraph(breaks, c)
                        end == from + ChunkWords
                    IN [from |-> from, upto |-> IF end < words THEN end ELSE words]
        chunks[c \in 0..words] ==
            IF c >= words THEN <<>>
            ELSE IF chunk(c).upto = words THEN <<chunk(c)>>
            ELSE <<chunk(c)>> \o chunks[chunk(c).from + Step]
    IN chunks[0]

\* Where each heading stands in the text: at the first place after the heading
\* before it where its words are.
LocateHeadings(words, headings) ==
    LET places(h, cursor) == {i \in cursor..Len(words) - Len(h.words) :
                                 SubSeq(words, i + 1, i + Len(h.words)) = h.words}
        locate(s, h) ==
            IF places(h, s.cursor) = {} THEN s
            ELSE LET at == CHOOSE i \in places(h, s.cursor) :
                              \A j \in places(h, s.cursor) : i <= j
                 IN [cursor |-> at + Len(h.words),
                     found |-> Append(s.found, [level |-> h.level, at |-> at,
                                                words |-> h.words])]
    IN Steps(locate, [cursor |-> 0, found |-> <<>>], headings).found

\* _build_heading_path_for_offset: the headings a word stands under.
HeadingPath(words, headings, offset) ==
    LET before == Keep(LocateHeadings(words, headings), LAMBDA h : h.at <= offset)
        ends(h) == \E g \in ToSet(before) : g.at > h.at /\ g.level <= h.level
    IN Each(LAMBDA h : h.words, Keep(before, LAMBDA h : ~ends(h)))

-----------------------------------------------------------------------------

\* _parse_one_page: a chunk's id is its place in the page, its content hash is of
\* that id and its words.
ParsePage(p) ==
    LET x == ParseHtml(p.html)
        cut == ChunkText(Len(x.words), x.breaks \cup {0})
        id == <<"page", CorpusCloud(p.url), p.url.path>>
        chunk(i) == LET text == SubSeq(x.words, cut[i].from + 1, cut[i].upto)
                    IN [id |-> <<"chunk", id, i>>, text |-> text, from |-> cut[i].from,
                        upto |-> cut[i].upto, hash |-> <<"chunk", id, i, text>>,
                        path |-> HeadingPath(x.words, x.headings, cut[i].from)]
    IN [id |-> id, cloud |-> CorpusCloud(p.url), section |-> SectionRoot(p.url),
        slug |-> ToSet(p.url.path), title |-> x.title,
        chunks |-> [i \in 1..Len(cut) |-> chunk(i)]]

\* The sections with their pages, and the corpora: pages kept of pages seen.
SectionRoots(pages) ==
    [k \in {<<p.cloud, p.section>> : p \in {p \in ToSet(pages) : p.section # None}} |->
        Len(Keep(pages, LAMBDA p : <<p.cloud, p.section>> = k))]
Corpora(pages, kept) ==
    [c \in {CorpusCloud(p.url) : p \in ToSet(kept)} |->
        <<Len(Keep(kept, LAMBDA p : CorpusCloud(p.url) = c)),
          Len(Keep(pages, LAMBDA p : CorpusCloud(p.url) = c))>>]

\* Pages that teach no skill are dropped.
ParseDocs(pages) ==
    LET kept == Keep(pages, LAMBDA p : IsSkillBearing(p.url))
        parsed == Each(ParsePage, kept)
    IN [pages |-> parsed, sections |-> SectionRoots(parsed), corpora |-> Corpora(pages, kept)]

\* _merge_docs_results keeps the chunks of all pages.
ChunksOf(docs) == FlattenSeq(Each(LAMBDA p : p.chunks, docs.pages))
=============================================================================
