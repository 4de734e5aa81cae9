------------------------ MODULE CapabilityGraphBuilder ------------------------
(***************************************************************************)
(* build_capability_graph: the sources merged, one after the other, into   *)
(* extensions, edges and provenance.  A graph under construction is the    *)
(* record the builders pass on (_BuildAccumulator); edges and provenance   *)
(* are sets of their keys, which is what the final deduplication leaves.   *)
(***************************************************************************)
EXTENDS SdkAdapter, OpenApiAdapter, LabsAdapter, DocsAdapter, TLC

CONSTANTS
    TopOrder,       \* the top order of each meta-skill
    SdkRules,       \* meta-skills of methods: [module, classes, words, meta], in order
    SdkSlugs,       \* aliases of methods: <<module, class, name>> -> slug
    PathRules,      \* meta-skills of REST paths: [prefix, meta], in order
    OperationSlugs, \* aliases of operations: slug -> slug
    SectionMeta,    \* docs_section_aliases: section -> meta-skill
    DocsRules,      \* what a page is about: [ext, sections, words], in order
    PhaseMeta,      \* phase of a migration -> meta-skill
    LabsDefault,    \* the meta-skill of a labs command of any other phase
    Blank           \* the empty content hash of a stub

Metas == DOMAIN TopOrder

ASSUME RoutesAssumption ==
    {r.meta : r \in ToSet(SdkRules) \cup ToSet(PathRules)}
        \cup {PhaseMeta[p] : p \in DOMAIN PhaseMeta}
        \cup {SectionMeta[s] : s \in DOMAIN SectionMeta} \cup {LabsDefault} \subseteq Metas

ASSUME RulesAssumption == DocsRules \in Seq(ToSet(DocsRules))

\* _SOURCE_AUTHORITY, in hundredths.
Authority == [sdk |-> 100, openapi |-> 95, docs |-> 85, labs |-> 75, hand_authored |-> 0]

EmptyGraph == [ext |-> <<>>, edges |-> {}, provenance |-> {},
               contributing |-> [m \in Metas |-> {}], unlinked |-> {}]

ContentHash_OfId(e, text) == <<e>>        \* mutant: the text is left out

\* The hash of an extension's id and text, its key in the embedding cache and in
\* the vector index.
ContentHash(e, text) == <<e, text>>

Text(title, synopsis, use) == [title |-> title, synopsis |-> synopsis, use |-> use]

Extension(e, meta, text, effect, authority) ==
    [meta |-> meta, text |-> text, effect |-> effect, authority |-> authority,
     deprecatedBy |-> None, exemplar |-> None, hash |-> ContentHash(e, text)]

Put(g, e, row) ==
    [g EXCEPT !.ext = [x \in DOMAIN g.ext \cup {e} |-> IF x = e THEN row ELSE g.ext[x]]]

Upsert_Latest(g, e, meta, text, effect, authority) ==     \* mutant: the last one wins
    Put(g, e, Extension(e, meta, text, effect, authority))

\* _upsert_extension: only a strictly higher authority replaces a row, and then
\* the whole row.
Upsert(g, e, meta, text, effect, authority) ==
    IF e \in DOMAIN g.ext /\ authority <= g.ext[e].authority THEN g
    ELSE Put(g, e, Extension(e, meta, text, effect, authority))

Edge(g, src, dst, kind) ==
    [g EXCEPT !.edges = @ \cup {[src |-> src, dst |-> dst, kind |-> kind]}]

\* A provenance row of entity e, and the source's part in its meta-skill.
Attribute(g, e, kind, ref) ==
    [g EXCEPT !.provenance = @ \cup {[entity |-> e, kind |-> kind, ref |-> ref]}]
Contribute(g, meta, kind) == [g EXCEPT !.contributing[meta] = @ \cup {kind}]

Unlinked(g, id) == [g EXCEPT !.unlinked = @ \cup {id}]

\* An entity x that defines extension e of a meta-skill.
Derive(g, kind, meta, e, x, text, effect) ==
    LET up == Upsert(g, e, meta, text, effect, Authority[kind])
    IN Attribute(Edge(Contribute(up, meta, kind), e, x.id, "derives"), e, kind, x.id)

\* _mint_extension_id: no separators at the ends of the slug.
Mint(meta, slug) ==
    LET inner(w) == w # ""
    IN <<"ext", meta, SubSeq(slug, SelectInSeq(slug, inner), SelectLastInSeq(slug, inner))>>

\* The meta-skill of the first of some rules, if any.
FirstMeta(rules) == IF rules = <<>> THEN None ELSE rules[1].meta

-----------------------------------------------------------------------------
(* The SDK. *)

\* _resolve_meta_for_sdk_method: by the service's class and the words of the name,
\* where a module serves several meta-skills.
MetaOfMethod(m) ==
    FirstMeta(Keep(SdkRules, LAMBDA r :
        /\ r.module = m.module
        /\ r.classes = {} \/ m.class \in r.classes
        /\ r.words = {} \/ r.words \cap ToSet(m.name) # {}))

SlugOfMethod(m) ==
    LET key == <<m.module, m.class, m.name>>
    IN IF key \in DOMAIN SdkSlugs THEN SdkSlugs[key] ELSE m.name

ExtOfMethod(m) == Mint(MetaOfMethod(m), SlugOfMethod(m))

\* An _iter method is no capability of its own when its peer is there.
PagesOver(methods, m) ==
    /\ m.paginates # None
    /\ m.paginates \in {n.id : n \in ToSet(methods)}

Survivors_All(methods) ==           \* mutant: skipped methods are linked too
    {m \in ToSet(methods) : MetaOfMethod(m) # None}

\* The methods that contribute an extension.
Survivors(methods) ==
    {m \in ToSet(methods) : MetaOfMethod(m) # None /\ ~PagesOver(methods, m)}

FromMethod(methods, g, m) ==
    CASE MetaOfMethod(m) = None -> Unlinked(g, m.id)
      [] MetaOfMethod(m) # None /\ PagesOver(methods, m) -> g
      [] OTHER -> Derive(g, "sdk", MetaOfMethod(m), ExtOfMethod(m), m,
                         Text(m.name, m.text, m.text), m.effect)

\* The extension of a method's successor, if that contributed one.
Successor(methods, m) ==
    {ExtOfMethod(n) : n \in {n \in Survivors(methods) : n.id = m.successor}}

LinkSuccessor(methods, g, m) ==
    IF m \notin Survivors(methods) \/ Successor(methods, m) \subseteq {ExtOfMethod(m)} THEN g
    ELSE LET dst == CHOOSE e \in Successor(methods, m) : TRUE
         IN Edge([g EXCEPT !.ext[ExtOfMethod(m)].deprecatedBy = dst],
                 ExtOfMethod(m), dst, "deprecates")

FromMethods(g, methods) == Steps(LAMBDA h, m : FromMethod(methods, h, m), g, methods)
LinkSuccessors(g, methods) == Steps(LAMBDA h, m : LinkSuccessor(methods, h, m), g, methods)

\* The deprecations come last: by then all extensions are there.
BuildFromSdk(g, sdk) == LinkSuccessors(FromMethods(g, sdk.methods), sdk.methods)

-----------------------------------------------------------------------------
(* The hand-authored skills, and the other sources. *)

\* _link_exemplars: skills whose pointer is missing, malformed or of an unknown
\* meta-skill are broken; a pointer at nothing mints a stub.
Broken(skills) == {s \in ToSet(skills) : s.ext = None \/ s.meta \notin Metas}

\* A row says which skill is its exemplar.
Stamp(row, s) == [row EXCEPT !.exemplar = s.id]

Stub(s) ==
    [Extension(s.ext, s.meta, Text(s.title, s.title, <<>>), "unclassified",
               Authority.hand_authored) EXCEPT !.hash = Blank]

LinkExemplar(skills, g, s) ==
    IF s \in Broken(skills) THEN g
    ELSE LET row == IF s.ext \in DOMAIN g.ext THEN g.ext[s.ext] ELSE Stub(s)
         IN Attribute(Edge(Put(g, s.ext, Stamp(row, s)), s.id, s.ext, "exemplifies"),
                      s.ext, "hand_authored", s.id)

LinkExemplars(g, skills) == Steps(LAMBDA h, s : LinkExemplar(skills, h, s), g, skills)

\* _resolve_meta_for_openapi_path
MetaOfPath(path) == FirstMeta(Keep(PathRules, LAMBDA r : IsPrefix(r.prefix, path)))

SlugOfOperation(o) ==
    IF o.slug \in DOMAIN OperationSlugs THEN OperationSlugs[o.slug] ELSE o.slug

\* An operation that says nothing of its effect is unclassified.
FromOperation(g, o) ==
    LET meta == MetaOfPath(o.path)
    IN IF meta = None THEN Unlinked(g, o.id)
       ELSE Derive(g, "openapi", meta, Mint(meta, SlugOfOperation(o)), o,
                   Text(o.text, o.text, o.text),
                   IF o.effect = None THEN "unclassified" ELSE o.effect)

BuildFromOpenApi(g, openapi) == Steps(FromOperation, g, openapi.operations)

\* Edges from an entity to each chunk of a page.
Cite(g, e, p) ==
    LET cites == {[src |-> e, dst |-> c.id, kind |-> "cites"] : c \in ToSet(p.chunks)}
    IN Attribute([g EXCEPT !.edges = @ \cup cites], e, "docs", p.id)

\* _docs_extension_targets: the extensions a page of their sections speaks of.
DocsTargets(p) ==
    LET about == {p.section} \cup ToSet(p.title) \cup p.slug
    IN Each(LAMBDA r : r.ext,
            Keep(DocsRules, LAMBDA r : p.section \in r.sections /\ r.words \cap about # {}))

\* An extension that a page speaks of is rewritten if it was known from less, with
\* the page's title for a synopsis.
Enrich(p, g, e) ==
    LET row == g.ext[e]
        synopsis == IF p.title # <<>> THEN p.title ELSE row.text.synopsis
    IN Cite(Upsert(g, e, row.meta, [row.text EXCEPT !.synopsis = synopsis],
                   row.effect, Authority.docs), e, p)

EnrichAll(g, p, exts) == Steps(LAMBDA h, e : Enrich(p, h, e), g, exts)

\* A page is cited by its meta-skill and by the extensions it speaks of.
FromPage(g, p) ==
    IF p.section \notin DOMAIN SectionMeta THEN Unlinked(g, p.id)
    ELSE LET meta == SectionMeta[p.section]
         IN EnrichAll(Cite(Contribute(g, meta, "docs"), <<"meta", meta>>, p), p,
                      Keep(DocsTargets(p), LAMBDA e : e \in DOMAIN g.ext))

BuildFromDocs(g, docs) == Steps(FromPage, g, docs.pages)

\* Commands, and functions of a known phase; only transpilation writes.
FromCallable(g, c) ==
    LET meta == IF c.phase \in DOMAIN PhaseMeta THEN PhaseMeta[c.phase] ELSE LabsDefault
    IN IF ~c.cli /\ (c.method \/ c.phase = "unknown") THEN g
       ELSE Derive(g, "labs", meta, Mint(meta, c.name), c, Text(c.name, c.text, c.text),
                   IF c.phase = "transpile" THEN "write" ELSE "read")

BuildFromLabs(g, labs) ==
    IF labs.repo = None THEN g ELSE Steps(FromCallable, g, labs.callables)

-----------------------------------------------------------------------------

MetaSkills(g) == {m \in Metas : g.contributing[m] # {}}

\* The roll-ups per top order that the console lists.
TopOrders(g) ==
    [t \in {TopOrder[m] : m \in Metas} |->
        [metas |-> {m \in MetaSkills(g) : TopOrder[m] = t},
         extensions |-> {e \in DOMAIN g.ext : TopOrder[g.ext[e].meta] = t},
         exemplars |-> {e \in DOMAIN g.ext : /\ TopOrder[g.ext[e].meta] = t
                                             /\ g.ext[e].exemplar # None}]]

\* build_capability_graph: each source may be None; skills come second.
BuildGraph(sdk, skills, openapi, docs, labs) ==
    LET or(build(_, _), g, source) == IF source = None THEN g ELSE build(g, source)
        merged == or(BuildFromLabs,
                     or(BuildFromDocs,
                        or(BuildFromOpenApi,
                           LinkExemplars(or(BuildFromSdk, EmptyGraph, sdk), skills),
                           openapi),
                        docs),
                     labs)
    IN [ext |-> merged.ext, edges |-> merged.edges, provenance |-> merged.provenance,
        unlinked |-> merged.unlinked, metas |-> MetaSkills(merged),
        tops |-> TopOrders(merged)]
=============================================================================
