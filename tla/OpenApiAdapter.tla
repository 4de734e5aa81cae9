----------------------------- MODULE OpenApiAdapter -----------------------------
(***************************************************************************)
(* The API reference: pages of the sitemap become OpenAPI documents of one *)
(* operation, aliases of one operation are collapsed, and parse_openapi    *)
(* makes entities of what is left.  A path is the sequence of its parts,   *)
(* its API version first; the slug of an operation that of its words.      *)
(***************************************************************************)
EXTENDS SourceAdapters

\* _verb_to_http_method, by how an operation's slug starts.
HttpMethod(slug) ==
    CASE slug[1] \in {"get", "list", "search"} -> "get"
      [] slug[1] = "delete" -> "delete"
      [] slug[1] \in {"update", "patch", "edit"} -> "patch"
      [] OTHER -> "post"

\* Jobs operations whose REST name is not the slug of their page.
KnownJobs ==
    {[page |-> <<"submit">>, verb |-> "post", is |-> <<"runs", "submit">>],
     [page |-> <<"get", "run">>, verb |-> "get", is |-> <<"runs", "get">>],
     [page |-> <<"list", "runs">>, verb |-> "get", is |-> <<"runs", "list">>],
     [page |-> <<"cancel", "run">>, verb |-> "post", is |-> <<"runs", "cancel">>],
     [page |-> <<"delete", "run">>, verb |-> "post", is |-> <<"runs", "delete">>],
     [page |-> <<"get", "run", "output">>, verb |-> "get", is |-> <<"runs", "get", "output">>]}

KnownStatements ==
    {<<"execute", "statement">>, <<"cancel", "execution">>, <<"get", "statement">>,
     <<"get", "statement", "result", "chunk">>}

\* Both are about one path.
ModelAliases == {<<"set", "alias">>, <<"delete", "alias">>}

\* The services whose pages name one operation each, and where it is found.
RestRoots == [registeredmodels |-> <<"2.0", "mlflow", "registered-models">>,
              modelversions |-> <<"2.0", "mlflow", "model-versions">>,
              servingendpoints |-> <<"2.0", "serving-endpoints">>,
              experiments |-> <<"2.0", "mlflow", "experiments">>]

\* _canonical_api_reference_operation: the REST operation a page is about, if the
\* service is one of those known by name.
Canonical(page) ==
    LET op == page.operation
        known == {k \in KnownJobs : k.page = op}
        job == IF known = {} THEN [verb |-> HttpMethod(op), is |-> op]
               ELSE CHOOSE k \in known : TRUE
    IN CASE page.service \in {"jobs", "jobs_21", "jobs21"} ->
              [verb |-> job.verb, path |-> <<"2.1", "jobs">> \o job.is,
               operation |-> <<"jobs">> \o job.is, version |-> "2.1"]
         [] page.service = "statementexecution" /\ op \in KnownStatements ->
              [verb |-> HttpMethod(op), path |-> <<"2.0", "sql", "statements">> \o op,
               operation |-> <<"statementexecution">> \o op, version |-> "2.0"]
         [] page.service \in DOMAIN RestRoots ->
              [verb |-> HttpMethod(op),
               path |-> RestRoots[page.service]
                        \o (IF page.service = "registeredmodels" /\ op \in ModelAliases
                            THEN <<"alias">> ELSE op),
               operation |-> <<page.service>> \o op, version |-> "2.0"]
         [] OTHER -> None

\* _fetch_openapi_from_api_sitemap: pages of another cloud, landing pages and pages
\* about no known operation are left out.
Documents(pages, cloud) ==
    LET kept == Keep(pages, LAMBDA p : /\ p.cloud \in {cloud, None}
                                       /\ ~p.landing
                                       /\ Canonical(p) # None)
        document(p) == LET c == Canonical(p)
                       IN [url |-> p.id, version |-> c.version, wellFormed |-> TRUE,
                           versioned |-> p.versioned, named |-> p.named,
                           schemas |-> {}, schemes |-> {},
                           operations |-> <<[path |-> c.path, verb |-> c.verb,
                                             operation |-> c.operation, effect |-> None,
                                             refs |-> {}, text |-> p.text]>>]
    IN Each(document, kept)

CanonicalKey(d) ==
    LET o == d.operations[1] IN <<d.version, o.verb, o.path, o.operation>>

\* Versioned aliases and current product names are preferred; then the greater URL.
Preference(d) ==
    <<IF d.versioned THEN 1 ELSE 0, IF d.named THEN 1 ELSE 0, d.url>>

\* Among a sequence sorted by URL the last of the best.
Dedupe(documents) ==
    LET rank(d) == 2 * Preference(d)[1] + Preference(d)[2]
        kept(i) == \A j \in 1..Len(documents) :
                      CanonicalKey(documents[j]) = CanonicalKey(documents[i]) =>
                         \/ rank(documents[j]) < rank(documents[i])
                         \/ rank(documents[j]) = rank(documents[i]) /\ j <= i
    IN FlattenSeq([i \in 1..Len(documents) |->
                      IF kept(i) THEN <<documents[i]>> ELSE <<>>])

-----------------------------------------------------------------------------
(* parse_openapi *)

\* _normalize_effect_class; a value it does not know is passed on.
NormalizeEffect(raw) ==
    CASE raw \in {"read", "readonly", "ro"} -> "read"
      [] raw \in {"write", "mutating", "mutate", "rw", "readwrite"} -> "write"
      [] raw \in {"writehitl", "writehumanapproval", "hitl", "destructive"} -> "write hitl"
      [] raw \in {"unclassified", "unknown", "tbd"} -> "unclassified"
      [] OTHER -> raw

\* An operation without an id is named by its verb and path.
ParseOperation(d, o) ==
    LET slug == IF o.operation = None THEN <<o.verb>> \o o.path ELSE o.operation
    IN [id |-> <<"operation", d.version, slug>>, slug |-> slug, path |-> o.path, verb |-> o.verb,
        text |-> o.text, effect |-> NormalizeEffect(o.effect),
        refs |-> o.refs, url |-> d.url]

\* A document whose parts have not the right shape, or with a path of another
\* version than it is said to be of, is an error as a whole.
Malformed(d) ==
    ~d.wellFormed \/ \E o \in ToSet(d.operations) : o.path[1] # d.version

ParseDocument(d) ==
    [id |-> <<"document", d.version>>, url |-> d.url,
     operations |-> Each(LAMBDA o : ParseOperation(d, o), d.operations),
     schemas |-> {<<"schema", d.version, s>> : s \in d.schemas},
     schemes |-> {<<"security", d.version, s>> : s \in d.schemes}]

ParseOpenApi(documents) ==
    LET good == Keep(documents, LAMBDA d : ~Malformed(d))
        parsed == Each(ParseDocument, good)
    IN [operations |-> FlattenSeq(Each(LAMBDA p : p.operations, parsed)),
        schemas |-> UNION {p.schemas : p \in ToSet(parsed)},
        schemes |-> UNION {p.schemes : p \in ToSet(parsed)},
        errors |-> {d.url : d \in {d \in ToSet(documents) : Malformed(d)}}]
=============================================================================
