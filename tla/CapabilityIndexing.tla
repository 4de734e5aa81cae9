-------------------------- MODULE CapabilityIndexing --------------------------
(***************************************************************************)
(* The front half of the daily indexer job: plan, extraction of the        *)
(* sources, the graph builder, the embedding of its texts through a cache  *)
(* and under a token cap, the upsert into the one vector index, up to the  *)
(* promotion that SnapshotLifecycle takes over.  The sources change while  *)
(* the job reads them, pages fail to load, tasks fail and are retried.     *)
(***************************************************************************)
EXTENDS CapabilityGraphBuilder, FiniteSets

CONSTANTS
    Days,            \* what the sources may hold, oldest first
    World,           \* for each day the content of each source
    SkillSettings,   \* where the job may be told to find the hand-authored skills
    SkillSetting,    \* where it usually is
    SkipSettings,    \* values of BV_INDEXER_SKIP_SOURCES
    ExtensionOrder,  \* the extension ids, sorted
    BatchSize,       \* batch_size of embed_batch, in texts
    UpsertSize,      \* batch_size of vs_upsert_embeddings
    TokenCap,        \* daily_token_cap, in texts
    Outages,         \* sets of batches a service may fail in one invocation
    MaxRetries,      \* max_retries of a task
    QuietRuns,       \* runs in which all texts fit under the cap
    MaxFaults        \* bound: faults of one history

ASSUME IndexingAssumption ==
    /\ Days \in Seq(DOMAIN World) /\ Days # <<>>
    /\ {BatchSize, UpsertSize} \subseteq Nat \ {0}
    /\ TokenCap \in Nat /\ TokenCap >= BatchSize
    /\ SkillSetting \in SkillSettings
    /\ {} \in Outages /\ \A bad \in Outages : bad \subseteq Nat
    /\ MaxRetries \in Nat /\ MaxFaults \in Nat /\ QuietRuns \in Nat \ {0}
    /\ ExtensionOrder \in Seq(ToSet(ExtensionOrder))

\* A source is read as lists: files of classes of methods, pages of tags and words.
ASSUME WorldAssumption ==
    LET list(s) == s \in Seq(ToSet(s))
        classes(cs) == list(cs) /\ \A c \in ToSet(cs) : list(c.methods)
    IN \A d \in DOMAIN World :
        LET w == World[d] IN
        /\ list(w.sdk.files) /\ \A f \in ToSet(w.sdk.files) : classes(f.classes)
        /\ list(w.openapi)
        /\ list(w.docs)
        /\ \A p \in ToSet(w.docs) :
            list(p.html) /\ \A e \in ToSet(p.html) : e[1] \notin {"start", "end"} => list(e[2])
        /\ list(w.labs)
        /\ \A f \in ToSet(w.labs) : list(f.functions) /\ classes(f.classes)

\* A manifest and a directory list skills by their names; what is read from a pointer
\* is an extension's id (_parse_exemplar_pointer) or nothing.
ASSUME SkillsAssumption ==
    \A setting \in SkillSettings :
        /\ setting.dirs \in Seq(ToSet(setting.dirs))
        /\ \A skills \in (ToSet(setting.dirs) \cup {setting.manifest}) \ {None} :
            /\ skills \in Seq(ToSet(skills))
            /\ \A s \in ToSet(skills) : s.id # None /\ (s.ext # None => Len(s.ext) = 3)

Sources == {"sdk", "openapi", "docs", "labs"}

VARIABLES
    day,        \* index into Days: what the sources hold now
    settled,    \* from now on no source changes and nothing fails
    faults,     \* how many things went wrong; a bound
    phase,      \* the task the run is at; "idle" between runs
    attempt,    \* which attempt of it
    plan,       \* planned_sources
    staged,     \* artifacts of the extraction tasks
    graph,      \* artifact of the graph builder
    embedded,   \* artifact of embed: its rows and what it reports
    quiet,      \* history: runs planned since the sources settled
    cache,      \* embedding_cache: content hash -> the text that was embedded
    index,      \* the vector index: content hash -> what it holds
    active      \* what was promoted last

worldVars == <<day, settled, faults>>
runVars == <<phase, attempt, plan, staged, graph, embedded>>
storeVars == <<cache, index, active>>
vars == <<worldVars, runVars, quiet, storeVars>>

NoEmbedding == [rows |-> <<>>, errors |-> {}, truncated |-> FALSE]

-----------------------------------------------------------------------------
(* Tasks of the job. *)

Goto(p) == phase' = p /\ attempt' = 1

EndRun == /\ Goto("idle") /\ plan' = {} /\ graph' = None /\ embedded' = NoEmbedding
          /\ staged' = [s \in Sources |-> None]

\* Something goes wrong, or nothing does.
Fault == ~settled /\ faults < MaxFaults /\ faults' = faults + 1 /\ UNCHANGED <<day, settled>>
NoFault == UNCHANGED worldVars
FaultUnless(well) == IF well THEN NoFault ELSE Fault

\* The task raises or its process dies: it is tried again, or the run has failed.
Fails ==
    \/ /\ attempt <= MaxRetries
       /\ attempt' = attempt + 1
       /\ UNCHANGED <<phase, plan, staged, graph, embedded>>
    \/ EndRun

Plan ==
    /\ phase = "idle"
    /\ Goto("extract")
    /\ \E skip \in SkipSettings : (settled => skip = {}) /\ plan' = Sources \ skip
    /\ quiet' = IF settled /\ quiet <= QuietRuns THEN quiet + 1 ELSE quiet
    /\ NoFault
    /\ UNCHANGED <<staged, graph, embedded, storeVars>>

\* Pages that could not be fetched are left out without a word; so are all of them
\* when the sitemap cannot be.
Fetched(source, content) ==
    IF source \in {"docs", "openapi"}
    THEN {<<>>} \cup {RemoveAt(content, i) : i \in DOMAIN content} ELSE {}

\* The bundle deploys one cloud, and what is merged over the clouds is its own.
Parse(source, content) ==
    CASE source = "sdk" -> ParseSdk(content)
      [] source = "docs" -> ParseDocs(content)
      [] source = "openapi" -> ParseOpenApi(Dedupe(Documents(content, "aws")))
      [] OTHER -> ParseLakebridge(content)

\* What becomes of a source on a day, and of what is left of it without some pages.
Artifact ==
    [d \in 1..Len(Days) |-> [s \in Sources |-> Parse(s, World[Days[d]][s])]]
Remains ==
    [d \in 1..Len(Days) |->
        [s \in Sources |-> {Parse(s, c) : c \in Fetched(s, World[Days[d]][s])}]]

\* One extraction task; it runs though its source is not planned.
Extract(source) ==
    /\ phase = "extract"
    /\ staged[source] = None
    /\ \/ /\ staged' = [staged EXCEPT ![source] = Artifact[day][source]]
          /\ NoFault
       \/ /\ \E rest \in Remains[day][source] :
                staged' = [staged EXCEPT ![source] = rest]
          /\ Fault
    /\ UNCHANGED <<quiet, phase, attempt, plan, graph, embedded, storeVars>>

\* An extraction task fails for good: nothing after it runs.
ExtractFails ==
    /\ phase = "extract"
    /\ Fault
    /\ EndRun
    /\ UNCHANGED <<quiet, storeVars>>

\* The artifact of a source, if it was planned.
Loaded(source) == IF source \in plan THEN staged[source] ELSE None

\* load_skill refuses a skill without a well-formed pointer.
Loadable(skills) == \A s \in ToSet(skills) : s.ext # None

\* _load_hand_authored_skill_specs: the manifest if one is set, else the first of the
\* directories that has skills; None if it raises.
HandAuthored(setting) ==
    LET found == Keep(setting.dirs, LAMBDA d : d # <<>>)
    IN CASE setting.manifest # None -> IF setting.manifest = <<>> THEN None
                                       ELSE setting.manifest
         [] setting.manifest = None /\ found # <<>> /\ Loadable(found[1]) -> found[1]
         [] OTHER -> None

Build ==
    /\ phase = "extract"
    /\ \A s \in Sources : staged[s] # None
    /\ \E setting \in SkillSettings : \E skills \in {HandAuthored(setting)} :
        /\ FaultUnless(setting = SkillSetting)
        /\ \/ /\ skills # None
              /\ graph' \in {BuildGraph(Loaded("sdk"), skills, Loaded("openapi"),
                                        Loaded("docs"), Loaded("labs"))}
              /\ Goto("embed")
              /\ UNCHANGED <<plan, staged, embedded>>
           \/ /\ skills = None
              /\ Fails
    /\ UNCHANGED <<quiet, storeVars>>

-----------------------------------------------------------------------------
(* embed *)

\* A text to embed under its hash; a hash that was seen before is not asked again.
Request(requests, r) ==
    IF \E q \in ToSet(requests) : q.hash = r.hash THEN requests ELSE Append(requests, r)
Distinct(entities) == Steps(Request, <<>>, entities)

Chunks(docs) == IF docs = None THEN <<>> ELSE ChunksOf(docs)
Extensions(g) == Keep(ExtensionOrder, LAMBDA e : e \in DOMAIN g.ext)

\* The text of an extension as it is embedded.
Prose(text) == text.title \o text.synopsis \o text.use

\* run_embed's requests: the chunks of planned docs, then every extension.
Requests(g, docs) ==
    LET chunk(c) == [hash |-> c.hash, text |-> c.text]
        extension(e) == [hash |-> g.ext[e].hash, text |-> Prose(g.ext[e].text)]
    IN Distinct(Each(chunk, Chunks(docs)) \o Each(extension, Extensions(g)))

Flush_Unreported(b, bad) ==             \* mutant: a failed batch is no error
    IF b.tokens + Len(b.pending) > TokenCap THEN [b EXCEPT !.truncated = TRUE]
    ELSE IF b.batch \in bad THEN [b EXCEPT !.pending = <<>>, !.batch = @ + 1]
    ELSE [b EXCEPT !.rows = @ \o b.pending, !.tokens = @ + Len(b.pending),
                   !.pending = <<>>, !.batch = @ + 1]

\* _flush: over the cap the scan is to stop; a batch that keeps failing leaves
\* errors and the scan goes on; else the batch is embedded and paid for.
Flush(b, bad) ==
    IF b.tokens + Len(b.pending) > TokenCap THEN [b EXCEPT !.truncated = TRUE]
    ELSE IF b.batch \in bad
         THEN [b EXCEPT !.errors = @ \cup {r.hash : r \in ToSet(b.pending)},
                        !.pending = <<>>, !.batch = @ + 1]
    ELSE [b EXCEPT !.rows = @ \o b.pending, !.tokens = @ + Len(b.pending),
                   !.pending = <<>>, !.batch = @ + 1]

Hit_Paid(b, r) ==                       \* mutant: a hit counts under the cap
    [b EXCEPT !.rows = Append(@, [hash |-> r.hash, text |-> cache[r.hash]]), !.tokens = @ + 1]

\* A text whose vector is in the cache costs nothing.
Hit(b, r) ==
    [b EXCEPT !.rows = Append(@, [hash |-> r.hash, text |-> cache[r.hash]])]

\* A full batch is flushed; the rest waits for more.
Miss(b, r, bad) ==
    LET c == [b EXCEPT !.pending = Append(@, r), !.misses = @ + 1]
    IN IF Len(c.pending) >= BatchSize THEN Flush(c, bad) ELSE c

Scan(bad, b, r) ==
    CASE b.truncated -> b
      [] ~b.truncated /\ r.hash \in DOMAIN cache -> Hit(b, r)
      [] OTHER -> Miss(b, r, bad)

NoBatch == [rows |-> <<>>, pending |-> <<>>, errors |-> {}, truncated |-> FALSE,
            tokens |-> 0, misses |-> 0, batch |-> 1]

ScanAll(requests, bad) == Steps(LAMBDA b, r : Scan(bad, b, r), NoBatch, requests)

\* embed_batch, when the endpoint fails the batches in bad.
EmbedBatch(requests, bad) ==
    LET b == ScanAll(requests, bad)
    IN IF b.pending # <<>> /\ ~b.truncated THEN Flush(b, bad) ELSE b

TextByHash(rows) ==
    [h \in {r.hash : r \in ToSet(rows)} |-> (CHOOSE r \in ToSet(rows) : r.hash = h).text]

\* The cache table is overwritten by the rows of this run.
CacheAfter(rows) == IF rows = <<>> THEN cache ELSE TextByHash(rows)

\* The task fails if it has no row to show for its misses; it may also die after
\* it wrote the cache.
Embed ==
    /\ phase = "embed"
    /\ \E requests \in {Requests(graph, Loaded("docs"))}, bad \in Outages :
        \E b \in {EmbedBatch(requests, bad)} :
            /\ bad \subseteq 1..(b.batch - 1)
            /\ cache' = CacheAfter(b.rows)
            /\ \/ /\ b.rows # <<>> \/ b.misses = 0
                  /\ FaultUnless(bad = {})
                  /\ Goto("upsert")
                  /\ embedded' = [rows |-> b.rows, errors |-> b.errors,
                                  truncated |-> b.truncated]
                  /\ UNCHANGED <<plan, staged, graph>>
               \/ /\ Fault
                  /\ Fails
    /\ UNCHANGED <<quiet, index, active>>

-----------------------------------------------------------------------------
(* vs_upsert, and the gates of the promotion. *)

\* What the index is told of a vector: the entity it stands for and its text.  A
\* later entity of the same hash takes its place.
EntityMetadata(g, docs) ==
    LET chunks == ToSet(Chunks(docs))
        exts == Extensions(g)
        hash(i) == g.ext[exts[i]].hash
        latest(h) == exts[CHOOSE i \in 1..Len(exts) :
                             hash(i) = h /\ \A j \in i + 1..Len(exts) : hash(j) # h]
    IN [h \in {c.hash : c \in chunks} \cup {hash(i) : i \in 1..Len(exts)} |->
            IF \E c \in chunks : c.hash = h
            THEN LET c == CHOOSE c \in chunks : c.hash = h
                 IN [entity |-> c.id, text |-> c.text]
            ELSE [entity |-> latest(h), text |-> Prose(g.ext[latest(h)].text)]]

\* The rows of the upsert's batches that land.
Landed(rows, bad) ==
    {rows[i] : i \in {i \in 1..Len(rows) : (i - 1) \div UpsertSize + 1 \notin bad}}

\* Rows of known entities, batch by batch; a batch that keeps failing is an error,
\* and one error is enough for the gate to refuse the snapshot.
IndexAfter(rows, bad) ==
    LET meta == EntityMetadata(graph, Loaded("docs"))
        landed == {r \in Landed(rows, bad) : r.hash \in DOMAIN meta}
    IN [h \in DOMAIN index \cup {r.hash : r \in landed} |->
          IF \E r \in landed : r.hash = h
          THEN [entity |-> meta[h].entity, text |-> meta[h].text,
                vector |-> (CHOOSE r \in landed : r.hash = h).text]
          ELSE index[h]]

VsUpsert ==
    /\ phase = "upsert"
    /\ \E bad \in Outages :
        /\ index' \in {IndexAfter(embedded.rows, bad)}
        /\ \/ /\ bad = {}
              /\ NoFault
              /\ Goto("promote")
              /\ UNCHANGED <<plan, staged, graph, embedded>>
           \/ /\ bad # {}
              /\ Fault
              /\ EndRun
           \/ /\ Fault
              /\ Fails
    /\ UNCHANGED <<quiet, cache, active>>

\* What is to be found by a search once this run is promoted.
Texts == {r.hash : r \in ToSet(Requests(graph, Loaded("docs")))}

\* The gates look at persist, vs_upsert and smoke, not at what embed reports.
Promote ==
    /\ phase = "promote"
    /\ \E passed \in BOOLEAN :
        /\ FaultUnless(passed)
        /\ active' \in {IF ~passed THEN active
                        ELSE [texts |-> Texts, graph |-> graph,
                              reported |-> embedded.errors # {} \/ embedded.truncated]}
    /\ EndRun
    /\ UNCHANGED <<quiet, cache, index>>

-----------------------------------------------------------------------------
(* The world outside. *)

\* The sources move on while the job may be reading them.
Change ==
    /\ ~settled
    /\ day < Len(Days)
    /\ day' = day + 1
    /\ UNCHANGED <<quiet, settled, faults, runVars, storeVars>>

\* Between two runs: one in which nothing happens to go wrong needs no promise.
Settle ==
    /\ ~settled
    /\ phase = "idle"
    /\ settled' = TRUE
    /\ UNCHANGED <<quiet, day, faults, runVars, storeVars>>

Init ==
    /\ day = 1 /\ settled = FALSE /\ faults = 0 /\ quiet = 0
    /\ phase = "idle" /\ attempt = 1 /\ plan = {} /\ graph = None
    /\ embedded = NoEmbedding
    /\ staged = [s \in Sources |-> None]
    /\ cache = <<>> /\ index = <<>> /\ active = None

Task == Plan \/ (\E s \in Sources : Extract(s)) \/ Build \/ Embed \/ VsUpsert \/ Promote

Next == Task \/ ExtractFails \/ Change \/ Settle

Spec == Init /\ [][Next]_vars

-----------------------------------------------------------------------------
(* Properties. *)

\* Every variable keeps to its domain; what is cached, indexed or promoted has
\* content hashes of the sources' texts.
TypeOK ==
    /\ day \in 1..Len(Days) /\ settled \in BOOLEAN /\ faults \in 0..MaxFaults
    /\ phase \in {"idle", "extract", "embed", "upsert", "promote"}
    /\ attempt \in 1..MaxRetries + 1
    /\ plan \subseteq Sources /\ quiet \in 0..QuietRuns + 1
    /\ DOMAIN staged = Sources
    /\ graph = None <=> phase \in {"idle", "extract"}
    /\ phase \notin {"upsert", "promote"} => embedded = NoEmbedding
    /\ \A h \in DOMAIN index : DOMAIN index[h] = {"entity", "text", "vector"}

\* In how many elements of some kind the text of a page is after so many tags and words.
Depth(html, tags, i) ==
    LET of(kind) == {j \in 1..i : html[j][1] = kind /\ html[j][2] \in tags}
    IN Cardinality(of("start")) - Cardinality(of("end"))

\* The words a reader of a page sees, its title aside.
Visible(html) ==
    FlattenSeq([i \in 1..Len(html) |->
        IF /\ html[i][1] = "data"
           /\ ~(Depth(html, DropTags, i) > 0) /\ ~(Depth(html, {"title"}, i) > 0)
        THEN html[i][2] ELSE <<>>])
VisiblePages ==
    {[path |-> q.url.path, words |-> Visible(q.html)] :
        q \in UNION {ToSet(World[d].docs) : d \in DOMAIN World}}

\* A page as a browser would have it: no title is in a title and no heading in a heading,
\* no element ends that has not begun, what begins in a dropped element ends in it, and
\* all dropped elements and headings end.
Nests(html) ==
    LET dropped(i) == Depth(html, DropTags, i)
        open(i) == <<Depth(html, {"title"}, i), Depth(html, DOMAIN HeadingLevel, i)>>
    IN /\ \A e \in ToSet(html) : e[1] \in {"start", "end", "data"}
       /\ \A i \in 1..Len(html) :
            dropped(i) >= 0 /\ (dropped(i) = 0 => open(i) \in {0, 1} \X {0, 1})
       /\ \A i \in 2..Len(html) : \A j \in 0..i - 2 :
            /\ dropped(j) = 0 /\ dropped(i) = 0
            /\ \A k \in j + 1..i - 1 : dropped(k) > 0
            => open(i) = open(j)
       /\ dropped(Len(html)) = 0 /\ open(Len(html))[2] = 0
PagesNest == \A d \in DOMAIN World : \A q \in ToSet(World[d].docs) : Nests(q.html)

\* The chunks of a page, put together without what each repeats of the one before it,
\* are what a reader sees of the page; they advance, and each shares the overlap with
\* the one before it ("1,500-token chunks with 150-token overlap").
ChunksOverlap ==
    phase = "extract" /\ staged["docs"] # None =>
        \A p \in ToSet(staged["docs"].pages) :
            LET c == p.chunks
                rest(k) == IF k = 1 THEN c[1].text
                           ELSE SubSeq(c[k].text, c[k - 1].upto - c[k].from + 1, Len(c[k].text))
            IN /\ [path |-> p.id[3], words |-> FlattenSeq([k \in 1..Len(c) |-> rest(k)])]
                    \in VisiblePages
               /\ \A k \in 2..Len(c) : /\ c[k - 1].from < c[k].from
                                       /\ c[k].from <= c[k - 1].upto - OverlapWords

\* Whatever the order the sources are merged in, an extension's row comes from the
\* most trusted source that the provenance ledger records for it.
BestSourceWins ==
    phase = "embed" =>
        \A e \in DOMAIN graph.ext :
            LET kinds == {p.kind : p \in {p \in graph.provenance : p.entity = e}}
            IN /\ \E k \in kinds : graph.ext[e].authority = Authority[k]
               /\ \A k \in kinds : graph.ext[e].authority >= Authority[k]

\* The entities that the planned sources list.
Listed ==
    LET ids(source, field) ==
            IF source \in plan THEN {x.id : x \in ToSet(staged[source][field])} ELSE {}
    IN ids("sdk", "methods") \cup ids("openapi", "operations") \cup ids("labs", "callables")

\* The graph holds together: edges between extensions and the edges of skills end at
\* extensions that exist, an extension derives from entities the sources list, a
\* deprecated row and its edge agree, and a skill linked to an extension is on its row, unless
\* a source other than the SDK has rewritten the row since.
EdgesGrounded ==
    phase = "embed" =>
        /\ \A x \in graph.edges :
            /\ x.kind \in {"derives", "deprecates"} => x.src \in DOMAIN graph.ext
            /\ x.kind \in {"deprecates", "exemplifies"} => x.dst \in DOMAIN graph.ext
            /\ x.kind = "derives" => x.dst \in Listed
        /\ \A e \in DOMAIN graph.ext :
            LET dst == graph.ext[e].deprecatedBy IN
            dst # None => [src |-> e, dst |-> dst, kind |-> "deprecates"] \in graph.edges
        /\ \A x \in {x \in graph.edges : x.kind = "exemplifies"} :
            graph.ext[x.dst].exemplar = None
                => graph.ext[x.dst].authority \in
                     {Authority.openapi, Authority.docs, Authority.labs}

\* The vector found under a text is the vector of that text, through any history of
\* changed sources, cached vectors and failed runs; only the stubs, which share one
\* hash, mix theirs up.
VectorsEncodeTexts ==
    \A h \in DOMAIN index \ {Blank} : index[h].vector = index[h].text

\* A promoted snapshot can be searched for all its texts, unless the run's embed
\* artifact owned up to errors or to the cap.
MissingIsReported ==
    active # None =>
        active.reported \/ active.texts \subseteq DOMAIN index

\* The graph of all that the sources hold on a day, and its texts.
FullGraph ==
    [d \in 1..Len(Days) |->
        LET a == Artifact[d]
        IN BuildGraph(a["sdk"], HandAuthored(SkillSetting), a["openapi"], a["docs"], a["labs"])]
FullTexts(d) ==
    {r.hash : r \in ToSet(Requests(FullGraph[d], Artifact[d]["docs"]))}

\* Each run gets at least the batches through that the cap has room for; the bundle has
\* skills, and a promoted snapshot is not the lack of one.
ASSUME QuietAssumption ==
    /\ HandAuthored(SkillSetting) # None
    /\ \A d \in 1..Len(Days) :
        /\ Cardinality(FullTexts(d)) <= QuietRuns * BatchSize * (TokenCap \div BatchSize)
        /\ \A reported \in BOOLEAN :
            [texts |-> FullTexts(d), graph |-> FullGraph[d], reported |-> reported] # None

\* The cap delays texts to a later run and never starves them: when the sources rest
\* and nothing fails, the snapshot of the last of so many runs is what the sources
\* hold, and all of it can be searched.
CatchesUp ==
    quiet > QuietRuns =>
        /\ active # None
        /\ active.texts \subseteq DOMAIN index
        /\ active.graph = FullGraph[day]
=============================================================================
