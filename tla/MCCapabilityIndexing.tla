------------------------ MODULE MCCapabilityIndexing ------------------------
(* Model-checking definitions for CapabilityIndexing: two days of sources in *)
(* which each adapter and each builder meets its interesting cases.          *)
EXTENDS CapabilityIndexing

MCTopOrder == [jobs |-> "orchestrate", models |-> "train", migrate |-> "migration"]

MCReadVerbs == {"get", "list"}
MCWriteVerbs == {"create", "submit"}
MCPhaseByVerb == [assess |-> "assessment", transpile |-> "transpile"]
MCPhaseMeta == [assessment |-> "migrate", transpile |-> "migrate"]

\* A module of several meta-skills, and one of one.
MCSdkRules ==
    <<[module |-> "ml", classes |-> {"RegistryAPI"}, words |-> {}, meta |-> "models"],
      [module |-> "jobs", classes |-> {}, words |-> {}, meta |-> "jobs"]>>
MCSdkSlugs == <<"jobs", "JobsAPI", <<"submit", "run">> >> :> <<"submit">>
MCPathRules == <<[prefix |-> <<"2.1", "jobs">>, meta |-> "jobs"]>>
MCOperationSlugs ==
    (<<"jobs", "runs", "submit">> :> <<"submit">>) @@ (<<"jobs", "list">> :> <<"list">>)
MCSectionMeta == [jobs |-> "jobs"]

Ext(meta, slug) == <<"ext", meta, slug>>
MCDocsRules ==
    <<[ext |-> Ext("jobs", <<"plan">>), sections |-> {"jobs"}, words |-> {"task"}],
      [ext |-> Ext("jobs", <<"absent">>), sections |-> {"jobs"}, words |-> {"task"}],
      [ext |-> Ext("jobs", <<"list">>), sections |-> {"jobs"}, words |-> {"other"}]>>

\* A list method that names its type, its _iter form and an old method, both of
\* which recommend the list, one that is private; one of a class nobody routes; a dataclass.
Plain == [head |-> "str", names |-> <<>>]
Doc(text) == [text |-> text, deprecated |-> FALSE, recommends |-> <<>>]
Method(name, doc) == [name |-> name, doc |-> doc, arguments |-> <<Plain>>, returns |-> Plain]
Class(name, methods) ==
    [name |-> name, api |-> TRUE, dataclass |-> FALSE, methods |-> methods, fields |-> <<>>]
Job ==
    [name |-> "Job", api |-> FALSE, dataclass |-> TRUE, methods |-> <<>>,
     fields |-> <<[name |-> <<"id">>, type |-> Plain, default |-> FALSE],
                  [name |-> <<"", "", "slots">>, type |-> Plain, default |-> FALSE]>>]
File(path, private, parses, classes) ==
    [path |-> path, private |-> private, parses |-> parses, classes |-> classes]
Sdk(text) ==
    LET old == [Doc(<<"old">>) EXCEPT !.deprecated = TRUE,
                                      !.recommends = <<<<"JobsAPI">>, <<"list">> >>]
        list == [Method(<<"list">>, Doc(text)) EXCEPT
                    !.returns = [head |-> "Iterator", names |-> <<"Job">>]]
    IN [found |-> TRUE,
        files |->
          <<File(<<"jobs">>, FALSE, TRUE,
                 <<Class("JobsAPI", <<list, Method(<<"list", "iter">>, old),
                                      Method(<<"ls">>, old),
                                      Method(<<"", "private">>, Doc(<<"no">>))>>),
                   Job>>),
            File(<<"ml", "__init__">>, TRUE, TRUE,
                 <<Class("OtherAPI", <<Method(<<"other">>, old)>>)>>),
            File(<<"broken">>, FALSE, FALSE, <<>>),
            File(<<"_internal", "jobs">>, FALSE, TRUE, <<>>)>>]

\* Two pages of one operation, one known from the SDK too, one that is a landing page
\* and one about no known operation.
ApiPage(id, service, operation, versioned) ==
    [id |-> id, cloud |-> None, landing |-> FALSE, service |-> service,
     operation |-> operation, versioned |-> versioned, named |-> FALSE, text |-> <<"api">>]
OpenApi ==
    <<ApiPage("o1", "jobs", <<"submit">>, FALSE),
      ApiPage("o2", "jobs_21", <<"submit">>, TRUE),
      ApiPage("o3", "jobs", <<"list">>, FALSE),
      [ApiPage("o4", "jobs", <<"index">>, FALSE) EXCEPT !.landing = TRUE],
      ApiPage("o5", "unknown", <<"list">>, FALSE)>>

\* A page of two chunks about a stub, with a title, a heading and a navigation bar; it
\* gets a new title.  The other one is a landing page.
Url(path) == [host |-> DocsHost, path |-> path, slash |-> FALSE]
Words(w, n) == <<"data", [i \in 1..n |-> w]>>
Start(tag) == <<"start", tag>>
End(tag) == <<"end", tag>>
Docs(title) ==
    <<[url |-> Url(<<"aws", "en", "jobs", "task">>),
       html |-> <<Start("title"), <<"data", title>>, End("title"),
                  Start("nav"), Words("bar", 2), End("nav"),
                  Start("h1"), Words("head", 1), End("h1"),
                  Start("p"), Words("one", 7), End("p"),
                  Start("p"), Words("two", 2), End("p"),
                  Start("p"), Words("three", 4), End("p")>>],
      [url |-> Url(<<"aws", "en", "jobs", "index.html">>),
       html |-> <<Words("land", 3)>>]>>

\* A function of a known phase, a command of none, and what is neither.
Function(name, decorators) == [name |-> name, text |-> <<"labs">>, decorators |-> decorators]
LabsFile(path, private, functions, classes) ==
    [path |-> path, private |-> private, test |-> FALSE, parses |-> TRUE,
     functions |-> functions, classes |-> classes]
Labs ==
    <<LabsFile(<<"cli">>, {}, <<Function(<<"assess">>, {}), Function(<<"helper">>, {}),
                                Function(<<"", "transpile">>, {"command"})>>,
               <<[name |-> <<"Runner">>,
                  methods |-> <<Function(<<"transpile", "all">>, {})>>]>>),
      LabsFile(<<"_tools", "x">>, {"_tools"}, <<Function(<<"assess">>, {})>>, <<>>)>>

Day(sdk, docs) == [sdk |-> sdk, openapi |-> OpenApi, docs |-> docs, labs |-> Labs]
MCWorld ==
    [d1 |-> Day(Sdk(<<"v1">>), Docs(<<"t1">>)), d2 |-> Day(Sdk(<<"v2">>), Docs(<<"t2">>))]
MCDays == <<"d1", "d2">>

\* The skills of the bundle, two of them about nothing known and so of one hash; the
\* manifest of an install that lists them and two broken ones.  An install without the
\* manifest takes them from the second directory it tries; an empty manifest fails.
Skill(id, meta, slug) ==
    [id |-> <<"skill", id>>, meta |-> meta, ext |-> Ext(meta, slug), title |-> <<id>>]
Bundle ==
    <<Skill("s1", "jobs", <<"list">>), Skill("s2", "jobs", <<"plan">>),
      Skill("s3", "migrate", <<"audit">>), Skill("s4", "migrate", <<"bind">>)>>
Manifest ==
    Bundle \o <<[Skill("s5", "jobs", <<"list">>) EXCEPT !.ext = None],
                Skill("s6", "nowhere", <<"plan">>)>>
MCSkillSetting == [manifest |-> Manifest, dirs |-> <<<<>>, Bundle>>]
MCSkillSettings ==
    {MCSkillSetting, [MCSkillSetting EXCEPT !.manifest = None],
     [MCSkillSetting EXCEPT !.manifest = <<>>]}

\* The pages above are such as the parser is written for.
ASSUME PagesNest

MCExtensionOrder ==
    <<Ext("jobs", <<"list">>), Ext("jobs", <<"ls">>), Ext("jobs", <<"plan">>),
      Ext("jobs", <<"submit">>), Ext("migrate", <<"assess">>), Ext("migrate", <<"audit">>),
      Ext("migrate", <<"bind">>)>>
MCSkip == {{}, {"docs"}}
MCOutages == {{}, {1}, {2}, {1, 2}}
=============================================================================
