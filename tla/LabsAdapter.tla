------------------------------- MODULE LabsAdapter -------------------------------
(***************************************************************************)
(* parse_lakebridge: the callables of the checked-out repository, each     *)
(* with the phase of a migration that its name tells.  A file is its path  *)
(* under the package (the last part its stem), with the parts of it whose  *)
(* names are private.                                                      *)
(***************************************************************************)
EXTENDS SourceAdapters

CONSTANT PhaseByVerb    \* the phase of each verb the adapter knows

CliDecorators == {"command", "group", "argument", "option"}
TestDirs == {"tests", "test", "__pycache__"}

\* classify_phase, by the leading verb.
ClassifyPhase(name) ==
    IF name[1] \in DOMAIN PhaseByVerb THEN PhaseByVerb[name[1]] ELSE "unknown"

\* _module_files
LabsFiles(files) ==
    Keep(files, LAMBDA f :
        /\ TestDirs \cap ToSet(f.path) = {}
        /\ f.private \cap ToSet(Front(f.path)) = {}
        /\ ~f.test
        /\ Last(f.path) \notin f.private \/ Last(f.path) = "__init__")

\* _module_id_for_path
LabsModule(f) == IF Last(f.path) = "__init__" THEN Front(f.path) ELSE f.path

\* _public_top_level_nodes: a constructor is public.
PublicNodes(nodes) ==
    Keep(nodes, LAMBDA n : ~Private(n.name) \/ n.name = <<"", "", "init", "", "">>)

\* _emit_callable: a function of a module, or of a class of it.
Callable(module, class, fn) ==
    [id |-> <<"callable", module, class, fn.name>>, name |-> fn.name, text |-> fn.text,
     phase |-> ClassifyPhase(fn.name), method |-> class # None,
     cli |-> fn.decorators \cap CliDecorators # {}]

\* _emit_class
MethodsOf(module, c) == Each(LAMBDA fn : Callable(module, c.name, fn), PublicNodes(c.methods))

\* _parse_one_file: nested functions and classes are not looked at.
ParseLabsFile(f) ==
    LET module == LabsModule(f)
        classes == PublicNodes(f.classes)
    IN [module |-> module,
        classes |-> {<<module, c.name>> : c \in ToSet(classes)},
        callables |-> Each(LAMBDA fn : Callable(module, None, fn), PublicNodes(f.functions))
                      \o FlattenSeq(Each(LAMBDA c : MethodsOf(module, c), classes))]

\* There is no repo entity for a tree without a module that can be parsed.
ParseLakebridge(files) ==
    LET walked == LabsFiles(files)
        parsed == Each(ParseLabsFile, Keep(walked, LAMBDA f : f.parses))
        callables == FlattenSeq(Each(LAMBDA p : p.callables, parsed))
    IN [repo |-> IF parsed = <<>> THEN None
                 ELSE [modules |-> Len(parsed), callables |-> Len(callables),
                       commands |-> Len(Keep(callables, LAMBDA c : c.cli))],
        classes |-> UNION {p.classes : p \in ToSet(parsed)},
        callables |-> callables,
        errors |-> {f.path : f \in {f \in ToSet(walked) : ~f.parses}}]
=============================================================================
