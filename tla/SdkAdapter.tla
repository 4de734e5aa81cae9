------------------------------- MODULE SdkAdapter -------------------------------
(***************************************************************************)
(* parse_sdk: what a source tree of the SDK declares.  A file is a path (a *)
(* sequence of parts under service/, the last one its stem) and, if it can *)
(* be read and parsed, its top-level classes.  An annotation is a head and *)
(* the type names under it.                                                *)
(***************************************************************************)
EXTENDS SourceAdapters

CONSTANTS ReadVerbs, WriteVerbs     \* the verb stems of classify_effect

ASSUME VerbsAssumption == ReadVerbs \cap WriteVerbs = {}

\* classify_effect, by the leading verb (get_or_create reads).
ClassifyEffect(name) ==
    CASE name[1] \in ReadVerbs -> "read"
      [] name[1] \in WriteVerbs -> "write"
      [] OTHER -> "unclassified"

-----------------------------------------------------------------------------

\* _module_files: neither private directories and files nor the package marker.
SdkFiles(files) ==
    Keep(files, LAMBDA f :
        /\ {"_internal", "__pycache__"} \cap ToSet(f.path) = {}
        /\ ~f.private \/ Last(f.path) = "__init__"
        /\ f.path # <<"__init__">>)

\* The __init__ of a package is the module of that name.
SdkModule(f) == IF Last(f.path) = "__init__" THEN Last(Front(f.path)) ELSE Last(f.path)

\* Optional[X], Union[..., None] and X | None.
IsOptional(a) ==
    a.head = "Optional" \/ (a.head \in {"Union", "|"} /\ "None" \in ToSet(a.names))

StdlibNames == {"Any", "Dict", "Iterator", "List", "Optional", "Union", "bool", "int",
                "str", "None", "datetime"}

\* The class names an annotation mentions.
TypeNames(a) == (ToSet(a.names) \cup {a.head}) \ (StdlibNames \cup {"|", ""})

\* A name that starts with two underscores.
Dunder(name) == Len(name) > 2 /\ name[1] = "" /\ name[2] = ""

\* _extract_dataclass_field_entities.
Fields(module, c) ==
    LET kept == Keep(c.fields, LAMBDA f : f.type.head # "ClassVar" /\ ~Dunder(f.name))
    IN Each(LAMBDA f : [id |-> <<"field", module, c.name, f.name>>,
                        optional |-> IsOptional(f.type) \/ f.default], kept)

\* The method that a deprecated method's docstring recommends, by its last part.
RecommendedName(doc) ==
    IF doc.deprecated /\ doc.recommends # <<>> THEN Last(doc.recommends) ELSE None

\* A method before its links are resolved (_MethodPreview).
Preview(module, c, fn) ==
    [id |-> <<"method", module, c.name, fn.name>>, module |-> module, class |-> c.name,
     name |-> fn.name, text |-> fn.doc.text, deprecated |-> fn.doc.deprecated,
     effect |-> ClassifyEffect(fn.name),
     consumes |-> UNION {TypeNames(a) : a \in ToSet(fn.arguments)},
     produces |-> TypeNames(fn.returns),
     recommends |-> RecommendedName(fn.doc)]

PublicMethods(c) == Keep(c.methods, LAMBDA fn : ~Private(fn.name))

\* _parse_one_file: a dataclass is never a service, whatever its name.
ParseSdkFile(f) ==
    LET module == SdkModule(f)
        dataclasses == Keep(f.classes, LAMBDA c : c.dataclass)
        services == Keep(f.classes, LAMBDA c : c.api /\ ~c.dataclass)
        previews(c) == Each(LAMBDA fn : Preview(module, c, fn), PublicMethods(c))
    IN [module |-> module,
        services |-> Each(LAMBDA c : <<module, c.name>>, services),
        previews |-> FlattenSeq(Each(previews, services)),
        dataclasses |-> {<<module, c.name>> : c \in ToSet(dataclasses)},
        fields |-> FlattenSeq(Each(LAMBDA c : Fields(module, c), dataclasses))]

\* A method of the same service class by its name.
SameClass(methods, m, name) ==
    LET found == {n \in ToSet(methods) : /\ n.module = m.module /\ n.class = m.class
                                         /\ n.name = name}
    IN IF found = {} THEN None ELSE (CHOOSE n \in found : TRUE).id

\* paginates_method_id and deprecates_method_id: the peer an _iter method pages
\* over, the successor a docstring recommends; types of its own module are linked,
\* others only named.
Resolve(m, methods, dataclasses) ==
    LET known(names) == {n \in names : <<m.module, n>> \in dataclasses}
    IN [id |-> m.id, module |-> m.module, class |-> m.class, name |-> m.name,
        text |-> m.text, effect |-> m.effect, deprecated |-> m.deprecated,
        consumes |-> known(m.consumes), produces |-> known(m.produces),
        unresolved |-> (m.consumes \cup m.produces) \ known(m.consumes \cup m.produces),
        paginates |-> IF Len(m.name) > 1 /\ Last(m.name) = "iter"
                      THEN SameClass(methods, m, Front(m.name)) ELSE None,
        successor |-> IF m.recommends = None THEN None
                      ELSE SameClass(methods, m, m.recommends)]

\* Without a service directory there is nothing but an error; a file that cannot be
\* parsed is an error and the others go on.
ParseSdk(tree) ==
    LET files == IF tree.found THEN SdkFiles(tree.files) ELSE <<>>
        good == Keep(files, LAMBDA f : f.parses)
        parsed == Each(ParseSdkFile, good)
        previews == FlattenSeq(Each(LAMBDA p : p.previews, parsed))
        dataclasses == UNION {p.dataclasses : p \in ToSet(parsed)}
    IN [methods |-> Each(LAMBDA m : Resolve(m, previews, dataclasses), previews),
        services |-> FlattenSeq(Each(LAMBDA p : p.services, parsed)),
        modules |-> {p.module : p \in ToSet(parsed)},
        errors |-> IF tree.found THEN {f.path : f \in {f \in ToSet(files) : ~f.parses}}
                   ELSE {<<"sdk_root">>}]
=============================================================================
