# A verification project for CJM (cxx-json-codegen)

CJM reads C++ headers whose struct fields carry `// json:"name"` comments and
generates code that converts the structs to and from JSON. This directory holds
TLA+ models of its parts, what TLC checks of them on small instances, and what
TLAPS proves of them for every instance. Paths below are relative to the
directory that contains `src/` (the repository) and `tla/` (this project).

## 1. The system

```
headers --> parser/parser.cpp --> tree_sitter/adapter.cpp --> SourceFileSyntax
        --> semantic/analysis.cpp: aliases, types, metadata, order --> ProjectModel
        --> backends: nlohmann | simdjson | contract | schema --> generated text
```

`tools/cjm/main.cpp` runs this chain once per call, and `cmake/CJMGenerate.cmake`
runs the tool from a build. One call is sequential, in one process, without
retries and without stored state but the output file; what one part hands to the
next is a value. The difficulty lies elsewhere: in flags and lists shared by
reference through recursion, in lookups across scopes, in results that must be
withheld when a later step fails, in the generated code, whose mutually
recursive functions share an error, a path and a half-built value, and in
builds, where several targets run the tool at once, for one output if two calls
share a header, and decide by time alone whether its output is up to date.

| Part | State it keeps | Operations | Hard behaviour | What makes it correct |
|---|---|---|---|---|
| Adapter and parser entry (`tree_sitter/adapter.cpp`, `parser/parser.cpp`) | namespace path, the file collected, diagnostics | parse, visit a node, extract a field, bind a comment | recursion with copied paths; failure found after good parts were collected; look-ahead past skipped members | each declaration once, under its real namespaces; refused members fail the header; tags stay with their field |
| Field types (`semantic/analysis.cpp` 113-513) | alias table, seen names, shared success flag and diagnostics | follow an alias, classify, recurse into arguments | flag shared by all calls; a seen set for one call only; scopes | one verdict per field, no cascade, the type C++ means, an end |
| Analysis driver (`semantic/analysis.cpp` 517-581, 700-926) | merged file, JSON names, types, enums, diagnostics | merge, read metadata, include or refuse a field, order, clear | late failure; per-struct state in nested loops | accepts what it understands and nothing else; all or nothing; nothing dropped; ordered |
| Type ordering (`semantic/analysis.cpp` 598-697) | output, names ordered, progress | sweep, emit, give up | many sweeps over arbitrary source orders | complete, dependencies first, exact verdict, an end |
| Generated simdjson decoder (`backends/simdjson/cpp_generator.cpp`) | caller's error and path, has_ flags, value | from_json, decode_object per model | failure unwinding through nested decoders; repeated keys; what the error held before | full decoding or a real defect at its absolute path |
| simdjson generation driver (same file, 452-509) | none | validate, emit | none beyond order | refuses what it cannot generate |
| nlohmann generator (`backends/nlohmann/cpp_generator.cpp`) | of its code: the document, the object read into | to_json, from_json, field by field | optional, null and omitempty must agree in both directions; a failure leaves a half-read object | round trip; nothing old survives a reading |
| Schema generator (`backends/schema/schema_generator.cpp`) | none | choose the root, define the rest, describe fields | references by unqualified name; root chosen by position | every reference means its type; the reader takes what the schema describes |
| Contract generator (`backends/contract/contract_generator.cpp`) | the declarations emitted | emit descriptors of nested types, fields, traits | recursion that emits before its caller; names built by appending | each name declared once and above its use; the descriptors describe their struct |
| Command line tool (`tools/cjm/main.cpp`) | options, files parsed, the disk | parse options, parse and analyse files, open, write | two loops over one index; truncation before writing; being killed | exit code tells the truth; no file but the output changes |
| CMake integration (`cmake/CJMGenerate.cmake`) | rules, targets and their dependencies; what is on the disk | add rules; build, in parallel | two targets that list one output, of one call or of two; edits and crashes in a build | one writer per output; success means current outputs |

Tree-sitter, simdjson, nlohmann json, CMake and make are third-party and external. The
hazards, each at its line, are in `PROJECT.json`.

## 2. Modules

| Module | Models | Kind |
|---|---|---|
| `TopologicalOrder` | what an ordering of types promises | abstract specification |
| `TypeOrder` | `order_types_by_dependency`, loop by loop | state machine, implements `TopologicalOrder` |
| `FieldType` | `analyze_field_type`, `resolve_alias`, `resolve_named_type`, `analyze_map_field_type` | state machine with an explicit call stack |
| `Analysis` | `analyze_source_files`, `analyze_source_file`, `analyze_field`, `parse_json_field_metadata` | state machine, runs `TypeOrder` as `Order` |
| `Adapter` | `parse_source_file`, `parse_source_text`, `extract_declarations`, `extract_fields`, `extract_field` | state machine with an explicit call stack |
| `DecodeModel` | the models the simdjson backend generates for, JSON texts, their defects and decodings | vocabulary |
| `DecodeContract` | what `from_json<T>` promises its caller | abstract specification |
| `ObjectDecode` | the emitted `from_json` and `decode_object` | state machine with an explicit call stack, implements `DecodeContract` |
| `ModelData` | the fields and types of the IR, C++ values, JSON documents | vocabulary |
| `NlohmannCodec` | the emitted `to_json` and `from_json`, with what the library does for types that are no generated struct | state machine |
| `SchemaGenerator` | `generate_schema`, and what its schema says of a document | operators |
| `JsonMapping` | one project seen by both | composes `NlohmannCodec` and `SchemaGenerator`; takes its order from `TypeOrder` |
| `ContractNames` | how the contract backend builds identifiers | operators |
| `ContractGenerator` | the contract backend's `generate_header`, declaration by declaration | state machine with an explicit call stack |
| `CommandLine` | `main`, `parse_generate_options`, `analyze_inputs`, `write_output_file` | state machine with a killed state |
| `CjmGenerate` | `cjm_generate`, and parallel builds of what it adds | state machine with concurrent targets, edits and crashes |
| `..._proof` | theorems about the module of that name; `ToolAndBuild_proof` about `CommandLine` and `CjmGenerate` | proofs |
| `MC...` | the small instances, and reference definitions | for TLC |

In each state machine the parameter of the modelled function is a variable that
`Init` chooses from a constant (`Inputs`, `Texts`, `Headers`, `Projects`, `Calls`,
`Configurations`) and no action changes. A loop is an action per way through its
body, a recursive function a stack of frames, one per running call, and each
`return` an action that pops one. Operators whose comment begins with "Mutation
of" are variants of the definition below them with a plausible mistake; no
specification uses them, and each shows that a property would notice the mistake.

**TypeOrder.** A type is its qualified name and the set of names its fields
mention. `StartSweep`/`Finish` are the test of the `while`; `SkipOrdered`,
`SkipBlocked` and `Emit` the body of the `for`; `EndSweep`/`GiveUp` the test of
`progress`. `Blocked` folds the innermost loop, which has no effect but its
flag, into a quantifier.

**FieldType.** A spelling is its form (scalar, container, name), its name as a
sequence of components, its arguments, and whether it contains a comma:
`parse_two_template_arguments` splits at the first comma wherever that is
(`SplitsInside`, `RejectExtent`, `RejectCutMap`). cv-qualifiers are stripped
before anything is looked at and are left out; so is a leading `::`, which the
code strips too, but the spelling remembers it for the C++ reference, which looks
a name up from where it is written (`CppMeaning`). `Unshadowed` says when the
lookup of the code cannot meet another declaration on its way.

**Analysis.** Fields have comments (with the parts of a tag), and a type that is
a scalar, a name, or an unsupported type that may mention a name; what `FieldType`
finds out about a spelled type is one predicate, `Supported`. An ignored field of an
unsupported type stays, and the ordering looks at what it mentions (`Uses`). The steps of the ordering are those of
`TypeOrder`, on this module's `types` (`OrderStep`).

**Adapter.** A tree is a flat array of nodes; children are indices, so the
recursion needs no recursive operator. A member of a struct has what the code
asks of the grammar: its kind, which of its names are direct children, storage
class and function declarator, whether a comment with `json:` is there, and
where that comment starts. `engine` is the failure of one of the three calls
that make Tree-sitter ready.

**ObjectDecode.** A text is an array of the objects a decoder opens, with their
members in order; `closed` is false where reading on fails. `frames` holds the
running `decode_object` calls with their position and has_ flags; `value` maps
the places assigned to what was assigned. `pc = "unwind"` is a `false` on its
way up.

**ModelData.** `Types` are the types of fields with all they are made of, finite
trees but for structs that contain themselves; `Height` says so, since an
argument is below its container. `Objects` are the C++ values of each type that
occur, `Fresh` what a value-initialised object of it holds. Each integer type has its range
(`Least`, `Greatest`), signed or not; a floating number is a multiple of 1/`Scale`,
of which each floating type keeps what it can (`Rounded`). A document tells an
integer from a real number, as the library does. What a type makes of
its parts (`IsValue`, `ValueInitialised`) is written for one type, given the same
for the types inside.

**NlohmannCodec, SchemaGenerator, JsonMapping.** A behaviour writes an object
with `to_json` and reads the document back, or reads a document from elsewhere
into a new object or into one that was in use; a step is one field of the
function of the outermost struct. `Writing` and `Reading` are what `j = x`
and `j.get_to(x)` do for the other types: containers read their elements with
`get` into new objects, fixed arrays and structs are read in place, an enum
inside of a container is its number. A number is read into a field of any
arithmetic type by a cast without a check (`Converted`): an integer wraps, a real
number loses its fraction, and where C++ leaves the cast undefined it is some number
of the type (`Undefined`); a boolean is taken for a number unless the library holds
numbers in the type (`Wide`). What they do with the parts is a parameter. `WriteValue` and `ReadInto` tie the
knot: `WriteValue[n]` writes with at most `n` calls nested in each other, and
what is nested deeper throws, as it does at some depth on any machine.
They are modelled after nlohmann json 3.11 with support for `std::optional`,
which the generated code needs and which the release pinned in
`src/CMakeLists.txt:12` does not have by itself. A schema is a record of its
keywords and `$defs` a sequence of pairs, since the generator does not look
whether a name is already there; `Valid` is the meaning of those keywords, and
`Validates` applies it through at most twice as many levels as the codec has,
because the codec reads a field with `omitempty` without a level for its optional.
`Contested` lists the places where reader and schema part ways.

**ContractGenerator.** A declaration is its namespace, its name and the names its
initialiser mentions. Identifiers are sequences of parts, so that a field called
`x_type_arg0` beside a field `x` of container type is an input. A type has
arguments, or is an enum with enumerators; `stack` holds the running calls of
`generate_contract_type_descriptor`.

**CommandLine.** Arguments are words, some of which are options. Of the parser
and the analysis only the verdicts are left (`Parses`, `Analyses`), so that every
order of failures can occur; `Adapter` and `Analysis` say what they are. Opening
the output truncates it, an action of its own; writing may run out of room,
which nothing looks at; `Kill` may end the call between any two steps.

**CjmGenerate.** First `CallCjmGenerate` processes the calls of a directory one
by one, with the errors of the function and CMake's refusal of a second rule for
an output whose command differs. The command depends on the header and the
directory alone, so two calls for one header get the same rule, which CMake accepts,
and then outputs in several targets. Then builds run: each target that lists an output compares it with
its dependencies once (`Check`) and runs the tool in three steps, `ReadHeader`,
`Truncate`, `Write`; a target waits for those it depends on (`Needs`), and
compiles (`Compile`, `Compiled`). Time stamps are the set `newer` of outputs older
than a dependency. `Edit` changes a header at any moment, `ChangeTool` the tool
between builds, and `Crash` stops everything.

## 3. What is checked

All runs: `tlc -workers 2 -config X.cfg M`, breadth first. The function of every
model ends and its last state repeats (`Returned`, `Ended`, `Refusal`), so deadlock
stays checked, except in `field_type_nesting`, where the bound on the depth stops
the recursion.

| Run | Shows |
|---|---|
| `type_order` | output closed under dependencies at every step; success complete; failure only for cycles or repeated names; an ordered file keeps its order; the loops end; they implement `TopologicalOrder` |
| `field_type` | flag and diagnostics agree; no report cascade; accepted fields mean what C++ says where no second declaration of a name can be met; the recursion ends, when no alias leads through a container back to itself |
| `analysis` | accepted if and only if every declaration is understood, no name is defined twice and no use is circular; failure exposes nothing and is explained; no field is lost; the project is ordered; the analysis ends |
| `adapter` | entries carry their enclosing namespaces, in document order, each once; the verdict and the error shown are exact; tags stay; the traversal ends |
| `object_decode` | each answer is a decoding of a text without defects, or one of its defects at its path; flags belong to one object; the path is right at each step of an unwinding; error and result agree whatever the error held before; each call returns |
| `json_mapping` | what `to_json` writes, `from_json` reads back (but for ignored fields and engaged optionals written as null); reading into an object in use leaves nothing old but ignored fields and absent `omitempty` optionals; references of the schema mean their type, and the reader takes exactly the documents the schema describes, but in the places listed |
| `contract` | every name declared above its use; nothing declared twice, unless two namespaces collide; a reader who starts at `model_traits` finds the struct |
| `tool` | options are accepted if and only if they can be grouped as the usage text has it; exit 0 means the output holds the text of all inputs, if there was room, any other code that no file changed; the output is touched only after all inputs were accepted, also if it is one of them; the call ends |
| `build` | one writer for an output, no compilation against an output being written, current outputs after a successful build, each with the exceptions named in the property |
| `field_type_nesting`, `adapter_dropped`, `schema_references` | disagreements, see below |

Bounds and why they are enough.

* `type_order`: every file of up to three types over three names (the third
  size with its first name fixed, since names are interchangeable), with self
  uses and repeated names, and every graph over four distinct types. Four types
  allow two independent cycles, a diamond, and a chain that needs four sweeps.
* `field_type`: one enum, two structs, three alias names over two scopes with
  eight targets each, three namespaces, fifteen spellings nested up to three
  deep. Two scopes are the least in which a name is shadowed (a struct is declared in
  both), three aliases the
  least for a cycle that is entered from outside. `MaxDepth = 8` bounds the
  stack; for the inputs of the passing run (`GroundedCalls`) it is never
  reached, or `Termination` would fail.
* `analysis`: up to `MaxFiles = 2` headers, three names, structs with up to two
  fields, seven tags (absent, foreign, first of two, ignored, omitempty,
  empty, unknown option) on the first field and four of them on the second.
* `adapter`: bodies of one or two members of eleven forms, one member with every
  placement of comments and two with tags before and after the second, at the top, under nested and anonymous namespaces, inside a class,
  and in a nameless struct; `MaxNodes = 9`.
* `object_decode`: three models nested in one another, objects of up to three
  members with repeated keys and at most `MaxObjects = 5` objects, integers
  around the limits of a narrow field and of a scaled-down 64-bit range, broken
  and trailing text, and an error that is empty or holds an earlier failure.
* `json_mapping`: six structs, nested up to three deep and one of them in itself,
  with every kind of type, two of one unqualified name; six projects in which a
  struct is the root, is referred to, shares its name, or is missing. An `int`
  has two bits, and so has an unsigned 64-bit integer, so that casts wrap; the
  smallest floating number is a quarter (`Scale = 4`), which only a `long double`
  keeps, a `double` keeps halves and a `float` whole numbers. Numbers in documents
  are in range, out of it on either side, negative for an unsigned type, whole or
  with a fraction, or a boolean instead. Each member of a document is right, wrong in a few ways, null or absent. A struct
  inside of a struct inside of a container is the deepest a rule of either
  backend looks. `Objects` and `Documents` are closed: they hold all parts of
  what is written and read, and every document that can be written. `Depth = 6` is
  one more than the deepest call of any of them, so the limit on nesting is not
  met.
* `contract`: projects of two structs with one or two fields, types nested three
  deep, field names that look like descriptors of another field, and namespaces
  two of which join to one name. A name is built from one field of one struct,
  so two of each are enough to collide.
* `tool`: `generate` with up to four further arguments from two paths, two
  options, an unknown one and the empty word, and with five without the last two;
  a few other commands. Two runs of `--input` around an `--output` fit in. The
  second header is absent, cut off, a copy of the first, or good.
* `build`: thirteen directories of one or two calls for two targets with up to three
  headers, two of them of one base name, a third target that uses what was
  generated; one header twice in a call, in two calls for one target, and in two calls
  for two targets, with and without generated targets; at most
  `MaxEdits = 2` edits of headers or changes of the tool, which allow an edit in a
  build and another before the next one; contents include one that the tool refuses.

Fairness is weak fairness of the whole next-state relation where one thread executes a
function and never waits for anything, so a step that can be taken is taken. In
`CommandLine` it is that of `Step`: a process that runs goes on, and nobody has to
kill it. `CjmGenerate` has none, for its properties are all of safety: whether a
build ends is up to make.

### Disagreements with the documents

Three have a run that is expected to be violated, with its quotation in
`PROJECT.json` under `findings`.

* `field_type_nesting`: alias lookup drops `::`, and each argument of a container
  starts with an empty set of seen names: endless recursion in a header that compiles.
* `adapter_dropped`: a managed field with a name behind a pointer or array declarator
  disappears without a word.
* `schema_references`: the first type of a project, which in dependency order is
  one that others refer to, becomes the root of the schema and has no definition.

The others are stated by the exceptions in the properties that hold, or in the models.

* An integer outside 64 bits is `expected_integer`, not `integer_overflow`; a
  repeated nested object keeps the optional of the first (`DecodeModel`).
* A chain of aliases is looked up in the namespace of the field, not of each
  alias, and skips the namespaces between; `::E` can find `a::E`, and an enum of an
  outer scope is preferred to a struct of an inner one (`Unshadowed` in
  `UnshadowedMeansCpp`).
* A field may have a struct without fields as its type, for which no code is
  generated (`Analysis`). A repeated type name is diagnosed as a dependency
  cycle (`VerdictIsExact` states both causes).
* `int x;// json:"y"`, without a space, loses its tag (`Adapter`).
  `convert_tree_sitter_result` copies the partial file of a failed parse; the
  command line tool then drops it (`OnlyTheOutputChanges`).
* An enum inside of a container is written as its number, while the schema asks for
  its text (`src/docs/design/json-mapping-scope.md:606` "enum schema values match
  CJM's generated enum string mapping"). An optional without `omitempty` is
  required on input, where line 553 of that document has "field may be missing"
  (`Contested` lists both, and all the others).
* Lines 547 and 568 of that document have `"minimum": 0` for unsigned integers, as
  implemented; `generate_schema_fragment` gives one text to all integers
  (`src/src/backends/schema/schema_generator.cpp:21-23`, `188-190`), and so does
  `TypeFragment`. Reader and schema agree all the same: both take a negative number
  for an unsigned field, and the reader wraps it. They do not agree on a number with a
  fraction for an integer nor on a boolean for a number (`ContestedPart`).
* A failure to write exits with 0, where `src/docs/design/cmake-integration.md:452`
  has "Errors from CJM should appear as build errors." (`room` in
  `ExitTellsTheTruth`). An output cut short by that or by a crash, or made of a
  header edited meanwhile, looks up to date in later builds; the schemas of a call
  without `GENERATED_TARGET` are never built; a header edited in the middle of a
  build can be processed by two targets at once (the exceptions of the properties
  of `CjmGenerate`).
* Two calls for one header, in targets that do not wait for each other, are accepted
  and make two writers of one output, or a writer while the other target compiles;
  no document speaks of it (`Competing` in `OneWriterPerOutput` and
  `CompileSeesNoWriter`; the run has three such directories).
* Two headers of one base name: line 225 of that document wants CJM to avoid the
  collision, and it is CMake that refuses the second rule (`OutputsCollide`).
* `a::b::C` and `a_b::C` get the same contract namespace (`NamespacesCollide`).

## 4. What is proved

Each proof module has theorems of the form `Spec => []P`, from an inductive
invariant `IInv` of its own: `Init => IInv`, one lemma per action for
`IInv /\ Next => IInv'`, and `IInv => P`. The only assumptions are those named in
the modules, each of which TLC evaluates in a run; they say what the constants
are, not what the program does. So `HeadersAssumption` has the nodes of a tree in
document order, `OptionsAssumption` the two options of `generate` among the
options, `ProjectsAssumption` of `ContractGenerator` types with arguments and a mark
for enums. Of `JsonMapping` they are seven: types are finite and members have names
of their own (`ModelsAssumption`), values have their types and contain values
(`ObjectsAssumption`), documents contain documents (`DocumentsAssumption`), what is
written is a document (`WritingsAssumption`), a cast makes a number of the type it is
to (`UndefinedAssumption`), calls are made with these
(`CallsAssumption`), and a project is ordered, as `TypeOrder_proof` has it of every
accepted one (`ProjectsAssumption`).

Some references are recursive functions: of fuel, of depth, of positions in a tree
or in the text emitted. TLA+ defines such a function as a choice among its
solutions, so a proof first shows that there is one: a least length for which
there is none does not exist, since a solution for one length less extends to it
(`NatLeast`, `MeaningsUnfold`, `NestedUnfold`, `MeaningUnfolds`). For functions of
types it is a type of least `Height`, and one of its solutions on the types below.
What every level of nesting has is proved in the same way: a least level without
it has one below (`Climb`).

| Module | Proved | From |
|---|---|---|
| `TypeOrder_proof` | `TypeOK`, `DependenciesPrecedeUsers`, `SuccessIsComplete`, `VerdictIsExact`, `OrderedInputIsKept`, the refinement of `TopologicalOrder` | `TypeModelsAssumption`, `InputsAssumption` |
| `FieldType_proof` | `TypeOK`, `VerdictMatchesDiagnostics`, `AcceptedTypeIsResolved`, `NoCascade`, `UnshadowedMeansCpp` | `SpellingsAssumption` |
| `Analysis_proof` | `TypeOK`, `VerdictMatchesSource`, `FailureExposesNothing`, `NothingIsDropped`, `ProjectIsOrdered` | `WordsAssumption`, `InputsAssumption` |
| `Adapter_proof` | `TypeOK`, `TagsStayWithTheirField`, `EntriesMatchTree`, `VerdictMatchesTree` | `HeadersAssumption` |
| `ObjectDecode_proof` | `TypeOK`, `PathWhileUnwinding`, `PresenceIsPerObject`, `ErrorTellsOutcome`, the refinement of `DecodeContract` | `ModelsAssumption`, `TextsAssumption`, `RangesAssumption`, `LimitsAssumption`, `EarlierErrorsAssumption` |
| `ContractGenerator_proof` | `DeclaredBeforeUse`, `DeclaredOnce`, `TraitsDescribeTheirModel` | `ProjectsAssumption` |
| `JsonMapping_proof` | `RoundTrip`, `OldValuesSurviveOnlyIfAbsent`, `ReferencesMeanTheirType`, `ReaderAndSchemaAgree` | `ModelsAssumption`, `ObjectsAssumption`, `DocumentsAssumption`, `CallsAssumption`, `WritingsAssumption`, `UndefinedAssumption`, `ProjectsAssumption` |
| `ToolAndBuild_proof` | `TypeOK`, `ExitTellsTheTruth`, `OnlyTheOutputChanges`, `OptionsFollowTheUsage` of `CommandLine` | `FilesAssumption`, `OptionsAssumption` |
| `ToolAndBuild_proof` | `OneWriterPerOutput`, `CompileSeesNoWriter`, `SuccessMeansCurrent` of `CjmGenerate` | `BuildAssumption` |

**TypeOrder.** `IInv` adds to the types what the loops know and the
properties do not say: the names recorded are exactly those in the output and
no name is there twice; every output type is an input type; everything in the
output has its dependencies before it; and, while a sweep has made no progress,
each position it has passed holds a type that is already out or is blocked by
what is out now. The last part is what an early stop needs: `GiveUp` happens
with `progress` false at the end of the input, so every remaining type is
blocked, and the names that remain form a circular set or contain a name twice
(`FailedIsCyclic`). In the other direction, take the least output position of a
member of a circular set (`NatLeast`): what it depends on in the set would stand
before it (`DoneIsAcyclic`).
Completeness counts: the output has as many entries as the input and no
repeated name, so the map from output to input positions is a bijection
(`SourceMapExists`, `FullOutput`). In a file that is in order, the first sweep
emits every type it reaches, so the output is what it has passed
(`FirstSweepTakesAll`). The refinement maps a step of a scan to
`Take`, the two ends to `Accept` and `Abandon` and the rest to stuttering.

**FieldType.** Each frame below the top waits for the argument that the frame
above it was called for, so that a result lands where it belongs. The flag is
down exactly when there is a diagnostic. While it is up, every result lies in
every set of types that holds the scalars and the declared names and is closed
under the containers and string-keyed maps: `AcceptedTypeIsResolved` is the
least such set, without a recursion over types. Spellings may be nested to any
depth. That property and `TypeOK` are only proved; enumerating the sets is
beyond TLC. The second invariant (`Meant`) is about C++: while nothing has
failed, each running call has a type to return (`want`), that of the field for
the first call and the argument's for the call on top of a container, and what
the call has come to denotes this type wherever it is written. The lookup of the
code starts elsewhere than that of C++, but both end in the component they look
for, so under `Unshadowed` the code finds the declaration C++ means, or none,
and then it refuses the field (`FollowedIsMeant`, `FoundIsMeant`).

**Analysis.** While files are merged, the declarations merged so far and those
of the files passed correspond one to one (`MergedSoFar`). In the loops the flag
is the verdict on everything seen so far, and while it is up the types are the
models of the declarations passed, each with the declaration it comes from (`Loop`). While
the types are ordered, the invariant of `TypeOrder_proof` holds of them: that
module is instantiated with all sequences of types as its inputs. An ordering
that fails means that names repeat or uses are circular in the models, and so in
the source.

**Adapter.** Every running call is at a child of its node or past the last; the
fields collected come from members already passed, in their order, each with no
comment or with the one right behind it. A second invariant (`Traversal`) places
the traversal in the tree: a node has been reached exactly when it comes before the
next one in document order, the running calls lead down to it, each with
the path of its namespaces, and what is collected is what the tree says of the
nodes reached. At the end all nodes are (`EntriesMatchTree`), and what was refused
on the way is what the tree has to refuse (`VerdictMatchesTree`).

**ObjectDecode.** The frames form a path of nested objects, each at the member
whose object the next one decodes. A set of objects, closed under nesting, has
been decoded to the end; what the value holds comes from these and from what the
running frames have passed, so that when the root leaves, every object of the
text is in the set, and the value is a decoding of it. While a failure unwinds,
the path leads from the object of the top frame to a defect of the text.

**ContractGenerator.** Every descriptor emitted belongs to a position in the type
of a field already visited. A name is decoded from its end: what follows the
last `_type` of it was appended by the generator, and the rest is the field, so
two positions never share a name, whatever the fields are called. A second invariant
(`Meant`) assigns each descriptor emitted the type it was emitted for: its
initialiser names descriptors of the arguments of that type, each field list those
of the types of its fields, each `model_traits` the fields of its struct. Read
from the top, a name leads to the one declaration of it above, so that reading
gives the types back (`DescriptorsAreRead`, `ModelsAreRead`).

**JsonMapping.** The invariant ties the steps to the functions that say what a
nested call computes: behind field `k - 1`, `to_json` has what `WriteFields` has
there, `from_json` what `ReadFields` has, and a reading that threw did so at the
field it has reached (`WriterOK`, `ReaderOK`). The properties then speak of these
functions alone, and each follows from a fact about all types, values and
documents at every level of nesting. Each fact is a predicate on the operation
itself, proved of one level from the level below with a lemma for each kind of type
and, for structs, a lemma that goes through the fields in order.

* `Faithful`: what is written is a document that reads back as the value, but for
  ignored fields, unless an engaged optional was written as null or a `long double` is
  no `double`: a number in the range of its type is left alone by the cast
  (`WrapInRange`), and by the rounding. A field that
  was written finds its member because no later field has its key; one that was
  left out was an empty optional, which a new object also has.
* `Independent`: what an object held before does not decide whether reading into it
  throws, and unless it is a struct it is replaced. A struct is then read field by
  field as a new one is, but for ignored fields, absent optionals with `omitempty`,
  and the same inside of fields that are structs (`AllKept`).
* `Sound` and `Complete`: outside of the contested places, what is read is valid,
  and what is valid is read. The two count levels differently: a reading through
  `n` levels is valid through `2 * n`, and a document valid through `n` is read
  through `n`. That is why the property names two levels, and neither direction
  could be proved with one bound for both.
* References need the order alone. A struct that is used stands before its user,
  so it is in the project, and if it is not the first it has a definition; that the
  name means no other is what the two exceptions leave (`ReferencesResolve`).

**CommandLine.** The files parsed are the inputs as they were at first, because
the disk has not changed before the output is opened, and from then on no input
is read. The arguments passed are divided into groups, an `--input` with its files
or an `--output` with one, of which the options hold exactly the files (`Usage`); an argument
that ends the loop with an error cannot begin a group in any division.

**CjmGenerate.** An output has one header, however many calls ask for it. If the
calls for it do not compete, any two targets that list it have a target in common
that lists it too and that each of them is or waits for (`Owner`): the generated
target of one call, or the one target of both. Whoever waited finds the output up to
date unless its header was edited meanwhile.

Every invariant that a run checks is proved, and both refinements. Model-checked
only is liveness (`Termination`, `EveryCallReturns`), which is out of
the prover's reach as is `ENABLED`, and what the runs expect to be violated. In
`JsonMapping`, what holds of unbounded nesting is proved for every bound on it
(`Depth`): there is no induction over data, so the bound is what the proofs count.

## 5. Plan

Done: all the parts of section 1 but the simdjson generation driver, whose
order of emission has no property, with the proofs of section 4. What is left:

1. An abstract specification of the whole chain, from headers to the text written,
   that `CommandLine` over `Adapter` and `Analysis` implements, with `Parses` and
   `Analyses` no longer constants.
2. Several directories in one build, whose rules may share an output.
3. That what the nlohmann functions write, the simdjson decoder reads: the two
   models have their own texts so far.

## 6. What is not modelled

The layout and wording of generated text and messages; the C++ grammar (a tree is
an input); infinities, NaN and the text form of numbers; whether a build ends; the inside of simdjson, nlohmann json and Tree-sitter; source
locations beyond the node or member they point at; in the simdjson generation
driver, the order in which functions are emitted; in `cjm_generate`, include directories
and the variables it returns; `tools/tree_sitter_dump`, which prints a tree for
developers and decides nothing; tests and examples. On a malformed token
under an optional, the generated decoder ignores the error of `is_null`; what
simdjson then does is not decided by this repository and no text of the model has
it.
