---------------------------- MODULE CjmGenerate ----------------------------
(***************************************************************************)
(* cjm_generate, from CJMGenerate.cmake: the rules and dependencies that   *)
(* its calls add to a directory, and what parallel builds make of them     *)
(* while somebody edits the headers.                                       *)
(*                                                                         *)
(* The build tool is external.  As make does, every target that lists an   *)
(* output runs the rule of it on its own when the output is older than a   *)
(* dependency; newer says for which outputs that is the case.  Nothing but *)
(* add_dependencies keeps two such targets apart.  The tool that a rule    *)
(* runs is module CommandLine in three steps: read the header, truncate    *)
(* the output, write it.                                                   *)
(***************************************************************************)
EXTENDS Integers, Sequences, FiniteSets

CONSTANTS
    Configurations,  \* sequences of calls, each [target, generated, headers, schemas]
    Targets,         \* the targets that exist before the calls
    Consumers,       \* [name, after]: targets that depend on the GENERATED_TARGET of
                     \* a call and list the headers it generates
    Headers,
    Base,            \* the base name of each header
    Versions,        \* contents of headers
    Initial,         \* the content of every header at first
    Bad,             \* those that the tool does not accept
    MaxEdits         \* bound: edits of headers and changes of the tool

\* No GENERATED_TARGET.
NoTarget == ""

ASSUME BuildAssumption ==
    /\ Configurations \subseteq Seq([target : STRING, generated : STRING,
                                     headers : Seq(Headers), schemas : BOOLEAN])
    /\ NoTarget \notin Targets
    /\ \A consumer \in Consumers : consumer.name # NoTarget
    /\ Base \in [Headers -> STRING]
    /\ "cjm" \notin Headers
    /\ Initial \in Versions
    /\ MaxEdits \in Nat

VARIABLES
    calls, c,    \* the calls of the directory, and the one reached
    phase,       \* "configure", "error", "idle" or "build"
    header, tool,   \* what each header holds, and the version of the tool
    out,         \* what each output holds
    newer,       \* the outputs older than one of their dependencies
    raced,       \* the outputs whose header changed between reading and writing
    checked,     \* <<target, output>>: compared in this build
    procs,       \* the running calls of the tool
    compiling, done,   \* targets, in this build
    failed,      \* whether a rule of this build has failed
    edited,      \* the headers edited since this build started
    edits        \* how many edits there have been

config == <<calls, c>>
world == <<header, tool, edits>>
outputs == <<out, newer, raced>>
build == <<checked, procs, compiling, done, failed, edited>>
buildVars == <<config, phase, world, outputs, build>>

Torn == [kind |-> "torn"]
Whole(version, by) == [kind |-> "whole", version |-> version, by |-> by]
Nothing == [kind |-> "nothing"]

Hpp(h) == <<Base[h], "cjm.hpp">>
Schema(h) == <<Base[h], "schema.json">>
Outputs == {Hpp(h) : h \in Headers} \cup {Schema(h) : h \in Headers}

HeadersOf(call) == {call.headers[n] : n \in DOMAIN call.headers}
HppsOf(call) == {Hpp(h) : h \in HeadersOf(call)}
SchemasOf(call) == IF call.schemas THEN {Schema(h) : h \in HeadersOf(call)} ELSE {}

\* The calls that have been processed, and what they have added.
Made == {calls[n] : n \in 1 .. c - 1}

\* add_custom_command
Rules ==
    UNION {{[output |-> Hpp(h), header |-> h] : h \in HeadersOf(call)}
              \cup {[output |-> Schema(h), header |-> h] :
                        h \in {x \in HeadersOf(call) : call.schemas}} : call \in Made}

GeneratedTargets == {call.generated : call \in Made} \ {NoTarget}
ConsumersMade == {consumer \in Consumers : consumer.after \in GeneratedTargets}
AllTargets == Targets \cup GeneratedTargets \cup {consumer.name : consumer \in ConsumersMade}

\* Mutation of Artifacts: the schemas are left out.
ArtifactsButSchemas(call) == HppsOf(call)

\* What the generated target depends on.
Artifacts(call) == HppsOf(call) \cup SchemasOf(call)

\* target_sources, add_custom_target: the outputs that a target lists.
ListedBy(t) ==
    (UNION {HppsOf(call) : call \in {x \in Made : x.target = t}})
        \cup (UNION {Artifacts(call) : call \in {x \in Made : x.generated = t}})
        \cup (UNION {HppsOf(call) : call \in {x \in Made :
                         [name |-> t, after |-> x.generated] \in ConsumersMade}})

\* Mutation of Needs: no add_dependencies.
NeedsOfConsumers(t) ==
    {consumer.after : consumer \in {x \in ConsumersMade : x.name = t}}

\* add_dependencies: the targets that a target waits for.
Needs(t) ==
    ({call.generated : call \in {x \in Made : x.target = t}} \ {NoTarget})
        \cup {consumer.after : consumer \in {x \in ConsumersMade : x.name = t}}

BuildInit ==
    /\ calls \in Configurations
    /\ c = 1
    /\ phase = "configure"
    /\ header = [h \in Headers |-> Initial]
    /\ tool = 0 /\ edits = 0
    /\ out = [o \in Outputs |-> Nothing]
    /\ newer = Outputs
    /\ raced = {}
    /\ checked = {} /\ procs = {} /\ compiling = {} /\ done = {}
    /\ failed = FALSE
    /\ edited = {}

-----------------------------------------------------------------------------
(* The calls of cjm_generate.                                              *)

\* CMake refuses a second rule for an output when its command differs, which is
\* when it is made from another header; the same rule once more, of this call or of
\* an earlier one, changes nothing.
OutputsCollide(call) ==
    \E g \in HeadersOf(call) : \E h \in HeadersOf(call) \cup {rule.header : rule \in Rules} :
        g # h /\ Base[g] = Base[h]

\* The errors of the function and those of CMake; a target that an earlier call
\* generated is no TARGET, for it takes no include directories.
Refused(call) ==
    \/ call.target \notin Targets
    \/ call.headers = <<>>
    \/ call.generated # NoTarget /\ call.generated \in Targets \cup GeneratedTargets
    \/ OutputsCollide(call)

CallCjmGenerate ==
    /\ phase = "configure" /\ c <= Len(calls)
    /\ IF Refused(calls[c])
       THEN phase' = "error" /\ c' = c
       ELSE c' = c + 1 /\ phase' = phase
    /\ UNCHANGED <<calls, world, outputs, build>>

EndConfigure ==
    /\ phase = "configure" /\ c > Len(calls)
    /\ phase' = "idle"
    /\ UNCHANGED <<config, world, outputs, build>>

-----------------------------------------------------------------------------
(* A build of every target.                                                *)

StartBuild ==
    /\ phase = "idle"
    /\ phase' = "build"
    /\ checked' = {} /\ procs' = {} /\ compiling' = {} /\ done' = {}
    /\ failed' = FALSE
    /\ edited' = {}
    /\ UNCHANGED <<config, world, outputs>>

Ready(t) == Needs(t) \subseteq done

\* A target compares an output it lists with its dependencies, and runs the rule
\* if one of them is newer.
Check(t, o) ==
    /\ phase = "build" /\ ~failed /\ Ready(t)
    /\ o \in ListedBy(t) /\ <<t, o>> \notin checked
    /\ checked' = checked \cup {<<t, o>>}
    /\ procs' = IF o \in newer
                THEN procs \cup {[target |-> t, output |-> o, at |-> "started",
                                  version |-> 0, by |-> 0]}
                ELSE procs
    /\ UNCHANGED <<config, phase, world, outputs, compiling, done, failed, edited>>

HeaderOf(o) == (CHOOSE rule \in Rules : rule.output = o).header

Advance(p, q) == procs' = (procs \ {p}) \cup {q}

\* The tool reads the header.  If it refuses it, no file has changed.
ReadHeader(p) ==
    /\ p.at = "started"
    /\ IF header[HeaderOf(p.output)] \in Bad
       THEN procs' = procs \ {p} /\ failed' = TRUE
       ELSE /\ Advance(p, [p EXCEPT !.at = "read", !.version = header[HeaderOf(p.output)],
                                    !.by = tool])
            /\ UNCHANGED failed
    /\ UNCHANGED <<config, phase, world, outputs, checked, compiling, done, edited>>

Truncate(p) ==
    /\ p.at = "read"
    /\ out' = [out EXCEPT ![p.output] = Torn]
    /\ newer' = newer \ {p.output}
    /\ Advance(p, [p EXCEPT !.at = "truncated"])
    /\ UNCHANGED <<config, phase, world, raced, checked, compiling, done, failed, edited>>

\* The text is written, or as much of it as fits: the exit code is the same.  What a
\* second writer of the output leaves of it can be torn as well.
Write(p) ==
    /\ p.at = "truncated"
    /\ \E content \in {Whole(p.version, p.by), Torn} : out' = [out EXCEPT ![p.output] = content]
    /\ newer' = newer \ {p.output}
    /\ raced' = IF p.version = header[HeaderOf(p.output)]
                THEN raced \ {p.output} ELSE raced \cup {p.output}
    /\ procs' = procs \ {p}
    /\ UNCHANGED <<config, phase, world, checked, compiling, done, failed, edited>>

\* The rest of a target: the compiler, which reads the generated headers.
Compile(t) ==
    /\ phase = "build" /\ ~failed /\ Ready(t)
    /\ t \in AllTargets \ (compiling \cup done)
    /\ \A o \in ListedBy(t) : <<t, o>> \in checked
    /\ \A p \in procs : p.target # t
    /\ compiling' = compiling \cup {t}
    /\ UNCHANGED <<config, phase, world, outputs, checked, procs, done, failed, edited>>

Compiled(t) ==
    /\ t \in compiling
    /\ compiling' = compiling \ {t}
    /\ done' = done \cup {t}
    /\ UNCHANGED <<config, phase, world, outputs, checked, procs, failed, edited>>

Over == done = AllTargets \/ (failed /\ procs = {} /\ compiling = {})

EndBuild ==
    /\ phase = "build" /\ Over
    /\ phase' = "idle"
    /\ UNCHANGED <<config, world, outputs, build>>

BuildStep ==
    \/ \E t \in AllTargets : Compile(t) \/ Compiled(t) \/ \E o \in ListedBy(t) : Check(t, o)
    \/ \E p \in procs : ReadHeader(p) \/ Truncate(p) \/ Write(p)
    \/ EndBuild

-----------------------------------------------------------------------------
(* The world around.                                                       *)

\* Everything stops at once; files stay as they are.
Crash ==
    /\ phase = "build"
    /\ phase' = "idle"
    /\ procs' = {} /\ compiling' = {}
    /\ UNCHANGED <<config, world, outputs, checked, done, failed, edited>>

\* Mutation of DependsOn: the tool is not a dependency.
DependsOnHeaderOnly(rule, change) == rule.header = change

\* DEPENDS: the header of the rule, and the tool.
DependsOn(rule, change) == change \in {rule.header, "cjm"}

Outdated(change) == {rule.output : rule \in {r \in Rules : DependsOn(r, change)}}

Edit(h) ==
    /\ phase \in {"idle", "build"} /\ edits < MaxEdits
    /\ \E version \in Versions \ {header[h]} : header' = [header EXCEPT ![h] = version]
    /\ newer' = newer \cup Outdated(h)
    /\ edited' = edited \cup {h}
    /\ edits' = edits + 1
    /\ UNCHANGED <<config, phase, tool, out, raced, checked, procs, compiling, done, failed>>

\* The tool is a target of the build, and complete before a rule uses it.
ChangeTool ==
    /\ phase = "idle" /\ edits < MaxEdits
    /\ tool' = tool + 1
    /\ newer' = newer \cup Outdated("cjm")
    /\ edits' = edits + 1
    /\ UNCHANGED <<config, phase, header, out, raced, build>>

Refusal == phase = "error" /\ UNCHANGED buildVars

BuildNext ==
    \/ CallCjmGenerate \/ EndConfigure \/ Refusal
    \/ StartBuild \/ BuildStep
    \/ Crash \/ ChangeTool \/ \E h \in {rule.header : rule \in Rules} : Edit(h)

BuildSpec == BuildInit /\ [][BuildNext]_buildVars

-----------------------------------------------------------------------------
(* Correctness.                                                            *)

\* What a call asks for: the schemas of a call without GENERATED_TARGET are listed
\* by no target.
Asked(call) ==
    HppsOf(call) \cup (IF call.generated = NoTarget THEN {} ELSE SchemasOf(call))

\* The target that is to build the outputs of a call before all others.
First(call) == IF call.generated = NoTarget THEN call.target ELSE call.generated

\* Two calls ask for one output, in two targets that do not wait for each other.
Competing(o) ==
    \E x, y \in Made :
        /\ o \in Asked(x) /\ o \in Asked(y)
        /\ First(x) # First(y) /\ First(x) # y.target /\ First(y) # x.target

\* Targets that list one output do not run its rule at the same time, unless its
\* header is edited in the middle of the build, or the calls for it compete.
OneWriterPerOutput ==
    \A p, q \in procs :
        p # q /\ p.output = q.output =>
            HeaderOf(p.output) \in edited \/ Competing(p.output)

\* Nobody compiles against a header that is being written, with the same reserve.
CompileSeesNoWriter ==
    \A t \in compiling : \A p \in procs :
        p.output \in ListedBy(t) => HeaderOf(p.output) \in edited \/ Competing(p.output)

\* The output is what this version of the tool makes of the header.
Current(o) == out[o] = Whole(header[HeaderOf(o)], tool)

\* When a build has succeeded, whatever the calls ask for is there and current.
\* The exceptions: a header edited in this build, or in an earlier one between
\* being read and the end of the writing; an output cut short by a full disk or
\* a crash, which looks up to date; and the schemas of a call without
\* GENERATED_TARGET, which no target builds.
SuccessMeansCurrent ==
    [][EndBuild /\ ~failed =>
        \A n \in DOMAIN calls : \A o \in Asked(calls[n]) :
            \/ Current(o)
            \/ out[o] = Torn
            \/ o \in raced
            \/ HeaderOf(o) \in edited]_buildVars
=============================================================================
