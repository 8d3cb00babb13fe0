---------------------------- MODULE CommandLine ----------------------------
(***************************************************************************)
(* One call of the cjm tool: main.cpp from the arguments to the exit code, *)
(* with the files it reads and writes.                                     *)
(*                                                                         *)
(* Of the compiler behind it, which other modules model, only the verdicts *)
(* are left: Parses holds the contents that parse_source_file accepts, and *)
(* Analyses the sequences of contents that analyze_source_files accepts.   *)
(* The call may be killed between any two steps.                           *)
(***************************************************************************)
EXTENDS Integers, Sequences

CONSTANTS
    Calls,      \* sequences of arguments, argv[1] first
    Options,    \* the words that begin with two dashes
    Files,      \* the words that occur, each of which may name a file
    ReadOnly,   \* the files that cannot be opened for writing
    Contents,   \* what a file may hold, its absence included
    Disks,      \* initial contents of the files
    Parses,
    Analyses

ASSUME FilesAssumption ==
    /\ Disks \subseteq [Files -> Contents]
    /\ Calls \subseteq Seq(Files)

ASSUME OptionsAssumption == {"--input", "--output"} \subseteq Options

VARIABLES
    argv,
    before,    \* what each file held at first
    disk,      \* what each file holds
    room,      \* whether what is written fits on the disk
    pc,        \* "start", "options", "parse", "analyse", "open", "write", "exited" or "killed"
    i,         \* the argument reached
    inputs,    \* options.inputs
    output,    \* options.output
    files,     \* the files parsed, what is known of them
    exit       \* the exit code, or -1

vars == <<argv, before, disk, room, pc, i, inputs, output, files, exit>>

\* The empty string: no --output, or an empty one.
NoOutput == ""

Original(content) == [kind |-> "original", of |-> content]
Text(command, of) == [kind |-> command, of |-> of]
Truncated == [kind |-> "truncated", of |-> <<>>]
Short(command, of) == [kind |-> "short", of |-> <<command, of>>]

Generating == {"generate", "generate-schema"}
Helping == {"--help", "-h", "help"}
Word(n) == argv[n]
IsOption(n) == Word(n) \in Options

ExitWith(code) == pc' = "exited" /\ exit' = code

Init ==
    /\ argv \in Calls
    /\ before \in Disks
    /\ disk = [file \in Files |-> Original(before[file])]
    /\ room \in BOOLEAN
    /\ pc = "start"
    /\ i = 2
    /\ inputs = <<>> /\ output = NoOutput /\ files = <<>>
    /\ exit = -1

\* main: help, an unknown command, or one that generates.
Help ==
    /\ pc = "start"
    /\ argv = <<>> \/ (argv # <<>> /\ Word(1) \in Helping)
    /\ ExitWith(0)
    /\ UNCHANGED <<argv, before, disk, room, i, inputs, output, files>>

UnknownCommand ==
    /\ pc = "start"
    /\ argv # <<>> /\ Word(1) \notin Helping \cup Generating
    /\ ExitWith(2)
    /\ UNCHANGED <<argv, before, disk, room, i, inputs, output, files>>

Command ==
    /\ pc = "start"
    /\ argv # <<>> /\ Word(1) \in Generating
    /\ pc' = "options"
    /\ UNCHANGED <<argv, before, disk, room, i, inputs, output, files, exit>>

-----------------------------------------------------------------------------
(* parse_generate_options                                                  *)

\* Mutation of EndOfRun: the loop steps over the option that ends the run.
EndOfRunAndOne(first) ==
    CHOOSE n \in first .. Len(argv) + 2 :
        /\ n - 1 > Len(argv) \/ IsOption(n - 1)
        /\ \A x \in first .. n - 2 : ~IsOption(x)

\* Mutation of EndOfRun: the run is not stepped over.
StartOfRun(first) == first - 1

\* Where the run of paths ends that starts behind --input.
EndOfRun(first) ==
    CHOOSE n \in first .. Len(argv) + 1 :
        /\ n > Len(argv) \/ IsOption(n)
        /\ \A x \in first .. n - 1 : ~IsOption(x)

InputOption ==
    /\ pc = "options" /\ i <= Len(argv) /\ Word(i) = "--input"
    /\ i < Len(argv) /\ ~IsOption(i + 1)
    /\ i' = EndOfRun(i + 1)
    /\ inputs' = inputs \o SubSeq(argv, i + 1, i' - 1)
    /\ UNCHANGED <<argv, before, disk, room, pc, output, files, exit>>

\* The value of --output is taken as it is, another option included.
OutputOption ==
    /\ pc = "options" /\ i <= Len(argv) /\ Word(i) = "--output"
    /\ i < Len(argv)
    /\ output' = Word(i + 1)
    /\ i' = i + 2
    /\ UNCHANGED <<argv, before, disk, room, pc, inputs, files, exit>>

BadOption ==
    /\ pc = "options" /\ i <= Len(argv)
    /\ \/ i = Len(argv)
       \/ Word(i) \notin {"--input", "--output"}
       \/ Word(i) = "--input" /\ i < Len(argv) /\ IsOption(i + 1)
    /\ ExitWith(2)
    /\ UNCHANGED <<argv, before, disk, room, i, inputs, output, files>>

EndOptions ==
    /\ pc = "options" /\ i > Len(argv)
    /\ IF inputs = <<>> \/ output = NoOutput
       THEN ExitWith(2)
       ELSE pc' = "parse" /\ exit' = exit
    /\ UNCHANGED <<argv, before, disk, room, i, inputs, output, files>>

-----------------------------------------------------------------------------
(* analyze_inputs                                                          *)

\* Mutation of Parsed: success is not looked at.
ParsedOrPartial(content) == TRUE

\* parse_source_file: a failure leaves a partial file in the result.
Parsed(content) == content \in Parses

Reached == inputs[Len(files) + 1]

ParseNext ==
    /\ pc = "parse" /\ Len(files) < Len(inputs)
    /\ LET content == disk[Reached].of
       IN  IF Parsed(content)
           THEN files' = Append(files, content) /\ UNCHANGED <<pc, exit>>
           ELSE ExitWith(1) /\ UNCHANGED files
    /\ UNCHANGED <<argv, before, disk, room, i, inputs, output>>

Analyse ==
    /\ pc = "parse" /\ Len(files) = Len(inputs)
    /\ IF files \in Analyses
       THEN pc' = "open" /\ exit' = exit
       ELSE ExitWith(1)
    /\ UNCHANGED <<argv, before, disk, room, i, inputs, output, files>>

-----------------------------------------------------------------------------
(* write_output_file                                                       *)

\* Mutation of Destination: the first header.
FirstInput(names, name) == names[1]

Destination(names, name) == name

\* The constructor of the stream truncates the file.
OpenOutput ==
    /\ pc = "open"
    /\ IF output \in ReadOnly
       THEN ExitWith(1) /\ UNCHANGED disk
       ELSE /\ disk' = [disk EXCEPT ![Destination(inputs, output)] = Truncated]
            /\ pc' = "write" /\ exit' = exit
    /\ UNCHANGED <<argv, before, room, i, inputs, output, files>>

\* The text is written and the stream closed; neither result is looked at.
WriteOutput ==
    /\ pc = "write"
    /\ disk' = [disk EXCEPT ![Destination(inputs, output)] =
                   IF room THEN Text(Word(1), files) ELSE Short(Word(1), files)]
    /\ ExitWith(0)
    /\ UNCHANGED <<argv, before, room, i, inputs, output, files>>

Step ==
    \/ Help \/ UnknownCommand \/ Command
    \/ InputOption \/ OutputOption \/ BadOption \/ EndOptions
    \/ ParseNext \/ Analyse \/ OpenOutput \/ WriteOutput

\* The call is killed, by a signal or a crash of the machine.
Kill ==
    /\ pc \notin {"exited", "killed"}
    /\ pc' = "killed"
    /\ UNCHANGED <<argv, before, disk, room, i, inputs, output, files, exit>>

Ended == pc \in {"exited", "killed"} /\ UNCHANGED vars

Next == Step \/ Kill \/ Ended

Spec == Init /\ [][Next]_vars /\ WF_vars(Step)

-----------------------------------------------------------------------------
(* The usage text of print_help, with --input and --output in any order    *)
(* and number: a division of the arguments into groups.                    *)

Arguments == 2 .. Len(argv)

InputGroup(first, last) ==
    /\ Word(first) = "--input" /\ first < last
    /\ \A x \in first + 1 .. last : ~IsOption(x)

OutputGroup(first, last) == Word(first) = "--output" /\ last = first + 1

\* The arguments before end fall into groups, one from each position in starts.
Divides(starts, end) ==
    /\ 2 < end => 2 \in starts
    /\ \A s \in starts : \E last \in s .. end - 1 :
          /\ last + 1 \in starts \cup {end}
          /\ \A x \in s + 1 .. last : x \notin starts
          /\ InputGroup(s, last) \/ OutputGroup(s, last)

Divisions == {starts \in SUBSET Arguments : Divides(starts, Len(argv) + 1)}

\* The paths behind an --input and before the next group, and the options that
\* name an output.
InputPositions(starts, end) ==
    {x \in 2 .. end - 1 : \E s \in starts :
        s < x /\ Word(s) = "--input" /\ \A y \in s + 1 .. x : y \notin starts}
OutputOptions(starts) == {s \in starts : Word(s) = "--output"}
IsLastOutput(starts, s) == s \in OutputOptions(starts) /\ \A t \in OutputOptions(starts) : t <= s

Complete(starts) ==
    /\ InputPositions(starts, Len(argv) + 1) # {}
    /\ \E s \in starts : IsLastOutput(starts, s) /\ Word(s + 1) # NoOutput

\* The words at these positions, in the order of the positions.
AreWordsAt(words, positions) ==
    \E at \in [DOMAIN words -> positions] :
        /\ \A k, l \in DOMAIN words : k < l => at[k] < at[l]
        /\ \A x \in positions : \E k \in DOMAIN words : at[k] = x
        /\ \A k \in DOMAIN words : words[k] = Word(at[k])

-----------------------------------------------------------------------------
(* Correctness.                                                            *)

\* The options are accepted if and only if they can be divided as the usage text
\* has it; the inputs are then the paths of all --input groups, in order, and the
\* output the last one.
OptionsFollowTheUsage ==
    argv # <<>> /\ Word(1) \in Generating =>
        /\ exit = 2 => ~ \E starts \in Divisions : Complete(starts)
        /\ pc = "parse" =>
            \E starts \in Divisions :
                /\ Complete(starts)
                /\ AreWordsAt(inputs, InputPositions(starts, Len(argv) + 1))
                /\ \E s \in starts : IsLastOutput(starts, s) /\ output = Word(s + 1)

\* The text that belongs to a call: made of every input as it was at first.
TextOfInputs == Text(Word(1), [n \in DOMAIN inputs |-> before[inputs[n]]])

\* What a build reads from the exit code.  Success: the output holds what was
\* generated from all the inputs, in full if the disk has room.  Failure: no file
\* has changed.
ExitTellsTheTruth ==
    pc = "exited" =>
        IF exit = 0
        THEN (argv # <<>> /\ Word(1) \in Generating) /\ room => disk[output] = TextOfInputs
        ELSE disk = [file \in Files |-> Original(before[file])]

\* A step changes no file but the one named as output, and that one only when
\* all the inputs have been read in full and accepted together.
OnlyTheOutputChanges ==
    [][disk' # disk =>
        /\ files = [n \in DOMAIN inputs |-> before[inputs[n]]] /\ files \in Analyses
        /\ \A n \in DOMAIN files : files[n] \in Parses
        /\ \A file \in Files \ {output} : disk'[file] = disk[file]]_vars

\* The call ends.
Termination == <>(pc \in {"exited", "killed"})
=============================================================================
