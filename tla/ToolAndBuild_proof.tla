------------------------- MODULE ToolAndBuild_proof -------------------------
(***************************************************************************)
(* Theorems about a call of the tool (CommandLine), for every sequence of  *)
(* arguments and every state of the disk, and about the builds that call   *)
(* it (CjmGenerate), for every directory and every way in which parallel   *)
(* builds, edits and crashes can meet.                                     *)
(*                                                                         *)
(* A call: IInv says what the steps have done so far: the files read are   *)
(* the inputs as they were at first, no file differs from its first        *)
(* content before the output is opened, and only the output differs from   *)
(* then on.  Usage adds, of the options read so far, that they divide into *)
(* groups as the usage text has it, and that every division of all the     *)
(* arguments begins in the same way.                                       *)
(*                                                                         *)
(* A build: an output has one header, however many calls of cjm_generate   *)
(* ask for it.  Two targets that list an output for which the calls do not *)
(* compete have a target in common that lists it too, and which each of    *)
(* them is or waits for (Owner).  Whoever waited finds the output up to    *)
(* date, unless its header was edited meanwhile.                           *)
(***************************************************************************)
EXTENDS CommandLine, CjmGenerate, SequenceTheorems, WellFoundedInduction, TLAPS

-----------------------------------------------------------------------------
(* A call of the tool: the inductive invariant.                            *)

Unread == [file \in Files |-> Original(before[file])]

\* The locals of main and of what it calls have their types.
TypeOK ==
    /\ argv \in Calls
    /\ before \in Disks
    /\ i \in Nat /\ i >= 2
    /\ inputs \in Seq(Files)
    /\ output \in Files \cup {NoOutput}
    /\ files \in Seq(Contents)
    /\ pc \in {"start", "options", "parse", "open", "write", "exited", "killed"}
    /\ exit \in {-1, 0, 1, 2}

\* Beyond main there is a command that generates, and beyond its options an output.
Generates ==
    /\ pc \in {"options", "parse", "open", "write"} =>
          argv # <<>> /\ Word(1) \in Generating
    /\ pc \in {"parse", "open", "write"} => output # NoOutput

\* What has been read is what the inputs held at first, and was accepted.
FilesAreInputs ==
    /\ Len(files) <= Len(inputs)
    /\ \A n \in DOMAIN files : files[n] = before[inputs[n]] /\ files[n] \in Parses
    /\ pc \in {"start", "options"} => files = <<>>
    /\ pc \in {"open", "write"} => Len(files) = Len(inputs) /\ files \in Analyses

\* The disk before and while the output is written.
DiskSoFar ==
    /\ pc \in {"start", "options", "parse", "open"} => disk = Unread
    /\ pc = "write" => disk = [Unread EXCEPT ![output] = Truncated]

IInv == TypeOK /\ Generates /\ FilesAreInputs /\ DiskSoFar /\ ExitTellsTheTruth

-----------------------------------------------------------------------------
(* The inner loop of parse_generate_options.                               *)

\* The run of paths behind --input ends at an option or behind the last argument.
LEMMA RunEnds ==
    ASSUME argv \in Seq(Files), NEW first \in 1 .. Len(argv)
    PROVE  /\ EndOfRun(first) \in first .. Len(argv) + 1
           /\ EndOfRun(first) > Len(argv) \/ IsOption(EndOfRun(first))
           /\ \A x \in first .. EndOfRun(first) - 1 : ~IsOption(x)
<1> DEFINE Stops(n) == n > Len(argv) \/ IsOption(n)
           S == {n \in first .. Len(argv) + 1 : Stops(n)}
<1>1. Len(argv) \in Nat
  OBVIOUS
<1>2. Len(argv) + 1 \in S
  BY <1>1
<1>3. PICK n \in S : \A m \in S : m >= n
  <2>1. S \in SUBSET Nat /\ S # {}
    BY <1>1, <1>2
  <2> HIDE DEF S
  <2> DEFINE R == OpToRel(<, Nat)
  <2>2. IsWellFoundedOn(R, Nat)
    BY NatLessThanWellFounded
  <2>3. \A x, y \in Nat : x < y => <<x, y>> \in R
    BY DEF OpToRel
  <2> HIDE DEF R
  <2>4. PICK n \in S : \A m \in S : ~(<<m, n>> \in R)
    BY <2>1, <2>2, WFMin
  <2>5. ASSUME NEW m \in S PROVE m >= n
    <3>1. m \in Nat /\ n \in Nat /\ ~(m < n)
      BY <2>1, <2>3, <2>4
    <3> QED
      BY <3>1
  <2> QED
    BY <2>5
<1>4. /\ n \in first .. Len(argv) + 1
      /\ n > Len(argv) \/ IsOption(n)
  BY <1>3
<1>5. \A x \in first .. n - 1 : ~IsOption(x)
  <2>1. SUFFICES ASSUME NEW x \in first .. n - 1, IsOption(x) PROVE FALSE
    OBVIOUS
  <2>2. x \in S
    BY <1>1, <1>4, <2>1
  <2> QED
    BY <1>1, <1>3, <1>4, <2>1, <2>2
<1> QED
  BY <1>4, <1>5 DEF EndOfRun

\* A part of a sequence between two of its positions is a sequence.
LEMMA RunIsInside ==
    ASSUME NEW S, NEW s \in Seq(S), NEW first \in Nat \ {0}, NEW end \in first .. Len(s) + 1
    PROVE  SubSeq(s, first, end - 1) \in Seq(S)
<1>1. Len(s) \in Nat /\ end \in Nat
  OBVIOUS
<1>2. \A n \in first .. end - 1 : n \in 1 .. Len(s)
  BY <1>1
<1>3. \A n \in first .. end - 1 : s[n] \in S
  BY <1>2
<1> QED
  BY <1>1, <1>3, SubSeqProperties

-----------------------------------------------------------------------------

LEMMA InitialInvariant == Init => IInv
<1> SUFFICES ASSUME Init PROVE IInv
  OBVIOUS
<1>1. TypeOK
  BY DEF Init, TypeOK
<1>2. Generates /\ ExitTellsTheTruth
  BY DEF Init, Generates, ExitTellsTheTruth
<1>3. FilesAreInputs /\ DiskSoFar
  BY DEF Init, FilesAreInputs, DiskSoFar, Unread
<1> QED
  BY <1>1, <1>2, <1>3 DEF IInv

\* The arguments are words and the contents of files are contents.
LEMMA Typing ==
    ASSUME TypeOK
    PROVE  /\ argv \in Seq(Files) /\ Len(argv) \in Nat
           /\ before \in [Files -> Contents]
           /\ Len(inputs) \in Nat /\ DOMAIN inputs = 1 .. Len(inputs)
           /\ Len(files) \in Nat /\ DOMAIN files = 1 .. Len(files)
BY FilesAssumption DEF TypeOK

\* A step of main or parse_generate_options that reads and writes no file.
LEMMA OptionStep ==
    ASSUME IInv, UNCHANGED <<argv, before, disk, room, files>>,
           pc \in {"start", "options"}, pc' \in {"options", "parse"},
           i' \in Nat /\ i' >= 2, inputs' \in Seq(Files), output' \in Files \cup {NoOutput},
           exit' = exit,
           argv # <<>> /\ Word(1) \in Generating,
           pc' = "parse" => output' # NoOutput
    PROVE  IInv'
<1>1. TypeOK'
  BY DEF IInv, TypeOK
<1>2. Generates'
  BY DEF IInv, Generates, Word
<1>3. files = <<>>
  BY DEF IInv, FilesAreInputs
<1>4. FilesAreInputs'
  BY <1>3 DEF FilesAreInputs
<1>5. DiskSoFar' /\ ExitTellsTheTruth'
  BY DEF IInv, DiskSoFar, Unread, ExitTellsTheTruth
<1> QED
  BY <1>1, <1>2, <1>4, <1>5 DEF IInv

\* The call fails, or helps, before the output has been opened.
LEMMA EarlyExit ==
    ASSUME IInv, pc \in {"start", "options", "parse", "open"},
           UNCHANGED <<argv, before, disk, room, i, inputs, output, files>>,
           \E code \in {0, 1, 2} :
              /\ ExitWith(code)
              /\ code = 0 => argv = <<>> \/ Word(1) \notin Generating
    PROVE  IInv'
<1>1. TypeOK'
  BY DEF IInv, TypeOK, ExitWith
<1>2. Generates' /\ FilesAreInputs' /\ DiskSoFar'
  BY DEF IInv, FilesAreInputs, Generates, DiskSoFar, ExitWith
<1>3. ExitTellsTheTruth'
  BY DEF IInv, DiskSoFar, Unread, ExitTellsTheTruth, ExitWith, Word
<1> QED
  BY <1>1, <1>2, <1>3 DEF IInv

LEMMA InvariantStep == IInv /\ [Next]_vars => IInv'
<1> SUFFICES ASSUME IInv, [Next]_vars PROVE IInv'
  OBVIOUS
<1> USE Typing DEF IInv
<1>1. CASE Help
  <2>1. argv = <<>> \/ Word(1) \notin Generating
    BY <1>1 DEF Help, Helping, Generating
  <2> QED
    BY <1>1, <2>1, EarlyExit DEF Help
<1>2. CASE UnknownCommand
  BY <1>2, EarlyExit DEF UnknownCommand
<1>3. CASE Command
  BY <1>3, OptionStep DEF Command, TypeOK
<1>4. CASE InputOption
  <2>1. i' \in i + 1 .. Len(argv) + 1
    BY <1>4, RunEnds DEF InputOption, TypeOK
  <2>2. SubSeq(argv, i + 1, i' - 1) \in Seq(Files)
    <3>1. argv \in Seq(Files)
      OBVIOUS
    <3>2. i + 1 \in Nat \ {0}
      BY DEF TypeOK
    <3> QED
      BY <2>1, <3>1, <3>2, RunIsInside
  <2>3. inputs' \in Seq(Files)
    BY <1>4, <2>2 DEF InputOption, TypeOK
  <2>4. i' \in Nat /\ i' >= 2
    BY <2>1 DEF TypeOK
  <2> QED
    BY <1>4, <2>3, <2>4, OptionStep DEF InputOption, Generates, TypeOK
<1>5. CASE OutputOption
  <2>1. Word(i + 1) \in Files
    BY <1>5 DEF OutputOption, Word, TypeOK
  <2> QED
    BY <1>5, <2>1, OptionStep DEF OutputOption, Generates, TypeOK
<1>6. CASE BadOption
  BY <1>6, EarlyExit DEF BadOption
<1>7. CASE EndOptions
  <2>1. CASE inputs = <<>> \/ output = NoOutput
    BY <1>7, <2>1, EarlyExit DEF EndOptions
  <2>2. CASE ~(inputs = <<>> \/ output = NoOutput)
    BY <1>7, <2>2, OptionStep DEF EndOptions, Generates, TypeOK
  <2> QED
    BY <2>1, <2>2
<1>8. CASE ParseNext
  <2> DEFINE content == before[Reached]
  <2>1. disk[Reached].of = content /\ content \in Contents
    BY <1>8 DEF ParseNext, Reached, DiskSoFar, Unread, Original, TypeOK
  <2>2. CASE ~Parsed(content)
    BY <1>8, <2>1, <2>2, EarlyExit DEF ParseNext
  <2>3. CASE Parsed(content)
    <3>1. files' = Append(files, content) /\ pc' = pc /\ exit' = exit
      BY <1>8, <2>1, <2>3 DEF ParseNext
    <3>2. TypeOK'
      BY <1>8, <2>1, <3>1 DEF ParseNext, TypeOK
    <3>3. Generates' /\ DiskSoFar' /\ ExitTellsTheTruth'
      BY <1>8, <3>1 DEF ParseNext, Generates, Word, DiskSoFar, Unread, ExitTellsTheTruth
    <3>4. FilesAreInputs'
      <4>1. Len(files') = Len(files) + 1 /\ Len(files') <= Len(inputs')
        BY <1>8, <3>1 DEF ParseNext, TypeOK
      <4>2. ASSUME NEW n \in DOMAIN files'
            PROVE  files'[n] = before'[inputs'[n]] /\ files'[n] \in Parses
        <5>1. CASE n \in DOMAIN files
          BY <1>8, <3>1, <5>1 DEF ParseNext, FilesAreInputs, TypeOK
        <5>2. CASE n = Len(files) + 1
          BY <1>8, <2>3, <3>1, <5>2 DEF ParseNext, Parsed, Reached, TypeOK
        <5> QED
          BY <3>1, <4>1, <4>2, <5>1, <5>2 DEF TypeOK
      <4> QED
        BY <1>8, <3>1, <4>1, <4>2 DEF ParseNext, FilesAreInputs
    <3> QED
      BY <3>2, <3>3, <3>4
  <2> QED
    BY <2>2, <2>3
<1>9. CASE Analyse
  <2>1. CASE files \notin Analyses
    BY <1>9, <2>1, EarlyExit DEF Analyse
  <2>2. CASE files \in Analyses
    <3>1. TypeOK' /\ Generates'
      BY <1>9, <2>2 DEF Analyse, TypeOK, Generates, Word
    <3>2. FilesAreInputs' /\ DiskSoFar' /\ ExitTellsTheTruth'
      BY <1>9, <2>2 DEF Analyse, FilesAreInputs, DiskSoFar, Unread, ExitTellsTheTruth
    <3> QED
      BY <3>1, <3>2
  <2> QED
    BY <2>1, <2>2
<1>10. CASE OpenOutput
  <2>1. CASE output \in ReadOnly
    BY <1>10, <2>1, EarlyExit DEF OpenOutput
  <2>2. CASE output \notin ReadOnly
    <3>1. TypeOK' /\ Generates'
      BY <1>10, <2>2 DEF OpenOutput, TypeOK, Generates, Word
    <3>2. FilesAreInputs' /\ DiskSoFar' /\ ExitTellsTheTruth'
      BY <1>10, <2>2 DEF OpenOutput, Destination, FilesAreInputs, DiskSoFar, Unread,
                         ExitTellsTheTruth
    <3> QED
      BY <3>1, <3>2
  <2> QED
    BY <2>1, <2>2
<1>11. CASE WriteOutput
  <2>1. TypeOK' /\ Generates'
    BY <1>11 DEF WriteOutput, ExitWith, TypeOK, Generates, Word
  <2>2. FilesAreInputs' /\ DiskSoFar'
    BY <1>11 DEF WriteOutput, ExitWith, FilesAreInputs, DiskSoFar
  <2>3. files = [n \in DOMAIN inputs |-> before[inputs[n]]]
    BY <1>11 DEF WriteOutput, FilesAreInputs, TypeOK
  <2>4. output \in DOMAIN disk
    BY <1>11 DEF WriteOutput, DiskSoFar, Unread, Generates, TypeOK
  <2>5. ASSUME room PROVE disk'[output] = TextOfInputs
    BY <1>11, <2>3, <2>4, <2>5 DEF WriteOutput, Destination, TextOfInputs
  <2>6. ExitTellsTheTruth'
    BY <1>11, <2>5 DEF WriteOutput, ExitWith, ExitTellsTheTruth, TextOfInputs, Word
  <2> QED
    BY <2>1, <2>2, <2>6
<1>12. CASE Kill
  <2>1. TypeOK' /\ Generates' /\ DiskSoFar'
    BY <1>12 DEF Kill, TypeOK, Generates, DiskSoFar
  <2>2. FilesAreInputs' /\ ExitTellsTheTruth'
    BY <1>12 DEF Kill, FilesAreInputs, ExitTellsTheTruth
  <2> QED
    BY <2>1, <2>2
<1>13. CASE Ended \/ UNCHANGED vars
  <2>1. UNCHANGED vars
    BY <1>13 DEF Ended
  <2> QED
    BY <2>1 DEF vars, TypeOK, Generates, Word, FilesAreInputs, DiskSoFar, Unread,
                ExitTellsTheTruth, TextOfInputs
<1> QED
  BY <1>1, <1>2, <1>3, <1>4, <1>5, <1>6, <1>7, <1>8, <1>9, <1>10, <1>11, <1>12, <1>13
     DEF Next, Step

-----------------------------------------------------------------------------

\* At any time in any call, the locals of main hold what they are declared for.
THEOREM TypeCorrect == Spec => []TypeOK
<1>1. IInv => TypeOK
  BY DEF IInv
<1> QED
  BY <1>1, InitialInvariant, InvariantStep, PTL DEF Spec

\* For every call and every disk: exit code 0 of a command that generates means
\* that the output holds the text made of all inputs, if there was room for it,
\* and any other exit code that no file has changed (main, write_output_file).
THEOREM ExitHolds == Spec => []ExitTellsTheTruth
<1>1. IInv => ExitTellsTheTruth
  BY DEF IInv
<1> QED
  BY <1>1, InitialInvariant, InvariantStep, PTL DEF Spec

\* For every call and every disk, whenever the call is killed: no file but the
\* output has changed, and that one only after all inputs were read as they were
\* and accepted (analyze_inputs before write_output_file).
THEOREM OutputHolds == Spec => OnlyTheOutputChanges
<1> DEFINE A ==
      disk' # disk =>
        /\ files = [n \in DOMAIN inputs |-> before[inputs[n]]] /\ files \in Analyses
        /\ \A n \in DOMAIN files : files[n] \in Parses
        /\ \A file \in Files \ {output} : disk'[file] = disk[file]
<1>1. ASSUME IInv, [Next]_vars PROVE [A]_vars
  <2>1. SUFFICES ASSUME Next, disk' # disk PROVE A
    BY <1>1 DEF vars
  <2>2. OpenOutput \/ WriteOutput
    BY <2>1 DEF Next, Step, Help, UnknownCommand, Command, InputOption, OutputOption,
                BadOption, EndOptions, ParseNext, Analyse, Kill, Ended, vars
  <2>3. /\ pc \in {"open", "write"}
        /\ \E content : disk' = [disk EXCEPT ![output] = content]
    BY <2>1, <2>2 DEF OpenOutput, WriteOutput, Destination
  <2>4. files = [n \in DOMAIN inputs |-> before[inputs[n]]]
    BY <1>1, <2>3, Typing DEF IInv, FilesAreInputs, TypeOK
  <2>5. files \in Analyses /\ \A n \in DOMAIN files : files[n] \in Parses
    BY <1>1, <2>3 DEF IInv, FilesAreInputs
  <2>6. DOMAIN disk = Files
    BY <1>1, <2>3 DEF IInv, DiskSoFar, Unread
  <2>7. \A file \in Files \ {output} : disk'[file] = disk[file]
    BY <2>3, <2>6
  <2> QED
    BY <2>4, <2>5, <2>7
<1> QED
  BY <1>1, InitialInvariant, InvariantStep, PTL DEF Spec, OnlyTheOutputChanges

-----------------------------------------------------------------------------
(* The division of the arguments.                                          *)

\* starts divides the arguments before position j, inputs and output are what its
\* groups name, and every division of all the arguments begins with it.
Division(starts, j, names, name) ==
    /\ starts \subseteq 2 .. j - 1
    /\ Divides(starts, j)
    /\ AreWordsAt(names, InputPositions(starts, j))
    /\ \/ OutputOptions(starts) = {} /\ name = NoOutput
       \/ \E s \in starts : IsLastOutput(starts, s) /\ name = Word(s + 1)
    /\ \A whole \in Divisions :
          /\ {s \in whole : s < j} = starts
          /\ j \in whole \cup {Len(argv) + 1}

DividedUpTo(j, names, name) ==
    /\ j \in 2 .. Len(argv) + 1
    /\ names \in Seq(Files)
    /\ \E starts : Division(starts, j, names, name)

\* How far parse_generate_options has come, and what is known when it failed.
Usage ==
    /\ pc = "start" => i = 2 /\ inputs = <<>> /\ output = NoOutput
    /\ pc = "options" => DividedUpTo(i, inputs, output)
    /\ pc = "parse" =>
          /\ DividedUpTo(i, inputs, output)
          /\ i = Len(argv) + 1 /\ inputs # <<>> /\ output # NoOutput
    /\ exit = 2 /\ argv # <<>> /\ Word(1) \in Generating =>
          \A starts \in Divisions : ~Complete(starts)

LEMMA NothingDivided ==
    ASSUME argv \in Seq(Files), argv # <<>>
    PROVE  DividedUpTo(2, <<>>, NoOutput)
<1>1. Len(argv) \in Nat /\ Len(argv) >= 1
  OBVIOUS
<1>2. Divides({}, 2)
  BY DEF Divides
<1>3. InputPositions({}, 2) = {}
  BY DEF InputPositions
<1>4. AreWordsAt(<<>>, {})
  <2>1. <<>> \in [DOMAIN <<>> -> {}]
    OBVIOUS
  <2> QED
    BY <2>1 DEF AreWordsAt
<1>5. ASSUME NEW whole \in Divisions
      PROVE  {s \in whole : s < 2} = {} /\ 2 \in whole \cup {Len(argv) + 1}
  <2>1. whole \subseteq 2 .. Len(argv) /\ Divides(whole, Len(argv) + 1)
    BY DEF Divisions, Arguments
  <2>2. {s \in whole : s < 2} = {}
    <3>1. \A s \in whole : ~(s < 2)
      BY <1>1, <2>1
    <3> QED
      BY <3>1
  <2>3. 2 < Len(argv) + 1 => 2 \in whole
    BY <2>1 DEF Divides
  <2> QED
    BY <1>1, <2>2, <2>3
<1>6. OutputOptions({}) = {}
  BY DEF OutputOptions
<1>7. Division({}, 2, <<>>, NoOutput)
  BY <1>2, <1>3, <1>4, <1>5, <1>6 DEF Division
<1> QED
  BY <1>1, <1>7 DEF DividedUpTo

\* In every division the group that begins at a position is the one found there.
LEMMA GroupIsForced ==
    ASSUME argv \in Seq(Files), NEW whole \in Divisions, NEW j \in whole,
           NEW last \in j .. Len(argv),
           \/ InputGroup(j, last) /\ (last < Len(argv) => IsOption(last + 1))
           \/ OutputGroup(j, last)
    PROVE  /\ last + 1 \in whole \cup {Len(argv) + 1}
           /\ \A x \in j + 1 .. last : x \notin whole
<1>1. /\ whole \subseteq 2 .. Len(argv) /\ Divides(whole, Len(argv) + 1)
      /\ Len(argv) \in Nat /\ j \in Nat /\ last \in Nat
  BY DEF Divisions, Arguments
<1>2. PICK e \in j .. Len(argv) :
         /\ e + 1 \in whole \cup {Len(argv) + 1}
         /\ \A x \in j + 1 .. e : x \notin whole
         /\ InputGroup(j, e) \/ OutputGroup(j, e)
  BY <1>1, SMTT(30) DEF Divides
<1>3. e = last
  <2>1. CASE OutputGroup(j, last)
    <3>1. Word(j) # "--input"
      BY <2>1 DEF OutputGroup
    <3> QED
      BY <1>2, <2>1, <3>1 DEF OutputGroup, InputGroup
  <2>2. CASE InputGroup(j, last) /\ (last < Len(argv) => IsOption(last + 1))
    <3>1. InputGroup(j, e)
      BY <1>2, <2>2 DEF OutputGroup, InputGroup
    <3>2. ~(e < last)
      <4>1. SUFFICES ASSUME e < last PROVE FALSE
        OBVIOUS
      <4>2. e + 1 \in whole /\ e + 1 \in j + 1 .. last
        BY <1>1, <1>2, <4>1
      <4>3. Word(e + 1) \in {"--input", "--output"}
        BY <1>1, <4>2 DEF Divides, InputGroup, OutputGroup
      <4>4. IsOption(e + 1)
        BY <4>3, OptionsAssumption DEF IsOption
      <4> QED
        BY <2>2, <4>2, <4>4 DEF InputGroup
    <3>3. ~(last < e)
      <4>1. SUFFICES ASSUME last < e PROVE FALSE
        OBVIOUS
      <4>2. last < Len(argv) /\ last + 1 \in j + 1 .. e
        BY <1>1, <1>2, <4>1
      <4> QED
        BY <2>2, <3>1, <4>2 DEF InputGroup
    <3> QED
      BY <1>1, <1>2, <3>2, <3>3
  <2> QED
    BY <2>1, <2>2
<1> QED
  BY <1>2, <1>3

\* The loop finds the group from j to last.
GroupAt(j, last) ==
    /\ j \in 2 .. Len(argv) /\ last \in j .. Len(argv)
    /\ InputGroup(j, last) \/ OutputGroup(j, last)
    /\ InputGroup(j, last) /\ last < Len(argv) => IsOption(last + 1)

\* With the group from j to last, starts divides what is before last + 1.
DividesWith(starts, j, last) ==
    LET more == starts \cup {j}
        next == last + 1
    IN  /\ more \subseteq 2 .. next - 1
        /\ Divides(more, next)
        /\ \A whole \in Divisions :
              /\ {s \in whole : s < next} = more
              /\ next \in whole \cup {Len(argv) + 1}
        /\ InputPositions(more, next) =
              InputPositions(starts, j) \cup {x \in j + 1 .. last : Word(j) = "--input"}

\* The group at j is added to a division of what is before it.
LEMMA GroupDivides ==
    ASSUME argv \in Seq(Files), NEW j, NEW last, GroupAt(j, last),
           NEW starts, NEW names, NEW name, Division(starts, j, names, name)
    PROVE  DividesWith(starts, j, last)
<1> DEFINE more == starts \cup {j}
           next == last + 1
<1>0. /\ starts \in SUBSET (2 .. j - 1) /\ Divides(starts, j)
      /\ \A whole \in Divisions :
            /\ {s \in whole : s < j} = starts
            /\ j \in whole \cup {Len(argv) + 1}
      /\ j \in 2 .. Len(argv) /\ last \in j .. Len(argv)
      /\ InputGroup(j, last) \/ OutputGroup(j, last)
      /\ InputGroup(j, last) /\ last < Len(argv) => IsOption(last + 1)
  BY DEF Division, GroupAt
<1>1. /\ Len(argv) \in Nat /\ j \in Nat /\ last \in Nat /\ 2 <= j /\ j <= last
      /\ last <= Len(argv)
      /\ \A s \in starts : s \in Nat /\ 2 <= s /\ s < j
  BY <1>0
<1>2. Divides(more, last + 1)
  <2>1. 2 \in more
    BY <1>0, <1>1 DEF Divides
  <2>2. ASSUME NEW s \in more
        PROVE  \E e \in s .. last : /\ e + 1 \in more \cup {last + 1}
                                    /\ \A x \in s + 1 .. e : x \notin more
                                    /\ InputGroup(s, e) \/ OutputGroup(s, e)
    <3>1. CASE s = j
      <4>1. \A x \in s + 1 .. last : x \notin more
        BY <1>1, <3>1
      <4> QED
        BY <1>0, <1>1, <3>1, <4>1
    <3>2. CASE s \in starts
      <4>1. PICK e \in s .. j - 1 : /\ e + 1 \in starts \cup {j}
                                    /\ \A x \in s + 1 .. e : x \notin starts
                                    /\ InputGroup(s, e) \/ OutputGroup(s, e)
        BY <1>0, <3>2 DEF Divides
      <4>2. e \in s .. last /\ \A x \in s + 1 .. e : x # j
        BY <1>1, <3>2, <4>1
      <4> QED
        BY <4>1, <4>2
    <3> QED
      BY <2>2, <3>1, <3>2
  <2> QED
    BY <1>1, <2>1, <2>2 DEF Divides
<1>3. ASSUME NEW whole \in Divisions
      PROVE  /\ {s \in whole : s < last + 1} = more
             /\ last + 1 \in whole \cup {Len(argv) + 1}
  <2>1. j \in whole /\ whole \subseteq 2 .. Len(argv)
    BY <1>0, <1>1 DEF Divisions, Arguments
  <2>2. /\ last + 1 \in whole \cup {Len(argv) + 1}
        /\ \A x \in j + 1 .. last : x \notin whole
    BY <1>0, <2>1, GroupIsForced
  <2>3. {s \in whole : s < j} = starts
    BY <1>0
  <2>4. ASSUME NEW s PROVE s \in whole /\ s < last + 1 <=> s \in more
    <3>1. CASE s \in more
      <4>1. s \in whole /\ s \in Nat /\ s <= j
        BY <1>1, <2>1, <2>3, <3>1
      <4> QED
        BY <1>1, <3>1, <4>1
    <3>2. CASE s \in whole /\ s < last + 1
      <4>1. s \in Nat /\ ~(s \in j + 1 .. last)
        BY <1>1, <2>1, <2>2, <3>2
      <4>2. s <= j
        BY <1>1, <3>2, <4>1
      <4>3. s = j \/ s \in starts
        BY <1>1, <2>3, <3>2, <4>1, <4>2
      <4> QED
        BY <3>2, <4>3
    <3> QED
      BY <3>1, <3>2
  <2> QED
    BY <2>2, <2>4
<1>4. ASSUME NEW x
      PROVE  x \in InputPositions(more, last + 1) <=>
                x \in InputPositions(starts, j) \/ (x \in j + 1 .. last /\ Word(j) = "--input")
  <2>1. CASE x \in 2 .. j - 1
    <3>1. \A s \in starts : (\A y \in s + 1 .. x : y \notin more) <=> (\A y \in s + 1 .. x : y \notin starts)
      BY <1>1, <2>1
    <3>2. ~(j < x)
      BY <1>1, <2>1
    <3> QED
      BY <1>1, <2>1, <3>1, <3>2 DEF InputPositions
  <2>2. CASE x = j
    <3>1. \A s \in Nat : s < x => x \in s + 1 .. x
      BY <1>1, <2>2
    <3> QED
      BY <1>1, <2>2, <3>1 DEF InputPositions
  <2>3. CASE x \in j + 1 .. last
    <3>1. \A s \in starts : j \in s + 1 .. x
      BY <1>1, <2>3
    <3>2. j < x /\ \A y \in j + 1 .. x : y \notin more
      BY <1>1, <2>3
    <3>3. x \notin 2 .. j - 1 /\ x \in 2 .. last
      BY <1>1, <2>3
    <3> QED
      BY <1>1, <2>3, <3>1, <3>2, <3>3 DEF InputPositions
  <2>4. CASE x \notin 2 .. last
    <3>1. x \notin 2 .. j - 1 /\ x \notin j + 1 .. last
      BY <1>1, <2>4
    <3> QED
      BY <1>1, <2>4, <3>1 DEF InputPositions
  <2> QED
    BY <1>1, <2>1, <2>2, <2>3, <2>4
<1>5. more \subseteq 2 .. last
  BY <1>1
<1>6. next - 1 = last
  BY <1>1
<1>7. InputPositions(more, next) =
         InputPositions(starts, j) \cup {x \in j + 1 .. last : Word(j) = "--input"}
  BY <1>4
<1> QED
  BY <1>2, <1>3, <1>5, <1>6, <1>7 DEF DividesWith

LEMMA AddInputs ==
    ASSUME NEW j \in 2 .. Len(argv), NEW names, NEW name, DividedUpTo(j, names, name),
           argv \in Seq(Files), NEW last \in j .. Len(argv), InputGroup(j, last),
           last < Len(argv) => IsOption(last + 1)
    PROVE  DividedUpTo(last + 1, names \o SubSeq(argv, j + 1, last), name)
<1>1. PICK starts : Division(starts, j, names, name)
  BY DEF DividedUpTo
<1>2. /\ Len(argv) \in Nat /\ j \in Nat /\ last \in Nat /\ 2 <= j /\ j < last
      /\ last <= Len(argv) /\ Word(j) = "--input"
      /\ names \in Seq(Files) /\ starts \in SUBSET (2 .. j - 1)
      /\ \A s \in starts : s \in Nat /\ 2 <= s /\ s < j
  BY <1>1 DEF InputGroup, DividedUpTo, Division
<1> DEFINE more == starts \cup {j}
           run == SubSeq(argv, j + 1, last)
           all == names \o run
           positions == InputPositions(starts, j)
           after == positions \cup j + 1 .. last
<1>3. /\ more \subseteq 2 .. (last + 1) - 1
      /\ Divides(more, last + 1)
      /\ \A whole \in Divisions :
            /\ {s \in whole : s < last + 1} = more
            /\ last + 1 \in whole \cup {Len(argv) + 1}
      /\ InputPositions(more, last + 1) = after
  <2>1. GroupAt(j, last)
    BY <1>2 DEF GroupAt
  <2>2. DividesWith(starts, j, last)
    BY <1>1, <2>1, GroupDivides
  <2>3. {x \in j + 1 .. last : Word(j) = "--input"} = j + 1 .. last
    BY <1>2
  <2> QED
    BY <2>2, <2>3 DEF DividesWith
<1>4. /\ run \in Seq(Files) /\ Len(run) = last - j
      /\ \A k \in 1 .. last - j : run[k] = argv[j + k]
  <2>1. \A n \in j + 1 .. last : argv[n] \in Files
    BY <1>2
  <2>2. /\ j + 1 \in Nat /\ last - (j + 1) + 1 = last - j /\ j + 1 <= last + 1
        /\ \A k \in 1 .. last - j : j + 1 + k - 1 = j + k
    BY <1>2
  <2> QED
    BY <1>2, <2>1, <2>2, SubSeqProperties
<1> HIDE DEF run
<1>5. /\ all \in Seq(Files) /\ Len(names) \in Nat /\ DOMAIN names = 1 .. Len(names)
      /\ Len(all) = Len(names) + last - j /\ DOMAIN all = 1 .. Len(names) + last - j
      /\ \A k \in 1 .. Len(names) : all[k] = names[k]
      /\ \A k \in 1 .. last - j : all[Len(names) + k] = argv[j + k]
  <2>1. /\ names \in Seq(Files) /\ run \in Seq(Files) /\ Len(names) \in Nat
        /\ Len(run) = last - j /\ last - j \in Nat
    BY <1>2, <1>4
  <2>2. /\ all \in Seq(Files) /\ Len(all) = Len(names) + Len(run)
        /\ \A k \in 1 .. Len(all) : all[k] = IF k <= Len(names) THEN names[k]
                                            ELSE run[k - Len(names)]
    BY <2>1, ConcatProperties
  <2>3. DOMAIN names = 1 .. Len(names) /\ DOMAIN all = 1 .. Len(all)
    BY <2>1, <2>2
  <2>4. ASSUME NEW k \in 1 .. last - j PROVE all[Len(names) + k] = run[k]
    <3>1. /\ Len(names) + k \in 1 .. Len(all) /\ ~(Len(names) + k <= Len(names))
          /\ Len(names) + k - Len(names) = k
      BY <2>1, <2>2
    <3> QED
      BY <2>2, <3>1
  <2>5. ASSUME NEW k \in 1 .. Len(names) PROVE all[k] = names[k]
    <3>1. k \in 1 .. Len(all) /\ k <= Len(names)
      BY <2>1, <2>2
    <3> QED
      BY <2>2, <3>1
  <2>6. Len(all) = Len(names) + last - j
    BY <1>2, <2>1, <2>2
  <2> QED
    BY <1>4, <2>1, <2>2, <2>3, <2>4, <2>5, <2>6
<1> HIDE DEF all
<1>6. PICK at \in [DOMAIN names -> positions] :
         /\ \A k, l \in DOMAIN names : k < l => at[k] < at[l]
         /\ \A x \in positions : \E k \in DOMAIN names : at[k] = x
         /\ \A k \in DOMAIN names : names[k] = Word(at[k])
  BY <1>1 DEF Division, AreWordsAt
<1>7. \A x \in positions : x \in Nat /\ x < j
  BY <1>2 DEF InputPositions
<1> DEFINE there == [k \in DOMAIN all |-> IF k <= Len(names) THEN at[k] ELSE j + k - Len(names)]
<1>8. AreWordsAt(all, after)
  <2> HIDE DEF positions
  <2>1. ASSUME NEW k \in DOMAIN all
        PROVE  \/ k \in DOMAIN names /\ there[k] = at[k] /\ there[k] \in positions
                  /\ there[k] < j /\ there[k] \in Nat
               \/ /\ k \in Nat /\ ~(k \in DOMAIN names) /\ k > Len(names)
                  /\ there[k] = j + k - Len(names) /\ there[k] \in j + 1 .. last
    BY <1>2, <1>5, <1>6, <1>7
  <2>2. there \in [DOMAIN all -> after]
    <3>1. \A k \in DOMAIN all : there[k] \in after
      BY <2>1
    <3> QED
      BY <3>1
  <2>3. ASSUME NEW k \in DOMAIN all, NEW l \in DOMAIN all, k < l PROVE there[k] < there[l]
    <3>1. CASE l \in DOMAIN names
      <4>1. k \in DOMAIN names
        BY <1>5, <2>3, <3>1
      <4> QED
        BY <1>5, <1>6, <2>1, <2>3, <3>1, <4>1
    <3>2. CASE l \notin DOMAIN names
      BY <1>2, <1>5, <2>1, <2>3, <3>2, SMTT(30)
    <3> QED
      BY <3>1, <3>2
  <2>4. ASSUME NEW x \in after PROVE \E k \in DOMAIN all : there[k] = x
    <3>1. CASE x \in positions
      <4>1. PICK k \in DOMAIN names : at[k] = x
        BY <1>6, <3>1
      <4> QED
        BY <1>2, <1>5, <4>1
    <3>2. CASE x \in j + 1 .. last
      <4>1. Len(names) + (x - j) \in DOMAIN all /\ there[Len(names) + (x - j)] = x
        BY <1>2, <1>5, <3>2
      <4> QED
        BY <4>1
    <3> QED
      BY <3>1, <3>2
  <2>5. ASSUME NEW k \in DOMAIN all PROVE all[k] = Word(there[k])
    <3>1. CASE k \in DOMAIN names
      BY <1>5, <1>6, <2>1, <3>1
    <3>2. CASE k \notin DOMAIN names
      <4>1. k - Len(names) \in 1 .. last - j /\ k = Len(names) + (k - Len(names))
            /\ there[k] = j + (k - Len(names))
        BY <1>2, <1>5, <2>1, <3>2
      <4>2. all[k] = argv[j + (k - Len(names))]
        BY <1>5, <4>1
      <4> QED
        BY <4>1, <4>2 DEF Word
    <3> QED
      BY <3>1, <3>2
  <2> HIDE DEF there, after
  <2> QED
    BY <2>2, <2>3, <2>4, <2>5 DEF AreWordsAt
<1>9. OutputOptions(more) = OutputOptions(starts)
  BY <1>2 DEF OutputOptions
<1>10. \/ OutputOptions(more) = {} /\ name = NoOutput
       \/ \E s \in more : IsLastOutput(more, s) /\ name = Word(s + 1)
  BY <1>1, <1>9 DEF Division, IsLastOutput
<1> HIDE DEF more, after
<1>11. AreWordsAt(all, InputPositions(more, last + 1))
  BY <1>3, <1>8
<1>12. Division(more, last + 1, all, name)
  BY <1>3, <1>10, <1>11 DEF Division
<1>13. last + 1 \in 2 .. Len(argv) + 1
  BY <1>2
<1> QED
  BY <1>5, <1>12, <1>13 DEF DividedUpTo, all, run

LEMMA AddOutput ==
    ASSUME NEW j \in 2 .. Len(argv), NEW names, NEW name, DividedUpTo(j, names, name),
           argv \in Seq(Files), j + 1 <= Len(argv), Word(j) = "--output"
    PROVE  DividedUpTo(j + 2, names, Word(j + 1))
<1>1. PICK starts : Division(starts, j, names, name)
  BY DEF DividedUpTo
<1> DEFINE more == starts \cup {j}
<1>2. /\ Len(argv) \in Nat /\ j \in Nat /\ 2 <= j /\ j + 1 \in j .. Len(argv)
      /\ OutputGroup(j, j + 1) /\ ~InputGroup(j, j + 1)
      /\ names \in Seq(Files) /\ starts \in SUBSET (2 .. j - 1)
      /\ \A s \in starts : s \in Nat /\ 2 <= s /\ s < j
      /\ j + 1 + 1 = j + 2 /\ j + 2 - 1 = j + 1
  BY <1>1 DEF InputGroup, OutputGroup, DividedUpTo, Division
<1>3. /\ more \subseteq 2 .. (j + 2) - 1
      /\ Divides(more, j + 2)
      /\ \A whole \in Divisions :
            /\ {s \in whole : s < j + 2} = more
            /\ j + 2 \in whole \cup {Len(argv) + 1}
      /\ InputPositions(more, j + 2) = InputPositions(starts, j)
  <2>1. GroupAt(j, j + 1)
    BY <1>2 DEF GroupAt
  <2>2. DividesWith(starts, j, j + 1)
    BY <1>1, <2>1, GroupDivides
  <2>3. {x \in j + 1 .. j + 1 : Word(j) = "--input"} = {}
    OBVIOUS
  <2> QED
    BY <1>2, <2>2, <2>3 DEF DividesWith
<1>4. InputPositions(more, j + 2) = InputPositions(starts, j)
  BY <1>3
<1>5. IsLastOutput(more, j)
  BY <1>2 DEF IsLastOutput, OutputOptions
<1>6. AreWordsAt(names, InputPositions(starts, j))
  BY <1>1 DEF Division
<1>7. j \in more
  OBVIOUS
<1> HIDE DEF more
<1>8. Division(more, j + 2, names, Word(j + 1))
  BY <1>3, <1>4, <1>5, <1>6, <1>7 DEF Division
<1>9. j + 2 \in 2 .. Len(argv) + 1
  BY <1>2
<1> QED
  BY <1>2, <1>8, <1>9 DEF DividedUpTo

\* Nothing can be divided where no group begins.
LEMMA NoDivision ==
    ASSUME NEW j \in 2 .. Len(argv), NEW names, NEW name, DividedUpTo(j, names, name),
           argv \in Seq(Files),
           \/ j = Len(argv)
           \/ Word(j) \notin {"--input", "--output"}
           \/ Word(j) = "--input" /\ j < Len(argv) /\ IsOption(j + 1)
    PROVE  Divisions = {}
<1>1. SUFFICES ASSUME NEW whole \in Divisions PROVE FALSE
  OBVIOUS
<1>2. Len(argv) \in Nat /\ j \in Nat /\ j <= Len(argv)
  OBVIOUS
<1>3. j \in whole /\ Divides(whole, Len(argv) + 1)
  BY <1>2 DEF DividedUpTo, Division, Divisions
<1>4. PICK e \in j .. Len(argv) : InputGroup(j, e) \/ OutputGroup(j, e)
  BY <1>2, <1>3 DEF Divides
<1>5. CASE InputGroup(j, e)
  <2>1. j + 1 \in j + 1 .. e /\ j < Len(argv) /\ Word(j) = "--input"
    BY <1>2, <1>4, <1>5 DEF InputGroup
  <2> QED
    BY <1>2, <1>5, <2>1 DEF InputGroup
<1>6. CASE OutputGroup(j, e)
  BY <1>2, <1>4, <1>6 DEF OutputGroup
<1> QED
  BY <1>4, <1>5, <1>6

\* At the end of the arguments there is one division, of what was found.
LEMMA WholeDivision ==
    ASSUME argv \in Seq(Files), argv # <<>>,
           NEW names, NEW name, DividedUpTo(Len(argv) + 1, names, name)
    PROVE  \E starts \in Divisions :
              /\ Division(starts, Len(argv) + 1, names, name)
              /\ \A whole \in Divisions : whole = starts
<1>1. PICK starts : Division(starts, Len(argv) + 1, names, name)
  BY DEF DividedUpTo
<1>2. Len(argv) \in Nat /\ Len(argv) + 1 - 1 = Len(argv)
  OBVIOUS
<1>3. starts \in Divisions
  BY <1>1, <1>2 DEF Division, Divisions, Arguments
<1>4. ASSUME NEW whole \in Divisions PROVE whole = starts
  <2>1. \A s \in whole : s < Len(argv) + 1
    BY <1>2 DEF Divisions, Arguments
  <2>2. {s \in whole : s < Len(argv) + 1} = starts
    BY <1>1 DEF Division
  <2> QED
    BY <2>1, <2>2
<1> QED
  BY <1>1, <1>3, <1>4

\* The arguments stay, and so does everything said of their divisions.
LEMMA SameArguments ==
    ASSUME argv' = argv
    PROVE  /\ Divisions' = Divisions
           /\ \A starts : Complete(starts)' <=> Complete(starts)
           /\ \A j, names, name : DividedUpTo(j, names, name)' <=> DividedUpTo(j, names, name)
<1>1. \A starts, end : Divides(starts, end)' <=> Divides(starts, end)
  BY DEF Divides, InputGroup, OutputGroup, IsOption, Word
<1>2. Divisions' = Divisions
  BY <1>1 DEF Divisions, Arguments
<1>3. \A starts, end : InputPositions(starts, end)' = InputPositions(starts, end)
  BY DEF InputPositions, Word
<1>4. \A starts, s : IsLastOutput(starts, s)' <=> IsLastOutput(starts, s)
  BY DEF IsLastOutput, OutputOptions, Word
<1>5. \A starts : OutputOptions(starts)' = OutputOptions(starts)
  BY DEF OutputOptions, Word
<1>6. \A words, positions : AreWordsAt(words, positions)' <=> AreWordsAt(words, positions)
  BY DEF AreWordsAt, Word
<1>7. \A starts : Complete(starts)' <=> Complete(starts)
  BY <1>3, <1>4 DEF Complete, Word
<1>8. \A starts, j, names, name :
         Division(starts, j, names, name)' <=> Division(starts, j, names, name)
  BY <1>1, <1>2, <1>3, <1>4, <1>5, <1>6 DEF Division, Word
<1>9. \A j, names, name : DividedUpTo(j, names, name)' <=> DividedUpTo(j, names, name)
  BY <1>8 DEF DividedUpTo
<1> QED
  BY <1>2, <1>7, <1>9

LEMMA Carried ==
    ASSUME argv' = argv, DividedUpTo(i', inputs', output')
    PROVE  DividedUpTo(i, inputs, output)'
<1>1. PICK j, names, name : j = i' /\ names = inputs' /\ name = output'
  OBVIOUS
<1>2. DividedUpTo(j, names, name)'
  BY <1>1, SameArguments
<1> QED
  BY <1>1, <1>2 DEF DividedUpTo, Division

LEMMA InitUsage == Init => Usage
  BY DEF Init, Usage

\* No step but the two that refuse the options sets the exit code to 2 for a
\* command that generates.
LEMMA OtherExit ==
    ASSUME Usage, argv' = argv, exit' = exit \/ exit' # 2
    PROVE  (exit = 2 /\ argv # <<>> /\ Word(1) \in Generating =>
               \A starts \in Divisions : ~Complete(starts))'
<1> SUFFICES ASSUME exit' = 2, argv # <<>>, Word(1) \in Generating,
                    NEW starts \in Divisions
             PROVE  ~Complete(starts)
  BY SameArguments DEF Word
<1> QED
  BY DEF Usage

LEMMA CommandUsage == ASSUME IInv, Usage, Command PROVE Usage'
<1>1. /\ argv # <<>> /\ UNCHANGED <<argv, i, inputs, output, exit>> /\ pc = "start"
      /\ pc' = "options"
  BY DEF Command
<1>2. argv \in Seq(Files)
  BY Typing DEF IInv
<1>3. DividedUpTo(i, inputs, output)
  BY <1>1, <1>2, NothingDivided DEF Usage
<1>4. DividedUpTo(i, inputs, output)'
  BY <1>1, <1>3, Carried
<1> QED
  BY <1>1, <1>4, OtherExit DEF Usage

LEMMA InputUsage == ASSUME IInv, Usage, InputOption PROVE Usage'
<1> DEFINE last == i' - 1
<1>1. /\ UNCHANGED <<argv, pc, output, exit>> /\ pc = "options"
      /\ i <= Len(argv) /\ Word(i) = "--input" /\ i < Len(argv) /\ ~IsOption(i + 1)
      /\ i' = EndOfRun(i + 1) /\ inputs' = inputs \o SubSeq(argv, i + 1, i' - 1)
  BY DEF InputOption
<1>2. argv \in Seq(Files) /\ Len(argv) \in Nat /\ i \in Nat /\ i >= 2
  BY Typing DEF IInv, TypeOK
<1>3. /\ i' \in i + 1 .. Len(argv) + 1
      /\ i' > Len(argv) \/ IsOption(i')
      /\ \A x \in i + 1 .. i' - 1 : ~IsOption(x)
  <2>1. i + 1 \in 1 .. Len(argv)
    BY <1>1, <1>2
  <2>2. /\ EndOfRun(i + 1) \in i + 1 .. Len(argv) + 1
        /\ EndOfRun(i + 1) > Len(argv) \/ IsOption(EndOfRun(i + 1))
        /\ \A x \in i + 1 .. EndOfRun(i + 1) - 1 : ~IsOption(x)
    BY <1>2, <2>1, RunEnds
  <2>3. i' = EndOfRun(i + 1)
    BY <1>1
  <2>4. PICK e : e = i'
    OBVIOUS
  <2>5. /\ e \in i + 1 .. Len(argv) + 1
        /\ e > Len(argv) \/ IsOption(e)
        /\ \A x \in i + 1 .. e - 1 : ~IsOption(x)
    BY <2>2, <2>3, <2>4
  <2> QED
    BY <2>4, <2>5
<1>4. i' # i + 1
  BY <1>1, <1>2, <1>3
<1>5. /\ i \in 2 .. Len(argv) /\ last \in i .. Len(argv) /\ last + 1 = i' /\ i < last
  BY <1>1, <1>2, <1>3, <1>4, SMTT(30)
<1>6. InputGroup(i, last)
  BY <1>1, <1>3, <1>5 DEF InputGroup
<1>7. last < Len(argv) => IsOption(last + 1)
  BY <1>2, <1>3, <1>5
<1>8. DividedUpTo(i, inputs, output)
  BY <1>1 DEF Usage
<1> HIDE DEF last
<1>9. DividedUpTo(last + 1, inputs \o SubSeq(argv, i + 1, last), output)
  BY <1>2, <1>5, <1>6, <1>7, <1>8, AddInputs
<1>10. DividedUpTo(i, inputs, output)'
  BY <1>1, <1>5, <1>9, Carried DEF last
<1> QED
  BY <1>1, <1>10, OtherExit DEF Usage

LEMMA OutputUsage == ASSUME IInv, Usage, OutputOption PROVE Usage'
<1>1. /\ UNCHANGED <<argv, pc, inputs, exit>> /\ pc = "options"
      /\ Word(i) = "--output" /\ i < Len(argv)
      /\ i' = i + 2 /\ output' = Word(i + 1)
  BY DEF OutputOption
<1>2. argv \in Seq(Files) /\ Len(argv) \in Nat /\ i \in Nat /\ i >= 2
  BY Typing DEF IInv, TypeOK
<1>3. i \in 2 .. Len(argv) /\ i + 1 <= Len(argv)
  BY <1>1, <1>2
<1>4. DividedUpTo(i, inputs, output)
  BY <1>1 DEF Usage
<1>5. DividedUpTo(i + 2, inputs, Word(i + 1))
  BY <1>1, <1>2, <1>3, <1>4, AddOutput
<1>6. DividedUpTo(i, inputs, output)'
  BY <1>1, <1>5, Carried
<1> QED
  BY <1>1, <1>6, OtherExit DEF Usage

LEMMA BadUsage == ASSUME IInv, Usage, BadOption PROVE Usage'
<1>1. /\ UNCHANGED <<argv, i, inputs, output>> /\ pc = "options" /\ pc' = "exited"
      /\ i <= Len(argv)
      /\ \/ i = Len(argv)
         \/ Word(i) \notin {"--input", "--output"}
         \/ Word(i) = "--input" /\ i < Len(argv) /\ IsOption(i + 1)
  BY DEF BadOption, ExitWith
<1>2. argv \in Seq(Files) /\ Len(argv) \in Nat /\ i \in Nat /\ i >= 2
  BY Typing DEF IInv, TypeOK
<1>3. i \in 2 .. Len(argv)
  BY <1>1, <1>2
<1>4. DividedUpTo(i, inputs, output)
  BY <1>1 DEF Usage
<1>5. Divisions = {}
  BY <1>1, <1>2, <1>3, <1>4, NoDivision
<1>6. Divisions' = {}
  BY <1>1, <1>5, SameArguments
<1> QED
  BY <1>1, <1>6 DEF Usage

LEMMA EndUsage == ASSUME IInv, Usage, EndOptions PROVE Usage'
<1>1. /\ UNCHANGED <<argv, i, inputs, output>> /\ pc = "options" /\ i > Len(argv)
      /\ IF inputs = <<>> \/ output = NoOutput
         THEN pc' = "exited" /\ exit' = 2 ELSE pc' = "parse" /\ exit' = exit
  BY DEF EndOptions, ExitWith
<1>2. argv \in Seq(Files) /\ Len(argv) \in Nat /\ argv # <<>> /\ i \in Nat
  BY <1>1, Typing DEF IInv, TypeOK, Generates
<1>3. DividedUpTo(i, inputs, output) /\ i = Len(argv) + 1
  BY <1>1, <1>2 DEF Usage, DividedUpTo
<1>4. CASE inputs = <<>> \/ output = NoOutput
  <2>1. PICK starts \in Divisions :
           /\ Division(starts, Len(argv) + 1, inputs, output)
           /\ \A whole \in Divisions : whole = starts
    BY <1>2, <1>3, WholeDivision
  <2>2. ~Complete(starts)
    <3>1. CASE inputs = <<>>
      <4>1. InputPositions(starts, Len(argv) + 1) = {}
        BY <2>1, <3>1 DEF Division, AreWordsAt
      <4> QED
        BY <4>1 DEF Complete
    <3>2. CASE output = NoOutput
      <4>1. ASSUME NEW s \in starts, IsLastOutput(starts, s) PROVE Word(s + 1) = NoOutput
        <5>1. OutputOptions(starts) # {}
          BY <4>1 DEF IsLastOutput
        <5>2. PICK t \in starts : IsLastOutput(starts, t) /\ output = Word(t + 1)
          BY <2>1, <5>1 DEF Division
        <5>3. s \in Nat /\ t \in Nat /\ s <= t /\ t <= s
          BY <1>2, <2>1, <4>1, <5>2 DEF IsLastOutput, Divisions, Arguments
        <5>4. s = t
          BY <5>3
        <5> QED
          BY <3>2, <5>2, <5>4
      <4> QED
        BY <4>1 DEF Complete
    <3> QED
      BY <1>4, <3>1, <3>2
  <2>3. \A whole \in Divisions : ~Complete(whole)
    BY <2>1, <2>2
  <2>4. (\A whole \in Divisions : ~Complete(whole))'
    BY <1>1, <2>3, SameArguments
  <2> QED
    BY <1>1, <1>4, <2>4 DEF Usage
<1>5. CASE ~(inputs = <<>> \/ output = NoOutput)
  <2>1. DividedUpTo(i, inputs, output)'
    BY <1>1, <1>3, Carried
  <2> QED
    BY <1>1, <1>3, <1>5, <2>1, OtherExit DEF Usage
<1> QED
  BY <1>4, <1>5

\* The steps that leave what was parsed of the options alone.
LEMMA LaterUsage ==
    ASSUME IInv, Usage, UNCHANGED <<argv, i, inputs, output>>,
           \/ pc' \in {"open", "write", "exited", "killed"}
           \/ pc' = pc,
           \/ exit' \in {0, 1} \/ exit' = exit
           \/ ~(argv # <<>> /\ Word(1) \in Generating)
    PROVE  Usage'
<1>1. DividedUpTo(i, inputs, output) => DividedUpTo(i, inputs, output)'
  BY Carried
<1>2. (exit = 2 /\ argv # <<>> /\ Word(1) \in Generating =>
           \A starts \in Divisions : ~Complete(starts))'
  <2>1. CASE exit' \in {0, 1} \/ exit' = exit
    BY <2>1, OtherExit
  <2>2. CASE ~(argv # <<>> /\ Word(1) \in Generating)
    BY <2>2 DEF Word
  <2> QED
    BY <2>1, <2>2
<1> QED
  BY <1>1, <1>2 DEF Usage

LEMMA UsageStep == IInv /\ Usage /\ [Next]_vars => Usage'
<1> SUFFICES ASSUME IInv, Usage, [Next]_vars PROVE Usage'
  OBVIOUS
<1>1. CASE Help
  BY <1>1, LaterUsage DEF Help, ExitWith
<1>2. CASE UnknownCommand
  BY <1>2, LaterUsage DEF UnknownCommand, ExitWith
<1>3. CASE ParseNext
  BY <1>3, LaterUsage DEF ParseNext, ExitWith
<1>4. CASE Analyse
  BY <1>4, LaterUsage DEF Analyse, ExitWith
<1>5. CASE OpenOutput
  BY <1>5, LaterUsage DEF OpenOutput, ExitWith
<1>6. CASE WriteOutput
  BY <1>6, LaterUsage DEF WriteOutput, ExitWith
<1>7. CASE Kill
  BY <1>7, LaterUsage DEF Kill
<1>8. CASE Ended \/ UNCHANGED vars
  BY <1>8, LaterUsage DEF Ended, vars
<1> QED
  BY <1>1, <1>2, <1>3, <1>4, <1>5, <1>6, <1>7, <1>8, CommandUsage, InputUsage, OutputUsage,
     BadUsage, EndUsage DEF Next, Step

LEMMA UsageHolds == Spec => []Usage
<1> QED
  BY InitialInvariant, InvariantStep, InitUsage, UsageStep, PTL DEF Spec

\* For every sequence of arguments: the options are accepted exactly when they
\* can be divided into groups as print_help says, and what is parsed of them is
\* what that division names (parse_generate_options).
THEOREM UsageIsFollowed == Spec => []OptionsFollowTheUsage
<1>1. ASSUME IInv, Usage PROVE OptionsFollowTheUsage
  <2>1. SUFFICES ASSUME pc = "parse"
                 PROVE  \E starts \in Divisions :
                           /\ Complete(starts)
                           /\ AreWordsAt(inputs, InputPositions(starts, Len(argv) + 1))
                           /\ \E s \in starts : IsLastOutput(starts, s) /\ output = Word(s + 1)
    BY <1>1 DEF Usage, OptionsFollowTheUsage
  <2>2. /\ DividedUpTo(Len(argv) + 1, inputs, output) /\ argv \in Seq(Files) /\ argv # <<>>
        /\ inputs # <<>> /\ output # NoOutput /\ inputs \in Seq(Files)
    BY <1>1, <2>1, Typing DEF IInv, Usage, Generates, TypeOK
  <2>3. PICK starts \in Divisions : Division(starts, Len(argv) + 1, inputs, output)
    BY <2>2, WholeDivision
  <2>4. PICK s \in starts : IsLastOutput(starts, s) /\ output = Word(s + 1)
    BY <2>2, <2>3 DEF Division
  <2>5. AreWordsAt(inputs, InputPositions(starts, Len(argv) + 1))
    BY <2>3 DEF Division
  <2>6. InputPositions(starts, Len(argv) + 1) # {}
    <3>1. 1 \in DOMAIN inputs
      BY <2>2
    <3> QED
      BY <2>5, <3>1 DEF AreWordsAt
  <2>7. Complete(starts)
    BY <2>2, <2>4, <2>6 DEF Complete
  <2> QED
    BY <2>4, <2>5, <2>7
<1> QED
  BY <1>1, InitialInvariant, InvariantStep, UsageHolds, PTL DEF Spec

-----------------------------------------------------------------------------
(* The builds: the inductive invariant.                                    *)

OutputsOf(call) == HppsOf(call) \cup SchemasOf(call)

CallRecords ==
    [target : STRING, generated : STRING, headers : Seq(Headers), schemas : BOOLEAN]

\* What the calls processed have in common: TARGET is a target that was there before,
\* GENERATED_TARGET is not, and no two of their headers have one output.
ConfigOK ==
    /\ calls \in Configurations
    /\ c \in 1 .. Len(calls) + 1
    /\ \A x \in Made : x.target \in Targets /\ x.generated \notin Targets
    /\ \A x, y \in Made : \A g \in HeadersOf(x), h \in HeadersOf(y) : Base[g] = Base[h] => g = h

Procs ==
    [target : AllTargets, output : Outputs, at : {"started", "read", "truncated"},
     version : Versions \cup {0}, by : Nat]

BuildTypeOK ==
    /\ phase \in {"configure", "error", "idle", "build"}
    /\ phase \in {"idle", "build"} => c = Len(calls) + 1
    /\ phase \in {"configure", "error"} => newer = Outputs
    /\ phase # "build" => procs = {} /\ compiling = {}
    /\ header \in [Headers -> Versions] /\ tool \in Nat
    /\ DOMAIN out = Outputs
    /\ procs \subseteq Procs

\* One running call of the tool for a target and an output it lists.
ProcsOK ==
    /\ \A p \in procs :
          /\ p.output \in ListedBy(p.target) /\ <<p.target, p.output>> \in checked
          /\ Ready(p.target)
          /\ p.at # "started" => p.by = tool
    /\ \A p, q \in procs : p.target = q.target /\ p.output = q.output => p = q

\* The tool runs again for an output that another target has finished with only
\* if somebody has edited the header.
WaitersOK ==
    \A p \in procs : \A g \in Needs(p.target) :
        p.output \in ListedBy(g) => HeaderOf(p.output) \in edited

UpToDate(o) == o \notin newer \/ HeaderOf(o) \in edited

\* A target that compiles or is done has brought all it lists up to date.
TargetsOK ==
    /\ compiling \cap done = {}
    /\ \A t \in compiling \cup done :
          /\ t \in AllTargets /\ Ready(t)
          /\ \A p \in procs : p.target # t
          /\ \A o \in ListedBy(t) : <<t, o>> \in checked /\ UpToDate(o)

\* So has a target whose tool has returned, unless a rule has failed.
CheckedOK ==
    ~failed =>
        \A t \in AllTargets : \A o \in ListedBy(t) :
            \/ <<t, o>> \notin checked
            \/ \E p \in procs : p.target = t /\ p.output = o
            \/ UpToDate(o)

BuildOK == phase = "build" => ProcsOK /\ WaitersOK /\ TargetsOK /\ CheckedOK

\* An output that looks up to date is, with three exceptions.
Honest(o) == o \in newer \/ Current(o) \/ out[o] = Torn \/ o \in raced
OutputsOK == phase \in {"idle", "build"} => \A rule \in Rules : Honest(rule.output)

BuildIInv == ConfigOK /\ BuildTypeOK /\ BuildOK /\ OutputsOK

-----------------------------------------------------------------------------
(* The configuration.                                                      *)

\* A rule makes an output of its call from the header of that output.
LEMMA RuleOfCall ==
    ASSUME NEW rule \in Rules
    PROVE  \E x \in Made : /\ rule.header \in HeadersOf(x)
                           /\ rule.output \in {Hpp(rule.header), Schema(rule.header)}
                           /\ rule.output \in OutputsOf(x)
BY DEF Rules, OutputsOf, HppsOf, SchemasOf

\* The rules for an output are one, so that HeaderOf is its header.
LEMMA HeaderOfRule ==
    ASSUME ConfigOK, NEW rule \in Rules
    PROVE  HeaderOf(rule.output) = rule.header
<1> DEFINE chosen == CHOOSE r \in Rules : r.output = rule.output
<1>1. chosen \in Rules /\ chosen.output = rule.output
  OBVIOUS
<1> HIDE DEF chosen
<1>2. PICK x \in Made : /\ rule.header \in HeadersOf(x)
                        /\ rule.output \in {Hpp(rule.header), Schema(rule.header)}
                        /\ rule.output \in OutputsOf(x)
  BY RuleOfCall
<1>3. PICK y \in Made : /\ chosen.header \in HeadersOf(y)
                        /\ chosen.output \in {Hpp(chosen.header), Schema(chosen.header)}
                        /\ chosen.output \in OutputsOf(y)
  BY <1>1, RuleOfCall
<1>4. Base[rule.header] = Base[chosen.header]
  BY <1>1, <1>2, <1>3 DEF Hpp, Schema
<1>5. rule.header = chosen.header
  BY <1>2, <1>3, <1>4 DEF ConfigOK
<1> QED
  BY <1>5 DEF HeaderOf, chosen

\* The three ways in which a target comes to list an output of a call.
Lists(t, x, o) ==
    \/ x.target = t /\ o \in HppsOf(x)
    \/ x.generated = t /\ o \in Artifacts(x)
    \/ [name |-> t, after |-> x.generated] \in ConsumersMade /\ o \in HppsOf(x)

LEMMA ListedByCalls ==
    ASSUME NEW t, NEW o
    PROVE  o \in ListedBy(t) <=> \E x \in Made : Lists(t, x, o)
<1> DEFINE ByTarget == UNION {HppsOf(call) : call \in {x \in Made : x.target = t}}
           ByGenerated == UNION {Artifacts(call) : call \in {x \in Made : x.generated = t}}
           Consumes(x) == [name |-> t, after |-> x.generated] \in ConsumersMade
           ByConsumer == UNION {HppsOf(call) : call \in {x \in Made : Consumes(x)}}
<1>1. o \in ByTarget <=> \E x \in Made : x.target = t /\ o \in HppsOf(x)
  BY Zenon
<1>2. o \in ByGenerated <=> \E x \in Made : x.generated = t /\ o \in Artifacts(x)
  BY Zenon
<1>3. o \in ByConsumer <=>
        \E x \in Made : Consumes(x) /\ o \in HppsOf(x)
  BY Zenon
<1>4. o \in ListedBy(t) <=> o \in ByTarget \/ o \in ByGenerated \/ o \in ByConsumer
  BY Zenon DEF ListedBy
<1> QED
  BY <1>1, <1>2, <1>3, <1>4, Zenon DEF Lists

\* A target that lists an output has it from a call that asks for it, and is the
\* target that is to build it first or waits for that one, which lists it too.
LEMMA Lister ==
    ASSUME NEW t, NEW o \in ListedBy(t), t # NoTarget
    PROVE  \E x \in Made :
              /\ o \in Asked(x) /\ o \in ListedBy(First(x))
              /\ t = First(x) \/ First(x) \in Needs(t)
<1>1. PICK x \in Made : Lists(t, x, o)
  BY ListedByCalls
<1>2. ASSUME [name |-> t, after |-> x.generated] \in ConsumersMade
      PROVE  x.generated \in Needs(t) /\ x.generated # NoTarget
  <2> DEFINE consumer == [name |-> t, after |-> x.generated]
  <2>1. consumer.name = t /\ consumer.after = x.generated
    OBVIOUS
  <2> HIDE DEF consumer
  <2>2. x.generated \in Needs(t)
    BY <1>2, <2>1, Zenon DEF Needs, consumer
  <2>3. x.generated \in GeneratedTargets
    BY <1>2, <2>1 DEF ConsumersMade, consumer
  <2> QED
    BY <2>2, <2>3 DEF GeneratedTargets
<1>3. CASE x.generated = NoTarget
  <2>1. x.target = t /\ o \in HppsOf(x)
    BY <1>1, <1>2, <1>3 DEF Lists
  <2> QED
    BY <1>3, <2>1 DEF Asked, First
<1>4. CASE x.generated # NoTarget
  <2>1. o \in Artifacts(x) /\ First(x) = x.generated
    BY <1>1, <1>4 DEF Lists, Artifacts, First
  <2>2. o \in Asked(x)
    BY <1>4, <2>1 DEF Asked, Artifacts
  <2>3. o \in ListedBy(First(x))
    BY <2>1, ListedByCalls DEF Lists
  <2>4. x.target = t => x.generated \in Needs(t)
    BY <1>4 DEF Needs
  <2> QED
    BY <1>1, <1>2, <2>1, <2>2, <2>3, <2>4 DEF Lists
<1> QED
  BY <1>3, <1>4

\* Two targets that list one output: unless the calls for it compete, one target that
\* lists it stands between them, which each of them is or waits for
\* (add_dependencies).
LEMMA Owner ==
    ASSUME ConfigOK, NEW t \in AllTargets, NEW u \in AllTargets,
           NEW o \in ListedBy(t), o \in ListedBy(u), ~Competing(o)
    PROVE  \E g : /\ o \in ListedBy(g)
                  /\ t = g \/ g \in Needs(t)
                  /\ u = g \/ g \in Needs(u)
<1>1. t # NoTarget /\ u # NoTarget
  BY BuildAssumption DEF AllTargets, GeneratedTargets, ConsumersMade
<1>2. PICK x \in Made : /\ o \in Asked(x) /\ o \in ListedBy(First(x))
                        /\ t = First(x) \/ First(x) \in Needs(t)
  BY <1>1, Lister
<1>3. PICK y \in Made : /\ o \in Asked(y) /\ o \in ListedBy(First(y))
                        /\ u = First(y) \/ First(y) \in Needs(u)
  BY <1>1, Lister
<1>4. First(x) = First(y) \/ First(x) = y.target \/ First(y) = x.target
  BY <1>2, <1>3 DEF Competing
<1>5. ASSUME NEW v, NEW w \in Made, NEW z \in Made, First(w) = z.target,
             v = First(w) \/ First(w) \in Needs(v)
      PROVE  v = z.target /\ (First(z) = z.target \/ First(z) \in Needs(v))
  <2>1. z.target \in Targets /\ \A call \in Made : call.generated \notin Targets
    BY DEF ConfigOK
  <2>2. z.target \notin Needs(v)
    BY <2>1 DEF Needs, ConsumersMade, GeneratedTargets
  <2>3. z.generated # NoTarget /\ v = z.target => z.generated \in Needs(v)
    BY DEF Needs
  <2> QED
    BY <1>5, <2>2, <2>3 DEF First
<1>6. CASE First(x) = First(y)
  BY <1>2, <1>3, <1>6
<1>7. CASE First(x) = y.target
  <2>1. t = First(y) \/ First(y) \in Needs(t)
    BY <1>2, <1>5, <1>7
  <2> QED
    BY <1>3, <2>1
<1>8. CASE First(y) = x.target
  <2>1. u = First(x) \/ First(x) \in Needs(u)
    BY <1>3, <1>5, <1>8
  <2> QED
    BY <1>2, <2>1
<1> QED
  BY <1>4, <1>6, <1>7, <1>8

\* Every output of a call has a rule, and so has every output a target lists.
LEMMA OutputHasRule ==
    ASSUME NEW x \in Made, NEW o \in OutputsOf(x)
    PROVE  \E rule \in Rules : rule.output = o
<1>1. CASE o \in HppsOf(x)
  <2>1. PICK h \in HeadersOf(x) : o = Hpp(h)
    BY <1>1 DEF HppsOf
  <2>2. [output |-> o, header |-> h] \in Rules
    BY <2>1 DEF Rules
  <2> QED
    BY <2>2
<1>2. CASE o \in SchemasOf(x)
  <2>1. PICK h \in HeadersOf(x) : o = Schema(h) /\ x.schemas
    BY <1>2 DEF SchemasOf
  <2>2. [output |-> o, header |-> h] \in Rules
    BY <2>1 DEF Rules
  <2> QED
    BY <2>2
<1> QED
  BY <1>1, <1>2 DEF OutputsOf

LEMMA ListedHasRule ==
    ASSUME NEW t, NEW o \in ListedBy(t)
    PROVE  \E rule \in Rules : rule.output = o
<1>1. PICK x \in Made : o \in OutputsOf(x)
  BY ListedByCalls DEF Lists, Artifacts, OutputsOf
<1> QED
  BY <1>1, OutputHasRule

\* Outputs of rules are outputs of headers that exist.
LEMMA RuleTypes ==
    ASSUME ConfigOK, NEW rule \in Rules
    PROVE  rule.header \in Headers /\ rule.output \in Outputs
<1>1. PICK x \in Made : /\ rule.header \in HeadersOf(x)
                        /\ rule.output \in {Hpp(rule.header), Schema(rule.header)}
  BY RuleOfCall
<1>2. x.headers \in Seq(Headers)
  <2>1. PICK n \in 1 .. c - 1 : x = calls[n]
    BY DEF Made
  <2>2. calls \in Seq(CallRecords)
    BY BuildAssumption DEF ConfigOK, CallRecords
  <2>3. n \in 1 .. Len(calls)
    BY <2>2 DEF ConfigOK
  <2>4. x \in CallRecords
    BY <2>1, <2>2, <2>3
  <2> QED
    BY <2>4 DEF CallRecords
<1>3. rule.header \in Headers
  BY <1>1, <1>2 DEF HeadersOf
<1> QED
  BY <1>1, <1>3 DEF Outputs

\* What the calls have added stays as it is while none is processed.
LEMMA ConfigStable ==
    ASSUME UNCHANGED config
    PROVE  /\ ConfigOK => ConfigOK'
           /\ Made' = Made /\ Rules' = Rules /\ AllTargets' = AllTargets
           /\ \A t : ListedBy(t)' = ListedBy(t) /\ Needs(t)' = Needs(t)
           /\ \A o : HeaderOf(o)' = HeaderOf(o)
<1>1. calls' = calls /\ c' = c
  BY DEF config
<1>2. Made' = Made
  BY <1>1 DEF Made
<1>3. Rules' = Rules
  BY <1>2 DEF Rules
<1>4. GeneratedTargets' = GeneratedTargets /\ ConsumersMade' = ConsumersMade
  BY <1>2 DEF GeneratedTargets, ConsumersMade
<1>5. AllTargets' = AllTargets
  BY <1>4 DEF AllTargets
<1>6. \A t : ListedBy(t)' = ListedBy(t) /\ Needs(t)' = Needs(t)
  BY <1>2, <1>4 DEF ListedBy, Needs
<1>7. \A o : HeaderOf(o)' = HeaderOf(o)
  BY <1>3 DEF HeaderOf
<1>8. ConfigOK => ConfigOK'
  BY <1>1, <1>2 DEF ConfigOK
<1> QED
  BY <1>2, <1>3, <1>5, <1>6, <1>7, <1>8

-----------------------------------------------------------------------------
(* The steps.                                                              *)

LEMMA BuildInitially == BuildInit => BuildIInv
<1> SUFFICES ASSUME BuildInit PROVE BuildIInv
  OBVIOUS
<1>1. calls \in Configurations /\ Len(calls) \in Nat
  BY BuildAssumption DEF BuildInit
<1>2. Made = {}
  BY DEF BuildInit, Made
<1>3. ConfigOK
  BY <1>1, <1>2 DEF BuildInit, ConfigOK
<1>4. BuildTypeOK
  BY BuildAssumption DEF BuildInit, BuildTypeOK
<1>5. BuildOK /\ OutputsOK
  BY DEF BuildInit, BuildOK, OutputsOK
<1> QED
  BY <1>3, <1>4, <1>5 DEF BuildIInv

\* A call that is not refused brings no second header for an output.
LEMMA Configuring == ASSUME BuildIInv, CallCjmGenerate PROVE BuildIInv'
<1>1. BuildTypeOK'
  BY DEF BuildIInv, BuildTypeOK, CallCjmGenerate, world, outputs, build
<1>2. BuildOK' /\ OutputsOK'
  BY DEF CallCjmGenerate, BuildOK, OutputsOK
<1>3. CASE Refused(calls[c])
  <2>1. UNCHANGED config
    BY <1>3 DEF CallCjmGenerate, config
  <2> QED
    BY <1>1, <1>2, <2>1, ConfigStable DEF BuildIInv
<1>4. CASE ~Refused(calls[c])
  <2> DEFINE new == calls[c]
  <2>1. /\ calls' = calls /\ c' = c + 1
        /\ c \in 1 .. Len(calls) /\ Len(calls) \in Nat
    BY <1>4, BuildAssumption DEF CallCjmGenerate, BuildIInv, ConfigOK
  <2>2. Made' = Made \cup {new}
    BY <2>1 DEF Made
  <2>3. /\ new.target \in Targets /\ new.generated \notin Targets
        /\ \A g, h \in HeadersOf(new) : Base[g] = Base[h] => g = h
        /\ \A g \in HeadersOf(new) : \A rule \in Rules :
              Base[g] = Base[rule.header] => g = rule.header
    BY <1>4, BuildAssumption DEF Refused, OutputsCollide
  <2> HIDE DEF new
  <2>4. ASSUME NEW x \in Made, NEW h \in HeadersOf(x)
        PROVE  \E rule \in Rules : rule.header = h
    <3>1. [output |-> Hpp(h), header |-> h] \in Rules
      BY DEF Rules
    <3> QED
      BY <3>1
  <2>5. \A x \in Made : \A g \in HeadersOf(x), h \in HeadersOf(new) : Base[g] = Base[h] => g = h
    BY <2>3, <2>4
  <2>6. ConfigOK'
    <3>1. calls' \in Configurations /\ c' \in 1 .. Len(calls') + 1
      BY <2>1 DEF BuildIInv, ConfigOK
    <3>2. \A x \in Made' : x.target \in Targets /\ x.generated \notin Targets
      BY <2>2, <2>3 DEF BuildIInv, ConfigOK
    <3>3. \A x, y \in Made' : \A g \in HeadersOf(x), h \in HeadersOf(y) :
             Base[g] = Base[h] => g = h
      <4>1. SUFFICES ASSUME NEW x \in Made', NEW y \in Made',
                            NEW g \in HeadersOf(x), NEW h \in HeadersOf(y), Base[g] = Base[h]
                     PROVE  g = h
        OBVIOUS
      <4>2. CASE x \in Made /\ y \in Made
        BY <4>1, <4>2 DEF BuildIInv, ConfigOK
      <4> QED
        BY <2>2, <2>3, <2>5, <4>1, <4>2
    <3> QED
      BY <3>1, <3>2, <3>3 DEF ConfigOK
  <2> QED
    BY <1>1, <1>2, <2>6 DEF BuildIInv
<1> QED
  BY <1>3, <1>4

\* What outputs hold and whether they are honest, when nothing of it changes.
LEMMA SameOutputs ==
    ASSUME OutputsOK, UNCHANGED <<config, world, outputs>>,
           phase' \in {"idle", "build"} => phase \in {"idle", "build"}
    PROVE  OutputsOK'
<1>1. Rules' = Rules /\ \A o : HeaderOf(o)' = HeaderOf(o)
  BY ConfigStable
<1>2. \A o : Honest(o)' = Honest(o)
  BY <1>1 DEF Honest, Current, world, outputs
<1> QED
  BY <1>1, <1>2 DEF OutputsOK

LEMMA Configured == ASSUME BuildIInv, EndConfigure PROVE BuildIInv'
<1>1. ConfigOK' /\ Rules' = Rules /\ AllTargets' = AllTargets
  BY ConfigStable DEF BuildIInv, EndConfigure
<1>2. c = Len(calls) + 1
  BY BuildAssumption DEF BuildIInv, ConfigOK, EndConfigure
<1>3. BuildTypeOK'
  BY <1>1, <1>2 DEF BuildIInv, BuildTypeOK, Procs, EndConfigure, config, world, outputs, build
<1>4. OutputsOK'
  BY <1>1, RuleTypes DEF BuildIInv, BuildTypeOK, OutputsOK, Honest, EndConfigure, outputs
<1> QED
  BY <1>1, <1>3, <1>4 DEF BuildIInv, BuildOK, EndConfigure

LEMMA Starting == ASSUME BuildIInv, StartBuild PROVE BuildIInv'
<1>1. ConfigOK' /\ AllTargets' = AllTargets
  BY ConfigStable DEF BuildIInv, StartBuild
<1>2. BuildTypeOK'
  BY <1>1 DEF BuildIInv, BuildTypeOK, Procs, StartBuild, config, world, outputs
<1>3. BuildOK'
  BY DEF StartBuild, BuildOK, ProcsOK, WaitersOK, TargetsOK, CheckedOK
<1>4. OutputsOK'
  BY SameOutputs DEF BuildIInv, StartBuild
<1> QED
  BY <1>1, <1>2, <1>3, <1>4 DEF BuildIInv

\* The end of a build and a crash.
LEMMA Stopping ==
    ASSUME BuildIInv, UNCHANGED <<config, world, outputs>>,
           phase = "build", phase' = "idle", procs' = {}, compiling' = {}
    PROVE  BuildIInv'
<1>1. ConfigOK' /\ AllTargets' = AllTargets
  BY ConfigStable DEF BuildIInv
<1>2. BuildTypeOK'
  BY <1>1 DEF BuildIInv, BuildTypeOK, Procs, config, world, outputs
<1>3. OutputsOK'
  BY SameOutputs DEF BuildIInv
<1> QED
  BY <1>1, <1>2, <1>3 DEF BuildIInv, BuildOK

\* When a build is over, nothing runs any more.
LEMMA NothingRuns ==
    ASSUME BuildIInv, phase = "build", Over
    PROVE  procs = {} /\ compiling = {}
<1>1. CASE done = AllTargets
  <2>1. \A p \in procs : p.target \in AllTargets
    BY DEF BuildIInv, BuildTypeOK, Procs
  <2>2. procs = {}
    BY <1>1, <2>1 DEF BuildIInv, BuildOK, TargetsOK
  <2> QED
    BY <1>1, <2>2 DEF BuildIInv, BuildOK, TargetsOK
<1> QED
  BY <1>1 DEF Over

\* The header of a running tool exists, and the tool runs in a build.
LEMMA Running ==
    ASSUME BuildIInv, NEW p \in procs
    PROVE  /\ phase = "build" /\ ProcsOK /\ WaitersOK /\ TargetsOK /\ CheckedOK
           /\ p.output \in Outputs /\ p.target \in AllTargets
           /\ HeaderOf(p.output) \in Headers
           /\ header[HeaderOf(p.output)] \in Versions
<1>1. phase = "build" /\ p \in Procs
  BY DEF BuildIInv, BuildTypeOK
<1>2. ProcsOK /\ WaitersOK /\ TargetsOK /\ CheckedOK
  BY <1>1 DEF BuildIInv, BuildOK
<1>3. PICK rule \in Rules : rule.output = p.output
  BY <1>2, ListedHasRule DEF ProcsOK
<1>4. HeaderOf(p.output) = rule.header /\ rule.header \in Headers
  BY <1>3, HeaderOfRule, RuleTypes DEF BuildIInv
<1> QED
  BY <1>1, <1>2, <1>4 DEF Procs, BuildIInv, BuildTypeOK

\* An output that a waiting target finds outdated has been edited after the
\* target it waits for was done.
LEMMA Checking ==
    ASSUME BuildIInv, NEW t \in AllTargets, NEW o \in ListedBy(t), Check(t, o)
    PROVE  BuildIInv'
<1>1. /\ ConfigOK' /\ AllTargets' = AllTargets
      /\ \A u : ListedBy(u)' = ListedBy(u) /\ Needs(u)' = Needs(u)
      /\ \A u : HeaderOf(u)' = HeaderOf(u)
  BY ConfigStable DEF BuildIInv, Check
<1>2. phase = "build" /\ ProcsOK /\ WaitersOK /\ TargetsOK /\ CheckedOK
  BY DEF BuildIInv, BuildOK, Check
<1> DEFINE new == [target |-> t, output |-> o, at |-> "started", version |-> 0, by |-> 0]
<1>3. /\ procs' = procs \/ (o \in newer /\ procs' = procs \cup {new})
      /\ o \in newer => procs' = procs \cup {new}
      /\ checked' = checked \cup {<<t, o>>} /\ <<t, o>> \notin checked
      /\ Needs(t) \subseteq done
      /\ edited' = edited /\ newer' = newer /\ done' = done /\ compiling' = compiling
      /\ failed' = failed /\ ~failed /\ phase' = phase /\ tool' = tool
  BY DEF Check, Ready, outputs, world
<1>4. new.target = t /\ new.output = o /\ new.at = "started"
  OBVIOUS
<1>5. o \in Outputs
  <2>1. \E rule \in Rules : rule.output = o
    BY ListedHasRule
  <2> QED
    BY <2>1, RuleTypes DEF BuildIInv
<1>6. BuildTypeOK'
  <2>1. new \in Procs
    BY <1>5 DEF Procs
  <2>2. procs' \subseteq Procs
    BY <1>3, <2>1 DEF BuildIInv, BuildTypeOK
  <2>3. Procs' = Procs
    BY <1>1 DEF Procs
  <2> HIDE DEF new
  <2> QED
    BY <1>2, <2>2, <2>3 DEF BuildIInv, BuildTypeOK, Check, config, world, outputs
<1> HIDE DEF new
<1>7. ProcsOK'
  <2>1. \A p \in procs' : /\ p.output \in ListedBy(p.target)'
                          /\ <<p.target, p.output>> \in checked'
                          /\ Needs(p.target)' \subseteq done'
                          /\ p.at # "started" => p.by = tool'
    BY <1>1, <1>2, <1>3, <1>4 DEF ProcsOK, Ready
  <2>2. \A p \in procs : ~(p.target = t /\ p.output = o)
    BY <1>2, <1>3 DEF ProcsOK
  <2>3. \A p, q \in procs' : p.target = q.target /\ p.output = q.output => p = q
    BY <1>2, <1>3, <1>4, <2>2 DEF ProcsOK
  <2> QED
    BY <2>1, <2>3 DEF ProcsOK, Ready
<1>8. WaitersOK'
  <2>1. ASSUME NEW g \in Needs(t), o \in ListedBy(g), o \in newer
        PROVE  HeaderOf(o) \in edited
    BY <1>2, <1>3, <2>1 DEF TargetsOK, UpToDate
  <2> QED
    BY <1>1, <1>2, <1>3, <1>4, <2>1 DEF WaitersOK
<1>9. TargetsOK'
  <2>1. t \notin compiling \cup done
    BY <1>2, <1>3 DEF TargetsOK
  <2> QED
    BY <1>1, <1>2, <1>3, <1>4, <2>1 DEF TargetsOK, UpToDate, Ready
<1>10. CheckedOK'
  <2>1. SUFFICES ASSUME NEW u \in AllTargets, NEW w \in ListedBy(u), <<u, w>> \in checked'
                 PROVE  \/ \E p \in procs' : p.target = u /\ p.output = w
                        \/ UpToDate(w)'
    BY <1>1 DEF CheckedOK
  <2>2. CASE <<u, w>> \in checked
    BY <1>1, <1>2, <1>3, <2>2 DEF CheckedOK, UpToDate
  <2>3. CASE u = t /\ w = o
    <3>1. CASE o \in newer
      BY <1>3, <1>4, <2>3, <3>1
    <3> QED
      BY <1>3, <2>3, <3>1 DEF UpToDate
  <2> QED
    BY <1>3, <2>1, <2>2, <2>3
<1>11. OutputsOK'
  BY SameOutputs DEF BuildIInv, Check
<1> QED
  BY <1>1, <1>6, <1>7, <1>8, <1>9, <1>10, <1>11 DEF BuildIInv, BuildOK

\* The tool refuses the header, or goes on with what it holds now.
LEMMA Reading == ASSUME BuildIInv, NEW p \in procs, ReadHeader(p) PROVE BuildIInv'
<1>1. /\ ConfigOK' /\ AllTargets' = AllTargets
      /\ \A u : ListedBy(u)' = ListedBy(u) /\ Needs(u)' = Needs(u)
      /\ \A u : HeaderOf(u)' = HeaderOf(u)
  BY ConfigStable DEF BuildIInv, ReadHeader
<1>2. /\ phase = "build" /\ ProcsOK /\ WaitersOK /\ TargetsOK /\ CheckedOK
      /\ p \in Procs /\ header[HeaderOf(p.output)] \in Versions /\ tool \in Nat
  BY Running DEF BuildIInv, BuildTypeOK
<1>3. /\ edited' = edited /\ newer' = newer /\ done' = done /\ compiling' = compiling
      /\ phase' = phase /\ tool' = tool /\ checked' = checked
  BY DEF ReadHeader, outputs, world
<1>4. OutputsOK'
  BY SameOutputs DEF BuildIInv, ReadHeader
<1>5. Procs' = Procs
  BY <1>1 DEF Procs
<1>6. CASE header[HeaderOf(p.output)] \in Bad
  <2>1. procs' = procs \ {p} /\ failed' = TRUE
    BY <1>6 DEF ReadHeader
  <2>2. BuildTypeOK'
    BY <1>2, <1>5, <2>1 DEF BuildIInv, BuildTypeOK, ReadHeader, config, world, outputs
  <2>3. ProcsOK' /\ WaitersOK'
    BY <1>1, <1>2, <1>3, <2>1 DEF ProcsOK, WaitersOK, Ready
  <2>4. TargetsOK' /\ CheckedOK'
    BY <1>1, <1>2, <1>3, <2>1 DEF TargetsOK, CheckedOK, UpToDate, Ready
  <2> QED
    BY <1>1, <1>4, <2>2, <2>3, <2>4 DEF BuildIInv, BuildOK
<1>7. CASE header[HeaderOf(p.output)] \notin Bad
  <2> DEFINE q == [p EXCEPT !.at = "read", !.version = header[HeaderOf(p.output)],
                            !.by = tool]
  <2>1. procs' = (procs \ {p}) \cup {q} /\ failed' = failed
    BY <1>7 DEF ReadHeader, Advance
  <2>2. q.target = p.target /\ q.output = p.output /\ q.by = tool /\ q \in Procs
    BY <1>2 DEF Procs
  <2> HIDE DEF q
  <2>3. BuildTypeOK'
    BY <1>2, <1>5, <2>1, <2>2 DEF BuildIInv, BuildTypeOK, ReadHeader, config, world, outputs
  <2>4. ProcsOK' /\ WaitersOK'
    BY <1>1, <1>2, <1>3, <2>1, <2>2 DEF ProcsOK, WaitersOK, Ready
  <2>5. TargetsOK' /\ CheckedOK'
    BY <1>1, <1>2, <1>3, <2>1, <2>2 DEF TargetsOK, CheckedOK, UpToDate, Ready
  <2> QED
    BY <1>1, <1>4, <2>3, <2>4, <2>5 DEF BuildIInv, BuildOK
<1> QED
  BY <1>6, <1>7

\* The output is torn from now on, and looks up to date.
LEMMA Truncating == ASSUME BuildIInv, NEW p \in procs, Truncate(p) PROVE BuildIInv'
<1>1. /\ ConfigOK' /\ AllTargets' = AllTargets /\ Rules' = Rules
      /\ \A u : ListedBy(u)' = ListedBy(u) /\ Needs(u)' = Needs(u)
      /\ \A u : HeaderOf(u)' = HeaderOf(u)
  BY ConfigStable DEF BuildIInv, Truncate
<1>2. /\ phase = "build" /\ ProcsOK /\ WaitersOK /\ TargetsOK /\ CheckedOK
      /\ p \in Procs /\ p.output \in Outputs
  BY Running DEF BuildIInv, BuildTypeOK
<1>3. /\ edited' = edited /\ newer' = newer \ {p.output} /\ done' = done
      /\ compiling' = compiling /\ failed' = failed /\ phase' = phase
      /\ header' = header /\ tool' = tool /\ checked' = checked /\ raced' = raced
  BY DEF Truncate, world
<1>4. out' = [out EXCEPT ![p.output] = Torn]
  BY DEF Truncate
<1>5. \A o : o # p.output /\ o \in Outputs => out'[o] = out[o]
  BY <1>4 DEF BuildIInv, BuildTypeOK
<1>6. DOMAIN out' = Outputs /\ out'[p.output] = Torn
  BY <1>2, <1>4 DEF BuildIInv, BuildTypeOK
<1> DEFINE q == [p EXCEPT !.at = "truncated"]
<1>7. procs' = (procs \ {p}) \cup {q}
  BY DEF Truncate, Advance
<1>8. /\ q.target = p.target /\ q.output = p.output /\ q.by = p.by /\ q \in Procs
      /\ p.at # "started"
  BY <1>2 DEF Procs, Truncate
<1> HIDE DEF q
<1>9. BuildTypeOK'
  <2>1. Procs' = Procs
    BY <1>1 DEF Procs
  <2> QED
    BY <1>2, <1>3, <1>6, <1>7, <1>8, <2>1 DEF BuildIInv, BuildTypeOK, Truncate, config, world
<1>10. ProcsOK' /\ WaitersOK'
  BY <1>1, <1>2, <1>3, <1>7, <1>8 DEF ProcsOK, WaitersOK, Ready
<1>11. TargetsOK' /\ CheckedOK'
  BY <1>1, <1>2, <1>3, <1>7, <1>8 DEF TargetsOK, CheckedOK, UpToDate, Ready
<1>12. OutputsOK'
  <2>1. SUFFICES ASSUME NEW rule \in Rules PROVE Honest(rule.output)'
    BY <1>1 DEF OutputsOK
  <2>2. Honest(rule.output) /\ rule.output \in Outputs
    BY <1>2, RuleTypes DEF BuildIInv, OutputsOK
  <2> QED
    BY <1>1, <1>3, <1>5, <1>6, <2>2 DEF Honest, Current
<1> QED
  BY <1>1, <1>9, <1>10, <1>11, <1>12 DEF BuildIInv, BuildOK

\* What is written is what the tool has read, which is current unless the header
\* has changed since.
LEMMA Writing == ASSUME BuildIInv, NEW p \in procs, Write(p) PROVE BuildIInv'
<1>1. /\ ConfigOK' /\ AllTargets' = AllTargets /\ Rules' = Rules
      /\ \A u : ListedBy(u)' = ListedBy(u) /\ Needs(u)' = Needs(u)
      /\ \A u : HeaderOf(u)' = HeaderOf(u)
  BY ConfigStable DEF BuildIInv, Write
<1>2. /\ phase = "build" /\ ProcsOK /\ WaitersOK /\ TargetsOK /\ CheckedOK
      /\ p \in Procs /\ p.output \in Outputs /\ p.by = tool
  BY Running DEF BuildIInv, BuildTypeOK, ProcsOK, Write
<1>3. /\ edited' = edited /\ newer' = newer \ {p.output} /\ done' = done
      /\ compiling' = compiling /\ failed' = failed /\ phase' = phase
      /\ header' = header /\ tool' = tool /\ checked' = checked
      /\ procs' = procs \ {p}
      /\ raced' = IF p.version = header[HeaderOf(p.output)]
                  THEN raced \ {p.output} ELSE raced \cup {p.output}
  BY DEF Write, world
<1>4. PICK content \in {Whole(p.version, p.by), Torn} :
         out' = [out EXCEPT ![p.output] = content]
  BY DEF Write
<1>5. \A o : o # p.output /\ o \in Outputs => out'[o] = out[o]
  BY <1>4 DEF BuildIInv, BuildTypeOK
<1>6. DOMAIN out' = Outputs /\ out'[p.output] = content
  BY <1>2, <1>4 DEF BuildIInv, BuildTypeOK
<1>7. BuildTypeOK'
  <2>1. Procs' = Procs
    BY <1>1 DEF Procs
  <2> QED
    BY <1>2, <1>3, <1>6, <2>1 DEF BuildIInv, BuildTypeOK, Write, config, world
<1>8. ProcsOK' /\ WaitersOK'
  BY <1>1, <1>2, <1>3 DEF ProcsOK, WaitersOK, Ready
<1>9. TargetsOK' /\ CheckedOK'
  BY <1>1, <1>2, <1>3 DEF TargetsOK, CheckedOK, UpToDate, Ready
<1>10. OutputsOK'
  <2>1. SUFFICES ASSUME NEW rule \in Rules PROVE Honest(rule.output)'
    BY <1>1 DEF OutputsOK
  <2>2. Honest(rule.output) /\ rule.output \in Outputs
    BY <1>2, RuleTypes DEF BuildIInv, OutputsOK
  <2>3. CASE rule.output = p.output
    <3>1. CASE p.version = header[HeaderOf(p.output)]
      BY <1>1, <1>2, <1>3, <1>4, <1>6, <2>3, <3>1 DEF Honest, Current
    <3> QED
      BY <1>3, <2>3, <3>1 DEF Honest
  <2>4. CASE rule.output # p.output
    BY <1>1, <1>3, <1>5, <2>2, <2>4 DEF Honest, Current
  <2> QED
    BY <2>3, <2>4
<1> QED
  BY <1>1, <1>7, <1>8, <1>9, <1>10 DEF BuildIInv, BuildOK

\* A target compiles once the tool has returned for all it lists.
LEMMA Compiling == ASSUME BuildIInv, NEW t \in AllTargets, Compile(t) PROVE BuildIInv'
<1>1. /\ ConfigOK' /\ AllTargets' = AllTargets
      /\ \A u : ListedBy(u)' = ListedBy(u) /\ Needs(u)' = Needs(u)
      /\ \A u : HeaderOf(u)' = HeaderOf(u)
  BY ConfigStable DEF BuildIInv, Compile
<1>2. phase = "build" /\ ProcsOK /\ WaitersOK /\ TargetsOK /\ CheckedOK
  BY DEF BuildIInv, BuildOK, Compile
<1>3. /\ edited' = edited /\ newer' = newer /\ done' = done /\ failed' = failed
      /\ phase' = phase /\ tool' = tool /\ checked' = checked /\ procs' = procs
      /\ compiling' = compiling \cup {t}
  BY DEF Compile, outputs, world
<1>4. BuildTypeOK'
  <2>1. Procs' = Procs
    BY <1>1 DEF Procs
  <2> QED
    BY <1>2, <1>3, <2>1 DEF BuildIInv, BuildTypeOK, Compile, config, world, outputs
<1>5. ProcsOK' /\ WaitersOK' /\ CheckedOK'
  BY <1>1, <1>2, <1>3 DEF ProcsOK, WaitersOK, CheckedOK, UpToDate, Ready
<1>6. /\ t \notin done /\ Ready(t) /\ \A p \in procs : p.target # t
      /\ \A o \in ListedBy(t) : <<t, o>> \in checked /\ UpToDate(o)
  BY <1>2 DEF Compile, CheckedOK
<1>7. TargetsOK'
  BY <1>1, <1>2, <1>3, <1>6 DEF TargetsOK, UpToDate, Ready
<1>8. OutputsOK'
  BY SameOutputs DEF BuildIInv, Compile
<1> QED
  BY <1>1, <1>4, <1>5, <1>7, <1>8 DEF BuildIInv, BuildOK

LEMMA Finishing == ASSUME BuildIInv, NEW t \in AllTargets, Compiled(t) PROVE BuildIInv'
<1>1. /\ ConfigOK' /\ AllTargets' = AllTargets
      /\ \A u : ListedBy(u)' = ListedBy(u) /\ Needs(u)' = Needs(u)
      /\ \A u : HeaderOf(u)' = HeaderOf(u)
  BY ConfigStable DEF BuildIInv, Compiled
<1>2. /\ phase = "build" /\ t \in compiling
      /\ ProcsOK /\ WaitersOK /\ TargetsOK /\ CheckedOK
  BY DEF BuildIInv, BuildTypeOK, BuildOK, Compiled
<1>3. /\ edited' = edited /\ newer' = newer /\ done' = done \cup {t} /\ failed' = failed
      /\ phase' = phase /\ tool' = tool /\ checked' = checked /\ procs' = procs
      /\ compiling' = compiling \ {t}
  BY DEF Compiled, outputs, world
<1>4. BuildTypeOK'
  <2>1. Procs' = Procs
    BY <1>1 DEF Procs
  <2> QED
    BY <1>2, <1>3, <2>1 DEF BuildIInv, BuildTypeOK, Compiled, config, world, outputs
<1>5. ProcsOK' /\ WaitersOK' /\ CheckedOK'
  BY <1>1, <1>2, <1>3 DEF ProcsOK, WaitersOK, CheckedOK, UpToDate, Ready
<1>6. TargetsOK'
  BY <1>1, <1>2, <1>3 DEF TargetsOK, UpToDate, Ready
<1>7. OutputsOK'
  BY SameOutputs DEF BuildIInv, Compiled
<1> QED
  BY <1>1, <1>4, <1>5, <1>6, <1>7 DEF BuildIInv, BuildOK

\* An edit makes the outputs of the header outdated, and is remembered.
LEMMA Editing == ASSUME BuildIInv, NEW rule \in Rules, Edit(rule.header) PROVE BuildIInv'
<1> DEFINE h == rule.header
<1>1. /\ ConfigOK' /\ AllTargets' = AllTargets /\ Rules' = Rules
      /\ \A u : ListedBy(u)' = ListedBy(u) /\ Needs(u)' = Needs(u)
      /\ \A u : HeaderOf(u)' = HeaderOf(u)
  BY ConfigStable DEF BuildIInv, Edit
<1>2. h \in Headers /\ h # "cjm"
  BY RuleTypes, BuildAssumption DEF BuildIInv
<1>3. /\ edited' = edited \cup {h} /\ newer' = newer \cup Outdated(h) /\ done' = done
      /\ compiling' = compiling /\ failed' = failed /\ phase' = phase /\ procs' = procs
      /\ tool' = tool /\ checked' = checked /\ raced' = raced /\ out' = out
      /\ phase \in {"idle", "build"}
  BY DEF Edit
<1>4. PICK version \in Versions : header' = [header EXCEPT ![h] = version]
  BY DEF Edit
<1>5. header' \in [Headers -> Versions]
      /\ \A x \in Headers : x # h => header'[x] = header[x]
  BY <1>2, <1>4 DEF BuildIInv, BuildTypeOK
<1>6. \A r \in Rules : /\ r.header = h => r.output \in Outdated(h)
                       /\ HeaderOf(r.output) = r.header /\ r.header \in Headers
  BY HeaderOfRule, RuleTypes DEF Outdated, DependsOn, BuildIInv
<1>7. \A o \in Outdated(h) : HeaderOf(o) = h
  BY <1>2, <1>6 DEF Outdated, DependsOn
<1> HIDE DEF h
<1>8. \A o : UpToDate(o) => UpToDate(o)'
  BY <1>1, <1>3, <1>7 DEF UpToDate
<1>9. BuildTypeOK'
  <2>1. Procs' = Procs
    BY <1>1 DEF Procs
  <2> QED
    BY <1>3, <1>5, <2>1 DEF BuildIInv, BuildTypeOK, Edit, config
<1>10. BuildOK'
  <2>1. SUFFICES ASSUME phase = "build"
                 PROVE  ProcsOK' /\ WaitersOK' /\ TargetsOK' /\ CheckedOK'
    BY <1>3 DEF BuildOK
  <2>2. ProcsOK /\ WaitersOK /\ TargetsOK /\ CheckedOK
    BY <2>1 DEF BuildIInv, BuildOK
  <2>3. ProcsOK' /\ WaitersOK'
    BY <1>1, <1>3, <2>2 DEF ProcsOK, WaitersOK, Ready
  <2>4. TargetsOK'
    BY <1>1, <1>3, <1>8, <2>2 DEF TargetsOK, Ready
  <2>5. CheckedOK'
    BY <1>1, <1>3, <1>8, <2>2 DEF CheckedOK
  <2> QED
    BY <2>3, <2>4, <2>5
<1>11. OutputsOK'
  <2>1. SUFFICES ASSUME NEW r \in Rules PROVE Honest(r.output)'
    BY <1>1 DEF OutputsOK
  <2>2. Honest(r.output)
    BY <1>3 DEF BuildIInv, OutputsOK
  <2>3. CASE r.header = h
    BY <1>3, <1>6, <2>3 DEF Honest
  <2>4. CASE r.header # h
    BY <1>1, <1>3, <1>5, <1>6, <2>2, <2>4 DEF Honest, Current
  <2> QED
    BY <2>3, <2>4
<1> QED
  BY <1>1, <1>9, <1>10, <1>11 DEF BuildIInv

\* A new tool makes every output outdated.
LEMMA Upgrading == ASSUME BuildIInv, ChangeTool PROVE BuildIInv'
<1>1. /\ ConfigOK' /\ AllTargets' = AllTargets /\ Rules' = Rules
  BY ConfigStable DEF BuildIInv, ChangeTool
<1>2. BuildTypeOK'
  BY <1>1 DEF BuildIInv, BuildTypeOK, Procs, ChangeTool, config, build
<1>3. OutputsOK'
  BY <1>1 DEF OutputsOK, Honest, ChangeTool, Outdated, DependsOn
<1> QED
  BY <1>1, <1>2, <1>3 DEF BuildIInv, BuildOK, ChangeTool

-----------------------------------------------------------------------------
(* The invariant and what follows from it.                                 *)

LEMMA BuildSteps == BuildIInv /\ [BuildNext]_buildVars => BuildIInv'
<1> SUFFICES ASSUME BuildIInv, [BuildNext]_buildVars PROVE BuildIInv'
  OBVIOUS
<1>1. CASE CallCjmGenerate \/ EndConfigure \/ StartBuild \/ ChangeTool
  BY <1>1, Configuring, Configured, Starting, Upgrading
<1>2. CASE EndBuild
  BY <1>2, NothingRuns, Stopping DEF EndBuild, build
<1>3. CASE Crash
  BY <1>3, Stopping DEF Crash
<1>4. CASE \E t \in AllTargets : Compile(t) \/ Compiled(t) \/ \E o \in ListedBy(t) : Check(t, o)
  BY <1>4, Compiling, Finishing, Checking
<1>5. CASE \E p \in procs : ReadHeader(p) \/ Truncate(p) \/ Write(p)
  BY <1>5, Reading, Truncating, Writing
<1>6. CASE \E h \in {rule.header : rule \in Rules} : Edit(h)
  BY <1>6, Editing
<1>7. CASE UNCHANGED buildVars \/ Refusal
  <2>1. UNCHANGED buildVars
    BY <1>7 DEF Refusal
  <2>2. /\ UNCHANGED <<config, world, outputs, build>> /\ phase' = phase
    BY <2>1 DEF buildVars
  <2>3. /\ ConfigOK' /\ AllTargets' = AllTargets
        /\ \A u : ListedBy(u)' = ListedBy(u) /\ Needs(u)' = Needs(u)
        /\ \A u : HeaderOf(u)' = HeaderOf(u)
    BY <2>2, ConfigStable DEF BuildIInv
  <2>4. OutputsOK'
    BY <2>2, SameOutputs DEF BuildIInv
  <2>5. BuildTypeOK'
    BY <2>2, <2>3 DEF BuildIInv, BuildTypeOK, Procs, config, world, outputs, build
  <2>6. BuildOK'
    BY <2>2, <2>3 DEF BuildIInv, BuildOK, ProcsOK, WaitersOK, TargetsOK, CheckedOK, UpToDate,
                      Ready, world, outputs, build
  <2> QED
    BY <2>3, <2>4, <2>5, <2>6 DEF BuildIInv
<1> QED
  BY <1>1, <1>2, <1>3, <1>4, <1>5, <1>6, <1>7 DEF BuildNext, BuildStep

LEMMA BuildInvariant == BuildSpec => []BuildIInv
BY BuildInitially, BuildSteps, PTL DEF BuildSpec

\* Two targets that list an output: if one runs the tool for it and the other one has
\* been able to start, then the header has been edited or the calls for it compete.
LEMMA Meeting ==
    ASSUME BuildIInv, NEW p \in procs, NEW u \in AllTargets, p.target # u,
           p.output \in ListedBy(u), Ready(u),
           u \in compiling \/ \E q \in procs : q.target = u /\ q.output = p.output
    PROVE  HeaderOf(p.output) \in edited \/ Competing(p.output)
<1> SUFFICES ASSUME ~Competing(p.output) PROVE HeaderOf(p.output) \in edited
  OBVIOUS
<1>1. /\ ProcsOK /\ WaitersOK /\ TargetsOK /\ p.target \in AllTargets
      /\ p.output \in ListedBy(p.target) /\ Ready(p.target)
  BY Running DEF ProcsOK
<1>2. PICK g : /\ p.output \in ListedBy(g)
               /\ p.target = g \/ g \in Needs(p.target)
               /\ u = g \/ g \in Needs(u)
  BY <1>1, Owner DEF BuildIInv
<1>3. CASE g \in Needs(p.target)
  BY <1>1, <1>2, <1>3 DEF WaitersOK
<1>4. CASE p.target = g
  <2>1. g \in Needs(u)
    BY <1>2, <1>4
  <2>2. g \in done
    BY <2>1 DEF Ready
  <2> QED
    BY <1>1, <1>4, <2>2 DEF TargetsOK
<1> QED
  BY <1>2, <1>3, <1>4

\* No two calls of the tool write one output, for every directory whose calls CMake
\* accepts; the reserves are an edit of the header in the middle of the build, and two
\* calls for the header whose targets do not wait for each other.
THEOREM OneWriter == BuildSpec => []OneWriterPerOutput
<1>1. BuildIInv => OneWriterPerOutput
  <2>1. SUFFICES ASSUME BuildIInv, NEW p \in procs, NEW q \in procs, p # q, p.output = q.output
                 PROVE  HeaderOf(p.output) \in edited \/ Competing(p.output)
    BY DEF OneWriterPerOutput
  <2>2. ProcsOK /\ q.target \in AllTargets
    BY <2>1, Running
  <2>3. p.target # q.target
    BY <2>1, <2>2 DEF ProcsOK
  <2>4. p.output \in ListedBy(q.target) /\ Ready(q.target)
    BY <2>1, <2>2 DEF ProcsOK
  <2> QED
    BY <2>1, <2>2, <2>3, <2>4, Meeting
<1> QED
  BY <1>1, BuildInvariant, PTL

\* Nobody compiles against a header that is being generated, with those reserves.
THEOREM QuietCompilation == BuildSpec => []CompileSeesNoWriter
<1>1. BuildIInv => CompileSeesNoWriter
  <2>1. SUFFICES ASSUME BuildIInv, NEW t \in compiling, NEW p \in procs, p.output \in ListedBy(t)
                 PROVE  HeaderOf(p.output) \in edited \/ Competing(p.output)
    BY DEF CompileSeesNoWriter
  <2>2. TargetsOK
    BY <2>1, Running
  <2>3. t \in AllTargets /\ Ready(t) /\ p.target # t
    BY <2>2 DEF TargetsOK
  <2> QED
    BY <2>1, <2>3, Meeting
<1> QED
  BY <1>1, BuildInvariant, PTL

\* A build that succeeds leaves every output of every call current, up to the
\* exceptions that SuccessMeansCurrent names.
THEOREM SuccessHolds == BuildSpec => SuccessMeansCurrent
<1> DEFINE Promise ==
      EndBuild /\ ~failed =>
          \A n \in DOMAIN calls : \A o \in Asked(calls[n]) :
              \/ Current(o)
              \/ out[o] = Torn
              \/ o \in raced
              \/ HeaderOf(o) \in edited
<1>1. ASSUME BuildIInv PROVE Promise
  <2>1. SUFFICES ASSUME EndBuild, ~failed, NEW n \in DOMAIN calls, NEW o \in Asked(calls[n])
                 PROVE  Current(o) \/ out[o] = Torn \/ o \in raced \/ HeaderOf(o) \in edited
    OBVIOUS
  <2>2. /\ phase = "build" /\ done = AllTargets /\ TargetsOK /\ OutputsOK
        /\ c = Len(calls) + 1
    BY <1>1, <2>1 DEF EndBuild, Over, BuildIInv, BuildOK, BuildTypeOK
  <2> DEFINE x == calls[n]
  <2>3. x \in Made
    BY <1>1, <2>1, <2>2, BuildAssumption DEF Made, BuildIInv, ConfigOK
  <2> HIDE DEF x
  <2>4. o \in OutputsOf(x)
    BY <2>1 DEF Asked, OutputsOf, x
  <2>5. \E t \in AllTargets : o \in ListedBy(t)
    <3>1. CASE x.generated = NoTarget
      <4>1. o \in HppsOf(x)
        BY <2>1, <3>1 DEF Asked, x
      <4>2. o \in ListedBy(x.target)
        BY <2>3, <4>1, ListedByCalls DEF Lists
      <4> QED
        BY <1>1, <2>3, <4>2 DEF BuildIInv, ConfigOK, AllTargets
    <3>2. CASE x.generated # NoTarget
      <4>1. o \in ListedBy(x.generated)
        BY <2>3, <2>4, ListedByCalls DEF Lists, Artifacts, OutputsOf
      <4> QED
        BY <2>3, <3>2, <4>1 DEF AllTargets, GeneratedTargets
    <3> QED
      BY <3>1, <3>2
  <2>6. UpToDate(o)
    BY <2>2, <2>5 DEF TargetsOK
  <2>7. Honest(o)
    BY <2>2, <2>3, <2>4, OutputHasRule DEF OutputsOK
  <2> QED
    BY <2>6, <2>7 DEF UpToDate, Honest
<1>2. ASSUME BuildIInv, [BuildNext]_buildVars PROVE [Promise]_buildVars
  BY <1>1, <1>2
<1> QED
  BY <1>2, BuildInitially, BuildSteps, PTL DEF BuildSpec, SuccessMeansCurrent
=============================================================================
