--------------------------- MODULE MCCommandLine ---------------------------
(***************************************************************************)
(* Calls of generate with up to five further arguments, among them options *)
(* in the place of paths and an output that is an input, and a few others; *)
(* headers that are good, cut off, absent, or good alone only.             *)
(***************************************************************************)
EXTENDS CommandLine

MCOptions == {"--input", "--output", "--x"}
Paths == {"a", "b"}
MCFiles == Paths \cup MCOptions \cup
           {"", "generate", "generate-schema", "help", "--help", "compile"}

MCCalls ==
    {<<>>, <<"help">>, <<"--help", "a">>, <<"compile", "--input", "a">>,
     <<"generate-schema", "--input", "a", "b", "--output", "--x">>}
        \cup {<<"generate">> \o arguments :
                arguments \in UNION {[1 .. n -> Paths \cup MCOptions \cup {""}] : n \in 0 .. 4}
                    \cup [1 .. 5 -> Paths \cup {"--input", "--output"}]}

MCContents == {"user", "address", "cut off", "absent"}
MCParses == {"user", "address"}
\* A header twice defines its structs twice.  What is extracted of a broken one
\* may well pass.
MCAnalyses ==
    {<<"user">>, <<"address">>, <<"cut off">>, <<"user", "address">>, <<"address", "user">>,
     <<"user", "cut off">>}

\* b may be missing, broken, good, or a copy of a.
MCDisks ==
    {[file \in MCFiles |->
        IF file = "a" THEN "user" ELSE IF file = "b" THEN other ELSE "absent"] :
            other \in MCContents}
MCReadOnly == {"--input"}

=============================================================================
