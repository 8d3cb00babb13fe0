--------------------------- MODULE MCCjmGenerate ---------------------------
(***************************************************************************)
(* Directories with one or two calls of cjm_generate: with and without a   *)
(* generated target and schemas, with another target that uses what was    *)
(* generated, with two calls of one target or of two for one header, and   *)
(* with the mistakes that are refused.                                     *)
(***************************************************************************)
EXTENDS CjmGenerate

MCTargets == {"app", "tests"}
MCConsumers == {[name |-> "other", after |-> "gen"]}

\* Two headers of one base name.
MCHeaders == {"user", "address", "sub/user"}
MCBase == [h \in MCHeaders |-> IF h = "address" THEN "address" ELSE "user"]

Called(generated, headers, schemas) ==
    [target |-> "app", generated |-> generated, headers |-> headers, schemas |-> schemas]

\* The same in the other target.
Tested(generated, headers, schemas) ==
    [Called(generated, headers, schemas) EXCEPT !.target = "tests"]

MCConfigurations ==
    { <<Called("", <<"user">>, TRUE)>>,
      <<Called("gen", <<"user">>, TRUE)>>,
      <<Called("art", <<"user">>, FALSE), Called("", <<"address">>, FALSE)>>,
      <<Called("art", <<"user", "address">>, FALSE)>>,
      <<Called("gen", <<"user", "sub/user">>, FALSE)>>,
      <<Called("gen", <<"user">>, FALSE), Called("gen", <<"address">>, FALSE)>>,
      <<Called("", <<>>, FALSE)>>,
      <<[Called("", <<"user">>, FALSE) EXCEPT !.target = "lib"]>>,
      \* one header in two calls
      <<Called("", <<"user", "user">>, FALSE), Called("art", <<"user">>, TRUE)>>,
      <<Called("", <<"user">>, FALSE), Called("", <<"sub/user">>, FALSE)>>,
      <<Called("", <<"user">>, FALSE), Tested("", <<"user">>, FALSE)>>,
      <<Called("art", <<"user">>, TRUE), Tested("", <<"user">>, TRUE)>>,
      <<Called("art", <<"user">>, FALSE), Called("new", <<"user">>, FALSE)>> }

MCVersions == 0 .. 2
MCBad == {2}
=============================================================================
