------------------------------ MODULE MCDrafts ------------------------------
(***************************************************************************)
(* What MCConfigs asks about: version strings, configs with every kind of  *)
(* mistake, workloads with every kind of report, and the environments that *)
(* matter to the verdict.  full is the whole range of configs and reports  *)
(* for one workload; otherwise the workloads vary more than the configs.   *)
(***************************************************************************)
EXTENDS Validator, SemVer

CONSTANT NoVersion

VersionStrings ==
    [parts : {<<Num(1), Num(0), Num(0)>>, <<Num(0), Num(9), Num(2)>>, <<Num(0), Num(10), Num(1)>>, <<Num(1), Num(0)>>},
     pre : {<<>>, <<Empty>>, <<Num(1)>>, <<Num(2)>>, <<Text(1)>>, <<Text(1), Num(1)>>, <<Text(1), Text(2)>>,
            <<Text(2), Num(2)>>, <<Text(2), Num(11)>>, <<Text(1), Empty>>},
     build : {FALSE}]

\* "ra" and "ra/2" are two instances of one receiver type.
TypeOf == [id \in {"ra", "ra/2", "rb", "p", "e", "x"} |-> IF id = "ra/2" THEN "ra" ELSE id]

Ver(major, minor, patch, pre) == [parts |-> <<Num(major), Num(minor), Num(patch)>>, pre |-> pre, build |-> FALSE]
Word == [parts |-> <<Text(1)>>, pre |-> <<>>, build |-> FALSE]

Defined(r, e, x) ==
    [c \in Categories \cup {"connectors"} |-> CASE c = "receivers" -> r [] c = "exporters" -> e [] c = "extensions" -> x
                               [] c = "processors" -> {"p"} [] OTHER -> {}]

Pipelines(full) ==
    [receivers : IF full THEN {Missing, <<>>, <<"ra">>, <<"ra/2", "rb">>, <<"rb", "ra">>}
                 ELSE {Missing, <<"ra/2">>, <<"rb", "ra">>},
     processors : IF full THEN {Missing, <<"p">>} ELSE {<<"p">>},
     exporters : {Missing, <<"e">>}]

Written(full) ==
    [yaml : {"ok"}, service : {TRUE},
     defined : {Defined(r, e, x) : r \in {{}, {"ra", "rb"}, {"ra", "ra/2", "rb"}}, e \in {{}, {"e"}}, x \in {{}, {"x"}}},
     pipelines : {<<q>> : q \in Pipelines(full)}
                 \cup {<<q, [q EXCEPT !.receivers = <<"ra">>]>> : q \in Pipelines(full)} \cup {<<Missing>>, <<>>},
     extensions : {<<>>, <<"x">>}]

Good == CHOOSE g \in Written(FALSE) : WellFormed(g) /\ g.extensions = <<"x">>

Broken == {[Good EXCEPT !.service = FALSE]} \cup {[Good EXCEPT !.yaml = y] : y \in {"none", "empty", "bad"}}

Report(cats, types) == [c \in cats |-> types \cap (IF c = "receivers" THEN {"ra", "rb"} ELSE {"p", "e", "x"})]

Reports(full) ==
    {Report(cats, types) :
        cats \in {{}, {"receivers"}, Categories \ {"receivers"}, Categories}
                 \cup (IF full THEN {{"exporters"}, {"receivers", "processors"}} ELSE {}),
        types \in {{}, {"ra", "p", "e"}, {"ra", "rb", "p", "e", "x"}}}

Binary(outcome, version) == [outcome |-> outcome, version |-> version]
Binaries == {Binary("disabled", <<>>), Binary("passes", <<0, 100, 2>>), Binary("rejects", <<0, 100, 2>>)}

FullDrafts == Written(TRUE) \cup Broken
FullWorkloads ==
    [type : {"collector"}, accepts : {TRUE}, status : {"connected"},
     version : {Ver(0, 100, 2, <<>>)}, available : Reports(TRUE)]
FullEnvironments ==
    [minimum : {NoVersion},
     binary : Binaries \cup {Binary("absent", <<>>), Binary("unavailable", <<0, 100, 2>>),
                             Binary("timeout", <<0, 100, 2>>), Binary("passes", <<>>), Binary("passes", <<0, 90, 0>>)},
     policy : {"allow"}]

SomeDrafts == {d \in Written(FALSE) : WellFormed(d)} \cup Broken
SomeWorkloads ==
    [type : {"collector", "sdk"}, accepts : BOOLEAN, status : {"connected", "degraded", "disconnected"},
     version : {NoVersion, Word, Ver(0, 79, 0, <<>>), Ver(0, 100, 2, <<Text(1)>>), Ver(0, 100, 2, <<>>)},
     available : Reports(FALSE)]
SomeEnvironments ==
    [minimum : {NoVersion, Ver(0, 100, 1, <<>>)}, binary : Binaries, policy : {"allow", "block"}]
=============================================================================
