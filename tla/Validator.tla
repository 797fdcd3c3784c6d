------------------------------ MODULE Validator ------------------------------
(***************************************************************************)
(* The checks a config passes before it is pushed:                         *)
(* internal/validator/validator.go.                                        *)
(*                                                                         *)
(* A config is [yaml, service, defined, pipelines, extensions]: whether    *)
(* there is a text ("none": no bytes, "empty": nothing in it) and whether  *)
(* it parses, whether it has a service section, the component ids          *)
(* each top-level section defines, and the pipelines, each of which lists  *)
(* ids per section (Missing when it has no such section) or is Missing     *)
(* when it is no object.  A workload has reported the component types it   *)
(* has in some categories (the empty function: no report).  A check has a  *)
(* status and messages; the messages of severity info are left out, since  *)
(* nothing reads them.  Versions are the triples versionParts makes of     *)
(* them, <<>> is none.                                                     *)
(***************************************************************************)
EXTENDS Integers, Sequences, Functions

CONSTANTS componentType,   \* component id -> type: the id up to its slash
          Missing

Sections == <<"receivers", "processors", "exporters">>

Msg(code, severity) == [code |-> code, severity |-> severity]

\* The first error or warning decides.
statusWithWarnings(messages) ==
    IF messages = <<>> THEN "passed" ELSE IF messages[1].severity = "error" THEN "failed" ELSE "warning"

Check(id, messages) == [id |-> id, status |-> statusWithWarnings(messages), messages |-> messages]
Skipped(id) == [id |-> id, status |-> "skipped", messages |-> <<>>]

\* The sequences of a sequence, one after the other.
Concatenated(seqs) ==
    MapThenFoldSet(\o, <<>>, LAMBDA k : seqs[k], LAMBDA ks : CHOOSE k \in ks : \A j \in ks : k <= j, DOMAIN seqs)

---------------------------------------------------------------------------
(* Structure. *)

Ids(pipeline, section) ==
    IF pipeline = Missing THEN <<>> ELSE IF pipeline[section] = Missing THEN <<>> ELSE pipeline[section]

\* What is wrong with one reference.
RefErrors(defined, category, ids) ==
    LET undefined == SelectSeq(ids, LAMBDA i : i \notin defined[category])
    IN [k \in DOMAIN undefined |-> Msg("undefined_component", "error")]

Refs(defined, category, ids) ==
    LET known == SelectSeq(ids, LAMBDA i : i \in defined[category])
    IN [k \in DOMAIN known |-> [category |-> category, id |-> known[k]]]

PipelineErrors(defined, pipeline) ==
    IF pipeline = Missing THEN <<Msg("invalid_pipeline", "error")>> ELSE
    LET absent == SelectSeq(<<"receivers", "exporters">>, LAMBDA s : pipeline[s] = Missing)
    IN [k \in DOMAIN absent |-> Msg("missing_pipeline_section", "error")]
           \o Concatenated([k \in DOMAIN Sections |-> RefErrors(defined, Sections[k], Ids(pipeline, Sections[k]))])

validateCollectorStructure(cfg) ==
    CASE ~ cfg.service -> <<Msg("missing_service", "error")>>
      [] cfg.pipelines = <<>> -> <<Msg("missing_pipelines", "error")>>
      [] OTHER -> Concatenated([k \in DOMAIN cfg.pipelines |-> PipelineErrors(cfg.defined, cfg.pipelines[k])])
                      \o RefErrors(cfg.defined, "extensions", cfg.extensions)

ComponentRefs(cfg) ==
    Concatenated([k \in DOMAIN cfg.pipelines |->
                   Concatenated([s \in DOMAIN Sections |->
                                  Refs(cfg.defined, Sections[s], Ids(cfg.pipelines[k], Sections[s]))])])
        \o Refs(cfg.defined, "extensions", cfg.extensions)

---------------------------------------------------------------------------
(* Components and version. *)

\* A category that was not reported gives one warning.
RefMessages(refs, k, available) ==
    LET ref == refs[k] IN
    IF ref.category \notin DOMAIN available
    THEN IF \E j \in 1 .. k - 1 : refs[j].category = ref.category THEN <<>>
         ELSE <<Msg("component_category_unreported", "warning")>>
    ELSE IF componentType[ref.id] \in available[ref.category] THEN <<>>
    ELSE <<Msg("component_not_installed", "error")>>

\* Variant: the first category that was not reported ends the check.
validateComponentAvailability_break(refs, available) ==
    IF DOMAIN available = {} THEN <<Msg("available_components_missing", "warning")>>
    ELSE LET unreported == {k \in DOMAIN refs : refs[k].category \notin DOMAIN available}
             upTo == {k \in DOMAIN refs : \A j \in unreported : k <= j}
         IN Concatenated([k \in upTo |-> RefMessages(refs, k, available)])

validateComponentAvailability(refs, available) ==
    IF DOMAIN available = {} THEN <<Msg("available_components_missing", "warning")>>
    ELSE Concatenated([k \in DOMAIN refs |-> RefMessages(refs, k, available)])

\* compareVersions(a, b) < 0
Below(a, b) == \E i \in 1 .. 3 : a[i] < b[i] /\ \A j \in 1 .. i - 1 : a[j] = b[j]

validateVersionCompatibility(target, minimum) ==
    CASE target = <<>> -> <<Msg("target_version_unknown", "warning")>>
      [] target # <<>> /\ minimum # <<>> /\ Below(target, minimum) -> <<Msg("target_version_too_old", "error")>>
      [] OTHER -> <<>>

---------------------------------------------------------------------------
(* The static checks. *)

validateStatic(cfg, available, target, minimum) ==
    LET yaml == CASE cfg.yaml = "bad" -> <<Msg("yaml_parse", "error")>>
                  [] cfg.yaml \in {"none", "empty"} -> <<Msg("empty_config", "error")>>
                  [] OTHER -> <<>>
        structure == validateCollectorStructure(cfg)
    IN IF yaml # <<>>
       THEN <<Check("yaml_static", yaml), Skipped("collector_structure"), Skipped("component_availability"),
              Skipped("collector_version_compatibility")>>
       ELSE <<Check("yaml_static", yaml), Check("collector_structure", structure),
              IF statusWithWarnings(structure) # "failed"
              THEN Check("component_availability", validateComponentAvailability(ComponentRefs(cfg), available))
              ELSE Skipped("component_availability"),
              Check("collector_version_compatibility", validateVersionCompatibility(target, minimum))>>

---------------------------------------------------------------------------
(* The local otelcol binary.  External: what it does is                    *)
(* [outcome, version], outcome being "disabled" when runtime validation is *)
(* off, "absent" when there is no binary, "unavailable" when the temporary *)
(* file cannot be written.                                                 *)

Outcomes == {"disabled", "absent", "unavailable", "timeout", "passes", "rejects"}

VersionWarnings(version, target, minimum) ==
    (IF version = <<>> THEN <<Msg("otelcol_version_unknown", "warning")>> ELSE <<>>)
    \o (IF version # <<>> /\ minimum # <<>> /\ Below(version, minimum)
        THEN <<Msg("otelcol_too_old", "warning")>> ELSE <<>>)
    \o (IF version # <<>> /\ target # <<>> /\ version # target
        THEN <<Msg("otelcol_version_mismatch", "warning")>> ELSE <<>>)

Result(status, messages) == [id |-> "otelcol_runtime", status |-> status, messages |-> messages]

\* The status of the check is set before the message about the temporary file is added.
runRuntimeCheck(binary, target, minimum) ==
    LET notes == VersionWarnings(binary.version, target, minimum) IN
    CASE binary.outcome = "disabled" -> Skipped("otelcol_runtime")
      [] binary.outcome = "absent" -> Result("skipped", <<Msg("otelcol_not_found", "warning")>>)
      [] binary.outcome = "unavailable" ->
            Result(statusWithWarnings(notes), Append(notes, Msg("otelcol_runtime_unavailable", "warning")))
      [] binary.outcome = "passes" -> Result(statusWithWarnings(notes), notes)
      [] binary.outcome = "timeout" -> Result("warning", Append(notes, Msg("otelcol_runtime_timeout", "warning")))
      [] binary.outcome = "rejects" -> Result("failed", Append(notes, Msg("otelcol_validation_failed", "error")))

---------------------------------------------------------------------------
(* The result. *)

Has(checks, severity) ==
    \E i \in DOMAIN checks : \E k \in DOMAIN checks[i].messages : checks[i].messages[k].severity = severity

\* Variant: the verdict is read off the statuses of the checks.
finalize_statuses(checks) ==
    LET failed == \E i \in DOMAIN checks : checks[i].status = "failed"
    IN [checks |-> checks, valid |-> ~ failed,
        overall |-> IF failed THEN "failed"
                    ELSE IF \E i \in DOMAIN checks : checks[i].status # "passed" THEN "warning" ELSE "passed"]

\* The verdict counts messages, not statuses.
finalize(checks) ==
    [checks  |-> checks,
     valid   |-> ~ Has(checks, "error"),
     overall |-> IF Has(checks, "error") THEN "failed"
                 ELSE IF Has(checks, "warning") \/ \E i \in DOMAIN checks : checks[i].status = "skipped"
                 THEN "warning" ELSE "passed"]

Required == {"yaml_static", "collector_structure", "component_availability"}

firstFailedRequiredCheck(checks) ==
    LET failed == SelectSeq(checks, LAMBDA c : c.id \in Required /\ c.status = "failed")
    IN IF failed = <<>> THEN "static_validation" ELSE failed[1].id

ValidateWithRuntime(cfg, available, target, minimum, binary) ==
    LET static == validateStatic(cfg, available, target, minimum)
    IN finalize(Append(static, IF Has(static, "error") THEN Skipped("otelcol_runtime")
                               ELSE runRuntimeCheck(binary, target, minimum)))

Validate(cfg, available) ==
    finalize(validateStatic(cfg, available, <<>>, <<>>))

---------------------------------------------------------------------------
(* What a well-formed config is, and when a workload has what it uses. *)

Used(cfg, category) ==
    IF category = "extensions" THEN Range(cfg.extensions)
    ELSE UNION {Range(Ids(cfg.pipelines[k], category)) : k \in DOMAIN cfg.pipelines}

Categories == Range(Sections) \cup {"extensions"}

WellFormed(cfg) ==
    /\ cfg.yaml = "ok" /\ cfg.service /\ cfg.pipelines # <<>>
    /\ \A k \in DOMAIN cfg.pipelines : cfg.pipelines[k] # Missing
    /\ \A k \in DOMAIN cfg.pipelines : cfg.pipelines[k].receivers # Missing /\ cfg.pipelines[k].exporters # Missing
    /\ \A c \in Categories : Used(cfg, c) \subseteq cfg.defined[c]

Installed(cfg, available) ==
    \A c \in Categories \cap DOMAIN available : \A id \in Used(cfg, c) : componentType[id] \in available[c]
=============================================================================
