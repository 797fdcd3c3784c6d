----------------------------- MODULE ConfigPlan -----------------------------
(***************************************************************************)
(* Answers about one config and one workload, each computed by its own     *)
(* code: the application plan (internal/api/workloads.go), the preview of  *)
(* a group push (internal/api/pushes.go), the push of an approved draft    *)
(* (internal/api/config_approvals.go), the preparation of a rollback       *)
(* (internal/api/rollback_guided.go) and its submission (workloads.go),    *)
(* and the compatibility of the fleet                                      *)
(* (internal/api/fleet_version_intelligence.go).                           *)
(*                                                                         *)
(* A workload is [type, accepts, status, version, available].  The         *)
(* environment is [minimum, binary, policy]: the configured minimum        *)
(* version, what the local otelcol does and the verdict of the policy      *)
(* engine on the draft.                                                    *)
(***************************************************************************)
EXTENDS Validator, SemVer

CONSTANTS Workloads, Drafts, Environments,
          NoVersion

VARIABLES wl,      \* the workload as the handlers load it
          draft,   \* the config
          env,     \* the environment
          out      \* the answers, <<>> before they are asked for

vars == <<wl, draft, env, out>>

---------------------------------------------------------------------------
(* The validator's own reading of a version: split at the dots only, and a *)
(* part that is no number counts as 0, so a prerelease loses its last part.*)

versionParts(s) ==
    LET glued == IF s.pre = <<>> /\ ~ s.build THEN s.parts
                 ELSE [s.parts EXCEPT ![Len(s.parts)] = Text(0)]
        pieces == glued \o (IF s.pre = <<>> THEN <<>> ELSE Tail(s.pre))
    IN [i \in 1 .. 3 |-> IF i \in DOMAIN pieces /\ pieces[i].kind = "number" THEN pieces[i].val ELSE 0]

Parts(v) == IF v = NoVersion THEN <<>> ELSE versionParts(v)

\* The validation of the plan, of the push and of a submitted rollback: all take the version of the workload.
validateApprovalDraft(w, cfg, e) ==
    ValidateWithRuntime(cfg, w.available, Parts(w.version), Parts(e.minimum), e.binary)

workloadIsConnected(w) == w.status = "connected"

---------------------------------------------------------------------------
(* The plan. *)

\* Variant: a workload that is not disconnected is taken to be online.
buildConfigApplicationPlanTarget_online(w, cfg, e) ==
    (IF w.type # "collector" THEN {"non_collector"} ELSE {})
    \cup (IF ~ w.accepts THEN {"read_only"} ELSE {})
    \cup (IF w.status = "disconnected" THEN {"workload_offline"} ELSE {})
    \cup (IF ~ validateApprovalDraft(w, cfg, e).valid THEN {"validation_failed"} ELSE {})

\* Why the target is excluded.
buildConfigApplicationPlanTarget(w, cfg, e) ==
    (IF w.type # "collector" THEN {"non_collector"} ELSE {})
    \cup (IF ~ w.accepts THEN {"read_only"} ELSE {})
    \cup (IF ~ workloadIsConnected(w) THEN {"workload_offline"} ELSE {})
    \cup (IF ~ validateApprovalDraft(w, cfg, e).valid THEN {"validation_failed"} ELSE {})

buildConfigApplicationPlan(w, cfg, e) ==
    LET excluded == buildConfigApplicationPlanTarget(w, cfg, e)
        failures == (IF cfg.yaml = "none" THEN {"empty_config"} ELSE {})
                    \cup (IF excluded # {} THEN {"all_targets_excluded"} ELSE {})
                    \cup ({"validation_failed"} \cap excluded)
                    \cup (IF e.policy = "block" THEN {"config_policy_blocked"} ELSE {})
    IN [failures |-> failures, canPush |-> failures = {}]

---------------------------------------------------------------------------
(* The preview of a group push, and the push. *)

\* Variant: a config with a warning is incompatible.
classifyPushPreviewTarget_strict(w, cfg) ==
    CASE w.status = "disconnected" -> "offline"
      [] w.status # "disconnected" /\ (w.type # "collector" \/ ~ w.accepts) -> "read_only"
      [] OTHER -> IF cfg.yaml # "none" /\ \/ ~ Validate(cfg, w.available).valid
                                          \/ Has(SubSeq(Validate(cfg, w.available).checks, 1, 3), "warning")
                  THEN "incompatible" ELSE "remote_config_capable"

\* The preview knows the components, not the version policy, the binary or the policy engine.
classifyPushPreviewTarget(w, cfg) ==
    CASE w.status = "disconnected" -> "offline"
      [] w.status # "disconnected" /\ (w.type # "collector" \/ ~ w.accepts) -> "read_only"
      [] OTHER -> IF cfg.yaml # "none" /\ ~ Validate(cfg, w.available).valid
                  THEN "incompatible" ELSE "remote_config_capable"

\* What an approved draft is answered; "sent" is the push itself.
handlePushConfigApproval(w, cfg, e) ==
    CASE ~ w.accepts -> "remote_config_unsupported"
      [] w.accepts /\ ~ workloadIsConnected(w) -> "workload_not_connected"
      [] w.accepts /\ workloadIsConnected(w) /\ ~ validateApprovalDraft(w, cfg, e).valid -> "validation_errors"
      [] OTHER -> IF e.policy = "block" THEN "config_policy_blocked" ELSE "sent"

---------------------------------------------------------------------------
(* A rollback to the config.  row is what the database holds of it: the    *)
(* status its latest push reads as ("none": it was never pushed), whether  *)
(* a push is under way, and whether the workload is archived.              *)

TargetRows == [status : {"none", "applied", "failed"}, pending : BOOLEAN, archived : BOOLEAN]

\* The blocking findings.  Only the light validator is asked.
buildRollbackValidation(w, cfg) ==
    (IF w.type \notin {"", "collector"} THEN {"workload_not_collector"} ELSE {})
    \cup (IF ~ w.accepts THEN {"remote_config_unsupported"} ELSE {})
    \cup (IF cfg.yaml = "none" THEN {"target_content_unavailable"}
          ELSE IF ~ Validate(cfg, w.available).valid THEN {"validation"} ELSE {})

handlePrepareRollback(w, cfg, row) ==
    CASE row.status = "none" -> "target_not_found"
      [] row.status # "none" /\ row.archived -> "workload_archived"
      [] row.status = "failed" /\ ~ row.archived -> "target_not_applied"
      [] OTHER -> IF buildRollbackValidation(w, cfg) = {} /\ ~ row.pending THEN "can_submit" ELSE "blocked"

\* The submission is refused, or recorded and sent.
handleRollbackWorkloadConfig(w, cfg, e, row) ==
    IF /\ row.status = "applied" /\ cfg.yaml # "none" /\ ~ row.archived
       /\ w.type \in {"", "collector"} /\ w.accepts /\ ~ row.pending
       /\ validateApprovalDraft(w, cfg, e).valid
    THEN "sent" ELSE "refused"

---------------------------------------------------------------------------
(* The compatibility of a collector with the config it has applied. *)

AllCategories == Categories \cup {"connectors"}

requiredComponentsFromConfig(cfg) ==
    IF cfg.yaml # "ok" THEN {}
    ELSE UNION {{[category |-> c, type |-> componentType[id]] : id \in cfg.defined[c]} : c \in AllCategories}

unsupportedComponentsForWorkload(w, cfg) ==
    LET checks == Validate(cfg, w.available).checks IN
    IF cfg.yaml = "none" THEN {}
    ELSE {i \in DOMAIN checks : \E k \in DOMAIN checks[i].messages :
                                    checks[i].messages[k].code = "component_not_installed"}

\* Variant: one reported category is enough.
componentCapabilityBlockers_known(required, available) ==
    IF required # {} /\ DOMAIN available = {} THEN {"component_capabilities_unknown"} ELSE {}

componentCapabilityBlockers(required, available) ==
    CASE required = {} -> {}
      [] required # {} /\ DOMAIN available = {} -> {"component_capabilities_unknown"}
      [] OTHER -> IF \E r \in required : r.category \notin DOMAIN available \/ available[r.category] = {}
                  THEN {"component_capability_category_missing"} ELSE {}

Oldest == [parts |-> <<Num(0), Num(80), Num(0)>>, pre |-> <<>>, build |-> FALSE]

compatibilityVersion(v) == v # NoVersion /\ Compare(v, v).ok

compatibilityKnownIssues(v) == v # NoVersion /\ Compare(v, Oldest).ok /\ Compare(v, Oldest).cmp < 0

compatibilityEntryForWorkload(w, cfg) ==
    LET blockers == componentCapabilityBlockers(requiredComponentsFromConfig(cfg), w.available)
                    \cup (IF ~ compatibilityVersion(w.version) THEN {"version"} ELSE {})
                    \cup (IF unsupportedComponentsForWorkload(w, cfg) # {} THEN {"unsupported_component"} ELSE {})
                    \cup (IF compatibilityKnownIssues(w.version) THEN {"known_issue"} ELSE {})
                    \cup (IF ~ w.accepts THEN {"remote_config_not_accepted"} ELSE {})
    IN [blockers |-> blockers, runnable |-> blockers = {}]

---------------------------------------------------------------------------

Init == wl \in Workloads /\ draft \in Drafts /\ env \in Environments /\ out = <<>>

Ask ==
    /\ out = <<>>
    /\ out' = [plan    |-> buildConfigApplicationPlan(wl, draft, env),
               preview |-> classifyPushPreviewTarget(wl, draft),
               push    |-> handlePushConfigApproval(wl, draft, env),
               prepare |-> [row \in TargetRows |-> handlePrepareRollback(wl, draft, row)],
               submit  |-> [row \in TargetRows |-> handleRollbackWorkloadConfig(wl, draft, env, row)],
               fleet   |-> compatibilityEntryForWorkload(wl, draft),
               result  |-> validateApprovalDraft(wl, draft, env)]
    /\ UNCHANGED <<wl, draft, env>>

Next == Ask

Spec == Init /\ [][Next]_vars

---------------------------------------------------------------------------
(* Properties. *)

Asked == out # <<>>

\* The version policy refuses the workload.
TooOld == wl.version # NoVersion /\ env.minimum # NoVersion /\ Below(Parts(wl.version), Parts(env.minimum))

\* validateStatic and finalize (validator.go:129, :613): a config is valid exactly when it is well formed, every
\* component it uses from a reported category is installed, the version policy is met and otelcol does not reject it,
\* whatever the order of the references and whatever warnings come before the errors.
ValidIsExact ==
    Asked => (out.result.valid <=>
                 /\ WellFormed(draft) /\ Installed(draft, wl.available)
                 /\ ~ TooOld /\ env.binary.outcome # "rejects")

\* ValidateWithRuntime (validator.go:413): an overall status of "passed" means that nothing was left out: every used
\* category was reported and installed, the version is known, and otelcol of that version accepted the config.
PassedIsComplete ==
    Asked /\ out.result.overall = "passed" =>
        /\ WellFormed(draft)
        /\ \A c \in Categories : \A id \in Used(draft, c) :
               c \in DOMAIN wl.available /\ componentType[id] \in wl.available[c]
        /\ env.binary.outcome = "passes" /\ env.binary.version = Parts(wl.version)

\* buildConfigApplicationPlan (workloads.go:427) and handlePushConfigApproval (config_approvals.go:173) check the same
\* things in different code: the plan of a collector says "can push" exactly when the push would be sent.
PlanIsTruthful ==
    Asked => (out.plan.canPush <=> wl.type = "collector" /\ out.push = "sent")

\* classifyPushPreviewTarget (pushes.go:244) puts a workload among the capable ones exactly when the config can be
\* pushed to it, up to what the preview does not look at: a degraded state, the version policy, otelcol, the policies.
PreviewIsExact ==
    Asked /\ draft.yaml # "none" =>
        (out.plan.canPush <=> /\ out.preview = "remote_config_capable"
                              /\ wl.status = "connected" /\ ~ TooOld
                              /\ env.binary.outcome # "rejects" /\ env.policy # "block")

\* handlePrepareRollback (rollback_guided.go:49) enables the confirm button exactly when handleRollbackWorkloadConfig
\* (workloads.go:1069) would accept the rollback, up to what the preparation does not look at: the version policy and
\* otelcol.  The one uses the light validator (rollback_guided.go:248), the other the one with the runtime check
\* (workloads.go:1143).
ButtonIsTruthful ==
    Asked => \A row \in TargetRows :
        out.submit[row] = "sent" <=> out.prepare[row] = "can_submit" /\ ~ TooOld /\ env.binary.outcome # "rejects"

\* rollback_guided.go:137 answers "can_submit": a rollback so answered is not refused.
ButtonIsKept ==
    Asked => \A row \in TargetRows : out.prepare[row] = "can_submit" => out.submit[row] = "sent"

\* compatibilityEntryForWorkload (fleet_version_intelligence.go:220): a collector reported as runnable has reported,
\* and has, every component its config uses.  The validator passes over categories that were not reported, and the
\* capability check over the types within a category: only together they say this.
RunnableIsInstalled ==
    Asked /\ out.fleet.runnable /\ WellFormed(draft) =>
        \A c \in Categories : \A id \in Used(draft, c) :
            c \in DOMAIN wl.available /\ componentType[id] \in wl.available[c]

\* validator.go:420 says of a skipped runtime check that "a required validation check failed".
SkipIsExplained ==
    Asked =>
        \A i \in DOMAIN out.result.checks :
            LET checks == out.result.checks IN
            checks[i].id = "otelcol_runtime" /\ checks[i].status = "skipped" /\ ~ out.result.valid =>
                firstFailedRequiredCheck(checks) \in Required

\* validator.go:399 calls OTELCOL_MIN_RUNTIME_VERSION a "warning threshold for the local binary version": without it
\* the verdict would be the same.
MinimumOnlyWarns ==
    Asked => out.result.valid = ValidateWithRuntime(draft, wl.available, Parts(wl.version), <<>>, env.binary).valid
=============================================================================
