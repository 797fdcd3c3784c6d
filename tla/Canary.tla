------------------------------- MODULE Canary -------------------------------
(***************************************************************************)
(* A manual canary of one config on one workload:                          *)
(* internal/api/workload_canary.go over internal/store/workload_canaries.go *)
(* and pkg/models/canary.go.                                               *)
(*                                                                         *)
(* The handlers of the API read the row, talk to the instances and write   *)
(* the whole row back; the status reports of the instances update it in a  *)
(* transaction that locks it.  Time stamps follow the status and are left  *)
(* out; the stop reasons are those of the targets (Recount).               *)
(***************************************************************************)
EXTENDS CanarySelection

CONSTANTS N,          \* the workload has instances 1..N
          Selections, \* what operators ask for
          Requests, Kinds,
          Reports,    \* what instances report: a set of "applying", "applied", "failed"
          Failures    \* what happens to instances: a set of "degraded", "stale", "gone", "send", "alert",
                      \* and "again": one that has applied the candidate reports another status

Uids == 1..N

VARIABLES row,     \* the row of workload_config_canaries
          fleet,   \* the instances, as CanarySelection has them
          alert,   \* an unresolved alert of the rule canary_stop
          got,     \* the configs pushed to every instance
          said,    \* the last status every instance reported for the candidate
          proven,  \* the instances that have reported it applied
          req      \* the requests

vars == <<row, fleet, alert, got, said, proven, req>>

NoRow == [status |-> "none", targets |-> {}, st |-> <<>>, why |-> <<>>]
Idle == [at |-> "idle", kind |-> "none", copy |-> NoRow, left |-> {}]

Init ==
    /\ row = NoRow /\ fleet = [u \in Uids |-> "ok"] /\ alert = FALSE
    /\ got = [u \in Uids |-> {}] /\ said = [u \in Uids |-> "none"] /\ proven = {}
    /\ req = [r \in Requests |-> Idle]

Step(r, at, new) == req[r].at = at /\ req' = [req EXCEPT ![r] = new]
Send(u, config) == got' = [got EXCEPT ![u] = @ \cup {config}]

\* Recount: what the targets add up to.
StopReasons(c) == {c.why[t] : t \in c.targets} \ {""}
Count(c, s) == Cardinality({t \in c.targets : c.st[t] = s})

---------------------------------------------------------------------------
(* Starting. *)

handleStartCanary(r, sel) ==
    LET T == selectCanaryTargets(fleet, sel)
        c == [status |-> "running", targets |-> T, st |-> [t \in T |-> "sent"], why |-> [t \in T |-> ""]] IN
    /\ "start" \in Kinds /\ row = NoRow /\ T # Refused
    /\ row' = c
    /\ Step(r, "idle", [at |-> "send", kind |-> "start", copy |-> c, left |-> T])
    /\ UNCHANGED <<fleet, alert, got, said, proven>>

\* Variant: the error of the push is the reason.
TargetFailed_error(c, u) == [c EXCEPT !.st[u] = "failed", !.why[u] = "no connection", !.status = "stopped"]

\* markCanaryTargetFailed, and the status of the workflow
TargetFailed(c, u) ==
    [c EXCEPT !.st[u] = "failed", !.why[u] = "remote_config_failed", !.status = "stopped"]

---------------------------------------------------------------------------
(* Reading a canary checks the health of its targets. *)

Unwell(t) == fleet[t] \in {"stale", "gone", "degraded"}

WithHealth(c) ==
    LET why == [t \in c.targets |-> IF fleet[t] \in {"stale", "gone"} THEN "no_heartbeat"
                                    ELSE IF fleet[t] = "degraded" THEN "collector_degraded" ELSE c.why[t]]
        stop == alert \/ (c.status = "running" /\ \E t \in c.targets : why[t] # "") IN
    [c EXCEPT !.why = why, !.status = IF stop THEN "stopped" ELSE @]

\* GetCanaryStatus, in handlers that go on to write the row
GetCanaryStatus(r, kind) ==
    /\ kind \in Kinds /\ row # NoRow
    /\ Step(r, "idle", [at |-> "loaded", kind |-> kind, copy |-> row, left |-> {}])
    /\ UNCHANGED <<row, fleet, alert, got, said, proven>>

\* Variant: the status of the workflow is not looked at.
Promotable_any(c) == Count(c, "failed") = 0

Promotable(c) == /\ c.status = "succeeded" /\ StopReasons(c) = {}
                 /\ Count(c, "applied") = Cardinality(c.targets)

eligibleRemainingTargets(c) == canaryEligible(fleet) \ c.targets

\* loadCanaryWithHealth: the row is written only when something changed.
loadCanaryWithHealth(r) ==
    LET c == WithHealth(req[r].copy)
        changed == alert \/ c # req[r].copy \/ \E t \in c.targets : Unwell(t) IN
    /\ req[r].kind \in {"get", "promote"}
    /\ row' = IF changed THEN c ELSE row
    /\ Step(r, "loaded", IF req[r].kind = "promote" /\ Promotable(c)
                         THEN [req[r] EXCEPT !.at = "send", !.copy = c, !.left = eligibleRemainingTargets(c)]
                         ELSE Idle)
    /\ UNCHANGED <<fleet, alert, got, said, proven>>

handleAbortCanary(r) ==
    /\ req[r].kind = "abort"
    /\ Step(r, "loaded", Idle)
    /\ row' = [req[r].copy EXCEPT !.status = "aborted"]
    /\ UNCHANGED <<fleet, alert, got, said, proven>>

\* A rollback target exists, or the request ends.
rollbackConfigForCanary(r) ==
    /\ req[r].kind = "rollback"
    /\ \/ Step(r, "loaded", [req[r] EXCEPT !.at = "send", !.left = req[r].copy.targets])
       \/ Step(r, "loaded", Idle)
    /\ UNCHANGED <<row, fleet, alert, got, said, proven>>

---------------------------------------------------------------------------
(* Pushing to one instance after the other. *)

\* The config of a request's pushes.
Pushes(kind) == IF kind = "rollback" THEN "rollback" ELSE "candidate"

PushConfig(r) ==
    \E u \in req[r].left :
        /\ fleet[u] # "gone"
        /\ Step(r, "send", [req[r] EXCEPT !.left = @ \ {u}])
        /\ Send(u, Pushes(req[r].kind))
        /\ UNCHANGED <<row, fleet, alert, said, proven>>

\* The push fails, as one to an instance that is gone does: the request writes
\* what it has and ends.
PushConfigFails(r) ==
    \E u \in req[r].left :
        /\ "send" \in Failures \/ fleet[u] = "gone"
        /\ Step(r, "send", Idle)
        /\ row' = IF req[r].kind = "start" THEN TargetFailed(req[r].copy, u)
                  ELSE [req[r].copy EXCEPT !.status = "stopped"]
        /\ UNCHANGED <<fleet, alert, got, said, proven>>

\* Variant: the rollback is recorded when it begins.
Done_early(r) == req[r].kind = "rollback" \/ req[r].left = {}

Done(r) == req[r].left = {}

FinishPushes(r) ==
    /\ Done(r)
    /\ Step(r, "send", Idle)
    /\ row' = CASE req[r].kind = "start" -> row
                [] req[r].kind = "promote" -> [req[r].copy EXCEPT !.status = "promoted"]
                [] req[r].kind = "rollback" -> [req[r].copy EXCEPT !.status = "rollback_started"]
    /\ UNCHANGED <<fleet, alert, got, said, proven>>

---------------------------------------------------------------------------
(* The instances. *)

\* Variant: an off-by-one in the number of targets that have applied.
Reconciled_almost(c, u, s) ==
    LET d == [c EXCEPT !.st[u] = s, !.why[u] = IF s = "failed" THEN "remote_config_failed" ELSE ""] IN
    [d EXCEPT !.status = CASE Count(d, "failed") > 0 -> "stopped"
                           [] Count(d, "applied") + 1 >= Cardinality(d.targets) -> "succeeded"
                           [] OTHER -> "running"]

\* Variant: the row is rebuilt from the report.
Reconciled_fresh(c, u, s) ==
    [c EXCEPT !.st = [t \in c.targets |-> IF t = u THEN s ELSE "sent"],
              !.status = IF s = "failed" THEN "stopped" ELSE "running"]

\* One target's status, and what it makes of the canary.
Reconciled(c, u, s) ==
    LET d == [c EXCEPT !.st[u] = s, !.why[u] = IF s = "failed" THEN "remote_config_failed" ELSE ""] IN
    [d EXCEPT !.status = CASE Count(d, "failed") > 0 -> "stopped"
                           [] Count(d, "applied") = Cardinality(d.targets) -> "succeeded"
                           [] OTHER -> "running"]

UpdateCanaryTargetStatus(u, s) ==
    /\ "candidate" \in got[u] /\ fleet[u] # "gone"
    /\ said[u] = "applied" => s = "applied" \/ "again" \in Failures
    /\ row' = IF row.status \in {"running", "succeeded"} /\ u \in row.targets THEN Reconciled(row, u, s) ELSE row
    /\ said' = [said EXCEPT ![u] = s]
    /\ proven' = IF s = "applied" THEN proven \cup {u} ELSE proven
    /\ UNCHANGED <<fleet, alert, got, req>>

InstanceChanges(u) ==
    /\ fleet' \in {[fleet EXCEPT ![u] = h] : h \in {"ok"} \cup (Failures \cap {"degraded", "stale", "gone"})}
    /\ fleet' # fleet
    /\ UNCHANGED <<row, alert, got, said, proven, req>>

AlertFires == "alert" \in Failures /\ alert' = ~ alert /\ UNCHANGED <<row, fleet, got, said, proven, req>>

Next ==
    \/ AlertFires
    \/ \E u \in Uids : InstanceChanges(u) \/ \E s \in Reports : UpdateCanaryTargetStatus(u, s)
    \/ \E r \in Requests :
          \/ loadCanaryWithHealth(r) \/ handleAbortCanary(r) \/ rollbackConfigForCanary(r)
          \/ PushConfig(r) \/ PushConfigFails(r) \/ FinishPushes(r)
          \/ \E sel \in Selections : handleStartCanary(r, sel)
          \/ \E kind \in {"get", "promote", "abort", "rollback"} : GetCanaryStatus(r, kind)

Spec == Init /\ [][Next]_vars
---------------------------------------------------------------------------

States == {"none", "running", "succeeded", "promoted", "aborted", "rollback_started", "stopped"}
Statuses == {"sent", "applying", "applied", "failed"}
Reasons == {"", "remote_config_failed", "no_heartbeat", "collector_degraded"}

RowOK(c) == /\ c.status \in States /\ c.targets \subseteq Uids
            /\ DOMAIN c.st = c.targets /\ DOMAIN c.why = c.targets
            /\ \A t \in c.targets : c.st[t] \in Statuses /\ c.why[t] \in Reasons

TypeOK ==
    /\ RowOK(row) /\ \A r \in Requests : RowOK(req[r].copy) /\ req[r].left \subseteq Uids
    /\ fleet \in [Uids -> {"ok", "readonly", "degraded", "stale", "gone"}] /\ alert \in BOOLEAN
    /\ got \in [Uids -> SUBSET {"candidate", "rollback"}]
    /\ said \in [Uids -> {"none"} \cup Statuses] /\ proven \subseteq Uids

\* The candidate reaches an instance outside the canary only after every target
\* of the canary has reported it applied, whatever overlapping requests write
\* (handlePromoteCanary).
BroadPushIsEarned ==
    \A u \in Uids : "candidate" \in got[u] /\ u \notin row.targets => row.targets \subseteq proven

\* "CanaryStatusSucceeded means every selected target reported applied."
SucceededIsReported == row.status = "succeeded" => row.targets \subseteq proven

\* "CanaryStatusRollback means a safe rollback config was pushed to canary targets."
RollbackIsPushed == row.status = "rollback_started" => \A t \in row.targets : "rollback" \in got[t]

\* A canary leaves part of the fleet untouched: its targets are never all the
\* eligible instances it was chosen from (selectCanaryTargets).
CanaryIsPartial == [][row = NoRow /\ row' # NoRow =>
                        row'.targets # {} /\ row'.targets \subseteq canaryEligible(fleet)
                           /\ row'.targets # canaryEligible(fleet)]_vars

\* "reconciles OpAMP remote-config status into active canaries": an active canary
\* has the last report of each of its targets, although a read with an unwell
\* target writes back the row it began with (loadCanaryWithHealth).  So it is as
\* long as "applied" is the last word of an instance on the candidate; with
\* "again" in Failures the read of a succeeded canary loses a report.
ReportsAreKept ==
    row.status \in {"running", "succeeded"} =>
        \A t \in row.targets : said[t] # "none" => row.st[t] = said[t]

\* "CanaryStatusAborted means an operator stopped the workflow without broad push."
AbortedIsNarrow ==
    row.status = "aborted" => \A u \in Uids \ row.targets : "candidate" \notin got[u]

\* "CanaryStatusStopped means a machine-detectable stop condition halted the
\* canary": the row of a stopped canary names one.
StopIsExplained == row.status = "stopped" => StopReasons(row) # {}
=============================================================================
