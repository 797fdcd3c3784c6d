----------------------------- MODULE FleetViews -----------------------------
(***************************************************************************)
(* The views that aggregate the fleet: the drift dashboard                 *)
(* (internal/api/config_safety_drift.go), the topology of a workload       *)
(* (internal/api/workloads.go) and the version posture                     *)
(* (internal/api/fleet_version_intelligence.go).                           *)
(*                                                                         *)
(* A fleet is a sequence of workloads in the order of their names.  A hash *)
(* is "" when there is none; times are minutes.                            *)
(***************************************************************************)
EXTENDS SemVer, FiniteSets, Functions

CONSTANTS Fleets,       \* the fleets that are looked at
          Recommended,  \* the recommended versions of the requests
          NoPush, NoVersion

VARIABLES fleet, recommended, out

viewVars == <<fleet, recommended, out>>

---------------------------------------------------------------------------
(* The drift dashboard. *)

configDriftPendingThreshold == 15

isPendingPush(push) == push.status \in {"submitted", "sent", "applying"}

\* The hashes of the instances, or else the one the row remembers.
EffectiveHashes(c) ==
    LET live == {i.hash : i \in Range(c.instances)} \ {""}
    IN IF live = {} THEN {c.reported} \ {""} ELSE live

\* Variant: a push is in order as soon as one instance runs the config.
deriveDriftStatus_any(item) ==
    CASE ~ item.accepts -> "remote_config_unsupported"
      [] item.accepts /\ item.missing -> "missing_effective_config"
      [] OTHER -> IF item.expected \in item.effective \cup {""}
                  THEN IF item.pendingTooLong THEN "pending_too_long" ELSE "in_sync"
                  ELSE "drifted"

\* One hash that is not the expected one.
Differs(item) ==
    item.expected # "" /\ Cardinality(item.effective) = 1 /\ item.effective # {item.expected}

deriveDriftStatus(item) ==
    IF ~ item.accepts THEN "remote_config_unsupported"
    ELSE IF item.missing THEN "missing_effective_config"
    ELSE IF Cardinality(item.effective) > 1 THEN "heterogeneous_effective_config"
    ELSE IF Differs(item) THEN "drifted"
    ELSE IF item.pendingTooLong THEN "pending_too_long" ELSE "in_sync"

Reason(r, holds) == IF holds THEN {r} ELSE {}

deriveDriftReasons(item) ==
    Reason("remote_config_unsupported", ~ item.accepts)
    \cup Reason("missing_effective_config", item.missing)
    \cup Reason("heterogeneous_effective_config", Cardinality(item.effective) > 1)
    \cup Reason("drifted", Differs(item))
    \cup Reason("pending_too_long", item.pendingTooLong)
    \cup Reason("config_drift_alert", "config_drift" \in item.alerts)
    \cup Reason("version_outdated", "version_outdated" \in item.alerts)
    \cup Reason("unknown_incomplete_components", item.incomplete)

hasUnknownIncompleteComponents(c) == ~ {"receivers", "processors", "exporters"} \subseteq c.categories

buildConfigDriftItem(c) ==
    LET effective == EffectiveHashes(c)
        expected == IF c.active = "" /\ c.push # NoPush THEN c.push.config ELSE c.active
        item == [name |-> c.name, env |-> c.env, accepts |-> c.accepts, alerts |-> c.alerts,
                 expected |-> expected, effective |-> effective,
                 incomplete |-> hasUnknownIncompleteComponents(c),
                 missing |-> expected # "" /\ effective = {},
                 pendingTooLong |-> c.push # NoPush /\ isPendingPush(c.push)
                                    /\ c.push.age > configDriftPendingThreshold]
    IN [data |-> item, status |-> deriveDriftStatus(item), reasons |-> deriveDriftReasons(item)]

configDriftGroupKey(i) == i.data.env
configStateKey(i) == <<i.data.expected, i.data.effective>>

Alerted(i) == i.status = "drifted" \/ "config_drift" \in i.data.alerts

\* Variant: an alert does not move an item up.
rankConfigDriftStatus_status(i) ==
    CASE i.status = "drifted" -> 0
      [] i.status \in {"missing_effective_config", "heterogeneous_effective_config",
                       "remote_config_unsupported"} -> 1
      [] i.status = "pending_too_long" -> 2
      [] OTHER -> 3

rankConfigDriftStatus(i) ==
    IF Alerted(i) THEN 0
    ELSE IF i.status \in {"missing_effective_config", "heterogeneous_effective_config",
                          "remote_config_unsupported"} THEN 1
    ELSE IF i.status = "pending_too_long" THEN 2 ELSE 3

summarizeConfigDriftItem(items) ==
    LET Count(P(_)) == Cardinality({k \in DOMAIN items : P(items[k])})
    IN [drifted |-> Count(Alerted),
        pending |-> Count(LAMBDA i : i.data.pendingTooLong),
        missing |-> Count(LAMBDA i : i.data.missing),
        unsupported |-> Count(LAMBDA i : ~ i.data.accepts),
        outdated |-> Count(LAMBDA i : "version_outdated" \in i.data.alerts),
        incomplete |-> Count(LAMBDA i : i.data.incomplete)]

\* Variant: a group is judged by the configs that its members should run.
heterogeneousGroups_expected(items) ==
    {g \in {configDriftGroupKey(items[k]) : k \in DOMAIN items} \ {"unknown"} :
        Cardinality({items[k].data.expected : k \in {j \in DOMAIN items : configDriftGroupKey(items[j]) = g}}) > 1}

heterogeneousGroups(items) ==
    {g \in {configDriftGroupKey(items[k]) : k \in DOMAIN items} \ {"unknown"} :
        Cardinality({configStateKey(items[k]) : k \in {j \in DOMAIN items : configDriftGroupKey(items[j]) = g}}) > 1}

\* Between equal ranks the names decide.
handleListConfigDrift(f) ==
    LET collectors == {k \in DOMAIN f : f[k].type = "collector"}
        built == [k \in collectors |-> buildConfigDriftItem(f[k])]
        groups == heterogeneousGroups(built)
        items == [k \in collectors |->
                    IF configDriftGroupKey(built[k]) \notin groups THEN built[k]
                    ELSE [built[k] EXCEPT !.reasons = @ \cup {"group_heterogeneous_config"}]]
        Before(j, k) == \/ rankConfigDriftStatus(items[j]) < rankConfigDriftStatus(items[k])
                        \/ rankConfigDriftStatus(items[j]) = rankConfigDriftStatus(items[k]) /\ j < k
        places == 1 .. Cardinality(collectors)
        order == CHOOSE p \in Injection(places, collectors) : \A j, k \in places : j < k => Before(p[j], p[k])
    IN [items |-> [k \in places |-> items[order[k]]],
        summary |-> summarizeConfigDriftItem(items), groups |-> groups]

---------------------------------------------------------------------------
(* The topology of a workload: instances is a sequence. *)

Statuses == {"no_status", "sent", "applying", "applied", "failed"}

\* Variant: the statuses of instances that take no config are counted, too.
RemoteConfigStatusCounts_all(instances) ==
    [s \in Statuses |-> Cardinality({k \in DOMAIN instances : instances[k].status = s})]

\* An instance without a status counts as no_status.
RemoteConfigStatusCounts(instances) ==
    [s \in Statuses |-> Cardinality({k \in DOMAIN instances :
                                        instances[k].accepts /\ instances[k].status = s})]

summarizeWorkloadTopology(instances, active) ==
    LET Count(P(_)) == Cardinality({k \in DOMAIN instances : P(instances[k])})
        counts == RemoteConfigStatusCounts(instances)
        versions == {i.version : i \in Range(instances)} \ {NoVersion}
        hashes == {i.hash : i \in Range(instances)} \ {""}
    IN [connected |-> Len(instances),
        healthy |-> Count(LAMBDA i : i.healthy), unhealthy |-> Count(LAMBDA i : ~ i.healthy),
        capable |-> Count(LAMBDA i : i.accepts), counts |-> counts,
        drifted |-> IF active = "" THEN 0 ELSE Count(LAMBDA i : i.hash \notin {"", active}),
        reasons |-> Reason("mixed_versions", Cardinality(versions) > 1)
                    \cup Reason("mixed_effective_config_hashes", Cardinality(hashes) > 1)
                    \cup Reason("unhealthy_instances", \E i \in Range(instances) : ~ i.healthy)
                    \cup Reason("mixed_remote_config_statuses",
                                Cardinality({s \in Statuses : counts[s] > 0}) > 1)
                    \cup Reason("applying_remote_config", counts["applying"] > 0)
                    \cup Reason("failed_remote_config", counts["failed"] > 0)]

---------------------------------------------------------------------------
(* The version posture. *)

Comparable(v) == v # NoVersion /\ Compare(v, v).ok

fleetVersionStatus(c, rec) ==
    IF c.type # "collector" THEN "not_applicable"
    ELSE IF ~ Comparable(rec) \/ c.version = NoVersion THEN "unknown"
    ELSE LET r == Compare(c.version, rec)
         IN IF ~ r.ok THEN "unknown"
            ELSE IF r.cmp < 0 THEN "below_recommended"
            ELSE IF r.cmp > 0 THEN "above_recommended" ELSE "at_recommended"

\* One attribute stands for the list of them: of each, the label comes before
\* the key of the fingerprint.
workloadGroup(c) == IF c.label # "" THEN c.label ELSE IF c.key # "" THEN c.key ELSE "ungrouped"

\* Variant: the version is not part of the key, so an entry has several.
MatrixKey_group(c) == <<workloadGroup(c), c.type, c.status>>

MatrixKey(c) == <<workloadGroup(c), c.type, c.status, c.version>>

\* An entry has the version status of its first workload.
VersionMatrix(f, rec) ==
    LET Members(key) == {k \in DOMAIN f : MatrixKey(f[k]) = key}
    IN {[status |-> fleetVersionStatus(f[CHOOSE k \in Members(key) : \A j \in Members(key) : k <= j], rec),
         members |-> Members(key)] : key \in {MatrixKey(f[k]) : k \in DOMAIN f}}

InvalidVersions(f, rec) ==
    {k \in DOMAIN f : f[k].type = "collector" /\ Comparable(rec)
                       /\ (f[k].version = NoVersion \/ ~ Compare(f[k].version, rec).ok)}

CollectorsBelowRecommended(f, rec) ==
    {k \in DOMAIN f : f[k].type = "collector" /\ Comparable(rec) /\ f[k].version # NoVersion
                       /\ Compare(f[k].version, rec).ok /\ Compare(f[k].version, rec).cmp < 0}

handleFleetVersionIntelligence(f, rec) ==
    [matrix |-> VersionMatrix(f, rec), invalid |-> InvalidVersions(f, rec),
     below |-> CollectorsBelowRecommended(f, rec)]

---------------------------------------------------------------------------

ViewInit == fleet \in Fleets /\ recommended \in Recommended /\ out = << >>

\* An operator looks at the three views of one fleet.
Look ==
    /\ out = << >>
    /\ out' = [drift |-> handleListConfigDrift(fleet),
               topology |-> [k \in DOMAIN fleet |->
                               summarizeWorkloadTopology(fleet[k].instances, fleet[k].active)],
               versions |-> handleFleetVersionIntelligence(fleet, recommended)]
    /\ UNCHANGED <<fleet, recommended>>

ViewSpec == ViewInit /\ [][Look]_viewVars

---------------------------------------------------------------------------
(* Properties. *)

Looked == out # << >>
Named(name) == CHOOSE c \in Range(fleet) : c.name = name

\* A collector is in sync exactly when it takes configs, no reporting instance
\* of it runs another config than the one expected or than its siblings, and no
\* push of it has been pending for more than 15 minutes; a status other than
\* in sync is always among the reasons (config_safety_drift.go:74-183).
InSyncIsExact ==
    Looked => \A i \in Range(out.drift.items) :
        LET c == Named(i.data.name)
            wanted == IF c.active = "" /\ c.push # NoPush THEN c.push.config ELSE c.active
            running == {c.instances[k].hash : k \in DOMAIN c.instances} \ {""}
            believed == IF running = {} THEN {c.reported} \ {""} ELSE running
        IN /\ i.status = "in_sync" <=>
                 /\ c.accepts
                 /\ \A x, y \in believed : x = y
                 /\ wanted # "" => believed = {wanted}
                 /\ c.push # NoPush /\ c.push.age > 15 => c.push.status \notin {"submitted", "sent", "applying"}
           /\ i.status # "in_sync" => i.status \in i.reasons

\* The dashboard and its summary agree: the items that it counts as drifted are
\* the ones it shows first, and nothing in sync without an alert comes before
\* an item that is not (config_safety_drift.go:207-240).
WorstIsFirst ==
    Looked => LET items == out.drift.items IN
        /\ \A k \in DOMAIN items : k <= out.drift.summary.drifted <=>
               items[k].status = "drifted" \/ "config_drift_alert" \in items[k].reasons
        /\ \A j, k \in DOMAIN items : j < k /\ items[j].status = "in_sync"
               /\ "config_drift_alert" \notin items[j].reasons
               => items[k].status = "in_sync" /\ "config_drift_alert" \notin items[k].reasons

\* A collector is marked as one of a heterogeneous group exactly when another
\* one of its environment is expected to run, or runs, something else; who is
\* alone or has no environment is not (config_safety_drift.go:43-63).
GroupMarkIsMutual ==
    Looked => \A i \in Range(out.drift.items) :
        "group_heterogeneous_config" \in i.reasons <=>
            \E j \in Range(out.drift.items) :
                /\ j.data.env = i.data.env /\ i.data.env # "unknown"
                /\ <<j.data.expected, j.data.effective>> # <<i.data.expected, i.data.effective>>

\* The topology of a workload adds up: every instance is healthy or not, every
\* instance that takes configs is counted under one status, and two hashes that
\* make the dashboard call a workload heterogeneous make its topology so
\* (workloads.go:122-202 against config_safety_drift.go:74-123).
TopologyAddsUp ==
    Looked => \A k \in DOMAIN fleet : LET t == out.topology[k] IN
        /\ t.healthy + t.unhealthy = t.connected
        /\ t.counts["no_status"] + t.counts["sent"] + t.counts["applying"] + t.counts["applied"]
             + t.counts["failed"] = t.capable
        /\ \A i \in Range(out.drift.items) : i.data.name = fleet[k].name =>
             ("heterogeneous_effective_config" \in i.reasons <=> "mixed_effective_config_hashes" \in t.reasons)

\* Every workload is in one entry of the matrix, whose version status is its
\* own, and with a comparable recommendation every collector is below it,
\* invalid, or at it or above, in one way only (fleet_version_intelligence.go:42-83).
PostureIsAPartition ==
    Looked => LET v == out.versions IN
        /\ \A k \in DOMAIN fleet : \E e \in v.matrix :
              /\ k \in e.members /\ e.status = fleetVersionStatus(fleet[k], recommended)
              /\ \A d \in v.matrix : k \in d.members => d = e
              /\ k \in v.below <=> e.status = "below_recommended"
              /\ k \in v.invalid <=> e.status = "unknown" /\ Comparable(recommended)
        /\ v.below \cap v.invalid = {}

\* The views of one fleet agree: a collector is in sync exactly when every
\* reporting instance runs what it is expected to and no push is overdue, what
\* is counted as drifted comes first, heterogeneity is mutual, the topology adds
\* up, and every workload is in one entry of the version matrix.
ViewsAgree == InSyncIsExact /\ WorstIsFirst /\ GroupMarkIsMutual /\ TopologyAddsUp /\ PostureIsAPartition
=============================================================================
