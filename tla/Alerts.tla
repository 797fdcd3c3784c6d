------------------------------- MODULE Alerts -------------------------------
(***************************************************************************)
(* The alert engine, internal/alerts/engine.go, over internal/store:       *)
(* a pass of Evaluate reads the workloads page by page and evaluates the   *)
(* three rules on each row it has read, with a look-up and an insert or an *)
(* update of their own for each, while workloads come and go, pushes are   *)
(* made and reported and operators resolve alerts by hand.                 *)
(*                                                                         *)
(* Times are abstracted to what the rules ask of them: LastSeenAt and the  *)
(* time of a push are past the five minutes or not.  A version is "old",   *)
(* below the minimum, "new", or "unknown" where it does not compare.       *)
(***************************************************************************)
EXTENDS Naturals, Sequences, FiniteSets

CONSTANTS N,            \* workloads 1 .. N, in the order of their ids
          PageSize,     \* 500
          AlertIds, NoAlert,
          MaxPushes,    \* bound on the pushes to a workload
          Rules,        \* the rules whose conditions change in this instance
          LookupFails   \* a look-up of an open alert may fail

VARIABLES wl,      \* workloads
          rows,    \* workload_configs of each workload, oldest first
          alert,   \* the open alerts: AlertIds -> their workload and rule, or NoAlert
          told,    \* what the browsers last heard of an alert: "none", "fired"
          minSet,  \* MIN_AGENT_VERSION is set
          eng      \* the pass

vars == <<wl, rows, alert, told, minSet, eng>>

Workloads == 1 .. N
Down == 1
Drift == 2
Outdated == 3

Idle == [at |-> "idle", cursor |-> 0, page |-> <<>>, full |-> FALSE, rule |-> Down, drifted |-> FALSE, existing |-> NoAlert]

Init ==
    /\ wl = [w \in Workloads |-> [stale |-> FALSE, version |-> "unknown", archived |-> FALSE]]
    /\ rows = [w \in Workloads |-> <<>>] /\ alert = [i \in AlertIds |-> NoAlert]
    /\ told = [i \in AlertIds |-> "none"] /\ minSet = TRUE /\ eng = Idle

Engine(from, new) == eng.at = from /\ eng' = new

Open(w, rule) == {i \in AlertIds : alert[i] = <<w, rule>>}

---------------------------------------------------------------------------
(* Evaluate *)

StartPass == Engine("idle", [Idle EXCEPT !.at = "page"]) /\ UNCHANGED <<wl, rows, alert, told, minSet>>

\* The ids of a page: the first of those after the cursor.
ListWorkloadsPage(after) ==
    LET ids == {w \in Workloads : ~ wl[w].archived /\ w > after}
    IN {w \in ids : Cardinality({v \in ids : v < w}) < PageSize}

\* Variant: a full page ends the pass.
MorePages_none(ids) == FALSE

MorePages(ids) == Cardinality(ids) = PageSize

evaluatePages ==
    LET ids == ListWorkloadsPage(eng.cursor)
        snapshot == [w \in ids |-> [stale |-> wl[w].stale, version |-> wl[w].version]]
        last == CHOOSE w \in ids : \A v \in ids : v <= w
    IN /\ Engine("page", IF ids = {} THEN Idle
                         ELSE [Idle EXCEPT !.at = "lookup", !.page = snapshot, !.cursor = last, !.full = MorePages(ids)])
       /\ UNCHANGED <<wl, rows, alert, told, minSet>>

\* The workload of the page whose turn it is, and the rest of the page.
Turn(page) == CHOOSE w \in DOMAIN page : \A v \in DOMAIN page : w <= v
Rest(page) == [w \in DOMAIN page \ {Turn(page)} |-> page[w]]
Seen == eng.page[Turn(eng.page)]

\* Variant: the loop over the page does not end with it.
Advance_past(e) ==
    CASE e.rule = Down -> [e EXCEPT !.rule = Drift, !.at = "pending"]
      [] e.rule = Drift -> [e EXCEPT !.rule = Outdated, !.at = "lookup"]
      [] e.rule = Outdated -> [e EXCEPT !.rule = Down, !.at = "lookup", !.page = Rest(@)]

\* The next rule, the next workload of the page, the next page or the end.
Advance(e) ==
    CASE e.rule = Down -> [e EXCEPT !.rule = Drift, !.at = "pending", !.existing = NoAlert]
      [] e.rule = Drift -> [e EXCEPT !.rule = Outdated, !.at = "lookup", !.existing = NoAlert]
      [] e.rule = Outdated /\ Rest(e.page) # <<>> -> [e EXCEPT !.rule = Down, !.at = "lookup", !.page = Rest(@), !.existing = NoAlert]
      [] OTHER -> IF e.full THEN [Idle EXCEPT !.at = "page", !.cursor = e.cursor] ELSE Idle

\* GetLatestPendingWorkloadConfig: the newest push still in flight.
GetLatestPendingWorkloadConfig(w) ==
    LET flight == {k \in 1 .. Len(rows[w]) : rows[w][k].status = "flight"}
    IN {k \in flight : \A l \in flight : l <= k}

ReadPending ==
    LET w == Turn(eng.page) p == GetLatestPendingWorkloadConfig(w) IN
    /\ Engine("pending", [eng EXCEPT !.at = "lookup", !.drifted = \E k \in p : rows[w][k].old])
    /\ UNCHANGED <<wl, rows, alert, told, minSet>>

\* evaluateVersionOutdated returns when there is no minimum or no version.
SkipVersion ==
    /\ eng.rule = Outdated /\ (~ minSet \/ Seen.version = "unknown")
    /\ Engine("lookup", Advance(eng)) /\ UNCHANGED <<wl, rows, alert, told, minSet>>

Applies == eng.rule = Outdated => minSet /\ Seen.version # "unknown"

Lookup ==
    LET found == Open(Turn(eng.page), eng.rule) IN
    /\ eng.at = "lookup" /\ Applies
    /\ \/ found = {} /\ Engine("lookup", [eng EXCEPT !.at = "act", !.existing = NoAlert])
       \/ \E i \in found : Engine("lookup", [eng EXCEPT !.at = "act", !.existing = i])
    /\ UNCHANGED <<wl, rows, alert, told, minSet>>

\* Variant: as for the other rules, the error is not looked at.
FailedLookup_ignored == [eng EXCEPT !.at = "act", !.existing = NoAlert]

\* An error ends the rule for workload_down; the others go on as if there was no alert.
FailedLookup == IF eng.rule = Down THEN Advance(eng) ELSE [eng EXCEPT !.at = "act", !.existing = NoAlert]

LookupError ==
    /\ LookupFails /\ Applies /\ Engine("lookup", FailedLookup)
    /\ UNCHANGED <<wl, rows, alert, told, minSet>>

Condition ==
    CASE eng.rule = Down -> Seen.stale
      [] eng.rule = Drift -> eng.drifted
      [] eng.rule = Outdated -> Seen.version = "old"

\* Variant: an alert is fired whether or not one is open.
MayFire_again == Condition

MayFire == Condition /\ eng.existing = NoAlert

\* CreateAlert, the broadcast and the notifiers.
Fire ==
    /\ eng.at = "act" /\ MayFire
    /\ \E i \in AlertIds :
          /\ alert[i] = NoAlert /\ i # eng.existing
          /\ \A j \in AlertIds : alert[j] = NoAlert /\ j # eng.existing => i <= j
          /\ alert' = [alert EXCEPT ![i] = <<Turn(eng.page), eng.rule>>]
          /\ told' = [told EXCEPT ![i] = "fired"]
    /\ Engine("act", Advance(eng)) /\ UNCHANGED <<wl, rows, minSet>>

\* Variant: only the operators resolve alerts.
MayResolve_not == FALSE

MayResolve == ~ Condition /\ eng.existing # NoAlert

\* ResolveAlert; the alert may have been resolved by hand since the look-up.
Resolve ==
    /\ eng.at = "act" /\ MayResolve
    /\ alert' = [alert EXCEPT ![eng.existing] = NoAlert]
    /\ Engine("act", Advance(eng)) /\ UNCHANGED <<wl, rows, told, minSet>>

Nothing ==
    /\ eng.at = "act" /\ ~ MayFire /\ ~ MayResolve
    /\ Engine("act", Advance(eng)) /\ UNCHANGED <<wl, rows, alert, told, minSet>>

---------------------------------------------------------------------------
(* Around the engine *)

\* An operator resolves an alert.
handleResolveAlert(i) ==
    /\ alert[i] # NoAlert /\ alert' = [alert EXCEPT ![i] = NoAlert]
    /\ UNCHANGED <<wl, rows, told, minSet, eng>>

Workload(w, new) == wl' = [wl EXCEPT ![w] = new] /\ UNCHANGED <<rows, alert, told, minSet, eng>>

\* LastSeenAt ages.
Silence(w) == Down \in Rules /\ ~ wl[w].stale /\ Workload(w, [wl[w] EXCEPT !.stale = TRUE])

\* A message handler writes the row of its workload back: seen just now, and
\* archived as it was when the handler read it, which may be before the archive.
Heard(w, archived) ==
    /\ (wl[w].stale \/ wl[w].archived) /\ (archived => wl[w].archived)
    /\ Workload(w, [wl[w] EXCEPT !.stale = FALSE, !.archived = archived])

\* The janitor, or an operator.
Archive(w) == Down \in Rules /\ ~ wl[w].archived /\ Workload(w, [wl[w] EXCEPT !.archived = TRUE])
ReportsVersion(w, v) == Outdated \in Rules /\ wl[w].version # v /\ Workload(w, [wl[w] EXCEPT !.version = v])

Rows(w, new) == rows' = [rows EXCEPT ![w] = new] /\ UNCHANGED <<wl, alert, told, minSet, eng>>

Push(w) ==
    /\ Drift \in Rules /\ Len(rows[w]) < MaxPushes
    /\ Rows(w, Append(rows[w], [status |-> "flight", old |-> FALSE]))

\* The agent reports on a push it has received, which is the last it received.
Report(w, k, s) ==
    /\ rows[w][k].status = "flight" /\ \A l \in k + 1 .. Len(rows[w]) : rows[w][l].status = "flight"
    /\ Rows(w, [rows[w] EXCEPT ![k].status = s])

PushAges(w, k) ==
    /\ ~ rows[w][k].old /\ \A l \in 1 .. k - 1 : rows[w][l].old
    /\ Rows(w, [rows[w] EXCEPT ![k].old = TRUE])

\* The server is restarted without MIN_AGENT_VERSION.
Unset == Outdated \in Rules /\ minSet /\ minSet' = FALSE /\ eng' = Idle /\ UNCHANGED <<wl, rows, alert, told>>

EngineStep == StartPass \/ evaluatePages \/ ReadPending \/ SkipVersion \/ Lookup \/ Fire \/ Resolve \/ Nothing

Next ==
    \/ EngineStep \/ LookupError \/ Unset
    \/ \E i \in AlertIds : handleResolveAlert(i)
    \/ \E w \in Workloads :
          \/ Silence(w) \/ (\E archived \in BOOLEAN : Heard(w, archived)) \/ Archive(w) \/ Push(w)
          \/ \E v \in {"old", "new"} : ReportsVersion(w, v)
          \/ \E k \in 1 .. Len(rows[w]) : PushAges(w, k) \/ \E s \in {"applied", "failed"} : Report(w, k, s)

Spec == Init /\ [][Next]_vars

\* The engine's goroutine runs, and not every look-up fails.
FairSpec == Spec /\ WF_vars(EngineStep) /\ SF_vars(Lookup)
---------------------------------------------------------------------------

TypeOK ==
    /\ \A w \in Workloads : wl[w].version \in {"unknown", "old", "new"} /\ Len(rows[w]) <= MaxPushes
    /\ \A i \in AlertIds : alert[i] \in (Workloads \X {Down, Drift, Outdated}) \cup {NoAlert}
    /\ told \in [AlertIds -> {"none", "fired"}] /\ minSet \in BOOLEAN
    /\ eng.at \in {"idle", "page", "pending", "lookup", "act"} /\ eng.existing \in AlertIds \cup {NoAlert}
    /\ eng.at \in {"pending", "lookup", "act"} => eng.page # <<>>

\* A condition has one open alert, although operators resolve alerts between
\* the look-up of an open alert and what the engine does about it.
OneOpenAlert == \A w \in Workloads, r \in {Down, Drift, Outdated} : \A i, j \in Open(w, r) : i = j

\* The most severe rule keeps to this when look-ups fail.
OneDownAlert == \A w \in Workloads : \A i, j \in Open(w, Down) : i = j

\* A workload that stays silent has a workload_down alert in the end, on
\* whatever page it is.
SilenceIsAlerted ==
    \A w \in Workloads : []<>(wl[w].stale /\ ~ wl[w].archived => Open(w, Down) # {})

\* The alert of a workload that is back is resolved in the end, even one that
\* was fired on a row read before it came back, unless the workload is archived:
\* a pass does not look at archived workloads.
RecoveryIsSeen ==
    \A w \in Workloads : []<>(~ wl[w].stale /\ ~ wl[w].archived => Open(w, Down) = {})

\* What the documentation says of workload_down: the alert is resolved once the
\* workload has reconnected.
ReconnectEndsDown == \A w \in Workloads : []<>(~ wl[w].stale => Open(w, Down) = {})

Latest(w) == rows[w][Len(rows[w])]

\* What the documentation says of config_drift: the alert is resolved once the
\* workload has applied the configuration it was sent last.
AppliedEndsDrift ==
    \A w \in Workloads :
        (rows[w] # <<>> /\ Latest(w).status = "applied") ~> (Open(w, Drift) = {} \/ Latest(w).status # "applied")

\* What the documentation says of version_outdated: unsetting the minimum
\* resolves the alerts.
UnsetEndsOutdated == \A w \in Workloads : ~ minSet ~> Open(w, Outdated) = {}

\* What the documentation says of alert_update: browsers hear of the end of an
\* alert.
ResolutionIsBroadcast == \A i \in AlertIds : told[i] = "fired" /\ alert[i] = NoAlert ~> told[i] # "fired"
=============================================================================
