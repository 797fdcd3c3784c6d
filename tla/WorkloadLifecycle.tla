------------------------- MODULE WorkloadLifecycle -------------------------
(***************************************************************************)
(* The life of a workload row: internal/opamp/server.go (what a message    *)
(* and a closed connection do to the registry and to the row), registry.go *)
(* and grace.go, internal/store/workloads.go, the janitor, and the archive *)
(* and delete requests.                                                    *)
(*                                                                         *)
(* Every critical section of the registry and of the grace controller, and *)
(* every SQL statement, is one action.  A UID has one session at a time,   *)
(* its messages are processed one after the other, and a session is        *)
(* released when no message of it is being processed (SessionOwnership).   *)
(* Time is abstract: a timer may fire and a retention deadline may pass    *)
(* between any two steps.                                                  *)
(***************************************************************************)
EXTENDS Naturals

CONSTANTS UIDs, Workloads,
          WorkloadsOf,  \* per UID, the fingerprints its descriptions may have
          NoWorkload,
          TimerIds,     \* bound: grace timers alive at the same time
          NoTimer,
          Healths,      \* the healths that messages report
          MayRestart,   \* the server may stop and start again
          StoreFails    \* a write to the database may fail

VARIABLES
    byWorkload, uidToWL, \* the registry
    unhealthy,           \* UIDs whose instance reported bad health
    timers,              \* g.timers
    entry,               \* per timer id, its graceTimer and callback
    row,                 \* per workload, its row in the database
    pc, wl, read,        \* per UID: its message handler, workload and copy of the row
    tail, tailWL,        \* per UID: the rest of a release, after s.mu
    archiving            \* the archive request that has passed its check

registryVars == <<byWorkload, uidToWL, unhealthy>>
graceVars == <<timers, entry>>
handlerVars == <<pc, wl, read>>
tailVars == <<tail, tailWL>>
vars == <<registryVars, graceVars, row, handlerVars, tailVars, archiving>>

Absent == [exists |-> FALSE, status |-> "disconnected", retention |-> FALSE, archived |-> FALSE]
Free == [of |-> NoWorkload, at |-> "free", superseded |-> FALSE]

\* What is in memory when the server starts.
Started ==
    [reg |-> [w \in Workloads |-> {}], uids |-> [u \in UIDs |-> NoWorkload],
     timers |-> [w \in Workloads |-> NoTimer], entry |-> [i \in TimerIds |-> Free],
     idle |-> [u \in UIDs |-> "idle"], none |-> [u \in UIDs |-> Absent]]

Memory(bw, uw, un, ts, es, p, w, r, t, tw, a) ==
    /\ bw = Started.reg /\ uw = Started.uids /\ un = {}
    /\ ts = Started.timers /\ es = Started.entry
    /\ p = [u \in UIDs |-> "closed"] /\ w = Started.uids /\ r = Started.none
    /\ t = Started.idle /\ tw = Started.uids /\ a = NoWorkload

Init ==
    /\ Memory(byWorkload, uidToWL, unhealthy, timers, entry, pc, wl, read, tail, tailWL, archiving)
    /\ row = [w \in Workloads |-> Absent]

---------------------------------------------------------------------------
(* The registry. *)

\* Variant: a status that is not one of the three.
AggregatedStatus_other(w) ==
    IF byWorkload[w] = {} THEN "disconnected"
    ELSE IF byWorkload[w] \cap unhealthy # {} THEN "degraded" ELSE "online"

\* Variant: a workload with an unhealthy instance only counts as disconnected.
AggregatedStatus_healthy(w) ==
    IF byWorkload[w] \ unhealthy = {} THEN "disconnected"
    ELSE IF byWorkload[w] \cap unhealthy # {} THEN "degraded" ELSE "connected"

AggregatedStatus(w) ==
    IF byWorkload[w] = {} THEN "disconnected"
    ELSE IF byWorkload[w] \cap unhealthy # {} THEN "degraded" ELSE "connected"

\* Variant: the instance stays in the bucket of the workload it leaves.
BindInstance_keep(u, w) ==
    /\ byWorkload' = [byWorkload EXCEPT ![w] = @ \cup {u}]
    /\ uidToWL' = [uidToWL EXCEPT ![u] = w]

BindInstance(u, w) ==
    /\ byWorkload' = [v \in Workloads |-> IF v = w THEN byWorkload[v] \cup {u}
                                                   ELSE byWorkload[v] \ {u}]
    /\ uidToWL' = [uidToWL EXCEPT ![u] = w]

UnbindInstance(u) ==
    /\ byWorkload' = [v \in Workloads |-> byWorkload[v] \ {u}]
    /\ uidToWL' = [uidToWL EXCEPT ![u] = NoWorkload]

Health(u, healthy) == unhealthy' = IF healthy THEN unhealthy \ {u} ELSE unhealthy \cup {u}

---------------------------------------------------------------------------
(* The grace controller. *)

\* The timer of w is stopped and its entry forgotten, unless it has fired and
\* waits for g.mu.
Stopped(w) ==
    IF timers[w] = NoTimer THEN {entry}
    ELSE {[entry EXCEPT ![timers[w]] = Free],
          [entry EXCEPT ![timers[w]].superseded = TRUE]}

Cancel(w) ==
    /\ entry' \in Stopped(w)
    /\ timers' = [timers EXCEPT ![w] = NoTimer]

Schedule(w) ==
    \E e \in Stopped(w), i \in TimerIds :
        /\ e[i] = Free
        /\ entry' = [e EXCEPT ![i] = [of |-> w, at |-> "armed", superseded |-> FALSE]]
        /\ timers' = [timers EXCEPT ![w] = i]

\* Variant: a timer that has been replaced or cancelled runs its callback.
GraceFires_stale(i) ==
    /\ entry[i].at = "armed"
    /\ timers' = [timers EXCEPT ![entry[i].of] = NoTimer]
    /\ entry' = [entry EXCEPT ![i].at = "count"]
    /\ UNCHANGED <<registryVars, row, handlerVars, tailVars, archiving>>

GraceFires(i) ==
    /\ entry[i].at = "armed"
    /\ IF timers[entry[i].of] = i
       THEN /\ timers' = [timers EXCEPT ![entry[i].of] = NoTimer]
            /\ entry' = [entry EXCEPT ![i].at = "count"]
       ELSE entry' = [entry EXCEPT ![i] = Free] /\ UNCHANGED timers
    /\ UNCHANGED <<registryVars, row, handlerVars, tailVars, archiving>>

GraceCounts(i) ==
    /\ entry[i].at = "count"
    /\ entry' = [entry EXCEPT ![i] = IF byWorkload[@.of] # {} THEN Free ELSE [@ EXCEPT !.at = "mark"]]
    /\ UNCHANGED <<timers, registryVars, row, handlerVars, tailVars, archiving>>

\* Variant: MarkWorkloadDisconnected sets no deadline.
GraceMarks_noDeadline(i) ==
    /\ entry[i].at = "mark"
    /\ entry' = [entry EXCEPT ![i] = Free]
    /\ row' = [row EXCEPT ![entry[i].of] = [@ EXCEPT !.status = "disconnected"]]
    /\ UNCHANGED <<timers, registryVars, handlerVars, tailVars, archiving>>

\* Variant: MarkWorkloadDisconnected skips archived rows.
GraceMarks_unarchived(i) ==
    /\ entry[i].at = "mark"
    /\ entry' = [entry EXCEPT ![i] = Free]
    /\ row' = [row EXCEPT ![entry[i].of] = IF ~ @.exists \/ @.archived THEN @
                 ELSE [@ EXCEPT !.status = "disconnected", !.retention = TRUE]]
    /\ UNCHANGED <<timers, registryVars, handlerVars, tailVars, archiving>>

GraceMarks(i) ==
    /\ entry[i].at = "mark"
    /\ entry' = [entry EXCEPT ![i] = Free]
    /\ \/ row' = [row EXCEPT ![entry[i].of] = IF ~ @.exists THEN @
                    ELSE [@ EXCEPT !.status = "disconnected", !.retention = TRUE]]
       \/ StoreFails /\ UNCHANGED row
    /\ UNCHANGED <<timers, registryVars, handlerVars, tailVars, archiving>>

---------------------------------------------------------------------------
(* Messages of an instance. *)

Step(u, from, to) == pc[u] = from /\ pc' = [pc EXCEPT ![u] = to]

Connect(u) ==
    /\ Step(u, "closed", "open")
    /\ UNCHANGED <<registryVars, graceVars, row, wl, read, tailVars, archiving>>

handleAgentDescription(u, w, healthy) ==
    /\ Step(u, "open", "cancel")
    /\ wl' = [wl EXCEPT ![u] = w]
    /\ BindInstance(u, w) /\ Health(u, healthy)
    /\ UNCHANGED <<graceVars, row, read, tailVars, archiving>>

CancelGrace(u) ==
    /\ Step(u, "cancel", "load")
    /\ Cancel(wl[u])
    /\ UNCHANGED <<registryVars, row, wl, read, tailVars, archiving>>

\* A message without description; a UID without a workload is asked for one.
handleKnownInstanceUpdate(u, healthy) ==
    /\ uidToWL[u] # NoWorkload
    /\ Step(u, "open", "refresh")
    /\ wl' = [wl EXCEPT ![u] = uidToWL[u]]
    /\ Health(u, healthy)
    /\ UNCHANGED <<byWorkload, uidToWL, graceVars, row, read, tailVars, archiving>>

\* GetWorkload: a handler without a row to change skips the write.
GetWorkload(u, from, to, without) ==
    /\ Step(u, from, IF row[wl[u]].exists THEN to ELSE without)
    /\ read' = [read EXCEPT ![u] = row[wl[u]]]
    /\ UNCHANGED <<registryVars, graceVars, row, wl, tailVars, archiving>>

Merge(u, from, to, r) ==
    /\ Step(u, from, to)
    /\ read' = [read EXCEPT ![u] = [r EXCEPT !.exists = TRUE, !.status = AggregatedStatus(wl[u])]]
    /\ UNCHANGED <<registryVars, graceVars, row, wl, tailVars, archiving>>

UpsertWorkload(u, from, to, failed) ==
    /\ \/ /\ Step(u, from, to)
          /\ row' = [row EXCEPT ![wl[u]] = read[u]]
       \/ StoreFails /\ Step(u, from, failed) /\ UNCHANGED row
    /\ UNCHANGED <<registryVars, graceVars, wl, read, tailVars, archiving>>

\* The description is written over the row that was read, without its deadline.
upsertWorkloadFromDescription(u) ==
    \/ GetWorkload(u, "load", "merge", "merge")
    \/ Merge(u, "merge", "upsert", [read[u] EXCEPT !.retention = FALSE])
    \/ UpsertWorkload(u, "upsert", "clear", "refresh")

ClearWorkloadRetention(u) ==
    /\ Step(u, "clear", "refresh")
    /\ \/ row' = [row EXCEPT ![wl[u]].retention = FALSE]
       \/ StoreFails /\ UNCHANGED row
    /\ UNCHANGED <<registryVars, graceVars, wl, read, tailVars, archiving>>

refreshWorkloadState(u) ==
    \/ GetWorkload(u, "refresh", "aggregate", "report")
    \/ Merge(u, "aggregate", "rewrite", read[u])
    \/ UpsertWorkload(u, "rewrite", "report", "report")

\* A message without remote config status ends here; one with a status writes
\* the row once more.
recordRemoteConfigStatus(u) ==
    \/ /\ Step(u, "report", "open")
       /\ wl' = [wl EXCEPT ![u] = NoWorkload] /\ read' = [read EXCEPT ![u] = Absent]
       /\ UNCHANGED <<registryVars, graceVars, row, tailVars, archiving>>
    \/ GetWorkload(u, "report", "store", "report")
    \/ UpsertWorkload(u, "store", "report", "report")

Handle(u) ==
    \/ CancelGrace(u)
    \/ upsertWorkloadFromDescription(u)
    \/ ClearWorkloadRetention(u)
    \/ refreshWorkloadState(u)
    \/ recordRemoteConfigStatus(u)

---------------------------------------------------------------------------
(* The release of a session. *)

\* Bound: the previous release of this UID has finished.
releaseSession(u) ==
    /\ Step(u, "open", "closed")
    /\ tail[u] = "idle"
    /\ UnbindInstance(u)
    /\ unhealthy' = unhealthy \ {u}
    /\ IF uidToWL[u] = NoWorkload THEN UNCHANGED tailVars
       ELSE /\ tail' = [tail EXCEPT ![u] = "count"]
            /\ tailWL' = [tailWL EXCEPT ![u] = uidToWL[u]]
    /\ UNCHANGED <<graceVars, row, wl, read, archiving>>

EndTail(u) ==
    /\ tail' = [tail EXCEPT ![u] = "idle"]
    /\ tailWL' = [tailWL EXCEPT ![u] = NoWorkload]

CountRemaining(u) ==
    /\ tail[u] = "count"
    /\ IF byWorkload[tailWL[u]] # {} THEN EndTail(u)
       ELSE tail' = [tail EXCEPT ![u] = "schedule"] /\ UNCHANGED tailWL
    /\ UNCHANGED <<registryVars, graceVars, row, handlerVars, archiving>>

ScheduleGrace(u) ==
    /\ tail[u] = "schedule"
    /\ Schedule(tailWL[u])
    /\ EndTail(u)
    /\ UNCHANGED <<registryVars, row, handlerVars, archiving>>

---------------------------------------------------------------------------
(* The janitor, the archive and delete requests, and a restart. *)

\* The rows of one pass are independent: each is an action of its own.
RunOnce(w) ==
    /\ row[w].exists /\ ~ row[w].archived /\ row[w].retention
    /\ row' = [row EXCEPT ![w].archived = TRUE]
    /\ UNCHANGED <<registryVars, graceVars, handlerVars, tailVars, archiving>>

handleArchiveWorkload(w) ==
    /\ archiving = NoWorkload
    /\ row[w].exists /\ row[w].status = "disconnected"
    /\ archiving' = w
    /\ UNCHANGED <<registryVars, graceVars, row, handlerVars, tailVars>>

ArchiveWorkload ==
    /\ archiving # NoWorkload
    /\ archiving' = NoWorkload
    /\ row' = [row EXCEPT ![archiving] = IF ~ @.exists THEN @
                 ELSE [@ EXCEPT !.status = "disconnected", !.retention = TRUE, !.archived = TRUE]]
    /\ UNCHANGED <<registryVars, graceVars, handlerVars, tailVars>>

handleDeleteWorkload(w) ==
    /\ row[w].exists
    /\ row' = [row EXCEPT ![w] = Absent]
    /\ UNCHANGED <<registryVars, graceVars, handlerVars, tailVars, archiving>>

Restart ==
    /\ MayRestart
    /\ Memory(byWorkload', uidToWL', unhealthy', timers', entry', pc', wl', read', tail', tailWL', archiving')
    /\ UNCHANGED row

Next ==
    \/ \E u \in UIDs :
         \/ Connect(u) \/ Handle(u) \/ releaseSession(u)
         \/ \E w \in WorkloadsOf[u], h \in Healths : handleAgentDescription(u, w, h)
         \/ \E h \in Healths : handleKnownInstanceUpdate(u, h)
         \/ CountRemaining(u) \/ ScheduleGrace(u)
    \/ \E i \in TimerIds : GraceFires(i) \/ GraceCounts(i) \/ GraceMarks(i)
    \/ \E w \in Workloads : RunOnce(w) \/ handleArchiveWorkload(w) \/ handleDeleteWorkload(w)
    \/ ArchiveWorkload
    \/ Restart

Spec == Init /\ [][Next]_vars

(* The runtime schedules started goroutines, timers fire, and the janitor's *)
(* ticker ticks.  Nothing is assumed of agents and operators.               *)
Fairness ==
    /\ \A u \in UIDs : WF_vars(Handle(u)) /\ WF_vars(CountRemaining(u)) /\ WF_vars(ScheduleGrace(u))
    /\ \A i \in TimerIds : WF_vars(GraceFires(i)) /\ WF_vars(GraceCounts(i)) /\ WF_vars(GraceMarks(i))
    /\ \A w \in Workloads : WF_vars(RunOnce(w))

LiveSpec == Spec /\ Fairness

---------------------------------------------------------------------------
(* Properties. *)

Rows == [exists : BOOLEAN, status : {"connected", "degraded", "disconnected"},
         retention : BOOLEAN, archived : BOOLEAN]

\* The type of the state: the registry and the grace timers in memory, and the
\* rows of the database.
TypeOK ==
    /\ byWorkload \in [Workloads -> SUBSET UIDs] /\ unhealthy \subseteq UIDs
    /\ uidToWL \in [UIDs -> Workloads \cup {NoWorkload}]
    /\ timers \in [Workloads -> TimerIds \cup {NoTimer}]
    /\ entry \in [TimerIds -> [of : Workloads \cup {NoWorkload},
                               at : {"free", "armed", "count", "mark"}, superseded : BOOLEAN]]
    /\ row \in [Workloads -> Rows] /\ read \in [UIDs -> Rows]
    /\ pc \in [UIDs -> {"closed", "open", "cancel", "load", "merge", "upsert", "clear",
                        "refresh", "aggregate", "rewrite", "report", "store"}]
    /\ wl \in [UIDs -> Workloads \cup {NoWorkload}]
    /\ tail \in [UIDs -> {"idle", "count", "schedule"}]
    /\ tailWL \in [UIDs -> Workloads \cup {NoWorkload}]
    /\ archiving \in Workloads \cup {NoWorkload}

\* The two maps of the registry are inverse to each other: what pushes are sent
\* to, what the status is computed from and what a closed connection removes
\* are the same instances, also when an instance changes its workload.
RegistryConsistent == \A w \in Workloads : byWorkload[w] = {u \in UIDs : uidToWL[u] = w}

Unshown(w) == row[w].exists /\ row[w].status # "disconnected" /\ byWorkload[w] = {}

\* A workload without instances that is still shown as connected is attended
\* to: the release of its last instance is under way, its grace timer is
\* pending, or the callback of one is running.
DisconnectIsAttended ==
    \A w \in Workloads : Unshown(w) =>
        \/ timers[w] # NoTimer
        \/ \E i \in TimerIds : entry[i].of = w /\ entry[i].at \in {"count", "mark"}
        \/ \E u \in UIDs : tailWL[u] = w

\* The callback of a timer that a new binding has cancelled, or that a later
\* release has replaced, never runs, even when it had fired already: the grace
\* period counts from the last disconnect.
SupersededNeverRuns == \A i \in TimerIds : entry[i].superseded => entry[i].at = "armed"

\* A message of an instance never writes its own workload as disconnected: the
\* instance stays in the registry until its handlers have finished.
HandlerSeesItself ==
    [][\A u \in DOMAIN pc : pc[u] \in {"upsert", "rewrite"} /\ row' # row /\ pc'[u] # pc[u]
         => row'[wl[u]].status # "disconnected"]_vars

\* A workload whose last instance has left is shown as disconnected, unless an
\* instance comes back or the row is deleted.
GraceFlips == \A w \in Workloads : []<>(~ Unshown(w))

\* A workload that stays without instances is archived in the end, also when
\* an operator has archived it before and its agents came and left again.
EmptyIsArchived ==
    \A w \in Workloads : []<>(row[w].exists /\ byWorkload[w] = {} => row[w].archived)

\* An archived workload that reconnects is not archived any more
\* (internal/store/workloads.go:306: "until it reconnects and UpsertWorkload
\* clears archived_at again").
ReconnectUnarchives ==
    [][\A u \in UIDs : pc[u] = "upsert" /\ pc'[u] = "clear" => ~ row'[wl[u]].archived]_vars

\* The janitor archives no workload that has an instance and whose messages
\* have all been processed (docs/users/configuration.md:107: "archived if it
\* has not reconnected within this window").
Settled(w) == byWorkload[w] # {} /\ \A u \in byWorkload[w] : pc[u] = "open"
JanitorSparesLive ==
    [][\A w \in Workloads : Settled(w) /\ RunOnce(w) => row'[w].archived = row[w].archived]_vars
=============================================================================
