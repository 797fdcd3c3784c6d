-------------------------- MODULE WorkloadIdentity --------------------------
(***************************************************************************)
(* What agents say of themselves, and what is kept of it: the fingerprint  *)
(* (internal/opamp/fingerprint.go), the type, version, labels and          *)
(* components of the workload row, the versions in the registry and the    *)
(* log of workload events (internal/opamp/server.go,                       *)
(* internal/store/workloads.go and workload_events.go).                    *)
(*                                                                         *)
(* A UID's messages are processed one after the other; those of different  *)
(* UIDs interleave at every SQL statement.  The event of a release is      *)
(* written after the connection map is unlocked, so it also interleaves    *)
(* with the next session of the same UID.  The status and the retention    *)
(* of the row are in WorkloadLifecycle.                                    *)
(***************************************************************************)
EXTENDS Naturals, Sequences, FiniteSets

CONSTANTS UIDs,
          Descriptions, \* per UID, the descriptions it may send
          MaxMessages,  \* bound: messages of a UID
          MaxReleases,  \* bound: releases of a UID
          MayDelete,    \* an operator deletes workloads
          None

VARIABLES
    registry, \* per UID, its instance: workload and version
    row,      \* the workloads table: a function on the ids it holds
    log,      \* workload_events by id, with None for a deleted row: an id is not used again
    h,        \* per UID, its message handler
    tails,    \* per UID, the releases whose event is still to be written: number and workload
    agent     \* per UID, the agent

vars == <<registry, row, log, h, tails, agent>>

---------------------------------------------------------------------------
(* What a description says.  A description gives each attribute a value,   *)
(* "" where it has none.                                                   *)

flattenAttrs(d) ==
    [k \in DOMAIN d.identifying |->
        IF d.nonIdentifying[k] # "" THEN d.nonIdentifying[k] ELSE d.identifying[k]]

k8sWorkloadAttrs == <<"k8s.deployment.name", "k8s.daemonset.name", "k8s.statefulset.name",
                      "k8s.job.name", "k8s.cronjob.name">>

\* Variant: the pod is part of the identity.
Fingerprint_pod(a, u) ==
    LET named == {i \in DOMAIN k8sWorkloadAttrs : a[k8sWorkloadAttrs[i]] # ""}
    IN IF a["k8s.namespace.name"] # "" /\ named # {}
       THEN <<"k8s", a["k8s.cluster.name"], a["k8s.namespace.name"], a["k8s.pod.name"]>>
       ELSE IF a["host.name"] # "" THEN <<"host", a["service.name"], a["host.name"]>>
       ELSE <<"uid", u>>

\* The id is the hash of this tuple, and its keys are the tuple's elements.
Fingerprint(a, u) ==
    LET named == {i \in DOMAIN k8sWorkloadAttrs : a[k8sWorkloadAttrs[i]] # ""}
        first == CHOOSE i \in named : \A j \in named : i <= j
        cluster == IF a["k8s.cluster.name"] = "" THEN "unknown" ELSE a["k8s.cluster.name"]
    IN IF a["k8s.namespace.name"] # "" /\ named # {}
       THEN <<"k8s", cluster, a["k8s.namespace.name"],
              k8sWorkloadAttrs[first], a[k8sWorkloadAttrs[first]]>>
       ELSE IF a["host.name"] # "" THEN <<"host", a["service.name"], a["host.name"]>>
       ELSE <<"uid", u>>

isCollectorName(name) == name \in {"otelcol", "otelcol-contrib", "io.opentelemetry.collector"}

classifyAgent(a) ==
    IF \/ a["otelcol.version"] # ""
       \/ a["os.description"] = "otelcol"
       \/ a["telemetry.sdk.language"] = "" /\ isCollectorName(a["service.name"])
    THEN "collector" ELSE "sdk"

\* The attributes with columns of their own are no labels, and one with the
\* trusted prefix is a label only if the row has it already.
Projected == {"service.name", "service.version"}
Trusted == {"otel.magnify/selector.env"}
Labels(a, old) ==
    [k \in DOMAIN a |-> IF k \in Trusted THEN old[k] ELSE IF k \in Projected THEN "" ELSE a[k]]

---------------------------------------------------------------------------
(* State. *)

NoInstance == [wl |-> None, version |-> ""]
Idle == [at |-> "idle", wl |-> None, read |-> None, attrs |-> None, comps |-> None,
         event |-> None, ask |-> FALSE]

\* An agent: whether its session is open, its last description, whether it has
\* been asked for its components and has sent them, and its budget.
NewAgent == [open |-> FALSE, attrs |-> None, ask |-> FALSE, answered |-> FALSE,
             messages |-> 0, releases |-> 0]

Init ==
    /\ registry = [u \in UIDs |-> NoInstance]
    /\ row = << >> /\ log = << >>
    /\ h = [u \in UIDs |-> Idle]
    /\ tails = [u \in UIDs |-> {}]
    /\ agent = [u \in UIDs |-> NewAgent]

Step(u, from, new) == h[u].at = from /\ h' = [h EXCEPT ![u] = new]

Connect(u) ==
    /\ ~ agent[u].open
    /\ agent' = [agent EXCEPT ![u].open = TRUE]
    /\ UNCHANGED <<registry, row, log, h, tails>>

Sends(u) == agent[u].open /\ agent[u].messages < MaxMessages

---------------------------------------------------------------------------
(* A message with a description. *)

\* Variant: the version of the row is taken for the instance's.
emitBindEvent_row(u, w, version) ==
    LET e == [wl |-> w, uid |-> u, type |-> "connected", version |-> version, prev |-> ""]
    IN IF registry[u] = NoInstance THEN e
       ELSE IF w \in DOMAIN row /\ row[w].version # version
       THEN [e EXCEPT !.type = "version_changed", !.prev = row[w].version]
       ELSE None

\* The event of a binding, if there is one.
emitBindEvent(u, w, version) ==
    LET e == [wl |-> w, uid |-> u, type |-> "connected", version |-> version, prev |-> ""]
    IN IF registry[u] = NoInstance THEN e
       ELSE IF registry[u].version # "" /\ registry[u].version # version
       THEN [e EXCEPT !.type = "version_changed", !.prev = registry[u].version]
       ELSE None

\* PreviousVersion, and BindInstance: no step of another UID changes either.
handleAgentDescription(u, d, comps) ==
    LET a == flattenAttrs(d)
        w == Fingerprint(a, u)
    IN /\ Sends(u)
       /\ Step(u, "idle", [Idle EXCEPT !.at = "load", !.wl = w, !.attrs = a, !.comps = comps,
                                       !.ask = d.reportsComponents,
                                       !.event = emitBindEvent(u, w, a["service.version"])])
       /\ registry' = [registry EXCEPT ![u] = [wl |-> w, version |-> a["service.version"]]]
       /\ agent' = [agent EXCEPT ![u].attrs = a, ![u].messages = @ + 1]
       /\ UNCHANGED <<row, log, tails>>

GetWorkload(w) == IF w \in DOMAIN row THEN row[w] ELSE None

LoadForDescription(u) ==
    /\ Step(u, "load", [h[u] EXCEPT !.at = "upsert", !.read = GetWorkload(h[u].wl)])
    /\ UNCHANGED <<registry, row, log, tails, agent>>

\* Variant: the components are written as they are, also when there are none.
UpsertWorkload_null(w, r) == row' = [v \in DOMAIN row \cup {w} |-> IF v = w THEN r ELSE row[v]]

\* The row is replaced, but for components that the new row does not have.
UpsertWorkload(w, r) ==
    row' = [v \in DOMAIN row \cup {w} |->
              IF v # w THEN row[v]
              ELSE IF r.comps = None /\ w \in DOMAIN row THEN [r EXCEPT !.comps = row[w].comps]
              ELSE r]

\* A name or a version that the description lacks keeps its old value.
Merged(a, comps, old) ==
    LET Or(new, default) == IF new = "" THEN default ELSE new
        before == IF old # None THEN old
                  ELSE [name |-> "", version |-> "", type |-> "", comps |-> None,
                        labels |-> [k \in DOMAIN a |-> ""]]
    IN [name |-> Or(a["service.name"], before.name),
        version |-> Or(a["service.version"], before.version),
        type |-> classifyAgent(a),
        labels |-> Labels(a, before.labels),
        comps |-> IF comps # None THEN comps ELSE before.comps]

upsertWorkloadFromDescription(u) ==
    /\ Step(u, "upsert", [h[u] EXCEPT !.at = "event", !.read = None, !.attrs = None, !.comps = None])
    /\ UpsertWorkload(h[u].wl, Merged(h[u].attrs, h[u].comps, h[u].read))
    /\ UNCHANGED <<registry, log, tails, agent>>

\* The insert of an event fails when its workload has no row.
InsertWorkloadEvent(e) == log' = IF e.wl \in DOMAIN row THEN Append(log, e) ELSE log

EmitEvent(u) ==
    /\ Step(u, "event", [h[u] EXCEPT !.at = "components", !.event = None])
    /\ IF h[u].event = None THEN UNCHANGED log ELSE InsertWorkloadEvent(h[u].event)
    /\ UNCHANGED <<registry, row, tails, agent>>

shouldRequestAvailableComponents(u) ==
    /\ Step(u, "components", [h[u] EXCEPT !.at = "refresh",
             !.ask = @ /\ h[u].wl \in DOMAIN row /\ row[h[u].wl].comps = None])
    /\ UNCHANGED <<registry, row, log, tails, agent>>

---------------------------------------------------------------------------
(* A message without description, and the end of every message. *)

\* It carries the components when the server has asked for them; they are not
\* read.  An instance that the registry does not know is asked for its
\* description, which it may send at any time.
handleKnownInstanceUpdate(u) ==
    /\ Sends(u) /\ h[u].at = "idle"
    /\ IF registry[u] = NoInstance
       THEN /\ agent' = [agent EXCEPT ![u].messages = @ + 1]
            /\ UNCHANGED h
       ELSE /\ agent' = [agent EXCEPT ![u].answered = @ \/ agent[u].ask, ![u].ask = FALSE,
                                      ![u].messages = @ + 1]
            /\ h' = [h EXCEPT ![u] = [Idle EXCEPT !.at = "refresh", !.wl = registry[u].wl]]
    /\ UNCHANGED <<registry, row, log, tails>>

LoadForRefresh(u) ==
    /\ Step(u, "refresh", [h[u] EXCEPT !.at = IF h[u].wl \in DOMAIN row THEN "rewrite" ELSE "reply",
                                       !.read = GetWorkload(h[u].wl)])
    /\ UNCHANGED <<registry, row, log, tails, agent>>

refreshWorkloadState(u) ==
    /\ Step(u, "rewrite", [h[u] EXCEPT !.at = "reply", !.read = None])
    /\ UpsertWorkload(h[u].wl, h[u].read)
    /\ UNCHANGED <<registry, log, tails, agent>>

replyToAgent(u) ==
    /\ Step(u, "reply", Idle)
    /\ agent' = [agent EXCEPT ![u].ask = @ \/ h[u].ask]
    /\ UNCHANGED <<registry, row, log, tails>>

Handle(u) ==
    \/ LoadForDescription(u) \/ upsertWorkloadFromDescription(u) \/ EmitEvent(u)
    \/ shouldRequestAvailableComponents(u)
    \/ LoadForRefresh(u) \/ refreshWorkloadState(u) \/ replyToAgent(u)

---------------------------------------------------------------------------
(* The release of a session, and the operator. *)

\* Variant: a release writes no event.
releaseSession_silent(u) ==
    /\ agent[u].open /\ h[u].at = "idle" /\ agent[u].releases < MaxReleases
    /\ agent' = [agent EXCEPT ![u] = [NewAgent EXCEPT !.messages = agent[u].messages,
                                                      !.releases = agent[u].releases + 1]]
    /\ registry' = [registry EXCEPT ![u] = NoInstance]
    /\ UNCHANGED <<row, log, h, tails>>

releaseSession(u) ==
    /\ agent[u].open /\ h[u].at = "idle" /\ agent[u].releases < MaxReleases
    /\ agent' = [agent EXCEPT ![u] = [NewAgent EXCEPT !.messages = agent[u].messages,
                                                      !.releases = agent[u].releases + 1]]
    /\ registry' = [registry EXCEPT ![u] = NoInstance]
    /\ tails' = [tails EXCEPT ![u] = IF registry[u] = NoInstance THEN @ ELSE @ \cup {<<agent[u].releases, registry[u].wl>>}]
    /\ UNCHANGED <<row, log, h>>

\* The releases of a UID are goroutines of their own: their events come in any order.
EmitDisconnected(u) ==
    \E t \in tails[u] :
        /\ tails' = [tails EXCEPT ![u] = @ \ {t}]
        /\ InsertWorkloadEvent([wl |-> t[2], uid |-> u, type |-> "disconnected",
                                version |-> "", prev |-> ""])
        /\ UNCHANGED <<registry, row, h, agent>>

\* The events of a workload are deleted with its row.
handleDeleteWorkload(w) ==
    /\ MayDelete
    /\ row' = [v \in DOMAIN row \ {w} |-> row[v]]
    /\ log' = [i \in DOMAIN log |-> IF log[i] # None /\ log[i].wl = w THEN None ELSE log[i]]
    /\ UNCHANGED <<registry, h, tails, agent>>

Lists == {"listed", None} \* a description may come with the list of components

Next ==
    \/ \E u \in UIDs :
         \/ Connect(u)
         \/ \E d \in Descriptions[u], comps \in Lists : handleAgentDescription(u, d, comps)
         \/ handleKnownInstanceUpdate(u)
         \/ Handle(u) \/ releaseSession(u) \/ EmitDisconnected(u)
    \/ \E w \in DOMAIN row : handleDeleteWorkload(w)

Spec == Init /\ [][Next]_vars

---------------------------------------------------------------------------
(* Properties. *)

Of(u, types) == {i \in DOMAIN log : log[i] # None /\ log[i].uid = u /\ log[i].type \in types}
Bindings(u) == Of(u, {"connected", "version_changed"})
Latest(u) == {i \in Bindings(u) : \A j \in Bindings(u) : j <= i}
Quiet(u) == h[u].at = "idle" /\ tails[u] = {}

\* The events of an instance are a chain: a version change starts from the
\* version of the event before, also when the row, and with it the log, was
\* deleted between the write of the row and that of the event.
LogIsAChain ==
    \A u \in UIDs : \A i, j \in Bindings(u) :
        j < i /\ (\A k \in Bindings(u) : k <= j \/ i <= k) /\ log[i].type = "version_changed"
            => log[i].prev = log[j].version

\* Every connection, disconnection and version change is in the log exactly once:
\* when all handlers of a UID have finished, it has one connection more than
\* disconnections if it is connected, as many if it is not, and its last event
\* has its version (server.go, emitBindEvent and releaseSession).
LogIsExact ==
    \A u \in UIDs : Quiet(u) =>
        /\ Cardinality(Of(u, {"connected"})) =
             Cardinality(Of(u, {"disconnected"})) + IF registry[u] = NoInstance THEN 0 ELSE 1
        /\ registry[u] # NoInstance => \E i \in Latest(u) : log[i].version = registry[u].version

\* The attributes that make the identity of a workload: a pod that is replaced,
\* upgraded or restarted with other attributes stays in its workload.
IdentityAttrs == {k8sWorkloadAttrs[i] : i \in DOMAIN k8sWorkloadAttrs} \cup
                 {"k8s.namespace.name", "k8s.cluster.name", "host.name", "service.name"}
OnlyIdentityMoves ==
    [][\A u \in DOMAIN registry : registry[u] # NoInstance /\ registry'[u] # NoInstance
         /\ registry'[u].wl # registry[u].wl
         => \E k \in IdentityAttrs : agent'[u].attrs[k] # agent[u].attrs[k]]_vars

\* Components that the row has are not lost to a handler that read the row
\* before they were written (UpsertWorkload's COALESCE).
ComponentsAreKept ==
    [][\A w \in DOMAIN row \cap DOMAIN row' : row[w].comps # None => row'[w].comps # None]_vars

\* An agent that was asked for its components and has sent them finds them in
\* the row (docs/developers/opamp-flow.md:96: "it advertises the modules
\* compiled into it via `AvailableComponents`. otel-magnify persists this on
\* the workload").
AnsweredIsPersisted ==
    \A u \in UIDs : agent[u].answered /\ Quiet(u) /\ registry[u].wl \in DOMAIN row
        => row[registry[u].wl].comps # None

\* When all instances of a workload have reported the same version and their
\* messages are processed, the row has that version, which is what the alert
\* rule compares (docs/users/alerts.md:11: version_outdated resolves when "The
\* workload reports an equal/newer version").
UpgradeIsRecorded ==
    \A w \in DOMAIN row, v \in {registry[u].version : u \in UIDs} \ {""} :
        LET members == {u \in UIDs : registry[u].wl = w}
        IN members # {} /\ (\A u \in members : registry[u].version = v)
             /\ (\A u \in UIDs : h[u].at = "idle")
             => row[w].version = v

\* The last event of a connected instance has its version
\* (docs/users/connecting-agents.md:30: "Every pod connect, disconnect, and
\* `service.version` change is recorded").
EveryChangeIsLogged ==
    \A u \in UIDs : Quiet(u) /\ registry[u] # NoInstance
        => \E i \in Latest(u) : log[i].version = registry[u].version
=============================================================================
