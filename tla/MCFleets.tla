------------------------------ MODULE MCFleets ------------------------------
(***************************************************************************)
(* What MCInventory looks at: descriptions of agents, and whole fleets.    *)
(***************************************************************************)
EXTENDS FleetViews

(* Agent descriptions *)

Blank == [k \in {"k8s.deployment.name", "k8s.daemonset.name", "k8s.statefulset.name", "k8s.job.name",
                "k8s.cronjob.name", "k8s.namespace.name", "k8s.cluster.name", "host.name", "service.name",
                "service.version", "k8s.pod.name", "otelcol.version", "os.description",
                "telemetry.sdk.language", "otel.magnify/selector.env"} |-> ""]

\* A pod of a deployment, with its version among the identifying attributes.
Pod(kind, name, pod, version) ==
    [identifying |-> [Blank EXCEPT !["service.name"] = "otelcol", !["service.version"] = version],
     nonIdentifying |-> [Blank EXCEPT !["k8s.namespace.name"] = "prod", ![kind] = name,
                                      !["k8s.pod.name"] = pod, !["host.name"] = "node"],
     reportsComponents |-> TRUE]

\* An application on a host, without a namespace.
App(version) ==
    [identifying |-> [Blank EXCEPT !["service.name"] = "shop", !["service.version"] = version],
     nonIdentifying |-> [Blank EXCEPT !["host.name"] = "node", !["telemetry.sdk.language"] = "go",
                                      !["otel.magnify/selector.env"] = "prod"],
     reportsComponents |-> FALSE]

\* The description of a process that has no name, version or host.
Nameless(version) ==
    [identifying |-> [Blank EXCEPT !["service.version"] = version], nonIdentifying |-> Blank,
     reportsComponents |-> TRUE]

Gateway(version) == Pod("k8s.deployment.name", "gateway", "pod-a", version)

\* Two versions of one deployment.
Rollout == {Gateway("v1"), Gateway("v2")}

\* The same agent in another pod, another workload, and as something else.
Moving == {Gateway("v1"), Pod("k8s.deployment.name", "gateway", "pod-b", "v2"),
           Pod("k8s.daemonset.name", "gateway", "pod-a", "v1"), App("v1"), Nameless("v2")}
---------------------------------------------------------------------------
(* Fleets *)

Full == {"receivers", "processors", "exporters"}
Release(minor, pre) == [parts |-> <<Num(0), Num(minor), Num(0)>>, pre |-> pre, build |-> FALSE]
Word == [parts |-> <<Text(1)>>, pre |-> << >>, build |-> FALSE]

Instance(hash, status) ==
    [hash |-> hash, status |-> status, accepts |-> TRUE, healthy |-> TRUE, version |-> NoVersion]

\* The instances of a workload, as far as their hashes matter.
ByHash == {<< >>} \cup {<<Instance(x, "applied")>> : x \in {"", "a", "b"}}
          \cup {<<Instance(x, "applied"), Instance(y, "no_status")>> : x, y \in {"", "a", "b"}}

\* And as far as the rest does.
ByState ==
    LET One == [hash : {"a"}, status : {"no_status", "applying", "applied", "failed"}, accepts : BOOLEAN, healthy : BOOLEAN,
                version : {NoVersion, Release(99, << >>)}]
        Two == {[i EXCEPT !.version = Release(100, << >>)] : i \in {j \in One : j.version = NoVersion}}
    IN {<<i, j>> : i \in One, j \in Two}

Push(config, status, age) == [config |-> config, status |-> status, age |-> age]
Pushes == {NoPush} \cup {Push(c, s, t) : c \in {"a", "b"}, s \in {"sent", "applied"}, t \in {15, 16}}

Base == [name |-> "m", type |-> "collector", status |-> "connected", env |-> "prod", active |-> "",
         label |-> "", key |-> "", version |-> NoVersion, accepts |-> TRUE, alerts |-> {},
         categories |-> Full, reported |-> "", push |-> NoPush, instances |-> << >>]

Drifting ==
    {[Base EXCEPT !.accepts = acc, !.active = act, !.instances = is, !.reported = rep, !.push = p, !.alerts = al,
                  !.categories = IF al = {} THEN {"receivers"} ELSE Full] :
        acc \in BOOLEAN, act \in {"", "a"}, is \in ByHash, rep \in {"", "b"}, p \in Pushes,
        al \in {{}, {"config_drift"}, {"version_outdated"}}}

Neighbours ==
    {[Base EXCEPT !.name = "k", !.env = e, !.type = t, !.push = p, !.reported = "a"] :
        e \in {"prod", "test", "unknown"}, t \in {"collector", "sdk"},
        p \in {NoPush, Push("a", "applied", 1), Push("b", "sent", 16)}}

Alone == {[Base EXCEPT !.instances = is] : is \in ByState}

Versions == {NoVersion, Word, Release(99, << >>), Release(100, <<Text(1)>>), Release(100, << >>),
             Release(101, << >>)}

Versioned(n) ==
    {[Base EXCEPT !.name = n, !.version = v, !.type = t, !.label = l, !.key = k] :
        v \in Versions, t \in {"collector", "sdk"}, l \in {"", "x"}, k \in {"", "x"}}

AllFleets == {<<d, c>> : c \in Drifting, d \in Neighbours} \cup {<<c>> : c \in Alone}
            \cup {<<c, d>> : c \in Versioned("m"), d \in Versioned("n")}

Recommendations == {NoVersion, Word, Release(100, << >>)}
=============================================================================
