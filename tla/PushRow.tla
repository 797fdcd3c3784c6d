------------------------------ MODULE PushRow ------------------------------
(***************************************************************************)
(* The history row of one push, from the request that records it to the    *)
(* last status an instance reports: persistAndPushApprovalConfig           *)
(* (internal/api/config_approvals.go), the row statements of               *)
(* internal/store/workload_configs.go and the first half of                *)
(* handleRemoteConfigStatus (internal/opamp/rollback.go).                  *)
(*                                                                         *)
(* The request and the handlers of the instances run side by side; every   *)
(* SQL statement is one action.  An instance that was not a target (it got *)
(* the config in another way) may report the same hash.                    *)
(***************************************************************************)
EXTENDS PushStatus

CONSTANTS UIDs, Targets,
          Messages,  \* the messages of agents, by their cause
          MayRestart

VARIABLES row, due,       \* the row; whether its status timeout has passed
          pusher, unsent, \* the request, and the targets it still has to send to
          got,            \* instances that have the config
          agent,          \* what each of them has reported last
          pc,             \* per instance, its status handler: idle, or holding a report
          cut             \* instances whose handler a restart has cut off

vars == <<row, due, pusher, unsent, got, agent, pc, cut>>

None == [status |-> "none", msg |-> ""]

Init ==
    /\ row = [status |-> "submitted", sent |-> FALSE, msg |-> "",
              insts |-> initialPushInstanceStatuses(Targets)]
    /\ due = FALSE /\ pusher = "pushing" /\ unsent = Targets /\ got = UIDs \ Targets
    /\ agent = [u \in UIDs |-> None] /\ pc = [u \in UIDs |-> None] /\ cut = {}

---------------------------------------------------------------------------
(* The request. *)

\* A send that fails leaves the error of the first failure behind.
sendToInstance(u) ==
    /\ pusher \in {"pushing", "error"} /\ u \in unsent
    /\ unsent' = unsent \ {u}
    /\ \/ got' = got \cup {u} /\ UNCHANGED pusher
       \/ pusher' = "error" /\ UNCHANGED got
    /\ UNCHANGED <<row, due, agent, pc, cut>>

UpdateWorkloadConfigStatus(status, msg) ==
    row' = [row EXCEPT !.status = status, !.msg = SanitizeRemoteConfigErrorMessage(msg)]

MarkWorkloadConfigSent ==
    /\ pusher = "pushing" /\ unsent = {}
    /\ pusher' = "done"
    /\ row' = [row EXCEPT !.status = "sent", !.sent = TRUE]
    /\ UNCHANGED <<due, unsent, got, agent, pc, cut>>

PushFails ==
    /\ pusher = "error" /\ unsent = {}
    /\ pusher' = "done"
    /\ UpdateWorkloadConfigStatus("failed", "opamp_send_failed")
    /\ UNCHANGED <<due, unsent, got, agent, pc, cut>>

---------------------------------------------------------------------------
(* The instances and their handlers. *)

\* External: an agent reports applying at most once, then applied or failed; it
\* repeats its last status when it reconnects after a restart.
Reports(u, status, msg) ==
    \/ /\ agent[u].status \in (IF status = "applying" THEN {"none"} ELSE {"none", "applying"})
       /\ msg # "" => status = "failed"
    \/ u \in cut /\ agent[u] = [status |-> status, msg |-> msg]

Report(u, status, msg) ==
    /\ u \in got /\ pc[u] = None
    /\ Reports(u, status, msg)
    /\ agent' = [agent EXCEPT ![u] = [status |-> status, msg |-> msg]]
    /\ pc' = [pc EXCEPT ![u] = agent'[u]]
    /\ cut' = cut \ {u}
    /\ UpdateWorkloadConfigStatus(status, msg)
    /\ UNCHANGED <<due, pusher, unsent, got>>

\* The entry of a report.
Entry(r) == [status |-> r.status, cause |-> "", msg |-> SanitizeRemoteConfigErrorMessage(r.msg), timedOut |-> FALSE]

\* Variant: an instance the push does not list is not added.
Merged_listed(u, r) ==
    IF u \notin DOMAIN row.insts THEN row.insts ELSE [row.insts EXCEPT ![u] = Entry(r)]

\* Variant: the cause of the last error stays.
Merged_cause(u, r) ==
    [v \in DOMAIN row.insts \cup {u} |->
        IF v # u THEN row.insts[v]
        ELSE [Entry(r) EXCEPT !.cause = IF u \in DOMAIN row.insts THEN row.insts[u].cause ELSE ""]]

Merged(u, r) == [v \in DOMAIN row.insts \cup {u} |-> IF v = u THEN Entry(r) ELSE row.insts[v]]

\* The row is locked, read, merged, hydrated and written in one transaction.
UpdateWorkloadConfigInstanceStatus(u) ==
    /\ pc[u] # None
    /\ row' = [HydratePushStatus([row EXCEPT !.insts = Merged(u, pc[u])], due).row EXCEPT
                  !.msg = SanitizeRemoteConfigErrorMessage(pc[u].msg)]
    /\ pc' = [pc EXCEPT ![u] = None]
    /\ UNCHANGED <<due, pusher, unsent, got, agent, cut>>

TimeoutPasses ==
    /\ ~ due /\ due' = TRUE
    /\ UNCHANGED <<row, pusher, unsent, got, agent, pc, cut>>

\* The process stops: the request and the handlers are gone, the row is not.
Restart ==
    /\ MayRestart /\ pusher # "lost"
    /\ pusher' = "lost" /\ pc' = [u \in UIDs |-> None]
    /\ cut' = {u \in UIDs : pc[u] # None}
    /\ UNCHANGED <<row, due, unsent, got, agent>>

Next ==
    \/ MarkWorkloadConfigSent \/ PushFails \/ TimeoutPasses \/ Restart
    \/ \E u \in UIDs :
          \/ sendToInstance(u) \/ UpdateWorkloadConfigInstanceStatus(u)
          \/ \E s \in Reported, m \in Messages \cup {""} : Report(u, s, m)

Spec == Init /\ [][Next]_vars
---------------------------------------------------------------------------

TypeOK ==
    /\ row.status \in {"submitted", "sent"} \cup Reported
    /\ row.sent \in BOOLEAN /\ row.msg \in OwnTexts \cup {""}
    /\ DOMAIN row.insts \subseteq UIDs
    /\ \A u \in DOMAIN row.insts :
          row.insts[u] \in [status : {"sent", "no_status"} \cup Reported, cause : Causes \cup {""},
                            msg : OwnTexts \cup {""}, timedOut : BOOLEAN]
    /\ pusher \in {"pushing", "error", "done", "lost"} /\ unsent \subseteq Targets
    /\ due \in BOOLEAN /\ got \subseteq UIDs
    /\ \A u \in UIDs : agent[u].status \in {"none"} \cup Reported

Read == HydratePushStatus(row, due)

Settled == cut = {} /\ \A u \in UIDs : pc[u] = None

Heard(S) == {u \in DOMAIN Read.row.insts : agent[u].status \in S}

\* A reader of the history sees exactly what the instances have said, in
\* whatever order the request and the handlers wrote: failed when one of them
\* failed, applied when all of them applied, applying when some have begun.
\* (HydratePushStatus over what UpdateWorkloadConfigInstanceStatus merges.  A
\* report cut off by a restart counts from the moment it is repeated.)
ReadFollowsReports ==
    Settled =>
        /\ \A u \in UIDs : agent[u].status # "none" => u \in DOMAIN row.insts
        /\ Heard({"failed"}) # {} => Read.row.status = "failed"
        /\ Heard({"applied"}) = DOMAIN row.insts => Read.row.status = "applied"
        /\ Read.row.status = "applied" => Heard({"applied"}) = DOMAIN row.insts
        /\ Heard(Reported) # {} => Read.row.status \in Reported

\* The warning "No OpAMP status after 30s" is on exactly the targets whose
\* status never reached the row, also when an earlier merge has stored the
\* warning and the answer came after it.
TimedOutAreSilent ==
    \A u \in DOMAIN row.insts :
        pc[u] = None /\ u \notin cut => (u \in Read.late <=> due /\ agent[u].status = "none")

\* The groups an instance is in.
GroupsOf(u) == {c \in DOMAIN Read.groups : u \in Read.groups[c]}

\* Every instance in error is in exactly one group: "apply_timeout" when it is
\* silent, and otherwise the cause of its latest report, although only a title is
\* stored of the report.  A config that the collector has rejected is grouped as
\* unknown: its title has none of the words that the cause is found by.  An
\* instance that has applied in the end is in no group.
GroupsAreExact ==
    Settled =>
        \A u \in DOMAIN row.insts :
            GroupsOf(u) = CASE u \in Read.late -> {"apply_timeout"}
                            [] agent[u].status = "failed" ->
                                  {IF agent[u].msg \in {"", "collector_validation"} THEN "unknown" ELSE agent[u].msg}
                            [] OTHER -> {}

\* "summarizes repeated remote config errors by cause": the group of an instance
\* that has failed with a message is that of the cause of the message.
GroupedByCause ==
    Settled =>
        \A u \in DOMAIN row.insts :
            agent[u].status = "failed" /\ agent[u].msg # "" => GroupsOf(u) = {agent[u].msg}

\* "the most recent non-terminal push for the workload": the column that
\* GetLatestPendingOrApplyingWorkloadConfig selects on agrees, once the request
\* and the handlers are done, with what the instances have reported.
StoredIsTerminal ==
    pusher = "done" /\ Settled =>
        (isTerminalPushStatus(Read.row.status) => isTerminalPushStatus(row.status))
=============================================================================
