----------------------------- MODULE ConfigPush -----------------------------
(***************************************************************************)
(* Pushing configs to the instances of one workload: the push, rollback    *)
(* and rollback-to-default requests (internal/api/workloads.go,            *)
(* config_approvals.go), PushConfig and the status handlers with their     *)
(* automatic rollback (internal/opamp/server.go, rollback.go), and the     *)
(* history they share (internal/store/workload_configs.go).                *)
(*                                                                         *)
(* Requests and handlers run side by side; every SQL statement and every   *)
(* send is one action.  The history is ordered by applied_at, which is the *)
(* order the rows are inserted in.  The known-good pointer does not move   *)
(* here (module KnownGood), the workload row is in WorkloadLifecycle, the  *)
(* 30 second warning in PushStatus.  Agents are external: they take their  *)
(* offers in order and report applied or failed.                           *)
(***************************************************************************)
EXTENDS PushStatus, Sequences

CONSTANTS UIDs, Configs, NoConfig,
          Seed,      \* the config every instance runs at the start
          KnownGood, \* the known-good pointer, or NoConfig
          Outcomes,  \* per config, what an agent may report of it
          Requests, Kinds,
          MayLeave,  \* instances may disconnect and come back
          MaxRows    \* bound: rows of the history

VARIABLES
    hist,                    \* workload_configs
    live,                    \* UIDs with a session
    offers, reports,         \* per UID, what is on its connection
    running, last,           \* per agent: the config it runs, its last status
    h,                       \* per UID, its status handler
    req,                     \* the requests
    stated,                  \* <<u, c, s>>: u has reported the status s of c
    activeID, activeHash,    \* the workload's active config, and its hash column
    auto                     \* per UID, the config an auto-push goroutine was started for

activeVars == <<activeID, activeHash, auto>>
agentVars == <<live, offers, reports, running, last>>
vars == <<hist, agentVars, h, req, stated, activeVars>>

Row(c, status, by, us) ==
    [config |-> c, status |-> status, sent |-> FALSE, by |-> by, insts |-> [u \in us |-> [status |-> "sent"]]]
Idle == [at |-> "idle", kind |-> "none", config |-> NoConfig, status |-> "none", target |-> NoConfig,
         todo |-> {}, err |-> FALSE]

Init ==
    /\ hist = <<[Row(Seed, "applied", "user", UIDs) EXCEPT !.sent = TRUE,
                    !.insts = [u \in UIDs |-> [status |-> "applied"]]]>>
    /\ live = UIDs /\ offers = [u \in UIDs |-> <<>>] /\ reports = [u \in UIDs |-> <<>>]
    /\ running = [u \in UIDs |-> Seed]
    /\ last = [u \in UIDs |-> [config |-> Seed, status |-> "applied"]]
    /\ h = [u \in UIDs |-> Idle] /\ req = [r \in Requests |-> Idle]
    /\ stated = UIDs \X {Seed} \X {"applied"}
    /\ activeID = Seed /\ activeHash = NoConfig /\ auto = [u \in UIDs |-> NoConfig]

---------------------------------------------------------------------------
(* The history: internal/store/workload_configs.go. *)

Latest(S) == IF S = {} THEN 0 ELSE CHOOSE i \in S : \A j \in S : j <= i
\* Variant: the latest row of the workload, whatever its config.
LatestOf_any(c) == Len(hist)

LatestOf(c) == Latest({i \in DOMAIN hist : hist[i].config = c})

\* Variant: the legacy status of a new row.
RecordWorkloadConfig_pending(c, status, by) ==
    Len(hist) < MaxRows /\ hist' = Append(hist, Row(c, "pending", by, live))

RecordWorkloadConfig(c, status, by) ==
    Len(hist) < MaxRows /\ hist' = Append(hist, Row(c, status, by, live))

\* Only the latest row of a config is updated.
UpdateWorkloadConfigStatus(c, status) ==
    LET i == LatestOf(c) IN hist' = IF i = 0 THEN hist ELSE [hist EXCEPT ![i].status = status]

MarkWorkloadConfigSent(c) ==
    LET i == LatestOf(c) IN hist' = IF i = 0 THEN hist ELSE [hist EXCEPT ![i] = [@ EXCEPT !.status = "sent", !.sent = TRUE]]

Hydrated(row) == DerivedStatus(row.insts, row.sent, row.status)

UpdateWorkloadConfigInstanceStatus(c, u, status) ==
    LET i == LatestOf(c)
        is == [v \in DOMAIN hist[i].insts \cup {u} |->
                  IF v = u THEN [status |-> status] ELSE hist[i].insts[v]]
    IN hist' = IF i = 0 THEN hist
               ELSE [hist EXCEPT ![i] = [@ EXCEPT !.insts = is, !.status = DerivedStatus(is, hist[i].sent, hist[i].status)]]

\* The row that stops a rollback request.
GetLatestPendingOrApplyingWorkloadConfig ==
    Latest({i \in DOMAIN hist : hist[i].status \in {"pending", "submitted", "sent", "applying"}})

GetLastAppliedWorkloadConfig == Latest({i \in DOMAIN hist : hist[i].status = "applied"})

GetPreviousAppliedWorkloadConfig(exclude) ==
    Latest({i \in DOMAIN hist : hist[i].status = "applied" /\ hist[i].config # exclude})

\* Variant: when the known-good config is the one that failed, the previous one.
GetRollbackTarget_fallback(exclude) ==
    IF KnownGood # NoConfig /\ KnownGood # exclude /\ LatestOf(KnownGood) # 0 THEN KnownGood
    ELSE LET i == GetPreviousAppliedWorkloadConfig(exclude)
         IN IF i = 0 THEN NoConfig ELSE hist[i].config

\* Variant: any other config of the history.
GetRollbackTarget_unproven(exclude) ==
    LET i == Latest({j \in DOMAIN hist : hist[j].config # exclude})
    IN IF i = 0 THEN NoConfig ELSE hist[i].config

GetRollbackTarget(exclude) ==
    IF KnownGood # NoConfig /\ LatestOf(KnownGood) # 0
    THEN IF KnownGood = exclude THEN NoConfig ELSE KnownGood
    ELSE LET i == GetPreviousAppliedWorkloadConfig(exclude)
         IN IF i = 0 THEN NoConfig ELSE hist[i].config

---------------------------------------------------------------------------
(* Sending: PushConfig with no target instance, one send at a time.  p is the
   record of the request or handler that pushes. *)

PushConfig(p, target) == [p EXCEPT !.at = "send", !.target = target, !.todo = live, !.err = (live = {})]

\* The offer reaches a live instance; the send to any other fails.
sendToInstance(p, u) ==
    /\ p.at = "send" /\ u \in p.todo
    /\ offers' = IF u \in live THEN [offers EXCEPT ![u] = Append(@, p.target)] ELSE offers

AfterSend(p, u) == [p EXCEPT !.todo = @ \ {u}, !.err = @ \/ u \notin live]

PushReturns(p) == p.at = "send" /\ p.todo = {}

---------------------------------------------------------------------------
(* The requests: internal/api/workloads.go, config_approvals.go. *)

ReqStep(r, from, new) == req[r].at = from /\ req' = [req EXCEPT ![r] = new]

\* An approved push (module ConfigApprovals): the workload must be connected.
handlePushApproval(r, c) ==
    /\ "push" \in Kinds /\ live # {}
    /\ ReqStep(r, "idle", [Idle EXCEPT !.at = "record", !.kind = "push", !.target = c])
    /\ UNCHANGED <<hist, agentVars, h, stated, activeVars>>

\* Rollback to a hash: its latest row must read as applied.
handleRollbackWorkloadConfig(r, c) ==
    /\ "hash" \in Kinds /\ LatestOf(c) # 0 /\ Hydrated(hist[LatestOf(c)]) = "applied"
    /\ ReqStep(r, "idle", [Idle EXCEPT !.at = "guard", !.kind = "hash", !.target = c])
    /\ UNCHANGED <<hist, agentVars, h, stated, activeVars>>

handleRollbackWorkloadDefault(r) ==
    /\ "default" \in Kinds
    /\ ReqStep(r, "idle", [Idle EXCEPT !.at = "guard", !.kind = "default"])
    /\ UNCHANGED <<hist, agentVars, h, stated, activeVars>>

\* The concurrency guard of both rollbacks.
CheckConcurrent(r) ==
    /\ ReqStep(r, "guard", IF GetLatestPendingOrApplyingWorkloadConfig # 0
                           THEN [Idle EXCEPT !.at = "done"]
                           ELSE [req[r] EXCEPT !.at = IF req[r].kind = "hash" THEN "record" ELSE "resolve"])
    /\ UNCHANGED <<hist, agentVars, h, stated, activeVars>>

\* The active hash is unset, so the last applied config is what is left behind.
ResolveTarget(r) ==
    LET i == GetLastAppliedWorkloadConfig
        exclude == IF activeHash # NoConfig THEN activeHash ELSE IF i = 0 THEN NoConfig ELSE hist[i].config
        target == GetRollbackTarget(exclude)
    IN /\ ReqStep(r, "resolve", IF target = NoConfig THEN [Idle EXCEPT !.at = "done"]
                                ELSE [req[r] EXCEPT !.at = "record", !.target = target])
       /\ UNCHANGED <<hist, agentVars, h, stated, activeVars>>

RecordPush(r) ==
    /\ ReqStep(r, "record", [req[r] EXCEPT !.at = "recorded"])
    /\ RecordWorkloadConfig(req[r].target, "submitted", "user")
    /\ UNCHANGED <<agentVars, h, stated, activeVars>>

StartPush(r) ==
    /\ ReqStep(r, "recorded", PushConfig(req[r], req[r].target))
    /\ UNCHANGED <<hist, agentVars, h, stated, activeVars>>

SendPush(r, u) ==
    /\ sendToInstance(req[r], u)
    /\ ReqStep(r, "send", AfterSend(req[r], u))
    /\ UNCHANGED <<hist, live, reports, running, last, h, stated, activeVars>>

FinishPush(r) ==
    /\ PushReturns(req[r])
    /\ ReqStep(r, "send", [Idle EXCEPT !.at = "done"])
    /\ IF req[r].err THEN UpdateWorkloadConfigStatus(req[r].target, "failed")
                     ELSE MarkWorkloadConfigSent(req[r].target)
    /\ UNCHANGED <<agentVars, h, stated, activeVars>>

---------------------------------------------------------------------------
(* The status handler of an instance: internal/opamp/rollback.go. *)

HStep(u, from, new) == h[u].at = from /\ h' = [h EXCEPT ![u] = new]

handleRemoteConfigStatus(u) ==
    /\ reports[u] # <<>>
    /\ LET rep == Head(reports[u]) IN
       /\ HStep(u, "idle", [Idle EXCEPT !.at = "merge", !.config = rep.config, !.status = rep.status])
       /\ UpdateWorkloadConfigStatus(rep.config, rep.status)
    /\ reports' = [reports EXCEPT ![u] = Tail(@)]
    /\ UNCHANGED <<live, offers, running, last, req, stated, activeVars>>

MergeStatus(u) ==
    /\ HStep(u, "merge", IF h[u].status = "failed" THEN [h[u] EXCEPT !.at = "lookup"] ELSE Idle)
    /\ UpdateWorkloadConfigInstanceStatus(h[u].config, u, h[u].status)
    /\ UNCHANGED <<agentVars, req, stated, activeVars>>

attemptAutoRollback(u) ==
    LET target == GetRollbackTarget(h[u].config) IN
    /\ HStep(u, "lookup", IF target \in {NoConfig, h[u].config} THEN Idle ELSE PushConfig(h[u], target))
    /\ UNCHANGED <<hist, agentVars, req, stated, activeVars>>

SendRollback(u, v) ==
    /\ sendToInstance(h[u], v)
    /\ HStep(u, "send", AfterSend(h[u], v))
    /\ UNCHANGED <<hist, live, reports, running, last, req, stated, activeVars>>

\* The row is recorded after the sends, and not at all when one of them failed.
RecordRollback(u) ==
    /\ PushReturns(h[u])
    /\ IF h[u].err THEN HStep(u, "send", Idle) /\ UNCHANGED hist
       ELSE /\ HStep(u, "send", [h[u] EXCEPT !.at = "mark"])
            /\ RecordWorkloadConfig(h[u].target, "rollback_started", "auto-rollback")
    /\ UNCHANGED <<agentVars, req, stated, activeVars>>

MarkRollback(u) ==
    /\ HStep(u, "mark", Idle)
    /\ MarkWorkloadConfigSent(h[u].target)
    /\ UNCHANGED <<agentVars, req, stated, activeVars>>

---------------------------------------------------------------------------
(* Instances that leave and come back, and the automatic push of the active
   config: internal/opamp/server.go. *)

\* A session is released between two messages; what was on the wire is lost.
Disconnect(u) ==
    /\ MayLeave /\ u \in live /\ h[u] = Idle
    /\ live' = live \ {u}
    /\ offers' = [offers EXCEPT ![u] = <<>>] /\ reports' = [reports EXCEPT ![u] = <<>>]
    /\ UNCHANGED <<hist, running, last, h, req, stated, activeVars>>

\* The config an instance that reports hash c is sent.  Nothing sets the hash
\* column of a workload, so the goroutine that would send it is never started.
maybeTriggerAutoPush(c) ==
    IF activeHash # NoConfig /\ c # activeHash THEN activeID' ELSE NoConfig

\* The first message of a connection carries the description, the last remote
\* config status and, if the agent has the capability, its effective config.
Reconnect(u) ==
    /\ u \notin live
    /\ live' = live \cup {u}
    /\ \/ activeID' = running[u]
       \/ UNCHANGED activeID
    /\ auto' = [auto EXCEPT ![u] = maybeTriggerAutoPush(last[u].config)]
    /\ reports' = [reports EXCEPT ![u] = <<last[u]>>]
    /\ UNCHANGED <<hist, offers, running, last, h, req, stated, activeHash>>

\* External: the agent takes the next offer and reports what became of it.
AgentHandles(u) ==
    /\ u \in live /\ offers[u] # <<>>
    /\ LET c == Head(offers[u]) IN
       \E o \in Outcomes[c] :
          /\ running' = IF o = "applied" THEN [running EXCEPT ![u] = c] ELSE running
          /\ last' = [last EXCEPT ![u] = [config |-> c, status |-> o]]
          /\ stated' = stated \cup {<<u, c, o>>}
          /\ reports' = [reports EXCEPT ![u] = Append(@, last'[u])]
    /\ offers' = [offers EXCEPT ![u] = Tail(@)]
    /\ UNCHANGED <<hist, live, h, req, activeVars>>

Handler(u) ==
    \/ handleRemoteConfigStatus(u) \/ MergeStatus(u) \/ attemptAutoRollback(u)
    \/ (\E v \in UIDs : SendRollback(u, v)) \/ RecordRollback(u) \/ MarkRollback(u)

Request(r) ==
    \/ CheckConcurrent(r) \/ ResolveTarget(r) \/ RecordPush(r) \/ StartPush(r)
    \/ (\E u \in UIDs : SendPush(r, u)) \/ FinishPush(r)

Next ==
    \/ \E u \in UIDs : Handler(u) \/ AgentHandles(u) \/ Disconnect(u) \/ Reconnect(u)
    \/ \E r \in Requests : Request(r) \/ handleRollbackWorkloadDefault(r)
    \/ \E r \in Requests, c \in Configs : handlePushApproval(r, c) \/ handleRollbackWorkloadConfig(r, c)

Spec == Init /\ [][Next]_vars

\* Goroutines that can run do, and connected agents answer.
Fairness ==
    /\ \A u \in UIDs : WF_vars(Handler(u)) /\ WF_vars(AgentHandles(u))
    /\ \A r \in Requests : WF_vars(Request(r))

FairSpec == Spec /\ Fairness
---------------------------------------------------------------------------

Ats == {"idle", "record", "recorded", "guard", "resolve", "send", "merge", "lookup", "mark", "done"}

TypeOK ==
    /\ Len(hist) <= MaxRows
    /\ \A i \in DOMAIN hist :
          /\ hist[i].config \in Configs /\ hist[i].by \in {"user", "auto-rollback"} /\ hist[i].sent \in BOOLEAN
          /\ hist[i].status \in {"submitted", "sent", "applying", "applied", "failed", "rollback_started"}
          /\ DOMAIN hist[i].insts \subseteq UIDs
    /\ live \subseteq UIDs /\ running \in [UIDs -> Configs] /\ activeID \in Configs
    /\ \A u \in UIDs : h[u].at \in Ats /\ offers[u] \in Seq(Configs) /\ auto[u] \in Configs \cup {NoConfig}
    /\ \A r \in Requests : req[r].at \in Ats

Quiet ==
    /\ \A u \in UIDs : h[u] = Idle /\ offers[u] = <<>> /\ reports[u] = <<>>
    /\ \A r \in Requests : req[r].at \in {"idle", "done"}

\* What a row says of an instance is what that instance has reported of that
\* row's config, whatever pushes and rollbacks overlap: reports are matched to
\* rows by hash (UpdateWorkloadConfigInstanceStatus).
CreditedRightly ==
    \A i \in DOMAIN hist : \A u \in DOMAIN hist[i].insts :
        hist[i].insts[u].status # "sent" => <<u, hist[i].config, hist[i].insts[u].status>> \in stated

\* The automatic rollback only ever goes to a config that some instance has
\* reported as applied (GetRollbackTarget), also while rows change under it.
RollbackTargetsProven ==
    \A u \in UIDs : h[u].at \in {"send", "mark"} => \E v \in UIDs : <<v, h[u].target, "applied">> \in stated

\* With a known-good config the automatic rollbacks come to an end, even when
\* the known-good config fails too: GetRollbackTarget then finds no target.
\* Without one (KnownGood = NoConfig) it is false: two configs that were applied
\* once and fail now are rolled back to each other for ever.
RollbackSettles == <>[]Quiet

\* "a conservative concurrency guard": a rollback gets past
\* GetLatestPendingOrApplyingWorkloadConfig only when no push of the history is
\* still waiting for an instance.
ConservativeGuard ==
    [][\A r \in Requests : req[r].at = "guard" /\ req'[r].at \in {"record", "resolve"} =>
          \A i \in DOMAIN hist : isTerminalPushStatus(Hydrated(hist[i]))]_vars

\* "Update rollback row (status=applied)": when nothing is in flight, the row of
\* the latest rollback has the answers of the instances that are connected.
RollbackRowIsUpdated ==
    Quiet => \A c \in Configs :
        LatestOf(c) # 0 /\ hist[LatestOf(c)].by = "auto-rollback" =>
            \A u \in live \cap DOMAIN hist[LatestOf(c)].insts : hist[LatestOf(c)].insts[u].status # "sent"

\* "Auto-rollback is workload-wide": when nothing is in flight and the last
\* push was a rollback, the instances it was sent to run its config.
RollbackIsWorkloadWide ==
    Quiet /\ hist[Len(hist)].by = "auto-rollback" =>
        \A u \in live \cap DOMAIN hist[Len(hist)].insts : last[u].config = hist[Len(hist)].config

\* "the server immediately pushes the active config" when a new instance reports
\* another hash (P.2 auto-push).
NewInstanceIsPushed ==
    [][\A u \in UIDs : u \notin live /\ u \in live' /\ last[u].config # activeID /\ activeID' = activeID
          => auto'[u] = activeID]_vars
=============================================================================
