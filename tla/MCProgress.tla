----------------------------- MODULE MCProgress -----------------------------
(***************************************************************************)
(* What must happen in the end, for TLC: the components whose              *)
(* specification has fairness, each on a small instance.  A behaviour is   *)
(* one of one of them, named by scenario, while the others stay as they    *)
(* start.  A fairness condition here stands for one condition of each of   *)
(* them: in a behaviour only the one of its scenario can be enabled.       *)
(***************************************************************************)
EXTENDS Naturals, Sequences, FiniteSets, TLC

CONSTANTS Scenarios, NoAlert

VARIABLES scenario,
          byWorkload, uidToWL, unhealthy, timers, entry, row, pc, wl, read, tail, tailWL, archiving,
          hist, live, offers, reports, running, last, h, req, stated, activeID, activeHash, auto,
          event, queue, disp, accepted, token, about, tx, answer,
          hub, bcast, emitter, sent, fanned, clients, cl, panicked,
          watched, pushed, alert, told, minSet, eng,
          main, cancelled, deadline, api, opampHTTP, stopState, graceStopped, tokensStopped, join,
          runHub, stops, runBcast, task, store

lifeVars == <<byWorkload, uidToWL, unhealthy, timers, entry, row, pc, wl, read, tail, tailWL, archiving>>
pushVars == <<hist, live, offers, reports, running, last, h, req, stated, activeID, activeHash, auto>>
auditVars == <<event, queue, disp, accepted, token, about, tx, answer>>
hubVars == <<hub, bcast, emitter, sent, fanned, clients, cl, panicked>>
alertVars == <<watched, pushed, alert, told, minSet, eng>>
runVars == <<main, cancelled, deadline, api, opampHTTP, stopState, graceStopped, tokensStopped, join,
             runHub, stops, runBcast, task, store>>
vars == <<scenario, lifeVars, pushVars, auditVars, hubVars, alertVars, runVars>>
---------------------------------------------------------------------------
(* The instances *)

\* One agent that comes and goes, one grace timer at a time.
Life == INSTANCE WorkloadLifecycle WITH
    UIDs <- {"u"}, Workloads <- {"w"}, WorkloadsOf <- [u \in {"u"} |-> {"w"}], NoWorkload <- "none",
    TimerIds <- {1}, NoTimer <- 0, Healths <- {TRUE}, MayRestart <- FALSE, StoreFails <- FALSE

\* Two pushes to one instance, whose configs all may be rejected: at most four
\* rows follow.  The workload has a known-good config.
Pushing == INSTANCE ConfigPush WITH
    UIDs <- {"u"}, Configs <- {"c1", "c2"}, NoConfig <- "none", Seed <- "c1", KnownGood <- "c1",
    Outcomes <- [c \in {"c1", "c2"} |-> {"applied", "failed"}], Requests <- {"r1", "r2"}, Kinds <- {"push"},
    MayLeave <- FALSE, MaxRows <- 6

\* A push to two instances that reject every config: each of them starts a rollback.
Pair == INSTANCE ConfigPush WITH
    UIDs <- {"u", "v"}, Configs <- {"c1", "c2"}, NoConfig <- "none", Seed <- "c1", KnownGood <- "c1",
    Outcomes <- [c \in {"c1", "c2"} |-> {"failed"}], Requests <- {"r1"}, Kinds <- {"push"},
    MayLeave <- FALSE, MaxRows <- 4

\* A token is created and revoked, and the process that delivers this may crash.
Outbox == INSTANCE TokenAudit WITH
    Tokens <- {"t1"}, CreateRequests <- {"c1"}, RevokeRequests <- {"r1"}, NoToken <- "none",
    Events <- {"c1", "r1"}, NoEvent <- "none", Dispatchers <- {"d"}, Nobody <- "nobody",
    Lease <- 2, SinkTimeout <- 1, MaxBackoff <- 2, MaxTries <- 2,
    SinkIsPunctual <- TRUE, MayCrash <- TRUE, StoreMayFail <- TRUE, row <- event

Hub == INSTANCE WSHub WITH
    Clients <- {"c"}, Emitters <- {"p1", "p2"}, BroadcastCap <- 1, SendCap <- 1, MaxMessages <- 3, MayStop <- FALSE

\* Pages of one workload.
Watch == INSTANCE Alerts WITH
    N <- 2, PageSize <- 1, AlertIds <- {1, 2}, MaxPushes <- 0, Rules <- {1}, LookupFails <- FALSE,
    wl <- watched, rows <- pushed

KindOf == [k \in {"push", "message", "engine"} |-> k]

Run == INSTANCE ServerLifecycle WITH
    Tasks <- DOMAIN KindOf, Kind <- KindOf, BroadcastCap <- 1, MayFailToStart <- TRUE,
    hub <- runHub, bcast <- runBcast
---------------------------------------------------------------------------

Init ==
    /\ scenario \in Scenarios
    /\ IF scenario = "pair" THEN Pair!Init ELSE Pushing!Init
    /\ Life!Init /\ Outbox!Init /\ Hub!Init /\ Watch!Init /\ Run!Init

Lives(A) == scenario = "life" /\ A /\ UNCHANGED <<scenario, pushVars, auditVars, hubVars, alertVars, runVars>>
Pushes(A) == scenario = "push" /\ A /\ UNCHANGED <<scenario, lifeVars, auditVars, hubVars, alertVars, runVars>>
Pairs(A) == scenario = "pair" /\ A /\ UNCHANGED <<scenario, lifeVars, auditVars, hubVars, alertVars, runVars>>
Audits(A) == scenario = "audit" /\ A /\ UNCHANGED <<scenario, lifeVars, pushVars, hubVars, alertVars, runVars>>
Hubs(A) == scenario = "hub" /\ A /\ UNCHANGED <<scenario, lifeVars, pushVars, auditVars, alertVars, runVars>>
Watches(A) == scenario = "alerts" /\ A /\ UNCHANGED <<scenario, lifeVars, pushVars, auditVars, hubVars, runVars>>
Runs(A) == scenario = "run" /\ A /\ UNCHANGED <<scenario, lifeVars, pushVars, auditVars, hubVars, alertVars>>

Next ==
    \/ Lives(Life!Next) \/ Pushes(Pushing!Next) \/ Pairs(Pair!Next) \/ Audits(Outbox!Next)
    \/ Hubs(Hub!Next) \/ Watches(Watch!Next) \/ Runs(Run!Next)

OutboxOnly(A) == Audits(A /\ UNCHANGED <<token, about, tx, answer>>)

\* The conditions of weak fairness of the components.
Weak(k) ==
    \/ Lives(CASE k = 1 -> Life!Handle("u") [] k = 2 -> Life!CountRemaining("u") [] k = 3 -> Life!ScheduleGrace("u")
               [] k = 4 -> Life!GraceFires(1) [] k = 5 -> Life!GraceCounts(1) [] k = 6 -> Life!GraceMarks(1)
               [] k = 7 -> Life!RunOnce("w") [] OTHER -> FALSE)
    \/ Pushes(CASE k = 1 -> Pushing!Handler("u") [] k = 2 -> Pushing!AgentHandles("u")
                [] k = 3 -> Pushing!Request("r1") [] k = 4 -> Pushing!Request("r2") [] OTHER -> FALSE)
    \/ Pairs(CASE k = 1 -> Pair!Handler("u") [] k = 2 -> Pair!AgentHandles("u") [] k = 3 -> Pair!Handler("v")
               [] k = 4 -> Pair!AgentHandles("v") [] k = 5 -> Pair!Request("r1") [] OTHER -> FALSE)
    \/ OutboxOnly(CASE k = 1 -> Outbox!Tick [] k = 2 -> Outbox!ClaimAuditOutboxEvent("d") [] k = 3 -> Outbox!StartDelivery("d")
                    [] k = 4 -> Outbox!SinkAccepts("d") \/ Outbox!SinkFails("d")
                    [] k = 5 -> Outbox!RescheduleAuditOutboxEvent("d") [] k = 6 -> Outbox!MarkAuditOutboxEventDelivered("d")
                    [] OTHER -> FALSE)
    \/ Hubs(CASE k = 1 -> Hub!RunReturns [] k = 2 -> Hub!WriteFails("c") [] k = 3 -> Hub!WriteEnds("c")
              [] k = 4 -> Hub!ReadFails("c") [] k = 5 -> Hub!ExpirePump("c") [] k = 6 -> Hub!ExpirePumpDone("c")
              [] k = 7 -> Hub!TokenExpires("c") [] OTHER -> FALSE)
    \/ Watches(k = 1 /\ Watch!EngineStep)
    \/ Runs(CASE k = 1 -> Run!MainStep [] k = 2 -> Run!Join [] k = 3 -> Run!Timeout [] k = 4 -> Run!FanOut [] OTHER -> FALSE)

\* And those of strong fairness.
Strong(k) ==
    \/ OutboxOnly(CASE k = 1 -> Outbox!StartDelivery("d") /\ Outbox!EnoughLease("d")
                    [] k = 2 -> Outbox!SinkAccepts("d") /\ disp["d"].event = "c1"
                    [] k = 3 -> Outbox!SinkAccepts("d") /\ disp["d"].event = "r1"
                    [] k = 4 -> Outbox!MarkAuditOutboxEventDelivered("d") /\ disp["d"].event = "c1" /\ Outbox!Owns("d")
                    [] k = 5 -> Outbox!MarkAuditOutboxEventDelivered("d") /\ disp["d"].event = "r1" /\ Outbox!Owns("d")
                    [] OTHER -> FALSE)
    \/ Hubs(CASE k = 1 -> Hub!FanOut [] k = 2 -> Hub!Enqueue("p1") [] k = 3 -> Hub!Enqueue("p2")
              [] k = 4 -> Hub!Register("c") [] k = 5 -> Hub!Unregister("c") [] OTHER -> FALSE)
    \/ Watches(k = 1 /\ Watch!Lookup)
    \/ Runs(CASE k = 1 -> Run!Sent("push") [] k = 2 -> Run!EndTask("push") [] k = 3 -> Run!Sent("message")
              [] k = 4 -> Run!EndTask("message") [] k = 5 -> Run!Sent("engine") [] k = 6 -> Run!EndTask("engine"))

Spec == Init /\ [][Next]_vars /\ (\A k \in 1 .. 7 : WF_vars(Weak(k))) /\ (\A k \in 1 .. 6 : SF_vars(Strong(k)))
---------------------------------------------------------------------------
(* The properties; a component that stands still satisfies its own. *)

\* A workload whose instances are gone is shown as such and, if it stays
\* without any, archived (WorkloadLifecycle).
EmptyIsArchived == Life!GraceFlips /\ Life!EmptyIsArchived

\* Rollbacks of rollbacks come to an end when the workload has a known-good
\* config (ConfigPush); without one they need not.
RollbackSettles == <>[](IF scenario = "pair" THEN Pair!Quiet ELSE Pushing!Quiet)

\* Every event of the token audit is delivered (AuditOutbox).
AllDelivered == Outbox!AllDelivered

\* The hub does not get stuck: a broadcast gets through, a connection that is
\* over leaves nothing behind, and a client whose token expires is disconnected
\* (WSHub).
HubKeepsGoing == Hub!BroadcastGetsThrough /\ Hub!ClosedIsCleaned /\ Hub!ExpiredIsDisconnected

\* Alerts follow the fleet: a silent workload is alerted of, and the alert of
\* one that is back is resolved, as long as they are not archived (Alerts).
AlertsFollowTheFleet == Watch!SilenceIsAlerted /\ Watch!RecoveryIsSeen

\* A shutdown ends (ServerLifecycle).
ShutdownEnds == Run!ShutdownEnds
=============================================================================
