--------------------------- MODULE GuidedRollback ---------------------------
(***************************************************************************)
(* What an operator is shown before and after a rollback, while pushes,    *)
(* rollbacks and reports go on (module ConfigPush): the marks of the push  *)
(* history (decorateWorkloadConfigHistory), the row a rollback is prepared *)
(* for and the status of one that was submitted                            *)
(* (internal/api/rollback_guided.go).  Whether a prepared rollback can be  *)
(* submitted is in module ConfigPlan.                                      *)
(*                                                                         *)
(* The status request combines a row with the status the workload row      *)
(* holds, which the handlers of all instances read and write as a whole.   *)
(***************************************************************************)
EXTENDS ConfigPush

CONSTANT Watching  \* somebody asks for the status of a rollback

VARIABLES remote,  \* the workload's remote_config_status
          snap,    \* per UID, the status a handler has read with the workload row
          poll,    \* a status request between its two reads
          answer,  \* the last answer of a status request
          said     \* every status an agent has reported

NoSnap == [config |-> NoConfig, status |-> "unread"]
NoPoll == [row |-> 0, status |-> "none"]

GVars == <<vars, remote, snap, poll, answer, said>>

GInit ==
    /\ Init
    /\ remote = [config |-> Seed, status |-> "applied"] /\ snap = [u \in UIDs |-> NoSnap]
    /\ poll = NoPoll /\ answer = [hash |-> NoConfig, apply |-> "none", terminal |-> FALSE]
    /\ said = {last[u] : u \in UIDs}

---------------------------------------------------------------------------
(* The history: decorateWorkloadConfigHistory. *)

\* The rows that read as applied.
ShownApplied == {i \in DOMAIN hist : Hydrated(hist[i]) = "applied"}

\* The rows that run now: those of the active hash or, without one, the newest
\* that reads as applied.
CurrentRows ==
    LET active == {i \in DOMAIN hist : activeHash # NoConfig /\ hist[i].config = activeHash}
    IN IF active # {} THEN active ELSE {Latest(ShownApplied)} \ {0}

PreviousRow ==
    LET current == {hist[i].config : i \in CurrentRows}
    IN Latest({i \in ShownApplied : hist[i].config \notin current})

\* The row a rollback is prepared for.
resolveRollbackTarget(ref) ==
    IF ref # "known_good" THEN LatestOf(ref) ELSE IF KnownGood = NoConfig THEN 0 ELSE LatestOf(KnownGood)

---------------------------------------------------------------------------
(* The status of a submitted rollback, in its two reads. *)

PollRow(i) ==
    /\ Watching /\ poll = NoPoll /\ i \in DOMAIN hist /\ hist[i].by = "user"
    /\ poll' = [row |-> i, status |-> Hydrated(hist[i])]
    /\ UNCHANGED <<vars, remote, snap, answer, said>>

\* Variant: the workload's status counts whatever config it is of.
ApplyStatus_any(hash, rowStatus) ==
    IF remote.status \in Reported THEN remote.status
    ELSE IF rowStatus \in Reported THEN rowStatus ELSE "accepted"

ApplyStatus(hash, rowStatus) ==
    IF remote.config = hash /\ remote.status \in Reported THEN remote.status
    ELSE IF rowStatus \in Reported THEN rowStatus ELSE "accepted"

\* late: more than rollbackTimeoutSeconds have passed.
handleRollbackStatus(late) ==
    LET hash == hist[poll.row].config
        apply == ApplyStatus(hash, poll.status)
        over == apply \in {"applied", "failed"}
    IN /\ poll # NoPoll /\ poll' = NoPoll
       /\ answer' = [hash |-> hash, apply |-> IF over \/ ~ late THEN apply ELSE "unknown", terminal |-> over \/ late]
       /\ UNCHANGED <<vars, remote, snap, said>>

---------------------------------------------------------------------------
(* The workload row. *)

\* refreshWorkloadState of any message: the row is read and written back.
ReadWorkload(u) ==
    /\ Watching /\ snap[u] = NoSnap /\ h[u] = Idle /\ u \in live
    /\ snap' = [snap EXCEPT ![u] = remote]
    /\ UNCHANGED <<vars, remote, poll, answer, said>>

WriteWorkload(u) ==
    /\ snap[u] # NoSnap /\ remote' = snap[u] /\ snap' = [snap EXCEPT ![u] = NoSnap]
    /\ UNCHANGED <<vars, poll, answer, said>>

\* A step of ConfigPush.  A status handler stores its status in the workload
\* row once it has merged it into the history; it handles one message at a
\* time.
Merging == {u \in UIDs : h[u].at = "merge" /\ h'[u].at # "merge"}

PushStep ==
    /\ Next
    /\ \A u \in UIDs : snap[u] # NoSnap => h'[u] = h[u]
    /\ remote' = IF Merging = {} THEN remote
                 ELSE LET u == CHOOSE v \in Merging : TRUE IN [config |-> h[u].config, status |-> h[u].status]
    /\ said' = said \cup {last'[u] : u \in UIDs}
    /\ UNCHANGED <<snap, poll, answer>>

GNext ==
    \/ PushStep
    \/ \E u \in UIDs : ReadWorkload(u) \/ WriteWorkload(u)
    \/ \E i \in DOMAIN hist : PollRow(i)
    \/ \E late \in BOOLEAN : handleRollbackStatus(late)

GSpec == GInit /\ [][GNext]_GVars
---------------------------------------------------------------------------

\* The answer to "what became of my rollback" is never another config's: a
\* rollback that is shown as applied or failed was reported so by an agent, or
\* could not be sent.  The workload's status may be of any config, and may be
\* an old one that a late writer has put back.
AnswerWasReported ==
    /\ answer.apply \in {"applied", "applying"} => \E s \in said : s.config = answer.hash /\ s.status = "applied"
    /\ answer.apply = "failed" =>
          \/ \E s \in said : s.config = answer.hash /\ s.status = "failed"
          \/ \E i \in DOMAIN hist : hist[i].config = answer.hash /\ hist[i].status = "failed"

\* The stored statuses are the ones the history shows.
StoredIsShown == \A i \in DOMAIN hist : hist[i].status = "applied" <=> i \in ShownApplied

\* The config of a request that resolves its target is the one the known-good
\* selector is prepared for, if there is one, and otherwise that of the row
\* marked as previous.  It is not the config of a row marked as current.
TargetIsShown(r) ==
    LET marked == resolveRollbackTarget("known_good")
        shown == IF marked # 0 THEN marked ELSE PreviousRow
    IN req[r].at = "resolve" /\ req'[r].at = "record" /\ StoredIsShown =>
           /\ shown # 0 /\ req'[r].target = hist[shown].config
           /\ \A i \in CurrentRows : hist[i].config # req'[r].target

\* "GetRollbackTarget resolves Last known-good first, then Previous": a rollback
\* to the default goes to the known-good config if there is one, and otherwise
\* to the row the history marks as previous, never to the one it marks as
\* current, as long as the stored statuses are the ones the history shows.
DefaultIsShown == [][\A r \in DOMAIN req : TargetIsShown(r)]_GVars

\* "rollback target must be an applied config": also a rollback to the default
\* goes to a config whose latest row reads as applied.
DefaultIsApplied ==
    [][\A r \in DOMAIN req : req[r].at = "resolve" /\ req'[r].at = "record" =>
          Hydrated(hist[LatestOf(req'[r].target)]) = "applied"]_GVars
=============================================================================
