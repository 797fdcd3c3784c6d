------------------------------ MODULE KnownGood ------------------------------
(***************************************************************************)
(* The known-good config of a workload: marking and clearing it            *)
(* (internal/api/workloads.go over internal/store/workload_configs.go).    *)
(*                                                                         *)
(* A mark reads the history in the handler and again in a transaction,     *)
(* which then reads the pointer and upserts it; at the isolation level in  *)
(* use every statement sees what is committed when it starts, so each is   *)
(* an action.  The history changes underneath as instances report.         *)
(***************************************************************************)
EXTENDS Naturals

CONSTANTS Configs, NoConfig, Unset, Requests,
          MayClear  \* operators also clear the pointer

ASSUME KnownGoodAssumption ==
    NoConfig \notin Configs /\ Unset \notin Configs \cup {NoConfig} /\ MayClear \in BOOLEAN

VARIABLES kg,        \* the row of workload_known_good_configs, config = NoConfig when there is none
          applied,   \* configs with an applied row in the history
          latest,    \* configs whose latest row is applied
          archived,  \* the workload is archived
          req        \* the requests

vars == <<kg, applied, latest, archived, req>>

Idle == [at |-> "idle", config |-> NoConfig, ifCurrent |-> Unset, force |-> FALSE, replaced |-> NoConfig]

Init ==
    /\ kg = [config |-> NoConfig, replaced |-> NoConfig]
    /\ applied = {} /\ latest = {} /\ archived = FALSE
    /\ req = [r \in Requests |-> Idle]

Step(r, from, new) == req[r].at = from /\ req' = [req EXCEPT ![r] = new]

---------------------------------------------------------------------------

handleMarkWorkloadConfigKnownGood(r, c, cur, force) ==
    /\ ~ archived /\ c \in latest
    /\ Step(r, "idle", [Idle EXCEPT !.at = "begin", !.config = c, !.ifCurrent = cur, !.force = force])
    /\ UNCHANGED <<kg, applied, latest, archived>>

\* The transaction looks at the workload and at its history.
ReadHistory(r) ==
    /\ Step(r, "begin", IF ~ archived /\ req[r].config \in applied THEN [req[r] EXCEPT !.at = "read"] ELSE Idle)
    /\ UNCHANGED <<kg, applied, latest, archived>>

preconditionConflicts(current, target, cur, force) ==
    /\ ~ force
    /\ IF cur # Unset THEN cur # current ELSE current # NoConfig /\ current # target

\* Variant: what is replaced is what the caller names.
ReadPointer_named(r) ==
    LET q == req[r] IN
    /\ Step(r, "read", IF \/ preconditionConflicts(kg.config, q.config, q.ifCurrent, q.force)
                          \/ kg.config = q.config
                       THEN Idle ELSE [q EXCEPT !.at = "write", !.replaced = q.ifCurrent])
    /\ UNCHANGED <<kg, applied, latest, archived>>

\* ... and at the pointer.
ReadPointer(r) ==
    LET q == req[r] IN
    /\ Step(r, "read", IF \/ preconditionConflicts(kg.config, q.config, q.ifCurrent, q.force)
                          \/ kg.config = q.config
                       THEN Idle ELSE [q EXCEPT !.at = "write", !.replaced = kg.config])
    /\ UNCHANGED <<kg, applied, latest, archived>>

\* Variant: the update is unconditional.
MayUpdate_any(q) == TRUE

\* The WHERE of the upsert's DO UPDATE.
MayUpdate(q) == q.force \/ kg.config = q.ifCurrent \/ kg.config = q.config

SetWorkloadKnownGood(r) ==
    LET q == req[r] IN
    /\ Step(r, "write", Idle)
    /\ kg' = IF kg.config = NoConfig \/ MayUpdate(q)
             THEN [config |-> q.config, replaced |-> q.replaced] ELSE kg
    /\ UNCHANGED <<applied, latest, archived>>

handleClearWorkloadKnownGood(r) ==
    /\ MayClear /\ ~ archived
    /\ Step(r, "idle", [Idle EXCEPT !.at = "clear"])
    /\ UNCHANGED <<kg, applied, latest, archived>>

ClearWorkloadKnownGood(r) ==
    /\ Step(r, "clear", Idle)
    /\ kg' = [config |-> NoConfig, replaced |-> NoConfig]
    /\ UNCHANGED <<applied, latest, archived>>

---------------------------------------------------------------------------

\* A push of c succeeds or fails; a failure is a new row or changes the old one.
HistoryChanges(c) ==
    /\ \/ applied' = applied \cup {c} /\ latest' = latest \cup {c}
       \/ applied' \in {applied, applied \ {c}} /\ latest' = latest \ {c}
    /\ UNCHANGED <<kg, archived, req>>

ArchiveOrReturn == archived' = ~ archived /\ UNCHANGED <<kg, applied, latest, req>>

Next ==
    \/ ArchiveOrReturn \/ \E c \in Configs : HistoryChanges(c)
    \/ \E r \in Requests :
          \/ ReadHistory(r) \/ ReadPointer(r) \/ SetWorkloadKnownGood(r)
          \/ handleClearWorkloadKnownGood(r) \/ ClearWorkloadKnownGood(r)
          \/ \E c \in Configs, cur \in Configs \cup {NoConfig, Unset}, force \in BOOLEAN :
                handleMarkWorkloadConfigKnownGood(r, c, cur, force)

Spec == Init /\ [][Next]_vars
---------------------------------------------------------------------------

TypeOK ==
    /\ kg \in [config : Configs \cup {NoConfig}, replaced : Configs \cup {NoConfig}]
    /\ applied \subseteq Configs /\ latest \subseteq Configs /\ archived \in BOOLEAN
    /\ req \in [Requests -> [at : {"idle", "begin", "read", "write", "clear"},
                             config : Configs \cup {NoConfig},
                             ifCurrent : Configs \cup {NoConfig, Unset}, force : BOOLEAN,
                             replaced : Configs \cup {NoConfig}]]

\* Where the write of r moves the baseline from one config to another without
\* force, it records the one it was.
ReplacesTruthfully(r) ==
    req[r].at = "write" /\ req'[r].at = "idle" /\ ~ req[r].force /\ kg.config # NoConfig /\ kg'.config # kg.config =>
        kg'.replaced = kg.config

\* A mark that was not forced and moves the baseline from one config to another
\* records the config it replaced, although it read that config in an earlier
\* statement than the one that replaces it.
ReplacedIsTruthful == [][\A r \in Requests : ReplacesTruthfully(r)]_vars

\* The requests as KnownGoodRegister sees them.
Asked == [r \in Requests |->
            IF req[r].at \in {"begin", "read", "write"}
            THEN [config |-> req[r].config, ifCurrent |-> req[r].ifCurrent, force |-> req[r].force]
            ELSE [config |-> NoConfig, ifCurrent |-> Unset, force |-> FALSE]]

R == INSTANCE KnownGoodRegister WITH pointer <- kg.config, asked <- Asked

\* "marks a known-good config only when the caller's replacement precondition
\* still matches at write time": the handler and its transaction are one
\* compare-and-set where nobody clears the pointer (MayClear = FALSE).  After a
\* clear the upsert inserts, and only an update tests the precondition.
CompareAndSet == R!RSpec
=============================================================================
