----------------------------- MODULE MCRollouts -----------------------------
(***************************************************************************)
(* Configs on their way to a fleet, for TLC: approvals, canaries and the   *)
(* known-good baseline of a workload, which this module extends.  A        *)
(* behaviour is one of one of them, named by scenario, while the others    *)
(* stay as they start.                                                     *)
(***************************************************************************)
EXTENDS KnownGood, TLC

CONSTANTS Scenarios, r1, r2, r3, d1, d2

VARIABLES scenario,
          base, wasApplied, newest, retired, marking,
          rows, valid, asking, sent, pushes, looked,
          canary, fleet, alert, got, said, proven, acting

clearVars == <<base, wasApplied, newest, retired, marking>>
approvalVars == <<rows, valid, asking, sent, pushes, looked>>
canaryVars == <<canary, fleet, alert, got, said, proven, acting>>
allVars == <<scenario, vars, clearVars, approvalVars, canaryVars>>

Symmetric == Permutations({r1, r2}) \cup Permutations({d1, d2})
---------------------------------------------------------------------------
(* The instances *)

\* Marks and clears: the baseline with its own variables, for a clear need not
\* respect what another operator expects to replace.
Clearing == INSTANCE KnownGood WITH
    MayClear <- TRUE, kg <- base, applied <- wasApplied, latest <- newest, archived <- retired, req <- marking

\* Two operators, two approval rows, two drafts.
Flow == INSTANCE ConfigApprovals WITH
    Drafts <- {d1, d2}, NoDraft <- "none", Ids <- {"i1", "i2"}, NoId <- "none", Requests <- {r1, r2},
    WorkloadChanges <- FALSE, MayStop <- FALSE, req <- asking

\* Three operators and one row; drafts stop being valid and requests are cut off.
Late == INSTANCE ConfigApprovals WITH
    Drafts <- {d1, d2}, NoDraft <- "none", Ids <- {"i1"}, NoId <- "none", Requests <- {r1, r2, r3},
    WorkloadChanges <- TRUE, MayStop <- TRUE, req <- asking

By(strategy, number, uids) == [strategy |-> strategy, number |-> number, uids |-> uids]

AllKinds == {By("one", 0, {1}), By("count", 1, {}), By("count", 2, {}), By("percentage", 50, {}),
             By("percentage", 99, {}), By("label_selector", 1, {}), By("instances", 0, {1, 2})}

\* Two operators at once, two instances.
Actions == INSTANCE Canary WITH
    N <- 2, Selections <- {By("count", 1, {})}, Requests <- {r1, r2},
    Kinds <- {"start", "promote", "abort", "rollback", "get"}, Reports <- {"applied", "failed"},
    Failures <- {"alert", "again"}, row <- canary, req <- acting

\* Every way to choose among three instances, whatever happens to them.
Choices == INSTANCE Canary WITH
    N <- 3, Selections <- AllKinds, Requests <- {"r"}, Kinds <- {"start", "promote", "get"},
    Reports <- {"applied"}, Failures <- {"degraded", "stale", "gone", "alert"}, row <- canary, req <- acting

\* Pushes that fail to be sent, to a canary of two.
Sends == INSTANCE Canary WITH
    N <- 3, Selections <- {By("percentage", 60, {})}, Requests <- {r1, r2}, Kinds <- {"start", "get", "abort", "rollback"},
    Reports <- {"applied", "failed"}, Failures <- {"send"}, row <- canary, req <- acting

\* Reads of a canary of two that write its row, for targets are degraded.
Reads == INSTANCE Canary WITH
    N <- 3, Selections <- {By("percentage", 60, {})}, Requests <- {r1, r2}, Kinds <- {"start", "get", "promote"},
    Reports <- {"applied", "failed"}, Failures <- {"degraded"}, row <- canary, req <- acting
---------------------------------------------------------------------------

SuiteInit ==
    /\ scenario \in Scenarios /\ Init /\ Clearing!Init
    /\ IF scenario = "late" THEN Late!Init ELSE Flow!Init
    /\ CASE scenario = "choices" -> Choices!Init [] scenario = "sends" -> Sends!Init
         [] scenario = "reads" -> Reads!Init [] OTHER -> Actions!Init

Baseline == scenario = "baseline" /\ Next /\ UNCHANGED <<scenario, clearVars, approvalVars, canaryVars>>

Marking == scenario = "clears" /\ Clearing!Next /\ UNCHANGED <<scenario, vars, approvalVars, canaryVars>>

Approving ==
    /\ \/ scenario = "flow" /\ Flow!Next
       \/ scenario = "late" /\ Late!Next
    /\ UNCHANGED <<scenario, vars, clearVars, canaryVars>>

Trying ==
    /\ \/ scenario = "actions" /\ Actions!Next
       \/ scenario = "choices" /\ Choices!Next
       \/ scenario = "sends" /\ Sends!Next
       \/ scenario = "reads" /\ Reads!Next
    /\ UNCHANGED <<scenario, vars, clearVars, approvalVars>>

SuiteNext == Baseline \/ Marking \/ Approving \/ Trying

SuiteSpec == SuiteInit /\ [][SuiteNext]_allVars
---------------------------------------------------------------------------
(* The properties, by the scenario they are about.  CompareAndSet is that of
   KnownGood. *)

\* What operators decide holds under races: one pending draft per target, a push
\* without break-glass follows an approval of its row, an approval is never
\* taken back, and the hash of a pushed row is that of a draft sent for it
\* (ConfigApprovals); a mark of the known-good config records the config it
\* replaces, also beside clears (KnownGood).
DecisionsHold ==
    /\ [](scenario = "flow" => Flow!OnePending /\ Flow!PushNeedsApproval)
    /\ [](scenario = "late" => Late!MarkedHashWasSent)
    /\ Flow!DecisionSticks /\ Clearing!ReplacedIsTruthful

\* The candidate leaves the canary only after every target has reported it
\* applied, a canary that has succeeded was reported applied by all its targets,
\* and the canary was a part of the fleet to begin with (Canary).
BroadPushIsEarned ==
    /\ [](scenario = "actions" => Actions!BroadPushIsEarned /\ Actions!SucceededIsReported)
    /\ [](scenario = "choices" => Choices!BroadPushIsEarned)
    /\ [](scenario = "sends" => Sends!SucceededIsReported)
    /\ Choices!CanaryIsPartial

\* What a canary says of its targets is so: an active one has the last report of
\* each of them, also when reads of degraded targets write its row, as long as no
\* instance goes back on having applied the candidate; and every target of one
\* that is rolled back was sent the rollback config (Canary).
ReportsAreKept ==
    /\ scenario = "reads" => Reads!ReportsAreKept
    /\ scenario = "sends" => Sends!ReportsAreKept /\ Sends!RollbackIsPushed
    /\ scenario = "actions" => Actions!RollbackIsPushed
=============================================================================
