---------------------------- MODULE MCInventory ----------------------------
(***************************************************************************)
(* The inventory of the fleet, for TLC: rows, registry and grace timers of *)
(* the workloads, their identity and history, the alert engine and the     *)
(* views of a fleet.  A behaviour is one of one of them, named by scenario *)
(* while the others are off.  The history of one agent, which changes its  *)
(* description, reconnects and moves, and the views are those of modules   *)
(* this one extends.                                                       *)
(***************************************************************************)
EXTENDS WorkloadIdentity, MCFleets, TLC

CONSTANTS Scenarios, u1, u2, NoAlert

VARIABLES scenario,
          byWorkload, uidToWL, unhealthy, timers, entry, shownRow, pc, wl, read, tail, tailWL, archiving,
          pods, podRow, podLog, podH, podTails, podAgent,
          shown, rows, alert, told, minSet, eng

lifeVars == <<byWorkload, uidToWL, unhealthy, timers, entry, shownRow, pc, wl, read, tail, tailWL, archiving>>
podVars == <<pods, podRow, podLog, podH, podTails, podAgent>>
alertVars == <<shown, rows, alert, told, minSet, eng>>
allVars == <<scenario, lifeVars, vars, podVars, alertVars, viewVars>>

Symmetric == Permutations({u1, u2})
---------------------------------------------------------------------------
(* The instances *)

\* Two instances of one workload come and go; the server and its database stay up.
Rows == INSTANCE WorkloadLifecycle WITH
    UIDs <- {u1, u2}, Workloads <- {"w1"}, WorkloadsOf <- [u \in {u1, u2} |-> {"w1"}], NoWorkload <- "none",
    TimerIds <- {"i1"}, NoTimer <- "none", Healths <- {TRUE}, MayRestart <- FALSE, StoreFails <- FALSE,
    row <- shownRow

\* One instance that comes and goes while the callbacks of older grace timers wait.
Grace == INSTANCE WorkloadLifecycle WITH
    UIDs <- {"u"}, Workloads <- {"w1"}, WorkloadsOf <- [u \in {"u"} |-> {"w1"}], NoWorkload <- "none",
    TimerIds <- {"i1", "i2", "i3"}, NoTimer <- "none", Healths <- {TRUE}, MayRestart <- FALSE, StoreFails <- FALSE,
    row <- shownRow

\* One instance moves between two workloads, with restarts and failing writes.
Moves == INSTANCE WorkloadLifecycle WITH
    UIDs <- {"u"}, Workloads <- {"w1", "w2"}, WorkloadsOf <- [u \in {"u"} |-> {"w1", "w2"}], NoWorkload <- "none",
    TimerIds <- {"i1"}, NoTimer <- "none", Healths <- {TRUE}, MayRestart <- TRUE, StoreFails <- TRUE,
    row <- shownRow

\* One instance whose health changes.
Health == INSTANCE WorkloadLifecycle WITH
    UIDs <- {"u"}, Workloads <- {"w1"}, WorkloadsOf <- [u \in {"u"} |-> {"w1"}], NoWorkload <- "none",
    TimerIds <- {"i1"}, NoTimer <- "none", Healths <- {TRUE, FALSE}, MayRestart <- TRUE, StoreFails <- TRUE,
    row <- shownRow

\* What the agent of the history may say of itself.
MovingAgent == [u \in {"u"} |-> Moving]

\* Two agents of one deployment, whose row may be deleted.
Rollouts == INSTANCE WorkloadIdentity WITH
    UIDs <- {u1, u2}, Descriptions <- [u \in {u1, u2} |-> Rollout], MaxMessages <- 2, MaxReleases <- 0,
    MayDelete <- TRUE, registry <- pods, row <- podRow, log <- podLog, h <- podH, tails <- podTails,
    agent <- podAgent

\* Three workloads on two pages, under one rule,
Pages == INSTANCE Alerts WITH
    N <- 3, PageSize <- 2, AlertIds <- 1..4, MaxPushes <- 0, Rules <- {1}, LookupFails <- FALSE, wl <- shown

\* one workload under all three,
AllRules == INSTANCE Alerts WITH
    N <- 1, PageSize <- 1, AlertIds <- 1..3, MaxPushes <- 2, Rules <- {1, 2, 3}, LookupFails <- FALSE, wl <- shown

\* and two whose open alerts are not always found.
Lookups == INSTANCE Alerts WITH
    N <- 2, PageSize <- 1, AlertIds <- 1..4, MaxPushes <- 0, Rules <- {1}, LookupFails <- TRUE, wl <- shown
---------------------------------------------------------------------------

Off == << >>

SuiteInit ==
    /\ scenario \in Scenarios /\ Init
    /\ CASE scenario = "rows" -> Rows!Init
         [] scenario = "grace" -> Grace!Init
         [] scenario = "moves" -> Moves!Init
         [] scenario = "health" -> Health!Init
         [] OTHER -> /\ byWorkload = Off /\ uidToWL = Off /\ unhealthy = Off /\ timers = Off /\ entry = Off
                     /\ shownRow = Off
                     /\ pc = Off /\ wl = Off /\ read = Off /\ tail = Off /\ tailWL = Off /\ archiving = Off
    /\ CASE scenario = "rollouts" -> Rollouts!Init
         [] OTHER -> pods = Off /\ podRow = Off /\ podLog = Off /\ podH = Off /\ podTails = Off /\ podAgent = Off
    /\ CASE scenario = "pages" -> Pages!Init
         [] scenario = "rules" -> AllRules!Init
         [] scenario = "lookups" -> Lookups!Init
         [] OTHER -> shown = Off /\ rows = Off /\ alert = Off /\ told = Off /\ minSet = Off /\ eng = Off
    /\ CASE scenario = "views" -> ViewInit
         [] OTHER -> fleet = Off /\ recommended = Off /\ out = Off

Life ==
    /\ \/ scenario = "rows" /\ Rows!Next
       \/ scenario = "grace" /\ Grace!Next
       \/ scenario = "moves" /\ Moves!Next
       \/ scenario = "health" /\ Health!Next
    /\ UNCHANGED <<scenario, vars, podVars, alertVars, viewVars>>

Identity ==
    /\ \/ scenario = "history" /\ Next /\ UNCHANGED podVars
       \/ scenario = "rollouts" /\ Rollouts!Next /\ UNCHANGED vars
    /\ UNCHANGED <<scenario, lifeVars, alertVars, viewVars>>

Alerting ==
    /\ \/ scenario = "pages" /\ Pages!Next
       \/ scenario = "rules" /\ AllRules!Next
       \/ scenario = "lookups" /\ Lookups!Next
    /\ UNCHANGED <<scenario, lifeVars, vars, podVars, viewVars>>

Looking == scenario = "views" /\ Look /\ UNCHANGED <<scenario, lifeVars, vars, podVars, alertVars>>

SuiteNext == Life \/ Identity \/ Alerting \/ Looking

SuiteSpec == SuiteInit /\ [][SuiteNext]_allVars
---------------------------------------------------------------------------
(* The properties, by the scenario they are about.  LogIsExact is that of
   WorkloadIdentity, ViewsAgree that of FleetViews. *)

\* A workload without instances that is shown as connected is attended to by a
\* release, a grace timer or its callback; the callback of a cancelled or
\* replaced timer never runs, even one that had fired already; and the two maps
\* of the registry that all this reads are inverse to each other, also while an
\* instance changes its workload (WorkloadLifecycle).
DisconnectIsAttended ==
    /\ scenario = "rows" => Rows!DisconnectIsAttended /\ Rows!SupersededNeverRuns /\ Rows!RegistryConsistent
    /\ scenario = "grace" => Grace!DisconnectIsAttended /\ Grace!SupersededNeverRuns
    /\ scenario = "moves" => Moves!RegistryConsistent

\* Handlers that read a row, change it and write it back undo nothing that
\* matters: a message never writes its own workload as disconnected
\* (WorkloadLifecycle), components that were reported are not lost, an agent
\* only moves to another workload with the attributes that make an identity, and
\* a version change in the log starts from the version of the event before it,
\* with two agents and a row that may be deleted in between (WorkloadIdentity).
RewritesKeepTheRow ==
    /\ Moves!HandlerSeesItself /\ Rollouts!ComponentsAreKept /\ OnlyIdentityMoves
    /\ [](scenario = "rollouts" => Rollouts!LogIsAChain)

\* The janitor archives no workload that has an instance and whose messages
\* have all been processed (docs/users/configuration.md:107: "archived if it
\* has not reconnected within this window").
JanitorSparesLive == Rows!JanitorSparesLive

\* A condition has one open alert, although operators resolve alerts between
\* the look-up and what the engine does about it; workload_down keeps to this
\* also when look-ups fail (Alerts).
OneOpenAlert ==
    /\ scenario = "pages" => Pages!OneOpenAlert
    /\ scenario = "rules" => AllRules!OneOpenAlert
    /\ scenario = "lookups" => Lookups!OneDownAlert
=============================================================================
