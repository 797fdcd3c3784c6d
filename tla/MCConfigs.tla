----------------------------- MODULE MCConfigs -----------------------------
(***************************************************************************)
(* Configs on their way to an agent, for TLC: the verdicts on a draft, the *)
(* history row of a push, overlapping pushes with their automatic          *)
(* rollbacks, and the rollbacks an operator asks for.  A behaviour is one  *)
(* of one of them, named by scenario, while the others are off.            *)
(***************************************************************************)
EXTENDS MCDrafts, TLC

CONSTANTS Scenarios, u1, u2, r1, r2

VARIABLES scenario,
          a, b, c, order,
          wl, draft, env, out,
          pushed, due, pusher, unsent, got, agent, pc, cut,
          hist, live, offers, reports, running, last, h, req, stated, activeID, activeHash, auto,
          remote, snap, poll, answer, said

versionVars == <<a, b, c, order>>
planVars == <<wl, draft, env, out>>
rowVars == <<pushed, due, pusher, unsent, got, agent, pc, cut>>
pushVars == <<hist, live, offers, reports, running, last, h, req, stated, activeID, activeHash, auto>>
guideVars == <<remote, snap, poll, answer, said>>
vars == <<scenario, versionVars, planVars, rowVars, pushVars, guideVars>>

Symmetric == Permutations({u1, u2}) \cup Permutations({r1, r2})
---------------------------------------------------------------------------
(* The instances *)

Versions == INSTANCE VersionOrder WITH Strings <- VersionStrings, out <- order

\* Every mistake a config can have, for one workload,
Verdicts == INSTANCE ConfigPlan WITH
    Workloads <- FullWorkloads, Drafts <- FullDrafts, Environments <- FullEnvironments

\* and every state of a workload, for a few configs.
Answers == INSTANCE ConfigPlan WITH
    Workloads <- SomeWorkloads, Drafts <- SomeDrafts, Environments <- SomeEnvironments

\* One push to two of three instances.
Row == INSTANCE PushRow WITH
    UIDs <- {u1, u2, "u3"}, Targets <- {u1, u2}, Messages <- {"collector_validation", "permission_or_policy"},
    MayRestart <- TRUE, row <- pushed

MayFail == [x \in {"c1", "c2"} |-> {"applied", "failed"}]
\* c1 works, c2 is rejected or works.
Mixed == [x \in {"c1", "c2"} |-> IF x = "c1" THEN {"applied"} ELSE {"applied", "failed"}]

\* Two requests at a time, to two instances.
Overlap == INSTANCE ConfigPush WITH
    UIDs <- {u1, u2}, Configs <- {"c1", "c2"}, NoConfig <- "none", Seed <- "c1", KnownGood <- "none",
    Outcomes <- Mixed, Requests <- {r1, r2}, Kinds <- {"push", "hash", "default"}, MayLeave <- FALSE, MaxRows <- 3

\* One request, to instances that come and go.
Leave == INSTANCE ConfigPush WITH
    UIDs <- {u1, u2}, Configs <- {"c1", "c2"}, NoConfig <- "none", Seed <- "c1", KnownGood <- "none",
    Outcomes <- Mixed, Requests <- {"r"}, Kinds <- {"push", "hash", "default"}, MayLeave <- TRUE, MaxRows <- 3

\* Somebody follows a rollback to two instances,
Watch == INSTANCE GuidedRollback WITH
    UIDs <- {u1, u2}, Configs <- {"c1", "c2"}, NoConfig <- "none", Seed <- "c1", KnownGood <- "none",
    Outcomes <- Mixed, Requests <- {"r"}, Kinds <- {"push"}, MayLeave <- FALSE, MaxRows <- 3, Watching <- TRUE

\* asks for the default with a known-good config, which may fail when it is pushed again,
Baseline == INSTANCE GuidedRollback WITH
    UIDs <- {"u"}, Configs <- {"c1", "c2"}, NoConfig <- "none", Seed <- "c1", KnownGood <- "c1",
    Outcomes <- MayFail, Requests <- {"r", "s", "t"}, Kinds <- {"push", "hash", "default"}, MayLeave <- FALSE,
    MaxRows <- 3, Watching <- FALSE

\* and without one, each time among two other requests.
Guided == INSTANCE GuidedRollback WITH
    UIDs <- {"u"}, Configs <- {"c1", "c2"}, NoConfig <- "none", Seed <- "c1", KnownGood <- "none",
    Outcomes <- MayFail, Requests <- {"r", "s", "t"}, Kinds <- {"push", "hash", "default"}, MayLeave <- FALSE,
    MaxRows <- 3, Watching <- FALSE
---------------------------------------------------------------------------

Off == << >>

Init ==
    /\ scenario \in Scenarios
    /\ CASE scenario = "versions" -> Versions!Init
         [] OTHER -> a = Off /\ b = Off /\ c = Off /\ order = Off
    /\ CASE scenario = "verdicts" -> Verdicts!Init
         [] scenario = "answers" -> Answers!Init
         [] OTHER -> wl = Off /\ draft = Off /\ env = Off /\ out = Off
    /\ CASE scenario = "row" -> Row!Init
         [] OTHER -> /\ pushed = Off /\ due = Off /\ pusher = Off /\ unsent = Off
                     /\ got = Off /\ agent = Off /\ pc = Off /\ cut = Off
    /\ CASE scenario = "overlap" -> Overlap!Init
         [] scenario = "leave" -> Leave!Init
         [] scenario = "watch" -> Watch!Init
         [] scenario = "baseline" -> Baseline!Init
         [] scenario = "guided" -> Guided!Init
         [] OTHER -> /\ hist = Off /\ live = Off /\ offers = Off /\ reports = Off /\ running = Off /\ last = Off
                     /\ h = Off /\ req = Off /\ stated = Off /\ activeID = Off /\ activeHash = Off /\ auto = Off
    /\ CASE scenario = "watch" -> Watch!GInit
         [] scenario = "baseline" -> Baseline!GInit
         [] scenario = "guided" -> Guided!GInit
         [] OTHER -> remote = Off /\ snap = Off /\ poll = Off /\ answer = Off /\ said = Off

Judging ==
    /\ \/ scenario = "verdicts" /\ Verdicts!Next
       \/ scenario = "answers" /\ Answers!Next
    /\ UNCHANGED <<scenario, versionVars, rowVars, pushVars, guideVars>>

Comparing == scenario = "versions" /\ Versions!Next /\ UNCHANGED <<scenario, planVars, rowVars, pushVars, guideVars>>

Recording == scenario = "row" /\ Row!Next /\ UNCHANGED <<scenario, versionVars, planVars, pushVars, guideVars>>

Pushing ==
    /\ \/ scenario = "overlap" /\ Overlap!Next
       \/ scenario = "leave" /\ Leave!Next
    /\ UNCHANGED <<scenario, versionVars, planVars, rowVars, guideVars>>

RollingBack ==
    /\ \/ scenario = "watch" /\ Watch!GNext
       \/ scenario = "baseline" /\ Baseline!GNext
       \/ scenario = "guided" /\ Guided!GNext
    /\ UNCHANGED <<scenario, versionVars, planVars, rowVars>>

Next == Judging \/ Comparing \/ Recording \/ Pushing \/ RollingBack

Spec == Init /\ [][Next]_vars
---------------------------------------------------------------------------
(* The properties, by the scenario they are about *)

\* Compare decides the versions that parse and no other, is an order on them,
\* and puts prereleases in the order of the standard (VersionOrder).
VersionsAreOrdered == scenario = "versions" => Versions!CompareIsAnOrder /\ Versions!PrecedenceIsStandard

\* The verdict on a config is exact: it is valid exactly when it is well formed,
\* what it uses is installed, the version policy is met and otelcol does not
\* reject it; "passed" means that no check was left out; and a collector
\* reported as runnable has every component of the config (ConfigPlan).
VerdictIsExact ==
    scenario = "verdicts" => Verdicts!ValidIsExact /\ Verdicts!PassedIsComplete /\ Verdicts!RunnableIsInstalled

\* The plan of a collector says "can push" exactly when the push would be sent.
\* The preview of a fleet push, and the preparation of a rollback with its
\* submission, agree up to what they do not look at: the version policy, otelcol
\* and, for the preview, a degraded state and the policies (ConfigPlan).
PlanIsTruthful ==
    scenario = "answers" => Answers!PlanIsTruthful /\ Answers!PreviewIsExact /\ Answers!ButtonIsTruthful

\* The history says what the instances have said, in whatever order it was
\* written: a reader sees their statuses, the timeout is shown for exactly the
\* silent targets, an instance in error is in one group, under the cause that the
\* stored title of its latest report gives (PushRow), and a row credits an
\* instance, as applied or as failed, only with what that instance has reported
\* of that row's config, whatever pushes and rollbacks overlap (ConfigPush).
HistoryFollowsReports ==
    /\ scenario = "row" => Row!ReadFollowsReports /\ Row!TimedOutAreSilent /\ Row!GroupsAreExact
    /\ scenario = "overlap" => Overlap!CreditedRightly
    /\ scenario = "leave" => Leave!CreditedRightly

\* Rollbacks are sound: an automatic one goes to a config that an instance has
\* reported as applied (ConfigPush); the answer to "what became of my rollback"
\* is never another config's, and a rollback to the default goes to the
\* known-good config, or else to the row marked as previous, and not to the
\* current one (GuidedRollback).
RollbacksAreSound ==
    /\ [](scenario = "overlap" => Overlap!RollbackTargetsProven)
    /\ [](scenario = "guided" => Guided!RollbackTargetsProven)
    /\ [](scenario = "watch" => Watch!AnswerWasReported)
    /\ [](scenario = "baseline" => Baseline!RollbackTargetsProven)
    /\ [][scenario = "baseline" => \A r \in DOMAIN req : Baseline!TargetIsShown(r)]_vars
    /\ [][scenario = "guided" => \A r \in DOMAIN req : Guided!TargetIsShown(r)]_vars
=============================================================================
