----------------------------- MODULE MCPlatform -----------------------------
(***************************************************************************)
(* The services around the fleet, for TLC: the token audit and its outbox, *)
(* the event hub of the web console, accounts, logins and the process that *)
(* runs them, which this module extends.  They share no state here; a      *)
(* behaviour is one of one of them, named by scenario, while the others    *)
(* stay as they start.                                                     *)
(***************************************************************************)
EXTENDS ServerLifecycle, Sequences, TLC

CONSTANTS Scenarios, c1, c2, d1, d2

VARIABLES scenario,
          row, queue, disp, accepted, token, about, tx, answer,
          console, channel, emitter, sent, fanned, clients, cl, panicked,
          users, admin, lock, seed, member, rep,
          password, failures, log, login, change

auditVars == <<row, queue, disp, accepted, token, about, tx, answer>>
consoleVars == <<console, channel, emitter, sent, fanned, clients, cl, panicked>>
userVars == <<users, admin, lock, seed, member, rep>>
loginVars == <<password, failures, log, login, change>>
allVars == <<scenario, auditVars, consoleVars, userVars, loginVars, vars>>

Symmetric == Permutations({c1, c2}) \cup Permutations({d1, d2})
---------------------------------------------------------------------------
(* The instances *)

\* Requests that race for the same tokens, and no delivery.
Trail == INSTANCE TokenAudit WITH
    Tokens <- {"t1", "t2"}, CreateRequests <- {"c1", "c2"}, RevokeRequests <- {"r1", "r2"}, NoToken <- "none",
    Events <- {"c1", "c2", "r1", "r2"}, NoEvent <- "none", Dispatchers <- {}, Nobody <- "nobody",
    Lease <- 2, SinkTimeout <- 1, MaxBackoff <- 2, MaxTries <- 2,
    SinkIsPunctual <- TRUE, MayCrash <- FALSE, StoreMayFail <- FALSE

\* Two processes deliver the events of one token to a sink that keeps its deadline,
Outbox == INSTANCE TokenAudit WITH
    Tokens <- {"t1"}, CreateRequests <- {"c1"}, RevokeRequests <- {"r1"}, NoToken <- "none",
    Events <- {"c1", "r1"}, NoEvent <- "none", Dispatchers <- {d1, d2}, Nobody <- "nobody",
    Lease <- 3, SinkTimeout <- 1, MaxBackoff <- 2, MaxTries <- 3,
    SinkIsPunctual <- TRUE, MayCrash <- TRUE, StoreMayFail <- TRUE

\* and to one that does not.
Late == INSTANCE TokenAudit WITH
    Tokens <- {"t1"}, CreateRequests <- {"c1"}, RevokeRequests <- {"r1"}, NoToken <- "none",
    Events <- {"c1", "r1"}, NoEvent <- "none", Dispatchers <- {d1, d2}, Nobody <- "nobody",
    Lease <- 3, SinkTimeout <- 1, MaxBackoff <- 2, MaxTries <- 2,
    SinkIsPunctual <- FALSE, MayCrash <- TRUE, StoreMayFail <- TRUE

Hub == INSTANCE WSHub WITH
    Clients <- {c1, c2}, Emitters <- {"p1", "p2"}, BroadcastCap <- 1, SendCap <- 1, MaxMessages <- 3, MayStop <- TRUE,
    hub <- console, bcast <- channel

SeedsOf == "p1" :> "e1" @@ "p2" :> "e1" @@ "p3" :> "e2"
Nothing == [x \in {} |-> x]

\* Three processes start against one database, two of them with the same address.
Seeding == INSTANCE UserGroups WITH
    Emails <- {"e1", "e2"}, Seeds <- {"p1", "p2", "p3"}, SeedEmail <- SeedsOf, Nobody <- "nobody",
    Groups <- {}, Initial <- {}, Replaces <- {}, Wanted <- Nothing, Attaches <- FALSE

\* Two calls replace the groups of one user, beside single changes.
Grouping == INSTANCE UserGroups WITH
    Emails <- {"e1", "e2"}, Seeds <- {}, SeedEmail <- Nothing, Nobody <- "nobody",
    Groups <- {"g1", "g2", "g3"}, Initial <- {"g1"}, Replaces <- {"t1", "t2"},
    Wanted <- ("t1" :> {"g1", "g2"} @@ "t2" :> {"g2", "g3"}), Attaches <- TRUE

Limiting == INSTANCE Login WITH
    Logins <- {"r1", "r2"}, Changes <- {"c1", "c2"}, Passwords <- {"right", "wrong"}, First <- "right", None <- "none",
    MaxFailures <- 2, Window <- 2, AuditFails <- TRUE

\* One task of every kind.
OfEveryKind == [k \in Kinds |-> k]
---------------------------------------------------------------------------

SuiteInit ==
    /\ scenario \in Scenarios
    /\ CASE scenario = "trail" -> Trail!Init [] scenario = "late" -> Late!Init [] OTHER -> Outbox!Init
    /\ IF scenario = "groups" THEN Grouping!Init ELSE Seeding!Init
    /\ Hub!Init /\ Limiting!Init /\ Init

Audit ==
    /\ \/ scenario = "trail" /\ Trail!Next
       \/ scenario = "outbox" /\ Outbox!Next
       \/ scenario = "late" /\ Late!Next
    /\ UNCHANGED <<scenario, consoleVars, userVars, loginVars, vars>>

Events == scenario = "hub" /\ Hub!Next /\ UNCHANGED <<scenario, auditVars, userVars, loginVars, vars>>

Accounts ==
    /\ \/ scenario = "seeds" /\ Seeding!Next
       \/ scenario = "groups" /\ Grouping!Next
    /\ UNCHANGED <<scenario, auditVars, consoleVars, loginVars, vars>>

LoggingIn == scenario = "logins" /\ Limiting!Next /\ UNCHANGED <<scenario, auditVars, consoleVars, userVars, vars>>

Process == scenario = "run" /\ Next /\ UNCHANGED <<scenario, auditVars, consoleVars, userVars, loginVars>>

SuiteNext == Audit \/ Events \/ Accounts \/ LoggingIn \/ Process

SuiteSpec == SuiteInit /\ [][SuiteNext]_allVars
---------------------------------------------------------------------------
(* The properties, by the scenario they are about.  StopsInOrder is that of
   ServerLifecycle. *)

\* The audit of tokens is exact.  A token exists with one creation event and
\* is revoked with one revocation event, whichever requests race, and the
\* endpoints answer what was committed (TokenAudit).  No event is with the sink
\* twice at once while the sink keeps its deadline, and an event is delivered
\* only after the sink has taken it, however late a completion arrives
\* (AuditOutbox).
AuditIsExact ==
    /\ scenario = "trail" => Trail!AuditIsExact
    /\ scenario = "outbox" => Outbox!AuditIsExact
    /\ scenario = "late" => Late!AuditIsExact

\* The hub never panics on a closed channel, what a client receives has no
\* hole, and a client whose token has expired is sent nothing that is broadcast
\* after that (WSHub).
HubIsSafe == [](Hub!NoPanic /\ Hub!StreamHasNoGap) /\ Hub!ExpiredGetsNothingNew

\* Accounts survive races.  Processes that start together seed one
\* administrator at most, whoever was told that it exists finds it, and the seed
\* takes over no account; a user is a member of a group once (UserGroups).
\* Logins under way together overshoot the limit by no more than their number
\* and do not extend its window, and a session token is only handed out with its
\* event in the audit log (Login).
AccountsAreExact ==
    /\ [](scenario = "seeds" => Seeding!OneSeededAccount /\ Seeding!SeedAnswersAreTrue)
    /\ [](scenario = "groups" => Grouping!OneRowPerGroup)
    /\ [](Limiting!FailuresAreBounded /\ Limiting!TokensAreAudited)
    /\ Seeding!SeedKeepsAccounts /\ Limiting!WindowIsFixed
=============================================================================
