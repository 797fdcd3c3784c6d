# otel-magnify in TLA+

A verification development for the otel-magnify server: TLA+ modules translated
from the Go source, TLC configurations that check them on small instances, and
TLAPS proofs of the properties that matter most for every size of the system.

## 1. The system

otel-magnify is one process (a single replica; several may share the database
while one replaces another) in front of a PostgreSQL database. Agents connect
over OpAMP, by WebSocket or by plain HTTP requests. Operators use a REST API and
a browser that listens on a WebSocket.

| Part | Source | Modules |
|---|---|---|
| Session manager: tracked sessions, leases, removals, disabled tokens, expiry timers | `internal/opamp/token_connections.go` | `TokenConnections`, `TokenGate` |
| OpAMP server: handshake, UIDs, admission, messages, pushes, disconnects | `internal/opamp/server.go` | `SessionOwnership` and the two below |
| Registry, grace timers, workload rows, janitor | `internal/opamp/registry.go`, `grace.go`, `internal/store/workloads.go`, `internal/workloads/janitor.go` | `WorkloadLifecycle` |
| Identity, version and components of a workload, event log | `internal/opamp/fingerprint.go`, `server.go`, `internal/store/workload_events.go` | `WorkloadIdentity` |
| Pushes, reports, automatic rollback, history | `internal/opamp/rollback.go`, `internal/store/workload_configs.go`, `pkg/models/push_status.go` | `ConfigPush`, `PushRow`, `PushStatus` |
| Guided rollback | `internal/api/rollback_guided.go` | `GuidedRollback`, `ConfigPlan` |
| Known-good baseline | `internal/store/workload_configs.go` | `KnownGood`, `KnownGoodRegister` |
| Approvals | `internal/api/config_approvals.go`, `internal/store/config_approvals.go` | `ConfigApprovals` |
| Canaries | `internal/api/workload_canary.go`, `internal/store/workload_canaries.go` | `Canary`, `CanarySelection` |
| Validation and plans | `internal/validator/validator.go`, `internal/api/workloads.go`, `pushes.go` | `Validator`, `ConfigPlan` |
| Versions and fleet views | `internal/version/version.go`, `internal/api/config_safety_drift.go`, `fleet_version_intelligence.go` | `SemVer`, `VersionOrder`, `FleetViews` |
| Tokens and audit outbox | `internal/store/opamp_tokens.go`, `audit_outbox.go`, `internal/audit/outbox_dispatcher.go` | `TokenAudit`, `AuditOutbox` |
| Alerts | `internal/alerts/engine.go` | `Alerts` |
| WebSocket hub | `internal/api/wshub.go` | `WSHub` |
| Logins, accounts | `internal/api/login_ratelimit.go`, `authhandler.go`, `internal/store/users.go`, `user_groups.go` | `Login`, `UserGroups` |
| Start and shutdown | `pkg/server/server.go`, `internal/opamp/server.go` | `ServerLifecycle` |

How they interact. A revocation request commits the token row and its audit
event, then calls `DisconnectTokenConnections`, which disables the token in the
session manager; the outbox delivers the event. Every message and push of an
agent runs under a lease of its session. A message updates the registry, cancels
the grace timer, rewrites the workload row, appends to the event log, records
the status of a config and may start a push or a rollback. When a session is
released its instance is unbound, and the last one schedules the grace timer
that marks the workload disconnected; the janitor archives it later. Approvals,
rollbacks and canaries all end in a push. All of these broadcast to the hub,
and the alert engine looks at the rows from outside.

What makes it hard: a global mutex held while a read lock is taken; goroutines
that wait for each other's channels; callbacks that arrive late, early or never;
rows read, changed and written back by several goroutines; a database commit
followed by an in-memory step; timers that race what they were set for.
`PROJECT.json` lists the hazards with the lines where they bite, and maps every
definition to the lines it models.

## 2. Conventions

- A critical section of a mutex, a SQL statement (or a transaction that locks
  what it reads), a send and a channel operation is one action. Waiting is a
  guard. Handlers are program counters with what they have read.
- PostgreSQL runs at its default isolation: a statement sees what is committed
  when it starts. Statements of one transaction are separate actions unless it
  locks the row first.
- Time is what the code asks of it: past a deadline or not, or ticks that remain.
- Agents, browsers, the audit sink and the local `otelcol` are external: they do
  whatever the code in `src/` would accept of them.
- A definition with a suffix (`GraceFires_...`) under a comment "Variant" is the
  same step with a plausible mistake in it. Each property of a run is violated
  when one of them, named in `PROJECT.json`, takes the place of the original; the
  others do the same for one part of a property of a suite.
- `TypeOK` of a module documents its state. The runs list none of them; five are
  proved (section 5).

### Suites

The components after `SessionOwnership` are checked in suites: `MCPlatform`,
`MCInventory`, `MCConfigs`, `MCRollouts` and `MCProgress`. A suite instantiates
each module for one or more scenarios. The variable `scenario` is chosen in the
first state and never changes; only the instance of that scenario takes steps,
and all other variables keep their first values. So the behaviours of a suite
are those of its instances, side by side, and a property of an instance holds in
the suite exactly if it holds of the instance. To ask about one scenario only,
give `Scenarios` that value in the cfg. `MCPlatform`, `MCInventory` and `MCRollouts`
extend some of their components (`ServerLifecycle`; `WorkloadIdentity` and
`FleetViews`; `KnownGood`) instead of instantiating them, so that a property of such a
component is checked by the run and proved in section 5 as the same definition.

Symmetry is used for names of instances, requests, drafts, clients and
dispatchers, which the modules only compare for equality; not for liveness.

## 3. What is modelled

### Sessions

`TokenConnections` is the session manager, with the callbacks of `server.go`
that drive it. `sessions`, `removals`, `disable`, `timerAt`/`timerGen`,
`nextTimerID` and `stop` are the maps and flags of `tokenConnections`;
`sessionsByID` and `removalsByID` are partitions of the first two by token. The
fields of a `tokenDisableState` and of the `tokenStopState` have variables of
their own. `cleanupDone`, `released` and `disconnected` stand for the closed
channel and the two `sync.Once` of a session. A goroutine is a program counter
`pc` and the session `on` it works on; a lease is a program counter in `Reading`.
`OnConnected` is `Track` with the callback around it; `Acquire`, `Fork`,
`BeginSend`, `RetainHTTP`, `Release` are the life of a lease; `RemoveSession`,
`LoadLeases`, `waitRemoveDrain`, `CompleteRemove` the disconnect paths; `OnClose`
and `finishHTTPResponse` the close callback; `finishRemove` the goroutine of one
removal; `Disable`, `completeDisable`, `DisableReturns` a revocation; `beginStop`,
`completeStop` the shutdown; `TimerFires`, `expireTokenEnter`,
`expireTokenDecide` an expiry.

A waiting step and the step that follows it are merged where what was waited for
stays true. `LoadLeases` may see a stale count, so it may always choose the
asynchronous path. A push inside a forked goroutine is a goroutine of its own,
which allows more interleavings than the code. A clock read may lag behind the
clock by `ClockLag`; a timer may fire early, while fewer than `MaxGen` timers
have been created.

`TokenConnectionsInv` holds the inductive invariant `Inv`, one conjunct per part
of the state, and `TimerInv`, which relates timers, sessions and callbacks.

`TokenGate` is what the rest of the server relies on. A session is new, open,
shut or over; leases are taken only while it is open; it is over once somebody
finishes it after its last lease. Closing a token shuts its sessions and admits
no other, and is done when they are over. `TokenConnectionsGate` maps
`TokenConnections` to it, and `token_revoke` checks that every step of the
manager is a step of the gate or leaves it alone.

`SessionOwnership` is `Server.conns` and the sessions of `server.go`, from the
handshake to the release, with the manager replaced by `TokenGate`. A message
takes its lease, waits for `messageGate`, claims its UID in the first section of
`s.mu`, marks the token as used in the database, is admitted in the second
section, is handled, and leaves. Any step may fail; a failure makes the session
terminal and disconnects it. A push reads the registry, looks the UID up under
`s.mu`, and leases what it found. A malformed message, or one from another
connection, carries `NoUID`.

### Workloads

`WorkloadLifecycle` has the two maps of the registry, the grace timers with
their generation, and the row of a workload (status, retention deadline,
archived). A message binds, cancels the timer, reads the row, writes it back and
clears the retention in separate actions (`Handle`); a release unbinds, counts
and schedules; a timer fires, counts and marks. The janitor, the archive and
delete requests, restarts and failing writes interleave with all of it.
`SessionOwnership` justifies that one UID has one session at a time.

`WorkloadIdentity` is the rest of a message: the fingerprint of a description in
the order its attributes are tried, type, version, labels and components of the
row with the `COALESCE` of the upsert, the versions in the registry and the event
log. Hashes are abstracted to what they are taken of. An event stands in the log
at its id; the events that go with the row of a deleted workload leave `None`
behind.

`Alerts` is a pass of the engine, page by page and rule by rule, with the look-up
and the act of each rule as steps of their own; a page is the set of its workloads
that are still to come, in the order of their ids (`Turn`). Passes leave archived
workloads out; a message handler writes a row back as archived as it read it
(`Heard`). `FleetViews` has the
drift dashboard, the topology and the version matrix as operators of one fleet.

### Configs

`PushStatus` is `HydratePushStatus`: counters, timeout and error groups from the
list of instances. An agent's message stands for the cause that the code finds in
it; what is stored is the title of the cause, and a reader finds a cause in the
title again. `PushRow` is one row while a request and the status handlers
write it. `ConfigPush` is the whole history: push, rollback and
rollback-to-default requests, agents that apply or reject in the order of their
offers and leave, the two statements that store a status, the automatic rollback
and the automatic push; `stated` keeps what every agent has reported of every
config. `GuidedRollback` extends it with what an operator is shown before and after
a rollback: the marks of the history, the row a rollback is prepared for (by hash or
by the known-good selector) and its status. `KnownGood` is a mark or a clear in the
statements of its transaction, `KnownGoodRegister` the compare-and-set it stands
for.

`ConfigApprovals` is propose, approve and push in the statements of the handlers,
with requests that are cut off and drafts that stop being valid. `Canary` is one
canary with operators and reports on the same row; `CanarySelection` chooses its
targets. `Failures` says what happens to its instances; with `"again"` one that has
applied the candidate may report another status later. `Validator` is the list of
checks, over configs given by the components they define and use; `ConfigPlan`
compares the answers that different handlers give about one config: the plan, the
preview and the push, the preparation and the submission of a rollback, the
compatibility of the fleet. `SemVer` is `version.Compare` on parsed pieces,
`VersionOrder` asks it about three versions at a time.

### Services

`AuditOutbox` has rows with leases and backoff, dispatchers in several processes
that may crash, a sink that may be late; `TokenAudit` extends it with the requests
that create and revoke tokens and their transactions. `WSHub` has the hub's
select loop, its bounded channels, and the three pumps of each client. `Login`
has concurrent logins and password changes over one limiter window.
`UserGroups` has the seed of the first administrator and the replacement of
groups, with PostgreSQL's waits for rows. `ServerLifecycle` has `Run` of
`pkg/server`, OpAMP's `Stop`, the hub and the tasks they wait for.

## 4. Runs

| Run | Instance | Checks |
|---|---|---|
| `token_revoke` | a WebSocket session and a plain HTTP request of one token, one working goroutine, one caller of `Disable`, shutdown at any time | `DisableFence`, `ReleaseAfterLeases`, `RemovalHasOwner`, `ImplementsGate` |
| `token_nested` | one WebSocket session, three goroutines (a message, its forked lease, the nested push), one caller, shutdown | `AcquireNeverBlocks`, `SyncFinishNeverWaits` |
| `token_expiry` | one session that expires at time 1, two goroutines, clock reads one tick late, early timers up to the second generation | `NoSpuriousDisable`, `ExpiryIsWatched` |
| `token_live` | one plain HTTP session that expires, two goroutines, fairness | `DisableTerminates`, `StopTerminates`, `ExpiredSessionsLeave` |
| `session_own` | two connections of one token, two UIDs, two concurrent operations, one revocation request | `OwnersAgree`, `PushReachesOwner`, `RevokeIsFinal`, `TerminalIsFinal` |
| `session_live` | two connections of one token and one UID, two operations, fairness | `UIDIsFreed` |
| `platform` | tokens with their audit trail, two dispatchers, the hub with two clients, seeds, groups, logins, a server with a task of every kind | `AuditIsExact`, `HubIsSafe`, `AccountsAreExact`, `StopsInOrder` |
| `inventory` | one workload with two instances, or one instance and up to three timers or two workloads; agents that change their description; up to three workloads under the alert rules; every fleet of a few descriptions | `DisconnectIsAttended`, `RewritesKeepTheRow`, `LogIsExact`, `OneOpenAlert`, `ViewsAgree` |
| `configs` | version strings in triples, every mistake of a config, every state of a workload, one row with three instances, up to three concurrent requests over two configs, with and without a known-good one | `VersionsAreOrdered`, `VerdictIsExact`, `PlanIsTruthful`, `HistoryFollowsReports`, `RollbacksAreSound` |
| `rollouts` | two or three operators on the baseline, on approvals and on one canary among two or three instances; reads of a canary of two with degraded targets; pushes to it that fail | `CompareAndSet`, `DecisionsHold`, `BroadPushIsEarned`, `ReportsAreKept` |
| `progress` | the components with fairness, each on a small instance; for rollbacks, two pushes to one instance, or one push to two instances that reject every config, with a known-good config | `EmptyIsArchived`, `RollbackSettles`, `AllDelivered`, `HubKeepsGoing`, `AlertsFollowTheFleet`, `ShutdownEnds` |
| `workload_janitor` | two instances of one workload | `JanitorSparesLive`, which is violated (section 6) |

A property of a suite is a conjunction over its scenarios; the comment above it
says what each part means and in which module it is stated.

What they show, beyond their names:

- A finished disable is a fence: nothing of the token runs afterwards. The UID
  of a session is released after the last lease, once, and by somebody who is
  still there to do it. An agent that has reconnected is not unbound by the
  close of its old connection.
- An empty workload always has a release, a timer or a callback that will see
  to it, although timers are cancelled and replaced while callbacks wait.
- The history row of a push never credits an instance with a status of another
  config, whatever overlaps; an automatic rollback only goes to a config that
  some instance has applied. Where the workload has a known-good config,
  rollbacks of rollbacks end; without one they need not (section 6).
- The candidate of a canary leaves it only after all targets have applied it,
  with two operators acting at once. Until then, and as long as no instance
  goes back on having applied it, the canary has the last report of every
  target, although reads write back the row they began with.
- No event is with the sink twice at once as long as the sink keeps its
  deadline, and every event is delivered, through crashes.
- The hub closes every channel once, skips nothing in the middle of a client's
  stream, and is not held up by a client that does not read.
- Two handlers that decide the same question in different code decide it
  alike, up to the checks that one of them leaves out: the plan and the push
  always; the preview and the plan up to a degraded state, the version policy,
  `otelcol` and the policies; the confirm button of a rollback and its submission
  up to the version policy and `otelcol`, so a rollback that can be confirmed may
  still be refused (section 6).

Bounds. Two sessions are what it takes for a disable to own one removal and to
find another registered by somebody else. Three goroutines are the deepest
nesting of leases. One tick past an expiry separates every comparison with the
clock; two timer generations separate a stale callback from a current one. Two
connections, two UIDs and two operations let a UID change hands between the
lookup of a push and its lease. In the suites: two instances and one timer, or
one instance and three timers (`TimerIds`), separate a superseded callback from
its successor; three rows of history (`MaxRows`) hold the seed, a push and the
rollback, or two pushes; in `progress` the bound on rows is never met, and a
larger one gives the same states, so no rollback ends because of it; a page of two among three workloads has a page border;
two dispatchers and a lease of three ticks let a claim run out during a
delivery; buffers of one (`BroadcastCap`, `SendCap`) and three messages
(`MaxMessages`) fill and overflow; two failures in a window of two ticks are the
limiter's limit. `MaxPushes`, `AlertIds`, `MaxTries`, `MaxReleases` bound counters
that the code does not bound. Deadlock checking is off: a server without agents
may do nothing for ever, and bounded instances end.

Fairness. Started goroutines, due timers and the janitor's ticker run (weak
fairness). Operations under a lease end, because every write carries a deadline
(`sendWithDeadlineLocked`); the handler of a plain HTTP request reaches its close
callback. Connected agents answer the offers they are sent. Strong fairness is
assumed where Go or the environment gives more than that: a `select` takes each
ready case in the end and blocked senders on a channel are served in turn
(`WSHub`, `ServerLifecycle`), a task that waits only for the hub ends, look-ups do
not fail for ever (`Alerts`), a claim is not for ever too late to be delivered and
the sink not for ever down (`AuditOutbox`). Nobody has to connect, push, revoke,
close a WebSocket or stop the server. A write to a browser need not end, and a
crash may happen at any moment. `FairSpec` of `SessionOwnership` also assumes
that a session that was shut and has no lease left is released, which
`DisableTerminates` and `RemovalHasOwner` show of the manager. In `MCProgress`
one fairness condition stands for one of each component: in a behaviour only
the one of its scenario can be enabled.

## 5. Proofs

Every theorem holds for every value of the constants: any sets of sessions,
tokens, instances, requests, processes and tasks. What a proof needs of the
constants is an assumption of the component (`ConstantsAssumption` of
`TokenConnections`, and those of `SessionOwnership`) or, where a suite only
instantiates it, a hypothesis of the theorem with a name of its own. Most of them
only say that constants have their types and that a placeholder (`NoToken`,
`Nobody`, `NoId`) is none of the things it stands in for; the table names the
others.

| Module | Proves | Of the constants, beyond types |
|---|---|---|
| `TokenConnectionsProofs` | the session manager: types, `Inv`, what follows from it, the owners of removals, the timers, the reasons of a disable; it implements `TokenGate` | |
| `FleetProofs` | connections, UIDs, pushes and revocations over the gate; registry, grace timers, handlers and janitor; the alerts | `SteadyWorld`, for `DisconnectsAreAttended` only; `LookupFails = FALSE`, for `AlertsAreUnique` only |
| `WorkloadIdentityProofs` | the identity of instances, the components of rows, the event log | `VersionsAreNamed` for the log; `HomesAreSteady` for `LogIsAChainAlways`, `MayDelete = FALSE` for `LogIsExactAlways` |
| `ConfigProofs` | the baseline; the order of versions; the row of a push; plans and previews | `MayClear = FALSE`, for `MarkIsCompareAndSet` only; a push has a target (`RowConstants`) |
| `RollbackProofs` | pushes, automatic rollbacks, and what an operator is shown of a rollback | the known-good config, if any, is the one that has run (`PushConstants`); `MayLeave = FALSE`, for `AnswersWereReported` only |
| `RolloutProofs` | canaries and approvals | `AppliedIsFinal`, for `ReportsAreKeptWhenFinal` only |
| `AuthProofs` | the audit trail of tokens and the outbox; logins; accounts and groups | finitely many concurrent logins, a limit of at least one failure |
| `PlatformProofs` | the stop of the process, the hub, the fleet views | `FleetsAreListed`, for the views |

A module extends the first component it is about (`PlatformProofs` also `FleetViews`)
and instantiates the others with variables of their own.

Sessions:

- `TypeCorrect`: the type invariant.
- `InvCorrect`: `Inv` is inductive with `TypeOK`. `DisableFence` alone is not: a
  disable that is done says nothing about a lease taken before it. The invariant
  follows a session through its life. Leases exist only on tracked sessions and
  on removals that still wait for them (`LeaseInv`); a session that was tracked
  and is not any more has a removal, which is retired only after the release
  (`LifeInv`); a disable in progress knows every pending removal of its token,
  and how far it has come decides who may still read (`DisableInv`, `StopInv`).
- `DisableIsFence`, `AcquireIsNonBlocking`, `ReleaseIsLast` and
  `SyncFinishIsImmediate` follow from `Inv`.
- `RemovalsAreOwned`: whoever registers a removal keeps working on it until it
  has completed it.
- `TimersAgree`: `TimerInv` is inductive given `Inv`. The callback of a stale
  generation can disappear because the current one is armed or running, and
  deleting the entry of an early timer forces `scheduleExpiryLocked` to arm a
  new one. `ExpiryAlwaysWatched` follows.
- `DisablesHaveReasons`: needs `TimerInv`, because the deadline that a callback
  finds in the map is the expiry of a session of the token.
- `GateIsImplemented`: the refinement, a lemma per action. Of a session only
  whether it is new, tracked, waiting for its release or over, and its leases,
  show through `GateAt` and `leasesOf`; of a token only `ClosedAt`. A step that
  changes none of these is a stutter. The others are steps of the gate because
  `Inv` says what they find: whoever releases a session finds no lease, and a
  disable that ends finds the sessions of its token over.
- `OwnershipInvariant` and what follows from it. The UIDs of sessions and
  `Server.conns` are inverse to each other and an owner is not over (`OwnerInv`);
  an operation past its claim holds a lease, which keeps its session from being
  released, and so still owns its UID (`HolderInv`); a session of a closed token
  is not open, and a revocation that has returned left its token done with
  (`GateInv`, `CallInv`). `OwnersAgreeAlways`, `PushReachesOwnerAlways`, `RevokeIsFinalAlways`
  and, for steps, `TerminalIsFinalAlways`.

Workloads and configs:

- `LifecycleInvariant`: the two maps of the registry agree; a handler works for
  the workload its agent is bound to, and what it is about to write was merged
  while the agent was bound; the timer map holds armed timers that nobody has
  replaced, and only an armed timer can have been replaced.
  `RegistryIsConsistent`, `SupersededTimersStayQuiet` and `HandlersSeeThemselves`
  follow.
- `DisconnectsAreAttended` needs `SteadyWorld`: an instance describes itself as
  one workload, the server does not restart and its writes succeed. TLC
  finds it violated when any of the three is dropped: a timer does not survive a
  restart, a failed write is only logged, and an instance that moves to another
  workload leaves no timer behind.
- `ComponentsAreKeptAlways`, `OnlyIdentityMovesAlways`: the invariant (`IdInv`) says
  that a handler under way works for the workload its agent is bound to, that this
  is the workload of the agent's last description, and that the event it still has
  to write is about the agent as it is bound.
- `LogIsAChainAlways` adds `ChainInv`: the last event of an instance has the version
  it is bound with, or the one from which the event on its way starts. It needs
  agents that keep to one workload: one that has moved has events with two of them,
  and the deletion of either takes a link out of its chain.
- `LogIsExactAlways` adds `ExactInv`, an equation between cardinalities: the
  connections in the log and on their way to it are the disconnections in the log,
  the releases that have not written theirs, and one if the instance is bound.
  Releases write after the session is gone and in any order, so the equation, not
  the order of the events, is what every step preserves. A deletion takes events
  with it, hence `MayDelete = FALSE`.
- `AlertsAreUnique`, `DownAlertsAreUnique`: a pass about to act that has found no
  open alert acts in a state without one, because only the engine opens alerts
  (`ActInv`). A failed look-up counts as "none" except in `workload_down`, where it
  ends the rule; so with failures only that rule keeps to one alert.
- `ViewsAgreeAlways`: the three views are functions of one fleet, and the invariant
  only says that what is shown is what they compute. The work is in the lemmas. The
  ranks and, between equal ranks, the positions are a total order on a finite set, so a sorted arrangement
  exists (as many places before a collector as there are collectors ahead of it)
  and the `CHOOSE` of the dashboard finds it; what is alerted has the least
  rank, so it takes the first places, as many as the summary counts; two members of
  a group differ exactly if the set of states of the group has two elements; the
  sets of instances counted under the statuses are disjoint; and the workloads of
  one entry of the matrix have one version, so the status of the first is that of
  all. `FleetsAreListed` says that a fleet is a list of workloads with different
  names whose instances have one of the five statuses.
- `CanaryInvariant`: handlers write back a copy of the row that they read
  earlier, so what is said of the row must hold of every copy under way
  (`Truthful`): a target is recorded as applied only if it reported so, success
  means that all did, a rollback that it was sent to all. From it
  `BroadPushIsEarnedAlways`, `SucceededIsReportedAlways`,
  `RollbackIsPushedAlways`, `CanaryIsPartialAlways`.
- `ReportsAreKeptWhenFinal`: a request that writes back the row it has read before a
  report came in loses the report. A read that writes the row of a running canary
  stops it, as its target is unwell; the only copy that leaves the canary active is
  one that had succeeded, and then every target had reported `applied` (`Truthful`).
  With `AppliedIsFinal` that is still what each of them has reported last. Without
  it the theorem is false (section 6).
- `ApprovalInvariant`: the unique index keeps one pending row although requests
  look before they insert; an approved row was looked at, and so was the row of
  every request that is about to push without break-glass.
  `OnePendingAlways`, `PushNeedsApprovalAlways`, `MarkedHashWasSentAlways` and, for
  steps, `DecisionSticksAlways`.
- `MarkIsCompareAndSet`: `KnownGood` implements `KnownGoodRegister`, for any
  configs and requests, as long as nobody clears the pointer. With clears it is
  false (section 6). The invariant adds that a request about to write has read a
  pointer that meets its precondition, and has read none if there is still none:
  the upsert tests the precondition only where it updates, so where it inserts
  the read must have been right. `ReplacedIsTruthfulAlways` holds with clears.
- `CompareIsAntisymmetric`, `CompareIsTransitive`: for all versions that parse,
  with prereleases of any length. The first position where two prereleases
  differ decides; lemmas show that it exists, is unique and has the opposite
  sign in the other direction, and the transitive case compares the two
  deciding positions. `CompareIsAnOrderOnVersions` lifts both to version strings,
  with those that do not parse.
- `RowFollowsReports`: the invariant (`RowInv`) says that once no handler is on its
  way with a report of an instance, its entry in the row is its last report, and
  that a stored `applied` comes from a report, whichever of the request, the
  handlers and a restart wrote last. What a reader is shown is computed from the
  entries; lemmas say which cause is found in which stored title.
- `PushesAreProven`: a row names as applied or failed, and a handler holds as a target
  or as a report, only what the instance has reported (`ProvenInv`). Every action is
  first shown to be one of a few kinds of step (`IsStep`), and the invariants are
  shown once for those.
- `AppliedAnswersWereReported`, `AnswersWereReported` add the status of the workload
  row, which handlers read and write back as a whole, and every copy of it. A
  failed send also marks a row as failed, and a later report can replace the mark
  after it was shown; so the part about `failed` is proved for fleets whose
  instances stay (`MayLeave = FALSE`).
- `DefaultsAreShown`: the row the history marks as previous and the one the rollback
  looks up are found by different code; the largest elements of the two sets of
  positions are the same where the stored statuses are the ones shown, and neither is
  the config that runs.
- `PlansAreTruthful`: the plan and the push call the validator with the same
  arguments; the preview calls it without the version policy and `otelcol`, and the
  lemmas show which checks these can change: the static checks before them are the
  same, and the runtime check only runs without an error before it.

Services:

- `AuditStaysExact`. For the outbox the invariant says that as long as the lease
  of an attempt runs its row is pending and has the claim, that a punctual sink
  is done before the lease, and that an acknowledged event was accepted. For the
  trail it says that what an open transaction found under its lock is still so
  and that no two open ones are about the same token; the number of events of a
  token is then what its state calls for.
- `LoginsAreLimited`: the failures counted and the requests that the limiter has
  let through and that may still fail are together at most the limit, less one,
  plus the number of requests. `LockoutEnds`.
- `HubIsSafeAlways`: what a client has received, followed by what waits in its
  channel, is a run of consecutive broadcasts that ends with the last one fanned out
  while the client is registered; a registered client's channel is open; the
  broadcast channel continues where the hub has come to.
- `SeedsAgree`, `AccountsAreKept`: what a seed has found holds while it has the
  lock on the table. `MembershipsAreUnique`: what a replacement has inserted and not
  yet committed is in no row that it has not deleted, and in no other
  replacement.
- `ServerStopsInOrder`: the stages of `beginStop` are passed in order, the
  goroutine that joins the handlers waits for each kind in turn, and none of a
  kind starts once its listener is closed.

Only model-checked:

- liveness, which is beyond the prover;
- `VerdictIsExact`: the validator concatenates the messages of lists of lists with a
  fold, and what a fold computes for every list is an induction over data, which
  the prover does not have. (`PlansAreTruthful` compares its results without
  looking into them.)
- `PrecedenceIsStandard` in `VersionsAreOrdered`: it is about the eight versions that
  the standard lists, all of which TLC compares;
- `ButtonIsTruthful` in `PlanIsTruthful`: it compares two decisions in one state.

The other parts of the suites' properties are theorems, each of its component
alone. `PROJECT.json` names for each theorem the run that checks the same formula.

## 6. Statements that do not hold

Each definition below states what a document, a comment or a test of the
repository says. TLC finds a behaviour of the code that violates it. The first
is the run `workload_janitor` and a finding of `PROJECT.json`. The others are
kept in the modules and checked by no run; to see one, add `P == X!Property` to
the suite, with the instance named here for `X`, list `P` in its cfg and give
`Scenarios` the scenario. Those marked with a star are violated with other
constants, or under the module's own fair specification.

| Definition | Module, instance, scenario | Code | What is said | What TLC finds |
|---|---|---|---|---|
| `JanitorSparesLive` | `WorkloadLifecycle`, `Rows`, rows | `internal/opamp/server.go:1099` | "a workload is archived if it has not reconnected within this window" (`docs/users/configuration.md:107`) | a grace callback that counted before a reconnection marks after it, heartbeats keep the deadline, and a connected workload is archived |
| `ReconnectUnarchives` | `WorkloadLifecycle`, `Rows`, rows | `internal/opamp/server.go:907` | "until it reconnects and UpsertWorkload clears archived_at again" (`internal/store/workloads.go:304`) | the upsert writes back the value it read |
| `GraceFlips` * | `WorkloadLifecycle`, `MayRestart` | `internal/opamp/server.go:1096` | "After the grace the workload flips to `disconnected`" (`docs/developers/opamp-flow.md:92`) | a timer does not survive a restart |
| `AnsweredIsPersisted` | `WorkloadIdentity`, `History`, history | `internal/opamp/server.go:736` | "otel-magnify persists this on the workload" (`opamp-flow.md:96`) | components in a message without description are dropped |
| `UpgradeIsRecorded` | `WorkloadIdentity`, `Rollouts`, rollouts | `internal/opamp/server.go:762` | "The workload reports an equal/newer version" (`docs/users/alerts.md:11`) | the handler of a heartbeat writes back the version it read before an upgrade |
| `EveryChangeIsLogged` * | `WorkloadIdentity`, a description without version | `internal/opamp/server.go:713` | "Every pod connect, disconnect, and `service.version` change is recorded" (`docs/users/connecting-agents.md:30`) | a version that follows none is not logged |
| `ReconnectEndsDown` | `Alerts`, `Watch` of `MCProgress`, alerts | `internal/store/workloads.go:203` | resolved when "The workload reconnects" (`alerts.md:9`) | a workload that is archived while its alert is open stays archived when it reconnects, and no pass looks at it |
| `AppliedEndsDrift` * | `Alerts` | `internal/alerts/engine.go:163` | resolved when "The workload reports the expected config as applied" (`alerts.md:10`) | the rule looks at the newest push in flight, also when a later one has been applied |
| `UnsetEndsOutdated` * | `Alerts` | `internal/alerts/engine.go:205` | resolved when "`MIN_AGENT_VERSION` is unset" (`alerts.md:11`) | the rule returns early and resolves nothing |
| `ResolutionIsBroadcast` * | `Alerts` | `internal/alerts/engine.go:156` | "An alert transitions (fired, acknowledged, resolved)" (`docs/api/websocket.md:25`) | only a firing is broadcast |
| `StoredIsTerminal` | `PushRow`, `Row`, row | `internal/store/workload_configs.go:51` | "returns the most recent non-terminal push" (`workload_configs.go:205`) | `MarkWorkloadConfigSent` runs after the sends and overwrites a status reported meanwhile |
| `GroupedByCause` | `PushRow`, `Row`, row | `internal/store/workload_configs.go:113` | "summarizes repeated remote config errors by cause" (`pkg/models/push_status.go:61`) | of a config that the collector rejects only the title is stored, and no cause is found in it: the group is `unknown` |
| `ConservativeGuard` | `ConfigPush`, `Overlap`, overlap | `internal/opamp/rollback.go:32` | "a conservative concurrency guard" (`workload_configs.go:206`) | the report of one instance is first written as the status of the whole row |
| `RollbackRowIsUpdated` | `ConfigPush`, `Overlap`, overlap | `internal/opamp/rollback.go:76` | "Update rollback row (status=applied)" (`opamp-flow.md:86`) | the rollback is sent before its row exists, and a quick answer goes to an older row of the same config |
| `RollbackIsWorkloadWide` | `ConfigPush`, `Overlap`, overlap | `internal/opamp/server.go:236` | "Auto-rollback is workload-wide" (`rollback.go:75`) | a push still under way sends the rejected config to the next instance after the rollback |
| `RollbackSettles` * | `ConfigPush`, no known-good config | `internal/opamp/rollback.go:54` | "Auto-rollback loops — usually a bad last-known-good config" (`docs/users/troubleshooting.md:39`) | with a known-good config there is no loop (run `progress`); without one, two configs that were applied once and fail now are rolled back to each other for ever |
| `DefaultIsApplied` | `GuidedRollback`, `Baseline`, baseline | `internal/api/workloads.go:1014` | "rollback target must be an applied config" (`internal/api/workloads.go:1088`) | the default is the known-good config also when its latest push has failed |
| `ButtonIsKept` | `ConfigPlan`, `Answers`, answers | `internal/api/rollback_guided.go:248` | `can_submit` (`rollback_guided.go:137`) | the submission also asks the version policy and `otelcol`, which may refuse |
| `NewInstanceIsPushed` | `ConfigPush`, `Leave`, leave | `internal/opamp/server.go:782` | "the server immediately pushes the active config" (`opamp-flow.md:37`) | nothing sets `ActiveConfigHash`, so the condition is never met |
| `CompareAndSet` | `KnownGood`, `Clearing`, clears | `internal/store/workload_configs.go:678` | "only when the caller's replacement precondition still matches at write time" (`workload_configs.go:599`) | after a clear the upsert inserts, and only an update tests the precondition |
| `PushedWasApproved` | `ConfigApprovals`, `Flow`, flow | `internal/store/config_approvals.go:38` | "Pushes an approved draft, or audited break-glass draft" (`docs/api/rest.md:40`) | a draft saved around the approval takes its place in the row |
| `ApprovedWasValidated` | `ConfigApprovals`, `Late`, late | `internal/api/config_approvals.go:152` | "a stale or invalid stored draft cannot be approved" (`docs/users/managing-configs.md:11`) | the draft is replaced between validation and approval |
| `SentOnce` | `ConfigApprovals`, `Flow`, flow | `internal/api/config_approvals.go:209` | "do not push twice", "exactly first push" (`internal/api/config_approvals_test.go:243`, `:248`) | two requests both send before either marks the row |
| `ReportsAreKept` * | `Canary`, `Reads` with `"again"` in `Failures` | `internal/api/workload_canary.go:408` | "reconciles OpAMP remote-config status into active canaries" (`internal/store/workload_canaries.go:85`) | a target of a succeeded canary reports that it failed, and a read that has found a degraded target writes the row back over the report |
| `AbortedIsNarrow` | `Canary`, `Actions`, actions | `internal/api/workload_canary.go:160` | "an operator stopped the workflow without broad push" (`pkg/models/canary.go:12`) | a promoted canary can be aborted |
| `StopIsExplained` | `Canary`, `Actions`, actions | `internal/api/workload_canary.go:401` | "a machine-detectable stop condition halted the canary" (`canary.go:16`) | `Recount` drops the reason `alert_triggered` |
| `SkipIsExplained` | `ConfigPlan`, `Verdicts`, verdicts | `internal/validator/validator.go:590` | "skipped because a required validation check failed" (`validator.go:420`) | a check with a warning before its error does not count as failed |
| `MinimumOnlyWarns` | `ConfigPlan`, `Answers`, answers | `internal/validator/validator.go:369` | "warning threshold for the local binary version" (`validator.go:399`) | it is an error for the version of the workload |
| `ReplaceIsExact` | `UserGroups`, `Grouping`, groups | `internal/store/user_groups.go:98` | "atomically replaces the user's memberships with exactly the groups named" (`user_groups.go:56`) | two overlapping replacements leave the union |

## 7. What is not modelled

- The frontend, the sample agent and the load generator: no part of the server.
- Reports, exports, templates, imports, the migration assistant, policy and
  diff: they read stored rows or convert one text into another for one request.
  A model of their tables of rules would repeat them.
- The alert webhook: one outgoing request whose result is only logged.
- Routing, headers, origin checks, cookies and token signing: library calls on
  opaque data, decided within one request.
- Database migrations and the connection pool: external.
- Encodings: OpAMP messages, YAML, JSON columns, hashes and error texts are
  abstracted to what the code tells apart in them.
- Single statements that nothing else reads: labels of history rows, user
  preferences, the purge of old events.
- Clocks of several processes that differ (`AuditOutbox` has one clock), and
  memory growth over the life of a process (the limiter's map).

Parts that interact are composed where the interaction can go wrong: sessions
over the gate, tokens with the outbox, rollback views over pushes, plans over
the validator, canaries over the selection. The composition of everything is not
checked as one instance; the interfaces between the rest are rows that both
sides treat as changing at any moment.
