---------------------------- MODULE RolloutProofs ----------------------------
(***************************************************************************)
(* Configs on their way to a fleet, for any drafts, instances and any      *)
(* number of concurrent requests: a canary, which this module extends, and *)
(* beside it, with variables of their own, the approvals of drafts.        *)
(***************************************************************************)
EXTENDS Canary, FiniteSetTheorems, TLAPS

CONSTANTS Drafts, NoDraft, Ids, NoId, WorkloadChanges, MayStop

VARIABLES rows, valid, asking, sent, pushes, looked

Ap == INSTANCE ConfigApprovals WITH req <- asking

---------------------------------------------------------------------------
(* The canary. *)

\* The fleet is finite, and instances report what UpdateCanaryTargetStatus knows.
CanaryConstants == N \in Nat /\ Reports \subseteq {"applying", "applied", "failed"}

Records == [status : States, targets : SUBSET Uids,
            st : UNION {[T -> Statuses] : T \in SUBSET Uids}, why : UNION {[T -> Reasons] : T \in SUBSET Uids}]

\* A request under way.
Held == [at : {"loaded", "send"}, kind : {"start", "get", "promote", "abort", "rollback"},
         copy : Records, left : SUBSET Uids]

\* The row of a canary that has started, and every copy of it that a handler
\* holds: a target is recorded as applied only when it has reported so, a
\* canary has succeeded only when all its targets have applied, and is rolled
\* back only when the rollback has been sent to all.
Truthful(c, P, G) ==
    /\ c \in Records /\ c.targets # {}
    /\ c.st \in [c.targets -> Statuses] /\ c.why \in [c.targets -> Reasons]
    /\ \A t \in c.targets : c.st[t] = "applied" => t \in P
    /\ c.status = "succeeded" => \A t \in c.targets : c.st[t] = "applied"
    /\ c.status = "rollback_started" => \A t \in c.targets : "rollback" \in G[t]

\* A request under way holds a copy for the targets of the row c; what it has
\* pushed so far, and why it may push at all.
RequestOK(q, c, P, G) ==
    /\ q.at \in {"idle", "loaded", "send"}
    /\ q.at = "idle" => q = Idle
    /\ q.at # "idle" => /\ q \in Held
                        /\ c # NoRow /\ Truthful(q.copy, P, G) /\ q.copy.targets = c.targets
    /\ q.at = "send" =>
          /\ q.kind \in {"start", "promote", "rollback"}
          /\ q.kind = "start" => q.left \subseteq c.targets
          /\ q.kind = "promote" => c.targets \subseteq P
          /\ q.kind = "rollback" => \A t \in c.targets \ q.left : "rollback" \in G[t]

CanaryInv ==
    /\ row = NoRow => \A u \in Uids : "candidate" \notin got[u] /\ said[u] = "none"
    /\ row # NoRow => Truthful(row, proven, got)
    /\ \A r \in Requests : RequestOK(req[r], row, proven, got)
    /\ DOMAIN req = Requests
    /\ fleet \in [Uids -> {"ok", "readonly", "degraded", "stale", "gone"}] /\ alert \in BOOLEAN
    /\ got \in [Uids -> SUBSET {"candidate", "rollback"}]
    /\ said \in [Uids -> {"none"} \cup Statuses] /\ proven \subseteq Uids
    /\ BroadPushIsEarned

\* The row before a canary.
LEMMA NoRowFields ==
    /\ RowOK(NoRow) /\ NoRow.targets = {} /\ NoRow.status = "none"
    /\ Idle.at = "idle" /\ Idle.copy = NoRow /\ Idle.left = {}
BY DEF NoRow, RowOK, States, Idle

LEMMA TruthfulIsOK ==
    ASSUME NEW P, NEW G, NEW c, Truthful(c, P, G)
    PROVE  RowOK(c) /\ c # NoRow
BY NoRowFields, Zenon DEF Truthful, RowOK, Records

LEMMA InvTypes == CanaryInv => TypeOK
<1> SUFFICES ASSUME CanaryInv PROVE TypeOK
  OBVIOUS
<1>1. RowOK(row)
  BY NoRowFields, TruthfulIsOK, Zenon DEF CanaryInv
<1>2. ASSUME NEW r \in Requests PROVE RowOK(req[r].copy) /\ req[r].left \subseteq Uids
  <2>1. RequestOK(req[r], row, proven, got)
    BY Zenon DEF CanaryInv
  <2>2. CASE req[r].at = "idle"
    BY <2>1, <2>2, NoRowFields, Zenon DEF RequestOK
  <2>3. CASE req[r].at # "idle"
    <3>1. PICK q : q = req[r]
      OBVIOUS
    <3> QED BY <2>1, <2>3, <3>1, TruthfulIsOK, Zenon DEF RequestOK, Held
  <2> QED BY <2>2, <2>3, Zenon
<1> QED BY <1>1, <1>2, Zenon DEF TypeOK, CanaryInv
(* What handlers and reports make of a record *)

\* A handler that sets the status alone.
LEMMA StatusSet ==
    ASSUME NEW c \in Records, NEW s \in States
    PROVE  /\ [c EXCEPT !.status = s] \in Records
           /\ [c EXCEPT !.status = s].status = s /\ [c EXCEPT !.status = s].targets = c.targets
           /\ [c EXCEPT !.status = s].st = c.st /\ [c EXCEPT !.status = s].why = c.why
BY Zenon DEF Records

WithStatus(c, s) == [c EXCEPT !.status = s]

WithStatusOK(c, s, P, G) ==
    Truthful(WithStatus(c, s), P, G) /\ WithStatus(c, s).targets = c.targets /\ WithStatus(c, s).status = s

\* Abort, promotion and stop keep a record truthful; the rollback has to be sent.
LEMMA StatusTruthful ==
    ASSUME NEW P, NEW G, NEW c, Truthful(c, P, G), NEW s \in States, s # "succeeded",
           s = "rollback_started" => \A t \in c.targets : "rollback" \in G[t]
    PROVE  WithStatusOK(c, s, P, G)
<1> DEFINE x == WithStatus(c, s)
<1>1. c \in Records
  BY Zenon DEF Truthful
<1>2. x \in Records /\ x.status = s /\ x.targets = c.targets /\ x.st = c.st /\ x.why = c.why
  BY <1>1, StatusSet, Zenon DEF WithStatus
<1> HIDE DEF x
<1>3. Truthful(x, P, G)
  BY <1>2, Zenon DEF Truthful
<1> QED BY <1>2, <1>3, Zenon DEF x, WithStatusOK

\* A record whose target u is set to status v, for reason w.
WithTarget(c, u, v, w) == [c EXCEPT !.st[u] = v, !.why[u] = w]

\* The same with the status that the canary has then.
Outcome(c, u, v, w, s) == [WithTarget(c, u, v, w) EXCEPT !.status = s]

OutcomeOK(c, u, v, w, s, P, G) ==
    /\ Truthful(Outcome(c, u, v, w, s), P, G) /\ Outcome(c, u, v, w, s).targets = c.targets
    /\ Outcome(c, u, v, w, s).status = s /\ Outcome(c, u, v, w, s).st = [c.st EXCEPT ![u] = v]

LEMMA TargetType ==
    ASSUME NEW c \in Records, c.st \in [c.targets -> Statuses], c.why \in [c.targets -> Reasons],
           NEW u \in c.targets, NEW v \in Statuses, NEW w \in Reasons
    PROVE  /\ WithTarget(c, u, v, w) \in Records
           /\ WithTarget(c, u, v, w).st \in [c.targets -> Statuses]
           /\ WithTarget(c, u, v, w).why \in [c.targets -> Reasons]
<1>1. /\ [c.st EXCEPT ![u] = v] \in [c.targets -> Statuses] /\ [c.why EXCEPT ![u] = w] \in [c.targets -> Reasons]
      /\ c.targets \in SUBSET Uids /\ c.status \in States
  BY Zenon DEF Records
<1>2. [c.st EXCEPT ![u] = v] \in UNION {[T -> Statuses] : T \in SUBSET Uids}
  BY <1>1, Zenon
<1>3. [c.why EXCEPT ![u] = w] \in UNION {[T -> Reasons] : T \in SUBSET Uids}
  BY <1>1, Zenon
<1>4. WithTarget(c, u, v, w) \in Records
  BY <1>1, <1>2, <1>3, Zenon DEF Records, WithTarget
<1>5. WithTarget(c, u, v, w).st = [c.st EXCEPT ![u] = v] /\ WithTarget(c, u, v, w).why = [c.why EXCEPT ![u] = w]
  BY Zenon DEF Records, WithTarget
<1> QED BY <1>1, <1>4, <1>5, Zenon

\* A new status of a target that is not "applied", or that the target has
\* reported, keeps a record truthful; the status of the canary must follow.
LEMMA TargetTruthful ==
    ASSUME NEW P, NEW G, NEW c, Truthful(c, P, G), NEW u \in c.targets,
           NEW v \in Statuses, NEW w \in Reasons, NEW s \in States,
           v = "applied" => u \in P, s # "rollback_started",
           s = "succeeded" => \A t \in c.targets : WithTarget(c, u, v, w).st[t] = "applied"
    PROVE  OutcomeOK(c, u, v, w, s, P, G)
<1> DEFINE d == WithTarget(c, u, v, w)
           y == [d EXCEPT !.status = s]
<1>1. /\ c \in Records /\ c.st \in [c.targets -> Statuses] /\ c.why \in [c.targets -> Reasons]
      /\ c.targets # {} /\ \A t \in c.targets : c.st[t] = "applied" => t \in P
  BY Zenon DEF Truthful
<1>2. d.targets = c.targets /\ d.st = [c.st EXCEPT ![u] = v]
  BY <1>1, Zenon DEF Records, WithTarget
<1>3. d \in Records /\ d.st \in [c.targets -> Statuses] /\ d.why \in [c.targets -> Reasons]
  BY <1>1, TargetType, Zenon
<1> HIDE DEF d
<1>4. y \in Records /\ y.targets = c.targets /\ y.status = s /\ y.st = d.st /\ y.why = d.why
  BY <1>2, <1>3, StatusSet, Zenon
<1> HIDE DEF y
<1>5. \A t \in c.targets : d.st[t] = "applied" => t \in P
  BY <1>1, <1>2, Zenon
<1>6. s = "succeeded" => \A t \in c.targets : d.st[t] = "applied"
  BY Zenon DEF d
<1>7. Truthful(y, P, G)
  BY <1>1, <1>3, <1>4, <1>5, <1>6, Zenon DEF Truthful
<1>8. y = Outcome(c, u, v, w, s)
  BY Zenon DEF y, d, Outcome
<1> QED BY <1>2, <1>4, <1>7, <1>8, Zenon DEF OutcomeOK

FailedOK(c, u, P, G) ==
    /\ Truthful(TargetFailed(c, u), P, G) /\ TargetFailed(c, u).targets = c.targets
    /\ TargetFailed(c, u).status = "stopped"

\* markCanaryTargetFailed.
LEMMA FailedTruthful ==
    ASSUME NEW P, NEW G, NEW c, Truthful(c, P, G), NEW u \in c.targets
    PROVE  FailedOK(c, u, P, G)
<1>1. PICK v \in Statuses : v = "failed" /\ v # "applied"
  BY Zenon DEF Statuses
<1>2. PICK w \in Reasons : w = "remote_config_failed"
  BY Zenon DEF Reasons
<1>3. PICK s \in States : s = "stopped" /\ s # "succeeded" /\ s # "rollback_started"
  BY Zenon DEF States
<1>4. OutcomeOK(c, u, v, w, s, P, G)
  BY <1>1, <1>3, TargetTruthful, Zenon
<1>5. TargetFailed(c, u) = Outcome(c, u, v, w, s)
  BY <1>1, <1>2, <1>3, Zenon DEF TargetFailed, Outcome, WithTarget, Truthful, Records
<1> QED BY <1>3, <1>4, <1>5, Zenon DEF OutcomeOK, FailedOK
\* The targets that have applied are all the targets when they are as many.
LEMMA CountsAgree ==
    ASSUME CanaryConstants, NEW T \in SUBSET Uids, NEW f,
           Cardinality({t \in T : f[t] = "applied"}) = Cardinality(T)
    PROVE  \A t \in T : f[t] = "applied"
<1> DEFINE A == {t \in T : f[t] = "applied"}
<1>1. IsFiniteSet(Uids)
  BY FS_Interval DEF CanaryConstants, Uids
<1>2. IsFiniteSet(T)
  BY <1>1, FS_Subset, Zenon
<1>3. A \in SUBSET T
  OBVIOUS
<1>4. A = T
  BY <1>2, <1>3, FS_Subset, Zenon
<1> QED BY <1>4, Zenon

ReconciledOK(c, u, s, P, G) ==
    /\ Truthful(Reconciled(c, u, s), P, G) /\ Reconciled(c, u, s).targets = c.targets
    /\ Reconciled(c, u, s).st = [c.st EXCEPT ![u] = s]

\* A report of a target keeps the row truthful: it counts as succeeded when all
\* have applied, and each that has applied has reported so.
LEMMA ReconciledTruthful ==
    ASSUME CanaryConstants, NEW P, NEW G, NEW c, Truthful(c, P, G), NEW u \in c.targets,
           NEW s \in {"applying", "applied", "failed"}, s = "applied" => u \in P
    PROVE  ReconciledOK(c, u, s, P, G)
<1>1. PICK w \in Reasons : w = IF s = "failed" THEN "remote_config_failed" ELSE ""
  BY Zenon DEF Reasons
<1>2. PICK d : d = WithTarget(c, u, s, w)
  OBVIOUS
<1>3. PICK z \in States : z = CASE Count(d, "failed") > 0 -> "stopped"
                                [] Count(d, "applied") = Cardinality(d.targets) -> "succeeded"
                                [] OTHER -> "running"
  BY SMT, Zenon DEF States
<1>4. z # "rollback_started" /\ (z = "succeeded" => Count(d, "applied") = Cardinality(d.targets))
  BY <1>3, Zenon
<1>5. c.targets \in SUBSET Uids /\ d.targets = c.targets /\ s \in Statuses
  BY <1>2, Zenon DEF Truthful, Records, WithTarget, Statuses
<1>6. z = "succeeded" => \A t \in c.targets : WithTarget(c, u, s, w).st[t] = "applied"
  <2> SUFFICES ASSUME z = "succeeded" PROVE \A t \in c.targets : d.st[t] = "applied"
    BY <1>2, Zenon
  <2>1. Cardinality({t \in c.targets : d.st[t] = "applied"}) = Cardinality(c.targets)
    BY <1>4, <1>5, Zenon DEF Count
  <2> QED BY <1>5, <2>1, CountsAgree, Zenon
<1>7. OutcomeOK(c, u, s, w, z, P, G)
  BY <1>4, <1>5, <1>6, TargetTruthful, Zenon
<1>8. Reconciled(c, u, s) = Outcome(c, u, s, w, z)
  BY <1>1, <1>2, <1>3, Zenon DEF Reconciled, Outcome, WithTarget
<1> QED BY <1>7, <1>8, Zenon DEF OutcomeOK, ReconciledOK

HealthOK(c, P, G) ==
    /\ Truthful(WithHealth(c), P, G) /\ WithHealth(c).targets = c.targets /\ WithHealth(c).st = c.st
    /\ WithHealth(c).status \in {c.status, "stopped"}

\* The health of the targets changes the reasons, and stops a canary at most.
LEMMA HealthTruthful ==
    ASSUME NEW P, NEW G, NEW c, Truthful(c, P, G)
    PROVE  HealthOK(c, P, G)
<1> DEFINE why == [t \in c.targets |-> IF fleet[t] \in {"stale", "gone"} THEN "no_heartbeat"
                                       ELSE IF fleet[t] = "degraded" THEN "collector_degraded" ELSE c.why[t]]
           stop == alert \/ (c.status = "running" /\ \E t \in c.targets : why[t] # "")
           x == [c EXCEPT !.why = why, !.status = IF stop THEN "stopped" ELSE @]
<1>1. x = WithHealth(c)
  BY Zenon DEF WithHealth
<1>2. /\ c \in Records /\ c.why \in [c.targets -> Reasons] /\ c.targets \in SUBSET Uids
      /\ c.st \in [c.targets -> Statuses] /\ c.status \in States /\ "stopped" \in States
  BY Zenon DEF Truthful, Records, States
<1>3. why \in [c.targets -> Reasons]
  BY <1>2, Zenon DEF Reasons
<1> HIDE DEF why, stop
<1>4. why \in UNION {[T -> Reasons] : T \in SUBSET Uids}
  BY <1>2, <1>3, Zenon
<1>5. PICK s \in States : s = IF stop THEN "stopped" ELSE c.status
  BY <1>2, Zenon
<1>6. s \in {c.status, "stopped"}
  BY <1>5, Zenon
<1>7. x = [c EXCEPT !.why = why, !.status = s]
  BY <1>5, Zenon
<1>8. x \in Records /\ x.targets = c.targets /\ x.st = c.st /\ x.why = why /\ x.status = s
  BY <1>2, <1>4, <1>7, Zenon DEF Records
<1> HIDE DEF x
<1>9. Truthful(x, P, G)
  BY <1>2, <1>3, <1>6, <1>8, Zenon DEF Truthful
<1> QED BY <1>1, <1>6, <1>8, <1>9, Zenon DEF HealthOK
(* Steps *)

\* Reports and pushes only add to what is proven and to what was sent.
Grows(P, G, P2, G2) == P \subseteq P2 /\ \A u \in Uids : G[u] \subseteq G2[u]

LEMMA StaysTruthful ==
    ASSUME NEW P, NEW G, NEW P2, NEW G2, Grows(P, G, P2, G2)
    PROVE  \A c : Truthful(c, P, G) => Truthful(c, P2, G2)
<1> SUFFICES ASSUME NEW c, Truthful(c, P, G) PROVE Truthful(c, P2, G2)
  OBVIOUS
<1>1. c.targets \subseteq Uids
  BY Zenon DEF Truthful, Records
<1> QED BY <1>1, Zenon DEF Truthful, Grows

\* The row goes from c to c2 for the same targets.
Frame(c, P, G, c2, P2, G2) ==
    /\ Grows(P, G, P2, G2) /\ c.targets \subseteq Uids
    /\ c # NoRow => c2 # NoRow /\ c2.targets = c.targets

\* A request that takes no part in a step.
LEMMA RequestStays ==
    ASSUME NEW c, NEW P, NEW G, NEW c2, NEW P2, NEW G2, Frame(c, P, G, c2, P2, G2)
    PROVE  \A q : RequestOK(q, c, P, G) => RequestOK(q, c2, P2, G2)
<1> SUFFICES ASSUME NEW q, RequestOK(q, c, P, G) PROVE RequestOK(q, c2, P2, G2)
  OBVIOUS
<1>1. CASE q.at = "idle"
  BY <1>1, Zenon DEF RequestOK
<1>2. CASE q.at # "idle"
  <2>1. c2 # NoRow /\ c2.targets = c.targets /\ Truthful(q.copy, P2, G2)
    BY <1>2, StaysTruthful, Zenon DEF RequestOK, Frame
  <2> QED BY <1>2, <2>1, Zenon DEF RequestOK, Frame, Grows
<1> QED BY <1>1, <1>2, Zenon

\* A step of request r of a canary that has started.
LEMMA RequestStep ==
    ASSUME CanaryInv, NEW r \in Requests, NEW q, NEW c,
           row # NoRow, row' = c, Truthful(c, proven, got'), c.targets = row.targets,
           req' = [req EXCEPT ![r] = q], RequestOK(q, c, proven, got'),
           got' \in [Uids -> SUBSET {"candidate", "rollback"}], Grows(proven, got, proven, got'),
           \A u \in Uids \ row.targets :
              "candidate" \in got'[u] => "candidate" \in got[u] \/ row.targets \subseteq proven,
           UNCHANGED <<fleet, alert, said, proven>>
    PROVE  CanaryInv'
<1>1. c # NoRow /\ row.targets \subseteq Uids
  BY TruthfulIsOK, Zenon DEF CanaryInv, Truthful, Records
<1>2. ASSUME NEW p \in Requests PROVE RequestOK(req'[p], row', proven', got')
  <2>1. CASE p = r
    BY <2>1, Zenon DEF CanaryInv
  <2>2. CASE p # r
    <3>1. req'[p] = req[p]
      BY <2>2, Zenon DEF CanaryInv
    <3>2. RequestOK(req[p], row, proven, got)
      BY Zenon DEF CanaryInv
    <3>3. \A s : RequestOK(s, row, proven, got) => RequestOK(s, c, proven, got')
      BY <1>1, RequestStays, Zenon DEF Frame
    <3> QED BY <3>1, <3>2, <3>3, Zenon
  <2> QED BY <2>1, <2>2, Zenon
<1>3. BroadPushIsEarned'
  BY Zenon DEF CanaryInv, BroadPushIsEarned
<1>4. DOMAIN req' = Requests
  BY Zenon DEF CanaryInv
<1> QED BY <1>1, <1>2, <1>3, <1>4, Zenon DEF CanaryInv

\* Requests that end.
LEMMA IdleOK ==
    ASSUME NEW c, NEW P, NEW G
    PROVE  RequestOK(Idle, c, P, G)
BY Zenon DEF RequestOK, Idle

LEMMA SameGrows == ASSUME NEW P, NEW G PROVE Grows(P, G, P, G)
BY Zenon DEF Grows

\* A request that ends, having written c.
LEMMA RequestEnds ==
    ASSUME CanaryInv, NEW r \in Requests, NEW c, row # NoRow, row' = c,
           Truthful(c, proven, got), c.targets = row.targets,
           req' = [req EXCEPT ![r] = Idle], UNCHANGED <<fleet, alert, got, said, proven>>
    PROVE  CanaryInv'
<1>1. RequestOK(Idle, c, proven, got') /\ Grows(proven, got, proven, got')
  BY IdleOK, SameGrows, Zenon
<1>2. got' \in [Uids -> SUBSET {"candidate", "rollback"}]
  BY Zenon DEF CanaryInv
<1> QED BY <1>1, <1>2, RequestStep, Zenon
\* What a request under way stands on.
LEMMA Underway ==
    ASSUME CanaryInv, NEW r \in Requests, req[r].at # "idle"
    PROVE  /\ row # NoRow /\ Truthful(req[r].copy, proven, got) /\ req[r].copy.targets = row.targets
           /\ req[r] \in Held
           /\ Truthful(row, proven, got)
BY Zenon DEF CanaryInv, RequestOK

\* The records a request moves through.
LEMMA RequestFields ==
    ASSUME NEW q \in Held,
           NEW c \in Records, NEW L \in SUBSET Uids, NEW x, x = [q EXCEPT !.at = "send", !.copy = c, !.left = L]
    PROVE  /\ x.at = "send" /\ x.kind = q.kind /\ x.copy = c /\ x.left = L
           /\ x \in Held
BY Zenon DEF Held

\* A canary starts with a row that nobody has reported for.
LEMMA StartStep ==
    ASSUME CanaryConstants, CanaryInv, NEW r \in Requests, NEW sel \in Selections, handleStartCanary(r, sel)
    PROVE  CanaryInv'
<1> DEFINE T == selectCanaryTargets(fleet, sel)
           c == [status |-> "running", targets |-> T, st |-> [t \in T |-> "sent"], why |-> [t \in T |-> ""]]
           q == [at |-> "send", kind |-> "start", copy |-> c, left |-> T]
<1>1. /\ row = NoRow /\ T # {} /\ row' = c /\ req' = [req EXCEPT ![r] = q]
      /\ UNCHANGED <<fleet, alert, got, said, proven>>
  BY Zenon DEF handleStartCanary, Step, Refused
<1>2. T \subseteq Uids
  BY <1>1, Zenon DEF selectCanaryTargets, canaryEligible, CanaryInv, Refused
<1> HIDE DEF T
<1>3. [t \in T |-> "sent"] \in [T -> Statuses] /\ [t \in T |-> ""] \in [T -> Reasons]
  BY Zenon DEF Statuses, Reasons
<1>4. [t \in T |-> "sent"] \in UNION {[S -> Statuses] : S \in SUBSET Uids}
  BY <1>2, <1>3, Zenon
<1>5. [t \in T |-> ""] \in UNION {[S -> Reasons] : S \in SUBSET Uids}
  BY <1>2, <1>3, Zenon
<1>6. c \in Records
  BY <1>2, <1>4, <1>5, Zenon DEF Records, States
<1>7. Truthful(c, proven, got)
  BY <1>1, <1>3, <1>6, Zenon DEF Truthful
<1>8. c # NoRow /\ c.targets = T
  BY <1>7, TruthfulIsOK, Zenon
<1> HIDE DEF c
<1>9. RequestOK(q, c, proven, got)
  BY <1>2, <1>6, <1>7, <1>8, Zenon DEF RequestOK, Held
<1> HIDE DEF q
<1>10. ASSUME NEW p \in Requests PROVE RequestOK(req'[p], row', proven', got')
  <2>1. CASE p = r
    BY <1>1, <1>9, <2>1, Zenon DEF CanaryInv
  <2>2. CASE p # r
    <3>1. req'[p] = req[p] /\ RequestOK(req[p], row, proven, got)
      BY <1>1, <2>2, Zenon DEF CanaryInv
    <3>2. req[p] = Idle
      BY <1>1, <3>1, Zenon DEF RequestOK
    <3> QED BY <3>1, <3>2, IdleOK, Zenon
  <2> QED BY <2>1, <2>2, Zenon
<1>11. BroadPushIsEarned'
  BY <1>1, Zenon DEF CanaryInv, BroadPushIsEarned
<1> QED BY <1>1, <1>7, <1>8, <1>10, <1>11, Zenon DEF CanaryInv

LEMMA LoadStep ==
    ASSUME CanaryInv, NEW r \in Requests, NEW kind \in {"get", "promote", "abort", "rollback"},
           GetCanaryStatus(r, kind)
    PROVE  CanaryInv'
<1> DEFINE q == [at |-> "loaded", kind |-> kind, copy |-> row, left |-> {}]
<1>1. row # NoRow /\ req' = [req EXCEPT ![r] = q] /\ UNCHANGED <<row, fleet, alert, got, said, proven>>
  BY Zenon DEF GetCanaryStatus, Step
<1>2. Truthful(row, proven, got) /\ row \in Records
  BY <1>1, Zenon DEF CanaryInv, Truthful
<1>3. RequestOK(q, row, proven, got)
  BY <1>1, <1>2, Zenon DEF RequestOK, Held
<1> HIDE DEF q
<1>4. Grows(proven, got, proven, got') /\ got' \in [Uids -> SUBSET {"candidate", "rollback"}]
  BY <1>1, SameGrows, Zenon DEF CanaryInv
<1> QED BY <1>1, <1>2, <1>3, <1>4, RequestStep, Zenon

LEMMA AbortStep ==
    ASSUME CanaryInv, NEW r \in Requests, handleAbortCanary(r)
    PROVE  CanaryInv'
<1>1. /\ req[r].at = "loaded" /\ req' = [req EXCEPT ![r] = Idle] /\ UNCHANGED <<fleet, alert, got, said, proven>>
      /\ row' = WithStatus(req[r].copy, "aborted")
  BY Zenon DEF handleAbortCanary, Step, WithStatus
<1>2. row # NoRow /\ Truthful(req[r].copy, proven, got) /\ req[r].copy.targets = row.targets
  BY <1>1, Underway, Zenon
<1>3. PICK s \in States : s = "aborted" /\ s # "succeeded" /\ s # "rollback_started"
  BY Zenon DEF States
<1>4. WithStatusOK(req[r].copy, s, proven, got)
  BY <1>2, <1>3, StatusTruthful, Zenon
<1> QED BY <1>1, <1>2, <1>3, <1>4, RequestEnds, Zenon DEF WithStatusOK
\* loadCanaryWithHealth: what it writes, and that a promotion is earned.
LEMMA HealthStep ==
    ASSUME CanaryInv, NEW r \in Requests, loadCanaryWithHealth(r)
    PROVE  CanaryInv'
<1>1. PICK c : c = WithHealth(req[r].copy)
  OBVIOUS
<1>2. req[r].at = "loaded" /\ UNCHANGED <<fleet, alert, got, said, proven>> /\ row' \in {c, row}
  BY <1>1, Zenon DEF loadCanaryWithHealth, Step
<1>3. /\ row # NoRow /\ Truthful(row, proven, got) /\ req[r].copy.targets = row.targets
      /\ req[r] \in Held
      /\ HealthOK(req[r].copy, proven, got)
  BY <1>2, Underway, HealthTruthful, Zenon
<1>4. Truthful(c, proven, got) /\ c.targets = row.targets /\ c \in Records
  BY <1>1, <1>3, Zenon DEF HealthOK, Truthful
<1>5. PICK d : d = row' /\ Truthful(d, proven, got) /\ d.targets = row.targets
  BY <1>2, <1>3, <1>4, Zenon
<1>6. CASE req' = [req EXCEPT ![r] = Idle]
  BY <1>2, <1>3, <1>5, <1>6, RequestEnds, Zenon
<1>7. CASE req' # [req EXCEPT ![r] = Idle]
  <2> DEFINE L == eligibleRemainingTargets(c)
             x == [req[r] EXCEPT !.at = "send", !.copy = c, !.left = L]
  <2>1. req[r].kind = "promote" /\ c.status = "succeeded" /\ req' = [req EXCEPT ![r] = x]
    BY <1>1, <1>7, Zenon DEF loadCanaryWithHealth, Step, Promotable
  <2>2. L \in SUBSET Uids
    BY Zenon DEF eligibleRemainingTargets, canaryEligible, CanaryInv
  <2> HIDE DEF L
  <2>3. PICK q : q = x
    OBVIOUS
  <2>4. /\ q.at = "send" /\ q.kind = "promote" /\ q.copy = c /\ q.left = L
        /\ q \in Held
    BY <1>3, <1>4, <2>1, <2>2, <2>3, RequestFields, Zenon DEF Held
  <2>5. row.targets \subseteq proven
    BY <1>4, <2>1, Zenon DEF Truthful
  <2>6. d # NoRow
    BY <1>5, TruthfulIsOK, Zenon
  <2>7. RequestOK(q, d, proven, got)
    BY <1>4, <1>5, <2>4, <2>5, <2>6, Zenon DEF RequestOK
  <2>8. Grows(proven, got, proven, got') /\ got' \in [Uids -> SUBSET {"candidate", "rollback"}]
    BY <1>2, SameGrows, Zenon DEF CanaryInv
  <2>9. req' = [req EXCEPT ![r] = q]
    BY <2>1, <2>3, Zenon
  <2> HIDE DEF x
  <2> QED BY <1>2, <1>3, <1>5, <2>7, <2>8, <2>9, RequestStep, Zenon
<1> QED BY <1>6, <1>7, Zenon

\* rollbackConfigForCanary: nothing is pushed yet.
LEMMA RollbackStep ==
    ASSUME CanaryInv, NEW r \in Requests, rollbackConfigForCanary(r)
    PROVE  CanaryInv'
<1>1. /\ req[r].at = "loaded" /\ req[r].kind = "rollback" /\ UNCHANGED <<row, fleet, alert, got, said, proven>>
  BY Zenon DEF rollbackConfigForCanary, Step
<1>2. /\ row # NoRow /\ Truthful(row, proven, got) /\ req[r].copy.targets = row.targets
      /\ req[r] \in Held
      /\ Truthful(req[r].copy, proven, got) /\ row.targets \subseteq Uids
  BY <1>1, Underway, Zenon DEF Truthful, Records
<1>3. CASE req' = [req EXCEPT ![r] = Idle]
  BY <1>1, <1>2, <1>3, RequestEnds, Zenon
<1>4. CASE req' = [req EXCEPT ![r] = [req[r] EXCEPT !.at = "send", !.left = req[r].copy.targets]]
  <2>1. PICK q : q = [req[r] EXCEPT !.at = "send", !.left = req[r].copy.targets]
    OBVIOUS
  <2>2. /\ q.at = "send" /\ q.kind = "rollback" /\ q.copy = req[r].copy /\ q.left = row.targets
        /\ q \in Held
    BY <1>1, <1>2, <2>1, Zenon DEF Held
  <2>3. RequestOK(q, row, proven, got)
    BY <1>2, <2>2, Zenon DEF RequestOK
  <2>4. Grows(proven, got, proven, got') /\ got' \in [Uids -> SUBSET {"candidate", "rollback"}]
    BY <1>1, SameGrows, Zenon DEF CanaryInv
  <2>5. req' = [req EXCEPT ![r] = q]
    BY <1>4, <2>1, Zenon
  <2> QED BY <1>1, <1>2, <2>3, <2>4, <2>5, RequestStep, Zenon
<1> QED BY <1>3, <1>4, Zenon DEF rollbackConfigForCanary, Step

\* One push: the candidate to a target of the canary that starts it, or to any
\* instance once the canary is earned; the rollback to its next target.
LEMMA PushStep ==
    ASSUME CanaryInv, NEW r \in Requests, PushConfig(r)
    PROVE  CanaryInv'
<1>1. PICK u \in req[r].left : /\ Step(r, "send", [req[r] EXCEPT !.left = @ \ {u}])
                               /\ Send(u, Pushes(req[r].kind)) /\ UNCHANGED <<row, fleet, alert, said, proven>>
  BY Zenon DEF PushConfig
<1>2. /\ row # NoRow /\ Truthful(row, proven, got) /\ req[r].copy.targets = row.targets
      /\ req[r] \in Held
      /\ Truthful(req[r].copy, proven, got) /\ RequestOK(req[r], row, proven, got) /\ req[r].at = "send"
  BY <1>1, Underway, Zenon DEF Step, CanaryInv
<1>3. u \in Uids
  BY <1>2, Zenon DEF Held
<1>4. PICK f \in {"candidate", "rollback"} : f = Pushes(req[r].kind)
  BY Zenon DEF Pushes
<1>5. got' = [got EXCEPT ![u] = got[u] \cup {f}]
  BY <1>1, <1>4, Zenon DEF Send
<1>6. /\ got' \in [Uids -> SUBSET {"candidate", "rollback"}]
      /\ \A t \in Uids : got[t] \subseteq got'[t] /\ (t # u => got'[t] = got[t])
      /\ f \in got'[u] /\ got'[u] = got[u] \cup {f}
  BY <1>3, <1>5, Zenon DEF CanaryInv
<1>7. Grows(proven, got, proven, got')
  BY <1>6, Zenon DEF Grows
<1>8. Truthful(row, proven, got') /\ Truthful(req[r].copy, proven, got')
  <2>1. \A c : Truthful(c, proven, got) => Truthful(c, proven, got')
    BY <1>7, StaysTruthful, Zenon
  <2> QED BY <1>2, <2>1, Zenon
<1>9. PICK q : q = [req[r] EXCEPT !.left = req[r].left \ {u}]
  BY Zenon
<1>10. /\ q.at = "send" /\ q.kind = req[r].kind /\ q.copy = req[r].copy /\ q.left = req[r].left \ {u}
       /\ q \in Held
  BY <1>2, <1>9, Zenon DEF Held
<1>11. req[r].kind = "rollback" => \A t \in row.targets \ q.left : "rollback" \in got'[t]
  <2> SUFFICES ASSUME req[r].kind = "rollback", NEW t \in row.targets, t \notin q.left PROVE "rollback" \in got'[t]
    BY Zenon
  <2>1. t \in Uids
    BY <1>2, Zenon DEF Truthful, Records
  <2>2. CASE t = u
    BY <1>4, <1>6, <2>2, Zenon DEF Pushes
  <2>3. CASE t # u
    <3>1. "rollback" \in got[t]
      BY <1>2, <1>10, <2>3, Zenon DEF RequestOK
    <3> QED BY <1>6, <2>1, <3>1, Zenon
  <2> QED BY <2>2, <2>3, Zenon
<1>12. RequestOK(q, row, proven, got')
  BY <1>2, <1>8, <1>10, <1>11, Zenon DEF RequestOK
<1>13. \A t \in Uids \ row.targets : "candidate" \in got'[t] => "candidate" \in got[t] \/ row.targets \subseteq proven
  <2> SUFFICES ASSUME NEW t \in Uids, t \notin row.targets, "candidate" \in got'[t], "candidate" \notin got[t]
               PROVE  row.targets \subseteq proven
    BY Zenon
  <2>1. t = u /\ f = "candidate"
    BY <1>6, Zenon
  <2>2. req[r].kind # "rollback"
    BY <1>4, <2>1, Zenon DEF Pushes
  <2> QED BY <1>2, <2>1, <2>2, Zenon DEF RequestOK
<1>14. req' = [req EXCEPT ![r] = q]
  BY <1>1, <1>9, Zenon DEF Step
<1> QED BY <1>1, <1>2, <1>6, <1>7, <1>8, <1>12, <1>13, <1>14, RequestStep, Zenon
\* A push that fails stops the canary.
LEMMA FailStep ==
    ASSUME CanaryInv, NEW r \in Requests, PushConfigFails(r)
    PROVE  CanaryInv'
<1>1. PICK u \in req[r].left :
          /\ Step(r, "send", Idle) /\ UNCHANGED <<fleet, alert, got, said, proven>>
          /\ row' = IF req[r].kind = "start" THEN TargetFailed(req[r].copy, u) ELSE WithStatus(req[r].copy, "stopped")
  BY Zenon DEF PushConfigFails, WithStatus
<1>2. /\ row # NoRow /\ Truthful(req[r].copy, proven, got) /\ req[r].copy.targets = row.targets
      /\ RequestOK(req[r], row, proven, got) /\ req[r].at = "send" /\ req' = [req EXCEPT ![r] = Idle]
  BY <1>1, Underway, Zenon DEF Step, CanaryInv
<1>3. CASE req[r].kind = "start"
  <2>1. u \in req[r].copy.targets
    BY <1>2, <1>3, Zenon DEF RequestOK
  <2>2. FailedOK(req[r].copy, u, proven, got)
    BY <1>2, <2>1, FailedTruthful, Zenon
  <2> QED BY <1>1, <1>2, <1>3, <2>2, RequestEnds, Zenon DEF FailedOK
<1>4. CASE req[r].kind # "start"
  <2>1. PICK s \in States : s = "stopped" /\ s # "succeeded" /\ s # "rollback_started"
    BY Zenon DEF States
  <2>2. WithStatusOK(req[r].copy, s, proven, got)
    BY <1>2, <2>1, StatusTruthful, Zenon
  <2> QED BY <1>1, <1>2, <1>4, <2>1, <2>2, RequestEnds, Zenon DEF WithStatusOK
<1> QED BY <1>3, <1>4, Zenon

\* The pushes are over.
LEMMA FinishStep ==
    ASSUME CanaryInv, NEW r \in Requests, FinishPushes(r)
    PROVE  CanaryInv'
<1>1. req[r].left = {} /\ Step(r, "send", Idle) /\ UNCHANGED <<fleet, alert, got, said, proven>>
  BY Zenon DEF FinishPushes, Done
<1>2. /\ row # NoRow /\ Truthful(req[r].copy, proven, got) /\ req[r].copy.targets = row.targets
      /\ RequestOK(req[r], row, proven, got) /\ req[r].at = "send" /\ req' = [req EXCEPT ![r] = Idle]
      /\ Truthful(row, proven, got)
  BY <1>1, Underway, Zenon DEF Step, CanaryInv
<1>3. CASE req[r].kind = "start"
  <2>1. row' = row
    BY <1>3, Zenon DEF FinishPushes
  <2> QED BY <1>1, <1>2, <2>1, RequestEnds, Zenon
<1>4. CASE req[r].kind = "promote"
  <2>1. PICK s \in States : s = "promoted" /\ s # "succeeded" /\ s # "rollback_started"
    BY Zenon DEF States
  <2>2. WithStatusOK(req[r].copy, s, proven, got)
    BY <1>2, <2>1, StatusTruthful, Zenon
  <2>3. row' = WithStatus(req[r].copy, s)
    BY <1>4, <2>1, Zenon DEF FinishPushes, WithStatus
  <2> QED BY <1>1, <1>2, <2>2, <2>3, RequestEnds, Zenon DEF WithStatusOK
<1>5. CASE req[r].kind = "rollback"
  <2>1. PICK s \in States : s = "rollback_started" /\ s # "succeeded"
    BY Zenon DEF States
  <2>2. \A t \in req[r].copy.targets : "rollback" \in got[t]
    BY <1>1, <1>2, <1>5, Zenon DEF RequestOK
  <2>3. WithStatusOK(req[r].copy, s, proven, got)
    BY <1>2, <2>1, <2>2, StatusTruthful, Zenon
  <2>4. row' = WithStatus(req[r].copy, s)
    BY <1>5, <2>1, Zenon DEF FinishPushes, WithStatus
  <2> QED BY <1>1, <1>2, <2>3, <2>4, RequestEnds, Zenon DEF WithStatusOK
<1> QED BY <1>2, <1>3, <1>4, <1>5, Zenon DEF RequestOK

\* A report of an instance: it is proven before the row counts it.
LEMMA ReportStep ==
    ASSUME CanaryConstants, CanaryInv, NEW u \in Uids, NEW s \in Reports, UpdateCanaryTargetStatus(u, s)
    PROVE  CanaryInv'
<1>1. /\ "candidate" \in got[u] /\ UNCHANGED <<fleet, alert, got, req>> /\ said' = [said EXCEPT ![u] = s]
      /\ proven' = IF s = "applied" THEN proven \cup {u} ELSE proven
      /\ s \in {"applying", "applied", "failed"}
  BY Zenon DEF UpdateCanaryTargetStatus, CanaryConstants
<1>2. row # NoRow /\ Truthful(row, proven, got)
  BY <1>1, Zenon DEF CanaryInv
<1>3. proven \subseteq proven' /\ proven' \subseteq Uids /\ (s = "applied" => u \in proven')
  BY <1>1, Zenon DEF CanaryInv
<1>4. Grows(proven, got, proven', got') /\ Grows(proven, got, proven', got)
  BY <1>1, <1>3, Zenon DEF Grows
<1>5. Truthful(row, proven', got)
  <2>1. \A c : Truthful(c, proven, got) => Truthful(c, proven', got)
    BY <1>4, StaysTruthful, Zenon
  <2> QED BY <1>2, <2>1, Zenon
<1>6. Truthful(row', proven', got) /\ row'.targets = row.targets
  <2>1. CASE row' = row
    BY <1>5, <2>1, Zenon
  <2>2. CASE row' # row
    <3>1. u \in row.targets /\ row' = Reconciled(row, u, s)
      BY <2>2, Zenon DEF UpdateCanaryTargetStatus
    <3>2. ReconciledOK(row, u, s, proven', got)
      BY <1>1, <1>3, <1>5, <3>1, ReconciledTruthful, Zenon
    <3> QED BY <3>1, <3>2, Zenon DEF ReconciledOK
  <2> QED BY <2>1, <2>2, Zenon
<1>7. row' # NoRow /\ row.targets \subseteq Uids
  BY <1>2, <1>6, TruthfulIsOK, Zenon DEF Truthful, Records
<1>8. ASSUME NEW p \in Requests PROVE RequestOK(req'[p], row', proven', got')
  <2>1. \A q : RequestOK(q, row, proven, got) => RequestOK(q, row', proven', got')
    BY <1>4, <1>6, <1>7, RequestStays, Zenon DEF Frame
  <2> QED BY <1>1, <2>1, Zenon DEF CanaryInv
<1>9. BroadPushIsEarned'
  BY <1>1, <1>3, <1>6, Zenon DEF CanaryInv, BroadPushIsEarned
<1>10. said' \in [Uids -> {"none"} \cup Statuses]
  BY <1>1, Zenon DEF CanaryInv, Statuses
<1> QED BY <1>1, <1>3, <1>6, <1>7, <1>8, <1>9, <1>10, Zenon DEF CanaryInv

\* What happens to instances around the canary.
LEMMA AroundStep ==
    ASSUME CanaryInv, AlertFires \/ \E u \in Uids : InstanceChanges(u)
    PROVE  CanaryInv'
<1>1. UNCHANGED <<row, got, said, proven, req>> /\ alert' \in BOOLEAN
  BY Zenon DEF AlertFires, InstanceChanges, CanaryInv
<1>2. fleet' \in [Uids -> {"ok", "readonly", "degraded", "stale", "gone"}]
  BY Zenon DEF AlertFires, InstanceChanges, CanaryInv
<1>3. BroadPushIsEarned'
  BY <1>1, Zenon DEF CanaryInv, BroadPushIsEarned
<1> QED BY <1>1, <1>2, <1>3, Zenon DEF CanaryInv
LEMMA CanaryInit == Init => CanaryInv
<1> SUFFICES ASSUME Init PROVE CanaryInv
  OBVIOUS
<1>1. fleet \in [Uids -> {"ok", "readonly", "degraded", "stale", "gone"}] /\ alert \in BOOLEAN
  BY Zenon DEF Init
<1>2. got \in [Uids -> SUBSET {"candidate", "rollback"}] /\ said \in [Uids -> {"none"} \cup Statuses]
  BY Zenon DEF Init
<1>3. /\ \A u \in Uids : "candidate" \notin got[u] /\ said[u] = "none"
      /\ DOMAIN req = Requests /\ \A r \in Requests : req[r] = Idle
      /\ row = NoRow /\ proven = {}
  BY Zenon DEF Init
<1>4. \A r \in Requests : RequestOK(req[r], row, proven, got)
  <2>1. RequestOK(Idle, row, proven, got)
    BY IdleOK, Zenon
  <2> QED BY <1>3, <2>1, Zenon
<1>5. BroadPushIsEarned
  BY <1>3, Zenon DEF BroadPushIsEarned
<1> QED BY <1>1, <1>2, <1>3, <1>4, <1>5, Zenon DEF CanaryInv

LEMMA CanaryNext ==
    ASSUME CanaryConstants, CanaryInv, [Next]_vars
    PROVE  CanaryInv'
<1>1. CASE UNCHANGED vars
  <2>1. BroadPushIsEarned'
    BY <1>1, Zenon DEF vars, CanaryInv, BroadPushIsEarned
  <2> QED BY <1>1, <2>1, Zenon DEF vars, CanaryInv
<1>2. CASE Next
  BY <1>2, AroundStep, ReportStep, HealthStep, AbortStep, RollbackStep, PushStep, FailStep, FinishStep, StartStep,
     LoadStep, Zenon DEF Next
<1> QED BY <1>1, <1>2, Zenon

\* Type correctness and the invariant of the canary, for any fleet and any
\* number of operators.
THEOREM CanaryInvariant ==
    ASSUME CanaryConstants PROVE Spec => [](TypeOK /\ CanaryInv)
<1>1. Spec => []CanaryInv
  BY CanaryInit, CanaryNext, PTL DEF Spec
<1> QED BY <1>1, InvTypes, PTL

\* The candidate leaves the canary only after every target has reported it
\* applied, whatever overlapping requests write over the row
\* (handlePromoteCanary and loadCanaryWithHealth).
THEOREM BroadPushIsEarnedAlways ==
    ASSUME CanaryConstants PROVE Spec => []BroadPushIsEarned
<1>1. TypeOK /\ CanaryInv => BroadPushIsEarned
  BY Zenon DEF CanaryInv
<1> QED BY <1>1, CanaryInvariant, PTL

\* A canary that has succeeded was reported applied by all its targets.
THEOREM SucceededIsReportedAlways ==
    ASSUME CanaryConstants PROVE Spec => []SucceededIsReported
<1>1. TypeOK /\ CanaryInv => SucceededIsReported
  <2> SUFFICES ASSUME CanaryInv, row.status = "succeeded" PROVE row.targets \subseteq proven
    BY Zenon DEF SucceededIsReported
  <2>1. CASE row = NoRow
    BY <2>1, NoRowFields, Zenon
  <2>2. CASE row # NoRow
    BY <2>2, Zenon DEF CanaryInv, Truthful
  <2> QED BY <2>1, <2>2, Zenon
<1> QED BY <1>1, CanaryInvariant, PTL

\* A canary is recorded as rolled back only when the rollback was pushed to all
\* its targets.
THEOREM RollbackIsPushedAlways ==
    ASSUME CanaryConstants PROVE Spec => []RollbackIsPushed
<1>1. TypeOK /\ CanaryInv => RollbackIsPushed
  <2> SUFFICES ASSUME CanaryInv, row.status = "rollback_started" PROVE \A t \in row.targets : "rollback" \in got[t]
    BY Zenon DEF RollbackIsPushed
  <2>1. CASE row = NoRow
    BY <2>1, NoRowFields, Zenon
  <2>2. CASE row # NoRow
    BY <2>2, Zenon DEF CanaryInv, Truthful
  <2> QED BY <2>1, <2>2, Zenon
<1> QED BY <1>1, CanaryInvariant, PTL

\* Whatever strategy an operator asks for, a canary starts on some of the
\* eligible instances and never on all of them (selectCanaryTargets).
THEOREM CanaryIsPartialAlways ==
    ASSUME CanaryConstants PROVE Spec => CanaryIsPartial
<1>1. ASSUME CanaryInv, [Next]_vars, row = NoRow, row' # NoRow
      PROVE  /\ row'.targets # {} /\ row'.targets \subseteq canaryEligible(fleet)
             /\ row'.targets # canaryEligible(fleet)
  <2>1. ASSUME NEW r \in Requests PROVE req[r].at = "idle"
    BY <1>1, Zenon DEF CanaryInv, RequestOK
  <2>2. ASSUME NEW u \in Uids PROVE "candidate" \notin got[u]
    BY <1>1, Zenon DEF CanaryInv
  <2>3. PICK r \in Requests, sel \in Selections : handleStartCanary(r, sel)
    BY <1>1, <2>1, <2>2, Zenon DEF vars, Next, AlertFires, InstanceChanges, UpdateCanaryTargetStatus,
       loadCanaryWithHealth, handleAbortCanary, rollbackConfigForCanary, PushConfig, PushConfigFails, FinishPushes,
       GetCanaryStatus, Step
  <2> DEFINE T == selectCanaryTargets(fleet, sel)
             E == canaryEligible(fleet)
  <2>4. T # Refused /\ row'.targets = T
    BY <2>3, Zenon DEF handleStartCanary
  <2>5. T \subseteq E /\ ~ (Cardinality(T) >= Cardinality(E))
    BY <2>4, Zenon DEF selectCanaryTargets
  <2>6. IsFiniteSet(E)
    <3>1. IsFiniteSet(Uids)
      BY FS_Interval DEF CanaryConstants, Uids
    <3>2. E \in SUBSET Uids
      BY <1>1, Zenon DEF canaryEligible, CanaryInv
    <3> QED BY <3>1, <3>2, FS_Subset, Zenon
  <2> HIDE DEF T, E
  <2>7. T # E
    BY <2>5, <2>6, FS_CardinalityType
  <2> QED BY <2>4, <2>5, <2>7, Zenon DEF Refused, E
<1>2. TypeOK /\ CanaryInv /\ [Next]_vars
        => [row = NoRow /\ row' # NoRow => row'.targets # {} /\ row'.targets \subseteq canaryEligible(fleet)
                                             /\ row'.targets # canaryEligible(fleet)]_vars
  BY <1>1, Zenon
<1> QED BY <1>2, CanaryInvariant, PTL DEF Spec, CanaryIsPartial
(* Reports, when "applied" is the last word of an instance *)

\* An instance that has applied the candidate reports nothing else of it.
AppliedIsFinal == "again" \notin Failures

KeptInv ==
    /\ \A u \in proven : said[u] = "applied"
    /\ ReportsAreKept

\* A row that is not active has no reports to keep.
LEMMA InactiveKept ==
    ASSUME row'.status \notin {"running", "succeeded"} PROVE ReportsAreKept'
BY Zenon DEF ReportsAreKept

LEMMA SameKept ==
    ASSUME ReportsAreKept, UNCHANGED <<row, said>> PROVE ReportsAreKept'
BY Zenon DEF ReportsAreKept

\* A read writes nothing into a canary that goes on running.
LEMMA RunningIsRead ==
    ASSUME CanaryInv, NEW r \in Requests, loadCanaryWithHealth(r), WithHealth(req[r].copy).status = "running"
    PROVE  row' = row
<1> DEFINE b == req[r].copy
           c == WithHealth(b)
           why == [t \in b.targets |-> IF fleet[t] \in {"stale", "gone"} THEN "no_heartbeat"
                                       ELSE IF fleet[t] = "degraded" THEN "collector_degraded" ELSE b.why[t]]
           stop == alert \/ (b.status = "running" /\ \E t \in b.targets : why[t] # "")
<1>1. Truthful(b, proven, got) /\ HealthOK(b, proven, got)
  BY Underway, HealthTruthful, Zenon DEF loadCanaryWithHealth, Step
<1>2. b \in Records /\ b.why \in [b.targets -> Reasons] /\ b.status = "running"
  BY <1>1, Zenon DEF Truthful, HealthOK
<1>3. c = [b EXCEPT !.why = why, !.status = IF stop THEN "stopped" ELSE @]
  BY Zenon DEF WithHealth
<1>4. ~ stop
  <2>1. c.status = "running"
    OBVIOUS
  <2> HIDE DEF b, c, why, stop
  <2> QED BY <1>2, <1>3, <2>1, Zenon DEF Records
<1>5. ~ alert /\ \A t \in b.targets : why[t] = ""
  BY <1>2, <1>4, Zenon
<1>6. \A t \in b.targets : ~ Unwell(t)
  BY <1>5, Zenon DEF Unwell
<1>7. why = [t \in b.targets |-> b.why[t]]
  BY <1>6, Zenon DEF Unwell
<1>8. why = b.why
  BY <1>2, <1>7, Zenon
<1> HIDE DEF b, why, stop
<1>9. c = [b EXCEPT !.why = b.why, !.status = b.status]
  BY <1>3, <1>4, <1>8, Zenon
<1>10. c = b
  BY <1>2, <1>9, Zenon DEF Records
<1> QED BY <1>5, <1>6, <1>10, Zenon DEF loadCanaryWithHealth, b

\* A read that writes an active canary writes one that has succeeded, and what
\* its targets said then they say still.
LEMMA HealthKept ==
    ASSUME CanaryInv, KeptInv, NEW r \in Requests, loadCanaryWithHealth(r)
    PROVE  ReportsAreKept'
<1> DEFINE c == WithHealth(req[r].copy)
<1>1. UNCHANGED said /\ row' \in {c, row}
  BY Zenon DEF loadCanaryWithHealth
<1>2. Truthful(c, proven, got)
  BY Underway, HealthTruthful, Zenon DEF loadCanaryWithHealth, Step, HealthOK
<1>3. CASE row' = row
  BY <1>1, <1>3, SameKept, Zenon DEF KeptInv
<1>4. CASE c.status = "running"
  BY <1>3, <1>4, RunningIsRead, Zenon
<1>5. CASE row' = c /\ c.status = "succeeded"
  <2>1. \A t \in row'.targets : row'.st[t] = "applied" /\ t \in proven
    BY <1>2, <1>5, Zenon DEF Truthful
  <2> QED BY <1>1, <2>1, Zenon DEF KeptInv, ReportsAreKept
<1>6. CASE row' = c /\ c.status \notin {"running", "succeeded"}
  <2>1. row'.status \notin {"running", "succeeded"}
    BY <1>6, Zenon
  <2> QED BY <2>1, InactiveKept, Zenon
<1> QED BY <1>1, <1>3, <1>4, <1>5, <1>6, Zenon
\* A canary starts before any of its targets has reported.
LEMMA StartKept ==
    ASSUME CanaryInv, KeptInv, NEW r \in Requests, NEW sel \in Selections, handleStartCanary(r, sel)
    PROVE  ReportsAreKept'
<1>1. row = NoRow /\ UNCHANGED said
  BY Zenon DEF handleStartCanary
<1>2. \A u \in Uids : said'[u] = "none"
  BY <1>1, Zenon DEF CanaryInv
<1>3. row'.targets \subseteq Uids
  BY Zenon DEF handleStartCanary, selectCanaryTargets, canaryEligible, CanaryInv, Refused
<1> QED BY <1>2, <1>3, Zenon DEF ReportsAreKept

\* The other requests end the canary when they write its row.
LEMMA WriteKept ==
    ASSUME CanaryInv, KeptInv, NEW r \in Requests, handleAbortCanary(r) \/ PushConfigFails(r) \/ FinishPushes(r)
    PROVE  ReportsAreKept'
<1>1. req[r].at # "idle" /\ UNCHANGED said
  BY Zenon DEF handleAbortCanary, PushConfigFails, FinishPushes, Step
<1>2. Truthful(req[r].copy, proven, got) /\ RequestOK(req[r], row, proven, got) /\ req[r].copy.targets = row.targets
  BY <1>1, Underway, Zenon DEF CanaryInv
<1>3. ASSUME NEW s \in {"aborted", "stopped", "promoted", "rollback_started"}, row' = WithStatus(req[r].copy, s)
      PROVE  ReportsAreKept'
  <2>1. req[r].copy \in Records /\ s \in States
    BY <1>2, Zenon DEF Truthful, States
  <2>2. [req[r].copy EXCEPT !.status = s].status = s
    BY <2>1, StatusSet, Zenon
  <2>3. row'.status = s
    BY <1>3, <2>2, Zenon DEF WithStatus
  <2> QED BY <2>3, InactiveKept, Zenon
<1>4. CASE handleAbortCanary(r)
  BY <1>3, <1>4, Zenon DEF handleAbortCanary, WithStatus
<1>5. CASE PushConfigFails(r)
  <2>1. PICK u \in req[r].left : row' = IF req[r].kind = "start" THEN TargetFailed(req[r].copy, u)
                                        ELSE WithStatus(req[r].copy, "stopped")
    BY <1>5, Zenon DEF PushConfigFails, WithStatus
  <2>2. CASE req[r].kind = "start"
    <3>1. u \in req[r].copy.targets
      BY <1>2, <1>5, <2>2, Zenon DEF RequestOK, PushConfigFails, Step
    <3>2. FailedOK(req[r].copy, u, proven, got)
      BY <1>2, <3>1, FailedTruthful, Zenon
    <3>3. row'.status = "stopped"
      BY <2>1, <2>2, <3>2, Zenon DEF FailedOK
    <3> QED BY <3>3, InactiveKept, Zenon
  <2> QED BY <1>3, <2>1, <2>2, Zenon
<1>6. CASE FinishPushes(r)
  <2>1. req[r].kind \in {"start", "promote", "rollback"}
    BY <1>2, <1>6, Zenon DEF FinishPushes, Step, RequestOK
  <2>2. \/ row' = row
        \/ row' = WithStatus(req[r].copy, "promoted") \/ row' = WithStatus(req[r].copy, "rollback_started")
    BY <1>6, <2>1, Zenon DEF FinishPushes, WithStatus
  <2> QED BY <1>1, <1>3, <2>2, SameKept, Zenon DEF KeptInv
<1> QED BY <1>4, <1>5, <1>6, Zenon

\* A report is kept with the others.
LEMMA ReportKept ==
    ASSUME CanaryConstants, CanaryInv, KeptInv, NEW u \in Uids, NEW s \in Reports, UpdateCanaryTargetStatus(u, s)
    PROVE  ReportsAreKept'
<1> SUFFICES ASSUME row'.status \in {"running", "succeeded"}, NEW t \in row'.targets, said'[t] # "none"
             PROVE  row'.st[t] = said'[t]
  BY Zenon DEF ReportsAreKept
<1>1. said' = [said EXCEPT ![u] = s] /\ s \in {"applying", "applied", "failed"} /\ "candidate" \in got[u]
  BY Zenon DEF UpdateCanaryTargetStatus, CanaryConstants
<1>2. row # NoRow /\ Truthful(row, proven, got) /\ row.targets \subseteq Uids
  BY <1>1, Zenon DEF CanaryInv, Truthful, Records
<1>3. CASE row' = row /\ ~ (row.status \in {"running", "succeeded"} /\ u \in row.targets)
  <2>1. t # u /\ t \in Uids
    BY <1>2, <1>3, Zenon
  <2>2. said'[t] = said[t]
    BY <1>1, <2>1, Zenon DEF CanaryInv
  <2> QED BY <1>3, <2>2, Zenon DEF KeptInv, ReportsAreKept
<1>4. CASE row' = Reconciled(row, u, s) /\ row.status \in {"running", "succeeded"} /\ u \in row.targets
  <2>1. PICK P : P = proven \cup {u}
    BY Zenon
  <2>2. Truthful(row, P, got)
    <3>1. Grows(proven, got, P, got)
      BY <2>1, Zenon DEF Grows
    <3>2. \A c : Truthful(c, proven, got) => Truthful(c, P, got)
      BY <3>1, StaysTruthful, Zenon
    <3> QED BY <1>2, <3>2, Zenon
  <2>3. ReconciledOK(row, u, s, P, got)
    <3>1. u \in P /\ u \in row.targets
      BY <1>4, <2>1, Zenon
    <3>2. s \in {"applying", "applied", "failed"} /\ (s = "applied" => u \in P)
      BY <1>1, <3>1, Zenon
    <3> QED BY <2>2, <3>1, <3>2, ReconciledTruthful, Zenon
  <2>4. row'.targets = row.targets /\ row'.st = [row.st EXCEPT ![u] = s]
    BY <1>4, <2>3, Zenon DEF ReconciledOK
  <2>5. t \in row.targets /\ t \in Uids /\ DOMAIN row.st = row.targets /\ DOMAIN said = Uids
    BY <1>2, <2>4, Zenon DEF Truthful, CanaryInv
  <2>6. CASE t = u
    BY <1>1, <2>4, <2>5, <2>6, Zenon
  <2>7. CASE t # u
    <3>1. said'[t] = said[t] /\ row'.st[t] = row.st[t]
      BY <1>1, <2>4, <2>5, <2>7, Zenon
    <3> QED BY <1>4, <2>5, <3>1, Zenon DEF KeptInv, ReportsAreKept
  <2> QED BY <2>6, <2>7, Zenon
<1> QED BY <1>3, <1>4, Zenon DEF UpdateCanaryTargetStatus

LEMMA KeptNext ==
    ASSUME CanaryConstants, AppliedIsFinal, CanaryInv, KeptInv, [Next]_vars
    PROVE  KeptInv'
<1>1. \A u \in proven' : said'[u] = "applied"
  <2>1. CASE UNCHANGED <<said, proven>>
    BY <2>1, Zenon DEF KeptInv
  <2>2. ASSUME NEW v \in Uids, NEW s \in Reports, UpdateCanaryTargetStatus(v, s)
        PROVE  \A u \in proven' : said'[u] = "applied"
    <3>1. /\ said' = [said EXCEPT ![v] = s] /\ (said[v] = "applied" => s = "applied")
          /\ proven' = IF s = "applied" THEN proven \cup {v} ELSE proven
      BY <2>2, Zenon DEF UpdateCanaryTargetStatus, AppliedIsFinal
    <3>2. v \in DOMAIN said /\ proven \subseteq DOMAIN said
      BY Zenon DEF CanaryInv
    <3>3. ASSUME NEW u \in proven' PROVE said'[u] = "applied"
      <4>1. CASE u = v
        BY <3>1, <3>2, <3>3, <4>1, Zenon DEF KeptInv
      <4>2. CASE u # v
        BY <3>1, <3>2, <3>3, <4>2, Zenon DEF KeptInv
      <4> QED BY <4>1, <4>2, Zenon
    <3> QED BY <3>3, Zenon
  <2>3. UNCHANGED <<said, proven>> \/ \E v \in Uids, s \in Reports : UpdateCanaryTargetStatus(v, s)
    BY Zenon DEF vars, Next, AlertFires, InstanceChanges, loadCanaryWithHealth, handleAbortCanary,
       rollbackConfigForCanary, PushConfig, PushConfigFails, FinishPushes, GetCanaryStatus, handleStartCanary
  <2> QED BY <2>1, <2>2, <2>3, Zenon
<1>2. ReportsAreKept'
  <2>1. CASE UNCHANGED <<row, said>>
    BY <2>1, SameKept, Zenon DEF KeptInv
  <2>2. CASE \E u \in Uids, s \in Reports : UpdateCanaryTargetStatus(u, s)
    BY <2>2, ReportKept, Zenon
  <2>3. CASE \E r \in Requests : \/ loadCanaryWithHealth(r) \/ handleAbortCanary(r)
                                  \/ PushConfigFails(r) \/ FinishPushes(r)
    BY <2>3, HealthKept, WriteKept, Zenon
  <2>4. CASE \E r \in Requests, sel \in Selections : handleStartCanary(r, sel)
    BY <2>4, StartKept, Zenon
  <2> QED BY <2>1, <2>2, <2>3, <2>4, Zenon DEF vars, Next, AlertFires, InstanceChanges, rollbackConfigForCanary,
             PushConfig, GetCanaryStatus
<1> QED BY <1>1, <1>2, Zenon DEF KeptInv

\* An active canary has the last report of each of its targets when "applied" is
\* the last word of an instance on the candidate, whatever happens to instances
\* and alerts: reads of unwell targets and other requests write back a row that
\* they have read before reports came in (loadCanaryWithHealth, handleAbortCanary,
\* handlePromoteCanary and handleRollbackCanary against UpdateCanaryTargetStatus),
\* but one that leaves the canary active was read when every target had applied.
THEOREM ReportsAreKeptWhenFinal ==
    ASSUME CanaryConstants, AppliedIsFinal PROVE Spec => []ReportsAreKept
<1>1. Init => KeptInv
  <2>1. Init => ReportsAreKept
    BY NoRowFields, Zenon DEF Init, ReportsAreKept
  <2> QED BY <2>1, Zenon DEF Init, KeptInv
<1>2. CanaryInv /\ KeptInv /\ [Next]_vars => KeptInv'
  BY KeptNext, Zenon
<1>3. KeptInv => ReportsAreKept
  BY Zenon DEF KeptInv
<1> QED BY <1>1, <1>2, <1>3, CanaryInvariant, PTL DEF Spec
---------------------------------------------------------------------------
(* The approvals. *)

\* The placeholders are no drafts and no ids.
ApprovalConstants == NoDraft \notin Drafts /\ NoId \notin Ids

RowType == [status : {"absent", "pending", "approved", "pushed"},
            draft : Drafts \cup {NoDraft}, hash : Drafts \cup {NoDraft}]
ReqType == [at : {"idle", "find", "upsert", "approve", "push", "mark"}, id : Ids \cup {NoId},
            draft : Drafts \cup {NoDraft}, glass : BOOLEAN]

\* What a request under way carries: a draft from its validation on, an id once
\* it has looked one up, and once it has pushed the push itself.
ReqOK(q) ==
    /\ q.at # "idle" => q.draft \in Drafts
    /\ q.at \in {"upsert", "approve", "push", "mark"} => q.id \in Ids
    /\ q.at \in {"push", "mark"} /\ ~ q.glass => looked[q.id] # NoDraft
    /\ q.at = "mark" => [id |-> q.id, draft |-> q.draft, glass |-> q.glass] \in sent

\* The unique index, on the rows themselves.
UniqueInv == \A i, j \in Ap!Pending : i = j

\* An approved row was looked at.
ApprovedInv == \A i \in Ids : rows[i].status = "approved" => looked[i] # NoDraft

ApprovalInv ==
    /\ \A r \in Requests : ReqOK(asking[r])
    /\ UniqueInv /\ ApprovedInv /\ Ap!PushNeedsApproval /\ Ap!MarkedHashWasSent

\* The fields of the records that a handler writes back.
LEMMA FoundFields ==
    ASSUME NEW q \in ReqType, NEW i \in Ids
    PROVE  /\ [q EXCEPT !.at = "upsert", !.id = i] \in ReqType
           /\ [q EXCEPT !.at = "upsert", !.id = i].at = "upsert"
           /\ [q EXCEPT !.at = "upsert", !.id = i].id = i
           /\ [q EXCEPT !.at = "upsert", !.id = i].draft = q.draft
BY Zenon DEF ReqType

LEMMA PushedFields ==
    ASSUME NEW q \in ReqType
    PROVE  /\ [q EXCEPT !.at = "mark"] \in ReqType /\ [q EXCEPT !.at = "mark"].at = "mark"
           /\ [q EXCEPT !.at = "mark"].id = q.id /\ [q EXCEPT !.at = "mark"].draft = q.draft
           /\ [q EXCEPT !.at = "mark"].glass = q.glass
BY Zenon DEF ReqType

LEMMA UpdatedFields ==
    ASSUME NEW x \in RowType, NEW d \in Drafts
    PROVE  /\ Ap!Updated(x, d) \in RowType
           /\ Ap!Updated(x, d).status = x.status /\ Ap!Updated(x, d).hash = x.hash
BY Zenon DEF RowType, Ap!Updated

LEMMA ApprovedFields ==
    ASSUME NEW x \in RowType
    PROVE  /\ [x EXCEPT !.status = "approved"] \in RowType
           /\ [x EXCEPT !.status = "approved"].status = "approved"
BY Zenon DEF RowType

LEMMA MarkedFields ==
    ASSUME NEW x \in RowType, NEW d \in Drafts
    PROVE  /\ [x EXCEPT !.status = "pushed", !.hash = d] \in RowType
           /\ [x EXCEPT !.status = "pushed", !.hash = d].status = "pushed"
           /\ [x EXCEPT !.status = "pushed", !.hash = d].hash = d
BY Zenon DEF RowType

LEMMA RowOf ==
    ASSUME Ap!TypeOK, NEW i \in Ids
    PROVE  rows[i] \in RowType
BY Zenon DEF Ap!TypeOK, RowType

LEMMA ReqOf ==
    ASSUME Ap!TypeOK, NEW r \in Requests
    PROVE  asking[r] \in ReqType
BY Zenon DEF Ap!TypeOK, ReqType

\* A step of one request that keeps the rows, what was sent and what was looked
\* at: the invariant is about what the request carries.
LEMMA ApprovalRequestStep ==
    ASSUME Ap!TypeOK, ApprovalInv, NEW r \in Requests, NEW q \in ReqType,
           asking' = [asking EXCEPT ![r] = q], ReqOK(q),
           UNCHANGED <<rows, valid, sent, pushes, looked>>
    PROVE  Ap!TypeOK' /\ ApprovalInv'
<1>1. Ap!TypeOK'
  BY Zenon DEF Ap!TypeOK, ReqType
<1>2. ASSUME NEW p \in Requests PROVE ReqOK(asking[p])'
  <2>1. asking'[p] = IF p = r THEN q ELSE asking[p]
    BY Zenon DEF Ap!TypeOK
  <2>2. ReqOK(asking'[p])
    BY <2>1, Zenon DEF ApprovalInv
  <2> QED BY <2>2, Zenon DEF ReqOK
<1>3. UniqueInv' /\ ApprovedInv' /\ Ap!PushNeedsApproval' /\ Ap!MarkedHashWasSent'
  BY Zenon DEF ApprovalInv, UniqueInv, Ap!Pending, ApprovedInv, Ap!PushNeedsApproval, Ap!MarkedHashWasSent
<1> QED BY <1>1, <1>2, <1>3, Zenon DEF ApprovalInv

\* A request that ends carries nothing.
LEMMA ApprovalIdleOK == ReqOK(Ap!Idle)
BY Zenon DEF ReqOK, Ap!Idle
\* The steps that only read the rows.
LEMMA ReadSteps ==
    ASSUME ApprovalConstants, Ap!TypeOK, ApprovalInv, NEW r \in Requests,
           \/ Ap!getPendingConfigApprovalRequest(r) \/ Ap!Stop(r)
           \/ \E d \in Drafts : Ap!handleCreateOrUpdateConfigApproval(r, d)
           \/ \E i \in Ids : \/ Ap!handleApproveConfigApproval(r, i)
                             \/ \E g \in BOOLEAN : Ap!handlePushConfigApproval(r, i, g)
    PROVE  Ap!TypeOK' /\ ApprovalInv'
<1>0. ReqOK(asking[r]) /\ asking[r] \in ReqType /\ Ap!Idle \in ReqType
  BY ReqOf, Zenon DEF ApprovalInv, Ap!Idle, ReqType
<1>1. CASE Ap!getPendingConfigApprovalRequest(r)
  <2>1. PICK i \in Ids : /\ Ap!Step(r, "find", [asking[r] EXCEPT !.at = "upsert", !.id = i])
                         /\ UNCHANGED <<rows, valid, sent, pushes, looked>>
    BY <1>1, Zenon DEF Ap!getPendingConfigApprovalRequest
  <2> DEFINE q == [asking[r] EXCEPT !.at = "upsert", !.id = i]
  <2>2. asking[r].draft \in Drafts
    BY <1>0, <2>1, Zenon DEF ReqOK, Ap!Step
  <2>3. q \in ReqType /\ q.at = "upsert" /\ q.id = i /\ q.draft = asking[r].draft
    BY <1>0, FoundFields, Zenon
  <2>4. ReqOK(q)
    BY <2>2, <2>3, Zenon DEF ReqOK
  <2> HIDE DEF q
  <2> QED BY <2>1, <2>3, <2>4, ApprovalRequestStep, Zenon DEF Ap!Step, q
<1>2. CASE Ap!Stop(r)
  BY <1>0, <1>2, ApprovalIdleOK, ApprovalRequestStep, Zenon DEF Ap!Stop
<1>3. ASSUME NEW d \in Drafts, Ap!handleCreateOrUpdateConfigApproval(r, d)
      PROVE  Ap!TypeOK' /\ ApprovalInv'
  <2> DEFINE q == [Ap!Idle EXCEPT !.at = "find", !.draft = d]
  <2>1. q \in ReqType /\ q.at = "find" /\ q.draft = d
    BY Zenon DEF ReqType, Ap!Idle
  <2>2. ReqOK(q)
    BY <2>1, Zenon DEF ReqOK
  <2> HIDE DEF q
  <2> QED BY <1>3, <2>1, <2>2, ApprovalRequestStep, Zenon DEF Ap!handleCreateOrUpdateConfigApproval, Ap!Step, q
<1>4. ASSUME NEW i \in Ids, Ap!handleApproveConfigApproval(r, i)
      PROVE  Ap!TypeOK' /\ ApprovalInv'
  <2> DEFINE d == rows[i].draft
             q == [Ap!Idle EXCEPT !.at = "approve", !.id = i, !.draft = d]
  <2>1. d \in Drafts
    BY <1>4, Zenon DEF Ap!handleApproveConfigApproval, Ap!TypeOK
  <2> HIDE DEF d
  <2>2. q \in ReqType /\ q.at = "approve" /\ q.id = i /\ q.draft = d
    BY <2>1, Zenon DEF ReqType, Ap!Idle
  <2>3. ReqOK(q)
    BY <2>1, <2>2, Zenon DEF ReqOK
  <2>4. asking' = [asking EXCEPT ![r] = q] /\ UNCHANGED <<rows, valid, sent, pushes, looked>>
    BY <1>4, Zenon DEF Ap!handleApproveConfigApproval, Ap!Step, d
  <2> HIDE DEF q
  <2> QED BY <2>2, <2>3, <2>4, ApprovalRequestStep, Zenon
<1>5. ASSUME NEW i \in Ids, NEW g \in BOOLEAN, Ap!handlePushConfigApproval(r, i, g)
      PROVE  Ap!TypeOK' /\ ApprovalInv'
  <2> DEFINE d == rows[i].draft
             q == [at |-> "push", id |-> i, draft |-> d, glass |-> g]
  <2>1. d \in Drafts /\ (~ g => looked[i] # NoDraft)
    BY <1>5, Zenon DEF Ap!handlePushConfigApproval, Ap!MayPush, Ap!TypeOK, ApprovalInv, ApprovedInv
  <2>2. asking' = [asking EXCEPT ![r] = q] /\ UNCHANGED <<rows, valid, sent, pushes, looked>>
    BY <1>5, Zenon DEF Ap!handlePushConfigApproval, Ap!Step
  <2> HIDE DEF d
  <2>3. q \in ReqType /\ q.at = "push" /\ q.id = i /\ q.draft = d /\ q.glass = g
    BY <2>1, Zenon DEF ReqType
  <2>4. ReqOK(q)
    BY <2>1, <2>3, Zenon DEF ReqOK
  <2> HIDE DEF q
  <2> QED BY <2>2, <2>3, <2>4, ApprovalRequestStep, Zenon
<1> QED BY <1>1, <1>2, <1>3, <1>4, <1>5, Zenon
\* A request that ends with a write of row i: what it writes keeps the rows
\* decided, the index and the hash of a pushed row.
LEMMA WriteStep ==
    ASSUME Ap!TypeOK, ApprovalInv, NEW r \in Requests, NEW i \in Ids, NEW x \in RowType,
           asking' = [asking EXCEPT ![r] = Ap!Idle], rows' = [rows EXCEPT ![i] = x],
           x.status = "pending" => Ap!UniquePending(i),
           looked' \in [Ids -> Drafts \cup {NoDraft}],
           \A j \in Ids : looked[j] # NoDraft => looked'[j] # NoDraft,
           x.status = "approved" => looked'[i] # NoDraft,
           x.status = "pushed" => \E p \in sent : p.id = i /\ p.draft = x.hash,
           UNCHANGED <<valid, sent, pushes>>
    PROVE  Ap!TypeOK' /\ ApprovalInv'
<1>1. rows' \in [Ids -> RowType] /\ asking' \in [Requests -> ReqType]
  BY Zenon DEF Ap!TypeOK, RowType, ReqType, Ap!Idle
<1>2. Ap!TypeOK'
  BY <1>1, Zenon DEF Ap!TypeOK, RowType, ReqType
<1>3. rows'[i] = x /\ \A j \in Ids \ {i} : rows'[j] = rows[j]
  BY Zenon DEF Ap!TypeOK
<1>4. ASSUME NEW p \in Requests PROVE ReqOK(asking[p])'
  <2>1. asking'[p] = IF p = r THEN Ap!Idle ELSE asking[p]
    BY Zenon DEF Ap!TypeOK
  <2>2. ReqOK(asking'[p])
    BY <2>1, ApprovalIdleOK, Zenon DEF ApprovalInv
  <2>3. asking'[p].at \in {"push", "mark"} => asking'[p].id \in Ids
    BY <2>2, Zenon DEF ReqOK
  <2> QED BY <2>2, <2>3, Zenon DEF ReqOK
<1>5. UniqueInv'
  <2>1. CASE x.status = "pending"
    <3>1. Ap!Pending' \subseteq {i}
      BY <1>3, <2>1, Zenon DEF Ap!Pending, Ap!UniquePending
    <3> QED BY <3>1, Zenon DEF UniqueInv
  <2>2. CASE x.status # "pending"
    <3>1. Ap!Pending' \subseteq Ap!Pending
      BY <1>3, <2>2, Zenon DEF Ap!Pending
    <3> QED BY <3>1, Zenon DEF UniqueInv, ApprovalInv
  <2> QED BY <2>1, <2>2, Zenon
<1>6. ApprovedInv' /\ Ap!MarkedHashWasSent'
  <2> SUFFICES ASSUME NEW j \in Ids
               PROVE  /\ rows'[j].status = "approved" => looked'[j] # NoDraft
                      /\ rows'[j].status = "pushed" => \E p \in sent' : p.id = j /\ p.draft = rows'[j].hash
    BY Zenon DEF ApprovedInv, Ap!MarkedHashWasSent
  <2>1. CASE j = i
    BY <1>3, <2>1, Zenon
  <2>2. CASE j # i
    <3>1. rows'[j] = rows[j] /\ sent' = sent
      BY <1>3, <2>2, Zenon
    <3>2. rows[j].status = "approved" => looked[j] # NoDraft
      BY Zenon DEF ApprovalInv, ApprovedInv
    <3>3. rows[j].status = "pushed" => \E p \in sent : p.id = j /\ p.draft = rows[j].hash
      BY Zenon DEF ApprovalInv, Ap!MarkedHashWasSent
    <3> QED BY <3>1, <3>2, <3>3, Zenon
  <2> QED BY <2>1, <2>2, Zenon
<1>7. Ap!PushNeedsApproval'
  BY Zenon DEF ApprovalInv, Ap!PushNeedsApproval, Ap!TypeOK
<1> QED BY <1>2, <1>4, <1>5, <1>6, <1>7, Zenon DEF ApprovalInv

\* CreateOrUpdateConfigApprovalRequest: a new row respects the index, an old one
\* keeps its status and its hash.
LEMMA UpsertStep ==
    ASSUME ApprovalConstants, Ap!TypeOK, ApprovalInv, NEW r \in Requests, Ap!CreateOrUpdateConfigApprovalRequest(r)
    PROVE  Ap!TypeOK' /\ ApprovalInv'
<1>1. PICK i \in Ids : i = asking[r].id
  BY Zenon DEF Ap!CreateOrUpdateConfigApprovalRequest, Ap!Step, ApprovalInv, ReqOK
<1>2. PICK d \in Drafts : d = asking[r].draft
  BY Zenon DEF Ap!CreateOrUpdateConfigApprovalRequest, Ap!Step, ApprovalInv, ReqOK
<1>3. /\ asking' = [asking EXCEPT ![r] = Ap!Idle] /\ UNCHANGED <<valid, sent, pushes, looked>>
      /\ looked' \in [Ids -> Drafts \cup {NoDraft}] /\ Ap!Idle \in ReqType
  BY Zenon DEF Ap!CreateOrUpdateConfigApprovalRequest, Ap!Step, Ap!TypeOK, Ap!Idle, ReqType
<1>4. CASE rows[i].status # "absent"
  <2>1. rows' = [rows EXCEPT ![i] = Ap!Updated(rows[i], d)]
    BY <1>1, <1>2, <1>4, Zenon DEF Ap!CreateOrUpdateConfigApprovalRequest
  <2> DEFINE x == Ap!Updated(rows[i], d)
  <2>2. x \in RowType /\ x.status = rows[i].status /\ x.hash = rows[i].hash
    BY RowOf, UpdatedFields, Zenon
  <2> HIDE DEF x
  <2>3. x.status = "pending" => Ap!UniquePending(i)
    BY <2>2, Zenon DEF Ap!UniquePending, ApprovalInv, UniqueInv, Ap!Pending
  <2>4. /\ x.status = "approved" => looked'[i] # NoDraft
        /\ x.status = "pushed" => \E p \in sent : p.id = i /\ p.draft = x.hash
    BY <1>3, <2>2, Zenon DEF ApprovalInv, ApprovedInv, Ap!MarkedHashWasSent
  <2> QED BY <1>3, <2>1, <2>2, <2>3, <2>4, WriteStep, Zenon DEF x
<1>5. CASE rows[i].status = "absent" /\ Ap!UniquePending(i)
  <2> DEFINE x == [status |-> "pending", draft |-> d, hash |-> NoDraft]
  <2>1. x \in RowType /\ x.status = "pending"
    BY Zenon DEF RowType
  <2>2. rows' = [rows EXCEPT ![i] = x]
    BY <1>1, <1>2, <1>5, Zenon DEF Ap!CreateOrUpdateConfigApprovalRequest
  <2> HIDE DEF x
  <2> QED BY <1>3, <1>5, <2>1, <2>2, WriteStep, Zenon
<1>6. CASE rows[i].status = "absent" /\ ~ Ap!UniquePending(i)
  <2>1. UNCHANGED rows
    BY <1>1, <1>6, Zenon DEF Ap!CreateOrUpdateConfigApprovalRequest
  <2> QED BY <1>3, <2>1, ApprovalIdleOK, ApprovalRequestStep, Zenon
<1> QED BY <1>4, <1>5, <1>6, Zenon
\* ApproveConfigApprovalRequest: the approver has validated a draft.
LEMMA ApproveStep ==
    ASSUME ApprovalConstants, Ap!TypeOK, ApprovalInv, NEW r \in Requests, Ap!ApproveConfigApprovalRequest(r)
    PROVE  Ap!TypeOK' /\ ApprovalInv'
<1>1. PICK i \in Ids : i = asking[r].id
  BY Zenon DEF Ap!ApproveConfigApprovalRequest, Ap!Step, ApprovalInv, ReqOK
<1>2. PICK d \in Drafts : d = asking[r].draft
  BY Zenon DEF Ap!ApproveConfigApprovalRequest, Ap!Step, ApprovalInv, ReqOK
<1>3. /\ asking' = [asking EXCEPT ![r] = Ap!Idle] /\ UNCHANGED <<valid, sent, pushes>>
      /\ Ap!Idle \in ReqType /\ d # NoDraft
  BY Zenon DEF Ap!ApproveConfigApprovalRequest, Ap!Step, Ap!Idle, ReqType, ApprovalConstants
<1>4. CASE rows[i].status = "pending"
  <2> DEFINE x == [rows[i] EXCEPT !.status = "approved"]
  <2>1. x \in RowType /\ x.status = "approved"
    BY RowOf, ApprovedFields, Zenon
  <2>2. rows' = [rows EXCEPT ![i] = x] /\ looked' = [looked EXCEPT ![i] = d]
    BY <1>1, <1>2, <1>4, Zenon DEF Ap!ApproveConfigApprovalRequest
  <2>3. /\ looked' \in [Ids -> Drafts \cup {NoDraft}] /\ looked'[i] # NoDraft
        /\ \A j \in Ids : looked[j] # NoDraft => looked'[j] # NoDraft
    BY <1>3, <2>2, Zenon DEF Ap!TypeOK
  <2> HIDE DEF x
  <2> QED BY <1>3, <2>1, <2>2, <2>3, WriteStep, Zenon
<1>5. CASE rows[i].status # "pending"
  <2>1. UNCHANGED <<rows, looked>>
    BY <1>1, <1>5, Zenon DEF Ap!ApproveConfigApprovalRequest
  <2> QED BY <1>3, <2>1, ApprovalIdleOK, ApprovalRequestStep, Zenon
<1> QED BY <1>4, <1>5, Zenon

\* MarkConfigApprovalRequestPushed: the hash it writes is that of its own push.
LEMMA MarkStep ==
    ASSUME ApprovalConstants, Ap!TypeOK, ApprovalInv, NEW r \in Requests, Ap!MarkConfigApprovalRequestPushed(r)
    PROVE  Ap!TypeOK' /\ ApprovalInv'
<1>1. PICK i \in Ids : i = asking[r].id
  BY Zenon DEF Ap!MarkConfigApprovalRequestPushed, Ap!Step, ApprovalInv, ReqOK
<1>2. PICK d \in Drafts : d = asking[r].draft
  BY Zenon DEF Ap!MarkConfigApprovalRequestPushed, Ap!Step, ApprovalInv, ReqOK
<1>3. /\ asking' = [asking EXCEPT ![r] = Ap!Idle] /\ UNCHANGED <<valid, sent, pushes, looked>>
      /\ looked' \in [Ids -> Drafts \cup {NoDraft}] /\ Ap!Idle \in ReqType
  BY Zenon DEF Ap!MarkConfigApprovalRequestPushed, Ap!Step, Ap!TypeOK, Ap!Idle, ReqType
<1>4. CASE rows[i].status \in {"approved", "pending"}
  <2> DEFINE x == [rows[i] EXCEPT !.status = "pushed", !.hash = d]
  <2>1. x \in RowType /\ x.status = "pushed" /\ x.hash = d
    BY RowOf, MarkedFields, Zenon
  <2>2. rows' = [rows EXCEPT ![i] = x]
    BY <1>1, <1>2, <1>4, Zenon DEF Ap!MarkConfigApprovalRequestPushed
  <2> DEFINE p == [id |-> i, draft |-> d, glass |-> asking[r].glass]
  <2>3. p \in sent /\ p.id = i /\ p.draft = d
    BY <1>1, <1>2, Zenon DEF Ap!MarkConfigApprovalRequestPushed, Ap!Step, ApprovalInv, ReqOK
  <2> HIDE DEF x, p
  <2> QED BY <1>3, <2>1, <2>2, <2>3, WriteStep, Zenon
<1>5. CASE rows[i].status \notin {"approved", "pending"}
  <2>1. UNCHANGED rows
    BY <1>1, <1>5, Zenon DEF Ap!MarkConfigApprovalRequestPushed
  <2> QED BY <1>3, <2>1, ApprovalIdleOK, ApprovalRequestStep, Zenon
<1> QED BY <1>4, <1>5, Zenon

\* persistAndPushApprovalConfig: what goes out is what the request carries.
LEMMA ApprovalPushStep ==
    ASSUME ApprovalConstants, Ap!TypeOK, ApprovalInv, NEW r \in Requests, Ap!persistAndPushApprovalConfig(r)
    PROVE  Ap!TypeOK' /\ ApprovalInv'
<1>0. Ap!Idle \in ReqType
  BY Zenon DEF Ap!Idle, ReqType
<1>1. CASE Ap!Step(r, "push", Ap!Idle) /\ UNCHANGED <<rows, valid, sent, pushes, looked>>
  BY <1>0, <1>1, ApprovalIdleOK, ApprovalRequestStep, Zenon DEF Ap!Step
<1>2. ASSUME Ap!Step(r, "push", [asking[r] EXCEPT !.at = "mark"]), UNCHANGED <<rows, valid, looked>>,
             sent' = sent \cup {[id |-> asking[r].id, draft |-> asking[r].draft, glass |-> asking[r].glass]},
             pushes' = [pushes EXCEPT ![asking[r].id] = IF @ = 2 THEN 2 ELSE @ + 1]
      PROVE  Ap!TypeOK' /\ ApprovalInv'
  <2> DEFINE q == [asking[r] EXCEPT !.at = "mark"]
             p == [id |-> q.id, draft |-> q.draft, glass |-> q.glass]
  <2>1. /\ q \in ReqType /\ q.at = "mark" /\ q.id = asking[r].id
        /\ q.draft = asking[r].draft /\ q.glass = asking[r].glass
    BY ReqOf, PushedFields, Zenon
  <2>2. asking' = [asking EXCEPT ![r] = q] /\ sent' = sent \cup {p}
    BY <1>2, <2>1, Zenon DEF Ap!Step
  <2>3. q.id \in Ids /\ q.draft \in Drafts /\ q.glass \in BOOLEAN /\ (~ q.glass => looked[q.id] # NoDraft)
    BY <1>2, <2>1, Zenon DEF ApprovalInv, ReqOK, Ap!Step, ReqType
  <2> HIDE DEF q
  <2>4. pushes' \in [Ids -> 0..2]
    BY <1>2, <2>1, <2>3 DEF Ap!TypeOK
  <2>5. p \in [id : Ids, draft : Drafts, glass : BOOLEAN] /\ p.id = q.id /\ p.glass = q.glass
    BY <2>3, Zenon
  <2>6. Ap!TypeOK'
    BY <1>2, <2>1, <2>2, <2>4, <2>5, Zenon DEF Ap!TypeOK, ReqType
  <2>7. ASSUME NEW s \in Requests PROVE ReqOK(asking[s])'
    <3>1. CASE s = r
      <4>1. asking'[s] = q
        BY <2>2, <3>1, Zenon DEF Ap!TypeOK
      <4> QED BY <1>2, <2>1, <2>2, <2>3, <4>1, Zenon DEF ReqOK
    <3>2. CASE s # r
      <4>1. asking'[s] = asking[s] /\ ReqOK(asking[s])
        BY <2>2, <3>2, Zenon DEF Ap!TypeOK, ApprovalInv
      <4> QED BY <1>2, <2>2, <4>1, Zenon DEF ReqOK
    <3> QED BY <3>1, <3>2, Zenon
  <2> HIDE DEF p
  <2>8. UniqueInv' /\ ApprovedInv'
    BY <1>2, Zenon DEF ApprovalInv, UniqueInv, Ap!Pending, ApprovedInv
  <2>9. Ap!PushNeedsApproval'
    BY <1>2, <2>2, <2>3, <2>5, Zenon DEF ApprovalInv, Ap!PushNeedsApproval
  <2>10. Ap!MarkedHashWasSent'
    BY <1>2, <2>2, Zenon DEF ApprovalInv, Ap!MarkedHashWasSent
  <2> QED BY <2>6, <2>7, <2>8, <2>9, <2>10, Zenon DEF ApprovalInv
<1> QED BY <1>1, <1>2, Zenon DEF Ap!persistAndPushApprovalConfig
LEMMA ApprovalInit ==
    ASSUME ApprovalConstants, Ap!Init
    PROVE  Ap!TypeOK /\ ApprovalInv
<1>1. Ap!Idle \in ReqType /\ Ap!Absent \in RowType /\ Ap!Absent.status = "absent"
  BY Zenon DEF Ap!Idle, ReqType, Ap!Absent, RowType
<1>2. Ap!TypeOK
  BY <1>1 DEF Ap!Init, Ap!TypeOK, ReqType, RowType
<1>3. ASSUME NEW r \in Requests PROVE ReqOK(asking[r])
  BY ApprovalIdleOK, Zenon DEF Ap!Init
<1>4. UniqueInv /\ ApprovedInv /\ Ap!PushNeedsApproval /\ Ap!MarkedHashWasSent
  BY <1>1, Zenon DEF Ap!Init, UniqueInv, Ap!Pending, ApprovedInv, Ap!PushNeedsApproval, Ap!MarkedHashWasSent
<1> QED BY <1>2, <1>3, <1>4, Zenon DEF ApprovalInv

LEMMA ApprovalNext ==
    ASSUME ApprovalConstants, Ap!TypeOK, ApprovalInv, [Ap!Next]_(Ap!vars)
    PROVE  Ap!TypeOK' /\ ApprovalInv'
<1>1. CASE UNCHANGED Ap!vars \/ Ap!ComponentsChange
  <2>1. UNCHANGED <<rows, asking, sent, pushes, looked>> /\ valid' \subseteq Drafts
    BY <1>1, Zenon DEF Ap!vars, Ap!ComponentsChange, Ap!TypeOK
  <2>2. Ap!TypeOK'
    BY <2>1, Zenon DEF Ap!TypeOK
  <2>3. \A r \in Requests : ReqOK(asking[r])'
    BY <2>1, Zenon DEF ApprovalInv, ReqOK
  <2>4. UniqueInv' /\ ApprovedInv' /\ Ap!PushNeedsApproval' /\ Ap!MarkedHashWasSent'
    BY <2>1, Zenon DEF ApprovalInv, UniqueInv, Ap!Pending, ApprovedInv, Ap!PushNeedsApproval, Ap!MarkedHashWasSent
  <2> QED BY <2>2, <2>3, <2>4, Zenon DEF ApprovalInv
<1>2. CASE \E r \in Requests :
              \/ Ap!getPendingConfigApprovalRequest(r) \/ Ap!CreateOrUpdateConfigApprovalRequest(r)
              \/ Ap!ApproveConfigApprovalRequest(r) \/ Ap!persistAndPushApprovalConfig(r)
              \/ Ap!MarkConfigApprovalRequestPushed(r) \/ Ap!Stop(r)
              \/ \E d \in Drafts : Ap!handleCreateOrUpdateConfigApproval(r, d)
              \/ \E i \in Ids : \/ Ap!handleApproveConfigApproval(r, i)
                                \/ \E g \in BOOLEAN : Ap!handlePushConfigApproval(r, i, g)
  BY <1>2, ReadSteps, UpsertStep, ApproveStep, ApprovalPushStep, MarkStep, Zenon
<1> QED BY <1>1, <1>2, Zenon DEF Ap!Next

\* Type correctness and the invariant of the approval flow, for any number of
\* operators, rows and drafts.
THEOREM ApprovalInvariant ==
    ASSUME ApprovalConstants PROVE Ap!Spec => [](Ap!TypeOK /\ ApprovalInv)
BY ApprovalInit, ApprovalNext, PTL DEF Ap!Spec

\* However many operators create, update, approve and push at once, the
\* workload has one pending draft at most (the unique index behind
\* CreateOrUpdateConfigApprovalRequest).
THEOREM OnePendingAlways ==
    ASSUME ApprovalConstants PROVE Ap!Spec => []Ap!OnePending
<1>1. Ap!TypeOK /\ ApprovalInv => Ap!OnePending
  <2>0. Ap!OnePending <=> Cardinality(Ap!Pending) <= 1
    BY DEF Ap!OnePending, Ap!Cardinality, Cardinality
  <2> SUFFICES ASSUME ApprovalInv PROVE Cardinality(Ap!Pending) <= 1
    BY <2>0, Zenon
  <2>1. CASE Ap!Pending = {}
    <3>1. Cardinality({}) = 0
      BY FS_EmptySet, Zenon
    <3>2. Cardinality(Ap!Pending) = 0
      BY <2>1, <3>1, Zenon
    <3> QED BY <3>2
  <2>2. CASE Ap!Pending # {}
    <3>1. PICK i \in Ap!Pending : Ap!Pending = {i}
      BY <2>2, Zenon DEF ApprovalInv, UniqueInv
    <3>2. Cardinality({i}) = 1
      BY FS_Singleton, Zenon
    <3>3. Cardinality(Ap!Pending) = 1
      BY <3>1, <3>2, Zenon
    <3> QED BY <3>3
  <2> QED BY <2>1, <2>2, Zenon
<1> QED BY <1>1, ApprovalInvariant, PTL

\* A push without break-glass follows an approval of its row, however the
\* steps of the operators overlap (handlePushConfigApproval).
THEOREM PushNeedsApprovalAlways ==
    ASSUME ApprovalConstants PROVE Ap!Spec => []Ap!PushNeedsApproval
<1>1. Ap!TypeOK /\ ApprovalInv => Ap!PushNeedsApproval
  BY Zenon DEF ApprovalInv
<1> QED BY <1>1, ApprovalInvariant, PTL

\* The hash of a pushed row is that of a draft that was sent for it
\* (MarkConfigApprovalRequestPushed).
THEOREM MarkedHashWasSentAlways ==
    ASSUME ApprovalConstants PROVE Ap!Spec => []Ap!MarkedHashWasSent
<1>1. Ap!TypeOK /\ ApprovalInv => Ap!MarkedHashWasSent
  BY Zenon DEF ApprovalInv
<1> QED BY <1>1, ApprovalInvariant, PTL

\* No step takes a decision back: late updates and late approvals leave an
\* approved row approved and a pushed one pushed.
THEOREM DecisionSticksAlways ==
    ASSUME ApprovalConstants PROVE Ap!Spec => Ap!DecisionSticks
<1>1. ASSUME Ap!TypeOK, ApprovalInv, [Ap!Next]_(Ap!vars), NEW i \in Ids
      PROVE  /\ rows[i].status = "approved" => rows'[i].status \in {"approved", "pushed"}
             /\ rows[i].status = "pushed" => rows'[i].status = "pushed"
  <2> USE <1>1
  <2>1. CASE UNCHANGED rows
    BY <2>1, Zenon
  <2>2. ASSUME NEW r \in Requests, Ap!CreateOrUpdateConfigApprovalRequest(r),
               rows[i].status \in {"approved", "pushed"}
        PROVE  rows'[i].status = rows[i].status
    <3>1. PICK k \in Ids : k = asking[r].id
      BY <2>2, Zenon DEF Ap!CreateOrUpdateConfigApprovalRequest, Ap!Step, ApprovalInv, ReqOK
    <3>2. PICK d \in Drafts : d = asking[r].draft
      BY <2>2, Zenon DEF Ap!CreateOrUpdateConfigApprovalRequest, Ap!Step, ApprovalInv, ReqOK
    <3>3. CASE k = i
      <4>1. rows' = [rows EXCEPT ![i] = Ap!Updated(rows[i], d)]
        BY <2>2, <3>1, <3>2, <3>3, Zenon DEF Ap!CreateOrUpdateConfigApprovalRequest
      <4>2. rows'[i] = Ap!Updated(rows[i], d)
        BY <4>1, Zenon DEF Ap!TypeOK
      <4>3. Ap!Updated(rows[i], d).status = rows[i].status
        BY RowOf, UpdatedFields, Zenon
      <4> QED BY <4>2, <4>3, Zenon
    <3>4. CASE k # i
      <4>1. rows'[i] = rows[i]
        BY <2>2, <3>1, <3>4, Zenon DEF Ap!CreateOrUpdateConfigApprovalRequest, Ap!TypeOK
      <4> QED BY <4>1, Zenon
    <3> QED BY <3>3, <3>4, Zenon
  <2>3. ASSUME NEW r \in Requests, Ap!ApproveConfigApprovalRequest(r), rows[i].status \in {"approved", "pushed"}
        PROVE  rows'[i].status = rows[i].status
    BY <2>3, Zenon DEF Ap!ApproveConfigApprovalRequest, Ap!TypeOK
  <2>4. ASSUME NEW r \in Requests, Ap!MarkConfigApprovalRequestPushed(r)
        PROVE  rows'[i] = rows[i] \/ rows'[i].status = "pushed"
    <3>1. PICK k \in Ids : k = asking[r].id
      BY <2>4, Zenon DEF Ap!MarkConfigApprovalRequestPushed, Ap!Step, ApprovalInv, ReqOK
    <3>2. PICK d \in Drafts : d = asking[r].draft
      BY <2>4, Zenon DEF Ap!MarkConfigApprovalRequestPushed, Ap!Step, ApprovalInv, ReqOK
    <3>3. UNCHANGED rows \/ rows' = [rows EXCEPT ![k] = [rows[k] EXCEPT !.status = "pushed", !.hash = d]]
      BY <2>4, <3>1, <3>2, Zenon DEF Ap!MarkConfigApprovalRequestPushed
    <3>4. rows'[i] = rows[i] \/ rows'[i] = [rows[i] EXCEPT !.status = "pushed", !.hash = d]
      BY <3>3, Zenon DEF Ap!TypeOK
    <3>5. [rows[i] EXCEPT !.status = "pushed", !.hash = d].status = "pushed"
      BY RowOf, MarkedFields, Zenon
    <3> QED BY <3>4, <3>5, Zenon
  <2>5. \/ UNCHANGED rows
        \/ \E r \in Requests : \/ Ap!CreateOrUpdateConfigApprovalRequest(r) \/ Ap!ApproveConfigApprovalRequest(r)
                               \/ Ap!MarkConfigApprovalRequestPushed(r)
    BY Zenon DEF Ap!vars, Ap!Next, Ap!ComponentsChange, Ap!getPendingConfigApprovalRequest,
       Ap!persistAndPushApprovalConfig, Ap!Stop,
       Ap!handleCreateOrUpdateConfigApproval, Ap!handleApproveConfigApproval, Ap!handlePushConfigApproval
  <2> QED BY <2>1, <2>2, <2>3, <2>4, <2>5, Zenon
<1>2. Ap!TypeOK /\ ApprovalInv /\ [Ap!Next]_(Ap!vars)
         => [\A i \in DOMAIN rows : /\ rows[i].status = "approved" => rows'[i].status \in {"approved", "pushed"}
                                   /\ rows[i].status = "pushed" => rows'[i].status = "pushed"]_(Ap!vars)
  BY <1>1, Zenon DEF Ap!TypeOK
<1> QED BY <1>2, ApprovalInvariant, PTL DEF Ap!Spec, Ap!DecisionSticks
=============================================================================
