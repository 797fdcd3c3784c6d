---------------------------- MODULE RollbackProofs ----------------------------
(***************************************************************************)
(* Pushes, automatic rollbacks and the rollbacks an operator asks for, for *)
(* any instances, configs and requests: what the history credits, where a  *)
(* rollback goes, and what is shown of one.                                *)
(*                                                                         *)
(* IsStep describes what any step does to the history, to the handlers and *)
(* requests and to the agents; every action is shown to be such a step,  *)
(* and the invariants are shown to be kept by every such step.             *)
(***************************************************************************)
EXTENDS GuidedRollback, WellFoundedInduction, TLAPS

\* A config is pushed to some instance, agents report applied or failed, and the
\* known-good pointer, which only ever names a config with an applied row, names
\* the config that has run if it names any.
PushConstants ==
    /\ UIDs # {} /\ Seed \in Configs /\ NoConfig \notin Configs /\ KnownGood \in {NoConfig, Seed}
    /\ \A c \in Configs : Outcomes[c] \subseteq {"applied", "failed"}

Statuses == {"submitted", "sent", "applying", "applied", "failed", "rollback_started"}
Marks == {"sent", "applied", "failed"}
Lists == UNION {[us -> [status : Marks]] : us \in SUBSET UIDs}
Pushes == [config : Configs, status : Statuses, sent : BOOLEAN, by : {"user", "auto-rollback"}, insts : Lists]
Answers == [config : Configs, status : {"applied", "failed"}]
Tasks == [at : Ats, kind : {"none", "push", "hash", "default"}, config : Configs \cup {NoConfig},
          status : {"none", "applied", "failed"}, target : Configs \cup {NoConfig}, todo : SUBSET UIDs, err : BOOLEAN]

\* A handler and a request know the config they are about.
IsHandling(q) ==
    /\ q \in Tasks
    /\ q.at \in {"merge", "lookup", "send", "mark"} => q.config \in Configs
    /\ q.at = "merge" => q.status # "none"
    /\ q.at \in {"send", "mark"} => q.target \in Configs

IsAsking(q) ==
    /\ q \in Tasks
    /\ q.at \in {"record", "recorded", "send"} \/ (q.at = "guard" /\ q.kind = "hash") => q.target \in Configs

AgentType ==
    /\ live \in SUBSET UIDs /\ offers \in [UIDs -> Seq(Configs)]
    /\ reports \in [UIDs -> Seq(Answers)] /\ last \in [UIDs -> Answers]

TaskType ==
    /\ DOMAIN h = UIDs /\ DOMAIN req = Requests
    /\ (\A u \in UIDs : IsHandling(h[u])) /\ (\A r \in Requests : IsAsking(req[r]))

PushType == hist \in Seq(Pushes) /\ AgentType /\ TaskType /\ activeHash = NoConfig

\* Some instance has reported c as applied.
Works(c) == \E v \in UIDs : <<v, c, "applied">> \in stated

\* u has reported what a says.
Truthful(u, a) == <<u, a.config, a.status>> \in stated

\* A row says of an instance only what that instance has reported.
RowProven(n) ==
    /\ n.status = "applied" => Works(n.config)
    /\ \A u \in DOMAIN n.insts : n.insts[u].status # "sent" => <<u, n.config, n.insts[u].status>> \in stated

AgentProven(u) ==
    <<u, Seed, "applied">> \in stated /\ Truthful(u, last[u]) /\ \A k \in DOMAIN reports[u] : Truthful(u, reports[u][k])

HandlerProven(u) ==
    (h[u].at = "merge" => Truthful(u, h[u])) /\ (h[u].at \in {"send", "mark"} => Works(h[u].target))

ProvenInv ==
    /\ \A u \in UIDs : AgentProven(u) /\ HandlerProven(u)
    /\ \A k \in DOMAIN hist : RowProven(hist[k])
---------------------------------------------------------------------------
(* The history *)

\* The largest element of a set of positions.
LEMMA LatestIs ==
    ASSUME NEW n \in Nat, NEW S \in SUBSET (1 .. n), S # {}
    PROVE  Latest(S) \in S /\ Latest(S) # 0 /\ \A j \in S : j <= Latest(S)
<1> DEFINE D == {n - i : i \in S}
           Less == OpToRel(<, Nat)
<1>1. D \in SUBSET Nat /\ D # {}
  <2>1. \A i \in S : n - i \in Nat
    OBVIOUS
  <2> QED BY <2>1, Zenon
<1>2. \E m \in D : \A d \in D : <<d, m>> \notin Less
  <2>1. IsWellFoundedOn(Less, Nat)
    BY NatLessThanWellFounded, Zenon
  <2> HIDE DEF D, Less
  <2> QED BY <1>1, <2>1, WFMin, Zenon
<1>3. \A m, i \in Nat : m < i => <<m, i>> \in Less
  BY Zenon DEF OpToRel
<1>4. PICK m \in D : \A d \in D : <<d, m>> \notin Less
  BY <1>2, Zenon
<1>5. PICK i \in S : m = n - i
  BY <1>4, Zenon
<1>6. ASSUME NEW j \in S PROVE j <= i
  <2>1. n - j \in D /\ n - j \in Nat /\ m \in Nat /\ j \in 1 .. n /\ i \in 1 .. n
    BY <1>1, <1>4, <1>6
  <2>2. ~ (n - j < m)
    <3> HIDE DEF D, Less
    <3> QED BY <1>3, <1>4, <2>1, Zenon
  <2> QED BY <1>5, <2>1, <2>2
<1>7. Latest(S) = CHOOSE k \in S : \A j \in S : j <= k
  BY Zenon DEF Latest
<1>8. Latest(S) \in S /\ \A j \in S : j <= Latest(S)
  BY <1>6, <1>7, Zenon
<1> QED BY <1>8

\* The latest row of a config is a row of it.
LEMMA LatestOfIs ==
    ASSUME PushType, NEW c, LatestOf(c) # 0
    PROVE  LatestOf(c) \in DOMAIN hist /\ hist[LatestOf(c)].config = c
<1> DEFINE S == {i \in DOMAIN hist : hist[i].config = c}
<1>1. Len(hist) \in Nat /\ S \in SUBSET (1 .. Len(hist))
  BY DEF PushType
<1>2. S # {} /\ LatestOf(c) = Latest(S)
  BY Zenon DEF LatestOf, Latest
<1> HIDE DEF S
<1>3. LatestOf(c) \in S
  BY <1>1, <1>2, LatestIs, Zenon
<1> QED BY <1>3, Zenon DEF S

\* A statement that adds the row n, or writes it in the place of another one of
\* the same config.
Writes(n) ==
    /\ hist' \in Seq(Pushes) /\ n \in Pushes /\ DOMAIN hist \subseteq DOMAIN hist'
    /\ \A k \in DOMAIN hist : hist'[k].config = hist[k].config
    /\ \A k \in DOMAIN hist' : hist'[k] = n \/ (k \in DOMAIN hist /\ hist'[k] = hist[k])

\* A row is written in the place of another one of its config, ...
LEMMA WriteRow ==
    ASSUME PushType, NEW k \in DOMAIN hist, NEW n \in Pushes, n.config = hist[k].config, hist' = [hist EXCEPT ![k] = n]
    PROVE  Writes(n)
<1>1. hist \in Seq(Pushes) /\ k \in 1 .. Len(hist) /\ DOMAIN hist = 1 .. Len(hist)
  BY DEF PushType
<1>2. hist' \in Seq(Pushes) /\ DOMAIN hist' = DOMAIN hist
  BY <1>1
<1>3. hist'[k] = n /\ \A j \in DOMAIN hist : j # k => hist'[j] = hist[j]
  BY <1>1
<1> QED BY <1>2, <1>3, Zenon DEF Writes

\* ... or added.
LEMMA AddRow == ASSUME PushType, NEW n \in Pushes, hist' = Append(hist, n) PROVE Writes(n)
<1>1. hist \in Seq(Pushes) /\ DOMAIN hist = 1 .. Len(hist)
  BY DEF PushType
<1>2. hist' \in Seq(Pushes) /\ DOMAIN hist' = 1 .. Len(hist) + 1 /\ hist'[Len(hist) + 1] = n
      /\ \A j \in DOMAIN hist : hist'[j] = hist[j]
  BY <1>1
<1> QED BY <1>1, <1>2 DEF Writes

\* UpdateWorkloadConfigStatus writes the status of one row of the config.
LEMMA StatusIsWritten ==
    ASSUME PushType, NEW c, NEW s \in Statuses, UpdateWorkloadConfigStatus(c, s)
    PROVE  UNCHANGED hist \/ \E k \in DOMAIN hist : hist[k].config = c /\ Writes([hist[k] EXCEPT !.status = s])
<1> SUFFICES ASSUME LatestOf(c) # 0
             PROVE  \E k \in DOMAIN hist : hist[k].config = c /\ Writes([hist[k] EXCEPT !.status = s])
  BY Zenon DEF UpdateWorkloadConfigStatus
<1>1. PICK k : k = LatestOf(c)
  BY Zenon
<1>2. k \in DOMAIN hist /\ hist[k].config = c /\ hist' = [hist EXCEPT ![k].status = s]
  BY <1>1, LatestOfIs, Zenon DEF UpdateWorkloadConfigStatus
<1>3. hist[k] \in Pushes /\ hist' = [hist EXCEPT ![k] = [hist[k] EXCEPT !.status = s]]
  BY <1>2 DEF PushType
<1>4. [hist[k] EXCEPT !.status = s] \in Pushes /\ [hist[k] EXCEPT !.status = s].config = hist[k].config
  BY <1>3 DEF Pushes
<1> QED BY <1>2, <1>3, <1>4, WriteRow, Zenon

\* MarkWorkloadConfigSent marks one row of the config as sent.
LEMMA SentIsWritten ==
    ASSUME PushType, NEW c, MarkWorkloadConfigSent(c)
    PROVE  \/ UNCHANGED hist
           \/ \E k \in DOMAIN hist : hist[k].config = c /\ Writes([hist[k] EXCEPT !.status = "sent", !.sent = TRUE])
<1> SUFFICES ASSUME LatestOf(c) # 0
             PROVE  \E k \in DOMAIN hist :
                        hist[k].config = c /\ Writes([hist[k] EXCEPT !.status = "sent", !.sent = TRUE])
  BY Zenon DEF MarkWorkloadConfigSent
<1>1. PICK k : k = LatestOf(c)
  BY Zenon
<1>2. /\ k \in DOMAIN hist /\ hist[k].config = c
      /\ hist' = [hist EXCEPT ![k] = [hist[k] EXCEPT !.status = "sent", !.sent = TRUE]]
  BY <1>1, LatestOfIs, Zenon DEF MarkWorkloadConfigSent
<1> DEFINE n == [hist[k] EXCEPT !.status = "sent", !.sent = TRUE]
<1>3. hist[k] \in Pushes
  BY <1>2 DEF PushType
<1>4. n \in Pushes /\ n.config = hist[k].config
  BY <1>3 DEF Pushes, Statuses
<1> QED BY <1>2, <1>3, <1>4, WriteRow, Zenon

\* What the status of a row says of its instances.
LEMMA DerivedIs ==
    ASSUME NEW is \in Lists, NEW sent, NEW s \in Statuses
    PROVE  LET d == DerivedStatus(is, sent, s) IN
           /\ d \in Statuses
           /\ d = "applied" /\ s # "applied" => \E u \in DOMAIN is : is[u].status = "applied"
           /\ d = "applying" /\ s # "applying" => \E u \in DOMAIN is : is[u].status = "applied"
           /\ d = "failed" /\ s # "failed" => \E u \in DOMAIN is : is[u].status = "failed"
<1>1. canonicalPushStatus(s) = s
  BY Zenon DEF canonicalPushStatus, Statuses
<1>2. \A u \in DOMAIN is : is[u].status \in Marks
  BY DEF Lists
<1>3. \A u \in DOMAIN is : is[u].status # "applying"
  BY <1>2, Zenon DEF Marks
<1>5. With(is, {"failed"}) # {} => \E u \in DOMAIN is : is[u].status = "failed"
  BY Zenon DEF With
<1>6. DOMAIN is # {} /\ With(is, {"applied"}) = DOMAIN is => \E u \in DOMAIN is : is[u].status = "applied"
  BY Zenon DEF With
<1>7. With(is, {"applying", "applied"}) # {} => \E u \in DOMAIN is : is[u].status = "applied"
  BY <1>3, Zenon DEF With
<1> DEFINE d == DerivedStatus(is, sent, s)
<1>8. CASE DOMAIN is = {}
  BY <1>1, <1>8, Zenon DEF DerivedStatus
<1>9. CASE DOMAIN is # {} /\ With(is, {"failed"}) # {}
  <2>1. d = "failed"
    BY <1>9, Zenon DEF DerivedStatus
  <2> QED BY <1>5, <1>9, <2>1, Zenon DEF Statuses
<1>10. CASE DOMAIN is # {} /\ With(is, {"failed"}) = {} /\ With(is, {"applied"}) = DOMAIN is
  <2>1. d = "applied"
    BY <1>10, Zenon DEF DerivedStatus
  <2> QED BY <1>6, <1>10, <2>1, Zenon DEF Statuses
<1>11. CASE /\ DOMAIN is # {} /\ With(is, {"failed"}) = {} /\ With(is, {"applied"}) # DOMAIN is
            /\ With(is, {"applying", "applied"}) # {}
  <2>1. d = "applying"
    BY <1>11, Zenon DEF DerivedStatus
  <2> QED BY <1>7, <1>11, <2>1, Zenon DEF Statuses
<1>12. CASE /\ DOMAIN is # {} /\ With(is, {"failed"}) = {} /\ With(is, {"applied"}) # DOMAIN is
            /\ With(is, {"applying", "applied"}) = {}
  <2>1. d = "sent" \/ d = s
    BY <1>1, <1>12, Zenon DEF DerivedStatus
  <2> QED BY <2>1, Zenon DEF Statuses
<1> QED BY <1>8, <1>9, <1>10, <1>11, <1>12, Zenon

\* The row of k with the status that u has reported.
Credits(n, k, u, s) ==
    /\ n.config = hist[k].config /\ DOMAIN n.insts = DOMAIN hist[k].insts \cup {u} /\ n.insts[u].status = s
    /\ \A v \in DOMAIN hist[k].insts : v # u => n.insts[v] = hist[k].insts[v]
    /\ n.status = "applied" /\ hist[k].status # "applied" => \E v \in DOMAIN n.insts : n.insts[v].status = "applied"
    /\ n.status = "applying" /\ hist[k].status # "applying" => \E v \in DOMAIN n.insts : n.insts[v].status = "applied"
    /\ n.status = "failed" /\ hist[k].status # "failed" => \E v \in DOMAIN n.insts : n.insts[v].status = "failed"

\* One row of c, if there is one, has the status that u has reported.
IsMerged(c, u, s) ==
    UNCHANGED hist \/ \E k \in DOMAIN hist, n \in Pushes : hist[k].config = c /\ Credits(n, k, u, s) /\ Writes(n)

\* UpdateWorkloadConfigInstanceStatus writes what u has reported into one row.
LEMMA MergeIsWritten ==
    ASSUME PushType, NEW c, NEW u \in UIDs, NEW s \in {"applied", "failed"}, UpdateWorkloadConfigInstanceStatus(c, u, s)
    PROVE  IsMerged(c, u, s)
<1> SUFFICES ASSUME LatestOf(c) # 0
             PROVE  \E k \in DOMAIN hist, n \in Pushes : hist[k].config = c /\ Credits(n, k, u, s) /\ Writes(n)
  BY Zenon DEF UpdateWorkloadConfigInstanceStatus, IsMerged
<1>1. PICK k : k = LatestOf(c)
  BY Zenon
<1>2. k \in DOMAIN hist /\ hist[k].config = c
  BY <1>1, LatestOfIs, Zenon
<1>3. hist[k] \in Pushes
  BY <1>2 DEF PushType
<1> DEFINE is == [v \in DOMAIN hist[k].insts \cup {u} |-> IF v = u THEN [status |-> s] ELSE hist[k].insts[v]]
           d == DerivedStatus(is, hist[k].sent, hist[k].status)
           n == [hist[k] EXCEPT !.insts = is, !.status = d]
<1>4. hist' = [hist EXCEPT ![k] = n]
  BY <1>1, Zenon DEF UpdateWorkloadConfigInstanceStatus
<1>5. is \in Lists /\ DOMAIN is = DOMAIN hist[k].insts \cup {u} /\ is[u].status = s
      /\ \A v \in DOMAIN hist[k].insts : v # u => is[v] = hist[k].insts[v]
  <2>1. PICK us \in SUBSET UIDs : hist[k].insts \in [us -> [status : Marks]]
    BY <1>3, Zenon DEF Pushes, Lists
  <2>2. DOMAIN is = us \cup {u} /\ us \cup {u} \in SUBSET UIDs
    BY <2>1, Zenon
  <2>3. \A v \in us \cup {u} : is[v] \in [status : Marks]
    BY <2>1 DEF Marks
  <2>4. is \in [us \cup {u} -> [status : Marks]]
    BY <2>2, <2>3, Zenon
  <2>5. is \in Lists
    BY <2>2, <2>4, Zenon DEF Lists
  <2> QED BY <2>1, <2>5, Zenon
<1> HIDE DEF is
<1>6. /\ d \in Statuses
      /\ d = "applied" /\ hist[k].status # "applied" => \E v \in DOMAIN is : is[v].status = "applied"
      /\ d = "applying" /\ hist[k].status # "applying" => \E v \in DOMAIN is : is[v].status = "applied"
      /\ d = "failed" /\ hist[k].status # "failed" => \E v \in DOMAIN is : is[v].status = "failed"
  <2>1. hist[k].status \in Statuses
    BY <1>3, Zenon DEF Pushes
  <2> QED BY <1>5, <2>1, DerivedIs, Zenon
<1> HIDE DEF d
<1>7. n \in Pushes /\ n.config = hist[k].config /\ n.insts = is /\ n.status = d
  BY <1>3, <1>5, <1>6, Zenon DEF Pushes
<1> HIDE DEF n
<1>8. Writes(n)
  BY <1>2, <1>4, <1>7, WriteRow, Zenon
<1>9. Credits(n, k, u, s)
  BY <1>5, <1>6, <1>7, Zenon DEF Credits
<1> QED BY <1>2, <1>7, <1>8, <1>9, Zenon

\* RecordWorkloadConfig adds a row.
LEMMA RecordIsWritten ==
    ASSUME PushType, NEW c \in Configs, NEW s \in Statuses, NEW by \in {"user", "auto-rollback"},
           RecordWorkloadConfig(c, s, by)
    PROVE  Writes(Row(c, s, by, live))
<1>1. live \in SUBSET UIDs
  BY Zenon DEF PushType, AgentType
<1>2. [u \in live |-> [status |-> "sent"]] \in Lists
  BY <1>1 DEF Lists, Marks
<1>3. Row(c, s, by, live) \in Pushes
  BY <1>2 DEF Row, Pushes
<1> QED BY <1>3, AddRow, Zenon DEF RecordWorkloadConfig
---------------------------------------------------------------------------
(* The handlers and the requests *)

\* A goroutine that waits for its next message or request.
LEMMA IdleTask == Idle \in Tasks /\ IsHandling(Idle) /\ IsAsking(Idle) /\ Idle.at = "idle" /\ Idle.err = FALSE
<1>1. Idle \in Tasks
  BY DEF Idle, Tasks, Ats
<1>2. Idle.at = "idle" /\ Idle.err = FALSE
  BY DEF Idle
<1> QED BY <1>1, <1>2, Zenon DEF IsHandling, IsAsking

\* The start of a push, and what is left of it after one of its sends.
LEMMA PushTask ==
    ASSUME PushType, NEW p \in Tasks, NEW t \in Configs
    PROVE  /\ PushConfig(p, t) \in Tasks /\ PushConfig(p, t).at = "send" /\ PushConfig(p, t).target = t
           /\ PushConfig(p, t).config = p.config /\ (live # {} => PushConfig(p, t).err = FALSE)
<1>1. live \in SUBSET UIDs /\ (live = {}) \in BOOLEAN
  BY Zenon DEF PushType, AgentType
<1>2. PushConfig(p, t) \in Tasks
  BY <1>1 DEF PushConfig, Tasks, Ats
<1>3. /\ PushConfig(p, t).at = "send" /\ PushConfig(p, t).target = t
      /\ PushConfig(p, t).config = p.config /\ (live # {} => PushConfig(p, t).err = FALSE)
  BY DEF PushConfig, Tasks
<1> QED BY <1>2, <1>3, Zenon

\* A send fails only when the instance has left.
LEMMA SentTask ==
    ASSUME PushType, NEW p \in Tasks, NEW u \in UIDs
    PROVE  /\ AfterSend(p, u) \in Tasks /\ AfterSend(p, u).at = p.at /\ AfterSend(p, u).target = p.target
           /\ AfterSend(p, u).config = p.config /\ (u \in live => AfterSend(p, u).err = p.err)
<1>1. AfterSend(p, u) \in Tasks
  BY DEF AfterSend, Tasks
<1>2. /\ AfterSend(p, u).at = p.at /\ AfterSend(p, u).target = p.target
      /\ AfterSend(p, u).config = p.config /\ (u \in live => AfterSend(p, u).err = p.err)
  BY DEF AfterSend, Tasks
<1> QED BY <1>1, <1>2, Zenon

\* A step of a handler, and of a request.
Turns(u, q) == DOMAIN h' = UIDs /\ h'[u] = q /\ (\A v \in UIDs : v # u => h'[v] = h[v]) /\ UNCHANGED req
Moves(r, q) == DOMAIN req' = Requests /\ req'[r] = q /\ (\A s \in Requests : s # r => req'[s] = req[s]) /\ UNCHANGED h

\* A step of the handler of u changes that handler only, ...
LEMMA HandlerTurns == ASSUME PushType, NEW u \in UIDs, NEW f, NEW q, HStep(u, f, q), UNCHANGED req PROVE Turns(u, q)
BY Zenon DEF PushType, TaskType, HStep, Turns

\* ... and a step of a request that request only.
LEMMA RequestMoves == ASSUME PushType, NEW r \in Requests, NEW f, NEW q, ReqStep(r, f, q), UNCHANGED h PROVE Moves(r, q)
BY Zenon DEF PushType, TaskType, ReqStep, Moves

\* A handler that knows its config keeps the types, ...
LEMMA TurnKeepsTypes == ASSUME PushType, NEW u \in UIDs, NEW q, IsHandling(q), Turns(u, q) PROVE TaskType'
<1>1. \A v \in UIDs : IsHandling(h'[v])
  BY Zenon DEF Turns, PushType, TaskType
<1> QED BY <1>1, Zenon DEF Turns, PushType, TaskType

\* ... and so does a request.
LEMMA MoveKeepsTypes == ASSUME PushType, NEW r \in Requests, NEW q, IsAsking(q), Moves(r, q) PROVE TaskType'
<1>1. \A v \in Requests : IsAsking(req'[v])
  BY Zenon DEF Moves, PushType, TaskType
<1> QED BY <1>1, Zenon DEF Moves, PushType, TaskType

\* The types of the agents, where they do nothing, ...
LEMMA SameAgents == ASSUME PushType, UNCHANGED agentVars PROVE AgentType'
BY Zenon DEF PushType, AgentType, agentVars

\* ... and where one is sent an offer.
LEMMA SendKeepsAgents ==
    ASSUME PushType, NEW p, p.target \in Configs, NEW u \in UIDs, sendToInstance(p, u),
           UNCHANGED <<live, reports, last>>
    PROVE  AgentType'
<1>1. offers \in [UIDs -> Seq(Configs)]
  BY Zenon DEF PushType, AgentType
<1>2. offers' \in [UIDs -> Seq(Configs)]
  <2>1. Append(offers[u], p.target) \in Seq(Configs)
    BY <1>1
  <2> QED BY <1>1, <2>1, Zenon DEF sendToInstance
<1> QED BY <1>2, Zenon DEF PushType, AgentType
---------------------------------------------------------------------------
(* What a step may do *)

\* u has sent the status s of c, and no handler has taken it yet.
OnTheWire(u, c, s) == \E k \in DOMAIN reports[u] : reports[u][k].config = c /\ reports[u][k].status = s

\* A row is written when a push is recorded, ...
IsNewRow(n) == n.status \in {"submitted", "rollback_started"} /\ \A u \in DOMAIN n.insts : n.insts[u].status = "sent"

\* ... when it was sent, or a send has failed, or a report comes in, ...
IsRestated(n) ==
    /\ \E k \in DOMAIN hist : n.config = hist[k].config /\ n.insts = hist[k].insts
    /\ \/ n.status = "sent"
       \/ n.status = "failed" /\ \E r \in Requests : req[r].err
       \/ \E u \in UIDs : OnTheWire(u, n.config, n.status)

\* ... and when that report is merged into its list.
IsCredited(n) ==
    \E k \in DOMAIN hist, u \in UIDs :
        h[u].at = "merge" /\ n.config = h[u].config /\ Credits(n, k, u, h[u].status)

HistStep == UNCHANGED hist \/ \E n \in Pushes : Writes(n) /\ (IsNewRow(n) \/ IsRestated(n) \/ IsCredited(n))

\* A push by a handler goes to a config that works.  As long as every instance
\* is connected no send fails.
IsSound(u, q) ==
    /\ IsHandling(q)
    /\ q.at = "merge" => OnTheWire(u, q.config, q.status)
    /\ q.at \in {"send", "mark"} => Works(q.target)

TaskStep ==
    \/ UNCHANGED <<h, req>>
    \/ \E u \in UIDs, q \in Tasks :
          Turns(u, q) /\ IsSound(u, q) /\ (live = UIDs /\ h[u].err = FALSE => q.err = FALSE)
    \/ \E r \in Requests, q \in Tasks :
          Moves(r, q) /\ IsAsking(q) /\ (live = UIDs /\ req[r].err = FALSE => q.err = FALSE)

\* What the agents say is what they have done.
AgentStep ==
    /\ stated \subseteq stated' /\ (live = UIDs /\ MayLeave = FALSE => live' = UIDs)
    /\ \A u \in UIDs :
        /\ last'[u] = last[u] \/ Truthful(u, last[u])'
        /\ \A k \in DOMAIN reports'[u] :
              reports'[u][k] = last'[u] \/ \E j \in DOMAIN reports[u] : reports'[u][k] = reports[u][j]
        /\ \A c, s : <<u, c, s>> \in stated' =>
              <<u, c, s>> \in stated \/ (last'[u].config = c /\ last'[u].status = s)

IsStep == PushType' /\ HistStep /\ TaskStep /\ AgentStep

\* A step that leaves the history alone, ...
LEMMA SameHistory == ASSUME UNCHANGED hist PROVE HistStep
BY Zenon DEF HistStep

\* ... and one that leaves the agents alone.
LEMMA SameReports == ASSUME UNCHANGED <<last, reports, stated, live>> PROVE AgentStep
BY Zenon DEF AgentStep

\* A step of a handler is of the kind IsStep describes, from its parts.
LEMMA HandlerSteps ==
    ASSUME PushType, HistStep, hist' \in Seq(Pushes), AgentStep, AgentType', UNCHANGED activeHash,
           NEW u \in UIDs, NEW f, NEW q, HStep(u, f, q), UNCHANGED req, IsSound(u, q),
           live = UIDs /\ h[u].err = FALSE => q.err = FALSE
    PROVE  IsStep
<1>1. Turns(u, q) /\ IsHandling(q) /\ q \in Tasks
  BY HandlerTurns, Zenon DEF IsSound, IsHandling
<1>2. TaskType'
  BY <1>1, TurnKeepsTypes, Zenon
<1>3. PushType'
  BY <1>2, Zenon DEF PushType
<1> QED BY <1>1, <1>3, Zenon DEF IsStep, TaskStep

\* A step of a request is, from its parts.
LEMMA RequestSteps ==
    ASSUME PushType, HistStep, hist' \in Seq(Pushes), AgentStep, AgentType', UNCHANGED activeHash,
           NEW r \in Requests, NEW f, NEW q, ReqStep(r, f, q), UNCHANGED h, IsAsking(q),
           live = UIDs /\ req[r].err = FALSE => q.err = FALSE
    PROVE  IsStep
<1>1. Moves(r, q) /\ q \in Tasks
  BY RequestMoves, Zenon DEF IsAsking
<1>2. TaskType'
  BY <1>1, MoveKeepsTypes, Zenon
<1>3. PushType'
  BY <1>2, Zenon DEF PushType
<1> QED BY <1>1, <1>3, Zenon DEF IsStep, TaskStep

\* handleRemoteConfigStatus takes the oldest report and restates the latest row
\* of its config.
LEMMA StepsHandle == ASSUME PushType, NEW u \in UIDs, handleRemoteConfigStatus(u) PROVE IsStep
<1> DEFINE rep == Head(reports[u])
           q == [Idle EXCEPT !.at = "merge", !.config = rep.config, !.status = rep.status]
<1>1. /\ HStep(u, "idle", q) /\ UpdateWorkloadConfigStatus(rep.config, rep.status)
      /\ reports' = [reports EXCEPT ![u] = Tail(@)] /\ reports[u] # <<>>
      /\ UNCHANGED <<live, offers, last, req, stated, activeHash>>
  BY Zenon DEF handleRemoteConfigStatus, activeVars
<1>2. reports \in [UIDs -> Seq(Answers)] /\ reports[u] \in Seq(Answers)
  BY Zenon DEF PushType, AgentType
<1>3. rep \in Answers /\ 1 \in DOMAIN reports[u] /\ rep = reports[u][1] /\ Tail(reports[u]) \in Seq(Answers)
  BY <1>1, <1>2
<1>4. rep.config \in Configs /\ rep.status \in {"applied", "failed"}
  BY <1>3, Zenon DEF Answers
<1>5. OnTheWire(u, rep.config, rep.status)
  BY <1>3, Zenon DEF OnTheWire
<1>6. \A k \in DOMAIN Tail(reports[u]) : \E j \in DOMAIN reports[u] : Tail(reports[u])[k] = reports[u][j]
  <2> SUFFICES ASSUME NEW k \in DOMAIN Tail(reports[u])
               PROVE  k + 1 \in DOMAIN reports[u] /\ Tail(reports[u])[k] = reports[u][k + 1]
    BY Zenon
  <2> HIDE DEF rep
  <2> QED BY <1>1, <1>2
<1> HIDE DEF rep
<1>7. q \in Tasks /\ q.at = "merge" /\ q.config = rep.config /\ q.status = rep.status /\ q.err = FALSE
  BY <1>4 DEF Idle, Tasks, Ats
<1> HIDE DEF q
<1>8. IsSound(u, q)
  BY <1>4, <1>5, <1>7 DEF IsSound, IsHandling
<1>9. HistStep /\ hist' \in Seq(Pushes)
  <2>1. rep.status \in Statuses
    BY <1>4 DEF Statuses
  <2>2. \/ UNCHANGED hist
        \/ \E k \in DOMAIN hist : hist[k].config = rep.config /\ Writes([hist[k] EXCEPT !.status = rep.status])
    BY <1>1, <2>1, StatusIsWritten, Zenon
  <2>3. CASE UNCHANGED hist
    BY <2>3, Zenon DEF HistStep, PushType
  <2>4. CASE \E k \in DOMAIN hist : hist[k].config = rep.config /\ Writes([hist[k] EXCEPT !.status = rep.status])
    <3>1. PICK k \in DOMAIN hist : hist[k].config = rep.config /\ Writes([hist[k] EXCEPT !.status = rep.status])
      BY <2>4, Zenon
    <3> DEFINE n == [hist[k] EXCEPT !.status = rep.status]
    <3>2. hist[k] \in Pushes
      BY <3>1 DEF PushType
    <3>3. n.config = hist[k].config /\ n.insts = hist[k].insts /\ n.status = rep.status
      BY <3>2 DEF Pushes
    <3>4. Writes(n)
      BY <3>1, Zenon
    <3> HIDE DEF n
    <3>5. n \in Pushes /\ hist' \in Seq(Pushes)
      BY <3>4, Zenon DEF Writes
    <3>6. IsRestated(n)
      BY <1>5, <3>1, <3>3, Zenon DEF IsRestated
    <3> QED BY <3>4, <3>5, <3>6, Zenon DEF HistStep
  <2> QED BY <2>2, <2>3, <2>4, Zenon
<1>10. /\ reports' \in [UIDs -> Seq(Answers)] /\ reports'[u] = Tail(reports[u])
       /\ \A v \in UIDs : v # u => reports'[v] = reports[v]
  BY <1>1, <1>2, <1>3, Zenon
<1>11. AgentType'
  BY <1>1, <1>10, Zenon DEF PushType, AgentType
<1>12. AgentStep
  <2>1. ASSUME NEW v \in UIDs, NEW k \in DOMAIN reports'[v]
        PROVE  \E j \in DOMAIN reports[v] : reports'[v][k] = reports[v][j]
    BY <1>6, <1>10, <2>1, ZenonT(30)
  <2> QED BY <1>1, <2>1, Zenon DEF AgentStep
<1> QED BY <1>1, <1>7, <1>8, <1>9, <1>11, <1>12, HandlerSteps, Zenon

\* MergeStatus credits the instance in that row.
LEMMA StepsMerge == ASSUME PushType, NEW u \in UIDs, MergeStatus(u) PROVE IsStep
<1> DEFINE q == IF h[u].status = "failed" THEN [h[u] EXCEPT !.at = "lookup"] ELSE Idle
<1>1. /\ HStep(u, "merge", q) /\ UpdateWorkloadConfigInstanceStatus(h[u].config, u, h[u].status) /\ h[u].at = "merge"
      /\ UNCHANGED <<agentVars, req, stated, activeHash>>
  BY Zenon DEF MergeStatus, activeVars, HStep
<1>2. h[u] \in Tasks /\ h[u].config \in Configs /\ h[u].status \in {"applied", "failed"}
  <2>1. IsHandling(h[u])
    BY Zenon DEF PushType, TaskType
  <2> QED BY <1>1, <2>1 DEF IsHandling, Tasks
<1>3. IsSound(u, q) /\ (h[u].err = FALSE => q.err = FALSE)
  <2>1. CASE h[u].status = "failed"
    <3> DEFINE p == [h[u] EXCEPT !.at = "lookup"]
    <3>1. p \in Tasks /\ p.at = "lookup" /\ p.config = h[u].config /\ p.err = h[u].err
      BY <1>2 DEF Tasks, Ats
    <3> HIDE DEF p
    <3>2. IsSound(u, p) /\ (h[u].err = FALSE => p.err = FALSE)
      BY <1>2, <3>1 DEF IsSound, IsHandling
    <3> QED BY <2>1, <3>2, Zenon DEF p
  <2>2. CASE h[u].status # "failed"
    <3>1. IsSound(u, Idle) /\ Idle.err = FALSE
      BY IdleTask, Zenon DEF IsSound
    <3> QED BY <2>2, <3>1, Zenon
  <2> QED BY <2>1, <2>2, Zenon
<1> HIDE DEF q
<1>4. HistStep /\ hist' \in Seq(Pushes)
  <2>1. \/ UNCHANGED hist
        \/ \E k \in DOMAIN hist, n \in Pushes :
              hist[k].config = h[u].config /\ Credits(n, k, u, h[u].status) /\ Writes(n)
    <3>1. PICK c, s : c = h[u].config /\ s = h[u].status
      BY Zenon
    <3>2. UpdateWorkloadConfigInstanceStatus(c, u, s) /\ s \in {"applied", "failed"}
      BY <1>1, <1>2, <3>1, Zenon
    <3>3. IsMerged(c, u, s)
      BY <3>2, MergeIsWritten, Zenon
    <3> QED BY <3>1, <3>3, Zenon DEF IsMerged
  <2>2. CASE UNCHANGED hist
    BY <2>2, Zenon DEF HistStep, PushType
  <2>3. CASE \E k \in DOMAIN hist, n \in Pushes :
             hist[k].config = h[u].config /\ Credits(n, k, u, h[u].status) /\ Writes(n)
    <3>1. PICK k \in DOMAIN hist, n \in Pushes :
               hist[k].config = h[u].config /\ Credits(n, k, u, h[u].status) /\ Writes(n)
      BY <2>3, Zenon
    <3>2. IsCredited(n)
      BY <1>1, <3>1, Zenon DEF IsCredited, Credits
    <3> QED BY <3>1, <3>2, Zenon DEF HistStep, Writes
  <2> QED BY <2>1, <2>2, <2>3, Zenon
<1>5. AgentStep /\ AgentType'
  BY <1>1, SameAgents, SameReports, Zenon DEF agentVars
<1> QED BY <1>1, <1>3, <1>4, <1>5, HandlerSteps, Zenon

\* The target of an automatic rollback is a config that works: the known-good
\* one, or that of an applied row.
LEMMA TargetWorks ==
    ASSUME PushConstants, PushType, ProvenInv, NEW x, GetRollbackTarget(x) # NoConfig
    PROVE  GetRollbackTarget(x) \in Configs /\ Works(GetRollbackTarget(x))
<1>1. CASE KnownGood # NoConfig /\ LatestOf(KnownGood) # 0
  <2>1. GetRollbackTarget(x) = KnownGood /\ KnownGood = Seed /\ Seed \in Configs
    BY <1>1, Zenon DEF GetRollbackTarget, PushConstants
  <2>2. Works(Seed)
    BY Zenon DEF Works, ProvenInv, AgentProven, PushConstants
  <2> QED BY <2>1, <2>2, Zenon
<1>2. CASE ~ (KnownGood # NoConfig /\ LatestOf(KnownGood) # 0)
  <2> DEFINE S == {i \in DOMAIN hist : hist[i].status = "applied" /\ hist[i].config # x}
  <2>1. PICK i : i = GetPreviousAppliedWorkloadConfig(x)
    BY Zenon
  <2>2. i # 0 /\ GetRollbackTarget(x) = hist[i].config
    BY <1>2, <2>1, Zenon DEF GetRollbackTarget
  <2>3. Len(hist) \in Nat /\ S \in SUBSET (1 .. Len(hist))
    BY DEF PushType
  <2>4. S # {} /\ i = Latest(S)
    BY <2>1, <2>2, Zenon DEF GetPreviousAppliedWorkloadConfig, Latest
  <2> HIDE DEF S
  <2>5. i \in S
    BY <2>3, <2>4, LatestIs, Zenon
  <2>6. i \in DOMAIN hist /\ hist[i].status = "applied"
    BY <2>5, Zenon DEF S
  <2>7. hist[i] \in Pushes
    BY <2>6 DEF PushType
  <2>8. hist[i].config \in Configs /\ Works(hist[i].config)
    BY <2>6, <2>7, Zenon DEF Pushes, ProvenInv, RowProven
  <2> QED BY <2>2, <2>8, Zenon
<1> QED BY <1>1, <1>2, Zenon

\* attemptAutoRollback resolves the target of a rollback.
LEMMA StepsLookup == ASSUME PushConstants, PushType, ProvenInv, NEW u \in UIDs, attemptAutoRollback(u) PROVE IsStep
<1>1. PICK t : t = GetRollbackTarget(h[u].config)
  BY Zenon
<1> DEFINE q == IF t \in {NoConfig, h[u].config} THEN Idle ELSE PushConfig(h[u], t)
<1>2. HStep(u, "lookup", q) /\ UNCHANGED <<hist, agentVars, req, stated, activeHash>> /\ h[u].at = "lookup"
  BY <1>1, Zenon DEF attemptAutoRollback, activeVars, HStep
<1>3. h[u] \in Tasks /\ h[u].config \in Configs
  BY <1>2, Zenon DEF PushType, TaskType, IsHandling
<1>4. IsSound(u, q) /\ (live = UIDs /\ h[u].err = FALSE => q.err = FALSE)
  <2>1. CASE t \in {NoConfig, h[u].config}
    <3>1. IsSound(u, Idle) /\ Idle.err = FALSE
      BY IdleTask, Zenon DEF IsSound
    <3> QED BY <2>1, <3>1, Zenon
  <2>2. CASE t \notin {NoConfig, h[u].config}
    <3>1. t \in Configs /\ Works(t)
      BY <1>1, <2>2, TargetWorks, Zenon
    <3> DEFINE p == PushConfig(h[u], t)
    <3>2. p \in Tasks /\ p.at = "send" /\ p.target = t /\ p.config = h[u].config /\ (live # {} => p.err = FALSE)
      BY <1>3, <3>1, PushTask, Zenon
    <3> HIDE DEF p
    <3>3. IsSound(u, p)
      BY <1>3, <3>1, <3>2, Zenon DEF IsSound, IsHandling
    <3>4. live = UIDs => p.err = FALSE
      BY <3>2, Zenon DEF PushConstants
    <3> QED BY <2>2, <3>3, <3>4, Zenon DEF p
  <2> QED BY <2>1, <2>2, Zenon
<1> HIDE DEF q
<1>5. AgentStep /\ AgentType'
  BY <1>2, SameAgents, SameReports, Zenon DEF agentVars
<1>6. HistStep /\ hist' \in Seq(Pushes)
  BY <1>2, SameHistory, Zenon DEF PushType
<1> QED BY <1>2, <1>4, <1>5, <1>6, HandlerSteps, Zenon

\* SendRollback offers the target to an instance.
LEMMA StepsRollback ==
    ASSUME PushConstants, PushType, ProvenInv, NEW u \in UIDs, NEW v \in UIDs, SendRollback(u, v)
    PROVE  IsStep
<1> DEFINE q == AfterSend(h[u], v)
<1>1. /\ HStep(u, "send", q) /\ sendToInstance(h[u], v) /\ h[u].at = "send"
      /\ UNCHANGED <<hist, live, reports, last, req, stated, activeHash>>
  BY Zenon DEF SendRollback, activeVars, HStep
<1>2. IsHandling(h[u]) /\ h[u] \in Tasks /\ h[u].config \in Configs /\ h[u].target \in Configs /\ Works(h[u].target)
  BY <1>1, Zenon DEF PushType, TaskType, IsHandling, ProvenInv, HandlerProven
<1>3. /\ q \in Tasks /\ q.at = "send" /\ q.target = h[u].target /\ q.config = h[u].config
      /\ (v \in live => q.err = h[u].err)
  BY <1>1, <1>2, SentTask, Zenon
<1> HIDE DEF q
<1>4. IsSound(u, q) /\ (live = UIDs /\ h[u].err = FALSE => q.err = FALSE)
  BY <1>2, <1>3, Zenon DEF IsSound, IsHandling
<1>5. AgentStep /\ AgentType'
  BY <1>1, <1>2, SendKeepsAgents, SameReports, Zenon
<1>6. HistStep /\ hist' \in Seq(Pushes)
  BY <1>1, SameHistory, Zenon DEF PushType
<1> QED BY <1>1, <1>4, <1>5, <1>6, HandlerSteps, Zenon

\* RecordRollback adds the row of the rollback.
LEMMA StepsRecorded ==
    ASSUME PushConstants, PushType, ProvenInv, NEW u \in UIDs, RecordRollback(u)
    PROVE  IsStep
<1>1. h[u].at = "send" /\ UNCHANGED <<agentVars, req, stated, activeHash>>
  BY Zenon DEF RecordRollback, PushReturns, activeVars
<1>2. IsHandling(h[u]) /\ h[u] \in Tasks /\ h[u].config \in Configs /\ h[u].target \in Configs /\ Works(h[u].target)
  BY <1>1, Zenon DEF PushType, TaskType, IsHandling, ProvenInv, HandlerProven
<1>3. AgentStep /\ AgentType'
  BY <1>1, SameAgents, SameReports, Zenon DEF agentVars
<1>4. CASE h[u].err
  <2>1. HStep(u, "send", Idle) /\ UNCHANGED hist
    BY <1>4, Zenon DEF RecordRollback
  <2>2. IsSound(u, Idle) /\ Idle.err = FALSE
    BY IdleTask, Zenon DEF IsSound
  <2>3. HistStep /\ hist' \in Seq(Pushes)
    BY <2>1, SameHistory, Zenon DEF PushType
  <2> QED BY <1>1, <1>3, <2>1, <2>2, <2>3, HandlerSteps, Zenon
<1>5. CASE ~ h[u].err
  <2> DEFINE q == [h[u] EXCEPT !.at = "mark"]
             n == Row(h[u].target, "rollback_started", "auto-rollback", live)
  <2>1. HStep(u, "send", q) /\ RecordWorkloadConfig(h[u].target, "rollback_started", "auto-rollback")
    BY <1>5, Zenon DEF RecordRollback
  <2>2. q \in Tasks /\ q.at = "mark" /\ q.target = h[u].target /\ q.config = h[u].config /\ q.err = h[u].err
    BY <1>2 DEF Tasks, Ats
  <2> HIDE DEF q
  <2>3. IsSound(u, q) /\ (h[u].err = FALSE => q.err = FALSE)
    BY <1>2, <2>2 DEF IsSound, IsHandling
  <2>4. Writes(n)
    <3>1. PICK t : t = h[u].target
      BY Zenon
    <3>2. "rollback_started" \in Statuses
      BY Zenon DEF Statuses
    <3> QED BY <1>2, <2>1, <3>1, <3>2, RecordIsWritten, Zenon
  <2>5. IsNewRow(n)
    BY Zenon DEF IsNewRow, Row
  <2> HIDE DEF n
  <2>6. HistStep /\ hist' \in Seq(Pushes)
    BY <2>4, <2>5, Zenon DEF HistStep, Writes
  <2> QED BY <1>1, <1>3, <2>1, <2>3, <2>6, HandlerSteps, Zenon
<1> QED BY <1>4, <1>5, Zenon

\* Marking a row as sent.
LEMMA SentIsRestated == ASSUME PushType, NEW c, MarkWorkloadConfigSent(c) PROVE HistStep /\ hist' \in Seq(Pushes)
<1>1. CASE UNCHANGED hist
  BY <1>1, Zenon DEF HistStep, PushType
<1>2. CASE \E k \in DOMAIN hist : hist[k].config = c /\ Writes([hist[k] EXCEPT !.status = "sent", !.sent = TRUE])
  <2>1. PICK k \in DOMAIN hist : Writes([hist[k] EXCEPT !.status = "sent", !.sent = TRUE])
    BY <1>2, Zenon
  <2> DEFINE n == [hist[k] EXCEPT !.status = "sent", !.sent = TRUE]
  <2>2. hist[k] \in Pushes
    BY <2>1 DEF PushType
  <2>3. n.config = hist[k].config /\ n.insts = hist[k].insts /\ n.status = "sent"
    BY <2>2 DEF Pushes
  <2>4. Writes(n)
    BY <2>1, Zenon
  <2> HIDE DEF n
  <2>5. IsRestated(n)
    BY <2>1, <2>3, Zenon DEF IsRestated
  <2> QED BY <2>4, <2>5, Zenon DEF HistStep, Writes
<1> QED BY <1>1, <1>2, SentIsWritten, Zenon

\* MarkRollback ends a rollback.
LEMMA StepsMark == ASSUME PushType, NEW u \in UIDs, MarkRollback(u) PROVE IsStep
<1>1. HStep(u, "mark", Idle) /\ MarkWorkloadConfigSent(h[u].target) /\ UNCHANGED <<agentVars, req, stated, activeHash>>
  BY Zenon DEF MarkRollback, activeVars
<1>2. IsSound(u, Idle) /\ Idle.err = FALSE
  BY IdleTask, Zenon DEF IsSound
<1>3. AgentStep /\ AgentType'
  BY <1>1, SameAgents, SameReports, Zenon DEF agentVars
<1>4. HistStep /\ hist' \in Seq(Pushes)
  <2>1. PICK c : c = h[u].target
    BY Zenon
  <2> QED BY <1>1, <2>1, SentIsRestated, Zenon
<1> QED BY <1>1, <1>2, <1>3, <1>4, HandlerSteps, Zenon

\* A step of the agents is of the kind IsStep describes, from its parts.
LEMMA AgentSteps ==
    ASSUME PushType, UNCHANGED <<hist, h, req, activeHash>>, AgentType', AgentStep PROVE IsStep
BY Zenon DEF IsStep, TaskStep, HistStep, PushType, TaskType

\* An agent applies an offer or rejects it, and reports which.
LEMMA StepsAgent == ASSUME PushConstants, PushType, NEW u \in UIDs, AgentHandles(u) PROVE IsStep
<1> DEFINE c == Head(offers[u])
<1>1. PICK o \in Outcomes[c] :
        /\ last' = [last EXCEPT ![u] = [config |-> c, status |-> o]]
        /\ stated' = stated \cup {<<u, c, o>>}
        /\ reports' = [reports EXCEPT ![u] = Append(@, last'[u])]
  BY Zenon DEF AgentHandles
<1>2. offers' = [offers EXCEPT ![u] = Tail(@)] /\ offers[u] # <<>> /\ UNCHANGED <<hist, live, h, req, activeHash>>
  BY Zenon DEF AgentHandles, activeVars
<1>3. /\ live \in SUBSET UIDs /\ offers \in [UIDs -> Seq(Configs)]
      /\ reports \in [UIDs -> Seq(Answers)] /\ last \in [UIDs -> Answers]
  BY Zenon DEF PushType, AgentType
<1>4. c \in Configs /\ Tail(offers[u]) \in Seq(Configs)
  BY <1>2, <1>3
<1> HIDE DEF c
<1>5. PICK a : a = [config |-> c, status |-> o]
  BY Zenon
<1>6. a \in Answers /\ a.config = c /\ a.status = o
  <2>1. o \in {"applied", "failed"}
    BY <1>4, Zenon DEF PushConstants
  <2> QED BY <1>4, <1>5, <2>1 DEF Answers
<1>7. last'[u] = a /\ last' \in [UIDs -> Answers] /\ \A v \in UIDs : v # u => last'[v] = last[v]
  BY <1>1, <1>3, <1>5, <1>6, Zenon
<1>8. reports[u] \in Seq(Answers) /\ Append(reports[u], a) \in Seq(Answers)
      /\ \A k \in DOMAIN Append(reports[u], a) :
            Append(reports[u], a)[k] = a \/ (k \in DOMAIN reports[u] /\ Append(reports[u], a)[k] = reports[u][k])
  BY <1>3, <1>6
<1>9. /\ reports'[u] = Append(reports[u], a) /\ reports' \in [UIDs -> Seq(Answers)]
      /\ \A v \in UIDs : v # u => reports'[v] = reports[v]
  BY <1>1, <1>3, <1>7, <1>8, Zenon
<1>10. offers' \in [UIDs -> Seq(Configs)]
  BY <1>2, <1>3, <1>4, Zenon
<1>11. AgentType'
  BY <1>2, <1>3, <1>7, <1>9, <1>10, Zenon DEF AgentType
<1>12. AgentStep
  <2>1. stated \subseteq stated'
    BY <1>1, Zenon
  <2>2. Truthful(u, last[u])'
    BY <1>1, <1>6, <1>7, Zenon DEF Truthful
  <2>3. ASSUME NEW v \in UIDs, NEW k \in DOMAIN reports'[v]
        PROVE reports'[v][k] = last'[v] \/ \E j \in DOMAIN reports[v] : reports'[v][k] = reports[v][j]
    BY <1>7, <1>8, <1>9, <2>3, Zenon
  <2>4. ASSUME NEW v \in UIDs, NEW d, NEW s, <<v, d, s>> \in stated', <<v, d, s>> \notin stated
        PROVE last'[v].config = d /\ last'[v].status = s
    <3>1. <<v, d, s>> = <<u, c, o>>
      BY <1>1, <2>4, Zenon
    <3>2. v = u /\ d = c /\ s = o
      BY <3>1
    <3> QED BY <1>6, <1>7, <3>1, <3>2, Zenon
  <2> QED BY <1>2, <1>7, <2>1, <2>2, <2>3, <2>4, Zenon DEF AgentStep
<1> QED BY <1>2, <1>11, <1>12, AgentSteps, Zenon

\* A disconnect loses offers and reports.
LEMMA StepsLeave == ASSUME PushType, NEW u \in UIDs, Disconnect(u) PROVE IsStep
<1>1. /\ MayLeave /\ live' = live \ {u} /\ UNCHANGED <<hist, last, h, req, stated, activeHash>>
      /\ offers' = [offers EXCEPT ![u] = <<>>] /\ reports' = [reports EXCEPT ![u] = <<>>]
  BY Zenon DEF Disconnect, activeVars
<1>2. /\ live \in SUBSET UIDs /\ offers \in [UIDs -> Seq(Configs)]
      /\ reports \in [UIDs -> Seq(Answers)] /\ last \in [UIDs -> Answers]
  BY Zenon DEF PushType, AgentType
<1>3. << >> \in Seq(Answers) /\ << >> \in Seq(Configs) /\ DOMAIN << >> = {}
  OBVIOUS
<1>4. reports' \in [UIDs -> Seq(Answers)] /\ reports'[u] = << >> /\ (\A v \in UIDs : v # u => reports'[v] = reports[v])
      /\ offers' \in [UIDs -> Seq(Configs)]
  BY <1>1, <1>2, <1>3, Zenon
<1>5. AgentType'
  BY <1>1, <1>2, <1>4, Zenon DEF AgentType
<1>6. AgentStep
  <2>1. ASSUME NEW v \in UIDs, NEW k \in DOMAIN reports'[v]
        PROVE  \E j \in DOMAIN reports[v] : reports'[v][k] = reports[v][j]
    <3>1. v # u
      BY <1>3, <1>4, <2>1, Zenon
    <3> QED BY <1>4, <2>1, <3>1, Zenon
  <2> QED BY <1>1, <2>1, Zenon DEF AgentStep
<1> QED BY <1>1, <1>5, <1>6, AgentSteps, Zenon

\* A reconnect repeats the last report.
LEMMA StepsReturn == ASSUME PushType, NEW u \in UIDs, Reconnect(u) PROVE IsStep
<1>1. /\ live' = live \cup {u} /\ UNCHANGED <<hist, offers, last, h, req, stated, activeHash>>
      /\ reports' = [reports EXCEPT ![u] = <<last[u]>>]
  BY Zenon DEF Reconnect
<1>2. /\ live \in SUBSET UIDs /\ offers \in [UIDs -> Seq(Configs)]
      /\ reports \in [UIDs -> Seq(Answers)] /\ last \in [UIDs -> Answers]
  BY Zenon DEF PushType, AgentType
<1>3. <<last[u]>> \in Seq(Answers) /\ \A k \in DOMAIN <<last[u]>> : <<last[u]>>[k] = last[u]
  BY <1>2
<1>4. /\ reports' \in [UIDs -> Seq(Answers)] /\ reports'[u] = <<last[u]>>
      /\ \A v \in UIDs : v # u => reports'[v] = reports[v]
  BY <1>1, <1>2, <1>3, Zenon
<1>5. AgentType'
  BY <1>1, <1>2, <1>4, Zenon DEF AgentType
<1>6. AgentStep
  <2>1. ASSUME NEW v \in UIDs, NEW k \in DOMAIN reports'[v]
        PROVE reports'[v][k] = last'[v] \/ \E j \in DOMAIN reports[v] : reports'[v][k] = reports[v][j]
    <3>1. CASE v = u
      BY <1>1, <1>3, <1>4, <2>1, <3>1, Zenon
    <3>2. CASE v # u
      BY <1>4, <2>1, <3>2, Zenon
    <3> QED BY <3>1, <3>2, Zenon
  <2> QED BY <1>1, <2>1, Zenon DEF AgentStep
<1> QED BY <1>1, <1>5, <1>6, AgentSteps, Zenon

\* The steps of a request that only move on.
LEMMA QuietRequest ==
    ASSUME PushType, NEW r \in Requests, NEW f, NEW q, ReqStep(r, f, q), IsAsking(q),
           live = UIDs /\ req[r].err = FALSE => q.err = FALSE,
           UNCHANGED <<hist, agentVars, h, stated, activeHash>>
    PROVE  IsStep
<1>1. HistStep /\ hist' \in Seq(Pushes)
  BY SameHistory, Zenon DEF PushType
<1>2. AgentStep /\ AgentType'
  BY SameAgents, SameReports, Zenon DEF agentVars
<1> QED BY <1>1, <1>2, RequestSteps, Zenon

\* A push, and a rollback to a config of the history, start, ...
LEMMA StepsAsk ==
    ASSUME PushType, NEW r \in Requests, NEW c \in Configs,
           handlePushApproval(r, c) \/ handleRollbackWorkloadConfig(r, c)
    PROVE  IsStep
<1> DEFINE p == [Idle EXCEPT !.at = "record", !.kind = "push", !.target = c]
           q == [Idle EXCEPT !.at = "guard", !.kind = "hash", !.target = c]
<1>1. p \in Tasks /\ q \in Tasks /\ p.target = c /\ q.target = c /\ p.err = FALSE /\ q.err = FALSE
  BY DEF Idle, Tasks, Ats
<1>2. /\ ReqStep(r, "idle", p) \/ ReqStep(r, "idle", q)
      /\ UNCHANGED <<hist, agentVars, h, stated, activeHash>>
  BY Zenon DEF handlePushApproval, handleRollbackWorkloadConfig, activeVars
<1> HIDE DEF p, q
<1>3. IsAsking(p) /\ IsAsking(q)
  BY <1>1 DEF IsAsking
<1> QED BY <1>1, <1>2, <1>3, QuietRequest, Zenon

\* ... and so does a rollback to the default.
LEMMA StepsDefault ==
    ASSUME PushType, NEW r \in Requests, handleRollbackWorkloadDefault(r)
    PROVE  IsStep
<1> DEFINE d == [Idle EXCEPT !.at = "guard", !.kind = "default"]
<1>1. d \in Tasks /\ d.at = "guard" /\ d.kind = "default" /\ d.err = FALSE
  BY DEF Idle, Tasks, Ats
<1>2. ReqStep(r, "idle", d) /\ UNCHANGED <<hist, agentVars, h, stated, activeHash>>
  BY Zenon DEF handleRollbackWorkloadDefault, activeVars
<1> HIDE DEF d
<1>3. IsAsking(d)
  BY <1>1 DEF IsAsking
<1> QED BY <1>1, <1>2, <1>3, QuietRequest, Zenon

\* The concurrency guard, the target of a rollback to the default, and the
\* start of the sends.
LEMMA StepsGuard ==
    ASSUME PushConstants, PushType, ProvenInv, NEW r \in Requests,
           CheckConcurrent(r) \/ ResolveTarget(r) \/ StartPush(r)
    PROVE  IsStep
<1>1. UNCHANGED <<hist, agentVars, h, stated, activeHash>>
  BY Zenon DEF CheckConcurrent, ResolveTarget, StartPush, activeVars
<1>2. req[r] \in Tasks /\ IsAsking(req[r])
  BY Zenon DEF PushType, TaskType, IsAsking
<1> DEFINE d == [Idle EXCEPT !.at = "done"]
<1>3. d \in Tasks /\ d.at = "done" /\ d.err = FALSE
  BY DEF Idle, Tasks, Ats
<1>4. IsAsking(d)
  BY <1>3 DEF IsAsking
<1>5. CASE StartPush(r)
  <2> DEFINE p == PushConfig(req[r], req[r].target)
  <2>1. ReqStep(r, "recorded", p) /\ req[r].target \in Configs
    BY <1>2, <1>5, Zenon DEF StartPush, ReqStep, IsAsking
  <2>2. p \in Tasks /\ p.target = req[r].target /\ (live # {} => p.err = FALSE)
    BY <1>2, <2>1, PushTask, Zenon
  <2> HIDE DEF p
  <2>3. IsAsking(p) /\ (live = UIDs => p.err = FALSE)
    BY <2>1, <2>2, Zenon DEF IsAsking, PushConstants
  <2> QED BY <1>1, <2>1, <2>3, QuietRequest, Zenon
<1>6. CASE ResolveTarget(r)
  <2>1. PICK x, t : /\ t = GetRollbackTarget(x)
                    /\ ReqStep(r, "resolve", IF t = NoConfig THEN d ELSE [req[r] EXCEPT !.at = "record", !.target = t])
    BY <1>6, Zenon DEF ResolveTarget
  <2> DEFINE p == [req[r] EXCEPT !.at = "record", !.target = t]
  <2>2. CASE t = NoConfig
    <3>1. ReqStep(r, "resolve", d)
      BY <2>1, <2>2, Zenon
    <3> HIDE DEF d
    <3> QED BY <1>1, <1>3, <1>4, <3>1, QuietRequest, Zenon
  <2>3. CASE t # NoConfig
    <3>1. t \in Configs
      BY <2>1, <2>3, TargetWorks, Zenon
    <3>2. ReqStep(r, "resolve", p)
      BY <2>1, <2>3, Zenon
    <3>3. p \in Tasks /\ p.target = t /\ p.err = req[r].err
      BY <1>2, <3>1 DEF Tasks, Ats
    <3> HIDE DEF p
    <3>4. IsAsking(p)
      BY <3>1, <3>3, Zenon DEF IsAsking
    <3> QED BY <1>1, <3>2, <3>3, <3>4, QuietRequest, Zenon
  <2> QED BY <2>2, <2>3, Zenon
<1>7. CASE CheckConcurrent(r)
  <2> DEFINE a == IF req[r].kind = "hash" THEN "record" ELSE "resolve"
             p == [req[r] EXCEPT !.at = a]
  <2>1. req[r].at = "guard" /\ (ReqStep(r, "guard", d) \/ ReqStep(r, "guard", p))
    BY <1>7, Zenon DEF CheckConcurrent, ReqStep
  <2>2. p \in Tasks /\ p.target = req[r].target /\ p.err = req[r].err /\ p.at = a
    BY <1>2 DEF Tasks, Ats
  <2>3. (a = "record" => req[r].kind = "hash") /\ a \in {"record", "resolve"}
    OBVIOUS
  <2> HIDE DEF p, d, a
  <2>4. IsAsking(p)
    BY <1>2, <2>1, <2>2, <2>3 DEF IsAsking
  <2> QED BY <1>1, <1>3, <1>4, <2>1, <2>2, <2>4, QuietRequest, Zenon
<1> QED BY <1>5, <1>6, <1>7, Zenon

\* RecordPush adds the row of the push.
LEMMA StepsRecord == ASSUME PushType, NEW r \in Requests, RecordPush(r) PROVE IsStep
<1> DEFINE q == [req[r] EXCEPT !.at = "recorded"]
           n == Row(req[r].target, "submitted", "user", live)
<1>1. /\ ReqStep(r, "record", q) /\ RecordWorkloadConfig(req[r].target, "submitted", "user") /\ req[r].at = "record"
      /\ UNCHANGED <<agentVars, h, stated, activeHash>>
  BY Zenon DEF RecordPush, ReqStep, activeVars
<1>2. req[r] \in Tasks /\ req[r].target \in Configs
  BY <1>1, Zenon DEF PushType, TaskType, IsAsking
<1>3. q \in Tasks /\ q.target = req[r].target /\ q.err = req[r].err
  BY <1>2 DEF Tasks, Ats
<1> HIDE DEF q
<1>4. IsAsking(q)
  BY <1>2, <1>3, Zenon DEF IsAsking
<1>5. Writes(n)
  <2>1. PICK t : t = req[r].target
    BY Zenon
  <2>2. "submitted" \in Statuses
    BY Zenon DEF Statuses
  <2> QED BY <1>1, <1>2, <2>1, <2>2, RecordIsWritten, Zenon
<1>6. IsNewRow(n)
  BY Zenon DEF IsNewRow, Row
<1> HIDE DEF n
<1>7. HistStep /\ hist' \in Seq(Pushes)
  BY <1>5, <1>6, Zenon DEF HistStep, Writes
<1>8. AgentStep /\ AgentType'
  BY <1>1, SameAgents, SameReports, Zenon DEF agentVars
<1> QED BY <1>1, <1>3, <1>4, <1>7, <1>8, RequestSteps, Zenon

\* SendPush offers the config to an instance.
LEMMA StepsSend == ASSUME PushType, NEW r \in Requests, NEW u \in UIDs, SendPush(r, u) PROVE IsStep
<1> DEFINE q == AfterSend(req[r], u)
<1>1. /\ ReqStep(r, "send", q) /\ sendToInstance(req[r], u) /\ req[r].at = "send"
      /\ UNCHANGED <<hist, live, reports, last, h, stated, activeHash>>
  BY Zenon DEF SendPush, activeVars, ReqStep
<1>2. req[r] \in Tasks /\ req[r].target \in Configs
  BY <1>1, Zenon DEF PushType, TaskType, IsAsking
<1>3. q \in Tasks /\ q.target = req[r].target /\ (u \in live => q.err = req[r].err)
  BY <1>2, SentTask, Zenon
<1> HIDE DEF q
<1>4. IsAsking(q) /\ (live = UIDs /\ req[r].err = FALSE => q.err = FALSE)
  BY <1>2, <1>3, Zenon DEF IsAsking
<1>5. AgentStep /\ AgentType'
  BY <1>1, <1>2, SendKeepsAgents, SameReports, Zenon
<1>6. HistStep /\ hist' \in Seq(Pushes)
  BY <1>1, SameHistory, Zenon DEF PushType
<1> QED BY <1>1, <1>4, <1>5, <1>6, RequestSteps, Zenon

\* FinishPush marks the row as sent or, when a send has failed, as failed.
LEMMA StepsFinish == ASSUME PushType, NEW r \in Requests, FinishPush(r) PROVE IsStep
<1> DEFINE d == [Idle EXCEPT !.at = "done"]
<1>1. ReqStep(r, "send", d) /\ UNCHANGED <<agentVars, h, stated, activeHash>>
  BY Zenon DEF FinishPush, activeVars
<1>2. d \in Tasks /\ d.at = "done" /\ d.err = FALSE
  BY DEF Idle, Tasks, Ats
<1> HIDE DEF d
<1>3. IsAsking(d)
  BY <1>2 DEF IsAsking
<1>4. AgentStep /\ AgentType'
  BY <1>1, SameAgents, SameReports, Zenon DEF agentVars
<1>5. PICK c : c = req[r].target
  BY Zenon
<1>6. HistStep /\ hist' \in Seq(Pushes)
  <2>1. CASE ~ req[r].err
    <3>1. MarkWorkloadConfigSent(c)
      BY <1>5, <2>1, Zenon DEF FinishPush
    <3> QED BY <3>1, SentIsRestated, Zenon
  <2>2. CASE req[r].err
    <3>1. UpdateWorkloadConfigStatus(c, "failed") /\ "failed" \in Statuses
      BY <1>5, <2>2, Zenon DEF FinishPush, Statuses
    <3>2. CASE UNCHANGED hist
      BY <3>2, Zenon DEF HistStep, PushType
    <3>3. CASE \E k \in DOMAIN hist : hist[k].config = c /\ Writes([hist[k] EXCEPT !.status = "failed"])
      <4>1. PICK k \in DOMAIN hist : Writes([hist[k] EXCEPT !.status = "failed"])
        BY <3>3, Zenon
      <4> DEFINE n == [hist[k] EXCEPT !.status = "failed"]
      <4>2. hist[k] \in Pushes
        BY <4>1 DEF PushType
      <4>3. n.config = hist[k].config /\ n.insts = hist[k].insts /\ n.status = "failed"
        BY <4>2 DEF Pushes
      <4>4. Writes(n)
        BY <4>1, Zenon
      <4> HIDE DEF n
      <4>5. IsRestated(n)
        BY <2>2, <4>1, <4>3, Zenon DEF IsRestated
      <4> QED BY <4>4, <4>5, Zenon DEF HistStep, Writes
    <3> QED BY <3>1, <3>2, <3>3, StatusIsWritten, Zenon
  <2> QED BY <2>1, <2>2, Zenon
<1> QED BY <1>1, <1>2, <1>3, <1>4, <1>6, RequestSteps, Zenon

\* Every step of the requests, the handlers and the agents is of this kind.
LEMMA NextSteps == ASSUME PushConstants, PushType, ProvenInv, Next PROVE IsStep
<1>1. CASE \E u \in UIDs : Handler(u) \/ AgentHandles(u) \/ Disconnect(u) \/ Reconnect(u)
  BY <1>1, StepsHandle, StepsMerge, StepsLookup, StepsRollback, StepsRecorded, StepsMark, StepsAgent, StepsLeave,
     StepsReturn, Zenon DEF Handler
<1>2. CASE \E r \in Requests : Request(r) \/ handleRollbackWorkloadDefault(r)
  BY <1>2, StepsGuard, StepsRecord, StepsSend, StepsFinish, StepsDefault, Zenon DEF Request
<1>3. CASE \E r \in Requests, c \in Configs : handlePushApproval(r, c) \/ handleRollbackWorkloadConfig(r, c)
  BY <1>3, StepsAsk, Zenon
<1> QED BY <1>1, <1>2, <1>3, Zenon DEF Next
---------------------------------------------------------------------------
(* What is credited has been reported *)

\* At first every instance runs the seed and has reported it.
LEMMA PushInit == ASSUME PushConstants, Init PROVE PushType /\ ProvenInv
<1> DEFINE m == Row(Seed, "applied", "user", UIDs)
           is == [u \in UIDs |-> [status |-> "applied"]]
           n == [m EXCEPT !.sent = TRUE, !.insts = is]
<1>1. hist = <<n>>
  BY Zenon DEF Init
<1>2. is \in Lists /\ m \in Pushes /\ m.config = Seed /\ m.status = "applied"
  BY DEF Lists, Marks, Pushes, Statuses, PushConstants, Row
<1> HIDE DEF m, is
<1>3. n \in Pushes /\ n.config = Seed /\ n.status = "applied" /\ n.insts = is
  BY <1>2 DEF Pushes
<1> HIDE DEF n
<1>4. hist \in Seq(Pushes)
  BY <1>1, <1>3
<1>5. AgentType /\ \A u \in UIDs : reports[u] = <<>> /\ last[u] = [config |-> Seed, status |-> "applied"]
  <2>1. [config |-> Seed, status |-> "applied"] \in Answers
    BY DEF Answers, PushConstants
  <2>2. <<>> \in Seq(Configs) /\ <<>> \in Seq(Answers)
    OBVIOUS
  <2> QED BY <2>1, <2>2, Zenon DEF Init, AgentType
<1>6. TaskType /\ \A u \in UIDs : h[u] = Idle
  BY IdleTask, Zenon DEF Init, TaskType
<1>7. PushType
  BY <1>4, <1>5, <1>6, Zenon DEF PushType, Init
<1>8. \A u \in UIDs : <<u, Seed, "applied">> \in stated
  BY Zenon DEF Init
<1>9. \A u \in UIDs : AgentProven(u)
  <2>1. \A u \in UIDs : DOMAIN reports[u] = {} /\ last[u].config = Seed /\ last[u].status = "applied"
    BY <1>5
  <2> QED BY <1>8, <2>1, Zenon DEF AgentProven, Truthful
<1>10. \A u \in UIDs : HandlerProven(u)
  <2>1. \A u \in UIDs : h[u].at = "idle"
    BY <1>6, IdleTask, Zenon
  <2> QED BY <2>1 DEF HandlerProven
<1>11. \A k \in DOMAIN hist : RowProven(hist[k])
  <2>1. n.config = Seed /\ DOMAIN n.insts = UIDs /\ \A u \in UIDs : n.insts[u].status = "applied"
    BY <1>3 DEF is
  <2>2. Works(n.config) /\ \A u \in DOMAIN n.insts : <<u, n.config, n.insts[u].status>> \in stated
    BY <1>8, <2>1, Zenon DEF Works, PushConstants
  <2>3. RowProven(n)
    BY <2>2, Zenon DEF RowProven
  <2>4. DOMAIN hist = {1} /\ hist[1] = n
    BY <1>1
  <2> QED BY <2>3, <2>4, Zenon
<1> QED BY <1>7, <1>9, <1>10, <1>11, Zenon DEF ProvenInv

\* What works keeps working.
LEMMA MoreWorks == ASSUME stated \subseteq stated', NEW c, Works(c) PROVE Works(c)'
BY Zenon DEF Works

\* Every step keeps what is credited to what was reported.
LEMMA ProvenKept == ASSUME PushType, ProvenInv, IsStep PROVE ProvenInv'
<1>1. stated \subseteq stated'
  BY Zenon DEF IsStep, AgentStep
<1>2. ASSUME NEW u \in UIDs PROVE AgentProven(u)'
  <2>1. AgentProven(u)
    BY Zenon DEF ProvenInv
  <2>2. Truthful(u, last[u])'
    BY <1>1, <2>1, Zenon DEF IsStep, AgentStep, AgentProven, Truthful
  <2>3. ASSUME NEW k \in DOMAIN reports'[u] PROVE Truthful(u, reports[u][k])'
    <3>1. CASE reports'[u][k] = last'[u]
      BY <2>2, <3>1, Zenon DEF Truthful
    <3>2. CASE \E j \in DOMAIN reports[u] : reports'[u][k] = reports[u][j]
      BY <1>1, <2>1, <3>2, Zenon DEF AgentProven, Truthful
    <3> QED BY <3>1, <3>2, Zenon DEF IsStep, AgentStep
  <2> QED BY <1>1, <2>1, <2>2, <2>3, Zenon DEF AgentProven
<1>3. ASSUME NEW u \in UIDs PROVE HandlerProven(u)'
  <2>1. AgentProven(u) /\ HandlerProven(u)
    BY Zenon DEF ProvenInv
  <2>2. CASE h'[u] = h[u]
    BY <1>1, <2>1, <2>2, MoreWorks, Zenon DEF HandlerProven, Truthful
  <2>3. CASE IsSound(u, h'[u])
    <3>1. PICK q : q = h'[u]
      BY Zenon
    <3>2. q.at = "merge" => <<u, q.config, q.status>> \in stated'
      BY <1>1, <2>1, <2>3, <3>1, Zenon DEF IsSound, OnTheWire, AgentProven, Truthful
    <3>3. q.at \in {"send", "mark"} => Works(q.target)'
      BY <1>1, <2>3, <3>1, MoreWorks, Zenon DEF IsSound
    <3> QED BY <3>1, <3>2, <3>3, Zenon DEF HandlerProven, Truthful
  <2> QED BY <2>2, <2>3, Zenon DEF IsStep, TaskStep, Turns, Moves
<1>4. ASSUME NEW k \in DOMAIN hist' PROVE RowProven(hist[k])'
  <2>1. ASSUME NEW n, RowProven(n) PROVE RowProven(n)'
    BY <1>1, <2>1, MoreWorks, Zenon DEF RowProven
  <2>2. ASSUME k \in DOMAIN hist, hist'[k] = hist[k] PROVE RowProven(hist[k])'
    <3>1. PICK m : m = hist[k]
      BY Zenon
    <3>2. RowProven(m)'
      BY <2>1, <2>2, <3>1, Zenon DEF ProvenInv
    <3> QED BY <2>2, <3>1, <3>2, Zenon DEF RowProven
  <2>3. CASE UNCHANGED hist
    BY <2>2, <2>3, Zenon
  <2>4. CASE \E n \in Pushes : Writes(n) /\ (IsNewRow(n) \/ IsRestated(n) \/ IsCredited(n))
    <3>1. PICK n \in Pushes : Writes(n) /\ (IsNewRow(n) \/ IsRestated(n) \/ IsCredited(n))
      BY <2>4, Zenon
    <3>2. RowProven(n)
      <4>1. CASE IsNewRow(n)
        BY <4>1 DEF IsNewRow, RowProven
      <4>2. CASE IsRestated(n)
        <5>1. PICK j \in DOMAIN hist : n.config = hist[j].config /\ n.insts = hist[j].insts
          BY <4>2, Zenon DEF IsRestated
        <5>2. RowProven(hist[j])
          BY Zenon DEF ProvenInv
        <5>3. n.status = "applied" => Works(n.config)
          <6> SUFFICES ASSUME n.status = "applied" PROVE Works(n.config)
            BY Zenon
          <6>1. PICK u \in UIDs : OnTheWire(u, n.config, n.status)
            BY <4>2, Zenon DEF IsRestated
          <6>2. AgentProven(u)
            BY Zenon DEF ProvenInv
          <6> QED BY <6>1, <6>2, Zenon DEF OnTheWire, AgentProven, Truthful, Works
        <5> QED BY <5>1, <5>2, <5>3, Zenon DEF RowProven
      <4>3. CASE IsCredited(n)
        <5>1. PICK j \in DOMAIN hist, u \in UIDs :
                 h[u].at = "merge" /\ n.config = h[u].config /\ Credits(n, j, u, h[u].status)
          BY <4>3, Zenon DEF IsCredited
        <5>2. RowProven(hist[j]) /\ Truthful(u, h[u])
          BY <5>1, Zenon DEF ProvenInv, HandlerProven
        <5>3. ASSUME NEW v \in DOMAIN n.insts, n.insts[v].status # "sent"
              PROVE  v \in UIDs /\ <<v, n.config, n.insts[v].status>> \in stated
          <6>1. v \in UIDs
            <7>1. n.insts \in Lists
              BY DEF Pushes
            <7> QED BY <5>3, <7>1 DEF Lists
          <6>2. CASE v = u
            BY <5>1, <5>2, <5>3, <6>2, Zenon DEF Credits, Truthful
          <6>3. CASE v # u
            <7>1. v \in DOMAIN hist[j].insts /\ n.insts[v] = hist[j].insts[v] /\ n.config = hist[j].config
              BY <5>1, <5>3, <6>3, Zenon DEF Credits
            <7> QED BY <5>2, <5>3, <6>1, <7>1, Zenon DEF RowProven
          <6> QED BY <6>1, <6>2, <6>3, Zenon
        <5>4. n.status = "applied" => Works(n.config)
          BY <5>1, <5>2, <5>3, Zenon DEF Credits, RowProven, Works
        <5> QED BY <5>3, <5>4, Zenon DEF RowProven
      <4> QED BY <3>1, <4>1, <4>2, <4>3, Zenon
    <3>3. RowProven(n)'
      BY <2>1, <3>2, Zenon
    <3>4. hist'[k] = n \/ (k \in DOMAIN hist /\ hist'[k] = hist[k])
      BY <3>1, Zenon DEF Writes
    <3>5. CASE hist'[k] = n
      BY <3>3, <3>5, Zenon DEF RowProven
    <3>6. CASE k \in DOMAIN hist /\ hist'[k] = hist[k]
      BY <2>2, <3>6, Zenon
    <3> QED BY <3>4, <3>5, <3>6, Zenon
  <2> QED BY <2>3, <2>4, Zenon DEF IsStep, HistStep
<1> QED BY <1>2, <1>3, <1>4, Zenon DEF ProvenInv

\* A stuttering step keeps the invariants.
LEMMA PushKept == ASSUME PushType, ProvenInv, UNCHANGED vars PROVE PushType' /\ ProvenInv'
<1>1. IsStep
  BY Zenon DEF vars, agentVars, activeVars, IsStep, HistStep, TaskStep, AgentStep, PushType, AgentType, TaskType
<1> QED BY <1>1, ProvenKept, Zenon DEF IsStep

\* The invariant says that the history credits rightly and that rollbacks go to
\* proven configs.
LEMMA ProvenIsRight == ASSUME PushType, ProvenInv PROVE CreditedRightly /\ RollbackTargetsProven
BY Zenon DEF ProvenInv, RowProven, HandlerProven, Works, CreditedRightly, RollbackTargetsProven

\* Whatever pushes, rollbacks and reports overlap, a row of the history credits
\* an instance only with what that instance has reported of that row's config
\* (UpdateWorkloadConfigInstanceStatus), a failure as well as a success, and an
\* automatic rollback (attemptAutoRollback) goes only to a config some instance
\* has reported as applied: for any instances, configs and requests, and agents
\* that may leave.
THEOREM PushesAreProven ==
    ASSUME PushConstants PROVE Spec => [](CreditedRightly /\ RollbackTargetsProven)
<1>1. Init => PushType /\ ProvenInv
  BY PushInit
<1>2. PushType /\ ProvenInv /\ [Next]_vars => (PushType /\ ProvenInv)'
  BY NextSteps, ProvenKept, PushKept, Zenon DEF IsStep
<1>3. PushType /\ ProvenInv => CreditedRightly /\ RollbackTargetsProven
  BY ProvenIsRight
<1> QED BY <1>1, <1>2, <1>3, PTL DEF Spec
---------------------------------------------------------------------------
(* What is shown of a rollback has been reported *)

\* Among the reports in S is one that c has the status s.
Told(S, c, s) == \E a \in S : a.config = c /\ a.status = s

\* A config that failed was reported as failed, unless an agent may leave and
\* a send may fail.
ToldFailed(S, c) == MayLeave \/ Told(S, c, "failed")

\* S has the report behind a status of c that is shown.
Shows(S, c, s) == (s \in {"applying", "applied"} => Told(S, c, "applied")) /\ (s = "failed" => ToldFailed(S, c))

RowSaid(S, n) ==
    /\ n.status = "applying" => Told(S, n.config, "applied")
    /\ n.status = "failed" => ToldFailed(S, n.config)
    /\ \A u \in DOMAIN n.insts : n.insts[u].status = "failed" => ToldFailed(S, n.config)

AgentSaid(u) ==
    /\ Told(said, last[u].config, last[u].status)
    /\ \A k \in DOMAIN reports[u] : Told(said, reports[u][k].config, reports[u][k].status)
    /\ \A c, s : <<u, c, s>> \in stated => Told(said, c, s)

HistorySaid ==
    /\ MayLeave \/ (live = UIDs /\ \A r \in Requests : req[r].err = FALSE)
    /\ \A u \in UIDs : AgentSaid(u) /\ (h[u].at = "merge" => Told(said, h[u].config, h[u].status))
    /\ \A k \in DOMAIN hist : RowSaid(said, hist[k])

\* What the workload row holds, or a handler has read of it.
IsTold(S, a) == Told(S, a.config, a.status) /\ a.status \in {"applied", "failed"}

ShownSaid ==
    /\ IsTold(said, remote) /\ DOMAIN snap = UIDs /\ \A u \in UIDs : snap[u] = NoSnap \/ IsTold(said, snap[u])
    /\ poll = NoPoll \/ (poll.row \in DOMAIN hist /\ Shows(said, hist[poll.row].config, poll.status))
    /\ Shows(said, answer.hash, answer.apply)

\* More reports tell more, ...
LEMMA MoreTold ==
    ASSUME NEW S, NEW T, S \subseteq T, NEW c, NEW s, Told(S, c, s)
    PROVE  Told(T, c, s)
BY Zenon DEF Told

\* ... and what they were behind they are still behind.
LEMMA MoreShows ==
    ASSUME NEW S, NEW T, S \subseteq T
    PROVE  /\ \A n : RowSaid(S, n) => RowSaid(T, n)
           /\ \A a : IsTold(S, a) => IsTold(T, a)
           /\ \A c, s : Shows(S, c, s) => Shows(T, c, s)
<1>1. \A c, s : Told(S, c, s) => Told(T, c, s)
  BY MoreTold, Zenon
<1>2. \A c : ToldFailed(S, c) => ToldFailed(T, c)
  BY <1>1, Zenon DEF ToldFailed
<1> QED BY <1>1, <1>2, Zenon DEF RowSaid, IsTold, Shows

\* A step of the model of pushes, with the reports made so far.
SaidStep == IsStep /\ said' = said \cup {last'[u] : u \in UIDs}

\* A row is written only with statuses that reports are behind.
LEMMA RowsStaySaid ==
    ASSUME PushType, ProvenInv, HistorySaid, IsStep, NEW k \in DOMAIN hist'
    PROVE  RowSaid(said, hist'[k])
<1>1. CASE k \in DOMAIN hist /\ hist'[k] = hist[k]
  BY <1>1, Zenon DEF HistorySaid
<1>2. ASSUME NEW n \in Pushes, IsNewRow(n) PROVE RowSaid(said, n)
  BY <1>2 DEF IsNewRow, RowSaid
<1>3. ASSUME NEW n \in Pushes, IsRestated(n) PROVE RowSaid(said, n)
  <2>1. PICK j \in DOMAIN hist : n.config = hist[j].config /\ n.insts = hist[j].insts
    BY <1>3, Zenon DEF IsRestated
  <2>2. RowSaid(said, hist[j])
    BY Zenon DEF HistorySaid
  <2>3. ASSUME NEW u \in UIDs, OnTheWire(u, n.config, n.status)
        PROVE  n.status # "applying" /\ (n.status = "failed" => ToldFailed(said, n.config))
    <3>1. PICK i \in DOMAIN reports[u] : reports[u][i].config = n.config /\ reports[u][i].status = n.status
      BY <2>3, Zenon DEF OnTheWire
    <3>2. reports[u][i] \in Answers
      BY DEF PushType, AgentType
    <3>3. n.status # "applying"
      BY <3>1, <3>2 DEF Answers
    <3> QED BY <3>1, <3>3, Zenon DEF HistorySaid, AgentSaid, ToldFailed
  <2>4. (\E r \in Requests : req[r].err) => ToldFailed(said, n.config)
    BY Zenon DEF HistorySaid, ToldFailed
  <2>5. n.status # "applying" /\ (n.status = "failed" => ToldFailed(said, n.config))
    BY <1>3, <2>3, <2>4, Zenon DEF IsRestated
  <2> QED BY <2>1, <2>2, <2>5, Zenon DEF RowSaid
<1>4. ASSUME NEW n \in Pushes, IsCredited(n) PROVE RowSaid(said, n)
  <2>1. PICK j \in DOMAIN hist, u \in UIDs :
           h[u].at = "merge" /\ n.config = h[u].config /\ Credits(n, j, u, h[u].status)
    BY <1>4, Zenon DEF IsCredited
  <2>2. RowSaid(said, hist[j]) /\ RowProven(hist[j]) /\ Told(said, n.config, h[u].status)
    BY <2>1, Zenon DEF HistorySaid, ProvenInv
  <2>3. n.config = hist[j].config /\ n.insts \in Lists
    BY <2>1 DEF Credits, Pushes
  <2>4. ASSUME NEW v \in DOMAIN n.insts PROVE Shows(said, n.config, n.insts[v].status)
    <3>1. v \in UIDs /\ n.insts[v].status # "applying"
      BY <2>3, <2>4 DEF Lists, Marks
    <3>2. CASE v = u
      BY <2>1, <2>2, <3>1, <3>2 DEF Credits, Shows, ToldFailed
    <3>3. CASE v # u
      <4>1. v \in DOMAIN hist[j].insts /\ n.insts[v] = hist[j].insts[v]
        BY <2>1, <2>4, <3>3, Zenon DEF Credits
      <4>2. n.insts[v].status = "applied" => Told(said, n.config, "applied")
        BY <2>2, <2>3, <3>1, <4>1, Zenon DEF RowProven, HistorySaid, AgentSaid
      <4>3. n.insts[v].status = "failed" => ToldFailed(said, n.config)
        BY <2>2, <2>3, <4>1, Zenon DEF RowSaid
      <4> QED BY <3>1, <4>2, <4>3 DEF Shows
    <3> QED BY <3>2, <3>3, Zenon
  <2>5. (\E v \in DOMAIN n.insts : n.insts[v].status = "applied") => Told(said, n.config, "applied")
    BY <2>4 DEF Shows
  <2>6. \A v \in DOMAIN n.insts : n.insts[v].status = "failed" => ToldFailed(said, n.config)
    BY <2>4 DEF Shows
  <2>7. n.status = "applying" => Told(said, n.config, "applied")
    BY <2>1, <2>2, <2>3, <2>5, Zenon DEF Credits, RowSaid
  <2>8. n.status = "failed" => ToldFailed(said, n.config)
    BY <2>1, <2>2, <2>3, <2>6, Zenon DEF Credits, RowSaid
  <2> QED BY <2>6, <2>7, <2>8, Zenon DEF RowSaid
<1> QED BY <1>1, <1>2, <1>3, <1>4, Zenon DEF IsStep, HistStep, Writes

\* A step of the pushes keeps a report behind every status of the history.
LEMMA HistoryStaysSaid == ASSUME PushType, ProvenInv, HistorySaid, SaidStep, MayLeave \in BOOLEAN PROVE HistorySaid'
<1>1. said \subseteq said' /\ IsStep /\ \A u \in UIDs : last'[u] \in said'
  BY Zenon DEF SaidStep
<1>2. MayLeave \/ (live' = UIDs /\ \A r \in Requests : req'[r].err = FALSE)
  BY <1>1, Zenon DEF HistorySaid, IsStep, AgentStep, TaskStep, Moves, Turns
<1>3. ASSUME NEW u \in UIDs PROVE AgentSaid(u)'
  <2>1. AgentSaid(u)
    BY Zenon DEF HistorySaid
  <2>2. Told(said', last'[u].config, last'[u].status)
    BY <1>1, Zenon DEF Told
  <2>3. ASSUME NEW k \in DOMAIN reports'[u] PROVE Told(said', reports'[u][k].config, reports'[u][k].status)
    <3>1. CASE reports'[u][k] = last'[u]
      BY <2>2, <3>1, Zenon
    <3>2. CASE \E j \in DOMAIN reports[u] : reports'[u][k] = reports[u][j]
      BY <1>1, <2>1, <3>2, MoreTold, Zenon DEF AgentSaid
    <3> QED BY <1>1, <3>1, <3>2, Zenon DEF IsStep, AgentStep
  <2>4. ASSUME NEW c, NEW s, <<u, c, s>> \in stated' PROVE Told(said', c, s)
    BY <1>1, <2>1, <2>2, <2>4, MoreTold, Zenon DEF IsStep, AgentStep, AgentSaid
  <2> QED BY <2>2, <2>3, <2>4, Zenon DEF AgentSaid
<1>4. ASSUME NEW u \in UIDs, h'[u].at = "merge" PROVE Told(said', h'[u].config, h'[u].status)
  <2>1. CASE h'[u] = h[u]
    BY <1>1, <1>4, <2>1, MoreTold, Zenon DEF HistorySaid
  <2>2. CASE IsSound(u, h'[u])
    <3>1. OnTheWire(u, h'[u].config, h'[u].status)
      BY <1>4, <2>2, Zenon DEF IsSound
    <3>2. Told(said, h'[u].config, h'[u].status)
      BY <3>1, Zenon DEF OnTheWire, HistorySaid, AgentSaid
    <3> QED BY <1>1, <3>2, MoreTold, Zenon
  <2> QED BY <1>1, <2>1, <2>2, Zenon DEF IsStep, TaskStep, Turns, Moves
<1>5. ASSUME NEW k \in DOMAIN hist' PROVE RowSaid(said', hist'[k])
  BY <1>1, RowsStaySaid, MoreShows, Zenon
<1> QED BY <1>2, <1>3, <1>4, <1>5, Zenon DEF HistorySaid

\* The status a reader derives from a row has a report behind it.
LEMMA HydratedIsShown ==
    ASSUME PushType, ProvenInv, HistorySaid, NEW k \in DOMAIN hist
    PROVE  Shows(said, hist[k].config, Hydrated(hist[k]))
<1>1. PICK n : n = hist[k]
  BY Zenon
<1>2. n \in Pushes /\ RowProven(n) /\ RowSaid(said, n)
  BY <1>1 DEF PushType, ProvenInv, HistorySaid
<1>3. n.insts \in Lists /\ n.status \in Statuses
  BY <1>2 DEF Pushes
<1>4. PICK d : d = DerivedStatus(n.insts, n.sent, n.status)
  BY Zenon
<1>5. /\ d = "applied" /\ n.status # "applied" => \E u \in DOMAIN n.insts : n.insts[u].status = "applied"
      /\ d = "applying" /\ n.status # "applying" => \E u \in DOMAIN n.insts : n.insts[u].status = "applied"
      /\ d = "failed" /\ n.status # "failed" => \E u \in DOMAIN n.insts : n.insts[u].status = "failed"
  BY <1>3, <1>4, DerivedIs, Zenon
<1>6. Works(n.config) => Told(said, n.config, "applied")
  BY Zenon DEF Works, HistorySaid, AgentSaid
<1>7. (\E u \in DOMAIN n.insts : n.insts[u].status = "applied") => Works(n.config)
  <2>1. \A u \in DOMAIN n.insts : u \in UIDs
    BY <1>3 DEF Lists
  <2> QED BY <1>2, <2>1, Zenon DEF RowProven, Works
<1>8. d \in {"applied", "applying"} => Told(said, n.config, "applied")
  BY <1>2, <1>5, <1>6, <1>7 DEF RowProven, RowSaid
<1>9. d = "failed" => ToldFailed(said, n.config)
  BY <1>2, <1>5, Zenon DEF RowSaid
<1> QED BY <1>1, <1>4, <1>8, <1>9 DEF Shows, Hydrated

\* A step of the pushes keeps a report behind what is shown; the workload row
\* takes the status that was merged.
LEMMA ShownStaysSaid ==
    ASSUME PushType, ProvenInv, HistorySaid, ShownSaid, SaidStep, PushStep
    PROVE  ShownSaid'
<1>1. said \subseteq said' /\ IsStep /\ UNCHANGED <<snap, poll, answer>>
  BY Zenon DEF SaidStep, PushStep
<1>2. IsTold(said', remote')
  <2>1. CASE Merging = {}
    <3>1. remote' = remote
      BY <2>1, Zenon DEF PushStep
    <3> QED BY <1>1, <3>1, MoreShows, Zenon DEF ShownSaid
  <2>2. CASE Merging # {}
    <3>1. PICK u \in Merging : remote' = [config |-> h[u].config, status |-> h[u].status]
      BY <2>2, Zenon DEF PushStep
    <3>2. u \in UIDs /\ h[u].at = "merge"
      BY <3>1, Zenon DEF Merging
    <3>3. remote'.config = h[u].config /\ remote'.status = h[u].status
      BY <3>1
    <3>4. Told(said, remote'.config, remote'.status)
      BY <3>2, <3>3, Zenon DEF HistorySaid
    <3>5. h[u].status \in {"applied", "failed"}
      BY <3>2 DEF PushType, TaskType, IsHandling, Tasks
    <3> QED BY <1>1, <3>3, <3>4, <3>5, MoreTold, Zenon DEF IsTold
  <2> QED BY <2>1, <2>2, Zenon
<1>3. \A u \in UIDs : snap'[u] = NoSnap \/ IsTold(said', snap'[u])
  BY <1>1, MoreShows, Zenon DEF ShownSaid
<1>4. DOMAIN hist \subseteq DOMAIN hist' /\ \A k \in DOMAIN hist : hist'[k].config = hist[k].config
  BY <1>1, Zenon DEF IsStep, HistStep, Writes
<1>5. poll' = NoPoll \/ (poll'.row \in DOMAIN hist' /\ Shows(said', hist'[poll'.row].config, poll'.status))
  BY <1>1, <1>4, MoreShows, Zenon DEF ShownSaid
<1>6. Shows(said', answer'.hash, answer'.apply)
  BY <1>1, MoreShows, Zenon DEF ShownSaid
<1> QED BY <1>1, <1>2, <1>3, <1>5, <1>6, Zenon DEF ShownSaid, NoSnap, NoPoll

\* A writer of the workload row puts back a status that was reported, if an old
\* one.
LEMMA WorkloadRowSaid ==
    ASSUME ShownSaid, NEW u \in UIDs, ReadWorkload(u) \/ WriteWorkload(u)
    PROVE  ShownSaid'
<1>1. UNCHANGED <<hist, poll, answer, said>>
  BY Zenon DEF ReadWorkload, WriteWorkload, vars
<1>2. IsTold(said, remote') /\ DOMAIN snap' = UIDs
  BY Zenon DEF ReadWorkload, WriteWorkload, ShownSaid
<1>3. \A v \in UIDs : snap'[v] = NoSnap \/ IsTold(said, snap'[v])
  BY Zenon DEF ReadWorkload, WriteWorkload, ShownSaid
<1> QED BY <1>1, <1>2, <1>3, Zenon DEF ShownSaid, NoSnap, NoPoll

\* The first read of a status request.
LEMMA PollSaid ==
    ASSUME PushType, ProvenInv, HistorySaid, ShownSaid, NEW i \in DOMAIN hist, PollRow(i)
    PROVE  ShownSaid'
<1>1. UNCHANGED <<hist, remote, snap, answer, said>> /\ poll' = [row |-> i, status |-> Hydrated(hist[i])]
  BY Zenon DEF PollRow, vars
<1>2. poll'.row = i /\ poll'.status = Hydrated(hist[i])
  BY <1>1
<1>3. Shows(said, hist[i].config, Hydrated(hist[i]))
  BY HydratedIsShown, Zenon
<1> QED BY <1>1, <1>2, <1>3, Zenon DEF ShownSaid, NoSnap, NoPoll

\* The second read, and the answer: the workload's status counts only when it
\* is of the same config.
LEMMA AnswerSaid ==
    ASSUME ShownSaid, NEW late \in BOOLEAN, handleRollbackStatus(late)
    PROVE  ShownSaid'
<1>1. PICK c, s, x : /\ c = hist[poll.row].config /\ s = ApplyStatus(c, poll.status) /\ x \in {s, "unknown"}
                     /\ answer'.hash = c /\ answer'.apply = x
  <2>1. PICK c, s, x, y : /\ c = hist[poll.row].config /\ s = ApplyStatus(c, poll.status)
                          /\ x = (IF s \in {"applied", "failed"} \/ ~ late THEN s ELSE "unknown")
                          /\ answer' = [hash |-> c, apply |-> x, terminal |-> y]
    BY Zenon DEF handleRollbackStatus
  <2>2. x \in {s, "unknown"} /\ answer'.hash = c /\ answer'.apply = x
    BY <2>1
  <2> QED BY <2>1, <2>2, Zenon
<1>2. Shows(said, c, poll.status) /\ IsTold(said, remote)
  BY <1>1, Zenon DEF handleRollbackStatus, ShownSaid
<1>3. Shows(said, c, s)
  <2>1. CASE remote.config = c /\ s = remote.status
    BY <1>2, <2>1 DEF IsTold, Shows, ToldFailed
  <2>2. CASE s = poll.status
    BY <1>2, <2>2, Zenon
  <2>3. CASE s = "accepted"
    BY <2>3 DEF Shows
  <2> QED BY <1>1, <2>1, <2>2, <2>3, Zenon DEF ApplyStatus
<1>4. Shows(said, c, x)
  BY <1>1, <1>3 DEF Shows
<1>5. UNCHANGED <<hist, remote, snap, said>> /\ poll' = NoPoll
  BY Zenon DEF handleRollbackStatus, vars
<1> QED BY <1>1, <1>4, <1>5, Zenon DEF ShownSaid, NoSnap, NoPoll

\* The inductive invariant.
GuidedInv == PushType /\ ProvenInv /\ HistorySaid /\ ShownSaid

\* At first nothing is shown that the seed's report is not behind.
LEMMA GuidedInit == ASSUME PushConstants, GInit PROVE GuidedInv
<1>1. Init
  BY Zenon DEF GInit
<1>2. PushType /\ ProvenInv
  BY <1>1, PushInit
<1> DEFINE a == [config |-> Seed, status |-> "applied"]
<1>3. a.config = Seed /\ a.status = "applied"
  OBVIOUS
<1>4. remote = a /\ \A u \in UIDs : last[u] = a /\ reports[u] = <<>> /\ h[u] = Idle /\ last[u] \in said
  BY <1>1, Zenon DEF GInit, Init
<1>5. \A r \in Requests : req[r].err = FALSE
  BY <1>1, IdleTask, Zenon DEF Init
<1> HIDE DEF a
<1>6. Told(said, Seed, "applied")
  BY <1>3, <1>4, Zenon DEF Told, PushConstants
<1>7. ASSUME NEW u \in UIDs PROVE AgentSaid(u) /\ h[u].at # "merge"
  <2>1. DOMAIN reports[u] = {}
    BY <1>4
  <2>2. h[u].at = "idle"
    BY <1>4, IdleTask, Zenon
  <2>3. \A c, s : <<u, c, s>> \in stated => c = Seed /\ s = "applied"
    BY <1>1 DEF Init
  <2>4. AgentSaid(u)
    BY <1>3, <1>4, <1>6, <2>1, <2>3, Zenon DEF AgentSaid
  <2> QED BY <2>2, <2>4
<1>8. ASSUME NEW k \in DOMAIN hist PROVE RowSaid(said, hist[k])
  <2> DEFINE m == Row(Seed, "applied", "user", UIDs)
             is == [u \in UIDs |-> [status |-> "applied"]]
             n == [m EXCEPT !.sent = TRUE, !.insts = is]
  <2>1. hist = <<n>>
    BY <1>1, Zenon DEF Init
  <2>2. is \in Lists /\ m \in Pushes /\ m.status = "applied"
    BY DEF Lists, Marks, Pushes, Statuses, PushConstants, Row
  <2> HIDE DEF m, is
  <2>3. n.status = "applied" /\ n.insts = is
    BY <2>2 DEF Pushes
  <2> HIDE DEF n
  <2>4. hist[k] = n
    BY <2>1
  <2> QED BY <2>3, <2>4 DEF RowSaid, is
<1>9. HistorySaid
  BY <1>1, <1>5, <1>7, <1>8, Zenon DEF HistorySaid, Init
<1>10. Shows(said, answer.hash, answer.apply)
  <2>1. answer.apply = "none"
    BY DEF GInit
  <2> QED BY <2>1 DEF Shows
<1>11. ShownSaid
  BY <1>3, <1>4, <1>6, <1>10, Zenon DEF ShownSaid, IsTold, GInit
<1> QED BY <1>2, <1>9, <1>11, Zenon DEF GuidedInv

\* Where no push moves and nobody reports, the reports stay behind the history.
LEMMA SamePushes == ASSUME PushType, ProvenInv, UNCHANGED <<vars, said>>, HistorySaid PROVE HistorySaid'
BY Zenon DEF vars, agentVars, activeVars, HistorySaid, AgentSaid

\* The invariant is inductive.
LEMMA GuidedNext == ASSUME PushConstants, MayLeave \in BOOLEAN, GuidedInv, [GNext]_GVars PROVE GuidedInv'
<1> USE DEF GuidedInv
<1>1. CASE PushStep
  <2>1. SaidStep
    BY <1>1, NextSteps, Zenon DEF PushStep, SaidStep
  <2>2. PushType' /\ ProvenInv'
    BY <2>1, ProvenKept, Zenon DEF SaidStep, IsStep
  <2> QED BY <1>1, <2>1, <2>2, HistoryStaysSaid, ShownStaysSaid, Zenon
<1>2. CASE UNCHANGED <<vars, said>>
  <2>1. PushType' /\ ProvenInv' /\ HistorySaid'
    BY <1>2, PushKept, SamePushes, Zenon
  <2>2. CASE UNCHANGED GVars
    <3>1. ShownSaid'
      BY <2>2, Zenon DEF GVars, vars, ShownSaid, NoSnap, NoPoll
    <3> QED BY <2>1, <3>1, Zenon
  <2>3. CASE \E u \in UIDs : ReadWorkload(u) \/ WriteWorkload(u)
    BY <2>1, <2>3, WorkloadRowSaid, Zenon
  <2>4. CASE \E i \in DOMAIN hist : PollRow(i)
    BY <2>1, <2>4, PollSaid, Zenon
  <2>5. CASE \E late \in BOOLEAN : handleRollbackStatus(late)
    BY <2>1, <2>5, AnswerSaid, Zenon
  <2> QED BY <1>1, <2>2, <2>3, <2>4, <2>5, Zenon DEF GNext
<1>3. PushStep \/ UNCHANGED <<vars, said>>
  BY Zenon DEF GNext, GVars, ReadWorkload, WriteWorkload, PollRow, handleRollbackStatus
<1> QED BY <1>1, <1>2, <1>3, Zenon

\* A rollback shown as applied, or as being applied, was reported as applied.
AppliedWasReported == answer.apply \in {"applied", "applying"} => Told(said, answer.hash, "applied")

\* The invariant gives the two results.
LEMMA GuidedIsReported ==
    ASSUME GuidedInv
    PROVE  AppliedWasReported /\ (MayLeave = FALSE => AnswerWasReported)
<1>1. Shows(said, answer.hash, answer.apply)
  BY Zenon DEF GuidedInv, ShownSaid
<1>2. AppliedWasReported
  BY <1>1 DEF Shows, AppliedWasReported
<1>3. MayLeave = FALSE /\ answer.apply = "failed" => Told(said, answer.hash, "failed")
  BY <1>1 DEF Shows, ToldFailed
<1> QED BY <1>2, <1>3, Zenon DEF AppliedWasReported, Told, AnswerWasReported

\* handleRollbackStatus shows a rollback as applied or applying only when some
\* agent has reported that config as applied, although the workload's status may
\* be of another config or an old one that a late writer has put back.
THEOREM AppliedAnswersWereReported ==
    ASSUME PushConstants, MayLeave \in BOOLEAN
    PROVE  GSpec => []AppliedWasReported
<1>1. GInit => GuidedInv
  BY GuidedInit
<1>2. GuidedInv /\ [GNext]_GVars => GuidedInv'
  BY GuidedNext
<1>3. GuidedInv => AppliedWasReported
  BY GuidedIsReported
<1> QED BY <1>1, <1>2, <1>3, PTL DEF GSpec

\* While every instance stays connected, handleRollbackStatus also shows a
\* rollback as failed only when that config was reported as failed.
THEOREM AnswersWereReported ==
    ASSUME PushConstants, MayLeave = FALSE
    PROVE  GSpec => []AnswerWasReported
<1>1. GInit => GuidedInv
  BY GuidedInit
<1>2. GuidedInv /\ [GNext]_GVars => GuidedInv'
  BY GuidedNext
<1>3. GuidedInv => AnswerWasReported
  BY GuidedIsReported
<1> QED BY <1>1, <1>2, <1>3, PTL DEF GSpec

---------------------------------------------------------------------------
(* A rollback to the default goes to what the history shows *)

\* Where the stored statuses are the shown ones, the row marked as current is of
\* the last applied config and the row marked as previous is the one
\* GetPreviousAppliedWorkloadConfig finds.
LEMMA PreviousIsShown ==
    ASSUME PushType, StoredIsShown, NEW x,
           LET i == GetLastAppliedWorkloadConfig IN x = IF i = 0 THEN NoConfig ELSE hist[i].config
    PROVE  /\ PreviousRow = GetPreviousAppliedWorkloadConfig(x)
           /\ PreviousRow # 0 => hist[PreviousRow].config # x
           /\ \A i \in CurrentRows : hist[i].config = x
<1> DEFINE A == {i \in DOMAIN hist : hist[i].status = "applied"}
<1>1. A = ShownApplied
  BY Zenon DEF StoredIsShown, ShownApplied
<1>2. GetLastAppliedWorkloadConfig = Latest(A)
  BY Zenon DEF GetLastAppliedWorkloadConfig
<1>3. GetPreviousAppliedWorkloadConfig(x) = Latest({j \in A : hist[j].config # x})
  <2>1. {j \in A : hist[j].config # x} = {j \in DOMAIN hist : hist[j].status = "applied" /\ hist[j].config # x}
    OBVIOUS
  <2> QED BY <2>1, Zenon DEF GetPreviousAppliedWorkloadConfig
<1>4. A \in SUBSET (1 .. Len(hist)) /\ Len(hist) \in Nat
  BY DEF PushType
<1> HIDE DEF A
<1>5. CurrentRows = {Latest(A)} \ {0}
  BY <1>1 DEF CurrentRows, PushType
<1>6. CASE A = {}
  <2>1. {j \in A : hist[j].config # x} = {}
        /\ {i \in A : hist[i].config \notin {hist[j].config : j \in CurrentRows}} = {}
    BY <1>6, Zenon
  <2>2. PreviousRow = GetPreviousAppliedWorkloadConfig(x) /\ PreviousRow = 0
    BY <1>1, <1>3, <2>1, Zenon DEF PreviousRow, Latest
  <2>3. CurrentRows = {}
    BY <1>5, <1>6, Zenon DEF Latest
  <2> QED BY <2>2, <2>3, Zenon
<1>7. CASE A # {}
  <2>1. Latest(A) # 0
    BY <1>4, <1>7, LatestIs, Zenon
  <2>2. PICK l : l = Latest(A)
    BY Zenon
  <2>3. CurrentRows = {l} /\ x = hist[l].config
    BY <1>2, <1>5, <2>1, <2>2
  <2> DEFINE P == {j \in A : hist[j].config # x}
  <2>4. {i \in A : hist[i].config \notin {hist[j].config : j \in CurrentRows}} = P
    BY <2>3
  <2>5. PreviousRow = Latest(P) /\ GetPreviousAppliedWorkloadConfig(x) = Latest(P)
    BY <1>1, <1>3, <2>4, Zenon DEF PreviousRow
  <2>6. PreviousRow # 0 => PreviousRow \in P
    <3>1. P \in SUBSET (1 .. Len(hist))
      BY <1>4, Zenon
    <3>2. PreviousRow # 0 => P # {}
      BY <2>5, Zenon DEF Latest
    <3> HIDE DEF P
    <3> QED BY <1>4, <2>5, <3>1, <3>2, LatestIs, Zenon
  <2> QED BY <2>3, <2>5, <2>6, Zenon
<1> QED BY <1>6, <1>7, Zenon

\* The known-good selector finds the latest row of the known-good config.
LEMMA MarkedIsKnownGood ==
    ASSUME PushType
    PROVE  LET m == resolveRollbackTarget("known_good")
           IN IF KnownGood # NoConfig /\ LatestOf(KnownGood) # 0
              THEN m # 0 /\ hist[m].config = KnownGood ELSE m = 0
<1> DEFINE S == {i \in DOMAIN hist : hist[i].config = KnownGood}
<1>1. resolveRollbackTarget("known_good") = IF KnownGood = NoConfig THEN 0 ELSE LatestOf(KnownGood)
  BY Zenon DEF resolveRollbackTarget
<1>2. LatestOf(KnownGood) = Latest(S)
  BY Zenon DEF LatestOf
<1>3. S \in SUBSET (1 .. Len(hist)) /\ Len(hist) \in Nat
  BY DEF PushType
<1>4. Latest(S) # 0 => Latest(S) \in S
  <2>1. Latest(S) # 0 => S # {}
    BY Zenon DEF Latest
  <2> HIDE DEF S
  <2> QED BY <1>3, <2>1, LatestIs, Zenon
<1> QED BY <1>1, <1>2, <1>4, Zenon

\* ResolveTarget takes the known-good config or the previous one, and not the
\* current one.
LEMMA ResolvedIsShown ==
    ASSUME PushType, StoredIsShown, NEW r \in Requests, ResolveTarget(r), req'[r].at = "record"
    PROVE  TargetIsShown(r)
<1> DEFINE i == GetLastAppliedWorkloadConfig
<1>1. PICK x, t : /\ x = IF i = 0 THEN NoConfig ELSE hist[i].config
                  /\ t = GetRollbackTarget(x)
                  /\ ReqStep(r, "resolve", IF t = NoConfig THEN [Idle EXCEPT !.at = "done"]
                                              ELSE [req[r] EXCEPT !.at = "record", !.target = t])
  BY Zenon DEF ResolveTarget, PushType
<1>2. req[r] \in Tasks /\ DOMAIN req = Requests
  BY Zenon DEF PushType, TaskType, IsAsking
<1>3. t # NoConfig /\ req'[r].target = t
  <2>1. [Idle EXCEPT !.at = "done"].at = "done"
    BY DEF Idle
  <2>2. [req[r] EXCEPT !.at = "record", !.target = t].target = t
    BY <1>2 DEF Tasks
  <2>3. req'[r] = IF t = NoConfig THEN [Idle EXCEPT !.at = "done"]
                   ELSE [req[r] EXCEPT !.at = "record", !.target = t]
    BY <1>1, <1>2, Zenon DEF ReqStep
  <2> QED BY <2>1, <2>2, <2>3
<1> DEFINE m == resolveRollbackTarget("known_good")
           shown == IF m # 0 THEN m ELSE PreviousRow
<1>4. /\ PreviousRow = GetPreviousAppliedWorkloadConfig(x)
      /\ PreviousRow # 0 => hist[PreviousRow].config # x
      /\ \A k \in CurrentRows : hist[k].config = x
  BY <1>1, PreviousIsShown, Zenon
<1>5. shown # 0 /\ t = hist[shown].config /\ t # x
  <2>1. CASE KnownGood # NoConfig /\ LatestOf(KnownGood) # 0
    <3>1. m # 0 /\ hist[m].config = KnownGood
      BY <2>1, MarkedIsKnownGood, Zenon
    <3>2. t = KnownGood /\ t # x
      BY <1>1, <1>3, <2>1, Zenon DEF GetRollbackTarget
    <3> QED BY <3>1, <3>2, Zenon
  <2>2. CASE ~ (KnownGood # NoConfig /\ LatestOf(KnownGood) # 0)
    <3>1. m = 0
      BY <2>2, MarkedIsKnownGood, Zenon
    <3>2. PreviousRow # 0 /\ t = hist[PreviousRow].config
      BY <1>1, <1>3, <1>4, <2>2, Zenon DEF GetRollbackTarget
    <3> QED BY <1>4, <3>1, <3>2, Zenon
  <2> QED BY <2>1, <2>2, Zenon
<1> QED BY <1>3, <1>4, <1>5, Zenon DEF TargetIsShown

\* Only ResolveTarget takes a request from "resolve" to "record".
LEMMA OnlyResolves ==
    ASSUME PushType, Next, NEW r \in Requests, req[r].at = "resolve", req'[r].at = "record"
    PROVE  ResolveTarget(r)
<1>1. DOMAIN req = Requests
  BY Zenon DEF PushType, TaskType
<1>2. req' # req
  BY Zenon
<1>3. ASSUME NEW s \in Requests, NEW f, NEW q, f # "resolve", ReqStep(s, f, q) PROVE FALSE
  <2>1. req[s].at = f /\ req' = [req EXCEPT ![s] = q]
    BY <1>3, Zenon DEF ReqStep
  <2>2. s # r
    BY <1>3, <2>1, Zenon
  <2>3. req'[r] = req[r]
    BY <1>1, <2>1, <2>2, Zenon
  <2> QED BY <2>3
<1>4. ASSUME NEW s \in Requests, s # r, NEW q, ReqStep(s, "resolve", q) PROVE FALSE
  <2>1. req'[r] = req[r]
    BY <1>1, <1>4, Zenon DEF ReqStep
  <2> QED BY <2>1
<1>5. CASE \E u \in UIDs : Handler(u) \/ AgentHandles(u) \/ Disconnect(u) \/ Reconnect(u)
  BY <1>2, <1>5, Zenon DEF Handler, AgentHandles, Disconnect, Reconnect,
     handleRemoteConfigStatus, MergeStatus, attemptAutoRollback, SendRollback, RecordRollback, MarkRollback
<1>6. CASE \E s \in Requests : Request(s) \/ handleRollbackWorkloadDefault(s)
  BY <1>3, <1>4, <1>6, Zenon DEF Request, handleRollbackWorkloadDefault, CheckConcurrent, ResolveTarget,
     RecordPush, StartPush, SendPush, FinishPush
<1>7. CASE \E s \in Requests, c \in Configs : handlePushApproval(s, c) \/ handleRollbackWorkloadConfig(s, c)
  BY <1>3, <1>7, Zenon DEF handlePushApproval, handleRollbackWorkloadConfig
<1> QED BY <1>5, <1>6, <1>7, Zenon DEF Next

\* A rollback to the default (GetRollbackTarget) goes to the known-good config,
\* or else to the row that decorateWorkloadConfigHistory marks as previous, and
\* not to one it marks as current, as long as the stored statuses are the ones
\* the history shows.
THEOREM DefaultsAreShown ==
    ASSUME PushConstants, MayLeave \in BOOLEAN PROVE GSpec => DefaultIsShown
<1>1. GInit => GuidedInv
  BY GuidedInit
<1>2. GuidedInv /\ [GNext]_GVars => GuidedInv'
  BY GuidedNext
<1>3. GuidedInv /\ [GNext]_GVars => [\A r \in DOMAIN req : TargetIsShown(r)]_GVars
  <2> SUFFICES ASSUME GuidedInv, GNext, NEW r \in DOMAIN req,
                      req[r].at = "resolve", req'[r].at = "record", StoredIsShown
               PROVE  TargetIsShown(r)
    BY Zenon DEF TargetIsShown
  <2>1. r \in Requests /\ PushType
    BY Zenon DEF GuidedInv, PushType, TaskType
  <2>2. req' # req
    BY Zenon
  <2>3. Next
    BY <2>2, Zenon DEF GNext, PushStep, ReadWorkload, WriteWorkload, PollRow, handleRollbackStatus, vars
  <2> QED BY <2>1, <2>3, OnlyResolves, ResolvedIsShown, Zenon
<1> QED BY <1>1, <1>2, <1>3, PTL DEF GSpec, DefaultIsShown
===============================================================================
