----------------------- MODULE WorkloadIdentityProofs -----------------------
(***************************************************************************)
(* The identity and the history of the workloads, for any agents and any   *)
(* descriptions: the rows keep their components, an instance moves only    *)
(* with its identity, and the log of its events is a chain that misses     *)
(* nothing.                                                                *)
(***************************************************************************)
EXTENDS WorkloadIdentity, TLAPS

\* The workloads and the versions that descriptions make.
HomesOf(u) == {Fingerprint(flattenAttrs(d), u) : d \in Descriptions[u]}
Homes == UNION {HomesOf(u) : u \in UIDs}
VersionsOf(u) == {flattenAttrs(d)["service.version"] : d \in Descriptions[u]}
Versions == {""} \cup UNION {VersionsOf(u) : u \in UIDs}
BindTypes == {"connected", "version_changed"}
Events == [wl : Homes, uid : UIDs, type : BindTypes \cup {"disconnected"}, version : Versions, prev : Versions]

IdentityConstants == None \notin Homes /\ None \notin Events

Phases == {"idle", "load", "upsert", "event", "components", "refresh", "rewrite", "reply"}

IsHandler(q) == DOMAIN q = {"at", "wl", "read", "attrs", "comps", "event", "ask"}
IsAgent(q) == DOMAIN q = {"open", "attrs", "ask", "answered", "messages", "releases"} /\ q.releases \in Nat

\* A handler that is under way works for the workload its agent is bound to; it
\* has an event until it has written it, about its agent as it is bound; and
\* what it writes back is a row.
HandlerOK(q, u, g) ==
    /\ IsHandler(q) /\ q.at \in Phases
    /\ q.at \notin {"load", "upsert", "event"} => q.event = None
    /\ q.at # "idle" => g # NoInstance /\ q.wl = g.wl
    /\ q.event # None => /\ q.event \in Events /\ q.event.type \in BindTypes
                         /\ q.event.uid = u /\ q.event.wl = g.wl /\ q.event.version = g.version
    /\ q.at = "rewrite" => "comps" \in DOMAIN q.read

\* An agent is bound to what its last description says.
BindingOK(g, u, a) ==
    g # NoInstance => g.wl = Fingerprint(a.attrs, u) /\ g.wl \in HomesOf(u) /\ g.version \in VersionsOf(u)

IdInv ==
    /\ registry \in [UIDs -> [wl : Homes \cup {None}, version : Versions]]
    /\ DOMAIN h = UIDs /\ DOMAIN agent = UIDs /\ DOMAIN tails = UIDs
    /\ log \in Seq(Events \cup {None})
    /\ \A w \in DOMAIN row : "comps" \in DOMAIN row[w]
    /\ \A u \in UIDs : HandlerOK(h[u], u, registry[u]) /\ BindingOK(registry[u], u, agent[u]) /\ IsAgent(agent[u])
    /\ \A u \in UIDs : \A t \in tails[u] : t[1] \in Nat /\ t[2] \in HomesOf(u)

LEMMA IdInit == ASSUME IdentityConstants, Init PROVE IdInv
<1>1. NoInstance \in [wl : Homes \cup {None}, version : Versions]
  BY Zenon DEF NoInstance, Versions
<1>2. registry \in [UIDs -> [wl : Homes \cup {None}, version : Versions]] /\ \A u \in UIDs : registry[u] = NoInstance
  BY <1>1, Zenon DEF Init
<1>3. IsHandler(Idle) /\ Idle.at = "idle" /\ Idle.event = None
  BY DEF Idle, IsHandler
<1>4. IsAgent(NewAgent)
  BY DEF NewAgent, IsAgent
<1>5. ASSUME NEW u \in UIDs
      PROVE  HandlerOK(h[u], u, registry[u]) /\ BindingOK(registry[u], u, agent[u]) /\ IsAgent(agent[u]) /\ tails[u] = {}
  <2>1. h[u] = Idle /\ agent[u] = NewAgent /\ registry[u] = NoInstance /\ tails[u] = {}
    BY <1>2, Zenon DEF Init
  <2>2. HandlerOK(Idle, u, registry[u])
    BY <1>3 DEF HandlerOK, Phases
  <2> QED BY <1>4, <2>1, <2>2, Zenon DEF BindingOK
<1>6. log \in Seq(Events \cup {None}) /\ DOMAIN row = {}
  BY DEF Init
<1>7. DOMAIN h = UIDs /\ DOMAIN agent = UIDs /\ DOMAIN tails = UIDs
  BY Zenon DEF Init
<1> QED BY <1>2, <1>5, <1>6, <1>7, Zenon DEF IdInv

\* Every agent has the description and the number of releases that it had.
AgentsKept ==
    /\ DOMAIN agent' = UIDs
    /\ \A v \in UIDs : IsAgent(agent'[v]) /\ agent'[v].attrs = agent[v].attrs /\ agent'[v].releases = agent[v].releases

\* A step of the handler of u that binds and logs nothing: it goes on with
\* the same event, or has none.  A row may be written.
Calm(u) ==
    /\ UNCHANGED <<registry, log, tails>>
    /\ DOMAIN h' = UIDs /\ \A v \in UIDs : v # u => h'[v] = h[v]
    /\ HandlerOK(h'[u], u, registry[u]) /\ h'[u].event = h[u].event
    /\ h'[u].at \in {"load", "upsert"} => h[u].at \in {"load", "upsert"}
    /\ h'[u].at \notin {"load", "upsert"} /\ h[u].at \in {"load", "upsert"} => h[u].wl \in DOMAIN row'
    /\ DOMAIN row \subseteq DOMAIN row' /\ \A w \in DOMAIN row' : "comps" \in DOMAIN row'[w]
    /\ \A w \in DOMAIN row : row[w].comps # None => row'[w].comps # None
    /\ AgentsKept

LEMMA CalmInv == ASSUME IdInv, NEW u \in UIDs, Calm(u) PROVE IdInv'
<1>1. HandlerOK(h'[u], u, registry[u])
  BY Zenon DEF Calm, AgentsKept
<1>2. DOMAIN h' = UIDs /\ \A v \in UIDs : v # u => h'[v] = h[v]
  BY Zenon DEF Calm, AgentsKept
<1>3. ASSUME NEW v \in UIDs PROVE HandlerOK(h'[v], v, registry'[v]) /\ BindingOK(registry'[v], v, agent'[v]) /\ IsAgent(agent'[v])
  <2>1. UNCHANGED registry /\ IsAgent(agent'[v]) /\ agent'[v].attrs = agent[v].attrs
    BY Zenon DEF Calm, AgentsKept
  <2> QED BY <1>1, <1>2, <2>1, Zenon DEF IdInv, BindingOK
<1>4. UNCHANGED <<registry, log, tails>> /\ DOMAIN agent' = UIDs /\ \A w \in DOMAIN row' : "comps" \in DOMAIN row'[w]
  BY Zenon DEF Calm, AgentsKept
<1> QED BY <1>2, <1>3, <1>4, Zenon DEF IdInv

\* A row that is replaced keeps its components when the new one has none.
LEMMA UpsertKeeps ==
    ASSUME IdInv, NEW w, NEW r, "comps" \in DOMAIN r, UpsertWorkload(w, r)
    PROVE  /\ DOMAIN row' = DOMAIN row \cup {w}
           /\ \A v \in DOMAIN row' : "comps" \in DOMAIN row'[v]
           /\ \A v \in DOMAIN row : row[v].comps # None => row'[v].comps # None
<1> DEFINE new == IF r.comps = None /\ w \in DOMAIN row THEN [r EXCEPT !.comps = row[w].comps] ELSE r
<1>1. DOMAIN row' = DOMAIN row \cup {w} /\ \A v \in DOMAIN row' : row'[v] = IF v # w THEN row[v] ELSE new
  BY Zenon DEF UpsertWorkload
<1>2. "comps" \in DOMAIN new
  BY Zenon
<1>3. w \in DOMAIN row /\ row[w].comps # None => new.comps # None
  BY Zenon
<1> HIDE DEF new
<1>4. \A v \in DOMAIN row : "comps" \in DOMAIN row[v]
  BY Zenon DEF IdInv
<1> QED BY <1>1, <1>2, <1>3, <1>4

LEMMA MergedIsARow == ASSUME NEW a, NEW comps, NEW old PROVE "comps" \in DOMAIN Merged(a, comps, old)
BY Zenon DEF Merged

LEMMA SameAgents == ASSUME IdInv, UNCHANGED agent
    PROVE AgentsKept
BY Zenon DEF IdInv, AgentsKept

LEMMA SameRows == ASSUME IdInv, UNCHANGED row
    PROVE /\ DOMAIN row \subseteq DOMAIN row' /\ \A w \in DOMAIN row' : "comps" \in DOMAIN row'[w]
          /\ \A w \in DOMAIN row : row[w].comps # None => row'[w].comps # None
BY Zenon DEF IdInv

LEMMA Moves == ASSUME IdInv, NEW u \in UIDs, NEW q, h' = [h EXCEPT ![u] = q]
    PROVE DOMAIN h' = UIDs /\ h'[u] = q /\ \A v \in UIDs : v # u => h'[v] = h[v]
BY Zenon DEF IdInv

LEMMA CalmConnect == ASSUME IdInv, NEW u \in UIDs, Connect(u) PROVE Calm(u)
<1>1. UNCHANGED <<registry, row, log, h, tails>> /\ agent' = [agent EXCEPT ![u].open = TRUE]
  BY Zenon DEF Connect
<1>2. HandlerOK(h[u], u, registry[u]) /\ DOMAIN h = UIDs /\ DOMAIN agent = UIDs /\ \A v \in UIDs : IsAgent(agent[v])
  BY Zenon DEF IdInv
<1>3. \A v \in UIDs : v # u => agent'[v] = agent[v]
  BY <1>1, <1>2, Zenon
<1>4. agent'[u] = [agent[u] EXCEPT !.open = TRUE] /\ DOMAIN agent' = UIDs
  BY <1>1, <1>2, Zenon
<1>5. IsAgent(agent'[u]) /\ agent'[u].attrs = agent[u].attrs /\ agent'[u].releases = agent[u].releases
  BY <1>2, <1>4, Zenon DEF IsAgent
<1>6. DOMAIN h' = UIDs /\ \A v \in UIDs : h'[v] = h[v]
  BY <1>1, <1>2, Zenon
<1>7. \A v \in UIDs : IsAgent(agent'[v]) /\ agent'[v].attrs = agent[v].attrs /\ agent'[v].releases = agent[v].releases
  BY <1>2, <1>3, <1>5, Zenon
<1> QED BY <1>1, <1>2, <1>4, <1>6, <1>7, SameRows, Zenon DEF Calm, AgentsKept

LEMMA CalmLoad == ASSUME IdInv, NEW u \in UIDs, LoadForDescription(u) PROVE Calm(u)
<1> DEFINE q == [h[u] EXCEPT !.at = "upsert", !.read = GetWorkload(h[u].wl)]
<1>1. UNCHANGED <<registry, row, log, tails, agent>> /\ h[u].at = "load" /\ h' = [h EXCEPT ![u] = q]
  BY Zenon DEF LoadForDescription, Step
<1>2. HandlerOK(h[u], u, registry[u])
  BY Zenon DEF IdInv
<1>3. IsHandler(q) /\ q.at = "upsert" /\ q.event = h[u].event /\ q.wl = h[u].wl
  BY <1>2, Zenon DEF HandlerOK, IsHandler
<1> HIDE DEF q
<1>4. HandlerOK(q, u, registry[u])
  BY <1>1, <1>2, <1>3 DEF HandlerOK, Phases
<1>9. DOMAIN h' = UIDs /\ h'[u] = q /\ \A v \in UIDs : v # u => h'[v] = h[v]
  BY <1>1, Moves, Zenon
<1> QED BY <1>1, <1>3, <1>4, <1>9, SameRows, SameAgents, Zenon DEF Calm

LEMMA CalmUpsert == ASSUME IdInv, NEW u \in UIDs, upsertWorkloadFromDescription(u) PROVE Calm(u)
<1> DEFINE q == [h[u] EXCEPT !.at = "event", !.read = None, !.attrs = None, !.comps = None]
<1>1. UNCHANGED <<registry, log, tails, agent>> /\ h[u].at = "upsert" /\ h' = [h EXCEPT ![u] = q]
  BY Zenon DEF upsertWorkloadFromDescription, Step
<1>2. HandlerOK(h[u], u, registry[u])
  BY Zenon DEF IdInv
<1>3. IsHandler(q) /\ q.at = "event" /\ q.event = h[u].event /\ q.wl = h[u].wl
  BY <1>2, Zenon DEF HandlerOK, IsHandler
<1> HIDE DEF q
<1>4. HandlerOK(q, u, registry[u])
  BY <1>1, <1>2, <1>3 DEF HandlerOK, Phases
<1>5. UpsertWorkload(h[u].wl, Merged(h[u].attrs, h[u].comps, h[u].read))
  BY Zenon DEF upsertWorkloadFromDescription
<1>6. DOMAIN row' = DOMAIN row \cup {h[u].wl} /\ (\A v \in DOMAIN row' : "comps" \in DOMAIN row'[v])
      /\ \A v \in DOMAIN row : row[v].comps # None => row'[v].comps # None
  BY <1>5, MergedIsARow, UpsertKeeps, Zenon
<1>7. DOMAIN row \subseteq DOMAIN row' /\ h[u].wl \in DOMAIN row'
  BY <1>6, Zenon
<1>9. DOMAIN h' = UIDs /\ h'[u] = q /\ \A v \in UIDs : v # u => h'[v] = h[v]
  BY <1>1, Moves, Zenon
<1> QED BY <1>1, <1>3, <1>4, <1>6, <1>9, <1>7, SameAgents, Zenon DEF Calm

LEMMA CalmAsk == ASSUME IdInv, NEW u \in UIDs, shouldRequestAvailableComponents(u) PROVE Calm(u)
<1> DEFINE q == [h[u] EXCEPT !.at = "refresh", !.ask = @ /\ h[u].wl \in DOMAIN row /\ row[h[u].wl].comps = None]
<1>1. UNCHANGED <<registry, row, log, tails, agent>> /\ h[u].at = "components" /\ h' = [h EXCEPT ![u] = q]
  BY Zenon DEF shouldRequestAvailableComponents, Step
<1>2. HandlerOK(h[u], u, registry[u])
  BY Zenon DEF IdInv
<1>3. IsHandler(q) /\ q.at = "refresh" /\ q.event = h[u].event /\ q.wl = h[u].wl
  BY <1>2, Zenon DEF HandlerOK, IsHandler
<1> HIDE DEF q
<1>4. HandlerOK(q, u, registry[u])
  BY <1>1, <1>2, <1>3 DEF HandlerOK, Phases
<1>9. DOMAIN h' = UIDs /\ h'[u] = q /\ \A v \in UIDs : v # u => h'[v] = h[v]
  BY <1>1, Moves, Zenon
<1> QED BY <1>1, <1>3, <1>4, <1>9, SameRows, SameAgents, Zenon DEF Calm

\* Agents whose description and number of releases stay.
LEMMA KeepsAgents ==
    ASSUME IdInv, NEW u \in UIDs, NEW q, agent' = [agent EXCEPT ![u] = q], IsAgent(q),
           q.attrs = agent[u].attrs, q.releases = agent[u].releases
    PROVE  AgentsKept
<1>1. DOMAIN agent = UIDs /\ \A v \in UIDs : IsAgent(agent[v])
  BY Zenon DEF IdInv
<1>2. DOMAIN agent' = UIDs /\ agent'[u] = q /\ \A v \in UIDs : v # u => agent'[v] = agent[v]
  BY <1>1, Zenon
<1> QED BY <1>1, <1>2, Zenon DEF AgentsKept

LEMMA CalmKnown == ASSUME IdInv, NEW u \in UIDs, handleKnownInstanceUpdate(u) PROVE Calm(u)
<1>1. UNCHANGED <<registry, row, log, tails>> /\ h[u].at = "idle"
  BY Zenon DEF handleKnownInstanceUpdate
<1>2. HandlerOK(h[u], u, registry[u]) /\ DOMAIN h = UIDs /\ IsAgent(agent[u])
  BY Zenon DEF IdInv
<1>3. CASE registry[u] = NoInstance
  <2> DEFINE p == [agent[u] EXCEPT !.messages = @ + 1]
  <2>1. UNCHANGED h /\ agent' = [agent EXCEPT ![u].messages = @ + 1]
    BY <1>3, Zenon DEF handleKnownInstanceUpdate
  <2>2. agent' = [agent EXCEPT ![u] = p]
    BY <2>1, Zenon
  <2>3. IsAgent(p) /\ p.attrs = agent[u].attrs /\ p.releases = agent[u].releases
    BY <1>2, Zenon DEF IsAgent
  <2> HIDE DEF p
  <2>4. AgentsKept
    BY <2>2, <2>3, KeepsAgents, Zenon
  <2>5. DOMAIN h' = UIDs /\ \A v \in UIDs : h'[v] = h[v]
    BY <1>2, <2>1, Zenon
  <2> QED BY <1>1, <1>2, <2>4, <2>5, SameRows, Zenon DEF Calm
<1>4. CASE registry[u] # NoInstance
  <2> DEFINE p == [agent[u] EXCEPT !.answered = @ \/ agent[u].ask, !.ask = FALSE, !.messages = @ + 1]
             q == [Idle EXCEPT !.at = "refresh", !.wl = registry[u].wl]
  <2>1. h' = [h EXCEPT ![u] = q]
        /\ agent' = [agent EXCEPT ![u].answered = @ \/ agent[u].ask, ![u].ask = FALSE, ![u].messages = @ + 1]
    BY <1>4, Zenon DEF handleKnownInstanceUpdate
  <2>2. agent' = [agent EXCEPT ![u] = p]
    <3>1. DOMAIN agent = UIDs
      BY Zenon DEF IdInv
    <3> QED BY <2>1, <1>2, <3>1 DEF IsAgent
  <2>3. IsAgent(p) /\ p.attrs = agent[u].attrs /\ p.releases = agent[u].releases
    BY <1>2, Zenon DEF IsAgent
  <2>4. IsHandler(q) /\ q.at = "refresh" /\ q.wl = registry[u].wl /\ q.event = None
    BY DEF Idle, IsHandler
  <2> HIDE DEF p, q
  <2>5. AgentsKept
    BY <2>2, <2>3, KeepsAgents, Zenon
  <2>6. DOMAIN h' = UIDs /\ h'[u] = q /\ \A v \in UIDs : v # u => h'[v] = h[v]
    BY <2>1, Moves, Zenon
  <2>7. HandlerOK(q, u, registry[u])
    BY <1>4, <2>4 DEF HandlerOK, Phases
  <2>8. q.event = h[u].event
    BY <1>1, <1>2, <2>4 DEF HandlerOK
  <2> QED BY <1>1, <1>2, <2>4, <2>5, <2>6, <2>7, <2>8, SameRows, Zenon DEF Calm
<1> QED BY <1>3, <1>4, Zenon

LEMMA CalmRead == ASSUME IdInv, NEW u \in UIDs, LoadForRefresh(u) PROVE Calm(u)
<1> DEFINE q == [h[u] EXCEPT !.at = IF h[u].wl \in DOMAIN row THEN "rewrite" ELSE "reply", !.read = GetWorkload(h[u].wl)]
<1>1. UNCHANGED <<registry, row, log, tails, agent>> /\ h[u].at = "refresh" /\ h' = [h EXCEPT ![u] = q]
  BY Zenon DEF LoadForRefresh, Step
<1>2. HandlerOK(h[u], u, registry[u])
  BY Zenon DEF IdInv
<1>3. IsHandler(q) /\ q.event = h[u].event /\ q.wl = h[u].wl /\ q.at = (IF h[u].wl \in DOMAIN row THEN "rewrite" ELSE "reply")
      /\ q.read = GetWorkload(h[u].wl)
  BY <1>2, Zenon DEF HandlerOK, IsHandler
<1> HIDE DEF q
<1>5. q.at = "rewrite" => "comps" \in DOMAIN q.read
  <2>1. SUFFICES ASSUME h[u].wl \in DOMAIN row PROVE "comps" \in DOMAIN q.read
    BY <1>3
  <2> QED BY <1>3, <2>1, Zenon DEF GetWorkload, IdInv
<1>6. q.at \in {"rewrite", "reply"}
  BY <1>3, Zenon
<1>4. HandlerOK(q, u, registry[u])
  BY <1>1, <1>2, <1>3, <1>5, <1>6 DEF HandlerOK, Phases
<1>9. DOMAIN h' = UIDs /\ h'[u] = q /\ \A v \in UIDs : v # u => h'[v] = h[v]
  BY <1>1, Moves, Zenon
<1>10. h[u].at \notin {"load", "upsert"} /\ q.at \notin {"load", "upsert"}
  BY <1>1, <1>6
<1> QED BY <1>1, <1>3, <1>4, <1>9, <1>10, SameRows, SameAgents, Zenon DEF Calm

LEMMA CalmRewrite == ASSUME IdInv, NEW u \in UIDs, refreshWorkloadState(u) PROVE Calm(u)
<1> DEFINE q == [h[u] EXCEPT !.at = "reply", !.read = None]
<1>1. UNCHANGED <<registry, log, tails, agent>> /\ h[u].at = "rewrite" /\ h' = [h EXCEPT ![u] = q]
  BY Zenon DEF refreshWorkloadState, Step
<1>2. HandlerOK(h[u], u, registry[u])
  BY Zenon DEF IdInv
<1>3. IsHandler(q) /\ q.at = "reply" /\ q.event = h[u].event /\ q.wl = h[u].wl
  BY <1>2, Zenon DEF HandlerOK, IsHandler
<1> HIDE DEF q
<1>4. HandlerOK(q, u, registry[u])
  BY <1>1, <1>2, <1>3 DEF HandlerOK, Phases
<1>5. UpsertWorkload(h[u].wl, h[u].read) /\ "comps" \in DOMAIN h[u].read
  BY <1>1, <1>2, Zenon DEF refreshWorkloadState, HandlerOK
<1>6. DOMAIN row' = DOMAIN row \cup {h[u].wl} /\ (\A v \in DOMAIN row' : "comps" \in DOMAIN row'[v])
      /\ \A v \in DOMAIN row : row[v].comps # None => row'[v].comps # None
  BY <1>5, UpsertKeeps, Zenon
<1>7. DOMAIN row \subseteq DOMAIN row'
  BY <1>6, Zenon
<1>9. DOMAIN h' = UIDs /\ h'[u] = q /\ \A v \in UIDs : v # u => h'[v] = h[v]
  BY <1>1, Moves, Zenon
<1>10. h[u].at \notin {"load", "upsert"} /\ q.at \notin {"load", "upsert"}
  BY <1>1, <1>3
<1> QED BY <1>1, <1>3, <1>4, <1>6, <1>7, <1>9, <1>10, SameAgents, Zenon DEF Calm

LEMMA CalmReply == ASSUME IdInv, NEW u \in UIDs, replyToAgent(u) PROVE Calm(u)
<1> DEFINE p == [agent[u] EXCEPT !.ask = @ \/ h[u].ask]
<1>1. /\ UNCHANGED <<registry, row, log, tails>> /\ h[u].at = "reply"
      /\ h' = [h EXCEPT ![u] = Idle] /\ agent' = [agent EXCEPT ![u] = p]
  BY Zenon DEF replyToAgent, Step
<1>2. HandlerOK(h[u], u, registry[u]) /\ IsAgent(agent[u])
  BY Zenon DEF IdInv
<1>3. IsAgent(p) /\ p.attrs = agent[u].attrs /\ p.releases = agent[u].releases
  BY <1>2, Zenon DEF IsAgent
<1> HIDE DEF p
<1>4. AgentsKept
  BY <1>1, <1>3, KeepsAgents, Zenon
<1>5. IsHandler(Idle) /\ Idle.at = "idle" /\ Idle.event = None
  BY DEF Idle, IsHandler
<1>6. HandlerOK(Idle, u, registry[u])
  BY <1>5 DEF HandlerOK, Phases
<1>7. h[u].event = None
  BY <1>1, <1>2 DEF HandlerOK
<1>9. DOMAIN h' = UIDs /\ h'[u] = Idle /\ \A v \in UIDs : v # u => h'[v] = h[v]
  BY <1>1, Moves, Zenon
<1>10. h[u].at \notin {"load", "upsert"} /\ Idle.at \notin {"load", "upsert"}
  BY <1>1, <1>5
<1> QED BY <1>1, <1>4, <1>5, <1>6, <1>7, <1>9, <1>10, SameRows, Zenon DEF Calm
\* The event of a binding, if there is one.
BindEvent(e, u, w, v) ==
    /\ registry[u] = NoInstance => e # None /\ e.type = "connected"
    /\ registry[u] # NoInstance /\ registry[u].version # "" /\ registry[u].version # v
         => e # None /\ e.type = "version_changed" /\ e.prev = registry[u].version
    /\ registry[u] # NoInstance /\ (registry[u].version = "" \/ registry[u].version = v) => e = None
    /\ e # None => e \in Events /\ e.type \in BindTypes /\ e.uid = u /\ e.wl = w /\ e.version = v

\* What a description does: it binds its agent to the workload it says, with an
\* event if the agent was not bound, or was with another version.
Binds(u, w, v) ==
    /\ w \in HomesOf(u) /\ v \in VersionsOf(u)
    /\ UNCHANGED <<row, log, tails>>
    /\ h[u].at = "idle" /\ h'[u].at = "load"
    /\ DOMAIN h' = UIDs /\ \A x \in UIDs : x # u => h'[x] = h[x]
    /\ registry' = [registry EXCEPT ![u] = [wl |-> w, version |-> v]]
    /\ registry'[u] = [wl |-> w, version |-> v] /\ registry'[u] # NoInstance
    /\ DOMAIN agent' = UIDs /\ agent'[u].releases = agent[u].releases /\ \A x \in UIDs : x # u => agent'[x] = agent[x]
    /\ BindEvent(h'[u].event, u, w, v)

LEMMA HomesAre == ASSUME NEW u \in UIDs, NEW w \in HomesOf(u) PROVE w \in Homes
BY Zenon DEF Homes

LEMMA VersionsAre == ASSUME NEW u \in UIDs, NEW v \in VersionsOf(u) PROVE v \in Versions
BY Zenon DEF Versions

LEMMA BindEvents ==
    ASSUME IdentityConstants, IdInv, NEW u \in UIDs, NEW w \in HomesOf(u), NEW v \in VersionsOf(u),
           NEW e, e = emitBindEvent(u, w, v)
    PROVE  BindEvent(e, u, w, v)
<1> DEFINE f == [wl |-> w, uid |-> u, type |-> "connected", version |-> v, prev |-> ""]
           g == [f EXCEPT !.type = "version_changed", !.prev = registry[u].version]
<1>1. w \in Homes /\ v \in Versions /\ "" \in Versions
  BY HomesAre, VersionsAre, Zenon DEF Versions
<1>2. registry[u].version \in Versions
  BY DEF IdInv
<1>3. f \in Events /\ f.type = "connected" /\ f.uid = u /\ f.wl = w /\ f.version = v
  BY <1>1 DEF Events, BindTypes
<1>4. g \in Events /\ g.type = "version_changed" /\ g.uid = u /\ g.wl = w /\ g.version = v /\ g.prev = registry[u].version
  BY <1>1, <1>2 DEF Events, BindTypes
<1>5. e = IF registry[u] = NoInstance THEN f
          ELSE IF registry[u].version # "" /\ registry[u].version # v THEN g ELSE None
  BY Zenon DEF emitBindEvent
<1> HIDE DEF f, g
<1>6. None \notin Events
  BY Zenon DEF IdentityConstants
<1> QED BY <1>3, <1>4, <1>5, <1>6 DEF BindTypes, BindEvent

LEMMA DescriptionBinds ==
    ASSUME IdentityConstants, IdInv, NEW u \in UIDs, NEW d \in Descriptions[u], NEW comps, handleAgentDescription(u, d, comps)
    PROVE  /\ Binds(u, Fingerprint(flattenAttrs(d), u), flattenAttrs(d)["service.version"])
           /\ HandlerOK(h'[u], u, registry'[u]) /\ IsAgent(agent'[u])
           /\ agent'[u].attrs = flattenAttrs(d)
<1>0. PICK a : a = flattenAttrs(d)
  BY Zenon
<1>1. PICK w : w = Fingerprint(a, u)
  BY Zenon
<1>2. PICK v : v = a["service.version"]
  BY Zenon
<1>3. PICK e : e = emitBindEvent(u, w, v)
  BY Zenon
<1>4. w \in HomesOf(u) /\ v \in VersionsOf(u)
  BY <1>0, <1>1, <1>2, Zenon DEF HomesOf, VersionsOf
<1> DEFINE q == [Idle EXCEPT !.at = "load", !.wl = w, !.attrs = a, !.comps = comps, !.ask = d.reportsComponents, !.event = e]
           p == [agent[u] EXCEPT !.attrs = a, !.messages = @ + 1]
<1>5. h[u].at = "idle" /\ h' = [h EXCEPT ![u] = q]
  BY <1>0, <1>1, <1>2, <1>3, Zenon DEF handleAgentDescription, Step
<1>6. registry' = [registry EXCEPT ![u] = [wl |-> w, version |-> v]] /\ UNCHANGED <<row, log, tails>>
  BY <1>0, <1>1, <1>2, Zenon DEF handleAgentDescription
<1>7. agent' = [agent EXCEPT ![u].attrs = a, ![u].messages = @ + 1]
  BY <1>0, Zenon DEF handleAgentDescription
<1>8. DOMAIN agent = UIDs /\ IsAgent(agent[u]) /\ DOMAIN registry = UIDs
  BY DEF IdInv
<1>9. agent'[u] = p /\ DOMAIN agent' = UIDs /\ \A x \in UIDs : x # u => agent'[x] = agent[x]
  BY <1>7, <1>8 DEF IsAgent
<1>10. IsAgent(p) /\ p.attrs = a /\ p.releases = agent[u].releases
  BY <1>8, Zenon DEF IsAgent
<1>11. IsHandler(q) /\ q.at = "load" /\ q.wl = w /\ q.event = e
  BY DEF IsHandler, Idle
<1> HIDE DEF p, q
<1>12. DOMAIN h' = UIDs /\ h'[u] = q /\ \A x \in UIDs : x # u => h'[x] = h[x]
  BY <1>5, Moves, Zenon
<1>13. registry'[u] = [wl |-> w, version |-> v] /\ registry'[u].wl = w /\ registry'[u].version = v
  BY <1>6, <1>8
<1>14. registry'[u] # NoInstance
  <2>1. w # None
    BY <1>4, HomesAre, Zenon DEF IdentityConstants
  <2>2. NoInstance.wl = None
    BY DEF NoInstance
  <2> QED BY <1>13, <2>1, <2>2
<1>15. BindEvent(e, u, w, v)
  BY <1>3, <1>4, BindEvents, Zenon
<1>16. HandlerOK(q, u, registry'[u])
  BY <1>11, <1>13, <1>14, <1>15 DEF HandlerOK, Phases, BindEvent
<1>17. Binds(u, w, v)
  BY <1>4, <1>5, <1>6, <1>9, <1>10, <1>11, <1>12, <1>13, <1>14, <1>15, Zenon DEF Binds
<1> QED BY <1>0, <1>1, <1>2, <1>9, <1>10, <1>12, <1>16, <1>17, Zenon

LEMMA BindInv ==
    ASSUME IdentityConstants, IdInv, NEW u \in UIDs, NEW d \in Descriptions[u], NEW comps, handleAgentDescription(u, d, comps)
    PROVE  IdInv'
<1>1. PICK w : w = Fingerprint(flattenAttrs(d), u)
  BY Zenon
<1>2. PICK v : v = flattenAttrs(d)["service.version"]
  BY Zenon
<1>3. Binds(u, w, v) /\ HandlerOK(h'[u], u, registry'[u]) /\ IsAgent(agent'[u]) /\ agent'[u].attrs = flattenAttrs(d)
  BY <1>1, <1>2, DescriptionBinds, Zenon
<1>4. w \in Homes /\ v \in Versions /\ w \in HomesOf(u) /\ v \in VersionsOf(u)
  BY <1>3, HomesAre, VersionsAre, Zenon DEF Binds
<1>5. [wl |-> w, version |-> v] \in [wl : Homes \cup {None}, version : Versions]
  BY <1>4
<1>6. registry' = [registry EXCEPT ![u] = [wl |-> w, version |-> v]] /\ registry'[u] = [wl |-> w, version |-> v]
  BY <1>3, Zenon DEF Binds
<1>7. registry' \in [UIDs -> [wl : Homes \cup {None}, version : Versions]] /\ \A x \in UIDs : x # u => registry'[x] = registry[x]
  BY <1>5, <1>6, Zenon DEF IdInv
<1>8. BindingOK(registry'[u], u, agent'[u])
  <2>1. registry'[u].wl = w /\ registry'[u].version = v
    BY <1>6
  <2> QED BY <1>1, <1>3, <1>4, <2>1, Zenon DEF BindingOK
<1>9. UNCHANGED <<row, log, tails>> /\ DOMAIN h' = UIDs /\ DOMAIN agent' = UIDs
      /\ \A x \in UIDs : x # u => h'[x] = h[x] /\ agent'[x] = agent[x]
  BY <1>3, Zenon DEF Binds
<1>10. ASSUME NEW x \in UIDs
       PROVE HandlerOK(h'[x], x, registry'[x]) /\ BindingOK(registry'[x], x, agent'[x]) /\ IsAgent(agent'[x])
  BY <1>3, <1>7, <1>8, <1>9, Zenon DEF IdInv
<1> QED BY <1>7, <1>9, <1>10, Zenon DEF IdInv
\* What the write of a binding's event does.
Emits(u) ==
    /\ UNCHANGED <<registry, row, tails, agent>>
    /\ h[u].at = "event" /\ h'[u].at = "components" /\ h'[u].event = None
    /\ DOMAIN h' = UIDs /\ \A v \in UIDs : v # u => h'[v] = h[v]
    /\ log' = IF h[u].event # None /\ h[u].wl \in DOMAIN row THEN Append(log, h[u].event) ELSE log

LEMMA EventEmits == ASSUME IdInv, NEW u \in UIDs, EmitEvent(u) PROVE Emits(u) /\ HandlerOK(h'[u], u, registry[u])
<1> DEFINE q == [h[u] EXCEPT !.at = "components", !.event = None]
<1>1. UNCHANGED <<registry, row, tails, agent>> /\ h[u].at = "event" /\ h' = [h EXCEPT ![u] = q]
  BY Zenon DEF EmitEvent, Step
<1>2. HandlerOK(h[u], u, registry[u])
  BY Zenon DEF IdInv
<1>3. IsHandler(q) /\ q.at = "components" /\ q.event = None /\ q.wl = h[u].wl
  BY <1>2, Zenon DEF HandlerOK, IsHandler
<1> HIDE DEF q
<1>4. HandlerOK(q, u, registry[u])
  BY <1>1, <1>2, <1>3 DEF HandlerOK, Phases
<1>5. DOMAIN h' = UIDs /\ h'[u] = q /\ \A v \in UIDs : v # u => h'[v] = h[v]
  BY <1>1, Moves, Zenon
<1>6. h[u].event # None => h[u].event.wl = h[u].wl
  BY <1>1, <1>2 DEF HandlerOK
<1>7. IF h[u].event = None THEN UNCHANGED log ELSE InsertWorkloadEvent(h[u].event)
  BY Zenon DEF EmitEvent
<1>8. log' = IF h[u].event # None /\ h[u].wl \in DOMAIN row THEN Append(log, h[u].event) ELSE log
  BY <1>6, <1>7, Zenon DEF InsertWorkloadEvent
<1> QED BY <1>1, <1>3, <1>4, <1>5, <1>8, Zenon DEF Emits

LEMMA LogGrows == ASSUME NEW S, NEW s \in Seq(S), NEW e \in S PROVE Append(s, e) \in Seq(S)
OBVIOUS

LEMMA EmitInv == ASSUME IdInv, NEW u \in UIDs, EmitEvent(u) PROVE IdInv'
<1>1. Emits(u) /\ HandlerOK(h'[u], u, registry[u])
  BY EventEmits, Zenon
<1>2. UNCHANGED <<registry, row, tails, agent>> /\ DOMAIN h' = UIDs /\ \A v \in UIDs : v # u => h'[v] = h[v]
  BY <1>1, Zenon DEF Emits
<1>3. log' \in Seq(Events \cup {None})
  <2>1. CASE h[u].event # None /\ h[u].wl \in DOMAIN row
    <3>1. h[u].event \in Events \cup {None}
      BY <2>1, Zenon DEF IdInv, HandlerOK
    <3>2. log' = Append(log, h[u].event) /\ log \in Seq(Events \cup {None})
      BY <1>1, <2>1, Zenon DEF Emits, IdInv
    <3> QED BY <3>1, <3>2, LogGrows, Zenon
  <2>2. CASE ~ (h[u].event # None /\ h[u].wl \in DOMAIN row)
    BY <1>1, <2>2, Zenon DEF Emits, IdInv
  <2> QED BY <2>1, <2>2, Zenon
<1>4. ASSUME NEW v \in UIDs PROVE HandlerOK(h'[v], v, registry'[v]) /\ BindingOK(registry'[v], v, agent'[v]) /\ IsAgent(agent'[v])
  BY <1>1, <1>2, Zenon DEF IdInv
<1> QED BY <1>2, <1>3, <1>4, Zenon DEF IdInv

\* What the release of a session does.
Releases(u) ==
    /\ UNCHANGED <<row, log, h>>
    /\ h[u].at = "idle"
    /\ registry' = [registry EXCEPT ![u] = NoInstance] /\ registry'[u] = NoInstance
    /\ DOMAIN agent' = UIDs /\ IsAgent(agent'[u]) /\ agent'[u].releases = agent[u].releases + 1
    /\ \A v \in UIDs : v # u => agent'[v] = agent[v] /\ tails'[v] = tails[v] /\ registry'[v] = registry[v]
    /\ DOMAIN tails' = UIDs
    /\ tails'[u] = IF registry[u] = NoInstance THEN tails[u] ELSE tails[u] \cup {<<agent[u].releases, registry[u].wl>>}

LEMMA SessionReleases == ASSUME IdInv, NEW u \in UIDs, releaseSession(u) PROVE Releases(u)
<1> DEFINE p == [NewAgent EXCEPT !.messages = agent[u].messages, !.releases = agent[u].releases + 1]
<1>1. /\ h[u].at = "idle" /\ UNCHANGED <<row, log, h>>
      /\ agent' = [agent EXCEPT ![u] = p]
      /\ registry' = [registry EXCEPT ![u] = NoInstance]
      /\ tails' = [tails EXCEPT ![u] = IF registry[u] = NoInstance THEN @ ELSE @ \cup {<<agent[u].releases, registry[u].wl>>}]
  BY Zenon DEF releaseSession
<1>2. DOMAIN agent = UIDs /\ DOMAIN tails = UIDs /\ DOMAIN registry = UIDs /\ agent[u].releases \in Nat
  BY DEF IdInv, IsAgent
<1>3. IsAgent(p) /\ p.releases = agent[u].releases + 1
  BY <1>2 DEF IsAgent, NewAgent
<1> HIDE DEF p
<1>4. DOMAIN agent' = UIDs /\ agent'[u] = p /\ \A v \in UIDs : v # u => agent'[v] = agent[v]
  BY <1>1, <1>2, Zenon
<1>5. registry'[u] = NoInstance /\ \A v \in UIDs : v # u => registry'[v] = registry[v]
  BY <1>1, <1>2, Zenon
<1>6. /\ DOMAIN tails' = UIDs /\ \A v \in UIDs : v # u => tails'[v] = tails[v]
      /\ tails'[u] = IF registry[u] = NoInstance THEN tails[u] ELSE tails[u] \cup {<<agent[u].releases, registry[u].wl>>}
  BY <1>1, <1>2, Zenon
<1> QED BY <1>1, <1>3, <1>4, <1>5, <1>6, Zenon DEF Releases

LEMMA ReleaseInv == ASSUME IdInv, NEW u \in UIDs, releaseSession(u) PROVE IdInv'
<1>1. Releases(u)
  BY SessionReleases, Zenon
<1>2. /\ UNCHANGED <<row, log, h>> /\ h[u].at = "idle" /\ DOMAIN agent' = UIDs /\ DOMAIN tails' = UIDs
      /\ registry' = [registry EXCEPT ![u] = NoInstance] /\ registry'[u] = NoInstance /\ IsAgent(agent'[u])
      /\ \A v \in UIDs : v # u => agent'[v] = agent[v] /\ tails'[v] = tails[v] /\ registry'[v] = registry[v]
  BY <1>1, Zenon DEF Releases
<1>3. NoInstance \in [wl : Homes \cup {None}, version : Versions]
  BY Zenon DEF NoInstance, Versions
<1>4. registry' \in [UIDs -> [wl : Homes \cup {None}, version : Versions]]
  BY <1>2, <1>3, Zenon DEF IdInv
<1>5. HandlerOK(h[u], u, registry'[u]) /\ BindingOK(registry'[u], u, agent'[u])
  <2>1. HandlerOK(h[u], u, registry[u])
    BY Zenon DEF IdInv
  <2> QED BY <1>2, <2>1 DEF HandlerOK, BindingOK
<1>6. \A t \in tails'[u] : t[1] \in Nat /\ t[2] \in HomesOf(u)
  <2>1. CASE registry[u] = NoInstance
    BY <1>1, <2>1, Zenon DEF Releases, IdInv
  <2>2. CASE registry[u] # NoInstance
    <3>1. tails'[u] = tails[u] \cup {<<agent[u].releases, registry[u].wl>>}
      BY <1>1, <2>2, Zenon DEF Releases
    <3>2. registry[u].wl \in HomesOf(u) /\ agent[u].releases \in Nat
      BY <2>2, Zenon DEF IdInv, BindingOK, IsAgent
    <3>3. \A t \in tails[u] : t[1] \in Nat /\ t[2] \in HomesOf(u)
      BY Zenon DEF IdInv
    <3> QED BY <3>1, <3>2, <3>3
  <2> QED BY <2>1, <2>2, Zenon
<1>7. ASSUME NEW v \in UIDs
      PROVE  /\ HandlerOK(h'[v], v, registry'[v]) /\ BindingOK(registry'[v], v, agent'[v]) /\ IsAgent(agent'[v])
             /\ \A t \in tails'[v] : t[1] \in Nat /\ t[2] \in HomesOf(v)
  BY <1>2, <1>5, <1>6, Zenon DEF IdInv
<1>8. \A w \in DOMAIN row' : "comps" \in DOMAIN row'[w]
  BY <1>2, Zenon DEF IdInv
<1> QED BY <1>2, <1>4, <1>7, <1>8, Zenon DEF IdInv
\* What the write of a release's event does.
Gone(u, w) == [wl |-> w, uid |-> u, type |-> "disconnected", version |-> "", prev |-> ""]
Leaves(u, t) ==
    /\ UNCHANGED <<registry, row, h, agent>>
    /\ t \in tails[u] /\ t[1] \in Nat /\ t[2] \in HomesOf(u)
    /\ DOMAIN tails' = UIDs /\ tails'[u] = tails[u] \ {t} /\ \A v \in UIDs : v # u => tails'[v] = tails[v]
    /\ log' = IF t[2] \in DOMAIN row THEN Append(log, Gone(u, t[2])) ELSE log

IsGone(e, u, w) == e \in Events /\ e.type = "disconnected" /\ e.uid = u /\ e.wl = w

LEMMA GoneIs == ASSUME NEW u \in UIDs, NEW w \in HomesOf(u) PROVE IsGone(Gone(u, w), u, w)
<1>1. w \in Homes /\ "" \in Versions
  BY HomesAre, Zenon DEF Versions
<1> QED BY <1>1 DEF Gone, IsGone, Events, BindTypes

LEMMA ReleaseLeaves == ASSUME IdInv, NEW u \in UIDs, EmitDisconnected(u) PROVE \E t : Leaves(u, t)
<1>1. PICK t \in tails[u] : /\ tails' = [tails EXCEPT ![u] = @ \ {t}]
                            /\ InsertWorkloadEvent(Gone(u, t[2]))
                            /\ UNCHANGED <<registry, row, h, agent>>
  BY Zenon DEF EmitDisconnected, Gone
<1>2. t[1] \in Nat /\ t[2] \in HomesOf(u) /\ DOMAIN tails = UIDs
  BY Zenon DEF IdInv
<1>3. DOMAIN tails' = UIDs /\ tails'[u] = tails[u] \ {t} /\ \A v \in UIDs : v # u => tails'[v] = tails[v]
  BY <1>1, <1>2, Zenon
<1>4. Gone(u, t[2]).wl = t[2]
  BY DEF Gone
<1>5. log' = IF t[2] \in DOMAIN row THEN Append(log, Gone(u, t[2])) ELSE log
  BY <1>1, <1>4, Zenon DEF InsertWorkloadEvent
<1> QED BY <1>1, <1>2, <1>3, <1>5, Zenon DEF Leaves

LEMMA LeaveInv == ASSUME IdInv, NEW u \in UIDs, EmitDisconnected(u) PROVE IdInv'
<1>1. PICK t : Leaves(u, t)
  BY ReleaseLeaves, Zenon
<1>2. /\ UNCHANGED <<registry, row, h, agent>> /\ DOMAIN tails' = UIDs /\ tails'[u] = tails[u] \ {t}
      /\ \A v \in UIDs : v # u => tails'[v] = tails[v]
  BY <1>1, Zenon DEF Leaves
<1>3. log' \in Seq(Events \cup {None})
  <2>1. Gone(u, t[2]) \in Events \cup {None}
    BY <1>1, GoneIs, Zenon DEF Leaves, IsGone
  <2>2. Append(log, Gone(u, t[2])) \in Seq(Events \cup {None})
    BY <2>1, LogGrows, Zenon DEF IdInv
  <2> QED BY <1>1, <2>2, Zenon DEF Leaves, IdInv
<1>4. \A v \in UIDs : tails'[v] \subseteq tails[v]
  BY <1>2, Zenon
<1>5. \A v \in UIDs : \A x \in tails'[v] : x[1] \in Nat /\ x[2] \in HomesOf(v)
  BY <1>4, Zenon DEF IdInv
<1> QED BY <1>2, <1>3, <1>5, Zenon DEF IdInv

LEMMA DeleteFacts ==
    ASSUME IdInv, NEW w, handleDeleteWorkload(w)
    PROVE  /\ MayDelete /\ UNCHANGED <<registry, h, tails, agent>>
           /\ DOMAIN row' = DOMAIN row \ {w} /\ \A v \in DOMAIN row' : row'[v] = row[v]
           /\ DOMAIN log' = DOMAIN log
           /\ \A i \in DOMAIN log : log'[i] = IF log[i] # None /\ log[i].wl = w THEN None ELSE log[i]
BY Zenon DEF handleDeleteWorkload

LEMMA LogMasked ==
    ASSUME NEW S, NEW s \in Seq(S), NEW f, f = [i \in DOMAIN s |-> f[i]], \A i \in DOMAIN s : f[i] \in S
    PROVE  f \in Seq(S)
<1>1. DOMAIN s = 1..Len(s) /\ Len(s) \in Nat
  OBVIOUS
<1>2. f \in [1..Len(s) -> S]
  BY <1>1, Zenon
<1> QED BY <1>1, <1>2

LEMMA DeleteInv == ASSUME IdInv, NEW w, handleDeleteWorkload(w) PROVE IdInv'
<1>1. /\ UNCHANGED <<registry, h, tails, agent>>
      /\ DOMAIN row' = DOMAIN row \ {w} /\ \A v \in DOMAIN row' : row'[v] = row[v]
      /\ DOMAIN log' = DOMAIN log
      /\ \A i \in DOMAIN log : log'[i] = IF log[i] # None /\ log[i].wl = w THEN None ELSE log[i]
  BY DeleteFacts, Zenon
<1>2. log \in Seq(Events \cup {None})
  BY Zenon DEF IdInv
<1>3. \A i \in DOMAIN log : log[i] \in Events \cup {None}
  BY <1>2
<1>4. \A i \in DOMAIN log : log'[i] \in Events \cup {None}
  BY <1>1, <1>3, Zenon
<1>5. log' = [i \in DOMAIN log |-> log'[i]]
  BY DEF handleDeleteWorkload
<1>6. log' \in Seq(Events \cup {None})
  BY <1>2, <1>4, <1>5, LogMasked
<1>7. \A v \in DOMAIN row' : "comps" \in DOMAIN row'[v]
  BY <1>1, Zenon DEF IdInv
<1> QED BY <1>1, <1>6, <1>7, Zenon DEF IdInv

\* The steps, by what they do.
IdStep(u) ==
    \/ Calm(u)
    \/ \E d \in Descriptions[u], comps \in Lists : handleAgentDescription(u, d, comps)
    \/ EmitEvent(u) \/ releaseSession(u) \/ EmitDisconnected(u)

LEMMA Steps ==
    ASSUME IdInv, Next
    PROVE  (\E u \in UIDs : IdStep(u)) \/ \E w \in DOMAIN row : handleDeleteWorkload(w)
<1>1. SUFFICES ASSUME NEW u \in UIDs,
                      \/ Connect(u)
                      \/ \E d \in Descriptions[u], comps \in Lists : handleAgentDescription(u, d, comps)
                      \/ handleKnownInstanceUpdate(u)
                      \/ Handle(u) \/ releaseSession(u) \/ EmitDisconnected(u)
               PROVE  IdStep(u)
  BY Zenon DEF Next
<1>2. CASE Handle(u)
  BY <1>2, CalmLoad, CalmUpsert, CalmAsk, CalmRead, CalmRewrite, CalmReply, Zenon DEF IdStep, Handle
<1> QED BY <1>1, <1>2, CalmConnect, CalmKnown, Zenon DEF IdStep

LEMMA IdNext == ASSUME IdentityConstants, IdInv, Next PROVE IdInv'
<1>1. ASSUME NEW u \in UIDs, IdStep(u) PROVE IdInv'
  BY <1>1, CalmInv, BindInv, EmitInv, ReleaseInv, LeaveInv, Zenon DEF IdStep
<1> QED BY <1>1, Steps, DeleteInv, Zenon

LEMMA IdSafe == ASSUME IdentityConstants PROVE Spec => []IdInv
<1>1. IdInv /\ UNCHANGED vars => IdInv'
  <2>1. UNCHANGED vars => UNCHANGED <<registry, row, log, h, tails, agent>>
    BY Zenon DEF vars
  <2> QED BY <2>1, Zenon DEF IdInv
<1> QED BY <1>1, IdInit, IdNext, PTL DEF Spec
\* The fingerprint reads nothing but the attributes of the identity.
LEMMA FingerprintReads ==
    ASSUME NEW a, NEW b, NEW u, \A k \in IdentityAttrs : a[k] = b[k]
    PROVE  Fingerprint(a, u) = Fingerprint(b, u)
<1> DEFINE namedA == {i \in DOMAIN k8sWorkloadAttrs : a[k8sWorkloadAttrs[i]] # ""}
           namedB == {i \in DOMAIN k8sWorkloadAttrs : b[k8sWorkloadAttrs[i]] # ""}
<1>1. \A i \in DOMAIN k8sWorkloadAttrs : a[k8sWorkloadAttrs[i]] = b[k8sWorkloadAttrs[i]]
  BY Zenon DEF IdentityAttrs
<1>2. namedA = namedB
  BY <1>1, Zenon
<1>3. a["k8s.namespace.name"] = b["k8s.namespace.name"] /\ a["k8s.cluster.name"] = b["k8s.cluster.name"]
      /\ a["host.name"] = b["host.name"] /\ a["service.name"] = b["service.name"]
  BY Zenon DEF IdentityAttrs
<1> DEFINE first == CHOOSE i \in namedA : \A j \in namedA : i <= j
<1>4. namedA # {} => a[k8sWorkloadAttrs[first]] = b[k8sWorkloadAttrs[first]]
  <2>0. SUFFICES ASSUME namedA # {} PROVE first \in DOMAIN k8sWorkloadAttrs
    BY <1>1, <2>0, Zenon
  <2>1. DOMAIN k8sWorkloadAttrs = 1..5
    BY DEF k8sWorkloadAttrs
  <2>2. \E i \in namedA : \A j \in namedA : i <= j
    <3>1. PICK m \in namedA : TRUE
      BY <2>0
    <3> HIDE DEF namedA
    <3>2. namedA \subseteq 1..5
      BY <2>1 DEF namedA
    <3> QED BY <3>1, <3>2
  <2>3. first \in namedA
    BY <2>2, Zenon
  <2> QED BY <2>3, Zenon
<1>5. Fingerprint(a, u) =
        IF a["k8s.namespace.name"] # "" /\ namedA # {}
        THEN <<"k8s", IF a["k8s.cluster.name"] = "" THEN "unknown" ELSE a["k8s.cluster.name"], a["k8s.namespace.name"],
               k8sWorkloadAttrs[first], a[k8sWorkloadAttrs[first]]>>
        ELSE IF a["host.name"] # "" THEN <<"host", a["service.name"], a["host.name"]>>
        ELSE <<"uid", u>>
  BY Zenon DEF Fingerprint
<1>6. Fingerprint(b, u) =
        IF b["k8s.namespace.name"] # "" /\ namedB # {}
        THEN <<"k8s", IF b["k8s.cluster.name"] = "" THEN "unknown" ELSE b["k8s.cluster.name"], b["k8s.namespace.name"],
               k8sWorkloadAttrs[CHOOSE i \in namedB : \A j \in namedB : i <= j],
               b[k8sWorkloadAttrs[CHOOSE i \in namedB : \A j \in namedB : i <= j]]>>
        ELSE IF b["host.name"] # "" THEN <<"host", b["service.name"], b["host.name"]>>
        ELSE <<"uid", u>>
  BY Zenon DEF Fingerprint
<1>7. (CHOOSE i \in namedB : \A j \in namedB : i <= j) = first
  BY <1>2, Zenon
<1> HIDE DEF namedA, namedB, first
<1>8. CASE a["k8s.namespace.name"] # "" /\ namedA # {}
  <2> DEFINE least == CHOOSE i \in namedB : \A j \in namedB : i <= j
  <2>1. Fingerprint(a, u) =
          <<"k8s", IF a["k8s.cluster.name"] = "" THEN "unknown" ELSE a["k8s.cluster.name"], a["k8s.namespace.name"],
            k8sWorkloadAttrs[first], a[k8sWorkloadAttrs[first]]>>
    BY <1>5, <1>8, Zenon
  <2>2. b["k8s.namespace.name"] # "" /\ namedB # {}
    BY <1>2, <1>3, <1>8, Zenon
  <2>3. Fingerprint(b, u) =
          <<"k8s", IF b["k8s.cluster.name"] = "" THEN "unknown" ELSE b["k8s.cluster.name"], b["k8s.namespace.name"],
            k8sWorkloadAttrs[least], b[k8sWorkloadAttrs[least]]>>
    BY <1>6, <2>2, Zenon
  <2>4. least = first /\ a[k8sWorkloadAttrs[first]] = b[k8sWorkloadAttrs[first]]
    BY <1>4, <1>7, <1>8, Zenon
  <2> HIDE DEF least
  <2>5. PICK c : c = IF a["k8s.cluster.name"] = "" THEN "unknown" ELSE a["k8s.cluster.name"]
    BY Zenon
  <2>6. c = IF b["k8s.cluster.name"] = "" THEN "unknown" ELSE b["k8s.cluster.name"]
    BY <1>3, <2>5, Zenon
  <2>7. Fingerprint(a, u) = <<"k8s", c, a["k8s.namespace.name"], k8sWorkloadAttrs[first], a[k8sWorkloadAttrs[first]]>>
    BY <2>1, <2>5, Zenon
  <2>8. Fingerprint(b, u) = <<"k8s", c, b["k8s.namespace.name"], k8sWorkloadAttrs[first], b[k8sWorkloadAttrs[first]]>>
    BY <2>3, <2>4, <2>6, Zenon
  <2> QED BY <1>3, <2>4, <2>7, <2>8, Zenon
<1>9. CASE ~ (a["k8s.namespace.name"] # "" /\ namedA # {})
  <2>1. Fingerprint(a, u) = IF a["host.name"] # "" THEN <<"host", a["service.name"], a["host.name"]>> ELSE <<"uid", u>>
    BY <1>5, <1>9, Zenon
  <2>2. ~ (b["k8s.namespace.name"] # "" /\ namedB # {})
    BY <1>2, <1>3, <1>9, Zenon
  <2>3. Fingerprint(b, u) = IF b["host.name"] # "" THEN <<"host", b["service.name"], b["host.name"]>> ELSE <<"uid", u>>
    BY <1>6, <2>2, Zenon
  <2>4. CASE a["host.name"] # ""
    <3>1. Fingerprint(a, u) = <<"host", a["service.name"], a["host.name"]>>
      BY <2>1, <2>4, Zenon
    <3>2. Fingerprint(b, u) = <<"host", b["service.name"], b["host.name"]>>
      BY <1>3, <2>3, <2>4, Zenon
    <3> QED BY <1>3, <3>1, <3>2, Zenon
  <2>5. CASE a["host.name"] = ""
    BY <1>3, <2>1, <2>3, <2>5, Zenon
  <2> QED BY <2>4, <2>5, Zenon
<1> QED BY <1>8, <1>9, Zenon

\* Components that a row has are not lost to a handler that read the
\* row before they were written (UpsertWorkload's COALESCE).
THEOREM ComponentsAreKeptAlways == ASSUME IdentityConstants PROVE Spec => ComponentsAreKept
<1>1. ASSUME IdInv, Next
      PROVE  \A w \in DOMAIN row \cap DOMAIN row' : row[w].comps # None => row'[w].comps # None
  <2>1. ASSUME NEW u \in UIDs, Calm(u)
        PROVE  \A w \in DOMAIN row \cap DOMAIN row' : row[w].comps # None => row'[w].comps # None
    BY <2>1, Zenon DEF Calm
  <2>2. ASSUME UNCHANGED row
        PROVE  \A w \in DOMAIN row \cap DOMAIN row' : row[w].comps # None => row'[w].comps # None
    BY <2>2, Zenon
  <2>3. ASSUME NEW u \in UIDs, IdStep(u) PROVE Calm(u) \/ UNCHANGED row
    BY <2>3, Zenon DEF IdStep, handleAgentDescription, EmitEvent, releaseSession, EmitDisconnected
  <2>4. ASSUME NEW v \in DOMAIN row, handleDeleteWorkload(v)
        PROVE  \A w \in DOMAIN row \cap DOMAIN row' : row[w].comps # None => row'[w].comps # None
    BY <1>1, <2>4, DeleteFacts, Zenon
  <2> QED BY <1>1, <2>1, <2>2, <2>3, <2>4, Steps, Zenon
<1>2. IdInv /\ [Next]_(vars)
        => [\A w \in DOMAIN row \cap DOMAIN row' : row[w].comps # None => row'[w].comps # None]_(vars)
  BY <1>1, Zenon
<1> QED BY <1>2, IdSafe, PTL DEF Spec, ComponentsAreKept

\* An instance goes from one workload to another only with a
\* description that differs in an attribute of the identity (Fingerprint,
\* fingerprint.go): an upgrade, a restart or a new pod never moves it.
THEOREM OnlyIdentityMovesAlways == ASSUME IdentityConstants PROVE Spec => OnlyIdentityMoves
<1> DEFINE Moved == \A u \in DOMAIN registry : registry[u] # NoInstance /\ registry'[u] # NoInstance
                       /\ registry'[u].wl # registry[u].wl
                       => \E k \in IdentityAttrs : agent'[u].attrs[k] # agent[u].attrs[k]
<1>1. ASSUME IdInv, IdInv' PROVE Moved
  <2>1. SUFFICES ASSUME NEW u \in DOMAIN registry, registry[u] # NoInstance, registry'[u] # NoInstance,
                        \A k \in IdentityAttrs : agent'[u].attrs[k] = agent[u].attrs[k]
                 PROVE  registry'[u].wl = registry[u].wl
    BY Zenon
  <2>2. u \in UIDs
    BY <1>1, Zenon DEF IdInv
  <2>3. registry[u].wl = Fingerprint(agent[u].attrs, u)
    BY <1>1, <2>1, <2>2, Zenon DEF IdInv, BindingOK
  <2>4. registry'[u].wl = Fingerprint(agent'[u].attrs, u)
    BY <1>1, <2>1, <2>2, Zenon DEF IdInv, BindingOK
  <2>5. Fingerprint(agent'[u].attrs, u) = Fingerprint(agent[u].attrs, u)
    BY <2>1, FingerprintReads, Zenon
  <2> QED BY <2>3, <2>4, <2>5, Zenon
<1>2. IdInv /\ IdInv' /\ [Next]_(vars) => [Moved]_(vars)
  BY <1>1, Zenon
<1> QED BY <1>2, IdSafe, PTL DEF Spec, OnlyIdentityMoves
---------------------------------------------------------------------------
(* The log of an instance. *)

\* What an event that is appended does to the log and to the positions of the
\* events of each instance.
LEMMA LogGrowsBy ==
    ASSUME IdInv, NEW e \in Events, log' = Append(log, e)
    PROVE  \E n \in Nat : /\ DOMAIN log' = DOMAIN log \cup {n} /\ log'[n] = e
                          /\ \A i \in DOMAIN log : i \in Nat /\ i < n /\ log'[i] = log[i]
<1>1. log \in Seq(Events \cup {None})
  BY Zenon DEF IdInv
<1>2. Len(log) \in Nat /\ DOMAIN log = 1..Len(log)
  BY <1>1
<1>3. DOMAIN log' = 1..(Len(log) + 1) /\ log'[Len(log) + 1] = e /\ \A i \in 1..Len(log) : log'[i] = log[i]
  BY <1>1
<1>4. Len(log) + 1 \in Nat /\ DOMAIN log' = DOMAIN log \cup {Len(log) + 1}
  BY <1>2, <1>3
<1>5. \A i \in DOMAIN log : i \in Nat /\ i < Len(log) + 1 /\ log'[i] = log[i]
  BY <1>2, <1>3
<1> QED BY <1>3, <1>4, <1>5, Zenon

\* The log has one more event, at a position after all others.
Grown(n, e) ==
    /\ n \in Nat /\ DOMAIN log' = DOMAIN log \cup {n} /\ log'[n] = e /\ e # None
    /\ \A i \in DOMAIN log : i \in Nat /\ i < n /\ log'[i] = log[i]

\* The chain of one instance.
ChainOf(u) ==
    \A i, j \in Bindings(u) :
        j < i /\ (\A k \in Bindings(u) : k <= j \/ i <= k) /\ log[i].type = "version_changed"
            => log[i].prev = log[j].version

LEMMA ChainsAre == (\A u \in UIDs : ChainOf(u)) => LogIsAChain
BY Zenon DEF ChainOf, LogIsAChain

\* The chain of an instance whose events stay.
LEMMA ChainKept ==
    ASSUME NEW u, Bindings(u)' = Bindings(u), \A i \in Bindings(u) : log'[i] = log[i]
    PROVE  Latest(u)' = Latest(u) /\ (ChainOf(u) => ChainOf(u)')
<1>1. Latest(u)' = Latest(u)
  BY Zenon DEF Latest
<1>2. ChainOf(u) => ChainOf(u)'
  BY Zenon DEF ChainOf
<1> QED BY <1>1, <1>2

\* The chain of an instance with a new event.
LEMMA ChainGrows ==
    ASSUME NEW u, NEW n, NEW e, Grown(n, e), Bindings(u)' = Bindings(u) \cup {n},
           Bindings(u) \subseteq DOMAIN log
    PROVE  /\ Latest(u)' = {n}
           /\ ChainOf(u) /\ (e.type = "version_changed" => \A j \in Latest(u) : log[j].version = e.prev) => ChainOf(u)'
<1>1. /\ n \in Nat /\ \A i \in Bindings(u) : i \in Nat /\ i < n /\ log'[i] = log[i]
      /\ log'[n] = e
  BY DEF Grown
<1>2. Latest(u)' = {i \in Bindings(u)' : \A j \in Bindings(u)' : j <= i}
  BY Zenon DEF Latest
<1>3. Latest(u)' = {n}
  BY <1>1, <1>2
<1>4. ASSUME ChainOf(u), e.type = "version_changed" => \A j \in Latest(u) : log[j].version = e.prev
      PROVE  ChainOf(u)'
  <2>1. SUFFICES ASSUME NEW i \in Bindings(u)', NEW j \in Bindings(u)', j < i,
                        \A k \in Bindings(u)' : k <= j \/ i <= k, log'[i].type = "version_changed"
                 PROVE  log'[i].prev = log'[j].version
    BY Zenon DEF ChainOf
  <2>2. j \in Bindings(u)
    BY <1>1, <2>1
  <2>3. CASE i = n
    <3>1. \A k \in Bindings(u) : k <= j
      BY <1>1, <2>1, <2>3
    <3>2. j \in Latest(u)
      BY <2>2, <3>1, Zenon DEF Latest
    <3> QED BY <1>1, <1>4, <2>1, <2>2, <2>3, <3>2, Zenon
  <2>4. CASE i \in Bindings(u)
    <3>1. \A k \in Bindings(u) : k <= j \/ i <= k
      BY <2>1, Zenon
    <3> QED BY <1>1, <1>4, <2>1, <2>2, <2>4, <3>1, Zenon DEF ChainOf
  <2> QED BY <2>1, <2>3, <2>4, Zenon
<1> QED BY <1>3, <1>4, Zenon
\* The versions of a description are never empty, and all descriptions of an
\* instance make one workload.
VersionsAreNamed == \A u \in UIDs : "" \notin VersionsOf(u)
HomesAreSteady == \A u \in UIDs : \A v, w \in HomesOf(u) : v = w

\* What keeps the chain of u: its last event has the version it is bound with,
\* or the one that the event still to be written comes from.
LinkOf(u) ==
    registry[u] # NoInstance =>
        \A i \in Latest(u) :
            /\ h[u].event = None => log[i].version = registry[u].version
            /\ h[u].event # None /\ h[u].event.type = "version_changed" => log[i].version = h[u].event.prev

ChainInv ==
    /\ \A u \in UIDs : ChainOf(u) /\ LinkOf(u)
    /\ \A i \in DOMAIN log : log[i] # None => log[i].wl \in DOMAIN row /\ log[i].wl \in HomesOf(log[i].uid)

LEMMA BindingsAre == ASSUME NEW u PROVE Bindings(u) = Of(u, BindTypes) /\ Bindings(u) \subseteq DOMAIN log
BY Zenon DEF Bindings, BindTypes, Of

\* The bindings of u are those before, or have the new event too.
LEMMA BindingsGrown ==
    ASSUME NEW n, NEW e, Grown(n, e), NEW u
    PROVE  Bindings(u)' = IF e.uid = u /\ e.type \in BindTypes THEN Bindings(u) \cup {n} ELSE Bindings(u)
<1>1. /\ DOMAIN log' = DOMAIN log \cup {n} /\ log'[n] = e /\ e # None
      /\ \A i \in DOMAIN log : log'[i] = log[i] /\ i # n
  BY DEF Grown
<1>2. ASSUME NEW i PROVE i \in Bindings(u)' <=> i \in Bindings(u) \/ (i = n /\ e.uid = u /\ e.type \in BindTypes)
  BY <1>1, Zenon DEF Bindings, Of, BindTypes
<1> QED BY <1>2

\* Where the log stays, so do the chains.
LEMMA ChainsStay == ASSUME UNCHANGED log, NEW u PROVE Latest(u)' = Latest(u) /\ (ChainOf(u) => ChainOf(u)')
<1>1. Bindings(u)' = Bindings(u)
  BY Zenon DEF Bindings, Of
<1> QED BY <1>1, ChainKept, Zenon

LEMMA ChainInit == ASSUME Init PROVE ChainInv
<1>1. DOMAIN log = {} /\ \A u \in UIDs : registry[u] = NoInstance
  BY DEF Init
<1>2. \A u \in UIDs : Bindings(u) = {}
  BY <1>1, BindingsAre
<1> QED BY <1>1, <1>2 DEF ChainInv, ChainOf, LinkOf

LEMMA ChainCalm == ASSUME IdInv, ChainInv, NEW u \in UIDs, Calm(u) PROVE ChainInv'
<1>1. UNCHANGED <<registry, log>> /\ DOMAIN row \subseteq DOMAIN row'
      /\ h'[u].event = h[u].event /\ \A v \in UIDs : v # u => h'[v] = h[v]
  BY Zenon DEF Calm, AgentsKept
<1>2. \A v \in UIDs : h'[v].event = h[v].event
  BY <1>1, Zenon
<1>3. ASSUME NEW v \in UIDs PROVE ChainOf(v)' /\ LinkOf(v)'
  <2>1. Latest(v)' = Latest(v) /\ ChainOf(v)' /\ LinkOf(v)
    BY <1>1, ChainsStay, Zenon DEF ChainInv
  <2> QED BY <1>1, <1>2, <2>1, Zenon DEF LinkOf
<1>4. \A i \in DOMAIN log' : log'[i] # None => log'[i].wl \in DOMAIN row' /\ log'[i].wl \in HomesOf(log'[i].uid)
  BY <1>1, Zenon DEF ChainInv
<1> QED BY <1>3, <1>4, Zenon DEF ChainInv

LEMMA ChainBind ==
    ASSUME IdentityConstants, VersionsAreNamed, IdInv, ChainInv, NEW u \in UIDs, NEW w, NEW x, Binds(u, w, x)
    PROVE  ChainInv'
<1>1. /\ UNCHANGED <<row, log>> /\ h[u].at = "idle" /\ BindEvent(h'[u].event, u, w, x)
      /\ (\A v \in UIDs : v # u => h'[v] = h[v]) /\ registry' = [registry EXCEPT ![u] = [wl |-> w, version |-> x]]
      /\ registry'[u] = [wl |-> w, version |-> x]
  BY Zenon DEF Binds
<1>2. DOMAIN registry = UIDs
  BY DEF IdInv
<1>3. \A v \in UIDs : v # u => registry'[v] = registry[v]
  BY <1>1, <1>2, Zenon
<1>4. registry'[u].version = x
  BY <1>1
<1>5. \A v \in UIDs : ChainOf(v)' /\ Latest(v)' = Latest(v) /\ LinkOf(v)
  BY <1>1, ChainsStay, Zenon DEF ChainInv
<1>6. ASSUME NEW v \in UIDs, v # u PROVE LinkOf(v)'
  <2>1. registry'[v] = registry[v] /\ h'[v] = h[v] /\ log' = log
    BY <1>1, <1>3, <1>6, Zenon
  <2> QED BY <1>5, <2>1, Zenon DEF LinkOf
<1>7. LinkOf(u)'
  <2>0. h[u].event = None
    BY <1>1 DEF IdInv, HandlerOK
  <2>1. registry[u] # NoInstance => registry[u].version # ""
    BY Zenon DEF IdInv, BindingOK, VersionsAreNamed
  <2>2. ASSUME registry[u] # NoInstance, NEW i \in Latest(u) PROVE log[i].version = registry[u].version
    BY <1>5, <2>0, <2>2, Zenon DEF LinkOf
  <2>3. CASE registry[u] = NoInstance
    <3>1. h'[u].event # None /\ h'[u].event.type = "connected"
      BY <1>1, <2>3, Zenon DEF BindEvent
    <3>2. ~ (h'[u].event.type = "version_changed")
      BY <3>1
    <3> QED BY <3>1, <3>2, Zenon DEF LinkOf
  <2>4. CASE registry[u] # NoInstance /\ registry[u].version = x
    <3>1. h'[u].event = None
      BY <1>1, <2>4, Zenon DEF BindEvent
    <3> QED BY <1>1, <1>4, <1>5, <2>2, <2>4, <3>1, Zenon DEF LinkOf
  <2>5. CASE registry[u] # NoInstance /\ registry[u].version # x
    <3>1. h'[u].event # None /\ h'[u].event.prev = registry[u].version
      BY <1>1, <2>1, <2>5, Zenon DEF BindEvent
    <3> QED BY <1>1, <1>5, <2>2, <2>5, <3>1, Zenon DEF LinkOf
  <2> QED BY <2>3, <2>4, <2>5, Zenon
<1>8. \A i \in DOMAIN log' : log'[i] # None => log'[i].wl \in DOMAIN row' /\ log'[i].wl \in HomesOf(log'[i].uid)
  BY <1>1, Zenon DEF ChainInv
<1> QED BY <1>5, <1>6, <1>7, <1>8, Zenon DEF ChainInv

\* A new event of a workload with a row, and of an instance of it.
LEMMA RowsOfGrown ==
    ASSUME ChainInv, NEW n, NEW e, Grown(n, e), e.wl \in DOMAIN row, e.wl \in HomesOf(e.uid), UNCHANGED row
    PROVE  \A i \in DOMAIN log' : log'[i] # None => log'[i].wl \in DOMAIN row' /\ log'[i].wl \in HomesOf(log'[i].uid)
<1>1. DOMAIN log' = DOMAIN log \cup {n} /\ log'[n] = e /\ \A i \in DOMAIN log : log'[i] = log[i]
  BY Zenon DEF Grown
<1>2. ASSUME NEW i \in DOMAIN log', log'[i] # None PROVE log'[i].wl \in DOMAIN row' /\ log'[i].wl \in HomesOf(log'[i].uid)
  <2>1. CASE i \in DOMAIN log
    BY <1>1, <1>2, <2>1, Zenon DEF ChainInv
  <2>2. CASE i = n
    BY <1>1, <2>2, Zenon
  <2> QED BY <1>1, <2>1, <2>2, Zenon
<1> QED BY <1>2, Zenon
LEMMA ChainEmit ==
    ASSUME IdentityConstants, HomesAreSteady, IdInv, ChainInv, NEW u \in UIDs, Emits(u)
    PROVE  ChainInv'
<1>1. /\ UNCHANGED <<registry, row>> /\ h[u].at = "event" /\ h'[u].event = None
      /\ \A v \in UIDs : v # u => h'[v] = h[v]
      /\ log' = IF h[u].event # None /\ h[u].wl \in DOMAIN row THEN Append(log, h[u].event) ELSE log
  BY Zenon DEF Emits
<1>2. HandlerOK(h[u], u, registry[u]) /\ BindingOK(registry[u], u, agent[u])
  BY Zenon DEF IdInv
<1>3. registry[u] # NoInstance /\ h[u].wl = registry[u].wl /\ h[u].wl \in HomesOf(u)
  BY <1>1, <1>2 DEF HandlerOK, BindingOK
<1>4. CASE h[u].event = None \/ h[u].wl \notin DOMAIN row
  <2>1. log' = log
    BY <1>1, <1>4, Zenon
  <2>2. \A v \in UIDs : ChainOf(v)' /\ Latest(v)' = Latest(v) /\ LinkOf(v)
    BY <2>1, ChainsStay, Zenon DEF ChainInv
  <2>3. ASSUME NEW v \in UIDs, v # u PROVE LinkOf(v)'
    <3>1. h'[v] = h[v] /\ registry' = registry
      BY <1>1, <2>3, Zenon
    <3> QED BY <2>1, <2>2, <3>1, Zenon DEF LinkOf
  <2>4. LinkOf(u)'
    <3>1. CASE h[u].event = None
      BY <1>1, <2>1, <2>2, <3>1, Zenon DEF LinkOf
    <3>2. CASE h[u].wl \notin DOMAIN row
      <4>1. ASSUME NEW i \in Bindings(u) PROVE FALSE
        <5>1. i \in DOMAIN log /\ log[i] # None /\ log[i].uid = u
          BY Zenon DEF Bindings, Of
        <5>2. log[i].wl \in DOMAIN row /\ log[i].wl \in HomesOf(u)
          BY <5>1, Zenon DEF ChainInv
        <5> QED BY <1>3, <3>2, <5>2, Zenon DEF HomesAreSteady
      <4>2. Latest(u)' = {}
        BY <2>2, <4>1, Zenon DEF Latest
      <4> QED BY <4>2, Zenon DEF LinkOf
    <3> QED BY <1>4, <3>1, <3>2, Zenon
  <2>5. \A i \in DOMAIN log' : log'[i] # None => log'[i].wl \in DOMAIN row' /\ log'[i].wl \in HomesOf(log'[i].uid)
    BY <1>1, <2>1, Zenon DEF ChainInv
  <2> QED BY <2>2, <2>3, <2>4, <2>5, Zenon DEF ChainInv
<1>5. CASE h[u].event # None /\ h[u].wl \in DOMAIN row
  <2>1. PICK e : e = h[u].event
    BY Zenon
  <2>2. e \in Events /\ e # None /\ e.uid = u /\ e.type \in BindTypes /\ e.wl = h[u].wl /\ e.version = registry[u].version
    BY <1>2, <1>3, <1>5, <2>1, Zenon DEF HandlerOK
  <2>3. log' = Append(log, e)
    BY <1>1, <1>5, <2>1, Zenon
  <2>4. PICK n : Grown(n, e)
    BY <2>2, <2>3, LogGrowsBy, Zenon DEF Grown
  <2>5. Bindings(u)' = Bindings(u) \cup {n}
    BY <2>2, <2>4, BindingsGrown, Zenon
  <2>6. e.type = "version_changed" => \A j \in Latest(u) : log[j].version = e.prev
    BY <1>3, <1>5, <2>1, Zenon DEF ChainInv, LinkOf
  <2>7. Latest(u)' = {n} /\ ChainOf(u)'
    BY <2>4, <2>5, <2>6, BindingsAre, ChainGrows, Zenon DEF ChainInv
  <2>8. LinkOf(u)'
    <3>1. log'[n] = e
      BY <2>4, Zenon DEF Grown
    <3> QED BY <1>1, <2>2, <2>7, <3>1, Zenon DEF LinkOf
  <2>9. ASSUME NEW v \in UIDs, v # u PROVE ChainOf(v)' /\ LinkOf(v)'
    <3>1. Bindings(v)' = Bindings(v)
      BY <2>2, <2>4, <2>9, BindingsGrown, Zenon
    <3>2. \A i \in Bindings(v) : log'[i] = log[i]
      BY <2>4, BindingsAre, Zenon DEF Grown
    <3>3. Latest(v)' = Latest(v) /\ ChainOf(v)' /\ LinkOf(v)
      BY <3>1, <3>2, ChainKept, Zenon DEF ChainInv
    <3>4. \A i \in Latest(v) : log'[i] = log[i]
      BY <3>2, Zenon DEF Latest
    <3>5. h'[v] = h[v] /\ registry' = registry
      BY <1>1, <2>9, Zenon
    <3> QED BY <3>3, <3>4, <3>5, Zenon DEF LinkOf
  <2>10. \A i \in DOMAIN log' : log'[i] # None => log'[i].wl \in DOMAIN row' /\ log'[i].wl \in HomesOf(log'[i].uid)
    BY <1>1, <1>3, <1>5, <2>2, <2>4, RowsOfGrown, Zenon
  <2> QED BY <2>7, <2>8, <2>9, <2>10, Zenon DEF ChainInv
<1> QED BY <1>4, <1>5, Zenon

LEMMA ChainRelease == ASSUME IdInv, ChainInv, NEW u \in UIDs, Releases(u) PROVE ChainInv'
<1>1. UNCHANGED <<row, log, h>> /\ registry'[u] = NoInstance /\ \A v \in UIDs : v # u => registry'[v] = registry[v]
  BY Zenon DEF Releases
<1>2. ASSUME NEW v \in UIDs PROVE ChainOf(v)' /\ LinkOf(v)'
  <2>1. ChainOf(v)' /\ Latest(v)' = Latest(v) /\ LinkOf(v)
    BY <1>1, ChainsStay, Zenon DEF ChainInv
  <2> QED BY <1>1, <2>1, Zenon DEF LinkOf
<1>3. \A i \in DOMAIN log' : log'[i] # None => log'[i].wl \in DOMAIN row' /\ log'[i].wl \in HomesOf(log'[i].uid)
  BY <1>1, Zenon DEF ChainInv
<1> QED BY <1>2, <1>3, Zenon DEF ChainInv

LEMMA ChainLeave == ASSUME IdentityConstants, IdInv, ChainInv, NEW u \in UIDs, NEW t, Leaves(u, t) PROVE ChainInv'
<1>1. /\ UNCHANGED <<registry, row, h>> /\ t[2] \in HomesOf(u)
      /\ log' = IF t[2] \in DOMAIN row THEN Append(log, Gone(u, t[2])) ELSE log
  BY Zenon DEF Leaves
<1>2. CASE t[2] \notin DOMAIN row
  <2>1. log' = log
    BY <1>1, <1>2, Zenon
  <2>2. ASSUME NEW v \in UIDs PROVE ChainOf(v)' /\ LinkOf(v)'
    <3>1. ChainOf(v)' /\ Latest(v)' = Latest(v) /\ LinkOf(v)
      BY <2>1, ChainsStay, Zenon DEF ChainInv
    <3> QED BY <1>1, <2>1, <3>1, Zenon DEF LinkOf
  <2>3. \A i \in DOMAIN log' : log'[i] # None => log'[i].wl \in DOMAIN row' /\ log'[i].wl \in HomesOf(log'[i].uid)
    BY <1>1, <2>1, Zenon DEF ChainInv
  <2> QED BY <2>2, <2>3, Zenon DEF ChainInv
<1>3. CASE t[2] \in DOMAIN row
  <2>1. PICK e : e = Gone(u, t[2])
    BY Zenon
  <2>2. e \in Events /\ e.type = "disconnected" /\ e.uid = u /\ e.wl = t[2]
    <3>1. IsGone(Gone(u, t[2]), u, t[2])
      BY <1>1, GoneIs, Zenon
    <3> QED BY <2>1, <3>1, Zenon DEF IsGone
  <2>3. e # None /\ e.type \notin BindTypes
    BY <2>2 DEF IdentityConstants, BindTypes
  <2>4. log' = Append(log, e)
    BY <1>1, <1>3, <2>1, Zenon
  <2>5. PICK n : Grown(n, e)
    BY <2>2, <2>3, <2>4, LogGrowsBy, Zenon DEF Grown
  <2>6. ASSUME NEW v \in UIDs PROVE ChainOf(v)' /\ LinkOf(v)'
    <3>1. Bindings(v)' = Bindings(v)
      BY <2>3, <2>5, BindingsGrown, Zenon
    <3>2. \A i \in Bindings(v) : log'[i] = log[i]
      BY <2>5, BindingsAre, Zenon DEF Grown
    <3>3. Latest(v)' = Latest(v) /\ ChainOf(v)' /\ LinkOf(v)
      BY <3>1, <3>2, ChainKept, Zenon DEF ChainInv
    <3>4. \A i \in Latest(v) : log'[i] = log[i]
      BY <3>2, Zenon DEF Latest
    <3> QED BY <1>1, <3>3, <3>4, Zenon DEF LinkOf
  <2>7. \A i \in DOMAIN log' : log'[i] # None => log'[i].wl \in DOMAIN row' /\ log'[i].wl \in HomesOf(log'[i].uid)
    BY <1>1, <1>3, <2>2, <2>5, RowsOfGrown, Zenon
  <2> QED BY <2>6, <2>7, Zenon DEF ChainInv
<1> QED BY <1>2, <1>3, Zenon
\* With its row, a workload loses all the events of each of its instances: no
\* instance has events of two workloads.
LEMMA ChainDelete == ASSUME HomesAreSteady, IdInv, ChainInv, NEW w, handleDeleteWorkload(w) PROVE ChainInv'
<1>1. /\ UNCHANGED <<registry, h>> /\ DOMAIN log' = DOMAIN log /\ DOMAIN row' = DOMAIN row \ {w}
      /\ \A i \in DOMAIN log : log'[i] = IF log[i] # None /\ log[i].wl = w THEN None ELSE log[i]
  BY DeleteFacts, Zenon
<1>2. ASSUME NEW u \in UIDs PROVE ChainOf(u)' /\ LinkOf(u)'
  <2>1. \A i \in Bindings(u) : i \in DOMAIN log /\ log[i] # None /\ log[i].uid = u
    BY Zenon DEF Bindings, Of
  <2>2. CASE \E i \in Bindings(u) : log[i].wl = w
    <3>1. \A i \in Bindings(u) : log[i].wl \in HomesOf(u)
      BY <2>1, Zenon DEF ChainInv
    <3>2. \A i \in Bindings(u) : log[i].wl = w
      BY <2>2, <3>1, Zenon DEF HomesAreSteady
    <3>3. ASSUME NEW i \in Bindings(u)' PROVE FALSE
      <4>1. i \in DOMAIN log' /\ log'[i] # None /\ log'[i].uid = u /\ log'[i].type \in {"connected", "version_changed"}
        BY <3>3, Zenon DEF Bindings, Of
      <4>2. i \in DOMAIN log /\ log'[i] = log[i]
        BY <1>1, <4>1, Zenon
      <4>3. i \in Bindings(u)
        BY <4>1, <4>2, Zenon DEF Bindings, Of
      <4> QED BY <1>1, <2>1, <3>2, <4>1, <4>3, Zenon
    <3>4. Bindings(u)' = {}
      BY <3>3, Zenon
    <3>5. Latest(u)' = {}
      BY <3>4, Zenon DEF Latest
    <3> QED BY <3>4, <3>5, Zenon DEF ChainOf, LinkOf
  <2>3. CASE \A i \in Bindings(u) : log[i].wl # w
    <3>1. \A i \in Bindings(u) : log'[i] = log[i]
      BY <1>1, <2>1, <2>3, Zenon
    <3>2. ASSUME NEW i PROVE i \in Bindings(u)' <=> i \in Bindings(u)
      <4>1. ASSUME i \in Bindings(u)' PROVE i \in Bindings(u)
        <5>1. i \in DOMAIN log' /\ log'[i] # None /\ log'[i].uid = u /\ log'[i].type \in {"connected", "version_changed"}
          BY <4>1, Zenon DEF Bindings, Of
        <5>2. i \in DOMAIN log /\ log'[i] = log[i]
          BY <1>1, <5>1, Zenon
        <5> QED BY <5>1, <5>2, Zenon DEF Bindings, Of
      <4>2. ASSUME i \in Bindings(u) PROVE i \in Bindings(u)'
        BY <1>1, <3>1, <4>2, Zenon DEF Bindings, Of
      <4> QED BY <4>1, <4>2, Zenon
    <3>3. Bindings(u)' = Bindings(u)
      BY <3>2
    <3>4. Latest(u)' = Latest(u) /\ ChainOf(u)' /\ LinkOf(u)
      BY <3>1, <3>3, ChainKept, Zenon DEF ChainInv
    <3>5. \A i \in Latest(u) : log'[i] = log[i]
      BY <3>1, Zenon DEF Latest
    <3> QED BY <1>1, <3>4, <3>5, Zenon DEF LinkOf
  <2> QED BY <2>2, <2>3, Zenon
<1>3. ASSUME NEW i \in DOMAIN log', log'[i] # None PROVE log'[i].wl \in DOMAIN row' /\ log'[i].wl \in HomesOf(log'[i].uid)
  <2>1. i \in DOMAIN log /\ log'[i] = log[i] /\ log[i] # None /\ log[i].wl # w
    BY <1>1, <1>3, Zenon
  <2>2. log[i].wl \in DOMAIN row /\ log[i].wl \in HomesOf(log[i].uid)
    BY <2>1, Zenon DEF ChainInv
  <2> QED BY <1>1, <2>1, <2>2, Zenon
<1> QED BY <1>2, <1>3, Zenon DEF ChainInv

\* The history of an instance is a chain whatever the order of the
\* messages, the releases and the deletions: each version change in the log
\* starts from the version of the event before (emitBindEvent), when the agent
\* keeps to one workload and has a version.
THEOREM LogIsAChainAlways ==
    ASSUME IdentityConstants, VersionsAreNamed, HomesAreSteady PROVE Spec => []LogIsAChain
<1>1. ASSUME IdInv, ChainInv, Next PROVE ChainInv'
  <2>1. ASSUME NEW u \in UIDs, NEW d \in Descriptions[u], NEW comps, handleAgentDescription(u, d, comps) PROVE ChainInv'
    <3>1. PICK w, x : Binds(u, w, x)
      BY <1>1, <2>1, DescriptionBinds, Zenon
    <3> QED BY <1>1, <3>1, ChainBind, Zenon
  <2>2. ASSUME NEW u \in UIDs, IdStep(u) PROVE ChainInv'
    BY <1>1, <2>1, <2>2, ChainCalm, ChainEmit, EventEmits, ChainRelease, SessionReleases,
       ChainLeave, ReleaseLeaves, Zenon DEF IdStep
  <2> QED BY <1>1, <2>2, ChainDelete, Steps, Zenon
<1>2. ChainInv /\ UNCHANGED vars => ChainInv'
  <2>1. SUFFICES ASSUME ChainInv, UNCHANGED <<registry, row, log, h>> PROVE ChainInv'
    BY Zenon DEF vars
  <2>2. ASSUME NEW u \in UIDs PROVE ChainOf(u)' /\ LinkOf(u)'
    <3>1. ChainOf(u)' /\ Latest(u)' = Latest(u) /\ LinkOf(u)
      BY <2>1, ChainsStay, Zenon DEF ChainInv
    <3> QED BY <2>1, <3>1, Zenon DEF LinkOf
  <2>3. \A i \in DOMAIN log' : log'[i] # None => log'[i].wl \in DOMAIN row' /\ log'[i].wl \in HomesOf(log'[i].uid)
    BY <2>1, Zenon DEF ChainInv
  <2> QED BY <2>2, <2>3, Zenon DEF ChainInv
<1>3. ChainInv => LogIsAChain
  BY ChainsAre, Zenon DEF ChainInv
<1> QED BY <1>1, <1>2, <1>3, IdSafe, ChainInit, PTL DEF Spec
---------------------------------------------------------------------------
(* The number of events. *)

INSTANCE FiniteSetTheorems

\* Finite sets of positions.
LEMMA OfIsFinite == ASSUME IdInv, NEW u, NEW types PROVE IsFiniteSet(Of(u, types)) /\ Of(u, types) \subseteq DOMAIN log
<1>1. log \in Seq(Events \cup {None})
  BY Zenon DEF IdInv
<1>2. DOMAIN log = 1..Len(log) /\ Len(log) \in Nat
  BY <1>1
<1>3. IsFiniteSet(DOMAIN log)
  BY <1>2, FS_Interval
<1>4. Of(u, types) \subseteq DOMAIN log
  BY Zenon DEF Of
<1> QED BY <1>3, <1>4, FS_Subset, Zenon

Connections(u) == Cardinality(Of(u, {"connected"}))
Departures(u) == Cardinality(Of(u, {"disconnected"}))
Pending(u) == IF h[u].event # None /\ h[u].event.type = "connected" THEN 1 ELSE 0
Bound(u) == IF registry[u] = NoInstance THEN 0 ELSE 1

\* Every connection is in the log or on the way to it, and so is the departure
\* of each but the current one; an instance has its version in the log or on
\* the way; and no event is lost, for its workload has a row.
ExactOf(u) ==
    /\ IsFiniteSet(tails[u])
    /\ \A t \in tails[u] : t[1] < agent[u].releases /\ t[2] \in DOMAIN row
    /\ registry[u] # NoInstance /\ h[u].at \notin {"load", "upsert"} => registry[u].wl \in DOMAIN row
    /\ Connections(u) + Pending(u) = Departures(u) + Cardinality(tails[u]) + Bound(u)
    /\ registry[u] # NoInstance /\ h[u].event = None => \E i \in Latest(u) : log[i].version = registry[u].version

ExactInv == \A u \in UIDs : ExactOf(u)

LEMMA CountsAreNat == ASSUME IdInv, NEW u \in UIDs PROVE Connections(u) \in Nat /\ Departures(u) \in Nat
BY OfIsFinite, FS_CardinalityType, Zenon DEF Connections, Departures

LEMMA CountsStay == ASSUME UNCHANGED log, NEW u PROVE Connections(u)' = Connections(u) /\ Departures(u)' = Departures(u)
<1>1. Of(u, {"connected"})' = Of(u, {"connected"}) /\ Of(u, {"disconnected"})' = Of(u, {"disconnected"})
  BY Zenon DEF Of
<1> QED BY <1>1, Zenon DEF Connections, Departures

\* The counts with a new event.
LEMMA CountsGrow ==
    ASSUME IdInv, NEW n, NEW e, Grown(n, e), NEW u
    PROVE  /\ Connections(u)' = IF e.uid = u /\ e.type = "connected" THEN Connections(u) + 1 ELSE Connections(u)
           /\ Departures(u)' = IF e.uid = u /\ e.type = "disconnected" THEN Departures(u) + 1 ELSE Departures(u)
<1>0. n \notin DOMAIN log
  BY DEF Grown
<1> DEFINE C == Of(u, {"connected"}) D == Of(u, {"disconnected"})
<1>1. IsFiniteSet(C) /\ IsFiniteSet(D) /\ n \notin C /\ n \notin D
  BY <1>0, OfIsFinite, Zenon
<1>2. Cardinality(C \cup {n}) = Cardinality(C) + 1 /\ Cardinality(D \cup {n}) = Cardinality(D) + 1
  <2> HIDE DEF C, D
  <2> QED BY <1>1, FS_AddElement, Zenon
<1>6. /\ DOMAIN log' = DOMAIN log \cup {n} /\ log'[n] = e /\ e # None
      /\ \A i \in DOMAIN log : log'[i] = log[i] /\ i # n
  BY DEF Grown
<1>7. ASSUME NEW i PROVE i \in Of(u, {"connected"})' <=> i \in C \/ (i = n /\ e.uid = u /\ e.type = "connected")
  BY <1>6, Zenon DEF Of
<1>8. ASSUME NEW i PROVE i \in Of(u, {"disconnected"})' <=> i \in D \/ (i = n /\ e.uid = u /\ e.type = "disconnected")
  BY <1>6, Zenon DEF Of
<1>3. C' = IF e.uid = u /\ e.type = "connected" THEN C \cup {n} ELSE C
  BY <1>7
<1>4. D' = IF e.uid = u /\ e.type = "disconnected" THEN D \cup {n} ELSE D
  BY <1>8
<1>5. /\ Connections(u)' = Cardinality(C') /\ Departures(u)' = Cardinality(D')
      /\ Connections(u) = Cardinality(C) /\ Departures(u) = Cardinality(D)
  BY Zenon DEF Connections, Departures
<1> HIDE DEF C, D
<1> QED BY <1>2, <1>3, <1>4, <1>5, Zenon

LEMMA ExactInit == ASSUME IdentityConstants, Init PROVE ExactInv
<1>1. IdInv
  BY IdInit, Zenon
<1>2. SUFFICES ASSUME NEW u \in UIDs PROVE ExactOf(u)
  BY Zenon DEF ExactInv
<1>3. registry[u] = NoInstance /\ tails[u] = {} /\ h[u] = Idle /\ DOMAIN log = {}
  BY DEF Init
<1>4. Of(u, {"connected"}) = {} /\ Of(u, {"disconnected"}) = {}
  BY <1>1, <1>3, OfIsFinite, Zenon
<1>5. IsFiniteSet({}) /\ Cardinality({}) = 0
  BY FS_EmptySet, Zenon
<1>6. Connections(u) = 0 /\ Departures(u) = 0
  BY <1>4, <1>5, Zenon DEF Connections, Departures
<1>7. h[u].event = None
  BY <1>3 DEF Idle
<1>8. Pending(u) = 0 /\ Bound(u) = 0
  BY <1>3, <1>7, Zenon DEF Pending, Bound
<1>9. Connections(u) + Pending(u) = Departures(u) + Cardinality(tails[u]) + Bound(u)
  BY <1>3, <1>5, <1>6, <1>8
<1> QED BY <1>3, <1>5, <1>9, Zenon DEF ExactOf

LEMMA ExactCalm == ASSUME IdInv, ExactInv, NEW u \in UIDs, Calm(u) PROVE ExactInv'
<1>1. /\ UNCHANGED <<registry, log, tails>> /\ DOMAIN row \subseteq DOMAIN row' /\ HandlerOK(h'[u], u, registry[u])
      /\ h'[u].event = h[u].event /\ (h'[u].at \in {"load", "upsert"} => h[u].at \in {"load", "upsert"})
      /\ (h'[u].at \notin {"load", "upsert"} /\ h[u].at \in {"load", "upsert"} => h[u].wl \in DOMAIN row')
      /\ (\A v \in UIDs : v # u => h'[v] = h[v]) /\ \A v \in UIDs : agent'[v].releases = agent[v].releases
  BY Zenon DEF Calm, AgentsKept
<1>2. SUFFICES ASSUME NEW v \in UIDs PROVE ExactOf(v)'
  BY Zenon DEF ExactInv
<1>3. ExactOf(v) /\ HandlerOK(h[v], v, registry[v]) /\ h'[v].event = h[v].event
  BY <1>1, Zenon DEF ExactInv, IdInv
<1>4. Connections(v)' = Connections(v) /\ Departures(v)' = Departures(v) /\ Latest(v)' = Latest(v)
  BY <1>1, CountsStay, ChainsStay, Zenon
<1>5. Pending(v)' = Pending(v) /\ Bound(v)' = Bound(v)
  BY <1>1, <1>3, Zenon DEF Pending, Bound
<1>6. registry[v] # NoInstance /\ h'[v].at \notin {"load", "upsert"} => registry[v].wl \in DOMAIN row'
  <2>1. CASE v = u /\ h[u].at \in {"load", "upsert"}
    <3>1. h[u].at # "idle"
      BY <2>1
    <3>2. h[u].wl = registry[u].wl
      BY <1>3, <2>1, <3>1, Zenon DEF HandlerOK
    <3> QED BY <1>1, <2>1, <3>2, Zenon
  <2>2. CASE v = u /\ h[u].at \notin {"load", "upsert"}
    BY <1>1, <1>3, <2>2, Zenon DEF ExactOf
  <2>3. CASE v # u
    BY <1>1, <1>3, <2>3, Zenon DEF ExactOf
  <2> QED BY <2>1, <2>2, <2>3, Zenon
<1>7. \A t \in tails'[v] : t[1] < agent'[v].releases /\ t[2] \in DOMAIN row'
  BY <1>1, <1>3, Zenon DEF ExactOf
<1> QED BY <1>1, <1>3, <1>4, <1>5, <1>6, <1>7, Zenon DEF ExactOf
\* What is kept of the instances that a step is not about.
LEMMA ExactKept ==
    ASSUME IdInv, NEW v \in UIDs, ExactOf(v), UNCHANGED row, h'[v] = h[v], registry'[v] = registry[v],
           agent'[v].releases = agent[v].releases, tails'[v] = tails[v],
           Connections(v)' = Connections(v), Departures(v)' = Departures(v), Latest(v)' = Latest(v),
           \A i \in Latest(v) : log'[i] = log[i]
    PROVE  ExactOf(v)'
<1>1. Pending(v)' = Pending(v) /\ Bound(v)' = Bound(v)
  BY Zenon DEF Pending, Bound
<1> QED BY <1>1, Zenon DEF ExactOf

LEMMA ExactBind ==
    ASSUME IdentityConstants, VersionsAreNamed, IdInv, ExactInv, NEW u \in UIDs, NEW w, NEW x, Binds(u, w, x)
    PROVE  ExactInv'
<1>1. /\ UNCHANGED <<row, log, tails>> /\ h[u].at = "idle" /\ h'[u].at = "load" /\ BindEvent(h'[u].event, u, w, x)
      /\ (\A v \in UIDs : v # u => h'[v] = h[v]) /\ registry' = [registry EXCEPT ![u] = [wl |-> w, version |-> x]]
      /\ registry'[u] = [wl |-> w, version |-> x] /\ registry'[u] # NoInstance
      /\ agent'[u].releases = agent[u].releases /\ \A v \in UIDs : v # u => agent'[v] = agent[v]
  BY Zenon DEF Binds
<1>2. DOMAIN registry = UIDs
  BY DEF IdInv
<1>3. \A v \in UIDs : v # u => registry'[v] = registry[v]
  BY <1>1, <1>2, Zenon
<1>4. registry'[u].version = x
  BY <1>1
<1>5. \A v \in UIDs : Connections(v)' = Connections(v) /\ Departures(v)' = Departures(v) /\ Latest(v)' = Latest(v)
  BY <1>1, CountsStay, ChainsStay, Zenon
<1>6. ASSUME NEW v \in UIDs, v # u PROVE ExactOf(v)'
  <2>1. h'[v] = h[v] /\ registry'[v] = registry[v] /\ agent'[v].releases = agent[v].releases /\ tails'[v] = tails[v]
        /\ ExactOf(v) /\ \A i \in Latest(v) : log'[i] = log[i]
    BY <1>1, <1>3, <1>6, Zenon DEF ExactInv
  <2> QED BY <1>1, <1>5, <2>1, ExactKept, Zenon
<1>7. ExactOf(u) /\ h[u].event = None
  BY <1>1 DEF ExactInv, IdInv, HandlerOK
<1>8. Pending(u) = 0
  BY <1>7, Zenon DEF Pending
<1>9. registry[u] # NoInstance => registry[u].version # ""
  BY Zenon DEF IdInv, BindingOK, VersionsAreNamed
<1>10. Pending(u)' = 1 - Bound(u) /\ Bound(u)' = 1 /\ Bound(u) \in {0, 1}
  <2>1. Bound(u)' = 1 /\ Bound(u) \in {0, 1}
    BY <1>1, Zenon DEF Bound
  <2>2. CASE registry[u] = NoInstance
    <3>1. Bound(u) = 0 /\ Pending(u)' = 1
      BY <1>1, <2>2, Zenon DEF Bound, Pending, BindEvent
    <3> QED BY <2>1, <3>1
  <2>3. CASE registry[u] # NoInstance
    <3>1. h'[u].event = None \/ h'[u].event.type = "version_changed"
      BY <1>1, <1>9, <2>3, Zenon DEF BindEvent
    <3>2. ~ (h'[u].event # None /\ h'[u].event.type = "connected")
      BY <3>1
    <3>3. Bound(u) = 1 /\ Pending(u)' = 0
      BY <2>3, <3>2, Zenon DEF Bound, Pending
    <3> QED BY <2>1, <3>3
  <2> QED BY <2>2, <2>3, Zenon
<1>11. Connections(u)' + Pending(u)' = Departures(u)' + Cardinality(tails'[u]) + Bound(u)'
  <2>1. Connections(u) + Pending(u) = Departures(u) + Cardinality(tails[u]) + Bound(u) /\ tails'[u] = tails[u]
        /\ IsFiniteSet(tails[u])
    BY <1>1, <1>7, Zenon DEF ExactOf
  <2>2. Cardinality(tails[u]) \in Nat
    BY <2>1, FS_CardinalityType, Zenon
  <2> QED BY <1>5, <1>8, <1>10, <2>1, <2>2, CountsAreNat
<1>12. h'[u].event = None => \E i \in Latest(u) : log[i].version = x
  <2>1. ASSUME h'[u].event = None PROVE registry[u] # NoInstance /\ registry[u].version = x
    BY <1>1, <1>9, <2>1, Zenon DEF BindEvent
  <2> QED BY <1>7, <2>1, Zenon DEF ExactOf
<1>13. ExactOf(u)'
  <2>1. IsFiniteSet(tails'[u]) /\ \A t \in tails'[u] : t[1] < agent'[u].releases /\ t[2] \in DOMAIN row'
    BY <1>1, <1>7, Zenon DEF ExactOf
  <2> QED BY <1>1, <1>4, <1>5, <1>11, <1>12, <2>1, Zenon DEF ExactOf
<1> QED BY <1>6, <1>13, Zenon DEF ExactInv

LEMMA ExactEmit == ASSUME IdentityConstants, IdInv, ExactInv, NEW u \in UIDs, Emits(u) PROVE ExactInv'
<1>1. /\ UNCHANGED <<registry, row, tails, agent>> /\ h[u].at = "event" /\ h'[u].at = "components" /\ h'[u].event = None
      /\ \A v \in UIDs : v # u => h'[v] = h[v]
      /\ log' = IF h[u].event # None /\ h[u].wl \in DOMAIN row THEN Append(log, h[u].event) ELSE log
  BY Zenon DEF Emits
<1>2. HandlerOK(h[u], u, registry[u]) /\ ExactOf(u)
  BY Zenon DEF IdInv, ExactInv
<1>3. registry[u] # NoInstance /\ h[u].wl = registry[u].wl /\ h[u].at \notin {"load", "upsert"}
  BY <1>1, <1>2 DEF HandlerOK
<1>4. h[u].wl \in DOMAIN row
  BY <1>2, <1>3, Zenon DEF ExactOf
<1>5. CASE h[u].event = None
  <2>1. log' = log
    BY <1>1, <1>5, Zenon
  <2>2. \A v \in UIDs : Connections(v)' = Connections(v) /\ Departures(v)' = Departures(v) /\ Latest(v)' = Latest(v)
    BY <2>1, CountsStay, ChainsStay, Zenon
  <2>3. ASSUME NEW v \in UIDs, v # u PROVE ExactOf(v)'
    <3>1. h'[v] = h[v] /\ registry'[v] = registry[v] /\ agent'[v].releases = agent[v].releases /\ tails'[v] = tails[v]
          /\ ExactOf(v) /\ \A i \in Latest(v) : log'[i] = log[i]
      BY <1>1, <2>1, <2>3, Zenon DEF ExactInv
    <3> QED BY <1>1, <2>2, <3>1, ExactKept, Zenon
  <2>4. Pending(u)' = Pending(u) /\ Bound(u)' = Bound(u)
    BY <1>1, <1>5, Zenon DEF Pending, Bound
  <2>5. ExactOf(u)'
    BY <1>1, <1>2, <1>3, <1>4, <1>5, <2>1, <2>2, <2>4, Zenon DEF ExactOf
  <2> QED BY <2>3, <2>5, Zenon DEF ExactInv
<1>6. CASE h[u].event # None
  <2>1. PICK e : e = h[u].event
    BY Zenon
  <2>2. e \in Events /\ e # None /\ e.uid = u /\ e.type \in BindTypes /\ e.version = registry[u].version
    BY <1>2, <1>6, <2>1, Zenon DEF HandlerOK
  <2>3. log' = Append(log, e)
    BY <1>1, <1>4, <1>6, <2>1, Zenon
  <2>4. PICK n : Grown(n, e)
    BY <2>2, <2>3, LogGrowsBy, Zenon DEF Grown
  <2>5. e.type # "disconnected"
    BY <2>2 DEF BindTypes
  <2>6. Departures(u)' = Departures(u) /\ Connections(u)' = Connections(u) + Pending(u) /\ Pending(u)' = 0 /\ Bound(u)' = Bound(u)
    <3>1. Departures(u)' = Departures(u)
      BY <2>4, <2>5, CountsGrow, Zenon
    <3>2. Pending(u)' = 0 /\ Bound(u)' = Bound(u)
      BY <1>1, Zenon DEF Pending, Bound
    <3>3. CASE e.type = "connected"
      <4>1. Connections(u)' = Connections(u) + 1
        BY <2>2, <2>4, <3>3, CountsGrow, Zenon
      <4>2. Pending(u) = 1
        BY <1>6, <2>1, <3>3, Zenon DEF Pending
      <4> QED BY <3>1, <3>2, <4>1, <4>2, Zenon
    <3>4. CASE e.type # "connected"
      <4>1. Connections(u)' = Connections(u)
        BY <2>4, <3>4, CountsGrow, Zenon
      <4>2. Pending(u) = 0
        BY <2>1, <3>4, Zenon DEF Pending
      <4> QED BY <3>1, <3>2, <4>1, <4>2, CountsAreNat
    <3> QED BY <3>3, <3>4, Zenon
  <2>7. Connections(u)' + Pending(u)' = Departures(u)' + Cardinality(tails'[u]) + Bound(u)'
    <3>1. Connections(u) + Pending(u) = Departures(u) + Cardinality(tails[u]) + Bound(u) /\ tails'[u] = tails[u]
      BY <1>1, <1>2, Zenon DEF ExactOf
    <3>2. Pending(u) \in {0, 1}
      BY Zenon DEF Pending
    <3> QED BY <2>6, <3>1, <3>2, CountsAreNat
  <2>8. Bindings(u)' = Bindings(u) \cup {n}
    BY <2>2, <2>4, BindingsGrown, Zenon
  <2>9. Latest(u)' = {n} /\ log'[n] = e
    BY <2>4, <2>8, BindingsAre, ChainGrows, Zenon DEF Grown
  <2>10. ExactOf(u)'
    <3>1. \E i \in Latest(u)' : log'[i].version = registry'[u].version
      BY <1>1, <2>2, <2>9, Zenon
    <3> QED BY <1>1, <1>2, <1>3, <1>4, <2>7, <3>1, Zenon DEF ExactOf
  <2>11. ASSUME NEW v \in UIDs, v # u PROVE ExactOf(v)'
    <3>1. Bindings(v)' = Bindings(v)
      BY <2>2, <2>4, <2>11, BindingsGrown, Zenon
    <3>2. \A i \in Bindings(v) : log'[i] = log[i]
      BY <2>4, BindingsAre, Zenon DEF Grown
    <3>3. Latest(v)' = Latest(v)
      BY <3>1, <3>2, ChainKept, Zenon
    <3>4. \A i \in Latest(v) : log'[i] = log[i]
      BY <3>2, Zenon DEF Latest
    <3>5. Connections(v)' = Connections(v) /\ Departures(v)' = Departures(v)
      BY <2>2, <2>4, <2>11, CountsGrow, Zenon
    <3>6. h'[v] = h[v] /\ registry'[v] = registry[v] /\ agent'[v].releases = agent[v].releases
          /\ tails'[v] = tails[v] /\ ExactOf(v)
      BY <1>1, <2>11, Zenon DEF ExactInv
    <3> QED BY <1>1, <3>3, <3>4, <3>5, <3>6, ExactKept, Zenon
  <2> QED BY <2>10, <2>11, Zenon DEF ExactInv
<1> QED BY <1>5, <1>6, Zenon
LEMMA ExactRelease == ASSUME IdInv, ExactInv, NEW u \in UIDs, Releases(u) PROVE ExactInv'
<1>1. /\ UNCHANGED <<row, log, h>> /\ h[u].at = "idle" /\ registry'[u] = NoInstance
      /\ agent'[u].releases = agent[u].releases + 1
      /\ tails'[u] = IF registry[u] = NoInstance THEN tails[u] ELSE tails[u] \cup {<<agent[u].releases, registry[u].wl>>}
      /\ \A v \in UIDs : v # u => agent'[v] = agent[v] /\ tails'[v] = tails[v] /\ registry'[v] = registry[v]
  BY Zenon DEF Releases
<1>2. \A v \in UIDs : Connections(v)' = Connections(v) /\ Departures(v)' = Departures(v) /\ Latest(v)' = Latest(v)
  BY <1>1, CountsStay, ChainsStay, Zenon
<1>3. ASSUME NEW v \in UIDs, v # u PROVE ExactOf(v)'
  <2>1. h'[v] = h[v] /\ registry'[v] = registry[v] /\ agent'[v].releases = agent[v].releases /\ tails'[v] = tails[v]
        /\ ExactOf(v) /\ \A i \in Latest(v) : log'[i] = log[i]
    BY <1>1, <1>3, Zenon DEF ExactInv
  <2> QED BY <1>1, <1>2, <2>1, ExactKept, Zenon
<1>4. ExactOf(u) /\ h[u].event = None /\ agent[u].releases \in Nat
  BY <1>1 DEF ExactInv, IdInv, HandlerOK, IsAgent
<1>5. /\ IsFiniteSet(tails[u]) /\ Connections(u) + Pending(u) = Departures(u) + Cardinality(tails[u]) + Bound(u)
      /\ \A t \in tails[u] : t[1] \in Nat /\ t[1] < agent[u].releases /\ t[2] \in DOMAIN row
  BY <1>4, Zenon DEF ExactOf, IdInv
<1>6. Pending(u)' = 0 /\ Pending(u) = 0 /\ Bound(u)' = 0
  BY <1>1, <1>4, Zenon DEF Pending, Bound
<1>7. IsFiniteSet(tails'[u]) /\ Cardinality(tails'[u]) = Cardinality(tails[u]) + Bound(u)
  <2>0. Cardinality(tails[u]) \in Nat
    BY <1>5, FS_CardinalityType, Zenon
  <2>1. CASE registry[u] = NoInstance
    <3>1. Bound(u) = 0 /\ tails'[u] = tails[u]
      BY <1>1, <2>1, Zenon DEF Bound
    <3> QED BY <1>5, <2>0, <3>1
  <2>2. CASE registry[u] # NoInstance
    <3> DEFINE t == <<agent[u].releases, registry[u].wl>>
    <3>1. Bound(u) = 1 /\ tails'[u] = tails[u] \cup {t}
      BY <1>1, <2>2, Zenon DEF Bound
    <3>2. t[1] = agent[u].releases
      OBVIOUS
    <3> HIDE DEF t
    <3>3. t \notin tails[u]
      BY <1>4, <1>5, <3>2
    <3> QED BY <1>5, <3>1, <3>3, FS_AddElement, ZenonT(30)
  <2> QED BY <2>1, <2>2, Zenon
<1>8. \A t \in tails'[u] : t[1] < agent'[u].releases /\ t[2] \in DOMAIN row'
  <2>1. SUFFICES ASSUME NEW t \in tails'[u] PROVE t[1] < agent[u].releases + 1 /\ t[2] \in DOMAIN row
    BY <1>1, Zenon
  <2>2. CASE t \in tails[u]
    BY <1>4, <1>5, <2>2
  <2>3. CASE t \notin tails[u]
    <3>1. registry[u] # NoInstance /\ t = <<agent[u].releases, registry[u].wl>>
      BY <1>1, <2>1, <2>3, Zenon
    <3>2. h[u].at \notin {"load", "upsert"}
      BY <1>1
    <3>3. registry[u].wl \in DOMAIN row
      BY <1>4, <3>1, <3>2, Zenon DEF ExactOf
    <3> QED BY <1>4, <3>1, <3>3
  <2> QED BY <2>2, <2>3, Zenon
<1>9. Connections(u)' + Pending(u)' = Departures(u)' + Cardinality(tails'[u]) + Bound(u)'
  <2>1. Cardinality(tails[u]) \in Nat /\ Bound(u) \in {0, 1}
    BY <1>5, FS_CardinalityType, Zenon DEF Bound
  <2> QED BY <1>2, <1>5, <1>6, <1>7, <2>1, CountsAreNat
<1>10. ExactOf(u)'
  BY <1>1, <1>7, <1>8, <1>9, Zenon DEF ExactOf
<1> QED BY <1>3, <1>10, Zenon DEF ExactInv

LEMMA ExactLeave == ASSUME IdentityConstants, IdInv, ExactInv, NEW u \in UIDs, NEW t, Leaves(u, t) PROVE ExactInv'
<1>1. /\ UNCHANGED <<registry, row, h, agent>> /\ t \in tails[u] /\ t[2] \in HomesOf(u)
      /\ tails'[u] = tails[u] \ {t} /\ (\A v \in UIDs : v # u => tails'[v] = tails[v])
      /\ log' = IF t[2] \in DOMAIN row THEN Append(log, Gone(u, t[2])) ELSE log
  BY Zenon DEF Leaves
<1>2. ExactOf(u)
  BY Zenon DEF ExactInv
<1>3. PICK e : e = Gone(u, t[2])
  BY Zenon
<1>4. IsGone(Gone(u, t[2]), u, t[2])
  BY <1>1, GoneIs, Zenon
<1>5. e \in Events /\ e.type = "disconnected" /\ e.uid = u
  BY <1>3, <1>4, Zenon DEF IsGone
<1>6. e # None /\ e.type \notin BindTypes /\ e.type # "connected"
  BY <1>5 DEF IdentityConstants, BindTypes
<1>7. log' = Append(log, e)
  BY <1>1, <1>2, <1>3, Zenon DEF ExactOf
<1>8. PICK n : Grown(n, e)
  BY <1>5, <1>6, <1>7, LogGrowsBy, Zenon DEF Grown
<1>9. ASSUME NEW v \in UIDs
      PROVE Latest(v)' = Latest(v) /\ Connections(v)' = Connections(v) /\ \A i \in Latest(v) : log'[i] = log[i]
  <2>1. Bindings(v)' = Bindings(v)
    BY <1>6, <1>8, BindingsGrown, Zenon
  <2>2. \A i \in Bindings(v) : log'[i] = log[i]
    BY <1>8, BindingsAre, Zenon DEF Grown
  <2>3. Connections(v)' = Connections(v)
    BY <1>6, <1>8, CountsGrow, Zenon
  <2> QED BY <2>1, <2>2, <2>3, ChainKept, Zenon DEF Latest
<1>10. ASSUME NEW v \in UIDs, v # u PROVE ExactOf(v)'
  <2>1. h'[v] = h[v] /\ registry'[v] = registry[v] /\ agent'[v].releases = agent[v].releases
          /\ tails'[v] = tails[v] /\ ExactOf(v)
    BY <1>1, <1>10, Zenon DEF ExactInv
  <2>2. Departures(v)' = Departures(v)
    BY <1>5, <1>8, <1>10, CountsGrow, Zenon
  <2> QED BY <1>1, <1>9, <2>1, <2>2, ExactKept, Zenon
<1>11. Departures(u)' = Departures(u) + 1 /\ Pending(u)' = Pending(u) /\ Bound(u)' = Bound(u)
  <2>1. Departures(u)' = Departures(u) + 1
    BY <1>5, <1>8, CountsGrow, Zenon
  <2> QED BY <1>1, <2>1, Zenon DEF Pending, Bound
<1>12. IsFiniteSet(tails'[u]) /\ Cardinality(tails'[u]) = Cardinality(tails[u]) - 1
  BY <1>1, <1>2, FS_RemoveElement, Zenon DEF ExactOf
<1>13. Connections(u)' + Pending(u)' = Departures(u)' + Cardinality(tails'[u]) + Bound(u)'
  <2>1. Connections(u) + Pending(u) = Departures(u) + Cardinality(tails[u]) + Bound(u) /\ IsFiniteSet(tails[u])
    BY <1>2, Zenon DEF ExactOf
  <2>2. Cardinality(tails[u]) \in Nat /\ Bound(u) \in {0, 1} /\ Pending(u) \in {0, 1}
    BY <2>1, FS_CardinalityType, Zenon DEF Bound, Pending
  <2> QED BY <1>9, <1>11, <1>12, <2>1, <2>2, CountsAreNat
<1>14. ExactOf(u)'
  <2>1. \A x \in tails'[u] : x[1] < agent'[u].releases /\ x[2] \in DOMAIN row'
    BY <1>1, <1>2, Zenon DEF ExactOf
  <2>2. registry'[u] # NoInstance /\ h'[u].event = None => \E i \in Latest(u)' : log'[i].version = registry'[u].version
    BY <1>1, <1>2, <1>9, Zenon DEF ExactOf
  <2> QED BY <1>1, <1>2, <1>12, <1>13, <2>1, <2>2, Zenon DEF ExactOf
<1> QED BY <1>10, <1>14, Zenon DEF ExactInv

\* Every connection, disconnection and version change is in the log
\* exactly once, whatever the order of the handlers and of the releases, which
\* write their event after the session is gone (emitBindEvent and
\* releaseSession, server.go): when the handlers of an instance have finished,
\* it has as many disconnections as connections, or one less while it is
\* connected, and its last event has its version.
THEOREM LogIsExactAlways ==
    ASSUME IdentityConstants, VersionsAreNamed, MayDelete = FALSE PROVE Spec => []LogIsExact
<1>1. ASSUME IdInv, ExactInv, Next PROVE ExactInv'
  <2>1. ASSUME NEW u \in UIDs, NEW d \in Descriptions[u], NEW comps, handleAgentDescription(u, d, comps) PROVE ExactInv'
    <3>1. PICK w, x : Binds(u, w, x)
      BY <1>1, <2>1, DescriptionBinds, Zenon
    <3> QED BY <1>1, <3>1, ExactBind, Zenon
  <2>2. ASSUME NEW u \in UIDs, IdStep(u) PROVE ExactInv'
    BY <1>1, <2>1, <2>2, ExactCalm, ExactEmit, EventEmits, ExactRelease, SessionReleases,
       ExactLeave, ReleaseLeaves, Zenon DEF IdStep
  <2>3. ASSUME NEW w, handleDeleteWorkload(w) PROVE FALSE
    BY <2>3, Zenon DEF handleDeleteWorkload
  <2> QED BY <1>1, <2>2, <2>3, Steps, Zenon
<1>2. IdInv /\ ExactInv /\ UNCHANGED vars => ExactInv'
  <2>1. SUFFICES ASSUME IdInv, ExactInv, UNCHANGED <<registry, row, log, h, tails, agent>>, NEW u \in UIDs PROVE ExactOf(u)'
    BY Zenon DEF vars, ExactInv
  <2>2. Connections(u)' = Connections(u) /\ Departures(u)' = Departures(u) /\ Latest(u)' = Latest(u)
    BY <2>1, CountsStay, ChainsStay, Zenon
  <2>3. h'[u] = h[u] /\ registry'[u] = registry[u] /\ agent'[u].releases = agent[u].releases /\ tails'[u] = tails[u]
        /\ ExactOf(u) /\ \A i \in Latest(u) : log'[i] = log[i]
    BY <2>1, Zenon DEF ExactInv
  <2> QED BY <2>1, <2>2, <2>3, ExactKept, Zenon
<1>3. IdInv /\ ExactInv => LogIsExact
  <2>1. SUFFICES ASSUME IdInv, ExactInv, NEW u \in UIDs, Quiet(u)
                 PROVE  /\ Cardinality(Of(u, {"connected"})) =
                             Cardinality(Of(u, {"disconnected"})) + IF registry[u] = NoInstance THEN 0 ELSE 1
                        /\ registry[u] # NoInstance => \E i \in Latest(u) : log[i].version = registry[u].version
    BY Zenon DEF LogIsExact
  <2>2. tails[u] = {} /\ h[u].event = None /\ ExactOf(u)
    BY <2>1 DEF Quiet, IdInv, HandlerOK, ExactInv
  <2>3. Pending(u) = 0 /\ Cardinality(tails[u]) = 0
    BY <2>2, FS_EmptySet, Zenon DEF Pending
  <2>4. Connections(u) + 0 = Departures(u) + 0 + Bound(u)
    BY <2>2, <2>3, Zenon DEF ExactOf
  <2>5. Connections(u) = Departures(u) + Bound(u)
    BY <2>1, <2>4, CountsAreNat
  <2>6. Cardinality(Of(u, {"connected"})) = Connections(u) /\ Cardinality(Of(u, {"disconnected"})) = Departures(u)
    BY Zenon DEF Connections, Departures
  <2>7. registry[u] # NoInstance => \E i \in Latest(u) : log[i].version = registry[u].version
    BY <2>2, Zenon DEF ExactOf
  <2> QED BY <2>5, <2>6, <2>7, Zenon DEF Bound
<1> QED BY <1>1, <1>2, <1>3, IdSafe, ExactInit, PTL DEF Spec
=============================================================================
