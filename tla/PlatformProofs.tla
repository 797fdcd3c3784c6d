---------------------------- MODULE PlatformProofs ----------------------------
(***************************************************************************)
(* The server around the fleet, for any number of tasks, clients and       *)
(* workloads: the stop of the process and the views of the fleet that it   *)
(* serves, which this module extends, and beside them, with variables of   *)
(* its own, the event hub of the web console.                              *)
(***************************************************************************)
EXTENDS ServerLifecycle, FleetViews, Sequences, TLAPS

---------------------------------------------------------------------------
(* The process *)

\* Where Run is once the listener of the API is closed, ...
Closing == {"apiClosing", "opampShutdown", "opampClosing", "beginStop", "stopOpAMP", "hubStop", "outboxStop",
            "returned", "over"}
APIDown == Closing \ {"apiClosing"}

\* ... while and after beginStop of internal/opamp, after it, and after Stop.
Stopping == {"beginStop", "stopOpAMP", "hubStop", "outboxStop", "returned", "over"}
Stopped == {"hubStop", "outboxStop", "returned", "over"}

\* What the stages of beginStop have in common: each is passed after the one
\* before, and the goroutine that joins the handlers starts with the last.
OrderInv ==
    /\ stopState => main \in Stopping
    /\ graceStopped => stopState
    /\ tokensStopped => graceStopped
    /\ join # "off" => tokensStopped
    /\ main \in Stopped => join = "done"
    /\ stops # 0 => main \in {"outboxStop", "returned", "over"}
    /\ store = "closed" => main = "over"

\* What has been waited for does not begin again.
JoinInv ==
    /\ join \in {"tokens", "operations", "done"} => ~ Busy({"grace"})
    /\ join \in {"operations", "done"} => ~ Busy({"message"})
    /\ join = "done" => ~ Busy({"auth", "push"})

\* The same of the requests of the API and of the audit outbox, whose waits
\* are limited.
WaitInv ==
    /\ main \in Closing => api # "open"
    /\ main \in APIDown /\ Busy({"api"}) => "shutdown" \in deadline
    /\ main \in {"returned", "over"} /\ Busy({"outbox"}) => "outbox" \in deadline

StopInv == OrderInv /\ JoinInv /\ WaitInv

\* A task that is busy after a step was busy before it, or has just begun.
LEMMA BusyStep ==
    ASSUME DOMAIN task = Tasks, NEW K, Busy(K)', NEW t \in Tasks,
           BeginTask(t) \/ Send(t) \/ Sent(t) \/ EndTask(t)
    PROVE  Busy(K) \/ (Kind[t] \in K /\ Admits(Kind[t]))
<1>1. PICK u \in Tasks : Kind[u] \in K /\ task'[u] \in {"running", "sending"}
  BY Zenon DEF Busy
<1>2. CASE u # t
  <2>1. task'[u] = task[u]
    BY <1>2, Zenon DEF BeginTask, Send, Sent, EndTask
  <2> QED BY <1>1, <2>1, Zenon DEF Busy
<1>3. CASE u = t
  <2>1. CASE BeginTask(t)
    BY <1>1, <1>3, <2>1, Zenon DEF BeginTask
  <2>2. CASE Send(t) \/ Sent(t)
    BY <1>1, <1>3, <2>2, Zenon DEF Send, Sent, Busy
  <2>3. CASE EndTask(t)
    BY <1>1, <1>3, <2>3, Zenon DEF EndTask
  <2> QED BY <2>1, <2>2, <2>3, Zenon
<1> QED BY <1>2, <1>3, Zenon

\* Where the tasks stay as they are.
LEMMA BusySame == ASSUME UNCHANGED task, NEW K PROVE Busy(K)' <=> Busy(K)
BY Zenon DEF Busy

LEMMA StopInit == Init => StopInv /\ DOMAIN task = Tasks
BY Zenon DEF Init, StopInv, OrderInv, JoinInv, WaitInv, Busy, Stopping, Stopped, Closing, APIDown

\* A step of a task changes nothing of the shutdown, and none begins that the
\* shutdown has waited for.
LEMMA TaskStep ==
    ASSUME StopInv, DOMAIN task = Tasks, NEW t \in Tasks, BeginTask(t) \/ Send(t) \/ Sent(t) \/ EndTask(t)
    PROVE  StopInv' /\ DOMAIN task' = Tasks
<1>1. UNCHANGED Others
  BY Zenon DEF BeginTask, Send, Sent, EndTask
<1>2. UNCHANGED <<main, deadline, api, opampHTTP, stopState, graceStopped, tokensStopped, join, stops, store>>
  BY <1>1, Zenon DEF Others, runVars, listeners, stopVars
<1>3. DOMAIN task' = Tasks
  BY Zenon DEF BeginTask, Send, Sent, EndTask
<1>4. OrderInv'
  BY <1>2, Zenon DEF StopInv, OrderInv
<1>5. JoinInv'
  <2>1. join \in {"tokens", "operations", "done"} => ~ Busy({"grace"})'
    BY BusyStep, Zenon DEF StopInv, OrderInv, JoinInv, Admits
  <2>2. join \in {"operations", "done"} => ~ Busy({"message"})'
    BY BusyStep, Zenon DEF StopInv, OrderInv, JoinInv, Admits
  <2>3. join = "done" => ~ Busy({"auth", "push"})'
    BY BusyStep, Zenon DEF StopInv, OrderInv, JoinInv, Admits, beginOperation
  <2> QED BY <1>2, <2>1, <2>2, <2>3, Zenon DEF JoinInv
<1>6. WaitInv'
  <2>1. main \in APIDown /\ Busy({"api"})' => "shutdown" \in deadline
    BY BusyStep, Zenon DEF StopInv, WaitInv, Admits, APIDown
  <2>2. main \in {"returned", "over"} /\ Busy({"outbox"})' => "outbox" \in deadline
    BY BusyStep, Zenon DEF StopInv, WaitInv, Admits
  <2> QED BY <1>2, <2>1, <2>2, Zenon DEF StopInv, WaitInv
<1> QED BY <1>3, <1>4, <1>5, <1>6, Zenon DEF StopInv
\* The steps of Run up to its shutdown: nothing has been stopped yet.
LEMMA RunStep ==
    ASSUME StopInv, Attach \/ ListenAPI \/ ListenOpAMP \/ Cancel
    PROVE  StopInv'
<1>1. /\ UNCHANGED <<deadline, stopState, graceStopped, tokensStopped, join, stops, store, task>>
      /\ main \notin Closing \cup Stopping \cup Stopped /\ main' \notin Closing \cup Stopping \cup Stopped
  BY Zenon DEF Attach, ListenAPI, ListenOpAMP, Cancel, StartFails, Main, listeners,
     stopVars, hubVars, rest,
     Closing, Stopping, Stopped
<1>2. OrderInv'
  BY <1>1, Zenon DEF StopInv, OrderInv, Stopped
<1>3. JoinInv'
  BY <1>1, BusySame, Zenon DEF StopInv, JoinInv
<1>4. WaitInv'
  BY <1>1, Zenon DEF WaitInv, Closing, APIDown
<1> QED BY <1>2, <1>3, <1>4, Zenon DEF StopInv

\* Run closes its listeners and waits for the requests of the API, as long as
\* the shutdown may take.
LEMMA CloseStep ==
    ASSUME StopInv, CloseAPI \/ APIShutdown \/ CloseOpAMP \/ OpAMPShutdown
    PROVE  StopInv'
<1>1. UNCHANGED <<deadline, stopState, graceStopped, tokensStopped, join, stops, store, task>>
  BY Zenon DEF CloseAPI, APIShutdown, CloseOpAMP, OpAMPShutdown, stopVars, hubVars, rest
<1>2. main \notin Stopping /\ main' \notin Stopped
  BY Zenon DEF CloseAPI, APIShutdown, CloseOpAMP, OpAMPShutdown, Main, Stopping, Stopped
<1>3. OrderInv'
  BY <1>1, <1>2, Zenon DEF StopInv, OrderInv, Stopping
<1>4. JoinInv'
  BY <1>1, BusySame, Zenon DEF StopInv, JoinInv
<1>5. api' # "open"
  BY Zenon DEF CloseAPI, APIShutdown, CloseOpAMP, OpAMPShutdown, Main, Closed,
     listeners, StopInv, WaitInv, Closing
<1>6. main' \in APIDown /\ Busy({"api"}) => "shutdown" \in deadline
  BY Zenon DEF CloseAPI, APIShutdown, CloseOpAMP, OpAMPShutdown, Main, Drained, StopInv,
     WaitInv, Closing, APIDown
<1>7. main' \notin {"returned", "over"}
  BY Zenon DEF CloseAPI, APIShutdown, CloseOpAMP, OpAMPShutdown, Main
<1>8. WaitInv'
  BY <1>1, <1>5, <1>6, <1>7, BusySame, Zenon DEF WaitInv
<1> QED BY <1>3, <1>4, <1>8, Zenon DEF StopInv

\* The stages of beginStop.
LEMMA BeginStopStep ==
    ASSUME StopInv, beginStop \/ GraceBeginStop \/ TokensBeginStop
    PROVE  StopInv'
<1>1. /\ UNCHANGED <<deadline, api, stops, store, task>> /\ main = "beginStop" /\ main' \in {"beginStop", "stopOpAMP"}
  BY Zenon DEF beginStop, GraceBeginStop, TokensBeginStop, Main, runVars, listeners,
     hubVars, rest
<1>2. OrderInv'
  <2>1. main' \in Stopping /\ main' \notin Stopped /\ stops' = 0 /\ store' # "closed"
    BY <1>1, Zenon DEF StopInv, OrderInv, Stopping, Stopped
  <2>2. CASE beginStop
    BY <2>1, <2>2, Zenon DEF StopInv, OrderInv, beginStop
  <2>3. CASE GraceBeginStop
    BY <2>1, <2>3, Zenon DEF StopInv, OrderInv, GraceBeginStop
  <2>4. CASE TokensBeginStop
    BY <2>1, <2>4, Zenon DEF StopInv, OrderInv, TokensBeginStop
  <2> QED BY <2>2, <2>3, <2>4, Zenon
<1>3. JoinInv'
  BY <1>1, BusySame, Zenon DEF StopInv, JoinInv, beginStop, GraceBeginStop, TokensBeginStop
<1>4. WaitInv'
  BY <1>1, BusySame, Zenon DEF StopInv, WaitInv, Closing, APIDown
<1> QED BY <1>2, <1>3, <1>4, Zenon DEF StopInv

\* The goroutine of beginStop goes on once what it waits for is over.
LEMMA JoinStep ==
    ASSUME StopInv, Join
    PROVE  StopInv'
<1>1. /\ UNCHANGED <<main, deadline, api, stopState, graceStopped, tokensStopped, stops, store, task>>
      /\ join \in {"grace", "tokens", "operations"}
  BY Zenon DEF Join, runVars, listeners, hubVars, rest
<1>2. OrderInv'
  <2>1. join' # "off" => tokensStopped'
    BY <1>1, Zenon DEF StopInv, OrderInv
  <2>2. main' \notin Stopped
    BY <1>1, Zenon DEF StopInv, OrderInv
  <2> QED BY <1>1, <2>1, <2>2, Zenon DEF StopInv, OrderInv
<1>3. JoinInv'
  BY <1>1, BusySame, Zenon DEF StopInv, JoinInv, Join
<1>4. WaitInv'
  BY <1>1, BusySame, Zenon DEF StopInv, WaitInv
<1> QED BY <1>2, <1>3, <1>4, Zenon DEF StopInv

\* Run goes on after Stop: the hub, the outbox, the store.
LEMMA EndStep ==
    ASSUME StopInv, stopOpAMPServer \/ HubStop \/ OutboxStop \/ CloseStore
    PROVE  StopInv'
<1>1. UNCHANGED <<deadline, api, stopState, graceStopped, tokensStopped, join, task>>
  BY Zenon DEF stopOpAMPServer, HubStop, OutboxStop, CloseStore, listeners, stopVars, rest
<1>2. OrderInv'
  <2>1. CASE stopOpAMPServer
    BY <1>1, <2>1, Zenon DEF StopInv, OrderInv, stopOpAMPServer, StopReturns, Main, hubVars,
       rest, Stopping, Stopped
  <2>2. CASE HubStop
    BY <1>1, <2>2, Zenon DEF StopInv, OrderInv, HubStop, Main, rest, Stopping, Stopped
  <2>3. CASE OutboxStop
    BY <1>1, <2>3, Zenon DEF StopInv, OrderInv, OutboxStop, Main, hubVars, rest, Stopping, Stopped
  <2>4. CASE CloseStore
    BY <1>1, <2>4, Zenon DEF StopInv, OrderInv, CloseStore, Main, hubVars, Stopping, Stopped
  <2> QED BY <2>1, <2>2, <2>3, <2>4, Zenon
<1>3. JoinInv'
  BY <1>1, BusySame, Zenon DEF StopInv, JoinInv
<1>4. main \in Closing /\ main \in APIDown
  BY Zenon DEF stopOpAMPServer, HubStop, OutboxStop, CloseStore, Main, Closing, APIDown
<1>5. main' \in {"returned", "over"} /\ Busy({"outbox"}) => "outbox" \in deadline
  BY Zenon DEF stopOpAMPServer, HubStop, OutboxStop, CloseStore, Main, StopInv, WaitInv
<1>6. WaitInv'
  BY <1>1, <1>4, <1>5, BusySame, Zenon DEF StopInv, WaitInv
<1> QED BY <1>2, <1>3, <1>6, Zenon DEF StopInv

\* Time passes, and the hub goes on or ends.
LEMMA AroundStop ==
    ASSUME StopInv, Timeout \/ HubReturns \/ FanOut
    PROVE  StopInv'
<1>1. UNCHANGED <<main, api, stopState, graceStopped, tokensStopped, join, stops, store, task>>
  BY Zenon DEF Timeout, HubReturns, FanOut, runVars, listeners, stopVars, hubVars,
     rest, Others
<1>2. deadline \subseteq deadline'
  BY Zenon DEF Timeout, HubReturns, FanOut, runVars, Others
<1>3. OrderInv'
  BY <1>1, Zenon DEF StopInv, OrderInv
<1>4. JoinInv'
  BY <1>1, BusySame, Zenon DEF StopInv, JoinInv
<1>5. WaitInv'
  BY <1>1, <1>2, BusySame, Zenon DEF StopInv, WaitInv
<1> QED BY <1>3, <1>4, <1>5, Zenon DEF StopInv

\* The shutdown is inductive: one lemma for each of its parts.
LEMMA StopNext ==
    ASSUME StopInv, DOMAIN task = Tasks, [Next]_vars
    PROVE  StopInv' /\ DOMAIN task' = Tasks
<1>1. CASE UNCHANGED vars
  <2>1. UNCHANGED <<main, deadline, api, stopState, graceStopped, tokensStopped, join, stops, store, task>>
    BY <1>1, Zenon DEF vars, runVars, listeners, stopVars, hubVars, rest
  <2> QED BY <2>1, BusySame, Zenon DEF StopInv, OrderInv, JoinInv, WaitInv
<1>2. CASE \E t \in Tasks : BeginTask(t) \/ Send(t) \/ Sent(t) \/ EndTask(t)
  BY <1>2, TaskStep, Zenon
<1>3. CASE MainStep \/ Cancel \/ Timeout \/ Join \/ HubReturns \/ FanOut
  <2>1. StopInv'
    BY <1>3, RunStep, CloseStep, BeginStopStep, JoinStep, EndStep, AroundStop, Zenon DEF MainStep
  <2>2. UNCHANGED task
    BY <1>3, Zenon DEF MainStep, Attach, ListenAPI, ListenOpAMP, StartFails, Cancel,
       CloseAPI, APIShutdown, CloseOpAMP,
       OpAMPShutdown, beginStop, GraceBeginStop, TokensBeginStop, stopOpAMPServer, HubStop,
       OutboxStop, CloseStore,
       Timeout, Join, HubReturns, FanOut, rest
  <2> QED BY <2>1, <2>2, Zenon
<1> QED BY <1>1, <1>2, <1>3, Zenon DEF Next

\* The server stops in order, whatever tasks are under way and however long
\* they take: the hub runs until the OpAMP side has stopped, the store is open
\* while a handler runs that the shutdown waits for, and once Stop has returned
\* nothing of the OpAMP side runs (Run of pkg/server, Stop of internal/opamp).
THEOREM ServerStopsInOrder == Spec => []StopsInOrder
<1>1. Init => StopInv /\ DOMAIN task = Tasks
  BY StopInit, Zenon
<1>2. StopInv /\ DOMAIN task = Tasks /\ [Next]_vars => StopInv' /\ (DOMAIN task = Tasks)'
  BY StopNext, Zenon
<1>3. StopInv => StopsInOrder
  <2> SUFFICES ASSUME StopInv PROVE StopsInOrder
    OBVIOUS
  <2>1. \A k : join = "done" /\ k \in {"auth", "push", "message", "grace"} => ~ Busy({k})
    BY Zenon DEF StopInv, JoinInv, Busy
  <2>2. StoppedIsQuiet
    BY <2>1, Zenon DEF StoppedIsQuiet, Busy
  <2>3. HubOutlivesOpAMP
    <3>1. stops > 0 => stops # 0
      OBVIOUS
    <3> QED BY <2>2, <3>1, Zenon DEF HubOutlivesOpAMP, StoppedIsQuiet, StopInv, OrderInv, Stopped
  <2>4. StoreOutlivesHandlers
    BY <2>2, Zenon DEF StoreOutlivesHandlers, StoppedIsQuiet, StopInv, OrderInv, WaitInv, Stopped,
       APIDown, Closing
  <2> QED BY <2>2, <2>3, <2>4, Zenon DEF StopsInOrder
<1> QED BY <1>1, <1>2, <1>3, PTL DEF Spec
---------------------------------------------------------------------------
(* The event hub *)

CONSTANTS Clients, Emitters, SendCap, MaxMessages, MayStop

VARIABLES console, channel, emitter, sent, fanned, clients, cl, panicked

Hb == INSTANCE WSHub WITH hub <- console, bcast <- channel

\* Consecutive broadcasts.
Chain(s) == \A i \in 1 .. Len(s) - 1 : s[i + 1] = s[i] + 1

\* The next broadcast continues the chain.
LEMMA ChainAppend ==
    ASSUME NEW s \in Seq(Nat), NEW m \in Nat, Chain(s), s # <<>> => m = s[Len(s)] + 1
    PROVE  Chain(Append(s, m)) /\ Append(s, m) # <<>> /\ Append(s, m)[Len(Append(s, m))] = m
<1>1. PICK t : t = Append(s, m)
  BY Zenon
<1>2. t \in Seq(Nat) /\ Len(t) = Len(s) + 1 /\ t[Len(s) + 1] = m /\ \A i \in 1 .. Len(s) : t[i] = s[i]
  BY <1>1
<1>3. ASSUME NEW i \in 1 .. Len(t) - 1 PROVE t[i + 1] = t[i] + 1
  <2>1. i \in 1 .. Len(s) /\ Len(s) \in Nat
    BY <1>2, <1>3
  <2>2. CASE i = Len(s)
    BY <1>2, <2>1, <2>2
  <2>3. CASE i # Len(s)
    <3>1. i \in 1 .. Len(s) - 1 /\ i + 1 \in 1 .. Len(s)
      BY <2>1, <2>3
    <3>2. s[i + 1] = s[i] + 1
      BY <3>1, Zenon DEF Chain
    <3> QED BY <1>2, <2>1, <3>1, <3>2, Zenon
  <2> QED BY <2>2, <2>3, Zenon
<1>4. t # <<>> /\ t[Len(t)] = m
  BY <1>2
<1> QED BY <1>1, <1>3, <1>4, Zenon DEF Chain

\* A prefix of a chain is one.
LEMMA ChainPrefix ==
    ASSUME NEW s \in Seq(Nat), NEW t \in Seq(Nat), Chain(s \o t)
    PROVE  Chain(s)
<1>1. PICK u : u = s \o t
  BY Zenon
<1>2. u \in Seq(Nat) /\ Len(u) = Len(s) + Len(t) /\ \A i \in 1 .. Len(s) : u[i] = s[i]
  BY <1>1
<1>3. ASSUME NEW i \in 1 .. Len(s) - 1 PROVE s[i + 1] = s[i] + 1
  <2>1. i \in 1 .. Len(u) - 1 /\ i \in 1 .. Len(s) /\ i + 1 \in 1 .. Len(s)
    BY <1>2, <1>3
  <2>2. u[i + 1] = u[i] + 1
    BY <1>1, <2>1, Zenon DEF Chain
  <2> QED BY <1>2, <2>1, <2>2, Zenon
<1> QED BY <1>3, Zenon DEF Chain

\* What waits grows at its end,
LEMMA ConcatAppend ==
    ASSUME NEW s \in Seq(Nat), NEW t \in Seq(Nat), NEW m \in Nat
    PROVE  s \o Append(t, m) = Append(s \o t, m) /\ s \o t \in Seq(Nat) /\ Append(t, m) \in Seq(Nat)
OBVIOUS

\* and moves from its head to what was written.
LEMMA ConcatMove ==
    ASSUME NEW s \in Seq(Nat), NEW t \in Seq(Nat), t # <<>>
    PROVE  /\ Append(s, Head(t)) \o Tail(t) = s \o t
           /\ Head(t) \in Nat /\ Tail(t) \in Seq(Nat) /\ Append(s, Head(t)) \in Seq(Nat)
           /\ Len(Tail(t)) = Len(t) - 1
OBVIOUS

\* What was written comes first.
LEMMA ConcatFront ==
    ASSUME NEW s \in Seq(Nat), NEW t \in Seq(Nat)
    PROVE  Len(s) \in Nat /\ \A i \in 1 .. Len(s) : (s \o t)[i] = s[i]
OBVIOUS

ClientType ==
    [handler : {"none", "upgraded", "served"}, conn : {"none", "open", "broken", "closed"},
     expires : BOOLEAN, expired : BOOLEAN, send : Seq(Nat), closed : BOOLEAN, got : Seq(Nat),
     read : {"off", "reading", "unregister", "over"}, write : {"off", "running", "over"},
     exp : {"off", "waiting", "over"}, done : BOOLEAN]

\* A client of the hub S has an open channel and its pumps; a client without
\* pumps has received nothing; what was written is consecutive, and so is
\* what waits behind it for a pump that runs, up to the last broadcast f.
ClientOK(q, c, S, f) ==
    /\ c \in S => ~ q.closed /\ q.handler = "served"
    /\ q.handler # "served" => ~ q.closed /\ q.write = "off" /\ q.read = "off" /\ q.send = <<>> /\ q.got = <<>>
    /\ Chain(q.got)
    /\ q.write = "running" =>
          /\ Chain(q.got \o q.send)
          /\ c \in S /\ q.got \o q.send # <<>> => (q.got \o q.send)[Len(q.got \o q.send)] = f

HubInv ==
    /\ cl \in [Clients -> ClientType] /\ clients \subseteq Clients /\ channel \in Seq(Nat) /\ fanned \in Nat
    /\ \A i \in 1 .. Len(channel) : channel[i] = fanned + i
    /\ panicked = FALSE
    /\ \A c \in Clients : ClientOK(cl[c], c, clients, fanned)

\* At the start there are no clients and no messages.
LEMMA HubInit == Hb!Init => HubInv
<1> SUFFICES ASSUME Hb!Init PROVE HubInv
  OBVIOUS
<1>1. Hb!NewClient \in ClientType
  BY DEF Hb!NewClient, ClientType
<1>2. cl \in [Clients -> ClientType] /\ \A c \in Clients : cl[c] = Hb!NewClient
  BY <1>1, Zenon DEF Hb!Init
<1>3. channel \in Seq(Nat) /\ fanned \in Nat /\ \A i \in 1 .. Len(channel) : channel[i] = fanned + i
  BY DEF Hb!Init
<1>4. Chain(<<>>)
  BY DEF Chain
<1>5. ASSUME NEW c \in Clients PROVE ClientOK(cl[c], c, clients, fanned)
  <2>1. c \notin clients /\ cl[c] = Hb!NewClient
    BY <1>2, Zenon DEF Hb!Init
  <2>2. Hb!NewClient.handler = "none" /\ Hb!NewClient.closed = FALSE /\ Hb!NewClient.write = "off" /\ Hb!NewClient.read = "off"
        /\ Hb!NewClient.send = <<>> /\ Hb!NewClient.got = <<>>
    BY DEF Hb!NewClient
  <2> QED BY <1>4, <2>1, <2>2, Zenon DEF ClientOK
<1> QED BY <1>2, <1>3, <1>5, Zenon DEF HubInv, Hb!Init

\* A step of one client that only changes its goroutines and connection, or what
\* it has received.
LEMMA ClientMoves ==
    ASSUME HubInv, NEW c \in Clients, NEW q \in ClientType, Hb!Client(c, q), ClientOK(q, c, clients, fanned)
    PROVE  HubInv'
<1>1. cl' \in [Clients -> ClientType] /\ cl'[c] = q /\ \A d \in Clients : d # c => cl'[d] = cl[d]
  BY Zenon DEF HubInv, Hb!Client
<1>2. UNCHANGED <<channel, fanned, clients, panicked>>
  BY Zenon DEF Hb!Client
<1> QED BY <1>1, <1>2, Zenon DEF HubInv
\* What a goroutine does without touching the buffer keeps all this, whether or
\* not the write pump ends with it.
Beside(q, p) ==
    /\ p.closed = q.closed /\ p.send = q.send /\ p.got = q.got
    /\ p.handler = q.handler \/ (q.handler = "none" /\ p.handler = "upgraded")
    /\ p.write = q.write \/ (q.write = "running" /\ p.write = "over")
    /\ p.read = q.read \/ q.read = "reading"

LEMMA BufferKept ==
    ASSUME NEW q \in ClientType, NEW p \in ClientType, NEW c, NEW S, NEW f, ClientOK(q, c, S, f), Beside(q, p)
    PROVE  ClientOK(p, c, S, f)
<1>1. c \in S => ~ p.closed /\ p.handler = "served"
  BY DEF ClientOK, Beside
<1>2. p.handler # "served" => ~ p.closed /\ p.write = "off" /\ p.read = "off" /\ p.send = <<>> /\ p.got = <<>>
  BY DEF ClientOK, Beside
<1>3. p.write = "running" => q.write = "running"
  BY Zenon DEF Beside
<1> QED BY <1>1, <1>2, <1>3, Zenon DEF ClientOK, Beside

\* The handler, the read pump and the expiration pump of a client.
LEMMA HandleWSStep == ASSUME HubInv, NEW c \in Clients, Hb!HandleWS(c) PROVE HubInv'
<1>1. PICK e \in BOOLEAN : Hb!Client(c, [cl[c] EXCEPT !.handler = "upgraded", !.conn = "open", !.expires = e])
  BY Zenon DEF Hb!HandleWS
<1> DEFINE q == [cl[c] EXCEPT !.handler = "upgraded", !.conn = "open", !.expires = e]
<1>2. cl[c] \in ClientType /\ ClientOK(cl[c], c, clients, fanned) /\ cl[c].handler = "none"
  BY Zenon DEF HubInv, Hb!HandleWS
<1>3. q \in ClientType /\ q.handler = "upgraded" /\ q.closed = cl[c].closed /\ q.send = cl[c].send
      /\ q.got = cl[c].got /\ q.write = cl[c].write /\ q.read = cl[c].read
  BY <1>2, Zenon DEF ClientType
<1>4. Hb!Client(c, q)
  BY <1>1, Zenon
<1> HIDE DEF q
<1>5. ClientOK(q, c, clients, fanned)
  <2>1. Beside(cl[c], q)
    BY <1>2, <1>3, Zenon DEF Beside
  <2> QED BY <1>2, <1>3, <2>1, BufferKept, Zenon
<1> QED BY <1>3, <1>4, <1>5, ClientMoves, Zenon

LEMMA ReadFailsStep == ASSUME HubInv, NEW c \in Clients, Hb!ReadFails(c) PROVE HubInv'
<1> DEFINE q == [cl[c] EXCEPT !.read = "unregister", !.done = TRUE]
<1>1. cl[c] \in ClientType /\ ClientOK(cl[c], c, clients, fanned) /\ cl[c].read = "reading" /\ Hb!Client(c, q)
  BY Zenon DEF HubInv, Hb!ReadFails
<1>2. q \in ClientType /\ q.handler = cl[c].handler /\ q.closed = cl[c].closed /\ q.send = cl[c].send
      /\ q.got = cl[c].got /\ q.write = cl[c].write
  BY <1>1, Zenon DEF ClientType
<1> HIDE DEF q
<1>4. ClientOK(q, c, clients, fanned)
  <2>1. Beside(cl[c], q)
    BY <1>1, <1>2, Zenon DEF Beside
  <2> QED BY <1>1, <1>2, <2>1, BufferKept, Zenon
<1> QED BY <1>1, <1>2, <1>4, ClientMoves, Zenon

LEMMA PumpStep ==
    ASSUME HubInv, NEW c \in Clients, Hb!ExpirePump(c) \/ Hb!ExpirePumpDone(c) \/ Hb!TokenExpires(c) \/ Hb!PeerGone(c)
    PROVE  HubInv'
<1>1. cl[c] \in ClientType /\ ClientOK(cl[c], c, clients, fanned)
  BY Zenon DEF HubInv
<1>2. PICK q \in ClientType : /\ Hb!Client(c, q) /\ q.handler = cl[c].handler /\ q.closed = cl[c].closed /\ q.send = cl[c].send
                              /\ q.got = cl[c].got /\ q.write = cl[c].write /\ q.read = cl[c].read
  <2>1. CASE Hb!ExpirePump(c)
    <3> DEFINE q == [cl[c] EXCEPT !.exp = "over", !.conn = "closed"]
    <3>1. Hb!Client(c, q)
      BY <2>1, Zenon DEF Hb!ExpirePump, Hb!ExpireClose
    <3>2. q \in ClientType /\ q.handler = cl[c].handler /\ q.closed = cl[c].closed /\ q.send = cl[c].send
          /\ q.got = cl[c].got /\ q.write = cl[c].write /\ q.read = cl[c].read
      BY <1>1, Zenon DEF ClientType
    <3> QED BY <3>1, <3>2, Zenon
  <2>2. CASE Hb!ExpirePumpDone(c)
    <3> DEFINE q == [cl[c] EXCEPT !.exp = "over"]
    <3>1. Hb!Client(c, q)
      BY <2>2, Zenon DEF Hb!ExpirePumpDone
    <3>2. q \in ClientType /\ q.handler = cl[c].handler /\ q.closed = cl[c].closed /\ q.send = cl[c].send
          /\ q.got = cl[c].got /\ q.write = cl[c].write /\ q.read = cl[c].read
      BY <1>1, Zenon DEF ClientType
    <3> QED BY <3>1, <3>2, Zenon
  <2>3. CASE Hb!TokenExpires(c)
    <3> DEFINE q == [cl[c] EXCEPT !.expired = TRUE]
    <3>1. Hb!Client(c, q)
      BY <2>3, Zenon DEF Hb!TokenExpires
    <3>2. q \in ClientType /\ q.handler = cl[c].handler /\ q.closed = cl[c].closed /\ q.send = cl[c].send
          /\ q.got = cl[c].got /\ q.write = cl[c].write /\ q.read = cl[c].read
      BY <1>1, Zenon DEF ClientType
    <3> QED BY <3>1, <3>2, Zenon
  <2>4. CASE Hb!PeerGone(c)
    <3> DEFINE q == [cl[c] EXCEPT !.conn = "broken"]
    <3>1. Hb!Client(c, q)
      BY <2>4, Zenon DEF Hb!PeerGone
    <3>2. q \in ClientType /\ q.handler = cl[c].handler /\ q.closed = cl[c].closed /\ q.send = cl[c].send
          /\ q.got = cl[c].got /\ q.write = cl[c].write /\ q.read = cl[c].read
      BY <1>1, Zenon DEF ClientType
    <3> QED BY <3>1, <3>2, Zenon
  <2> QED BY <2>1, <2>2, <2>3, <2>4, Zenon
<1>3. ClientOK(q, c, clients, fanned)
  <2>1. Beside(cl[c], q)
    BY <1>2, Zenon DEF Beside
  <2> QED BY <1>1, <1>2, <2>1, BufferKept, Zenon
<1> QED BY <1>2, <1>3, ClientMoves, Zenon
\* A pump that runs has been started by the handler.
LEMMA RunningIsServed ==
    ASSUME NEW q \in ClientType, NEW c, NEW S, NEW f, ClientOK(q, c, S, f), q.write # "off" \/ q.read # "off"
    PROVE  q.handler = "served"
BY DEF ClientOK

\* The write pump moves the head of the buffer to the peer: the two together
\* stay as they are.
LEMMA WriteMessageStep == ASSUME HubInv, NEW c \in Clients, Hb!WriteMessage(c) PROVE HubInv'
<1> DEFINE q == [cl[c] EXCEPT !.got = Append(@, Head(cl[c].send)), !.send = Tail(@)]
<1>1. cl[c] \in ClientType /\ ClientOK(cl[c], c, clients, fanned) /\ cl[c].write = "running" /\ cl[c].send # <<>>
      /\ Hb!Client(c, q)
  BY Zenon DEF HubInv, Hb!WriteMessage
<1>2. cl[c].send \in Seq(Nat) /\ cl[c].got \in Seq(Nat)
  BY <1>1, Zenon DEF ClientType
<1>3. PICK g \in Seq(Nat), s \in Seq(Nat) :
          g = Append(cl[c].got, Head(cl[c].send)) /\ s = Tail(cl[c].send) /\ g \o s = cl[c].got \o cl[c].send
  <2>1. Append(cl[c].got, Head(cl[c].send)) \in Seq(Nat) /\ Tail(cl[c].send) \in Seq(Nat)
        /\ Append(cl[c].got, Head(cl[c].send)) \o Tail(cl[c].send) = cl[c].got \o cl[c].send
    BY <1>1, <1>2, ConcatMove, Zenon
  <2> QED BY <2>1, Zenon
<1>4. q = [cl[c] EXCEPT !.got = g, !.send = s]
  BY <1>1, <1>3
<1>5. q \in ClientType /\ q.handler = cl[c].handler /\ q.closed = cl[c].closed /\ q.send = s /\ q.got = g
      /\ q.write = cl[c].write
  BY <1>1, <1>3, <1>4, Zenon DEF ClientType
<1> HIDE DEF q
<1>6. cl[c].handler = "served"
  BY <1>1, RunningIsServed
<1>7. Chain(g \o s)
  BY <1>1, <1>3, Zenon DEF ClientOK
<1>8. Chain(g)
  BY <1>7, ChainPrefix, Zenon
<1>9. c \in clients /\ g \o s # <<>> => (g \o s)[Len(g \o s)] = fanned
  BY <1>1, <1>3, Zenon DEF ClientOK
<1>10. c \in clients => ~ q.closed
  BY <1>1, <1>5, Zenon DEF ClientOK
<1>11. ClientOK(q, c, clients, fanned)
  BY <1>5, <1>6, <1>7, <1>8, <1>9, <1>10, Zenon DEF ClientOK
<1> QED BY <1>1, <1>5, <1>11, ClientMoves, Zenon

\* A client whose write pump is over: what it has received is all it will.
LEMMA PumpOver ==
    ASSUME NEW q \in ClientType, NEW p \in ClientType, NEW c, NEW S, NEW f, ClientOK(q, c, S, f), q.write = "running",
           p.handler = q.handler, p.closed = q.closed, p.got = q.got, p.write = "over"
    PROVE  ClientOK(p, c, S, f)
<1>1. p.handler = "served"
  BY RunningIsServed
<1> QED BY <1>1 DEF ClientOK

LEMMA WriteEndsStep == ASSUME HubInv, NEW c \in Clients, Hb!WriteFails(c) \/ Hb!WriteEnds(c) PROVE HubInv'
<1>1. cl[c] \in ClientType /\ ClientOK(cl[c], c, clients, fanned) /\ cl[c].write = "running"
  BY Zenon DEF HubInv, Hb!WriteFails, Hb!WriteEnds
<1>2. CASE Hb!WriteFails(c)
  <2> DEFINE q == [cl[c] EXCEPT !.send = Tail(@), !.write = "over", !.conn = "closed"]
  <2>1. cl[c].send \in Seq(Nat) /\ cl[c].got \in Seq(Nat) /\ cl[c].send # <<>> /\ Hb!Client(c, q)
    BY <1>1, <1>2, Zenon DEF ClientType, Hb!WriteFails
  <2>2. Tail(cl[c].send) \in Seq(Nat)
    BY <2>1, ConcatMove, Zenon
  <2>3. q \in ClientType /\ q.handler = cl[c].handler /\ q.closed = cl[c].closed /\ q.got = cl[c].got /\ q.write = "over"
    BY <1>1, <2>2, Zenon DEF ClientType
  <2> HIDE DEF q
  <2>4. ClientOK(q, c, clients, fanned)
    BY <1>1, <2>3, PumpOver, Zenon
  <2> QED BY <2>1, <2>3, <2>4, ClientMoves, Zenon
<1>3. CASE Hb!WriteEnds(c)
  <2> DEFINE q == [cl[c] EXCEPT !.write = "over", !.conn = "closed"]
  <2>1. Hb!Client(c, q)
    BY <1>3, Zenon DEF Hb!WriteEnds
  <2>2. q \in ClientType /\ q.handler = cl[c].handler /\ q.closed = cl[c].closed /\ q.got = cl[c].got /\ q.write = "over"
    BY <1>1, Zenon DEF ClientType
  <2> HIDE DEF q
  <2>3. ClientOK(q, c, clients, fanned)
    BY <1>1, <2>2, PumpOver, Zenon
  <2> QED BY <2>1, <2>2, <2>3, ClientMoves, Zenon
<1> QED BY <1>2, <1>3, Zenon

\* A client is registered once, with nothing received.
LEMMA RegisterStep == ASSUME HubInv, NEW c \in Clients, Hb!Register(c) PROVE HubInv'
<1>1. cl[c] \in ClientType /\ ClientOK(cl[c], c, clients, fanned) /\ cl[c].handler = "upgraded"
  BY Zenon DEF HubInv, Hb!Register
<1>2. PICK e \in {"waiting", "over"} : e = IF cl[c].expires THEN "waiting" ELSE "over"
  BY Zenon
<1> DEFINE q == [cl[c] EXCEPT !.handler = "served", !.read = "reading", !.write = "running", !.exp = e]
<1>3. cl' = [cl EXCEPT ![c] = q] /\ clients' = clients \cup {c} /\ UNCHANGED <<channel, fanned, panicked>>
  BY <1>1, <1>2, Zenon DEF Hb!Register, HubInv
<1>4. q \in ClientType /\ q.handler = "served" /\ q.closed = cl[c].closed /\ q.send = cl[c].send /\ q.got = cl[c].got
  BY <1>1, Zenon DEF ClientType
<1> HIDE DEF q
<1>5. q.send = <<>> /\ q.got = <<>> /\ ~ q.closed
  BY <1>1, <1>4 DEF ClientOK
<1>6. q.got \o q.send = <<>> /\ Chain(<<>>)
  BY <1>5 DEF Chain
<1>7. ClientOK(q, c, clients', fanned)
  BY <1>4, <1>5, <1>6, Zenon DEF ClientOK
<1>8. ASSUME NEW d \in Clients, d # c PROVE ClientOK(cl[d], d, clients', fanned)
  <2>1. d \in clients' <=> d \in clients
    BY <1>3, <1>8, Zenon
  <2>2. ClientOK(cl[d], d, clients, fanned)
    BY Zenon DEF HubInv
  <2> QED BY <2>1, <2>2, Zenon DEF ClientOK
<1>9. cl' \in [Clients -> ClientType] /\ cl'[c] = q /\ \A d \in Clients : d # c => cl'[d] = cl[d]
  BY <1>3, <1>4, Zenon DEF HubInv
<1> QED BY <1>3, <1>7, <1>8, <1>9, Zenon DEF HubInv
\* A client leaves: its channel is closed if it was still open.
LEMMA UnregisterStep == ASSUME HubInv, NEW c \in Clients, Hb!Unregister(c) PROVE HubInv'
<1>1. cl[c] \in ClientType /\ ClientOK(cl[c], c, clients, fanned) /\ cl[c].read = "unregister"
  BY Zenon DEF HubInv, Hb!Unregister
<1>2. PICK e \in BOOLEAN : e = (cl[c].closed \/ Hb!Unregisters(c))
  BY Zenon
<1> DEFINE q == [cl[c] EXCEPT !.read = "over", !.conn = "closed", !.closed = e]
<1>3. cl' = [cl EXCEPT ![c] = q] /\ clients' = clients \ {c} /\ UNCHANGED <<channel, fanned>>
  BY <1>1, <1>2, Zenon DEF Hb!Unregister, HubInv
<1>4. q \in ClientType /\ q.handler = cl[c].handler /\ q.write = cl[c].write /\ q.send = cl[c].send /\ q.got = cl[c].got
  BY <1>1, Zenon DEF ClientType
<1> HIDE DEF q
<1>5. cl[c].handler = "served" /\ c \notin clients'
  BY <1>1, <1>3, RunningIsServed
<1>6. ClientOK(q, c, clients', fanned)
  BY <1>1, <1>4, <1>5, Zenon DEF ClientOK
<1>7. ASSUME NEW d \in Clients, d # c PROVE ClientOK(cl[d], d, clients', fanned)
  <2>1. d \in clients' <=> d \in clients
    BY <1>3, <1>7, Zenon
  <2>2. ClientOK(cl[d], d, clients, fanned)
    BY Zenon DEF HubInv
  <2> QED BY <2>1, <2>2, Zenon DEF ClientOK
<1>8. cl' \in [Clients -> ClientType] /\ cl'[c] = q /\ \A d \in Clients : d # c => cl'[d] = cl[d]
  BY <1>3, <1>4, Zenon DEF HubInv
<1>9. panicked' = FALSE
  <2>1. ~ (Hb!Unregisters(c) /\ cl[c].closed)
    BY <1>1, Zenon DEF ClientOK, Hb!Unregisters
  <2> QED BY <2>1, Zenon DEF Hb!Unregister, HubInv
<1> QED BY <1>3, <1>6, <1>7, <1>8, <1>9, Zenon DEF HubInv

\* A message is given out: to every client of the hub that stays in it.
LEMMA FanOutStep == ASSUME HubInv, Hb!FanOut PROVE HubInv'
<1>1. PICK m : m = Head(channel)
  BY Zenon
<1>2. channel # <<>> /\ channel' = Tail(channel) /\ fanned' = m
  BY <1>1, Zenon DEF Hb!FanOut
<1>3. m = fanned + 1 /\ m \in Nat /\ channel' \in Seq(Nat) /\ \A i \in 1 .. Len(channel') : channel'[i] = m + i
  <2>1. channel \in Seq(Nat) /\ fanned \in Nat /\ \A i \in 1 .. Len(channel) : channel[i] = fanned + i
    BY Zenon DEF HubInv
  <2>2. Len(channel) \in Nat /\ Len(channel) > 0 /\ m = channel[1]
    BY <1>1, <1>2, <2>1
  <2>3. channel' \in Seq(Nat) /\ Len(channel') = Len(channel) - 1 /\ \A i \in 1 .. Len(channel') : channel'[i] = channel[i + 1]
    BY <1>2, <2>1
  <2>4. m = fanned + 1
    BY <2>1, <2>2
  <2>5. ASSUME NEW i \in 1 .. Len(channel') PROVE channel'[i] = m + i
    <3>1. i + 1 \in 1 .. Len(channel)
      BY <2>2, <2>3, <2>5
    <3>2. channel'[i] = fanned + (i + 1)
      BY <2>1, <2>3, <3>1, <2>5, Zenon
    <3> QED BY <2>1, <2>4, <3>2
  <2> QED BY <2>1, <2>3, <2>4, <2>5
<1>4. PICK D : D = {c \in clients : Hb!Drops(c)}
  BY Zenon
<1>5. clients' = clients \ D /\ cl' = [c \in Clients |->
                 IF c \in D THEN [cl[c] EXCEPT !.closed = TRUE]
                 ELSE IF c \in clients /\ ~ Hb!Full(c) THEN [cl[c] EXCEPT !.send = Append(@, m)]
                 ELSE cl[c]]
  BY <1>1, <1>4, Zenon DEF Hb!FanOut
<1>6. ASSUME NEW c \in Clients PROVE cl'[c] \in ClientType /\ ClientOK(cl'[c], c, clients', m)
  <2>1. cl[c] \in ClientType /\ ClientOK(cl[c], c, clients, fanned)
    BY Zenon DEF HubInv
  <2>2. CASE c \in D
    <3> DEFINE q == [cl[c] EXCEPT !.closed = TRUE]
    <3>1. cl'[c] = q /\ c \notin clients' /\ cl[c].handler = "served"
      BY <1>4, <1>5, <2>1, <2>2, Zenon DEF ClientOK
    <3>2. q \in ClientType /\ q.handler = cl[c].handler /\ q.write = cl[c].write /\ q.send = cl[c].send /\ q.got = cl[c].got
      BY <2>1, Zenon DEF ClientType
    <3> HIDE DEF q
    <3> QED BY <2>1, <3>1, <3>2, Zenon DEF ClientOK
  <2>3. CASE c \notin D /\ c \in clients
    <3>1. ~ Hb!Full(c)
      BY <1>4, <2>3, Zenon DEF Hb!Drops
    <3>2. PICK s : s = Append(cl[c].send, m)
      BY Zenon
    <3> DEFINE q == [cl[c] EXCEPT !.send = s]
    <3>3. cl'[c] = q
      BY <1>5, <2>3, <3>1, <3>2, Zenon
    <3>4. cl[c].send \in Seq(Nat) /\ cl[c].got \in Seq(Nat)
      BY <2>1, Zenon DEF ClientType
    <3>5. PICK t \in Seq(Nat) : t = cl[c].got \o cl[c].send
      BY <3>4, ConcatAppend, <1>3, Zenon
    <3>6. s \in Seq(Nat) /\ cl[c].got \o s = Append(t, m)
      BY <1>3, <3>2, <3>4, <3>5, ConcatAppend, ZenonT(30)
    <3>7. q \in ClientType /\ q.handler = cl[c].handler /\ q.write = cl[c].write /\ q.send = s /\ q.got = cl[c].got
          /\ q.closed = cl[c].closed
      BY <2>1, <3>6, Zenon DEF ClientType
    <3> HIDE DEF q
    <3>8. cl[c].handler = "served" /\ ~ cl[c].closed /\ Chain(cl[c].got)
      BY <2>1, <2>3, Zenon DEF ClientOK
    <3>9. ASSUME cl[c].write = "running"
          PROVE  Chain(Append(t, m)) /\ Append(t, m)[Len(Append(t, m))] = m
      <4>1. Chain(t) /\ (t # <<>> => t[Len(t)] = fanned)
        BY <2>1, <2>3, <3>5, <3>9, Zenon DEF ClientOK
      <4>2. t # <<>> => m = t[Len(t)] + 1
        BY <1>3, <4>1, Zenon
      <4> QED BY <1>3, <4>1, <4>2, ChainAppend, Zenon
    <3> QED BY <3>3, <3>6, <3>7, <3>8, <3>9, Zenon DEF ClientOK
  <2>4. CASE c \notin D /\ c \notin clients
    <3>1. cl'[c] = cl[c] /\ c \notin clients'
      BY <1>5, <2>4, Zenon
    <3> QED BY <2>1, <2>4, <3>1, Zenon DEF ClientOK
  <2> QED BY <2>2, <2>3, <2>4, Zenon
<1>7. clients' \subseteq Clients
  BY <1>5, Zenon DEF HubInv
<1>8. cl' \in [Clients -> ClientType]
  BY <1>5, <1>6, Zenon
<1>9. panicked' = FALSE
  <2>1. \A c \in clients : ~ cl[c].closed
    BY Zenon DEF HubInv, ClientOK
  <2> QED BY <2>1, Zenon DEF Hb!FanOut, HubInv
<1> QED BY <1>2, <1>3, <1>6, <1>7, <1>8, <1>9, Zenon DEF HubInv
\* Messages enter the channel in the order of their numbers.
LEMMA EnqueueStep == ASSUME HubInv, NEW p \in Emitters, Hb!Enqueue(p) PROVE HubInv'
<1>1. channel \in Seq(Nat) /\ fanned \in Nat /\ \A i \in 1 .. Len(channel) : channel[i] = fanned + i
  BY Zenon DEF HubInv
<1>2. channel' = Append(channel, fanned + Len(channel) + 1) /\ UNCHANGED <<fanned, clients, cl, panicked>>
  BY Zenon DEF Hb!Enqueue
<1>3. PICK m \in Nat : m = fanned + Len(channel) + 1
  BY <1>1
<1>4. channel' \in Seq(Nat) /\ Len(channel') = Len(channel) + 1 /\ channel'[Len(channel) + 1] = m
      /\ \A i \in 1 .. Len(channel) : channel'[i] = channel[i]
  BY <1>1, <1>2, <1>3
<1>5. ASSUME NEW i \in 1 .. Len(channel') PROVE channel'[i] = fanned + i
  <2>1. i \in 1 .. Len(channel) \/ i = Len(channel) + 1
    BY <1>1, <1>4, <1>5
  <2>2. CASE i \in 1 .. Len(channel)
    BY <1>1, <1>4, <2>2, Zenon
  <2>3. CASE i = Len(channel) + 1
    BY <1>1, <1>3, <1>4, <2>3
  <2> QED BY <2>1, <2>2, <2>3, Zenon
<1> QED BY <1>1, <1>2, <1>4, <1>5, Zenon DEF HubInv

\* Steps that only concern the emitters and the loop itself.
LEMMA LoopStep ==
    ASSUME HubInv, UNCHANGED <<channel, fanned, clients, cl, panicked>>
    PROVE  HubInv'
BY Zenon DEF HubInv

LEMMA HubNext == HubInv /\ [Hb!Next]_(Hb!vars) => HubInv'
<1> SUFFICES ASSUME HubInv, [Hb!Next]_(Hb!vars) PROVE HubInv'
  OBVIOUS
<1>1. CASE Hb!FanOut
  BY <1>1, FanOutStep, Zenon
<1>2. CASE Hb!Stop \/ Hb!RunReturns \/ UNCHANGED Hb!vars
  BY <1>2, LoopStep, Zenon DEF Hb!Stop, Hb!RunReturns, Hb!vars
<1>3. ASSUME NEW p \in Emitters, Hb!Broadcast(p) PROVE HubInv'
  BY <1>3, LoopStep, Zenon DEF Hb!Broadcast
<1>4. ASSUME NEW p \in Emitters, Hb!Enqueue(p) PROVE HubInv'
  BY <1>4, EnqueueStep, Zenon
<1>5. ASSUME NEW c \in Clients, Hb!HandleWS(c) PROVE HubInv'
  BY <1>5, HandleWSStep, Zenon
<1>6. ASSUME NEW c \in Clients, Hb!Register(c) PROVE HubInv'
  BY <1>6, RegisterStep, Zenon
<1>7. ASSUME NEW c \in Clients, Hb!WriteMessage(c) PROVE HubInv'
  BY <1>7, WriteMessageStep, Zenon
<1>8. ASSUME NEW c \in Clients, Hb!WriteFails(c) \/ Hb!WriteEnds(c) PROVE HubInv'
  BY <1>8, WriteEndsStep, Zenon
<1>9. ASSUME NEW c \in Clients, Hb!ReadFails(c) PROVE HubInv'
  BY <1>9, ReadFailsStep, Zenon
<1>10. ASSUME NEW c \in Clients, Hb!Unregister(c) PROVE HubInv'
  BY <1>10, UnregisterStep, Zenon
<1>11. ASSUME NEW c \in Clients, Hb!ExpirePump(c) \/ Hb!ExpirePumpDone(c) \/ Hb!TokenExpires(c) \/ Hb!PeerGone(c)
       PROVE  HubInv'
  BY <1>11, PumpStep, Zenon
<1> QED BY <1>1, <1>2, <1>3, <1>4, <1>5, <1>6, <1>7, <1>8, <1>9, <1>10, <1>11, Zenon DEF Hb!Next

\* What the clients have is what the property says of it.
LEMMA HubImplies == HubInv => Hb!NoPanic /\ Hb!StreamHasNoGap
<1> SUFFICES ASSUME HubInv PROVE Hb!NoPanic /\ Hb!StreamHasNoGap
  OBVIOUS
<1>1. Hb!NoPanic
  BY Zenon DEF HubInv, Hb!NoPanic
<1>2. ASSUME NEW c \in Clients
      PROVE  LET s == cl[c].got \o cl[c].send IN
             /\ \A i \in 1 .. Len(cl[c].got) - 1 : s[i + 1] = s[i] + 1
             /\ cl[c].write = "running" => /\ \A i \in 1 .. Len(s) - 1 : s[i + 1] = s[i] + 1
                                           /\ c \in clients /\ s # <<>> => s[Len(s)] = fanned
  <2>1. cl[c] \in ClientType /\ ClientOK(cl[c], c, clients, fanned)
    BY Zenon DEF HubInv
  <2>2. cl[c].send \in Seq(Nat) /\ cl[c].got \in Seq(Nat)
    BY <2>1, Zenon DEF ClientType
  <2>3. PICK s : s = cl[c].got \o cl[c].send
    BY Zenon
  <2>4. Len(cl[c].got) \in Nat /\ \A i \in 1 .. Len(cl[c].got) : s[i] = cl[c].got[i]
    BY <2>2, <2>3, ConcatFront, Zenon
  <2>5. ASSUME NEW i \in 1 .. Len(cl[c].got) - 1 PROVE s[i + 1] = s[i] + 1
    <3>1. i \in 1 .. Len(cl[c].got) /\ i + 1 \in 1 .. Len(cl[c].got)
      BY <2>4, <2>5
    <3>2. cl[c].got[i + 1] = cl[c].got[i] + 1
      BY <2>1, <2>5, Zenon DEF ClientOK, Chain
    <3> QED BY <2>4, <3>1, <3>2, Zenon
  <2>6. cl[c].write = "running" => /\ \A i \in 1 .. Len(s) - 1 : s[i + 1] = s[i] + 1
                                   /\ c \in clients /\ s # <<>> => s[Len(s)] = fanned
    BY <2>1, <2>3, Zenon DEF ClientOK, Chain
  <2> QED BY <2>3, <2>5, <2>6, Zenon
<1> QED BY <1>1, <1>2, Zenon DEF Hb!StreamHasNoGap

\* A step of the client c whose buffer gets no longer.
LEMMA NothingQueued ==
    ASSUME HubInv, NEW c \in Clients, NEW q \in ClientType, Hb!Client(c, q), Len(q.send) <= Len(cl[c].send)
    PROVE  \A d \in Clients : Len(cl'[d].send) <= Len(cl[d].send)
<1>1. cl'[c] = q /\ \A d \in Clients : d # c => cl'[d] = cl[d]
  BY Zenon DEF HubInv, Hb!Client
<1>2. ASSUME NEW d \in Clients PROVE Len(cl[d].send) <= Len(cl[d].send)
  <2>1. cl[d].send \in Seq(Nat)
    BY Zenon DEF HubInv, ClientType
  <2> QED BY <2>1
<1> QED BY <1>1, <1>2, Zenon

LEMMA ExpiredNext ==
    ASSUME HubInv, [Hb!Next]_(Hb!vars)
    PROVE  \A c \in Clients : cl[c].expired => Len(cl'[c].send) <= Len(cl[c].send)
<1>0. ASSUME NEW c \in Clients PROVE cl[c] \in ClientType /\ cl[c].send \in Seq(Nat) /\ Len(cl[c].send) <= Len(cl[c].send)
  <2>1. cl[c] \in ClientType /\ cl[c].send \in Seq(Nat)
    BY Zenon DEF HubInv, ClientType
  <2> QED BY <2>1
<1>1. CASE UNCHANGED cl
  BY <1>0, <1>1, Zenon
<1>2. CASE Hb!FanOut
  <2>1. PICK D, m : /\ D = {c \in clients : Hb!Drops(c)}
                    /\ cl' = [c \in Clients |->
                                 IF c \in D THEN [cl[c] EXCEPT !.closed = TRUE]
                                 ELSE IF c \in clients /\ ~ Hb!Full(c) THEN [cl[c] EXCEPT !.send = Append(@, m)]
                                 ELSE cl[c]]
    BY <1>2, Zenon DEF Hb!FanOut
  <2>2. ASSUME NEW c \in Clients, cl[c].expired PROVE Len(cl'[c].send) <= Len(cl[c].send)
    <3>1. c \in clients => c \in D
      BY <2>1, <2>2, Zenon DEF Hb!Drops
    <3>2. cl'[c] = [cl[c] EXCEPT !.closed = TRUE] \/ cl'[c] = cl[c]
      BY <2>1, <3>1, Zenon
    <3>3. [cl[c] EXCEPT !.closed = TRUE].send = cl[c].send
      BY <1>0, Zenon DEF ClientType
    <3> QED BY <1>0, <3>2, <3>3, Zenon
  <2> QED BY <2>2, Zenon
<1>3. ASSUME NEW c \in Clients, NEW q, Hb!Client(c, q), q \in ClientType, q.send = cl[c].send
      PROVE  \A d \in Clients : Len(cl'[d].send) <= Len(cl[d].send)
  BY <1>0, <1>3, NothingQueued, Zenon
<1>4. ASSUME NEW c \in Clients, Hb!HandleWS(c) PROVE \A d \in Clients : Len(cl'[d].send) <= Len(cl[d].send)
  <2>1. PICK e \in BOOLEAN : Hb!Client(c, [cl[c] EXCEPT !.handler = "upgraded", !.conn = "open", !.expires = e])
    BY <1>4, Zenon DEF Hb!HandleWS
  <2>2. [cl[c] EXCEPT !.handler = "upgraded", !.conn = "open", !.expires = e] \in ClientType
        /\ [cl[c] EXCEPT !.handler = "upgraded", !.conn = "open", !.expires = e].send = cl[c].send
    BY <1>0, Zenon DEF ClientType
  <2> QED BY <1>3, <2>1, <2>2, Zenon
<1>5. ASSUME NEW c \in Clients, Hb!ReadFails(c) PROVE \A d \in Clients : Len(cl'[d].send) <= Len(cl[d].send)
  <2>1. [cl[c] EXCEPT !.read = "unregister", !.done = TRUE] \in ClientType
        /\ [cl[c] EXCEPT !.read = "unregister", !.done = TRUE].send = cl[c].send
    BY <1>0, Zenon DEF ClientType
  <2> QED BY <1>3, <1>5, <2>1, Zenon DEF Hb!ReadFails
<1>6. ASSUME NEW c \in Clients, Hb!ExpirePump(c) PROVE \A d \in Clients : Len(cl'[d].send) <= Len(cl[d].send)
  <2>1. [cl[c] EXCEPT !.exp = "over", !.conn = "closed"] \in ClientType
        /\ [cl[c] EXCEPT !.exp = "over", !.conn = "closed"].send = cl[c].send
    BY <1>0, Zenon DEF ClientType
  <2> QED BY <1>3, <1>6, <2>1, Zenon DEF Hb!ExpirePump, Hb!ExpireClose
<1>7. ASSUME NEW c \in Clients, Hb!ExpirePumpDone(c) PROVE \A d \in Clients : Len(cl'[d].send) <= Len(cl[d].send)
  <2>1. [cl[c] EXCEPT !.exp = "over"] \in ClientType /\ [cl[c] EXCEPT !.exp = "over"].send = cl[c].send
    BY <1>0, Zenon DEF ClientType
  <2> QED BY <1>3, <1>7, <2>1, Zenon DEF Hb!ExpirePumpDone
<1>8. ASSUME NEW c \in Clients, Hb!TokenExpires(c) PROVE \A d \in Clients : Len(cl'[d].send) <= Len(cl[d].send)
  <2>1. [cl[c] EXCEPT !.expired = TRUE] \in ClientType /\ [cl[c] EXCEPT !.expired = TRUE].send = cl[c].send
    BY <1>0, Zenon DEF ClientType
  <2> QED BY <1>3, <1>8, <2>1, Zenon DEF Hb!TokenExpires
<1>9. ASSUME NEW c \in Clients, Hb!PeerGone(c) PROVE \A d \in Clients : Len(cl'[d].send) <= Len(cl[d].send)
  <2>1. [cl[c] EXCEPT !.conn = "broken"] \in ClientType /\ [cl[c] EXCEPT !.conn = "broken"].send = cl[c].send
    BY <1>0, Zenon DEF ClientType
  <2> QED BY <1>3, <1>9, <2>1, Zenon DEF Hb!PeerGone
<1>10. ASSUME NEW c \in Clients, Hb!WriteEnds(c) PROVE \A d \in Clients : Len(cl'[d].send) <= Len(cl[d].send)
  <2>1. [cl[c] EXCEPT !.write = "over", !.conn = "closed"] \in ClientType
        /\ [cl[c] EXCEPT !.write = "over", !.conn = "closed"].send = cl[c].send
    BY <1>0, Zenon DEF ClientType
  <2> QED BY <1>3, <1>10, <2>1, Zenon DEF Hb!WriteEnds
<1>11. ASSUME NEW c \in Clients, cl[c].send # <<>> 
       PROVE  /\ Tail(cl[c].send) \in Seq(Nat) /\ Len(Tail(cl[c].send)) <= Len(cl[c].send)
              /\ Head(cl[c].send) \in Nat
  <2>1. cl[c].send \in Seq(Nat)
    BY <1>0, Zenon
  <2> QED BY <1>11, <2>1
<1>12. ASSUME NEW c \in Clients, Hb!WriteFails(c) PROVE \A d \in Clients : Len(cl'[d].send) <= Len(cl[d].send)
  <2> DEFINE q == [cl[c] EXCEPT !.send = Tail(@), !.write = "over", !.conn = "closed"]
  <2>1. q \in ClientType /\ q.send = Tail(cl[c].send)
    BY <1>0, <1>11, <1>12, Zenon DEF ClientType, Hb!WriteFails
  <2>2. Hb!Client(c, q) /\ Len(Tail(cl[c].send)) <= Len(cl[c].send)
    BY <1>11, <1>12, Zenon DEF Hb!WriteFails
  <2> HIDE DEF q
  <2> QED BY <2>1, <2>2, NothingQueued, Zenon
<1>13. ASSUME NEW c \in Clients, Hb!WriteMessage(c) PROVE \A d \in Clients : Len(cl'[d].send) <= Len(cl[d].send)
  <2> DEFINE q == [cl[c] EXCEPT !.got = Append(@, Head(cl[c].send)), !.send = Tail(@)]
  <2>1. cl[c].got \in Seq(Nat) /\ cl[c].send # <<>>
    BY <1>0, <1>13, Zenon DEF ClientType, Hb!WriteMessage
  <2>2. Append(cl[c].got, Head(cl[c].send)) \in Seq(Nat)
    BY <1>0, <2>1, ConcatMove, Zenon
  <2>3. q \in ClientType /\ q.send = Tail(cl[c].send)
    BY <1>0, <1>11, <2>1, <2>2, Zenon DEF ClientType
  <2>4. Hb!Client(c, q) /\ Len(Tail(cl[c].send)) <= Len(cl[c].send)
    BY <1>11, <1>13, Zenon DEF Hb!WriteMessage
  <2> HIDE DEF q
  <2> QED BY <2>3, <2>4, NothingQueued, Zenon
<1>14. ASSUME NEW c \in Clients, Hb!Register(c) PROVE \A d \in Clients : Len(cl'[d].send) <= Len(cl[d].send)
  <2>1. cl'[c].send = cl[c].send /\ \A d \in Clients : d # c => cl'[d] = cl[d]
    BY <1>0, <1>14 DEF HubInv, Hb!Register, ClientType
  <2> QED BY <1>0, <2>1, Zenon
<1>15. ASSUME NEW c \in Clients, Hb!Unregister(c) PROVE \A d \in Clients : Len(cl'[d].send) <= Len(cl[d].send)
  <2>1. cl'[c].send = cl[c].send /\ \A d \in Clients : d # c => cl'[d] = cl[d]
    BY <1>0, <1>15 DEF HubInv, Hb!Unregister, ClientType
  <2> QED BY <1>0, <2>1, Zenon
<1>16. CASE Hb!Stop \/ Hb!RunReturns \/ UNCHANGED Hb!vars
  BY <1>1, <1>16, Zenon DEF Hb!Stop, Hb!RunReturns, Hb!vars
<1>17. ASSUME NEW p \in Emitters, Hb!Broadcast(p) \/ Hb!Enqueue(p)
       PROVE  \A c \in Clients : cl[c].expired => Len(cl'[c].send) <= Len(cl[c].send)
  BY <1>1, <1>17, Zenon DEF Hb!Broadcast, Hb!Enqueue
<1> QED BY <1>2, <1>4, <1>5, <1>6, <1>7, <1>8, <1>9, <1>10, <1>12, <1>13, <1>14, <1>15, <1>16, <1>17, Zenon DEF Hb!Next

\* The hub never panics on a closed channel, whichever of its loop, the read
\* pump and the expiry of a token ends a client first; what a client gets has no
\* hole; and once its token is over the loop queues nothing more for it, even
\* before the expiration pump has closed the connection (internal/api/wshub.go).
\* For any buffers and any number of clients and broadcasters.
THEOREM HubIsSafeAlways == Hb!Spec => [](Hb!NoPanic /\ Hb!StreamHasNoGap) /\ Hb!ExpiredGetsNothingNew
<1>1. Hb!Init => HubInv
  BY HubInit
<1>2. HubInv /\ [Hb!Next]_(Hb!vars) => HubInv'
  BY HubNext
<1>3. HubInv => Hb!NoPanic /\ Hb!StreamHasNoGap
  BY HubImplies
<1>4. HubInv /\ [Hb!Next]_(Hb!vars)
      => [\A c \in Clients : cl[c].expired => Len(cl'[c].send) <= Len(cl[c].send)]_(Hb!vars)
  BY ExpiredNext
<1> QED BY <1>1, <1>2, <1>3, <1>4, PTL DEF Hb!Spec, Hb!ExpiredGetsNothingNew

INSTANCE FiniteSetTheorems

---------------------------------------------------------------------------
(* Sorting *)

\* j comes before k: a smaller rank, or an equal one and an earlier position.
Ahead(r, j, k) == r[j] < r[k] \/ (r[j] = r[k] /\ j < k)

AheadOf(K, r, k) == {j \in K : Ahead(r, j, k)}

\* The places of the sorted sequence, in order.
IsSorted(p, P, r) == \A j, k \in P : j < k => Ahead(r, p[j], p[k])

LEMMA AheadIsAnOrder ==
    ASSUME NEW K \in SUBSET Nat, NEW r \in [K -> Nat]
    PROVE  /\ \A k \in K : ~ Ahead(r, k, k)
           /\ \A i, j, k \in K : Ahead(r, i, j) /\ Ahead(r, j, k) => Ahead(r, i, k)
           /\ \A j, k \in K : j # k => Ahead(r, j, k) \/ Ahead(r, k, j)
<1>1. \A k \in K : k \in Nat /\ r[k] \in Nat
    OBVIOUS
<1>2. \A k \in K : ~ Ahead(r, k, k)
    BY <1>1 DEF Ahead
<1>3. \A i, j, k \in K : Ahead(r, i, j) /\ Ahead(r, j, k) => Ahead(r, i, k)
    BY <1>1 DEF Ahead
<1>4. \A j, k \in K : j # k => Ahead(r, j, k) \/ Ahead(r, k, j)
    BY <1>1 DEF Ahead
<1>. QED  BY <1>2, <1>3, <1>4, Zenon

\* How many are ahead says where one belongs, so there is a sorted order, and
\* every one has a place in it.
LEMMA SortedOrderExists ==
    ASSUME NEW K \in SUBSET Nat, IsFiniteSet(K), NEW r \in [K -> Nat]
    PROVE  \E p \in Injection(1 .. Cardinality(K), K) : IsSorted(p, 1 .. Cardinality(K), r)
<1>. DEFINE n == Cardinality(K)
            P == 1 .. n
            pos == [k \in K |-> Cardinality(AheadOf(K, r, k)) + 1]
<1>0. n \in Nat /\ IsFiniteSet(P) /\ Cardinality(P) = n
    <2>1. n \in Nat
        BY FS_CardinalityType, Zenon
    <2>. HIDE DEF n
    <2>2. IsFiniteSet(1 .. n) /\ Cardinality(1 .. n) = IF 1 > n THEN 0 ELSE n - 1 + 1
        BY <2>1, FS_Interval
    <2>. QED  BY <2>1, <2>2
<1>1. ASSUME NEW k \in K
      PROVE  /\ IsFiniteSet(AheadOf(K, r, k)) /\ Cardinality(AheadOf(K, r, k)) \in Nat
             /\ Cardinality(AheadOf(K, r, k)) + 1 <= n
    <2>0. ~ Ahead(r, k, k)
        BY AheadIsAnOrder, Zenon
    <2>1. AheadOf(K, r, k) \in SUBSET (K \ {k})
        BY <2>0, Zenon DEF AheadOf
    <2>2. IsFiniteSet(K \ {k}) /\ Cardinality(K \ {k}) = n - 1
        BY FS_RemoveElement, Zenon
    <2>3. IsFiniteSet(AheadOf(K, r, k)) /\ Cardinality(AheadOf(K, r, k)) <= Cardinality(K \ {k})
        BY <2>1, <2>2, FS_Subset, Zenon
    <2>4. Cardinality(AheadOf(K, r, k)) \in Nat
        BY <2>3, FS_CardinalityType, Zenon
    <2>. HIDE DEF n
    <2>. QED  BY <1>0, <2>2, <2>3, <2>4
<1>2. pos \in [K -> P]
    <2>. HIDE DEF n
    <2>. QED  BY <1>0, <1>1
<1>3. ASSUME NEW j \in K, NEW k \in K, Ahead(r, j, k) PROVE pos[j] < pos[k]
    <2>1. AheadOf(K, r, j) \cup {j} \in SUBSET AheadOf(K, r, k)
        BY <1>3, AheadIsAnOrder, Zenon DEF AheadOf
    <2>2. j \notin AheadOf(K, r, j)
        BY AheadIsAnOrder, Zenon DEF AheadOf
    <2>3. Cardinality(AheadOf(K, r, j) \cup {j}) = Cardinality(AheadOf(K, r, j)) + 1
        BY <2>2, <1>1, FS_AddElement, Zenon
    <2>4. Cardinality(AheadOf(K, r, j) \cup {j}) <= Cardinality(AheadOf(K, r, k))
        BY <2>1, <1>1, FS_Subset, Zenon
    <2>5. Cardinality(AheadOf(K, r, j)) \in Nat /\ Cardinality(AheadOf(K, r, k)) \in Nat
        BY <1>1, Zenon
    <2>. QED  BY <2>3, <2>4, <2>5
<1>4. \A k \in K : pos[k] \in Nat
    BY <1>1
<1>. HIDE DEF pos
<1>5. pos \in Injection(K, P)
    <2>1. ASSUME NEW j \in K, NEW k \in K, pos[j] = pos[k] PROVE j = k
        <3>1. CASE Ahead(r, j, k)  BY <3>1, <1>3, <1>4, <2>1
        <3>2. CASE Ahead(r, k, j)  BY <3>2, <1>3, <1>4, <2>1
        <3>. QED  BY <3>1, <3>2, AheadIsAnOrder, Zenon
    <2>. QED  BY <1>2, <2>1, Zenon DEF Injection, IsInjective
<1>6. pos \in Surjection(K, P)
    BY <1>0, <1>5, FS_Injection, Zenon
<1>. DEFINE p == [q \in P |-> CHOOSE k \in K : pos[k] = q]
<1>7. ASSUME NEW q \in P PROVE p[q] \in K /\ pos[p[q]] = q
    BY <1>6, Zenon DEF Surjection
<1>. HIDE DEF n
<1>8. p \in Injection(P, K)
    <2>1. p \in [P -> K]
        BY <1>7, Zenon
    <2>2. \A q, s \in P : p[q] = p[s] => q = s
        BY <1>7, Zenon
    <2>. QED  BY <2>1, <2>2, Zenon DEF Injection, IsInjective
<1>9. IsSorted(p, P, r)
    <2>1. ASSUME NEW j \in P, NEW k \in P, j < k, ~ Ahead(r, p[j], p[k]) PROVE FALSE
        <3>1. j \in Nat /\ k \in Nat
            BY <1>0
        <3>2. p[j] \in K /\ p[k] \in K /\ pos[p[j]] = j /\ pos[p[k]] = k
            BY <1>7, Zenon
        <3>. HIDE DEF p
        <3>3. p[j] # p[k]
            BY <2>1, <3>1, <3>2
        <3>4. Ahead(r, p[k], p[j])
            BY <2>1, <3>2, <3>3, AheadIsAnOrder, Zenon
        <3>5. k < j
            BY <3>4, <3>2, <1>3, Zenon
        <3>. QED  BY <2>1, <3>1, <3>5
    <2>. QED  BY <2>1, Zenon DEF IsSorted
<1>. HIDE DEF p
<1>. QED  BY <1>8, <1>9, Zenon DEF n

\* The hashes that the instances report.
Running(c) == {c.instances[k].hash : k \in DOMAIN c.instances} \ {""}

LEMMA EffectiveIs ==
    ASSUME NEW c
    PROVE  EffectiveHashes(c) = IF Running(c) = {} THEN {c.reported} \ {""} ELSE Running(c)
<1>1. Range(c.instances) = {c.instances[k] : k \in DOMAIN c.instances}
    BY Zenon DEF Range
<1>2. {i.hash : i \in Range(c.instances)} \ {""} = Running(c)
    BY <1>1, Zenon DEF Running
<1>. QED  BY <1>2, Zenon DEF EffectiveHashes

LEMMA EffectiveIsFinite ==
    ASSUME NEW c, IsFiniteSet(DOMAIN c.instances)
    PROVE  IsFiniteSet(EffectiveHashes(c))
<1>. DEFINE H == {c.instances[k].hash : k \in DOMAIN c.instances}
            g == [k \in DOMAIN c.instances |-> c.instances[k].hash]
<1>1. g \in Surjection(DOMAIN c.instances, H)
    BY Zenon DEF Surjection
<1>2. IsFiniteSet(H)
    <2>. HIDE DEF g, H
    <2>. QED  BY <1>1, FS_Surjection, Zenon
<1>3. IsFiniteSet(Running(c))
    <2>1. Running(c) \in SUBSET H
        BY Zenon DEF Running
    <2>. HIDE DEF H
    <2>. QED  BY <1>2, <2>1, FS_Subset, Zenon
<1>4. IsFiniteSet({c.reported} \ {""})
    <2>1. ({c.reported} \ {""}) \in SUBSET {c.reported}
        BY Zenon
    <2>2. IsFiniteSet({c.reported})
        BY FS_Singleton, Zenon
    <2>. QED  BY <2>1, <2>2, FS_Subset, Zenon
<1>. QED  BY <1>3, <1>4, EffectiveIs, Zenon

LEMMA CountsTell ==
    ASSUME NEW S, IsFiniteSet(S)
    PROVE  /\ ~ (Cardinality(S) > 1) <=> \A x, y \in S : x = y
           /\ Cardinality(S) = 1 <=> \E x : S = {x}
<1>1. Cardinality(S) \in Nat
    BY FS_CardinalityType, Zenon
<1>2. Cardinality(S) = 0 <=> S = {}
    BY FS_EmptySet, Zenon
<1>3. Cardinality(S) = 1 <=> \E x : S = {x}
    BY FS_Singleton, Zenon
<1>4. ~ (Cardinality(S) > 1) <=> S = {} \/ \E x : S = {x}
    <2>1. ~ (Cardinality(S) > 1) <=> Cardinality(S) = 0 \/ Cardinality(S) = 1
        BY <1>1
    <2>. QED  BY <2>1, <1>2, <1>3, Zenon
<1>5. (\A x, y \in S : x = y) <=> S = {} \/ \E x : S = {x}
    <2>1. ASSUME \A x, y \in S : x = y, S # {} PROVE \E x : S = {x}
        <3>1. PICK x : x \in S
            BY <2>1, Zenon
        <3>2. S = {x}
            BY <2>1, <3>1, Zenon
        <3>. QED  BY <3>2, Zenon
    <2>2. ASSUME NEW x, S = {x} PROVE \A y, z \in S : y = z
        BY <2>2, Zenon
    <2>. QED  BY <2>1, <2>2, Zenon
<1>. QED  BY <1>3, <1>4, <1>5, Zenon

\* The config that a collector is expected to run: the active one of its row,
\* or else that of its latest push.
Expected(c) == IF c.active = "" /\ c.push # NoPush THEN c.push.config ELSE c.active

\* The config that it is believed to run.
Believed(c) == IF Running(c) = {} THEN {c.reported} \ {""} ELSE Running(c)

Overdue(c) == c.push # NoPush /\ c.push.age > 15 /\ c.push.status \in {"submitted", "sent", "applying"}

\* For every collector, whatever its instances report: the dashboard calls it
\* in sync exactly when it takes configs, its instances run one config only, the
\* expected one if there is one, and no push of it is overdue; and it always
\* gives a status other than in sync as a reason
\* (config_safety_drift.go:74-183).
THEOREM InSyncIsExactForEach ==
    ASSUME NEW c, IsFiniteSet(DOMAIN c.instances), c.accepts \in BOOLEAN
    PROVE  LET i == buildConfigDriftItem(c)
           IN /\ i.status = "in_sync" <=>
                     /\ c.accepts /\ ~ Overdue(c)
                     /\ \A x, y \in Believed(c) : x = y
                     /\ Expected(c) # "" => Believed(c) = {Expected(c)}
              /\ i.status # "in_sync" => i.status \in i.reasons
<1>. DEFINE eff == EffectiveHashes(c)
            missing == Expected(c) # "" /\ eff = {}
            pending == c.push # NoPush /\ isPendingPush(c.push) /\ c.push.age > configDriftPendingThreshold
            item == [name |-> c.name, env |-> c.env, accepts |-> c.accepts, alerts |-> c.alerts,
                     expected |-> Expected(c), effective |-> eff,
                     incomplete |-> hasUnknownIncompleteComponents(c),
                     missing |-> missing, pendingTooLong |-> pending]
            i == buildConfigDriftItem(c)
            wanted == Expected(c)
            many == Cardinality(eff) > 1
            one == Cardinality(eff) = 1
            differs == wanted # "" /\ one /\ eff # {wanted}
<1>1. i.status = deriveDriftStatus(item) /\ i.reasons = deriveDriftReasons(item)
    BY Zenon DEF buildConfigDriftItem, Expected
<1>2. /\ item.accepts = c.accepts /\ item.missing = missing /\ item.effective = eff
      /\ item.expected = wanted /\ item.pendingTooLong = pending
    BY Zenon
<1>3. Differs(item) = differs
    BY <1>2, Zenon DEF Differs
<1>4. i.status = IF ~ c.accepts THEN "remote_config_unsupported"
                 ELSE IF missing THEN "missing_effective_config"
                 ELSE IF many THEN "heterogeneous_effective_config"
                 ELSE IF differs THEN "drifted"
                 ELSE IF pending THEN "pending_too_long" ELSE "in_sync"
    BY <1>1, <1>2, <1>3, Zenon DEF deriveDriftStatus
<1>5. /\ ~ c.accepts => "remote_config_unsupported" \in i.reasons
      /\ missing => "missing_effective_config" \in i.reasons
      /\ many => "heterogeneous_effective_config" \in i.reasons
      /\ differs => "drifted" \in i.reasons
      /\ pending => "pending_too_long" \in i.reasons
    BY <1>1, <1>2, <1>3, Zenon DEF deriveDriftReasons, Reason
<1>6. pending = Overdue(c)
    BY Zenon DEF isPendingPush, Overdue, configDriftPendingThreshold
<1>7. eff = Believed(c)
    BY EffectiveIs, Zenon DEF Believed
<1>8. (~ many <=> \A x, y \in eff : x = y) /\ (one <=> \E x : eff = {x})
    BY EffectiveIsFinite, CountsTell, Zenon
<1>9. ~ missing /\ ~ many /\ ~ differs <=>
          (\A x, y \in eff : x = y) /\ (wanted # "" => eff = {wanted})
    <2>. HIDE DEF eff, wanted, many, one
    <2>1. ASSUME ~ missing, ~ many, ~ differs, wanted # "" PROVE eff = {wanted}
        <3>1. PICK x : x \in eff
            BY <2>1, Zenon DEF wanted
        <3>2. eff = {x}
            BY <3>1, <2>1, <1>8, Zenon
        <3>. QED  BY <3>2, <2>1, <1>8, Zenon
    <2>2. ASSUME \A x, y \in eff : x = y, wanted # "" => eff = {wanted} PROVE ~ missing /\ ~ many /\ ~ differs
        BY <2>2, <1>8, Zenon DEF wanted
    <2>. QED  BY <2>1, <2>2, <1>8, Zenon
<1>. HIDE DEF i, missing, many, differs, pending, eff, wanted
<1>10. i.status = "in_sync" <=> c.accepts /\ ~ missing /\ ~ many /\ ~ differs /\ ~ pending
    BY <1>4
<1>11. i.status # "in_sync" => i.status \in i.reasons
    BY <1>4, <1>5
<1>12. i.status = "in_sync" <=>
           /\ c.accepts /\ ~ Overdue(c)
           /\ \A x, y \in Believed(c) : x = y
           /\ wanted # "" => Believed(c) = {wanted}
    BY <1>6, <1>7, <1>9, <1>10, Zenon
<1>. QED  BY <1>11, <1>12, Zenon DEF i, wanted

---------------------------------------------------------------------------
(* The drift dashboard *)

\* What the store and the agents guarantee of a fleet: a sequence of workloads
\* with different keys, whose instances are a sequence of reports with one of
\* the known statuses.
FleetIsListed(f) ==
    /\ \E S : f \in Seq(S)
    /\ \A j, k \in DOMAIN f : f[j].name = f[k].name => j = k
    /\ \A k \in DOMAIN f :
          /\ f[k].accepts \in BOOLEAN
          /\ \E S : f[k].instances \in Seq(S)
          /\ \A i \in DOMAIN f[k].instances : f[k].instances[i].status \in Statuses

Collectors(f) == {k \in DOMAIN f : f[k].type = "collector"}
Built(f) == [k \in Collectors(f) |-> buildConfigDriftItem(f[k])]
Marked(f, k) == configDriftGroupKey(Built(f)[k]) \in heterogeneousGroups(Built(f))
Items(f) ==
    [k \in Collectors(f) |->
        IF ~ Marked(f, k) THEN Built(f)[k]
        ELSE [Built(f)[k] EXCEPT !.reasons = @ \cup {"group_heterogeneous_config"}]]
Ranks(f) == [k \in Collectors(f) |-> rankConfigDriftStatus(Items(f)[k])]
Places(f) == 1 .. Cardinality(Collectors(f))
Order(f) == CHOOSE p \in Injection(Places(f), Collectors(f)) : IsSorted(p, Places(f), Ranks(f))

LEMMA DomainOfSeq ==
    ASSUME NEW s, \E S : s \in Seq(S)
    PROVE  /\ Len(s) \in Nat /\ DOMAIN s = 1 .. Len(s) /\ DOMAIN s \in SUBSET Nat
           /\ IsFiniteSet(DOMAIN s) /\ Cardinality(DOMAIN s) = Len(s)
<1>1. PICK S : s \in Seq(S)
    OBVIOUS
<1>2. Len(s) \in Nat /\ DOMAIN s = 1 .. Len(s) /\ DOMAIN s \in SUBSET Nat
    BY <1>1
<1>3. IsFiniteSet(1 .. Len(s)) /\ Cardinality(1 .. Len(s)) = IF 1 > Len(s) THEN 0 ELSE Len(s) - 1 + 1
    BY <1>2, FS_Interval
<1>4. Cardinality(1 .. Len(s)) = Len(s)
    BY <1>2, <1>3
<1>. QED  BY <1>2, <1>3, <1>4, Zenon

LEMMA CollectorsAreFinite ==
    ASSUME NEW f, FleetIsListed(f)
    PROVE  Collectors(f) \in SUBSET Nat /\ IsFiniteSet(Collectors(f)) /\ Cardinality(Collectors(f)) \in Nat
<1>1. DOMAIN f \in SUBSET Nat /\ IsFiniteSet(DOMAIN f)
    BY DomainOfSeq, Zenon DEF FleetIsListed
<1>2. Collectors(f) \in SUBSET DOMAIN f
    BY Zenon DEF Collectors
<1>3. IsFiniteSet(Collectors(f))
    BY <1>1, <1>2, FS_Subset, Zenon
<1>. QED  BY <1>1, <1>2, <1>3, FS_CardinalityType, Zenon

LEMMA RanksAreNumbers ==
    ASSUME NEW f PROVE Ranks(f) \in [Collectors(f) -> Nat]
<1>1. \A i : rankConfigDriftStatus(i) \in Nat
    BY DEF rankConfigDriftStatus
<1>. QED  BY <1>1, Zenon DEF Ranks

LEMMA DashboardIs ==
    ASSUME NEW f
    PROVE  handleListConfigDrift(f) =
               [items |-> [q \in Places(f) |-> Items(f)[Order(f)[q]]],
                summary |-> summarizeConfigDriftItem(Items(f)), groups |-> heterogeneousGroups(Built(f))]
<1>. DEFINE collectors == {k \in DOMAIN f : f[k].type = "collector"}
            built == [k \in collectors |-> buildConfigDriftItem(f[k])]
            groups == heterogeneousGroups(built)
            items == [k \in collectors |->
                        IF configDriftGroupKey(built[k]) \notin groups THEN built[k]
                        ELSE [built[k] EXCEPT !.reasons = @ \cup {"group_heterogeneous_config"}]]
            Before(j, k) == \/ rankConfigDriftStatus(items[j]) < rankConfigDriftStatus(items[k])
                            \/ rankConfigDriftStatus(items[j]) = rankConfigDriftStatus(items[k]) /\ j < k
            places == 1 .. Cardinality(collectors)
            order == CHOOSE p \in Injection(places, collectors) : \A j, k \in places : j < k => Before(p[j], p[k])
<1>1. handleListConfigDrift(f) =
          [items |-> [k \in places |-> items[order[k]]],
           summary |-> summarizeConfigDriftItem(items), groups |-> groups]
    BY Zenon DEF handleListConfigDrift
<1>2. collectors = Collectors(f)
    BY Zenon DEF Collectors
<1>3. built = Built(f)
    BY <1>2, Zenon DEF Built
<1>4. items = Items(f)
    <2>. HIDE DEF built
    <2>. QED  BY <1>2, <1>3, Zenon DEF Items, Marked
<1>5. places = Places(f)
    BY <1>2, Zenon DEF Places
<1>6. order = Order(f)
    <2>. HIDE DEF items, places, collectors
    <2>1. ASSUME NEW p \in Injection(Places(f), Collectors(f))
          PROVE  (\A j, k \in Places(f) : j < k => Before(p[j], p[k])) <=> IsSorted(p, Places(f), Ranks(f))
        <3>1. ASSUME NEW j \in Places(f), NEW k \in Places(f) PROVE Before(p[j], p[k]) <=> Ahead(Ranks(f), p[j], p[k])
            <4>1. p[j] \in Collectors(f) /\ p[k] \in Collectors(f)
                BY Zenon DEF Injection
            <4>. QED  BY <4>1, <1>4, Zenon DEF Ahead, Ranks
        <3>. HIDE DEF Before
        <3>. QED  BY <3>1, Zenon DEF IsSorted
    <2>. HIDE DEF Before
    <2>. QED  BY <2>1, <1>2, <1>5, Zenon DEF Order
<1>. HIDE DEF order, items, places, built
<1>. QED  BY <1>1, <1>3, <1>4, <1>5, <1>6, Zenon DEF groups

\* The order is a sorted numbering of all collectors.
LEMMA OrderIsSorted ==
    ASSUME NEW f, FleetIsListed(f)
    PROVE  /\ Order(f) \in Injection(Places(f), Collectors(f))
           /\ Order(f) \in Surjection(Places(f), Collectors(f))
           /\ IsSorted(Order(f), Places(f), Ranks(f))
<1>1. Order(f) \in Injection(Places(f), Collectors(f)) /\ IsSorted(Order(f), Places(f), Ranks(f))
    <2>1. \E p \in Injection(Places(f), Collectors(f)) : IsSorted(p, Places(f), Ranks(f))
        BY CollectorsAreFinite, RanksAreNumbers, SortedOrderExists, Zenon DEF Places
    <2>. QED  BY <2>1, Zenon DEF Order
<1>2. Cardinality(Places(f)) = Cardinality(Collectors(f))
    <2>1. Cardinality(Collectors(f)) \in Nat
        BY CollectorsAreFinite, Zenon
    <2>2. \A n \in Nat : Cardinality(1 .. n) = n
        BY FS_Interval
    <2>. QED  BY <2>1, <2>2, Zenon DEF Places
<1>3. Order(f) \in Surjection(Places(f), Collectors(f))
    BY <1>1, <1>2, CollectorsAreFinite, FS_Injection, Zenon
<1>. QED  BY <1>1, <1>3, Zenon

\* What an item of the dashboard has, for every collector of the fleet.
LEMMA ItemIs ==
    ASSUME NEW f, NEW k \in Collectors(f)
    PROVE  LET i == Items(f)[k]
               b == buildConfigDriftItem(f[k])
           IN /\ i.data = b.data /\ i.status = b.status
              /\ i.reasons = IF Marked(f, k) THEN b.reasons \cup {"group_heterogeneous_config"} ELSE b.reasons
<1>. DEFINE b == buildConfigDriftItem(f[k])
<1>1. Built(f)[k] = b
    BY Zenon DEF Built
<1>2. Items(f)[k] = IF ~ Marked(f, k) THEN b ELSE [b EXCEPT !.reasons = @ \cup {"group_heterogeneous_config"}]
    BY <1>1, Zenon DEF Items
<1>3. \E d, s, r : b = [data |-> d, status |-> s, reasons |-> r]
    BY Zenon DEF buildConfigDriftItem
<1>. HIDE DEF b
<1>4. PICK d, s, r : b = [data |-> d, status |-> s, reasons |-> r]
    BY <1>3, Zenon
<1>. QED  BY <1>2, <1>4 DEF b

\* The reasons that the properties look for, and the statuses there are.
LEMMA BuiltIs ==
    ASSUME NEW c
    PROVE  LET b == buildConfigDriftItem(c)
           IN /\ b.data.name = c.name /\ b.data.env = c.env /\ b.data.alerts = c.alerts
              /\ b.data.expected = Expected(c) /\ b.data.effective = EffectiveHashes(c)
              /\ b.status \in {"remote_config_unsupported", "missing_effective_config", "drifted", "in_sync",
                               "heterogeneous_effective_config", "pending_too_long"}
              /\ "config_drift_alert" \in b.reasons <=> "config_drift" \in c.alerts
              /\ "heterogeneous_effective_config" \in b.reasons <=> Cardinality(EffectiveHashes(c)) > 1
              /\ "group_heterogeneous_config" \notin b.reasons
<1>. DEFINE eff == EffectiveHashes(c)
            item == [name |-> c.name, env |-> c.env, accepts |-> c.accepts, alerts |-> c.alerts,
                     expected |-> Expected(c), effective |-> eff,
                     incomplete |-> hasUnknownIncompleteComponents(c),
                     missing |-> Expected(c) # "" /\ eff = {},
                     pendingTooLong |-> c.push # NoPush /\ isPendingPush(c.push)
                                        /\ c.push.age > configDriftPendingThreshold]
            b == buildConfigDriftItem(c)
<1>1. b = [data |-> item, status |-> deriveDriftStatus(item), reasons |-> deriveDriftReasons(item)]
    BY Zenon DEF buildConfigDriftItem, Expected
<1>2. /\ item.name = c.name /\ item.env = c.env /\ item.alerts = c.alerts
      /\ item.expected = Expected(c) /\ item.effective = eff
    BY Zenon
<1>. HIDE DEF item, b
<1>3. b.data = item /\ b.status = deriveDriftStatus(item) /\ b.reasons = deriveDriftReasons(item)
    BY <1>1, Zenon
<1>4. b.status \in {"remote_config_unsupported", "missing_effective_config", "drifted", "in_sync",
                    "heterogeneous_effective_config", "pending_too_long"}
    BY <1>3, Zenon DEF deriveDriftStatus
<1>5. /\ "config_drift_alert" \in b.reasons <=> "config_drift" \in item.alerts
      /\ "heterogeneous_effective_config" \in b.reasons <=> Cardinality(item.effective) > 1
      /\ "group_heterogeneous_config" \notin b.reasons
    BY <1>3, Zenon DEF deriveDriftReasons, Reason
<1>. QED  BY <1>2, <1>3, <1>4, <1>5, Zenon DEF b

LEMMA ItemHas ==
    ASSUME NEW f, NEW k \in Collectors(f)
    PROVE  LET i == Items(f)[k]
           IN /\ i.data.name = f[k].name /\ i.data.env = f[k].env /\ i.data.alerts = f[k].alerts
              /\ i.data.expected = Expected(f[k]) /\ i.data.effective = EffectiveHashes(f[k])
              /\ i.status \in {"remote_config_unsupported", "missing_effective_config", "drifted", "in_sync",
                               "heterogeneous_effective_config", "pending_too_long"}
              /\ "config_drift_alert" \in i.reasons <=> "config_drift" \in f[k].alerts
              /\ "heterogeneous_effective_config" \in i.reasons <=> Cardinality(EffectiveHashes(f[k])) > 1
              /\ "group_heterogeneous_config" \in i.reasons <=> Marked(f, k)
<1>. DEFINE i == Items(f)[k]
            b == buildConfigDriftItem(f[k])
<1>1. /\ i.data = b.data /\ i.status = b.status
      /\ i.reasons = IF Marked(f, k) THEN b.reasons \cup {"group_heterogeneous_config"} ELSE b.reasons
    BY ItemIs, Zenon
<1>2. /\ b.data.name = f[k].name /\ b.data.env = f[k].env /\ b.data.alerts = f[k].alerts
      /\ b.data.expected = Expected(f[k]) /\ b.data.effective = EffectiveHashes(f[k])
      /\ b.status \in {"remote_config_unsupported", "missing_effective_config", "drifted", "in_sync",
                       "heterogeneous_effective_config", "pending_too_long"}
      /\ "config_drift_alert" \in b.reasons <=> "config_drift" \in f[k].alerts
      /\ "heterogeneous_effective_config" \in b.reasons <=> Cardinality(EffectiveHashes(f[k])) > 1
      /\ "group_heterogeneous_config" \notin b.reasons
    BY BuiltIs, Zenon
<1>. HIDE DEF i, b
<1>3. /\ "config_drift_alert" \in i.reasons <=> "config_drift" \in f[k].alerts
      /\ "heterogeneous_effective_config" \in i.reasons <=> Cardinality(EffectiveHashes(f[k])) > 1
      /\ "group_heterogeneous_config" \in i.reasons <=> Marked(f, k)
    <2>1. \A x : x \in i.reasons <=> x \in b.reasons \/ (Marked(f, k) /\ x = "group_heterogeneous_config")
        <3>1. CASE Marked(f, k)
            <4>1. i.reasons = b.reasons \cup {"group_heterogeneous_config"}
                BY <1>1, <3>1, Zenon
            <4>. QED  BY <4>1, <3>1, Zenon
        <3>2. CASE ~ Marked(f, k)
            <4>1. i.reasons = b.reasons
                BY <1>1, <3>2, Zenon
            <4>. QED  BY <4>1, <3>2, Zenon
        <3>. QED  BY <3>1, <3>2, Zenon
    <2>2. "config_drift_alert" # "group_heterogeneous_config" /\ "heterogeneous_effective_config" # "group_heterogeneous_config"
        OBVIOUS
    <2>. QED  BY <1>2, <2>1, <2>2, Zenon
<1>. QED  BY <1>1, <1>2, <1>3, Zenon DEF i

\* What stands at place q, and where collector k stands.
LEMMA PlacesAndItems ==
    ASSUME NEW f, FleetIsListed(f)
    PROVE  LET d == handleListConfigDrift(f)
           IN /\ DOMAIN d.items = Places(f)
              /\ \A q \in Places(f) : Order(f)[q] \in Collectors(f) /\ d.items[q] = Items(f)[Order(f)[q]]
              /\ \A k \in Collectors(f) : \E q \in Places(f) : Order(f)[q] = k
<1>. DEFINE d == handleListConfigDrift(f)
<1>1. d.items = [q \in Places(f) |-> Items(f)[Order(f)[q]]]
    BY DashboardIs, Zenon
<1>2. \A q \in Places(f) : Order(f)[q] \in Collectors(f)
    BY OrderIsSorted, Zenon DEF Injection
<1>3. \A k \in Collectors(f) : \E q \in Places(f) : Order(f)[q] = k
    BY OrderIsSorted, Zenon DEF Surjection
<1>. HIDE DEF d
<1>4. DOMAIN d.items = Places(f)
    BY <1>1, Zenon
<1>5. \A q \in Places(f) : d.items[q] = Items(f)[Order(f)[q]]
    BY <1>1, Zenon
<1>. QED  BY <1>2, <1>3, <1>4, <1>5, Zenon DEF d

\* The places that a set of alerted items would take, if it took the first ones.
LEMMA FirstPlaces ==
    ASSUME NEW n \in Nat, NEW D \in SUBSET (1 .. n), \A q \in D : \A s \in 1 .. n : s < q => s \in D
    PROVE  \A q \in 1 .. n : q <= Cardinality(D) <=> q \in D
<1>1. \A m \in Nat : IsFiniteSet(1 .. m) /\ Cardinality(1 .. m) = m
    BY FS_Interval
<1>2. IsFiniteSet(D) /\ Cardinality(D) \in Nat
    BY <1>1, FS_Subset, FS_CardinalityType, Zenon
<1>3. ASSUME NEW q \in 1 .. n, q \in D PROVE q <= Cardinality(D)
    <2>1. q \in Nat /\ (1 .. q) \in SUBSET D
        BY <1>3
    <2>2. Cardinality(1 .. q) <= Cardinality(D)
        BY <2>1, <1>2, FS_Subset, Zenon
    <2>. QED  BY <1>1, <2>1, <2>2
<1>4. ASSUME NEW q \in 1 .. n, q \notin D PROVE ~ (q <= Cardinality(D))
    <2>1. q - 1 \in Nat /\ D \in SUBSET (1 .. q - 1)
        <3>1. ASSUME NEW s \in D PROVE s \in 1 .. q - 1
            <4>1. ~ (q < s)
                BY <1>4, Zenon
            <4>2. s # q /\ s \in 1 .. n
                BY <1>4, Zenon
            <4>. QED  BY <4>1, <4>2
        <3>. QED  BY <3>1
    <2>2. Cardinality(D) <= q - 1
        <3>1. Cardinality(D) <= Cardinality(1 .. q - 1)
            BY <2>1, <1>1, FS_Subset, Zenon
        <3>. QED  BY <3>1, <2>1, <1>1
    <2>. QED  BY <1>2, <2>2
<1>. QED  BY <1>3, <1>4, Zenon

LEMMA SummaryCounts ==
    ASSUME NEW f
    PROVE  handleListConfigDrift(f).summary.drifted =
               Cardinality({k \in Collectors(f) : Alerted(Items(f)[k])})
<1>1. handleListConfigDrift(f).summary = summarizeConfigDriftItem(Items(f))
    BY DashboardIs, Zenon
<1>2. summarizeConfigDriftItem(Items(f)).drifted = Cardinality({k \in DOMAIN Items(f) : Alerted(Items(f)[k])})
    BY DEF summarizeConfigDriftItem
<1>3. DOMAIN Items(f) = Collectors(f)
    BY Zenon DEF Items
<1>. QED  BY <1>1, <1>2, <1>3, Zenon

\* What is counted as drifted comes first.
LEMMA DriftedComeFirst ==
    ASSUME NEW f, FleetIsListed(f)
    PROVE  LET d == handleListConfigDrift(f)
           IN \A q \in Places(f) : q <= d.summary.drifted <=> Alerted(d.items[q])
<1>. DEFINE d == handleListConfigDrift(f)
            n == Cardinality(Collectors(f))
            A == {k \in Collectors(f) : Alerted(Items(f)[k])}
            D == {q \in 1 .. n : Order(f)[q] \in A}
            g == [q \in D |-> Order(f)[q]]
<1>1. n \in Nat /\ Places(f) = 1 .. n /\ IsFiniteSet(Collectors(f))
    BY CollectorsAreFinite, Zenon DEF Places
<1>. HIDE DEF n
<1>2. /\ \A q \in 1 .. n : Order(f)[q] \in Collectors(f) /\ d.items[q] = Items(f)[Order(f)[q]]
      /\ \A k \in Collectors(f) : \E q \in 1 .. n : Order(f)[q] = k
    <2>1. /\ \A q \in Places(f) : Order(f)[q] \in Collectors(f) /\ d.items[q] = Items(f)[Order(f)[q]]
          /\ \A k \in Collectors(f) : \E q \in Places(f) : Order(f)[q] = k
        BY PlacesAndItems, Zenon
    <2>. HIDE DEF d
    <2>. QED  BY <1>1, <2>1, Zenon
<1>3. \A q, s \in 1 .. n : Order(f)[q] = Order(f)[s] => q = s
    BY <1>1, OrderIsSorted, Zenon DEF Injection, IsInjective
<1>4. Cardinality(D) = Cardinality(A)
    <2>1. A \in SUBSET Collectors(f)
        BY Zenon
    <2>2. IsFiniteSet(A)
        BY <1>1, <2>1, FS_Subset, Zenon
    <2>3. g \in Injection(D, A)
        <3>1. g \in [D -> A]
            BY Zenon
        <3>2. \A q, s \in D : g[q] = g[s] => q = s
            BY <1>3, Zenon
        <3>. HIDE DEF g, D, A
        <3>. QED  BY <3>1, <3>2, Zenon DEF Injection, IsInjective
    <2>4. g \in Surjection(D, A)
        <3>1. \A k \in A : \E q \in D : g[q] = k
            BY <1>2, Zenon
        <3>2. g \in [D -> A]
            BY Zenon
        <3>. HIDE DEF g, D, A
        <3>. QED  BY <3>1, <3>2, Zenon DEF Surjection
    <2>. HIDE DEF g, D, A
    <2>. QED  BY <2>2, <2>3, <2>4, FS_Injection, Zenon
<1>5. ASSUME NEW q \in D, NEW s \in 1 .. n, s < q PROVE s \in D
    <2>1. Ahead(Ranks(f), Order(f)[s], Order(f)[q])
        BY <1>1, <1>5, OrderIsSorted, Zenon DEF IsSorted
    <2>2. Order(f)[s] \in Collectors(f) /\ Order(f)[q] \in A
        BY <1>2, Zenon
    <2>3. Ranks(f)[Order(f)[q]] = 0
        BY <2>2, Zenon DEF Ranks, rankConfigDriftStatus
    <2>4. Ranks(f)[Order(f)[s]] \in Nat
        BY <2>2, RanksAreNumbers, Zenon
    <2>5. Ranks(f)[Order(f)[s]] = 0
        BY <2>1, <2>3, <2>4 DEF Ahead
    <2>6. Alerted(Items(f)[Order(f)[s]])
        <3>1. rankConfigDriftStatus(Items(f)[Order(f)[s]]) = 0
            BY <2>2, <2>5, Zenon DEF Ranks
        <3>. QED  BY <3>1 DEF rankConfigDriftStatus
    <2>. QED  BY <2>2, <2>6, Zenon
<1>6. D \in SUBSET (1 .. n)
    BY Zenon
<1>7. \A q \in 1 .. n : q \in D <=> Alerted(d.items[q])
    BY <1>2, Zenon
<1>8. d.summary.drifted = Cardinality(D)
    BY <1>4, SummaryCounts, Zenon
<1>. HIDE DEF D, A
<1>9. \A q \in 1 .. n : q <= Cardinality(D) <=> q \in D
    BY <1>1, <1>5, <1>6, FirstPlaces, Zenon
<1>. QED  BY <1>1, <1>7, <1>8, <1>9, Zenon

\* WorstIsFirst for the dashboard of one fleet.
WorstFirst(d) ==
    /\ \A k \in DOMAIN d.items : k <= d.summary.drifted <=>
           d.items[k].status = "drifted" \/ "config_drift_alert" \in d.items[k].reasons
    /\ \A j, k \in DOMAIN d.items : j < k /\ d.items[j].status = "in_sync"
           /\ "config_drift_alert" \notin d.items[j].reasons
           => d.items[k].status = "in_sync" /\ "config_drift_alert" \notin d.items[k].reasons

LEMMA WorstAreFirst ==
    ASSUME NEW f, FleetIsListed(f) PROVE WorstFirst(handleListConfigDrift(f))
<1>. DEFINE d == handleListConfigDrift(f)
            P == Places(f)
            Rank(q) == rankConfigDriftStatus(d.items[q])
<1>1. /\ DOMAIN d.items = P
      /\ \A q \in P : Order(f)[q] \in Collectors(f) /\ d.items[q] = Items(f)[Order(f)[q]]
    BY PlacesAndItems, Zenon
<1>2. ASSUME NEW q \in P
      PROVE  /\ Alerted(d.items[q]) <=> d.items[q].status = "drifted" \/ "config_drift_alert" \in d.items[q].reasons
             /\ d.items[q].status \in {"remote_config_unsupported", "missing_effective_config", "drifted", "in_sync",
                                       "heterogeneous_effective_config", "pending_too_long"}
    <2>. DEFINE i == d.items[q]
                k == Order(f)[q]
    <2>1. k \in Collectors(f) /\ i = Items(f)[k]
        BY <1>1, Zenon
    <2>. HIDE DEF i, k
    <2>2. /\ i.status \in {"remote_config_unsupported", "missing_effective_config", "drifted", "in_sync",
                           "heterogeneous_effective_config", "pending_too_long"}
          /\ i.data.alerts = f[k].alerts
          /\ "config_drift_alert" \in i.reasons <=> "config_drift" \in f[k].alerts
        BY <2>1, ItemHas, Zenon
    <2>. QED  BY <2>2, Zenon DEF Alerted, i
<1>3. \A q \in P : q <= d.summary.drifted <=> Alerted(d.items[q])
    BY DriftedComeFirst, Zenon
<1>4. ASSUME NEW j \in P, NEW k \in P, j < k PROVE Rank(j) <= Rank(k)
    <2>1. Ahead(Ranks(f), Order(f)[j], Order(f)[k])
        BY <1>4, OrderIsSorted, Zenon DEF IsSorted
    <2>2. Ranks(f)[Order(f)[j]] = Rank(j) /\ Ranks(f)[Order(f)[k]] = Rank(k)
        BY <1>1, Zenon DEF Ranks
    <2>3. Ranks(f)[Order(f)[j]] \in Nat /\ Ranks(f)[Order(f)[k]] \in Nat
        BY <1>1, RanksAreNumbers, Zenon
    <2>. HIDE DEF Rank
    <2>. QED  BY <2>1, <2>2, <2>3 DEF Ahead
<1>5. ASSUME NEW q \in P PROVE Rank(q) \in 0 .. 3 /\ (Rank(q) = 3 <=> d.items[q].status = "in_sync" /\ ~ Alerted(d.items[q]))
    <2>. HIDE DEF d
    <2>. QED  BY <1>2 DEF rankConfigDriftStatus
<1>6. ASSUME NEW j \in P, NEW k \in P, j < k, Rank(j) = 3 PROVE Rank(k) = 3
    <2>. HIDE DEF Rank
    <2>. QED  BY <1>4, <1>5, <1>6
<1>. HIDE DEF d, Rank
<1>7. ASSUME NEW j \in P, NEW k \in P, j < k, d.items[j].status = "in_sync", "config_drift_alert" \notin d.items[j].reasons
      PROVE  d.items[k].status = "in_sync" /\ "config_drift_alert" \notin d.items[k].reasons
    <2>1. ~ Alerted(d.items[j])
        BY <1>7, <1>2
    <2>2. Rank(k) = 3
        BY <1>5, <1>6, <1>7, <2>1, Zenon
    <2>. QED  BY <1>2, <1>5, <2>2, Zenon
<1>8. \A q \in P : q <= d.summary.drifted <=> d.items[q].status = "drifted" \/ "config_drift_alert" \in d.items[q].reasons
    BY <1>2, <1>3, Zenon
<1>. QED  BY <1>1, <1>7, <1>8, Zenon DEF WorstFirst, d

\* The config state of a collector: what it should run, and what it runs.
State(c) == <<Expected(c), EffectiveHashes(c)>>

LEMMA MarkedWhen ==
    ASSUME NEW f, FleetIsListed(f), NEW k \in Collectors(f)
    PROVE  Marked(f, k) <=>
               f[k].env # "unknown" /\ \E j \in Collectors(f) : f[j].env = f[k].env /\ State(f[j]) # State(f[k])
<1>. DEFINE B == Built(f)
            M == {j \in Collectors(f) : f[j].env = f[k].env}
            T == {State(f[j]) : j \in M}
            g == [j \in M |-> State(f[j])]
<1>1. DOMAIN B = Collectors(f)
    BY Zenon DEF Built
<1>2. ASSUME NEW j \in Collectors(f)
      PROVE  configDriftGroupKey(B[j]) = f[j].env /\ configStateKey(B[j]) = State(f[j])
    <2>1. B[j] = buildConfigDriftItem(f[j])
        BY Zenon DEF Built
    <2>2. /\ buildConfigDriftItem(f[j]).data.env = f[j].env
          /\ buildConfigDriftItem(f[j]).data.expected = Expected(f[j])
          /\ buildConfigDriftItem(f[j]).data.effective = EffectiveHashes(f[j])
        BY BuiltIs, Zenon
    <2>. QED  BY <2>1, <2>2, Zenon DEF configDriftGroupKey, configStateKey, State
<1>. HIDE DEF B
<1>3. Marked(f, k) <=> f[k].env # "unknown" /\ Cardinality(T) > 1
    <2>. DEFINE Keys == {configDriftGroupKey(B[j]) : j \in DOMAIN B}
                States(e) == {configStateKey(B[j]) : j \in {i \in DOMAIN B : configDriftGroupKey(B[i]) = e}}
    <2>1. heterogeneousGroups(B) = {e \in Keys \ {"unknown"} : Cardinality(States(e)) > 1}
        BY Zenon DEF heterogeneousGroups
    <2>2. f[k].env \in Keys
        BY <1>1, <1>2, Zenon
    <2>3. {i \in DOMAIN B : configDriftGroupKey(B[i]) = f[k].env} = M
        BY <1>1, <1>2, Zenon
    <2>4. States(f[k].env) = T
        BY <2>3, <1>2, Zenon
    <2>5. Marked(f, k) <=> f[k].env \in heterogeneousGroups(B)
        BY <1>2, Zenon DEF Marked, B
    <2>. HIDE DEF Keys, States, T
    <2>. QED  BY <2>1, <2>2, <2>4, <2>5, Zenon
<1>4. IsFiniteSet(T)
    <2>1. M \in SUBSET Collectors(f)
        BY Zenon
    <2>2. IsFiniteSet(M)
        BY <2>1, CollectorsAreFinite, FS_Subset, Zenon
    <2>3. g \in Surjection(M, T)
        BY Zenon DEF Surjection
    <2>. HIDE DEF g, M, T
    <2>. QED  BY <2>2, <2>3, FS_Surjection, Zenon
<1>5. ~ (Cardinality(T) > 1) <=> \A x, y \in T : x = y
    <2>. HIDE DEF T
    <2>. QED  BY <1>4, CountsTell, Zenon
<1>6. (\A x, y \in T : x = y) <=> ~ \E j \in M : State(f[j]) # State(f[k])
    <2>1. k \in M
        BY Zenon
    <2>2. ASSUME \A x, y \in T : x = y, NEW j \in M PROVE State(f[j]) = State(f[k])
        BY <2>1, <2>2, Zenon
    <2>3. ASSUME \A j \in M : State(f[j]) = State(f[k]), NEW x \in T, NEW y \in T PROVE x = y
        BY <2>3, Zenon
    <2>. HIDE DEF M, T
    <2>. QED  BY <2>2, <2>3, Zenon
<1>. HIDE DEF T
<1>. QED  BY <1>3, <1>5, <1>6, Zenon

\* GroupMarkIsMutual for the dashboard of one fleet.
MarkIsMutual(items) ==
    \A q \in DOMAIN items :
        "group_heterogeneous_config" \in items[q].reasons <=>
            \E s \in DOMAIN items :
                /\ items[s].data.env = items[q].data.env /\ items[q].data.env # "unknown"
                /\ <<items[s].data.expected, items[s].data.effective>>
                       # <<items[q].data.expected, items[q].data.effective>>

LEMMA MarksAreMutual ==
    ASSUME NEW f, FleetIsListed(f) PROVE MarkIsMutual(handleListConfigDrift(f).items)
<1>. DEFINE items == handleListConfigDrift(f).items
            P == Places(f)
<1>1. /\ DOMAIN items = P
      /\ \A q \in P : Order(f)[q] \in Collectors(f) /\ items[q] = Items(f)[Order(f)[q]]
      /\ \A k \in Collectors(f) : \E q \in P : Order(f)[q] = k
    BY PlacesAndItems, Zenon
<1>. HIDE DEF items, P
<1>2. ASSUME NEW q \in P
      PROVE  LET c == f[Order(f)[q]]
             IN /\ items[q].data.env = c.env
                /\ <<items[q].data.expected, items[q].data.effective>> = State(c)
                /\ "group_heterogeneous_config" \in items[q].reasons <=> Marked(f, Order(f)[q])
    <2>. DEFINE k == Order(f)[q]
                i == items[q]
    <2>1. k \in Collectors(f) /\ i = Items(f)[k]
        BY <1>1, Zenon
    <2>. HIDE DEF k, i
    <2>2. /\ i.data.env = f[k].env /\ i.data.expected = Expected(f[k]) /\ i.data.effective = EffectiveHashes(f[k])
          /\ "group_heterogeneous_config" \in i.reasons <=> Marked(f, k)
        BY <2>1, ItemHas, Zenon
    <2>. QED  BY <2>2, Zenon DEF State, i, k
<1>3. ASSUME NEW q \in P
      PROVE  "group_heterogeneous_config" \in items[q].reasons <=>
                 \E s \in P : /\ items[s].data.env = items[q].data.env /\ items[q].data.env # "unknown"
                              /\ <<items[s].data.expected, items[s].data.effective>>
                                     # <<items[q].data.expected, items[q].data.effective>>
    <2>. DEFINE k == Order(f)[q]
    <2>1. k \in Collectors(f)
        BY <1>1, Zenon
    <2>2. Marked(f, k) <=>
              f[k].env # "unknown" /\ \E j \in Collectors(f) : f[j].env = f[k].env /\ State(f[j]) # State(f[k])
        <3>. HIDE DEF k
        <3>. QED  BY <2>1, MarkedWhen, Zenon
    <2>3. (\E j \in Collectors(f) : f[j].env = f[k].env /\ State(f[j]) # State(f[k])) <=>
              \E s \in P : f[Order(f)[s]].env = f[k].env /\ State(f[Order(f)[s]]) # State(f[k])
        <3>. DEFINE Unlike(j) == f[j].env = f[k].env /\ State(f[j]) # State(f[k])
        <3>1. \A s \in P : Order(f)[s] \in Collectors(f)
            BY <1>1, Zenon
        <3>2. ASSUME NEW j \in Collectors(f), Unlike(j) PROVE \E s \in P : Unlike(Order(f)[s])
            <4>1. PICK s \in P : Order(f)[s] = j
                BY <1>1, Zenon
            <4>. QED  BY <3>2, <4>1, Zenon
        <3>. HIDE DEF Unlike
        <3>3. (\E j \in Collectors(f) : Unlike(j)) <=> \E s \in P : Unlike(Order(f)[s])
            BY <3>1, <3>2, Zenon
        <3>. QED  BY <3>3, Zenon DEF Unlike
    <2>4. ASSUME NEW s \in P
          PROVE  (/\ items[s].data.env = items[q].data.env /\ items[q].data.env # "unknown"
                  /\ <<items[s].data.expected, items[s].data.effective>>
                         # <<items[q].data.expected, items[q].data.effective>>)
                 <=> f[k].env # "unknown" /\ f[Order(f)[s]].env = f[k].env /\ State(f[Order(f)[s]]) # State(f[k])
        BY <1>2, Zenon
    <2>5. "group_heterogeneous_config" \in items[q].reasons <=> Marked(f, k)
        BY <1>2, Zenon
    <2>. HIDE DEF k
    <2>. QED  BY <2>2, <2>3, <2>4, <2>5, Zenon
<1>. QED  BY <1>1, <1>3, Zenon DEF MarkIsMutual, items

---------------------------------------------------------------------------
(* The topology *)

LEMMA CountOfBoth ==
    ASSUME NEW S, NEW T, IsFiniteSet(S), IsFiniteSet(T), S \cap T = {}
    PROVE  IsFiniteSet(S \cup T) /\ Cardinality(S \cup T) = Cardinality(S) + Cardinality(T)
<1>1. IsFiniteSet(S \cup T) /\ Cardinality(S \cup T) = Cardinality(S) + Cardinality(T) - Cardinality(S \cap T)
    BY FS_Union, Zenon
<1>2. Cardinality(S \cap T) = 0 /\ Cardinality(S) \in Nat /\ Cardinality(T) \in Nat
    BY FS_EmptySet, FS_CardinalityType, Zenon
<1>. QED  BY <1>1, <1>2

\* The instances that take configs and are counted under a status, or not.
Under(is, s) == {i \in DOMAIN is : is[i].accepts /\ is[i].status = s}

LEMMA StatusesAddUp ==
    ASSUME NEW is, \E S : is \in Seq(S), \A i \in DOMAIN is : is[i].status \in Statuses
    PROVE  Cardinality(Under(is, "no_status")) + Cardinality(Under(is, "sent")) + Cardinality(Under(is, "applying"))
             + Cardinality(Under(is, "applied")) + Cardinality(Under(is, "failed"))
           = Cardinality({i \in DOMAIN is : is[i].accepts})
<1>. DEFINE U(s) == Under(is, s)
            A2 == U("no_status") \cup U("sent")
            A3 == A2 \cup U("applying")
            A4 == A3 \cup U("applied")
            A5 == A4 \cup U("failed")
<1>1. ASSUME NEW s PROVE IsFiniteSet(U(s)) /\ Cardinality(U(s)) \in Nat
    <2>1. U(s) \in SUBSET DOMAIN is
        BY Zenon DEF Under
    <2>2. IsFiniteSet(DOMAIN is)
        BY DomainOfSeq, Zenon
    <2>3. IsFiniteSet(U(s))
        BY <2>1, <2>2, FS_Subset, Zenon
    <2>. QED  BY <2>3, FS_CardinalityType, Zenon
<1>2. /\ U("no_status") \cap U("sent") = {} /\ A2 \cap U("applying") = {} /\ A3 \cap U("applied") = {}
      /\ A4 \cap U("failed") = {}
    BY DEF Under
<1>3. {i \in DOMAIN is : is[i].accepts} = A5
    BY DEF Under, Statuses
<1>. HIDE DEF U
<1>4. IsFiniteSet(A2) /\ Cardinality(A2) = Cardinality(U("no_status")) + Cardinality(U("sent"))
    BY <1>1, <1>2, CountOfBoth, Zenon
<1>. HIDE DEF A2
<1>5. IsFiniteSet(A3) /\ Cardinality(A3) = Cardinality(A2) + Cardinality(U("applying"))
    BY <1>1, <1>2, <1>4, CountOfBoth, Zenon
<1>. HIDE DEF A3
<1>6. IsFiniteSet(A4) /\ Cardinality(A4) = Cardinality(A3) + Cardinality(U("applied"))
    BY <1>1, <1>2, <1>5, CountOfBoth, Zenon
<1>. HIDE DEF A4
<1>7. Cardinality(A5) = Cardinality(A4) + Cardinality(U("failed"))
    BY <1>1, <1>2, <1>6, CountOfBoth, Zenon
<1>. HIDE DEF A5
<1>8. Cardinality(A5) = Cardinality(U("no_status")) + Cardinality(U("sent")) + Cardinality(U("applying"))
                            + Cardinality(U("applied")) + Cardinality(U("failed"))
    BY <1>1, <1>4, <1>5, <1>6, <1>7
<1>. QED  BY <1>3, <1>8, Zenon DEF U

LEMMA HealthsAddUp ==
    ASSUME NEW is, \E S : is \in Seq(S)
    PROVE  Cardinality({i \in DOMAIN is : is[i].healthy}) + Cardinality({i \in DOMAIN is : ~ is[i].healthy}) = Len(is)
<1>. DEFINE H == {i \in DOMAIN is : is[i].healthy}
            S == {i \in DOMAIN is : ~ is[i].healthy}
<1>1. IsFiniteSet(DOMAIN is) /\ Cardinality(DOMAIN is) = Len(is)
    BY DomainOfSeq, Zenon
<1>2. H \in SUBSET DOMAIN is /\ S \in SUBSET DOMAIN is /\ H \cap S = {} /\ H \cup S = DOMAIN is
    BY Zenon
<1>. HIDE DEF H, S
<1>3. IsFiniteSet(H) /\ IsFiniteSet(S)
    BY <1>1, <1>2, FS_Subset, Zenon
<1>4. Cardinality(H \cup S) = Cardinality(H) + Cardinality(S)
    BY <1>2, <1>3, CountOfBoth, Zenon
<1>. QED  BY <1>1, <1>2, <1>4, Zenon DEF H, S

LEMMA TopologyIs ==
    ASSUME NEW c
    PROVE  LET t == summarizeWorkloadTopology(c.instances, c.active)
               Healthy == {i \in DOMAIN c.instances : c.instances[i].healthy}
               Unwell == {i \in DOMAIN c.instances : ~ c.instances[i].healthy}
               Capable == {i \in DOMAIN c.instances : c.instances[i].accepts}
           IN /\ t.connected = Len(c.instances)
              /\ t.healthy = Cardinality(Healthy) /\ t.unhealthy = Cardinality(Unwell)
              /\ t.capable = Cardinality(Capable)
              /\ \A s \in Statuses : t.counts[s] = Cardinality(Under(c.instances, s))
              /\ "mixed_effective_config_hashes" \in t.reasons <=> Cardinality(Running(c)) > 1
<1>. DEFINE t == summarizeWorkloadTopology(c.instances, c.active)
            Healthy == {i \in DOMAIN c.instances : c.instances[i].healthy}
            Unwell == {i \in DOMAIN c.instances : ~ c.instances[i].healthy}
            Capable == {i \in DOMAIN c.instances : c.instances[i].accepts}
            hashes == {i.hash : i \in Range(c.instances)} \ {""}
<1>1. /\ t.connected = Len(c.instances) /\ t.healthy = Cardinality(Healthy)
      /\ t.unhealthy = Cardinality(Unwell) /\ t.capable = Cardinality(Capable)
      /\ t.counts = RemoteConfigStatusCounts(c.instances)
    BY Zenon DEF summarizeWorkloadTopology
<1>2. ASSUME NEW s \in Statuses PROVE t.counts[s] = Cardinality(Under(c.instances, s))
    <2>. HIDE DEF t
    <2>. QED  BY <1>1, Zenon DEF RemoteConfigStatusCounts, Under
<1>3. "mixed_effective_config_hashes" \in t.reasons <=> Cardinality(hashes) > 1
    BY Zenon DEF summarizeWorkloadTopology, Reason
<1>4. hashes = Running(c)
    BY Zenon DEF Range, Running
<1>. HIDE DEF t, hashes
<1>. QED  BY <1>1, <1>2, <1>3, <1>4, Zenon DEF t

LEMMA SameHeterogeneity ==
    ASSUME NEW c, IsFiniteSet(DOMAIN c.instances)
    PROVE  Cardinality(EffectiveHashes(c)) > 1 <=> Cardinality(Running(c)) > 1
<1>1. CASE Running(c) # {}
    BY <1>1, EffectiveIs, Zenon
<1>2. CASE Running(c) = {}
    <2>1. IsFiniteSet(EffectiveHashes(c)) /\ IsFiniteSet(Running(c))
        BY <1>2, EffectiveIsFinite, FS_EmptySet, Zenon
    <2>2. EffectiveHashes(c) = {c.reported} \ {""}
        BY <1>2, EffectiveIs, Zenon
    <2>3. (\A x, y \in EffectiveHashes(c) : x = y) /\ (\A x, y \in Running(c) : x = y)
        BY <1>2, <2>2, Zenon
    <2>. QED  BY <2>1, <2>3, CountsTell, Zenon
<1>. QED  BY <1>1, <1>2, Zenon

\* TopologyAddsUp for one workload, next to the dashboard of its fleet.
AddsUp(f, k, t, items) ==
    /\ t.healthy + t.unhealthy = t.connected
    /\ t.counts["no_status"] + t.counts["sent"] + t.counts["applying"] + t.counts["applied"]
         + t.counts["failed"] = t.capable
    /\ \A q \in DOMAIN items : items[q].data.name = f[k].name =>
         ("heterogeneous_effective_config" \in items[q].reasons <=> "mixed_effective_config_hashes" \in t.reasons)

LEMMA TopologiesAddUp ==
    ASSUME NEW f, FleetIsListed(f), NEW k \in DOMAIN f
    PROVE  AddsUp(f, k, summarizeWorkloadTopology(f[k].instances, f[k].active), handleListConfigDrift(f).items)
<1>. DEFINE c == f[k]
            t == summarizeWorkloadTopology(c.instances, c.active)
            items == handleListConfigDrift(f).items
            Healthy == {i \in DOMAIN c.instances : c.instances[i].healthy}
            Unwell == {i \in DOMAIN c.instances : ~ c.instances[i].healthy}
            Capable == {i \in DOMAIN c.instances : c.instances[i].accepts}
<1>1. (\E S : c.instances \in Seq(S)) /\ \A i \in DOMAIN c.instances : c.instances[i].status \in Statuses
    BY Zenon DEF FleetIsListed
<1>. HIDE DEF c
<1>2. /\ t.connected = Len(c.instances) /\ t.healthy = Cardinality(Healthy) /\ t.unhealthy = Cardinality(Unwell)
      /\ t.capable = Cardinality(Capable) /\ \A s \in Statuses : t.counts[s] = Cardinality(Under(c.instances, s))
      /\ "mixed_effective_config_hashes" \in t.reasons <=> Cardinality(Running(c)) > 1
    BY TopologyIs, Zenon
<1>. HIDE DEF t
<1>3. t.healthy + t.unhealthy = t.connected
    BY <1>1, <1>2, HealthsAddUp, Zenon
<1>4. t.counts["no_status"] + t.counts["sent"] + t.counts["applying"] + t.counts["applied"] + t.counts["failed"] = t.capable
    <2>1. /\ "no_status" \in Statuses /\ "sent" \in Statuses /\ "applying" \in Statuses
          /\ "applied" \in Statuses /\ "failed" \in Statuses
        BY Zenon DEF Statuses
    <2>. QED  BY <1>1, <1>2, <2>1, StatusesAddUp, Zenon
<1>5. ASSUME NEW q \in DOMAIN items, items[q].data.name = f[k].name
      PROVE  "heterogeneous_effective_config" \in items[q].reasons <=> "mixed_effective_config_hashes" \in t.reasons
    <2>. DEFINE j == Order(f)[q]
                i == items[q]
    <2>1. j \in Collectors(f) /\ i = Items(f)[j]
        <3>1. /\ DOMAIN items = Places(f)
              /\ \A s \in Places(f) : Order(f)[s] \in Collectors(f) /\ items[s] = Items(f)[Order(f)[s]]
            BY PlacesAndItems, Zenon
        <3>. QED  BY <3>1, Zenon
    <2>. HIDE DEF items
    <2>2. i.data.name = f[k].name
        BY <1>5, Zenon
    <2>. HIDE DEF i, j
    <2>3. /\ i.data.name = f[j].name
          /\ "heterogeneous_effective_config" \in i.reasons <=> Cardinality(EffectiveHashes(f[j])) > 1
        BY <2>1, ItemHas, Zenon
    <2>4. j = k
        BY <2>1, <2>2, <2>3, Zenon DEF FleetIsListed, Collectors
    <2>5. IsFiniteSet(DOMAIN c.instances)
        BY <1>1, DomainOfSeq, Zenon
    <2>6. Cardinality(EffectiveHashes(c)) > 1 <=> Cardinality(Running(c)) > 1
        BY <2>5, SameHeterogeneity, Zenon
    <2>. QED  BY <1>2, <2>3, <2>4, <2>6, Zenon DEF c, i
<1>. HIDE DEF items
<1>. QED  BY <1>3, <1>4, <1>5, Zenon DEF AddsUp, t, items, c

---------------------------------------------------------------------------
(* The version posture *)

\* Who shares the entry of the matrix that workload k is in, and the entry.
Sharing(f, k) == {j \in DOMAIN f : MatrixKey(f[j]) = MatrixKey(f[k])}
EntryOf(f, k, rec) == [status |-> fleetVersionStatus(f[k], rec), members |-> Sharing(f, k)]

LEMMA FirstOfThem ==
    ASSUME NEW S \in SUBSET Nat, IsFiniteSet(S), S # {}
    PROVE  (CHOOSE k \in S : \A j \in S : k <= j) \in S
<1>. DEFINE n == Cardinality(S)
            r == [k \in S |-> 0]
<1>1. n \in Nat /\ n # 0
    BY FS_CardinalityType, FS_EmptySet, Zenon
<1>0. S \in SUBSET Nat /\ IsFiniteSet(S) /\ r \in [S -> Nat]
    OBVIOUS
<1>2. PICK p \in Injection(1 .. n, S) : IsSorted(p, 1 .. n, r)
    BY <1>0, SortedOrderExists, Zenon
<1>3. IsFiniteSet(1 .. n) /\ Cardinality(1 .. n) = n
    BY <1>1, FS_Interval
<1>4. p \in Surjection(1 .. n, S)
    BY <1>2, <1>3, FS_Injection, Zenon
<1>5. 1 \in 1 .. n /\ p[1] \in S
    <2>1. 1 \in 1 .. n
        <3>. HIDE DEF n
        <3>. QED  BY <1>1
    <2>. QED  BY <2>1, <1>2, Zenon DEF Injection
<1>6. ASSUME NEW j \in S PROVE p[1] <= j
    <2>1. PICK q \in 1 .. n : p[q] = j
        BY <1>4, Zenon DEF Surjection
    <2>2. CASE q = 1
        BY <1>5, <2>1, <2>2
    <2>3. CASE q # 1
        <3>1. 1 < q
            BY <2>3
        <3>2. Ahead(r, p[1], j)
            BY <1>2, <1>5, <2>1, <3>1, Zenon DEF IsSorted
        <3>3. r[p[1]] = 0 /\ r[j] = 0 /\ p[1] \in Nat /\ j \in Nat
            BY <1>5, Zenon
        <3>4. p[1] < j
            BY <3>2, <3>3 DEF Ahead
        <3>. QED  BY <3>3, <3>4
    <2>. QED  BY <2>2, <2>3, Zenon
<1>. QED  BY <1>5, <1>6, Zenon

LEMMA SharersAgree ==
    ASSUME NEW f, NEW rec, NEW k \in DOMAIN f, NEW j \in Sharing(f, k)
    PROVE  fleetVersionStatus(f[j], rec) = fleetVersionStatus(f[k], rec)
<1>1. MatrixKey(f[j]) = MatrixKey(f[k])
    BY Zenon DEF Sharing
<1>2. f[j].type = f[k].type /\ f[j].version = f[k].version
    BY <1>1 DEF MatrixKey
<1>. QED  BY <1>2, Zenon DEF fleetVersionStatus

LEMMA MatrixEntries ==
    ASSUME NEW f, DOMAIN f \in SUBSET Nat, IsFiniteSet(DOMAIN f), NEW rec
    PROVE  VersionMatrix(f, rec) = {EntryOf(f, k, rec) : k \in DOMAIN f}
<1>. DEFINE Least(S) == CHOOSE k \in S : \A j \in S : k <= j
            Members(key) == {j \in DOMAIN f : MatrixKey(f[j]) = key}
            Entry(key) == [status |-> fleetVersionStatus(f[Least(Members(key))], rec), members |-> Members(key)]
<1>1. VersionMatrix(f, rec) = {Entry(key) : key \in {MatrixKey(f[k]) : k \in DOMAIN f}}
    BY Zenon DEF VersionMatrix
<1>2. ASSUME NEW k \in DOMAIN f PROVE Entry(MatrixKey(f[k])) = EntryOf(f, k, rec)
    <2>1. Members(MatrixKey(f[k])) = Sharing(f, k)
        BY Zenon DEF Sharing
    <2>2. Sharing(f, k) # {} /\ Sharing(f, k) \in SUBSET DOMAIN f /\ Sharing(f, k) \in SUBSET Nat
        BY DEF Sharing
    <2>3. Least(Sharing(f, k)) \in Sharing(f, k)
        <3>1. IsFiniteSet(Sharing(f, k))
            BY <2>2, FS_Subset, Zenon
        <3>. QED  BY <2>2, <3>1, FirstOfThem, Zenon
    <2>4. fleetVersionStatus(f[Least(Sharing(f, k))], rec) = fleetVersionStatus(f[k], rec)
        BY <2>3, SharersAgree, Zenon
    <2>. QED  BY <2>1, <2>4, Zenon DEF EntryOf
<1>. HIDE DEF Entry
<1>. QED  BY <1>1, <1>2, Zenon

LEMMA VerdictsFollow ==
    ASSUME NEW f, NEW rec, NEW k \in DOMAIN f
    PROVE  /\ k \in CollectorsBelowRecommended(f, rec) <=> fleetVersionStatus(f[k], rec) = "below_recommended"
           /\ k \in InvalidVersions(f, rec) <=>
                  fleetVersionStatus(f[k], rec) = "unknown" /\ Comparable(rec)
<1>. DEFINE r == Compare(f[k].version, rec)
<1>1. k \in CollectorsBelowRecommended(f, rec) <=>
          f[k].type = "collector" /\ Comparable(rec) /\ f[k].version # NoVersion /\ r.ok /\ r.cmp < 0
    BY Zenon DEF CollectorsBelowRecommended
<1>2. k \in InvalidVersions(f, rec) <=>
          f[k].type = "collector" /\ Comparable(rec) /\ (f[k].version = NoVersion \/ ~ r.ok)
    BY Zenon DEF InvalidVersions
<1>3. fleetVersionStatus(f[k], rec) =
          IF f[k].type # "collector" THEN "not_applicable"
          ELSE IF ~ Comparable(rec) \/ f[k].version = NoVersion THEN "unknown"
          ELSE IF ~ r.ok THEN "unknown"
          ELSE IF r.cmp < 0 THEN "below_recommended"
          ELSE IF r.cmp > 0 THEN "above_recommended" ELSE "at_recommended"
    BY Zenon DEF fleetVersionStatus
<1>. HIDE DEF r
<1>. QED  BY <1>1, <1>2, <1>3

\* What the posture says of workload k.
PostureOf(v, f, rec, k) ==
    \E e \in v.matrix :
        /\ k \in e.members /\ e.status = fleetVersionStatus(f[k], rec)
        /\ \A d \in v.matrix : k \in d.members => d = e
        /\ k \in v.below <=> e.status = "below_recommended"
        /\ k \in v.invalid <=> e.status = "unknown" /\ Comparable(rec)

LEMMA PostureHolds ==
    ASSUME NEW f, DOMAIN f \in SUBSET Nat, IsFiniteSet(DOMAIN f), NEW rec, NEW v, v = handleFleetVersionIntelligence(f, rec)
    PROVE  (\A k \in DOMAIN f : PostureOf(v, f, rec, k)) /\ v.below \cap v.invalid = {}
<1>1. /\ v.matrix = {EntryOf(f, k, rec) : k \in DOMAIN f}
      /\ v.below = CollectorsBelowRecommended(f, rec) /\ v.invalid = InvalidVersions(f, rec)
    BY MatrixEntries, Zenon DEF handleFleetVersionIntelligence
<1>2. ASSUME NEW k \in DOMAIN f PROVE PostureOf(v, f, rec, k)
    <2>. DEFINE e == EntryOf(f, k, rec)
    <2>1. e \in v.matrix
        BY <1>1, Zenon
    <2>2. k \in e.members /\ e.status = fleetVersionStatus(f[k], rec)
        BY Zenon DEF EntryOf, Sharing
    <2>3. ASSUME NEW d \in v.matrix, k \in d.members PROVE d = e
        <3>1. PICK j \in DOMAIN f : d = EntryOf(f, j, rec)
            BY <1>1, Zenon
        <3>2. k \in Sharing(f, j)
            BY <2>3, <3>1, Zenon DEF EntryOf
        <3>3. fleetVersionStatus(f[j], rec) = fleetVersionStatus(f[k], rec)
            BY <3>2, SharersAgree, Zenon
        <3>4. Sharing(f, j) = Sharing(f, k)
            BY <3>2, Zenon DEF Sharing
        <3>. QED  BY <3>1, <3>3, <3>4, Zenon DEF EntryOf
    <2>4. /\ k \in v.below <=> e.status = "below_recommended"
          /\ k \in v.invalid <=> e.status = "unknown" /\ Comparable(rec)
        <3>1. /\ k \in CollectorsBelowRecommended(f, rec) <=> fleetVersionStatus(f[k], rec) = "below_recommended"
              /\ k \in InvalidVersions(f, rec) <=>
                     fleetVersionStatus(f[k], rec) = "unknown" /\ Comparable(rec)
            BY VerdictsFollow, Zenon
        <3>. HIDE DEF e
        <3>. QED  BY <1>1, <2>2, <3>1
    <2>. HIDE DEF e
    <2>. QED  BY <2>1, <2>2, <2>3, <2>4, Zenon DEF PostureOf
<1>3. v.below \cap v.invalid = {}
    BY <1>1, Zenon DEF CollectorsBelowRecommended, InvalidVersions
<1>. QED  BY <1>2, <1>3, Zenon

---------------------------------------------------------------------------
(* The views of every fleet *)

FleetsAreListed == \A f \in Fleets : FleetIsListed(f)

\* What was shown is what the handlers compute for the fleet.
ShownInv ==
    /\ fleet \in Fleets
    /\ Looked =>
          /\ out.drift = handleListConfigDrift(fleet)
          /\ out.topology = [k \in DOMAIN fleet |->
                                summarizeWorkloadTopology(fleet[k].instances, fleet[k].active)]
          /\ out.versions = handleFleetVersionIntelligence(fleet, recommended)

LEMMA Elements ==
    ASSUME NEW s PROVE \A x : x \in Range(s) <=> \E q \in DOMAIN s : x = s[q]
    BY Zenon DEF Range

LEMMA NamedIs ==
    ASSUME FleetIsListed(fleet), NEW k \in DOMAIN fleet
    PROVE  Named(fleet[k].name) = fleet[k]
<1>. DEFINE Matches(c) == c \in Range(fleet) /\ c.name = fleet[k].name
<1>1. Matches(fleet[k])
    BY Elements, Zenon
<1>2. ASSUME NEW c, Matches(c) PROVE c = fleet[k]
    <2>1. PICK j \in DOMAIN fleet : c = fleet[j]
        BY <1>2, Elements, Zenon
    <2>. QED  BY <1>2, <2>1, Zenon DEF FleetIsListed
<1>3. Named(fleet[k].name) = CHOOSE c : Matches(c)
    BY Zenon DEF Named
<1>4. Matches(CHOOSE c : Matches(c))
    BY <1>1, Zenon
<1>. HIDE DEF Matches
<1>. QED  BY <1>2, <1>3, <1>4, Zenon

LEMMA InSyncHolds ==
    ASSUME FleetIsListed(fleet), Looked, out.drift = handleListConfigDrift(fleet)
    PROVE  InSyncIsExact
<1>. DEFINE items == out.drift.items
<1>1. ASSUME NEW q \in DOMAIN items
      PROVE  LET i == items[q]
                 c == Named(i.data.name)
             IN /\ i.status = "in_sync" <=>
                       /\ c.accepts /\ ~ Overdue(c)
                       /\ \A x, y \in Believed(c) : x = y
                       /\ Expected(c) # "" => Believed(c) = {Expected(c)}
                /\ i.status # "in_sync" => i.status \in i.reasons
    <2>. DEFINE k == Order(fleet)[q]
                i == items[q]
                b == buildConfigDriftItem(fleet[k])
    <2>1. k \in Collectors(fleet) /\ i = Items(fleet)[k]
        <3>1. LET d == handleListConfigDrift(fleet)
              IN /\ DOMAIN d.items = Places(fleet)
                 /\ \A p \in Places(fleet) :
                       Order(fleet)[p] \in Collectors(fleet) /\ d.items[p] = Items(fleet)[Order(fleet)[p]]
            BY PlacesAndItems, Zenon
        <3>. QED  BY <3>1, Zenon
    <2>2. k \in DOMAIN fleet
        BY <2>1, Zenon DEF Collectors
    <2>. HIDE DEF k, items, i
    <2>3. i.data.name = fleet[k].name
        BY <2>1, ItemHas, Zenon
    <2>4. Named(i.data.name) = fleet[k]
        BY <2>2, <2>3, NamedIs, Zenon
    <2>5. i.status = b.status /\ \A x \in b.reasons : x \in i.reasons
        BY <2>1, ItemIs, Zenon
    <2>6. fleet[k].accepts \in BOOLEAN /\ IsFiniteSet(DOMAIN fleet[k].instances)
        BY <2>2, DomainOfSeq, Zenon DEF FleetIsListed
    <2>7. /\ b.status = "in_sync" <=>
                /\ fleet[k].accepts /\ ~ Overdue(fleet[k])
                /\ \A x, y \in Believed(fleet[k]) : x = y
                /\ Expected(fleet[k]) # "" => Believed(fleet[k]) = {Expected(fleet[k])}
          /\ b.status # "in_sync" => b.status \in b.reasons
        BY <2>6, InSyncIsExactForEach, Zenon
    <2>. HIDE DEF b
    <2>. QED  BY <2>4, <2>5, <2>7, Zenon DEF i
<1>2. ASSUME NEW i \in Range(items)
      PROVE  LET c == Named(i.data.name)
             IN /\ i.status = "in_sync" <=>
                       /\ c.accepts /\ ~ Overdue(c)
                       /\ \A x, y \in Believed(c) : x = y
                       /\ Expected(c) # "" => Believed(c) = {Expected(c)}
                /\ i.status # "in_sync" => i.status \in i.reasons
    <2>1. PICK q \in DOMAIN items : i = items[q]
        BY Elements, Zenon
    <2>. HIDE DEF items
    <2>. QED  BY <1>1, <2>1, Zenon
<1>. HIDE DEF items
<1>. QED  BY <1>2, Zenon DEF InSyncIsExact, Overdue, Believed, Running, Expected, items

LEMMA WorstHolds ==
    ASSUME FleetIsListed(fleet), out.drift = handleListConfigDrift(fleet)
    PROVE  WorstIsFirst
<1>1. WorstFirst(out.drift)
    BY WorstAreFirst, Zenon
<1>. QED  BY <1>1, Zenon DEF WorstFirst, WorstIsFirst

LEMMA MarkHolds ==
    ASSUME FleetIsListed(fleet), out.drift = handleListConfigDrift(fleet)
    PROVE  GroupMarkIsMutual
<1>. DEFINE items == out.drift.items
            Unlike(j, i) == /\ j.data.env = i.data.env /\ i.data.env # "unknown"
                            /\ <<j.data.expected, j.data.effective>> # <<i.data.expected, i.data.effective>>
            Marked1(i) == "group_heterogeneous_config" \in i.reasons
<1>1. MarkIsMutual(items)
    BY MarksAreMutual, Zenon
<1>2. \A q \in DOMAIN items : Marked1(items[q]) <=> \E s \in DOMAIN items : Unlike(items[s], items[q])
    BY <1>1, Zenon DEF MarkIsMutual
<1>. HIDE DEF items, Unlike, Marked1
<1>3. \A i \in Range(items) : Marked1(i) <=> \E j \in Range(items) : Unlike(j, i)
    <2>. SUFFICES ASSUME NEW i \in Range(items) PROVE Marked1(i) <=> \E j \in Range(items) : Unlike(j, i)
        OBVIOUS
    <2>1. PICK q \in DOMAIN items : i = items[q]
        BY Elements, Zenon
    <2>2. (\E s \in DOMAIN items : Unlike(items[s], i)) <=> \E j \in Range(items) : Unlike(j, i)
        <3>1. ASSUME NEW j \in Range(items), Unlike(j, i) PROVE \E s \in DOMAIN items : Unlike(items[s], i)
            <4>1. PICK s \in DOMAIN items : j = items[s]
                BY <3>1, Elements, Zenon
            <4>. QED  BY <3>1, <4>1, Zenon
        <3>2. \A s \in DOMAIN items : items[s] \in Range(items)
            BY Elements, Zenon
        <3>. QED  BY <3>1, <3>2, Zenon
    <2>. QED  BY <1>2, <2>1, <2>2, Zenon
<1>. QED  BY <1>3, Zenon DEF GroupMarkIsMutual, items, Unlike, Marked1

LEMMA TopologyHolds ==
    ASSUME FleetIsListed(fleet), out.drift = handleListConfigDrift(fleet),
           out.topology = [k \in DOMAIN fleet |->
                              summarizeWorkloadTopology(fleet[k].instances, fleet[k].active)]
    PROVE  TopologyAddsUp
<1>1. ASSUME NEW k \in DOMAIN fleet
      PROVE  LET t == out.topology[k]
             IN /\ t.healthy + t.unhealthy = t.connected
                /\ t.counts["no_status"] + t.counts["sent"] + t.counts["applying"] + t.counts["applied"]
                     + t.counts["failed"] = t.capable
                /\ \A i \in Range(out.drift.items) : i.data.name = fleet[k].name =>
                     ("heterogeneous_effective_config" \in i.reasons <=> "mixed_effective_config_hashes" \in t.reasons)
    <2>. DEFINE t == out.topology[k]
                items == out.drift.items
    <2>1. t = summarizeWorkloadTopology(fleet[k].instances, fleet[k].active)
        BY Zenon
    <2>2. AddsUp(fleet, k, t, items)
        BY <2>1, TopologiesAddUp, Zenon
    <2>. HIDE DEF t, items
    <2>3. ASSUME NEW i \in Range(items), i.data.name = fleet[k].name
          PROVE  "heterogeneous_effective_config" \in i.reasons <=> "mixed_effective_config_hashes" \in t.reasons
        <3>1. PICK q \in DOMAIN items : i = items[q]
            BY <2>3, Elements, ZenonT(30)
        <3>. QED  BY <2>2, <2>3, <3>1, Zenon DEF AddsUp
    <2>. QED  BY <2>2, <2>3, Zenon DEF AddsUp, t, items
<1>. QED  BY <1>1, Zenon DEF TopologyAddsUp

LEMMA PartitionHolds ==
    ASSUME FleetIsListed(fleet), out.versions = handleFleetVersionIntelligence(fleet, recommended)
    PROVE  PostureIsAPartition
<1>1. DOMAIN fleet \in SUBSET Nat /\ IsFiniteSet(DOMAIN fleet)
    BY DomainOfSeq, Zenon DEF FleetIsListed
<1>2. /\ \A k \in DOMAIN fleet : PostureOf(out.versions, fleet, recommended, k)
      /\ out.versions.below \cap out.versions.invalid = {}
    BY <1>1, PostureHolds, Zenon
<1>. QED  BY <1>2, Zenon DEF PostureIsAPartition, PostureOf

\* The three views agree with each other, for every fleet and recommendation: a
\* collector is in sync exactly when it runs what it is expected to and no push
\* of it is overdue; what is counted as drifted comes first, and what is in
\* order last; a mark of heterogeneity is mutual; the counts of a topology add up and
\* call the same workloads mixed as the dashboard; and every workload is in one
\* entry of the version matrix, with its own version status
\* (config_safety_drift.go:43-240, workloads.go:122-202,
\* fleet_version_intelligence.go:42-83).
THEOREM ViewsAgreeAlways ==
    ASSUME FleetsAreListed
    PROVE  ViewSpec => []ViewsAgree
<1>1. ViewInit => ShownInv
    BY Zenon DEF ViewInit, ShownInv, Looked
<1>2. ShownInv /\ [Look]_viewVars => ShownInv'
    <2>. SUFFICES ASSUME ShownInv, [Look]_viewVars PROVE ShownInv'
        OBVIOUS
    <2>1. CASE Look
        <3>1. fleet' = fleet /\ recommended' = recommended
            BY <2>1, Zenon DEF Look
        <3>2. /\ out'.drift = handleListConfigDrift(fleet)
              /\ out'.topology = [k \in DOMAIN fleet |->
                                     summarizeWorkloadTopology(fleet[k].instances, fleet[k].active)]
              /\ out'.versions = handleFleetVersionIntelligence(fleet, recommended)
            BY <2>1, Zenon DEF Look
        <3>. QED  BY <3>1, <3>2, Zenon DEF ShownInv
    <2>2. CASE UNCHANGED viewVars
        BY <2>2, Zenon DEF ShownInv, viewVars, Looked
    <2>. QED  BY <2>1, <2>2, Zenon DEF Look
<1>3. ShownInv => ViewsAgree
    <2>1. CASE ~ Looked
        BY <2>1, Zenon DEF ViewsAgree, InSyncIsExact, WorstIsFirst, GroupMarkIsMutual, TopologyAddsUp,
                           PostureIsAPartition
    <2>2. CASE Looked /\ ShownInv
        <3>1. FleetIsListed(fleet)
            BY <2>2, Zenon DEF FleetsAreListed, ShownInv
        <3>. QED  BY <2>2, <3>1, InSyncHolds, WorstHolds, MarkHolds, TopologyHolds, PartitionHolds, Zenon
                   DEF ShownInv, ViewsAgree
    <2>. QED  BY <2>1, <2>2, Zenon
<1>. QED  BY <1>1, <1>2, <1>3, PTL DEF ViewSpec

===============================================================================
