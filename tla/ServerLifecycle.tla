--------------------------- MODULE ServerLifecycle ---------------------------
(***************************************************************************)
(* Start and shutdown of the server: Run of pkg/server, Stop of            *)
(* internal/opamp, Run and Stop of the WebSocket hub and the closing of    *)
(* the store by pkg/bootstrap.                                             *)
(*                                                                         *)
(* What the server does for its peers is a task of one of several kinds,   *)
(* and the shutdown must refuse new ones and wait for those under way.     *)
(* Most tasks broadcast, and a broadcast waits for room in the hub's       *)
(* channel.  The alert engine is a task that the shutdown does not wait    *)
(* for.                                                                    *)
(***************************************************************************)
EXTENDS Naturals, FiniteSets

CONSTANTS Tasks, Kind,    \* [Tasks -> Kinds]
          BroadcastCap,   \* 256
          MayFailToStart

Kinds == {"auth", "push", "message", "grace", "api", "engine", "outbox"}

VARIABLES main,      \* where Run is
          cancelled, \* ctx is done
          deadline,  \* the waits of ten seconds that are over: "shutdown", "outbox"
          api, opampHTTP,              \* the listeners: "off", "open", "closed"
          stopState, graceStopped, tokensStopped,  \* beginStop of internal/opamp
          join,      \* the goroutine of beginStop: what it waits for next
          hub,       \* "running", "stopped"
          stops,     \* calls of hub.Stop
          bcast,     \* messages in the hub's channel
          task,      \* "idle", "running", "sending", "done"
          store      \* "open", "closed"

runVars == <<main, cancelled, deadline>>
listeners == <<api, opampHTTP>>
stopVars == <<stopState, graceStopped, tokensStopped, join>>
hubVars == <<hub, stops, bcast>>
rest == <<task, store>>
vars == <<runVars, listeners, stopVars, hubVars, rest>>

Init ==
    /\ main = "attach" /\ cancelled = FALSE /\ deadline = {} /\ api = "off" /\ opampHTTP = "off"
    /\ stopState = FALSE /\ graceStopped = FALSE /\ tokensStopped = FALSE /\ join = "off"
    /\ hub = "running" /\ stops = 0 /\ bcast = 0 /\ task = [t \in Tasks |-> "idle"] /\ store = "open"

Busy(kinds) == \E t \in Tasks : Kind[t] \in kinds /\ task[t] \in {"running", "sending"}

Main(from, to) == main = from /\ main' = to

---------------------------------------------------------------------------
(* Run: start *)

StartFails(from) ==
    /\ MayFailToStart /\ Main(from, "apiShutdown") /\ cancelled' = TRUE
    /\ UNCHANGED <<deadline, listeners, stopVars, hubVars, rest>>

Attach ==
    \/ /\ Main("attach", "listen")
       /\ UNCHANGED <<cancelled, deadline, listeners, stopVars, hubVars, rest>>
    \/ StartFails("attach")

ListenAPI ==
    \/ /\ Main("listen", "listenOpAMP") /\ api' = "open"
       /\ UNCHANGED <<cancelled, deadline, opampHTTP, stopVars, hubVars, rest>>
    \/ StartFails("listen")

\* The OpAMP transport may be disabled by its configuration.
ListenOpAMP ==
    \/ /\ Main("listenOpAMP", "running") /\ opampHTTP' \in {"open", "off"}
       /\ UNCHANGED <<cancelled, deadline, api, stopVars, hubVars, rest>>
    \/ StartFails("listenOpAMP")

Cancel ==
    /\ Main("running", "apiShutdown") /\ cancelled' = TRUE
    /\ UNCHANGED <<deadline, listeners, stopVars, hubVars, rest>>

---------------------------------------------------------------------------
(* Run: shutdown *)

Timeout ==
    /\ \/ main \in {"apiClosing", "opampClosing", "beginStop", "stopOpAMP"} /\ deadline = {} /\ deadline' = {"shutdown"}
       \/ main = "outboxStop" /\ "outbox" \notin deadline /\ deadline' = deadline \union {"outbox"}
    /\ UNCHANGED <<main, cancelled, listeners, stopVars, hubVars, rest>>

Closed(listener) == IF listener = "open" THEN "closed" ELSE listener

CloseAPI ==
    /\ Main("apiShutdown", "apiClosing") /\ api' = Closed(api)
    /\ UNCHANGED <<cancelled, deadline, opampHTTP, stopVars, hubVars, rest>>

\* Variant: the requests under way are not waited for.
Drained_at_once(kind) == TRUE

\* http.Server.Shutdown returns once the requests are over or the time is;
\* hijacked WebSocket connections are not waited for.
Drained(kind) == ~ Busy({kind}) \/ "shutdown" \in deadline

APIShutdown ==
    /\ Drained("api") /\ Main("apiClosing", "opampShutdown")
    /\ UNCHANGED <<cancelled, deadline, listeners, stopVars, hubVars, rest>>

CloseOpAMP ==
    /\ Main("opampShutdown", "opampClosing") /\ opampHTTP' = Closed(opampHTTP)
    /\ UNCHANGED <<cancelled, deadline, api, stopVars, hubVars, rest>>

\* Variant: the hub is stopped before the OpAMP server.
OpAMPShutdown_hub ==
    /\ Drained("auth") /\ Main("opampClosing", "beginStop") /\ stops' = stops + 1
    /\ UNCHANGED <<cancelled, deadline, listeners, stopVars, hub, bcast, rest>>

OpAMPShutdown ==
    /\ Drained("auth") /\ Main("opampClosing", "beginStop")
    /\ UNCHANGED <<cancelled, deadline, listeners, stopVars, hubVars, rest>>

beginStop ==
    /\ main = "beginStop" /\ ~ stopState /\ stopState' = TRUE
    /\ UNCHANGED <<runVars, listeners, graceStopped, tokensStopped, join, hubVars, rest>>

\* The timers that have not fired are stopped.
GraceBeginStop ==
    /\ main = "beginStop" /\ stopState /\ ~ graceStopped /\ graceStopped' = TRUE
    /\ UNCHANGED <<runVars, listeners, stopState, tokensStopped, join, hubVars, rest>>

TokensBeginStop ==
    /\ graceStopped /\ Main("beginStop", "stopOpAMP") /\ tokensStopped' = TRUE /\ join' = "grace"
    /\ UNCHANGED <<cancelled, deadline, listeners, stopState, graceStopped, hubVars, rest>>

\* The goroutine of beginStop waits for the callbacks, for the leases and for
\* the operations, in this order.
Join ==
    /\ \/ join = "grace" /\ ~ Busy({"grace"}) /\ join' = "tokens"
       \/ join = "tokens" /\ ~ Busy({"message"}) /\ join' = "operations"
       \/ join = "operations" /\ ~ Busy({"auth", "push"}) /\ join' = "done"
    /\ UNCHANGED <<runVars, listeners, stopState, graceStopped, tokensStopped, hubVars, rest>>

\* Variant: the time limit ends the wait.
StopReturns_bounded == join = "done" \/ "shutdown" \in deadline

\* After the time is up stopOpAMPServer joins the same shutdown without one.
StopReturns == join = "done"

stopOpAMPServer ==
    /\ StopReturns /\ Main("stopOpAMP", "hubStop")
    /\ UNCHANGED <<cancelled, deadline, listeners, stopVars, hubVars, rest>>

\* The hub's loop ends when it gets to it.
HubStop ==
    /\ Main("hubStop", "outboxStop") /\ stops' = stops + 1
    /\ UNCHANGED <<cancelled, deadline, listeners, stopVars, hub, bcast, rest>>

HubReturns ==
    /\ stops > 0 /\ hub = "running" /\ hub' = "stopped"
    /\ UNCHANGED <<runVars, listeners, stopVars, stops, bcast, rest>>

\* stopAuditOutbox is deferred and runs when Run returns.
OutboxStop ==
    /\ ~ Busy({"outbox"}) \/ "outbox" \in deadline
    /\ Main("outboxStop", "returned")
    /\ UNCHANGED <<cancelled, deadline, listeners, stopVars, hubVars, rest>>

CloseStore ==
    /\ Main("returned", "over") /\ store' = "closed"
    /\ UNCHANGED <<cancelled, deadline, listeners, stopVars, hubVars, task>>

---------------------------------------------------------------------------
(* Tasks *)

\* Variant: operations begin whatever the state.
beginOperation_always == TRUE

beginOperation == ~ stopState

\* Whether a task of a kind may begin.  A request that was accepted before the
\* listener closed may be authenticated late, messages come over connections
\* that are open already, and messages begin pushes.
Admits(k) ==
    CASE k = "auth" -> opampHTTP # "off" /\ beginOperation
      [] k = "push" -> Busy({"message"}) /\ beginOperation
      [] k = "message" -> opampHTTP # "off" /\ ~ tokensStopped
      [] k = "grace" -> opampHTTP # "off" /\ ~ graceStopped
      [] k = "api" -> api = "open"
      [] k \in {"engine", "outbox"} -> main = "running"

Others == <<runVars, listeners, stopVars, hub, stops, store>>

BeginTask(t) ==
    /\ task[t] \in {"idle", "done"} /\ Admits(Kind[t]) /\ task' = [task EXCEPT ![t] = "running"]
    /\ UNCHANGED <<Others, bcast>>

Send(t) == Kind[t] # "outbox" /\ task[t] = "running" /\ task' = [task EXCEPT ![t] = "sending"] /\ UNCHANGED <<Others, bcast>>

Sent(t) ==
    /\ task[t] = "sending" /\ bcast < BroadcastCap /\ bcast' = bcast + 1
    /\ task' = [task EXCEPT ![t] = "running"] /\ UNCHANGED Others

EndTask(t) == task[t] = "running" /\ task' = [task EXCEPT ![t] = "done"] /\ UNCHANGED <<Others, bcast>>

FanOut == hub = "running" /\ bcast > 0 /\ bcast' = bcast - 1 /\ UNCHANGED <<Others, task>>

MainStep ==
    \/ Attach \/ ListenAPI \/ ListenOpAMP \/ CloseAPI \/ APIShutdown \/ CloseOpAMP \/ OpAMPShutdown
    \/ beginStop \/ GraceBeginStop \/ TokensBeginStop \/ stopOpAMPServer \/ HubStop \/ OutboxStop \/ CloseStore

Next ==
    \/ MainStep \/ Cancel \/ Timeout \/ Join \/ HubReturns \/ FanOut
    \/ \E t \in Tasks : BeginTask(t) \/ Send(t) \/ Sent(t) \/ EndTask(t)

Spec == Init /\ [][Next]_vars

\* Goroutines run, time passes, and a task ends: handlers of requests and of
\* messages are finite, except that they wait for the hub.
FairSpec ==
    /\ Spec /\ WF_vars(MainStep) /\ WF_vars(Join) /\ WF_vars(Timeout) /\ WF_vars(FanOut)
    /\ \A t \in Tasks : SF_vars(Sent(t)) /\ SF_vars(EndTask(t))
---------------------------------------------------------------------------

TypeOK ==
    /\ main \in {"attach", "listen", "listenOpAMP", "running", "apiShutdown", "apiClosing", "opampShutdown",
                 "opampClosing", "beginStop", "stopOpAMP", "hubStop", "outboxStop", "returned", "over"}
    /\ deadline \subseteq {"shutdown", "outbox"} /\ {cancelled, stopState, graceStopped, tokensStopped} \subseteq BOOLEAN
    /\ {api, opampHTTP} \subseteq {"off", "open", "closed"} /\ join \in {"off", "grace", "tokens", "operations", "done"}
    /\ hub \in {"running", "stopped"} /\ stops \in 0 .. 1 /\ bcast \in 0 .. BroadcastCap /\ store \in {"open", "closed"}
    /\ task \in [Tasks -> {"idle", "running", "sending", "done"}]

\* The hub outlives whatever the OpAMP server does: nothing that handles an
\* agent is left to wait for a hub that has stopped, even after the time of
\* the shutdown is up.
HubOutlivesOpAMP == stops > 0 => ~ Busy({"auth", "push", "message", "grace"})

\* The store is closed after the last OpAMP handler, and after the last
\* request of the API and the last delivery of the audit outbox unless their
\* time was up.
StoreOutlivesHandlers ==
    store = "closed" =>
        /\ ~ Busy({"auth", "push", "message", "grace"})
        /\ Busy({"api"}) => "shutdown" \in deadline
        /\ Busy({"outbox"}) => "outbox" \in deadline

\* A stop that is complete stays complete.
StoppedIsQuiet == join = "done" => ~ Busy({"auth", "push", "message", "grace"})

\* The server stops in order: the hub runs until the OpAMP side has stopped,
\* the store is open while a handler runs, and once Stop has returned nothing of
\* the OpAMP side runs.
StopsInOrder == HubOutlivesOpAMP /\ StoreOutlivesHandlers /\ StoppedIsQuiet

\* A cancelled server returns, and one that fails to start cleans up and
\* returns, whatever is under way then.
ShutdownEnds == cancelled ~> main = "over"
=============================================================================
