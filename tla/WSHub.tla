-------------------------------- MODULE WSHub --------------------------------
(***************************************************************************)
(* The browser WebSocket hub, internal/api/wshub.go: the hub's event loop, *)
(* the goroutines that broadcast to it, and for every client the handler   *)
(* that registers it and its write, read and expiration pumps.             *)
(*                                                                         *)
(* A message is its number in the order of the broadcast channel.  A peer  *)
(* may go away, and may stop reading without going away: nothing makes a   *)
(* write end then but the closing of the connection.                       *)
(***************************************************************************)
EXTENDS Naturals, Sequences, FiniteSets

CONSTANTS Clients, Emitters,
          BroadcastCap, SendCap,  \* both 256
          MaxMessages,            \* bound on the broadcasts
          MayStop                 \* the server shuts down

VARIABLES hub,      \* Run: "running", "stopping" once done is closed, "stopped"
          bcast,    \* the broadcast channel
          emitter,  \* "idle", "sending"
          sent,     \* broadcasts so far
          fanned,   \* the last message Run has fanned out
          clients,  \* h.clients
          cl,       \* the clients' goroutines, channel and connection
          panicked  \* a send on, or a second close of, a closed channel

vars == <<hub, bcast, emitter, sent, fanned, clients, cl, panicked>>

NewClient ==
    [handler |-> "none", conn |-> "none", expires |-> FALSE, expired |-> FALSE,
     send |-> <<>>, closed |-> FALSE, got |-> <<>>,
     read |-> "off", write |-> "off", exp |-> "off", done |-> FALSE]

Init ==
    /\ hub = "running" /\ bcast = <<>> /\ emitter = [p \in Emitters |-> "idle"]
    /\ sent = 0 /\ fanned = 0 /\ clients = {} /\ cl = [c \in Clients |-> NewClient] /\ panicked = FALSE

HubRuns == hub \in {"running", "stopping"}

---------------------------------------------------------------------------
(* Broadcasting *)

Broadcast(p) ==
    /\ emitter[p] = "idle" /\ sent < MaxMessages
    /\ emitter' = [emitter EXCEPT ![p] = "sending"] /\ sent' = sent + 1
    /\ UNCHANGED <<hub, bcast, fanned, clients, cl, panicked>>

\* h.broadcast <- data waits for room in the channel.
Enqueue(p) ==
    /\ emitter[p] = "sending" /\ Len(bcast) < BroadcastCap
    /\ emitter' = [emitter EXCEPT ![p] = "idle"]
    /\ bcast' = Append(bcast, fanned + Len(bcast) + 1)
    /\ UNCHANGED <<hub, sent, fanned, clients, cl, panicked>>

\* Variant: the buffer is taken to be one longer.
Full_late(c) == Len(cl[c].send) = SendCap + 1

Full(c) == Len(cl[c].send) = SendCap

\* Variant: a slow client misses the message and stays.
Drops_none(c) == cl[c].expired

\* Variant: the expiry is left to the client's own pump.
Drops_full(c) == Full(c)

\* Clients the message drops: the token is over, or the buffer is full.
Drops(c) == cl[c].expired \/ Full(c)

\* Variant: the loop waits for the slowest client.
FanOutReady_waiting == \A c \in clients : cl[c].expired \/ ~ Full(c)

FanOutReady == TRUE

\* case msg := <-h.broadcast
FanOut ==
    LET msg == Head(bcast) dropped == {c \in clients : Drops(c)} IN
    /\ HubRuns /\ bcast # <<>> /\ FanOutReady
    /\ bcast' = Tail(bcast) /\ fanned' = msg
    /\ clients' = clients \ dropped
    /\ cl' = [c \in Clients |->
                 IF c \in dropped THEN [cl[c] EXCEPT !.closed = TRUE]
                 ELSE IF c \in clients /\ ~ Full(c) THEN [cl[c] EXCEPT !.send = Append(@, msg)]
                 ELSE cl[c]]
    /\ panicked' = (panicked \/ \E c \in clients : cl[c].closed)
    /\ UNCHANGED <<hub, emitter, sent>>

\* case <-h.done
Stop == MayStop /\ hub = "running" /\ hub' = "stopping" /\ UNCHANGED <<bcast, emitter, sent, fanned, clients, cl, panicked>>

RunReturns == hub = "stopping" /\ hub' = "stopped" /\ UNCHANGED <<bcast, emitter, sent, fanned, clients, cl, panicked>>

---------------------------------------------------------------------------
(* A client *)

Client(c, new) ==
    cl' = [cl EXCEPT ![c] = new] /\ UNCHANGED <<hub, bcast, emitter, sent, fanned, clients, panicked>>

\* The upgrade; the token has an expiry or not.
HandleWS(c) ==
    /\ cl[c].handler = "none"
    /\ \E e \in BOOLEAN : Client(c, [cl[c] EXCEPT !.handler = "upgraded", !.conn = "open", !.expires = e])

\* case client := <-h.register, after which the handler starts the pumps.
Register(c) ==
    /\ HubRuns /\ cl[c].handler = "upgraded"
    /\ clients' = clients \cup {c}
    /\ cl' = [cl EXCEPT ![c].handler = "served", ![c].read = "reading", ![c].write = "running",
                        ![c].exp = IF cl[c].expires THEN "waiting" ELSE "over"]
    /\ UNCHANGED <<hub, bcast, emitter, sent, fanned, panicked>>

\* writePump
WriteMessage(c) ==
    /\ cl[c].write = "running" /\ cl[c].send # <<>> /\ cl[c].conn \in {"open", "broken"}
    /\ Client(c, [cl[c] EXCEPT !.got = Append(@, Head(cl[c].send)), !.send = Tail(@)])

WriteFails(c) ==
    /\ cl[c].write = "running" /\ cl[c].send # <<>> /\ cl[c].conn \in {"broken", "closed"}
    /\ Client(c, [cl[c] EXCEPT !.send = Tail(@), !.write = "over", !.conn = "closed"])

\* The channel is closed and drained.
WriteEnds(c) ==
    /\ cl[c].write = "running" /\ cl[c].send = <<>> /\ cl[c].closed
    /\ Client(c, [cl[c] EXCEPT !.write = "over", !.conn = "closed"])

\* readPump: an error ends the loop; the deferred function closes done.
ReadFails(c) ==
    /\ cl[c].read = "reading" /\ cl[c].conn \in {"broken", "closed"}
    /\ Client(c, [cl[c] EXCEPT !.read = "unregister", !.done = TRUE])

\* Variant: the channel is closed whether or not the client is registered.
Unregisters_any(c) == TRUE

Unregisters(c) == c \in clients

\* Variant: the channel of a client that leaves stays open.
Unregister_leak(c) ==
    /\ HubRuns /\ cl[c].read = "unregister"
    /\ clients' = clients \ {c}
    /\ cl' = [cl EXCEPT ![c].read = "over", ![c].conn = "closed"]
    /\ UNCHANGED <<hub, bcast, emitter, sent, fanned, panicked>>

\* case client := <-h.unregister, after which the read pump closes the connection.
Unregister(c) ==
    /\ HubRuns /\ cl[c].read = "unregister"
    /\ clients' = clients \ {c}
    /\ cl' = [cl EXCEPT ![c].read = "over", ![c].conn = "closed", ![c].closed = @ \/ Unregisters(c)]
    /\ panicked' = (panicked \/ (Unregisters(c) /\ cl[c].closed))
    /\ UNCHANGED <<hub, bcast, emitter, sent, fanned>>

\* Variant: the timer only ends the pump.
ExpireClose_not(c) == Client(c, [cl[c] EXCEPT !.exp = "over"])

ExpireClose(c) == Client(c, [cl[c] EXCEPT !.exp = "over", !.conn = "closed"])

\* expirationPump: the timer, or done.
ExpirePump(c) == cl[c].exp = "waiting" /\ cl[c].expired /\ ExpireClose(c)

ExpirePumpDone(c) == cl[c].exp = "waiting" /\ cl[c].done /\ Client(c, [cl[c] EXCEPT !.exp = "over"])

\* The clock passes the expiry of the token.
TokenExpires(c) ==
    /\ cl[c].expires /\ ~ cl[c].expired
    /\ Client(c, [cl[c] EXCEPT !.expired = TRUE])

PeerGone(c) == cl[c].conn = "open" /\ Client(c, [cl[c] EXCEPT !.conn = "broken"])

Next ==
    \/ FanOut \/ Stop \/ RunReturns
    \/ \E p \in Emitters : Broadcast(p) \/ Enqueue(p)
    \/ \E c \in Clients :
          \/ HandleWS(c) \/ Register(c) \/ WriteMessage(c) \/ WriteFails(c) \/ WriteEnds(c)
          \/ ReadFails(c) \/ Unregister(c) \/ ExpirePump(c) \/ ExpirePumpDone(c)
          \/ TokenExpires(c) \/ PeerGone(c)

Spec == Init /\ [][Next]_vars

\* The goroutines are scheduled, a select takes each of its ready cases in the
\* end, blocked senders are served in turn and time passes.  A write to a live
\* peer need not end, and a peer need not go away.
Fairness ==
    /\ SF_vars(FanOut) /\ WF_vars(RunReturns)
    /\ \A p \in Emitters : SF_vars(Enqueue(p))
    /\ \A c \in Clients :
          /\ SF_vars(Register(c)) /\ SF_vars(Unregister(c)) /\ WF_vars(WriteFails(c)) /\ WF_vars(WriteEnds(c))
          /\ WF_vars(ReadFails(c)) /\ WF_vars(ExpirePump(c)) /\ WF_vars(ExpirePumpDone(c)) /\ WF_vars(TokenExpires(c))

FairSpec == Spec /\ Fairness
---------------------------------------------------------------------------

TypeOK ==
    /\ hub \in {"running", "stopping", "stopped"} /\ panicked \in BOOLEAN
    /\ bcast \in Seq(1 .. MaxMessages) /\ Len(bcast) <= BroadcastCap
    /\ emitter \in [Emitters -> {"idle", "sending"}] /\ sent \in 0 .. MaxMessages /\ fanned \in 0 .. sent
    /\ clients \subseteq Clients
    /\ \A c \in Clients :
          /\ cl[c].send \in Seq(1 .. MaxMessages) /\ Len(cl[c].send) <= SendCap /\ cl[c].got \in Seq(1 .. MaxMessages)
          /\ cl[c].conn \in {"none", "open", "broken", "closed"} /\ cl[c].handler \in {"none", "upgraded", "served"}
          /\ cl[c].read \in {"off", "reading", "unregister", "over"}
          /\ cl[c].write \in {"off", "running", "over"} /\ cl[c].exp \in {"off", "waiting", "over"}

\* The hub closes a client's channel once and never sends on a closed one,
\* whichever of the loop's cases and the read pump ends the client first:
\* either would panic and end the server.
NoPanic == ~ panicked

\* A client's stream has no gap: what was written to it and what waits in its
\* buffer are consecutive broadcasts, up to the last one while it is
\* registered.  A client too slow for this is disconnected rather than left
\* with a hole, and reloads its state when it connects again.
StreamHasNoGap ==
    \A c \in Clients :
        LET s == cl[c].got \o cl[c].send IN
        /\ \A i \in 1 .. Len(cl[c].got) - 1 : s[i + 1] = s[i] + 1
        /\ cl[c].write = "running" => /\ \A i \in 1 .. Len(s) - 1 : s[i + 1] = s[i] + 1
                                      /\ c \in clients /\ s # <<>> => s[Len(s)] = fanned

\* Once a client's token is over, the hub queues nothing more for it.
ExpiredGetsNothingNew ==
    [][\A c \in Clients : cl[c].expired => Len(cl'[c].send) <= Len(cl[c].send)]_vars

\* A broadcast gets through: no client, however slow or stuck, keeps the
\* goroutines that handle agents and alerts waiting.
BroadcastGetsThrough == \A p \in Emitters : []<>(emitter[p] = "idle")

\* A connection that is over leaves nothing behind: its three pumps end and
\* the hub forgets it.
ClosedIsCleaned ==
    \A c \in Clients :
        cl[c].conn \in {"broken", "closed"} /\ cl[c].handler = "served"
            ~> /\ c \notin clients /\ cl[c].conn = "closed"
               /\ cl[c].read = "over" /\ cl[c].write = "over" /\ cl[c].exp = "over"

\* A client whose token expires is disconnected, even one that does not read.
ExpiredIsDisconnected == \A c \in Clients : cl[c].expired /\ cl[c].handler = "served" ~> cl[c].conn = "closed"
=============================================================================
