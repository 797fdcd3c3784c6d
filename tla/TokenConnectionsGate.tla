------------------------ MODULE TokenConnectionsGate ------------------------
(***************************************************************************)
(* TokenConnections implements TokenGate.                                  *)
(***************************************************************************)
EXTENDS TokenConnectionsInv

\* A session is over when it is released, or was never tracked at all.
GateAt(s) ==
    IF phase[s] = "accepted" THEN "new"
    ELSE IF s \in sessions THEN "open"
    ELSE IF s \in released \/ removals[s] = "none" THEN "over"
    ELSE "shut"

\* The stop closes every token.
ClosedAt(t) ==
    IF disable[t] = "done" \/ stop = "done" THEN "done"
    ELSE IF disable[t] # "none" \/ Stopped THEN "closing"
    ELSE "no"

gateOf == [s \in Sessions |-> GateAt(s)]
closedOf == [t \in Tokens |-> ClosedAt(t)]
leasesOf == [s \in Sessions |-> Readers(s)]

Gate == INSTANCE TokenGate WITH
    Holders <- Workers, gate <- gateOf, closed <- closedOf, leases <- leasesOf

\* The session manager, with its locks, timers and goroutines, behaves like the
\* gate the rest of the server relies on.
ImplementsGate == Gate!GateSpec
=============================================================================
