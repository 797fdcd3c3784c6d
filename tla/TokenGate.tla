----------------------------- MODULE TokenGate -----------------------------
(***************************************************************************)
(* What the session manager of internal/opamp/token_connections.go         *)
(* promises to the rest of the server, without its locks, channels and     *)
(* goroutines.                                                             *)
(*                                                                         *)
(* A session is admitted once (Track), leased any number of times while it *)
(* is open (Acquire, Fork), shut (Remove, Disable, Stop), and over once    *)
(* its last lease has ended and somebody releases it.  Closing a token     *)
(* shuts its sessions for good, and is done when all of them are over.     *)
(***************************************************************************)
CONSTANTS Sessions, Tokens, TokenOf,
          Holders    \* who may hold leases

VARIABLES gate,      \* per session: new, open, shut, over
          leases,    \* per session: who holds a lease on it
          closed     \* per token: no, closing, done

gateVars == <<gate, leases, closed>>

SessionsOf(t) == {s \in Sessions : TokenOf[s] = t}
Over(s) == gate[s] = "over" /\ leases[s] = {}

GateTypeOK ==
    /\ gate \in [Sessions -> {"new", "open", "shut", "over"}]
    /\ leases \in [Sessions -> SUBSET Holders]
    /\ closed \in [Tokens -> {"no", "closing", "done"}]

GateInit ==
    /\ gate = [s \in Sessions |-> "new"]
    /\ leases = [s \in Sessions |-> {}]
    /\ closed = [t \in Tokens |-> "no"]

\* Track accepts the session, or refuses it.
Admit(s) ==
    /\ gate[s] = "new" /\ closed[TokenOf[s]] = "no"
    /\ gate' = [gate EXCEPT ![s] = "open"]
    /\ UNCHANGED <<leases, closed>>

Refuse(s) ==
    /\ gate[s] = "new"
    /\ gate' = [gate EXCEPT ![s] = "over"]
    /\ UNCHANGED <<leases, closed>>

Lease(h, s) ==
    /\ gate[s] = "open" /\ h \notin leases[s]
    /\ leases' = [leases EXCEPT ![s] = @ \cup {h}]
    /\ UNCHANGED <<gate, closed>>

EndLeases(H, s) ==
    /\ H # {} /\ H \subseteq leases[s]
    /\ leases' = [leases EXCEPT ![s] = @ \ H]
    /\ UNCHANGED <<gate, closed>>

Shut(s) ==
    /\ gate[s] = "open"
    /\ gate' = [gate EXCEPT ![s] = "shut"]
    /\ UNCHANGED <<leases, closed>>

\* Variant: does not wait for the leases.
Finish_noDrain(s) ==
    /\ gate[s] = "shut"
    /\ gate' = [gate EXCEPT ![s] = "over"]
    /\ UNCHANGED <<leases, closed>>

\* releaseSession, after waitLeases.
Finish(s) ==
    /\ gate[s] = "shut" /\ leases[s] = {}
    /\ gate' = [gate EXCEPT ![s] = "over"]
    /\ UNCHANGED <<leases, closed>>

\* A disable closes one token and the stop closes all.  Track may refuse the
\* session that found its token expired in the same step.
Close(T, refused) ==
    /\ T # {} /\ \A t \in T : closed[t] = "no"
    /\ \A s \in refused : gate[s] = "new" /\ TokenOf[s] \in T
    /\ closed' = [t \in Tokens |-> IF t \in T THEN "closing" ELSE closed[t]]
    /\ gate' = [s \in Sessions |-> IF s \in refused THEN "over"
                                   ELSE IF TokenOf[s] \in T /\ gate[s] = "open" THEN "shut"
                                   ELSE gate[s]]
    /\ UNCHANGED leases

\* Variant: done as soon as no session of the tokens is open.
Closed_early(T) ==
    /\ T # {} /\ \A t \in T : closed[t] = "closing"
    /\ closed' = [t \in Tokens |-> IF t \in T THEN "done" ELSE closed[t]]
    /\ UNCHANGED <<gate, leases>>

\* close(done) of a disable, or of the stop.
Closed(T) ==
    /\ T # {} /\ \A t \in T : closed[t] = "closing"
    /\ \A t \in T : \A s \in SessionsOf(t) : gate[s] = "new" \/ Over(s)
    /\ closed' = [t \in Tokens |-> IF t \in T THEN "done" ELSE closed[t]]
    /\ UNCHANGED <<gate, leases>>

GateNext ==
    \/ \E s \in Sessions : Admit(s) \/ Refuse(s) \/ Shut(s) \/ Finish(s)
    \/ \E s \in Sessions : \/ \E h \in Holders : Lease(h, s)
                           \/ \E H \in SUBSET leases[s] : EndLeases(H, s)
    \/ \E T \in SUBSET Tokens, refused \in {{}} \cup {{s} : s \in Sessions} : Close(T, refused)
    \/ \E T \in SUBSET Tokens : Closed(T)

GateSpec == GateInit /\ [][GateNext]_gateVars
=============================================================================
