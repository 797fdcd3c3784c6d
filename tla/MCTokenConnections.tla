------------------------- MODULE MCTokenConnections -------------------------
(***************************************************************************)
(* Small instances of TokenConnections: one token, shared by a WebSocket   *)
(* session and a plain HTTP request or used by one of the two.             *)
(***************************************************************************)
EXTENDS TokenConnectionsGate, TLC

CONSTANTS s1, s2, t1, p1, p2, p3

OneToken    == [s \in Sessions |-> t1]
NeverExpire == [s \in Sessions |-> Never]
ExpireAt1   == [s \in Sessions |-> 1]

\* The goroutines that run messages and pushes are interchangeable.
ProcSymmetry == Permutations(Procs)
=============================================================================
