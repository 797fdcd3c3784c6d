-------------------------- MODULE KnownGoodRegister --------------------------
(***************************************************************************)
(* What marking a known-good config promises: one compare-and-set of the   *)
(* workload's rollback baseline.                                           *)
(***************************************************************************)
CONSTANTS Configs, NoConfig,
          Unset,     \* the caller names no current baseline
          Requests

VARIABLES pointer,  \* the baseline
          asked     \* the marks that have been asked for and not answered

rvars == <<pointer, asked>>

Mark == [config : Configs, ifCurrent : Configs \cup {NoConfig, Unset}, force : BOOLEAN]
None == [config |-> NoConfig, ifCurrent |-> Unset, force |-> FALSE]

\* The precondition of a mark, of the baseline it finds.
Holds(m, current) ==
    \/ m.force
    \/ m.ifCurrent # Unset /\ m.ifCurrent = current
    \/ m.ifCurrent = Unset /\ current \in {NoConfig, m.config}

RInit == pointer = NoConfig /\ asked = [r \in Requests |-> None]

Ask(r) == asked[r] = None /\ \E m \in Mark : asked' = [asked EXCEPT ![r] = m] /\ UNCHANGED pointer

Succeed(r) ==
    /\ asked[r] # None /\ Holds(asked[r], pointer)
    /\ pointer' = asked[r].config /\ asked' = [asked EXCEPT ![r] = None]

Refuse(r) == asked[r] # None /\ asked' = [asked EXCEPT ![r] = None] /\ UNCHANGED pointer

Clear == pointer' = NoConfig /\ UNCHANGED asked

RNext == Clear \/ \E r \in Requests : Ask(r) \/ Succeed(r) \/ Refuse(r)

RSpec == RInit /\ [][RNext]_rvars
=============================================================================
