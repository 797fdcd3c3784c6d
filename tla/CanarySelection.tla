--------------------------- MODULE CanarySelection ---------------------------
(***************************************************************************)
(* How a canary chooses its targets (selectCanaryTargets in                *)
(* internal/api/workload_canary.go).  The instances of the workload are    *)
(* numbered in the order of their uids; fleet[i] says what the server      *)
(* knows of instance i: "ok", "readonly" (does not accept remote config),  *)
(* "degraded", "stale" (no message for two minutes) or "gone" (not         *)
(* connected to this workload).                                            *)
(***************************************************************************)
EXTENDS Naturals, FiniteSets, FiniteSetsExt

connected(fleet) == {i \in DOMAIN fleet : fleet[i] # "gone"}

canaryEligible(fleet) == {i \in DOMAIN fleet : fleet[i] = "ok"}

\* The first n instances of a set.
First(S, n) == {i \in S : Cardinality({j \in S : j < i}) < n}

\* math.Ceil(n * p / 100)
Share(n, p) == (n * p + 99) \div 100

Refused == {}

\* What the strategy names; Refused when the request is rejected.
Selected(fleet, sel) ==
    LET ok == canaryEligible(fleet) n == Cardinality(ok) IN
    CASE sel.strategy = "one" -> sel.uids \cap connected(fleet)
      [] sel.strategy = "count" -> IF sel.number >= n THEN Refused ELSE First(ok, sel.number)
      [] sel.strategy = "percentage" -> IF sel.number >= 100 THEN Refused ELSE First(ok, Share(n, sel.number))
      [] sel.strategy = "label_selector" -> IF sel.number = 1 THEN ok ELSE Refused  \* the labels match, or not
      [] sel.strategy = "instances" -> IF sel.uids \subseteq connected(fleet) THEN sel.uids ELSE Refused

\* Variant: a canary may be the whole fleet.
selectCanaryTargets_all(fleet, sel) ==
    LET S == Selected(fleet, sel) IN IF S \subseteq canaryEligible(fleet) THEN S ELSE Refused

\* The targets, or Refused.
selectCanaryTargets(fleet, sel) ==
    LET S == Selected(fleet, sel) IN
    IF ~ S \subseteq canaryEligible(fleet) \/ Cardinality(S) >= Cardinality(canaryEligible(fleet))
    THEN Refused ELSE S
=============================================================================
