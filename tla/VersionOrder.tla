---------------------------- MODULE VersionOrder ----------------------------
(***************************************************************************)
(* Compare of internal/version/version.go, asked about three versions at a *)
(* time.                                                                   *)
(***************************************************************************)
EXTENDS SemVer

CONSTANT Strings     \* the version strings

VARIABLES a, b, c,   \* three version strings
          out        \* Compare(a, b), Compare(b, c), Compare(a, c), Compare(b, a)

vars == <<a, b, c, out>>

Init == a \in Strings /\ b \in Strings /\ c \in Strings /\ out = <<>>

Next ==
    /\ out = <<>>
    /\ out' = <<Compare(a, b), Compare(b, c), Compare(a, c), Compare(b, a)>>
    /\ UNCHANGED <<a, b, c>>

Spec == Init /\ [][Next]_vars

\* Precedence as the semantic version standard lists it, each below the next.
Ladder ==
    <<<<Num(2)>>, <<Text(1)>>, <<Text(1), Num(1)>>, <<Text(1), Text(2)>>, <<Text(2)>>,
      <<Text(2), Num(2)>>, <<Text(2), Num(11)>>, <<>>>>

\* Compare (version.go:19) decides any two versions that parse and no other, the two ways round agree, and three
\* versions are never in a circle: "below the minimum" and "at the recommended version" cannot contradict each other.
CompareIsAnOrder ==
    out # <<>> =>
        /\ out[1].ok <=> parse(a).valid /\ parse(b).valid
        /\ out[1].ok = out[4].ok /\ out[1].cmp = - out[4].cmp
        /\ (\A k \in 1 .. 3 : out[k].ok) /\ out[1].cmp <= 0 /\ out[2].cmp <= 0 =>
               out[3].cmp = (IF out[1].cmp = 0 /\ out[2].cmp = 0 THEN 0 ELSE -1)

\* Prereleases (version.go:95) of one release are in the order the standard lists, the release itself last.
PrecedenceIsStandard ==
    out # <<>> /\ a.parts = b.parts /\ out[1].ok =>
        \A i, j \in DOMAIN Ladder :
            a.pre = Ladder[i] /\ b.pre = Ladder[j] => out[1].cmp = (IF i < j THEN -1 ELSE IF i > j THEN 1 ELSE 0)
=============================================================================
