------------------------------- MODULE SemVer -------------------------------
(***************************************************************************)
(* The comparison of collector versions: internal/version/version.go.      *)
(*                                                                         *)
(* A version string is cut at its first "+", then at its first "-", then   *)
(* at the dots: [parts, pre, build] are the pieces before the dash, the    *)
(* pieces after it and whether there was a "+".  A piece is empty, a       *)
(* number, or a text; texts are ordered as strings are, so a natural       *)
(* number stands for each.  A number too large for an int is a text.       *)
(***************************************************************************)
EXTENDS Integers, Sequences

Num(n) == [kind |-> "number", val |-> n]
Text(n) == [kind |-> "text", val |-> n]
Empty == [kind |-> "empty", val |-> 0]

Piece == [kind : {"number", "text"}, val : Nat]

Invalid == [valid |-> FALSE]
semver == [valid : {TRUE}, major : Nat, minor : Nat, patch : Nat, pre : Seq(Piece)]

\* A dash with nothing after it is no prerelease.
parse(s) ==
    LET pre == IF s.pre = <<Empty>> THEN <<>> ELSE s.pre IN
    IF \/ Len(s.parts) # 3
       \/ \E i \in DOMAIN s.parts : s.parts[i].kind # "number"
       \/ \E i \in DOMAIN pre : pre[i].kind = "empty"
    THEN Invalid
    ELSE [valid |-> TRUE, major |-> s.parts[1].val, minor |-> s.parts[2].val, patch |-> s.parts[3].val, pre |-> pre]

sign(n) == IF n < 0 THEN -1 ELSE IF n > 0 THEN 1 ELSE 0

\* Variant: a number and a text are left undecided.
compareIdentifier_kind(x, y) == IF x.kind = y.kind THEN sign(x.val - y.val) ELSE 0

\* One turn of the loop: 0 goes on to the next identifier.
compareIdentifier(x, y) ==
    IF x.kind = y.kind THEN sign(x.val - y.val) ELSE IF x.kind = "number" THEN -1 ELSE 1

\* The loop returns at position i.
Decides(a, b, i) ==
    /\ i \in 1 .. Len(a) /\ i \in 1 .. Len(b)
    /\ compareIdentifier(a[i], b[i]) # 0
    /\ \A j \in 1 .. i - 1 : compareIdentifier(a[j], b[j]) = 0

\* Variant: the first identifier decides.
comparePrerelease_first(a, b) ==
    CASE a = <<>> /\ b = <<>> -> 0
      [] a = <<>> /\ b # <<>> -> 1
      [] a # <<>> /\ b = <<>> -> -1
      [] OTHER -> compareIdentifier(a[1], b[1])

comparePrerelease(a, b) ==
    CASE a = <<>> /\ b = <<>> -> 0
      [] a = <<>> /\ b # <<>> -> 1
      [] a # <<>> /\ b = <<>> -> -1
      [] a # <<>> /\ b # <<>> ->
            IF \E i \in 1 .. Len(a) : Decides(a, b, i)
            THEN LET i == CHOOSE i \in 1 .. Len(a) : Decides(a, b, i) IN compareIdentifier(a[i], b[i])
            ELSE sign(Len(a) - Len(b))

CompareParsed(a, b) ==
    IF a.major # b.major THEN sign(a.major - b.major)
    ELSE IF a.minor # b.minor THEN sign(a.minor - b.minor)
    ELSE IF a.patch # b.patch THEN sign(a.patch - b.patch)
    ELSE comparePrerelease(a.pre, b.pre)

Compare(a, b) ==
    IF parse(a).valid /\ parse(b).valid THEN [cmp |-> CompareParsed(parse(a), parse(b)), ok |-> TRUE]
    ELSE [cmp |-> 0, ok |-> FALSE]
=============================================================================
