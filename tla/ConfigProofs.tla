----------------------------- MODULE ConfigProofs -----------------------------
(***************************************************************************)
(* The known-good config of a workload, for any configs and any number of  *)
(* concurrent requests; the order of collector versions, for any versions; *)
(* the history row of a push, for any instances and messages; and what the *)
(* plan, the preview and the push say of a draft, for any of them.         *)
(***************************************************************************)
EXTENDS KnownGood, SemVer, WellFoundedInduction, TLAPS

---------------------------------------------------------------------------
(* Where nobody clears the pointer, marking a known-good config is one
   compare-and-set. *)

\* A request about to write has read a pointer that satisfies its precondition,
\* and has read none if there is still none.
WriterInv ==
    \A r \in Requests : req[r].at = "write" =>
        /\ ~ preconditionConflicts(req[r].replaced, req[r].config, req[r].ifCurrent, req[r].force)
        /\ kg.config = NoConfig => req[r].replaced = NoConfig

\* What the requests are doing, without the clears.
PhaseInv ==
    \A r \in Requests :
        /\ req[r].at # "clear"
        /\ req[r].at # "idle" => req[r].config \in Configs

KGInv == TypeOK /\ PhaseInv /\ WriterInv

Busy == {"begin", "read", "write"}

\* The initial state satisfies the invariant.
LEMMA KGInit == Init => KGInv
<1> SUFFICES ASSUME Init PROVE KGInv OBVIOUS
<1>1. \A r \in Requests : req[r].at = "idle" BY Zenon DEF Init, Idle
<1>2. PhaseInv /\ WriterInv BY <1>1, Zenon DEF PhaseInv, WriterInv
<1>3. TypeOK BY KnownGoodAssumption, Zenon DEF Init, TypeOK, Idle
<1> QED BY <1>2, <1>3, Zenon DEF KGInv

\* Every step of the handlers keeps the types of the row and of the requests.
LEMMA KGType == TypeOK /\ [Next]_vars => TypeOK'
<1> SUFFICES ASSUME TypeOK, [Next]_vars PROVE TypeOK' OBVIOUS
<1> USE KnownGoodAssumption
<1>1. CASE UNCHANGED vars BY <1>1, Zenon DEF TypeOK, vars
<1>2. CASE ArchiveOrReturn BY <1>2, Zenon DEF TypeOK, ArchiveOrReturn
<1>3. ASSUME NEW c \in Configs, HistoryChanges(c) PROVE TypeOK'
  BY <1>3, Zenon DEF TypeOK, HistoryChanges
<1>4. ASSUME NEW r \in Requests, ReadHistory(r) PROVE TypeOK'
  BY <1>4 DEF TypeOK, ReadHistory, Step, Idle
<1>5. ASSUME NEW r \in Requests, ReadPointer(r) PROVE TypeOK'
  <2>1. CASE req' = [req EXCEPT ![r] = Idle] BY <1>5, <2>1, Zenon DEF TypeOK, ReadPointer, Idle
  <2>2. CASE req' = [req EXCEPT ![r] = [req[r] EXCEPT !.at = "write", !.replaced = kg.config]]
    <3> DEFINE q == [req[r] EXCEPT !.at = "write", !.replaced = kg.config]
    <3>1. q \in [at : {"idle", "begin", "read", "write", "clear"}, config : Configs \cup {NoConfig},
                 ifCurrent : Configs \cup {NoConfig, Unset}, force : BOOLEAN,
                 replaced : Configs \cup {NoConfig}]
      BY Zenon DEF TypeOK
    <3> HIDE DEF q
    <3> QED BY <1>5, <2>2, <3>1, Zenon DEF TypeOK, ReadPointer, q
  <2> QED BY <1>5, <2>1, <2>2, Zenon DEF ReadPointer, Step
<1>6. ASSUME NEW r \in Requests, SetWorkloadKnownGood(r) PROVE TypeOK'
  BY <1>6, Zenon DEF TypeOK, SetWorkloadKnownGood, Step, Idle
<1>7. ASSUME NEW r \in Requests, handleClearWorkloadKnownGood(r) PROVE TypeOK'
  BY <1>7, Zenon DEF TypeOK, handleClearWorkloadKnownGood, Step, Idle
<1>8. ASSUME NEW r \in Requests, ClearWorkloadKnownGood(r) PROVE TypeOK'
  BY <1>8, Zenon DEF TypeOK, ClearWorkloadKnownGood, Step, Idle
<1>9. ASSUME NEW r \in Requests, NEW c \in Configs, NEW cur \in Configs \cup {NoConfig, Unset},
             NEW force \in BOOLEAN, handleMarkWorkloadConfigKnownGood(r, c, cur, force)
      PROVE TypeOK'
  BY <1>9, Zenon DEF TypeOK, handleMarkWorkloadConfigKnownGood, Step, Idle
<1> QED BY <1>1, <1>2, <1>3, <1>4, <1>5, <1>6, <1>7, <1>8, <1>9, Zenon DEF Next

\* The invariant is inductive: only a clear could take the pointer away from
\* under a request that has read it.
LEMMA KGStep == ASSUME MayClear = FALSE PROVE KGInv /\ [Next]_vars => KGInv'
<1> SUFFICES ASSUME KGInv, [Next]_vars PROVE PhaseInv' /\ WriterInv'
  BY KGType, Zenon DEF KGInv
<1> USE KnownGoodAssumption
<1>1. CASE UNCHANGED vars BY <1>1, Zenon DEF KGInv, PhaseInv, WriterInv, vars, preconditionConflicts
<1>2. CASE ArchiveOrReturn BY <1>2, Zenon DEF KGInv, PhaseInv, WriterInv, ArchiveOrReturn, preconditionConflicts
<1>3. ASSUME NEW c \in Configs, HistoryChanges(c) PROVE PhaseInv' /\ WriterInv'
  BY <1>3, Zenon DEF KGInv, PhaseInv, WriterInv, HistoryChanges, preconditionConflicts
<1>4. ASSUME NEW r \in Requests, ReadHistory(r) PROVE PhaseInv' /\ WriterInv'
  BY <1>4 DEF KGInv, TypeOK, PhaseInv, WriterInv, ReadHistory, Step, Idle, preconditionConflicts
<1>5. ASSUME NEW r \in Requests, ReadPointer(r) PROVE PhaseInv' /\ WriterInv'
  BY <1>5 DEF KGInv, TypeOK, PhaseInv, WriterInv, ReadPointer, Step, Idle, preconditionConflicts
<1>6. ASSUME NEW r \in Requests, SetWorkloadKnownGood(r) PROVE PhaseInv' /\ WriterInv'
  BY <1>6, Zenon DEF KGInv, TypeOK, PhaseInv, WriterInv, SetWorkloadKnownGood, Step, Idle, preconditionConflicts
<1>7. ASSUME NEW r \in Requests, handleClearWorkloadKnownGood(r) PROVE FALSE
  BY <1>7, Zenon DEF handleClearWorkloadKnownGood
<1>8. ASSUME NEW r \in Requests, ClearWorkloadKnownGood(r) PROVE FALSE
  BY <1>8, Zenon DEF ClearWorkloadKnownGood, Step, KGInv, PhaseInv
<1>9. ASSUME NEW r \in Requests, NEW c \in Configs, NEW cur \in Configs \cup {NoConfig, Unset},
             NEW force \in BOOLEAN, handleMarkWorkloadConfigKnownGood(r, c, cur, force)
      PROVE PhaseInv' /\ WriterInv'
  BY <1>9, Zenon DEF KGInv, TypeOK, PhaseInv, WriterInv, handleMarkWorkloadConfigKnownGood, Step, Idle,
     preconditionConflicts
<1> QED BY <1>1, <1>2, <1>3, <1>4, <1>5, <1>6, <1>7, <1>8, <1>9, Zenon DEF Next

\* A request that leaves its phase changes what the register sees of it and
\* of nothing else.
LEMMA AskedStep ==
  ASSUME TypeOK, NEW r \in Requests, NEW new, req' = [req EXCEPT ![r] = new]
  PROVE  Asked' = [Asked EXCEPT ![r] =
            IF new.at \in Busy THEN [config |-> new.config, ifCurrent |-> new.ifCurrent, force |-> new.force]
            ELSE R!None]
  BY Zenon DEF TypeOK, Asked, Busy, R!None

\* A request that ends is no longer asked for.
LEMMA AskedEnds ==
  ASSUME TypeOK, NEW r \in Requests, req' = [req EXCEPT ![r] = Idle]
  PROVE  Asked' = [Asked EXCEPT ![r] = R!None]
<1>1. Idle.at \notin Busy BY Zenon DEF Idle, Busy
<1> QED BY <1>1, AskedStep, Zenon

\* Every step of the handlers is a step of the register or leaves it alone: the
\* upsert succeeds only for a mark whose precondition holds of the pointer it
\* overwrites.
LEMMA KGRefines == ASSUME MayClear = FALSE PROVE KGInv /\ [Next]_vars => [R!RNext]_(R!rvars)
<1> SUFFICES ASSUME KGInv, [Next]_vars PROVE R!RNext \/ UNCHANGED <<kg.config, Asked>>
  BY Zenon DEF R!rvars
<1> USE KnownGoodAssumption
<1>0. TypeOK BY Zenon DEF KGInv
<1>1. CASE UNCHANGED vars BY <1>1, Zenon DEF vars, Asked
<1>2. CASE ArchiveOrReturn BY <1>2, Zenon DEF ArchiveOrReturn, Asked
<1>3. ASSUME NEW c \in Configs, HistoryChanges(c) PROVE UNCHANGED <<kg.config, Asked>>
  BY <1>3, Zenon DEF HistoryChanges, Asked
<1>4. ASSUME NEW r \in Requests, ReadHistory(r) PROVE R!RNext \/ UNCHANGED <<kg.config, Asked>>
  <2>1. CASE req' = [req EXCEPT ![r] = Idle]
    <3>1. Asked' = [Asked EXCEPT ![r] = R!None] BY <1>0, <2>1, AskedEnds, Zenon
    <3>2. Asked[r] # R!None BY <1>4, Zenon DEF KGInv, PhaseInv, ReadHistory, Step, Asked, R!None
    <3> QED BY <3>1, <3>2, <1>4, Zenon DEF ReadHistory, R!Refuse, R!RNext
  <2>2. CASE req' = [req EXCEPT ![r] = [req[r] EXCEPT !.at = "read"]]
    BY <1>0, <1>4, <2>2 DEF ReadHistory, Step, TypeOK, Asked
  <2> QED BY <1>4, <2>1, <2>2, Zenon DEF ReadHistory, Step
<1>5. ASSUME NEW r \in Requests, ReadPointer(r) PROVE R!RNext \/ UNCHANGED <<kg.config, Asked>>
  <2>1. CASE req' = [req EXCEPT ![r] = Idle]
    <3>1. Asked' = [Asked EXCEPT ![r] = R!None] BY <1>0, <2>1, AskedEnds, Zenon
    <3>2. Asked[r] # R!None BY <1>5, Zenon DEF KGInv, PhaseInv, ReadPointer, Step, Asked, R!None
    <3> QED BY <3>1, <3>2, <1>5, Zenon DEF ReadPointer, R!Refuse, R!RNext
  <2>2. CASE req' = [req EXCEPT ![r] = [req[r] EXCEPT !.at = "write", !.replaced = kg.config]]
    <3> DEFINE q == [req[r] EXCEPT !.at = "write", !.replaced = kg.config]
    <3>1. /\ q.at = "write" /\ q.config = req[r].config
          /\ q.ifCurrent = req[r].ifCurrent /\ q.force = req[r].force
      BY <1>0 DEF TypeOK
    <3>2. req[r].at = "read" /\ kg' = kg BY <1>5, Zenon DEF ReadPointer, Step
    <3>3. \A s \in Requests \ {r} : req'[s] = req[s] BY <1>0, <2>2, Zenon DEF TypeOK
    <3>4. req'[r] = q BY <1>0, <2>2, Zenon DEF TypeOK
    <3> HIDE DEF q
    <3> QED BY <3>1, <3>2, <3>3, <3>4, Zenon DEF Asked
  <2> QED BY <1>5, <2>1, <2>2, Zenon DEF ReadPointer, Step
<1>6. ASSUME NEW r \in Requests, SetWorkloadKnownGood(r) PROVE R!RNext
  <2>1. req[r].at = "write" /\ req' = [req EXCEPT ![r] = Idle] BY <1>6, Zenon DEF SetWorkloadKnownGood, Step
  <2>2. Asked' = [Asked EXCEPT ![r] = R!None] BY <1>0, <2>1, AskedEnds, Zenon
  <2>3. /\ Asked[r] = [config |-> req[r].config, ifCurrent |-> req[r].ifCurrent, force |-> req[r].force]
        /\ Asked[r] # R!None
    BY <2>1, Zenon DEF KGInv, PhaseInv, Asked, R!None
  <2>4. CASE kg.config = NoConfig
    <3>1. R!Holds(Asked[r], kg.config)
      BY <2>1, <2>3, <2>4 DEF KGInv, WriterInv, preconditionConflicts, R!Holds
    <3>2. kg'.config = Asked[r].config BY <1>6, <2>3, <2>4 DEF SetWorkloadKnownGood
    <3> QED BY <2>2, <2>3, <3>1, <3>2, Zenon DEF R!Succeed, R!RNext
  <2>5. CASE kg.config # NoConfig /\ (req[r].force \/ kg.config = req[r].ifCurrent)
    <3>1. kg.config # Unset BY <1>0, Zenon DEF TypeOK
    <3>2. R!Holds(Asked[r], kg.config) BY <2>3, <2>5, <3>1 DEF R!Holds
    <3>3. kg'.config = Asked[r].config BY <1>6, <2>3, <2>5 DEF SetWorkloadKnownGood, MayUpdate
    <3> QED BY <2>2, <2>3, <3>2, <3>3, Zenon DEF R!Succeed, R!RNext
  <2>6. CASE kg.config # NoConfig /\ ~ (req[r].force \/ kg.config = req[r].ifCurrent)
    <3>1. kg'.config = kg.config BY <1>6, <2>6, Zenon DEF SetWorkloadKnownGood, MayUpdate
    <3> QED BY <2>2, <2>3, <3>1, Zenon DEF R!Refuse, R!RNext
  <2> QED BY <2>4, <2>5, <2>6, Zenon
<1>7. ASSUME NEW r \in Requests, handleClearWorkloadKnownGood(r) PROVE FALSE
  BY <1>7, Zenon DEF handleClearWorkloadKnownGood
<1>8. ASSUME NEW r \in Requests, ClearWorkloadKnownGood(r) PROVE FALSE
  BY <1>8, Zenon DEF ClearWorkloadKnownGood, Step, KGInv, PhaseInv
<1>9. ASSUME NEW r \in Requests, NEW c \in Configs, NEW cur \in Configs \cup {NoConfig, Unset},
             NEW force \in BOOLEAN, handleMarkWorkloadConfigKnownGood(r, c, cur, force)
      PROVE R!RNext
  <2> DEFINE m == [config |-> c, ifCurrent |-> cur, force |-> force]
  <2>1. Asked[r] = R!None
    BY <1>9, Zenon DEF handleMarkWorkloadConfigKnownGood, Step, Asked, R!None
  <2>2. Asked' = [Asked EXCEPT ![r] = m]
    BY <1>0, <1>9, Zenon DEF handleMarkWorkloadConfigKnownGood, Step, TypeOK, Asked, Idle
  <2>3. m \in R!Mark BY Zenon DEF R!Mark
  <2> QED BY <1>9, <2>1, <2>2, <2>3, Zenon DEF handleMarkWorkloadConfigKnownGood, R!Ask, R!RNext
<1> QED BY <1>1, <1>2, <1>3, <1>4, <1>5, <1>6, <1>7, <1>8, <1>9, Zenon DEF Next

\* Without clears, handleMarkWorkloadConfigKnownGood and its transaction are one
\* compare-and-set of the workload's baseline.
THEOREM MarkIsCompareAndSet == ASSUME MayClear = FALSE PROVE Spec => CompareAndSet
<1>1. Init => R!RInit
  BY DEF Init, R!RInit, Asked, R!None, Idle
<1>2. KGInv /\ [Next]_vars => KGInv' BY KGStep, Zenon
<1>3. KGInv /\ [Next]_vars => [R!RNext]_(R!rvars) BY KGRefines, Zenon
<1> QED BY KGInit, <1>1, <1>2, <1>3, PTL DEF Spec, CompareAndSet, R!RSpec

\* A request about to write has read a pointer that satisfies its precondition,
\* whether or not the pointer is cleared meanwhile.
ReaderInv ==
    \A r \in Requests : req[r].at = "write" =>
        ~ preconditionConflicts(req[r].replaced, req[r].config, req[r].ifCurrent, req[r].force)

\* Only ReadPointer brings a request to its write.
LEMMA ReaderStep == TypeOK /\ ReaderInv /\ [Next]_vars => ReaderInv'
<1> SUFFICES ASSUME TypeOK, ReaderInv, [Next]_vars PROVE ReaderInv' OBVIOUS
<1> USE KnownGoodAssumption
<1>1. CASE UNCHANGED vars BY <1>1, Zenon DEF ReaderInv, vars, preconditionConflicts
<1>2. CASE ArchiveOrReturn BY <1>2, Zenon DEF ReaderInv, ArchiveOrReturn, preconditionConflicts
<1>3. ASSUME NEW c \in Configs, HistoryChanges(c) PROVE ReaderInv'
  BY <1>3, Zenon DEF ReaderInv, HistoryChanges, preconditionConflicts
<1>4. ASSUME NEW r \in Requests, ReadHistory(r) PROVE ReaderInv'
  BY <1>4 DEF TypeOK, ReaderInv, ReadHistory, Step, Idle, preconditionConflicts
<1>5. ASSUME NEW r \in Requests, ReadPointer(r) PROVE ReaderInv'
  BY <1>5 DEF TypeOK, ReaderInv, ReadPointer, Step, Idle, preconditionConflicts
<1>6. ASSUME NEW r \in Requests, SetWorkloadKnownGood(r) \/ handleClearWorkloadKnownGood(r) \/ ClearWorkloadKnownGood(r)
      PROVE  ReaderInv'
  BY <1>6 DEF TypeOK, ReaderInv, SetWorkloadKnownGood, handleClearWorkloadKnownGood, ClearWorkloadKnownGood, Step, Idle,
     preconditionConflicts
<1>7. ASSUME NEW r \in Requests, NEW c \in Configs, NEW cur \in Configs \cup {NoConfig, Unset},
             NEW force \in BOOLEAN, handleMarkWorkloadConfigKnownGood(r, c, cur, force)
      PROVE  ReaderInv'
  BY <1>7 DEF TypeOK, ReaderInv, handleMarkWorkloadConfigKnownGood, Step, Idle, preconditionConflicts
<1> QED BY <1>1, <1>2, <1>3, <1>4, <1>5, <1>6, <1>7, Zenon DEF Next

\* The WHERE of the upsert lets an unforced mark move a pointer only from the
\* config that the caller names, which is the one the request has read.
LEMMA WriteIsTruthful ==
    ASSUME TypeOK, ReaderInv, NEW r \in Requests, SetWorkloadKnownGood(r), ~ req[r].force,
           kg.config # NoConfig, kg'.config # kg.config
    PROVE  kg'.replaced = kg.config
<1>1. kg' = [config |-> req[r].config, replaced |-> req[r].replaced] /\ MayUpdate(req[r])
  BY Zenon DEF SetWorkloadKnownGood
<1>2. kg'.config = req[r].config /\ kg'.replaced = req[r].replaced
  BY <1>1
<1>3. kg.config = req[r].ifCurrent
  BY <1>1, <1>2, Zenon DEF MayUpdate
<1>4. kg.config # Unset
  BY KnownGoodAssumption DEF TypeOK
<1>5. ~ preconditionConflicts(req[r].replaced, req[r].config, req[r].ifCurrent, req[r].force)
  BY Zenon DEF ReaderInv, SetWorkloadKnownGood, Step
<1> QED BY <1>2, <1>3, <1>4, <1>5, Zenon DEF preconditionConflicts

\* An unforced mark that moves the baseline (SetWorkloadKnownGood) records the
\* config it replaced, also while the baseline is marked and cleared by others
\* between its two statements.
THEOREM ReplacedIsTruthfulAlways == Spec => ReplacedIsTruthful
<1>1. Init => TypeOK /\ ReaderInv
  BY KGInit, Zenon DEF KGInv, WriterInv, ReaderInv
<1>2. TypeOK /\ ReaderInv /\ [Next]_vars => TypeOK' /\ ReaderInv'
  BY KGType, ReaderStep, Zenon
<1>3. TypeOK /\ ReaderInv /\ [Next]_vars => [\A r \in Requests : ReplacesTruthfully(r)]_vars
  <2> SUFFICES ASSUME TypeOK, ReaderInv, Next, NEW r \in Requests, req[r].at = "write", req'[r].at = "idle",
                      ~ req[r].force, kg.config # NoConfig, kg'.config # kg.config
               PROVE  kg'.replaced = kg.config
    BY Zenon DEF ReplacesTruthfully
  <2>1. PICK s \in Requests : SetWorkloadKnownGood(s) \/ ClearWorkloadKnownGood(s)
    <3>1. kg' # kg
      BY Zenon
    <3> QED BY <3>1, Zenon DEF Next, ArchiveOrReturn, HistoryChanges, ReadHistory, ReadPointer,
         handleClearWorkloadKnownGood, handleMarkWorkloadConfigKnownGood
  <2>2. s = r
    <3>1. req'[r] # req[r]
      BY Zenon
    <3> QED BY <2>1, <3>1, Zenon DEF SetWorkloadKnownGood, ClearWorkloadKnownGood, Step, TypeOK
  <2>3. SetWorkloadKnownGood(r)
    BY <2>1, <2>2 DEF ClearWorkloadKnownGood, Step
  <2> QED BY <2>3, WriteIsTruthful, Zenon
<1> QED BY <1>1, <1>2, <1>3, PTL DEF Spec, ReplacedIsTruthful

---------------------------------------------------------------------------
(* Compare orders the versions that parse: it is antisymmetric and
   transitive, so a rollout target, an alert threshold and a fleet report read
   off it never contradict each other. *)

\* Two identifiers compared the other way round give the opposite sign.
LEMMA IdentifierOpposite ==
    ASSUME NEW x \in Piece, NEW y \in Piece
    PROVE  /\ compareIdentifier(x, y) \in {-1, 0, 1}
           /\ compareIdentifier(y, x) = - compareIdentifier(x, y)
BY SMT, Zenon DEF compareIdentifier, sign, Piece

\* The loop stops at one position at most.
LEMMA DecidesOnce ==
    ASSUME NEW a \in Seq(Piece), NEW b \in Seq(Piece), NEW i \in Nat, NEW k \in Nat,
           Decides(a, b, i), Decides(a, b, k)
    PROVE  i = k
BY SMT, Zenon DEF Decides

\* Where the loop stops for (a, b) it stops for (b, a).
LEMMA DecidesOpposite ==
    ASSUME NEW a \in Seq(Piece), NEW b \in Seq(Piece), NEW i \in Nat
    PROVE  Decides(a, b, i) <=> Decides(b, a, i)
<1>1. \A j \in 1 .. Len(a) : a[j] \in Piece
  OBVIOUS
<1>2. \A j \in 1 .. Len(b) : b[j] \in Piece
  OBVIOUS
<1>3. \A j \in Nat : j \in 1 .. Len(a) /\ j \in 1 .. Len(b)
                       => (compareIdentifier(a[j], b[j]) = 0 <=> compareIdentifier(b[j], a[j]) = 0)
  BY <1>1, <1>2, IdentifierOpposite
<1>. QED
  BY <1>3, SMTT(30) DEF Decides

\* If the loop stops nowhere, the identifiers at every common position are equal.
LEMMA DecidesSomewhere ==
    ASSUME NEW a \in Seq(Piece), NEW b \in Seq(Piece),
           NEW k \in Nat, k \in 1 .. Len(a), k \in 1 .. Len(b), compareIdentifier(a[k], b[k]) # 0
    PROVE  \E i \in 1 .. k : Decides(a, b, i)
<1>. DEFINE D == {i \in 1 .. k : compareIdentifier(a[i], b[i]) # 0}
<1>1. D \in SUBSET Nat /\ D # {}
  OBVIOUS
<1>. DEFINE Less == OpToRel(<, Nat)
<1>a. \E i \in D : \A m \in D : <<m, i>> \notin Less
  <2>1. IsWellFoundedOn(Less, Nat)
    BY NatLessThanWellFounded, Zenon
  <2>. HIDE DEF D, Less
  <2>. QED
    BY <1>1, <2>1, WFMin, Zenon
<1>b. \A m, i \in Nat : m < i => <<m, i>> \in Less
  BY Zenon DEF OpToRel
<1>2. PICK i \in D : \A m \in D : i <= m
  <2>. HIDE DEF D, Less
  <2>1. PICK i \in D : \A m \in D : <<m, i>> \notin Less
    BY <1>a, Zenon
  <2>2. ASSUME NEW m \in D PROVE i <= m
    <3>1. i \in Nat /\ m \in Nat
      BY <1>1, Zenon
    <3>2. ~ (m < i)
      BY <2>1, <1>b, <3>1, Zenon
    <3>. QED
      BY <3>1, <3>2
  <2>. QED
    BY <2>2, Zenon
<1>3. i \in 1 .. k /\ compareIdentifier(a[i], b[i]) # 0
  BY <1>2, Zenon
<1>4. \A j \in 1 .. i - 1 : compareIdentifier(a[j], b[j]) = 0
  BY <1>2, <1>3
<1>. QED
  BY <1>3, <1>4 DEF Decides

\* Prereleases compared the other way round give the opposite sign.
LEMMA PrereleaseOpposite ==
    ASSUME NEW a \in Seq(Piece), NEW b \in Seq(Piece)
    PROVE  comparePrerelease(b, a) = - comparePrerelease(a, b)
<1>1. CASE a = <<>> \/ b = <<>>
  BY <1>1 DEF comparePrerelease
<1>2. CASE a # <<>> /\ b # <<>> /\ \E i \in 1 .. Len(a) : Decides(a, b, i)
  <2>1. PICK i \in 1 .. Len(a) : Decides(a, b, i)
    BY <1>2, Zenon
  <2>2. i \in 1 .. Len(b) /\ Decides(b, a, i)
    BY <2>1, DecidesOpposite DEF Decides
  <2>3. (CHOOSE k \in 1 .. Len(a) : Decides(a, b, k)) = i
    BY <2>1, DecidesOnce
  <2>4. (CHOOSE k \in 1 .. Len(b) : Decides(b, a, k)) = i
    BY <2>2, DecidesOnce
  <2>5. comparePrerelease(a, b) = compareIdentifier(a[i], b[i])
    BY <1>2, <2>3, Zenon DEF comparePrerelease
  <2>6. comparePrerelease(b, a) = compareIdentifier(b[i], a[i])
    BY <1>2, <2>2, <2>4, Zenon DEF comparePrerelease
  <2>7. a[i] \in Piece /\ b[i] \in Piece
    BY <2>1, <2>2
  <2>. QED
    BY <2>5, <2>6, <2>7, IdentifierOpposite, Zenon
<1>3. CASE a # <<>> /\ b # <<>> /\ ~ \E i \in 1 .. Len(a) : Decides(a, b, i)
  <2>1. ~ \E i \in 1 .. Len(b) : Decides(b, a, i)
    BY <1>3, DecidesOpposite DEF Decides
  <2>2. comparePrerelease(a, b) = sign(Len(a) - Len(b)) /\ comparePrerelease(b, a) = sign(Len(b) - Len(a))
    BY <1>3, <2>1, Zenon DEF comparePrerelease
  <2>. QED
    BY <2>2 DEF sign
<1>. QED
  BY <1>1, <1>2, <1>3, Zenon

\* Identifiers are ordered, and strictly so as soon as one of the two steps is strict.
LEMMA IdentifierTransitive ==
    ASSUME NEW x \in Piece, NEW y \in Piece, NEW z \in Piece,
           compareIdentifier(x, y) <= 0, compareIdentifier(y, z) <= 0
    PROVE  /\ compareIdentifier(x, z) <= 0
           /\ compareIdentifier(x, z) = 0 <=> compareIdentifier(x, y) = 0 /\ compareIdentifier(y, z) = 0
BY SMT, Zenon DEF compareIdentifier, sign, Piece

\* What "at most" means for two prereleases: the identifier where they part is the smaller one, or they do not part.
LEMMA PrereleaseAtMost ==
    ASSUME NEW a \in Seq(Piece), NEW b \in Seq(Piece), a # <<>>, b # <<>>
    PROVE  comparePrerelease(a, b) <= 0 <=>
               \/ \E i \in Nat : Decides(a, b, i) /\ compareIdentifier(a[i], b[i]) <= 0
               \/ /\ \A i \in 1 .. Len(a) : i <= Len(b) => compareIdentifier(a[i], b[i]) = 0
                  /\ Len(a) <= Len(b)
<1>1. CASE \E i \in 1 .. Len(a) : Decides(a, b, i)
  <2>1. PICK i \in 1 .. Len(a) : Decides(a, b, i)
    BY <1>1, Zenon
  <2>2. (CHOOSE k \in 1 .. Len(a) : Decides(a, b, k)) = i
    BY <2>1, DecidesOnce
  <2>3. comparePrerelease(a, b) = compareIdentifier(a[i], b[i])
    BY <1>1, <2>2, Zenon DEF comparePrerelease
  <2>4. \A k \in Nat : Decides(a, b, k) => k = i
    BY <2>1, DecidesOnce
  <2>5. i <= Len(b) /\ compareIdentifier(a[i], b[i]) # 0
    BY <2>1 DEF Decides
  <2>. QED
    BY <2>1, <2>3, <2>4, <2>5
<1>2. CASE ~ \E i \in 1 .. Len(a) : Decides(a, b, i)
  <2>1. comparePrerelease(a, b) = sign(Len(a) - Len(b))
    BY <1>2, Zenon DEF comparePrerelease
  <2>2. \A i \in 1 .. Len(a) : i <= Len(b) => compareIdentifier(a[i], b[i]) = 0
    <3>1. SUFFICES ASSUME NEW i \in 1 .. Len(a), i <= Len(b), compareIdentifier(a[i], b[i]) # 0 PROVE FALSE
      OBVIOUS
    <3>2. i \in Nat /\ i \in 1 .. Len(b)
      BY <3>1
    <3>3. \E k \in 1 .. i : Decides(a, b, k)
      BY <3>1, <3>2, DecidesSomewhere, Zenon
    <3>. QED
      BY <3>1, <3>3, <1>2
  <2>3. \A i \in Nat : ~ Decides(a, b, i)
    BY <1>2, Zenon DEF Decides
  <2>4. sign(Len(a) - Len(b)) <= 0 <=> Len(a) <= Len(b)
    BY DEF sign
  <2>. QED
    BY <2>1, <2>2, <2>3, <2>4, Zenon
<1>. QED
  BY <1>1, <1>2, Zenon

\* Prereleases are ordered.
LEMMA PrereleaseTransitive ==
    ASSUME NEW a \in Seq(Piece), NEW b \in Seq(Piece), NEW c \in Seq(Piece),
           comparePrerelease(a, b) <= 0, comparePrerelease(b, c) <= 0
    PROVE  comparePrerelease(a, c) <= 0
<1>. DEFINE Common(m) == m \in Nat /\ m \in 1 .. Len(a) /\ m \in 1 .. Len(b) /\ m \in 1 .. Len(c)
            ab(m) == compareIdentifier(a[m], b[m])
            bc(m) == compareIdentifier(b[m], c[m])
            ac(m) == compareIdentifier(a[m], c[m])
            Equal(x, y) == \A m \in 1 .. Len(x) : m <= Len(y) => compareIdentifier(x[m], y[m]) = 0
<1>1. CASE a = <<>> \/ b = <<>> \/ c = <<>>
  BY <1>1 DEF comparePrerelease
<1>2. CASE a # <<>> /\ b # <<>> /\ c # <<>>
  <2>1. \A m : Common(m) /\ ab(m) <= 0 /\ bc(m) <= 0 => ac(m) <= 0 /\ (ac(m) = 0 <=> ab(m) = 0 /\ bc(m) = 0)
    <3>1. SUFFICES ASSUME NEW m, Common(m), ab(m) <= 0, bc(m) <= 0
                   PROVE  ac(m) <= 0 /\ (ac(m) = 0 <=> ab(m) = 0 /\ bc(m) = 0)
      OBVIOUS
    <3>2. a[m] \in Piece /\ b[m] \in Piece /\ c[m] \in Piece
      BY <3>1
    <3>. QED
      BY <3>1, <3>2, IdentifierTransitive
  <2>2. \/ \E i \in Nat : Decides(a, b, i) /\ ab(i) <= 0
        \/ Equal(a, b) /\ Len(a) <= Len(b)
    BY <1>2, PrereleaseAtMost, Zenon
  <2>3. \/ \E j \in Nat : Decides(b, c, j) /\ bc(j) <= 0
        \/ Equal(b, c) /\ Len(b) <= Len(c)
    BY <1>2, PrereleaseAtMost, Zenon
  <2>4. SUFFICES \/ \E k \in Nat : Decides(a, c, k) /\ ac(k) <= 0
                 \/ Equal(a, c) /\ Len(a) <= Len(c)
    BY <1>2, PrereleaseAtMost, Zenon
  <2>5. ASSUME NEW i \in Nat, Decides(a, b, i), ab(i) <= 0, NEW j \in Nat, Decides(b, c, j), bc(j) <= 0
        PROVE  \E k \in Nat : Decides(a, c, k) /\ ac(k) <= 0
    <3>. DEFINE k == IF i <= j THEN i ELSE j
    <3>1. Common(k) /\ ab(k) <= 0 /\ bc(k) <= 0 /\ ~ (ab(k) = 0 /\ bc(k) = 0)
      BY <2>5 DEF Decides
    <3>2. \A m \in 1 .. k - 1 : Common(m) /\ ab(m) = 0 /\ bc(m) = 0
      BY <2>5, <3>1 DEF Decides
    <3>3. ac(k) <= 0 /\ ac(k) # 0 /\ \A m \in 1 .. k - 1 : ac(m) = 0
      <4>1. ac(k) <= 0 /\ ac(k) # 0
        BY <2>1, <3>1, Zenon
      <4>2. \A m \in 1 .. k - 1 : ac(m) = 0
        BY <2>1, <3>2
      <4>. QED
        BY <4>1, <4>2, Zenon
    <3>. QED
      BY <3>1, <3>3, Zenon DEF Decides
  <2>6. ASSUME NEW i \in Nat, Decides(a, b, i), ab(i) <= 0, Equal(b, c), Len(b) <= Len(c)
        PROVE  \E k \in Nat : Decides(a, c, k) /\ ac(k) <= 0
    <3>1. Common(i) /\ ab(i) # 0 /\ bc(i) = 0
      BY <2>6 DEF Decides
    <3>2. \A m \in 1 .. i - 1 : Common(m) /\ ab(m) = 0 /\ bc(m) = 0
      BY <2>6, <3>1 DEF Decides
    <3>3. ac(i) <= 0 /\ ac(i) # 0
      BY <2>1, <2>6, <3>1
    <3>4. \A m \in 1 .. i - 1 : ac(m) = 0
      BY <2>1, <3>2, SMTT(30)
    <3>. QED
      BY <3>1, <3>3, <3>4, Zenon DEF Decides
  <2>7. ASSUME Equal(a, b), Len(a) <= Len(b), NEW j \in Nat, Decides(b, c, j), bc(j) <= 0
        PROVE  \/ \E k \in Nat : Decides(a, c, k) /\ ac(k) <= 0
               \/ Equal(a, c) /\ Len(a) <= Len(c)
    <3>1. CASE j <= Len(a)
      <4>1. Common(j) /\ ab(j) = 0 /\ bc(j) # 0
        BY <2>7, <3>1 DEF Decides
      <4>2. \A m \in 1 .. j - 1 : Common(m) /\ ab(m) = 0 /\ bc(m) = 0
        BY <2>7, <4>1 DEF Decides
      <4>3. ac(j) <= 0 /\ ac(j) # 0
        BY <2>1, <2>7, <4>1, SMTT(30)
      <4>4. \A m \in 1 .. j - 1 : ac(m) = 0
        BY <2>1, <4>2, SMTT(30)
      <4>. QED
        BY <4>1, <4>3, <4>4, Zenon DEF Decides
    <3>2. CASE ~ (j <= Len(a))
      <4>1. Len(a) <= Len(c) /\ \A m \in 1 .. Len(a) : Common(m) /\ ab(m) = 0 /\ bc(m) = 0
        BY <2>7, <3>2 DEF Decides
      <4>. QED
        BY <4>1, <2>1
    <3>. QED
      BY <3>1, <3>2, Zenon
  <2>8. ASSUME Equal(a, b), Len(a) <= Len(b), Equal(b, c), Len(b) <= Len(c)
        PROVE  Equal(a, c) /\ Len(a) <= Len(c)
    <3>1. Len(a) <= Len(c) /\ \A m \in 1 .. Len(a) : Common(m) /\ ab(m) = 0 /\ bc(m) = 0
      BY <2>8
    <3>. QED
      BY <3>1, <2>1
  <2>. QED
    BY <2>2, <2>3, <2>5, <2>6, <2>7, <2>8, Zenon
<1>. QED
  BY <1>1, <1>2, Zenon

\* Compare(b, a) is the opposite of Compare(a, b), for all versions that parse: below and above never both hold.
THEOREM CompareIsAntisymmetric ==
    ASSUME NEW a \in semver, NEW b \in semver
    PROVE  CompareParsed(b, a) = - CompareParsed(a, b)
<1>1. a.pre \in Seq(Piece) /\ b.pre \in Seq(Piece)
  BY Zenon DEF semver
<1>2. comparePrerelease(b.pre, a.pre) = - comparePrerelease(a.pre, b.pre)
  BY <1>1, PrereleaseOpposite, Zenon
<1>. QED
  BY <1>2 DEF CompareParsed, sign, semver

\* Versions at most a recommended one are at most every version above it:
\* Compare is transitive on the versions that parse.
THEOREM CompareIsTransitive ==
    ASSUME NEW a \in semver, NEW b \in semver, NEW c \in semver,
           CompareParsed(a, b) <= 0, CompareParsed(b, c) <= 0
    PROVE  CompareParsed(a, c) <= 0
<1>1. a.pre \in Seq(Piece) /\ b.pre \in Seq(Piece) /\ c.pre \in Seq(Piece)
  BY Zenon DEF semver
<1>2. comparePrerelease(a.pre, b.pre) <= 0 /\ comparePrerelease(b.pre, c.pre) <= 0
          => comparePrerelease(a.pre, c.pre) <= 0
  BY <1>1, PrereleaseTransitive, Zenon
<1>3. /\ a.major \in Nat /\ a.minor \in Nat /\ a.patch \in Nat
      /\ b.major \in Nat /\ b.minor \in Nat /\ b.patch \in Nat
      /\ c.major \in Nat /\ c.minor \in Nat /\ c.patch \in Nat
  BY Zenon DEF semver
<1>4. a.major <= b.major /\ b.major <= c.major
  BY <1>3 DEF CompareParsed, sign
<1>5. CASE a.major # c.major
  BY <1>3, <1>4, <1>5 DEF CompareParsed, sign
<1>6. CASE a.major = c.major
  <2>1. a.major = b.major /\ b.major = c.major
    BY <1>3, <1>4, <1>6
  <2>2. a.minor <= b.minor /\ b.minor <= c.minor
    BY <1>3, <2>1 DEF CompareParsed, sign
  <2>3. CASE a.minor # c.minor
    BY <1>3, <1>6, <2>2, <2>3 DEF CompareParsed, sign
  <2>4. CASE a.minor = c.minor
    <3>1. a.minor = b.minor /\ b.minor = c.minor
      BY <1>3, <2>2, <2>4
    <3>2. a.patch <= b.patch /\ b.patch <= c.patch
      BY <1>3, <2>1, <3>1 DEF CompareParsed, sign
    <3>3. CASE a.patch # c.patch
      BY <1>3, <1>6, <2>4, <3>2, <3>3 DEF CompareParsed, sign
    <3>4. CASE a.patch = c.patch
      <4>1. a.patch = b.patch /\ b.patch = c.patch
        BY <1>3, <3>2, <3>4
      <4>2. comparePrerelease(a.pre, b.pre) <= 0 /\ comparePrerelease(b.pre, c.pre) <= 0
        BY <2>1, <3>1, <4>1, Zenon DEF CompareParsed
      <4>. QED
        BY <1>2, <1>6, <2>4, <3>4, <4>2, Zenon DEF CompareParsed
    <3>. QED
      BY <3>3, <3>4, Zenon
  <2>. QED
    BY <2>3, <2>4, Zenon
<1>. QED
  BY <1>5, <1>6, Zenon

\* What a version string is made of (SemVer).
VersionString == [parts : Seq(Piece \cup {Empty}), pre : Seq(Piece \cup {Empty}), build : BOOLEAN]

\* What parse accepts is a version.
LEMMA ParsedIsVersion == ASSUME NEW s \in VersionString, parse(s).valid PROVE parse(s) \in semver
<1>. DEFINE pre == IF s.pre = <<Empty>> THEN <<>> ELSE s.pre
<1>1. s.parts \in Seq(Piece \cup {Empty}) /\ s.pre \in Seq(Piece \cup {Empty})
  BY Zenon DEF VersionString
<1>2. /\ Len(s.parts) = 3
      /\ \A i \in DOMAIN s.parts : s.parts[i].kind = "number"
      /\ \A i \in DOMAIN pre : pre[i].kind # "empty"
      /\ parse(s) = [valid |-> TRUE, major |-> s.parts[1].val, minor |-> s.parts[2].val, patch |-> s.parts[3].val,
                     pre |-> pre]
  <2>1. Invalid.valid = FALSE
    BY DEF Invalid
  <2>. QED
    BY <2>1, Zenon DEF parse
<1>3. pre \in Seq(Piece)
  <2>1. pre \in Seq(Piece \cup {Empty})
    BY <1>1
  <2>2. \A i \in 1 .. Len(pre) : pre[i] \in Piece
    <3>. HIDE DEF pre
    <3>1. SUFFICES ASSUME NEW i \in 1 .. Len(pre) PROVE pre[i] \in Piece
      BY Zenon
    <3>2. pre[i] \in Piece \cup {Empty} /\ i \in DOMAIN pre
      BY <2>1
    <3>3. Empty.kind = "empty"
      BY DEF Empty
    <3>. QED
      BY <1>2, <3>2, <3>3, Zenon
  <2>. HIDE DEF pre
  <2>. QED
    BY <2>1, <2>2
<1>4. s.parts[1].val \in Nat /\ s.parts[2].val \in Nat /\ s.parts[3].val \in Nat
  <2>1. \A p \in Piece \cup {Empty} : p.val \in Nat
    BY DEF Piece, Empty
  <2>2. s.parts[1] \in Piece \cup {Empty} /\ s.parts[2] \in Piece \cup {Empty} /\ s.parts[3] \in Piece \cup {Empty}
    BY <1>1, <1>2
  <2>. QED
    BY <2>1, <2>2, Zenon
<1>. HIDE DEF pre
<1>. QED
  BY <1>2, <1>3, <1>4, SMT DEF semver

\* A comparison of two prereleases is a sign.
LEMMA PrereleaseIsSign ==
    ASSUME NEW a \in Seq(Piece), NEW b \in Seq(Piece) PROVE comparePrerelease(a, b) \in {-1, 0, 1}
<1>1. CASE a = <<>> \/ b = <<>>
  BY <1>1 DEF comparePrerelease
<1>2. CASE a # <<>> /\ b # <<>> /\ \E i \in 1 .. Len(a) : Decides(a, b, i)
  <2>1. PICK i \in 1 .. Len(a) : Decides(a, b, i)
    BY <1>2, Zenon
  <2>2. (CHOOSE k \in 1 .. Len(a) : Decides(a, b, k)) = i
    BY <2>1, DecidesOnce
  <2>3. comparePrerelease(a, b) = compareIdentifier(a[i], b[i])
    BY <1>2, <2>2, Zenon DEF comparePrerelease
  <2>4. a[i] \in Piece /\ b[i] \in Piece
    BY <2>1 DEF Decides
  <2>. QED
    BY <2>3, <2>4, IdentifierOpposite, Zenon
<1>3. CASE a # <<>> /\ b # <<>> /\ ~ \E i \in 1 .. Len(a) : Decides(a, b, i)
  <2>1. comparePrerelease(a, b) = sign(Len(a) - Len(b))
    BY <1>3, Zenon DEF comparePrerelease
  <2>. QED
    BY <2>1 DEF sign
<1>. QED
  BY <1>1, <1>2, <1>3, Zenon

\* The opposite of the opposite of a sign is the sign, and zero is its own opposite.
LEMMA OppositeSigns == ASSUME NEW p \in {-1, 0, 1}, NEW q, q = - p PROVE p = - q
BY SMT

LEMMA ZeroOpposite == ASSUME NEW p, p = 0 PROVE p = - p
<1>1. \A n, m \in Int : n + m = 0 => n = - m
  BY SMT
<1>2. p \in Int /\ p + p = 0
  BY SMT
<1>. QED
  BY <1>1, <1>2, Zenon

\* A comparison of two versions is a sign.
LEMMA ComparisonIsSign ==
    ASSUME NEW a \in semver, NEW b \in semver PROVE CompareParsed(a, b) \in {-1, 0, 1}
<1>1. comparePrerelease(a.pre, b.pre) \in {-1, 0, 1}
  <2>1. a.pre \in Seq(Piece) /\ b.pre \in Seq(Piece)
    BY Zenon DEF semver
  <2>. QED
    BY <2>1, PrereleaseIsSign, Zenon
<1>. QED
  BY <1>1 DEF CompareParsed, sign, semver

\* Compare decides any two version strings that parse and no other; the two
\* ways round agree; and it chains: one version at most the next, and that at
\* most a third, puts the first below the third unless all three are equal.
\* This is CompareIsAnOrder of VersionOrder, for all version strings.
THEOREM CompareIsAnOrderOnVersions ==
    ASSUME NEW a \in VersionString, NEW b \in VersionString, NEW c \in VersionString
    PROVE  /\ Compare(a, b).ok <=> parse(a).valid /\ parse(b).valid
           /\ Compare(a, b).ok = Compare(b, a).ok /\ Compare(a, b).cmp = - Compare(b, a).cmp
           /\ /\ Compare(a, b).ok /\ Compare(b, c).ok /\ Compare(a, c).ok
              /\ Compare(a, b).cmp <= 0 /\ Compare(b, c).cmp <= 0
              => Compare(a, c).cmp = (IF Compare(a, b).cmp = 0 /\ Compare(b, c).cmp = 0 THEN 0 ELSE -1)
<1>1. ASSUME NEW s \in VersionString, NEW t \in VersionString
      PROVE  /\ Compare(s, t).ok \in BOOLEAN
             /\ Compare(s, t).ok <=> parse(s).valid /\ parse(t).valid
             /\ Compare(s, t).ok => Compare(s, t).cmp = CompareParsed(parse(s), parse(t))
             /\ ~ Compare(s, t).ok => Compare(s, t).cmp = 0
  BY DEF Compare
<1>2. Compare(a, b).ok = Compare(b, a).ok /\ Compare(a, b).cmp = - Compare(b, a).cmp
  <2>1. Compare(a, b).ok = Compare(b, a).ok
    BY Zenon DEF Compare
  <2>2. CASE Compare(a, b).ok
    <3>1. parse(a) \in semver /\ parse(b) \in semver
      BY <1>1, <2>2, ParsedIsVersion, Zenon
    <3>2. CompareParsed(parse(b), parse(a)) = - CompareParsed(parse(a), parse(b))
      BY <3>1, CompareIsAntisymmetric, Zenon
    <3>3. CompareParsed(parse(a), parse(b)) \in {-1, 0, 1}
      BY <3>1, ComparisonIsSign, Zenon
    <3>4. /\ Compare(a, b).cmp = CompareParsed(parse(a), parse(b))
          /\ Compare(b, a).cmp = CompareParsed(parse(b), parse(a))
      BY <1>1, <2>1, <2>2, Zenon
    <3>5. CompareParsed(parse(a), parse(b)) = - CompareParsed(parse(b), parse(a))
      BY <3>2, <3>3, OppositeSigns, Zenon
    <3>. QED
      BY <2>1, <3>4, <3>5, Zenon
  <2>3. CASE ~ Compare(a, b).ok
    <3>1. Compare(a, b).cmp = 0 /\ Compare(b, a).cmp = 0
      BY <1>1, <2>1, <2>3, Zenon
    <3>. QED
      BY <2>1, <3>1, ZeroOpposite, Zenon
  <2>. QED
    BY <2>1, <2>2, <2>3, Zenon
<1>3. ASSUME Compare(a, b).ok, Compare(b, c).ok, Compare(a, c).ok, Compare(a, b).cmp <= 0, Compare(b, c).cmp <= 0
      PROVE  Compare(a, c).cmp = (IF Compare(a, b).cmp = 0 /\ Compare(b, c).cmp = 0 THEN 0 ELSE -1)
  <2>. DEFINE x == parse(a)
              y == parse(b)
              z == parse(c)
  <2>1. x \in semver /\ y \in semver /\ z \in semver
    BY <1>1, <1>3, ParsedIsVersion, Zenon
  <2>2. /\ Compare(a, b).cmp = CompareParsed(x, y) /\ Compare(b, c).cmp = CompareParsed(y, z)
        /\ Compare(a, c).cmp = CompareParsed(x, z)
    BY <1>1, <1>3, Zenon
  <2>. HIDE DEF x, y, z
  <2>3. /\ CompareParsed(x, y) \in {-1, 0, 1} /\ CompareParsed(y, z) \in {-1, 0, 1}
        /\ CompareParsed(x, z) \in {-1, 0, 1}
    BY <2>1, ComparisonIsSign, Zenon
  <2>4. /\ CompareParsed(y, x) = - CompareParsed(x, y) /\ CompareParsed(z, y) = - CompareParsed(y, z)
        /\ CompareParsed(z, x) = - CompareParsed(x, z)
    BY <2>1, CompareIsAntisymmetric, Zenon
  <2>5. CompareParsed(x, z) <= 0
    <3>1. CompareParsed(x, y) <= 0 /\ CompareParsed(y, z) <= 0
      BY <1>3, <2>2, Zenon
    <3>. QED
      BY <2>1, <3>1, CompareIsTransitive, Zenon
  <2>6. CompareParsed(z, x) <= 0 /\ CompareParsed(x, y) <= 0 => CompareParsed(z, y) <= 0
    BY <2>1, CompareIsTransitive, Zenon
  <2>7. CompareParsed(y, z) <= 0 /\ CompareParsed(z, x) <= 0 => CompareParsed(y, x) <= 0
    BY <2>1, CompareIsTransitive, Zenon
  <2>8. CompareParsed(z, y) <= 0 /\ CompareParsed(y, x) <= 0 => CompareParsed(z, x) <= 0
    BY <2>1, CompareIsTransitive, Zenon
  <2>. QED
    BY <1>3, <2>2, <2>3, <2>4, <2>5, <2>6, <2>7, <2>8
<1>. QED
  BY <1>1, <1>2, <1>3, Zenon

---------------------------------------------------------------------------
(* The history row of one push, while it is sent and reported on *)

CONSTANTS UIDs, Targets, Messages, MayRestart
VARIABLES pushed, due, pusher, unsent, got, agent, pc, cut
Pr == INSTANCE PushRow WITH row <- pushed

\* An entry of the row's list of instances,
IsInst(i) == DOMAIN i = {"status", "cause", "msg", "timedOut"}

\* of an instance that has reported nothing,
IsSilent(i) ==
    \/ i.status = "sent" /\ i.cause = "" /\ i.msg = "" /\ i.timedOut = FALSE
    \/ due /\ i.status = "no_status" /\ i.cause = "apply_timeout" /\ i.msg = Pr!OpAMPStatusTimeoutMessage
       /\ i.timedOut = TRUE

\* and of one whose last report is r.  Of its message only the title is kept,
\* and the cause is found in the title.
Regrouped(m) == IF m \in {"", "collector_validation"} THEN "unknown" ELSE m
CauseFor(m) == IF m = "" THEN "" ELSE Regrouped(m)

Tells(i, r) ==
    /\ i.status = r.status /\ i.msg = Pr!SanitizeRemoteConfigErrorMessage(r.msg)
    /\ i.cause \in {"", CauseFor(r.msg)} /\ i.timedOut = FALSE

IsReport(r) ==
    /\ DOMAIN r = {"status", "msg"} /\ r = [status |-> r.status, msg |-> r.msg]
    /\ r.status \in Pr!Reported /\ r.msg \in Pr!Causes \cup {""}
    /\ r.msg # "" => r.status = "failed"

\* No handler is on its way to the row with a report of u, and none was cut off.
Written(u) == pc[u] = Pr!None /\ u \notin cut

\* What the row then has of u is its last report, if any.
IsEntry(u) == IF agent[u] = Pr!None THEN IsSilent(pushed.insts[u]) ELSE Tells(pushed.insts[u], agent[u])

RowInv ==
    /\ DOMAIN pushed = {"status", "sent", "msg", "insts"}
    /\ Targets \subseteq DOMAIN pushed.insts /\ DOMAIN pushed.insts \subseteq UIDs
    /\ \A u \in DOMAIN pushed.insts : IsInst(pushed.insts[u])
    /\ pushed.status # "applied" \/ \E u \in UIDs : agent[u] # Pr!None
    /\ DOMAIN agent = UIDs /\ DOMAIN pc = UIDs
    /\ cut # {} => pusher = "lost"
    /\ \A u \in UIDs :
        /\ agent[u] = Pr!None \/ IsReport(agent[u])
        /\ pc[u] # Pr!None => pc[u] = agent[u]
        /\ Written(u) /\ agent[u] # Pr!None => u \in DOMAIN pushed.insts
    /\ \A u \in DOMAIN pushed.insts : Written(u) => IsEntry(u)

RowConstants == Targets \subseteq UIDs /\ Targets # {} /\ Messages \subseteq Pr!Causes

\* The title of each cause.
LEMMA TitlesAre ==
    /\ Pr!remoteConfigErrorTitle["collector_validation"] = "Collector rejected the config"
    /\ Pr!remoteConfigErrorTitle["opamp_send_failed"] = "OpAMP send failed"
    /\ Pr!remoteConfigErrorTitle["apply_timeout"] = "Config apply timed out"
    /\ Pr!remoteConfigErrorTitle["capability_mismatch"] = "Remote config capability mismatch"
    /\ Pr!remoteConfigErrorTitle["permission_or_policy"] = "Agent policy rejected the config"
    /\ Pr!remoteConfigErrorTitle["rollback_unavailable"] = "Rollback unavailable"
    /\ Pr!remoteConfigErrorTitle["unknown"] = "Remote config error"
BY Zenon DEF Pr!remoteConfigErrorTitle

\* The titles are all different, and none of them is empty or names a cause.
LEMMA TitlesDiffer ==
    /\ \A c, d \in Pr!Causes : Pr!remoteConfigErrorTitle[c] # d
    /\ \A c, d \in Pr!Causes : Pr!remoteConfigErrorTitle[c] = Pr!remoteConfigErrorTitle[d] => c = d
    /\ \A c \in Pr!Causes : Pr!remoteConfigErrorTitle[c] # Pr!Redacted
    /\ Pr!Redacted \notin Pr!Causes /\ Pr!OpAMPStatusTimeoutMessage \notin Pr!Causes
BY TitlesAre, Zenon DEF Pr!Causes, Pr!Redacted, Pr!OpAMPStatusTimeoutMessage

LEMMA TitlesSpeak == Pr!Redacted # "" /\ \A c \in Pr!Causes : c # "" /\ Pr!remoteConfigErrorTitle[c] # ""
BY TitlesAre, Zenon DEF Pr!Causes, Pr!Redacted

\* What is stored of a message stays as it is, is empty for no message only,
\* and has the cause of the message, except for a rejection by the collector.
LEMMA Sanitized ==
    ASSUME NEW m \in Pr!Causes \cup {""}
    PROVE  LET t == Pr!SanitizeRemoteConfigErrorMessage(m) IN
           /\ Pr!SanitizeRemoteConfigErrorMessage(t) = t
           /\ t = "" <=> m = ""
           /\ Pr!normalizeRemoteConfigErrorCause("", t) = Regrouped(m)
<1> DEFINE Title(c) == Pr!remoteConfigErrorTitle[c]
           t == Pr!SanitizeRemoteConfigErrorMessage(m)
<1>1. Pr!Worded \subseteq Pr!Causes /\ "unknown" \in Pr!Causes
      /\ \A c \in Pr!Causes : c \in Pr!Worded \/ c \in {"collector_validation", "unknown"}
  BY Zenon DEF Pr!Worded, Pr!Causes
<1>2. "unknown" \notin Pr!Worded /\ "collector_validation" \notin Pr!Worded /\ "" \notin Pr!Causes
  BY TitlesSpeak, Zenon DEF Pr!Worded
<1>3. CASE m = ""
  <2>1. t = ""
    BY <1>3, Zenon DEF Pr!SanitizeRemoteConfigErrorMessage
  <2>2. Pr!normalizeRemoteConfigErrorCause("", "") = "unknown"
    BY <1>1, <1>2, TitlesSpeak, Zenon DEF Pr!normalizeRemoteConfigErrorCause
  <2> QED BY <1>3, <2>1, <2>2, Zenon DEF Regrouped
<1>4. CASE m \in Pr!Causes
  <2>1. m # "" /\ m \notin Pr!OwnTexts
    BY <1>4, TitlesDiffer, TitlesSpeak, Zenon DEF Pr!OwnTexts
  <2>2. Pr!normalizeRemoteConfigErrorCause("", m) = m
    BY <1>4, Zenon DEF Pr!normalizeRemoteConfigErrorCause
  <2>3. t = IF m = "unknown" THEN Pr!Redacted ELSE Title(m)
    BY <2>1, <2>2, Zenon DEF Pr!SanitizeRemoteConfigErrorMessage
  <2>4. t \in Pr!OwnTexts /\ t # "" /\ t \notin Pr!Causes
    BY <1>4, <2>3, TitlesDiffer, TitlesSpeak, Zenon DEF Pr!OwnTexts
  <2> HIDE DEF t
  <2>5. Pr!SanitizeRemoteConfigErrorMessage(t) = t
    BY <2>4, Zenon DEF Pr!SanitizeRemoteConfigErrorMessage
  <2>6. CASE m \in Pr!Worded
    <3>1. \A c \in Pr!Worded : t = Title(c) <=> c = m
      BY <1>1, <1>2, <2>3, <2>6, TitlesDiffer, Zenon
    <3>2. (CHOOSE c \in Pr!Worded : t = Title(c)) = m
      BY <2>6, <3>1, Zenon
    <3>3. Pr!normalizeRemoteConfigErrorCause("", t) = m
      BY <2>4, <2>6, <3>1, <3>2, Zenon DEF Pr!normalizeRemoteConfigErrorCause
    <3> QED BY <1>2, <2>1, <2>4, <2>5, <2>6, <3>3, Zenon DEF Regrouped, t
  <2>7. CASE m \in {"collector_validation", "unknown"}
    <3>1. \A c \in Pr!Worded : t # Title(c)
      BY <1>1, <1>2, <1>4, <2>3, <2>7, TitlesDiffer, Zenon
    <3>2. Pr!normalizeRemoteConfigErrorCause("", t) = "unknown"
      BY <2>4, <3>1, Zenon DEF Pr!normalizeRemoteConfigErrorCause
    <3> QED BY <2>1, <2>4, <2>5, <2>7, <3>2, Zenon DEF Regrouped, t
  <2> QED BY <1>1, <1>4, <2>6, <2>7, Zenon
<1> QED BY <1>3, <1>4, Zenon

\* HydratePushStatus keeps what an entry says.
LEMMA OverlaySilent == ASSUME NEW i, IsSilent(i)
    PROVE IsInst(Pr!Overlay(i, due)) /\ IsSilent(Pr!Overlay(i, due)) /\ (Pr!Overlay(i, due).timedOut <=> due)
          /\ (due => Pr!Overlay(i, due).status = "no_status" /\ Pr!Overlay(i, due).cause = "apply_timeout")
          /\ (~ due => Pr!Overlay(i, due).status = "sent" /\ Pr!Overlay(i, due).cause = ""
              /\ Pr!Overlay(i, due).msg = "")
<1>1. CASE i.status = "sent"
  <2>1. Pr!canonicalInstanceStatus(i.status) = "sent"
    BY <1>1, Zenon DEF Pr!canonicalInstanceStatus, Pr!canonicalPushStatus, Pr!Reported
  <2>2. Pr!SanitizeRemoteConfigErrorMessage("") = ""
    BY Zenon DEF Pr!SanitizeRemoteConfigErrorMessage
  <2> QED BY <1>1, <2>1, <2>2, Zenon DEF Pr!Overlay, Pr!ErrorOf, Pr!TimedOut, IsSilent, IsInst
<1>2. CASE i.status = "no_status"
  <2>1. Pr!canonicalInstanceStatus(i.status) = "no_status"
    BY <1>2, Zenon DEF Pr!canonicalInstanceStatus, Pr!canonicalPushStatus, Pr!Reported
  <2> QED BY <1>2, <2>1, Zenon DEF Pr!Overlay, Pr!TimedOut, IsSilent, IsInst
<1> QED BY <1>1, <1>2, Zenon DEF IsSilent

\* An entry that tells a report is shown as it is.
LEMMA OverlayTells == ASSUME NEW i, NEW r, IsReport(r), Tells(i, r)
    PROVE /\ IsInst(Pr!Overlay(i, due)) /\ Tells(Pr!Overlay(i, due), r)
          /\ Pr!Overlay(i, due).cause = CauseFor(r.msg) /\ ~ Pr!Overlay(i, due).timedOut
<1>1. Pr!canonicalInstanceStatus(i.status) = r.status /\ r.status \notin {"sent", "no_status"}
  BY Zenon DEF Pr!canonicalInstanceStatus, Pr!canonicalPushStatus, Pr!Reported, IsReport, Tells
<1>2. i.msg = Pr!SanitizeRemoteConfigErrorMessage(r.msg) /\ (i.msg = "" <=> r.msg = "")
      /\ Pr!SanitizeRemoteConfigErrorMessage(i.msg) = i.msg
      /\ Pr!normalizeRemoteConfigErrorCause("", i.msg) = Regrouped(r.msg)
  BY Sanitized, Zenon DEF IsReport, Tells
<1>3. Pr!ErrorOf(i).msg = i.msg /\ Pr!ErrorOf(i).cause = CauseFor(r.msg)
  <2>1. CASE r.msg = ""
    BY <1>2, <2>1, Zenon DEF Pr!ErrorOf, Tells, CauseFor
  <2>2. CASE r.msg # "" /\ i.cause = ""
    BY <1>2, <2>2, Zenon DEF Pr!ErrorOf, CauseFor
  <2>3. CASE r.msg # "" /\ i.cause # ""
    <3>1. Pr!normalizeRemoteConfigErrorCause(i.cause, i.msg) = i.cause
      BY <2>3, Zenon DEF Pr!normalizeRemoteConfigErrorCause
    <3> QED BY <1>2, <2>3, <3>1, Zenon DEF Pr!ErrorOf, Tells
  <2> QED BY <2>1, <2>2, <2>3, Zenon
<1> QED BY <1>1, <1>2, <1>3, Zenon DEF Pr!Overlay, Tells, IsInst

\* The overlay of an entry is an entry.
LEMMA OverlayIsInst == ASSUME NEW i, NEW d PROVE IsInst(Pr!Overlay(i, d))
BY Zenon DEF Pr!Overlay, Pr!TimedOut, IsInst

IsRow(r) == DOMAIN r = {"status", "sent", "msg", "insts"}

\* The row as HydratePushStatus leaves it.
IsHydrated(x, r, d) ==
    /\ IsRow(x.row) /\ DOMAIN x.row.insts = DOMAIN r.insts
    /\ \A u \in DOMAIN r.insts : x.row.insts[u] = Pr!Overlay(r.insts[u], d)
    /\ x.row.status = Pr!DerivedStatus(x.row.insts, r.sent, r.status)
    /\ x.late = {u \in DOMAIN r.insts : x.row.insts[u].timedOut}
    /\ x.groups = Pr!buildErrorGroups(x.row.insts, Pr!SanitizeRemoteConfigErrorMessage(r.msg))

\* The fields of a hydrated row, one by one.
LEMMA HydratedRow == ASSUME NEW r, IsRow(r), NEW d PROVE IsHydrated(Pr!HydratePushStatus(r, d), r, d)
<1> DEFINE x == Pr!HydratePushStatus(r, d)
           is == [u \in DOMAIN r.insts |-> Pr!Overlay(r.insts[u], d)]
           msg == Pr!SanitizeRemoteConfigErrorMessage(r.msg)
<1>1. /\ x.row = [r EXCEPT !.status = Pr!DerivedStatus(is, r.sent, r.status), !.insts = is, !.msg = msg]
      /\ x.groups = Pr!buildErrorGroups(is, msg)
  BY Zenon DEF Pr!HydratePushStatus
<1>2. x.late = {u \in DOMAIN is : is[u].timedOut}
  BY Zenon DEF Pr!HydratePushStatus
<1>3. DOMAIN is = DOMAIN r.insts /\ \A u \in DOMAIN r.insts : is[u] = Pr!Overlay(r.insts[u], d)
  BY Zenon
<1> HIDE DEF is, x
<1>4. IsRow(x.row) /\ x.row.insts = is /\ x.row.status = Pr!DerivedStatus(is, r.sent, r.status)
  BY <1>1, Zenon DEF IsRow
<1>5. IsHydrated(x, r, d)
  BY <1>1, <1>2, <1>3, <1>4, Zenon DEF IsHydrated
<1> QED BY <1>5, Zenon DEF x

\* A step that leaves the row's entries and the reports alone.
Untold ==
    /\ DOMAIN pushed' = {"status", "sent", "msg", "insts"} /\ pushed'.insts = pushed.insts
    /\ pushed'.status = pushed.status \/ pushed'.status # "applied"
    /\ UNCHANGED <<agent, pc, cut>>
    /\ (due' = due \/ due') /\ (cut # {} => pusher' = "lost")

\* An entry changes only with the row, the timeout and the report.
LEMMA SameEntry == ASSUME NEW u, agent'[u] = agent[u], pushed'.insts = pushed.insts, due' = due
    PROVE IsEntry(u)' <=> IsEntry(u)
<1>1. IsSilent(pushed.insts[u])' <=> IsSilent(pushed.insts[u])
  BY Zenon DEF IsSilent
<1> QED BY <1>1, Zenon DEF IsEntry

\* A step in which no agent reports and no entry changes keeps the invariant.
LEMMA UntoldKeeps == ASSUME RowInv, Untold PROVE RowInv'
<1>2. \A u : Written(u)' = Written(u)
  BY Zenon DEF Untold, Written
<1>3. ASSUME NEW u \in DOMAIN pushed.insts, Written(u) PROVE IsEntry(u)'
  <2>1. IsEntry(u)
    BY <1>3, Zenon DEF RowInv
  <2>2. IsSilent(pushed.insts[u]) => IsSilent(pushed.insts[u])'
    BY Zenon DEF Untold, IsSilent
  <2> QED BY <2>1, <2>2, Zenon DEF Untold, IsEntry
<1> QED BY <1>2, <1>3, Zenon DEF RowInv, Untold

\* A push starts with the entries of its targets, all silent.
LEMMA RowInit == ASSUME RowConstants, Pr!Init PROVE RowInv
<1>1. /\ DOMAIN pushed = {"status", "sent", "msg", "insts"} /\ pushed.status = "submitted"
      /\ pushed.insts = Pr!initialPushInstanceStatuses(Targets) /\ DOMAIN agent = UIDs /\ DOMAIN pc = UIDs
      /\ cut = {} /\ (\A u \in UIDs : agent[u] = Pr!None /\ pc[u] = Pr!None)
  BY Zenon DEF Pr!Init
<1>2. DOMAIN pushed.insts = Targets /\ \A u \in Targets : IsInst(pushed.insts[u]) /\ IsSilent(pushed.insts[u])
  <2> DEFINE i == [status |-> "sent", cause |-> "", msg |-> "", timedOut |-> FALSE]
  <2>1. IsInst(i) /\ IsSilent(i)
    BY Zenon DEF IsInst, IsSilent
  <2>2. pushed.insts = [u \in Targets |-> i]
    BY <1>1, Zenon DEF Pr!initialPushInstanceStatuses
  <2> HIDE DEF i
  <2> QED BY <2>1, <2>2, Zenon
<1> QED BY <1>1, <1>2, Zenon DEF RowInv, RowConstants, IsEntry

\* The sends, the timeout and the lost pusher tell nothing new.
LEMMA RowUntold ==
    ASSUME RowInv,
           Pr!MarkWorkloadConfigSent \/ Pr!PushFails \/ Pr!TimeoutPasses \/ \E u \in UIDs : Pr!sendToInstance(u)
    PROVE  RowInv'
<1>0. DOMAIN pushed = {"status", "sent", "msg", "insts"} /\ (cut # {} => pusher = "lost")
  BY Zenon DEF RowInv
<1>1. CASE Pr!MarkWorkloadConfigSent
  <2>1. pushed' = [pushed EXCEPT !.status = "sent", !.sent = TRUE] /\ UNCHANGED <<due, agent, pc, cut>> /\ cut = {}
    BY <1>0, <1>1, Zenon DEF Pr!MarkWorkloadConfigSent
  <2>2. DOMAIN pushed' = DOMAIN pushed /\ pushed'.insts = pushed.insts /\ pushed'.status = "sent"
    BY <1>0, <2>1, Zenon
  <2> QED BY <1>0, <2>1, <2>2, UntoldKeeps, Zenon DEF Untold
<1>2. CASE Pr!PushFails
  <2>1. pushed' = [pushed EXCEPT !.status = "failed", !.msg = Pr!SanitizeRemoteConfigErrorMessage("opamp_send_failed")]
        /\ UNCHANGED <<due, agent, pc, cut>> /\ cut = {}
    BY <1>0, <1>2, Zenon DEF Pr!PushFails, Pr!UpdateWorkloadConfigStatus
  <2>2. DOMAIN pushed' = DOMAIN pushed /\ pushed'.insts = pushed.insts /\ pushed'.status = "failed"
    BY <1>0, <2>1, Zenon
  <2> QED BY <1>0, <2>1, <2>2, UntoldKeeps, Zenon DEF Untold
<1>3. CASE Pr!TimeoutPasses \/ \E u \in UIDs : Pr!sendToInstance(u)
  BY <1>0, <1>3, UntoldKeeps, Zenon DEF Untold, Pr!TimeoutPasses, Pr!sendToInstance
<1> QED BY <1>1, <1>2, <1>3, Zenon

\* A restart loses the reports that are not written yet.
LEMMA RowRestart == ASSUME RowInv, Pr!Restart PROVE RowInv'
<1>1. /\ UNCHANGED <<pushed, due, agent>> /\ pusher' = "lost" /\ cut = {}
      /\ pc' = [u \in UIDs |-> Pr!None] /\ cut' = {u \in UIDs : pc[u] # Pr!None}
  BY Zenon DEF Pr!Restart, RowInv
<1>2. DOMAIN pc' = UIDs /\ \A u \in UIDs : pc'[u] = Pr!None
  BY <1>1, Zenon
<1>3. \A u \in UIDs : Written(u)' <=> Written(u)
  BY <1>1, <1>2, Zenon DEF Written
<1>4. \A u : IsEntry(u)' <=> IsEntry(u)
  BY <1>1, Zenon DEF IsEntry, IsSilent
<1> QED BY <1>1, <1>2, <1>3, <1>4, Zenon DEF RowInv

\* A report is on its way until its handler has merged it.
LEMMA RowReport ==
    ASSUME RowInv, NEW u \in UIDs, NEW s \in Pr!Reported, NEW m \in Pr!Causes \cup {""}, Pr!Report(u, s, m)
    PROVE  RowInv'
<1> DEFINE r == [status |-> s, msg |-> m]
<1>1. agent' = [agent EXCEPT ![u] = r] /\ pc' = [pc EXCEPT ![u] = agent'[u]] /\ cut' = cut \ {u} /\ pc[u] = Pr!None
      /\ pushed' = [pushed EXCEPT !.status = s, !.msg = Pr!SanitizeRemoteConfigErrorMessage(m)] /\ UNCHANGED <<due, pusher>> /\ Pr!Reports(u, s, m)
  BY Zenon DEF Pr!Report, Pr!UpdateWorkloadConfigStatus
<1>2. DOMAIN pushed = {"status", "sent", "msg", "insts"} /\ DOMAIN agent = UIDs /\ DOMAIN pc = UIDs
      /\ (agent[u] = Pr!None \/ IsReport(agent[u]))
  BY Zenon DEF RowInv
<1>3. IsReport(r) /\ r # Pr!None
  <2>1. m # "" => s = "failed"
    <3>1. CASE u \in cut /\ agent[u] = r
      <4>1. r.status = s /\ r.msg = m /\ Pr!None.status = "none" /\ s # "none"
        BY Zenon DEF Pr!None, Pr!Reported
      <4> HIDE DEF r
      <4> QED BY <1>2, <3>1, <4>1, Zenon DEF IsReport
    <3>2. CASE ~ (u \in cut /\ agent[u] = r)
      BY <1>1, <3>2, Zenon DEF Pr!Reports
    <3> QED BY <3>1, <3>2, Zenon
  <2>2. r # Pr!None
    <3>1. r.status # "none" /\ Pr!None.status = "none"
      BY Zenon DEF Pr!Reported, Pr!None
    <3> HIDE DEF r
    <3> QED BY <3>1, Zenon
  <2> QED BY <2>1, <2>2, Zenon DEF IsReport
<1> HIDE DEF r
<1>4. /\ DOMAIN pushed' = DOMAIN pushed /\ pushed'.insts = pushed.insts
      /\ DOMAIN agent' = UIDs /\ DOMAIN pc' = UIDs /\ agent'[u] = r /\ pc'[u] = r
      /\ \A v \in UIDs : v # u => agent'[v] = agent[v] /\ pc'[v] = pc[v]
  BY <1>1, <1>2, Zenon
<1>5. ~ Written(u)' /\ \A v \in UIDs : v # u => (Written(v)' <=> Written(v))
  BY <1>1, <1>3, <1>4, Zenon DEF Written
<1>6. ASSUME NEW v \in UIDs, v # u PROVE IsEntry(v)' <=> IsEntry(v)
  <2>1. agent'[v] = agent[v] /\ pushed'.insts = pushed.insts /\ due' = due
    BY <1>1, <1>4, <1>6, Zenon
  <2> QED BY <2>1, SameEntry, Zenon
<1>7. ASSUME NEW v \in UIDs
      PROVE /\ agent'[v] = Pr!None \/ IsReport(agent'[v])
            /\ pc'[v] # Pr!None => pc'[v] = agent'[v]
            /\ Written(v)' /\ agent'[v] # Pr!None => v \in DOMAIN pushed'.insts
  BY <1>3, <1>4, <1>5, Zenon DEF RowInv
<1>8. ASSUME NEW v \in DOMAIN pushed'.insts, Written(v)'
      PROVE IsEntry(v)'
  <2>1. v \in DOMAIN pushed.insts /\ v \in UIDs
    BY <1>4, <1>8, Zenon DEF RowInv
  <2>2. v # u /\ Written(v) /\ agent'[v] = agent[v]
    BY <1>4, <1>5, <1>8, <2>1, Zenon
  <2> QED BY <1>4, <1>6, <2>1, <2>2, Zenon DEF RowInv
<1> QED BY <1>1, <1>2, <1>3, <1>4, <1>7, <1>8, Zenon DEF RowInv
\* The row is locked, read, merged, hydrated and written.
LEMMA RowMerge == ASSUME RowInv, NEW u \in UIDs, Pr!UpdateWorkloadConfigInstanceStatus(u) PROVE RowInv'
<1> DEFINE is == Pr!Merged(u, pc[u])
           r == [pushed EXCEPT !.insts = is]
           x == Pr!HydratePushStatus(r, due)
           n == x.row
<1>1. /\ pc[u] # Pr!None /\ pushed' = [n EXCEPT !.msg = Pr!SanitizeRemoteConfigErrorMessage(pc[u].msg)] /\ pc' = [pc EXCEPT ![u] = Pr!None]
      /\ UNCHANGED <<due, pusher, agent, cut>>
  BY Zenon DEF Pr!UpdateWorkloadConfigInstanceStatus
<1>2. /\ DOMAIN pushed = {"status", "sent", "msg", "insts"} /\ DOMAIN pc = UIDs /\ pc[u] = agent[u]
      /\ IsReport(agent[u])
  BY <1>1, Zenon DEF RowInv
<1>3. DOMAIN is = DOMAIN pushed.insts \cup {u} /\ Tells(is[u], agent[u])
      /\ \A v \in DOMAIN pushed.insts : v # u => is[v] = pushed.insts[v]
  <2> DEFINE i == Pr!Entry(pc[u])
  <2>1. Tells(i, agent[u])
    BY <1>2, Zenon DEF Tells, Pr!Entry
  <2>2. is = [v \in DOMAIN pushed.insts \cup {u} |-> IF v = u THEN i ELSE pushed.insts[v]]
    BY Zenon DEF Pr!Merged
  <2> HIDE DEF i, is
  <2> QED BY <2>1, <2>2, Zenon
<1> HIDE DEF is
<1>4. DOMAIN r = {"status", "sent", "msg", "insts"} /\ r.insts = is
  BY <1>2, Zenon
<1> HIDE DEF r
<1>13. IsHydrated(x, r, due)
  BY <1>4, HydratedRow, Zenon DEF IsRow
<1> HIDE DEF x
<1>5. /\ DOMAIN n = {"status", "sent", "msg", "insts"} /\ DOMAIN n.insts = DOMAIN is
      /\ \A v \in DOMAIN is : n.insts[v] = Pr!Overlay(is[v], due)
  BY <1>4, <1>13, Zenon DEF IsHydrated, IsRow
<1>6. /\ DOMAIN pushed' = {"status", "sent", "msg", "insts"} /\ DOMAIN pushed'.insts = DOMAIN pushed.insts \cup {u}
      /\ \A v \in DOMAIN pushed'.insts : pushed'.insts[v] = Pr!Overlay(is[v], due)
  BY <1>1, <1>3, <1>5, Zenon
<1>7. DOMAIN pc' = UIDs /\ pc'[u] = Pr!None /\ \A v \in UIDs : v # u => pc'[v] = pc[v]
  BY <1>1, <1>2, Zenon
<1>8. ASSUME NEW v \in DOMAIN pushed'.insts, Written(v)' PROVE IsEntry(v)'
  <2>1. pushed'.insts[v] = Pr!Overlay(is[v], due) /\ agent'[v] = agent[v]
    BY <1>1, <1>6, Zenon
  <2>2. CASE v = u
    <3>1. agent[u] # Pr!None /\ Tells(Pr!Overlay(is[u], due), agent[u])
      BY <1>1, <1>2, <1>3, OverlayTells, Zenon
    <3> QED BY <2>1, <2>2, <3>1, Zenon DEF IsEntry
  <2>3. CASE v # u
    <3>1. v \in DOMAIN pushed.insts /\ v \in UIDs /\ is[v] = pushed.insts[v]
      BY <1>3, <1>6, <2>3, Zenon DEF RowInv
    <3>2. Written(v)
      BY <1>1, <1>7, <1>8, <2>3, <3>1, Zenon DEF Written
    <3>3. CASE agent[v] = Pr!None
      <4>1. IsSilent(Pr!Overlay(is[v], due))
        BY <3>1, <3>2, <3>3, OverlaySilent, Zenon DEF RowInv, IsEntry
      <4>2. IsSilent(pushed.insts[v])'
        BY <1>1, <2>1, <4>1, Zenon DEF IsSilent
      <4> QED BY <2>1, <3>3, <4>2, Zenon DEF IsEntry
    <3>4. CASE agent[v] # Pr!None
      <4>1. Tells(is[v], agent[v]) /\ IsReport(agent[v])
        BY <3>1, <3>2, <3>4, Zenon DEF RowInv, IsEntry
      <4>2. Tells(Pr!Overlay(is[v], due), agent[v])
        BY <4>1, OverlayTells, Zenon
      <4> QED BY <2>1, <3>4, <4>2, Zenon DEF IsEntry
    <3> QED BY <3>3, <3>4, Zenon
  <2> QED BY <2>2, <2>3, Zenon
<1>9. ASSUME NEW v \in UIDs
      PROVE /\ agent'[v] = Pr!None \/ IsReport(agent'[v])
            /\ pc'[v] # Pr!None => pc'[v] = agent'[v]
            /\ Written(v)' /\ agent'[v] # Pr!None => v \in DOMAIN pushed'.insts
  BY <1>1, <1>6, <1>7, Zenon DEF RowInv, Written
<1>10. Targets \subseteq DOMAIN pushed'.insts /\ DOMAIN pushed'.insts \subseteq UIDs
  BY <1>6, Zenon DEF RowInv
<1>11. \A v \in DOMAIN pushed'.insts : IsInst(pushed'.insts[v])
  BY <1>6, OverlayIsInst, Zenon
<1>12. DOMAIN agent' = UIDs /\ (cut' # {} => pusher' = "lost") /\ agent'[u] # Pr!None
  BY <1>1, <1>2, Zenon DEF RowInv
<1> QED BY <1>6, <1>7, <1>8, <1>9, <1>10, <1>11, <1>12, Zenon DEF RowInv

\* The invariant of the row is inductive.
LEMMA RowNext == ASSUME RowConstants, RowInv, [Pr!Next]_(Pr!vars) PROVE RowInv'
<1>1. CASE UNCHANGED Pr!vars
  <2>1. UNCHANGED <<pushed, due, pusher, agent, pc, cut>>
    BY <1>1, Zenon DEF Pr!vars
  <2> QED BY <2>1, UntoldKeeps, Zenon DEF Untold, RowInv
<1>2. CASE \E u \in UIDs : \E s \in Pr!Reported, m \in Messages \cup {""} : Pr!Report(u, s, m)
  BY <1>2, RowReport, Zenon DEF RowConstants
<1>3. CASE \E u \in UIDs : Pr!UpdateWorkloadConfigInstanceStatus(u)
  BY <1>3, RowMerge, Zenon
<1> QED BY <1>1, <1>2, <1>3, RowUntold, RowRestart, Zenon DEF Pr!Next

---------------------------------------------------------------------------

\* What a reader of the row is shown of an instance whose report is written.
LEMMA ShownIs ==
    ASSUME RowInv, NEW u \in DOMAIN pushed.insts, Written(u)
    PROVE  /\ u \in DOMAIN Pr!Read.row.insts
           /\ agent[u].status = "none" => Pr!Read.row.insts[u].status \in {"sent", "no_status"}
           /\ agent[u].status # "none" => Pr!Read.row.insts[u].status = agent[u].status
           /\ agent[u].status = "none" \/ agent[u].status \in Pr!Reported
           /\ Pr!Read.row.insts[u].timedOut <=> due /\ agent[u].status = "none"
           /\ Pr!InError(Pr!Read.row.insts[u]) <=> agent[u].status = "failed" \/ (due /\ agent[u].status = "none")
           /\ due /\ agent[u].status = "none" => Pr!CauseOf(Pr!Read.row.insts[u]) = "apply_timeout"
           /\ agent[u].status = "failed" =>
                Pr!CauseOf(Pr!Read.row.insts[u]) = Regrouped(agent[u].msg)
<1>1. u \in UIDs /\ DOMAIN pushed = {"status", "sent", "msg", "insts"} /\ IsEntry(u)
  BY Zenon DEF RowInv
<1>2. IsHydrated(Pr!Read, pushed, due)
  BY <1>1, HydratedRow, Zenon DEF Pr!Read, IsRow
<1>3. u \in DOMAIN Pr!Read.row.insts /\ Pr!Read.row.insts[u] = Pr!Overlay(pushed.insts[u], due)
  BY <1>1, <1>2, Zenon DEF IsHydrated
<1>4. PICK i : i = Pr!Read.row.insts[u] /\ i = Pr!Overlay(pushed.insts[u], due)
  BY <1>3, Zenon
<1>5. CASE agent[u] = Pr!None
  <2>1. agent[u].status = "none"
    <3>1. Pr!None.status = "none"
      BY Zenon DEF Pr!None
    <3> QED BY <1>5, <3>1, Zenon
  <2>2. IsSilent(pushed.insts[u])
    BY <1>1, <1>5, Zenon DEF IsEntry
  <2>3. /\ (i.timedOut <=> due) /\ (due => i.status = "no_status" /\ i.cause = "apply_timeout")
        /\ (~ due => i.status = "sent" /\ i.cause = "" /\ i.msg = "")
    BY <1>4, <2>2, OverlaySilent, Zenon
  <2>4. (Pr!InError(i) <=> due) /\ (due => Pr!CauseOf(i) = "apply_timeout")
    BY <2>3, Zenon DEF Pr!InError, Pr!CauseOf, Pr!normalizeRemoteConfigErrorCause
  <2> QED BY <1>3, <1>4, <2>1, <2>3, <2>4, Zenon
<1>6. CASE agent[u] # Pr!None
  <2>1. IsReport(agent[u]) /\ Tells(pushed.insts[u], agent[u])
    BY <1>1, <1>6, Zenon DEF RowInv, IsEntry
  <2>2. /\ i.cause = CauseFor(agent[u].msg) /\ i.status = agent[u].status /\ ~ i.timedOut
        /\ i.msg = Pr!SanitizeRemoteConfigErrorMessage(agent[u].msg)
    <3>1. Tells(i, agent[u]) /\ i.cause = CauseFor(agent[u].msg) /\ ~ i.timedOut
      BY <1>4, <2>1, OverlayTells, Zenon
    <3> QED BY <3>1, Zenon DEF Tells
  <2>5. (i.msg = "" <=> agent[u].msg = "") /\ Pr!normalizeRemoteConfigErrorCause("", i.msg) = Regrouped(agent[u].msg)
    BY <2>1, <2>2, Sanitized, Zenon DEF IsReport
  <2>3. agent[u].status # "none" /\ agent[u].status \in Pr!Reported /\ (agent[u].msg # "" => agent[u].status = "failed")
    BY <2>1, Zenon DEF IsReport, Pr!Reported
  <2>4. Pr!InError(i) <=> agent[u].status = "failed"
    BY <2>2, <2>3, <2>5, Zenon DEF Pr!InError, CauseFor
  <2>6. Pr!CauseOf(i) = Regrouped(agent[u].msg)
    <3>1. i.cause # "" => Pr!CauseOf(i) = i.cause
      BY Zenon DEF Pr!CauseOf, Pr!normalizeRemoteConfigErrorCause
    <3>2. i.cause = "" => Pr!CauseOf(i) = Regrouped(agent[u].msg)
      BY <2>5, Zenon DEF Pr!CauseOf
    <3> QED BY <2>2, <3>1, <3>2, Zenon DEF CauseFor
  <2> QED BY <1>3, <1>4, <2>2, <2>3, <2>4, <2>6, Zenon
<1> QED BY <1>5, <1>6, Zenon

\* A reader hydrates the stored row.
LEMMA ReadIsHydrated == ASSUME RowInv PROVE IsHydrated(Pr!Read, pushed, due)
BY HydratedRow, Zenon DEF Pr!Read, IsRow, RowInv

\* The instances that the row counts as in one of the states S are those whose
\* agents say so.
LEMMA HeardIsShown ==
    ASSUME RowInv, Pr!Settled, NEW S, S \subseteq Pr!Reported
    PROVE  Pr!With(Pr!Read.row.insts, S) = Pr!Heard(S)
<1>1. DOMAIN Pr!Read.row.insts = DOMAIN pushed.insts
  BY ReadIsHydrated, Zenon DEF IsHydrated
<1>2. ASSUME NEW u \in DOMAIN Pr!Read.row.insts
      PROVE Pr!Read.row.insts[u].status \in S <=> agent[u].status \in S
  <2>1. u \in DOMAIN pushed.insts /\ Written(u)
    BY <1>1, <1>2, Zenon DEF RowInv, Written, Pr!Settled
  <2>2. "sent" \notin S /\ "no_status" \notin S /\ "none" \notin S
    BY Zenon DEF Pr!Reported
  <2> QED BY <2>1, <2>2, ShownIs, Zenon
<1> QED BY <1>2, Zenon DEF Pr!With, Pr!Heard

\* The status that is read follows the reports.
LEMMA ReadStatusFollows == ASSUME RowConstants, RowInv PROVE Pr!ReadFollowsReports
<1> SUFFICES ASSUME Pr!Settled
             PROVE  /\ \A u \in UIDs : agent[u].status # "none" => u \in DOMAIN pushed.insts
                    /\ Pr!Heard({"failed"}) # {} => Pr!Read.row.status = "failed"
                    /\ Pr!Heard({"applied"}) = DOMAIN pushed.insts => Pr!Read.row.status = "applied"
                    /\ Pr!Read.row.status = "applied" => Pr!Heard({"applied"}) = DOMAIN pushed.insts
                    /\ Pr!Heard(Pr!Reported) # {} => Pr!Read.row.status \in Pr!Reported
  BY Zenon DEF Pr!ReadFollowsReports
<1> DEFINE is == Pr!Read.row.insts
           F == Pr!Heard({"failed"})
           A == Pr!Heard({"applied"})
           B == Pr!Heard({"applying", "applied"})
<1>1. DOMAIN is = DOMAIN pushed.insts /\ DOMAIN is # {}
      /\ Pr!Read.row.status = Pr!DerivedStatus(is, pushed.sent, pushed.status)
  BY ReadIsHydrated, Zenon DEF IsHydrated, RowInv, RowConstants
<1>2. Pr!With(is, {"failed"}) = F /\ Pr!With(is, {"applied"}) = A /\ Pr!With(is, {"applying", "applied"}) = B
  <2>1. {"failed"} \subseteq Pr!Reported /\ {"applied"} \subseteq Pr!Reported
        /\ {"applying", "applied"} \subseteq Pr!Reported
    BY Zenon DEF Pr!Reported
  <2> QED BY <2>1, HeardIsShown, Zenon
<1>3. \A u \in UIDs : agent[u].status # "none" => u \in DOMAIN pushed.insts /\ agent[u].status \in Pr!Reported
  <2>1. Pr!None.status = "none"
    BY Zenon DEF Pr!None
  <2> QED BY <2>1, Zenon DEF RowInv, Written, Pr!Settled, IsReport
<1>4. A \subseteq B /\ A \subseteq DOMAIN is /\ B \subseteq DOMAIN is
  BY Zenon DEF Pr!Heard
<1>5. Pr!Heard(Pr!Reported) = F \cup B
  BY Zenon DEF Pr!Heard, Pr!Reported
<1>6. F \cap A = {}
  BY Zenon DEF Pr!Heard
<1>7. Pr!Read.row.status = "applied" /\ F = {} /\ A # DOMAIN is => B # {}
  <2> SUFFICES ASSUME pushed.status = "applied" PROVE F # {} \/ B # {}
    <3>1. \A x : Pr!canonicalPushStatus(x) = "applied" => x = "applied"
      BY Zenon DEF Pr!canonicalPushStatus
    <3> HIDE DEF is, F, A, B
    <3> QED BY <1>1, <1>2, <3>1, Zenon DEF Pr!DerivedStatus
  <2>1. PICK u \in UIDs : agent[u] # Pr!None
    BY Zenon DEF RowInv
  <2>2. agent[u].status \in Pr!Reported /\ u \in DOMAIN is
    BY <1>1, <2>1, Zenon DEF RowInv, IsReport, Written, Pr!Settled
  <2> QED BY <1>5, <2>2, Zenon DEF Pr!Heard
<1> HIDE DEF is, F, A, B
<1>8. /\ F # {} => Pr!Read.row.status = "failed"
      /\ F = {} /\ A = DOMAIN is => Pr!Read.row.status = "applied"
      /\ F = {} /\ A # DOMAIN is /\ B # {} => Pr!Read.row.status = "applying"
  BY <1>1, <1>2, Zenon DEF Pr!DerivedStatus
<1>9. A = DOMAIN is => F = {}
  BY <1>6, Zenon DEF F, Pr!Heard, is
<1>10. F # {} => Pr!Read.row.status # "applied"
  BY <1>8, Zenon
<1>11. Pr!Read.row.status = "applied" => A = DOMAIN is
  BY <1>7, <1>8, <1>10, Zenon
<1> QED BY <1>1, <1>3, <1>5, <1>8, <1>9, <1>11, Zenon DEF Pr!Reported, F, A

\* The timeout is shown for the silent targets and for no other.
LEMMA TimeoutsAreExact == ASSUME RowInv PROVE Pr!TimedOutAreSilent
<1>1. Pr!Read.late = {u \in DOMAIN pushed.insts : Pr!Read.row.insts[u].timedOut}
  BY ReadIsHydrated, Zenon DEF IsHydrated
<1> QED BY <1>1, ShownIs, Zenon DEF Pr!TimedOutAreSilent, Written

\* An instance in error is in one group, under the cause of its latest title.
LEMMA GroupsAreFaithful == ASSUME RowInv PROVE Pr!GroupsAreExact
<1> SUFFICES ASSUME Pr!Settled, NEW u \in DOMAIN pushed.insts
             PROVE  {c \in DOMAIN Pr!Read.groups : u \in Pr!Read.groups[c]} =
                        CASE u \in Pr!Read.late -> {"apply_timeout"}
                          [] agent[u].status = "failed" -> {Regrouped(agent[u].msg)}
                          [] OTHER -> {}
  BY Zenon DEF Pr!GroupsAreExact, Pr!GroupsOf, Regrouped
<1> DEFINE is == Pr!Read.row.insts
           errs == {v \in DOMAIN is : Pr!InError(is[v])}
           G == Pr!Read.groups
           in == {c \in DOMAIN G : u \in G[c]}
<1>1. Written(u)
  BY Zenon DEF RowInv, Written, Pr!Settled
<1>2. /\ DOMAIN is = DOMAIN pushed.insts /\ u \in DOMAIN is
      /\ G = Pr!buildErrorGroups(is, Pr!SanitizeRemoteConfigErrorMessage(pushed.msg))
      /\ (u \in Pr!Read.late <=> due /\ agent[u].status = "none")
  BY <1>1, ReadIsHydrated, TimeoutsAreExact, Zenon DEF IsHydrated, Pr!TimedOutAreSilent, Written
<1>3. u \in errs => in = {Pr!CauseOf(is[u])}
  <2> SUFFICES ASSUME u \in errs PROVE in = {Pr!CauseOf(is[u])}
    OBVIOUS
  <2>1. G = [c \in {Pr!CauseOf(is[v]) : v \in errs} |-> {v \in errs : Pr!CauseOf(is[v]) = c}]
    BY <1>2, Zenon DEF Pr!buildErrorGroups
  <2> HIDE DEF errs, is, G
  <2>2. DOMAIN G = {Pr!CauseOf(is[v]) : v \in errs} /\ \A c \in DOMAIN G : u \in G[c] <=> Pr!CauseOf(is[u]) = c
    BY <2>1, Zenon
  <2> QED BY <2>2, Zenon
<1>4. u \notin errs => in = {}
  <2> SUFFICES ASSUME u \notin errs PROVE in = {}
    OBVIOUS
  <2>1. PICK S : G = IF errs = {} THEN [c \in S |-> {}]
            ELSE [c \in {Pr!CauseOf(is[v]) : v \in errs} |-> {v \in errs : Pr!CauseOf(is[v]) = c}]
    BY <1>2, Zenon DEF Pr!buildErrorGroups
  <2> HIDE DEF errs, is, G
  <2>2. \A c \in DOMAIN G : u \notin G[c]
    BY <2>1, Zenon
  <2> QED BY <2>2, Zenon
<1>5. /\ u \in errs <=> agent[u].status = "failed" \/ (due /\ agent[u].status = "none")
      /\ due /\ agent[u].status = "none" => Pr!CauseOf(is[u]) = "apply_timeout"
      /\ agent[u].status = "failed" => Pr!CauseOf(is[u]) = Regrouped(agent[u].msg)
  BY <1>1, <1>2, ShownIs, Zenon
<1> HIDE DEF in, errs, is
<1>6. CASE u \in Pr!Read.late
  <2>1. in = {"apply_timeout"} /\ agent[u].status # "failed"
    BY <1>2, <1>3, <1>5, <1>6, Zenon
  <2> QED BY <1>6, <2>1, Zenon DEF in
<1>7. CASE u \notin Pr!Read.late /\ agent[u].status = "failed"
  <2>1. in = {Regrouped(agent[u].msg)}
    BY <1>3, <1>5, <1>7, Zenon
  <2> QED BY <1>7, <2>1, Zenon DEF in
<1>8. CASE u \notin Pr!Read.late /\ agent[u].status # "failed"
  <2>1. in = {}
    BY <1>2, <1>4, <1>5, <1>8, Zenon
  <2> QED BY <1>8, <2>1, Zenon DEF in
<1> QED BY <1>6, <1>7, <1>8, Zenon

\* Whatever the order in which HydratePushStatus, the sends, the reports, the
\* status timeout and restarts write the row of a push, a reader sees the
\* statuses the instances have reported; the timeout is shown for exactly the
\* silent targets; and an instance in error is in one group, under the cause that
\* the stored title of its latest report gives, which is unknown for a config
\* that the collector rejects: for any instances, targets and messages.
THEOREM RowFollowsReports ==
    ASSUME RowConstants
    PROVE  Pr!Spec => [](Pr!ReadFollowsReports /\ Pr!TimedOutAreSilent /\ Pr!GroupsAreExact)
<1>1. Pr!Init => RowInv
  BY RowInit, Zenon
<1>2. RowInv /\ [Pr!Next]_(Pr!vars) => RowInv'
  BY RowNext, Zenon
<1>3. RowInv => Pr!ReadFollowsReports /\ Pr!TimedOutAreSilent /\ Pr!GroupsAreExact
  BY ReadStatusFollows, TimeoutsAreExact, GroupsAreFaithful, Zenon
<1> QED BY <1>1, <1>2, <1>3, PTL DEF Pr!Spec

---------------------------------------------------------------------------
(* The answers about one config and one workload *)

CONSTANTS componentType, Missing, Workloads, Drafts, Environments, NoVersion
VARIABLES wl, draft, env, out
Cp == INSTANCE ConfigPlan

\* The local otelcol does one of the things that runRuntimeCheck tells apart.
PlanConstants == \A e \in Environments : e.binary.outcome \in Cp!Outcomes

\* The messages of a check have an error,
Errs(messages) == \E k \in DOMAIN messages : messages[k].severity = "error"

\* and all of them are warnings.
Codes == {"otelcol_version_unknown", "otelcol_too_old", "otelcol_version_mismatch", "otelcol_not_found",
          "otelcol_runtime_unavailable", "otelcol_runtime_timeout"}
Warnings == {Cp!Msg(c, "warning") : c \in Codes}

\* The version policy refuses the target.
Refused(target, minimum) == target # <<>> /\ minimum # <<>> /\ Cp!Below(target, minimum)

\* What four checks say together.
LEMMA FourChecks ==
    ASSUME NEW c1, NEW c2, NEW c3, NEW c4
    PROVE  Cp!Has(<<c1, c2, c3, c4>>, "error") <=>
               Errs(c1.messages) \/ Errs(c2.messages) \/ Errs(c3.messages) \/ Errs(c4.messages)
<1>. DEFINE s == <<c1, c2, c3, c4>>
<1>1. DOMAIN s = {1, 2, 3, 4} /\ s[1] = c1 /\ s[2] = c2 /\ s[3] = c3 /\ s[4] = c4
  BY SMT
<1>. HIDE DEF s
<1>2. Cp!Has(s, "error") <=> \E i \in {1, 2, 3, 4} : Errs(s[i].messages)
  BY <1>1, Zenon DEF Cp!Has, Errs
<1>. QED
  BY <1>1, <1>2, Zenon DEF s

\* What Append does.
LEMMA Appended ==
    ASSUME NEW S, NEW q \in Seq(S), NEW e \in S
    PROVE  /\ Append(q, e) \in Seq(S) /\ Len(Append(q, e)) = Len(q) + 1
           /\ Append(q, e)[Len(q) + 1] = e
           /\ \A i \in 1 .. Len(q) : Append(q, e)[i] = q[i]
BY SMT

\* One more check adds its errors.
LEMMA OneMoreCheck ==
    ASSUME NEW S, NEW q \in Seq(S), NEW e \in S
    PROVE  Cp!Has(Append(q, e), "error") <=> Cp!Has(q, "error") \/ Errs(e.messages)
<1>. DEFINE s == Append(q, e)
            n == Len(q) + 1
<1>1. DOMAIN s = DOMAIN q \cup {n} /\ s[n] = e /\ \A i \in DOMAIN q : s[i] = q[i]
  <2>1. s[n] = e /\ Len(s) = n /\ s \in Seq(S)
    BY Appended, Zenon
  <2>2. \A i \in DOMAIN q : s[i] = q[i]
    BY Appended, SMT
  <2>3. DOMAIN s = 1 .. n /\ DOMAIN q = 1 .. Len(q)
    <3>. HIDE DEF s
    <3>. QED
      BY <2>1, SMT
  <2>4. 1 .. n = (1 .. Len(q)) \cup {n}
    BY SMT
  <2>. QED
    BY <2>1, <2>2, <2>3, <2>4, Zenon
<1>. HIDE DEF s, n
<1>2. Cp!Has(s, "error") <=> (\E i \in DOMAIN q : Errs(q[i].messages)) \/ Errs(e.messages)
  <2>1. Cp!Has(s, "error") <=> \E i \in DOMAIN q \cup {n} : Errs(s[i].messages)
    BY <1>1, Zenon DEF Cp!Has, Errs
  <2>. QED
    BY <1>1, <2>1, Zenon
<1>3. Cp!Has(q, "error") <=> \E i \in DOMAIN q : Errs(q[i].messages)
  BY Zenon DEF Cp!Has, Errs
<1>. QED
  BY <1>2, <1>3, Zenon DEF s

\* A sequence of warnings has no error, and one with an error appended has.
LEMMA WarningsOnly == ASSUME NEW s \in Seq(Warnings) PROVE ~ Errs(s)
<1>1. \A k \in DOMAIN s : s[k] \in Warnings
  BY SMT
<1>2. \A c : Cp!Msg(c, "warning").severity # "error"
  BY SMT DEF Cp!Msg
<1>. QED
  BY <1>1, <1>2, Zenon DEF Errs, Warnings

LEMMA ErrorAdded == ASSUME NEW s \in Seq(Warnings), NEW m, m.severity = "error" PROVE Errs(Append(s, m))
<1>1. Len(s) + 1 \in DOMAIN Append(s, m) /\ Append(s, m)[Len(s) + 1] = m
  BY SMT
<1>. QED
  BY <1>1, Zenon DEF Errs

\* A warning is one.
LEMMA WarningMsg == ASSUME NEW c \in Codes PROVE Cp!Msg(c, "warning") \in Warnings
BY Zenon DEF Warnings

\* The notes about the version of the local otelcol are warnings.
LEMMA VersionNotes ==
    ASSUME NEW v, NEW t, NEW m PROVE Cp!VersionWarnings(v, t, m) \in Seq(Warnings)
<1>1. <<>> \in Seq(Warnings)
  BY SMT
<1>2. /\ <<Cp!Msg("otelcol_version_unknown", "warning")>> \in Seq(Warnings)
      /\ <<Cp!Msg("otelcol_too_old", "warning")>> \in Seq(Warnings)
      /\ <<Cp!Msg("otelcol_version_mismatch", "warning")>> \in Seq(Warnings)
  <2>1. \A w \in Warnings : <<w>> \in Seq(Warnings)
    BY SMT
  <2>. QED
    BY <2>1, WarningMsg, Zenon DEF Codes
<1>3. \A x, y, z \in Seq(Warnings) : x \o y \o z \in Seq(Warnings)
  BY SMT
<1>. QED
  BY <1>1, <1>2, <1>3, Zenon DEF Cp!VersionWarnings

\* The run of the local otelcol adds an error exactly when otelcol rejects the config.
LEMMA RuntimeErrors ==
    ASSUME NEW b, NEW t, NEW m, b.outcome \in Cp!Outcomes
    PROVE  Errs(Cp!runRuntimeCheck(b, t, m).messages) <=> b.outcome = "rejects"
<1>. DEFINE notes == Cp!VersionWarnings(b.version, t, m)
<1>1. notes \in Seq(Warnings)
  BY VersionNotes, Zenon
<1>. HIDE DEF notes
<1>a. \A c \in Codes : Append(notes, Cp!Msg(c, "warning")) \in Seq(Warnings)
  <2>1. \A w \in Warnings : Append(notes, w) \in Seq(Warnings)
    BY <1>1, SMT
  <2>. QED
    BY <2>1, WarningMsg, Zenon
<1>b. \A c, x : Cp!Result(c, x).messages = x
  BY Zenon DEF Cp!Result
<1>2. CASE b.outcome = "disabled"
  <2>1. Cp!runRuntimeCheck(b, t, m).messages = <<>>
    BY <1>2, SMT DEF Cp!runRuntimeCheck, Cp!Skipped
  <2>. QED
    BY <1>2, <2>1, SMT DEF Errs
<1>3. CASE b.outcome = "absent"
  <2>1. Cp!runRuntimeCheck(b, t, m) = Cp!Result("skipped", <<Cp!Msg("otelcol_not_found", "warning")>>)
    BY <1>3, SMT DEF Cp!runRuntimeCheck
  <2>2. <<Cp!Msg("otelcol_not_found", "warning")>> \in Seq(Warnings)
    <3>1. \A w \in Warnings : <<w>> \in Seq(Warnings)
      BY SMT
    <3>. QED
      BY <3>1, WarningMsg, Zenon DEF Codes
  <2>3. ~ Errs(Cp!runRuntimeCheck(b, t, m).messages)
    BY <1>b, <2>1, <2>2, WarningsOnly, Zenon
  <2>. QED
    BY <1>3, <2>3, SMT
<1>4. CASE b.outcome = "unavailable"
  <2>1. Cp!runRuntimeCheck(b, t, m)
          = Cp!Result(Cp!statusWithWarnings(notes), Append(notes, Cp!Msg("otelcol_runtime_unavailable", "warning")))
    BY <1>4, SMT DEF Cp!runRuntimeCheck, notes
  <2>2. Append(notes, Cp!Msg("otelcol_runtime_unavailable", "warning")) \in Seq(Warnings)
    BY <1>a, Zenon DEF Codes
  <2>3. ~ Errs(Cp!runRuntimeCheck(b, t, m).messages)
    BY <1>b, <2>1, <2>2, WarningsOnly, Zenon
  <2>. QED
    BY <1>4, <2>3, SMT
<1>5. CASE b.outcome = "passes"
  <2>1. Cp!runRuntimeCheck(b, t, m) = Cp!Result(Cp!statusWithWarnings(notes), notes)
    BY <1>5, SMT DEF Cp!runRuntimeCheck, notes
  <2>2. ~ Errs(Cp!runRuntimeCheck(b, t, m).messages)
    BY <1>1, <1>b, <2>1, WarningsOnly, Zenon
  <2>. QED
    BY <1>5, <2>2, SMT
<1>6. CASE b.outcome = "timeout"
  <2>1. Cp!runRuntimeCheck(b, t, m)
          = Cp!Result("warning", Append(notes, Cp!Msg("otelcol_runtime_timeout", "warning")))
    BY <1>6, SMT DEF Cp!runRuntimeCheck, notes
  <2>2. Append(notes, Cp!Msg("otelcol_runtime_timeout", "warning")) \in Seq(Warnings)
    BY <1>a, Zenon DEF Codes
  <2>3. ~ Errs(Cp!runRuntimeCheck(b, t, m).messages)
    BY <1>b, <2>1, <2>2, WarningsOnly, Zenon
  <2>. QED
    BY <1>6, <2>3, SMT
<1>7. CASE b.outcome = "rejects"
  <2>1. Cp!runRuntimeCheck(b, t, m)
          = Cp!Result("failed", Append(notes, Cp!Msg("otelcol_validation_failed", "error")))
    BY <1>7, SMT DEF Cp!runRuntimeCheck, notes
  <2>2. Cp!Msg("otelcol_validation_failed", "error").severity = "error"
    BY SMT DEF Cp!Msg
  <2>3. Errs(Append(notes, Cp!Msg("otelcol_validation_failed", "error")))
    BY <1>1, <2>2, ErrorAdded, Zenon
  <2>. QED
    BY <1>7, <1>b, <2>1, <2>3, Zenon
<1>. QED
  BY <1>2, <1>3, <1>4, <1>5, <1>6, <1>7, Zenon DEF Cp!Outcomes

\* Four checks, whatever they are.
IsFour(s) == \E c1, c2, c3, c4 : s = <<c1, c2, c3, c4>>

LEMMA FifthCheck ==
    ASSUME NEW s, IsFour(s), NEW e
    PROVE  Cp!Has(Append(s, e), "error") <=> Cp!Has(s, "error") \/ Errs(e.messages)
<1>1. PICK c1, c2, c3, c4 : s = <<c1, c2, c3, c4>>
  BY Zenon DEF IsFour
<1>2. <<c1, c2, c3, c4>> \in Seq({c1, c2, c3, c4, e}) /\ e \in {c1, c2, c3, c4, e}
  BY SMT
<1>. QED
  BY <1>1, <1>2, OneMoreCheck, Zenon

\* The version policy adds an error exactly when it refuses the target.
LEMMA VersionErrors ==
    ASSUME NEW t, NEW m PROVE Errs(Cp!validateVersionCompatibility(t, m)) <=> Refused(t, m)
<1>1. /\ Cp!Msg("target_version_unknown", "warning").severity = "warning"
      /\ Cp!Msg("target_version_too_old", "error").severity = "error"
  BY SMT DEF Cp!Msg
<1>2. \A x : DOMAIN <<x>> = {1} /\ <<x>>[1] = x
  BY SMT
<1>a. "warning" # "error"
  BY SMT
<1>3. CASE t = <<>>
  <2>1. Cp!validateVersionCompatibility(t, m) = <<Cp!Msg("target_version_unknown", "warning")>>
    BY <1>3, Zenon DEF Cp!validateVersionCompatibility
  <2>. QED
    BY <1>1, <1>2, <1>3, <1>a, <2>1, ZenonT(30) DEF Errs, Refused
<1>4. CASE Refused(t, m)
  <2>1. Cp!validateVersionCompatibility(t, m) = <<Cp!Msg("target_version_too_old", "error")>>
    BY <1>4, Zenon DEF Cp!validateVersionCompatibility, Refused
  <2>. QED
    BY <1>1, <1>2, <1>4, <2>1, Zenon DEF Errs
<1>5. CASE t # <<>> /\ ~ Refused(t, m)
  <2>1. Cp!validateVersionCompatibility(t, m) = <<>>
    BY <1>5, Zenon DEF Cp!validateVersionCompatibility, Refused
  <2>2. DOMAIN <<>> = {}
    BY SMT
  <2>. QED
    BY <1>5, <2>1, <2>2, Zenon DEF Errs
<1>. QED
  BY <1>3, <1>4, <1>5, Zenon

\* A config that cannot be read has an error, whatever else is asked.
Unreadable(cfg) == cfg.yaml \in {"bad", "none", "empty"}

LEMMA UnreadableFails ==
    ASSUME NEW cfg, NEW av, NEW t, NEW m, Unreadable(cfg)
    PROVE  IsFour(Cp!validateStatic(cfg, av, t, m)) /\ Cp!Has(Cp!validateStatic(cfg, av, t, m), "error")
<1>. DEFINE Fails(x) == <<Cp!Check("yaml_static", <<x>>), Cp!Skipped("collector_structure"),
                          Cp!Skipped("component_availability"), Cp!Skipped("collector_version_compatibility")>>
<1>1. \/ Cp!validateStatic(cfg, av, t, m) = Fails(Cp!Msg("yaml_parse", "error"))
      \/ Cp!validateStatic(cfg, av, t, m) = Fails(Cp!Msg("empty_config", "error"))
  <2>1. <<Cp!Msg("yaml_parse", "error")>> # <<>> /\ <<Cp!Msg("empty_config", "error")>> # <<>>
    BY SMT
  <2>2. CASE cfg.yaml = "bad"
    BY <2>1, <2>2, SMT DEF Cp!validateStatic
  <2>3. CASE cfg.yaml \in {"none", "empty"}
    BY <2>1, <2>3, SMT DEF Cp!validateStatic
  <2>. QED
    BY <2>2, <2>3, Zenon DEF Unreadable
<1>2. ASSUME NEW x, x.severity = "error" PROVE IsFour(Fails(x)) /\ Cp!Has(Fails(x), "error")
  <2>1. Cp!Check("yaml_static", <<x>>).messages = <<x>>
    BY Zenon DEF Cp!Check
  <2>2. DOMAIN <<x>> = {1} /\ <<x>>[1] = x
    BY SMT
  <2>3. Errs(Cp!Check("yaml_static", <<x>>).messages)
    BY <1>2, <2>1, <2>2, Zenon DEF Errs
  <2>4. Cp!Has(Fails(x), "error")
    BY <2>3, FourChecks, Zenon
  <2>. QED
    BY <2>4, Zenon DEF IsFour
<1>3. Cp!Msg("yaml_parse", "error").severity = "error" /\ Cp!Msg("empty_config", "error").severity = "error"
  BY SMT DEF Cp!Msg
<1>. HIDE DEF Fails
<1>. QED
  BY <1>1, <1>2, <1>3, Zenon

\* The checks of a config that can be read, without the last one.
Checked(cfg, av, last) ==
    <<Cp!Check("yaml_static", <<>>), Cp!Check("collector_structure", Cp!validateCollectorStructure(cfg)),
      IF Cp!statusWithWarnings(Cp!validateCollectorStructure(cfg)) # "failed"
      THEN Cp!Check("component_availability", Cp!validateComponentAvailability(Cp!ComponentRefs(cfg), av))
      ELSE Cp!Skipped("component_availability"), last>>

\* Of the static checks only the last one looks at versions.
LEMMA StaticErrors ==
    ASSUME NEW cfg, NEW av, NEW t, NEW m
    PROVE  /\ IsFour(Cp!validateStatic(cfg, av, t, m))
           /\ Cp!Has(Cp!validateStatic(cfg, av, t, m), "error") <=>
                  Cp!Has(Cp!validateStatic(cfg, av, <<>>, <<>>), "error") \/ Refused(t, m)
<1>1. CASE Unreadable(cfg)
  BY <1>1, UnreadableFails, Zenon
<1>2. CASE ~ Unreadable(cfg)
  <2>. DEFINE L(x, y) == Cp!Check("collector_version_compatibility", Cp!validateVersionCompatibility(x, y))
  <2>1. ASSUME NEW x, NEW y PROVE Cp!validateStatic(cfg, av, x, y) = Checked(cfg, av, L(x, y))
    BY <1>2, SMT DEF Cp!validateStatic, Unreadable, Checked
  <2>2. ASSUME NEW x, NEW y PROVE Errs(L(x, y).messages) <=> Refused(x, y)
    <3>1. L(x, y).messages = Cp!validateVersionCompatibility(x, y)
      BY Zenon DEF Cp!Check
    <3>. QED
      BY <3>1, VersionErrors, Zenon
  <2>3. ~ Refused(<<>>, <<>>)
    BY Zenon DEF Refused
  <2>4. PICK P \in BOOLEAN : \A c : Cp!Has(Checked(cfg, av, c), "error") <=> P \/ Errs(c.messages)
    <3>1. PICK c1, c2, c3 : \A c : Checked(cfg, av, c) = <<c1, c2, c3, c>>
      BY Zenon DEF Checked
    <3>2. \A c : Cp!Has(Checked(cfg, av, c), "error") <=>
              (Errs(c1.messages) \/ Errs(c2.messages) \/ Errs(c3.messages)) \/ Errs(c.messages)
      <4>1. ASSUME NEW c
            PROVE  Cp!Has(<<c1, c2, c3, c>>, "error") <=>
                       Errs(c1.messages) \/ Errs(c2.messages) \/ Errs(c3.messages) \/ Errs(c.messages)
        BY FourChecks
      <4>. QED
        BY <3>1, <4>1, Zenon
    <3>. QED
      BY <3>2, Zenon
  <2>5. IsFour(Cp!validateStatic(cfg, av, t, m))
    BY <2>1, Zenon DEF Checked, IsFour
  <2>. HIDE DEF L
  <2>. QED
    BY <2>1, <2>2, <2>3, <2>4, <2>5, Zenon
<1>. QED
  BY <1>1, <1>2, Zenon

\* The verdict is that of the static checks without versions, of the version policy and of otelcol.
LEMMA ValidWhen ==
    ASSUME NEW cfg, NEW av, NEW t, NEW m, NEW b, b.outcome \in Cp!Outcomes
    PROVE  Cp!ValidateWithRuntime(cfg, av, t, m, b).valid <=>
               Cp!Validate(cfg, av).valid /\ ~ Refused(t, m) /\ b.outcome # "rejects"
<1>. DEFINE static == Cp!validateStatic(cfg, av, t, m)
            run == IF Cp!Has(static, "error") THEN Cp!Skipped("otelcol_runtime") ELSE Cp!runRuntimeCheck(b, t, m)
<1>1. \A c : Cp!finalize(c).valid <=> ~ Cp!Has(c, "error")
  BY Zenon DEF Cp!finalize
<1>2. Cp!ValidateWithRuntime(cfg, av, t, m, b).valid <=> ~ Cp!Has(Append(static, run), "error")
  BY <1>1, Zenon DEF Cp!ValidateWithRuntime
<1>3. Cp!Validate(cfg, av).valid <=> ~ Cp!Has(Cp!validateStatic(cfg, av, <<>>, <<>>), "error")
  BY <1>1, Zenon DEF Cp!Validate
<1>4. /\ IsFour(static)
      /\ Cp!Has(static, "error") <=> Cp!Has(Cp!validateStatic(cfg, av, <<>>, <<>>), "error") \/ Refused(t, m)
  BY StaticErrors, Zenon
<1>5. Cp!Has(Append(static, run), "error") <=> Cp!Has(static, "error") \/ Errs(run.messages)
  BY <1>4, FifthCheck, Zenon
<1>6. ~ Cp!Has(static, "error") => (Errs(run.messages) <=> b.outcome = "rejects")
  BY RuntimeErrors, Zenon
<1>. QED
  BY <1>2, <1>3, <1>4, <1>5, <1>6, Zenon

\* A version that is known has parts.
LEMMA PartsKnown == ASSUME NEW v PROVE Cp!Parts(v) = <<>> <=> v = NoVersion
<1>1. CASE v = NoVersion
  BY <1>1, Zenon DEF Cp!Parts
<1>2. CASE v # NoVersion
  <2>1. Cp!Parts(v) = Cp!versionParts(v)
    BY <1>2, Zenon DEF Cp!Parts
  <2>2. DOMAIN Cp!versionParts(v) = 1 .. 3
    BY Zenon DEF Cp!versionParts
  <2>3. 1 \in 1 .. 3 /\ 1 \notin DOMAIN <<>>
    BY SMT
  <2>. QED
    BY <1>2, <2>1, <2>2, <2>3, Zenon
<1>. QED
  BY <1>1, <1>2, Zenon

\* The verdict on a draft for a workload, in the words of the properties.
LEMMA DraftVerdict ==
    ASSUME NEW w, NEW cfg, NEW e, e.binary.outcome \in Cp!Outcomes
    PROVE  Cp!validateApprovalDraft(w, cfg, e).valid <=>
               /\ Cp!Validate(cfg, w.available).valid /\ e.binary.outcome # "rejects"
               /\ ~ (w.version # NoVersion /\ e.minimum # NoVersion
                       /\ Cp!Below(Cp!Parts(w.version), Cp!Parts(e.minimum)))
BY ValidWhen, PartsKnown, Zenon DEF Cp!validateApprovalDraft, Refused

\* An unreadable config is valid for nobody.
LEMMA UnreadableIsInvalid == ASSUME NEW cfg, NEW av, Unreadable(cfg) PROVE ~ Cp!Validate(cfg, av).valid
<1>1. Cp!Has(Cp!validateStatic(cfg, av, <<>>, <<>>), "error")
  BY UnreadableFails, Zenon
<1>. QED
  BY <1>1, Zenon DEF Cp!Validate, Cp!finalize

\* When the plan says "can push", when the push is sent, and when the preview calls a workload capable.
LEMMA PlanWhen ==
    ASSUME NEW w, NEW cfg, NEW e
    PROVE  Cp!buildConfigApplicationPlan(w, cfg, e).canPush <=>
               /\ cfg.yaml # "none" /\ e.policy # "block"
               /\ w.type = "collector" /\ w.accepts /\ w.status = "connected"
               /\ Cp!validateApprovalDraft(w, cfg, e).valid
<1>. DEFINE excluded == Cp!buildConfigApplicationPlanTarget(w, cfg, e)
            failures == (IF cfg.yaml = "none" THEN {"empty_config"} ELSE {})
                        \cup (IF excluded # {} THEN {"all_targets_excluded"} ELSE {})
                        \cup ({"validation_failed"} \cap excluded)
                        \cup (IF e.policy = "block" THEN {"config_policy_blocked"} ELSE {})
<1>1. Cp!buildConfigApplicationPlan(w, cfg, e).canPush <=> failures = {}
  BY Zenon DEF Cp!buildConfigApplicationPlan
<1>2. excluded = {} <=> /\ w.type = "collector" /\ w.accepts /\ w.status = "connected"
                        /\ Cp!validateApprovalDraft(w, cfg, e).valid
  BY Zenon DEF Cp!buildConfigApplicationPlanTarget, Cp!workloadIsConnected
<1>3. failures = {} <=> cfg.yaml # "none" /\ e.policy # "block" /\ excluded = {}
  <2>. HIDE DEF excluded
  <2>. QED
    BY Zenon
<1>. HIDE DEF excluded, failures
<1>. QED
  BY <1>1, <1>2, <1>3, Zenon

LEMMA PushWhen ==
    ASSUME NEW w, NEW cfg, NEW e
    PROVE  Cp!handlePushConfigApproval(w, cfg, e) = "sent" <=>
               /\ w.accepts /\ w.status = "connected" /\ Cp!validateApprovalDraft(w, cfg, e).valid
               /\ e.policy # "block"
<1>1. "remote_config_unsupported" # "sent" /\ "workload_not_connected" # "sent"
  BY SMT
<1>2. "validation_errors" # "sent" /\ "config_policy_blocked" # "sent"
  BY SMT
<1>. QED
  BY <1>1, <1>2, Zenon DEF Cp!handlePushConfigApproval, Cp!workloadIsConnected

LEMMA PreviewWhen ==
    ASSUME NEW w, NEW cfg, cfg.yaml # "none"
    PROVE  Cp!classifyPushPreviewTarget(w, cfg) = "remote_config_capable" <=>
               /\ w.status # "disconnected" /\ w.type = "collector" /\ w.accepts
               /\ Cp!Validate(cfg, w.available).valid
<1>1. "offline" # "remote_config_capable" /\ "read_only" # "remote_config_capable"
  BY SMT
<1>2. "incompatible" # "remote_config_capable"
  BY SMT
<1>. QED
  BY <1>1, <1>2, Zenon DEF Cp!classifyPushPreviewTarget

\* The answers on record are those to the question on record.
PlanInv ==
    /\ env \in Environments
    /\ out # <<>> => /\ out.plan = Cp!buildConfigApplicationPlan(wl, draft, env)
                     /\ out.preview = Cp!classifyPushPreviewTarget(wl, draft)
                     /\ out.push = Cp!handlePushConfigApproval(wl, draft, env)

\* For any workloads, configs, minimum versions and policies: the application
\* plan of a collector says "can push" exactly when handlePushConfigApproval
\* would send, and the preview of a group push agrees with the plan, up to a
\* degraded state, the version policy, otelcol and the policies, which it does
\* not look at.
THEOREM PlansAreTruthful ==
    ASSUME PlanConstants PROVE Cp!Spec => [](Cp!PlanIsTruthful /\ Cp!PreviewIsExact)
<1>1. Cp!Init => PlanInv
  BY Zenon DEF Cp!Init, PlanInv
<1>2. PlanInv /\ [Cp!Next]_(Cp!vars) => PlanInv'
  <2> SUFFICES ASSUME PlanInv, [Cp!Next]_(Cp!vars) PROVE PlanInv'
    BY Zenon
  <2>1. CASE Cp!Ask
    <3>1. /\ env' = env /\ wl' = wl /\ draft' = draft
          /\ out'.plan = Cp!buildConfigApplicationPlan(wl, draft, env)
          /\ out'.preview = Cp!classifyPushPreviewTarget(wl, draft)
          /\ out'.push = Cp!handlePushConfigApproval(wl, draft, env)
      BY <2>1, Zenon DEF Cp!Ask
    <3>. QED
      BY <3>1, Zenon DEF PlanInv
  <2>2. CASE UNCHANGED Cp!vars
    BY <2>2, Zenon DEF Cp!vars, PlanInv
  <2> QED
    BY <2>1, <2>2, Zenon DEF Cp!Next
<1>3. PlanInv => Cp!PlanIsTruthful /\ Cp!PreviewIsExact
  <2> SUFFICES ASSUME PlanInv, out # <<>> PROVE Cp!PlanIsTruthful /\ Cp!PreviewIsExact
    BY Zenon DEF Cp!PlanIsTruthful, Cp!PreviewIsExact, Cp!Asked
  <2>1. env.binary.outcome \in Cp!Outcomes
    BY Zenon DEF PlanConstants, PlanInv
  <2>2. out.plan.canPush <=> /\ draft.yaml # "none" /\ env.policy # "block"
                             /\ wl.type = "collector" /\ wl.accepts /\ wl.status = "connected"
                             /\ Cp!validateApprovalDraft(wl, draft, env).valid
    BY PlanWhen, Zenon DEF PlanInv
  <2>3. Cp!validateApprovalDraft(wl, draft, env).valid <=>
           Cp!Validate(draft, wl.available).valid /\ env.binary.outcome # "rejects" /\ ~ Cp!TooOld
    BY <2>1, DraftVerdict, Zenon DEF Cp!TooOld
  <2>4. draft.yaml = "none" => ~ Cp!Validate(draft, wl.available).valid
    <3>1. draft.yaml = "none" => Unreadable(draft)
      BY Zenon DEF Unreadable
    <3>. QED
      BY <3>1, UnreadableIsInvalid, Zenon
  <2>5. out.push = "sent" <=> /\ wl.accepts /\ wl.status = "connected"
                              /\ Cp!validateApprovalDraft(wl, draft, env).valid /\ env.policy # "block"
    BY PushWhen, Zenon DEF PlanInv
  <2>6. draft.yaml # "none" =>
           (out.preview = "remote_config_capable" <=>
               /\ wl.status # "disconnected" /\ wl.type = "collector" /\ wl.accepts
               /\ Cp!Validate(draft, wl.available).valid)
    BY PreviewWhen, Zenon DEF PlanInv
  <2>7. "connected" # "disconnected"
    BY SMT
  <2> QED
    BY <2>2, <2>3, <2>4, <2>5, <2>6, <2>7, Zenon DEF Cp!PlanIsTruthful, Cp!PreviewIsExact
<1> QED BY <1>1, <1>2, <1>3, PTL DEF Cp!Spec
=============================================================================
