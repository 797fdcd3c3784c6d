------------------------------ MODULE AuthProofs ------------------------------
(***************************************************************************)
(* The audit of tokens, for any number of requests, tokens and server      *)
(* processes: first the outbox and its dispatchers, then the trail that    *)
(* the transactions of the requests leave in it. Beside it, with variables *)
(* of their own, the login with its limiter and its audit event, the seed  *)
(* of the administrator and the groups of a user.                          *)
(***************************************************************************)
EXTENDS TokenAudit, TLAPS

(***************************************************************************)
(* The outbox                                                              *)
(***************************************************************************)

\* What the outbox takes for granted: durations are numbers, and the claim
\* column of a row that nobody has claimed names no dispatcher.
OutboxConstants ==
    Lease \in Nat /\ SinkTimeout \in Nat /\ MaxTries \in Nat /\ Nobody \notin Dispatchers

\* A row; S is what next_attempt_at may be.
RowOf(S) == [state : {"absent", "pending", "delivered"}, next : S, holder : Dispatchers \cup {Nobody},
             lease : Nat, tries : Nat]

RowsOK(R) == \E S : R \in [Events -> RowOf(S)]

Claim == [at : {"idle", "claimed", "sink", "ack", "reschedule"}, event : Events \cup {NoEvent},
          lease : Nat, deadline : Nat, inTime : BOOLEAN]

\* While a lease runs, the row is pending and has the claim; a sink that keeps
\* its deadline is done before the lease; an acknowledged event was accepted.
ClaimOK(q, d, R, A) ==
    /\ q.at # "idle" => q.event \in Events
    /\ q.at = "ack" => q.event \in A
    /\ (q.at \in {"claimed", "sink"} /\ q.lease > 0)
          => (R[q.event].state = "pending" /\ R[q.event].holder = d /\ R[q.event].lease = q.lease)
    /\ (SinkIsPunctual /\ q.at = "sink") => q.lease > q.deadline

OutboxInv ==
    /\ RowsOK(row) /\ disp \in [Dispatchers -> Claim]
    /\ \A d \in Dispatchers : ClaimOK(disp[d], d, row, accepted)
    /\ DeliveredWasAccepted

\* A step of d leaves alone what another dispatcher holds under a lease.
Undisturbed(d, R, N) ==
    \A f \in Events : N[f] = R[f] \/ R[f].holder \in {d, Nobody} \/ R[f].lease = 0

\* No event is recorded and none is forgotten.
SameTrail(R, N) == \A f \in Events : N[f].state = "absent" <=> R[f].state = "absent"

LEMMA ClaimFields ==
    ASSUME NEW q \in Claim
    PROVE  /\ q.at \in {"idle", "claimed", "sink", "ack", "reschedule"} /\ q.event \in Events \cup {NoEvent}
           /\ q.lease \in Nat /\ q.deadline \in Nat /\ q.inTime \in BOOLEAN
BY Zenon DEF Claim

LEMMA RowFields ==
    ASSUME NEW R, RowsOK(R), NEW e \in Events
    PROVE  /\ R[e].state \in {"absent", "pending", "delivered"} /\ R[e].holder \in Dispatchers \cup {Nobody}
           /\ R[e].lease \in Nat /\ R[e].tries \in Nat
<1>1. PICK S : R \in [Events -> RowOf(S)]
  BY Zenon DEF RowsOK
<1>2. R[e] \in RowOf(S)
  BY Zenon, <1>1
<1> QED
  BY Zenon, <1>2 DEF RowOf

\* What a step of one dispatcher must show.
LEMMA OneDispatcher ==
    ASSUME OutboxConstants, OutboxInv, NEW d \in Dispatchers, NEW new \in Claim,
           disp' = [disp EXCEPT ![d] = new], RowsOK(row'), accepted \subseteq accepted',
           ClaimOK(new, d, row', accepted'), Undisturbed(d, row, row'),
           \A f \in Events : row'[f].state = "delivered" => f \in accepted'
    PROVE  OutboxInv'
<1>1. disp' \in [Dispatchers -> Claim] /\ disp'[d] = new /\ \A c \in Dispatchers \ {d} : disp'[c] = disp[c]
  BY Zenon DEF OutboxInv
<1>2. ASSUME NEW c \in Dispatchers, c # d
      PROVE  ClaimOK(disp[c], c, row', accepted')
  <2>1. ClaimOK(disp[c], c, row, accepted) /\ disp[c] \in Claim
    BY Zenon DEF OutboxInv
  <2> DEFINE q == disp[c]
  <2>2. q.lease \in Nat
    BY Zenon, <2>1, ClaimFields
  <2>3. ASSUME q.at \in {"claimed", "sink"}, q.lease > 0
        PROVE  row'[q.event].state = "pending" /\ row'[q.event].holder = c /\ row'[q.event].lease = q.lease
    <3>1. q.event \in Events /\ row[q.event].state = "pending" /\ row[q.event].holder = c
          /\ row[q.event].lease = q.lease
      BY Zenon, <2>1, <2>3 DEF ClaimOK
    <3>2. row[q.event].lease # 0
      BY <3>1, <2>2, <2>3
    <3>3. row'[q.event] = row[q.event]
      BY Zenon, <3>1, <3>2, <1>2 DEF Undisturbed, OutboxConstants
    <3> QED
      BY Zenon, <3>1, <3>3
  <2> QED
    BY Zenon, <2>1, <2>3 DEF ClaimOK
<1>3. ASSUME NEW c \in Dispatchers
      PROVE  ClaimOK(disp'[c], c, row', accepted')
  BY Zenon, <1>1, <1>2
<1> QED
  BY Zenon, <1>1, <1>3 DEF OutboxInv, DeliveredWasAccepted
LEMMA OutboxStart ==
    ASSUME OutboxConstants, OutboxInit
    PROVE  OutboxInv
<1>1. Idle \in Claim /\ Idle.at = "idle"
  BY DEF Idle, Claim
<1>2. Absent \in RowOf({0}) /\ Absent.state = "absent"
  BY DEF Absent, RowOf
<1>3. row \in [Events -> RowOf({0})] /\ \A e \in Events : row[e].state = "absent"
  BY Zenon, <1>2 DEF OutboxInit
<1>4. RowsOK(row)
  BY Zenon, <1>3 DEF RowsOK
<1>5. disp \in [Dispatchers -> Claim] /\ \A d \in Dispatchers : disp[d].at = "idle"
  BY Zenon, <1>1 DEF OutboxInit
<1>6. \A d \in Dispatchers : ClaimOK(disp[d], d, row, accepted)
  BY Zenon, <1>5 DEF ClaimOK
<1> QED
  BY Zenon, <1>3, <1>4, <1>5, <1>6 DEF OutboxInv, DeliveredWasAccepted

LEMMA IdleClaim ==
    ASSUME NEW d, NEW R, NEW A
    PROVE  Idle \in Claim /\ ClaimOK(Idle, d, R, A)
<1>1. Idle \in Claim /\ Idle.at = "idle"
  BY DEF Idle, Claim
<1> QED
  BY Zenon, <1>1 DEF ClaimOK

\* A dispatcher that gives up its attempt.
LEMMA GivesUp ==
    ASSUME OutboxConstants, OutboxInv, NEW d \in Dispatchers,
           disp' = [disp EXCEPT ![d] = Idle], UNCHANGED <<row, accepted>>
    PROVE  OutboxInv' /\ SameTrail(row, row')
<1>1. row' = row /\ accepted' = accepted /\ RowsOK(row')
  BY Zenon DEF OutboxInv
<1>2. Undisturbed(d, row, row') /\ SameTrail(row, row')
  BY Zenon, <1>1 DEF Undisturbed, SameTrail
<1>3. \A f \in Events : row'[f].state = "delivered" => f \in accepted'
  BY Zenon, <1>1 DEF OutboxInv, DeliveredWasAccepted
<1>4. Idle \in Claim /\ ClaimOK(Idle, d, row', accepted') /\ accepted \subseteq accepted'
  BY Zenon, IdleClaim, <1>1
<1> HIDE DEF OutboxInv
<1> QED
  BY Zenon, <1>1, <1>2, <1>3, <1>4, OneDispatcher

LEMMA RowPut ==
    ASSUME NEW S, NEW R \in [Events -> RowOf(S)], NEW e \in Events, NEW r \in RowOf(S), NEW N, N = [R EXCEPT ![e] = r]
    PROVE  RowsOK(N) /\ N[e] = r /\ \A f \in Events \ {e} : N[f] = R[f]
<1>1. N \in [Events -> RowOf(S)] /\ N[e] = r /\ \A f \in Events \ {e} : N[f] = R[f]
  BY Zenon
<1> QED
  BY Zenon, <1>1 DEF RowsOK

\* The rows after d has claimed e.
Claimed(R, e, d) ==
    [R EXCEPT ![e].holder = d, ![e].lease = Lease, ![e].tries = IF @ = MaxTries THEN @ ELSE @ + 1]

LEMMA RowClaimed ==
    ASSUME NEW R, RowsOK(R), NEW e \in Events, NEW d \in Dispatchers, OutboxConstants
    PROVE  \E N : /\ N = Claimed(R, e, d) /\ RowsOK(N) /\ N[e].state = R[e].state /\ N[e].holder = d
                  /\ N[e].lease = Lease /\ \A f \in Events \ {e} : N[f] = R[f]
<1>1. PICK S : R \in [Events -> RowOf(S)]
  BY Zenon DEF RowsOK
<1>2. R[e] \in RowOf(S)
  BY Zenon, <1>1
<1> DEFINE t == IF R[e].tries = MaxTries THEN R[e].tries ELSE R[e].tries + 1
           r == [R[e] EXCEPT !.holder = d, !.lease = Lease, !.tries = t]
<1>3. R[e].tries \in Nat
  BY Zenon, <1>2 DEF RowOf
<1>4. t \in Nat
  BY <1>3 DEF OutboxConstants
<1> HIDE DEF t
<1>5. r \in RowOf(S) /\ r.state = R[e].state /\ r.holder = d /\ r.lease = Lease
  BY Zenon, <1>2, <1>4 DEF RowOf, OutboxConstants
<1>6. Claimed(R, e, d) = [R EXCEPT ![e] = r]
  BY Zenon, <1>1, <1>2 DEF t, RowOf, Claimed
<1> HIDE DEF r
<1>7. r \in RowOf(S)
  BY Zenon, <1>5
<1>8. PICK N : N = [R EXCEPT ![e] = r]
  BY Zenon
<1>9. RowsOK(N) /\ N[e] = r /\ \A f \in Events \ {e} : N[f] = R[f]
  BY Zenon, <1>1, <1>8, <1>7, RowPut
<1> QED
  BY Zenon, <1>5, <1>6, <1>8, <1>9

\* The rows after e was delivered, and after it was put off until n.
Delivered(R, e) == [R EXCEPT ![e].state = "delivered", ![e].holder = Nobody, ![e].lease = 0]
PutOff(R, e, n) == [R EXCEPT ![e].next = n, ![e].holder = Nobody, ![e].lease = 0]

LEMMA RowDelivered ==
    ASSUME NEW R, RowsOK(R), NEW e \in Events
    PROVE  \E N : /\ N = Delivered(R, e) /\ RowsOK(N) /\ N[e].state = "delivered"
                  /\ \A f \in Events \ {e} : N[f] = R[f]
<1>1. PICK S : R \in [Events -> RowOf(S)]
  BY Zenon DEF RowsOK
<1>2. R[e] \in RowOf(S)
  BY Zenon, <1>1
<1> DEFINE r == [R[e] EXCEPT !.state = "delivered", !.holder = Nobody, !.lease = 0]
<1>3. r \in RowOf(S) /\ r.state = "delivered"
  BY Zenon, <1>2 DEF RowOf
<1>4. Delivered(R, e) = [R EXCEPT ![e] = r]
  BY Zenon, <1>1, <1>2 DEF RowOf, Delivered
<1> HIDE DEF r
<1>5. PICK N : N = [R EXCEPT ![e] = r]
  BY Zenon
<1>6. RowsOK(N) /\ N[e] = r /\ \A f \in Events \ {e} : N[f] = R[f]
  BY Zenon, <1>1, <1>3, <1>5, RowPut
<1> QED
  BY Zenon, <1>3, <1>4, <1>5, <1>6

LEMMA RowPutOff ==
    ASSUME NEW R, RowsOK(R), NEW e \in Events, NEW n
    PROVE  \E N : /\ N = PutOff(R, e, n) /\ RowsOK(N) /\ N[e].state = R[e].state
                  /\ \A f \in Events \ {e} : N[f] = R[f]
<1>1. PICK S : R \in [Events -> RowOf(S)]
  BY Zenon DEF RowsOK
<1> DEFINE T == S \cup {n}
<1>2. R \in [Events -> RowOf(T)]
  <2>1. RowOf(S) \subseteq RowOf(T)
    BY DEF RowOf
  <2> QED
    BY Zenon, <1>1, <2>1
<1>3. R[e] \in RowOf(T) /\ n \in T
  BY Zenon, <1>2
<1> HIDE DEF T
<1> DEFINE r == [R[e] EXCEPT !.next = n, !.holder = Nobody, !.lease = 0]
<1>4. r \in RowOf(T) /\ r.state = R[e].state
  BY Zenon, <1>3 DEF RowOf
<1>5. PutOff(R, e, n) = [R EXCEPT ![e] = r]
  BY Zenon, <1>2, <1>3 DEF RowOf, PutOff
<1> HIDE DEF r
<1>6. PICK N : N = [R EXCEPT ![e] = r]
  BY Zenon
<1>7. r \in RowOf(T)
  BY Zenon, <1>4
<1>8. RowsOK(N) /\ N[e] = r /\ \A f \in Events \ {e} : N[f] = R[f]
  BY Zenon, <1>2, <1>6, <1>7, RowPut
<1> QED
  BY Zenon, <1>4, <1>5, <1>6, <1>8

LEMMA ClaimStep ==
    ASSUME OutboxConstants, OutboxInv, NEW d \in Dispatchers, ClaimAuditOutboxEvent(d)
    PROVE  OutboxInv' /\ SameTrail(row, row')
<1> DEFINE taken(e) == [Idle EXCEPT !.at = "claimed", !.event = e, !.lease = Lease]
<1>1. PICK e \in Events : /\ Claimable(e) /\ row' = Claimed(row, e, d) /\ accepted' = accepted
                          /\ disp' = [disp EXCEPT ![d] = taken(e)]
  BY Zenon DEF ClaimAuditOutboxEvent, NextDue, Claimed
<1>2. PICK new : new = taken(e)
  BY Zenon
<1>3. /\ new \in Claim /\ new.at = "claimed" /\ new.event = e /\ new.lease = Lease
  BY Zenon, <1>2 DEF Idle, Claim, OutboxConstants
<1>4. disp' = [disp EXCEPT ![d] = new]
  BY Zenon, <1>1, <1>2
<1> HIDE DEF taken
<1>5. RowsOK(row) /\ row[e].state = "pending" /\ (row[e].holder = Nobody \/ row[e].lease = 0)
  BY Zenon, <1>1 DEF OutboxInv, Claimable
<1>6. PICK N : /\ N = Claimed(row, e, d) /\ RowsOK(N) /\ N[e].state = row[e].state /\ N[e].holder = d
               /\ N[e].lease = Lease /\ \A f \in Events \ {e} : N[f] = row[f]
  BY Zenon, <1>5, RowClaimed
<1>7. /\ RowsOK(row') /\ row'[e].state = "pending" /\ row'[e].holder = d
      /\ row'[e].lease = Lease /\ \A f \in Events \ {e} : row'[f] = row[f]
  BY Zenon, <1>1, <1>5, <1>6
<1>8. ClaimOK(new, d, row', accepted')
  BY Zenon, <1>3, <1>7 DEF ClaimOK
<1>9. Undisturbed(d, row, row') /\ SameTrail(row, row')
  BY Zenon, <1>5, <1>7 DEF Undisturbed, SameTrail
<1>10. \A f \in Events : row'[f].state = "delivered" => f \in accepted'
  BY Zenon, <1>1, <1>7 DEF OutboxInv, DeliveredWasAccepted
<1>11. accepted \subseteq accepted'
  BY Zenon, <1>1
<1> QED
  BY Zenon, <1>3, <1>4, <1>7, <1>8, <1>9, <1>10, <1>11, OneDispatcher

\* A step that changes the attempt of d and not the rows.
LEMMA Attempt ==
    ASSUME OutboxConstants, OutboxInv, NEW d \in Dispatchers, NEW new \in Claim,
           disp' = [disp EXCEPT ![d] = new], row' = row, accepted \subseteq accepted',
           ClaimOK(new, d, row, accepted')
    PROVE  OutboxInv' /\ SameTrail(row, row')
<1>1. RowsOK(row') /\ ClaimOK(new, d, row', accepted')
  BY Zenon DEF OutboxInv
<1>2. Undisturbed(d, row, row') /\ SameTrail(row, row')
  BY Zenon DEF Undisturbed, SameTrail
<1>3. \A f \in Events : row'[f].state = "delivered" => f \in accepted'
  BY Zenon DEF OutboxInv, DeliveredWasAccepted
<1> QED
  BY Zenon, <1>1, <1>2, <1>3, OneDispatcher

LEMMA StartStep ==
    ASSUME OutboxConstants, OutboxInv, NEW d \in Dispatchers, StartDelivery(d)
    PROVE  OutboxInv' /\ SameTrail(row, row')
<1> DEFINE q == disp[d]
<1>1. q \in Claim /\ ClaimOK(q, d, row, accepted) /\ q.at = "claimed" /\ row' = row /\ accepted' = accepted
  BY Zenon DEF OutboxInv, StartDelivery, Step
<1>2. q.lease \in Nat /\ q.event \in Events
  BY Zenon, <1>1, ClaimFields DEF ClaimOK
<1>3. CASE EnoughLease(d)
  <2>1. PICK new : new = [q EXCEPT !.at = "sink", !.deadline = SinkTimeout]
    BY Zenon
  <2>2. disp' = [disp EXCEPT ![d] = new]
    BY Zenon, <1>3, <2>1 DEF StartDelivery, Step
  <2>3. new \in Claim /\ new.at = "sink" /\ new.event = q.event /\ new.lease = q.lease /\ new.deadline = SinkTimeout
    BY Zenon, <2>1, <1>1 DEF Claim, OutboxConstants
  <2>4. new.lease > new.deadline
    BY Zenon, <1>3, <2>3 DEF EnoughLease
  <2>5. ClaimOK(new, d, row, accepted')
    BY Zenon, <1>1, <1>2, <2>3, <2>4 DEF ClaimOK
  <2> QED
    BY Zenon, <1>1, <2>2, <2>3, <2>5, Attempt
<1>4. CASE ~ EnoughLease(d) /\ q.lease = 0
  <2>1. disp' = [disp EXCEPT ![d] = Idle]
    BY Zenon, <1>4 DEF StartDelivery, Step
  <2>2. Idle \in Claim /\ ClaimOK(Idle, d, row, accepted') /\ accepted \subseteq accepted'
    BY Zenon, IdleClaim, <1>1
  <2> QED
    BY Zenon, <1>1, <2>1, <2>2, Attempt
<1>5. CASE ~ EnoughLease(d) /\ q.lease # 0
  <2>1. PICK new : new = [q EXCEPT !.at = "reschedule", !.inTime = TRUE]
    BY Zenon
  <2>2. disp' = [disp EXCEPT ![d] = new]
    BY Zenon, <1>5, <2>1 DEF StartDelivery, Step
  <2>3. new \in Claim /\ new.at = "reschedule" /\ new.event = q.event
    BY Zenon, <2>1, <1>1 DEF Claim
  <2>4. ClaimOK(new, d, row, accepted')
    BY Zenon, <1>2, <2>3 DEF ClaimOK
  <2> QED
    BY Zenon, <1>1, <2>2, <2>3, <2>4, Attempt
<1> QED
  BY Zenon, <1>3, <1>4, <1>5

LEMMA SinkStep ==
    ASSUME OutboxConstants, OutboxInv, NEW d \in Dispatchers, SinkAccepts(d) \/ SinkFails(d)
    PROVE  OutboxInv' /\ SameTrail(row, row')
<1> DEFINE q == disp[d]
<1>1. q \in Claim /\ ClaimOK(q, d, row, accepted) /\ q.at = "sink" /\ row' = row /\ accepted \subseteq accepted'
  BY Zenon DEF OutboxInv, SinkAccepts, SinkFails, Step
<1>2. q.event \in Events
  BY Zenon, <1>1 DEF ClaimOK
<1>3. q.lease \in Nat
  BY Zenon, <1>1, ClaimFields
<1> DEFINE b == q.lease > 0
<1>6. b \in BOOLEAN
  BY <1>3
<1> HIDE DEF b
<1>4. CASE SinkAccepts(d)
  <2>1. PICK new : new = [q EXCEPT !.at = "ack", !.inTime = b]
    BY Zenon
  <2>2. disp' = [disp EXCEPT ![d] = new] /\ q.event \in accepted'
    BY Zenon, <1>4, <2>1 DEF SinkAccepts, Step, b
  <2>3. new \in Claim /\ new.at = "ack" /\ new.event = q.event
    BY Zenon, <2>1, <1>1, <1>6 DEF Claim
  <2>4. ClaimOK(new, d, row, accepted')
    BY Zenon, <1>2, <2>2, <2>3 DEF ClaimOK
  <2> QED
    BY Zenon, <1>1, <2>2, <2>3, <2>4, Attempt
<1>5. CASE SinkFails(d)
  <2>1. PICK new : new = [q EXCEPT !.at = "reschedule", !.inTime = b]
    BY Zenon
  <2>2. disp' = [disp EXCEPT ![d] = new]
    BY Zenon, <1>5, <2>1 DEF SinkFails, Step, b
  <2>3. new \in Claim /\ new.at = "reschedule" /\ new.event = q.event
    BY Zenon, <2>1, <1>1, <1>6 DEF Claim
  <2>4. ClaimOK(new, d, row, accepted')
    BY Zenon, <1>2, <2>3 DEF ClaimOK
  <2> QED
    BY Zenon, <1>1, <2>2, <2>3, <2>4, Attempt
<1> QED
  BY Zenon, <1>4, <1>5
\* A completion whose claim still counts.
LEMMA Completion ==
    ASSUME OutboxConstants, OutboxInv, NEW d \in Dispatchers, disp[d].event \in Events, Owns(d),
           disp' = [disp EXCEPT ![d] = Idle], accepted' = accepted, RowsOK(row'),
           row'[disp[d].event].state \in {"pending", "delivered"},
           row'[disp[d].event].state = "delivered" => disp[d].event \in accepted,
           \A f \in Events \ {disp[d].event} : row'[f] = row[f]
    PROVE  OutboxInv' /\ SameTrail(row, row')
<1> DEFINE e == disp[d].event
<1>1. row[e].holder = d /\ row[e].state = "pending"
  BY Zenon DEF Owns
<1>2. Undisturbed(d, row, row')
  BY Zenon, <1>1 DEF Undisturbed
<1>3. SameTrail(row, row')
  <2> SUFFICES ASSUME NEW f \in Events
               PROVE  row'[f].state = "absent" <=> row[f].state = "absent"
    BY Zenon DEF SameTrail
  <2>1. CASE f = e
    BY <2>1, <1>1
  <2>2. CASE f # e
    BY Zenon, <2>2
  <2> QED
    BY Zenon, <2>1, <2>2
<1>4. \A f \in Events : row'[f].state = "delivered" => f \in accepted'
  BY Zenon DEF OutboxInv, DeliveredWasAccepted
<1>5. Idle \in Claim /\ ClaimOK(Idle, d, row', accepted') /\ accepted \subseteq accepted'
  BY Zenon, IdleClaim
<1> QED
  BY Zenon, <1>2, <1>3, <1>4, <1>5, OneDispatcher

LEMMA MarkStep ==
    ASSUME OutboxConstants, OutboxInv, NEW d \in Dispatchers, MarkAuditOutboxEventDelivered(d)
    PROVE  OutboxInv' /\ SameTrail(row, row')
<1> DEFINE e == disp[d].event
<1>1. /\ disp' = [disp EXCEPT ![d] = Idle] /\ accepted' = accepted
      /\ RowsOK(row) /\ ClaimOK(disp[d], d, row, accepted) /\ disp[d].at = "ack"
  BY Zenon DEF OutboxInv, MarkAuditOutboxEventDelivered, Step
<1>2. e \in Events /\ e \in accepted
  BY Zenon, <1>1 DEF ClaimOK
<1>3. CASE ~ Owns(d)
  <2>1. row' = row
    BY Zenon, <1>3 DEF MarkAuditOutboxEventDelivered
  <2> QED
    BY Zenon, <1>1, <2>1, GivesUp
<1>4. CASE Owns(d)
  <2>1. row' = Delivered(row, e)
    BY Zenon, <1>4 DEF MarkAuditOutboxEventDelivered, Delivered
  <2>2. PICK N : N = Delivered(row, e) /\ RowsOK(N) /\ N[e].state = "delivered" /\ \A f \in Events \ {e} : N[f] = row[f]
    BY Zenon, <1>1, <1>2, RowDelivered
  <2>3. RowsOK(row') /\ row'[e].state = "delivered" /\ \A f \in Events \ {e} : row'[f] = row[f]
    BY Zenon, <2>1, <2>2
  <2> QED
    BY Zenon, <1>1, <1>2, <1>4, <2>3, Completion
<1> QED
  BY Zenon, <1>3, <1>4

LEMMA RescheduleStep ==
    ASSUME OutboxConstants, OutboxInv, NEW d \in Dispatchers, RescheduleAuditOutboxEvent(d)
    PROVE  OutboxInv' /\ SameTrail(row, row')
<1> DEFINE e == disp[d].event
           n == auditOutboxBackoff(row[e].tries)
<1>1. /\ disp' = [disp EXCEPT ![d] = Idle] /\ accepted' = accepted
      /\ RowsOK(row) /\ ClaimOK(disp[d], d, row, accepted) /\ disp[d].at = "reschedule"
  BY Zenon DEF OutboxInv, RescheduleAuditOutboxEvent, Step
<1>2. e \in Events
  BY Zenon, <1>1 DEF ClaimOK
<1>3. CASE ~ Owns(d)
  <2>1. row' = row
    BY Zenon, <1>3 DEF RescheduleAuditOutboxEvent
  <2> QED
    BY Zenon, <1>1, <2>1, GivesUp
<1>4. CASE Owns(d)
  <2>1. row' = PutOff(row, e, n) /\ row[e].state = "pending"
    BY Zenon, <1>4 DEF RescheduleAuditOutboxEvent, Owns, PutOff
  <2>4. RowsOK(row)
    BY Zenon, <1>1
  <2> HIDE DEF n, e
  <2>2. PICK N : N = PutOff(row, e, n) /\ RowsOK(N) /\ N[e].state = row[e].state /\ \A f \in Events \ {e} : N[f] = row[f]
    BY Zenon, <1>2, <2>4, RowPutOff
  <2>3. RowsOK(row') /\ row'[e].state = "pending" /\ \A f \in Events \ {e} : row'[f] = row[f]
    BY Zenon, <2>1, <2>2
  <2> QED
    BY Zenon, <1>1, <1>2, <1>4, <2>3, Completion DEF e
<1> QED
  BY Zenon, <1>3, <1>4

LEMMA LessFacts ==
    ASSUME NEW a \in Nat, NEW b \in Nat
    PROVE  /\ Less(a) \in Nat /\ (Less(a) > 0 => a > 0) /\ (a > b /\ b > 0 => Less(a) > Less(b))
BY DEF Less

LEMMA TickStep ==
    ASSUME OutboxInv, Tick
    PROVE  OutboxInv' /\ SameTrail(row, row')
<1>1. PICK S : row \in [Events -> RowOf(S)]
  BY Zenon DEF OutboxInv, RowsOK
<1> DEFINE T == {Less(s) : s \in S}
           older(r) == [r EXCEPT !.next = Less(@), !.lease = Less(@)]
           later(q) == [q EXCEPT !.lease = Less(@), !.deadline = Less(@)]
<1>2. ASSUME NEW r \in RowOf(S)
      PROVE  older(r) \in RowOf(T) /\ older(r).state = r.state /\ older(r).holder = r.holder
             /\ older(r).lease = Less(r.lease)
  <2>1. r.lease \in Nat /\ r.next \in S
    BY Zenon DEF RowOf
  <2>2. Less(r.lease) \in Nat /\ Less(r.next) \in T
    BY Zenon, <2>1, LessFacts
  <2> HIDE DEF T
  <2> QED
    BY Zenon, <2>2 DEF RowOf
<1>3. row' = [e \in Events |-> older(row[e])] /\ disp' = [d \in Dispatchers |-> later(disp[d])] /\ accepted' = accepted
  BY Zenon DEF Tick
<1>4. ASSUME NEW q \in Claim
      PROVE  /\ later(q) \in Claim /\ later(q).at = q.at /\ later(q).event = q.event
             /\ later(q).lease = Less(q.lease) /\ later(q).deadline = Less(q.deadline)
  <2>1. Less(q.lease) \in Nat /\ Less(q.deadline) \in Nat
    BY Zenon, ClaimFields, LessFacts
  <2> QED
    BY Zenon, <2>1 DEF Claim
<1> HIDE DEF T, older, later
<1>5. RowsOK(row')
  <2>1. row' \in [Events -> RowOf(T)]
    BY Zenon, <1>1, <1>2, <1>3
  <2> QED
    BY Zenon, <2>1 DEF RowsOK
<1>6. \A e \in Events : /\ row'[e].state = row[e].state /\ row'[e].holder = row[e].holder
                        /\ row'[e].lease = Less(row[e].lease)
  BY Zenon, <1>1, <1>2, <1>3
<1>7. disp' \in [Dispatchers -> Claim] /\ \A d \in Dispatchers : disp'[d] = later(disp[d])
  BY Zenon, <1>3, <1>4 DEF OutboxInv
<1>8. ASSUME NEW d \in Dispatchers
      PROVE  ClaimOK(disp'[d], d, row', accepted')
  <2> DEFINE q == disp[d]
             p == later(q)
  <2>1. q \in Claim /\ ClaimOK(q, d, row, accepted) /\ p = disp'[d]
    BY Zenon, <1>7 DEF OutboxInv
  <2>2. /\ p.at = q.at /\ p.event = q.event /\ p.lease = Less(q.lease) /\ p.deadline = Less(q.deadline)
        /\ q.lease \in Nat /\ q.deadline \in Nat
    BY Zenon, <2>1, <1>4, ClaimFields
  <2>3. ASSUME p.at \in {"claimed", "sink"}, p.lease > 0
        PROVE  row'[p.event].state = "pending" /\ row'[p.event].holder = d /\ row'[p.event].lease = p.lease
    <3>1. q.lease > 0
      BY Zenon, <2>2, <2>3, LessFacts
    <3>2. /\ q.event \in Events /\ row[q.event].state = "pending" /\ row[q.event].holder = d
          /\ row[q.event].lease = q.lease
      BY Zenon, <2>1, <2>2, <2>3, <3>1 DEF ClaimOK
    <3> QED
      BY Zenon, <2>2, <3>2, <1>6
  <2>4. ASSUME SinkIsPunctual, p.at = "sink"
        PROVE  p.lease > p.deadline
    <3>1. q.lease > q.deadline /\ q.deadline > 0
      BY Zenon, <2>1, <2>2, <2>4 DEF ClaimOK, Tick
    <3> QED
      BY Zenon, <2>2, <3>1, LessFacts
  <2>5. p.at # "idle" => p.event \in Events
    BY Zenon, <2>1, <2>2 DEF ClaimOK
  <2>6. p.at = "ack" => p.event \in accepted'
    BY Zenon, <2>1, <2>2, <1>3 DEF ClaimOK
  <2> HIDE DEF p
  <2>7. ClaimOK(p, d, row', accepted')
    BY Zenon, <2>3, <2>4, <2>5, <2>6 DEF ClaimOK
  <2> QED
    BY Zenon, <2>1, <2>7
<1>9. DeliveredWasAccepted'
  BY Zenon, <1>3, <1>6 DEF OutboxInv, DeliveredWasAccepted
<1>10. SameTrail(row, row')
  BY Zenon, <1>6 DEF SameTrail
<1> QED
  BY Zenon, <1>5, <1>7, <1>8, <1>9, <1>10 DEF OutboxInv
LEMMA OutboxStep ==
    ASSUME OutboxConstants, OutboxInv, OutboxNext
    PROVE  OutboxInv' /\ SameTrail(row, row')
<1>1. CASE Tick
  BY Zenon, <1>1, TickStep
<1>2. ASSUME NEW d \in Dispatchers, Dispatch(d)
      PROVE  OutboxInv' /\ SameTrail(row, row')
  <2>1. CASE ClaimAuditOutboxEvent(d)
    BY Zenon, <2>1, ClaimStep
  <2>2. CASE StartDelivery(d)
    BY Zenon, <2>2, StartStep
  <2>3. CASE SinkAccepts(d) \/ SinkFails(d)
    BY Zenon, <2>3, SinkStep
  <2>4. CASE MarkAuditOutboxEventDelivered(d)
    BY Zenon, <2>4, MarkStep
  <2>5. CASE RescheduleAuditOutboxEvent(d)
    BY Zenon, <2>5, RescheduleStep
  <2>6. CASE StoreFails(d) \/ Crash(d)
    <3>1. disp' = [disp EXCEPT ![d] = Idle] /\ row' = row /\ accepted' = accepted
      BY Zenon, <2>6 DEF StoreFails, Crash
    <3> QED
      BY Zenon, <3>1, GivesUp
  <2> QED
    BY Zenon, <1>2, <2>1, <2>2, <2>3, <2>4, <2>5, <2>6 DEF Dispatch
<1> QED
  BY Zenon, <1>1, <1>2 DEF OutboxNext

\* A committed event does not disturb an attempt.
LEMMA InsertStep ==
    ASSUME OutboxInv, NEW e \in Events, insertAuditOutboxEvent(e), disp' = disp, accepted' = accepted
    PROVE  /\ OutboxInv' /\ row[e].state = "absent" /\ row'[e].state = "pending"
           /\ \A f \in Events \ {e} : row'[f] = row[f]
<1>1. PICK S : row \in [Events -> RowOf(S)]
  BY Zenon DEF OutboxInv, RowsOK
<1>2. row[e] \in RowOf(S)
  BY Zenon, <1>1
<1> DEFINE r == [row[e] EXCEPT !.state = "pending"]
<1>3. r \in RowOf(S) /\ r.state = "pending"
  BY Zenon, <1>2 DEF RowOf
<1>4. row' = [row EXCEPT ![e] = r] /\ row[e].state = "absent"
  BY Zenon DEF insertAuditOutboxEvent
<1> HIDE DEF r
<1>5. RowsOK(row') /\ row'[e] = r /\ \A f \in Events \ {e} : row'[f] = row[f]
  BY Zenon, <1>1, <1>3, <1>4, RowPut
<1>6. ASSUME NEW d \in Dispatchers
      PROVE  ClaimOK(disp'[d], d, row', accepted')
  <2>1. ClaimOK(disp[d], d, row, accepted)
    BY Zenon DEF OutboxInv
  <2>2. ASSUME disp[d].event \in Events, row[disp[d].event].state = "pending"
        PROVE  row'[disp[d].event] = row[disp[d].event]
    BY Zenon, <2>2, <1>4, <1>5
  <2>3. ClaimOK(disp[d], d, row', accepted)
    BY Zenon, <2>1, <2>2 DEF ClaimOK
  <2> QED
    BY Zenon, <2>3
<1>7. DeliveredWasAccepted'
  BY Zenon, <1>3, <1>5 DEF OutboxInv, DeliveredWasAccepted
<1>8. disp' \in [Dispatchers -> Claim]
  BY Zenon DEF OutboxInv
<1> QED
  BY Zenon, <1>3, <1>4, <1>5, <1>6, <1>7, <1>8 DEF OutboxInv

(***************************************************************************)
(* The trail                                                               *)
(***************************************************************************)

\* A request creates or revokes.
AuditConstants ==
    CreateRequests \subseteq Events /\ RevokeRequests \subseteq Events /\ CreateRequests \cap RevokeRequests = {}

TokenStates == {"absent", "active", "revoked"}

TrailType ==
    /\ token \in [Tokens -> TokenStates] /\ about \in [Events -> Tokens \cup {NoToken}]
    /\ tx \in [Events -> {"new", "open", "over"}] /\ answer \in [Events -> {"none", "ok", "unknown", "failed"}]

RecordedIn(t, kind, A, R) == {e \in kind : A[e] = t /\ R[e].state # "absent"}

\* Q has one event when there must be one.
One(Q, must) == IF must THEN \E e : Q = {e} ELSE Q = {}

\* The events of t are those its state calls for.
TrailOf(t, T, A, R) ==
    /\ One(RecordedIn(t, CreateRequests, A, R), T[t] # "absent")
    /\ One(RecordedIn(t, RevokeRequests, A, R), T[t] = "revoked")

\* What the transaction of e found under its lock is still so.
OpenOK(e, T, A) ==
    /\ A[e] \in Tokens
    /\ \/ e \in CreateRequests /\ T[A[e]] = "absent"
       \/ e \in RevokeRequests /\ T[A[e]] = "active"

AnswerOK(e, T, A) ==
    A[e] \in Tokens /\ (T[A[e]] = "revoked" \/ (e \in CreateRequests /\ T[A[e]] = "active"))

TrailInv ==
    /\ TrailType
    /\ \A e \in Events : tx[e] # "over" => row[e].state = "absent" /\ answer[e] = "none"
    /\ \A e \in Events : tx[e] = "open" => OpenOK(e, token, about)
    /\ \A e, f \in Events : (tx[e] = "open" /\ tx[f] = "open" /\ about[e] = about[f]) => e = f
    /\ \A e \in Events : answer[e] = "ok" => AnswerOK(e, token, about)
    /\ \A t \in Tokens : TrailOf(t, token, about, row)

LEMMA TrailStart ==
    ASSUME AuditConstants, Init
    PROVE  TrailInv
<1>1. TrailType
  BY Zenon DEF Init, TrailType, TokenStates
<1>2. \A e \in Events : tx[e] = "new" /\ answer[e] = "none" /\ row[e].state = "absent"
  BY DEF Init, OutboxInit, Absent
<1>3. ASSUME NEW t \in Tokens
      PROVE  TrailOf(t, token, about, row)
  <2>1. token[t] = "absent"
    BY Zenon DEF Init
  <2>2. RecordedIn(t, CreateRequests, about, row) = {} /\ RecordedIn(t, RevokeRequests, about, row) = {}
    BY Zenon, <1>2 DEF RecordedIn, AuditConstants
  <2> QED
    BY Zenon, <2>1, <2>2 DEF TrailOf, One
<1> QED
  BY Zenon, <1>1, <1>2, <1>3 DEF TrailInv

LEMMA TrailSame ==
    ASSUME AuditConstants, TrailInv, UNCHANGED <<token, about, tx, answer>>, SameTrail(row, row')
    PROVE  TrailInv'
<1>1. \A t : /\ RecordedIn(t, CreateRequests, about, row') = RecordedIn(t, CreateRequests, about, row)
             /\ RecordedIn(t, RevokeRequests, about, row') = RecordedIn(t, RevokeRequests, about, row)
  BY Zenon DEF RecordedIn, AuditConstants, SameTrail
<1>2. \A t \in Tokens : TrailOf(t, token, about, row')
  BY Zenon, <1>1 DEF TrailInv, TrailOf
<1>3. \A e \in Events : tx[e] # "over" => row'[e].state = "absent" /\ answer[e] = "none"
  BY Zenon DEF TrailInv, SameTrail
<1>4. TrailType'
  BY Zenon DEF TrailInv, TrailType
<1> QED
  BY Zenon, <1>2, <1>3, <1>4 DEF TrailInv
LEMMA OpenSame ==
    ASSUME NEW e, NEW T, NEW U, NEW A, NEW B, B[e] = A[e], U[A[e]] = T[A[e]], OpenOK(e, T, A)
    PROVE  OpenOK(e, U, B)
BY DEF OpenOK

LEMMA AnswerSame ==
    ASSUME NEW e, NEW T, NEW U, NEW A, NEW B, B[e] = A[e], U[A[e]] = T[A[e]], AnswerOK(e, T, A)
    PROVE  AnswerOK(e, U, B)
BY DEF AnswerOK

\* An event that is not recorded counts for no token.
LEMMA NotYetRecorded ==
    ASSUME AuditConstants, TrailInv, NEW e \in Events, NEW t, row[e].state = "absent", about' = [about EXCEPT ![e] = t]
    PROVE  /\ about'[e] = t /\ \A f \in Events \ {e} : about'[f] = about[f]
           /\ \A s \in Tokens : TrailOf(s, token, about', row)
<1>1. about'[e] = t /\ \A f \in Events \ {e} : about'[f] = about[f]
  BY Zenon DEF TrailInv, TrailType
<1>2. \A s : /\ RecordedIn(s, CreateRequests, about', row) = RecordedIn(s, CreateRequests, about, row)
             /\ RecordedIn(s, RevokeRequests, about', row) = RecordedIn(s, RevokeRequests, about, row)
  BY Zenon, <1>1 DEF RecordedIn, AuditConstants
<1> QED
  BY Zenon, <1>1, <1>2 DEF TrailInv, TrailOf

\* A transaction that takes the lock of t.
LEMMA OpenStep ==
    ASSUME AuditConstants, TrailInv, NEW e \in Events, NEW t \in Tokens, tx[e] = "new", ~ Locked(t),
           tx' = [tx EXCEPT ![e] = "open"], about' = [about EXCEPT ![e] = t],
           \/ e \in CreateRequests /\ token[t] = "absent"
           \/ e \in RevokeRequests /\ token[t] = "active",
           UNCHANGED <<row, token, answer>>
    PROVE  TrailInv'
<1>1. row[e].state = "absent" /\ answer[e] = "none"
  BY Zenon DEF TrailInv
<1>2. /\ about'[e] = t /\ \A f \in Events \ {e} : about'[f] = about[f]
      /\ \A s \in Tokens : TrailOf(s, token, about', row)
  BY Zenon, <1>1, NotYetRecorded
<1>3. TrailType'
  BY Zenon DEF TrailInv, TrailType
<1>4. tx'[e] = "open" /\ \A f \in Events \ {e} : tx'[f] = tx[f]
  BY Zenon DEF TrailInv, TrailType
<1>5. \A f \in Events : tx'[f] # "over" => row[f].state = "absent" /\ answer[f] = "none"
  BY Zenon, <1>1, <1>4 DEF TrailInv
<1>6. ASSUME NEW f \in Events, tx'[f] = "open"
      PROVE  OpenOK(f, token, about')
  <2>1. CASE f = e
    BY Zenon, <2>1, <1>2 DEF OpenOK
  <2>2. CASE f # e
    <3>1. about'[f] = about[f] /\ tx[f] = "open"
      BY Zenon, <2>2, <1>2, <1>4, <1>6
    <3>2. OpenOK(f, token, about)
      BY Zenon, <3>1 DEF TrailInv
    <3> QED
      BY Zenon, <3>1, <3>2, OpenSame
  <2> QED
    BY Zenon, <2>1, <2>2
<1>7. ASSUME NEW f \in Events, NEW g \in Events, tx'[f] = "open", tx'[g] = "open", about'[f] = about'[g]
      PROVE  f = g
  <2>1. \A h \in Events \ {e} : tx'[h] = "open" => about'[h] # t
    BY Zenon, <1>2, <1>4 DEF Locked
  <2>2. CASE f = e \/ g = e
    BY <2>1, <2>2, <1>2, <1>7
  <2>3. CASE f # e /\ g # e
    <3>1. about[f] = about[g] /\ tx[f] = "open" /\ tx[g] = "open"
      <4>1. about'[f] = about[f] /\ about'[g] = about[g] /\ tx'[f] = tx[f] /\ tx'[g] = tx[g]
        BY Zenon, <2>3, <1>2, <1>4
      <4> QED
        BY <4>1, <1>7
    <3> QED
      BY Zenon, <3>1 DEF TrailInv
  <2> QED
    BY Zenon, <2>2, <2>3
<1>8. ASSUME NEW f \in Events, answer[f] = "ok"
      PROVE  AnswerOK(f, token, about')
  <2>1. f # e
    BY <1>1, <1>8
  <2>2. about'[f] = about[f] /\ AnswerOK(f, token, about)
    BY Zenon, <2>1, <1>2, <1>8 DEF TrailInv
  <2> QED
    BY Zenon, <2>2, AnswerSame
<1> QED
  BY Zenon, <1>2, <1>3, <1>5, <1>6, <1>7, <1>8 DEF TrailInv

\* A token that is revoked already.
LEMMA RevokedStep ==
    ASSUME AuditConstants, TrailInv, NEW e \in Events, NEW t \in Tokens, tx[e] = "new", token[t] = "revoked",
           tx' = [tx EXCEPT ![e] = "over"], about' = [about EXCEPT ![e] = t],
           answer' = [answer EXCEPT ![e] = "ok"], UNCHANGED <<row, token>>
    PROVE  TrailInv'
<1>1. row[e].state = "absent"
  BY Zenon DEF TrailInv
<1>2. /\ about'[e] = t /\ \A f \in Events \ {e} : about'[f] = about[f]
      /\ \A s \in Tokens : TrailOf(s, token, about', row)
  BY Zenon, <1>1, NotYetRecorded
<1>3. TrailType'
  BY Zenon DEF TrailInv, TrailType
<1>4. tx'[e] = "over" /\ \A f \in Events \ {e} : tx'[f] = tx[f] /\ answer'[f] = answer[f]
  BY Zenon DEF TrailInv, TrailType
<1>5. \A f \in Events : tx'[f] # "over" => row[f].state = "absent" /\ answer'[f] = "none"
  BY <1>1, <1>4 DEF TrailInv
<1>6. ASSUME NEW f \in Events, tx'[f] = "open"
      PROVE  f # e /\ OpenOK(f, token, about')
  <2>1. f # e
    BY <1>4, <1>6
  <2>2. about'[f] = about[f] /\ tx[f] = "open"
    BY Zenon, <2>1, <1>2, <1>4, <1>6
  <2>3. OpenOK(f, token, about)
    BY Zenon, <2>2 DEF TrailInv
  <2> QED
    BY Zenon, <2>1, <2>2, <2>3, OpenSame
<1>7. ASSUME NEW f \in Events, NEW g \in Events, tx'[f] = "open", tx'[g] = "open", about'[f] = about'[g]
      PROVE  f = g
  <2>1. f # e /\ g # e
    BY Zenon, <1>6, <1>7
  <2>2. about'[f] = about[f] /\ about'[g] = about[g] /\ tx'[f] = tx[f] /\ tx'[g] = tx[g]
    BY Zenon, <2>1, <1>2, <1>4
  <2>3. about[f] = about[g] /\ tx[f] = "open" /\ tx[g] = "open"
    BY <2>2, <1>7
  <2> QED
    BY Zenon, <2>3 DEF TrailInv
<1>8. ASSUME NEW f \in Events, answer'[f] = "ok"
      PROVE  AnswerOK(f, token, about')
  <2>1. CASE f = e
    BY Zenon, <2>1, <1>2 DEF AnswerOK
  <2>2. CASE f # e
    <3>1. about'[f] = about[f] /\ answer[f] = "ok"
      BY Zenon, <2>2, <1>2, <1>4, <1>8
    <3>2. AnswerOK(f, token, about)
      BY Zenon, <3>1 DEF TrailInv
    <3> QED
      BY Zenon, <3>1, <3>2, AnswerSame
  <2> QED
    BY Zenon, <2>1, <2>2
<1> QED
  BY Zenon, <1>2, <1>3, <1>5, <1>6, <1>7, <1>8 DEF TrailInv
\* A transaction that ends without effect.
LEMMA NoEffectStep ==
    ASSUME AuditConstants, TrailInv, NEW e \in Events, tx[e] = "open", NEW a \in {"unknown", "failed"},
           tx' = [tx EXCEPT ![e] = "over"], answer' = [answer EXCEPT ![e] = a], UNCHANGED <<row, token, about>>
    PROVE  TrailInv'
<1>1. TrailType'
  BY DEF TrailInv, TrailType
<1>2. tx'[e] = "over" /\ answer'[e] # "ok" /\ \A f \in Events \ {e} : tx'[f] = tx[f] /\ answer'[f] = answer[f]
  BY DEF TrailInv, TrailType
<1>3. \A f \in Events : /\ tx'[f] = "open" => tx[f] = "open"
                        /\ tx'[f] # "over" => f # e /\ tx[f] # "over"
                        /\ answer'[f] = "ok" => answer[f] = "ok"
  BY <1>2
<1>4. \A f \in Events : tx'[f] # "over" => row[f].state = "absent" /\ answer'[f] = "none"
  BY <1>2, <1>3 DEF TrailInv
<1>5. /\ \A f \in Events : tx'[f] = "open" => OpenOK(f, token, about)
      /\ \A f, g \in Events : (tx'[f] = "open" /\ tx'[g] = "open" /\ about[f] = about[g]) => f = g
  BY Zenon, <1>3 DEF TrailInv
<1>6. \A f \in Events : answer'[f] = "ok" => AnswerOK(f, token, about)
  BY Zenon, <1>3 DEF TrailInv
<1>7. \A t \in Tokens : TrailOf(t, token, about, row)
  BY Zenon DEF TrailInv
<1> QED
  BY Zenon, <1>1, <1>4, <1>5, <1>6, <1>7 DEF TrailInv

\* The state of the token and its event appear together.
LEMMA EffectStep ==
    ASSUME AuditConstants, TrailInv, NEW e \in Events, tx[e] = "open", NEW a \in {"ok", "unknown"},
           tx' = [tx EXCEPT ![e] = "over"], answer' = [answer EXCEPT ![e] = a], about' = about,
           token' = [token EXCEPT ![about[e]] = IF e \in CreateRequests THEN "active" ELSE "revoked"],
           row'[e].state = "pending", \A f \in Events \ {e} : row'[f] = row[f]
    PROVE  TrailInv'
<1> DEFINE t == about[e]
<1>1. OpenOK(e, token, about) /\ row[e].state = "absent"
  BY DEF TrailInv
<1>2. t \in Tokens
  BY Zenon, <1>1 DEF OpenOK
<1>3. TrailType'
  BY <1>2 DEF TrailInv, TrailType, TokenStates
<1>4. tx'[e] = "over" /\ \A f \in Events \ {e} : tx'[f] = tx[f] /\ answer'[f] = answer[f]
  BY Zenon DEF TrailInv, TrailType
<1>5. token'[t] = (IF e \in CreateRequests THEN "active" ELSE "revoked")
      /\ \A s \in Tokens \ {t} : token'[s] = token[s]
  BY Zenon, <1>2 DEF TrailInv, TrailType
<1>6. \/ e \in CreateRequests /\ e \notin RevokeRequests /\ token[t] = "absent" /\ token'[t] = "active"
      \/ e \in RevokeRequests /\ e \notin CreateRequests /\ token[t] = "active" /\ token'[t] = "revoked"
  BY Zenon, <1>1, <1>5 DEF OpenOK, AuditConstants
<1>7. \A f \in Events : tx'[f] # "over" => f # e /\ tx[f] # "over" /\ row'[f].state = "absent" /\ answer'[f] = "none"
  BY <1>4 DEF TrailInv
<1>8. \A f \in Events : tx'[f] = "open" => f # e /\ tx[f] = "open" /\ about[f] # t
  <2>1. \A f \in Events : tx'[f] = "open" => f # e /\ tx[f] = "open"
    BY <1>4
  <2> QED
    BY Zenon, <2>1 DEF TrailInv
<1>9. ASSUME NEW f \in Events, tx'[f] = "open"
      PROVE  OpenOK(f, token', about')
  <2>1. OpenOK(f, token, about) /\ about[f] # t
    BY Zenon, <1>8, <1>9 DEF TrailInv
  <2>2. token'[about[f]] = token[about[f]]
    BY Zenon, <2>1, <1>5 DEF OpenOK
  <2> QED
    BY <2>1, <2>2 DEF OpenOK
<1>10. \A f, g \in Events : (tx'[f] = "open" /\ tx'[g] = "open" /\ about'[f] = about'[g]) => f = g
  BY Zenon, <1>8 DEF TrailInv
<1>11. ASSUME NEW f \in Events, answer'[f] = "ok"
       PROVE  AnswerOK(f, token', about')
  <2>1. CASE f = e
    BY <2>1, <1>2, <1>6 DEF AnswerOK
  <2>2. CASE f # e
    <3>1. AnswerOK(f, token, about)
      BY Zenon, <2>2, <1>4, <1>11 DEF TrailInv
    <3>2. CASE about[f] # t
      <4>1. token'[about[f]] = token[about[f]]
        BY Zenon, <3>1, <3>2, <1>5 DEF AnswerOK
      <4> QED
        BY <3>1, <4>1 DEF AnswerOK
    <3>3. CASE about[f] = t
      <4>1. token[t] \in {"active", "revoked"}
        BY Zenon, <3>1, <3>3 DEF AnswerOK
      <4>2. token'[t] = "revoked"
        BY <4>1, <1>6
      <4> QED
        BY Zenon, <4>2, <3>3, <1>2 DEF AnswerOK
    <3> QED
      BY Zenon, <3>2, <3>3
  <2> QED
    BY Zenon, <2>1, <2>2
<1>12. ASSUME NEW s \in Tokens
       PROVE  TrailOf(s, token', about', row')
  <2>1. TrailOf(s, token, about, row)
    BY Zenon DEF TrailInv
  <2> DEFINE C == RecordedIn(s, CreateRequests, about, row)
             V == RecordedIn(s, RevokeRequests, about, row)
             CN == RecordedIn(s, CreateRequests, about', row')
             VN == RecordedIn(s, RevokeRequests, about', row')
  <2>2. CASE s # t
    <3>1. CN = C /\ VN = V
      BY Zenon, <2>2 DEF RecordedIn, AuditConstants
    <3>2. token'[s] = token[s]
      BY Zenon, <2>2, <1>5
    <3> QED
      BY Zenon, <2>1, <3>1, <3>2 DEF TrailOf
  <2>3. CASE s = t /\ e \in CreateRequests /\ e \notin RevokeRequests /\ token[t] = "absent" /\ token'[t] = "active"
    <3>1. VN = V
      BY Zenon, <2>3 DEF RecordedIn, AuditConstants
    <3>2. C = {} /\ V = {}
      BY <2>1, <2>3 DEF TrailOf, One
    <3>3. CN = C \cup {e}
      BY <2>3, <1>1 DEF RecordedIn, AuditConstants
    <3>4. CN = {e} /\ VN = {}
      BY Zenon, <3>1, <3>2, <3>3
    <3> HIDE DEF C, V, CN, VN
    <3>5. One(CN, token'[s] # "absent") /\ One(VN, token'[s] = "revoked")
      BY Zenon, <2>3, <3>4 DEF One
    <3> QED
      BY Zenon, <3>5 DEF TrailOf, CN, VN
  <2>4. CASE s = t /\ e \in RevokeRequests /\ e \notin CreateRequests /\ token[t] = "active" /\ token'[t] = "revoked"
    <3>1. CN = C
      BY Zenon, <2>4 DEF RecordedIn, AuditConstants
    <3>2. V = {} /\ \E c : C = {c}
      BY Zenon, <2>1, <2>4 DEF TrailOf, One
    <3>3. VN = V \cup {e}
      BY <2>4, <1>1 DEF RecordedIn, AuditConstants
    <3>4. VN = {e} /\ \E c : CN = {c}
      BY Zenon, <3>1, <3>2, <3>3
    <3> HIDE DEF C, V, CN, VN
    <3>5. One(CN, token'[s] # "absent") /\ One(VN, token'[s] = "revoked")
      BY <2>4, <3>4 DEF One
    <3> QED
      BY Zenon, <3>5 DEF TrailOf, CN, VN
  <2> QED
    BY Zenon, <1>6, <2>2, <2>3, <2>4
<1>13. \A f \in Events : tx'[f] # "over" => row'[f].state = "absent" /\ answer'[f] = "none"
  BY Zenon, <1>7
<1> QED
  BY Zenon, <1>3, <1>9, <1>10, <1>11, <1>12, <1>13 DEF TrailInv
LEMMA TransactionStep ==
    ASSUME AuditConstants, OutboxInv, TrailInv, NEW e \in Events, EndTransaction(e) \/ RollbackTransaction(e)
    PROVE  OutboxInv' /\ TrailInv'
<1>1. tx[e] = "open" /\ tx' = [tx EXCEPT ![e] = "over"] /\ disp' = disp /\ accepted' = accepted /\ about' = about
  BY Zenon DEF EndTransaction, RollbackTransaction
<1>2. CASE Commit(e) /\ answer' \in {[answer EXCEPT ![e] = a] : a \in {"ok", "unknown"}}
  <2>1. PICK a \in {"ok", "unknown"} : answer' = [answer EXCEPT ![e] = a]
    BY Zenon, <1>2
  <2>2. insertAuditOutboxEvent(e)
        /\ token' = [token EXCEPT ![about[e]] = IF e \in CreateRequests THEN "active" ELSE "revoked"]
    BY Zenon, <1>2 DEF Commit
  <2>3. OutboxInv' /\ row'[e].state = "pending" /\ \A f \in Events \ {e} : row'[f] = row[f]
    BY Zenon, <1>1, <2>2, InsertStep
  <2>4. TrailInv'
    BY Zenon, <1>1, <2>1, <2>2, <2>3, EffectStep
  <2> QED
    BY Zenon, <2>3, <2>4
<1>3. CASE \E a \in {"unknown", "failed"} : answer' = [answer EXCEPT ![e] = a] /\ UNCHANGED <<row, token>>
  <2>1. PICK a \in {"unknown", "failed"} : answer' = [answer EXCEPT ![e] = a] /\ row' = row /\ token' = token
    BY Zenon, <1>3
  <2>2. TrailInv'
    BY Zenon, <1>1, <2>1, NoEffectStep
  <2>3. OutboxInv'
    BY Zenon, <1>1, <2>1 DEF OutboxInv, DeliveredWasAccepted
  <2> QED
    BY Zenon, <2>2, <2>3
<1> QED
  BY Zenon, <1>2, <1>3 DEF EndTransaction, RollbackTransaction, CommitOutcome

LEMMA RequestStep ==
    ASSUME AuditConstants, OutboxInv, TrailInv, NEW e \in Events, NEW t \in Tokens,
           CreateOpAMPToken(e, t) \/ RevokeOpAMPToken(e, t)
    PROVE  OutboxInv' /\ TrailInv'
<1>1. tx[e] = "new" /\ ~ Locked(t) /\ about' = [about EXCEPT ![e] = t]
      /\ row' = row /\ disp' = disp /\ accepted' = accepted /\ token' = token
  BY Zenon DEF CreateOpAMPToken, RevokeOpAMPToken
<1>2. OutboxInv'
  BY Zenon, <1>1 DEF OutboxInv, DeliveredWasAccepted
<1>3. CASE CreateOpAMPToken(e, t)
  <2>1. tx' = [tx EXCEPT ![e] = "open"] /\ answer' = answer /\ e \in CreateRequests /\ token[t] = "absent"
    BY Zenon, <1>3 DEF CreateOpAMPToken
  <2> QED
    BY Zenon, <1>1, <1>2, <2>1, OpenStep
<1>4. CASE RevokeOpAMPToken(e, t) /\ RevokeNeeded(t)
  <2>1. tx' = [tx EXCEPT ![e] = "open"] /\ answer' = answer /\ e \in RevokeRequests /\ token[t] = "active"
    BY Zenon, <1>4 DEF RevokeOpAMPToken, RevokeNeeded
  <2> QED
    BY Zenon, <1>1, <1>2, <2>1, OpenStep
<1>5. CASE RevokeOpAMPToken(e, t) /\ ~ RevokeNeeded(t)
  <2>1. tx' = [tx EXCEPT ![e] = "over"] /\ answer' = [answer EXCEPT ![e] = "ok"] /\ token[t] # "absent"
        /\ token[t] # "active"
    BY Zenon, <1>5 DEF RevokeOpAMPToken, RevokeNeeded
  <2>2. token[t] = "revoked"
    BY <2>1 DEF TrailInv, TrailType, TokenStates
  <2> QED
    BY Zenon, <1>1, <1>2, <2>1, <2>2, RevokedStep
<1> QED
  BY Zenon, <1>3, <1>4, <1>5

LEMMA AuditNext ==
    ASSUME AuditConstants, OutboxConstants, OutboxInv, TrailInv, [Next]_vars
    PROVE  OutboxInv' /\ TrailInv'
<1>1. CASE OutboxNext /\ UNCHANGED <<token, about, tx, answer>>
  <2>1. OutboxInv' /\ SameTrail(row, row')
    BY Zenon, <1>1, OutboxStep
  <2> QED
    BY Zenon, <1>1, <2>1, TrailSame
<1>2. CASE \E e \in Events : EndTransaction(e) \/ RollbackTransaction(e)
  BY Zenon, <1>2, TransactionStep
<1>3. CASE \E e \in Events, t \in Tokens : CreateOpAMPToken(e, t) \/ RevokeOpAMPToken(e, t)
  BY Zenon, <1>3, RequestStep
<1>4. CASE UNCHANGED vars
  <2>1. row' = row /\ disp' = disp /\ accepted' = accepted /\ UNCHANGED <<token, about, tx, answer>>
    BY Zenon, <1>4 DEF vars
  <2>2. OutboxInv' /\ SameTrail(row, row')
    BY Zenon, <2>1 DEF OutboxInv, DeliveredWasAccepted, SameTrail
  <2> QED
    BY Zenon, <2>1, <2>2, TrailSame
<1> QED
  BY Zenon, <1>1, <1>2, <1>3, <1>4 DEF Next

INSTANCE FiniteSetTheorems

LEMMA OneIsCounted ==
    ASSUME NEW Q, NEW must \in BOOLEAN, One(Q, must)
    PROVE  Cardinality(Q) = IF must THEN 1 ELSE 0
<1>1. CASE must
  <2>1. PICK e : Q = {e}
    BY Zenon, <1>1 DEF One
  <2> QED
    BY Zenon, <1>1, <2>1, FS_Singleton
<1>2. CASE ~ must
  BY <1>2, FS_EmptySet DEF One
<1> QED
  BY Zenon, <1>1, <1>2

LEMMA AuditFollows ==
    ASSUME AuditConstants, OutboxConstants, OutboxInv, TrailInv
    PROVE  AuditIsExact
<1>1. TrailIsExact
  <2> SUFFICES ASSUME NEW t \in Tokens
               PROVE  /\ Cardinality(Recorded(t, CreateRequests)) = IF token[t] = "absent" THEN 0 ELSE 1
                      /\ Cardinality(Recorded(t, RevokeRequests)) = IF token[t] = "revoked" THEN 1 ELSE 0
    BY Zenon DEF TrailIsExact
  <2>1. /\ One(Recorded(t, CreateRequests), token[t] # "absent")
        /\ One(Recorded(t, RevokeRequests), token[t] = "revoked")
    BY Zenon DEF TrailInv, TrailOf, Recorded, RecordedIn
  <2>2. /\ Cardinality(Recorded(t, CreateRequests)) = IF token[t] # "absent" THEN 1 ELSE 0
        /\ Cardinality(Recorded(t, RevokeRequests)) = IF token[t] = "revoked" THEN 1 ELSE 0
    BY Zenon, <2>1, OneIsCounted
  <2> QED
    BY <2>2
<1>2. AnswersAreTrue
  BY Zenon DEF TrailInv, AnswersAreTrue, AnswerOK
<1>3. OneAttemptAtATime
  <2> SUFFICES ASSUME SinkIsPunctual
               PROVE  \A d \in Dispatchers : disp[d].at = "sink" =>
                        /\ row[disp[d].event].state = "pending" /\ row[disp[d].event].holder = d
                        /\ \A c \in Dispatchers \ {d} : disp[c].at = "sink" => disp[c].event # disp[d].event
    BY Zenon DEF OneAttemptAtATime
  <2>1. ASSUME NEW d \in Dispatchers, disp[d].at = "sink"
        PROVE  row[disp[d].event].state = "pending" /\ row[disp[d].event].holder = d
    <3>1. ClaimOK(disp[d], d, row, accepted) /\ disp[d] \in Claim
      BY Zenon DEF OutboxInv
    <3>2. disp[d].lease > disp[d].deadline /\ disp[d].lease \in Nat /\ disp[d].deadline \in Nat
      BY Zenon, <3>1, <2>1, ClaimFields DEF ClaimOK
    <3>3. disp[d].lease > 0
      BY <3>2
    <3> QED
      BY Zenon, <3>1, <3>3, <2>1 DEF ClaimOK
  <2>2. ASSUME NEW d \in Dispatchers, NEW c \in Dispatchers \ {d}, disp[d].at = "sink", disp[c].at = "sink"
        PROVE  disp[c].event # disp[d].event
    <3>1. row[disp[d].event].holder = d /\ row[disp[c].event].holder = c
      BY Zenon, <2>1, <2>2
    <3> QED
      BY Zenon, <3>1
  <2> QED
    BY Zenon, <2>1, <2>2
<1> QED
  BY Zenon, <1>1, <1>2, <1>3 DEF AuditIsExact, OutboxInv

\* The audit of tokens is exact in every reachable state, for any number of
\* requests, tokens and server processes: every token has the events its state
\* calls for and no other, a positive answer of the API is about what was
\* committed, no event is with a punctual sink twice, and none is marked
\* delivered that the sink has not taken.
THEOREM AuditStaysExact ==
    ASSUME AuditConstants, OutboxConstants
    PROVE  Spec => []AuditIsExact
<1>1. Init => OutboxInv /\ TrailInv
  BY Zenon, OutboxStart, TrailStart DEF Init
<1>2. OutboxInv /\ TrailInv /\ [Next]_vars => OutboxInv' /\ TrailInv'
  BY Zenon, AuditNext
<1>3. OutboxInv /\ TrailInv => AuditIsExact
  BY Zenon, AuditFollows
<1> QED
  BY <1>1, <1>2, <1>3, PTL DEF Spec

(***************************************************************************)
(* Logins                                                                  *)
(***************************************************************************)

CONSTANTS Logins, Changes, Passwords, First, None, MaxFailures, Window, AuditFails

VARIABLES password, failures, log, login, change

Lg == INSTANCE Login

\* There are finitely many requests at a time, and at least one failure is
\* allowed.
LoginConstants == IsFiniteSet(Logins) /\ MaxFailures \in Nat \ {0}

\* The answers, with 0 for none yet, and the one with a token.
Codes == {0, 200, 401, 429, 503}
Granted(q) == q.answer = 200

LoginType == [at : {"new", "check", "good", "bad", "audit", "over"}, typed : Passwords \cup {None}, answer : Codes]

\* The requests that the limiter has let through and that may still fail.
Unsettled == {r \in Logins : login[r].at \in {"check", "bad"}}

LoginInv ==
    /\ failures \in [count : Nat, age : Nat] /\ login \in [Logins -> LoginType]
    /\ failures.count + Cardinality(Unsettled) <= MaxFailures - 1 + Cardinality(Logins)
    /\ \A r \in Logins : Granted(login[r]) => login[r].at = "over" /\ r \in log

\* The records that the requests write.
LEMMA MovedFields ==
    ASSUME NEW q \in LoginType, NEW a \in {"new", "check", "good", "bad", "audit", "over"}
    PROVE  /\ [q EXCEPT !.at = a] \in LoginType /\ [q EXCEPT !.at = a].at = a
           /\ [q EXCEPT !.at = a].answer = q.answer
BY Zenon DEF LoginType

LEMMA AllowedFields ==
    ASSUME NEW q \in LoginType, NEW p \in Passwords
    PROVE  /\ [q EXCEPT !.at = "check", !.typed = p] \in LoginType
           /\ [q EXCEPT !.at = "check", !.typed = p].at = "check"
           /\ [q EXCEPT !.at = "check", !.typed = p].answer = q.answer
BY Zenon DEF LoginType

LEMMA AnsweredFields ==
    ASSUME NEW q \in LoginType, NEW a \in Codes
    PROVE  /\ [q EXCEPT !.at = "over", !.answer = a] \in LoginType
           /\ [q EXCEPT !.at = "over", !.answer = a].at = "over"
           /\ [q EXCEPT !.at = "over", !.answer = a].answer = a
BY Zenon DEF LoginType

LEMMA NewLoginFields == Lg!NewLogin \in LoginType /\ Lg!NewLogin.at = "new" /\ ~ Granted(Lg!NewLogin)
<1>1. 0 \in Codes /\ 0 # 200
  BY DEF Codes
<1>2. Lg!NewLogin \in LoginType /\ Lg!NewLogin.at = "new" /\ Lg!NewLogin.answer = 0
  BY <1>1, Zenon DEF Lg!NewLogin, LoginType
<1> QED BY <1>1, <1>2, SMT DEF Granted

\* The requests that may still fail are finitely many.
LEMMA UnsettledFinite ==
    ASSUME LoginConstants
    PROVE  IsFiniteSet(Unsettled) /\ Cardinality(Unsettled) \in Nat /\ Cardinality(Logins) \in Nat
           /\ Cardinality(Unsettled) <= Cardinality(Logins)
<1>1. Unsettled \in SUBSET Logins /\ IsFiniteSet(Logins)
  BY Zenon DEF Unsettled, LoginConstants
<1> HIDE DEF Unsettled
<1>2. IsFiniteSet(Unsettled) /\ Cardinality(Unsettled) <= Cardinality(Logins)
  BY <1>1, FS_Subset, Zenon
<1> QED BY <1>1, <1>2, FS_CardinalityType, Zenon

\* Nothing fails and nobody is let through: the bound stays.
LEMMA BoundKept ==
    ASSUME LoginConstants, LoginInv, NEW S, S \subseteq Unsettled, NEW c \in Nat, c <= failures.count
    PROVE  c + Cardinality(S) <= MaxFailures - 1 + Cardinality(Logins)
<1>1. IsFiniteSet(S) /\ Cardinality(S) <= Cardinality(Unsettled)
  <2>1. S \in SUBSET Unsettled /\ IsFiniteSet(Unsettled)
    BY UnsettledFinite, Zenon
  <2> QED BY <2>1, FS_Subset, Zenon
<1>2. Cardinality(S) \in Nat
  BY <1>1, FS_CardinalityType, Zenon
<1>3. /\ failures.count \in Nat /\ Cardinality(Unsettled) \in Nat /\ Cardinality(Logins) \in Nat
      /\ failures.count + Cardinality(Unsettled) <= MaxFailures - 1 + Cardinality(Logins) /\ MaxFailures \in Nat
  BY UnsettledFinite, Zenon DEF LoginInv, LoginConstants
<1> QED BY <1>1, <1>2, <1>3, SMT

\* A request settles: it leaves those that may fail, or was not one of them.
LEMMA RequestMoves ==
    ASSUME LoginInv, NEW r \in Logins, NEW q \in LoginType, login' = [login EXCEPT ![r] = q]
    PROVE  /\ login' \in [Logins -> LoginType] /\ login'[r] = q /\ \A s \in Logins \ {r} : login'[s] = login[s]
           /\ q.at \notin {"check", "bad"} => Unsettled' = Unsettled \ {r}
           /\ q.at \in {"check", "bad"} => Unsettled' = Unsettled \cup {r}
<1>1. login' \in [Logins -> LoginType] /\ login'[r] = q /\ \A s \in Logins \ {r} : login'[s] = login[s]
  BY Zenon DEF LoginInv
<1>2. ASSUME q.at \notin {"check", "bad"} PROVE Unsettled' = Unsettled \ {r}
  BY <1>1, <1>2, Zenon DEF Unsettled
<1>3. ASSUME q.at \in {"check", "bad"} PROVE Unsettled' = Unsettled \cup {r}
  BY <1>1, <1>3, Zenon DEF Unsettled
<1> QED BY <1>1, <1>2, <1>3, Zenon

LEMMA LoginInit == ASSUME LoginConstants, Lg!Init PROVE LoginInv
<1>1. failures \in [count : Nat, age : Nat] /\ failures.count = 0 /\ login \in [Logins -> LoginType]
  BY NewLoginFields DEF Lg!Init, Lg!NoWindow
<1>2. Cardinality(Unsettled) \in Nat /\ Cardinality(Logins) \in Nat /\ Cardinality(Unsettled) <= Cardinality(Logins)
  BY UnsettledFinite, Zenon
<1>3. failures.count + Cardinality(Unsettled) <= MaxFailures - 1 + Cardinality(Logins)
  BY <1>1, <1>2, SMT DEF LoginConstants
<1>4. \A r \in Logins : ~ Granted(login[r])
  BY NewLoginFields, Zenon DEF Lg!Init
<1> QED BY <1>1, <1>3, <1>4, Zenon DEF LoginInv
\* A step of one request that adds no failure and lets nobody through.
LEMMA SettleStep ==
    ASSUME LoginConstants, LoginInv, NEW r \in Logins, NEW q \in LoginType, login' = [login EXCEPT ![r] = q],
           q.at \in {"check", "bad"} => r \in Unsettled,
           failures' \in [count : Nat, age : Nat], failures'.count <= failures.count,
           Granted(q) => q.at = "over" /\ r \in log', log \ {r} \subseteq log'
    PROVE  LoginInv'
<1>1. login' \in [Logins -> LoginType] /\ login'[r] = q /\ \A s \in Logins \ {r} : login'[s] = login[s]
  BY RequestMoves, Zenon
<1>2. Unsettled' \subseteq Unsettled
  <2>1. Unsettled' = Unsettled \ {r} \/ (r \in Unsettled /\ Unsettled' = Unsettled \cup {r})
    BY RequestMoves, Zenon
  <2> QED BY <2>1, Zenon
<1>3. failures'.count \in Nat
  BY Zenon
<1>4. failures'.count + Cardinality(Unsettled') <= MaxFailures - 1 + Cardinality(Logins)
  BY <1>2, <1>3, BoundKept, Zenon
<1>5. (failures.count + Cardinality(Unsettled) <= MaxFailures - 1 + Cardinality(Logins))'
  BY <1>4, Zenon
<1>6. \A s \in Logins : Granted(login'[s]) => login'[s].at = "over" /\ s \in log'
  BY <1>1, Zenon DEF LoginInv
<1>7. (\A s \in Logins : Granted(login[s]) => login[s].at = "over" /\ s \in log)'
  BY <1>6, Zenon DEF Granted
<1> QED BY <1>1, <1>5, <1>7, Zenon DEF LoginInv

\* What the limiter makes of its window.
LEMMA Limiter ==
    ASSUME LoginConstants, LoginInv
    PROVE  /\ Lg!NoWindow \in [count : Nat, age : Nat] /\ Lg!NoWindow.count <= failures.count
           /\ Lg!AfterAllow \in [count : Nat, age : Nat] /\ Lg!AfterAllow.count <= failures.count
           /\ Lg!Allowed => Lg!AfterAllow.count <= MaxFailures - 1
           /\ Lg!recordFailure \in [count : Nat, age : Nat]
           /\ Lg!recordFailure.count <= failures.count + 1 \/ Lg!recordFailure.count = 1
<1>1. failures \in [count : Nat, age : Nat] /\ MaxFailures \in Nat /\ MaxFailures >= 1
  BY DEF LoginInv, LoginConstants
<1>2. Lg!NoWindow \in [count : Nat, age : Nat] /\ Lg!NoWindow.count = 0
  BY DEF Lg!NoWindow
<1>3. Lg!AfterAllow = Lg!NoWindow \/ (Lg!AfterAllow = failures /\ ~ Lg!Over)
  BY Zenon DEF Lg!AfterAllow
<1>4. Lg!Allowed /\ ~ Lg!Over => failures.count < MaxFailures
  <2>1. Lg!Allowed /\ ~ Lg!Over => failures.count = 0 \/ failures.count < MaxFailures
    BY Zenon DEF Lg!Allowed, Lg!Over
  <2> QED BY <1>1, <2>1, SMT
<1>5. Lg!Allowed => Lg!AfterAllow.count <= MaxFailures - 1
  BY <1>1, <1>2, <1>3, <1>4, SMT
<1>6. /\ Lg!recordFailure \in [count : Nat, age : Nat]
      /\ Lg!recordFailure.count <= failures.count + 1 \/ Lg!recordFailure.count = 1
  BY <1>1, SMT DEF Lg!recordFailure
<1> QED BY <1>1, <1>2, <1>3, <1>5, <1>6, SMT

\* The limiter lets a request through while there is room for a failure, or
\* turns it away.
LEMMA AllowStep ==
    ASSUME LoginConstants, LoginInv, NEW r \in Logins, NEW p \in Passwords, Lg!allow(r, p)
    PROVE  LoginInv'
<1>1. failures' = Lg!AfterAllow /\ UNCHANGED log /\ login[r].at = "new" /\ login[r] \in LoginType
  BY Zenon DEF Lg!allow, Lg!Login, LoginInv
<1>2. CASE ~ Lg!Allowed
  <2>1. PICK a \in Codes : a = 429
    BY DEF Codes
  <2> DEFINE q == [Lg!NewLogin EXCEPT !.at = "over", !.answer = a]
  <2>2. login' = [login EXCEPT ![r] = q]
    BY <1>2, <2>1, Zenon DEF Lg!allow, Lg!Login
  <2>3. q \in LoginType /\ q.at = "over" /\ q.answer = a
    BY NewLoginFields, AnsweredFields, Zenon
  <2> HIDE DEF q
  <2>4. ~ Granted(q)
    BY <2>1, <2>3, SMT DEF Granted
  <2>5. failures' \in [count : Nat, age : Nat] /\ failures'.count <= failures.count
    BY <1>1, Limiter, Zenon
  <2> QED BY <1>1, <2>2, <2>3, <2>4, <2>5, SettleStep, Zenon
<1>3. CASE Lg!Allowed
  <2> DEFINE q == [login[r] EXCEPT !.at = "check", !.typed = p]
  <2>1. login' = [login EXCEPT ![r] = q]
    BY <1>3, Zenon DEF Lg!allow, Lg!Login
  <2>2. q \in LoginType /\ q.at = "check" /\ q.answer = login[r].answer
    BY <1>1, AllowedFields, Zenon
  <2> HIDE DEF q
  <2>3. ~ Granted(q)
    <3>1. ~ Granted(login[r])
      BY <1>1, Zenon DEF LoginInv
    <3> QED BY <2>2, <3>1, SMT DEF Granted
  <2>4. login' \in [Logins -> LoginType] /\ login'[r] = q /\ \A s \in Logins \ {r} : login'[s] = login[s]
    BY <2>1, <2>2, RequestMoves, Zenon
  <2>5. failures' \in [count : Nat, age : Nat] /\ failures'.count <= MaxFailures - 1
    BY <1>1, <1>3, Limiter, Zenon
  <2>6. Cardinality(Unsettled') \in Nat /\ Cardinality(Unsettled') <= Cardinality(Logins) /\ Cardinality(Logins) \in Nat
    <3>1. Unsettled' \in SUBSET Logins /\ IsFiniteSet(Logins)
      BY Zenon DEF Unsettled, LoginConstants
    <3>2. IsFiniteSet(Unsettled') /\ Cardinality(Unsettled') <= Cardinality(Logins)
      BY <3>1, FS_Subset, Zenon
    <3> QED BY <3>1, <3>2, FS_CardinalityType, Zenon
  <2>7. failures'.count + Cardinality(Unsettled') <= MaxFailures - 1 + Cardinality(Logins)
    BY <2>5, <2>6, SMT DEF LoginConstants
  <2>8. (failures.count + Cardinality(Unsettled) <= MaxFailures - 1 + Cardinality(Logins))'
    BY <2>7, Zenon
  <2>9. (\A s \in Logins : Granted(login[s]) => login[s].at = "over" /\ s \in log)'
    <3>1. \A s \in Logins : Granted(login'[s]) => login'[s].at = "over" /\ s \in log'
      BY <1>1, <2>3, <2>4, Zenon DEF LoginInv
    <3> QED BY <3>1, Zenon DEF Granted
  <2> QED BY <2>4, <2>5, <2>8, <2>9, Zenon DEF LoginInv
<1> QED BY <1>2, <1>3, Zenon
\* The failure of a request that may fail takes the place of the request.
LEMMA RefuseStep ==
    ASSUME LoginConstants, LoginInv, NEW r \in Logins, Lg!Refuse(r)
    PROVE  LoginInv'
<1>1. UNCHANGED log /\ login[r].at = "bad" /\ login[r] \in LoginType /\ r \in Unsettled
  BY Zenon DEF Lg!Refuse, Lg!Login, LoginInv, Unsettled
<1>2. CASE UNCHANGED failures /\ Lg!Login(r, "bad", Lg!Answer(r, 503))
  <2>1. PICK a \in Codes : a = 503
    BY DEF Codes
  <2> DEFINE q == [login[r] EXCEPT !.at = "over", !.answer = a]
  <2>2. login' = [login EXCEPT ![r] = q]
    BY <1>2, <2>1, Zenon DEF Lg!Login, Lg!Answer
  <2>3. q \in LoginType /\ q.at = "over" /\ q.answer = a
    BY <1>1, AnsweredFields, Zenon
  <2> HIDE DEF q
  <2>4. ~ Granted(q)
    BY <2>1, <2>3, SMT DEF Granted
  <2>5. failures' \in [count : Nat, age : Nat] /\ failures'.count <= failures.count
    BY <1>2, SMT DEF LoginInv
  <2> QED BY <1>1, <2>2, <2>3, <2>4, <2>5, SettleStep, Zenon
<1>3. CASE failures' = Lg!recordFailure /\ Lg!Login(r, "bad", Lg!Answer(r, 401))
  <2>1. PICK a \in Codes : a = 401
    BY DEF Codes
  <2> DEFINE q == [login[r] EXCEPT !.at = "over", !.answer = a]
  <2>2. login' = [login EXCEPT ![r] = q]
    BY <1>3, <2>1, Zenon DEF Lg!Login, Lg!Answer
  <2>3. q \in LoginType /\ q.at = "over" /\ q.answer = a
    BY <1>1, AnsweredFields, Zenon
  <2> HIDE DEF q
  <2>4. ~ Granted(q)
    BY <2>1, <2>3, SMT DEF Granted
  <2>5. /\ login' \in [Logins -> LoginType] /\ login'[r] = q /\ \A s \in Logins \ {r} : login'[s] = login[s]
        /\ Unsettled' = Unsettled \ {r}
    BY <2>2, <2>3, RequestMoves, Zenon
  <2>6. /\ failures' \in [count : Nat, age : Nat]
        /\ failures'.count <= failures.count + 1 \/ failures'.count = 1
    BY <1>3, Limiter, Zenon
  <2>7. Cardinality(Unsettled') = Cardinality(Unsettled) - 1
    BY <1>1, <2>5, UnsettledFinite, FS_RemoveElement, Zenon
  <2>8. /\ Cardinality(Unsettled) \in Nat /\ Cardinality(Logins) \in Nat /\ Cardinality(Unsettled) <= Cardinality(Logins)
        /\ failures.count + Cardinality(Unsettled) <= MaxFailures - 1 + Cardinality(Logins) /\ failures.count \in Nat
    BY UnsettledFinite, Zenon DEF LoginInv
  <2>9. failures'.count + Cardinality(Unsettled') <= MaxFailures - 1 + Cardinality(Logins)
    BY <2>6, <2>7, <2>8, SMT DEF LoginConstants
  <2>10. (failures.count + Cardinality(Unsettled) <= MaxFailures - 1 + Cardinality(Logins))'
    BY <2>9, Zenon
  <2>11. (\A s \in Logins : Granted(login[s]) => login[s].at = "over" /\ s \in log)'
    <3>1. \A s \in Logins : Granted(login'[s]) => login'[s].at = "over" /\ s \in log'
      BY <1>1, <2>4, <2>5, Zenon DEF LoginInv
    <3> QED BY <3>1, Zenon DEF Granted
  <2> QED BY <2>5, <2>6, <2>10, <2>11, Zenon DEF LoginInv
<1> QED BY <1>2, <1>3, Zenon DEF Lg!Refuse

\* The other steps of a login.
LEMMA CheckStep ==
    ASSUME LoginConstants, LoginInv, NEW r \in Logins, Lg!CheckPassword(r) \/ Lg!Reset(r)
    PROVE  LoginInv'
<1>1. PICK a \in {"good", "bad", "audit"} :
         /\ login' = [login EXCEPT ![r] = [login[r] EXCEPT !.at = a]]
         /\ a \in {"check", "bad"} => login[r].at = "check"
  BY Zenon DEF Lg!CheckPassword, Lg!Reset, Lg!Login
<1>2. login[r] \in LoginType /\ login[r].at # "over" /\ UNCHANGED log
  BY Zenon DEF Lg!CheckPassword, Lg!Reset, Lg!Login, LoginInv
<1> DEFINE q == [login[r] EXCEPT !.at = a]
<1>3. q \in LoginType /\ q.at = a /\ q.answer = login[r].answer
  <2>1. a \in {"new", "check", "good", "bad", "audit", "over"}
    BY Zenon
  <2> QED BY <1>2, <2>1, MovedFields, Zenon
<1> HIDE DEF q
<1>4. ~ Granted(q)
  <2>1. ~ Granted(login[r])
    BY <1>2, Zenon DEF LoginInv
  <2> QED BY <1>3, <2>1, SMT DEF Granted
<1>5. failures' \in [count : Nat, age : Nat] /\ failures'.count <= failures.count
  <2>1. CASE UNCHANGED failures
    BY <2>1, SMT DEF LoginInv
  <2>2. CASE failures' = Lg!NoWindow
    BY <2>2, Limiter, Zenon
  <2> QED BY <2>1, <2>2, Zenon DEF Lg!CheckPassword, Lg!Reset
<1>6. q.at \in {"check", "bad"} => r \in Unsettled
  BY <1>1, <1>3, Zenon DEF Unsettled
<1>7. login' = [login EXCEPT ![r] = q]
  BY <1>1, Zenon DEF q
<1> QED BY <1>2, <1>3, <1>4, <1>5, <1>6, <1>7, SettleStep, Zenon

LEMMA GenerateTokenStep ==
    ASSUME LoginConstants, LoginInv, NEW r \in Logins, Lg!GenerateToken(r)
    PROVE  LoginInv'
<1>1. PICK a \in Codes : /\ login' = [login EXCEPT ![r] = [login[r] EXCEPT !.at = "over", !.answer = a]]
                         /\ log' = log \cup {r} \/ (a # 200 /\ log' = log)
  <2>1. PICK y \in Codes : y = 200
    BY DEF Codes
  <2>2. PICK n \in Codes : n = 503
    BY DEF Codes
  <2>3. n # 200
    BY <2>2
  <2>4. CASE Lg!Login(r, "audit", Lg!Answer(r, 200)) /\ log' = log \cup {r}
    BY <2>1, <2>4, Zenon DEF Lg!Login, Lg!Answer
  <2>5. CASE Lg!Login(r, "audit", Lg!AnswerWithoutEvent(r)) /\ UNCHANGED log
    <3>1. login' = [login EXCEPT ![r] = [login[r] EXCEPT !.at = "over", !.answer = n]]
      BY <2>2, <2>5, Zenon DEF Lg!Login, Lg!Answer, Lg!AnswerWithoutEvent
    <3> QED BY <2>3, <2>5, <3>1, Zenon
  <2> QED BY <2>4, <2>5, Zenon DEF Lg!GenerateToken
<1>2. login[r] \in LoginType /\ UNCHANGED failures
  BY Zenon DEF Lg!GenerateToken, LoginInv
<1> DEFINE q == [login[r] EXCEPT !.at = "over", !.answer = a]
<1>3. q \in LoginType /\ q.at = "over" /\ q.answer = a
  BY <1>2, AnsweredFields, Zenon
<1> HIDE DEF q
<1>4. Granted(q) => r \in log'
  BY <1>1, <1>3, SMT DEF Granted
<1>5. failures' \in [count : Nat, age : Nat] /\ failures'.count <= failures.count
  BY <1>2, SMT DEF LoginInv
<1>6. login' = [login EXCEPT ![r] = q] /\ log \ {r} \subseteq log'
  BY <1>1, Zenon DEF q
<1> QED BY <1>3, <1>4, <1>5, <1>6, SettleStep, Zenon

LEMMA AgainStep ==
    ASSUME LoginConstants, LoginInv, NEW r \in Logins, Lg!Again(r)
    PROVE  LoginInv'
<1>1. login' = [login EXCEPT ![r] = Lg!NewLogin] /\ log' = log \ {r} /\ UNCHANGED failures
  BY Zenon DEF Lg!Again
<1>2. failures' \in [count : Nat, age : Nat] /\ failures'.count <= failures.count
  BY <1>1, SMT DEF LoginInv
<1> QED BY <1>1, <1>2, NewLoginFields, SettleStep, Zenon
\* Time, and the changes of the password.
LEMMA TimeStep ==
    ASSUME LoginInv, UNCHANGED <<login, log>>,
           failures' \in [count : Nat, age : Nat], failures'.count = failures.count
    PROVE  LoginInv'
<1>1. UNCHANGED Unsettled
  BY Zenon DEF Unsettled
<1> QED BY <1>1, Zenon DEF LoginInv, Granted

LEMMA LoginNext ==
    ASSUME LoginConstants, LoginInv, [Lg!Next]_(Lg!vars)
    PROVE  LoginInv'
<1>1. CASE UNCHANGED <<login, log, failures>>
  <2>1. failures' \in [count : Nat, age : Nat] /\ failures'.count = failures.count
    BY <1>1, Zenon DEF LoginInv
  <2> QED BY <1>1, <2>1, TimeStep, Zenon
<1>2. CASE Lg!Tick
  <2>1. failures' \in [count : Nat, age : Nat] /\ failures'.count = failures.count
    BY <1>2, SMT DEF Lg!Tick, LoginInv
  <2> QED BY <1>2, <2>1, TimeStep, Zenon DEF Lg!Tick
<1>3. CASE \E r \in Logins : Lg!LoginStep(r) \/ Lg!Again(r)
  BY <1>3, CheckStep, RefuseStep, GenerateTokenStep, AgainStep, Zenon DEF Lg!LoginStep
<1>4. CASE \E r \in Logins : \E p \in Passwords : Lg!allow(r, p)
  BY <1>4, AllowStep, Zenon
<1>5. CASE \E r \in Changes : \/ Lg!CheckCurrent(r) \/ Lg!UpdateUser(r)
                              \/ \E p, n \in Passwords : Lg!BeginChange(r, p, n)
  <2>1. UNCHANGED <<login, log, failures>>
    BY <1>5, Zenon DEF Lg!CheckCurrent, Lg!UpdateUser, Lg!BeginChange
  <2> QED BY <1>1, <2>1, Zenon
<1>6. CASE UNCHANGED Lg!vars
  BY <1>1, <1>6, Zenon DEF Lg!vars
<1> QED BY <1>2, <1>3, <1>4, <1>5, <1>6, Zenon DEF Lg!Next

\* However logins overlap, the limiter counts no more failures than it allows
\* and the logins that were let through together, and a session token is only
\* handed out with its event in the audit log (handleLogin, loginRateLimiter).
THEOREM LoginsAreLimited ==
    ASSUME LoginConstants PROVE Lg!Spec => [](Lg!FailuresAreBounded /\ Lg!TokensAreAudited)
<1>1. LoginInv => Lg!FailuresAreBounded /\ Lg!TokensAreAudited
  <2> SUFFICES ASSUME LoginInv PROVE Lg!FailuresAreBounded /\ Lg!TokensAreAudited
    OBVIOUS
  <2>1. /\ failures.count \in Nat /\ Cardinality(Unsettled) \in Nat /\ Cardinality(Logins) \in Nat
        /\ failures.count + Cardinality(Unsettled) <= MaxFailures - 1 + Cardinality(Logins) /\ MaxFailures \in Nat
    BY UnsettledFinite, Zenon DEF LoginInv, LoginConstants
  <2>2. failures.count <= MaxFailures - 1 + Cardinality(Logins)
    BY <2>1, SMT
  <2>3. Lg!TokensAreAudited
    <3>1. \A r \in Logins : Granted(login[r]) => r \in log
      BY Zenon DEF LoginInv
    <3> QED BY <3>1, SMT DEF Lg!TokensAreAudited, Granted
  <2>4. Lg!Cardinality(Logins) = Cardinality(Logins)
    BY Zenon DEF Lg!Cardinality, Cardinality, Lg!IsFiniteSet, IsFiniteSet
  <2> QED BY <2>2, <2>3, <2>4, Zenon DEF Lg!FailuresAreBounded
<1>2. Lg!Init => LoginInv
  BY LoginInit, Zenon
<1>3. LoginInv /\ [Lg!Next]_(Lg!vars) => LoginInv'
  BY LoginNext, Zenon
<1> QED BY <1>1, <1>2, <1>3, PTL DEF Lg!Spec

\* A failure never moves the end of a window that is running: a lockout ends
\* one window after its first failure (recordFailure).
THEOREM LockoutEnds == ASSUME LoginConstants PROVE Lg!Spec => Lg!WindowIsFixed
<1>1. LoginInv /\ [Lg!Next]_(Lg!vars)
        => [failures.count > 0 /\ failures'.count > failures.count => failures'.age >= failures.age]_(Lg!vars)
  <2> SUFFICES ASSUME LoginInv, [Lg!Next]_(Lg!vars), failures.count > 0, failures'.count > failures.count
               PROVE  failures'.age >= failures.age
    BY Zenon
  <2>1. failures \in [count : Nat, age : Nat]
    BY Zenon DEF LoginInv
  <2>2. CASE failures' = Lg!recordFailure
    <3>1. CASE Lg!Over
      BY <2>1, <2>2, <3>1, SMT DEF Lg!recordFailure
    <3>2. CASE ~ Lg!Over
      BY <2>1, <2>2, <3>2, SMT DEF Lg!recordFailure
    <3> QED BY <3>1, <3>2, Zenon
  <2>3. CASE failures' = Lg!AfterAllow \/ failures' = Lg!NoWindow \/ failures' = failures
    <3>1. failures' = Lg!NoWindow \/ failures' = failures
      BY <2>3, Zenon DEF Lg!AfterAllow
    <3>2. Lg!NoWindow.count = 0
      BY DEF Lg!NoWindow
    <3> QED BY <2>1, <3>1, <3>2, SMT
  <2>4. CASE Lg!Tick
    BY <2>1, <2>4, SMT DEF Lg!Tick
  <2> QED BY <2>2, <2>3, <2>4, Zenon DEF Lg!Next, Lg!vars, Lg!LoginStep, Lg!CheckPassword, Lg!Refuse, Lg!Reset, Lg!GenerateToken,
     Lg!Again, Lg!allow,
             Lg!CheckCurrent, Lg!UpdateUser, Lg!BeginChange
<1>2. Lg!Init => LoginInv
  BY LoginInit, Zenon
<1>3. LoginInv /\ [Lg!Next]_(Lg!vars) => LoginInv'
  BY LoginNext, Zenon
<1> QED BY <1>1, <1>2, <1>3, PTL DEF Lg!Spec, Lg!WindowIsFixed

(***************************************************************************)
(* Accounts and groups                                                     *)
(***************************************************************************)

CONSTANTS Emails, Seeds, SeedEmail, Groups, Initial, Replaces, Wanted, Attaches

VARIABLES users, admin, lock, seed, member, rep

Ug == INSTANCE UserGroups

\* Every seed has its address, and nobody is no process and no call.
AccountConstants == SeedEmail \in [Seeds -> Emails] /\ Nobody \notin Seeds \cup Replaces

SeedType == [at : {"new", "locked", "found", "over"}, found : {"none", "empty", "same", "refused"},
             answer : {"none", "created", "same", "refused"}]

\* What a seed has found holds as long as it has the lock, and an answer of
\* the seed stays true after it.
FoundOK(q, e, U) ==
    /\ q.at # "over" => q.answer = "none"
    /\ q.at = "found" /\ q.found = "empty" => \A f \in Emails : U[f] = "none"
    /\ q.at = "found" /\ q.found = "same" => U[e] = "seed"
    /\ q.at = "found" => q.found # "none"
    /\ q.answer \in {"created", "same"} => U[e] = "seed"

SeedInv ==
    /\ users \in [Emails -> {"none", "seed", "other"}] /\ seed \in [Seeds -> SeedType]
    /\ admin = {e \in Emails : users[e] = "seed"}
    /\ \A e, f \in Emails : users[e] = "seed" /\ users[f] = "seed" => e = f
    /\ \A p \in Seeds : seed[p].at \in {"locked", "found"} => lock = p
    /\ \A p \in Seeds : FoundOK(seed[p], SeedEmail[p], users)

\* The records that the seeds write.
LEMMA SeedFields ==
    ASSUME NEW q \in SeedType, NEW a \in {"new", "locked", "found", "over"}
    PROVE  /\ [q EXCEPT !.at = a] \in SeedType /\ [q EXCEPT !.at = a].at = a
           /\ [q EXCEPT !.at = a].found = q.found /\ [q EXCEPT !.at = a].answer = q.answer
BY Zenon DEF SeedType

LEMMA FoundFields ==
    ASSUME NEW q \in SeedType, NEW f \in {"none", "empty", "same", "refused"}
    PROVE  /\ [q EXCEPT !.at = "found", !.found = f] \in SeedType
           /\ [q EXCEPT !.at = "found", !.found = f].at = "found"
           /\ [q EXCEPT !.at = "found", !.found = f].found = f
           /\ [q EXCEPT !.at = "found", !.found = f].answer = q.answer
BY Zenon DEF SeedType

LEMMA AnswerFields ==
    ASSUME NEW q \in SeedType, NEW a \in {"none", "created", "same", "refused"}
    PROVE  /\ [q EXCEPT !.at = "over", !.answer = a] \in SeedType
           /\ [q EXCEPT !.at = "over", !.answer = a].at = "over"
           /\ [q EXCEPT !.at = "over", !.answer = a].answer = a
BY Zenon DEF SeedType

LEMMA NewSeedFields == Ug!NewSeed \in SeedType /\ Ug!NewSeed.at = "new" /\ Ug!NewSeed.answer = "none"
BY Zenon DEF Ug!NewSeed, SeedType

LEMMA SeedInit == ASSUME AccountConstants, Ug!Init PROVE SeedInv
BY NewSeedFields, Zenon DEF Ug!Init, SeedInv, FoundOK

\* A step of one seed that leaves the accounts alone.
LEMMA SeedMoves ==
    ASSUME AccountConstants, SeedInv, NEW p \in Seeds, NEW q \in SeedType, seed' = [seed EXCEPT ![p] = q],
           UNCHANGED <<users, admin>>, FoundOK(q, SeedEmail[p], users),
           lock' = lock \/ lock = Nobody \/ lock = p, q.at \in {"locked", "found"} => lock' = p
    PROVE  SeedInv'
<1>1. seed' \in [Seeds -> SeedType] /\ seed'[p] = q /\ \A r \in Seeds \ {p} : seed'[r] = seed[r]
  BY Zenon DEF SeedInv
<1>2. ASSUME NEW r \in Seeds, seed'[r].at \in {"locked", "found"} PROVE lock' = r
  <2>1. CASE r = p
    BY <1>1, <1>2, <2>1, Zenon
  <2>2. CASE r # p
    <3>1. lock = r /\ lock # Nobody
      BY <1>1, <1>2, <2>2, Zenon DEF SeedInv, AccountConstants
    <3> QED BY <2>2, <3>1, Zenon
  <2> QED BY <2>1, <2>2, Zenon
<1>3. ASSUME NEW r \in Seeds PROVE FoundOK(seed'[r], SeedEmail[r], users')
  <2>1. FoundOK(seed'[r], SeedEmail[r], users)
    BY <1>1, Zenon DEF SeedInv
  <2> QED BY <2>1, Zenon
<1> QED BY <1>1, <1>2, <1>3, Zenon DEF SeedInv

LEMMA BeginSeedStep ==
    ASSUME AccountConstants, SeedInv, NEW p \in Seeds, Ug!BeginSeed(p)
    PROVE  SeedInv'
<1> DEFINE q == [seed[p] EXCEPT !.at = "locked"]
<1>1. seed[p].at = "new" /\ seed' = [seed EXCEPT ![p] = q] /\ lock = Nobody /\ lock' = p /\ UNCHANGED <<users, admin>>
  BY Zenon DEF Ug!BeginSeed, Ug!Seed, Ug!LockUsers
<1>2. q \in SeedType /\ q.at = "locked" /\ q.answer = seed[p].answer
  BY SeedFields, Zenon DEF SeedInv
<1> HIDE DEF q
<1>3. FoundOK(q, SeedEmail[p], users)
  BY <1>1, <1>2, Zenon DEF SeedInv, FoundOK
<1> QED BY <1>1, <1>2, <1>3, SeedMoves, Zenon

LEMMA FindUserStep ==
    ASSUME AccountConstants, SeedInv, NEW p \in Seeds, Ug!FindUser(p)
    PROVE  SeedInv'
<1>1. PICK e \in Emails : e = SeedEmail[p]
  BY Zenon DEF AccountConstants
<1>2. PICK w \in {"same", "refused", "empty"} :
         w = IF users[e] # "none" THEN (IF e \in admin THEN "same" ELSE "refused")
             ELSE IF \E f \in Emails : users[f] # "none" THEN "refused" ELSE "empty"
  BY Zenon
<1> DEFINE q == [seed[p] EXCEPT !.at = "found", !.found = w]
<1>3. seed[p].at = "locked" /\ seed' = [seed EXCEPT ![p] = q] /\ UNCHANGED <<users, admin, lock>>
  BY <1>1, <1>2, Zenon DEF Ug!FindUser, Ug!Seed
<1>4. q \in SeedType /\ q.at = "found" /\ q.found = w /\ q.answer = seed[p].answer
  <2>1. seed[p] \in SeedType /\ w \in {"none", "empty", "same", "refused"}
    BY Zenon DEF SeedInv
  <2> QED BY <2>1, FoundFields, Zenon
<1> HIDE DEF q
<1>5. (w = "empty" => \A f \in Emails : users[f] = "none") /\ (w = "same" => users[e] = "seed")
  BY <1>2, Zenon DEF SeedInv
<1>6. FoundOK(q, SeedEmail[p], users)
  BY <1>1, <1>3, <1>4, <1>5, Zenon DEF SeedInv, FoundOK
<1>7. lock' = p
  BY <1>3, Zenon DEF SeedInv
<1> QED BY <1>3, <1>4, <1>6, <1>7, SeedMoves, Zenon

LEMMA RestartSeedStep ==
    ASSUME AccountConstants, SeedInv, NEW p \in Seeds, Ug!RestartSeed(p)
    PROVE  SeedInv'
<1>1. seed' = [seed EXCEPT ![p] = Ug!NewSeed] /\ UNCHANGED <<users, admin>> /\ lock = p
  BY Zenon DEF Ug!RestartSeed, SeedInv
<1>2. FoundOK(Ug!NewSeed, SeedEmail[p], users)
  BY NewSeedFields, Zenon DEF FoundOK
<1> QED BY <1>1, <1>2, NewSeedFields, SeedMoves, Zenon

\* An account that is created where there was none: the seeds under way that
\* hold the lock have not begun.
LEMMA CreateUserStep ==
    ASSUME AccountConstants, SeedInv, NEW e \in Emails, Ug!CreateUser(e)
    PROVE  SeedInv'
<1>1. users[e] = "none" /\ lock = Nobody /\ users' = [users EXCEPT ![e] = "other"] /\ UNCHANGED <<admin, lock, seed>>
  BY Zenon DEF Ug!CreateUser
<1>2. users' \in [Emails -> {"none", "seed", "other"}] /\ \A f \in Emails : users'[f] = "seed" <=> users[f] = "seed"
  BY <1>1, Zenon DEF SeedInv
<1>3. ASSUME NEW p \in Seeds PROVE FoundOK(seed[p], SeedEmail[p], users')
  <2>1. seed[p].at # "found" /\ SeedEmail[p] \in Emails
    BY <1>1, Zenon DEF SeedInv, AccountConstants
  <2> QED BY <1>1, <1>2, <2>1, Zenon DEF SeedInv, FoundOK
<1>4. admin' = {f \in Emails : users'[f] = "seed"}
  BY <1>1, <1>2, Zenon DEF SeedInv
<1> QED BY <1>1, <1>2, <1>3, <1>4, Zenon DEF SeedInv

\* The seed ends: it writes its account into a database that has none, or
\* answers what it has found.
LEMMA EndSeedStep ==
    ASSUME AccountConstants, SeedInv, NEW p \in Seeds, Ug!EndSeed(p)
    PROVE  SeedInv'
<1>1. PICK e \in Emails : e = SeedEmail[p]
  BY Zenon DEF AccountConstants
<1>2. seed[p] \in SeedType /\ seed[p].at = "found" /\ lock = p
  BY Zenon DEF SeedInv, Ug!EndSeed, Ug!Seed
<1>3. PICK a \in {"created", "same", "refused"} : a = IF seed[p].found = "empty" THEN "created" ELSE seed[p].found
  <2>1. seed[p].found \in {"empty", "same", "refused"}
    BY <1>2, Zenon DEF SeedType, SeedInv, FoundOK
  <2> QED BY <2>1, Zenon
<1> DEFINE q == [seed[p] EXCEPT !.at = "over", !.answer = a]
<1>4. seed' = [seed EXCEPT ![p] = q]
  BY <1>3, Zenon DEF Ug!EndSeed, Ug!Seed
<1>5. q \in SeedType /\ q.at = "over" /\ q.answer = a
  <2>1. a \in {"none", "created", "same", "refused"}
    BY Zenon
  <2> QED BY <1>2, <2>1, AnswerFields, Zenon
<1> HIDE DEF q
<1>6. CASE seed[p].found # "empty"
  <2>1. UNCHANGED <<users, admin>>
    BY <1>6, Zenon DEF Ug!EndSeed
  <2>2. FoundOK(q, SeedEmail[p], users)
    <3>1. FoundOK(seed[p], SeedEmail[p], users) /\ q.answer = seed[p].found
      BY <1>3, <1>5, <1>6, Zenon DEF SeedInv
    <3>2. seed[p].found # "created"
      BY <1>2, Zenon DEF SeedType
    <3> QED BY <1>2, <1>5, <3>1, <3>2, Zenon DEF FoundOK
  <2> QED BY <1>2, <1>4, <1>5, <2>1, <2>2, SeedMoves, Zenon
<1>7. CASE seed[p].found = "empty"
  <2>1. users' = [users EXCEPT ![e] = "seed"] /\ admin' = admin \cup {e}
    BY <1>1, <1>7, Zenon DEF Ug!EndSeed
  <2>2. \A f \in Emails : users[f] = "none"
    BY <1>2, <1>7, Zenon DEF SeedInv, FoundOK
  <2>3. /\ users' \in [Emails -> {"none", "seed", "other"}] /\ users'[e] = "seed"
        /\ \A f \in Emails : users'[f] = "seed" => f = e
    BY <2>1, <2>2, Zenon DEF SeedInv
  <2>4. seed' \in [Seeds -> SeedType] /\ seed'[p] = q /\ \A r \in Seeds \ {p} : seed'[r] = seed[r]
    BY <1>4, <1>5, Zenon DEF SeedInv
  <2>5. ASSUME NEW r \in Seeds \ {p}
        PROVE  seed[r].at \notin {"locked", "found"} /\ seed[r].answer \notin {"created", "same"}
    <3>1. lock # r /\ SeedEmail[r] \in Emails
      BY <1>2, Zenon DEF AccountConstants
    <3>2. users[SeedEmail[r]] # "seed"
      BY <2>2, <3>1, Zenon
    <3> QED BY <3>1, <3>2, Zenon DEF SeedInv, FoundOK
  <2>6. ASSUME NEW r \in Seeds PROVE FoundOK(seed'[r], SeedEmail[r], users')
    <3>1. CASE r = p
      BY <1>1, <1>5, <2>3, <2>4, <3>1, Zenon DEF FoundOK
    <3>2. CASE r # p
      <4>1. FoundOK(seed[r], SeedEmail[r], users) /\ seed'[r] = seed[r]
        BY <2>4, <3>2, Zenon DEF SeedInv
      <4> QED BY <2>5, <3>2, <4>1, Zenon DEF FoundOK
    <3> QED BY <3>1, <3>2, Zenon
  <2>7. ASSUME NEW r \in Seeds PROVE seed'[r].at \notin {"locked", "found"}
    BY <1>5, <2>4, <2>5, Zenon
  <2>8. admin' = {f \in Emails : users'[f] = "seed"}
    BY <2>1, <2>2, <2>3, Zenon DEF SeedInv
  <2> QED BY <2>3, <2>4, <2>6, <2>7, <2>8, Zenon DEF SeedInv
<1> QED BY <1>6, <1>7, Zenon

(* Memberships. *)

\* The groups of the calls are groups.
MemberConstants == Initial \subseteq Groups /\ Wanted \in [Replaces -> SUBSET Groups] /\ Nobody \notin Replaces

Rows == Groups \X (Replaces \cup {Nobody, "attach"})
RepType == [at : {"new", "deleting", "deleted", "inserted", "over", "failed"}, snap : SUBSET Rows, del : SUBSET Rows,
            ins : SUBSET Groups]

\* A replacement has inserted nothing but in its last state; then nobody else
\* has a row of its groups that it has not deleted, and no other replacement
\* has inserted one.
RepInv ==
    /\ rep \in [Replaces -> RepType] /\ member \subseteq Rows /\ Ug!OneRowPerGroup
    /\ \A t \in Replaces : rep[t].at # "inserted" => rep[t].ins = {}
    /\ \A t \in Replaces : \A m \in member \ rep[t].del : m[1] \notin rep[t].ins
    /\ \A t, u \in Replaces : t # u => rep[t].ins \cap rep[u].ins = {}

\* The records that the replacements write.
LEMMA BegunFields ==
    ASSUME NEW q \in RepType, NEW s \in SUBSET Rows
    PROVE  /\ [q EXCEPT !.at = "deleting", !.snap = s] \in RepType
           /\ [q EXCEPT !.at = "deleting", !.snap = s].at = "deleting"
           /\ [q EXCEPT !.at = "deleting", !.snap = s].ins = q.ins
BY Zenon DEF RepType

LEMMA DeletedFields ==
    ASSUME NEW q \in RepType, NEW s \in SUBSET Rows
    PROVE  /\ [q EXCEPT !.at = "deleted", !.del = s] \in RepType
           /\ [q EXCEPT !.at = "deleted", !.del = s].at = "deleted"
           /\ [q EXCEPT !.at = "deleted", !.del = s].ins = q.ins
BY Zenon DEF RepType

LEMMA InsertedFields ==
    ASSUME NEW q \in RepType, NEW g \in SUBSET Groups
    PROVE  /\ [q EXCEPT !.at = "inserted", !.ins = g] \in RepType
           /\ [q EXCEPT !.at = "inserted", !.ins = g].at = "inserted"
           /\ [q EXCEPT !.at = "inserted", !.ins = g].ins = g
           /\ [q EXCEPT !.at = "inserted", !.ins = g].del = q.del
BY Zenon DEF RepType

LEMMA EndedFields ==
    ASSUME NEW a \in {"new", "over", "failed"}
    PROVE  /\ [Ug!NewReplace EXCEPT !.at = a] \in RepType /\ [Ug!NewReplace EXCEPT !.at = a].at = a
           /\ [Ug!NewReplace EXCEPT !.at = a].ins = {}
BY Zenon DEF RepType, Ug!NewReplace

LEMMA RepInit == ASSUME MemberConstants, Ug!Init PROVE RepInv
<1>1. Ug!NewReplace \in RepType /\ Ug!NewReplace.ins = {}
  BY Zenon DEF Ug!NewReplace, RepType
<1>2. member \subseteq Rows
  BY DEF Ug!Init, MemberConstants, Rows
<1>3. Ug!OneRowPerGroup
  BY DEF Ug!Init, Ug!OneRowPerGroup
<1> QED BY <1>1, <1>2, <1>3, Zenon DEF Ug!Init, RepInv

\* What others hold includes what they have inserted.
LEMMA HeldInserted ==
    ASSUME RepInv, NEW t, NEW u \in Replaces \ {t}, NEW g \in rep[u].ins
    PROVE  g \in Ug!HeldGroups(t)
<1>1. rep[u].at = "inserted"
  BY Zenon DEF RepInv
<1>2. u \in {w \in Replaces \ {t} : Ug!InTx(w)}
  BY <1>1, Zenon DEF Ug!InTx
<1> QED BY <1>2, Zenon DEF Ug!HeldGroups

\* A step of one replacement that commits nothing, and holds no group that
\* another has inserted or of which there is a row it has not deleted.
LEMMA RepMoves ==
    ASSUME RepInv, NEW t \in Replaces, NEW q \in RepType, rep' = [rep EXCEPT ![t] = q], UNCHANGED member,
           q.at # "inserted" => q.ins = {},
           \A m \in member \ q.del : m[1] \notin q.ins,
           \A u \in Replaces \ {t} : q.ins \cap rep[u].ins = {}
    PROVE  RepInv'
<1>1. rep' \in [Replaces -> RepType] /\ rep'[t] = q /\ \A u \in Replaces \ {t} : rep'[u] = rep[u]
  BY Zenon DEF RepInv
<1>2. Ug!OneRowPerGroup'
  BY Zenon DEF RepInv, Ug!OneRowPerGroup
<1>3. ASSUME NEW u \in Replaces, NEW w \in Replaces, u # w PROVE rep'[u].ins \cap rep'[w].ins = {}
  BY <1>1, <1>3, Zenon DEF RepInv
<1>4. ASSUME NEW u \in Replaces
      PROVE  /\ rep'[u].at # "inserted" => rep'[u].ins = {}
             /\ \A m \in member \ rep'[u].del : m[1] \notin rep'[u].ins
  BY <1>1, Zenon DEF RepInv
<1> QED BY <1>1, <1>2, <1>3, <1>4, Zenon DEF RepInv

LEMMA BeginReplaceStep ==
    ASSUME RepInv, NEW t \in Replaces, Ug!BeginReplace(t) \/ Ug!DeleteRows(t)
    PROVE  RepInv'
<1>1. rep[t] \in RepType /\ UNCHANGED member /\ rep[t].ins = {}
  BY Zenon DEF RepInv, Ug!BeginReplace, Ug!DeleteRows, Ug!Replace
<1>2. CASE Ug!BeginReplace(t)
  <2> DEFINE q == [rep[t] EXCEPT !.at = "deleting", !.snap = member]
  <2>1. rep' = [rep EXCEPT ![t] = q]
    BY <1>2, Zenon DEF Ug!BeginReplace, Ug!Replace
  <2>2. q \in RepType /\ q.ins = {}
    BY <1>1, BegunFields, Zenon DEF RepInv
  <2> HIDE DEF q
  <2> QED BY <1>1, <2>1, <2>2, RepMoves, Zenon
<1>3. CASE Ug!DeleteRows(t)
  <2>1. PICK s \in SUBSET Rows : s = rep[t].snap \cap member
    BY Zenon DEF RepInv
  <2> DEFINE q == [rep[t] EXCEPT !.at = "deleted", !.del = s]
  <2>2. rep' = [rep EXCEPT ![t] = q]
    BY <1>3, <2>1, Zenon DEF Ug!DeleteRows, Ug!Replace
  <2>3. q \in RepType /\ q.ins = {}
    BY <1>1, DeletedFields, Zenon
  <2> HIDE DEF q
  <2> QED BY <1>1, <2>2, <2>3, RepMoves, Zenon
<1> QED BY <1>2, <1>3, Zenon

LEMMA InsertRowsStep ==
    ASSUME MemberConstants, RepInv, NEW t \in Replaces, Ug!InsertRows(t)
    PROVE  RepInv'
<1>1. rep[t] \in RepType /\ UNCHANGED member
  BY Zenon DEF RepInv, Ug!InsertRows
<1>2. CASE Ug!Conflicts(t)
  <2>1. rep' = [rep EXCEPT ![t] = [Ug!NewReplace EXCEPT !.at = "failed"]]
    BY <1>2, Zenon DEF Ug!InsertRows, Ug!Replace
  <2> DEFINE q == [Ug!NewReplace EXCEPT !.at = "failed"]
  <2>2. q \in RepType /\ q.ins = {}
    BY EndedFields, Zenon
  <2> HIDE DEF q
  <2> QED BY <1>1, <2>1, <2>2, RepMoves, Zenon DEF q
<1>3. CASE ~ Ug!Conflicts(t)
  <2>1. PICK W \in SUBSET Groups : W = Wanted[t]
    BY Zenon DEF MemberConstants
  <2> DEFINE q == [rep[t] EXCEPT !.at = "inserted", !.ins = W]
  <2>2. rep' = [rep EXCEPT ![t] = q]
    BY <1>3, <2>1, Zenon DEF Ug!InsertRows, Ug!Replace
  <2>3. q \in RepType /\ q.at = "inserted" /\ q.ins = W /\ q.del = rep[t].del
    BY <1>1, InsertedFields, Zenon
  <2> HIDE DEF q
  <2>4. \A m \in member \ q.del : m[1] \notin q.ins
    BY <1>3, <2>1, <2>3, Zenon DEF Ug!Conflicts
  <2>5. \A u \in Replaces \ {t} : q.ins \cap rep[u].ins = {}
    BY <2>1, <2>3, HeldInserted, Zenon DEF Ug!InsertRows
  <2> QED BY <1>1, <2>2, <2>3, <2>4, <2>5, RepMoves, Zenon
<1> QED BY <1>2, <1>3, Zenon

LEMMA RollbackReplaceStep ==
    ASSUME RepInv, NEW t \in Replaces, Ug!RollbackReplace(t)
    PROVE  RepInv'
<1> DEFINE q == [Ug!NewReplace EXCEPT !.at = "failed"]
<1>1. rep' = [rep EXCEPT ![t] = q] /\ UNCHANGED member
  BY Zenon DEF Ug!RollbackReplace
<1>2. q \in RepType /\ q.ins = {}
  BY EndedFields, Zenon
<1> HIDE DEF q
<1> QED BY <1>1, <1>2, RepMoves, Zenon
\* A commit puts rows of its own in the place of those it has deleted.
LEMMA CommitReplaceStep ==
    ASSUME MemberConstants, RepInv, NEW t \in Replaces, Ug!CommitReplace(t)
    PROVE  RepInv'
<1> DEFINE q == [Ug!NewReplace EXCEPT !.at = "over"]
           new == {<<g, t>> : g \in rep[t].ins}
<1>1. rep' = [rep EXCEPT ![t] = q] /\ member' = (member \ rep[t].del) \cup new
  BY Zenon DEF Ug!CommitReplace, Ug!Replace, Ug!Committed
<1>2. q \in RepType /\ q.ins = {} /\ q.at = "over"
  BY EndedFields, Zenon
<1>3. rep[t] \in RepType /\ rep[t].ins \subseteq Groups
  BY Zenon DEF RepInv, RepType
<1>4. new \subseteq Rows
  BY <1>3 DEF Rows
<1>5. \A m \in new : m[1] \in rep[t].ins
  OBVIOUS
<1>6. \A m, n \in new : m[1] = n[1] => m = n
  OBVIOUS
<1> HIDE DEF q, new
<1>7. rep' \in [Replaces -> RepType] /\ rep'[t] = q /\ \A u \in Replaces \ {t} : rep'[u] = rep[u]
  BY <1>1, <1>2, Zenon DEF RepInv
<1>8. Ug!OneRowPerGroup'
  <2>1. \A m, n \in member \ rep[t].del : m[1] = n[1] => m = n
    BY Zenon DEF RepInv, Ug!OneRowPerGroup
  <2>2. \A m \in member \ rep[t].del : \A n \in new : m[1] # n[1]
    BY <1>5, Zenon DEF RepInv
  <2> QED BY <1>1, <1>6, <2>1, <2>2, Zenon DEF Ug!OneRowPerGroup
<1>9. ASSUME NEW u \in Replaces PROVE \A m \in member' \ rep'[u].del : m[1] \notin rep'[u].ins
  <2>1. CASE u = t
    BY <1>2, <1>7, <2>1, Zenon
  <2>2. CASE u # t
    <3>1. rep'[u] = rep[u] /\ rep[t].ins \cap rep[u].ins = {}
      BY <1>7, <2>2, Zenon DEF RepInv
    <3>2. \A m \in new : m[1] \notin rep[u].ins
      BY <1>5, <3>1, Zenon
    <3>3. \A m \in member \ rep[u].del : m[1] \notin rep[u].ins
      BY Zenon DEF RepInv
    <3> QED BY <1>1, <3>1, <3>2, <3>3, Zenon
  <2> QED BY <2>1, <2>2, Zenon
<1>10. ASSUME NEW u \in Replaces, NEW w \in Replaces, u # w PROVE rep'[u].ins \cap rep'[w].ins = {}
  BY <1>2, <1>7, <1>10, Zenon DEF RepInv
<1>11. ASSUME NEW u \in Replaces PROVE rep'[u].at # "inserted" => rep'[u].ins = {}
  BY <1>2, <1>7, Zenon DEF RepInv
<1>12. member' \subseteq Rows
  BY <1>1, <1>4, Zenon DEF RepInv
<1> QED BY <1>7, <1>8, <1>9, <1>10, <1>11, <1>12, Zenon DEF RepInv

\* Single changes wait for those who hold the group.
LEMMA AttachStep ==
    ASSUME MemberConstants, RepInv, NEW g \in Groups, Ug!AttachUserToGroupByName(g) \/ Ug!DetachUserFromGroup(g)
    PROVE  RepInv'
<1>1. UNCHANGED rep
  BY Zenon DEF Ug!AttachUserToGroupByName, Ug!DetachUserFromGroup
<1>2. CASE Ug!DetachUserFromGroup(g)
  <2>1. member' \subseteq member
    BY <1>2, Zenon DEF Ug!DetachUserFromGroup
  <2> QED BY <1>1, <2>1, Zenon DEF RepInv, Ug!OneRowPerGroup
<1>3. CASE Ug!AttachUserToGroupByName(g)
  <2>1. PICK x \in Rows : x = <<g, "attach">>
    BY Zenon DEF Rows
  <2>2. x[1] = g
    BY <2>1
  <2>3. member' = member \cup {x} /\ g \notin Ug!HeldGroups(Nobody) /\ \A m \in member : m[1] # g
    BY <1>3, <2>1, Zenon DEF Ug!AttachUserToGroupByName
  <2>4. \A u \in Replaces : g \notin rep[u].ins
    BY <2>3, HeldInserted, Zenon DEF MemberConstants
  <2>5. Ug!OneRowPerGroup'
    BY <2>2, <2>3, Zenon DEF RepInv, Ug!OneRowPerGroup
  <2> QED BY <1>1, <2>2, <2>3, <2>4, <2>5, Zenon DEF RepInv
<1> QED BY <1>2, <1>3, Zenon

LEMMA AccountsNext ==
    ASSUME AccountConstants, SeedInv, [Ug!Next]_(Ug!vars)
    PROVE  SeedInv'
<1>1. CASE UNCHANGED <<users, admin, lock, seed>>
  BY <1>1, Zenon DEF SeedInv
<1>2. CASE \E p \in Seeds : Ug!BeginSeed(p) \/ Ug!FindUser(p) \/ Ug!EndSeed(p) \/ Ug!RestartSeed(p)
  BY <1>2, BeginSeedStep, FindUserStep, EndSeedStep, RestartSeedStep, Zenon
<1>3. CASE \E e \in Emails : Ug!CreateUser(e)
  BY <1>3, CreateUserStep, Zenon
<1> QED BY <1>1, <1>2, <1>3, Zenon DEF Ug!Next, Ug!vars, Ug!BeginReplace, Ug!DeleteRows, Ug!InsertRows,
   Ug!CommitReplace, Ug!RollbackReplace,
           Ug!AttachUserToGroupByName, Ug!DetachUserFromGroup

LEMMA MembersNext ==
    ASSUME MemberConstants, RepInv, [Ug!Next]_(Ug!vars)
    PROVE  RepInv'
<1>1. CASE UNCHANGED <<member, rep>>
  BY <1>1, Zenon DEF RepInv, Ug!OneRowPerGroup
<1>2. CASE \E t \in Replaces : \/ Ug!BeginReplace(t) \/ Ug!DeleteRows(t) \/ Ug!InsertRows(t)
                               \/ Ug!CommitReplace(t) \/ Ug!RollbackReplace(t)
  BY <1>2, BeginReplaceStep, InsertRowsStep, CommitReplaceStep, RollbackReplaceStep, Zenon
<1>3. CASE \E g \in Groups : Ug!AttachUserToGroupByName(g) \/ Ug!DetachUserFromGroup(g)
  BY <1>3, AttachStep, Zenon
<1> QED BY <1>1, <1>2, <1>3, Zenon DEF Ug!Next, Ug!vars, Ug!BeginSeed, Ug!FindUser, Ug!EndSeed,
   Ug!RestartSeed, Ug!CreateUser

\* However many servers start together, stop and start again, they seed one
\* administrator at most, and whoever was told that it is there finds it
\* (CreateInitialAdmin and its lock on the table).
THEOREM SeedsAgree == ASSUME AccountConstants PROVE Ug!Spec => [](Ug!OneSeededAccount /\ Ug!SeedAnswersAreTrue)
<1>1. SeedInv => Ug!OneSeededAccount /\ Ug!SeedAnswersAreTrue
  BY Zenon DEF SeedInv, FoundOK, Ug!OneSeededAccount, Ug!SeedAnswersAreTrue, AccountConstants
<1>2. Ug!Init => SeedInv
  BY SeedInit, Zenon
<1>3. SeedInv /\ [Ug!Next]_(Ug!vars) => SeedInv'
  BY AccountsNext, Zenon
<1> QED BY <1>1, <1>2, <1>3, PTL DEF Ug!Spec

\* No account that exists is changed: the seed neither promotes one nor takes
\* it over.
THEOREM AccountsAreKept == ASSUME AccountConstants PROVE Ug!Spec => Ug!SeedKeepsAccounts
<1>1. SeedInv /\ [Ug!Next]_(Ug!vars)
        => [\A e \in Emails : users[e] # "none" => users'[e] = users[e] /\ (e \in admin' <=> e \in admin)]_(Ug!vars)
  <2> SUFFICES ASSUME SeedInv, [Ug!Next]_(Ug!vars), NEW e \in Emails, users[e] # "none"
               PROVE  users'[e] = users[e] /\ (e \in admin' <=> e \in admin)
    BY Zenon
  <2>1. CASE UNCHANGED <<users, admin>>
    BY <2>1, Zenon
  <2>2. ASSUME NEW f \in Emails, Ug!CreateUser(f) PROVE users'[e] = users[e] /\ (e \in admin' <=> e \in admin)
    BY <2>2, Zenon DEF Ug!CreateUser, SeedInv
  <2>3. ASSUME NEW p \in Seeds, Ug!EndSeed(p) PROVE UNCHANGED <<users, admin>>
    BY <2>3, Zenon DEF Ug!EndSeed, Ug!Seed, SeedInv, FoundOK
  <2> QED BY <2>1, <2>2, <2>3, Zenon DEF Ug!Next, Ug!vars, Ug!BeginSeed, Ug!FindUser, Ug!RestartSeed,
     Ug!BeginReplace, Ug!DeleteRows,
             Ug!InsertRows, Ug!CommitReplace, Ug!RollbackReplace, Ug!AttachUserToGroupByName, Ug!DetachUserFromGroup
<1>2. Ug!Init => SeedInv
  BY SeedInit, Zenon
<1>3. SeedInv /\ [Ug!Next]_(Ug!vars) => SeedInv'
  BY AccountsNext, Zenon
<1> QED BY <1>1, <1>2, <1>3, PTL DEF Ug!Spec, Ug!SeedKeepsAccounts

\* A user is a member of a group once, whatever replacements, attachments and
\* removals overlap (ReplaceUserGroups, AttachUserToGroupByName).
THEOREM MembershipsAreUnique == ASSUME MemberConstants PROVE Ug!Spec => []Ug!OneRowPerGroup
<1>1. RepInv => Ug!OneRowPerGroup
  BY Zenon DEF RepInv
<1>2. Ug!Init => RepInv
  BY RepInit, Zenon
<1>3. RepInv /\ [Ug!Next]_(Ug!vars) => RepInv'
  BY MembersNext, Zenon
<1> QED BY <1>1, <1>2, <1>3, PTL DEF Ug!Spec
===============================================================================
