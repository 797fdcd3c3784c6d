----------------------------- MODULE AuditOutbox -----------------------------
(***************************************************************************)
(* The durable audit outbox: internal/store/audit_outbox.go and its        *)
(* dispatcher, internal/audit/outbox_dispatcher.go, of which every server  *)
(* process runs one.                                                       *)
(*                                                                         *)
(* Time is relative: next_attempt_at, lease_until and the deadline of a    *)
(* delivery are what remains until then, and Tick lets a unit pass.  The   *)
(* order of next_attempt_at, which decides the next claim, is the order of *)
(* queue.  A claim token is new for each claim and a dispatcher has one    *)
(* claim at a time, so the dispatcher stands for its token.  The clocks of *)
(* the processes agree.                                                    *)
(***************************************************************************)
EXTENDS Naturals, FiniteSets, Sequences

CONSTANTS Events, Dispatchers, Nobody, NoEvent,
          Lease, SinkTimeout, MaxBackoff, MaxTries,
          SinkIsPunctual,  \* the sink returns when its context is done
          MayCrash, StoreMayFail

VARIABLES row,      \* audit_outbox
          queue,    \* the undelivered events in the order of next_attempt_at
          disp,     \* the dispatchers
          accepted  \* events the sink has taken

ovars == <<row, queue, disp, accepted>>

Absent == [state |-> "absent", next |-> 0, holder |-> Nobody, lease |-> 0, tries |-> 0]
Idle == [at |-> "idle", event |-> NoEvent, lease |-> 0, deadline |-> 0, inTime |-> FALSE]

OutboxInit ==
    /\ row = [e \in Events |-> Absent] /\ queue = <<>>
    /\ disp = [d \in Dispatchers |-> Idle] /\ accepted = {}

Step(d, from, new) == disp[d].at = from /\ disp' = [disp EXCEPT ![d] = new]

\* e is due in n: it comes after what is due no later.
Place(e, n) ==
    LET others == SelectSeq(queue, LAMBDA f : f # e) IN
    SelectSeq(others, LAMBDA f : row[f].next <= n) \o <<e>> \o SelectSeq(others, LAMBDA f : row[f].next > n)

insertAuditOutboxEvent(e) ==
    /\ row[e].state = "absent"
    /\ row' = [row EXCEPT ![e].state = "pending"] /\ queue' = Place(e, 0)

\* Variant: no upper bound.
auditOutboxBackoff_free(tries) == 2 ^ (tries - 1)

\* One second, doubled for every attempt, up to the maximum.
auditOutboxBackoff(tries) == IF 2 ^ (tries - 1) < MaxBackoff THEN 2 ^ (tries - 1) ELSE MaxBackoff

---------------------------------------------------------------------------
(* dispatchOnce *)

\* Variant: a claim is never given up.
Claimable_held(e) == row[e].state = "pending" /\ row[e].next = 0 /\ row[e].holder = Nobody

Claimable(e) ==
    /\ row[e].state = "pending" /\ row[e].next = 0
    /\ row[e].holder = Nobody \/ row[e].lease = 0

\* Of what can be claimed it comes first.
NextDue(e) ==
    /\ Claimable(e)
    /\ \E i \in DOMAIN queue : queue[i] = e /\ \A j \in 1..(i - 1) : ~ Claimable(queue[j])

ClaimAuditOutboxEvent(d) == \E e \in Events :
    /\ disp[d].at = "idle" /\ NextDue(e)
    /\ row' = [row EXCEPT ![e].holder = d, ![e].lease = Lease,
                          ![e].tries = IF @ = MaxTries THEN @ ELSE @ + 1]
    /\ disp' = [disp EXCEPT ![d] = [Idle EXCEPT !.at = "claimed", !.event = e, !.lease = Lease]]
    /\ UNCHANGED <<queue, accepted>>

\* Variant: any live lease is enough.
EnoughLease_live(d) == disp[d].lease > 0

\* The lease outlasts the sink.
EnoughLease(d) == disp[d].lease > SinkTimeout

StartDelivery(d) ==
    LET q == disp[d] IN
    /\ Step(d, "claimed",
            IF EnoughLease(d) THEN [q EXCEPT !.at = "sink", !.deadline = SinkTimeout]
            ELSE IF q.lease = 0 THEN Idle ELSE [q EXCEPT !.at = "reschedule", !.inTime = TRUE])
    /\ UNCHANGED <<row, queue, accepted>>

\* The sink takes the event.
SinkAccepts(d) ==
    LET q == disp[d] IN
    /\ Step(d, "sink", [q EXCEPT !.at = "ack", !.inTime = q.lease > 0])
    /\ accepted' = accepted \cup {q.event}
    /\ UNCHANGED <<row, queue>>

\* Variant: an error of the sink is not looked at.
SinkFails_ignored(d) ==
    LET q == disp[d] IN
    /\ Step(d, "sink", [q EXCEPT !.at = "ack", !.inTime = q.lease > 0])
    /\ accepted' \in {accepted, accepted \cup {q.event}}
    /\ UNCHANGED <<row, queue>>

\* It fails, or its answer is lost.
SinkFails(d) ==
    LET q == disp[d] IN
    /\ Step(d, "sink", [q EXCEPT !.at = "reschedule", !.inTime = q.lease > 0])
    /\ accepted' \in {accepted, accepted \cup {q.event}}
    /\ UNCHANGED <<row, queue>>

\* The WHERE of both completions: the row still has this claim, and the lease
\* had not passed when the attempt was over.
Owns(d) == LET e == disp[d].event IN row[e].holder = d /\ disp[d].inTime /\ row[e].state = "pending"

MarkAuditOutboxEventDelivered(d) ==
    LET e == disp[d].event IN
    /\ Step(d, "ack", Idle)
    /\ IF Owns(d)
       THEN /\ row' = [row EXCEPT ![e].state = "delivered", ![e].holder = Nobody, ![e].lease = 0]
            /\ queue' = SelectSeq(queue, LAMBDA f : f # e)
       ELSE UNCHANGED <<row, queue>>
    /\ UNCHANGED accepted

RescheduleAuditOutboxEvent(d) ==
    LET e == disp[d].event n == auditOutboxBackoff(row[e].tries) IN
    /\ Step(d, "reschedule", Idle)
    /\ IF Owns(d)
       THEN /\ row' = [row EXCEPT ![e].next = n, ![e].holder = Nobody, ![e].lease = 0]
            /\ queue' = Place(e, n)
       ELSE UNCHANGED <<row, queue>>
    /\ UNCHANGED accepted

\* The statement fails; the claim stays until its lease is over.
StoreFails(d) ==
    /\ StoreMayFail /\ disp[d].at \in {"ack", "reschedule"}
    /\ disp' = [disp EXCEPT ![d] = Idle]
    /\ UNCHANGED <<row, queue, accepted>>

Crash(d) ==
    /\ MayCrash /\ disp[d].at # "idle"
    /\ disp' = [disp EXCEPT ![d] = Idle]
    /\ UNCHANGED <<row, queue, accepted>>

Less(n) == IF n = 0 THEN 0 ELSE n - 1

Tick ==
    /\ SinkIsPunctual => \A d \in Dispatchers : disp[d].at = "sink" => disp[d].deadline > 0
    /\ row' = [e \in Events |-> [row[e] EXCEPT !.next = Less(@), !.lease = Less(@)]]
    /\ disp' = [d \in Dispatchers |-> [disp[d] EXCEPT !.lease = Less(@), !.deadline = Less(@)]]
    /\ UNCHANGED <<queue, accepted>>

Dispatch(d) == \/ ClaimAuditOutboxEvent(d) \/ StartDelivery(d) \/ SinkAccepts(d) \/ SinkFails(d)
               \/ MarkAuditOutboxEventDelivered(d) \/ RescheduleAuditOutboxEvent(d)
               \/ StoreFails(d) \/ Crash(d)

OutboxNext == Tick \/ \E d \in Dispatchers : Dispatch(d)

---------------------------------------------------------------------------

OutboxTypeOK ==
    /\ row \in [Events -> [state : {"absent", "pending", "delivered"}, next : 0..MaxBackoff,
                           holder : Dispatchers \cup {Nobody}, lease : 0..Lease, tries : 0..MaxTries]]
    /\ disp \in [Dispatchers -> [at : {"idle", "claimed", "sink", "ack", "reschedule"},
                                 event : Events \cup {NoEvent}, lease : 0..Lease,
                                 deadline : 0..SinkTimeout, inTime : BOOLEAN]]
    /\ accepted \subseteq Events
    /\ {queue[i] : i \in DOMAIN queue} = {e \in Events : row[e].state = "pending"}

\* At least once: an event is delivered only after the sink has taken it,
\* through crashes, lost answers and late completions.
DeliveredWasAccepted == \A e \in Events : row[e].state = "delivered" => e \in accepted

\* "leases the next due event to one delivery attempt": while the sink returns
\* in time no event is in the sink twice at once, nor after it was delivered.
OneAttemptAtATime ==
    SinkIsPunctual =>
        \A d \in Dispatchers : disp[d].at = "sink" =>
            /\ row[disp[d].event].state = "pending" /\ row[disp[d].event].holder = d
            /\ \A c \in Dispatchers \ {d} : disp[c].at = "sink" => disp[c].event # disp[d].event

\* Every event of the outbox is delivered in the end: no failing event holds up
\* the others, and no abandoned claim keeps an event.
AllDelivered == \A e \in Events : []<>(row[e].state # "pending")

\* Every process keeps polling and time passes; a delivery is not for ever late,
\* the sink not for ever down.
Fairness ==
    /\ WF_ovars(Tick)
    /\ \A d \in Dispatchers :
          /\ WF_ovars(ClaimAuditOutboxEvent(d)) /\ WF_ovars(StartDelivery(d))
          /\ SF_ovars(StartDelivery(d) /\ EnoughLease(d))
          /\ WF_ovars(SinkAccepts(d) \/ SinkFails(d))
          /\ WF_ovars(RescheduleAuditOutboxEvent(d)) /\ WF_ovars(MarkAuditOutboxEventDelivered(d))
          /\ \A e \in Events : SF_ovars(SinkAccepts(d) /\ disp[d].event = e)
          /\ \A e \in Events : SF_ovars(MarkAuditOutboxEventDelivered(d) /\ disp[d].event = e /\ Owns(d))
=============================================================================
