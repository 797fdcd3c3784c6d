----------------------------- MODULE TokenAudit -----------------------------
(***************************************************************************)
(* Creating and revoking OpAMP tokens with their audit events:             *)
(* internal/api/opamp_tokens.go over internal/store/opamp_tokens.go.       *)
(* A mutation and its event are one transaction, whose commit may fail     *)
(* with the outcome unknown; operators then try again.  The event of a     *)
(* request has an id of its own, here the request.                         *)
(***************************************************************************)
EXTENDS AuditOutbox

CONSTANTS Tokens, CreateRequests, RevokeRequests, NoToken

VARIABLES token,   \* opamp_tokens: "absent", "active", "revoked"
          about,   \* the token of each event
          tx,      \* the transactions of the requests
          answer   \* what the API answered: "none", "ok", "unknown", "failed"

vars == <<row, queue, disp, accepted, token, about, tx, answer>>

Init ==
    /\ OutboxInit /\ token = [t \in Tokens |-> "absent"] /\ about = [e \in Events |-> NoToken]
    /\ tx = [e \in Events |-> "new"] /\ answer = [e \in Events |-> "none"]

\* Tokens that another transaction holds FOR UPDATE.
Locked(t) == \E e \in Events : tx[e] = "open" /\ about[e] = t

CreateOpAMPToken(e, t) ==
    /\ e \in CreateRequests /\ tx[e] = "new" /\ token[t] = "absent" /\ ~ Locked(t)
    /\ tx' = [tx EXCEPT ![e] = "open"] /\ about' = [about EXCEPT ![e] = t]
    /\ UNCHANGED <<row, queue, disp, accepted, token, answer>>

\* Variant: a token that is revoked already is revoked again.
RevokeNeeded_always(t) == TRUE

RevokeNeeded(t) == token[t] = "active"

\* SELECT ... FOR UPDATE; a token that is revoked already is answered at once.
RevokeOpAMPToken(e, t) ==
    /\ e \in RevokeRequests /\ tx[e] = "new" /\ token[t] # "absent" /\ ~ Locked(t)
    /\ about' = [about EXCEPT ![e] = t]
    /\ IF RevokeNeeded(t)
       THEN tx' = [tx EXCEPT ![e] = "open"] /\ UNCHANGED answer
       ELSE tx' = [tx EXCEPT ![e] = "over"] /\ answer' = [answer EXCEPT ![e] = "ok"]
    /\ UNCHANGED <<row, queue, disp, accepted, token>>

\* The token row and the event row appear together.
Commit(e) ==
    LET t == about[e] IN
    /\ insertAuditOutboxEvent(e)
    /\ token' = [token EXCEPT ![t] = IF e \in CreateRequests THEN "active" ELSE "revoked"]

\* Variant: a failed commit is answered as a success.
CommitOutcome_hopeful(e) ==
    \/ Commit(e) /\ answer' = [answer EXCEPT ![e] = "ok"]
    \/ answer' = [answer EXCEPT ![e] = "ok"] /\ UNCHANGED <<row, queue, token>>

\* The commit succeeds, or fails with or without having taken effect.
CommitOutcome(e) ==
    \/ Commit(e) /\ answer' \in {[answer EXCEPT ![e] = a] : a \in {"ok", "unknown"}}
    \/ answer' = [answer EXCEPT ![e] = "unknown"] /\ UNCHANGED <<row, queue, token>>

EndTransaction(e) ==
    /\ tx[e] = "open" /\ tx' = [tx EXCEPT ![e] = "over"]
    /\ CommitOutcome(e)
    /\ UNCHANGED <<disp, accepted, about>>

\* A statement before the commit fails, or the server stops.
RollbackTransaction(e) ==
    /\ tx[e] = "open" /\ tx' = [tx EXCEPT ![e] = "over"]
    /\ answer' = [answer EXCEPT ![e] = "failed"]
    /\ UNCHANGED <<row, queue, disp, accepted, token, about>>

Next ==
    \/ OutboxNext /\ UNCHANGED <<token, about, tx, answer>>
    \/ \E e \in Events : \/ EndTransaction(e) \/ RollbackTransaction(e)
                         \/ \E t \in Tokens : CreateOpAMPToken(e, t) \/ RevokeOpAMPToken(e, t)

Spec == Init /\ [][Next]_vars

FairSpec == Spec /\ Fairness
---------------------------------------------------------------------------

TypeOK ==
    /\ OutboxTypeOK /\ token \in [Tokens -> {"absent", "active", "revoked"}]
    /\ about \in [Events -> Tokens \cup {NoToken}] /\ tx \in [Events -> {"new", "open", "over"}]
    /\ answer \in [Events -> {"none", "ok", "unknown", "failed"}]

Recorded(t, kind) == {e \in kind : about[e] = t /\ row[e].state # "absent"}

\* The audit trail is exact: a token exists with one creation event and is
\* revoked with one revocation event, although requests race, are tried again
\* and do not always learn their outcome.
TrailIsExact ==
    \A t \in Tokens :
        /\ Cardinality(Recorded(t, CreateRequests)) = IF token[t] = "absent" THEN 0 ELSE 1
        /\ Cardinality(Recorded(t, RevokeRequests)) = IF token[t] = "revoked" THEN 1 ELSE 0

\* A positive answer is durable: what an operator was told has happened.
AnswersAreTrue ==
    \A e \in Events : answer[e] = "ok" => token[about[e]] = "revoked" \/ (e \in CreateRequests /\ token[about[e]] = "active")

\* The audit of tokens is exact: the trail, the answers of the endpoints, and the
\* delivery of the events by the dispatchers.
AuditIsExact == TrailIsExact /\ AnswersAreTrue /\ OneAttemptAtATime /\ DeliveredWasAccepted
=============================================================================
