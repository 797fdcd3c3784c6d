----------------------------- MODULE PushStatus -----------------------------
(***************************************************************************)
(* What a stored push looks like to whoever reads it:                      *)
(* pkg/models/push_status.go.  A push lists the instances it was sent to;  *)
(* HydratePushStatus recomputes its status, the instances that stayed      *)
(* silent for 30 seconds and the groups of errors from that list.          *)
(*                                                                         *)
(* An instance is [status, cause, msg, timedOut].  An error message is ""  *)
(* where there is none; the text of an agent or of a failed send stands    *)
(* for itself by the cause that normalizeRemoteConfigErrorCause finds in   *)
(* it, and what is stored in its place is one of the server's own texts.   *)
(* due says that the status timeout of the push has passed.  Both places   *)
(* that build a list mark every instance Required.                         *)
(***************************************************************************)
EXTENDS Naturals, FiniteSets

Causes == {"collector_validation", "opamp_send_failed", "apply_timeout", "capability_mismatch",
           "permission_or_policy", "rollback_unavailable", "unknown"}
Reported == {"applying", "applied", "failed"}
Terminal == {"applied", "failed", "rollback_applied", "rollback_failed"}

canonicalPushStatus(s) == IF s \in {"", "pending"} THEN "submitted" ELSE s

canonicalInstanceStatus(s) ==
    CASE canonicalPushStatus(s) \in {"submitted", "sent"} -> "sent"
      [] s \in Reported -> s
      [] OTHER -> "no_status"

isTerminalPushStatus(s) == s \in Terminal

\* The instances of a new push.
initialPushInstanceStatuses(us) ==
    [u \in us |-> [status |-> "sent", cause |-> "", msg |-> "", timedOut |-> FALSE]]

remoteConfigErrorTitle ==
    [collector_validation |-> "Collector rejected the config", opamp_send_failed |-> "OpAMP send failed",
     apply_timeout |-> "Config apply timed out", capability_mismatch |-> "Remote config capability mismatch",
     permission_or_policy |-> "Agent policy rejected the config", rollback_unavailable |-> "Rollback unavailable",
     unknown |-> "Remote config error"]

OpAMPStatusTimeoutMessage == "No OpAMP status after 30s"
Redacted == "Remote config error details redacted"

\* The texts the server writes itself.
OwnTexts == {Redacted, OpAMPStatusTimeoutMessage} \cup {remoteConfigErrorTitle[c] : c \in Causes}

\* The causes whose title has one of the words the switch looks for.
Worded == {"opamp_send_failed", "apply_timeout", "capability_mismatch", "permission_or_policy", "rollback_unavailable"}

normalizeRemoteConfigErrorCause(cause, msg) ==
    CASE cause # "" -> cause
      [] cause = "" /\ msg \in Causes -> msg
      [] cause = "" /\ msg \notin Causes /\ \E c \in Worded : msg = remoteConfigErrorTitle[c] ->
            CHOOSE c \in Worded : msg = remoteConfigErrorTitle[c]
      [] OTHER -> "unknown"

SanitizeRemoteConfigErrorMessage(msg) ==
    IF msg = "" \/ msg \in OwnTexts THEN msg
    ELSE LET c == normalizeRemoteConfigErrorCause("", msg)
         IN IF c = "unknown" THEN Redacted ELSE remoteConfigErrorTitle[c]

\* What the two texts of an instance become.
ErrorOf(i) ==
    [cause |-> IF i.msg # "" THEN normalizeRemoteConfigErrorCause(i.cause, i.msg) ELSE i.cause,
     msg |-> SanitizeRemoteConfigErrorMessage(i.msg)]

TimedOut == [status |-> "no_status", cause |-> "apply_timeout", msg |-> OpAMPStatusTimeoutMessage, timedOut |-> TRUE]

\* Variant: only an instance that is still "sent" times out.
Overlay_sentOnly(i, due) ==
    LET s == canonicalInstanceStatus(i.status) IN
    IF due /\ s = "sent" THEN TimedOut
    ELSE [status |-> s, cause |-> ErrorOf(i).cause, msg |-> ErrorOf(i).msg, timedOut |-> FALSE]

\* One instance of the list, as HydratePushStatus leaves it.
Overlay(i, due) ==
    LET s == canonicalInstanceStatus(i.status) IN
    IF due /\ s \in {"sent", "no_status"} THEN TimedOut
    ELSE [status |-> s, cause |-> ErrorOf(i).cause, msg |-> ErrorOf(i).msg, timedOut |-> FALSE]

With(insts, S) == {u \in DOMAIN insts : insts[u].status \in S}

\* Variant: one applied instance is enough.
DerivedStatus_any(insts, sent, stored) ==
    IF DOMAIN insts = {} THEN canonicalPushStatus(stored)
    ELSE IF With(insts, {"failed"}) # {} THEN "failed"
    ELSE IF With(insts, {"applied"}) # {} THEN "applied"
    ELSE IF With(insts, {"applying"}) # {} THEN "applying"
    ELSE IF sent THEN "sent" ELSE canonicalPushStatus(stored)

\* The first case that fits, as in the switch.
DerivedStatus(insts, sent, stored) ==
    IF DOMAIN insts = {} THEN canonicalPushStatus(stored)
    ELSE IF With(insts, {"failed"}) # {} THEN "failed"
    ELSE IF With(insts, {"applied"}) = DOMAIN insts THEN "applied"
    ELSE IF With(insts, {"applying", "applied"}) # {} THEN "applying"
    ELSE IF sent THEN "sent" ELSE canonicalPushStatus(stored)

\* The causes of the error groups, each with the instances it affects.
InError(i) == i.status = "failed" \/ i.cause # "" \/ i.msg # ""

CauseOf(i) == normalizeRemoteConfigErrorCause(i.cause, i.msg)

buildErrorGroups(insts, msg) ==
    LET errs == {u \in DOMAIN insts : InError(insts[u])} IN
    IF errs = {} THEN [c \in IF msg = "" THEN {} ELSE {normalizeRemoteConfigErrorCause("", msg)} |-> {}]
    ELSE [c \in {CauseOf(insts[u]) : u \in errs} |-> {u \in errs : CauseOf(insts[u]) = c}]

HydratePushStatus(row, due) ==
    LET insts  == [u \in DOMAIN row.insts |-> Overlay(row.insts[u], due)]
        status == DerivedStatus(insts, row.sent, row.status)
        silent == With(insts, Reported) = {}
        late   == {u \in DOMAIN insts : insts[u].timedOut}
        msg    == SanitizeRemoteConfigErrorMessage(row.msg)
    IN [row |-> [row EXCEPT !.status = status, !.insts = insts, !.msg = msg],
        applied |-> Cardinality(With(insts, {"applied"})),
        failed |-> Cardinality(With(insts, {"failed"})),
        pending |-> Cardinality(DOMAIN insts \ With(insts, {"applied", "failed"})),
        timedOut |-> late # {} \/ (due /\ silent /\ ~ isTerminalPushStatus(status)),
        late |-> late,
        groups |-> buildErrorGroups(insts, msg)]
=============================================================================
