--------------------------- MODULE ConfigApprovals ---------------------------
(***************************************************************************)
(* The request, approval and push of a config draft for one workload and   *)
(* one target group: internal/api/config_approvals.go over                 *)
(* internal/store/config_approvals.go.                                     *)
(*                                                                         *)
(* The requests of operators run side by side; each SQL statement is one   *)
(* action, and so is PushConfig (module ConfigPush has its steps).  A      *)
(* draft is valid or not for the workload as it is now: what an instance   *)
(* reports changes its components and its version.  Comments,              *)
(* confirmations and the environment of a request are checked when it      *)
(* arrives and decide nothing later; they are left out.                    *)
(***************************************************************************)
EXTENDS Naturals, FiniteSets

CONSTANTS Drafts, NoDraft, Ids, NoId, Requests,
          WorkloadChanges,  \* drafts may stop being valid
          MayStop           \* a request may be cut off at any point

VARIABLES rows,   \* workload_config_approvals
          valid,  \* the drafts that validate against the workload
          req,    \* the requests
          sent,   \* pushes that reached OpAMP: [id, draft, glass]
          pushes, \* their number per row, counted up to two
          looked  \* per row, the draft its approver validated

vars == <<rows, valid, req, sent, pushes, looked>>

Idle == [at |-> "idle", id |-> NoId, draft |-> NoDraft, glass |-> FALSE]
Absent == [status |-> "absent", draft |-> NoDraft, hash |-> NoDraft]

Init ==
    /\ rows = [i \in Ids |-> Absent] /\ valid = Drafts
    /\ req = [r \in Requests |-> Idle] /\ sent = {}
    /\ pushes = [i \in Ids |-> 0] /\ looked = [i \in Ids |-> NoDraft]

Step(r, from, new) == req[r].at = from /\ req' = [req EXCEPT ![r] = new]

Pending == {i \in Ids : rows[i].status = "pending"}

---------------------------------------------------------------------------
(* Creating or updating the pending request. *)

handleCreateOrUpdateConfigApproval(r, d) ==
    /\ d \in valid
    /\ Step(r, "idle", [Idle EXCEPT !.at = "find", !.draft = d])
    /\ UNCHANGED <<rows, valid, sent, pushes, looked>>

\* The id of the pending row, or a new one.
getPendingConfigApprovalRequest(r) ==
    \E i \in Ids :
        /\ IF Pending # {} THEN i \in Pending
           ELSE rows[i].status = "absent" /\ \A q \in Requests : req[q].id # i
        /\ Step(r, "find", [req[r] EXCEPT !.at = "upsert", !.id = i])
        /\ UNCHANGED <<rows, valid, sent, pushes, looked>>

\* Variant: the update stores a status of its own.
Updated_draft(row, d) == [row EXCEPT !.draft = d, !.status = "draft"]

Updated(row, d) == [row EXCEPT !.draft = d]

\* Variant: no unique index on the pending rows.
UniquePending_none(i) == TRUE

\* idx_workload_config_approvals_one_pending_target: a second pending row is refused.
UniquePending(i) == Pending \subseteq {i}

CreateOrUpdateConfigApprovalRequest(r) ==
    LET i == req[r].id IN
    /\ Step(r, "upsert", Idle)
    /\ rows' = CASE rows[i].status # "absent" -> [rows EXCEPT ![i] = Updated(@, req[r].draft)]
                 [] rows[i].status = "absent" /\ UniquePending(i) ->
                      [rows EXCEPT ![i] = [status |-> "pending", draft |-> req[r].draft, hash |-> NoDraft]]
                 [] OTHER -> rows
    /\ UNCHANGED <<valid, sent, pushes, looked>>

---------------------------------------------------------------------------
(* Approving. *)

handleApproveConfigApproval(r, i) ==
    /\ rows[i].status # "absent" /\ rows[i].draft \in valid
    /\ Step(r, "idle", [Idle EXCEPT !.at = "approve", !.id = i, !.draft = rows[i].draft])
    /\ UNCHANGED <<rows, valid, sent, pushes, looked>>

\* Variant: the update has no condition on the status.
ApproveConfigApprovalRequest_any(r) ==
    LET i == req[r].id IN
    /\ Step(r, "approve", Idle)
    /\ rows' = [rows EXCEPT ![i].status = "approved"] /\ looked' = [looked EXCEPT ![i] = req[r].draft]
    /\ UNCHANGED <<valid, sent, pushes>>

ApproveConfigApprovalRequest(r) ==
    LET i == req[r].id IN
    /\ Step(r, "approve", Idle)
    /\ IF rows[i].status = "pending"
       THEN /\ rows' = [rows EXCEPT ![i].status = "approved"]
            /\ looked' = [looked EXCEPT ![i] = req[r].draft]
       ELSE UNCHANGED <<rows, looked>>
    /\ UNCHANGED <<valid, sent, pushes>>

---------------------------------------------------------------------------
(* Pushing. *)

\* Variant: a pending request needs no break-glass.
MayPush_pending(i, glass) == rows[i].status \in {"approved", "pending"}

\* An approved request, or with break-glass one that is still pending.
MayPush(i, glass) == rows[i].status = "approved" \/ (glass /\ rows[i].status = "pending")

handlePushConfigApproval(r, i, glass) ==
    /\ MayPush(i, glass) /\ rows[i].draft \in valid
    /\ Step(r, "idle", [at |-> "push", id |-> i, draft |-> rows[i].draft, glass |-> glass])
    /\ UNCHANGED <<rows, valid, sent, pushes, looked>>

\* The push may fail; the request then leaves the row as it is.
persistAndPushApprovalConfig(r) ==
    \/ /\ Step(r, "push", [req[r] EXCEPT !.at = "mark"])
       /\ sent' = sent \cup {[id |-> req[r].id, draft |-> req[r].draft, glass |-> req[r].glass]}
       /\ pushes' = [pushes EXCEPT ![req[r].id] = IF @ = 2 THEN 2 ELSE @ + 1]
       /\ UNCHANGED <<rows, valid, looked>>
    \/ Step(r, "push", Idle) /\ UNCHANGED <<rows, valid, sent, pushes, looked>>

\* Variant: the hash is that of the draft now in the row.
MarkConfigApprovalRequestPushed_current(r) ==
    LET i == req[r].id IN
    /\ Step(r, "mark", Idle)
    /\ rows' = [rows EXCEPT ![i] = [@ EXCEPT !.status = "pushed", !.hash = rows[i].draft]]
    /\ UNCHANGED <<valid, sent, pushes, looked>>

MarkConfigApprovalRequestPushed(r) ==
    LET i == req[r].id IN
    /\ Step(r, "mark", Idle)
    /\ rows' = IF rows[i].status \in {"approved", "pending"}
               THEN [rows EXCEPT ![i] = [@ EXCEPT !.status = "pushed", !.hash = req[r].draft]]
               ELSE rows
    /\ UNCHANGED <<valid, sent, pushes, looked>>

---------------------------------------------------------------------------

\* An instance reports other components or another version.
ComponentsChange ==
    /\ WorkloadChanges
    /\ valid' \in (SUBSET Drafts) \ {valid}
    /\ UNCHANGED <<rows, req, sent, pushes, looked>>

Stop(r) ==
    /\ MayStop /\ req[r] # Idle
    /\ req' = [req EXCEPT ![r] = Idle]
    /\ UNCHANGED <<rows, valid, sent, pushes, looked>>

Next ==
    \/ ComponentsChange
    \/ \E r \in Requests :
          \/ getPendingConfigApprovalRequest(r) \/ CreateOrUpdateConfigApprovalRequest(r)
          \/ ApproveConfigApprovalRequest(r) \/ persistAndPushApprovalConfig(r)
          \/ MarkConfigApprovalRequestPushed(r) \/ Stop(r)
          \/ \E d \in Drafts : handleCreateOrUpdateConfigApproval(r, d)
          \/ \E i \in Ids : \/ handleApproveConfigApproval(r, i)
                            \/ \E g \in BOOLEAN : handlePushConfigApproval(r, i, g)

Spec == Init /\ [][Next]_vars
---------------------------------------------------------------------------

TypeOK ==
    /\ rows \in [Ids -> [status : {"absent", "pending", "approved", "pushed"},
                         draft : Drafts \cup {NoDraft}, hash : Drafts \cup {NoDraft}]]
    /\ valid \subseteq Drafts
    /\ req \in [Requests -> [at : {"idle", "find", "upsert", "approve", "push", "mark"}, id : Ids \cup {NoId},
                             draft : Drafts \cup {NoDraft}, glass : BOOLEAN]]
    /\ sent \subseteq [id : Ids, draft : Drafts, glass : BOOLEAN] /\ pushes \in [Ids -> 0..2]
    /\ looked \in [Ids -> Drafts \cup {NoDraft}]

\* "keeps one pending draft per workload and target": however many operators
\* create, update and approve at once (CreateOrUpdateConfigApprovalRequest and
\* its unique index).
OnePending == Cardinality(Pending) <= 1

\* A push without break-glass follows an approval of its row, whatever happened
\* to the row in between.
PushNeedsApproval == \A p \in sent : ~ p.glass => looked[p.id] # NoDraft

\* A decision is never taken back: an approved row is not pending again and a
\* pushed one stays pushed, although late updates and late approvals still
\* write to them.
DecisionSticks ==
    [][\A i \in DOMAIN rows : /\ rows[i].status = "approved" => rows'[i].status \in {"approved", "pushed"}
                      /\ rows[i].status = "pushed" => rows'[i].status = "pushed"]_vars

\* The config hash of a pushed row is that of a draft that was sent for it,
\* also when the draft of the row has changed since.
MarkedHashWasSent ==
    \A i \in Ids : rows[i].status = "pushed" => \E p \in sent : p.id = i /\ p.draft = rows[i].hash

\* "Pushes an approved draft, or audited break-glass draft": what is sent without
\* break-glass is the draft that was approved.
PushedWasApproved == \A p \in sent : ~ p.glass => p.draft = looked[p.id]

\* "a stale or invalid stored draft cannot be approved": the draft that becomes
\* approved is the one that was validated for it.
ApprovedWasValidated ==
    [][\A i \in Ids : rows[i].status = "pending" /\ rows'[i].status = "approved" =>
          rows[i].draft = looked'[i]]_vars

\* "approval request has already been pushed": a row is sent once.
SentOnce == \A i \in Ids : pushes[i] <= 1
=============================================================================
