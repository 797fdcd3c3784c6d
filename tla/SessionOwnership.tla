-------------------------- MODULE SessionOwnership --------------------------
(***************************************************************************)
(* Who owns an instance UID: the map Server.conns and the sessions of      *)
(* internal/opamp/server.go, from the handshake to releaseSession, with    *)
(* pushes, the instance registry and the revocation of tokens.             *)
(*                                                                         *)
(* The session manager appears through its promise, TokenGate.  Every      *)
(* critical section of s.mu and every database transaction is one action.  *)
(***************************************************************************)
EXTENDS TokenGate

CONSTANTS UIDs,      \* instance UIDs of well-formed messages
          NoUID,     \* session.uid = ""; also a malformed message
          NoSession, \* no owner in conns
          Callers    \* revocation requests

ASSUME OwnershipAssumption ==
    /\ TokenOf \in [Sessions -> Tokens]
    /\ NoUID \notin UIDs /\ NoSession \notin Sessions

VARIABLES
    row,         \* per token, its database row: active, expired, revoked
    accepted,    \* sessions whose token authenticateRequest has validated
    conns,       \* s.conns
    uid,         \* session.uid
    admitted,    \* sessions with session.admitted
    terminal,    \* sessions with session.terminal
    messageGate, \* per session, the holder of session.messageGate
    bound,       \* UIDs in the registry
    pc, on, of,  \* per holder: where it is, in which session, for which UID
    call, tok    \* per revocation request: where it is, and its token

sessionVars == <<conns, uid, admitted, terminal, messageGate>>
procVars == <<pc, on, of>>
callVars == <<call, tok>>
vars == <<gateVars, row, accepted, sessionVars, bound, procVars, callVars>>

Init ==
    /\ GateInit
    /\ row = [t \in Tokens |-> "active"]
    /\ accepted = {}
    /\ conns = [u \in UIDs |-> NoSession]
    /\ uid = [s \in Sessions |-> NoUID]
    /\ admitted = {} /\ terminal = {} /\ bound = {}
    /\ messageGate = [s \in Sessions |-> {}]
    /\ pc = [h \in Holders |-> "idle"]
    /\ on = [h \in Holders |-> NoSession] /\ of = [h \in Holders |-> NoUID]
    /\ call = [c \in Callers |-> "idle"] /\ tok \in [Callers -> Tokens]

At(h, to, s, u) ==
    /\ pc' = [pc EXCEPT ![h] = to]
    /\ on' = [on EXCEPT ![h] = s] /\ of' = [of EXCEPT ![h] = u]

Goto(h, from, to) ==
    /\ pc[h] = from
    /\ IF to = "idle" THEN At(h, to, NoSession, NoUID) ELSE At(h, to, on[h], of[h])

\* ValidateOpAMPToken accepts only an active token.
authenticateRequest(s) ==
    /\ s \notin accepted /\ row[TokenOf[s]] = "active"
    /\ accepted' = accepted \cup {s}
    /\ UNCHANGED <<gateVars, row, sessionVars, bound, procVars, callVars>>

OnConnected(s) ==
    /\ s \in accepted
    /\ \/ Admit(s)
       \/ closed[TokenOf[s]] # "no" /\ Refuse(s)
       \/ Close({TokenOf[s]}, {s})
    /\ UNCHANGED <<row, accepted, sessionVars, bound, procVars, callVars>>

\* onSessionMessage takes its lease, for a message of UID u.
onSessionMessage(h, s, u) ==
    /\ pc[h] = "idle"
    /\ Lease(h, s)
    /\ At(h, "enter", s, u)
    /\ UNCHANGED <<row, accepted, sessionVars, bound, callVars>>

\* Variant: does not look at terminal.
EnterMessage_noTerminal(h) ==
    /\ Goto(h, "enter", "claim")
    /\ messageGate[on[h]] = {}
    /\ messageGate' = [messageGate EXCEPT ![on[h]] = {h}]
    /\ UNCHANGED <<gateVars, row, accepted, conns, uid, admitted, terminal, bound, callVars>>

\* messageGate serialises the messages of a session; a terminal one drops them.
EnterMessage(h) ==
    /\ pc[h] = "enter" /\ messageGate[on[h]] = {}
    /\ \/ /\ Goto(h, "enter", "drop")
          /\ on[h] \in terminal
          /\ UNCHANGED messageGate
       \/ /\ Goto(h, "enter", "claim")
          /\ on[h] \notin terminal
          /\ messageGate' = [messageGate EXCEPT ![on[h]] = {h}]
    /\ UNCHANGED <<gateVars, row, accepted, conns, uid, admitted, terminal, bound, callVars>>

\* Variant: take the UID over from another session.
Claimable_takeOver(s, u) == uid[s] = NoUID

Claimable(s, u) == uid[s] = NoUID /\ conns[u] \in {NoSession, s}

\* Variant: does not reject a malformed UID.
processSessionMessage_malformed(h) ==
    LET s == on[h]
        u == of[h]
    IN /\ pc[h] = "claim"
       /\ \/ /\ u \in UIDs => uid[s] = u /\ conns[u] = s
             /\ Goto(h, "claim", "handle")
             /\ UNCHANGED <<conns, uid>>
          \/ /\ u \in UIDs /\ s \notin admitted /\ Claimable(s, u)
             /\ Goto(h, "claim", "mark")
             /\ conns' = [conns EXCEPT ![u] = s]
             /\ uid' = [uid EXCEPT ![s] = u]
       /\ UNCHANGED <<gateVars, row, accepted, admitted, terminal, messageGate, bound, callVars>>

\* processSessionMessage up to the end of its first section of s.mu.
processSessionMessage(h) ==
    LET s == on[h]
        u == of[h]
    IN /\ pc[h] = "claim"
       /\ \/ /\ u \in UIDs /\ s \in admitted /\ uid[s] = u /\ conns[u] = s
             /\ Goto(h, "claim", "handle")
             /\ UNCHANGED <<conns, uid>>
          \/ /\ u \in UIDs /\ s \notin admitted /\ Claimable(s, u)
             /\ Goto(h, "claim", "mark")
             /\ conns' = [conns EXCEPT ![u] = s]
             /\ uid' = [uid EXCEPT ![s] = u]
          \/ /\ ~(u \in UIDs /\ IF s \in admitted THEN uid[s] = u /\ conns[u] = s ELSE Claimable(s, u))
             /\ Goto(h, "claim", "fail")
             /\ UNCHANGED <<conns, uid>>
       /\ UNCHANGED <<gateVars, row, accepted, admitted, terminal, messageGate, bound, callVars>>

\* MarkOpAMPTokenUsed: fails for a revoked token, and may fail for any other reason.
MarkOpAMPTokenUsed(h) ==
    /\ \/ Goto(h, "mark", "admit") /\ row[TokenOf[on[h]]] = "active"
       \/ Goto(h, "mark", "fail")
    /\ UNCHANGED <<gateVars, row, accepted, sessionVars, bound, callVars>>

\* The second section of s.mu.
AdmitSession(h) ==
    /\ \/ /\ Goto(h, "admit", "handle")
          /\ conns[of[h]] = on[h]
          /\ admitted' = admitted \cup {on[h]}
       \/ /\ Goto(h, "admit", "fail")
          /\ conns[of[h]] # on[h]
          /\ UNCHANGED admitted
    /\ UNCHANGED <<gateVars, row, accepted, conns, uid, terminal, messageGate, bound, callVars>>

\* handleAcceptedMessage: a description binds the instance; a heartbeat updates
\* a known one, or asks for a full report.
handleAcceptedMessage(h) ==
    /\ Goto(h, "handle", "unlock")
    /\ bound' \in {bound, bound \cup {of[h]}}
    /\ UNCHANGED <<gateVars, row, accepted, sessionVars, callVars>>

\* messageGate.Unlock, after a failure with terminal set.
LeaveMessage(h) ==
    /\ \/ Goto(h, "unlock", "unlease") /\ UNCHANGED terminal
       \/ Goto(h, "fail", "failed") /\ terminal' = terminal \cup {on[h]}
    /\ messageGate' = [messageGate EXCEPT ![on[h]] = {}]
    /\ UNCHANGED <<gateVars, row, accepted, conns, uid, admitted, bound, callVars>>

\* lease.Release: the operation is over, or goes on to disconnect its session
\* (a failed message, a failed send).
Release(h) ==
    /\ \/ \E p \in {"drop", "unlease", "sending"} : Goto(h, p, "idle")
       \/ \E p \in {"unlease", "sending"} : Goto(h, p, "disconnect")
       \/ Goto(h, "failed", "disconnect")
    /\ EndLeases({h}, on[h])
    /\ UNCHANGED <<row, accepted, sessionVars, bound, callVars>>

\* tokens.Remove, unless somebody else has shut the session.
Disconnect(h) ==
    /\ Goto(h, "disconnect", "idle")
    /\ \/ Shut(on[h])
       \/ gate[on[h]] # "open" /\ UNCHANGED gateVars
    /\ UNCHANGED <<row, accepted, sessionVars, bound, callVars>>

OnConnectionClose(s) ==
    /\ Shut(s)
    /\ UNCHANGED <<row, accepted, sessionVars, bound, procVars, callVars>>

\* PushConfig finds the instance in the registry.
PushConfig(h, u) ==
    /\ pc[h] = "idle" /\ u \in bound
    /\ At(h, "push", NoSession, u)
    /\ UNCHANGED <<gateVars, row, accepted, sessionVars, bound, callVars>>

\* sendToInstance looks the UID up under s.mu, and then acquires a lease on what
\* it found.
LookupConn(h) ==
    /\ pc[h] = "push"
    /\ IF conns[of[h]] = NoSession THEN Goto(h, "push", "idle")
       ELSE At(h, "found", conns[of[h]], of[h])
    /\ UNCHANGED <<gateVars, row, accepted, sessionVars, bound, callVars>>

\* Variant: sends without a lease.
sendToInstance_noLease(h) ==
    /\ Goto(h, "found", "sending")
    /\ UNCHANGED <<gateVars, row, accepted, sessionVars, bound, callVars>>

sendToInstance(h) ==
    /\ \/ Goto(h, "found", "sending") /\ Lease(h, on[h])
       \/ Goto(h, "found", "idle") /\ gate[on[h]] # "open" /\ UNCHANGED gateVars
    /\ UNCHANGED <<row, accepted, sessionVars, bound, callVars>>

\* Variant: a session that claimed a UID but was not admitted keeps it.
OwnedBy_admitted(s) == {u \in UIDs : uid[s] = u /\ conns[u] = s /\ s \in admitted}

OwnedBy(s) == {u \in UIDs : uid[s] = u /\ conns[u] = s}

\* releaseSession, once the leases of the session are over.
releaseSession(s) ==
    /\ Finish(s)
    /\ conns' = [u \in UIDs |-> IF u \in OwnedBy(s) THEN NoSession ELSE conns[u]]
    /\ uid' = IF OwnedBy(s) = {} THEN uid ELSE [uid EXCEPT ![s] = NoUID]
    /\ admitted' = IF OwnedBy(s) = {} THEN admitted ELSE admitted \ {s}
    /\ bound' = bound \ OwnedBy(s)
    /\ UNCHANGED <<row, accepted, terminal, messageGate, procVars, callVars>>

\* The row of a token passes its expires_at.
TokenExpires(t) ==
    /\ row[t] = "active"
    /\ row' = [row EXCEPT ![t] = "expired"]
    /\ UNCHANGED <<gateVars, accepted, sessionVars, bound, procVars, callVars>>

\* handleRevokeOpAMPToken after its transaction: it disconnects when the commit
\* succeeded and when its outcome is unknown, and gives up on other errors.
handleRevokeOpAMPToken(c) ==
    /\ call[c] = "idle"
    /\ \/ /\ \E r \in {"revoked", row[tok[c]]} : row' = [row EXCEPT ![tok[c]] = r]
          /\ call' = [call EXCEPT ![c] = "disable"]
       \/ call' = [call EXCEPT ![c] = "failed"] /\ UNCHANGED row
    /\ UNCHANGED <<gateVars, accepted, sessionVars, bound, procVars, tok>>

\* DisconnectTokenConnections.
Disable(c) ==
    /\ call[c] = "disable"
    /\ call' = [call EXCEPT ![c] = "wait"]
    /\ \/ Close({tok[c]}, {})
       \/ closed[tok[c]] # "no" /\ UNCHANGED gateVars
    /\ UNCHANGED <<row, accepted, sessionVars, bound, procVars, tok>>

Returns(c) ==
    /\ call[c] = "wait" /\ closed[tok[c]] = "done"
    /\ call' = [call EXCEPT ![c] = "returned"]
    /\ UNCHANGED <<gateVars, row, accepted, sessionVars, bound, procVars, tok>>

\* A token expires or the server stops, and the manager reports that it is done.
CloseTokens ==
    /\ \E T \in SUBSET Tokens : Close(T, {}) \/ Closed(T)
    /\ UNCHANGED <<row, accepted, sessionVars, bound, procVars, callVars>>
-----------------------------------------------------------------------------
Message(h) ==
    \/ EnterMessage(h) \/ processSessionMessage(h) \/ MarkOpAMPTokenUsed(h)
    \/ AdmitSession(h) \/ handleAcceptedMessage(h) \/ LeaveMessage(h)
    \/ Release(h) \/ Disconnect(h) \/ LookupConn(h) \/ sendToInstance(h)

Next ==
    \/ \E s \in Sessions : \/ authenticateRequest(s) \/ OnConnected(s)
                           \/ OnConnectionClose(s) \/ releaseSession(s)
    \/ \E h \in Holders : \/ Message(h)
                          \/ \E s \in Sessions, u \in UIDs \cup {NoUID} : onSessionMessage(h, s, u)
                          \/ \E u \in UIDs : PushConfig(h, u)
    \/ \E t \in Tokens : TokenExpires(t)
    \/ \E c \in Callers : handleRevokeOpAMPToken(c) \/ Disable(c) \/ Returns(c)
    \/ CloseTokens

Spec == Init /\ [][Next]_vars

\* Operations under a lease end, and the manager gets around to releasing the
\* sessions it has shut (DisableTerminates of TokenConnections, and finishRemove).
FairSpec == /\ Spec
            /\ \A h \in Holders : WF_vars(Message(h))
            /\ \A s \in Sessions : WF_vars(releaseSession(s))
-----------------------------------------------------------------------------
\* The types of the fields of Server and tokenSession.
TypeOK ==
    /\ GateTypeOK
    /\ row \in [Tokens -> {"active", "expired", "revoked"}]
    /\ accepted \subseteq Sessions
    /\ conns \in [UIDs -> Sessions \cup {NoSession}]
    /\ uid \in [Sessions -> UIDs \cup {NoUID}]
    /\ admitted \subseteq Sessions /\ terminal \subseteq Sessions
    /\ messageGate \in [Sessions -> SUBSET Holders]
    /\ bound \subseteq UIDs
    /\ pc \in [Holders -> {"idle", "enter", "claim", "mark", "admit", "handle",
                           "unlock", "fail", "failed", "drop", "unlease", "disconnect",
                           "push", "found", "sending"}]
    /\ on \in [Holders -> Sessions \cup {NoSession}]
    /\ of \in [Holders -> UIDs \cup {NoUID}]
    /\ call \in [Callers -> {"idle", "disable", "wait", "returned", "failed"}]
    /\ tok \in [Callers -> Tokens]

\* The three views of who owns a UID agree.  An admitted session owns its UID
\* in conns, across the unlock of s.mu between claim and admission, so no UID
\* has two admitted sessions; and an instance in the registry has an admitted
\* session: a bind never survives, or comes after, the release of the session
\* whose message made it.
OwnersAgree ==
    /\ \A s \in admitted : uid[s] \in UIDs /\ conns[uid[s]] = s
    /\ \A u \in bound : conns[u] \in admitted

\* A push for UID u is sent on the session that owns u, and u keeps its owner for
\* as long as the send takes, although s.mu is not held from the lookup on.
PushReachesOwner ==
    \A h \in Holders : pc[h] = "sending" => conns[of[h]] = on[h]

\* Once a message of a session has failed in processSessionMessage, no other
\* message of it is handled, not even one that was waiting for messageGate.
TerminalIsFinal ==
    [][\A h \in Holders : pc[h] # "handle" /\ pc'[h] = "handle" => on[h] \notin terminal]_vars

\* When a revocation request has returned, nothing of the token is left: no
\* admitted session, no lease, and no UID or instance held by one of its sessions.
RevokeIsFinal ==
    \A c \in Callers : call[c] = "returned" =>
        \A s \in SessionsOf(tok[c]) :
            s \notin admitted /\ leases[s] = {} /\ \A u \in UIDs : conns[u] # s

\* A session that was shut does not keep its UID: releaseSession finds it,
\* wherever its first message was when the session was shut.
UIDIsFreed == \A s \in Sessions, u \in UIDs : conns[u] = s /\ gate[s] = "shut" ~> conns[u] # s
=============================================================================
