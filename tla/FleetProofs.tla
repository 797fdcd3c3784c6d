---------------------------- MODULE FleetProofs ----------------------------
(***************************************************************************)
(* The agents and what is shown of them, for any number of sessions,       *)
(* tokens, UIDs, workloads, timers and alerts: the ownership of UIDs, the  *)
(* rows of the workloads with their registry and grace timers, and the     *)
(* alerts.  The properties of each follow from an inductive invariant of   *)
(* its own.                                                                *)
(***************************************************************************)
EXTENDS SessionOwnership, Naturals, Sequences, TLAPS

USE OwnershipAssumption

\* Where an operation holds a lease, and where it holds messageGate.
Leased == {"enter", "claim", "mark", "admit", "handle", "unlock", "fail", "failed", "drop", "unlease", "sending"}
Gated == {"claim", "mark", "admit", "handle", "unlock", "fail"}

\* What TokenGate keeps: leases only on sessions that are not over, and no
\* session of a closed token open, or of one that is done with, shut.
GateInv ==
    \A s \in Sessions :
        /\ gate[s] \in {"new", "over"} => leases[s] = {}
        /\ closed[TokenOf[s]] # "no" => gate[s] # "open"
        /\ closed[TokenOf[s]] = "done" => gate[s] # "shut"

\* uid and conns are inverse to each other, an owner is open or shut, and the
\* admitted sessions and the registry follow them.
OwnerInv ==
    /\ \A s \in Sessions, u \in UIDs : uid[s] = u <=> conns[u] = s
    /\ \A u \in UIDs : conns[u] # NoSession => gate[conns[u]] \in {"open", "shut"}
    /\ \A s \in admitted : uid[s] \in UIDs
    /\ \A u \in bound : conns[u] \in admitted

\* What an operation may rely on wherever it is.  A session that a push has found
\* may have lost its UID, but then it is over and cannot be leased.
HolderOK(h) ==
    /\ pc[h] \in Leased => on[h] \in Sessions /\ h \in leases[on[h]]
    /\ pc[h] \in Gated => messageGate[on[h]] = {h}
    /\ pc[h] \in Gated \ {"fail"} => on[h] \notin terminal
    /\ pc[h] \in {"mark", "admit", "handle", "sending"} => of[h] \in UIDs /\ conns[of[h]] = on[h]
    /\ pc[h] = "handle" => on[h] \in admitted
    /\ pc[h] = "push" => of[h] \in UIDs
    /\ pc[h] = "disconnect" => on[h] \in Sessions
    /\ pc[h] = "found" =>
          on[h] \in Sessions /\ of[h] \in UIDs /\ (gate[on[h]] # "over" => conns[of[h]] = on[h])

HolderInv == \A h \in Holders : HolderOK(h)

\* A request has returned after its token was done with.
CallInv == \A c \in Callers : call[c] = "returned" => closed[tok[c]] = "done"

Inv == GateInv /\ OwnerInv /\ HolderInv /\ CallInv
-----------------------------------------------------------------------------
\* A step of holder h leaves the other holders where they are.
Others(h) == \A g \in Holders : g # h => pc'[g] = pc[g] /\ on'[g] = on[g] /\ of'[g] = of[g]

LEMMA AtStep ==
    ASSUME TypeOK, NEW h \in Holders, NEW to, NEW s, NEW u, At(h, to, s, u)
    PROVE  Others(h) /\ pc'[h] = to /\ on'[h] = s /\ of'[h] = u
BY Zenon DEF At, TypeOK, Others

LEMMA GotoStep ==
    ASSUME TypeOK, NEW h \in Holders, NEW from, NEW to, Goto(h, from, to)
    PROVE  /\ Others(h) /\ pc[h] = from /\ pc'[h] = to
           /\ to = "idle" => on'[h] = NoSession /\ of'[h] = NoUID
           /\ to # "idle" => on'[h] = on[h] /\ of'[h] = of[h]
BY AtStep, Zenon DEF Goto

\* The types of the holders' variables, apart from the others.
Places == {"idle", "enter", "claim", "mark", "admit", "handle", "unlock", "fail", "failed", "drop",
           "unlease", "disconnect", "push", "found", "sending"}
ProcTypeOK ==
    /\ pc \in [Holders -> Places]
    /\ on \in [Holders -> Sessions \cup {NoSession}]
    /\ of \in [Holders -> UIDs \cup {NoUID}]

LEMMA AtType ==
    ASSUME TypeOK, NEW h \in Holders, NEW to \in Places, NEW s \in Sessions \cup {NoSession},
           NEW u \in UIDs \cup {NoUID}, At(h, to, s, u)
    PROVE  ProcTypeOK'
BY Zenon DEF At, TypeOK, ProcTypeOK, Places

LEMMA GotoType ==
    ASSUME TypeOK, NEW h \in Holders, NEW from, NEW to \in Places, Goto(h, from, to)
    PROVE  ProcTypeOK'
<1>1. on[h] \in Sessions \cup {NoSession} /\ of[h] \in UIDs \cup {NoUID}
  BY Zenon DEF TypeOK
<1>. QED BY <1>1, AtType, Zenon DEF Goto

LEMMA TypeInit == Init => TypeOK
BY DEF Init, TypeOK, GateInit, GateTypeOK

\* Every step preserves the types, given where the operations are.
LEMMA TypeNext ==
    ASSUME TypeOK, HolderInv, [Next]_vars
    PROVE  TypeOK'
<1>. USE DEF TypeOK, GateTypeOK, gateVars, sessionVars, procVars, callVars
<1>1. ASSUME NEW s \in Sessions, authenticateRequest(s) PROVE TypeOK'
  BY <1>1, Zenon DEF authenticateRequest
<1>2. ASSUME NEW s \in Sessions, OnConnected(s) PROVE TypeOK'
  BY <1>2 DEF OnConnected, Admit, Refuse, Close
<1>3. ASSUME NEW s \in Sessions, OnConnectionClose(s) PROVE TypeOK'
  BY <1>3, Zenon DEF OnConnectionClose, Shut
<1>4. ASSUME NEW s \in Sessions, releaseSession(s) PROVE TypeOK'
  BY <1>4, Zenon DEF releaseSession, Finish, OwnedBy
<1>5. ASSUME NEW h \in Holders, NEW s \in Sessions, NEW u \in UIDs \cup {NoUID}, onSessionMessage(h, s, u)
      PROVE  TypeOK'
  BY <1>5, Zenon DEF onSessionMessage, Lease, At
<1>6. ASSUME NEW h \in Holders, EnterMessage(h) PROVE TypeOK'
  <2>1. ProcTypeOK'
    BY <1>6, GotoType, Zenon DEF EnterMessage, Places
  <2>. QED BY <1>6, <2>1 DEF EnterMessage, ProcTypeOK, Places
<1>7. ASSUME NEW h \in Holders, processSessionMessage(h) PROVE TypeOK'
  <2>1. ProcTypeOK'
    BY <1>7, GotoType, Zenon DEF processSessionMessage, Places
  <2>. QED BY <1>7, <2>1 DEF processSessionMessage, ProcTypeOK, Places
<1>8. ASSUME NEW h \in Holders, MarkOpAMPTokenUsed(h) PROVE TypeOK'
  <2>1. ProcTypeOK'
    BY <1>8, GotoType, Zenon DEF MarkOpAMPTokenUsed, Places
  <2>. QED BY <1>8, <2>1, Zenon DEF MarkOpAMPTokenUsed, ProcTypeOK, Places
<1>9. ASSUME NEW h \in Holders, AdmitSession(h) PROVE TypeOK'
  <2>1. ProcTypeOK' /\ on[h] \in Sessions
    BY <1>9, GotoType, GotoStep, Zenon DEF AdmitSession, Places, HolderInv, HolderOK, Leased
  <2>. QED BY <1>9, <2>1, Zenon DEF AdmitSession, ProcTypeOK, Places
<1>10. ASSUME NEW h \in Holders, handleAcceptedMessage(h) PROVE TypeOK'
  <2>1. ProcTypeOK' /\ of[h] \in UIDs
    BY <1>10, GotoType, GotoStep, Zenon DEF handleAcceptedMessage, Places, HolderInv, HolderOK
  <2>. QED BY <1>10, <2>1, Zenon DEF handleAcceptedMessage, ProcTypeOK, Places
<1>11. ASSUME NEW h \in Holders, LeaveMessage(h) PROVE TypeOK'
  <2>1. ProcTypeOK' /\ on[h] \in Sessions
    BY <1>11, GotoType, GotoStep, Zenon DEF LeaveMessage, Places, HolderInv, HolderOK, Leased
  <2>. QED BY <1>11, <2>1, Zenon DEF LeaveMessage, ProcTypeOK, Places
<1>12. ASSUME NEW h \in Holders, Release(h) PROVE TypeOK'
  <2>1. ProcTypeOK'
    BY <1>12, GotoType, Zenon DEF Release, Places
  <2>2. GateTypeOK'
    BY <1>12, Zenon DEF Release, EndLeases
  <2>. QED BY <1>12, <2>1, <2>2, Zenon DEF Release, ProcTypeOK, Places
<1>13. ASSUME NEW h \in Holders, Disconnect(h) PROVE TypeOK'
  <2>1. ProcTypeOK'
    BY <1>13, GotoType, Zenon DEF Disconnect, Places
  <2>. QED BY <1>13, <2>1 DEF Disconnect, Shut, ProcTypeOK, Places
<1>14. ASSUME NEW h \in Holders, LookupConn(h) PROVE TypeOK'
  <2>1. of[h] \in UIDs /\ conns[of[h]] \in Sessions \cup {NoSession}
    BY <1>14, Zenon DEF LookupConn, HolderInv, HolderOK
  <2>2. ProcTypeOK'
    BY <1>14, <2>1, GotoType, AtType, Zenon DEF LookupConn, Places
  <2>. QED BY <1>14, <2>2, Zenon DEF LookupConn, ProcTypeOK, Places
<1>15. ASSUME NEW h \in Holders, sendToInstance(h) PROVE TypeOK'
  <2>1. ProcTypeOK'
    BY <1>15, GotoType, Zenon DEF sendToInstance, Places
  <2>2. GateTypeOK'
    BY <1>15 DEF sendToInstance, Lease
  <2>. QED BY <1>15, <2>1, <2>2, Zenon DEF sendToInstance, ProcTypeOK, Places
<1>16. ASSUME NEW h \in Holders, NEW u \in UIDs, PushConfig(h, u) PROVE TypeOK'
  BY <1>16, Zenon DEF PushConfig, At
<1>17. ASSUME NEW t \in Tokens, TokenExpires(t) PROVE TypeOK'
  BY <1>17, Zenon DEF TokenExpires
<1>18. ASSUME NEW c \in Callers, handleRevokeOpAMPToken(c) PROVE TypeOK'
  BY <1>18 DEF handleRevokeOpAMPToken
<1>19. ASSUME NEW c \in Callers, Disable(c) \/ Returns(c) PROVE TypeOK'
  BY <1>19 DEF Disable, Returns, Close
<1>20. ASSUME CloseTokens PROVE TypeOK'
  BY <1>20 DEF CloseTokens, Close, Closed
<1>21. ASSUME UNCHANGED vars PROVE TypeOK'
  BY <1>21, Zenon DEF vars
<1>. QED
  BY <1>1, <1>2, <1>3, <1>4, <1>5, <1>6, <1>7, <1>8, <1>9, <1>10, <1>11, <1>12, <1>13, <1>14, <1>15, <1>16,
     <1>17, <1>18, <1>19, <1>20, <1>21, Zenon DEF Next, Message

\* The invariant holds initially.
LEMMA InvInit == Init => Inv
BY DEF Init, GateInit, Inv, GateInv, OwnerInv, HolderInv, HolderOK, CallInv, Leased, Gated

-----------------------------------------------------------------------------
(* Steps that change the gate *)

\* What is over stays over, and what is done stays done.
Forward ==
    /\ \A s \in Sessions : gate[s] = "over" => gate'[s] = "over"
    /\ \A t \in Tokens : closed[t] = "done" => closed'[t] = "done"

\* A session that has an owner's rights keeps them.
Keeping == \A s \in Sessions : gate[s] \in {"open", "shut"} => gate'[s] \in {"open", "shut"}

\* Every step of the gate preserves what SessionOwnership needs of it, and only
\* Finish ends a session that was open or shut.
LEMMA GateStep ==
    ASSUME TypeOK, GateInv,
           \/ \E s \in Sessions : Admit(s) \/ Shut(s) \/ (closed[TokenOf[s]] # "no" /\ Refuse(s))
           \/ \E s \in Sessions, h \in Holders : Lease(h, s) \/ EndLeases({h}, s)
           \/ \E T \in SUBSET Tokens : Close(T, {}) \/ Closed(T)
           \/ \E s \in Sessions : Close({TokenOf[s]}, {s})
           \/ UNCHANGED gateVars
    PROVE  GateInv' /\ Forward /\ Keeping
<1>. USE DEF TypeOK, GateTypeOK, GateInv, Forward, Keeping
<1>1. ASSUME NEW s \in Sessions, Admit(s) \/ Shut(s) \/ (closed[TokenOf[s]] # "no" /\ Refuse(s))
      PROVE  GateInv' /\ Forward /\ Keeping
  BY <1>1 DEF Admit, Shut, Refuse
<1>2. ASSUME NEW s \in Sessions, NEW h \in Holders, Lease(h, s) \/ EndLeases({h}, s)
      PROVE  GateInv' /\ Forward /\ Keeping
  BY <1>2, Zenon DEF Lease, EndLeases
<1>3. ASSUME NEW T \in SUBSET Tokens, Close(T, {}) \/ Closed(T)
      PROVE  GateInv' /\ Forward /\ Keeping
  BY <1>3 DEF Close, Closed, SessionsOf, Over
<1>4. ASSUME NEW s \in Sessions, Close({TokenOf[s]}, {s})
      PROVE  GateInv' /\ Forward /\ Keeping
  BY <1>4, Zenon DEF Close
<1>5. CASE UNCHANGED gateVars
  BY <1>5, Zenon DEF gateVars
<1>. QED
  BY <1>1, <1>2, <1>3, <1>4, <1>5, Zenon

\* Owners are not concerned by a step that keeps sessions open or shut.
LEMMA OwnerFrame ==
    ASSUME TypeOK, OwnerInv, Keeping, UNCHANGED <<conns, uid, admitted, bound>>
    PROVE  OwnerInv'
BY DEF TypeOK, OwnerInv, Keeping

\* Requests are not concerned by a step that takes no token back.
LEMMA CallFrame ==
    ASSUME TypeOK, CallInv, Forward, UNCHANGED callVars
    PROVE  CallInv'
BY Zenon DEF TypeOK, CallInv, Forward, callVars

\* A holder is not concerned by a step of somebody else that leaves its lease,
\* its message gate and its UID alone.
LEMMA HolderFrame ==
    ASSUME NEW g \in Holders, HolderOK(g), Forward,
           pc'[g] = pc[g], on'[g] = on[g], of'[g] = of[g],
           \A s \in Sessions : g \in leases[s] => g \in leases'[s],
           pc[g] \in Gated => messageGate'[on[g]] = messageGate[on[g]],
           pc[g] \in Gated \ {"fail"} => (on[g] \in terminal' => on[g] \in terminal),
           pc[g] \in {"mark", "admit", "handle", "sending", "found"} => conns'[of[g]] = conns[of[g]],
           pc[g] = "handle" => (on[g] \in admitted => on[g] \in admitted')
    PROVE  HolderOK(g)'
BY Zenon DEF HolderOK, Forward, Leased, Gated

\* The steps of the handshake, of the close callback and of the manager.
LEMMA ManagerStep ==
    ASSUME TypeOK, Inv,
           \/ \E s \in Sessions : authenticateRequest(s) \/ OnConnected(s) \/ OnConnectionClose(s)
           \/ \E t \in Tokens : TokenExpires(t)
           \/ CloseTokens
    PROVE  Inv'
<1>1. UNCHANGED <<sessionVars, bound, procVars, callVars>>
  BY Zenon DEF authenticateRequest, OnConnected, OnConnectionClose, TokenExpires, CloseTokens
<1>2. UNCHANGED leases
  BY Zenon DEF authenticateRequest, OnConnected, OnConnectionClose, TokenExpires, CloseTokens,
         Admit, Refuse, Shut, Close, Closed, gateVars
<1>3. GateInv' /\ Forward /\ Keeping
  BY GateStep, Zenon DEF Inv, authenticateRequest, OnConnected, OnConnectionClose, TokenExpires, CloseTokens
<1>4. OwnerInv' /\ CallInv'
  BY <1>1, <1>3, OwnerFrame, CallFrame, Zenon DEF Inv, sessionVars
<1>5. HolderInv'
  BY <1>1, <1>2, <1>3, HolderFrame, Zenon DEF Inv, HolderInv, sessionVars, procVars
<1>. QED
  BY <1>3, <1>4, <1>5, Zenon DEF Inv

\* The steps of a revocation request.
LEMMA CallerStep ==
    ASSUME TypeOK, Inv, NEW c \in Callers, handleRevokeOpAMPToken(c) \/ Disable(c) \/ Returns(c)
    PROVE  Inv'
<1>1. UNCHANGED <<sessionVars, bound, procVars, tok>>
  BY Zenon DEF handleRevokeOpAMPToken, Disable, Returns
<1>2. UNCHANGED leases
  BY Zenon DEF handleRevokeOpAMPToken, Disable, Returns, Close, gateVars
<1>3. GateInv' /\ Forward /\ Keeping
  <2>1. CASE handleRevokeOpAMPToken(c) \/ Returns(c)
    BY <2>1, GateStep, Zenon DEF Inv, handleRevokeOpAMPToken, Returns
  <2>2. CASE Disable(c)
    <3>1. {tok[c]} \in SUBSET Tokens
      BY DEF TypeOK
    <3>. QED BY <2>2, <3>1, GateStep, Zenon DEF Inv, Disable
  <2>. QED BY <2>1, <2>2, Zenon
<1>4. OwnerInv'
  BY <1>1, <1>3, OwnerFrame, Zenon DEF Inv, sessionVars
<1>5. CallInv'
  BY <1>1, <1>3 DEF Inv, CallInv, Forward, TypeOK, handleRevokeOpAMPToken, Disable, Returns, gateVars
<1>6. HolderInv'
  BY <1>1, <1>2, <1>3, HolderFrame, Zenon DEF Inv, HolderInv, sessionVars, procVars
<1>. QED
  BY <1>3, <1>4, <1>5, <1>6, Zenon DEF Inv

\* releaseSession: the leases of the session are over, so no operation uses its UID.
LEMMA ReleaseStep ==
    ASSUME TypeOK, Inv, NEW s \in Sessions, releaseSession(s)
    PROVE  Inv'
<1>. USE DEF releaseSession, Finish
<1>1. GateInv' /\ Forward
  BY Zenon DEF Inv, GateInv, Forward, TypeOK, GateTypeOK
<1>2. \A u \in UIDs : u \in OwnedBy(s) <=> conns[u] = s
  BY Zenon DEF Inv, OwnerInv, OwnedBy
<1>3. OwnerInv'
  <2>1. \A r \in Sessions, u \in UIDs : uid'[r] = u <=> conns'[u] = r
    BY <1>2 DEF Inv, OwnerInv, TypeOK
  <2>2. \A u \in UIDs : conns'[u] # NoSession => gate'[conns'[u]] \in {"open", "shut"}
    BY <1>2 DEF Inv, OwnerInv, TypeOK, GateTypeOK
  <2>3. \A r \in admitted' : uid'[r] \in UIDs
    BY <1>2 DEF Inv, OwnerInv, TypeOK
  <2>4. \A u \in bound' : conns'[u] \in admitted'
    BY <1>2, Zenon DEF Inv, OwnerInv, TypeOK
  <2>. QED BY <2>1, <2>2, <2>3, <2>4, Zenon DEF OwnerInv
<1>4. CallInv'
  BY <1>1, CallFrame, Zenon DEF Inv
<1>5. ASSUME NEW g \in Holders
      PROVE  HolderOK(g)'
  <2>1. HolderOK(g) /\ leases[s] = {} /\ gate'[s] = "over"
    BY Zenon DEF Inv, HolderInv, TypeOK, GateTypeOK
  <2>2. UNCHANGED <<leases, messageGate, terminal, pc, on, of>>
    BY Zenon DEF procVars
  <2>3. CASE pc[g] = "found"
    BY <1>1, <1>2, <2>1, <2>2, <2>3, Zenon DEF HolderOK, Leased, Gated, Forward
  <2>4. CASE pc[g] # "found"
    <3>1. pc[g] \in Leased => on[g] # s
      BY <2>1, Zenon DEF HolderOK
    <3>2. pc[g] \in {"mark", "admit", "handle", "sending"} => conns'[of[g]] = conns[of[g]]
      BY <1>2, <2>1, <3>1, Zenon DEF HolderOK, Leased
    <3>3. pc[g] = "handle" => (on[g] \in admitted => on[g] \in admitted')
      BY <3>1, Zenon DEF Leased
    <3>. QED BY <1>1, <2>1, <2>2, <2>4, <3>2, <3>3, HolderFrame, Zenon
  <2>. QED BY <2>3, <2>4, Zenon
<1>. QED
  BY <1>1, <1>3, <1>4, <1>5, Zenon DEF Inv, HolderInv

-----------------------------------------------------------------------------
(* Steps of operations *)

\* A message or a push begins: the lease of a message is taken while its session is open.
LEMMA BeginStep ==
    ASSUME TypeOK, Inv, NEW h \in Holders,
           \/ \E s \in Sessions, u \in UIDs \cup {NoUID} : onSessionMessage(h, s, u)
           \/ \E u \in UIDs : PushConfig(h, u)
    PROVE  Inv'
<1>1. CASE \E u \in UIDs : PushConfig(h, u)
  <2>1. UNCHANGED <<gateVars, sessionVars, bound, callVars>>
    BY <1>1, Zenon DEF PushConfig
  <2>2. GateInv' /\ Forward /\ Keeping
    BY <2>1, GateStep, Zenon DEF Inv
  <2>3. OwnerInv' /\ CallInv'
    BY <2>1, <2>2, OwnerFrame, CallFrame, Zenon DEF Inv, sessionVars
  <2>4. HolderOK(h)'
    BY <1>1, AtStep DEF PushConfig, HolderOK, Leased, Gated
  <2>5. \A g \in Holders : g # h => HolderOK(g)'
    BY <1>1, <2>1, <2>2, AtStep, HolderFrame, Zenon DEF Others, Inv, HolderInv, PushConfig, gateVars, sessionVars
  <2>. QED BY <2>2, <2>3, <2>4, <2>5, Zenon DEF Inv, HolderInv
<1>2. ASSUME NEW s \in Sessions, NEW u \in UIDs \cup {NoUID}, onSessionMessage(h, s, u)
      PROVE  Inv'
  <2>1. UNCHANGED <<sessionVars, bound, callVars>>
    BY <1>2, Zenon DEF onSessionMessage
  <2>2. GateInv' /\ Forward /\ Keeping
    BY <1>2, GateStep, Zenon DEF Inv, onSessionMessage
  <2>3. OwnerInv' /\ CallInv'
    BY <2>1, <2>2, OwnerFrame, CallFrame, Zenon DEF Inv, sessionVars
  <2>4. HolderOK(h)'
    BY <1>2, AtStep DEF onSessionMessage, Lease, HolderOK, Leased, Gated, TypeOK, GateTypeOK
  <2>5. \A g \in Holders, r \in Sessions : g \in leases[r] => g \in leases'[r]
    BY <1>2, Zenon DEF onSessionMessage, Lease, TypeOK, GateTypeOK
  <2>6. \A g \in Holders : g # h => HolderOK(g)'
    BY <1>2, <2>1, <2>2, <2>5, AtStep, HolderFrame, Zenon DEF Others, Inv, HolderInv, onSessionMessage, sessionVars
  <2>. QED BY <2>2, <2>3, <2>4, <2>6, Zenon DEF Inv, HolderInv
<1>. QED
  BY <1>1, <1>2, Zenon

\* EnterMessage: whoever is inside messageGate is inside alone.
LEMMA EnterStep ==
    ASSUME TypeOK, Inv, NEW h \in Holders, EnterMessage(h)
    PROVE  Inv'
<1>1. UNCHANGED <<gateVars, conns, uid, admitted, terminal, bound, callVars>>
  BY Zenon DEF EnterMessage
<1>2. GateInv' /\ Forward /\ Keeping
  BY <1>1, GateStep, Zenon DEF Inv
<1>3. OwnerInv' /\ CallInv'
  BY <1>1, <1>2, OwnerFrame, CallFrame, Zenon DEF Inv
<1>4. pc[h] = "enter" /\ on[h] \in Sessions /\ messageGate[on[h]] = {}
  BY Zenon DEF EnterMessage, Inv, HolderInv, HolderOK, Leased
<1>5. HolderOK(h)'
  BY <1>1, <1>4, GotoStep DEF EnterMessage, Inv, HolderInv, HolderOK, Leased, Gated, gateVars, TypeOK
<1>6. ASSUME NEW g \in Holders, g # h
      PROVE  HolderOK(g)'
  <2>1. pc'[g] = pc[g] /\ on'[g] = on[g] /\ of'[g] = of[g]
    BY <1>6, GotoStep, Zenon DEF Others, EnterMessage
  <2>2. HolderOK(g)
    BY Zenon DEF Inv, HolderInv
  <2>3. pc[g] \in Gated => on[g] \in Sessions /\ on[g] # on[h]
    BY <1>4, <2>2, Zenon DEF HolderOK, Leased, Gated
  <2>4. pc[g] \in Gated => messageGate'[on[g]] = messageGate[on[g]]
    BY <2>3, Zenon DEF EnterMessage, TypeOK
  <2>. QED BY <1>1, <1>2, <2>1, <2>2, <2>4, HolderFrame, Zenon DEF gateVars
<1>. QED
  BY <1>2, <1>3, <1>5, <1>6, Zenon DEF Inv, HolderInv

\* The first section of s.mu: a session claims a UID only if neither has a partner.
LEMMA ClaimStep ==
    ASSUME TypeOK, Inv, NEW h \in Holders, processSessionMessage(h)
    PROVE  Inv'
<1>1. UNCHANGED <<gateVars, admitted, terminal, messageGate, bound, callVars>>
  BY Zenon DEF processSessionMessage
<1>2. GateInv' /\ Forward /\ Keeping
  BY <1>1, GateStep, Zenon DEF Inv
<1>3. CallInv'
  BY <1>1, <1>2, CallFrame, Zenon DEF Inv
<1>4. on[h] \in Sessions /\ gate[on[h]] \in {"open", "shut"}
  BY DEF Inv, processSessionMessage, HolderInv, HolderOK, Leased, GateInv, TypeOK, GateTypeOK
<1>5. CASE UNCHANGED <<conns, uid>>
  <2>1. OwnerInv'
    BY <1>1, <1>2, <1>5, OwnerFrame, Zenon DEF Inv
  <2>2. HolderOK(h)'
    <3>1. \/ /\ Goto(h, "claim", "handle")
             /\ of[h] \in UIDs /\ on[h] \in admitted /\ conns[of[h]] = on[h]
          \/ Goto(h, "claim", "fail")
      BY <1>4, <1>5 DEF processSessionMessage, Claimable, TypeOK
    <3>. QED BY <1>1, <1>5, <3>1, GotoStep DEF Inv, HolderInv, HolderOK, Leased, Gated, gateVars
  <2>3. \A g \in Holders : g # h => HolderOK(g)'
    BY <1>1, <1>2, <1>5, GotoStep, HolderFrame, Zenon DEF Others, processSessionMessage, Inv, HolderInv, gateVars
  <2>. QED BY <1>2, <1>3, <2>1, <2>2, <2>3, Zenon DEF Inv, HolderInv
<1>6. CASE /\ of[h] \in UIDs /\ Claimable(on[h], of[h]) /\ Goto(h, "claim", "mark")
           /\ conns' = [conns EXCEPT ![of[h]] = on[h]]
           /\ uid' = [uid EXCEPT ![on[h]] = of[h]]
  <2>1. conns[of[h]] = NoSession
    BY <1>4, <1>6, Zenon DEF Claimable, Inv, OwnerInv
  <2>2. OwnerInv'
    BY <1>1, <1>4, <1>6, <2>1 DEF Inv, OwnerInv, TypeOK, gateVars, Claimable
  <2>3. HolderOK(h)'
    BY <1>1, <1>6, GotoStep DEF Inv, HolderInv, HolderOK, Leased, Gated, gateVars, TypeOK
  <2>4. ASSUME NEW g \in Holders, g # h
        PROVE  HolderOK(g)'
    <3>1. HolderOK(g) /\ pc'[g] = pc[g] /\ on'[g] = on[g] /\ of'[g] = of[g]
      BY <1>6, <2>4, GotoStep, Zenon DEF Others, Inv, HolderInv
    <3>2. CASE pc[g] = "found" /\ of[g] = of[h]
      BY <1>1, <1>4, <1>6, <2>1, <3>1, <3>2, Zenon DEF HolderOK, Leased, Gated, gateVars, TypeOK
    <3>3. CASE ~ (pc[g] = "found" /\ of[g] = of[h])
      <4>1. pc[g] \in {"mark", "admit", "handle", "sending", "found"} => conns'[of[g]] = conns[of[g]]
        BY <1>6, <2>1, <3>1, <3>3, Zenon DEF HolderOK, Leased, TypeOK
      <4>. QED BY <1>1, <1>2, <3>1, <4>1, HolderFrame, Zenon DEF gateVars
    <3>. QED BY <3>2, <3>3, Zenon
  <2>. QED BY <1>2, <1>3, <2>2, <2>3, <2>4, Zenon DEF Inv, HolderInv
<1>. QED
  BY <1>5, <1>6, Zenon DEF processSessionMessage
\* The steps of a message after its claim, and the lookup of a push: the gate,
\* conns, uid, terminal and messageGate stay.
LEMMA MessageStep ==
    ASSUME TypeOK, Inv, NEW h \in Holders,
           MarkOpAMPTokenUsed(h) \/ AdmitSession(h) \/ handleAcceptedMessage(h) \/ LookupConn(h)
    PROVE  Inv'
<1>1. UNCHANGED <<gateVars, conns, uid, terminal, messageGate, callVars>>
  BY Zenon DEF MarkOpAMPTokenUsed, AdmitSession, handleAcceptedMessage, LookupConn, sessionVars
<1>2. GateInv' /\ Forward /\ Keeping
  BY <1>1, GateStep, Zenon DEF Inv
<1>3. CallInv'
  BY <1>1, <1>2, CallFrame, Zenon DEF Inv
<1>4. HolderOK(h)
  BY Zenon DEF Inv, HolderInv
<1>5. Others(h)
  BY GotoStep, AtStep, Zenon DEF MarkOpAMPTokenUsed, AdmitSession, handleAcceptedMessage, LookupConn
<1>6. admitted \subseteq admitted'
  BY Zenon DEF MarkOpAMPTokenUsed, AdmitSession, handleAcceptedMessage, LookupConn, sessionVars
<1>7. OwnerInv' /\ HolderOK(h)'
  <2>1. CASE MarkOpAMPTokenUsed(h)
    <3>1. UNCHANGED <<admitted, bound>>
      BY <2>1, Zenon DEF MarkOpAMPTokenUsed, sessionVars
    <3>2. pc[h] = "mark" /\ pc'[h] \in {"admit", "fail"} /\ on'[h] = on[h] /\ of'[h] = of[h]
      BY <2>1, GotoStep DEF MarkOpAMPTokenUsed
    <3>. QED BY <1>1, <1>2, <1>4, <3>1, <3>2, OwnerFrame, Zenon DEF Inv, HolderOK, Leased, Gated, gateVars
  <2>2. CASE AdmitSession(h)
    <3>1. /\ pc[h] = "admit" /\ pc'[h] \in {"handle", "fail"} /\ on'[h] = on[h] /\ of'[h] = of[h]
          /\ admitted' \in {admitted, admitted \cup {on[h]}}
          /\ pc'[h] = "handle" => on[h] \in admitted'
          /\ UNCHANGED bound
      BY <2>2, GotoStep DEF AdmitSession
    <3>2. OwnerInv'
      BY <1>1, <1>4, <3>1 DEF Inv, OwnerInv, HolderOK, Leased, TypeOK, gateVars
    <3>. QED BY <1>1, <1>4, <3>1, <3>2, Zenon DEF HolderOK, Leased, Gated, gateVars
  <2>3. CASE handleAcceptedMessage(h)
    <3>1. /\ pc[h] = "handle" /\ pc'[h] = "unlock" /\ on'[h] = on[h] /\ of'[h] = of[h]
          /\ bound' \in {bound, bound \cup {of[h]}} /\ UNCHANGED admitted
      BY <2>3, GotoStep, Zenon DEF handleAcceptedMessage, sessionVars
    <3>2. OwnerInv'
      BY <1>1, <1>4, <3>1 DEF Inv, OwnerInv, HolderOK, gateVars
    <3>. QED BY <1>1, <1>4, <3>1, <3>2, Zenon DEF HolderOK, Leased, Gated, gateVars
  <2>4. CASE LookupConn(h)
    <3>1. UNCHANGED <<admitted, bound>>
      BY <2>4, Zenon DEF LookupConn, sessionVars
    <3>2. CASE conns[of[h]] = NoSession
      <4>1. pc'[h] = "idle"
        BY <2>4, <3>2, GotoStep DEF LookupConn
      <4>. QED BY <1>1, <1>2, <3>1, <4>1, OwnerFrame, Zenon DEF Inv, HolderOK, Leased, Gated
    <3>3. CASE conns[of[h]] # NoSession
      <4>1. pc[h] = "push" /\ pc'[h] = "found" /\ on'[h] = conns[of[h]] /\ of'[h] = of[h]
        BY <2>4, <3>3, AtStep, Zenon DEF LookupConn
      <4>2. on'[h] \in Sessions
        BY <1>4, <3>3, <4>1, Zenon DEF HolderOK, TypeOK
      <4>. QED BY <1>1, <1>2, <1>4, <3>1, <4>1, <4>2, OwnerFrame, Zenon DEF Inv, HolderOK, Leased, Gated
    <3>. QED BY <3>2, <3>3, Zenon
  <2>. QED BY <2>1, <2>2, <2>3, <2>4, Zenon
<1>8. \A g \in Holders : g # h => HolderOK(g)'
  BY <1>1, <1>2, <1>5, <1>6, HolderFrame, Zenon DEF Inv, HolderInv, Others, gateVars
<1>. QED
  BY <1>2, <1>3, <1>7, <1>8, Zenon DEF Inv, HolderInv

\* LeaveMessage: nobody else is inside the messageGate that it opens.
LEMMA LeaveStep ==
    ASSUME TypeOK, Inv, NEW h \in Holders, LeaveMessage(h)
    PROVE  Inv'
<1>1. UNCHANGED <<gateVars, conns, uid, admitted, bound, callVars>>
  BY Zenon DEF LeaveMessage
<1>2. GateInv' /\ Forward /\ Keeping
  BY <1>1, GateStep, Zenon DEF Inv
<1>3. OwnerInv' /\ CallInv'
  BY <1>1, <1>2, OwnerFrame, CallFrame, Zenon DEF Inv
<1>4. /\ Others(h) /\ on'[h] = on[h] /\ pc[h] \in {"unlock", "fail"} /\ pc'[h] \in {"unlease", "failed"}
      /\ terminal' \in {terminal, terminal \cup {on[h]}}
      /\ messageGate' = [messageGate EXCEPT ![on[h]] = {}]
  BY GotoStep, Zenon DEF LeaveMessage
<1>5. on[h] \in Sessions /\ h \in leases[on[h]] /\ messageGate[on[h]] = {h}
  BY <1>4, Zenon DEF Inv, HolderInv, HolderOK, Leased, Gated
<1>6. HolderOK(h)'
  BY <1>1, <1>4, <1>5, Zenon DEF HolderOK, Leased, Gated, gateVars
<1>7. ASSUME NEW g \in Holders, g # h
      PROVE  HolderOK(g)'
  <2>1. HolderOK(g)
    BY Zenon DEF Inv, HolderInv
  <2>2. pc[g] \in Gated => on[g] \in Sessions /\ on[g] # on[h]
    BY <1>5, <1>7, <2>1, Zenon DEF HolderOK, Leased, Gated
  <2>3. pc[g] \in Gated => messageGate'[on[g]] = messageGate[on[g]]
    BY <1>4, <2>2, Zenon DEF TypeOK
  <2>. QED BY <1>1, <1>2, <1>4, <1>7, <2>1, <2>2, <2>3, HolderFrame, Zenon DEF Others, gateVars
<1>. QED
  BY <1>2, <1>3, <1>6, <1>7, Zenon DEF Inv, HolderInv

\* The steps of an operation on its lease.  A push is sent only if its session is
\* still open, so that the session has not lost the UID since the lookup.
LEMMA LeaseStep ==
    ASSUME TypeOK, Inv, NEW h \in Holders, Release(h) \/ Disconnect(h) \/ sendToInstance(h)
    PROVE  Inv'
<1>1. UNCHANGED <<sessionVars, bound, callVars>>
  BY Zenon DEF Release, Disconnect, sendToInstance
<1>2. HolderOK(h) /\ on[h] \in Sessions
  BY GotoStep DEF Inv, HolderInv, HolderOK, Leased, Release, Disconnect, sendToInstance
<1>3. GateInv' /\ Forward /\ Keeping
  <2>1. \/ Lease(h, on[h]) \/ EndLeases({h}, on[h]) \/ Shut(on[h]) \/ UNCHANGED gateVars
    BY Zenon DEF Release, Disconnect, sendToInstance
  <2>. QED BY <1>2, <2>1, GateStep, Zenon DEF Inv
<1>4. OwnerInv' /\ CallInv'
  BY <1>1, <1>3, OwnerFrame, CallFrame, Zenon DEF Inv, sessionVars
<1>5. HolderOK(h)'
  <2>1. CASE Release(h)
    <3>1. pc'[h] = "idle" \/ (pc'[h] = "disconnect" /\ on'[h] = on[h])
      BY <2>1, GotoStep, Zenon DEF Release
    <3>. QED BY <1>2, <3>1, Zenon DEF HolderOK, Leased, Gated
  <2>2. CASE Disconnect(h)
    <3>1. pc'[h] = "idle"
      BY <2>2, GotoStep DEF Disconnect
    <3>. QED BY <3>1, Zenon DEF HolderOK, Leased, Gated
  <2>3. CASE Goto(h, "found", "sending") /\ Lease(h, on[h])
    <3>1. pc[h] = "found" /\ pc'[h] = "sending" /\ on'[h] = on[h] /\ of'[h] = of[h]
      BY <2>3, GotoStep
    <3>2. gate[on[h]] = "open" /\ h \in leases'[on[h]]
      BY <1>2, <2>3, Zenon DEF Lease, TypeOK, GateTypeOK
    <3>. QED BY <1>1, <1>2, <3>1, <3>2, Zenon DEF HolderOK, Leased, Gated, sessionVars
  <2>4. CASE Goto(h, "found", "idle")
    <3>1. pc'[h] = "idle"
      BY <2>4, GotoStep, Zenon
    <3>. QED BY <3>1, Zenon DEF HolderOK, Leased, Gated
  <2>. QED BY <2>1, <2>2, <2>3, <2>4, Zenon DEF sendToInstance
<1>6. ASSUME NEW g \in Holders, g # h
      PROVE  HolderOK(g)'
  <2>1. HolderOK(g)
    BY Zenon DEF Inv, HolderInv
  <2>2. Others(h)
    BY GotoStep, Zenon DEF Release, Disconnect, sendToInstance
  <2>3. \A s \in Sessions : g \in leases[s] => g \in leases'[s]
    <3>1. CASE Release(h)
      BY <1>2, <1>6, <3>1, Zenon DEF Release, EndLeases, TypeOK, GateTypeOK
    <3>2. CASE Disconnect(h)
      BY <3>2, Zenon DEF Disconnect, Shut, gateVars
    <3>3. CASE sendToInstance(h)
      BY <1>2, <3>3 DEF sendToInstance, Lease, gateVars, TypeOK, GateTypeOK
    <3>. QED BY <3>1, <3>2, <3>3, Zenon
  <2>. QED BY <1>1, <1>3, <1>6, <2>1, <2>2, <2>3, HolderFrame, Zenon DEF Others, sessionVars
<1>. QED
  BY <1>3, <1>4, <1>5, <1>6, Zenon DEF Inv, HolderInv

-----------------------------------------------------------------------------
\* Every step preserves the invariant.
LEMMA InvNext ==
    ASSUME TypeOK, Inv, [Next]_vars
    PROVE  Inv'
<1>1. CASE UNCHANGED vars
  BY <1>1 DEF vars, gateVars, sessionVars, procVars, callVars, Inv, GateInv, OwnerInv, HolderInv, HolderOK, CallInv
<1>2. CASE Next
  BY <1>2, ManagerStep, CallerStep, ReleaseStep, BeginStep, EnterStep, ClaimStep, MessageStep, LeaveStep, LeaseStep, Zenon
     DEF Next, Message
<1>. QED
  BY <1>1, <1>2, Zenon

\* The types of SessionOwnership and its inductive invariant hold in every
\* reachable state: a UID has one owner and an owner one UID, an owner is a
\* session that has not been released, and every message and every push under
\* way holds its lease, alone in messageGate, on the owner of its UID.
THEOREM OwnershipInvariant == Spec => [](TypeOK /\ Inv)
<1>1. Init => TypeOK /\ Inv
  BY TypeInit, InvInit, Zenon
<1>2. TypeOK /\ Inv /\ [Next]_vars => (TypeOK /\ Inv)'
  BY TypeNext, InvNext, Zenon DEF Inv
<1>. QED
  BY <1>1, <1>2, PTL DEF Spec

\* conns, the admitted sessions and the registry of instances agree about who
\* owns a UID, whatever messages, releases and revocations interleave.
THEOREM OwnersAgreeAlways == Spec => []OwnersAgree
<1>1. TypeOK /\ Inv => OwnersAgree
  BY Zenon DEF Inv, OwnerInv, OwnersAgree, TypeOK
<1>. QED
  BY <1>1, OwnershipInvariant, PTL

\* sendToInstance: a push is sent on the session that owns its UID for as long as
\* the send takes, although the lookup and the lease are separate steps.
THEOREM PushReachesOwnerAlways == Spec => []PushReachesOwner
<1>1. Inv => PushReachesOwner
  BY Zenon DEF Inv, HolderInv, HolderOK, PushReachesOwner
<1>. QED
  BY <1>1, OwnershipInvariant, PTL

\* handleRevokeOpAMPToken: when a revocation has returned, no session of the token
\* is admitted, leased or the owner of a UID, and none will be again.
THEOREM RevokeIsFinalAlways == Spec => []RevokeIsFinal
<1>1. ASSUME TypeOK, Inv, NEW c \in Callers, call[c] = "returned", NEW s \in SessionsOf(tok[c])
      PROVE  s \notin admitted /\ leases[s] = {} /\ \A u \in UIDs : conns[u] # s
  <2>1. s \in Sessions /\ closed[TokenOf[s]] = "done"
    BY <1>1, Zenon DEF Inv, CallInv, SessionsOf
  <2>2. gate[s] \in {"new", "over"} /\ leases[s] = {}
    BY <2>1, <1>1 DEF Inv, GateInv, TypeOK, GateTypeOK
  <2>3. \A u \in UIDs : conns[u] # s
    BY <2>1, <2>2, <1>1, Zenon DEF Inv, OwnerInv
  <2>. QED BY <1>1, <2>1, <2>2, <2>3 DEF Inv, OwnerInv
<1>2. TypeOK /\ Inv => RevokeIsFinal
  BY <1>1, Zenon DEF RevokeIsFinal
<1>. QED
  BY <1>2, OwnershipInvariant, PTL

\* processSessionMessage: once a message of a session has failed, no other message
\* of that session is handled.
THEOREM TerminalIsFinalAlways == Spec => TerminalIsFinal
<1>1. ASSUME TypeOK, Inv, [Next]_vars, NEW h \in Holders, pc[h] # "handle", pc'[h] = "handle"
      PROVE  on[h] \notin terminal
  <2>1. pc[h] \in {"claim", "admit"}
    <3>1. CASE UNCHANGED vars
      BY <1>1, <3>1, Zenon DEF vars, procVars
    <3>2. CASE UNCHANGED procVars
      BY <1>1, <3>2, Zenon DEF procVars
    <3>3. ASSUME NEW g \in Holders, Message(g)
          PROVE  pc[h] \in {"claim", "admit"}
      <4>1. Others(g) /\ (pc'[g] = "handle" => pc[g] \in {"claim", "admit"})
        <5>1. CASE EnterMessage(g) \/ processSessionMessage(g)
          BY <1>1, <5>1, GotoStep DEF EnterMessage, processSessionMessage
        <5>2. CASE MarkOpAMPTokenUsed(g) \/ AdmitSession(g) \/ handleAcceptedMessage(g) \/ LeaveMessage(g)
          BY <1>1, <5>2, GotoStep DEF MarkOpAMPTokenUsed, AdmitSession, handleAcceptedMessage, LeaveMessage
        <5>3. CASE Release(g) \/ Disconnect(g) \/ sendToInstance(g)
          BY <1>1, <5>3, GotoStep DEF Release, Disconnect, sendToInstance
        <5>4. CASE LookupConn(g)
          BY <1>1, <5>4, GotoStep, AtStep DEF LookupConn
        <5>. QED BY <3>3, <5>1, <5>2, <5>3, <5>4, Zenon DEF Message
      <4>. QED BY <1>1, <4>1, Zenon DEF Others
    <3>4. ASSUME NEW g \in Holders,
                 \/ \E s \in Sessions, u \in UIDs \cup {NoUID} : onSessionMessage(g, s, u)
                 \/ \E u \in UIDs : PushConfig(g, u)
          PROVE  pc[h] \in {"claim", "admit"}
      <4>1. Others(g) /\ pc'[g] # "handle"
        BY <1>1, <3>4, AtStep, Zenon DEF onSessionMessage, PushConfig
      <4>. QED BY <1>1, <4>1, Zenon DEF Others
    <3>. QED
      BY <1>1, <3>1, <3>2, <3>3, <3>4, Zenon DEF Next, authenticateRequest, OnConnected,
         OnConnectionClose, releaseSession, TokenExpires, handleRevokeOpAMPToken, Disable, Returns, CloseTokens
  <2>. QED BY <1>1, <2>1, Zenon DEF Inv, HolderInv, HolderOK, Gated
<1>2. TypeOK /\ Inv /\ [Next]_vars
         => [\A h \in Holders : pc[h] # "handle" /\ pc'[h] = "handle" => on[h] \notin terminal]_vars
  BY <1>1, Zenon
<1>. QED
  BY <1>2, OwnershipInvariant, PTL DEF Spec, TerminalIsFinal

-----------------------------------------------------------------------------
(* The rows of the workloads, their registry, grace timers and message     *)
(* handlers.                                                               *)

HIDE OwnershipAssumption

CONSTANTS Workloads, WorkloadsOf, NoWorkload, TimerIds, NoTimer, Healths, MayRestart, StoreFails

VARIABLES byWorkload, uidToWL, unhealthy, timers, entry, shownRow, step, wl, read, tail, tailWL, archiving

Wl == INSTANCE WorkloadLifecycle WITH row <- shownRow, pc <- step

\* What the models of the component assume of their constants.
LifecycleConstants ==
    /\ WorkloadsOf \in [UIDs -> SUBSET Workloads]
    /\ NoWorkload \notin Workloads /\ NoTimer \notin TimerIds
    /\ Healths \subseteq BOOLEAN

---------------------------------------------------------------------------
(* The inductive invariant *)

\* A handler works for the workload its agent is bound to.
BoundInv ==
    \A u \in UIDs : step[u] \notin {"closed", "open"} => wl[u] \in Workloads /\ wl[u] = uidToWL[u]

\* What is about to be written was merged while the agent was bound.
MergedInv == \A u \in UIDs : step[u] \in {"upsert", "rewrite"} => read[u].status # "disconnected"

\* The map holds armed timers of their own workload that nobody has replaced,
\* and only an armed timer can have been replaced.
TimerInv ==
    /\ \A w \in Workloads : timers[w] # NoTimer =>
          entry[timers[w]].of = w /\ entry[timers[w]].at = "armed" /\ ~ entry[timers[w]].superseded
    /\ \A i \in TimerIds : entry[i].at # "free" => entry[i].of \in Workloads
    /\ Wl!SupersededNeverRuns

\* The rest of a release knows the workload it is about.
TailInv ==
    \A u \in UIDs : /\ tail[u] = "idle" => tailWL[u] = NoWorkload
                    /\ tail[u] # "idle" => tailWL[u] \in Workloads

LifecycleInv == Wl!RegistryConsistent /\ BoundInv /\ MergedInv /\ TimerInv /\ TailInv

\* Every UID describes itself as one workload at most, the server stays up and
\* its writes succeed: what DisconnectIsAttended needs of the world.
SteadyWorld ==
    /\ \A u \in UIDs : \A v, w \in WorkloadsOf[u] : v = w
    /\ ~ MayRestart /\ ~ StoreFails

\* An agent is bound to what it describes itself as.
DescribedInv == \A u \in UIDs : uidToWL[u] # NoWorkload => uidToWL[u] \in WorkloadsOf[u]
---------------------------------------------------------------------------
(* Types *)

LEMMA LifecycleTypeInit ==
    ASSUME LifecycleConstants, Wl!Init
    PROVE  Wl!TypeOK
BY Zenon DEF Wl!Init, Wl!Memory, Wl!Started, Wl!TypeOK, Wl!Absent, Wl!Free, Wl!Rows, LifecycleConstants

\* A workload without instances is disconnected; one with instances is not.
LEMMA StatusOf ==
    ASSUME NEW w \in Workloads
    PROVE  /\ Wl!AggregatedStatus(w) \in {"connected", "degraded", "disconnected"}
           /\ byWorkload[w] # {} => Wl!AggregatedStatus(w) # "disconnected"
BY Zenon DEF Wl!AggregatedStatus

Entries == [of : Workloads \cup {NoWorkload}, at : {"free", "armed", "count", "mark"}, superseded : BOOLEAN]

\* What the statements of the store make of a row.
LEMMA RowUpdates ==
    ASSUME NEW r \in Wl!Rows
    PROVE  /\ [r EXCEPT !.retention = FALSE] \in Wl!Rows /\ [r EXCEPT !.archived = TRUE] \in Wl!Rows
           /\ [r EXCEPT !.status = "disconnected", !.retention = TRUE] \in Wl!Rows
           /\ [r EXCEPT !.status = "disconnected", !.retention = TRUE, !.archived = TRUE] \in Wl!Rows
BY Zenon DEF Wl!Rows

\* What becomes of a timer.
LEMMA EntryUpdates ==
    ASSUME NEW x \in Entries
    PROVE  /\ [x EXCEPT !.superseded = TRUE] \in Entries
           /\ [x EXCEPT !.at = "count"] \in Entries /\ [x EXCEPT !.at = "mark"] \in Entries
BY Zenon DEF Entries

\* What Stopped leaves of the entries has their type.
LEMMA StoppedType ==
    ASSUME LifecycleConstants, Wl!TypeOK, NEW w \in Workloads, NEW e \in Wl!Stopped(w)
    PROVE  e \in [TimerIds -> Entries]
<1>0. entry \in [TimerIds -> Entries] /\ Wl!Free \in Entries
  BY Zenon DEF Wl!TypeOK, Entries, Wl!Free
<1>1. CASE timers[w] = NoTimer
  BY <1>0, <1>1, Zenon DEF Wl!Stopped
<1>2. CASE timers[w] # NoTimer
  <2>1. timers[w] \in TimerIds
    BY <1>2, Zenon DEF Wl!TypeOK
  <2>2. [entry[timers[w]] EXCEPT !.superseded = TRUE] \in Entries
    BY <1>0, <2>1, EntryUpdates, Zenon
  <2>. QED BY <1>0, <1>2, <2>1, <2>2, Zenon DEF Wl!Stopped
<1>. QED BY <1>1, <1>2, Zenon

\* Steps of handlers: a message is read from its row, merged and written back.
LEMMA TypeHandle ==
    ASSUME LifecycleConstants, Wl!TypeOK, BoundInv, NEW u \in UIDs, Wl!Handle(u)
    PROVE  Wl!TypeOK'
<1>1. CASE Wl!CancelGrace(u)
  <2>1. wl[u] \in Workloads
    BY <1>1, Zenon DEF Wl!CancelGrace, Wl!Step, BoundInv
  <2>2. entry' \in [TimerIds -> Entries]
    BY <1>1, <2>1, StoppedType, Zenon DEF Wl!CancelGrace, Wl!Cancel
  <2>3. timers' \in [Workloads -> TimerIds \cup {NoTimer}]
    BY <1>1, <2>1, Zenon DEF Wl!CancelGrace, Wl!Cancel, Wl!TypeOK
  <2>. QED BY <1>1, <2>2, <2>3, Zenon DEF Wl!CancelGrace, Wl!Step, Wl!TypeOK, Entries, Wl!registryVars, Wl!tailVars
<1>2. ASSUME NEW from \in {"load", "refresh", "report"}, NEW to \in {"merge", "aggregate", "store"},
             NEW without \in {"merge", "report"}, Wl!GetWorkload(u, from, to, without)
      PROVE  Wl!TypeOK'
  <2>1. wl[u] \in Workloads
    BY <1>2, Zenon DEF Wl!GetWorkload, Wl!Step, BoundInv
  <2>. QED BY <1>2, <2>1, Zenon DEF Wl!GetWorkload, Wl!Step, Wl!TypeOK, Wl!registryVars, Wl!graceVars, Wl!tailVars
<1>3. ASSUME NEW from \in {"merge", "aggregate"}, NEW to \in {"upsert", "rewrite"}, NEW r \in Wl!Rows,
             Wl!Merge(u, from, to, r)
      PROVE  Wl!TypeOK'
  <2>1. wl[u] \in Workloads
    BY <1>3, Zenon DEF Wl!Merge, Wl!Step, BoundInv
  <2>2. [r EXCEPT !.exists = TRUE, !.status = Wl!AggregatedStatus(wl[u])] \in Wl!Rows
    BY <2>1, StatusOf, Zenon DEF Wl!Rows
  <2>. QED BY <1>3, <2>2, Zenon DEF Wl!Merge, Wl!Step, Wl!TypeOK, Wl!registryVars, Wl!graceVars, Wl!tailVars
<1>4. ASSUME NEW from \in {"upsert", "rewrite", "store"}, NEW to \in {"clear", "report"},
             NEW failed \in {"refresh", "report"}, Wl!UpsertWorkload(u, from, to, failed)
      PROVE  Wl!TypeOK'
  <2>1. wl[u] \in Workloads
    BY <1>4, Zenon DEF Wl!UpsertWorkload, Wl!Step, BoundInv
  <2>2. shownRow' \in [Workloads -> Wl!Rows]
    BY <1>4, <2>1, Zenon DEF Wl!UpsertWorkload, Wl!TypeOK
  <2>. QED BY <1>4, <2>2, Zenon DEF Wl!UpsertWorkload, Wl!Step, Wl!TypeOK, Wl!registryVars, Wl!graceVars, Wl!tailVars
<1>5. CASE Wl!ClearWorkloadRetention(u)
  <2>1. wl[u] \in Workloads
    BY <1>5, Zenon DEF Wl!ClearWorkloadRetention, Wl!Step, BoundInv
  <2>2. shownRow' \in [Workloads -> Wl!Rows]
    <3>1. shownRow \in [Workloads -> Wl!Rows] /\ [shownRow[wl[u]] EXCEPT !.retention = FALSE] \in Wl!Rows
      BY <2>1, RowUpdates, Zenon DEF Wl!TypeOK
    <3>. QED BY <1>5, <2>1, <3>1, Zenon DEF Wl!ClearWorkloadRetention
  <2>. QED BY <1>5, <2>2, Zenon DEF Wl!ClearWorkloadRetention, Wl!Step, Wl!TypeOK, Wl!registryVars, Wl!graceVars, Wl!tailVars
<1>6. CASE /\ Wl!Step(u, "report", "open")
           /\ wl' = [wl EXCEPT ![u] = NoWorkload] /\ read' = [read EXCEPT ![u] = Wl!Absent]
           /\ UNCHANGED <<Wl!registryVars, Wl!graceVars, shownRow, Wl!tailVars, archiving>>
  BY <1>6, Zenon DEF Wl!Step, Wl!TypeOK, Wl!Rows, Wl!Absent, Wl!registryVars, Wl!graceVars, Wl!tailVars
<1>7. CASE Wl!upsertWorkloadFromDescription(u)
  <2>1. read[u] \in Wl!Rows /\ [read[u] EXCEPT !.retention = FALSE] \in Wl!Rows
    BY RowUpdates, Zenon DEF Wl!TypeOK
  <2>. QED BY <1>2, <1>3, <1>4, <1>7, <2>1, Zenon DEF Wl!upsertWorkloadFromDescription
<1>8. CASE Wl!refreshWorkloadState(u)
  <2>1. read[u] \in Wl!Rows
    BY Zenon DEF Wl!TypeOK
  <2>. QED BY <1>2, <1>3, <1>4, <1>8, <2>1, Zenon DEF Wl!refreshWorkloadState
<1>9. CASE Wl!recordRemoteConfigStatus(u)
  BY <1>2, <1>4, <1>6, <1>9, Zenon DEF Wl!recordRemoteConfigStatus
<1>. QED
  BY <1>1, <1>5, <1>7, <1>8, <1>9, Zenon DEF Wl!Handle

\* Connections come and go.
LEMMA TypeConnection ==
    ASSUME LifecycleConstants, Wl!TypeOK, TailInv, NEW u \in UIDs,
           \/ Wl!Connect(u) \/ Wl!releaseSession(u) \/ Wl!CountRemaining(u) \/ Wl!ScheduleGrace(u)
           \/ \E w \in WorkloadsOf[u], h \in Healths : Wl!handleAgentDescription(u, w, h)
           \/ \E h \in Healths : Wl!handleKnownInstanceUpdate(u, h)
    PROVE  Wl!TypeOK'
<1>1. CASE Wl!Connect(u)
  BY <1>1, Zenon DEF Wl!Connect, Wl!Step, Wl!TypeOK, Wl!registryVars, Wl!graceVars, Wl!tailVars
<1>2. CASE Wl!releaseSession(u)
  BY <1>2, Zenon DEF Wl!releaseSession, Wl!Step, Wl!UnbindInstance, Wl!TypeOK, Wl!graceVars, Wl!tailVars
<1>3. CASE Wl!CountRemaining(u)
  BY <1>3, Zenon DEF Wl!CountRemaining, Wl!EndTail, Wl!TypeOK, Wl!registryVars, Wl!graceVars, Wl!handlerVars
<1>4. CASE Wl!ScheduleGrace(u)
  <2>1. tailWL[u] \in Workloads
    BY <1>4, Zenon DEF Wl!ScheduleGrace, TailInv
  <2>2. PICK e \in Wl!Stopped(tailWL[u]), i \in TimerIds :
            /\ entry' = [e EXCEPT ![i] = [of |-> tailWL[u], at |-> "armed", superseded |-> FALSE]]
            /\ timers' = [timers EXCEPT ![tailWL[u]] = i]
    BY <1>4, Zenon DEF Wl!ScheduleGrace, Wl!Schedule
  <2>3. entry' \in [TimerIds -> Entries]
    <3>1. [of |-> tailWL[u], at |-> "armed", superseded |-> FALSE] \in Entries
      BY <2>1, Zenon DEF Entries
    <3>2. e \in [TimerIds -> Entries]
      BY <2>1, <2>2, StoppedType, Zenon
    <3>. QED BY <2>2, <3>1, <3>2, Zenon
  <2>4. timers' \in [Workloads -> TimerIds \cup {NoTimer}]
    BY <2>1, <2>2, Zenon DEF Wl!TypeOK
  <2>. QED BY <1>4, <2>3, <2>4, Zenon DEF Wl!ScheduleGrace, Wl!EndTail, Wl!TypeOK, Entries, Wl!registryVars, Wl!handlerVars
<1>5. ASSUME NEW w \in WorkloadsOf[u], NEW h \in Healths, Wl!handleAgentDescription(u, w, h)
      PROVE  Wl!TypeOK'
  <2>1. w \in Workloads
    BY Zenon DEF LifecycleConstants
  <2>. QED BY <1>5, <2>1, Zenon
           DEF Wl!handleAgentDescription, Wl!Step, Wl!BindInstance, Wl!Health, Wl!TypeOK, Wl!graceVars, Wl!tailVars
<1>6. ASSUME NEW h \in Healths, Wl!handleKnownInstanceUpdate(u, h)
      PROVE  Wl!TypeOK'
  BY <1>6, Zenon DEF Wl!handleKnownInstanceUpdate, Wl!Step, Wl!Health, Wl!TypeOK, Wl!graceVars, Wl!tailVars
<1>. QED
  BY <1>1, <1>2, <1>3, <1>4, <1>5, <1>6, Zenon
\* Timers and rows.
LEMMA TypeRest ==
    ASSUME LifecycleConstants, Wl!TypeOK, TimerInv,
           \/ \E i \in TimerIds : Wl!GraceFires(i) \/ Wl!GraceCounts(i) \/ Wl!GraceMarks(i)
           \/ \E w \in Workloads : Wl!RunOnce(w) \/ Wl!handleArchiveWorkload(w) \/ Wl!handleDeleteWorkload(w)
           \/ Wl!ArchiveWorkload \/ Wl!Restart
    PROVE  Wl!TypeOK'
<1>0. /\ entry \in [TimerIds -> Entries] /\ Wl!Free \in Entries
      /\ shownRow \in [Workloads -> Wl!Rows] /\ Wl!Absent \in Wl!Rows
  BY Zenon DEF Wl!TypeOK, Entries, Wl!Free, Wl!Rows, Wl!Absent
<1>1. ASSUME NEW i \in TimerIds, Wl!GraceFires(i)
      PROVE  Wl!TypeOK'
  <2>1. entry[i].of \in Workloads
    BY <1>1, Zenon DEF Wl!GraceFires, TimerInv
  <2>2. [entry[i] EXCEPT !.at = "count"] \in Entries
    BY <1>0, EntryUpdates, Zenon
  <2>3. entry' \in [TimerIds -> Entries]
    BY <1>0, <1>1, <2>2, Zenon DEF Wl!GraceFires
  <2>4. timers' \in [Workloads -> TimerIds \cup {NoTimer}]
    BY <1>1, <2>1, Zenon DEF Wl!GraceFires, Wl!TypeOK
  <2>. QED BY <1>1, <2>3, <2>4, Zenon DEF Wl!GraceFires, Wl!TypeOK, Entries, Wl!registryVars, Wl!handlerVars, Wl!tailVars
<1>2. ASSUME NEW i \in TimerIds, Wl!GraceCounts(i)
      PROVE  Wl!TypeOK'
  <2>1. [entry[i] EXCEPT !.at = "mark"] \in Entries
    BY <1>0, EntryUpdates, Zenon
  <2>2. entry' \in [TimerIds -> Entries]
    BY <1>0, <1>2, <2>1, Zenon DEF Wl!GraceCounts
  <2>. QED BY <1>2, <2>2, Zenon DEF Wl!GraceCounts, Wl!TypeOK, Entries, Wl!registryVars, Wl!handlerVars, Wl!tailVars
<1>3. ASSUME NEW i \in TimerIds, Wl!GraceMarks(i)
      PROVE  Wl!TypeOK'
  <2>1. entry[i].of \in Workloads
    BY <1>3, Zenon DEF Wl!GraceMarks, TimerInv
  <2>2. [shownRow[entry[i].of] EXCEPT !.status = "disconnected", !.retention = TRUE] \in Wl!Rows
    BY <1>0, <2>1, RowUpdates, Zenon
  <2>3. shownRow' \in [Workloads -> Wl!Rows]
    BY <1>0, <1>3, <2>1, <2>2, Zenon DEF Wl!GraceMarks
  <2>4. entry' \in [TimerIds -> Entries]
    BY <1>0, <1>3, Zenon DEF Wl!GraceMarks
  <2>. QED BY <1>3, <2>3, <2>4, Zenon DEF Wl!GraceMarks, Wl!TypeOK, Entries, Wl!registryVars, Wl!handlerVars, Wl!tailVars
<1>4. ASSUME NEW w \in Workloads, Wl!RunOnce(w) \/ Wl!handleDeleteWorkload(w)
      PROVE  Wl!TypeOK'
  <2>1. [shownRow[w] EXCEPT !.archived = TRUE] \in Wl!Rows
    BY <1>0, RowUpdates, Zenon
  <2>2. shownRow' \in [Workloads -> Wl!Rows]
    BY <1>0, <1>4, <2>1, Zenon DEF Wl!RunOnce, Wl!handleDeleteWorkload
  <2>. QED BY <1>4, <2>2, Zenon
           DEF Wl!RunOnce, Wl!handleDeleteWorkload, Wl!TypeOK, Wl!registryVars, Wl!graceVars, Wl!handlerVars, Wl!tailVars
<1>5. ASSUME NEW w \in Workloads, Wl!handleArchiveWorkload(w)
      PROVE  Wl!TypeOK'
  BY <1>5, Zenon DEF Wl!handleArchiveWorkload, Wl!TypeOK, Wl!registryVars, Wl!graceVars, Wl!handlerVars, Wl!tailVars
<1>6. CASE Wl!ArchiveWorkload
  <2>1. archiving \in Workloads
    BY <1>6, Zenon DEF Wl!ArchiveWorkload, Wl!TypeOK
  <2>2. [shownRow[archiving] EXCEPT !.status = "disconnected", !.retention = TRUE, !.archived = TRUE] \in Wl!Rows
    BY <1>0, <2>1, RowUpdates, Zenon
  <2>3. shownRow' \in [Workloads -> Wl!Rows]
    BY <1>0, <1>6, <2>1, <2>2, Zenon DEF Wl!ArchiveWorkload
  <2>. QED BY <1>6, <2>3, Zenon DEF Wl!ArchiveWorkload, Wl!TypeOK, Wl!registryVars, Wl!graceVars, Wl!handlerVars, Wl!tailVars
<1>7. CASE Wl!Restart
  BY <1>7, Zenon DEF Wl!Restart, Wl!Memory, Wl!Started, Wl!TypeOK, Wl!Absent, Wl!Free, Wl!Rows, LifecycleConstants
<1>. QED
  BY <1>1, <1>2, <1>3, <1>4, <1>5, <1>6, <1>7, Zenon

LEMMA LifecycleTypeNext ==
    ASSUME LifecycleConstants, Wl!TypeOK, LifecycleInv, [Wl!Next]_(Wl!vars)
    PROVE  Wl!TypeOK'
<1>1. CASE Wl!Next
  BY <1>1, TypeHandle, TypeConnection, TypeRest, Zenon DEF Wl!Next, LifecycleInv
<1>2. CASE UNCHANGED Wl!vars
  BY <1>2, Zenon DEF Wl!vars, Wl!TypeOK, Wl!registryVars, Wl!graceVars, Wl!handlerVars, Wl!tailVars
<1>. QED
  BY <1>1, <1>2, Zenon
---------------------------------------------------------------------------
(* The invariant, action by action *)

LEMMA LifecycleInit ==
    ASSUME LifecycleConstants, Wl!Init
    PROVE  LifecycleInv /\ DescribedInv /\ Wl!DisconnectIsAttended
<1>1. Wl!RegistryConsistent /\ BoundInv /\ MergedInv /\ DescribedInv
  BY Zenon DEF Wl!Init, Wl!Memory, Wl!Started, Wl!RegistryConsistent, BoundInv, MergedInv, DescribedInv, LifecycleConstants
<1>2. TimerInv /\ TailInv
  BY Zenon DEF Wl!Init, Wl!Memory, Wl!Started, Wl!Free, TimerInv, TailInv, Wl!SupersededNeverRuns
<1>3. Wl!DisconnectIsAttended
  BY Zenon DEF Wl!Init, Wl!Absent, Wl!DisconnectIsAttended, Wl!Unshown
<1>. QED
  BY <1>1, <1>2, <1>3, Zenon DEF LifecycleInv

\* An agent whose message is being processed is in the bucket of its workload.
LEMMA HandlerIsBound ==
    ASSUME LifecycleInv, NEW u \in UIDs, step[u] \notin {"closed", "open"}
    PROVE  wl[u] \in Workloads /\ u \in byWorkload[wl[u]]
BY Zenon DEF LifecycleInv, BoundInv, Wl!RegistryConsistent

\* A timer that is stopped is not in the map any more.
LEMMA CancelTimers ==
    ASSUME LifecycleConstants, Wl!TypeOK, TimerInv, NEW w \in Workloads, NEW e \in Wl!Stopped(w)
    PROVE  /\ \A v \in Workloads : v # w /\ timers[v] # NoTimer => e[timers[v]] = entry[timers[v]]
           /\ \A i \in TimerIds : e[i].at # "free" => e[i].of \in Workloads
           /\ \A i \in TimerIds : e[i].superseded => e[i].at = "armed"
           /\ \A i \in TimerIds : entry[i].at \in {"count", "mark"} => e[i] = entry[i]
<1>1. CASE timers[w] = NoTimer
  BY <1>1 DEF Wl!Stopped, TimerInv, Wl!SupersededNeverRuns
<1>2. CASE timers[w] # NoTimer
  <2>1. PICK j \in TimerIds : j = timers[w]
    BY <1>2, Zenon DEF Wl!TypeOK
  <2>2. entry[j].of = w /\ entry[j].at = "armed"
    BY <1>2, <2>1, Zenon DEF TimerInv
  <2>3. \A v \in Workloads : v # w /\ timers[v] # NoTimer => timers[v] # j
    BY <2>2, Zenon DEF TimerInv
  <2>4. \A i \in TimerIds : i # j => e[i] = entry[i]
    BY <1>2, <2>1, Zenon DEF Wl!Stopped, Wl!TypeOK
  <2>5. e[j] = Wl!Free \/ e[j] = [entry[j] EXCEPT !.superseded = TRUE]
    BY <1>2, <2>1, Zenon DEF Wl!Stopped, Wl!TypeOK
  <2>6. /\ e[j].at # "free" => e[j].of \in Workloads
        /\ e[j].superseded => e[j].at = "armed"
    <3>1. entry[j] \in Entries
      BY Zenon DEF Wl!TypeOK, Entries
    <3>. QED BY <2>2, <2>5, <3>1 DEF Wl!Free, Entries
  <2>7. \A v \in Workloads : timers[v] # NoTimer => timers[v] \in TimerIds
    BY Zenon DEF Wl!TypeOK
  <2>. QED BY <2>2, <2>3, <2>4, <2>6, <2>7, Zenon DEF TimerInv, Wl!SupersededNeverRuns
<1>. QED
  BY <1>1, <1>2, Zenon

\* A step of a handler keeps its binding until the message is done.
LEMMA InvHandlerStep ==
    ASSUME Wl!TypeOK, LifecycleInv, NEW u \in UIDs, NEW from, NEW to, Wl!Step(u, from, to), from \notin {"closed", "open"},
           UNCHANGED Wl!registryVars, UNCHANGED Wl!tailVars, TimerInv',
           \A v \in UIDs : v # u => wl'[v] = wl[v] /\ read'[v] = read[v],
           to # "open" => wl'[u] = wl[u],
           to \in {"upsert", "rewrite"} => read'[u].status # "disconnected"
    PROVE  LifecycleInv'
<1>1. step[u] = from /\ step'[u] = to /\ \A v \in UIDs : v # u => step'[v] = step[v]
  BY Zenon DEF Wl!Step, Wl!TypeOK
<1>2. BoundInv'
  BY <1>1, Zenon DEF LifecycleInv, BoundInv, Wl!registryVars
<1>3. MergedInv'
  BY <1>1, Zenon DEF LifecycleInv, MergedInv
<1>4. Wl!RegistryConsistent' /\ TailInv'
  BY Zenon DEF LifecycleInv, Wl!RegistryConsistent, TailInv, Wl!registryVars, Wl!tailVars
<1>. QED
  BY <1>2, <1>3, <1>4, Zenon DEF LifecycleInv

LEMMA TimersKept ==
    ASSUME TimerInv, UNCHANGED Wl!graceVars
    PROVE  TimerInv'
BY Zenon DEF TimerInv, Wl!SupersededNeverRuns, Wl!graceVars

LEMMA InvHandle ==
    ASSUME LifecycleConstants, Wl!TypeOK, LifecycleInv, NEW u \in UIDs, Wl!Handle(u)
    PROVE  LifecycleInv'
<1>1. CASE Wl!CancelGrace(u)
  <2>1. wl[u] \in Workloads
    BY <1>1, HandlerIsBound, Zenon DEF Wl!CancelGrace, Wl!Step
  <2>2. /\ timers'[wl[u]] = NoTimer /\ entry' \in Wl!Stopped(wl[u])
        /\ \A v \in Workloads : v # wl[u] => timers'[v] = timers[v]
    BY <1>1, <2>1, Zenon DEF Wl!CancelGrace, Wl!Cancel, Wl!TypeOK
  <2>3. TimerInv'
    BY <2>1, <2>2, CancelTimers DEF LifecycleInv, TimerInv, Wl!SupersededNeverRuns
  <2>. QED BY <1>1, <2>3, InvHandlerStep, Zenon DEF Wl!CancelGrace
<1>2. ASSUME NEW from \in {"load", "refresh", "report"}, NEW to \in {"merge", "aggregate", "store"},
             NEW without \in {"merge", "report"}, Wl!GetWorkload(u, from, to, without)
      PROVE  LifecycleInv'
  <2>1. TimerInv'
    BY <1>2, TimersKept, Zenon DEF Wl!GetWorkload, LifecycleInv
  <2>2. PICK next \in {"merge", "aggregate", "store", "report"} : Wl!Step(u, from, next)
    BY <1>2, Zenon DEF Wl!GetWorkload
  <2>3. \A v \in UIDs : v # u => wl'[v] = wl[v] /\ read'[v] = read[v]
    BY <1>2, Zenon DEF Wl!GetWorkload, Wl!TypeOK
  <2>. QED BY <1>2, <2>1, <2>2, <2>3, InvHandlerStep, Zenon DEF Wl!GetWorkload
<1>3. ASSUME NEW from \in {"merge", "aggregate"}, NEW to \in {"upsert", "rewrite"}, NEW r \in Wl!Rows,
             Wl!Merge(u, from, to, r)
      PROVE  LifecycleInv'
  <2>1. TimerInv'
    BY <1>3, TimersKept, Zenon DEF Wl!Merge, LifecycleInv
  <2>2. wl[u] \in Workloads /\ byWorkload[wl[u]] # {}
    BY <1>3, HandlerIsBound, Zenon DEF Wl!Merge, Wl!Step
  <2>3. Wl!AggregatedStatus(wl[u]) # "disconnected"
    BY <2>2, StatusOf, Zenon
  <2>4. read'[u].status = Wl!AggregatedStatus(wl[u])
    BY <1>3, Zenon DEF Wl!Merge, Wl!TypeOK, Wl!Rows
  <2>5. \A v \in UIDs : v # u => wl'[v] = wl[v] /\ read'[v] = read[v]
    BY <1>3, Zenon DEF Wl!Merge, Wl!TypeOK
  <2>. QED BY <1>3, <2>1, <2>3, <2>4, <2>5, InvHandlerStep, Zenon DEF Wl!Merge
<1>4. ASSUME NEW from \in {"upsert", "rewrite", "store"}, NEW to \in {"clear", "report"},
             NEW failed \in {"refresh", "report"}, Wl!UpsertWorkload(u, from, to, failed)
      PROVE  LifecycleInv'
  <2>1. TimerInv'
    BY <1>4, TimersKept, Zenon DEF Wl!UpsertWorkload, LifecycleInv
  <2>2. PICK next \in {"clear", "refresh", "report"} : Wl!Step(u, from, next)
    BY <1>4, Zenon DEF Wl!UpsertWorkload
  <2>. QED BY <1>4, <2>1, <2>2, InvHandlerStep, Zenon DEF Wl!UpsertWorkload
<1>5. CASE Wl!ClearWorkloadRetention(u)
  <2>1. TimerInv'
    BY <1>5, TimersKept, Zenon DEF Wl!ClearWorkloadRetention, LifecycleInv
  <2>. QED BY <1>5, <2>1, InvHandlerStep, Zenon DEF Wl!ClearWorkloadRetention
<1>6. CASE /\ Wl!Step(u, "report", "open")
           /\ wl' = [wl EXCEPT ![u] = NoWorkload] /\ read' = [read EXCEPT ![u] = Wl!Absent]
           /\ UNCHANGED <<Wl!registryVars, Wl!graceVars, shownRow, Wl!tailVars, archiving>>
  <2>1. TimerInv'
    BY <1>6, TimersKept, Zenon DEF LifecycleInv
  <2>2. \A v \in UIDs : v # u => wl'[v] = wl[v] /\ read'[v] = read[v]
    BY <1>6, Zenon DEF Wl!TypeOK
  <2>. QED BY <1>6, <2>1, <2>2, InvHandlerStep, Zenon
<1>7. CASE Wl!upsertWorkloadFromDescription(u)
  <2>1. read[u] \in Wl!Rows /\ [read[u] EXCEPT !.retention = FALSE] \in Wl!Rows
    BY RowUpdates, Zenon DEF Wl!TypeOK
  <2>. QED BY <1>2, <1>3, <1>4, <1>7, <2>1, Zenon DEF Wl!upsertWorkloadFromDescription
<1>8. CASE Wl!refreshWorkloadState(u)
  <2>1. read[u] \in Wl!Rows
    BY Zenon DEF Wl!TypeOK
  <2>. QED BY <1>2, <1>3, <1>4, <1>8, <2>1, Zenon DEF Wl!refreshWorkloadState
<1>9. CASE Wl!recordRemoteConfigStatus(u)
  BY <1>2, <1>4, <1>6, <1>9, Zenon DEF Wl!recordRemoteConfigStatus
<1>. QED
  BY <1>1, <1>5, <1>7, <1>8, <1>9, Zenon DEF Wl!Handle
LEMMA InvConnection ==
    ASSUME LifecycleConstants, Wl!TypeOK, LifecycleInv, NEW u \in UIDs,
           \/ Wl!Connect(u) \/ Wl!releaseSession(u) \/ Wl!CountRemaining(u) \/ Wl!ScheduleGrace(u)
           \/ \E w \in WorkloadsOf[u], h \in Healths : Wl!handleAgentDescription(u, w, h)
           \/ \E h \in Healths : Wl!handleKnownInstanceUpdate(u, h)
    PROVE  LifecycleInv'
<1>1. CASE Wl!Connect(u)
  <2>1. step'[u] = "open" /\ \A v \in UIDs : v # u => step'[v] = step[v]
    BY <1>1, Zenon DEF Wl!Connect, Wl!Step, Wl!TypeOK
  <2>. QED BY <1>1, <2>1, TimersKept, Zenon DEF Wl!Connect, LifecycleInv, Wl!RegistryConsistent, BoundInv, MergedInv, TailInv,
          Wl!registryVars, Wl!tailVars
<1>2. CASE Wl!releaseSession(u)
  <2>1. step'[u] = "closed" /\ \A v \in UIDs : v # u => step'[v] = step[v] /\ uidToWL'[v] = uidToWL[v]
    BY <1>2, Zenon DEF Wl!releaseSession, Wl!Step, Wl!UnbindInstance, Wl!TypeOK
  <2>2. Wl!RegistryConsistent'
    BY <1>2, Zenon DEF Wl!releaseSession, Wl!UnbindInstance, Wl!TypeOK, LifecycleInv, Wl!RegistryConsistent, LifecycleConstants
  <2>3. BoundInv' /\ MergedInv'
    BY <1>2, <2>1, Zenon DEF Wl!releaseSession, LifecycleInv, BoundInv, MergedInv
  <2>4. TailInv'
    BY <1>2 DEF Wl!releaseSession, Wl!TypeOK, LifecycleInv, TailInv, Wl!tailVars
  <2>. QED BY <1>2, <2>2, <2>3, <2>4, TimersKept, Zenon DEF Wl!releaseSession, LifecycleInv
<1>3. CASE Wl!CountRemaining(u)
  <2>1. TailInv'
    BY <1>3 DEF Wl!CountRemaining, Wl!EndTail, Wl!TypeOK, LifecycleInv, TailInv
  <2>. QED BY <1>3, <2>1, TimersKept, Zenon DEF Wl!CountRemaining, LifecycleInv, Wl!RegistryConsistent, BoundInv, MergedInv,
          Wl!registryVars, Wl!handlerVars
<1>4. CASE Wl!ScheduleGrace(u)
  <2>1. TailInv'
    BY <1>4, Zenon DEF Wl!ScheduleGrace, Wl!EndTail, Wl!TypeOK, LifecycleInv, TailInv
  <2>2. PICK w \in Workloads : w = tailWL[u]
    BY <1>4, Zenon DEF Wl!ScheduleGrace, LifecycleInv, TailInv
  <2>3. PICK e \in Wl!Stopped(w), i \in TimerIds :
            /\ e[i] = Wl!Free
            /\ entry' = [e EXCEPT ![i] = [of |-> w, at |-> "armed", superseded |-> FALSE]]
            /\ timers' = [timers EXCEPT ![w] = i]
    BY <1>4, <2>2, Zenon DEF Wl!ScheduleGrace, Wl!Schedule
  <2>4. DOMAIN e = TimerIds
    BY <2>3, StoppedType, Zenon
  <2>5. entry'[i] = [of |-> w, at |-> "armed", superseded |-> FALSE]
        /\ \A j \in TimerIds : j # i => entry'[j] = e[j]
    BY <2>3, <2>4, Zenon
  <2>6. timers'[w] = i /\ \A v \in Workloads : v # w => timers'[v] = timers[v]
    BY <2>3, Zenon DEF Wl!TypeOK
  <2>7. /\ \A v \in Workloads : v # w /\ timers[v] # NoTimer => e[timers[v]] = entry[timers[v]]
        /\ \A j \in TimerIds : e[j].at # "free" => e[j].of \in Workloads
        /\ \A j \in TimerIds : e[j].superseded => e[j].at = "armed"
    BY <2>3, CancelTimers, Zenon DEF LifecycleInv
  <2>8. \A v \in Workloads : v # w /\ timers[v] # NoTimer => timers[v] # i /\ timers[v] \in TimerIds
    BY <2>3, <2>7 DEF LifecycleInv, TimerInv, Wl!Free, Wl!TypeOK
  <2>9. TimerInv'
    BY <2>5, <2>6, <2>7, <2>8 DEF LifecycleInv, TimerInv, Wl!SupersededNeverRuns
  <2>. QED BY <1>4, <2>1, <2>9, Zenon DEF Wl!ScheduleGrace, LifecycleInv, Wl!RegistryConsistent, BoundInv, MergedInv,
          Wl!registryVars, Wl!handlerVars
<1>5. ASSUME NEW w \in WorkloadsOf[u], NEW h \in Healths, Wl!handleAgentDescription(u, w, h)
      PROVE  LifecycleInv'
  <2>1. w \in Workloads
    BY Zenon DEF LifecycleConstants
  <2>2. /\ step'[u] = "cancel" /\ wl'[u] = w /\ uidToWL'[u] = w
        /\ \A v \in UIDs : v # u => step'[v] = step[v] /\ wl'[v] = wl[v] /\ uidToWL'[v] = uidToWL[v]
    BY <1>5, Zenon DEF Wl!handleAgentDescription, Wl!Step, Wl!BindInstance, Wl!TypeOK
  <2>3. Wl!RegistryConsistent'
    BY <1>5, <2>1 DEF Wl!handleAgentDescription, Wl!BindInstance, Wl!TypeOK, LifecycleInv, Wl!RegistryConsistent
  <2>4. BoundInv' /\ MergedInv'
    BY <1>5, <2>1, <2>2, Zenon DEF Wl!handleAgentDescription, LifecycleInv, BoundInv, MergedInv
  <2>. QED BY <1>5, <2>3, <2>4, TimersKept, Zenon DEF Wl!handleAgentDescription, LifecycleInv, TailInv, Wl!tailVars
<1>6. ASSUME NEW h \in Healths, Wl!handleKnownInstanceUpdate(u, h)
      PROVE  LifecycleInv'
  <2>1. /\ step'[u] = "refresh" /\ wl'[u] = uidToWL[u] /\ uidToWL[u] \in Workloads
        /\ \A v \in UIDs : v # u => step'[v] = step[v] /\ wl'[v] = wl[v]
    BY <1>6, Zenon DEF Wl!handleKnownInstanceUpdate, Wl!Step, Wl!TypeOK
  <2>2. BoundInv' /\ MergedInv'
    BY <1>6, <2>1, Zenon DEF Wl!handleKnownInstanceUpdate, LifecycleInv, BoundInv, MergedInv
  <2>. QED BY <1>6, <2>2, TimersKept, Zenon
           DEF Wl!handleKnownInstanceUpdate, LifecycleInv, Wl!RegistryConsistent, TailInv, Wl!tailVars
<1>. QED
  BY <1>1, <1>2, <1>3, <1>4, <1>5, <1>6, Zenon

\* The callback of a timer: what it does to the entries and to the map.
LEMMA InvGrace ==
    ASSUME LifecycleConstants, Wl!TypeOK, LifecycleInv, NEW i \in TimerIds,
           Wl!GraceFires(i) \/ Wl!GraceCounts(i) \/ Wl!GraceMarks(i)
    PROVE  LifecycleInv'
<1>1. UNCHANGED <<Wl!registryVars, Wl!handlerVars, Wl!tailVars>>
  BY Zenon DEF Wl!GraceFires, Wl!GraceCounts, Wl!GraceMarks
<1>2. Wl!RegistryConsistent' /\ BoundInv' /\ MergedInv' /\ TailInv'
  BY <1>1, Zenon DEF LifecycleInv, Wl!RegistryConsistent, BoundInv, MergedInv, TailInv,
     Wl!registryVars, Wl!handlerVars, Wl!tailVars
<1>3. entry[i] \in Entries /\ entry[i].at # "free" /\ entry[i].of \in Workloads
  BY Zenon DEF Wl!GraceFires, Wl!GraceCounts, Wl!GraceMarks, Wl!TypeOK, Entries, LifecycleInv, TimerInv
<1>4. \A j \in TimerIds : j # i => entry'[j] = entry[j]
  BY Zenon DEF Wl!GraceFires, Wl!GraceCounts, Wl!GraceMarks, Wl!TypeOK
<1>5. \A w \in Workloads : timers[w] = i => entry[i].of = w /\ entry[i].at = "armed" /\ ~ entry[i].superseded
  BY DEF LifecycleInv, TimerInv, LifecycleConstants
<1>6. \A w \in Workloads : timers'[w] # NoTimer => timers'[w] = timers[w] /\ timers[w] # i /\ timers[w] \in TimerIds
  <2>1. CASE Wl!GraceFires(i)
    BY <1>3, <1>5, <2>1 DEF Wl!GraceFires, Wl!TypeOK
  <2>2. CASE Wl!GraceCounts(i) \/ Wl!GraceMarks(i)
    BY <1>5, <2>2 DEF Wl!GraceCounts, Wl!GraceMarks, Wl!TypeOK
  <2>. QED BY <2>1, <2>2, Zenon
<1>7. /\ entry'[i].at # "free" => entry'[i].of \in Workloads
      /\ entry'[i].superseded => entry'[i].at = "armed"
  <2>1. CASE entry'[i] = Wl!Free
    BY <2>1 DEF Wl!Free
  <2>2. CASE entry'[i] = [entry[i] EXCEPT !.at = "count"] /\ ~ entry[i].superseded
    BY <1>3, <2>2, Zenon DEF Entries
  <2>3. CASE entry'[i] = [entry[i] EXCEPT !.at = "mark"] /\ ~ entry[i].superseded
    BY <1>3, <2>3, Zenon DEF Entries
  <2>4. Wl!GraceCounts(i) => ~ entry[i].superseded
    BY Zenon DEF Wl!GraceCounts, LifecycleInv, TimerInv, Wl!SupersededNeverRuns
  <2>. QED BY <1>3, <1>5, <2>1, <2>2, <2>3, <2>4 DEF Wl!GraceFires, Wl!GraceCounts, Wl!GraceMarks, Wl!TypeOK
<1>8. TimerInv'
  BY <1>4, <1>6, <1>7 DEF LifecycleInv, TimerInv, Wl!SupersededNeverRuns
<1>. QED
  BY <1>2, <1>8, Zenon DEF LifecycleInv

LEMMA LifecycleNext ==
    ASSUME LifecycleConstants, Wl!TypeOK, LifecycleInv, [Wl!Next]_(Wl!vars)
    PROVE  LifecycleInv'
<1>1. CASE UNCHANGED <<Wl!registryVars, Wl!graceVars, Wl!handlerVars, Wl!tailVars>>
  BY <1>1, TimersKept, Zenon DEF LifecycleInv, Wl!RegistryConsistent, BoundInv, MergedInv, TailInv,
     Wl!registryVars, Wl!handlerVars, Wl!tailVars
<1>2. ASSUME NEW w \in Workloads, Wl!RunOnce(w) \/ Wl!handleArchiveWorkload(w) \/ Wl!handleDeleteWorkload(w)
      PROVE  LifecycleInv'
  BY <1>1, <1>2, Zenon DEF Wl!RunOnce, Wl!handleArchiveWorkload, Wl!handleDeleteWorkload
<1>3. CASE Wl!ArchiveWorkload
  BY <1>1, <1>3, Zenon DEF Wl!ArchiveWorkload
<1>4. CASE UNCHANGED Wl!vars
  BY <1>1, <1>4, Zenon DEF Wl!vars
<1>5. CASE Wl!Restart
  <2>1. Wl!RegistryConsistent' /\ BoundInv' /\ MergedInv'
    BY <1>5, Zenon DEF Wl!Restart, Wl!Memory, Wl!Started, Wl!RegistryConsistent, BoundInv, MergedInv, LifecycleConstants
  <2>2. TimerInv' /\ TailInv'
    BY <1>5, Zenon DEF Wl!Restart, Wl!Memory, Wl!Started, Wl!Free, TimerInv, TailInv, Wl!SupersededNeverRuns
  <2>. QED BY <2>1, <2>2, Zenon DEF LifecycleInv
<1>. QED
  BY <1>2, <1>3, <1>4, <1>5, InvHandle, InvConnection, InvGrace, Zenon DEF Wl!Next
---------------------------------------------------------------------------
(* A workload that has lost its last agent is attended to *)

Attended(w) ==
    \/ timers[w] # NoTimer
    \/ \E i \in TimerIds : entry[i].of = w /\ entry[i].at \in {"count", "mark"}
    \/ \E u \in UIDs : tailWL[u] = w

\* A handler touches only the row and the timer of its own workload, which is not empty.
LEMMA HandleEffect ==
    ASSUME LifecycleConstants, Wl!TypeOK, LifecycleInv, NEW u \in UIDs, Wl!Handle(u)
    PROVE  /\ wl[u] \in Workloads /\ byWorkload[wl[u]] # {}
           /\ UNCHANGED Wl!registryVars /\ UNCHANGED Wl!tailVars
           /\ \A w \in Workloads : w # wl[u] => shownRow'[w] = shownRow[w] /\ timers'[w] = timers[w]
           /\ \A i \in TimerIds : entry[i].at \in {"count", "mark"} => entry'[i] = entry[i]
<1>1. step[u] \notin {"closed", "open"} /\ UNCHANGED Wl!registryVars /\ UNCHANGED Wl!tailVars
  BY Zenon DEF Wl!Handle, Wl!CancelGrace, Wl!upsertWorkloadFromDescription, Wl!ClearWorkloadRetention,
       Wl!refreshWorkloadState,
     Wl!recordRemoteConfigStatus, Wl!GetWorkload, Wl!Merge, Wl!UpsertWorkload, Wl!Step
<1>2. wl[u] \in Workloads /\ byWorkload[wl[u]] # {}
  BY <1>1, HandlerIsBound, Zenon
<1>3. CASE Wl!CancelGrace(u)
  <2>1. entry' \in Wl!Stopped(wl[u]) /\ shownRow' = shownRow /\ timers' = [timers EXCEPT ![wl[u]] = NoTimer]
    BY <1>3, Zenon DEF Wl!CancelGrace, Wl!Cancel
  <2>2. \A i \in TimerIds : entry[i].at \in {"count", "mark"} => entry'[i] = entry[i]
    BY <1>2, <2>1, CancelTimers, Zenon DEF LifecycleInv
  <2>. QED BY <1>1, <1>2, <2>1, <2>2, Zenon DEF Wl!TypeOK
<1>4. CASE ~ Wl!CancelGrace(u)
  <2>1. UNCHANGED Wl!graceVars /\ \A w \in Workloads : w # wl[u] => shownRow'[w] = shownRow[w]
    BY <1>4, Zenon DEF Wl!Handle, Wl!upsertWorkloadFromDescription, Wl!ClearWorkloadRetention,
       Wl!refreshWorkloadState,
       Wl!recordRemoteConfigStatus, Wl!GetWorkload, Wl!Merge, Wl!UpsertWorkload, Wl!TypeOK
  <2>. QED BY <1>1, <1>2, <2>1, Zenon DEF Wl!graceVars
<1>. QED
  BY <1>3, <1>4, Zenon

LEMMA AttendedHandle ==
    ASSUME LifecycleConstants, Wl!TypeOK, LifecycleInv, Wl!DisconnectIsAttended, NEW u \in UIDs, Wl!Handle(u)
    PROVE  Wl!DisconnectIsAttended'
<1>. SUFFICES ASSUME NEW w \in Workloads, Wl!Unshown(w)'
              PROVE  Attended(w)'
  BY Zenon DEF Wl!DisconnectIsAttended, Attended
<1>1. w # wl[u] /\ shownRow'[w] = shownRow[w] /\ timers'[w] = timers[w] /\ byWorkload'[w] = byWorkload[w]
  BY HandleEffect, Zenon DEF Wl!Unshown, Wl!registryVars
<1>2. Attended(w)
  BY <1>1, Zenon DEF Wl!Unshown, Wl!DisconnectIsAttended, Attended
<1>. QED
  BY <1>1, <1>2, HandleEffect, Zenon DEF Attended, Wl!tailVars

LEMMA AttendedConnection ==
    ASSUME LifecycleConstants, SteadyWorld, Wl!TypeOK, LifecycleInv, DescribedInv, Wl!DisconnectIsAttended, NEW u \in UIDs,
           \/ Wl!Connect(u) \/ Wl!releaseSession(u) \/ Wl!CountRemaining(u) \/ Wl!ScheduleGrace(u)
           \/ \E w \in WorkloadsOf[u], h \in Healths : Wl!handleAgentDescription(u, w, h)
           \/ \E h \in Healths : Wl!handleKnownInstanceUpdate(u, h)
    PROVE  Wl!DisconnectIsAttended'
<1>. SUFFICES ASSUME NEW w \in Workloads, Wl!Unshown(w)'
              PROVE  Attended(w)'
  BY Zenon DEF Wl!DisconnectIsAttended, Attended
<1>1. UNCHANGED shownRow
  BY Zenon DEF Wl!Connect, Wl!releaseSession, Wl!CountRemaining, Wl!ScheduleGrace,
     Wl!handleAgentDescription, Wl!handleKnownInstanceUpdate
<1>2. byWorkload[w] = {} => Attended(w)
  BY <1>1, Zenon DEF Wl!Unshown, Wl!DisconnectIsAttended, Attended
<1>3. byWorkload'[w] = {}
  BY Zenon DEF Wl!Unshown
<1>4. CASE Wl!Connect(u)
  BY <1>2, <1>3, <1>4, Zenon DEF Wl!Connect, Attended, Wl!registryVars, Wl!graceVars, Wl!tailVars
<1>5. CASE Wl!releaseSession(u)
  <2>1. CASE uidToWL[u] = w
    BY <1>5, <2>1, Zenon DEF Wl!releaseSession, Attended, Wl!TypeOK, LifecycleConstants
  <2>2. CASE uidToWL[u] # w
    <3>1. byWorkload[w] = {}
      BY <1>3, <1>5, <2>2 DEF Wl!releaseSession, Wl!UnbindInstance, Wl!TypeOK, LifecycleInv, Wl!RegistryConsistent
    <3>2. tailWL[u] = NoWorkload
      BY <1>5, Zenon DEF Wl!releaseSession, LifecycleInv, TailInv
    <3>3. \A v \in UIDs : v # u => tailWL'[v] = tailWL[v]
      BY <1>5, Zenon DEF Wl!releaseSession, Wl!TypeOK, Wl!tailVars
    <3>. QED BY <1>2, <1>5, <3>1, <3>2, <3>3, Zenon DEF Wl!releaseSession, Attended, Wl!graceVars, LifecycleConstants
  <2>. QED BY <2>1, <2>2, Zenon
<1>6. CASE Wl!CountRemaining(u)
  <2>1. byWorkload[w] = {} /\ UNCHANGED Wl!graceVars
    BY <1>3, <1>6, Zenon DEF Wl!CountRemaining, Wl!registryVars
  <2>2. tailWL[u] = w => tailWL'[u] = w
    BY <1>6, <2>1, Zenon DEF Wl!CountRemaining
  <2>3. \A v \in UIDs : v # u => tailWL'[v] = tailWL[v]
    BY <1>6, Zenon DEF Wl!CountRemaining, Wl!EndTail, Wl!TypeOK
  <2>. QED BY <1>2, <2>1, <2>2, <2>3, Zenon DEF Attended, Wl!graceVars
<1>7. CASE Wl!ScheduleGrace(u)
  <2>1. tailWL[u] \in Workloads
    BY <1>7, Zenon DEF Wl!ScheduleGrace, LifecycleInv, TailInv
  <2>2. PICK e \in Wl!Stopped(tailWL[u]), i \in TimerIds :
            /\ e[i] = Wl!Free
            /\ entry' = [e EXCEPT ![i] = [of |-> tailWL[u], at |-> "armed", superseded |-> FALSE]]
            /\ timers' = [timers EXCEPT ![tailWL[u]] = i]
    BY <1>7, Zenon DEF Wl!ScheduleGrace, Wl!Schedule
  <2>3. CASE tailWL[u] = w
    BY <2>1, <2>2, <2>3, Zenon DEF Attended, Wl!TypeOK, LifecycleConstants
  <2>4. CASE tailWL[u] # w
    <3>1. byWorkload[w] = {} /\ timers'[w] = timers[w]
      BY <1>3, <1>7, <2>1, <2>2, <2>4, Zenon DEF Wl!ScheduleGrace, Wl!registryVars, Wl!TypeOK
    <3>2. DOMAIN e = TimerIds /\ \A j \in TimerIds : entry[j].at \in {"count", "mark"} => e[j] = entry[j]
      BY <2>1, <2>2, StoppedType, CancelTimers, Zenon DEF LifecycleInv
    <3>3. \A j \in TimerIds : entry[j].at \in {"count", "mark"} => entry'[j] = entry[j]
      <4>1. Wl!Free.at = "free"
        BY DEF Wl!Free
      <4>2. entry[i].at \notin {"count", "mark"}
        BY <2>2, <3>2, <4>1, Zenon
      <4>3. \A j \in TimerIds : j # i => entry'[j] = e[j]
        BY <2>2, <3>2, Zenon
      <4> QED BY <3>2, <4>2, <4>3, Zenon
    <3>4. \A v \in UIDs : v # u => tailWL'[v] = tailWL[v]
      BY <1>7, Zenon DEF Wl!ScheduleGrace, Wl!EndTail, Wl!TypeOK
    <3>. QED BY <1>2, <2>4, <3>1, <3>3, <3>4, Zenon DEF Attended
  <2>. QED BY <2>3, <2>4, Zenon
<1>8. ASSUME NEW v \in WorkloadsOf[u], NEW h \in Healths, Wl!handleAgentDescription(u, v, h)
      PROVE  Attended(w)'
  <2>1. v \in Workloads /\ v # w
    BY <1>3, <1>8, Zenon DEF Wl!handleAgentDescription, Wl!BindInstance, LifecycleConstants
  <2>2. uidToWL[u] # w
    BY <2>1, Zenon DEF DescribedInv, SteadyWorld, LifecycleConstants
  <2>3. byWorkload[w] = {}
    BY <1>3, <1>8, <2>1, <2>2 DEF Wl!handleAgentDescription, Wl!BindInstance, LifecycleInv, Wl!RegistryConsistent
  <2>. QED BY <1>2, <1>8, <2>3, Zenon DEF Wl!handleAgentDescription, Attended, Wl!graceVars, Wl!tailVars
<1>9. ASSUME NEW h \in Healths, Wl!handleKnownInstanceUpdate(u, h)
      PROVE  Attended(w)'
  BY <1>2, <1>3, <1>9, Zenon DEF Wl!handleKnownInstanceUpdate, Attended, Wl!graceVars, Wl!tailVars
<1>. QED
  BY <1>4, <1>5, <1>6, <1>7, <1>8, <1>9, Zenon
LEMMA AttendedGrace ==
    ASSUME LifecycleConstants, SteadyWorld, Wl!TypeOK, LifecycleInv, Wl!DisconnectIsAttended, NEW i \in TimerIds,
           Wl!GraceFires(i) \/ Wl!GraceCounts(i) \/ Wl!GraceMarks(i)
    PROVE  Wl!DisconnectIsAttended'
<1>. SUFFICES ASSUME NEW w \in Workloads, Wl!Unshown(w)'
              PROVE  Attended(w)'
  BY Zenon DEF Wl!DisconnectIsAttended, Attended
<1>1. UNCHANGED <<byWorkload, tailWL>> /\ byWorkload[w] = {}
  BY Zenon DEF Wl!GraceFires, Wl!GraceCounts, Wl!GraceMarks, Wl!Unshown, Wl!registryVars, Wl!tailVars
<1>2. \A j \in TimerIds : j # i => entry'[j] = entry[j]
  BY Zenon DEF Wl!GraceFires, Wl!GraceCounts, Wl!GraceMarks, Wl!TypeOK
<1>3. entry[i] \in Entries /\ entry[i].of \in Workloads
  BY Zenon DEF Wl!GraceFires, Wl!GraceCounts, Wl!GraceMarks, Wl!TypeOK, Entries, LifecycleInv, TimerInv
<1>4. CASE Wl!GraceFires(i)
  <2>1. Attended(w)
    BY <1>1, <1>4, Zenon DEF Wl!GraceFires, Wl!Unshown, Wl!DisconnectIsAttended, Attended
  <2>2. CASE timers[w] = i
    <3>1. entry[i].of = w
      BY <2>2, Zenon DEF LifecycleInv, TimerInv, LifecycleConstants
    <3>2. entry'[i] = [entry[i] EXCEPT !.at = "count"]
      BY <1>4, <2>2, <3>1, Zenon DEF Wl!GraceFires, Wl!TypeOK
    <3>3. entry'[i].of = w /\ entry'[i].at = "count"
      BY <1>3, <3>1, <3>2, Zenon DEF Entries
    <3>. QED BY <3>3, Zenon DEF Attended
  <2>3. CASE timers[w] # i
    <3>1. timers'[w] = timers[w]
      BY <1>4, <2>3, Zenon DEF Wl!GraceFires, Wl!TypeOK
    <3>2. entry[i].at \notin {"count", "mark"}
      BY <1>4, Zenon DEF Wl!GraceFires
    <3>. QED BY <1>1, <1>2, <2>1, <3>1, <3>2, Zenon DEF Attended
  <2>. QED BY <2>2, <2>3, Zenon
<1>5. CASE Wl!GraceCounts(i)
  <2>1. Attended(w) /\ UNCHANGED timers
    BY <1>1, <1>5, Zenon DEF Wl!GraceCounts, Wl!Unshown, Wl!DisconnectIsAttended, Attended
  <2>2. CASE entry[i].of = w
    <3>1. entry'[i] = [entry[i] EXCEPT !.at = "mark"]
      BY <1>1, <1>5, <2>2, Zenon DEF Wl!GraceCounts, Wl!TypeOK
    <3>2. entry'[i].of = w /\ entry'[i].at = "mark"
      BY <1>3, <2>2, <3>1, Zenon DEF Entries
    <3>. QED BY <3>2, Zenon DEF Attended
  <2>3. CASE entry[i].of # w
    BY <1>1, <1>2, <2>1, <2>3, Zenon DEF Attended
  <2>. QED BY <2>2, <2>3, Zenon
<1>6. CASE Wl!GraceMarks(i)
  <2>1. shownRow' = [shownRow EXCEPT ![entry[i].of] = IF ~ @.exists THEN @
                             ELSE [@ EXCEPT !.status = "disconnected", !.retention = TRUE]]
    BY <1>6, Zenon DEF Wl!GraceMarks, SteadyWorld
  <2>2. entry[i].of # w
    <3>1. SUFFICES ASSUME entry[i].of = w
                   PROVE  FALSE
      OBVIOUS
    <3>2. shownRow[w] \in Wl!Rows
      BY Zenon DEF Wl!TypeOK
    <3>3. shownRow'[w] = IF ~ shownRow[w].exists THEN shownRow[w]
                    ELSE [shownRow[w] EXCEPT !.status = "disconnected", !.retention = TRUE]
      BY <2>1, <3>1, Zenon DEF Wl!TypeOK
    <3>. QED BY <3>2, <3>3, Zenon DEF Wl!Unshown, Wl!Rows
  <2>3. shownRow'[w] = shownRow[w] /\ UNCHANGED timers
    BY <1>6, <2>1, <2>2, Zenon DEF Wl!GraceMarks, Wl!TypeOK
  <2>4. Attended(w)
    BY <1>1, <2>3, Zenon DEF Wl!Unshown, Wl!DisconnectIsAttended, Attended
  <2>. QED BY <1>1, <1>2, <2>2, <2>3, <2>4, Zenon DEF Attended
<1>. QED
  BY <1>4, <1>5, <1>6, Zenon

LEMMA AttendedRows ==
    ASSUME LifecycleConstants, Wl!TypeOK, Wl!DisconnectIsAttended,
           \/ \E w \in Workloads : Wl!RunOnce(w) \/ Wl!handleArchiveWorkload(w) \/ Wl!handleDeleteWorkload(w)
           \/ Wl!ArchiveWorkload \/ UNCHANGED Wl!vars
    PROVE  Wl!DisconnectIsAttended'
<1>. SUFFICES ASSUME NEW w \in Workloads, Wl!Unshown(w)'
              PROVE  Attended(w)'
  BY Zenon DEF Wl!DisconnectIsAttended, Attended
<1>1. UNCHANGED <<Wl!registryVars, Wl!graceVars, Wl!tailVars>>
  BY Zenon DEF Wl!RunOnce, Wl!handleArchiveWorkload, Wl!handleDeleteWorkload, Wl!ArchiveWorkload, Wl!vars
<1>2. shownRow[w].exists /\ shownRow[w].status # "disconnected"
  <2>1. shownRow[w] \in Wl!Rows /\ shownRow'[w].exists /\ shownRow'[w].status # "disconnected"
    BY Zenon DEF Wl!Unshown, Wl!TypeOK
  <2>2. ASSUME NEW v \in Workloads, Wl!RunOnce(v)
        PROVE  shownRow'[w].exists = shownRow[w].exists /\ shownRow'[w].status = shownRow[w].status
    <3>1. shownRow'[w] = IF w = v THEN [shownRow[w] EXCEPT !.archived = TRUE] ELSE shownRow[w]
      BY <2>2, Zenon DEF Wl!RunOnce, Wl!TypeOK
    <3>. QED BY <2>1, <3>1, Zenon DEF Wl!Rows
  <2>3. ASSUME NEW v \in Workloads, Wl!handleDeleteWorkload(v)
        PROVE  shownRow'[w] = shownRow[w]
    <3>1. shownRow'[w] = IF w = v THEN Wl!Absent ELSE shownRow[w]
      BY <2>3, Zenon DEF Wl!handleDeleteWorkload, Wl!TypeOK
    <3>. QED BY <2>1, <3>1 DEF Wl!Absent
  <2>4. CASE Wl!ArchiveWorkload
    <3>1. shownRow'[w] = IF w = archiving /\ shownRow[w].exists
                    THEN [shownRow[w] EXCEPT !.status = "disconnected", !.retention = TRUE, !.archived = TRUE]
                    ELSE shownRow[w]
      BY <2>4, Zenon DEF Wl!ArchiveWorkload, Wl!TypeOK
    <3>. QED BY <2>1, <3>1, Zenon DEF Wl!Rows
  <2>. QED BY <2>1, <2>2, <2>3, <2>4, Zenon DEF Wl!handleArchiveWorkload, Wl!vars
<1>. QED
  BY <1>1, <1>2, Zenon DEF Wl!Unshown, Wl!DisconnectIsAttended, Attended, Wl!registryVars, Wl!graceVars, Wl!tailVars

LEMMA DescribedNext ==
    ASSUME LifecycleConstants, Wl!TypeOK, LifecycleInv, DescribedInv, [Wl!Next]_(Wl!vars)
    PROVE  DescribedInv'
<1>1. CASE UNCHANGED Wl!registryVars
  BY <1>1, Zenon DEF DescribedInv, Wl!registryVars
<1>2. ASSUME NEW u \in UIDs, Wl!Handle(u)
      PROVE  DescribedInv'
  BY <1>1, <1>2, HandleEffect, Zenon
<1>3. ASSUME NEW u \in UIDs, NEW w \in WorkloadsOf[u], NEW h \in Healths, Wl!handleAgentDescription(u, w, h)
      PROVE  DescribedInv'
  BY <1>3, Zenon DEF Wl!handleAgentDescription, Wl!BindInstance, DescribedInv, Wl!TypeOK
<1>4. ASSUME NEW u \in UIDs, Wl!releaseSession(u)
      PROVE  DescribedInv'
  BY <1>4, Zenon DEF Wl!releaseSession, Wl!UnbindInstance, DescribedInv, Wl!TypeOK
<1>5. ASSUME NEW u \in UIDs, NEW h \in Healths, Wl!handleKnownInstanceUpdate(u, h)
      PROVE  DescribedInv'
  BY <1>5, Zenon DEF Wl!handleKnownInstanceUpdate, DescribedInv
<1>6. ASSUME NEW u \in UIDs, Wl!Connect(u) \/ Wl!CountRemaining(u) \/ Wl!ScheduleGrace(u)
      PROVE  DescribedInv'
  BY <1>1, <1>6, Zenon DEF Wl!Connect, Wl!CountRemaining, Wl!ScheduleGrace
<1>7. ASSUME NEW i \in TimerIds,
           Wl!GraceFires(i) \/ Wl!GraceCounts(i) \/ Wl!GraceMarks(i)
      PROVE  DescribedInv'
  BY <1>1, <1>7, Zenon DEF Wl!GraceFires, Wl!GraceCounts, Wl!GraceMarks
<1>8. ASSUME NEW w \in Workloads, Wl!RunOnce(w) \/ Wl!handleArchiveWorkload(w) \/ Wl!handleDeleteWorkload(w)
      PROVE  DescribedInv'
  BY <1>1, <1>8, Zenon DEF Wl!RunOnce, Wl!handleArchiveWorkload, Wl!handleDeleteWorkload
<1>9. CASE Wl!ArchiveWorkload \/ UNCHANGED Wl!vars
  BY <1>1, <1>9, Zenon DEF Wl!ArchiveWorkload, Wl!vars
<1>10. CASE Wl!Restart
  BY <1>10, Zenon DEF Wl!Restart, Wl!Memory, Wl!Started, DescribedInv
<1>. QED
  BY <1>2, <1>3, <1>4, <1>5, <1>6, <1>7, <1>8, <1>9, <1>10, Zenon DEF Wl!Next

LEMMA AttendedNext ==
    ASSUME LifecycleConstants, SteadyWorld, Wl!TypeOK, LifecycleInv, DescribedInv, Wl!DisconnectIsAttended, [Wl!Next]_(Wl!vars)
    PROVE  Wl!DisconnectIsAttended'
<1>1. ~ Wl!Restart
  BY Zenon DEF Wl!Restart, SteadyWorld
<1>. QED
  BY <1>1, AttendedHandle, AttendedConnection, AttendedGrace, AttendedRows, Zenon DEF Wl!Next
\* What a handler writes is what it has merged.
LEMMA WritesAreMerged ==
    ASSUME LifecycleConstants, Wl!TypeOK, LifecycleInv, [Wl!Next]_(Wl!vars), NEW u \in UIDs,
           step[u] \in {"upsert", "rewrite"}, shownRow' # shownRow, step'[u] # step[u]
    PROVE  shownRow'[wl[u]].status # "disconnected"
<1>1. Wl!UpsertWorkload(u, "upsert", "clear", "refresh") \/ Wl!UpsertWorkload(u, "rewrite", "report", "report")
  <2>1. ASSUME NEW v \in UIDs, Wl!Handle(v)
        PROVE  v = u
    BY <2>1, Zenon DEF Wl!Handle, Wl!CancelGrace, Wl!upsertWorkloadFromDescription, Wl!ClearWorkloadRetention,
       Wl!refreshWorkloadState,
       Wl!recordRemoteConfigStatus, Wl!GetWorkload, Wl!Merge, Wl!UpsertWorkload, Wl!Step, Wl!TypeOK
  <2>2. Wl!Handle(u)
    BY <2>1, Zenon DEF Wl!Next, Wl!vars, Wl!Connect, Wl!releaseSession, Wl!handleAgentDescription, Wl!handleKnownInstanceUpdate,
       Wl!CountRemaining, Wl!ScheduleGrace, Wl!GraceFires, Wl!GraceCounts, Wl!GraceMarks, Wl!RunOnce, Wl!handleArchiveWorkload,
       Wl!handleDeleteWorkload, Wl!ArchiveWorkload, Wl!Restart, Wl!handlerVars
  <2>. QED BY <2>2, Zenon DEF Wl!Handle, Wl!CancelGrace, Wl!upsertWorkloadFromDescription, Wl!ClearWorkloadRetention,
          Wl!refreshWorkloadState, Wl!recordRemoteConfigStatus, Wl!GetWorkload, Wl!Merge, Wl!UpsertWorkload, Wl!Step
<1>2. shownRow' = [shownRow EXCEPT ![wl[u]] = read[u]]
  BY <1>1, Zenon DEF Wl!UpsertWorkload
<1>3. wl[u] \in Workloads
  BY HandlerIsBound, Zenon
<1>4. shownRow'[wl[u]] = read[u]
  BY <1>2, <1>3, Zenon DEF Wl!TypeOK
<1>. QED
  BY <1>4, Zenon DEF LifecycleInv, MergedInv
---------------------------------------------------------------------------
(* The theorems *)

\* The inductive invariant: the registry, the grace timers, the handlers and
\* the releases agree on who is bound to what.
THEOREM LifecycleInvariant ==
    ASSUME LifecycleConstants
    PROVE  Wl!Spec => [](Wl!TypeOK /\ LifecycleInv)
<1>1. Wl!Init => Wl!TypeOK /\ LifecycleInv
  BY LifecycleTypeInit, LifecycleInit, Zenon
<1>2. Wl!TypeOK /\ LifecycleInv /\ [Wl!Next]_(Wl!vars) => (Wl!TypeOK /\ LifecycleInv)'
  BY LifecycleTypeNext, LifecycleNext, Zenon
<1>. QED
  BY <1>1, <1>2, PTL DEF Wl!Spec

\* The two maps of the registry stay inverse to each other, also while agents
\* change their workload, restarts included.
THEOREM RegistryIsConsistent ==
    ASSUME LifecycleConstants
    PROVE  Wl!Spec => []Wl!RegistryConsistent
<1>1. LifecycleInv => Wl!RegistryConsistent
  BY Zenon DEF LifecycleInv
<1>. QED
  BY <1>1, LifecycleInvariant, PTL

\* The callback of a cancelled or replaced grace timer never runs.
THEOREM SupersededTimersStayQuiet ==
    ASSUME LifecycleConstants
    PROVE  Wl!Spec => []Wl!SupersededNeverRuns
<1>1. LifecycleInv => Wl!SupersededNeverRuns
  BY Zenon DEF LifecycleInv, TimerInv
<1>. QED
  BY <1>1, LifecycleInvariant, PTL

\* A message of an agent never writes its own workload as disconnected.
THEOREM HandlersSeeThemselves ==
    ASSUME LifecycleConstants
    PROVE  Wl!Spec => Wl!HandlerSeesItself
<1>1. Wl!TypeOK /\ LifecycleInv /\ [Wl!Next]_(Wl!vars) =>
        [\A u \in DOMAIN step : step[u] \in {"upsert", "rewrite"} /\ shownRow' # shownRow /\ step'[u] # step[u]
           => shownRow'[wl[u]].status # "disconnected"]_(Wl!vars)
  <2>. SUFFICES ASSUME Wl!TypeOK, LifecycleInv, [Wl!Next]_(Wl!vars), NEW u \in DOMAIN step,
                       step[u] \in {"upsert", "rewrite"}, shownRow' # shownRow, step'[u] # step[u]
                PROVE  shownRow'[wl[u]].status # "disconnected"
    OBVIOUS
  <2>1. u \in UIDs
    BY Zenon DEF Wl!TypeOK
  <2>. QED BY <2>1, WritesAreMerged, Zenon
<1>. QED
  BY <1>1, LifecycleInvariant, PTL DEF Wl!Spec, Wl!HandlerSeesItself

\* While the server stays up, its writes succeed and an agent keeps its
\* identity, a workload without agents that is shown as connected is attended
\* to: by a release, by a grace timer, or by the callback of one.
THEOREM DisconnectsAreAttended ==
    ASSUME LifecycleConstants, SteadyWorld
    PROVE  Wl!Spec => []Wl!DisconnectIsAttended
<1>1. Wl!Init => DescribedInv /\ Wl!DisconnectIsAttended
  BY LifecycleInit, Zenon
<1>2. Wl!TypeOK /\ LifecycleInv /\ DescribedInv /\ Wl!DisconnectIsAttended /\ [Wl!Next]_(Wl!vars)
      => (DescribedInv /\ Wl!DisconnectIsAttended)'
  BY DescribedNext, AttendedNext, Zenon
<1>. QED
  BY <1>1, <1>2, LifecycleInvariant, PTL DEF Wl!Spec

-----------------------------------------------------------------------------
(* The alerts that the engine fires and resolves. *)

CONSTANTS N, PageSize, AlertIds, NoAlert, MaxPushes, Rules, LookupFails

VARIABLES shown, pushes, alert, told, minSet, eng

Al == INSTANCE Alerts WITH wl <- shown, rows <- pushes

RuleIds == {Al!Down, Al!Drift, Al!Outdated}

AlertConstants == NoAlert \notin AlertIds /\ \A w \in Al!Workloads, r \in RuleIds : NoAlert # <<w, r>>

\* The rules whose look-up ends them when it fails.
Covered(r) == LookupFails => r = Al!Down

\* A record with the fields of the pass.
IsPass(e) == DOMAIN e = {"at", "cursor", "page", "full", "rule", "drifted", "existing"}

\* A pass about to act without having found an open alert: there is none.
ActInv ==
    eng.at = "act" /\ eng.existing = NoAlert =>
        \A w \in Al!Workloads, r \in RuleIds : w = Al!Turn(eng.page) /\ r = eng.rule /\ Covered(r) => Al!Open(w, r) = {}

\* There is one open alert of a rule, at most.
OneInv == \A w \in Al!Workloads, r \in RuleIds : Covered(r) => \A i, j \in Al!Open(w, r) : i = j

AlertInv == IsPass(eng) /\ DOMAIN alert = AlertIds /\ alert = [i \in AlertIds |-> alert[i]] /\ ActInv /\ OneInv

\* What is made of a pass.
LEMMA MovedPass ==
    ASSUME NEW e, IsPass(e), NEW a
    PROVE  IsPass([e EXCEPT !.at = a]) /\ [e EXCEPT !.at = a].at = a
BY DEF IsPass

LEMMA RestartedPass ==
    ASSUME NEW e, IsPass(e), NEW c
    PROVE  IsPass([e EXCEPT !.at = "page", !.cursor = c]) /\ [e EXCEPT !.at = "page", !.cursor = c].at = "page"
BY DEF IsPass

LEMMA PagePass ==
    ASSUME NEW e, IsPass(e), NEW p, NEW c, NEW f
    PROVE  LET n == [e EXCEPT !.at = "lookup", !.page = p, !.cursor = c, !.full = f] IN IsPass(n) /\ n.at = "lookup"
BY DEF IsPass

LEMMA FoundPass ==
    ASSUME NEW e, IsPass(e), NEW x
    PROVE  LET n == [e EXCEPT !.at = "act", !.existing = x] IN
           IsPass(n) /\ n.at = "act" /\ n.existing = x /\ n.page = e.page /\ n.rule = e.rule
BY DEF IsPass

LEMMA PendingPass ==
    ASSUME NEW e, IsPass(e), NEW d
    PROVE  LET n == [e EXCEPT !.at = "lookup", !.drifted = d] IN IsPass(n) /\ n.at = "lookup"
BY DEF IsPass

LEMMA IdlePass == IsPass(Al!Idle) /\ Al!Idle.at = "idle"
BY DEF IsPass, Al!Idle

LEMMA AlertInit == ASSUME AlertConstants, Al!Init PROVE AlertInv
<1>1. IsPass(eng) /\ ActInv
  BY IdlePass, Zenon DEF Al!Init, ActInv
<1>2. DOMAIN alert = AlertIds /\ alert = [i \in AlertIds |-> alert[i]] /\ \A i \in AlertIds : alert[i] = NoAlert
  BY Zenon DEF Al!Init
<1>3. OneInv
  BY <1>2, Zenon DEF OneInv, AlertConstants, Al!Open
<1> QED BY <1>1, <1>2, <1>3, Zenon DEF AlertInv

LEMMA AdvancePass ==
    ASSUME NEW e, IsPass(e)
    PROVE  IsPass(Al!Advance(e)) /\ Al!Advance(e).at # "act"
<1>1. CASE e.rule = Al!Down
  <2> DEFINE n == [e EXCEPT !.rule = Al!Drift, !.at = "pending", !.existing = NoAlert]
  <2>1. Al!Advance(e) = n
    BY <1>1 DEF Al!Advance, Al!Down, Al!Drift, Al!Outdated
  <2> QED BY <2>1 DEF IsPass
<1>2. CASE e.rule = Al!Drift
  <2>1. Al!Advance(e) = [e EXCEPT !.rule = Al!Outdated, !.at = "lookup", !.existing = NoAlert]
    BY <1>2 DEF Al!Advance, Al!Down, Al!Drift, Al!Outdated
  <2> QED BY <2>1 DEF IsPass
<1>3. CASE e.rule = Al!Outdated /\ Al!Rest(e.page) # <<>>
  <2>1. Al!Advance(e) = [e EXCEPT !.rule = Al!Down, !.at = "lookup", !.page = Al!Rest(@), !.existing = NoAlert]
    BY <1>3 DEF Al!Advance, Al!Down, Al!Drift, Al!Outdated
  <2> QED BY <2>1 DEF IsPass
<1>4. CASE e.rule # Al!Down /\ e.rule # Al!Drift /\ ~ (e.rule = Al!Outdated /\ Al!Rest(e.page) # <<>>)
  <2>1. Al!Advance(e) = IF e.full THEN [Al!Idle EXCEPT !.at = "page", !.cursor = e.cursor] ELSE Al!Idle
    BY <1>4, Zenon DEF Al!Advance
  <2>2. /\ IsPass([Al!Idle EXCEPT !.at = "page", !.cursor = e.cursor])
        /\ [Al!Idle EXCEPT !.at = "page", !.cursor = e.cursor].at = "page"
    BY IdlePass, RestartedPass, Zenon
  <2> QED BY <2>1, <2>2, IdlePass
<1> QED BY <1>1, <1>2, <1>3, <1>4, Zenon
\* A step of the pass that fires nothing and does not prepare to.
LEMMA PassMoves ==
    ASSUME AlertInv, NEW e, eng' = e, IsPass(e), e.at # "act", UNCHANGED alert
    PROVE  AlertInv'
<1>1. \A w, r : Al!Open(w, r)' = Al!Open(w, r)
  BY Zenon DEF Al!Open
<1>2. OneInv'
  BY <1>1, Zenon DEF AlertInv, OneInv, Covered
<1>3. ActInv'
  BY Zenon DEF ActInv
<1> QED BY <1>2, <1>3, Zenon DEF AlertInv

\* Around the pass alerts are only resolved.
LEMMA AlertResolved ==
    ASSUME AlertConstants, AlertInv, NEW i \in AlertIds, alert' = [alert EXCEPT ![i] = NoAlert], IsPass(eng'),
           eng'.at = "act" => UNCHANGED eng
    PROVE  AlertInv'
<1>1. DOMAIN alert' = AlertIds /\ alert' = [j \in AlertIds |-> alert'[j]] /\ alert'[i] = NoAlert
      /\ \A j \in AlertIds : j # i => alert'[j] = alert[j]
  BY Zenon DEF AlertInv
<1>2. ASSUME NEW w \in Al!Workloads, NEW r \in RuleIds PROVE Al!Open(w, r)' \subseteq Al!Open(w, r)
  BY <1>1, Zenon DEF Al!Open, AlertConstants
<1>3. OneInv'
  BY <1>2, Zenon DEF AlertInv, OneInv, Covered
<1>4. ActInv'
  BY <1>2, Zenon DEF AlertInv, ActInv, Covered
<1> QED BY <1>1, <1>3, <1>4, Zenon DEF AlertInv

\* The pass fires where it has found none.
LEMMA FireStep == ASSUME AlertConstants, AlertInv, Al!Fire PROVE AlertInv'
<1>1. PICK i \in AlertIds : alert[i] = NoAlert /\ alert' = [alert EXCEPT ![i] = <<Al!Turn(eng.page), eng.rule>>]
  BY Zenon DEF Al!Fire
<1>2. eng.at = "act" /\ eng.existing = NoAlert /\ IsPass(eng') /\ eng'.at # "act"
  BY AdvancePass, Zenon DEF Al!Fire, Al!MayFire, Al!Engine, AlertInv
<1>3. DOMAIN alert' = AlertIds /\ alert' = [j \in AlertIds |-> alert'[j]] /\ alert'[i] = <<Al!Turn(eng.page), eng.rule>>
      /\ \A j \in AlertIds : j # i => alert'[j] = alert[j]
  BY <1>1, Zenon DEF AlertInv
<1>4. ASSUME NEW w \in Al!Workloads, NEW r \in RuleIds, Covered(r), NEW j \in Al!Open(w, r)', NEW k \in Al!Open(w, r)' PROVE j = k
  <2>1. CASE w = Al!Turn(eng.page) /\ r = eng.rule
    <3>1. Al!Open(w, r) = {}
      BY <1>2, <1>4, <2>1, Zenon DEF AlertInv, ActInv
    <3> QED BY <1>3, <3>1, Zenon DEF Al!Open
  <2>2. CASE ~ (w = Al!Turn(eng.page) /\ r = eng.rule)
    <3>1. <<Al!Turn(eng.page), eng.rule>> # <<w, r>>
      BY <2>2
    <3>2. j \in Al!Open(w, r) /\ k \in Al!Open(w, r)
      BY <1>3, <3>1, Zenon DEF Al!Open
    <3> QED BY <1>4, <3>2, Zenon DEF AlertInv, OneInv
  <2> QED BY <2>1, <2>2, Zenon
<1>5. OneInv'
  BY <1>4, Zenon DEF OneInv, Covered
<1>6. ActInv'
  BY <1>2, Zenon DEF ActInv
<1> QED BY <1>2, <1>3, <1>5, <1>6, Zenon DEF AlertInv

\* The pass has looked.
LEMMA LookupStep == ASSUME AlertConstants, AlertInv, Al!Lookup \/ Al!LookupError PROVE AlertInv'
<1>1. UNCHANGED alert /\ IsPass(eng)
  BY Zenon DEF Al!Lookup, Al!LookupError, AlertInv
<1>2. OneInv'
  <2>1. \A w, r : Al!Open(w, r)' = Al!Open(w, r)
    BY <1>1, Zenon DEF Al!Open
  <2> QED BY <2>1, Zenon DEF AlertInv, OneInv, Covered
<1>3. ASSUME Al!Lookup, Al!Open(Al!Turn(eng.page), eng.rule) = {}, eng' = [eng EXCEPT !.at = "act", !.existing = NoAlert]
      PROVE  AlertInv'
  <2>1. IsPass(eng') /\ eng'.page = eng.page /\ eng'.rule = eng.rule
    BY <1>1, <1>3, FoundPass, Zenon
  <2>2. ActInv'
    BY <1>1, <1>3, <2>1, Zenon DEF ActInv, Al!Open
  <2> QED BY <1>1, <1>2, <2>1, <2>2, Zenon DEF AlertInv
<1>4. ASSUME NEW i \in Al!Open(Al!Turn(eng.page), eng.rule), eng' = [eng EXCEPT !.at = "act", !.existing = i]
      PROVE  AlertInv'
  <2>1. IsPass(eng') /\ eng'.existing = i
    BY <1>1, <1>4, FoundPass, Zenon
  <2>2. i # NoAlert
    BY Zenon DEF Al!Open, AlertConstants
  <2>3. ActInv'
    BY <2>1, <2>2, Zenon DEF ActInv
  <2> QED BY <1>1, <1>2, <2>1, <2>3, Zenon DEF AlertInv
<1>5. CASE Al!LookupError
  <2>1. LookupFails /\ eng' = Al!FailedLookup
    BY <1>5, Zenon DEF Al!LookupError, Al!Engine
  <2>2. CASE eng.rule = Al!Down
    BY <1>1, <2>1, <2>2, AdvancePass, PassMoves, Zenon DEF Al!FailedLookup
  <2>3. CASE eng.rule # Al!Down
    <3>1. eng' = [eng EXCEPT !.at = "act", !.existing = NoAlert]
      BY <2>1, <2>3, Zenon DEF Al!FailedLookup
    <3>2. IsPass(eng') /\ eng'.rule = eng.rule
      BY <1>1, <3>1, FoundPass, Zenon
    <3>3. ActInv'
      BY <2>1, <2>3, <3>2, Zenon DEF ActInv, Covered
    <3> QED BY <1>1, <1>2, <3>2, <3>3, Zenon DEF AlertInv
  <2> QED BY <2>2, <2>3, Zenon
<1> QED BY <1>3, <1>4, <1>5, Zenon DEF Al!Lookup, Al!Engine

\* The other steps of the pass.
LEMMA PassStep ==
    ASSUME AlertConstants, AlertInv,
           Al!StartPass \/ Al!evaluatePages \/ Al!ReadPending \/ Al!SkipVersion \/ Al!Nothing \/ Al!Unset
    PROVE  AlertInv'
<1>0. IsPass(eng) /\ UNCHANGED alert
  BY Zenon DEF AlertInv, Al!StartPass, Al!evaluatePages, Al!ReadPending, Al!SkipVersion, Al!Nothing, Al!Unset
<1>1. CASE Al!StartPass
  BY <1>0, <1>1, IdlePass, MovedPass, PassMoves, Zenon DEF Al!StartPass, Al!Engine
<1>2. CASE Al!evaluatePages
  <2>1. PICK p, c, f : eng' = Al!Idle \/ eng' = [Al!Idle EXCEPT !.at = "lookup", !.page = p, !.cursor = c, !.full = f]
    BY <1>2, Zenon DEF Al!evaluatePages, Al!Engine
  <2>2. IsPass(eng') /\ eng'.at # "act"
    <3>1. CASE eng' = Al!Idle
      BY <3>1, IdlePass
    <3>2. CASE eng' = [Al!Idle EXCEPT !.at = "lookup", !.page = p, !.cursor = c, !.full = f]
      BY <3>2, IdlePass, PagePass, Zenon
    <3> QED BY <2>1, <3>1, <3>2, Zenon
  <2> QED BY <1>0, <2>2, PassMoves, Zenon
<1>3. CASE Al!ReadPending
  <2>1. PICK d : eng' = [eng EXCEPT !.at = "lookup", !.drifted = d]
    BY <1>3, Zenon DEF Al!ReadPending, Al!Engine
  <2>2. IsPass(eng') /\ eng'.at # "act"
    BY <1>0, <2>1, PendingPass
  <2> QED BY <1>0, <2>2, PassMoves, Zenon
<1>4. CASE Al!SkipVersion \/ Al!Nothing
  BY <1>0, <1>4, AdvancePass, PassMoves, Zenon DEF Al!SkipVersion, Al!Nothing, Al!Engine
<1>5. CASE Al!Unset
  <2>1. eng' = Al!Idle /\ Al!Idle.at # "act"
    BY <1>5, IdlePass DEF Al!Unset
  <2> QED BY <1>0, <2>1, IdlePass, PassMoves, Zenon
<1> QED BY <1>1, <1>2, <1>3, <1>4, <1>5, Zenon

LEMMA ResolveStep == ASSUME AlertConstants, AlertInv, Al!Resolve PROVE AlertInv'
<1>1. alert' = [alert EXCEPT ![eng.existing] = NoAlert] /\ IsPass(eng') /\ eng'.at # "act"
  BY AdvancePass, Zenon DEF Al!Resolve, Al!Engine, AlertInv
<1>2. CASE eng.existing \in AlertIds
  BY <1>1, <1>2, AlertResolved, Zenon
<1>3. CASE eng.existing \notin AlertIds
  <2>1. UNCHANGED alert
    BY <1>1, <1>3, Zenon DEF AlertInv
  <2> QED BY <1>1, <2>1, PassMoves, Zenon
<1> QED BY <1>2, <1>3, Zenon
LEMMA AlertNext == ASSUME AlertConstants, AlertInv, [Al!Next]_(Al!vars) PROVE AlertInv'
<1>1. CASE Al!EngineStep \/ Al!LookupError \/ Al!Unset
  BY <1>1, PassStep, LookupStep, FireStep, ResolveStep, Zenon DEF Al!EngineStep
<1>2. ASSUME NEW i \in AlertIds, Al!handleResolveAlert(i) PROVE AlertInv'
  <2>1. alert' = [alert EXCEPT ![i] = NoAlert] /\ UNCHANGED eng /\ IsPass(eng')
    BY <1>2, Zenon DEF Al!handleResolveAlert, AlertInv
  <2> QED BY <2>1, AlertResolved, Zenon
<1>3. CASE UNCHANGED <<alert, eng>>
  <2>1. \A w, r : Al!Open(w, r)' = Al!Open(w, r)
    BY <1>3, Zenon DEF Al!Open
  <2>2. OneInv' /\ ActInv'
    BY <1>3, <2>1, Zenon DEF AlertInv, OneInv, ActInv, Covered
  <2> QED BY <1>3, <2>2, Zenon DEF AlertInv
<1>4. ASSUME NEW w \in Al!Workloads,
             \/ Al!Silence(w) \/ (\E a \in BOOLEAN : Al!Heard(w, a)) \/ Al!Archive(w)
             \/ \E v \in {"old", "new"} : Al!ReportsVersion(w, v)
      PROVE  UNCHANGED <<alert, eng>>
  BY <1>4, Zenon DEF Al!Silence, Al!Heard, Al!Archive, Al!ReportsVersion, Al!Workload
<1>5. ASSUME NEW w \in Al!Workloads,
             Al!Push(w) \/ \E k \in 1 .. Len(pushes[w]) : Al!PushAges(w, k) \/ \E s \in {"applied", "failed"} : Al!Report(w, k, s)
      PROVE  UNCHANGED <<alert, eng>>
  BY <1>5, Zenon DEF Al!Push, Al!PushAges, Al!Report, Al!Rows
<1>6. CASE UNCHANGED Al!vars
  BY <1>3, <1>6, Zenon DEF Al!vars
<1> QED BY <1>1, <1>2, <1>3, <1>4, <1>5, <1>6, Zenon DEF Al!Next

\* A condition has one open alert at most, although operators resolve alerts
\* between the look-up of an open alert and what the engine does about it, if no
\* look-up fails (Evaluate of internal/alerts/engine.go).
THEOREM AlertsAreUnique ==
    ASSUME AlertConstants, LookupFails = FALSE
    PROVE  Al!Spec => []Al!OneOpenAlert
<1>1. AlertInv => Al!OneOpenAlert
  BY Zenon DEF AlertInv, OneInv, Covered, RuleIds, Al!OneOpenAlert
<1>2. Al!Init => AlertInv
  BY AlertInit, Zenon
<1>3. AlertInv /\ [Al!Next]_(Al!vars) => AlertInv'
  BY AlertNext, Zenon
<1> QED BY <1>1, <1>2, <1>3, PTL DEF Al!Spec

\* workload_down keeps to this also when look-ups fail: an error ends the rule
\* (evaluateWorkloadDown).
THEOREM DownAlertsAreUnique ==
    ASSUME AlertConstants
    PROVE  Al!Spec => []Al!OneDownAlert
<1>1. AlertInv => Al!OneDownAlert
  BY Zenon DEF AlertInv, OneInv, Covered, RuleIds, Al!OneDownAlert
<1>2. Al!Init => AlertInv
  BY AlertInit, Zenon
<1>3. AlertInv /\ [Al!Next]_(Al!vars) => AlertInv'
  BY AlertNext, Zenon
<1> QED BY <1>1, <1>2, <1>3, PTL DEF Al!Spec
=============================================================================
