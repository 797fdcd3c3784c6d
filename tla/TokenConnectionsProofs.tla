----------------------- MODULE TokenConnectionsProofs -----------------------
(***************************************************************************)
(* TokenConnections for any number of sessions, tokens, goroutines and     *)
(* callers: type correctness; what the parts of the invariant of           *)
(* TokenConnectionsInv need from a step, and that every action preserves   *)
(* it, one lemma per action; what the invariant implies; then, on top of   *)
(* it, the ownership of removals and the expiry timers; and last that      *)
(* every step is one step of the gate the rest of the server relies on,    *)
(* TokenGate, or changes nothing that it can see.                          *)
(***************************************************************************)
EXTENDS TokenConnectionsGate, TLAPS

USE ConstantsAssumption

TimerType == /\ timerAt \in [Tokens -> Nat \cup {Never}] /\ timerGen \in [Tokens -> Nat]
             /\ armed \subseteq Tokens /\ nextTimerID \in Nat

\* scheduleExpiryLocked keeps expiryTimers well formed.
LEMMA ScheduleType ==
    ASSUME NEW t \in Tokens, NEW S \in SUBSET Sessions,
           NEW at \in [Tokens -> Nat \cup {Never}],
           TimerType, scheduleExpiryLocked(t, S, at)
    PROVE  TimerType'
<1>1. Expiries(t, S) \subseteq Nat
  BY Zenon DEF Expiries
<1> QED
  BY <1>1 DEF TimerType, scheduleExpiryLocked

\* beginDisableLocked keeps the sessions, removals, tombstones and timers well formed.
LEMMA BeginDisableType ==
    ASSUME TypeOK, NEW t \in Tokens, beginDisableLocked(t)
    PROVE  /\ sessions' \subseteq Sessions
           /\ removals' \in [Sessions -> {"none", "wait", "drained", "gone"}]
           /\ disable' \in [Tokens -> Stages]
           /\ disSessions' \in [Tokens -> SUBSET Sessions]
           /\ disOwned' \in [Tokens -> SUBSET Sessions]
           /\ disTodo' \in [Tokens -> SUBSET Sessions]
           /\ TimerType'
BY Zenon DEF TypeOK, beginDisableLocked, registerRemoveLocked, TimerType, Stages, SessionsOf

\* Remove keeps the sessions, removals and timers well formed.
LEMMA RemoveType ==
    ASSUME TypeOK, NEW s \in Sessions, Remove(s)
    PROVE  /\ sessions' \subseteq Sessions
           /\ removals' \in [Sessions -> {"none", "wait", "drained", "gone"}]
           /\ TimerType'
<1>1. CASE UNCHANGED <<sessVars, timerVars>>
  BY <1>1, Zenon DEF TypeOK, sessVars, timerVars, TimerType
<1>2. CASE /\ detachSessionLocked(s)
           /\ registerRemoveLocked({s})
           /\ scheduleExpiryLocked(TokenOf[s], sessions \ {s}, timerAt)
  <2>1. TimerType'
    BY <1>2, ScheduleType, Zenon DEF TypeOK, TimerType
  <2> QED
    BY <1>2, <2>1, Zenon DEF TypeOK, detachSessionLocked, registerRemoveLocked
<1> QED
  BY <1>1, <1>2, Zenon DEF Remove

\* The goroutines' part of the type invariant.
PCs == Reading \cup {"idle", "disconnect", "senderror", "load", "draining", "syncdrain",
                    "closing", "closedrain", "complete"}

ProcType == /\ pc \in [Workers -> PCs] /\ on \in [Workers -> Sessions \cup {NoSession}]
            /\ \A w \in Workers : pc[w] # "idle" => on[w] \in Sessions
            /\ \A s \in Sessions : on[s] = s

\* A goroutine that moves on keeps its session until it is idle again.
LEMMA GotoType ==
    ASSUME TypeOK, NEW w \in Workers, NEW from, NEW to \in PCs, "idle" \notin from,
           Goto(w, from, to)
    PROVE  ProcType'
<1>1. ProcType
  BY Zenon DEF TypeOK, ProcType, PCs
<1>2. pc' \in [Workers -> PCs] /\ on' \in [Workers -> Sessions \cup {NoSession}]
  BY <1>1, Zenon DEF Goto, Home, ProcType
<1>3. \A v \in Workers : pc'[v] # "idle" => on'[v] \in Sessions
  BY <1>1, Zenon DEF Goto, ProcType
<1>4. \A s \in Sessions : on'[s] = s
  BY <1>1 DEF Goto, Home, ProcType
<1> QED BY <1>2, <1>3, <1>4, Zenon DEF ProcType

\* The type invariant holds initially.
LEMMA TypeInit == Init => TypeOK
<1> SUFFICES ASSUME Init PROVE TypeOK
  BY Zenon
<1>1. /\ on \in [Workers -> Sessions \cup {NoSession}]
      /\ \A w \in Workers : pc[w] = "idle"
      /\ \A s \in Sessions : on[s] = s
  BY Zenon DEF Init, Workers, Home
<1> QED
  BY <1>1, Zenon DEF Init, TypeOK, Stages

\* Every step preserves the type invariant.
LEMMA TypeNext == TypeOK /\ [Next]_vars => TypeOK'
<1> SUFFICES ASSUME TypeOK, [Next]_vars PROVE TypeOK'
  BY Zenon
<1>1. CASE Tick
  BY <1>1 DEF Tick, TypeOK, sessVars, doneVars, procVars, disVars, stopVars, timerVars,
     callVars
<1>2. CASE beginStop
  BY <1>2, Zenon DEF beginStop, registerRemoveLocked, TypeOK, doneVars, procVars, disVars, callVars
<1>3. CASE completeStop
  BY <1>3 DEF completeStop, TypeOK, sessVars, doneVars, procVars, disVars, timerVars, callVars
<1>4. ASSUME NEW s \in Sessions, OnConnected(s) PROVE TypeOK'
  <2>1. CASE /\ phase' = [phase EXCEPT ![s] = "rejected"]
             /\ beginDisableLocked(TokenOf[s])
    BY <1>4, <2>1, BeginDisableType, Zenon DEF OnConnected, TypeOK, doneVars, procVars,
       stopVars, callVars, TimerType
  <2>2. CASE /\ phase' = [phase EXCEPT ![s] = "open"]
             /\ sessions' = sessions \cup {s}
             /\ scheduleExpiryLocked(TokenOf[s], sessions \cup {s}, timerAt)
             /\ UNCHANGED <<removals, disVars>>
    <3>1. TimerType'
      <4>1. timerAt \in [Tokens -> Nat \cup {Never}] /\ sessions \cup {s} \subseteq Sessions
        BY DEF TypeOK
      <4>2. TimerType
        BY Zenon DEF TypeOK, TimerType
      <4> QED BY <2>2, <4>1, <4>2, ScheduleType, Zenon
    <3> QED BY <1>4, <2>2, <3>1, Zenon DEF OnConnected, TypeOK, doneVars, procVars, disVars,
         stopVars, callVars, TimerType
  <2>3. CASE UNCHANGED <<sessVars, disVars, timerVars>>
    BY <1>4, <2>3, SMTT(30) DEF OnConnected, TypeOK, sessVars, doneVars, procVars, disVars,
       stopVars, timerVars, callVars
  <2> QED BY <1>4, <2>1, <2>2, <2>3, Zenon DEF OnConnected
<1>5. ASSUME NEW s \in Sessions, OnClose(s) PROVE TypeOK'
  BY <1>5, RemoveType DEF OnClose, Goto, Workers, TypeOK, doneVars, disVars, stopVars,
     callVars, TimerType
<1>6. ASSUME NEW s \in Sessions, finishHTTPResponse(s) PROVE TypeOK'
  BY <1>6, Zenon DEF finishHTTPResponse, onlyPc, Home, Workers, TypeOK, sessVars, doneVars, disVars,
     stopVars, timerVars, callVars
<1>7. ASSUME NEW s \in Sessions, finishRemove(s) PROVE TypeOK'
  BY <1>7 DEF finishRemove, TypeOK, doneVars, procVars, disVars, stopVars, timerVars, callVars
<1>8. ASSUME NEW p \in Procs, NEW s \in Sessions, NEW as \in {"message", "push"},
             Acquire(p, s, as)
      PROVE  TypeOK'
  <2>1. CASE /\ beginDisableLocked(TokenOf[s])
             /\ expiryWG' = expiryWG \cup {TokenOf[s]}
             /\ UNCHANGED <<procVars, phase>>
    BY <1>8, <2>1, BeginDisableType DEF Acquire, TypeOK, doneVars, procVars, stopVars,
       callVars, TimerType
  <2>2. CASE /\ pc' = [pc EXCEPT ![p] = as]
             /\ on' = [on EXCEPT ![p] = s]
             /\ phase' = IF s \in HTTP /\ as = "message"
                         THEN [phase EXCEPT ![s] = "served"] ELSE phase
             /\ UNCHANGED <<sessVars, disVars, timerVars, expiryWG>>
    <3>1. ProcType
      BY Zenon DEF TypeOK, ProcType, PCs
    <3>2. ProcType'
      BY <2>2, <3>1, Zenon DEF ProcType, PCs, Reading, Workers
    <3>3. phase' \in [Sessions -> {"accepted", "open", "served", "rejected", "closed"}]
      BY <2>2, Zenon DEF TypeOK
    <3> QED BY <1>8, <2>2, <3>2, <3>3, Zenon DEF Acquire, TypeOK, ProcType, PCs, sessVars,
         doneVars, disVars, stopVars, timerVars, callVars
  <2> QED BY <1>8, <2>1, <2>2, Zenon DEF Acquire
<1>9. ASSUME NEW p \in Procs, NEW q \in Procs, Fork(p, q) PROVE TypeOK'
  BY <1>9 DEF Fork, TypeOK, Workers, Reading, sessVars, doneVars, disVars, stopVars,
     timerVars, callVars
<1>10. ASSUME NEW w \in Workers, WorkerStep(w) PROVE TypeOK'
  <2>1. CASE /\ UNCHANGED onlyPc
             /\ BeginSend(w) \/ RetainHTTP(w) \/ Release(w) \/ LoadLeases(w)
    <3>1. {"idle", "disconnect", "senderror", "replying", "sending", "retained",
           "syncdrain", "draining"} \subseteq PCs
      BY Zenon DEF PCs, Reading
    <3>2. BeginSend(w) \/ RetainHTTP(w) => ProcType'
      BY <3>1, GotoType, Zenon DEF BeginSend, RetainHTTP
    <3>3. Release(w) => ProcType'
      BY <3>1, GotoType, Zenon DEF Release
    <3>4. LoadLeases(w) => ProcType'
      BY <3>1, GotoType, Zenon DEF LoadLeases
    <3> QED BY <2>1, <3>2, <3>3, <3>4, Zenon DEF onlyPc, TypeOK, ProcType, PCs, sessVars,
         doneVars, disVars, stopVars, timerVars, callVars
  <2>4. CASE RemoveSession(w)
    BY <2>4, RemoveType DEF RemoveSession, Goto, TypeOK, Reading, doneVars, disVars, stopVars,
       callVars, TimerType
  <2>6. CASE waitRemoveDrain(w)
    BY <2>6 DEF waitRemoveDrain, Goto, TypeOK, Reading, Home, Workers, sessVars, disVars,
       stopVars, timerVars, callVars
  <2>7. CASE CompleteRemove(w)
    BY <2>7 DEF CompleteRemove, Goto, TypeOK, Home, sessVars, disVars, stopVars, timerVars,
       callVars
  <2>8. BeginSend(w) \/ RetainHTTP(w) \/ Release(w) \/ LoadLeases(w) => UNCHANGED onlyPc
    BY Zenon DEF BeginSend, RetainHTTP, Release, LoadLeases
  <2> QED BY <1>10, <2>1, <2>4, <2>6, <2>7, <2>8, Zenon DEF WorkerStep
<1>11. ASSUME NEW t \in Tokens, completeDisable(t) PROVE TypeOK'
  <2> DEFINE Shapes == /\ disable \in [Tokens -> Stages] /\ disSessions \in [Tokens -> SUBSET Sessions]
                       /\ disOwned \in [Tokens -> SUBSET Sessions]
                       /\ disTodo \in [Tokens -> SUBSET Sessions]
                       /\ cleanupDone \subseteq Sessions /\ released \subseteq Sessions
                       /\ disconnected \subseteq Sessions
  <2>1. Shapes
    BY Zenon DEF TypeOK
  <2>2. CASE DrainDisabled(t)
    <3>1. Shapes'
      BY <2>1, <2>2 DEF DrainDisabled, Stages, doneVars
    <3> QED BY <1>11, <3>1, Zenon DEF completeDisable, TypeOK, sessVars, procVars, stopVars, timerVars,
         callVars
  <2>3. CASE CleanDisabled(t)
    <3>1. Shapes'
      BY <2>1, <2>3 DEF CleanDisabled, CompletedBy, Stages
    <3> QED BY <1>11, <3>1, Zenon DEF completeDisable, TypeOK, sessVars, procVars, stopVars, timerVars,
         callVars
  <2>4. CASE AwaitRemovals(t)
    <3>1. Shapes'
      BY <2>1, <2>4, Zenon DEF AwaitRemovals, Stages, doneVars
    <3> QED BY <1>11, <3>1, Zenon DEF completeDisable, TypeOK, sessVars, procVars, stopVars, timerVars,
         callVars
  <2> QED BY <1>11, <2>2, <2>3, <2>4, Zenon DEF completeDisable
<1>12. ASSUME NEW t \in Tokens, TimerFires(t) PROVE TypeOK'
  BY <1>12 DEF TimerFires, TypeOK, sessVars, doneVars, procVars, disVars, stopVars, callVars
<1>13. ASSUME NEW c \in Callers, DisableReturns(c) PROVE TypeOK'
  BY <1>13, Zenon DEF DisableReturns, TypeOK, sessVars, doneVars, procVars, disVars, stopVars,
     timerVars
<1>14. ASSUME NEW c \in Callers, NEW t \in Tokens, Disable(c, t) PROVE TypeOK'
  <2>1. CASE beginDisableLocked(t)
    BY <1>14, <2>1, BeginDisableType, ZenonT(30) DEF Disable, TypeOK, doneVars, procVars,
       stopVars, TimerType
  <2>2. CASE UNCHANGED <<sessVars, disVars, timerVars>>
    BY <1>14, <2>2 DEF Disable, TypeOK, sessVars, doneVars, procVars, disVars, stopVars,
       timerVars
  <2> QED BY <1>14, <2>1, <2>2, Zenon DEF Disable
<1>15. ASSUME NEW e \in expirers, expireTokenEnter(e) PROVE TypeOK'
  <2>1. expirers \subseteq [tok : Tokens, gen : Nat, stage : {"fired", "counted"}, at : Nat]
    BY Zenon DEF TypeOK
  <2>2. expirers' \subseteq [tok : Tokens, gen : Nat, stage : {"fired", "counted"}, at : Nat]
    BY <1>15, <2>1, Zenon DEF expireTokenEnter
  <2> QED BY <1>15, <2>2, Zenon DEF expireTokenEnter, TypeOK, sessVars, doneVars, procVars,
       disVars, stopVars, timerVars, callVars
<1>16. ASSUME NEW e \in expirers, expireTokenDecide(e) PROVE TypeOK'
  <2>1. e.tok \in Tokens
    BY Zenon DEF TypeOK
  <2>2. CASE UNCHANGED <<sessVars, disVars, timerVars, expiryWG>>
    BY <1>16, <2>2, Zenon DEF expireTokenDecide, TypeOK, sessVars, doneVars, procVars,
       disVars, stopVars, timerVars, callVars
  <2>3. CASE Rearm(e.tok) /\ UNCHANGED <<sessVars, disVars, expiryWG>>
    <3>1. TimerType'
      BY <2>1, <2>3, ScheduleType, Zenon DEF Rearm, TypeOK, TimerType
    <3> QED BY <1>16, <2>3, <3>1, Zenon DEF expireTokenDecide, TypeOK, sessVars, doneVars,
         procVars, disVars, stopVars, callVars, TimerType
  <2>4. CASE beginDisableLocked(e.tok) /\ expiryWG' = expiryWG \cup {e.tok}
    BY <1>16, <2>4, BeginDisableType DEF expireTokenDecide, TypeOK, doneVars, procVars,
       stopVars, callVars, TimerType
  <2> QED BY <1>16, <2>2, <2>3, <2>4, Zenon DEF expireTokenDecide
<1>17. CASE UNCHANGED vars
  BY <1>17, Zenon DEF vars, TypeOK, sessVars, doneVars, procVars, disVars, stopVars,
     timerVars, callVars
<1> QED
  BY <1>1, <1>2, <1>3, <1>4, <1>5, <1>6, <1>7, <1>8, <1>9, <1>10, <1>11, <1>12,
     <1>13, <1>14, <1>15, <1>16, <1>17, Zenon DEF Next

\* The variables of the session manager always have the shapes of the Go
\* structures they stand for (tokenConnections and its state records).
THEOREM TypeCorrect == Spec => []TypeOK
  BY TypeInit, TypeNext, PTL DEF Spec

---------------------------------------------------------------------------

\* The parts of the type invariant that most steps need.
LEMMA TypeSets ==
    ASSUME TypeOK
    PROVE  /\ sessions \subseteq Sessions /\ released \subseteq Sessions
           /\ cleanupDone \subseteq Sessions /\ stopActive \subseteq Sessions
           /\ \A t \in Tokens : disSessions[t] \subseteq Sessions
           /\ \A w \in Workers : pc[w] # "idle" => on[w] \in Sessions
BY Zenon DEF TypeOK

\* The functions that steps update at one argument.
LEMMA TypeDomains ==
    ASSUME TypeOK
    PROVE  /\ DOMAIN phase = Sessions /\ DOMAIN removals = Sessions
           /\ DOMAIN pc = Workers /\ DOMAIN on = Workers
           /\ DOMAIN disable = Tokens /\ DOMAIN call = Callers /\ DOMAIN callTok = Callers
BY Zenon DEF TypeOK

\* The invariant holds initially.
LEMMA InvInit == Init => Inv
<1> SUFFICES ASSUME Init PROVE Inv
  OBVIOUS
<1>1. TypeOK /\ \A s \in Sessions : Readers(s) = {}
  BY TypeInit, Zenon DEF Readers, Reading, Init
<1>2. TrackedInv /\ LeaseInv /\ LifeInv /\ ReleasedInv
  BY <1>1, Zenon DEF TrackedInv, LeaseInv, LifeInv, ReleasedInv, Init
<1>3. WorkerInv
  BY Zenon DEF WorkerInv, Init
<1>4. DisableInv /\ StopInv
  BY Zenon DEF DisableInv, StopInv, Pending, Init
<1>5. CallInv /\ ScheduledInv
  BY Zenon DEF CallInv, ScheduledInv, Init
<1> QED BY <1>2, <1>3, <1>4, <1>5, Zenon DEF Inv

SessionInv == /\ TrackedInv /\ LeaseInv /\ LifeInv /\ ReleasedInv /\ WorkerInv
              /\ DisableInv /\ StopInv

\* Steps of the clock, of the timers and of the callers of Disable alone.
LEMMA InvUnchanged ==
    ASSUME SessionInv, UNCHANGED <<phase, sessVars, doneVars, procVars, disVars, stopVars>>
    PROVE  SessionInv'
<1>1. \A s : Readers(s)' = Readers(s)
  BY Zenon DEF Readers, procVars
<1>2. TrackedInv' /\ LeaseInv' /\ LifeInv' /\ ReleasedInv'
  BY <1>1, Zenon DEF TrackedInv, LeaseInv, LifeInv, ReleasedInv, Stopped, sessVars, doneVars,
     disVars, stopVars, SessionInv
<1>3. WorkerInv'
  BY <1>1, Zenon DEF WorkerInv, sessVars, doneVars, procVars, SessionInv
<1>4. DisableInv' /\ StopInv'
  BY <1>1 DEF DisableInv, StopInv, Stopped, sessVars, doneVars, disVars, stopVars, SessionInv
<1> QED BY <1>2, <1>3, <1>4, Zenon DEF SessionInv

\* Only the steps that change these variables can disturb CallInv and ScheduledInv.
LEMMA CallUnchanged ==
    ASSUME CallInv, UNCHANGED <<call, callTok, disable, stop>> PROVE CallInv'
BY Zenon DEF CallInv

\* Tombstoning a token that is not disabled takes no finished disable away.
LEMMA CallBeginDisable ==
    ASSUME TypeOK, Inv, NEW t \in Tokens, disable[t] = "none", beginDisableLocked(t),
           UNCHANGED <<call, callTok, stop>>
    PROVE  CallInv'
<1>1. \A u \in Tokens : u # t => disable'[u] = disable[u]
  BY TypeDomains, Zenon DEF beginDisableLocked
<1> QED BY <1>1, Zenon DEF Inv, CallInv

\* A step that touches neither timers, tombstones nor the stop keeps ScheduledInv.
LEMMA ScheduledUnchanged ==
    ASSUME ScheduledInv, UNCHANGED <<timerAt, disable, stop>> PROVE ScheduledInv'
BY Zenon DEF ScheduledInv, Stopped

\* Rescheduling the timer of a token that is not tombstoned.
LEMMA ScheduledSchedule ==
    ASSUME TypeOK, ScheduledInv, NEW t \in Tokens, NEW S,
           NEW at \in [Tokens -> Nat \cup {Never}],
           \A u \in Tokens : u # t => at[u] = timerAt[u],
           scheduleExpiryLocked(t, S, at),
           disable[t] = "none", ~Stopped, UNCHANGED <<disable, stop>>
    PROVE  ScheduledInv'
BY Zenon DEF ScheduledInv, Stopped, scheduleExpiryLocked

\* Remove keeps ScheduledInv: it reschedules only for a session that was tracked.
LEMMA ScheduledRemove ==
    ASSUME TypeOK, Inv, NEW s \in Sessions, Remove(s), UNCHANGED <<disable, stop>>
    PROVE  ScheduledInv'
<1>1. CASE removals[s] \in Pending \/ Stopped \/ s \notin sessions
  BY <1>1, ScheduledUnchanged, Zenon DEF Remove, timerVars, Inv
<1>2. CASE ~(removals[s] \in Pending \/ Stopped \/ s \notin sessions)
  <2>1. disable[TokenOf[s]] = "none"
    BY <1>2, Zenon DEF Inv, TrackedInv
  <2> QED BY <1>2, <2>1, ScheduledSchedule, Zenon DEF Remove, Inv, TypeOK
<1> QED BY <1>1, <1>2, Zenon

\* What a step may do to the sessions unless it starts a disable or the stop: only
\* Track adds one, leases are taken on tracked sessions only, a removal is started
\* for a tracked session only and never forgotten, and a release is final.
SessionsAge ==
    /\ released \subseteq released' /\ disconnected \subseteq disconnected'
    /\ \A x \in Sessions :
          /\ x \in sessions' => x \in sessions \/ phase[x] = "accepted"
          /\ phase[x] # "accepted" => phase'[x] # "accepted"
          /\ x \notin sessions => Readers(x)' \subseteq Readers(x)
          /\ removals[x] # "none" => removals'[x] # "none"
          /\ removals'[x] \in Pending => removals[x] \in Pending \/ x \in sessions

\* Such a step does not disturb the tombstones it leaves alone.
LEMMA DisableKept ==
    ASSUME TypeOK, Inv, SessionsAge, UNCHANGED <<disable, disSessions, disOwned, disTodo>>
    PROVE  DisableInv'
<1> SUFFICES ASSUME NEW t \in Tokens PROVE DisableInv!(t)'
  BY Zenon DEF DisableInv
<1>1. DisableInv!(t) /\ disSessions[t] \subseteq Sessions
  BY TypeSets, Zenon DEF Inv, DisableInv
<1>2. \A s \in SessionsOf(t) : s \in Sessions /\ (s \in sessions => disable[t] = "none")
  BY Zenon DEF SessionsOf, Inv, TrackedInv
<1> QED BY <1>1, <1>2, Zenon DEF SessionsAge

\* Nor the stop.
LEMMA StopKept ==
    ASSUME TypeOK, Inv, SessionsAge, UNCHANGED <<stop, stopActive, stopOwned, stopTodo>>
    PROVE  StopInv'
<1>1. stopActive \subseteq Sessions /\ \A s \in Sessions : s \in sessions => ~Stopped
  BY TypeSets, Zenon DEF Inv, TrackedInv
<1>2. Stopped' = Stopped
  BY Zenon DEF Stopped
<1>3. stop = "done" => Stopped
  BY Zenon DEF Stopped
<1> QED BY <1>1, <1>2, <1>3, Zenon DEF Inv, StopInv, SessionsAge

\* Tombstoning a token: its tracked sessions become removals that the disable
\* owns, and it takes over the removals that are already under way.  The session
\* that found its token expired in Track moves from accepted to rejected.
LEMMA InvBeginDisable ==
    ASSUME TypeOK, Inv, NEW t \in Tokens, ~Stopped, disable[t] = "none",
           beginDisableLocked(t), UNCHANGED <<doneVars, procVars, stopVars>>,
           phase' \in [Sessions -> {"accepted", "open", "served", "rejected", "closed"}],
           \A s \in Sessions : \/ phase'[s] = phase[s]
                               \/ phase[s] = "accepted" /\ phase'[s] = "rejected"
    PROVE  SessionInv' /\ ScheduledInv'
<1>1. \A s \in Sessions : Readers(s)' = Readers(s)
  BY Zenon DEF Readers, procVars
<1>2. /\ sessions' \subseteq sessions
      /\ \A s \in sessions' : TokenOf[s] # t
  BY TypeSets, Zenon DEF beginDisableLocked, SessionsOf
<1>3. \A s \in Sessions : \/ removals'[s] = removals[s]
                          \/ /\ s \in sessions /\ TokenOf[s] = t
                             /\ removals[s] = "none" /\ removals'[s] = "wait"
  BY Zenon DEF beginDisableLocked, registerRemoveLocked, SessionsOf, Inv, TrackedInv
<1>4. \A s \in sessions : TokenOf[s] = t => removals'[s] = "wait"
  BY TypeSets, Zenon DEF beginDisableLocked, registerRemoveLocked, SessionsOf, Inv,
     TrackedInv, Pending
<1>5. \A s \in Sessions : s \in sessions => s \in sessions' \/ removals'[s] = "wait"
  BY <1>4, Zenon DEF beginDisableLocked, SessionsOf
<1>6. TrackedInv'
  BY TypeSets, <1>2, <1>3 DEF Inv, TrackedInv, beginDisableLocked, Stopped, doneVars, stopVars
<1>7. LeaseInv'
  BY <1>1, <1>3, <1>5 DEF Inv, LeaseInv
<1>8. LifeInv'
  BY <1>2, <1>3, <1>5 DEF Inv, LifeInv, doneVars
<1>9. ReleasedInv'
  BY TypeSets, <1>1, <1>2, Zenon DEF Inv, ReleasedInv, doneVars
<1>10. WorkerInv'
  BY TypeSets, <1>1, <1>2 DEF Inv, WorkerInv, Finishing, doneVars, procVars
<1>11. DisableInv'
  BY <1>1, <1>3, <1>4 DEF Inv, DisableInv, LifeInv, beginDisableLocked, SessionsOf, TypeOK,
     Pending, doneVars
<1>12. StopInv'
  BY Zenon DEF Inv, StopInv, Stopped, stopVars
<1>13. ScheduledInv'
  BY DEF Inv, ScheduledInv, beginDisableLocked, TypeOK, Stopped, stopVars
<1> QED
  BY <1>6, <1>7, <1>8, <1>9, <1>10, <1>11, <1>12, <1>13, Zenon DEF SessionInv

\* Detaching one session and registering its removal, whatever the goroutine
\* that does it: nothing else changes, and the session is no longer tracked.
LEMMA RemoveEffect ==
    ASSUME TypeOK, Inv, NEW s \in Sessions, Remove(s)
    PROVE  /\ sessions' = sessions \ {s}
           /\ \/ UNCHANGED <<sessions, removals>>
              \/ /\ s \in sessions /\ removals[s] = "none" /\ ~Stopped
                 /\ removals' = [removals EXCEPT ![s] = "wait"]
<1>1. CASE removals[s] \in Pending \/ Stopped \/ s \notin sessions
  <2>1. s \notin sessions
    BY <1>1, Zenon DEF Inv, TrackedInv, Pending
  <2> QED BY <2>1, Zenon DEF Remove, sessVars
<1>2. CASE ~(removals[s] \in Pending \/ Stopped \/ s \notin sessions)
  <2>1. removals[s] = "none"
    BY <1>2, Zenon DEF Inv, TrackedInv
  <2>2. removals' = [removals EXCEPT ![s] = "wait"]
    BY <1>2 DEF Remove, registerRemoveLocked, TypeOK
  <2> QED BY <1>2, <2>1, <2>2, Zenon DEF Remove, detachSessionLocked
<1> QED BY <1>1, <1>2, Zenon

\* A worker at w moves from pc "from" to "to" and keeps or gives up its lease.
LEMMA GotoReaders ==
    ASSUME TypeOK, NEW w \in Workers, NEW from, NEW to, Goto(w, from, to),
           to \in Reading => pc[w] \in Reading /\ to # "idle"
    PROVE  \A s \in Sessions : Readers(s)' \subseteq Readers(s)
BY Zenon DEF Goto, Readers, TypeOK

\* A step of one goroutine that only moves it on, without taking a lease.
LEMMA InvGoto ==
    ASSUME TypeOK, Inv, NEW w \in Workers, NEW from, NEW to, Goto(w, from, to),
           UNCHANGED onlyPc,
           to \in Reading => pc[w] \in Reading,
           to \notin Finishing \/ (to \in {"draining", "syncdrain"} /\ pc[w] = "load"),
           to = "syncdrain" => Readers(on[w]) = {},
           w \in Procs, pc[w] # "idle"
    PROVE  Inv'
<1>1. \A s \in Sessions : Readers(s)' \subseteq Readers(s)
  BY GotoReaders, Zenon DEF Reading
<1>2. LeaseInv'
  BY <1>1, Zenon DEF Inv, LeaseInv, onlyPc, sessVars
<1>3. ReleasedInv'
  BY TypeSets, <1>1, Zenon DEF Inv, ReleasedInv, onlyPc, sessVars, doneVars
<1>4. WorkerInv'
  <2>1. /\ \A x \in Workers \ {w} : pc'[x] = pc[x] /\ on'[x] = on[x]
        /\ pc'[w] = to /\ (to # "idle" => on'[w] = on[w])
        /\ \A x \in Workers : pc[x] # "idle" => on[x] \in Sessions
    BY DEF Goto, TypeOK
  <2>2. w \notin Sessions
    BY Zenon
  <2> SUFFICES ASSUME NEW x \in Workers PROVE WorkerInv!(x)'
    BY Zenon DEF WorkerInv
  <2>3. CASE x = w
    BY <1>1, <2>1, <2>3, Zenon DEF Inv, WorkerInv, Finishing, onlyPc, sessVars
  <2>4. CASE x # w
    BY <1>1, <2>1, <2>4 DEF Inv, WorkerInv, onlyPc, sessVars, doneVars
  <2> QED BY <2>3, <2>4, Zenon
<1>5. SessionsAge
  BY <1>1, Zenon DEF SessionsAge, onlyPc, sessVars, doneVars
<1>6. DisableInv' /\ StopInv'
  BY <1>5, DisableKept, StopKept, Zenon DEF onlyPc, disVars, stopVars
<1>7. CallInv' /\ ScheduledInv'
  BY CallUnchanged, ScheduledUnchanged, Zenon DEF Inv, timerVars, onlyPc, disVars, stopVars,
     callVars
<1> QED
  BY <1>2, <1>3, <1>4, <1>6, <1>7, Zenon DEF Inv, TrackedInv, LifeInv, Stopped, onlyPc,
     sessVars, doneVars, disVars, stopVars

\* The clock alone disturbs nothing.
LEMMA InvTick ==
    ASSUME TypeOK, Inv, Tick
    PROVE  Inv'
<1> QED
  BY InvUnchanged, CallUnchanged, ScheduledUnchanged, Zenon DEF Tick, Inv, SessionInv,
     disVars, stopVars, timerVars, callVars

\* beginStop detaches every tracked session and registers its removal.
LEMMA InvBeginStop ==
    ASSUME TypeOK, Inv, beginStop
    PROVE  Inv'
<1>1. \A s \in Sessions : Readers(s)' = Readers(s)
  BY Zenon DEF Readers, procVars, beginStop
<1>2. /\ sessions' = {}
      /\ \A s \in Sessions : removals'[s] = IF s \in sessions THEN "wait" ELSE removals[s]
  BY Zenon DEF registerRemoveLocked, Inv, TrackedInv, Pending, beginStop
<1>3. TrackedInv' /\ LeaseInv' /\ LifeInv'
  BY <1>1, <1>2 DEF Inv, TrackedInv, LeaseInv, LifeInv, doneVars, beginStop
<1>4. ReleasedInv' /\ WorkerInv'
  BY TypeSets, <1>1, Zenon DEF Inv, ReleasedInv, WorkerInv, Finishing, doneVars, procVars,
     beginStop
<1>5. DisableInv'
  <2>1. SessionsAge
    BY <1>1, <1>2, Zenon DEF SessionsAge, doneVars, beginStop
  <2> QED BY <2>1, DisableKept, Zenon DEF disVars, beginStop
<1>6. StopInv'
  BY TypeSets, <1>2, Zenon DEF Inv, StopInv, TrackedInv, Stopped, beginStop
<1>7. CallInv' /\ ScheduledInv'
  BY Zenon DEF Inv, CallInv, ScheduledInv, Stopped, disVars, callVars, beginStop
<1> QED BY <1>3, <1>4, <1>5, <1>6, <1>7, Zenon DEF Inv

\* completeStop drains, releases and completes the removals of the stop.
LEMMA InvCompleteStop ==
    ASSUME TypeOK, Inv, completeStop
    PROVE  Inv'
<1>1. \A s \in Sessions : Readers(s)' = Readers(s)
  BY Zenon DEF Readers, completeStop, procVars
<1>2. /\ sessions = {}
      /\ \A s \in stopActive : s \in Sessions
  BY TypeSets, Zenon DEF completeStop, Inv, TrackedInv, Stopped
<1>3. \A s \in released' : s \in released \/ (s \in stopActive /\ stop = "clean" /\ s \in disconnected')
  BY Zenon DEF completeStop, Inv, StopInv, doneVars
<1>4. \A s \in cleanupDone' : s \in cleanupDone \/ (s \in stopActive /\ s \in released /\ s \in disconnected)
  BY Zenon DEF completeStop, Inv, StopInv, doneVars
<1>5. released \subseteq released' /\ disconnected \subseteq disconnected'
  BY Zenon DEF completeStop, doneVars
<1>6. TrackedInv' /\ LeaseInv' /\ CallInv'
  BY <1>1, <1>2 DEF completeStop, Inv, TrackedInv, LeaseInv, CallInv, sessVars, disVars,
     callVars
<1>7. LifeInv'
  BY <1>3, <1>5, Zenon DEF completeStop, Inv, LifeInv, StopInv, sessVars, doneVars
<1>8. ReleasedInv' /\ WorkerInv'
  BY TypeSets, <1>1, <1>3, <1>5, Zenon DEF completeStop, Inv, ReleasedInv, WorkerInv, StopInv,
     sessVars, procVars
<1>9. DisableInv'
  <2>1. SessionsAge
    BY <1>1, <1>5, Zenon DEF completeStop, SessionsAge, sessVars
  <2> QED BY <2>1, DisableKept, Zenon DEF completeStop, disVars
<1>10. StopInv'
  BY TypeSets, <1>1, <1>5, Zenon DEF completeStop, Inv, StopInv, Stopped, sessVars
<1>11. ScheduledInv'
  BY Zenon DEF completeStop, Inv, ScheduledInv, Stopped, timerVars
<1> QED BY <1>6, <1>7, <1>8, <1>9, <1>10, <1>11, Zenon DEF Inv

\* Track accepts the session, rejects it, or tombstones its expired token.
LEMMA InvOnConnected ==
    ASSUME TypeOK, Inv, NEW s \in Sessions, OnConnected(s)
    PROVE  Inv'
<1>1. CASE /\ phase' = [phase EXCEPT ![s] = "rejected"]
           /\ UNCHANGED <<sessVars, disVars, timerVars>>
  <2>1. /\ UNCHANGED <<sessVars, doneVars, procVars, disVars, stopVars, timerVars, callVars>>
        /\ phase[s] = "accepted" /\ phase'[s] = "rejected"
        /\ \A x \in Sessions : x # s => phase'[x] = phase[x]
    BY <1>1, TypeDomains, Zenon DEF OnConnected
  <2>2. \A x \in Sessions : Readers(x)' = Readers(x)
    BY <2>1, Zenon DEF Readers, procVars
  <2>3. SessionsAge
    BY <2>1, <2>2, Zenon DEF SessionsAge, sessVars, doneVars
  <2>4. DisableInv' /\ StopInv'
    BY <2>1, <2>3, DisableKept, StopKept, Zenon DEF disVars, stopVars
  <2>5. TrackedInv' /\ LeaseInv' /\ LifeInv'
    BY <2>1, <2>2, TypeSets DEF Inv, TrackedInv, LeaseInv, LifeInv, Stopped, sessVars,
       doneVars, disVars, stopVars
  <2>6. ReleasedInv' /\ WorkerInv'
    BY <2>1, <2>2, TypeSets, SMTT(30) DEF Inv, ReleasedInv, WorkerInv, sessVars, doneVars,
       procVars
  <2> QED BY <2>1, <2>4, <2>5, <2>6, CallUnchanged, ScheduledUnchanged, Zenon DEF Inv,
       disVars, stopVars, timerVars, callVars
<1>2. CASE /\ ~Stopped /\ disable[TokenOf[s]] = "none"
           /\ phase' = [phase EXCEPT ![s] = "rejected"]
           /\ beginDisableLocked(TokenOf[s])
  <2>1. \A x \in Sessions : phase'[x] = phase[x] \/ (phase[x] = "accepted" /\ phase'[x] = "rejected")
    BY <1>2, SMTT(30) DEF OnConnected, TypeOK
  <2>2. CallInv'
    BY <1>2, CallBeginDisable, Zenon DEF OnConnected, stopVars, callVars
  <2>3. phase' \in [Sessions -> {"accepted", "open", "served", "rejected", "closed"}]
    BY <1>2, Zenon DEF TypeOK
  <2>4. UNCHANGED <<doneVars, procVars, stopVars>>
    BY Zenon DEF OnConnected
  <2>5. SessionInv' /\ ScheduledInv'
    BY <1>2, <2>1, <2>3, <2>4, InvBeginDisable, Zenon
  <2> QED BY <2>2, <2>5, Zenon DEF Inv, SessionInv
<1>3. CASE /\ ~Stopped /\ disable[TokenOf[s]] = "none"
           /\ phase' = [phase EXCEPT ![s] = "open"]
           /\ sessions' = sessions \cup {s}
           /\ scheduleExpiryLocked(TokenOf[s], sessions \cup {s}, timerAt)
           /\ UNCHANGED <<removals, disVars>>
  <2>1. /\ UNCHANGED <<removals, doneVars, procVars, disVars, stopVars, callVars>>
        /\ sessions' = sessions \cup {s} /\ ~Stopped /\ disable[TokenOf[s]] = "none"
        /\ phase[s] = "accepted" /\ phase'[s] = "open"
        /\ \A x \in Sessions : x # s => phase'[x] = phase[x]
    BY <1>3, TypeDomains, Zenon DEF OnConnected
  <2>2. removals[s] = "none" /\ s \notin released
    BY <2>1, Zenon DEF Inv, LifeInv
  <2>3. \A x \in Sessions : Readers(x)' = Readers(x)
    BY <2>1, Zenon DEF Readers, procVars
  <2>4. SessionsAge
    BY <2>1, <2>3, Zenon DEF SessionsAge, doneVars
  <2>5. DisableInv' /\ StopInv'
    BY <2>1, <2>4, DisableKept, StopKept, Zenon DEF disVars, stopVars
  <2>6. TrackedInv' /\ LeaseInv' /\ LifeInv'
    BY <2>1, <2>3, TypeSets DEF Inv, TrackedInv, LeaseInv, LifeInv, Stopped, doneVars,
       disVars, stopVars
  <2>7. ReleasedInv' /\ WorkerInv'
    BY <2>1, <2>3, TypeSets DEF Inv, ReleasedInv, WorkerInv, Finishing, doneVars, procVars
  <2>8. ScheduledInv'
    BY <1>3, <2>1, ScheduledSchedule, Zenon DEF Inv, TypeOK, disVars, stopVars
  <2> QED BY <2>1, <2>5, <2>6, <2>7, <2>8, CallUnchanged, Zenon DEF Inv, disVars, stopVars, callVars
<1> QED BY <1>1, <1>2, <1>3, Zenon DEF OnConnected

\* A close callback detaches its session.
LEMMA InvOnClose ==
    ASSUME TypeOK, Inv, NEW s \in Sessions, OnClose(s)
    PROVE  Inv'
<1>1. /\ sessions' = sessions \ {s}
      /\ \/ UNCHANGED <<sessions, removals>>
         \/ /\ s \in sessions /\ removals[s] = "none" /\ ~Stopped
            /\ removals' = [removals EXCEPT ![s] = "wait"]
  BY RemoveEffect, Zenon DEF OnClose
<1>2. \A x \in Sessions : Readers(x)' = Readers(x)
  BY DEF Readers, Goto, Reading, OnClose, TypeOK
<1>3. \A x \in Sessions : phase'[x] = IF x = s THEN "closed" ELSE phase[x]
  BY Zenon DEF TypeOK, OnClose
<1>4. TrackedInv' /\ LeaseInv' /\ LifeInv'
  BY <1>1, <1>2 DEF Inv, TrackedInv, LeaseInv, LifeInv, TypeOK, Stopped, doneVars, disVars,
     stopVars, OnClose
<1>5. ReleasedInv'
  BY TypeSets, <1>1, <1>2 DEF Inv, ReleasedInv, doneVars, OnClose
<1>6. WorkerInv'
  <2>1. /\ \A w \in Workers : on'[w] = on[w] /\ (w # s => pc'[w] = pc[w])
        /\ pc'[s] = "closing" /\ on[s] = s /\ s \notin Procs
        /\ \A w \in Workers : pc[w] # "idle" => on[w] \in Sessions
    BY Zenon DEF Goto, TypeOK, Workers, OnClose
  <2> SUFFICES ASSUME NEW w \in Workers PROVE WorkerInv!(w)'
    BY Zenon DEF WorkerInv
  <2>2. CASE w = s
    BY <1>1, <1>3, <2>1, <2>2, Zenon
  <2>3. CASE w # s
    BY <1>1, <1>2, <1>3, <2>1, <2>3 DEF Inv, WorkerInv, doneVars, OnClose
  <2> QED BY <2>2, <2>3, Zenon
<1>7. SessionsAge
  BY <1>1, <1>2, TypeDomains, Zenon DEF SessionsAge, doneVars, OnClose
<1>8. DisableInv' /\ StopInv' /\ CallInv'
  BY <1>7, DisableKept, StopKept, CallUnchanged, Zenon DEF Inv, disVars, stopVars, callVars,
     OnClose
<1>9. ScheduledInv'
  BY ScheduledRemove, Zenon DEF disVars, stopVars, OnClose
<1> QED BY <1>4, <1>5, <1>6, <1>8, <1>9, Zenon DEF Inv

\* finishHTTPResponse ends the lease that an HTTP response has retained.
LEMMA InvFinishHTTP ==
    ASSUME TypeOK, Inv, NEW s \in Sessions, finishHTTPResponse(s)
    PROVE  Inv'
<1>1. \A x \in Sessions : Readers(x)' \subseteq Readers(x)
  BY Zenon DEF Readers, Reading, Workers, finishHTTPResponse
<1>2. TrackedInv' /\ LeaseInv' /\ LifeInv' /\ CallInv'
  BY <1>1, Zenon DEF Inv, TrackedInv, LeaseInv, LifeInv, CallInv, Stopped, sessVars, doneVars,
     disVars, stopVars, callVars, finishHTTPResponse, onlyPc
<1>3. ReleasedInv'
  BY TypeSets, <1>1, Zenon DEF Inv, ReleasedInv, sessVars, doneVars, finishHTTPResponse,
     onlyPc
<1>4. WorkerInv'
  <2>1. /\ \A w \in Workers : pc'[w] # "idle" => on'[w] = on[w]
        /\ \A w \in Workers : pc'[w] \in {pc[w], "idle"} \/ w = s
        /\ pc[s] = "closing" /\ pc'[s] = "closedrain" /\ on[s] = s /\ s \notin Procs
        /\ \A w \in Workers : pc[w] # "idle" => on[w] \in Sessions
    BY Zenon DEF TypeOK, Workers, finishHTTPResponse
  <2> SUFFICES ASSUME NEW w \in Workers PROVE WorkerInv!(w)'
    BY Zenon DEF WorkerInv
  <2>2. CASE w = s
    BY <2>2, Zenon DEF Inv, WorkerInv, Finishing, sessVars, finishHTTPResponse, onlyPc
  <2>3. CASE w # s
    BY <1>1, <2>1, <2>3, Zenon DEF Inv, WorkerInv, Finishing, sessVars, doneVars,
       finishHTTPResponse, onlyPc
  <2> QED BY <2>2, <2>3, Zenon
<1>5. DisableInv' /\ StopInv'
  <2>1. SessionsAge
    BY <1>1, Zenon DEF SessionsAge, sessVars, doneVars, finishHTTPResponse, onlyPc
  <2> QED BY <2>1, DisableKept, StopKept, Zenon DEF disVars, stopVars, finishHTTPResponse,
       onlyPc
<1> QED BY <1>2, <1>3, <1>4, <1>5, ScheduledUnchanged, Zenon DEF Inv, disVars, stopVars,
     timerVars, finishHTTPResponse, onlyPc

\* finishRemove drains the leases of a detached session.
LEMMA InvFinishRemove ==
    ASSUME TypeOK, Inv, NEW s \in Sessions, finishRemove(s)
    PROVE  Inv'
<1>1. \A x \in Sessions : Readers(x)' = Readers(x)
  BY Zenon DEF Readers, procVars, finishRemove
<1>2. TrackedInv' /\ LifeInv' /\ CallInv'
  BY DEF Inv, TrackedInv, LifeInv, CallInv, Stopped, TypeOK, doneVars, disVars, stopVars,
     callVars, finishRemove
<1>3. LeaseInv'
  BY <1>1 DEF Inv, LeaseInv, TypeOK, finishRemove
<1>4. ReleasedInv' /\ WorkerInv'
  BY TypeSets, <1>1, Zenon DEF Inv, ReleasedInv, WorkerInv, doneVars, procVars, finishRemove
<1>5. DisableInv' /\ StopInv'
  <2>1. SessionsAge
    BY <1>1, TypeDomains, Zenon DEF SessionsAge, Pending, doneVars, finishRemove
  <2> QED BY <2>1, DisableKept, StopKept, Zenon DEF disVars, stopVars, finishRemove
<1> QED BY <1>2, <1>3, <1>4, <1>5, ScheduledUnchanged, Zenon DEF Inv, disVars, stopVars,
     timerVars, finishRemove

\* Acquire takes a lease on a tracked session, or tombstones an expired token.
LEMMA InvAcquire ==
    ASSUME TypeOK, Inv, NEW p \in Procs, NEW s \in Sessions, NEW as \in {"message", "push"}, Acquire(p, s, as)
    PROVE  Inv'
<1>1. CASE beginDisableLocked(TokenOf[s]) /\ UNCHANGED <<procVars, phase>>
  <2>1. CallInv'
    BY <1>1, CallBeginDisable, Zenon DEF stopVars, callVars, Acquire, Admits
  <2>2. phase' \in [Sessions -> {"accepted", "open", "served", "rejected", "closed"}]
    BY <1>1, Zenon DEF TypeOK
  <2>3. SessionInv' /\ ScheduledInv'
    BY <1>1, <2>2, InvBeginDisable, Zenon DEF Acquire, Admits
  <2> QED BY <2>1, <2>3, Zenon DEF SessionInv, Inv
<1>2. CASE /\ pc' = [pc EXCEPT ![p] = as]
           /\ on' = [on EXCEPT ![p] = s]
           /\ phase' = IF s \in HTTP /\ as = "message"
                       THEN [phase EXCEPT ![s] = "served"] ELSE phase
           /\ UNCHANGED <<sessVars, disVars, timerVars, expiryWG>>
  <2>1. /\ UNCHANGED <<sessVars, disVars, timerVars, doneVars, stopVars, callVars>>
        /\ s \in sessions
    BY <1>2, Zenon DEF Acquire, Admits
  <2>2. /\ phase[s] \in {"open", "served"} /\ removals[s] = "none" /\ s \notin released
        /\ phase'[s] \in {"open", "served"}
        /\ \A x \in Sessions : x # s => phase'[x] = phase[x]
    <3>1. phase[s] \in {"open", "served"} /\ removals[s] = "none" /\ s \notin released
      BY <2>1, Zenon DEF Inv, TrackedInv
    <3>2. DOMAIN phase = Sessions
      BY Zenon DEF TypeOK
    <3> QED BY <1>2, <3>1, <3>2, Zenon
  <2>3. /\ \A w \in Workers : w # p => pc'[w] = pc[w] /\ on'[w] = on[w]
        /\ pc'[p] = as /\ on'[p] = s /\ p \notin Sessions
        /\ \A w \in Workers : pc[w] # "idle" => on[w] \in Sessions
    BY <1>2, Zenon DEF TypeOK, Workers
  <2>4. \A x \in Sessions : x # s => Readers(x)' \subseteq Readers(x)
    BY <2>3, Zenon DEF Readers
  <2>5. TrackedInv' /\ LeaseInv' /\ LifeInv'
    BY TypeSets, <2>1, <2>2, <2>4 DEF Inv, TrackedInv, LeaseInv, LifeInv, Stopped, sessVars,
       doneVars, disVars, stopVars
  <2>6. ReleasedInv'
    BY TypeSets, <2>1, <2>2, <2>4, Zenon DEF Inv, ReleasedInv, sessVars, doneVars
  <2>7. WorkerInv'
    <3> SUFFICES ASSUME NEW w \in Workers PROVE WorkerInv!(w)'
      BY Zenon DEF WorkerInv
    <3>1. CASE w = p
      BY <2>2, <2>3, <3>1, Zenon DEF Finishing
    <3>2. pc[w] = "syncdrain" => on[w] # s
      BY <2>1, Zenon DEF Inv, WorkerInv, Finishing
    <3>3. CASE w # p
      BY <2>1, <2>2, <2>3, <2>4, <3>2, <3>3 DEF Inv, WorkerInv, sessVars, doneVars
    <3> QED BY <3>1, <3>3, Zenon
  <2>8. SessionsAge
    BY <2>1, <2>2, <2>4, Zenon DEF SessionsAge, sessVars, doneVars
  <2>9. DisableInv' /\ StopInv'
    BY <2>1, <2>8, DisableKept, StopKept, Zenon DEF disVars, stopVars
  <2> QED BY <2>1, <2>5, <2>6, <2>7, <2>9, CallUnchanged, ScheduledUnchanged, Zenon DEF Inv,
       disVars, stopVars, timerVars, callVars
<1> QED BY <1>1, <1>2, Zenon DEF Acquire

\* Fork takes a second lease on a session that its caller has leased.
LEMMA InvFork ==
    ASSUME TypeOK, Inv, NEW p \in Procs, NEW q \in Procs, Fork(p, q)
    PROVE  Inv'
<1> DEFINE s == on[p]
<1>1. /\ s \in Sessions /\ s \in sessions /\ s \notin released /\ phase[s] # "accepted"
      /\ removals[s] = "none"
  BY TypeSets, Zenon DEF Inv, TrackedInv, Fork, Admits
<1>2. \A x \in Sessions : x # s => Readers(x)' \subseteq Readers(x)
  BY Zenon DEF Readers, TypeOK, Workers, Fork
<1>3. TrackedInv' /\ LeaseInv' /\ LifeInv' /\ CallInv'
  BY <1>1, <1>2 DEF Inv, TrackedInv, LeaseInv, LifeInv, CallInv, Stopped, sessVars, doneVars,
     disVars, stopVars, callVars, Fork
<1>4. ReleasedInv'
  BY TypeSets, <1>1, <1>2, Zenon DEF Inv, ReleasedInv, sessVars, doneVars, Fork
<1>5. WorkerInv'
  <2>1. /\ \A w \in Workers : w # q => pc'[w] = pc[w] /\ on'[w] = on[w]
        /\ pc'[q] = "forked" /\ on'[q] = s /\ q \notin Sessions
        /\ \A w \in Workers : pc[w] # "idle" => on[w] \in Sessions
    BY Zenon DEF TypeOK, Workers, Fork
  <2> SUFFICES ASSUME NEW w \in Workers PROVE WorkerInv!(w)'
    BY Zenon DEF WorkerInv
  <2>2. CASE w = q
    BY <1>1, <2>1, <2>2, Zenon DEF Finishing, Fork
  <2>3. pc[w] = "syncdrain" => on[w] # s
    BY <1>1, Zenon DEF Inv, WorkerInv, Finishing
  <2>4. CASE w # q
    BY <1>2, <2>1, <2>3, <2>4 DEF Inv, WorkerInv, sessVars, doneVars, Fork
  <2> QED BY <2>2, <2>4, Zenon
<1>6. SessionsAge
  BY <1>1, <1>2, Zenon DEF SessionsAge, sessVars, doneVars, Fork
<1>7. DisableInv' /\ StopInv'
  BY <1>6, DisableKept, StopKept, Zenon DEF disVars, stopVars, Fork
<1> QED BY <1>3, <1>4, <1>5, <1>7, ScheduledUnchanged, Zenon DEF Inv, disVars, stopVars,
     timerVars, Fork

---------------------------------------------------------------------------
(* Goroutines, disables and timers. *)

\* One step of a goroutine: it sends, gives its lease back, removes or finishes.
LEMMA InvWorkerStep ==
    ASSUME TypeOK, Inv, NEW w \in Workers, WorkerStep(w)
    PROVE  Inv'
<1>0. /\ pc[w] \notin {"idle", "closedrain", "complete"} => w \in Procs \/ pc[w] = "closing"
      /\ pc[w] # "idle" => on[w] \in Sessions
  BY TypeSets, Zenon DEF Inv, WorkerInv, Workers
<1>1. CASE BeginSend(w)
  BY <1>0, <1>1, InvGoto, Zenon DEF BeginSend, Goto, Reading, Finishing
<1>2. CASE RetainHTTP(w)
  BY <1>0, <1>2, InvGoto, Zenon DEF RetainHTTP, Goto, Reading, Finishing
<1>3. CASE Release(w)
  BY <1>0, <1>3, InvGoto, Zenon DEF Release, Goto, Reading, Finishing
<1>4. CASE RemoveSession(w)
  <2> USE <1>4 DEF RemoveSession
  <2> DEFINE s == on[w]
  <2>1. s \in Sessions /\ w \in Procs /\ phase[s] # "accepted" /\ w \notin Sessions
    BY <1>0, Zenon DEF Goto, Inv, WorkerInv
  <2>2. /\ sessions' = sessions \ {s}
        /\ \/ UNCHANGED <<sessions, removals>>
           \/ /\ s \in sessions /\ removals[s] = "none" /\ ~Stopped
              /\ removals' = [removals EXCEPT ![s] = "wait"]
    BY <2>1, RemoveEffect, Zenon
  <2>3. \A x \in Sessions : Readers(x)' \subseteq Readers(x)
    BY GotoReaders, Zenon DEF Reading
  <2>4. TrackedInv' /\ LeaseInv' /\ LifeInv' /\ CallInv'
    BY <2>2, <2>3 DEF Inv, TrackedInv, LeaseInv, LifeInv, CallInv, TypeOK, Stopped, doneVars,
       disVars, stopVars, callVars
  <2>5. ReleasedInv'
    BY TypeSets, <2>2, <2>3, Zenon DEF Inv, ReleasedInv, doneVars
  <2>6. WorkerInv'
    <3>1. /\ \A x \in Workers : on'[x] = on[x] /\ (x # w => pc'[x] = pc[x])
          /\ pc'[w] \in {"draining", "load"}
          /\ \A x \in Workers : pc[x] # "idle" => on[x] \in Sessions
      BY DEF Goto, TypeOK
    <3> SUFFICES ASSUME NEW x \in Workers PROVE WorkerInv!(x)'
      BY Zenon DEF WorkerInv
    <3>2. CASE x = w
      BY <2>1, <2>2, <3>1, <3>2, Zenon
    <3>3. CASE x # w
      BY <2>2, <2>3, <3>1, <3>3 DEF Inv, WorkerInv, doneVars
    <3> QED BY <3>2, <3>3, Zenon
  <2>7. SessionsAge
    BY <2>2, <2>3, TypeDomains, Zenon DEF SessionsAge, doneVars
  <2>8. DisableInv' /\ StopInv'
    BY <2>7, DisableKept, StopKept, Zenon DEF disVars, stopVars
  <2>9. ScheduledInv'
    BY <2>1, ScheduledRemove, Zenon DEF disVars, stopVars
  <2> QED BY <2>4, <2>5, <2>6, <2>8, <2>9, Zenon DEF Inv
<1>5. CASE LoadLeases(w)
  BY <1>0, <1>5, InvGoto, Zenon DEF LoadLeases, Goto, Reading
<1>6. CASE waitRemoveDrain(w)
  <2> USE <1>6 DEF waitRemoveDrain
  <2> DEFINE s == on[w]
  <2>1. s \in Sessions /\ s \notin sessions /\ phase[s] # "accepted" /\ pc[w] \in Finishing
    BY <1>0, Zenon DEF Goto, Inv, WorkerInv, Finishing
  <2>2. Readers(s) = {}
    BY <2>1, Zenon DEF Drained, Inv, LeaseInv
  <2>3. \A x \in Sessions : Readers(x)' \subseteq Readers(x)
    BY GotoReaders, Zenon DEF Reading
  <2>4. /\ \A x \in Workers : on'[x] = on[x] /\ (x # w => pc'[x] = pc[x])
        /\ pc'[w] = "complete"
        /\ released' = released \cup {s}
        /\ phase[s] = "closed" \/ s \in disconnected'
        /\ disconnected \subseteq disconnected'
    BY DEF Goto, TypeOK, Inv, WorkerInv
  <2>5. TrackedInv' /\ LeaseInv' /\ LifeInv' /\ CallInv'
    BY <2>1, <2>3 DEF Inv, TrackedInv, LeaseInv, LifeInv, CallInv, Stopped, sessVars, disVars,
       stopVars, callVars
  <2>6. ReleasedInv'
    BY TypeSets, <2>1, <2>2, <2>3, Zenon DEF Inv, ReleasedInv, sessVars
  <2>7. WorkerInv'
    <3>1. \A x \in Workers : pc[x] # "idle" => on[x] \in Sessions
      BY Zenon DEF TypeOK
    <3> SUFFICES ASSUME NEW x \in Workers PROVE WorkerInv!(x)'
      BY Zenon DEF WorkerInv
    <3>2. CASE x = w
      BY <2>1, <2>4, <3>2, Zenon DEF sessVars
    <3>3. CASE x # w
      BY <2>3, <2>4, <3>1, <3>3, Zenon DEF Inv, WorkerInv, sessVars
    <3> QED BY <3>2, <3>3, Zenon
  <2>8. DisableInv' /\ StopInv'
    <3>1. SessionsAge
      BY <2>3, Zenon DEF SessionsAge, sessVars
    <3> QED BY <3>1, DisableKept, StopKept, Zenon DEF disVars, stopVars
  <2> QED BY <2>5, <2>6, <2>7, <2>8, ScheduledUnchanged, Zenon DEF Inv, disVars, stopVars,
       timerVars
<1>7. CASE CompleteRemove(w)
  <2> USE <1>7 DEF CompleteRemove
  <2> DEFINE s == on[w]
  <2>1. /\ s \in Sessions /\ s \in released
        /\ phase[s] = "closed" \/ s \in disconnected
    BY <1>0, Zenon DEF Goto, Inv, WorkerInv
  <2>2. \A x \in Sessions : Readers(x)' \subseteq Readers(x)
    BY GotoReaders, Zenon DEF Reading
  <2>3. TrackedInv' /\ LeaseInv' /\ LifeInv' /\ CallInv'
    BY <2>1, <2>2, Zenon DEF Inv, TrackedInv, LeaseInv, LifeInv, CallInv, Stopped, Pending,
       sessVars, disVars, stopVars, callVars
  <2>4. ReleasedInv'
    BY TypeSets, <2>2, Zenon DEF Inv, ReleasedInv, sessVars
  <2>5. WorkerInv'
    <3>1. /\ \A x \in Workers : x # w => pc'[x] = pc[x] /\ on'[x] = on[x]
          /\ pc'[w] = "idle"
          /\ \A x \in Workers : pc[x] # "idle" => on[x] \in Sessions
      BY DEF Goto, TypeOK
    <3> SUFFICES ASSUME NEW x \in Workers PROVE WorkerInv!(x)'
      BY Zenon DEF WorkerInv
    <3>2. CASE x = w
      BY <3>1, <3>2, Zenon DEF Finishing
    <3>3. CASE x # w
      BY <2>2, <3>1, <3>3, Zenon DEF Inv, WorkerInv, sessVars
    <3> QED BY <3>2, <3>3, Zenon
  <2>6. DisableInv' /\ StopInv'
    <3>1. SessionsAge
      BY <2>2, Zenon DEF SessionsAge, sessVars
    <3> QED BY <3>1, DisableKept, StopKept, Zenon DEF disVars, stopVars
  <2> QED BY <2>3, <2>4, <2>5, <2>6, ScheduledUnchanged, Zenon DEF Inv, disVars, stopVars,
       timerVars
<1> QED BY <1>1, <1>2, <1>3, <1>4, <1>5, <1>6, <1>7, Zenon DEF WorkerStep

\* completeDisable drains, releases and completes the removals of a tombstone.
LEMMA InvCompleteDisable ==
    ASSUME TypeOK, Inv, NEW t \in Tokens, completeDisable(t)
    PROVE  Inv'
<1>1. /\ DrainDisabled(t) \/ CleanDisabled(t) \/ AwaitRemovals(t)
      /\ UNCHANGED <<phase, sessions, removals, pc, on, stopVars, timerVars, callVars>>
  BY Zenon DEF completeDisable, sessVars, procVars
<1>2. \A x \in Sessions : Readers(x)' = Readers(x)
  BY <1>1, Zenon DEF Readers
<1>3. /\ \A x \in released' : \/ x \in released
                              \/ /\ x \in disSessions[t] /\ disable[t] = "clean"
                                 /\ x \in disconnected'
      /\ \A x \in cleanupDone' : \/ x \in cleanupDone
                                 \/ /\ x \in disSessions[t]
                                    /\ x \in released /\ x \in disconnected
      /\ released \subseteq released' /\ disconnected \subseteq disconnected'
      /\ cleanupDone \subseteq cleanupDone'
  BY <1>1 DEF DrainDisabled, CleanDisabled, AwaitRemovals, CompletedBy, Inv, DisableInv,
     doneVars
<1>4. /\ disable[t] \notin {"none", "done"} /\ disable'[t] # "none"
      /\ \A u \in Tokens : u # t => disable'[u] = disable[u]
  <2>1. DOMAIN disable = Tokens
    BY Zenon DEF TypeOK
  <2>2. CASE DrainDisabled(t)
    BY <2>1, <2>2, Zenon DEF DrainDisabled
  <2>3. CASE CleanDisabled(t)
    BY <2>1, <2>3, Zenon DEF CleanDisabled
  <2>4. CASE AwaitRemovals(t)
    BY <2>4 DEF AwaitRemovals, TypeOK
  <2> QED BY <1>1, <2>2, <2>3, <2>4, Zenon
<1>5. \A x \in disSessions[t] : x \in Sessions /\ TokenOf[x] = t
  BY TypeSets, Zenon DEF Inv, DisableInv
<1>6. TrackedInv' /\ LeaseInv'
  BY TypeSets, <1>1, <1>2, <1>3, <1>4, <1>5 DEF Inv, TrackedInv, LeaseInv, Stopped, stopVars
<1>7. LifeInv'
  BY <1>1, <1>3, Zenon DEF Inv, LifeInv, DisableInv
<1>8. ReleasedInv'
  <2> SUFFICES ASSUME NEW s \in released'
               PROVE  Readers(s)' = {} /\ s \notin sessions' /\ phase'[s] # "accepted"
    BY Zenon DEF ReleasedInv
  <2>1. CASE s \in released
    BY <1>1, <1>2, <2>1, TypeSets, Zenon DEF Inv, ReleasedInv
  <2>2. CASE s \notin released
    <3>1. s \in disSessions[t] /\ disable[t] = "clean" /\ s \in Sessions
      BY <1>3, <1>5, <2>2, Zenon
    <3>2. Readers(s) = {} /\ s \notin sessions /\ phase[s] # "accepted"
      BY <3>1, Zenon DEF Inv, DisableInv
    <3> QED BY <1>1, <1>2, <3>1, <3>2, Zenon
  <2> QED BY <2>1, <2>2, Zenon
<1>9. WorkerInv'
  BY TypeSets, <1>1, <1>2, <1>3, Zenon DEF Inv, WorkerInv
<1>10. StopInv' /\ CallInv'
  <2>1. SessionsAge
    BY <1>1, <1>2, <1>3, Zenon DEF SessionsAge
  <2>2. StopInv'
    BY <1>1, <2>1, StopKept, Zenon DEF stopVars
  <2> QED BY <1>1, <1>4, <2>2, Zenon DEF Inv, CallInv, stopVars, callVars
<1>11. DisableInv'
  <2> SUFFICES ASSUME NEW u \in Tokens PROVE DisableInv!(u)'
    BY Zenon DEF DisableInv
  <2>1. CASE u # t
    <3>1. /\ disable'[u] = disable[u] /\ disSessions'[u] = disSessions[u]
          /\ disOwned'[u] = disOwned[u] /\ disTodo'[u] = disTodo[u]
          /\ disSessions[u] \subseteq Sessions
      BY <1>1, <2>1, SMTT(30) DEF DrainDisabled, CleanDisabled, AwaitRemovals, TypeOK
    <3>2. DisableInv!(u)
      BY Zenon DEF Inv, DisableInv
    <3> QED BY <1>1, <1>2, <1>3, <3>1, <3>2, Zenon DEF SessionsOf, Pending
  <2>2. CASE u = t /\ DrainDisabled(t)
    BY <1>1, <1>2, <1>5, <2>2, SMTT(30) DEF DrainDisabled, Inv, DisableInv, TypeOK, doneVars
  <2>3. CASE u = t /\ CleanDisabled(t)
    BY <1>1, <1>2, <2>3, SMTT(60) DEF CleanDisabled, Inv, DisableInv, TypeOK, SessionsOf
  <2>4. CASE u = t /\ AwaitRemovals(t)
    BY <1>1, <1>2, <1>3, <1>5, <2>4, SMTT(60) DEF AwaitRemovals, AwaitedBy, Inv, DisableInv,
       TypeOK, SessionsOf, Pending
  <2> QED BY <1>1, <2>1, <2>2, <2>3, <2>4, Zenon
<1>12. ScheduledInv'
  BY <1>1, <1>4, Zenon DEF Inv, ScheduledInv, Stopped, stopVars, timerVars
<1> QED BY <1>6, <1>7, <1>8, <1>9, <1>10, <1>11, <1>12, Zenon DEF Inv

\* A timer fires: only its callback is new.
LEMMA InvTimerFires ==
    ASSUME TypeOK, Inv, NEW t \in Tokens, TimerFires(t)
    PROVE  Inv'
<1> QED
  BY InvUnchanged, CallUnchanged, ScheduledUnchanged, Zenon DEF TimerFires, Inv, SessionInv,
     disVars, stopVars, callVars

\* Disable returns once its tombstone, or the stop, is done.
LEMMA InvDisableReturns ==
    ASSUME TypeOK, Inv, NEW c \in Callers, DisableReturns(c)
    PROVE  Inv'
<1>0. DOMAIN call = Callers
  BY Zenon DEF TypeOK
<1>1. CallInv'
  BY <1>0 DEF DisableReturns, Inv, CallInv, disVars, stopVars
<1> QED BY <1>1, InvUnchanged, ScheduledUnchanged, Zenon DEF DisableReturns, Inv, SessionInv,
     disVars, stopVars, timerVars

\* Disable tombstones the token, or joins who did.
LEMMA InvDisable ==
    ASSUME TypeOK, Inv, NEW c \in Callers, NEW t \in Tokens, Disable(c, t)
    PROVE  Inv'
<1>1. CASE ~Stopped /\ disable[t] = "none" /\ beginDisableLocked(t)
  <2>1. CallInv'
    <3>1. \A u \in Tokens : u # t => disable'[u] = disable[u]
      BY <1>1, TypeDomains, Zenon DEF beginDisableLocked
    <3>2. /\ call' = [call EXCEPT ![c] = "disable"] /\ callTok' = [callTok EXCEPT ![c] = t]
          /\ stop' = stop
      BY <1>1, Zenon DEF Disable, stopVars
    <3> QED BY <1>1, <3>1, <3>2, TypeDomains, Zenon DEF Inv, CallInv
  <2>2. UNCHANGED <<phase, doneVars, procVars, stopVars>>
    BY Zenon DEF Disable
  <2>3. SessionInv' /\ ScheduledInv'
    BY <1>1, <2>2, InvBeginDisable, Zenon DEF TypeOK
  <2> QED BY <2>1, <2>3, Zenon DEF SessionInv, Inv
<1>2. CASE UNCHANGED <<sessVars, disVars, timerVars>>
  <2>1. CallInv'
    BY <1>2 DEF Disable, Inv, CallInv, TypeOK, disVars, stopVars
  <2> QED BY <1>2, <2>1, InvUnchanged, ScheduledUnchanged, Zenon DEF Disable, Inv, SessionInv,
       disVars, stopVars, timerVars
<1> QED BY <1>1, <1>2, Zenon DEF Disable

\* expireToken enters.
LEMMA InvExpireEnter ==
    ASSUME TypeOK, Inv, NEW e \in expirers, expireTokenEnter(e)
    PROVE  Inv'
<1> QED
  BY InvUnchanged, CallUnchanged, ScheduledUnchanged, Zenon DEF expireTokenEnter, Inv,
     SessionInv, disVars, stopVars, timerVars, callVars

\* expireToken ignores a stale timer, rearms a current one, or tombstones the token.
LEMMA InvExpireDecide ==
    ASSUME TypeOK, Inv, NEW e \in expirers, expireTokenDecide(e)
    PROVE  Inv'
<1>0. e.tok \in Tokens
  BY Zenon DEF TypeOK
<1>1. CASE UNCHANGED <<sessVars, disVars, timerVars>>
  BY <1>1, InvUnchanged, CallUnchanged, ScheduledUnchanged, Zenon DEF expireTokenDecide, Inv,
     SessionInv, disVars, stopVars, timerVars, callVars
<1>3. CASE ~Stopped /\ timerAt[e.tok] # Never /\ Rearm(e.tok) /\ UNCHANGED <<sessVars, disVars>>
  <2>1. disable[e.tok] = "none"
    BY <1>0, <1>3, Zenon DEF Inv, ScheduledInv
  <2>2. UNCHANGED <<phase, sessVars, doneVars, procVars, disVars, stopVars, callVars>>
    BY <1>3, Zenon DEF expireTokenDecide
  <2>3. ScheduledInv'
    <3> DEFINE at == [timerAt EXCEPT ![e.tok] = Never]
    <3>1. /\ at \in [Tokens -> Nat \cup {Never}]
          /\ \A u \in Tokens : u # e.tok => at[u] = timerAt[u]
      BY Zenon DEF TypeOK
    <3>2. scheduleExpiryLocked(e.tok, sessions, at)
      BY <1>3, Zenon DEF Rearm
    <3> HIDE DEF at
    <3> QED BY <1>0, <1>3, <2>1, <2>2, <3>1, <3>2, ScheduledSchedule, Zenon DEF Inv, disVars,
         stopVars
  <2> QED BY <2>2, <2>3, InvUnchanged, CallUnchanged, Zenon DEF Inv, SessionInv, disVars,
       stopVars, callVars
<1>2. CASE ~Stopped /\ timerAt[e.tok] # Never /\ beginDisableLocked(e.tok)
  <2>1. e.tok \in Tokens
    BY <1>0, Zenon
  <2>2. disable[e.tok] = "none"
    BY <1>2, <2>1, Zenon DEF Inv, ScheduledInv
  <2>3. CallInv'
    BY <1>2, <2>1, <2>2, CallBeginDisable, Zenon DEF expireTokenDecide, stopVars, callVars
  <2>4. UNCHANGED <<phase, doneVars, procVars, stopVars>>
    BY Zenon DEF expireTokenDecide
  <2>5. SessionInv' /\ ScheduledInv'
    BY <1>2, <2>1, <2>2, <2>4, InvBeginDisable, Zenon DEF TypeOK
  <2> QED BY <2>3, <2>5, Zenon DEF SessionInv, Inv
<1> QED BY <1>1, <1>2, <1>3, Zenon DEF expireTokenDecide

\* Every step preserves the invariant.
LEMMA InvNext == TypeOK /\ Inv /\ [Next]_vars => Inv'
<1> SUFFICES ASSUME TypeOK, Inv, [Next]_vars PROVE Inv'
  OBVIOUS
<1>1. CASE UNCHANGED vars
  BY <1>1, InvUnchanged, CallUnchanged, ScheduledUnchanged, Zenon DEF vars, disVars, stopVars,
     timerVars, callVars, Inv, SessionInv
<1>2. CASE Next
  BY <1>2, InvTick, InvBeginStop, InvCompleteStop, InvOnConnected, InvOnClose, InvFinishHTTP,
     InvFinishRemove, InvAcquire, InvFork, InvWorkerStep, InvCompleteDisable, InvTimerFires,
     InvDisableReturns, InvDisable, InvExpireEnter, InvExpireDecide DEF Next
<1> QED BY <1>1, <1>2, Zenon

\* The invariant holds in every reachable state.
THEOREM InvCorrect == Spec => [](TypeOK /\ Inv)
<1>1. Init => TypeOK /\ Inv
  BY TypeInit, InvInit, Zenon
<1>2. TypeOK /\ Inv /\ [Next]_vars => (TypeOK /\ Inv)'
  BY TypeNext, InvNext, Zenon
<1> QED
  BY <1>1, <1>2, PTL DEF Spec
-----------------------------------------------------------------------------
(* What the invariant implies.                                              *)

\* A token whose disable, or a server whose stop, is done is quiet.
LEMMA DoneIsQuiet ==
    ASSUME TypeOK, Inv, NEW t \in Tokens, disable[t] = "done" \/ stop = "done"
    PROVE  Quiet(t)
<1> SUFFICES ASSUME NEW s \in Sessions, TokenOf[s] = t
             PROVE  /\ s \notin sessions /\ Readers(s) = {} /\ removals[s] \notin Pending
                    /\ phase[s] \in {"open", "served"} => s \in released /\ s \in disconnected
  BY Zenon DEF Quiet, SessionsOf
<1>1. s \notin sessions
  BY Zenon DEF Inv, TrackedInv, Stopped
<1>2. removals[s] \notin Pending
  BY Zenon DEF Inv, DisableInv, StopInv, SessionsOf
<1>3. Readers(s) = {}
  BY <1>1, <1>2, Zenon DEF Inv, LeaseInv, Pending
<1>4. ASSUME phase[s] \in {"open", "served"} PROVE s \in released /\ s \in disconnected
  <2>1. removals[s] = "gone"
    BY <1>1, <1>2, <1>4, Zenon DEF Inv, LifeInv, Pending, TypeOK
  <2> QED BY <1>4, <2>1, Zenon DEF Inv, LifeInv
<1> QED BY <1>1, <1>2, <1>3, <1>4, Zenon

\* When DisconnectTokenConnections returns, and whenever a disable or the stop of
\* the server is done, no session of the token is tracked, leased, being removed,
\* or left connected: Disable is a fence for every interleaving with messages,
\* pushes, closes, expiry and shutdown.
THEOREM DisableIsFence == Spec => []DisableFence
<1>1. TypeOK /\ Inv => DisableFence
  <2> SUFFICES ASSUME TypeOK, Inv PROVE DisableFence
    OBVIOUS
  <2>1. \A t \in Tokens : disable[t] = "done" \/ stop = "done" => Quiet(t)
    BY DoneIsQuiet, Zenon
  <2>2. \A c \in Callers : call[c] = "returned" =>
            /\ callTok[c] \in Tokens
            /\ disable[callTok[c]] = "done" \/ stop = "done"
    BY Zenon DEF Inv, CallInv
  <2> QED BY <2>1, <2>2, Zenon DEF DisableFence
<1> QED
  BY <1>1, InvCorrect, PTL

\* No goroutine ever blocks on the gate of a session while it holds m.mu: a
\* session with a writer queued on its gate is not tracked, and Acquire and Fork
\* only lock the gates of tracked sessions.
THEOREM AcquireIsNonBlocking == Spec => []AcquireNeverBlocks
<1>1. TypeOK /\ Inv => AcquireNeverBlocks
  BY Zenon DEF Inv, AcquireNeverBlocks, TrackedInv, DisableInv, StopInv
<1> QED
  BY <1>1, InvCorrect, PTL

\* A session's UID and instance are released only when no operation holds a lease.
THEOREM ReleaseIsLast == Spec => []ReleaseAfterLeases
<1>1. Inv => ReleaseAfterLeases
  BY Zenon DEF Inv, ReleasedInv, ReleaseAfterLeases
<1> QED
  BY <1>1, InvCorrect, PTL

\* A push that fails finishes the removal in its own goroutine only when that
\* cannot wait for a lease, such as the one its caller holds.
THEOREM SyncFinishIsImmediate == Spec => []SyncFinishNeverWaits
<1>1. Inv => SyncFinishNeverWaits
  BY Zenon DEF Inv, WorkerInv, SyncFinishNeverWaits, Workers
<1> QED
  BY <1>1, InvCorrect, PTL

---------------------------------------------------------------------------

\* A step that completes no removal starts and no cleanup, and in which no
\* finishing goroutine stops finishing, keeps every removal owned.
LEMMA OwnerKept ==
    ASSUME RemovalHasOwner,
           UNCHANGED <<removals, cleanupDone, disable, disOwned, stop, stopOwned>>,
           \A w \in Workers : pc[w] \in Finishing => pc'[w] \in Finishing /\ on'[w] = on[w]
    PROVE  RemovalHasOwner'
BY Zenon DEF RemovalHasOwner

\* A tombstone owns the removals it creates.
LEMMA OwnerBeginDisable ==
    ASSUME TypeOK, Inv, RemovalHasOwner, NEW t \in Tokens, disable[t] = "none",
           beginDisableLocked(t), UNCHANGED <<cleanupDone, pc, on, stop, stopOwned>>
    PROVE  RemovalHasOwner'
<1> SUFFICES ASSUME NEW s \in Sessions, removals'[s] \in Pending, s \notin cleanupDone
             PROVE  \/ \E w \in Workers : on[w] = s /\ pc[w] \in Finishing
                    \/ disable'[TokenOf[s]] \in {"drain", "clean"} /\ s \in disOwned'[TokenOf[s]]
                    \/ stop \in {"drain", "clean"} /\ s \in stopOwned
  BY Zenon DEF RemovalHasOwner
<1>1. CASE removals[s] \in Pending
  <2>1. TokenOf[s] # t => disable'[TokenOf[s]] = disable[TokenOf[s]] /\ disOwned'[TokenOf[s]] = disOwned[TokenOf[s]]
    BY Zenon DEF beginDisableLocked, TypeOK
  <2> QED BY <1>1, <2>1, Zenon DEF RemovalHasOwner
<1>2. CASE removals[s] \notin Pending
  <2>1. s \in sessions /\ TokenOf[s] = t
    BY <1>2, Zenon DEF beginDisableLocked, registerRemoveLocked, SessionsOf
  <2> QED BY <1>2, <2>1, Zenon DEF beginDisableLocked, SessionsOf, TypeOK
<1> QED BY <1>1, <1>2, Zenon

\* Every step keeps every pending removal owned.
LEMMA OwnerNext == TypeOK /\ Inv /\ RemovalHasOwner /\ [Next]_vars => RemovalHasOwner'
<1> SUFFICES ASSUME TypeOK, Inv, RemovalHasOwner, [Next]_vars PROVE RemovalHasOwner'
  OBVIOUS
<1>1. CASE Tick
  BY <1>1, OwnerKept, Zenon DEF Tick, sessVars, doneVars, procVars, disVars, stopVars
<1>2. CASE beginStop
  <2>1. \A s \in Sessions : removals'[s] \in Pending => removals[s] \in Pending \/ s \in stopOwned'
    BY <1>2, Zenon DEF beginStop, registerRemoveLocked
  <2>2. UNCHANGED <<cleanupDone, pc, on, disable, disOwned>> /\ stop = "no" /\ stop' = "drain"
    BY <1>2, Zenon DEF beginStop, Stopped, doneVars, procVars, disVars
  <2> QED BY <2>1, <2>2, Zenon DEF RemovalHasOwner
<1>3. CASE completeStop
  BY <1>3, Zenon DEF completeStop, RemovalHasOwner, sessVars, doneVars, procVars, disVars
<1>4. ASSUME NEW s \in Sessions, OnConnected(s) PROVE RemovalHasOwner'
  <2>1. CASE beginDisableLocked(TokenOf[s]) /\ disable[TokenOf[s]] = "none"
    BY <1>4, <2>1, OwnerBeginDisable, Zenon DEF OnConnected, doneVars, procVars, stopVars
  <2>2. CASE UNCHANGED <<removals, disVars>>
    BY <1>4, <2>2, OwnerKept, Zenon DEF OnConnected, doneVars, procVars, disVars, stopVars
  <2> QED BY <1>4, <2>1, <2>2, Zenon DEF OnConnected, sessVars
<1>5. ASSUME NEW s \in Sessions, OnClose(s) PROVE RemovalHasOwner'
  <2>1. /\ \A x \in Sessions : x # s => removals'[x] = removals[x]
        /\ \A w \in Workers : on'[w] = on[w] /\ (w # s => pc'[w] = pc[w])
        /\ pc[s] = "idle" /\ pc'[s] = "closing" /\ on[s] = s
    BY <1>5, RemoveEffect, SMTT(60) DEF OnClose, Goto, TypeOK, Workers
  <2>2. UNCHANGED <<cleanupDone, disable, disOwned, stop, stopOwned>>
    BY <1>5, Zenon DEF OnClose, doneVars, disVars, stopVars
  <2> QED BY <2>1, <2>2, SMTT(30) DEF RemovalHasOwner, Finishing, Workers
<1>6. ASSUME NEW s \in Sessions, finishHTTPResponse(s) PROVE RemovalHasOwner'
  BY <1>6, OwnerKept, Zenon DEF finishHTTPResponse, onlyPc, Finishing, sessVars, doneVars,
     disVars, stopVars
<1>7. ASSUME NEW s \in Sessions, finishRemove(s) PROVE RemovalHasOwner'
  <2>1. \A x \in Sessions : removals'[x] \in Pending => removals[x] \in Pending
    BY <1>7 DEF finishRemove, Pending, TypeOK
  <2> QED BY <1>7, <2>1, Zenon DEF finishRemove, RemovalHasOwner, doneVars, procVars, disVars,
       stopVars
<1>8. ASSUME NEW p \in Procs, NEW s \in Sessions, NEW as \in {"message", "push"},
             Acquire(p, s, as)
      PROVE  RemovalHasOwner'
  <2>1. CASE beginDisableLocked(TokenOf[s]) /\ disable[TokenOf[s]] = "none" /\ UNCHANGED procVars
    BY <1>8, <2>1, OwnerBeginDisable, Zenon DEF Acquire, doneVars, procVars, stopVars
  <2>2. CASE UNCHANGED <<sessVars, disVars>> /\ pc' = [pc EXCEPT ![p] = as]
             /\ on' = [on EXCEPT ![p] = s]
    BY <1>8, <2>2, OwnerKept, ZenonT(30) DEF Acquire, Finishing, TypeOK, sessVars, doneVars,
       disVars, stopVars
  <2> QED BY <1>8, <2>1, <2>2, Zenon DEF Acquire, Admits
<1>9. ASSUME NEW p \in Procs, NEW q \in Procs, Fork(p, q) PROVE RemovalHasOwner'
  BY <1>9, OwnerKept DEF Fork, Finishing, sessVars, doneVars, disVars, stopVars
<1>10. ASSUME NEW w \in Workers, WorkerStep(w) PROVE RemovalHasOwner'
  <2>1. CASE BeginSend(w) \/ RetainHTTP(w) \/ Release(w)
    BY <2>1, OwnerKept DEF BeginSend, RetainHTTP, Release, Goto, onlyPc, Finishing, TypeOK,
       sessVars, doneVars, disVars, stopVars
  <2>2. CASE RemoveSession(w)
    <3>1. /\ on[w] \in Sessions
          /\ \A x \in Workers : on'[x] = on[x] /\ (x # w => pc'[x] = pc[x])
          /\ pc[w] \notin Finishing /\ pc'[w] \in Finishing
      BY <2>2, SMTT(30) DEF RemoveSession, Goto, TypeOK, Finishing
    <3>2. \A x \in Sessions : x # on[w] => removals'[x] = removals[x]
      BY <2>2, <3>1, RemoveEffect, SMTT(100) DEF RemoveSession, TypeOK
    <3>3. UNCHANGED <<cleanupDone, disable, disOwned, stop, stopOwned>>
      BY <2>2, Zenon DEF RemoveSession, doneVars, disVars, stopVars
    <3> QED BY <3>1, <3>2, <3>3, Zenon DEF RemovalHasOwner
  <2>3. CASE LoadLeases(w)
    BY <2>3, OwnerKept, SMTT(30) DEF LoadLeases, Goto, onlyPc, Finishing, TypeOK, sessVars, doneVars,
       disVars, stopVars
  <2>4. CASE waitRemoveDrain(w)
    BY <2>4, OwnerKept DEF waitRemoveDrain, Goto, Finishing, TypeOK, sessVars, disVars,
       stopVars
  <2>5. CASE CompleteRemove(w)
    <3>1. /\ \A x \in Workers : x # w => pc'[x] = pc[x] /\ on'[x] = on[x]
          /\ \A s \in Sessions : removals[s] \in Pending /\ s \notin cleanupDone' => on[w] # s
          /\ cleanupDone \subseteq cleanupDone'
      BY <2>5 DEF CompleteRemove, Goto
    <3>2. UNCHANGED <<removals, disable, disOwned, stop, stopOwned>>
      BY <2>5, Zenon DEF CompleteRemove, sessVars, disVars, stopVars
    <3> QED BY <3>1, <3>2, Zenon DEF RemovalHasOwner
  <2> QED BY <1>10, <2>1, <2>2, <2>3, <2>4, <2>5, Zenon DEF WorkerStep
<1>11. ASSUME NEW t \in Tokens, completeDisable(t) PROVE RemovalHasOwner'
  <2>1. /\ UNCHANGED <<removals, pc, on, stop, stopOwned>>
        /\ cleanupDone \subseteq cleanupDone'
        /\ \A u \in Tokens : u # t => disable'[u] = disable[u] /\ disOwned'[u] = disOwned[u]
        /\ \/ disable'[t] \in {"drain", "clean"} /\ disOwned'[t] = disOwned[t]
           \/ disable[t] = "clean" /\ disOwned[t] \subseteq cleanupDone'
           \/ disable[t] = "await"
    <3>1. /\ DrainDisabled(t) \/ CleanDisabled(t) \/ AwaitRemovals(t)
          /\ UNCHANGED <<removals, pc, on, stop, stopOwned>>
      BY <1>11, Zenon DEF completeDisable, sessVars, procVars, stopVars
    <3>2. DOMAIN disable = Tokens /\ DOMAIN disOwned = Tokens
      BY Zenon DEF TypeOK
    <3>3. CASE DrainDisabled(t)
      BY <3>1, <3>2, <3>3, Zenon DEF DrainDisabled, doneVars
    <3>4. CASE CleanDisabled(t)
      BY <3>1, <3>2, <3>4, Zenon DEF CleanDisabled, CompletedBy
    <3>5. CASE AwaitRemovals(t)
      BY <3>1, <3>2, <3>5, Zenon DEF AwaitRemovals, doneVars
    <3> QED BY <3>1, <3>3, <3>4, <3>5, Zenon
  <2> QED BY <2>1 DEF RemovalHasOwner
<1>12. ASSUME NEW t \in Tokens, TimerFires(t) PROVE RemovalHasOwner'
  BY <1>12, OwnerKept, Zenon DEF TimerFires, sessVars, doneVars, procVars, disVars, stopVars
<1>13. ASSUME NEW c \in Callers, DisableReturns(c) PROVE RemovalHasOwner'
  BY <1>13, OwnerKept, Zenon DEF DisableReturns, sessVars, doneVars, procVars, disVars,
     stopVars
<1>14. ASSUME NEW c \in Callers, NEW t \in Tokens, Disable(c, t) PROVE RemovalHasOwner'
  BY <1>14, OwnerKept, OwnerBeginDisable, Zenon DEF Disable, sessVars, doneVars, procVars,
     disVars, stopVars
<1>15. ASSUME NEW e \in expirers, expireTokenEnter(e) PROVE RemovalHasOwner'
  BY <1>15, OwnerKept, Zenon DEF expireTokenEnter, sessVars, doneVars, procVars, disVars,
     stopVars
<1>16. ASSUME NEW e \in expirers, expireTokenDecide(e) PROVE RemovalHasOwner'
  <2>1. e.tok \in Tokens
    BY Zenon DEF TypeOK
  <2>2. CASE UNCHANGED <<sessVars, disVars>>
    BY <1>16, <2>2, OwnerKept, Zenon DEF expireTokenDecide, sessVars, doneVars, procVars,
       disVars, stopVars
  <2>3. CASE timerAt[e.tok] # Never /\ beginDisableLocked(e.tok)
    <3>1. disable[e.tok] = "none"
      BY <2>1, <2>3, Zenon DEF Inv, ScheduledInv
    <3> QED BY <1>16, <2>1, <2>3, <3>1, OwnerBeginDisable, Zenon DEF expireTokenDecide,
         doneVars, procVars, stopVars
  <2> QED BY <1>16, <2>2, <2>3, Zenon DEF expireTokenDecide
<1>17. CASE UNCHANGED vars
  BY <1>17, OwnerKept, Zenon DEF vars, sessVars, doneVars, procVars, disVars, stopVars
<1> QED
  BY <1>1, <1>2, <1>3, <1>4, <1>5, <1>6, <1>7, <1>8, <1>9, <1>10, <1>11, <1>12,
     <1>13, <1>14, <1>15, <1>16, <1>17, Zenon DEF Next

\* No removal is orphaned: as long as one waits for its cleanup, some goroutine,
\* disable or stop still has CompleteRemove ahead of it, so waiting for
\* removal.done never waits for nobody.
THEOREM RemovalsAreOwned == Spec => []RemovalHasOwner
<1>1. Init => RemovalHasOwner
  BY Zenon DEF Init, RemovalHasOwner, Pending
<1> QED
  BY <1>1, OwnerNext, InvCorrect, PTL DEF Spec
-----------------------------------------------------------------------------
(* Expiry timers.                                                           *)

\* What TimerInv says of one token.
TimerOf(t) == /\ timerAt[t] = Never => Expiries(t, sessions) = {}
              /\ timerAt[t] # Never =>
                    /\ IsEarliest(timerAt[t], Expiries(t, sessions))
                    /\ t \in armed \/ \E e \in expirers : e.tok = t /\ e.gen = timerGen[t]

\* The timer of a token is not disturbed by steps about other tokens.
LEMMA TimerKept ==
    ASSUME NEW t \in Tokens, TimerOf(t),
           sessions' \cap SessionsOf(t) = sessions \cap SessionsOf(t),
           timerAt'[t] = timerAt[t], timerGen'[t] = timerGen[t],
           t \in armed => t \in armed' \/ \E e \in expirers' : e.tok = t /\ e.gen = timerGen[t],
           timerAt[t] # Never =>
               \A e \in expirers : e.tok = t /\ e.gen = timerGen[t] =>
                   \E f \in expirers' : f.tok = t /\ f.gen = timerGen[t]
    PROVE  TimerOf(t)'
BY Zenon DEF TimerOf, Expiries

\* scheduleExpiryLocked leaves the token it is called for with a timer for the
\* earliest expiry, or with none, and the other tokens alone.
LEMMA TimerScheduled ==
    ASSUME TypeOK, TimerInv, NEW t \in Tokens, NEW at \in [Tokens -> Nat \cup {Never}],
           \A u \in Tokens : u # t => at[u] = timerAt[u],
           at[t] \in {timerAt[t], Never},
           sessions' \subseteq Sessions,
           \A u \in Tokens : u # t => sessions' \cap SessionsOf(u) = sessions \cap SessionsOf(u),
           scheduleExpiryLocked(t, sessions', at),
           \A e \in expirers : e \in expirers' \/ (e.tok = t /\ at[t] = Never)
    PROVE  TimerInv'
<1> SUFFICES ASSUME NEW u \in Tokens PROVE TimerOf(u)'
  BY Zenon DEF TimerInv, TimerOf
<1>1. CASE u # t
  <2>1. /\ timerAt'[u] = timerAt[u] /\ timerGen'[u] = timerGen[u]
        /\ u \in armed => u \in armed'
    BY <1>1 DEF scheduleExpiryLocked, TypeOK
  <2>2. TimerOf(u)
    BY Zenon DEF TimerInv, TimerOf
  <2> QED BY <1>1, <2>1, <2>2, TimerKept, Zenon
<1>2. CASE u = t
  <2>1. Expiries(t, sessions') \subseteq Nat
    BY DEF Expiries
  <2>2. CASE Expiries(t, sessions') = {} /\ timerAt' = [at EXCEPT ![t] = Never]
    BY <1>2, <2>2, Zenon DEF TimerOf
  <2>3. CASE /\ IsEarliest(at[t], Expiries(t, sessions'))
             /\ timerAt' = at
             /\ UNCHANGED <<timerGen, armed, nextTimerID>>
    <3>1. at[t] # Never /\ at[t] = timerAt[t]
      BY <2>1, <2>3, Zenon DEF IsEarliest
    <3>2. t \in armed \/ \E e \in expirers : e.tok = t /\ e.gen = timerGen[t]
      BY <3>1, Zenon DEF TimerInv
    <3> QED BY <1>2, <2>3, <3>1, <3>2, Zenon DEF TimerOf
  <2>4. ASSUME NEW earliest \in Expiries(t, sessions'),
               IsEarliest(earliest, Expiries(t, sessions')),
               timerAt' = [at EXCEPT ![t] = earliest],
               armed' = armed \cup {t}
        PROVE  TimerOf(u)'
    BY <1>2, <2>1, <2>4, Zenon DEF TimerOf
  <2> QED BY <2>2, <2>3, <2>4, Zenon DEF scheduleExpiryLocked
<1> QED BY <1>1, <1>2, Zenon

\* A tombstone takes the sessions of the token and its timer together.
LEMMA TimerBeginDisable ==
    ASSUME TypeOK, TimerInv, NEW t \in Tokens, beginDisableLocked(t),
           \A e \in expirers : e \in expirers' \/ e.tok = t
    PROVE  TimerInv'
<1> SUFFICES ASSUME NEW u \in Tokens PROVE TimerOf(u)'
  BY Zenon DEF TimerInv, TimerOf
<1>1. CASE u # t
  <2>1. /\ timerAt'[u] = timerAt[u] /\ timerGen'[u] = timerGen[u]
        /\ u \in armed => u \in armed'
        /\ sessions' \cap SessionsOf(u) = sessions \cap SessionsOf(u)
    BY <1>1, SMTT(60) DEF beginDisableLocked, SessionsOf
  <2>2. TimerOf(u)
    BY Zenon DEF TimerInv, TimerOf
  <2> QED BY <1>1, <2>1, <2>2, TimerKept, Zenon
<1>2. CASE u = t
  <2>1. timerAt'[t] = Never /\ sessions' \cap SessionsOf(t) = {}
    BY DEF beginDisableLocked, TypeOK
  <2> QED BY <1>2, <2>1, Zenon DEF TimerOf, Expiries
<1> QED BY <1>1, <1>2, Zenon

\* Detaching one session reschedules the timer of its token.
LEMMA TimerRemove ==
    ASSUME TypeOK, Inv, TimerInv, NEW s \in Sessions, Remove(s), UNCHANGED expirers
    PROVE  TimerInv'
<1>1. CASE removals[s] \in Pending \/ Stopped \/ s \notin sessions
  BY <1>1, Zenon DEF Remove, sessVars, timerVars, TimerInv
<1>2. CASE ~(removals[s] \in Pending \/ Stopped \/ s \notin sessions)
  <2>0. /\ sessions' = sessions \ {s}
        /\ scheduleExpiryLocked(TokenOf[s], sessions \ {s}, timerAt)
    BY <1>2, Zenon DEF Remove, detachSessionLocked
  <2>1. /\ scheduleExpiryLocked(TokenOf[s], sessions', timerAt)
        /\ timerAt \in [Tokens -> Nat \cup {Never}] /\ TokenOf[s] \in Tokens
        /\ sessions' \subseteq Sessions
    BY <2>0, Zenon DEF TypeOK
  <2>2. \A u \in Tokens : u # TokenOf[s] => sessions' \cap SessionsOf(u) = sessions \cap SessionsOf(u)
    BY <2>0, Zenon DEF SessionsOf
  <2> QED BY <2>1, <2>2, TimerScheduled, Zenon
<1> QED BY <1>1, <1>2, Zenon

\* Every step keeps the timers in agreement with the tracked sessions.
LEMMA TimerNext == TypeOK /\ Inv /\ TimerInv /\ [Next]_vars => TimerInv'
<1> SUFFICES ASSUME TypeOK, Inv, TimerInv, [Next]_vars PROVE TimerInv'
  OBVIOUS
<1>0. ASSUME UNCHANGED <<sessions, timerVars, expirers>> PROVE TimerInv'
  BY <1>0, Zenon DEF TimerInv, timerVars
<1>1. CASE Tick \/ completeStop
  BY <1>0, <1>1, Zenon DEF Tick, completeStop, sessVars
<1>2. CASE beginStop
  <2>1. sessions' = {} /\ \A t \in Tokens : timerAt'[t] = Never
    BY <1>2, Zenon DEF beginStop
  <2> QED BY <2>1 DEF TimerInv, Expiries
<1>4. ASSUME NEW s \in Sessions, OnConnected(s) PROVE TimerInv'
  <2>1. CASE beginDisableLocked(TokenOf[s])
    BY <1>4, <2>1, TimerBeginDisable, Zenon DEF OnConnected
  <2>2. CASE /\ sessions' = sessions \cup {s}
             /\ scheduleExpiryLocked(TokenOf[s], sessions \cup {s}, timerAt)
    <3>1. /\ timerAt \in [Tokens -> Nat \cup {Never}] /\ TokenOf[s] \in Tokens
          /\ sessions' \subseteq Sessions
      BY <2>2, Zenon DEF TypeOK
    <3>2. \A u \in Tokens : u # TokenOf[s] => sessions' \cap SessionsOf(u) = sessions \cap SessionsOf(u)
      BY <2>2, Zenon DEF SessionsOf
    <3> QED BY <1>4, <2>2, <3>1, <3>2, TimerScheduled, Zenon DEF OnConnected
  <2>3. CASE UNCHANGED <<sessVars, timerVars>>
    BY <1>0, <1>4, <2>3, Zenon DEF OnConnected, sessVars
  <2> QED BY <1>4, <2>1, <2>2, <2>3, Zenon DEF OnConnected
<1>5. ASSUME NEW s \in Sessions, OnClose(s) PROVE TimerInv'
  BY <1>5, TimerRemove, Zenon DEF OnClose
<1>6. ASSUME NEW s \in Sessions, finishHTTPResponse(s) \/ finishRemove(s) PROVE TimerInv'
  BY <1>0, <1>6, Zenon DEF finishHTTPResponse, finishRemove, onlyPc, sessVars
<1>8. ASSUME NEW p \in Procs, NEW s \in Sessions, NEW as \in {"message", "push"},
             Acquire(p, s, as)
      PROVE  TimerInv'
  <2>1. CASE beginDisableLocked(TokenOf[s])
    BY <1>8, <2>1, TimerBeginDisable, Zenon DEF Acquire
  <2>2. CASE UNCHANGED <<sessVars, timerVars>>
    BY <1>0, <1>8, <2>2, Zenon DEF Acquire, sessVars
  <2> QED BY <1>8, <2>1, <2>2, Zenon DEF Acquire
<1>9. ASSUME NEW p \in Procs, NEW q \in Procs, Fork(p, q) PROVE TimerInv'
  BY <1>0, <1>9, Zenon DEF Fork, sessVars
<1>10. ASSUME NEW w \in Workers, WorkerStep(w) PROVE TimerInv'
  <2>1. CASE BeginSend(w) \/ RetainHTTP(w) \/ Release(w) \/ LoadLeases(w)
    BY <1>0, <2>1, Zenon DEF BeginSend, RetainHTTP, Release, LoadLeases, onlyPc, sessVars
  <2>2. CASE RemoveSession(w)
    <3>1. on[w] \in Sessions
      BY TypeSets, <2>2, Zenon DEF RemoveSession, Goto
    <3> QED BY <2>2, <3>1, TimerRemove, Zenon DEF RemoveSession
  <2>3. CASE waitRemoveDrain(w) \/ CompleteRemove(w)
    BY <1>0, <2>3, Zenon DEF waitRemoveDrain, CompleteRemove, sessVars
  <2> QED BY <1>10, <2>1, <2>2, <2>3, Zenon DEF WorkerStep
<1>11. ASSUME NEW t \in Tokens, completeDisable(t) PROVE TimerInv'
  BY <1>0, <1>11, Zenon DEF completeDisable, sessVars
<1>12. ASSUME NEW t \in Tokens, TimerFires(t) PROVE TimerInv'
  <2> SUFFICES ASSUME NEW u \in Tokens PROVE TimerOf(u)'
    BY Zenon DEF TimerInv, TimerOf
  <2>1. TimerOf(u)
    BY Zenon DEF TimerInv, TimerOf
  <2> DEFINE fired == [tok |-> t, gen |-> timerGen[t], stage |-> "fired", at |-> now]
  <2>2. /\ armed' = armed \ {t} /\ expirers' = expirers \cup {fired}
        /\ UNCHANGED <<sessions, timerAt, timerGen>>
    BY <1>12, Zenon DEF TimerFires, sessVars
  <2>3. fired.tok = t /\ fired.gen = timerGen[t]
    BY Zenon
  <2> HIDE DEF fired
  <2>4. u \in armed => u \in armed' \/ \E e \in expirers' : e.tok = u /\ e.gen = timerGen[u]
    BY <2>2, <2>3, Zenon
  <2> QED BY <2>1, <2>2, <2>4, TimerKept, Zenon
<1>13. ASSUME NEW c \in Callers, DisableReturns(c) PROVE TimerInv'
  BY <1>0, <1>13, Zenon DEF DisableReturns, sessVars
<1>14. ASSUME NEW c \in Callers, NEW t \in Tokens, Disable(c, t) PROVE TimerInv'
  <2>1. CASE beginDisableLocked(t)
    BY <1>14, <2>1, TimerBeginDisable, Zenon DEF Disable
  <2>2. CASE UNCHANGED <<sessVars, timerVars>>
    BY <1>0, <1>14, <2>2, Zenon DEF Disable, sessVars
  <2> QED BY <1>14, <2>1, <2>2, Zenon DEF Disable
<1>15. ASSUME NEW e \in expirers, expireTokenEnter(e) PROVE TimerInv'
  <2> SUFFICES ASSUME NEW u \in Tokens PROVE TimerOf(u)'
    BY Zenon DEF TimerInv, TimerOf
  <2>1. TimerOf(u)
    BY Zenon DEF TimerInv, TimerOf
  <2>2. /\ timerAt[u] # Never => ~Stopped
        /\ UNCHANGED <<sessions, timerVars>>
    BY <1>15, Zenon DEF expireTokenEnter, Inv, ScheduledInv, sessVars
  <2>3. ~Stopped => \A f \in expirers : \E g \in expirers' : g.tok = f.tok /\ g.gen = f.gen
    <3> DEFINE counted == [e EXCEPT !.stage = "counted"]
    <3>1. e \in [tok : Tokens, gen : Nat, stage : {"fired", "counted"}, at : Nat]
      BY Zenon DEF TypeOK
    <3>2. counted.tok = e.tok /\ counted.gen = e.gen
      OBVIOUS
    <3>3. ~Stopped => expirers' = (expirers \ {e}) \cup {counted}
      BY <1>15, Zenon DEF expireTokenEnter
    <3> HIDE DEF counted
    <3> QED BY <3>2, <3>3, Zenon
  <2> QED BY <2>1, <2>2, <2>3, TimerKept, Zenon DEF timerVars
<1>16. ASSUME NEW e \in expirers, expireTokenDecide(e) PROVE TimerInv'
  <2>0. e.tok \in Tokens /\ expirers' = expirers \ {e}
    BY <1>16, Zenon DEF TypeOK, expireTokenDecide
  <2>1. CASE /\ ~(~Stopped /\ timerAt[e.tok] # Never /\ timerGen[e.tok] = e.gen)
             /\ UNCHANGED <<sessVars, timerVars>>
    <3> SUFFICES ASSUME NEW u \in Tokens PROVE TimerOf(u)'
      BY Zenon DEF TimerInv, TimerOf
    <3>1. TimerOf(u)
      BY Zenon DEF TimerInv, TimerOf
    <3>2. timerAt[u] # Never => ~Stopped
      BY Zenon DEF Inv, ScheduledInv
    <3> QED BY <2>0, <2>1, <3>1, <3>2, TimerKept, Zenon DEF sessVars, timerVars
  <2>2. CASE Rearm(e.tok) /\ UNCHANGED sessVars
    <3> DEFINE at == [timerAt EXCEPT ![e.tok] = Never]
    <3>1. /\ at \in [Tokens -> Nat \cup {Never}]
          /\ \A u \in Tokens : u # e.tok => at[u] = timerAt[u]
          /\ at[e.tok] = Never
      BY Zenon DEF TypeOK
    <3>2. scheduleExpiryLocked(e.tok, sessions', at)
      BY <2>2, Zenon DEF Rearm, sessVars
    <3>3. sessions' \subseteq Sessions /\ sessions' = sessions
      BY <2>2, Zenon DEF TypeOK, sessVars
    <3> HIDE DEF at
    <3> QED BY <2>0, <3>1, <3>2, <3>3, TimerScheduled, Zenon
  <2>3. CASE beginDisableLocked(e.tok)
    BY <2>0, <2>3, TimerBeginDisable, Zenon
  <2> QED BY <1>16, <2>1, <2>2, <2>3, Zenon DEF expireTokenDecide
<1>17. CASE UNCHANGED vars
  BY <1>0, <1>17, Zenon DEF vars, sessVars
<1> QED
  BY <1>1, <1>2, <1>4, <1>5, <1>6, <1>8, <1>9, <1>10, <1>11, <1>12,
     <1>13, <1>14, <1>15, <1>16, <1>17, Zenon DEF Next

\* The timer invariant holds in every reachable state.
THEOREM TimersAgree == Spec => []TimerInv
<1>1. Init => TimerInv
  BY SMTT(60) DEF Init, TimerInv, Expiries
<1> QED
  BY <1>1, TimerNext, InvCorrect, PTL DEF Spec

\* A tracked session that can expire is never left without a timer for the
\* earliest expiry of its token, in spite of stale, early and racing callbacks.
THEOREM ExpiryAlwaysWatched == Spec => []ExpiryIsWatched
<1>1. TimerInv => ExpiryIsWatched
  BY Zenon DEF TimerInv, ExpiryIsWatched
<1> QED
  BY <1>1, TimersAgree, PTL
-----------------------------------------------------------------------------
(* Tombstones have a reason.                                                *)

\* What NoSpuriousDisable asks of one tombstoned token.
Reason(t) == \/ \E c \in Callers : call[c] \in {"disable", "returned"} /\ callTok[c] = t
             \/ \E s \in SessionsOf(t) : Expired(s, now)

\* Time and callers only add reasons.
LEMMA ReasonKept ==
    ASSUME TypeOK, TypeOK', NEW t \in Tokens, Reason(t), now' \in Nat, now <= now',
           \A c \in Callers : call[c] \in {"disable", "returned"} =>
               call'[c] \in {"disable", "returned"} /\ callTok'[c] = callTok[c]
    PROVE  Reason(t)'
<1>1. \A s \in Sessions : Expired(s, now) => Expired(s, now')
  BY DEF Expired, TypeOK
<1> QED
  BY <1>1, Zenon DEF Reason, SessionsOf

\* A step that tombstones at most t keeps the property when t has a reason.
LEMMA ReasonBeginDisable ==
    ASSUME TypeOK, TypeOK', NoSpuriousDisable, NEW t \in Tokens, beginDisableLocked(t),
           UNCHANGED now, Reason(t)',
           \A c \in Callers : call[c] \in {"disable", "returned"} =>
               call'[c] \in {"disable", "returned"} /\ callTok'[c] = callTok[c]
    PROVE  NoSpuriousDisable'
<1> SUFFICES ASSUME NEW u \in Tokens, disable'[u] # "none" PROVE Reason(u)'
  BY Zenon DEF NoSpuriousDisable, Reason
<1>1. CASE u = t
  BY <1>1, Zenon
<1>2. CASE u # t
  <2>0. DOMAIN disable = Tokens /\ disable' = [disable EXCEPT ![t] = "drain"]
    BY Zenon DEF beginDisableLocked, TypeOK
  <2>1. disable[u] # "none"
    BY <1>2, <2>0, Zenon
  <2>2. Reason(u)
    BY <2>1, Zenon DEF NoSpuriousDisable, Reason
  <2>3. now' \in Nat /\ now <= now'
    BY DEF TypeOK
  <2> QED BY <2>2, <2>3, ReasonKept, Zenon
<1> QED BY <1>2, Zenon

\* Every step keeps NoSpuriousDisable.
LEMMA ReasonNext ==
    TypeOK /\ TypeOK' /\ TimerInv /\ NoSpuriousDisable /\ [Next]_vars => NoSpuriousDisable'
<1> SUFFICES ASSUME TypeOK, TypeOK', TimerInv, NoSpuriousDisable, [Next]_vars
             PROVE  NoSpuriousDisable'
  OBVIOUS
<1> DEFINE CallsKept == \A c \in Callers : call[c] \in {"disable", "returned"} =>
                            call'[c] \in {"disable", "returned"} /\ callTok'[c] = callTok[c]
<1>0. ASSUME \A t \in Tokens : disable'[t] # "none" => disable[t] # "none",
             now' \in Nat, now <= now', CallsKept
      PROVE  NoSpuriousDisable'
  <2> SUFFICES ASSUME NEW u \in Tokens, disable'[u] # "none" PROVE Reason(u)'
    BY Zenon DEF NoSpuriousDisable, Reason
  <2>1. Reason(u)
    BY <1>0, Zenon DEF NoSpuriousDisable, Reason
  <2> QED BY <1>0, <2>1, ReasonKept, Zenon
<1>n. now \in Nat
  BY Zenon DEF TypeOK
<1>s. ASSUME UNCHANGED now PROVE now' \in Nat /\ now <= now'
  BY <1>n, <1>s
<1>u. ASSUME UNCHANGED <<disable, now, callVars>> PROVE NoSpuriousDisable'
  <2>1. CallsKept
    BY <1>u, Zenon DEF callVars
  <2> QED BY <1>0, <1>s, <1>u, <2>1, Zenon
<1>1. CASE Tick
  <2>1. now' \in Nat /\ now <= now'
    BY <1>1, <1>n DEF Tick
  <2>2. CallsKept /\ UNCHANGED disable
    BY <1>1, Zenon DEF Tick, disVars, callVars
  <2> QED BY <1>0, <2>1, <2>2, Zenon
<1>2. CASE beginStop \/ completeStop
  BY <1>2, <1>u, Zenon DEF beginStop, completeStop, disVars
\* A clock read that finds a session expired is a reason: the clock read is past.
<1>e. ASSUME NEW s \in Sessions, NEW n \in ClockReads, Expired(s, n), UNCHANGED now
      PROVE  Reason(TokenOf[s])'
  <2>1. Expired(s, now')
    BY <1>e, <1>n DEF Expired, ClockReads
  <2> QED BY <2>1, Zenon DEF Reason, SessionsOf
<1>4. ASSUME NEW s \in Sessions, OnConnected(s) PROVE NoSpuriousDisable'
  <2>0. UNCHANGED <<now, callVars>> /\ TokenOf[s] \in Tokens
    BY <1>4, Zenon DEF OnConnected
  <2>1. CASE beginDisableLocked(TokenOf[s]) /\ \E n \in ClockReads : Expired(s, n)
    BY <1>e, <2>0, <2>1, ReasonBeginDisable, Zenon DEF callVars
  <2>2. CASE UNCHANGED disVars
    BY <1>u, <2>0, <2>2, Zenon DEF disVars
  <2> QED BY <1>4, <2>1, <2>2, Zenon DEF OnConnected
<1>5. ASSUME NEW s \in Sessions, OnClose(s) \/ finishHTTPResponse(s) \/ finishRemove(s)
      PROVE  NoSpuriousDisable'
  BY <1>5, <1>u, Zenon DEF OnClose, finishHTTPResponse, finishRemove, onlyPc, disVars
<1>8. ASSUME NEW p \in Procs, NEW s \in Sessions, NEW as \in {"message", "push"},
             Acquire(p, s, as)
      PROVE  NoSpuriousDisable'
  <2>0. UNCHANGED <<now, callVars>> /\ TokenOf[s] \in Tokens
    BY <1>8, Zenon DEF Acquire
  <2>1. CASE beginDisableLocked(TokenOf[s]) /\ \E n \in ClockReads : Expired(s, n)
    BY <1>e, <2>0, <2>1, ReasonBeginDisable, Zenon DEF callVars
  <2>2. CASE UNCHANGED disVars
    BY <1>u, <2>0, <2>2, Zenon DEF disVars
  <2> QED BY <1>8, <2>1, <2>2, Zenon DEF Acquire
<1>9. ASSUME NEW p \in Procs, NEW q \in Procs, Fork(p, q) PROVE NoSpuriousDisable'
  BY <1>9, <1>u, Zenon DEF Fork, disVars
<1>10. ASSUME NEW w \in Workers, WorkerStep(w) PROVE NoSpuriousDisable'
  BY <1>10, <1>u, Zenon DEF WorkerStep, BeginSend, RetainHTTP, Release, RemoveSession,
     LoadLeases, waitRemoveDrain, CompleteRemove, onlyPc, disVars
<1>11. ASSUME NEW t \in Tokens, completeDisable(t) PROVE NoSpuriousDisable'
  <2>1. \A u \in Tokens : disable'[u] # "none" => disable[u] # "none"
    BY <1>11, SMTT(100) DEF completeDisable, DrainDisabled, CleanDisabled, AwaitRemovals, TypeOK
  <2>2. CallsKept /\ UNCHANGED now
    BY <1>11, Zenon DEF completeDisable, callVars
  <2> QED BY <1>0, <1>s, <2>1, <2>2, Zenon
<1>12. ASSUME NEW t \in Tokens, TimerFires(t) PROVE NoSpuriousDisable'
  BY <1>12, <1>u, Zenon DEF TimerFires, disVars
<1>13. ASSUME NEW c \in Callers, DisableReturns(c) PROVE NoSpuriousDisable'
  <2>0. DOMAIN call = Callers
    BY Zenon DEF TypeOK
  <2>1. CallsKept /\ UNCHANGED <<now, disable>>
    BY <1>13, <2>0, Zenon DEF DisableReturns, disVars
  <2> QED BY <1>0, <1>s, <2>1, Zenon
<1>14. ASSUME NEW c \in Callers, NEW t \in Tokens, Disable(c, t) PROVE NoSpuriousDisable'
  <2>1. CallsKept /\ UNCHANGED now
    BY <1>14, SMTT(30) DEF Disable, TypeOK
  <2>2. CASE beginDisableLocked(t) /\ call' = [call EXCEPT ![c] = "disable"]
    <3>1. call'[c] = "disable" /\ callTok'[c] = t
      BY <1>14, <2>2, SMTT(30) DEF Disable, TypeOK
    <3> QED BY <2>1, <2>2, <3>1, ReasonBeginDisable, Zenon DEF Reason
  <2>3. CASE UNCHANGED disVars
    BY <1>0, <1>s, <2>1, <2>3, Zenon DEF disVars
  <2> QED BY <1>14, <2>2, <2>3, Zenon DEF Disable
<1>15. ASSUME NEW e \in expirers, expireTokenEnter(e) PROVE NoSpuriousDisable'
  BY <1>15, <1>u, Zenon DEF expireTokenEnter, disVars
<1>16. ASSUME NEW e \in expirers, expireTokenDecide(e) PROVE NoSpuriousDisable'
  <2>0. e.tok \in Tokens /\ e.at \in Nat /\ UNCHANGED <<now, callVars>>
    BY <1>16, Zenon DEF TypeOK, expireTokenDecide
  <2>1. CASE UNCHANGED disVars
    BY <1>u, <2>0, <2>1, Zenon DEF disVars
  <2>2. CASE /\ timerAt[e.tok] # Never
             /\ \E n \in e.at..now : ~TooEarly(e.tok, n)
             /\ beginDisableLocked(e.tok)
    <3>1. timerAt[e.tok] \in Nat /\ timerAt[e.tok] <= now
      BY <2>2 DEF TooEarly, TypeOK
    <3>2. timerAt[e.tok] \in Expiries(e.tok, sessions)
      BY <2>0, <2>2, Zenon DEF TimerInv, IsEarliest
    <3>3. PICK s \in SessionsOf(e.tok) : ExpiresAt[s] = timerAt[e.tok] /\ ExpiresAt[s] # Never
      BY <3>2, Zenon DEF Expiries
    <3>4. Expired(s, now')
      BY <2>0, <3>1, <3>3, Zenon DEF Expired
    <3>5. Reason(e.tok)'
      BY <3>4, Zenon DEF Reason
    <3> QED BY <2>0, <2>2, <3>5, ReasonBeginDisable, Zenon DEF callVars
  <2> QED BY <1>16, <2>1, <2>2, Zenon DEF expireTokenDecide
<1>17. CASE UNCHANGED vars
  BY <1>17, <1>u, Zenon DEF vars, disVars
<1> QED
  BY <1>1, <1>2, <1>4, <1>5, <1>8, <1>9, <1>10, <1>11, <1>12,
     <1>13, <1>14, <1>15, <1>16, <1>17, Zenon DEF Next

\* A token is tombstoned only by a revocation or by its own expiry.
THEOREM DisablesHaveReasons == Spec => []NoSpuriousDisable
<1>1. Init => NoSpuriousDisable
  BY Zenon DEF Init, NoSpuriousDisable
<1> QED
  BY <1>1, ReasonNext, TimersAgree, TypeCorrect, PTL DEF Spec

---------------------------------------------------------------------------
(* TokenConnections implements TokenGate. *)

\* What the gate of session s, and of token t, depends on.
SameGate(s) ==
    /\ phase'[s] = "accepted" <=> phase[s] = "accepted"
    /\ s \in sessions' <=> s \in sessions
    /\ s \in released' <=> s \in released
    /\ removals'[s] = "none" <=> removals[s] = "none"

SameGates == \A s \in Sessions : SameGate(s)
SameLeases == \A s \in Sessions : Readers(s)' = Readers(s)
SameClosed == \A t \in Tokens : ClosedAt(t)' = ClosedAt(t)

LEMMA GateKept ==
    ASSUME NEW s \in Sessions, SameGate(s)
    PROVE  GateAt(s)' = GateAt(s)
BY Zenon DEF SameGate, GateAt

LEMMA GateOfKept ==
    ASSUME SameGates
    PROVE  UNCHANGED gateOf
BY GateKept, Zenon DEF SameGates, gateOf

LEMMA LeasesKept ==
    ASSUME SameLeases
    PROVE  UNCHANGED leasesOf
BY Zenon DEF SameLeases, leasesOf

LEMMA ClosedKept ==
    ASSUME SameClosed
    PROVE  UNCHANGED closedOf
BY Zenon DEF SameClosed, closedOf

\* Tokens are not closed by a step that leaves tombstones and the stop alone.
LEMMA ClosedFrame ==
    ASSUME UNCHANGED <<disable, stop>>
    PROVE  SameClosed
BY Zenon DEF SameClosed, ClosedAt, Stopped

\* One session moves on to v.
LEMMA GateMoves ==
    ASSUME NEW s \in Sessions, NEW v, GateAt(s)' = v,
           \A x \in Sessions : x # s => SameGate(x)
    PROVE  gateOf' = [gateOf EXCEPT ![s] = v]
BY GateKept, Zenon DEF gateOf
-----------------------------------------------------------------------------
(* The steps of the gate, in terms of the manager *)

\* A step that nobody outside the manager can see.
Invisible == SameGates /\ SameLeases /\ SameClosed

LEMMA Stutters ==
    ASSUME Invisible
    PROVE  UNCHANGED Gate!gateVars
BY GateOfKept, LeasesKept, ClosedKept, Zenon DEF Invisible, Gate!gateVars

\* A session is admitted, refused, shut or finished.
LEMMA MapSession ==
    ASSUME NEW s \in Sessions, SameLeases, SameClosed,
           \A x \in Sessions : x # s => SameGate(x),
           \/ GateAt(s) = "new" /\ ClosedAt(TokenOf[s]) = "no" /\ GateAt(s)' = "open"
           \/ GateAt(s) = "new" /\ GateAt(s)' = "over"
           \/ GateAt(s) = "open" /\ GateAt(s)' = "shut"
           \/ GateAt(s) = "shut" /\ Readers(s) = {} /\ GateAt(s)' = "over"
    PROVE  Gate!GateNext
<1>1. UNCHANGED <<leasesOf, closedOf>>
  BY LeasesKept, ClosedKept, Zenon
<1>2. gateOf' = [gateOf EXCEPT ![s] = GateAt(s)']
  BY GateMoves, Zenon
<1>3. gateOf[s] = GateAt(s) /\ leasesOf[s] = Readers(s) /\ closedOf[TokenOf[s]] = ClosedAt(TokenOf[s])
  BY Zenon DEF gateOf, leasesOf, closedOf
<1>. QED
  BY <1>1, <1>2, <1>3, Zenon DEF Gate!GateNext, Gate!Admit, Gate!Refuse, Gate!Shut, Gate!Finish

\* A lease is taken on an open session.
LEMMA MapLease ==
    ASSUME NEW s \in Sessions, NEW h \in Workers, SameGates, SameClosed,
           GateAt(s) = "open", h \notin Readers(s), Readers(s)' = Readers(s) \cup {h},
           \A x \in Sessions : x # s => Readers(x)' = Readers(x)
    PROVE  Gate!GateNext
<1>1. UNCHANGED <<gateOf, closedOf>>
  BY GateOfKept, ClosedKept, Zenon
<1>2. leasesOf' = [leasesOf EXCEPT ![s] = @ \cup {h}]
  BY Zenon DEF leasesOf
<1>3. gateOf[s] = "open" /\ h \notin leasesOf[s]
  BY Zenon DEF gateOf, leasesOf
<1>. QED
  BY <1>1, <1>2, <1>3, Zenon DEF Gate!GateNext, Gate!Lease

\* Leases of one session end.
LEMMA MapEndLeases ==
    ASSUME NEW s \in Sessions, NEW H \in SUBSET Readers(s), H # {}, SameGates, SameClosed,
           Readers(s)' = Readers(s) \ H,
           \A x \in Sessions : x # s => Readers(x)' = Readers(x)
    PROVE  Gate!GateNext
<1>1. UNCHANGED <<gateOf, closedOf>>
  BY GateOfKept, ClosedKept, Zenon
<1>2. leasesOf' = [leasesOf EXCEPT ![s] = @ \ H]
  BY Zenon DEF leasesOf
<1>3. H \in SUBSET leasesOf[s]
  BY Zenon DEF leasesOf
<1>. QED
  BY <1>1, <1>2, <1>3, Zenon DEF Gate!GateNext, Gate!EndLeases

\* Tokens are closed, and perhaps a session is refused with them.
LEMMA MapClose ==
    ASSUME NEW T \in SUBSET Tokens, T # {}, NEW refused \in {{}} \cup {{s} : s \in Sessions}, SameLeases,
           \A t \in T : ClosedAt(t) = "no",
           \A s \in refused : GateAt(s) = "new" /\ TokenOf[s] \in T,
           \A t \in Tokens : ClosedAt(t)' = IF t \in T THEN "closing" ELSE ClosedAt(t),
           \A s \in Sessions : GateAt(s)' = IF s \in refused THEN "over"
                                            ELSE IF TokenOf[s] \in T /\ GateAt(s) = "open" THEN "shut"
                                            ELSE GateAt(s)
    PROVE  Gate!GateNext
<1>1. UNCHANGED leasesOf
  BY LeasesKept, Zenon
<1>2. /\ \A t \in Tokens : closedOf[t] = ClosedAt(t)
      /\ \A s \in Sessions : gateOf[s] = GateAt(s)
      /\ refused \subseteq Sessions
  BY Zenon DEF closedOf, gateOf
<1>3. closedOf' = [t \in Tokens |-> IF t \in T THEN "closing" ELSE closedOf[t]]
  BY <1>2, Zenon DEF closedOf
<1>4. gateOf' = [s \in Sessions |-> IF s \in refused THEN "over"
                                    ELSE IF TokenOf[s] \in T /\ gateOf[s] = "open" THEN "shut"
                                    ELSE gateOf[s]]
  BY <1>2, Zenon DEF gateOf
<1>5. Gate!Close(T, refused)
  BY <1>1, <1>2, <1>3, <1>4, Zenon DEF Gate!Close
<1>. QED
  BY <1>5, Zenon DEF Gate!GateNext

\* Closing tokens is done.
LEMMA MapClosed ==
    ASSUME NEW T \in SUBSET Tokens, T # {}, SameGates, SameLeases,
           \A t \in T : ClosedAt(t) = "closing",
           \A t \in T : \A s \in SessionsOf(t) : GateAt(s) = "new" \/ (GateAt(s) = "over" /\ Readers(s) = {}),
           \A t \in Tokens : ClosedAt(t)' = IF t \in T THEN "done" ELSE ClosedAt(t)
    PROVE  Gate!GateNext
<1>1. UNCHANGED <<gateOf, leasesOf>>
  BY GateOfKept, LeasesKept, Zenon
<1>2. /\ \A t \in Tokens : closedOf[t] = ClosedAt(t)
      /\ \A s \in Sessions : gateOf[s] = GateAt(s) /\ leasesOf[s] = Readers(s)
  BY Zenon DEF closedOf, gateOf, leasesOf
<1>3. closedOf' = [t \in Tokens |-> IF t \in T THEN "done" ELSE closedOf[t]]
  BY <1>2, Zenon DEF closedOf
<1>4. Gate!Closed(T)
  BY <1>1, <1>2, <1>3, SMTT(30) DEF Gate!Closed, Gate!SessionsOf, Gate!Over, SessionsOf
<1>. QED
  BY <1>4, Zenon DEF Gate!GateNext
-----------------------------------------------------------------------------
(* Every step of the manager is a step of the gate *)

GateStep == Gate!GateNext \/ UNCHANGED Gate!gateVars

\* A tombstone closes its token and shuts its sessions.  The session that found
\* its token expired in Track is refused in the same step.
LEMMA GateBeginDisable ==
    ASSUME TypeOK, Inv, NEW t \in Tokens, ~Stopped, disable[t] = "none",
           beginDisableLocked(t), UNCHANGED <<doneVars, procVars, stopVars>>,
           NEW refused \in {{}} \cup {{s} : s \in Sessions},
           \A s \in refused : phase[s] = "accepted" /\ phase'[s] = "rejected" /\ TokenOf[s] = t,
           \A s \in Sessions : s \notin refused => phase'[s] = phase[s]
    PROVE  Gate!GateNext
<1>1. SameLeases
  BY Zenon DEF SameLeases, Readers, procVars
<1>2. \A x \in Tokens : ClosedAt(x)' = IF x \in {t} THEN "closing" ELSE ClosedAt(x)
  BY SMTT(100) DEF beginDisableLocked, ClosedAt, Stopped, stopVars, TypeOK
<1>3. ClosedAt(t) = "no"
  BY Zenon DEF ClosedAt, Stopped
<1>4. \A s \in Sessions : /\ s \in sessions' <=> s \in sessions /\ TokenOf[s] # t
                          /\ s \in released' <=> s \in released
                          /\ s \in sessions /\ TokenOf[s] = t => removals'[s] = "wait"
                          /\ ~ (s \in sessions /\ TokenOf[s] = t) => removals'[s] = removals[s]
  BY Zenon DEF beginDisableLocked, registerRemoveLocked, SessionsOf, Pending, Inv, TrackedInv, doneVars, TypeOK
<1>5. ASSUME NEW s \in Sessions
      PROVE  GateAt(s)' = IF s \in refused THEN "over"
                          ELSE IF TokenOf[s] \in {t} /\ GateAt(s) = "open" THEN "shut"
                          ELSE GateAt(s)
  <2>1. CASE s \in refused
    BY <1>4, <2>1, Zenon DEF GateAt, Inv, LifeInv
  <2>2. CASE s \notin refused /\ s \in sessions /\ TokenOf[s] = t
    BY <1>4, <2>2, Zenon DEF GateAt, Inv, TrackedInv
  <2>3. CASE s \notin refused /\ ~ (s \in sessions /\ TokenOf[s] = t)
    <3>1. SameGate(s) /\ ~ (TokenOf[s] \in {t} /\ GateAt(s) = "open")
      BY <1>4, <2>3, Zenon DEF SameGate, GateAt
    <3>. QED BY <2>3, <3>1, GateKept, Zenon
  <2>. QED BY <2>1, <2>2, <2>3, Zenon
<1>6. \A s \in refused : GateAt(s) = "new" /\ TokenOf[s] \in {t}
  BY Zenon DEF GateAt
<1>7. {t} \in SUBSET Tokens
  OBVIOUS
<1>. QED
  BY <1>1, <1>2, <1>3, <1>5, <1>6, <1>7, MapClose, Zenon

\* The same for a step that refuses no session.
LEMMA GateDisable ==
    ASSUME TypeOK, Inv, NEW t \in Tokens, ~Stopped, disable[t] = "none",
           beginDisableLocked(t), UNCHANGED <<phase, doneVars, procVars, stopVars>>
    PROVE  Gate!GateNext
<1>. DEFINE refused == {}
<1>1. /\ refused \in {{}} \cup {{s} : s \in Sessions}
      /\ \A s \in refused : phase[s] = "accepted" /\ phase'[s] = "rejected" /\ TokenOf[s] = t
      /\ \A s \in Sessions : s \notin refused => phase'[s] = phase[s]
  OBVIOUS
<1>. HIDE DEF refused
<1>. QED
  BY <1>1, GateBeginDisable, Zenon

\* Remove shuts a session that is open, and does nothing to another.
LEMMA GateRemove ==
    ASSUME TypeOK, Inv, NEW s \in Sessions, Remove(s), SameLeases,
           UNCHANGED <<doneVars, disVars, stopVars>>,
           \A x \in Sessions : phase'[x] = "accepted" <=> phase[x] = "accepted"
    PROVE  GateStep
<1>1. SameClosed
  BY ClosedFrame, Zenon DEF disVars, stopVars
<1>2. \/ UNCHANGED <<sessions, removals>>
      \/ /\ s \in sessions /\ sessions' = sessions \ {s}
         /\ removals' = [removals EXCEPT ![s] = "wait"]
  BY RemoveEffect, Zenon
<1>3. CASE UNCHANGED <<sessions, removals>>
  <2>1. SameGates
    BY <1>3, Zenon DEF SameGates, SameGate, doneVars
  <2>. QED BY <1>1, <2>1, Stutters, Zenon DEF Invisible, GateStep
<1>4. CASE s \in sessions /\ sessions' = sessions \ {s} /\ removals' = [removals EXCEPT ![s] = "wait"]
  <2>1. \A x \in Sessions : x # s => SameGate(x)
    BY <1>4, SMTT(100) DEF SameGate, doneVars, TypeOK
  <2>2. GateAt(s) = "open" /\ GateAt(s)' = "shut"
    BY <1>4, SMTT(100) DEF GateAt, doneVars, TypeOK, Inv, TrackedInv
  <2>. QED BY <1>1, <2>1, <2>2, MapSession, Zenon DEF GateStep
<1>. QED
  BY <1>2, <1>3, <1>4, Zenon

\* Releasing a session that is not tracked and has no lease finishes it, if
\* nobody has done so before.
LEMMA GateRelease ==
    ASSUME TypeOK, Inv, NEW s \in Sessions, s \notin sessions, phase[s] # "accepted", Readers(s) = {},
           released' = released \cup {s}, UNCHANGED <<phase, sessions, removals>>,
           SameLeases, SameClosed
    PROVE  GateStep
<1>1. \A x \in Sessions : x # s => SameGate(x)
  BY Zenon DEF SameGate
<1>2. GateAt(s)' = "over" /\ GateAt(s) \in {"over", "shut"}
  BY Zenon DEF GateAt
<1>3. CASE s \in released
  <2>1. SameGates
    BY <1>1, <1>3, Zenon DEF SameGates, SameGate
  <2>. QED BY <2>1, Stutters, Zenon DEF Invisible, GateStep
<1>4. CASE s \notin released /\ removals[s] = "none"
  <2>1. GateAt(s) = "over"
    BY <1>4, Zenon DEF GateAt
  <2>2. UNCHANGED gateOf
    BY <1>1, <1>2, <2>1, GateKept, Zenon DEF gateOf
  <2>. QED BY <2>2, LeasesKept, ClosedKept, Zenon DEF GateStep, Gate!gateVars
<1>5. CASE s \notin released /\ removals[s] # "none"
  <2>1. GateAt(s) = "shut"
    BY <1>5, Zenon DEF GateAt
  <2>. QED BY <1>1, <1>2, <2>1, MapSession, Zenon DEF GateStep
<1>. QED
  BY <1>3, <1>4, <1>5, Zenon

\* Leases are compared goroutine by goroutine.
LEMMA ReadersAre ==
    ASSUME NEW s \in Sessions, NEW R \in SUBSET Workers, \A v \in Workers : v \in Readers(s)' <=> v \in R
    PROVE  Readers(s)' = R
<1>1. Readers(s)' \subseteq Workers
  BY Zenon DEF Readers
<1>. QED
  BY <1>1, Zenon

\* A goroutine that moves on keeps the leases as they are, or ends its own.
LEMMA GotoLeases ==
    ASSUME TypeOK, NEW w \in Workers, NEW from, NEW to, Goto(w, from, to), to \notin Reading \/ pc[w] \in Reading
    PROVE  /\ (to \in Reading <=> pc[w] \in Reading) => SameLeases
           /\ pc[w] \in Reading /\ to \notin Reading =>
                 /\ on[w] \in Sessions
                 /\ \A x \in Sessions : Readers(x)' = Readers(x) \ {w} /\ (w \in Readers(x) <=> on[w] = x)
<1>1. /\ pc'[w] = to /\ \A v \in Workers : v # w => pc'[v] = pc[v] /\ on'[v] = on[v]
      /\ to # "idle" => on'[w] = on[w]
  BY Zenon DEF Goto, TypeOK
<1>2. to \in Reading => to # "idle"
  BY Zenon DEF Reading
<1>3. pc[w] \in Reading => on[w] \in Sessions
  BY Zenon DEF TypeOK, Reading
<1>4. \A v \in Workers : v # w => \A x \in Sessions : v \in Readers(x)' <=> v \in Readers(x)
  BY <1>1, Zenon DEF Readers
<1>5. \A x \in Sessions : /\ w \in Readers(x)' <=> on'[w] = x /\ to \in Reading
                          /\ w \in Readers(x) <=> on[w] = x /\ pc[w] \in Reading
                          /\ Readers(x) \subseteq Workers /\ Readers(x)' \subseteq Workers
  BY <1>1, Zenon DEF Readers
<1>6. ASSUME to \in Reading <=> pc[w] \in Reading
      PROVE  SameLeases
  <2>1. \A x \in Sessions, v \in Workers : v \in Readers(x)' <=> v \in Readers(x)
    BY <1>1, <1>2, <1>4, <1>5, <1>6, Zenon
  <2>. QED BY <1>5, <2>1, Zenon DEF SameLeases
<1>7. ASSUME pc[w] \in Reading, to \notin Reading, NEW x \in Sessions
      PROVE  Readers(x)' = Readers(x) \ {w} /\ (w \in Readers(x) <=> on[w] = x)
  <2>1. /\ Readers(x) \ {w} \in SUBSET Workers
        /\ \A v \in Workers : v \in Readers(x)' <=> v \in Readers(x) \ {w}
    BY <1>4, <1>5, <1>7, Zenon
  <2>. QED BY <1>5, <1>7, <2>1, ReadersAre, Zenon
<1>. QED
  BY <1>3, <1>6, <1>7, Zenon

\* Steps of goroutines that leave the sessions alone: nothing to be seen, or the
\* end of one lease.
LEMMA GateGoto ==
    ASSUME TypeOK, Inv, NEW w \in Workers, NEW from, NEW to, Goto(w, from, to),
           to \notin Reading \/ pc[w] \in Reading, UNCHANGED onlyPc
    PROVE  GateStep
<1>1. SameGates /\ SameClosed
  BY ClosedFrame, Zenon DEF SameGates, SameGate, onlyPc, sessVars, doneVars, disVars, stopVars
<1>2. CASE to \in Reading <=> pc[w] \in Reading
  BY <1>1, <1>2, GotoLeases, Stutters, Zenon DEF Invisible, GateStep
<1>3. CASE pc[w] \in Reading /\ to \notin Reading
  <2>. DEFINE H == {w}
  <2>0. PICK s \in Sessions : s = on[w]
    BY <1>3, GotoLeases, Zenon
  <2>1. \A x \in Sessions : Readers(x)' = Readers(x) \ {w} /\ (w \in Readers(x) <=> x = s)
    BY <1>3, <2>0, GotoLeases, Zenon
  <2>2. H \in SUBSET Readers(s) /\ H # {} /\ Readers(s)' = Readers(s) \ H
    BY <2>1, Zenon
  <2>3. \A x \in Sessions : x # s => Readers(x)' = Readers(x)
    BY <2>1, Zenon
  <2>. HIDE DEF H
  <2>. QED BY <1>1, <2>2, <2>3, MapEndLeases, Zenon DEF GateStep
<1>. QED
  BY <1>2, <1>3, Zenon

LEMMA GateWorkerStep ==
    ASSUME TypeOK, Inv, NEW w \in Workers, WorkerStep(w)
    PROVE  GateStep
<1>1. CASE BeginSend(w) \/ RetainHTTP(w)
  BY <1>1, GateGoto, Zenon DEF BeginSend, RetainHTTP, Goto, Reading
<1>2. CASE Release(w)
  BY <1>2, GateGoto, Zenon DEF Release, Reading
<1>3. CASE LoadLeases(w)
  BY <1>3, GateGoto, Zenon DEF LoadLeases, Reading
<1>4. CASE RemoveSession(w)
  <2>1. pc[w] \in {"disconnect", "senderror"}
    BY <1>4, Zenon DEF RemoveSession, Goto
  <2>2. on[w] \in Sessions
    BY <2>1, Zenon DEF TypeOK
  <2>3. SameLeases
    BY <1>4, <2>1, GotoLeases, SMTT(30) DEF RemoveSession, Reading
  <2>. QED BY <1>4, <2>2, <2>3, GateRemove, Zenon DEF RemoveSession
<1>5. CASE waitRemoveDrain(w)
  <2>1. pc[w] \in {"draining", "syncdrain", "closedrain"}
    BY <1>5, Zenon DEF waitRemoveDrain, Goto
  <2>2. on[w] \in Sessions /\ on[w] \notin sessions /\ phase[on[w]] # "accepted"
    BY <2>1, Zenon DEF TypeOK, Inv, WorkerInv, Finishing
  <2>3. Readers(on[w]) = {}
    BY <1>5, <2>2, Zenon DEF waitRemoveDrain, Drained, Inv, LeaseInv
  <2>4. SameLeases
    BY <1>5, <2>1, GotoLeases, SMTT(30) DEF waitRemoveDrain, Reading
  <2>5. SameClosed /\ UNCHANGED <<phase, sessions, removals>> /\ released' = released \cup {on[w]}
    BY <1>5, ClosedFrame, Zenon DEF waitRemoveDrain, sessVars, disVars, stopVars
  <2>. QED BY <2>2, <2>3, <2>4, <2>5, GateRelease, Zenon
<1>6. CASE CompleteRemove(w)
  <2>1. pc[w] = "complete"
    BY <1>6, Zenon DEF CompleteRemove, Goto
  <2>2. SameLeases
    BY <1>6, <2>1, GotoLeases DEF CompleteRemove, Reading
  <2>3. SameClosed
    BY <1>6, ClosedFrame, Zenon DEF CompleteRemove, disVars, stopVars
  <2>4. SameGates
    BY <1>6, Zenon DEF CompleteRemove, SameGates, SameGate, sessVars
  <2>. QED BY <2>2, <2>3, <2>4, Stutters, Zenon DEF Invisible, GateStep
<1>. QED
  BY <1>1, <1>2, <1>3, <1>4, <1>5, <1>6, Zenon DEF WorkerStep

\* OnConnected admits the session, refuses it, or closes its expired token.
LEMMA GateOnConnected ==
    ASSUME TypeOK, Inv, NEW s \in Sessions, OnConnected(s)
    PROVE  GateStep
<1>1. SameLeases /\ UNCHANGED <<doneVars, procVars, stopVars>>
  BY Zenon DEF OnConnected, SameLeases, Readers, procVars
<1>2. phase[s] = "accepted" /\ GateAt(s) = "new" /\ removals[s] = "none" /\ s \notin sessions /\ s \notin released
  BY Zenon DEF OnConnected, GateAt, Inv, LifeInv
<1>3. CASE /\ phase' = [phase EXCEPT ![s] = "rejected"]
           /\ UNCHANGED <<sessVars, disVars, timerVars>>
  <2>1. \A x \in Sessions : x # s => SameGate(x)
    BY <1>1, <1>3, Zenon DEF SameGate, sessVars, doneVars, TypeOK
  <2>2. GateAt(s)' = "over"
    BY <1>1, <1>2, <1>3, Zenon DEF GateAt, sessVars, doneVars, TypeOK
  <2>3. SameClosed
    BY <1>1, <1>3, ClosedFrame, Zenon DEF disVars, stopVars
  <2>. QED BY <1>1, <1>2, <2>1, <2>2, <2>3, MapSession, Zenon DEF GateStep
<1>4. CASE /\ ~Stopped /\ disable[TokenOf[s]] = "none"
           /\ phase' = [phase EXCEPT ![s] = "rejected"]
           /\ beginDisableLocked(TokenOf[s])
  <2>. DEFINE refused == {s}
  <2>1. /\ refused \in {{}} \cup {{x} : x \in Sessions}
        /\ TokenOf[s] \in Tokens
    OBVIOUS
  <2>2. /\ \A x \in refused : phase[x] = "accepted" /\ phase'[x] = "rejected" /\ TokenOf[x] = TokenOf[s]
        /\ \A x \in Sessions : x \notin refused => phase'[x] = phase[x]
    BY <1>2, <1>4, TypeDomains, Zenon
  <2>. HIDE DEF refused
  <2>. QED BY <1>1, <1>4, <2>1, <2>2, GateBeginDisable, Zenon DEF GateStep
<1>5. CASE /\ ~Stopped /\ disable[TokenOf[s]] = "none"
           /\ phase' = [phase EXCEPT ![s] = "open"]
           /\ sessions' = sessions \cup {s}
           /\ UNCHANGED <<removals, disVars>>
  <2>1. \A x \in Sessions : x # s => SameGate(x)
    BY <1>1, <1>5, TypeDomains, Zenon DEF SameGate, doneVars
  <2>2. GateAt(s)' = "open" /\ ClosedAt(TokenOf[s]) = "no"
    BY <1>1, <1>2, <1>5, Zenon DEF GateAt, ClosedAt, Stopped, TypeOK
  <2>3. SameClosed
    BY <1>1, <1>5, ClosedFrame, Zenon DEF disVars, stopVars
  <2>. QED BY <1>1, <1>2, <2>1, <2>2, <2>3, MapSession, Zenon DEF GateStep
<1>. QED
  BY <1>3, <1>4, <1>5, Zenon DEF OnConnected
\* OnConnectionClose takes no lease and gives up none: it shuts the session, unless
\* somebody else has.
LEMMA GateOnClose ==
    ASSUME TypeOK, Inv, NEW s \in Sessions, OnClose(s)
    PROVE  GateStep
<1>1. s \in Workers /\ pc[s] = "idle"
  BY Zenon DEF OnClose, Goto, Workers
<1>2. SameLeases
  BY <1>1, GotoLeases, SMTT(30) DEF OnClose, Reading
<1>3. \A x \in Sessions : phase'[x] = "accepted" <=> phase[x] = "accepted"
  BY Zenon DEF OnClose, TypeOK
<1>. QED
  BY <1>2, <1>3, GateRemove, Zenon DEF OnClose

\* finishHTTPResponse ends the leases that replies to the request have retained.
LEMMA GateFinishHTTP ==
    ASSUME TypeOK, Inv, NEW s \in Sessions, finishHTTPResponse(s)
    PROVE  GateStep
<1>. DEFINE H == {w \in Workers : on[w] = s /\ pc[w] = "retained"}
<1>1. SameGates /\ SameClosed
  BY ClosedFrame, Zenon DEF finishHTTPResponse, SameGates, SameGate, onlyPc, sessVars, doneVars, disVars, stopVars
<1>2. \A w \in Workers : /\ w \notin H /\ w # s => pc'[w] = pc[w] /\ on'[w] = on[w]
                         /\ w \in H /\ w # s => pc'[w] = "idle"
  BY Zenon DEF finishHTTPResponse
<1>3. s \in Workers /\ pc[s] = "closing" /\ pc'[s] = "closedrain"
  BY Zenon DEF finishHTTPResponse, Workers
<1>4. \A x \in Sessions, w \in Workers : /\ w \in Readers(x) <=> on[w] = x /\ pc[w] \in Reading
                                         /\ w \in Readers(x)' <=> on'[w] = x /\ pc'[w] \in Reading
  BY Zenon DEF Readers
<1>5. "idle" \notin Reading /\ "closing" \notin Reading /\ "closedrain" \notin Reading /\ "retained" \in Reading
  BY Zenon DEF Reading
<1>6. \A x \in Sessions, w \in Workers : w \in Readers(x)' <=> w \in Readers(x) /\ w \notin H
  <2>. TAKE x \in Sessions, w \in Workers
  <2>1. CASE w = s
    BY <1>3, <1>4, <1>5, <2>1, SMTT(30)
  <2>2. CASE w # s /\ w \in H
    BY <1>2, <1>4, <1>5, <2>2, SMTT(30)
  <2>3. CASE w # s /\ w \notin H
    BY <1>2, <1>4, <2>3, Zenon
  <2>. QED BY <2>1, <2>2, <2>3, Zenon
<1>7. H \in SUBSET Readers(s) /\ \A x \in Sessions : x # s => H \cap Readers(x) = {}
  BY <1>5, Zenon DEF Readers
<1>. HIDE DEF H
<1>8. ASSUME NEW x \in Sessions
      PROVE  Readers(x)' = Readers(x) \ H
  <2>1. /\ Readers(x) \ H \in SUBSET Workers
        /\ \A v \in Workers : v \in Readers(x)' <=> v \in Readers(x) \ H
    BY <1>6, Zenon DEF Readers
  <2>. QED BY <2>1, ReadersAre, Zenon
<1>9. ASSUME NEW x \in Sessions, x # s
      PROVE  Readers(x)' = Readers(x)
  <2>1. Readers(x)' = Readers(x) \ H /\ H \cap Readers(x) = {}
    BY <1>7, <1>8, <1>9, Zenon
  <2>. QED BY <2>1
<1>10. CASE H = {}
  <2>1. SameLeases
    BY <1>8, <1>10, Zenon DEF SameLeases
  <2>. QED BY <1>1, <2>1, Stutters, Zenon DEF Invisible, GateStep
<1>11. CASE H # {}
  BY <1>1, <1>7, <1>8, <1>9, <1>11, MapEndLeases, Zenon DEF GateStep
<1>. QED
  BY <1>10, <1>11, Zenon

\* The goroutine of a removal works behind a gate that is shut.
LEMMA GateFinishRemove ==
    ASSUME TypeOK, Inv, NEW s \in Sessions, finishRemove(s)
    PROVE  GateStep
<1>1. SameClosed
  BY ClosedFrame, Zenon DEF finishRemove, disVars, stopVars
<1>2. SameLeases
  BY Zenon DEF finishRemove, SameLeases, Readers, procVars
<1>3. SameGates
  BY SMTT(30) DEF finishRemove, SameGates, SameGate, doneVars, TypeOK
<1>. QED
  BY <1>1, <1>2, <1>3, Stutters, Zenon DEF Invisible, GateStep

\* A goroutine that was idle takes a lease on a tracked session.
LEMMA GateLease ==
    ASSUME TypeOK, Inv, NEW p \in Workers, NEW s \in Sessions, NEW as \in Reading,
           pc[p] = "idle", s \in sessions, SameGates, SameClosed,
           pc' = [pc EXCEPT ![p] = as], on' = [on EXCEPT ![p] = s]
    PROVE  GateStep
<1>1. GateAt(s) = "open"
  BY Zenon DEF GateAt, Inv, TrackedInv
<1>2. /\ pc'[p] \in Reading /\ on'[p] = s
      /\ \A v \in Workers : v # p => pc'[v] = pc[v] /\ on'[v] = on[v]
  BY TypeDomains, Zenon
<1>3. pc[p] \notin Reading
  BY Zenon DEF Reading
<1>4. \A x \in Sessions, v \in Workers : /\ v \in Readers(x) <=> on[v] = x /\ pc[v] \in Reading
                                         /\ v \in Readers(x)' <=> on'[v] = x /\ pc'[v] \in Reading
  BY Zenon DEF Readers
<1>5. \A x \in Sessions : p \notin Readers(x)
  BY <1>3, <1>4, Zenon
<1>6. \A x \in Sessions, v \in Workers : v \in Readers(x)' <=> v \in Readers(x) \/ (v = p /\ x = s)
  <2>. TAKE x \in Sessions, v \in Workers
  <2>1. CASE v = p
    <3>1. p \in Readers(x)' <=> x = s
      BY <1>2, <1>4, Zenon
    <3>. QED BY <1>5, <2>1, <3>1, Zenon
  <2>2. CASE v # p
    BY <1>2, <1>4, <2>2, Zenon
  <2>. QED BY <2>1, <2>2, Zenon
<1>7. Readers(s)' = Readers(s) \cup {p}
  <2>1. /\ Readers(s) \cup {p} \in SUBSET Workers
        /\ \A v \in Workers : v \in Readers(s)' <=> v \in Readers(s) \cup {p}
    BY <1>6, Zenon DEF Readers
  <2>. QED BY <2>1, ReadersAre, Zenon
<1>8. ASSUME NEW x \in Sessions, x # s
      PROVE  Readers(x)' = Readers(x)
  <2>1. /\ Readers(x) \in SUBSET Workers
        /\ \A v \in Workers : v \in Readers(x)' <=> v \in Readers(x)
    BY <1>6, <1>8, Zenon DEF Readers
  <2>. QED BY <2>1, ReadersAre, Zenon
<1>. QED
  BY <1>1, <1>5, <1>7, <1>8, MapLease, Zenon DEF GateStep
\* Acquire grants a lease, or closes the expired token.
LEMMA GateAcquire ==
    ASSUME TypeOK, Inv, NEW p \in Procs, NEW s \in Sessions, NEW as \in {"message", "push"}, Acquire(p, s, as)
    PROVE  GateStep
<1>1. s \in sessions /\ ~Stopped /\ disable[TokenOf[s]] = "none" /\ pc[p] = "idle" /\ UNCHANGED <<doneVars, stopVars>>
  BY Zenon DEF Acquire, Admits
<1>2. CASE /\ pc' = [pc EXCEPT ![p] = as] /\ on' = [on EXCEPT ![p] = s]
           /\ phase' = IF s \in HTTP /\ as = "message" THEN [phase EXCEPT ![s] = "served"] ELSE phase
           /\ UNCHANGED <<sessVars, disVars>>
  <2>1. SameClosed
    BY <1>1, <1>2, ClosedFrame, Zenon DEF disVars, stopVars
  <2>2. phase[s] # "accepted"
    BY <1>1, Zenon DEF Inv, TrackedInv
  <2>3. \A x \in Sessions : phase'[x] = "accepted" <=> phase[x] = "accepted"
    BY <1>2, <2>2, Zenon DEF TypeOK
  <2>4. SameGates
    BY <1>1, <1>2, <2>3, Zenon DEF SameGates, SameGate, sessVars, doneVars
  <2>5. p \in Workers /\ as \in Reading
    BY Zenon DEF Workers, Reading
  <2>. QED BY <1>1, <1>2, <2>1, <2>4, <2>5, GateLease, Zenon
<1>3. CASE beginDisableLocked(TokenOf[s]) /\ UNCHANGED <<procVars, phase>>
  <2>1. TokenOf[s] \in Tokens
    OBVIOUS
  <2>. QED BY <1>1, <1>3, <2>1, GateDisable, Zenon DEF GateStep
<1>. QED
  BY <1>2, <1>3, Zenon DEF Acquire

\* launchAutoPush takes a lease for the goroutine it starts.
LEMMA GateFork ==
    ASSUME TypeOK, Inv, NEW p \in Procs, NEW q \in Procs, Fork(p, q)
    PROVE  GateStep
<1>1. p \in Workers /\ q \in Workers /\ "forked" \in Reading
  BY Zenon DEF Workers, Reading
<1>2. PICK s \in Sessions : s = on[p]
  BY <1>1, Zenon DEF Fork, TypeOK
<1>3. SameGates /\ SameClosed
  BY ClosedFrame, Zenon DEF Fork, SameGates, SameGate, sessVars, doneVars, disVars, stopVars
<1>4. pc[q] = "idle" /\ s \in sessions /\ pc' = [pc EXCEPT ![q] = "forked"] /\ on' = [on EXCEPT ![q] = s]
  BY <1>2, Zenon DEF Fork, Admits
<1>. QED
  BY <1>1, <1>3, <1>4, GateLease, Zenon

\* Disable closes the token, unless somebody has.
LEMMA GateCallDisable ==
    ASSUME TypeOK, Inv, NEW c \in Callers, NEW t \in Tokens, Disable(c, t)
    PROVE  GateStep
<1>1. CASE UNCHANGED <<sessVars, disVars>>
  <2>1. SameGates /\ SameClosed /\ SameLeases
    BY <1>1, ClosedFrame, Zenon DEF Disable, SameGates, SameGate, SameLeases, Readers, sessVars, doneVars, disVars,
       stopVars, procVars
  <2>. QED BY <2>1, Stutters, Zenon DEF Invisible, GateStep
<1>2. CASE ~Stopped /\ disable[t] = "none" /\ beginDisableLocked(t)
  BY <1>2, GateDisable, Zenon DEF Disable, GateStep
<1>. QED
  BY <1>1, <1>2, Zenon DEF Disable

\* expireToken does nothing that can be seen, or closes its token.
LEMMA GateExpireDecide ==
    ASSUME TypeOK, Inv, NEW e \in expirers, expireTokenDecide(e)
    PROVE  GateStep
<1>1. CASE UNCHANGED <<sessVars, disVars>>
  <2>1. SameGates /\ SameClosed /\ SameLeases
    BY <1>1, ClosedFrame, Zenon DEF expireTokenDecide, SameGates, SameGate, SameLeases, Readers, sessVars, doneVars,
       disVars, stopVars, procVars
  <2>. QED BY <2>1, Stutters, Zenon DEF Invisible, GateStep
<1>2. CASE ~Stopped /\ timerAt[e.tok] # Never /\ beginDisableLocked(e.tok)
  <2>1. e.tok \in Tokens
    BY Zenon DEF TypeOK
  <2>2. disable[e.tok] = "none"
    BY <1>2, <2>1, Zenon DEF Inv, ScheduledInv
  <2>. QED BY <1>2, <2>1, <2>2, GateDisable, Zenon DEF expireTokenDecide, GateStep
<1>. QED
  BY <1>1, <1>2, Zenon DEF expireTokenDecide
\* A session that is neither tracked nor being removed is over, if it ever was tracked.
LEMMA NotPendingIsOver ==
    ASSUME TypeOK, Inv, NEW s \in Sessions, s \notin sessions, removals[s] \notin Pending
    PROVE  GateAt(s) = "new" \/ (GateAt(s) = "over" /\ Readers(s) = {})
<1>1. removals[s] \in {"none", "gone"}
  BY DEF TypeOK, Pending
<1>2. Readers(s) = {}
  BY <1>1, Zenon DEF Inv, LeaseInv
<1>3. removals[s] = "gone" => s \in released
  BY Zenon DEF Inv, LifeInv
<1>. QED
  BY <1>1, <1>2, <1>3, Zenon DEF GateAt

\* completeDisable finishes sessions, and closes the token when none is left.
LEMMA GateCompleteDisable ==
    ASSUME TypeOK, Inv, NEW t \in Tokens, completeDisable(t)
    PROVE  GateStep
<1>1. SameLeases /\ UNCHANGED <<phase, sessions, removals, stop>>
  BY Zenon DEF completeDisable, SameLeases, Readers, procVars, sessVars, stopVars
<1>2. ASSUME released' = released, \A x \in Tokens : x # t => disable'[x] = disable[x],
             disable[t] \notin {"none", "done"}, disable'[t] \notin {"none", "done"}
      PROVE  GateStep
  <2>1. SameGates
    BY <1>1, <1>2, Zenon DEF SameGates, SameGate
  <2>2. SameClosed
    BY <1>1, <1>2, Zenon DEF SameClosed, ClosedAt, Stopped
  <2>. QED BY <1>1, <2>1, <2>2, Stutters, Zenon DEF Invisible, GateStep
<1>3. CASE DrainDisabled(t)
  <2>1. /\ released' = released /\ \A x \in Tokens : x # t => disable'[x] = disable[x]
        /\ disable[t] \notin {"none", "done"} /\ disable'[t] \notin {"none", "done"}
    BY <1>3, SMTT(30) DEF DrainDisabled, doneVars, TypeOK
  <2>. QED BY <1>2, <2>1, Zenon
<1>4. CASE CleanDisabled(t) /\ disTodo[t] = {}
  <2>1. /\ released' = released /\ \A x \in Tokens : x # t => disable'[x] = disable[x]
        /\ disable[t] \notin {"none", "done"} /\ disable'[t] \notin {"none", "done"}
    BY <1>4 DEF CleanDisabled, TypeOK
  <2>. QED BY <1>2, <2>1, Zenon
<1>5. CASE CleanDisabled(t) /\ disTodo[t] # {}
  <2>1. PICK s \in disTodo[t] : released' = released \cup {s}
    BY <1>5, Zenon DEF CleanDisabled
  <2>2. disable[t] = "clean" /\ UNCHANGED disable
    BY <1>5, Zenon DEF CleanDisabled
  <2>3. s \in Sessions /\ s \notin sessions /\ phase[s] # "accepted" /\ Readers(s) = {}
    BY <2>1, <2>2, SMTT(100) DEF Inv, DisableInv, TypeOK
  <2>4. SameClosed
    BY <1>1, <2>2, ClosedFrame, Zenon
  <2>. QED BY <1>1, <2>1, <2>3, <2>4, GateRelease, Zenon
<1>6. CASE AwaitRemovals(t)
  <2>1. SameGates
    BY <1>1, <1>6, Zenon DEF AwaitRemovals, SameGates, SameGate, doneVars
  <2>2. /\ disable[t] = "await" /\ disable'[t] = "done"
        /\ \A x \in Tokens : x # t => disable'[x] = disable[x]
    BY <1>6, TypeDomains, Zenon DEF AwaitRemovals
  <2>3. CASE stop = "done"
    <3>1. SameClosed
      BY <1>1, <2>3, Zenon DEF SameClosed, ClosedAt
    <3>. QED BY <1>1, <2>1, <3>1, Stutters, Zenon DEF Invisible, GateStep
  <2>4. CASE stop # "done"
    <3>. DEFINE T == {t}
    <3>1. ASSUME NEW s \in Sessions, TokenOf[s] = t
          PROVE  GateAt(s) = "new" \/ (GateAt(s) = "over" /\ Readers(s) = {})
      <4>1. s \notin sessions
        BY <2>2, <3>1, Zenon DEF Inv, TrackedInv
      <4>2. removals[s] \in Pending => s \in disSessions[t]
        BY <2>2, <3>1, Zenon DEF Inv, DisableInv, SessionsOf
      <4>3. removals[s] \notin Pending
        BY <1>6, <4>2, Zenon DEF AwaitRemovals, AwaitedBy, Pending
      <4>. QED BY <4>1, <4>3, NotPendingIsOver, Zenon
    <3>2. \A x \in T : \A s \in SessionsOf(x) : GateAt(s) = "new" \/ (GateAt(s) = "over" /\ Readers(s) = {})
      BY <3>1, Zenon DEF SessionsOf
    <3>3. T \in SUBSET Tokens /\ T # {} /\ \A x \in T : ClosedAt(x) = "closing"
      BY <2>2, <2>4, Zenon DEF ClosedAt
    <3>4. \A x \in Tokens : ClosedAt(x)' = IF x \in T THEN "done" ELSE ClosedAt(x)
      BY <1>1, <2>2, <2>4, Zenon DEF ClosedAt, Stopped
    <3>. HIDE DEF T
    <3>. QED BY <1>1, <2>1, <3>2, <3>3, <3>4, MapClosed, Zenon DEF GateStep
  <2>. QED BY <2>3, <2>4, Zenon
<1>. QED
  BY <1>3, <1>4, <1>5, <1>6, Zenon DEF completeDisable

\* The stop closes all tokens that are open, and shuts every session.
LEMMA GateBeginStop ==
    ASSUME TypeOK, Inv, beginStop
    PROVE  GateStep
<1>. DEFINE T == {t \in Tokens : disable[t] = "none"}
<1>1. SameLeases /\ UNCHANGED <<phase, released, disable>> /\ sessions' = {} /\ stop = "no" /\ stop' = "drain"
  BY Zenon DEF beginStop, SameLeases, Readers, procVars, doneVars, disVars, Stopped
<1>2. ASSUME NEW s \in Sessions
      PROVE  /\ s \in sessions => removals'[s] = "wait" /\ TokenOf[s] \in T
             /\ s \notin sessions => SameGate(s)
  <2>1. removals'[s] = IF s \in sessions /\ removals[s] \notin Pending THEN "wait" ELSE removals[s]
    BY Zenon DEF beginStop, registerRemoveLocked
  <2>2. s \in sessions => removals[s] = "none" /\ disable[TokenOf[s]] = "none"
    BY Zenon DEF Inv, TrackedInv
  <2>3. "none" \notin Pending
    BY Zenon DEF Pending
  <2>. QED BY <1>1, <2>1, <2>2, <2>3, Zenon DEF SameGate
<1>3. \A t \in Tokens : ClosedAt(t)' = IF t \in T THEN "closing" ELSE ClosedAt(t)
  BY <1>1, Zenon DEF ClosedAt, Stopped
<1>4. \A t \in T : ClosedAt(t) = "no"
  BY <1>1, Zenon DEF ClosedAt, Stopped
<1>5. T \in SUBSET Tokens
  OBVIOUS
<1>. HIDE DEF T
<1>6. CASE T = {}
  <2>1. SameGates
    BY <1>2, <1>6, Zenon DEF SameGates
  <2>2. SameClosed
    BY <1>3, <1>6, Zenon DEF SameClosed
  <2>. QED BY <1>1, <2>1, <2>2, Stutters, Zenon DEF Invisible, GateStep
<1>7. CASE T # {}
  <2>. DEFINE refused == {}
  <2>1. refused \in {{}} \cup {{s} : s \in Sessions} /\ \A s \in refused : GateAt(s) = "new" /\ TokenOf[s] \in T
    OBVIOUS
  <2>2. ASSUME NEW s \in Sessions
        PROVE  GateAt(s)' = IF s \in refused THEN "over"
                            ELSE IF TokenOf[s] \in T /\ GateAt(s) = "open" THEN "shut"
                            ELSE GateAt(s)
    <3>1. s \notin refused
      OBVIOUS
    <3>. HIDE DEF refused
    <3>2. CASE s \in sessions
      <4>1. GateAt(s) = "open" /\ s \notin released /\ phase[s] # "accepted"
        BY <3>2, Zenon DEF GateAt, Inv, TrackedInv
      <4>2. GateAt(s)' = "shut"
        BY <1>1, <1>2, <3>2, <4>1, Zenon DEF GateAt
      <4>. QED BY <1>2, <3>1, <3>2, <4>1, <4>2, Zenon
    <3>3. CASE s \notin sessions
      <4>1. GateAt(s) # "open" /\ GateAt(s)' = GateAt(s)
        BY <1>2, <3>3, GateKept, Zenon DEF GateAt
      <4>. QED BY <3>1, <4>1, Zenon
    <3>. QED BY <3>2, <3>3, Zenon
  <2>. HIDE DEF refused
  <2>. QED BY <1>1, <1>3, <1>4, <1>5, <1>7, <2>1, <2>2, MapClose, Zenon DEF GateStep
<1>. QED
  BY <1>6, <1>7, Zenon
\* completeStop finishes sessions, and closes every token when none is left.
LEMMA GateCompleteStop ==
    ASSUME TypeOK, Inv, completeStop
    PROVE  GateStep
<1>1. SameLeases /\ UNCHANGED <<phase, sessions, removals, disable>>
  BY Zenon DEF completeStop, SameLeases, Readers, procVars, sessVars, disVars
<1>2. CASE released' = released /\ stop \notin {"no", "done"} /\ stop' \notin {"no", "done"}
  <2>1. SameGates
    BY <1>1, <1>2, Zenon DEF SameGates, SameGate
  <2>2. SameClosed
    BY <1>1, <1>2, Zenon DEF SameClosed, ClosedAt, Stopped
  <2>. QED BY <1>1, <2>1, <2>2, Stutters, Zenon DEF Invisible, GateStep
<1>3. CASE stop = "clean" /\ UNCHANGED stop /\ \E s \in stopTodo : released' = released \cup {s}
  <2>1. PICK s \in stopTodo : released' = released \cup {s}
    BY <1>3, Zenon
  <2>2. s \in Sessions /\ s \notin sessions /\ phase[s] # "accepted" /\ Readers(s) = {}
    BY <1>3, <2>1, Zenon DEF Inv, StopInv, TypeOK
  <2>3. SameClosed
    BY <1>1, <1>3, ClosedFrame, Zenon
  <2>. QED BY <1>1, <2>1, <2>2, <2>3, GateRelease, Zenon
<1>4. CASE /\ stop = "await" /\ stop' = "done" /\ released' = released
           /\ \A s \in Sessions : removals[s] \notin Pending
  <2>. DEFINE T == {t \in Tokens : disable[t] # "done"}
  <2>1. SameGates
    BY <1>1, <1>4, Zenon DEF SameGates, SameGate
  <2>2. \A s \in Sessions : GateAt(s) = "new" \/ (GateAt(s) = "over" /\ Readers(s) = {})
    <3>1. \A s \in Sessions : s \notin sessions
      BY <1>4, Zenon DEF Inv, TrackedInv, Stopped
    <3>. QED BY <1>4, <3>1, NotPendingIsOver, Zenon
  <2>3. /\ \A t \in T : ClosedAt(t) = "closing"
        /\ \A t \in Tokens : ClosedAt(t)' = IF t \in T THEN "done" ELSE ClosedAt(t)
    BY <1>1, <1>4, Zenon DEF ClosedAt, Stopped
  <2>4. T \in SUBSET Tokens
    OBVIOUS
  <2>. HIDE DEF T
  <2>5. CASE T = {}
    <3>1. SameClosed
      BY <2>3, <2>5, Zenon DEF SameClosed
    <3>. QED BY <1>1, <2>1, <3>1, Stutters, Zenon DEF Invisible, GateStep
  <2>6. CASE T # {}
    <3>1. \A t \in T : \A s \in SessionsOf(t) : GateAt(s) = "new" \/ (GateAt(s) = "over" /\ Readers(s) = {})
      BY <2>2, Zenon DEF SessionsOf
    <3>. QED BY <1>1, <2>1, <2>3, <2>4, <2>6, <3>1, MapClosed, Zenon DEF GateStep
  <2>. QED BY <2>5, <2>6, Zenon
<1>. QED
  BY <1>2, <1>3, <1>4, Zenon DEF completeStop, doneVars

\* The clock, the timers and the callers of Disable are not seen.
LEMMA GateUnseen ==
    ASSUME UNCHANGED <<phase, sessVars, doneVars, procVars, disVars, stopVars>>
    PROVE  GateStep
<1>1. SameGates /\ SameClosed /\ SameLeases
  BY ClosedFrame, Zenon DEF SameGates, SameGate, SameLeases, Readers, sessVars, doneVars, disVars, stopVars, procVars
<1>. QED BY <1>1, Stutters, Zenon DEF Invisible, GateStep

LEMMA GateNextStep ==
    ASSUME TypeOK, Inv, [Next]_vars
    PROVE  [Gate!GateNext]_(Gate!gateVars)
<1>1. CASE Next
  <2>1. ASSUME Tick
        PROVE  GateStep
    BY <2>1, GateUnseen, Zenon DEF Tick
  <2>2. ASSUME NEW s \in Sessions,
               OnConnected(s) \/ OnClose(s) \/ finishHTTPResponse(s) \/ finishRemove(s)
        PROVE  GateStep
    BY <2>2, GateOnConnected, GateOnClose, GateFinishHTTP, GateFinishRemove, Zenon
  <2>3. ASSUME NEW p \in Procs,
               \/ \E s \in Sessions, as \in {"message", "push"} : Acquire(p, s, as)
               \/ \E q \in Procs : Fork(p, q)
        PROVE  GateStep
    BY <2>3, GateAcquire, GateFork
  <2>4. ASSUME NEW t \in Tokens, completeDisable(t) \/ TimerFires(t)
        PROVE  GateStep
    BY <2>4, GateCompleteDisable, GateUnseen, Zenon DEF TimerFires
  <2>5. ASSUME NEW c \in Callers, DisableReturns(c) \/ \E t \in Tokens : Disable(c, t)
        PROVE  GateStep
    BY <2>5, GateCallDisable, GateUnseen, Zenon DEF DisableReturns
  <2>6. ASSUME NEW e \in expirers, expireTokenEnter(e) \/ expireTokenDecide(e)
        PROVE  GateStep
    BY <2>6, GateExpireDecide, GateUnseen, Zenon DEF expireTokenEnter
  <2>7. GateStep
    BY <1>1, <2>1, <2>2, <2>3, <2>4, <2>5, <2>6, GateBeginStop, GateCompleteStop, GateWorkerStep,
       Zenon DEF Next
  <2>. QED BY <2>7, Zenon DEF GateStep
<1>2. CASE UNCHANGED vars
  BY <1>2, GateUnseen, Zenon DEF vars, GateStep
<1>. QED
  BY <1>1, <1>2, Zenon

LEMMA GateInitial ==
    ASSUME Init
    PROVE  Gate!GateInit
<1>1. gateOf = [s \in Sessions |-> "new"]
  BY Zenon DEF Init, gateOf, GateAt
<1>2. closedOf = [t \in Tokens |-> "no"]
  BY Zenon DEF Init, closedOf, ClosedAt, Stopped
<1>3. \A s \in Sessions : Readers(s) = {}
  BY Zenon DEF Init, Readers, Reading
<1>. QED
  BY <1>1, <1>2, <1>3, Zenon DEF Gate!GateInit, leasesOf

\* The session manager, with its locks, timers and goroutines, implements the
\* gate: sessions are admitted only while their token is open, leased only while
\* they are open themselves, finished only without leases, and a disable or a stop
\* reports completion only when nothing of its tokens is left.
THEOREM GateIsImplemented == Spec => ImplementsGate
<1>1. Init => Gate!GateInit
  BY GateInitial, Zenon
<1>2. TypeOK /\ Inv /\ [Next]_vars => [Gate!GateNext]_(Gate!gateVars)
  BY GateNextStep, Zenon
<1>. QED
  BY <1>1, <1>2, InvCorrect, PTL DEF Spec, ImplementsGate, Gate!GateSpec
=============================================================================
