-------------------------- MODULE TokenConnections --------------------------
(***************************************************************************)
(* The session manager of the OpAMP server: internal/opamp/                *)
(* token_connections.go, driven by the callbacks of internal/opamp/        *)
(* server.go that track, lease, close and disconnect sessions.             *)
(*                                                                         *)
(* A session is one authenticated agent connection.  An operation on it    *)
(* (a message, a push) holds a LEASE: a read lock on session.gate.  A      *)
(* session leaves the manager through a REMOVAL, whose goroutine waits for *)
(* the gate (drained), then for the cleanup of whoever removed it, then    *)
(* retires.  Disabling a token (revocation, expiry) and stopping the       *)
(* server remove many sessions at once and wait for them.                  *)
(*                                                                         *)
(* Every critical section of m.mu is one action.  Channel waits are        *)
(* guards.  A WebSocket session may have several messages in flight and    *)
(* may close at any time, as in the server's own tests.  A plain HTTP      *)
(* session is one request: one message, then the close callback.           *)
(***************************************************************************)
EXTENDS Integers

CONSTANTS Sessions,   \* connections accepted by authenticateRequest
          Tokens,     \* managed token ids
          TokenOf,    \* session.principal.ID
          ExpiresAt,  \* session.principal.ExpiresAt, Never when nil
          HTTP,       \* the sessions that are plain HTTP requests
          Never,      \* no expiry; no timer scheduled
          NoSession,  \* the session of an idle goroutine
          Procs,      \* goroutines running messages, pushes, disconnects
          Callers,    \* goroutines calling Disable (revocation requests)
          MaxTime,    \* bound: last tick of the clock
          ClockLag,   \* bound: ticks between reading now() and taking m.mu
          MaxGen      \* bound: timers may fire early below this generation

ASSUME ConstantsAssumption ==
    /\ TokenOf \in [Sessions -> Tokens]
    /\ ExpiresAt \in [Sessions -> Nat \cup {Never}]
    /\ Never \notin Nat
    /\ HTTP \subseteq Sessions
    /\ Procs \cap Sessions = {} /\ NoSession \notin Sessions
    /\ MaxTime \in Nat /\ ClockLag \in Nat /\ MaxGen \in Nat

\* A session is also the name of the goroutine that runs its close callback.
Workers == Procs \cup Sessions
Home(w) == IF w \in Sessions THEN w ELSE NoSession

VARIABLES
    now,           \* m.now()
    phase,         \* per session: accepted -> open (-> served) | rejected -> closed
    sessions,      \* m.sessions; m.sessionsByID is its partition by token
    removals,      \* per session, its tokenRemoveState: none, wait, drained, gone
    cleanupDone,   \* sessions whose removal has cleanupDone closed
    released,      \* sessions whose releaseOnce has run
    disconnected,  \* sessions whose disconnectOnce has run
    pc, on,        \* per worker: where it is, and in which session
    disable,       \* per token, its tokenDisableState: none, drain, clean, await, done
    disSessions,   \* state.sessions (and the sessions of state.removals)
    disOwned,      \* sessions of state.ownedRemovals
    disTodo,       \* the loop variable of waitForTokenSessions, then of onDisabled
    stop,          \* the tokenStopState: no, drain, clean, await, done
    stopSessions,  \* sessions of stopState.removals
    stopOwned,     \* sessions of stopState.ownedRemovals
    stopActive,    \* stopState.active
    stopDisables,  \* tokens of stopState.disableDone
    stopTodo,      \* the loop variable of completeStop
    timerAt,       \* m.expiryTimers[t].expiresAt, Never when absent
    timerGen,      \* m.expiryTimers[t].generation
    armed,         \* tokens whose current timer has neither fired nor been stopped
    nextTimerID,   \* m.nextTimerID
    expirers,      \* running expireToken calls, with the time each fired
    expiryWG,      \* tokens whose completeDisable runs under m.expiryWG
    call, callTok  \* per caller of Disable: idle, disable, stop, returned

sessVars  == <<sessions, removals>>
doneVars  == <<cleanupDone, released, disconnected>>
procVars  == <<pc, on>>
disVars   == <<disable, disSessions, disOwned, disTodo>>
stopVars  == <<stop, stopSessions, stopOwned, stopActive, stopDisables, stopTodo>>
timerVars == <<timerAt, timerGen, armed, nextTimerID>>
callVars  == <<call, callTok>>
vars == <<now, phase, sessVars, doneVars, procVars, disVars, stopVars,
          timerVars, expirers, expiryWG, callVars>>

Pending == {"wait", "drained"}   \* the removal is in m.removals

\* Program counters that hold a lease: session.gate locked for reading and
\* counted by session.leases.
Reading == {"message", "replying", "retained", "push", "sending", "forked"}

Readers(s) == {w \in Workers : on[w] = s /\ pc[w] \in Reading}
SendGateFree(s) ==
    \A w \in Workers : on[w] = s => pc[w] \notin {"replying", "retained", "sending"}
\* OnMessage has not returned yet (the drain of a failed message left out).
InMessage(s) ==
    \E w \in Workers : on[w] = s /\ pc[w] \in {"message", "replying", "disconnect"}

Stopped == stop # "no"
Expired(s, n) == ExpiresAt[s] # Never /\ ExpiresAt[s] <= n
SessionsOf(t) == {s \in Sessions : TokenOf[s] = t}
\* Values now() may have returned to a goroutine that now enters m.mu.
ClockReads == {n \in 0..now : n >= now - ClockLag}
-----------------------------------------------------------------------------
(* The *Locked helpers: each describes part of a step taken under m.mu.     *)

Expiries(t, tracked) ==
    {ExpiresAt[s] : s \in {x \in tracked \cap SessionsOf(t) : ExpiresAt[x] # Never}}

IsEarliest(e, E) == e \in E /\ \A f \in E : e <= f

\* "at" is the expiryTimers map the step has so far.
scheduleExpiryLocked(t, tracked, at) ==
    LET E == Expiries(t, tracked) IN
    \/ /\ E = {}
       /\ timerAt' = [at EXCEPT ![t] = Never]
       /\ armed' = armed \ {t}
       /\ UNCHANGED <<timerGen, nextTimerID>>
    \/ /\ IsEarliest(at[t], E)
       /\ timerAt' = at
       /\ UNCHANGED <<timerGen, armed, nextTimerID>>
    \/ \E earliest \in E :
       /\ IsEarliest(earliest, E) /\ at[t] # earliest
       /\ timerAt' = [at EXCEPT ![t] = earliest]
       /\ nextTimerID' = nextTimerID + 1
       /\ timerGen' = [timerGen EXCEPT ![t] = nextTimerID + 1]
       /\ armed' = armed \cup {t}

registerRemoveLocked(S) ==
    removals' = [s \in Sessions |-> IF s \in S /\ removals[s] \notin Pending
                                    THEN "wait" ELSE removals[s]]

\* The winner's part: the caller has found no tombstone for t.
beginDisableLocked(t) ==
    LET byID     == sessions \cap SessionsOf(t)
        removing == {s \in SessionsOf(t) : removals[s] \in Pending}
        created  == {s \in byID : removals[s] \notin Pending}
    IN /\ disable' = [disable EXCEPT ![t] = "drain"]
       /\ timerAt' = [timerAt EXCEPT ![t] = Never]
       /\ armed' = armed \ {t}
       /\ disSessions' = [disSessions EXCEPT ![t] = byID \cup removing]
       /\ disTodo' = [disTodo EXCEPT ![t] = byID \cup removing]
       /\ disOwned' = [disOwned EXCEPT ![t] = created]
       /\ sessions' = sessions \ byID
       /\ registerRemoveLocked(byID)
       /\ UNCHANGED <<timerGen, nextTimerID>>

\* Variant: the removal is registered but the session stays tracked.
detachSessionLocked_staysTracked(s) == UNCHANGED sessions

detachSessionLocked(s) == sessions' = sessions \ {s}

\* tokens.Remove: a no-op unless the session is tracked by a running manager.
Remove(s) ==
    IF removals[s] \in Pending \/ Stopped \/ s \notin sessions
    THEN UNCHANGED <<sessVars, timerVars>>
    ELSE /\ detachSessionLocked(s)
         /\ registerRemoveLocked({s})
         /\ scheduleExpiryLocked(TokenOf[s], sessions \ {s}, timerAt)

-----------------------------------------------------------------------------
Init ==
    /\ now = 0
    /\ phase = [s \in Sessions |-> "accepted"]
    /\ sessions = {} /\ removals = [s \in Sessions |-> "none"]
    /\ cleanupDone = {} /\ released = {} /\ disconnected = {}
    /\ pc = [w \in Workers |-> "idle"]
    /\ on = [w \in Workers |-> Home(w)]
    /\ disable = [t \in Tokens |-> "none"]
    /\ disSessions = [t \in Tokens |-> {}]
    /\ disOwned = [t \in Tokens |-> {}] /\ disTodo = [t \in Tokens |-> {}]
    /\ stop = "no" /\ stopSessions = {} /\ stopOwned = {}
    /\ stopActive = {} /\ stopDisables = {} /\ stopTodo = {}
    /\ timerAt = [t \in Tokens |-> Never] /\ timerGen = [t \in Tokens |-> 0]
    /\ armed = {} /\ nextTimerID = 0 /\ expirers = {} /\ expiryWG = {}
    /\ call = [c \in Callers |-> "idle"] /\ callTok = [c \in Callers |-> Never]

Tick ==
    /\ now < MaxTime
    /\ now' = now + 1
    /\ UNCHANGED <<phase, sessVars, doneVars, procVars, disVars, stopVars,
                   timerVars, expirers, expiryWG, callVars>>

\* OnConnected: Track, and Disconnect when Track refuses.  An expired session
\* tombstones its token and the callback itself runs completeDisable.
OnConnected(s) ==
    /\ phase[s] = "accepted"
    /\ \/ /\ Stopped \/ disable[TokenOf[s]] # "none"
          /\ phase' = [phase EXCEPT ![s] = "rejected"]
          /\ UNCHANGED <<sessVars, disVars, timerVars>>
       \/ /\ ~Stopped /\ disable[TokenOf[s]] = "none"
          /\ \E n \in ClockReads : Expired(s, n)
          /\ phase' = [phase EXCEPT ![s] = "rejected"]
          /\ beginDisableLocked(TokenOf[s])
       \/ /\ ~Stopped /\ disable[TokenOf[s]] = "none"
          /\ \E n \in ClockReads : ~Expired(s, n)
          /\ s \notin sessions
          /\ phase' = [phase EXCEPT ![s] = "open"]
          /\ sessions' = sessions \cup {s}
          /\ scheduleExpiryLocked(TokenOf[s], sessions \cup {s}, timerAt)
          /\ UNCHANGED <<removals, disVars>>
    /\ UNCHANGED <<now, doneVars, procVars, stopVars, expirers, expiryWG, callVars>>

Admits(s) == ~Stopped /\ disable[TokenOf[s]] = "none" /\ s \in sessions

\* Acquire grants a lease to a message or a push, or tombstones the token of an
\* expired session and leaves completeDisable to a goroutine counted by
\* m.expiryWG.  A refused call changes nothing.
Acquire(p, s, as) ==
    /\ pc[p] = "idle"
    /\ as = "message" => phase[s] = "open"
    /\ Admits(s)
    /\ \/ /\ \E n \in ClockReads : ~Expired(s, n)
          /\ pc' = [pc EXCEPT ![p] = as]
          /\ on' = [on EXCEPT ![p] = s]
          /\ phase' = IF s \in HTTP /\ as = "message"
                      THEN [phase EXCEPT ![s] = "served"] ELSE phase
          /\ UNCHANGED <<sessVars, disVars, timerVars, expiryWG>>
       \/ /\ \E n \in ClockReads : Expired(s, n)
          /\ beginDisableLocked(TokenOf[s])
          /\ expiryWG' = expiryWG \cup {TokenOf[s]}
          /\ UNCHANGED <<procVars, phase>>
    /\ UNCHANGED <<now, doneVars, stopVars, expirers, callVars>>

\* launchAutoPush forks the lease of the message that triggered it and holds it
\* around a push that takes a lease of its own.
Fork(p, q) ==
    /\ pc[p] = "message" /\ pc[q] = "idle"
    /\ Admits(on[p])
    /\ pc' = [pc EXCEPT ![q] = "forked"]
    /\ on' = [on EXCEPT ![q] = on[p]]
    /\ UNCHANGED <<now, phase, sessVars, doneVars, disVars, stopVars, timerVars,
                   expirers, expiryWG, callVars>>

Goto(w, from, to) ==
    /\ pc[w] \in from
    /\ pc' = [pc EXCEPT ![w] = to]
    /\ on' = IF to = "idle" THEN [on EXCEPT ![w] = Home(w)] ELSE on

onlyPc == <<now, phase, sessVars, doneVars, disVars, stopVars, timerVars,
            expirers, expiryWG, callVars>>

\* session.send and sendHTTPResponse lock sendGate, then write.
BeginSend(p) ==
    /\ \/ Goto(p, {"message"}, "replying")
       \/ Goto(p, {"push"}, "sending")
    /\ SendGateFree(on[p])
    /\ UNCHANGED onlyPc

\* Plain HTTP: the reply keeps the lease and sendGate until the close callback.
RetainHTTP(p) ==
    /\ Goto(p, {"replying"}, "retained")
    /\ on[p] \in HTTP
    /\ UNCHANGED onlyPc

\* sendGate.Unlock and lease.Release, after which the goroutine is done, or
\* enters disconnectSession (a failed message), or
\* disconnectSessionAfterSendError (a failed push).  A push to a plain HTTP
\* session always fails; a reply to one is retained or fails.
Release(p) ==
    /\ \/ Goto(p, {"message", "forked"}, "idle")
       \/ Goto(p, {"message", "replying"}, "disconnect")
       \/ Goto(p, {"sending"}, "senderror")
       \/ Goto(p, {"replying", "sending"}, "idle") /\ on[p] \notin HTTP
    /\ UNCHANGED onlyPc

\* disconnectSession and disconnectSessionAfterSendError start with Remove.
RemoveSession(p) ==
    /\ \/ Goto(p, {"disconnect"}, "draining")
       \/ Goto(p, {"senderror"}, "load")
    /\ Remove(on[p])
    /\ UNCHANGED <<now, phase, doneVars, disVars, stopVars, expirers, expiryWG, callVars>>

\* Variant: always finish in the goroutine that failed to send.
LoadLeases_alwaysSync(p) == Goto(p, {"load"}, "syncdrain") /\ UNCHANGED onlyPc

\* leases.Load() == 0 finishes in this goroutine; otherwise in a new one.
\* Release unlocks the gate before it counts down, so the load may still see a
\* lease that no longer holds the gate.
LoadLeases(p) ==
    /\ \/ Readers(on[p]) = {} /\ Goto(p, {"load"}, "syncdrain")
       \/ Goto(p, {"load"}, "draining")
    /\ UNCHANGED onlyPc

\* OnConnectionClose: Remove comes first, then finishHTTPResponse.
OnClose(s) ==
    /\ phase[s] \in {"open", "served", "rejected"}
    /\ s \in HTTP => ~InMessage(s)
    /\ phase' = [phase EXCEPT ![s] = "closed"]
    /\ Goto(s, {"idle"}, "closing")
    /\ Remove(s)
    /\ UNCHANGED <<now, doneVars, disVars, stopVars, expirers, expiryWG, callVars>>

\* Variant: the close callback does not finish a retained response.
finishHTTPResponse_keepsLease(s) == Goto(s, {"closing"}, "closedrain") /\ UNCHANGED onlyPc

finishHTTPResponse(s) ==
    /\ pc[s] = "closing"
    /\ pc' = [w \in Workers |-> IF w = s THEN "closedrain"
                                ELSE IF on[w] = s /\ pc[w] = "retained" THEN "idle"
                                ELSE pc[w]]
    /\ on' = [w \in Workers |-> IF on[w] = s /\ pc[w] = "retained" THEN Home(w) ELSE on[w]]
    /\ UNCHANGED onlyPc

\* Variant: do not wait for the removal's goroutine.
Drained_noWait(s) == TRUE

\* No removal in m.removals, or its drained channel is closed.
Drained(s) == removals[s] # "wait"

\* waitRemoveDrain, then the cleanup: disconnectSessions runs disconnectOnce
\* around releaseSession, the close callback only runs releaseSession.  A drain
\* once seen stays true, so the wait and the cleanup are one step.
waitRemoveDrain(w) ==
    /\ \/ /\ Goto(w, {"draining", "syncdrain"}, "complete")
          /\ disconnected' = disconnected \cup {on[w]}
       \/ /\ Goto(w, {"closedrain"}, "complete")
          /\ UNCHANGED disconnected
    /\ Drained(on[w])
    /\ released' = released \cup {on[w]}
    /\ UNCHANGED <<now, phase, sessVars, cleanupDone, disVars, stopVars,
                   timerVars, expirers, expiryWG, callVars>>

\* Variant: the goroutine forgets its session before it completes the removal.
CompleteRemove_lateRead(w) ==
    /\ Goto(w, {"complete"}, "idle")
    /\ cleanupDone' = cleanupDone \cup {on'[w]}
    /\ UNCHANGED <<now, phase, sessVars, released, disconnected, disVars,
                   stopVars, timerVars, expirers, expiryWG, callVars>>

CompleteRemove(w) ==
    /\ Goto(w, {"complete"}, "idle")
    /\ cleanupDone' = IF removals[on[w]] \in Pending
                      THEN cleanupDone \cup {on[w]} ELSE cleanupDone
    /\ UNCHANGED <<now, phase, sessVars, released, disconnected, disVars,
                   stopVars, timerVars, expirers, expiryWG, callVars>>

\* The goroutine of one removal.
finishRemove(s) ==
    /\ \/ /\ removals[s] = "wait" /\ Readers(s) = {}
          /\ removals' = [removals EXCEPT ![s] = "drained"]
       \/ /\ removals[s] = "drained" /\ s \in cleanupDone
          /\ removals' = [removals EXCEPT ![s] = "gone"]
    /\ UNCHANGED <<now, phase, sessions, doneVars, procVars, disVars, stopVars,
                   timerVars, expirers, expiryWG, callVars>>

\* Disable(t), up to its wait: on a stopped manager for stopState.done,
\* otherwise for the done channel of the token, which it tombstones if new.
Disable(c, t) ==
    /\ call[c] = "idle"
    /\ callTok' = [callTok EXCEPT ![c] = t]
    /\ \/ /\ Stopped
          /\ call' = [call EXCEPT ![c] = "stop"]
          /\ UNCHANGED <<sessVars, disVars, timerVars>>
       \/ /\ ~Stopped
          /\ call' = [call EXCEPT ![c] = "disable"]
          /\ IF disable[t] = "none" THEN beginDisableLocked(t)
             ELSE UNCHANGED <<sessVars, disVars, timerVars>>
    /\ UNCHANGED <<now, phase, doneVars, procVars, stopVars, expirers, expiryWG>>

DisableReturns(c) ==
    /\ \/ call[c] = "disable" /\ disable[callTok[c]] = "done"
       \/ call[c] = "stop" /\ stop = "done"
    /\ call' = [call EXCEPT ![c] = "returned"]
    /\ UNCHANGED <<now, phase, sessVars, doneVars, procVars, disVars, stopVars,
                   timerVars, expirers, expiryWG, callTok>>

\* completeDisable: wait for the gates (waitForTokenSessions), run onDisabled
\* (disconnectSessions), complete the removals it created, wait for all of the
\* removals to retire.
DrainDisabled(t) ==
    /\ disable[t] = "drain"
    /\ \/ /\ \E s \in disTodo[t] : Readers(s) = {} /\ disTodo' = [disTodo EXCEPT ![t] = @ \ {s}]
          /\ UNCHANGED disable
       \/ /\ disTodo[t] = {}
          /\ disable' = [disable EXCEPT ![t] = "clean"]
          /\ disTodo' = [disTodo EXCEPT ![t] = disSessions[t]]
    /\ UNCHANGED <<doneVars, disSessions, disOwned>>

\* Variant: leave the removals it created to somebody else.
CompletedBy_nobody(t) == {}

\* The removals completeDisable completes, and those it waits for.
CompletedBy(t) == disOwned[t]

\* Variant: wait only for the removals it created.
AwaitedBy_owned(t) == disOwned[t]

AwaitedBy(t) == disSessions[t]

CleanDisabled(t) ==
    /\ disable[t] = "clean"
    /\ \/ /\ \E s \in disTodo[t] : /\ released' = released \cup {s}
                                   /\ disconnected' = disconnected \cup {s}
                                   /\ disTodo' = [disTodo EXCEPT ![t] = @ \ {s}]
          /\ UNCHANGED <<cleanupDone, disable>>
       \/ /\ disTodo[t] = {}
          /\ cleanupDone' = cleanupDone \cup CompletedBy(t)
          /\ disable' = [disable EXCEPT ![t] = "await"]
          /\ UNCHANGED <<released, disconnected, disTodo>>
    /\ UNCHANGED <<disSessions, disOwned>>

AwaitRemovals(t) ==
    /\ disable[t] = "await"
    /\ \A s \in AwaitedBy(t) : removals[s] = "gone"
    /\ disable' = [disable EXCEPT ![t] = "done"]
    /\ disSessions' = [disSessions EXCEPT ![t] = {}]
    /\ disOwned' = [disOwned EXCEPT ![t] = {}]
    /\ UNCHANGED <<doneVars, disTodo>>

completeDisable(t) ==
    /\ DrainDisabled(t) \/ CleanDisabled(t) \/ AwaitRemovals(t)
    /\ UNCHANGED <<now, phase, sessVars, procVars, stopVars, timerVars, expirers,
                   expiryWG, callVars>>

beginStop ==
    /\ ~Stopped
    /\ stop' = "drain"
    /\ stopActive' = sessions /\ stopTodo' = sessions
    /\ stopOwned' = {s \in sessions : removals[s] \notin Pending}
    /\ registerRemoveLocked(sessions)
    /\ stopSessions' = sessions \cup {s \in Sessions : removals[s] \in Pending}
    /\ stopDisables' = {t \in Tokens : disable[t] \in {"drain", "clean", "await"}}
    /\ sessions' = {}
    /\ timerAt' = [t \in Tokens |-> Never] /\ armed' = {}
    /\ UNCHANGED <<now, phase, doneVars, procVars, disVars, timerGen, nextTimerID,
                   expirers, expiryWG, callVars>>

\* m.expiryWG: expireToken calls past their first section, and the goroutines
\* that run completeDisable for an expired token.
ExpiryIdle == /\ \A e \in expirers : e.stage # "counted"
              /\ \A t \in expiryWG : disable[t] = "done"

completeStop ==
    /\ \/ /\ stop = "drain"
          /\ \E s \in stopTodo : Readers(s) = {} /\ stopTodo' = stopTodo \ {s}
          /\ UNCHANGED <<doneVars, stop>>
       \/ /\ stop = "drain" /\ stopTodo = {}
          /\ stop' = "clean" /\ stopTodo' = stopActive
          /\ UNCHANGED doneVars
       \/ /\ stop = "clean"
          /\ \E s \in stopTodo : /\ released' = released \cup {s}
                                 /\ disconnected' = disconnected \cup {s}
                                 /\ stopTodo' = stopTodo \ {s}
          /\ UNCHANGED <<cleanupDone, stop>>
       \/ /\ stop = "clean" /\ stopTodo = {}
          /\ cleanupDone' = cleanupDone \cup stopOwned
          /\ stop' = "await"
          /\ UNCHANGED <<released, disconnected, stopTodo>>
       \/ /\ stop = "await"
          /\ \A s \in stopSessions : removals[s] = "gone"
          /\ \A t \in stopDisables : disable[t] = "done"
          /\ ExpiryIdle
          /\ \A s \in Sessions : removals[s] \notin Pending
          /\ stop' = "done"
          /\ UNCHANGED <<doneVars, stopTodo>>
    /\ UNCHANGED <<now, phase, sessVars, procVars, disVars, stopSessions, stopOwned,
                   stopActive, stopDisables, timerVars, expirers, expiryWG, callVars>>

Due(t) == timerAt[t] # Never /\ timerAt[t] <= now

\* The runtime fires the timer of t; early firing (the wall clock stepped
\* back under a monotonic timer) is bounded by MaxGen.
TimerFires(t) ==
    /\ t \in armed
    /\ Due(t) \/ nextTimerID < MaxGen
    /\ armed' = armed \ {t}
    /\ expirers' = expirers \cup 
                     {[tok |-> t, gen |-> timerGen[t], stage |-> "fired", at |-> now]}
    /\ UNCHANGED <<now, phase, sessVars, doneVars, procVars, disVars, stopVars,
                   timerAt, timerGen, nextTimerID, expiryWG, callVars>>

\* expireToken, first section: join m.expiryWG unless stopped.
expireTokenEnter(e) ==
    /\ e.stage = "fired"
    /\ expirers' = IF Stopped THEN expirers \ {e}
                   ELSE (expirers \ {e}) \cup {[e EXCEPT !.stage = "counted"]}
    /\ UNCHANGED <<now, phase, sessVars, doneVars, procVars, disVars, stopVars,
                   timerVars, expiryWG, callVars>>

\* Variant: trust the timer and do not look at the clock.
TooEarly_never(t, n) == FALSE

TooEarly(t, n) == timerAt[t] > n

\* Variant: reschedule an early timer without deleting its entry first.
Rearm_keepsEntry(t) == scheduleExpiryLocked(t, sessions, timerAt)

Rearm(t) == scheduleExpiryLocked(t, sessions, [timerAt EXCEPT ![t] = Never])

\* expireToken, second section, with a clock read after the timer fired:
\* ignore a stale generation, re-arm a timer that fired early, otherwise
\* tombstone the token.
expireTokenDecide(e) ==
    LET t == e.tok
        current == ~Stopped /\ timerAt[t] # Never /\ timerGen[t] = e.gen
    IN /\ e.stage = "counted"
       /\ expirers' = expirers \ {e}
       /\ \/ /\ ~current
             /\ UNCHANGED <<sessVars, disVars, timerVars, expiryWG>>
          \/ /\ current
             /\ \E n \in e.at..now : TooEarly(t, n)
             /\ Rearm(t)
             /\ UNCHANGED <<sessVars, disVars, expiryWG>>
          \/ /\ current
             /\ \E n \in e.at..now : ~TooEarly(t, n)
             /\ beginDisableLocked(t)
             /\ expiryWG' = expiryWG \cup {t}
       /\ UNCHANGED <<now, phase, doneVars, procVars, stopVars, callVars>>
-----------------------------------------------------------------------------
\* What a started goroutine does on its own.
WorkerStep(w) ==
    \/ BeginSend(w) \/ RetainHTTP(w) \/ Release(w) \/ RemoveSession(w)
    \/ LoadLeases(w) \/ waitRemoveDrain(w) \/ CompleteRemove(w)

Next ==
    \/ Tick \/ beginStop \/ completeStop
    \/ \E s \in Sessions : OnConnected(s) \/ OnClose(s) \/ finishHTTPResponse(s) \/ finishRemove(s)
    \/ \E p \in Procs : \/ \E s \in Sessions, as \in {"message", "push"} : Acquire(p, s, as)
                        \/ \E q \in Procs : Fork(p, q)
    \/ \E w \in Workers : WorkerStep(w)
    \/ \E t \in Tokens : completeDisable(t) \/ TimerFires(t)
    \/ \E c \in Callers : DisableReturns(c) \/ \E t \in Tokens : Disable(c, t)
    \/ \E e \in expirers : expireTokenEnter(e) \/ expireTokenDecide(e)

Spec == Init /\ [][Next]_vars

\* Scheduling: started goroutines run, due timers fire, operations under a
\* lease end (writes carry deadlines), and the handler of an HTTP request that
\* was served reaches its close callback.  Nobody has to connect, push, revoke,
\* close a WebSocket or stop the server, and time need not advance.
HTTPHandlerEnds(s) == s \in HTTP /\ phase[s] = "served" /\ OnClose(s)

Fairness ==
    /\ \A w \in Workers : WF_vars(WorkerStep(w))
    /\ \A s \in Sessions : /\ WF_vars(finishHTTPResponse(s)) /\ WF_vars(finishRemove(s))
                           /\ WF_vars(HTTPHandlerEnds(s))
    /\ \A t \in Tokens : /\ WF_vars(completeDisable(t))
                         /\ WF_vars(Due(t) /\ TimerFires(t))
                         /\ WF_vars(\E e \in expirers : e.tok = t /\ (expireTokenEnter(e) \/ expireTokenDecide(e)))
    /\ WF_vars(completeStop)
    /\ \A c \in Callers : WF_vars(DisableReturns(c))

FairSpec == Spec /\ Fairness
-----------------------------------------------------------------------------
Stages == {"none", "drain", "clean", "await", "done"}

\* The variables keep the shapes of the Go structures they stand for.
TypeOK ==
    /\ now \in Nat
    /\ phase \in [Sessions -> {"accepted", "open", "served", "rejected", "closed"}]
    /\ sessions \subseteq Sessions
    /\ removals \in [Sessions -> {"none", "wait", "drained", "gone"}]
    /\ cleanupDone \subseteq Sessions /\ released \subseteq Sessions
    /\ disconnected \subseteq Sessions
    /\ pc \in [Workers -> Reading \cup {"idle", "disconnect", "senderror", "load",
                  "draining", "syncdrain", "closing", "closedrain", "complete"}]
    /\ on \in [Workers -> Sessions \cup {NoSession}]
    /\ \A w \in Workers : pc[w] # "idle" => on[w] \in Sessions
    /\ \A s \in Sessions : on[s] = s
    /\ disable \in [Tokens -> Stages]
    /\ disSessions \in [Tokens -> SUBSET Sessions]
    /\ disOwned \in [Tokens -> SUBSET Sessions] /\ disTodo \in [Tokens -> SUBSET Sessions]
    /\ stop \in {"no", "drain", "clean", "await", "done"}
    /\ stopSessions \subseteq Sessions /\ stopOwned \subseteq Sessions
    /\ stopActive \subseteq Sessions /\ stopTodo \subseteq Sessions
    /\ stopDisables \subseteq Tokens
    /\ timerAt \in [Tokens -> Nat \cup {Never}] /\ timerGen \in [Tokens -> Nat]
    /\ armed \subseteq Tokens /\ nextTimerID \in Nat
    /\ expirers \subseteq [tok : Tokens, gen : Nat, stage : {"fired", "counted"}, at : Nat]
    /\ expiryWG \subseteq Tokens
    /\ call \in [Callers -> {"idle", "disable", "stop", "returned"}]
    /\ callTok \in [Callers -> Tokens \cup {Never}]

\* Nothing of token t is left: no session tracked, no operation holding a
\* lease, no removal unfinished, and every connection the manager once tracked
\* released and torn down (or closed by its peer).
Quiet(t) ==
    \A s \in SessionsOf(t) :
        /\ s \notin sessions
        /\ Readers(s) = {}
        /\ removals[s] \notin Pending
        /\ phase[s] \in {"open", "served"} => s \in released /\ s \in disconnected

\* DisconnectTokenConnections returns only once the token is quiet, whichever of
\* revocation, expiry and shutdown did the work, and it stays quiet afterwards
\* (Disable, completeDisable, completeStop).
DisableFence ==
    /\ \A c \in Callers : call[c] = "returned" => Quiet(callTok[c])
    /\ \A t \in Tokens : disable[t] = "done" \/ stop = "done" => Quiet(t)

\* A session with a writer queued on its gate is no longer tracked.  Acquire and
\* Fork call gate.RLock while holding m.mu; behind a queued writer they would
\* block every other user of the manager.
AcquireNeverBlocks ==
    \A s \in Sessions :
        \/ removals[s] = "wait"
        \/ \E t \in Tokens : disable[t] = "drain" /\ s \in disTodo[t]
        \/ stop = "drain" /\ s \in stopTodo
        => s \notin sessions

\* releaseSession gives up the UID and unbinds the instance of a session only
\* when no operation holds a lease on it, and none gets one later.
ReleaseAfterLeases == \A s \in released : Readers(s) = {}

\* disconnectSessionAfterSendError waits for the drain in its own goroutine only
\* if nobody, its own callers included, still holds a lease on the session.
SyncFinishNeverWaits == \A p \in Procs : pc[p] = "syncdrain" => Readers(on[p]) = {}

Finishing == {"closing", "load", "draining", "syncdrain", "closedrain", "complete"}

\* Every removal that waits for its cleanup has somebody left to complete it: the
\* goroutine that called Remove, or the disable or stop that created it.
RemovalHasOwner ==
    \A s \in Sessions : removals[s] \in Pending /\ s \notin cleanupDone =>
        \/ \E w \in Workers : on[w] = s /\ pc[w] \in Finishing
        \/ disable[TokenOf[s]] \in {"drain", "clean"} /\ s \in disOwned[TokenOf[s]]
        \/ stop \in {"drain", "clean"} /\ s \in stopOwned

\* A token is tombstoned only because somebody called Disable or because it has
\* expired: stale and early timer callbacks never disable a valid token.
NoSpuriousDisable ==
    \A t \in Tokens : disable[t] # "none" =>
        \/ \E c \in Callers : call[c] \in {"disable", "returned"} /\ callTok[c] = t
        \/ \E s \in SessionsOf(t) : Expired(s, now)

\* While a session that can expire is tracked, its token has a timer for the
\* earliest expiry, and that timer is armed or its callback is under way with
\* the current generation.
ExpiryIsWatched ==
    \A t \in Tokens : Expiries(t, sessions) # {} =>
        /\ IsEarliest(timerAt[t], Expiries(t, sessions))
        /\ t \in armed \/ \E e \in expirers : e.tok = t /\ e.gen = timerGen[t]

\* Disabling a token always ends: nobody waits on somebody who waits on them.
DisableTerminates == \A t \in Tokens : disable[t] # "none" ~> disable[t] = "done"

\* Stopping the manager always ends.
StopTerminates == Stopped ~> stop = "done"

\* A session whose token has expired does not stay tracked, whether or not it
\* ever sends another message.
ExpiredSessionsLeave == \A s \in Sessions : s \in sessions /\ Expired(s, now) ~> s \notin sessions
=============================================================================
