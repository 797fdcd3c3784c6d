------------------------ MODULE TokenConnectionsInv ------------------------
(***************************************************************************)
(* The inductive invariant of TokenConnections: Inv and TypeOK are         *)
(* preserved by every step, and imply DisableFence, AcquireNeverBlocks,    *)
(* ReleaseAfterLeases and SyncFinishNeverWaits.  TimerInv does the same    *)
(* for NoSpuriousDisable and ExpiryIsWatched.                              *)
(***************************************************************************)
EXTENDS TokenConnections

\* A tracked session is live: not being removed, its token valid, never released.
TrackedInv ==
    \A s \in sessions :
        /\ removals[s] = "none" /\ phase[s] \in {"open", "served"}
        /\ disable[TokenOf[s]] = "none" /\ ~Stopped
        /\ s \notin released

\* Leases exist only on tracked sessions and on removals that still wait for them.
LeaseInv ==
    \A s \in Sessions : Readers(s) # {} => s \in sessions \/ removals[s] = "wait"

\* A session that was never tracked has no removal; one that was and no longer
\* is tracked has one; a removal is completed after the release of its session.
LifeInv ==
    \A s \in Sessions :
        /\ phase[s] = "accepted" =>
              removals[s] = "none" /\ s \notin sessions /\ s \notin released
        /\ phase[s] \in {"open", "served"} /\ s \notin sessions => removals[s] # "none"
        /\ removals[s] = "gone" => s \in cleanupDone
        /\ s \in cleanupDone =>
              /\ s \in released /\ removals[s] # "none"
              /\ phase[s] = "closed" \/ s \in disconnected

\* A released session has no lease and is not tracked again.
ReleasedInv ==
    \A s \in released : Readers(s) = {} /\ s \notin sessions /\ phase[s] # "accepted"

\* Where the goroutines are: a goroutine that finishes a session has detached it.
WorkerInv ==
    \A w \in Workers :
        /\ w \in Sessions => pc[w] \in {"idle", "closing", "closedrain", "complete"}
        /\ w \in Procs => pc[w] \notin {"closing", "closedrain"}
        /\ pc[w] # "idle" => phase[on[w]] # "accepted"
        /\ pc[w] \in {"closing", "closedrain"} => phase[on[w]] = "closed"
        /\ pc[w] \in Finishing => on[w] \notin sessions
        /\ pc[w] = "syncdrain" => Readers(on[w]) = {}
        /\ pc[w] = "complete" =>
              /\ on[w] \in released
              /\ phase[on[w]] = "closed" \/ on[w] \in disconnected

\* How far completeDisable has come.
DisableInv ==
    \A t \in Tokens :
        /\ disOwned[t] \subseteq disSessions[t] /\ disTodo[t] \subseteq disSessions[t]
        /\ disable[t] \in {"await", "done"} => disTodo[t] = {}
        /\ \A s \in disSessions[t] :
              /\ TokenOf[s] = t /\ s \notin sessions /\ removals[s] # "none"
              /\ disable[t] # "none" /\ phase[s] # "accepted"
              /\ disable[t] = "drain" => s \in disTodo[t] \/ Readers(s) = {}
              /\ disable[t] \in {"clean", "await"} => Readers(s) = {}
              /\ \/ disable[t] = "clean" /\ s \notin disTodo[t]
                 \/ disable[t] = "await"
                 => s \in released /\ s \in disconnected
        /\ disable[t] # "none" =>
              \A s \in SessionsOf(t) : removals[s] \in Pending =>
                  disable[t] # "done" /\ s \in disSessions[t]

\* How far completeStop has come.
StopInv ==
    /\ stopOwned \subseteq stopActive /\ stopTodo \subseteq stopActive
    /\ \A s \in stopActive :
          /\ s \notin sessions /\ removals[s] # "none" /\ Stopped /\ phase[s] # "accepted"
          /\ stop = "drain" => s \in stopTodo \/ Readers(s) = {}
          /\ stop \in {"clean", "await"} => Readers(s) = {}
          /\ \/ stop = "clean" /\ s \notin stopTodo
             \/ stop \in {"await", "done"}
             => s \in released /\ s \in disconnected
    /\ stop = "done" => \A s \in Sessions : removals[s] \notin Pending

\* A caller of Disable returns after the disable, or the stop, it waited for.
CallInv ==
    \A c \in Callers :
        /\ call[c] = "idle" \/ callTok[c] \in Tokens
        /\ call[c] = "returned" => disable[callTok[c]] = "done" \/ stop = "done"

\* A timer is scheduled only for a token that is not tombstoned, so the callback
\* of a current timer is always the one that tombstones it.
ScheduledInv ==
    \A t \in Tokens : timerAt[t] # Never => disable[t] = "none" /\ ~Stopped

Inv == /\ TrackedInv /\ LeaseInv /\ LifeInv /\ ReleasedInv /\ WorkerInv
       /\ DisableInv /\ StopInv /\ CallInv /\ ScheduledInv

\* A timer is recorded exactly for the earliest expiry among tracked sessions,
\* and somebody will look at it: it is armed or its callback is running.
TimerInv ==
    \A t \in Tokens :
        /\ timerAt[t] = Never => Expiries(t, sessions) = {}
        /\ timerAt[t] # Never =>
              /\ IsEarliest(timerAt[t], Expiries(t, sessions))
              /\ t \in armed \/ \E e \in expirers : e.tok = t /\ e.gen = timerGen[t]
=============================================================================
