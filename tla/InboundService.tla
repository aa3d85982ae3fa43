--------------------------- MODULE InboundService ---------------------------
(***************************************************************************)
(* The running half of an inbound: its listener tasks, the connection      *)
(* tasks they spawn through ConnectionTasks, the cancellation token they   *)
(* share, and close(), which cancels, awaits every listener and then       *)
(* joins the connection tasks.  SOCKS, AnyTLS, VLESS, Snell, Hysteria2,    *)
(* ShadowQUIC and SunnyQUIC all use this shape; SOCKS is the one mapped.   *)
(*                                                                         *)
(* The atomic steps are the ones other threads can observe: the counter    *)
(* update and the notification of a finished task are two steps, and so    *)
(* are the creation of the Notified future, the load of the counter and    *)
(* the await in join().                                                    *)
(***************************************************************************)
EXTENDS Naturals, FiniteSets

CONSTANTS Listeners,   \* the listener sockets bind_tcp_listeners returned
          Conns        \* identities of the connections a run may accept

ASSUME ListenersAssumption == IsFiniteSet(Listeners)
ASSUME ConnsAssumption == IsFiniteSet(Conns)

VARIABLES
    running,    \* the Option<Running>: "none" before start, "some", "taken" by close
    listener,   \* per listener task: "idle" | "accepting" | "done"
    conn,       \* per connection: "none" | "spawned" | "live" | "uncounted" | "done"
    active,     \* TaskState.active
    cancelled,  \* the CancellationToken of this Running
    closer,     \* the caller of close(): "idle" | "await" | "arm" | "load" | "wait" | "returned"
    woken       \* the Notified future of the current join iteration has fired

vars == <<running, listener, conn, active, cancelled, closer, woken>>

\* Connections that fetch_add has counted and the guard has not yet uncounted.
Counted == {c \in Conns : conn[c] \in {"spawned", "live"}}

(* The variables keep their types; the counter stays a natural number.     *)
TypeOK ==
    /\ running \in {"none", "some", "taken"}
    /\ listener \in [Listeners -> {"idle", "accepting", "done"}]
    /\ conn \in [Conns -> {"none", "spawned", "live", "uncounted", "done"}]
    /\ active \in Nat
    /\ cancelled \in BOOLEAN
    /\ closer \in {"idle", "await", "arm", "load", "wait", "returned"}
    /\ woken \in BOOLEAN

Init ==
    /\ running = "none"
    /\ listener = [l \in Listeners |-> "idle"]
    /\ conn = [c \in Conns |-> "none"]
    /\ active = 0
    /\ cancelled = FALSE
    /\ closer = "idle"
    /\ woken = FALSE
-----------------------------------------------------------------------------
(* start(StartStage::Start): every listener task is spawned before running *)
(* is stored, so a connection may be accepted before start() returns.      *)
StartListener(l) ==
    /\ running = "none" /\ closer = "idle"
    /\ listener[l] = "idle"
    /\ listener' = [listener EXCEPT ![l] = "accepting"]
    /\ UNCHANGED <<running, conn, active, cancelled, closer, woken>>

StoreRunning ==
    /\ running = "none" /\ closer = "idle"
    /\ \A l \in Listeners : listener[l] # "idle"
    /\ running' = "some"
    /\ UNCHANGED <<listener, conn, active, cancelled, closer, woken>>

(* Mutant: the task is spawned without being counted. *)
AcceptUncounted(l, c) ==
    /\ listener[l] = "accepting"
    /\ conn[c] = "none"
    /\ conn' = [conn EXCEPT ![c] = "spawned"]
    /\ UNCHANGED <<running, listener, active, cancelled, closer, woken>>

(* The accept arm of the listener's select!.  select! polls its ready arms *)
(* in random order, so an accept may still win after the token is          *)
(* cancelled.  ConnectionTasks::spawn counts the task before it exists.    *)
Accept(l, c) ==
    /\ listener[l] = "accepting"
    /\ conn[c] = "none"
    /\ conn' = [conn EXCEPT ![c] = "spawned"]
    /\ active' = active + 1
    /\ UNCHANGED <<running, listener, cancelled, closer, woken>>

(* Mutant: a listener loop without the cancelled arm. *)
ListenerBreakOnError(l) ==
    /\ ~cancelled
    /\ listener[l] = "accepting"
    /\ listener' = [listener EXCEPT ![l] = "done"]
    /\ UNCHANGED <<running, conn, active, cancelled, closer, woken>>

(* The other ways out of the loop: the cancelled arm, and an accept error. *)
ListenerBreak(l) ==
    /\ listener[l] = "accepting"
    /\ listener' = [listener EXCEPT ![l] = "done"]
    /\ UNCHANGED <<running, conn, active, cancelled, closer, woken>>

(* First poll of the spawned task: the guard now exists. *)
ConnRun(c) ==
    /\ conn[c] = "spawned"
    /\ conn' = [conn EXCEPT ![c] = "live"]
    /\ UNCHANGED <<running, listener, active, cancelled, closer, woken>>

(* The connection future ends (served, failed, panicked or cancelled) and  *)
(* TaskGuard::drop decrements the counter ...                              *)
GuardDecrement(c) ==
    /\ conn[c] = "live"
    /\ conn' = [conn EXCEPT ![c] = "uncounted"]
    /\ active' = active - 1
    /\ UNCHANGED <<running, listener, cancelled, closer, woken>>

(* Mutant: the guard forgets to notify. *)
GuardSilent(c) ==
    /\ conn[c] = "uncounted"
    /\ conn' = [conn EXCEPT ![c] = "done"]
    /\ UNCHANGED <<running, listener, active, cancelled, closer, woken>>

(* ... and then wakes every Notified future that exists at that moment.    *)
GuardNotify(c) ==
    /\ conn[c] = "uncounted"
    /\ conn' = [conn EXCEPT ![c] = "done"]
    /\ woken' = (woken \/ closer \in {"load", "wait"})
    /\ UNCHANGED <<running, listener, active, cancelled, closer>>
-----------------------------------------------------------------------------
(* close(): take running and cancel; without a Running it returns at once. *)
CloseBegin ==
    /\ closer = "idle"
    /\ running = "some"
    /\ running' = "taken"
    /\ cancelled' = TRUE
    /\ closer' = "await"
    /\ UNCHANGED <<listener, conn, active, woken>>

CloseNotRunning ==
    /\ closer = "idle"
    /\ running = "none"
    /\ \A l \in Listeners : listener[l] = "idle"
    /\ closer' = "returned"
    /\ UNCHANGED <<running, listener, conn, active, cancelled, woken>>

(* Mutant: the connections are joined while listeners may still accept. *)
AwaitNobody ==
    /\ closer = "await"
    /\ closer' = "arm"
    /\ UNCHANGED <<running, listener, conn, active, cancelled, woken>>

(* for task in running.tasks { task.await? } *)
AwaitListeners ==
    /\ closer = "await"
    /\ \A l \in Listeners : listener[l] = "done"
    /\ closer' = "arm"
    /\ UNCHANGED <<running, listener, conn, active, cancelled, woken>>

(* join(): create the Notified future, load the counter, await. *)
JoinArm ==
    /\ closer = "arm"
    /\ closer' = "load"
    /\ woken' = FALSE
    /\ UNCHANGED <<running, listener, conn, active, cancelled>>

JoinLoad ==
    /\ closer = "load"
    /\ closer' = IF active = 0 THEN "returned" ELSE "wait"
    /\ UNCHANGED <<running, listener, conn, active, cancelled, woken>>

JoinWake ==
    /\ closer = "wait"
    /\ woken
    /\ closer' = "arm"
    /\ UNCHANGED <<running, listener, conn, active, cancelled, woken>>

(* Nothing is left to do once close() has returned. *)
Quiesced ==
    /\ closer = "returned"
    /\ UNCHANGED vars

Next ==
    \/ \E l \in Listeners : StartListener(l) \/ ListenerBreak(l)
    \/ \E l \in Listeners, c \in Conns : Accept(l, c)
    \/ \E c \in Conns : ConnRun(c) \/ GuardDecrement(c) \/ GuardNotify(c)
    \/ StoreRunning
    \/ CloseBegin \/ CloseNotRunning \/ AwaitListeners
    \/ JoinArm \/ JoinLoad \/ JoinWake
    \/ Quiesced

Spec == Init /\ [][Next]_vars

(* Tokio runs every ready task, a cancelled token makes the cancelled arm  *)
(* of every select! ready for good, and the guard runs to its end once the *)
(* future is dropped.  Nothing forces a connection to end by itself, a     *)
(* peer to connect, or the operator to call close().                       *)
CancelledBreak(l) == cancelled /\ ListenerBreak(l)
CancelledDecrement(c) == cancelled /\ GuardDecrement(c)

Fairness ==
    /\ \A l \in Listeners : WF_vars(CancelledBreak(l))
    /\ \A c \in Conns :
         /\ WF_vars(ConnRun(c))
         /\ WF_vars(CancelledDecrement(c))
         /\ WF_vars(GuardNotify(c))
    /\ WF_vars(AwaitListeners)
    /\ WF_vars(JoinArm)
    /\ WF_vars(JoinLoad)
    /\ WF_vars(JoinWake)

FairSpec == Spec /\ Fairness
-----------------------------------------------------------------------------
(* Once close() has returned, no listener accepts and no connection task   *)
(* still runs its future: the engine may go on to close the router and the *)
(* outbounds the connections were using.                                   *)
CloseQuiescent ==
    closer = "returned" =>
        /\ \A l \in Listeners : listener[l] # "accepting"
        /\ Counted = {}

(* TaskState.active counts exactly the tasks whose guard is outstanding.   *)
CounterExact == active = Cardinality(Counted)

(* join() sleeps only while a wake-up is still owed to it: some task is    *)
(* counted, or has left the count and not yet called notify_waiters.       *)
NoLostWakeup ==
    closer = "wait" /\ ~woken =>
        \E c \in Conns : conn[c] \in {"spawned", "live", "uncounted"}

(* What close() and join() rest on, together. *)
ServiceSafe == CloseQuiescent /\ CounterExact /\ NoLostWakeup

(* close() always returns, whatever the connections were doing.            *)
CloseReturns == (closer = "await") ~> (closer = "returned")
=============================================================================
