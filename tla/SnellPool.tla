------------------------------ MODULE SnellPool -----------------------------
(***************************************************************************)
(* The Snell outbound with `reuse`: connect_reuse by concurrent requests   *)
(* and close().  One mutex guards the list of sessions, and whoever holds  *)
(* it keeps it across the dial and the handshake, so one slow server holds *)
(* up every request and close() itself.  What sing_snell does inside a     *)
(* session is a choice of outcomes.                                        *)
(***************************************************************************)
EXTENDS Naturals, Sequences, SeqRetain

CONSTANTS Transports,   \* identities of the sessions a run may dial
          Callers       \* requests

VARIABLES
    mutex,      \* reuse_sessions: who holds its lock, or "none"
    waiters,    \* who waits for it; tokio's mutex is first come, first served
    list,       \* reuse_sessions
    session,    \* per transport: "none" | "idle" | "busy" | "closed"
    step,       \* per caller: "idle" | "lock" | "look" | "reuse" | "dial" | "live" | "over"
    held,       \* per caller: the session it uses
    closing     \* close(): "no" | "lock" | "drain" | "returned"

vars == <<mutex, waiters, list, session, step, held, closing>>

SnellInit ==
    /\ mutex = "none" /\ waiters = << >> /\ list = << >>
    /\ session = [t \in Transports |-> "none"]
    /\ step = [c \in Callers |-> "idle"]
    /\ held = [c \in Callers |-> "none"]
    /\ closing = "no"

(* connect(): reuse_sessions.lock().await *)
Connect(c) ==
    /\ step[c] = "idle"
    /\ step' = [step EXCEPT ![c] = "lock"]
    /\ waiters' = Append(waiters, c)
    /\ UNCHANGED <<mutex, list, session, held, closing>>

Grant(w) ==
    /\ mutex = "none" /\ waiters # << >> /\ Head(waiters) = w
    /\ mutex' = w
    /\ waiters' = Tail(waiters)

Lock(c) ==
    /\ Grant(c)
    /\ step' = [step EXCEPT ![c] = "look"]
    /\ UNCHANGED <<list, session, held, closing>>

OpenTransports == {t \in Transports : session[t] # "closed"}

(* Mutant: a busy session will do. *)
IsFreeAny(t) == TRUE

(* !session.is_busy() *)
IsFree(t) == session[t] # "busy"

(* retain the open sessions; the first one that is not busy, or a new one. *)
Look(c) ==
    /\ step[c] = "look"
    /\ list' = Retain(list, OpenTransports)
    /\ \/ \E i \in 1..Len(list') :
            /\ IsFree(list'[i])
            /\ \A j \in 1..(i - 1) : ~IsFree(list'[j])
            /\ held' = [held EXCEPT ![c] = list'[i]]
            /\ step' = [step EXCEPT ![c] = "reuse"]
       \/ /\ \A i \in 1..Len(list') : ~IsFree(list'[i])
          /\ step' = [step EXCEPT ![c] = "dial"]
          /\ UNCHANGED held
    /\ UNCHANGED <<mutex, waiters, session, closing>>

(* session.connect of a kept session: it may have died meanwhile. *)
Reuse(c) ==
    /\ step[c] = "reuse"
    /\ \/ /\ session[held[c]] # "closed"
          /\ session' = [session EXCEPT ![held[c]] = "busy"]
          /\ step' = [step EXCEPT ![c] = "live"]
          /\ UNCHANGED held
       \/ /\ session' = [session EXCEPT ![held[c]] = "closed"]
          /\ step' = [step EXCEPT ![c] = "over"]
          /\ held' = [held EXCEPT ![c] = "none"]
    /\ mutex' = "none"
    /\ UNCHANGED <<waiters, list, closing>>

(* dialer.connect, reuse_session and connect; then sessions.push. *)
Dial(c, t) ==
    /\ step[c] = "dial" /\ session[t] = "none"
    /\ session' = [session EXCEPT ![t] = "busy"]
    /\ list' = Append(list, t)
    /\ held' = [held EXCEPT ![c] = t]
    /\ step' = [step EXCEPT ![c] = "live"]
    /\ mutex' = "none"
    /\ UNCHANGED <<waiters, closing>>

(* The dial or the handshake fails, or the future is dropped: no session   *)
(* is kept and the guard is released.                                      *)
DialFails(c) ==
    /\ step[c] = "dial"
    /\ step' = [step EXCEPT ![c] = "over"]
    /\ mutex' = "none"
    /\ UNCHANGED <<waiters, list, session, held, closing>>

(* The relay ends: the session is free again, or broken. *)
Finish(c) ==
    /\ step[c] = "live"
    /\ \E to \in {"idle", "closed"} :
         session' = [session EXCEPT ![held[c]] = IF @ = "closed" THEN @ ELSE to]
    /\ step' = [step EXCEPT ![c] = "over"]
    /\ held' = [held EXCEPT ![c] = "none"]
    /\ UNCHANGED <<mutex, waiters, list, closing>>

(* The server closes a kept session. *)
PeerCloses(t) ==
    /\ session[t] = "idle"
    /\ session' = [session EXCEPT ![t] = "closed"]
    /\ UNCHANGED <<mutex, waiters, list, step, held, closing>>

Close ==
    /\ closing = "no"
    /\ closing' = "lock"
    /\ waiters' = Append(waiters, "close")
    /\ UNCHANGED <<mutex, list, session, step, held>>

(* for session in lock().drain(..): the guard lives through the loop. *)
CloseLocks ==
    /\ Grant("close")
    /\ closing' = "drain"
    /\ UNCHANGED <<list, session, step, held>>

(* Mutant: the sessions stay in the list. *)
CloseKeeps ==
    /\ closing = "drain"
    /\ closing' = "returned" /\ mutex' = "none"
    /\ UNCHANGED <<waiters, list, session, step, held>>

CloseDrains ==
    /\ closing = "drain"
    /\ IF list = << >>
       THEN closing' = "returned" /\ mutex' = "none" /\ UNCHANGED <<list, session>>
       ELSE /\ session' = [session EXCEPT ![Head(list)] = "closed"]
            /\ list' = Tail(list)
            /\ UNCHANGED <<closing, mutex>>
    /\ UNCHANGED <<waiters, step, held>>

Served(c) == Look(c) \/ Reuse(c) \/ DialFails(c) \/ \E t \in Transports : Dial(c, t)

AllOver == closing = "returned" /\ (\A c \in Callers : step[c] = "over") /\ UNCHANGED vars

SnellNext ==
    \/ AllOver
    \/ \E c \in Callers : Connect(c) \/ Lock(c) \/ Served(c) \/ Finish(c)
    \/ \E t \in Transports : PeerCloses(t)
    \/ Close \/ CloseLocks \/ CloseDrains

(* A dial ends one way or the other. *)
SnellFairness ==
    /\ \A c \in Callers : WF_vars(Lock(c)) /\ WF_vars(Served(c))
    /\ WF_vars(CloseLocks) /\ WF_vars(CloseDrains)
-----------------------------------------------------------------------------
(* A session carries one stream at a time, although is_busy is read before *)
(* the connect that sets it; a busy session in the list is a live stream   *)
(* of this outbound; and the list never holds a session twice.             *)
ReuseIsExclusive ==
    /\ \A c, d \in Callers : step[c] = "live" /\ step[d] = "live" /\ c # d => held[c] # held[d]
    /\ \A i \in 1..Len(list) :
         /\ session[list[i]] = "busy" => \E c \in Callers : step[c] = "live" /\ held[c] = list[i]
         /\ \A j \in 1..Len(list) : list[i] = list[j] => i = j
    /\ mutex \in Callers => step[mutex] \in {"look", "reuse", "dial"}

(* Somebody waits: a request or close() that has not got its answer.       *)
SnellWaits == waiters # << >> \/ mutex # "none"
=============================================================================
