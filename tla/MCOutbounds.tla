----------------------------- MODULE MCOutbounds ----------------------------
(***************************************************************************)
(* The outbounds that keep sessions or shake hands, in three parts that    *)
(* share one run: the AnyTLS pool (AnyTlsPool), Snell's reused sessions    *)
(* (SnellPool), and a VLESS dial against a VLESS inbound (VlessDial).  A   *)
(* behaviour plays one part; the others stay as they began.                *)
(***************************************************************************)
EXTENDS AnyTlsPool

CONSTANTS Transports, Callers, RequestSize, MaxEarlyData

\* A holder of Snell's lock is a request, close() or nobody.
ASSUME CallersAssumption == "none" \notin Callers /\ "close" \notin Callers

VARIABLES part,
    mutex, waiters, list, session, step, held, closing,
    maxEarly, name, serverName, client, acceptor, header, toServer, toOutbound, routed

Snell == INSTANCE SnellPool
Vless == INSTANCE VlessDial

snellVars == <<mutex, waiters, list, session, step, held, closing>>
dialVars == <<maxEarly, name, serverName, client, acceptor, header, toServer, toOutbound, routed>>

\* The state of a part that is not played: nothing fair is enabled in it.
IdlePool ==
    /\ pool = << >>
    /\ reader = [s \in Sessions |-> "none"] /\ closed = [s \in Sessions |-> FALSE]
    /\ active = [s \in Sessions |-> 0] /\ streams = [s \in Sessions |-> {}]
    /\ stuck = [s \in Sessions |-> "none"] /\ permit = [s \in Sessions |-> FALSE]
    /\ pc = [r \in Requests |-> "acquire"] /\ at = [r \in Requests |-> NoSession]
    /\ reaper = "idle" /\ retired = << >> /\ closer = "idle" /\ drained = << >>

IdleSnell ==
    /\ mutex = "none" /\ waiters = << >> /\ list = << >> /\ session = [t \in Transports |-> "none"]
    /\ step = [c \in Callers |-> "over"] /\ held = [c \in Callers |-> "none"]
    /\ closing = "no"

IdleDial == Vless!DialInit /\ maxEarly = 0 /\ name = FALSE /\ serverName = FALSE

MCInit ==
    \/ part = "pool" /\ Init /\ IdleSnell /\ IdleDial
    \/ part = "snell" /\ IdlePool /\ Snell!SnellInit /\ IdleDial
    \/ part = "dial" /\ IdlePool /\ IdleSnell /\ Vless!DialInit

MCNext ==
    \/ part = "pool" /\ Next /\ UNCHANGED <<part, snellVars, dialVars>>
    \/ part = "snell" /\ Snell!SnellNext /\ UNCHANGED <<part, vars, dialVars>>
    \/ part = "dial" /\ Vless!DialNext /\ UNCHANGED <<part, vars, snellVars>>

MCSpec ==
    /\ MCInit
    /\ [][MCNext]_<<part, vars, snellVars, dialVars>>
    /\ Fairness
    /\ Snell!SnellFairness
    /\ Vless!DialFairness
-----------------------------------------------------------------------------
(* Nobody shares a session: at most one owner per open session, and what   *)
(* the reaper has taken out nobody owns or can own.                        *)
SessionsAreOwned == ExclusiveSession /\ ReaperSparesBusy

(* The books are right: `active` counts the owners of an open session, and *)
(* every session has one keeper, so none is closed or awaited twice.       *)
BooksAreRight == ActiveExact /\ OneKeeper

(* Snell and VLESS: a reused session carries one stream at a time (see     *)
(* SnellPool), and a VLESS request crosses exactly once (see VlessDial).   *)
DialsAreClean == Snell!ReuseIsExclusive /\ Vless!RequestOnce

Waiting == CloseWaits \/ Snell!SnellWaits \/ Vless!DialWaits

(* Whoever waits gets an answer.  AnyTLS close() returns although readers  *)
(* may be blocked on streams nobody reads and requests go on, unless the   *)
(* session it awaits has a server that has stopped reading; Snell          *)
(* requests and close() get their turn at the lock that is held across     *)
(* dials; a VLESS outbound and an inbound that agree on the early data     *)
(* header do not wait for each other for ever.                             *)
WaitsEnd == Waiting ~> ~Waiting
=============================================================================
