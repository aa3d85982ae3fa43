-------------------------- MODULE EngineLifecycle ---------------------------
(***************************************************************************)
(* Engine::new, start and shutdown over the three managers and the         *)
(* router's rule-set services.  start() walks the four stages; in each it  *)
(* visits certificate providers, outbounds in dependency order, inbounds.  *)
(* The first component that fails makes start() run shutdown() and return  *)
(* the error.  shutdown() visits inbounds, router, outbounds and providers *)
(* in reverse, goes on past a component that fails to close, and reports.  *)
(*                                                                         *)
(* A component's own start and close are opaque: they succeed or fail.     *)
(***************************************************************************)
EXTENDS EngineComponents, FiniteSets, SequencesExt

Components == Members(AllComponents)
Router == "router"

Stages == 1..4         \* Initialize, Start, PostStart, Started
StartStage == 2        \* where every component of the repository does its work

VARIABLES
    deps,       \* Outbound::dependencies(), fixed by the configuration
    phase,      \* "new" | "built" | "rejected" | "starting" | "started" | "closing" | "stopped"
    stage,      \* the stage start() is in
    manager,    \* the manager being walked
    queue,      \* the components its loop has still to visit
    reached,    \* per component: the last stage whose start() succeeded
    closes,     \* per component: calls of close()
    services,   \* rule-set services of the router: "idle" | "running" | "closed"
    failures,   \* components whose close() failed, in the order it happened
    errors,     \* per manager: first_error of its close()
    startErr,   \* start() met an error
    answer      \* what the last call returned: "none", "ok", "start error" or a failed component

vars == <<deps, phase, stage, manager, queue, reached, closes, services,
          failures, errors, startErr, answer>>

Managers == {"providers", "outbounds", "inbounds", Router}

Init ==
    /\ deps \in [Members(Outbounds) -> SUBSET Members(Outbounds)]
    /\ phase = "new"
    /\ stage = 1
    /\ manager = "providers"
    /\ queue = << >>
    /\ reached = [c \in Components |-> 0]
    /\ closes = [c \in Components |-> 0]
    /\ services = "idle"
    /\ failures = << >>
    /\ errors = [m \in Managers |-> "none"]
    /\ startErr = FALSE
    /\ answer = "none"
-----------------------------------------------------------------------------
(* Engine::new_with_services: building a component may fail, and           *)
(* outbounds.ordered() refuses missing and circular dependencies before    *)
(* anything runs.                                                          *)
NewOk ==
    /\ phase = "new"
    /\ OrderedOk(Outbounds, deps)
    /\ phase' = "built"
    /\ UNCHANGED <<deps, stage, manager, queue, reached, closes, services,
                   failures, errors, startErr, answer>>

NewErr ==
    /\ phase = "new"
    /\ phase' = "rejected"
    /\ UNCHANGED <<deps, stage, manager, queue, reached, closes, services,
                   failures, errors, startErr, answer>>

(* Engine::start: the router's services first, then the stages.            *)
StartBegin ==
    /\ phase = "built"
    /\ phase' = "starting"
    /\ services' = "running"
    /\ stage' = 1
    /\ manager' = "providers"
    /\ queue' = Providers
    /\ UNCHANGED <<deps, reached, closes, failures, errors, startErr, answer>>

StartComponent ==
    /\ phase = "starting"
    /\ queue # << >>
    /\ reached' = [reached EXCEPT ![Head(queue)] = stage]
    /\ queue' = Tail(queue)
    /\ UNCHANGED <<deps, phase, stage, manager, closes, services, failures,
                   errors, startErr, answer>>

(* Manager::start returned Err: shutdown(), whose result is dropped.       *)
StartFails ==
    /\ phase = "starting"
    /\ queue # << >>
    /\ startErr' = TRUE
    /\ phase' = "closing"
    /\ manager' = "inbounds"
    /\ queue' = Reverse(Inbounds)
    /\ UNCHANGED <<deps, stage, reached, closes, services, failures, errors, answer>>

(* Mutant: outbounds are started in insertion order. *)
StartInsertionOrder ==
    /\ phase = "starting"
    /\ queue = << >>
    /\ manager # "inbounds"
    /\ \/ /\ manager = "providers"
          /\ manager' = "outbounds"
          /\ queue' = Outbounds
       \/ /\ manager = "outbounds"
          /\ manager' = "inbounds"
          /\ queue' = Inbounds
    /\ UNCHANGED <<deps, phase, stage, reached, closes, services, failures,
                   errors, startErr, answer>>

StartNextManager ==
    /\ phase = "starting"
    /\ queue = << >>
    /\ manager # "inbounds"
    /\ \/ /\ manager = "providers"
          /\ manager' = "outbounds"
          /\ queue' = Ordered(Outbounds, deps)
       \/ /\ manager = "outbounds"
          /\ manager' = "inbounds"
          /\ queue' = Inbounds
    /\ UNCHANGED <<deps, phase, stage, reached, closes, services, failures,
                   errors, startErr, answer>>

StartNextStage ==
    /\ phase = "starting"
    /\ queue = << >>
    /\ manager = "inbounds"
    /\ stage < 4
    /\ stage' = stage + 1
    /\ manager' = "providers"
    /\ queue' = Providers
    /\ UNCHANGED <<deps, phase, reached, closes, services, failures, errors,
                   startErr, answer>>

StartReturns ==
    /\ phase = "starting"
    /\ queue = << >>
    /\ manager = "inbounds"
    /\ stage = 4
    /\ phase' = "started"
    /\ answer' = "ok"
    /\ UNCHANGED <<deps, stage, manager, queue, reached, closes, services,
                   failures, errors, startErr>>
-----------------------------------------------------------------------------
(* Engine::shutdown, called after the interrupt or by a failed start(). *)
ShutdownBegin ==
    /\ phase = "started"
    /\ phase' = "closing"
    /\ manager' = "inbounds"
    /\ queue' = Reverse(Inbounds)
    /\ UNCHANGED <<deps, stage, reached, closes, services, failures, errors,
                   startErr, answer>>

(* Mutant: the last error of a manager wins. *)
LastError(m, c) == c

(* first_error.get_or_insert(error) *)
FirstError(m, c) == IF errors[m] = "none" THEN c ELSE errors[m]

(* Mutants: a failing close() ends the manager's loop; the loop does not   *)
(* move on.                                                                *)
CloseComponentStops ==
    /\ phase = "closing"
    /\ queue # << >>
    /\ closes' = [closes EXCEPT ![Head(queue)] = @ + 1]
    /\ \/ queue' = Tail(queue) /\ UNCHANGED <<failures, errors>>
       \/ /\ failures' = Append(failures, Head(queue))
          /\ errors' = [errors EXCEPT ![manager] = FirstError(manager, Head(queue))]
          /\ queue' = << >>
    /\ UNCHANGED <<deps, phase, stage, manager, reached, services, startErr, answer>>

CloseComponentForever ==
    /\ phase = "closing"
    /\ queue # << >>
    /\ closes' = [closes EXCEPT ![Head(queue)] = 1]
    /\ UNCHANGED <<deps, phase, stage, manager, queue, reached, services, failures,
                   errors, startErr, answer>>

CloseComponent ==
    /\ phase = "closing"
    /\ queue # << >>
    /\ closes' = [closes EXCEPT ![Head(queue)] = @ + 1]
    /\ queue' = Tail(queue)
    /\ \/ UNCHANGED <<failures, errors>>
       \/ /\ failures' = Append(failures, Head(queue))
          /\ errors' = [errors EXCEPT ![manager] = FirstError(manager, Head(queue))]
    /\ UNCHANGED <<deps, phase, stage, manager, reached, services, startErr, answer>>

(* Mutant: inbounds are closed after the router. *)
CloseRouterFirst ==
    /\ phase = "closing"
    /\ manager = "inbounds"
    /\ services # "closed"
    /\ services' = "closed"
    /\ UNCHANGED <<deps, phase, stage, manager, queue, reached, closes, failures,
                   errors, startErr, answer>>

(* Router::close: cancel and join the rule-set tasks. *)
CloseRouter ==
    /\ phase = "closing"
    /\ manager = "inbounds"
    /\ queue = << >>
    /\ services' = "closed"
    /\ \/ UNCHANGED <<failures, errors>>
       \/ /\ failures' = Append(failures, Router)
          /\ errors' = [errors EXCEPT ![Router] = Router]
    /\ manager' = "outbounds"
    /\ queue' = Reverse(Ordered(Outbounds, deps))
    /\ UNCHANGED <<deps, phase, stage, reached, closes, startErr, answer>>

CloseProviders ==
    /\ phase = "closing"
    /\ manager = "outbounds"
    /\ queue = << >>
    /\ manager' = "providers"
    /\ queue' = Reverse(Providers)
    /\ UNCHANGED <<deps, phase, stage, reached, closes, services, failures,
                   errors, startErr, answer>>

(* inbound_result?; router_result?; outbound_result?; providers' result *)
ShutdownResult ==
    LET inOrder == <<"inbounds", Router, "outbounds", "providers">>
        failed == {i \in 1..4 : errors[inOrder[i]] # "none"}
    IN  IF failed = {} THEN "ok" ELSE errors[inOrder[Min(failed)]]

ShutdownReturns ==
    /\ phase = "closing"
    /\ manager = "providers"
    /\ queue = << >>
    /\ phase' = "stopped"
    /\ answer' = IF startErr THEN "start error" ELSE ShutdownResult
    /\ UNCHANGED <<deps, stage, manager, queue, reached, closes, services,
                   failures, errors, startErr>>

Over ==
    /\ phase \in {"rejected", "stopped"}
    /\ UNCHANGED vars

EngineStep ==
    \/ StartBegin \/ StartComponent \/ StartFails
    \/ StartNextManager \/ StartNextStage \/ StartReturns
    \/ CloseComponent \/ CloseRouter \/ CloseProviders \/ ShutdownReturns

Next == NewOk \/ NewErr \/ EngineStep \/ ShutdownBegin \/ Over

Spec == Init /\ [][Next]_vars

(* Each await of a component's start or close returns (for the inbounds    *)
(* see InboundService); the operator need never interrupt the program.     *)
Fairness == WF_vars(EngineStep)

FairSpec == Spec /\ Fairness
-----------------------------------------------------------------------------
(* The variables of the engine's lifecycle keep their types.               *)
TypeOK ==
    /\ deps \in [Members(Outbounds) -> SUBSET Members(Outbounds)]
    /\ phase \in {"new", "built", "rejected", "starting", "started", "closing", "stopped"}
    /\ stage \in Stages
    /\ manager \in {"providers", "outbounds", "inbounds"}
    /\ queue \in Seq(Components)
    /\ reached \in [Components -> 0..4]
    /\ closes \in [Components -> Nat]
    /\ services \in {"idle", "running", "closed"}
    /\ failures \in Seq(Components \cup {Router})
    /\ errors \in [Managers -> Components \cup {Router, "none"}]
    /\ startErr \in BOOLEAN
    /\ answer \in Components \cup {Router, "none", "ok", "start error"}

Running(c) == reached[c] >= StartStage /\ closes[c] = 0

(* An inbound accepts connections only while everything those connections  *)
(* use is up: the rule-set services, every outbound and every certificate  *)
(* provider, during start, a failing start and shutdown alike.             *)
ServingIsBacked ==
    (\E i \in Members(Inbounds) : Running(i)) =>
        /\ services = "running"
        /\ \A c \in Members(Outbounds) \cup Members(Providers) : Running(c)

(* An outbound runs only while every outbound it dials through runs.       *)
DetourIsBacked ==
    \A o \in Members(Outbounds) : Running(o) => \A d \in deps[o] : Running(d)

(* However start() or shutdown() went, and whichever components failed to  *)
(* close, in the end each one was closed, and just once.                   *)
ClosedOnce ==
    /\ \A c \in Components : closes[c] <= 1
    /\ phase = "stopped" => services = "closed" /\ \A c \in Components : closes[c] = 1

(* The error shutdown() reports is the one that happened first, although   *)
(* it is picked from four results after the fact.                          *)
FirstFailureReported ==
    phase = "stopped" /\ ~startErr =>
        answer = IF failures = << >> THEN "ok" ELSE Head(failures)

(* Nothing serves or dials through a component that is not up: see         *)
(* ServingIsBacked and DetourIsBacked.                                     *)
RunsBacked == ServingIsBacked /\ DetourIsBacked

(* Shutting down is complete and its verdict right: see ClosedOnce and     *)
(* FirstFailureReported.                                                   *)
ClosesRight == ClosedOnce /\ FirstFailureReported

(* A call of start() or shutdown() is under way. *)
Busy == phase \in {"starting", "closing"}
=============================================================================
