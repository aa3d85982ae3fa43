------------------------------ MODULE MCEngine ------------------------------
(***************************************************************************)
(* The order the outbounds start in (OutboundOrder, over every insertion   *)
(* order and every dependency relation of three tags) and the engine's     *)
(* lifecycle (EngineLifecycle: one certificate provider, three outbounds   *)
(* with every dependency relation between them, two inbounds) in one run.  *)
(* A behaviour plays one part; the other stays as it began.                *)
(***************************************************************************)
EXTENDS OutboundOrder, EngineComponents

VARIABLES part, needs, phase, stage, manager, queue, reached, closes, services,
          failures, errors, startErr, answer

Life == INSTANCE EngineLifecycle WITH deps <- needs

lifeVars == <<needs, phase, stage, manager, queue, reached, closes, services,
              failures, errors, startErr, answer>>

MCProviders == <<"p1">>
MCOutbounds == <<"o1", "o2", "o3">>
MCInbounds == <<"i1", "i2">>

\* The state of a part that is not played: nothing fair is enabled in it.
IdleEngine == Life!Init /\ needs = [o \in Members(Outbounds) |-> {}]
IdleOrder == Init /\ order = << >> /\ deps = [t \in Tags |-> {}]

MCInit ==
    \/ part = "engine" /\ Life!Init /\ IdleOrder
    \/ part = "order" /\ IdleEngine /\ Init

MCNext ==
    \/ part = "engine" /\ Life!Next /\ UNCHANGED <<part, vars>>
    \/ part = "order" /\ Next /\ UNCHANGED <<part, lifeVars>>

MCSpec ==
    /\ MCInit
    /\ [][MCNext]_<<part, vars, lifeVars>>
    /\ Life!Fairness
    /\ WF_vars(part = "order" /\ Next)
-----------------------------------------------------------------------------
(* The step-by-step loop of ordered() and the function the engine's model  *)
(* calls agree on every input, errors included: in particular insertion    *)
(* order decides between outbounds that do not wait for each other.        *)
SweepAgrees ==
    /\ pc = "ok" => OrderedOk(order, deps) /\ result = Ordered(order, deps)
    /\ pc \in {"missing", "circular"} => ~ OrderedOk(order, deps)

(* ordered() has not answered yet. *)
Ordering == pc \in {"while", "for"}

(* Nothing serves or dials through a component that is not up: see         *)
(* EngineLifecycle.                                                        *)
RunsBacked == Life!RunsBacked

(* Shutting down is complete and its verdict right: see EngineLifecycle.   *)
ClosesRight == Life!ClosesRight

Calling == Life!Busy \/ (part = "order" /\ Ordering)

(* start(), shutdown() and ordered() always answer, whichever components   *)
(* fail and whatever the dependencies.                                     *)
CallsAnswer == Calling ~> ~Calling
=============================================================================
