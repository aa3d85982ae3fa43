-------------------------- MODULE EngineComponents --------------------------
(***************************************************************************)
(* The components a configuration builds, and the order the engine takes   *)
(* its outbounds in: OutboundManager::ordered() as a function of the       *)
(* insertion order and the dependencies.  OutboundOrder is the same        *)
(* algorithm step by step; the two agree (SweepAgrees in MCEngine).        *)
(***************************************************************************)
EXTENDS Naturals, Sequences, SeqRetain

CONSTANTS Providers, Outbounds, Inbounds   \* the components' names, in the order they were added

AllComponents == Providers \o Outbounds \o Inbounds

\* No two components have the same name, and none is called like a missing error.
ASSUME ComponentsAssumption ==
    /\ Providers \in Seq(STRING) /\ Outbounds \in Seq(STRING) /\ Inbounds \in Seq(STRING)
    /\ \A i, j \in 1..Len(AllComponents) : AllComponents[i] = AllComponents[j] => i = j
    /\ \A i \in 1..Len(AllComponents) : AllComponents[i] # "none"
-----------------------------------------------------------------------------
(* ordered() is described by where its sweeps stop: after the outbound at  *)
(* position p, the next one resolved is the first ready one met going on   *)
(* from p and starting over at the front.                                  *)

(* Positions the for loop would resolve when done has been resolved. *)
Ready(order, deps, done) ==
    {q \in 1..Len(order) : order[q] \notin done /\ deps[order[q]] \subseteq done}

(* How far the sweep travels from position p to position q, wrapping. *)
Travel(order, p, q) == IF q > p THEN q - p ELSE q + Len(order) - p

(* stops is the sequence of positions at which the sweeps resolve. *)
SweepStops(order, deps, stops) ==
    \A k \in 1..Len(order) :
        LET last == IF k = 1 THEN 0 ELSE stops[k - 1]
            ready == Ready(order, deps, {order[stops[j]] : j \in 1..(k - 1)})
        IN  /\ stops[k] \in ready
            /\ \A q \in ready : Travel(order, last, stops[k]) <= Travel(order, last, q)

AllStops(order) == [1..Len(order) -> 1..Len(order)]

OrderedOk(order, deps) ==
    /\ \A t \in Members(order) : deps[t] \subseteq Members(order)
    /\ \E stops \in AllStops(order) : SweepStops(order, deps, stops)

(* The value of Ok(...); used only where OrderedOk holds. *)
Ordered(order, deps) ==
    LET stops == CHOOSE f \in AllStops(order) : SweepStops(order, deps, f)
    IN  [k \in 1..Len(order) |-> order[stops[k]]]
=============================================================================
