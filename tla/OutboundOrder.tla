--------------------------- MODULE OutboundOrder ----------------------------
(***************************************************************************)
(* OutboundManager::ordered(): the start order of the outbounds.  The code *)
(* sweeps the insertion order again and again; a sweep takes every         *)
(* remaining outbound whose dependencies are already resolved, the ones    *)
(* resolved earlier in the same sweep included, and a sweep that takes     *)
(* nothing reports a circular dependency.                                  *)
(*                                                                         *)
(* One step per iteration of the for loop.  Insertion order and            *)
(* dependencies are arbitrary: a dependency may be missing from the        *)
(* manager, and an outbound may depend on itself.                          *)
(***************************************************************************)
EXTENDS Naturals, Sequences, FiniteSets

CONSTANT Tags    \* the outbound tags a configuration may use

ASSUME TagsAssumption == IsFiniteSet(Tags)

VARIABLES
    order,        \* insertion_order
    deps,         \* Outbound::dependencies() of every tag
    remaining,
    resolved,
    result,
    pos,          \* index of the for loop in order
    progressed,
    pc            \* "while" | "for" | "ok" | "missing" | "circular"

vars == <<order, deps, remaining, resolved, result, pos, progressed, pc>>

Elems(s) == {s[i] : i \in 1..Len(s)}

(* The keys of entries: add() keeps them equal to the insertion order. *)
Entries == Elems(order)

(* add() refuses a duplicate tag, so an insertion order never repeats one. *)
InsertionOrders ==
    {s \in UNION {[1..n -> Tags] : n \in 0..Cardinality(Tags)} :
        \A i, j \in 1..Len(s) : s[i] = s[j] => i = j}

Init ==
    /\ order \in InsertionOrders
    /\ deps \in [Tags -> SUBSET Tags]
    /\ remaining = Entries
    /\ resolved = {}
    /\ result = << >>
    /\ pos = 1
    /\ progressed = FALSE
    /\ pc = "while"
-----------------------------------------------------------------------------
(* while !remaining.is_empty() *)
WhileEnter ==
    /\ pc = "while"
    /\ remaining # {}
    /\ pc' = "for"
    /\ pos' = 1
    /\ progressed' = FALSE
    /\ UNCHANGED <<order, deps, remaining, resolved, result>>

WhileExit ==
    /\ pc = "while"
    /\ remaining = {}
    /\ pc' = "ok"
    /\ UNCHANGED <<order, deps, remaining, resolved, result, pos, progressed>>

(* The iteration of the for loop at order[pos]. *)
At(t) == pc = "for" /\ pos <= Len(order) /\ t = order[pos]

Skip(t) ==
    /\ At(t)
    /\ t \notin remaining
    /\ pos' = pos + 1
    /\ UNCHANGED <<order, deps, remaining, resolved, result, progressed, pc>>

MissingDependency(t) ==
    /\ At(t)
    /\ t \in remaining
    /\ ~ deps[t] \subseteq Entries
    /\ pc' = "missing"
    /\ UNCHANGED <<order, deps, remaining, resolved, result, pos, progressed>>

(* Mutants: the dependencies are not looked at; the outbound stays in      *)
(* remaining; the sweep starts over after every outbound it takes.         *)
ResolveAlways(t) ==
    /\ At(t)
    /\ t \in remaining
    /\ deps[t] \subseteq Entries
    /\ result' = Append(result, t)
    /\ resolved' = resolved \cup {t}
    /\ remaining' = remaining \ {t}
    /\ progressed' = TRUE
    /\ pos' = pos + 1
    /\ UNCHANGED <<order, deps, pc>>

ResolveKeeps(t) ==
    /\ At(t)
    /\ t \in remaining
    /\ deps[t] \subseteq Entries
    /\ deps[t] \subseteq resolved
    /\ result' = Append(result, t)
    /\ resolved' = resolved \cup {t}
    /\ progressed' = TRUE
    /\ pos' = pos + 1
    /\ UNCHANGED <<order, deps, remaining, pc>>

ResolveAndRestart(t) ==
    /\ At(t)
    /\ t \in remaining
    /\ deps[t] \subseteq Entries
    /\ deps[t] \subseteq resolved
    /\ result' = Append(result, t)
    /\ resolved' = resolved \cup {t}
    /\ remaining' = remaining \ {t}
    /\ progressed' = TRUE
    /\ pos' = 1
    /\ UNCHANGED <<order, deps, pc>>

Resolve(t) ==
    /\ At(t)
    /\ t \in remaining
    /\ deps[t] \subseteq Entries
    /\ deps[t] \subseteq resolved
    /\ result' = Append(result, t)
    /\ resolved' = resolved \cup {t}
    /\ remaining' = remaining \ {t}
    /\ progressed' = TRUE
    /\ pos' = pos + 1
    /\ UNCHANGED <<order, deps, pc>>

Blocked(t) ==
    /\ At(t)
    /\ t \in remaining
    /\ deps[t] \subseteq Entries
    /\ ~ deps[t] \subseteq resolved
    /\ pos' = pos + 1
    /\ UNCHANGED <<order, deps, remaining, resolved, result, progressed, pc>>

(* Mutants: whatever the first sweep leaves is called a cycle; a sweep     *)
(* without progress is not noticed.                                        *)
SweepOnce ==
    /\ pc = "for"
    /\ pos > Len(order)
    /\ pc' = IF remaining = {} THEN "while" ELSE "circular"
    /\ UNCHANGED <<order, deps, remaining, resolved, result, pos, progressed>>

SweepForever ==
    /\ pc = "for"
    /\ pos > Len(order)
    /\ pc' = "while"
    /\ UNCHANGED <<order, deps, remaining, resolved, result, pos, progressed>>

(* ensure!(progressed, "circular outbound dependency ...") *)
SweepEnd ==
    /\ pc = "for"
    /\ pos > Len(order)
    /\ pc' = IF progressed THEN "while" ELSE "circular"
    /\ UNCHANGED <<order, deps, remaining, resolved, result, pos, progressed>>

Returned ==
    /\ pc \in {"ok", "missing", "circular"}
    /\ UNCHANGED vars

Next ==
    \/ WhileEnter \/ WhileExit
    \/ \E t \in Tags : Skip(t) \/ MissingDependency(t) \/ Resolve(t) \/ Blocked(t)
    \/ SweepEnd
    \/ Returned

Spec == Init /\ [][Next]_vars
FairSpec == Spec /\ WF_vars(Next)
-----------------------------------------------------------------------------
(* The variables keep their types.                                         *)
TypeOK ==
    /\ order \in Seq(Tags)
    /\ deps \in [Tags -> SUBSET Tags]
    /\ remaining \subseteq Tags
    /\ resolved \subseteq Tags
    /\ result \in Seq(Tags)
    /\ pos \in Nat \ {0}
    /\ progressed \in BOOLEAN
    /\ pc \in {"while", "for", "ok", "missing", "circular"}

(* At every moment of the sweep, and so in the order start() follows, each *)
(* outbound comes after everything it depends on.                          *)
DepsFirst ==
    \A i \in 1..Len(result) :
        deps[result[i]] \subseteq {result[j] : j \in 1..(i - 1)}

(* No outbound is started twice or dropped: result and remaining split the *)
(* manager's entries.                                                      *)
NothingLost ==
    /\ \A i, j \in 1..Len(result) : result[i] = result[j] => i = j
    /\ Elems(result) = resolved
    /\ resolved \cap remaining = {}
    /\ resolved \cup remaining = Entries

(* Every answer is the right one: "ok" orders all entries; "missing" is    *)
(* reported for an unknown dependency; "circular" leaves a non-empty set   *)
(* of known outbounds each of which waits for another one of the set.      *)
VerdictSound ==
    /\ pc = "ok" => Elems(result) = Entries
    /\ pc = "missing" => \E t \in Entries : ~ deps[t] \subseteq Entries
    /\ pc = "circular" =>
         /\ remaining # {}
         /\ \A t \in remaining : deps[t] \cap remaining # {}

(* ordered() is right: at every moment each outbound comes after what it   *)
(* depends on, none is dropped or doubled, and the verdict is the one the  *)
(* dependencies call for.                                                  *)
OrderIsRight == DepsFirst /\ NothingLost /\ VerdictSound
=============================================================================
