---------------------------- MODULE EngineProofs ----------------------------
(***************************************************************************)
(* The engine for any number of components, any insertion order and any    *)
(* dependency relation.  ordered() puts dependencies first, loses and      *)
(* repeats nothing, reports only errors that are there, and is the         *)
(* function the engine's model calls.  Nothing serves or dials through a   *)
(* component that is not up, and shutting down closes everything once and  *)
(* blames what failed first.                                               *)
(***************************************************************************)
EXTENDS MCEngine, SeqFacts

(* What the current sweep has learnt: as long as it has resolved nothing,  *)
(* every remaining outbound it has passed is blocked by a remaining one.   *)
SweepBlocked ==
    pc = "for" /\ ~progressed =>
        /\ remaining # {}
        /\ \A i \in 1..Len(order) :
             i < pos /\ order[i] \in remaining => deps[order[i]] \cap remaining # {}

(* The inductive invariant.                                                *)
IInv == TypeOK /\ NothingLost /\ DepsFirst /\ SweepBlocked /\ VerdictSound

(* Elems of an appended sequence, and where its members are.               *)
LEMMA AppendElems ==
  ASSUME NEW S, NEW s \in Seq(S), NEW e \in S
  PROVE  /\ Append(s, e) \in Seq(S)
         /\ Len(Append(s, e)) = Len(s) + 1
         /\ Len(s) \in Nat
         /\ \A i \in 1..Len(s) : Append(s, e)[i] = s[i]
         /\ Append(s, e)[Len(s) + 1] = e
         /\ Elems(Append(s, e)) = Elems(s) \cup {e}
<1>1. /\ Append(s, e) \in Seq(S)
      /\ Len(Append(s, e)) = Len(s) + 1
      /\ Len(s) \in Nat
      /\ \A i \in 1..Len(s) : Append(s, e)[i] = s[i]
      /\ Append(s, e)[Len(s) + 1] = e
  OBVIOUS
<1>2. 1..(Len(s) + 1) = (1..Len(s)) \cup {Len(s) + 1}
  BY <1>1
<1>3. Elems(Append(s, e)) = Elems(s) \cup {e}
  BY <1>1, <1>2 DEF Elems
<1> QED  BY <1>1, <1>3

(* The sort starts in its invariant.                                       *)
LEMMA InitIInv == Init => IInv
<1> SUFFICES ASSUME Init PROVE IInv  OBVIOUS
<1>1. order \in Seq(Tags)
  BY DEF Init, InsertionOrders
<1>2. Entries \subseteq Tags
  BY <1>1 DEF Entries, Elems
<1>3. Len(result) = 0 /\ Elems(result) = {}
  BY DEF Init, Elems
<1>4. TypeOK
  <2>1. result \in Seq(Tags)  BY DEF Init
  <2>2. pos \in Nat \ {0}  BY DEF Init
  <2>3. progressed \in BOOLEAN  BY DEF Init
  <2> QED  BY <1>1, <1>2, <2>1, <2>2, <2>3 DEF Init, TypeOK
<1>5. NothingLost  BY <1>3 DEF Init, NothingLost
<1>6. DepsFirst  BY <1>3 DEF DepsFirst
<1>7. SweepBlocked /\ VerdictSound  BY DEF Init, SweepBlocked, VerdictSound
<1> QED  BY <1>4, <1>5, <1>6, <1>7 DEF IInv

(* Every step of the sort keeps it.                                        *)
LEMMA NextIInv == IInv /\ [Next]_vars => IInv'
<1> SUFFICES ASSUME IInv, [Next]_vars PROVE IInv'  OBVIOUS
<1> USE DEF IInv, TypeOK
<1>1. CASE WhileEnter
  <2>1. Len(order) \in Nat  OBVIOUS
  <2>2. SweepBlocked'  BY <1>1, <2>1 DEF WhileEnter, SweepBlocked
  <2>3. NothingLost' /\ DepsFirst' /\ VerdictSound'
    BY <1>1 DEF WhileEnter, NothingLost, DepsFirst, VerdictSound, Entries
  <2>4. pos' \in Nat \ {0}  BY <1>1 DEF WhileEnter
  <2>5. progressed' \in BOOLEAN  BY <1>1 DEF WhileEnter
  <2> QED  BY <1>1, <2>2, <2>3, <2>4, <2>5 DEF WhileEnter
<1>2. CASE WhileExit
  BY <1>2 DEF WhileExit, NothingLost, DepsFirst, SweepBlocked, VerdictSound, Entries
<1>3. ASSUME NEW t \in Tags, Skip(t) PROVE IInv'
  BY <1>3 DEF Skip, At, NothingLost, DepsFirst, SweepBlocked, VerdictSound, Entries
<1>4. ASSUME NEW t \in Tags, MissingDependency(t) PROVE IInv'
  <2>1. t \in Entries  BY <1>4 DEF MissingDependency, At, NothingLost
  <2> QED
    BY <1>4, <2>1
    DEF MissingDependency, At, NothingLost, DepsFirst, SweepBlocked, VerdictSound, Entries
<1>5. ASSUME NEW t \in Tags, Resolve(t) PROVE IInv'
  <2>1. /\ result' = Append(result, t) /\ resolved' = resolved \cup {t}
        /\ remaining' = remaining \ {t} /\ progressed' = TRUE /\ pc' = "for"
        /\ order' = order /\ deps' = deps /\ pos' = pos + 1
        /\ t \in remaining /\ deps[t] \subseteq resolved
    BY <1>5 DEF Resolve, At
  <2>2. Entries' = Entries  BY <2>1 DEF Entries
  <2>3. TypeOK'  BY <2>1, AppendElems
  <2>4. NothingLost'
    <3>1. t \notin Elems(result)  BY <2>1 DEF NothingLost
    <3>2. \A i \in 1..Len(result) : result[i] # t  BY <3>1 DEF Elems
    <3>3. Elems(result') = resolved'  BY <2>1, AppendElems DEF NothingLost
    <3>4. \A i, j \in 1..Len(result') : result'[i] = result'[j] => i = j
      BY <2>1, <3>2, AppendElems DEF NothingLost
    <3> QED  BY <2>1, <2>2, <3>3, <3>4 DEF NothingLost
  <2>5. DepsFirst'
    <3> SUFFICES ASSUME NEW i \in 1..Len(result')
                 PROVE  deps'[result'[i]] \subseteq {result'[j] : j \in 1..(i - 1)}
      BY DEF DepsFirst
    <3>1. CASE i \in 1..Len(result)
      <4>1. deps[result[i]] \subseteq {result[j] : j \in 1..(i - 1)}
        BY <3>1 DEF DepsFirst
      <4>2. \A j \in 1..(i - 1) : result'[j] = result[j]
        BY <2>1, <3>1, AppendElems
      <4>3. result'[i] = result[i]  BY <2>1, <3>1, AppendElems
      <4> QED  BY <2>1, <4>1, <4>2, <4>3
    <3>2. CASE i = Len(result) + 1
      <4>1. deps[t] \subseteq Elems(result)  BY <2>1 DEF NothingLost
      <4>2. i - 1 = Len(result) /\ result'[i] = t  BY <2>1, <3>2, AppendElems
      <4>3. \A j \in 1..Len(result) : result'[j] = result[j]
        BY <2>1, AppendElems
      <4> QED  BY <2>1, <4>1, <4>2, <4>3 DEF Elems
    <3> QED  BY <2>1, <3>1, <3>2, AppendElems
  <2>6. SweepBlocked' /\ VerdictSound'
    BY <2>1 DEF SweepBlocked, VerdictSound
  <2> QED  BY <2>3, <2>4, <2>5, <2>6
<1>6. ASSUME NEW t \in Tags, Blocked(t) PROVE IInv'
  <2>1. deps[t] \cap remaining # {}
    BY <1>6 DEF Blocked, NothingLost
  <2>2. SweepBlocked'
    BY <1>6, <2>1 DEF Blocked, At, SweepBlocked
  <2> QED
    BY <1>6, <2>2 DEF Blocked, At, NothingLost, DepsFirst, VerdictSound, Entries
<1>7. CASE SweepEnd
  <2>1. pc' = "circular" =>
          remaining # {} /\ \A t \in remaining : deps[t] \cap remaining # {}
    <3> SUFFICES ASSUME pc' = "circular"
                 PROVE  remaining # {} /\ \A t \in remaining : deps[t] \cap remaining # {}
      OBVIOUS
    <3>1. pc = "for" /\ ~progressed /\ pos > Len(order)  BY <1>7 DEF SweepEnd
    <3>2. \A t \in remaining : \E i \in 1..Len(order) : order[i] = t
      BY DEF NothingLost, Entries, Elems
    <3>3. \A i \in 1..Len(order) : i < pos  BY <3>1
    <3> QED  BY <3>1, <3>2, <3>3 DEF SweepBlocked
  <2>2. pc' # "ok" /\ pc' # "missing" /\ pc' # "for"  BY <1>7 DEF SweepEnd
  <2>3. pc' \in {"while", "circular"}  BY <1>7 DEF SweepEnd
  <2> QED
    BY <1>7, <2>1, <2>2, <2>3
    DEF SweepEnd, NothingLost, DepsFirst, SweepBlocked, VerdictSound, Entries
<1>8. CASE UNCHANGED vars
  BY <1>8 DEF vars, NothingLost, DepsFirst, SweepBlocked, VerdictSound, Entries
<1>9. CASE Returned
  BY <1>9, <1>8 DEF Returned
<1> QED
  BY <1>1, <1>2, <1>3, <1>4, <1>5, <1>6, <1>7, <1>8, <1>9 DEF Next
-----------------------------------------------------------------------------
(* The inductive invariant holds of every run of ordered().                *)
LEMMA IInvHolds == Spec => []IInv
  BY InitIInv, NextIInv, PTL DEF Spec

(* start() meets every outbound after the outbounds it depends on, and     *)
(* close(), which walks the same order backwards, before them.             *)
THEOREM DependenciesFirst == Spec => []DepsFirst
<1>1. IInv => DepsFirst  BY DEF IInv
<1> QED  BY IInvHolds, <1>1, PTL

(* ordered() neither drops nor repeats an outbound of the manager.         *)
THEOREM NothingIsLost == Spec => []NothingLost
<1>1. IInv => NothingLost  BY DEF IInv
<1> QED  BY IInvHolds, <1>1, PTL

(* "ok", "dependency not found" and "circular outbound dependency" are     *)
(* only answered when they are true.                                       *)
THEOREM VerdictIsSound == Spec => []VerdictSound
<1>1. IInv => VerdictSound  BY DEF IInv
<1> QED  BY IInvHolds, <1>1, PTL

(* The three together: ordered() is a topological sort or a true error.    *)
THEOREM OrderIsAlwaysRight == Spec => []OrderIsRight
<1>1. IInv => OrderIsRight  BY DEF IInv, OrderIsRight
<1> QED  BY IInvHolds, <1>1, PTL
-----------------------------------------------------------------------------
(* How far the sweeps have come, for SweepAgrees.                          *)

(* Where in the insertion order the k-th outbound of the result is, and    *)
(* where the sweeps were before they came there.                           *)
Stop(k) == CHOOSE q \in 1..Len(order) : order[q] = result[k]
Before(k) == IF k = 1 THEN 0 ELSE Stop(k - 1)

Soonest(p, q, ready) ==
    q \in ready /\ \A r \in ready : Travel(order, p, q) <= Travel(order, p, r)

(* Each outbound was the first ready one the sweeps met. *)
Greedy ==
    \A k \in 1..Len(result) :
        Soonest(Before(k), Stop(k), Ready(order, deps, {result[j] : j \in 1..(k - 1)}))

(* No other choice of stops is the first one met each time. *)
NoChoice ==
    \A f \in AllStops(order) : SweepStops(order, deps, f) =>
        \A k \in 1..Len(result) : f[k] = Stop(k)

Last == Before(Len(result) + 1)

(* Nothing ready was passed since: a sweep that has progressed has come    *)
(* from Last, one that has not has started over.                           *)
Passed ==
    \A q \in Ready(order, deps, resolved) :
        /\ pc = "for" /\ progressed => Last < pos /\ ~ (Last < q /\ q < pos)
        /\ pc = "for" /\ ~progressed => pos <= q
        /\ pc = "while" \/ (pc = "for" /\ ~progressed) => Last = 0 \/ q <= Last
        /\ pc # "circular"

SweepInv == Distinct(order) /\ Greedy /\ NoChoice /\ Passed

(* Travelling from p, no two positions are equally far.                    *)
LEMMA TravelFacts ==
  ASSUME NEW S, NEW s \in Seq(S), NEW p \in 0..Len(s)
  PROVE  \A q, r \in 1..Len(s) :
           /\ Travel(s, p, q) \in Nat
           /\ Travel(s, p, q) = Travel(s, p, r) => q = r
<1>1. Len(s) \in Nat  OBVIOUS
<1> QED  BY <1>1 DEF Travel

(* The outbounds of the result are in the insertion order.                 *)
LEMMA StopFacts ==
  ASSUME IInv
  PROVE  /\ \A k \in 1..Len(result) :
              /\ Stop(k) \in 1..Len(order) /\ order[Stop(k)] = result[k]
              /\ Before(k) \in 0..Len(order)
         /\ Last \in 0..Len(order)
         /\ Len(result) \in Nat /\ Len(order) \in Nat
<1> USE DEF IInv, TypeOK
<1>1. Len(result) \in Nat /\ Len(order) \in Nat  OBVIOUS
<1>2. ASSUME NEW k \in 1..Len(result)
      PROVE  Stop(k) \in 1..Len(order) /\ order[Stop(k)] = result[k]
  <2>1. result[k] \in Entries  BY DEF NothingLost, Elems
  <2>2. \E q \in 1..Len(order) : order[q] = result[k]  BY <2>1 DEF Entries, Elems
  <2> QED  BY <2>2 DEF Stop
<1>3. \A k \in 1..(Len(result) + 1) : Before(k) \in 0..Len(order)
  <2> TAKE k \in 1..(Len(result) + 1)
  <2>1. k # 1 => k - 1 \in 1..Len(result)  BY <1>1
  <2> QED  BY <1>1, <1>2, <2>1 DEF Before
<1> QED  BY <1>1, <1>2, <1>3 DEF Last

(* Before the first sweep.                                                 *)
LEMMA InitSweepInv == Init => SweepInv
<1> SUFFICES ASSUME Init PROVE SweepInv  OBVIOUS
<1>1. Len(result) = 0  BY DEF Init
<1>2. Distinct(order)  BY DEF Init, InsertionOrders, Distinct
<1>3. Greedy /\ NoChoice  BY <1>1 DEF Greedy, NoChoice
<1>4. Last = 0  BY <1>1 DEF Last, Before
<1>5. Passed  BY <1>4 DEF Passed, Init
<1> QED  BY <1>2, <1>3, <1>5 DEF SweepInv

(* Steps that take no outbound leave what was learnt about the result.     *)
LEMMA SameResult ==
  ASSUME SweepInv, UNCHANGED <<order, deps, result>>
  PROVE  Distinct(order)' /\ Greedy' /\ NoChoice' /\ Last' = Last
<1>1. \A k \in 1..Len(result) : Stop(k)' = Stop(k) /\ Before(k)' = Before(k)
  BY DEF Stop, Before
<1>2. Last' = Last  BY DEF Last, Before, Stop
<1>3. Greedy'
  <2> SUFFICES ASSUME NEW k \in 1..Len(result)
               PROVE  Soonest(Before(k), Stop(k),
                              Ready(order, deps, {result[j] : j \in 1..(k - 1)}))'
    BY DEF Greedy
  <2>1. {result'[j] : j \in 1..(k - 1)} = {result[j] : j \in 1..(k - 1)}  OBVIOUS
  <2>2. Soonest(Before(k), Stop(k), Ready(order, deps, {result[j] : j \in 1..(k - 1)}))
    BY DEF SweepInv, Greedy
  <2> QED  BY <1>1, <2>1, <2>2 DEF Soonest
<1>4. NoChoice'  BY DEF SweepInv, NoChoice, Stop
<1> QED  BY <1>2, <1>3, <1>4 DEF SweepInv

(* The outbound the sweep takes is the first ready one from the last one.  *)
LEMMA TakesSoonest ==
  ASSUME IInv, SweepInv, NEW t \in Tags, Resolve(t)
  PROVE  Soonest(Last, pos, Ready(order, deps, resolved))
<1> USE DEF IInv, TypeOK
<1>1. /\ pc = "for" /\ pos <= Len(order) /\ t = order[pos]
      /\ t \in remaining /\ deps[t] \subseteq resolved
  BY DEF Resolve, At
<1>2. pos \in 1..Len(order)  BY <1>1
<1>3. pos \in Ready(order, deps, resolved)
  BY <1>1, <1>2 DEF Ready, NothingLost
<1>4. Last \in 0..Len(order) /\ Len(order) \in Nat  BY StopFacts
<1> SUFFICES ASSUME NEW r \in Ready(order, deps, resolved)
             PROVE  Travel(order, Last, pos) <= Travel(order, Last, r)
  BY <1>3 DEF Soonest
<1>5. r \in 1..Len(order)  BY DEF Ready
<1>6. CASE progressed
  <2>1. Last < pos /\ ~ (Last < r /\ r < pos)  BY <1>1, <1>3, <1>6 DEF SweepInv, Passed
  <2> QED  BY <1>2, <1>4, <1>5, <2>1 DEF Travel
<1>7. CASE ~progressed
  <2>1. pos <= r /\ (Last = 0 \/ r <= Last) /\ (Last = 0 \/ pos <= Last)
    BY <1>1, <1>3, <1>7 DEF SweepInv, Passed
  <2> QED  BY <1>2, <1>4, <1>5, <2>1 DEF Travel
<1> QED  BY <1>6, <1>7

(* An outbound is resolved.                                                *)
LEMMA ResolveSweepInv ==
  ASSUME IInv, SweepInv, NEW t \in Tags, Resolve(t)
  PROVE  SweepInv'
<1> USE DEF IInv, TypeOK
<1>0. PICK n \in Nat : n = Len(result)  OBVIOUS
<1>1. /\ result' = Append(result, t) /\ resolved' = resolved \cup {t}
      /\ progressed' = TRUE /\ pc' = "for"
      /\ order' = order /\ deps' = deps /\ pos' = pos + 1
      /\ t \in remaining /\ t = order[pos] /\ pos <= Len(order)
  BY DEF Resolve, At
<1>2. n \in Nat /\ Len(result') = n + 1 /\ result'[n + 1] = t
      /\ \A i \in 1..n : result'[i] = result[i]
  BY <1>0, <1>1, AppendElems
<1>3. pos \in 1..Len(order)  BY <1>1
<1>4. \A k \in 1..n : Stop(k)' = Stop(k)  BY <1>1, <1>2 DEF Stop
<1>5. Stop(n + 1)' = pos
  <2>1. \A q \in 1..Len(order) : order[q] = t => q = pos
    BY <1>1, <1>3 DEF SweepInv, Distinct
  <2>2. Stop(n + 1)' = CHOOSE q \in 1..Len(order) : order[q] = t  BY <1>1, <1>2 DEF Stop
  <2> QED  BY <1>1, <1>3, <2>1, <2>2
<1>6. \A k \in 1..(n + 1) : Before(k)' = Before(k)
  <2> TAKE k \in 1..(n + 1)
  <2>1. k # 1 => k - 1 \in 1..n  BY <1>2
  <2> QED  BY <1>4, <2>1 DEF Before
<1>7. Last' = pos
  <2>1. (n + 1) + 1 # 1 /\ ((n + 1) + 1) - 1 = n + 1  BY <1>2
  <2> QED  BY <1>2, <1>5, <2>1 DEF Last, Before
<1>8. Distinct(order)'  BY <1>1 DEF SweepInv, Distinct
<1>9. \A k \in 1..(n + 1) : {result'[j] : j \in 1..(k - 1)} = {result[j] : j \in 1..(k - 1)}
  <2> TAKE k \in 1..(n + 1)
  <2>1. \A j \in 1..(k - 1) : j \in 1..n  BY <1>2
  <2> QED  BY <1>2, <2>1
<1>10. {result[j] : j \in 1..((n + 1) - 1)} = resolved
  <2>1. (n + 1) - 1 = n  BY <1>2
  <2> QED  BY <1>0, <2>1 DEF NothingLost, Elems
<1>11. Soonest(Last, pos, Ready(order, deps, resolved))  BY TakesSoonest
<1>12. Greedy'
  <2> SUFFICES ASSUME NEW k \in 1..(n + 1)
               PROVE  Soonest(Before(k), Stop(k)',
                              Ready(order, deps, {result[j] : j \in 1..(k - 1)}))
    BY <1>1, <1>2, <1>6, <1>9 DEF Greedy, Soonest
  <2>1. CASE k \in 1..n  BY <1>0, <1>4, <2>1 DEF SweepInv, Greedy
  <2>2. CASE k = n + 1  BY <1>0, <1>5, <1>10, <1>11, <2>2 DEF Last
  <2> QED  BY <1>2, <2>1, <2>2
<1>13. NoChoice'
  <2> SUFFICES ASSUME NEW f \in AllStops(order), SweepStops(order, deps, f),
                      NEW k \in 1..(n + 1)
               PROVE  f[k] = Stop(k)'
    BY <1>1, <1>2 DEF NoChoice
  <2>1. \A j \in 1..n : f[j] = Stop(j)  BY <1>0 DEF SweepInv, NoChoice
  <2>2. CASE k \in 1..n  BY <1>4, <2>1, <2>2
  <2>3. CASE k = n + 1
    <3>1. k \in 1..Len(order)
      <4>1. Elems(result) \subseteq Elems(order) /\ Elems(result) # Elems(order)
        BY <1>1 DEF NothingLost, Entries
      <4>2. Members(result) \subseteq Members(order) /\ Members(result) # Members(order)
        BY <4>1 DEF Elems, Members
      <4>3. Distinct(result) /\ Distinct(order)  BY DEF SweepInv, NothingLost, Distinct
      <4>4. n <= Len(order) /\ n # Len(order)  BY <1>0, <4>2, <4>3, MembersBoundLen
      <4> QED  BY <1>2, <2>3, <4>4
    <3>2. (IF k = 1 THEN 0 ELSE f[k - 1]) = Last
      <4>1. k # 1 => k - 1 \in 1..n  BY <1>2, <2>3
      <4> QED  BY <1>0, <2>1, <2>3, <4>1 DEF Last, Before
    <3>3. {order[f[j]] : j \in 1..(k - 1)} = resolved
      <4>1. \A j \in 1..n : order[f[j]] = result[j]  BY <1>0, <2>1, StopFacts
      <4>2. k - 1 = n /\ (n + 1) - 1 = n  BY <1>2, <2>3
      <4> QED  BY <1>10, <4>1, <4>2
    <3>4. Soonest(Last, f[k], Ready(order, deps, resolved))
      BY <3>1, <3>2, <3>3 DEF SweepStops, Soonest
    <3>5. Last \in 0..Len(order)  BY StopFacts
    <3>6. f[k] \in 1..Len(order)  BY <3>1 DEF AllStops
    <3>7. Travel(order, Last, f[k]) = Travel(order, Last, pos)
      <4>1. /\ Travel(order, Last, f[k]) <= Travel(order, Last, pos)
            /\ Travel(order, Last, pos) <= Travel(order, Last, f[k])
        BY <1>11, <3>4 DEF Soonest
      <4>2. Travel(order, Last, f[k]) \in Nat /\ Travel(order, Last, pos) \in Nat
        BY <1>3, <3>5, <3>6, TravelFacts
      <4> QED  BY <4>1, <4>2
    <3>8. f[k] = pos  BY <1>3, <3>5, <3>6, <3>7, TravelFacts
    <3> QED  BY <1>5, <2>3, <3>8
  <2> QED  BY <1>2, <2>2, <2>3
<1>14. Passed'
  <2>1. \A q \in Nat : pos < pos + 1 /\ ~ (pos < q /\ q < pos + 1)  BY <1>3
  <2>2. Ready(order, deps, resolved')  \subseteq Nat  BY DEF Ready
  <2> QED  BY <1>1, <1>7, <2>1, <2>2 DEF Passed
<1> QED  BY <1>8, <1>12, <1>13, <1>14 DEF SweepInv

(* Every step of the sort follows the sweeps.                              *)
LEMMA NextSweepInv == IInv /\ SweepInv /\ [Next]_vars => SweepInv'
<1> SUFFICES ASSUME IInv, SweepInv, [Next]_vars PROVE SweepInv'  OBVIOUS
<1> USE DEF IInv, TypeOK
<1>0. /\ Last \in 0..Len(order) /\ Len(order) \in Nat
      /\ \A q \in Ready(order, deps, resolved) : q \in 1..Len(order)
  BY StopFacts DEF Ready
<1>1. CASE WhileEnter
  <2>1. /\ UNCHANGED <<order, deps, result, resolved>> /\ pc = "while" /\ pc' = "for"
        /\ pos' = 1 /\ progressed' = FALSE
    BY <1>1 DEF WhileEnter
  <2>2. Passed'  BY <1>0, <2>1, SameResult DEF SweepInv, Passed
  <2> QED  BY <2>1, <2>2, SameResult DEF SweepInv
<1>2. CASE WhileExit
  <2>1. UNCHANGED <<order, deps, result, resolved>> /\ pc' = "ok"
    BY <1>2 DEF WhileExit
  <2>2. Passed'  BY <2>1 DEF SweepInv, Passed
  <2> QED  BY <2>1, <2>2, SameResult DEF SweepInv
<1>3. ASSUME NEW t \in Tags, Skip(t) \/ Blocked(t) PROVE SweepInv'
  <2>1. /\ UNCHANGED <<order, deps, result, resolved, progressed, pc>> /\ pos' = pos + 1
        /\ pc = "for" /\ pos <= Len(order) /\ t = order[pos]
        /\ t \notin remaining \/ ~ deps[t] \subseteq resolved
    BY <1>3 DEF Skip, Blocked, At
  <2>2. t \notin remaining => t \in resolved
    <3>1. pos \in 1..Len(order)  BY <2>1
    <3>2. t \in Entries  BY <2>1, <3>1 DEF Entries, Elems
    <3> QED  BY <3>2 DEF NothingLost
  <2>3. pos \notin Ready(order, deps, resolved)  BY <2>1, <2>2 DEF Ready
  <2>4. Passed'
    <3>1. Last' = Last  BY <2>1, SameResult
    <3> SUFFICES ASSUME NEW q \in Ready(order, deps, resolved)
                 PROVE  /\ progressed => Last < pos + 1 /\ ~ (Last < q /\ q < pos + 1)
                        /\ ~progressed => pos + 1 <= q /\ (Last = 0 \/ q <= Last)
      BY <2>1, <3>1 DEF Passed
    <3>2. q # pos /\ q \in Nat /\ pos \in Nat /\ Last \in Nat  BY <1>0, <2>3
    <3>3. /\ progressed => Last < pos /\ ~ (Last < q /\ q < pos)
          /\ ~progressed => pos <= q /\ (Last = 0 \/ q <= Last)
      BY <2>1 DEF SweepInv, Passed
    <3> QED  BY <3>2, <3>3
  <2> QED  BY <2>1, <2>4, SameResult DEF SweepInv
<1>4. ASSUME NEW t \in Tags, MissingDependency(t) PROVE SweepInv'
  <2>1. UNCHANGED <<order, deps, result, resolved>> /\ pc' = "missing"
    BY <1>4 DEF MissingDependency
  <2>2. Passed'  BY <2>1 DEF SweepInv, Passed
  <2> QED  BY <2>1, <2>2, SameResult DEF SweepInv
<1>5. ASSUME NEW t \in Tags, Resolve(t) PROVE SweepInv'
  BY <1>5, ResolveSweepInv
<1>6. CASE SweepEnd
  <2>1. /\ UNCHANGED <<order, deps, result, resolved>> /\ pc = "for" /\ pos > Len(order)
        /\ pc' = IF progressed THEN "while" ELSE "circular"
    BY <1>6 DEF SweepEnd
  <2>2. Last' = Last  BY <2>1, SameResult
  <2>3. Passed'
    <3> SUFFICES ASSUME NEW q \in Ready(order, deps, resolved)
                 PROVE  progressed /\ (Last = 0 \/ q <= Last)
      BY <2>1, <2>2 DEF Passed
    <3>1. /\ progressed => Last < pos /\ ~ (Last < q /\ q < pos)
          /\ ~progressed => pos <= q
      BY <2>1 DEF SweepInv, Passed
    <3> QED  BY <1>0, <2>1, <3>1
  <2> QED  BY <2>1, <2>3, SameResult DEF SweepInv
<1>7. CASE UNCHANGED vars
  <2>1. UNCHANGED <<order, deps, result, resolved, pos, progressed, pc>>
    BY <1>7 DEF vars
  <2>2. Passed'  BY <2>1, SameResult DEF SweepInv, Passed
  <2> QED  BY <2>1, <2>2, SameResult DEF SweepInv
<1>8. CASE Returned  BY <1>7, <1>8 DEF Returned
<1> QED  BY <1>1, <1>2, <1>3, <1>4, <1>5, <1>6, <1>7, <1>8 DEF Next

(* What the invariant says when ordered() has answered.                    *)
LEMMA SweepInvImplies == IInv /\ SweepInv => SweepAgrees
<1> SUFFICES ASSUME IInv, SweepInv PROVE SweepAgrees  OBVIOUS
<1> USE DEF IInv, TypeOK
<1>0. Len(result) \in Nat /\ Len(order) \in Nat  OBVIOUS
<1>1. Distinct(result) /\ Distinct(order)  BY DEF SweepInv, NothingLost, Distinct
<1>2. Members(result) \subseteq Members(order)
  BY DEF NothingLost, Entries, Elems, Members
<1>3. ASSUME pc = "ok" PROVE OrderedOk(order, deps) /\ result = Ordered(order, deps)
  <2>1. Members(result) = Members(order)  BY <1>3 DEF VerdictSound, Entries, Elems, Members
  <2>2. Len(result) = Len(order)  BY <1>1, <1>2, <2>1, MembersBoundLen
  <2>3. ASSUME NEW t \in Members(order) PROVE deps[t] \subseteq Members(order)
    <3>1. PICK i \in 1..Len(result) : t = result[i]  BY <2>1 DEF Members
    <3>2. deps[t] \subseteq {result[j] : j \in 1..(i - 1)}  BY <3>1 DEF DepsFirst
    <3>3. \A j \in 1..(i - 1) : j \in 1..Len(result)  BY <1>0
    <3> QED  BY <2>1, <3>2, <3>3 DEF Members
  <2> DEFINE st == [k \in 1..Len(order) |-> Stop(k)]
  <2>4. \A k \in 1..Len(order) : st[k] \in 1..Len(order) /\ order[st[k]] = result[k]
    BY <2>2, StopFacts
  <2>5. st \in AllStops(order) /\ \A k \in 1..Len(order) : st[k] = Stop(k)
    BY <2>4 DEF AllStops
  <2> HIDE DEF st
  <2>6. SweepStops(order, deps, st)
    <3> SUFFICES ASSUME NEW k \in 1..Len(order)
                 PROVE  Soonest(IF k = 1 THEN 0 ELSE st[k - 1], st[k],
                                Ready(order, deps, {order[st[j]] : j \in 1..(k - 1)}))
      BY DEF SweepStops, Soonest
    <3>1. \A j \in 1..(k - 1) : j \in 1..Len(order)  BY <1>0
    <3>2. {order[st[j]] : j \in 1..(k - 1)} = {result[j] : j \in 1..(k - 1)}
      BY ZenonT(30), <2>4, <3>1
    <3>3. (IF k = 1 THEN 0 ELSE st[k - 1]) = Before(k)
      <4>1. k # 1 => k - 1 \in 1..Len(order)  BY <1>0
      <4> QED  BY <2>5, <4>1 DEF Before
    <3>4. Soonest(Before(k), Stop(k), Ready(order, deps, {result[j] : j \in 1..(k - 1)}))
      BY <2>2 DEF SweepInv, Greedy
    <3> QED  BY <2>5, <3>2, <3>3, <3>4
  <2>7. OrderedOk(order, deps)  BY <2>3, <2>5, <2>6 DEF OrderedOk
  <2> DEFINE f == CHOOSE g \in AllStops(order) : SweepStops(order, deps, g)
  <2>8. f \in AllStops(order) /\ SweepStops(order, deps, f)  BY <2>5, <2>6
  <2>9. Ordered(order, deps) = [k \in 1..Len(order) |-> order[f[k]]]  BY DEF Ordered
  <2> HIDE DEF f
  <2>10. \A k \in 1..Len(order) : order[f[k]] = result[k]
    BY <2>2, <2>8, StopFacts DEF SweepInv, NoChoice
  <2>11. result = [k \in 1..Len(order) |-> result[k]]  BY <2>2
  <2> QED  BY <2>7, <2>9, <2>10, <2>11
<1>4. ASSUME pc = "missing" PROVE ~ OrderedOk(order, deps)
  BY <1>4 DEF VerdictSound, OrderedOk, Entries, Elems, Members
<1>5. ASSUME pc = "circular" PROVE ~ OrderedOk(order, deps)
  <2> SUFFICES ASSUME NEW f \in AllStops(order), SweepStops(order, deps, f) PROVE FALSE
    BY DEF OrderedOk
  <2> DEFINE k == Len(result) + 1
  <2>1. Members(result) # Members(order)
    BY <1>5 DEF VerdictSound, NothingLost, Entries, Elems, Members
  <2>2. k \in 1..Len(order)
    <3>1. Len(result) <= Len(order) /\ Len(result) # Len(order)
      BY <1>1, <1>2, <2>1, MembersBoundLen
    <3> QED  BY <1>0, <3>1
  <2>3. {order[f[j]] : j \in 1..(k - 1)} = resolved
    <3>1. \A j \in 1..Len(result) : order[f[j]] = result[j]
      BY StopFacts DEF SweepInv, NoChoice
    <3>2. k - 1 = Len(result)  BY <1>0
    <3> QED  BY <3>1, <3>2 DEF NothingLost, Elems
  <2>4. f[k] \in Ready(order, deps, resolved)  BY <2>2, <2>3 DEF SweepStops
  <2> QED  BY <1>5, <2>4 DEF SweepInv, Passed
<1> QED  BY <1>3, <1>4, <1>5 DEF SweepAgrees
-----------------------------------------------------------------------------
(* The run plays the engine, too; ordered() then does not move.            *)
LEMMA OrderStep == [MCNext]_<<part, vars, lifeVars>> => [Next]_vars
  BY DEF MCNext

(* The step-by-step loop of ordered() and the function the lifecycle is    *)
(* built on agree, for every insertion order and every dependency          *)
(* relation, errors included.                                              *)
THEOREM SweepAlwaysAgrees == MCSpec => []SweepAgrees
<1>1. MCInit => IInv /\ SweepInv
  BY InitIInv, InitSweepInv DEF MCInit, IdleOrder
<1>2. IInv /\ SweepInv /\ [MCNext]_<<part, vars, lifeVars>> => (IInv /\ SweepInv)'
  BY NextIInv, NextSweepInv, OrderStep
<1> QED  BY <1>1, <1>2, SweepInvImplies, PTL DEF MCSpec
-----------------------------------------------------------------------------
(* The engine's inductive invariant.                                       *)
Provs == Members(Providers)
Outs == Members(Outbounds)
Ins == Members(Inbounds)
All == Members(AllComponents)

ManagedBy(m) == IF m = "providers" THEN Provs ELSE IF m = "outbounds" THEN Outs ELSE Ins

LifeTypes ==
    /\ needs \in [Outs -> SUBSET Outs]
    /\ phase \in {"new", "built", "rejected", "starting", "started", "closing", "stopped"}
    /\ stage \in 1..4
    /\ manager \in {"providers", "outbounds", "inbounds"}
    /\ queue \in Seq(All)
    /\ reached \in [All -> 0..4]
    /\ closes \in [All -> Nat]
    /\ failures \in Seq(All \cup {"router"})
    /\ errors \in [Life!Managers -> All \cup {"router", "none"}]

(* The loop of a manager visits its own components, each once. *)
Walked == Distinct(queue) /\ Members(queue) \subseteq ManagedBy(manager)

(* Engine::new has ordered the outbounds. *)
Sorted == phase \notin {"new", "rejected"} => OrderedOk(Outbounds, needs)

(* What a stage has not visited yet. *)
Pending ==
    Members(queue) \cup (IF manager = "providers" THEN Outs \cup Ins
                         ELSE IF manager = "outbounds" THEN Ins ELSE {})

(* Dependencies come first in the queue, and what has been visited only    *)
(* depends on what has been visited.                                       *)
DepsAhead ==
    /\ \A i, j \in 1..Len(queue) : queue[j] \in needs[queue[i]] => j < i
    /\ \A o \in Outs \ Members(queue) : needs[o] \cap Members(queue) = {}

Starting ==
    phase = "starting" =>
        /\ \A c \in All : reached[c] = IF c \in Pending THEN stage - 1 ELSE stage
        /\ manager = "outbounds" => DepsAhead

(* What has started keeps the order it started in. *)
Layered ==
    /\ (\E i \in Ins : reached[i] >= 2) => \A c \in Outs \cup Provs : reached[c] >= 2
    /\ \A o \in Outs : reached[o] >= 2 => \A d \in needs[o] : reached[d] >= 2

(* Before shutdown() nothing has been closed and nothing has failed. *)
Unharmed ==
    phase \notin {"closing", "stopped"} =>
        /\ \A c \in All : closes[c] = 0
        /\ failures = << >> /\ \A m \in Life!Managers : errors[m] = "none"
        /\ startErr = FALSE
        /\ phase \in {"starting", "started"} => services = "running"
        /\ phase \in {"new", "built", "rejected"} => \A c \in All : reached[c] = 0

(* What shutdown() has not visited yet. *)
Unclosed ==
    Members(queue) \cup (IF manager = "inbounds" THEN Outs \cup Provs
                         ELSE IF manager = "outbounds" THEN Provs ELSE {})

(* Dependents come first in the queue, and what is in it only depends on   *)
(* what is in it.                                                          *)
DepsBehind ==
    /\ \A i, j \in 1..Len(queue) : queue[j] \in needs[queue[i]] => i < j
    /\ \A o \in Members(queue) : needs[o] \subseteq Members(queue)

Closing ==
    phase = "closing" =>
        /\ \A c \in All : closes[c] = IF c \in Unclosed THEN 0 ELSE 1
        /\ services = IF manager = "inbounds" THEN "running" ELSE "closed"
        /\ manager = "outbounds" => DepsBehind
        /\ manager = "inbounds" => errors["router"] = "none" /\ errors["outbounds"] = "none"
        /\ manager # "providers" => errors["providers"] = "none"

FirstOf == IF errors["inbounds"] # "none" THEN errors["inbounds"]
           ELSE IF errors["router"] # "none" THEN errors["router"]
           ELSE IF errors["outbounds"] # "none" THEN errors["outbounds"]
           ELSE errors["providers"]

(* The first error in the order the results are looked at is the first     *)
(* failure.                                                                *)
Blamed == FirstOf = IF failures = << >> THEN "none" ELSE Head(failures)

Stopped ==
    phase = "stopped" =>
        /\ services = "closed" /\ \A c \in All : closes[c] = 1
        /\ ~startErr => answer = IF failures = << >> THEN "ok" ELSE Head(failures)

LifeInv ==
    /\ LifeTypes /\ Walked /\ Sorted /\ Starting /\ Layered /\ Unharmed
    /\ Closing /\ Blamed /\ Stopped

(* The three kinds of component have no name in common.                    *)
LEMMA ComponentFacts ==
  /\ Providers \in Seq(Provs) /\ Outbounds \in Seq(Outs) /\ Inbounds \in Seq(Ins)
  /\ Distinct(Providers) /\ Distinct(Outbounds) /\ Distinct(Inbounds)
  /\ Provs \cap Outs = {} /\ Provs \cap Ins = {} /\ Outs \cap Ins = {}
  /\ All = Provs \cup Outs \cup Ins
  /\ "none" \notin All
<1>1. Providers \in Seq(STRING) /\ Outbounds \in Seq(STRING) /\ Inbounds \in Seq(STRING)
  BY ComponentsAssumption
<1>2. Distinct(AllComponents)  BY ComponentsAssumption DEF Distinct
<1> DEFINE po == Providers \o Outbounds
<1>3. po \in Seq(STRING)  BY <1>1
<1>4. AllComponents = po \o Inbounds  BY DEF AllComponents
<1> HIDE DEF po
<1>5. /\ Distinct(po) /\ Distinct(Inbounds) /\ Members(po) \cap Ins = {}
      /\ All = Members(po) \cup Ins
  BY <1>1, <1>2, <1>3, <1>4, ConcatParts DEF All, Ins
<1> USE DEF po
<1>6. /\ Distinct(Providers) /\ Distinct(Outbounds) /\ Provs \cap Outs = {}
      /\ Members(po) = Provs \cup Outs
  BY <1>1, <1>5, ConcatParts DEF Provs, Outs
<1>7. ASSUME NEW s \in Seq(STRING) PROVE s \in Seq(Members(s))
  <2>1. \A i \in 1..Len(s) : s[i] \in Members(s)  BY DEF Members
  <2>2. s = [i \in 1..Len(s) |-> s[i]]  OBVIOUS
  <2> QED  BY <2>1, <2>2
<1>8. "none" \notin All  BY ComponentsAssumption DEF All, Members
<1> QED  BY <1>1, <1>5, <1>6, <1>7, <1>8 DEF Provs, Outs, Ins

(* The lifecycle is about the same components and the same ordered().      *)
LEMMA LifeNames ==
  /\ Life!Components = All
  /\ \A s : Life!Members(s) = Members(s)
  /\ Life!OrderedOk(Outbounds, needs) <=> OrderedOk(Outbounds, needs)
  /\ Life!Ordered(Outbounds, needs) = Ordered(Outbounds, needs)
<1>1. \A s : Life!Members(s) = Members(s)  BY DEF Life!Members, Members
<1>2. Life!Components = All
  BY <1>1 DEF Life!Components, All, Life!AllComponents, AllComponents
<1>3. /\ Life!OrderedOk(Outbounds, needs) <=> OrderedOk(Outbounds, needs)
      /\ Life!Ordered(Outbounds, needs) = Ordered(Outbounds, needs)
  BY DEF Life!OrderedOk, Life!Ordered, Life!AllStops, Life!SweepStops, Life!Ready,
         Life!Travel, Life!Members, OrderedOk, Ordered, AllStops, SweepStops, Ready,
         Travel, Members
<1> QED  BY <1>1, <1>2, <1>3

(* Walking backwards visits the same components, each once.                *)
LEMMA ReverseFacts ==
  ASSUME NEW S, NEW s \in Seq(S)
  PROVE  /\ Life!Reverse(s) \in Seq(S)
         /\ Len(Life!Reverse(s)) = Len(s)
         /\ \A i \in 1..Len(s) : /\ (Len(s) - i) + 1 \in 1..Len(s)
                                 /\ Life!Reverse(s)[i] = s[(Len(s) - i) + 1]
         /\ Members(Life!Reverse(s)) = Members(s)
         /\ Distinct(s) => Distinct(Life!Reverse(s))
<1>1. Len(s) \in Nat  OBVIOUS
<1>2. \A i \in 1..Len(s) : (Len(s) - i) + 1 \in 1..Len(s)  BY <1>1
<1>3. \A i \in 1..Len(s) : s[(Len(s) - i) + 1] \in S  BY <1>2
<1>4. Life!Reverse(s) = [i \in 1..Len(s) |-> s[(Len(s) - i) + 1]]  BY DEF Life!Reverse
<1>5. Life!Reverse(s) \in Seq(S) /\ Len(Life!Reverse(s)) = Len(s)  BY <1>1, <1>3, <1>4
<1>6. \A i \in 1..Len(s) : Life!Reverse(s)[i] = s[(Len(s) - i) + 1]  BY <1>4
<1>7. \A i \in 1..Len(s) : (Len(s) - ((Len(s) - i) + 1)) + 1 = i  BY <1>1
<1>8. Members(Life!Reverse(s)) = Members(s)
  <2>1. Members(Life!Reverse(s)) \subseteq Members(s)  BY <1>2, <1>5, <1>6 DEF Members
  <2>2. ASSUME NEW i \in 1..Len(s) PROVE s[i] \in Members(Life!Reverse(s))
    <3>1. Life!Reverse(s)[(Len(s) - i) + 1] = s[i]  BY <1>2, <1>6, <1>7
    <3> QED  BY <1>2, <1>5, <3>1 DEF Members
  <2> QED  BY <2>1, <2>2 DEF Members
<1>9. Distinct(s) => Distinct(Life!Reverse(s))
  <2> SUFFICES ASSUME Distinct(s), NEW i \in 1..Len(s), NEW j \in 1..Len(s),
                      s[(Len(s) - i) + 1] = s[(Len(s) - j) + 1]
               PROVE  i = j
    BY <1>5, <1>6 DEF Distinct
  <2>1. (Len(s) - i) + 1 = (Len(s) - j) + 1  BY <1>2 DEF Distinct
  <2> QED  BY <1>1, <2>1
<1> QED  BY <1>2, <1>5, <1>6, <1>8, <1>9

(* The order ordered() answers: every outbound, once, dependencies first.  *)
LEMMA OrderedFacts ==
  ASSUME OrderedOk(Outbounds, needs), needs \in [Outs -> SUBSET Outs]
  PROVE  LET s == Ordered(Outbounds, needs)
         IN  /\ s \in Seq(Outs) /\ Distinct(s) /\ Members(s) = Outs
             /\ \A i, j \in 1..Len(s) : s[j] \in needs[s[i]] => j < i
<1> DEFINE f == CHOOSE g \in AllStops(Outbounds) : SweepStops(Outbounds, needs, g)
           s == Ordered(Outbounds, needs)
           n == Len(Outbounds)
<1>1. f \in AllStops(Outbounds) /\ SweepStops(Outbounds, needs, f)  BY DEF OrderedOk
<1>2. s = [k \in 1..n |-> Outbounds[f[k]]]  BY DEF Ordered
<1>3. n \in Nat /\ Outbounds \in Seq(Outs) /\ Distinct(Outbounds)  BY ComponentFacts
<1> HIDE DEF f, s
<1>4. \A k \in 1..n : f[k] \in 1..n /\ Outbounds[f[k]] \in Outs
  BY <1>1, <1>3 DEF AllStops
<1>5. s \in Seq(Outs) /\ Len(s) = n /\ \A k \in 1..n : s[k] = Outbounds[f[k]]
  BY <1>2, <1>3, <1>4
<1>6. ASSUME NEW k \in 1..n
      PROVE  s[k] \notin {s[j] : j \in 1..(k - 1)} /\ needs[s[k]] \subseteq {s[j] : j \in 1..(k - 1)}
  <2>1. f[k] \in Ready(Outbounds, needs, {Outbounds[f[j]] : j \in 1..(k - 1)})
    BY <1>1 DEF SweepStops
  <2>2. \A j \in 1..(k - 1) : j \in 1..n  BY <1>3
  <2>3. {Outbounds[f[j]] : j \in 1..(k - 1)} = {s[j] : j \in 1..(k - 1)}  BY <1>5, <2>2
  <2> QED  BY <1>5, <2>1, <2>3 DEF Ready
<1>7. ASSUME NEW i \in 1..n, NEW j \in 1..n, j < i PROVE s[j] # s[i]
  <2>1. j \in 1..(i - 1)  BY <1>3, <1>7
  <2> QED  BY <1>6, <2>1
<1>8. Distinct(s)
  <2> SUFFICES ASSUME NEW i \in 1..n, NEW j \in 1..n, s[i] = s[j] PROVE i = j
    BY <1>5 DEF Distinct
  <2>1. i < j \/ j < i \/ i = j  BY <1>3
  <2> QED  BY <1>7, <2>1
<1>9. Members(s) = Outs
  <2>1. Members(s) \subseteq Outs  BY <1>5 DEF Members
  <2> QED  BY <1>3, <1>5, <1>8, <2>1, MembersBoundLen DEF Outs
<1>10. ASSUME NEW i \in 1..n, NEW j \in 1..n, s[j] \in needs[s[i]] PROVE j < i
  <2>1. PICK k \in 1..(i - 1) : s[j] = s[k]  BY <1>6, <1>10
  <2>2. k \in 1..n /\ k < i  BY <1>3, <2>1
  <2> QED  BY <1>5, <1>8, <2>1, <2>2 DEF Distinct
<1> QED  BY <1>5, <1>8, <1>9, <1>10 DEF s
-----------------------------------------------------------------------------
(* Nothing is made, nothing is up.                                         *)
LEMMA LifeInitInv == Life!Init => LifeInv
<1> SUFFICES ASSUME Life!Init PROVE LifeInv  OBVIOUS
<1>1. /\ needs \in [Outs -> SUBSET Outs] /\ phase = "new" /\ stage = 1 /\ manager = "providers"
      /\ queue = << >> /\ reached = [c \in All |-> 0] /\ closes = [c \in All |-> 0]
      /\ failures = << >> /\ errors = [m \in Life!Managers |-> "none"] /\ startErr = FALSE
  BY LifeNames DEF Life!Init, Outs
<1>2. LifeTypes  BY <1>1 DEF LifeTypes
<1>3. Walked  BY <1>1, NoMembers DEF Walked
<1>4. Layered  BY <1>1, ComponentFacts DEF Layered
<1>5. Unharmed  BY <1>1 DEF Unharmed
<1>6. Blamed  BY <1>1 DEF Blamed, FirstOf, Life!Managers, Life!Router
<1> QED
  BY <1>1, <1>2, <1>3, <1>4, <1>5, <1>6 DEF LifeInv, Sorted, Starting, Closing, Stopped

(* What the next visit of a manager's loop takes out of the queue.         *)
LEMMA VisitFacts ==
  ASSUME LifeInv, queue # << >>
  PROVE  /\ Head(queue) \in ManagedBy(manager) /\ Head(queue) \in All
         /\ Tail(queue) \in Seq(All) /\ Distinct(Tail(queue))
         /\ Members(queue) = {Head(queue)} \cup Members(Tail(queue))
         /\ Head(queue) \notin Members(Tail(queue))
         /\ Len(Tail(queue)) \in Nat
         /\ Head(queue) = queue[1] /\ 1 \in 1..Len(queue)
         /\ \A i \in 1..Len(Tail(queue)) :
              i + 1 \in 1..Len(queue) /\ Tail(queue)[i] = queue[i + 1]
<1> USE DEF LifeInv, LifeTypes, Walked
<1>1. /\ Len(Tail(queue)) \in Nat /\ Head(queue) = queue[1] /\ 1 \in 1..Len(queue)
      /\ \A i \in 1..Len(Tail(queue)) :
           i + 1 \in 1..Len(queue) /\ Tail(queue)[i] = queue[i + 1]
  OBVIOUS
<1>2. /\ Head(queue) \in All /\ Tail(queue) \in Seq(All) /\ Distinct(Tail(queue))
      /\ Head(queue) \in Members(queue)
      /\ Members(queue) = {Head(queue)} \cup Members(Tail(queue))
      /\ Head(queue) \notin Members(Tail(queue))
  BY TailFacts
<1> QED  BY <1>1, <1>2

(* A component that starts.                                                *)
LEMMA StartComponentInv ==
  ASSUME LifeInv, Life!StartComponent
  PROVE  LifeInv'
<1> USE DEF LifeInv
<1> DEFINE h == Head(queue)
<1>1. /\ phase = "starting" /\ queue # << >> /\ queue' = Tail(queue)
      /\ reached' = [reached EXCEPT ![h] = stage]
      /\ UNCHANGED <<needs, phase, stage, manager, closes, services, failures, errors,
                     startErr, answer>>
  BY DEF Life!StartComponent
<1>2. /\ h \in ManagedBy(manager) /\ h \in All
      /\ queue' \in Seq(All) /\ Distinct(queue') /\ Members(queue) = {h} \cup Members(queue')
      /\ h \notin Members(queue') /\ Len(queue') \in Nat /\ h = queue[1] /\ 1 \in 1..Len(queue)
      /\ \A i \in 1..Len(queue') : i + 1 \in 1..Len(queue) /\ queue'[i] = queue[i + 1]
  BY <1>1, VisitFacts
<1> HIDE DEF h
<1>3. LifeTypes'
  <2>1. reached' \in [All -> 0..4]  BY <1>1, <1>2 DEF LifeTypes
  <2> QED  BY <1>1, <1>2, <2>1 DEF LifeTypes
<1>4. Walked'  BY <1>1, <1>2 DEF Walked, ManagedBy
<1>5. Pending' = Pending \ {h}
  <2>1. Members(queue') = Members(queue) \ {h}  BY <1>2
  <2>2. CASE manager = "providers"
    BY <1>1, <1>2, <2>1, <2>2, ComponentFacts DEF Pending, ManagedBy
  <2>3. CASE manager = "outbounds"
    BY <1>1, <1>2, <2>1, <2>3, ComponentFacts DEF Pending, ManagedBy
  <2>4. CASE manager = "inbounds"
    BY <1>1, <1>2, <2>1, <2>4, ComponentFacts DEF Pending, ManagedBy
  <2> QED  BY <2>2, <2>3, <2>4 DEF LifeTypes
<1>6. \A c \in All : reached'[c] = IF c \in Pending' THEN stage - 1 ELSE stage
  BY <1>1, <1>2, <1>5 DEF Starting, LifeTypes
<1>7. ASSUME manager = "outbounds" PROVE DepsAhead'
  <2>1. DepsAhead  BY <1>1, <1>7 DEF Starting
  <2>2. \A i, j \in 1..Len(queue') : queue'[j] \in needs[queue'[i]] => j < i
    <3> SUFFICES ASSUME NEW i \in 1..Len(queue'), NEW j \in 1..Len(queue'),
                        queue[j + 1] \in needs[queue[i + 1]]
                 PROVE  j < i
      BY <1>2
    <3>1. j + 1 < i + 1  BY <1>2, <2>1 DEF DepsAhead
    <3> QED  BY <1>2, <3>1
  <2>3. ASSUME NEW o \in Outs, o \notin Members(queue')
        PROVE  needs[o] \cap Members(queue') = {}
    <3>1. CASE o \notin Members(queue)  BY <1>2, <2>1, <3>1 DEF DepsAhead
    <3>2. CASE o = h
      <4> SUFFICES ASSUME NEW j \in 1..Len(queue'), queue'[j] \in needs[h] PROVE FALSE
        BY <3>2 DEF Members
      <4>1. j + 1 < 1  BY <1>2, <2>1 DEF DepsAhead
      <4> QED  BY <1>2, <4>1
    <3> QED  BY <1>2, <2>3, <3>1, <3>2
  <2> QED  BY <1>1, <2>2, <2>3 DEF DepsAhead
<1>8. Starting'  BY <1>1, <1>6, <1>7 DEF Starting
<1>9. Layered'
  <2>0. stage \in 1..4  BY DEF LifeTypes
  <2>1. Provs \subseteq All /\ Outs \subseteq All /\ Ins \subseteq All  BY ComponentFacts
  <2>2. CASE stage = 1
    <3>1. \A c \in All : ~ (reached'[c] >= 2)  BY <1>6, <2>2
    <3> QED  BY <1>1, <2>1, <3>1 DEF Layered
  <2>3. CASE stage >= 3
    <3>1. \A c \in All : reached'[c] >= 2  BY <1>6, <2>0, <2>3
    <3>2. \A o \in Outs : needs[o] \subseteq Outs  BY DEF LifeTypes
    <3> QED  BY <1>1, <2>1, <3>1, <3>2 DEF Layered
  <2>4. CASE stage = 2
    <3>1. \A c \in All : reached'[c] >= 2 <=> c \notin Pending'  BY <1>6, <2>4
    <3>2. ASSUME NEW i \in Ins, i \notin Pending', NEW c \in Outs \cup Provs
          PROVE  c \notin Pending'
      <4>1. manager = "inbounds"  BY <1>1, <3>2 DEF Pending, LifeTypes
      <4>2. Members(queue') \subseteq Ins  BY <1>1, <1>4, <4>1 DEF Walked, ManagedBy
      <4> QED  BY <1>1, <4>1, <4>2, ComponentFacts DEF Pending
    <3>3. ASSUME NEW o \in Outs, o \notin Pending', NEW d \in needs[o] PROVE d \notin Pending'
      <4>1. d \in Outs  BY DEF LifeTypes
      <4>2. CASE manager = "outbounds"
        <5>1. d \notin Members(queue')  BY <1>1, <1>7, <3>3, <4>2 DEF DepsAhead, Pending
        <5> QED  BY <1>1, <4>1, <4>2, <5>1, ComponentFacts DEF Pending
      <4>3. CASE manager = "inbounds"
        <5>1. Members(queue') \subseteq Ins  BY <1>1, <1>4, <4>3 DEF Walked, ManagedBy
        <5> QED  BY <1>1, <4>1, <4>3, <5>1, ComponentFacts DEF Pending
      <4>4. manager # "providers"  BY <1>1, <3>3 DEF Pending
      <4> QED  BY <4>2, <4>3, <4>4 DEF LifeTypes
    <3>4. (\E i \in Ins : reached'[i] >= 2) => \A c \in Outs \cup Provs : reached'[c] >= 2
      BY <2>1, <3>1, <3>2
    <3>5. \A o \in Outs : reached'[o] >= 2 => \A d \in needs[o] : reached'[d] >= 2
      <4>1. \A o \in Outs : \A d \in needs[o] : d \in All  BY <2>1 DEF LifeTypes
      <4> QED  BY <2>1, <3>1, <3>3, <4>1
    <3> QED  BY <1>1, <3>4, <3>5 DEF Layered
  <2> QED  BY <2>0, <2>2, <2>3, <2>4
<1>10. Sorted' /\ Unharmed' /\ Closing' /\ Stopped'
  BY <1>1 DEF Sorted, Unharmed, Closing, Stopped
<1>11. Blamed'  BY <1>1 DEF Blamed, FirstOf
<1> QED  BY <1>3, <1>4, <1>8, <1>9, <1>10, <1>11

(* Before anything starts, and between two components.                     *)
LEMMA StartNextInv ==
  ASSUME LifeInv,
         \/ Life!NewOk \/ Life!NewErr \/ Life!StartBegin \/ Life!StartNextManager
         \/ Life!StartNextStage \/ Life!StartReturns
  PROVE  LifeInv'
<1> USE DEF LifeInv
<1>1. UNCHANGED <<needs, reached, closes, failures, errors, startErr>>
  BY DEF Life!NewOk, Life!NewErr, Life!StartBegin, Life!StartNextManager,
         Life!StartNextStage, Life!StartReturns
<1>2. Layered' /\ Blamed'  BY <1>1 DEF Layered, Blamed, FirstOf
<1>3. CASE Life!NewOk \/ Life!NewErr
  <2>1. /\ UNCHANGED <<stage, manager, queue, services>> /\ phase = "new"
        /\ phase' = "rejected" \/ (phase' = "built" /\ OrderedOk(Outbounds, needs))
    BY <1>3, LifeNames DEF Life!NewOk, Life!NewErr
  <2>2. LifeTypes' /\ Walked'  BY <1>1, <2>1 DEF LifeTypes, Walked, ManagedBy
  <2>3. Sorted'  BY <1>1, <2>1 DEF Sorted
  <2>4. Unharmed'  BY <1>1, <2>1 DEF Unharmed
  <2>5. Starting' /\ Closing' /\ Stopped'  BY <2>1 DEF Starting, Closing, Stopped
  <2> QED  BY <1>2, <2>2, <2>3, <2>4, <2>5
<1>4. CASE Life!StartBegin
  <2>1. /\ phase = "built" /\ phase' = "starting" /\ services' = "running" /\ stage' = 1
        /\ manager' = "providers" /\ queue' = Providers
    BY <1>4 DEF Life!StartBegin
  <2>2. queue' \in Seq(All) /\ Distinct(queue') /\ Members(queue') = Provs
    BY <2>1, ComponentFacts DEF Provs
  <2>3. LifeTypes' /\ Walked'  BY <1>1, <2>1, <2>2 DEF LifeTypes, Walked, ManagedBy
  <2>4. Sorted' /\ Unharmed' /\ Closing' /\ Stopped'
    BY <1>1, <2>1 DEF Sorted, Unharmed, Closing, Stopped
  <2>5. Starting'
    <3>1. Pending' = All  BY <2>1, <2>2, ComponentFacts DEF Pending
    <3>2. \A c \in All : reached'[c] = 0  BY <1>1, <2>1 DEF Unharmed
    <3> QED  BY <2>1, <3>1, <3>2 DEF Starting
  <2> QED  BY <1>2, <2>3, <2>4, <2>5
<1>5. CASE Life!StartNextManager
  <2>1. /\ phase = "starting" /\ phase' = "starting" /\ queue = << >> /\ stage' = stage
        /\ services' = services
        /\ \/ /\ manager = "providers" /\ manager' = "outbounds"
              /\ queue' = Ordered(Outbounds, needs)
           \/ manager = "outbounds" /\ manager' = "inbounds" /\ queue' = Inbounds
    BY <1>5, LifeNames DEF Life!StartNextManager
  <2>2. Sorted' /\ Unharmed' /\ Closing' /\ Stopped'
    BY <1>1, <2>1 DEF Sorted, Unharmed, Closing, Stopped
  <2>3. Members(queue) = {}  BY <2>1, NoMembers
  <2>4. /\ queue' \in Seq(All) /\ Distinct(queue') /\ Members(queue') = ManagedBy(manager)'
        /\ Pending' = Pending
        /\ manager' = "outbounds" =>
             \A i, j \in 1..Len(queue') : queue'[j] \in needs[queue'[i]] => j < i
    <3>1. CASE manager = "providers"
      <4>1. manager' = "outbounds" /\ queue' = Ordered(Outbounds, needs)  BY <2>1, <3>1
      <4>2. OrderedOk(Outbounds, needs) /\ needs \in [Outs -> SUBSET Outs]
        BY <2>1 DEF Sorted, LifeTypes
      <4>3. /\ queue' \in Seq(Outs) /\ Distinct(queue') /\ Members(queue') = Outs
            /\ \A i, j \in 1..Len(queue') : queue'[j] \in needs[queue'[i]] => j < i
        BY <4>1, <4>2, OrderedFacts
      <4>4. queue' \in Seq(All)  BY <4>3, ComponentFacts
      <4> QED  BY <2>3, <3>1, <4>1, <4>3, <4>4 DEF ManagedBy, Pending
    <3>2. CASE manager = "outbounds"
      <4>1. manager' = "inbounds" /\ queue' = Inbounds  BY <2>1, <3>2
      <4>2. queue' \in Seq(All) /\ Distinct(queue') /\ Members(queue') = Ins
        BY <4>1, ComponentFacts DEF Ins
      <4> QED  BY <2>3, <3>2, <4>1, <4>2 DEF ManagedBy, Pending
    <3> QED  BY <2>1, <3>1, <3>2
  <2>5. LifeTypes' /\ Walked'  BY <1>1, <2>1, <2>4 DEF LifeTypes, Walked
  <2>6. Starting'
    <3>1. \A c \in All : reached'[c] = IF c \in Pending' THEN stage' - 1 ELSE stage'
      BY <1>1, <2>1, <2>4 DEF Starting
    <3>2. manager' = "outbounds" => DepsAhead'
      BY <1>1, <2>1, <2>4 DEF DepsAhead, ManagedBy
    <3> QED  BY <3>1, <3>2 DEF Starting
  <2> QED  BY <1>2, <2>2, <2>5, <2>6
<1>6. CASE Life!StartNextStage
  <2>1. /\ phase = "starting" /\ phase' = "starting" /\ queue = << >> /\ stage' = stage + 1
        /\ stage < 4 /\ services' = services /\ manager = "inbounds" /\ manager' = "providers"
        /\ queue' = Providers
    BY <1>6 DEF Life!StartNextStage
  <2>2. queue' \in Seq(All) /\ Distinct(queue') /\ Members(queue') = Provs
    BY <2>1, ComponentFacts DEF Provs
  <2>3. stage \in 1..4 /\ stage' \in 1..4  BY <2>1 DEF LifeTypes
  <2>4. LifeTypes' /\ Walked'  BY <1>1, <2>1, <2>2, <2>3 DEF LifeTypes, Walked, ManagedBy
  <2>5. Sorted' /\ Unharmed' /\ Closing' /\ Stopped'
    BY <1>1, <2>1 DEF Sorted, Unharmed, Closing, Stopped
  <2>6. Starting'
    <3>1. Pending' = All  BY <2>1, <2>2, ComponentFacts DEF Pending
    <3>2. Pending = {}  BY <2>1, NoMembers DEF Pending
    <3>3. \A c \in All : reached'[c] = stage  BY <1>1, <2>1, <3>2 DEF Starting
    <3> QED  BY <2>1, <2>3, <3>1, <3>3 DEF Starting
  <2> QED  BY <1>2, <2>4, <2>5, <2>6
<1>7. CASE Life!StartReturns
  <2>1. /\ phase = "starting" /\ phase' = "started"
        /\ UNCHANGED <<stage, manager, queue, services>>
    BY <1>7 DEF Life!StartReturns
  <2>2. LifeTypes' /\ Walked'  BY <1>1, <2>1 DEF LifeTypes, Walked, ManagedBy
  <2>3. Sorted' /\ Unharmed' /\ Starting' /\ Closing' /\ Stopped'
    BY <1>1, <2>1 DEF Sorted, Unharmed, Starting, Closing, Stopped
  <2> QED  BY <1>2, <2>2, <2>3
<1> QED  BY <1>3, <1>4, <1>5, <1>6, <1>7

(* shutdown() begins with everything still to close.                       *)
LEMMA ShutdownBeginInv ==
  ASSUME LifeInv, Life!StartFails \/ Life!ShutdownBegin
  PROVE  LifeInv'
<1> USE DEF LifeInv
<1>1. /\ phase \in {"starting", "started"} /\ phase' = "closing" /\ manager' = "inbounds"
      /\ queue' = Life!Reverse(Inbounds)
      /\ UNCHANGED <<needs, stage, reached, closes, services, failures, errors, answer>>
  BY DEF Life!StartFails, Life!ShutdownBegin
<1>2. queue' \in Seq(All) /\ Distinct(queue') /\ Members(queue') = Ins
  BY <1>1, ComponentFacts, ReverseFacts DEF Ins
<1>3. LifeTypes' /\ Walked'  BY <1>1, <1>2 DEF LifeTypes, Walked, ManagedBy
<1>4. Layered' /\ Blamed'  BY <1>1 DEF Layered, Blamed, FirstOf
<1>5. Sorted' /\ Starting' /\ Unharmed' /\ Stopped'
  BY <1>1 DEF Sorted, Starting, Unharmed, Stopped
<1>6. Closing'
  <2>1. Unclosed' = All  BY <1>1, <1>2, ComponentFacts DEF Unclosed
  <2>2. \A c \in All : closes'[c] = 0  BY <1>1 DEF Unharmed
  <2>3. services' = "running"  BY <1>1 DEF Unharmed
  <2>4. \A m \in Life!Managers : errors'[m] = "none"  BY <1>1 DEF Unharmed
  <2> QED  BY <1>1, <2>1, <2>2, <2>3, <2>4 DEF Closing, Life!Managers, Life!Router
<1> QED  BY <1>3, <1>4, <1>5, <1>6

(* The first error stays the first failure when a component of the manager *)
(* being closed fails: the later managers have no error yet.               *)
LEMMA BlameStays ==
  ASSUME LifeInv, phase = "closing", NEW c \in All \cup {"router"}, c # "none",
         NEW m \in Life!Managers,
         m = manager \/ (m = "router" /\ manager = "inbounds"),
         failures' = Append(failures, c),
         errors' = [errors EXCEPT ![m] = IF errors[m] = "none" THEN c ELSE errors[m]]
  PROVE  Blamed' /\ failures' \in Seq(All \cup {"router"})
         /\ errors' \in [Life!Managers -> All \cup {"router", "none"}]
<1> USE DEF LifeInv
<1>1. failures' \in Seq(All \cup {"router"})  BY DEF LifeTypes
<1>2. errors' \in [Life!Managers -> All \cup {"router", "none"}]  BY DEF LifeTypes
<1>3. m \in {"inbounds", "router", "outbounds", "providers"}
  BY DEF Life!Managers, Life!Router
<1>4. \A k \in {"inbounds", "router", "outbounds", "providers"} :
        errors'[k] = IF k = m /\ errors[k] = "none" THEN c ELSE errors[k]
  BY DEF LifeTypes, Life!Managers, Life!Router
<1>5. /\ m = "inbounds" => errors["router"] = "none"
      /\ m \in {"inbounds", "router"} => errors["outbounds"] = "none"
      /\ m # "providers" => errors["providers"] = "none"
  <2>1. /\ manager = "inbounds" => errors["router"] = "none" /\ errors["outbounds"] = "none"
        /\ manager # "providers" => errors["providers"] = "none"
    BY DEF Closing
  <2>2. CASE m = "router" /\ manager = "inbounds"  BY <2>1, <2>2
  <2>3. CASE m = manager
    <3>1. m # "router"  BY <2>3 DEF LifeTypes
    <3> QED  BY <2>1, <2>3, <3>1
  <2> QED  BY <2>2, <2>3
<1>6. CASE failures = << >>
  <2>1. FirstOf = "none"  BY <1>6 DEF Blamed
  <2>2. \A k \in {"inbounds", "router", "outbounds", "providers"} : errors[k] = "none"
    BY <2>1 DEF FirstOf
  <2>3. FirstOf' = c  BY <1>3, <1>4, <2>2 DEF FirstOf
  <2>4. failures' # << >> /\ Head(failures') = c  BY <1>6
  <2> QED  BY <1>1, <1>2, <2>3, <2>4 DEF Blamed
<1>7. CASE failures # << >>
  <2>1. /\ failures' # << >> /\ Head(failures') = Head(failures)
        /\ Head(failures) \in All \cup {"router"}
    BY <1>7 DEF LifeTypes
  <2>2. FirstOf = Head(failures) /\ FirstOf # "none"
    BY <1>7, <2>1, ComponentFacts DEF Blamed
  <2>3. FirstOf' = FirstOf  BY <1>3, <1>4, <1>5, <2>2 DEF FirstOf
  <2> QED  BY <1>1, <1>2, <2>1, <2>2, <2>3 DEF Blamed
<1> QED  BY <1>6, <1>7

(* A component is closed, whether it fails or not.                         *)
LEMMA CloseComponentInv ==
  ASSUME LifeInv, Life!CloseComponent
  PROVE  LifeInv'
<1> USE DEF LifeInv
<1> DEFINE h == Head(queue)
<1>1. /\ phase = "closing" /\ queue # << >> /\ queue' = Tail(queue)
      /\ closes' = [closes EXCEPT ![h] = @ + 1]
      /\ \/ UNCHANGED <<failures, errors>>
         \/ /\ failures' = Append(failures, h)
            /\ errors' = [errors EXCEPT ![manager] = IF errors[manager] = "none" THEN h
                                                     ELSE errors[manager]]
      /\ UNCHANGED <<needs, phase, stage, manager, reached, services, startErr, answer>>
  BY DEF Life!CloseComponent, Life!FirstError
<1>2. /\ h \in ManagedBy(manager) /\ h \in All
      /\ queue' \in Seq(All) /\ Distinct(queue') /\ Members(queue) = {h} \cup Members(queue')
      /\ h \notin Members(queue') /\ Len(queue') \in Nat /\ h = queue[1] /\ 1 \in 1..Len(queue)
      /\ \A i \in 1..Len(queue') : i + 1 \in 1..Len(queue) /\ queue'[i] = queue[i + 1]
  BY <1>1, VisitFacts
<1> HIDE DEF h
<1>3. manager \in Life!Managers  BY DEF LifeTypes, Life!Managers
<1>4. /\ Blamed' /\ failures' \in Seq(All \cup {"router"})
      /\ errors' \in [Life!Managers -> All \cup {"router", "none"}]
  <2>1. CASE UNCHANGED <<failures, errors>>  BY <2>1 DEF Blamed, FirstOf, LifeTypes
  <2>2. CASE ~ UNCHANGED <<failures, errors>>
    <3>1. h # "none"  BY <1>2, ComponentFacts
    <3> QED  BY <1>1, <1>2, <1>3, <2>2, <3>1, BlameStays
  <2> QED  BY <2>1, <2>2
<1>5. LifeTypes'
  <2>1. closes' \in [All -> Nat]  BY <1>1, <1>2 DEF LifeTypes
  <2> QED  BY <1>1, <1>2, <1>4, <2>1 DEF LifeTypes
<1>6. Walked'  BY <1>1, <1>2 DEF Walked, ManagedBy
<1>7. Unclosed' = Unclosed \ {h} /\ h \in Unclosed
  <2>1. Members(queue') = Members(queue) \ {h}  BY <1>2
  <2>2. CASE manager = "providers"
    BY <1>1, <1>2, <2>1, <2>2, ComponentFacts DEF Unclosed, ManagedBy
  <2>3. CASE manager = "outbounds"
    BY <1>1, <1>2, <2>1, <2>3, ComponentFacts DEF Unclosed, ManagedBy
  <2>4. CASE manager = "inbounds"
    BY <1>1, <1>2, <2>1, <2>4, ComponentFacts DEF Unclosed, ManagedBy
  <2> QED  BY <2>2, <2>3, <2>4 DEF LifeTypes
<1>8. \A c \in All : closes'[c] = IF c \in Unclosed' THEN 0 ELSE 1
  <2>1. \A c \in All : closes[c] = IF c \in Unclosed THEN 0 ELSE 1  BY <1>1 DEF Closing
  <2>2. closes'[h] = 1 /\ \A c \in All : c # h => closes'[c] = closes[c]
    BY <1>1, <1>2, <1>7, <2>1 DEF LifeTypes
  <2> QED  BY <1>2, <1>7, <2>1, <2>2
<1>9. ASSUME manager = "outbounds" PROVE DepsBehind'
  <2>1. DepsBehind  BY <1>1, <1>9 DEF Closing
  <2>2. \A i, j \in 1..Len(queue') : queue'[j] \in needs[queue'[i]] => i < j
    <3> SUFFICES ASSUME NEW i \in 1..Len(queue'), NEW j \in 1..Len(queue'),
                        queue[j + 1] \in needs[queue[i + 1]]
                 PROVE  i < j
      BY <1>2
    <3>1. i + 1 < j + 1  BY <1>2, <2>1 DEF DepsBehind
    <3> QED  BY <1>2, <3>1
  <2>3. ASSUME NEW o \in Members(queue') PROVE needs[o] \subseteq Members(queue')
    <3>1. needs[o] \subseteq Members(queue)  BY <1>2, <2>1 DEF DepsBehind
    <3>2. h \notin needs[o]
      <4> SUFFICES ASSUME NEW i \in 1..Len(queue'), h \in needs[queue'[i]] PROVE FALSE
        BY DEF Members
      <4>1. i + 1 < 1  BY <1>2, <2>1 DEF DepsBehind
      <4> QED  BY <1>2, <4>1
    <3> QED  BY <1>2, <3>1, <3>2
  <2> QED  BY <1>1, <2>2, <2>3 DEF DepsBehind
<1>10. /\ manager = "inbounds" => errors'["router"] = "none" /\ errors'["outbounds"] = "none"
       /\ manager # "providers" => errors'["providers"] = "none"
  <2>1. \A k \in Life!Managers : k # manager => errors'[k] = errors[k]
    BY <1>1, <1>3 DEF LifeTypes
  <2>2. {"router", "outbounds", "providers"} \subseteq Life!Managers
    BY DEF Life!Managers, Life!Router
  <2>3. /\ manager = "inbounds" => errors["router"] = "none" /\ errors["outbounds"] = "none"
        /\ manager # "providers" => errors["providers"] = "none"
    BY <1>1 DEF Closing
  <2> QED  BY <2>1, <2>2, <2>3
<1>11. Closing'  BY <1>1, <1>8, <1>9, <1>10 DEF Closing
<1>12. Sorted' /\ Starting' /\ Layered' /\ Unharmed' /\ Stopped'
  BY <1>1 DEF Sorted, Starting, Layered, Unharmed, Stopped
<1> QED  BY <1>4, <1>5, <1>6, <1>11, <1>12

(* Router::close, then the outbounds in the reverse of the start order.    *)
LEMMA CloseRouterInv ==
  ASSUME LifeInv, Life!CloseRouter
  PROVE  LifeInv'
<1> USE DEF LifeInv
<1> DEFINE s == Ordered(Outbounds, needs)
<1>1. /\ phase = "closing" /\ manager = "inbounds" /\ queue = << >> /\ services' = "closed"
      /\ \/ UNCHANGED <<failures, errors>>
         \/ /\ failures' = Append(failures, "router")
            /\ errors' = [errors EXCEPT !["router"] = "router"]
      /\ manager' = "outbounds" /\ queue' = Life!Reverse(s)
      /\ UNCHANGED <<needs, phase, stage, reached, closes, startErr, answer>>
  BY LifeNames DEF Life!CloseRouter, Life!Router
<1>2. OrderedOk(Outbounds, needs) /\ needs \in [Outs -> SUBSET Outs]
  BY <1>1 DEF Sorted, LifeTypes
<1>3. /\ s \in Seq(Outs) /\ Distinct(s) /\ Members(s) = Outs
      /\ \A i, j \in 1..Len(s) : s[j] \in needs[s[i]] => j < i
  BY <1>2, OrderedFacts
<1> HIDE DEF s
<1>4. /\ queue' \in Seq(Outs) /\ Distinct(queue') /\ Members(queue') = Outs
      /\ Len(queue') = Len(s) /\ Len(s) \in Nat
      /\ \A i \in 1..Len(s) : /\ (Len(s) - i) + 1 \in 1..Len(s)
                              /\ queue'[i] = s[(Len(s) - i) + 1]
  BY <1>1, <1>3, ReverseFacts
<1>5. queue' \in Seq(All)  BY <1>4, ComponentFacts
<1>6. "router" \in Life!Managers  BY DEF Life!Managers, Life!Router
<1>7. /\ Blamed' /\ failures' \in Seq(All \cup {"router"})
      /\ errors' \in [Life!Managers -> All \cup {"router", "none"}]
  <2>1. CASE UNCHANGED <<failures, errors>>  BY <2>1 DEF Blamed, FirstOf, LifeTypes
  <2>2. CASE ~ UNCHANGED <<failures, errors>>
    <3>1. errors["router"] = "none"  BY <1>1 DEF Closing
    <3>2. errors' = [errors EXCEPT !["router"] = IF errors["router"] = "none" THEN "router"
                                                 ELSE errors["router"]]
      BY <1>1, <2>2, <3>1
    <3> QED  BY <1>1, <1>6, <2>2, <3>2, BlameStays
  <2> QED  BY <2>1, <2>2
<1>8. LifeTypes' /\ Walked'  BY <1>1, <1>4, <1>5, <1>7 DEF LifeTypes, Walked, ManagedBy
<1>9. DepsBehind'
  <2>1. ASSUME NEW i \in 1..Len(s), NEW j \in 1..Len(s), queue'[j] \in needs[queue'[i]]
        PROVE  i < j
    <3>1. (Len(s) - j) + 1 < (Len(s) - i) + 1  BY <1>3, <1>4, <2>1
    <3> QED  BY <1>4, <3>1
  <2>2. \A o \in Outs : needs[o] \subseteq Outs  BY <1>2
  <2> QED  BY <1>1, <1>4, <2>1, <2>2 DEF DepsBehind
<1>10. Unclosed' = Unclosed  BY <1>1, <1>4, NoMembers DEF Unclosed
<1>11. errors'["providers"] = "none"
  BY <1>1, <1>6 DEF Closing, LifeTypes, Life!Managers, Life!Router
<1>12. Closing'  BY <1>1, <1>9, <1>10, <1>11 DEF Closing
<1>13. Sorted' /\ Starting' /\ Layered' /\ Unharmed' /\ Stopped'
  BY <1>1 DEF Sorted, Starting, Layered, Unharmed, Stopped
<1> QED  BY <1>7, <1>8, <1>12, <1>13

(* shutdown() picks, of four results, the first that is an error.          *)
LEMMA ShutdownPicks ==
  ASSUME LifeTypes
  PROVE  Life!ShutdownResult = IF FirstOf = "none" THEN "ok" ELSE FirstOf
<1> DEFINE e == <<"inbounds", "router", "outbounds", "providers">>
           failed == {i \in 1..4 : errors[e[i]] # "none"}
<1>1. Life!ShutdownResult = IF failed = {} THEN "ok" ELSE errors[e[Life!Min(failed)]]
  BY DEF Life!ShutdownResult, Life!Router
<1>2. e[1] = "inbounds" /\ e[2] = "router" /\ e[3] = "outbounds" /\ e[4] = "providers"
  OBVIOUS
<1> HIDE DEF e
<1>3. ASSUME NEW n \in failed, \A i \in failed : n <= i PROVE Life!Min(failed) = n
  <2>1. /\ Life!Min(failed) \in failed /\ \A i \in failed : Life!Min(failed) <= i
    BY <1>3 DEF Life!Min
  <2>2. Life!Min(failed) \in 1..4  BY <2>1
  <2> QED  BY <1>3, <2>1, <2>2
<1>4. CASE errors["inbounds"] # "none"
  <2>1. 1 \in failed /\ \A i \in failed : 1 <= i  BY <1>2, <1>4
  <2> QED  BY <1>1, <1>2, <1>3, <1>4, <2>1 DEF FirstOf
<1>5. CASE errors["inbounds"] = "none" /\ errors["router"] # "none"
  <2>1. 2 \in failed /\ \A i \in failed : 2 <= i  BY <1>2, <1>5
  <2> QED  BY <1>1, <1>2, <1>3, <1>5, <2>1 DEF FirstOf
<1>6. CASE /\ errors["inbounds"] = "none" /\ errors["router"] = "none"
           /\ errors["outbounds"] # "none"
  <2>1. 3 \in failed /\ \A i \in failed : 3 <= i  BY <1>2, <1>6
  <2> QED  BY <1>1, <1>2, <1>3, <1>6, <2>1 DEF FirstOf
<1>7. CASE /\ errors["inbounds"] = "none" /\ errors["router"] = "none"
           /\ errors["outbounds"] = "none" /\ errors["providers"] # "none"
  <2>1. 4 \in failed /\ \A i \in failed : 4 <= i  BY <1>2, <1>7
  <2> QED  BY <1>1, <1>2, <1>3, <1>7, <2>1 DEF FirstOf
<1>8. CASE /\ errors["inbounds"] = "none" /\ errors["router"] = "none"
           /\ errors["outbounds"] = "none" /\ errors["providers"] = "none"
  <2>1. failed = {}  BY <1>2, <1>8
  <2> QED  BY <1>1, <1>8, <2>1 DEF FirstOf
<1> QED  BY <1>4, <1>5, <1>6, <1>7, <1>8

(* The providers, and the end of shutdown().                               *)
LEMMA CloseNextInv ==
  ASSUME LifeInv, Life!CloseProviders \/ Life!ShutdownReturns
  PROVE  LifeInv'
<1> USE DEF LifeInv
<1>1. UNCHANGED <<needs, stage, reached, closes, services, failures, errors, startErr>>
      /\ phase = "closing" /\ queue = << >>
  BY DEF Life!CloseProviders, Life!ShutdownReturns
<1>2. Layered' /\ Blamed'  BY <1>1 DEF Layered, Blamed, FirstOf
<1>3. CASE Life!CloseProviders
  <2>1. /\ manager = "outbounds" /\ manager' = "providers" /\ phase' = phase
        /\ queue' = Life!Reverse(Providers)
    BY <1>3 DEF Life!CloseProviders
  <2>2. queue' \in Seq(All) /\ Distinct(queue') /\ Members(queue') = Provs
    BY <2>1, ComponentFacts, ReverseFacts DEF Provs
  <2>3. LifeTypes' /\ Walked'  BY <1>1, <2>1, <2>2 DEF LifeTypes, Walked, ManagedBy
  <2>4. Unclosed' = Unclosed  BY <1>1, <2>1, <2>2, NoMembers DEF Unclosed
  <2>5. Closing'  BY <1>1, <2>1, <2>4 DEF Closing
  <2>6. Sorted' /\ Starting' /\ Unharmed' /\ Stopped'
    BY <1>1, <2>1 DEF Sorted, Starting, Unharmed, Stopped
  <2> QED  BY <1>2, <2>3, <2>5, <2>6
<1>4. CASE Life!ShutdownReturns
  <2>1. /\ manager = "providers" /\ manager' = manager /\ queue' = queue /\ phase' = "stopped"
        /\ ~startErr => answer' = Life!ShutdownResult
    BY <1>4 DEF Life!ShutdownReturns
  <2>2. LifeTypes' /\ Walked'  BY <1>1, <2>1 DEF LifeTypes, Walked, ManagedBy
  <2>3. Unclosed = {}  BY <1>1, <2>1, NoMembers DEF Unclosed
  <2>4. services' = "closed" /\ \A c \in All : closes'[c] = 1
    BY <1>1, <2>1, <2>3 DEF Closing
  <2>5. ~startErr => answer' = IF failures = << >> THEN "ok" ELSE Head(failures)
    <3>1. failures # << >> => Head(failures) \in All \cup {"router"}  BY DEF LifeTypes
    <3>2. failures # << >> => Head(failures) # "none"  BY <3>1, ComponentFacts
    <3> QED  BY <2>1, <3>2, ShutdownPicks DEF Blamed
  <2>6. Stopped'  BY <1>1, <2>4, <2>5 DEF Stopped
  <2>7. Sorted' /\ Starting' /\ Unharmed' /\ Closing'
    BY <1>1, <2>1 DEF Sorted, Starting, Unharmed, Closing
  <2> QED  BY <1>2, <2>2, <2>6, <2>7
<1> QED  BY <1>3, <1>4

(* Every step of the engine keeps the invariant.                           *)
LEMMA LifeNextInv == LifeInv /\ [Life!Next]_lifeVars => LifeInv'
<1> SUFFICES ASSUME LifeInv, [Life!Next]_lifeVars PROVE LifeInv'  OBVIOUS
<1>1. CASE UNCHANGED lifeVars
  BY <1>1 DEF lifeVars, LifeInv, LifeTypes, Walked, ManagedBy, Sorted, Starting, Pending,
              DepsAhead, Layered, Unharmed, Closing, Unclosed, DepsBehind, Blamed, FirstOf,
              Stopped
<1>2. CASE Life!Over
  <2>1. UNCHANGED lifeVars  BY <1>2 DEF Life!Over, Life!vars, lifeVars
  <2> QED  BY <1>1, <2>1
<1>3. CASE Life!EngineStep
  BY <1>3, StartComponentInv, StartNextInv, ShutdownBeginInv, CloseComponentInv,
     CloseRouterInv, CloseNextInv
  DEF Life!EngineStep
<1>4. CASE Life!NewOk \/ Life!NewErr \/ Life!ShutdownBegin
  BY <1>4, StartNextInv, ShutdownBeginInv
<1> QED  BY <1>1, <1>2, <1>3, <1>4 DEF Life!Next

(* The run plays ordered(), too; the engine then does not move.            *)
LEMMA LifeInvHolds == MCSpec => []LifeInv
<1>1. MCInit => LifeInv  BY LifeInitInv DEF MCInit, IdleEngine
<1>2. [MCNext]_<<part, vars, lifeVars>> => [Life!Next]_lifeVars  BY DEF MCNext
<1> QED  BY <1>1, <1>2, LifeNextInv, PTL DEF MCSpec

(* An inbound serves only while the rule-set services, every outbound and  *)
(* every provider are up, and an outbound runs only while those it dials   *)
(* through run, however start() and shutdown() go.                         *)
THEOREM RunsAlwaysBacked == MCSpec => []RunsBacked
<1>1. LifeInv => RunsBacked
  <2> SUFFICES ASSUME LifeInv PROVE RunsBacked  OBVIOUS
  <2> USE DEF LifeInv
  <2>1. /\ Provs \subseteq All /\ Outs \subseteq All /\ Ins \subseteq All
        /\ \A o \in Outs : needs[o] \subseteq Outs
    BY ComponentFacts DEF LifeTypes
  <2> DEFINE Up(c) == reached[c] >= 2 /\ closes[c] = 0
  <2>2. ASSUME NEW i \in Ins, Up(i)
        PROVE  services = "running" /\ \A c \in Outs \cup Provs : Up(c)
    <3>1. \A c \in Outs \cup Provs : reached[c] >= 2  BY <2>2 DEF Layered
    <3>2. CASE phase = "closing"
      <4>1. i \in Unclosed  BY <2>1, <2>2, <3>2 DEF Closing
      <4>2. manager = "inbounds"
        BY <4>1, ComponentFacts DEF Unclosed, Walked, ManagedBy, LifeTypes
      <4>3. services = "running" /\ \A c \in Outs \cup Provs : closes[c] = 0
        BY <2>1, <3>2, <4>2 DEF Closing, Unclosed
      <4> QED  BY <3>1, <4>3
    <3>3. CASE phase # "closing"
      <4>1. phase # "stopped"  BY <2>1, <2>2 DEF Stopped
      <4>2. phase \notin {"new", "built", "rejected"}
        <5> SUFFICES ASSUME phase \in {"new", "built", "rejected"} PROVE FALSE  OBVIOUS
        <5>1. reached[i] = 0  BY <2>1 DEF Unharmed
        <5> QED  BY <2>2, <5>1
      <4>3. phase \in {"starting", "started"}  BY <3>3, <4>1, <4>2 DEF LifeTypes
      <4> QED  BY <2>1, <3>1, <4>3 DEF Unharmed
    <3> QED  BY <3>2, <3>3
  <2>3. ASSUME NEW o \in Outs, Up(o), NEW d \in needs[o] PROVE Up(d)
    <3>1. d \in Outs /\ reached[d] >= 2  BY <2>1, <2>3 DEF Layered
    <3>2. CASE phase = "closing"
      <4>1. o \in Unclosed  BY <2>1, <2>3, <3>2 DEF Closing
      <4>2. manager # "providers"
        BY <4>1, ComponentFacts DEF Unclosed, Walked, ManagedBy
      <4>3. d \in Unclosed
        <5>1. CASE manager = "inbounds"  BY <3>1, <5>1 DEF Unclosed
        <5>2. CASE manager = "outbounds"
          <6>1. o \in Members(queue)  BY <4>1, <5>2, ComponentFacts DEF Unclosed
          <6> QED  BY <3>2, <5>2, <6>1 DEF Closing, DepsBehind, Unclosed
        <5> QED  BY <4>2, <5>1, <5>2 DEF LifeTypes
      <4> QED  BY <2>1, <3>1, <3>2, <4>3 DEF Closing
    <3>3. CASE phase # "closing"
      <4>1. phase # "stopped"  BY <2>1, <2>3 DEF Stopped
      <4> QED  BY <2>1, <3>1, <3>3, <4>1 DEF Unharmed
    <3> QED  BY <3>2, <3>3
  <2> QED
    BY <2>2, <2>3, LifeNames
    DEF RunsBacked, Life!RunsBacked, Life!ServingIsBacked, Life!DetourIsBacked, Life!Running,
        Life!StartStage, Provs, Outs, Ins
<1> QED  BY LifeInvHolds, <1>1, PTL

(* However start() and shutdown() go, in the end each component was closed *)
(* just once, and shutdown() reports the failure that happened first.      *)
THEOREM AlwaysClosesRight == MCSpec => []ClosesRight
<1>1. LifeInv => ClosesRight
  <2> SUFFICES ASSUME LifeInv PROVE ClosesRight  OBVIOUS
  <2> USE DEF LifeInv
  <2>1. ASSUME NEW c \in All PROVE closes[c] <= 1
    <3>1. CASE phase = "closing"  BY <3>1 DEF Closing
    <3>2. CASE phase = "stopped"  BY <3>2 DEF Stopped
    <3>3. CASE phase \notin {"closing", "stopped"}  BY <3>3 DEF Unharmed
    <3> QED  BY <3>1, <3>2, <3>3
  <2> QED
    BY <2>1, LifeNames
    DEF Stopped, ClosesRight, Life!ClosesRight, Life!ClosedOnce, Life!FirstFailureReported
<1> QED  BY LifeInvHolds, <1>1, PTL
=============================================================================
