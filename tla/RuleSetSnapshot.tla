-------------------------- MODULE RuleSetSnapshot ---------------------------
(***************************************************************************)
(* What a rule-set promises to the router, wherever its source lives: the  *)
(* active snapshot is always a version that the source has really held and *)
(* that decodes and compiles; it changes in one step, and once there is    *)
(* one there always is one.                                                *)
(***************************************************************************)
EXTENDS Naturals

CONSTANT Versions       \* identities of the contents the source may hold, from 1 on
None == 0               \* no snapshot yet: the engine is not built

VARIABLES held,         \* valid versions the source has held so far
          active        \* the version behind the read lock

Init == held \in SUBSET Versions /\ active = None

Publish(v) == held' = held \cup {v} /\ UNCHANGED active
Install(v) == v \in held /\ active' = v /\ UNCHANGED held

Next == \E v \in Versions : Publish(v) \/ Install(v)

Spec == Init /\ [][Next]_<<held, active>>
=============================================================================
