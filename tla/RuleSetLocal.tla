---------------------------- MODULE RuleSetLocal ----------------------------
(***************************************************************************)
(* A local rule-set: prepare_rule_set loads the file while the engine is   *)
(* built, watch_local_rule_set polls its fingerprint afterwards and swaps  *)
(* the compiled snapshot, and the outside world edits, truncates, deletes  *)
(* and recreates the file between any two system calls.                    *)
(*                                                                         *)
(* Every change of the file gets a new version, and the fingerprint        *)
(* (length, times, device, inode) tells versions apart.  A half-written    *)
(* file is a version of its own that does not decode.                      *)
(***************************************************************************)
EXTENDS Naturals

CONSTANT MaxVersion     \* how many contents the file gets in a run

ASSUME MaxVersionAssumption == MaxVersion \in Nat \ {0}

Versions == 1..MaxVersion
None == 0

VARIABLES
    file,       \* version at the path, None when there is no file
    last,       \* newest version written so far
    valid,      \* versions that decode_and_compile_rule_set accepts
    pc,         \* "load" | "stamp" | "ready" | "sleep" | "inspect" | "read" | "apply" | "stopped" | "failed"
    content,    \* version whose bytes the last read returned
    fingerprint,
    snapshot,   \* CompiledRuleSet.rules
    cancelled,  \* Router.service_cancel
    missed      \* history: [cause, version] of a write the watcher has overlooked

vars == <<file, last, valid, pc, content, fingerprint, snapshot, cancelled, missed>>

NothingMissed == [cause |-> "none", version |-> None]

Init ==
    /\ valid \in SUBSET Versions
    /\ file \in {None, 1}
    /\ last = 1
    /\ pc = "load"
    /\ content = None
    /\ fingerprint = None
    /\ snapshot = None
    /\ cancelled = FALSE
    /\ missed = NothingMissed
-----------------------------------------------------------------------------
(* The outside world. *)
Write ==
    /\ last < MaxVersion
    /\ last' = last + 1
    /\ file' = last + 1
    /\ UNCHANGED <<valid, pc, content, fingerprint, snapshot, cancelled, missed>>

Delete ==
    /\ file # None
    /\ file' = None
    /\ UNCHANGED <<last, valid, pc, content, fingerprint, snapshot, cancelled, missed>>
-----------------------------------------------------------------------------
(* prepare_rule_set: read, decode and compile, and only then fingerprint.  *)
Load ==
    /\ pc = "load"
    /\ file \in valid
    /\ content' = file
    /\ pc' = "stamp"
    /\ UNCHANGED <<file, last, valid, fingerprint, snapshot, cancelled, missed>>

Stamp ==
    /\ pc = "stamp"
    /\ file # None
    /\ fingerprint' = file
    /\ snapshot' = content
    /\ missed' = IF file = content THEN NothingMissed
                 ELSE [cause |-> "load", version |-> file]
    /\ pc' = "ready"
    /\ UNCHANGED <<file, last, valid, content, cancelled>>

(* A missing or invalid file, or a failing system call, is an error of     *)
(* Router::build: there is no engine.                                      *)
PrepareFails ==
    /\ pc \in {"load", "stamp"}
    /\ pc' = "failed"
    /\ UNCHANGED <<file, last, valid, content, fingerprint, snapshot, cancelled, missed>>

(* Router::start spawns the watcher. *)
StartWatcher ==
    /\ pc = "ready"
    /\ pc' = "sleep"
    /\ UNCHANGED <<file, last, valid, content, fingerprint, snapshot, cancelled, missed>>

(* Router::close, also after an engine that never started. *)
Cancel ==
    /\ pc \notin {"load", "stamp", "failed"}
    /\ ~cancelled
    /\ cancelled' = TRUE
    /\ pc' = IF pc = "ready" THEN "stopped" ELSE pc
    /\ UNCHANGED <<file, last, valid, content, fingerprint, snapshot, missed>>
-----------------------------------------------------------------------------
(* watch_local_rule_set: the two arms of the select!, ...                  *)
Stop ==
    /\ pc = "sleep"
    /\ cancelled
    /\ pc' = "stopped"
    /\ UNCHANGED <<file, last, valid, content, fingerprint, snapshot, cancelled, missed>>

Tick ==
    /\ pc = "sleep"
    /\ pc' = "inspect"
    /\ UNCHANGED <<file, last, valid, content, fingerprint, snapshot, cancelled, missed>>

(* ... the fingerprint (no file, or a failing stat: try again next tick),  *)
InspectFails ==
    /\ pc = "inspect"
    /\ pc' = "sleep"
    /\ UNCHANGED <<file, last, valid, content, fingerprint, snapshot, cancelled, missed>>

InspectSame ==
    /\ pc = "inspect"
    /\ file # None
    /\ file = fingerprint
    /\ pc' = "sleep"
    /\ UNCHANGED <<file, last, valid, content, fingerprint, snapshot, cancelled, missed>>

(* ... which is remembered before the content has been read,               *)
InspectChanged ==
    /\ pc = "inspect"
    /\ file # None
    /\ file # fingerprint
    /\ fingerprint' = file
    /\ pc' = "read"
    /\ UNCHANGED <<file, last, valid, content, snapshot, cancelled, missed>>

(* ... and the content.                                                    *)
Read ==
    /\ pc = "read"
    /\ file # None
    /\ content' = file
    /\ pc' = "apply"
    /\ UNCHANGED <<file, last, valid, fingerprint, snapshot, cancelled, missed>>

(* The read fails: the file is gone again, or the system call failed.      *)
ReadFails ==
    /\ pc = "read"
    /\ missed' = IF file = fingerprint
                 THEN [cause |-> "read", version |-> file]
                 ELSE missed
    /\ pc' = "sleep"
    /\ UNCHANGED <<file, last, valid, content, fingerprint, snapshot, cancelled>>

(* Mutants: an invalid update is installed; an invalid update empties the  *)
(* rule-set; the fingerprint is taken after the read.                      *)
ApplyUnchecked ==
    /\ pc = "apply"
    /\ snapshot' = content
    /\ pc' = "sleep"
    /\ UNCHANGED <<file, last, valid, content, fingerprint, cancelled, missed>>

ApplyOrEmpty ==
    /\ pc = "apply"
    /\ snapshot' = IF content \in valid THEN content ELSE None
    /\ pc' = "sleep"
    /\ UNCHANGED <<file, last, valid, content, fingerprint, cancelled, missed>>

ApplyThenStamp ==
    /\ pc = "apply"
    /\ snapshot' = IF content \in valid THEN content ELSE snapshot
    /\ fingerprint' = file
    /\ pc' = "sleep"
    /\ UNCHANGED <<file, last, valid, content, cancelled, missed>>

(* decode_and_compile_rule_set, and replace if it succeeds. *)
Apply ==
    /\ pc = "apply"
    /\ snapshot' = IF content \in valid THEN content ELSE snapshot
    /\ pc' = "sleep"
    /\ UNCHANGED <<file, last, valid, content, fingerprint, cancelled, missed>>

Over ==
    /\ pc \in {"stopped", "failed"}
    /\ UNCHANGED vars

Next ==
    \/ Write \/ Delete
    \/ Load \/ Stamp \/ PrepareFails \/ StartWatcher \/ Cancel
    \/ Stop \/ Tick \/ InspectFails \/ InspectSame \/ InspectChanged
    \/ Read \/ ReadFails \/ Apply
    \/ Over

Spec == Init /\ [][Next]_vars

(* The interval keeps ticking, system calls return and do not fail for     *)
(* ever, and select! picks among its ready arms at random.                 *)
Fairness ==
    /\ WF_vars(Tick)
    /\ SF_vars(Stop)
    /\ WF_vars(InspectFails \/ InspectSame \/ InspectChanged)
    /\ SF_vars(InspectChanged)
    /\ WF_vars(Read \/ ReadFails)
    /\ WF_vars(Apply)

FairSpec == Spec /\ Fairness
-----------------------------------------------------------------------------
(* The variables keep their types.                                         *)
TypeOK ==
    /\ file \in Versions \cup {None}
    /\ last \in Versions
    /\ valid \in SUBSET Versions
    /\ pc \in {"load", "stamp", "ready", "sleep", "inspect", "read", "apply",
               "stopped", "failed"}
    /\ content \in Versions \cup {None}
    /\ fingerprint \in Versions \cup {None}
    /\ snapshot \in Versions \cup {None}
    /\ cancelled \in BOOLEAN
    /\ pc \notin {"load", "stamp", "failed"} => fingerprint # None /\ snapshot # None
    /\ missed \in [cause : {"none", "load", "read"}, version : Versions \cup {None}]

(* The file holds a valid version other than the active one. *)
Stale == file \in valid /\ snapshot # file

(* At rest, a stale snapshot is one the next tick will notice, unless this *)
(* very version was written during the initial load or its read failed.    *)
StaleIsNoticed ==
    pc = "sleep" /\ Stale => fingerprint # file \/ missed.version = file

(* The promise to the router: RuleSetSnapshot, with the valid versions     *)
(* written so far as the versions held.                                    *)
Promise == INSTANCE RuleSetSnapshot WITH
    held <- {v \in valid : v <= last},
    active <- snapshot
SnapshotPromise == Promise!Spec

(* Reloading never goes back to an older version of the file.              *)
SnapshotAdvances == [][snapshot' >= snapshot]_snapshot

(* CompiledRuleSet as the router sees it: the promise, and never an older  *)
(* version again.                                                          *)
SnapshotIsSafe == SnapshotPromise /\ SnapshotAdvances

(* A valid version that stays in place becomes the active one.             *)
Converges ==
    \A v \in Versions :
        (pc = "sleep" /\ file = v /\ v \in valid /\ missed.version # v)
            ~> (snapshot = v \/ file # v \/ missed.version = v \/ cancelled)
-----------------------------------------------------------------------------
(* README.md, Rule-sets: "Local files are watched while the engine is      *)
(* running; a changed file is parsed and compiled before its active        *)
(* snapshot is replaced."  Read as a promise about changes: a change that  *)
(* lands while the engine is being built is picked up by the watcher.      *)
ChangeDuringLoadIsNoticed ==
    pc = "sleep" /\ Stale /\ missed.cause # "read" => fingerprint # file
=============================================================================
