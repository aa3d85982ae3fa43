----------------------------- MODULE MCRuleSets -----------------------------
(***************************************************************************)
(* The two sources of a rule-set, in two parts that share one run: a file  *)
(* that is watched (RuleSetLocal) and a URL that is asked again            *)
(* (RuleSetRemote).  A behaviour plays one part; the other has failed      *)
(* before it began.                                                        *)
(***************************************************************************)
EXTENDS RuleSetLocal

CONSTANT MaxPublished   \* MaxVersion of the remote rule-set

ASSUME MaxPublishedAssumption == MaxPublished \in Nat \ {0}

VARIABLES part,
    server, held, accepted, tagged, at, built, etag, reply, active, closed

Remote == INSTANCE RuleSetRemote
            WITH MaxVersion <- MaxPublished,
                 valid <- accepted, pc <- at, snapshot <- active, cancelled <- closed

remoteVars == <<server, held, accepted, tagged, at, built, etag, reply, active, closed>>

\* The state of a part that is not played: nothing fair is enabled in it.
IdleLocal ==
    /\ valid = {} /\ file = None /\ last = 1 /\ pc = "failed" /\ content = None
    /\ fingerprint = None /\ snapshot = None /\ cancelled = FALSE /\ missed = NothingMissed

IdleRemote ==
    /\ server = 1 /\ held = {} /\ accepted = {} /\ tagged = {} /\ at = "failed" /\ built = FALSE
    /\ etag = None /\ reply = Remote!NoReply /\ active = None /\ closed = FALSE

MCInit ==
    \/ part = "local" /\ Init /\ IdleRemote
    \/ part = "remote" /\ IdleLocal /\ Remote!Init

MCNext ==
    \/ part = "local" /\ Next /\ UNCHANGED <<part, remoteVars>>
    \/ part = "remote" /\ Remote!Next /\ UNCHANGED <<part, vars>>

MCSpec ==
    /\ MCInit
    /\ [][MCNext]_<<part, vars, remoteVars>>
    /\ Fairness
    /\ Remote!Fairness
-----------------------------------------------------------------------------
(* update_remote_rule_set keeps its snapshot on a 304: it is the version   *)
(* the server compared with (see RuleSetRemote).                           *)
NotModifiedMeansActive == Remote!NotModifiedMeansActive

(* What the router reads of a remote rule-set was published and decodes:   *)
(* RuleSetSnapshot again, whatever answers, rollbacks and failures come.   *)
RemoteSnapshotPromise == Remote!SnapshotPromise

(* Both sources get where they are going: watch_local_rule_set to a valid  *)
(* version that stays in the file, update_remote_rule_set to one the       *)
(* server keeps, and to its end after close().                             *)
UpdatesArrive == Converges /\ Remote!UpdatesSettle
=============================================================================
