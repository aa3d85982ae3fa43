--------------------------- MODULE RuleSetRemote ----------------------------
(***************************************************************************)
(* A remote rule-set: the first download while the engine is built, and    *)
(* update_remote_rule_set, which asks again after every update_interval    *)
(* with the ETag of the last accepted answer.  The server changes what it  *)
(* publishes at any time, also between answering and the arrival of the    *)
(* answer; it may roll back, send no ETag, ignore If-None-Match, publish   *)
(* something that does not decode, or fail.                                *)
(***************************************************************************)
EXTENDS Naturals

CONSTANT MaxVersion     \* versions the server may publish

Versions == 1..MaxVersion
None == 0

VARIABLES
    server,     \* version the URL serves now
    held,       \* valid versions the server has served so far
    valid,      \* versions that decode_and_compile_rule_set accepts
    tagged,     \* versions the server sends with an ETag (the ETag names the version)
    pc,         \* "sleep" | "fetch" | "stopped" | "failed"
    built,      \* prepare_rule_set has returned
    etag,       \* Option<String>
    reply,      \* answer on its way: [kind, version]
    snapshot,
    cancelled

vars == <<server, held, valid, tagged, pc, built, etag, reply, snapshot, cancelled>>

Replies == [kind : {"none", "not modified", "modified"}, version : Versions \cup {None}]
NoReply == [kind |-> "none", version |-> None]

EtagOf(v) == IF v \in tagged THEN v ELSE None

(* prepare_rule_set: the first request carries no ETag. *)
Init ==
    /\ valid \in SUBSET Versions
    /\ tagged \in SUBSET Versions
    /\ server \in Versions
    /\ held = valid \cap {server}
    /\ pc = "fetch"
    /\ built = FALSE
    /\ etag = None
    /\ reply = NoReply
    /\ snapshot = None
    /\ cancelled = FALSE
-----------------------------------------------------------------------------
(* The server (external). *)
Publish(v) ==
    /\ v # server
    /\ server' = v
    /\ held' = held \cup (valid \cap {v})
    /\ UNCHANGED <<valid, tagged, pc, built, etag, reply, snapshot, cancelled>>

AnswerModified ==
    /\ pc = "fetch"
    /\ reply = NoReply
    /\ reply' = [kind |-> "modified", version |-> server]
    /\ UNCHANGED <<server, held, valid, tagged, pc, built, etag, snapshot, cancelled>>

AnswerNotModified ==
    /\ pc = "fetch"
    /\ reply = NoReply
    /\ etag # None
    /\ etag = EtagOf(server)
    /\ reply' = [kind |-> "not modified", version |-> server]
    /\ UNCHANGED <<server, held, valid, tagged, pc, built, etag, snapshot, cancelled>>
-----------------------------------------------------------------------------
(* The response of the first download: it has to decode. *)
FirstDownload ==
    /\ pc = "fetch"
    /\ ~built
    /\ reply.kind = "modified"
    /\ reply' = NoReply
    /\ \/ /\ reply.version \in valid
          /\ snapshot' = reply.version
          /\ etag' = EtagOf(reply.version)
          /\ built' = TRUE
          /\ pc' = "sleep"
       \/ /\ reply.version \notin valid
          /\ pc' = "failed"
          /\ UNCHANGED <<snapshot, etag, built>>
    /\ UNCHANGED <<server, held, valid, tagged, cancelled>>

FirstDownloadFails ==
    /\ pc = "fetch"
    /\ ~built
    /\ pc' = "failed"
    /\ reply' = NoReply
    /\ UNCHANGED <<server, held, valid, tagged, built, etag, snapshot, cancelled>>

(* update_remote_rule_set: sleep(update_interval), then fetch(url, etag). *)
Fetch ==
    /\ pc = "sleep"
    /\ pc' = "fetch"
    /\ UNCHANGED <<server, held, valid, tagged, built, etag, reply, snapshot, cancelled>>

NotModified ==
    /\ pc = "fetch"
    /\ built
    /\ reply.kind = "not modified"
    /\ reply' = NoReply
    /\ pc' = "sleep"
    /\ UNCHANGED <<server, held, valid, tagged, built, etag, snapshot, cancelled>>

(* Mutants: the ETag is taken from an update that is then refused; an      *)
(* invalid update is installed.                                            *)
ModifiedTagFirst ==
    /\ pc = "fetch"
    /\ built
    /\ reply.kind = "modified"
    /\ reply' = NoReply
    /\ pc' = "sleep"
    /\ etag' = EtagOf(reply.version)
    /\ snapshot' = IF reply.version \in valid THEN reply.version ELSE snapshot
    /\ UNCHANGED <<server, held, valid, tagged, built, cancelled>>

ModifiedUnchecked ==
    /\ pc = "fetch"
    /\ built
    /\ reply.kind = "modified"
    /\ reply' = NoReply
    /\ pc' = "sleep"
    /\ etag' = EtagOf(reply.version)
    /\ snapshot' = reply.version
    /\ UNCHANGED <<server, held, valid, tagged, built, cancelled>>

(* The snapshot is replaced and the ETag advanced together, or neither. *)
Modified ==
    /\ pc = "fetch"
    /\ built
    /\ reply.kind = "modified"
    /\ reply' = NoReply
    /\ pc' = "sleep"
    /\ \/ /\ reply.version \in valid
          /\ snapshot' = reply.version
          /\ etag' = EtagOf(reply.version)
       \/ /\ reply.version \notin valid
          /\ UNCHANGED <<snapshot, etag>>
    /\ UNCHANGED <<server, held, valid, tagged, built, cancelled>>

(* Mutant: the first failed download ends the updater. *)
FetchFailsForGood ==
    /\ pc = "fetch"
    /\ built
    /\ reply' = NoReply
    /\ pc' = "failed"
    /\ UNCHANGED <<server, held, valid, tagged, built, etag, snapshot, cancelled>>

(* A network error, an HTTP error, a redirect loop or the 60 s timeout. *)
FetchFails ==
    /\ pc = "fetch"
    /\ built
    /\ reply' = NoReply
    /\ pc' = "sleep"
    /\ UNCHANGED <<server, held, valid, tagged, built, etag, snapshot, cancelled>>

(* Router::close. *)
Cancel ==
    /\ built
    /\ ~cancelled
    /\ cancelled' = TRUE
    /\ UNCHANGED <<server, held, valid, tagged, pc, built, etag, reply, snapshot>>

(* Mutant: only the sleep can be cancelled. *)
StopAsleep ==
    /\ pc = "sleep"
    /\ built
    /\ cancelled
    /\ pc' = "stopped"
    /\ UNCHANGED <<server, held, valid, tagged, built, etag, reply, snapshot, cancelled>>

(* Both select!s have a cancelled arm: an unanswered fetch is abandoned. *)
Stop ==
    /\ pc \in {"sleep", "fetch"}
    /\ built
    /\ cancelled
    /\ pc' = "stopped"
    /\ reply' = NoReply
    /\ UNCHANGED <<server, held, valid, tagged, built, etag, snapshot, cancelled>>

Over ==
    /\ pc \in {"stopped", "failed"}
    /\ UNCHANGED vars

Next ==
    \/ \E v \in Versions : Publish(v)
    \/ AnswerModified \/ AnswerNotModified
    \/ FirstDownload \/ FirstDownloadFails
    \/ Fetch \/ NotModified \/ Modified \/ FetchFails
    \/ Cancel \/ Stop
    \/ Over

Spec == Init /\ [][Next]_vars

(* The timer fires; the cancelled arm is ready for good once it is ready.  *)
(* A server that stays up answers some request and its answer arrives:     *)
(* strong fairness, because failures may come in between.                  *)
Fairness ==
    /\ WF_vars(Fetch)
    /\ WF_vars(Stop)
    /\ SF_vars(AnswerModified \/ AnswerNotModified)
    /\ SF_vars(Modified)
    /\ SF_vars(NotModified)

FairSpec == Spec /\ Fairness
-----------------------------------------------------------------------------
(* The variables keep their types.                                         *)
TypeOK ==
    /\ server \in Versions
    /\ held \in SUBSET Versions
    /\ valid \in SUBSET Versions
    /\ tagged \in SUBSET Versions
    /\ pc \in {"sleep", "fetch", "stopped", "failed"}
    /\ built \in BOOLEAN
    /\ etag \in Versions \cup {None}
    /\ reply \in Replies
    /\ snapshot \in Versions \cup {None}
    /\ snapshot = None => built = FALSE
    /\ cancelled \in BOOLEAN

(* "Not modified" means what the updater takes it to mean: the version the *)
(* server compared with is the active snapshot, however the server and the *)
(* validity of its answers moved in between.                               *)
NotModifiedMeansActive ==
    reply.kind = "not modified" => snapshot = reply.version

(* An ETag is only kept with the snapshot it came with: after an invalid   *)
(* update the next request still asks with the ETag of the active one.     *)
EtagNamesSnapshot == etag = None \/ etag = snapshot

(* The promise to the router: the abstract RuleSetSnapshot.                *)
Promise == INSTANCE RuleSetSnapshot WITH active <- snapshot
SnapshotPromise == Promise!Spec

(* A valid version the server keeps publishing becomes active, also after  *)
(* invalid ones and failed downloads.                                      *)
Converges ==
    \A v \in Versions :
        (built /\ v \in valid /\ [](server = v)) ~> (snapshot = v \/ cancelled)

(* Router::close is not held up by a download that never ends.             *)
UpdaterStops == cancelled ~> (pc = "stopped")

(* The updater of a remote rule-set gets where it is going: to the version *)
(* the server keeps, and to its end after close.                           *)
UpdatesSettle == Converges /\ UpdaterStops
=============================================================================
