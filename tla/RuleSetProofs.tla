---------------------------- MODULE RuleSetProofs ----------------------------
(***************************************************************************)
(* For any number of versions: the watcher of a local rule-set keeps the   *)
(* promise RuleSetSnapshot makes to the router, never goes back to an      *)
(* older version, and at rest overlooks no version but the two kinds its   *)
(* history variable records.  The updater of a remote rule-set keeps the   *)
(* same promise whatever the server does, and "not modified" always speaks *)
(* of its active snapshot.                                                 *)
(***************************************************************************)
EXTENDS MCRuleSets, TLAPS

(* The clock of the argument: the file is gone or newest, and nothing the  *)
(* program remembers is newer than that.                                   *)
Clock ==
    /\ file \in {None, last}
    /\ content <= last
    /\ fingerprint <= last
    /\ snapshot <= last

(* What each program point knows about the version it has in hand.         *)
InHand ==
    /\ pc \in {"load", "stamp", "failed"} => snapshot = None
    /\ pc = "stamp" => content \in valid
    /\ pc = "apply" => content # None /\ fingerprint <= content /\ snapshot <= content

(* StaleIsNoticed wherever the watcher is not in the middle of a reload.   *)
Noticed ==
    pc \in {"ready", "sleep", "inspect"} /\ Stale =>
        fingerprint # file \/ missed.version = file

(* The active snapshot decodes and was in the file.                        *)
SnapshotHeld == snapshot = None \/ snapshot \in valid

(* The inductive invariant.                                                *)
IInv == TypeOK /\ Clock /\ InHand /\ Noticed /\ SnapshotHeld

LEMMA InitIInv == Init => IInv
<1> SUFFICES ASSUME Init PROVE IInv  OBVIOUS
<1> USE MaxVersionAssumption
<1>1. 1 \in Versions  BY DEF Versions
<1>2. missed \in [cause : {"none", "load", "read"}, version : Versions \cup {None}]
  BY DEF Init, NothingMissed
<1>3. TypeOK  BY <1>1, <1>2 DEF Init, TypeOK
<1> QED
  BY <1>3 DEF Init, IInv, Clock, InHand, Noticed, SnapshotHeld, None, Versions

LEMMA NextIInv == IInv /\ [Next]_vars => IInv'
<1> SUFFICES ASSUME IInv, [Next]_vars PROVE IInv'  OBVIOUS
<1> USE MaxVersionAssumption
    DEF IInv, TypeOK, Clock, InHand, Noticed, SnapshotHeld, Stale, None, Versions
<1>1. CASE Write  BY <1>1 DEF Write
<1>2. CASE Delete  BY <1>2 DEF Delete
<1>3. CASE Load  BY <1>3 DEF Load
<1>4. CASE Stamp
  <2>1. missed' \in [cause : {"none", "load", "read"}, version : Versions \cup {None}]
    BY <1>4 DEF Stamp, NothingMissed
  <2>2. file # content => missed'.version = file  BY <1>4 DEF Stamp
  <2> QED  BY <1>4, <2>1, <2>2 DEF Stamp
<1>5. CASE PrepareFails  BY <1>5 DEF PrepareFails
<1>6. CASE StartWatcher  BY <1>6 DEF StartWatcher
<1>7. CASE Cancel  BY <1>7 DEF Cancel
<1>8. CASE Stop  BY <1>8 DEF Stop
<1>9. CASE Tick  BY <1>9 DEF Tick
<1>10. CASE InspectFails  BY <1>10 DEF InspectFails
<1>11. CASE InspectSame  BY <1>11 DEF InspectSame
<1>12. CASE InspectChanged  BY <1>12 DEF InspectChanged
<1>13. CASE Read  BY <1>13 DEF Read
<1>14. CASE ReadFails
  <2>1. missed' \in [cause : {"none", "load", "read"}, version : Versions \cup {None}]
    BY <1>14 DEF ReadFails
  <2>2. file = fingerprint => missed'.version = file  BY <1>14 DEF ReadFails
  <2> QED  BY <1>14, <2>1, <2>2 DEF ReadFails
<1>15. CASE Apply  BY <1>15 DEF Apply
<1>16. CASE Over \/ UNCHANGED vars  BY <1>16 DEF Over, vars
<1> QED
  BY <1>1, <1>2, <1>3, <1>4, <1>5, <1>6, <1>7, <1>8, <1>9, <1>10, <1>11,
     <1>12, <1>13, <1>14, <1>15, <1>16 DEF Next
-----------------------------------------------------------------------------
(* The inductive invariant holds of every behaviour of a local rule-set.   *)
LEMMA IInvHolds == Spec => []IInv
  BY InitIInv, NextIInv, PTL DEF Spec

(* At rest, watch_local_rule_set will notice every valid version it has    *)
(* not loaded, but for a write during the load and a failed read.          *)
THEOREM StaleAlwaysNoticed == Spec => []StaleIsNoticed
<1>1. IInv => StaleIsNoticed  BY DEF IInv, Noticed, StaleIsNoticed
<1> QED  BY IInvHolds, <1>1, PTL

(* state.replace never puts back an older version of the file.             *)
THEOREM SnapshotNeverGoesBack == Spec => SnapshotAdvances
<1>1. IInv /\ [Next]_vars => [snapshot' >= snapshot]_snapshot
  <2> SUFFICES ASSUME IInv, Next, snapshot' # snapshot PROVE snapshot' >= snapshot
    BY DEF vars
  <2>1. Stamp \/ Apply
    BY DEF Next, Write, Delete, Load, PrepareFails, StartWatcher, Cancel, Stop,
           Tick, InspectFails, InspectSame, InspectChanged, Read, ReadFails, Over, vars
  <2>2. CASE Stamp
    BY <2>2 DEF Stamp, IInv, InHand, TypeOK, None, Versions
  <2>3. CASE Apply
    BY <2>3 DEF Apply, IInv, InHand, TypeOK, None, Versions
  <2> QED  BY <2>1, <2>2, <2>3
<1> QED  BY IInvHolds, <1>1, PTL DEF Spec, SnapshotAdvances

(* A local rule-set implements RuleSetSnapshot: what the router reads is   *)
(* always a version the file has held that decodes and compiles, swapped   *)
(* in one step.                                                            *)
THEOREM LocalKeepsPromise == Spec => SnapshotPromise
<1> DEFINE written == {v \in valid : v <= last}
<1>1. Init => Promise!Init
  BY DEF Init, Promise!Init, Promise!None, None, Versions
<1>2. IInv /\ [Next]_vars => [Promise!Next]_<<written, snapshot>>
  <2> SUFFICES ASSUME IInv, [Next]_vars
               PROVE  Promise!Next \/ UNCHANGED <<written, snapshot>>
    OBVIOUS
  <2> USE MaxVersionAssumption
  <2>1. CASE Write
    <3>1. PICK n \in Versions : n = last + 1
      BY <2>1 DEF Write, IInv, TypeOK, Versions
    <3>2. valid' = valid /\ last' = n /\ snapshot' = snapshot
      BY <2>1, <3>1 DEF Write
    <3>3. \A v \in valid : v <= n <=> v <= last \/ v = n
      BY <3>1 DEF IInv, TypeOK, Versions
    <3>4. CASE n \in valid
      <4>1. n <= n  BY <3>1 DEF Versions
      <4>2. written' = written \cup {n}  BY <3>2, <3>3, <3>4, <4>1
      <4>3. Promise!Publish(n)  BY <3>2, <4>2 DEF Promise!Publish
      <4> QED  BY <3>1, <4>3 DEF Promise!Next
    <3>5. CASE n \notin valid
      <4>1. written' = written  BY <3>2, <3>3, <3>5
      <4> QED  BY <3>2, <4>1
    <3> QED  BY <3>4, <3>5
  <2>2. CASE Stamp
    <3>1. content \in written /\ content \in Versions
      BY <2>2 DEF Stamp, IInv, InHand, Clock, TypeOK
    <3>2. valid' = valid /\ last' = last /\ snapshot' = content
      BY <2>2 DEF Stamp
    <3>3. Promise!Install(content)  BY <3>1, <3>2 DEF Promise!Install
    <3> QED  BY <3>1, <3>3 DEF Promise!Next
  <2>3. CASE Apply
    <3>1. valid' = valid /\ last' = last /\ content' = content
      BY <2>3 DEF Apply
    <3>2. CASE content \in valid
      <4>1. content \in written /\ content \in Versions
        BY <3>2 DEF IInv, Clock, TypeOK
      <4>2. snapshot' = content  BY <2>3, <3>2 DEF Apply
      <4>3. Promise!Install(content)  BY <3>1, <4>1, <4>2 DEF Promise!Install
      <4> QED  BY <4>1, <4>3 DEF Promise!Next
    <3>3. CASE content \notin valid  BY <2>3, <3>1, <3>3 DEF Apply
    <3> QED  BY <3>2, <3>3
  <2>4. CASE ~ (Write \/ Stamp \/ Apply)
    <3>1. valid' = valid /\ last' = last /\ snapshot' = snapshot
      BY <2>4 DEF Next, Delete, Load, PrepareFails, StartWatcher, Cancel, Stop, Tick,
                  InspectFails, InspectSame, InspectChanged, Read, ReadFails, Over, vars
    <3> QED  BY <3>1
  <2> QED  BY <2>1, <2>2, <2>3, <2>4
<1> QED  BY IInvHolds, <1>1, <1>2, PTL DEF Spec, SnapshotPromise, Promise!Spec

(* Both together: what the router may rely on while it routes.             *)
THEOREM SnapshotIsAlwaysSafe == Spec => SnapshotIsSafe
  BY SnapshotNeverGoesBack, LocalKeepsPromise, PTL DEF SnapshotIsSafe
-----------------------------------------------------------------------------
(* What is known of an answer on its way: it was served, and a "not        *)
(* modified" answers the ETag that the updater still has.                  *)
ReplyServed ==
    /\ accepted \cap {server} \subseteq held
    /\ reply.kind = "modified" => reply.version \in Remote!Versions
                                  /\ (reply.version \in accepted => reply.version \in held)
    /\ reply.kind = "not modified" => etag # Remote!None /\ reply.version = etag

(* The inductive invariant.                                                *)
RemoteInv == Remote!TypeOK /\ ReplyServed /\ Remote!EtagNamesSnapshot

LEMMA InitRemoteInv == Remote!Init => RemoteInv
<1> SUFFICES ASSUME Remote!Init PROVE RemoteInv  OBVIOUS
<1>1. Remote!NoReply \in Remote!Replies  BY DEF Remote!NoReply, Remote!Replies
<1>2. reply.kind = "none"  BY DEF Remote!Init, Remote!NoReply
<1> QED  BY <1>1, <1>2 DEF Remote!Init, RemoteInv, Remote!TypeOK, ReplyServed, Remote!EtagNamesSnapshot

LEMMA NextRemoteInv == RemoteInv /\ [Remote!Next]_Remote!vars => RemoteInv'
<1> SUFFICES ASSUME RemoteInv, [Remote!Next]_Remote!vars PROVE RemoteInv'  OBVIOUS
<1>1. Remote!NoReply \in Remote!Replies /\ Remote!NoReply.kind = "none"  BY DEF Remote!NoReply, Remote!Replies
<1>0. Remote!None \notin Remote!Versions  BY MaxPublishedAssumption DEF Remote!None, Remote!Versions
<1> USE DEF RemoteInv, Remote!TypeOK, ReplyServed, Remote!EtagNamesSnapshot
<1>2. ASSUME NEW v \in Remote!Versions, Remote!Publish(v) PROVE RemoteInv'
  BY <1>2 DEF Remote!Publish
<1>3. CASE Remote!AnswerModified
  <2>1. reply' \in Remote!Replies /\ reply'.kind = "modified" /\ reply'.version = server
    BY <1>3 DEF Remote!AnswerModified, Remote!Replies
  <2> QED  BY <1>3, <2>1 DEF Remote!AnswerModified
<1>4. CASE Remote!AnswerNotModified
  <2>1. reply' \in Remote!Replies /\ reply'.kind = "not modified" /\ reply'.version = server
    BY <1>4 DEF Remote!AnswerNotModified, Remote!Replies
  <2>2. etag = server  BY <1>4 DEF Remote!AnswerNotModified, Remote!EtagOf
  <2> QED  BY <1>4, <2>1, <2>2 DEF Remote!AnswerNotModified
<1>5. CASE Remote!FirstDownload
  <2>1. CASE reply.version \in accepted
    <3>1. active' = reply.version /\ built' = TRUE /\ active' # Remote!None
      BY <1>0, <1>5, <2>1 DEF Remote!FirstDownload
    <3> QED  BY <1>1, <1>5, <2>1, <3>1 DEF Remote!FirstDownload, Remote!EtagOf
  <2>2. CASE reply.version \notin accepted
    BY <1>1, <1>5, <2>2 DEF Remote!FirstDownload
  <2> QED  BY <2>1, <2>2
<1>6. CASE Remote!FirstDownloadFails
  BY <1>1, <1>6 DEF Remote!FirstDownloadFails
<1>7. CASE Remote!Fetch  BY <1>7 DEF Remote!Fetch
<1>8. CASE Remote!NotModified  BY <1>1, <1>8 DEF Remote!NotModified
<1>9. CASE Remote!Modified
  <2>1. CASE reply.version \in accepted
    <3>1. active' = reply.version /\ active' # Remote!None
      BY <1>0, <1>9, <2>1 DEF Remote!Modified
    <3> QED  BY <1>1, <1>9, <2>1, <3>1 DEF Remote!Modified, Remote!EtagOf
  <2>2. CASE reply.version \notin accepted
    BY <1>1, <1>9, <2>2 DEF Remote!Modified
  <2> QED  BY <2>1, <2>2
<1>10. CASE Remote!FetchFails  BY <1>1, <1>10 DEF Remote!FetchFails
<1>11. CASE Remote!Cancel  BY <1>11 DEF Remote!Cancel
<1>12. CASE Remote!Stop  BY <1>1, <1>12 DEF Remote!Stop
<1>13. CASE Remote!Over \/ UNCHANGED Remote!vars  BY <1>13 DEF Remote!Over, Remote!vars
<1> QED
  BY <1>2, <1>3, <1>4, <1>5, <1>6, <1>7, <1>8, <1>9, <1>10, <1>11, <1>12, <1>13
  DEF Remote!Next
-----------------------------------------------------------------------------
(* The inductive invariant holds of every behaviour of a remote rule-set.  *)
LEMMA RemoteInvHolds == Remote!Spec => []RemoteInv
  BY InitRemoteInv, NextRemoteInv, PTL DEF Remote!Spec

(* update_remote_rule_set may rely on a 304: the snapshot it keeps is the  *)
(* version the server meant.                                               *)
THEOREM NotModifiedIsSound == Remote!Spec => []NotModifiedMeansActive
<1>1. RemoteInv => NotModifiedMeansActive
  BY DEF RemoteInv, ReplyServed, Remote!EtagNamesSnapshot, NotModifiedMeansActive,
         Remote!NotModifiedMeansActive
<1> QED  BY RemoteInvHolds, <1>1, PTL

(* A remote rule-set implements RuleSetSnapshot: invalid answers, failed   *)
(* downloads and rollbacks never reach the router.                         *)
THEOREM RemoteKeepsPromise == Remote!Spec => RemoteSnapshotPromise
<1>1. Remote!Init => Remote!Promise!Init
  BY DEF Remote!Init, Remote!Promise!Init, Remote!Promise!None, Remote!None
<1>2. RemoteInv /\ [Remote!Next]_Remote!vars => [Remote!Promise!Next]_<<held, active>>
  <2> SUFFICES ASSUME RemoteInv, [Remote!Next]_Remote!vars
               PROVE  Remote!Promise!Next \/ UNCHANGED <<held, active>>
    OBVIOUS
  <2>1. ASSUME NEW v \in Remote!Versions, Remote!Publish(v)
        PROVE  Remote!Promise!Next \/ UNCHANGED <<held, active>>
    <3>1. active' = active /\ held' = held \cup (accepted \cap {v})
      BY <2>1 DEF Remote!Publish
    <3>2. CASE v \in accepted
      <4>1. Remote!Promise!Publish(v)  BY <3>1, <3>2 DEF Remote!Promise!Publish
      <4> QED  BY <4>1 DEF Remote!Promise!Next
    <3>3. CASE v \notin accepted  BY <3>1, <3>3
    <3> QED  BY <3>2, <3>3
  <2>2. CASE Remote!FirstDownload \/ Remote!Modified
    <3>1. held' = held /\ reply.kind = "modified"
      BY <2>2 DEF Remote!FirstDownload, Remote!Modified
    <3>2. CASE reply.version \in accepted
      <4>1. reply.version \in Remote!Versions /\ reply.version \in held
        BY <3>1, <3>2 DEF RemoteInv, ReplyServed
      <4>2. active' = reply.version  BY <2>2, <3>2 DEF Remote!FirstDownload, Remote!Modified
      <4>3. Remote!Promise!Install(reply.version)
        BY <3>1, <4>1, <4>2 DEF Remote!Promise!Install
      <4> QED  BY <4>1, <4>3 DEF Remote!Promise!Next
    <3>3. CASE reply.version \notin accepted
      BY <2>2, <3>1, <3>3 DEF Remote!FirstDownload, Remote!Modified
    <3> QED  BY <3>2, <3>3
  <2>3. CASE ~ (Remote!FirstDownload \/ Remote!Modified \/ \E v \in Remote!Versions : Remote!Publish(v))
    BY <2>3 DEF Remote!Next, Remote!AnswerModified, Remote!AnswerNotModified, Remote!FirstDownloadFails, Remote!Fetch,
                Remote!NotModified, Remote!FetchFails, Remote!Cancel, Remote!Stop, Remote!Over, Remote!vars
  <2> QED  BY <2>1, <2>2, <2>3
<1> QED  BY RemoteInvHolds, <1>1, <1>2, PTL DEF Remote!Spec, RemoteSnapshotPromise, Remote!SnapshotPromise, Remote!Promise!Spec
=============================================================================
