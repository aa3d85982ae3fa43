------------------------- MODULE AcmeProviderProofs -------------------------
(* Proofs about AcmeProvider for any domains, lifetimes, delays, pools of   *)
(* record identifiers and of accounts, and any horizon.                     *)
EXTENDS AcmeProvider, TLAPS

(* Every record that exists is held by issue_certificate or is stray, and   *)
(* it holds records only while it runs.                                     *)
RecordsTracked ==
    /\ dns \subseteq strayRecords \cup Held
    /\ phase \notin Issuing => records = <<>>

(* Every account is stray, on disk, or about to be written; one is only     *)
(* about to be written while there is none on disk to overwrite.            *)
AccountsTracked ==
    /\ accounts \subseteq strayAccounts \cup {accountFile, created}
    /\ phase # "created" => created = None
    /\ phase = "created" => created \in AccountIds /\ accountFile = None

(* A certificate at hand is good, and it is on disk once the write is done. *)
IssuedIsGood ==
    issued # NoCert =>
        /\ phase \in {"write", "cleanup"}
        /\ Covers(issued)
        /\ phase = "cleanup" => certFile = issued

(* When the renewal of the published certificate is due, and the time the   *)
(* loop has spent on it since: one RENEW_RETRY after each failed attempt,   *)
(* and the attempts themselves.                                             *)
Due == Later(publishedAt, published.notAfter - RenewBefore)
Trying == failures * RenewRetry + spent

(* Before the first certificate is published nothing is served; from then   *)
(* on the clock shows the due time and the time spent since, during an      *)
(* attempt, and the loop sleeps until then and no longer.                   *)
OnSchedule ==
    /\ phase \in {"off", "load"} => caller = "start"
    /\ phase = "sleep" => caller = "loop"
    /\ caller = "start" => published = NoCert
    /\ (phase = "sleep" /\ caller = "loop") =>
          wakeAt = Due + Trying /\ clock <= wakeAt
    /\ (phase \in Issuing /\ caller = "loop") => clock = Due + Trying

Inv ==
    /\ TypeOK
    /\ RecordsTracked
    /\ AccountsTracked
    /\ IssuedIsGood
    /\ OnSchedule
-----------------------------------------------------------------------------
LEMMA NoCertIsCert == NoCert \in Certs
  BY DEF Certs, NoCert

LEMMA RenewalTimeType ==
    ASSUME clock \in Nat, NEW c \in Certs
    PROVE  RenewalTime(c.notAfter) \in Nat
  BY RenewAssumption DEF Certs, RenewalTime, Later

LEMMA HeldType == TypeOK => Held \subseteq RecordIds
  BY DEF TypeOK, Held

LEMMA ScheduleFacts ==
    ASSUME NEW a \in Int, NEW b \in Int, NEW f \in Nat
    PROVE  /\ Later(a, b) \in Int
           /\ Later(a, b) >= a /\ Later(a, b) >= b
           /\ Later(a, b) = a \/ Later(a, b) = b
           /\ f * RenewRetry \in Nat
           /\ (f + 1) * RenewRetry = f * RenewRetry + RenewRetry
           /\ 0 * RenewRetry = 0
  BY RenewAssumption DEF Later

LEMMA WaitsType == TypeOK => failures * RenewRetry \in Nat
  BY RenewAssumption DEF TypeOK

LEMMA DueType == TypeOK => Due \in Int
  BY RenewAssumption DEF TypeOK, Certs, Due, Later

(* Appending a record to the vector, and taking the last one off.           *)
LEMMA HeldFacts ==
    ASSUME NEW s \in Seq(RecordIds)
    PROVE  /\ \A id \in RecordIds :
                 {Append(s, id)[i] : i \in DOMAIN Append(s, id)}
                     = {s[i] : i \in DOMAIN s} \cup {id}
           /\ s # <<>> =>
                 /\ s[Len(s)] \in RecordIds
                 /\ SubSeq(s, 1, Len(s) - 1) \in Seq(RecordIds)
                 /\ {s[i] : i \in DOMAIN s}
                      \subseteq {SubSeq(s, 1, Len(s) - 1)[i] :
                                   i \in DOMAIN SubSeq(s, 1, Len(s) - 1)}
                                \cup {s[Len(s)]}
<1>1. ASSUME NEW id \in RecordIds
      PROVE  {Append(s, id)[i] : i \in DOMAIN Append(s, id)}
                     = {s[i] : i \in DOMAIN s} \cup {id}
  <2> DEFINE t == Append(s, id)
  <2>1. /\ DOMAIN t = 1 .. Len(s) + 1 /\ DOMAIN s = 1 .. Len(s) /\ Len(s) \in Nat
        /\ \A i \in 1 .. Len(s) : t[i] = s[i]
        /\ t[Len(s) + 1] = id
    OBVIOUS
  <2> HIDE DEF t
  <2>2. \A x : x \in {t[i] : i \in DOMAIN t} <=> x \in {s[i] : i \in DOMAIN s} \cup {id}
    BY <2>1
  <2> QED BY <2>2 DEF t
<1>2. ASSUME s # <<>>
      PROVE  /\ s[Len(s)] \in RecordIds
             /\ SubSeq(s, 1, Len(s) - 1) \in Seq(RecordIds)
             /\ {s[i] : i \in DOMAIN s}
                  \subseteq {SubSeq(s, 1, Len(s) - 1)[i] :
                               i \in DOMAIN SubSeq(s, 1, Len(s) - 1)}
                            \cup {s[Len(s)]}
  <2> DEFINE t == SubSeq(s, 1, Len(s) - 1)
  <2>1. Len(s) \in Nat \ {0} /\ DOMAIN s = 1 .. Len(s)
    BY <1>2
  <2>2. t \in Seq(RecordIds) /\ DOMAIN t = 1 .. (Len(s) - 1)
        /\ \A i \in 1 .. (Len(s) - 1) : t[i] = s[i]
    BY <2>1
  <2> HIDE DEF t
  <2>3. {s[i] : i \in DOMAIN s} \subseteq {t[i] : i \in DOMAIN t} \cup {s[Len(s)]}
    BY <2>1, <2>2
  <2> QED BY SMTT(30), <2>1, <2>2, <2>3 DEF t
<1> QED BY <1>1, <1>2

LEMMA InitInv == Init => Inv
<1> SUFFICES ASSUME Init PROVE Inv
  OBVIOUS
<1>1. NoCert \in Certs
  BY NoCertIsCert
<1>2. cancelled \in BOOLEAN
  BY Zenon DEF Init
<1>3. TypeOK
  BY <1>1, <1>2 DEF Init, TypeOK, Phases
<1>4. RecordsTracked /\ AccountsTracked /\ IssuedIsGood
  BY DEF Init, RecordsTracked, AccountsTracked, IssuedIsGood, Held
<1>5. OnSchedule
  BY DEF Init, OnSchedule, Due, Trying, Issuing
<1> QED BY <1>3, <1>4, <1>5 DEF Inv

(* Every action keeps the invariant.                                        *)
LEMMA NextInv == Inv /\ [Next]_vars => Inv'
<1> SUFFICES ASSUME Inv, [Next]_vars PROVE Inv'
  OBVIOUS
<1> USE DEF Inv
<1>1. ASSUME NEW ds \in Configurations, Start(ds) PROVE Inv'
  <2>1. TypeOK'
    BY <1>1
    DEF Start, Configurations, outside, attempt, service, stray, TypeOK, Phases,
        Running, Issuing
  <2>2. RecordsTracked'
    BY <1>1
    DEF Start, outside, attempt, service, stray, RecordsTracked, Held, Issuing
  <2>3. AccountsTracked'
    BY <1>1 DEF Start, outside, attempt, service, stray, AccountsTracked, None
  <2>4. IssuedIsGood'
    BY <1>1 DEF Start, outside, attempt, service, stray, IssuedIsGood, Covers
  <2>5. OnSchedule'
    BY <1>1
    DEF Start, outside, attempt, service, stray, OnSchedule, Due, Trying, Issuing
  <2> QED BY <2>1, <2>2, <2>3, <2>4, <2>5
<1>2. CASE UseCached
  <2>1. TypeOK'
    BY <1>2, RenewalTimeType
    DEF UseCached, outside, attempt, stray, Publish, TypeOK, Phases, Running,
        Issuing
  <2>2. RecordsTracked'
    BY <1>2
    DEF UseCached, outside, attempt, stray, Publish, RecordsTracked, Held,
        Issuing
  <2>3. AccountsTracked'
    BY <1>2
    DEF UseCached, outside, attempt, stray, Publish, AccountsTracked, None
  <2>4. IssuedIsGood'
    BY <1>2
    DEF UseCached, outside, attempt, stray, Publish, IssuedIsGood, Covers
  <2>5. OnSchedule'
    BY <1>2, ScheduleFacts, RenewAssumption
    DEF UseCached, outside, attempt, stray, Publish, OnSchedule, Due, Trying,
        Issuing, TypeOK, RenewalTime, Later, Certs
  <2> QED BY <2>1, <2>2, <2>3, <2>4, <2>5
<1>3. CASE IssueFirst
  <2>1. TypeOK'
    BY <1>3
    DEF IssueFirst, outside, attempt, service, stray, TypeOK, Phases, Running,
        Issuing
  <2>2. RecordsTracked'
    BY <1>3
    DEF IssueFirst, outside, attempt, service, stray, RecordsTracked, Held,
        Issuing
  <2>3. AccountsTracked'
    BY <1>3
    DEF IssueFirst, outside, attempt, service, stray, AccountsTracked, None
  <2>4. IssuedIsGood'
    BY <1>3
    DEF IssueFirst, outside, attempt, service, stray, IssuedIsGood, Covers
  <2>5. OnSchedule'
    BY <1>3
    DEF IssueFirst, outside, attempt, service, stray, OnSchedule, Due, Trying,
        Issuing
  <2> QED BY <2>1, <2>2, <2>3, <2>4, <2>5
<1>4. CASE FindAccount
  <2>1. TypeOK'
    BY <1>4
    DEF FindAccount, process, outside, stray, service, TypeOK, Phases, Running,
        Issuing
  <2>2. RecordsTracked'
    BY <1>4
    DEF FindAccount, process, outside, stray, service, RecordsTracked, Held,
        Issuing
  <2>3. AccountsTracked'
    BY <1>4
    DEF FindAccount, process, outside, stray, service, AccountsTracked, None
  <2>4. IssuedIsGood'
    BY <1>4
    DEF FindAccount, process, outside, stray, service, IssuedIsGood, Covers
  <2>5. OnSchedule'
    BY <1>4
    DEF FindAccount, process, outside, stray, service, OnSchedule, Due, Trying,
        Issuing
  <2> QED BY <2>1, <2>2, <2>3, <2>4, <2>5
<1>5. CASE CreateAccount
  <2>1. TypeOK'
    BY <1>5
    DEF CreateAccount, process, stray, service, TypeOK, Phases, Running,
        Issuing
  <2>2. RecordsTracked'
    BY <1>5
    DEF CreateAccount, process, stray, service, RecordsTracked, Held, Issuing
  <2>3. AccountsTracked'
    BY <1>5 DEF CreateAccount, process, stray, service, AccountsTracked, None
  <2>4. IssuedIsGood'
    BY <1>5 DEF CreateAccount, process, stray, service, IssuedIsGood, Covers
  <2>5. OnSchedule'
    BY <1>5
    DEF CreateAccount, process, stray, service, OnSchedule, Due, Trying, Issuing
  <2> QED BY <2>1, <2>2, <2>3, <2>4, <2>5
<1>6. CASE CreateAccountLost
  <2>1. TypeOK'
    BY <1>6, NoCertIsCert
    DEF CreateAccountLost, process, Abort, service, TypeOK, Phases, Running,
        Issuing
  <2>2. RecordsTracked'
    BY <1>6
    DEF CreateAccountLost, process, Abort, service, RecordsTracked, Held,
        Issuing
  <2>3. AccountsTracked'
    BY <1>6
    DEF CreateAccountLost, process, Abort, service, AccountsTracked, None
  <2>4. IssuedIsGood'
    BY <1>6 DEF CreateAccountLost, process, Abort, service, IssuedIsGood, Covers
  <2>5. OnSchedule'
    BY <1>6
    DEF CreateAccountLost, process, Abort, service, OnSchedule, Due, Trying,
        Issuing
  <2> QED BY <2>1, <2>2, <2>3, <2>4, <2>5
<1>7. CASE StoreAccount
  <2>1. TypeOK'
    BY <1>7
    DEF StoreAccount, process, stray, service, TypeOK, Phases, Running, Issuing
  <2>2. RecordsTracked'
    BY <1>7
    DEF StoreAccount, process, stray, service, RecordsTracked, Held, Issuing
  <2>3. AccountsTracked'
    BY <1>7 DEF StoreAccount, process, stray, service, AccountsTracked, None
  <2>4. IssuedIsGood'
    BY <1>7 DEF StoreAccount, process, stray, service, IssuedIsGood, Covers
  <2>5. OnSchedule'
    BY <1>7
    DEF StoreAccount, process, stray, service, OnSchedule, Due, Trying, Issuing
  <2> QED BY <2>1, <2>2, <2>3, <2>4, <2>5
<1>8. CASE StoreAccountFails
  <2>1. TypeOK'
    BY <1>8, NoCertIsCert
    DEF StoreAccountFails, process, outside, Abort, service, TypeOK, Phases,
        Running, Issuing, AccountsTracked
  <2>2. RecordsTracked'
    BY <1>8
    DEF StoreAccountFails, process, outside, Abort, service, RecordsTracked,
        Held, Issuing
  <2>3. AccountsTracked'
    BY <1>8
    DEF StoreAccountFails, process, outside, Abort, service, AccountsTracked,
        None
  <2>4. IssuedIsGood'
    BY <1>8
    DEF StoreAccountFails, process, outside, Abort, service, IssuedIsGood,
        Covers
  <2>5. OnSchedule'
    BY <1>8
    DEF StoreAccountFails, process, outside, Abort, service, OnSchedule,
        Due, Trying, Issuing
  <2> QED BY <2>1, <2>2, <2>3, <2>4, <2>5
<1>9. CASE NewOrder
  <2>1. TypeOK'
    BY <1>9
    DEF NewOrder, process, outside, stray, service, TypeOK, Phases, Running,
        Issuing
  <2>2. RecordsTracked'
    BY <1>9
    DEF NewOrder, process, outside, stray, service, RecordsTracked, Held,
        Issuing
  <2>3. AccountsTracked'
    BY <1>9
    DEF NewOrder, process, outside, stray, service, AccountsTracked, None
  <2>4. IssuedIsGood'
    BY <1>9 DEF NewOrder, process, outside, stray, service, IssuedIsGood, Covers
  <2>5. OnSchedule'
    BY <1>9
    DEF NewOrder, process, outside, stray, service, OnSchedule, Due, Trying,
        Issuing
  <2> QED BY <2>1, <2>2, <2>3, <2>4, <2>5
<1>10. CASE SkipValid
  <2>1. TypeOK'
    BY <1>10
    DEF SkipValid, process, outside, stray, service, TypeOK, Phases, Running,
        Issuing
  <2>2. RecordsTracked'
    BY <1>10
    DEF SkipValid, process, outside, stray, service, RecordsTracked, Held,
        Issuing
  <2>3. AccountsTracked'
    BY <1>10
    DEF SkipValid, process, outside, stray, service, AccountsTracked, None
  <2>4. IssuedIsGood'
    BY <1>10
    DEF SkipValid, process, outside, stray, service, IssuedIsGood, Covers
  <2>5. OnSchedule'
    BY <1>10
    DEF SkipValid, process, outside, stray, service, OnSchedule, Due, Trying,
        Issuing
  <2> QED BY <2>1, <2>2, <2>3, <2>4, <2>5
<1>11. CASE Present
  <2>1. TypeOK'
    BY <1>11
    DEF Present, process, stray, service, TypeOK, Phases, Running, Issuing
  <2>2. RecordsTracked'
    BY <1>11 DEF Present, process, stray, service, RecordsTracked, Held, Issuing
  <2>3. AccountsTracked'
    BY <1>11 DEF Present, process, stray, service, AccountsTracked, None
  <2>4. IssuedIsGood'
    BY <1>11 DEF Present, process, stray, service, IssuedIsGood, Covers
  <2>5. OnSchedule'
    BY <1>11 DEF Present, process, stray, service, OnSchedule, Due, Trying, Issuing
  <2> QED BY <2>1, <2>2, <2>3, <2>4, <2>5
<1>12. CASE PresentLost
  <2>1. TypeOK'
    BY <1>12, NoCertIsCert
    DEF PresentLost, process, Abort, service, TypeOK, Phases, Running, Issuing
  <2>2. RecordsTracked'
    BY <1>12
    DEF PresentLost, process, Abort, service, RecordsTracked, Held, Issuing
  <2>3. AccountsTracked'
    BY <1>12 DEF PresentLost, process, Abort, service, AccountsTracked, None
  <2>4. IssuedIsGood'
    BY <1>12 DEF PresentLost, process, Abort, service, IssuedIsGood, Covers
  <2>5. OnSchedule'
    BY <1>12
    DEF PresentLost, process, Abort, service, OnSchedule, Due, Trying, Issuing
  <2> QED BY <2>1, <2>2, <2>3, <2>4, <2>5
<1>13. CASE Presented
  <2>1. TypeOK'
    BY <1>13
    DEF Presented, process, outside, attempt, stray, service, TypeOK, Phases,
        Running, Issuing
  <2>2. RecordsTracked'
    BY <1>13
    DEF Presented, process, outside, attempt, stray, service, RecordsTracked,
        Held, Issuing
  <2>3. AccountsTracked'
    BY <1>13
    DEF Presented, process, outside, attempt, stray, service, AccountsTracked,
        None
  <2>4. IssuedIsGood'
    BY <1>13
    DEF Presented, process, outside, attempt, stray, service, IssuedIsGood,
        Covers
  <2>5. OnSchedule'
    BY <1>13
    DEF Presented, process, outside, attempt, stray, service, OnSchedule,
        Due, Trying, Issuing
  <2> QED BY <2>1, <2>2, <2>3, <2>4, <2>5
<1>14. CASE Propagated
  <2>1. TypeOK'
    BY <1>14
    DEF Propagated, process, outside, attempt, stray, service, TypeOK, Phases,
        Running, Issuing
  <2>2. RecordsTracked'
    BY <1>14
    DEF Propagated, process, outside, attempt, stray, service, RecordsTracked,
        Held, Issuing
  <2>3. AccountsTracked'
    BY <1>14
    DEF Propagated, process, outside, attempt, stray, service, AccountsTracked,
        None
  <2>4. IssuedIsGood'
    BY <1>14
    DEF Propagated, process, outside, attempt, stray, service, IssuedIsGood,
        Covers
  <2>5. OnSchedule'
    BY <1>14
    DEF Propagated, process, outside, attempt, stray, service, OnSchedule,
        Due, Trying, Issuing
  <2> QED BY <2>1, <2>2, <2>3, <2>4, <2>5
<1>15. CASE SetReady
  <2>1. TypeOK'
    BY <1>15
    DEF SetReady, process, outside, attempt, stray, service, TypeOK, Phases,
        Running, Issuing
  <2>2. RecordsTracked'
    BY <1>15
    DEF SetReady, process, outside, attempt, stray, service, RecordsTracked,
        Held, Issuing
  <2>3. AccountsTracked'
    BY <1>15
    DEF SetReady, process, outside, attempt, stray, service, AccountsTracked,
        None
  <2>4. IssuedIsGood'
    BY <1>15
    DEF SetReady, process, outside, attempt, stray, service, IssuedIsGood,
        Covers
  <2>5. OnSchedule'
    BY <1>15
    DEF SetReady, process, outside, attempt, stray, service, OnSchedule,
        Due, Trying, Issuing
  <2> QED BY <2>1, <2>2, <2>3, <2>4, <2>5
<1>16. CASE Finalize
  <2>1. TypeOK'
    BY <1>16, LifetimesAssumption
    DEF Finalize, process, outside, stray, service, TypeOK, Phases, Running,
        Issuing, Certs
  <2>2. RecordsTracked'
    BY <1>16
    DEF Finalize, process, outside, stray, service, RecordsTracked, Held,
        Issuing
  <2>3. AccountsTracked'
    BY <1>16
    DEF Finalize, process, outside, stray, service, AccountsTracked, None
  <2>4. IssuedIsGood'
    BY <1>16, LifetimesAssumption
    DEF Finalize, process, outside, stray, service, IssuedIsGood, Covers,
        TypeOK
  <2>5. OnSchedule'
    BY <1>16
    DEF Finalize, process, outside, stray, service, OnSchedule, Due, Trying,
        Issuing
  <2> QED BY <2>1, <2>2, <2>3, <2>4, <2>5
<1>17. CASE WriteCert
  <2>1. TypeOK'
    BY <1>17
    DEF WriteCert, process, attempt, stray, service, TypeOK, Phases, Running,
        Issuing
  <2>2. RecordsTracked'
    BY <1>17
    DEF WriteCert, process, attempt, stray, service, RecordsTracked, Held,
        Issuing
  <2>3. AccountsTracked'
    BY <1>17
    DEF WriteCert, process, attempt, stray, service, AccountsTracked, None
  <2>4. IssuedIsGood'
    BY <1>17
    DEF WriteCert, process, attempt, stray, service, IssuedIsGood, Covers
  <2>5. OnSchedule'
    BY <1>17
    DEF WriteCert, process, attempt, stray, service, OnSchedule, Due, Trying,
        Issuing
  <2> QED BY <2>1, <2>2, <2>3, <2>4, <2>5
<1>18. CASE StepFails
  <2>1. TypeOK'
    BY <1>18, NoCertIsCert
    DEF StepFails, process, outside, stray, Abort, service, TypeOK, Phases,
        Running, Issuing
  <2>2. RecordsTracked'
    BY <1>18
    DEF StepFails, process, outside, stray, Abort, service, RecordsTracked,
        Held, Issuing
  <2>3. AccountsTracked'
    BY <1>18
    DEF StepFails, process, outside, stray, Abort, service, AccountsTracked,
        None
  <2>4. IssuedIsGood'
    BY <1>18
    DEF StepFails, process, outside, stray, Abort, service, IssuedIsGood,
        Covers
  <2>5. OnSchedule'
    BY <1>18
    DEF StepFails, process, outside, stray, Abort, service, OnSchedule,
        Due, Trying, Issuing
  <2> QED BY <2>1, <2>2, <2>3, <2>4, <2>5
<1>19. CASE Remove
  <2>1. TypeOK'
    BY <1>19 DEF Remove, process, service, TypeOK, Phases, Running, Issuing
  <2>2. RecordsTracked'
    <3> DEFINE last == records[Len(records)]
               rest == SubSeq(records, 1, Len(records) - 1)
    <3>1. Held \subseteq {rest[i] : i \in DOMAIN rest} \cup {last}
      BY <1>19, HeldFacts DEF Remove, Held, TypeOK
    <3>2. Held' = {rest[i] : i \in DOMAIN rest}
      BY <1>19 DEF Remove, Held
    <3>3. dns' = dns \ {last} \/ strayRecords' = strayRecords \cup {last}
      BY <1>19 DEF Remove
    <3>4. dns' \subseteq dns /\ strayRecords \subseteq strayRecords' /\ phase' \in Issuing
      BY <1>19 DEF Remove, Issuing
    <3> HIDE DEF last, rest
    <3> QED BY <3>1, <3>2, <3>3, <3>4 DEF RecordsTracked
  <2>3. AccountsTracked'
    BY <1>19 DEF Remove, process, service, AccountsTracked, None
  <2>4. IssuedIsGood'
    BY <1>19 DEF Remove, process, service, IssuedIsGood, Covers
  <2>5. OnSchedule'
    BY <1>19 DEF Remove, process, service, OnSchedule, Due, Trying, Issuing
  <2> QED BY <2>1, <2>2, <2>3, <2>4, <2>5
<1>20. CASE IssueOk
  <2>1. TypeOK'
    BY <1>20, RenewalTimeType, NoCertIsCert
    DEF IssueOk, outside, stray, Publish, TypeOK, Phases, Running, Issuing
  <2>2. RecordsTracked'
    BY <1>20 DEF IssueOk, outside, stray, Publish, RecordsTracked, Held, Issuing
  <2>3. AccountsTracked'
    BY <1>20 DEF IssueOk, outside, stray, Publish, AccountsTracked, None
  <2>4. IssuedIsGood'
    BY <1>20 DEF IssueOk, outside, stray, Publish, IssuedIsGood, Covers
  <2>5. OnSchedule'
    BY <1>20, ScheduleFacts, RenewAssumption
    DEF IssueOk, outside, stray, Publish, OnSchedule, Due, Trying, Issuing,
        TypeOK, RenewalTime, Later, Certs
  <2> QED BY <2>1, <2>2, <2>3, <2>4, <2>5
<1>21. CASE IssueErr
  <2>1. TypeOK'
    BY <1>21, RenewAssumption
    DEF IssueErr, outside, attempt, stray, TypeOK, Phases, Running, Issuing
  <2>2. RecordsTracked'
    BY <1>21
    DEF IssueErr, outside, attempt, stray, RecordsTracked, Held, Issuing
  <2>3. AccountsTracked'
    BY <1>21 DEF IssueErr, outside, attempt, stray, AccountsTracked, None
  <2>4. IssuedIsGood'
    BY <1>21 DEF IssueErr, outside, attempt, stray, IssuedIsGood, Covers
  <2>5. OnSchedule'
    <3>1. CASE caller = "start"
      BY <3>1, <1>21
      DEF IssueErr, outside, attempt, stray, OnSchedule, Due, Trying, Issuing
    <3>2. CASE caller = "loop"
      <4>1. publishedAt \in Int /\ published.notAfter - RenewBefore \in Int
        BY RenewAssumption DEF TypeOK, Certs
      <4>2. /\ Due \in Int /\ failures * RenewRetry \in Nat
            /\ (failures + 1) * RenewRetry = failures * RenewRetry + RenewRetry
        BY <4>1, ScheduleFacts DEF Due, TypeOK
      <4>3. clock = Due + Trying
        BY <3>2, <1>21 DEF IssueErr, OnSchedule, Issuing
      <4>4. /\ phase' = "sleep" /\ caller' = "loop" /\ clock' = clock
            /\ wakeAt' = clock + RenewRetry /\ failures' = failures + 1
            /\ published' = published /\ publishedAt' = publishedAt /\ spent' = spent
        BY <3>2, <1>21 DEF IssueErr
      <4>5. clock \in Nat /\ spent \in Nat
        BY DEF TypeOK
      <4>6. wakeAt' = Due + (failures + 1) * RenewRetry + spent /\ clock' <= wakeAt'
        BY <4>2, <4>3, <4>4, <4>5, RenewAssumption DEF Trying
      <4>7. Due' = Due /\ Trying' = (failures + 1) * RenewRetry + spent
        BY <4>4 DEF Due, Trying
      <4>8. wakeAt' = Due' + Trying'
        BY <4>2, <4>5, <4>6, <4>7, RenewAssumption
      <4> QED BY <4>4, <4>6, <4>8 DEF OnSchedule, Issuing
    <3> QED BY <3>1, <3>2 DEF TypeOK
  <2> QED BY <2>1, <2>2, <2>3, <2>4, <2>5
<1>22. CASE WakeUp
  <2>1. TypeOK'
    BY <1>22
    DEF WakeUp, outside, attempt, service, stray, TypeOK, Phases, Running,
        Issuing
  <2>2. RecordsTracked'
    BY <1>22
    DEF WakeUp, outside, attempt, service, stray, RecordsTracked, Held, Issuing
  <2>3. AccountsTracked'
    BY <1>22 DEF WakeUp, outside, attempt, service, stray, AccountsTracked, None
  <2>4. IssuedIsGood'
    BY <1>22 DEF WakeUp, outside, attempt, service, stray, IssuedIsGood, Covers
  <2>5. OnSchedule'
    BY <1>22
    DEF WakeUp, outside, attempt, service, stray, OnSchedule, Due, Trying, Issuing,
        TypeOK
  <2> QED BY <2>1, <2>2, <2>3, <2>4, <2>5
<1>23. CASE Close
  <2>1. TypeOK'
    BY <1>23
    DEF Close, outside, attempt, service, stray, TypeOK, Phases, Running,
        Issuing
  <2>2. RecordsTracked'
    BY <1>23
    DEF Close, outside, attempt, service, stray, RecordsTracked, Held, Issuing
  <2>3. AccountsTracked'
    BY <1>23 DEF Close, outside, attempt, service, stray, AccountsTracked, None
  <2>4. IssuedIsGood'
    BY <1>23 DEF Close, outside, attempt, service, stray, IssuedIsGood, Covers
  <2>5. OnSchedule'
    BY <1>23
    DEF Close, outside, attempt, service, stray, OnSchedule, Due, Trying, Issuing
  <2> QED BY <2>1, <2>2, <2>3, <2>4, <2>5
<1>24. CASE Stopped
  <2>1. TypeOK'
    BY <1>24
    DEF Stopped, outside, attempt, service, stray, TypeOK, Phases, Running,
        Issuing
  <2>2. RecordsTracked'
    BY <1>24
    DEF Stopped, outside, attempt, service, stray, RecordsTracked, Held,
        Issuing
  <2>3. AccountsTracked'
    BY <1>24
    DEF Stopped, outside, attempt, service, stray, AccountsTracked, None
  <2>4. IssuedIsGood'
    BY <1>24 DEF Stopped, outside, attempt, service, stray, IssuedIsGood, Covers
  <2>5. OnSchedule'
    BY <1>24
    DEF Stopped, outside, attempt, service, stray, OnSchedule, Due, Trying, Issuing
  <2> QED BY <2>1, <2>2, <2>3, <2>4, <2>5
<1>25. CASE ProcessEnds
  <2>1. TypeOK'
    <3>1. Held \subseteq RecordIds /\ {created} \ {None} \subseteq AccountIds
      BY HeldType DEF TypeOK
    <3>2. strayRecords' \subseteq RecordIds /\ strayAccounts' \subseteq AccountIds
      BY <3>1, <1>25 DEF ProcessEnds, TypeOK
    <3>3. cancelled' \in BOOLEAN
      BY <1>25, Zenon DEF ProcessEnds
    <3>4. /\ account' = None /\ created' = None /\ records' = <<>>
          /\ pending' = {} /\ domains' = {}
      BY <1>25 DEF ProcessEnds
    <3>5. /\ issued' \in Certs /\ published' \in Certs /\ phase' \in Phases
          /\ wakeAt' = 0 /\ publishedAt' = 0 /\ failures' = 0 /\ spent' = 0
          /\ caller' \in {"start", "loop"}
      BY <1>25, NoCertIsCert DEF ProcessEnds, Phases
    <3>6. UNCHANGED <<clock, dns, accounts, accountFile, certFile>>
      BY <1>25 DEF ProcessEnds, outside
    <3> QED BY <3>2, <3>3, <3>4, <3>5, <3>6 DEF TypeOK
  <2>2. RecordsTracked'
    BY <1>25 DEF ProcessEnds, outside, RecordsTracked, Held, Issuing
  <2>3. AccountsTracked'
    BY <1>25 DEF ProcessEnds, outside, AccountsTracked, None
  <2>4. IssuedIsGood'
    BY <1>25 DEF ProcessEnds, outside, IssuedIsGood, Covers
  <2>5. OnSchedule'
    BY <1>25 DEF ProcessEnds, outside, OnSchedule, Due, Trying, Issuing
  <2> QED BY <2>1, <2>2, <2>3, <2>4, <2>5
<1>26. CASE Tick
  <2>1. TypeOK'
    BY <1>26
    DEF Tick, outside, attempt, service, stray, TypeOK, Phases, Running,
        Issuing
  <2>2. RecordsTracked'
    BY <1>26
    DEF Tick, outside, attempt, service, stray, RecordsTracked, Held, Issuing
  <2>3. AccountsTracked'
    BY <1>26 DEF Tick, outside, attempt, service, stray, AccountsTracked, None
  <2>4. IssuedIsGood'
    BY <1>26 DEF Tick, outside, attempt, service, stray, IssuedIsGood, Covers
  <2>5. OnSchedule'
    <3>1. /\ clock' = clock + 1 /\ UNCHANGED <<phase, caller, wakeAt, published>>
          /\ phase = "sleep" => clock < wakeAt
      BY <1>26 DEF Tick
    <3>2. Due' = Due
      BY <1>26 DEF Tick, Due
    <3>3. /\ clock \in Nat /\ wakeAt \in Nat /\ spent \in Nat
          /\ failures * RenewRetry \in Nat
      BY WaitsType DEF TypeOK
    <3>4. CASE phase \in Issuing /\ caller = "loop"
      <4>1. Trying' = failures * RenewRetry + (spent + 1) /\ clock = Due + Trying
        BY <3>4, <1>26 DEF Tick, Trying, OnSchedule
      <4>2. Due \in Int
        BY DueType
      <4>3. clock' = Due + Trying'
        BY <4>1, <4>2, <3>1, <3>3 DEF Trying
      <4> QED BY <4>3, <3>1, <3>2, <3>4 DEF OnSchedule, Issuing
    <3>5. CASE ~(phase \in Issuing /\ caller = "loop")
      <4>1. Trying' = Trying
        BY <3>5, <1>26 DEF Tick, Trying
      <4> QED BY <4>1, <3>1, <3>2, <3>3, <3>5 DEF OnSchedule
    <3> QED BY <3>4, <3>5
  <2> QED BY <2>1, <2>2, <2>3, <2>4, <2>5
<1>27. CASE UNCHANGED vars
  <2>1. TypeOK'
    BY <1>27 DEF vars, TypeOK, Phases, Running, Issuing
  <2>2. RecordsTracked'
    BY <1>27 DEF vars, RecordsTracked, Held, Issuing
  <2>3. AccountsTracked'
    BY <1>27 DEF vars, AccountsTracked, None
  <2>4. IssuedIsGood'
    BY <1>27 DEF vars, IssuedIsGood, Covers
  <2>5. OnSchedule'
    BY <1>27 DEF vars, OnSchedule, Due, Trying, Issuing
  <2> QED BY <2>1, <2>2, <2>3, <2>4, <2>5
<1> QED
  BY <1>1, <1>2, <1>3, <1>4, <1>5, <1>6, <1>7, <1>8, <1>9, <1>10, <1>11,
     <1>12, <1>13, <1>14, <1>15, <1>16, <1>17, <1>18, <1>19, <1>20, <1>21,
     <1>22, <1>23, <1>24, <1>25, <1>26, <1>27
  DEF Next, IssueStep

(* Inv holds in every reachable state.                                      *)
LEMMA InvHolds == Spec => []Inv
  BY InitInv, NextInv, PTL DEF Spec

(* The state of the provider, its files and the outside is always well      *)
(* typed: in particular the delays never run into negative times.           *)
THEOREM TypeCorrect == Spec => []TypeOK
<1>1. Inv => TypeOK
  BY DEF Inv
<1> QED BY InvHolds, <1>1, PTL

(* However issue_certificate ends, no record and no account is left behind  *)
(* except through a crash, a lost answer or a failed removal or write.      *)
THEOREM LeavesNothingBehind == Spec => []NothingLeftBehind
<1>1. ASSUME Inv PROVE NothingLeftBehind
  <2>1. ASSUME phase \notin Issuing PROVE Held = {} /\ created = None
    BY <2>1, <1>1 DEF Inv, RecordsTracked, AccountsTracked, Held, Issuing
  <2>2. None \notin AccountIds
    BY AccountsAssumption DEF None
  <2> QED
    BY <1>1, <2>1, <2>2
    DEF Inv, TypeOK, RecordsTracked, AccountsTracked, NothingLeftBehind
<1> QED BY InvHolds, <1>1, PTL

(* An expired certificate is served only after a whole RENEW_BEFORE window, *)
(* or the whole life of the certificate, spent in attempts and in the waits *)
(* that follow failed ones, however long an attempt takes and whatever the  *)
(* lifetimes and the two delays are.                                        *)
THEOREM ExpiryOnlyByAttempts == Spec => []ExpiryTakesAttempts
<1>1. ASSUME Inv PROVE ExpiryTakesAttempts
  <2> SUFFICES ASSUME phase \in Running, published # NoCert,
                      clock >= published.notAfter
               PROVE  \/ Trying >= RenewBefore
                      \/ Trying >= published.notAfter - publishedAt
    BY DEF ExpiryTakesAttempts, Trying
  <2>1. caller = "loop"
    BY <1>1 DEF Inv, TypeOK, OnSchedule
  <2>2. clock <= Due + Trying
    BY <1>1, <2>1 DEF Inv, TypeOK, OnSchedule, Running
  <2>3. /\ publishedAt \in Nat /\ failures \in Nat /\ published.notAfter \in Nat
        /\ published.notAfter - RenewBefore \in Int /\ clock \in Nat /\ spent \in Nat
    BY <1>1, RenewAssumption DEF Inv, TypeOK, Certs
  <2>4. /\ Due = publishedAt \/ Due = published.notAfter - RenewBefore
        /\ Due \in Int /\ failures * RenewRetry \in Nat
    BY <2>3, ScheduleFacts DEF Due
  <2>5. Trying \in Nat
    BY <2>3, <2>4 DEF Trying
  <2> QED BY <2>2, <2>3, <2>4, <2>5, RenewAssumption
<1> QED BY InvHolds, <1>1, PTL

(* Only a certificate that is on disk and covers the configured domains is  *)
(* published, and from the disk only one that has not expired.              *)
THEOREM PublishesOnlyStored == Spec => PublishesStored
<1>1. ASSUME Inv, [Next]_vars
      PROVE  (published' # published /\ published' # NoCert) =>
                 /\ published' = certFile
                 /\ Covers(published')
                 /\ phase = "load" => published'.notAfter > clock
  <2> SUFFICES ASSUME published' # published, published' # NoCert
               PROVE  /\ published' = certFile
                      /\ Covers(published')
                      /\ phase = "load" => published'.notAfter > clock
    OBVIOUS
  <2>1. CASE UseCached
    BY <2>1 DEF UseCached, Publish
  <2>2. CASE IssueOk
    BY <1>1, <2>2 DEF IssueOk, Publish, Inv, IssuedIsGood
  <2>3. UseCached \/ IssueOk
    BY <1>1
    DEF Next, IssueStep, Start, IssueFirst, FindAccount, CreateAccount,
        CreateAccountLost, StoreAccount, StoreAccountFails, NewOrder,
        SkipValid, Present, PresentLost, Presented, Propagated, SetReady,
        Finalize, WriteCert, StepFails, Remove, IssueErr, WakeUp, Close,
        Stopped, ProcessEnds, Tick, process, service, vars
  <2> QED BY <2>1, <2>2, <2>3
<1> QED BY InvHolds, <1>1, PTL DEF Spec, PublishesStored
=============================================================================
