---------------------------- MODULE AcmeProvider ----------------------------
(* The ACME certificate provider: AcmeCertificateProvider::start and close, *)
(* the renewal loop, issue_certificate with its DNS-01 records, the account *)
(* and the two files that survive a restart.                                *)
(*                                                                          *)
(* The certificate authority, the DNS provider and the disk are outside:    *)
(* they answer or fail as they like, and a request may take effect although *)
(* its answer is lost. Time passes wherever the provider stands, inside an  *)
(* attempt for as long as it likes: the propagation delay and timeout are   *)
(* configured without a bound. Only the sleep of the loop ends when it is   *)
(* due. The process may be killed at any step and be started again, with    *)
(* another list of domains if the operator edited the configuration.        *)
EXTENDS Integers, Sequences

CONSTANTS
    Domains,      \* names the configuration may list
    RecordIds,    \* identifiers the DNS provider can give to TXT records
    AccountIds,   \* accounts the authority can register
    Lifetimes,    \* validity periods of issued certificates
    RenewBefore,  \* RENEW_BEFORE
    RenewRetry,   \* RENEW_RETRY
    MaxClock      \* bound on time

ASSUME LifetimesAssumption == Lifetimes \subseteq Nat \ {0}
ASSUME RenewAssumption == RenewBefore \in Nat /\ RenewRetry \in Nat \ {0}
ASSUME MaxClockAssumption == MaxClock \in Nat
ASSUME AccountsAssumption == "none" \notin AccountIds

VARIABLES
    \* outside the process
    clock,          \* SystemTime::now()
    dns,            \* TXT records that exist at the DNS provider
    accounts,       \* accounts that exist at the authority
    accountFile,    \* account.json
    certFile,       \* certificate.json
    \* the process
    phase,          \* where start() or the renewal loop stands
    caller,         \* who called issue_certificate: "start" | "loop"
    domains,        \* AcmeOptions.domain
    account,        \* AcmeProviderInner.account
    created,        \* an account registered but not written yet
    records,        \* `records` of issue_certificate
    pending,        \* authorizations not looked at yet
    issued,         \* the certificate at hand; NoCert stands for an error
    published,      \* the value of `sender`
    wakeAt,         \* when the sleep of the renewal loop ends
    cancelled,      \* AcmeProviderInner.cancel
    \* history
    strayRecords,   \* records left by a crash, a lost answer or a failed removal
    strayAccounts,  \* accounts whose credentials are lost
    publishedAt,    \* when `published` was published
    failures,       \* renewals that failed since then
    spent           \* time since then that passed inside attempts of the loop

outside == <<dns, accounts, accountFile, certFile>>
attempt == <<account, created, records, pending, issued>>
service == <<published, wakeAt, publishedAt, failures, spent>>
stray == <<strayRecords, strayAccounts>>
vars == <<clock, dns, accounts, accountFile, certFile, phase, caller, domains,
          account, created, records, pending, issued, published, wakeAt,
          cancelled, strayRecords, strayAccounts, publishedAt, failures, spent>>

None == "none"
NoCert == [notAfter |-> 0, covers |-> {}]
Certs == [notAfter : Nat, covers : SUBSET Domains]

(* The steps of issue_certificate; the others are start() and the loop.    *)
Issuing == {"account", "created", "order", "present", "propagate",
            "challenge", "finalize", "write", "cleanup"}
Running == Issuing \cup {"sleep"}
Phases == Running \cup {"off", "load", "failed", "closed"}

Held == {records[i] : i \in DOMAIN records}
Later(a, b) == IF a >= b THEN a ELSE b

(* validate_options rejects an empty list of domains.                      *)
Configurations == SUBSET Domains \ {{}}

(* renewal_delay, as the time at which the delay ends.                     *)
RenewalTimeLate(notAfter) == Later(clock, notAfter)
RenewalTime(notAfter) == Later(clock, notAfter - RenewBefore)

(* The checks of parse_managed_certificate that depend on the              *)
(* configuration: every configured domain is among the certificate's names.*)
Covers(cert) == domains \subseteq cert.covers

Init ==
    /\ clock = 0
    /\ dns = {} /\ accounts = {} /\ accountFile = None /\ certFile = NoCert
    /\ phase = "off" /\ caller = "start" /\ domains = {}
    /\ account = None /\ created = None
    /\ records = <<>> /\ pending = {} /\ issued = NoCert
    /\ published = NoCert /\ wakeAt = 0 /\ cancelled = FALSE
    /\ strayRecords = {} /\ strayAccounts = {}
    /\ publishedAt = 0 /\ failures = 0 /\ spent = 0

----------------------------------------------------------------------------
(* The process starts: the provider is built as Init and ProcessEnds left  *)
(* it, for the domains configured now, and start() creates the data        *)
(* directory, which may fail.                                              *)
Start(ds) ==
    /\ phase = "off"
    /\ phase' \in {"load", "failed"}
    /\ domains' = ds
    /\ UNCHANGED <<clock, outside, caller, attempt, service, cancelled, stray>>

(* send_replace, and the delay of the renewal loop that follows.           *)
Publish(cert) ==
    /\ published' = cert
    /\ publishedAt' = clock
    /\ failures' = 0 /\ spent' = 0
    /\ wakeAt' = RenewalTime(cert.notAfter)
    /\ caller' = "loop"
    /\ phase' = "sleep"

(* A certificate that covers some of the domains is good enough.           *)
UseCachedUnchecked ==
    /\ phase = "load"
    /\ domains \cap certFile.covers # {} /\ certFile.notAfter > clock
    /\ Publish(certFile)
    /\ UNCHANGED <<clock, outside, domains, attempt, cancelled, stray>>

(* start() finds a certificate that parses, covers the configured domains  *)
(* and has not expired: it is published and the loop is spawned.           *)
UseCached ==
    /\ phase = "load"
    /\ certFile # NoCert /\ Covers(certFile) /\ certFile.notAfter > clock
    /\ Publish(certFile)
    /\ UNCHANGED <<clock, outside, domains, attempt, cancelled, stray>>

(* Otherwise, or when the file cannot be read, start() issues one itself.  *)
IssueFirst ==
    /\ phase = "load"
    /\ phase' = "account"
    /\ UNCHANGED <<clock, outside, caller, domains, attempt, service,
                   cancelled, stray>>

----------------------------------------------------------------------------
(* An error inside issue_certificate: the records presented so far are     *)
(* removed before it is returned.                                          *)
Abort ==
    /\ phase' = "cleanup"
    /\ issued' = NoCert

process == <<clock, caller, domains, service, cancelled>>

(* load_or_create_account: the account in memory, or the stored one.       *)
FindAccount ==
    /\ phase = "account"
    /\ account # None \/ accountFile # None
    /\ account' = IF account # None THEN account ELSE accountFile
    /\ phase' = "order"
    /\ UNCHANGED <<process, outside, created, records, pending, issued, stray>>

(* No account.json: a new account is registered.                           *)
CreateAccount ==
    /\ phase = "account" /\ account = None /\ accountFile = None
    /\ \E a \in AccountIds \ accounts :
          /\ accounts' = accounts \cup {a}
          /\ created' = a
    /\ phase' = "created"
    /\ UNCHANGED <<process, dns, accountFile, certFile, account, records,
                   pending, issued, stray>>

(* The account is registered but the answer is lost.                       *)
CreateAccountLost ==
    /\ phase = "account" /\ account = None /\ accountFile = None
    /\ \E a \in AccountIds \ accounts :
          /\ accounts' = accounts \cup {a}
          /\ strayAccounts' = strayAccounts \cup {a}
    /\ Abort
    /\ UNCHANGED <<process, dns, accountFile, certFile, account, created,
                   records, pending, strayRecords>>

(* The account is remembered and nothing is written.                       *)
StoreAccountInMemory ==
    /\ phase = "created"
    /\ account' = created
    /\ created' = None
    /\ phase' = "order"
    /\ UNCHANGED <<process, dns, accounts, accountFile, certFile, records,
                   pending, issued, stray>>

(* atomic_write of account.json; the account is remembered only after it.  *)
StoreAccount ==
    /\ phase = "created"
    /\ accountFile' = created
    /\ account' = created
    /\ created' = None
    /\ phase' = "order"
    /\ UNCHANGED <<process, dns, accounts, certFile, records, pending, issued,
                   stray>>

StoreAccountFails ==
    /\ phase = "created"
    /\ strayAccounts' = strayAccounts \cup {created}
    /\ created' = None
    /\ Abort
    /\ UNCHANGED <<process, outside, account, records, pending, strayRecords>>

(* Account::new_order for the configured domains.                          *)
NewOrder ==
    /\ phase = "order"
    /\ pending' = domains
    /\ phase' = "present"
    /\ UNCHANGED <<process, outside, account, created, records, issued, stray>>

(* The next authorization is valid already: no record is needed.           *)
SkipValid ==
    /\ phase = "present"
    /\ \E d \in pending : pending' = pending \ {d}
    /\ UNCHANGED <<process, outside, phase, account, created, records, issued,
                   stray>>

(* CloudflareDns::present for the next pending authorization.              *)
Present ==
    /\ phase = "present"
    /\ \E d \in pending : pending' = pending \ {d}
    /\ \E id \in RecordIds \ dns :
          /\ dns' = dns \cup {id}
          /\ records' = Append(records, id)
    /\ UNCHANGED <<process, accounts, accountFile, certFile, phase, account,
                   created, issued, stray>>

(* The record is created but the answer is lost or does not decode.        *)
PresentLost ==
    /\ phase = "present" /\ pending # {}
    /\ \E id \in RecordIds \ dns :
          /\ dns' = dns \cup {id}
          /\ strayRecords' = strayRecords \cup {id}
    /\ Abort
    /\ UNCHANGED <<process, accounts, accountFile, certFile, account, created,
                   records, pending, strayAccounts>>

(* All authorizations were looked at.                                      *)
Presented ==
    /\ phase = "present" /\ pending = {}
    /\ phase' = IF records # <<>> THEN "propagate" ELSE "challenge"
    /\ UNCHANGED <<process, outside, attempt, stray>>

(* wait_for_propagation saw every record; set_ready for every challenge.   *)
Propagated ==
    /\ phase = "propagate"
    /\ phase' = "challenge"
    /\ UNCHANGED <<process, outside, attempt, stray>>

SetReady ==
    /\ phase = "challenge"
    /\ phase' = "finalize"
    /\ UNCHANGED <<process, outside, attempt, stray>>

(* poll_ready, finalize, poll_certificate and parse_managed_certificate.   *)
Finalize ==
    /\ phase = "finalize"
    /\ \E l \in Lifetimes :
          issued' = [notAfter |-> clock + l, covers |-> domains]
    /\ phase' = "write"
    /\ UNCHANGED <<process, outside, account, created, records, pending, stray>>

(* The write fails and the certificate is used all the same.               *)
WriteCertBestEffort ==
    /\ phase = "write"
    /\ certFile' \in {issued, certFile}
    /\ phase' = "cleanup"
    /\ UNCHANGED <<process, dns, accounts, accountFile, attempt, stray>>

(* atomic_write of certificate.json.                                       *)
WriteCert ==
    /\ phase = "write"
    /\ certFile' = issued
    /\ phase' = "cleanup"
    /\ UNCHANGED <<process, dns, accounts, accountFile, attempt, stray>>

(* The error is returned without removing the records.                     *)
StepFailsAtOnce ==
    /\ phase \in {"account", "order", "present", "propagate", "challenge",
                  "finalize", "write"}
    /\ phase = "account" => account = None
    /\ phase = "present" => pending # {}
    /\ Abort /\ records' = <<>>
    /\ UNCHANGED <<process, outside, account, created, pending, stray>>

(* Any of the steps that ask the outside for something, or write a file,   *)
(* fails without effect.                                                   *)
StepFails ==
    /\ phase \in {"account", "order", "present", "propagate", "challenge",
                  "finalize", "write"}
    /\ phase = "account" => account = None
    /\ phase = "present" => pending # {}
    /\ Abort
    /\ UNCHANGED <<process, outside, account, created, records, pending, stray>>

(* CloudflareDns::remove of the last record left. A failure is logged.     *)
Remove ==
    /\ phase = "cleanup" /\ records # <<>>
    /\ records' = SubSeq(records, 1, Len(records) - 1)
    /\ \/ dns' = dns \ {records[Len(records)]} /\ UNCHANGED strayRecords
       \/ /\ strayRecords' = strayRecords \cup {records[Len(records)]}
          /\ UNCHANGED dns
    /\ UNCHANGED <<process, accounts, accountFile, certFile, phase, account,
                   created, pending, issued, strayAccounts>>

----------------------------------------------------------------------------
(* issue_certificate returns a certificate, to start() or to the loop.     *)
IssueOk ==
    /\ phase = "cleanup" /\ records = <<>> /\ issued # NoCert
    /\ Publish(issued)
    /\ issued' = NoCert
    /\ UNCHANGED <<clock, outside, domains, account, created, records, pending,
                   cancelled, stray>>

(* ... or an error: start() returns it, the loop tries again later.        *)
IssueErr ==
    /\ phase = "cleanup" /\ records = <<>> /\ issued = NoCert
    /\ \/ /\ caller = "start"
          /\ phase' = "failed"
          /\ UNCHANGED <<wakeAt, failures>>
       \/ /\ caller = "loop"
          /\ phase' = "sleep"
          /\ wakeAt' = clock + RenewRetry
          /\ failures' = failures + 1
    /\ UNCHANGED <<clock, outside, caller, domains, attempt, published,
                   cancelled, stray, publishedAt, spent>>

(* The sleep of the renewal loop ends; select! may take this branch even   *)
(* when the token is cancelled.                                            *)
WakeUp ==
    /\ phase = "sleep" /\ clock >= wakeAt
    /\ phase' = "account"
    /\ UNCHANGED <<clock, outside, caller, domains, attempt, service,
                   cancelled, stray>>

(* close(): cancels the token and joins the loop.                          *)
Close ==
    /\ phase \in Running /\ caller = "loop" /\ ~cancelled
    /\ cancelled' = TRUE
    /\ UNCHANGED <<clock, outside, phase, caller, domains, attempt, service,
                   stray>>

(* The cancellation is looked at only when the sleep was interrupted.      *)
StoppedUnlessDue ==
    /\ phase = "sleep" /\ cancelled /\ clock < wakeAt
    /\ phase' = "closed"
    /\ UNCHANGED <<clock, outside, caller, domains, attempt, service,
                   cancelled, stray>>

(* The loop sees the cancellation and returns, and close() with it.        *)
Stopped ==
    /\ phase = "sleep" /\ cancelled
    /\ phase' = "closed"
    /\ UNCHANGED <<clock, outside, caller, domains, attempt, service,
                   cancelled, stray>>

(* The process ends or is killed: what is in memory is gone.               *)
ProcessEnds ==
    /\ phase # "off"
    /\ phase' = "off"
    /\ strayRecords' = strayRecords \cup Held
    /\ strayAccounts' = strayAccounts \cup ({created} \ {None})
    /\ caller' = "start" /\ domains' = {} /\ cancelled' = FALSE
    /\ account' = None /\ created' = None
    /\ records' = <<>> /\ pending' = {} /\ issued' = NoCert
    /\ published' = NoCert /\ wakeAt' = 0 /\ publishedAt' = 0
    /\ failures' = 0 /\ spent' = 0
    /\ UNCHANGED <<clock, outside>>

(* Time passes, but not past the end of the loop's sleep.                  *)
Tick ==
    /\ clock < MaxClock
    /\ phase = "sleep" => clock < wakeAt
    /\ clock' = clock + 1
    /\ spent' = IF phase \in Issuing /\ caller = "loop" THEN spent + 1 ELSE spent
    /\ UNCHANGED <<outside, phase, caller, domains, attempt, published, wakeAt,
                   cancelled, stray, publishedAt, failures>>

IssueStep ==
    \/ FindAccount \/ CreateAccount \/ CreateAccountLost
    \/ StoreAccount \/ StoreAccountFails
    \/ NewOrder \/ SkipValid \/ Present \/ PresentLost \/ Presented
    \/ Propagated \/ SetReady \/ Finalize \/ WriteCert
    \/ StepFails \/ Remove \/ IssueOk \/ IssueErr

Next ==
    \/ \E ds \in Configurations : Start(ds)
    \/ UseCached \/ IssueFirst
    \/ IssueStep
    \/ WakeUp \/ Close \/ Stopped
    \/ ProcessEnds
    \/ Tick

Spec == Init /\ [][Next]_vars

(* Every request has a timeout, so issue_certificate always goes on. The   *)
(* select! of the loop polls its two branches in random order: one that is *)
(* ready again and again is taken some time.                               *)
Fairness == WF_vars(IssueStep) /\ SF_vars(Stopped)
FairSpec == Spec /\ Fairness

----------------------------------------------------------------------------
(* Types of the files, the process state and the history.                  *)
TypeOK ==
    /\ clock \in Nat
    /\ dns \subseteq RecordIds /\ accounts \subseteq AccountIds
    /\ accountFile \in AccountIds \cup {None} /\ certFile \in Certs
    /\ phase \in Phases /\ caller \in {"start", "loop"}
    /\ domains \subseteq Domains
    /\ account \in AccountIds \cup {None} /\ created \in AccountIds \cup {None}
    /\ records \in Seq(RecordIds) /\ pending \subseteq Domains
    /\ issued \in Certs /\ published \in Certs
    /\ wakeAt \in Nat /\ cancelled \in BOOLEAN
    /\ strayRecords \subseteq RecordIds /\ strayAccounts \subseteq AccountIds
    /\ publishedAt \in Nat /\ failures \in Nat /\ spent \in Nat

(* Subscribers are only ever given a certificate that is on disk already    *)
(* and covers every configured domain: whatever they have been told, a      *)
(* crash and a restart will find it again. One that was found on disk has   *)
(* not expired; of one just issued the code never asks.                     *)
PublishesStored ==
    [][(published' # published /\ published' # NoCert) =>
            /\ published' = certFile
            /\ Covers(published')
            /\ phase = "load" => published'.notAfter > clock]_vars

(* Nothing is left behind at the DNS provider or at the authority, however *)
(* issuing ends: a record is removed and an account is on disk unless the  *)
(* process was killed, an answer was lost, or the removal or the write     *)
(* itself failed.                                                          *)
NothingLeftBehind ==
    /\ phase \notin Issuing => dns \subseteq strayRecords
    /\ phase \notin Issuing => accounts \subseteq strayAccounts \cup {accountFile}

(* A running provider serves an expired certificate only if it was at it    *)
(* all through the RENEW_BEFORE window, or since it was published if that   *)
(* is later: inside an attempt, or in the RENEW_RETRY that follows a failed *)
(* one. (One that was published expired has no such time.)                  *)
ExpiryTakesAttempts ==
    (phase \in Running /\ published # NoCert /\ clock >= published.notAfter) =>
        LET trying == failures * RenewRetry + spent
        IN  \/ trying >= RenewBefore
            \/ trying >= published.notAfter - publishedAt

(* close() returns: the loop finishes the attempt in progress, removes its *)
(* records and stops, even when another renewal is due at once.            *)
CloseReturns == cancelled ~> phase \in {"closed", "off"}
============================================================================
