---------------------------- MODULE Certificates ----------------------------
(* ACME certificates (cert/acme/acme.go, proxyconfig/cert.go,               *)
(* gateway/handler/acme.go and the part of cmd/waf/main.go that starts      *)
(* them).  A certificate lives in two files and in one row of ssl_certs;    *)
(* listeners serve the row.  Handlers answer at once and leave the work to  *)
(* goroutines nothing keeps apart, a renewal loop works beside them, and a  *)
(* crash may come between any two writes.  Start-up first obtains what is   *)
(* missing or unusable on disk and then copies the files into the table.    *)
(*                                                                          *)
(* A certificate and its key are the number of the pair they were made as:  *)
(* a cert and a key fit when the numbers agree.  Left out: the in-memory    *)
(* certCache (it feeds the status page only), ACME accounts, and how the    *)
(* renewal loop listens to stopCh: it ends between two rounds.              *)
EXTENDS Naturals, Sequences

CONSTANTS Domains,        \* domain names an administrator manages
          Jobs,           \* goroutines started by handlers
          MaxPairs,       \* bound: pairs ever made
          MaxTroubles     \* bound: failed writes, failed orders and crashes

ASSUME JobsAssumption == Jobs \cap {"renewal loop", "start-up"} = {}

VARIABLES
  settings,  \* acme_domains of system_config
  files,     \* the .crt and the .key file of every domain
  certRows,  \* the ssl_certs row with source 'acme' of every domain
  pairs,     \* every pair ever made: who issued it and how old it is
  managed,   \* Manager.domains; not empty means enabled
  renewing,  \* autoRenewRunning
  jobs,      \* what each goroutine is about to do
  booting,   \* start-up has not finished
  troubles,  \* failures and crashes so far
  smooth     \* nothing failed since start-up began

certVars == <<settings, files, certRows, pairs, managed, renewing, jobs, booting,
              troubles, smooth>>

Workers == Jobs \cup {"renewal loop", "start-up"}

Missing == [cert |-> 0, key |-> 0]

NoJob == [pc |-> "none", todo |-> {}, domain |-> "", pair |-> 0]

\* tls.LoadX509KeyPair succeeds
Fits(f) == f.cert # 0 /\ f.cert = f.key

Current(f) == Fits(f) /\ pairs[f.cert].age # "expired"

\* GetACMEDomains: the domains that have a row, whatever is configured.
RowDomains == {d \in Domains : certRows[d].cert # 0}

\* What a TLS handshake for d gets (CertManager.GetTLSCertificate).
Served(d) == Current(certRows[d])

CertificatesInit ==
  /\ settings \in SUBSET Domains
  /\ files = [d \in Domains |-> Missing] /\ certRows = files
  /\ pairs = <<>> /\ managed = settings /\ renewing = FALSE
  /\ jobs = [w \in Workers |->
               IF w = "start-up" THEN [NoJob EXCEPT !.pc = "check", !.todo = settings] ELSE NoJob]
  /\ booting = TRUE /\ troubles = 0 /\ smooth = TRUE

Stands(w, pc) == jobs[w].pc = pc

Goto(w, pc) == jobs' = [jobs EXCEPT ![w].pc = pc]

Launch(w, pc, todo) ==
  /\ Stands(w, "none") /\ ~booting
  /\ jobs' = [jobs EXCEPT ![w] = [NoJob EXCEPT !.pc = pc, !.todo = todo]]

\* The domain in hand is done with, in one way or another.
NextDomain(w) ==
  jobs' = [jobs EXCEPT ![w] = [NoJob EXCEPT !.pc = "check", !.todo = jobs[w].todo \ {jobs[w].domain}]]

Fail ==
  /\ troubles < MaxTroubles /\ troubles' = troubles + 1 /\ smooth' = FALSE
  /\ UNCHANGED <<settings, pairs, managed, renewing, booting>>

Succeed == UNCHANGED <<settings, pairs, managed, renewing, booting, troubles, smooth>>

-----------------------------------------------------------------------------
(* The handlers.                                                            *)

APIACMEConfig(j, domains) ==
  /\ settings' = domains /\ Launch(j, "stop", domains)
  /\ UNCHANGED <<files, certRows, pairs, managed, renewing, booting, troubles, smooth>>

APIACMEConvertToAuto(j, d) ==
  d \notin RowDomains /\ APIACMEConfig(j, RowDomains \cup {d})

APIACMERemoveDomain(j, d) ==
  /\ d \in RowDomains
  /\ Stands(j, "none") /\ ~booting
  /\ settings' = RowDomains \ {d}
  /\ jobs' = [jobs EXCEPT ![j] =
                [NoJob EXCEPT !.pc = "delete row", !.todo = RowDomains \ {d}, !.domain = d]]
  /\ UNCHANGED <<files, certRows, pairs, managed, renewing, booting, troubles, smooth>>

\* DeleteCertByDomainAndSource and RemoveDomainFiles: what fails is only logged.
DeleteRow(j) ==
  /\ Stands(j, "delete row") /\ Goto(j, "remove cert") /\ UNCHANGED files
  /\ \/ certRows' = [certRows EXCEPT ![jobs[j].domain] = Missing] /\ Succeed
     \/ UNCHANGED certRows /\ Fail

RemoveCert(j) ==
  /\ Stands(j, "remove cert") /\ Goto(j, "remove key") /\ UNCHANGED certRows
  /\ \/ files' = [files EXCEPT ![jobs[j].domain].cert = 0] /\ Succeed
     \/ UNCHANGED files /\ Fail

RemoveKey(j) ==
  /\ Stands(j, "remove key") /\ Goto(j, "stop") /\ UNCHANGED certRows
  /\ \/ files' = [files EXCEPT ![jobs[j].domain].key = 0] /\ Succeed
     \/ UNCHANGED files /\ Fail

APIACMERenew(j, d) ==
  /\ managed # {}
  /\ Stands(j, "none") /\ ~booting
  /\ jobs' = [jobs EXCEPT ![j] = [NoJob EXCEPT !.pc = "renew", !.domain = d]]
  /\ UNCHANGED <<files, certRows>> /\ Succeed

-----------------------------------------------------------------------------
(* UpdateConfig, the renewal loop and what both do for a domain.            *)

StopRenewing(w) ==
  /\ Stands(w, "stop") /\ renewing' = FALSE /\ Goto(w, "wait")
  /\ UNCHANGED <<settings, files, certRows, pairs, managed, booting, troubles, smooth>>

UpdateDomains(w) ==
  /\ Stands(w, "wait") /\ Stands("renewal loop", "none")
  /\ managed' = jobs[w].todo
  /\ Goto(w, IF managed' = {} THEN "none" ELSE "check")
  /\ UNCHANGED <<settings, files, certRows, pairs, renewing, booting, troubles, smooth>>

RenewalRound ==
  /\ renewing /\ Launch("renewal loop", "check", managed)
  /\ UNCHANGED <<files, certRows>> /\ Succeed

\* A pair that fits is loaded if it has not expired.
LoadExistingOfAnyAge(d) == Fits(files[d])

LoadExistingCert(d) == Current(files[d])

\* Every certificate left to do is good: UpdateConfig ends with
\* StartAutoRenewal, the loop rests.
Finish(w) ==
  /\ Stands(w, "check") /\ \A d \in jobs[w].todo : LoadExistingCert(d)
  /\ renewing' = (renewing \/ (w # "renewal loop" /\ managed # {}))
  /\ jobs' = [jobs EXCEPT ![w] = [NoJob EXCEPT !.pc = IF w = "start-up" THEN "migrate" ELSE "none"]]
  /\ UNCHANGED <<settings, files, certRows, pairs, managed, booting, troubles, smooth>>

Make(w, d, le) ==
  /\ Len(pairs) < MaxPairs
  /\ pairs' = Append(pairs, [le |-> le, age |-> "fresh"])
  /\ jobs' = [jobs EXCEPT ![w].pc = "write cert", ![w].domain = d, ![w].pair = Len(pairs) + 1]

\* obtainLetsEncryptCert: whatever fails before the order is authorised ends
\* in a certificate signed by itself; a failure after that in none.
Obtain(w, d) ==
  \/ /\ \E le \in BOOLEAN : Make(w, d, le)
     /\ UNCHANGED <<settings, files, certRows, managed, renewing, booting, troubles, smooth>>
  \/ /\ jobs' = [jobs EXCEPT ![w].pc = "check", ![w].todo = @ \ {d}]
     /\ Fail /\ UNCHANGED <<files, certRows>>
  \/ /\ Len(pairs) = MaxPairs     \* the bound: this order fails as well
     /\ jobs' = [jobs EXCEPT ![w].pc = "check", ![w].todo = @ \ {d}]
     /\ smooth' = FALSE
     /\ UNCHANGED <<settings, files, certRows, pairs, managed, renewing, booting, troubles>>

ObtainCertificate(w, d) ==
  Stands(w, "check") /\ d \in jobs[w].todo /\ ~LoadExistingCert(d) /\ Obtain(w, d)

\* RenewCertificate leaves a certificate alone that another issuer signed and
\* that is good for more than thirty days, but copies its files into the row,
\* one after the other.
GoodForLong(d) ==
  Fits(files[d]) /\ pairs[files[d].cert].le /\ pairs[files[d].cert].age = "fresh"

RenewCertificate(w) ==
  LET d == jobs[w].domain IN
  /\ Stands(w, "renew")
  /\ IF GoodForLong(d)
     THEN /\ jobs' = [jobs EXCEPT ![w].pc = "read key", ![w].pair = files[d].cert]
          /\ UNCHANGED <<files, certRows>> /\ Succeed
     ELSE Obtain(w, d)

ReadKey(w) ==
  LET d == jobs[w].domain IN
  /\ Stands(w, "read key")
  /\ certRows' = [certRows EXCEPT ![d] = [cert |-> jobs[w].pair, key |-> files[d].key]]
  /\ NextDomain(w)
  /\ UNCHANGED files /\ Succeed

\* saveLEAndCache and generateSelfSignedCert
WriteCert(w) ==
  /\ Stands(w, "write cert") /\ UNCHANGED certRows
  /\ \/ /\ files' = [files EXCEPT ![jobs[w].domain].cert = jobs[w].pair]
        /\ Goto(w, "write key") /\ Succeed
     \/ UNCHANGED files /\ NextDomain(w) /\ Fail

WriteKey(w) ==
  /\ Stands(w, "write key") /\ UNCHANGED certRows
  /\ \/ /\ files' = [files EXCEPT ![jobs[w].domain].key = jobs[w].pair]
        /\ Goto(w, "save") /\ Succeed
     \/ UNCHANGED files /\ NextDomain(w) /\ Fail

SaveCertToDB(w) ==
  LET d == jobs[w].domain  p == jobs[w].pair IN
  /\ Stands(w, "save") /\ UNCHANGED files /\ NextDomain(w)
  /\ \/ /\ Fits(files[d])
        /\ certRows' = [certRows EXCEPT ![d] = [cert |-> p, key |-> p]] /\ Succeed
     \/ ~Fits(files[d]) /\ UNCHANGED certRows /\ Succeed
     \/ UNCHANGED certRows /\ Fail

-----------------------------------------------------------------------------
(* Start-up, crashes and the years.                                         *)

Migrated(d) ==
  IF files[d].cert = 0 \/ files[d].key = 0 THEN certRows[d] ELSE files[d]

MigrateDiskCertsToDB ==
  /\ Stands("start-up", "migrate") /\ Goto("start-up", "none") /\ booting' = FALSE
  /\ files' = [d \in Domains |-> IF d \in settings \/ files[d].cert = 0 THEN files[d] ELSE Missing]
  /\ certRows' = [d \in Domains |-> IF d \in settings THEN Migrated(d) ELSE certRows[d]]
  /\ UNCHANGED <<settings, pairs, managed, renewing, troubles, smooth>>

CrashAndStart ==
  /\ troubles < MaxTroubles /\ troubles' = troubles + 1
  /\ booting' = TRUE /\ smooth' = TRUE /\ renewing' = FALSE /\ managed' = settings
  /\ jobs' = [w \in Workers |->
                IF w = "start-up" THEN [NoJob EXCEPT !.pc = "check", !.todo = settings] ELSE NoJob]
  /\ UNCHANGED <<settings, files, certRows, pairs>>

\* Starting takes minutes, a certificate lasts months: none ages meanwhile.
\* How old one is that is in no file is all the same.
GrowOld(i) ==
  /\ ~booting /\ pairs[i].age # "expired" /\ \E d \in Domains : files[d].cert = i
  /\ pairs' = [pairs EXCEPT ![i].age = IF @ = "fresh" THEN "expiring" ELSE "expired"]
  /\ UNCHANGED <<settings, files, certRows, managed, renewing, jobs, booting, troubles, smooth>>

CertificatesNext ==
  \/ \E j \in Jobs : \/ \E domains \in SUBSET Domains : APIACMEConfig(j, domains)
                     \/ \E d \in Domains : \/ APIACMEConvertToAuto(j, d)
                                           \/ APIACMERemoveDomain(j, d)
                                           \/ APIACMERenew(j, d)
                     \/ DeleteRow(j) \/ RemoveCert(j) \/ RemoveKey(j)
                     \/ StopRenewing(j) \/ UpdateDomains(j)
                     \/ RenewCertificate(j) \/ ReadKey(j)
  \/ \E w \in Workers : \/ WriteCert(w) \/ WriteKey(w) \/ SaveCertToDB(w) \/ Finish(w)
                        \/ \E d \in Domains : ObtainCertificate(w, d)
  \/ RenewalRound \/ MigrateDiskCertsToDB \/ CrashAndStart
  \/ \E i \in DOMAIN pairs : GrowOld(i)

CertificatesSpec == CertificatesInit /\ [][CertificatesNext]_certVars

-----------------------------------------------------------------------------
(* PROPERTIES                                                               *)

\* Whatever goroutines were doing to whichever files when the process died, a
\* start-up in which nothing fails ends with every configured domain answering
\* handshakes: a certificate without its key, one that expired and a row that
\* never followed its files are all repaired before the listeners open.
StartUpHeals ==
  [][booting /\ ~booting' /\ smooth => \A d \in settings : Served(d)']_certVars
=============================================================================
