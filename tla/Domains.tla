-------------------------------- MODULE Domains --------------------------------
(* The domains and certificates an administrator configures (proxyconfig/route.go,
   proxyconfig/cert.go), and what the proxies take of them: the target of a host,
   from a cache that a lookup may fill beside the calls, and the certificate of a
   handshake, from a cache that only age empties (proxy/server_manager.go).      *)
EXTENDS Integers, FiniteSets

CONSTANTS
  DomainIds, DomainForms,  \* a form: [name, enabled, forced, target, cert]
  Wildcard, DefaultName,   \* names: a pattern that matches every host, and "default"
  Hosts,                   \* names requests and handshakes ask for
  CertIds, Pairs,          \* ids of certificates, and key pairs
  CertCacheTTL,            \* ticks of certCache, five minutes
  MaxConfigChanges,        \* bound: calls that write a row
  Blank                    \* no row, no entry, no target

\* Rows: what a form says, and what is left of it when its group is deleted.
DomainRecords == [name : {f.name : f \in DomainForms}, enabled : BOOLEAN, forced : BOOLEAN,
                  target : {f.target : f \in DomainForms} \cup {Blank},
                  cert : CertIds \cup {Blank}]

ASSUME DomainsAssumption ==
  /\ DomainForms \subseteq DomainRecords /\ Blank \notin DomainRecords \cup DomainIds
  /\ CertCacheTTL \in Nat

VARIABLES
  domainRows,    \* id -> form or Blank
  domainCache,   \* name -> form or Blank
  lookup,        \* the lookup that has read a row and will store it, or Blank
  ungrouped,     \* the id whose row SetDomainGroupID has updated, or Blank
  ghosts,        \* names a domain was renamed from, or whose lookup was overtaken
  sslCerts,      \* id -> [source, names, pair, live] or Blank
  certEdit,      \* the row APICertUpdate has read, [id, row], or Blank
  certCache,     \* host -> [pair, age] or Blank
  handshake,     \* the pair a handshake has read, [host, pair], or Blank
  unchangedFor,  \* ticks since a row changed
  configChanges

routeVars == <<domainRows, domainCache, lookup, ungrouped, ghosts>>
tlsVars == <<sslCerts, certEdit, certCache, handshake>>
domainVars == <<routeVars, tlsVars, unchangedFor, configChanges>>

Names == {f.name : f \in DomainForms} \cup Hosts \cup {DefaultName}

DomainsInit ==
  /\ domainRows = [i \in DomainIds |-> Blank] /\ domainCache = [n \in Names |-> Blank]
  /\ lookup = Blank /\ ungrouped = Blank /\ ghosts = {}
  /\ sslCerts = [i \in CertIds |-> Blank] /\ certEdit = Blank
  /\ certCache = [h \in Hosts |-> Blank] /\ handshake = Blank
  /\ unchangedFor = CertCacheTTL /\ configChanges = 0

WritesRow ==
  /\ configChanges < MaxConfigChanges /\ configChanges' = configChanges + 1 /\ unchangedFor' = 0
NoRowChanges == UNCHANGED <<unchangedFor, configChanges>>

Overtaken(n) == IF lookup # Blank /\ lookup.name = n THEN {n} ELSE {}
Settles(n) == (ghosts \ {n}) \cup Overtaken(n)
-------------------------------------------------------------------------------
\* The name of a domain is unique.
WriteDomain(i, form) ==
  /\ \A j \in DomainIds \ {i} : domainRows[j] # Blank => domainRows[j].name # form.name
  /\ domainRows' = [domainRows EXCEPT ![i] = form]
  /\ domainCache' = [domainCache EXCEPT ![form.name] = form]

AddDomain ==
  /\ WritesRow /\ \E i \in DomainIds, form \in DomainForms :
       domainRows[i] = Blank /\ WriteDomain(i, form) /\ ghosts' = Settles(form.name)
  /\ UNCHANGED <<lookup, ungrouped, tlsVars>>

\* A new name leaves what the cache holds under the old one.
RenamedFrom(i, form) == IF domainRows[i].name = form.name THEN {} ELSE {domainRows[i].name}
UpdateDomain ==
  /\ WritesRow /\ \E i \in DomainIds, form \in DomainForms :
       /\ domainRows[i] # Blank /\ WriteDomain(i, form)
       /\ ghosts' = Settles(form.name) \cup RenamedFrom(i, form)
  /\ UNCHANGED <<lookup, ungrouped, tlsVars>>

RowStays(name) == UNCHANGED domainCache
ForgetName(name) == domainCache' = [domainCache EXCEPT ![name] = Blank]
DeleteDomain ==
  /\ WritesRow /\ \E i \in DomainIds :
       /\ domainRows[i] # Blank /\ domainRows' = [domainRows EXCEPT ![i] = Blank]
       /\ ForgetName(domainRows[i].name)
       /\ ghosts' = Settles(domainRows[i].name)
  /\ UNCHANGED <<lookup, ungrouped, tlsVars>>

\* The deletion of a backend group takes it from its domains; the lock is not held
\* between the row and the cache.
SetDomainGroupID ==
  /\ \/ /\ ungrouped = Blank /\ WritesRow /\ \E i \in DomainIds :
             /\ domainRows[i] # Blank /\ domainRows' = [domainRows EXCEPT ![i].target = Blank]
             /\ ungrouped' = i /\ ghosts' = ghosts \cup Overtaken(domainRows[i].name)
        /\ UNCHANGED domainCache
     \/ /\ ungrouped # Blank /\ ungrouped' = Blank /\ NoRowChanges
        /\ IF domainRows[ungrouped] = Blank THEN UNCHANGED <<domainCache, ghosts>>
           ELSE LET name == domainRows[ungrouped].name
                IN ForgetName(name) /\ ghosts' = Settles(name)
        /\ UNCHANGED domainRows
  /\ UNCHANGED <<lookup, tlsVars>>

\* GetDomainByName, when the cache has no entry.
GetDomainByName ==
  /\ \/ /\ lookup = Blank /\ \E i \in DomainIds :
             /\ domainRows[i] # Blank /\ domainCache[domainRows[i].name] = Blank
             /\ lookup' = domainRows[i]
        /\ UNCHANGED domainCache
     \/ /\ lookup # Blank /\ lookup' = Blank
        /\ domainCache' = [domainCache EXCEPT ![lookup.name] = lookup]
  /\ NoRowChanges /\ UNCHANGED <<domainRows, ungrouped, ghosts, tlsVars>>
-------------------------------------------------------------------------------
RowsOf(name) == {i \in DomainIds : domainRows[i] # Blank /\ domainRows[i].name = name}
OfRows == [n \in Names |-> IF RowsOf(n) = {} THEN Blank ELSE domainRows[CHOOSE i \in RowsOf(n) : TRUE]]

\* Where a request goes: its own domain, or "default"; Blank if nowhere.
Sends(form) == form # Blank /\ form.enabled /\ form.target # Blank
Director(config, host) ==
  IF Sends(config[host]) THEN config[host].target
  ELSE IF Sends(config[DefaultName]) THEN config[DefaultName].target ELSE Blank

\* A plain HTTP request is sent to HTTPS, whether or not the domain is enabled.
Redirected(config, host) == config[host] # Blank /\ config[host].forced
-------------------------------------------------------------------------------
\* The certificate of the first domain in order of names that matches, is enabled and
\* has one that is valid; otherwise one the ACME client obtained. "*" sorts first.
Certified(i, host) ==
  /\ domainRows[i] # Blank /\ domainRows[i].enabled /\ domainRows[i].name \in {host, Wildcard}
  /\ domainRows[i].cert # Blank /\ sslCerts[domainRows[i].cert] # Blank
  /\ sslCerts[domainRows[i].cert].live

Obtained(c, host) ==
  sslCerts[c] # Blank /\ sslCerts[c].source = "acme" /\ sslCerts[c].live /\ host \in sslCerts[c].names

GetCertificate(host) ==
  LET own == {i \in DomainIds : Certified(i, host)}
      first == {i \in own : domainRows[i].name = Wildcard \/ \A j \in own : domainRows[j].name # Wildcard}
  IN IF own # {} THEN {sslCerts[domainRows[i].cert].pair : i \in first}
     ELSE {sslCerts[c].pair : c \in {c \in CertIds : Obtained(c, host)}}

InCertCache(h) == certCache[h] # Blank /\ certCache[h].age < CertCacheTTL

\* A handshake between its read and the cache; it does not take five minutes.
GetTLSCertificate ==
  /\ \/ /\ handshake = Blank /\ \E h \in Hosts :
             ~InCertCache(h) /\ \E p \in GetCertificate(h) : handshake' = [host |-> h, pair |-> p]
        /\ UNCHANGED certCache
     \/ /\ handshake # Blank /\ handshake' = Blank
        /\ certCache' = [certCache EXCEPT ![handshake.host] = [pair |-> handshake.pair, age |-> 0]]
  /\ NoRowChanges /\ UNCHANGED <<routeVars, sslCerts, certEdit>>

WriteCertRow(c, row) == sslCerts' = [sslCerts EXCEPT ![c] = row]

AddCert ==
  /\ WritesRow /\ \E c \in CertIds, p \in Pairs, n \in Hosts :
       sslCerts[c] = Blank /\ WriteCertRow(c, [source |-> "manual", names |-> {n}, pair |-> p, live |-> TRUE])
  /\ UNCHANGED <<routeVars, certEdit, certCache, handshake>>

\* The row is read, then written as a whole with a new pair or, if there is none,
\* with the pair that was read.
APICertUpdate ==
  /\ \/ /\ certEdit = Blank /\ NoRowChanges /\ \E c \in CertIds :
             sslCerts[c] # Blank /\ certEdit' = [id |-> c, row |-> sslCerts[c]]
        /\ UNCHANGED sslCerts
     \/ /\ certEdit # Blank /\ certEdit' = Blank
        /\ IF sslCerts[certEdit.id] = Blank THEN UNCHANGED sslCerts /\ NoRowChanges
           ELSE /\ WritesRow
                /\ \/ WriteCertRow(certEdit.id, certEdit.row)
                   \/ \E p \in Pairs : WriteCertRow(certEdit.id, [certEdit.row EXCEPT !.pair = p, !.live = TRUE])
  /\ UNCHANGED <<routeVars, certCache, handshake>>

DeleteCert ==
  /\ WritesRow /\ \E c \in CertIds : sslCerts[c] # Blank /\ WriteCertRow(c, Blank)
  /\ UNCHANGED <<routeVars, certEdit, certCache, handshake>>

UpsertACMECert ==
  /\ WritesRow /\ \E n \in Hosts, p \in Pairs :
       LET same == {c \in CertIds : sslCerts[c] # Blank /\ sslCerts[c].source = "acme" /\ n \in sslCerts[c].names}
       IN \E c \in IF same # {} THEN same ELSE {d \in CertIds : sslCerts[d] = Blank} :
            WriteCertRow(c, [source |-> "acme", names |-> {n}, pair |-> p, live |-> TRUE])
  /\ UNCHANGED <<routeVars, certEdit, certCache, handshake>>

DeleteCertByDomainAndSource ==
  /\ WritesRow /\ \E n \in Hosts :
       sslCerts' = [c \in CertIds |->
         IF sslCerts[c] # Blank /\ sslCerts[c].source = "acme" /\ n \in sslCerts[c].names THEN Blank
         ELSE sslCerts[c]]
  /\ UNCHANGED <<routeVars, certEdit, certCache, handshake>>

CertExpires ==
  /\ WritesRow /\ \E c \in CertIds : sslCerts[c] # Blank /\ sslCerts' = [sslCerts EXCEPT ![c].live = FALSE]
  /\ UNCHANGED <<routeVars, certEdit, certCache, handshake>>

Ticks(n) == IF n < CertCacheTTL THEN n + 1 ELSE n
TimeGoesOn ==
  /\ handshake = Blank /\ unchangedFor' = Ticks(unchangedFor)
  /\ certCache' = [h \in Hosts |-> IF certCache[h] = Blank THEN Blank ELSE [certCache[h] EXCEPT !.age = Ticks(@)]]
  /\ UNCHANGED <<routeVars, sslCerts, certEdit, handshake, configChanges>>

\* A start warms the cache with every row.
WarmDomainCache ==
  /\ domainCache' = OfRows
  /\ lookup' = Blank /\ ungrouped' = Blank /\ ghosts' = {} /\ certEdit' = Blank /\ handshake' = Blank
  /\ certCache' = [h \in Hosts |-> Blank]
  /\ UNCHANGED <<domainRows, sslCerts, unchangedFor, configChanges>>

DomainsNext ==
  AddDomain \/ UpdateDomain \/ DeleteDomain \/ SetDomainGroupID \/ GetDomainByName
    \/ GetTLSCertificate \/ AddCert \/ APICertUpdate \/ DeleteCert \/ UpsertACMECert
    \/ DeleteCertByDomainAndSource \/ CertExpires \/ TimeGoesOn \/ WarmDomainCache

DomainsSpec == DomainsInit /\ [][DomainsNext]_domainVars
-------------------------------------------------------------------------------
OfCache == [n \in Names |-> IF domainCache[n] # Blank THEN domainCache[n] ELSE OfRows[n]]
InDoubt == IF ungrouped = Blank \/ domainRows[ungrouped] = Blank THEN {} ELSE {domainRows[ungrouped].name}

RoutesFollowRows ==
  \A h \in Hosts : {h, DefaultName} \cap (ghosts \cup InDoubt) = {} =>
    /\ Director(OfCache, h) = Director(OfRows, h)
    /\ Redirected(OfCache, h) = Redirected(OfRows, h)

HandshakesFollowRows ==
  unchangedFor = CertCacheTTL =>
    \A h \in Hosts : InCertCache(h) => certCache[h].pair \in GetCertificate(h)

\* Requests go where the rows send them, after any calls and lookups, except for a
\* name that a domain was renamed from, or whose lookup a call overtook (until the
\* next start); and five minutes after the last change of a domain or a certificate
\* every handshake gets the certificate the rows give it (GetDomainByName, director,
\* GetTLSCertificate).
ProxiesFollowDomains == RoutesFollowRows /\ HandshakesFollowRows
=============================================================================
