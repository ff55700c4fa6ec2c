------------------------------ MODULE MCDaemon ------------------------------
(* An instance, for TLC, of the parts of the daemon that share no state with the
   others here: one at a time moves, and part, chosen at the start, says which.
   The states of this module are those of its parts put side by side.         *)
EXTENDS RequestPipeline, Challenges, ResponseScan, SmartLimit,
        Sessions, LoginGuard, RulesAPI, MetricsStore, Certificates, RuntimeSettings,
        AccessLog, LogQueries, Accounts, Lifecycle, Domains, Alerts, BlockReports, CidrMerge, TLC

CONSTANTS a1, a2, e1, e2, c1, c2, b1, b2, s1, nothing

\* Whoever overtakes whom: the two callers of a component are alike, and nothing
\* is chosen by who they are.
Symmetry == Permutations({a1, a2})

\* A POST request of every kind of evidence, with a body that is long or that
\* breaks off, and a WebSocket upgrade.
MCProfiles ==
  [ws : {FALSE}, post : {TRUE}, trips : {{}, {"sqli", "xss"}, {"schema"}, {"patch"}},
   body : {"long", "broken"}]
  \cup [ws : {TRUE}, post : {FALSE}, trips : {{"rule"}, {"schema", "sqli"}}, body : {"none"}]

MCDetectorOrder == {<<"sqli", "xss">>}

\* Bodies that match rules, one that cannot be read, one that is not scanned.
MCKinds ==
  [size : {"long"}, text : {TRUE}, matches : {{"mask"}, {"block", "detect"}}]
  \cup [size : {"broken"}, text : {TRUE}, matches : {{}}]
  \cup [size : {"short"}, text : {FALSE}, matches : {{}}]

\* A file may have one line; any number of backups, compressed, or one that is not.
Compressing == [lines |-> 1, backups |-> 0, compress |-> TRUE]
MCRotations == {Compressing, [lines |-> 1, backups |-> 1, compress |-> FALSE]}

\* Blocked lines of two hours, an error of the day after, one that cannot be parsed, and
\* one that is too long.
MCLineKinds ==
  [day : {1}, hour : {1, 2}, action : {"block"}, status : {403}]
  \cup [day : {2}, hour : {1}, action : {"pass"}, status : {502}]
  \cup [junk : {"broken", "long"}]
MCBounds == [day : {1, 2}, hour : {1}, form : {"RFC3339", "plain"}]

\* A domain with a certificate or without one, "default", and a pattern whose plain
\* requests are redirected.
MCDomainForms ==
  [name : {"www"}, enabled : {TRUE}, forced : {FALSE}, target : {"g1"}, cert : {c1, nothing}]
  \cup [name : {"default"}, enabled : {TRUE}, forced : {FALSE}, target : {"g2"}, cert : {nothing}]
  \cup [name : {"*"}, enabled : {TRUE}, forced : {TRUE}, target : {"g2"}, cert : {c2}]

\* A rule of two matches, and one whose window and rest outlive what is kept.
MCAlertForms ==
  {[threshold |-> 2, window |-> 1, cooldown |-> 2], [threshold |-> 2, window |-> 2, cooldown |-> 3]}
MCChannelForms == {[address |-> "public", enabled |-> TRUE], [address |-> "private", enabled |-> FALSE]}

\* Every network of eight addresses, and networks of IPv6 whose mask has as many ones
\* as a word has bits, one more, and all.
MCWritten == {t \in Texts : t.v6 => t.ones \in {3, 4, 12}}

\* The goroutines that compress and those that store share nothing, and are not
\* followed together.
StoresUncompressed(r) == useDB => ~r.compress

VARIABLE part

Parts == {"pipeline", "challenges", "scan", "limit",
          "sessions", "login", "metrics", "certificates", "settings",
          "access log", "log list", "log cache", "accounts", "life", "reports",
          "alerting", "domains", "merge"} \cup Managers

requestVars == <<pipelineVars, challengeVars, scanVars, limitVars, mergeVars>>
operationVars == <<logVars, queryVars, accountVars, lifeVars, domainVars, alertVars, reportVars>>
daemonVars == <<part, requestVars, sessionVars, loginVars, rulesVars, metricsVars, certVars,
                settingsVars, operationVars>>

\* A part starts in several ways only when it is the one that moves.
Init ==
  /\ part \in Parts
  /\ PipelineInit /\ ChallengesInit /\ ScanInit /\ LimitInit /\ MergeInit
  /\ SessionsInit /\ LoginInit /\ RulesInit /\ MetricsInit /\ CertificatesInit /\ SettingsInit
  /\ LogInit /\ QueriesInit /\ AccountsInit /\ LifeInit /\ ReportsInit /\ AlertsInit /\ DomainsInit
  /\ part = "certificates" \/ settings = {}
  /\ (part = "access log" \/ rotation = Compressing) /\ StoresUncompressed(rotation)
  /\ part = "accounts" \/ yaml = ""
  /\ part = "mail" \/ keyIsSet
  /\ channel.enabled /\ (part = "alerting" \/ alertRule.window = 1)

Moves(p) == part = p /\ UNCHANGED part

NextOfRequests ==
  /\ \/ Moves("pipeline") /\ PipelineNext /\ UNCHANGED <<challengeVars, scanVars, limitVars, mergeVars>>
     \/ Moves("challenges") /\ ChallengesNext /\ UNCHANGED <<pipelineVars, scanVars, limitVars, mergeVars>>
     \/ Moves("scan") /\ ScanNext /\ UNCHANGED <<pipelineVars, challengeVars, limitVars, mergeVars>>
     \/ Moves("limit") /\ LimitNext /\ UNCHANGED <<pipelineVars, challengeVars, scanVars, mergeVars>>
     \/ Moves("merge") /\ MergeNext /\ UNCHANGED <<pipelineVars, challengeVars, scanVars, limitVars>>
  /\ UNCHANGED <<sessionVars, loginVars, rulesVars, metricsVars, certVars, settingsVars,
                 operationVars>>

NextOfAdministration ==
  /\ \/ /\ Moves("sessions") /\ SessionsNext
        /\ UNCHANGED <<loginVars, rulesVars, metricsVars, certVars, settingsVars>>
     \/ /\ Moves("login") /\ LoginNext
        /\ UNCHANGED <<sessionVars, rulesVars, metricsVars, certVars, settingsVars>>
     \/ /\ part \in Managers /\ Moves(part) /\ RulesNext({part})
        /\ UNCHANGED <<sessionVars, loginVars, metricsVars, certVars, settingsVars>>
     \/ /\ Moves("metrics") /\ MetricsNext
        /\ UNCHANGED <<sessionVars, loginVars, rulesVars, certVars, settingsVars>>
     \/ /\ Moves("certificates") /\ CertificatesNext
        /\ UNCHANGED <<sessionVars, loginVars, rulesVars, metricsVars, settingsVars>>
     \/ /\ Moves("settings") /\ SettingsNext
        /\ UNCHANGED <<sessionVars, loginVars, rulesVars, metricsVars, certVars>>
  /\ UNCHANGED <<requestVars, operationVars>>

NextOfOperation ==
  /\ \/ /\ Moves("access log") /\ LogNext /\ StoresUncompressed(rotation')
        /\ UNCHANGED <<queryVars, accountVars, lifeVars, domainVars, alertVars, reportVars>>
     \/ /\ Moves("log list") /\ FileNext
        /\ UNCHANGED <<logVars, accountVars, lifeVars, domainVars, alertVars, reportVars>>
     \/ /\ Moves("log cache") /\ CacheNext
        /\ UNCHANGED <<logVars, accountVars, lifeVars, domainVars, alertVars, reportVars>>
     \/ /\ Moves("accounts") /\ AccountsNext
        /\ UNCHANGED <<logVars, queryVars, lifeVars, domainVars, alertVars, reportVars>>
     \/ /\ Moves("life") /\ LifeNext
        /\ UNCHANGED <<logVars, queryVars, accountVars, domainVars, alertVars, reportVars>>
     \/ /\ Moves("domains") /\ DomainsNext
        /\ UNCHANGED <<logVars, queryVars, accountVars, lifeVars, alertVars, reportVars>>
     \/ /\ Moves("alerting") /\ AlertsNext
        /\ UNCHANGED <<logVars, queryVars, accountVars, lifeVars, domainVars, reportVars>>
     \/ /\ Moves("reports") /\ ReportsNext
        /\ UNCHANGED <<logVars, queryVars, accountVars, lifeVars, domainVars, alertVars>>
  /\ UNCHANGED <<requestVars, sessionVars, loginVars, rulesVars, metricsVars, certVars,
                 settingsVars>>

Next == NextOfRequests \/ NextOfAdministration \/ NextOfOperation

Spec == Init /\ [][Next]_daemonVars
=============================================================================
