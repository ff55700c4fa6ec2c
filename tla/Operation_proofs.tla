-------------------------- MODULE Operation_proofs ---------------------------
(* What keeps the daemon going: the settings that an administrator was told are
   saved, the queries of the log, the order in which everything is closed, the
   domains and certificates proxies use, and what a start does for the latter.  *)
EXTENDS RuntimeSettings, LogQueries, Lifecycle, Domains, Certificates, SequenceTheorems, TLAPS

-----------------------------------------------------------------------------
(* What an administrator was told is saved is what a restart finds, for any
   number of sections, contents, requests, versions and backups.             *)
Calls ==
  {NoCall}
  \cup [pc : {"save"}, copy : Configurations, late : BOOLEAN]
  \cup [pc : {"snapshot"}, config : Configurations]
  \cup [pc : {"backup"}, rules : SUBSET RuleRows]

Versions == [kind : {"version", "backup"}, config : Configurations, rules : SUBSET RuleRows]

SettingsTypeOK ==
  /\ saved \in Configurations /\ acked \in Configurations
  /\ rules \subseteq RuleRows /\ overtaken \subseteq Sections
  /\ versions \in Seq(Versions)
  /\ calls \in [Admins -> Calls]

(* A request nobody has overtaken writes its section into what is stored now. *)
CopiesAreCurrent ==
  \A a \in Admins : Is(a, "save") /\ ~calls[a].late => calls[a].copy = Loaded(saved)

RInv == SettingsTypeOK /\ CopiesAreCurrent /\ AcknowledgedIsSaved

-----------------------------------------------------------------------------
\* Reading a configuration fills its gaps, and finds none the second time.
LEMMA LoadedType ==
  ASSUME NEW config \in Configurations
  PROVE  /\ Loaded(config) \in Configurations
         /\ \A s \in Sections : Loaded(config)[s] # "unset"
         /\ Loaded(Loaded(config)) = Loaded(config)
  BY RuntimeSettingsAssumption DEF Configurations, Loaded

\* A step that writes leaves no request that could still save what it read.
LEMMA OvertakingType ==
  ASSUME NEW a \in Admins, calls \in [Admins -> Calls]
  PROVE  /\ Overtaking(a) \in [Admins -> Calls]
         /\ \A b \in Admins : Overtaking(a)[b].pc = "save" => Overtaking(a)[b].late
<1>1. ASSUME NEW b \in Admins
      PROVE  /\ Overtaking(a)[b] \in Calls
             /\ Overtaking(a)[b].pc = "save" => Overtaking(a)[b].late
  <2>1. CASE b = a
    BY <2>1 DEF Overtaking, Calls, NoCall
  <2>2. CASE b # a /\ Is(b, "save")
    <3>1. calls[b] \in [pc : {"save"}, copy : Configurations, late : BOOLEAN]
      BY <2>2 DEF Calls, Is, NoCall
    <3> QED
      BY <2>2, <3>1 DEF Overtaking, Calls
  <2>3. CASE b # a /\ ~Is(b, "save")
    BY <2>3 DEF Overtaking, Is
  <2> QED
    BY <2>1, <2>2, <2>3
<1> QED
  BY <1>1 DEF Overtaking

\* The defaults are stored and acknowledged.
LEMMA RInit == SettingsInit => RInv
  BY RuntimeSettingsAssumption
  DEF SettingsInit, RInv, SettingsTypeOK, CopiesAreCurrent, AcknowledgedIsSaved, Configurations,
      Calls, Versions, NoCall, Is, Loaded

\* A write of everything: an update of the whole object, a reset, a restore.
LEMMA WholeWrite ==
  ASSUME RInv, NEW a \in Admins, NEW config \in Configurations, NEW kept \in SUBSET RuleRows,
         saved' = config, acked' = Loaded(config), overtaken' = {}, rules' = kept,
         calls' = Overtaking(a), UNCHANGED versions
  PROVE  RInv'
<1> USE DEF RInv, SettingsTypeOK
<1>1. SettingsTypeOK'
  BY LoadedType, OvertakingType
<1>2. CopiesAreCurrent'
  BY OvertakingType DEF CopiesAreCurrent, Is
<1>3. AcknowledgedIsSaved'
  BY DEF AcknowledgedIsSaved, Loaded
<1> QED
  BY <1>1, <1>2, <1>3

\* Whatever a request does, it keeps the promise.
LEMMA RNext == RInv /\ [SettingsNext]_settingsVars => RInv'
<1> SUFFICES ASSUME RInv, [SettingsNext]_settingsVars
             PROVE  RInv'
  OBVIOUS
<1> USE DEF RInv, SettingsTypeOK
<1>1. ASSUME NEW a \in Admins, LoadRuntimeConfig(a)
      PROVE  RInv'
  <2>1. Loaded(saved) \in Configurations
    BY LoadedType
  <2>2. SettingsTypeOK'
    BY <1>1, <2>1 DEF LoadRuntimeConfig, Calls
  <2>3. CopiesAreCurrent'
    BY <1>1 DEF LoadRuntimeConfig, CopiesAreCurrent, Is, Loaded
  <2> QED
    BY <1>1, <2>2, <2>3 DEF LoadRuntimeConfig, AcknowledgedIsSaved, Loaded
<1>2. ASSUME NEW a \in Admins, NEW r \in Sections, NEW content \in Contents \ {"unset"},
             SaveRuntimeConfigToDB(a, r, content)
      PROVE  RInv'
  <2> DEFINE c == calls[a]
  <2>1. c \in [pc : {"save"}, copy : Configurations, late : BOOLEAN]
    BY <1>2 DEF SaveRuntimeConfigToDB, Is, Calls, NoCall
  <2>2. CASE /\ saved' = Replaced(c.copy, r, content) /\ acked' = [acked EXCEPT ![r] = content]
             /\ overtaken' = (IF c.late THEN Sections ELSE overtaken) \ {r}
             /\ calls' = Overtaking(a)
    <3>1. SettingsTypeOK'
      BY <1>2, <2>1, <2>2, OvertakingType DEF SaveRuntimeConfigToDB, Replaced, Configurations
    <3>2. CopiesAreCurrent'
      BY <2>2, OvertakingType DEF CopiesAreCurrent, Is
    <3>3. ASSUME NEW s \in Sections \ overtaken'
          PROVE  Loaded(saved)'[s] = acked'[s]
      <4>1. CASE s = r
        BY <2>1, <2>2, <4>1 DEF Replaced, Loaded, Configurations
      <4>2. CASE s # r
        <5>1. ~c.late /\ s \notin overtaken
          BY <2>1, <2>2, <3>3, <4>2
        <5>2. c.copy = Loaded(saved)
          BY <1>2, <5>1 DEF CopiesAreCurrent, SaveRuntimeConfigToDB
        <5>3. saved'[s] = Loaded(saved)[s] /\ acked'[s] = acked[s]
          BY <2>1, <2>2, <4>2, <5>2 DEF Replaced, Configurations
        <5>4. Loaded(saved)[s] # "unset" /\ Loaded(saved)[s] = acked[s]
          BY <5>1, LoadedType DEF AcknowledgedIsSaved
        <5> QED
          BY <5>3, <5>4 DEF Loaded
      <4> QED
        BY <4>1, <4>2
    <3> QED
      BY <3>1, <3>2, <3>3 DEF AcknowledgedIsSaved
  <2>3. CASE calls' = [calls EXCEPT ![a] = NoCall] /\ UNCHANGED <<saved, acked, overtaken>>
    BY <1>2, <2>3 DEF SaveRuntimeConfigToDB, Calls, CopiesAreCurrent, AcknowledgedIsSaved, Is,
                      Loaded, NoCall
  <2> QED
    BY <1>2, <2>2, <2>3 DEF SaveRuntimeConfigToDB
<1>3. ASSUME NEW a \in Admins, NEW config \in Configurations, UpdateConfigAPI(a, config)
      PROVE  RInv'
  BY <1>3, WholeWrite DEF UpdateConfigAPI
<1>4. ASSUME NEW a \in Admins, ResetConfigAPI(a)
      PROVE  RInv'
  <2>1. [s \in Sections |-> "default"] \in Configurations
    BY RuntimeSettingsAssumption DEF Configurations
  <2> QED
    BY <1>3, <1>4, <2>1 DEF ResetConfigAPI
<1>5. ASSUME NEW a \in Admins, ReadSystemConfig(a) \/ ReadRuleTables(a)
      PROVE  RInv'
  BY <1>5 DEF ReadSystemConfig, ReadRuleTables, Calls, CopiesAreCurrent, AcknowledgedIsSaved, Is,
              Loaded
<1>6. ASSUME NEW a \in Admins, NEW version \in Versions, Keep(a, version)
      PROVE  RInv'
  BY <1>6 DEF Keep, Calls, CopiesAreCurrent, AcknowledgedIsSaved, Is, Loaded, NoCall
<1>7. ASSUME NEW a \in Admins, CreateSnapshot(a)
      PROVE  RInv'
  <2>1. calls[a].config \in Configurations
    BY <1>7 DEF CreateSnapshot, Is, Calls, NoCall
  <2> QED
    BY <1>6, <1>7, <2>1 DEF CreateSnapshot, Versions
<1>8. ASSUME NEW a \in Admins, APIBackupConfig(a)
      PROVE  RInv'
  <2>1. calls[a].rules \in SUBSET RuleRows
    BY <1>8 DEF APIBackupConfig, Is, Calls, NoCall
  <2> QED
    BY <1>6, <1>8, <2>1 DEF APIBackupConfig, Versions
<1>9. ASSUME NEW a \in Admins, NEW i \in DOMAIN versions,
             RestoreVersion(a, versions[i]) \/ APIRestoreConfig(a, versions[i])
      PROVE  RInv'
  <2>1. versions[i] \in Versions
    OBVIOUS
  <2>2. PICK restored \in SUBSET RuleRows : Restored(a, versions[i], restored)
    BY <1>9, <2>1 DEF RestoreVersion, APIRestoreConfig, Versions
  <2> QED
    BY <2>1, <2>2, WholeWrite DEF Restored, Versions
<1>10. ASSUME ChangeRules
       PROVE  RInv'
  BY <1>10 DEF ChangeRules, CopiesAreCurrent, AcknowledgedIsSaved, Is, Loaded
<1>11. ASSUME RestartWithConfig
       PROVE  RInv'
  BY <1>11 DEF RestartWithConfig, Calls, CopiesAreCurrent, AcknowledgedIsSaved, Is, Loaded, NoCall
<1>12. ASSUME UNCHANGED settingsVars
       PROVE  RInv'
  BY <1>12 DEF settingsVars, CopiesAreCurrent, AcknowledgedIsSaved, Is, Loaded
<1> QED
  BY <1>1, <1>2, <1>3, <1>4, <1>5, <1>7, <1>8, <1>9, <1>10, <1>11, <1>12 DEF SettingsNext

LEMMA RInvariant == SettingsSpec => []RInv
<1>1. SettingsInit => RInv
  BY RInit
<1>2. RInv /\ [SettingsNext]_settingsVars => RInv'
  BY RNext
<1> QED
  BY <1>1, <1>2, PTL DEF SettingsSpec

(* The row, the versions and what every request carries keep their types
   (loadCurrentRuntimeConfig, saveRuntimeConfigToDB).                          *)
THEOREM SettingsTyping == SettingsSpec => []SettingsTypeOK
<1>1. RInv => SettingsTypeOK
  BY DEF RInv
<1> QED
  BY <1>1, RInvariant, PTL

(* loadCurrentRuntimeConfig fills gaps and the handlers of sections write the
   whole object back: a section that no overtaken request wrote to is what its last
   acknowledgement said, after any resets, rollbacks and restores.             *)
THEOREM NoSettingIsLost == SettingsSpec => []AcknowledgedIsSaved
<1>1. RInv => AcknowledgedIsSaved
  BY DEF RInv
<1> QED
  BY <1>1, RInvariant, PTL

-----------------------------------------------------------------------------
(* The queries of the log, for any number of callers and keys. *)
\* The steps of the caller that runs the query of a key.
Leads(pc) == pc \in {"leads", "loads", "loaded", "done"}

\* A query under way: what is added to and waits on it.
Loads == [key : QueryKeys, added : BOOLEAN, done : BOOLEAN, val : Int \cup {Unloaded}]

\* Callers refer to queries that were begun, and to keys that there are.
QueriesTyping ==
  /\ rowsVersion \in Int /\ flights \in Seq(Loads)
  /\ DOMAIN registered = QueryKeys /\ DOMAIN reader = Readers
  /\ \A r \in Readers : reader[r].pc = "missed" \/ Leads(reader[r].pc) => reader[r].key \in QueryKeys
  /\ \A r \in Readers : Leads(reader[r].pc) => reader[r].flight \in 1..Len(flights)

\* The key of a caller that runs a query is taken.
LeadersAreRegistered ==
  \A r \in Readers : Leads(reader[r].pc) => registered[reader[r].key] # 0

\* Why there is one query of a key at a time.
LoadersInv == QueriesTyping /\ LeadersAreRegistered /\ OneLoadAtATime

\* A query goes on being one.
LEMMA LoadKeepsType ==
  ASSUME NEW l \in Loads
  PROVE  /\ [l EXCEPT !.added = TRUE] \in Loads /\ [l EXCEPT !.done = TRUE] \in Loads
         /\ \A v \in Int : [l EXCEPT !.val = v] \in Loads
  BY DEF Loads

\* Nobody asks.
LEMMA LoadersStart == QueriesInit => LoadersInv
  BY DEF QueriesInit, LoadersInv, QueriesTyping, LeadersAreRegistered, OneLoadAtATime, Free, Leads

\* Each step of each caller, and of the file reader, keeps it so.
LEMMA LoadersStep == LoadersInv /\ [FileNext \/ CacheNext]_queryVars => LoadersInv'
<1> SUFFICES ASSUME LoadersInv, [FileNext \/ CacheNext]_queryVars PROVE LoadersInv'
  OBVIOUS
<1>0. QueriesTyping /\ LeadersAreRegistered /\ OneLoadAtATime
  BY DEF LoadersInv
\* A step of a reader that neither begins nor ends to lead, and keeps what it leads.
<1>k. ASSUME NEW r \in Readers, DOMAIN reader' = Readers, \A t \in Readers \ {r} : reader'[t] = reader[t],
             ~Leads(reader'[r].pc), reader'[r].pc # "missed" \/ reader'[r].key \in QueryKeys,
             UNCHANGED <<rowsVersion, flights>>,
             registered' = registered \/ (Leads(reader[r].pc) /\ registered' = [registered EXCEPT ![reader[r].key] = 0])
      PROVE  LoadersInv'
  BY <1>0, <1>k DEF LoadersInv, QueriesTyping, LeadersAreRegistered, OneLoadAtATime, Leads
<1>1. ASSUME NEW r \in Readers, NEW k \in QueryKeys, Get(r, k) PROVE LoadersInv'
  <2>1. reader' = [reader EXCEPT ![r] = [Free EXCEPT !.pc = "missed", !.key = k]]
    BY <1>1 DEF Get, Goes
  <2> QED
    BY <1>1, <1>k, <1>0, <2>1 DEF Get, Free, Leads, QueriesTyping
<1>2. ASSUME NEW r \in Readers, Join(r) PROVE LoadersInv'
  <2>1. At(r, "missed") /\ reader[r].key \in QueryKeys /\ UNCHANGED rowsVersion
    BY <1>2, <1>0 DEF Join, At, QueriesTyping
  <2>2. CASE registered[reader[r].key] # 0
    <3>1. UNCHANGED <<flights, registered>>
          /\ reader' = [reader EXCEPT ![r] = [reader[r] EXCEPT !.pc = "waits", !.flight = registered[reader[r].key]]]
      BY <1>2, <2>2 DEF Join, InFlight, Goes
    <3> QED
      BY <2>1, <3>1, <1>k, <1>0 DEF Leads, QueriesTyping
  <2>3. CASE registered[reader[r].key] = 0
    <3>1. /\ flights' = Append(flights, [key |-> reader[r].key, added |-> FALSE, done |-> FALSE, val |-> Unloaded])
          /\ registered' = [registered EXCEPT ![reader[r].key] = Len(flights')]
          /\ reader' = [reader EXCEPT ![r] = [reader[r] EXCEPT !.pc = "leads", !.flight = Len(flights')]]
      BY <1>2, <2>3 DEF Join, InFlight, Goes
    <3>2. flights' \in Seq(Loads) /\ Len(flights') = Len(flights) + 1 /\ Len(flights) \in Nat
      BY <2>1, <3>1, <1>0 DEF QueriesTyping, Loads
    <3>3. /\ reader'[r].pc = "leads" /\ reader'[r].key = reader[r].key /\ reader'[r].flight = Len(flights')
          /\ DOMAIN reader' = Readers /\ \A t \in Readers \ {r} : reader'[t] = reader[t]
      BY <3>1, <1>0 DEF QueriesTyping
    <3>4. QueriesTyping'
      BY <2>1, <3>1, <3>2, <3>3, <1>0 DEF QueriesTyping, Leads
    <3>5. LeadersAreRegistered'
      BY <2>1, <3>1, <3>2, <3>3, <1>0 DEF LeadersAreRegistered, QueriesTyping, Leads
    <3>6. \A t \in Readers \ {r} : Leads(reader[t].pc) => reader[t].key # reader[r].key
      BY <2>3, <1>0 DEF LeadersAreRegistered
    <3>7. OneLoadAtATime'
      BY <3>3, <3>6, <1>0 DEF OneLoadAtATime, Leads
    <3> QED
      BY <3>4, <3>5, <3>7 DEF LoadersInv
  <2> QED
    BY <2>2, <2>3
\* A step of the load itself: who leads, and what for, stays as it is.
<1>l. ASSUME NEW r \in Readers, NEW pc, Leads(reader[r].pc), Leads(pc), reader' = [reader EXCEPT ![r] = [reader[r] EXCEPT !.pc = pc]],
             UNCHANGED <<rowsVersion, registered>>, NEW l \in Loads, flights' = [flights EXCEPT ![reader[r].flight] = l]
      PROVE  LoadersInv'
  <2>1. flights' \in Seq(Loads) /\ Len(flights') = Len(flights)
    BY <1>l, <1>0 DEF QueriesTyping
  <2>2. /\ reader'[r].pc = pc /\ reader'[r].key = reader[r].key /\ reader'[r].flight = reader[r].flight
        /\ DOMAIN reader' = Readers /\ \A t \in Readers \ {r} : reader'[t] = reader[t]
    BY <1>l, <1>0 DEF QueriesTyping
  <2> QED
    BY <1>l, <2>1, <2>2, <1>0 DEF LoadersInv, QueriesTyping, LeadersAreRegistered, OneLoadAtATime, Leads
<1>3. ASSUME NEW r \in Readers, AddToGroup(r) PROVE LoadersInv'
  <2> DEFINE l == [flights[reader[r].flight] EXCEPT !.added = TRUE]
  <2>1. Leads(reader[r].pc) /\ Leads("loads")
    BY <1>3 DEF AddToGroup, At, Leads
  <2>2. l \in Loads
    <3>1. flights[reader[r].flight] \in Loads
      BY <2>1, <1>0 DEF QueriesTyping
    <3> QED BY <3>1, LoadKeepsType
  <2>3. flights' = [flights EXCEPT ![reader[r].flight] = l]
    BY <1>3 DEF AddToGroup, Flight
  <2> QED
    BY <1>3, <1>l, <2>1, <2>2, <2>3 DEF AddToGroup, Goes
<1>4. ASSUME NEW r \in Readers, Load(r) PROVE LoadersInv'
  <2>1. Leads(reader[r].pc) /\ Leads("loaded")
    BY <1>4 DEF Load, At, Leads
  <2>2. PICK v \in {rowsVersion, Failed} : flights' = [flights EXCEPT ![reader[r].flight] = [flights[reader[r].flight] EXCEPT !.val = v]]
    BY <1>4 DEF Load, Flight
  <2>3. [flights[reader[r].flight] EXCEPT !.val = v] \in Loads
    <3>1. flights[reader[r].flight] \in Loads /\ v \in Int
      BY <2>1, <2>2, <1>0 DEF QueriesTyping, Failed
    <3> QED BY <3>1, LoadKeepsType
  <2> QED
    BY <1>4, <1>l, <2>1, <2>2, <2>3 DEF Load, Goes
<1>5. ASSUME NEW r \in Readers, Done(r) PROVE LoadersInv'
  <2> DEFINE l == [flights[reader[r].flight] EXCEPT !.done = TRUE]
  <2>1. Leads(reader[r].pc) /\ Leads("done")
    BY <1>5 DEF Done, At, Leads
  <2>2. l \in Loads
    <3>1. flights[reader[r].flight] \in Loads
      BY <2>1, <1>0 DEF QueriesTyping
    <3> QED BY <3>1, LoadKeepsType
  <2>3. flights' = [flights EXCEPT ![reader[r].flight] = l]
    BY <1>5 DEF Done, Flight
  <2> QED
    BY <1>5, <1>l, <2>1, <2>2, <2>3 DEF Done, Goes
<1>6. ASSUME NEW r \in Readers, Unregister(r) PROVE LoadersInv'
  <2>1. CASE reader' = [reader EXCEPT ![r] = Free]
    BY <1>6, <1>k, <1>0, <2>1 DEF Unregister, At, Leads, Free, QueriesTyping
  <2>2. CASE reader' = [reader EXCEPT ![r] = [reader[r] EXCEPT !.pc = "sets", !.val = Value(r)]]
    <3>1. /\ reader'[r].pc = "sets" /\ DOMAIN reader' = Readers
          /\ \A t \in Readers \ {r} : reader'[t] = reader[t]
      BY <2>2, <1>0 DEF QueriesTyping
    <3> QED
      BY <1>6, <1>k, <3>1 DEF Unregister, At, Leads
  <2> QED
    BY <1>6, <2>1, <2>2 DEF Unregister, Returns, Goes
<1>7. ASSUME NEW r \in Readers, Wait(r) PROVE LoadersInv'
  <2>1. CASE reader' = [reader EXCEPT ![r] = Free]
    BY <1>7, <1>k, <1>0, <2>1 DEF Wait, At, Leads, Free, QueriesTyping
  <2>2. CASE reader' = [reader EXCEPT ![r] = [reader[r] EXCEPT !.pc = "sets", !.val = Value(r)]]
    <3>1. /\ reader'[r].pc = "sets" /\ DOMAIN reader' = Readers
          /\ \A t \in Readers \ {r} : reader'[t] = reader[t]
      BY <2>2, <1>0 DEF QueriesTyping
    <3> QED
      BY <1>7, <1>k, <3>1 DEF Wait, At, Leads
  <2> QED
    BY <1>7, <2>1, <2>2 DEF Wait, Returns, Goes
<1>8. ASSUME NEW r \in Readers, Set(r) PROVE LoadersInv'
  BY <1>8, <1>k, <1>0 DEF Set, Goes, Free, Leads, At, QueriesTyping
<1>9. CASE FileNext \/ Ages \/ RowsChange \/ UNCHANGED queryVars
  <2>1. rowsVersion' \in Int /\ UNCHANGED <<flights, registered, reader>>
    BY <1>9, <1>0 DEF FileNext, AppendLine, NewFile, Ages, RowsChange, queryVars, QueriesTyping
  <2> QED
    BY <1>0, <2>1 DEF LoadersInv, QueriesTyping, LeadersAreRegistered, OneLoadAtATime
<1> QED
  BY <1>1, <1>2, <1>3, <1>4, <1>5, <1>6, <1>7, <1>8, <1>9 DEF CacheNext, GetOrLoad

(* GetOrLoad leaves its query to singleflight.Do (cache.go:113): however many
   callers miss the cache at once, one of them at a time queries the database
   for a key, for any number of callers and keys and however answers expire. *)
THEOREM LoadsAreShared == QueriesSpec => []OneLoadAtATime
<1>1. LoadersInv => OneLoadAtATime
  BY DEF LoadersInv
<1> QED
  BY <1>1, LoadersStart, LoadersStep, PTL DEF QueriesSpec

-----------------------------------------------------------------------------
(* Starting, serving and closing, for any requests. *)
\* One sequence after the other, item by item.
Joins(u, s, t, S) ==
  /\ u \in Seq(S) /\ Len(u) = Len(s) + Len(t)
  /\ \A i \in 1..Len(s) : u[i] = s[i]
  /\ \A i \in 1..Len(t) : u[Len(s) + i] = t[i]

\* What concatenation does, in these terms.
LEMMA Glued ==
  ASSUME NEW S, NEW s \in Seq(S), NEW t \in Seq(S)
  PROVE  Joins(s \o t, s, t, S)
<1> DEFINE m == Len(s)
           n == Len(t)
<1>1. m \in Nat /\ n \in Nat
  BY LenProperties
<1>2. s \o t \in Seq(S) /\ Len(s \o t) = m + n
  BY ConcatProperties, Zenon
<1>3. \A i \in 1..m + n : (s \o t)[i] = IF i <= m THEN s[i] ELSE t[i - m]
  BY ConcatProperties, Zenon
<1>4. ASSUME NEW i \in 1..m PROVE (s \o t)[i] = s[i]
  BY <1>1, <1>3
<1>5. ASSUME NEW i \in 1..n PROVE (s \o t)[m + i] = t[i]
  <2>1. m + i \in 1..m + n /\ ~(m + i <= m) /\ (m + i) - m = i
    BY <1>1
  <2> QED BY <1>3, <2>1
<1> QED
  BY <1>2, <1>4, <1>5 DEF Joins

\* The parts that main starts, closes and defers.
Words == {"config", "managers", "security", "sessions", "proxies", "schedulers", "serve", "admin log",
          "metrics", "rules", "log", "log database", "config database", "exited"}

\* The six starts, then serving, then the eight deferred calls, then the end.
LEMMA ScriptPositions ==
  /\ Serving = 7 /\ Exited = 16
  /\ \A i \in 1..6 : Script[i] = StartUp[i]
  /\ Script[7] = "serve" /\ Script[16] = "exited"
  /\ \A i \in 8..15 : Script[i] = Defers[i - 7]
<1> DEFINE one == <<"serve">>
           last == <<"exited">>
           begin == StartUp \o one
           run == begin \o Defers
<1>1. StartUp \in Seq(Words) /\ Len(StartUp) = 6
  BY DEF StartUp, Words
<1>2. Defers \in Seq(Words) /\ Len(Defers) = 8
  BY DEF Defers, Words
<1>3. one \in Seq(Words) /\ last \in Seq(Words) /\ Len(one) = 1 /\ Len(last) = 1
      /\ one[1] = "serve" /\ last[1] = "exited"
  BY DEF Words
<1> HIDE DEF one, last
<1>4. Joins(begin, StartUp, one, Words)
  BY <1>1, <1>3, Glued
<1> HIDE DEF begin
<1>5. Joins(run, begin, Defers, Words)
  <2>1. begin \in Seq(Words)
    BY <1>4 DEF Joins
  <2> QED BY <1>2, <2>1, Glued
<1> HIDE DEF run
<1>6. Joins(Script, run, last, Words)
  <2>1. run \in Seq(Words)
    BY <1>5 DEF Joins
  <2>2. Script = run \o last
    BY DEF Script, run, begin, one, last
  <2> QED BY <1>3, <2>1, <2>2, Glued
<1>7. Len(begin) = 7 /\ begin[7] = "serve" /\ \A i \in 1..6 : begin[i] = StartUp[i]
  BY <1>1, <1>3, <1>4 DEF Joins
<1>8. Len(run) = 15 /\ (\A i \in 1..7 : run[i] = begin[i]) /\ \A i \in 1..8 : run[7 + i] = Defers[i]
  BY <1>2, <1>5, <1>7 DEF Joins
<1>9. Len(Script) = 16 /\ (\A i \in 1..15 : Script[i] = run[i]) /\ Script[16] = "exited"
  BY <1>3, <1>6, <1>8 DEF Joins
<1>10. ASSUME NEW i \in 8..15 PROVE Script[i] = Defers[i - 7]
  <2>1. i - 7 \in 1..8 /\ 7 + (i - 7) = i
    OBVIOUS
  <2> QED BY <1>8, <1>9, <2>1
<1> QED
  BY <1>1, <1>7, <1>8, <1>9, <1>10 DEF Serving, Exited

\* What main closes in which order.
LEMMA ClosingOrder ==
  /\ \A i \in 8..15 : (Script[i] = "log" <=> i = 13) /\ (Script[i] = "proxies" <=> i = 9)
  /\ \A i \in 1..7 : (Script[i] = "config" <=> i = 1) /\ (Script[i] = "serve" <=> i = 7)
<1>1. /\ Script[1] = "config" /\ Script[2] = "managers" /\ Script[3] = "security"
      /\ Script[4] = "sessions" /\ Script[5] = "proxies" /\ Script[6] = "schedulers" /\ Script[7] = "serve"
  BY ScriptPositions DEF StartUp
<1>2. /\ Script[8] = "schedulers" /\ Script[9] = "proxies" /\ Script[10] = "admin log"
      /\ Script[11] = "metrics" /\ Script[12] = "rules" /\ Script[13] = "log"
      /\ Script[14] = "log database" /\ Script[15] = "config database"
  <2>1. \A i \in 8..15 : Script[i] = Defers[i - 7]
    BY ScriptPositions
  <2>2. /\ Defers[1] = "schedulers" /\ Defers[2] = "proxies" /\ Defers[3] = "admin log"
        /\ Defers[4] = "metrics" /\ Defers[5] = "rules" /\ Defers[6] = "log"
        /\ Defers[7] = "log database" /\ Defers[8] = "config database"
    BY DEF Defers
  <2>3. /\ Script[8] = Defers[1] /\ Script[9] = Defers[2] /\ Script[10] = Defers[3] /\ Script[11] = Defers[4]
        /\ Script[12] = Defers[5] /\ Script[13] = Defers[6] /\ Script[14] = Defers[7] /\ Script[15] = Defers[8]
    BY <2>1
  <2> QED BY <2>2, <2>3
<1>3. ASSUME NEW i \in 8..15 PROVE /\ Script[i] = "log" <=> i = 13
                                   /\ Script[i] = "proxies" <=> i = 9
  <2>1. i = 8 \/ i = 9 \/ i = 10 \/ i = 11 \/ i = 12 \/ i = 13 \/ i = 14 \/ i = 15
    OBVIOUS
  <2> QED BY <1>2, <2>1
<1>4. ASSUME NEW i \in 1..7 PROVE /\ Script[i] = "config" <=> i = 1
                                  /\ Script[i] = "serve" <=> i = 7
  <2>1. i = 1 \/ i = 2 \/ i = 3 \/ i = 4 \/ i = 5 \/ i = 6 \/ i = 7
    OBVIOUS
  <2> QED BY <1>1, <2>1
<1> QED
  BY <1>1, <1>3, <1>4

\* A plain request is being served.
PlainRunning == \E r \in Plain : connection[r] = "running"

\* Where main is, and who may hold the lock of the proxy manager then.
Places ==
  /\ at \in 1..16
  /\ DOMAIN connection = Connections
  /\ managerLock = "main" => at = 9
  /\ signal = "reloads" => at = 7
  /\ adminCall => at >= 7

\* The log is open from before the first request until it is closed.
LogIsOpen == at \in 2..13 => "log" \in up

\* Before anything is started nothing is served.
ClosedAtStart == at = 1 => "proxies" \notin up /\ ~PlainRunning

\* Once main has closed the proxies they stay closed, unless the administration
\* opens one again.
ListenersAreClosed ==
  (managerLock = "main" \/ at \in 10..15) => reopened = TRUE \/ "proxies" \notin up

\* Then no plain request is under way, unless main gave up on it.
RequestsAreOver ==
  at \in 10..15 => gaveUp = TRUE \/ reopened = TRUE \/ ~PlainRunning

\* An entry is lost only so.
LostAreExcused ==
  \A r \in Plain : connection[r] = "lost" => gaveUp = TRUE \/ reopened = TRUE

\* Why entries are not lost: the log is closed after the proxies, which wait.
LifeInv ==
  /\ Places /\ LogIsOpen /\ ClosedAtStart /\ ListenersAreClosed /\ RequestsAreOver /\ LostAreExcused

\* EndStopAll notes that requests were left running.
LEMMA GivingUp ==
  ASSUME NEW who, EndStopAll(who)
  PROVE  /\ gaveUp = TRUE => gaveUp' = TRUE
         /\ PlainRunning => gaveUp' = TRUE
         /\ managerLock = who /\ managerLock' = "nobody"
<1>1. gaveUp' = (gaveUp \/ PlainRunning) /\ managerLock = who /\ managerLock' = "nobody"
  BY DEF EndStopAll, InProgress, PlainRunning
<1> QED BY <1>1

\* Nothing is started.
LEMMA LifeStart == LifeInit => LifeInv
<1> SUFFICES ASSUME LifeInit PROVE LifeInv
  OBVIOUS
<1>1. /\ at = 1 /\ signal = "none" /\ up = {} /\ managerLock = "nobody"
      /\ adminCall = FALSE /\ gaveUp = FALSE /\ reopened = FALSE
      /\ DOMAIN connection = Connections /\ \A r \in Plain : connection[r] = "none"
  BY DEF LifeInit, Connections
<1>2. Places /\ LogIsOpen
  BY <1>1 DEF Places, LogIsOpen
<1>3. ClosedAtStart /\ LostAreExcused
  BY <1>1 DEF ClosedAtStart, LostAreExcused, PlainRunning
<1>4. ListenersAreClosed /\ RequestsAreOver
  BY <1>1 DEF ListenersAreClosed, RequestsAreOver
<1> QED
  BY <1>2, <1>3, <1>4 DEF LifeInv

\* Starts, signals, requests, calls of the administration and the deferred calls.
LEMMA LifeStep == LifeInv /\ [LifeNext]_lifeVars => LifeInv'
<1> SUFFICES ASSUME LifeInv, [LifeNext]_lifeVars PROVE LifeInv'
  OBVIOUS
<1>0. /\ Places /\ LogIsOpen /\ ClosedAtStart /\ ListenersAreClosed /\ RequestsAreOver /\ LostAreExcused
  BY DEF LifeInv
<1>p. Serving = 7 /\ Exited = 16
  BY ScriptPositions
\* What keeps the connections and the notes of the log, and moves main nowhere or on.
<1>s. ASSUME UNCHANGED <<connection, gaveUp, reopened>>, at' = 16,
             managerLock' # "main", signal' # "reloads"
      PROVE  LifeInv'
  BY <1>0, <1>s DEF LifeInv, Places, LogIsOpen, ClosedAtStart, ListenersAreClosed, RequestsAreOver,
            LostAreExcused
<1> USE DEF LifeInv, Places, LogIsOpen, ClosedAtStart, ListenersAreClosed, RequestsAreOver,
            LostAreExcused, PlainRunning
<1>1. CASE Start
  <2>1. PICK start \in {"config", "managers", "security", "sessions", "proxies", "schedulers", "serve"} :
          /\ Starting(start)
          /\ \/ Fatal /\ (start = "serve" => signal = "none")
             \/ start # "serve" /\ \E parts : Opened(parts) /\ (start = "config" => "log" \in parts)
    BY <1>1 DEF Start, InitConfigAndDB, InitCoreManagers, InitSecurityManagers,
       InitAuthAndSession, InitProxyService, InitSchedulers, StartAdminServer
  <2>2. /\ UNCHANGED <<signal, managerLock, connection, adminCall, gaveUp, reopened>> /\ at \in 1..7
        /\ Script[at] = start /\ managerLock # "main"
    BY <1>0, <1>p, <2>1 DEF Starting
  <2>3. (start = "config" <=> at = 1) /\ (start = "serve" <=> at = 7)
    BY <2>2, ClosingOrder
  <2>4. signal # "reloads" \/ at = 7
    BY <1>0
  <2>5. CASE Fatal /\ (start = "serve" => signal = "none")
    BY <1>p, <2>2, <2>3, <2>4, <2>5, <1>s DEF Fatal
  <2>6. CASE start # "serve" /\ \E parts : Opened(parts) /\ (start = "config" => "log" \in parts)
    <3>1. PICK parts : at' = at + 1 /\ up' = up \cup parts /\ (at = 1 => "log" \in parts) /\ at \in 1..6
      BY <2>2, <2>3, <2>6 DEF Opened
    <3>2. Places' /\ LogIsOpen'
      BY <1>0, <2>2, <2>4, <3>1
    <3>3. ClosedAtStart' /\ ListenersAreClosed' /\ RequestsAreOver' /\ LostAreExcused'
      BY <1>0, <2>2, <3>1
    <3> QED BY <3>2, <3>3
  <2> QED BY <2>1, <2>5, <2>6
<1>2. CASE ServeEnds
  BY <1>2, <1>0, <1>p DEF ServeEnds
<1>3. CASE Deferred
  <2>1. at \in 8..15 /\ UNCHANGED <<signal, connection, adminCall, reopened>>
    BY <1>3, <1>0, <1>p DEF Deferred
  <2>2. CASE Script[at] # "proxies" /\ at' = at + 1 /\ up' = up \ {Script[at]} /\ UNCHANGED <<managerLock, gaveUp>>
    BY <1>0, <2>1, <2>2, ClosingOrder
  <2>3. CASE Script[at] = "proxies" /\ BeginStopAll("main") /\ UNCHANGED <<at, gaveUp>>
    BY <1>0, <2>1, <2>3, ClosingOrder DEF BeginStopAll
  <2>4. CASE Script[at] = "proxies" /\ EndStopAll("main") /\ at' = at + 1 /\ UNCHANGED up
    <3>1. at = 9
      BY <2>1, <2>4, ClosingOrder
    <3>2. /\ managerLock = "main" /\ managerLock' = "nobody"
          /\ gaveUp = TRUE => gaveUp' = TRUE
          /\ PlainRunning => gaveUp' = TRUE
      BY <2>4, GivingUp
    <3>3. at' = 10 /\ UNCHANGED <<up, signal, connection, adminCall, reopened>>
      BY <2>1, <2>4, <3>1
    <3>4. Places' /\ LogIsOpen' /\ ClosedAtStart'
      BY <1>0, <3>1, <3>2, <3>3
    <3>5. ListenersAreClosed' /\ RequestsAreOver' /\ LostAreExcused'
      BY <1>0, <3>1, <3>2, <3>3
    <3> QED BY <3>4, <3>5
  <2> QED BY <1>3, <2>2, <2>3, <2>4 DEF Deferred
<1>4. CASE Terminate
  BY <1>4, <1>0, <1>p DEF Terminate
<1>5. CASE AdminIsDown
  BY <1>5, <1>0 DEF AdminIsDown
<1>6. CASE ShutdownAll
  <2>1. CASE BeginStopAll("signal") /\ UNCHANGED <<signal, gaveUp>>
    BY <1>6, <1>0, <2>1 DEF ShutdownAll, BeginStopAll
  <2>2. CASE EndStopAll("signal") /\ signal' = "stops extractor" /\ UNCHANGED up
    BY <1>6, <1>0, <2>2, GivingUp DEF ShutdownAll
  <2> QED BY <1>6, <2>1, <2>2 DEF ShutdownAll
<1>7. CASE StopExtractor
  BY <1>7, <1>0 DEF StopExtractor
<1>8. CASE HangUp
  <2>1. CASE signal = "none" /\ at = Serving /\ BeginStopAll("signal") /\ signal' = "reloads" /\ UNCHANGED gaveUp
    BY <1>8, <1>0, <1>p, <2>1 DEF HangUp, BeginStopAll
  <2>2. CASE signal = "reloads" /\ EndStopAll("signal") /\ signal' = "none" /\ up' = up \cup {"proxies"}
    <3>1. UNCHANGED <<at, connection, adminCall, reopened>> /\ at = 7
      BY <1>8, <1>0, <2>2 DEF HangUp
    <3>2. managerLock' = "nobody" /\ (gaveUp = TRUE => gaveUp' = TRUE)
      BY <2>2, GivingUp
    <3> QED BY <1>0, <2>2, <3>1, <3>2
  <2> QED BY <1>8, <2>1, <2>2 DEF HangUp
<1>9. CASE AdminRequest
  <2>1. CASE UNCHANGED <<up, reopened>>
    <3>1. UNCHANGED <<at, signal, managerLock, connection, gaveUp>> /\ (at = 7 \/ adminCall' = FALSE)
      BY <1>9, <1>p DEF AdminRequest
    <3> QED BY <1>0, <2>1, <3>1
  <2>2. CASE /\ adminCall /\ managerLock = "nobody" /\ up' = up \cup {"proxies"} /\ adminCall' = FALSE
             /\ reopened' = (reopened \/ at > Serving)
    <3>1. at > 7 => reopened' = TRUE
      BY <2>2, <1>p
    <3>2. reopened = TRUE => reopened' = TRUE
      BY <2>2
    <3>3. UNCHANGED <<at, signal, managerLock, connection, gaveUp>> /\ adminCall' = FALSE /\ at >= 7
      <4>1. UNCHANGED <<at, signal, managerLock, connection, gaveUp>>
        BY <1>9 DEF AdminRequest
      <4> QED BY <1>0, <2>2, <4>1
    <3>4. ListenersAreClosed'
      BY <1>0, <2>2, <3>1, <3>3
    <3>5. RequestsAreOver' /\ LostAreExcused' /\ ClosedAtStart'
      BY <1>0, <2>2, <3>2, <3>3
    <3> QED BY <1>0, <2>2, <3>3, <3>4, <3>5
  <2> QED BY <1>9, <2>1, <2>2 DEF AdminRequest
<1>10. CASE ServeConnections
  BY <1>10, <1>0, <1>p DEF ServeConnections, Accept, LogAccess, Running, Connections
<1>11. CASE StartAgain
  <2>1. /\ at' = 1 /\ signal' = "none" /\ up' = {} /\ managerLock' = "nobody"
        /\ adminCall' = FALSE /\ gaveUp' = FALSE /\ reopened' = FALSE
        /\ DOMAIN connection' = Connections /\ \A r \in Plain : connection'[r] = "none"
    BY <1>11 DEF StartAgain, Connections
  <2>2. Places' /\ LogIsOpen'
    BY <2>1 DEF Places, LogIsOpen
  <2>3. ClosedAtStart' /\ LostAreExcused'
    BY <2>1 DEF ClosedAtStart, LostAreExcused, PlainRunning
  <2>4. ListenersAreClosed' /\ RequestsAreOver'
    BY <2>1 DEF ListenersAreClosed, RequestsAreOver
  <2> QED
    BY <2>2, <2>3, <2>4 DEF LifeInv
<1>12. CASE UNCHANGED lifeVars
  BY <1>12, <1>0 DEF lifeVars
<1> QED
  BY <1>1, <1>2, <1>3, <1>4, <1>5, <1>6, <1>7, <1>8, <1>9, <1>10, <1>11, <1>12 DEF LifeNext

(* main defers the closing of the log before that of the proxies, so that it
   runs after (main.go:61-97), and runs beside the goroutine that shuts down:
   the line of a plain request is lost only if a Shutdown gave up on requests
   or the administration opened a listener meanwhile, for any requests and any
   number of reloads.                                                        *)
THEOREM PlainRequestsAreLogged == LifeSpec => []RequestsAreLogged
<1>1. LifeInv => RequestsAreLogged
  BY DEF LifeInv, LostAreExcused, RequestsAreLogged
<1> QED
  BY <1>1, LifeStart, LifeStep, PTL DEF LifeSpec

-----------------------------------------------------------------------------
(* What proxies take of the domains and certificates that are configured, for any
   number of domains, certificates, names and changes.                       *)

\* A row of the table, as a cache or a lookup may hold it.
IsRow(n, form) ==
  \E i \in DomainIds : domainRows[i] # Blank /\ domainRows[i].name = n /\ form = domainRows[i]

RouteType ==
  /\ domainRows \in [DomainIds -> DomainRecords \cup {Blank}]
  /\ domainCache \in [Names -> DomainRecords \cup {Blank}]
  /\ lookup \in DomainRecords \cup {Blank}
  /\ ungrouped \in DomainIds \cup {Blank}

NamesAreUnique ==
  \A i, j \in DomainIds :
    domainRows[i] # Blank /\ domainRows[j] # Blank /\ domainRows[i].name = domainRows[j].name => i = j

\* A name that is cached, or is about to be, is cached as its row says, unless it is
\* one of those the property leaves out.
Doubtful == ghosts \cup InDoubt
CacheFollows ==
  \A n \in Names : domainCache[n] # Blank => n \in Doubtful \/ IsRow(n, domainCache[n])
LookupFollows ==
  lookup # Blank => lookup.name \in Doubtful \/ IsRow(lookup.name, lookup)

RouteInv == RouteType /\ NamesAreUnique /\ CacheFollows /\ LookupFollows

\* A certificate is read and stored within a tick, so one that is younger than the
\* last change was read after it.
HandshakeInv ==
  /\ unchangedFor \in 0..CertCacheTTL
  /\ \A h \in Hosts : certCache[h] # Blank =>
       /\ \E p, age : certCache[h] = [pair |-> p, age |-> age]
       /\ certCache[h].age \in 0..CertCacheTTL
       /\ certCache[h].age < unchangedFor => certCache[h].pair \in GetCertificate(h)
  /\ handshake # Blank => (0 < unchangedFor => handshake.pair \in GetCertificate(handshake.host))
  /\ certCache = [h \in Hosts |-> certCache[h]]

\* A domain has one of the names.
LEMMA NamesOfRecords ==
  ASSUME NEW r \in DomainRecords
  PROVE  r.name \in Names /\ r # Blank
BY DomainsAssumption DEF DomainRecords, Names

\* What the row of one domain becomes says nothing of the other names.
LEMMA OtherRowsStay ==
  ASSUME RouteType, NEW i \in DomainIds, NEW form \in DomainRecords \cup {Blank},
         domainRows' = [domainRows EXCEPT ![i] = form], ungrouped' = ungrouped,
         NEW n, domainRows[i] # Blank => domainRows[i].name # n
  PROVE  /\ \A v : IsRow(n, v) => IsRow(n, v)'
         /\ n \in InDoubt => n \in InDoubt'
<1>1. \A j \in DomainIds \ {i} : domainRows'[j] = domainRows[j]
  BY DEF RouteType
<1>2. \A v : IsRow(n, v) => IsRow(n, v)'
  BY <1>1 DEF IsRow
<1>3. ASSUME n \in InDoubt PROVE n \in InDoubt'
  <2>1. ungrouped # Blank /\ domainRows[ungrouped] # Blank /\ domainRows[ungrouped].name = n
    BY <1>3 DEF InDoubt
  <2>2. ungrouped \in DomainIds \ {i}
    BY <2>1 DEF RouteType
  <2> QED BY <1>1, <2>1, <2>2 DEF InDoubt
<1> QED BY <1>2, <1>3

\* A domain that is added or changed.
LEMMA WrittenFollows ==
  ASSUME RouteInv, NEW i \in DomainIds, NEW form \in DomainForms, WriteDomain(i, form),
         ghosts' = Settles(form.name) \cup (IF domainRows[i] = Blank THEN {} ELSE RenamedFrom(i, form)),
         UNCHANGED <<lookup, ungrouped>>
  PROVE  RouteInv'
<1>0. RouteType /\ NamesAreUnique /\ CacheFollows /\ LookupFollows
  BY DEF RouteInv
<1>1. /\ form \in DomainRecords /\ form.name \in Names /\ form # Blank
      /\ lookup' = lookup /\ ungrouped' = ungrouped
  BY NamesOfRecords, DomainsAssumption
<1>2. /\ domainRows' = [domainRows EXCEPT ![i] = form]
      /\ domainCache' = [domainCache EXCEPT ![form.name] = form]
      /\ \A j \in DomainIds \ {i} : domainRows[j] # Blank => domainRows[j].name # form.name
  BY DEF WriteDomain
<1>3. /\ domainRows'[i] = form /\ \A j \in DomainIds \ {i} : domainRows'[j] = domainRows[j]
      /\ domainCache'[form.name] = form
      /\ \A n \in Names \ {form.name} : domainCache'[n] = domainCache[n]
  BY <1>0, <1>1, <1>2 DEF RouteType
<1>4. RouteType'
  BY <1>0, <1>1, <1>2 DEF RouteType
<1>5. NamesAreUnique'
  BY <1>0, <1>2, <1>3 DEF NamesAreUnique
<1>6. IsRow(form.name, form)'
  BY <1>1, <1>3 DEF IsRow
<1>7. ASSUME NEW n, n # form.name
      PROVE  /\ n \in Doubtful => n \in Doubtful'
             /\ \A v : IsRow(n, v) => n \in Doubtful' \/ IsRow(n, v)'
  <2>1. CASE domainRows[i] # Blank /\ domainRows[i].name = n
    BY <1>7, <2>1 DEF Doubtful, RenamedFrom
  <2>2. CASE domainRows[i] # Blank => domainRows[i].name # n
    <3>1. n \in InDoubt => n \in InDoubt'
      BY <1>0, <1>1, <1>2, <2>2, OtherRowsStay
    <3>2. \A v : IsRow(n, v) => IsRow(n, v)'
      BY <1>0, <1>1, <1>2, <2>2, OtherRowsStay
    <3>3. n \in ghosts => n \in ghosts'
      BY <1>7 DEF Settles
    <3> QED BY <3>1, <3>2, <3>3 DEF Doubtful
  <2> QED BY <2>1, <2>2
<1>8. CacheFollows'
  <2> SUFFICES ASSUME NEW n \in Names, domainCache'[n] # Blank
               PROVE  n \in Doubtful' \/ IsRow(n, domainCache[n])'
    BY DEF CacheFollows, Names
  <2>1. CASE n = form.name
    BY <1>3, <1>6, <2>1 DEF IsRow
  <2>2. CASE n # form.name
    <3>1. domainCache'[n] = domainCache[n]
      BY <1>3, <2>2
    <3>2. n \in Doubtful \/ IsRow(n, domainCache[n])
      BY <1>0, <3>1 DEF CacheFollows
    <3>3. n \in Doubtful' \/ IsRow(n, domainCache[n])'
      BY <1>7, <2>2, <3>1, <3>2 DEF IsRow
    <3> QED BY <3>3
  <2> QED BY <2>1, <2>2
<1>9. LookupFollows'
  <2> SUFFICES ASSUME lookup # Blank
               PROVE  lookup.name \in Doubtful' \/ IsRow(lookup.name, lookup)'
    BY <1>1 DEF LookupFollows, IsRow
  <2>1. CASE lookup.name = form.name
    BY <2>1 DEF Doubtful, Settles, Overtaken
  <2>2. CASE lookup.name # form.name
    BY <1>0, <1>1, <1>7, <2>2 DEF LookupFollows, IsRow
  <2> QED BY <2>1, <2>2
<1> QED BY <1>4, <1>5, <1>8, <1>9 DEF RouteInv

\* A domain that is deleted.
LEMMA DeletedFollows ==
  ASSUME RouteInv, NEW i \in DomainIds, domainRows[i] # Blank,
         domainRows' = [domainRows EXCEPT ![i] = Blank], ForgetName(domainRows[i].name),
         ghosts' = Settles(domainRows[i].name), UNCHANGED <<lookup, ungrouped>>
  PROVE  RouteInv'
<1>0. RouteType /\ NamesAreUnique /\ CacheFollows /\ LookupFollows
  BY DEF RouteInv
<1> DEFINE name == domainRows[i].name
<1>1. name \in Names /\ lookup' = lookup /\ ungrouped' = ungrouped
  BY <1>0, NamesOfRecords DEF RouteType
<1>2. domainCache' = [domainCache EXCEPT ![name] = Blank]
  BY DEF ForgetName
<1>3. /\ domainRows'[i] = Blank /\ \A j \in DomainIds \ {i} : domainRows'[j] = domainRows[j]
      /\ domainCache'[name] = Blank
      /\ \A n \in Names \ {name} : domainCache'[n] = domainCache[n]
  BY <1>0, <1>1, <1>2 DEF RouteType
<1>4. RouteType'
  BY <1>0, <1>1, <1>2 DEF RouteType
<1>5. NamesAreUnique'
  BY <1>0, <1>3 DEF NamesAreUnique
<1>7. ASSUME NEW n, n # name
      PROVE  /\ n \in Doubtful => n \in Doubtful'
             /\ \A v : IsRow(n, v) => IsRow(n, v)'
  <2>1. n \in InDoubt => n \in InDoubt'
    BY <1>0, <1>1, <1>7, OtherRowsStay
  <2>2. \A v : IsRow(n, v) => IsRow(n, v)'
    BY <1>0, <1>1, <1>7, OtherRowsStay
  <2>3. n \in ghosts => n \in ghosts'
    BY <1>7 DEF Settles
  <2> QED BY <2>1, <2>2, <2>3 DEF Doubtful
<1>8. CacheFollows'
  <2> SUFFICES ASSUME NEW n \in Names, domainCache'[n] # Blank
               PROVE  n \in Doubtful' \/ IsRow(n, domainCache[n])'
    BY DEF CacheFollows, Names
  <2>1. n # name /\ domainCache'[n] = domainCache[n]
    BY <1>3
  <2>2. n \in Doubtful \/ IsRow(n, domainCache[n])
    BY <1>0, <2>1 DEF CacheFollows
  <2> QED BY <1>7, <2>1, <2>2 DEF IsRow
<1>9. LookupFollows'
  <2> SUFFICES ASSUME lookup # Blank
               PROVE  lookup.name \in Doubtful' \/ IsRow(lookup.name, lookup)'
    BY <1>1 DEF LookupFollows, IsRow
  <2>1. CASE lookup.name = name
    BY <2>1 DEF Doubtful, Settles, Overtaken
  <2>2. CASE lookup.name # name
    BY <1>0, <1>1, <1>7, <2>2 DEF LookupFollows, IsRow
  <2> QED BY <2>1, <2>2
<1> QED BY <1>4, <1>5, <1>8, <1>9 DEF RouteInv

\* The deletion of a backend group, in its two steps.
LEMMA UngroupedFollows ==
  ASSUME RouteInv, SetDomainGroupID
  PROVE  RouteInv'
<1>0. RouteType /\ NamesAreUnique /\ CacheFollows /\ LookupFollows /\ lookup' = lookup
  BY DEF RouteInv, SetDomainGroupID
<1>1. ASSUME ungrouped = Blank, NEW i \in DomainIds, domainRows[i] # Blank,
             domainRows' = [domainRows EXCEPT ![i].target = Blank], ungrouped' = i,
             ghosts' = ghosts \cup Overtaken(domainRows[i].name), domainCache' = domainCache
      PROVE  RouteInv'
  <2> DEFINE name == domainRows[i].name
  <2>1. domainRows[i] \in DomainRecords /\ i # Blank
    BY <1>0, <1>1, DomainsAssumption DEF RouteType
  <2>2. /\ [domainRows[i] EXCEPT !.target = Blank] \in DomainRecords
        /\ [domainRows[i] EXCEPT !.target = Blank].name = name
    BY <2>1 DEF DomainRecords
  <2>3. /\ domainRows' \in [DomainIds -> DomainRecords \cup {Blank}]
        /\ domainRows'[i] # Blank /\ domainRows'[i].name = name
        /\ \A j \in DomainIds \ {i} : domainRows'[j] = domainRows[j]
    BY <1>0, <1>1, <2>2, NamesOfRecords DEF RouteType
  <2>4. RouteType'
    BY <1>0, <1>1, <2>3 DEF RouteType
  <2>5. NamesAreUnique'
    BY <1>0, <1>1, <2>3 DEF NamesAreUnique
  <2>6. name \in InDoubt'
    BY <1>1, <2>1, <2>3 DEF InDoubt
  <2>7. ghosts \subseteq ghosts' /\ InDoubt = {}
    BY <1>1 DEF InDoubt
  <2>8. \A n, v : n # name /\ IsRow(n, v) => IsRow(n, v)'
    BY <2>3 DEF IsRow
  <2>9. CacheFollows'
    <3> SUFFICES ASSUME NEW n \in Names, domainCache'[n] # Blank
                 PROVE  n \in Doubtful' \/ IsRow(n, domainCache[n])'
      BY DEF CacheFollows, Names
    <3>1. n \in Doubtful \/ IsRow(n, domainCache[n])
      BY <1>0, <1>1 DEF CacheFollows
    <3> QED BY <1>1, <2>6, <2>7, <2>8, <3>1 DEF Doubtful, IsRow
  <2>10. LookupFollows'
    BY <1>0, <2>6, <2>7, <2>8 DEF LookupFollows, Doubtful, IsRow
  <2> QED BY <2>4, <2>5, <2>9, <2>10 DEF RouteInv
<1>2. ASSUME ungrouped # Blank, ungrouped' = Blank, domainRows' = domainRows,
             IF domainRows[ungrouped] = Blank THEN UNCHANGED <<domainCache, ghosts>>
             ELSE /\ ForgetName(domainRows[ungrouped].name)
                  /\ ghosts' = Settles(domainRows[ungrouped].name)
      PROVE  RouteInv'
  <2>1. \A n, v : IsRow(n, v) => IsRow(n, v)'
    BY <1>2 DEF IsRow
  <2>2. NamesAreUnique'
    BY <1>0, <1>2 DEF NamesAreUnique
  <2>3. CASE domainRows[ungrouped] = Blank
    <3>1. domainCache' = domainCache /\ ghosts' = ghosts
      BY <1>2, <2>3
    <3>2. Doubtful' = Doubtful
      BY <1>2, <2>3, <3>1 DEF Doubtful, InDoubt
    <3>3. CacheFollows'
      <4> SUFFICES ASSUME NEW n \in Names, domainCache[n] # Blank
                   PROVE  n \in Doubtful \/ IsRow(n, domainCache[n])'
        BY <3>1, <3>2 DEF CacheFollows, Names, IsRow
      <4>1. n \in Doubtful \/ IsRow(n, domainCache[n])
        BY <1>0 DEF CacheFollows
      <4> QED BY <2>1, <3>1, <4>1 DEF IsRow
    <3>4. LookupFollows'
      BY <1>0, <2>1, <3>2 DEF LookupFollows, IsRow
    <3>5. RouteType'
      BY <1>0, <1>2, <3>1 DEF RouteType
    <3> QED BY <2>2, <3>3, <3>4, <3>5 DEF RouteInv
  <2>4. CASE domainRows[ungrouped] # Blank
    <3> DEFINE name == domainRows[ungrouped].name
    <3>1. name \in Names
      BY <1>0, <1>2, <2>4, NamesOfRecords DEF RouteType
    <3>2. domainCache' = [domainCache EXCEPT ![name] = Blank] /\ ghosts' = Settles(name)
      BY <1>2, <2>4 DEF ForgetName
    <3>3. domainCache'[name] = Blank /\ \A n \in Names \ {name} : domainCache'[n] = domainCache[n]
      BY <1>0, <3>1, <3>2 DEF RouteType
    <3>4. \A n : n # name /\ n \in Doubtful => n \in Doubtful'
      BY <1>2, <2>4, <3>2 DEF Doubtful, InDoubt, Settles
    <3>5. CacheFollows'
      <4> SUFFICES ASSUME NEW n \in Names, domainCache'[n] # Blank
                   PROVE  n \in Doubtful' \/ IsRow(n, domainCache[n])'
        BY DEF CacheFollows, Names
      <4>1. n # name /\ domainCache'[n] = domainCache[n]
        BY <3>3
      <4>2. n \in Doubtful \/ IsRow(n, domainCache[n])
        BY <1>0, <4>1 DEF CacheFollows
      <4> QED BY <2>1, <3>4, <4>1, <4>2 DEF IsRow
    <3>6. LookupFollows'
      <4> SUFFICES ASSUME lookup # Blank
                   PROVE  lookup.name \in Doubtful' \/ IsRow(lookup.name, lookup)'
        BY <1>0 DEF LookupFollows, IsRow
      <4>1. CASE lookup.name = name
        BY <3>2, <4>1 DEF Doubtful, Settles, Overtaken
      <4>2. CASE lookup.name # name
        BY <1>0, <2>1, <3>4, <4>2 DEF LookupFollows
      <4> QED BY <4>1, <4>2
    <3>7. RouteType'
      BY <1>0, <1>2, <3>1, <3>2 DEF RouteType
    <3> QED BY <2>2, <3>5, <3>6, <3>7 DEF RouteInv
  <2> QED BY <2>3, <2>4
<1>3. CASE ungrouped = Blank
  <2>1. PICK i \in DomainIds :
          /\ domainRows[i] # Blank /\ domainRows' = [domainRows EXCEPT ![i].target = Blank]
          /\ ungrouped' = i /\ ghosts' = ghosts \cup Overtaken(domainRows[i].name)
          /\ domainCache' = domainCache
    BY <1>3 DEF SetDomainGroupID
  <2> QED BY <1>1, <1>3, <2>1
<1>4. CASE ungrouped # Blank
  BY <1>2, <1>4 DEF SetDomainGroupID
<1> QED BY <1>3, <1>4

\* A lookup reads a row and stores it later.
LEMMA LookupsFollow ==
  ASSUME RouteInv, GetDomainByName
  PROVE  RouteInv'
<1>0. RouteType /\ NamesAreUnique /\ CacheFollows /\ LookupFollows
      /\ domainRows' = domainRows /\ ungrouped' = ungrouped /\ ghosts' = ghosts
  BY DEF RouteInv, GetDomainByName
<1>1. NamesAreUnique' /\ Doubtful' = Doubtful /\ \A n, v : IsRow(n, v) <=> IsRow(n, v)'
  BY <1>0 DEF NamesAreUnique, Doubtful, InDoubt, IsRow
<1>2. CASE \E i \in DomainIds : domainRows[i] # Blank /\ lookup' = domainRows[i] /\ domainCache' = domainCache
  <2>1. PICK i \in DomainIds : domainRows[i] # Blank /\ lookup' = domainRows[i] /\ domainCache' = domainCache
    BY <1>2
  <2>2. LookupFollows'
    BY <1>0, <2>1 DEF LookupFollows, IsRow
  <2>3. CacheFollows'
    BY <1>0, <1>1, <2>1 DEF CacheFollows, Names, IsRow
  <2>4. RouteType'
    BY <1>0, <2>1 DEF RouteType
  <2> QED BY <1>1, <2>2, <2>3, <2>4 DEF RouteInv
<1>3. CASE lookup # Blank /\ lookup' = Blank /\ domainCache' = [domainCache EXCEPT ![lookup.name] = lookup]
  <2>1. lookup \in DomainRecords /\ lookup.name \in Names
    BY <1>0, <1>3, NamesOfRecords DEF RouteType
  <2>2. /\ domainCache'[lookup.name] = lookup
        /\ \A n \in Names \ {lookup.name} : domainCache'[n] = domainCache[n]
    BY <1>0, <1>3, <2>1 DEF RouteType
  <2>3. CacheFollows'
    <3> SUFFICES ASSUME NEW n \in Names, domainCache'[n] # Blank
                 PROVE  n \in Doubtful' \/ IsRow(n, domainCache[n])'
      BY DEF CacheFollows, Names
    <3>1. CASE n = lookup.name
      BY <1>0, <1>1, <1>3, <2>2, <3>1 DEF LookupFollows, IsRow
    <3>2. CASE n # lookup.name
      BY <1>0, <1>1, <2>2, <3>2 DEF CacheFollows, IsRow
    <3> QED BY <3>1, <3>2
  <2>4. RouteType' /\ LookupFollows'
    BY <1>0, <1>3, <2>1 DEF RouteType, LookupFollows
  <2> QED BY <1>1, <2>3, <2>4 DEF RouteInv
<1> QED BY <1>2, <1>3 DEF GetDomainByName

\* The cache of a start is the table.
LEMMA RowsOfNames ==
  ASSUME RouteType, NamesAreUnique
  PROVE  /\ OfRows \in [Names -> DomainRecords \cup {Blank}]
         /\ \A n \in Names : OfRows[n] # Blank => IsRow(n, OfRows[n])
         /\ \A n \in Names : \A v : IsRow(n, v) => OfRows[n] = v
<1>1. \A n : RowsOf(n) # {} => (CHOOSE i \in RowsOf(n) : TRUE) \in RowsOf(n)
  OBVIOUS
<1>2. \A n, i : i \in RowsOf(n) <=> i \in DomainIds /\ domainRows[i] # Blank /\ domainRows[i].name = n
  BY DEF RowsOf
<1>3. \A n \in Names : OfRows[n] = IF RowsOf(n) = {} THEN Blank ELSE domainRows[CHOOSE i \in RowsOf(n) : TRUE]
  BY DEF OfRows
<1>4. \A n \in Names : OfRows[n] # Blank => IsRow(n, OfRows[n])
  BY <1>1, <1>2, <1>3 DEF IsRow
<1>5. ASSUME NEW n \in Names, NEW v, IsRow(n, v) PROVE OfRows[n] = v
  <2>1. PICK i \in DomainIds : domainRows[i] # Blank /\ domainRows[i].name = n /\ v = domainRows[i]
    BY <1>5 DEF IsRow
  <2> DEFINE j == CHOOSE j \in RowsOf(n) : TRUE
  <2>2. i \in RowsOf(n)
    BY <1>2, <2>1
  <2>3. j \in RowsOf(n) /\ OfRows[n] = domainRows[j]
    BY <1>1, <1>3, <2>2
  <2> HIDE DEF j
  <2>4. j = i
    BY <1>2, <2>1, <2>3 DEF NamesAreUnique
  <2> QED BY <2>1, <2>3, <2>4
<1>6. \A n \in Names : OfRows[n] \in DomainRecords \cup {Blank}
  BY <1>4 DEF IsRow, RouteType
<1>7. OfRows = [n \in Names |-> OfRows[n]]
  BY DEF OfRows
<1> HIDE DEF OfRows
<1>8. OfRows \in [Names -> DomainRecords \cup {Blank}]
  BY <1>6, <1>7
<1> QED BY <1>4, <1>5, <1>8

\* No call, lookup or start leaves a name cached otherwise than its row says.
LEMMA RouteNext ==
  ASSUME RouteInv, [DomainsNext]_domainVars
  PROVE  RouteInv'
<1>1. CASE AddDomain
  <2>1. PICK i \in DomainIds, form \in DomainForms :
          domainRows[i] = Blank /\ WriteDomain(i, form) /\ ghosts' = Settles(form.name)
          /\ UNCHANGED <<lookup, ungrouped>>
    BY <1>1 DEF AddDomain
  <2> QED BY <2>1, WrittenFollows
<1>2. CASE UpdateDomain
  <2>1. PICK i \in DomainIds, form \in DomainForms :
          domainRows[i] # Blank /\ WriteDomain(i, form)
          /\ ghosts' = Settles(form.name) \cup RenamedFrom(i, form) /\ UNCHANGED <<lookup, ungrouped>>
    BY <1>2 DEF UpdateDomain
  <2> QED BY <2>1, WrittenFollows
<1>3. CASE DeleteDomain
  <2>1. PICK i \in DomainIds :
          /\ domainRows[i] # Blank /\ domainRows' = [domainRows EXCEPT ![i] = Blank]
          /\ ForgetName(domainRows[i].name) /\ ghosts' = Settles(domainRows[i].name)
          /\ UNCHANGED <<lookup, ungrouped>>
    BY <1>3 DEF DeleteDomain
  <2> QED BY <2>1, DeletedFollows
<1>4. CASE SetDomainGroupID \/ GetDomainByName
  BY <1>4, UngroupedFollows, LookupsFollow
<1>5. CASE UNCHANGED routeVars
  BY <1>5 DEF routeVars, RouteInv, RouteType, NamesAreUnique, CacheFollows, LookupFollows, Doubtful,
              InDoubt, IsRow, Names
<1>6. CASE WarmDomainCache
  <2>1. RouteType /\ NamesAreUnique /\ domainRows' = domainRows /\ domainCache' = OfRows
        /\ lookup' = Blank /\ ungrouped' = Blank
    BY <1>6 DEF WarmDomainCache, RouteInv
  <2>2. RouteType'
    BY <2>1, RowsOfNames DEF RouteType
  <2>3. NamesAreUnique' /\ LookupFollows' /\ \A n, v : IsRow(n, v) => IsRow(n, v)'
    BY <2>1 DEF NamesAreUnique, LookupFollows, IsRow
  <2>4. CacheFollows'
    <3> SUFFICES ASSUME NEW n \in Names, domainCache'[n] # Blank PROVE IsRow(n, domainCache[n])'
      BY DEF CacheFollows, Names
    <3>1. IsRow(n, OfRows[n])
      BY <2>1, RowsOfNames
    <3> QED BY <2>1, <3>1 DEF IsRow
  <2> QED BY <2>2, <2>3, <2>4 DEF RouteInv
<1>7. GetTLSCertificate \/ AddCert \/ APICertUpdate \/ DeleteCert \/ UpsertACMECert
        \/ DeleteCertByDomainAndSource \/ CertExpires \/ TimeGoesOn => UNCHANGED routeVars
  BY DEF GetTLSCertificate, AddCert, APICertUpdate, DeleteCert, UpsertACMECert,
         DeleteCertByDomainAndSource, CertExpires, TimeGoesOn
<1>8. UNCHANGED domainVars => UNCHANGED routeVars
  BY DEF domainVars
<1> QED BY <1>1, <1>2, <1>3, <1>4, <1>5, <1>6, <1>7, <1>8 DEF DomainsNext

\* A handshake is given what was read after the last change.
LEMMA HandshakeNext ==
  ASSUME HandshakeInv, [DomainsNext]_domainVars
  PROVE  HandshakeInv'
<1>0. CertCacheTTL \in Nat
  BY DomainsAssumption
<1>1. ASSUME UNCHANGED <<certCache, handshake>>, WritesRow PROVE HandshakeInv'
  BY <1>0, <1>1 DEF HandshakeInv, WritesRow
<1>2. ASSUME UNCHANGED <<certCache, handshake, domainRows, sslCerts, unchangedFor>> PROVE HandshakeInv'
  <2>1. \A h : GetCertificate(h)' = GetCertificate(h)
    BY <1>2 DEF GetCertificate, Certified, Obtained
  <2> QED BY <1>2, <2>1 DEF HandshakeInv
<1>3. ASSUME domainRows' = domainRows, sslCerts' = sslCerts
      PROVE  \A h : GetCertificate(h)' = GetCertificate(h)
  BY <1>3 DEF GetCertificate, Certified, Obtained
<1>4. CASE GetTLSCertificate
  <2>1. domainRows' = domainRows /\ sslCerts' = sslCerts /\ unchangedFor' = unchangedFor
    BY <1>4 DEF GetTLSCertificate, routeVars, NoRowChanges
  <2>2. \A h : GetCertificate(h)' = GetCertificate(h)
    BY <1>3, <2>1
  <2>3. CASE certCache' = certCache /\ \E h \in Hosts : \E p \in GetCertificate(h) : handshake' = [host |-> h, pair |-> p]
    BY <2>1, <2>2, <2>3 DEF HandshakeInv
  <2>4. CASE /\ handshake # Blank /\ handshake' = Blank
             /\ certCache' = [certCache EXCEPT ![handshake.host] = [pair |-> handshake.pair, age |-> 0]]
    <3>1. \A h \in Hosts : certCache'[h] =
             IF h = handshake.host THEN [pair |-> handshake.pair, age |-> 0] ELSE certCache[h]
      BY <2>4 DEF HandshakeInv
    <3>2. certCache' = [h \in Hosts |-> certCache'[h]]
      BY <2>4 DEF HandshakeInv
    <3>3. ASSUME NEW h \in Hosts, certCache'[h] # Blank
          PROVE  /\ \E p, age : certCache'[h] = [pair |-> p, age |-> age]
                 /\ certCache'[h].age \in 0..CertCacheTTL
                 /\ certCache'[h].age < unchangedFor => certCache'[h].pair \in GetCertificate(h)
      <4>1. CASE h = handshake.host
        <5>1. certCache'[h] = [pair |-> handshake.pair, age |-> 0]
          BY <3>1, <4>1
        <5>2. certCache'[h].age = 0 /\ certCache'[h].pair = handshake.pair
          BY <5>1
        <5>3. 0 < unchangedFor => handshake.pair \in GetCertificate(h)
          BY <2>4, <4>1 DEF HandshakeInv
        <5>4. 0 \in 0..CertCacheTTL
          BY <1>0
        <5> QED BY <5>1, <5>2, <5>3, <5>4
      <4>2. CASE h # handshake.host
        <5>1. certCache'[h] = certCache[h] /\ certCache[h] # Blank
          BY <3>1, <3>3, <4>2
        <5>2. /\ \E p, age : certCache[h] = [pair |-> p, age |-> age]
              /\ certCache[h].age \in 0..CertCacheTTL
              /\ certCache[h].age < unchangedFor => certCache[h].pair \in GetCertificate(h)
          BY <5>1 DEF HandshakeInv
        <5> QED BY <5>1, <5>2
      <4> QED BY <4>1, <4>2
    <3>4. unchangedFor \in 0..CertCacheTTL
      BY DEF HandshakeInv
    <3> QED BY <2>1, <2>2, <2>4, <3>2, <3>3, <3>4 DEF HandshakeInv
  <2> QED BY <1>4, <2>3, <2>4 DEF GetTLSCertificate
<1>5. CASE TimeGoesOn
  <2>1. /\ domainRows' = domainRows /\ sslCerts' = sslCerts /\ handshake = Blank /\ handshake' = handshake
        /\ unchangedFor' = Ticks(unchangedFor)
        /\ certCache' = [h \in Hosts |->
             IF certCache[h] = Blank THEN Blank ELSE [certCache[h] EXCEPT !.age = Ticks(@)]]
    BY <1>5 DEF TimeGoesOn, routeVars
  <2>2. \A h : GetCertificate(h)' = GetCertificate(h)
    BY <1>3, <2>1
  <2>3. ASSUME NEW h \in Hosts, certCache'[h] # Blank
        PROVE  /\ \E p, age : certCache'[h] = [pair |-> p, age |-> age]
               /\ certCache'[h].age \in 0..CertCacheTTL
               /\ certCache'[h].age < unchangedFor' => certCache'[h].pair \in GetCertificate(h)
    <3>1. certCache[h] # Blank
      BY <2>1, <2>3
    <3>2. PICK p, age : certCache[h] = [pair |-> p, age |-> age]
      BY <3>1 DEF HandshakeInv
    <3>3. certCache'[h] = [pair |-> p, age |-> Ticks(age)]
      BY <2>1, <3>1, <3>2
    <3>4. age \in 0..CertCacheTTL /\ (age < unchangedFor => p \in GetCertificate(h))
          /\ unchangedFor \in 0..CertCacheTTL
      BY <3>1, <3>2 DEF HandshakeInv
    <3>5. Ticks(age) \in 0..CertCacheTTL /\ (Ticks(age) < unchangedFor' => age < unchangedFor)
      BY <1>0, <2>1, <3>4 DEF Ticks
    <3>6. certCache'[h].pair = p /\ certCache'[h].age = Ticks(age)
      BY <3>3
    <3> QED BY <3>3, <3>4, <3>5, <3>6
  <2>4. unchangedFor' \in 0..CertCacheTTL
    BY <1>0, <2>1 DEF Ticks, HandshakeInv
  <2>5. certCache' = [h \in Hosts |-> certCache'[h]]
    BY <2>1
  <2> QED BY <2>1, <2>2, <2>3, <2>4, <2>5 DEF HandshakeInv
<1>6. CASE WarmDomainCache
  BY <1>6 DEF WarmDomainCache, HandshakeInv
<1>7. CASE AddDomain \/ UpdateDomain \/ DeleteDomain
  BY <1>1, <1>7 DEF AddDomain, UpdateDomain, DeleteDomain, tlsVars
<1>8. CASE SetDomainGroupID
  <2>1. WritesRow \/ (NoRowChanges /\ domainRows' = domainRows)
    BY <1>8 DEF SetDomainGroupID
  <2> QED BY <1>1, <1>2, <1>8, <2>1 DEF SetDomainGroupID, tlsVars, NoRowChanges
<1>9. CASE GetDomainByName
  BY <1>2, <1>9 DEF GetDomainByName, tlsVars, NoRowChanges
<1>10. CASE AddCert \/ DeleteCert \/ UpsertACMECert \/ DeleteCertByDomainAndSource \/ CertExpires
  BY <1>1, <1>10 DEF AddCert, DeleteCert, UpsertACMECert, DeleteCertByDomainAndSource, CertExpires
<1>11. CASE APICertUpdate
  <2>1. WritesRow \/ (NoRowChanges /\ sslCerts' = sslCerts)
    BY <1>11 DEF APICertUpdate
  <2> QED BY <1>1, <1>2, <1>11, <2>1 DEF APICertUpdate, routeVars, NoRowChanges
<1>12. CASE UNCHANGED domainVars
  BY <1>2, <1>12 DEF domainVars, routeVars, tlsVars
<1> QED BY <1>4, <1>5, <1>6, <1>7, <1>8, <1>9, <1>10, <1>11, <1>12 DEF DomainsNext

\* A start, before anything is configured.
LEMMA DomainsStart == DomainsInit => RouteInv /\ HandshakeInv
<1> SUFFICES ASSUME DomainsInit PROVE RouteInv /\ HandshakeInv
  OBVIOUS
<1>1. RouteInv
  BY DEF DomainsInit, RouteInv, RouteType, NamesAreUnique, CacheFollows, LookupFollows
<1>2. HandshakeInv
  BY DomainsAssumption DEF DomainsInit, HandshakeInv
<1> QED BY <1>1, <1>2

\* director and GetDomainByName in proxyconfig/route.go, GetTLSCertificate in
\* proxy/server_manager.go: the names that calls and lookups leave cached are those of
\* the table but for the ones that were renamed or overtaken, and no certificate
\* outlives a change by five minutes, for any number of domains, names and pairs.
THEOREM DomainsAreFollowed == DomainsSpec => []ProxiesFollowDomains
<1>1. DomainsInit => RouteInv /\ HandshakeInv
  BY DomainsStart
<1>2. RouteInv /\ HandshakeInv /\ [DomainsNext]_domainVars => (RouteInv /\ HandshakeInv)'
  BY RouteNext, HandshakeNext
<1>3. RouteInv => RoutesFollowRows
  <2> SUFFICES ASSUME RouteInv, NEW h \in Hosts, {h, DefaultName} \cap (ghosts \cup InDoubt) = {}
               PROVE  Director(OfCache, h) = Director(OfRows, h) /\ Redirected(OfCache, h) = Redirected(OfRows, h)
    BY DEF RoutesFollowRows
  <2>1. RouteType /\ NamesAreUnique /\ CacheFollows
    BY DEF RouteInv
  <2>2. \A n \in {h, DefaultName} : n \in Names /\ n \notin Doubtful
    BY DEF Names, Doubtful
  <2>3. \A n \in {h, DefaultName} : domainCache[n] # Blank => domainCache[n] = OfRows[n]
    BY <2>1, <2>2, RowsOfNames DEF CacheFollows
  <2>4. \A n \in {h, DefaultName} : OfCache[n] = OfRows[n]
    BY <2>2, <2>3 DEF OfCache
  <2> QED BY <2>4 DEF Director, Redirected
<1>4. HandshakeInv => HandshakesFollowRows
  BY DomainsAssumption DEF HandshakeInv, HandshakesFollowRows, InCertCache
<1> QED BY <1>1, <1>2, <1>3, <1>4, PTL DEF DomainsSpec, ProxiesFollowDomains

-----------------------------------------------------------------------------
(* What a start does for the certificates it finds, for any number of domains,
   pairs, jobs and crashes.                                                   *)

PairRecords == [le : BOOLEAN, age : {"fresh", "expiring", "expired"}]
WorkSteps == {"none", "delete row", "remove cert", "remove key", "stop", "wait", "check", "renew", "read key",
              "write cert", "write key", "save", "migrate"}
JobRecords(n) == [pc : WorkSteps, todo : SUBSET Domains, domain : Domains \cup {""}, pair : 0..n]

\* Pairs in files and in hand have been made.
PairsAreMade ==
  /\ pairs \in Seq(PairRecords)
  /\ files \in [Domains -> [cert : 0..Len(pairs), key : 0..Len(pairs)]]
  /\ jobs \in [Workers -> JobRecords(Len(pairs))]
  /\ settings \subseteq Domains /\ managed \subseteq Domains

\* A job that renews a certificate knows of which domain.
NamedRenewals == \A w \in Workers : jobs[w].pc = "renew" => jobs[w].domain \in Domains

\* Until start-up is over nobody else works on a certificate; then it does not.
StartsAlone == booting => \A w \in Workers \ {"start-up"} : jobs[w].pc = "none"
StartsOnce == ~booting => jobs["start-up"].pc = "none"

\* What start-up has done so far, if nothing failed: the domains it no longer has to
\* do have a current pair, and the one in hand a fresh one, as far as it is written.
Progress(job) ==
  /\ job.pc \in {"check", "write cert", "write key", "save", "migrate"}
  /\ \A d \in settings : Current(files[d]) \/ (d \in job.todo /\ job.pc # "migrate")
  /\ job.pc \in {"write cert", "write key", "save"} =>
       job.domain \in job.todo /\ job.pair # 0 /\ pairs[job.pair].age = "fresh"
  /\ job.pc \in {"write key", "save"} => files[job.domain].cert = job.pair
  /\ job.pc = "save" => files[job.domain].key = job.pair
StartGoesOn == booting /\ smooth => Progress(jobs["start-up"])

StartInv == PairsAreMade /\ NamedRenewals /\ StartsAlone /\ StartsOnce /\ StartGoesOn

\* A new pair leaves the older ones as they are.
LEMMA MadePairs ==
  ASSUME pairs \in Seq(PairRecords), NEW le \in BOOLEAN,
         pairs' = Append(pairs, [le |-> le, age |-> "fresh"])
  PROVE  /\ pairs' \in Seq(PairRecords)
         /\ Len(pairs') = Len(pairs) + 1 /\ Len(pairs) \in Nat
         /\ \A i \in 1..Len(pairs) : pairs'[i] = pairs[i]
         /\ pairs'[Len(pairs) + 1].age = "fresh"
<1>1. [le |-> le, age |-> "fresh"] \in PairRecords
  BY DEF PairRecords
<1> QED BY <1>1, AppendProperties, LenProperties

\* The job of one that has none.
LEMMA NoJobFields == ASSUME NEW n \in Nat PROVE NoJob \in JobRecords(n)
BY DEF JobRecords, NoJob, WorkSteps

LEMMA JobsGrow ==
  ASSUME NEW n \in Nat, NEW m \in Nat, n <= m, NEW job \in JobRecords(n)
  PROVE  job \in JobRecords(m)
<1>1. job.pair \in 0..n
  BY DEF JobRecords
<1>2. job.pair \in 0..m
  BY <1>1
<1> QED BY <1>2 DEF JobRecords

\* What a step makes of a job.
LEMMA JobFields ==
  ASSUME NEW n \in Nat, NEW job \in JobRecords(n), NEW pc \in WorkSteps, NEW todo \in SUBSET Domains
  PROVE  /\ NoJob \in JobRecords(n)
         /\ [job EXCEPT !.pc = pc] \in JobRecords(n)
         /\ [job EXCEPT !.pc = pc, !.todo = todo] \in JobRecords(n)
         /\ \A d \in Domains : [job EXCEPT !.pc = pc, !.domain = d] \in JobRecords(n)
         /\ \A d \in Domains, p \in 0..n : [job EXCEPT !.pc = pc, !.domain = d, !.pair = p] \in JobRecords(n)
         /\ \A p \in 0..n : [job EXCEPT !.pc = pc, !.pair = p] \in JobRecords(n)
<1>1. NoJob \in JobRecords(n)
  BY NoJobFields
<1>2. [job EXCEPT !.pc = pc] \in JobRecords(n)
  BY DEF JobRecords
<1>3. [job EXCEPT !.pc = pc, !.todo = todo] \in JobRecords(n)
  BY DEF JobRecords
<1>4. \A d \in Domains, p \in 0..n : [job EXCEPT !.pc = pc, !.domain = d, !.pair = p] \in JobRecords(n)
  BY DEF JobRecords
<1>5. \A p \in 0..n : [job EXCEPT !.pc = pc, !.pair = p] \in JobRecords(n)
  BY DEF JobRecords
<1>6. \A d \in Domains : [job EXCEPT !.pc = pc, !.domain = d] \in JobRecords(n)
  BY DEF JobRecords
<1> QED BY <1>1, <1>2, <1>3, <1>4, <1>5, <1>6

\* Work on one certificate keeps the types.
LEMMA JobStep ==
  ASSUME PairsAreMade, NamedRenewals, NEW w \in Workers,
         \/ WriteCert(w) \/ WriteKey(w) \/ SaveCertToDB(w) \/ Finish(w)
         \/ \E d \in Domains : ObtainCertificate(w, d)
         \/ RenewCertificate(w) \/ ReadKey(w)
         \/ StopRenewing(w) \/ UpdateDomains(w)
         \/ DeleteRow(w) \/ RemoveCert(w) \/ RemoveKey(w)
  PROVE  PairsAreMade'
<1>0. /\ pairs \in Seq(PairRecords) /\ Len(pairs) \in Nat
      /\ files \in [Domains -> [cert : 0..Len(pairs), key : 0..Len(pairs)]]
      /\ jobs \in [Workers -> JobRecords(Len(pairs))]
      /\ settings \subseteq Domains /\ managed \subseteq Domains
  BY LenProperties DEF PairsAreMade
<1>1. jobs[w] \in JobRecords(Len(pairs)) /\ NoJob \in JobRecords(Len(pairs))
        /\ Len(pairs) \in Nat /\ WorkSteps # {}
  BY <1>0, JobFields DEF WorkSteps
<1>a. {"none", "remove cert", "remove key", "stop", "check", "wait", "read key", "write cert", "write key", "save",
       "migrate"} \subseteq WorkSteps
  BY DEF WorkSteps
<1>2. ASSUME NextDomain(w) PROVE jobs' \in [Workers -> JobRecords(Len(pairs))]
  <2>1. [NoJob EXCEPT !.pc = "check", !.todo = jobs[w].todo \ {jobs[w].domain}] \in JobRecords(Len(pairs))
    <3>1. jobs[w].todo \ {jobs[w].domain} \in SUBSET Domains
      BY <1>1 DEF JobRecords
    <3> QED BY <1>1, <1>a, <3>1, JobFields
  <2> QED BY <1>0, <1>2, <2>1 DEF NextDomain
<1>3. ASSUME NEW pc \in WorkSteps, Goto(w, pc) PROVE jobs' \in [Workers -> JobRecords(Len(pairs))]
  <2>1. [jobs[w] EXCEPT !.pc = pc] \in JobRecords(Len(pairs))
    BY <1>1, JobFields
  <2> QED BY <1>0, <1>3, <2>1 DEF Goto
<1>4. ASSUME jobs' \in [Workers -> JobRecords(Len(pairs))],
             files' \in [Domains -> [cert : 0..Len(pairs), key : 0..Len(pairs)]],
             UNCHANGED <<pairs, settings, managed>>
      PROVE  PairsAreMade'
  BY <1>0, <1>4 DEF PairsAreMade
<1>5. ASSUME NEW d \in Domains, Obtain(w, d) PROVE PairsAreMade'
  <2>1. CASE UNCHANGED pairs
    <3>1. jobs' = [jobs EXCEPT ![w].pc = "check", ![w].todo = @ \ {d}]
          /\ UNCHANGED <<pairs, settings, managed, files>>
      <4>1. Len(pairs) + 1 # Len(pairs)
        BY <1>0
      <4>2. ASSUME NEW le \in BOOLEAN, Make(w, d, le) PROVE FALSE
        BY <1>0, <2>1, <4>1, <4>2, MadePairs DEF Make
      <4> QED BY <1>5, <2>1, <4>2 DEF Obtain, Fail
    <3>2. [jobs[w] EXCEPT !.pc = "check", !.todo = @ \ {d}] \in JobRecords(Len(pairs))
      <4>1. jobs[w].todo \ {d} \in SUBSET Domains
        BY <1>1 DEF JobRecords
      <4> QED BY <1>1, <1>a, <4>1, JobFields
    <3>3. jobs' \in [Workers -> JobRecords(Len(pairs))]
      BY <1>0, <3>1, <3>2
    <3> QED BY <1>0, <1>4, <3>1, <3>3
  <2>2. CASE \E le \in BOOLEAN : Make(w, d, le) /\ UNCHANGED <<settings, files, managed>>
    <3>1. PICK le \in BOOLEAN : Make(w, d, le) /\ UNCHANGED <<settings, files, managed>>
      BY <2>2
    <3>2. /\ pairs' \in Seq(PairRecords) /\ Len(pairs') = Len(pairs) + 1
      BY <1>0, <3>1, MadePairs DEF Make
    <3>3. files' \in [Domains -> [cert : 0..Len(pairs'), key : 0..Len(pairs')]]
      BY <1>0, <3>1, <3>2
    <3>4. \A v \in Workers : jobs[v] \in JobRecords(Len(pairs'))
      <4> SUFFICES ASSUME NEW v \in Workers PROVE jobs[v] \in JobRecords(Len(pairs'))
        OBVIOUS
      <4>1. jobs[v] \in JobRecords(Len(pairs)) /\ Len(pairs') \in Nat /\ Len(pairs) <= Len(pairs')
        BY <1>0, <3>2
      <4> QED BY <4>1, JobsGrow
    <3>5. [jobs[w] EXCEPT !.pc = "write cert", !.domain = d, !.pair = Len(pairs) + 1] \in JobRecords(Len(pairs'))
      <4>1. jobs[w] \in JobRecords(Len(pairs')) /\ Len(pairs') \in Nat /\ Len(pairs) + 1 \in 0..Len(pairs')
        BY <1>0, <3>2, <3>4
      <4> QED BY <1>a, <4>1, JobFields
    <3>6. jobs' \in [Workers -> JobRecords(Len(pairs'))]
      BY <1>0, <3>1, <3>4, <3>5 DEF Make
    <3> QED BY <1>0, <3>1, <3>2, <3>3, <3>6 DEF PairsAreMade
  <2> QED BY <1>5, <2>1, <2>2 DEF Obtain, Fail
<1>6. CASE WriteCert(w)
  <2>1. UNCHANGED <<pairs, settings, managed>>
    BY <1>6 DEF WriteCert, Succeed, Fail
  <2>2. jobs[w].pair \in 0..Len(pairs)
    BY <1>1 DEF JobRecords
  <2>3. files' \in [Domains -> [cert : 0..Len(pairs), key : 0..Len(pairs)]]
    BY <1>0, <1>6, <2>2 DEF WriteCert
  <2>4. jobs' \in [Workers -> JobRecords(Len(pairs))]
    BY <1>2, <1>3, <1>a, <1>6 DEF WriteCert
  <2> QED BY <1>4, <2>1, <2>3, <2>4
<1>7. CASE WriteKey(w)
  <2>1. UNCHANGED <<pairs, settings, managed>>
    BY <1>7 DEF WriteKey, Succeed, Fail
  <2>2. jobs[w].pair \in 0..Len(pairs)
    BY <1>1 DEF JobRecords
  <2>3. files' \in [Domains -> [cert : 0..Len(pairs), key : 0..Len(pairs)]]
    BY <1>0, <1>7, <2>2 DEF WriteKey
  <2>4. jobs' \in [Workers -> JobRecords(Len(pairs))]
    BY <1>2, <1>3, <1>a, <1>7 DEF WriteKey
  <2> QED BY <1>4, <2>1, <2>3, <2>4
<1>8. CASE SaveCertToDB(w)
  <2>1. UNCHANGED <<pairs, settings, managed, files>> /\ NextDomain(w)
    BY <1>8 DEF SaveCertToDB, Succeed, Fail
  <2> QED BY <1>0, <1>2, <1>4, <2>1
<1>9. CASE Finish(w)
  <2>1. UNCHANGED <<pairs, settings, managed, files>>
        /\ jobs' = [jobs EXCEPT ![w] = [NoJob EXCEPT !.pc = IF w = "start-up" THEN "migrate" ELSE "none"]]
    BY <1>9 DEF Finish
  <2>2. [NoJob EXCEPT !.pc = IF w = "start-up" THEN "migrate" ELSE "none"] \in JobRecords(Len(pairs))
    BY <1>1, <1>a, JobFields
  <2>3. jobs' \in [Workers -> JobRecords(Len(pairs))]
    BY <1>0, <2>1, <2>2
  <2> QED BY <1>0, <1>4, <2>1, <2>3
<1>10. CASE \E d \in Domains : ObtainCertificate(w, d)
  BY <1>5, <1>10 DEF ObtainCertificate
<1>11. CASE RenewCertificate(w)
  <2> DEFINE d == jobs[w].domain
  <2>1. CASE GoodForLong(d)
    <3>1. /\ jobs' = [jobs EXCEPT ![w].pc = "read key", ![w].pair = files[d].cert]
          /\ UNCHANGED <<pairs, settings, managed, files>>
      BY <1>11, <2>1 DEF RenewCertificate, Succeed
    <3>2. files[d].cert \in 0..Len(pairs)
      <4>1. d \in Domains
        BY <1>11 DEF RenewCertificate, Stands, NamedRenewals
      <4> QED BY <1>0, <4>1
    <3>3. [jobs[w] EXCEPT !.pc = "read key", !.pair = files[d].cert] \in JobRecords(Len(pairs))
      BY <1>1, <1>a, <3>2, JobFields
    <3>4. jobs' \in [Workers -> JobRecords(Len(pairs))]
      BY <1>0, <3>1, <3>3
    <3> QED BY <1>0, <1>4, <3>1, <3>4
  <2>2. CASE ~GoodForLong(d)
    BY <1>5, <1>11, <2>2 DEF RenewCertificate, Stands, NamedRenewals
  <2> QED BY <2>1, <2>2
<1>12. CASE ReadKey(w)
  <2>1. UNCHANGED <<pairs, settings, managed, files>> /\ NextDomain(w)
    BY <1>12 DEF ReadKey, Succeed
  <2> QED BY <1>0, <1>2, <1>4, <2>1
<1>13. CASE StopRenewing(w)
  <2>1. UNCHANGED <<pairs, settings, managed, files>> /\ Goto(w, "wait")
    BY <1>13 DEF StopRenewing
  <2> QED BY <1>0, <1>3, <1>a, <1>4, <2>1
<1>14. CASE UpdateDomains(w)
  <2>1. UNCHANGED <<pairs, settings, files>> /\ managed' = jobs[w].todo
        /\ Goto(w, IF managed' = {} THEN "none" ELSE "check")
    BY <1>14 DEF UpdateDomains
  <2>2. managed' \subseteq Domains
    BY <1>1, <2>1 DEF JobRecords
  <2>3. jobs' \in [Workers -> JobRecords(Len(pairs))]
    BY <1>3, <1>a, <2>1
  <2> QED BY <1>0, <2>1, <2>2, <2>3 DEF PairsAreMade
<1>15. CASE DeleteRow(w)
  <2>1. UNCHANGED <<pairs, settings, managed, files>> /\ Goto(w, "remove cert")
    BY <1>15 DEF DeleteRow, Succeed, Fail
  <2> QED BY <1>0, <1>3, <1>a, <1>4, <2>1
<1>16. CASE RemoveCert(w)
  <2>1. UNCHANGED <<pairs, settings, managed>> /\ Goto(w, "remove key")
    BY <1>16 DEF RemoveCert, Succeed, Fail
  <2>2. 0 \in 0..Len(pairs)
    BY <1>0
  <2>3. files' = [files EXCEPT ![jobs[w].domain].cert = 0] \/ files' = files
    BY <1>16 DEF RemoveCert
  <2>4. files' \in [Domains -> [cert : 0..Len(pairs), key : 0..Len(pairs)]]
    BY <1>0, <2>2, <2>3
  <2> QED BY <1>3, <1>a, <1>4, <2>1, <2>4
<1>17. CASE RemoveKey(w)
  <2>1. UNCHANGED <<pairs, settings, managed>> /\ Goto(w, "stop")
    BY <1>17 DEF RemoveKey, Succeed, Fail
  <2>2. 0 \in 0..Len(pairs)
    BY <1>0
  <2>3. files' = [files EXCEPT ![jobs[w].domain].key = 0] \/ files' = files
    BY <1>17 DEF RemoveKey
  <2>4. files' \in [Domains -> [cert : 0..Len(pairs), key : 0..Len(pairs)]]
    BY <1>0, <2>2, <2>3
  <2> QED BY <1>3, <1>a, <1>4, <2>1, <2>4
<1> QED BY <1>6, <1>7, <1>8, <1>9, <1>10, <1>11, <1>12, <1>13, <1>14, <1>15, <1>16, <1>17

\* The types of the rest: handlers, the renewal loop, crashes and ageing.
LEMMA PairsNext ==
  ASSUME PairsAreMade, NamedRenewals, [CertificatesNext]_certVars
  PROVE  PairsAreMade'
<1>0. /\ pairs \in Seq(PairRecords) /\ Len(pairs) \in Nat
      /\ files \in [Domains -> [cert : 0..Len(pairs), key : 0..Len(pairs)]]
      /\ jobs \in [Workers -> JobRecords(Len(pairs))]
      /\ settings \subseteq Domains /\ managed \subseteq Domains
  BY LenProperties DEF PairsAreMade
<1>1. NoJob \in JobRecords(Len(pairs)) /\ Missing \in [cert : 0..Len(pairs), key : 0..Len(pairs)]
  BY <1>0, NoJobFields DEF Missing
<1>a. {"none", "delete row", "stop", "check", "renew", "migrate"} \subseteq WorkSteps
  BY DEF WorkSteps
<1>2. ASSUME NEW w \in Workers, NEW pc \in {"stop", "check"}, NEW todo \in SUBSET Domains,
             jobs' = [jobs EXCEPT ![w] = [NoJob EXCEPT !.pc = pc, !.todo = todo]]
      PROVE  jobs' \in [Workers -> JobRecords(Len(pairs))]
  <2>1. [NoJob EXCEPT !.pc = pc, !.todo = todo] \in JobRecords(Len(pairs))
    BY <1>0, <1>1, <1>2, <1>a, JobFields
  <2> QED BY <1>0, <1>2, <2>1
<1>3. ASSUME NEW j \in Jobs, NEW domains \in SUBSET Domains, APIACMEConfig(j, domains) PROVE PairsAreMade'
  <2>1. jobs' = [jobs EXCEPT ![j] = [NoJob EXCEPT !.pc = "stop", !.todo = domains]]
        /\ settings' = domains /\ UNCHANGED <<files, pairs, managed>>
    BY <1>3 DEF APIACMEConfig, Launch
  <2>2. jobs' \in [Workers -> JobRecords(Len(pairs))]
    BY <1>2, <2>1 DEF Workers
  <2> QED BY <1>0, <2>1, <2>2 DEF PairsAreMade
<1>4. ASSUME NEW j \in Jobs, NEW d \in Domains, APIACMEConvertToAuto(j, d) PROVE PairsAreMade'
  <2>1. RowDomains \cup {d} \in SUBSET Domains
    BY DEF RowDomains
  <2> QED BY <1>3, <1>4, <2>1 DEF APIACMEConvertToAuto
<1>5. ASSUME NEW j \in Jobs, NEW d \in Domains, APIACMERemoveDomain(j, d) PROVE PairsAreMade'
  <2>1. RowDomains \ {d} \in SUBSET Domains
    BY DEF RowDomains
  <2> DEFINE job == [NoJob EXCEPT !.pc = "delete row", !.todo = RowDomains \ {d}, !.domain = d]
  <2>2. jobs' = [jobs EXCEPT ![j] = job]
        /\ settings' = RowDomains \ {d} /\ UNCHANGED <<pairs, managed, files>>
    BY <1>5 DEF APIACMERemoveDomain
  <2>3. job \in JobRecords(Len(pairs))
    <3>1. [NoJob EXCEPT !.pc = "delete row", !.todo = RowDomains \ {d}] \in JobRecords(Len(pairs))
      BY <1>0, <1>1, <1>a, <2>1, JobFields
    <3> QED BY <3>1 DEF JobRecords
  <2> HIDE DEF job
  <2>4. jobs' \in [Workers -> JobRecords(Len(pairs))]
    BY <1>0, <2>2, <2>3 DEF Workers
  <2> QED BY <1>0, <2>1, <2>2, <2>4 DEF PairsAreMade
<1>6. ASSUME NEW j \in Jobs, NEW d \in Domains, APIACMERenew(j, d) PROVE PairsAreMade'
  <2>1. jobs' = [jobs EXCEPT ![j] = [NoJob EXCEPT !.pc = "renew", !.domain = d]]
        /\ UNCHANGED <<settings, files, pairs, managed>>
    BY <1>6 DEF APIACMERenew, Succeed
  <2>2. [NoJob EXCEPT !.pc = "renew", !.domain = d] \in JobRecords(Len(pairs))
    <3>1. {} \in SUBSET Domains
      OBVIOUS
    <3> QED BY <1>0, <1>1, <1>a, <3>1, JobFields
  <2>3. jobs' \in [Workers -> JobRecords(Len(pairs))]
    BY <1>0, <2>1, <2>2
  <2> QED BY <1>0, <2>1, <2>3 DEF PairsAreMade
<1>7. CASE RenewalRound
  <2>1. jobs' = [jobs EXCEPT !["renewal loop"] = [NoJob EXCEPT !.pc = "check", !.todo = managed]]
        /\ UNCHANGED <<settings, files, pairs, managed>>
    BY <1>7 DEF RenewalRound, Launch, Succeed
  <2>2. jobs' \in [Workers -> JobRecords(Len(pairs))]
    BY <1>0, <1>2, <2>1 DEF Workers
  <2> QED BY <1>0, <2>1, <2>2 DEF PairsAreMade
<1>8. CASE MigrateDiskCertsToDB
  <2>1. jobs' = [jobs EXCEPT !["start-up"].pc = "none"] /\ UNCHANGED <<settings, pairs, managed>>
        /\ files' = [d \in Domains |-> IF d \in settings \/ files[d].cert = 0 THEN files[d] ELSE Missing]
    BY <1>8 DEF MigrateDiskCertsToDB, Goto
  <2>2. [jobs["start-up"] EXCEPT !.pc = "none"] \in JobRecords(Len(pairs))
    BY <1>0, <1>a, JobFields DEF Workers
  <2>3. jobs' \in [Workers -> JobRecords(Len(pairs))]
    BY <1>0, <2>1, <2>2
  <2>4. files' \in [Domains -> [cert : 0..Len(pairs), key : 0..Len(pairs)]]
    BY <1>0, <1>1, <2>1
  <2> QED BY <1>0, <2>1, <2>3, <2>4 DEF PairsAreMade
<1>9. CASE CrashAndStart
  <2>1. /\ jobs' = [w \in Workers |->
             IF w = "start-up" THEN [NoJob EXCEPT !.pc = "check", !.todo = settings] ELSE NoJob]
        /\ managed' = settings /\ UNCHANGED <<settings, files, pairs>>
    BY <1>9 DEF CrashAndStart
  <2>2. [NoJob EXCEPT !.pc = "check", !.todo = settings] \in JobRecords(Len(pairs))
    BY <1>0, <1>1, <1>a, JobFields
  <2>3. jobs' \in [Workers -> JobRecords(Len(pairs))]
    BY <1>1, <2>1, <2>2
  <2> QED BY <1>0, <2>1, <2>3 DEF PairsAreMade
<1>10. ASSUME NEW i \in DOMAIN pairs, GrowOld(i) PROVE PairsAreMade'
  <2>1. pairs' = [pairs EXCEPT ![i].age = IF @ = "fresh" THEN "expiring" ELSE "expired"]
        /\ UNCHANGED <<settings, files, jobs, managed>>
    BY <1>10 DEF GrowOld
  <2>2. pairs[i] \in PairRecords /\ i \in 1..Len(pairs)
    BY <1>0, <1>10, ElementOfSeq, LenProperties
  <2>3. [pairs[i] EXCEPT !.age = IF @ = "fresh" THEN "expiring" ELSE "expired"] \in PairRecords
    BY <2>2 DEF PairRecords
  <2>4. pairs' = [pairs EXCEPT ![i] = [pairs[i] EXCEPT !.age = IF @ = "fresh" THEN "expiring" ELSE "expired"]]
    BY <1>0, <2>1
  <2>5. pairs' \in Seq(PairRecords) /\ Len(pairs') = Len(pairs)
    BY <1>0, <2>2, <2>3, <2>4, ExceptSeq
  <2> QED BY <1>0, <2>1, <2>5 DEF PairsAreMade
<1>11. CASE UNCHANGED certVars
  BY <1>0, <1>11 DEF certVars, PairsAreMade
<1>12. Jobs \subseteq Workers
  BY DEF Workers
<1>13. ASSUME NEW j \in Jobs,
              \/ StopRenewing(j) \/ UpdateDomains(j) \/ RenewCertificate(j) \/ ReadKey(j)
              \/ DeleteRow(j) \/ RemoveCert(j) \/ RemoveKey(j)
       PROVE  PairsAreMade'
  BY <1>12, <1>13, JobStep
<1>14. ASSUME NEW w \in Workers,
              WriteCert(w) \/ WriteKey(w) \/ SaveCertToDB(w) \/ Finish(w)
              \/ \E d \in Domains : ObtainCertificate(w, d)
       PROVE  PairsAreMade'
  BY <1>14, JobStep
<1> QED
  BY <1>3, <1>4, <1>5, <1>6, <1>7, <1>8, <1>9, <1>10, <1>11, <1>13, <1>14 DEF CertificatesNext

\* Whoever moves has a job or takes one, and nobody takes one while the daemon starts.
LEMMA OneJobMoves ==
  ASSUME PairsAreMade, [CertificatesNext]_certVars, ~CrashAndStart
  PROVE  \E w \in Workers :
           /\ \A v \in Workers \ {w} : jobs'[v] = jobs[v]
           /\ jobs' = jobs \/ jobs'[w].pc # "renew" \/ jobs'[w].domain \in Domains
           /\ jobs' = jobs \/ jobs[w].pc # "none" \/ (~booting /\ w # "start-up")
<1>0. jobs \in [Workers -> JobRecords(Len(pairs))] /\ NoJob.domain = "" /\ "start-up" \in Workers
      /\ \A w \in Workers : jobs[w] \in JobRecords(Len(pairs))
  BY DEF PairsAreMade, NoJob, Workers
<1> DEFINE Moves(w) ==
     /\ \A v \in Workers \ {w} : jobs'[v] = jobs[v]
     /\ jobs' = jobs \/ jobs'[w].pc # "renew" \/ jobs'[w].domain \in Domains
     /\ jobs' = jobs \/ jobs[w].pc # "none" \/ (~booting /\ w # "start-up")
<1>1. ASSUME NEW w \in Workers, NEW r, jobs' = [jobs EXCEPT ![w] = r],
             r.pc # "renew" \/ r.domain \in Domains,
             jobs[w].pc # "none" \/ (~booting /\ w # "start-up")
      PROVE  Moves(w)
  BY <1>0, <1>1
<1>2. ASSUME NEW w \in Workers, w # "start-up", NEW pc \in {"stop", "check"}, NEW todo, Launch(w, pc, todo)
      PROVE  Moves(w)
  <2>1. [NoJob EXCEPT !.pc = pc, !.todo = todo].pc = pc
    BY DEF NoJob
  <2> QED BY <1>1, <1>2, <2>1 DEF Launch
<1>3. ASSUME NEW w \in Workers, NEW pc, pc # "renew", Goto(w, pc), jobs[w].pc # "none"
      PROVE  Moves(w)
  <2>1. [jobs[w] EXCEPT !.pc = pc].pc = pc
    BY <1>0 DEF JobRecords
  <2>2. jobs' = [jobs EXCEPT ![w] = [jobs[w] EXCEPT !.pc = pc]]
    BY <1>0, <1>3 DEF Goto
  <2> QED BY <1>1, <1>3, <2>1, <2>2
<1>4. ASSUME NEW w \in Workers, NextDomain(w), jobs[w].pc # "none"
      PROVE  Moves(w)
  <2>1. \A todo : [NoJob EXCEPT !.pc = "check", !.todo = todo].pc = "check"
    BY DEF NoJob
  <2> QED BY <1>1, <1>4, <2>1 DEF NextDomain
<1>5. ASSUME NEW w \in Workers, NEW d, Obtain(w, d), jobs[w].pc # "none"
      PROVE  Moves(w)
  <2>1. PICK r : jobs' = [jobs EXCEPT ![w] = r] /\ r.pc \in {"write cert", "check"}
    <3>1. \A n : [jobs[w] EXCEPT !.pc = "write cert", !.domain = d, !.pair = n].pc = "write cert"
      BY <1>0 DEF JobRecords
    <3>2. [jobs[w] EXCEPT !.pc = "check", !.todo = @ \ {d}].pc = "check"
      BY <1>0 DEF JobRecords
    <3>3. CASE \E le \in BOOLEAN : Make(w, d, le)
      <4>1. jobs' = [jobs EXCEPT ![w] = [jobs[w] EXCEPT !.pc = "write cert", !.domain = d, !.pair = Len(pairs) + 1]]
        BY <1>0, <3>3 DEF Make
      <4> QED BY <3>1, <4>1
    <3>4. CASE jobs' = [jobs EXCEPT ![w].pc = "check", ![w].todo = @ \ {d}]
      <4>1. jobs' = [jobs EXCEPT ![w] = [jobs[w] EXCEPT !.pc = "check", !.todo = @ \ {d}]]
        BY <1>0, <3>4
      <4> QED BY <3>2, <4>1
    <3> QED BY <1>5, <3>3, <3>4 DEF Obtain
  <2> QED BY <1>1, <1>5, <2>1
<1>6. ASSUME NEW w \in Workers,
             \/ WriteCert(w) \/ WriteKey(w) \/ SaveCertToDB(w) \/ ReadKey(w) \/ StopRenewing(w) \/ UpdateDomains(w)
             \/ DeleteRow(w) \/ RemoveCert(w) \/ RemoveKey(w)
      PROVE  Moves(w)
  <2>1. jobs[w].pc # "none"
    BY <1>6 DEF WriteCert, WriteKey, SaveCertToDB, ReadKey, StopRenewing, UpdateDomains, DeleteRow, RemoveCert,
       RemoveKey, Stands
  <2>2. \/ NextDomain(w)
        \/ \E pc \in {"remove cert", "remove key", "stop", "wait", "none", "check", "write key", "save"} : Goto(w, pc)
    BY <1>6 DEF WriteCert, WriteKey, SaveCertToDB, ReadKey, StopRenewing, UpdateDomains, DeleteRow, RemoveCert,
       RemoveKey
  <2> QED BY <1>3, <1>4, <2>1, <2>2
<1>7. ASSUME NEW w \in Workers, Finish(w) PROVE Moves(w)
  <2>1. \A pc : [NoJob EXCEPT !.pc = pc].pc = pc
    BY DEF NoJob
  <2> QED BY <1>1, <1>7, <2>1 DEF Finish, Stands
<1>8. ASSUME NEW w \in Workers, NEW d \in Domains, ObtainCertificate(w, d) PROVE Moves(w)
  BY <1>5, <1>8 DEF ObtainCertificate, Stands
<1>9. ASSUME NEW w \in Workers, RenewCertificate(w) PROVE Moves(w)
  <2>1. jobs[w].pc # "none"
    BY <1>9 DEF RenewCertificate, Stands
  <2>2. CASE GoodForLong(jobs[w].domain)
    <3>1. \A n : [jobs[w] EXCEPT !.pc = "read key", !.pair = n].pc = "read key"
      BY <1>0 DEF JobRecords
    <3>2. jobs' = [jobs EXCEPT ![w] = [jobs[w] EXCEPT !.pc = "read key", !.pair = files[jobs[w].domain].cert]]
      BY <1>0, <1>9, <2>2 DEF RenewCertificate
    <3> QED BY <1>1, <2>1, <3>1, <3>2
  <2>3. CASE ~GoodForLong(jobs[w].domain)
    BY <1>5, <1>9, <2>1, <2>3 DEF RenewCertificate
  <2> QED BY <2>2, <2>3
<1>10. ASSUME NEW j \in Jobs PROVE j \in Workers /\ j # "start-up"
  BY JobsAssumption DEF Workers
<1>11. ASSUME NEW j \in Jobs, NEW d \in Domains, APIACMERenew(j, d) PROVE Moves(j)
  <2>1. [NoJob EXCEPT !.pc = "renew", !.domain = d].domain = d
    BY DEF NoJob
  <2> QED BY <1>1, <1>10, <1>11, <2>1 DEF APIACMERenew
<1>12. ASSUME NEW j \in Jobs,
              \/ \E domains \in SUBSET Domains : APIACMEConfig(j, domains)
              \/ \E d \in Domains : APIACMEConvertToAuto(j, d) \/ APIACMERemoveDomain(j, d)
       PROVE  Moves(j)
  <2>1. CASE \E d \in Domains : APIACMERemoveDomain(j, d)
    <3>1. \A d, todo : [NoJob EXCEPT !.pc = "delete row", !.todo = todo, !.domain = d].pc = "delete row"
      BY DEF NoJob
    <3> QED BY <1>1, <1>10, <2>1, <3>1 DEF APIACMERemoveDomain
  <2>2. CASE ~\E d \in Domains : APIACMERemoveDomain(j, d)
    <3>1. \E todo : Launch(j, "stop", todo)
      BY <1>12, <2>2 DEF APIACMEConfig, APIACMEConvertToAuto
    <3> QED BY <1>2, <1>10, <3>1
  <2> QED BY <2>1, <2>2
<1>13. CASE RenewalRound
  <2>1. "renewal loop" \in Workers /\ Launch("renewal loop", "check", managed)
    BY <1>13 DEF RenewalRound, Workers
  <2> QED BY <1>2, <2>1
<1>14. CASE MigrateDiskCertsToDB
  BY <1>0, <1>3, <1>14 DEF MigrateDiskCertsToDB, Stands
<1>15. CASE UNCHANGED certVars \/ \E i \in DOMAIN pairs : GrowOld(i)
  BY <1>0, <1>15 DEF certVars, GrowOld
<1> HIDE DEF Moves
<1>16. CASE \E w \in Workers : WriteCert(w) \/ WriteKey(w) \/ SaveCertToDB(w) \/ Finish(w)
                            \/ \E d \in Domains : ObtainCertificate(w, d)
  <2>1. \E w \in Workers : Moves(w)
    BY <1>6, <1>7, <1>8, <1>16
  <2> QED BY <2>1 DEF Moves
<1>17. CASE \E j \in Jobs : \/ StopRenewing(j) \/ UpdateDomains(j) \/ RenewCertificate(j) \/ ReadKey(j)
                           \/ DeleteRow(j) \/ RemoveCert(j) \/ RemoveKey(j)
  <2>1. \E w \in Workers : Moves(w)
    BY <1>6, <1>9, <1>10, <1>17
  <2> QED BY <2>1 DEF Moves
<1>18. CASE \E j \in Jobs :
             \/ \E domains \in SUBSET Domains : APIACMEConfig(j, domains)
             \/ \E d \in Domains : \/ APIACMEConvertToAuto(j, d) \/ APIACMERemoveDomain(j, d)
                                  \/ APIACMERenew(j, d)
  <2>1. \E w \in Workers : Moves(w)
    BY <1>10, <1>11, <1>12, <1>18
  <2> QED BY <2>1 DEF Moves
<1> QED BY <1>13, <1>14, <1>15, <1>16, <1>17, <1>18 DEF CertificatesNext

\* A start ends when the files have gone into the table, and only a crash begins another.
LEMMA StartEnds ==
  ASSUME [CertificatesNext]_certVars, ~CrashAndStart
  PROVE  UNCHANGED booting \/ MigrateDiskCertsToDB
<1>1. CASE \E j \in Jobs :
             \/ \E domains \in SUBSET Domains : APIACMEConfig(j, domains)
             \/ \E d \in Domains : \/ APIACMEConvertToAuto(j, d) \/ APIACMERemoveDomain(j, d)
                                   \/ APIACMERenew(j, d)
  BY <1>1 DEF APIACMEConfig, APIACMEConvertToAuto, APIACMERemoveDomain, APIACMERenew, Succeed
<1>2. ASSUME NEW w, NEW d, Obtain(w, d) PROVE UNCHANGED booting
  BY <1>2 DEF Obtain, Fail
<1>3. CASE \E j \in Jobs : \/ StopRenewing(j) \/ UpdateDomains(j) \/ RenewCertificate(j) \/ ReadKey(j)
                          \/ DeleteRow(j) \/ RemoveCert(j) \/ RemoveKey(j)
  BY <1>2, <1>3 DEF StopRenewing, UpdateDomains, RenewCertificate, ReadKey, DeleteRow, RemoveCert, RemoveKey,
     Succeed, Fail
<1>4. CASE \E w \in Workers : \/ WriteCert(w) \/ WriteKey(w) \/ SaveCertToDB(w) \/ Finish(w)
                              \/ \E d \in Domains : ObtainCertificate(w, d)
  BY <1>2, <1>4 DEF WriteCert, WriteKey, SaveCertToDB, Finish, ObtainCertificate, Succeed, Fail
<1>5. CASE RenewalRound \/ UNCHANGED certVars \/ \E i \in DOMAIN pairs : GrowOld(i)
  BY <1>5 DEF RenewalRound, certVars, GrowOld, Succeed
<1> QED BY <1>1, <1>3, <1>4, <1>5 DEF CertificatesNext

LEMMA StartsKeepApart ==
  ASSUME PairsAreMade, NamedRenewals, StartsAlone, StartsOnce, [CertificatesNext]_certVars
  PROVE  NamedRenewals' /\ StartsAlone' /\ StartsOnce'
<1>0. "start-up" \in Workers
  BY DEF Workers
<1>1. CASE CrashAndStart
  <2>1. /\ jobs' = [w \in Workers |->
             IF w = "start-up" THEN [NoJob EXCEPT !.pc = "check", !.todo = settings] ELSE NoJob]
        /\ booting' = TRUE
    BY <1>1 DEF CrashAndStart
  <2>2. NoJob.pc = "none" /\ [NoJob EXCEPT !.pc = "check", !.todo = settings].pc = "check"
    BY DEF NoJob
  <2> QED BY <2>1, <2>2 DEF NamedRenewals, StartsAlone, StartsOnce
<1>2. CASE ~CrashAndStart
  <2>1. PICK w \in Workers :
           /\ \A v \in Workers \ {w} : jobs'[v] = jobs[v]
           /\ jobs' = jobs \/ jobs'[w].pc # "renew" \/ jobs'[w].domain \in Domains
           /\ jobs' = jobs \/ jobs[w].pc # "none" \/ (~booting /\ w # "start-up")
    BY <1>2, OneJobMoves
  <2>2. NamedRenewals'
    BY <2>1 DEF NamedRenewals
  <2>3. CASE UNCHANGED booting
    BY <1>0, <2>1, <2>2, <2>3 DEF StartsAlone, StartsOnce
  <2>4. CASE MigrateDiskCertsToDB
    <3>1. booting' = FALSE /\ jobs' = [jobs EXCEPT !["start-up"] = [jobs["start-up"] EXCEPT !.pc = "none"]]
      BY <2>4 DEF MigrateDiskCertsToDB, Goto
    <3>2. jobs["start-up"] \in JobRecords(Len(pairs)) /\ jobs \in [Workers -> JobRecords(Len(pairs))]
      BY <1>0 DEF PairsAreMade
    <3>3. [jobs["start-up"] EXCEPT !.pc = "none"].pc = "none"
      BY <3>2 DEF JobRecords
    <3> QED BY <1>0, <2>2, <3>1, <3>2, <3>3 DEF StartsAlone, StartsOnce
  <2> QED BY <1>2, <2>3, <2>4, StartEnds
<1> QED BY <1>1, <1>2

\* While the daemon starts only the start takes steps.
LEMMA StartIsAlone ==
  ASSUME StartsAlone, booting, [CertificatesNext]_certVars, ~CrashAndStart
  PROVE  \/ WriteCert("start-up") \/ WriteKey("start-up") \/ SaveCertToDB("start-up") \/ Finish("start-up")
         \/ \E d \in Domains : Stands("start-up", "check") /\ d \in jobs["start-up"].todo /\ Obtain("start-up", d)
         \/ MigrateDiskCertsToDB \/ UNCHANGED certVars
<1>1. ASSUME NEW w \in Workers \ {"start-up"} PROVE jobs[w].pc = "none"
  BY DEF StartsAlone
<1>2. \A j \in Jobs : j \in Workers \ {"start-up"}
  BY JobsAssumption DEF Workers
<1>3. ASSUME NEW j \in Jobs,
             \/ \E domains \in SUBSET Domains : APIACMEConfig(j, domains)
             \/ \E d \in Domains : \/ APIACMEConvertToAuto(j, d) \/ APIACMERemoveDomain(j, d)
                                   \/ APIACMERenew(j, d)
      PROVE  FALSE
  BY <1>3 DEF APIACMEConfig, APIACMEConvertToAuto, APIACMERemoveDomain, APIACMERenew, Launch
<1>4. ASSUME NEW j \in Jobs,
             \/ StopRenewing(j) \/ UpdateDomains(j) \/ RenewCertificate(j) \/ ReadKey(j)
             \/ DeleteRow(j) \/ RemoveCert(j) \/ RemoveKey(j)
      PROVE  FALSE
  BY <1>1, <1>2, <1>4 DEF StopRenewing, UpdateDomains, RenewCertificate, ReadKey, DeleteRow, RemoveCert,
     RemoveKey, Stands
<1>5. ASSUME NEW w \in Workers \ {"start-up"},
             \/ WriteCert(w) \/ WriteKey(w) \/ SaveCertToDB(w) \/ Finish(w)
             \/ \E d \in Domains : ObtainCertificate(w, d)
      PROVE  FALSE
  BY <1>1, <1>5 DEF WriteCert, WriteKey, SaveCertToDB, Finish, ObtainCertificate, Stands
<1>6. ~RenewalRound /\ \A i \in DOMAIN pairs : ~GrowOld(i)
  BY DEF RenewalRound, Launch, GrowOld
<1>7. \A d \in Domains : ObtainCertificate("start-up", d) =>
         Stands("start-up", "check") /\ d \in jobs["start-up"].todo /\ Obtain("start-up", d)
  BY DEF ObtainCertificate
<1> QED BY <1>3, <1>4, <1>5, <1>6, <1>7 DEF CertificatesNext

\* A file is as good as before as long as nobody touches it or the pairs it was made as.
LEMMA StaysCurrent ==
  ASSUME PairsAreMade, NEW d \in Domains, Current(files[d]), files'[d] = files[d],
         \A i \in 1..Len(pairs) : pairs'[i] = pairs[i]
  PROVE  Current(files[d])'
<1>1. files[d].cert \in 1..Len(pairs)
  <2>1. files[d].cert \in 0..Len(pairs) /\ Len(pairs) \in Nat
    BY LenProperties DEF PairsAreMade
  <2>2. files[d].cert # 0
    BY DEF Current, Fits
  <2> QED BY <2>1, <2>2
<1> QED BY <1>1 DEF Current, Fits

\* Step by step the start finishes one domain after the other.
LEMMA StartMakesProgress ==
  ASSUME PairsAreMade, StartsAlone, StartGoesOn, [CertificatesNext]_certVars
  PROVE  StartGoesOn'
<1> SUFFICES ASSUME booting' /\ smooth' PROVE Progress(jobs["start-up"])'
  BY DEF StartGoesOn
<1>1. CASE CrashAndStart
  <2>1. jobs' = [w \in Workers |->
             IF w = "start-up" THEN [NoJob EXCEPT !.pc = "check", !.todo = settings] ELSE NoJob]
        /\ settings' = settings
    BY <1>1 DEF CrashAndStart
  <2>2. LET r == [NoJob EXCEPT !.pc = "check", !.todo = settings] IN r.pc = "check" /\ r.todo = settings
    BY DEF NoJob
  <2>3. jobs'["start-up"].pc = "check" /\ jobs'["start-up"].todo = settings'
    BY <2>1, <2>2 DEF Workers
  <2> QED BY <2>3 DEF Progress
<1>2. CASE ~CrashAndStart
  <2> DEFINE job == jobs["start-up"]
  <2>1. booting
    BY <1>2, StartEnds DEF MigrateDiskCertsToDB
  <2>2. \/ WriteCert("start-up") \/ WriteKey("start-up") \/ SaveCertToDB("start-up") \/ Finish("start-up")
        \/ \E d \in Domains : Stands("start-up", "check") /\ d \in job.todo /\ Obtain("start-up", d)
        \/ UNCHANGED certVars
    BY <1>2, <2>1, StartIsAlone DEF MigrateDiskCertsToDB
  <2>3. smooth
    BY <2>2 DEF WriteCert, WriteKey, SaveCertToDB, Finish, Obtain, Succeed, Fail, certVars
  <2>4. Progress(job)
    BY <2>1, <2>3 DEF StartGoesOn
  <2>5. /\ "start-up" \in Workers /\ job \in JobRecords(Len(pairs)) /\ jobs \in [Workers -> JobRecords(Len(pairs))]
        /\ job.todo \subseteq Domains /\ settings \subseteq Domains
        /\ files \in [Domains -> [cert : 0..Len(pairs), key : 0..Len(pairs)]]
    BY DEF PairsAreMade, Workers, JobRecords
  <2>6. /\ job.pc \in {"check", "write cert", "write key", "save", "migrate"}
        /\ \A d \in settings : Current(files[d]) \/ (d \in job.todo /\ job.pc # "migrate")
        /\ job.pc \in {"write cert", "write key", "save"} =>
             job.domain \in job.todo /\ job.pair # 0 /\ pairs[job.pair].age = "fresh"
        /\ job.pc \in {"write key", "save"} => files[job.domain].cert = job.pair
        /\ job.pc = "save" => files[job.domain].key = job.pair
    BY <2>4 DEF Progress
  <2> HIDE DEF job
  <2>7. CASE WriteCert("start-up")
    <3>1. /\ job.pc = "write cert" /\ UNCHANGED <<settings, pairs>>
          /\ files' = [files EXCEPT ![job.domain].cert = job.pair]
          /\ jobs' = [jobs EXCEPT !["start-up"] = [job EXCEPT !.pc = "write key"]]
      BY <2>5, <2>7 DEF WriteCert, Goto, Succeed, Fail, Stands, job
    <3>2. job.domain \in Domains /\ job.domain \in job.todo
      BY <2>5, <2>6, <3>1
    <3>3. /\ jobs'["start-up"].pc = "write key" /\ jobs'["start-up"].todo = job.todo
          /\ jobs'["start-up"].domain = job.domain /\ jobs'["start-up"].pair = job.pair
      BY <2>5, <3>1 DEF JobRecords
    <3>4. files'[job.domain].cert = job.pair /\ \A d \in Domains \ {job.domain} : files'[d] = files[d]
      BY <2>5, <3>1, <3>2
    <3>5. ASSUME NEW d \in settings' PROVE Current(files[d])' \/ d \in job.todo
      BY <2>5, <2>6, <3>1, <3>2, <3>4, <3>5, StaysCurrent
    <3> QED BY <2>6, <3>1, <3>2, <3>3, <3>4, <3>5 DEF Progress
  <2>8. CASE WriteKey("start-up")
    <3>1. /\ job.pc = "write key" /\ UNCHANGED <<settings, pairs>>
          /\ files' = [files EXCEPT ![job.domain].key = job.pair]
          /\ jobs' = [jobs EXCEPT !["start-up"] = [job EXCEPT !.pc = "save"]]
      BY <2>5, <2>8 DEF WriteKey, Goto, Succeed, Fail, Stands, job
    <3>2. job.domain \in Domains /\ job.domain \in job.todo
      BY <2>5, <2>6, <3>1
    <3>3. /\ jobs'["start-up"].pc = "save" /\ jobs'["start-up"].todo = job.todo
          /\ jobs'["start-up"].domain = job.domain /\ jobs'["start-up"].pair = job.pair
      BY <2>5, <3>1 DEF JobRecords
    <3>4. /\ files'[job.domain].key = job.pair /\ files'[job.domain].cert = files[job.domain].cert
          /\ \A d \in Domains \ {job.domain} : files'[d] = files[d]
      BY <2>5, <3>1, <3>2
    <3>5. ASSUME NEW d \in settings' PROVE Current(files[d])' \/ d \in job.todo
      BY <2>5, <2>6, <3>1, <3>2, <3>4, <3>5, StaysCurrent
    <3> QED BY <2>6, <3>1, <3>2, <3>3, <3>4, <3>5 DEF Progress
  <2>9. CASE SaveCertToDB("start-up")
    <3>1. /\ job.pc = "save" /\ UNCHANGED <<settings, pairs, files>>
          /\ jobs' = [jobs EXCEPT !["start-up"] =
                        [NoJob EXCEPT !.pc = "check", !.todo = job.todo \ {job.domain}]]
      BY <2>5, <2>9 DEF SaveCertToDB, NextDomain, Succeed, Fail, Stands, job
    <3>2. jobs'["start-up"].pc = "check" /\ jobs'["start-up"].todo = job.todo \ {job.domain}
      BY <2>5, <3>1 DEF NoJob
    <3>3. Current(files[job.domain])
      BY <2>6, <3>1 DEF Current, Fits
    <3>4. ASSUME NEW d \in settings' PROVE Current(files[d])' \/ d \in job.todo \ {job.domain}
      BY <2>6, <3>1, <3>3, <3>4 DEF Current, Fits
    <3> QED BY <3>2, <3>4 DEF Progress
  <2>10. CASE Finish("start-up")
    <3>1. /\ job.pc = "check" /\ \A d \in job.todo : Current(files[d])
          /\ UNCHANGED <<settings, pairs, files>>
          /\ jobs' = [jobs EXCEPT !["start-up"] = [NoJob EXCEPT !.pc = "migrate"]]
      BY <2>10 DEF Finish, Stands, LoadExistingCert, job
    <3>2. jobs'["start-up"].pc = "migrate"
      BY <2>5, <3>1 DEF NoJob
    <3>3. ASSUME NEW d \in settings' PROVE Current(files[d])'
      BY <2>6, <3>1, <3>3 DEF Current, Fits
    <3> QED BY <3>2, <3>3 DEF Progress
  <2>11. ASSUME NEW d \in Domains, Stands("start-up", "check"), d \in job.todo, Obtain("start-up", d)
         PROVE  Progress(jobs["start-up"])'
    <3>1. PICK le \in BOOLEAN : Make("start-up", d, le)
      BY <2>11 DEF Obtain, Fail
    <3>2. /\ pairs' = Append(pairs, [le |-> le, age |-> "fresh"]) /\ UNCHANGED <<settings, files>>
          /\ jobs' = [jobs EXCEPT !["start-up"] =
                        [job EXCEPT !.pc = "write cert", !.domain = d, !.pair = Len(pairs) + 1]]
      <4>1. UNCHANGED <<settings, files>>
        BY <2>11 DEF Obtain, Fail
      <4> QED BY <2>5, <3>1, <4>1 DEF Make, job
    <3>3. /\ Len(pairs) \in Nat /\ \A i \in 1..Len(pairs) : pairs'[i] = pairs[i]
          /\ pairs'[Len(pairs) + 1].age = "fresh"
      BY <3>2, MadePairs DEF PairsAreMade
    <3>4. /\ jobs'["start-up"].pc = "write cert" /\ jobs'["start-up"].todo = job.todo
          /\ jobs'["start-up"].domain = d /\ jobs'["start-up"].pair = Len(pairs) + 1
      BY <2>5, <3>2 DEF JobRecords
    <3>5. ASSUME NEW x \in settings' PROVE Current(files[x])' \/ x \in job.todo
      BY <2>5, <2>6, <3>2, <3>3, <3>5, StaysCurrent
    <3>6. Len(pairs) + 1 # 0
      BY <3>3
    <3> QED BY <2>11, <3>3, <3>4, <3>5, <3>6 DEF Progress
  <2>12. CASE UNCHANGED certVars
    <3>1. UNCHANGED <<settings, files, pairs, jobs>>
      BY <2>12 DEF certVars
    <3> QED BY <2>4, <3>1 DEF Progress, Current, Fits, job
  <2> QED BY <2>2, <2>7, <2>8, <2>9, <2>10, <2>11, <2>12
<1> QED BY <1>1, <1>2

\* UpdateConfig of cert/acme/acme.go, which a start calls before it copies the files
\* into the table (proxyconfig/cert.go): a start in which nothing fails ends with every
\* configured domain answering handshakes, for any number of domains, goroutines, pairs, failures and crashes
\* (StartUpHeals): until it ends nobody else works on a certificate, a domain it has
\* done with has a current pair on disk, and the last step copies the disk into the
\* table listeners serve from.
THEOREM StartsHeal == CertificatesSpec => StartUpHeals
<1>1. CertificatesInit => StartInv
  <2> SUFFICES ASSUME CertificatesInit PROVE StartInv
    OBVIOUS
  <2>1. /\ settings \subseteq Domains /\ managed = settings /\ pairs = <<>>
        /\ files = [d \in Domains |-> Missing] /\ booting = TRUE
        /\ jobs = [w \in Workers |->
             IF w = "start-up" THEN [NoJob EXCEPT !.pc = "check", !.todo = settings] ELSE NoJob]
    BY DEF CertificatesInit
  <2>2. pairs \in Seq(PairRecords) /\ Len(pairs) = 0 /\ Missing \in [cert : 0..Len(pairs), key : 0..Len(pairs)]
    BY <2>1, EmptySeq DEF Missing
  <2>3. NoJob \in JobRecords(0) /\ [NoJob EXCEPT !.pc = "check", !.todo = settings] \in JobRecords(0)
    BY <2>1, NoJobFields, JobFields DEF WorkSteps
  <2>4. PairsAreMade
    BY <2>1, <2>2, <2>3 DEF PairsAreMade
  <2>5. LET r == [NoJob EXCEPT !.pc = "check", !.todo = settings] IN r.pc = "check" /\ r.todo = settings
    BY DEF NoJob
  <2>6. NoJob.pc = "none"
    BY DEF NoJob
  <2>7. jobs["start-up"].pc = "check" /\ jobs["start-up"].todo = settings
        /\ \A w \in Workers \ {"start-up"} : jobs[w].pc = "none"
    BY <2>1, <2>5, <2>6 DEF Workers
  <2>8. NamedRenewals /\ StartsAlone /\ StartsOnce
    BY <2>1, <2>7 DEF NamedRenewals, StartsAlone, StartsOnce
  <2>9. StartGoesOn
    BY <2>7 DEF StartGoesOn, Progress
  <2> QED BY <2>4, <2>8, <2>9 DEF StartInv
<1>2. StartInv /\ [CertificatesNext]_certVars => StartInv'
  <2> SUFFICES ASSUME StartInv, [CertificatesNext]_certVars PROVE StartInv'
    OBVIOUS
  <2>1. PairsAreMade'
    BY PairsNext DEF StartInv
  <2>2. NamedRenewals' /\ StartsAlone' /\ StartsOnce'
    BY StartsKeepApart DEF StartInv
  <2>3. StartGoesOn'
    BY StartMakesProgress DEF StartInv
  <2> QED BY <2>1, <2>2, <2>3 DEF StartInv
<1>3. StartInv /\ [CertificatesNext]_certVars =>
        [booting /\ ~booting' /\ smooth => \A d \in settings : Served(d)']_certVars
  <2> SUFFICES ASSUME StartInv, [CertificatesNext]_certVars, booting, ~booting', smooth,
                      NEW d \in settings
               PROVE  Served(d)'
    OBVIOUS
  <2>1. ~CrashAndStart
    BY DEF CrashAndStart
  <2>2. MigrateDiskCertsToDB
    BY <2>1, StartEnds
  <2>3. jobs["start-up"].pc = "migrate" /\ UNCHANGED <<settings, pairs>>
        /\ certRows' = [x \in Domains |-> IF x \in settings THEN Migrated(x) ELSE certRows[x]]
    BY <2>2 DEF MigrateDiskCertsToDB, Stands
  <2>4. Current(files[d])
    BY <2>3 DEF StartInv, StartGoesOn, Progress
  <2>5. d \in Domains
    BY DEF StartInv, PairsAreMade
  <2>6. certRows'[d] = files[d]
    BY <2>3, <2>4, <2>5 DEF Migrated, Current, Fits
  <2> QED BY <2>3, <2>4, <2>6 DEF Served, Current, Fits
<1> QED BY <1>1, <1>2, <1>3, PTL DEF CertificatesSpec, StartUpHeals
=============================================================================
