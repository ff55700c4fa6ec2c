# GoWAF: a TLA+ development

GoWAF is a web application firewall written in Go. One process terminates the
traffic of several listeners, decides about each request with rule sets that are
kept in SQLite and in memory, forwards what passes to groups of backends, and
serves an administration API. Most of its state exists twice: as rows, and as a
copy in memory that requests read with few or no locks. This directory holds TLA+
models of the parts where those copies, and the goroutines that maintain them,
can disagree; TLC configurations that check them; and proofs for TLAPS.

Paths below are relative to the repository (`src/...` in `PROJECT.json`).

## 1. Inventory

| Component | State | Operations | Interacts with | What is hard |
|---|---|---|---|---|
| Backend routing, `internal/backend/{manager,group,health}.go` | tables `backends`, `backend_groups`, `backend_group_members`; `Manager.backends/groups/groupMembers`, `failCount`, `recoverCount`; the atomic pointer `groupCache` | add, remove, update backend; add, update, enable, delete group; add, remove member; `checkAll` and the handling of its results; `SelectBackendForGroup` | API handlers call it, the proxy reads it on every request, the health ticker changes it | backend calls hold the lock throughout and group calls do not; results of checks arrive late; memory and tables are written in two steps |
| Weighted round robin, `manager.go:629-674` | a credit per backend | select; credits are dropped with a member | called for each request of a group | credits outlive absences and are shared by groups |
| IP rules, `internal/domain/security/rules` | table `ip_rules`; `Engine.snapshot` | add, remove, enable, reload, merge to CIDR blocks | API, automatic bans, reload ticker, SIGHUP | nothing locks the table; a merge is read, delete all, insert; a snapshot is scanned without the lock it is stored under |
| Automatic bans, `ratelimit/autoblock.go` | `autoblock_records`, a rule in `ip_rules`, `blockedUntil`, `failCount` | fail or pass a challenge, expire, recover | uses the rule engine, called by the pipeline and the cleanup ticker | three places written one after the other, each of which can fail; crashes |
| Other rule kinds: path, method, agent, country, path limits, detectors, DLP, bot, virtual patch, headers, schemas, body limits | a table and a copy in memory each; known-bot overrides; policies by category | add, remove, enable, update, seed, migrate, load, reload | API, SIGHUP, starts | a statement and the load after it are two steps; every start seeds and migrates |
| Request pipeline, `proxy/{detect,utils,ratelimit_check,forward}.go` | the request, its body, the configuration as each check reads it | inspect, limit, challenge, detect, forward | every rule kind, metrics, log | settings change between checks; the body is read and put back several times |
| Challenges, `proxy/proxy.go:225-291` | `powChallenges`, `jsChallenges` | issue, look up, use | pipeline, bans | looked up and deleted under two locks |
| Response scanning, `proxy/forward.go` | the buffer pool, bodies under way | read, scan, mask, block, send | DLP rules | a buffer is given back while its bytes are in use |
| Smart rate limiting, `ratelimit/engine.go` | live configuration, its clone, profiles | evaluate, update, save, load | pipeline, API, tickers | a cached clone next to a mode read live; a saver bound to one object |
| Sessions, `gateway/middleware/{session,auth}.go` | `sessionStore`, table `sessions` | create, look up, renew, revoke, clean, load | every API call | a renewal beside a log-out or a cleaner; rows that fail to be written |
| Log-in, `gateway/handler/auth.go` | counters by address and by name, captchas | check, count, block, clean | sessions, accounts | three checks and a count in four critical sections |
| Accounts, `handler/users.go`, `initAuthAndSession` | the administrator's hash in memory, row and YAML; table `users` | change, add, delete, start | log-in | three sources for one hash |
| Settings, `handler/config_*.go`, `configversion`, `handler/backup.go` | one JSON row of many sections; versions; backups | update a section or all, reset, save and restore versions, back up and restore | every manager | read, replace, write by handlers nothing keeps apart |
| Proxy listeners, `proxy/server_manager.go`, `handler/proxyconfig.go` | table `proxy_config`; `servers`; one `http.Server` per address and protocol | add, update, delete, reload all | API, SIGHUP, one goroutine per server | servers are shared, replaced before they are closed, and forgotten by their goroutine when they cannot bind |
| Domains and certificates in use, `proxyconfig/{route,cert}.go` | tables `domains`, `ssl_certs`; the name cache; the TLS cache | add, update, delete, look up, handshake | listeners, backend groups | a lookup fills the cache from an older table |
| Certificates by ACME, `cert/acme`, `handler/acme.go` | two files and a row per pair | issue, renew, self-sign, start | domains, listeners | a crash between any two writes; jobs that overlap |
| Access log, `infra/logger` | channel, batch, file, backups, database writers | enqueue, write, rotate, store, close, reopen | pipeline, log queries | full channel, rotation between lines, writers that share a batch |
| Log queries, `handler/logs.go`, `infra/storage/logdb` | file and rows; a cache with a single flight | list, count, export, load | access log | a file that cannot be parsed in part; queries that share a load |
| Metrics, `infra/storage/metrics`, `proxy/metric.go` | counters, minute, hour and day rows, two queues of events | count, flush, add up, close | pipeline, reports | counters swapped to zero before they are written; restarts |
| Reports and the dashboard, `metrics/top.go`, `handler/{dashboard,dashboardws,metrics}.go` | counts by day, events, caches, counters of the process | list, detail, page, clean up | metrics | two sources that age differently are joined |
| Notification, `infra/notify`, `handler/notify.go` | alert rules, one row of settings, counts, rests | configure, evaluate, send, clean | pipeline | checked and marked under two locks |
| Process life cycle, `cmd/waf/main.go` | goroutines, signals, deferred calls | start, reload, shut down | all | main returns while the signal's goroutine still shuts down |
| Token buckets, `limiter/` | buckets by shard | allow, update, clean | pipeline without the smart limiter | not modelled, see section 6 |
| Threat intelligence, `internal/intel`; ban reconciler | feeds, uploads | - | never reached by the program | not modelled, see section 6 |

What makes each modelled component correct, in a sentence each, is the list of
properties in section 3. `PROJECT.json` lists every component with its status, and
every hazard at its line, with the properties that cover it or the reason why none
does.

## 2. Modules

| Module | Models | State and actions |
|---|---|---|
| `BackendRouting` | routing tables, memory, route cache, health checks | `db`/`mem`/`cache` are the rows, the manager's maps and the atomic pointer. A backend call is one action because `Manager.mu` is held from statement to store. A group call is `Start` (the statement), `Apply` (memory), `Build`, `Read`, `Store`: `rebuildGroupCache` (`group.go:515-520`) builds under the read lock, reads the shared field and stores it after the unlock. `AddGroupMember` looks at memory one step before its insert. `Sample` takes a check's target and answer, `HandleSuccess`/`HandleFail` apply it later, to whatever the backend has become, or `HandleGone` if it has been removed (a success then still rebuilds the cache). `Restart` is `NewManager` on the tables as they are. |
| `RoutePromise` | the abstract specification of routing | `wanted` and `offered`, per group and transport. A change settles for all requests at once or reaches some before others, but a request is offered either what is wanted or what was wanted before. `BackendRouting` maps `wanted` to the slow path over memory and `offered` to the path through the cache (`KeepsPromise`). |
| `WeightedRoundRobin` | `selectWeightedRR` | one `Select` per request (`wrrMu` is held); `Flip` and `Forget` are what other operations do to lists and credits. Credits belong to backends, so groups share them. |
| `IPRules` | table, merge, snapshot | a rule is the set of addresses it matches; an operation is a first statement and a list `todo` of the steps it still owes: `select`/`commit` are `tryMergeIPRules`, `build`/`store` are `loadAllRules`. Steps of all workers interleave. Any statement may fail. `Merged` is the merge in one step. |
| `AddressBlocks` | CIDR blocks | the blocks of a space of `2^Bits` addresses, and the largest ones inside a set of addresses; shared by the next and `IPRules`. |
| `CidrMerge` | `mergeIPsToCIDRs`, `rangeToCIDRs` | one turn of a loop per step: `Call` parses and sorts, `Scan` joins or starts a range, `CutOff` cuts a block off one. Words have `Bits` bits and wrap. |
| `RuleListPromise` | the abstract specification of a list of addresses | `list`, `live` and what each reader holds. `IPRules` maps them to what the enabled rules match together, what the snapshot matches, and what each scan has read (`KeepsListPromise`). |
| `AutoBlock` | automatic bans | EXTENDS `IPRules` and shares its table and snapshot: the AutoBlocker is the worker `Blocker`. `PersistBlock`, `AddRule`, `Rollback`, `EnterBan` are the three steps of a ban and its undo, `ExpireBlock`/`DeleteRecord` its end, `Restart` is a crash and `RecoverFromDB`. |
| `ProxyServers` | listeners and their rows | requests of several administrators, for one row or for two: each writes the row (an update reads it before, which may fail), then calls the manager (`AddProxy`, `UpdateProxy`, `DeleteProxy`), then answers or rolls back (`UndoAdd`, `UndoUpdate`, whose statements may fail). `unsettled` notes the rows that table and manager may disagree about by such a fault. `ReloadAll` comes at any time. `closing` is the server a `Shutdown` under the mutex is closing; `Bind`/`Forget` belong to the goroutine of a server, which needs no lock to bind. |
| `RequestPipeline` | `ServeHTTP` | one request from arrival to answer, one action per check, with the switches each check reads when it runs; an administrator changes them in between. The body is what is left to read and what has been put back. |
| `Challenges` | proof of work and script challenges | two maps and the cookies of each client. `verifyPoW` is three actions (found under the read lock, solved, deleted under the write lock), the token one. |
| `ResponseScan` | request and response bodies through `bodyBufPool` | read into a pooled buffer, copied or not, given back, scanned, masked or blocked, sent. |
| `SmartLimit` | configuration of the smart limiter | versions instead of objects; the mode is read live and the rest from a clone; the form an editor fills is read first and written later; saving by the saver of the first object; restarts. |
| `Sessions` | sessions | memory and rows, each with log-in, age and last use; a visit is look-up, alert, renewal in memory, renewal in the row; the cleaner collects, deletes from memory and from the table. Any statement may fail. |
| `LoginGuard` | limits on guessing | an attempt passes three checks, tries the password and counts its failure, one critical section each; the ticker clears; captchas are issued and spent. |
| `RuleTables` | what all rule tables share | `tables`, `memories`, pending loads; seeding and migration at start. `LoadManager`, `StoreManager` are the two halves of every load. |
| `EngineRules`, `SecurityRules`, `Notification` | the operations of each manager | EXTEND `RuleTables`, one operator per method. `SecurityRules` adds known-bot overrides and policies, `Notification` the row of settings with its encrypted password. |
| `RulesAPI` | the handlers, SIGHUP and restarts | EXTENDS the three above and has the next-state relation of all managers, `RulesNext(set of managers)`. |
| `MetricsStore` | counters, minutes, hours, two queues of events | count, pump, batch, flush in a transaction, hourly sums, close, restart. |
| `BlockReports` | lists of what was blocked and the events behind them | a block is an event (queued, batched, written) and a count (in memory, flushed to its day); a report reads counts, then events, in steps; the pages show a cached answer or what the process counted itself when the database fails. |
| `Certificates` | ACME certificates | certificate and key files and a row, as numbers of the pair they belong to; jobs of handlers and of the renewal loop in steps (a removal deletes row, certificate and key one by one, each of which may fail), a crash between any two writes, start-up. |
| `RuntimeSettings` | the settings object | sections, read and written as a whole by every handler; versions, backups and their restoring; restarts. |
| `AccessLog` | the access log | channel, batch, file, backups, database writers, close and reopening, with failing renames and statements. A backup is a file with the second of its rotation for a name, so a second rotation in that second replaces it; the goroutines of `compressFile` read, create, write and remove in steps, with no lock, and what they have written counts as younger than every backup that is not compressed (`Oldest`). |
| `LogQueries` | what is read of the log | pages and statistics of the log file and of the rows, both as sets of line numbers (`Matching`, `SortLogs`, `Slice`, `GroupedBy`), each with its own dates, bounds and errors: a line too long for the scanner ends the scan; rows are dated in UTC, `GetStats` asks for dates of the local clock, `GetTimeSeries` for one in UTC; and the cache with its shared loads (`Join`, `AddToGroup`, `Wait`, `Set`, ...). |
| `Accounts` | passwords | the hash in memory, in the row and in the YAML file; other users; overlapping changes, failing statements, restarts. |
| `Lifecycle` | start and stop | the list of parts in their order, the signal's goroutine and main's deferred calls side by side, requests under way. |
| `Domains` | domains and the certificates they use | rows, the name cache, the TLS cache; lookups that read and store apart; redirects, the choice of a certificate. |
| `Alerts` | when an alert is sent | evaluations with a copy of the rule and of the time; counted, checked, marked and sent in steps; the cleaner. |
| `MC*` | instances for TLC | constants only, but for `MCDaemon`. |
| `*_proofs` | theorems for TLAPS | see section 5. |

`MCDaemon` puts the components from `RequestPipeline` down side by side. They share
no variable, so an interleaving of two of them shows nothing that each does not
show alone: the variable `part`, chosen at the start, says which one moves, and the
states of the run are the sum of theirs and not the product. `NextOfRequests`,
`NextOfAdministration` and `NextOfOperation` group the disjuncts. The two callers
`a1` and `a2` that contend in a component are interchangeable (`Symmetry`): no
definition chooses among them, none orders them, and the run has no liveness
property. Where two
components do interact they are one module or extend each other (`AutoBlock` on
`IPRules`; the managers under `RulesAPI`; `RequestPipeline` with the switches
of the managers as its own variables).

Abstractions worth knowing. Names, addresses, weights (outside
`WeightedRoundRobin`), policies and headers are left out unless a property is about
them; what a pattern matches, whether a password fits, which score a profile has,
is evidence that comes with a request. A statement of a backend call that fails
leaves everything as it was and is a stutter. Ids carry timestamps in the code and
are issued once in the models. A list of `CidrMerge` is a set of texts: one that is
written twice is merged with itself. In `IPRules` the address space is `2^Bits` IPv4
addresses that touch neither end of the real one, plus IPv6 addresses that no block
contains (networks of IPv6 are in `CidrMerge` only); one rule type is modelled, since the code never lets the two touch. Time
is a counter in the unit the code compares with (hours of sessions, minutes of
metrics, a part of a day in reports, a window of alerts); in `AutoBlock` it is the
state of a ban: absent, running or lapsed. Counters are not counted beyond the
threshold they are compared with. What a counter of `Alerts` counts is kept as the set
of requests that were counted, so that a property can say which; sums of rows are
`SumFunctionOnSet` of the community modules. A line that can be parsed has the time the
logger writes, in RFC 3339; lines of one second are in whatever order the sort puts
them, the same one each time it sorts the same lines.

## 3. Runs

| Run | Instance | Question and answer |
|---|---|---|
| `backend_serial` | 2 backends, 2 groups, 1 administrator, every call, 1 restart, any initial tables | Do requests follow memory and would a restart route alike, when nothing overtakes a call? Yes: `RoutesFollowMemory`, `RestartKeepsRoutes`; and the manager implements `RoutePromise` (`KeepsPromise`). |
| `backend_health` | 2 backends, 1 group, backend calls, checks, thresholds 2, 1 restart | Do dead backends leave and recovered ones return? Yes: `DeadLeavesRoutes`, `RecoveredReturns`. |
| `backend_overtaken` | 1 backend, 1 group, group calls beside checks | The same with group calls: **violated**, see section 4. |
| `wrr` | groups with weights 1,3 and 1,2 that share a member, 1 removal | Shares follow weights (`RoundsFollowWeights`) and nobody starves (`NobodyStarves`). |
| `iprules` | 4 addresses, rules for 3, 2 workers, every operation, 1 failing statement | `NoCollateral` in every interleaving, the snapshot settles on the table (`LiveFollowsTable`), and the engine implements `RuleListPromise` (`KeepsListPromise`). |
| `iprules_ipv6` | 4 IPv4 addresses, rules for 2 of them that do not merge by themselves and 1 IPv6 address, 1 worker | Does adding take nothing away? **Violated.** |
| `autoblock` | 2 addresses whose rules do not merge, the reload ticker, 2 failing statements, 1 crash | Record, rule and memory agree as far as the code maintains it (`BansAreOnRecord`, `BannedHasRule`, `RuleHasRecord`); bans end (`BansEnd`). |
| `autoblock_adjacent` | 2 neighbours, nothing failing | Do bans end? **Violated.** |
| `proxy` | 2 rows, 2 addresses, both protocols, 2 administrators, failing statements, reloads at any time | Is no listener lost (`NoLostListener`), and does a row that nobody changes fit its entry (`EntriesMatchRows`)? Yes, but for the faults that `unsettled` notes. |
| `proxy_shared` | the same, 1 administrator | Does every entry serve? **Violated.** |
| `daemon` | the components of `MCDaemon`, one at a time | The properties of the next table. All hold. |
| `dlp` | 2 responses, 2 buffers | Is what a rule blocks withheld? **Violated.** |

The properties of `daemon`, by component:

| Component | Property | What would violate it |
|---|---|---|
| `RequestPipeline` | `RuleInForceIsEnforced` | forwarding a request that trips a rule which was in force from its arrival to its end, although every check reads other settings |
| | `BackendGetsWholeBody` | a body that was cut by a limit, a failed read or a check that did not put it back |
| `Challenges` | `AnswerExpiresOnUse` | an answer to a proof of work that admits a request which arrived after the answer had passed another; requests that overlap may all pass, as the code lets them |
| `ResponseScan` | `BodiesAreNotMixed` | a pooled buffer that is refilled while its bytes are still to be sent |
| `SmartLimit` | `ThresholdsAreCurrent` | a request judged by thresholds that had been replaced before its evaluation began |
| `Sessions` | `LoggedOutStaysOut` | a renewal, a cleaner or a restart that brings a session back |
| | `SessionsEndInTime` | a renewal or restart that extends the absolute limit |
| | `RestartKeepsSessions` | a step that changes memory and leaves the row behind, although no statement failed |
| `LoginGuard` | `GuessesAreBounded` | more failed tries than the limit and one per login that was under way |
| `RulesAPI` | `RestartKeepsRules` | an operation that leaves memory other than what start-up, with seeding and migration, would load |
| `SecurityRules` | `NoOverrideIsLost` | two administrators whose look-up and write interleave |
| `MetricsStore` | `HistoryAddsUp` | an hour from half its minutes, an event written twice, a counter that is kept and flushed, a day that holds anything but what came and each aggregated hour once more |
| `BlockReports` | `DetailsAreCounted` | a list whose entry is contradicted by the events behind it, or counts more than there was |
| `Certificates` | `StartUpHeals` (action property) | a start that nothing disturbs and that leaves a certificate without its key, or a row behind its files |
| `RuntimeSettings` | `AcknowledgedIsSaved` | a section that a restart finds other than the last acknowledgement said |
| `AccessLog` | `FilesKeepOrder` | a line lost, repeated or reordered by rotation, compression, clean-up, close or restart, but for two rotations in one second |
| `LogQueries` | `OneLoadAtATime` | two queries of the database for one key at once |
| | `ListAndStatsAgree` | pages, statistics, trends, groups and series that count the same lines differently, but for a line too long and for the rows between two dates |
| `Accounts` | `RestartKeepsPasswords` | a restart after which another password is in force |
| `Lifecycle` | `RequestsAreLogged` | a line lost although no `Shutdown` gave up and nobody opened a listener meanwhile |
| `Domains` | `ProxiesFollowDomains` | a cache that follows other rows than the table's |
| `CidrMerge` | `MergeIsRight` | blocks that match more or less than the list did, or that could be merged further |
| `Alerts` | `AlertsAreMeasured` | an alert on too few matches, a missing one, or one during the rest |

Why the bounds are enough. Two backends and two groups let a member be shared,
a backend vanish from one of two groups, and a group be empty; every table
content is an initial state, so no call sequence has to build it first. One
administrator suffices for the serial claim by its meaning; that the shared field
is current for *any* number is proved. Thresholds of 2 separate "counts" from
"reaches". Two rule workers are what an overtaking needs, with a third address
left over to be lost or resurrected. In `wrr` a total of 4 and of 3 make the
rounds of the two groups drift against each other. One failing statement and one
crash may strike at any step; in `autoblock` a second statement may fail, since a
rule is left without its record by the second failure and not by the first. Two rows with two addresses
and two protocols give sharing, refusal and exchange of addresses; three servers
are one more than the entries, which is what an update needs. Two requests at a time can
cross at one row and exchange addresses; three configurations are asked for, two
protocols at one address, which refuse each other, and one that is switched off.
Requests, rows and servers are interchangeable there (`Symmetry`), since no definition
chooses among them but for spares and orders that are all tried.

In `daemon` two callers, visitors, streams, handlers or operators are what an
overtaking needs, and one value each of what they contend for (a session token, a
captcha, a domain of a job) with a second where exchange matters (two challenges,
two certificates, two domains, two names that log in from one address). Rules are
one of each kind a manager tells apart: builtin, custom and broken. Clocks run one
or two units past the longest time a component compares with: the absolute limit of
a session (3), two hours of two minutes, the retention of a report (1 day of 2 ticks),
a rest that outlives what the cleaner keeps. Queues hold one entry, so they fill up
with the second. A file of one line rotates with every line; backups are either all kept
and compressed, or one is kept and not compressed, and an administrator changes from
one to the other. The goroutines that compress and those that store a batch share
nothing but the worker, and `StoresUncompressed` does not follow both at once. Three changes of the
configuration beside a request cover a change, its reversal and another one. Words of
3 bits and lists of up to three texts, any network of which may be listed, reach both
ends of the space and overlap, touch and leave gaps; masks of IPv6 have as many ones
as a word has bits, one more, and four times as many. Three lines in pages of one or
two make full pages, a page in part and pages past the end; the dates of a query are
any two that lines have, so clocks may be apart by any distance and in either direction.
Limits are edited by one administrator, since two overwrite each other by design of
the page. `MaxFails`, `MaxRestarts`, `MaxForgets`, `MaxFailures`, `MaxCrashes`,
`Named`, `Asked`, and in `MCDaemon.cfg` every constant that begins with `Max`,
are the bounds; each says so where it is declared.

Fairness. A goroutine that has begun a call or an operation goes on: Go's
scheduler runs it, its locks are held for finite times and checks have timeouts
(weak fairness of the steps of a call, of `Handle`, of `Progress`, of
`BlockerStep`). Tickers fire for ever: the health ticker (`health.go:51-81`) visits
every enabled backend, and goroutines wait for a slot in a channel, which is first
come first served, hence strong fairness of `Sample` per backend; the reload
ticker (`cmd/waf/main.go:630-646`) and the cleanup (`ratelimit/engine.go:609-629`)
justify strong fairness of `ReloadRules` and `ExpireBlock`, since `sync.Mutex`
hands itself to a waiter that has waited long enough. Time passes, which
`WF(Lapse)` says. `WF(Select)` in `WeightedRoundRobin` says that requests of each
group keep coming; nothing else is assumed of clients or administrators. The
components of `MCDaemon` have safety properties only and assume no fairness.
Deadlock is checked everywhere.

## 4. Findings

* `backend_overtaken`: `rebuildGroupCache` stores its pointer after the read lock
  is released. A health check that takes a dead backend out in between is
  overwritten; the backend is unhealthy already, so no later check rebuilds, and
  requests keep going to it until some other call rebuilds the cache.
* `iprules_ipv6`: the merge keeps IPv4 blocks only. As soon as a list holds two
  IPv4 rules, adjacent or not, the merged list is shorter without the IPv6 rules
  and replaces it: they are deleted.
* `autoblock_adjacent`: two banned neighbours become one block. Lifting a ban
  deletes the row of the single address, which is gone, and reports success; the
  block stays.
* `proxy_shared`: `UpdateProxy` closes the old server without asking who shares
  it, which `DeleteProxy` does ask.
* `dlp`: a response that matches a rule with the policy "block" gets status 403 and
  the text "Blocked by DLP policy", and `scanResponseBody` then puts the backend's
  body back (`forward.go:218-220`): the client gets the data under status 403.

What the code does not keep. Each of the following was met while modelling. Where
a property holds "but for" something, this is the something; the rest is outside the
models, named here so that nobody takes a passing run for more than it says.

* Bans: `BannedHasRule` and `RuleHasRecord` are stated up to the first crash (one
  between the record and the rule leaves a ban that recovery takes for complete, and
  a ban that lapses while the process is down keeps its rule), `RuleHasRecord` also up
  to the second failed statement: `autoblock.go:46` promises that a failed ban is
  rolled back, but `rollbackPersist` (`autoblock_persist.go:28-36`) deletes the record
  that INSERT OR REPLACE replaced instead of restoring it, so that after a ban whose
  lifting failed a second ban that fails leaves a rule without any record. `BansEnd`
  holds up to the first crash or failed statement (`ExpireBlocks` forgets before it
  deletes).
* Merging: a network of IPv6 whose mask has 1 to 32 ones is taken for IPv4 addresses from
  0.0.0.0 on, since `ipToUint32` (`cidr_merge.go:10-16`) returns 0 for it, and is replaced
  by them as soon as a list has two ranges; a network of all addresses has size 0 and is
  left out then. `MergeIsRight` is stated for lists without either (`Proper`). At
  255.255.255.255 `last.end+1` (line 91) is 0, so ranges that overlap there are not
  joined: the result matches the same addresses with more blocks than it needs.
* Listeners: `EntriesMatchRows` excepts a row for which requests crossed, one into whose
  request a reload came (`AddProxy` then fails and rolls the row back, while the listener
  stays), and one whose refused update could not be put back: a `GetProxy` that fails
  leaves no old row and the update goes on (`proxyconfig.go:143`), and a rollback that
  fails is only logged (`:164`). They last until a reload finds the row at rest. That
  the error of the `DeleteProxy` that undoes a refused addition is ignored (`:97`)
  leaves a row without an entry, which the property allows.
* Routes: `RoutesFollowMemory` holds without overtaking.
* Pipeline: an attack type that is switched to observation after detection stopped at
  it hides what would have been found after it. Text responses beyond 1 MB are cut,
  only the first 32 KB of a body are inspected, a DELETE's body is not.
* Smart limiter: what is saved after an update is the configuration of the start
  (`cmd/waf/main.go:461`), so a restart forgets updates. Two editors of the limits
  overwrite each other. A fingerprint's challenge and the global throttle ignore
  observation. A score may be below zero (`engine.go:286`).
* Sessions: a statement that fails leaves a row that a restart believes in.
  Expired rows are not deleted at start. The cleaner deletes a session that was
  renewed between its collection and its deletion.
* Accounts: a failing read at start together with a password in the YAML file
  overwrites the hash, and an INSERT that fails at start is only logged; overlapping changes may leave memory and row apart; a change
  of password ends no session; a backup masks the hash and restoring it writes the
  mask back (`backup.go:79`).
* Settings: handlers of different sections lose each other's updates when they
  overlap; the log settings are in force before they are saved; restoring a version
  or a backup reloads no manager; trusted proxies are never read from the table.
* Rules: agents of attack tools are switched off again at the next start; a failed
  query empties a list until the next load; a broken pattern is acknowledged and
  never in force; path limits start with full buckets after each load; limits and
  methods are not loaded by the operations on them; an agent or bot whose second UPDATE
  fails has its first column changed, in force from the next load only; rules about sensitive data in the
  table are never applied.
* Certificates: a failed renewal replaces a valid certificate by a self-signed one;
  overlapping renewals may leave a certificate and a key of different pairs until
  the next start; a renewal under way brings a removed domain back; what a removal
  could not delete stays, with a line in the log.
* Domains: renaming leaves the old name cached (`route.go:174`); a lookup stores
  without the lock; `ForceHTTPS` ignores `Enabled`; a replaced certificate is served
  for five more minutes.
* Access log: database writers share the worker's batch array. A backup is named by the
  second (`logger.go:299`), so a second rotation within it replaces the backup and its
  lines are lost, with no call failing; `compressFile` of the first may meanwhile remove
  the second's file, or spoil the copy. Copies are younger than backups that were made
  after their originals, so with compression, which is on by default, `cleanOldBackups`
  counts both and may remove the newer lines. `FilesKeepOrder` excepts each. A failed
  rename deletes the file; a write after the close panics.
* Log queries: a line longer than the scanner's buffer fails the whole list and silently
  ends the statistics (`logs.go:737` asks for no error). `GetStats` compares UTC with
  strings of local time (`logdb.go:360`), `GetTimeSeries` takes UTC (`:485`), so away
  from UTC their totals differ by the rows between the two dates, and "today" is the
  local date; `ListAndStatsAgree` says just that. Of two callers that miss the cache at
  once the second may pass before `wg.Add` and cache nothing as the answer
  (`cache.go:50`): `OneLoadAtATime` is about the queries and not about the answers.
* Metrics: a day counts every request twice, once when it comes (`flush.go:59-69`) and
  once more with its hour (`:174-193`). `HistoryAddsUp` states the row of the day as the
  code keeps it: what came, and each aggregated hour once more. If the ticker is served so late that
  it falls into an hour it has been in, that hour is added to the day again, which is
  excepted (`addedAgain`).
* Reports: the window of a day shows no events at all in `GetMetricsTopStats`; what
  is shown from memory covers the time since the start; the older of two concurrent
  answers may be cached last; the live map of rule types leaves its lock
  (`stats.go:297`).
* Alerts: sent within the request, without a retry; windows of five minutes and rests
  beyond thirty are forgotten by the cleaner (`notify.go:835-866`); a rule's channel is
  used although it is switched off (`notify.go:505`); without `GOWAF_NOTIFY_KEY` the
  mail password cannot be read after a restart.
* Life cycle: `ListenAndServe` returns when `Shutdown` begins, so main's deferred calls
  run beside the signal's goroutine; metrics are closed before their last flush;
  upgraded connections are not waited for; SIGHUP leaves detectors, certificates and
  notification as they are.

## 5. Proofs

`tlapm` checks these for every value of the constants that the `ASSUME`s allow. Each
module of a component states what its constants satisfy; most assumptions only keep a
value that stands for "nothing" apart from the real ones (`None`, `Never`, `Nobody`,
`Null`, the empty password), say that bounds are numbers, or list what the code lists
(an order of the detectors, a threshold above zero). Every one of them is evaluated by
a run.

A property of a run is seldom inductive. Below is, for each theorem, what was added to
make it so: that is where the reason why the code is right is written down.

**`BackendRouting_proofs`**

* `Typing`: `TypeOK` is inductive as it stands; the lemma `TypeNext` has one step per
  action.
* `BuiltIsAlwaysCurrent`: whatever interleaves, the shared field `built` equals the
  projection of memory unless a group call is between its change of memory and its
  rebuild. It is inductive relative to `TypeOK`, because every writer of memory either
  rebuilds under the lock or is at stage `build` afterwards. So a stale route cache can
  only come from the read and the unlocked store, which is what the finding exhibits.
* `SerialRoutesFollowMemory`: with one administrator and no probed backend requests are
  offered what memory allows. `SerialInv` adds that the cache is current when no call
  runs and that what a call has picked is current while it is at stage `store`.
* `SerialKeepsPromise` is the refinement: `Init` maps to the promise's `Init`, and
  each step to `Settle`, `Change` or a stutter. `Apply` is the `Change`
  (`SameCacheOffer`: a request that found its answer in the cache finds it again, any
  other asks memory); backend calls, `Store` and `Restart` leave a current cache and
  are `Settle` (`SettledStep`); no other step is noticed (`SameRoutes`).
* `SerialRestartKeepsRoutes`: with one administrator, whatever checks report. Tables
  and memory are not equal, since `RemoveBackend` leaves rows of memberships behind:
  they agree on the backends there are (`TablesAgree`), and a group call between its
  statement and memory owes memory just that change. That a new backend never meets
  the row of a removed one rests on ids being issued once (`OnlyIssued`).

**`ProxyServers_proofs`**

* `ProxyTyping` and `ListenersAreKept`, with any number of requests under way and reloads
  at any moment. `IInv` joins types and `NoLostListener`: the types need it, since there is
  a server to allocate (`SomeSpare`, a pigeonhole argument) because every server in use
  has an entry of its own.
* `EntriesAreRows`, with the same. `EntriesStand` says what the entry of a settled row
  fits at each stage of a request for it (`Stage`): the row, or, while an update has yet
  to be carried out or undone, the row that it replaced and has read. `Alone` says that
  nobody else works on that row: whoever comes second unsettles it.

**`AutoBlock_proofs`** (rules and bans)

* `RulesTyping` and `NobodyBlockedByAccident`. The invariant is `IInv`, types and
  `NoCollateral` together: that a merge blocks nothing new (`MergedCovers`) needs a
  worker's scan to consist of rules that were asked for, and the scan to be typed.
* `MergeIsExact`: the IPv4 addresses a list matches are those its merged list matches,
  for every list and every width of addresses. One half is `MergedCovers`; the other,
  `MergedKeeps`, needs a largest block around every block of the list, within what the list covers
  (`LargestCover`); it exists because there are finitely many. IPv6 rules are what a
  merge loses (the finding of `iprules_ipv6`).
* `MergeIsAlwaysRight`: the loops themselves, for words of any number of bits and any
  list. `MergeInv` follows the phases: while ranges are scanned, the runs, the one that
  grows and what is left cover the list, and unless it reaches the last address nothing
  left touches a finished run (`Scanned`); while runs are cut, blocks and what is uncut
  cover it, every block is among the largest, and the run goes on where its last block
  ended (`CutSoFar`); at the end there are only blocks (`AllCut`). `CutIsLargest` is the
  heart: a larger block around what `MaxBits` cuts off would begin with it and reach
  beyond the run, or before it and hold what was cut before. It rests on the arithmetic
  of powers of two and on blocks being nested or disjoint (`PowersInOrder`,
  `BlocksNest`), which are proved first, by the induction principle `FromZero`.
* `LoopsComputeMerged`: so the one-step `Merged` of `IPRules` and `AutoBlock` is what the
  loops return for the texts of a list of rules (`RulesOf`), two different texts being two
  different rules (`TextsDiffer`).
* `RulesKeepPromise`: `IPRules` implements `RuleListPromise`, step by step, for any number
  of goroutines, operations and failures (`NextPromise`). `Select` reads for a merge and
  `Build` for a snapshot, `Commit` merges, `Store` publishes, `Insert` and `Delete` enter
  and leave; a failed statement loses what a reader holds. `IInv` is needed for the types,
  and `MergedIsList` for the merge. The promise is about addresses and knows no blocks,
  so it also says that merging goes unnoticed but for addresses without a range.
* `OneCallerLosesNothing`: the property that `iprules_ipv6` refutes holds when one
  goroutine runs the operations and they name blocks of IPv4 only. `OwnScan` says that
  what it has scanned to merge is still the list, the rest is `MergeIsExact`.
* `MemoryIsOnRecord`, through any number of crashes and failures. `BansAreOnRecord`
  alone is not inductive, since `EnterBan` relies on the record written steps before:
  `DoingInv` carries that through the operation.
* `BansTyping` composes it with the rule engine's invariant: `RulesUnderBans` shows
  that every step of the AutoBlocker preserves `IInv`, citing the lemmas about
  `Insert`, `Delete` and `Progress`.
* `OneFailureLeavesNoRule` and `BannedIsBlocked` assume that nobody else edits the list
  (`AloneOnTheList`, which `MCAutoBlock.cfg` satisfies), and the second that the addresses are
  IPv4: an administrator may delete the rule of a banned address, and a merge the rules
  without a range. `ScansInv` says that the AutoBlocker is then the only one that
  merges, and that what it has scanned is still the list when it commits. For the rules,
  `LeftoversAreFailures` counts: a rule of an address that is not held as banned costs
  one failed statement, and one that an undo finds in its way costs two. For the bans,
  `HeldIsOnList`, which merges keep because they are exact.

**`Requests_proofs`** (what a request meets)

* `TokensPassOnce` and `AnswersExpire`, for any number of clients and challenges. `CInv`
  adds what the two rest on: a challenge not yet handed out is known to nobody
  (`FreshIsUnknown`), a token still in the map has let nobody through and neither has an
  answer (`TokensAreUnspent`, `AnswersAreUnused`), what had been used when a request
  arrived still has (`AfterIsUsed`), and a request that has found its answer in the map
  and has not yet deleted it arrived before the answer was used (`FoundBeforeUse`). The
  last is why two locks are enough for `AnswerExpiresOnUse` and not for a solution that
  passes once.
* `LimitsAreNotStale`, for any number of requests, editors and restarts. `LimitInv`
  adds that the clone is of the limits in force or there is none (`CloneIsLive`),
  because `UpdateConfig` drops it under the lock that it changes the limits under, and
  that an evaluation which has no thresholds yet began under limits no newer than
  those in force (`EvaluationsBeganBefore`).
* `RulesAreEnforced` and `BodiesArriveWhole`, for any filters, schemas, detectors and
  patches. What was in force since the arrival still is (`HeldIsInForce`);
  `NothingMissed` follows the pipeline: a request past a step tripped nothing of that
  kind which was held. Detection stops at the first detector whose finding blocks, so what is left to judge
  contains such a finding whenever there is one (`SomeStopIsFirst`); `BodyIsPutBack` says what each
  check leaves to read.
* `BodiesStayApart`, for any number of responses and buffers. `ScanInv`: a buffer is in
  the pool or lent to one response (`BuffersAreLent`, `NoBufferIsShared`), and what was
  copied out is the response's own (`CopiesAreOwn`).
* `LinesKeepOrder`, for any batch, rotation and number of entries, and any number of
  goroutines that compress. Entries are numbered as they are accepted; `OnTheWay` says
  that channel, batch and file hold the last of them, one after the other. `Files` is
  about the backups, as one set with what is being written: a text is a run of numbers,
  texts of different seconds are apart and in order (`BackupsInOrder`), and a
  goroutine has in hand what the backup of its name held (`TrueCopies`), unless two
  rotations fell into one second; so a compressed copy is complete before its original is
  removed (`Complete`). What the oldest are without compression is decided by their
  names, which are those of consecutive rotations. `WorkerIsReady` excludes the states in
  which the worker would have no room, or something left when it ends.
* `AlertsAreAlwaysMeasured`, for any number of requests and any rule. The order in which
  requests read the clock (`ClocksAreRead`, `InOrder`) decides which matches a window
  may leave out (`LeftOut`); from that follow the counts (`Measured`) and, as the rest of
  an alert outlives what the cleaner drops (`RestsGoOn`), the distance between
  alerts (`DistancesAreKept`).

**`Access_proofs`** (who gets in)

* `LogoutIsFinal`, `NoSessionLastsLonger` and `TableFollowsMemory`, for any number of
  visitors, tokens, restarts and failed statements. `SInv` adds that what memory and
  table hold was issued, with the time of its log-in (`Known`), that visits, log-outs
  and the cleaner are about issued tokens (`VisitsAreKnown`, `LeaversAreKnown`), which
  are never issued again, and that a token the cleaner has taken from memory does not
  return before its row is deleted (`ForgottenAreGone`). Renewal keeps all that because
  it looks the token up again under the lock it writes under.
* `TriesAreBounded` and `NoCaptchaTwice`, for any number of goroutines and names.
  `GuessesAreBounded` says nothing of the counters that keep it, so `LInv` adds
  `Bounded` for each name: while the pair is free, its tries in vain are those counted,
  which are below the limit, and those of goroutines that have failed and not yet
  counted; once it is blocked, those and the ones still under way stay below the bound,
  since nobody else passes the checks. `Counting` says that no goroutine is counted
  twice; `Count`, `Try` and `Check` are the steps that matter.
* `PasswordsSurviveRestarts`, for any number of callers and passwords. `AccountsInv`
  adds that, unless something disturbed the account, one request at a time changes it
  (`OneAtATime`) and memory holds the password just set or what a start would make of
  the row (`StoredPassword`).

**`RulesAPI_proofs`** (all rule managers at once)

* `OverridesAreNotLost` and `RestartsKeepRules`, for any number of goroutines, rules and
  operations. `RulesInv` says of each goroutine at which step of which kind of
  operation it is (`Steps`), and that nobody else works on what an operation that is
  alone works on (`Solo`); then, for each of the five things that exist twice, that
  memory is what a start would load, or that an operation under way owes just that:
  `TablesAgree` (with seeding and migration), `OverridesAgree` (look-up, insert, two
  updates, load), `PoliciesAgree`, `SettingsAgree`, `MailAgrees`. `StepsGoOn` takes the
  bookkeeping of who is alone out of all the others.

**`Operation_proofs`** (what keeps the daemon going)

* `SettingsTyping` and `NoSettingIsLost`. `CopiesAreCurrent` says that a request nobody
  has overtaken holds what is stored; a write leaves no such request
  (`OvertakingType`), and filling gaps twice changes nothing (`LoadedType`), so that
  writing back the sections one did not mean to change leaves them as acknowledged.
* `LoadsAreShared`, for any number of callers and keys: the key of a caller that runs a
  query is registered (`LeadersAreRegistered`), so nobody else becomes its leader.
* `PlainRequestsAreLogged`, for any connections. `LifeInv` follows main through the list
  of parts: the log is open from before the first request until it is closed
  (`LogIsOpen`), and once main has closed the proxies no plain request is under way
  unless main gave up on it or a listener was opened meanwhile (`ListenersAreClosed`,
  `RequestsAreOver`), although the signal's goroutine does the same things beside it.
* `DomainsAreFollowed`, for any number of domains, certificates and hosts. `RouteInv`:
  a cached form is a row of the table unless its name is in doubt, and so is what a
  look-up has in hand (`CacheFollows`, `LookupFollows`). `HandshakeInv`: a certificate
  that is younger than the last change was read after it.
* `StartsHeal`, an action property: `StartUpHeals` compares two states, and `StartInv`
  describes how far a start has come if nothing failed (`StartGoesOn`): domains it no
  longer has to do have a current pair, the one in hand has it as far as it is written.
  Nobody else works on certificates meanwhile (`StartsAlone`).

**`Sums_proofs`** (what is added up)

* The first section proves what the community modules' `SumFunctionOnSet` does for finite
  sets: one more member, one changed summand, sums of sums, sums of the same. These are
  inductions over finite sets; the library's induction theorem takes an operator as a
  parameter, so `FromTheEmptySet` proves the principle for a set given as a value, by
  a minimal counterexample in the ordering by strict inclusion, which is well founded.
* `RoundsAreFair`, for any number of backends and groups and any weights. `Even` is the
  arithmetic of smooth weighted round robin: a member's credit is what has been
  selected so far times its weight, minus its own selections times the total, it never
  sinks to minus the total, and all credits sum to zero. After a round each member can
  have been selected at most as often as its weight says, and the sums are equal.
* `HistoryAlwaysAddsUp`, for any number of requests, failures and restarts and any
  queues. `MetricsInv`: an hour that was added up is over and stays the sum of its
  minutes (`HoursAreFinal`), so what was added to the day for it stays that too
  (`DayCountsTwice`, a sum over the hours that were added); what is in minutes, counters and queues together was a request, or a
  block (`MinutesAreRequests`, `EventsAreBlocks`).
* `ListsAgreeWithDetails`, for any number of blocks, days, clean-ups and failures.
  `StoreInv` is about the store: blocks go through the queue in their order and once
  (`InTurn`, `WrittenOnce`), and a day is counted in full or is over and deleted with its
  events (`DaysAreWhole`). `StoredCountsAgree` is the key: counts that are read at any
  time are no less than the events that remain in the window. `ReadingAgrees` and
  `AnswerAgrees` carry that through the second query and the caches, past clean-ups in
  between.
* `ListAndStatsAlwaysAgree`, for a log of any length, pages of any size and any bounds,
  days and kinds of lines. The invariant is only that the file is a sequence of lines;
  the rest holds of every such sequence. `SortedLines`: finitely many lines can be
  sorted (one of them is oldest, `OneIsOldest`), and each is in the result once.
  `OnePage` and `OnlyOnePage`: a place in a list is on one page, so whatever a set of
  lines, the pages together show as many of it as there are (`PagesShowAll`, also for
  a single line, `PagesShowEachOnce`). `CountedByValue`: what is counted value by value
  adds up to what has one of the values, which gives the trend, the groups of a field
  and the series (`TrendAddsUp`, `GroupsByField`). The rows since one date and since
  another differ by those in between, whichever is earlier.

`TokenPassesOnce` and `CaptchaPaysOnce` are each about one critical section: they are
proved (`TokensPassOnce`, `NoCaptchaTwice`) and no run repeats them.

Every invariant and action property of a passing run is stated by one of these theorems,
and so is `KeepsPromise`. What is checked by TLC only:

* all liveness (`DeadLeavesRoutes`, `RecoveredReturns`, `LiveFollowsTable`, `BansEnd`,
  `NobodyStarves`), which is out of the prover's reach;
* nothing about routes beside overlapping calls: the theorems about them, like the runs,
  are for one administrator, and but for `SerialRestartKeepsRoutes` without checks; a call
  that is overtaken leaves an old cache (section 4). `BuiltIsAlwaysCurrent` needs neither.

## 6. Not modelled, and the plan

Not modelled, and why:

* The ban reconciler (`autoblock_reconcile.go`) and threat intelligence
  (`internal/intel`, `handler/intel.go`): the program never starts the first, and the
  calls and routes of the second are commented out.
* The token buckets (`limiter/`, `rules/ratelimit.go`): the pipeline asks them only
  when there is no smart limiter (`ratelimit_check.go:99`), and the adaptive limiter
  has no caller. Their hazard is listed.
* Asynchronous extraction beyond its start and stop, profiles, windows, baselines and
  scores: statistics a small instance says nothing about.
* The WebSocket hubs that hand log lines and figures to pages: the dashboard's answers
  and caches are in `BlockReports`, the registration of clients is not. Trend queries,
  hourly series and figures of the host.
* What patterns match: detectors, agents, countries, DLP expressions. Geo updates.
* Command-line tools, pages, templates, response pages, compliance reports: formatting,
  no behaviour over time. Delivery to external services is a step that succeeds or
  fails.

What would come next, in this order:

1. `RuleTables` as an implementation of a list in force like that of `RuleListPromise`:
   its managers load as `IPRules` does, and what they hold is checked by
   `RestartKeepsRules` only when nothing overtook the operation.
2. Liveness of the queues of `MetricsStore` and `AccessLog` under the fairness of
   their workers.
3. `TokenBuckets` and the hubs.
