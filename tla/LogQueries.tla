------------------------------- MODULE LogQueries -------------------------------
(* What the administration reads of the access log: pages and statistics of the log
   file (handler/logs.go), and statistics of the log database, which go through a
   cache whose loads are shared by concurrent callers (logdb/cache.go).         *)
EXTENDS Integers, Sequences, FiniteSets, Functions

CONSTANTS
  LineKinds,       \* lines: [day, hour, action, status], or [junk |-> "broken" or "long"]
  Bounds,          \* bounds of a query: [day, hour, form], form "RFC3339" or "plain"
  PageSizes,       \* bound: lines of a page, groups of an answer
  MaxLines,        \* bound: lines of the file
  Readers,         \* requests that query the database
  QueryKeys, MaxCached, CacheTTL,
  MaxFlights,      \* bound: loads
  Unloaded         \* no value
ASSUME LinesAssumption ==
  /\ \A l \in LineKinds : "junk" \in DOMAIN l \/ (l.day \in Int /\ l.hour \in Int /\ l.status \in Int)
  /\ PageSizes \subseteq Nat \ {0}

VARIABLES
  lines,           \* the file
  rowsVersion,     \* stands for the contents of access_logs
  cacheEntries,    \* key -> [data, age], Unloaded if there is none
  flights,         \* the sfCall objects: [key, added, done, val]
  registered,      \* singleflight.calls: key -> the object, 0 for none
  reader

queryVars == <<lines, rowsVersion, cacheEntries, flights, registered, reader>>

Failed == -1
Free == [pc |-> "idle", key |-> Unloaded, flight |-> 0, val |-> Unloaded]

QueriesInit ==
  /\ lines = <<>> /\ rowsVersion = 0 /\ cacheEntries = [k \in QueryKeys |-> Unloaded]
  /\ flights = <<>> /\ registered = [k \in QueryKeys |-> 0] /\ reader = [r \in Readers |-> Free]
-------------------------------------------------------------------------------
\* Time stamps are compared as text: against a bound without "T", a line of the
\* bound's own day counts as later.
Before(l, b) ==
  \/ l.day < b.day
  \/ b.form = "RFC3339" /\ l.day = b.day /\ l.hour < b.hour
After(l, b) ==
  \/ l.day > b.day
  \/ l.day = b.day /\ (b.form = "plain" \/ l.hour > b.hour)

MatchLogEntry(l, q) == ~Before(l, q.from) /\ ~After(l, q.to)

TooLong(l) == "junk" \in DOMAIN l /\ l.junk = "long"
Entire(ls) == {i \in DOMAIN ls : "junk" \notin DOMAIN ls[i]}

\* A line is known by its number in the file. Those that can be parsed, up to a line
\* that is too long for the scanner, and those of them that a query is after.
Parsed(ls) == {i \in Entire(ls) : \A k \in 1..i : ~TooLong(ls[k])}
Matching(ls, q) == {i \in Parsed(ls) : MatchLogEntry(ls[i], q)}

\* Which of two lines of one hour comes first is up to the sort, which does the same
\* with the same lines.
Newer(l, k) == l.day > k.day \/ (l.day = k.day /\ l.hour > k.hour)
NewestFirst(ls, S) ==
  {s \in [1..Cardinality(S) -> S] :
     \A i, j \in DOMAIN s : i < j => s[i] # s[j] /\ ~Newer(ls[s[j]], ls[s[i]])}
SortLogs(ls, S) == CHOOSE s \in NewestFirst(ls, S) : TRUE

\* From the start on, size of them at most.
Slice(s, start, size) ==
  SubSeq(s, start + 1, IF start + size < Len(s) THEN start + size ELSE Len(s))

FromThisPage(q) == q.page * q.size
FirstOfPage(q) == (q.page - 1) * q.size

\* The scanner's error is the list's.
ReadAndFilterLogs(ls, q) ==
  LET found == SortLogs(ls, Matching(ls, q))
      err == \E i \in DOMAIN ls : TooLong(ls[i])
  IN IF err THEN [err |-> err, total |-> 0, entries |-> <<>>]
     ELSE [err |-> err, total |-> Len(found), entries |-> Slice(found, FirstOfPage(q), q.size)]

IsBlock(l) == l.action = "block"
BlockedOf(ls, S) == {i \in S : IsBlock(ls[i])}
ErrorsFrom(status, ls, S) == {i \in S : ls[i].status >= status}

CalculateSimpleStats(ls, page) ==
  [total |-> Len(page),
   blocked |-> Cardinality({i \in DOMAIN page : IsBlock(ls[page[i]])}),
   errors |-> Cardinality({i \in DOMAIN page : ls[page[i]].status >= 400})]

\* Of one page of the list.
GetSimpleStats(ls, q) == CalculateSimpleStats(ls, ReadAndFilterLogs(ls, q).entries)

\* A scanner's error is not asked for here.
HourOf(l) == <<l.day, l.hour>>
CalculateLogStats(ls, q) ==
  LET in == Matching(ls, q)
      at(h) == {i \in in : HourOf(ls[i]) = h}
      counts(S) == [requests |-> Cardinality(S), blocked |-> Cardinality(BlockedOf(ls, S)),
                    errors |-> Cardinality(ErrorsFrom(500, ls, S))]
  IN [all |-> counts(in), trend |-> [h \in {HourOf(ls[i]) : i \in in} |-> counts(at(h))]]

\* The rows of the database, dated in UTC, of which a query takes those from some date on.
NotBefore(l, t) == l.day > t.day \/ (l.day = t.day /\ l.hour >= t.hour)
Recent(ls, rows, since) == {i \in rows : NotBefore(ls[i], since)}
GroupedBy(ls, rows, field) ==
  [v \in {ls[i][field] : i \in rows} |-> Cardinality({i \in rows : ls[i][field] = v})]

\* A week ago and today by the local clock, whatever its zone.
GetStats(ls, rows, weekAgo, today) ==
  LET in == Recent(ls, rows, weekAgo)
  IN [total |-> Cardinality(in), today |-> Cardinality({i \in in : ls[i].day >= today}),
      blocked |-> Cardinality(BlockedOf(ls, in)), errors |-> Cardinality(ErrorsFrom(400, ls, in))]

\* The fullest groups, limit of them at most, of the same week.
AggregateByField(ls, rows, weekAgo, field, limit) ==
  LET groups == GroupedBy(ls, Recent(ls, rows, weekAgo), field)
      most == {S \in SUBSET DOMAIN groups :
                 /\ Cardinality(S) = limit \/ (S = DOMAIN groups /\ Cardinality(S) < limit)
                 /\ \A v \in S, w \in DOMAIN groups \ S : groups[v] >= groups[w]}
  IN {[v \in S |-> groups[v]] : S \in most}

\* Some hours ago and the days in UTC.
GetTimeSeries(ls, rows, since) == GroupedBy(ls, Recent(ls, rows, since), "day")

QueryLogs(ls, rows, limit, offset) ==
  [total |-> Cardinality(rows), logs |-> Slice(SortLogs(ls, rows), offset, limit)]

\* The logger's batches.
AppendLine ==
  /\ Len(lines) < MaxLines /\ \E l \in LineKinds : lines' = Append(lines, l)
  /\ UNCHANGED <<rowsVersion, cacheEntries, flights, registered, reader>>

\* A rotation: older files are not searched.
NewFile ==
  /\ lines # <<>> /\ lines' = <<>>
  /\ UNCHANGED <<rowsVersion, cacheEntries, flights, registered, reader>>

FileNext == AppendLine \/ NewFile
-------------------------------------------------------------------------------
At(r, pc) == reader[r].pc = pc
Goes(r, state) == reader' = [reader EXCEPT ![r] = state]
Fresh(k) == cacheEntries[k] # Unloaded /\ cacheEntries[k].age <= CacheTTL

Get(r, k) ==
  /\ At(r, "idle") /\ ~Fresh(k) /\ Goes(r, [Free EXCEPT !.pc = "missed", !.key = k])
  /\ UNCHANGED <<lines, rowsVersion, cacheEntries, flights, registered>>

InFlightAlone(k) == 0
InFlight(k) == registered[k]

\* Do: under the lock a caller joins the call in flight or registers its own ...
Join(r) ==
  LET k == reader[r].key
  IN /\ At(r, "missed")
     /\ IF InFlight(k) # 0
        THEN Goes(r, [reader[r] EXCEPT !.pc = "waits", !.flight = InFlight(k)]) /\ UNCHANGED <<flights, registered>>
        ELSE /\ Len(flights) < MaxFlights
             /\ flights' = Append(flights, [key |-> k, added |-> FALSE, done |-> FALSE, val |-> Unloaded])
             /\ registered' = [registered EXCEPT ![k] = Len(flights')]
             /\ Goes(r, [reader[r] EXCEPT !.pc = "leads", !.flight = Len(flights')])
  /\ UNCHANGED <<lines, rowsVersion, cacheEntries>>

Flight(r, field, v) == flights' = [flights EXCEPT ![reader[r].flight][field] = v]

\* ... and adds to the wait group after the lock: who joined before that does not wait.
AddToGroup(r) ==
  /\ At(r, "leads") /\ Flight(r, "added", TRUE) /\ Goes(r, [reader[r] EXCEPT !.pc = "loads"])
  /\ UNCHANGED <<lines, rowsVersion, cacheEntries, registered>>

\* The query, which may fail.
Load(r) ==
  /\ At(r, "loads") /\ \E v \in {rowsVersion, Failed} : Flight(r, "val", v)
  /\ Goes(r, [reader[r] EXCEPT !.pc = "loaded"])
  /\ UNCHANGED <<lines, rowsVersion, cacheEntries, registered>>

Done(r) ==
  /\ At(r, "loaded") /\ Flight(r, "done", TRUE) /\ Goes(r, [reader[r] EXCEPT !.pc = "done"])
  /\ UNCHANGED <<lines, rowsVersion, cacheEntries, registered>>

Value(r) == flights[reader[r].flight].val
Returns(r) ==
  Goes(r, IF Value(r) = Failed THEN Free ELSE [reader[r] EXCEPT !.pc = "sets", !.val = Value(r)])

Unregister(r) ==
  /\ At(r, "done") /\ registered' = [registered EXCEPT ![reader[r].key] = 0]
  /\ Returns(r)
  /\ UNCHANGED <<lines, rowsVersion, cacheEntries, flights>>

Wait(r) ==
  LET f == flights[reader[r].flight]
  IN /\ At(r, "waits") /\ (~f.added \/ f.done)
     /\ Returns(r)
     /\ UNCHANGED <<lines, rowsVersion, cacheEntries, flights, registered>>

Cached == {k \in QueryKeys : cacheEntries[k] # Unloaded}

\* Everyone who got a value stores it as new; what the waiters got too early is no
\* value, and is stored all the same.
Set(r) ==
  /\ At(r, "sets") /\ Goes(r, Free)
  /\ \E out \in IF Cardinality(Cached) >= MaxCached
                THEN {{k} : k \in {o \in Cached : \A c \in Cached : cacheEntries[c].age <= cacheEntries[o].age}}
                ELSE {{}} :
       cacheEntries' = [k \in QueryKeys |->
         IF k = reader[r].key THEN [data |-> reader[r].val, age |-> 0]
         ELSE IF k \in out THEN Unloaded ELSE cacheEntries[k]]
  /\ UNCHANGED <<lines, rowsVersion, flights, registered>>

\* A minute passes; cleanup drops what is out of date.
Ages ==
  /\ \/ cacheEntries' = [k \in QueryKeys |-> IF Fresh(k) THEN [cacheEntries[k] EXCEPT !.age = @ + 1]
                                             ELSE cacheEntries[k]]
     \/ cacheEntries' = [k \in QueryKeys |-> IF Fresh(k) THEN cacheEntries[k] ELSE Unloaded]
  /\ UNCHANGED <<lines, rowsVersion, flights, registered, reader>>

RowsChange ==
  /\ rowsVersion = 0 /\ rowsVersion' = 1
  /\ UNCHANGED <<lines, cacheEntries, flights, registered, reader>>

GetOrLoad(r) ==
  \/ \E k \in QueryKeys : Get(r, k)
  \/ Join(r) \/ AddToGroup(r) \/ Load(r) \/ Done(r) \/ Unregister(r) \/ Wait(r) \/ Set(r)

CacheNext == (\E r \in Readers : GetOrLoad(r)) \/ Ages \/ RowsChange

QueriesSpec == QueriesInit /\ [][FileNext \/ CacheNext]_queryVars
-------------------------------------------------------------------------------
\* However many requests miss the cache at once, one of them at a time queries the
\* database for a key (singleflight.Do).
OneLoadAtATime ==
  \A r, s \in Readers :
    (r # s /\ reader[r].key = reader[s].key) =>
      ~(reader[r].pc \in {"leads", "loads", "loaded", "done"} /\ reader[s].pc \in {"leads", "loads", "loaded", "done"})

RowTimes == {[day |-> l.day, hour |-> l.hour] : l \in {k \in LineKinds : "junk" \notin DOMAIN k}}
Sum(f) == SumFunctionOnSet(f, DOMAIN f)

\* How often pages of numbers have one of those in S.
Occurrences(page, S) == [p \in DOMAIN page |-> Cardinality({k \in DOMAIN page[p] : page[p][k] \in S})]
EachOnce(page, S) ==
  \A i \in DOMAIN lines : Sum(Occurrences(page, {i})) = IF i \in S THEN 1 ELSE 0

\* For the same bounds, the pages of the list show every matching line of the file
\* once and no other, as many as its statistics count, and the statistics of the pages
\* add up to them (an error is 500 there, and 400 here); only if a line is too long for
\* the scanner, the list fails, and the statistics end before that line. The trend adds
\* up to the statistics in any case (readAndFilterLogs, calculateLogStats,
\* calculateSimpleStats).
FileAgrees(b, e, size) ==
  LET query(p) == [from |-> b, to |-> e, page |-> p, size |-> size]
      pages == 1..(Len(lines) + 1)
      list == [p \in pages |-> ReadAndFilterLogs(lines, query(p))]
      simple == [p \in pages |-> GetSimpleStats(lines, query(p))]
      stats == CalculateLogStats(lines, query(1))
      all == stats.all
      trend == stats.trend
  IN /\ \/ \E i \in DOMAIN lines : TooLong(lines[i])
        \/ /\ EachOnce([p \in pages |-> list[p].entries], Matching(lines, query(1)))
           /\ \A p \in pages : ~list[p].err /\ list[p].total = all.requests
           /\ Sum([p \in pages |-> simple[p].total]) = all.requests
           /\ Sum([p \in pages |-> simple[p].blocked]) = all.blocked
           /\ Sum([p \in pages |-> simple[p].errors]) >= all.errors
     /\ Sum([h \in DOMAIN trend |-> trend[h].requests]) = all.requests
     /\ Sum([h \in DOMAIN trend |-> trend[h].blocked]) = all.blocked
     /\ Sum([h \in DOMAIN trend |-> trend[h].errors]) = all.errors

\* Of the rows of the database as they are at one instant, the groups of a field add up
\* to what the statistics count, and the pages show each row once. The series begins at
\* a date of its own, read from another clock: it adds up to the statistics but for the
\* rows between the two dates; and if it begins before today, its days from the local
\* date on add up to today's count (GetStats, AggregateByField, GetTimeSeries,
\* QueryLogs).
RowsAgree(weekAgo, since, today, limit) ==
  LET rows == Entire(lines)
      stats == GetStats(lines, rows, weekAgo, today)
      series == GetTimeSeries(lines, rows, since)
      pages == 1..(Len(lines) + 1)
      between(t, u) == Cardinality(Recent(lines, rows, t) \ Recent(lines, rows, u))
  IN /\ \A field \in {"action", "status"} :
          \A top \in AggregateByField(lines, rows, weekAgo, field, limit) :
            /\ Sum(top) <= stats.total
            /\ limit > Cardinality(DOMAIN top) => Sum(top) = stats.total
            /\ field = "action" /\ "block" \in DOMAIN top => top["block"] = stats.blocked
     /\ Sum(series) = stats.total + between(since, weekAgo) - between(weekAgo, since)
     /\ (since.day < today /\ weekAgo.day < today) =>
          Sum([d \in {x \in DOMAIN series : x >= today} |-> series[d]]) = stats.today
     /\ EachOnce([p \in pages |-> QueryLogs(lines, rows, limit, (p - 1) * limit).logs], rows)

\* What is read of the access log is consistent: both of the above, for the bounds,
\* pages and dates asked for.
ListAndStatsAgree ==
  lines # <<>> =>
    \A size \in PageSizes :
      /\ \A b, e \in Bounds : FileAgrees(b, e, size)
      /\ \A weekAgo, since, now \in RowTimes : RowsAgree(weekAgo, since, now.day, size)
=============================================================================
