---------------------------- MODULE BlockReports ----------------------------
(* What the administration pages say of the blocks: a list of what was blocked
   most often, with the events behind each entry. domain/proxy/metric.go writes
   a block twice, as an event (by way of a batch) and as a count of the day it is
   counted on; storage/metrics/top.go reads the counts by day and then the events
   by time, and deletes both once they are too old; handler/dashboard.go,
   dashboardws.go and metrics.go show the answer, a cached one, or what the process
   counted itself (storage/stats) when the database fails or has nothing.

   The lists of addresses, paths and rules are kept the same way: one of them is
   modelled. The limits of the queues are those of MetricsStore; that the memory
   forgets entries beyond 10,000 is left out. A tick is a part of a day; a cached
   answer lives a few seconds, so within its tick.                             *)
EXTENDS Integers, Sequences, FiniteSets, Functions

CONSTANTS
  Listed,           \* what a list is about: addresses, paths or rules
  MaxHits,          \* bound on blocks
  LastTick,         \* bound on time
  TicksPerDay,
  RetentionDays,    \* metrics_retention_days
  WindowDays,       \* how far back the dashboard looks: 7 days
  TopEntries,       \* length of a list
  PageLength,       \* events of a page, and of the ring in memory
  MaxReportErrors   \* bound on statements that fail

ASSUME ReportsAssumption ==
  /\ TicksPerDay \in Nat \ {0} /\ LastTick \in Nat /\ TicksPerDay <= LastTick + 1
  /\ MaxHits \in Nat /\ RetentionDays \in Nat /\ WindowDays \in Nat

VARIABLES
  tick,
  hits,             \* every block: what was blocked, a sequence
  startedAfter,     \* blocks that happened before the process started
  toWrite,          \* metricEventCh: blocks, by their number in hits
  writing,          \* the block writeMetricEvent has saved and not yet counted, or 0
  unsaved,          \* events in the queue and the batch of the store
  rows,             \* intercept_events: [hit, time]
  dayCounts,        \* top_stats, rule_hit_stats: [date][what] -> count
  countedOn,        \* the day a block was counted on, NoTime when it was not
  cutoff,           \* of the clean-up in progress, NoTime when there is none
  reading,          \* the counts a reader holds while it fetches the events
  shown,            \* the answer that is shown, and cached: topIPsCache and the like
  reportErrors

storedVars == <<rows, dayCounts>>
queueVars == <<toWrite, writing, unsaved>>
readerVars == <<reading, shown>>
reportVars == <<tick, hits, startedAfter, queueVars, storedVars, countedOn, cutoff,
                readerVars, reportErrors>>

NoTime == -1
NoReading == [counts |-> <<>>]
NoAnswer == [source |-> "none"]

Date(t) == t \div TicksPerDay
Dates == 0..Date(LastTick)

ReportsInit ==
  /\ tick = TicksPerDay - 1    \* the last part of the first day
  /\ hits = <<>> /\ startedAfter = 0
  /\ toWrite = <<>> /\ writing = 0 /\ unsaved = {} /\ rows = {}
  /\ dayCounts = [d \in Dates |-> [x \in Listed |-> 0]]
  /\ countedOn = [h \in 1..MaxHits |-> NoTime]
  /\ cutoff = NoTime /\ reading = NoReading /\ shown = NoAnswer
  /\ reportErrors = 0

StatementFails == reportErrors < MaxReportErrors /\ reportErrors' = reportErrors + 1
StatementWorks == UNCHANGED reportErrors

----------------------------------------------------------------------------
\* A block is counted in memory and queued.
ReportBlock(x) ==
  /\ Len(hits) < MaxHits
  /\ hits' = Append(hits, x)
  /\ toWrite' = Append(toWrite, Len(hits'))
  /\ UNCHANGED <<tick, startedAfter, writing, unsaved, storedVars, countedOn, cutoff,
                 readerVars, reportErrors>>

\* The worker hands the event to the store, and then counts it.
SaveHit ==
  /\ writing = 0 /\ toWrite # <<>>
  /\ writing' = Head(toWrite) /\ toWrite' = Tail(toWrite)
  /\ unsaved' = unsaved \cup {Head(toWrite)}
  /\ UNCHANGED <<tick, hits, startedAfter, storedVars, countedOn, cutoff, readerVars,
                 reportErrors>>

CountHit ==
  /\ writing # 0
  /\ \/ /\ StatementWorks
        /\ dayCounts' = [dayCounts EXCEPT ![Date(tick)][hits[writing]] = @ + 1]
        /\ countedOn' = [countedOn EXCEPT ![writing] = Date(tick)]
     \/ StatementFails /\ UNCHANGED <<dayCounts, countedOn>>
  /\ writing' = 0
  /\ UNCHANGED <<tick, hits, startedAfter, toWrite, unsaved, rows, cutoff, readerVars>>

\* The store writes its events, at the time it writes them; some may fail.
WriteEventRows ==
  /\ unsaved # {}
  /\ \E written \in SUBSET unsaved :
       /\ \/ written = unsaved /\ StatementWorks
          \/ written # unsaved /\ StatementFails
       /\ rows' = rows \cup [hit : written, time : {tick}]
  /\ unsaved' = {}
  /\ UNCHANGED <<tick, hits, startedAfter, toWrite, writing, dayCounts, countedOn, cutoff,
                 readerVars>>

----------------------------------------------------------------------------
\* CleanupOldData: the events by their time, then the counts by their date; when
\* the first fails the second is not tried.
CleanupTime == tick - RetentionDays * TicksPerDay
UpTo(d, t) == d <= Date(t)
TooOld(d, t) == d < Date(t)

DeleteOldRows ==
  /\ cutoff = NoTime /\ CleanupTime > 0
  /\ \/ /\ StatementWorks
        /\ cutoff' = CleanupTime
        /\ rows' = {r \in rows : r.time >= CleanupTime}
     \/ StatementFails /\ UNCHANGED <<cutoff, rows>>
  /\ UNCHANGED <<tick, hits, startedAfter, queueVars, dayCounts, countedOn, readerVars>>

DeleteOldCounts ==
  /\ cutoff # NoTime
  /\ \/ /\ StatementWorks
        /\ dayCounts' = [d \in Dates |-> IF TooOld(d, cutoff) THEN [x \in Listed |-> 0]
                                         ELSE dayCounts[d]]
     \/ StatementFails /\ UNCHANGED dayCounts
  /\ cutoff' = NoTime
  /\ UNCHANGED <<tick, hits, startedAfter, queueVars, rows, countedOn, readerVars>>

----------------------------------------------------------------------------
\* A window of the dashboard ends now; one that was asked for goes by days, and
\* ends as its last day, here today, begins.
DashboardWindow == [from : {tick - WindowDays * TicksPerDay}, to : {tick}, dashboard : {TRUE}]
AskedWindows ==
  {[from |-> d * TicksPerDay, to |-> Date(tick) * TicksPerDay, dashboard |-> FALSE] :
     d \in 0..Date(tick)}

DatesOf(w) == {d \in Dates : Date(w.from) <= d /\ d <= Date(w.to)}
CountsOf(x) == [d \in Dates |-> dayCounts[d][x]]
StoredCounts(w) == [x \in Listed |-> SumFunctionOnSet(CountsOf(x), DatesOf(w))]

\* The entries that are listed: the ones counted most often.
Top(counts) ==
  {top \in SUBSET {x \in Listed : counts[x] > 0} :
     /\ Cardinality(top) <= TopEntries
     /\ \A x \in Listed \ top :
          counts[x] = 0 \/ (Cardinality(top) = TopEntries /\ \A y \in top : counts[x] <= counts[y])}

OfThisProcess == {h \in 1..Len(hits) : h > startedAfter}
MemoryCounts == [x \in Listed |-> Cardinality({h \in OfThisProcess : hits[h] = x})]

\* What the process counted itself.
FromMemory == [source |-> "memory", counts |-> MemoryCounts]

\* The first query of an answer: the counts of the days of the window. Without
\* any, or when it fails, the dashboard shows what is in memory.
ReadCounts(w) ==
  /\ reading = NoReading /\ shown = NoAnswer
  /\ \/ /\ StatementWorks
        /\ \E top \in Top(StoredCounts(w)) :
             IF top # {}
             THEN /\ reading' = [counts |-> [x \in top |-> StoredCounts(w)[x]], window |-> w,
                                 before |-> rows,
                                 late |-> {r \in rows : countedOn[r.hit] # Date(r.time)}]
                  /\ UNCHANGED shown
             ELSE w.dashboard /\ shown' = FromMemory /\ UNCHANGED reading
     \/ StatementFails /\ w.dashboard /\ shown' = FromMemory /\ UNCHANGED reading
  /\ UNCHANGED <<tick, hits, startedAfter, queueVars, storedVars, countedOn, cutoff>>

ReadDashboard == \E w \in DashboardWindow : ReadCounts(w)
ReadAsked == \E w \in AskedWindows : ReadCounts(w)

\* The second query: the events of the listed entries. The window ended before
\* the first, so that events written since are not in it; a failure leaves the
\* entries without details.
EventsOf(r) ==
  {e \in rows \cap r.before : /\ hits[e.hit] \in DOMAIN r.counts
                              /\ r.window.from <= e.time /\ e.time <= r.window.to}

ReadDetails ==
  /\ reading # NoReading
  /\ \E details \in {EventsOf(reading), {}} :
       /\ \/ details = EventsOf(reading) /\ StatementWorks
          \/ details = {} /\ StatementFails
       /\ shown' = [source |-> "database", counts |-> reading.counts, details |-> details,
                     late |-> reading.late]
  /\ reading' = NoReading
  /\ UNCHANGED <<tick, hits, startedAfter, queueVars, storedVars, countedOn, cutoff>>

\* The events themselves: a page of the newest ones of a window, or those of the
\* ring in memory, each with the number of events it shows of every entry.
Newest(events, order) ==
  {page \in SUBSET events :
     /\ Cardinality(page) <= PageLength
     /\ \A e \in events \ page : /\ Cardinality(page) = PageLength
                                /\ \A f \in page : order[e] <= order[f]}

StoredPages(from, to) ==
  Newest({r \in rows : from <= r.time /\ r.time <= to}, [r \in rows |-> r.time])
RingPages == Newest(OfThisProcess, [h \in OfThisProcess |-> h])

PageAnswer(source, page) ==
  [source |-> source, details |-> {}, late |-> {},
   counts |-> [x \in Listed |-> Cardinality({h \in page : hits[h] = x})]]
FromRows(page) == PageAnswer("database", {r.hit : r \in page})
FromRing(page) == PageAnswer("memory", page)

\* Whether memory stands in for a query that fails, and for one that finds nothing.
ListEvents(from, to, whenItFails, whenEmpty) ==
  /\ reading = NoReading /\ shown = NoAnswer
  /\ \/ /\ StatementWorks
        /\ \E page \in StoredPages(from, to) :
             IF page = {} /\ whenEmpty
             THEN \E ring \in RingPages : shown' = FromRing(ring)
             ELSE shown' = FromRows(page)
     \/ /\ StatementFails /\ whenItFails
        /\ \E ring \in RingPages : shown' = FromRing(ring)
  /\ UNCHANGED <<tick, hits, startedAfter, queueVars, storedVars, countedOn, cutoff, reading>>

ListRecent == ListEvents(tick - WindowDays * TicksPerDay, tick, TRUE, TRUE)
ListIntercepts == ListEvents(tick - WindowDays * TicksPerDay, tick, TRUE, FALSE)
ListHistory ==
  \E d \in 0..Date(tick) :
    ListEvents(d * TicksPerDay, (Date(tick) + 1) * TicksPerDay - 1, FALSE, FALSE)

\* The answer is no longer cached: a few seconds later the next one is read.
ForgetAnswer ==
  /\ shown # NoAnswer
  /\ shown' = NoAnswer
  /\ UNCHANGED <<tick, hits, startedAfter, queueVars, storedVars, countedOn, cutoff, reading,
                 reportErrors>>

\* The process ends and starts again, without what was in memory.
RestartReports ==
  /\ startedAfter' = Len(hits)
  /\ toWrite' = <<>> /\ writing' = 0 /\ unsaved' = {}
  /\ cutoff' = NoTime /\ reading' = NoReading /\ shown' = NoAnswer
  /\ UNCHANGED <<tick, hits, storedVars, countedOn, reportErrors>>

TickPasses ==
  /\ tick < LastTick
  /\ tick' = tick + 1 /\ shown' = NoAnswer
  /\ UNCHANGED <<hits, startedAfter, queueVars, storedVars, countedOn, cutoff, reading,
                 reportErrors>>

ReportsNext ==
  \/ \E x \in Listed : ReportBlock(x)
  \/ SaveHit \/ CountHit \/ WriteEventRows \/ DeleteOldRows \/ DeleteOldCounts
  \/ ReadDashboard \/ ReadAsked \/ ReadDetails
  \/ ListRecent \/ ListIntercepts \/ ListHistory \/ ForgetAnswer
  \/ RestartReports \/ TickPasses

ReportsSpec == ReportsInit /\ [][ReportsNext]_reportVars

----------------------------------------------------------------------------
\* A list that is read from the database agrees with itself: whatever the
\* clean-up deletes before, between and after the two queries, and whichever
\* of its statements fails, the events shown behind an entry are no more than
\* its count, but for those that were not counted, or were counted before the
\* midnight they were written after (CleanupOldData, GetTopStats,
\* GetRuleHitStats). And no answer counts more blocks than there were, in
\* memory or in the database, before or after a restart.
DetailsAreCounted ==
  shown # NoAnswer =>
    \A x \in DOMAIN shown.counts :
      /\ shown.counts[x] <= Cardinality({h \in 1..Len(hits) : hits[h] = x})
      /\ shown.source = "database" =>
           Cardinality({e \in shown.details \ shown.late : hits[e.hit] = x}) <= shown.counts[x]
=============================================================================
