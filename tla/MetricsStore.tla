---------------------------- MODULE MetricsStore ----------------------------
(* internal/infra/storage/metrics and domain/proxy/metric.go: how requests and
   blocks become rows. A block goes through two bounded queues, of the proxy
   (metricEventCh) and of the store (eventChan), to a batch and then to a
   transaction; counters are kept in memory, flushed to the minute and the day
   tables every five seconds, and added up for the previous hour once an hour.
   Closing drops what is still in memory: main defers Close after StopFlush, so
   that the last flush finds the database closed.

   Latency, traffic, TOP lists and system statistics are left out. Time is in
   minutes; all of it lies within one day.                                     *)
EXTENDS Integers, Functions

CONSTANTS
  MaxRequests,      \* bound on requests
  MaxBlocks,        \* bound on blocks, those of observed requests included
  MinutesPerHour,
  MaxMinute,        \* bound on time
  MetricQueue,      \* capacity of metricEventCh
  EventQueue,       \* capacity of eventChan
  BatchSize,        \* events of a batch that is written at once
  MaxFlushErrors    \* bound on statements and transactions that fail

ASSUME MetricsAssumption == MinutesPerHour \in Nat \ {0} /\ MaxMinute \in Nat

VARIABLES
  minute,           \* now
  nextHourly,       \* when hourlyTicker fires next
  pendingTotal, pendingBlocked,
  pendingMinute,    \* pendingMinuteTotal, pendingMinuteBlocked
  metricEvents,     \* events in metricEventCh
  eventChan,        \* events in eventChan
  batch,            \* events the writer holds
  interceptEvents,  \* rows of intercept_events
  minuteStats, hourlyStats, dailyStats,
  addedHours,       \* history: hours AggregateHourlyStats has added to the day
  addedAgain,       \* history: it has added one a second time
  arrived,          \* requests that came in
  unfinished,       \* requests that are neither answered nor blocked
  passed,           \* requests that were answered by a backend
  blocks,           \* calls of recordBlock
  flushErrors

counters == <<pendingTotal, pendingBlocked, pendingMinute>>
queues == <<metricEvents, eventChan, batch, interceptEvents>>
day == <<dailyStats, addedHours, addedAgain>>
statsTables == <<minuteStats, hourlyStats, day>>
requests == <<arrived, unfinished, passed, blocks>>
metricsVars == <<minute, nextHourly, counters, queues, statsTables, requests, flushErrors>>

Count(total, blocked) == [total |-> total, blocked |-> blocked]
NoCount == Count(0, 0)
Plus(x, y) == Count(x.total + y.total, x.blocked + y.blocked)
Hour(m) == m \div MinutesPerHour
MinutesOf(h) == {m \in 0..MaxMinute : Hour(m) = h}
Totals == [m \in 0..MaxMinute |-> minuteStats[m].total]
BlockTotals == [m \in 0..MaxMinute |-> minuteStats[m].blocked]
HourTotal(h) ==
  Count(SumFunctionOnSet(Totals, MinutesOf(h)), SumFunctionOnSet(BlockTotals, MinutesOf(h)))

MetricsInit ==
  /\ minute = 0 /\ nextHourly = MinutesPerHour
  /\ pendingTotal = 0 /\ pendingBlocked = 0 /\ pendingMinute = NoCount
  /\ metricEvents = 0 /\ eventChan = 0 /\ batch = 0 /\ interceptEvents = 0
  /\ minuteStats = [m \in 0..MaxMinute |-> NoCount]
  /\ hourlyStats = [h \in 0..Hour(MaxMinute) |-> NoCount]
  /\ dailyStats = NoCount /\ addedHours = {} /\ addedAgain = FALSE
  /\ arrived = 0 /\ unfinished = 0 /\ passed = 0 /\ blocks = 0
  /\ flushErrors = 0

\* A statement that fails: the error is logged and what was to be written is lost.
Fails == flushErrors < MaxFlushErrors /\ flushErrors' = flushErrors + 1
Works == UNCHANGED flushErrors

----------------------------------------------------------------------------
\* The proxy.
\* A request that is inspected, or whose path is outside the filter, begins.
CountRequest ==
  /\ arrived < MaxRequests
  /\ arrived' = arrived + 1 /\ unfinished' = unfinished + 1
  /\ pendingTotal' = pendingTotal + 1
  /\ UNCHANGED <<minute, nextHourly, pendingBlocked, pendingMinute, queues, statsTables,
                 passed, blocks, flushErrors>>

\* It is answered by its backend.
RecordPass ==
  /\ unfinished > 0
  /\ unfinished' = unfinished - 1 /\ passed' = passed + 1
  /\ pendingMinute' = Plus(pendingMinute, Count(1, 0))
  /\ UNCHANGED <<minute, nextHourly, pendingTotal, pendingBlocked, queues, statsTables,
                 arrived, blocks, flushErrors>>

\* It is blocked, or was only observed and goes on: the event is dropped when
\* the queue is full.
RecordBlock ==
  /\ unfinished > 0 /\ blocks < MaxBlocks
  /\ unfinished' \in {unfinished - 1, unfinished}
  /\ blocks' = blocks + 1
  /\ metricEvents' = IF metricEvents < MetricQueue THEN metricEvents + 1 ELSE metricEvents
  /\ UNCHANGED <<minute, nextHourly, counters, eventChan, batch, interceptEvents,
                 statsTables, arrived, passed, flushErrors>>

\* The event goes to the queue of the store or, when that is full, to the table.
SaveEvent ==
  \/ /\ eventChan < EventQueue
     /\ eventChan' = eventChan + 1
     /\ Works /\ UNCHANGED interceptEvents
  \/ /\ eventChan = EventQueue
     /\ \/ Works /\ interceptEvents' = interceptEvents + 1
        \/ Fails /\ UNCHANGED interceptEvents
     /\ UNCHANGED eventChan

WriteMetricEvent ==
  /\ metricEvents > 0
  /\ metricEvents' = metricEvents - 1
  /\ pendingBlocked' = pendingBlocked + 1
  /\ pendingMinute' = Plus(pendingMinute, Count(1, 1))
  /\ SaveEvent
  /\ UNCHANGED <<minute, nextHourly, pendingTotal, batch, statsTables, requests>>

----------------------------------------------------------------------------
\* The writer of events.
ReceiveEvent ==
  /\ eventChan > 0 /\ batch < BatchSize
  /\ eventChan' = eventChan - 1 /\ batch' = batch + 1
  /\ UNCHANGED <<minute, nextHourly, counters, metricEvents, interceptEvents, statsTables,
                 requests, flushErrors>>

\* A full batch at once, a smaller one every two seconds; a transaction that
\* fails is tried again in smaller ones and at last event by event.
FlushEventBatch ==
  /\ batch > 0
  /\ \/ Works /\ interceptEvents' = interceptEvents + batch
     \/ Fails /\ \E lost \in 0..batch : interceptEvents' = interceptEvents + batch - lost
  /\ batch' = 0
  /\ UNCHANGED <<minute, nextHourly, counters, metricEvents, eventChan, statsTables, requests>>

\* The counters are taken before the statement that adds them to the tables.
FlushCounters ==
  /\ pendingTotal > 0 \/ pendingBlocked > 0
  /\ pendingTotal' = 0 /\ pendingBlocked' = 0
  /\ \/ Works /\ dailyStats' = Plus(dailyStats, Count(pendingTotal, pendingBlocked))
     \/ /\ Fails
        /\ dailyStats' \in {Plus(dailyStats, Count(pendingTotal, 0)),
                            Plus(dailyStats, Count(0, pendingBlocked)), dailyStats}
  /\ UNCHANGED <<minute, nextHourly, pendingMinute, queues, minuteStats, hourlyStats,
                 addedHours, addedAgain, requests>>

FlushMinuteStats ==
  /\ pendingMinute # NoCount
  /\ pendingMinute' = NoCount
  /\ \/ Works /\ minuteStats' = [minuteStats EXCEPT ![minute] = Plus(@, pendingMinute)]
     \/ Fails /\ UNCHANGED minuteStats
  /\ UNCHANGED <<minute, nextHourly, pendingTotal, pendingBlocked, queues, hourlyStats,
                 day, requests>>

\* The hour AggregateHourlyStats adds up: the one before the current one.
CurrentHour == Hour(minute)
AggregatedHour == Hour(minute) - 1

StoreHour(sum) == hourlyStats' = [hourlyStats EXCEPT ![AggregatedHour] = sum]
AddToDay(sum) ==
  /\ dailyStats' = Plus(dailyStats, sum)
  /\ addedHours' = addedHours \cup {AggregatedHour}
  /\ addedAgain' = (addedAgain \/ AggregatedHour \in addedHours)

\* The row of the hour is replaced, the row of the day, which FlushCounters has
\* told of the same requests, is added to. The ticker drops ticks nobody took.
AggregateHourlyStats ==
  /\ minute >= nextHourly
  /\ nextHourly' = minute + MinutesPerHour - ((minute - nextHourly) % MinutesPerHour)
  /\ LET sum == HourTotal(AggregatedHour) IN
       \/ sum = NoCount /\ Works /\ UNCHANGED <<hourlyStats, day>>
       \/ /\ sum # NoCount
          /\ \/ Works /\ StoreHour(sum) /\ AddToDay(sum)
             \/ Fails /\ StoreHour(sum) /\ UNCHANGED day
             \/ Fails /\ AddToDay(sum) /\ UNCHANGED hourlyStats
             \/ Fails /\ UNCHANGED <<hourlyStats, day>>
  /\ UNCHANGED <<minute, counters, queues, minuteStats, requests>>

\* The process ends and starts again: Close lets the writer flush the batch it
\* holds or not, and the last flush of the counters fails.
RestartMetrics ==
  /\ interceptEvents' \in {interceptEvents, interceptEvents + batch}
  /\ metricEvents' = 0 /\ eventChan' = 0 /\ batch' = 0
  /\ pendingTotal' = 0 /\ pendingBlocked' = 0 /\ pendingMinute' = NoCount
  /\ unfinished' = 0
  /\ nextHourly' = minute + MinutesPerHour
  /\ UNCHANGED <<minute, statsTables, arrived, passed, blocks, flushErrors>>

MinutePasses ==
  /\ minute < MaxMinute
  /\ minute' = minute + 1
  /\ UNCHANGED <<nextHourly, counters, queues, statsTables, requests, flushErrors>>

MetricsNext ==
  \/ CountRequest \/ RecordPass \/ RecordBlock \/ WriteMetricEvent
  \/ ReceiveEvent \/ FlushEventBatch
  \/ FlushCounters \/ FlushMinuteStats \/ AggregateHourlyStats
  \/ RestartMetrics \/ MinutePasses

MetricsSpec == MetricsInit /\ [][MetricsNext]_metricsVars

----------------------------------------------------------------------------
\* daily_stats counts requests twice: flushCounters adds each once it has come, and
\* AggregateHourlyStats adds its hour once more. So the row of the day is what
\* came, less what is pending or was lost, and the hours that were added to it.
HourTotals == [h \in 0..Hour(MaxMinute) |-> HourTotal(h).total]
HourBlocks == [h \in 0..Hour(MaxMinute) |-> HourTotal(h).blocked]
DayCountsTwice ==
  LET hours == SumFunctionOnSet(HourTotals, addedHours)
      blockedHours == SumFunctionOnSet(HourBlocks, addedHours)
  IN /\ hours <= dailyStats.total
     /\ dailyStats.total + pendingTotal <= arrived + hours
     /\ blockedHours <= dailyStats.blocked
     /\ dailyStats.blocked + pendingBlocked + metricEvents <= blocks + blockedHours

\* What is stored of a request: a block has one event at most, through both
\* queues, the batch and the retries (SaveEvent, flushEventBatch); the minutes
\* never hold more than what happened (flushMinuteStats); an hour that was
\* aggregated is final, the sum of its minutes, whenever the process was restarted
\* and whenever the ticker fired (AggregateHourlyStats); and the day holds what
\* happened once and each aggregated hour once more, unless the ticker was served
\* so late that one hour was added twice.
HistoryAddsUp ==
  /\ metricEvents + eventChan + batch + interceptEvents <= blocks
  /\ SumFunction(Totals) + pendingMinute.total + metricEvents <= passed + blocks
  /\ \A h \in DOMAIN hourlyStats : hourlyStats[h] \in {NoCount, HourTotal(h)}
  /\ addedAgain \/ DayCountsTwice
=============================================================================
