------------------------------- MODULE AccessLog -------------------------------
(* The access log (infra/logger/logger.go).  Requests hand their entries to a
   channel; one worker gathers them in a batch, writes the batch to the file,
   which it rotates when it is full, and has it stored in the log database. A
   rotated file is a backup, named by the second of its rotation; a goroutine of
   its own may compress it. Entries are numbered in the order in which the channel
   took them; of a file, its lines are what can be read of it.                 *)
EXTENDS Integers, Sequences, FiniteSets
LOCAL INSTANCE SequencesExt

CONSTANTS
  LogChannel,    \* channelSize
  LogBatch,      \* batchSize
  MaxWriters,    \* cap(writeDBSem)
  Rotations,     \* values of RotationConfig: lines a file may have, backups kept, compression
  MaxEntries,    \* bound: entries in a behaviour
  MaxLogFaults   \* bound: failing calls of the file system or of the database

ASSUME LogAssumption ==
  /\ LogBatch \in Nat \ {0}
  /\ Rotations \subseteq [lines : Nat, backups : Nat, compress : BOOLEAN]

VARIABLES
  accepted,      \* how many entries the channel has taken
  logChan,
  slots, filled,  \* the array behind the worker's batch, and the length of the batch
  logStep,       \* where the worker is
  logFile, currentSize, opened,   \* the file's lines, its size as counted, is it open
  backups,       \* files: name, whether compressed, lines
  rotations, second,   \* how many renamed the file, in how many seconds: the last one's name
  zipping,       \* goroutines that compress a backup
  zipped,        \* history: was there ever one
  rotation,
  useDB,         \* is there a log database
  writers,       \* goroutines that store a batch, reading it from slots
  logRows,       \* entries of the rows of access_logs
  logFaults, logBroken, outdated, logClosed   \* have lines been lost to an error, or removed with a backup

backupVars == <<backups, rotations, second, zipping, zipped, outdated>>
fileVars == <<logFile, currentSize, opened, backupVars>>
logVars == <<accepted, logChan, slots, filled, logStep, fileVars, rotation, useDB, writers, logRows,
             logFaults, logBroken, logClosed>>

LogInit ==
  /\ accepted = 0 /\ logChan = <<>> /\ slots = [i \in 1..LogBatch |-> 0] /\ filled = 0
  /\ logStep = "select" /\ logFile = <<>> /\ currentSize = 0 /\ opened = TRUE
  /\ backups = {} /\ rotations = 0 /\ second = 0 /\ zipping = {} /\ zipped = FALSE
  /\ rotation \in Rotations /\ useDB \in BOOLEAN /\ writers = {} /\ logRows = {}
  /\ logFaults = 0 /\ logBroken = FALSE /\ outdated = FALSE /\ logClosed = FALSE

LogFails == logFaults < MaxLogFaults /\ logFaults' = logFaults + 1
LogWorks == UNCHANGED logFaults

\* A full channel drops the entry; proxies are stopped before the log is closed.
WriteEntry ==
  /\ ~logClosed /\ accepted < MaxEntries /\ Len(logChan) < LogChannel
  /\ accepted' = accepted + 1 /\ logChan' = Append(logChan, accepted')
  /\ UNCHANGED <<useDB, slots, filled, logStep, fileVars, rotation, writers, logRows, logFaults,
                 logBroken, logClosed>>

ReceiveEntry ==
  /\ logStep = "select" /\ logChan # <<>>
  /\ slots' = [slots EXCEPT ![filled + 1] = Head(logChan)] /\ logChan' = Tail(logChan)
  /\ filled' = filled + 1 /\ logStep' = IF filled' = LogBatch THEN "rotate" ELSE "select"
  /\ UNCHANGED <<useDB, accepted, fileVars, rotation, writers, logRows, logFaults, logBroken, logClosed>>

\* The ticker, or the end of the channel.
FlushInterval ==
  /\ logStep = "select" /\ \/ filled > 0 /\ logStep' = "rotate"
                           \/ filled = 0 /\ logClosed /\ logChan = <<>> /\ logStep' = "ended"
  /\ UNCHANGED <<useDB, accepted, logChan, slots, filled, fileVars, rotation, writers, logRows,
                 logFaults, logBroken, logClosed>>

\* A backup was last written to before the next file was begun; a compressed one
\* was written later, before or after the backups that followed it.
Oldest(gone, all) ==
  \A x \in gone, y \in all \ gone :
    y.zip \/ x.name < y.name \/ (x.zip /\ x.name = y.name)

\* What may be left: the latest by the time of their last write, compressed or not.
CleanOldBackups(all) ==
  IF rotation.backups = 0 \/ Cardinality(all) <= rotation.backups THEN {all}
  ELSE {left \in SUBSET all : Cardinality(left) = rotation.backups /\ Oldest(all \ left, all)}

Other(name, zip) == {b \in backups : b.name # name \/ b.zip # zip}
Backup(name, zip, text) == [name |-> name, zip |-> zip, lines |-> text]
Doubled == second < rotations

\* The file is renamed, over a backup of the same second if there is one, or removed
\* if that fails; a file that cannot be opened afresh stays closed until the next
\* rotation.
RotateLog ==
  /\ logStep = "rotate" /\ currentSize + filled > rotation.lines
  /\ \E renamed, reopens, later \in BOOLEAN :
       LET moved == opened /\ renamed
           name == IF later \/ second = 0 THEN second + 1 ELSE second
           all == IF moved THEN Other(name, FALSE) \cup {Backup(name, FALSE, logFile)} ELSE backups
           new == IF moved /\ rotation.compress
                  THEN {[id |-> rotations + 1, name |-> name, at |-> "read", data |-> <<>>]} ELSE {}
       IN /\ IF renamed /\ reopens THEN LogWorks ELSE LogFails
          /\ rotations' = IF moved THEN rotations + 1 ELSE rotations
          /\ second' = IF moved THEN name ELSE second
          /\ zipping' = zipping \cup new /\ zipped' = (zipped \/ new # {})
          /\ backups' \in CleanOldBackups(all) /\ outdated' = (outdated \/ backups' # all)
          /\ logFile' = <<>> /\ opened' = reopens
          /\ currentSize' = IF reopens THEN 0 ELSE currentSize
          /\ logBroken' = (logBroken \/ ~renamed)
  /\ logStep' = "write"
  /\ UNCHANGED <<useDB, accepted, logChan, slots, filled, rotation, writers, logRows, logClosed>>

ZipIsAt(z, at, data) == zipping' = (zipping \ {z}) \cup {[z EXCEPT !.at = at, !.data = data]}
ZipEnds(z) == zipping' = zipping \ {z}

\* What compressFile does: it reads the backup of that name, truncates the compressed
\* file, writes it, and removes whatever has the name of the backup by then. What two
\* of them write to one file may be spoilt.
ReadBackup(z) ==
  /\ z.at = "read" /\ UNCHANGED <<backups, logFaults>>
  /\ \/ \E b \in backups : b.name = z.name /\ ~b.zip /\ ZipIsAt(z, "create", b.lines)
     \/ Other(z.name, FALSE) = backups /\ ZipEnds(z)
CreateCopy(z) ==
  /\ z.at = "create" /\ ZipIsAt(z, "write", z.data) /\ UNCHANGED logFaults
  /\ backups' = Other(z.name, TRUE) \cup {Backup(z.name, TRUE, <<>>)}
WriteCopy(z) ==
  /\ z.at = "write" /\ ZipIsAt(z, "remove", z.data) /\ UNCHANGED logFaults
  /\ \E text \in {z.data} \cup (IF Doubled THEN {<<>>} ELSE {}) :
       backups' = Other(z.name, TRUE)
                    \cup {Backup(z.name, TRUE, text) : b \in backups \ Other(z.name, TRUE)}
RemoveBackup(z) ==
  /\ z.at = "remove" /\ ZipEnds(z) /\ backups' = Other(z.name, FALSE) /\ UNCHANGED logFaults
GiveUp(z) == LogFails /\ ZipEnds(z) /\ UNCHANGED backups

\* No lock is held meanwhile.
CompressFile ==
  /\ \E z \in zipping :
       ReadBackup(z) \/ CreateCopy(z) \/ WriteCopy(z) \/ RemoveBackup(z) \/ GiveUp(z)
  /\ UNCHANGED <<useDB, accepted, logChan, slots, filled, logStep, logFile, currentSize, opened, rotations,
                 second, zipped, rotation, writers, logRows, logBroken, outdated, logClosed>>

NoRotation ==
  /\ logStep = "rotate" /\ currentSize + filled <= rotation.lines /\ logStep' = "write"
  /\ UNCHANGED <<useDB, accepted, logChan, slots, filled, fileVars, rotation, writers, logRows,
                 logFaults, logBroken, logClosed>>

Batch == SubSeq(slots, 1, filled)

WriteLines ==
  /\ logStep = "write" /\ logStep' = "store"
  /\ \/ /\ opened /\ LogWorks /\ logFile' = logFile \o Batch /\ currentSize' = currentSize + filled
        /\ UNCHANGED logBroken
     \/ /\ IF opened THEN LogFails ELSE LogWorks
        /\ logBroken' = TRUE /\ UNCHANGED <<logFile, currentSize>>
  /\ UNCHANGED <<useDB, accepted, logChan, slots, filled, opened, backupVars, rotation, writers, logRows,
                 logClosed>>

FlushedTwice == logStep' = "select" /\ UNCHANGED filled
Flushed == logStep' = "select" /\ filled' = 0

BatchInsertLogs(entries) ==
  \/ LogWorks /\ logRows' = logRows \cup entries
  \/ LogFails /\ UNCHANGED logRows

\* A goroutine stores the batch while the worker fills the same array again; the
\* worker does it itself when there are enough of them.
Store ==
  /\ logStep = "store" /\ Flushed
  /\ \/ ~useDB /\ UNCHANGED <<writers, logRows, logFaults>>
     \/ /\ useDB /\ \E id \in 1..MaxWriters :
             /\ \A w \in writers : w.id # id
             /\ writers' = writers \cup {[id |-> id, rows |-> filled, copied |-> <<>>]}
        /\ UNCHANGED <<logRows, logFaults>>
     \/ /\ useDB /\ \A id \in 1..MaxWriters : \E w \in writers : w.id = id
        /\ BatchInsertLogs({slots[i] : i \in 1..filled}) /\ UNCHANGED writers
  /\ UNCHANGED <<useDB, accepted, logChan, slots, fileVars, rotation, logBroken, logClosed>>

\* A row takes what its slot holds by then.
CopyEntry(w) ==
  /\ Len(w.copied) < w.rows
  /\ writers' = (writers \ {w}) \cup {[w EXCEPT !.copied = Append(@, slots[Len(@) + 1])]}
  /\ UNCHANGED <<logRows, logFaults>>
InsertRows(w) ==
  Len(w.copied) = w.rows /\ BatchInsertLogs(ToSet(w.copied)) /\ writers' = writers \ {w}

WriteToDB ==
  /\ \E w \in writers : CopyEntry(w) \/ InsertRows(w)
  /\ UNCHANGED <<useDB, accepted, logChan, slots, filled, logStep, fileVars, rotation, logBroken, logClosed>>

\* Backups beyond MaxAge, which are the oldest ones.
CleanupOldLogs ==
  /\ ~logClosed /\ \E gone \in SUBSET backups \ {{}} :
                     Oldest(gone, backups) /\ backups' = backups \ gone
  /\ outdated' = TRUE
  /\ UNCHANGED <<useDB, accepted, logChan, slots, filled, logStep, logFile, currentSize, opened, rotations,
                 second, zipping, zipped, rotation, writers, logRows, logFaults, logBroken, logClosed>>

UpdateRotationConfig ==
  /\ rotation' \in Rotations
  /\ UNCHANGED <<useDB, accepted, logChan, slots, filled, logStep, fileVars, writers, logRows, logFaults,
                 logBroken, logClosed>>

\* Close ends the worker, not the goroutines it has started.
Close ==
  /\ ~logClosed /\ logClosed' = TRUE
  /\ UNCHANGED <<useDB, accepted, logChan, slots, filled, logStep, fileVars, rotation, writers, logRows,
                 logFaults, logBroken>>

\* The next start continues the file, and nothing the old process was at.
InitWithRotationAndDB ==
  /\ logStep = "ended" /\ logStep' = "select" /\ logClosed' = FALSE /\ writers' = {} /\ zipping' = {}
  /\ currentSize' = Len(logFile) /\ opened' = TRUE /\ slots' = [i \in 1..LogBatch |-> 0]
  /\ UNCHANGED <<accepted, logChan, filled, logFile, backups, rotations, second, zipped, rotation, useDB,
                 logRows, logFaults, logBroken, outdated>>

LogNext ==
  WriteEntry \/ ReceiveEntry \/ FlushInterval \/ RotateLog \/ NoRotation \/ WriteLines \/ Store \/ WriteToDB
    \/ CompressFile \/ CleanupOldLogs \/ UpdateRotationConfig \/ Close \/ InitWithRotationAndDB

LogSpec == LogInit /\ [][LogNext]_logVars
-------------------------------------------------------------------------------
Unwritten == IF logStep \in {"select", "rotate", "write"} THEN Batch ELSE <<>>

\* The entries after the first so many, up to the last one.
Entries(first, last) == [i \in 1..(last - first) |-> first + i]

Backed(n, files) == \E b \in files : \E i \in 1..Len(b.lines) : b.lines[i] = n

\* Through rotations, compressions, removals of old backups, shutdowns and starts, as
\* long as no call of the file system failed (flushBatch, rotateLog, compressFile):
\* the file and what is on its way to it hold the last entries the channel took, in
\* order and once each; a backup holds a run of those before, and a later backup later
\* ones, a backup and its compressed copy the same. The backups hold all of them until
\* one is removed, or until two rotations fall into one second, of which the second
\* one's file replaces the first one's; and without compression, whose copies are
\* younger than what they are copies of, it is the oldest that go.
FilesKeepOrder ==
  ~logBroken =>
    LET late == logFile \o Unwritten \o logChan
        top == accepted - Len(late)
    IN /\ late = Entries(top, accepted)
       /\ \A b \in backups : \A i \in 1..Len(b.lines) :
            b.lines[i] \in 1..top /\ (i < Len(b.lines) => b.lines[i + 1] = b.lines[i] + 1)
       /\ \A b, c \in backups :
            /\ b.name < c.name =>
                 \A i \in 1..Len(b.lines), j \in 1..Len(c.lines) : b.lines[i] < c.lines[j]
            /\ b.name = c.name => Doubled \/ b.lines = c.lines \/ b.lines = <<>> \/ c.lines = <<>>
       /\ outdated \/ Doubled \/ \A n \in 1..top : Backed(n, backups)
       /\ zipped \/ Doubled \/ \A m, n \in 1..top : m < n /\ Backed(m, backups) => Backed(n, backups)
=============================================================================
