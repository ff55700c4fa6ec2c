----------------------------- MODULE RuleTables -----------------------------
(* What the rule tables of the WAF have in common: rows in the database, and in
   memory what requests are checked against. An operation of the administration
   executes a statement and then loads the whole table and replaces the copy in
   memory, and no lock covers the two. The rule engine (security/rules) loads
   its five lists together; the other managers load one table each: detectors
   (detector), DLP (dlprule), virtual patches (vpatch), bots (bot), request and
   response headers (reqheader, respheader), body limits (pathbodylimit), API schemas
   (apischema) and alerts (infra/notify).

   A rule is in force or is not; its pattern, action and category are left out. *)
EXTENDS FiniteSets, Integers

CONSTANTS
  Operators,        \* goroutines that run operations of the administration
  Rules,            \* identities of rules
  Builtin,          \* those that are inserted at the start, where there are some
  Tools,            \* those whose pattern names an attack tool
  Broken,           \* those whose pattern does not compile
  MaxRuleChanges,   \* bound on operations and loads
  Null              \* no row, nothing read

ASSUME RuleTablesAssumption ==
  /\ Builtin \subseteq Rules /\ Tools \subseteq Rules /\ Broken \subseteq Rules \ Builtin
  /\ MaxRuleChanges \in Nat
  /\ Null \notin BOOLEAN
  /\ Null \notin [enabled : BOOLEAN, state : {"live", "expired", "migrated"}]

VARIABLES
  ruleRows,      \* table -> rule -> Null or its row
  inMemory,      \* table -> rules the requests are checked against
  operation,     \* each goroutine: its step, what it loads and what it has read
  stale,         \* what may differ from its table although nothing is under way
  ruleChanges

tableVars == <<ruleRows, inMemory>>

EngineLists == {"path", "ua", "geo", "methods", "limits"}
Tables == EngineLists \cup
  {"detector", "dlp", "vpatch", "bot", "reqheader", "respheader", "bodylimit", "schema", "alerts"}
LoadedWith(t) == IF t \in EngineLists THEN EngineLists ELSE {t}

Idling == [pc |-> "idle", on |-> {}, alone |-> TRUE, read |-> Null]

\* A row: switched on, and "live", "expired" (a patch) or "migrated" (an agent).
Rule(on) == [enabled |-> on, state |-> "live"]

\* What the load functions keep of a table; countries, methods, schemas and alerts have
\* no pattern to compile.
Usable(t) == IF t \in {"geo", "methods", "schema", "alerts"} THEN Rules ELSE Rules \ Broken
Effective(t, rows) ==
  {r \in Usable(t) : rows[r] # Null /\ rows[r].enabled /\ rows[r].state = "live"}

----------------------------------------------------------------------------
\* At the start the builtin rules that are missing are inserted, of DLP and
\* schemas if there is none of them. One that was switched off stays off.
SeededAnew(t, rows) ==   \* switched on again
  IF t \in {"detector", "path", "ua", "dlp", "schema"}
  THEN [r \in Rules |-> IF r \in Builtin THEN Rule(TRUE) ELSE rows[r]]
  ELSE rows
Seeded(t, rows) ==
  IF \/ t \in {"detector", "path", "ua"}
     \/ t \in {"dlp", "schema"} /\ \A r \in Builtin : rows[r] = Null
  THEN [r \in Rules |-> IF r \in Builtin /\ rows[r] = Null THEN Rule(TRUE) ELSE rows[r]]
  ELSE rows

\* MigrateUABlacklistToBot: agents of attack tools are left to the bot manager.
ToMigrate(rows) == {r \in Tools : rows[r] # Null /\ rows[r].enabled /\ rows[r].state = "live"}
Migrate(rows) ==
  [r \in Rules |-> IF r \in ToMigrate(rows) THEN [enabled |-> FALSE, state |-> "migrated"]
                   ELSE rows[r]]

\* What a start makes of the tables, and what it puts in force: the engine loads
\* first, inserts then, and loads again only if an agent was migrated.
Started(tables) ==
  [t \in Tables |-> IF t = "ua" THEN Migrate(Seeded(t, tables[t])) ELSE Seeded(t, tables[t])]
LoadsAgain(tables) == ToMigrate(Seeded("ua", tables["ua"])) # {}
StartedWith(tables) ==
  [t \in Tables |-> Effective(t, IF t \in EngineLists /\ ~LoadsAgain(tables)
                                 THEN tables[t] ELSE Started(tables)[t])]
Unread(tables) ==
  IF LoadsAgain(tables) THEN {} ELSE {t \in EngineLists : Seeded(t, tables[t]) # tables[t]}

TablesAreNew ==
  LET none == [t \in Tables |-> [r \in Rules |-> Null]] IN
  /\ ruleRows = Started(none) /\ inMemory = StartedWith(none) /\ stale = Unread(none)
  /\ operation = [o \in Operators |-> Idling] /\ ruleChanges = 0

TablesRestart ==
  /\ ruleRows' = Started(ruleRows) /\ inMemory' = StartedWith(ruleRows)
  /\ stale' = Unread(ruleRows)
  /\ operation' = [o \in Operators |-> Idling]
  /\ UNCHANGED ruleChanges

----------------------------------------------------------------------------
OperationAt(o, pc) == operation[o].pc = pc
Continue(o, step) == operation' = [operation EXCEPT ![o] = step]

\* An operation on some things begins at a step; those on the same things that
\* are under way, and itself then, are no longer alone.
Starts(o, pc, on, read) ==
  LET others == {p \in Operators \ {o} : operation[p].on \cap on # {}} IN
  /\ OperationAt(o, "idle")
  /\ ruleChanges < MaxRuleChanges /\ ruleChanges' = ruleChanges + 1
  /\ operation' = [p \in Operators |->
       IF p = o THEN [pc |-> pc, on |-> on, alone |-> others = {}, read |-> read]
       ELSE IF p \in others THEN [operation[p] EXCEPT !.alone = FALSE] ELSE operation[p]]

Exists(t, r) == ruleRows[t][r] # Null
Row(t, r) == ruleRows[t][r]
Custom == Rules \ Builtin

\* Its statement changes the rows of a table, and the table is to be loaded.
WriteRows(o, t, rows) ==
  /\ Starts(o, "load", LoadedWith(t), Null)
  /\ ruleRows' = [ruleRows EXCEPT ![t] = rows]
  /\ UNCHANGED <<inMemory, stale>>
Write(o, t, r, row) == WriteRows(o, t, [ruleRows[t] EXCEPT ![r] = row])

\* UPDATE ... SET enabled = ?, and a statement that finds the row there or not.
Switched(t, r, on) == IF Exists(t, r) THEN [Row(t, r) EXCEPT !.enabled = on] ELSE Null
Kept(t, r, row) == IF Exists(t, r) THEN Row(t, r) ELSE row

\* The statement is all there is: memory follows when something else loads.
WriteOnly(o, t, r, row) ==
  /\ OperationAt(o, "idle")
  /\ ruleChanges < MaxRuleChanges /\ ruleChanges' = ruleChanges + 1
  /\ operation' = [p \in Operators |->
       IF t \in operation[p].on THEN [operation[p] EXCEPT !.alone = FALSE] ELSE operation[p]]
  /\ ruleRows' = [ruleRows EXCEPT ![t][r] = row]
  /\ stale' = stale \cup {t}
  /\ UNCHANGED inMemory

\* SIGHUP loads each table but that of the detectors, one after the other; the
\* ticker loads the engine's lists.
Reload(o, t) ==
  /\ t # "detector"
  /\ Starts(o, "load", LoadedWith(t), Null)
  /\ UNCHANGED <<tableVars, stale>>

\* The queries of one load are one step here. One that fails leaves memory as it
\* is; of the engine's, it leaves its list empty.
LoadRules(o) ==
  LET on == operation[o].on
      read == [t \in on |-> Effective(t, ruleRows[t])]
  IN
  /\ OperationAt(o, "load")
  /\ \/ /\ Continue(o, [operation[o] EXCEPT !.pc = "store", !.read = read])
        /\ UNCHANGED stale
     \/ /\ on \cap EngineLists = {}
        /\ Continue(o, Idling) /\ stale' = stale \cup on
     \/ /\ \E t \in on \cap EngineLists :
             Continue(o, [operation[o] EXCEPT !.pc = "store", !.alone = FALSE,
                                              !.read = [read EXCEPT ![t] = {}]])
        /\ UNCHANGED stale
  /\ UNCHANGED <<tableVars, ruleChanges>>

StoreRules(o) ==
  LET on == operation[o].on IN
  /\ OperationAt(o, "store")
  /\ inMemory' = [t \in Tables |-> IF t \in on THEN operation[o].read[t] ELSE inMemory[t]]
  /\ stale' = IF operation[o].alone THEN stale \ on ELSE stale \cup on
  /\ Continue(o, Idling)
  /\ UNCHANGED <<ruleRows, ruleChanges>>

----------------------------------------------------------------------------
\* A start may change what is in force of these: patches that have expired since
\* they were loaded, agents of attack tools, and builtin rules that were deleted.
StartChanges(t) ==
  CASE t = "vpatch" -> {r \in Rules : Exists(t, r) /\ Row(t, r).state = "expired"}
    [] t = "ua"     -> Tools \cup {r \in Builtin : ~Exists(t, r)}
    [] t = "path"   -> {r \in Builtin : ~Exists(t, r)}
    [] OTHER        -> {}

TablesAreInForce ==
  \A t \in Tables \ stale :
    StartedWith(ruleRows)[t] \ StartChanges(t) = inMemory[t] \ StartChanges(t)
=============================================================================
