---------------------------- MODULE SecurityRules ----------------------------
(* The operations of the managers that keep rules beside the rule engine:
   detectors (detector/config.go), DLP (dlprule), virtual patches (vpatch), bots
   (bot), headers (reqheader, respheader), body limits (pathbodylimit) and API
   schemas (apischema).

   Two things of bots are kept apart: the overrides of a known bot, a row of two
   nullable columns that is looked up before it is inserted or updated, and the
   policy of a category, which is written to the table and then to memory.    *)
EXTENDS EngineRules

CONSTANTS
  Policies,         \* actions of a category
  DefaultPolicy

Columns == {"whitelisted", "enabled"}

ASSUME SecurityRulesAssumption ==
  /\ DefaultPolicy \in Policies /\ Null \notin Policies
  /\ Null \notin [Columns -> BOOLEAN \cup {Null}]

VARIABLES
  overrideRow,   \* bot_known_overrides of a known bot
  knownBot,      \* whitelisted and enabled of that bot in memory
  policyRow,     \* bot_policy of a category
  policy,        \* the same in memory
  written        \* the last value a statement wrote to each column of the override

botVars == <<overrideRow, knownBot, policyRow, policy, written>>

DefaultBot == [c \in Columns |-> TRUE]

\* applyOverridesLocked: the default, unless a column has a value.
Overridden(row) ==
  [c \in Columns |-> IF row # Null /\ row[c] # Null THEN row[c] ELSE DefaultBot[c]]
\* loadPolicies: the default, unless there is a row.
PolicyOf(row) == IF row = Null THEN DefaultPolicy ELSE row

BotsInit ==
  /\ overrideRow = Null /\ knownBot = DefaultBot
  /\ policyRow = Null /\ policy = DefaultPolicy
  /\ written = [c \in Columns |-> Null]

----------------------------------------------------------------------------
\* dlprule: builtin rules can only be switched; deleting nothing is an error.
AddDLPRule(o, r) == r \in Custom /\ ~Exists("dlp", r) /\ \E on \in BOOLEAN : Write(o, "dlp", r, Rule(on))
UpdateDLPRule(o, r) ==
  \E on \in BOOLEAN : Write(o, "dlp", r, IF r \in Custom THEN Switched("dlp", r, on) ELSE Row("dlp", r))
DeleteDLPRule(o, r) == r \in Custom /\ Exists("dlp", r) /\ Write(o, "dlp", r, Null)
ToggleDLPRule(o, r) == \E on \in BOOLEAN : Write(o, "dlp", r, Switched("dlp", r, on))

\* apischema, in the same way
AddSchema(o, r) == r \in Custom /\ ~Exists("schema", r) /\ \E on \in BOOLEAN : Write(o, "schema", r, Rule(on))
UpdateSchema(o, r) ==
  \E on \in BOOLEAN :
    Write(o, "schema", r, IF r \in Custom THEN Switched("schema", r, on) ELSE Row("schema", r))
DeleteSchema(o, r) == r \in Custom /\ Exists("schema", r) /\ Write(o, "schema", r, Null)
ToggleSchema(o, r) == \E on \in BOOLEAN : Write(o, "schema", r, Switched("schema", r, on))

\* reqheader, respheader and pathbodylimit; a row gets a new number.
AddRequestHeader(o, r) == ~Exists("reqheader", r) /\ \E on \in BOOLEAN : Write(o, "reqheader", r, Rule(on))
UpdateRequestHeader(o, r) == \E on \in BOOLEAN : Write(o, "reqheader", r, Switched("reqheader", r, on))
DeleteRequestHeader(o, r) == Write(o, "reqheader", r, Null)
ToggleRequestHeader(o, r) == \E on \in BOOLEAN : Write(o, "reqheader", r, Switched("reqheader", r, on))

AddResponseHeader(o, r) == ~Exists("respheader", r) /\ \E on \in BOOLEAN : Write(o, "respheader", r, Rule(on))
UpdateResponseHeader(o, r) == \E on \in BOOLEAN : Write(o, "respheader", r, Switched("respheader", r, on))
DeleteResponseHeader(o, r) == Write(o, "respheader", r, Null)
ToggleResponseHeader(o, r) == \E on \in BOOLEAN : Write(o, "respheader", r, Switched("respheader", r, on))

AddBodyLimit(o, r) == ~Exists("bodylimit", r) /\ \E on \in BOOLEAN : Write(o, "bodylimit", r, Rule(on))
UpdateBodyLimit(o, r) == \E on \in BOOLEAN : Write(o, "bodylimit", r, Switched("bodylimit", r, on))
DeleteBodyLimit(o, r) == Write(o, "bodylimit", r, Null)

\* vpatch: a patch for a CVE that has one is ignored, and the table is loaded.
AddPatch(o, r) == \E on \in BOOLEAN : Write(o, "vpatch", r, Kept("vpatch", r, Rule(on)))
DeletePatch(o, r) == Write(o, "vpatch", r, Null)
TogglePatch(o, r) == \E on \in BOOLEAN : Write(o, "vpatch", r, Switched("vpatch", r, on))

\* A patch reaches its expires_at, and within the hour its row is deleted.
Outdated(r) == Exists("vpatch", r) /\ Row("vpatch", r).state = "expired"
ExpirePatch(r) ==
  /\ Exists("vpatch", r) /\ ~Outdated(r)
  /\ ruleRows' = [ruleRows EXCEPT !["vpatch"][r].state = "expired"]
  /\ UNCHANGED <<inMemory, operation, stale, ruleChanges>>
CleanupPatches(o) ==
  /\ \E r \in Rules : Outdated(r)
  /\ WriteRows(o, "vpatch", [r \in Rules |-> IF Outdated(r) THEN Null ELSE Row("vpatch", r)])

\* bot: names are unique and patterns are compiled first; a rule that is not
\* there is an error, but for several at once.
AddBotRule(o, r) == ~Exists("bot", r) /\ r \notin Broken /\ Write(o, "bot", r, Rule(TRUE))
UpdateBotRule(o, r) ==
  Exists("bot", r) /\ r \notin Broken /\ \E on \in BOOLEAN : Write(o, "bot", r, Rule(on))
DeleteBotRule(o, r) == Exists("bot", r) /\ Write(o, "bot", r, Null)
ToggleEnabled(o, r) == Exists("bot", r) /\ \E on \in BOOLEAN : Write(o, "bot", r, Rule(on))
BatchDelete(o, rs) == WriteRows(o, "bot", [r \in Rules |-> IF r \in rs THEN Null ELSE Row("bot", r)])
BatchToggleEnabled(o, rs) ==
  \E on \in BOOLEAN :
    WriteRows(o, "bot", [r \in Rules |-> IF r \in rs THEN Switched("bot", r, on) ELSE Row("bot", r)])

\* detector: builtin rules can only be switched, a known pattern is ignored.
AddCustomRule(o, r) == Write(o, "detector", r, Kept("detector", r, Rule(TRUE)))
RemoveRule(o, r) == r \in Custom /\ Exists("detector", r) /\ Write(o, "detector", r, Null)
ToggleRule(o, r) == Exists("detector", r) /\ \E on \in BOOLEAN : Write(o, "detector", r, Rule(on))

----------------------------------------------------------------------------
\* UpdateKnownBotOverride: either column or both; the row is looked up first.
LookUpOverride(o) ==
  /\ \E cs \in SUBSET Columns \ {{}}, on \in BOOLEAN :
       Starts(o, IF overrideRow = Null THEN "insert" ELSE "update", {"override"},
              [columns |-> cs, value |-> on])
  /\ UNCHANGED <<tableVars, stale, botVars>>

\* The name is the primary key: an INSERT that comes second fails, as any may.
InsertsOverride(o) ==
  LET asked == operation[o].read IN
  /\ overrideRow' = [c \in Columns |-> IF c \in asked.columns THEN asked.value ELSE Null]
  /\ written' = [c \in Columns |-> IF c \in asked.columns THEN asked.value ELSE written[c]]
  /\ Continue(o, [operation[o] EXCEPT !.pc = "loadOverrides"])
  /\ UNCHANGED <<tableVars, stale, ruleChanges, knownBot, policyRow, policy>>
ReplaceOverride(o) == OperationAt(o, "insert") /\ InsertsOverride(o)
InsertOverride(o) ==
  /\ OperationAt(o, "insert")
  /\ \/ overrideRow = Null /\ InsertsOverride(o)
     \/ Continue(o, Idling) /\ UNCHANGED <<tableVars, stale, ruleChanges, botVars>>

\* One statement for each column, whitelisted first; one that fails ends the
\* call, and what was written before it is not loaded.
UpdatesColumn(o) ==
  LET asked == operation[o].read
      c == IF "whitelisted" \in asked.columns THEN "whitelisted" ELSE "enabled"
  IN
  /\ overrideRow' = [overrideRow EXCEPT ![c] = asked.value]
  /\ written' = [written EXCEPT ![c] = asked.value]
  /\ Continue(o, IF asked.columns = {c} THEN [operation[o] EXCEPT !.pc = "loadOverrides"]
                 ELSE [operation[o] EXCEPT !.read.columns = @ \ {c}])
  /\ UNCHANGED <<tableVars, stale, ruleChanges, knownBot, policyRow, policy>>
UpdateOverride(o) ==
  /\ OperationAt(o, "update")
  /\ \/ UpdatesColumn(o)
     \/ /\ Continue(o, Idling) /\ stale' = stale \cup {"override"}
        /\ UNCHANGED <<tableVars, ruleChanges, botVars>>

\* loadOverrides, after an override or SIGHUP; a query that fails changes nothing.
ReloadOverrides(o) ==
  Starts(o, "loadOverrides", {"override"}, Null) /\ UNCHANGED <<tableVars, stale, botVars>>
LoadOverrides(o) ==
  /\ OperationAt(o, "loadOverrides")
  /\ \/ /\ Continue(o, [operation[o] EXCEPT !.pc = "storeOverrides", !.read = overrideRow])
        /\ UNCHANGED stale
     \/ Continue(o, Idling) /\ stale' = stale \cup {"override"}
  /\ UNCHANGED <<tableVars, ruleChanges, botVars>>
StoreOverrides(o) ==
  /\ OperationAt(o, "storeOverrides")
  /\ knownBot' = Overridden(operation[o].read)
  /\ stale' = IF operation[o].alone THEN stale \ {"override"} ELSE stale \cup {"override"}
  /\ Continue(o, Idling)
  /\ UNCHANGED <<tableVars, ruleChanges, overrideRow, policyRow, policy, written>>

\* SetPolicy: the table, then memory. SIGHUP reads the table.
WritePolicy(o) ==
  \E p \in Policies :
    /\ Starts(o, "storePolicy", {"policy"}, p)
    /\ policyRow' = p
    /\ UNCHANGED <<tableVars, stale, overrideRow, knownBot, policy, written>>
ReloadPolicies(o) ==
  /\ Starts(o, "storePolicy", {"policy"}, PolicyOf(policyRow))
  /\ UNCHANGED <<tableVars, stale, botVars>>
ApplyPolicy(o) ==
  /\ OperationAt(o, "storePolicy")
  /\ policy' = operation[o].read
  /\ stale' = IF operation[o].alone THEN stale \ {"policy"} ELSE stale \cup {"policy"}
  /\ Continue(o, Idling)
  /\ UNCHANGED <<tableVars, ruleChanges, overrideRow, knownBot, policyRow, written>>

----------------------------------------------------------------------------
\* Two administrators who override different columns of the same known bot at
\* the same time do not undo each other: a column holds the value that was
\* written to it last (UpdateKnownBotOverride).
NoOverrideIsLost ==
  \A c \in Columns : (IF overrideRow = Null THEN Null ELSE overrideRow[c]) = written[c]
=============================================================================
