--------------------------- MODULE RulesAPI_proofs ---------------------------
(* The rule managers, all of them at once: an operation executes its statement and
   then loads, and no lock covers the two. Each operation notes whether it was
   alone on what it works on; what was not is stale when it ends.              *)
EXTENDS RulesAPI, TLAPS

-----------------------------------------------------------------------------
\* The fields of an operation and, for each kind of thing, its steps.
Fields == {"pc", "on", "alone", "read"}
TableSteps    == {"load", "store"}
OverrideSteps == {"insert", "update", "loadOverrides", "storeOverrides"}
PolicySteps   == {"storePolicy"}
SettingsSteps == {"applyEnabled", "applyObserved"}
MailSteps     == {"saveMail", "storeMail"}

\* An operation is at a step that fits what it works on.
StepFits(s) ==
  /\ DOMAIN s = Fields
  /\ s.pc \in {"idle"} \cup TableSteps \cup OverrideSteps \cup PolicySteps \cup SettingsSteps \cup MailSteps
  /\ s.pc = "idle" => s.on = {}
  /\ s.pc \in TableSteps => s.on \subseteq Tables
  /\ s.pc \in OverrideSteps => s.on = {"override"}
  /\ s.pc \in PolicySteps => s.on = {"policy"}
  /\ s.pc \in SettingsSteps => s.on = {"settings"}
  /\ s.pc \in MailSteps => s.on = {"mail"}

\* Every goroutine is at such a step.
Steps == DOMAIN operation = Operators /\ \A o \in Operators : StepFits(operation[o])

\* Nobody else works on what an operation that is alone works on.
Solo == \A o, p \in Operators :
  o # p /\ operation[o].alone => operation[o].on \cap operation[p].on = {}

\* The other goroutines stay where they are, and may lose being alone.
Others(o) ==
  /\ DOMAIN operation' = Operators
  /\ \A p \in Operators \ {o} :
       /\ DOMAIN operation'[p] = DOMAIN operation[p]
       /\ operation'[p].pc = operation[p].pc /\ operation'[p].on = operation[p].on
       /\ operation'[p].read = operation[p].read
       /\ operation'[p].alone => operation[p].alone

\* A step of one goroutine after which those alone still are.
TakesStep(o) ==
  /\ Others(o) /\ StepFits(operation'[o])
  /\ \A p \in Operators \ {o} :
       operation'[o].alone \/ operation'[p].alone => operation'[o].on \cap operation[p].on = {}

\* The operations at some steps stay as they are, and none comes to them.
Same(pcs) == \A p \in Operators :
  operation[p].pc \in pcs \/ operation'[p].pc \in pcs =>
    /\ operation'[p].pc = operation[p].pc /\ operation'[p].on = operation[p].on
    /\ operation'[p].read = operation[p].read
    /\ operation'[p].alone => operation[p].alone

\* A step of one goroutine keeps the bookkeeping of who is alone.
LEMMA StepsGoOn ==
  ASSUME Steps, Solo, NEW o \in Operators, TakesStep(o)
  PROVE  Steps' /\ Solo'
<1>1. Steps'
  <2>1. ASSUME NEW p \in Operators \ {o} PROVE StepFits(operation'[p])
    BY DEF Steps, TakesStep, Others, StepFits
  <2> QED BY <2>1 DEF Steps, TakesStep, Others
<1>2. Solo'
  <2> SUFFICES ASSUME NEW q \in Operators, NEW p \in Operators, q # p, operation'[q].alone
               PROVE  operation'[q].on \cap operation'[p].on = {}
    BY DEF Solo
  <2>1. CASE q = o
    BY <2>1 DEF TakesStep, Others
  <2>2. CASE p = o
    BY <2>2 DEF TakesStep, Others
  <2>3. CASE q # o /\ p # o
    BY <2>3 DEF TakesStep, Others, Solo
  <2> QED BY <2>1, <2>2, <2>3
<1> QED BY <1>1, <1>2

\* A step of one kind leaves the operations at the other kinds alone.
LEMMA StepElsewhere ==
  ASSUME NEW o \in Operators, TakesStep(o), NEW pcs,
         operation[o].pc \notin pcs, operation'[o].pc \notin pcs
  PROVE  Same(pcs)
  BY DEF TakesStep, Others, Same

\* What the beginning of an operation makes of all of them.
LEMMA Starting ==
  ASSUME Steps, NEW o \in Operators, NEW pc, NEW on, NEW read, Starts(o, pc, on, read)
  PROVE  /\ operation[o].pc = "idle"
         /\ Others(o)
         /\ DOMAIN operation'[o] = Fields
         /\ operation'[o].pc = pc /\ operation'[o].on = on /\ operation'[o].read = read
         /\ \A p \in Operators \ {o} :
              operation'[o].alone \/ operation'[p].alone => on \cap operation[p].on = {}
<1> DEFINE others == {p \in Operators \ {o} : operation[p].on \cap on # {}}
<1>1. /\ operation[o].pc = "idle"
      /\ operation' = [p \in Operators |->
           IF p = o THEN [pc |-> pc, on |-> on, alone |-> others = {}, read |-> read]
           ELSE IF p \in others THEN [operation[p] EXCEPT !.alone = FALSE] ELSE operation[p]]
  BY DEF Starts, OperationAt
<1>2. operation'[o] = [pc |-> pc, on |-> on, alone |-> others = {}, read |-> read]
  BY <1>1
<1>3. ASSUME NEW p \in Operators \ {o}
      PROVE  operation'[p] = IF p \in others THEN [operation[p] EXCEPT !.alone = FALSE] ELSE operation[p]
  BY <1>1
<1>4. /\ DOMAIN operation'[o] = Fields
      /\ operation'[o].pc = pc /\ operation'[o].on = on /\ operation'[o].read = read
  BY <1>2 DEF Fields
<1>5. operation'[o].alone => others = {}
  <2> DEFINE none == others = {}
  <2>1. operation'[o] = [pc |-> pc, on |-> on, alone |-> none, read |-> read]
    BY <1>2
  <2> HIDE DEF none
  <2>2. operation'[o].alone => none
    BY <2>1
  <2> QED BY <2>2 DEF none
<1>6. ASSUME NEW p \in Operators \ {o}
      PROVE  /\ DOMAIN operation'[p] = DOMAIN operation[p]
             /\ operation'[p].pc = operation[p].pc /\ operation'[p].on = operation[p].on
             /\ operation'[p].read = operation[p].read
             /\ operation'[p].alone => operation[p].alone /\ p \notin others
  <2>1. DOMAIN operation[p] = Fields
    BY DEF Steps, StepFits
  <2>2. CASE p \in others
    <3>1. operation'[p] = [operation[p] EXCEPT !.alone = FALSE]
      BY <1>3, <2>2
    <3> QED BY <2>1, <3>1 DEF Fields
  <2>3. CASE p \notin others
    BY <1>3, <2>3
  <2> QED BY <2>2, <2>3
<1>7. DOMAIN operation' = Operators
  BY <1>1
<1>8. \A p \in Operators \ {o} : p \notin others => on \cap operation[p].on = {}
  OBVIOUS
<1> HIDE DEF others
<1>9. \A p \in Operators \ {o} :
        operation'[o].alone \/ operation'[p].alone => on \cap operation[p].on = {}
  BY <1>5, <1>6, <1>8
<1> QED
  BY <1>1, <1>4, <1>6, <1>7, <1>9 DEF Others

\* An operation that begins with the steps of what it works on fits.
LEMMA StartingFits ==
  ASSUME Steps, NEW o \in Operators, NEW pc, NEW on, NEW read, Starts(o, pc, on, read),
         \/ pc \in TableSteps /\ on \subseteq Tables
         \/ pc \in OverrideSteps /\ on = {"override"}
         \/ pc \in PolicySteps /\ on = {"policy"}
         \/ pc \in SettingsSteps /\ on = {"settings"}
         \/ pc \in MailSteps /\ on = {"mail"}
  PROVE  TakesStep(o)
<1>1. StepFits(operation'[o])
  BY Starting DEF StepFits, TableSteps, OverrideSteps, PolicySteps, SettingsSteps, MailSteps
<1> QED BY <1>1, Starting DEF TakesStep

\* An operation that goes on with what it works on, or ends, takes a step.
LEMMA Continuing ==
  ASSUME Steps, Solo, NEW o \in Operators, NEW step, Continue(o, step), StepFits(step),
         step.on = operation[o].on \/ step.on = {},
         step.alone => operation[o].alone \/ step.on = {}
  PROVE  TakesStep(o) /\ operation'[o] = step
<1>1. operation'[o] = step /\ DOMAIN operation' = Operators
  BY DEF Continue, Steps
<1>2. \A p \in Operators \ {o} : operation'[p] = operation[p]
  BY DEF Continue, Steps
<1>3. Others(o)
  BY <1>1, <1>2 DEF Others
<1>4. \A p \in Operators \ {o} :
       operation'[o].alone \/ operation'[p].alone => operation'[o].on \cap operation[p].on = {}
  <2> SUFFICES ASSUME NEW p \in Operators \ {o}, step.alone \/ operation[p].alone
               PROVE  step.on \cap operation[p].on = {}
    BY <1>1, <1>2
  <2>1. operation[o].alone => operation[o].on \cap operation[p].on = {}
    BY DEF Solo
  <2>2. operation[p].alone => operation[p].on \cap operation[o].on = {}
    BY DEF Solo
  <2> QED BY <2>1, <2>2
<1> QED BY <1>1, <1>3, <1>4 DEF TakesStep

\* So does one that ends.
LEMMA Ending ==
  ASSUME Steps, Solo, NEW o \in Operators, Continue(o, Idling)
  PROVE  TakesStep(o) /\ operation'[o].pc = "idle" /\ operation'[o].on = {}
<1>1. Idling.pc = "idle" /\ Idling.on = {} /\ StepFits(Idling)
  BY DEF Idling, StepFits, Fields, TableSteps, OverrideSteps, PolicySteps, SettingsSteps, MailSteps
<1> QED BY <1>1, Continuing

-----------------------------------------------------------------------------
\* The policy in memory is that of the table, unless an operation on it is under
\* way or it was left stale; what an operation that is alone has read is still in
\* the table.
PoliciesAgree ==
  /\ "policy" \in stale \/ policy = PolicyOf(policyRow)
     \/ \E o \in Operators : operation[o].pc \in PolicySteps
  /\ \A o \in Operators : operation[o].pc \in PolicySteps /\ operation[o].alone =>
       operation[o].read = PolicyOf(policyRow)

\* The same of the settings of a detector, which are applied in two steps; a
\* toggle leaves the second one as it was.
SettingsAgree ==
  /\ detectorRow \in [on : BOOLEAN, observed : BOOLEAN]
  /\ DOMAIN detectorLive = {"on", "observed"}
  /\ "settings" \in stale \/ detectorLive = detectorRow
     \/ \E o \in Operators : operation[o].pc \in SettingsSteps
  /\ \A o \in Operators : operation[o].pc \in SettingsSteps /\ operation[o].alone =>
       LET read == operation[o].read IN
       /\ operation[o].pc = "applyEnabled" =>
            /\ read.on = detectorRow.on
            /\ \/ read.observed = detectorRow.observed
               \/ /\ read.observed = Null
                  /\ "settings" \in stale \/ detectorLive.observed = detectorRow.observed
       /\ operation[o].pc = "applyObserved" =>
            read.observed = detectorRow.observed /\ detectorLive.on = detectorRow.on

\* The same of the mail account, from the moment its row is written.
MailAgrees ==
  /\ "mail" \in stale \/ PasswordIsKept
     \/ \E o \in Operators : operation[o].pc = "storeMail"
  /\ \A o \in Operators : operation[o].pc = "storeMail" /\ operation[o].alone =>
       operation[o].read = mailRow

\* What a known bot may have in its table.
OverrideRows == [Columns -> BOOLEAN \cup {Null}] \cup {Null}

\* The same of the overrides of a known bot. A row that is about to be updated is
\* there, since nothing deletes it.
OverridesAgree ==
  /\ overrideRow \in OverrideRows /\ DOMAIN written = Columns
  /\ \A o \in Operators : operation[o].pc \in {"insert", "update"} =>
       operation[o].read \in [columns : SUBSET Columns, value : BOOLEAN]
  /\ \A o \in Operators : operation[o].pc = "update" => overrideRow # Null
  /\ NoOverrideIsLost
  /\ "override" \in stale \/ knownBot = Overridden(overrideRow)
     \/ \E o \in Operators : operation[o].pc \in OverrideSteps \ {"insert"}
  /\ \A o \in Operators : operation[o].pc = "storeOverrides" /\ operation[o].alone =>
       operation[o].read = overrideRow

\* What does not touch the policies keeps them in agreement.
LEMMA PoliciesElsewhere ==
  ASSUME PoliciesAgree, Same(PolicySteps), UNCHANGED <<policy, policyRow>>,
         "policy" \in stale => "policy" \in stale'
  PROVE  PoliciesAgree'
  BY DEF PoliciesAgree, Same, PolicySteps, PolicyOf

\* The same of the settings.
LEMMA SettingsElsewhere ==
  ASSUME SettingsAgree, Same(SettingsSteps), UNCHANGED detectorVars,
         "settings" \in stale => "settings" \in stale'
  PROVE  SettingsAgree'
<1>1. detectorRow' = detectorRow /\ detectorLive' = detectorLive
  BY DEF detectorVars
<1> QED BY <1>1 DEF SettingsAgree, Same, SettingsSteps

\* The same of the mail account.
LEMMA MailElsewhere ==
  ASSUME MailAgrees, Same(MailSteps), UNCHANGED notificationVars,
         "mail" \in stale => "mail" \in stale'
  PROVE  MailAgrees'
<1>1. UNCHANGED <<keyIsSet, mailRow, mailPassword, mailGiven>>
  BY DEF notificationVars
<1> QED BY <1>1 DEF MailAgrees, Same, MailSteps, PasswordIsKept

\* The same of the overrides.
LEMMA OverridesElsewhere ==
  ASSUME OverridesAgree, Same(OverrideSteps), UNCHANGED <<overrideRow, knownBot, written>>,
         "override" \in stale => "override" \in stale'
  PROVE  OverridesAgree'
<1>1. NoOverrideIsLost'
  BY DEF OverridesAgree, NoOverrideIsLost
<1>2. \A o \in Operators : operation'[o].pc \in OverrideSteps =>
        operation'[o].pc = operation[o].pc /\ operation'[o].read = operation[o].read
        /\ (operation'[o].alone => operation[o].alone)
  BY DEF Same
<1>3. \A o \in Operators : operation[o].pc \in OverrideSteps => operation'[o].pc = operation[o].pc
  BY DEF Same
<1>4. "override" \in stale' \/ knownBot' = Overridden(overrideRow)'
     \/ \E o \in Operators : operation'[o].pc \in OverrideSteps \ {"insert"}
  <2>1. Overridden(overrideRow)' = Overridden(overrideRow)
    BY DEF Overridden
  <2> QED BY <1>3, <2>1 DEF OverridesAgree
<1> QED BY <1>1, <1>2, <1>4 DEF OverridesAgree, OverrideSteps

-----------------------------------------------------------------------------
\* What a table may have of a rule.
RuleForm == [enabled : BOOLEAN, state : {"live", "expired", "migrated"}]
MaybeRow == RuleForm \cup {Null}

\* Tables whose builtin rules cannot be deleted.
Lasting == {"detector", "dlp", "schema"}

\* A set of rules is what the table puts in force, but for what a start may
\* change.
Agrees(t, rules) ==
  Effective(t, ruleRows[t]) \ StartChanges(t) = rules \ StartChanges(t)

\* Every table is in agreement with memory, unless an operation on it is under
\* way or it was left stale; what an operation that is alone has read is still
\* what the table says; and builtin rules that cannot be deleted are there.
TablesAgree ==
  /\ ruleRows \in [Tables -> [Rules -> MaybeRow]]
  /\ \A t \in Lasting, r \in Builtin : ruleRows[t][r] # Null
  /\ \A t \in Tables :
       t \in stale \/ Agrees(t, inMemory[t]) \/ \E o \in Operators : t \in operation[o].on
  /\ \A o \in Operators : operation[o].pc = "store" /\ operation[o].alone =>
       \A t \in operation[o].on : Agrees(t, operation[o].read[t])

\* Rows that a statement may leave.
Fits(t, rows) ==
  /\ t \in Tables /\ rows \in [Rules -> MaybeRow]
  /\ t \in Lasting => \A r \in Builtin : rows[r] # Null

\* A statement of some operation: of one table that is loaded then, of one that
\* is not, or the clock.
Writes(o) ==
  \/ \E t \in Tables, rows \in [Rules -> MaybeRow] : Fits(t, rows) /\ WriteRows(o, t, rows)
  \/ \E t \in {"methods", "limits"}, r \in Rules, row \in MaybeRow : WriteOnly(o, t, r, row)
  \/ \E r \in Rules : ExpirePatch(r)

\* Who works on a table is loading it.
LEMMA OnTables ==
  ASSUME Steps, NEW o \in Operators, NEW t \in Tables, t \in operation[o].on
  PROVE  operation[o].pc \in TableSteps
  BY DEF Steps, StepFits, Tables, EngineLists, PolicySteps, OverrideSteps, SettingsSteps, MailSteps

\* What does not touch the tables keeps them in agreement.
LEMMA TablesElsewhere ==
  ASSUME TablesAgree, Steps, Same(TableSteps), UNCHANGED tableVars,
         \A t \in Tables : t \in stale => t \in stale'
  PROVE  TablesAgree'
<1>1. ruleRows' = ruleRows /\ inMemory' = inMemory
  BY DEF tableVars
<1>2. \A t, rules : Agrees(t, rules)' <=> Agrees(t, rules')
  BY <1>1 DEF Agrees, StartChanges, Exists, Row, Effective, Usable
<1>3. ASSUME NEW t \in Tables
      PROVE  t \in stale' \/ Agrees(t, inMemory'[t]) \/ \E o \in Operators : t \in operation'[o].on
  <2>1. ASSUME NEW o \in Operators, t \in operation[o].on PROVE t \in operation'[o].on
    BY <2>1, OnTables DEF Same
  <2> QED BY <1>1, <2>1 DEF TablesAgree
<1>4. \A o \in Operators : operation'[o].pc = "store" =>
        /\ operation[o].pc = "store" /\ operation'[o].on = operation[o].on
        /\ operation'[o].read = operation[o].read /\ (operation'[o].alone => operation[o].alone)
  BY DEF Same, TableSteps
<1> QED BY <1>1, <1>2, <1>3, <1>4 DEF TablesAgree

\* A table is loaded with itself, and with others at most.
LEMMA LoadedWithIt ==
  ASSUME NEW t \in Tables PROVE t \in LoadedWith(t) /\ LoadedWith(t) \subseteq Tables
  BY DEF LoadedWith, Tables

\* A statement whose table is loaded next puts the table under way.
LEMMA WriteRowsAgree ==
  ASSUME TablesAgree, Steps, NEW o \in Operators, NEW t, NEW rows,
         Fits(t, rows), WriteRows(o, t, rows)
  PROVE  TakesStep(o) /\ operation[o].pc = "idle" /\ operation'[o].pc \in TableSteps /\ TablesAgree'
<1>1. /\ Starts(o, "load", LoadedWith(t), Null)
      /\ ruleRows' = [ruleRows EXCEPT ![t] = rows] /\ inMemory' = inMemory /\ stale' = stale
  BY DEF WriteRows
<1>2. t \in LoadedWith(t) /\ LoadedWith(t) \subseteq Tables
  BY LoadedWithIt DEF Fits
<1>3. TakesStep(o)
  BY <1>1, <1>2, StartingFits DEF TableSteps
<1>4. /\ operation[o].pc = "idle" /\ operation'[o].pc = "load" /\ operation'[o].on = LoadedWith(t)
      /\ Others(o)
      /\ \A p \in Operators \ {o} : operation'[p].alone => LoadedWith(t) \cap operation[p].on = {}
  BY <1>1, Starting
<1>5. ruleRows' \in [Tables -> [Rules -> MaybeRow]] /\ \A u \in Lasting, r \in Builtin : ruleRows'[u][r] # Null
  <2>1. \A u \in Tables : ruleRows'[u] = IF u = t THEN rows ELSE ruleRows[u]
    BY <1>1 DEF TablesAgree
  <2>2. ruleRows' \in [Tables -> [Rules -> MaybeRow]]
    BY <1>1 DEF TablesAgree, Fits
  <2> QED BY <2>1, <2>2 DEF TablesAgree, Fits, Lasting, Tables
<1>6. ASSUME NEW u \in Tables \ {t}, NEW rules PROVE Agrees(u, rules)' <=> Agrees(u, rules')
  <2>1. ruleRows'[u] = ruleRows[u]
    BY <1>1 DEF TablesAgree
  <2> QED BY <2>1 DEF Agrees, StartChanges, Exists, Row, Effective, Usable
<1>7. ASSUME NEW u \in Tables
      PROVE  u \in stale' \/ Agrees(u, inMemory[u])' \/ \E p \in Operators : u \in operation'[p].on
  <2>1. CASE u = t
    BY <1>2, <1>4, <2>1
  <2>2. CASE u # t /\ \E p \in Operators : u \in operation[p].on
    <3>1. PICK p \in Operators : u \in operation[p].on
      BY <2>2
    <3>2. operation[o].on = {}
      BY <1>4 DEF Steps, StepFits
    <3>3. operation'[p].on = operation[p].on
      BY <1>4, <3>1, <3>2 DEF Others
    <3> QED BY <3>1, <3>3
  <2>3. CASE u # t /\ (u \in stale \/ Agrees(u, inMemory[u]))
    BY <1>1, <1>6, <2>3
  <2> QED BY <2>1, <2>2, <2>3 DEF TablesAgree
<1>8. ASSUME NEW p \in Operators, operation'[p].pc = "store", operation'[p].alone,
             NEW u \in operation'[p].on
      PROVE  Agrees(u, operation[p].read[u])'
  <2>1. p # o
    BY <1>4, <1>8
  <2>2. /\ operation[p].pc = "store" /\ operation[p].alone /\ operation[p].on = operation'[p].on
        /\ operation'[p].read = operation[p].read /\ t \notin operation[p].on
    BY <1>2, <1>4, <1>8, <2>1 DEF Others
  <2>3. Agrees(u, operation[p].read[u])
    BY <1>8, <2>2 DEF TablesAgree
  <2>4. u \in Tables \ {t}
    BY <1>8, <2>2 DEF Steps, StepFits, TableSteps
  <2> QED BY <1>6, <2>2, <2>3, <2>4
<1> QED BY <1>3, <1>4, <1>5, <1>7, <1>8 DEF TablesAgree, TableSteps

\* A change of one table that is made at once leaves the others in agreement.
LEMMA OneTableChanges ==
  ASSUME TablesAgree, NEW t \in Tables, NEW u \in Tables \ {t}, NEW rules,
         \E rows : ruleRows' = [ruleRows EXCEPT ![t] = rows]
  PROVE  Agrees(u, rules)' <=> Agrees(u, rules')
<1>1. ruleRows'[u] = ruleRows[u]
  BY DEF TablesAgree
<1> QED BY <1>1 DEF Agrees, StartChanges, Exists, Row, Effective, Usable

\* A statement after which nothing is loaded leaves its table stale.
LEMMA WriteOnlyAgree ==
  ASSUME TablesAgree, Steps, Solo, NEW o, NEW t \in {"methods", "limits"}, NEW r \in Rules,
         NEW row \in MaybeRow, WriteOnly(o, t, r, row)
  PROVE  Steps' /\ Solo' /\ (\A pcs : Same(pcs)) /\ TablesAgree'
<1>1. /\ operation' = [p \in Operators |->
           IF t \in operation[p].on THEN [operation[p] EXCEPT !.alone = FALSE] ELSE operation[p]]
      /\ ruleRows' = [ruleRows EXCEPT ![t][r] = row]
      /\ stale' = stale \cup {t} /\ inMemory' = inMemory
  BY DEF WriteOnly
<1>2. ASSUME NEW p \in Operators
      PROVE  /\ DOMAIN operation'[p] = DOMAIN operation[p]
             /\ operation'[p].pc = operation[p].pc /\ operation'[p].on = operation[p].on
             /\ operation'[p].read = operation[p].read
             /\ operation'[p].alone => operation[p].alone /\ t \notin operation[p].on
  <2>1. DOMAIN operation[p] = Fields
    BY DEF Steps, StepFits
  <2>2. CASE t \in operation[p].on
    <3>1. operation'[p] = [operation[p] EXCEPT !.alone = FALSE]
      BY <1>1, <2>2
    <3> QED BY <2>1, <3>1 DEF Fields
  <2>3. CASE t \notin operation[p].on
    <3>1. operation'[p] = operation[p]
      BY <1>1, <2>3
    <3> QED BY <2>3, <3>1
  <2> QED BY <2>2, <2>3
<1>3. DOMAIN operation' = Operators
  BY <1>1
<1>4. Steps' /\ Solo'
  BY <1>2, <1>3 DEF Steps, Solo, StepFits
<1>5. \A pcs : Same(pcs)
  BY <1>2 DEF Same
<1>6. t \in Tables /\ t \notin Lasting
  BY DEF Tables, EngineLists, Lasting
<1>7. ruleRows' = [ruleRows EXCEPT ![t] = [ruleRows[t] EXCEPT ![r] = row]]
  BY <1>1, <1>6 DEF TablesAgree
<1>8. /\ ruleRows' \in [Tables -> [Rules -> MaybeRow]]
      /\ \A u \in Lasting, b \in Builtin : ruleRows'[u][b] # Null
  <2>1. ruleRows' \in [Tables -> [Rules -> MaybeRow]]
    BY <1>6, <1>7 DEF TablesAgree
  <2>2. \A u \in Lasting : ruleRows'[u] = ruleRows[u]
    BY <1>6, <1>7 DEF TablesAgree, Lasting, Tables
  <2> QED BY <2>1, <2>2 DEF TablesAgree
<1>11. \A u \in Tables \ {t} : \A rules : Agrees(u, rules) => Agrees(u, rules)'
  BY <1>6, <1>7, OneTableChanges
<1>9. ASSUME NEW u \in Tables
      PROVE  u \in stale' \/ Agrees(u, inMemory[u])' \/ \E p \in Operators : u \in operation'[p].on
  <2>1. CASE u = t
    BY <1>1, <2>1
  <2>2. CASE u # t
    BY <1>1, <1>2, <1>11, <2>2 DEF TablesAgree
  <2> QED BY <2>1, <2>2
<1>10. ASSUME NEW p \in Operators, operation'[p].pc = "store", operation'[p].alone,
              NEW u \in operation'[p].on
       PROVE  Agrees(u, operation[p].read[u])'
  <2>1. /\ operation[p].pc = "store" /\ operation[p].alone /\ operation[p].on = operation'[p].on
        /\ operation'[p].read = operation[p].read /\ t \notin operation[p].on
    BY <1>2, <1>10
  <2>2. Agrees(u, operation[p].read[u])
    BY <1>10, <2>1 DEF TablesAgree
  <2>3. u \in Tables \ {t}
    BY <1>10, <2>1 DEF Steps, StepFits, TableSteps
  <2> QED BY <1>11, <2>1, <2>2, <2>3
<1> QED BY <1>4, <1>5, <1>8, <1>9, <1>10 DEF TablesAgree

\* A patch that expires is out of force at the next start, and that is allowed
\* for.
LEMMA ExpirePatchAgrees ==
  ASSUME TablesAgree, Steps, NEW r \in Rules, ExpirePatch(r)
  PROVE  TablesAgree'
<1>1. /\ ruleRows' = [ruleRows EXCEPT !["vpatch"][r].state = "expired"]
      /\ inMemory' = inMemory /\ operation' = operation /\ stale' = stale
      /\ ruleRows["vpatch"][r] # Null /\ ruleRows["vpatch"][r].state # "expired"
  BY DEF ExpirePatch, Outdated, Exists, Row
<1>2. "vpatch" \in Tables /\ "vpatch" \notin Lasting
  BY DEF Tables, Lasting
<1> DEFINE row == [ruleRows["vpatch"][r] EXCEPT !.state = "expired"]
<1>3. ruleRows["vpatch"] \in [Rules -> MaybeRow] /\ ruleRows["vpatch"][r] \in RuleForm
  BY <1>1, <1>2 DEF TablesAgree, MaybeRow
<1>4. row \in RuleForm /\ row.state = "expired" /\ row # Null
  BY <1>3, RuleTablesAssumption DEF RuleForm
<1>5. ruleRows' = [ruleRows EXCEPT !["vpatch"] = [ruleRows["vpatch"] EXCEPT ![r] = row]]
  BY <1>1, <1>2 DEF TablesAgree
<1> HIDE DEF row
<1>6. /\ ruleRows' \in [Tables -> [Rules -> MaybeRow]]
      /\ \A u \in Lasting, b \in Builtin : ruleRows'[u][b] # Null
  <2>1. ruleRows' \in [Tables -> [Rules -> MaybeRow]]
    BY <1>2, <1>3, <1>4, <1>5 DEF TablesAgree, MaybeRow
  <2>2. \A u \in Lasting : ruleRows'[u] = ruleRows[u]
    BY <1>2, <1>5 DEF TablesAgree, Lasting, Tables
  <2> QED BY <2>1, <2>2 DEF TablesAgree
<1>7. ASSUME NEW rules, Agrees("vpatch", rules) PROVE Agrees("vpatch", rules)'
  <2>1. /\ ruleRows'["vpatch"][r] = row
        /\ \A s \in Rules \ {r} : ruleRows'["vpatch"][s] = ruleRows["vpatch"][s]
    BY <1>2, <1>3, <1>5 DEF TablesAgree
  <2>2. StartChanges("vpatch")' = StartChanges("vpatch") \cup {r}
    BY <2>1, <1>1, <1>4 DEF StartChanges, Exists, Row
  <2>3. Effective("vpatch", ruleRows["vpatch"])' = Effective("vpatch", ruleRows["vpatch"]) \ {r}
    BY <2>1, <1>4 DEF Effective, Usable
  <2> DEFINE changes == StartChanges("vpatch")
             inForce == Effective("vpatch", ruleRows["vpatch"])
  <2>4. inForce \ changes = rules \ changes
    BY <1>7 DEF Agrees
  <2>5. changes' = changes \cup {r} /\ inForce' = inForce \ {r}
    BY <2>2, <2>3
  <2>6. inForce' \ changes' = rules \ changes' <=> Agrees("vpatch", rules)'
    BY DEF Agrees
  <2> HIDE DEF changes, inForce
  <2>7. inForce' \ changes' = rules \ changes'
    BY <2>4, <2>5
  <2> QED BY <2>6, <2>7
<1>8. ASSUME NEW u \in Tables, NEW rules, Agrees(u, rules) PROVE Agrees(u, rules)'
  <2>1. CASE u = "vpatch"
    BY <1>7, <1>8, <2>1
  <2>2. CASE u # "vpatch"
    BY <1>2, <1>5, <1>8, <2>2, OneTableChanges
  <2> QED BY <2>1, <2>2
<1>9. \A p \in Operators : operation[p].pc = "store" => operation[p].on \subseteq Tables
  BY DEF Steps, StepFits, TableSteps
<1>10. ASSUME NEW u \in Tables
       PROVE  u \in stale' \/ Agrees(u, inMemory[u])' \/ \E p \in Operators : u \in operation'[p].on
  BY <1>1, <1>8 DEF TablesAgree
<1>11. ASSUME NEW p \in Operators, operation'[p].pc = "store", operation'[p].alone,
              NEW u \in operation'[p].on
       PROVE  Agrees(u, operation[p].read[u])'
  BY <1>1, <1>8, <1>9, <1>11 DEF TablesAgree
<1> QED BY <1>6, <1>10, <1>11 DEF TablesAgree

\* A load reads what the tables put in force; one that fails leaves them stale.
LEMMA LoadRulesAgree ==
  ASSUME TablesAgree, Steps, Solo, NEW o \in Operators, LoadRules(o)
  PROVE  TakesStep(o) /\ operation[o].pc \in TableSteps
         /\ operation'[o].pc \in {"idle"} \cup TableSteps /\ TablesAgree'
<1> DEFINE on == operation[o].on
           read == [t \in on |-> Effective(t, ruleRows[t])]
<1>1. operation[o].pc = "load" /\ ruleRows' = ruleRows /\ inMemory' = inMemory
  BY DEF LoadRules, OperationAt, tableVars
<1>2. on \subseteq Tables /\ DOMAIN operation[o] = Fields
  BY <1>1 DEF Steps, StepFits, TableSteps
<1>3. \A t, rules : Agrees(t, rules)' <=> Agrees(t, rules)
  BY <1>1 DEF Agrees, StartChanges, Exists, Row, Effective, Usable
<1>4. ASSUME TakesStep(o), \A t \in Tables : t \in stale => t \in stale',
             \/ operation'[o].on = on
             \/ operation'[o].on = {} /\ \A t \in on : t \in stale',
             operation'[o].pc # "store"
             \/ (operation'[o].alone => \A t \in on : operation'[o].read[t] = Effective(t, ruleRows[t]))
      PROVE  TablesAgree'
  <2>1. \A p \in Operators \ {o} :
          /\ operation'[p].pc = operation[p].pc /\ operation'[p].on = operation[p].on
          /\ operation'[p].read = operation[p].read /\ (operation'[p].alone => operation[p].alone)
    BY <1>4 DEF TakesStep, Others
  <2>2. ASSUME NEW t \in Tables
        PROVE  t \in stale' \/ Agrees(t, inMemory[t])' \/ \E p \in Operators : t \in operation'[p].on
    <3>1. CASE t \in on
      BY <1>4, <3>1
    <3>2. CASE t \notin on
      BY <1>1, <1>3, <1>4, <2>1, <3>2 DEF TablesAgree
    <3> QED BY <3>1, <3>2
  <2>3. ASSUME NEW p \in Operators, operation'[p].pc = "store", operation'[p].alone,
               NEW t \in operation'[p].on
        PROVE  Agrees(t, operation[p].read[t])'
    <3>1. CASE p = o
      BY <1>1, <1>4, <2>3, <3>1 DEF Agrees
    <3>2. CASE p # o
      BY <1>3, <2>1, <2>3, <3>2 DEF TablesAgree
    <3> QED BY <3>1, <3>2
  <2> QED BY <1>1, <2>2, <2>3 DEF TablesAgree
<1>5. CASE Continue(o, [operation[o] EXCEPT !.pc = "store", !.read = read]) /\ UNCHANGED stale
  <2> DEFINE step == [operation[o] EXCEPT !.pc = "store", !.read = read]
  <2>1. /\ DOMAIN step = Fields /\ step.pc = "store" /\ step.on = on /\ step.read = read
        /\ step.alone = operation[o].alone
    BY <1>2 DEF Fields
  <2> HIDE DEF read
  <2>2. Continue(o, step)
    BY <1>5
  <2> HIDE DEF step
  <2>3. StepFits(step)
    BY <1>2, <2>1 DEF StepFits, TableSteps, OverrideSteps, PolicySteps, SettingsSteps, MailSteps
  <2>4. TakesStep(o) /\ operation'[o] = step
    BY <2>1, <2>2, <2>3, Continuing
  <2>5. \A t \in on : read[t] = Effective(t, ruleRows[t])
    BY DEF read
  <2> QED BY <1>1, <1>4, <1>5, <2>1, <2>4, <2>5 DEF TableSteps
<1>6. CASE Continue(o, Idling) /\ stale' = stale \cup on
  BY <1>1, <1>4, <1>6, Ending DEF TableSteps
<1>7. ASSUME NEW t \in on, UNCHANGED stale,
             Continue(o, [operation[o] EXCEPT !.pc = "store", !.alone = FALSE,
                                              !.read = [read EXCEPT ![t] = {}]])
      PROVE  TakesStep(o) /\ operation[o].pc \in TableSteps
             /\ operation'[o].pc \in {"idle"} \cup TableSteps /\ TablesAgree'
  <2> DEFINE step == [operation[o] EXCEPT !.pc = "store", !.alone = FALSE,
                                          !.read = [read EXCEPT ![t] = {}]]
  <2> HIDE DEF read
  <2>1. /\ DOMAIN step = Fields /\ step.pc = "store" /\ step.on = on /\ ~step.alone
    BY <1>2 DEF Fields
  <2>2. Continue(o, step)
    BY <1>7
  <2> HIDE DEF step
  <2>3. StepFits(step)
    BY <1>2, <2>1 DEF StepFits, TableSteps, OverrideSteps, PolicySteps, SettingsSteps, MailSteps
  <2>4. TakesStep(o) /\ operation'[o] = step
    BY <2>1, <2>2, <2>3, Continuing
  <2> QED BY <1>1, <1>4, <1>7, <2>1, <2>4 DEF TableSteps
<1> QED
  BY <1>5, <1>6, <1>7 DEF LoadRules

\* What was read replaces memory: by then it may be out of date only if another
\* operation was under way.
LEMMA StoreRulesAgree ==
  ASSUME TablesAgree, Steps, Solo, NEW o \in Operators, StoreRules(o)
  PROVE  TakesStep(o) /\ operation[o].pc \in TableSteps /\ operation'[o].pc = "idle" /\ TablesAgree'
<1> DEFINE on == operation[o].on
<1>1. /\ operation[o].pc = "store" /\ ruleRows' = ruleRows
      /\ inMemory' = [t \in Tables |-> IF t \in on THEN operation[o].read[t] ELSE inMemory[t]]
      /\ stale' = IF operation[o].alone THEN stale \ on ELSE stale \cup on
      /\ TakesStep(o) /\ operation'[o].pc = "idle" /\ operation'[o].on = {}
  BY Ending DEF StoreRules, OperationAt
<1>2. \A t, rules : Agrees(t, rules)' <=> Agrees(t, rules)
  BY <1>1 DEF Agrees, StartChanges, Exists, Row, Effective, Usable
<1>3. \A p \in Operators \ {o} :
        /\ operation'[p].pc = operation[p].pc /\ operation'[p].on = operation[p].on
        /\ operation'[p].read = operation[p].read /\ (operation'[p].alone => operation[p].alone)
  BY <1>1 DEF TakesStep, Others
<1>4. ASSUME NEW t \in Tables
      PROVE  t \in stale' \/ Agrees(t, inMemory[t])' \/ \E p \in Operators : t \in operation'[p].on
  <2>1. CASE t \in on /\ operation[o].alone
    <3>1. Agrees(t, operation[o].read[t]) /\ inMemory'[t] = operation[o].read[t]
      BY <1>1, <2>1 DEF TablesAgree
    <3> QED BY <1>2, <3>1
  <2>2. CASE t \in on /\ ~operation[o].alone
    BY <1>1, <2>2
  <2>3. CASE t \notin on
    <3>1. inMemory'[t] = inMemory[t] /\ (t \in stale => t \in stale')
      BY <1>1, <2>3
    <3> QED BY <1>2, <1>3, <2>3, <3>1 DEF TablesAgree
  <2> QED BY <2>1, <2>2, <2>3
<1>5. ASSUME NEW p \in Operators, operation'[p].pc = "store", operation'[p].alone,
             NEW t \in operation'[p].on
      PROVE  Agrees(t, operation[p].read[t])'
  BY <1>1, <1>2, <1>3, <1>5 DEF TablesAgree
<1> QED BY <1>1, <1>4, <1>5 DEF TablesAgree, TableSteps

\* SIGHUP and the ticker load as an operation that changes nothing.
LEMMA ReloadAgrees ==
  ASSUME TablesAgree, Steps, NEW o \in Operators, NEW t \in Tables, Reload(o, t)
  PROVE  TakesStep(o) /\ operation[o].pc = "idle" /\ operation'[o].pc \in TableSteps /\ TablesAgree'
<1>1. ruleRows[t] \in [Rules -> MaybeRow] /\ Fits(t, ruleRows[t])
  BY DEF TablesAgree, Fits, Lasting
<1>2. WriteRows(o, t, ruleRows[t])
  <2>1. ruleRows' = [ruleRows EXCEPT ![t] = ruleRows[t]]
    BY DEF Reload, tableVars, TablesAgree
  <2> QED BY <2>1 DEF Reload, WriteRows, tableVars
<1> QED BY <1>1, <1>2, WriteRowsAgree

\* What the handlers make of a row is a row, and no switch deletes one.
LEMMA RowForms ==
  ASSUME TablesAgree, NEW t \in Tables, NEW r \in Rules, NEW on \in BOOLEAN
  PROVE  /\ Rule(on) \in MaybeRow /\ Rule(on) # Null
         /\ Row(t, r) \in MaybeRow /\ (Exists(t, r) => Row(t, r) # Null)
         /\ Switched(t, r, on) \in MaybeRow /\ (Exists(t, r) => Switched(t, r, on) # Null)
         /\ Kept(t, r, Rule(on)) \in MaybeRow /\ Kept(t, r, Rule(on)) # Null
<1>1. Rule(on) \in RuleForm
  BY DEF Rule, RuleForm
<1>2. Row(t, r) \in MaybeRow /\ (Exists(t, r) <=> Row(t, r) # Null)
  BY DEF TablesAgree, Row, Exists
<1>3. \A row \in RuleForm : row # Null /\ [row EXCEPT !.enabled = on] \in RuleForm
  BY RuleTablesAssumption DEF RuleForm
<1> QED BY <1>1, <1>2, <1>3 DEF Switched, Kept, MaybeRow

\* A statement on one row is one that fits.
LEMMA WritesRow ==
  ASSUME TablesAgree, NEW o, NEW t \in Tables, NEW r \in Rules, NEW row \in MaybeRow,
         t \in Lasting /\ r \in Builtin => row # Null, Write(o, t, r, row)
  PROVE  Writes(o)
<1>1. ruleRows[t] \in [Rules -> MaybeRow] /\ (t \in Lasting => \A b \in Builtin : ruleRows[t][b] # Null)
  BY DEF TablesAgree
<1>2. Fits(t, [ruleRows[t] EXCEPT ![r] = row])
  BY <1>1, RuleTablesAssumption DEF Fits
<1> QED BY <1>1, <1>2 DEF Write, Writes

\* The handlers of the rule engine (ua.go, path.go, security_api.go) do nothing
\* else.
LEMMA EngineWrites ==
  ASSUME TablesAgree, NEW o, EngineHandlers(o) PROVE Writes(o)
<1> PICK r \in Rules :
    \/ UAPage(o, r) \/ UAUpdateAPI(o, r) \/ UAToggleAPI(o, r) \/ UADeleteAPI(o, r)
    \/ PathPage(o, r) \/ PathUpdateAPI(o, r) \/ PathToggleAPI(o, r) \/ PathDeleteAPI(o, r)
    \/ APIGeoRuleAdd(o, r) \/ APIGeoRuleUpdate(o, r) \/ APIGeoRuleDelete(o, r)
    \/ APIAllowedMethodSet(o, r) \/ APIAllowedMethodDelete(o, r)
    \/ APIPathRateLimitAdd(o, r) \/ APIPathRateLimitUpdate(o, r) \/ APIPathRateLimitDelete(o, r)
  BY DEF EngineHandlers
<1>1. /\ {"path", "ua", "geo", "methods", "limits"} \subseteq Tables
      /\ {"path", "ua", "geo", "methods", "limits"} \cap Lasting = {}
      /\ Null \in MaybeRow
  BY DEF Tables, EngineLists, Lasting, MaybeRow
<1>2. CASE UAPage(o, r) \/ UAUpdateAPI(o, r) \/ UAToggleAPI(o, r) \/ UADeleteAPI(o, r)
  <2>1. PICK row \in MaybeRow : Write(o, "ua", r, row)
    BY <1>1, <1>2, RowForms
    DEF UAPage, UAUpdateAPI, UAToggleAPI, UADeleteAPI, AddUARule, RemoveUARule, UpdateUARule, ToggleUARule
  <2> QED BY <1>1, <2>1, WritesRow
<1>3. CASE PathPage(o, r) \/ PathUpdateAPI(o, r) \/ PathToggleAPI(o, r) \/ PathDeleteAPI(o, r)
  <2>1. PICK row \in MaybeRow : Write(o, "path", r, row)
    BY <1>1, <1>3, RowForms
    DEF PathPage, PathUpdateAPI, PathToggleAPI, PathDeleteAPI,
        AddPathRule, RemovePathRule, UpdatePathRule, TogglePathRule
  <2> QED BY <1>1, <2>1, WritesRow
<1>4. CASE APIGeoRuleAdd(o, r) \/ APIGeoRuleUpdate(o, r) \/ APIGeoRuleDelete(o, r)
  <2>1. PICK row \in MaybeRow : Write(o, "geo", r, row)
    BY <1>1, <1>4, RowForms
    DEF APIGeoRuleAdd, APIGeoRuleUpdate, APIGeoRuleDelete, AddGeoRule, UpdateGeoRule, RemoveGeoRule
  <2> QED BY <1>1, <2>1, WritesRow
<1>5. CASE APIAllowedMethodSet(o, r) \/ APIAllowedMethodDelete(o, r)
  <2>1. PICK row \in MaybeRow : WriteOnly(o, "methods", r, row)
    BY <1>1, <1>5, RowForms
    DEF APIAllowedMethodSet, APIAllowedMethodDelete, SetAllowedMethodDB, RemoveAllowedMethodDB
  <2> QED BY <2>1 DEF Writes
<1>6. CASE APIPathRateLimitAdd(o, r) \/ APIPathRateLimitUpdate(o, r) \/ APIPathRateLimitDelete(o, r)
  <2>1. PICK row \in MaybeRow : WriteOnly(o, "limits", r, row)
    BY <1>1, <1>6, RowForms
    DEF APIPathRateLimitAdd, APIPathRateLimitUpdate, APIPathRateLimitDelete,
        AddPathRateLimit, UpdatePathRateLimit, RemovePathRateLimit
  <2> QED BY <2>1 DEF Writes
<1> QED BY <1>2, <1>3, <1>4, <1>5, <1>6

\* Nor do those of DLP and schemas (dlprule.go, apischema.go), which keep builtin
\* rules.
LEMMA ContentWrites ==
  ASSUME TablesAgree, NEW o, ContentHandlers(o) PROVE Writes(o)
<1> PICK r \in Rules :
    \/ APIDLPAdd(o, r) \/ APIDLPUpdate(o, r) \/ APIDLPDelete(o, r) \/ APIAPIDlpToggle(o, r)
    \/ APIAPISchemaAdd(o, r) \/ APIAPISchemaUpdate(o, r)
    \/ APIAPISchemaDelete(o, r) \/ APIAPISchemaToggle(o, r)
  BY DEF ContentHandlers
<1>1. /\ {"dlp", "schema"} \subseteq Tables /\ {"dlp", "schema"} \subseteq Lasting /\ Null \in MaybeRow
      /\ (r \in Builtin => r \notin Custom)
  BY DEF Tables, Lasting, MaybeRow, Custom
<1>2. r \in Builtin => Exists("dlp", r) /\ Exists("schema", r)
  BY <1>1 DEF TablesAgree, Exists
<1>3. CASE APIDLPAdd(o, r) \/ APIDLPUpdate(o, r) \/ APIDLPDelete(o, r) \/ APIAPIDlpToggle(o, r)
  <2>1. PICK row \in MaybeRow : Write(o, "dlp", r, row) /\ (r \in Builtin => row # Null)
    BY <1>1, <1>2, <1>3, RowForms
    DEF APIDLPAdd, APIDLPUpdate, APIDLPDelete, APIAPIDlpToggle,
        AddDLPRule, UpdateDLPRule, DeleteDLPRule, ToggleDLPRule
  <2> QED BY <1>1, <2>1, WritesRow
<1>4. CASE \/ APIAPISchemaAdd(o, r) \/ APIAPISchemaUpdate(o, r)
           \/ APIAPISchemaDelete(o, r) \/ APIAPISchemaToggle(o, r)
  <2>1. PICK row \in MaybeRow : Write(o, "schema", r, row) /\ (r \in Builtin => row # Null)
    BY <1>1, <1>2, <1>4, RowForms
    DEF APIAPISchemaAdd, APIAPISchemaUpdate, APIAPISchemaDelete, APIAPISchemaToggle,
        AddSchema, UpdateSchema, DeleteSchema, ToggleSchema
  <2> QED BY <1>1, <2>1, WritesRow
<1> QED BY <1>3, <1>4

\* Nor those of headers and body limits (reqheader.go, respheader.go).
LEMMA HeaderWrites ==
  ASSUME TablesAgree, NEW o, HeaderHandlers(o) PROVE Writes(o)
<1> PICK r \in Rules :
    \/ APIReqHeaderAdd(o, r) \/ APIReqHeaderUpdate(o, r)
    \/ APIReqHeaderDelete(o, r) \/ APIReqHeaderToggle(o, r)
    \/ APIRespHeaderAdd(o, r) \/ APIRespHeaderUpdate(o, r)
    \/ APIRespHeaderDelete(o, r) \/ APIRespHeaderToggle(o, r)
    \/ AddBodyLimit(o, r) \/ UpdateBodyLimit(o, r) \/ DeleteBodyLimit(o, r)
  BY DEF HeaderHandlers
<1>1. /\ {"reqheader", "respheader", "bodylimit"} \subseteq Tables
      /\ {"reqheader", "respheader", "bodylimit"} \cap Lasting = {} /\ Null \in MaybeRow
  BY DEF Tables, Lasting, MaybeRow
<1>2. CASE \/ APIReqHeaderAdd(o, r) \/ APIReqHeaderUpdate(o, r)
           \/ APIReqHeaderDelete(o, r) \/ APIReqHeaderToggle(o, r)
  <2>1. PICK row \in MaybeRow : Write(o, "reqheader", r, row)
    BY <1>1, <1>2, RowForms
    DEF APIReqHeaderAdd, APIReqHeaderUpdate, APIReqHeaderDelete, APIReqHeaderToggle,
        AddRequestHeader, UpdateRequestHeader, DeleteRequestHeader, ToggleRequestHeader
  <2> QED BY <1>1, <2>1, WritesRow
<1>3. CASE \/ APIRespHeaderAdd(o, r) \/ APIRespHeaderUpdate(o, r)
           \/ APIRespHeaderDelete(o, r) \/ APIRespHeaderToggle(o, r)
  <2>1. PICK row \in MaybeRow : Write(o, "respheader", r, row)
    BY <1>1, <1>3, RowForms
    DEF APIRespHeaderAdd, APIRespHeaderUpdate, APIRespHeaderDelete, APIRespHeaderToggle,
        AddResponseHeader, UpdateResponseHeader, DeleteResponseHeader, ToggleResponseHeader
  <2> QED BY <1>1, <2>1, WritesRow
<1>4. CASE AddBodyLimit(o, r) \/ UpdateBodyLimit(o, r) \/ DeleteBodyLimit(o, r)
  <2>1. PICK row \in MaybeRow : Write(o, "bodylimit", r, row)
    BY <1>1, <1>4, RowForms DEF AddBodyLimit, UpdateBodyLimit, DeleteBodyLimit
  <2> QED BY <1>1, <2>1, WritesRow
<1> QED BY <1>2, <1>3, <1>4

\* Nor those of virtual patches (vpatch.go), with the hourly cleanup.
LEMMA PatchWrites ==
  ASSUME TablesAgree, NEW o, PatchHandlers(o) PROVE Writes(o)
<1>1. "vpatch" \in Tables /\ "vpatch" \notin Lasting /\ Null \in MaybeRow
  BY DEF Tables, Lasting, MaybeRow
<1>2. ASSUME NEW r \in Rules, APIVPatchAdd(o, r) \/ APIVPatchDelete(o, r) \/ APIVPatchToggle(o, r)
      PROVE  Writes(o)
  <2>1. PICK row \in MaybeRow : Write(o, "vpatch", r, row)
    BY <1>1, <1>2, RowForms
    DEF APIVPatchAdd, APIVPatchDelete, APIVPatchToggle, AddPatch, DeletePatch, TogglePatch
  <2> QED BY <1>1, <2>1, WritesRow
<1>3. ASSUME CleanupPatches(o) PROVE Writes(o)
  <2> DEFINE rows == [r \in Rules |-> IF Outdated(r) THEN Null ELSE Row("vpatch", r)]
  <2>1. rows \in [Rules -> MaybeRow]
    BY <1>1 DEF TablesAgree, Row
  <2>2. WriteRows(o, "vpatch", rows)
    BY <1>3 DEF CleanupPatches
  <2> HIDE DEF rows
  <2> QED BY <1>1, <2>1, <2>2 DEF Writes, Fits
<1> QED BY <1>2, <1>3 DEF PatchHandlers, Writes

\* Nor those of bots (bot.go), one at a time and several at once.
LEMMA BotWrites ==
  ASSUME TablesAgree, NEW o, BotHandlers(o) PROVE Writes(o)
<1>1. "bot" \in Tables /\ "bot" \notin Lasting /\ Null \in MaybeRow
  BY DEF Tables, Lasting, MaybeRow
<1>2. ASSUME NEW r \in Rules,
             \/ APIBotRuleAdd(o, r) \/ APIBotRuleUpdate(o, r)
             \/ APIBotRuleDelete(o, r) \/ APIBotRuleToggleEnabled(o, r)
      PROVE  Writes(o)
  <2>1. PICK row \in MaybeRow : Write(o, "bot", r, row)
    BY <1>1, <1>2, RowForms
    DEF APIBotRuleAdd, APIBotRuleUpdate, APIBotRuleDelete, APIBotRuleToggleEnabled,
        AddBotRule, UpdateBotRule, DeleteBotRule, ToggleEnabled
  <2> QED BY <1>1, <2>1, WritesRow
<1>3. ASSUME NEW rs \in SUBSET Rules, APIBotBatchDelete(o, rs) PROVE Writes(o)
  <2> DEFINE rows == [r \in Rules |-> IF r \in rs THEN Null ELSE Row("bot", r)]
  <2>1. rows \in [Rules -> MaybeRow]
    BY <1>1 DEF TablesAgree, Row
  <2>2. WriteRows(o, "bot", rows)
    BY <1>3 DEF APIBotBatchDelete, BatchDelete
  <2> HIDE DEF rows
  <2> QED BY <1>1, <2>1, <2>2 DEF Writes, Fits
<1>4. ASSUME NEW rs \in SUBSET Rules, APIBotBatchToggleEnabled(o, rs) PROVE Writes(o)
  <2>1. PICK on \in BOOLEAN :
          WriteRows(o, "bot", [r \in Rules |-> IF r \in rs THEN Switched("bot", r, on) ELSE Row("bot", r)])
    BY <1>4 DEF APIBotBatchToggleEnabled, BatchToggleEnabled
  <2> DEFINE rows == [r \in Rules |-> IF r \in rs THEN Switched("bot", r, on) ELSE Row("bot", r)]
  <2>2. rows \in [Rules -> MaybeRow]
    BY <1>1, RowForms
  <2>3. WriteRows(o, "bot", rows)
    BY <2>1
  <2> HIDE DEF rows
  <2> QED BY <1>1, <2>2, <2>3 DEF Writes, Fits
<1> QED BY <1>2, <1>3, <1>4 DEF BotHandlers

\* Nor those of detectors (detector.go), which keep builtin rules.
LEMMA DetectorWrites ==
  ASSUME TablesAgree, NEW o, DetectorRuleHandlers(o) PROVE Writes(o)
<1> PICK r \in Rules :
      APIDetectorAddRule(o, r) \/ APIDetectorRemoveRule(o, r) \/ APIDetectorToggleRule(o, r)
  BY DEF DetectorRuleHandlers
<1>1. "detector" \in Tables /\ Null \in MaybeRow /\ (r \in Builtin => r \notin Custom)
  BY DEF Tables, MaybeRow, Custom
<1>2. PICK row \in MaybeRow : Write(o, "detector", r, row) /\ (r \in Builtin => row # Null)
  BY <1>1, RowForms
  DEF APIDetectorAddRule, APIDetectorRemoveRule, APIDetectorToggleRule, AddCustomRule, RemoveRule, ToggleRule
<1> QED BY <1>1, <1>2, WritesRow

\* Nor those of alert rules (notify.go).
LEMMA AlertRuleWrites ==
  ASSUME TablesAgree, NEW o, NEW r \in Rules, UpdateAlertRule(o, r) \/ DeleteAlertRule(o, r)
  PROVE  Writes(o)
<1>1. "alerts" \in Tables /\ "alerts" \notin Lasting /\ Null \in MaybeRow
  BY DEF Tables, Lasting, MaybeRow
<1>2. PICK row \in MaybeRow : Write(o, "alerts", r, row)
  BY <1>1, RowForms DEF UpdateAlertRule, DeleteAlertRule
<1> QED BY <1>1, <1>2, WritesRow

-----------------------------------------------------------------------------
\* Seeding keeps what is there and, where it inserts, every builtin rule is
\* there.
LEMMA SeededRows ==
  ASSUME NEW t \in Tables, NEW rows \in [Rules -> MaybeRow]
  PROVE  /\ Seeded(t, rows) \in [Rules -> MaybeRow]
         /\ \A r \in Rules : rows[r] # Null => Seeded(t, rows)[r] # Null
         /\ t \in {"detector", "path", "ua"} => \A r \in Builtin : Seeded(t, rows)[r] # Null
         /\ t \in {"dlp", "schema"} =>
              ((\A r \in Builtin : rows[r] = Null) => \A r \in Builtin : Seeded(t, rows)[r] # Null)
<1>1. Rule(TRUE) \in RuleForm /\ Rule(TRUE) # Null
  <2>1. Rule(TRUE) \in RuleForm
    BY DEF Rule, RuleForm
  <2> QED BY <2>1, RuleTablesAssumption DEF RuleForm
<1>2. Builtin \subseteq Rules
  BY RuleTablesAssumption
<1> HIDE DEF Rule
<1> QED BY <1>1, <1>2 DEF Seeded, MaybeRow

\* What a start loads is what the tables say after it, of all but the lists that
\* are left unread.
LEMMA StartAgrees ==
  ASSUME NEW tables \in [Tables -> [Rules -> MaybeRow]], NEW t \in Tables, t \notin Unread(tables)
  PROVE  StartedWith(tables)[t] = Effective(t, Started(tables)[t])
<1>1. StartedWith(tables)[t] = Effective(t, IF t \in EngineLists /\ ~LoadsAgain(tables)
                                            THEN tables[t] ELSE Started(tables)[t])
  BY DEF StartedWith
<1>2. ASSUME t \in EngineLists, ~LoadsAgain(tables) PROVE Started(tables)[t] = tables[t]
  <2>1. Seeded(t, tables[t]) = tables[t]
    BY <1>2 DEF Unread
  <2>2. CASE t = "ua"
    <3>1. ToMigrate(tables["ua"]) = {}
      BY <1>2, <2>1, <2>2 DEF LoadsAgain
    <3>2. tables["ua"] \in [Rules -> MaybeRow]
      BY <2>2
    <3>3. Migrate(tables["ua"]) = tables["ua"]
      BY <3>1, <3>2 DEF Migrate
    <3> QED BY <2>1, <2>2, <3>3 DEF Started
  <2>3. CASE t # "ua"
    BY <2>1, <2>3 DEF Started
  <2> QED BY <2>2, <2>3
<1> QED BY <1>1, <1>2

\* The migration touches agents of attack tools only.
LEMMA MigratedRows ==
  ASSUME NEW rows \in [Rules -> MaybeRow]
  PROVE  /\ Migrate(rows) \in [Rules -> MaybeRow]
         /\ \A r \in Rules \ Tools : Migrate(rows)[r] = rows[r]
<1>1. [enabled |-> FALSE, state |-> "migrated"] \in MaybeRow
  BY DEF MaybeRow, RuleForm
<1> QED BY <1>1 DEF Migrate, ToMigrate

\* A start leaves tables of rows.
LEMMA StartedRows ==
  ASSUME NEW tables \in [Tables -> [Rules -> MaybeRow]]
  PROVE  Started(tables) \in [Tables -> [Rules -> MaybeRow]]
<1>1. ASSUME NEW t \in Tables PROVE tables[t] \in [Rules -> MaybeRow]
  OBVIOUS
<1>2. ASSUME NEW t \in Tables
      PROVE  (IF t = "ua" THEN Migrate(Seeded(t, tables[t])) ELSE Seeded(t, tables[t])) \in [Rules -> MaybeRow]
  BY <1>1, SeededRows, MigratedRows
<1> QED BY <1>2 DEF Started

\* What a start would put in force is what the table puts in force now, but for
\* what it may change.
LEMMA StartsAlike ==
  ASSUME TablesAgree, NEW t \in Tables
  PROVE  Agrees(t, StartedWith(ruleRows)[t])
<1> DEFINE rows == ruleRows[t]
<1>1. rows \in [Rules -> MaybeRow]
  BY DEF TablesAgree
<1>2. StartedWith(ruleRows)[t] = Effective(t, IF t \in EngineLists /\ ~LoadsAgain(ruleRows)
                                              THEN rows ELSE Started(ruleRows)[t])
  BY DEF StartedWith
<1>3. ASSUME NEW r \in Rules, r \notin StartChanges(t) PROVE Seeded(t, rows)[r] = rows[r]
  <2>1. CASE t \in {"path", "ua"}
    BY <1>1, <1>3, <2>1 DEF Seeded, StartChanges, Exists
  <2>2. CASE t \in Lasting
    <3>1. \A b \in Builtin : rows[b] # Null
      BY <2>2 DEF TablesAgree
    <3> QED BY <1>1, <2>2, <3>1 DEF Seeded, Lasting
  <2>3. CASE t \notin {"path", "ua"} \cup Lasting
    BY <2>3 DEF Seeded, Lasting
  <2> QED BY <2>1, <2>2, <2>3
<1>4. ASSUME NEW r \in Rules, r \notin StartChanges(t) PROVE Started(ruleRows)[t][r] = rows[r]
  <2>1. CASE t = "ua"
    <3>1. r \notin Tools
      BY <1>4, <2>1 DEF StartChanges
    <3>2. Started(ruleRows)[t] = Migrate(Seeded(t, rows))
      BY <2>1 DEF Started
    <3> QED BY <1>1, <1>3, <1>4, <3>1, <3>2, SeededRows, MigratedRows
  <2>2. CASE t # "ua"
    BY <1>3, <1>4, <2>2 DEF Started
  <2> QED BY <2>1, <2>2
<1>5. Effective(t, Started(ruleRows)[t]) \ StartChanges(t) = Effective(t, rows) \ StartChanges(t)
  <2> HIDE DEF rows
  <2>1. Usable(t) \subseteq Rules
    BY DEF Usable
  <2> QED BY <1>4, <2>1 DEF Effective
<1> QED BY <1>2, <1>5 DEF Agrees

\* The first start leaves tables and memory in agreement.
LEMMA NewTablesAgree == TablesAreNew => TablesAgree /\ Steps /\ Solo
<1> SUFFICES ASSUME TablesAreNew PROVE TablesAgree /\ Steps /\ Solo
  OBVIOUS
<1> DEFINE none == [t \in Tables |-> [r \in Rules |-> Null]]
<1>1. /\ ruleRows = Started(none) /\ inMemory = StartedWith(none) /\ stale = Unread(none)
      /\ operation = [o \in Operators |-> Idling]
  BY DEF TablesAreNew
<1>2. none \in [Tables -> [Rules -> MaybeRow]]
  BY DEF MaybeRow
<1>3. \A t \in Tables : \A r \in Rules : none[t][r] = Null
  OBVIOUS
<1> HIDE DEF none
<1>4. ruleRows \in [Tables -> [Rules -> MaybeRow]]
  BY <1>1, <1>2, StartedRows
<1>5. ASSUME NEW t \in Lasting, NEW r \in Builtin PROVE ruleRows[t][r] # Null
  <2>1. t \in Tables /\ t # "ua" /\ none[t] \in [Rules -> MaybeRow] /\ Builtin \subseteq Rules
    BY <1>2, RuleTablesAssumption DEF Lasting, Tables
  <2>2. ruleRows[t] = Seeded(t, none[t])
    BY <1>1, <2>1 DEF Started
  <2> QED BY <1>3, <2>1, <2>2, SeededRows DEF Lasting
<1>6. \A t \in Tables \ stale : Agrees(t, inMemory[t])
  BY <1>1, <1>2, StartAgrees DEF Agrees
<1>7. \A o \in Operators : operation[o].pc = "idle" /\ operation[o].on = {} /\ StepFits(operation[o])
  BY <1>1 DEF Idling, StepFits, Fields, TableSteps, OverrideSteps, PolicySteps, SettingsSteps, MailSteps
<1> QED BY <1>1, <1>4, <1>5, <1>6, <1>7 DEF TablesAgree, Steps, Solo

\* So does every later one.
LEMMA RestartedTablesAgree ==
  ASSUME TablesAgree, TablesRestart
  PROVE  /\ TablesAgree' /\ Steps' /\ Solo'
         /\ \A o \in Operators : operation'[o].pc = "idle"
<1>1. /\ ruleRows' = Started(ruleRows) /\ inMemory' = StartedWith(ruleRows)
      /\ stale' = Unread(ruleRows) /\ operation' = [o \in Operators |-> Idling]
  BY DEF TablesRestart
<1>2. ruleRows \in [Tables -> [Rules -> MaybeRow]]
  BY DEF TablesAgree
<1>3. ruleRows' \in [Tables -> [Rules -> MaybeRow]]
  BY <1>1, <1>2, StartedRows
<1>4. ASSUME NEW t \in Lasting, NEW r \in Builtin PROVE ruleRows'[t][r] # Null
  <2>1. t \in Tables /\ t # "ua" /\ ruleRows[t] \in [Rules -> MaybeRow] /\ Builtin \subseteq Rules
    BY <1>2, RuleTablesAssumption DEF Lasting, Tables
  <2>2. ruleRows'[t] = Seeded(t, ruleRows[t])
    BY <1>1, <2>1 DEF Started
  <2> QED BY <2>1, <2>2, SeededRows DEF TablesAgree
<1>5. ASSUME NEW t \in Tables, t \notin stale' PROVE Agrees(t, inMemory[t])'
  <2>1. StartedWith(ruleRows)[t] = Effective(t, Started(ruleRows)[t])
    BY <1>1, <1>2, <1>5, StartAgrees
  <2> QED BY <1>1, <2>1 DEF Agrees
<1>6. \A o \in Operators : operation'[o].pc = "idle" /\ operation'[o].on = {} /\ StepFits(operation'[o])
  BY <1>1 DEF Idling, StepFits, Fields, TableSteps, OverrideSteps, PolicySteps, SettingsSteps, MailSteps
<1>7. DOMAIN operation' = Operators
  BY <1>1
<1> QED BY <1>3, <1>4, <1>5, <1>6, <1>7 DEF TablesAgree, Steps, Solo

-----------------------------------------------------------------------------
\* A goroutine is idle or at some steps, before and after.
Within(o, pcs) ==
  operation[o].pc \in {"idle"} \cup pcs /\ operation'[o].pc \in {"idle"} \cup pcs

\* An operation that begins takes being alone from who works on the same thing.
LEMMA StartedAlone ==
  ASSUME Steps, NEW o \in Operators, NEW pc, NEW x, NEW read, Starts(o, pc, {x}, read)
  PROVE  \A p \in Operators \ {o} : operation[p].on = {x} => ~operation'[p].alone /\ ~operation'[o].alone
  BY Starting

\* SetPolicy and the reload of policies begin (bot.go).
LEMMA WritePolicyAgrees ==
  ASSUME PoliciesAgree, Steps, Solo, NEW o \in Operators, WritePolicy(o) \/ ReloadPolicies(o)
  PROVE  TakesStep(o) /\ Within(o, PolicySteps) /\ PoliciesAgree'
<1>1. PICK p : /\ Starts(o, "storePolicy", {"policy"}, p) /\ stale' = stale /\ policy' = policy
               /\ p = PolicyOf(policyRow')
  BY SecurityRulesAssumption DEF WritePolicy, ReloadPolicies, botVars, PolicyOf
<1>2. TakesStep(o)
  BY <1>1, StartingFits DEF PolicySteps
<1>3. operation[o].pc = "idle" /\ operation'[o].pc = "storePolicy" /\ operation'[o].read = p /\ Others(o)
  BY <1>1, Starting
<1>4. ASSUME NEW q \in Operators, operation'[q].pc \in PolicySteps, operation'[q].alone
      PROVE  q = o
  <2>1. q # o => operation[q].on = {"policy"}
    BY <1>3, <1>4 DEF Others, Steps, StepFits
  <2> QED BY <1>1, <1>4, <2>1, StartedAlone
<1>5. PoliciesAgree'
  <2>1. PolicyOf(policyRow)' = p
    BY <1>1 DEF PolicyOf
  <2> QED BY <1>3, <1>4, <2>1 DEF PoliciesAgree, PolicySteps
<1> QED BY <1>2, <1>3, <1>5 DEF Within, PolicySteps

\* They replace the policy in memory.
LEMMA ApplyPolicyAgrees ==
  ASSUME PoliciesAgree, Steps, Solo, NEW o \in Operators, ApplyPolicy(o)
  PROVE  TakesStep(o) /\ Within(o, PolicySteps) /\ PoliciesAgree'
<1>1. /\ operation[o].pc = "storePolicy" /\ policyRow' = policyRow /\ policy' = operation[o].read
      /\ stale' = IF operation[o].alone THEN stale \ {"policy"} ELSE stale \cup {"policy"}
      /\ TakesStep(o) /\ operation'[o].pc = "idle"
  BY Ending DEF ApplyPolicy, OperationAt
<1>2. PolicyOf(policyRow)' = PolicyOf(policyRow)
  BY <1>1 DEF PolicyOf
<1>3. operation[o].alone => policy' = PolicyOf(policyRow)
  BY <1>1 DEF PoliciesAgree, PolicySteps
<1>4. ~operation[o].alone => "policy" \in stale'
  BY <1>1
<1>5. ASSUME NEW q \in Operators, operation'[q].pc \in PolicySteps, operation'[q].alone
      PROVE  operation'[q].read = PolicyOf(policyRow)
  BY <1>1, <1>5 DEF TakesStep, Others, PoliciesAgree, PolicySteps
<1> QED BY <1>1, <1>2, <1>3, <1>4, <1>5 DEF PoliciesAgree, Within, PolicySteps

\* Settings of a detector are written to the table or read from it (detector.go).
LEMMA StartSettingsAgree ==
  ASSUME SettingsAgree, Steps, Solo, NEW o \in Operators,
         APIDetectorUpdate(o) \/ APIDetectorToggle(o) \/ ReloadDetectorSettings(o)
  PROVE  TakesStep(o) /\ Within(o, SettingsSteps) /\ SettingsAgree'
<1>1. PICK read :
        /\ Starts(o, "applyEnabled", {"settings"}, read) /\ stale' = stale /\ detectorLive' = detectorLive
        /\ detectorRow' \in [on : BOOLEAN, observed : BOOLEAN]
        /\ read.on = detectorRow'.on
        /\ \/ read.observed = detectorRow'.observed
           \/ read.observed = Null /\ detectorRow'.observed = detectorRow.observed
  <2>1. CASE APIDetectorUpdate(o)
    BY <2>1 DEF APIDetectorUpdate
  <2>2. CASE ReloadDetectorSettings(o)
    BY <2>2 DEF ReloadDetectorSettings, detectorVars, SettingsAgree
  <2>3. CASE APIDetectorToggle(o)
    <3>1. PICK on \in BOOLEAN :
            /\ Starts(o, "applyEnabled", {"settings"}, [on |-> on, observed |-> Null])
            /\ detectorRow' = [detectorRow EXCEPT !.on = on]
            /\ stale' = stale /\ detectorLive' = detectorLive
      BY <2>3 DEF APIDetectorToggle
    <3>2. /\ detectorRow' \in [on : BOOLEAN, observed : BOOLEAN]
          /\ detectorRow'.on = on /\ detectorRow'.observed = detectorRow.observed
      BY <3>1 DEF SettingsAgree
    <3> DEFINE read == [on |-> on, observed |-> Null]
    <3>3. read.on = on /\ read.observed = Null /\ Starts(o, "applyEnabled", {"settings"}, read)
      BY <3>1
    <3> HIDE DEF read
    <3> QED BY <3>1, <3>2, <3>3
  <2> QED BY <2>1, <2>2, <2>3
<1>2. TakesStep(o)
  BY <1>1, StartingFits DEF SettingsSteps
<1>3. operation[o].pc = "idle" /\ operation'[o].pc = "applyEnabled" /\ operation'[o].read = read /\ Others(o)
  BY <1>1, Starting
<1>4. ASSUME NEW q \in Operators, q # o, operation[q].pc \in SettingsSteps
      PROVE  ~operation'[q].alone /\ ~operation'[o].alone
  <2>1. operation[q].on = {"settings"}
    BY <1>4 DEF Steps, StepFits
  <2> QED BY <1>1, <1>4, <2>1, StartedAlone
<1>5. ASSUME NEW q \in Operators, operation'[q].pc \in SettingsSteps, operation'[q].alone
      PROVE  q = o /\ ("settings" \in stale \/ detectorLive = detectorRow)
  <2>1. q # o => operation'[q].pc = operation[q].pc
    BY <1>3 DEF Others
  <2>2. q = o
    BY <1>4, <1>5, <2>1
  <2>3. ~\E s \in Operators : operation[s].pc \in SettingsSteps
    BY <1>3, <1>4, <1>5, <2>2 DEF SettingsSteps
  <2> QED BY <2>2, <2>3 DEF SettingsAgree
<1>6. SettingsAgree'
  BY <1>1, <1>3, <1>5 DEF SettingsAgree, SettingsSteps
<1> QED BY <1>2, <1>3, <1>6 DEF Within, SettingsSteps

\* They are applied, enabled first and the observation mode then.
LEMMA ApplySettingsAgree ==
  ASSUME SettingsAgree, Steps, Solo, NEW o \in Operators,
         ApplyDetectorConfig(o) \/ ApplyObservationMode(o)
  PROVE  TakesStep(o) /\ Within(o, SettingsSteps) /\ SettingsAgree'
<1> DEFINE read == operation[o].read
<1>1. operation[o].pc \in SettingsSteps /\ detectorRow' = detectorRow
  BY DEF ApplyDetectorConfig, ApplyObservationMode, OperationAt, SettingsSteps
<1>2. DOMAIN operation[o] = Fields /\ operation[o].on = {"settings"}
  BY <1>1 DEF Steps, StepFits
<1>3. detectorRow.observed # Null
  BY RuleTablesAssumption DEF SettingsAgree
<1>4. ASSUME NEW q \in Operators, q # o, operation[q].pc \in SettingsSteps
      PROVE  ~operation[q].alone /\ ~operation[o].alone
  <2>1. operation[q].on = {"settings"}
    BY <1>4 DEF Steps, StepFits
  <2> QED BY <1>2, <1>4, <2>1 DEF Solo
<1>5. TakesStep(o) => \A q \in Operators \ {o} :
        operation'[q].pc \in SettingsSteps => ~operation'[q].alone
  BY <1>4 DEF TakesStep, Others
<1>6. CASE ApplyDetectorConfig(o)
  <2>1. operation[o].pc = "applyEnabled" /\ detectorLive' = [detectorLive EXCEPT !.on = read.on]
    BY <1>6 DEF ApplyDetectorConfig, OperationAt
  <2>2. /\ DOMAIN detectorLive' = {"on", "observed"}
        /\ detectorLive'.on = read.on /\ detectorLive'.observed = detectorLive.observed
    BY <2>1 DEF SettingsAgree
  <2>3. CASE read.observed = Null
    <3>1. /\ TakesStep(o) /\ operation'[o].pc = "idle"
          /\ stale' = IF operation[o].alone THEN stale ELSE stale \cup {"settings"}
      BY <1>6, <2>3, Ending DEF ApplyDetectorConfig
    <3>2. operation[o].alone => "settings" \in stale \/ detectorLive' = detectorRow
      <4>1. operation[o].alone =>
              read.on = detectorRow.on /\ ("settings" \in stale \/ detectorLive.observed = detectorRow.observed)
        BY <1>1, <1>3, <2>1, <2>3 DEF SettingsAgree
      <4>2. detectorLive' = [on |-> detectorLive'.on, observed |-> detectorLive'.observed]
        BY <2>1, <2>2 DEF SettingsAgree
      <4>3. detectorRow = [on |-> detectorRow.on, observed |-> detectorRow.observed]
        BY DEF SettingsAgree
      <4> QED BY <2>2, <4>1, <4>2, <4>3
    <3>3. "settings" \in stale' \/ (operation[o].alone /\ detectorLive' = detectorRow)
      BY <3>1, <3>2
    <3> QED BY <1>1, <1>5, <2>2, <3>1, <3>3 DEF SettingsAgree, Within, SettingsSteps
  <2>4. CASE read.observed # Null
    <3> DEFINE step == [operation[o] EXCEPT !.pc = "applyObserved"]
    <3>1. Continue(o, step) /\ stale' = stale
      BY <1>6, <2>4 DEF ApplyDetectorConfig
    <3>2. /\ DOMAIN step = Fields /\ step.pc = "applyObserved" /\ step.on = operation[o].on
          /\ step.read = read /\ step.alone = operation[o].alone
      BY <1>2 DEF Fields
    <3> HIDE DEF step
    <3>3. StepFits(step)
      BY <1>2, <3>2 DEF StepFits, TableSteps, OverrideSteps, PolicySteps, SettingsSteps, MailSteps
    <3>4. TakesStep(o) /\ operation'[o] = step
      BY <3>1, <3>2, <3>3, Continuing
    <3>5. step.alone => read.observed = detectorRow.observed /\ read.on = detectorRow.on
      BY <1>1, <2>1, <2>4, <3>2 DEF SettingsAgree
    <3> QED BY <1>1, <1>5, <2>1, <2>2, <3>1, <3>2, <3>4, <3>5 DEF SettingsAgree, Within, SettingsSteps
  <2> QED BY <2>3, <2>4
<1>7. CASE ApplyObservationMode(o)
  <2>1. /\ operation[o].pc = "applyObserved" /\ detectorLive' = [detectorLive EXCEPT !.observed = read.observed]
        /\ stale' = IF operation[o].alone THEN stale \ {"settings"} ELSE stale \cup {"settings"}
        /\ TakesStep(o) /\ operation'[o].pc = "idle"
    BY <1>7, Ending DEF ApplyObservationMode, OperationAt
  <2>2. /\ DOMAIN detectorLive' = {"on", "observed"}
        /\ detectorLive'.observed = read.observed /\ detectorLive'.on = detectorLive.on
    BY <2>1 DEF SettingsAgree
  <2>3. operation[o].alone => detectorLive' = detectorRow
    <3>1. operation[o].alone => read.observed = detectorRow.observed /\ detectorLive.on = detectorRow.on
      BY <1>1, <2>1 DEF SettingsAgree
    <3>2. detectorLive' = [on |-> detectorLive'.on, observed |-> detectorLive'.observed]
      BY <2>1, <2>2 DEF SettingsAgree
    <3>3. detectorRow = [on |-> detectorRow.on, observed |-> detectorRow.observed]
      BY DEF SettingsAgree
    <3> QED BY <2>2, <3>1, <3>2, <3>3
  <2>4. "settings" \in stale' \/ detectorLive' = detectorRow
    BY <2>1, <2>3
  <2> QED BY <1>1, <1>5, <2>1, <2>2, <2>4 DEF SettingsAgree, Within, SettingsSteps
<1> QED BY <1>6, <1>7

\* A new mail account is asked for (notify.go).
LEMMA UpdateNotifyConfigAgrees ==
  ASSUME MailAgrees, Steps, Solo, NEW o \in Operators, UpdateNotifyConfig(o)
  PROVE  TakesStep(o) /\ Within(o, MailSteps) /\ MailAgrees'
<1>1. PICK p : Starts(o, "saveMail", {"mail"}, p) /\ stale' = stale /\ UNCHANGED notificationVars
  BY DEF UpdateNotifyConfig, UnmaskPassword, GivePassword
<1>2. TakesStep(o)
  BY <1>1, StartingFits DEF MailSteps
<1>3. operation[o].pc = "idle" /\ operation'[o].pc = "saveMail" /\ Others(o)
  BY <1>1, Starting
<1>4. UNCHANGED <<keyIsSet, mailRow, mailPassword, mailGiven>>
  BY <1>1 DEF notificationVars
<1>5. MailAgrees'
  BY <1>1, <1>3, <1>4 DEF MailAgrees, Others, PasswordIsKept
<1> QED BY <1>2, <1>3, <1>5 DEF Within, MailSteps

\* It is written to its row, or is not, and put in force.
LEMMA SaveConfigAgrees ==
  ASSUME MailAgrees, Steps, Solo, NEW o \in Operators, ExecConfig(o) \/ SaveConfig(o)
  PROVE  TakesStep(o) /\ Within(o, MailSteps) /\ MailAgrees'
<1>1. operation[o].pc \in MailSteps
  BY DEF ExecConfig, SaveConfig, OperationAt, MailSteps
<1>2. DOMAIN operation[o] = Fields /\ operation[o].on = {"mail"}
  BY <1>1 DEF Steps, StepFits
<1>3. ASSUME NEW q \in Operators, q # o, operation[q].pc = "storeMail"
      PROVE  ~operation[q].alone
  <2>1. operation[q].on = {"mail"}
    BY <1>3 DEF Steps, StepFits, MailSteps
  <2> QED BY <1>2, <1>3, <2>1 DEF Solo
<1>4. TakesStep(o) => \A q \in Operators \ {o} :
        operation'[q].pc = "storeMail" => ~operation'[q].alone
  BY <1>3 DEF TakesStep, Others
<1>5. CASE /\ ExecConfig(o) /\ mailRow' = operation[o].read
           /\ Continue(o, [operation[o] EXCEPT !.pc = "storeMail"])
  <2> DEFINE step == [operation[o] EXCEPT !.pc = "storeMail"]
  <2>1. Continue(o, step)
    BY <1>5
  <2>2. /\ DOMAIN step = Fields /\ step.pc = "storeMail" /\ step.on = operation[o].on
        /\ step.read = operation[o].read /\ step.alone = operation[o].alone
    BY <1>2 DEF Fields
  <2> HIDE DEF step
  <2>3. StepFits(step)
    BY <1>2, <2>2 DEF StepFits, TableSteps, OverrideSteps, PolicySteps, SettingsSteps, MailSteps
  <2>4. TakesStep(o) /\ operation'[o] = step
    BY <2>1, <2>2, <2>3, Continuing
  <2> QED BY <1>1, <1>4, <1>5, <2>2, <2>4 DEF MailAgrees, Within, MailSteps
<1>6. CASE ExecConfig(o) /\ Continue(o, Idling) /\ UNCHANGED mailRow
  <2>1. /\ TakesStep(o) /\ operation'[o].pc = "idle" /\ operation[o].pc = "saveMail"
        /\ UNCHANGED <<stale, keyIsSet, mailRow, mailPassword, mailGiven>>
    BY <1>6, Ending DEF ExecConfig, OperationAt
  <2> QED BY <1>1, <1>4, <2>1 DEF MailAgrees, Within, MailSteps, TakesStep, Others, PasswordIsKept
<1>7. CASE SaveConfig(o)
  <2>1. /\ TakesStep(o) /\ operation'[o].pc = "idle" /\ operation[o].pc = "storeMail"
        /\ mailPassword' = operation[o].read /\ mailGiven' = operation[o].read /\ mailRow' = mailRow
        /\ stale' = IF operation[o].alone THEN stale \ {"mail"} ELSE stale \cup {"mail"}
    BY <1>7, Ending DEF SaveConfig, OperationAt
  <2>2. operation[o].alone => PasswordIsKept'
    BY <2>1 DEF MailAgrees, PasswordIsKept
  <2>3. ~operation[o].alone => "mail" \in stale'
    BY <2>1
  <2>4. "mail" \in stale' \/ PasswordIsKept'
    BY <2>2, <2>3
  <2> QED BY <1>1, <1>4, <2>1, <2>4 DEF MailAgrees, Within, MailSteps
<1> QED BY <1>5, <1>6, <1>7 DEF ExecConfig

\* An override is looked up, or all of them are to be loaded (bot.go).
LEMMA StartOverrideAgrees ==
  ASSUME OverridesAgree, Steps, Solo, NEW o \in Operators, LookUpOverride(o) \/ ReloadOverrides(o)
  PROVE  TakesStep(o) /\ Within(o, OverrideSteps) /\ OverridesAgree'
<1>1. PICK pc, read :
        /\ pc \in OverrideSteps \ {"storeOverrides"}
        /\ Starts(o, pc, {"override"}, read)
        /\ UNCHANGED <<overrideRow, knownBot, written, stale>>
        /\ pc = "update" => overrideRow # Null
        /\ pc \in {"insert", "update"} => read \in [columns : SUBSET Columns, value : BOOLEAN]
  <2>1. CASE ReloadOverrides(o)
    BY <2>1 DEF ReloadOverrides, botVars, OverrideSteps
  <2>2. CASE LookUpOverride(o)
    <3>1. PICK cs \in SUBSET Columns, on \in BOOLEAN :
            Starts(o, IF overrideRow = Null THEN "insert" ELSE "update", {"override"},
                   [columns |-> cs, value |-> on])
      BY <2>2 DEF LookUpOverride
    <3> DEFINE read == [columns |-> cs, value |-> on]
    <3>2. read \in [columns : SUBSET Columns, value : BOOLEAN]
      OBVIOUS
    <3>3. UNCHANGED <<overrideRow, knownBot, written, stale>>
      BY <2>2 DEF LookUpOverride, botVars
    <3>4. Starts(o, IF overrideRow = Null THEN "insert" ELSE "update", {"override"}, read)
      BY <3>1
    <3> HIDE DEF read
    <3>5. CASE overrideRow = Null
      <4>1. Starts(o, "insert", {"override"}, read)
        BY <3>4, <3>5
      <4> QED BY <3>2, <3>3, <4>1 DEF OverrideSteps
    <3>6. CASE overrideRow # Null
      <4>1. Starts(o, "update", {"override"}, read)
        BY <3>4, <3>6
      <4> QED BY <3>2, <3>3, <3>6, <4>1 DEF OverrideSteps
    <3> QED BY <3>5, <3>6
  <2> QED BY <2>1, <2>2
<1>2. TakesStep(o)
  BY <1>1, StartingFits
<1>3. operation[o].pc = "idle" /\ operation'[o].pc = pc /\ operation'[o].read = read /\ Others(o)
  BY <1>1, Starting
<1>4. NoOverrideIsLost' /\ Overridden(overrideRow)' = Overridden(overrideRow)
  BY <1>1 DEF OverridesAgree, NoOverrideIsLost, Overridden
<1>5. OverridesAgree'
  <2>1. \A q \in Operators \ {o} :
          /\ operation'[q].pc = operation[q].pc /\ operation'[q].read = operation[q].read
          /\ operation'[q].alone => operation[q].alone
    BY <1>3 DEF Others
  <2>2. "override" \in stale' \/ knownBot' = Overridden(overrideRow)
        \/ \E q \in Operators : operation'[q].pc \in OverrideSteps \ {"insert"}
    <3>1. ASSUME NEW q \in Operators, operation[q].pc \in OverrideSteps \ {"insert"}
          PROVE  operation'[q].pc \in OverrideSteps \ {"insert"}
      <4>1. q # o
        BY <1>3, <3>1 DEF OverrideSteps
      <4> QED BY <2>1, <3>1, <4>1
    <3> QED BY <1>1, <3>1 DEF OverridesAgree
  <2>3. operation'[o].pc # "storeOverrides"
    BY <1>1, <1>3
  <2>4. \A q \in Operators : operation'[q].pc = "update" => overrideRow' # Null
    BY <1>1, <1>3, <2>1 DEF OverridesAgree
  <2>5. \A q \in Operators : operation'[q].pc \in {"insert", "update"} =>
          operation'[q].read \in [columns : SUBSET Columns, value : BOOLEAN]
    BY <1>1, <1>3, <2>1 DEF OverridesAgree
  <2>6. \A q \in Operators : operation'[q].pc = "storeOverrides" /\ operation'[q].alone =>
          operation'[q].read = overrideRow'
    BY <1>1, <2>1, <2>3 DEF OverridesAgree
  <2> QED BY <1>1, <1>4, <2>2, <2>4, <2>5, <2>6 DEF OverridesAgree
<1> QED BY <1>1, <1>2, <1>3, <1>5 DEF Within

\* A statement of one operation, which then loads or goes on to its next column.
LEMMA OverrideStatement ==
  ASSUME OverridesAgree, Steps, Solo, NEW o \in Operators, NEW step, Continue(o, step),
         operation[o].pc \in {"insert", "update"},
         DOMAIN step = Fields, step.on = operation[o].on, step.alone = operation[o].alone,
         step.pc \in {"update", "loadOverrides"},
         step.pc = "update" => step.read \in [columns : SUBSET Columns, value : BOOLEAN],
         overrideRow' \in OverrideRows, overrideRow' # Null, DOMAIN written' = Columns, NoOverrideIsLost'
  PROVE  TakesStep(o) /\ Within(o, OverrideSteps) /\ OverridesAgree'
<1>1. operation[o].on = {"override"}
  BY DEF Steps, StepFits, OverrideSteps
<1>2. StepFits(step)
  BY <1>1 DEF StepFits, TableSteps, OverrideSteps, PolicySteps, SettingsSteps, MailSteps
<1>3. TakesStep(o) /\ operation'[o] = step
  BY <1>2, Continuing
<1>4. ASSUME NEW q \in Operators, operation'[q].pc = "storeOverrides", operation'[q].alone
      PROVE  FALSE
  <2>1. q # o
    BY <1>3, <1>4
  <2>2. operation[q].pc = "storeOverrides" /\ operation[q].alone
    BY <1>3, <1>4, <2>1 DEF TakesStep, Others
  <2>3. operation[q].on = {"override"}
    BY <2>2 DEF Steps, StepFits, OverrideSteps
  <2> QED BY <1>1, <2>1, <2>2, <2>3 DEF Solo
<1>5. \A q \in Operators \ {o} : operation'[q].pc = operation[q].pc /\ operation'[q].read = operation[q].read
  BY <1>3 DEF TakesStep, Others
<1>6. OverridesAgree'
  BY <1>3, <1>4, <1>5 DEF OverridesAgree, OverrideSteps
<1> QED BY <1>3, <1>6 DEF Within, OverrideSteps

\* An INSERT that comes second fails and leaves the row of the first.
LEMMA InsertOverrideAgrees ==
  ASSUME OverridesAgree, Steps, Solo, NEW o \in Operators, InsertOverride(o)
  PROVE  TakesStep(o) /\ Within(o, OverrideSteps) /\ OverridesAgree'
<1> DEFINE asked == operation[o].read
<1>1. operation[o].pc = "insert" /\ DOMAIN operation[o] = Fields /\ operation[o].on = {"override"}
  BY DEF InsertOverride, OperationAt, Steps, StepFits, OverrideSteps
<1>2. asked.columns \subseteq Columns /\ asked.value \in BOOLEAN
  BY <1>1 DEF OverridesAgree
<1>3. CASE overrideRow = Null /\ InsertsOverride(o)
  <2>1. /\ overrideRow' = [c \in Columns |-> IF c \in asked.columns THEN asked.value ELSE Null]
        /\ written' = [c \in Columns |-> IF c \in asked.columns THEN asked.value ELSE written[c]]
        /\ Continue(o, [operation[o] EXCEPT !.pc = "loadOverrides"])
    BY <1>3 DEF InsertsOverride
  <2>2. overrideRow' \in [Columns -> BOOLEAN \cup {Null}]
    BY <1>2, <2>1
  <2>3. overrideRow' \in OverrideRows /\ overrideRow' # Null
    BY <2>2, SecurityRulesAssumption DEF OverrideRows
  <2>4. \A c \in Columns : written[c] = Null
    BY <1>3 DEF OverridesAgree, NoOverrideIsLost
  <2>5. NoOverrideIsLost'
    BY <2>1, <2>3, <2>4 DEF NoOverrideIsLost
  <2> DEFINE step == [operation[o] EXCEPT !.pc = "loadOverrides"]
  <2>6. /\ DOMAIN step = Fields /\ step.pc = "loadOverrides" /\ step.on = operation[o].on
        /\ step.alone = operation[o].alone
    BY <1>1 DEF Fields
  <2>7. Continue(o, step) /\ DOMAIN written' = Columns
    BY <2>1
  <2> HIDE DEF step
  <2> QED BY <1>1, <2>3, <2>5, <2>6, <2>7, OverrideStatement
<1>4. CASE Continue(o, Idling) /\ UNCHANGED <<stale, botVars>>
  <2>1. TakesStep(o) /\ operation'[o].pc = "idle" /\ UNCHANGED <<stale, overrideRow, knownBot, written>>
    BY <1>4, Ending DEF botVars
  <2>2. NoOverrideIsLost' /\ Overridden(overrideRow)' = Overridden(overrideRow)
    BY <2>1 DEF OverridesAgree, NoOverrideIsLost, Overridden
  <2>3. \A q \in Operators \ {o} :
          /\ operation'[q].pc = operation[q].pc /\ operation'[q].read = operation[q].read
          /\ operation'[q].alone => operation[q].alone
    BY <2>1 DEF TakesStep, Others
  <2>4. OverridesAgree'
    BY <1>1, <2>1, <2>2, <2>3 DEF OverridesAgree
  <2> QED BY <1>1, <2>1, <2>4 DEF Within, OverrideSteps
<1> QED BY <1>3, <1>4 DEF InsertOverride

\* An UPDATE writes the columns it was asked for, and no other.
LEMMA UpdatesColumnAgrees ==
  ASSUME OverridesAgree, Steps, Solo, NEW o \in Operators, OperationAt(o, "update"), UpdatesColumn(o)
  PROVE  TakesStep(o) /\ Within(o, OverrideSteps) /\ OverridesAgree'
<1> DEFINE asked == operation[o].read
           c == IF "whitelisted" \in asked.columns THEN "whitelisted" ELSE "enabled"
<1>1. operation[o].pc = "update" /\ DOMAIN operation[o] = Fields /\ operation[o].on = {"override"}
  BY DEF OperationAt, Steps, StepFits, OverrideSteps
<1>2. asked \in [columns : SUBSET Columns, value : BOOLEAN] /\ overrideRow # Null
  BY <1>1 DEF OverridesAgree
<1>3. /\ overrideRow' = [overrideRow EXCEPT ![c] = asked.value]
      /\ written' = [written EXCEPT ![c] = asked.value]
      /\ Continue(o, IF asked.columns = {c} THEN [operation[o] EXCEPT !.pc = "loadOverrides"]
                     ELSE [operation[o] EXCEPT !.read.columns = @ \ {c}])
  BY DEF UpdatesColumn
<1>4. c \in Columns /\ asked.value \in BOOLEAN /\ overrideRow \in [Columns -> BOOLEAN \cup {Null}]
  BY <1>2 DEF Columns, OverridesAgree, OverrideRows
<1>5. overrideRow' \in [Columns -> BOOLEAN \cup {Null}]
  <2> HIDE DEF c
  <2> QED BY <1>3, <1>4
<1>6. overrideRow' \in OverrideRows /\ overrideRow' # Null
  BY <1>5, SecurityRulesAssumption DEF OverrideRows
<1>7. NoOverrideIsLost' /\ DOMAIN written' = Columns
  <2> HIDE DEF c
  <2>1. \A d \in Columns : overrideRow[d] = written[d]
    BY <1>2 DEF OverridesAgree, NoOverrideIsLost
  <2>2. DOMAIN written = Columns
    BY DEF OverridesAgree
  <2> QED BY <1>3, <1>4, <1>6, <2>1, <2>2 DEF NoOverrideIsLost
<1> DEFINE step == IF asked.columns = {c} THEN [operation[o] EXCEPT !.pc = "loadOverrides"]
                   ELSE [operation[o] EXCEPT !.read.columns = @ \ {c}]
<1>8. /\ DOMAIN step = Fields /\ step.on = operation[o].on /\ step.alone = operation[o].alone
      /\ step.pc \in {"update", "loadOverrides"}
      /\ step.pc = "update" => step.read \in [columns : SUBSET Columns, value : BOOLEAN]
  <2>1. CASE asked.columns = {c}
    <3>1. step = [operation[o] EXCEPT !.pc = "loadOverrides"]
      BY <2>1
    <3> HIDE DEF step
    <3> QED BY <1>1, <3>1 DEF Fields
  <2>2. CASE asked.columns # {c}
    <3>1. step = [operation[o] EXCEPT !.read = [asked EXCEPT !.columns = asked.columns \ {c}]]
      BY <2>2
    <3> HIDE DEF step, c
    <3> DEFINE left == [asked EXCEPT !.columns = asked.columns \ {c}]
    <3>2. left \in [columns : SUBSET Columns, value : BOOLEAN]
      BY <1>2
    <3>3. step = [operation[o] EXCEPT !.read = left]
      BY <3>1
    <3> HIDE DEF left
    <3> QED BY <1>1, <3>2, <3>3 DEF Fields
  <2> QED BY <2>1, <2>2
<1>9. Continue(o, step)
  BY <1>3
<1> HIDE DEF step
<1> QED BY <1>1, <1>6, <1>7, <1>8, <1>9, OverrideStatement

\* One that fails ends the call, with what was written before it not loaded.
LEMMA UpdateOverrideAgrees ==
  ASSUME OverridesAgree, Steps, Solo, NEW o \in Operators, UpdateOverride(o)
  PROVE  TakesStep(o) /\ Within(o, OverrideSteps) /\ OverridesAgree'
<1>1. CASE UpdatesColumn(o)
  BY <1>1, UpdatesColumnAgrees DEF UpdateOverride
<1>2. CASE Continue(o, Idling) /\ stale' = stale \cup {"override"} /\ UNCHANGED botVars
  <2>1. operation[o].pc = "update" /\ operation[o].on = {"override"}
    BY DEF UpdateOverride, OperationAt, Steps, StepFits, OverrideSteps
  <2>2. TakesStep(o) /\ operation'[o].pc = "idle"
    BY <1>2, Ending
  <2>3. \A q \in Operators \ {o} :
          /\ operation'[q].pc = operation[q].pc /\ operation'[q].read = operation[q].read
          /\ operation'[q].alone => operation[q].alone
    BY <2>2 DEF TakesStep, Others
  <2>4. "override" \in stale' /\ UNCHANGED <<overrideRow, written>>
    BY <1>2 DEF botVars
  <2>5. NoOverrideIsLost'
    BY <2>4 DEF OverridesAgree, NoOverrideIsLost
  <2>6. OverridesAgree'
    BY <2>2, <2>3, <2>4, <2>5 DEF OverridesAgree
  <2> QED BY <2>1, <2>2, <2>6 DEF Within, OverrideSteps
<1> QED BY <1>1, <1>2 DEF UpdateOverride

\* The overrides are read, and replace those in memory.
LEMMA LoadOverridesAgree ==
  ASSUME OverridesAgree, Steps, Solo, NEW o \in Operators, LoadOverrides(o) \/ StoreOverrides(o)
  PROVE  TakesStep(o) /\ Within(o, OverrideSteps) /\ OverridesAgree'
<1>1. /\ operation[o].pc \in {"loadOverrides", "storeOverrides"}
      /\ overrideRow' = overrideRow /\ written' = written
  BY DEF LoadOverrides, StoreOverrides, OperationAt, botVars
<1>2. DOMAIN operation[o] = Fields /\ operation[o].on = {"override"}
  BY <1>1 DEF Steps, StepFits, OverrideSteps
<1>3. NoOverrideIsLost' /\ Overridden(overrideRow)' = Overridden(overrideRow)
  BY <1>1 DEF OverridesAgree, NoOverrideIsLost, Overridden
<1>4. ASSUME TakesStep(o),
             \/ /\ operation'[o].pc = "storeOverrides"
                /\ operation'[o].alone => operation'[o].read = overrideRow
             \/ /\ operation'[o].pc = "idle"
                /\ "override" \in stale' \/ knownBot' = Overridden(overrideRow)
      PROVE  OverridesAgree'
  <2>1. \A q \in Operators \ {o} :
          /\ operation'[q].pc = operation[q].pc /\ operation'[q].read = operation[q].read
          /\ operation'[q].alone => operation[q].alone
    BY <1>4 DEF TakesStep, Others
  <2>2. "override" \in stale' \/ knownBot' = Overridden(overrideRow)
        \/ \E q \in Operators : operation'[q].pc \in OverrideSteps \ {"insert"}
    BY <1>4 DEF OverrideSteps
  <2>3. operation'[o].pc = "storeOverrides" /\ operation'[o].alone =>
          operation'[o].read = overrideRow
    BY <1>4
  <2> QED BY <1>1, <1>3, <1>4, <2>1, <2>2, <2>3 DEF OverridesAgree
<1>5. CASE LoadOverrides(o) /\ Continue(o, Idling) /\ stale' = stale \cup {"override"}
  BY <1>1, <1>4, <1>5, Ending DEF Within, OverrideSteps
<1>6. CASE /\ LoadOverrides(o) /\ UNCHANGED stale
           /\ Continue(o, [operation[o] EXCEPT !.pc = "storeOverrides", !.read = overrideRow])
  <2> DEFINE step == [operation[o] EXCEPT !.pc = "storeOverrides", !.read = overrideRow]
  <2>1. Continue(o, step)
    BY <1>6
  <2>2. /\ DOMAIN step = Fields /\ step.pc = "storeOverrides" /\ step.on = operation[o].on
        /\ step.read = overrideRow /\ step.alone = operation[o].alone
    BY <1>2 DEF Fields
  <2> HIDE DEF step
  <2>3. StepFits(step)
    BY <1>2, <2>2 DEF StepFits, TableSteps, OverrideSteps, PolicySteps, SettingsSteps, MailSteps
  <2>4. TakesStep(o) /\ operation'[o] = step
    BY <2>1, <2>2, <2>3, Continuing
  <2> QED BY <1>1, <1>4, <2>2, <2>4 DEF Within, OverrideSteps
<1>7. CASE StoreOverrides(o)
  <2>1. /\ operation[o].pc = "storeOverrides" /\ knownBot' = Overridden(operation[o].read)
        /\ stale' = IF operation[o].alone THEN stale \ {"override"} ELSE stale \cup {"override"}
        /\ TakesStep(o) /\ operation'[o].pc = "idle"
    BY <1>7, Ending DEF StoreOverrides, OperationAt
  <2>2. operation[o].alone => knownBot' = Overridden(overrideRow)
    BY <2>1 DEF OverridesAgree
  <2>3. ~operation[o].alone => "override" \in stale'
    BY <2>1
  <2> QED BY <1>1, <1>4, <2>1, <2>2, <2>3 DEF Within, OverrideSteps
<1> QED BY <1>5, <1>6, <1>7 DEF LoadOverrides

-----------------------------------------------------------------------------
\* Who is alone; and all that is in memory agrees with its table, but where an
\* operation is under way or something was left stale.
RulesInv ==
  /\ Steps /\ Solo
  /\ TablesAgree /\ OverridesAgree /\ PoliciesAgree /\ SettingsAgree /\ MailAgrees

\* So after the first start.
LEMMA RulesStart == RulesInit => RulesInv
<1> SUFFICES ASSUME RulesInit PROVE RulesInv
  OBVIOUS
<1>1. TablesAgree /\ Steps /\ Solo
  BY NewTablesAgree DEF RulesInit
<1>2. \A o \in Operators : operation[o].pc = "idle"
  BY DEF RulesInit, TablesAreNew, Idling
<1>3. OverridesAgree
  <2>1. overrideRow = Null /\ knownBot = DefaultBot /\ written = [c \in Columns |-> Null]
    BY DEF RulesInit, BotsInit
  <2>2. knownBot = Overridden(overrideRow)
    BY <2>1 DEF Overridden, DefaultBot
  <2> QED BY <1>2, <2>1, <2>2 DEF OverridesAgree, NoOverrideIsLost, OverrideRows
<1>4. PoliciesAgree
  BY <1>2 DEF PoliciesAgree, RulesInit, BotsInit, PolicyOf, PolicySteps
<1>5. SettingsAgree
  <2>1. detectorRow \in [on : BOOLEAN, observed : BOOLEAN] /\ detectorLive = detectorRow
    BY DEF RulesInit
  <2> QED BY <1>2, <2>1 DEF SettingsAgree, SettingsSteps
<1>6. MailAgrees
  BY <1>2 DEF MailAgrees, RulesInit, NotificationInit, PasswordIsKept
<1> QED BY <1>1, <1>3, <1>4, <1>5, <1>6 DEF RulesInv

\* So after every start.
LEMMA RestartAgrees == ASSUME RulesInv, RestartRules PROVE RulesInv'
<1>1. TablesAgree' /\ Steps' /\ Solo' /\ \A o \in Operators : operation'[o].pc = "idle"
  BY RestartedTablesAgree DEF RulesInv, RestartRules
<1>2. OverridesAgree'
  <2>1. UNCHANGED <<overrideRow, written>> /\ knownBot' = Overridden(overrideRow)
    BY DEF RestartRules
  <2>2. NoOverrideIsLost' /\ Overridden(overrideRow)' = Overridden(overrideRow)
    BY <2>1 DEF RulesInv, OverridesAgree, NoOverrideIsLost, Overridden
  <2> QED BY <1>1, <2>1, <2>2 DEF RulesInv, OverridesAgree
<1>3. PoliciesAgree'
  BY <1>1 DEF RestartRules, PoliciesAgree, PolicySteps, PolicyOf
<1>4. SettingsAgree'
  <2>1. detectorLive' = detectorRow /\ detectorRow' = detectorRow
    BY DEF RestartRules
  <2> QED BY <1>1, <2>1 DEF RulesInv, SettingsAgree, SettingsSteps
<1>5. MailAgrees'
  <2>1. PasswordIsKept'
    <3>1. /\ mailRow' = LoadedPassword /\ mailPassword' = LoadedPassword /\ keyIsSet' = keyIsSet
          /\ mailGiven' = IF \/ "mail" \in stale
                             \/ \E o \in Operators : operation[o].pc \in {"saveMail", "storeMail"}
                          THEN LoadedPassword ELSE mailGiven
      BY DEF RestartRules, NotificationRestarts
    <3>2. ASSUME keyIsSet, "mail" \notin stale,
                 ~\E o \in Operators : operation[o].pc \in {"saveMail", "storeMail"}
          PROVE  mailGiven = LoadedPassword
      BY <3>2 DEF RulesInv, MailAgrees, PasswordIsKept, LoadedPassword
    <3> QED BY <3>1, <3>2 DEF PasswordIsKept
  <2> QED BY <1>1, <2>1 DEF MailAgrees
<1> QED BY <1>1, <1>2, <1>3, <1>4, <1>5 DEF RulesInv

\* What an operation on one kind of thing leaves alone.
LEMMA PartsElsewhere ==
  ASSUME RulesInv, NEW o \in Operators, NEW pcs, TakesStep(o), Within(o, pcs), "idle" \notin pcs
  PROVE  /\ Steps' /\ Solo'
         /\ \A others : others \cap ({"idle"} \cup pcs) = {} => Same(others)
  BY StepsGoOn, StepElsewhere DEF RulesInv, Within

\* So after each step of any number of operations of all managers.
LEMMA RulesStep == RulesInv /\ [RulesNext(Managers)]_rulesVars => RulesInv'
<1> SUFFICES ASSUME RulesInv, [RulesNext(Managers)]_rulesVars PROVE RulesInv'
  OBVIOUS
<1>1. /\ {"override", "policy", "settings", "mail"} \cap Tables = {}
      /\ Steps /\ Solo /\ TablesAgree /\ OverridesAgree /\ PoliciesAgree /\ SettingsAgree /\ MailAgrees
  BY DEF RulesInv, Tables, EngineLists
<1>2. \A pcs, others \in {TableSteps, OverrideSteps, PolicySteps, SettingsSteps, MailSteps} :
        "idle" \notin pcs /\ (others # pcs => others \cap ({"idle"} \cup pcs) = {})
  BY DEF TableSteps, OverrideSteps, PolicySteps, SettingsSteps, MailSteps
<1>3. ASSUME Same(OverrideSteps), Same(PolicySteps), Same(SettingsSteps), Same(MailSteps),
             UNCHANGED <<botVars, detectorVars, notificationVars>>,
             \A x \in {"override", "policy", "settings", "mail"} : x \in stale => x \in stale'
      PROVE  OverridesAgree' /\ PoliciesAgree' /\ SettingsAgree' /\ MailAgrees'
  BY <1>1, <1>3, OverridesElsewhere, PoliciesElsewhere, SettingsElsewhere, MailElsewhere DEF botVars
<1>4. ASSUME NEW o \in Operators, TakesStep(o), Within(o, TableSteps), TablesAgree',
             \A x \in {"override", "policy", "settings", "mail"} : x \in stale => x \in stale',
             UNCHANGED <<botVars, detectorVars, notificationVars>>
      PROVE  RulesInv'
  <2>1. Steps' /\ Solo' /\ Same(OverrideSteps) /\ Same(PolicySteps) /\ Same(SettingsSteps) /\ Same(MailSteps)
    BY <1>4, PartsElsewhere DEF OverrideSteps, TableSteps, PolicySteps, SettingsSteps, MailSteps
  <2> QED BY <1>3, <1>4, <2>1 DEF RulesInv
<1>5. ASSUME NEW o \in Operators, Writes(o), UNCHANGED <<botVars, detectorVars, notificationVars>>
      PROVE  RulesInv'
  <2>1. ASSUME NEW t \in Tables, NEW rows, Fits(t, rows), WriteRows(o, t, rows) PROVE RulesInv'
    <3>1. TakesStep(o) /\ Within(o, TableSteps) /\ TablesAgree'
      BY <1>1, <2>1, WriteRowsAgree DEF Within
    <3>2. stale' = stale
      BY <2>1 DEF WriteRows
    <3> QED BY <1>4, <1>5, <3>1, <3>2
  <2>2. ASSUME NEW t \in {"methods", "limits"}, NEW r \in Rules, NEW row \in MaybeRow,
               WriteOnly(o, t, r, row)
        PROVE  RulesInv'
    <3>1. Steps' /\ Solo' /\ (\A pcs : Same(pcs)) /\ TablesAgree'
      BY <1>1, <2>2, WriteOnlyAgree
    <3>2. \A x : x \in stale => x \in stale'
      BY <2>2 DEF WriteOnly
    <3> QED BY <1>3, <1>5, <3>1, <3>2 DEF RulesInv
  <2>3. ASSUME NEW r \in Rules, ExpirePatch(r) PROVE RulesInv'
    <3>1. TablesAgree'
      BY <1>1, <2>3, ExpirePatchAgrees
    <3>2. operation' = operation /\ stale' = stale
      BY <2>3 DEF ExpirePatch
    <3>3. Steps' /\ Solo' /\ \A pcs : Same(pcs)
      BY <1>1, <3>2 DEF Steps, Solo, Same
    <3> QED BY <1>3, <1>5, <3>1, <3>2, <3>3 DEF RulesInv
  <2> QED BY <1>5, <2>1, <2>2, <2>3 DEF Writes
<1>6. ASSUME NEW o \in Operators, LoadRules(o) \/ StoreRules(o),
             UNCHANGED <<botVars, detectorVars, notificationVars>>
      PROVE  RulesInv'
  <2>1. TakesStep(o) /\ Within(o, TableSteps) /\ TablesAgree'
    BY <1>1, <1>6, LoadRulesAgree, StoreRulesAgree DEF Within
  <2>2. operation[o].on \subseteq Tables
    BY <1>1, <1>6 DEF LoadRules, StoreRules, OperationAt, Steps, StepFits, TableSteps
  <2>3. \A x \in stale \ operation[o].on : x \in stale'
    BY <1>6 DEF LoadRules, StoreRules
  <2>4. \A x \in {"override", "policy", "settings", "mail"} : x \in stale => x \in stale'
    BY <1>1, <2>2, <2>3
  <2> QED BY <1>4, <1>6, <2>1, <2>4
<1>7. ASSUME NEW o \in Operators, NEW m \in Managers, NEW t \in ReloadedTables(m), Reload(o, t),
             UNCHANGED <<botVars, detectorVars, notificationVars>>
      PROVE  RulesInv'
  <2>1. t \in Tables
    BY DEF ReloadedTables, Managers, Tables, EngineLists
  <2>2. TakesStep(o) /\ Within(o, TableSteps) /\ TablesAgree'
    BY <1>1, <1>7, <2>1, ReloadAgrees DEF Within
  <2>3. stale' = stale
    BY <1>7 DEF Reload
  <2> QED BY <1>4, <1>7, <2>2, <2>3
<1>8. ASSUME NEW o \in Operators, KnownBotHandlers(o), UNCHANGED <<detectorVars, notificationVars>>
      PROVE  RulesInv'
  <2>1. UNCHANGED tableVars
    BY <1>8 DEF KnownBotHandlers, APIBotKnownBotOverride, LookUpOverride, InsertOverride, InsertsOverride,
         UpdateOverride, UpdatesColumn, ReloadOverrides, LoadOverrides, StoreOverrides, APIBotSetPolicy,
         WritePolicy, ReloadPolicies, ApplyPolicy, botVars
  <2>2. CASE \/ LookUpOverride(o) \/ InsertOverride(o) \/ UpdateOverride(o)
             \/ ReloadOverrides(o) \/ LoadOverrides(o) \/ StoreOverrides(o)
    <3>1. TakesStep(o) /\ Within(o, OverrideSteps) /\ OverridesAgree'
      BY <1>1, <2>2, StartOverrideAgrees, InsertOverrideAgrees, UpdateOverrideAgrees, LoadOverridesAgree
    <3>2. UNCHANGED <<policy, policyRow>> /\ \A x : x # "override" /\ x \in stale => x \in stale'
      BY <2>2 DEF LookUpOverride, InsertOverride, InsertsOverride, UpdateOverride, UpdatesColumn,
                  ReloadOverrides, LoadOverrides, StoreOverrides, botVars
    <3>3. Steps' /\ Solo' /\ Same(TableSteps) /\ Same(PolicySteps) /\ Same(SettingsSteps) /\ Same(MailSteps)
      BY <1>2, <3>1, PartsElsewhere DEF OverrideSteps, TableSteps, PolicySteps, SettingsSteps, MailSteps
    <3>4. TablesAgree' /\ PoliciesAgree' /\ SettingsAgree' /\ MailAgrees'
      BY <1>1, <1>8, <2>1, <3>2, <3>3, TablesElsewhere, PoliciesElsewhere, SettingsElsewhere, MailElsewhere
    <3> QED BY <3>1, <3>3, <3>4 DEF RulesInv
  <2>3. CASE WritePolicy(o) \/ ReloadPolicies(o) \/ ApplyPolicy(o)
    <3>1. TakesStep(o) /\ Within(o, PolicySteps) /\ PoliciesAgree'
      BY <1>1, <2>3, WritePolicyAgrees, ApplyPolicyAgrees
    <3>2. /\ UNCHANGED <<overrideRow, knownBot, written>>
          /\ \A x : x # "policy" /\ x \in stale => x \in stale'
      BY <2>3 DEF WritePolicy, ReloadPolicies, ApplyPolicy, botVars
    <3>3. Steps' /\ Solo' /\ Same(TableSteps) /\ Same(OverrideSteps) /\ Same(SettingsSteps) /\ Same(MailSteps)
      BY <3>1, PartsElsewhere DEF OverrideSteps, TableSteps, PolicySteps, SettingsSteps, MailSteps
    <3>4. TablesAgree' /\ OverridesAgree' /\ SettingsAgree' /\ MailAgrees'
      BY <1>1, <1>8, <2>1, <3>2, <3>3, TablesElsewhere, OverridesElsewhere, SettingsElsewhere, MailElsewhere
    <3> QED BY <3>1, <3>3, <3>4 DEF RulesInv
  <2> QED BY <1>8, <2>2, <2>3 DEF KnownBotHandlers, APIBotKnownBotOverride, APIBotSetPolicy
<1>9. ASSUME NEW o \in Operators, DetectorSettings(o), UNCHANGED <<botVars, notificationVars>>
      PROVE  RulesInv'
  <2>1. TakesStep(o) /\ Within(o, SettingsSteps) /\ SettingsAgree'
    BY <1>1, <1>9, StartSettingsAgree, ApplySettingsAgree DEF DetectorSettings
  <2>2. UNCHANGED tableVars /\ \A x : x # "settings" /\ x \in stale => x \in stale'
    BY <1>9 DEF DetectorSettings, APIDetectorUpdate, APIDetectorToggle, ReloadDetectorSettings,
         ApplyDetectorConfig, ApplyObservationMode
  <2>3. Steps' /\ Solo' /\ Same(TableSteps) /\ Same(OverrideSteps) /\ Same(PolicySteps) /\ Same(MailSteps)
    BY <2>1, PartsElsewhere DEF OverrideSteps, TableSteps, PolicySteps, SettingsSteps, MailSteps
  <2>4. TablesAgree' /\ OverridesAgree' /\ PoliciesAgree' /\ MailAgrees'
    BY <1>1, <1>9, <2>2, <2>3, TablesElsewhere, OverridesElsewhere, PoliciesElsewhere, MailElsewhere DEF botVars
  <2> QED BY <2>1, <2>3, <2>4 DEF RulesInv
<1>10. ASSUME NEW o \in Operators, UpdateNotifyConfig(o) \/ ExecConfig(o) \/ SaveConfig(o),
              UNCHANGED detectorVars
       PROVE  RulesInv'
  <2>1. TakesStep(o) /\ Within(o, MailSteps) /\ MailAgrees'
    BY <1>1, <1>10, UpdateNotifyConfigAgrees, SaveConfigAgrees
  <2>2. UNCHANGED <<tableVars, botVars>> /\ \A x : x # "mail" /\ x \in stale => x \in stale'
    BY <1>10 DEF UpdateNotifyConfig, UnmaskPassword, GivePassword, ExecConfig, SaveConfig
  <2>3. Steps' /\ Solo' /\ Same(TableSteps) /\ Same(OverrideSteps) /\ Same(PolicySteps) /\ Same(SettingsSteps)
    BY <2>1, PartsElsewhere DEF OverrideSteps, TableSteps, PolicySteps, SettingsSteps, MailSteps
  <2>4. TablesAgree' /\ OverridesAgree' /\ PoliciesAgree' /\ SettingsAgree'
    BY <1>1, <1>10, <2>2, <2>3, TablesElsewhere, OverridesElsewhere, PoliciesElsewhere, SettingsElsewhere DEF botVars
  <2> QED BY <2>1, <2>3, <2>4 DEF RulesInv
<1>11. CASE UNCHANGED rulesVars
  <2>1. UNCHANGED <<tableVars, operation, stale, botVars, notificationVars, detectorVars>>
    BY <1>11 DEF rulesVars
  <2>2. Steps' /\ Solo' /\ \A pcs : Same(pcs)
    BY <1>1, <2>1 DEF Steps, Solo, Same
  <2>3. TablesAgree'
    BY <1>1, <2>1, <2>2, TablesElsewhere
  <2> QED BY <1>3, <2>1, <2>2, <2>3 DEF RulesInv
<1>12. ASSUME NEW o \in Operators, UNCHANGED <<botVars, detectorVars, notificationVars>>,
             \/ EngineHandlers(o) \/ ContentHandlers(o) \/ HeaderHandlers(o) \/ PatchHandlers(o)
             \/ BotHandlers(o) \/ DetectorRuleHandlers(o)
             \/ \E r \in Rules : UpdateAlertRule(o, r) \/ DeleteAlertRule(o, r)
      PROVE  RulesInv'
  BY <1>1, <1>5, <1>12, EngineWrites, ContentWrites, HeaderWrites, PatchWrites, BotWrites,
     DetectorWrites, AlertRuleWrites
<1> QED
  BY <1>6, <1>7, <1>8, <1>9, <1>10, <1>11, <1>12, RestartAgrees DEF RulesNext

\* So in every behaviour.
LEMMA RulesInvariant == RulesSpec => []RulesInv
  BY RulesStart, RulesStep, PTL DEF RulesSpec

(* UpdateKnownBotOverride (bot.go) looks the row up, inserts it or updates one
   column after the other with no transaction around: however many
   administrators override the same known bot at once, each column holds the
   value that was written to it last.                                        *)
THEOREM OverridesAreNotLost == RulesSpec => []NoOverrideIsLost
<1>1. RulesInv => NoOverrideIsLost
  BY DEF RulesInv, OverridesAgree
<1> QED BY <1>1, RulesInvariant, PTL

(* Every manager executes its statement and loads its table with no lock around
   both (security/rules, detector, dlprule, vpatch, bot, reqheader, respheader,
   pathbodylimit, apischema, notify): for any number of goroutines, rules and
   operations of all managers at once, whatever was not overtaken and did not
   fail is in memory as the load functions and the seeding of a start would
   build it.                                                                 *)
THEOREM RestartsKeepRules == RulesSpec => []RestartKeepsRules
<1>1. RulesInv => RestartKeepsRules
  <2> SUFFICES ASSUME RulesInv, \A o \in Operators : operation[o].pc = "idle"
               PROVE  RestartKeepsRules
    BY DEF RestartKeepsRules, OperationAt
  <2>1. \A o \in Operators : operation[o].on = {}
    BY DEF RulesInv, Steps, StepFits
  <2>2. TablesAreInForce
    <3>1. ASSUME NEW t \in Tables \ stale
          PROVE  StartedWith(ruleRows)[t] \ StartChanges(t) = inMemory[t] \ StartChanges(t)
      <4>1. Agrees(t, inMemory[t])
        BY <2>1 DEF RulesInv, TablesAgree
      <4>2. Agrees(t, StartedWith(ruleRows)[t])
        BY StartsAlike DEF RulesInv
      <4> QED BY <4>1, <4>2 DEF Agrees
    <3> QED BY <3>1 DEF TablesAreInForce
  <2>3. knownBot = Overridden(overrideRow) \/ "override" \in stale
    BY DEF RulesInv, OverridesAgree, OverrideSteps
  <2>4. policy = PolicyOf(policyRow) \/ "policy" \in stale
    BY DEF RulesInv, PoliciesAgree, PolicySteps
  <2>5. detectorLive = detectorRow \/ "settings" \in stale
    BY DEF RulesInv, SettingsAgree, SettingsSteps
  <2>6. PasswordIsKept \/ "mail" \in stale
    BY DEF RulesInv, MailAgrees
  <2> QED BY <2>2, <2>3, <2>4, <2>5, <2>6 DEF RestartKeepsRules
<1> QED BY <1>1, RulesInvariant, PTL
=============================================================================
