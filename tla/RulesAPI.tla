------------------------------ MODULE RulesAPI ------------------------------
(* The handlers of the administration that change rules (gateway/handler: ua.go,
   path.go, security_api.go, dlprule.go, apischema.go, reqheader.go,
   respheader.go, vpatch.go, bot.go, detector.go), what reloads rules without
   them (SIGHUP, restarts), and the settings of detectors and of notification. A request that cannot
   be decoded, lacks a parameter or finds no manager changes nothing; any other
   is handed to its manager, and the answer is the manager's.                *)
EXTENDS Notification

VARIABLES
  detectorRow,   \* detector_config of a detector: enabled and observation mode
  detectorLive   \* the same of the running proxy

detectorVars == <<detectorRow, detectorLive>>
rulesVars == <<tableVars, operation, stale, ruleChanges, botVars, notificationVars, detectorVars>>

RulesInit ==
  /\ TablesAreNew /\ BotsInit /\ NotificationInit
  /\ detectorRow = [on |-> TRUE, observed |-> FALSE] /\ detectorLive = detectorRow

----------------------------------------------------------------------------
\* ua.go and path.go: pages add and delete by POST.
UAPage(o, r) == AddUARule(o, r) \/ RemoveUARule(o, r)
UAUpdateAPI(o, r) == UpdateUARule(o, r)
UAToggleAPI(o, r) == ToggleUARule(o, r)
UADeleteAPI(o, r) == RemoveUARule(o, r)
PathPage(o, r) == AddPathRule(o, r) \/ RemovePathRule(o, r)
PathUpdateAPI(o, r) == UpdatePathRule(o, r)
PathToggleAPI(o, r) == TogglePathRule(o, r)
PathDeleteAPI(o, r) == RemovePathRule(o, r)

\* security_api.go
APIGeoRuleAdd(o, r) == AddGeoRule(o, r)
APIGeoRuleUpdate(o, r) == UpdateGeoRule(o, r)
APIGeoRuleDelete(o, r) == RemoveGeoRule(o, r)
APIAllowedMethodSet(o, r) == SetAllowedMethodDB(o, r)
APIAllowedMethodDelete(o, r) == RemoveAllowedMethodDB(o, r)
APIPathRateLimitAdd(o, r) == AddPathRateLimit(o, r)
APIPathRateLimitUpdate(o, r) == UpdatePathRateLimit(o, r)
APIPathRateLimitDelete(o, r) == RemovePathRateLimit(o, r)

EngineHandlers(o) ==
  \E r \in Rules :
    \/ UAPage(o, r) \/ UAUpdateAPI(o, r) \/ UAToggleAPI(o, r) \/ UADeleteAPI(o, r)
    \/ PathPage(o, r) \/ PathUpdateAPI(o, r) \/ PathToggleAPI(o, r) \/ PathDeleteAPI(o, r)
    \/ APIGeoRuleAdd(o, r) \/ APIGeoRuleUpdate(o, r) \/ APIGeoRuleDelete(o, r)
    \/ APIAllowedMethodSet(o, r) \/ APIAllowedMethodDelete(o, r)
    \/ APIPathRateLimitAdd(o, r) \/ APIPathRateLimitUpdate(o, r) \/ APIPathRateLimitDelete(o, r)

\* dlprule.go and apischema.go
APIDLPAdd(o, r) == AddDLPRule(o, r)
APIDLPUpdate(o, r) == UpdateDLPRule(o, r)
APIDLPDelete(o, r) == DeleteDLPRule(o, r)
APIAPIDlpToggle(o, r) == ToggleDLPRule(o, r)
APIAPISchemaAdd(o, r) == AddSchema(o, r)
APIAPISchemaUpdate(o, r) == UpdateSchema(o, r)
APIAPISchemaDelete(o, r) == DeleteSchema(o, r)
APIAPISchemaToggle(o, r) == ToggleSchema(o, r)

ContentHandlers(o) ==
  \E r \in Rules :
    \/ APIDLPAdd(o, r) \/ APIDLPUpdate(o, r) \/ APIDLPDelete(o, r) \/ APIAPIDlpToggle(o, r)
    \/ APIAPISchemaAdd(o, r) \/ APIAPISchemaUpdate(o, r)
    \/ APIAPISchemaDelete(o, r) \/ APIAPISchemaToggle(o, r)

\* reqheader.go and respheader.go; body limits have no handler.
APIReqHeaderAdd(o, r) == AddRequestHeader(o, r)
APIReqHeaderUpdate(o, r) == UpdateRequestHeader(o, r)
APIReqHeaderDelete(o, r) == DeleteRequestHeader(o, r)
APIReqHeaderToggle(o, r) == ToggleRequestHeader(o, r)
APIRespHeaderAdd(o, r) == AddResponseHeader(o, r)
APIRespHeaderUpdate(o, r) == UpdateResponseHeader(o, r)
APIRespHeaderDelete(o, r) == DeleteResponseHeader(o, r)
APIRespHeaderToggle(o, r) == ToggleResponseHeader(o, r)

HeaderHandlers(o) ==
  \E r \in Rules :
    \/ APIReqHeaderAdd(o, r) \/ APIReqHeaderUpdate(o, r)
    \/ APIReqHeaderDelete(o, r) \/ APIReqHeaderToggle(o, r)
    \/ APIRespHeaderAdd(o, r) \/ APIRespHeaderUpdate(o, r)
    \/ APIRespHeaderDelete(o, r) \/ APIRespHeaderToggle(o, r)
    \/ AddBodyLimit(o, r) \/ UpdateBodyLimit(o, r) \/ DeleteBodyLimit(o, r)

\* vpatch.go and bot.go
APIVPatchAdd(o, r) == AddPatch(o, r)
APIVPatchDelete(o, r) == DeletePatch(o, r)
APIVPatchToggle(o, r) == TogglePatch(o, r)

PatchHandlers(o) ==
  \/ \E r \in Rules : APIVPatchAdd(o, r) \/ APIVPatchDelete(o, r) \/ APIVPatchToggle(o, r) \/ ExpirePatch(r)
  \/ CleanupPatches(o)

APIBotRuleAdd(o, r) == AddBotRule(o, r)
APIBotRuleUpdate(o, r) == UpdateBotRule(o, r)
APIBotRuleDelete(o, r) == DeleteBotRule(o, r)
APIBotRuleToggleEnabled(o, r) == ToggleEnabled(o, r)
APIBotBatchDelete(o, rs) == BatchDelete(o, rs)
APIBotBatchToggleEnabled(o, rs) == BatchToggleEnabled(o, rs)

BotHandlers(o) ==
  \/ \E r \in Rules :
       \/ APIBotRuleAdd(o, r) \/ APIBotRuleUpdate(o, r)
       \/ APIBotRuleDelete(o, r) \/ APIBotRuleToggleEnabled(o, r)
  \/ \E rs \in SUBSET Rules \ {{}} : APIBotBatchDelete(o, rs) \/ APIBotBatchToggleEnabled(o, rs)

APIBotKnownBotOverride(o) == LookUpOverride(o)
APIBotSetPolicy(o) == WritePolicy(o)

KnownBotHandlers(o) ==
  \/ APIBotKnownBotOverride(o) \/ InsertOverride(o) \/ UpdateOverride(o)
  \/ ReloadOverrides(o) \/ LoadOverrides(o) \/ StoreOverrides(o)
  \/ APIBotSetPolicy(o) \/ ReloadPolicies(o) \/ ApplyPolicy(o)

----------------------------------------------------------------------------
\* detector.go: rules of one detector are loaded by the handler itself.
APIDetectorAddRule(o, r) == AddCustomRule(o, r)
APIDetectorRemoveRule(o, r) == RemoveRule(o, r)
APIDetectorToggleRule(o, r) == ToggleRule(o, r)

\* Settings go to the table, then to the running proxy, enabled first; a toggle
\* leaves the observation mode alone.
APIDetectorUpdate(o) ==
  \E row \in [on : BOOLEAN, observed : BOOLEAN] :
    /\ Starts(o, "applyEnabled", {"settings"}, row)
    /\ detectorRow' = row
    /\ UNCHANGED <<tableVars, stale, detectorLive>>
APIDetectorToggle(o) ==
  \E on \in BOOLEAN :
    /\ Starts(o, "applyEnabled", {"settings"}, [on |-> on, observed |-> Null])
    /\ detectorRow' = [detectorRow EXCEPT !.on = on]
    /\ UNCHANGED <<tableVars, stale, detectorLive>>

\* SIGHUP reads the table and applies it in the same way.
ReloadDetectorSettings(o) ==
  /\ Starts(o, "applyEnabled", {"settings"}, detectorRow)
  /\ UNCHANGED <<tableVars, stale, detectorVars>>

ApplyDetectorConfig(o) ==
  /\ OperationAt(o, "applyEnabled")
  /\ detectorLive' = [detectorLive EXCEPT !.on = operation[o].read.on]
  /\ IF operation[o].read.observed = Null
     THEN /\ Continue(o, Idling)
          /\ stale' = IF operation[o].alone THEN stale ELSE stale \cup {"settings"}
     ELSE Continue(o, [operation[o] EXCEPT !.pc = "applyObserved"]) /\ UNCHANGED stale
  /\ UNCHANGED <<tableVars, ruleChanges, detectorRow>>
ApplyObservationMode(o) ==
  /\ OperationAt(o, "applyObserved")
  /\ detectorLive' = [detectorLive EXCEPT !.observed = operation[o].read.observed]
  /\ stale' = IF operation[o].alone THEN stale \ {"settings"} ELSE stale \cup {"settings"}
  /\ Continue(o, Idling)
  /\ UNCHANGED <<tableVars, ruleChanges, detectorRow>>

DetectorRuleHandlers(o) ==
  \E r \in Rules :
    APIDetectorAddRule(o, r) \/ APIDetectorRemoveRule(o, r) \/ APIDetectorToggleRule(o, r)
DetectorSettings(o) ==
  \/ APIDetectorUpdate(o) \/ APIDetectorToggle(o) \/ ReloadDetectorSettings(o)
  \/ ApplyDetectorConfig(o) \/ ApplyObservationMode(o)

----------------------------------------------------------------------------
\* The process ends and starts: what was begun is gone, the tables are read.
RestartRules ==
  /\ TablesRestart
  /\ knownBot' = Overridden(overrideRow) /\ policy' = PolicyOf(policyRow)
  /\ detectorLive' = detectorRow /\ NotificationRestarts
  /\ UNCHANGED <<overrideRow, policyRow, written, detectorRow>>

Managers == {"engine", "content", "headers", "vpatch", "bot", "detector", "known bots",
             "detector settings", "alerts", "mail"}
ReloadedTables(m) ==
  CASE m = "engine"  -> {"ua"}
    [] m = "content" -> {"dlp", "schema"}
    [] m = "headers" -> {"reqheader", "respheader", "bodylimit"}
    [] m \in {"vpatch", "bot"} -> {m}
    [] OTHER -> {}

\* Operations of some of the managers, which share nothing but the goroutines.
RulesNext(ms) ==
  \/ \E o \in Operators :
       /\ \/ "engine" \in ms /\ EngineHandlers(o)
          \/ "content" \in ms /\ ContentHandlers(o)
          \/ "headers" \in ms /\ HeaderHandlers(o)
          \/ "vpatch" \in ms /\ PatchHandlers(o)
          \/ "bot" \in ms /\ BotHandlers(o)
          \/ "detector" \in ms /\ DetectorRuleHandlers(o)
          \/ "alerts" \in ms /\ \E r \in Rules : UpdateAlertRule(o, r) \/ DeleteAlertRule(o, r)
          \/ \E m \in ms : \E t \in ReloadedTables(m) : Reload(o, t)
          \/ LoadRules(o) \/ StoreRules(o)
       /\ UNCHANGED <<botVars, detectorVars, notificationVars>>
  \/ \E o \in Operators :
       /\ "known bots" \in ms /\ KnownBotHandlers(o)
       /\ UNCHANGED <<detectorVars, notificationVars>>
  \/ \E o \in Operators :
       /\ "detector settings" \in ms /\ DetectorSettings(o)
       /\ UNCHANGED <<botVars, notificationVars>>
  \/ \E o \in Operators :
       /\ "mail" \in ms /\ (UpdateNotifyConfig(o) \/ ExecConfig(o) \/ SaveConfig(o))
       /\ UNCHANGED detectorVars
  \/ RestartRules

RulesSpec == RulesInit /\ [][RulesNext(Managers)]_rulesVars

----------------------------------------------------------------------------
\* When operations on a table did not overlap, did not fail and have ended, a
\* restart changes nothing of what requests are checked against, but for patches
\* that have expired, agents that are left to the bot manager and builtin rules
\* that were deleted, and of how alerts are mailed: every operation of the managers leaves memory as the load
\* functions and the seeding of builtin rules would build it.
RestartKeepsRules ==
  (\A o \in Operators : OperationAt(o, "idle")) =>
    /\ TablesAreInForce
    /\ knownBot = Overridden(overrideRow) \/ "override" \in stale
    /\ policy = PolicyOf(policyRow) \/ "policy" \in stale
    /\ detectorLive = detectorRow \/ "settings" \in stale
    /\ PasswordIsKept \/ "mail" \in stale
=============================================================================
