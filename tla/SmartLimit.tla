----------------------------- MODULE SmartLimit -----------------------------
(* internal/domain/security/ratelimit/engine.go: the smart rate limiter's
   configuration and its decisions, with smartlimit.go of the administration and
   the set-up in cmd/waf/main.go.

   A configuration is an object that an update replaces as a whole; an update is
   a version here. Evaluate reads the mode from the live object and everything
   else from a clone that is kept for a second. How a profile comes to its score
   is left to the profile: a request brings the evidence the score depends on. *)
EXTENDS FiniteSets, Integers

CONSTANTS
  Requests,     \* goroutines that evaluate requests
  Editors,      \* requests that change the configuration
  MaxVersions   \* bound on updates

Versions == 0..MaxVersions
Modes == {"observe", "intercept"}
NoClone == -1

\* What the profile says of an address, strongest first: a suspect fingerprint
\* group, too many requests in all, three times the request limit, twice the
\* block limit, or a score between the thresholds.
Evidence == {"suspect", "flood", "requests", "blocks",
             "block", "challenge", "throttle", "near", "normal"}

VARIABLES
  latest,     \* the last version made
  modeOf,     \* each version's mode
  live,       \* e.config
  booted,     \* the object main.go loaded: savedRateLimitCfg
  savedLimits, \* system_config smartlimit_config: what a restart loads
  clone,      \* cachedConfig: a version, or NoClone
  cloneIs,    \* whether the clone is "fresh", less than a second old, or "old"
  forms,      \* each administrator's update: the copy it is made from, then its saving
  eval        \* each goroutine's evaluation

limitVars == <<latest, modeOf, live, booted, savedLimits, clone, cloneIs, forms, eval>>

NotEvaluating == [pc |-> "none", since |-> 0, mode |-> "intercept", version |-> 0,
                  action |-> "Allow"]
NoForm == [pc |-> "none"]

LimitInit ==
  /\ latest = 0 /\ live = 0 /\ booted = 0 /\ savedLimits = 0
  /\ modeOf = [v \in Versions |-> "intercept"]
  /\ clone = NoClone /\ cloneIs = "old"
  /\ forms = [e \in Editors |-> NoForm]
  /\ eval = [r \in Requests |-> NotEvaluating]

ConfigUnchanged == UNCHANGED <<latest, modeOf, live, booted, savedLimits, forms>>

-----------------------------------------------------------------------------
\* APIUpdateSmartLimitConfig takes a copy of the live object, sets what the form
\* gives and is in range, and makes the copy the new object: what another form
\* has changed since is lost.
APIUpdateSmartLimitConfig(e) ==
  /\ forms[e].pc = "none"
  /\ \E m \in Modes : forms' = [forms EXCEPT ![e] = [pc |-> "filled", mode |-> m]]
  /\ UNCHANGED <<latest, modeOf, live, booted, savedLimits, clone, cloneIs, eval>>

\* UpdateConfig, with e.mu held.
UpdateKeepsClone(e) ==
  /\ forms[e].pc = "filled" /\ latest < MaxVersions
  /\ latest' = latest + 1
  /\ live' = latest + 1
  /\ modeOf' = [modeOf EXCEPT ![latest + 1] = forms[e].mode]
  /\ forms' = [forms EXCEPT ![e] = [pc |-> "save"]]
  /\ UNCHANGED <<booted, savedLimits, clone, cloneIs, eval>>

UpdateLimits(e) ==
  /\ forms[e].pc = "filled" /\ latest < MaxVersions
  /\ latest' = latest + 1
  /\ live' = latest + 1
  /\ modeOf' = [modeOf EXCEPT ![latest + 1] = forms[e].mode]
  /\ clone' = NoClone
  /\ forms' = [forms EXCEPT ![e] = [pc |-> "save"]]
  /\ UNCHANGED <<booted, savedLimits, cloneIs, eval>>

\* SaveToFile, after e.mu is released: the saver the new object inherits was made
\* for the object that was loaded, and saves that one.
SaveLimits(e) ==
  /\ forms[e].pc = "save"
  /\ savedLimits' = booted
  /\ forms' = [forms EXCEPT ![e] = NoForm]
  /\ UNCHANGED <<latest, modeOf, live, booted, clone, cloneIs, eval>>

\* The process stops and initProxyAndRateLimit loads what was saved.
RestartLimits ==
  /\ live' = savedLimits /\ booted' = savedLimits
  /\ clone' = NoClone /\ cloneIs' = "old"
  /\ forms' = [e \in Editors |-> NoForm]
  /\ eval' = [r \in Requests |-> NotEvaluating]
  /\ UNCHANGED <<latest, modeOf, savedLimits>>

CloneAges ==
  /\ cloneIs = "fresh" /\ cloneIs' = "old"
  /\ ConfigUnchanged /\ UNCHANGED <<clone, eval>>

-----------------------------------------------------------------------------
\* Evaluate: enabled and mode, under the read lock.
ReadMode(r) ==
  /\ eval[r].pc = "none"
  /\ eval' = [eval EXCEPT ![r] = [NotEvaluating EXCEPT
       !.pc = "config", !.since = live, !.mode = modeOf[live]]]
  /\ ConfigUnchanged /\ UNCHANGED <<clone, cloneIs>>

\* getConfigCached: the clone, if it is young enough ...
UseClone(r) ==
  /\ eval[r].pc \in {"config", "locked"}
  /\ clone # NoClone /\ cloneIs = "fresh"
  /\ eval' = [eval EXCEPT ![r].pc = "score", ![r].version = clone]
  /\ ConfigUnchanged /\ UNCHANGED <<clone, cloneIs>>

MissClone(r) ==
  /\ eval[r].pc = "config"
  /\ clone = NoClone \/ cloneIs = "old"
  /\ eval' = [eval EXCEPT ![r].pc = "locked"]
  /\ ConfigUnchanged /\ UNCHANGED <<clone, cloneIs>>

\* ... or a new one, made under the write lock after another look.
MakeClone(r) ==
  /\ eval[r].pc = "locked"
  /\ clone = NoClone \/ cloneIs = "old"
  /\ clone' = live /\ cloneIs' = "fresh"
  /\ eval' = [eval EXCEPT ![r].pc = "score", ![r].version = live]
  /\ ConfigUnchanged

\* The rest of Evaluate. Observing, only the first two reasons still refuse.
Observed(mode, action) == IF mode = "observe" THEN "Allow" ELSE action

Decide(mode, evidence) ==
  CASE evidence = "suspect"   -> "Challenge"
    [] evidence = "flood"     -> "Throttle"
    [] evidence = "requests"  -> Observed(mode, "Throttle")
    [] evidence = "blocks"    -> Observed(mode, "Block")
    [] evidence = "block"     -> Observed(mode, "Block")
    [] evidence = "challenge" -> Observed(mode, "Challenge")
    [] evidence = "throttle"  -> Observed(mode, "Throttle")
    [] evidence = "near"      -> Observed(mode, "Slowdown")
    [] evidence = "normal"    -> "Allow"

Score(r) ==
  /\ eval[r].pc = "score"
  /\ \E e \in Evidence :
       eval' = [eval EXCEPT ![r].pc = "done", ![r].action = Decide(eval[r].mode, e)]
  /\ ConfigUnchanged /\ UNCHANGED <<clone, cloneIs>>

Decided(r) ==
  /\ eval[r].pc = "done"
  /\ eval' = [eval EXCEPT ![r] = NotEvaluating]
  /\ ConfigUnchanged /\ UNCHANGED <<clone, cloneIs>>

LimitNext ==
  \/ \E e \in Editors : APIUpdateSmartLimitConfig(e) \/ UpdateLimits(e) \/ SaveLimits(e)
  \/ RestartLimits \/ CloneAges
  \/ \E r \in Requests : \/ ReadMode(r) \/ UseClone(r) \/ MissClone(r) \/ MakeClone(r)
                         \/ Score(r) \/ Decided(r)

LimitSpec == LimitInit /\ [][LimitNext]_limitVars

-----------------------------------------------------------------------------
(* Though thresholds come from a clone a second old, no request is judged by
   thresholds that had been replaced before its evaluation began.              *)
ThresholdsAreCurrent ==
  \A r \in Requests : eval[r].pc = "score" => eval[r].version >= eval[r].since
=============================================================================
