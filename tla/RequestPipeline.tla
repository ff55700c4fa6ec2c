-------------------------- MODULE RequestPipeline --------------------------
(* internal/domain/proxy/detect.go: what WAFProxy.ServeHTTP does with one
   request while an administrator changes the configuration under it.

   Every check reads the part of the configuration it needs when it runs, so a
   request may be judged by settings of different moments; the attack check
   reads the observation modes twice. A POST body is read by up to three checks,
   each of which puts a copy back for the next one and for the backend.
   Requests share nothing here, so one request at a time stands for all: what
   they do share is in Challenges and ResponseScan.                           *)
EXTENDS FiniteSets, Integers

CONSTANTS
  Filters,   \* what the checks before detection look at: address, country, path, ...
  Attacks,   \* attack types
  Patches,   \* virtual patches
  DetectorOrder,   \* <<a, b>>: detector a runs before detector b
  Profiles,        \* the kinds of requests
  MaxChanges       \* bound: how often the configuration changes

Schemas == {"schema"}
Traits == Filters \cup Attacks \cup Patches \cup Schemas
Bodies == {"none", "short", "long", "broken"}   \* "broken": the client stops half-way

\* A request, as far as the checks tell requests apart. Only POST, PUT and PATCH
\* have their body read.
ASSUME PipelineAssumption ==
  /\ Profiles \subseteq [ws : BOOLEAN, post : BOOLEAN, trips : SUBSET Traits, body : Bodies]
  /\ DetectorOrder \subseteq Attacks \X Attacks
  /\ \A S \in SUBSET Attacks :       \* the detectors are a list: some detector is first
       S # {} => \E a \in S : \A s \in S : a = s \/ <<a, s>> \in DetectorOrder
  /\ MaxChanges \in Nat

VARIABLES
  wafOn,       \* wafGlobalEnabled
  inForce,     \* the enabled rules, detectors and patches
  observing,   \* Manager.observationModes: the attack types only logged
  narrow,      \* whether GetMaxRequestBody or a path limit is below a long body
  request,     \* the request, and how far it is
  changes,     \* how often the configuration has changed
  held         \* what has been in force, and the attack types blocked, all along

pipelineVars == <<wafOn, inForce, observing, narrow, request, changes, held>>

Idle == [pc |-> "idle", is |-> [ws |-> FALSE, post |-> FALSE, trips |-> {}, body |-> "none"],
         carries |-> "none", found |-> {}, inspected |-> FALSE]

PipelineInit ==
  /\ wafOn = TRUE
  /\ inForce = Traits
  /\ observing = {}
  /\ narrow = FALSE
  /\ request = Idle
  /\ changes = 0
  /\ held = {}

Go(pc) == request' = [request EXCEPT !.pc = pc]
Config == <<wafOn, inForce, observing, narrow, changes>>

-----------------------------------------------------------------------------
\* ServeHTTP: the switch is read once, before anything is checked.
Arrive ==
  /\ request.pc = "idle"
  /\ \E is \in Profiles :
       request' = [pc |-> IF wafOn THEN "filters" ELSE "forward", is |-> is,
                   carries |-> is.body, found |-> {}, inspected |-> wafOn]
  /\ held' = inForce \ observing
  /\ UNCHANGED Config

\* checkPreDetectionRules
CheckFilters ==
  /\ request.pc = "filters"
  /\ Go(IF request.is.trips \cap inForce \cap Filters # {} THEN "blocked" ELSE "limits")
  /\ UNCHANGED <<Config, held>>

\* checkRateLimits: refused, challenged, or on. A WebSocket upgrade goes past the
\* schema check.
CheckRateLimits ==
  /\ request.pc = "limits"
  /\ \E next \in {"blocked", IF request.is.ws THEN "attacks" ELSE "schema"} : Go(next)
  /\ UNCHANGED <<Config, held>>

\* readRequestBody: the body is taken off the connection and a copy put in its
\* place; a body that cannot be read to its end is replaced by an empty one.
Drained(body) == "none"   \* without the copy
Reread(body) == IF body = "broken" THEN "none" ELSE body
OverLimit(body) == body = "long" /\ narrow

\* A check that reads the body, then decides.
AfterReading(stops, next) ==
  IF ~request.is.post THEN Go(IF stops THEN "blocked" ELSE next)
  ELSE request' = [request EXCEPT
         !.carries = Reread(@),
         !.pc = IF stops \/ OverLimit(Reread(request.carries)) THEN "blocked" ELSE next]

\* checkAPISchema
CheckSchema ==
  /\ request.pc = "schema"
  /\ AfterReading(request.is.trips \cap inForce \cap Schemas # {}, "attacks")
  /\ UNCHANGED <<Config, held>>

\* detectSequential: the enabled detectors in their order, until one finds an
\* attack whose type is not observed.
StoppedAtAny ==   \* observed or not
  LET hits == request.is.trips \cap inForce \cap Attacks
  IN {a \in hits : \A s \in hits : a = s \/ <<a, s>> \in DetectorOrder}

Detected ==
  LET hits == request.is.trips \cap inForce \cap Attacks
      stops == hits \ observing
  IN {a \in hits : \A s \in stops : a = s \/ <<a, s>> \in DetectorOrder}

\* checkAttackDetection: the results are computed ...
Detect ==
  /\ request.pc = "attacks"
  /\ request' = [request EXCEPT
       !.carries = IF request.is.post THEN Reread(@) ELSE @,
       !.found = Detected,
       !.pc = IF request.is.post /\ OverLimit(Reread(request.carries))
              THEN "blocked" ELSE "judge"]
  /\ UNCHANGED <<Config, held>>

\* ... and the observation modes are asked again for each of them.
Judge ==
  /\ request.pc = "judge"
  /\ Go(IF request.found \ observing # {} THEN "blocked" ELSE "patches")
  /\ UNCHANGED <<Config, held>>

\* checkVPatch
CheckVPatch ==
  /\ request.pc = "patches"
  /\ AfterReading(request.is.trips \cap inForce \cap Patches # {}, "forward")
  /\ UNCHANGED <<Config, held>>

\* forwardRequest, or ReverseProxy.ServeHTTP alone when the switch is off.
Forward ==
  /\ request.pc = "forward"
  /\ Go("forwarded")
  /\ UNCHANGED <<Config, held>>

Answered ==
  /\ request.pc \in {"blocked", "forwarded"}
  /\ request' = Idle
  /\ held' = {}
  /\ UNCHANGED Config

-----------------------------------------------------------------------------
\* SetGlobalEnabled
SetGlobalEnabled ==
  /\ wafOn' = ~wafOn
  /\ UNCHANGED <<inForce, observing, narrow, request, held>>

\* A rule is added, deleted, enabled or disabled; EnableDetector.
SetRule(t) ==
  /\ inForce' = IF t \in inForce THEN inForce \ {t} ELSE inForce \cup {t}
  /\ held' = held \cap inForce'
  /\ UNCHANGED <<wafOn, observing, narrow, request>>

\* The types that detection stopped at: nothing after them was looked for.
Cut(t) == request.pc = "judge" /\ t \in request.found /\ t \notin observing

\* SetObservationMode. A type that becomes observed between Detect and Judge
\* takes with it what detection never looked for because of it.
SetObservationMode(t) ==
  /\ observing' = IF t \in observing THEN observing \ {t} ELSE observing \cup {t}
  /\ held' = IF Cut(t) THEN held \ Attacks ELSE held \ observing'
  /\ UNCHANGED <<wafOn, inForce, narrow, request>>

SetBodyLimit ==
  /\ narrow' = ~narrow
  /\ UNCHANGED <<wafOn, inForce, observing, request, held>>

Administer ==
  /\ changes < MaxChanges
  /\ changes' = changes + 1
  /\ \/ SetGlobalEnabled \/ SetBodyLimit
     \/ \E t \in Traits : SetRule(t)
     \/ \E t \in Attacks : SetObservationMode(t)

ServeHTTP ==
  \/ Arrive \/ CheckFilters \/ CheckRateLimits \/ CheckSchema \/ Detect \/ Judge
  \/ CheckVPatch \/ Forward \/ Answered

PipelineNext == ServeHTTP \/ Administer
PipelineSpec == PipelineInit /\ [][PipelineNext]_pipelineVars

-----------------------------------------------------------------------------
Passed == request.pc = "forwarded" /\ request.inspected

(* A request is checked against settings of different moments, but a rule that
   was in force from its arrival to its end cannot have been missed: what the
   WAF forwards trips no such rule. For a WebSocket upgrade the schema is not
   asked. An attack type that is switched to observation after detection stopped
   at it is the one exception: what would have been found after it is lost.    *)
RuleInForceIsEnforced ==
  Passed => request.is.trips \cap held \subseteq (IF request.is.ws THEN Schemas ELSE {})

(* However many checks read the body, and whatever the limit was at each of
   them, the backend gets the whole body, or none when the client broke off.   *)
BackendGetsWholeBody ==
  Passed /\ request.is.post =>
    request.carries = IF request.is.body = "broken" THEN "none" ELSE request.is.body
=============================================================================
