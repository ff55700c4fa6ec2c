--------------------------- MODULE Requests_proofs ---------------------------
(* What a request meets on its way, and what it leaves: the challenges it answers,
   the limits it is measured against, the filters, detectors and patches it passes,
   the response that is scanned on the way back, the line of the access log, and the
   alerts that requests raise together.                                        *)
EXTENDS Challenges, SmartLimit, RequestPipeline, ResponseScan, AccessLog, Alerts,
        SequenceTheorems, FiniteSetTheorems, TLAPS

-----------------------------------------------------------------------------
(* The promises of the challenge store, for any number of clients and
   challenges, however their requests overlap.                               *)
(* A challenge is handed out once: what is still to be handed out is in neither
   map and has let nothing through. A token in the map has let nothing through,
   nor an answer whose challenge is in the map. What a request arrived with had
   let a request through then, and has since; and an answer that was found in
   the map was not among it.                                                   *)
FreshIsUnknown ==
  /\ fresh \cap powChallenges = {} /\ fresh \cap jsChallenges = {}
  /\ fresh \cap used = {}
  /\ \A c \in fresh : spent[c] = 0

TokensAreUnspent == \A c \in jsChallenges : spent[c] = 0
AnswersAreUnused == powChallenges \cap used = {}
AfterIsUsed == \A g \in Clients : after[g] \subseteq used

FoundBeforeUse ==
  \A g \in Clients : ClientAt(g, "delete") =>
    serving[g].pow \in Challenges \ fresh /\ serving[g].pow \notin after[g]

CInv == /\ ChallengesTypeOK
        /\ FreshIsUnknown /\ TokensAreUnspent /\ AnswersAreUnused /\ AfterIsUsed /\ FoundBeforeUse
        /\ TokenPassesOnce /\ AnswerExpiresOnUse

\* Nothing has been handed out.
LEMMA StoreInit == ChallengesInit => CInv
  BY DEF ChallengesInit, CInv, ChallengesTypeOK, FreshIsUnknown, TokensAreUnspent, AnswersAreUnused,
         AfterIsUsed, FoundBeforeUse, TokenPassesOnce, AnswerExpiresOnUse, Away, ClientAt

\* A step of a request keeps the promises, whatever the others are doing.
LEMMA StoreNext == CInv /\ [ChallengesNext]_challengeVars => CInv'
<1> SUFFICES ASSUME CInv, [ChallengesNext]_challengeVars
             PROVE  CInv'
  OBVIOUS
<1> USE DEF CInv, ChallengesTypeOK
<1>1. ASSUME NEW g \in Clients, Challenged(g)
      PROVE  CInv'
  <2>1. ChallengesTypeOK'
    BY <1>1 DEF Challenged, Solved, ClientAt
  <2>2. FreshIsUnknown'
    BY <1>1 DEF Challenged, Solved, FreshIsUnknown, ClientAt
  <2>3. TokensAreUnspent'
    BY <1>1 DEF Challenged, Solved, TokensAreUnspent, ClientAt
  <2>4. AnswersAreUnused'
    BY <1>1 DEF Challenged, Solved, AnswersAreUnused, ClientAt
  <2>5. AfterIsUsed'
    BY <1>1 DEF Challenged, Solved, AfterIsUsed, ClientAt
  <2>6. FoundBeforeUse'
    BY <1>1 DEF Challenged, Solved, FoundBeforeUse, ClientAt
  <2>7. TokenPassesOnce'
    BY <1>1 DEF Challenged, Solved, TokenPassesOnce, ClientAt
  <2>8. AnswerExpiresOnUse'
    BY <1>1 DEF Challenged, Solved, AnswerExpiresOnUse, ClientAt
  <2> QED
    BY <2>1, <2>2, <2>3, <2>4, <2>5, <2>6, <2>7, <2>8 DEF CInv
<1>2. ASSUME NEW g \in Clients, LookUp(g)
      PROVE  CInv'
  <2>1. ChallengesTypeOK'
    BY <1>2 DEF LookUp, To, ClientAt
  <2>2. FreshIsUnknown'
    BY <1>2 DEF LookUp, To, FreshIsUnknown, ClientAt
  <2>3. TokensAreUnspent'
    BY <1>2 DEF LookUp, To, TokensAreUnspent, ClientAt
  <2>4. AnswersAreUnused'
    BY <1>2 DEF LookUp, To, AnswersAreUnused, ClientAt
  <2>5. AfterIsUsed'
    BY <1>2 DEF LookUp, To, AfterIsUsed, ClientAt
  <2>6. FoundBeforeUse'
    BY <1>2 DEF LookUp, To, FoundBeforeUse, AnswersAreUnused, AfterIsUsed, FreshIsUnknown, ClientAt
  <2>7. TokenPassesOnce'
    BY <1>2 DEF LookUp, To, TokenPassesOnce, ClientAt
  <2>8. AnswerExpiresOnUse'
    BY <1>2 DEF LookUp, To, AnswerExpiresOnUse, ClientAt
  <2> QED
    BY <2>1, <2>2, <2>3, <2>4, <2>5, <2>6, <2>7, <2>8 DEF CInv
<1>3. ASSUME NEW g \in Clients, Delete(g)
      PROVE  CInv'
  <2>1. ChallengesTypeOK'
    BY <1>3 DEF Delete, Pass, FoundBeforeUse, ClientAt
  <2>2. FreshIsUnknown'
    BY <1>3 DEF Delete, Pass, FreshIsUnknown, FoundBeforeUse, ClientAt
  <2>3. TokensAreUnspent'
    BY <1>3 DEF Delete, Pass, TokensAreUnspent, FoundBeforeUse, ClientAt
  <2>4. AnswersAreUnused'
    BY <1>3 DEF Delete, Pass, AnswersAreUnused, FoundBeforeUse, ClientAt
  <2>5. AfterIsUsed'
    BY <1>3 DEF Delete, Pass, AfterIsUsed, FoundBeforeUse, ClientAt
  <2>6. FoundBeforeUse'
    BY <1>3 DEF Delete, Pass, FoundBeforeUse, ClientAt
  <2>7. TokenPassesOnce'
    BY <1>3 DEF Delete, Pass, TokenPassesOnce, FoundBeforeUse, ClientAt
  <2>8. AnswerExpiresOnUse'
    BY <1>3 DEF Delete, Pass, AnswerExpiresOnUse, FoundBeforeUse, ClientAt
  <2> QED
    BY <2>1, <2>2, <2>3, <2>4, <2>5, <2>6, <2>7, <2>8 DEF CInv
<1>4. ASSUME NEW g \in Clients, Spend(g)
      PROVE  CInv'
  <2>1. ChallengesTypeOK'
    <3>1. serving[g].js \in Challenges /\ spent' = [spent EXCEPT ![serving[g].js] = @ + 1]
      BY <1>4 DEF Spend
    <3>2. spent' \in [Challenges -> Nat]
      BY <3>1
    <3> QED
      <4>1. Pass(g, "js")
        BY <1>4 DEF Spend
      <4>2. UNCHANGED <<powChallenges, fresh, used, after>> /\ jsChallenges' \subseteq Challenges
        BY <1>4 DEF Spend
      <4> QED
        BY <3>2, <4>1, <4>2 DEF Pass
  <2>2. FreshIsUnknown'
    BY <1>4 DEF Spend, Pass, FreshIsUnknown, ClientAt
  <2>3. TokensAreUnspent'
    BY <1>4 DEF Spend, Pass, TokensAreUnspent, FreshIsUnknown, ClientAt
  <2>4. AnswersAreUnused'
    BY <1>4 DEF Spend, Pass, AnswersAreUnused, ClientAt
  <2>5. AfterIsUsed'
    BY <1>4 DEF Spend, Pass, AfterIsUsed, ClientAt
  <2>6. FoundBeforeUse'
    BY <1>4 DEF Spend, Pass, FoundBeforeUse, ClientAt
  <2>7. TokenPassesOnce'
    BY <1>4 DEF Spend, Pass, TokenPassesOnce, TokensAreUnspent, FreshIsUnknown, ClientAt
  <2>8. AnswerExpiresOnUse'
    BY <1>4 DEF Spend, Pass, AnswerExpiresOnUse, ClientAt
  <2> QED
    BY <2>1, <2>2, <2>3, <2>4, <2>5, <2>6, <2>7, <2>8 DEF CInv
<1>5. ASSUME NEW g \in Clients, Issue(g)
      PROVE  CInv'
  <2>1. ChallengesTypeOK'
    BY <1>5 DEF Issue, To, FreshIsUnknown, ClientAt
  <2>2. FreshIsUnknown'
    BY <1>5 DEF Issue, To, FreshIsUnknown, ClientAt
  <2>3. TokensAreUnspent'
    BY <1>5 DEF Issue, To, TokensAreUnspent, FreshIsUnknown, ClientAt
  <2>4. AnswersAreUnused'
    BY <1>5 DEF Issue, To, AnswersAreUnused, FreshIsUnknown, ClientAt
  <2>5. AfterIsUsed'
    BY <1>5 DEF Issue, To, AfterIsUsed, FreshIsUnknown, ClientAt
  <2>6. FoundBeforeUse'
    BY <1>5 DEF Issue, To, FoundBeforeUse, FreshIsUnknown, ClientAt
  <2>7. TokenPassesOnce'
    BY <1>5 DEF Issue, To, TokenPassesOnce, FreshIsUnknown, ClientAt
  <2>8. AnswerExpiresOnUse'
    BY <1>5 DEF Issue, To, AnswerExpiresOnUse, FreshIsUnknown, ClientAt
  <2> QED
    BY <2>1, <2>2, <2>3, <2>4, <2>5, <2>6, <2>7, <2>8 DEF CInv
<1>6. ASSUME NEW g \in Clients, Answer(g)
      PROVE  CInv'
  BY <1>6 DEF Answer, Away, ClientAt, FreshIsUnknown, TokensAreUnspent,
              AnswersAreUnused, AfterIsUsed, FoundBeforeUse, TokenPassesOnce, AnswerExpiresOnUse
<1>7. ASSUME UNCHANGED challengeVars
      PROVE  CInv'
  BY <1>7 DEF challengeVars, ClientAt, FreshIsUnknown, TokensAreUnspent,
              AnswersAreUnused, AfterIsUsed, FoundBeforeUse, TokenPassesOnce, AnswerExpiresOnUse
<1> QED
  BY <1>1, <1>2, <1>3, <1>4, <1>5, <1>6, <1>7 DEF ChallengesNext

LEMMA StoreInvariant == ChallengesSpec => []CInv
<1>1. ChallengesInit => CInv
  BY StoreInit
<1>2. CInv /\ [ChallengesNext]_challengeVars => CInv'
  BY StoreNext
<1> QED
  BY <1>1, <1>2, PTL DEF ChallengesSpec

(* The maps, the cookies and the counts keep their types (proxy.go:225-237). *)
THEOREM StoreTyping == ChallengesSpec => []ChallengesTypeOK
<1>1. CInv => ChallengesTypeOK
  BY DEF CInv
<1> QED
  BY <1>1, StoreInvariant, PTL

(* A script token is looked up and deleted under one lock (proxy.go:279-291): it
   lets one request through, for any number of requests at once.               *)
THEOREM TokensPassOnce == ChallengesSpec => []TokenPassesOnce
<1>1. CInv => TokenPassesOnce
  BY DEF CInv
<1> QED
  BY <1>1, StoreInvariant, PTL

(* verifyPoW (proxy.go:246-277) lets no request pass with an answer that had
   already let one through when it arrived.                                    *)
THEOREM AnswersExpire == ChallengesSpec => []AnswerExpiresOnUse
<1>1. CInv => AnswerExpiresOnUse
  BY DEF CInv
<1> QED
  BY <1>1, StoreInvariant, PTL

-----------------------------------------------------------------------------
(* Which limits an evaluation uses, for any number of requests, editors and
   versions.                                                                 *)
\* A version of the limits that is in use or saved was made by an update.
VersionsAreMade ==
  /\ latest \in Nat
  /\ live \in 0..latest /\ booted \in 0..latest /\ savedLimits \in 0..latest

\* The clone that getConfigCached keeps is of the limits in force, or there is
\* none.
CloneIsLive == clone \in {NoClone, live}

\* What an evaluation that has no thresholds yet began under is no newer than
\* what is in force.
EvaluationsBeganBefore ==
  /\ DOMAIN eval = Requests
  /\ \A r \in Requests :
       /\ eval[r].since \in Nat /\ eval[r].version \in Nat
       /\ eval[r].pc \in {"config", "locked"} => eval[r].since <= live

\* Why no evaluation uses limits older than those it began under: UpdateConfig
\* drops the clone under the lock that it changes the limits under.
LimitInv == VersionsAreMade /\ CloneIsLive /\ EvaluationsBeganBefore /\ ThresholdsAreCurrent

\* The limits the daemon starts with are in force.
LEMMA LimitStart == LimitInit => LimitInv
  BY DEF LimitInit, LimitInv, VersionsAreMade, CloneIsLive, EvaluationsBeganBefore, ThresholdsAreCurrent,
         NotEvaluating, NoClone

\* Updates, saves and evaluations, in any order, keep the clone current.
LEMMA LimitStep == LimitInv /\ [LimitNext]_limitVars => LimitInv'
<1> SUFFICES ASSUME LimitInv, [LimitNext]_limitVars PROVE LimitInv'
  OBVIOUS
<1> USE DEF LimitInv, VersionsAreMade, CloneIsLive, EvaluationsBeganBefore, ThresholdsAreCurrent, NoClone, ConfigUnchanged
<1>1. ASSUME NEW e \in Editors, APIUpdateSmartLimitConfig(e) PROVE LimitInv'
  BY <1>1 DEF APIUpdateSmartLimitConfig
<1>2. ASSUME NEW e \in Editors, UpdateLimits(e) PROVE LimitInv'
  BY <1>2 DEF UpdateLimits
<1>3. ASSUME NEW e \in Editors, SaveLimits(e) PROVE LimitInv'
  BY <1>3 DEF SaveLimits
<1>4. CASE RestartLimits
  BY <1>4 DEF RestartLimits, NotEvaluating
<1>5. CASE CloneAges \/ UNCHANGED limitVars
  BY <1>5 DEF CloneAges, limitVars
<1>6. ASSUME NEW r \in Requests, ReadMode(r) PROVE LimitInv'
  BY <1>6 DEF ReadMode, NotEvaluating
<1>7. ASSUME NEW r \in Requests, UseClone(r) PROVE LimitInv'
  BY <1>7 DEF UseClone
<1>8. ASSUME NEW r \in Requests, MissClone(r) PROVE LimitInv'
  BY <1>8 DEF MissClone
<1>9. ASSUME NEW r \in Requests, MakeClone(r) PROVE LimitInv'
  BY <1>9 DEF MakeClone
<1>10. ASSUME NEW r \in Requests, Score(r) PROVE LimitInv'
  BY <1>10 DEF Score
<1>11. ASSUME NEW r \in Requests, Decided(r) PROVE LimitInv'
  BY <1>11 DEF Decided, NotEvaluating
<1> QED
  BY <1>1, <1>2, <1>3, <1>4, <1>5, <1>6, <1>7, <1>8, <1>9, <1>10, <1>11 DEF LimitNext

(* UpdateConfig drops the cached clone with e.mu held, and getConfigCached
   makes a new one under that lock (engine.go): no evaluation uses thresholds
   that had been replaced before it began, for any number of requests, updates
   and restarts.                                                             *)
THEOREM LimitsAreNotStale == LimitSpec => []ThresholdsAreCurrent
<1>1. LimitInv => ThresholdsAreCurrent
  BY DEF LimitInv
<1> QED
  BY <1>1, LimitStart, LimitStep, PTL DEF LimitSpec

-----------------------------------------------------------------------------
(* What passes the pipeline, for any rules, detectors and kinds of request. *)
\* What is noted as in force since the request arrived is in force, and is not
\* only observed.
HeldIsInForce ==
  /\ held \subseteq inForce /\ held \cap observing = {}
  /\ request.is.trips \subseteq Traits

\* The steps that come after the filters, the schemas, the detectors and the
\* patches.
FirstFilters(pc) == pc \in {"limits", "schema", "attacks", "judge", "patches", "forward", "forwarded"}
ThenSchema(pc)   == pc \in {"attacks", "judge", "patches", "forward", "forwarded"}
ThenAttacks(pc)  == pc \in {"patches", "forward", "forwarded"}
ThenPatches(pc)  == pc \in {"forward", "forwarded"}

\* A request that has passed a step did not trip what that step looks for and
\* what was in force all the while; one about to be judged was found out.
NothingMissed ==
  LET missed == request.is.trips \cap held
  IN request.inspected =>
       /\ FirstFilters(request.pc) => missed \cap Filters = {}
       /\ ThenSchema(request.pc) /\ ~request.is.ws => missed \cap Schemas = {}
       /\ request.pc = "judge" /\ missed \cap Attacks # {} => request.found \ observing # {}
       /\ ThenAttacks(request.pc) => missed \cap Attacks = {}
       /\ ThenPatches(request.pc) => missed \cap Patches = {}

\* Each step that reads a body puts it back, whole or as far as it could be read;
\* the detectors always do.
BodyIsPutBack ==
  request.inspected /\ request.is.post =>
    /\ request.carries \in {request.is.body, Reread(request.is.body)}
    /\ ThenAttacks(request.pc) \/ request.pc = "judge" => request.carries = Reread(request.is.body)

\* Why what passes has tripped nothing: step by step along the pipeline.
PipelineInv == HeldIsInForce /\ NothingMissed /\ BodyIsPutBack

\* Of the attacks that a request shows and that block, one detector comes first,
\* and what it finds is among what is judged.
LEMMA SomeStopIsFirst ==
  ASSUME NEW a \in request.is.trips \cap inForce \cap Attacks, a \notin observing
  PROVE  Detected \ observing # {}
<1> DEFINE hits == request.is.trips \cap inForce \cap Attacks
           stops == hits \ observing
<1>1. PICK s \in stops : \A t \in stops : s = t \/ <<s, t>> \in DetectorOrder
  <2>1. stops \in SUBSET Attacks /\ stops # {}
    OBVIOUS
  <2> HIDE DEF stops
  <2> QED BY <2>1, PipelineAssumption
<1>2. s \in Detected
  BY <1>1 DEF Detected
<1> QED BY <1>2

\* No request is under way.
LEMMA PipelineStart == PipelineInit => PipelineInv
  BY DEF PipelineInit, PipelineInv, Idle, HeldIsInForce, NothingMissed, BodyIsPutBack

\* Each step of ServeHTTP, and each change of the rules that an administrator
\* makes in between, keeps the account of what was missed.
LEMMA PipelineStep == PipelineInv /\ [PipelineNext]_pipelineVars => PipelineInv'
<1> SUFFICES ASSUME PipelineInv, [PipelineNext]_pipelineVars PROVE PipelineInv'
  OBVIOUS
<1> USE DEF PipelineInv, HeldIsInForce, NothingMissed, BodyIsPutBack, Config, Go,
        FirstFilters, ThenSchema, ThenAttacks, ThenPatches
<1>1. CASE Arrive
  BY <1>1, PipelineAssumption DEF Arrive
<1>2. CASE CheckFilters
  BY <1>2 DEF CheckFilters
<1>3. CASE CheckRateLimits
  BY <1>3 DEF CheckRateLimits
<1>4. CASE CheckSchema
  <2>1. PICK p \in {"blocked", "attacks"} :
          /\ p = "blocked" \/ request.is.trips \cap inForce \cap Schemas = {}
          /\ IF ~request.is.post THEN request' = [request EXCEPT !.pc = p]
             ELSE request' = [request EXCEPT !.carries = Reread(request.carries), !.pc = p]
    BY <1>4 DEF CheckSchema, AfterReading
  <2>2. CASE request' = [request EXCEPT !.pc = p] /\ ~request.is.post
    BY <1>4, <2>1, <2>2 DEF CheckSchema
  <2>3. CASE request' = [request EXCEPT !.carries = Reread(request.carries), !.pc = p]
    BY <1>4, <2>1, <2>3 DEF CheckSchema, Reread
  <2> QED BY <2>1, <2>2, <2>3
<1>5. CASE Detect
  <2>1. request.is.trips \cap held \cap Attacks # {} => Detected \ observing # {}
    BY SomeStopIsFirst
  <2> QED
    BY <1>5, <2>1 DEF Detect, Reread
<1>6. CASE Judge
  BY <1>6 DEF Judge
<1>7. CASE CheckVPatch
  <2>1. PICK p \in {"blocked", "forward"} :
          /\ p = "blocked" \/ request.is.trips \cap inForce \cap Patches = {}
          /\ IF ~request.is.post THEN request' = [request EXCEPT !.pc = p]
             ELSE request' = [request EXCEPT !.carries = Reread(request.carries), !.pc = p]
    BY <1>7 DEF CheckVPatch, AfterReading
  <2>2. CASE request' = [request EXCEPT !.pc = p] /\ ~request.is.post
    BY <1>7, <2>1, <2>2 DEF CheckVPatch
  <2>3. CASE request' = [request EXCEPT !.carries = Reread(request.carries), !.pc = p]
    BY <1>7, <2>1, <2>3 DEF CheckVPatch, Reread
  <2> QED BY <2>1, <2>2, <2>3
<1>8. CASE Forward
  BY <1>8 DEF Forward
<1>9. CASE Answered
  BY <1>9 DEF Answered, Idle
<1>10. CASE SetGlobalEnabled \/ SetBodyLimit
  BY <1>10 DEF SetGlobalEnabled, SetBodyLimit
<1>11. ASSUME NEW t \in Traits, SetRule(t) PROVE PipelineInv'
  BY <1>11 DEF SetRule
<1>12. ASSUME NEW t \in Attacks, SetObservationMode(t) PROVE PipelineInv'
  BY <1>12 DEF SetObservationMode, Cut
<1>13. CASE UNCHANGED pipelineVars
  BY <1>13 DEF pipelineVars
<1> QED
  BY <1>1, <1>2, <1>3, <1>4, <1>5, <1>6, <1>7, <1>8, <1>9, <1>10, <1>11, <1>12, <1>13
  DEF PipelineNext, ServeHTTP, Administer

\* The account is kept by every behaviour.
LEMMA PipelineInvariant == PipelineSpec => []PipelineInv
  BY PipelineStart, PipelineStep, PTL DEF PipelineSpec

(* ServeHTTP (proxy.go) asks filters, limits, schemas, detectors and patches
   one after the other while the administration switches them: a request that
   passes has tripped nothing that was in force, and not only observed, from
   its arrival on.                                                           *)
THEOREM RulesAreEnforced == PipelineSpec => []RuleInForceIsEnforced
<1>1. PipelineInv => RuleInForceIsEnforced
  BY DEF PipelineInv, HeldIsInForce, NothingMissed, RuleInForceIsEnforced, Passed, Traits,
         FirstFilters, ThenSchema, ThenAttacks, ThenPatches
<1> QED
  BY <1>1, PipelineInvariant, PTL

(* The schema check, the detectors and the patch check each read the body and
   put it back (proxy.go): the backend gets what the client sent, for every
   kind of body and whatever is switched meanwhile.                          *)
THEOREM BodiesArriveWhole == PipelineSpec => []BackendGetsWholeBody
<1>1. PipelineInv => BackendGetsWholeBody
  BY DEF PipelineInv, BodyIsPutBack, BackendGetsWholeBody, Passed, ThenAttacks, Reread
<1> QED
  BY <1>1, PipelineInvariant, PTL

-----------------------------------------------------------------------------
(* Which bytes a client gets, for any number of responses and pooled buffers. *)
\* The pool holds buffers, and each of them and each response has a state.
BuffersAreKnown ==
  /\ pool \subseteq Buffers /\ DOMAIN holds = Buffers
  /\ DOMAIN stream = Streams

\* A response that is copied out has its buffer for itself: it is not in the
\* pool, and holds what was read of this response.
BuffersAreLent ==
  \A g \in Streams : stream[g].pc = "copy" =>
    /\ stream[g].buf \in Buffers \ pool
    /\ holds[stream[g].buf].of = g

\* Two responses never have the same buffer.
NoBufferIsShared ==
  \A g, h \in Streams :
    g # h /\ stream[g].pc = "copy" /\ stream[h].pc = "copy" => stream[g].buf # stream[h].buf

\* What was copied out of a buffer is of the response that copied it.
CopiesAreOwn == \A g \in Streams : stream[g].copy.of = g

\* Why the bodies stay apart: a buffer is in the pool or lent to one response.
ScanInv == BuffersAreKnown /\ BuffersAreLent /\ NoBufferIsShared /\ CopiesAreOwn /\ BodiesAreNotMixed

\* A response that has not arrived has nothing of another.
LEMMA WaitingState ==
  ASSUME NEW g \in Streams
  PROVE  Waiting(g).pc = "waiting" /\ Waiting(g).copy.of = g /\ Waiting(g).out.of = g
  BY DEF Waiting, NoBody

\* Every buffer is in the pool.
LEMMA ScanStart == ScanInit => ScanInv
  BY WaitingState DEF ScanInit, ScanInv, BuffersAreKnown, BuffersAreLent, NoBufferIsShared, CopiesAreOwn, BodiesAreNotMixed

\* Each step of each response keeps the buffers apart, with sync.Pool giving out
\* any buffer it holds, or none (forward.go:176-246).
LEMMA ScanStep == ScanInv /\ [ScanNext]_scanVars => ScanInv'
<1> SUFFICES ASSUME ScanInv, [ScanNext]_scanVars PROVE ScanInv'
  OBVIOUS
<1> USE DEF ScanInv, BuffersAreKnown, BuffersAreLent, NoBufferIsShared, CopiesAreOwn, BodiesAreNotMixed
<1>1. ASSUME NEW g \in Streams, Receive(g) PROVE ScanInv'
  BY <1>1 DEF Receive, Waiting, NoBody
<1>2. ASSUME NEW g \in Streams, Read(g) PROVE ScanInv'
  <2>1. PICK b \in Buffers :
       /\ b \in pool \/ b \notin InUse
       /\ holds' = [holds EXCEPT ![b] = [of |-> g, part |-> Part(stream[g].body.size)]]
       /\ IF stream[g].body.size = "broken"
          THEN /\ pool' = pool \cup {b}
               /\ stream' = [stream EXCEPT ![g].pc = "sent"]
          ELSE /\ pool' = pool \ {b}
               /\ stream' = [stream EXCEPT ![g].pc = "copy", ![g].buf = b]
    BY <1>2 DEF Read
  <2>2. \A h \in Streams : stream[h].pc = "copy" => stream[h].buf # b
    BY <2>1, ResponseScanAssumption DEF InUse
  <2>3. CASE pool' = pool \cup {b} /\ stream' = [stream EXCEPT ![g].pc = "sent"]
    BY <2>1, <2>2, <2>3, <1>2 DEF Read
  <2>4. CASE pool' = pool \ {b} /\ stream' = [stream EXCEPT ![g].pc = "copy", ![g].buf = b]
    BY <2>1, <2>2, <2>4, <1>2 DEF Read
  <2> QED BY <2>1, <2>3, <2>4
<1>3. ASSUME NEW g \in Streams, Copy(g) PROVE ScanInv'
  BY <1>3 DEF Copy
<1>4. ASSUME NEW g \in Streams, DetectLeaks(g) PROVE ScanInv'
  BY <1>4 DEF DetectLeaks, Page
<1>5. ASSUME NEW g \in Streams, Restore(g) PROVE ScanInv'
  BY <1>5 DEF Restore
<1>6. ASSUME NEW g \in Streams, Sent(g) PROVE ScanInv'
  BY <1>6 DEF Sent, Waiting, NoBody
<1>7. CASE Collect
  BY <1>7 DEF Collect
<1>8. CASE EnableDetector \/ SetObservation \/ UNCHANGED scanVars
  BY <1>8 DEF EnableDetector, SetObservation, scanVars
<1> QED
  BY <1>1, <1>2, <1>3, <1>4, <1>5, <1>6, <1>7, <1>8 DEF ScanNext

(* scanResponseBody copies a body out of the pooled buffer before it returns
   the buffer (forward.go:176-246): a client never gets bytes of another
   response, for any number of responses at once and any number of buffers.  *)
THEOREM BodiesStayApart == ScanSpec => []BodiesAreNotMixed
<1>1. ScanInv => BodiesAreNotMixed
  BY DEF ScanInv
<1> QED
  BY <1>1, ScanStart, ScanStep, PTL DEF ScanSpec

-----------------------------------------------------------------------------
(* Where the lines of the access log are, for any number of entries and faults, any
   batch and any rotation.                                                         *)

Files == [name : Nat, zip : BOOLEAN, lines : Seq(Nat)]
Zips == [id : Nat, name : Nat, at : {"read", "create", "write", "remove"}, data : Seq(Nat)]

LogTyping ==
  /\ accepted \in Nat /\ logChan \in Seq(Nat) /\ logFile \in Seq(Nat)
  /\ slots \in [1..LogBatch -> Nat] /\ filled \in 0..LogBatch
  /\ rotation \in Rotations
  /\ logStep \in {"select", "rotate", "write", "store", "ended"}
  /\ logBroken \in BOOLEAN

OneOfAKind(files) == \A b, c \in files : b.name = c.name /\ b.zip = c.zip => b = c

\* Names are given in order.
FilesTyping ==
  /\ backups \subseteq Files /\ zipping \subseteq Zips /\ OneOfAKind(backups)
  /\ rotations \in Nat /\ second \in Nat /\ second <= rotations
  /\ outdated \in BOOLEAN /\ zipped \in BOOLEAN
  /\ \A b \in backups : b.name <= second
  /\ \A z \in zipping : z.name <= second

\* There is room for the entry the worker waits for, and nothing left when it has
\* ended; a file that could not be opened afresh has no lines.
WorkerIsReady ==
  /\ logStep = "select" => filled < LogBatch
  /\ logStep = "ended" => filled = 0
  /\ ~opened => logFile = <<>>

\* The numbers of the last entry that has left the channel, that is in the file, and
\* that was in it when it was opened afresh.
Held == IF logStep \in {"select", "rotate", "write"} THEN filled ELSE 0
Received == accepted - Len(logChan)
Written == Received - Held
Rotated == Written - Len(logFile)

\* The channel, the batch and the file hold one entry after the other.
OnTheWay ==
  /\ Rotated >= 0
  /\ \A i \in 1..Len(logChan) : logChan[i] = Received + i
  /\ \A i \in 1..Held : slots[i] = Written + i
  /\ \A i \in 1..Len(logFile) : logFile[i] = Rotated + i

\* What backups have under a name, and what goroutines have read under it, which may
\* yet be written.
TextsOf(files, zips) == {<<b.name, b.lines>> : b \in files} \cup {<<z.name, z.data>> : z \in zips}
Texts == TextsOf(backups, zipping)

\* Each is a run of the entries up to some one, those of later names are later, and
\* those of one name the same if no name was given twice.
Run(text, top) ==
  \A i \in 1..Len(text) : text[i] \in 1..top /\ (i < Len(text) => text[i + 1] = text[i] + 1)
Below(s, t) == \A i \in 1..Len(s), j \in 1..Len(t) : s[i] < t[j]
Same(s, t) == s = t \/ s = <<>> \/ t = <<>>
Apart(S, top, once) ==
  \A x \in S :
    /\ Run(x[2], top)
    /\ \A y \in S : (x[1] < y[1] => Below(x[2], y[2])) /\ (once /\ x[1] = y[1] => Same(x[2], y[2]))

Complete(files, top) == \A n \in 1..top : Backed(n, files)
Latest(files, top) == \A m, n \in 1..top : m < n /\ Backed(m, files) => Backed(n, files)

\* One goroutine compresses one backup: until it has written its copy there is nothing
\* in one, and what it has read is what the backup has; when it has written it, so has
\* the copy.
TrueCopies(files, zips) ==
  /\ \A y, z \in zips : y.name = z.name => y = z
  /\ \A z \in zips, b \in files : b.name = z.name =>
       /\ b.zip /\ z.at # "remove" => b.lines = <<>>
       /\ ~b.zip /\ z.at # "read" => b.lines = z.data
  /\ \A z \in zips :
       /\ z.at = "write" => \E b \in files : b.name = z.name /\ b.zip
       /\ z.at = "remove" => \E b \in files : b.name = z.name /\ b.zip /\ b.lines = z.data


CopiesInOrder ==
  /\ outdated \/ Doubled \/ TrueCopies(backups, zipping)
  /\ ~zipped => zipping = {} /\ \A b \in backups : ~b.zip

BackupsInOrder ==
  /\ Apart(Texts, Rotated, ~Doubled)
  /\ outdated \/ Doubled \/ Complete(backups, Rotated)
  /\ zipped \/ Doubled \/ Latest(backups, Rotated)

LogInv ==
  /\ LogTyping /\ WorkerIsReady /\ FilesTyping /\ CopiesInOrder
  /\ ~logBroken => OnTheWay /\ BackupsInOrder

\* A sequence of entries, item by item.
LEMMA EntryByEntry ==
  ASSUME NEW first \in Nat, NEW last \in Nat, first <= last, NEW s \in Seq(Nat),
         Len(s) = last - first, \A i \in 1..Len(s) : s[i] = first + i
  PROVE  s = Entries(first, last)
<1>1. DOMAIN s = 1..(last - first) /\ s = [i \in 1..(last - first) |-> s[i]]
  BY LenProperties
<1> QED BY <1>1 DEF Entries

\* Texts that were there before, or have nothing.
LEMMA FewerTexts ==
  ASSUME NEW S, NEW T, NEW top, NEW once, NEW again, again => once, Apart(S, top, once),
         \A x \in T : x \in S \/ x[2] = <<>>
  PROVE  Apart(T, top, again)
<1>1. \A t : Run(<<>>, top) /\ Below(<<>>, t) /\ Below(t, <<>>) /\ Same(<<>>, t) /\ Same(t, <<>>)
  <2>1. Len(<<>>) = 0 /\ 1..0 = {}
    BY EmptySeq
  <2> QED BY <2>1 DEF Run, Below, Same
<1> QED BY <1>1 DEF Apart

\* Texts of names up to some one, and not of that one if they are to be told apart.
NamedUpTo(S, name, again) ==
  \A x \in S : x[1] \in Nat /\ x[1] <= name /\ x[2] \in Seq(Nat) /\ (again => x[1] # name)
Continues(text, top) == \A i \in 1..Len(text) : text[i] = top + i

\* A text of the entries that follow, under a name that is the last one.
LEMMA OneMoreText ==
  ASSUME NEW S, NEW top \in Nat, NEW next \in Nat, top <= next, NEW once, NEW again, again => once,
         Apart(S, top, once), NEW name \in Nat, NEW text \in Seq(Nat),
         Len(text) = next - top, Continues(text, top), NamedUpTo(S, name, again)
  PROVE  Apart(S \cup {<<name, text>>}, next, again)
<1> DEFINE new == <<name, text>>
           T == S \cup {new}
<1>1. new[1] = name /\ new[2] = text /\ Len(text) \in Nat
  BY LenProperties
<1> HIDE DEF new
<1>2. ASSUME NEW x \in S, NEW i \in 1..Len(x[2])
      PROVE  x[2][i] \in 1..top /\ (i < Len(x[2]) => x[2][i + 1] = x[2][i] + 1)
  BY DEF Apart, Run
<1>3. \A x \in S : Run(x[2], next)
  <2> SUFFICES ASSUME NEW x \in S, NEW i \in 1..Len(x[2])
               PROVE  x[2][i] \in 1..next /\ (i < Len(x[2]) => x[2][i + 1] = x[2][i] + 1)
    BY DEF Run
  <2>1. x[2][i] \in 1..top /\ (i < Len(x[2]) => x[2][i + 1] = x[2][i] + 1)
    BY <1>2
  <2> QED BY <2>1
<1>4. ASSUME NEW i \in 1..Len(text)
      PROVE  text[i] = top + i /\ i \in Nat /\ i >= 1 /\ i <= next - top
  <2>1. text[i] = top + i
    BY DEF Continues
  <2> QED BY <1>1, <2>1
<1>5. Run(text, next)
  <2> SUFFICES ASSUME NEW i \in 1..Len(text)
               PROVE  text[i] \in 1..next /\ (i < Len(text) => text[i + 1] = text[i] + 1)
    BY DEF Run
  <2>1. text[i] = top + i /\ i \in Nat /\ i >= 1 /\ i <= next - top
    BY <1>4
  <2>2. i < Len(text) => text[i + 1] = top + (i + 1)
    <3>1. i < Len(text) => i + 1 \in 1..Len(text)
      BY <1>1, <2>1
    <3> QED BY <1>4, <3>1
  <2> QED BY <2>1, <2>2
<1>6. \A x \in S : Below(x[2], text)
  <2> SUFFICES ASSUME NEW x \in S, NEW i \in 1..Len(x[2]), NEW j \in 1..Len(text)
               PROVE  x[2][i] < text[j]
    BY DEF Below
  <2>1. x[2][i] \in 1..top
    BY <1>2
  <2>2. text[j] = top + j /\ j \in Nat /\ j >= 1
    BY <1>4
  <2> QED BY <2>1, <2>2
<1>7. ASSUME NEW x \in T, NEW y \in T
      PROVE  (x[1] < y[1] => Below(x[2], y[2])) /\ (again /\ x[1] = y[1] => Same(x[2], y[2]))
  <2>1. CASE x \in S /\ y \in S
    BY <2>1 DEF Apart
  <2>2. CASE x \in S /\ y = new
    BY <1>1, <1>6, <2>2 DEF NamedUpTo
  <2>3. CASE x = new /\ y \in S
    BY <1>1, <2>3 DEF NamedUpTo
  <2>4. CASE x = new /\ y = new
    BY <1>1, <2>4 DEF Same
  <2> QED BY <2>1, <2>2, <2>3, <2>4
<1>8. \A x \in T : Run(x[2], next)
  BY <1>1, <1>3, <1>5
<1>9. Apart(T, next, again)
  BY <1>7, <1>8 DEF Apart
<1> QED BY <1>9 DEF new

\* The oldest of several files go: of files none of which is compressed, the latest
\* stay.
LEMMA OldestGo ==
  ASSUME NEW all, NEW left, left \subseteq all, \A b \in all : ~b.zip /\ b.name \in Nat /\ b.lines \in Seq(Nat),
         Oldest(all \ left, all), NEW top, Apart(TextsOf(all, {}), top, TRUE), Latest(all, top)
  PROVE  Latest(left, top)
<1> SUFFICES ASSUME NEW m \in 1..top, NEW n \in 1..top, m < n, Backed(m, left)
             PROVE  Backed(n, left)
  BY DEF Latest
<1>1. PICK y \in left : \E j \in 1..Len(y.lines) : y.lines[j] = m
  BY DEF Backed
<1>2. Backed(m, all)
  BY <1>1 DEF Backed
<1>3. Backed(n, all)
  BY <1>2 DEF Latest
<1>4. PICK x \in all : \E i \in 1..Len(x.lines) : x.lines[i] = n
  BY <1>3 DEF Backed
<1>5. CASE x \in left
  BY <1>4, <1>5 DEF Backed
<1>6. CASE x \notin left
  <2>1. x.name < y.name
    <3>1. x \in all \ left /\ y \in all \ (all \ left) /\ ~x.zip /\ ~y.zip
      BY <1>6
    <3> QED BY <3>1 DEF Oldest
  <2>2. Below(x.lines, y.lines)
    <3>1. <<x.name, x.lines>> \in TextsOf(all, {}) /\ <<y.name, y.lines>> \in TextsOf(all, {})
      BY DEF TextsOf
    <3> QED BY <2>1, <3>1 DEF Apart
  <2>3. n < m
    BY <1>1, <1>4, <2>2 DEF Below
  <2> QED BY <2>3
<1> QED BY <1>5, <1>6

\* cleanOldBackups
LEMMA CleansTheOldest ==
  ASSUME NEW all, NEW left \in CleanOldBackups(all)
  PROVE  left \subseteq all /\ (left = all \/ Oldest(all \ left, all))
BY DEF CleanOldBackups

\* What a step of compressFile leaves of files and goroutines: names and texts there
\* were before, or nothing; and copies of one name that are true, with every line there
\* was, if they were.
Follows(files, zips, newFiles, newZips) ==
  /\ newFiles \subseteq Files /\ newZips \subseteq Zips /\ OneOfAKind(newFiles)
  /\ \A b \in newFiles : (\E c \in files : c.name = b.name) \/ (\E z \in zips : z.name = b.name)
  /\ \A y \in newZips : \E z \in zips : z.name = y.name
  /\ \A x \in TextsOf(newFiles, newZips) : x \in TextsOf(files, zips) \/ x[2] = <<>>
Keeps(files, zips, newFiles, newZips) ==
  TrueCopies(files, zips) =>
    TrueCopies(newFiles, newZips) /\ \A n : Backed(n, files) => Backed(n, newFiles)

LEMMA FileFields ==
  ASSUME NEW name \in Nat, NEW zip \in BOOLEAN, NEW text \in Seq(Nat)
  PROVE  LET b == Backup(name, zip, text)
         IN b \in Files /\ b.name = name /\ b.zip = zip /\ b.lines = text
BY DEF Backup, Files

\* The goroutine ends, or reads the backup of its name.
LEMMA BackupIsRead ==
  ASSUME NEW files, files \subseteq Files, OneOfAKind(files), NEW zips, zips \subseteq Zips, NEW z \in zips,
         z.at = "read", NEW b \in files, b.name = z.name, ~b.zip,
         NEW w \in Zips, w.name = z.name, w.at = "create", w.data = b.lines
  PROVE  /\ Follows(files, zips, files, (zips \ {z}) \cup {w})
         /\ Keeps(files, zips, files, (zips \ {z}) \cup {w})
<1> DEFINE new == (zips \ {z}) \cup {w}
<1>1. \A y \in new : (y \in zips /\ y # z) \/ y = w
  OBVIOUS
<1> HIDE DEF new
<1>2. new \subseteq Zips
  BY <1>1
<1>3. \A x \in TextsOf(files, new) : x \in TextsOf(files, zips)
  <2> SUFFICES ASSUME NEW x \in TextsOf(files, new) PROVE x \in TextsOf(files, zips)
    OBVIOUS
  <2>1. CASE \E c \in files : x = <<c.name, c.lines>>
    BY <2>1 DEF TextsOf
  <2>2. CASE \E y \in new : x = <<y.name, y.data>>
    <3>1. PICK y \in new : x = <<y.name, y.data>>
      BY <2>2
    <3>2. CASE y \in zips
      BY <3>1, <3>2 DEF TextsOf
    <3>3. CASE y = w
      <4>1. x = <<b.name, b.lines>>
        BY <3>1, <3>3
      <4> QED BY <4>1 DEF TextsOf
    <3> QED BY <1>1, <3>2, <3>3
  <2> QED BY <2>1, <2>2 DEF TextsOf
<1>4. Follows(files, zips, files, new)
  BY <1>1, <1>2, <1>3 DEF Follows
<1>5. ASSUME TrueCopies(files, zips) PROVE TrueCopies(files, new)
  <2>1. \A x, y \in new : x.name = y.name => x = y
    BY <1>1, <1>5 DEF TrueCopies
  <2>2. ASSUME NEW y \in new, NEW c \in files, c.name = y.name
        PROVE  /\ c.zip /\ y.at # "remove" => c.lines = <<>>
               /\ ~c.zip /\ y.at # "read" => c.lines = y.data
    <3>1. CASE y \in zips
      BY <1>5, <2>2, <3>1 DEF TrueCopies
    <3>2. CASE y = w
      <4>1. c.zip => c.lines = <<>>
        BY <1>5, <2>2, <3>2 DEF TrueCopies
      <4>2. ~c.zip => c = b
        BY <2>2, <3>2 DEF OneOfAKind, Files
      <4> QED BY <3>2, <4>1, <4>2
    <3> QED BY <1>1, <3>1, <3>2
  <2>3. ASSUME NEW y \in new
        PROVE  /\ y.at = "write" => \E c \in files : c.name = y.name /\ c.zip
               /\ y.at = "remove" => \E c \in files : c.name = y.name /\ c.zip /\ c.lines = y.data
    BY <1>1, <1>5 DEF TrueCopies
  <2> QED BY <2>1, <2>2, <2>3 DEF TrueCopies
<1> QED BY <1>4, <1>5 DEF Keeps, new

LEMMA ZipIsOver ==
  ASSUME NEW files, files \subseteq Files, OneOfAKind(files), NEW zips, zips \subseteq Zips, NEW z \in zips
  PROVE  Follows(files, zips, files, zips \ {z}) /\ Keeps(files, zips, files, zips \ {z})
<1>1. zips \ {z} \subseteq zips
  OBVIOUS
<1>2. TextsOf(files, zips \ {z}) \subseteq TextsOf(files, zips)
  BY DEF TextsOf
<1>3. Follows(files, zips, files, zips \ {z})
  BY <1>1, <1>2 DEF Follows
<1>4. Keeps(files, zips, files, zips \ {z})
  BY <1>1 DEF Keeps, TrueCopies
<1> QED BY <1>3, <1>4

\* The compressed file has nothing yet, or what the goroutine has read.
LEMMA CopyIsWritten ==
  ASSUME NEW files, files \subseteq Files, OneOfAKind(files), NEW zips, zips \subseteq Zips, NEW z \in zips,
         NEW c \in Files, c.name = z.name, c.zip, NEW w \in Zips, w.name = z.name, w.data = z.data,
         NEW newFiles, \A b \in newFiles : b = c \/ (b \in files /\ ~(b.name = z.name /\ b.zip)),
         \A b \in files : (b.name = z.name /\ b.zip) \/ b \in newFiles,
         \/ z.at = "create" /\ w.at = "write" /\ c.lines = <<>> /\ c \in newFiles
         \/ z.at = "write" /\ w.at = "remove" /\ c.lines \in {z.data, <<>>}
  PROVE  /\ Follows(files, zips, newFiles, (zips \ {z}) \cup {w})
         /\ ((z.at = "write" => /\ c.lines = z.data
                                /\ (\E b \in files : b.name = z.name /\ b.zip) => c \in newFiles)
               => Keeps(files, zips, newFiles, (zips \ {z}) \cup {w}))
<1> DEFINE new == (zips \ {z}) \cup {w}
<1>1. \A y \in new : (y \in zips /\ y # z) \/ y = w
  OBVIOUS
<1> HIDE DEF new
<1>2. /\ new \subseteq Zips /\ newFiles \subseteq Files
      /\ z \in Zips /\ c.zip = TRUE
  BY <1>1 DEF Files
<1>3. OneOfAKind(newFiles)
  BY <1>2 DEF OneOfAKind, Files
<1>4. ASSUME NEW x \in TextsOf(newFiles, new) PROVE x \in TextsOf(files, zips) \/ x[2] = <<>>
  <2>0. /\ <<z.name, z.data>> \in TextsOf(files, zips)
        /\ c.lines \in {z.data, <<>>}
    BY DEF TextsOf
  <2>1. CASE \E b \in newFiles : x = <<b.name, b.lines>>
    <3>1. PICK b \in newFiles : x = <<b.name, b.lines>>
      BY <2>1
    <3>2. CASE b \in files
      BY <3>1, <3>2 DEF TextsOf
    <3>3. CASE b = c
      <4>1. x = <<z.name, c.lines>> /\ x[2] = c.lines
        BY <3>1, <3>3
      <4> QED BY <2>0, <4>1
    <3> QED BY <3>2, <3>3
  <2>2. CASE \E y \in new : x = <<y.name, y.data>>
    <3>1. PICK y \in new : x = <<y.name, y.data>>
      BY <2>2
    <3>2. CASE y \in zips
      BY <3>1, <3>2 DEF TextsOf
    <3>3. CASE y = w
      BY <2>0, <3>1, <3>3
    <3> QED BY <1>1, <3>2, <3>3
  <2> QED BY <2>1, <2>2 DEF TextsOf
<1>5. Follows(files, zips, newFiles, new)
  <2>1. \A b \in newFiles : (\E d \in files : d.name = b.name) \/ (\E y \in zips : y.name = b.name)
    OBVIOUS
  <2>2. \A y \in new : \E x \in zips : x.name = y.name
    BY <1>1
  <2> QED BY <1>2, <1>3, <1>4, <2>1, <2>2 DEF Follows
<1>6. ASSUME TrueCopies(files, zips),
             z.at = "write" => /\ c.lines = z.data
                               /\ (\E b \in files : b.name = z.name /\ b.zip) => c \in newFiles
      PROVE  TrueCopies(newFiles, new) /\ \A n : Backed(n, files) => Backed(n, newFiles)
  <2>0. c \in newFiles
    BY <1>6 DEF TrueCopies
  <2>1. \A x, y \in new : x.name = y.name => x = y
    BY <1>1, <1>6 DEF TrueCopies
  <2>2. ASSUME NEW y \in new, NEW b \in newFiles, b.name = y.name
        PROVE  /\ b.zip /\ y.at # "remove" => b.lines = <<>>
               /\ ~b.zip /\ y.at # "read" => b.lines = y.data
    <3>1. CASE y # w
      <4>1. y \in zips /\ y # z /\ y.name # z.name
        BY <1>1, <1>6, <3>1 DEF TrueCopies
      <4>2. b \in files
        BY <2>2, <4>1
      <4> QED BY <1>6, <2>2, <4>1, <4>2 DEF TrueCopies
    <3>2. CASE y = w
      <4>1. ~b.zip => b \in files
        OBVIOUS
      <4>2. ~b.zip => b.lines = z.data
        BY <1>6, <2>2, <3>2, <4>1 DEF TrueCopies
      <4>3. b.zip => b = c
        BY <2>2, <3>2
      <4> QED BY <3>2, <4>2, <4>3
    <3> QED BY <3>1, <3>2
  <2>3. ASSUME NEW y \in new
        PROVE  /\ y.at = "write" => \E b \in newFiles : b.name = y.name /\ b.zip
               /\ y.at = "remove" => \E b \in newFiles : b.name = y.name /\ b.zip /\ b.lines = y.data
    <3>1. CASE y # w
      <4>1. y \in zips /\ y.name # z.name
        BY <1>1, <1>6, <3>1 DEF TrueCopies
      <4>2. \A b \in files : b.name = y.name => b \in newFiles
        BY <4>1
      <4> QED BY <1>6, <4>1, <4>2 DEF TrueCopies
    <3>2. CASE y = w
      BY <1>6, <2>0, <3>2
    <3> QED BY <3>1, <3>2
  <2>4. ASSUME NEW n, Backed(n, files) PROVE Backed(n, newFiles)
    <3>1. PICK b \in files : \E i \in 1..Len(b.lines) : b.lines[i] = n
      BY <2>4 DEF Backed
    <3>2. ~(b.name = z.name /\ b.zip)
      <4>1. b.name = z.name /\ b.zip => b.lines = <<>>
        BY <1>6 DEF TrueCopies
      <4>2. Len(<<>>) = 0 /\ 1..0 = {}
        BY EmptySeq
      <4> QED BY <3>1, <4>1, <4>2
    <3> QED BY <3>1, <3>2 DEF Backed
  <2> QED BY <2>1, <2>2, <2>3, <2>4 DEF TrueCopies
<1> QED BY <1>5, <1>6 DEF Keeps, new

\* The backup is removed.
LEMMA BackupIsRemoved ==
  ASSUME NEW files, files \subseteq Files, OneOfAKind(files), NEW zips, zips \subseteq Zips, NEW z \in zips,
         z.at = "remove", NEW left, left \subseteq files, \A b \in files : b \in left \/ (b.name = z.name /\ ~b.zip)
  PROVE  Follows(files, zips, left, zips \ {z}) /\ Keeps(files, zips, left, zips \ {z})
<1>1. zips \ {z} \subseteq zips
  OBVIOUS
<1>2. TextsOf(left, zips \ {z}) \subseteq TextsOf(files, zips)
  BY DEF TextsOf
<1>3. Follows(files, zips, left, zips \ {z})
  BY <1>1, <1>2 DEF Follows, OneOfAKind
<1>4. ASSUME TrueCopies(files, zips) PROVE TrueCopies(left, zips \ {z})
  <2>1. ASSUME NEW y \in zips \ {z}
        PROVE  /\ y.at = "write" => \E c \in left : c.name = y.name /\ c.zip
               /\ y.at = "remove" => \E c \in left : c.name = y.name /\ c.zip /\ c.lines = y.data
    BY <1>4 DEF TrueCopies
  <2> QED BY <1>1, <1>4, <2>1 DEF TrueCopies
<1>5. ASSUME TrueCopies(files, zips), NEW n, Backed(n, files) PROVE Backed(n, left)
  <2>1. PICK b \in files : \E i \in 1..Len(b.lines) : b.lines[i] = n
    BY <1>5 DEF Backed
  <2>2. CASE b \in left
    BY <2>1, <2>2 DEF Backed
  <2>3. CASE b \notin left
    <3>1. b.name = z.name /\ ~b.zip
      BY <2>3
    <3>2. b.lines = z.data
      BY <1>5, <3>1 DEF TrueCopies
    <3>3. PICK c \in files : c.name = z.name /\ c.zip /\ c.lines = z.data
      BY <1>5 DEF TrueCopies
    <3>4. c \in left
      BY <3>3
    <3> QED BY <2>1, <3>2, <3>3, <3>4 DEF Backed
  <2> QED BY <2>2, <2>3
<1> QED BY <1>3, <1>4, <1>5 DEF Keeps

\* The numbers in the invariant are such.
LEMMA LogNumbers ==
  ASSUME LogTyping
  PROVE  /\ accepted \in Nat /\ Len(logChan) \in Nat /\ Len(logFile) \in Nat /\ filled \in Nat
         /\ Held \in Nat /\ Received \in Int /\ Written \in Int /\ Rotated \in Int
         /\ LogBatch \in Nat
<1>1. accepted \in Nat /\ Len(logChan) \in Nat /\ Len(logFile) \in Nat /\ filled \in Nat /\ LogBatch \in Nat
  BY LogAssumption, LenProperties DEF LogTyping
<1> QED BY <1>1 DEF Held, Received, Written, Rotated

\* What does not touch backups.
LEMMA FilesStay ==
  ASSUME FilesTyping, CopiesInOrder, UNCHANGED backupVars
  PROVE  FilesTyping' /\ CopiesInOrder' /\ (Rotated' = Rotated /\ BackupsInOrder => BackupsInOrder')
<1>1. FilesTyping'
  BY DEF FilesTyping, backupVars
<1>2. CopiesInOrder'
  BY DEF CopiesInOrder, backupVars, Doubled
<1>3. ASSUME Rotated' = Rotated, BackupsInOrder PROVE BackupsInOrder'
  BY <1>3 DEF BackupsInOrder, backupVars, Doubled, Texts
<1> QED BY <1>1, <1>2, <1>3

\* What does not touch lines.
LEMMA LinesStay ==
  ASSUME LogInv, UNCHANGED <<accepted, logChan, slots, filled, logFile, opened, backupVars, logBroken>>,
         rotation' \in Rotations, logStep' \in {"select", "rotate", "write", "store", "ended"},
         Held' = Held, logStep' = "select" => filled < LogBatch, logStep' = "ended" => filled = 0
  PROVE  LogInv'
<1>1. LogTyping'
  BY DEF LogInv, LogTyping
<1>2. WorkerIsReady'
  BY DEF LogInv, WorkerIsReady
<1>3. Received' = Received /\ Written' = Written /\ Rotated' = Rotated
  BY DEF Received, Written, Rotated
<1>4. OnTheWay => OnTheWay'
  BY <1>3 DEF OnTheWay
<1> QED BY <1>1, <1>2, <1>3, <1>4, FilesStay DEF LogInv

\* The channel takes an entry.
LEMMA EntryIsTaken == ASSUME LogInv, WriteEntry PROVE LogInv'
<1>1. /\ accepted' = accepted + 1 /\ logChan' = Append(logChan, accepted + 1)
      /\ UNCHANGED <<slots, filled, logStep, logFile, opened, backupVars, rotation, logBroken>>
  BY DEF WriteEntry, fileVars
<1>2. LogTyping /\ WorkerIsReady /\ accepted \in Nat /\ logChan \in Seq(Nat)
  BY DEF LogInv, LogTyping
<1>3. /\ logChan' \in Seq(Nat) /\ Len(logChan') = Len(logChan) + 1
      /\ \A i \in 1..Len(logChan) : logChan'[i] = logChan[i]
      /\ logChan'[Len(logChan) + 1] = accepted + 1
  BY <1>1, <1>2, AppendProperties
<1>4. LogTyping' /\ WorkerIsReady'
  BY <1>1, <1>2, <1>3 DEF LogTyping, WorkerIsReady
<1>5. Received' = Received /\ Held' = Held /\ Written' = Written /\ Rotated' = Rotated
  <2>1. Received' = Received
    BY <1>1, <1>2, <1>3, LogNumbers DEF Received
  <2> QED BY <1>1, <2>1 DEF Held, Written, Rotated
<1>6. ASSUME ~logBroken PROVE OnTheWay' /\ BackupsInOrder'
  <2>1. OnTheWay /\ BackupsInOrder
    BY <1>6 DEF LogInv
  <2>2. \A i \in 1..Len(logChan') : logChan'[i] = Received + i
    <3> SUFFICES ASSUME NEW i \in 1..(Len(logChan) + 1) PROVE logChan'[i] = Received + i
      BY <1>3
    <3>1. i \in 1..Len(logChan) \/ i = Len(logChan) + 1
      BY <1>2, LogNumbers
    <3>2. CASE i \in 1..Len(logChan)
      BY <1>3, <2>1, <3>2 DEF OnTheWay
    <3>3. CASE i = Len(logChan) + 1
      <4>1. Received + i = accepted + 1
        BY <1>2, <3>3, LogNumbers DEF Received
      <4> QED BY <1>3, <3>3, <4>1
    <3> QED BY <3>1, <3>2, <3>3
  <2>3. OnTheWay'
    BY <1>1, <1>5, <2>1, <2>2 DEF OnTheWay
  <2> QED BY <1>1, <1>5, <2>1, <2>3, FilesStay DEF LogInv
<1> QED BY <1>1, <1>4, <1>6, FilesStay DEF LogInv

\* The worker takes an entry from the channel.
LEMMA EntryIsReceived == ASSUME LogInv, ReceiveEntry PROVE LogInv'
<1>1. /\ logStep = "select" /\ logChan # <<>>
      /\ slots' = [slots EXCEPT ![filled + 1] = Head(logChan)] /\ logChan' = Tail(logChan)
      /\ filled' = filled + 1 /\ logStep' = IF filled + 1 = LogBatch THEN "rotate" ELSE "select"
      /\ UNCHANGED <<accepted, logFile, opened, backupVars, rotation, logBroken>>
  BY DEF ReceiveEntry, fileVars
<1>2. /\ LogTyping /\ WorkerIsReady /\ accepted \in Nat /\ logChan \in Seq(Nat)
      /\ slots \in [1..LogBatch -> Nat] /\ filled \in Nat /\ filled + 1 \in 1..LogBatch /\ LogBatch \in Nat
  BY <1>1, LogAssumption DEF LogInv, LogTyping, WorkerIsReady
<1>3. /\ Head(logChan) \in Nat /\ logChan' \in Seq(Nat) /\ Len(logChan') = Len(logChan) - 1
      /\ \A i \in 1..Len(logChan') : logChan'[i] = logChan[i + 1]
      /\ Head(logChan) = logChan[1] /\ Len(logChan) \in Nat /\ Len(logChan) >= 1
  BY <1>1, <1>2, HeadTailProperties, LenProperties, EmptySeq
<1>4. /\ slots' \in [1..LogBatch -> Nat] /\ slots'[filled + 1] = Head(logChan)
      /\ \A i \in 1..filled : slots'[i] = slots[i]
  BY <1>1, <1>2, <1>3
<1>5. LogTyping' /\ WorkerIsReady'
  BY <1>1, <1>2, <1>3, <1>4 DEF LogTyping, WorkerIsReady
<1>6. Received' = Received + 1 /\ Held = filled /\ Held' = filled + 1
      /\ Written' = Written /\ Rotated' = Rotated
  <2>1. Received' = Received + 1 /\ Held = filled /\ Held' = filled + 1
    BY <1>1, <1>2, <1>3 DEF Received, Held
  <2>2. Written' = Written
    BY <1>2, <2>1, LogNumbers DEF Written
  <2> QED BY <1>1, <2>1, <2>2 DEF Rotated
<1>7. ASSUME ~logBroken PROVE OnTheWay' /\ BackupsInOrder'
  <2>1. OnTheWay /\ BackupsInOrder
    BY <1>7 DEF LogInv
  <2>2. \A i \in 1..Len(logChan') : logChan'[i] = Received' + i
    <3> SUFFICES ASSUME NEW i \in 1..Len(logChan') PROVE logChan'[i] = Received' + i
      OBVIOUS
    <3>1. i \in Nat /\ i + 1 \in 1..Len(logChan)
      BY <1>3
    <3>2. logChan[i + 1] = Received + (i + 1)
      BY <2>1, <3>1 DEF OnTheWay
    <3>3. Received + (i + 1) = Received' + i
      BY <1>2, <1>6, <3>1, LogNumbers
    <3> QED BY <1>3, <3>2, <3>3
  <2>3. logChan[1] = Received + 1 /\ Received + 1 = Written + (filled + 1)
    BY <1>2, <1>3, <1>6, <2>1, LogNumbers DEF OnTheWay, Written
  <2>4. \A i \in 1..Held' : slots'[i] = Written + i
    <3>1. \A i \in 1..filled : slots[i] = Written + i
      BY <1>6, <2>1 DEF OnTheWay
    <3>2. \A i \in 1..filled : slots'[i] = Written + i
      BY <1>4, <3>1
    <3>3. slots'[filled + 1] = Written + (filled + 1)
      BY <1>3, <1>4, <2>3
    <3>4. \A i \in 1..(filled + 1) : i \in 1..filled \/ i = filled + 1
      BY <1>2
    <3> QED BY <1>6, <3>2, <3>3, <3>4
  <2>5. OnTheWay'
    BY <1>1, <1>6, <2>1, <2>2, <2>4 DEF OnTheWay
  <2> QED BY <1>1, <1>6, <2>1, <2>5, FilesStay DEF LogInv
<1> QED BY <1>1, <1>5, <1>7, FilesStay DEF LogInv

\* What a goroutine's step leaves is in order.
LEMMA StepOfCopy ==
  ASSUME LogInv, UNCHANGED <<rotations, second, zipped, outdated>>, Rotated' = Rotated, zipped = TRUE,
         Follows(backups, zipping, backups', zipping'),
         outdated \/ Doubled \/ Keeps(backups, zipping, backups', zipping')
  PROVE  FilesTyping' /\ CopiesInOrder' /\ (BackupsInOrder => BackupsInOrder')
<1>1. Doubled' = Doubled
  BY DEF Doubled
<1>2. FilesTyping'
  <2>1. FilesTyping
    BY DEF LogInv
  <2>2. \A b \in backups' : b.name <= second
    BY <2>1 DEF Follows, FilesTyping
  <2>3. \A z \in zipping' : z.name <= second
    BY <2>1 DEF Follows, FilesTyping
  <2> QED BY <2>1, <2>2, <2>3 DEF Follows, FilesTyping
<1>3. CopiesInOrder'
  BY <1>1 DEF LogInv, CopiesInOrder, Keeps
<1>4. ASSUME BackupsInOrder PROVE BackupsInOrder'
  <2>1. Apart(Texts, Rotated, ~Doubled)
    BY <1>4 DEF BackupsInOrder
  <2>2. \A x \in Texts' : x \in Texts \/ x[2] = <<>>
    BY DEF Follows, Texts
  <2>3. Apart(Texts', Rotated, ~Doubled)
    BY <2>1, <2>2, FewerTexts
  <2>4. outdated \/ Doubled \/ Complete(backups', Rotated)
    BY <1>4 DEF BackupsInOrder, Keeps, LogInv, CopiesInOrder, Complete
  <2> QED BY <1>1, <2>3, <2>4 DEF BackupsInOrder
<1> QED BY <1>2, <1>3, <1>4

\* A goroutine reads a backup, writes its copy, or removes it.
LEMMA CopyIsMade == ASSUME LogInv, CompressFile PROVE LogInv'
<1>0. FilesTyping /\ backups \subseteq Files /\ OneOfAKind(backups) /\ zipping \subseteq Zips
  BY DEF LogInv, FilesTyping
<1>1. /\ UNCHANGED <<accepted, logChan, slots, filled, logStep, logFile, opened, rotation, logBroken>>
      /\ UNCHANGED <<rotations, second, zipped, outdated>>
  BY DEF CompressFile
<1>2. PICK z \in zipping :
        ReadBackup(z) \/ CreateCopy(z) \/ WriteCopy(z) \/ RemoveBackup(z) \/ GiveUp(z)
  BY DEF CompressFile
<1>3. Rotated' = Rotated /\ Received' = Received /\ Held' = Held /\ Written' = Written
  BY <1>1 DEF Rotated, Written, Received, Held
<1>4. zipped = TRUE
  BY <1>0 DEF LogInv, CopiesInOrder, FilesTyping
<1>5. z \in Zips /\ z.name \in Nat /\ z.data \in Seq(Nat) /\ <<>> \in Seq(Nat)
  BY <1>0, EmptySeq DEF Zips
<1> DEFINE moved(at, data) == [z EXCEPT !.at = at, !.data = data]
<1>6. ASSUME NEW at \in {"read", "create", "write", "remove"}, NEW data \in Seq(Nat)
      PROVE  /\ moved(at, data) \in Zips /\ moved(at, data).name = z.name
             /\ moved(at, data).at = at /\ moved(at, data).data = data
  BY <1>5 DEF Zips
<1>7. \A zip, n : Other(n, zip) = {b \in backups : ~(b.name = n /\ b.zip = zip)}
  BY DEF Other
<1> HIDE DEF moved
<1>8. /\ Follows(backups, zipping, backups', zipping')
      /\ outdated \/ Doubled \/ Keeps(backups, zipping, backups', zipping')
  <2>1. CASE UNCHANGED backups /\ zipping' = zipping \ {z}
    BY <1>0, <2>1, ZipIsOver
  <2>2. ASSUME ReadBackup(z), zipping' # zipping \ {z}
        PROVE  /\ Follows(backups, zipping, backups', zipping')
               /\ Keeps(backups, zipping, backups', zipping')
    <3>1. PICK b \in backups : b.name = z.name /\ ~b.zip /\ ZipIsAt(z, "create", b.lines)
      BY <2>2 DEF ReadBackup, ZipEnds
    <3>2. z.at = "read" /\ backups' = backups
      BY <2>2 DEF ReadBackup
    <3> DEFINE w == moved("create", b.lines)
    <3>3. b.lines \in Seq(Nat)
      BY <1>0 DEF Files
    <3>4. w \in Zips /\ w.name = z.name /\ w.at = "create" /\ w.data = b.lines
      BY <1>6, <3>3
    <3>5. zipping' = (zipping \ {z}) \cup {w}
      BY <3>1 DEF ZipIsAt, moved
    <3> HIDE DEF w
    <3> QED BY <1>0, <3>1, <3>2, <3>4, <3>5, BackupIsRead
  <2>3. ASSUME CreateCopy(z)
        PROVE  /\ Follows(backups, zipping, backups', zipping')
               /\ Keeps(backups, zipping, backups', zipping')
    <3> DEFINE w == moved("write", z.data)
               c == Backup(z.name, TRUE, <<>>)
    <3>1. /\ z.at = "create" /\ zipping' = (zipping \ {z}) \cup {w}
          /\ backups' = {b \in backups : ~(b.name = z.name /\ b.zip = TRUE)} \cup {c}
      BY <1>7, <2>3 DEF CreateCopy, ZipIsAt, moved
    <3>2. w \in Zips /\ w.name = z.name /\ w.at = "write" /\ w.data = z.data
      BY <1>5, <1>6
    <3>3. c \in Files /\ c.name = z.name /\ c.zip = TRUE /\ c.lines = <<>>
      BY <1>5, FileFields
    <3> HIDE DEF w, c
    <3>4. /\ \A b \in backups' : b = c \/ (b \in backups /\ ~(b.name = z.name /\ b.zip))
          /\ \A b \in backups : (b.name = z.name /\ b.zip) \/ b \in backups'
          /\ c \in backups'
      BY <1>0, <3>1 DEF Files
    <3> QED BY <1>0, <3>1, <3>2, <3>3, <3>4, CopyIsWritten
  <2>4. ASSUME WriteCopy(z)
        PROVE  /\ Follows(backups, zipping, backups', zipping')
               /\ Doubled \/ Keeps(backups, zipping, backups', zipping')
    <3>1. PICK text \in {z.data, <<>>} :
            /\ backups' = Other(z.name, TRUE)
                            \cup {Backup(z.name, TRUE, text) : b \in backups \ Other(z.name, TRUE)}
            /\ text = z.data \/ Doubled
      BY <2>4 DEF WriteCopy
    <3> DEFINE w == moved("remove", z.data)
               c == Backup(z.name, TRUE, text)
    <3>2. z.at = "write" /\ zipping' = (zipping \ {z}) \cup {w}
      BY <2>4 DEF WriteCopy, ZipIsAt, moved
    <3>3. w \in Zips /\ w.name = z.name /\ w.at = "remove" /\ w.data = z.data
      BY <1>5, <1>6
    <3>4. c \in Files /\ c.name = z.name /\ c.zip = TRUE /\ c.lines = text
      <4>1. text \in Seq(Nat)
        BY <1>5
      <4> QED BY <1>5, <4>1, FileFields
    <3>5. \A b : b \in backups' <=>
            \/ b \in backups /\ ~(b.name = z.name /\ b.zip = TRUE)
            \/ b = c /\ (\E a \in backups : a.name = z.name /\ a.zip = TRUE)
      BY <1>7, <3>1
    <3> HIDE DEF w, c
    <3>6. /\ \A b \in backups' : b = c \/ (b \in backups /\ ~(b.name = z.name /\ b.zip))
          /\ \A b \in backups : (b.name = z.name /\ b.zip) \/ b \in backups'
          /\ (\E b \in backups : b.name = z.name /\ b.zip) => c \in backups'
      BY <1>0, <3>5 DEF Files
    <3>7. /\ Follows(backups, zipping, backups', zipping')
          /\ text = z.data => Keeps(backups, zipping, backups', zipping')
      BY <1>0, <3>2, <3>3, <3>4, <3>6, CopyIsWritten
    <3> QED BY <3>1, <3>7
  <2>5. ASSUME RemoveBackup(z)
        PROVE  /\ Follows(backups, zipping, backups', zipping')
               /\ Keeps(backups, zipping, backups', zipping')
    <3>1. /\ z.at = "remove" /\ zipping' = zipping \ {z}
          /\ backups' = {b \in backups : ~(b.name = z.name /\ b.zip = FALSE)}
      BY <1>7, <2>5 DEF RemoveBackup, ZipEnds
    <3>2. \A b \in backups : b \in backups' \/ (b.name = z.name /\ ~b.zip)
      BY <1>0, <3>1 DEF Files
    <3>3. backups' \subseteq backups
      BY <3>1
    <3> QED BY <1>0, <3>1, <3>2, <3>3, BackupIsRemoved
  <2>6. CASE GiveUp(z)
    BY <2>1, <2>6 DEF GiveUp, ZipEnds
  <2>7. CASE ReadBackup(z)
    BY <2>1, <2>2, <2>7 DEF ReadBackup
  <2> QED BY <1>2, <2>3, <2>4, <2>5, <2>6, <2>7
<1>9. FilesTyping' /\ CopiesInOrder' /\ (BackupsInOrder => BackupsInOrder')
  BY <1>1, <1>3, <1>4, <1>8, StepOfCopy
<1>10. LogTyping' /\ WorkerIsReady' /\ (OnTheWay => OnTheWay')
  BY <1>1, <1>3 DEF LogInv, LogTyping, WorkerIsReady, OnTheWay
<1> QED BY <1>1, <1>9, <1>10 DEF LogInv

\* The file becomes a backup, unless it was never opened, and may get a goroutine.
LEMMA FileIsRotated == ASSUME LogInv, RotateLog PROVE LogInv'
<1>0. /\ LogTyping /\ WorkerIsReady /\ FilesTyping /\ CopiesInOrder
      /\ logFile \in Seq(Nat) /\ accepted \in Nat /\ backups \subseteq Files /\ zipping \subseteq Zips
      /\ OneOfAKind(backups) /\ rotations \in Nat /\ second \in Nat /\ second <= rotations
      /\ outdated \in BOOLEAN /\ zipped \in BOOLEAN
  BY DEF LogInv, LogTyping, FilesTyping
<1>1. PICK renamed \in BOOLEAN, reopens \in BOOLEAN, later \in BOOLEAN :
       LET moved == opened /\ renamed
           name == IF later \/ second = 0 THEN second + 1 ELSE second
           all == IF moved THEN Other(name, FALSE) \cup {Backup(name, FALSE, logFile)} ELSE backups
           new == IF moved /\ rotation.compress
                  THEN {[id |-> rotations + 1, name |-> name, at |-> "read", data |-> <<>>]} ELSE {}
       IN /\ IF renamed /\ reopens THEN LogWorks ELSE LogFails
          /\ rotations' = IF moved THEN rotations + 1 ELSE rotations
          /\ second' = IF moved THEN name ELSE second
          /\ zipping' = zipping \cup new /\ zipped' = (zipped \/ new # {})
          /\ backups' \in CleanOldBackups(all) /\ outdated' = (outdated \/ backups' # all)
          /\ logFile' = <<>> /\ opened' = reopens
          /\ currentSize' = IF reopens THEN 0 ELSE currentSize
          /\ logBroken' = (logBroken \/ ~renamed)
  BY Zenon DEF RotateLog
<1>2. /\ logStep = "rotate" /\ logStep' = "write"
      /\ UNCHANGED <<accepted, logChan, slots, filled, rotation>>
  BY DEF RotateLog
<1> DEFINE moved == opened /\ renamed
           name == IF later \/ second = 0 THEN second + 1 ELSE second
           file == Backup(name, FALSE, logFile)
           zip == [id |-> rotations + 1, name |-> name, at |-> "read", data |-> <<>>]
           all == IF moved THEN Other(name, FALSE) \cup {file} ELSE backups
           new == IF moved /\ rotation.compress THEN {zip} ELSE {}
<1>3. /\ rotations' = IF moved THEN rotations + 1 ELSE rotations
      /\ second' = IF moved THEN name ELSE second
      /\ zipping' = zipping \cup new /\ zipped' = (zipped \/ new # {})
      /\ backups' \in CleanOldBackups(all) /\ outdated' = (outdated \/ backups' # all)
      /\ logFile' = <<>> /\ opened' = reopens /\ logBroken' = (logBroken \/ ~renamed)
  BY <1>1
<1>4. name \in Nat /\ second <= name /\ name <= second + 1
  BY <1>0
<1>5. /\ file \in Files /\ file.name = name /\ file.zip = FALSE /\ file.lines = logFile
      /\ zip \in Zips /\ zip.name = name /\ zip.at = "read" /\ zip.data = <<>>
  <2> HIDE DEF name
  <2>1. <<>> \in Seq(Nat)
    BY EmptySeq
  <2> QED BY <1>0, <1>4, <2>1 DEF Backup, Files, Zips
<1>6. /\ \A b \in all : (b \in backups /\ (moved => ~(b.name = name /\ ~b.zip))) \/ (moved /\ b = file)
      /\ moved => file \in all /\ \A b \in backups : b.name = name \/ b \in all
      /\ ~moved => all = backups
  <2> HIDE DEF name, file
  <2> QED BY <1>0 DEF Other, Files
<1>7. /\ \A z \in zipping' : z \in zipping \/ (moved /\ z = zip)
      /\ zipping \subseteq zipping' /\ (~zipped' => ~zipped /\ zipping' = zipping)
  <2> HIDE DEF zip, moved
  <2> QED BY <1>3
<1>8. second' \in Nat /\ second <= second' /\ rotations' \in Nat /\ second' <= rotations'
      /\ (moved => second' = name)
  <2> HIDE DEF moved
  <2> QED BY <1>0, <1>3, <1>4
<1>9. (second' = rotations') => second = rotations /\ (moved => name = second + 1)
  <2> HIDE DEF moved
  <2> QED BY <1>0, <1>3, <1>4
<1>10. backups' \subseteq all /\ (backups' = all \/ Oldest(all \ backups', all))
  <2> HIDE DEF all
  <2> QED BY <1>3, CleansTheOldest
<1>11. /\ outdated' \in BOOLEAN /\ zipped' \in BOOLEAN
       /\ ~outdated' => ~outdated /\ backups' = all
  BY <1>0, <1>3
<1>12. moved => opened /\ renamed
  OBVIOUS
<1>13. /\ ~logBroken' => ~logBroken /\ (moved \/ ~opened)
       /\ logFile' = <<>> /\ logFile' \in Seq(Nat) /\ Len(logFile') = 0
       /\ logBroken' \in BOOLEAN
  BY <1>0, <1>3, EmptySeq DEF LogTyping
<1> HIDE DEF moved, name, file, zip, all, new
<1>14. FilesTyping'
  <2>1. all \subseteq Files /\ OneOfAKind(all)
    BY <1>0, <1>5, <1>6 DEF OneOfAKind, Files
  <2>2. \A b \in all : b.name <= second'
    <3>1. \A b \in backups : b.name \in Nat /\ b.name <= second
      BY <1>0 DEF FilesTyping, Files
    <3> QED BY <1>0, <1>4, <1>5, <1>6, <1>8, <3>1
  <2>3. \A z \in zipping' : z \in Zips /\ z.name <= second'
    <3>1. \A z \in zipping : z.name \in Nat /\ z.name <= second
      BY <1>0 DEF FilesTyping, Zips
    <3> QED BY <1>0, <1>4, <1>5, <1>7, <1>8, <3>1
  <2> QED BY <1>8, <1>10, <1>11, <2>1, <2>2, <2>3 DEF FilesTyping, OneOfAKind
<1>15. ASSUME ~Doubled'
       PROVE  /\ ~Doubled /\ backups \subseteq all
              /\ moved => /\ \A b \in backups : b.name # name /\ b.name <= name
                          /\ \A z \in zipping : z.name # name /\ z.name <= name
  <2>1. second = rotations /\ (moved => name = second + 1)
    <3>1. second' = rotations'
      BY <1>8, <1>15 DEF Doubled
    <3> QED BY <1>9, <3>1
  <2>2. \A b \in backups : b.name \in Nat /\ b.name <= second
    BY <1>0 DEF FilesTyping, Files
  <2>3. \A z \in zipping : z.name \in Nat /\ z.name <= second
    BY <1>0 DEF FilesTyping, Zips
  <2>4. moved => /\ \A b \in backups : b.name # name /\ b.name <= name
                 /\ \A z \in zipping : z.name # name /\ z.name <= name
    BY <1>0, <2>1, <2>2, <2>3
  <2> QED BY <1>0, <1>6, <2>1, <2>4 DEF Doubled
<1>16. CopiesInOrder'
  <2>1. ASSUME ~outdated', ~Doubled' PROVE TrueCopies(backups', zipping')
    <3>1. /\ TrueCopies(backups, zipping) /\ backups' = all /\ backups \subseteq all
          /\ moved => /\ \A b \in backups : b.name # name
                      /\ \A z \in zipping : z.name # name
      BY <1>0, <1>11, <1>15, <2>1 DEF CopiesInOrder
    <3>2. \A b \in all : b \in backups \/ (moved /\ b = file)
      BY <1>6
    <3>3. \A y, z \in zipping' : y.name = z.name => y = z
      BY <1>5, <1>7, <3>1 DEF TrueCopies
    <3>4. \A z \in zipping', b \in all : b.name = z.name =>
            /\ b.zip /\ z.at # "remove" => b.lines = <<>>
            /\ ~b.zip /\ z.at # "read" => b.lines = z.data
      BY <1>5, <1>7, <3>1, <3>2 DEF TrueCopies
    <3>5. \A z \in zipping' :
            /\ z.at = "write" => \E b \in all : b.name = z.name /\ b.zip
            /\ z.at = "remove" => \E b \in all : b.name = z.name /\ b.zip /\ b.lines = z.data
      <4> SUFFICES ASSUME NEW z \in zipping, z.at \in {"write", "remove"}
                   PROVE  /\ z.at = "write" => \E b \in all : b.name = z.name /\ b.zip
                          /\ z.at = "remove" => \E b \in all : b.name = z.name /\ b.zip /\ b.lines = z.data
        BY <1>5, <1>7
      <4> QED BY <3>1 DEF TrueCopies
    <3> QED BY <3>1, <3>3, <3>4, <3>5 DEF TrueCopies
  <2>2. ASSUME ~zipped' PROVE zipping' = {} /\ \A b \in backups' : ~b.zip
    BY <1>0, <1>5, <1>6, <1>7, <1>10, <2>2 DEF CopiesInOrder
  <2> QED BY <2>1, <2>2 DEF CopiesInOrder
<1>17. LogTyping' /\ WorkerIsReady'
  BY <1>0, <1>2, <1>13 DEF LogTyping, WorkerIsReady
<1>18. /\ Received' = Received /\ Held' = Held /\ Written' = Written /\ Rotated' = Written
       /\ Received \in Int /\ Held \in Nat /\ Written \in Int /\ Rotated \in Int
  <2>1. Received' = Received /\ Held' = Held
    BY <1>2 DEF Received, Held
  <2>2. Written' = Written
    BY <2>1 DEF Written
  <2> QED BY <1>0, <1>13, <2>1, <2>2, LogNumbers DEF Rotated
<1>19. ASSUME ~logBroken' PROVE OnTheWay' /\ BackupsInOrder'
  <2>1. OnTheWay /\ BackupsInOrder /\ Apart(Texts, Rotated, ~Doubled)
    BY <1>13, <1>19 DEF LogInv, BackupsInOrder
  <2>2. /\ Rotated \in Nat /\ Written \in Nat /\ Rotated <= Written
        /\ Len(logFile) = Written - Rotated
        /\ ~moved => Written = Rotated
    <3>1. Len(logFile) \in Nat /\ Rotated = Written - Len(logFile) /\ Rotated >= 0
      BY <1>0, <2>1, LogNumbers DEF OnTheWay, Rotated
    <3>2. ~moved => Len(logFile) = 0
      BY <1>0, <1>13, <1>19, EmptySeq DEF WorkerIsReady
    <3> QED BY <1>18, <3>1, <3>2
  <2>3. OnTheWay'
    BY <1>2, <1>13, <1>18, <2>1, <2>2 DEF OnTheWay
  <2>4. Apart(Texts \cup {<<name, logFile>>}, Written, ~Doubled') \/ ~moved
    <3>1. ASSUME moved, NEW x \in Texts
          PROVE  x[1] \in Nat /\ x[1] <= name /\ x[2] \in Seq(Nat) /\ (~Doubled' => x[1] # name)
      <4>1. CASE \E b \in backups : x = <<b.name, b.lines>>
        <5>1. PICK b \in backups : x = <<b.name, b.lines>>
          BY <4>1
        <5>2. b.name \in Nat /\ b.lines \in Seq(Nat) /\ b.name <= second /\ (~Doubled' => b.name # name)
          BY <1>0, <1>15, <3>1 DEF Files, FilesTyping
        <5> QED BY <1>0, <1>4, <5>1, <5>2
      <4>2. CASE \E z \in zipping : x = <<z.name, z.data>>
        <5>1. PICK z \in zipping : x = <<z.name, z.data>>
          BY <4>2
        <5>2. z.name \in Nat /\ z.data \in Seq(Nat) /\ z.name <= second /\ (~Doubled' => z.name # name)
          BY <1>0, <1>15, <3>1 DEF Zips, FilesTyping
        <5> QED BY <1>0, <1>4, <5>1, <5>2
      <4> QED BY <4>1, <4>2 DEF Texts, TextsOf
    <3>2. Continues(logFile, Rotated)
      BY <2>1 DEF OnTheWay, Continues
    <3>3. ~Doubled' => ~Doubled
      BY <1>15
    <3> DEFINE S == Texts
               again == ~Doubled'
               once == ~Doubled
               top == Rotated
               next == Written
    <3>4. ASSUME moved
          PROVE  /\ Apart(S, top, once) /\ (again => once) /\ Continues(logFile, top)
                 /\ NamedUpTo(S, name, again)
                 /\ top \in Nat /\ next \in Nat /\ top <= next /\ Len(logFile) = next - top
      <4>1. NamedUpTo(S, name, again)
        BY <3>1, <3>4 DEF NamedUpTo
      <4> QED BY <2>1, <2>2, <3>2, <3>3, <4>1
    <3>5. ASSUME moved PROVE Apart(S \cup {<<name, logFile>>}, next, again)
      BY <1>0, <1>4, <3>4, <3>5, OneMoreText
    <3> QED BY <3>5 DEF S, again, next
  <2> DEFINE T == TextsOf(all, zipping')
  <2>5. Apart(T, Written, ~Doubled')
    <3>1. ASSUME NEW x \in T
          PROVE  x \in Texts \/ (moved /\ x = <<name, logFile>>) \/ x[2] = <<>>
      <4>1. CASE \E b \in all : x = <<b.name, b.lines>>
        <5>1. PICK b \in all : x = <<b.name, b.lines>>
          BY <4>1
        <5> QED BY <1>5, <1>6, <5>1 DEF Texts, TextsOf
      <4>2. CASE \E z \in zipping' : x = <<z.name, z.data>>
        <5>1. PICK z \in zipping' : x = <<z.name, z.data>>
          BY <4>2
        <5> QED BY <1>5, <1>7, <5>1 DEF Texts, TextsOf
      <4> QED BY <4>1, <4>2 DEF TextsOf
    <3> HIDE DEF T
    <3>2. CASE moved
      <4> DEFINE S == Texts \cup {<<name, logFile>>}
      <4>1. Apart(S, Written, ~Doubled') /\ \A x \in T : x \in S \/ x[2] = <<>>
        BY <2>4, <3>1, <3>2
      <4> HIDE DEF S
      <4> QED BY <4>1, FewerTexts
    <3>3. CASE ~moved
      <4>1. Apart(Texts, Written, ~Doubled)
        BY <2>1, <2>2, <3>3
      <4>2. ~Doubled' => ~Doubled
        BY <1>15
      <4>3. \A x \in T : x \in Texts \/ x[2] = <<>>
        BY <3>1, <3>3
      <4> QED BY <4>1, <4>2, <4>3, FewerTexts
    <3> QED BY <3>2, <3>3
  <2>6. Apart(Texts', Written, ~Doubled')
    <3>1. \A x \in Texts' : x \in T
      BY <1>10 DEF Texts, TextsOf
    <3> HIDE DEF T
    <3> QED BY <2>5, <3>1, FewerTexts
  <2>7. ASSUME ~Doubled', NEW n \in 1..Written, n \notin 1..Rotated PROVE Backed(n, all)
    <3>1. moved
      BY <2>2, <2>7
    <3>2. n - Rotated \in 1..Len(logFile) /\ Rotated + (n - Rotated) = n
      BY <2>2, <2>7
    <3>3. logFile[n - Rotated] = n
      BY <2>1, <3>2 DEF OnTheWay
    <3> QED BY <1>5, <1>6, <3>1, <3>2, <3>3 DEF Backed
  <2>8. ASSUME ~Doubled', NEW n, Backed(n, backups) PROVE Backed(n, all)
    BY <1>15, <2>8 DEF Backed
  <2>9. ASSUME ~outdated', ~Doubled' PROVE Complete(backups', Written)
    <3>1. Complete(backups, Rotated) /\ backups' = all
      BY <1>11, <1>15, <2>1, <2>9 DEF BackupsInOrder
    <3> QED BY <2>7, <2>8, <2>9, <3>1 DEF Complete
  <2>10. ASSUME ~zipped', ~Doubled' PROVE Latest(backups', Written)
    <3>1. Latest(backups, Rotated) /\ zipping = {} /\ \A b \in backups : ~b.zip
      BY <1>0, <1>7, <1>15, <2>1, <2>10 DEF BackupsInOrder, CopiesInOrder
    <3>2. \A b \in all : ~b.zip /\ b.name \in Nat /\ b.lines \in Seq(Nat)
      BY <1>0, <1>5, <1>6, <3>1 DEF Files
    <3>3. Latest(all, Written)
      <4> SUFFICES ASSUME NEW m \in 1..Written, NEW n \in 1..Written, m < n, Backed(m, all)
                   PROVE  Backed(n, all)
        BY DEF Latest
      <4>1. CASE n \notin 1..Rotated
        BY <2>7, <2>10, <4>1
      <4>2. CASE n \in 1..Rotated
        <5>1. m \in 1..Rotated
          BY <2>2, <4>2
        <5>2. PICK b \in all : \E i \in 1..Len(b.lines) : b.lines[i] = m
          BY DEF Backed
        <5>3. b \in backups
          <6> SUFFICES ASSUME b = file, moved PROVE FALSE
            BY <1>6
          <6>1. PICK i \in 1..Len(logFile) : logFile[i] = m
            BY <1>5, <5>2
          <6>2. m = Rotated + i
            BY <2>1, <6>1 DEF OnTheWay
          <6> QED BY <2>2, <5>1, <6>1, <6>2
        <5>4. Backed(m, backups)
          BY <5>2, <5>3 DEF Backed
        <5>5. Backed(n, backups)
          BY <3>1, <4>2, <5>1, <5>4 DEF Latest
        <5> QED BY <2>8, <2>10, <5>5
      <4> QED BY <4>1, <4>2
    <3>4. Apart(TextsOf(all, {}), Written, TRUE)
      <4>1. Apart(T, Written, TRUE) /\ \A x \in TextsOf(all, {}) : x \in T
        BY <2>5, <2>10 DEF TextsOf, Apart
      <4> HIDE DEF T
      <4> QED BY <4>1, FewerTexts
    <3> DEFINE left == backups'
    <3>5. left \subseteq all /\ (left = all \/ Oldest(all \ left, all))
      BY <1>10
    <3> HIDE DEF left
    <3>6. Latest(left, Written)
      BY <3>2, <3>3, <3>4, <3>5, OldestGo
    <3> QED BY <3>6 DEF left
  <2> QED BY <1>18, <2>3, <2>6, <2>9, <2>10 DEF BackupsInOrder
<1> QED BY <1>14, <1>16, <1>17, <1>19 DEF LogInv

\* The batch is written to the file.
LEMMA BatchIsWritten == ASSUME LogInv, WriteLines PROVE LogInv'
<1>0. /\ LogTyping /\ WorkerIsReady /\ logFile \in Seq(Nat) /\ filled \in 0..LogBatch /\ LogBatch \in Nat
      /\ slots \in [1..LogBatch -> Nat]
  BY LogAssumption DEF LogInv, LogTyping
<1>1. /\ logStep = "write" /\ logStep' = "store"
      /\ UNCHANGED <<accepted, logChan, slots, filled, opened, backupVars, rotation>>
  BY DEF WriteLines
<1>2. CASE logBroken' = TRUE /\ UNCHANGED logFile
  BY <1>0, <1>1, <1>2, FilesStay DEF LogInv, LogTyping, WorkerIsReady
<1>3. CASE opened /\ logFile' = logFile \o Batch /\ UNCHANGED logBroken
  <2>1. /\ Batch \in Seq(Nat) /\ Len(Batch) = filled /\ \A i \in 1..filled : Batch[i] = slots[i]
    <3>1. \A i \in 1..filled : slots[i] \in Nat
      BY <1>0
    <3>2. /\ SubSeq(slots, 1, filled) \in Seq(Nat)
          /\ Len(SubSeq(slots, 1, filled)) = IF 1 <= filled THEN filled - 1 + 1 ELSE 0
          /\ \A i \in 1..(filled - 1 + 1) : SubSeq(slots, 1, filled)[i] = slots[1 + i - 1]
      BY <1>0, <3>1, SubSeqProperties
    <3> QED BY <1>0, <3>2 DEF Batch
  <2>2. /\ logFile' \in Seq(Nat) /\ Len(logFile') = Len(logFile) + filled
        /\ \A i \in 1..(Len(logFile) + filled) :
             logFile'[i] = IF i <= Len(logFile) THEN logFile[i] ELSE slots[i - Len(logFile)]
    <3>1. /\ logFile' \in Seq(Nat) /\ Len(logFile') = Len(logFile) + Len(Batch)
          /\ \A i \in 1..(Len(logFile) + Len(Batch)) :
               logFile'[i] = IF i <= Len(logFile) THEN logFile[i] ELSE Batch[i - Len(logFile)]
      BY <1>0, <1>3, <2>1, ConcatProperties
    <3>2. \A i \in 1..(Len(logFile) + filled) : ~(i <= Len(logFile)) => i - Len(logFile) \in 1..filled
      BY <1>0, LenProperties
    <3> QED BY <2>1, <3>1, <3>2
  <2>3. LogTyping' /\ WorkerIsReady'
    BY <1>0, <1>1, <1>3, <2>2 DEF LogTyping, WorkerIsReady
  <2>4. /\ Held = filled /\ Held' = 0 /\ Received' = Received /\ Written' = Received /\ Rotated' = Rotated
        /\ Received \in Int /\ Written \in Int /\ Rotated \in Int
    <3>1. Held = filled /\ Held' = 0 /\ Received' = Received
      BY <1>1 DEF Held, Received
    <3>2. Written' = Received
      BY <1>0, <3>1, LogNumbers DEF Written
    <3> QED BY <1>0, <2>2, <3>1, <3>2, LogNumbers DEF Rotated, Written
  <2>5. ASSUME ~logBroken PROVE OnTheWay' /\ BackupsInOrder'
    <3>1. OnTheWay /\ BackupsInOrder
      BY <2>5 DEF LogInv
    <3>2. \A i \in 1..Len(logFile') : logFile'[i] = Rotated + i
      <4> SUFFICES ASSUME NEW i \in 1..(Len(logFile) + filled) PROVE logFile'[i] = Rotated + i
        BY <2>2
      <4>1. CASE i <= Len(logFile)
        <5>1. i \in 1..Len(logFile)
          BY <1>0, <4>1, LogNumbers
        <5>2. logFile[i] = Rotated + i
          BY <3>1, <5>1 DEF OnTheWay
        <5> QED BY <2>2, <4>1, <5>2
      <4>2. CASE ~(i <= Len(logFile))
        <5>1. i - Len(logFile) \in 1..filled
          BY <1>0, <4>2, LogNumbers
        <5>2. slots[i - Len(logFile)] = Written + (i - Len(logFile))
          BY <2>4, <3>1, <5>1 DEF OnTheWay
        <5>3. Written = Rotated + Len(logFile)
          BY <1>0, LogNumbers DEF Rotated
        <5> QED BY <1>0, <2>2, <2>4, <4>2, <5>2, <5>3, LogNumbers
      <4> QED BY <4>1, <4>2
    <3>3. OnTheWay'
      BY <1>1, <2>4, <3>1, <3>2 DEF OnTheWay
    <3> QED BY <1>1, <2>4, <3>1, <3>3, FilesStay DEF LogInv
  <2> QED BY <1>1, <1>3, <2>3, <2>5, FilesStay DEF LogInv
<1> QED BY <1>2, <1>3 DEF WriteLines

\* Old backups go.
LEMMA OldLogsGo == ASSUME LogInv, CleanupOldLogs PROVE LogInv'
<1>0. /\ LogTyping /\ WorkerIsReady /\ FilesTyping /\ CopiesInOrder /\ backups \subseteq Files
  BY DEF LogInv, FilesTyping
<1>1. PICK gone \in SUBSET backups : Oldest(gone, backups) /\ backups' = backups \ gone
  BY DEF CleanupOldLogs
<1>2. outdated' = TRUE
      /\ UNCHANGED <<accepted, logChan, slots, filled, logStep, logFile, opened, rotation, logBroken,
                     rotations, second, zipping, zipped>>
  BY DEF CleanupOldLogs
<1>3. FilesTyping' /\ LogTyping' /\ WorkerIsReady'
  <2>1. backups' \subseteq backups
    BY <1>1
  <2>2. FilesTyping'
    BY <1>0, <1>2, <2>1 DEF FilesTyping, OneOfAKind
  <2> QED BY <1>0, <1>2, <2>2 DEF LogTyping, WorkerIsReady
<1>4. CopiesInOrder'
  BY <1>0, <1>1, <1>2 DEF CopiesInOrder
<1>5. Received' = Received /\ Held' = Held /\ Written' = Written /\ Rotated' = Rotated
  BY <1>2 DEF Received, Held, Written, Rotated
<1>6. ASSUME ~logBroken PROVE OnTheWay' /\ BackupsInOrder'
  <2>1. OnTheWay /\ BackupsInOrder
    BY <1>6 DEF LogInv
  <2>2. Doubled' = Doubled
    BY <1>2 DEF Doubled
  <2>3. Apart(Texts', Rotated, ~Doubled)
    <3>1. \A x \in Texts' : x \in Texts
      BY <1>1, <1>2 DEF Texts, TextsOf
    <3> QED BY <2>1, <3>1, FewerTexts DEF BackupsInOrder
  <2>4. ASSUME ~zipped, ~Doubled PROVE Latest(backups', Rotated)
    <3>1. \A b \in backups : ~b.zip /\ b.name \in Nat /\ b.lines \in Seq(Nat)
      BY <1>0, <2>4 DEF CopiesInOrder, Files
    <3>2. Apart(TextsOf(backups, {}), Rotated, TRUE)
      <4>1. Apart(Texts, Rotated, TRUE)
        BY <2>1, <2>4 DEF BackupsInOrder, Apart
      <4>2. \A x \in TextsOf(backups, {}) : x \in Texts
        BY DEF Texts, TextsOf
      <4> QED BY <4>1, <4>2, FewerTexts
    <3>3. Latest(backups, Rotated)
      BY <2>1, <2>4 DEF BackupsInOrder
    <3> DEFINE left == backups'
    <3>4. left \subseteq backups /\ Oldest(backups \ left, backups)
      <4>1. backups \ (backups \ gone) = gone
        OBVIOUS
      <4> QED BY <1>1, <4>1
    <3> HIDE DEF left
    <3>5. Latest(left, Rotated)
      BY <3>1, <3>2, <3>3, <3>4, OldestGo
    <3> QED BY <3>5 DEF left
  <2>5. OnTheWay'
    BY <1>2, <1>5, <2>1 DEF OnTheWay
  <2> QED BY <1>2, <1>5, <2>2, <2>3, <2>4, <2>5 DEF BackupsInOrder
<1> QED BY <1>2, <1>3, <1>4, <1>6 DEF LogInv

\* The next start continues the file.
LEMMA LogIsReopened == ASSUME LogInv, InitWithRotationAndDB PROVE LogInv'
<1>0. LogTyping /\ WorkerIsReady /\ FilesTyping /\ CopiesInOrder
  BY DEF LogInv
<1>1. /\ logStep = "ended" /\ logStep' = "select" /\ slots' = [i \in 1..LogBatch |-> 0] /\ opened' = TRUE
      /\ UNCHANGED <<accepted, logChan, filled, logFile, rotation, logBroken>>
      /\ zipping' = {} /\ UNCHANGED <<backups, rotations, second, zipped, outdated>>
  BY DEF InitWithRotationAndDB
<1>2. filled = 0 /\ LogBatch \in Nat \ {0}
  BY <1>0, <1>1, LogAssumption DEF WorkerIsReady
<1>3. LogTyping' /\ WorkerIsReady' /\ FilesTyping'
  <2>1. FilesTyping'
    BY <1>0, <1>1 DEF FilesTyping
  <2> QED BY <1>0, <1>1, <1>2, <2>1 DEF LogTyping, WorkerIsReady
<1>4. Held = 0 /\ Held' = 0 /\ Received' = Received
  BY <1>1, <1>2 DEF Held, Received
<1>5. Written' = Written /\ Rotated' = Rotated
  BY <1>1, <1>4 DEF Written, Rotated
<1>6. CopiesInOrder' /\ Doubled' = Doubled
  BY <1>0, <1>1 DEF CopiesInOrder, TrueCopies, Doubled
<1>7. ASSUME BackupsInOrder PROVE BackupsInOrder'
  <2>1. \A x \in Texts' : x \in Texts
    BY <1>1 DEF Texts, TextsOf
  <2>2. Apart(Texts', Rotated, ~Doubled)
    BY <1>7, <2>1, FewerTexts DEF BackupsInOrder
  <2> QED BY <1>1, <1>5, <1>6, <1>7, <2>2 DEF BackupsInOrder
<1>8. OnTheWay => OnTheWay'
  BY <1>1, <1>4, <1>5 DEF OnTheWay
<1> QED BY <1>1, <1>3, <1>6, <1>7, <1>8 DEF LogInv

LEMMA LogStart == LogInit => LogInv
<1> SUFFICES ASSUME LogInit PROVE LogInv
  OBVIOUS
<1>1. /\ accepted = 0 /\ logChan = <<>> /\ slots = [i \in 1..LogBatch |-> 0] /\ filled = 0
      /\ logStep = "select" /\ logFile = <<>> /\ opened = TRUE
      /\ rotation \in Rotations /\ logBroken = FALSE
      /\ backups = {} /\ zipping = {} /\ rotations = 0 /\ second = 0
      /\ outdated = FALSE /\ zipped = FALSE
  BY DEF LogInit
<1>2. <<>> \in Seq(Nat) /\ Len(<<>>) = 0 /\ LogBatch \in Nat \ {0}
  BY EmptySeq, LogAssumption
<1>3. LogTyping /\ WorkerIsReady
  <2>1. slots \in [1..LogBatch -> Nat] /\ accepted \in Nat /\ filled \in 0..LogBatch
    BY <1>1, <1>2
  <2>2. logChan \in Seq(Nat) /\ logFile \in Seq(Nat)
    BY <1>1, <1>2
  <2>3. logBroken \in BOOLEAN /\ filled < LogBatch
    <3>1. filled = 0 /\ LogBatch \in Nat \ {0}
      BY <1>1, <1>2
    <3>2. filled < LogBatch
      BY <3>1
    <3>3. logBroken = FALSE
      BY <1>1
    <3>4. logBroken \in BOOLEAN
      BY <3>3
    <3> QED BY <3>2, <3>4
  <2>4. LogTyping
    BY <1>1, <2>1, <2>2, <2>3 DEF LogTyping
  <2>5. WorkerIsReady
    BY <1>1, <2>3 DEF WorkerIsReady
  <2> QED BY <2>4, <2>5
<1>4. Held = 0 /\ Received = 0 /\ Written = 0 /\ Rotated = 0
  <2>1. Held = 0 /\ Received = 0
    <3>1. Held = 0
      BY <1>1 DEF Held
    <3>2. Len(logChan) = 0
      BY <1>1, <1>2
    <3>3. accepted = 0
      BY <1>1
    <3> QED BY <3>1, <3>2, <3>3 DEF Received
  <2>2. Written = 0
    BY <2>1 DEF Written
  <2>3. Len(logFile) = 0
    BY <1>1, <1>2
  <2> QED BY <2>1, <2>2, <2>3 DEF Rotated
<1>5. OnTheWay
  BY <1>1, <1>2, <1>4 DEF OnTheWay
<1>6. FilesTyping
  <2>1. backups \subseteq Files /\ OneOfAKind(backups) /\ \A b \in backups : b.name <= second
    BY <1>1 DEF OneOfAKind
  <2>2. zipping \subseteq Zips /\ \A z \in zipping : z.name <= second
    BY <1>1
  <2>3. outdated \in BOOLEAN /\ zipped \in BOOLEAN
    BY <1>1
  <2>4. rotations = 0 /\ second = 0
    BY <1>1
  <2>5. rotations \in Nat /\ second \in Nat /\ second <= rotations
    BY <2>4
  <2> QED BY <2>1, <2>2, <2>3, <2>5 DEF FilesTyping
<1>7. CopiesInOrder
  BY <1>1 DEF CopiesInOrder, TrueCopies
<1>8. BackupsInOrder
  <2>1. Texts = {} /\ 1..0 = {}
    BY <1>1 DEF Texts, TextsOf
  <2>2. Apart(Texts, Rotated, ~Doubled)
    BY <2>1 DEF Apart
  <2>3. Complete(backups, Rotated) /\ Latest(backups, Rotated)
    BY <1>4, <2>1 DEF Complete, Latest
  <2> QED BY <2>2, <2>3 DEF BackupsInOrder
<1> QED BY <1>3, <1>5, <1>6, <1>7, <1>8 DEF LogInv

LEMMA LogStep == LogInv /\ [LogNext]_logVars => LogInv'
<1> SUFFICES ASSUME LogInv, [LogNext]_logVars PROVE LogInv'
  OBVIOUS
<1>0. LogTyping /\ WorkerIsReady /\ rotation \in Rotations
      /\ logStep \in {"select", "rotate", "write", "store", "ended"}
      /\ LogBatch \in Nat \ {0} /\ filled \in 0..LogBatch
  BY LogAssumption DEF LogInv, LogTyping
<1>1. CASE FlushInterval \/ NoRotation
  <2>1. UNCHANGED <<accepted, logChan, slots, filled, logFile, opened, backupVars, logBroken, rotation>>
    BY <1>1 DEF FlushInterval, NoRotation, fileVars
  <2>2. \/ logStep = "select" /\ logStep' = "rotate"
        \/ logStep = "select" /\ filled = 0 /\ logStep' = "ended"
        \/ logStep = "rotate" /\ logStep' = "write"
    BY <1>1 DEF FlushInterval, NoRotation
  <2>3. Held' = Held
    BY <2>1, <2>2 DEF Held
  <2> QED BY <1>0, <2>1, <2>2, <2>3, LinesStay
<1>2. CASE UpdateRotationConfig \/ Close \/ WriteToDB \/ UNCHANGED logVars
  <2>1. UNCHANGED <<accepted, logChan, slots, filled, logFile, opened, backupVars, logBroken, logStep>>
        /\ rotation' \in Rotations
    BY <1>0, <1>2 DEF UpdateRotationConfig, Close, WriteToDB, logVars, fileVars
  <2>2. Held' = Held
    BY <2>1 DEF Held
  <2> QED BY <1>0, <2>1, <2>2, LinesStay DEF WorkerIsReady
<1>3. CASE Store
  <2>1. /\ logStep = "store" /\ logStep' = "select" /\ filled' = 0
        /\ UNCHANGED <<accepted, logChan, slots, logFile, opened, backupVars, logBroken, rotation>>
    BY <1>3 DEF Store, Flushed, fileVars
  <2>2. Held' = 0 /\ Held = 0
    BY <2>1 DEF Held
  <2>3. Received' = Received /\ Written' = Written /\ Rotated' = Rotated
    BY <2>1, <2>2 DEF Received, Written, Rotated
  <2>4. LogTyping' /\ WorkerIsReady'
    BY <1>0, <2>1 DEF LogTyping, WorkerIsReady
  <2>5. OnTheWay => OnTheWay'
    BY <2>1, <2>2, <2>3 DEF OnTheWay
  <2> QED BY <2>1, <2>3, <2>4, <2>5, FilesStay DEF LogInv
<1> QED
  BY <1>1, <1>2, <1>3, EntryIsTaken, EntryIsReceived, FileIsRotated, BatchIsWritten, CopyIsMade,
     OldLogsGo, LogIsReopened
     DEF LogNext

\* flushBatch, rotateLog, compressFile, cleanOldBackups and Close of
\* infra/logger/logger.go, while no call of the file system fails: file and backups hold
\* the entries of the channel in order, the file's once each, and none is missing until
\* a backup is removed or overwritten by one of the same second, for any number of
\* entries, any length of batches and files, any number of backups and any number of
\* goroutines that compress them.
THEOREM LinesKeepOrder == LogSpec => []FilesKeepOrder
<1>1. LogInv => FilesKeepOrder
  <2> SUFFICES ASSUME LogInv, ~logBroken PROVE FilesKeepOrder
    BY DEF FilesKeepOrder
  <2>1. /\ LogTyping /\ OnTheWay /\ BackupsInOrder
        /\ logFile \in Seq(Nat) /\ logChan \in Seq(Nat) /\ accepted \in Nat
        /\ filled \in 0..LogBatch /\ LogBatch \in Nat /\ slots \in [1..LogBatch -> Nat]
    BY LogAssumption DEF LogInv, LogTyping
  <2>2. /\ Unwritten \in Seq(Nat) /\ Len(Unwritten) = Held /\ \A i \in 1..Held : Unwritten[i] = slots[i]
    <3>1. CASE logStep \in {"select", "rotate", "write"}
      <4>1. \A i \in 1..filled : slots[i] \in Nat
        BY <2>1
      <4>2. /\ SubSeq(slots, 1, filled) \in Seq(Nat)
            /\ Len(SubSeq(slots, 1, filled)) = IF 1 <= filled THEN filled - 1 + 1 ELSE 0
            /\ \A i \in 1..(filled - 1 + 1) : SubSeq(slots, 1, filled)[i] = slots[1 + i - 1]
        BY <2>1, <4>1, SubSeqProperties
      <4> QED BY <2>1, <3>1, <4>2 DEF Unwritten, Batch, Held
    <3>2. CASE logStep \notin {"select", "rotate", "write"}
      BY <3>2, EmptySeq DEF Unwritten, Held
    <3> QED BY <3>1, <3>2
  <2> DEFINE head == logFile \o Unwritten
             line == head \o logChan
  <2>3. /\ head \in Seq(Nat) /\ Len(head) = Len(logFile) + Held
        /\ \A i \in 1..(Len(logFile) + Held) :
             head[i] = IF i <= Len(logFile) THEN logFile[i] ELSE Unwritten[i - Len(logFile)]
    BY <2>1, <2>2, ConcatProperties
  <2> HIDE DEF head
  <2>4. /\ line \in Seq(Nat) /\ Len(line) = Len(head) + Len(logChan)
        /\ \A i \in 1..(Len(head) + Len(logChan)) :
             line[i] = IF i <= Len(head) THEN head[i] ELSE logChan[i - Len(head)]
    BY <2>1, <2>3, ConcatProperties
  <2> HIDE DEF line
  <2>5. /\ Len(logFile) \in Nat /\ Held \in Nat /\ Len(logChan) \in Nat /\ Received \in Int
        /\ Written \in Int /\ Rotated \in Nat /\ Received = accepted - Len(logChan)
        /\ Written = Received - Held /\ Rotated = Written - Len(logFile)
    BY <2>1, LogNumbers DEF OnTheWay, Received, Written, Rotated
  <2>6. Len(line) = accepted - Rotated /\ Rotated <= accepted
    <3>1. Len(line) = Len(logFile) + Held + Len(logChan)
      BY <2>3, <2>4
    <3>2. accepted \in Nat
      BY <2>1
    <3> QED BY <2>5, <3>1, <3>2
  <2>7. ASSUME NEW i \in 1..Len(line) PROVE line[i] = Rotated + i
    <3>0. /\ i \in Nat /\ i >= 1 /\ i <= Len(logFile) + Held + Len(logChan)
          /\ line[i] = IF i <= Len(head) THEN head[i] ELSE logChan[i - Len(head)]
      <4>1. Len(line) = Len(logFile) + Held + Len(logChan) /\ Len(head) = Len(logFile) + Held
        BY <2>3, <2>4
      <4>2. i \in 1..(Len(head) + Len(logChan)) /\ i \in 1..(Len(logFile) + Held + Len(logChan))
        BY <2>7, <4>1
      <4>3. i \in Nat /\ i >= 1 /\ i <= Len(logFile) + Held + Len(logChan)
        BY <2>5, <4>2
      <4> QED BY <2>4, <4>2, <4>3
    <3>1. CASE i <= Len(logFile)
      <4>0. i \in 1..Len(logFile) /\ i \in 1..(Len(logFile) + Held) /\ i <= Len(head)
        BY <2>3, <2>5, <2>7, <3>1, <3>0
      <4>1. line[i] = logFile[i]
        BY <2>3, <3>1, <4>0, <3>0
      <4>2. logFile[i] = Rotated + i
        BY <2>1, <4>0 DEF OnTheWay
      <4> QED BY <4>1, <4>2
    <3>2. CASE i > Len(logFile) /\ i <= Len(logFile) + Held
      <4>0. /\ i - Len(logFile) \in 1..Held /\ i \in 1..(Len(logFile) + Held) /\ i <= Len(head)
            /\ ~(i <= Len(logFile))
        BY <2>3, <2>5, <3>0, <3>2
      <4>1. line[i] = slots[i - Len(logFile)]
        BY <2>2, <2>3, <3>0, <4>0
      <4>2. slots[i - Len(logFile)] = Written + (i - Len(logFile))
        BY <2>1, <4>0 DEF OnTheWay
      <4>3. Written + (i - Len(logFile)) = Rotated + i
        BY <2>5, <3>0
      <4> QED BY <4>1, <4>2, <4>3
    <3>3. CASE i > Len(logFile) + Held
      <4>0. i - Len(head) \in 1..Len(logChan) /\ ~(i <= Len(head))
        BY <2>3, <2>5, <3>0, <3>3
      <4>1. line[i] = logChan[i - Len(head)]
        BY <3>0, <4>0
      <4>2. logChan[i - Len(head)] = Received + (i - Len(head))
        BY <2>1, <4>0 DEF OnTheWay
      <4>3. Received + (i - Len(head)) = Rotated + i
        <5>1. Len(head) = Len(logFile) + Held
          BY <2>3
        <5>2. i \in Int
          BY <3>0
        <5>3. /\ Received \in Int /\ Rotated \in Int /\ Len(logFile) + Held \in Int
              /\ Received = Rotated + (Len(logFile) + Held)
          BY <2>5
        <5> QED BY <5>1, <5>2, <5>3
      <4> QED BY <4>1, <4>2, <4>3
    <3>4. i <= Len(logFile) \/ (i > Len(logFile) /\ i <= Len(logFile) + Held) \/ i > Len(logFile) + Held
      <4>1. i \in Nat /\ Len(logFile) \in Nat /\ Held \in Nat
        BY <2>5, <3>0
      <4> QED BY <4>1
    <3> QED BY <3>1, <3>2, <3>3, <3>4
  <2>8. line = Entries(Rotated, accepted)
    BY <2>1, <2>4, <2>5, <2>6, <2>7, EntryByEntry
  <2>9. Len(line) \in Nat /\ accepted - Len(line) = Rotated
    <3>1. accepted \in Nat
      BY <2>1
    <3>2. Rotated \in Nat
      BY <2>5
    <3> QED BY <2>6, <3>1, <3>2
  <2> DEFINE late == logFile \o Unwritten \o logChan
             top == accepted - Len(late)
  <2>10. late = line
    BY DEF line, head
  <2> HIDE DEF late, line
  <2>11. top = Rotated /\ late = Entries(top, accepted)
    BY <2>8, <2>9, <2>10
  <2> HIDE DEF top
  <2>12. \A b \in backups : Run(b.lines, top)
    <3>1. \A b \in backups : <<b.name, b.lines>> \in Texts
      BY DEF Texts, TextsOf
    <3> QED BY <2>1, <2>11, <3>1 DEF BackupsInOrder, Apart
  <2>13. \A b, c \in backups : /\ b.name < c.name => Below(b.lines, c.lines)
                               /\ b.name = c.name => Doubled \/ Same(b.lines, c.lines)
    <3>1. \A b \in backups : <<b.name, b.lines>> \in Texts
      BY DEF Texts, TextsOf
    <3> QED BY <2>1, <3>1 DEF BackupsInOrder, Apart
  <2>14. /\ outdated \/ Doubled \/ Complete(backups, top)
         /\ zipped \/ Doubled \/ Latest(backups, top)
    BY <2>1, <2>11 DEF BackupsInOrder
  <2> QED BY <2>11, <2>12, <2>13, <2>14
          DEF FilesKeepOrder, Run, Below, Same, Complete, Latest, late, top
<1> QED BY <1>1, LogStart, LogStep, PTL DEF LogSpec

-----------------------------------------------------------------------------
(* Alerts are raised for enough matches and not while their rule rests, for any
   number of requests and any rule.                                            *)

AlertSteps == {"new", "begun", "rested", "below", "due", "raised"}
EvaluationRecords == [pc : AlertSteps, now : Nat, alone : BOOLEAN, held : Nat]

AlertsTyping ==
  /\ alertRule \in AlertForms /\ alertTime \in Nat
  /\ restsSince \in Nat \cup {Never}
  /\ evaluation \in [Evaluations -> EvaluationRecords]
  /\ DOMAIN alerts = Evaluations \cup {Direct}
  /\ counter \subseteq matches /\ matches \subseteq Evaluations /\ IsFiniteSet(matches)

Begun(e) == evaluation[e].pc # "new"

\* A request that has begun looked at the clock, at most a unit of time ago if it has
\* not had the lock; who was counted has begun; who has an alert has raised it.
ClocksAreRead ==
  /\ \A e \in Evaluations : Begun(e) => evaluation[e].now <= alertTime
  /\ \A e \in Evaluations : evaluation[e].pc = "begun" => alertTime <= evaluation[e].now + 1
  /\ \A e \in matches : evaluation[e].pc \in {"below", "due", "raised"}
  /\ \A e \in Evaluations : Raised(e) => evaluation[e].pc = "raised"

\* Requests begin in their order; of two, one of which is alone, the first is over
\* when the second has begun.
InOrder ==
  \A e, f \in Evaluations : e < f /\ Begun(f) =>
    /\ Begun(e) /\ evaluation[e].now <= evaluation[f].now
    /\ evaluation[e].alone \/ evaluation[f].alone => ~Under(e)

\* A match that is no longer counted was left out by the window of another request or
\* dropped by the cleaner.
LeftOut ==
  \A m \in matches \ counter :
    \/ alertTime - evaluation[m].now >= CounterLife
    \/ \E f \in matches : evaluation[m].now <= evaluation[f].now - alertRule.window

Measured ==
  \A e \in Evaluations :
    /\ evaluation[e].pc \in {"due", "raised"} => evaluation[e].held >= alertRule.threshold
    /\ evaluation[e].pc = "below" /\ evaluation[e].alone /\ alertRule.window < CounterLife
       => evaluation[e].held < alertRule.threshold

\* The rest of an alert goes on, or its beginning is so old that the cleaner dropped it;
\* so the next alert keeps its distance.
RestsGoOn ==
  alertRule.cooldown <= CooldownLife =>
    \A e \in Evaluations : evaluation[e].pc = "raised" /\ evaluation[e].alone =>
      \/ restsSince # Never /\ restsSince >= evaluation[e].now
      \/ alertTime - evaluation[e].now > CooldownLife

DistancesAreKept ==
  alertRule.cooldown <= CooldownLife =>
    \A e, f \in Evaluations :
      /\ e < f /\ evaluation[e].alone /\ evaluation[f].alone
      /\ evaluation[e].pc = "raised" /\ evaluation[f].pc \in {"due", "raised"}
      => evaluation[f].now - evaluation[e].now >= alertRule.cooldown

AlertsInv ==
  /\ AlertsTyping /\ ClocksAreRead /\ InOrder /\ LeftOut
  /\ Measured /\ RestsGoOn /\ DistancesAreKept

\* What the invariant says of the numbers involved.
LEMMA AlertNumbers ==
  ASSUME AlertsTyping
  PROVE  /\ alertTime \in Nat /\ CounterLife \in Nat /\ CooldownLife \in Nat
         /\ alertRule.threshold \in Nat \ {0} /\ alertRule.window \in Nat \ {0}
         /\ alertRule.cooldown \in Nat \ {0}
         /\ Evaluations \subseteq Nat \ {0} /\ Direct \notin Evaluations
         /\ \A e \in Evaluations :
              /\ evaluation[e] \in EvaluationRecords
              /\ evaluation[e].pc \in AlertSteps /\ evaluation[e].now \in Nat
              /\ evaluation[e].alone \in BOOLEAN /\ evaluation[e].held \in Nat
BY AlertsAssumption DEF AlertsTyping, EvaluationRecords, Direct

\* A request moves on.
LEMMA Moves ==
  ASSUME AlertsTyping, NEW e \in Evaluations, NEW pc \in AlertSteps, Moving(e, pc)
  PROVE  /\ evaluation' \in [Evaluations -> EvaluationRecords]
         /\ \A f \in Evaluations \ {e} : evaluation'[f] = evaluation[f]
         /\ evaluation'[e].pc = pc /\ evaluation'[e].now = evaluation[e].now
         /\ evaluation'[e].alone = evaluation[e].alone /\ evaluation'[e].held = evaluation[e].held
<1>1. evaluation \in [Evaluations -> EvaluationRecords] /\ evaluation[e] \in EvaluationRecords
  BY DEF AlertsTyping
<1>2. evaluation' = [evaluation EXCEPT ![e] = [evaluation[e] EXCEPT !.pc = pc]]
  BY <1>1 DEF Moving
<1>3. [evaluation[e] EXCEPT !.pc = pc] \in EvaluationRecords
  BY <1>1 DEF EvaluationRecords
<1>4. LET r == [evaluation[e] EXCEPT !.pc = pc]
      IN r.pc = pc /\ r.now = evaluation[e].now /\ r.alone = evaluation[e].alone /\ r.held = evaluation[e].held
  BY <1>1 DEF EvaluationRecords
<1> QED BY <1>1, <1>2, <1>3, <1>4

\* A request begins.
LEMMA Begins ==
  ASSUME AlertsInv, NEW e \in Evaluations, EvaluateAndAlert(e)
  PROVE  AlertsInv'
<1>0. AlertsTyping /\ ClocksAreRead /\ InOrder /\ LeftOut /\ Measured /\ RestsGoOn /\ DistancesAreKept
  BY DEF AlertsInv
<1>1. /\ evaluation[e].pc = "new" /\ \A f \in Evaluations : f < e => Begun(f)
      /\ UNCHANGED <<alertRule, counter, restsSince, alertTime, matches, alerts>>
  BY DEF EvaluateAndAlert, Begun
<1> DEFINE others == {f \in Evaluations : Under(f)}
<1>2. evaluation' = [f \in Evaluations |->
        IF f = e THEN [pc |-> "begun", now |-> alertTime, alone |-> others = {}, held |-> 0]
        ELSE IF f \in others THEN [evaluation[f] EXCEPT !.alone = FALSE] ELSE evaluation[f]]
  BY DEF EvaluateAndAlert
<1>3. \A f \in Evaluations : evaluation[f] \in EvaluationRecords
  BY <1>0, AlertNumbers
<1>4. /\ evaluation'[e].pc = "begun" /\ evaluation'[e].now = alertTime
      /\ evaluation'[e].alone = (others = {}) /\ evaluation'[e] \in EvaluationRecords
  BY <1>0, <1>2, AlertNumbers DEF EvaluationRecords, AlertSteps
<1>5. ASSUME NEW f \in Evaluations \ {e}
      PROVE  /\ evaluation'[f].pc = evaluation[f].pc /\ evaluation'[f].now = evaluation[f].now
             /\ evaluation'[f].held = evaluation[f].held /\ evaluation'[f] \in EvaluationRecords
             /\ evaluation'[f].alone => evaluation[f].alone
             /\ Under(f) => evaluation'[f].alone = FALSE
             /\ ~Under(f) => evaluation'[f] = evaluation[f]
  <2>1. CASE Under(f)
    <3>1. evaluation'[f] = [evaluation[f] EXCEPT !.alone = FALSE]
      BY <1>2, <2>1
    <3> QED BY <1>3, <2>1, <3>1 DEF EvaluationRecords
  <2>2. CASE ~Under(f)
    <3>1. evaluation'[f] = evaluation[f]
      BY <1>2, <2>2
    <3> QED BY <1>3, <2>2, <3>1
  <2> QED BY <2>1, <2>2
<1>6. evaluation' \in [Evaluations -> EvaluationRecords]
  BY <1>2, <1>4, <1>5
<1> HIDE DEF others
<1>7. AlertsTyping'
  BY <1>0, <1>1, <1>6 DEF AlertsTyping
<1>8. e \notin matches
  BY <1>0, <1>1 DEF ClocksAreRead
<1>9. ClocksAreRead'
  <2>0. /\ evaluation'[e].now = alertTime /\ alertTime \in Nat
        /\ \A f \in Evaluations \ {e} : /\ evaluation'[f].pc = evaluation[f].pc
                                       /\ evaluation'[f].now = evaluation[f].now
    BY <1>0, <1>4, <1>5, AlertNumbers
  <2>1. \A f \in Evaluations : Begun(f)' => evaluation'[f].now <= alertTime
    BY <1>0, <2>0 DEF ClocksAreRead, Begun
  <2>2. \A f \in Evaluations : evaluation'[f].pc = "begun" => alertTime <= evaluation'[f].now + 1
    BY <1>0, <2>0 DEF ClocksAreRead
  <2>3. \A f \in matches : evaluation'[f].pc \in {"below", "due", "raised"}
    BY <1>0, <1>5, <1>8 DEF ClocksAreRead, AlertsTyping
  <2>4. \A f \in Evaluations : Raised(f) => evaluation'[f].pc = "raised"
    BY <1>0, <1>1, <1>5 DEF ClocksAreRead
  <2> QED BY <1>1, <2>1, <2>2, <2>3, <2>4 DEF ClocksAreRead, Raised
<1>10. InOrder'
  <2> SUFFICES ASSUME NEW f \in Evaluations, NEW g \in Evaluations, f < g, Begun(g)'
               PROVE  /\ Begun(f)' /\ evaluation'[f].now <= evaluation'[g].now
                      /\ evaluation'[f].alone \/ evaluation'[g].alone => ~Under(f)'
    BY DEF InOrder
  <2>0. f # g /\ f \in Nat /\ g \in Nat
    BY <1>0, AlertNumbers
  <2>1. CASE g = e
    <3>1. Begun(f) /\ evaluation[f].now <= alertTime
      BY <1>0, <1>1, <2>1 DEF ClocksAreRead
    <3>2. ASSUME Under(f) PROVE evaluation'[f].alone = FALSE /\ evaluation'[g].alone = FALSE
      BY <1>4, <1>5, <2>0, <2>1, <3>2 DEF others
    <3> QED BY <1>4, <1>5, <2>0, <2>1, <3>1, <3>2 DEF Begun, Under
  <2>2. CASE f = e
    BY <1>0, <1>1, <1>5, <2>0, <2>2 DEF InOrder, Begun
  <2>3. CASE f # e /\ g # e
    BY <1>0, <1>5, <2>3 DEF InOrder, Begun, Under
  <2> QED BY <2>1, <2>2, <2>3
<1>11. LeftOut'
  <2>1. \A m \in matches : evaluation'[m].now = evaluation[m].now
    BY <1>0, <1>5, <1>8 DEF AlertsTyping
  <2> QED BY <1>0, <1>1, <2>1 DEF LeftOut
<1>12. Measured'
  BY <1>0, <1>1, <1>4, <1>5 DEF Measured
<1>13. RestsGoOn'
  BY <1>0, <1>1, <1>4, <1>5 DEF RestsGoOn
<1>14. DistancesAreKept'
  BY <1>0, <1>1, <1>4, <1>5 DEF DistancesAreKept
<1> QED BY <1>7, <1>9, <1>10, <1>11, <1>12, <1>13, <1>14 DEF AlertsInv

\* A request finds that the rule rests.
LEMMA Rests ==
  ASSUME AlertsInv, NEW e \in Evaluations, Rest(e)
  PROVE  AlertsInv'
<1>0. AlertsTyping /\ ClocksAreRead /\ InOrder /\ LeftOut /\ Measured /\ RestsGoOn /\ DistancesAreKept
  BY DEF AlertsInv
<1>1. /\ evaluation[e].pc = "begun" /\ Moving(e, "rested")
      /\ UNCHANGED <<alertRule, counter, restsSince, alertTime, matches, alerts>>
  BY DEF Rest
<1>2. /\ evaluation' \in [Evaluations -> EvaluationRecords]
      /\ \A f \in Evaluations \ {e} : evaluation'[f] = evaluation[f]
      /\ evaluation'[e].pc = "rested" /\ evaluation'[e].now = evaluation[e].now
      /\ evaluation'[e].alone = evaluation[e].alone
  BY <1>0, <1>1, Moves DEF AlertSteps
<1>3. e \notin matches
  BY <1>0, <1>1 DEF ClocksAreRead
<1>4. AlertsTyping'
  BY <1>0, <1>1, <1>2 DEF AlertsTyping
<1>5. ClocksAreRead'
  BY <1>0, <1>1, <1>2, <1>3 DEF ClocksAreRead, Begun, Raised, AlertsTyping
<1>6. InOrder'
  BY <1>0, <1>1, <1>2 DEF InOrder, Begun, Under
<1>7. LeftOut'
  BY <1>0, <1>1, <1>2, <1>3 DEF LeftOut, AlertsTyping
<1>8. Measured' /\ RestsGoOn' /\ DistancesAreKept'
  BY <1>0, <1>1, <1>2 DEF Measured, RestsGoOn, DistancesAreKept
<1> QED BY <1>4, <1>5, <1>6, <1>7, <1>8 DEF AlertsInv

\* A request is counted.
LEMMA Counts ==
  ASSUME AlertsInv, NEW e \in Evaluations, CountMatch(e)
  PROVE  AlertsInv'
<1>0. AlertsTyping /\ ClocksAreRead /\ InOrder /\ LeftOut /\ Measured /\ RestsGoOn /\ DistancesAreKept
  BY DEF AlertsInv
<1> DEFINE now == evaluation[e].now
           recent(S) == {f \in S : evaluation[f].now > now - alertRule.window}
           pc == IF Cardinality(counter') < alertRule.threshold THEN "below" ELSE "due"
           stored == Cardinality(recent(matches \cup {e}))
<1>1. /\ evaluation[e].pc = "begun" /\ ~InCooldown(now)
      /\ counter' = recent(counter \cup {e}) /\ matches' = matches \cup {e}
      /\ evaluation' = [evaluation EXCEPT ![e].pc = pc, ![e].held = stored]
      /\ UNCHANGED <<alertRule, restsSince, alertTime, alerts>>
  BY DEF CountMatch, WithinWindow, In
<1>2. /\ \A f \in Evaluations : evaluation[f] \in EvaluationRecords /\ evaluation[f].now \in Nat
      /\ evaluation \in [Evaluations -> EvaluationRecords]
  BY <1>0, AlertNumbers DEF AlertsTyping
<1>3. /\ IsFiniteSet(matches \cup {e}) /\ counter \cup {e} \subseteq matches \cup {e}
      /\ matches \cup {e} \subseteq Evaluations
  BY <1>0, FS_AddElement DEF AlertsTyping
<1>4. /\ IsFiniteSet(recent(matches \cup {e})) /\ IsFiniteSet(recent(counter \cup {e}))
      /\ Cardinality(recent(counter \cup {e})) <= Cardinality(recent(matches \cup {e}))
      /\ Cardinality(recent(counter \cup {e})) \in Nat /\ stored \in Nat
  <2>1. recent(matches \cup {e}) \subseteq matches \cup {e} /\ recent(counter \cup {e}) \subseteq recent(matches \cup {e})
    BY <1>3
  <2>2. IsFiniteSet(recent(matches \cup {e}))
    BY <1>3, <2>1, FS_Subset
  <2> HIDE DEF recent
  <2> QED BY <2>1, <2>2, FS_Subset, FS_CardinalityType
<1>5. evaluation' = [evaluation EXCEPT ![e] = [evaluation[e] EXCEPT !.pc = pc, !.held = stored]]
  BY <1>1, <1>2
<1>6. LET r == [evaluation[e] EXCEPT !.pc = pc, !.held = stored]
      IN /\ r.pc = pc /\ r.now = now /\ r.alone = evaluation[e].alone /\ r.held = stored
         /\ r \in EvaluationRecords
  BY <1>2, <1>4 DEF EvaluationRecords, AlertSteps
<1> HIDE DEF stored
<1>7. /\ evaluation' \in [Evaluations -> EvaluationRecords]
      /\ \A f \in Evaluations \ {e} : evaluation'[f] = evaluation[f]
      /\ evaluation'[e].pc = pc /\ evaluation'[e].now = now
      /\ evaluation'[e].alone = evaluation[e].alone /\ evaluation'[e].held = stored
  BY <1>2, <1>5, <1>6
<1>n. /\ \A f \in Evaluations : evaluation'[f].now = evaluation[f].now
      /\ pc \in {"below", "due"}
  BY <1>7
<1>8. AlertsTyping'
  BY <1>0, <1>1, <1>3, <1>7 DEF AlertsTyping
<1>9. ClocksAreRead'
  BY <1>0, <1>1, <1>7, <1>n DEF ClocksAreRead, Begun, Raised, AlertsTyping
<1>10. InOrder'
  BY <1>0, <1>1, <1>7, <1>n DEF InOrder, Begun, Under
<1>11. LeftOut'
  <2> SUFFICES ASSUME NEW m \in matches' \ counter'
               PROVE  \/ alertTime - evaluation[m].now >= CounterLife
                      \/ \E f \in matches' : evaluation[m].now <= evaluation[f].now - alertRule.window
    <3>1. alertTime' = alertTime /\ alertRule' = alertRule /\ matches' \subseteq Evaluations
      BY <1>1, <1>3
    <3>2. \A m \in matches' : evaluation'[m].now = evaluation[m].now
      BY <1>n, <3>1
    <3> HIDE DEF now, recent, pc
    <3> QED BY <3>1, <3>2 DEF LeftOut
  <2>1. CASE m \in counter \cup {e}
    <3>1. evaluation[m].now <= now - alertRule.window
      BY <1>0, <1>1, <1>2, <1>3, <2>1, AlertNumbers DEF AlertsTyping
    <3> QED BY <1>1, <3>1
  <2>2. CASE m \notin counter \cup {e}
    BY <1>0, <1>1, <2>2 DEF LeftOut
  <2> QED BY <2>1, <2>2
<1>12. Measured'
  <2>1. pc = "due" => stored >= alertRule.threshold
    BY <1>0, <1>1, <1>4, AlertNumbers DEF stored
  <2>2. ASSUME pc = "below", evaluation[e].alone, alertRule.window < CounterLife
        PROVE  stored < alertRule.threshold
    <3>1. ASSUME NEW m \in matches, m \notin counter PROVE ~(evaluation[m].now > now - alertRule.window)
      <4>0. m \in Evaluations /\ m # e /\ m \in Nat /\ e \in Nat
        BY <1>0, <1>1, AlertNumbers DEF AlertsTyping, ClocksAreRead
      <4>1. CASE alertTime - evaluation[m].now >= CounterLife
        BY <1>0, <1>1, <2>2, <4>0, <4>1, AlertNumbers DEF ClocksAreRead
      <4>2. ASSUME NEW f \in matches, evaluation[m].now <= evaluation[f].now - alertRule.window
            PROVE  ~(evaluation[m].now > now - alertRule.window)
        <5>0. f \in Evaluations /\ f # e /\ f \in Nat /\ Begun(f)
          BY <1>0, <1>1, AlertNumbers DEF AlertsTyping, ClocksAreRead, Begun
        <5>1. ~(e < f)
          BY <1>0, <1>1, <2>2, <5>0 DEF InOrder, Under
        <5>2. evaluation[f].now <= now
          BY <1>0, <1>1, <4>0, <5>0, <5>1 DEF InOrder, Begun
        <5> QED BY <1>0, <4>0, <4>2, <5>0, <5>2, AlertNumbers
      <4> QED BY <1>0, <3>1, <4>1, <4>2 DEF LeftOut
    <3>2. recent(matches \cup {e}) = recent(counter \cup {e})
      BY <1>0, <3>1 DEF AlertsTyping
    <3> QED BY <1>1, <2>2, <3>2 DEF stored
  <2> QED BY <1>0, <1>1, <1>7, <1>n, <2>1, <2>2 DEF Measured
<1>13. RestsGoOn'
  BY <1>0, <1>1, <1>7, <1>n DEF RestsGoOn
<1>14. DistancesAreKept'
  <2>1. ASSUME NEW f \in Evaluations, f < e, evaluation[f].alone, evaluation[f].pc = "raised",
               alertRule.cooldown <= CooldownLife
        PROVE  now - evaluation[f].now >= alertRule.cooldown
    <3>1. CASE restsSince # Never /\ restsSince >= evaluation[f].now
      <4>1. restsSince \in Nat
        BY <1>0, <3>1 DEF AlertsTyping
      <4>2. ~(now - restsSince < alertRule.cooldown)
        BY <1>1, <3>1 DEF InCooldown
      <4> QED BY <1>0, <3>1, <4>1, <4>2, AlertNumbers
    <3>2. CASE alertTime - evaluation[f].now > CooldownLife
      BY <1>0, <1>1, <2>1, <3>2, AlertNumbers DEF ClocksAreRead
    <3> QED BY <1>0, <2>1, <3>1, <3>2 DEF RestsGoOn
  <2> QED BY <1>0, <1>1, <1>7, <1>n, <2>1 DEF DistancesAreKept
<1> QED BY <1>8, <1>9, <1>10, <1>11, <1>12, <1>13, <1>14 DEF AlertsInv

\* A request that is due raises its alert.
LEMMA Raises ==
  ASSUME AlertsInv, NEW e \in Evaluations, RaiseAlert(e)
  PROVE  AlertsInv'
<1>0. AlertsTyping /\ ClocksAreRead /\ InOrder /\ LeftOut /\ Measured /\ RestsGoOn /\ DistancesAreKept
  BY DEF AlertsInv
<1>1. /\ evaluation[e].pc = "due" /\ restsSince' = evaluation[e].now /\ Moving(e, "raised")
      /\ alerts' = [alerts EXCEPT ![e] = "raised"]
      /\ UNCHANGED <<alertRule, counter, alertTime, matches>>
  BY DEF RaiseAlert
<1>2. /\ evaluation' \in [Evaluations -> EvaluationRecords]
      /\ \A f \in Evaluations \ {e} : evaluation'[f] = evaluation[f]
      /\ evaluation'[e].pc = "raised" /\ evaluation'[e].now = evaluation[e].now
      /\ evaluation'[e].alone = evaluation[e].alone /\ evaluation'[e].held = evaluation[e].held
  BY <1>0, <1>1, Moves DEF AlertSteps
<1>3. restsSince' \in Nat /\ restsSince' # Never
  BY <1>0, <1>1, AlertNumbers, AlertsAssumption
<1>4. \A f \in Evaluations : evaluation'[f].now = evaluation[f].now /\ evaluation'[f].alone = evaluation[f].alone
  BY <1>2
<1>5. AlertsTyping'
  BY <1>0, <1>1, <1>2, <1>3 DEF AlertsTyping
<1>6. ClocksAreRead'
  BY <1>0, <1>1, <1>2 DEF ClocksAreRead, Begun, Raised, AlertsTyping
<1>7. InOrder'
  BY <1>0, <1>1, <1>2 DEF InOrder, Begun, Under
<1>8. LeftOut'
  BY <1>0, <1>1, <1>4 DEF LeftOut, AlertsTyping
<1>9. Measured'
  BY <1>0, <1>1, <1>2 DEF Measured
<1>10. ASSUME NEW f \in Evaluations, f # e, evaluation[f].alone, evaluation[f].pc \in {"due", "raised"}
       PROVE  f < e
  <2>1. e \in Nat /\ f \in Nat
    BY <1>0, AlertNumbers
  <2>2. ~(e < f)
    BY <1>0, <1>1, <1>10 DEF InOrder, Begun, Under
  <2> QED BY <1>10, <2>1, <2>2
<1>11. RestsGoOn'
  <2> SUFFICES ASSUME NEW f \in Evaluations, evaluation'[f].pc = "raised", evaluation'[f].alone
               PROVE  restsSince' >= evaluation'[f].now
    BY <1>3 DEF RestsGoOn
  <2>1. CASE f = e
    BY <1>0, <1>1, <1>2, <2>1, AlertNumbers
  <2>2. CASE f # e
    <3>1. f < e
      BY <1>2, <1>10, <2>2
    <3>2. evaluation[f].now <= evaluation[e].now
      BY <1>0, <1>1, <3>1 DEF InOrder, Begun
    <3> QED BY <1>0, <1>1, <1>4, <3>2, AlertNumbers
  <2> QED BY <2>1, <2>2
<1>12. DistancesAreKept'
  <2>1. \A f \in Evaluations : e < f => f # e /\ ~(f < e)
    BY <1>0, AlertNumbers
  <2> QED BY <1>0, <1>1, <1>2, <1>4, <1>10, <2>1 DEF DistancesAreKept
<1> QED BY <1>5, <1>6, <1>7, <1>8, <1>9, <1>11, <1>12 DEF AlertsInv

\* Sending an alert, and changing where it goes, changes nothing of that.
LEMMA Sends ==
  ASSUME AlertsInv,
         \/ \E m \in DOMAIN alerts : SendToChannel(m)
         \/ SendAlert \/ TestNotify \/ ChangeChannel \/ UNCHANGED alertVars
  PROVE  AlertsInv'
<1>0. AlertsTyping /\ ClocksAreRead /\ InOrder /\ LeftOut /\ Measured /\ RestsGoOn /\ DistancesAreKept
  BY DEF AlertsInv
<1>1. UNCHANGED <<alertRule, counter, restsSince, evaluation, alertTime, matches>>
  BY DEF SendToChannel, SendAlert, TestNotify, SendDirectly, ChangeChannel, alertVars
<1>2. DOMAIN alerts' = DOMAIN alerts /\ \A f \in Evaluations : Raised(f)' => Raised(f)
  <2>1. Direct \notin Evaluations /\ DOMAIN alerts = Evaluations \cup {Direct}
    BY <1>0, AlertNumbers DEF AlertsTyping
  <2>2. ASSUME NEW m \in DOMAIN alerts, SendToChannel(m)
        PROVE  DOMAIN alerts' = DOMAIN alerts /\ \A f \in Evaluations : Raised(f)' => Raised(f)
    BY <2>1, <2>2 DEF SendToChannel, Raised
  <2>3. CASE SendAlert \/ TestNotify
    BY <2>1, <2>3 DEF SendAlert, TestNotify, SendDirectly, Raised
  <2>4. CASE ChangeChannel \/ UNCHANGED alertVars
    BY <2>4 DEF ChangeChannel, alertVars, Raised
  <2> QED BY <2>2, <2>3, <2>4
<1>3. AlertsTyping'
  BY <1>0, <1>1, <1>2 DEF AlertsTyping
<1>4. ClocksAreRead'
  BY <1>0, <1>1, <1>2 DEF ClocksAreRead, Begun
<1>5. InOrder' /\ LeftOut' /\ Measured' /\ RestsGoOn' /\ DistancesAreKept'
  BY <1>0, <1>1 DEF InOrder, LeftOut, Measured, RestsGoOn, DistancesAreKept, Begun, Under
<1> QED BY <1>3, <1>4, <1>5 DEF AlertsInv

\* The cleaner drops what is old.
LEMMA Cleans ==
  ASSUME AlertsInv, CleanupAlerts
  PROVE  AlertsInv'
<1>0. AlertsTyping /\ ClocksAreRead /\ InOrder /\ LeftOut /\ Measured /\ RestsGoOn /\ DistancesAreKept
  BY DEF AlertsInv
<1>1. /\ counter' = {f \in counter : alertTime - evaluation[f].now < CounterLife}
      /\ restsSince' = restsSince
         \/ (restsSince # Never /\ alertTime - restsSince > CooldownLife /\ restsSince' = Never)
      /\ UNCHANGED <<alertRule, evaluation, alertTime, matches, alerts>>
  BY DEF CleanupAlerts
<1>2. AlertsTyping'
  BY <1>0, <1>1 DEF AlertsTyping
<1>3. ClocksAreRead' /\ InOrder' /\ Measured' /\ DistancesAreKept'
  BY <1>0, <1>1 DEF ClocksAreRead, InOrder, Measured, DistancesAreKept, Begun, Under, Raised
<1>4. LeftOut'
  <2>1. ASSUME NEW m \in counter, m \notin counter' PROVE alertTime - evaluation[m].now >= CounterLife
    <3>1. m \in Evaluations
      BY <1>0 DEF AlertsTyping
    <3> QED BY <1>0, <1>1, <2>1, <3>1, AlertNumbers
  <2> QED BY <1>0, <1>1, <2>1 DEF LeftOut
<1>5. RestsGoOn'
  <2> SUFFICES ASSUME NEW e \in Evaluations, evaluation[e].pc = "raised", evaluation[e].alone,
                      alertRule.cooldown <= CooldownLife
               PROVE  \/ restsSince' # Never /\ restsSince' >= evaluation[e].now
                      \/ alertTime - evaluation[e].now > CooldownLife
    BY <1>1 DEF RestsGoOn
  <2>1. CASE restsSince' = restsSince
    BY <1>0, <2>1 DEF RestsGoOn
  <2>2. CASE restsSince # Never /\ alertTime - restsSince > CooldownLife
    <3>1. restsSince \in Nat
      BY <1>0, <2>2 DEF AlertsTyping
    <3>2. restsSince >= evaluation[e].now \/ alertTime - evaluation[e].now > CooldownLife
      BY <1>0 DEF RestsGoOn
    <3> QED BY <1>0, <2>2, <3>1, <3>2, AlertNumbers
  <2> QED BY <1>1, <2>1, <2>2
<1> QED BY <1>2, <1>3, <1>4, <1>5 DEF AlertsInv

\* Time passes.
LEMMA Passes ==
  ASSUME AlertsInv, AlertTimePasses
  PROVE  AlertsInv'
<1>0. AlertsTyping /\ ClocksAreRead /\ InOrder /\ LeftOut /\ Measured /\ RestsGoOn /\ DistancesAreKept
  BY DEF AlertsInv
<1>1. /\ \A e \in Evaluations : evaluation[e].pc = "begun" => evaluation[e].now = alertTime
      /\ alertTime' = alertTime + 1
      /\ UNCHANGED <<alertRule, counter, restsSince, evaluation, matches, alerts>>
  BY DEF AlertTimePasses
<1>2. AlertsTyping'
  BY <1>0, <1>1 DEF AlertsTyping
<1>3. ClocksAreRead'
  BY <1>0, <1>1, AlertNumbers DEF ClocksAreRead, Begun, Raised
<1>4. InOrder' /\ Measured' /\ DistancesAreKept'
  BY <1>0, <1>1 DEF InOrder, Measured, DistancesAreKept, Begun, Under
<1>5. LeftOut'
  <2>1. matches \subseteq Evaluations
    BY <1>0 DEF AlertsTyping
  <2>2. \A m \in Evaluations : alertTime - evaluation[m].now >= CounterLife => alertTime' - evaluation[m].now >= CounterLife
    BY <1>0, <1>1, AlertNumbers
  <2> QED BY <1>0, <1>1, <2>1, <2>2 DEF LeftOut
<1>6. RestsGoOn'
  <2>1. \A e \in Evaluations : alertTime - evaluation[e].now > CooldownLife => alertTime' - evaluation[e].now > CooldownLife
    BY <1>0, <1>1, AlertNumbers
  <2> QED BY <1>0, <1>1, <2>1 DEF RestsGoOn
<1> QED BY <1>2, <1>3, <1>4, <1>5, <1>6 DEF AlertsInv

\* EvaluateAndAlert (notify.go) counts a match and marks the beginning of a rest under
\* two locks, and cleanupLoop drops what it takes for old: for any rule and any number
\* of requests an alert has enough matches behind it, and of requests that did not
\* overlap none that was due is missing and none was raised during a rest.
THEOREM AlertsAreAlwaysMeasured == AlertsSpec => []AlertsAreMeasured
<1>1. AlertsInit => AlertsInv
  <2> SUFFICES ASSUME AlertsInit PROVE AlertsInv
    OBVIOUS
  <2>1. /\ alertRule \in AlertForms /\ counter = {} /\ matches = {} /\ restsSince = Never /\ alertTime = 0
        /\ evaluation = [e \in Evaluations |-> [pc |-> "new", now |-> 0, alone |-> TRUE, held |-> 0]]
        /\ alerts = [e \in Evaluations \cup {Direct} |-> "none"]
    BY DEF AlertsInit
  <2>2. [pc |-> "new", now |-> 0, alone |-> TRUE, held |-> 0] \in EvaluationRecords
    BY DEF EvaluationRecords, AlertSteps
  <2>3. AlertsTyping
    BY <2>1, <2>2, FS_EmptySet DEF AlertsTyping
  <2>4. \A e \in Evaluations : evaluation[e].pc = "new" /\ ~Raised(e)
    BY <2>1 DEF Raised
  <2>5. ClocksAreRead /\ InOrder /\ LeftOut
    BY <2>1, <2>4 DEF ClocksAreRead, InOrder, LeftOut, Begun
  <2>6. Measured /\ RestsGoOn /\ DistancesAreKept
    BY <2>4 DEF Measured, RestsGoOn, DistancesAreKept
  <2> QED BY <2>3, <2>5, <2>6 DEF AlertsInv
<1>2. AlertsInv /\ [AlertsNext]_alertVars => AlertsInv'
  BY Begins, Rests, Counts, Raises, Sends, Cleans, Passes DEF AlertsNext
<1>3. AlertsInv => AlertsAreMeasured
  <2> SUFFICES ASSUME AlertsInv, NEW e \in Evaluations
               PROVE  /\ Raised(e) => evaluation[e].held >= alertRule.threshold
                      /\ evaluation[e].pc = "below" /\ evaluation[e].alone /\ alertRule.window < CounterLife
                         => evaluation[e].held < alertRule.threshold
                      /\ \A f \in Evaluations \ {e} :
                           /\ Raised(e) /\ Raised(f) /\ evaluation[e].alone /\ evaluation[f].alone
                           /\ alertRule.cooldown <= CooldownLife
                           => \/ TakenAt(f) - TakenAt(e) >= alertRule.cooldown
                              \/ TakenAt(e) - TakenAt(f) >= alertRule.cooldown
    BY DEF AlertsAreMeasured
  <2>1. AlertsTyping /\ ClocksAreRead /\ Measured /\ DistancesAreKept
    BY DEF AlertsInv
  <2>2. \A f \in Evaluations \ {e} : f < e \/ e < f
    BY <2>1, AlertNumbers
  <2> QED BY <2>1, <2>2 DEF ClocksAreRead, Measured, DistancesAreKept, TakenAt
<1> QED BY <1>1, <1>2, <1>3, PTL DEF AlertsSpec
=============================================================================
