----------------------------- MODULE Challenges -----------------------------
(* internal/domain/proxy/proxy.go, powChallenges and jsChallenges, with the
   Challenge case of ratelimit_check.go.

   A request the smart limiter wants to challenge passes if it shows the answer
   to a proof of work, or else a token of the page's script; otherwise it gets a
   page with one of each. Both are kept in a map until they are used, for ever
   if they never are. The token is looked up and deleted under one lock; the
   proof of work is looked up under the read lock and deleted, after hashing,
   under the write lock, so requests that overlap may all pass with one answer. *)
EXTENDS FiniteSets, Integers

CONSTANTS
  Clients,     \* goroutines that serve challenged requests
  Challenges,  \* the challenges that may be handed out (bound); the page with
               \*   challenge c also has the token c
  Nothing      \* no cookie

VARIABLES
  powChallenges,  \* the map of proof-of-work challenges
  jsChallenges,   \* the map of script tokens
  fresh,          \* challenges not handed out yet: 16 random bytes never repeat
  serving,        \* each goroutine: how far it is, and its request's cookies
  spent,          \* how many requests each token has let through
  used,           \* the challenges whose answer has let a request through
  after           \* those of them that had, when the request arrived

challengeVars == <<powChallenges, jsChallenges, fresh, serving, spent, used, after>>

Away == [pc |-> "away", pow |-> Nothing, js |-> Nothing, by |-> "none"]

ChallengesInit ==
  /\ powChallenges = {}
  /\ jsChallenges = {}
  /\ fresh = Challenges
  /\ serving = [g \in Clients |-> Away]
  /\ spent = [c \in Challenges |-> 0]
  /\ used = {}
  /\ after = [g \in Clients |-> {}]

Solved == (Challenges \ fresh) \cup {Nothing}
ClientAt(g, pc) == serving[g].pc = pc
To(g, pc) == serving' = [serving EXCEPT ![g].pc = pc]
Pass(g, by) == serving' = [serving EXCEPT ![g].pc = "passed", ![g].by = by]

\* A challenged request comes with any answers its client has been able to give.
Challenged(g) ==
  /\ ClientAt(g, "away")
  /\ \E pow, js \in Solved :
       serving' = [serving EXCEPT ![g] = [pc |-> "lookup", pow |-> pow, js |-> js, by |-> "none"]]
  /\ after' = [after EXCEPT ![g] = used]
  /\ UNCHANGED <<powChallenges, jsChallenges, fresh, spent, used>>

\* verifyPoW: getPoWDifficulty under the read lock ...
LookUp(g) ==
  /\ ClientAt(g, "lookup")
  /\ To(g, IF serving[g].pow \in powChallenges THEN "delete" ELSE "script")
  /\ UNCHANGED <<powChallenges, jsChallenges, fresh, spent, used, after>>

\* ... then delete under the write lock, whether or not it is still there.
DeletedByTheWay(g) ==   \* the answer is accepted and stays good
  /\ ClientAt(g, "delete")
  /\ used' = used \cup {serving[g].pow}
  /\ Pass(g, "pow")
  /\ UNCHANGED <<powChallenges, jsChallenges, fresh, spent, after>>

Delete(g) ==
  /\ ClientAt(g, "delete")
  /\ powChallenges' = powChallenges \ {serving[g].pow}
  /\ used' = used \cup {serving[g].pow}
  /\ Pass(g, "pow")
  /\ UNCHANGED <<jsChallenges, fresh, spent, after>>

\* verifyJSChallenge: one critical section.
Spend(g) ==
  LET js == serving[g].js
  IN /\ ClientAt(g, "script")
     /\ js \in jsChallenges
     /\ jsChallenges' = jsChallenges \ {js}
     /\ spent' = [spent EXCEPT ![js] = @ + 1]
     /\ Pass(g, "js")
     /\ UNCHANGED <<powChallenges, fresh, used, after>>

\* RecordChallengeFail, then generatePoWChallenge: a page with a new challenge
\* and a new token. (fresh = {} is the bound: the page is not modelled then.)
Issue(g) ==
  /\ ClientAt(g, "script")
  /\ serving[g].js \notin jsChallenges
  /\ \/ \E c \in fresh :
          /\ fresh' = fresh \ {c}
          /\ powChallenges' = powChallenges \cup {c}
          /\ jsChallenges' = jsChallenges \cup {c}
     \/ fresh = {} /\ UNCHANGED <<fresh, powChallenges, jsChallenges>>
  /\ To(g, "refused")
  /\ UNCHANGED <<spent, used, after>>

Answer(g) ==
  /\ serving[g].pc \in {"passed", "refused"}
  /\ serving' = [serving EXCEPT ![g] = Away]
  /\ after' = [after EXCEPT ![g] = {}]
  /\ UNCHANGED <<powChallenges, jsChallenges, fresh, spent, used>>

ChallengesNext ==
  \E g \in Clients :
    Challenged(g) \/ LookUp(g) \/ Delete(g) \/ Spend(g) \/ Issue(g) \/ Answer(g)

ChallengesSpec == ChallengesInit /\ [][ChallengesNext]_challengeVars

-----------------------------------------------------------------------------
\* The state keeps its type.
ChallengesTypeOK ==
  /\ powChallenges \subseteq Challenges
  /\ jsChallenges \subseteq Challenges
  /\ fresh \subseteq Challenges
  /\ serving \in [Clients -> [pc : {"away", "lookup", "delete", "script", "passed", "refused"},
                              pow : Challenges \cup {Nothing}, js : Challenges \cup {Nothing},
                              by : {"none", "pow", "js"}]]
  /\ spent \in [Challenges -> Nat]
  /\ used \subseteq Challenges
  /\ after \in [Clients -> SUBSET Challenges]

(* However the requests overlap, a script token lets one of them through. *)
TokenPassesOnce == \A c \in Challenges : spent[c] <= 1

(* An answer to a proof of work may let several requests through, but only ones
   that were being served at the same time: it admits none that arrived after
   some request had been let through with it.                                  *)
AnswerExpiresOnUse ==
  \A g \in Clients : ClientAt(g, "passed") /\ serving[g].by = "pow" => serving[g].pow \notin after[g]
=============================================================================
