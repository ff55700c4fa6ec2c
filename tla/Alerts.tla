------------------------------- MODULE Alerts -------------------------------
(* When blocked requests raise alerts (EvaluateAndAlert and the senders of
   infra/notify/notify.go). A request takes the time and a copy of the rules, is
   counted under the lock unless the rule rests, and marks the beginning of the
   rest under the lock again: another request may be counted in between. Rules
   share nothing but the lock, so there is one here. A cleaner forgets counts and
   rests that are old, whatever the rule's own times are. What is counted are
   times of requests: the set of these requests says the same.

   Messages are left out but for the channel they go to.                      *)
EXTENDS Integers, FiniteSets

CONSTANTS
  Evaluations,    \* requests that are evaluated, numbered as they come
  AlertForms,     \* rules: [threshold, window, cooldown]
  ChannelForms,   \* settings of the channel: [address, enabled]
  CounterLife,    \* age at which counted matches are dropped (5 min)
  CooldownLife,   \* age at which the beginning of a rest is dropped (30 min)
  MaxAlertTime,   \* bound on the clock
  Never           \* no rest has begun

ASSUME AlertsAssumption ==
  /\ Evaluations \subseteq Nat \ {0}
  /\ ChannelForms \subseteq [address : {"none", "private", "public"}, enabled : BOOLEAN]
  /\ \A f \in AlertForms : f.threshold \in Nat \ {0} /\ f.window \in Nat \ {0} /\ f.cooldown \in Nat \ {0}
  /\ CounterLife \in Nat \ {0} /\ CooldownLife \in Nat \ {0} /\ MaxAlertTime \in Nat
  /\ Never \notin Nat

VARIABLES
  alertRule,     \* the rule
  channel,       \* its channel: where it is, and whether it is switched on
  counter,       \* the requests whose times are counted for it
  restsSince,    \* when the rest began
  evaluation,    \* each request: its step, its time, whether it was alone, and how
                 \* many matches its window held when it was counted
  alertTime,
  matches,       \* every request that was counted
  alerts         \* of each request, and 0 for a message no rule asks for:
                 \* what became of its alert

alertVars == <<alertRule, channel, counter, restsSince, evaluation, alertTime, matches, alerts>>

Direct == 0

AlertsInit ==
  /\ alertRule \in AlertForms
  /\ channel \in ChannelForms
  /\ counter = {} /\ restsSince = Never
  /\ evaluation = [e \in Evaluations |-> [pc |-> "new", now |-> 0, alone |-> TRUE, held |-> 0]]
  /\ alertTime = 0 /\ matches = {}
  /\ alerts = [e \in Evaluations \cup {Direct} |-> "none"]

Under(e) == evaluation[e].pc \in {"begun", "due"}
Moving(e, pc) == evaluation' = [evaluation EXCEPT ![e].pc = pc]
In(counted, now, window) == {f \in counted : evaluation[f].now > now - window}

----------------------------------------------------------------------------
\* EvaluateAndAlert: the time is taken before the lock.
EvaluateAndAlert(e) ==
  LET others == {f \in Evaluations : Under(f)} IN
  /\ evaluation[e].pc = "new" /\ \A f \in Evaluations : f < e => evaluation[f].pc # "new"
  /\ evaluation' = [f \in Evaluations |->
       IF f = e THEN [pc |-> "begun", now |-> alertTime, alone |-> others = {}, held |-> 0]
       ELSE IF f \in others THEN [evaluation[f] EXCEPT !.alone = FALSE] ELSE evaluation[f]]
  /\ UNCHANGED <<alertRule, channel, counter, restsSince, alertTime, matches, alerts>>

InCooldown(now) == restsSince # Never /\ now - restsSince < alertRule.cooldown
Rest(e) ==
  /\ evaluation[e].pc = "begun" /\ InCooldown(evaluation[e].now)
  /\ Moving(e, "rested")
  /\ UNCHANGED <<alertRule, channel, counter, restsSince, alertTime, matches, alerts>>

AllOf(counted, now) == counted    \* the window left out
WithinWindow(counted, now) == In(counted, now, alertRule.window)
CountMatch(e) ==
  LET now == evaluation[e].now IN
  /\ evaluation[e].pc = "begun" /\ ~InCooldown(now)
  /\ counter' = WithinWindow(counter \cup {e}, now)
  /\ matches' = matches \cup {e}
  /\ evaluation' = [evaluation EXCEPT
       ![e].pc = IF Cardinality(counter') < alertRule.threshold THEN "below" ELSE "due",
       ![e].held = Cardinality(In(matches', now, alertRule.window))]
  /\ UNCHANGED <<alertRule, channel, restsSince, alertTime, alerts>>

\* The rest begins at the request's own time, and a goroutine sends the alert.
RaiseAlert(e) ==
  /\ evaluation[e].pc = "due"
  /\ restsSince' = evaluation[e].now
  /\ alerts' = [alerts EXCEPT ![e] = "raised"]
  /\ Moving(e, "raised")
  /\ UNCHANGED <<alertRule, channel, counter, alertTime, matches>>

\* sendDingTalk and the others: the settings as they are by then. The channel that
\* a rule names need not be switched on. Nothing is tried a second time.
Reachable == channel.address = "public"
SendToChannel(m) ==
  /\ alerts[m] = "raised"
  /\ \E end \in {"sent", "lost"} :
       /\ end = "sent" => Reachable
       /\ alerts' = [alerts EXCEPT ![m] = IF m = Direct THEN "none" ELSE end]
  /\ UNCHANGED <<alertRule, channel, counter, restsSince, evaluation, alertTime, matches>>

\* recordBlock sends a message for every block, without asking a rule, to a channel
\* that is switched on; TestNotify does not ask that either.
SendDirectly ==
  /\ alerts[Direct] = "none" /\ alerts' = [alerts EXCEPT ![Direct] = "raised"]
  /\ UNCHANGED <<alertRule, channel, counter, restsSince, evaluation, alertTime, matches>>
SendAlert == channel.enabled /\ channel.address # "none" /\ SendDirectly
TestNotify == channel.address # "none" /\ SendDirectly

\* SaveConfig
ChangeChannel ==
  /\ channel' \in ChannelForms
  /\ UNCHANGED <<alertRule, counter, restsSince, evaluation, alertTime, matches, alerts>>

----------------------------------------------------------------------------
\* cleanupLoop, every 30 s
CleanupAlerts ==
  /\ counter' = {f \in counter : alertTime - evaluation[f].now < CounterLife}
  /\ restsSince' = IF restsSince # Never /\ alertTime - restsSince > CooldownLife
                   THEN Never ELSE restsSince
  /\ UNCHANGED <<alertRule, channel, evaluation, alertTime, matches, alerts>>

\* A unit of time passes at most once between a request's look at the clock and
\* the lock.
AlertTimePasses ==
  /\ \A e \in Evaluations : evaluation[e].pc = "begun" => evaluation[e].now = alertTime
  /\ alertTime < MaxAlertTime /\ alertTime' = alertTime + 1
  /\ UNCHANGED <<alertRule, channel, counter, restsSince, evaluation, matches, alerts>>

AlertsNext ==
  \/ \E e \in Evaluations : EvaluateAndAlert(e) \/ Rest(e) \/ CountMatch(e) \/ RaiseAlert(e)
  \/ \E m \in DOMAIN alerts : SendToChannel(m)
  \/ SendAlert \/ TestNotify \/ ChangeChannel \/ CleanupAlerts \/ AlertTimePasses

AlertsSpec == AlertsInit /\ [][AlertsNext]_alertVars

----------------------------------------------------------------------------
Raised(e) == alerts[e] # "none"
TakenAt(e) == evaluation[e].now

\* An alert is raised for at least as many matches within the window as the rule
\* asks for, and of requests that were evaluated one after the other: none is
\* raised while the rule rests, and none is missing once there are enough matches.
\* The cleaner may drop what a window of five minutes or a rest of more than thirty
\* would still need.
AlertsAreMeasured ==
  \A e \in Evaluations :
    /\ Raised(e) => evaluation[e].held >= alertRule.threshold
    /\ evaluation[e].pc = "below" /\ evaluation[e].alone /\ alertRule.window < CounterLife
       => evaluation[e].held < alertRule.threshold
    /\ \A f \in Evaluations \ {e} :
         /\ Raised(e) /\ Raised(f) /\ evaluation[e].alone /\ evaluation[f].alone
         /\ alertRule.cooldown <= CooldownLife
         => TakenAt(f) - TakenAt(e) >= alertRule.cooldown \/ TakenAt(e) - TakenAt(f) >= alertRule.cooldown
=============================================================================
