----------------------------- MODULE EngineRules -----------------------------
(* The operations of the rule engine (security/rules: path.go, ua.go, geo.go,
   method.go, ratelimit.go) on its lists but that of addresses, which IPRules
   models. Deleting and switching never look whether the rule is there.       *)
EXTENDS RuleTables

\* path.go and ua.go: a pattern that is there is left alone.
AddPathRule(o, r) == Write(o, "path", r, Kept("path", r, Rule(TRUE)))
RemovePathRule(o, r) == Write(o, "path", r, Null)
UpdatePathRule(o, r) == \E on \in BOOLEAN : Write(o, "path", r, Switched("path", r, on))
TogglePathRule(o, r) ==
  Write(o, "path", r, Switched("path", r, Exists("path", r) /\ ~Row("path", r).enabled))

\* An agent that was migrated can be switched on, and stays out of force.
AddUARule(o, r) == Write(o, "ua", r, Kept("ua", r, Rule(TRUE)))
RemoveUARule(o, r) == Write(o, "ua", r, Null)
UpdateUARule(o, r) == \E on \in BOOLEAN : Write(o, "ua", r, Switched("ua", r, on))
ToggleUARule(o, r) ==
  Write(o, "ua", r, Switched("ua", r, Exists("ua", r) /\ ~Row("ua", r).enabled))

\* geo.go, for countries of one mode
AddGeoRule(o, r) == \E on \in BOOLEAN : Write(o, "geo", r, Kept("geo", r, Rule(on)))
UpdateGeoRule(o, r) == \E on \in BOOLEAN : Write(o, "geo", r, Switched("geo", r, on))
RemoveGeoRule(o, r) == Write(o, "geo", r, Null)

\* method.go and ratelimit.go do not load.
SetAllowedMethodDB(o, r) == \E on \in BOOLEAN : WriteOnly(o, "methods", r, Rule(on))
RemoveAllowedMethodDB(o, r) == WriteOnly(o, "methods", r, Null)
AddPathRateLimit(o, r) ==
  ~Exists("limits", r) /\ \E on \in BOOLEAN : WriteOnly(o, "limits", r, Rule(on))
UpdatePathRateLimit(o, r) == \E on \in BOOLEAN : WriteOnly(o, "limits", r, Switched("limits", r, on))
RemovePathRateLimit(o, r) == WriteOnly(o, "limits", r, Null)
=============================================================================
