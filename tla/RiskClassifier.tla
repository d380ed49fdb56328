---------------------------- MODULE RiskClassifier ----------------------------
(***************************************************************************)
(* RiskClassifier.classify, python/src/aiops/hitl/risk.py: the level of an *)
(* operation from its text, its blast radius, the hour and its history.    *)
(*                                                                         *)
(* An operation text is abstracted to the set of keywords it contains, in  *)
(* the English or the Chinese form the patterns accept.  Keywords that are *)
(* substrings of one another (rolling_restart contains restart) come       *)
(* together: see WellFormed.  The score and the factor texts are left out: *)
(* nothing branches on them.                                               *)
(***************************************************************************)
EXTENDS Integers

\* RiskLevel: SAFE, LOW, MEDIUM, HIGH, CRITICAL.
Level == 0..4
Medium == 2
Critical == 4

\* RiskLevel(5): the enum constructor raises ValueError.
ValueError == -1

\* OPERATION_RISK_MAP, in its order: the first key found in the text decides.
OperationRiskMap ==
    << <<"status", 0>>, <<"query", 0>>, <<"list", 0>>, <<"check", 0>>, <<"search", 0>>,
       <<"overview", 0>>, <<"describe", 0>>,
       <<"clear_cache", 1>>, <<"flush_logs", 1>>, <<"refresh", 1>>,
       <<"update_config", 2>>, <<"trigger_gc", 2>>, <<"rebalance", 2>>, <<"set_quota", 2>>,
       <<"restart", 3>>, <<"scale", 3>>, <<"failover", 3>>, <<"rolling_restart", 3>>,
       <<"decommission", 4>>, <<"format", 4>>, <<"delete_data", 4>>, <<"migrate", 4>> >>

\* HIGH_RISK_PATTERNS: every pattern is tried, the highest level counts.
HighRiskPatterns ==
    {<<"restart", 3>>, <<"scale", 3>>, <<"decommission", 4>>, <<"delete", 4>>, <<"drop", 4>>,
     <<"format", 4>>, <<"failover", 3>>, <<"config_change", 2>>}

MapKey == {OperationRiskMap[k][1] : k \in DOMAIN OperationRiskMap}
Keyword == MapKey \cup {pair[1] : pair \in HighRiskPatterns}

WellFormed(text) ==
    /\ "rolling_restart" \in text => "restart" \in text
    /\ "delete_data" \in text => "delete" \in text

\* Step 1 of classify.
MapLevel(text) ==
    LET hits == {k \in DOMAIN OperationRiskMap : OperationRiskMap[k][1] \in text}
    IN  IF hits = {} THEN 0
        ELSE OperationRiskMap[CHOOSE k \in hits : \A l \in hits : k <= l][2]

\* Faulty variant: patterns are only consulted when the map matched nothing.
BaseLevel_MapWins(text) ==
    IF \E k \in DOMAIN OperationRiskMap : OperationRiskMap[k][1] \in text
    THEN MapLevel(text) ELSE Critical
\* Steps 1 and 2: the higher of the map's level and the patterns' levels.
BaseLevel(text) ==
    LET levels == {MapLevel(text)} \cup {pair[2] : pair \in {q \in HighRiskPatterns : q[1] \in text}}
    IN  CHOOSE l \in levels : \A m \in levels : m <= l

\* Faulty variant: the level is raised past the last one.
Raise_Uncapped(level) == level + 1
\* min(RiskLevel.CRITICAL, RiskLevel(level + 1)): the argument is built before
\* min can cap it, so a CRITICAL level cannot be raised without an exception.
Raise(level) == IF level + 1 \in Level THEN level + 1 ELSE ValueError

RaiseIf(condition, level) ==
    IF condition /\ level # ValueError THEN Raise(level) ELSE level

\* Steps 3 to 5, in the order of the code; each looks at the level so far.
Classify(text, scope) ==
    LET components == RaiseIf(scope.manyComponents, BaseLevel(text))
        nodes      == RaiseIf(scope.manyNodes, components)
        hours      == RaiseIf(scope.businessHours /\ nodes >= Medium, nodes)
    IN  RaiseIf(scope.oftenFails /\ hours >= 1, hours)

Scope == [manyComponents : BOOLEAN, manyNodes : BOOLEAN,
          businessHours : BOOLEAN, oftenFails : BOOLEAN]

RequiresApproval(level) == level >= Medium
Label(level) == <<"safe", "low", "medium", "high", "critical">>[level + 1]
=============================================================================
