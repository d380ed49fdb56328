---------------------------- MODULE AccessProofs ----------------------------
(* Tool catalogue and access control, for any tools, users, configurations, *)
(* reports of the server and restarts.  A tool that is shown may be called  *)
(* as long as the catalogue knows it by the component its name has and by a *)
(* risk there is, which every way into the catalogue keeps (CatalogueOK).   *)
EXTENDS ToolAccess, TLAPS

CatalogueOK ==
    \A t \in Listed : tools[t].component = PrefixOf[t] /\ tools[t].risk \in Risks
UsersOK == \A u \in UserIds : /\ users[u] = NoUser \/ users[u].role \in Role
                              /\ userHash[u] = NoUser \/ userHash[u].role \in Role
AccessOK == CatalogueOK /\ UsersOK

\* The risks and roles there are.
LEMMA RiskTable ==
    /\ Risks = {"none", "low", "medium", "high", "critical"}
    /\ RiskOrder["none"] = 0 /\ RiskOrder["low"] = 1 /\ RiskOrder["medium"] = 2
    /\ RiskOrder["high"] = 3 /\ RiskOrder["critical"] = 4
  BY DEF Risks, RiskOrder

LEMMA RoleTable ==
    /\ RoleOf.viewer = 0 /\ RoleOf.operator = 1 /\ RoleOf.engineer = 2
    /\ RoleOf.admin = 3 /\ RoleOf.super = 4
    /\ Role = {0, 1, 2, 3, 4}
<1>1. DOMAIN RoleOf = {"viewer", "operator", "engineer", "admin", "super"}
  BY DEF RoleOf
<1>2. /\ RoleOf["viewer"] = 0 /\ RoleOf["operator"] = 1 /\ RoleOf["engineer"] = 2
      /\ RoleOf["admin"] = 3 /\ RoleOf["super"] = 4
  BY DEF RoleOf
<1>3. QED BY <1>1, <1>2 DEF Role

\* A role may call whatever is rated no higher than what it is shown.
LEMMA ListsNoMoreThanCalls ==
    ASSUME NEW role \in Role, NEW risk \in Risks, RiskOrder[risk] <= RiskOrder[MaxRisk(role)]
    PROVE  role >= MinRole(risk)
<1>1. CASE role \in {0, 1}
  <2>1. MaxRisk(role) = "none"
    BY <1>1, RoleTable DEF MaxRisk
  <2>2. risk = "none"
    BY <2>1, RiskTable
  <2>3. QED BY <1>1, <2>2, RoleTable DEF MinRole
<1>2. CASE role = 2
  <2>1. MaxRisk(role) = "medium"
    BY <1>2, RoleTable DEF MaxRisk
  <2>2. risk \in {"none", "low", "medium"}
    BY <2>1, RiskTable
  <2>3. QED BY <1>2, <2>2, RoleTable DEF MinRole
<1>3. CASE role = 3
  <2>1. MaxRisk(role) = "high"
    BY <1>3, RoleTable DEF MaxRisk
  <2>2. risk \in {"none", "low", "medium", "high"}
    BY <2>1, RiskTable
  <2>3. QED BY <1>3, <2>2, RoleTable DEF MinRole
<1>4. CASE role = 4
  BY <1>4, RoleTable, RiskTable DEF MinRole
<1>5. QED BY <1>1, <1>2, <1>3, <1>4, RoleTable

LEMMA ListedIsCallable == AccessOK => ShownIsCallable
<1> SUFFICES ASSUME AccessOK, NEW u \in Known, NEW t \in ToolNames, users[u].active, Shown(u, t)
             PROVE  CheckToolPermission(u, t, tools[t].risk)
  BY DEF ShownIsCallable
<1>1. tools[t].component = PrefixOf[t] /\ tools[t].risk \in Risks
  BY DEF AccessOK, CatalogueOK, Shown
<1>2. users[u].role \in Role
  BY DEF AccessOK, UsersOK, Known
<1>3. CheckPermission(u, tools[t].risk)
  BY <1>1, <1>2, ListsNoMoreThanCalls DEF CheckPermission, Shown
<1>4. QED
  BY <1>1, <1>3 DEF CheckToolPermission, Shown

\* What discovery finds out of a name is a component and a risk there is.
LEMMA ParsedTyped == ASSUME NEW t \in ToolNames
                     PROVE  /\ Parsed(t).component = PrefixOf[t]
                            /\ Parsed(t).risk \in Risks
  BY RiskTable DEF Parsed, InferredRisk

LEMMA BuiltinOK ==
    ASSUME tools' = [t \in ToolNames |-> IF t \in DOMAIN Builtin THEN Builtin[t] ELSE Absent]
    PROVE  CatalogueOK'
<1>1. \A t \in ToolNames : tools'[t] # Absent => t \in DOMAIN Builtin
  OBVIOUS
<1>2. \A t \in DOMAIN Builtin : t \in ToolNames /\ tools'[t] = Builtin[t]
  BY AccessAssumption
<1>3. QED
  BY <1>1, <1>2, AccessAssumption DEF CatalogueOK, Listed

LEMMA InitAccess == AccessInit => AccessOK
<1> SUFFICES ASSUME AccessInit PROVE AccessOK
  OBVIOUS
<1>1. CatalogueOK
  <2>1. \A t \in ToolNames : tools[t] # Absent => t \in DOMAIN Builtin
    BY DEF AccessInit
  <2>2. \A t \in DOMAIN Builtin : t \in ToolNames /\ tools[t] = Builtin[t]
    BY AccessAssumption DEF AccessInit
  <2>3. QED BY <2>1, <2>2, AccessAssumption DEF CatalogueOK, Listed
<1>2. UsersOK
  BY AccessAssumption DEF AccessInit, UsersOK, Defaults
<1>3. QED BY <1>1, <1>2 DEF AccessOK

LEMMA DiscoversAccess == ASSUME AccessOK, Discovers PROVE AccessOK'
<1>1. UsersOK'
  BY DEF AccessOK, UsersOK, Discovers
<1>2. CASE tools' = tools
  BY <1>1, <1>2 DEF AccessOK, CatalogueOK, Listed
<1>3. CASE \E reported \in SUBSET ToolNames : tools' = UpdateFromDiscovery(reported)
  <2>1. PICK reported \in SUBSET ToolNames :
          tools' = [t \in ToolNames |-> IF t \in reported \ Listed THEN Parsed(t) ELSE tools[t]]
    BY <1>3 DEF UpdateFromDiscovery
  <2>2. ASSUME NEW t \in ToolNames, tools'[t] # Absent
        PROVE  tools'[t].component = PrefixOf[t] /\ tools'[t].risk \in Risks
    <3>1. CASE t \in reported \ Listed
      BY <2>1, <3>1, ParsedTyped
    <3>2. CASE t \notin reported \ Listed
      BY <2>1, <2>2, <3>2 DEF AccessOK, CatalogueOK, Listed
    <3>3. QED BY <3>1, <3>2
  <2>3. QED BY <1>1, <2>2 DEF AccessOK, CatalogueOK, Listed
<1>4. QED BY <1>2, <1>3 DEF Discovers

LEMMA LoadAccess == ASSUME AccessOK, NEW ids \in SUBSET UserIds, LoadUsers(ids) PROVE AccessOK'
<1>1. PICK cfg \in [ids -> Configs], written \in SUBSET ids :
        /\ users' = [u \in UserIds |-> IF u \in ids THEN cfg[u] ELSE users[u]]
        /\ userHash' = [u \in UserIds |-> IF useRedis /\ u \in written THEN cfg[u] ELSE userHash[u]]
  BY DEF LoadUsers
<1>2. \A u \in ids : cfg[u].role \in Role
  BY AccessAssumption
<1>3. UsersOK'
  BY <1>1, <1>2 DEF AccessOK, UsersOK
<1>4. CatalogueOK'
  BY DEF LoadUsers, AccessOK, CatalogueOK, Listed
<1>5. QED BY <1>3, <1>4 DEF AccessOK

LEMMA RestartAccess == ASSUME AccessOK, Restart PROVE AccessOK'
<1>1. CatalogueOK'
  BY BuiltinOK DEF Restart
<1>2. PICK reached \in BOOLEAN, read \in SUBSET UserIds :
        users' = [u \in UserIds |->
                    IF Defaults[u] = NoUser /\ reached /\ u \in read THEN userHash[u] ELSE Defaults[u]]
  BY DEF Restart
<1>3. \A u \in UserIds : Defaults[u] = NoUser \/ Defaults[u].role \in Role
  BY AccessAssumption DEF Defaults
<1>4. UsersOK'
  BY <1>2, <1>3 DEF Restart, AccessOK, UsersOK
<1>5. QED BY <1>1, <1>4 DEF AccessOK

LEMMA StepAccess == AccessOK /\ [AccessNext]_accessVars => AccessOK'
<1> SUFFICES ASSUME AccessOK, [AccessNext]_accessVars PROVE AccessOK'
  OBVIOUS
<1>1. CASE Discover \/ Refresh
  BY <1>1, DiscoversAccess DEF Discover, Refresh
<1>2. CASE StartPeriodicRefresh \/ StopPeriodicRefresh \/ UNCHANGED accessVars
  BY <1>2 DEF StartPeriodicRefresh, StopPeriodicRefresh, accessVars, AccessOK, CatalogueOK, UsersOK, Listed
<1>3. QED
  BY <1>1, <1>2, LoadAccess, RestartAccess DEF AccessNext

(* An active user may call what the catalogue shows, whatever is reported,   *)
(* configured, restored or restarted (filter_for_user, check_tool_permission).*)
THEOREM ShownStaysCallable == AccessSpec => []ShownIsCallable
  BY InitAccess, StepAccess, ListedIsCallable, PTL DEF AccessSpec

=============================================================================
