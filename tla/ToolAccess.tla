----------------------------- MODULE ToolAccess -----------------------------
(* Who may see and call which tool: the catalogue of the client             *)
(* (mcp_client/registry.py) and its discovery (mcp_client/discovery.py),    *)
(* and the users, roles and permissions (security/rbac.py) with the Redis   *)
(* hash a restarted process restores them from.  Two tables written apart   *)
(* say what a role may do: one lists tools for it, the other checks calls.  *)
(* They differ: the first shows an operator less than the second lets call. *)
EXTENDS Naturals

CONSTANTS
    ToolNames,      \* names the catalogue or the server may hold
    Builtin,        \* INTERNAL_TOOLS: component and risk of the tools built in
    PrefixOf,       \* component by the prefix of every name, "unknown" if none
    WordsOf,        \* the risk keywords in every name
    UserIds,        \* ids of users, the default ones included
    DefaultUsers,   \* _register_default_users: id to user
    Configs         \* the user records a configuration may give

RiskOrder == [none |-> 0, low |-> 1, medium |-> 2, high |-> 3, critical |-> 4]
Risks == DOMAIN RiskOrder
RoleOf == [viewer |-> 0, operator |-> 1, engineer |-> 2, admin |-> 3, super |-> 4]
Role == {RoleOf[r] : r \in DOMAIN RoleOf}

Absent == [component |-> "none", risk |-> "absent"]
NoUser == [role |-> 0, components |-> {}, active |-> FALSE, missing |-> TRUE]

\* Tools of these components are open to everybody (registry.py, rbac.py).
AlwaysAvailable == {"metrics", "log", "alert", "event", "topology"}
\* The prefixes rbac.py knows; discovery.py also knows the query tools.
CheckedComponents == {"hdfs", "yarn", "kafka", "es", "zk", "ops"}

ASSUME AccessAssumption ==
    /\ DOMAIN Builtin \subseteq ToolNames /\ DOMAIN DefaultUsers \subseteq UserIds
    /\ PrefixOf \in [ToolNames -> CheckedComponents \cup AlwaysAvailable \cup {"unknown"}]
    /\ \A t \in DOMAIN Builtin : Builtin[t].component = PrefixOf[t] /\ Builtin[t].risk \in Risks
    /\ \A c \in Configs : c.role \in Role /\ c.active \in BOOLEAN
    /\ \A u \in DOMAIN DefaultUsers : DefaultUsers[u].role \in Role

VARIABLES
    tools,      \* the catalogue
    refreshing, \* the periodic refresh runs
    users,      \* the users in memory
    userHash,   \* the users in Redis
    useRedis    \* this process reached Redis when it started

accessVars == <<tools, refreshing, users, userHash, useRedis>>

Listed == {t \in ToolNames : tools[t] # Absent}
Known == {u \in UserIds : users[u] # NoUser}

----------------------------------------------------------------------------
(* Discovery *)

InferredRisk(t) ==
    IF WordsOf[t] \cap {"restart", "scale", "decommission", "delete", "drop"} # {}
    THEN IF "decommission" \in WordsOf[t] THEN "critical" ELSE "high"
    ELSE IF WordsOf[t] \cap {"update", "config", "gc", "clear"} # {} THEN "medium" ELSE "none"
Parsed(t) == [component |-> PrefixOf[t], risk |-> InferredRisk(t)]

\* Only names the catalogue does not hold are added; nothing is removed.
UpdateFromDiscovery(reported) ==
    [t \in ToolNames |-> IF t \in reported \ Listed THEN Parsed(t) ELSE tools[t]]

\* discover() answers with what the server lists, or with an error and no change.
Discovers ==
    /\ \/ \E reported \in SUBSET ToolNames : tools' = UpdateFromDiscovery(reported)
       \/ UNCHANGED tools
    /\ UNCHANGED <<users, userHash, useRedis>>

Discover == Discovers /\ UNCHANGED refreshing
Refresh == refreshing /\ Discovers /\ UNCHANGED refreshing
StartPeriodicRefresh == ~refreshing /\ refreshing' = TRUE /\ UNCHANGED <<tools, users, userHash, useRedis>>
StopPeriodicRefresh == refreshing /\ refreshing' = FALSE /\ UNCHANGED <<tools, users, userHash, useRedis>>

----------------------------------------------------------------------------
(* Users *)

\* load_users_from_config registers one user after the other, in memory and,
\* if Redis was reached, in the hash, where every write may fail by itself.
LoadUsers(ids) ==
    /\ \E cfg \in [ids -> Configs], written \in SUBSET ids :
         /\ users' = [u \in UserIds |-> IF u \in ids THEN cfg[u] ELSE users[u]]
         /\ userHash' = [u \in UserIds |-> IF useRedis /\ u \in written THEN cfg[u] ELSE userHash[u]]
    /\ UNCHANGED <<tools, refreshing, useRedis>>

Defaults == [u \in UserIds |-> IF u \in DOMAIN DefaultUsers THEN DefaultUsers[u] ELSE NoUser]

\* A new process knows the built-in tools and the default users; the hash adds
\* the ids that are not among those, as far as it can be read.
Restart ==
    /\ \E reached \in BOOLEAN, read \in SUBSET UserIds :
         /\ useRedis' = reached
         /\ users' = [u \in UserIds |->
                        IF Defaults[u] = NoUser /\ reached /\ u \in read THEN userHash[u] ELSE Defaults[u]]
    /\ tools' = [t \in ToolNames |-> IF t \in DOMAIN Builtin THEN Builtin[t] ELSE Absent]
    /\ refreshing' = FALSE
    /\ UNCHANGED userHash

AccessInit ==
    /\ tools = [t \in ToolNames |-> IF t \in DOMAIN Builtin THEN Builtin[t] ELSE Absent]
    /\ refreshing = FALSE /\ useRedis \in BOOLEAN
    /\ users = Defaults /\ userHash = [u \in UserIds |-> NoUser]

AccessNext ==
    \/ Discover \/ Refresh \/ StartPeriodicRefresh \/ StopPeriodicRefresh
    \/ \E ids \in SUBSET UserIds : LoadUsers(ids)
    \/ Restart
AccessSpec == AccessInit /\ [][AccessNext]_accessVars

----------------------------------------------------------------------------
(* What a user is shown and what a user may call *)

\* Faulty: the list is wider than the permissions.
MaxRisk_EngineerHigh(role) ==
    CASE role \in {RoleOf.viewer, RoleOf.operator} -> "none"
      [] role \in {RoleOf.engineer, RoleOf.admin} -> "high"
      [] role = RoleOf.super -> "critical"

\* filter_for_user: the risk up to which a role is shown tools.
MaxRisk(role) ==
    CASE role \in {RoleOf.viewer, RoleOf.operator} -> "none"
      [] role = RoleOf.engineer -> "medium"
      [] role = RoleOf.admin -> "high"
      [] role = RoleOf.super -> "critical"

Shown(u, t) ==
    /\ t \in Listed
    /\ RiskOrder[tools[t].risk] <= RiskOrder[MaxRisk(users[u].role)]
    /\ users[u].components = {} \/ tools[t].component \in users[u].components \cup AlwaysAvailable

\* RISK_TO_PERMISSION and PERMISSION_TABLE: the lowest role for a risk.
MinRole(risk) == CASE risk = "none" -> RoleOf.viewer [] risk = "low" -> RoleOf.operator
                   [] risk = "medium" -> RoleOf.engineer [] risk = "high" -> RoleOf.admin
                   [] risk = "critical" -> RoleOf.super

\* check_permission for a tool's risk, then the component of the tool's prefix.
CheckPermission(u, risk) == u \in Known /\ users[u].active /\ users[u].role >= MinRole(risk)
CheckToolPermission(u, t, risk) ==
    /\ CheckPermission(u, risk)
    /\ \/ users[u].components = {}
       \/ PrefixOf[t] \notin CheckedComponents
       \/ PrefixOf[t] \in users[u].components \cup AlwaysAvailable

----------------------------------------------------------------------------
AccessTypeOK ==
    /\ refreshing \in BOOLEAN /\ useRedis \in BOOLEAN
    /\ \A t \in Listed : tools[t].risk \in Risks
    /\ \A u \in Known : users[u].role \in Role

(* An active user is shown only tools that a call would be allowed for:      *)
(* whatever the server reports, whoever is registered or restored, the table *)
(* of the catalogue asks for no less than that of the access control, and    *)
(* the components they infer agree (filter_for_user, check_tool_permission). *)
(* Not the other way round: an operator may call a tool of low risk, and is  *)
(* shown none.                                                               *)
ShownIsCallable ==
    \A u \in Known, t \in ToolNames :
        users[u].active /\ Shown(u, t) => CheckToolPermission(u, t, tools[t].risk)
=============================================================================
