----------------------------- MODULE ApprovalGate -----------------------------
(***************************************************************************)
(* The human-in-the-loop approval gate, python/src/aiops/hitl/gate.py.     *)
(*                                                                         *)
(* A gate object keeps every request it knows in a dictionary (_requests)  *)
(* and, when a Redis is configured and answered the ping at construction,  *)
(* writes the whole record to one Redis hash after each change.  Several   *)
(* processes ("instances") may share that Redis.  Only check_status reads  *)
(* it back; approve and reject decide on the local copy alone.             *)
(*                                                                         *)
(* The methods are synchronous, so within one instance a call runs to its  *)
(* end before the next one starts.  Between instances they interleave:     *)
(* check_status reads Redis (CheckBegin) and may write it later            *)
(* (CheckEnd), and in between other instances may write.                   *)
(*                                                                         *)
(* Abstracted: texts (operation, reason, context, session), and the        *)
(* approved_by list to the set of its members, which is all the code asks  *)
(* of it (len(set(approved_by))).  Time is an integer clock.               *)
(***************************************************************************)
EXTENDS Integers, FiniteSets

CONSTANTS
    Instance,          \* gate objects (processes) that share one Redis
    Request,           \* request ids; uuid4 prefixes, so each is drawn once
    Person,            \* approvers and rejectors
    DevAuto,           \* the approver name "dev-auto"
    Risk,              \* risk levels that occur
    CallerTimeout,     \* timeout_seconds values callers pass
    HighRiskTimeout,   \* the floor for high and critical (600 s)
    RedisTTL,          \* REDIS_TTL_SECONDS
    RedisConfigured,   \* redis_url is set
    RedisCanFail,      \* single Redis calls may raise (swallowed by the gate)
    CanRestart,        \* an instance may be restarted, losing its dictionary
    MaxTime,           \* bound of the clock
    Idle               \* no check_status call in progress

ASSUME GateAssumption ==
    /\ Risk \subseteq {"none", "low", "medium", "high", "critical"}
    /\ CallerTimeout \subseteq Nat
    /\ HighRiskTimeout \in Nat
    /\ RedisTTL \in Nat \ {0}
    /\ MaxTime \in Nat
    /\ RedisConfigured \in BOOLEAN
    /\ RedisCanFail \in BOOLEAN
    /\ CanRestart \in BOOLEAN
    /\ DevAuto \notin Person
    /\ Idle \notin Request

VARIABLES
    requests,     \* requests[i][r]: the dictionary _requests of instance i
    useRedis,     \* useRedis[i]: _use_redis of instance i
    redis,        \* redis[r]: the hash hitl:approval:{r}, or Absent
    expires,      \* expires[r]: when Redis drops that hash; NoExpiry if never
    now,          \* time.time()
    checking,     \* checking[i]: the request of the check_status call under way
    drawn,        \* the ids create_request has used
    autoApprove   \* auto_approve_dev, fixed by the environment

vars == <<requests, useRedis, redis, expires, now, checking, drawn, autoApprove>>

-----------------------------------------------------------------------------
Status == {"pending", "approved", "rejected", "timeout", "auto_approved"}

NotResolved == -1   \* resolved_at is None
NoExpiry    == -1   \* EXPIRE was never applied to the key

Record == [status : Status, risk : Risk, type : {"single", "dual"},
           approvedBy : SUBSET (Person \cup {DevAuto}),
           created : Nat, resolved : Nat \cup {NotResolved}, timeout : Nat]

Absent == [status |-> "absent"]

IsPending(rec) == rec.status = "pending"

\* Faulty variant: the deadline is never looked at.
IsTimedOut_Never(rec) == FALSE
\* Faulty variant: a resolved request can time out too.
IsTimedOut_Resolved(rec) == rec # Absent /\ now - rec.created > rec.timeout
IsTimedOut(rec) == IsPending(rec) /\ now - rec.created > rec.timeout

\* Faulty variant: the risk level itself is stored as the approval type.
ApprovalType_Risk(risk) == risk
ApprovalType(risk) == IF risk = "critical" THEN "dual" ELSE "single"

EffectiveTimeout(risk, t) ==
    IF risk \in {"high", "critical"} /\ t < HighRiskTimeout
    THEN HighRiskTimeout ELSE t

NewRequest(risk, t) ==
    [status     |-> IF autoApprove THEN "auto_approved" ELSE "pending",
     risk       |-> risk,
     type       |-> ApprovalType(risk),
     approvedBy |-> IF autoApprove THEN {DevAuto} ELSE {},
     created    |-> now,
     resolved   |-> IF autoApprove THEN now ELSE NotResolved,
     timeout    |-> EffectiveTimeout(risk, t)]

Resolve(rec, status) == [rec EXCEPT !.status = status, !.resolved = now]

\* Faulty variant: a person who approves twice counts as two.
Vote_Twice(rec, p) ==
    LET voted == [rec EXCEPT !.approvedBy = @ \cup {p}]
    IN  IF rec.type = "dual" /\ rec.approvedBy = {}
        THEN voted ELSE Resolve(voted, "approved")
\* approve, once its guards have passed: record the vote and decide.
Vote(rec, p) ==
    LET voted == [rec EXCEPT !.approvedBy = @ \cup {p}]
    IN  IF rec.type = "dual" /\ Cardinality(voted.approvedBy) < 2
        THEN voted ELSE Resolve(voted, "approved")

-----------------------------------------------------------------------------
(***************************************************************************)
(* _persist_to_redis.  HSET of every field, then EXPIRE.  An exception in  *)
(* either is logged and swallowed: the caller goes on as if it had         *)
(* succeeded.                                                              *)
(***************************************************************************)
PersistToRedis(i, r, rec) ==
    \/ /\ useRedis[i]
       /\ redis' = [redis EXCEPT ![r] = rec]
       /\ expires' = [expires EXCEPT ![r] = now + RedisTTL]
    \/ /\ useRedis[i] /\ RedisCanFail           \* HSET applied, EXPIRE failed
       /\ redis' = [redis EXCEPT ![r] = rec]
       /\ UNCHANGED expires
    \/ /\ ~useRedis[i] \/ RedisCanFail
       /\ UNCHANGED <<redis, expires>>

SetRequest(i, r, rec) == requests' = [requests EXCEPT ![i][r] = rec]

\* Instance i is between calls.
Free(i) == checking[i] = Idle

CreateRequest(i, r, risk, t) ==
    /\ Free(i)
    /\ r \notin drawn
    /\ now + EffectiveTimeout(risk, t) < MaxTime     \* the deadline fits the clock
    /\ SetRequest(i, r, NewRequest(risk, t))
    /\ PersistToRedis(i, r, NewRequest(risk, t))
    /\ drawn' = drawn \cup {r}
    /\ UNCHANGED <<useRedis, now, checking, autoApprove>>

Approve(i, r, p) ==
    /\ Free(i)
    /\ IsPending(requests[i][r])
    /\ ~IsTimedOut(requests[i][r])
    /\ SetRequest(i, r, Vote(requests[i][r], p))
    /\ PersistToRedis(i, r, Vote(requests[i][r], p))
    /\ UNCHANGED <<useRedis, now, checking, drawn, autoApprove>>

\* approve on a timed-out request resolves the local copy, raises, and
\* leaves Redis as it was.
ApproveTooLate(i, r) ==
    /\ Free(i)
    /\ IsTimedOut(requests[i][r])
    /\ SetRequest(i, r, Resolve(requests[i][r], "timeout"))
    /\ UNCHANGED <<useRedis, redis, expires, now, checking, drawn, autoApprove>>

\* Faulty variant: reject does not ask whether the request is resolved.
Reject_Unguarded(i, r) ==
    /\ Free(i)
    /\ requests[i][r] # Absent
    /\ SetRequest(i, r, Resolve(requests[i][r], "rejected"))
    /\ PersistToRedis(i, r, Resolve(requests[i][r], "rejected"))
    /\ UNCHANGED <<useRedis, now, checking, drawn, autoApprove>>
\* reject has no deadline: a pending request past its timeout is rejected.
Reject(i, r) ==
    /\ Free(i)
    /\ IsPending(requests[i][r])
    /\ SetRequest(i, r, Resolve(requests[i][r], "rejected"))
    /\ PersistToRedis(i, r, Resolve(requests[i][r], "rejected"))
    /\ UNCHANGED <<useRedis, now, checking, drawn, autoApprove>>

(***************************************************************************)
(* check_status, first half: _restore_from_redis.  A hash that is there    *)
(* replaces the local copy, whichever is newer; a failing HGETALL, or no   *)
(* hash, leaves it.  A request that is in neither place raises.            *)
(***************************************************************************)
Restored(i, r) ==
    (IF useRedis[i] /\ redis[r] # Absent THEN {redis[r]} ELSE {requests[i][r]})
    \cup (IF RedisCanFail THEN {requests[i][r]} ELSE {})

CheckBegin(i, r) ==
    /\ Free(i)
    /\ \E rec \in Restored(i, r) \ {Absent} : SetRequest(i, r, rec)
    /\ checking' = [checking EXCEPT ![i] = r]
    /\ UNCHANGED <<useRedis, redis, expires, now, drawn, autoApprove>>

\* check_status, second half: the deadline test on the restored copy.
CheckEnd(i) ==
    /\ ~Free(i)
    /\ LET r == checking[i]
           rec == requests[i][r]
       IN  IF IsTimedOut(rec)
           THEN /\ SetRequest(i, r, Resolve(rec, "timeout"))
                /\ PersistToRedis(i, r, Resolve(rec, "timeout"))
           ELSE UNCHANGED <<requests, redis, expires>>
    /\ checking' = [checking EXCEPT ![i] = Idle]
    /\ UNCHANGED <<useRedis, now, drawn, autoApprove>>

\* The clock, and the expiry of Redis keys.
Tick ==
    /\ now < MaxTime
    /\ now' = now + 1
    /\ redis' = [r \in Request |-> IF expires[r] = now + 1 THEN Absent ELSE redis[r]]
    /\ expires' = [r \in Request |-> IF expires[r] = now + 1 THEN NoExpiry ELSE expires[r]]
    /\ UNCHANGED <<requests, useRedis, checking, drawn, autoApprove>>

\* A process comes back with an empty dictionary; whether its ping succeeds
\* decides for its lifetime whether it uses Redis (_init_redis).
Restart(i) ==
    /\ CanRestart
    /\ requests' = [requests EXCEPT ![i] = [r \in Request |-> Absent]]
    /\ checking' = [checking EXCEPT ![i] = Idle]
    /\ \E up \in BOOLEAN :
         /\ up => RedisConfigured
         /\ useRedis' = [useRedis EXCEPT ![i] = up]
    /\ UNCHANGED <<redis, expires, now, drawn, autoApprove>>

-----------------------------------------------------------------------------
Init ==
    /\ requests = [i \in Instance |-> [r \in Request |-> Absent]]
    /\ useRedis \in [Instance -> IF RedisConfigured THEN BOOLEAN ELSE {FALSE}]
    /\ redis = [r \in Request |-> Absent]
    /\ expires = [r \in Request |-> NoExpiry]
    /\ now = 0
    /\ checking = [i \in Instance |-> Idle]
    /\ drawn = {}
    /\ autoApprove \in BOOLEAN

Next ==
    \/ \E i \in Instance, r \in Request :
         \/ \E risk \in Risk, t \in CallerTimeout : CreateRequest(i, r, risk, t)
         \/ \E p \in Person : Approve(i, r, p)
         \/ ApproveTooLate(i, r)
         \/ Reject(i, r)
         \/ CheckBegin(i, r)
    \/ \E i \in Instance : CheckEnd(i) \/ Restart(i)
    \/ Tick

\* Somebody keeps polling every request (ApprovalWorkflow.wait_for_approval
\* loops over check_status), a call that started returns, and time passes.
\* Nobody has to approve, reject or restart anything.
Fairness ==
    /\ WF_vars(Tick)
    /\ \A i \in Instance : WF_vars(CheckEnd(i))
    /\ \A i \in Instance, r \in Request : SF_vars(CheckBegin(i, r))

Spec == Init /\ [][Next]_vars
LiveSpec == Spec /\ Fairness

-----------------------------------------------------------------------------
TypeOK ==
    /\ requests \in [Instance -> [Request -> Record \cup {Absent}]]
    /\ useRedis \in [Instance -> BOOLEAN]
    /\ redis \in [Request -> Record \cup {Absent}]
    /\ expires \in [Request -> Nat \cup {NoExpiry}]
    /\ now \in Nat
    /\ checking \in [Instance -> Request \cup {Idle}]
    /\ drawn \subseteq Request
    /\ autoApprove \in BOOLEAN

\* Every record that exists anywhere: in a dictionary or in Redis.
Everywhere(P(_)) ==
    /\ \A i \in Instance, r \in Request : requests[i][r] # Absent => P(requests[i][r])
    /\ \A r \in Request : redis[r] # Absent => P(redis[r])

DualOK(rec) ==
    rec.risk = "critical" /\ rec.status = "approved" => Cardinality(rec.approvedBy) >= 2

InTimeOK(rec) ==
    rec.status = "approved" =>
        /\ rec.resolved - rec.created <= rec.timeout
        /\ rec.risk \in {"high", "critical"} \/ rec.timeout \in CallerTimeout

\* A critical operation that any instance, or Redis, shows as approved carries
\* the names of two different people, however votes, restores, restarts and
\* lost writes interleave (approve's dual branch).
DualControl == Everywhere(DualOK)

\* No approval takes effect after the deadline that was computed when the
\* request was created, even when the copy it was given on came through Redis.
ApprovedInTime == Everywhere(InTimeOK)

\* With one instance and a Redis that loses no write, a decision this
\* instance holds stays what it is until the instance itself is restarted:
\* the restore in check_status never brings back an older copy.
DecisionFinal ==
    [][\A i \in Instance, r \in Request :
         requests[i][r] # Absent /\ requests[i][r].status \in {"approved", "rejected", "auto_approved"}
         => requests'[i][r] \in {requests[i][r], Absent}]_vars

\* "Shared approval state" for several instances: what Redis shows as rejected
\* does not turn into an approval by the answer of another instance.
RejectionBinds ==
    [][\A r \in Request :
         redis[r].status = "rejected" => redis'[r].status # "approved"]_vars

\* A request that is pending in some instance is decided by that instance
\* (or lost with it) if only it keeps being polled: no request waits forever.
EventuallyDecided ==
    \A i \in Instance, r \in Request :
        IsPending(requests[i][r]) ~> ~IsPending(requests[i][r])

=============================================================================
