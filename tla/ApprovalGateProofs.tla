-------------------------- MODULE ApprovalGateProofs --------------------------
(***************************************************************************)
(* Invariants of the approval gate for every number of instances, people   *)
(* and requests, with Redis calls that fail at will and restarts at will.  *)
(*                                                                         *)
(* DualControl alone is not inductive: a record is judged by its risk, but *)
(* approve branches on the stored approval type, and a step may copy a     *)
(* record from Redis into a dictionary.  GoodRecord ties type and deadline *)
(* to the risk, and is asked of every copy of a record, in any dictionary  *)
(* and in Redis; then every step only copies good records or makes one.    *)
(***************************************************************************)
EXTENDS ApprovalGateMC, FiniteSetTheorems, TLAPS

GoodRecord(rec) ==
    /\ rec \in Record
    /\ IsFiniteSet(rec.approvedBy)
    /\ rec.type = ApprovalType(rec.risk)
    /\ rec.type = "dual" /\ rec.status = "approved" => Cardinality(rec.approvedBy) >= 2
    /\ rec.status = "approved" => rec.resolved - rec.created <= rec.timeout
    /\ \E t \in CallerTimeout : rec.timeout = EffectiveTimeout(rec.risk, t)

Known(rec) == rec = Absent \/ GoodRecord(rec)

IInv ==
    /\ TypeOK
    /\ \A i \in Instance, r \in Request : Known(requests[i][r])
    /\ \A r \in Request : Known(redis[r])

-----------------------------------------------------------------------------
\* A freshly created request is a good record.
LEMMA NewRequestGood ==
  ASSUME TypeOK, NEW risk \in Risk, NEW t \in CallerTimeout
  PROVE  GoodRecord(NewRequest(risk, t))
<1>1. IsFiniteSet({}) /\ IsFiniteSet({DevAuto})
  BY FS_EmptySet, FS_Singleton
<1>2. QED
  BY <1>1, GateAssumption
     DEF TypeOK, GoodRecord, NewRequest, Record, Status, ApprovalType, EffectiveTimeout, NotResolved

\* Rejecting a record or timing it out keeps it good.
LEMMA ResolveGood ==
  ASSUME TypeOK, NEW rec, GoodRecord(rec), NEW status \in {"rejected", "timeout"}
  PROVE  GoodRecord(Resolve(rec, status))
BY DEF TypeOK, GoodRecord, Resolve, Record, Status

\* A vote in time keeps a pending record good: the branch of approve that
\* sets "approved" is taken by a dual request only with two names.
LEMMA VoteGood ==
  ASSUME TypeOK, NEW rec, GoodRecord(rec), IsPending(rec), ~IsTimedOut(rec), NEW p \in Person
  PROVE  GoodRecord(Vote(rec, p))
<1> DEFINE voters == rec.approvedBy \cup {p}
           voted  == [rec EXCEPT !.approvedBy = @ \cup {p}]
<1>1. IsFiniteSet(voters) /\ Cardinality(voters) \in Nat
  BY FS_AddElement, FS_CardinalityType DEF GoodRecord
<1>2. /\ voted.approvedBy = voters
      /\ voted.type = rec.type
      /\ voted.created = rec.created
      /\ voted.timeout = rec.timeout
      /\ GoodRecord(voted)
  BY <1>1 DEF GoodRecord, Record, IsPending
<1> HIDE DEF voted, voters
<1>3. CASE rec.type = "dual" /\ Cardinality(voters) < 2
  <2>1. Vote(rec, p) = voted
    BY <1>3 DEF Vote, voted, voters, GoodRecord, Record
  <2>2. QED BY <1>2, <2>1
<1>4. CASE rec.type = "dual" => Cardinality(voters) >= 2
  <2>1. Vote(rec, p) = Resolve(voted, "approved")
    BY <1>1, <1>4 DEF Vote, voted, voters, GoodRecord, Record
  <2>2. now - rec.created <= rec.timeout
    BY DEF IsTimedOut, GoodRecord, Record, TypeOK
  <2>3. QED
    BY <1>2, <1>4, <2>1, <2>2 DEF GoodRecord, Resolve, Record, Status, TypeOK
<1>5. QED BY <1>1, <1>3, <1>4

\* Putting a good record in a dictionary, and perhaps in Redis, keeps every
\* copy of every request good.
LEMMA StoreKeepsGood ==
  ASSUME IInv, NEW i \in Instance, NEW r \in Request, NEW rec, GoodRecord(rec),
         SetRequest(i, r, rec),
         PersistToRedis(i, r, rec) \/ UNCHANGED <<redis, expires>>
  PROVE  /\ requests' \in [Instance -> [Request -> Record \cup {Absent}]]
         /\ redis' \in [Request -> Record \cup {Absent}]
         /\ expires' \in [Request -> Nat \cup {NoExpiry}]
         /\ \A j \in Instance, s \in Request : Known(requests'[j][s])
         /\ \A s \in Request : Known(redis'[s])
<1>1. /\ requests' \in [Instance -> [Request -> Record \cup {Absent}]]
      /\ \A j \in Instance, s \in Request :
           requests'[j][s] = IF j = i /\ s = r THEN rec ELSE requests[j][s]
  BY DEF IInv, TypeOK, SetRequest, GoodRecord
<1>2. \A j \in Instance, s \in Request : Known(requests'[j][s])
  BY <1>1 DEF IInv, Known
<1>3. /\ redis' \in [Request -> Record \cup {Absent}]
      /\ \A s \in Request : redis'[s] \in {redis[s], rec}
  <2>1. rec \in Record /\ redis \in [Request -> Record \cup {Absent}]
    BY DEF IInv, TypeOK, GoodRecord
  <2>2. redis' = [redis EXCEPT ![r] = rec] \/ redis' = redis
    BY DEF PersistToRedis
  <2>3. QED BY <2>1, <2>2
<1>5. expires' \in [Request -> Nat \cup {NoExpiry}]
  <2>1. expires' = [expires EXCEPT ![r] = now + RedisTTL] \/ expires' = expires
    BY DEF PersistToRedis
  <2>2. QED BY <2>1, GateAssumption DEF IInv, TypeOK
<1>4. \A s \in Request : Known(redis'[s])
  BY <1>3 DEF IInv, Known
<1>6. QED BY <1>1, <1>2, <1>3, <1>4, <1>5

-----------------------------------------------------------------------------
LEMMA InitIInv == Init => IInv
<1> SUFFICES ASSUME Init PROVE IInv
  OBVIOUS
<1>1. useRedis \in [Instance -> BOOLEAN]
  <2>1. CASE RedisConfigured
    BY <2>1 DEF Init
  <2>2. CASE ~RedisConfigured
    <3>1. useRedis \in [Instance -> {FALSE}]
      BY <2>2 DEF Init
    <3>2. QED BY <3>1
  <2>3. QED BY <2>1, <2>2
<1>2. QED BY <1>1 DEF Init, IInv, TypeOK, Known

LEMMA NextIInv == IInv /\ [Next]_vars => IInv'
<1> SUFFICES ASSUME IInv, [Next]_vars PROVE IInv'
  OBVIOUS
<1>0. TypeOK
  BY DEF IInv
<1>1. ASSUME NEW i \in Instance, NEW r \in Request, NEW risk \in Risk,
             NEW t \in CallerTimeout, CreateRequest(i, r, risk, t)
      PROVE  IInv'
  <2>1. GoodRecord(NewRequest(risk, t))
    BY <1>0, NewRequestGood
  <2>2. QED
    BY <1>0, <1>1, <2>1, StoreKeepsGood DEF CreateRequest, IInv, TypeOK, Known
<1>2. ASSUME NEW i \in Instance, NEW r \in Request, NEW p \in Person, Approve(i, r, p)
      PROVE  IInv'
  <2>1. GoodRecord(requests[i][r])
    BY <1>2 DEF Approve, IsPending, IInv, Known, Absent
  <2>2. GoodRecord(Vote(requests[i][r], p))
    BY <1>0, <1>2, <2>1, VoteGood DEF Approve
  <2>3. QED
    BY <1>0, <1>2, <2>2, StoreKeepsGood DEF Approve, IInv, TypeOK, Known
<1>3. ASSUME NEW i \in Instance, NEW r \in Request, ApproveTooLate(i, r)
      PROVE  IInv'
  <2>1. GoodRecord(requests[i][r])
    BY <1>3 DEF ApproveTooLate, IsTimedOut, IsPending, IInv, Known, Absent
  <2>2. GoodRecord(Resolve(requests[i][r], "timeout"))
    BY <1>0, <2>1, ResolveGood
  <2>3. QED
    BY <1>0, <1>3, <2>2, StoreKeepsGood DEF ApproveTooLate, IInv, TypeOK, Known
<1>4. ASSUME NEW i \in Instance, NEW r \in Request, Reject(i, r)
      PROVE  IInv'
  <2>1. GoodRecord(requests[i][r])
    BY <1>4 DEF Reject, IsPending, IInv, Known, Absent
  <2>2. GoodRecord(Resolve(requests[i][r], "rejected"))
    BY <1>0, <2>1, ResolveGood
  <2>3. QED
    BY <1>0, <1>4, <2>2, StoreKeepsGood DEF Reject, IInv, TypeOK, Known
<1>5. ASSUME NEW i \in Instance, NEW r \in Request, CheckBegin(i, r)
      PROVE  IInv'
  <2>1. PICK rec \in Restored(i, r) \ {Absent} : SetRequest(i, r, rec)
    BY <1>5 DEF CheckBegin
  <2>2. GoodRecord(rec)
    BY <2>1 DEF Restored, IInv, Known
  <2>3. QED
    BY <1>0, <1>5, <2>1, <2>2, StoreKeepsGood DEF CheckBegin, IInv, TypeOK, Known
<1>6. ASSUME NEW i \in Instance, CheckEnd(i)
      PROVE  IInv'
  <2> DEFINE r == checking[i]
             rec == requests[i][r]
  <2>1. r \in Request
    BY <1>0, <1>6 DEF CheckEnd, Free, TypeOK
  <2>2. CASE IsTimedOut(rec)
    <3>1. GoodRecord(rec)
      BY <2>1, <2>2 DEF IsTimedOut, IsPending, IInv, Known, Absent
    <3>2. GoodRecord(Resolve(rec, "timeout"))
      BY <1>0, <3>1, ResolveGood
    <3>3. /\ SetRequest(i, r, Resolve(rec, "timeout"))
          /\ PersistToRedis(i, r, Resolve(rec, "timeout"))
          /\ checking' = [checking EXCEPT ![i] = Idle]
          /\ UNCHANGED <<useRedis, now, drawn, autoApprove>>
      BY <1>6, <2>2 DEF CheckEnd
    <3> HIDE DEF r, rec
    <3>4. QED
      BY <1>0, <2>1, <3>2, <3>3, StoreKeepsGood DEF IInv, TypeOK
  <2>3. CASE ~IsTimedOut(rec)
    BY <1>0, <1>6, <2>3 DEF CheckEnd, IInv, TypeOK, Known
  <2>4. QED BY <2>2, <2>3
<1>7. ASSUME NEW i \in Instance, Restart(i)
      PROVE  IInv'
  BY <1>0, <1>7 DEF Restart, IInv, TypeOK, Known
<1>8. CASE Tick
  BY <1>0, <1>8 DEF Tick, IInv, TypeOK, Known, NoExpiry
<1>9. CASE UNCHANGED vars
  BY <1>9 DEF vars, IInv, TypeOK, Known
<1>10. QED
  BY <1>1, <1>2, <1>3, <1>4, <1>5, <1>6, <1>7, <1>8, <1>9 DEF Next

LEMMA IInvInvariant == Spec => []IInv
BY InitIInv, NextIInv, PTL DEF Spec

\* The gate's dictionaries, Redis and clock keep their types for every number
\* of instances and whatever Redis loses.
THEOREM TypeCorrect == Spec => []TypeOK
<1>1. IInv => TypeOK
  BY DEF IInv
<1>2. QED BY <1>1, IInvInvariant, PTL

\* No copy of a critical request is approved by fewer than two people.
THEOREM DualControlHolds == Spec => []DualControl
<1>1. IInv => DualControl
  <2>1. \A rec : GoodRecord(rec) => DualOK(rec)
    BY DEF GoodRecord, DualOK, ApprovalType
  <2>2. QED BY <2>1 DEF IInv, DualControl, Everywhere, Known
<1>2. QED BY <1>1, IInvInvariant, PTL

\* No copy of a request is approved after its deadline.
THEOREM ApprovedInTimeHolds == Spec => []ApprovedInTime
<1>1. IInv => ApprovedInTime
  <2>1. \A rec : GoodRecord(rec) => InTimeOK(rec)
    BY DEF GoodRecord, InTimeOK, EffectiveTimeout
  <2>2. QED BY <2>1 DEF IInv, ApprovedInTime, Everywhere, Known
<1>2. QED BY <1>1, IInvInvariant, PTL

-----------------------------------------------------------------------------
(***************************************************************************)
(* One gate over a Redis whose calls do not fail.  The gate's copy and the *)
(* hash may differ in one way only: approve has resolved the copy of an    *)
(* overdue request to "timeout" without writing it.  Whatever the TTL,     *)
(* restarts and pings do, no copy is then older than what was decided.     *)
(***************************************************************************)
OneGate(g) == Instance = {g} /\ ~RedisCanFail

\* What relates the copy of a request to its hash.
InStep(issued, uses, local, remote) ==
    /\ local # Absent \/ remote # Absent => issued
    /\ local # Absent /\ remote # Absent
       => uses /\ (local = remote \/ (IsTimedOut(remote) /\ local.status = "timeout"))

AllInStep(g) == \A r \in Request : InStep(r \in drawn, useRedis[g], requests[g][r], redis[r])

\* The abstract decision of a request, from the gate's copy and the hash.
Outcome(issued, local, remote) ==
    IF ~issued THEN "unissued"
    ELSE IF remote # Absent THEN remote.status
    ELSE IF local # Absent THEN local.status ELSE "gone"

\* What a step may do to one request: an abstract step, and a decision stays.
Keeps(old, new, local, localNext) ==
    /\ new = old \/ <<old, new>> \in Lifecycle!Legal
    /\ local # Absent /\ local.status \in {"approved", "rejected", "auto_approved"}
       => localNext \in {local, Absent}

StepKeeps(g, r) ==
    /\ InStep(r \in drawn, useRedis[g], requests[g][r], redis[r])'
    /\ Keeps(Outcome(r \in drawn, requests[g][r], redis[r]),
             Outcome(r \in drawn', requests'[g][r], redis'[r]), requests[g][r], requests'[g][r])

\* A request a step does not touch.
LEMMA UntouchedKeeps ==
  ASSUME NEW g, AllInStep(g), NEW r \in Request,
         UNCHANGED <<now, useRedis>>, requests'[g][r] = requests[g][r], redis'[r] = redis[r],
         r \in drawn' <=> r \in drawn
  PROVE  StepKeeps(g, r)
<1>1. InStep(r \in drawn, useRedis[g], requests[g][r], redis[r])
  BY DEF AllInStep
<1>2. InStep(r \in drawn, useRedis[g], requests[g][r], redis[r])'
  BY <1>1 DEF InStep, IsTimedOut
<1>3. Outcome(r \in drawn', requests'[g][r], redis'[r]) = Outcome(r \in drawn, requests[g][r], redis[r])
  BY DEF Outcome
<1>4. QED BY <1>2, <1>3 DEF StepKeeps, Keeps

\* A request the gate creates, or one it holds open and decides or votes on: the
\* copy is written, and so is the hash if the gate has a Redis.
LEMMA WriteKeeps ==
  ASSUME NEW g, OneGate(g), IInv, AllInStep(g), NEW r \in Request, NEW new, GoodRecord(new),
         \/ /\ r \notin drawn /\ drawn' = drawn \cup {r}
            /\ new.status \in {"pending", "auto_approved"}
         \/ /\ IsPending(requests[g][r]) /\ drawn' = drawn
            /\ new.status \in {"pending", "approved", "rejected", "timeout"},
         SetRequest(g, r, new), PersistToRedis(g, r, new), UNCHANGED <<useRedis, now>>
  PROVE  \A q \in Request : StepKeeps(g, q)
<1> DEFINE local == requests[g][r]
           remote == redis[r]
<1>1. /\ requests'[g][r] = new
      /\ \A q \in Request : q # r => requests'[g][q] = requests[g][q]
  BY DEF OneGate, IInv, TypeOK, SetRequest
<1>2. /\ useRedis[g] => redis'[r] = new
      /\ ~useRedis[g] => redis'[r] = remote
      /\ \A q \in Request : q # r => redis'[q] = redis[q]
  BY DEF OneGate, IInv, TypeOK, PersistToRedis
<1>3. new # Absent /\ useRedis[g] \in BOOLEAN
  BY DEF GoodRecord, Record, Status, Absent, OneGate, IInv, TypeOK
<1>4. InStep(r \in drawn, useRedis[g], local, remote)
  BY DEF AllInStep
<1>5. r \in drawn' /\ (~useRedis[g] => remote = Absent)
  <2>1. CASE r \notin drawn /\ drawn' = drawn \cup {r}
    BY <1>4, <2>1 DEF InStep
  <2>2. CASE IsPending(local) /\ drawn' = drawn
    <3>1. local # Absent
      BY <2>2 DEF IsPending, Absent
    <3>2. QED BY <1>4, <2>2, <3>1 DEF InStep
  <2>3. QED BY <2>1, <2>2
<1>6. redis'[r] = IF useRedis[g] THEN new ELSE Absent
  BY <1>2, <1>3, <1>5
<1>7. InStep(r \in drawn, useRedis[g], requests[g][r], redis[r])'
  BY <1>1, <1>5, <1>6 DEF InStep
<1>8. Outcome(r \in drawn', requests'[g][r], redis'[r]) = new.status
  BY <1>1, <1>3, <1>5, <1>6 DEF Outcome
<1>9. <<Outcome(r \in drawn, local, remote), new.status>> \in Lifecycle!Legal
         \/ new.status = Outcome(r \in drawn, local, remote)
  <2>1. CASE r \notin drawn /\ new.status \in {"pending", "auto_approved"}
    BY <2>1 DEF Outcome, Lifecycle!Legal
  <2>2. CASE IsPending(local) /\ new.status \in {"pending", "approved", "rejected", "timeout"}
    <3>1. local # Absent /\ local.status = "pending"
      BY <2>2 DEF IsPending, Absent
    <3>2. Outcome(r \in drawn, local, remote) = "pending"
      BY <1>4, <3>1 DEF InStep, Outcome
    <3>3. QED BY <2>2, <3>2 DEF Lifecycle!Legal
  <2>3. QED BY <2>1, <2>2
<1>10. ~(local # Absent /\ local.status \in {"approved", "rejected", "auto_approved"})
  BY <1>4 DEF InStep, IsPending
<1>11. StepKeeps(g, r)
  BY <1>7, <1>8, <1>9, <1>10 DEF StepKeeps, Keeps
<1>12. ASSUME NEW q \in Request, q # r PROVE StepKeeps(g, q)
  <2>1. q \in drawn' <=> q \in drawn
    BY <1>12
  <2>2. QED BY <1>1, <1>2, <1>12, <2>1, UntouchedKeeps
<1>13. QED BY <1>11, <1>12

\* approve on an overdue request resolves the copy alone.
LEMMA TooLateKeeps ==
  ASSUME NEW g, OneGate(g), IInv, AllInStep(g), NEW r \in Request, ApproveTooLate(g, r)
  PROVE  \A q \in Request : StepKeeps(g, q)
<1> DEFINE local == requests[g][r]
           remote == redis[r]
<1>1. /\ requests'[g][r] = Resolve(local, "timeout")
      /\ \A q \in Request : q # r => requests'[g][q] = requests[g][q]
      /\ UNCHANGED <<useRedis, redis, now, drawn>>
  BY DEF OneGate, IInv, TypeOK, SetRequest, ApproveTooLate
<1>2. IsTimedOut(local) /\ local.status = "pending" /\ local # Absent
  BY DEF ApproveTooLate, IsTimedOut, IsPending, Absent
<1>3. Resolve(local, "timeout").status = "timeout" /\ Resolve(local, "timeout") # Absent
  <2>1. local \in Record
    BY <1>2 DEF OneGate, IInv, TypeOK
  <2> HIDE DEF local
  <2>2. QED BY <2>1 DEF Resolve, Record, Absent
<1>4. r \in drawn /\ (remote # Absent => useRedis[g] /\ remote = local)
  BY <1>2 DEF AllInStep, InStep
<1>5. InStep(r \in drawn, useRedis[g], requests[g][r], redis[r])'
  BY <1>1, <1>2, <1>3, <1>4 DEF InStep, IsTimedOut
<1>6. /\ Outcome(r \in drawn, local, remote) = "pending"
      /\ Outcome(r \in drawn', requests'[g][r], redis'[r]) \in {"pending", "timeout"}
  BY <1>1, <1>2, <1>3, <1>4 DEF Outcome
<1>7. StepKeeps(g, r)
  BY <1>2, <1>5, <1>6 DEF StepKeeps, Keeps, Lifecycle!Legal
<1>8. QED BY <1>1, <1>7, UntouchedKeeps

\* check_status brings back the hash, which is never older than the decision.
LEMMA CheckBeginKeeps ==
  ASSUME NEW g, OneGate(g), IInv, AllInStep(g), NEW r \in Request, CheckBegin(g, r)
  PROVE  \A q \in Request : StepKeeps(g, q)
<1> DEFINE local == requests[g][r]
           remote == redis[r]
<1>1. PICK rec \in Restored(g, r) \ {Absent} : SetRequest(g, r, rec)
  BY DEF CheckBegin
<1>2. /\ rec # Absent /\ rec = IF useRedis[g] /\ remote # Absent THEN remote ELSE local
  BY <1>1 DEF Restored, OneGate
<1>3. /\ requests'[g][r] = rec
      /\ \A q \in Request : q # r => requests'[g][q] = requests[g][q]
      /\ UNCHANGED <<useRedis, redis, now, drawn>>
  BY <1>1 DEF OneGate, IInv, TypeOK, SetRequest, CheckBegin
<1>4. InStep(r \in drawn, useRedis[g], local, remote)
  BY DEF AllInStep
<1>5. InStep(r \in drawn, useRedis[g], requests[g][r], redis[r])'
  BY <1>2, <1>3, <1>4 DEF InStep, IsTimedOut
<1>6. Outcome(r \in drawn', requests'[g][r], redis'[r]) = Outcome(r \in drawn, local, remote)
  BY <1>2, <1>3, <1>4 DEF InStep, Outcome
<1>7. local # Absent /\ local.status \in {"approved", "rejected", "auto_approved"} => rec = local
  BY <1>2, <1>4 DEF InStep
<1>8. StepKeeps(g, r)
  BY <1>3, <1>5, <1>6, <1>7 DEF StepKeeps, Keeps
<1>9. QED BY <1>3, <1>8, UntouchedKeeps

LEMMA CheckEndKeeps ==
  ASSUME NEW g, OneGate(g), IInv, AllInStep(g), CheckEnd(g)
  PROVE  \A q \in Request : StepKeeps(g, q)
<1> DEFINE r == checking[g]
           rec == requests[g][r]
<1>1. r \in Request /\ g \in Instance /\ TypeOK
  BY DEF CheckEnd, Free, IInv, TypeOK, OneGate
<1>2. CASE IsTimedOut(rec)
  <2>1. GoodRecord(rec) /\ IsPending(rec)
    BY <1>1, <1>2 DEF IsTimedOut, IsPending, IInv, Known, Absent
  <2>2. GoodRecord(Resolve(rec, "timeout")) /\ Resolve(rec, "timeout").status = "timeout"
    <3>1. GoodRecord(Resolve(rec, "timeout"))
      BY <1>1, <2>1, ResolveGood
    <3> HIDE DEF rec
    <3>2. Resolve(rec, "timeout").status = "timeout"
      BY <2>1 DEF GoodRecord, Resolve, Record
    <3>3. QED BY <3>1, <3>2
  <2>3. /\ SetRequest(g, r, Resolve(rec, "timeout"))
        /\ PersistToRedis(g, r, Resolve(rec, "timeout"))
        /\ UNCHANGED <<useRedis, now, drawn>>
    BY <1>2 DEF CheckEnd
  <2> HIDE DEF r
  <2>4. QED BY <1>1, <2>1, <2>2, <2>3, WriteKeeps
<1>3. CASE ~IsTimedOut(rec)
  BY <1>3, UntouchedKeeps DEF CheckEnd
<1>4. QED BY <1>2, <1>3

\* The statuses a record may have, as the abstract life cycle has them.
LEMMA KnownStatus ==
  ASSUME NEW rec, Known(rec), rec # Absent
  PROVE  rec.status \in {"pending"} \cup Lifecycle!Final
BY DEF Known, GoodRecord, Record, Status, Lifecycle!Final

LEMMA TickKeeps ==
  ASSUME NEW g, OneGate(g), IInv, AllInStep(g), Tick
  PROVE  \A q \in Request : StepKeeps(g, q)
<1> SUFFICES ASSUME NEW r \in Request PROVE StepKeeps(g, r)
  OBVIOUS
<1> DEFINE local == requests[g][r]
           remote == redis[r]
<1>1. /\ now \in Nat /\ now' = now + 1 /\ redis'[r] \in {remote, Absent}
      /\ UNCHANGED <<requests, useRedis, drawn>>
  BY DEF Tick, IInv, TypeOK
<1>2. InStep(r \in drawn, useRedis[g], local, remote) /\ Known(remote)
  BY DEF AllInStep, IInv
<1>3. ASSUME remote # Absent, IsTimedOut(remote) PROVE remote.status = "pending" /\ now' - remote.created > remote.timeout
  <2>1. remote.created \in Nat /\ remote.timeout \in Nat
    BY <1>2, <1>3 DEF Known, GoodRecord, Record
  <2>2. now - remote.created > remote.timeout /\ remote.status = "pending"
    BY <1>3 DEF IsTimedOut, IsPending
  <2> HIDE DEF remote
  <2>3. QED BY <1>1, <2>1, <2>2
<1>4. CASE redis'[r] = remote
  <2>1. remote # Absent /\ IsTimedOut(remote) => IsTimedOut(redis[r])'
    BY <1>3, <1>4 DEF IsTimedOut, IsPending
  <2>2. InStep(r \in drawn, useRedis[g], requests[g][r], redis[r])'
    BY <1>1, <1>2, <1>4, <2>1 DEF InStep
  <2>3. QED BY <1>1, <1>4, <2>2 DEF StepKeeps, Keeps, Outcome
<1>5. CASE redis'[r] = Absent /\ remote # Absent
  <2>1. InStep(r \in drawn, useRedis[g], local, remote)'
    BY <1>1, <1>2, <1>5 DEF InStep
  <2>2. Outcome(r \in drawn, local, remote) = remote.status /\ r \in drawn
    BY <1>2, <1>5 DEF InStep, Outcome
  <2>3. Outcome(r \in drawn', requests'[g][r], redis'[r]) = IF local # Absent THEN local.status ELSE "gone"
    BY <1>1, <1>5, <2>2 DEF Outcome
  <2>4. local # Absent => \/ local.status = remote.status
                          \/ remote.status = "pending" /\ local.status = "timeout"
    BY <1>2, <1>5 DEF InStep, IsTimedOut, IsPending
  <2>5. remote.status \in {"pending"} \cup Lifecycle!Final
    BY <1>2, <1>5, KnownStatus
  <2>6. \/ Outcome(r \in drawn', requests'[g][r], redis'[r]) = remote.status
        \/ <<remote.status, Outcome(r \in drawn', requests'[g][r], redis'[r])>> \in Lifecycle!Legal
    BY <2>3, <2>4, <2>5 DEF Lifecycle!Legal
  <2>7. QED BY <1>1, <2>1, <2>2, <2>6 DEF StepKeeps, Keeps
<1>6. QED BY <1>1, <1>4, <1>5

LEMMA RestartKeeps ==
  ASSUME NEW g, OneGate(g), IInv, AllInStep(g), Restart(g)
  PROVE  \A q \in Request : StepKeeps(g, q)
<1> SUFFICES ASSUME NEW r \in Request PROVE StepKeeps(g, r)
  OBVIOUS
<1> DEFINE local == requests[g][r]
           remote == redis[r]
<1>1. requests'[g][r] = Absent /\ UNCHANGED <<redis, drawn>>
  BY DEF Restart, OneGate, IInv, TypeOK
<1>2. InStep(r \in drawn, useRedis[g], local, remote) /\ Known(local)
  BY DEF AllInStep, IInv, OneGate
<1>3. InStep(r \in drawn, useRedis[g], local, remote)'
  BY <1>1, <1>2 DEF InStep
<1>4. \/ Outcome(r \in drawn', requests'[g][r], redis'[r]) = Outcome(r \in drawn, local, remote)
      \/ <<Outcome(r \in drawn, local, remote), Outcome(r \in drawn', requests'[g][r], redis'[r])>>
            \in Lifecycle!Legal
  <2>1. CASE remote = Absent /\ local # Absent /\ r \in drawn
    <3>1. Outcome(r \in drawn, local, remote) = local.status
          /\ Outcome(r \in drawn', requests'[g][r], redis'[r]) = "gone"
      BY <1>1, <2>1 DEF Outcome
    <3>2. local.status \in {"pending"} \cup Lifecycle!Final
      BY <1>2, <2>1, KnownStatus
    <3>3. QED BY <3>1, <3>2 DEF Lifecycle!Legal
  <2>2. CASE ~(remote = Absent /\ local # Absent /\ r \in drawn)
    BY <1>1, <2>2 DEF Outcome
  <2>3. QED BY <2>1, <2>2
<1>5. QED BY <1>1, <1>3, <1>4 DEF StepKeeps, Keeps

-----------------------------------------------------------------------------
LEMMA OneGateStep ==
  ASSUME NEW g, OneGate(g), IInv, AllInStep(g), [Next]_vars
  PROVE  \A q \in Request : StepKeeps(g, q)
<1>0. Instance = {g} /\ g \in Instance /\ TypeOK
  BY DEF OneGate, IInv
<1>1. ASSUME NEW r \in Request, NEW risk \in Risk, NEW t \in CallerTimeout, CreateRequest(g, r, risk, t)
      PROVE  \A q \in Request : StepKeeps(g, q)
  <2>1. GoodRecord(NewRequest(risk, t)) /\ NewRequest(risk, t).status \in {"pending", "auto_approved"}
    BY <1>0, NewRequestGood DEF NewRequest
  <2>2. QED BY <1>1, <2>1, WriteKeeps DEF CreateRequest
<1>2. ASSUME NEW r \in Request, NEW p \in Person, Approve(g, r, p)
      PROVE  \A q \in Request : StepKeeps(g, q)
  <2> DEFINE local == requests[g][r]
  <2>1. GoodRecord(local) /\ IsPending(local) /\ ~IsTimedOut(local)
    BY <1>0, <1>2 DEF Approve, IsPending, IInv, Known, Absent
  <2>2. GoodRecord(Vote(local, p))
    BY <1>0, <2>1, VoteGood
  <2>3. Vote(local, p).status \in {"pending", "approved"}
    <3> HIDE DEF local
    <3>1. local \in Record /\ local.status = "pending"
      BY <2>1 DEF GoodRecord, IsPending
    <3>2. QED BY <3>1 DEF Vote, Resolve, Record
  <2>4. QED BY <1>2, <2>1, <2>2, <2>3, WriteKeeps DEF Approve
<1>3. ASSUME NEW r \in Request, Reject(g, r)
      PROVE  \A q \in Request : StepKeeps(g, q)
  <2> DEFINE local == requests[g][r]
  <2>1. GoodRecord(local) /\ IsPending(local)
    BY <1>0, <1>3 DEF Reject, IsPending, IInv, Known, Absent
  <2>2. GoodRecord(Resolve(local, "rejected"))
    BY <1>0, <2>1, ResolveGood
  <2>3. Resolve(local, "rejected").status = "rejected"
    <3> HIDE DEF local
    <3>1. QED BY <2>1 DEF GoodRecord, Resolve, Record
  <2>4. QED BY <1>3, <2>1, <2>2, <2>3, WriteKeeps DEF Reject
<1>4. CASE UNCHANGED vars
  BY <1>4, UntouchedKeeps DEF vars
<1>5. QED
  BY <1>0, <1>1, <1>2, <1>3, <1>4, TooLateKeeps, CheckBeginKeeps, CheckEndKeeps, TickKeeps, RestartKeeps
     DEF Next

\* The mapping of ApprovalGateMC, for one gate.
LEMMA DecisionIsOutcome ==
  ASSUME NEW g, OneGate(g), NEW r \in Request
  PROVE  Decision(r) = Outcome(r \in drawn, requests[g][r], redis[r])
<1>1. /\ requests[g][r] # Absent => Holders(r) = {g}
      /\ requests[g][r] = Absent => Holders(r) = {}
  BY DEF Holders, OneGate
<1>2. CASE requests[g][r] # Absent
  BY <1>1, <1>2 DEF Decision, Outcome
<1>3. CASE requests[g][r] = Absent
  BY <1>1, <1>3 DEF Decision, Outcome
<1>4. QED BY <1>2, <1>3

\* The same of the state a step leads to.
LEMMA DecisionIsOutcomeNext ==
  ASSUME NEW g, OneGate(g), NEW r \in Request
  PROVE  (Decision(r) = Outcome(r \in drawn, requests[g][r], redis[r]))'
<1>1. /\ requests'[g][r] # Absent => Holders(r)' = {g}
      /\ requests'[g][r] = Absent => Holders(r)' = {}
  BY DEF Holders, OneGate
<1>2. CASE requests'[g][r] # Absent
  BY <1>1, <1>2 DEF Decision, Outcome
<1>3. CASE requests'[g][r] = Absent
  BY <1>1, <1>3 DEF Decision, Outcome
<1>4. QED BY <1>2, <1>3

\* What one gate keeps of its records beside the inductive invariant.
LEMMA OneGateInvariant ==
  ASSUME NEW g, OneGate(g)
  PROVE  Spec => [](IInv /\ AllInStep(g))
<1>1. Init => AllInStep(g)
  BY DEF Init, AllInStep, InStep, OneGate
<1>2. IInv /\ AllInStep(g) /\ [Next]_vars => AllInStep(g)'
  <2> SUFFICES ASSUME IInv, AllInStep(g), [Next]_vars PROVE AllInStep(g)'
    OBVIOUS
  <2>1. \A r \in Request : InStep(r \in drawn, useRedis[g], requests[g][r], redis[r])'
    BY OneGateStep DEF StepKeeps
  <2>2. QED BY <2>1 DEF AllInStep
<1>3. QED BY <1>1, <1>2, InitIInv, NextIInv, PTL DEF Spec

\* One gate over a reliable Redis implements the abstract life cycle, for any
\* requests, people, deadlines and TTL, whenever it restarts, with or without its
\* Redis: requests are issued once, leave "pending" once, and no call, restore or
\* expiry turns one decision into another.
THEOREM GateRefinesLifecycle ==
  ASSUME NEW g, OneGate(g)
  PROVE  Spec => RefinesLifecycle
<1> DEFINE decided == [r \in Request |-> Decision(r)]
<1>1. Init => Lifecycle!LifecycleInit
  <2> SUFFICES ASSUME Init PROVE \A r \in Request : Decision(r) = "unissued"
    BY DEF Lifecycle!LifecycleInit
  <2>1. QED BY DEF Init, Decision
<1>2. IInv /\ AllInStep(g) /\ [Next]_vars => [Lifecycle!LifecycleNext]_decided
  <2> SUFFICES ASSUME IInv, AllInStep(g), [Next]_vars
               PROVE  \A r \in Request : Decision(r)' = Decision(r)
                                         \/ <<Decision(r), Decision(r)'>> \in Lifecycle!Legal
    BY DEF Lifecycle!LifecycleNext
  <2> TAKE r \in Request
  <2>1. Decision(r) = Outcome(r \in drawn, requests[g][r], redis[r])
    BY DecisionIsOutcome
  <2>2. (Decision(r) = Outcome(r \in drawn, requests[g][r], redis[r]))'
    BY DecisionIsOutcomeNext
  <2>3. QED BY <2>1, <2>2, OneGateStep DEF StepKeeps, Keeps
<1>3. QED
  BY <1>1, <1>2, OneGateInvariant, PTL DEF Spec, RefinesLifecycle, Lifecycle!LifecycleSpec

\* Under the same conditions the gate itself never goes back on a decision it
\* holds: what check_status restores is as decided as what it replaces.
THEOREM DecisionsAreFinal ==
  ASSUME NEW g, OneGate(g)
  PROVE  Spec => DecisionFinal
<1>1. IInv /\ AllInStep(g) /\ [Next]_vars
      => [\A i \in Instance, r \in Request :
            requests[i][r] # Absent /\ requests[i][r].status \in {"approved", "rejected", "auto_approved"}
            => requests'[i][r] \in {requests[i][r], Absent}]_vars
  BY OneGateStep DEF StepKeeps, Keeps, OneGate
<1>2. QED BY <1>1, OneGateInvariant, PTL DEF Spec, DecisionFinal
=============================================================================
