------------------------ MODULE ApprovalWorkflowProofs -------------------------
(***************************************************************************)
(* The approval workflow for any steps, operations, scopes, people, ids    *)
(* and timeouts, and any callers: polls and resubmissions at any time, or  *)
(* the orderly caller of the module's header.                              *)
(*                                                                         *)
(* StepMatchesGate is not inductive: what makes a verdict last is that the *)
(* gate's records move one way.  Moves says how a record may change in a   *)
(* step, once for all steps of the workflow, people and clock; FlowInv     *)
(* adds to the gate's invariant what ties a step to its record.            *)
(***************************************************************************)
EXTENDS ApprovalWorkflow, ApprovalGateProofs, WellFoundedInduction

\* A request keeps its risk, and once decided it stays as it is.
Moves(old, new) ==
    old # Absent => /\ new # Absent
                    /\ new.risk = old.risk
                    /\ ~IsPending(old) => new = old

\* An approval has a name on it, and only auto-approval approves by itself.
Named(rec) ==
    rec # Absent => /\ rec.status = "approved" => rec.approvedBy # {}
                    /\ rec.status = "auto_approved" => autoApprove

AllNamed == \A r \in Request : Named(requests[Gate][r])

StepsAsk ==
    \A s \in Step :
        stepRequest[s] # NoRequest =>
            /\ stepRequest[s] \in drawn
            /\ RequestOf(s) # Absent
            /\ RequestOf(s).risk = Label(level[s])

StepsClassified ==
    IF state = "none"
    THEN waiter = "idle" /\ \A s \in Step : stepState[s] = "init" /\ stepRequest[s] = NoRequest
    ELSE \A s \in Step : level[s] = Classify(operation[s].text, operation[s].scope)

\* StepMatchesGate, with a request for every rejected step.
Verdicts ==
    \A s \in Step :
        /\ stepState[s] = "approved" /\ RequiresApproval(level[s])
           => /\ stepRequest[s] \in Request
              /\ RequestOf(s).status \in {"approved", "auto_approved"}
        /\ stepState[s] = "rejected"
           => /\ stepRequest[s] \in Request
              /\ RequestOf(s).status \in {"rejected", "timeout"}

\* Before and while an orderly caller waits, every step is approved or open.
OrderlyFlow ==
    orderly =>
        /\ waiter = "waiting" => state \in {"awaiting_approval", "approved"}
        /\ waiter \in {"approved", "rejected"} => state = waiter
        /\ state = "awaiting_approval" => \A s \in Step : stepState[s] = "approved" \/ s \in Awaiting
        /\ state = "approved" => \A s \in Step : stepState[s] = "approved"

FlowInv ==
    /\ IInv
    /\ WorkflowTypeOK
    /\ AllNamed
    /\ StepsAsk
    /\ StepsClassified
    /\ Verdicts
    /\ OrderlyFlow

-----------------------------------------------------------------------------
(***************************************************************************)
(* The classifier.                                                         *)
(***************************************************************************)
\* Every set of numbers that is not empty has a least one.
LEMMA LeastNumber ==
  ASSUME NEW T \in SUBSET Nat, T # {} PROVE \E n \in T : \A m \in T : n <= m
<1> DEFINE Less == {ss \in Nat \X Nat : ss[1] < ss[2]}
<1>1. Less = OpToRel(<, Nat)
  BY Zenon DEF OpToRel
<1>2. IsWellFoundedOn(Less, Nat)
  BY <1>1, NatLessThanWellFounded
<1>3. PICK n \in T : \A m \in T : <<m, n>> \notin Less
  <2> HIDE DEF Less
  <2> QED BY <1>2, WFMin
<1>4. \A m \in T : n <= m
  <2> SUFFICES ASSUME NEW m \in T, m < n PROVE FALSE
    OBVIOUS
  <2>1. <<m, n>> \in Less
    OBVIOUS
  <2>2. QED BY <1>3, <2>1
<1>5. QED BY <1>4

LEMMA HighestLevel ==
  ASSUME NEW L \in SUBSET Level, L # {}
  PROVE  \E l \in L : \A m \in L : m <= l
<1> DEFINE T == {4 - l : l \in L}
<1>0. L # {} /\ \A l \in L : l \in 0..4
  BY DEF Level
<1>1. T \in SUBSET Nat /\ T # {}
  BY <1>0
<1>2. PICK n \in T : \A m \in T : n <= m
  <2> HIDE DEF T
  <2> QED BY <1>1, LeastNumber
<1>3. PICK l \in L : n = 4 - l
  OBVIOUS
<1>4. ASSUME NEW m \in L PROVE m <= l
  <2>1. n <= 4 - m
    BY <1>2
  <2>2. QED BY <1>0, <1>3, <2>1
<1>5. QED BY <1>4

LEMMA MapLevelTyped == ASSUME NEW text PROVE MapLevel(text) \in Level
<1> DEFINE hits == {k \in DOMAIN OperationRiskMap : OperationRiskMap[k][1] \in text}
<1>1. DOMAIN OperationRiskMap = 1..22
  BY DEF OperationRiskMap
<1>2. \A k \in 1..22 : OperationRiskMap[k][2] \in Level
  BY DEF OperationRiskMap, Level
<1>3. CASE hits = {}
  BY <1>3 DEF MapLevel, Level
<1>4. CASE hits # {}
  <2>1. hits \in SUBSET Nat
    BY <1>1
  <2>2. \E k \in hits : \A l \in hits : k <= l
    <3> HIDE DEF hits
    <3> QED BY <1>4, <2>1, LeastNumber
  <2>3. MapLevel(text) = OperationRiskMap[CHOOSE k \in hits : \A l \in hits : k <= l][2]
    BY <1>4 DEF MapLevel
  <2>4. (CHOOSE k \in hits : \A l \in hits : k <= l) \in 1..22
    BY <1>1, <2>2
  <2>5. QED BY <1>2, <2>3, <2>4
<1>5. QED BY <1>3, <1>4

\* "migrate" is the last key of the map: alone it decides, and is critical.
LEMMA MigrationLevel ==
  ASSUME NEW text, NamesOnly(text, "migrate") PROVE MapLevel(text) = 4
<1> DEFINE hits == {k \in DOMAIN OperationRiskMap : OperationRiskMap[k][1] \in text}
<1>1. /\ DOMAIN OperationRiskMap = 1..22
      /\ OperationRiskMap[22] = <<"migrate", 4>>
      /\ \A k \in 1..21 : OperationRiskMap[k][1] # "migrate"
  BY DEF OperationRiskMap
<1>2. text \cap {OperationRiskMap[k][1] : k \in 1..22} = {"migrate"}
  BY <1>1 DEF NamesOnly, MapKey
<1>3. 22 \in hits
  BY <1>1, <1>2
<1>4. \A k \in hits : k = 22
  <2> SUFFICES ASSUME NEW k \in hits PROVE k = 22
    OBVIOUS
  <2>1. k \in 1..22 /\ OperationRiskMap[k][1] \in text
    BY <1>1
  <2>2. OperationRiskMap[k][1] = "migrate"
    BY <1>2, <2>1
  <2>3. QED BY <1>1, <2>1, <2>2
<1>5. hits = {22}
  BY <1>3, <1>4
<1>6. (CHOOSE k \in hits : \A l \in hits : k <= l) = 22
  <2> HIDE DEF hits
  <2> QED BY <1>5
<1>7. MapLevel(text) = OperationRiskMap[CHOOSE k \in hits : \A l \in hits : k <= l][2]
  BY <1>5 DEF MapLevel
<1>8. MapLevel(text) = OperationRiskMap[22][2]
  <2> HIDE DEF hits
  <2> QED BY <1>6, <1>7, Zenon
<1>9. OperationRiskMap[22][2] = 4
  BY <1>1
<1>10. QED BY <1>8, <1>9

\* The level is at least that of every pattern the text contains, and that of
\* the map.
LEMMA BaseLevelBounds ==
  ASSUME NEW text
  PROVE  /\ BaseLevel(text) \in Level
         /\ NamesCritical(text) => BaseLevel(text) >= 4
         /\ text \cap HighPattern # {} => BaseLevel(text) >= 3
<1> DEFINE levels == {MapLevel(text)} \cup {pair[2] : pair \in {q \in HighRiskPatterns : q[1] \in text}}
<1>1. levels \in SUBSET Level /\ levels # {}
  BY MapLevelTyped DEF HighRiskPatterns, Level
<1>2. /\ NamesCritical(text) => 4 \in levels
      /\ text \cap HighPattern # {} => 3 \in levels
  <2>1. \A w \in CriticalPattern : <<w, 4>> \in HighRiskPatterns
    BY DEF CriticalPattern, HighRiskPatterns
  <2>2. \A w \in HighPattern : <<w, 3>> \in HighRiskPatterns
    BY DEF HighPattern, HighRiskPatterns
  <2>3. \A w, l : w \in text /\ <<w, l>> \in HighRiskPatterns => l \in levels
    <3> SUFFICES ASSUME NEW w, NEW l, w \in text, <<w, l>> \in HighRiskPatterns PROVE l \in levels
      OBVIOUS
    <3>1. <<w, l>> \in {q \in HighRiskPatterns : q[1] \in text} /\ <<w, l>>[2] = l
      OBVIOUS
    <3>2. QED BY <3>1
  <2>4. NamesOnly(text, "migrate") => 4 \in levels
    BY MigrationLevel
  <2> HIDE DEF levels
  <2>5. QED BY <2>1, <2>2, <2>3, <2>4 DEF NamesCritical
<1>3. BaseLevel(text) = CHOOSE l \in levels : \A m \in levels : m <= l
  BY DEF BaseLevel
<1> HIDE DEF levels
<1>4. BaseLevel(text) \in levels /\ \A m \in levels : m <= BaseLevel(text)
  BY <1>1, <1>3, HighestLevel
<1>5. QED BY <1>1, <1>2, <1>4

\* Raising a level gives a higher one, or no level at all.
LEMMA RaiseIfBounds ==
  ASSUME NEW condition, NEW l \in Level \cup {ValueError}
  PROVE  /\ RaiseIf(condition, l) \in Level \cup {ValueError}
         /\ RaiseIf(condition, l) # ValueError => l # ValueError /\ RaiseIf(condition, l) >= l
BY DEF RaiseIf, Raise, Level, ValueError

LEMMA ClassifyBounds ==
  ASSUME NEW text, NEW scope
  PROVE  /\ Classify(text, scope) \in Level \cup {ValueError}
         /\ Classify(text, scope) # ValueError =>
              /\ NamesCritical(text) => Classify(text, scope) = 4
              /\ text \cap HighPattern # {} => Classify(text, scope) >= 3
<1> DEFINE base       == BaseLevel(text)
           components == RaiseIf(scope.manyComponents, base)
           nodes      == RaiseIf(scope.manyNodes, components)
           hours      == RaiseIf(scope.businessHours /\ nodes >= Medium, nodes)
           c          == RaiseIf(scope.oftenFails /\ hours >= 1, hours)
<1>1. Classify(text, scope) = c
  BY DEF Classify
<1>2. base \in Level
  BY BaseLevelBounds
<1> HIDE DEF base
<1>3. components \in Level \cup {ValueError} /\ (components # ValueError => components >= base)
  BY <1>2, RaiseIfBounds
<1> HIDE DEF components
<1>4. /\ nodes \in Level \cup {ValueError}
      /\ nodes # ValueError => components # ValueError /\ nodes >= components
  BY <1>3, RaiseIfBounds
<1> HIDE DEF nodes
<1>5. /\ hours \in Level \cup {ValueError}
      /\ hours # ValueError => nodes # ValueError /\ hours >= nodes
  BY <1>4, RaiseIfBounds
<1> HIDE DEF hours
<1>6. /\ c \in Level \cup {ValueError}
      /\ c # ValueError => hours # ValueError /\ c >= hours
  BY <1>5, RaiseIfBounds
<1> HIDE DEF c
<1>7. c # ValueError => c \in Level /\ c >= base
  BY <1>2, <1>3, <1>4, <1>5, <1>6 DEF Level
<1>8. QED BY <1>1, <1>6, <1>7, BaseLevelBounds DEF base, Level

-----------------------------------------------------------------------------
(***************************************************************************)
(* What the workflow does to the gate.                                     *)
(***************************************************************************)
LEMMA GateIsInstance == Gate \in Instance
BY WorkflowAssumption DEF Gate

\* A label that asks for approval is a risk of the gate.
LEMMA LabelIsRisk ==
  ASSUME NEW l \in Level, RequiresApproval(l)
  PROVE  Label(l) \in Risk /\ (l = 4 => Label(l) = "critical")
<1>1. l \in {2, 3, 4}
  BY DEF Level, RequiresApproval, Medium
<1>2. Label(l) \in {"medium", "high", "critical"} /\ (l = 4 => Label(l) = "critical")
  BY <1>1 DEF Label
<1>3. QED BY <1>2, WorkflowAssumption

LEMMA CheckedMoves ==
  ASSUME TypeOK, NEW rec, Known(rec), Named(rec)
  PROVE  /\ Known(Checked(rec)) /\ Named(Checked(rec)) /\ Moves(rec, Checked(rec))
         /\ IsPending(rec) \/ Checked(rec) = rec
<1>1. CASE IsTimedOut(rec)
  <2>1. GoodRecord(rec) /\ IsPending(rec) /\ Checked(rec) = Resolve(rec, "timeout")
    BY <1>1 DEF IsTimedOut, IsPending, Known, Absent, Checked
  <2>2. GoodRecord(Resolve(rec, "timeout"))
    BY <2>1, ResolveGood
  <2>3. /\ Resolve(rec, "timeout").status = "timeout"
        /\ Resolve(rec, "timeout").risk = rec.risk
    BY <2>1 DEF Resolve, GoodRecord, Record
  <2>4. Resolve(rec, "timeout") # Absent
    BY <2>3 DEF Absent
  <2>5. QED BY <2>1, <2>2, <2>3, <2>4 DEF Known, Named, Moves
<1>2. CASE ~IsTimedOut(rec)
  BY <1>2 DEF Checked, Moves
<1>3. QED BY <1>1, <1>2

\* A request may only move on: it is what the gate holds for an id after a step.
MovesOn(r) ==
    /\ Known(requests'[Gate][r])
    /\ Named(requests[Gate][r]) => Named(requests'[Gate][r])
    /\ Moves(requests[Gate][r], requests'[Gate][r])

LEMMA VotesMoveOn ==
  ASSUME IInv, AllNamed, HumanDecision
  PROVE  UNCHANGED <<drawn, now, autoApprove>> /\ \A r \in Request : MovesOn(r)
<1> USE GateIsInstance
<1>0. TypeOK
  BY DEF IInv
<1>1. PICK r \in Request : \/ \E p \in Person : Approve(Gate, r, p)
                           \/ ApproveTooLate(Gate, r)
                           \/ Reject(Gate, r)
  BY DEF HumanDecision
<1> DEFINE old == requests[Gate][r]
<1>2. GoodRecord(old) /\ IsPending(old) /\ old # Absent
  BY <1>1 DEF Approve, ApproveTooLate, Reject, IsTimedOut, IsPending, IInv, Known, Absent
<1>3. UNCHANGED <<drawn, now, autoApprove>>
  BY <1>1 DEF Approve, ApproveTooLate, Reject
<1>4. PICK new : /\ requests' = [requests EXCEPT ![Gate][r] = new]
                 /\ GoodRecord(new) /\ new.risk = old.risk
                 /\ new.status \in {"pending", "approved", "rejected", "timeout"}
                 /\ new.status = "approved" => new.approvedBy # {}
  <2>1. ASSUME NEW p \in Person, Approve(Gate, r, p)
        PROVE  /\ requests' = [requests EXCEPT ![Gate][r] = Vote(old, p)]
               /\ GoodRecord(Vote(old, p)) /\ Vote(old, p).risk = old.risk
               /\ Vote(old, p).status \in {"pending", "approved", "rejected", "timeout"}
               /\ Vote(old, p).status = "approved" => Vote(old, p).approvedBy # {}
    <3>1. requests' = [requests EXCEPT ![Gate][r] = Vote(old, p)] /\ ~IsTimedOut(old)
      BY <2>1 DEF Approve, SetRequest
    <3>2. GoodRecord(Vote(old, p))
      BY <1>0, <1>2, <3>1, VoteGood
    <3>3. /\ Vote(old, p).risk = old.risk /\ p \in Vote(old, p).approvedBy
          /\ Vote(old, p).status \in {"pending", "approved"}
      <4> HIDE DEF old
      <4>1. old \in Record /\ old.status = "pending"
        BY <1>2 DEF GoodRecord, IsPending
      <4>2. QED BY <4>1 DEF Vote, Resolve, Record
    <3>4. QED BY <3>1, <3>2, <3>3
  <2>2. ASSUME NEW status \in {"timeout", "rejected"}, SetRequest(Gate, r, Resolve(old, status))
        PROVE  /\ requests' = [requests EXCEPT ![Gate][r] = Resolve(old, status)]
               /\ GoodRecord(Resolve(old, status)) /\ Resolve(old, status).risk = old.risk
               /\ Resolve(old, status).status \in {"timeout", "rejected"}
    <3>1. GoodRecord(Resolve(old, status))
      BY <1>0, <1>2, ResolveGood
    <3>2. Resolve(old, status).risk = old.risk /\ Resolve(old, status).status = status
      <4> HIDE DEF old
      <4>1. QED BY <1>2 DEF GoodRecord, Resolve, Record
    <3>3. QED BY <2>2, <3>1, <3>2 DEF SetRequest
  <2>3. CASE \E p \in Person : Approve(Gate, r, p)
    BY <2>1, <2>3
  <2>4. CASE ApproveTooLate(Gate, r) \/ Reject(Gate, r)
    <3>1. \E status \in {"timeout", "rejected"} : SetRequest(Gate, r, Resolve(old, status))
      BY <2>4 DEF ApproveTooLate, Reject
    <3>2. QED BY <2>2, <3>1
  <2>5. QED BY <1>1, <2>3, <2>4
<1>5. new # Absent
  BY <1>4 DEF Absent
<1>6. /\ requests'[Gate][r] = new
      /\ \A q \in Request : q # r => requests'[Gate][q] = requests[Gate][q]
  BY <1>0, <1>4 DEF TypeOK
<1>7. ASSUME NEW q \in Request PROVE MovesOn(q)
  <2>1. CASE q = r
    BY <1>2, <1>4, <1>5, <1>6, <2>1 DEF MovesOn, Known, Named, Moves
  <2>2. CASE q # r
    BY <1>3, <1>6, <2>2 DEF MovesOn, IInv, Named, Moves
  <2>3. QED BY <2>1, <2>2
<1>8. QED BY <1>3, <1>7

LEMMA PollMovesOn ==
  ASSUME IInv, AllNamed, PollSteps, UNCHANGED <<useRedis, redis, expires, now, checking, drawn, autoApprove>>
  PROVE  /\ IInv' /\ \A r \in Request : MovesOn(r)
         /\ \A s \in Awaiting : stepRequest[s] \in Request =>
               requests'[Gate][stepRequest[s]] = Checked(RequestOf(s))
<1> USE GateIsInstance
<1>0. TypeOK
  BY DEF IInv
<1> DEFINE polled == {stepRequest[s] : s \in Awaiting}
<1>1. requests' = [requests EXCEPT ![Gate] =
        [r \in Request |-> IF r \in polled THEN Checked(@[r]) ELSE @[r]]]
  BY DEF PollSteps
<1>2. /\ requests' = [i \in Instance |-> requests'[i]]
      /\ requests'[Gate] = [r \in Request |->
            IF r \in polled THEN Checked(requests[Gate][r]) ELSE requests[Gate][r]]
      /\ \A i \in Instance : i # Gate => requests'[i] = requests[i]
  BY <1>0, <1>1 DEF TypeOK
<1> HIDE DEF polled
<1>3. ASSUME NEW r \in Request PROVE MovesOn(r)
  <2>1. Known(requests[Gate][r]) /\ Named(requests[Gate][r])
    BY DEF IInv, AllNamed
  <2>2. CASE r \in polled
    <3>1. requests'[Gate][r] = Checked(requests[Gate][r])
      BY <1>2, <2>2
    <3>2. Named(Checked(requests[Gate][r])) => Named(requests'[Gate][r])
      BY <3>1 DEF Named
    <3>3. QED BY <1>0, <2>1, <3>1, <3>2, CheckedMoves DEF MovesOn
  <2>3. CASE r \notin polled
    <3>1. requests'[Gate][r] = requests[Gate][r]
      BY <1>2, <2>3
    <3>2. QED BY <2>1, <3>1 DEF MovesOn, Named, Moves
  <2>4. QED BY <2>2, <2>3
<1>4. IInv'
  <2>1. \A i \in Instance, r \in Request : Known(requests'[i][r])
    BY <1>2, <1>3 DEF MovesOn, IInv
  <2>2. \A rec : Known(rec) => rec \in Record \cup {Absent}
    BY DEF Known, GoodRecord
  <2>3. requests' \in [Instance -> [Request -> Record \cup {Absent}]]
    <3>1. \A i \in Instance : requests'[i] = [r \in Request |-> requests'[i][r]]
      BY <1>0, <1>2 DEF TypeOK
    <3>2. QED BY <1>2, <2>1, <2>2, <3>1
  <2>4. QED BY <2>1, <2>3 DEF IInv, TypeOK, Known
<1>5. \A s \in Awaiting : stepRequest[s] \in Request =>
         requests'[Gate][stepRequest[s]] = Checked(RequestOf(s))
  BY <1>2 DEF polled, RequestOf
<1>6. QED BY <1>3, <1>4, <1>5

\* The steps that ask get a request of their own, under an id nobody has used.
Asking == {s \in Step : NeedsRequest(s)}

LEMMA SubmitMovesOn ==
  ASSUME IInv, WorkflowTypeOK, AllNamed, StepsAsk, SubmitForApproval
  PROVE  /\ IInv' /\ \A r \in drawn : MovesOn(r)
         /\ drawn \subseteq drawn'
         /\ \A r \in Request : Named(requests[Gate][r]) => Named(requests'[Gate][r])
         /\ \A s \in Step \ Asking : stepRequest'[s] = stepRequest[s]
         /\ \A s \in Asking :
               /\ stepRequest'[s] \in Request /\ stepRequest'[s] \in drawn'
               /\ requests'[Gate][stepRequest'[s]] # Absent
               /\ requests'[Gate][stepRequest'[s]].risk = Label(level[s])
<1> USE GateIsInstance
<1>0. TypeOK
  BY DEF IInv
<1> DEFINE ids == CHOOSE f \in FreshIds(Asking) : TRUE
           new(s) == NewRequest(Label(level[s]), SuggestedTimeout[level[s]])
           asker(r) == CHOOSE s \in Asking : ids[s] = r
<1>1. ids \in [Asking -> Request \ drawn] /\ \A s, t \in Asking : ids[s] = ids[t] => s = t
  <2>1. FreshIds(Asking) # {}
    BY DEF SubmitForApproval, Asking
  <2>2. ids \in FreshIds(Asking)
    BY <2>1
  <2> HIDE DEF ids
  <2>3. QED BY <2>2 DEF FreshIds, Injection, IsInjective
<1>2. /\ requests' = [requests EXCEPT ![Gate] =
           [r \in Request |-> IF \E s \in Asking : ids[s] = r THEN new(asker(r)) ELSE @[r]]]
      /\ drawn' = drawn \cup {ids[s] : s \in Asking}
      /\ stepRequest' = [s \in Step |-> IF s \in Asking THEN ids[s] ELSE stepRequest[s]]
      /\ UNCHANGED <<useRedis, redis, expires, now, checking, autoApprove>>
  BY DEF SubmitForApproval, Asking
<1> HIDE DEF ids
<1>3. \A s \in Asking : asker(ids[s]) = s
  BY <1>1
<1>4. ASSUME NEW s \in Asking
      PROVE  /\ GoodRecord(new(s)) /\ Named(new(s)) /\ new(s) # Absent
             /\ new(s).risk = Label(level[s])
  <2>1. level[s] \in Level /\ RequiresApproval(level[s])
    BY DEF Asking, NeedsRequest, WorkflowTypeOK
  <2>2. Label(level[s]) \in Risk /\ SuggestedTimeout[level[s]] \in CallerTimeout
    BY <2>1, LabelIsRisk, WorkflowAssumption
  <2>3. GoodRecord(new(s))
    BY <1>0, <2>2, NewRequestGood
  <2>4. /\ new(s).risk = Label(level[s])
        /\ new(s).status = IF autoApprove THEN "auto_approved" ELSE "pending"
    BY DEF NewRequest
  <2>5. Named(new(s)) /\ new(s) # Absent
    BY <2>4 DEF Named, Absent
  <2>6. QED BY <2>3, <2>4, <2>5
<1>5. /\ requests' = [i \in Instance |-> requests'[i]]
      /\ \A i \in Instance : i # Gate => requests'[i] = requests[i]
      /\ requests'[Gate] = [r \in Request |->
            IF \E s \in Asking : ids[s] = r THEN new(asker(r)) ELSE requests[Gate][r]]
  <2> HIDE DEF new, asker
  <2>1. QED BY <1>0, <1>2 DEF TypeOK
<1>6. /\ \A s \in Asking : requests'[Gate][ids[s]] = new(s)
      /\ \A r \in Request : \/ requests'[Gate][r] = requests[Gate][r]
                            \/ \E s \in Asking : ids[s] = r /\ requests'[Gate][r] = new(s)
  <2> HIDE DEF new
  <2>1. \A s \in Asking : ids[s] \in Request
    BY <1>1
  <2>2. \A r \in Request : requests'[Gate][r] =
            IF \E s \in Asking : ids[s] = r THEN new(asker(r)) ELSE requests[Gate][r]
    BY <1>5
  <2> HIDE DEF asker
  <2>3. \A s \in Asking : requests'[Gate][ids[s]] = new(s)
    BY <1>3, <2>1, <2>2
  <2>4. QED BY <2>2, <2>3
<1> HIDE DEF new, asker
<1>7. \A r \in Request : /\ Known(requests'[Gate][r])
                         /\ Named(requests[Gate][r]) => Named(requests'[Gate][r])
  <2> SUFFICES ASSUME NEW r \in Request
               PROVE  /\ Known(requests'[Gate][r])
                      /\ Named(requests[Gate][r]) => Named(requests'[Gate][r])
    OBVIOUS
  <2>1. CASE requests'[Gate][r] = requests[Gate][r]
    BY <2>1 DEF IInv, Named
  <2>2. ASSUME NEW s \in Asking, requests'[Gate][r] = new(s)
        PROVE  Known(requests'[Gate][r]) /\ Named(requests'[Gate][r])
    BY <1>4, <2>2 DEF Known, Named
  <2>3. QED BY <1>6, <2>1, <2>2
<1>8. ASSUME NEW r \in drawn PROVE MovesOn(r)
  <2>1. r \in Request
    BY <1>0 DEF TypeOK
  <2>2. requests'[Gate][r] = requests[Gate][r]
    BY <1>1, <1>6, <2>1
  <2>3. QED BY <1>7, <2>1, <2>2 DEF MovesOn, Moves
<1>9. IInv'
  <2>1. \A i \in Instance, r \in Request : Known(requests'[i][r])
    BY <1>5, <1>7 DEF IInv
  <2>2. \A rec : Known(rec) => rec \in Record \cup {Absent}
    BY DEF Known, GoodRecord
  <2>3. requests' \in [Instance -> [Request -> Record \cup {Absent}]]
    <3>1. \A i \in Instance : requests'[i] = [r \in Request |-> requests'[i][r]]
      BY <1>0, <1>5 DEF TypeOK
    <3>2. QED BY <1>5, <2>1, <2>2, <3>1
  <2>4. drawn' \subseteq Request
    BY <1>0, <1>1, <1>2 DEF TypeOK
  <2>5. QED BY <1>2, <2>1, <2>3, <2>4 DEF IInv, TypeOK, Known
<1>10. \A s \in Asking : /\ stepRequest'[s] = ids[s] /\ ids[s] \in Request /\ ids[s] \in drawn'
  BY <1>1, <1>2 DEF Asking
<1>11. \A s \in Step \ Asking : stepRequest'[s] = stepRequest[s]
  BY <1>2
<1>12. \A s \in Asking : /\ requests'[Gate][stepRequest'[s]] # Absent
                         /\ requests'[Gate][stepRequest'[s]].risk = Label(level[s])
  BY <1>4, <1>6, <1>10
<1>13. drawn \subseteq drawn'
  BY <1>2
<1>14. QED BY <1>7, <1>8, <1>9, <1>10, <1>11, <1>12, <1>13

-----------------------------------------------------------------------------
LEMMA InitFlow == WorkflowInit => FlowInv
<1> SUFFICES ASSUME WorkflowInit PROVE FlowInv
  OBVIOUS
<1>1. IInv
  BY InitIInv DEF WorkflowInit
<1>2. requests[Gate] = [r \in Request |-> Absent]
  BY GateIsInstance DEF WorkflowInit, Init
<1>3. WorkflowTypeOK
  BY <1>1 DEF WorkflowInit, WorkflowTypeOK, IInv, FlowState, Level
<1>4. AllNamed /\ StepsAsk /\ StepsClassified /\ Verdicts /\ OrderlyFlow
  BY <1>2 DEF WorkflowInit, AllNamed, Named, StepsAsk, StepsClassified, Verdicts, OrderlyFlow
<1>5. QED BY <1>1, <1>3, <1>4 DEF FlowInv

\* The steps of the workflow that leave its own fields alone, or only the waiter's.
Elsewhere ==
    /\ UNCHANGED <<operation, level, stepState, stepRequest, orderly>>
    /\ drawn' = drawn

Polls == /\ PollSteps
         /\ UNCHANGED <<useRedis, redis, expires, now, checking, drawn, autoApprove,
                        operation, level, stepRequest, orderly>>

LEMMA FlowCases ==
  ASSUME [WorkflowNext]_allVars
  PROVE  \/ \E ops \in [Step -> [text : Operation, scope : OperationScope]] : CreateWorkflow(ops)
         \/ SubmitForApproval
         \/ CheckApprovalStatus /\ Polls
         \/ WaitPoll /\ Polls
         \/ WaitBegin /\ Elsewhere /\ UNCHANGED <<vars, state>>
         \/ WaitTimeout /\ Elsewhere /\ UNCHANGED vars
         \/ HumanDecision /\ Elsewhere /\ UNCHANGED <<state, waiter, waitStart>>
         \/ Tick /\ Elsewhere /\ UNCHANGED <<requests, autoApprove, state, waiter, waitStart>>
         \/ Elsewhere /\ UNCHANGED <<vars, state, waiter, waitStart>>
<1>1. CASE CheckApprovalStatus \/ WaitPoll
  BY <1>1 DEF CheckApprovalStatus, WaitPoll, Polls
<1>2. CASE WaitBegin \/ WaitTimeout
  BY <1>2 DEF WaitBegin, WaitTimeout, Elsewhere, vars
<1>3. CASE HumanDecision
  <2>1. drawn' = drawn
    BY <1>3 DEF HumanDecision, Approve, ApproveTooLate, Reject
  <2>2. QED BY <1>3, <2>1 DEF HumanDecision, Elsewhere, flow
<1>4. CASE ClockTick
  BY <1>4 DEF ClockTick, Tick, Elsewhere, flow
<1>5. CASE UNCHANGED allVars
  BY <1>5 DEF allVars, vars, flow, Elsewhere
<1>6. QED BY <1>1, <1>2, <1>3, <1>4, <1>5 DEF WorkflowNext

\* The gate's invariant lasts, and its requests only move on.
LEMMA GateStep ==
  ASSUME FlowInv, [WorkflowNext]_allVars
  PROVE  /\ IInv' /\ AllNamed' /\ drawn \subseteq drawn' /\ autoApprove' = autoApprove
         /\ \A r \in drawn : MovesOn(r)
<1> USE GateIsInstance
<1>0. /\ IInv /\ WorkflowTypeOK /\ AllNamed /\ StepsAsk /\ TypeOK
      /\ drawn \subseteq Request
  BY DEF FlowInv, IInv, TypeOK
<1>1. ASSUME AllNamed, autoApprove' = autoApprove,
             \A r \in Request : Named(requests[Gate][r]) => Named(requests'[Gate][r])
      PROVE  AllNamed'
  BY <1>1 DEF AllNamed, Named
<1>2. CASE SubmitForApproval
  <2>1. autoApprove' = autoApprove
    BY <1>2 DEF SubmitForApproval
  <2>2. QED BY <1>0, <1>1, <1>2, <2>1, SubmitMovesOn
<1>3. CASE Polls
  <2>1. PollSteps /\ UNCHANGED <<useRedis, redis, expires, now, checking, drawn, autoApprove>>
    BY <1>3 DEF Polls
  <2>2. IInv' /\ \A r \in Request : MovesOn(r)
    BY <1>0, <2>1, PollMovesOn
  <2>3. AllNamed'
    BY <1>0, <1>1, <2>1, <2>2 DEF MovesOn
  <2>4. QED BY <1>0, <2>1, <2>2, <2>3
<1>4. CASE HumanDecision
  <2>1. Next
    BY <1>4 DEF HumanDecision, Next
  <2>2. IInv'
    BY <1>0, <2>1, NextIInv
  <2>3. UNCHANGED <<drawn, autoApprove>> /\ \A r \in Request : MovesOn(r)
    BY <1>0, <1>4, VotesMoveOn
  <2>4. AllNamed'
    BY <1>0, <1>1, <2>3 DEF MovesOn
  <2>5. QED BY <1>0, <2>2, <2>3, <2>4
<1>5. CASE requests' = requests /\ drawn' = drawn /\ autoApprove' = autoApprove /\ (Tick \/ UNCHANGED vars)
  <2>1. IInv'
    BY <1>0, <1>5, NextIInv DEF Next
  <2>2. \A r \in Request : MovesOn(r)
    BY <1>0, <1>5 DEF MovesOn, IInv, Moves, Named
  <2>3. AllNamed'
    BY <1>0, <1>1, <1>5, <2>2 DEF MovesOn
  <2>4. QED BY <1>0, <1>5, <2>1, <2>2, <2>3
<1>6. CASE \E ops \in [Step -> [text : Operation, scope : OperationScope]] : CreateWorkflow(ops)
  BY <1>5, <1>6 DEF CreateWorkflow, vars
<1>7. CASE Elsewhere /\ UNCHANGED vars
  BY <1>5, <1>7 DEF vars
<1>8. CASE Tick /\ Elsewhere /\ UNCHANGED <<requests, autoApprove>>
  BY <1>5, <1>8 DEF Elsewhere
<1>9. QED
  BY <1>2, <1>3, <1>4, <1>6, <1>7, <1>8, FlowCases

LEMMA TypeStep == ASSUME FlowInv, [WorkflowNext]_allVars PROVE WorkflowTypeOK'
<1>0. WorkflowTypeOK /\ TypeOK' /\ TypeOK
  BY GateStep DEF FlowInv, IInv
<1>1. CASE \E ops \in [Step -> [text : Operation, scope : OperationScope]] : CreateWorkflow(ops)
  <2>1. PICK ops \in [Step -> [text : Operation, scope : OperationScope]] : CreateWorkflow(ops)
    BY <1>1
  <2>2. \A s \in Step : Classify(ops[s].text, ops[s].scope) \in Level
    BY <2>1, ClassifyBounds DEF CreateWorkflow
  <2>3. QED BY <1>0, <2>1, <2>2 DEF CreateWorkflow, WorkflowTypeOK, FlowState
<1>2. CASE SubmitForApproval
  <2>1. \A s \in Step : stepRequest'[s] \in Request \cup {NoRequest}
    BY <1>0, <1>2, SubmitMovesOn DEF FlowInv, WorkflowTypeOK
  <2>2. stepRequest' = [s \in Step |-> stepRequest'[s]]
    BY <1>2 DEF SubmitForApproval
  <2>3. stepRequest' \in [Step -> Request \cup {NoRequest}]
    BY <2>1, <2>2
  <2>4. stepState' \in [Step -> FlowState] /\ state' \in FlowState
    BY <1>2 DEF SubmitForApproval, FlowState
  <2>5. UNCHANGED <<level, waiter, waitStart, orderly>>
    BY <1>2 DEF SubmitForApproval
  <2>6. QED BY <1>0, <2>3, <2>4, <2>5 DEF WorkflowTypeOK
<1>3. CASE Polls /\ (CheckApprovalStatus \/ WaitPoll)
  <2>1. stepState' \in [Step -> FlowState]
    BY <1>0, <1>3 DEF Polls, PollSteps, StepStateFor, WorkflowTypeOK, FlowState
  <2>2. state' \in FlowState \cup {"none"}
    BY <1>0, <1>3 DEF Polls, PollSteps, StateAfter, WorkflowTypeOK, FlowState
  <2>3. waiter' \in {"idle", "waiting", "approved", "rejected"} /\ waitStart' = waitStart
    BY <1>0, <1>3 DEF CheckApprovalStatus, WaitPoll, WorkflowTypeOK
  <2>4. QED BY <1>0, <1>3, <2>1, <2>2, <2>3 DEF Polls, WorkflowTypeOK
<1>4. CASE WaitBegin \/ WaitTimeout
  BY <1>0, <1>4 DEF WaitBegin, WaitTimeout, WorkflowTypeOK, FlowState, TypeOK
<1>5. CASE Elsewhere /\ UNCHANGED <<state, waiter, waitStart>>
  BY <1>0, <1>5 DEF Elsewhere, WorkflowTypeOK
<1>6. QED BY <1>1, <1>2, <1>3, <1>4, <1>5, FlowCases

LEMMA AskStep == ASSUME FlowInv, [WorkflowNext]_allVars PROVE StepsAsk' /\ StepsClassified'
<1>0. /\ IInv /\ WorkflowTypeOK /\ AllNamed /\ StepsAsk /\ StepsClassified
      /\ drawn \subseteq Request /\ NoRequest \notin Request
  BY WorkflowAssumption DEF FlowInv, IInv, TypeOK
<1>1. drawn \subseteq drawn' /\ \A r \in drawn : Moves(requests[Gate][r], requests'[Gate][r])
  BY GateStep DEF MovesOn
<1>2. ASSUME NEW s \in Step, stepRequest'[s] = stepRequest[s], level' = level, stepRequest[s] # NoRequest
      PROVE  /\ stepRequest'[s] \in drawn'
             /\ requests'[Gate][stepRequest'[s]] # Absent
             /\ requests'[Gate][stepRequest'[s]].risk = Label(level'[s])
  BY <1>0, <1>1, <1>2 DEF StepsAsk, RequestOf, Moves
<1>3. CASE \E ops \in [Step -> [text : Operation, scope : OperationScope]] : CreateWorkflow(ops)
  <2>1. PICK ops \in [Step -> [text : Operation, scope : OperationScope]] : CreateWorkflow(ops)
    BY <1>3
  <2>2. \A s \in Step : stepRequest'[s] = NoRequest
    BY <1>0, <2>1 DEF CreateWorkflow, StepsClassified
  <2>3. QED BY <2>1, <2>2 DEF CreateWorkflow, StepsAsk, StepsClassified
<1>4. CASE SubmitForApproval
  <2>1. UNCHANGED <<level, operation>> /\ state # "none" /\ state' # "none"
    BY <1>4 DEF SubmitForApproval
  <2>2. StepsClassified'
    BY <1>0, <2>1 DEF StepsClassified
  <2>3. ASSUME NEW s \in Step, stepRequest'[s] # NoRequest
        PROVE  /\ stepRequest'[s] \in drawn'
               /\ requests'[Gate][stepRequest'[s]] # Absent
               /\ requests'[Gate][stepRequest'[s]].risk = Label(level'[s])
    <3>1. CASE s \in Asking
      BY <1>0, <1>4, <2>1, <3>1, SubmitMovesOn
    <3>2. CASE s \notin Asking
      <4>1. stepRequest'[s] = stepRequest[s]
        BY <1>0, <1>4, <3>2, SubmitMovesOn
      <4>2. QED BY <1>2, <2>1, <2>3, <4>1
    <3>3. QED BY <3>1, <3>2
  <2>4. QED BY <2>2, <2>3 DEF StepsAsk, RequestOf
<1>5. CASE Polls /\ (CheckApprovalStatus \/ WaitPoll)
  <2>1. UNCHANGED <<level, operation, stepRequest>>
    BY <1>5 DEF Polls
  <2>2. state # "none" => state' # "none"
    BY <1>5 DEF Polls, PollSteps, StateAfter
  <2>3. StepsAsk'
    BY <1>2, <2>1 DEF StepsAsk, RequestOf
  <2>4. state # "none"
    BY <1>0, <1>5 DEF StepsClassified, CheckApprovalStatus, WaitPoll
  <2>5. QED BY <1>0, <2>1, <2>2, <2>3, <2>4 DEF StepsClassified
<1>6. CASE Elsewhere /\ (WaitBegin \/ WaitTimeout \/ UNCHANGED <<state, waiter>>)
  <2>1. StepsAsk'
    BY <1>2, <1>6 DEF Elsewhere, StepsAsk, RequestOf
  <2>2. QED BY <1>0, <1>6, <2>1 DEF Elsewhere, StepsClassified, WaitBegin, WaitTimeout
<1>7. QED BY <1>3, <1>4, <1>5, <1>6, FlowCases

\* What Verdicts says of one step, for a record of the gate.
VerdictOf(stepNow, levelNow, id, status) ==
    /\ stepNow = "approved" /\ RequiresApproval(levelNow)
       => id \in Request /\ status \in {"approved", "auto_approved"}
    /\ stepNow = "rejected" => id \in Request /\ status \in {"rejected", "timeout"}

LEMMA VerdictStep == ASSUME FlowInv, [WorkflowNext]_allVars PROVE Verdicts'
<1>0. /\ IInv /\ WorkflowTypeOK /\ AllNamed /\ StepsAsk /\ Verdicts
      /\ drawn \subseteq Request /\ NoRequest \notin Request
  BY WorkflowAssumption DEF FlowInv, IInv, TypeOK
<1>1. drawn \subseteq drawn' /\ \A r \in drawn : Moves(requests[Gate][r], requests'[Gate][r])
  BY GateStep DEF MovesOn
<1>2. ASSUME NEW s \in Step, level'[s] = level[s], stepRequest'[s] = stepRequest[s], stepState'[s] = stepState[s]
      PROVE  VerdictOf(stepState'[s], level'[s], stepRequest'[s], requests'[Gate][stepRequest'[s]].status)
  <2>1. VerdictOf(stepState[s], level[s], stepRequest[s], RequestOf(s).status)
    BY <1>0 DEF Verdicts, VerdictOf
  <2>2. CASE stepRequest[s] \in Request
    <3>1. stepRequest[s] \in drawn /\ RequestOf(s) # Absent
      BY <1>0, <2>2 DEF StepsAsk
    <3>2. ~IsPending(RequestOf(s)) => requests'[Gate][stepRequest[s]] = RequestOf(s)
      BY <1>1, <3>1 DEF Moves, RequestOf
    <3>3. QED BY <1>2, <2>1, <3>2 DEF VerdictOf, IsPending
  <2>3. CASE stepRequest[s] \notin Request
    BY <1>2, <2>1, <2>3 DEF VerdictOf
  <2>4. QED BY <2>2, <2>3
<1>3. ASSUME \A s \in Step :
         VerdictOf(stepState'[s], level'[s], stepRequest'[s], requests'[Gate][stepRequest'[s]].status)
      PROVE  Verdicts'
  BY <1>3 DEF VerdictOf, Verdicts, RequestOf
<1>4. CASE \E ops \in [Step -> [text : Operation, scope : OperationScope]] : CreateWorkflow(ops)
  BY <1>4 DEF CreateWorkflow, Verdicts
<1>5. CASE SubmitForApproval
  <2>1. stepState' = [s \in Step |-> IF NeedsRequest(s) THEN "awaiting_approval" ELSE "approved"]
        /\ level' = level
    BY <1>5 DEF SubmitForApproval
  <2>2. QED BY <2>1 DEF Verdicts, NeedsRequest
<1>6. CASE Polls
  <2>1. level' = level /\ stepRequest' = stepRequest
    BY <1>6 DEF Polls
  <2>2. stepState' = [s \in Step |-> IF s \in Awaiting THEN StepStateFor(Checked(RequestOf(s)).status)
                                     ELSE stepState[s]]
    BY <1>6 DEF Polls, PollSteps
  <2>3. ASSUME NEW s \in Step, s \in Awaiting
        PROVE  VerdictOf(stepState'[s], level'[s], stepRequest'[s], requests'[Gate][stepRequest'[s]].status)
    <3>1. stepRequest[s] \in Request
      BY <1>0, <2>3 DEF Awaiting, StepsAsk
    <3>2. requests'[Gate][stepRequest[s]] = Checked(RequestOf(s))
      BY <1>0, <1>6, <2>3, <3>1, PollMovesOn DEF Polls
    <3>3. stepState'[s] = StepStateFor(Checked(RequestOf(s)).status)
      BY <2>2, <2>3
    <3>4. QED BY <2>1, <3>1, <3>2, <3>3 DEF VerdictOf, StepStateFor
  <2>4. ASSUME NEW s \in Step, s \notin Awaiting
        PROVE  VerdictOf(stepState'[s], level'[s], stepRequest'[s], requests'[Gate][stepRequest'[s]].status)
    BY <1>2, <2>1, <2>2, <2>4
  <2>5. QED BY <1>3, <2>3, <2>4
<1>7. CASE Elsewhere
  BY <1>2, <1>3, <1>7 DEF Elsewhere
<1>8. QED BY <1>4, <1>5, <1>6, <1>7, FlowCases

LEMMA OrderlyStep == ASSUME FlowInv, [WorkflowNext]_allVars PROVE OrderlyFlow'
<1>0. /\ IInv /\ WorkflowTypeOK /\ AllNamed /\ StepsAsk /\ StepsClassified /\ OrderlyFlow
      /\ NoRequest \notin Request
  BY WorkflowAssumption DEF FlowInv
<1>1. CASE \E ops \in [Step -> [text : Operation, scope : OperationScope]] : CreateWorkflow(ops)
  <2>1. state = "none" /\ state' = "risk_assessed" /\ waiter' = waiter
    BY <1>1 DEF CreateWorkflow
  <2>2. QED BY <1>0, <2>1 DEF StepsClassified, OrderlyFlow
<1>2. CASE SubmitForApproval
  <2>1. orderly' = orderly /\ waiter' = waiter /\ (orderly => waiter = "idle")
        /\ state' = IF Asking # {} THEN "awaiting_approval" ELSE "approved"
    BY <1>2 DEF SubmitForApproval, Asking
  <2>2. \A s \in Step : stepState'[s] = IF s \in Asking THEN "awaiting_approval" ELSE "approved"
    BY <1>2 DEF SubmitForApproval, Asking
  <2>3. \A s \in Asking : stepRequest'[s] # NoRequest
    BY <1>0, <1>2, SubmitMovesOn
  <2>4. state' = "awaiting_approval" => \A s \in Step : stepState'[s] = "approved" \/ s \in Awaiting'
    BY <2>2, <2>3 DEF Awaiting
  <2>5. state' = "approved" => \A s \in Step : stepState'[s] = "approved"
    BY <2>1, <2>2
  <2>6. QED BY <2>1, <2>4, <2>5 DEF OrderlyFlow
<1>3. CASE CheckApprovalStatus /\ Polls
  BY <1>3 DEF CheckApprovalStatus, OrderlyFlow
<1>4. CASE WaitPoll /\ Polls
  <2> SUFFICES ASSUME orderly PROVE OrderlyFlow'
    BY <1>4 DEF Polls, OrderlyFlow
  <2> DEFINE polled == [s \in Step |-> IF s \in Awaiting THEN StepStateFor(Checked(RequestOf(s)).status)
                                       ELSE stepState[s]]
  <2>1. /\ waiter = "waiting" /\ stepState' = polled /\ state' = StateAfter(polled)
        /\ waiter' = IF state' \in {"approved", "rejected"} THEN state' ELSE "waiting"
        /\ stepRequest' = stepRequest
    BY <1>4 DEF WaitPoll, Polls, PollSteps
  <2>2. /\ state \in {"awaiting_approval", "approved"}
        /\ \A s \in Step : stepState[s] = "approved" \/ s \in Awaiting
        /\ state = "approved" => \A s \in Step : stepState[s] = "approved"
    BY <1>0, <2>1 DEF OrderlyFlow
  <2>3. \A s \in Step : /\ s \notin Awaiting => polled[s] = "approved"
                        /\ s \in Awaiting => polled[s] \in {"approved", "rejected", "awaiting_approval"}
    BY <2>2 DEF StepStateFor
  <2>4. state = "approved" => Awaiting = {}
    BY <2>2 DEF Awaiting
  <2> HIDE DEF polled
  <2>5. state' \in {"awaiting_approval", "approved", "rejected"}
    BY <2>1, <2>2 DEF StateAfter
  <2>6. state' = "approved" => \A s \in Step : polled[s] = "approved"
    BY <2>1, <2>3, <2>4 DEF StateAfter
  <2>7. state' = "awaiting_approval" => \A s \in Step : polled[s] = "approved" \/ s \in Awaiting'
    <3> SUFFICES ASSUME state' = "awaiting_approval", NEW s \in Step
                 PROVE  polled[s] = "approved" \/ s \in Awaiting'
      OBVIOUS
    <3>1. CASE s \notin Awaiting
      BY <2>3, <3>1
    <3>2. CASE s \in Awaiting
      <4>1. polled[s] \in {"approved", "awaiting_approval"}
        BY <2>1, <2>3, <3>2 DEF StateAfter
      <4>2. QED BY <2>1, <3>2, <4>1 DEF Awaiting
    <3>3. QED BY <3>1, <3>2
  <2>8. QED BY <2>1, <2>5, <2>6, <2>7 DEF OrderlyFlow
<1>5. CASE WaitBegin /\ Elsewhere /\ UNCHANGED state
  BY <1>0, <1>5 DEF WaitBegin, Elsewhere, OrderlyFlow, Awaiting
<1>6. CASE WaitTimeout /\ Elsewhere
  BY <1>6 DEF WaitTimeout, OrderlyFlow
<1>7. CASE Elsewhere /\ UNCHANGED <<state, waiter>>
  BY <1>0, <1>7 DEF Elsewhere, OrderlyFlow, Awaiting
<1>8. QED BY <1>1, <1>2, <1>3, <1>4, <1>5, <1>6, <1>7, FlowCases

LEMMA FlowInvariant == WorkflowSpec => []FlowInv
<1>1. FlowInv /\ [WorkflowNext]_allVars => FlowInv'
  BY GateStep, TypeStep, AskStep, VerdictStep, OrderlyStep DEF FlowInv
<1>2. QED BY <1>1, InitFlow, PTL DEF WorkflowSpec

-----------------------------------------------------------------------------
\* The workflow's fields, its steps and the gate under it keep their types: no
\* step is left without a level, and no record is overwritten by another shape.
THEOREM WorkflowTypeSafe == WorkflowSpec => []WorkflowTypeOK
<1>1. FlowInv => WorkflowTypeOK
  BY DEF FlowInv
<1>2. QED BY <1>1, FlowInvariant, PTL

\* A step is approved or rejected only as its own current request is, for any
\* polls, resubmissions, decisions and timeouts (check_approval_status).
THEOREM VerdictsMatchGate == WorkflowSpec => []StepMatchesGate
<1>1. FlowInv => StepMatchesGate
  BY DEF FlowInv, Verdicts, StepMatchesGate
<1>2. QED BY <1>1, FlowInvariant, PTL

\* From the operation's text to the people who approve it: two for a word that a
\* pattern rates critical and for a migration named alone, one for a word rated
\* high, for every text, scope and history (classify, submit_for_approval,
\* create_request and approve).  A migration named after another operation is
\* left out because it needs nobody: see L4StepsNeedTwo.
THEOREM PeopleForRiskySteps == WorkflowSpec => []RiskyStepsNeedPeople
<1>1. FlowInv => RiskyStepsNeedPeople
  <2> SUFFICES ASSUME FlowInv, NEW s \in Step, stepState[s] = "approved", ~autoApprove
               PROVE  LET text == operation[s].text
                      IN  /\ NamesCritical(text) => Cardinality(ApprovedBy(s)) >= 2
                          /\ text \cap HighPattern # {} => ApprovedBy(s) # {}
    BY DEF RiskyStepsNeedPeople
  <2>0. /\ AllNamed /\ StepsAsk /\ StepsClassified /\ Verdicts /\ WorkflowTypeOK
        /\ \A r \in Request : Known(requests[Gate][r])
        /\ NoRequest \notin Request
    BY GateIsInstance, WorkflowAssumption DEF FlowInv, IInv
  <2> DEFINE text == operation[s].text
             rec == RequestOf(s)
  <2>1. level[s] \in Level /\ level[s] = Classify(text, operation[s].scope)
    BY <2>0 DEF StepsClassified, WorkflowTypeOK
  <2>2. /\ NamesCritical(text) => level[s] = 4
        /\ text \cap HighPattern # {} => level[s] >= 3
    BY <2>1, ClassifyBounds DEF Level, ValueError
  <2> HIDE DEF text
  <2>3. ASSUME RequiresApproval(level[s])
        PROVE  /\ stepRequest[s] \in Request /\ GoodRecord(rec) /\ rec.status = "approved"
               /\ rec.approvedBy # {} /\ rec.risk = Label(level[s])
    <3>1. stepRequest[s] \in Request /\ rec.status \in {"approved", "auto_approved"}
      BY <2>0, <2>3 DEF Verdicts
    <3>2. rec # Absent /\ rec.risk = Label(level[s]) /\ GoodRecord(rec) /\ Named(rec)
      BY <2>0, <3>1 DEF StepsAsk, Known, RequestOf, AllNamed
    <3>3. QED BY <3>1, <3>2 DEF Named
  <2>4. CASE level[s] = 4
    <3>1. RequiresApproval(level[s]) /\ Label(level[s]) = "critical"
      BY <2>1, <2>4, LabelIsRisk DEF RequiresApproval, Medium
    <3>2. Cardinality(rec.approvedBy) >= 2
      BY <2>3, <3>1 DEF GoodRecord, ApprovalType
    <3>3. QED BY <2>0, <2>3, <3>1, <3>2 DEF text, ApprovedBy
  <2>5. CASE level[s] # 4 /\ level[s] >= 3
    <3>1. RequiresApproval(level[s])
      BY <2>1, <2>5 DEF RequiresApproval, Medium, Level
    <3>2. QED BY <2>0, <2>2, <2>3, <2>5, <3>1 DEF text, ApprovedBy
  <2>6. CASE ~(level[s] >= 3)
    BY <2>2, <2>6 DEF text
  <2>7. QED BY <2>4, <2>5, <2>6
<1>2. QED BY <1>1, FlowInvariant, PTL

\* What wait_for_approval answers an orderly caller stays true of the workflow
\* and of every step, whatever happens at the gate afterwards.
THEOREM OrderlyAnswersHold == WorkflowSpec => []OrderlyAnswerSound
<1>1. FlowInv => OrderlyAnswerSound
  BY DEF FlowInv, OrderlyFlow, OrderlyAnswerSound
<1>2. QED BY <1>1, FlowInvariant, PTL
=============================================================================
