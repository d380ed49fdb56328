--------------------------- MODULE ToolServerProofs ---------------------------
(***************************************************************************)
(* For any number of concurrent requests and of tools: the server's types, *)
(* that racing requests share one breaker per tool, and that no tool is    *)
(* cut off by the failures of another.  OneBreaker holds because an entry  *)
(* of the map is never replaced, which the double check ensures; what a    *)
(* breaker's state says of its tool needs that every request reports to    *)
(* the breaker of its own tool, so the two are proved together.            *)
(***************************************************************************)
EXTENDS ToolServer, FiniteSetTheorems, TLAPS

\* The map files a breaker under the tool it was made for, once it exists.
Filed == \A t \in Tool : breakers[t] # None =>
            breakers[t][1] = t /\ circuit[breakers[t]] # Uncreated

\* A breaker that is not closed has seen a failure of its tool.
OwnFailures == \A b \in Breaker : circuit[b].state \in {"open", "half_open"} => b[1] \in failed

IInv == TypeOK /\ OneBreaker /\ Filed /\ OwnFailures

-----------------------------------------------------------------------------
\* What gobreaker makes of a breaker's record is a record again.
LEMMA GenerationTyped ==
  ASSUME TypeOK, NEW n \in Nat, NEW state \in {"closed", "open", "half_open"}
  PROVE  Generation(n, state) \in CircuitRecord /\ Generation(n, state).state = state
BY ServerAssumption DEF TypeOK, Generation, CircuitRecord, Expiry, Never

LEMMA CurrentTyped ==
  ASSUME TypeOK, NEW k \in CircuitRecord
  PROVE  /\ Current(k) \in CircuitRecord
         /\ Current(k).state # "closed" => k.state # "closed"
<1>1. k.generation + 1 \in Nat
  BY DEF CircuitRecord
<1>2. QED BY <1>1, GenerationTyped DEF Current, CircuitRecord

LEMMA ReportedTyped ==
  ASSUME TypeOK, NEW k \in CircuitRecord, NEW n, NEW success \in BOOLEAN
  PROVE  /\ Reported(k, n, success) \in CircuitRecord
         /\ success /\ Reported(k, n, success).state # "closed" => k.state # "closed"
<1> DEFINE cur == Current(k)
           counted == [cur EXCEPT !.failures = @ + 1]
<1>1. cur \in CircuitRecord /\ (cur.state # "closed" => k.state # "closed")
  BY CurrentTyped
<1>2. cur.generation + 1 \in Nat /\ cur.successes + 1 \in Nat /\ cur.failures + 1 \in Nat
  BY <1>1 DEF CircuitRecord
<1>3. counted \in CircuitRecord /\ counted.generation = cur.generation
  BY <1>1, <1>2 DEF CircuitRecord
<1> HIDE DEF cur
<1>4. Succeeded(cur) \in CircuitRecord /\ (Succeeded(cur).state # "closed" => cur.state # "closed")
  BY <1>1, <1>2, GenerationTyped DEF Succeeded, CircuitRecord
<1>5. Failed(cur) \in CircuitRecord
  BY <1>1, <1>2, <1>3, GenerationTyped DEF Failed
<1>6. QED BY <1>1, <1>4, <1>5 DEF Reported, cur

LEMMA InitIInv == Init => IInv
BY ServerAssumption DEF Init, IInv, TypeOK, OneBreaker, Filed, OwnFailures, Wrapped, Idle, Uncreated

LEMMA NextIInv == IInv /\ [Next]_vars => IInv'
<1> SUFFICES ASSUME IInv, [Next]_vars PROVE IInv'
  OBVIOUS
<1> USE ServerAssumption
<1>0. TypeOK /\ OneBreaker /\ Filed /\ OwnFailures
  BY DEF IInv
<1>1. CASE Tick
  BY <1>0, <1>1 DEF Tick, IInv, TypeOK, OneBreaker, Filed, OwnFailures, Wrapped
<1>2. ASSUME NEW c \in Call, NEW t \in Tool, Receive(c, t) PROVE IInv'
  BY <1>0, <1>2 DEF Receive, IInv, TypeOK, OneBreaker, Filed, OwnFailures, Wrapped, InFlight, Idle
<1>3. ASSUME NEW c \in Call, Invalid(c) PROVE IInv'
  BY <1>0, <1>3 DEF Invalid, IInv, TypeOK, OneBreaker, Filed, OwnFailures, Wrapped, Idle
<1>4. ASSUME NEW c \in Call, FindBreaker(c) PROVE IInv'
  <2> DEFINE b == breakers[call[c].tool]
             found == [call[c] EXCEPT !.phase = IF b = None THEN "missed" ELSE "wrapped",
                                      !.breaker = b]
  <2>1. call[c] \in InFlight
    BY <1>0, <1>4 DEF FindBreaker, TypeOK, Idle
  <2>2. call' = [call EXCEPT ![c] = found] /\ UNCHANGED <<breakers, circuit, failed, now>>
    BY <1>4 DEF FindBreaker, BreakerName
  <2>3. b \in Breaker \cup {None}
    BY <1>0, <2>1 DEF TypeOK, InFlight
  <2>4. found \in InFlight /\ found.tool = call[c].tool /\ found.breaker = b
    BY <2>1, <2>3 DEF InFlight
  <2>5. found.phase \in {"wrapped", "running"} => b # None
    BY <2>1 DEF InFlight
  <2> HIDE DEF found
  <2>6. call' \in [Call -> InFlight \cup {Idle}]
    BY <1>0, <2>2, <2>4 DEF TypeOK
  <2>7. \A d \in Call : call'[d] = IF d = c THEN found ELSE call[d]
    BY <1>0, <2>2 DEF TypeOK
  <2>8. call[c].tool \in Tool
    BY <2>1 DEF InFlight
  <2>9. \A d \in Call : Wrapped(d)' =>
           /\ call'[d].breaker # None /\ circuit[call'[d].breaker] # Uncreated
           /\ call'[d].breaker = breakers[call'[d].tool]
    BY <1>0, <2>4, <2>5, <2>7, <2>8 DEF Wrapped, TypeOK, OneBreaker, BreakerName, Filed
  <2>10. QED
    BY <1>0, <2>2, <2>6, <2>9 DEF IInv, TypeOK, OneBreaker, Filed, OwnFailures, BreakerName
<1>5. ASSUME NEW c \in Call, CreateBreaker(c) PROVE IInv'
  <2> DEFINE t == call[c].tool
             first == breakers[t] = None
             b == IF first THEN <<t, c>> ELSE breakers[t]
             made == [call[c] EXCEPT !.phase = "wrapped", !.breaker = b]
  <2>1. call[c] \in InFlight /\ t \in Tool
    BY <1>0, <1>5 DEF CreateBreaker, TypeOK, Idle, InFlight
  <2>2. /\ breakers' = [breakers EXCEPT ![t] = b]
        /\ circuit' = IF first THEN [circuit EXCEPT ![b] = Generation(1, "closed")] ELSE circuit
        /\ call' = [call EXCEPT ![c] = made]
        /\ UNCHANGED <<failed, now>>
    BY <1>5 DEF CreateBreaker, BreakerName
  <2>3. b \in Breaker /\ b # None /\ b[1] = t
    BY <1>0, <2>1 DEF TypeOK, Breaker, Filed
  <2>4. made \in InFlight /\ made.tool = t /\ made.breaker = b
    BY <2>1, <2>3 DEF InFlight
  <2> HIDE DEF made
  <2>5. Generation(1, "closed") \in CircuitRecord /\ Generation(1, "closed").state = "closed"
    BY <1>0, GenerationTyped
  <2>6. Generation(1, "closed") # Uncreated
    BY <2>5 DEF CircuitRecord, Uncreated
  <2>7. \A u \in Tool : breakers'[u] = IF u = t THEN b ELSE breakers[u]
    BY <1>0, <2>2 DEF TypeOK
  <2>8. \A u \in Tool : breakers[u] # None => breakers'[u] = breakers[u]
    BY <2>7
  <2>9. \A d \in Breaker : circuit'[d] = circuit[d] \/ circuit'[d] = Generation(1, "closed")
    BY <1>0, <2>2, <2>3 DEF TypeOK
  <2>10. circuit'[b] # Uncreated
    BY <1>0, <2>1, <2>2, <2>3, <2>6 DEF TypeOK, Filed
  <2>11. \A d \in Call : call'[d] = IF d = c THEN made ELSE call[d]
    BY <1>0, <2>2 DEF TypeOK
  <2>12. TypeOK'
    <3>1. breakers' \in [Tool -> Breaker \cup {None}]
      BY <1>0, <2>2, <2>3 DEF TypeOK
    <3>2. circuit' \in [Breaker -> CircuitRecord \cup {Uncreated}]
      BY <1>0, <2>2, <2>3, <2>5 DEF TypeOK
    <3>3. call' \in [Call -> InFlight \cup {Idle}]
      BY <1>0, <2>2, <2>4 DEF TypeOK
    <3>4. ASSUME NEW d \in Call, Wrapped(d)'
          PROVE  call'[d].breaker # None /\ circuit'[call'[d].breaker] # Uncreated
      <4>1. CASE d = c BY <4>1, <2>3, <2>4, <2>10, <2>11
      <4>2. CASE d # c
        <5>1. Wrapped(d) /\ call'[d] = call[d] BY <3>4, <4>2, <2>11 DEF Wrapped
        <5>2. call[d] \in InFlight BY <1>0, <5>1 DEF Wrapped, TypeOK, Idle
        <5>3. call[d].breaker # None /\ circuit[call[d].breaker] # Uncreated
          BY <1>0, <5>1 DEF TypeOK
        <5>4. call[d].breaker \in Breaker BY <5>2, <5>3 DEF InFlight
        <5>5. QED BY <5>1, <5>3, <5>4, <2>6, <2>9
      <4>3. QED BY <4>1, <4>2
    <3>5. QED BY <1>0, <2>2, <3>1, <3>2, <3>3, <3>4 DEF TypeOK
  <2>13. OneBreaker'
    <3> SUFFICES ASSUME NEW d \in Call, Wrapped(d)' PROVE call'[d].breaker = breakers'[call'[d].tool]
      BY DEF OneBreaker, BreakerName
    <3>1. CASE d = c BY <3>1, <2>1, <2>4, <2>7, <2>11
    <3>2. CASE d # c
      <4>1. Wrapped(d) /\ call'[d] = call[d] BY <3>2, <2>11 DEF Wrapped
      <4>2. call[d] \in InFlight BY <1>0, <4>1 DEF Wrapped, TypeOK, Idle
      <4>3. call[d].tool \in Tool BY <4>2 DEF InFlight
      <4>4. call[d].breaker = breakers[call[d].tool] /\ call[d].breaker # None
        BY <1>0, <4>1 DEF OneBreaker, BreakerName, TypeOK
      <4>5. QED BY <4>1, <4>3, <4>4, <2>8
    <3>3. QED BY <3>1, <3>2
  <2>14. Filed'
    <3> SUFFICES ASSUME NEW u \in Tool, breakers'[u] # None
                 PROVE  breakers'[u][1] = u /\ circuit'[breakers'[u]] # Uncreated
      BY DEF Filed
    <3>1. CASE u = t BY <3>1, <2>3, <2>7, <2>10
    <3>2. CASE u # t
      <4>1. breakers'[u] = breakers[u] BY <3>2, <2>7
      <4>2. breakers[u] \in Breaker BY <1>0, <4>1 DEF TypeOK
      <4>3. QED BY <1>0, <4>1, <4>2, <2>6, <2>9 DEF Filed
    <3>3. QED BY <3>1, <3>2
  <2>15. OwnFailures'
    BY <1>0, <2>2, <2>5, <2>9 DEF OwnFailures
  <2>16. QED BY <2>12, <2>13, <2>14, <2>15 DEF IInv
<1>6. ASSUME NEW c \in Call, EnterBreaker(c) PROVE IInv'
  <2> DEFINE b == call[c].breaker
             k == Current(circuit[b])
             admitted == [k EXCEPT !.requests = @ + 1]
             running == [call[c] EXCEPT !.phase = "running", !.generation = k.generation]
  <2>1. /\ call[c] \in InFlight /\ Wrapped(c) /\ b \in Breaker
        /\ circuit[b] \in CircuitRecord
    BY <1>0, <1>6 DEF EnterBreaker, TypeOK, Idle, InFlight, Wrapped
  <2>2. k \in CircuitRecord /\ (k.state # "closed" => circuit[b].state # "closed")
    BY <1>0, <2>1, CurrentTyped
  <2> HIDE DEF k
  <2>3. admitted \in CircuitRecord /\ admitted.state = k.state
    BY <2>2 DEF CircuitRecord
  <2>4. running \in InFlight /\ running.tool = call[c].tool /\ running.breaker = b
    BY <2>1, <2>2 DEF InFlight, CircuitRecord
  <2> HIDE DEF admitted, running
  <2>5. PICK kk \in {k, admitted}, cc \in {Idle, running} :
          /\ circuit' = [circuit EXCEPT ![b] = kk]
          /\ call' = [call EXCEPT ![c] = cc]
    BY <1>6 DEF EnterBreaker, k, admitted, running
  <2>6. UNCHANGED <<breakers, failed, now>>
    BY <1>6 DEF EnterBreaker
  <2>7. kk \in CircuitRecord /\ kk.state = k.state /\ kk # Uncreated
    BY <2>2, <2>3 DEF CircuitRecord, Uncreated
  <2>8. \A d \in Breaker : circuit'[d] = IF d = b THEN kk ELSE circuit[d]
    BY <1>0, <2>5 DEF TypeOK
  <2>9. \A d \in Call : call'[d] = IF d = c THEN cc ELSE call[d]
    BY <1>0, <2>5 DEF TypeOK
  <2>10. circuit' \in [Breaker -> CircuitRecord \cup {Uncreated}]
    BY <1>0, <2>5, <2>7 DEF TypeOK
  <2>11. call' \in [Call -> InFlight \cup {Idle}]
    BY <1>0, <2>4, <2>5 DEF TypeOK
  <2>12. \A d \in Call : Wrapped(d)' => /\ Wrapped(d) /\ call'[d].breaker = call[d].breaker
                                       /\ call'[d].tool = call[d].tool
    BY <2>1, <2>4, <2>9 DEF Wrapped, Idle
  <2>13. \A d \in Call : Wrapped(d) => call[d].breaker \in Breaker
    BY <1>0 DEF TypeOK, Wrapped, Idle, InFlight
  <2>14. TypeOK'
    BY <1>0, <2>6, <2>7, <2>8, <2>10, <2>11, <2>12, <2>13 DEF TypeOK
  <2>15. OneBreaker'
    BY <1>0, <2>6, <2>12 DEF OneBreaker, BreakerName
  <2>16. Filed'
    BY <1>0, <2>6, <2>7, <2>8 DEF Filed, TypeOK
  <2>17. OwnFailures'
    BY <1>0, <2>2, <2>6, <2>7, <2>8, <2>1 DEF OwnFailures, CircuitRecord
  <2>18. QED BY <2>14, <2>15, <2>16, <2>17 DEF IInv
<1>7. ASSUME NEW c \in Call, NEW success \in BOOLEAN, Leave(c, success) PROVE IInv'
  <2> DEFINE b == call[c].breaker
             k == Reported(circuit[b], call[c].generation, success)
  <2>1. /\ call[c] \in InFlight /\ Wrapped(c) /\ b \in Breaker /\ call[c].tool \in Tool
        /\ circuit[b] \in CircuitRecord
    BY <1>0, <1>7 DEF Leave, TypeOK, Idle, InFlight, Wrapped
  <2>2. k \in CircuitRecord /\ (success /\ k.state # "closed" => circuit[b].state # "closed")
    BY <1>0, <2>1, ReportedTyped
  <2>3. b[1] = call[c].tool
    BY <1>0, <2>1 DEF OneBreaker, BreakerName, Filed, TypeOK
  <2>4. /\ circuit' = [circuit EXCEPT ![b] = k]
        /\ call' = [call EXCEPT ![c] = Idle]
        /\ failed' = IF success THEN failed ELSE failed \cup {call[c].tool}
        /\ UNCHANGED <<breakers, now>>
    BY <1>7 DEF Leave
  <2> HIDE DEF k
  <2>5. k # Uncreated
    BY <2>2 DEF CircuitRecord, Uncreated
  <2>6. \A d \in Breaker : circuit'[d] = IF d = b THEN k ELSE circuit[d]
    BY <1>0, <2>4 DEF TypeOK
  <2>7. \A d \in Call : Wrapped(d)' => Wrapped(d) /\ call'[d] = call[d]
    BY <1>0, <2>4 DEF Wrapped, Idle, TypeOK
  <2>8. \A d \in Call : Wrapped(d) => call[d].breaker \in Breaker
    BY <1>0 DEF TypeOK, Wrapped, Idle, InFlight
  <2>9. TypeOK'
    BY <1>0, <2>1, <2>2, <2>4, <2>5, <2>6, <2>7, <2>8 DEF TypeOK
  <2>10. OneBreaker'
    BY <1>0, <2>4, <2>7 DEF OneBreaker, BreakerName
  <2>11. Filed'
    BY <1>0, <2>4, <2>5, <2>6 DEF Filed, TypeOK
  <2>12. OwnFailures'
    <3> SUFFICES ASSUME NEW d \in Breaker, circuit'[d].state \in {"open", "half_open"}
                 PROVE  d[1] \in failed'
      BY DEF OwnFailures
    <3>1. CASE d # b BY <1>0, <3>1, <2>4, <2>6 DEF OwnFailures
    <3>2. CASE d = b /\ ~success BY <3>2, <2>3, <2>4
    <3>3. CASE d = b /\ success
      BY <1>0, <3>3, <2>1, <2>2, <2>4, <2>6 DEF OwnFailures, CircuitRecord
    <3>4. QED BY <3>1, <3>2, <3>3
  <2>13. QED BY <2>9, <2>10, <2>11, <2>12 DEF IInv
<1>8. CASE UNCHANGED vars
  BY <1>0, <1>8 DEF vars, IInv, TypeOK, OneBreaker, Filed, OwnFailures, Wrapped
<1>9. QED
  BY <1>1, <1>2, <1>3, <1>4, <1>5, <1>6, <1>7, <1>8 DEF Next, ServerStep, ToolReturns, ToolTimesOut

-----------------------------------------------------------------------------
\* The server is well typed and no request runs without an existing breaker, for any
\* number of requests and tools.
THEOREM ServerTypeCorrect == Spec => []TypeOK
<1>1. Spec => []IInv BY InitIInv, NextIInv, PTL DEF Spec
<1>2. IInv => TypeOK BY DEF IInv
<1>3. QED BY <1>1, <1>2, PTL

\* However many requests race to create it, a tool has one breaker.
THEOREM OneBreakerHolds == Spec => []OneBreaker
<1>1. Spec => []IInv BY InitIInv, NextIInv, PTL DEF Spec
<1>2. IInv => OneBreaker BY DEF IInv
<1>3. QED BY <1>1, <1>2, PTL

\* No tool is cut off unless one of its own executions failed, whatever breakers
\* count, time out and reset, and however late outcomes come.
THEOREM HealthyToolServedHolds == Spec => []HealthyToolServed
<1>1. Spec => []IInv BY InitIInv, NextIInv, PTL DEF Spec
<1>2. IInv => HealthyToolServed
  <2> SUFFICES ASSUME IInv, NEW c \in Call, Wrapped(c),
                      circuit[call[c].breaker].state \in {"open", "half_open"}
               PROVE  call[c].tool \in failed
    BY DEF HealthyToolServed
  <2>1. call[c].tool \in Tool /\ call[c].breaker \in Breaker
    BY DEF IInv, TypeOK, Wrapped, Idle, InFlight
  <2>2. call[c].breaker[1] = call[c].tool
    BY <2>1, ServerAssumption DEF IInv, TypeOK, OneBreaker, BreakerName, Filed
  <2>3. QED BY <2>1, <2>2 DEF IInv, OwnFailures
<1>3. QED BY <1>1, <1>2, PTL

-----------------------------------------------------------------------------
(***************************************************************************)
(* The probes of a half-open breaker.  Counting them needs that a new      *)
(* generation starts with none of its own, hence that no execution was     *)
(* admitted in a generation its breaker has not reached; that the set of   *)
(* probes is finite is part of the invariant, not an assumption.           *)
(***************************************************************************)
Running(c, b) == call[c].phase = "running" /\ call[c].breaker = b

Probes(b) == {c \in Call : Running(c, b) /\ call[c].generation = circuit[b].generation}

Admitted(b) == \A c \in Call : Running(c, b) => call[c].generation <= circuit[b].generation
Counted(b) == circuit[b].state = "half_open" =>
                 /\ IsFiniteSet(Probes(b))
                 /\ circuit[b].requests = circuit[b].successes + Cardinality(Probes(b))

Accounts(b) == Admitted(b) /\ Counted(b)
ProbesInv == \A b \in Breaker : Accounts(b)

\* currentState leaves a breaker as it is or starts its next generation.
LEMMA CurrentGeneration ==
  ASSUME NEW k \in CircuitRecord
  PROVE  \/ Current(k) = k
         \/ /\ Current(k).generation = k.generation + 1
            /\ Current(k).requests = 0 /\ Current(k).successes = 0
BY DEF Current, Generation

\* afterRequest starts a generation, drops the outcome of an earlier one, or
\* counts the outcome in its own; of a half-open breaker only successes are counted.
LEMMA ReportedGeneration ==
  ASSUME NEW k \in CircuitRecord, NEW n \in Nat, n <= k.generation, NEW success \in BOOLEAN
  PROVE  LET rep == Reported(k, n, success)
         IN  \/ rep.generation = k.generation + 1 /\ rep.requests = 0 /\ rep.successes = 0
             \/ rep = k /\ k.generation # n
             \/ /\ rep.generation = k.generation /\ k.generation = n
                /\ rep.state = k.state /\ rep.requests = k.requests
                /\ k.state = "half_open" => rep.successes = k.successes + 1
<1>1. k.generation \in Nat
  BY DEF CircuitRecord
<1>2. CASE Current(k).generation # n
  BY <1>2, CurrentGeneration DEF Reported
<1>3. CASE Current(k).generation = n
  <2>1. Current(k) = k
    BY <1>1, <1>3, CurrentGeneration
  <2>2. CASE success
    BY <1>3, <2>1, <2>2 DEF Reported, Succeeded, Generation, CircuitRecord
  <2>3. CASE ~success
    BY <1>3, <2>1, <2>3 DEF Reported, Failed, Generation, CircuitRecord
  <2>4. QED BY <2>2, <2>3
<1>4. QED BY <1>2, <1>3

\* A breaker whose new record starts a generation has no probe and none to account for.
LEMMA FreshAccounts ==
  ASSUME TypeOK, TypeOK', NEW b \in Breaker, Admitted(b), circuit[b] \in CircuitRecord,
         circuit'[b] \in CircuitRecord, circuit'[b].generation = circuit[b].generation + 1,
         circuit'[b].requests = 0, circuit'[b].successes = 0,
         \A c \in Call : Running(c, b)' => Running(c, b) /\ call'[c] = call[c]
  PROVE  Accounts(b)' /\ Probes(b)' = {}
<1>1. circuit[b].generation \in Nat
  BY DEF CircuitRecord
<1>2. \A c \in Call : Running(c, b)' => call'[c].generation \in Nat
                                        /\ call'[c].generation <= circuit[b].generation
  BY DEF Admitted, Running, TypeOK, InFlight, Idle
<1>3. Probes(b)' = {}
  BY <1>1, <1>2 DEF Probes
<1>4. Admitted(b)'
  BY <1>1, <1>2 DEF Admitted
<1>5. IsFiniteSet(Probes(b)') /\ Cardinality(Probes(b)') = 0
  BY <1>3, FS_EmptySet
<1>6. QED BY <1>3, <1>4, <1>5 DEF Accounts, Counted

\* A breaker neither reported to nor asked, and whose executions go on, accounts as before.
LEMMA QuietAccounts ==
  ASSUME NEW b \in Breaker, Accounts(b), circuit'[b] = circuit[b],
         \A c \in Call : Running(c, b)' <=> Running(c, b),
         \A c \in Call : Running(c, b) => call'[c] = call[c]
  PROVE  Accounts(b)'
<1>1. Probes(b)' = Probes(b)
  BY DEF Probes
<1>2. QED BY <1>1 DEF Accounts, Admitted, Counted

\* A step of a request that neither starts nor ends an execution, nor asks the breaker.
LEMMA OutsideAccounts ==
  ASSUME NEW b \in Breaker, Accounts(b), circuit' = circuit,
         NEW c \in Call, call[c].phase # "running", call'[c].phase # "running",
         \A d \in Call : d # c => call'[d] = call[d]
  PROVE  Accounts(b)'
<1>1. /\ \A d \in Call : Running(d, b)' <=> Running(d, b)
      /\ \A d \in Call : Running(d, b) => call'[d] = call[d]
  BY DEF Running
<1>2. QED BY <1>1, QuietAccounts

LEMMA InitProbes == Init => ProbesInv
BY DEF Init, ProbesInv, Accounts, Admitted, Counted, Running, Idle, Uncreated

LEMMA NextProbes == IInv /\ IInv' /\ ProbesInv /\ [Next]_vars => ProbesInv'
<1> SUFFICES ASSUME IInv, IInv', ProbesInv, [Next]_vars, NEW b \in Breaker
             PROVE  Accounts(b)'
  BY DEF ProbesInv
<1> USE ServerAssumption
<1>0. /\ TypeOK /\ TypeOK' /\ OneBreaker /\ Filed
      /\ Accounts(b) /\ Admitted(b) /\ Counted(b)
  BY DEF IInv, ProbesInv, Accounts
<1>1. CASE circuit' = circuit /\ call' = call
  BY <1>0, <1>1, QuietAccounts DEF Running
<1>2. ASSUME NEW c \in Call, NEW t \in Tool, Receive(c, t) PROVE Accounts(b)'
  BY <1>0, <1>2, OutsideAccounts DEF Receive, TypeOK, Idle
<1>3. ASSUME NEW c \in Call, Invalid(c) PROVE Accounts(b)'
  BY <1>0, <1>3, OutsideAccounts DEF Invalid, TypeOK, Idle
<1>4. ASSUME NEW c \in Call, FindBreaker(c) PROVE Accounts(b)'
  <2>1. call[c] \in InFlight /\ call[c].phase = "lookup" /\ circuit' = circuit
    BY <1>0, <1>4 DEF FindBreaker, TypeOK, Idle
  <2>2. call'[c].phase # "running"
    BY <1>0, <1>4, <2>1 DEF FindBreaker, TypeOK, InFlight
  <2>3. \A d \in Call : d # c => call'[d] = call[d]
    BY <1>0, <1>4 DEF FindBreaker, TypeOK
  <2>4. QED BY <1>0, <2>1, <2>2, <2>3, OutsideAccounts
<1>5. ASSUME NEW c \in Call, CreateBreaker(c) PROVE Accounts(b)'
  <2> DEFINE t == call[c].tool
             made == <<t, c>>
  <2>1. /\ call[c] \in InFlight /\ t \in Tool /\ call[c].phase = "missed"
    BY <1>0, <1>5 DEF CreateBreaker, TypeOK, Idle, InFlight
  <2>2. call'[c].phase # "running" /\ \A d \in Call : d # c => call'[d] = call[d]
    BY <1>0, <1>5, <2>1 DEF CreateBreaker, TypeOK, InFlight
  <2>3. CASE breakers[t] # None
    BY <1>0, <1>5, <2>1, <2>2, <2>3, OutsideAccounts DEF CreateBreaker, BreakerName
  <2>4. CASE breakers[t] = None
    <3>1. circuit' = [circuit EXCEPT ![made] = Generation(1, "closed")]
      BY <1>5, <2>4 DEF CreateBreaker, BreakerName
    <3>2. \A d \in Call : ~Running(d, made)
      <4> SUFFICES ASSUME NEW d \in Call, Running(d, made) PROVE FALSE
        OBVIOUS
      <4>1. call[d] \in InFlight /\ call[d].tool \in Tool /\ Wrapped(d)
        BY <1>0 DEF Running, Wrapped, TypeOK, Idle, InFlight
      <4>2. breakers[call[d].tool] = made
        BY <1>0, <4>1 DEF Running, OneBreaker, BreakerName
      <4>3. made # None
        BY <2>1
      <4>4. made[1] = call[d].tool
        BY <1>0, <4>1, <4>2, <4>3 DEF Filed
      <4>5. QED BY <2>4, <4>2, <4>3, <4>4
    <3>3. \A d \in Call : /\ Running(d, b)' <=> Running(d, b)
                          /\ Running(d, b) => call'[d] = call[d]
      BY <2>1, <2>2 DEF Running
    <3>4. CASE b = made
      <4>1. \A d \in Call : ~Running(d, b)'
        BY <3>2, <3>3, <3>4
      <4>2. circuit'[b].state = "closed"
        BY <1>0, <3>1, <3>4, GenerationTyped DEF TypeOK
      <4>3. QED BY <4>1, <4>2 DEF Accounts, Admitted, Counted
    <3>5. CASE b # made
      <4>1. circuit'[b] = circuit[b]
        BY <1>0, <3>1, <3>5 DEF TypeOK
      <4>2. QED BY <1>0, <3>3, <4>1, QuietAccounts
    <3>6. QED BY <3>4, <3>5
  <2>5. QED BY <2>3, <2>4
<1>6. ASSUME NEW c \in Call, EnterBreaker(c) PROVE Accounts(b)'
  <2> DEFINE a == call[c].breaker
             k == Current(circuit[a])
  <2>1. /\ call[c] \in InFlight /\ call[c].phase = "wrapped" /\ a \in Breaker
        /\ circuit[a] \in CircuitRecord
    BY <1>0, <1>6 DEF EnterBreaker, TypeOK, Idle, InFlight, Wrapped
  <2>2. k \in CircuitRecord
    BY <1>0, <2>1, CurrentTyped
  <2>3. \A d \in Call : d # c => call'[d] = call[d]
    BY <1>0, <1>6 DEF EnterBreaker, TypeOK
  <2>4. \A d \in Breaker : d # a => circuit'[d] = circuit[d]
    BY <1>0, <1>6 DEF EnterBreaker, TypeOK
  <2>5. \A d \in Call : d # c => (Running(d, b)' <=> Running(d, b))
    BY <2>3 DEF Running
  <2>6. ~Running(c, b)
    BY <2>1 DEF Running
  <2>7. CASE b # a
    <3>1. ~Running(c, b)'
      <4>1. call'[c] = Idle \/ call'[c].breaker = a
        BY <1>0, <1>6, <2>1 DEF EnterBreaker, TypeOK, InFlight
      <4>2. QED BY <2>7, <4>1 DEF Running, Idle
    <3>2. QED BY <1>0, <2>3, <2>4, <2>5, <2>6, <2>7, <3>1, QuietAccounts
  <2>8. CASE b = a /\ Refuses(k)
    <3>1. circuit'[b] = k /\ ~Running(c, b)'
      BY <1>0, <1>6, <2>1, <2>8 DEF EnterBreaker, TypeOK, Running, Idle
    <3>2. CASE k = circuit[a]
      BY <1>0, <2>3, <2>5, <2>6, <2>8, <3>1, <3>2, QuietAccounts
    <3>3. CASE k # circuit[a]
      <4>1. /\ circuit'[b].generation = circuit[b].generation + 1
            /\ circuit'[b].requests = 0 /\ circuit'[b].successes = 0
        BY <2>1, <2>8, <3>1, <3>3, CurrentGeneration
      <4>2. QED BY <1>0, <2>1, <2>2, <2>3, <2>5, <2>8, <3>1, <4>1, FreshAccounts
    <3>4. QED BY <3>2, <3>3
  <2>9. CASE b = a /\ ~Refuses(k)
    <3>1. /\ circuit'[b] = [k EXCEPT !.requests = @ + 1]
          /\ call'[c] = [call[c] EXCEPT !.phase = "running", !.generation = k.generation]
      BY <1>0, <1>6, <2>1, <2>9 DEF EnterBreaker, TypeOK
    <3> HIDE DEF k
    <3>2. /\ circuit'[b].generation = k.generation /\ circuit'[b].requests = k.requests + 1
          /\ circuit'[b].successes = k.successes /\ circuit'[b].state = k.state
      BY <2>2, <3>1 DEF CircuitRecord
    <3>3. Running(c, b)' /\ call'[c].generation = k.generation
      BY <2>1, <2>9, <3>1 DEF Running, InFlight
    <3>4. k.generation >= circuit[b].generation /\ circuit[b].generation \in Nat /\ k.generation \in Nat
      BY <2>1, <2>2, <2>9, CurrentGeneration DEF k, CircuitRecord
    <3>5. \A d \in Call : Running(d, b) => call[d].generation \in Nat
                                           /\ call[d].generation <= circuit[b].generation
      BY <1>0 DEF Admitted, Running, TypeOK, InFlight, Idle
    <3>6. Admitted(b)'
      BY <2>3, <2>5, <3>2, <3>3, <3>4, <3>5 DEF Admitted
    <3>7. ASSUME k.state = "half_open"
          PROVE  /\ IsFiniteSet(Probes(b)')
                 /\ k.requests + 1 = k.successes + Cardinality(Probes(b)')
      <4>1. CASE k = circuit[b]
        <5>1. Probes(b)' = Probes(b) \cup {c}
          BY <2>3, <2>5, <2>6, <3>2, <3>3, <4>1 DEF Probes
        <5>2. c \notin Probes(b)
          BY <2>6 DEF Probes
        <5>3. /\ IsFiniteSet(Probes(b))
              /\ k.requests = k.successes + Cardinality(Probes(b))
          BY <1>0, <3>7, <4>1 DEF Counted
        <5>4. /\ IsFiniteSet(Probes(b)')
              /\ Cardinality(Probes(b)') = Cardinality(Probes(b)) + 1
          BY <5>1, <5>2, <5>3, FS_AddElement
        <5>5. k.requests \in Nat /\ k.successes \in Nat /\ Cardinality(Probes(b)) \in Nat
          BY <2>2, <5>3, FS_CardinalityType DEF CircuitRecord
        <5>6. QED BY <5>3, <5>4, <5>5
      <4>2. CASE k # circuit[b]
        <5>1. k.generation = circuit[b].generation + 1 /\ k.requests = 0 /\ k.successes = 0
          BY <2>1, <2>9, <4>2, CurrentGeneration DEF k
        <5>2. Probes(b)' = {c}
          BY <2>3, <2>5, <3>2, <3>3, <3>4, <3>5, <5>1 DEF Probes
        <5>3. QED BY <5>1, <5>2, FS_Singleton
      <4>3. QED BY <4>1, <4>2
    <3>8. QED BY <3>2, <3>6, <3>7 DEF Accounts, Counted
  <2>10. QED BY <2>7, <2>8, <2>9
<1>7. ASSUME NEW c \in Call, NEW success \in BOOLEAN, Leave(c, success) PROVE Accounts(b)'
  <2> DEFINE a == call[c].breaker
             n == call[c].generation
             k == Reported(circuit[a], n, success)
  <2>1. /\ call[c] \in InFlight /\ Running(c, a) /\ a \in Breaker /\ n \in Nat
        /\ circuit[a] \in CircuitRecord
    BY <1>0, <1>7 DEF Leave, TypeOK, Idle, InFlight, Wrapped, Running
  <2>2. k \in CircuitRecord
    BY <1>0, <2>1, ReportedTyped
  <2>3. n <= circuit[a].generation
    BY <2>1 DEF ProbesInv, Accounts, Admitted
  <2>4. /\ \A d \in Call : d # c => call'[d] = call[d]
        /\ call'[c] = Idle
        /\ \A d \in Breaker : circuit'[d] = IF d = a THEN k ELSE circuit[d]
    BY <1>0, <1>7 DEF Leave, TypeOK
  <2>5. /\ ~Running(c, b)'
        /\ \A d \in Call : d # c => (Running(d, b)' <=> Running(d, b))
    BY <2>4 DEF Running, Idle
  <2>6. CASE b # a
    <3>1. ~Running(c, b)
      BY <2>6 DEF Running
    <3>2. QED BY <1>0, <2>4, <2>5, <2>6, <3>1, QuietAccounts
  <2>7. CASE b = a
    <3>1. \/ k.generation = circuit[a].generation + 1 /\ k.requests = 0 /\ k.successes = 0
          \/ k = circuit[a] /\ circuit[a].generation # n
          \/ /\ k.generation = circuit[a].generation /\ circuit[a].generation = n
             /\ k.state = circuit[a].state /\ k.requests = circuit[a].requests
             /\ circuit[a].state = "half_open" => k.successes = circuit[a].successes + 1
      BY <2>1, <2>3, ReportedGeneration
    <3> HIDE DEF k
    <3>2. circuit'[b] = k
      BY <2>4, <2>7
    <3>3. CASE k.generation = circuit[a].generation + 1 /\ k.requests = 0 /\ k.successes = 0
      BY <1>0, <2>1, <2>2, <2>4, <2>5, <2>7, <3>2, <3>3, FreshAccounts
    <3>4. ASSUME k.generation = circuit[a].generation PROVE Admitted(b)'
      BY <1>0, <2>4, <2>5, <2>7, <3>2, <3>4 DEF Admitted
    <3>5. CASE k = circuit[a] /\ circuit[a].generation # n
      <4>1. Probes(b)' = Probes(b)
        BY <2>4, <2>5, <2>7, <3>2, <3>5 DEF Probes
      <4>2. QED BY <1>0, <2>7, <3>2, <3>4, <3>5, <4>1 DEF Accounts, Counted
    <3>6. CASE /\ k.generation = circuit[a].generation /\ circuit[a].generation = n
               /\ k.state = circuit[a].state /\ k.requests = circuit[a].requests
               /\ circuit[a].state = "half_open" => k.successes = circuit[a].successes + 1
      <4>1. Probes(b)' = Probes(b) \ {c} /\ c \in Probes(b)
        BY <2>1, <2>4, <2>5, <2>7, <3>2, <3>6 DEF Probes
      <4>2. ASSUME k.state = "half_open"
            PROVE  /\ IsFiniteSet(Probes(b)')
                   /\ k.requests = k.successes + Cardinality(Probes(b)')
        <5>1. /\ IsFiniteSet(Probes(b))
              /\ k.requests = circuit[a].successes + Cardinality(Probes(b))
          BY <1>0, <2>7, <3>6, <4>2 DEF Counted
        <5>2. IsFiniteSet(Probes(b)') /\ Cardinality(Probes(b)') = Cardinality(Probes(b)) - 1
          BY <4>1, <5>1, FS_RemoveElement
        <5>3. circuit[a].successes \in Nat /\ Cardinality(Probes(b)) \in Nat
          BY <2>1, <5>1, FS_CardinalityType DEF CircuitRecord
        <5>4. QED BY <3>6, <4>2, <5>1, <5>2, <5>3
      <4>3. QED BY <3>2, <3>4, <3>6, <4>2 DEF Accounts, Counted
    <3>7. QED BY <3>1, <3>3, <3>5, <3>6
  <2>8. QED BY <2>6, <2>7
<1>8. CASE Tick \/ UNCHANGED vars
  BY <1>1, <1>8 DEF Tick, vars
<1>9. QED
  BY <1>2, <1>3, <1>4, <1>5, <1>6, <1>7, <1>8 DEF Next, ServerStep, ToolReturns, ToolTimesOut

\* No probe of a half-open breaker is lost, whatever outcomes come late or never: what
\* it has admitted it still waits for or has counted, for any number of requests.
THEOREM ProbesStayAccountedFor == Spec => []ProbesAccountedFor
<1>1. Spec => []IInv BY InitIInv, NextIInv, PTL DEF Spec
<1>2. Spec => []ProbesInv BY <1>1, InitProbes, NextProbes, PTL DEF Spec
<1>3. ProbesInv => ProbesAccountedFor
  BY DEF ProbesInv, Accounts, Counted, Probes, Running, ProbesAccountedFor
<1>4. QED BY <1>2, <1>3, PTL
=============================================================================
