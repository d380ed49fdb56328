------------------------------ MODULE ToolServer ------------------------------
(***************************************************************************)
(* The MCP server's tools/call path (go/internal/protocol/handler.go and   *)
(* go/internal/middleware).  Every HTTP request is a goroutine of its own  *)
(* and builds the whole middleware chain anew, so the rate limiters and    *)
(* the result cache it passes through are empty objects nobody else sees:  *)
(* they refuse and remember nothing, and the model has no state for them.  *)
(* The risk layer runs in audit mode and only logs.  What requests share   *)
(* is the package-level map of circuit breakers, guarded by a read-write   *)
(* lock with a double check, and the breakers in it.                       *)
(***************************************************************************)
EXTENDS Integers, FiniteSets

CONSTANTS
    Call,          \* the slots of requests the server works on at a time
    Tool,          \* the registered tools
    MinRequests,   \* requests a breaker must have seen to trip (5 in the code)
    FailurePercent,\* failure_ratio, in percent
    MaxRequests,   \* probes a half-open breaker admits, and successes to close it
    Interval,      \* age at which a closed breaker forgets its counts
    OpenTimeout,   \* time an open breaker refuses everything
    None,          \* no breaker, no circuit
    MaxCount,      \* bound: requests counted by one generation of a breaker
    MaxTime        \* bound: the clock

ASSUME ServerAssumption ==
    /\ MinRequests \in Nat \ {0} /\ MaxRequests \in Nat \ {0}
    /\ FailurePercent \in 1..100
    /\ Interval \in Nat \ {0} /\ OpenTimeout \in Nat \ {0}
    /\ MaxCount \in Nat /\ MaxTime \in Nat
    /\ None \notin Tool \X Call

VARIABLES
    breakers,  \* the map from names to breakers: a name's breaker or None
    circuit,   \* the breakers themselves, named by the tool and the creating call
    call,      \* the request in each slot
    failed,    \* history: the tools of which an execution failed or timed out
    now        \* the clock

vars == <<breakers, circuit, call, failed, now>>

Breaker == Tool \X Call

Idle == [phase |-> "idle"]
\* A request between HandleRequest and its answer: looking its breaker up,
\* having missed it, wrapped in the chain, or executing the tool.
InFlight ==
    [phase : {"lookup", "missed", "wrapped", "running"}, tool : Tool,
     breaker : Breaker \cup {None}, generation : Nat]

Wrapped(c) == call[c].phase \in {"wrapped", "running"}

-----------------------------------------------------------------------------
(***************************************************************************)
(* github.com/sony/gobreaker v1.0.0, as Execute uses it.  Every change of  *)
(* state starts a generation with empty counts; results of calls admitted  *)
(* in an earlier generation are dropped.                                   *)
(***************************************************************************)
Uncreated == [state |-> "uncreated"]
CircuitRecord ==
    [state : {"closed", "open", "half_open"}, generation : Nat, requests : Nat,
     failures : Nat, successes : Nat, expiry : Int]

Never == -1
Expiry(state) ==
    CASE state = "closed" -> now + Interval
      [] state = "open" -> now + OpenTimeout
      [] state = "half_open" -> Never

Generation(n, state) ==
    [state |-> state, generation |-> n, requests |-> 0, failures |-> 0,
     successes |-> 0, expiry |-> Expiry(state)]

\* currentState: an elapsed interval clears the counts of a closed breaker, an
\* elapsed timeout lets an open one probe.
Current(k) ==
    IF k.state = "half_open" \/ now <= k.expiry THEN k
    ELSE Generation(k.generation + 1, IF k.state = "open" THEN "half_open" ELSE "closed")

Refuses(k) == k.state = "open" \/ (k.state = "half_open" /\ k.requests >= MaxRequests)

\* ReadyToTrip of getOrCreateBreaker: cold-start protection, then the ratio.
ReadyToTrip(k) ==
    k.requests >= MinRequests /\ k.failures * 100 >= FailurePercent * k.requests

\* Successes decide something only while half-open, failures only while closed.
Succeeded(k) ==
    IF k.state = "closed" THEN k
    ELSE IF k.successes + 1 >= MaxRequests THEN Generation(k.generation + 1, "closed")
    ELSE [k EXCEPT !.successes = @ + 1]

Failed(k) ==
    LET counted == [k EXCEPT !.failures = @ + 1]
    IN  IF k.state = "half_open" \/ ReadyToTrip(counted)
        THEN Generation(k.generation + 1, "open") ELSE counted

\* afterRequest of an execution admitted in generation n.
Reported(k, n, success) ==
    LET cur == Current(k)
    IN  IF cur.generation # n THEN cur
        ELSE IF success THEN Succeeded(cur) ELSE Failed(cur)

-----------------------------------------------------------------------------
\* The name a tool's breaker is filed under: tool.Name().
\* Faulty variant: one name for every tool.
BreakerName_Shared(t) == CHOOSE u \in Tool : TRUE
BreakerName(t) == t

\* A request for a registered tool arrives.  (MaxCount bounds the traffic of one
\* generation, not the server.)
Receive(c, t) ==
    LET b == breakers[BreakerName(t)]
        counted == IF b = None THEN 0 ELSE circuit[b].requests
        coming == Cardinality({d \in Call : call[d] # Idle /\ call[d].tool = t})
    IN  /\ call[c] = Idle
        /\ counted + coming < MaxCount
        /\ call' = [call EXCEPT ![c] =
                       [phase |-> "lookup", tool |-> t, breaker |-> None, generation |-> 0]]
        /\ UNCHANGED <<breakers, circuit, failed, now>>

\* getOrCreateBreaker, under the read lock.
FindBreaker(c) ==
    LET b == breakers[BreakerName(call[c].tool)]
    IN  /\ call[c].phase = "lookup"
        /\ call' = [call EXCEPT ![c].phase = IF b = None THEN "missed" ELSE "wrapped",
                                ![c].breaker = b]
        /\ UNCHANGED <<breakers, circuit, failed, now>>

\* Faulty variant: no double check under the write lock.
CreateBreaker_Unchecked(c) ==
    LET name == BreakerName(call[c].tool)
        b == <<name, c>>
    IN  /\ call[c].phase = "missed"
        /\ breakers' = [breakers EXCEPT ![name] = b]
        /\ circuit' = [circuit EXCEPT ![b] = Generation(1, "closed")]
        /\ call' = [call EXCEPT ![c].phase = "wrapped", ![c].breaker = b]
        /\ UNCHANGED <<failed, now>>
\* Faulty variant: a shadowed cb, so that the caller gets none.
CreateBreaker_Shadowed(c) ==
    LET name == BreakerName(call[c].tool)
    IN  /\ call[c].phase = "missed"
        /\ breakers' = [breakers EXCEPT ![name] = <<name, c>>]
        /\ circuit' = [circuit EXCEPT ![<<name, c>>] = Generation(1, "closed")]
        /\ call' = [call EXCEPT ![c].phase = "wrapped"]
        /\ UNCHANGED <<failed, now>>
\* getOrCreateBreaker, under the write lock: another request may have been first.
CreateBreaker(c) ==
    LET name == BreakerName(call[c].tool)
        first == breakers[name] = None
        b == IF first THEN <<name, c>> ELSE breakers[name]
    IN  /\ call[c].phase = "missed"
        /\ breakers' = [breakers EXCEPT ![name] = b]
        /\ circuit' = IF first THEN [circuit EXCEPT ![b] = Generation(1, "closed")] ELSE circuit
        /\ call' = [call EXCEPT ![c].phase = "wrapped", ![c].breaker = b]
        /\ UNCHANGED <<failed, now>>

\* The validation layer answers with an error: the breaker exists but is not asked.
Invalid(c) ==
    /\ call[c].phase = "wrapped"
    /\ call' = [call EXCEPT ![c] = Idle]
    /\ UNCHANGED <<breakers, circuit, failed, now>>

\* The breaker layer asks the breaker, which refuses the request or admits it; an
\* admitted one starts the tool in a goroutine of its own.
EnterBreaker(c) ==
    LET b == call[c].breaker
        k == Current(circuit[b])
    IN  /\ call[c].phase = "wrapped"
        /\ IF Refuses(k)
           THEN /\ circuit' = [circuit EXCEPT ![b] = k]
                /\ call' = [call EXCEPT ![c] = Idle]
           ELSE /\ circuit' = [circuit EXCEPT ![b] = [k EXCEPT !.requests = @ + 1]]
                /\ call' = [call EXCEPT ![c].phase = "running", ![c].generation = k.generation]
        /\ UNCHANGED <<breakers, failed, now>>

\* An execution ends and its outcome passes outwards: to the breaker, then to the
\* answer.  An error result without an error counts as a success.
Leave(c, success) ==
    LET b == call[c].breaker
    IN  /\ call[c].phase = "running"
        /\ circuit' = [circuit EXCEPT ![b] = Reported(@, call[c].generation, success)]
        /\ failed' = IF success THEN failed ELSE failed \cup {call[c].tool}
        /\ call' = [call EXCEPT ![c] = Idle]
        /\ UNCHANGED <<breakers, now>>

\* The tool returns in time.
ToolReturns(c) == \E success \in BOOLEAN : Leave(c, success)

\* Faulty variant: the timeout layer outside the breaker layer.
ToolTimesOut_Outside(c) ==
    /\ call[c].phase = "running"
    /\ failed' = failed \cup {call[c].tool}
    /\ call' = [call EXCEPT ![c] = Idle]
    /\ UNCHANGED <<breakers, circuit, now>>
\* Faulty variant: no timeout: the call waits for a tool that hangs.
ToolTimesOut_Never(c) == FALSE /\ Leave(c, FALSE)
\* The timeout layer, inside the breaker layer, gives the execution up.  What the
\* abandoned goroutine returns later goes into a channel nobody reads.
ToolTimesOut(c) == Leave(c, FALSE)

Tick ==
    /\ now < MaxTime
    /\ now' = now + 1
    /\ UNCHANGED <<breakers, circuit, call, failed>>

-----------------------------------------------------------------------------
Init ==
    /\ breakers = [t \in Tool |-> None]
    /\ circuit = [b \in Breaker |-> Uncreated]
    /\ call = [c \in Call |-> Idle]
    /\ failed = {}
    /\ now = 0

\* What the server does by itself for a request it has received.
ServerStep(c) == FindBreaker(c) \/ CreateBreaker(c) \/ EnterBreaker(c) \/ ToolTimesOut(c)

Next ==
    \/ Tick
    \/ \E c \in Call :
          \/ \E t \in Tool : Receive(c, t)
          \/ Invalid(c)
          \/ ToolReturns(c)
          \/ ServerStep(c)

Spec == Init /\ [][Next]_vars

\* The Go scheduler runs every goroutine and its timers fire.  No tool is assumed to
\* return, and nobody to call.
FairSpec == Spec /\ \A c \in Call : WF_vars(ServerStep(c))

-----------------------------------------------------------------------------
\* The variables have their types, and a wrapped request holds a breaker that exists.
TypeOK ==
    /\ breakers \in [Tool -> Breaker \cup {None}]
    /\ circuit \in [Breaker -> CircuitRecord \cup {Uncreated}]
    /\ call \in [Call -> InFlight \cup {Idle}]
    /\ failed \subseteq Tool
    /\ now \in 0..MaxTime
    /\ \A c \in Call : Wrapped(c) =>
          call[c].breaker # None /\ circuit[call[c].breaker] # Uncreated

\* Requests that race to create the breaker of a tool all end up with one and the
\* same: no outcome is reported to a breaker that later requests do not ask
\* (circuitbreaker.go 30-44).
OneBreaker ==
    \A c \in Call : Wrapped(c) => call[c].breaker = breakers[BreakerName(call[c].tool)]

\* A tool whose executions never failed is never cut off, whatever the other tools
\* do ("one breaker per tool", circuitbreaker.go 23).
HealthyToolServed ==
    \A c \in Call : Wrapped(c) /\ circuit[call[c].breaker].state \in {"open", "half_open"}
        => call[c].tool \in failed

\* The requests a half-open breaker has admitted are those still executing and those
\* that succeeded: no probe is lost, or the breaker would refuse for ever.
ProbesAccountedFor ==
    \A b \in Breaker : circuit[b].state = "half_open" =>
        circuit[b].requests = circuit[b].successes
            + Cardinality({c \in Call : /\ call[c].phase = "running" /\ call[c].breaker = b
                                        /\ call[c].generation = circuit[b].generation})

\* A half-open breaker whose probes are all out does not refuse for ever, also when
\* the tool never returns: the timeout layer inside the breaker layer ends a probe.
HalfOpenResolves ==
    \A b \in Breaker :
        circuit[b].state = "half_open" /\ circuit[b].requests >= MaxRequests
            ~> ~(circuit[b].state = "half_open" /\ circuit[b].requests >= MaxRequests)

\* Every request is answered, also one whose tool hangs.
RequestsAnswered == \A c \in Call : call[c] # Idle ~> call[c] = Idle
=============================================================================
