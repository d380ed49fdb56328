------------------------------ MODULE ToolClient ------------------------------
(***************************************************************************)
(* mcp_client/client.py: the batches of tool calls of one client process   *)
(* to the MCP server, several of them under way at a time and each with a  *)
(* semaphore of its own, over a memory cache (L1) and, if Redis answered   *)
(* when the process started, a cache in Redis (L2) it shares with other    *)
(* processes.  These meet this one in L2 only: all that is seen of them is *)
(* that fresh answers appear there.                                        *)
(*                                                                         *)
(* Within a process the code is cooperative: between the cache lookup and  *)
(* the HTTP request, and between its response and the write of both        *)
(* caches, no other coroutine runs, and Redis is called synchronously.  So *)
(* a call is two steps, the way out and the way back, and calls overlap    *)
(* between them.  A key stands for a tool with its parameters; what an     *)
(* answer says is left out, and only when it was received is kept.         *)
(***************************************************************************)
EXTENDS Integers, FiniteSets

CONSTANTS
    Batch,          \* names of the batches under way
    Slot,           \* places for calls under way, over all batches
    Key,            \* tool and parameters
    Cacheable,      \* the keys whose tool is in CACHEABLE_PREFIXES
    MaxConcurrency, \* permits of a batch's semaphore (5 in the code)
    Capacity,       \* entries of L1 (200 in the code)
    TTL,            \* CACHE_TTL_SECONDS
    PeerKey,        \* bound: the keys other processes ask for
    None,           \* no key, no entry, no batch
    MaxTime         \* bound: the clock

ASSUME ClientAssumption ==
    /\ MaxConcurrency \in Nat \ {0} /\ Capacity \in Nat \ {0} /\ TTL \in Nat \ {0}
    /\ MaxTime \in Nat
    /\ Cacheable \subseteq Key /\ PeerKey \subseteq Cacheable /\ None \notin Key \cup Batch
    /\ IsFiniteSet(Slot) /\ IsFiniteSet(Key)

VARIABLES
    useRedis, \* Redis answered the ping of _init_redis
    healthy,  \* _backend_healthy, what the last health check found
    l1,       \* per key: when the entry was stamped and its answer received
    l2,       \* per key: when the answer in Redis was received
    permits,  \* per batch: the free permits of its semaphore
    call,     \* per slot: the batch, the key and the phase of a call
    now       \* the clock

vars == <<useRedis, healthy, l1, l2, permits, call, now>>

Entry == [at : Nat, received : Nat]
\* A slot without a call, or whose call has finished with a result or an error.
Gathered == [batch |-> None, key |-> None, phase |-> "gathered"]
CallRecord == [batch : Batch, key : Key, phase : {"queued", "posted"}] \cup {Gathered}

\* A memory entry that is served, and a Redis entry that has not expired.
Servable(e) == e # None /\ now - e.at < TTL
Alive(received) == received # None /\ now - received < TTL

Posted(b) == {s \in Slot : call[s].batch = b /\ call[s].phase = "posted"}

\* len(self._cache).
Size == Cardinality({k \in Key : l1[k] # None})

-----------------------------------------------------------------------------
UnderWay(b) == \E s \in Slot : call[s].batch = b

\* batch_call_tools: one task per call, all waiting for the batch's semaphore, next
\* to whatever other batches are doing.  A single call_tool is a batch of one: its
\* semaphore lets it in at once.
StartBatch(b, keys) ==
    /\ ~UnderWay(b)
    /\ \E s \in Slot : keys[s] # None
    /\ \A s \in Slot : keys[s] # None => call[s] = Gathered
    /\ call' = [s \in Slot |-> IF keys[s] = None THEN call[s]
                            ELSE [batch |-> b, key |-> keys[s], phase |-> "queued"]]
    /\ permits' = [permits EXCEPT ![b] = MaxConcurrency]
    /\ UNCHANGED <<useRedis, healthy, l1, l2, now>>

\* Faulty variant: a permit released by hand and again by the block.
Gather_Twice(s) ==
    /\ call' = [call EXCEPT ![s] = Gathered]
    /\ permits' = [permits EXCEPT ![call[s].batch] = @ + 2]
\* The task ends: it leaves the semaphore's block.
Gather(s) ==
    /\ call' = [call EXCEPT ![s] = Gathered]
    /\ permits' = [permits EXCEPT ![call[s].batch] = @ + 1]

\* The way out of call_tool, once the semaphore has let the task in.
MayStart(s) == call[s].phase = "queued" /\ permits[call[s].batch] > 0

\* _get_cache finds a young entry in memory.
\* Faulty variant: a hit renews the entry, as an LRU cache would.
HitMemory_Renews(s) ==
    LET k == call[s].key
    IN  /\ MayStart(s) /\ k \in Cacheable
        /\ Servable(l1[k])
        /\ l1' = [l1 EXCEPT ![k].at = now]
        /\ call' = [call EXCEPT ![s] = Gathered]
        /\ UNCHANGED <<useRedis, healthy, l2, permits, now>>
HitMemory(s) ==
    LET k == call[s].key
    IN  /\ MayStart(s) /\ k \in Cacheable
        /\ Servable(l1[k])
        /\ call' = [call EXCEPT ![s] = Gathered]
        /\ UNCHANGED <<useRedis, healthy, l1, l2, permits, now>>

\* It finds none, or deletes an old one, and Redis has the answer: it is stamped as
\* new in memory, without a look at the capacity.
HitRedis(s) ==
    LET k == call[s].key
    IN  /\ MayStart(s) /\ k \in Cacheable
        /\ ~Servable(l1[k])
        /\ useRedis /\ Alive(l2[k])
        /\ l1' = [l1 EXCEPT ![k] = [at |-> now, received |-> l2[k]]]
        /\ call' = [call EXCEPT ![s] = Gathered]
        /\ UNCHANGED <<useRedis, healthy, l2, permits, now>>

\* Neither has it (or GET failed): the request is posted, unless the last health
\* check found the server down; then the call fails at once.
Miss(s) ==
    LET k == call[s].key
    IN  /\ MayStart(s)
        /\ k \in Cacheable => ~Servable(l1[k])
        /\ l1' = IF k \in Cacheable THEN [l1 EXCEPT ![k] = None] ELSE l1
        /\ IF healthy
           THEN /\ call' = [call EXCEPT ![s].phase = "posted"]
                /\ permits' = [permits EXCEPT ![call[s].batch] = @ - 1]
           ELSE /\ call' = [call EXCEPT ![s] = Gathered]
                /\ UNCHANGED permits
        /\ UNCHANGED <<useRedis, healthy, l2, now>>

-----------------------------------------------------------------------------
\* Which entry of a memory of too many entries goes: the oldest.  The entry just
\* written is the youngest, also where the clock cannot tell.
Oldest(memory, k) ==
    {o \in Key \ {k} : /\ memory[o] # None
                       /\ \A p \in Key \ {k} : memory[p] # None => memory[o].at <= memory[p].at}

\* Faulty variant: nothing is evicted.
Stored_NoEviction(k) == {[l1 EXCEPT ![k] = [at |-> now, received |-> now]]}
\* _set_cache, in memory: the possible memories after an answer for k is stored.
Stored(k) ==
    LET memory == [l1 EXCEPT ![k] = [at |-> now, received |-> now]]
    IN  IF Cardinality({o \in Key : memory[o] # None}) > Capacity
        THEN {[memory EXCEPT ![o] = None] : o \in Oldest(memory, k)}
        ELSE {memory}

\* The response has a result (also one that says isError): it is cached in memory and,
\* unless SETEX fails, in Redis.
Answered(s) ==
    LET k == call[s].key
    IN  /\ call[s].phase = "posted"
        /\ IF k \in Cacheable
           THEN /\ \E memory \in Stored(k) : l1' = memory
                /\ \/ useRedis /\ l2' = [l2 EXCEPT ![k] = now]
                   \/ UNCHANGED l2
           ELSE UNCHANGED <<l1, l2>>
        /\ Gather(s)
        /\ UNCHANGED <<useRedis, healthy, now>>

\* The response is an HTTP or JSON-RPC error, or the connection breaks.
Fails(s) ==
    /\ call[s].phase = "posted"
    /\ Gather(s)
    /\ UNCHANGED <<useRedis, healthy, l1, l2, now>>

\* Faulty variant: the cancelled task keeps its permit.
TimesOut_KeepsPermit(s) ==
    /\ call[s].phase = "posted"
    /\ call' = [call EXCEPT ![s] = Gathered]
    /\ UNCHANGED <<useRedis, healthy, l1, l2, permits, now>>
\* The time limit of wait_for or of the HTTP request passes: the request is given up,
\* and what the server answers later goes to nobody.
TimesOut(s) ==
    /\ call[s].phase = "posted"
    /\ Gather(s)
    /\ UNCHANGED <<useRedis, healthy, l1, l2, now>>

\* Another process has an answer and writes it to Redis, as Answered does here.
PeerStores(k) ==
    /\ l2' = [l2 EXCEPT ![k] = now]
    /\ UNCHANGED <<useRedis, healthy, l1, permits, call, now>>

HealthCheck(ok) ==
    /\ healthy' = ok
    /\ UNCHANGED <<useRedis, l1, l2, permits, call, now>>

Tick ==
    /\ now < MaxTime
    /\ now' = now + 1
    /\ UNCHANGED <<useRedis, healthy, l1, l2, permits, call>>

-----------------------------------------------------------------------------
Init ==
    /\ useRedis \in BOOLEAN
    /\ healthy = TRUE
    /\ l1 = [k \in Key |-> None]
    /\ l2 = [k \in Key |-> None]
    /\ permits = [b \in Batch |-> MaxConcurrency]
    /\ call = [s \in Slot |-> Gathered]
    /\ now = 0

\* What the event loop does by itself for a call.
LoopStep(s) == HitMemory(s) \/ HitRedis(s) \/ Miss(s) \/ TimesOut(s)

Next ==
    \/ Tick
    \/ \E k \in PeerKey : PeerStores(k)
    \/ \E b \in Batch, keys \in [Slot -> Key \cup {None}] : StartBatch(b, keys)
    \/ \E ok \in BOOLEAN : HealthCheck(ok)
    \/ \E s \in Slot : Answered(s) \/ Fails(s) \/ LoopStep(s)

Spec == Init /\ [][Next]_vars

\* The event loop runs every task that is ready, and its timers fire.  The server is
\* not assumed to answer.
FairSpec == Spec /\ \A s \in Slot : WF_vars(LoopStep(s))

-----------------------------------------------------------------------------
\* The variables have their types, and each semaphore's permits are those of its
\* batch's calls under way.
TypeOK ==
    /\ useRedis \in BOOLEAN /\ healthy \in BOOLEAN
    /\ l1 \in [Key -> Entry \cup {None}]
    /\ l2 \in [Key -> Nat \cup {None}]
    /\ permits \in [Batch -> 0..MaxConcurrency]
    /\ \A b \in Batch : permits[b] = MaxConcurrency - Cardinality(Posted(b))
    /\ call \in [Slot -> CallRecord]
    /\ now \in 0..MaxTime

\* What the client serves from its memory was received from the server, by this process
\* or another, less than twice the TTL ago, however often the entry moved from Redis to
\* a memory (client.py 205-220): the two levels do not renew each other.
AnswerFresh ==
    \A k \in Key :
        Servable(l1[k]) => now - l1[k].received < 2 * TTL

\* Without Redis the memory keeps within its capacity, whichever calls overlap and in
\* which order their answers come ("capacity 200", client.py 39).
CapacityWithoutRedis == ~useRedis => Size <= Capacity

\* Every batch returns, also when the server answers nothing: each call that does not
\* get its answer in time gives its permit back to those that wait (client.py 128-145).
BatchReturns ==
    \A s \in Slot : call[s] # Gathered ~> call[s] = Gathered
=============================================================================
