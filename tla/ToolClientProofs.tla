--------------------------- MODULE ToolClientProofs ---------------------------
(***************************************************************************)
(* For any batches, calls, keys and peers and any TTL and capacity: the   *)
(* client's types, and the age of what its memory serves.  AnswerFresh is  *)
(* not inductive: it speaks of entries that are still served, and a hit in *)
(* Redis makes an old answer servable again.  Stamped adds that an answer  *)
(* is stamped less than a TTL after it was received.                       *)
(* CapacityWithoutRedis is inductive: one answer adds at most one entry,   *)
(* and whenever that is one too many an older one goes.                    *)
(***************************************************************************)
EXTENDS ToolClient, FiniteSetTheorems, TLAPS

Stamped ==
    /\ \A k \in Key : l1[k] # None => l1[k].at - l1[k].received < TTL
    /\ \A k \in Key : l2[k] # None => l2[k] <= now

-----------------------------------------------------------------------------
PermitsAgree ==
    /\ permits \in [Batch -> 0..MaxConcurrency]
    /\ \A b \in Batch : permits[b] = MaxConcurrency - Cardinality(Posted(b))

\* A call that is not gathered has its batch and its key.
LEMMA CallTyped ==
  ASSUME TypeOK, NEW s \in Slot, call[s].phase \in {"queued", "posted"}
  PROVE  /\ call[s] \in [batch : Batch, key : Key, phase : {"queued", "posted"}]
         /\ call[s].batch \in Batch /\ call[s].key \in Key
BY DEF TypeOK, CallRecord, Gathered

\* A call that is gathered gives back the one permit it held of its batch.
LEMMA GatherKeepsPermits ==
  ASSUME TypeOK, NEW s \in Slot, call[s].phase = "posted", Gather(s)
  PROVE  PermitsAgree' /\ call' \in [Slot -> CallRecord]
<1>1. call' \in [Slot -> CallRecord]
  BY DEF TypeOK, Gather, CallRecord
<1>2. PICK mine \in Batch : call[s].batch = mine
  BY CallTyped
<1>3. mine # None /\ \A b \in Batch : b # None
  BY ClientAssumption
<1>4. ASSUME NEW b \in Batch
      PROVE  permits'[b] \in 0..MaxConcurrency /\ permits'[b] = MaxConcurrency - Cardinality(Posted(b)')
  <2>0. permits[b] \in 0..MaxConcurrency /\ permits[b] = MaxConcurrency - Cardinality(Posted(b))
    BY DEF TypeOK
  <2>1. IsFiniteSet(Posted(b)) /\ Cardinality(Posted(b)) \in Nat
    BY FS_Subset, FS_CardinalityType, ClientAssumption DEF Posted
  <2>2. CASE b = mine
    <3>1. Posted(b)' = Posted(b) \ {s} /\ s \in Posted(b)
      BY <1>2, <1>3, <2>2 DEF TypeOK, Gather, Gathered, Posted
    <3>2. Cardinality(Posted(b)') = Cardinality(Posted(b)) - 1
      BY <2>1, <3>1, FS_RemoveElement
    <3>3. Cardinality(Posted(b)') \in Nat
      BY <2>1, <3>1, FS_Subset, FS_CardinalityType
    <3>4. permits'[b] = permits[b] + 1
      BY <1>2, <2>2 DEF Gather, TypeOK
    <3>5. QED BY <2>0, <2>1, <3>2, <3>3, <3>4, ClientAssumption
  <2>3. CASE b # mine
    <3>1. Posted(b)' = Posted(b)
      BY <1>2, <1>3, <2>3 DEF TypeOK, Gather, Gathered, Posted
    <3>2. permits'[b] = permits[b]
      BY <1>2, <2>3 DEF Gather, TypeOK
    <3>3. QED BY <2>0, <3>1, <3>2
  <2>4. QED BY <2>2, <2>3
<1>5. permits' = [permits EXCEPT ![mine] = @ + 1] /\ permits \in [Batch -> 0..MaxConcurrency]
  BY <1>2 DEF Gather, TypeOK
<1>6. permits' \in [Batch -> 0..MaxConcurrency]
  BY <1>4, <1>5
<1>7. QED BY <1>1, <1>4, <1>6 DEF PermitsAgree

\* A call that is gathered without having been posted leaves the permits alone.
LEMMA ServedKeepsPermits ==
  ASSUME TypeOK, NEW s \in Slot, call[s].phase = "queued",
         call' = [call EXCEPT ![s] = Gathered], permits' = permits
  PROVE  PermitsAgree' /\ call' \in [Slot -> CallRecord]
<1>1. \A b \in Batch : Posted(b)' = Posted(b)
  BY DEF TypeOK, Gathered, Posted
<1>2. QED BY <1>1 DEF TypeOK, CallRecord, PermitsAgree

\* A call that is posted takes one permit of its batch.
LEMMA PostTakesPermit ==
  ASSUME TypeOK, NEW s \in Slot, MayStart(s), call' = [call EXCEPT ![s].phase = "posted"],
         permits' = [permits EXCEPT ![call[s].batch] = @ - 1]
  PROVE  PermitsAgree' /\ call' \in [Slot -> CallRecord]
<1>1. call[s].phase = "queued" /\ permits[call[s].batch] > 0
  BY DEF MayStart
<1>2. call' \in [Slot -> CallRecord]
  <2>1. call[s] \in [batch : Batch, key : Key, phase : {"queued", "posted"}]
    BY <1>1, CallTyped
  <2>2. [call[s] EXCEPT !.phase = "posted"] \in CallRecord
    BY <2>1 DEF CallRecord
  <2>3. QED BY <2>2 DEF TypeOK
<1>3. PICK mine \in Batch : call[s].batch = mine
  BY <1>1, CallTyped
<1>4. /\ call[s] \in [batch : Batch, key : Key, phase : {"queued", "posted"}]
      /\ call'[s].batch = mine /\ call'[s].phase = "posted"
      /\ \A o \in Slot : o # s => call'[o] = call[o]
  BY <1>1, <1>3, CallTyped DEF TypeOK
<1>5. ASSUME NEW b \in Batch
      PROVE  permits'[b] \in 0..MaxConcurrency /\ permits'[b] = MaxConcurrency - Cardinality(Posted(b)')
  <2>0. permits[b] \in 0..MaxConcurrency /\ permits[b] = MaxConcurrency - Cardinality(Posted(b))
    BY DEF TypeOK
  <2>1. IsFiniteSet(Posted(b)) /\ Cardinality(Posted(b)) \in Nat
    BY FS_Subset, FS_CardinalityType, ClientAssumption DEF Posted
  <2>2. CASE b = mine
    <3>1. Posted(b)' = Posted(b) \cup {s} /\ s \notin Posted(b)
      BY <1>1, <1>4, <2>2 DEF Posted
    <3>2. Cardinality(Posted(b)') = Cardinality(Posted(b)) + 1
      BY <2>1, <3>1, FS_AddElement
    <3>3. permits'[b] = permits[b] - 1 /\ permits[b] > 0
      BY <1>1, <1>3, <2>2 DEF TypeOK
    <3>4. QED BY <2>0, <2>1, <3>2, <3>3, ClientAssumption
  <2>3. CASE b # mine
    <3>1. Posted(b)' = Posted(b)
      BY <1>1, <1>3, <1>4, <2>3 DEF Posted
    <3>2. permits'[b] = permits[b]
      BY <1>3, <2>3 DEF TypeOK
    <3>3. QED BY <2>0, <3>1, <3>2
  <2>4. QED BY <2>2, <2>3
<1>6. permits' = [permits EXCEPT ![mine] = @ - 1] /\ permits \in [Batch -> 0..MaxConcurrency]
  BY <1>3 DEF TypeOK
<1>7. permits' \in [Batch -> 0..MaxConcurrency]
  BY <1>5, <1>6
<1>8. QED BY <1>2, <1>5, <1>7 DEF PermitsAgree

\* A batch that starts has none of its calls posted, and the others keep theirs.
LEMMA StartKeepsPermits ==
  ASSUME TypeOK, NEW started \in Batch, NEW keys \in [Slot -> Key \cup {None}], StartBatch(started, keys)
  PROVE  PermitsAgree' /\ call' \in [Slot -> CallRecord]
<1>1. call' \in [Slot -> CallRecord]
  BY DEF StartBatch, CallRecord, TypeOK
<1>2. /\ permits \in [Batch -> 0..MaxConcurrency]
      /\ permits' = [permits EXCEPT ![started] = MaxConcurrency]
      /\ permits' \in [Batch -> 0..MaxConcurrency]
  BY ClientAssumption DEF StartBatch, TypeOK
<1>3. ASSUME NEW b \in Batch PROVE permits'[b] = MaxConcurrency - Cardinality(Posted(b)')
  <2>1. CASE b = started
    <3>1. Posted(b)' = {}
      BY <2>1 DEF StartBatch, UnderWay, Posted, TypeOK
    <3>2. QED BY <1>2, <2>1, <3>1, FS_EmptySet, ClientAssumption
  <2>2. CASE b # started
    <3>1. Posted(b)' = Posted(b)
      BY <2>2, ClientAssumption DEF StartBatch, Posted, Gathered, TypeOK
    <3>2. QED BY <1>2, <2>2, <3>1 DEF TypeOK
  <2>3. QED BY <2>1, <2>2
<1>4. QED BY <1>1, <1>2, <1>3 DEF PermitsAgree

\* Whatever _set_cache leaves in memory is typed, and what is young in it was just
\* received or was there before.
LEMMA StoredKeepsEntries ==
  ASSUME TypeOK, NEW k \in Key, NEW memory \in Stored(k)
  PROVE  /\ memory \in [Key -> Entry \cup {None}]
         /\ \A o \in Key : memory[o] \in {None, l1[o], [at |-> now, received |-> now]}
BY DEF TypeOK, Stored, Oldest, Entry

LEMMA InitSafe == Init => TypeOK /\ Stamped
<1> SUFFICES ASSUME Init PROVE TypeOK /\ Stamped
  OBVIOUS
<1>1. \A b \in Batch : Posted(b) = {}
  BY DEF Init, Posted, Gathered
<1>2. /\ permits \in [Batch -> 0..MaxConcurrency]
      /\ \A b \in Batch : permits[b] = MaxConcurrency - Cardinality(Posted(b))
  <2>1. permits = [b \in Batch |-> MaxConcurrency]
    BY DEF Init
  <2>2. ASSUME NEW b \in Batch PROVE permits[b] = MaxConcurrency - Cardinality(Posted(b))
    <3>1. Cardinality(Posted(b)) = 0 BY <1>1, FS_EmptySet
    <3>2. permits[b] = MaxConcurrency BY <2>1
    <3>3. QED BY <3>1, <3>2, ClientAssumption
  <2>3. permits \in [Batch -> 0..MaxConcurrency] BY <2>1, ClientAssumption
  <2>4. QED BY <2>2, <2>3
<1>3. call \in [Slot -> CallRecord]
  BY DEF Init, CallRecord
<1>4. QED BY <1>2, <1>3, ClientAssumption DEF Init, TypeOK, Stamped, Entry

LEMMA NextSafe == TypeOK /\ Stamped /\ [Next]_vars => TypeOK' /\ Stamped'
<1> SUFFICES ASSUME TypeOK, Stamped, [Next]_vars PROVE TypeOK' /\ Stamped'
  OBVIOUS
<1> USE ClientAssumption
<1>1. CASE Tick
  <2>1. \A b \in Batch : Posted(b)' = Posted(b) BY <1>1 DEF Tick, Posted
  <2>2. TypeOK' BY <1>1, <2>1 DEF Tick, TypeOK
  <2>3. QED BY <1>1, <2>2 DEF Tick, TypeOK, Stamped, Entry
<1>2. ASSUME NEW k \in PeerKey, PeerStores(k) PROVE TypeOK' /\ Stamped'
  <2>1. \A b \in Batch : Posted(b)' = Posted(b) BY <1>2 DEF PeerStores, Posted
  <2>2. TypeOK' BY <1>2, <2>1 DEF PeerStores, TypeOK
  <2>3. QED BY <1>2, <2>2 DEF PeerStores, TypeOK, Stamped
<1>3. ASSUME NEW b \in Batch, NEW keys \in [Slot -> Key \cup {None}], StartBatch(b, keys)
      PROVE  TypeOK' /\ Stamped'
  <2>1. TypeOK' BY <1>3, StartKeepsPermits DEF StartBatch, TypeOK, PermitsAgree
  <2>2. QED BY <1>3, <2>1 DEF StartBatch, Stamped
<1>4. ASSUME NEW ok \in BOOLEAN, HealthCheck(ok) PROVE TypeOK' /\ Stamped'
  <2>1. \A b \in Batch : Posted(b)' = Posted(b) BY <1>4 DEF HealthCheck, Posted
  <2>2. QED BY <1>4, <2>1 DEF HealthCheck, TypeOK, Stamped
<1>5. ASSUME NEW s \in Slot, Answered(s) PROVE TypeOK' /\ Stamped'
  <2> DEFINE k == call[s].key
  <2>1. k \in Key BY <1>5 DEF Answered, TypeOK, CallRecord, Gathered
  <2>2. CASE k \in Cacheable
    <3>1. PICK memory \in Stored(k) : l1' = memory
      BY <1>5, <2>2 DEF Answered
    <3>2. l2' \in [Key -> Nat \cup {None}] /\ \A o \in Key : l2'[o] \in {l2[o], now}
      BY <1>5, <2>1, <2>2 DEF Answered, TypeOK
    <3>3. TypeOK'
      BY <1>5, <2>1, <3>1, <3>2, GatherKeepsPermits, StoredKeepsEntries DEF Answered, TypeOK, PermitsAgree
    <3>4. \A o \in Key : l1'[o] \in {None, l1[o], [at |-> now, received |-> now]}
      BY <2>1, <3>1, StoredKeepsEntries
    <3>5. now' = now BY <1>5 DEF Answered
    <3>6. QED BY <3>2, <3>3, <3>4, <3>5 DEF Stamped, TypeOK, Entry
  <2>3. CASE k \notin Cacheable
    <3>1. UNCHANGED <<l1, l2, now>> BY <1>5, <2>3 DEF Answered
    <3>2. TypeOK' BY <1>5, <3>1, GatherKeepsPermits DEF Answered, TypeOK, PermitsAgree
    <3>3. QED BY <3>1, <3>2 DEF Stamped
  <2>4. QED BY <2>2, <2>3
<1>6. ASSUME NEW s \in Slot, Fails(s) \/ TimesOut(s) PROVE TypeOK' /\ Stamped'
  <2>1. TypeOK' BY <1>6, GatherKeepsPermits DEF Fails, TimesOut, TypeOK, PermitsAgree
  <2>2. QED BY <1>6, <2>1 DEF Fails, TimesOut, Stamped
<1>7. ASSUME NEW s \in Slot, HitMemory(s) PROVE TypeOK' /\ Stamped'
  <2>1. TypeOK' BY <1>7, ServedKeepsPermits DEF HitMemory, MayStart, TypeOK, PermitsAgree
  <2>2. QED BY <1>7, <2>1 DEF HitMemory, Stamped
<1>8. ASSUME NEW s \in Slot, HitRedis(s) PROVE TypeOK' /\ Stamped'
  <2> DEFINE k == call[s].key
  <2>1. l1' = [l1 EXCEPT ![k] = [at |-> now, received |-> l2[k]]] /\ k \in Key
    BY <1>8 DEF HitRedis
  <2>2. l2[k] \in Nat /\ now - l2[k] < TTL
    BY <1>8, <2>1 DEF HitRedis, Alive, TypeOK
  <2>3. l1' \in [Key -> Entry \cup {None}]
    BY <2>1, <2>2 DEF TypeOK, Entry
  <2>4. TypeOK' BY <1>8, <2>3, ServedKeepsPermits DEF HitRedis, MayStart, TypeOK, PermitsAgree
  <2>5. \A o \in Key : l1'[o] \in {l1[o], [at |-> now, received |-> l2[k]]}
    BY <2>1 DEF TypeOK
  <2>6. QED BY <1>8, <2>2, <2>4, <2>5 DEF HitRedis, TypeOK, Stamped
<1>9. ASSUME NEW s \in Slot, Miss(s) PROVE TypeOK' /\ Stamped'
  <2> DEFINE k == call[s].key
  <2>0. MayStart(s) /\ call[s].phase = "queued" BY <1>9 DEF Miss, MayStart
  <2>1. l1' \in [Key -> Entry \cup {None}] /\ \A o \in Key : l1'[o] \in {None, l1[o]}
    BY <1>9 DEF Miss, TypeOK
  <2>2. CASE healthy
    <3>1. /\ call' = [call EXCEPT ![s].phase = "posted"]
          /\ permits' = [permits EXCEPT ![call[s].batch] = @ - 1]
      BY <1>9, <2>2 DEF Miss
    <3>2. PermitsAgree' /\ call' \in [Slot -> CallRecord]
      BY <2>0, <3>1, PostTakesPermit
    <3>3. TypeOK' BY <1>9, <2>1, <3>2 DEF Miss, TypeOK, PermitsAgree
    <3>4. QED BY <1>9, <2>1, <3>3 DEF Miss, TypeOK, Stamped
  <2>3. CASE ~healthy
    <3>1. TypeOK'
      BY <1>9, <2>0, <2>1, <2>3, ServedKeepsPermits DEF Miss, TypeOK, PermitsAgree
    <3>2. QED BY <1>9, <2>1, <3>1 DEF Miss, TypeOK, Stamped
  <2>4. QED BY <2>2, <2>3 DEF TypeOK
<1>10. CASE UNCHANGED vars
  <2>1. \A b \in Batch : Posted(b)' = Posted(b) BY <1>10 DEF vars, Posted
  <2>2. QED BY <1>10, <2>1 DEF vars, TypeOK, Stamped
<1>11. QED
  BY <1>1, <1>2, <1>3, <1>4, <1>5, <1>6, <1>7, <1>8, <1>9, <1>10 DEF Next, LoopStep

-----------------------------------------------------------------------------
\* The client is well typed, and each semaphore's permits are those of its batch's calls
\* under way, for any number of batches of any size and any number of permits.
THEOREM ClientTypeCorrect == Spec => []TypeOK
<1>1. Spec => [](TypeOK /\ Stamped)
  BY InitSafe, NextSafe, PTL DEF Spec
<1>2. QED BY <1>1, PTL

\* No answer older than twice the TTL is served from memory, for any TTL, any number of
\* keys and any behaviour of the other processes.
THEOREM AnswerFreshHolds == Spec => []AnswerFresh
<1>1. Spec => [](TypeOK /\ Stamped)
  BY InitSafe, NextSafe, PTL DEF Spec
<1>2. TypeOK /\ Stamped => AnswerFresh
  BY ClientAssumption DEF TypeOK, Stamped, AnswerFresh, Servable, Entry
<1>3. QED BY <1>1, <1>2, PTL

-----------------------------------------------------------------------------
\* The keys a memory has an entry for.
Held(memory) == {k \in Key : memory[k] # None}

\* A memory with fewer entries is not larger.
LEMMA FewerHeld ==
  ASSUME NEW m, NEW n, Held(n) \subseteq Held(m)
  PROVE  /\ IsFiniteSet(Held(m)) /\ IsFiniteSet(Held(n))
         /\ Cardinality(Held(m)) \in Nat /\ Cardinality(Held(n)) \in Nat
         /\ Cardinality(Held(n)) <= Cardinality(Held(m))
<1>1. IsFiniteSet(Held(m))
  BY FS_Subset, ClientAssumption DEF Held
<1>2. IsFiniteSet(Held(n)) /\ Cardinality(Held(n)) <= Cardinality(Held(m))
  BY <1>1, FS_Subset
<1>3. QED BY <1>1, <1>2, FS_CardinalityType

\* One more element makes a finite set larger by one at most.
LEMMA OneMore ==
  ASSUME NEW S, IsFiniteSet(S), NEW e, NEW n \in Nat, Cardinality(S) <= n
  PROVE  /\ IsFiniteSet(S \cup {e}) /\ Cardinality(S \cup {e}) \in Nat
         /\ Cardinality(S \cup {e}) <= n + 1
<1>1. Cardinality(S) \in Nat
  BY FS_CardinalityType
<1>2. CASE e \in S
  <2>1. S \cup {e} = S BY <1>2
  <2>2. QED BY <1>1, <2>1
<1>3. CASE e \notin S
  <2>1. IsFiniteSet(S \cup {e}) /\ Cardinality(S \cup {e}) = Cardinality(S) + 1
    BY <1>3, FS_AddElement
  <2>2. QED BY <1>1, <2>1
<1>4. QED BY <1>2, <1>3

\* _set_cache never leaves more entries than the capacity if there were not more before.
LEMMA StoredFits ==
  ASSUME TypeOK, Size <= Capacity, NEW k \in Key, NEW stored \in Stored(k)
  PROVE  Cardinality(Held(stored)) <= Capacity
<1> DEFINE memory == [l1 EXCEPT ![k] = [at |-> now, received |-> now]]
<1>1. \A o \in Key : o # k => memory[o] = l1[o]
  BY DEF TypeOK
<1>2. Held(memory) \subseteq Held(l1) \cup {k}
  BY <1>1 DEF Held
<1>3. /\ IsFiniteSet(Held(l1)) /\ Cardinality(Held(l1)) \in Nat
      /\ Cardinality(Held(l1)) <= Capacity
  BY FewerHeld DEF Size, Held
<1>4. /\ IsFiniteSet(Held(memory)) /\ Cardinality(Held(memory)) \in Nat
      /\ Cardinality(Held(memory)) <= Capacity + 1
  <2>1. /\ IsFiniteSet(Held(l1) \cup {k})
        /\ Cardinality(Held(l1) \cup {k}) \in Nat
        /\ Cardinality(Held(l1) \cup {k}) <= Capacity + 1
    BY <1>3, OneMore, ClientAssumption
  <2>2. IsFiniteSet(Held(memory)) /\ Cardinality(Held(memory)) <= Cardinality(Held(l1) \cup {k})
    BY <1>2, <2>1, FS_Subset
  <2>3. QED BY <2>1, <2>2, FS_CardinalityType, ClientAssumption
<1>5. CASE ~(Cardinality(Held(memory)) > Capacity)
  <2>1. stored = memory
    BY <1>5 DEF Stored, Held
  <2>2. QED BY <1>4, <1>5, <2>1, ClientAssumption
<1>6. CASE Cardinality(Held(memory)) > Capacity
  <2>1. PICK o \in Oldest(memory, k) : stored = [memory EXCEPT ![o] = None]
    BY <1>6 DEF Stored, Held
  <2>2. o \in Key /\ memory[o] # None
    BY <2>1 DEF Oldest
  <2>3. Held(stored) = Held(memory) \ {o} /\ o \in Held(memory)
    BY <2>1, <2>2 DEF Held, TypeOK
  <2>4. Cardinality(Held(stored)) = Cardinality(Held(memory)) - 1
    BY <1>4, <2>3, FS_RemoveElement
  <2>5. QED BY <1>4, <2>4, ClientAssumption
<1>7. QED BY <1>5, <1>6

LEMMA NextFits == TypeOK /\ CapacityWithoutRedis /\ [Next]_vars => CapacityWithoutRedis'
<1> SUFFICES ASSUME TypeOK, CapacityWithoutRedis, [Next]_vars, ~useRedis'
             PROVE  Size' <= Capacity
  BY DEF CapacityWithoutRedis
<1>1. ~useRedis
  BY DEF Next, LoopStep, vars, Tick, PeerStores, StartBatch, HealthCheck, Answered, Fails,
         HitMemory, HitRedis, Miss, TimesOut
<1>2. Size <= Capacity
  BY <1>1 DEF CapacityWithoutRedis
<1>3. Size = Cardinality(Held(l1)) /\ Size' = Cardinality(Held(l1'))
  BY DEF Size, Held
<1>4. CASE Held(l1') \subseteq Held(l1)
  BY <1>2, <1>3, <1>4, FewerHeld, ClientAssumption
<1>5. ASSUME NEW s \in Slot, Answered(s) PROVE Size' <= Capacity
  <2>1. call[s].key \in Key
    BY <1>5 DEF Answered, TypeOK, CallRecord, Gathered
  <2>2. CASE call[s].key \in Cacheable
    <3>1. PICK stored \in Stored(call[s].key) : l1' = stored
      BY <1>5, <2>2 DEF Answered
    <3>2. QED BY <1>2, <1>3, <2>1, <3>1, StoredFits
  <2>3. CASE call[s].key \notin Cacheable
    BY <1>4, <1>5, <2>3 DEF Answered
  <2>4. QED BY <2>2, <2>3
<1>6. ASSUME NEW s \in Slot, Miss(s) PROVE Size' <= Capacity
  <2>1. Held(l1') \subseteq Held(l1)
    BY <1>6 DEF Miss, Held, TypeOK
  <2>2. QED BY <1>4, <2>1
<1>7. ASSUME NEW s \in Slot, HitRedis(s) PROVE FALSE
  BY <1>1, <1>7 DEF HitRedis
<1>8. CASE l1' = l1
  BY <1>4, <1>8
<1>9. QED
  BY <1>5, <1>6, <1>7, <1>8 DEF Next, LoopStep, vars, Tick, PeerStores, StartBatch, HealthCheck,
     Fails, HitMemory, TimesOut

\* Without Redis the memory keeps within its capacity, for any capacity, any number of
\* keys and calls, and any order of their answers.
THEOREM MemoryStaysBounded == Spec => []CapacityWithoutRedis
<1>1. Init => CapacityWithoutRedis
  <2> SUFFICES ASSUME Init PROVE Size <= Capacity
    BY DEF CapacityWithoutRedis
  <2>1. {k \in Key : l1[k] # None} = {}
    BY DEF Init
  <2>2. QED BY <2>1, FS_EmptySet, ClientAssumption DEF Size
<1>2. Spec => []TypeOK BY ClientTypeCorrect
<1>3. QED BY <1>1, <1>2, NextFits, PTL DEF Spec
=============================================================================
