---------------------------- MODULE SemanticCache ---------------------------
(* The two levels of the LLM answer cache (llm/cache.py): a dictionary from *)
(* the hash of the messages to an entry, and a list of the entries that     *)
(* carry an embedding, which a lookup scans for a similar query.  Entries   *)
(* are numbered in the order they are put, which is the order of the list   *)
(* and of their creation times; both levels share them and their hit count. *)
EXTENDS Naturals, FiniteSets

CONSTANTS
    Queries,        \* message lists; one of them determines its hash
    Ttls,           \* the values of TTL_BY_TASK
    Closeness,      \* rank of the similarity to each query, 0: below threshold
    MaxEntries,     \* max_entries
    Reserve,        \* entries evicted beyond the need (100)
    MaxPuts, MaxTime, MaxHits   \* bounds of the model: puts, ticks, hits of an entry

ASSUME CacheAssumption ==
    /\ IsFiniteSet(Queries) /\ Queries # {}
    /\ Ttls \subseteq Nat /\ Ttls # {}
    /\ Closeness \in [Queries -> [Queries -> 0..Cardinality(Queries)]]
    /\ MaxEntries \in Nat \ {0} /\ Reserve \in Nat \ {0}
    /\ MaxPuts \in Nat /\ MaxTime \in Nat /\ MaxHits \in Nat

Entries == 1..MaxPuts
None == 0

VARIABLES
    puts,       \* entries put so far
    entry,      \* query, TTL, creation time and hit count of every entry put
    l1,         \* the entry of every query in the dictionary, or None
    l2,         \* the entries in the list
    now,        \* time.monotonic
    newest      \* the last entry put for a query and not invalidated since

cacheVars == <<puts, entry, l1, l2, now, newest>>

Unused == [query |-> CHOOSE q \in Queries : TRUE, ttl |-> CHOOSE t \in Ttls : TRUE,
           created |-> 0, hits |-> 0]
IsExpired(v) == now > entry[v].created + entry[v].ttl
InL1 == {q \in Queries : l1[q] # None}

\* _search_l2: the best of the unexpired entries above the threshold; of equal
\* ones, which are those of one query, the first in the list.
SearchL2(q) ==
    LET rank(v) == Closeness[q][entry[v].query]
        near == {v \in l2 : ~IsExpired(v) /\ rank(v) > 0}
        best == {v \in near : \A w \in near : rank(w) <= rank(v)}
    IN IF near = {} THEN None ELSE CHOOSE v \in best : \A w \in best : v <= w

\* The entry get(q) answers with, or None for a miss.
Answer(q) == IF l1[q] # None /\ ~IsExpired(l1[q]) THEN l1[q] ELSE SearchL2(q)

\* A hit counts for the entry; an expired entry of the query leaves the
\* dictionary and stays in the list.
Get(q) ==
    /\ LET v == Answer(q)
       IN IF v = None THEN UNCHANGED entry
          ELSE entry[v].hits < MaxHits /\ entry' = [entry EXCEPT ![v].hits = @ + 1]
    /\ l1' = IF l1[q] # None /\ IsExpired(l1[q]) THEN [l1 EXCEPT ![q] = None] ELSE l1
    /\ UNCHANGED <<puts, l2, now, newest>>

\* The entries that stay when the dictionary is full: the expired go and, if
\* that is not enough, those with the fewest hits, the older first.
Before(v, w) == \/ entry[v].hits < entry[w].hits
                \/ entry[v].hits = entry[w].hits /\ v < w

Kept ==
    LET live == {q \in InL1 : ~IsExpired(l1[q])}
        goes(q) == Cardinality({p \in live : Before(l1[p], l1[q])})
                     < (Cardinality(live) - MaxEntries) + Reserve
    IN IF Cardinality(live) < MaxEntries THEN live ELSE {q \in live : ~goes(q)}

\* Faulty: eviction forgets the list.
Synced_Never(keys) == l2

\* The list is cut down to the queries that are in the dictionary.
Synced(keys) == {v \in l2 : entry[v].query \in keys}

\* put(messages, response, task_type, embedding): the TTL is that of the task,
\* which is no part of the key, so an entry may replace one of another TTL.
Put(q, ttl, embeds) ==
    /\ puts < MaxPuts
    /\ LET v == puts + 1
           full == Cardinality(InL1) >= MaxEntries
           keys == IF full THEN Kept ELSE InL1
           list == IF full THEN Synced(keys) ELSE l2
       IN /\ puts' = v
          /\ entry' = [entry EXCEPT ![v] = [query |-> q, ttl |-> ttl, created |-> now, hits |-> 0]]
          /\ l1' = [p \in Queries |-> IF p = q THEN v ELSE IF p \in keys THEN l1[p] ELSE None]
          /\ l2' = IF embeds THEN list \cup {v} ELSE list
          /\ newest' = [newest EXCEPT ![q] = v]
    /\ UNCHANGED now

\* invalidate(pattern) removes the queries whose hash contains the pattern from
\* both levels; without a pattern that is all of them.
Invalidate(Q) ==
    /\ l1' = [q \in Queries |-> IF q \in Q THEN None ELSE l1[q]]
    /\ l2' = {v \in l2 : entry[v].query \notin Q}
    /\ newest' = [q \in Queries |-> IF q \in Q THEN None ELSE newest[q]]
    /\ UNCHANGED <<puts, entry, now>>

CacheTick ==
    /\ now < MaxTime /\ now' = now + 1
    /\ UNCHANGED <<puts, entry, l1, l2, newest>>

CacheInit ==
    /\ puts = 0 /\ now = 0 /\ l2 = {}
    /\ entry = [v \in Entries |-> Unused]
    /\ l1 = [q \in Queries |-> None]
    /\ newest = [q \in Queries |-> None]

CacheNext ==
    \/ \E q \in Queries : Get(q) \/ \E ttl \in Ttls, embeds \in BOOLEAN : Put(q, ttl, embeds)
    \/ \E Q \in SUBSET Queries : Invalidate(Q)
    \/ CacheTick
CacheSpec == CacheInit /\ [][CacheNext]_cacheVars

----------------------------------------------------------------------------
CacheTypeOK ==
    /\ puts \in 0..MaxPuts /\ now \in 0..MaxTime
    /\ entry \in [Entries -> [query : Queries, ttl : Ttls, created : 0..MaxTime, hits : 0..MaxHits]]
    /\ l1 \in [Queries -> 0..puts] /\ l2 \subseteq 1..puts
    /\ newest \in [Queries -> 0..puts]

(* A query that is answered with an answer of its own gets the last one that *)
(* was put for it and not invalidated: entries replaced, evicted or          *)
(* invalidated on the first level do not come back from the second, where    *)
(* the older ones of the same query stay listed.  There is one exception:    *)
(* when the newest has expired, an older one put for a task with a longer    *)
(* TTL is answered again (get, put, _evict).                                 *)
OwnAnswerNewest ==
    \A q \in Queries :
        LET v == Answer(q)
            n == newest[q]
        IN v # None /\ entry[v].query = q =>
             /\ n # None
             /\ v = n \/ (IsExpired(n) /\ entry[v].ttl > entry[n].ttl)

\* A listed entry has expired, or is the newest of its query, or no younger than
\* the newest, which then is still in the dictionary or has expired.
IsCovered(v) ==
    LET q == entry[v].query
        n == newest[q]
    IN \/ IsExpired(v)
       \/ v = n
       \/ /\ n # None /\ entry[v].created <= entry[n].created
          /\ l1[q] # None \/ IsExpired(n)

(* What makes it inductive: the dictionary holds the newest of a query or    *)
(* nothing, and every entry of the list is covered.                          *)
ListedIsCovered ==
    /\ \A q \in Queries : l1[q] # None => l1[q] = newest[q] /\ entry[l1[q]].query = q
    /\ \A v \in l2 : IsCovered(v)
============================================================================
