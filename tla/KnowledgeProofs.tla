---------------------------- MODULE KnowledgeProofs --------------------------
(* The knowledge base, for any paths, texts, documents, sizes, rankings and  *)
(* jobs.  Its three parts share no state, so each has an invariant of its own; *)
(* they share the lemmas about laying a finite set out as a sequence.         *)
EXTENDS DocumentIndexer, DocumentSplitter, HybridRetrieval,
        FiniteSetTheorems, FunctionTheorems, SequenceTheorems, WellFoundedInduction, TLAPS

-----------------------------------------------------------------------------
(* Orders.  What would be an induction is an argument about the least number  *)
(* that fails.                                                                *)

\* A strict total order lays a finite set out as a sequence that holds every
\* element, and one before another only if it is smaller.
LEMMA OrderedSeq ==
  ASSUME NEW S, IsFiniteSet(S), NEW R,
         \A x \in S : <<x, x>> \notin R,
         \A x, y, z \in S : <<x, y>> \in R /\ <<y, z>> \in R => <<x, z>> \in R,
         \A x, y \in S : x # y => <<x, y>> \in R \/ <<y, x>> \in R
  PROVE  /\ Cardinality(S) \in Nat
         /\ Ordered(S, R) \in [1..Cardinality(S) -> S]
         /\ \A x \in S : \E i \in 1..Cardinality(S) : Ordered(S, R)[i] = x
         /\ \A i, j \in 1..Cardinality(S) : <<Ordered(S, R)[i], Ordered(S, R)[j]>> \in R => i < j
<1> DEFINE n == Cardinality(S)
           Before(x) == {y \in S : <<y, x>> \in R}
           rank(x) == Cardinality(Before(x))
           place == [x \in S |-> rank(x) + 1]
           f == [i \in 1..n |-> CHOOSE x \in S : rank(x) = i - 1]
<1>1. n \in Nat
  BY FS_CardinalityType
<1>2. \A x \in S : IsFiniteSet(Before(x)) /\ rank(x) \in Nat /\ rank(x) < n
  <2> SUFFICES ASSUME NEW x \in S PROVE IsFiniteSet(Before(x)) /\ rank(x) \in Nat /\ rank(x) < n
    OBVIOUS
  <2>1. Before(x) \in SUBSET S /\ Before(x) # S
    OBVIOUS
  <2> HIDE DEF Before
  <2>2. IsFiniteSet(Before(x)) /\ Cardinality(Before(x)) <= n /\ Cardinality(Before(x)) # n
    BY <2>1, FS_Subset
  <2>3. Cardinality(Before(x)) \in Nat
    BY <2>2, FS_CardinalityType
  <2>4. QED BY <1>1, <2>2, <2>3
<1>3. \A x, y \in S : <<x, y>> \in R => rank(x) < rank(y)
  <2> SUFFICES ASSUME NEW x \in S, NEW y \in S, <<x, y>> \in R PROVE rank(x) < rank(y)
    OBVIOUS
  <2>1. Before(x) \in SUBSET Before(y) /\ Before(x) # Before(y)
    OBVIOUS
  <2>2. IsFiniteSet(Before(y)) /\ rank(x) \in Nat /\ rank(y) \in Nat
    BY <1>2
  <2> HIDE DEF Before
  <2>3. Cardinality(Before(x)) <= Cardinality(Before(y)) /\ Cardinality(Before(x)) # Cardinality(Before(y))
    BY <2>1, <2>2, FS_Subset
  <2>4. QED BY <2>2, <2>3
<1> HIDE DEF Before
<1>4. \A x, y \in S : rank(x) = rank(y) => x = y
  <2> SUFFICES ASSUME NEW x \in S, NEW y \in S, x # y PROVE rank(x) # rank(y)
    OBVIOUS
  <2>1. rank(x) \in Nat /\ rank(y) \in Nat
    BY <1>2
  <2>2. <<x, y>> \in R \/ <<y, x>> \in R
    OBVIOUS
  <2>3. QED BY <1>3, <2>1, <2>2
<1>5. place \in [S -> 1..n]
  BY <1>1, <1>2
<1>6. place \in Injection(S, 1..n)
  <2>1. \A a, b \in S : place[a] = place[b] => a = b
    BY <1>2, <1>4
  <2> HIDE DEF place
  <2>2. QED BY <1>5, <2>1, Fun_IsInj
<1>7. \A i \in 1..n : \E x \in S : rank(x) = i - 1
  <2>1. IsFiniteSet(1..n) /\ Cardinality(1..n) = n
    BY <1>1, FS_Interval
  <2>2. place \in Surjection(S, 1..n)
    <3> HIDE DEF place
    <3> QED BY <1>6, <2>1, FS_Injection
  <2>3. \A i \in 1..n : \E x \in S : place[x] = i
    <3> HIDE DEF place
    <3> QED BY <2>2, Fun_SurjectionProperties
  <2>4. QED BY <1>1, <1>2, <2>3
<1>8. \A i \in 1..n : f[i] \in S /\ rank(f[i]) = i - 1
  BY <1>7
<1>9. \A x \in S : rank(x) + 1 \in 1..n /\ f[rank(x) + 1] = x
  BY <1>1, <1>2, <1>4, <1>8
<1>10. f \in [1..n -> S]
  BY <1>8
<1>11. f = Ordered(S, R)
  BY DEF Ordered, Before
<1> HIDE DEF f
<1>12. \A i, j \in 1..n : <<f[i], f[j]>> \in R => i < j
  BY <1>3, <1>8, <1>1
<1>13. QED BY <1>1, <1>9, <1>10, <1>11, <1>12

\* Ascending lists the numbers of a finite set, each of them once.
LEMMA AscendingSeq ==
  ASSUME NEW S \in SUBSET Nat, IsFiniteSet(S)
  PROVE  /\ Ascending(S) \in Seq(S) /\ Len(Ascending(S)) = Cardinality(S)
         /\ \A x \in S : \E i \in 1..Len(Ascending(S)) : Ascending(S)[i] = x
<1>1. /\ \A x \in S : <<x, x>> \notin Less(S)
      /\ \A x, y, z \in S : <<x, y>> \in Less(S) /\ <<y, z>> \in Less(S) => <<x, z>> \in Less(S)
      /\ \A x, y \in S : x # y => <<x, y>> \in Less(S) \/ <<y, x>> \in Less(S)
  BY DEF Less
<1>2. /\ Cardinality(S) \in Nat /\ Ascending(S) \in [1..Cardinality(S) -> S]
      /\ \A x \in S : \E i \in 1..Cardinality(S) : Ascending(S)[i] = x
  BY <1>1, OrderedSeq DEF Ascending
<1>3. Ascending(S) \in Seq(S)
  BY <1>2, SeqDef
<1>4. Len(Ascending(S)) = Cardinality(S)
  BY <1>2, <1>3, LenProperties
<1>5. QED BY <1>2, <1>3, <1>4

\* Numbers that are not none have a least one.
LEMMA LeastOf ==
  ASSUME NEW T \in SUBSET Nat, T # {}
  PROVE  Least(T) \in T /\ \A m \in T : Least(T) <= m
<1> DEFINE R == {e \in Nat \X Nat : e[1] < e[2]}
<1>1. R = OpToRel(<, Nat)
  BY Zenon DEF OpToRel
<1>2. IsWellFoundedOn(R, Nat)
  BY <1>1, NatLessThanWellFounded
<1>3. PICK n \in T : \A m \in T : <<m, n>> \notin R
  <2> HIDE DEF R
  <2> QED BY <1>2, WFMin
<1>4. ASSUME NEW m \in T PROVE n <= m
  <2>1. m \in Nat /\ n \in Nat /\ <<m, n>> \notin R
    BY <1>3
  <2>2. QED BY <2>1
<1>5. QED BY <1>4 DEF Least

\* Bounded, they have a greatest one too: what is least short of the bound.
LEMMA FurthestOf ==
  ASSUME NEW T \in SUBSET Nat, T # {}, NEW b \in Nat, \A m \in T : m <= b
  PROVE  Furthest(T) \in T /\ \A m \in T : m <= Furthest(T)
<1> DEFINE U == {b - m : m \in T}
<1>1. U \in SUBSET Nat /\ U # {}
  <2>1. ASSUME NEW m \in T PROVE b - m \in Nat
    <3>1. m \in Nat /\ m <= b OBVIOUS
    <3>2. QED BY <3>1
  <2>2. QED BY <2>1
<1>2. PICK u \in U : \A m \in U : u <= m
  <2> HIDE DEF U
  <2> QED BY <1>1, LeastOf
<1>3. PICK f \in T : u = b - f
  BY <1>2
<1>4. \A m \in T : m <= f
  BY <1>2, <1>3
<1>5. QED BY <1>4 DEF Furthest

-----------------------------------------------------------------------------
(* The indexer.  That a confirmed text is stored rests on what jobs know of   *)
(* each other: a job that met nobody still finds in Milvus what it wrote      *)
(* there when Elasticsearch answers at last, since whoever came to its path   *)
(* or document in between has marked it.  IndexerInv says so, part by part.   *)

Opt == Texts \cup {NoText}
JobRecord == [at : {"connect", "close", "write", "delete"}, source : Sources,
              text : Texts, acked : BOOLEAN]
JobsInv == IndexerTypeOK /\ IndexerInv

\* Chunks of a text carry its document's id.
LEMMA ChunkFacts ==
    ASSUME NEW t \in Texts
    PROVE  /\ ChunksOf(t) \subseteq ChunkIds
           /\ \A id \in ChunksOf(t) : id[1] = DocOf[t]
BY DEF ChunksOf, ChunkIds

\* A job under way is a record with its path and text.
LEMMA JobFacts ==
    ASSUME IndexerTypeOK, NEW j \in Jobs
    PROVE  /\ ~Idle(j) => job[j] \in JobRecord
           /\ job[j].at \in {"connect", "close", "write", "delete"} <=> ~Idle(j)
BY DEF IndexerTypeOK, Idle, NoJob, JobRecord

\* What the start of a job at path s and document d does to what was confirmed
\* and to the jobs under way.
LEMMA StartsFacts ==
    ASSUME IndexerTypeOK, NEW j \in Jobs, NEW s \in Sources, NEW d, Starts(j, s, d)
    PROVE  /\ starts' \in 0..MaxStarts
           /\ promised' \in [Sources -> Opt]
           /\ \A x \in Sources :
                /\ promised'[x] # NoText => promised'[x] = promised[x] /\ x # s /\ DocOf[promised[x]] # d
           /\ crossed' \subseteq Jobs
           /\ \A k \in Jobs \ {j} : k \in crossed' <=> k \in crossed \/ Meets(k, s, d)
           /\ (\E k \in Jobs : Meets(k, s, d)) => j \in crossed'
<1>1. starts' \in 0..MaxStarts
  BY IndexerAssumption DEF Starts, Counted, IndexerTypeOK
<1>2. /\ promised' \in [Sources -> Opt]
      /\ \A x \in Sources :
           promised'[x] # NoText => promised'[x] = promised[x] /\ x # s /\ DocOf[promised[x]] # d
  BY DEF Starts, IndexerTypeOK, Opt
<1>3. /\ crossed' \subseteq Jobs
      /\ \A k \in Jobs \ {j} : k \in crossed' <=> k \in crossed \/ Meets(k, s, d)
      /\ (\E k \in Jobs : Meets(k, s, d)) => j \in crossed'
  <2> DEFINE met == {k \in Jobs : Meets(k, s, d)}
  <2>1. crossed' = (crossed \ {j}) \cup met \cup (IF met = {} THEN {} ELSE {j})
    BY DEF Starts
  <2>2. \A k \in Jobs : k \in met <=> Meets(k, s, d)
    OBVIOUS
  <2>3. crossed \subseteq Jobs
    BY DEF IndexerTypeOK
  <2> HIDE DEF met
  <2>4. met \subseteq Jobs
    BY DEF met
  <2>5. QED BY <2>1, <2>2, <2>3, <2>4
<1>4. QED BY <1>1, <1>2, <1>3

\* Nothing changes.
LEMMA Stutters == JobsInv /\ UNCHANGED indexerVars => JobsInv'
<1> SUFFICES ASSUME JobsInv, UNCHANGED indexerVars PROVE JobsInv'
  OBVIOUS
<1> USE DEF indexerVars, JobsInv
<1>1. IndexerTypeOK'
  BY DEF IndexerTypeOK
<1>2. (ConfirmedIsStored /\ DeletedIsGone)'
  BY DEF IndexerInv, ConfirmedIsStored, DeletedIsGone
<1>3. (RecordsAgree /\ MeetingsSeen /\ NothingConfirmed)'
  BY DEF IndexerInv, RecordsAgree, MeetingsSeen, NothingConfirmed, Idle, Meets, WorksOn
<1>4. (VecHolds /\ VecLacks /\ GoneIsQuiet)'
  BY DEF IndexerInv, VecHolds, VecLacks, GoneIsQuiet, WorksOn
<1>5. QED BY <1>1, <1>2, <1>3, <1>4 DEF IndexerInv

\* Nothing is stored or confirmed at the start.
LEMMA StartsEmpty == IndexerInit => JobsInv
<1> SUFFICES ASSUME IndexerInit PROVE JobsInv
  OBVIOUS
<1>1. IndexerTypeOK
  BY IndexerAssumption DEF IndexerInit, IndexerTypeOK, VecLink, EsLink
<1>2. \A j \in Jobs : Idle(j) /\ job[j].at = "idle"
  BY DEF IndexerInit, Idle, NoJob
<1>3. ConfirmedIsStored /\ DeletedIsGone /\ RecordsAgree
  BY DEF IndexerInit, ConfirmedIsStored, DeletedIsGone, RecordsAgree
<1>4. MeetingsSeen /\ NothingConfirmed
  BY <1>2 DEF MeetingsSeen, NothingConfirmed
<1>5. VecHolds /\ VecLacks /\ GoneIsQuiet
  BY <1>2 DEF VecHolds, VecLacks, GoneIsQuiet
<1>6. QED BY <1>1, <1>3, <1>4, <1>5 DEF JobsInv, IndexerInv

\* A text that has not changed is not indexed again.
LEMMA SkipKeeps == ASSUME JobsInv, NEW s \in Sources, NEW t \in Texts, Skip(s, t) PROVE JobsInv'
<1>1. promised' = promised
  <2>1. promised[s] # NoText => promised[s] = t
    BY IndexerAssumption DEF Skip, IsUnchanged, JobsInv, IndexerInv, RecordsAgree
  <2>2. promised \in [Sources -> Opt]
    BY DEF JobsInv, IndexerTypeOK, Opt
  <2>3. QED BY <2>1, <2>2 DEF Skip
<1>2. QED BY <1>1, Stutters DEF Skip, indexerVars

\* What a store becomes, chunk by chunk.
LEMMA StoreFacts ==
    ASSUME NEW store \in [ChunkIds -> Opt]
    PROVE  /\ \A t \in Texts, ids \in SUBSET ChunkIds :
                /\ Stored(store, ids, t) \in [ChunkIds -> Opt]
                /\ \A id \in ChunkIds : Stored(store, ids, t)[id] = IF id \in ids THEN t ELSE store[id]
           /\ \A d :
                /\ Dropped(store, d) \in [ChunkIds -> Opt]
                /\ \A id \in ChunkIds : Dropped(store, d)[id] = IF id[1] = d THEN NoText ELSE store[id]
BY DEF Stored, Dropped, Opt

\* A confirmed text or one of a job under way is a text.
LEMMA TextFacts ==
    ASSUME IndexerTypeOK
    PROVE  /\ \A s \in Sources : promised[s] # NoText => promised[s] \in Texts
           /\ vec \in [ChunkIds -> Opt] /\ es \in [ChunkIds -> Opt]
           /\ gone \subseteq {DocOf[t] : t \in Texts}
BY DEF IndexerTypeOK, Opt

\* A job writes to Milvus, confirmed or not, and turns to Elasticsearch.
LEMMA BeginIndexKeeps ==
    ASSUME JobsInv, NEW j \in Jobs, NEW s \in Sources, NEW t \in Texts, NEW force \in BOOLEAN,
           BeginIndex(j, s, t, force)
    PROVE  JobsInv'
<1> DEFINE d == DocOf[t]
<1> USE DEF JobsInv
<1>1. PICK link \in EnsuredVec, accepted \in BOOLEAN :
        /\ vecLink' = link
        /\ vec' = IF link = "ready" /\ accepted THEN Stored(vec, ChunksOf(t), t) ELSE vec
        /\ GoesToEs(j, s, t, link = "ready" /\ accepted)
  BY DEF BeginIndex
<1>2. PICK acked \in BOOLEAN :
        /\ vec' = IF acked THEN Stored(vec, ChunksOf(t), t) ELSE vec
        /\ GoesToEs(j, s, t, acked)
  <2>1. (link = "ready" /\ accepted) \in BOOLEAN
    OBVIOUS
  <2>2. QED BY <1>1, <2>1
<1>3. /\ Idle(j) /\ Starts(j, s, d)
      /\ gone' = gone \ {d} /\ es' = es
  BY DEF BeginIndex
<1>4. /\ starts' \in 0..MaxStarts
      /\ promised' \in [Sources -> Opt]
      /\ \A x \in Sources :
           /\ promised'[x] # NoText => promised'[x] = promised[x] /\ x # s /\ DocOf[promised[x]] # d
      /\ crossed' \subseteq Jobs
      /\ \A k \in Jobs \ {j} : k \in crossed' <=> k \in crossed \/ Meets(k, s, d)
      /\ (\E k \in Jobs : Meets(k, s, d)) => j \in crossed'
  BY <1>3, StartsFacts
<1>5. \* The job waits at one of two places, or is done with a mocked write.
      \/ \E at \in {"connect", "write"} :
           /\ job' = [job EXCEPT ![j] = [at |-> at, source |-> s, text |-> t, acked |-> acked]]
           /\ records' = records
      \/ /\ records' = [records EXCEPT ![s] = t] /\ job' = job
  BY <1>2 DEF GoesToEs
<1>6. /\ vec' \in [ChunkIds -> Opt] /\ es' \in [ChunkIds -> Opt]
      /\ \A id \in ChunkIds : vec'[id] = IF acked /\ id \in ChunksOf(t) THEN t ELSE vec[id]
  <2>1. es' \in [ChunkIds -> Opt] /\ vec \in [ChunkIds -> Opt] /\ ChunksOf(t) \in SUBSET ChunkIds
    BY <1>3, TextFacts, ChunkFacts
  <2>2. CASE acked
    BY <1>2, <2>1, <2>2, StoreFacts
  <2>3. CASE ~acked
    BY <1>2, <2>1, <2>3
  <2>4. QED BY <2>1, <2>2, <2>3
<1>7. vecLink' \in VecLink /\ esLink' \in EsLink
  BY <1>1, <1>2 DEF EnsuredVec, GoesToEs, VecLink, EsLink, IndexerTypeOK
<1>8. ConfirmedIsStored'
  <2> SUFFICES ASSUME NEW x \in Sources, promised'[x] # NoText, NEW id \in ChunksOf(promised'[x])
               PROVE  vec'[id] = promised'[x] /\ es'[id] = promised'[x]
    BY DEF ConfirmedIsStored
  <2>1. promised'[x] = promised[x] /\ promised[x] \in Texts /\ DocOf[promised[x]] # d
    BY <1>4, TextFacts
  <2>2. id \in ChunkIds /\ id \notin ChunksOf(t)
    BY <2>1, ChunkFacts
  <2>3. vec[id] = promised[x] /\ es[id] = promised[x]
    BY <2>1 DEF IndexerInv, ConfirmedIsStored
  <2>4. QED BY <1>3, <1>6, <2>1, <2>2, <2>3
<1>9. DeletedIsGone'
  <2> SUFFICES ASSUME NEW e \in gone', NEW id \in ChunksOfDoc(e)
               PROVE  vec'[id] = NoText /\ es'[id] = NoText
    BY DEF DeletedIsGone
  <2>1. e \in gone /\ e # d /\ id \in ChunkIds /\ id[1] = e
    BY <1>3 DEF ChunksOfDoc
  <2>2. id \notin ChunksOf(t)
    BY <2>1, ChunkFacts
  <2>3. QED BY <1>3, <1>6, <2>1, <2>2 DEF IndexerInv, DeletedIsGone
<1>10. RecordsAgree'
  <2> SUFFICES ASSUME NEW x \in Sources, promised'[x] # NoText, records'[x] # NoText
               PROVE  records'[x] = promised'[x]
    BY DEF RecordsAgree
  <2>1. promised'[x] = promised[x] /\ x # s
    BY <1>4
  <2>2. records'[x] = records[x]
    BY <1>5, <2>1 DEF IndexerTypeOK
  <2>3. QED BY <2>1, <2>2 DEF IndexerInv, RecordsAgree
<1>11. \* What the other jobs do, and what this one does.
      /\ \A k \in Jobs \ {j} : job'[k] = job[k]
      /\ \/ job'[j] = NoJob
         \/ job'[j] \in [at : {"connect", "write"}, source : {s}, text : {t}, acked : {acked}]
      /\ IndexerTypeOK'
  <2>1. CASE \E at \in {"connect", "write"} :
               /\ job' = [job EXCEPT ![j] = [at |-> at, source |-> s, text |-> t, acked |-> acked]]
               /\ records' = records
    <3>1. PICK at \in {"connect", "write"} :
               /\ job' = [job EXCEPT ![j] = [at |-> at, source |-> s, text |-> t, acked |-> acked]]
               /\ records' = records
      BY <2>1
    <3>2. QED BY <1>3, <1>4, <1>6, <1>7, <3>1 DEF IndexerTypeOK, Opt
  <2>2. CASE records' = [records EXCEPT ![s] = t] /\ job' = job
    BY <1>3, <1>4, <1>6, <1>7, <2>2 DEF IndexerTypeOK, Opt, Idle
  <2>3. QED BY <1>5, <2>1, <2>2
<1>12. \A k \in Jobs : \A x, e : Meets(k, x, e)' <=>
         IF k = j THEN job'[j] # NoJob /\ (s = x \/ d = e) ELSE Meets(k, x, e)
  BY <1>11 DEF Meets, Idle, NoJob
<1>13. MeetingsSeen'
  <2> SUFFICES ASSUME NEW k \in Jobs, NEW l \in Jobs, k # l, ~Idle(k)',
                      Meets(l, job[k].source, DocOf[job[k].text])'
               PROVE  k \in crossed'
    BY DEF MeetingsSeen
  <2>1. CASE k = j
    <3>1. job'[j].source = s /\ job'[j].text = t
      BY <1>11, <2>1 DEF Idle, NoJob
    <3>2. Meets(l, s, d)
      BY <1>12, <2>1, <3>1
    <3>3. QED BY <1>4, <2>1, <3>2
  <2>2. CASE l = j
    <3>1. job'[k] = job[k] /\ ~Idle(k) /\ (s = job[k].source \/ d = DocOf[job[k].text])
      BY <1>11, <1>12, <2>2 DEF Idle
    <3>2. Meets(k, s, d)
      BY <3>1 DEF Meets
    <3>3. QED BY <1>4, <2>2, <3>2
  <2>3. CASE k # j /\ l # j
    <3>1. job'[k] = job[k] /\ ~Idle(k) /\ Meets(l, job[k].source, DocOf[job[k].text])
      BY <1>11, <1>12, <2>3 DEF Idle
    <3>2. k \in crossed
      BY <3>1 DEF IndexerInv, MeetingsSeen
    <3>3. QED BY <1>4, <2>3, <3>2
  <2>4. QED BY <2>1, <2>2, <2>3
<1>14. NothingConfirmed'
  <2> SUFFICES ASSUME NEW k \in Jobs, ~Idle(k)', NEW x \in Sources, promised'[x] # NoText
               PROVE  x # job'[k].source /\ DocOf[job'[k].text] # DocOf[promised'[x]]
    BY DEF NothingConfirmed, WorksOn
  <2>1. promised'[x] = promised[x] /\ x # s /\ DocOf[promised[x]] # d
    BY <1>4
  <2>2. CASE k = j
    BY <1>11, <2>1, <2>2 DEF Idle, NoJob
  <2>3. CASE k # j
    BY <1>11, <2>1, <2>3 DEF IndexerInv, NothingConfirmed, Idle, WorksOn
  <2>4. QED BY <2>2, <2>3
<1>15. \A k \in Jobs \ {j} : k \notin crossed' /\ ~Idle(k) => k \notin crossed /\ DocOf[job[k].text] # d
  BY <1>4 DEF Meets
<1>16. VecHolds'
  <2> SUFFICES ASSUME NEW k \in Jobs, k \notin crossed', job'[k].at \in {"connect", "write"},
                      job'[k].acked, NEW id \in ChunksOf(job'[k].text)
               PROVE  vec'[id] = job'[k].text
    BY DEF VecHolds
  <2>1. CASE k = j
    <3>1. job'[j].text = t /\ acked
      BY <1>11, <2>1 DEF NoJob
    <3>2. QED BY <1>6, <2>1, <3>1, ChunkFacts
  <2>2. CASE k # j
    <3>1. job'[k] = job[k] /\ ~Idle(k)
      BY <1>11, <2>2 DEF Idle, NoJob
    <3>2. job[k].text \in Texts /\ DocOf[job[k].text] # d /\ k \notin crossed
      BY <1>15, <2>2, <3>1, JobFacts DEF JobRecord
    <3>3. id \in ChunkIds /\ id \notin ChunksOf(t)
      BY <3>1, <3>2, ChunkFacts
    <3>4. QED BY <1>6, <3>1, <3>2, <3>3 DEF IndexerInv, VecHolds
  <2>3. QED BY <2>1, <2>2
<1>17. VecLacks'
  <2> SUFFICES ASSUME NEW k \in Jobs, k \notin crossed', job'[k].at = "delete", job'[k].acked,
                      NEW id \in ChunkIds, DocOf[job'[k].text] = id[1]
               PROVE  vec'[id] = NoText
    BY DEF VecLacks, WorksOn
  <2>1. k # j
    BY <1>11 DEF NoJob
  <2>2. job'[k] = job[k] /\ ~Idle(k)
    BY <1>11, <2>1 DEF Idle, NoJob
  <2>3. k \notin crossed /\ id[1] # d
    BY <1>15, <2>1, <2>2
  <2>4. id \notin ChunksOf(t)
    BY <2>3, ChunkFacts
  <2>5. QED BY <1>6, <2>2, <2>3, <2>4 DEF IndexerInv, VecLacks, WorksOn
<1>18. GoneIsQuiet'
  BY <1>3, <1>11 DEF IndexerInv, GoneIsQuiet, WorksOn, NoJob
<1>19. QED
  BY <1>8, <1>9, <1>10, <1>11, <1>13, <1>14, <1>16, <1>17, <1>18 DEF IndexerInv

\* Deleting begins with Milvus, too.
LEMMA BeginDeleteKeeps ==
    ASSUME JobsInv, NEW j \in Jobs, NEW s \in Sources, BeginDelete(j, s) PROVE JobsInv'
<1> DEFINE t == records[s]
           d == DocOf[t]
<1> USE DEF JobsInv
<1>1. t \in Texts
  BY DEF BeginDelete, IndexerTypeOK
<1>2. PICK acked \in BOOLEAN :
        /\ vec' = IF acked THEN Dropped(vec, d) ELSE vec
        /\ \/ /\ records' = records
              /\ job' = [job EXCEPT ![j] = [at |-> "delete", source |-> s, text |-> t, acked |-> acked]]
           \/ /\ job' = job /\ records' = [records EXCEPT ![s] = NoText]
  <2>1. PICK accepted \in BOOLEAN :
          LET a == vecLink = "ready" /\ accepted
          IN /\ vec' = IF a THEN Dropped(vec, d) ELSE vec
             /\ \/ /\ records' = records
                   /\ job' = [job EXCEPT ![j] = [at |-> "delete", source |-> s, text |-> t, acked |-> a]]
                \/ /\ job' = job /\ records' = [records EXCEPT ![s] = NoText]
    BY DEF BeginDelete
  <2>2. (vecLink = "ready" /\ accepted) \in BOOLEAN
    OBVIOUS
  <2>3. QED BY <2>1, <2>2
<1>3. /\ Idle(j) /\ Starts(j, s, d)
      /\ gone' = gone /\ es' = es /\ vecLink' = vecLink /\ esLink' = esLink
  BY DEF BeginDelete
<1>4. /\ starts' \in 0..MaxStarts
      /\ promised' \in [Sources -> Opt]
      /\ \A x \in Sources :
           /\ promised'[x] # NoText => promised'[x] = promised[x] /\ x # s /\ DocOf[promised[x]] # d
      /\ crossed' \subseteq Jobs
      /\ \A k \in Jobs \ {j} : k \in crossed' <=> k \in crossed \/ Meets(k, s, d)
      /\ (\E k \in Jobs : Meets(k, s, d)) => j \in crossed'
  BY <1>3, StartsFacts
<1> HIDE DEF t, d
<1>5. /\ vec' \in [ChunkIds -> Opt] /\ es' \in [ChunkIds -> Opt]
      /\ \A id \in ChunkIds : vec'[id] = IF acked /\ id[1] = d THEN NoText ELSE vec[id]
  <2>1. es' \in [ChunkIds -> Opt] /\ vec \in [ChunkIds -> Opt]
    BY <1>3, TextFacts
  <2>2. CASE acked
    BY <1>2, <2>1, <2>2, StoreFacts
  <2>3. CASE ~acked
    BY <1>2, <2>1, <2>3
  <2>4. QED BY <2>1, <2>2, <2>3
<1>6. ConfirmedIsStored'
  <2> SUFFICES ASSUME NEW x \in Sources, promised'[x] # NoText, NEW id \in ChunksOf(promised'[x])
               PROVE  vec'[id] = promised'[x] /\ es'[id] = promised'[x]
    BY DEF ConfirmedIsStored
  <2>1. promised'[x] = promised[x] /\ promised[x] \in Texts /\ DocOf[promised[x]] # d
    BY <1>4, TextFacts
  <2>2. id \in ChunkIds /\ id[1] # d
    BY <2>1, ChunkFacts
  <2>3. vec[id] = promised[x] /\ es[id] = promised[x]
    BY <2>1 DEF IndexerInv, ConfirmedIsStored
  <2>4. QED BY <1>3, <1>5, <2>1, <2>2, <2>3
<1>7. DeletedIsGone'
  BY <1>3, <1>5 DEF DeletedIsGone, ChunksOfDoc, IndexerInv
<1>8. RecordsAgree'
  BY <1>2, <1>4 DEF IndexerInv, RecordsAgree, IndexerTypeOK
<1>9. /\ \A k \in Jobs \ {j} : job'[k] = job[k]
      /\ \/ job'[j] = NoJob
         \/ job'[j] \in [at : {"delete"}, source : {s}, text : {t}, acked : {acked}]
      /\ IndexerTypeOK'
  BY <1>1, <1>2, <1>3, <1>4, <1>5 DEF IndexerTypeOK, Opt, Idle, t
<1>10. \A k \in Jobs : \A x, e : Meets(k, x, e)' <=>
         IF k = j THEN job'[j] # NoJob /\ (s = x \/ d = e) ELSE Meets(k, x, e)
  BY <1>9 DEF Meets, Idle, NoJob, d
<1>11. MeetingsSeen'
  <2> SUFFICES ASSUME NEW k \in Jobs, NEW l \in Jobs, k # l, ~Idle(k)',
                      Meets(l, job[k].source, DocOf[job[k].text])'
               PROVE  k \in crossed'
    BY DEF MeetingsSeen
  <2>1. CASE k = j
    <3>1. job'[j].source = s /\ job'[j].text = t
      BY <1>9, <2>1 DEF Idle, NoJob
    <3>2. Meets(l, s, d)
      BY <1>10, <2>1, <3>1 DEF d
    <3>3. QED BY <1>4, <2>1, <3>2
  <2>2. CASE l = j
    <3>1. job'[k] = job[k] /\ ~Idle(k) /\ (s = job[k].source \/ d = DocOf[job[k].text])
      BY <1>9, <1>10, <2>2 DEF Idle
    <3>2. Meets(k, s, d)
      BY <3>1 DEF Meets
    <3>3. QED BY <1>4, <2>2, <3>2
  <2>3. CASE k # j /\ l # j
    <3>1. job'[k] = job[k] /\ ~Idle(k) /\ Meets(l, job[k].source, DocOf[job[k].text])
      BY <1>9, <1>10, <2>3 DEF Idle
    <3>2. k \in crossed
      BY <3>1 DEF IndexerInv, MeetingsSeen
    <3>3. QED BY <1>4, <2>3, <3>2
  <2>4. QED BY <2>1, <2>2, <2>3
<1>12. NothingConfirmed'
  <2> SUFFICES ASSUME NEW k \in Jobs, ~Idle(k)', NEW x \in Sources, promised'[x] # NoText
               PROVE  x # job'[k].source /\ DocOf[job'[k].text] # DocOf[promised'[x]]
    BY DEF NothingConfirmed, WorksOn
  <2>1. promised'[x] = promised[x] /\ x # s /\ DocOf[promised[x]] # d
    BY <1>4
  <2>2. CASE k = j
    BY <1>9, <2>1, <2>2 DEF Idle, NoJob, d
  <2>3. CASE k # j
    BY <1>9, <2>1, <2>3 DEF IndexerInv, NothingConfirmed, Idle, WorksOn
  <2>4. QED BY <2>2, <2>3
<1>13. \A k \in Jobs \ {j} : k \notin crossed' /\ ~Idle(k) => k \notin crossed /\ DocOf[job[k].text] # d
  BY <1>4 DEF Meets
<1>14. VecHolds'
  <2> SUFFICES ASSUME NEW k \in Jobs, k \notin crossed', job'[k].at \in {"connect", "write"},
                      job'[k].acked, NEW id \in ChunksOf(job'[k].text)
               PROVE  vec'[id] = job'[k].text
    BY DEF VecHolds
  <2>1. k # j
    BY <1>9 DEF NoJob
  <2>2. job'[k] = job[k] /\ ~Idle(k)
    BY <1>9, <2>1 DEF Idle, NoJob
  <2>3. job[k].text \in Texts /\ DocOf[job[k].text] # d /\ k \notin crossed
    BY <1>13, <2>1, <2>2, JobFacts DEF JobRecord
  <2>4. id \in ChunkIds /\ id[1] # d
    BY <2>2, <2>3, ChunkFacts
  <2>5. QED BY <1>5, <2>2, <2>3, <2>4 DEF IndexerInv, VecHolds
<1>15. VecLacks'
  <2> SUFFICES ASSUME NEW k \in Jobs, k \notin crossed', job'[k].at = "delete", job'[k].acked,
                      NEW id \in ChunkIds, DocOf[job'[k].text] = id[1]
               PROVE  vec'[id] = NoText
    BY DEF VecLacks, WorksOn
  <2>1. CASE k = j
    BY <1>5, <1>9, <2>1 DEF NoJob, d
  <2>2. CASE k # j
    <3>1. job'[k] = job[k] /\ ~Idle(k)
      BY <1>9, <2>2 DEF Idle, NoJob
    <3>2. k \notin crossed /\ id[1] # d
      BY <1>13, <2>2, <3>1
    <3>3. QED BY <1>5, <3>1, <3>2 DEF IndexerInv, VecLacks, WorksOn
  <2>3. QED BY <2>1, <2>2
<1>16. GoneIsQuiet'
  BY <1>3, <1>9 DEF IndexerInv, GoneIsQuiet, WorksOn, NoJob
<1>17. QED
  BY <1>6, <1>7, <1>8, <1>9, <1>11, <1>12, <1>14, <1>15, <1>16 DEF IndexerInv

\* A job ends, and what was crossed stays so: the others go on as they were.
LEMMA JobEnds ==
    ASSUME IndexerTypeOK, NEW j \in Jobs, job' = [job EXCEPT ![j] = NoJob]
    PROVE  /\ \A k \in Jobs : job'[k] = IF k = j THEN NoJob ELSE job[k]
           /\ \A k \in Jobs : Idle(k)' <=> k = j \/ Idle(k)
<1>1. \A k \in Jobs : job'[k] = IF k = j THEN NoJob ELSE job[k]
  BY DEF IndexerTypeOK
<1>2. QED BY <1>1 DEF Idle

\* Who has met is marked for as long as the other is under way.
LEMMA MeetingsStay ==
    ASSUME JobsInv, NEW j \in Jobs, job' = [job EXCEPT ![j] = NoJob], crossed' = crossed
    PROVE  MeetingsSeen'
<1> SUFFICES ASSUME NEW k \in Jobs, NEW l \in Jobs, k # l, ~Idle(k)',
                    Meets(l, job[k].source, DocOf[job[k].text])'
             PROVE  k \in crossed
  BY DEF MeetingsSeen
<1>1. k # j /\ l # j /\ ~Idle(k) /\ job'[k] = job[k] /\ job'[l] = job[l]
  BY JobEnds DEF JobsInv, Meets
<1>2. Meets(l, job[k].source, DocOf[job[k].text])
  BY <1>1 DEF Meets, Idle
<1>3. QED BY <1>1, <1>2 DEF JobsInv, IndexerInv, MeetingsSeen

\* Elasticsearch is connected to, or not.
LEMMA EsConnectKeeps == ASSUME JobsInv, NEW j \in Jobs, EsConnect(j) PROVE JobsInv'
<1> USE DEF JobsInv
<1>1. PICK ok \in BOOLEAN :
        /\ esLink' = IF ok THEN "ready" ELSE "closing"
        /\ job' = [job EXCEPT ![j].at = IF ok THEN "write" ELSE "close"]
  BY DEF EsConnect
<1>2. /\ job[j].at = "connect" /\ ~Idle(j) /\ job[j] \in JobRecord
      /\ UNCHANGED <<vecLink, vec, es, records, crossed, promised, gone, starts>>
  BY JobFacts DEF EsConnect
<1>3. /\ job'[j] \in JobRecord /\ job'[j].at \in {"write", "close"}
      /\ job'[j].source = job[j].source /\ job'[j].text = job[j].text /\ job'[j].acked = job[j].acked
      /\ \A k \in Jobs \ {j} : job'[k] = job[k]
      /\ job' \in [Jobs -> JobRecord \cup {NoJob}]
  BY <1>1, <1>2 DEF JobRecord, IndexerTypeOK
<1>4. \A k \in Jobs : Idle(k)' <=> Idle(k)
  <2>1. job'[j] # NoJob
    BY <1>3 DEF NoJob
  <2>2. QED BY <1>2, <1>3, <2>1 DEF Idle
<1>5. IndexerTypeOK'
  BY <1>1, <1>2, <1>3 DEF IndexerTypeOK, EsLink, VecLink, JobRecord
<1>6. \A k \in Jobs : job'[k].source = job[k].source /\ job'[k].text = job[k].text
                      /\ job'[k].acked = job[k].acked
  BY <1>3
<1>7. (ConfirmedIsStored /\ DeletedIsGone /\ RecordsAgree)'
  BY <1>2 DEF IndexerInv, ConfirmedIsStored, DeletedIsGone, RecordsAgree
<1>8. (MeetingsSeen /\ NothingConfirmed)'
  BY <1>2, <1>4, <1>6 DEF IndexerInv, MeetingsSeen, NothingConfirmed, Meets, WorksOn
<1>9. VecHolds'
  <2>1. \A k \in Jobs : job'[k].at \in {"connect", "write"} => job[k].at \in {"connect", "write"}
    BY <1>2, <1>3
  <2>2. QED BY <1>2, <1>6, <2>1 DEF IndexerInv, VecHolds
<1>10. VecLacks'
  <2>1. \A k \in Jobs : job'[k].at = "delete" => job[k].at = "delete"
    BY <1>2, <1>3
  <2>2. QED BY <1>2, <1>6, <2>1 DEF IndexerInv, VecLacks, WorksOn
<1>11. GoneIsQuiet'
  <2>1. \A k \in Jobs : job'[k].at \in {"connect", "close", "write"} => job[k].at \in {"connect", "close", "write"}
    BY <1>2, <1>3
  <2>2. QED BY <1>2, <1>6, <2>1 DEF IndexerInv, GoneIsQuiet, WorksOn
<1>12. QED BY <1>5, <1>7, <1>8, <1>9, <1>10, <1>11 DEF IndexerInv

\* The client of a failed connection is closed, or the job fails and it stays.
LEMMA EsClosedKeeps == ASSUME JobsInv, NEW j \in Jobs, EsClosed(j) PROVE JobsInv'
<1> USE DEF JobsInv
<1>1. /\ ~Idle(j) /\ job[j] \in JobRecord /\ job' = [job EXCEPT ![j] = NoJob]
      /\ UNCHANGED <<vecLink, vec, es, crossed, promised, gone, starts>>
      /\ esLink' \in EsLink
      /\ \/ records' = [records EXCEPT ![job[j].source] = job[j].text]
         \/ records' = records
  BY JobFacts DEF EsClosed, EsLink, VecLink
<1>2. /\ \A k \in Jobs : job'[k] = IF k = j THEN NoJob ELSE job[k]
      /\ \A k \in Jobs : Idle(k)' <=> k = j \/ Idle(k)
  BY <1>1, JobEnds
<1>3. IndexerTypeOK'
  BY <1>1 DEF IndexerTypeOK, JobRecord
<1>4. (ConfirmedIsStored /\ DeletedIsGone)'
  BY <1>1 DEF IndexerInv, ConfirmedIsStored, DeletedIsGone
<1>5. RecordsAgree'
  <2> SUFFICES ASSUME NEW x \in Sources, promised[x] # NoText, records'[x] # NoText
               PROVE  records'[x] = promised[x]
    BY <1>1 DEF RecordsAgree
  <2>1. x # job[j].source
    BY <1>1 DEF IndexerInv, NothingConfirmed
  <2>2. records'[x] = records[x]
    BY <1>1, <2>1 DEF IndexerTypeOK
  <2>3. QED BY <2>2 DEF IndexerInv, RecordsAgree
<1>6. MeetingsSeen'
  BY <1>1, MeetingsStay
<1>7. NothingConfirmed'
  BY <1>1, <1>2 DEF IndexerInv, NothingConfirmed, WorksOn
<1>8. (VecHolds /\ VecLacks /\ GoneIsQuiet)'
  BY <1>1, <1>2 DEF IndexerInv, VecHolds, VecLacks, GoneIsQuiet, WorksOn, NoJob
<1>9. QED BY <1>3, <1>4, <1>5, <1>6, <1>7, <1>8 DEF IndexerInv

\* A text is confirmed when both stores have all of it and the job met nobody.
LEMMA EsWriteKeeps == ASSUME JobsInv, NEW j \in Jobs, EsWrite(j) PROVE JobsInv'
<1> DEFINE s == job[j].source
           t == job[j].text
<1> USE DEF JobsInv
<1>1. PICK done \in SUBSET ChunksOf(t) :
        /\ es' = Stored(es, done, t)
        /\ records' = [records EXCEPT ![s] = t]
        /\ promised' = IF job[j].acked /\ done = ChunksOf(t) /\ j \notin crossed
                       THEN [promised EXCEPT ![s] = t] ELSE promised
  BY DEF EsWrite
<1>2. /\ ~Idle(j) /\ job[j] \in JobRecord /\ job[j].at = "write" /\ job' = [job EXCEPT ![j] = NoJob]
      /\ UNCHANGED <<vecLink, esLink, vec, crossed, gone, starts>>
  BY JobFacts DEF EsWrite
<1>3. /\ \A k \in Jobs : job'[k] = IF k = j THEN NoJob ELSE job[k]
      /\ \A k \in Jobs : Idle(k)' <=> k = j \/ Idle(k)
  BY <1>2, JobEnds
<1>4. s \in Sources /\ t \in Texts /\ t # NoText
  BY <1>2, IndexerAssumption DEF JobRecord
<1> HIDE DEF s, t
<1>5. /\ es' \in [ChunkIds -> Opt]
      /\ \A id \in ChunkIds : es'[id] = IF id \in done THEN t ELSE es[id]
  <2>1. done \in SUBSET ChunkIds /\ es \in [ChunkIds -> Opt]
    BY <1>4, ChunkFacts, TextFacts
  <2>2. QED BY <1>1, <1>4, <2>1, StoreFacts
<1>6. \* Confirmed is what was, and what this job wrote if it met nobody.
      /\ promised' \in [Sources -> Opt]
      /\ \A x \in Sources : promised'[x] # NoText =>
           \/ promised'[x] = promised[x] /\ x # s /\ DocOf[promised[x]] # DocOf[t]
           \/ x = s /\ promised'[x] = t /\ job[j].acked /\ done = ChunksOf(t) /\ j \notin crossed
  <2>1. \A x \in Sources : promised[x] # NoText => x # s /\ DocOf[promised[x]] # DocOf[t]
    BY <1>2 DEF IndexerInv, NothingConfirmed, WorksOn, s, t
  <2>2. promised \in [Sources -> Opt]
    BY DEF IndexerTypeOK, Opt
  <2>3. CASE promised' = promised
    BY <2>1, <2>2, <2>3
  <2>4. CASE promised' # promised
    BY <1>1, <1>4, <2>1, <2>2, <2>4 DEF Opt
  <2>5. QED BY <2>3, <2>4
<1>7. ConfirmedIsStored'
  <2> SUFFICES ASSUME NEW x \in Sources, promised'[x] # NoText, NEW id \in ChunksOf(promised'[x])
               PROVE  vec[id] = promised'[x] /\ es'[id] = promised'[x]
    BY <1>2 DEF ConfirmedIsStored
  <2>1. CASE promised'[x] = promised[x] /\ x # s /\ DocOf[promised[x]] # DocOf[t]
    <3>1. promised[x] \in Texts /\ id \in ChunkIds /\ id[1] = DocOf[promised[x]]
      BY <2>1, TextFacts, ChunkFacts
    <3>2. id \notin done
      BY <1>4, <2>1, <3>1, ChunkFacts
    <3>3. QED BY <1>5, <2>1, <3>1, <3>2 DEF IndexerInv, ConfirmedIsStored
  <2>2. CASE x = s /\ promised'[x] = t /\ job[j].acked /\ done = ChunksOf(t) /\ j \notin crossed
    <3>1. id \in done /\ id \in ChunkIds
      BY <1>4, <2>2, ChunkFacts
    <3>2. vec[id] = t
      BY <1>2, <2>2, <3>1 DEF IndexerInv, VecHolds, t
    <3>3. QED BY <1>5, <2>2, <3>1, <3>2
  <2>3. QED BY <1>6, <2>1, <2>2
<1>8. DeletedIsGone'
  <2> SUFFICES ASSUME NEW e \in gone, NEW id \in ChunksOfDoc(e)
               PROVE  vec[id] = NoText /\ es'[id] = NoText
    BY <1>2 DEF DeletedIsGone
  <2>1. e # DocOf[t] /\ id \in ChunkIds /\ id[1] = e
    BY <1>2 DEF IndexerInv, GoneIsQuiet, WorksOn, ChunksOfDoc, t
  <2>2. id \notin done
    BY <1>4, <2>1, ChunkFacts
  <2>3. QED BY <1>5, <2>1, <2>2 DEF IndexerInv, DeletedIsGone
<1>9. RecordsAgree'
  <2> SUFFICES ASSUME NEW x \in Sources, promised'[x] # NoText, records'[x] # NoText
               PROVE  records'[x] = promised'[x]
    BY DEF RecordsAgree
  <2>1. records'[x] = IF x = s THEN t ELSE records[x]
    BY <1>1, <1>4 DEF IndexerTypeOK
  <2>2. QED BY <1>6, <2>1 DEF IndexerInv, RecordsAgree
<1>10. MeetingsSeen'
  BY <1>2, MeetingsStay
<1>11. NothingConfirmed'
  <2> SUFFICES ASSUME NEW k \in Jobs, ~Idle(k)', NEW x \in Sources, promised'[x] # NoText
               PROVE  x # job'[k].source /\ DocOf[job'[k].text] # DocOf[promised'[x]]
    BY DEF NothingConfirmed, WorksOn
  <2>1. k # j /\ ~Idle(k) /\ job'[k] = job[k]
    BY <1>3
  <2>2. CASE promised'[x] = promised[x]
    BY <2>1, <2>2 DEF IndexerInv, NothingConfirmed, WorksOn
  <2>3. CASE x = s /\ promised'[x] = t /\ j \notin crossed
    <3>1. ~Meets(k, s, DocOf[t])
      BY <1>2, <2>1, <2>3 DEF IndexerInv, MeetingsSeen, s, t
    <3>2. QED BY <2>1, <2>3, <3>1 DEF Meets
  <2>4. QED BY <1>6, <2>2, <2>3
<1>12. (VecHolds /\ VecLacks /\ GoneIsQuiet)'
  BY <1>2, <1>3 DEF IndexerInv, VecHolds, VecLacks, GoneIsQuiet, WorksOn, NoJob
<1>13. IndexerTypeOK'
  BY <1>1, <1>2, <1>4, <1>5, <1>6 DEF IndexerTypeOK, Opt
<1>14. QED BY <1>7, <1>8, <1>9, <1>10, <1>11, <1>12, <1>13 DEF IndexerInv

\* A document is gone when both stores have deleted it and the job met nobody.
LEMMA EsDeleteKeeps == ASSUME JobsInv, NEW j \in Jobs, EsDelete(j) PROVE JobsInv'
<1> DEFINE s == job[j].source
           d == DocOf[job[j].text]
<1> USE DEF JobsInv
<1>1. /\ records' = [records EXCEPT ![s] = NoText]
      /\ \/ /\ es' = Dropped(es, d)
            /\ gone' = IF job[j].acked /\ j \notin crossed THEN gone \cup {d} ELSE gone
         \/ es' = es /\ gone' = gone
  BY DEF EsDelete
<1>2. /\ ~Idle(j) /\ job[j] \in JobRecord /\ job[j].at = "delete" /\ job' = [job EXCEPT ![j] = NoJob]
      /\ UNCHANGED <<vecLink, esLink, vec, crossed, promised, starts>>
  BY JobFacts DEF EsDelete
<1>3. /\ \A k \in Jobs : job'[k] = IF k = j THEN NoJob ELSE job[k]
      /\ \A k \in Jobs : Idle(k)' <=> k = j \/ Idle(k)
  BY <1>2, JobEnds
<1>4. s \in Sources /\ d \in {DocOf[t] : t \in Texts}
  BY <1>2 DEF JobRecord
<1> HIDE DEF s, d
<1>5. /\ es' \in [ChunkIds -> Opt]
      /\ \A id \in ChunkIds : es'[id] \in {NoText, es[id]} /\ (id[1] # d => es'[id] = es[id])
  <2>1. es \in [ChunkIds -> Opt]
    BY TextFacts
  <2>2. CASE es' = Dropped(es, d)
    BY <2>1, <2>2, StoreFacts
  <2>3. CASE es' = es
    BY <2>1, <2>3
  <2>4. QED BY <1>1, <2>2, <2>3
<1>6. \A e \in gone' : e \in gone \/ (e = d /\ es' = Dropped(es, d) /\ job[j].acked /\ j \notin crossed)
  BY <1>1
<1>7. ConfirmedIsStored'
  <2> SUFFICES ASSUME NEW x \in Sources, promised[x] # NoText, NEW id \in ChunksOf(promised[x])
               PROVE  vec[id] = promised[x] /\ es'[id] = promised[x]
    BY <1>2 DEF ConfirmedIsStored
  <2>1. DocOf[promised[x]] # d /\ promised[x] \in Texts
    BY <1>2, TextFacts DEF IndexerInv, NothingConfirmed, WorksOn, d
  <2>2. id \in ChunkIds /\ id[1] # d
    BY <2>1, ChunkFacts
  <2>3. QED BY <1>5, <2>2 DEF IndexerInv, ConfirmedIsStored
<1>8. DeletedIsGone'
  <2> SUFFICES ASSUME NEW e \in gone', NEW id \in ChunksOfDoc(e)
               PROVE  vec[id] = NoText /\ es'[id] = NoText
    BY <1>2 DEF DeletedIsGone
  <2>1. id \in ChunkIds /\ id[1] = e
    BY DEF ChunksOfDoc
  <2>2. CASE e \in gone
    BY <1>5, <2>1, <2>2 DEF IndexerInv, DeletedIsGone
  <2>3. CASE e = d /\ es' = Dropped(es, d) /\ job[j].acked /\ j \notin crossed
    <3>1. vec[id] = NoText
      BY <1>2, <2>1, <2>3 DEF IndexerInv, VecLacks, WorksOn, d
    <3>2. es'[id] = NoText
      BY <2>1, <2>3, TextFacts, StoreFacts
    <3>3. QED BY <3>1, <3>2
  <2>4. QED BY <1>6, <2>2, <2>3
<1>9. RecordsAgree'
  BY <1>1, <1>2, <1>4 DEF IndexerInv, RecordsAgree, IndexerTypeOK
<1>10. MeetingsSeen'
  BY <1>2, MeetingsStay
<1>11. NothingConfirmed'
  BY <1>2, <1>3 DEF IndexerInv, NothingConfirmed, WorksOn
<1>12. (VecHolds /\ VecLacks)'
  BY <1>2, <1>3 DEF IndexerInv, VecHolds, VecLacks, WorksOn, NoJob
<1>13. GoneIsQuiet'
  <2> SUFFICES ASSUME NEW k \in Jobs, job'[k].at \in {"connect", "close", "write"}, NEW e \in gone'
               PROVE  DocOf[job'[k].text] # e
    BY DEF GoneIsQuiet, WorksOn
  <2>1. k # j /\ job'[k] = job[k]
    BY <1>3 DEF NoJob
  <2>2. CASE e \in gone
    BY <2>1, <2>2 DEF IndexerInv, GoneIsQuiet, WorksOn
  <2>3. CASE e = d /\ j \notin crossed
    <3>1. ~Idle(k)
      BY <2>1 DEF Idle, NoJob
    <3>2. ~Meets(k, s, d)
      BY <1>2, <2>1, <2>3 DEF IndexerInv, MeetingsSeen, s, d
    <3>3. QED BY <2>1, <2>3, <3>1, <3>2 DEF Meets
  <2>4. QED BY <1>6, <2>2, <2>3
<1>14. IndexerTypeOK'
  BY <1>1, <1>2, <1>4, <1>5 DEF IndexerTypeOK, Opt
<1>15. QED BY <1>7, <1>8, <1>9, <1>10, <1>11, <1>12, <1>13, <1>14 DEF IndexerInv

\* Closing drops the clients, a restart the records and the jobs.
LEMMA RestKeeps == ASSUME JobsInv, Close \/ IndexerRestart PROVE JobsInv'
<1> USE DEF JobsInv
<1>1. /\ UNCHANGED <<vec, es, promised, gone>> /\ starts' \in 0..MaxStarts
      /\ vecLink' \in VecLink /\ esLink' \in EsLink
      /\ \/ records' = records
         \/ records' = [s \in Sources |-> NoText]
  BY IndexerAssumption DEF Close, IndexerRestart, Counted, VecLink, EsLink, IndexerTypeOK
<1>2. (\A j \in Jobs : job'[j] = NoJob) /\ job' \in [Jobs -> JobRecord \cup {NoJob}] /\ crossed' \subseteq Jobs
  BY DEF Close, IndexerRestart, Idle, IndexerTypeOK
<1>3. IndexerTypeOK'
  BY <1>1, <1>2 DEF IndexerTypeOK, JobRecord
<1>4. (ConfirmedIsStored /\ DeletedIsGone /\ RecordsAgree)'
  BY <1>1 DEF IndexerInv, ConfirmedIsStored, DeletedIsGone, RecordsAgree
<1>5. (MeetingsSeen /\ NothingConfirmed)'
  BY <1>2 DEF MeetingsSeen, NothingConfirmed, Idle
<1>6. (VecHolds /\ VecLacks /\ GoneIsQuiet)'
  BY <1>2 DEF VecHolds, VecLacks, GoneIsQuiet, NoJob
<1>7. QED BY <1>3, <1>4, <1>5, <1>6 DEF IndexerInv

\* The state is well typed and the parts of IndexerInv hold together.
LEMMA JobsHold == IndexerSpec => []JobsInv
<1>1. JobsInv /\ [IndexerNext]_indexerVars => JobsInv'
  <2> SUFFICES ASSUME JobsInv, [IndexerNext]_indexerVars PROVE JobsInv'
    OBVIOUS
  <2>1. CASE UNCHANGED indexerVars
    BY <2>1, Stutters
  <2>2. CASE IndexerNext
    BY <2>2, SkipKeeps, BeginIndexKeeps, BeginDeleteKeeps, EsConnectKeeps, EsClosedKeeps, EsWriteKeeps,
       EsDeleteKeeps, RestKeeps DEF IndexerNext
  <2>3. QED BY <2>1, <2>2
<1>2. QED BY <1>1, StartsEmpty, PTL DEF IndexerSpec

(* A text both stores confirmed is in both, chunk by chunk, until a job       *)
(* starts on its path or its document: whatever links were lost, mocked or    *)
(* closed, jobs of other documents overlapped or the process was restarted    *)
(* (ConfirmedIsStored).                                                       *)
THEOREM ConfirmedStaysStored == IndexerSpec => []ConfirmedIsStored
<1>1. JobsInv => ConfirmedIsStored
  BY DEF JobsInv, IndexerInv
<1>2. QED BY <1>1, JobsHold, PTL

(* A document both stores confirmed deleted, by a job that met no other       *)
(* there, has no chunk left in either until somebody indexes it again         *)
(* (DeletedIsGone).                                                           *)
THEOREM DeletedStaysGone == IndexerSpec => []DeletedIsGone
<1>1. JobsInv => DeletedIsGone
  BY DEF JobsInv, IndexerInv
<1>2. QED BY <1>1, JobsHold, PTL

-----------------------------------------------------------------------------
(* The splitter.  That no text is lost rests on where text may still be: in a *)
(* section not opened yet, in the text at hand or in one of its blocks, under *)
(* the heading it stood under, or in a chunk already.  What vanishes with the *)
(* code blocks is known by its section, so the sections left are those of     *)
(* the document.                                                              *)

Section == [title : 0..Len(doc), span : SUBSET (1..Len(doc))]
Chunk == [title : 0..Len(doc), kept : SUBSET (1..Len(doc))]

\* A text position stands at least two places, a newline between, after its heading and
\* before the next one.
LEMMA DocFacts ==
  ASSUME doc \in Documents
  PROVE  /\ Len(doc) \in Nat /\ HeadingsOf(doc) \subseteq 1..Len(doc)
         /\ \A p : IsText(p) => /\ p \in Nat /\ 1 <= p /\ p <= Len(doc)
                                /\ p \notin HeadingsOf(doc)
                                /\ p + 1 \notin HeadingsOf(doc) /\ p - 1 \notin HeadingsOf(doc)
<1>1. Len(doc) \in Nat
  BY SplitterAssumption, LenProperties
<1>2. \A h \in HeadingsOf(doc) : h \in 1..Len(doc) /\ OwnLine(doc, h)
  BY SplitterAssumption DEF HeadingsOf
<1>3. QED BY <1>1, <1>2 DEF HeadingsOf, IsText, OwnLine

\* The heading over a position is the last one before it.
LEMMA UnderFacts ==
  ASSUME doc \in Documents, NEW p, IsText(p)
  PROVE  /\ Under(p) \in {0} \cup HeadingsOf(doc) /\ Under(p) \in Nat /\ Under(p) <= p
         /\ \A h \in HeadingsOf(doc) : h <= p => h <= Under(p)
<1> DEFINE U == {0} \cup {h \in 1..p : doc[h] = "#"}
<1>1. p \in Nat /\ p <= Len(doc) /\ Len(doc) \in Nat
  BY DocFacts
<1>2. U \in SUBSET Nat /\ U # {} /\ \A m \in U : m <= p
  BY <1>1
<1>3. Furthest(U) \in U /\ \A m \in U : m <= Furthest(U)
  <2> HIDE DEF U
  <2> QED BY <1>1, <1>2, FurthestOf
<1>4. QED BY <1>1, <1>3 DEF Under, HeadingsOf

\* A section goes from its heading to the next one.
LEMMA SectionFacts ==
  ASSUME doc \in Documents, NEW h \in {0} \cup HeadingsOf(doc)
  PROVE  LET s == SectionOf(doc, h)
         IN  /\ s.title = h /\ s.from = (IF h = 0 THEN 1 ELSE h + 2) /\ s.from \in Nat
             /\ s.beyond \in HeadingsOf(doc) \cup {Len(doc) + 2} /\ h < s.beyond
             /\ s.beyond \in Nat /\ s.beyond <= Len(doc) + 2
<1> DEFINE A == {k \in HeadingsOf(doc) \cup {Len(doc) + 2} : h < k}
<1>1. Len(doc) \in Nat /\ HeadingsOf(doc) \subseteq 1..Len(doc)
  BY DocFacts
<1>2. A \in SUBSET Nat /\ Len(doc) + 2 \in A
  BY <1>1
<1>3. Least(A) \in A /\ \A m \in A : Least(A) <= m
  <2> HIDE DEF A
  <2> QED BY <1>2, LeastOf
<1>4. SectionOf(doc, h).beyond = Least(A)
  BY DEF SectionOf
<1>5. QED BY <1>1, <1>3, <1>4 DEF SectionOf

\* The sections of a document lie within it.
LEMMA SectionsTyped ==
  ASSUME doc \in Documents PROVE SplitByHeadings(doc) \in Seq(Section)
<1> DEFINE found == {h \in {0} \cup HeadingsOf(doc) : SectionOf(doc, h).from < SectionOf(doc, h).beyond}
           order == Ascending(found)
           whole == [title |-> 0, span |-> 1..Len(doc)]
           at(k) == [title |-> order[k],
                     span |-> SectionOf(doc, order[k]).from..SectionOf(doc, order[k]).beyond - 2]
<1>1. Len(doc) \in Nat /\ HeadingsOf(doc) \subseteq 1..Len(doc)
  BY DocFacts
<1>2. whole \in Section
  BY <1>1 DEF Section
<1>3. \A h \in found : [title |-> h, span |-> SectionOf(doc, h).from..SectionOf(doc, h).beyond - 2] \in Section
  BY <1>1, SectionFacts DEF Section
<1>4. found \in SUBSET Nat /\ IsFiniteSet(found)
  <2>1. found \in SUBSET (0..Len(doc))
    BY <1>1
  <2> HIDE DEF found
  <2>2. IsFiniteSet(0..Len(doc))
    BY <1>1, FS_Interval
  <2>3. IsFiniteSet(found)
    BY <2>1, <2>2, FS_Subset
  <2>4. found \in SUBSET Nat
    BY <1>1, <2>1
  <2>5. QED BY <2>3, <2>4
<1> HIDE DEF found
<1>5. order \in Seq(found) /\ Len(order) = Cardinality(found)
  BY <1>4, AscendingSeq
<1>6. Cardinality(found) \in Nat /\ \A k \in 1..Cardinality(found) : order[k] \in found
  BY <1>4, <1>5, FS_CardinalityType, ElementOfSeq
<1>7. [k \in 1..Cardinality(found) |-> at(k)] \in [1..Cardinality(found) -> Section]
  BY <1>3, <1>6
<1>8. [k \in 1..Cardinality(found) |-> at(k)] \in Seq(Section)
  BY <1>6, <1>7, SeqDef
<1>9. <<whole>> \in Seq(Section)
  BY <1>2
<1>10. SplitByHeadings(doc) = IF found = {} THEN <<whole>> ELSE [k \in 1..Cardinality(found) |-> at(k)]
  BY DEF SplitByHeadings, found
<1>11. QED BY <1>8, <1>9, <1>10

\* Every text position is in the section of the heading it stands under.
LEMMA SectionsCover ==
  ASSUME doc \in Documents, NEW p, IsText(p)
  PROVE  \E k \in DOMAIN SplitByHeadings(doc) :
            /\ p \in SplitByHeadings(doc)[k].span
            /\ SplitByHeadings(doc)[k].title = Under(p)
<1> DEFINE found == {h \in {0} \cup HeadingsOf(doc) : SectionOf(doc, h).from < SectionOf(doc, h).beyond}
           order == Ascending(found)
           u == Under(p)
           s == SectionOf(doc, u)
           at(k) == [title |-> order[k],
                     span |-> SectionOf(doc, order[k]).from..SectionOf(doc, order[k]).beyond - 2]
<1>1. /\ Len(doc) \in Nat /\ HeadingsOf(doc) \subseteq 1..Len(doc)
      /\ p \in Nat /\ 1 <= p /\ p <= Len(doc) /\ p \notin HeadingsOf(doc)
      /\ p + 1 \notin HeadingsOf(doc) /\ p - 1 \notin HeadingsOf(doc)
  BY DocFacts
<1>2. /\ u \in {0} \cup HeadingsOf(doc) /\ u \in Nat /\ u <= p
      /\ \A h \in HeadingsOf(doc) : h <= p => h <= u
  BY UnderFacts
<1> HIDE DEF u
<1>3. /\ s.from = (IF u = 0 THEN 1 ELSE u + 2) /\ u < s.beyond /\ s.beyond \in Nat
      /\ s.beyond \in HeadingsOf(doc) \cup {Len(doc) + 2}
  BY <1>2, SectionFacts
<1> HIDE DEF s
<1>4. s.from <= p
  <2>1. u # 0 => u # p /\ u # p - 1
    BY <1>1, <1>2
  <2>2. QED BY <1>1, <1>2, <1>3, <2>1
<1>5. p <= s.beyond - 2
  <2>1. ~(s.beyond <= p)
    BY <1>1, <1>2, <1>3
  <2>2. s.beyond # p + 1
    BY <1>1, <1>3
  <2>3. QED BY <1>1, <1>3, <2>1, <2>2
<1>6. u \in found
  BY <1>1, <1>2, <1>3, <1>4, <1>5 DEF s
<1>7. found \in SUBSET Nat /\ IsFiniteSet(found)
  <2>1. found \in SUBSET (0..Len(doc))
    BY <1>1
  <2> HIDE DEF found
  <2>2. IsFiniteSet(0..Len(doc))
    BY <1>1, FS_Interval
  <2>3. IsFiniteSet(found)
    BY <2>1, <2>2, FS_Subset
  <2>4. found \in SUBSET Nat
    BY <1>1, <2>1
  <2>5. QED BY <2>3, <2>4
<1>8. SplitByHeadings(doc) = IF found = {} THEN <<[title |-> 0, span |-> 1..Len(doc)]>>
                             ELSE [k \in 1..Cardinality(found) |-> at(k)]
  BY DEF SplitByHeadings
<1> HIDE DEF found
<1>9. PICK i \in 1..Cardinality(found) : order[i] = u
  BY <1>6, <1>7, AscendingSeq
<1>10. SplitByHeadings(doc) = [k \in 1..Cardinality(found) |-> at(k)]
  BY <1>6, <1>8
<1>11. at(i).title = u /\ p \in at(i).span
  BY <1>1, <1>3, <1>4, <1>5, <1>9 DEF s
<1>12. QED BY <1>9, <1>10, <1>11 DEF u

-----------------------------------------------------------------------------
\* A chunk of c under heading t has the position.
Kept(c, p, t) == \E k \in DOMAIN c : p \in c[k].kept /\ c[k].title = t

SplitterTyped ==
    /\ doc \in Documents
    /\ sections \in Seq(Section)
    /\ title \in 0..Len(doc) /\ text \in Seq(1..Len(doc))
    /\ blocks \in Seq(SUBSET (1..Len(doc)))
    /\ start \in Nat /\ reach \in Nat /\ rounds \in Nat
    /\ chunks \in Seq(Chunk)

\* Where a text position is that has no chunk under its heading yet.
Waits(p) ==
    \/ \E k \in DOMAIN sections : p \in sections[k].span /\ sections[k].title = Under(p)
    \/ title = Under(p) /\ \E k \in DOMAIN blocks : p \in blocks[k]
    \/ title = Under(p) /\ \E i \in 1..Len(text) : text[i] = p
NothingLost == \A p : IsText(p) => Kept(chunks, p, Under(p)) \/ Waits(p) \/ Vanishes(p)
SectionsKnown == \A k \in DOMAIN sections : sections[k].span \in Spans

SplitterInv ==
    /\ SplitterTyped
    /\ start <= reach /\ SplitAdvances /\ PassedIsKept
    /\ NothingLost /\ SectionsKnown

\* What becomes of the chunks when one more is made of ps.
LEMMA WithChunkFacts ==
  ASSUME SplitterTyped, NEW ps \in SUBSET (1..Len(doc))
  PROVE  /\ WithChunk(ps) \in Seq(Chunk)
         /\ \A p, t : Kept(chunks, p, t) => Kept(WithChunk(ps), p, t)
         /\ \A p \in ps : ~IsBlank(p) => Kept(WithChunk(ps), p, title)
<1> DEFINE made == [title |-> title, kept |-> {p \in ps : ~IsBlank(p)}]
<1>1. made \in Chunk
  BY DEF SplitterTyped, Chunk
<1>2. CASE \A p \in ps : IsBlank(p)
  BY <1>2 DEF WithChunk, SplitterTyped
<1>3. CASE ~(\A p \in ps : IsBlank(p))
  <2>1. WithChunk(ps) = Append(chunks, made)
    BY <1>3 DEF WithChunk
  <2>2. made.title = title /\ \A p \in ps : ~IsBlank(p) => p \in made.kept
    OBVIOUS
  <2> HIDE DEF made
  <2>3. /\ Append(chunks, made) \in Seq(Chunk)
        /\ Len(chunks) \in Nat /\ DOMAIN chunks = 1..Len(chunks)
        /\ DOMAIN Append(chunks, made) = 1..(Len(chunks) + 1)
        /\ \A i \in 1..Len(chunks) : Append(chunks, made)[i] = chunks[i]
        /\ Append(chunks, made)[Len(chunks) + 1] = made
    BY <1>1, AppendProperties, LenProperties DEF SplitterTyped
  <2>4. QED BY <2>1, <2>2, <2>3 DEF Kept
<1>4. QED BY <1>2, <1>3

\* A round ends beyond its start, and by more than the overlap.
LEMMA EndFacts ==
  ASSUME SplitterTyped, NEW a \in Nat
  PROVE  End(a) \in Nat /\ NextStart(a) \in Nat /\ a + 1 <= NextStart(a) /\ NextStart(a) <= End(a)
<1> DEFINE b == a + MaxChars
           half == MaxChars \div 2
<1>1. /\ MaxChars \in Nat \ {0} /\ Overlap \in Nat /\ Overlap <= half
      /\ half \in Nat /\ half + 1 <= MaxChars /\ b \in Nat
  BY SplitterAssumption
<1> HIDE DEF half
<1>2. /\ Paragraphs(a, b) \in SUBSET Nat /\ \A i \in Paragraphs(a, b) : i <= b /\ a + half + 1 <= i
      /\ Sentences(a, b) \in SUBSET Nat /\ \A i \in Sentences(a, b) : i <= b /\ a + half + 1 <= i
  BY <1>1 DEF Paragraphs, Sentences, Middle, half
<1>3. Paragraphs(a, b) # {} => /\ Furthest(Paragraphs(a, b)) \in Nat
                               /\ a + half + 1 <= Furthest(Paragraphs(a, b))
  <2>1. Paragraphs(a, b) # {} => Furthest(Paragraphs(a, b)) \in Paragraphs(a, b)
    BY <1>1, <1>2, FurthestOf
  <2>2. QED BY <1>2, <2>1
<1>4. Sentences(a, b) # {} => /\ Furthest(Sentences(a, b)) \in Nat
                              /\ a + half + 1 <= Furthest(Sentences(a, b))
  <2>1. Sentences(a, b) # {} => Furthest(Sentences(a, b)) \in Sentences(a, b)
    BY <1>1, <1>2, FurthestOf
  <2>2. QED BY <1>2, <2>1
<1>5. End(a) \in Nat /\ a + half + 1 <= End(a)
  BY <1>1, <1>3, <1>4 DEF End
<1>6. QED BY <1>1, <1>5 DEF NextStart

\* What has been passed of the section's text is in its chunks under its heading, so
\* nothing waits there.
LEMMA PassedText ==
  ASSUME SplitterInv, start >= Len(text), NEW p, IsText(p), title = Under(p),
         NEW i \in 1..Len(text), text[i] = p
  PROVE  Kept(chunks, p, Under(p))
<1>1. Len(text) \in Nat /\ start \in Nat /\ reach \in Nat /\ start <= reach
  BY LenProperties DEF SplitterInv, SplitterTyped
<1>2. i <= reach /\ ~IsBlank(p)
  BY <1>1 DEF IsText, IsBlank
<1>3. QED BY <1>2 DEF SplitterInv, PassedIsKept, Kept

\* A set of positions laid out in their order.
LEMMA PositionsInOrder ==
  ASSUME doc \in Documents, NEW S \in SUBSET (1..Len(doc))
  PROVE  /\ IsFiniteSet(S) /\ S \in SUBSET Nat /\ Cardinality(S) \in Nat
         /\ Ascending(S) \in Seq(1..Len(doc)) /\ Len(Ascending(S)) \in Nat
         /\ \A p \in S : \E i \in 1..Len(Ascending(S)) : Ascending(S)[i] = p
<1>1. Len(doc) \in Nat
  BY DocFacts
<1>2. IsFiniteSet(1..Len(doc))
  BY <1>1, FS_Interval
<1>3. IsFiniteSet(S) /\ S \in SUBSET Nat
  <2>1. IsFiniteSet(S) BY <1>2, FS_Subset
  <2>2. S \in SUBSET Nat BY <1>1
  <2>3. QED BY <2>1, <2>2
<1>4. Ascending(S) \in Seq(S) /\ \A p \in S : \E i \in 1..Len(Ascending(S)) : Ascending(S)[i] = p
  BY <1>3, AscendingSeq
<1>5. Ascending(S) \in Seq(1..Len(doc))
  BY <1>4, SeqMonotonic
<1>6. Len(Ascending(S)) \in Nat
  BY <1>5, LenProperties
<1>7. QED BY <1>3, <1>4, <1>5, <1>6, FS_CardinalityType

\* The code blocks and tables of a section are made of its positions.
LEMMA BlocksTyped ==
  ASSUME doc \in Documents, NEW span \in SUBSET (1..Len(doc))
  PROVE  AtomicBlocks(span) \in Seq(SUBSET (1..Len(doc)))
<1>1. CodeBlocks(span) \in Seq(SUBSET (1..Len(doc)))
  <2> DEFINE S == {p \in span : doc[p] = "f"}
             fences == Ascending(S)
  <2>1. Len(fences) \in Nat
    <3>1. S \in SUBSET (1..Len(doc))
      OBVIOUS
    <3> HIDE DEF S
    <3>2. QED BY <3>1, PositionsInOrder
  <2>2. Len(fences) \div 2 \in Nat
    BY <2>1
  <2>3. CodeBlocks(span) \in [1..(Len(fences) \div 2) -> SUBSET (1..Len(doc))]
    BY DEF CodeBlocks
  <2>4. QED BY <2>2, <2>3, SeqDef
<1>2. Tables(span) \in Seq(SUBSET (1..Len(doc)))
  <2> DEFINE heads == {h \in span : IsHead(span, h)}
             first == {h \in heads : \A g \in heads : g < h => h \notin RowsFrom(span, g)}
             order == Ascending(first)
  <2>1. first \in SUBSET (1..Len(doc))
    OBVIOUS
  <2>2. Tables(span) = [k \in 1..Cardinality(first) |-> RowsFrom(span, order[k])]
    BY DEF Tables
  <2> HIDE DEF first
  <2>3. Cardinality(first) \in Nat
    BY <2>1, PositionsInOrder
  <2>4. \A h : RowsFrom(span, h) \in SUBSET (1..Len(doc))
    BY DEF RowsFrom
  <2>5. Tables(span) \in [1..Cardinality(first) -> SUBSET (1..Len(doc))]
    BY <2>2, <2>4
  <2>6. QED BY <2>3, <2>5, SeqDef
<1>3. QED BY <1>1, <1>2, ConcatProperties DEF AtomicBlocks

\* At first all text is in a section not opened yet.
LEMMA InitSplitter == SplitterInit => SplitterInv
<1> SUFFICES ASSUME SplitterInit PROVE SplitterInv
  OBVIOUS
<1>1. doc \in Documents /\ sections = SplitByHeadings(doc)
  BY DEF SplitterInit
<1>2. Len(doc) \in Nat
  BY <1>1, DocFacts
<1>3. SplitterTyped
  BY <1>1, <1>2, SectionsTyped DEF SplitterInit, SplitterTyped
<1>4. NothingLost
  BY <1>1, SectionsCover DEF NothingLost, Waits
<1>5. start <= reach /\ SplitAdvances /\ PassedIsKept
  BY DEF SplitterInit, SplitAdvances, PassedIsKept
<1>6. SectionsKnown
  BY <1>1 DEF SectionsKnown, Spans
<1>7. QED BY <1>3, <1>4, <1>5, <1>6 DEF SplitterInv

\* What depends on the document alone stays while it does.
LEMMA SameDocument ==
  ASSUME doc' = doc PROVE Spans' = Spans /\ \A p : Vanishes(p)' <=> Vanishes(p)
<1>1. \A S, p : LineOf(S, p)' = LineOf(S, p)
  BY DEF LineOf
<1>2. \A S, p : (IsRow(S, p)' <=> IsRow(S, p)) /\ (IsSeparator(S, p)' <=> IsSeparator(S, p))
  BY <1>1 DEF IsRow, IsSeparator
<1>3. \A S : Rows(S)' = Rows(S)
  BY <1>2 DEF Rows
<1>4. \A S, h : RowsFrom(S, h)' = RowsFrom(S, h)
  BY <1>3 DEF RowsFrom
<1>5. \A S, h : IsHead(S, h)' <=> IsHead(S, h)
  <2> SUFFICES ASSUME NEW S, NEW h PROVE IsHead(S, h)' <=> IsHead(S, h)
    OBVIOUS
  <2> DEFINE F == RowsFrom(S, h)
             below(p) == Cardinality({q \in S : h < q /\ q < p /\ doc[q] = "n"})
             follows == \E p, q \in F : /\ below(p) = 1 /\ IsSeparator(S, p)
                                       /\ below(q) = 2 /\ IsRow(S, q)
  <2>1. IsHead(S, h) <=> IsRow(S, h) /\ h = Least(LineOf(S, h)) /\ follows
    BY DEF IsHead
  <2>2. \A p : below(p)' = below(p)
    OBVIOUS
  <2>3. F' = F
    BY <1>4
  <2>4. follows' <=> follows
    <3> HIDE DEF F, below
    <3> QED BY <1>2, <2>2, <2>3
  <2>5. Least(LineOf(S, h))' = Least(LineOf(S, h))
    BY <1>1
  <2> HIDE DEF follows
  <2>6. IsHead(S, h)' <=> IsRow(S, h)' /\ h = Least(LineOf(S, h))' /\ follows'
    BY DEF IsHead, follows
  <2>7. QED BY <1>2, <2>1, <2>4, <2>5, <2>6
<1>6. \A S : Tables(S)' = Tables(S)
  BY <1>4, <1>5 DEF Tables
<1>7. \A S : CodeBlocks(S)' = CodeBlocks(S)
  BY DEF CodeBlocks
<1>8. \A S : AtomicBlocks(S)' = AtomicBlocks(S) /\ RemainingText(S)' = RemainingText(S)
  <2>1. \A S : WithoutCode(S)' = WithoutCode(S)
    BY <1>7 DEF WithoutCode, Positions
  <2>2. \A S : TablesRemoved(S)' = TablesRemoved(S)
    BY <1>6 DEF TablesRemoved, Positions
  <2>3. \A S : RemainingText(S)' = RemainingText(S)
    BY <2>1, <2>2 DEF RemainingText
  <2>4. QED BY <1>6, <1>7, <2>3 DEF AtomicBlocks
<1>9. \A S : Vanishing(S)' = Vanishing(S)
  BY <1>8 DEF Vanishing, Positions
<1>10. Spans' = Spans
  BY DEF Spans, SplitByHeadings, SectionOf, HeadingsOf
<1>11. QED BY <1>9, <1>10 DEF Vanishes

\* Opening a section moves its text to the text at hand and to the blocks.
LEMMA OpenKeeps ==
  ASSUME SplitterInv, OpenSection PROVE SplitterInv'
<1> DEFINE section == Head(sections)
           atomic == AtomicBlocks(section.span)
           rest == RemainingText(section.span)
<1>1. /\ start >= Len(text) /\ blocks = <<>> /\ sections # <<>>
      /\ title' = section.title /\ blocks' = atomic /\ text' = Ascending(rest)
      /\ sections' = Tail(sections) /\ start' = 0 /\ reach' = 0 /\ rounds' = 0
      /\ doc' = doc /\ chunks' = chunks
  BY DEF OpenSection
<1>2. /\ SplitterTyped /\ NothingLost /\ SectionsKnown /\ doc \in Documents /\ sections \in Seq(Section)
  BY DEF SplitterInv, SplitterTyped
<1>3. Len(doc) \in Nat
  BY <1>2, DocFacts
<1>4. /\ section \in Section /\ sections' \in Seq(Section)
      /\ Len(sections) \in Nat /\ DOMAIN sections = 1..Len(sections)
      /\ DOMAIN sections' = 1..(Len(sections) - 1)
      /\ \A k \in 1..(Len(sections) - 1) : sections'[k] = sections[k + 1]
      /\ section = sections[1]
  <2>1. section \in Section /\ Tail(sections) \in Seq(Section) /\ Len(Tail(sections)) = Len(sections) - 1
        /\ \A k \in 1..Len(Tail(sections)) : Tail(sections)[k] = sections[k + 1]
    BY <1>1, <1>2, HeadTailProperties
  <2>2. Len(sections) \in Nat /\ DOMAIN sections = 1..Len(sections)
        /\ DOMAIN Tail(sections) = 1..Len(Tail(sections))
    BY <1>2, <2>1, LenProperties
  <2>3. QED BY <1>1, <2>1, <2>2
<1>5. section.title \in 0..Len(doc) /\ section.span \in SUBSET (1..Len(doc))
  BY <1>4 DEF Section
<1>6. atomic \in Seq(SUBSET (1..Len(doc)))
  BY <1>2, <1>5, BlocksTyped
<1>7. rest \in SUBSET (1..Len(doc))
  BY <1>5 DEF RemainingText, WithoutCode
<1>8. section.span \in Spans
  BY <1>1, <1>2, <1>4 DEF SectionsKnown
<1> HIDE DEF section
<1>9. \A p \in section.span : p \in rest \/ Vanishes(p) \/ \E k \in DOMAIN atomic : p \in atomic[k]
  BY <1>8 DEF Vanishes, Vanishing, Positions
<1> HIDE DEF atomic, rest
<1>10. /\ Ascending(rest) \in Seq(1..Len(doc))
      /\ \A p \in rest : \E i \in 1..Len(Ascending(rest)) : Ascending(rest)[i] = p
  BY <1>2, <1>7, PositionsInOrder
<1>11. SplitterTyped'
  BY <1>1, <1>2, <1>3, <1>4, <1>5, <1>6, <1>10 DEF SplitterTyped, Section, Chunk
<1>12. \A p : IsText(p)' <=> IsText(p)
  BY <1>1 DEF IsText
<1>13. (\A p : Under(p)' = Under(p)) /\ Spans' = Spans /\ (\A p : Vanishes(p)' <=> Vanishes(p))
  <2>1. \A p : Under(p)' = Under(p)
    BY <1>1 DEF Under
  <2>2. QED BY <1>1, <2>1, SameDocument
<1>14. NothingLost'
  <2> SUFFICES ASSUME NEW p, IsText(p) PROVE Kept(chunks, p, Under(p)) \/ Waits(p)' \/ Vanishes(p)
    BY <1>1, <1>12, <1>13 DEF NothingLost
  <2>1. CASE Kept(chunks, p, Under(p))
    BY <2>1
  <2>2. CASE title = Under(p) /\ \E k \in DOMAIN blocks : p \in blocks[k]
    <3>1. DOMAIN blocks = {} BY <1>1
    <3>2. QED BY <2>2, <3>1
  <2>3. CASE title = Under(p) /\ \E i \in 1..Len(text) : text[i] = p
    BY <1>1, <2>3, PassedText
  <2>4. ASSUME NEW k \in DOMAIN sections, p \in sections[k].span, sections[k].title = Under(p)
        PROVE  Waits(p)' \/ Vanishes(p)
    <3>1. CASE k = 1
      <4>1. title' = Under(p)' /\ (p \in rest \/ Vanishes(p) \/ \E n \in DOMAIN blocks' : p \in blocks'[n])
        BY <1>1, <1>4, <1>13, <1>9, <2>4, <3>1
      <4>2. QED BY <1>1, <1>10, <4>1 DEF Waits
    <3>2. CASE k # 1
      <4>1. k - 1 \in DOMAIN sections' /\ sections'[k - 1] = sections[k]
        BY <1>4, <2>4, <3>2
      <4>2. QED BY <1>13, <2>4, <4>1 DEF Waits
    <3>3. QED BY <3>1, <3>2
  <2>5. QED BY <1>2, <2>1, <2>2, <2>3, <2>4 DEF NothingLost, Waits
<1>15. (start <= reach /\ SplitAdvances /\ PassedIsKept)'
  <2>1. \A i \in 1..Len(text') : ~(i <= reach')
    BY <1>1
  <2>2. PassedIsKept'
    BY <2>1 DEF PassedIsKept
  <2>3. QED BY <1>1, <2>2 DEF SplitAdvances
<1>16. SectionsKnown'
  <2> SUFFICES ASSUME NEW k \in 1..(Len(sections) - 1) PROVE sections[k + 1].span \in Spans
    BY <1>1, <1>4, <1>13 DEF SectionsKnown
  <2>1. k + 1 \in DOMAIN sections
    BY <1>4
  <2>2. QED BY <1>2, <2>1 DEF SectionsKnown
<1>17. QED BY <1>11, <1>14, <1>15, <1>16 DEF SplitterInv

\* A step that makes a chunk of ps and leaves the section as it is loses nothing.
LEMMA ChunkKeeps ==
  ASSUME SplitterInv, NEW ps \in SUBSET (1..Len(doc)), chunks' = WithChunk(ps),
         UNCHANGED <<doc, sections, title, text, blocks>>
  PROVE  /\ \A p, t : Kept(chunks, p, t) => Kept(chunks', p, t)
         /\ NothingLost' /\ chunks' \in Seq(Chunk)'
<1>1. \A p, t : Kept(chunks, p, t) => Kept(chunks', p, t)
  BY WithChunkFacts DEF SplitterInv
<1>2. \A p : (IsText(p)' <=> IsText(p)) /\ (Waits(p)' <=> Waits(p)) /\ Under(p)' = Under(p)
  BY DEF IsText, Waits, Under
<1>3. NothingLost'
  BY <1>1, <1>2, SameDocument DEF SplitterInv, NothingLost
<1>4. chunks' \in Seq(Chunk)'
  BY WithChunkFacts DEF SplitterInv, Chunk
<1>5. QED BY <1>1, <1>3, <1>4

\* A piece of the text, from beyond what was passed or before it, to its end.
LEMMA PieceKeeps ==
  ASSUME SplitterInv, NEW a \in Nat, NEW b \in Nat, a <= reach,
         chunks' = WithChunk(Slice(a, b)), UNCHANGED <<doc, sections, title, text, blocks>>,
         reach' = b, start' \in Nat, rounds' \in Nat, start' <= b, rounds' <= start'
  PROVE  SplitterInv'
<1>1. SplitterTyped /\ Len(text) \in Nat /\ \A i \in 1..Len(text) : text[i] \in 1..Len(doc)
  BY LenProperties, ElementOfSeq DEF SplitterInv, SplitterTyped
<1>2. Slice(a, b) \in SUBSET (1..Len(doc))
  BY <1>1 DEF Slice
<1>3. /\ \A p, t : Kept(chunks, p, t) => Kept(chunks', p, t)
      /\ NothingLost' /\ chunks' \in Seq(Chunk)'
  BY <1>2, ChunkKeeps
<1>4. \A p \in Slice(a, b) : ~IsBlank(p) => Kept(chunks', p, title)
  BY <1>1, <1>2, WithChunkFacts
<1>5. PassedIsKept'
  <2> SUFFICES ASSUME NEW i \in 1..Len(text), i <= b, ~IsBlank(text[i])
               PROVE  Kept(chunks', text[i], title)
    BY DEF PassedIsKept, Kept, IsBlank
  <2>1. CASE a < i
    BY <1>4, <2>1 DEF Slice
  <2>2. CASE ~(a < i)
    <3>1. i <= reach
      BY <2>2 DEF SplitterInv, SplitterTyped
    <3>2. Kept(chunks, text[i], title)
      BY <3>1 DEF SplitterInv, PassedIsKept, Kept
    <3>3. QED BY <1>3, <3>2
  <2>3. QED BY <2>1, <2>2
<1>6. SplitterTyped'
  BY <1>1, <1>3 DEF SplitterTyped, Section
<1>7. SectionsKnown'
  BY SameDocument DEF SplitterInv, SectionsKnown
<1>8. QED BY <1>3, <1>5, <1>6, <1>7 DEF SplitterInv, SplitAdvances

\* A block becomes a chunk as it is.
LEMMA BlockKeeps ==
  ASSUME SplitterInv, TakeBlock PROVE SplitterInv'
<1>1. /\ blocks # <<>> /\ chunks' = WithChunk(Head(blocks)) /\ blocks' = Tail(blocks)
      /\ UNCHANGED <<doc, sections, title, text, start, reach, rounds>>
  BY DEF TakeBlock
<1>2. SplitterTyped /\ blocks \in Seq(SUBSET (1..Len(doc)))
  BY DEF SplitterInv, SplitterTyped
<1>3. /\ Head(blocks) \in SUBSET (1..Len(doc)) /\ blocks' \in Seq(SUBSET (1..Len(doc)))
      /\ Len(blocks) \in Nat /\ DOMAIN blocks = 1..Len(blocks) /\ Head(blocks) = blocks[1]
      /\ DOMAIN blocks' = 1..(Len(blocks) - 1)
      /\ \A k \in 1..(Len(blocks) - 1) : blocks'[k] = blocks[k + 1]
  <2>1. /\ Head(blocks) \in SUBSET (1..Len(doc)) /\ Tail(blocks) \in Seq(SUBSET (1..Len(doc)))
        /\ Len(Tail(blocks)) = Len(blocks) - 1
        /\ \A k \in 1..Len(Tail(blocks)) : Tail(blocks)[k] = blocks[k + 1]
    BY <1>1, <1>2, HeadTailProperties
  <2>2. Len(blocks) \in Nat /\ DOMAIN blocks = 1..Len(blocks)
        /\ DOMAIN Tail(blocks) = 1..Len(Tail(blocks))
    BY <1>2, <2>1, LenProperties
  <2>3. QED BY <1>1, <2>1, <2>2
<1>4. /\ WithChunk(Head(blocks)) \in Seq(Chunk)
      /\ \A p, t : Kept(chunks, p, t) => Kept(chunks', p, t)
      /\ \A p \in Head(blocks) : ~IsBlank(p) => Kept(chunks', p, title)
  BY <1>1, <1>2, <1>3, WithChunkFacts
<1>5. SplitterTyped'
  BY <1>1, <1>2, <1>3, <1>4 DEF SplitterTyped, Section, Chunk
<1>6. \A p : (IsText(p)' <=> IsText(p)) /\ Under(p)' = Under(p)
  BY <1>1 DEF IsText, Under
<1>7. NothingLost'
  <2> SUFFICES ASSUME NEW p, IsText(p) PROVE Kept(chunks', p, Under(p)) \/ Waits(p)' \/ Vanishes(p)
    BY <1>1, <1>6, SameDocument DEF NothingLost
  <2>1. CASE Kept(chunks, p, Under(p))
    BY <1>4, <2>1
  <2>2. CASE \E k \in DOMAIN sections : p \in sections[k].span /\ sections[k].title = Under(p)
    BY <1>1, <1>6, <2>2 DEF Waits
  <2>3. CASE title = Under(p) /\ \E i \in 1..Len(text) : text[i] = p
    BY <1>1, <1>6, <2>3 DEF Waits
  <2>4. ASSUME title = Under(p), NEW k \in DOMAIN blocks, p \in blocks[k]
        PROVE  Kept(chunks', p, Under(p)) \/ Waits(p)'
    <3>1. CASE k = 1
      BY <1>3, <1>4, <2>4, <3>1 DEF IsText, IsBlank
    <3>2. CASE k # 1
      <4>1. k - 1 \in DOMAIN blocks' /\ blocks'[k - 1] = blocks[k]
        BY <1>3, <2>4, <3>2
      <4>2. QED BY <1>1, <1>6, <2>4, <4>1 DEF Waits
    <3>3. QED BY <3>1, <3>2
  <2>5. QED BY <2>1, <2>2, <2>3, <2>4 DEF SplitterInv, NothingLost, Waits
<1>8. PassedIsKept'
  <2> SUFFICES ASSUME NEW i \in 1..Len(text), i <= reach, ~IsBlank(text[i])
               PROVE  Kept(chunks', text[i], title)
    BY <1>1 DEF PassedIsKept, Kept, IsBlank
  <2>1. Kept(chunks, text[i], title)
    BY DEF SplitterInv, PassedIsKept, Kept
  <2>2. QED BY <1>4, <2>1
<1>9. SectionsKnown'
  BY <1>1, SameDocument DEF SplitterInv, SectionsKnown
<1>10. QED BY <1>1, <1>5, <1>7, <1>8, <1>9 DEF SplitterInv, SplitAdvances

\* Every step keeps the invariant.
LEMMA NextSplitter == SplitterInv /\ [SplitterNext]_splitterVars => SplitterInv'
<1> SUFFICES ASSUME SplitterInv, [SplitterNext]_splitterVars PROVE SplitterInv'
  OBVIOUS
<1>0. /\ SplitterTyped /\ start \in Nat /\ reach \in Nat /\ rounds \in Nat
      /\ start <= reach /\ rounds <= start /\ Len(text) \in Nat
  BY LenProperties DEF SplitterInv, SplitterTyped, SplitAdvances
<1>1. CASE OpenSection
  BY <1>1, OpenKeeps
<1>2. CASE SplitShort
  BY <1>0, <1>2, PieceKeeps DEF SplitShort
<1>3. CASE SplitRound
  <2>1. /\ End(start) \in Nat /\ NextStart(start) \in Nat
        /\ start + 1 <= NextStart(start) /\ NextStart(start) <= End(start)
    BY <1>0, EndFacts
  <2>2. QED BY <1>0, <1>3, <2>1, PieceKeeps DEF SplitRound
<1>4. CASE TakeBlock
  BY <1>4, BlockKeeps
<1>5. CASE UNCHANGED splitterVars
  <2>1. UNCHANGED <<doc, sections, title, text, blocks, start, reach, rounds, chunks>>
    BY <1>5 DEF splitterVars
  <2>2. SplitterTyped' /\ SplitAdvances' /\ PassedIsKept' /\ (start <= reach)'
    BY <2>1 DEF SplitterInv, SplitterTyped, SplitAdvances, PassedIsKept, Section, Chunk, IsBlank
  <2>3. NothingLost' /\ SectionsKnown'
    BY <2>1, SameDocument DEF SplitterInv, NothingLost, SectionsKnown, Waits, Kept, IsText, Under
  <2>4. QED BY <2>2, <2>3 DEF SplitterInv
<1>6. QED BY <1>1, <1>2, <1>3, <1>4, <1>5 DEF SplitterNext

(* No text of a document is lost on its way into the index: every position    *)
(* that is no newline or heading ends up in a chunk under the heading it      *)
(* stood under, but for what is a table only without the code blocks.         *)
THEOREM SplittingKeepsText == SplitterSpec => []SplitKeepsText
<1>1. SplitterInv => SplitKeepsText
  <2> SUFFICES ASSUME SplitterInv, Processed, NEW p \in 1..Len(doc), IsText(p), ~Vanishes(p)
               PROVE  Kept(chunks, p, Under(p))
    BY DEF SplitKeepsText, SplitterInv, Kept, Indexed
  <2>1. sections = <<>> /\ blocks = <<>> /\ start >= Len(text)
    BY DEF Processed
  <2>2. DOMAIN sections = {} /\ DOMAIN blocks = {}
    BY <2>1
  <2>3. QED BY <2>1, <2>2, PassedText DEF SplitterInv, NothingLost, Waits
<1>2. QED BY <1>1, InitSplitter, NextSplitter, PTL DEF SplitterSpec

-----------------------------------------------------------------------------
(* Fusion.  What is never behind in a list weighs at least as much in it,     *)
(* since weights fall with the rank; added up over two lists it has the       *)
(* better score, or the same one and was seen first.                          *)

\* A list is no longer than there are weights.
Ranking(h) == h \in Seq(Chunks) /\ Len(h) <= Len(Weight)

\* The weights of c's ranks in h, added up from the first one to the n-th.
Sums(f, h, c, n) ==
    /\ f \in [0..n -> Nat] /\ f[0] = 0
    /\ \A k \in 1..n : f[k] = f[k - 1] + IF h[k] = c THEN Weight[k] ELSE 0

\* Every rank has a weight, no higher than the one before.
LEMMA WeightFacts ==
  ASSUME NEW h, Ranking(h)
  PROVE  /\ Len(h) \in Nat /\ DOMAIN h = 1..Len(h) /\ \A k \in 1..Len(h) : Weight[k] \in Nat
         /\ \A k \in 1..Len(h) : k # 1 => Weight[k] <= Weight[k - 1]
<1>1. /\ Weight \in Seq(Nat) /\ h \in Seq(Chunks) /\ Len(h) <= Len(Weight)
      /\ \A i, j \in DOMAIN Weight : i < j => Weight[j] < Weight[i]
  BY RetrievalAssumption DEF Ranking
<1>2. /\ Len(h) \in Nat /\ DOMAIN h = 1..Len(h)
      /\ Len(Weight) \in Nat /\ DOMAIN Weight = 1..Len(Weight)
      /\ \A k \in 1..Len(Weight) : Weight[k] \in Nat
  BY <1>1, LenProperties, ElementOfSeq
<1>3. ASSUME NEW k \in 1..Len(h), k # 1 PROVE Weight[k] <= Weight[k - 1]
  <2>1. k \in DOMAIN Weight /\ k - 1 \in DOMAIN Weight /\ k - 1 < k
    BY <1>1, <1>2, <1>3
  <2>2. Weight[k] < Weight[k - 1] /\ Weight[k] \in Nat /\ Weight[k - 1] \in Nat
    BY <1>1, <1>2, <2>1
  <2>3. QED BY <2>2
<1>4. \A k \in 1..Len(h) : Weight[k] \in Nat
  BY <1>1, <1>2
<1>5. QED BY <1>2, <1>3, <1>4

\* The sums exist: the least prefix without them is that of one position more
\* than a prefix that has them.
LEMMA SumsExist ==
  ASSUME NEW h, Ranking(h), NEW c
  PROVE  \E f : Sums(f, h, c, Len(h))
<1> DEFINE Without == {n \in 0..Len(h) : ~ \E f : Sums(f, h, c, n)}
<1>0. Len(h) \in Nat /\ \A k \in 1..Len(h) : Weight[k] \in Nat
  BY WeightFacts
<1>1. SUFFICES ASSUME Without # {} PROVE FALSE
  BY <1>0
<1>2. Without \in SUBSET Nat
  OBVIOUS
<1>3. PICK n \in Without : \A m \in Without : n <= m
  <2> HIDE DEF Without
  <2> QED BY <1>1, <1>2, LeastOf
<1>4. n \in 0..Len(h) /\ ~ \E f : Sums(f, h, c, n)
  OBVIOUS
<1>5. n # 0
  <2>1. Sums([i \in 0..0 |-> 0], h, c, 0)
    BY DEF Sums
  <2>2. QED BY <1>4, <2>1
<1>6. n - 1 \in 0..Len(h) /\ n - 1 \notin Without
  BY <1>0, <1>3, <1>4, <1>5
<1>7. PICK f : Sums(f, h, c, n - 1)
  BY <1>6
<1> DEFINE g == [i \in 0..n |-> IF i = n THEN f[n - 1] + IF h[n] = c THEN Weight[n] ELSE 0 ELSE f[i]]
<1>8. n \in 1..Len(h) /\ Weight[n] \in Nat /\ f[n - 1] \in Nat /\ f[0] = 0
  BY <1>0, <1>4, <1>5, <1>7 DEF Sums
<1>9. g \in [0..n -> Nat]
  BY <1>7, <1>8 DEF Sums
<1>10. g[0] = 0 /\ \A k \in 1..n : g[k] = g[k - 1] + IF h[k] = c THEN Weight[k] ELSE 0
  BY <1>7, <1>8 DEF Sums
<1>11. Sums(g, h, c, n)
  <2> HIDE DEF g
  <2> QED BY <1>9, <1>10 DEF Sums
<1>12. QED BY <1>4, <1>11

\* WeightOf is the last of them.
LEMMA WeightIsSum ==
  ASSUME NEW h, Ranking(h), NEW c
  PROVE  \E f : Sums(f, h, c, Len(h)) /\ WeightOf(h, c) = f[Len(h)]
<1> DEFINE Follows(u) == u = [n \in 0..Len(h) |->
                               IF n = 0 THEN 0 ELSE u[n - 1] + IF h[n] = c THEN Weight[n] ELSE 0]
           upTo == CHOOSE u : Follows(u)
<1>0. Len(h) \in Nat
  BY WeightFacts
<1>1. PICK f : Sums(f, h, c, Len(h))
  BY SumsExist
<1>2. Follows(f)
  BY <1>0, <1>1 DEF Sums
<1>3. Follows(upTo)
  <2> HIDE DEF Follows
  <2> QED BY <1>2
<1>4. upTo = f
  <2>1. \A k \in 0..Len(h) : upTo[k] = f[k]
    <3> DEFINE Apart == {k \in 0..Len(h) : upTo[k] # f[k]}
    <3>1. SUFFICES ASSUME Apart # {} PROVE FALSE
      OBVIOUS
    <3>2. Apart \in SUBSET Nat
      OBVIOUS
    <3>3. PICK k \in Apart : \A m \in Apart : k <= m
      <4> HIDE DEF Apart
      <4> QED BY <3>1, <3>2, LeastOf
    <3>4. k \in 0..Len(h) /\ upTo[k] # f[k]
      OBVIOUS
    <3>5. /\ upTo[k] = IF k = 0 THEN 0 ELSE upTo[k - 1] + IF h[k] = c THEN Weight[k] ELSE 0
          /\ f[k] = IF k = 0 THEN 0 ELSE f[k - 1] + IF h[k] = c THEN Weight[k] ELSE 0
      <4> HIDE DEF upTo
      <4> QED BY <1>2, <1>3, <3>4
    <3>6. k # 0 => k - 1 \in 0..Len(h) /\ k - 1 \notin Apart
      BY <1>0, <3>3, <3>4
    <3>7. k # 0 => upTo[k - 1] = f[k - 1]
      <4> HIDE DEF upTo
      <4> QED BY <3>6
    <3>8. QED
      <4> HIDE DEF upTo
      <4> QED BY <3>4, <3>5, <3>7
  <2> HIDE DEF upTo
  <2>2. QED BY <1>0, <1>2, <1>3, <2>1
<1>5. WeightOf(h, c) = upTo[Len(h)]
  BY DEF WeightOf
<1>6. QED BY <1>1, <1>4, <1>5

\* The ranks c has among the first n.
UpTo(h, c, n) == {i \in Places(h, c) : i <= n}

\* How often a result occurs, counted on from rank to rank.
LEMMA CountFacts ==
  ASSUME NEW h, Ranking(h), NEW c
  PROVE  /\ \A n \in 0..Len(h) : IsFiniteSet(UpTo(h, c, n)) /\ Cardinality(UpTo(h, c, n)) \in Nat
         /\ Cardinality(UpTo(h, c, 0)) = 0
         /\ \A n \in 1..Len(h) :
              Cardinality(UpTo(h, c, n)) = Cardinality(UpTo(h, c, n - 1)) + IF h[n] = c THEN 1 ELSE 0
<1>0. Len(h) \in Nat /\ DOMAIN h = 1..Len(h)
  BY WeightFacts
<1>1. ASSUME NEW n \in 0..Len(h)
      PROVE  IsFiniteSet(UpTo(h, c, n)) /\ Cardinality(UpTo(h, c, n)) \in Nat
  <2>1. UpTo(h, c, n) \in SUBSET (1..Len(h)) /\ IsFiniteSet(1..Len(h))
    BY <1>0, FS_Interval DEF UpTo, Places
  <2>2. QED BY <2>1, FS_Subset, FS_CardinalityType
<1>2. Cardinality(UpTo(h, c, 0)) = 0
  <2>1. UpTo(h, c, 0) = {}
    BY <1>0 DEF UpTo, Places
  <2>2. QED BY <2>1, FS_EmptySet
<1>3. ASSUME NEW n \in 1..Len(h)
      PROVE  Cardinality(UpTo(h, c, n)) = Cardinality(UpTo(h, c, n - 1)) + IF h[n] = c THEN 1 ELSE 0
  <2>1. n - 1 \in 0..Len(h) /\ n \notin UpTo(h, c, n - 1)
    BY <1>0 DEF UpTo
  <2>2. UpTo(h, c, n) = IF h[n] = c THEN UpTo(h, c, n - 1) \cup {n} ELSE UpTo(h, c, n - 1)
    BY <1>0 DEF UpTo, Places
  <2>3. IsFiniteSet(UpTo(h, c, n - 1)) /\ Cardinality(UpTo(h, c, n - 1)) \in Nat
    BY <1>1, <2>1
  <2>4. Cardinality(UpTo(h, c, n - 1) \cup {n}) = Cardinality(UpTo(h, c, n - 1)) + 1
    BY <2>1, <2>3, FS_AddElement
  <2>5. QED BY <2>2, <2>3, <2>4
<1>4. QED BY <1>1, <1>2, <1>3

\* What is never behind stands before every place of the other.
LEMMA AheadAt ==
  ASSUME NEW h, Ranking(h), NEW a, NEW b, a # b, NeverBehind(h, a, b), NEW i \in DOMAIN h, h[i] = b
  PROVE  \E j \in DOMAIN h : j < i /\ h[j] = a
<1>0. Len(h) \in Nat /\ DOMAIN h = 1..Len(h) /\ i \in 0..Len(h)
  BY WeightFacts
<1>1. Cardinality(UpTo(h, b, i)) <= Cardinality(UpTo(h, a, i))
  BY DEF NeverBehind, UpTo
<1>2. /\ IsFiniteSet(UpTo(h, a, i)) /\ Cardinality(UpTo(h, a, i)) \in Nat
      /\ IsFiniteSet(UpTo(h, b, i)) /\ Cardinality(UpTo(h, b, i)) \in Nat
  BY <1>0, CountFacts
<1>3. UpTo(h, b, i) # {}
  BY <1>0 DEF UpTo, Places
<1>4. UpTo(h, a, i) # {}
  BY <1>1, <1>2, <1>3, FS_EmptySet
<1>5. PICK j : j \in UpTo(h, a, i)
  BY <1>4
<1>6. QED BY <1>0, <1>5 DEF UpTo, Places

\* Multiplying keeps the order.
LEMMA Scaled ==
  ASSUME NEW u \in Nat, NEW v \in Nat, NEW k \in Nat, v <= u
  PROVE  v * k <= u * k
OBVIOUS

\* Summed over the list, weights that fall favour what is never behind.
LEMMA Outweighs ==
  ASSUME NEW h, Ranking(h), NEW a, NEW b, NeverBehind(h, a, b)
  PROVE  WeightOf(h, a) \in Nat /\ WeightOf(h, b) \in Nat /\ WeightOf(h, b) <= WeightOf(h, a)
<1>0. /\ Len(h) \in Nat /\ DOMAIN h = 1..Len(h) /\ \A k \in 1..Len(h) : Weight[k] \in Nat
      /\ \A k \in 1..Len(h) : k # 1 => Weight[k] <= Weight[k - 1]
  BY WeightFacts
<1>1. PICK f : Sums(f, h, a, Len(h)) /\ WeightOf(h, a) = f[Len(h)]
  BY WeightIsSum
<1>2. PICK g : Sums(g, h, b, Len(h)) /\ WeightOf(h, b) = g[Len(h)]
  BY WeightIsSum
<1> DEFINE ca(n) == Cardinality(UpTo(h, a, n))
           cb(n) == Cardinality(UpTo(h, b, n))
           Leads(n) == g[n] + Weight[n] * (ca(n) - cb(n)) <= f[n]
           Lagging == {n \in 1..Len(h) : ~ Leads(n)}
<1>3. \A n \in 1..Len(h) : cb(n) <= ca(n)
  BY <1>0 DEF NeverBehind, UpTo
<1>4. /\ \A n \in 0..Len(h) : ca(n) \in Nat /\ cb(n) \in Nat
      /\ ca(0) = 0 /\ cb(0) = 0
      /\ \A n \in 1..Len(h) : ca(n) = ca(n - 1) + IF h[n] = a THEN 1 ELSE 0
      /\ \A n \in 1..Len(h) : cb(n) = cb(n - 1) + IF h[n] = b THEN 1 ELSE 0
  BY CountFacts
<1>5. /\ \A n \in 0..Len(h) : f[n] \in Nat /\ g[n] \in Nat
      /\ f[0] = 0 /\ g[0] = 0
      /\ \A n \in 1..Len(h) : f[n] = f[n - 1] + IF h[n] = a THEN Weight[n] ELSE 0
      /\ \A n \in 1..Len(h) : g[n] = g[n - 1] + IF h[n] = b THEN Weight[n] ELSE 0
  BY <1>1, <1>2 DEF Sums
<1> HIDE DEF ca, cb
<1>6. ASSUME NEW n \in 1..Len(h), n = 1 \/ (n - 1 \in 1..Len(h) /\ Leads(n - 1))
      PROVE  Leads(n)
  <2> DEFINE w == Weight[n]
             k == ca(n - 1) - cb(n - 1)
             da == IF h[n] = a THEN 1 ELSE 0
             db == IF h[n] = b THEN 1 ELSE 0
  <2>0. n - 1 \in 0..Len(h) /\ w \in Nat /\ da \in {0, 1} /\ db \in {0, 1}
    BY <1>0
  <2>1. k \in Nat /\ g[n - 1] + w * k <= f[n - 1]
    <3>1. CASE n = 1
      BY <1>4, <1>5, <2>0, <3>1
    <3>2. CASE n # 1
      <4>1. /\ n - 1 \in 1..Len(h) /\ w <= Weight[n - 1] /\ Weight[n - 1] \in Nat
            /\ g[n - 1] + Weight[n - 1] * k <= f[n - 1]
        BY <1>0, <1>6, <3>2
      <4>2. k \in Nat
        BY <1>3, <1>4, <4>1
      <4> HIDE DEF k, w
      <4>3. w * k <= Weight[n - 1] * k
        BY <2>0, <4>1, <4>2, Scaled
      <4>4. w * k \in Nat /\ Weight[n - 1] * k \in Nat
        BY <2>0, <4>1, <4>2
      <4>5. g[n - 1] \in Nat /\ f[n - 1] \in Nat
        BY <1>5, <2>0
      <4>6. QED BY <4>1, <4>2, <4>3, <4>4, <4>5
    <3>3. QED BY <3>1, <3>2
  <2>2. ca(n) - cb(n) = k + da - db
    <3>1. ca(n - 1) \in Nat /\ cb(n - 1) \in Nat
      BY <1>4, <2>0
    <3>2. ca(n) = ca(n - 1) + da /\ cb(n) = cb(n - 1) + db
      BY <1>4
    <3> HIDE DEF da, db
    <3>3. QED BY <2>0, <3>1, <3>2
  <2>3. f[n] = f[n - 1] + w * da /\ g[n] = g[n - 1] + w * db
    BY <1>5, <2>0
  <2>4. f[n - 1] \in Nat /\ g[n - 1] \in Nat
    BY <1>5, <2>0
  <2> HIDE DEF k, w, da, db
  <2>5. w * (k + da - db) = w * k + w * da - w * db
    BY <2>0, <2>1
  <2>6. w * k \in Nat /\ w * da \in Nat /\ w * db \in Nat
    BY <2>0, <2>1
  <2>7. g[n] + w * (k + da - db) <= f[n]
    BY <2>1, <2>3, <2>4, <2>5, <2>6
  <2>8. QED BY <2>2, <2>7 DEF w
<1>7. Lagging = {}
  <2>1. SUFFICES ASSUME Lagging # {} PROVE FALSE
    OBVIOUS
  <2>2. Lagging \in SUBSET Nat
    OBVIOUS
  <2>3. PICK n \in Lagging : \A m \in Lagging : n <= m
    <3> HIDE DEF Lagging
    <3> QED BY <2>1, <2>2, LeastOf
  <2>4. n \in 1..Len(h) /\ ~ Leads(n)
    OBVIOUS
  <2>5. n # 1 => n - 1 \in 1..Len(h) /\ n - 1 \notin Lagging
    BY <1>0, <2>3, <2>4
  <2>6. n # 1 => Leads(n - 1)
    <3> HIDE DEF Leads
    <3> QED BY <2>5
  <2> HIDE DEF Leads
  <2>7. QED BY <1>6, <2>4, <2>5, <2>6
<1>8. g[Len(h)] <= f[Len(h)]
  <2>1. CASE Len(h) = 0
    BY <1>5, <2>1
  <2>2. CASE Len(h) # 0
    <3> DEFINE m == Len(h)
    <3>1. m \in 1..Len(h) /\ Leads(m)
      <4> HIDE DEF Leads
      <4> QED BY <1>0, <1>7, <2>2
    <3>2. Weight[m] \in Nat /\ ca(m) - cb(m) \in Nat /\ f[m] \in Nat /\ g[m] \in Nat
      BY <1>0, <1>3, <1>4, <1>5, <3>1
    <3>3. Weight[m] * (ca(m) - cb(m)) \in Nat
      BY <3>2
    <3>4. QED BY <3>1, <3>2, <3>3
  <2>3. QED BY <2>1, <2>2
<1>9. f[Len(h)] \in Nat /\ g[Len(h)] \in Nat
  BY <1>0, <1>5
<1>10. QED BY <1>1, <1>2, <1>8, <1>9

\* The two lists one after the other hold what was seen.
LEMMA SeenFacts ==
  ASSUME NEW d, NEW s, Ranking(d), Ranking(s)
  PROVE  /\ IsFiniteSet(Seen(d, s))
         /\ DOMAIN (d \o s) = 1..(Len(d) + Len(s))
         /\ \A i \in DOMAIN d : i \in DOMAIN (d \o s) /\ (d \o s)[i] = d[i]
         /\ \A i \in DOMAIN s : Len(d) + i \in DOMAIN (d \o s) /\ (d \o s)[Len(d) + i] = s[i]
         /\ \A c \in Seen(d, s) : FirstSeen(d, s, c) \in Places(d \o s, c)
         /\ \A c, i : i \in Places(d \o s, c) => FirstSeen(d, s, c) <= i
<1>0. /\ Len(d) \in Nat /\ DOMAIN d = 1..Len(d) /\ Len(s) \in Nat /\ DOMAIN s = 1..Len(s)
      /\ d \in Seq(Chunks) /\ s \in Seq(Chunks)
  BY WeightFacts DEF Ranking
<1> DEFINE e == d \o s
<1>1. /\ e \in Seq(Chunks) /\ Len(e) = Len(d) + Len(s)
      /\ \A i \in 1..Len(d) + Len(s) : e[i] = IF i <= Len(d) THEN d[i] ELSE s[i - Len(d)]
  BY <1>0, ConcatProperties
<1> HIDE DEF e
<1>2. DOMAIN e = 1..(Len(d) + Len(s)) /\ e \in [1..(Len(d) + Len(s)) -> Chunks]
  BY <1>1, LenProperties
<1>3. \A i \in DOMAIN d : i \in DOMAIN e /\ e[i] = d[i]
  BY <1>0, <1>1, <1>2
<1>4. \A i \in DOMAIN s : Len(d) + i \in DOMAIN e /\ e[Len(d) + i] = s[i]
  BY <1>0, <1>1, <1>2
<1>5. \A i \in DOMAIN e : e[i] \in Seen(d, s)
  <2> SUFFICES ASSUME NEW i \in 1..(Len(d) + Len(s)) PROVE e[i] \in Seen(d, s)
    BY <1>2
  <2>1. CASE i <= Len(d)
    <3>1. i \in DOMAIN d /\ e[i] = d[i]
      BY <1>0, <1>1, <2>1
    <3>2. QED BY <3>1 DEF Seen
  <2>2. CASE ~(i <= Len(d))
    <3>1. i - Len(d) \in DOMAIN s /\ e[i] = s[i - Len(d)]
      BY <1>0, <1>1, <2>2
    <3>2. QED BY <3>1 DEF Seen
  <2>3. QED BY <2>1, <2>2
<1>6. \A c \in Seen(d, s) : \E i \in DOMAIN e : e[i] = c
  BY <1>3, <1>4 DEF Seen
<1>7. IsFiniteSet(Seen(d, s))
  <2>1. e \in [1..(Len(d) + Len(s)) -> Seen(d, s)]
    BY <1>2, <1>5
  <2>2. e \in Surjection(1..(Len(d) + Len(s)), Seen(d, s))
    BY <1>2, <1>6, <2>1, Fun_IsSurj
  <2>3. IsFiniteSet(1..(Len(d) + Len(s)))
    BY <1>0, FS_Interval
  <2>4. QED BY <2>2, <2>3, FS_Surjection
<1>8. ASSUME NEW c, NEW i \in Places(e, c)
      PROVE  Least(Places(e, c)) \in Places(e, c) /\ Least(Places(e, c)) <= i
  <2>1. Places(e, c) \in SUBSET Nat
    BY <1>0, <1>2 DEF Places
  <2>2. QED BY <2>1, LeastOf
<1>9. \A c \in Seen(d, s) : FirstSeen(d, s, c) \in Places(e, c)
  <2> SUFFICES ASSUME NEW c \in Seen(d, s) PROVE FirstSeen(d, s, c) \in Places(e, c)
    OBVIOUS
  <2>1. PICK i : i \in Places(e, c)
    BY <1>6 DEF Places
  <2>2. QED BY <1>8, <2>1 DEF FirstSeen, e
<1>10. \A c, i : i \in Places(e, c) => FirstSeen(d, s, c) <= i
  BY <1>8 DEF FirstSeen, e
<1>11. QED BY <1>2, <1>3, <1>4, <1>7, <1>9, <1>10 DEF e

\* The numbers the order goes by.
LEMMA RankFacts ==
  ASSUME NEW d, NEW s, Ranking(d), Ranking(s)
  PROVE  /\ \A c \in Seen(d, s) : Score(d, s, c) \in Nat /\ FirstSeen(d, s, c) \in Nat
         /\ \A x, y \in Seen(d, s) : FirstSeen(d, s, x) = FirstSeen(d, s, y) => x = y
<1>1. \A c : NeverBehind(d, c, c) /\ NeverBehind(s, c, c)
  <2> SUFFICES ASSUME NEW h, Ranking(h), NEW c, NEW n \in DOMAIN h
               PROVE  Cardinality(UpTo(h, c, n)) <= Cardinality(UpTo(h, c, n))
    BY DEF NeverBehind, UpTo
  <2>1. Cardinality(UpTo(h, c, n)) \in Nat
    <3>1. n \in 0..Len(h)
      BY WeightFacts
    <3>2. QED BY <3>1, CountFacts
  <2>2. QED BY <2>1
<1>2. \A c : Score(d, s, c) \in Nat
  <2> SUFFICES ASSUME NEW c PROVE Score(d, s, c) \in Nat
    OBVIOUS
  <2>1. WeightOf(d, c) \in Nat /\ WeightOf(s, c) \in Nat
    BY <1>1, Outweighs
  <2>2. QED BY <2>1 DEF Score
<1>3. \A c \in Seen(d, s) : /\ FirstSeen(d, s, c) \in 1..(Len(d) + Len(s))
                            /\ (d \o s)[FirstSeen(d, s, c)] = c
  BY SeenFacts DEF Places
<1>4. Len(d) \in Nat /\ Len(s) \in Nat
  BY WeightFacts
<1>5. QED BY <1>2, <1>3, <1>4

\* What both lists never rank behind comes first.
LEMMA AgreementCounts ==
  ASSUME NEW d, NEW s, Ranking(d), Ranking(s), NEW a, NEW b \in Seen(d, s), a # b,
         NeverBehind(d, a, b), NeverBehind(s, a, b)
  PROVE  a \in Seen(d, s) /\ <<a, b>> \in Fused(d, s)
<1>0. /\ Len(d) \in Nat /\ DOMAIN d = 1..Len(d) /\ Len(s) \in Nat /\ DOMAIN s = 1..Len(s)
  BY WeightFacts
<1> DEFINE i == FirstSeen(d, s, b)
<1>1. i \in 1..(Len(d) + Len(s)) /\ (d \o s)[i] = b
  BY SeenFacts DEF Places
<1> HIDE DEF i
<1>2. \E j : j < i /\ j \in Places(d \o s, a) /\ a \in Seen(d, s)
  <2>1. CASE i <= Len(d)
    <3>1. i \in DOMAIN d /\ d[i] = b
      BY <1>0, <1>1, <2>1, SeenFacts
    <3>2. PICK j \in DOMAIN d : j < i /\ d[j] = a
      BY <3>1, AheadAt
    <3>3. QED BY <3>2, SeenFacts DEF Places, Seen
  <2>2. CASE ~(i <= Len(d))
    <3> DEFINE k == i - Len(d)
    <3>1. k \in DOMAIN s /\ Len(d) + k = i
      BY <1>0, <1>1, <2>2
    <3> HIDE DEF k
    <3>2. s[k] = b
      BY <1>1, <3>1, SeenFacts
    <3>3. PICK j \in DOMAIN s : j < k /\ s[j] = a
      BY <3>1, <3>2, AheadAt
    <3>4. Len(d) + j \in Places(d \o s, a) /\ a \in Seen(d, s)
      BY <3>3, SeenFacts DEF Places, Seen
    <3>5. Len(d) + j < i
      BY <1>0, <3>1, <3>3
    <3>6. QED BY <3>4, <3>5
  <2>3. QED BY <2>1, <2>2
<1>3. PICK j : j < i /\ j \in Places(d \o s, a) /\ a \in Seen(d, s)
  BY <1>2
<1>4. FirstSeen(d, s, a) <= j /\ FirstSeen(d, s, a) \in Nat /\ i \in Nat /\ j \in Nat
  <2>1. FirstSeen(d, s, a) <= j
    BY <1>3, SeenFacts
  <2>2. FirstSeen(d, s, a) \in Nat /\ i \in Nat
    BY <1>3, RankFacts DEF i
  <2>3. j \in Nat
    BY <1>0, <1>3, SeenFacts DEF Places
  <2>4. QED BY <2>1, <2>2, <2>3
<1>5. FirstSeen(d, s, a) < FirstSeen(d, s, b)
  BY <1>3, <1>4 DEF i
<1>6. Score(d, s, b) <= Score(d, s, a) /\ Score(d, s, a) \in Nat /\ Score(d, s, b) \in Nat
  <2>1. /\ WeightOf(d, a) \in Nat /\ WeightOf(d, b) \in Nat /\ WeightOf(d, b) <= WeightOf(d, a)
        /\ WeightOf(s, a) \in Nat /\ WeightOf(s, b) \in Nat /\ WeightOf(s, b) <= WeightOf(s, a)
    BY Outweighs
  <2>2. QED BY <2>1 DEF Score
<1>7. QED BY <1>3, <1>5, <1>6 DEF Fused

\* An answer keeps the order of what was fused, and everything above its end.
LEMMA AnswerFacts ==
  ASSUME NEW d, NEW s, Ranking(d), Ranking(s), NEW F, NEW i \in DOMAIN Answered(d, s, F),
         NEW a \in F, a # Answered(d, s, F)[i],
         NeverBehind(d, a, Answered(d, s, F)[i]), NeverBehind(s, a, Answered(d, s, F)[i])
  PROVE  \E j \in 1..i - 1 : Answered(d, s, F)[j] = a
<1> DEFINE S == Seen(d, s)
           R == Fused(d, s)
           P == S \cap F
           n == Cardinality(P)
           o == Ordered(P, R)
           m == Least({TopK, n})
           b == Answered(d, s, F)[i]
<1>1. /\ \A c \in S : Score(d, s, c) \in Nat /\ FirstSeen(d, s, c) \in Nat
      /\ \A x, y \in S : FirstSeen(d, s, x) = FirstSeen(d, s, y) => x = y
  BY RankFacts
<1>2. \A x, y \in S : <<x, y>> \in R <=>
         \/ Score(d, s, x) > Score(d, s, y)
         \/ Score(d, s, x) = Score(d, s, y) /\ FirstSeen(d, s, x) < FirstSeen(d, s, y)
  BY DEF Fused
<1> HIDE DEF S, R
<1>3. /\ \A x \in P : <<x, x>> \notin R
      /\ \A x, y, z \in P : <<x, y>> \in R /\ <<y, z>> \in R => <<x, z>> \in R
      /\ \A x, y \in P : x # y => <<x, y>> \in R \/ <<y, x>> \in R
  <2>1. ASSUME NEW x \in P PROVE <<x, x>> \notin R
    BY <1>1, <1>2
  <2>2. ASSUME NEW x \in P, NEW y \in P, NEW z \in P, <<x, y>> \in R, <<y, z>> \in R
        PROVE  <<x, z>> \in R
    BY <1>1, <1>2, <2>2
  <2>3. ASSUME NEW x \in P, NEW y \in P, x # y PROVE <<x, y>> \in R \/ <<y, x>> \in R
    BY <1>1, <1>2, <2>3
  <2>4. QED BY <2>1, <2>2, <2>3
<1>4. IsFiniteSet(P)
  <2>1. IsFiniteSet(S) /\ P \in SUBSET S
    BY SeenFacts DEF S
  <2>2. QED BY <2>1, FS_Subset
<1> HIDE DEF P
<1>5. /\ n \in Nat /\ o \in [1..n -> P]
      /\ \A x \in P : \E k \in 1..n : o[k] = x
      /\ \A k, l \in 1..n : <<o[k], o[l]>> \in R => k < l
  BY <1>3, <1>4, OrderedSeq
<1> HIDE DEF o, n
<1>6. m \in Nat /\ m <= n
  <2>1. {TopK, n} \in SUBSET Nat /\ n \in {TopK, n}
    BY <1>5, RetrievalAssumption
  <2>2. QED BY <2>1, LeastOf
<1> HIDE DEF m
<1>7. Answered(d, s, F) = SubSeq(o, 1, m)
  BY DEF Answered, o, m, n, P, R, S
<1>8. /\ DOMAIN Answered(d, s, F) = 1..m
      /\ \A k \in 1..m : Answered(d, s, F)[k] = o[k]
  <2>1. \A k \in 1..m : o[k] \in P
    BY <1>5, <1>6
  <2>2. /\ SubSeq(o, 1, m) \in Seq(P)
        /\ Len(SubSeq(o, 1, m)) = (IF 1 <= m THEN m - 1 + 1 ELSE 0)
        /\ \A k \in 1..(m - 1 + 1) : SubSeq(o, 1, m)[k] = o[1 + k - 1]
    BY <1>6, <2>1, SubSeqProperties
  <2>3. Len(SubSeq(o, 1, m)) = m
    BY <1>6, <2>2
  <2>4. DOMAIN SubSeq(o, 1, m) = 1..m
    BY <2>2, <2>3, LenProperties
  <2>5. QED BY <1>6, <1>7, <2>2, <2>4
<1>9. i \in 1..m /\ i \in 1..n /\ b = o[i] /\ b \in P
  BY <1>5, <1>6, <1>8
<1>10. a \in S /\ <<a, b>> \in R
  <2>1. b \in Seen(d, s)
    BY <1>9 DEF P, S
  <2> HIDE DEF b
  <2>2. NeverBehind(d, a, b) /\ NeverBehind(s, a, b) /\ a # b
    BY DEF b
  <2>3. QED BY <2>1, <2>2, AgreementCounts DEF S, R
<1>11. PICK k \in 1..n : o[k] = a
  BY <1>5, <1>10 DEF P
<1>12. k < i
  BY <1>5, <1>9, <1>10, <1>11
<1>13. k \in 1..i - 1 /\ k \in 1..m
  BY <1>6, <1>9, <1>12
<1>14. QED BY <1>8, <1>11, <1>13

-----------------------------------------------------------------------------
(* The retrieval.  The keyword path keeps a client to search with because a   *)
(* search that still connects finds one, and a search closes only a path that *)
(* is mocked; close() meets no search that connects, because what it closes   *)
(* is connected or mocked (CloserInv), and leaves the path unconnected.  An   *)
(* answer is what was fused of what the search has found.                     *)

\* What the invariant needs to know of the types.
Tracked ==
    /\ sparse \in [client : BOOLEAN, connected : BOOLEAN, mock : BOOLEAN]
    /\ DOMAIN search = Searches
    /\ \A q \in Searches : DOMAIN search[q] = {"at", "dense", "sparse", "filter", "answer"}
Connecting == \A q \in Searches : search[q].at = "connect" => sparse.client \/ sparse.mock
Closing == \A q \in Searches : search[q].at = "close" => sparse.mock

\* What a path may have found, and an answer that is what was fused of it.
Found == Lists \cup {<<>>}
Sound(r) ==
    /\ r.dense \in Found
    /\ r.at = "done" => r.sparse \in Found /\ r.answer = Answered(r.dense, r.sparse, r.filter)
FusedAnswers == \A q \in Searches : Sound(search[q])

RetrievalInv == Tracked /\ Connecting /\ Closing /\ SparseHasClient /\ FusedAnswers

\* A client that is not connected is one a search is connecting; close() found none.
Connects == \E q \in Searches : search[q].at = "connect"
CloserInv ==
    /\ sparse.client => sparse.mock \/ sparse.connected \/ Connects
    /\ closing => sparse.mock \/ (sparse.connected /\ ~Connects)

\* An answer ends the search that was waiting for it and no other.
LEMMA AnswersEnd ==
  ASSUME Tracked, NEW q \in Searches, NEW d \in Found, NEW s \in Found, Answers(q, d, s)
  PROVE  /\ DOMAIN search' = Searches
         /\ \A o \in Searches : DOMAIN search'[o] = {"at", "dense", "sparse", "filter", "answer"}
         /\ search'[q].at = "done" /\ Sound(search'[q])
         /\ \A o \in Searches : o # q => search'[o] = search[o]
<1>1. PICK F \in Filters : search' = [search EXCEPT ![q] =
        [at |-> "done", dense |-> d, sparse |-> s, filter |-> F, answer |-> Answered(d, s, F)]]
  BY DEF Answers
<1>2. QED BY <1>1 DEF Tracked, Sound

\* A search that goes on changes nothing but where it is.
LEMMA MovesSearch ==
  ASSUME Tracked, FusedAnswers, NEW q \in Searches, NEW at, at # "done", search' = [search EXCEPT ![q].at = at]
  PROVE  /\ DOMAIN search' = Searches
         /\ \A o \in Searches : DOMAIN search'[o] = {"at", "dense", "sparse", "filter", "answer"}
         /\ search'[q].at = at /\ Sound(search'[q])
         /\ \A o \in Searches : o # q => search'[o] = search[o]
BY DEF Tracked, FusedAnswers, Sound

\* Kept: the searches that go on, whatever one search moved to.
LEMMA SearchMoves ==
  ASSUME RetrievalInv, NEW q \in Searches,
         DOMAIN search' = Searches, \A o \in Searches : DOMAIN search'[o] = {"at", "dense", "sparse", "filter", "answer"},
         \A o \in Searches : o # q => search'[o] = search[o],
         sparse' \in [client : BOOLEAN, connected : BOOLEAN, mock : BOOLEAN],
         sparse.mock => sparse'.mock,
         sparse'.client \/ sparse'.mock \/ sparse' = sparse,
         search'[q].at = "connect" => sparse'.client \/ sparse'.mock,
         search'[q].at = "close" => sparse'.mock,
         Sound(search'[q])
  PROVE  RetrievalInv'
<1>1. (Tracked /\ Connecting /\ Closing /\ SparseHasClient)'
  BY DEF RetrievalInv, Tracked, Connecting, Closing, SparseHasClient
<1>2. FusedAnswers'
  <2> SUFFICES ASSUME NEW o \in Searches PROVE Sound(search'[o])
    BY DEF FusedAnswers, Sound
  <2>1. QED BY DEF RetrievalInv, FusedAnswers
<1>3. QED BY <1>1, <1>2 DEF RetrievalInv

\* Every step keeps the invariant.
LEMMA NextRetrieval == RetrievalInv /\ CloserInv /\ [RetrievalNext]_retrievalVars => RetrievalInv'
<1> SUFFICES ASSUME RetrievalInv, CloserInv, [RetrievalNext]_retrievalVars PROVE RetrievalInv'
  OBVIOUS
<1>0. Tracked /\ Connecting /\ Closing /\ FusedAnswers
  BY DEF RetrievalInv
<1>1. BuiltIn \in Found /\ <<>> \in Found /\ \A q \in Searches : search[q].dense \in Found
  BY <1>0 DEF Found, Lists, FusedAnswers, Sound
<1>2. ASSUME NEW q \in Searches, SparseCloses(q) PROVE RetrievalInv'
  <2>1. Answers(q, search[q].dense, BuiltIn) BY <1>2 DEF SparseCloses
  <2>2. sparse.mock BY <1>0, <1>2 DEF SparseCloses, Closing
  <2>3. sparse' \in [client : BOOLEAN, connected : BOOLEAN, mock : BOOLEAN] /\ sparse'.mock
    BY <1>0, <1>2, <2>2 DEF SparseCloses, Tracked
  <2>4. QED BY <1>0, <1>1, <2>1, <2>3, AnswersEnd, SearchMoves
<1>3. ASSUME NEW q \in Searches, SparseAnswers(q) PROVE RetrievalInv'
  <2>1. PICK hits \in Lists : Answers(q, search[q].dense, hits) BY <1>3 DEF SparseAnswers
  <2>2. sparse' = sparse BY <1>3 DEF SparseAnswers
  <2>3. hits \in Found BY DEF Found
  <2>4. QED BY <1>0, <1>1, <2>1, <2>2, <2>3, AnswersEnd, SearchMoves DEF Tracked
<1>4. ASSUME NEW q \in Searches, SparseConnects(q) PROVE RetrievalInv'
  <2>0. sparse.client \/ sparse.mock BY <1>0, <1>4 DEF SparseConnects, Connecting
  <2>1. CASE /\ sparse' = [sparse EXCEPT !.connected = TRUE]
             /\ IF sparse.mock THEN Answers(q, search[q].dense, BuiltIn)
                ELSE search' = [search EXCEPT ![q].at = "search"]
    <3>1. /\ sparse' \in [client : BOOLEAN, connected : BOOLEAN, mock : BOOLEAN]
          /\ sparse'.mock = sparse.mock /\ sparse'.client = sparse.client
      BY <1>0, <2>1 DEF Tracked
    <3>2. CASE sparse.mock
      <4>1. Answers(q, search[q].dense, BuiltIn) BY <2>1, <3>2
      <4>2. QED BY <1>0, <1>1, <3>1, <3>2, <4>1, AnswersEnd, SearchMoves
    <3>3. CASE ~sparse.mock
      <4>1. search' = [search EXCEPT ![q].at = "search"] BY <2>1, <3>3
      <4>2. /\ DOMAIN search' = Searches
            /\ \A o \in Searches : DOMAIN search'[o] = {"at", "dense", "sparse", "filter", "answer"}
            /\ search'[q].at = "search" /\ Sound(search'[q])
            /\ \A o \in Searches : o # q => search'[o] = search[o]
        BY <1>0, <4>1, MovesSearch
      <4>3. QED BY <2>0, <3>1, <3>3, <4>2, SearchMoves
    <3>4. QED BY <3>2, <3>3
  <2>2. CASE /\ sparse' = Failed(sparse)
             /\ IF sparse.client THEN search' = [search EXCEPT ![q].at = "close"]
                ELSE Answers(q, search[q].dense, BuiltIn)
    <3>1. sparse' \in [client : BOOLEAN, connected : BOOLEAN, mock : BOOLEAN] /\ sparse'.mock
      BY <1>0, <2>2 DEF Failed, Tracked
    <3>2. CASE sparse.client
      <4>1. search' = [search EXCEPT ![q].at = "close"] BY <2>2, <3>2
      <4>2. QED BY <1>0, <3>1, <4>1, MovesSearch, SearchMoves
    <3>3. CASE ~sparse.client
      <4>1. Answers(q, search[q].dense, BuiltIn) BY <2>2, <3>3
      <4>2. QED BY <1>0, <1>1, <3>1, <4>1, AnswersEnd, SearchMoves
    <3>4. QED BY <3>2, <3>3
  <2>3. QED BY <1>4, <2>1, <2>2 DEF SparseConnects
<1>5. ASSUME NEW q \in Searches, Retrieve(q) PROVE RetrievalInv'
  <2>1. PICK hits \in Lists \cup {<<>>} :
          \/ "sparse" \notin paths /\ Answers(q, hits, <<>>) /\ UNCHANGED sparse
          \/ sparse.mock /\ Answers(q, hits, BuiltIn) /\ UNCHANGED sparse
          \/ /\ search' = [search EXCEPT ![q] = [NoSearch EXCEPT !.at = "search", !.dense = hits]]
             /\ UNCHANGED sparse
          \/ /\ search' = [search EXCEPT ![q] = [NoSearch EXCEPT !.at = "connect", !.dense = hits]]
             /\ sparse' = [sparse EXCEPT !.client = TRUE]
    BY <1>5 DEF Retrieve
  <2>2. hits \in Found BY DEF Found
  <2>3. CASE UNCHANGED sparse /\ \E s \in Found : Answers(q, hits, s)
    BY <1>0, <2>2, <2>3, AnswersEnd, SearchMoves DEF Tracked
  <2>4. CASE /\ search' = [search EXCEPT ![q] = [NoSearch EXCEPT !.at = "search", !.dense = hits]]
             /\ UNCHANGED sparse
    <3>1. /\ DOMAIN search' = Searches /\ search'[q].at = "search" /\ Sound(search'[q])
          /\ \A o \in Searches : DOMAIN search'[o] = {"at", "dense", "sparse", "filter", "answer"} /\ (o # q => search'[o] = search[o])
      BY <1>0, <2>2, <2>4 DEF Tracked, NoSearch, Sound
    <3>2. QED BY <1>0, <2>4, <3>1, SearchMoves DEF Tracked
  <2>5. CASE /\ search' = [search EXCEPT ![q] = [NoSearch EXCEPT !.at = "connect", !.dense = hits]]
             /\ sparse' = [sparse EXCEPT !.client = TRUE]
    <3>1. /\ DOMAIN search' = Searches /\ search'[q].at = "connect" /\ Sound(search'[q])
          /\ \A o \in Searches : DOMAIN search'[o] = {"at", "dense", "sparse", "filter", "answer"} /\ (o # q => search'[o] = search[o])
      BY <1>0, <2>2, <2>5 DEF Tracked, NoSearch, Sound
    <3>2. /\ sparse' \in [client : BOOLEAN, connected : BOOLEAN, mock : BOOLEAN]
          /\ sparse'.client /\ sparse'.mock = sparse.mock
      BY <1>0, <2>5 DEF Tracked
    <3>3. QED BY <3>1, <3>2, SearchMoves
  <2>6. QED BY <1>1, <2>1, <2>3, <2>4, <2>5
<1>6. CASE UNCHANGED retrievalVars
  BY <1>6 DEF retrievalVars, RetrievalInv, Tracked, Connecting, Closing, SparseHasClient, FusedAnswers, Sound
<1>7. CASE CloseBegins
  BY <1>7 DEF CloseBegins, RetrievalInv, Tracked, Connecting, Closing, SparseHasClient, FusedAnswers, Sound
<1>8. CASE CloseEnds
  <2>1. /\ sparse' \in [client : BOOLEAN, connected : BOOLEAN, mock : BOOLEAN]
        /\ sparse'.mock = sparse.mock /\ ~sparse'.connected /\ search' = search
    BY <1>0, <1>8 DEF CloseEnds, Tracked
  <2>2. sparse.mock \/ \A q \in Searches : search[q].at # "connect"
    BY <1>8 DEF CloseEnds, CloserInv, Connects
  <2>3. QED BY <2>1, <2>2 DEF RetrievalInv, Tracked, Connecting, Closing, SparseHasClient, FusedAnswers, Sound
<1>9. QED BY <1>2, <1>3, <1>4, <1>5, <1>6, <1>7, <1>8 DEF RetrievalNext

\* And so does what close() relies on.
LEMMA NextCloser == RetrievalInv /\ CloserInv /\ [RetrievalNext]_retrievalVars => CloserInv'
<1> SUFFICES ASSUME RetrievalInv, CloserInv, [RetrievalNext]_retrievalVars PROVE CloserInv'
  OBVIOUS
<1>0. Tracked /\ \A q \in Searches : search[q].dense \in Found
  BY DEF RetrievalInv, FusedAnswers, Sound
<1>1. BuiltIn \in Found /\ <<>> \in Found
  BY DEF Found, Lists
<1>2. ASSUME NEW q \in Searches, search[q].at # "connect", search'[q].at # "connect",
             \A o \in Searches : o # q => search'[o] = search[o],
             closing' = closing, sparse' = sparse \/ (sparse.mock /\ sparse'.mock)
      PROVE  CloserInv'
  BY <1>2 DEF CloserInv, Connects
<1>3. ASSUME NEW q \in Searches, SparseCloses(q) PROVE CloserInv'
  <2>1. /\ Answers(q, search[q].dense, BuiltIn) /\ search[q].at = "close" /\ closing' = closing
        /\ sparse' = sparse \/ sparse' = [sparse EXCEPT !.client = FALSE]
    BY <1>3 DEF SparseCloses
  <2>2. sparse.mock /\ sparse'.mock
    BY <1>0, <2>1 DEF RetrievalInv, Closing, Tracked
  <2>3. QED BY <1>0, <1>1, <1>2, <2>1, <2>2, AnswersEnd
<1>4. ASSUME NEW q \in Searches, SparseAnswers(q) PROVE CloserInv'
  <2>1. PICK hits \in Lists : Answers(q, search[q].dense, hits) BY <1>4 DEF SparseAnswers
  <2>2. sparse' = sparse /\ closing' = closing /\ search[q].at = "search" BY <1>4 DEF SparseAnswers
  <2>3. hits \in Found BY DEF Found
  <2>4. QED BY <1>0, <1>2, <2>1, <2>2, <2>3, AnswersEnd
<1>5. ASSUME NEW q \in Searches, SparseConnects(q) PROVE CloserInv'
  <2>1. search[q].at = "connect" /\ closing' = closing /\ (closing => sparse.mock)
    BY <1>5 DEF SparseConnects, CloserInv, Connects
  <2>2. \/ sparse' = [sparse EXCEPT !.connected = TRUE]
        \/ sparse' = [sparse EXCEPT !.mock = TRUE]
    BY <1>5 DEF SparseConnects, Failed
  <2>3. (sparse'.connected \/ sparse'.mock) /\ (sparse.mock => sparse'.mock)
    BY <1>0, <2>2 DEF Tracked
  <2>4. QED BY <2>1, <2>3 DEF CloserInv
<1>6. ASSUME NEW q \in Searches, Retrieve(q) PROVE CloserInv'
  <2>1. PICK hits \in Lists \cup {<<>>} :
          \/ "sparse" \notin paths /\ Answers(q, hits, <<>>) /\ UNCHANGED sparse
          \/ sparse.mock /\ Answers(q, hits, BuiltIn) /\ UNCHANGED sparse
          \/ /\ search' = [search EXCEPT ![q] = [NoSearch EXCEPT !.at = "search", !.dense = hits]]
             /\ UNCHANGED sparse
          \/ /\ search' = [search EXCEPT ![q] = [NoSearch EXCEPT !.at = "connect", !.dense = hits]]
             /\ ~sparse.mock /\ ~sparse.connected
             /\ sparse' = [sparse EXCEPT !.client = TRUE]
    BY <1>6 DEF Retrieve
  <2>2. hits \in Found /\ closing' = closing /\ search[q].at # "connect"
    BY <1>6 DEF Found, Retrieve
  <2>3. CASE UNCHANGED sparse /\ \E s \in Found : Answers(q, hits, s)
    BY <1>0, <1>2, <2>2, <2>3, AnswersEnd
  <2>4. CASE /\ search' = [search EXCEPT ![q] = [NoSearch EXCEPT !.at = "search", !.dense = hits]]
             /\ UNCHANGED sparse
    <3>1. search'[q].at = "search" /\ \A o \in Searches : o # q => search'[o] = search[o]
      BY <1>0, <2>4 DEF Tracked, NoSearch
    <3>2. QED BY <1>2, <2>2, <2>4, <3>1
  <2>5. CASE /\ search' = [search EXCEPT ![q] = [NoSearch EXCEPT !.at = "connect", !.dense = hits]]
             /\ ~sparse.mock /\ ~sparse.connected
    <3>1. search'[q].at = "connect"
      BY <1>0, <2>5 DEF Tracked, NoSearch
    <3>2. ~closing
      BY <2>5 DEF CloserInv
    <3>3. QED BY <2>2, <3>1, <3>2 DEF CloserInv, Connects
  <2>6. QED BY <1>1, <2>1, <2>3, <2>4, <2>5
<1>7. CASE CloseBegins
  BY <1>7 DEF CloseBegins, CloserInv, Connects
<1>8. CASE CloseEnds
  <2>1. ~sparse'.client /\ ~closing'
    BY <1>0, <1>8 DEF CloseEnds, Tracked
  <2>2. QED BY <2>1 DEF CloserInv
<1>9. CASE UNCHANGED retrievalVars
  BY <1>9 DEF retrievalVars, CloserInv, Connects
<1>10. QED BY <1>3, <1>4, <1>5, <1>6, <1>7, <1>8, <1>9 DEF RetrievalNext

\* The invariant holds.
LEMMA RetrievalHolds == RetrievalSpec => []RetrievalInv
<1>1. RetrievalInit => RetrievalInv
  BY DEF RetrievalInit, NoSearch, RetrievalInv, Tracked, Connecting, Closing, SparseHasClient,
     FusedAnswers, Sound, Found
<1>2. RetrievalInit => CloserInv
  BY DEF RetrievalInit, CloserInv
<1>3. QED BY <1>1, <1>2, NextRetrieval, NextCloser, PTL DEF RetrievalSpec

(* A connected keyword path that is not mocked has a client to search with,   *)
(* through races of first searches, closes and new connections.               *)
THEOREM ConnectedStaysUsable == RetrievalSpec => []SparseHasClient
<1>1. RetrievalInv => SparseHasClient BY DEF RetrievalInv
<1>2. QED BY <1>1, RetrievalHolds, PTL

\* What a path found is ranked.
LEMMA FoundIsRanking ==
  ASSUME NEW h \in Found PROVE Ranking(h)
<1>1. <<>> \in Seq(Chunks) /\ Len(<<>>) = 0 /\ Weight \in Seq(Nat)
  BY RetrievalAssumption, EmptySeq
<1>2. Len(Weight) \in Nat
  BY <1>1, LenProperties
<1>3. CASE h \in Lists
  BY <1>3, RetrievalAssumption DEF Ranking
<1>4. CASE h = <<>>
  BY <1>1, <1>2, <1>4 DEF Ranking
<1>5. QED BY <1>3, <1>4 DEF Found

\* Fusing never puts a result above one both paths rank before it, and never keeps
\* it in its place.
THEOREM AgreementPrevails == RetrievalSpec => []FusionPrefersAgreement
<1>1. RetrievalInv => FusionPrefersAgreement
  <2> SUFFICES ASSUME RetrievalInv, NEW q \in Searches, search[q].at = "done",
                      NEW i \in DOMAIN search[q].answer,
                      NEW a \in search[q].filter \ {search[q].answer[i]},
                      NeverBehind(search[q].dense, a, search[q].answer[i]),
                      NeverBehind(search[q].sparse, a, search[q].answer[i])
               PROVE  \E j \in 1..i - 1 : search[q].answer[j] = a
    BY DEF FusionPrefersAgreement
  <2>1. /\ search[q].dense \in Found /\ search[q].sparse \in Found
        /\ search[q].answer = Answered(search[q].dense, search[q].sparse, search[q].filter)
    BY DEF RetrievalInv, FusedAnswers, Sound
  <2>2. Ranking(search[q].dense) /\ Ranking(search[q].sparse)
    BY <2>1, FoundIsRanking
  <2>3. QED BY <2>1, <2>2, AnswerFacts
<1>2. QED BY <1>1, RetrievalHolds, PTL
=============================================================================
