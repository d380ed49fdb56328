--------------------------- MODULE DocumentIndexer --------------------------
(* The incremental indexer of the knowledge base (rag/indexer.py): every    *)
(* document is written to Milvus and to Elasticsearch, and a record in      *)
(* memory remembers the text last indexed for a path.  The Milvus client is *)
(* synchronous; a job gives way to others only while Elasticsearch answers, *)
(* so everything up to the next such call is one step.                      *)
EXTENDS Naturals

CONSTANTS
    Sources,    \* source paths
    Texts,      \* texts a path may be given
    DocOf,      \* doc id of a text: the hash of its first 1000 characters
    SizeOf,     \* number of chunks of a text
    Jobs,       \* index_document and delete_document calls that may overlap
    MaxStarts   \* bound of the model: jobs started, closes and restarts

NoText == "none"
ChunksOf(t) == {<<DocOf[t], i>> : i \in 1..SizeOf[t]}
ChunkIds == UNION {ChunksOf(t) : t \in Texts}
ChunksOfDoc(d) == {id \in ChunkIds : id[1] = d}

ASSUME IndexerAssumption ==
    /\ NoText \notin Texts /\ DOMAIN DocOf = Texts
    /\ SizeOf \in [Texts -> Nat] /\ MaxStarts \in Nat

VARIABLES
    vecLink,    \* the Milvus client of this process
    esLink,     \* the Elasticsearch client of this process
    vec,        \* the text every chunk in Milvus comes from
    es,         \* the text every chunk in Elasticsearch comes from
    records,    \* _index_records: the text indexed for a path
    job,        \* what every job is doing
    crossed,    \* jobs that met another one at their path or document
    promised,   \* the text both stores have confirmed for a path
    gone,       \* documents both stores have confirmed deleted
    starts      \* jobs started, closes and restarts so far

indexerVars == <<vecLink, esLink, vec, es, records, job, crossed, promised, gone, starts>>

\* A link is the client with the flag that mocks writes.  No client: "none",
\* mocked, and "closed", not mocked.  A client: "ready" and, while it is checked
\* again, "reconnecting", not mocked; "connecting", "closing" and "stuck", mocked.
VecLink == {"none", "stuck", "ready", "closed"}
EsLink == VecLink \cup {"connecting", "reconnecting", "closing"}
IsLive(link) == link \in {"ready", "reconnecting"}
HasClient(link) == link \notin {"none", "closed"}

NoJob == [at |-> "idle", source |-> "none", text |-> NoText, acked |-> FALSE]
Idle(j) == job[j] = NoJob

Stored(store, ids, t) == [id \in ChunkIds |-> IF id \in ids THEN t ELSE store[id]]

\* Faulty: only the first chunk of the document is deleted.
Dropped_First(store, d) == [id \in ChunkIds |-> IF id = <<d, 1>> THEN NoText ELSE store[id]]

\* The store after a delete by document id.
Dropped(store, d) == [id \in ChunkIds |-> IF id[1] = d THEN NoText ELSE store[id]]

----------------------------------------------------------------------------
Counted == starts < MaxStarts /\ starts' = starts + 1

\* A job starts on path s and document d: what was confirmed for s, and for any
\* path of d, is open again, and jobs under way there have met this one.
Meets(k, s, d) == ~Idle(k) /\ (job[k].source = s \/ DocOf[job[k].text] = d)
Starts(j, s, d) ==
    /\ Counted
    /\ promised' = [x \in Sources |->
                      IF x = s \/ (promised[x] # NoText /\ DocOf[promised[x]] = d)
                      THEN NoText ELSE promised[x]]
    /\ LET met == {k \in Jobs : Meets(k, s, d)}
       IN crossed' = (crossed \ {j}) \cup met \cup (IF met = {} THEN {} ELSE {j})

\* Faulty: a text with the same document id counts as unchanged.
IsUnchanged_ByDocId(s, t) == records[s] # NoText /\ DocOf[records[s]] = DocOf[t]

IsUnchanged(s, t) == records[s] = t

\* index_document of an unchanged text returns at once.
Skip(s, t) ==
    /\ IsUnchanged(s, t)
    /\ promised' = [promised EXCEPT ![s] = IF @ = NoText THEN NoText ELSE t]
    /\ UNCHANGED <<vecLink, esLink, vec, es, records, job, crossed, gone, starts>>

\* _ensure_milvus: a client that could not check its collection is kept and
\* never tried again.
EnsuredVec == IF HasClient(vecLink) THEN {vecLink} ELSE {"none", "stuck", "ready"}

\* _ensure_es and the write behind it: without a client the job connects; while
\* another job connects or closes, or where there is no Elasticsearch to connect
\* to, the write is mocked and the job is done.
GoesToEs(j, s, t, acked) ==
    LET waits(at) == job' = [job EXCEPT ![j] = [at |-> at, source |-> s, text |-> t, acked |-> acked]]
    IN \/ /\ ~HasClient(esLink)
          /\ esLink' = IF esLink = "none" THEN "connecting" ELSE "reconnecting"
          /\ waits("connect") /\ UNCHANGED records
       \/ /\ IsLive(esLink)
          /\ waits("write") /\ UNCHANGED <<esLink, records>>
       \/ /\ ~IsLive(esLink) /\ esLink # "closed"
          /\ records' = [records EXCEPT ![s] = t] /\ UNCHANGED <<esLink, job>>

\* The text is split and embedded, and written to Milvus as a whole or, with the
\* error swallowed, not at all.
BeginIndex(j, s, t, force) ==
    /\ Idle(j) /\ (force \/ ~IsUnchanged(s, t))
    /\ \E link \in EnsuredVec, accepted \in BOOLEAN :
         LET acked == link = "ready" /\ accepted
         IN /\ vecLink' = link
            /\ vec' = IF acked THEN Stored(vec, ChunksOf(t), t) ELSE vec
            /\ GoesToEs(j, s, t, acked)
    /\ Starts(j, s, DocOf[t]) /\ gone' = gone \ {DocOf[t]}
    /\ UNCHANGED es

EsConnect(j) ==
    /\ job[j].at = "connect"
    /\ \E ok \in BOOLEAN :
         /\ esLink' = IF ok THEN "ready" ELSE "closing"
         /\ job' = [job EXCEPT ![j].at = IF ok THEN "write" ELSE "close"]
    /\ UNCHANGED <<vecLink, vec, es, records, crossed, promised, gone, starts>>

\* The client that failed is closed and the write mocked; if closing it fails,
\* the error ends the job and the client stays.
EsClosed(j) ==
    /\ job[j].at = "close"
    /\ \/ esLink' = "none" /\ records' = [records EXCEPT ![job[j].source] = job[j].text]
       \/ esLink' = "stuck" /\ UNCHANGED records
    /\ job' = [job EXCEPT ![j] = NoJob]
    /\ UNCHANGED <<vecLink, vec, es, crossed, promised, gone, starts>>

\* The bulk request stores any part of the chunks; errors are logged only, and
\* the text is recorded as indexed.
EsWrite(j) ==
    /\ job[j].at = "write"
    /\ LET s == job[j].source
           t == job[j].text
       IN \E done \in SUBSET ChunksOf(t) :
            /\ es' = Stored(es, done, t)
            /\ records' = [records EXCEPT ![s] = t]
            /\ promised' = IF job[j].acked /\ done = ChunksOf(t) /\ j \notin crossed
                           THEN [promised EXCEPT ![s] = t] ELSE promised
    /\ job' = [job EXCEPT ![j] = NoJob]
    /\ UNCHANGED <<vecLink, esLink, vec, crossed, gone, starts>>

\* delete_document needs a record; stores that are mocked or not connected are
\* left out, errors are swallowed, and the record goes in any case.
BeginDelete(j, s) ==
    /\ Idle(j) /\ records[s] # NoText
    /\ LET d == DocOf[records[s]]
       IN /\ \E accepted \in BOOLEAN :
               LET acked == vecLink = "ready" /\ accepted
               IN /\ vec' = IF acked THEN Dropped(vec, d) ELSE vec
                  /\ \/ /\ IsLive(esLink) /\ UNCHANGED records
                        /\ job' = [job EXCEPT ![j] = [at |-> "delete", source |-> s,
                                                      text |-> records[s], acked |-> acked]]
                     \/ /\ ~IsLive(esLink) /\ UNCHANGED job
                        /\ records' = [records EXCEPT ![s] = NoText]
          /\ Starts(j, s, d)
    /\ UNCHANGED <<vecLink, esLink, es, gone>>

\* The record that is removed is the one the path has now; if there is none, the
\* job ends in a KeyError.
EsDelete(j) ==
    /\ job[j].at = "delete"
    /\ LET d == DocOf[job[j].text]
       IN \/ /\ es' = Dropped(es, d)
             /\ gone' = IF job[j].acked /\ j \notin crossed THEN gone \cup {d} ELSE gone
          \/ UNCHANGED <<es, gone>>
    /\ records' = [records EXCEPT ![job[j].source] = NoText]
    /\ job' = [job EXCEPT ![j] = NoJob]
    /\ UNCHANGED <<vecLink, esLink, vec, crossed, promised, starts>>

\* close(), with no job under way, drops the clients and leaves the flags.
Close ==
    /\ \A j \in Jobs : Idle(j)
    /\ HasClient(vecLink) \/ HasClient(esLink)
    /\ Counted
    /\ LET closed(link) == IF link = "ready" THEN "closed" ELSE IF link = "stuck" THEN "none" ELSE link
       IN vecLink' = closed(vecLink) /\ esLink' = closed(esLink)
    /\ UNCHANGED <<vec, es, records, job, crossed, promised, gone>>

\* Records and jobs die with the process, the stores do not.
IndexerRestart ==
    /\ Counted
    /\ vecLink' = "none" /\ esLink' = "none"
    /\ records' = [s \in Sources |-> NoText]
    /\ job' = [j \in Jobs |-> NoJob] /\ crossed' = {}
    /\ UNCHANGED <<vec, es, promised, gone>>

IndexerInit ==
    /\ vecLink = "none" /\ esLink = "none"
    /\ vec = [id \in ChunkIds |-> NoText] /\ es = vec
    /\ records = [s \in Sources |-> NoText] /\ promised = records
    /\ job = [j \in Jobs |-> NoJob] /\ crossed = {} /\ gone = {}
    /\ starts = 0

IndexerNext ==
    \/ \E s \in Sources, t \in Texts :
         \/ Skip(s, t)
         \/ \E j \in Jobs, force \in BOOLEAN : BeginIndex(j, s, t, force)
    \/ \E j \in Jobs : EsConnect(j) \/ EsClosed(j) \/ EsWrite(j) \/ EsDelete(j)
    \/ \E j \in Jobs, s \in Sources : BeginDelete(j, s)
    \/ Close \/ IndexerRestart
IndexerSpec == IndexerInit /\ [][IndexerNext]_indexerVars

----------------------------------------------------------------------------
IndexerTypeOK ==
    /\ vecLink \in VecLink /\ esLink \in EsLink
    /\ vec \in [ChunkIds -> Texts \cup {NoText}] /\ es \in [ChunkIds -> Texts \cup {NoText}]
    /\ records \in [Sources -> Texts \cup {NoText}] /\ promised \in [Sources -> Texts \cup {NoText}]
    /\ job \in [Jobs -> [at : {"connect", "close", "write", "delete"}, source : Sources,
                         text : Texts, acked : BOOLEAN] \cup {NoJob}]
    /\ starts \in 0..MaxStarts /\ crossed \subseteq Jobs /\ gone \subseteq {DocOf[t] : t \in Texts}

(* A text that both stores confirmed for a path is in both, chunk by chunk,  *)
(* as long as no other job starts on the path or on a path of its document:  *)
(* jobs of other documents, connections opened, mocked, failing or closed,   *)
(* restarts and calls skipped as unchanged leave it there (index_document).  *)
(* Nothing is promised of a write that was mocked, failed or stored in part, *)
(* nor where two jobs met; a call may be skipped there, and the stores hold  *)
(* another text, as after a shorter text of the same document id was indexed *)
(* from another path.                                                        *)
ConfirmedIsStored ==
    \A s \in Sources : promised[s] # NoText =>
        \A id \in ChunksOf(promised[s]) : vec[id] = promised[s] /\ es[id] = promised[s]

(* A document both stores confirmed deleted has no chunk left in either, be  *)
(* it of a longer text it had before, until somebody indexes it again        *)
(* (delete_document and the ids of chunks).  A delete that met another job   *)
(* on the path or the document promises nothing.                             *)
DeletedIsGone ==
    \A d \in gone : \A id \in ChunksOfDoc(d) : vec[id] = NoText /\ es[id] = NoText

(* What makes the two inductive: a record that was confirmed is the text     *)
(* that was; jobs that share a path or a document know of each other;        *)
(* nothing is confirmed where a job is at work; Milvus holds what a job that *)
(* met nobody wrote, or lacks what it deleted; nobody writes what is gone.   *)
WorksOn(j, d) == DocOf[job[j].text] = d
RecordsAgree ==
    \A s \in Sources : promised[s] # NoText /\ records[s] # NoText => records[s] = promised[s]
MeetingsSeen ==
    \A j, k \in Jobs :
        j # k /\ ~Idle(j) /\ Meets(k, job[j].source, DocOf[job[j].text]) => j \in crossed
NothingConfirmed ==
    \A j \in Jobs : ~Idle(j) => \A s \in Sources :
        promised[s] # NoText => s # job[j].source /\ ~WorksOn(j, DocOf[promised[s]])
VecHolds ==
    \A j \in Jobs \ crossed : job[j].at \in {"connect", "write"} /\ job[j].acked =>
        \A id \in ChunksOf(job[j].text) : vec[id] = job[j].text
VecLacks ==
    \A j \in Jobs \ crossed : job[j].at = "delete" /\ job[j].acked =>
        \A id \in ChunkIds : WorksOn(j, id[1]) => vec[id] = NoText
GoneIsQuiet ==
    \A j \in Jobs : job[j].at \in {"connect", "close", "write"} => \A d \in gone : ~WorksOn(j, d)

IndexerInv ==
    /\ ConfirmedIsStored /\ DeletedIsGone
    /\ RecordsAgree /\ MeetingsSeen /\ NothingConfirmed /\ VecHolds /\ VecLacks /\ GoneIsQuiet
=============================================================================
