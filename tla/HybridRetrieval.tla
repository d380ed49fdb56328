--------------------------- MODULE HybridRetrieval --------------------------
(* A search of the knowledge base (rag/retriever.py): the vector path       *)
(* (rag/dense.py) and the keyword path (rag/sparse.py), each with a built-in *)
(* collection it falls back to, fused by reciprocal rank, filtered, and cut *)
(* (rag/reranker.py).  The vector path is synchronous; searches overlap      *)
(* while Elasticsearch answers, and share its client.                        *)
EXTENDS Naturals, Sequences, FiniteSets, Orders

CONSTANTS
    Chunks,     \* content hashes: those stored and those of the built-in collection
    BuiltIn,    \* what the built-in collection answers
    Hits,       \* the lists a store may answer with, also with a hash twice
    Weight,     \* 1 / (k + rank) for every rank, scaled to whole numbers
    TopK,       \* results asked for
    Filters,    \* the chunks that pass a metadata filter
    Searches    \* searches that may overlap

Lists == Hits \cup {BuiltIn}
ASSUME RetrievalAssumption ==
    /\ \A h \in Lists : h \in Seq(Chunks) /\ Len(h) <= Len(Weight)
    /\ Weight \in Seq(Nat)
    /\ \A i, j \in DOMAIN Weight : i < j => Weight[j] < Weight[i]
    /\ TopK \in Nat /\ \A F \in Filters : F \subseteq Chunks

VARIABLES
    paths,      \* the retrievers this instance was made with
    dense,      \* the vector path: "untried", "real" or "mock"
    sparse,     \* the keyword path: has a client, is connected, is mocked
    search,     \* what every search is doing
    closing     \* close() of the keyword path is under way

retrievalVars == <<paths, dense, sparse, search, closing>>

----------------------------------------------------------------------------
(* rrf_fusion *)

Places(h, c) == {i \in DOMAIN h : h[i] = c}
WeightOf(h, c) ==
    LET upTo[n \in 0..Len(h)] ==
          IF n = 0 THEN 0 ELSE upTo[n - 1] + IF h[n] = c THEN Weight[n] ELSE 0
    IN  upTo[Len(h)]

\* Faulty: the keyword path replaces the score of the vector path.
Score_Replaced(d, s, c) == IF Places(s, c) = {} THEN WeightOf(d, c) ELSE WeightOf(s, c)

Score(d, s, c) == WeightOf(d, c) + WeightOf(s, c)

Seen(d, s) == {d[i] : i \in DOMAIN d} \cup {s[i] : i \in DOMAIN s}
FirstSeen(d, s, c) == Least(Places(d \o s, c))

\* By descending score; equal ones in the order they were first seen.  What is
\* fused has no hash twice, so _deduplicate, which goes by the hash, keeps all.
Fused(d, s) ==
    {e \in Seen(d, s) \X Seen(d, s) :
        \/ Score(d, s, e[1]) > Score(d, s, e[2])
        \/ /\ Score(d, s, e[1]) = Score(d, s, e[2])
           /\ FirstSeen(d, s, e[1]) < FirstSeen(d, s, e[2])}

\* The filter leaves the order as it is, and so does the reranker, which sorts by the
\* same score, or fails.
Answered(d, s, F) ==
    LET passed == Seen(d, s) \cap F
    IN  SubSeq(Ordered(passed, Fused(d, s)), 1, Least({TopK, Cardinality(passed)}))

----------------------------------------------------------------------------
(* HybridRetriever.retrieve *)

NoSearch == [at |-> "idle", dense |-> <<>>, sparse |-> <<>>, filter |-> {}, answer |-> <<>>]
Answers(q, d, s) ==
    \E F \in Filters : search' = [search EXCEPT ![q] =
        [at |-> "done", dense |-> d, sparse |-> s, filter |-> F, answer |-> Answered(d, s, F)]]

\* One failure to connect mocks the vector path for good; a failed search falls
\* back for this search only.
DenseAnswers(link, hits) ==
    \/ link = dense /\ "dense" \notin paths /\ hits = <<>>
    \/ /\ "dense" \in paths
       /\ \/ dense # "mock" /\ link = "real" /\ hits \in Lists
          \/ dense # "real" /\ link = "mock" /\ hits = BuiltIn

\* The vector path answers, and the keyword path gets as far as its first await.
Retrieve(q) ==
    /\ search[q].at \in {"idle", "done"}
    /\ \E link \in {"untried", "real", "mock"}, hits \in Lists \cup {<<>>} :
         LET waits(at) == search' = [search EXCEPT ![q] = [NoSearch EXCEPT !.at = at, !.dense = hits]]
         IN /\ DenseAnswers(link, hits) /\ dense' = link
            /\ \/ "sparse" \notin paths /\ Answers(q, hits, <<>>) /\ UNCHANGED sparse
               \/ /\ "sparse" \in paths
                  /\ \/ sparse.mock /\ Answers(q, hits, BuiltIn) /\ UNCHANGED sparse
                     \/ ~sparse.mock /\ sparse.connected /\ waits("search") /\ UNCHANGED sparse
                     \/ /\ ~sparse.mock /\ ~sparse.connected /\ waits("connect")
                        /\ sparse' = [sparse EXCEPT !.client = TRUE]
    /\ UNCHANGED <<paths, closing>>

\* Faulty: the client is closed and the path goes on as before.
Failed_Kept(link) == link

\* The keyword path after a failure to connect.
Failed(link) == [link EXCEPT !.mock = TRUE]

\* Several searches may connect at once, each with a client of its own that
\* replaces the other's; one that fails mocks the path for good and closes the
\* client it finds.
SparseConnects(q) ==
    /\ search[q].at = "connect"
    /\ \/ /\ sparse' = [sparse EXCEPT !.connected = TRUE]
          /\ IF sparse.mock THEN Answers(q, search[q].dense, BuiltIn)
             ELSE search' = [search EXCEPT ![q].at = "search"]
       \/ /\ sparse' = Failed(sparse)
          /\ IF sparse.client THEN search' = [search EXCEPT ![q].at = "close"]
             ELSE Answers(q, search[q].dense, BuiltIn)
    /\ UNCHANGED <<paths, dense, closing>>

SparseCloses(q) ==
    /\ search[q].at = "close"
    /\ \/ sparse' = [sparse EXCEPT !.client = FALSE]
       \/ UNCHANGED sparse    \* closing fails
    /\ Answers(q, search[q].dense, BuiltIn)
    /\ UNCHANGED <<paths, dense, closing>>

SparseAnswers(q) ==
    /\ search[q].at = "search"
    /\ \E hits \in Lists : Answers(q, search[q].dense, hits)
    /\ UNCHANGED <<paths, dense, sparse, closing>>

\* SparseRetriever.close, of one caller and while no search connects: the client
\* that a search connects meanwhile would be taken from it.  Others go on.
CloseBegins ==
    /\ sparse.client /\ ~closing /\ \A q \in Searches : search[q].at # "connect"
    /\ closing' = TRUE
    /\ UNCHANGED <<paths, dense, sparse, search>>

CloseEnds ==
    /\ closing /\ closing' = FALSE
    /\ sparse' = [sparse EXCEPT !.client = FALSE, !.connected = FALSE]
    /\ UNCHANGED <<paths, dense, search>>

RetrievalInit ==
    /\ paths \in SUBSET {"dense", "sparse"}
    /\ dense = "untried" /\ sparse = [client |-> FALSE, connected |-> FALSE, mock |-> FALSE]
    /\ search = [q \in Searches |-> NoSearch] /\ closing = FALSE

RetrievalNext ==
    \/ \E q \in Searches : Retrieve(q) \/ SparseConnects(q) \/ SparseCloses(q) \/ SparseAnswers(q)
    \/ CloseBegins \/ CloseEnds
RetrievalSpec == RetrievalInit /\ [][RetrievalNext]_retrievalVars

----------------------------------------------------------------------------
\* In every beginning of the list a occurs at least as often as b.
NeverBehind(h, a, b) ==
    \A n \in DOMAIN h : Cardinality({i \in Places(h, b) : i <= n}) <= Cardinality({i \in Places(h, a) : i <= n})

(* What both paths find no later than another result comes before it: fusing *)
(* the two rankings, with fallbacks, repeated contents, filters and the cut, *)
(* never puts a result above one both paths prefer, nor keeps it in its      *)
(* place (retrieve, rrf_fusion, _deduplicate, rerank).                       *)
FusionPrefersAgreement ==
    \A q \in Searches : search[q].at = "done" =>
        LET answer == search[q].answer
        IN \A i \in DOMAIN answer : \A a \in search[q].filter \ {answer[i]} :
             NeverBehind(search[q].dense, a, answer[i]) /\ NeverBehind(search[q].sparse, a, answer[i])
                => \E j \in 1..i - 1 : answer[j] = a

(* A connected keyword path that is not mocked has a client to search with,  *)
(* however the first searches race to connect and to close, and although the  *)
(* path is closed and connected again (_ensure_connected, close).            *)
SparseHasClient == sparse.connected /\ ~sparse.mock => sparse.client
=============================================================================
