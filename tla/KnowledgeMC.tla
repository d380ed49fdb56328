---------------------------- MODULE KnowledgeMC ----------------------------
(* What the program keeps to answer from: the indexer with its two stores,  *)
(* the splitter that makes its chunks, the retrieval that fuses what the    *)
(* stores answer, and the cache of LLM answers.  They share no state in     *)
(* memory, so a behaviour exercises the one picked at its start and the     *)
(* others stand still at an initial state of theirs.                        *)
EXTENDS DocumentIndexer, DocumentSplitter, HybridRetrieval, SemanticCache, TLC

VARIABLE part
knowledgeVars == <<part, indexerVars, splitterVars, retrievalVars, cacheVars>>

MCDocOf == [long |-> "d1", short |-> "d1", other |-> "d2"]
MCSizeOf == [long |-> 2, short |-> 1, other |-> 1]

TextsOf(n, C) == {d \in [1..n -> C] : \A i \in 1..n : d[i] = "#" => OwnLine(d, i)}
\* Short documents with headings and fences, and texts that need several rounds.
\* Tables with a last row, and text behind it, of every form; one within a code
\* block and two in a row.
MCHeader == <<"|", "x", "|", "n", "|", "-", "|", "n", "|">>
MCTable == MCHeader \o <<"x", "|", "n">>
MCDocuments == UNION {TextsOf(n, {"x", "n", "#", "f"}) : n \in 0..6}
               \cup TextsOf(8, {"x", "n", "."}) \cup TextsOf(10, {"x", "n"})
               \cup UNION {{MCHeader \o t : t \in TextsOf(n, {"|", "f", "n", "x"})} : n \in 2..5}
               \cup {<<"f", "n">> \o MCTable \o <<"f">>, MCTable \o <<"n">> \o MCTable}

MCBuiltIn == <<"c">>
MCHits == {<<>>, <<"a">>, <<"a", "b">>, <<"b", "a">>, <<"b", "a", "a">>,
           <<"a", "b", "c">>, <<"c", "c", "a">>}
MCWeight == <<62 * 63, 61 * 63, 61 * 62>>    \* k = 60
MCFilters == {{"a", "b", "c"}, {"b", "c"}}

\* One TTL ends with the tick the entry is put in, the other a tick later.
MCTtls == {0, 1}
MCCloseness == [q1 |-> [q1 |-> 2, q2 |-> 1], q2 |-> [q1 |-> 1, q2 |-> 2]]

KnowledgeSymmetry == Permutations(Sources) \cup Permutations(Jobs) \cup Permutations(Searches)

KnowledgeInit ==
    /\ part \in {"index", "split", "retrieve", "cache"}
    /\ IndexerInit /\ SplitterInit /\ RetrievalInit /\ CacheInit
    /\ part # "split" => doc = <<>>
    /\ part # "retrieve" => paths = {}

KnowledgeNext ==
    \/ part = "index" /\ IndexerNext /\ UNCHANGED <<part, splitterVars, retrievalVars, cacheVars>>
    \/ part = "split" /\ SplitterNext /\ UNCHANGED <<part, indexerVars, retrievalVars, cacheVars>>
    \/ part = "retrieve" /\ RetrievalNext /\ UNCHANGED <<part, indexerVars, splitterVars, cacheVars>>
    \/ part = "cache" /\ CacheNext /\ UNCHANGED <<part, indexerVars, splitterVars, retrievalVars>>

KnowledgeSpec == KnowledgeInit /\ [][KnowledgeNext]_knowledgeVars
=============================================================================
