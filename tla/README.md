# Formal models of the AI data-platform operations agent

TLA+ modules, TLC configurations and TLAPS proofs for the program in this
repository: a LangGraph agent (`python/src/aiops`) that diagnoses incidents of a
data platform, an approval gate that keeps it from acting without people, and an
MCP server (`go/`) whose tools it calls. Paths below are relative to
`python/src/aiops/` unless they start with `go/`.

Run from this directory: `tlc -config gate_single.cfg ApprovalGateMC`, and so on for
the table of runs; `tlapm ApprovalGateProofs.tla` checks the proofs of a module, and likewise
`ApprovalWorkflowProofs`, `OpsGraphProofs`, `ToolServerProofs`, `ToolClientProofs`,
`LlmProofs`, `AccessProofs` and `KnowledgeProofs`.

## 1. The system: components, state, interaction

| Component | State it keeps | Operations | Talks to |
|---|---|---|---|
| Approval gate, `hitl/gate.py` | `_requests` per process; one Redis hash per request, with a TTL; whether Redis answered at start | create, approve, reject, check_status (restores from Redis, times out) | Redis; graph node, workflow, API |
| Risk classifier, `hitl/risk.py` | none | classify: operation text and scope to a level | workflow |
| Approval workflow, `hitl/workflow.py` | per workflow: steps with assessment, request and state; the workflow's state | create, submit, check, wait | classifier, gate |
| Agent graph, `agent/graph.py`, `router.py`, `state.py`, `base.py` | AgentState, checkpointed per thread by LangGraph | nine nodes, three routers, exceptions absorbed by the base class | LLM, MCP client, gate, indexer |
| MCP server, `go/internal` | tool registry; one circuit breaker per tool; a cache and rate limiters made anew for each request | tools/list, tools/call through a chain of eight middlewares | tools |
| MCP client, `mcp_client/` | memory cache, Redis cache, health flag | call_tool, batch, health check | MCP server, Redis |
| Tool catalogue, `mcp_client/registry.py`, `discovery.py` | the tools known, each with component and risk; a refresh task | discover, periodic refresh, list for a user | MCP server |
| LLM failover, `llm/router.py`, `providers.py` | a breaker per provider | route, list the available, chain of replacements, record an outcome | providers |
| Token budget, `llm/budget.py` | per session: tokens used, and used per task | check, consume, reset | callers of the LLM |
| Answer cache, `llm/cache.py` | a dictionary by hash, a list with embeddings | get, put, invalidate, evict | callers of the LLM |
| Indexer, `rag/indexer.py`, `processor.py` | the text last indexed per path; a client and a mock flag per store | index, batch, delete, close; split into chunks | Milvus, Elasticsearch |
| Retrieval, `rag/retriever.py`, `dense.py`, `sparse.py`, `reranker.py` | a client and a mock flag per path | retrieve: two paths, rank fusion, filter, cut | Milvus, Elasticsearch, or built-in documents |
| Access control, `security/rbac.py` | users, in memory and in a Redis hash; audit log | register, restore, check a permission or a tool | API, Redis |
| Evaluation, observability, web | metrics, traces, badcases, sessions | scoring, gates, endpoints | all |

Wiring that matters for what can happen. `build_ops_graph` gives no MCP client to the
remediation node, and the diagnosis gives no step a `tool_name`, so remediation never
executes anything: it marks every step as suggested. `HITLGateNode` makes an in-memory gate
of its own. `ApprovalWorkflow`, `ProviderManager`, `TokenBudgetManager`, `SemanticCache`,
`RBACManager`, `ToolDiscovery`, `DocumentIndexer` and `HybridRetriever` are complete classes
that nothing in the program constructs yet (the last is built by
`tests/unit/test_supplement.py`); `LLMClient` names its models itself and does not ask the
`ProviderManager`. Their callers in the models are the ones their module headers and tests
describe. As committed, `web/app.py` invokes the graph without the `thread_id` a
checkpointer asks for and `web/routes/agent.py` passes arguments `create_initial_state` does
not have; the model of the graph starts from `create_initial_state` on a thread, which is
what both are written to do.

**Hard behaviours.** Several processes decide the same request over one Redis, with
calls that fail and are swallowed; votes race deadlines; a restart forgets the
dictionary; polls repeat what was already decided; exceptions leave half-written
state to the next node; a thread keeps what an earlier request wrote; the diagnosis
loops to itself; LLM callers check a budget and spend it later; breakers are asked and fed by
calls that overlap; two cache levels and two stores are changed one after the other, and
the second change may fail; racing jobs connect, close and mock one client.
`PROJECT.json` lists each hazard at its line, with the properties
that cover it or the part of the plan that will.

**What makes each part correct.** Gate: a critical operation takes two people, an approval
is in time, decisions are final and shared, every request is decided. Workflow: a step's
verdict is the gate's, the workflow's verdict is that of its steps, the waiter returns.
Graph: nothing risky is remediated or reported as settled without a person, a report belongs
to its request, the rounds are bounded, the loop ends. MCP path: racing requests share one
breaker per tool, a tool is cut off for its own failures only, a breaker recovers, a cached
answer has a bounded age, every batch returns. LLM layer: what a session overspends is
bounded, a provider that recovered is not cut off by old failures and one that failed is
probed again, a strong model is not replaced by a weak one, the cache gives a query its
newest answer. Access: whoever is shown a tool may call it. Knowledge base: what both stores
confirmed stays there and what both deleted stays gone while no other job works on the
document, no text of a document is lost in the splitting, fusion respects what both paths
agree on.

## 2. Modules

- `ApprovalLifecycle` is the abstract promise to whoever waits for an approval: a
  request is issued once, leaves *pending* at most once, and a decision is never
  taken back; it can only be lost with its record.
- `ApprovalGate` models `hitl/gate.py`. `requests[i][r]` is the dictionary of
  instance *i*, `redis`/`expires` the shared hashes, `checking[i]` a `check_status`
  between its read and its write. Each method is one action (`CreateRequest`,
  `Approve`, `ApproveTooLate`, `Reject`, `CheckBegin`/`CheckEnd`) and contains its
  call of `_persist_to_redis`, which may succeed, set the hash without the expiry,
  or do nothing. A method is atomic within its instance because it is synchronous;
  `check_status` is two actions because another instance may write to Redis between
  its HGETALL and its HSET. In `approve` and `reject` nothing shared is read, so one
  action is enough. `Restart` is a new process: an empty dictionary and a new ping.
- `ApprovalGateMC` adds the refinement mapping to `ApprovalLifecycle`: what the
  outside can learn about a request is its Redis hash or else the copy of an
  instance. `ApprovalGateProofs` holds the theorems.
- `RiskClassifier` models `classify` as an operator from the set of keywords a text
  contains and four scope flags to a level, or to the exception the enum raises. The map
  is searched in its order and its first key decides; the patterns can raise that level.
- `ApprovalWorkflow` extends both: one workflow over one in-memory gate. Its
  coroutines do not yield between reading and writing the context, so submit and
  poll are one action each; `wait_for_approval` is a begin, polls and a timeout.
  `orderly` separates the caller the module header describes from arbitrary callers.
- `OpsGraph` models the compiled graph on one thread. `at` is the node about to run;
  each node is an action that writes what `process()` writes and moves `at` by the
  router's answer on the state written. `Raises` is the base class around a node
  that fails. `Submit` writes `create_initial_state` over what the thread holds;
  `Resume` is the API layer that re-invokes a pending thread with a decision
  (external: described in `nodes/hitl_gate.py`, no code in the repository does it). What
  the tools answer (`collected_data`) is left out: no router reads it.
- `ApprovalWorkflowMC`, `OpsGraphMC` give values to the structured constants.
  `ApprovalWorkflowProofs`, `OpsGraphProofs` hold the theorems.

- `ToolServer` models `tools/call` of the MCP server. `call[c]` is a request between its
  arrival and its answer, `breakers` the package-level map and `circuit` the breaker
  objects in it. Looking a breaker up and creating it are separate actions because the
  lock is released between them; `EnterBreaker` and `Leave` are gobreaker's
  `beforeRequest` and `afterRequest` (external, version 1.0.0 of `go.mod`), each under the
  breaker's lock. `failed` is a history variable. `main.go` builds the middleware chain
  anew for every request, so the limiters of `ratelimit.go` ("global and per-user
  protection") never refuse and the cache of `cache.go` never hits: nothing outlives the
  request that made it, and the model has no state for them. Timeouts are taken with the
  default limit, since the chain runs with an empty tool name in its context; how long
  it is does not matter to the model.
- `ToolClient` models `MCPClient` in one process: batches under way at the same time, the
  semaphore of each, the memory cache `l1`, the Redis cache `l2` and the health flag. A call is the way out
  (`HitMemory`, `HitRedis`, `Miss`) and the way back (`Answered`, `Fails`, `TimesOut`),
  because the coroutine yields only while the request is posted. Other processes are
  `PeerStores`: they meet this one in Redis only. `isError` is ignored as in the code.
- `ToolServerProofs`, `ToolClientProofs` hold their theorems. The client sees of the
  server an answer, a failure or nothing, which is what the server's steps come to.

- `ProviderFailover` models the routing table, the breakers of the LLM providers and the
  calls that use them. `ProviderManager` is synchronous, so asking for the available
  providers (`Begin`), reporting a success (`Succeed`) and reporting a failure together
  with asking for the chain (`FailFirst`) are one step each; what runs in between are the
  calls, which overlap. `is_available` changes the breakers it looks at, and so does
  `Asked`. The provider rate limit compares counts nobody increments and is left out.
- `TokenBudget` models `check_budget`, `consume` and `reset_session`. `asker[a]` is a
  caller between its check and its report; that gap is what the module is about.
- `SemanticCache` models both levels of the cache. Entries are numbered in the order they
  are put; an embedding is the rank of its similarity. A TTL belongs to a `Put`, because it
  comes from the task, which the key ignores. `newest` is a history variable.
- `ToolAccess` models the catalogue with its discovery and the users with their Redis
  hash. The two tables that say what a role may do, one for listing tools and one for
  calling them, are both written out: they differ, and the property is one direction.
- `ServicesMC` holds failover, budget and access for TLC. They share no state, so a behaviour exercises the
  one `service` picked at its start: their states add up and do not multiply.
- `DocumentIndexer` models `index_document`, `delete_document` and `close`. The Milvus
  client is synchronous, so a job is one step up to its next Elasticsearch call
  (`BeginIndex`, `BeginDelete`, then `EsConnect`, `EsClosed`, `EsWrite`, `EsDelete`). A
  link is the client of a store together with its mock flag. `promised`, `gone` and
  `crossed` are history: what both stores have confirmed, and who met whom.
- `DocumentSplitter` models `DocumentProcessor`: a document is a sequence of kinds of
  characters, a chunk the set of positions it holds, an iteration of `_split_text` a step.
  Code blocks and tables are sets of positions too, found in the section (`AtomicBlocks`)
  and removed one after the other (`WithoutCode`, `TablesRemoved`), as the two patterns are.
- `HybridRetrieval` models a search: the vector path in one step, the keyword path with
  its connection in several, `SparseRetriever.close` in two, then fusion, filter and cut. Scores are whole numbers that
  stand for `1 / (k + rank)`. The same hash may appear twice in what a store answers.
- `Orders` says what sorting, `min` and `max` do, without recursion: a finite set laid out
  as a sequence by a strict total order. Splitter and retrieval are written with it.
- `KnowledgeMC` holds indexer, splitter and retrieval for TLC, and with them the answer
  cache, one `part` per behaviour, as `ServicesMC` does.
- `LlmProofs` (failover, budget, cache), `AccessProofs` and `KnowledgeProofs` (indexer,
  splitter, retrieval) hold their theorems.

Operators with a suffix (`Vote_Twice`, `Synced_Never`, ...) are wrong
variants of the operator that follows them, marked "Faulty". No behaviour
uses them; each shows that a property would notice that mistake.

## 3. Runs

| Run | Question | Bounds |
|---|---|---|
| `gate_single` | Does one gate over a reliable Redis implement the life cycle, keep its decisions, decide every request? | 1 instance, 2 requests, 2 people, clock 0..4, timeouts 1 and 2, TTL 3, restarts |
| `gate_cluster` | What holds when instances share a Redis that loses writes and reads? | 2 instances, 1 request, 2 people, failures and restarts |
| `gate_rejection_lost` | Is a rejection shared between instances? **No.** | 2 instances, 1 person, no failure at all |
| `workflow` | From the operation text to the answer of the waiter | 2 steps, 2 requests, 2 people, 5 texts, 2 scopes, clock 0..3 |
| `workflow_rejected_step` | Does a rejected step stop the workflow for every caller? **No.** | as `workflow` |
| `workflow_unapproved_migration` | Does a text that migrates data always take two people? **No.** | as `workflow` |
| `ops_graph` | Several invocations of one thread: are alerts correlated, are the rounds bounded, what may survive? Does each end? | 1 tool, 3 rounds, 2 requests, resumptions, 1 raising node per request |
| `ops_undecided_report` | Does a high-risk plan wait for a person? **No.** | 1 tool, 3 rounds, no failure |
| `tool_server` | Do racing requests share one breaker, do tools stay apart, does a breaker recover from hanging tools, is every request answered? | 2 requests at a time, 2 tools, trip at 2 requests and 50 %, 2 probes, interval and open time 1, clock 0..2 |
| `tool_client` | How old may a cached answer be, does the memory keep its size, does every batch return? | 2 batches at a time with 1 permit each, up to 2 calls under way, 3 keys (2 cacheable, 1 of them asked for by other processes), capacity 1, TTL 2, clock 0..4 |
| `services` | Do breakers, budgets and access tables hold when their callers overlap? | 4 providers, 2 calls, 2 contexts, threshold 2, 1 tick to recover; 1 session, 2 callers, budget 4, calls up to 2 tokens; 4 tools, 2 users, 4 user records |
| `knowledge` | Do the stores keep what was confirmed, does splitting keep the text, does fusion keep the order, is a cached answer the newest? | 2 paths, 3 texts of 2 documents, 2 jobs, 4 starts; every document of up to 6 characters with headings and fences, of 8 with sentences and of 10 with paragraphs, the head of a table with every continuation of 2 to 5 characters, chunks of 7 with overlap 1; 3 contents, 8 lists, 2 searches, 2 results; 2 queries, 2 entries, 1 evicted beyond the need, 4 puts with a TTL of 0 or 1, clock 0..1, 1 hit |

Why the bounds are enough. A gate decides one request at a time and requests do not
interact, so one request shows the interleavings of instances and two show that they stay
apart; two people are what the dual rule tells apart; the clock reaches past every deadline
and past the TTL, so expiry, timeout and approval race in every order (TTL 3 lies above the
longer timeout as 7200 s lies above 600 s). `CreateRequest` is only taken while its deadline
fits the clock: otherwise the end of the clock would look like a request that is never
decided. In the workflow one wait can end before, with and after a request's deadline. Three
rounds give the graph a first, a middle and a last one, which is all `route_from_diagnostic`
distinguishes, and a resumption may start at the last; plans are with or without a high-risk
step, which is all routing asks. Sessions and exceptions are bounded by `MaxSessions` and
`MaxErrors`.

Of the client: one permit and two batches let calls overlap and wait at the same time; two
slots hold two calls of one batch, or one of each.

Of the services: two calls are a probe and a late failure, or two probes; the four providers
are the ones the program registers, and both contexts leave a chain of two: a diagnosis by
`gpt-4o` may go on to `claude` and then to the local model, a sensitive plan by the local
model to `gpt-4o` and then to `claude`. A threshold of 2 tells a reset count from a kept
one. The budget is two full calls, so two callers can pass on the same remainder. The tools
are a built-in one whose rating by name differs from its own, one that needs no rights, one
with a checked component and one without a component. In the knowledge base two of the texts
share their document id, one of them longer by a chunk, which is the only way two texts can
meet in one document; four starts are two jobs, a restart or a close, and another job.
Documents of up to 6 characters hold every arrangement of two headings and a fenced block;
those of 8 and 10 exceed a chunk of 7 and take several rounds at every break; longer ones
repeat those rounds. The continuations of a table's head close and break its rows in every
way and put a code block in a cell, behind a row or around it. The lists are the ways two
rankings agree or disagree about a pair, with repetitions. In the answer cache, four puts
over two queries and two entries make the cache evict, replace and evict again; a TTL of 0
ends with the tick of its put and one of 1 does not, so a replaced entry may outlive its
successor. Paths, jobs and searches are symmetric: nothing names one of them, and no
liveness is checked there.

`services` checks deadlock. The other configurations say `CHECK_DEADLOCK FALSE`: nobody
has to call the program, the bounded clock stops, a splitter ends with its document, and
the indexer with its bound of starts.

The four runs that find a violation are disagreements between the code and its own
documentation, quoted in `PROJECT.json`:

1. `gate_rejection_lost`: `approve` decides on the local copy (`gate.py:208`), so a
   request one instance has rejected is approved by another that still holds it as
   pending, and the hash is overwritten. `gate.py:86` calls the state shared.
2. `workflow_rejected_step`: `check_approval_status` sees a rejection only in the
   poll that finds it (`workflow.py:229`); the next poll approves the workflow.
3. `workflow_unapproved_migration`: `classify` stops at the first key it finds
   (`risk.py:152`), and no pattern has "migrate". A step that checks and then migrates is
   SAFE and approved by nobody; `risk.py:14` asks for two people.
4. `ops_undecided_report`: `route_from_diagnostic` tests the round limit before the
   plan's risk (`router.py:78`), so the last round reports a high-risk plan without
   the gate; outside dev a pending gate also goes on to the report.

**Fairness.** `gate_single`: time passes, a `check_status` that began ends, and every
request keeps being polled, as `wait_for_approval` does (strong fairness: a poll is possible
again and again between other calls). Nobody is assumed to approve, reject or restart.
`workflow`: the event loop resumes the waiter, and time passes. `tool_server`: the Go
scheduler runs every goroutine and timers fire; no tool is assumed to return. `tool_client`:
the event loop runs ready tasks and timers fire; the server is not assumed to answer.
`ops_graph`: LangGraph runs the next node of an invocation that has begun; nobody is assumed
to submit or resume, and no outcome of the LLM or a tool is assumed. `services`: LLM calls
end, at the latest by their timeout, and time passes; callers keep asking, which is an
assumption about the environment, since a breaker is turned only by being asked. No outcome
of a call is assumed.

**Read in the code, without a run.** These differ from what a comment says or may surprise;
a run of most of them would only restate one line. The half-open breaker of the LLM layer
admits everybody and not one request (`llm/providers.py:36` against `is_available`). The
indexer's header promises retries and compensation of the double write
(`rag/indexer.py:71`); a failure is logged and the text recorded as indexed, which is why
`ConfirmedIsStored` speaks of confirmed texts only. A retrieval path that fails is not left
out but answers with built-in documents, fused with the results of the other. A line that
begins with `#` inside a code fence is taken for a heading and splits the block called
atomic (`rag/processor.py:209`); its text is kept. Tables are extracted from the whole
section (`:270`) but removed after its code blocks (`:283`): rows that become a table only
then are removed and never extracted, so their text is lost; `SplitKeepsText` excepts them
and `LossNeedsFencedBar` says that it takes a code block on a line with a bar. The comment
at `agent/nodes/diagnostic.py:87` says that merging does not overwrite the data of earlier
rounds ("不覆盖之前轮次的数据"); `dict.update` does overwrite a tool's earlier answer, also by an
error text. `llm/providers.py:151` and `:226` promise that sensitive data stays local
("敏感数据只走本地", "敏感数据不出境"); the first choice does, but `get_fallback_chain` knows no sensitive
flag, and a sensitive call that fails locally goes on to `gpt-4o`. The TTL of a cached
answer is its task's, and a remedy is to be fresh within 5 minutes (`llm/cache.py:81`,
"修复方案需要最新状态"); the key ignores the task, so once the newer answer has expired, an older one
of the same query put for a task with a longer TTL is served again. The table by which tools
are shown (`mcp_client/registry.py:124`) gives an operator none but the read-only ones; the
one by which calls are allowed (`security/rbac.py:11`, `:101`) gives low-risk ones too.
`SparseRetriever.close` that ends while a search connects takes the client that search has
made and leaves it connected without one; nothing in the repository calls it. Where two jobs
meet on a document, or a write was not confirmed, a later call may be skipped as unchanged
although the stores hold another text or none (`rag/indexer.py:230`); so it is after a
shorter text of the same document id was indexed from another path. A resumption keeps the
round counter, so it may enter the last round, or pass it, before it has collected anything
(`agent/router.py:78`). Changes to the default users are undone by a restart, denials by
component are not in the audit log, and a similar answer is served for the TTL of the task
it was made for, not of the one that asks. In the MCP client the later of two answers under
way for a key replaces the newer one.

## 4. Proofs

Every invariant of the passing runs but `LossNeedsFencedBar`, and every action property, is
also a theorem, for every value of the constants that the module's assumption admits: any
number of instances, requests, people, tools, calls, jobs and searches, any timeouts, TTLs,
sizes and bounds. What the assumptions ask is stated where the constants are declared. Some
are bounds of the model (`MaxSessions` is at least 1, the workflow has an instance to run
in), some follow from the code (the levels that ask for approval are risks of the gate, the
weights of ranks fall, a heading is a line), and some restrict what the code would take:
limits and capacities are at least 1, and chunks overlap by at most half a chunk, beyond
which the splitter may repeat a chunk for ever.

None of the deeper properties is inductive. What each needs:

**Gate** (`ApprovalGateProofs`: `TypeCorrect`, `DualControlHolds`, `ApprovedInTimeHolds`).
`DualControl` judges a record by its risk while `approve` branches on the stored approval
type, and a step may copy a record from Redis into a dictionary. `IInv` therefore adds to
`TypeOK` that every record anywhere is a `GoodRecord`: finitely many approvers, its type
follows from its risk, its timeout from that risk and from a timeout some caller gave, an
approved dual record carries two names, and an approved record was resolved in time.
Records only move unchanged or are replaced by `NewRequest`, `Resolve` or `Vote` of a good
one: one lemma per operator, one for the store, one step per action. Lost writes, old
copies and restarts need no case of their own, since every copy ever written was good.

**Life cycle** (`GateRefinesLifecycle`, `DecisionsAreFinal`). Both are theorems about one
gate whose Redis calls do not fail (`OneGate`), as in the run `gate_single`; with more
gates they are false, as `gate_rejection_lost` shows. The initial states map to initial
states, and `StepKeeps` says that a step makes a legal step or none of each request's
abstract decision and does not touch a decision the gate holds. What makes it inductive is
`AllInStep`: copy and hash are the same, except that `approve` resolves an overdue copy
without writing it, and then the hash has timed out as well. The refinement mapping had to
be an order of preference (hash, then copy) and not a `CASE` whose arms overlap.

**Workflow** (`ApprovalWorkflowProofs`: `WorkflowTypeSafe`, `VerdictsMatchGate`,
`PeopleForRiskySteps`, `OrderlyAnswersHold`). A verdict lasts because the gate's records
move one way (`Moves`): they stay, keep their risk, and stay as they are once decided.
`FlowInv` adds to the gate's invariant what ties a step to its record (`StepsAsk`: its
request exists and has the risk of its level; `StepsClassified`; `Verdicts`), who approved
(`AllNamed`), and for an orderly caller that every step is approved or still open while it
waits (`OrderlyFlow`). From the text to the people there are two more lemmas: `classify`
never gives less than the highest pattern a text contains, and a text whose only key is
"migrate" is critical (`MigrationLevel`).

**Graph** (`OpsGraphProofs`: `GraphTypeSafe`, `RoundsStayBounded`, `AlertContext`,
`PersonBeforeRemediation`, `OwnReport`, `ConcludedKnowledge`). `GraphInv` has one part per
theorem and one lemma per part. `PersonBeforeRemediation` needs what the status means:
outside dev it is the one decision that was injected (`StatusIsInjected`), because a thread
that was decided never becomes pending again, and the gate is asked only about plans that
need it (`GateGuards`). For `RoundsStayBounded`, an invocation that has still to diagnose is
below the bound (`RoundsLeft`): a loop was decided below the limit, and a thread is resumed
once, by a decision that raises the bound by one. `OwnReport` has to say what waits at
`knowledge_sink` as well, and `ConcludedKnowledge` follows the confidence from the diagnosis
to the entry to what is indexed, past nodes that raise halfway, and the session to the entry
at the sink when none did (`EntryReaches`).

**Tool server** (`ToolServerProofs`: `ServerTypeCorrect`, `OneBreakerHolds`,
`HealthyToolServedHolds`, `ProbesStayAccountedFor`). `OneBreaker` needs that an entry of
the map is never replaced; a breaker's state says something about a tool only if every
request reports to the breaker of its own tool. `IInv` puts together the types,
`OneBreaker`, `Filed` (the map files a breaker under its tool) and `OwnFailures` (a breaker
that is not closed belongs to a tool in `failed`). Probes are counted by generations:
`Admitted` says that no execution belongs to a generation its breaker has not reached, so a
breaker that turns half-open starts with none of its own, and `Counted` that the admitted
ones are finitely many and add up. What gobreaker does to a record is one lemma per
operator.

**Tool client** (`ToolClientProofs`: `ClientTypeCorrect`, `AnswerFreshHolds`,
`MemoryStaysBounded`). A hit in Redis makes an old answer servable again, so the proof of
`AnswerFresh` carries `Stamped`: an answer is stamped less than a TTL after it was received,
and Redis holds nothing from the future. The permits of a batch are those its posted calls
have left, and a step of one batch leaves the semaphores of the others alone.
`CapacityWithoutRedis` is inductive with the
types; its proof is counting what eviction and one more entry leave.

**LLM path** (`LlmProofs`). `ClosedStaysBelow`: one lemma per operation on a breaker; a count
never exceeds the threshold, as it opens the circuit when it gets there. `StrongStaysStrong`:
`CallsStayInTier` adds that what is left of a call's chain are positions of the tier of its
first endpoint; an endpoint of the strong tier is of no other, although tiers share
providers. `OverspendStaysBounded`: `AdmittedWithinBudget` charges every caller under way
with a full call; a check adds a caller only while something is left, and reporting
exchanges the charge for what was used. `NewestIsAnswered`: an old entry may stay in the
list, so `ListedIsCovered` says that such an entry has expired, or is the newest, or is no
younger than the newest, which is in the dictionary and answers first, or has expired; then
the one that still answers was put with the longer TTL (`OlderLivesLonger`).

**Access** (`AccessProofs`: `ShownStaysCallable`). The catalogue rates its tools with
components the prefixes give, users have known roles, and for each of the five roles and
risks the listing table admits no more than the calling table (`ListsNoMoreThanCalls`).

**Knowledge base** (`KnowledgeProofs`). *Indexer* (`ConfirmedStaysStored`,
`DeletedStaysGone`): between the two stores a job relies on what it did to the first.
`IndexerInv` adds that a confirmed record is the confirmed text (`RecordsAgree`), that jobs
on one path or document know they met (`MeetingsSeen`), that nothing is confirmed where a
job is at work (`NothingConfirmed`), that Milvus still holds or lacks what a job that met
nobody wrote or deleted (`VecHolds`, `VecLacks`), and that nobody writes a document that is
gone (`GoneIsQuiet`). *Splitter* (`SplittingKeepsText`): `NothingLost` says of each text
position that it is in a chunk under its own heading, or still waits under it in a section,
a block or the text at hand, or is one of the excepted rows; what a section becomes depends
on the document alone (`SameDocument`, `SectionsKnown`); the next chunk starts no later than
the last one ended (`start <= reach`), which is where a bound on the overlap is needed; and
the sections between headings cover the document. *Fusion* (`AgreementPrevails`): what is
never behind in a ranking weighs at least as much in it. The difference of the two sums is
at least the current weight times the lead, rank by rank, because weights fall; with equal
scores it was seen first. That the order is total makes the sorted answer hold every result,
and the cut keeps what stands above. *Connections* (`ConnectedStaysUsable`): a search that
still connects finds a client or a mocked path, and a search closes only a mocked one;
`CloserInv` says that a client is connected or some search is connecting it, so `close()`,
which begins when none does, leaves no search waiting for the client it takes.

Inductions over numbers (sums, positions, sorted sequences) are arguments about the least
number that fails, which the library's `WFMin` gives; `Orders` and the recursive functions of
the models are written so that this suffices. The model gained from it what it had taken
from sorting operators that cannot be reasoned about: `Ascending`, `Fused` as a relation,
`FreshIds` as injections, the chain of replacements as positions in a tier. In
the knowledge base TLC counts the same states with either form.

Only model-checked: what eventually happens (`EventuallyDecided`, `WaitReturns`,
`InvocationEnds`, `HalfOpenResolves`, `RequestsAnswered`, `BatchReturns`,
`OpenCircuitProbes`), since liveness under fairness and `ENABLED` are out of the prover's
reach; `LossNeedsFencedBar`, an argument about every way rows and fences may lie in a
section, over the documents of the run; and the four disagreements, which are
counterexamples.

## 5. Not modelled

Texts, prompts, cards, metrics, traces and the evaluation's floating-point scoring;
the tools of the MCP server (read-only queries and mock texts); the mock graph used
when LangGraph is missing; the patrol node and the compressor, which the graph does
not contain; `total_tokens`, which no code increases, and with it the router's token
valve; Redis replication. Of the LLM layer: prices and cost reports, forced providers,
registering a provider at run time. Of the knowledge base: an Elasticsearch request that
takes effect after the client gave it up, the delay until Elasticsearch shows what it
stored, the indexer's `close()` while jobs are under way, the searches' `close()` while one
connects, `DenseRetriever.close`, embeddings and mock vectors, the detection of
titles, types and frontmatter, the query rewriter, and `graph_rag.py`, whose methods are
queries of Neo4j or of a fixed graph in memory. Of access control: the audit log, and the
injection and sensitive-data filters, which are regular expressions over texts.
Notification, observability and configuration keep no state the program reads back.

## 6. Plan

1. Done: gate, classifier, workflow, graph, tool server, tool client, LLM path, tool
   access, knowledge base; every safety property of the passing runs as a theorem, and the
   refinement of the life cycle by one gate.
2. Composition of client and server: the client's calls are the server's requests, a call
   the client gave up goes on in the server, and the abstract server of `ToolClient` is
   implemented by `ToolServer`.
3. Proofs: what of `AnswerFresh` and the breakers carries over to that composition, and how
   much of the life cycle several gates keep, where a rejection may turn into an approval
   (run `gate_rejection_lost`).
