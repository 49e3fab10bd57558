# Banking AI platform: TLA+ specifications

These modules specify the behaviour of the platform in this repository that is
hard to test: requests that race on the same workflow, transactions that fail
half way, answers that get lost, providers that fail over, stores that do not
commit together, processes that start at the same time. Every definition that
models code is tied to the lines it stands for in `PROJECT.json` (`map`); the
properties follow the hazards listed there.

Paths below are relative to `src/apps/backend/banking_ai/` unless they start
with `apps/`, `docs/` or `tests/`.

## The system

| Component | State it keeps | Operations | Talks to |
|---|---|---|---|
| Workflow engine (`services/workflow_service.py`, `api/v1/workflows.py`) | tables `workflows`, `agent_runs`, `approvals` | start, approve, reject, escalate, get, review_queue | orchestrator, agent executor, audit service, its request's transaction |
| Request transaction (`api/deps.py`, `db/session.py`) | one database session per request, one connection pool per process | commit on success, roll back on error | the database |
| Orchestrator and agents (`agents/`) | none: static plans, pure rules, calls to the router | plan, run | model router, vector store |
| Agent executor (`services/agent_executor.py`) | none | build an agent by name and run it | agents |
| RBAC (`core/rbac.py`, `core/security.py`) | none: static tables; roles travel in the token | check a permission | every endpoint |
| Audit service (`services/audit_service.py`) | table `audit_logs` | record, query | the caller's transaction |
| Model router (`ai/router.py`, `ai/factory.py`) | the ordered provider chain | complete | providers, observer |
| Providers (`ai/providers/`) | none (HTTP clients) | is_available, complete with retries | external models |
| Telemetry observer (`services/observer.py`) | tables `model_calls`, `cost_tracking` | record, in a session of its own | the connection pool |
| Documents and search (`services/document_service.py`, `ai/vector_store.py`, `services/storage_service.py`) | object store, tables `documents`, `document_chunks`, the in-process vector store | ingest, search | all three stores, one after the other |
| Temporal worker (`apps/worker/`) | Temporal's history | run a plan as activities | agent executor |
| Authentication (`services/user_service.py`, `api/v1/auth.py`, `core/security.py`) | table `users`; tokens are stateless | login, refresh, me | every endpoint, through the token |
| Seeding (`services/seed.py`, `main.py`) | tables `permissions`, `roles`, `role_permissions`, `users` | seed at startup | the database |

What is hard in this code:

* **Interleaving of requests.** Several API processes (three replicas in
  `infrastructure/k8s`) serve requests concurrently. Every request has a
  transaction at PostgreSQL's default level, READ COMMITTED. Nothing is read
  `FOR UPDATE` and no row carries a version, so what a decision read may be out
  of date when it writes.
* **Column-wise updates.** The unit of work writes the columns that differ from
  what the session loaded, not whole rows.
* **Failure between steps.** A statement, the commit, the process or the
  connection may fail anywhere; the answer may leave before the commit or never.
* **Stores that do not commit together.** Object store, database and vector
  store; the observer's session beside the request's.
* **Fallback and retries.** Provider chains, HTTP retries, activity retries.

## Modules

| Module | Models |
|---|---|
| `Rbac` | roles, permissions, `permissions_for_roles` |
| `Plans` | the six workflow plans, the outcomes of a step |
| `WorkflowService` | the workflow engine under its endpoints and transactions |
| `ApprovalGate` | what the engine promises, without tables or requests |
| `WorkflowInvariant` | its inductive invariant: `TablesInv`, and `HistoryInv` |
| `WorkflowServiceProofs` | `TablesInv` and the theorems about the tables |
| `WorkflowHistoryProofs` | `IInv`, the theorems about history and readings, the refinement of `ApprovalGate` |
| `WorkflowReads` | what callers of the engine are shown |
| `ReviewQueue` | the paged review queue, and a client that walks through it |
| `ReviewQueueProofs` | the theorem about `ReviewQueue` |
| `ProviderChain` | settings to provider chain, `is_available`, prices and estimates |
| `ModelRouter` | router, providers, observer and the connection pool they share with the request |
| `Failover` | what the router promises its caller, without retries, telemetry or connections |
| `ModelRouterProofs` | the theorems about `ModelRouter`, and that it implements `Failover` |
| `Chunking` | `chunk_text` |
| `DocumentIngest` | upload, search and the compliance agent over object store, tables and index |
| `DocumentIngestProofs` | the theorems about `Chunking` and `DocumentIngest` |
| `AgentRules` | the rules of the fraud, KYC, loan and document agents, as functions |
| `AgentExecutor` | one payload through a plan: which adapters refuse it, which outcomes it gives |
| `TemporalWorker` | the same payload through the Temporal workflow |
| `AgentProofs` | the theorems about the rules and both engines |
| `Seeding` | the startup of several processes |
| `SeedingProofs` | the theorem about `Seeding` |
| `AuthTokens` | login, refresh and the life of a privilege |
| `AuthTokensProofs` | the theorems about `AuthTokens` |
| `MCWorkflow`, `MCReads`, `MCQueue`, `MCRouter`, `MCIngest`, `MCAgents`, `MCSeeding`, `MCAccounts` | the small instances TLC checks |

`WorkflowService` extends `Rbac` and `Plans` and instantiates `ApprovalGate`;
`WorkflowInvariant` and `WorkflowReads` extend `WorkflowService`; `MCWorkflow`
and `WorkflowServiceProofs` extend `WorkflowInvariant`, `MCReads` extends
`MCWorkflow` and `WorkflowReads`, `WorkflowHistoryProofs` extends
`WorkflowServiceProofs` and `WorkflowReads`. `ReviewQueue` extends `ApprovalGate`: since
`WorkflowService` implements that, the queue sees every change of a workflow it
can see in the real system. `ModelRouter` extends `ProviderChain` and
instantiates `Failover`. `AgentExecutor` extends `AgentRules` and `Plans`,
`TemporalWorker` extends `AgentExecutor`: the worker and the engine run side by
side on one payload. `DocumentIngest` extends `Chunking` and `Rbac`; `Seeding`
and `AuthTokens` extend `Rbac`.

The families meet in `Plans`. A step of `WorkflowService` has any outcome
`StepOutcomes` allows for its agent; `OutcomesAsPlanned` shows that what the
executor and the rules produce is among them. Whatever `outcome` a completion of
`ModelRouter` has other than `completed`, `BaseAgent.execute` turns into the
`failed` of `Plans`.

A definition whose comment says *variant* is no part of a specification: it is a
plausible mistake in the definition that follows it (a dropped guard, a column
not written), and stands there to show that a property notices the mistake.

### WorkflowService

*State.* The tables hold committed rows only: `workflows[w]` is the row created
by start request `w`, `agentRuns[w]` its agent runs, `approvals[r]` the row that
request `r` inserted (a start inserts at most one, a decision at most one),
`audit` the audit entries. What is uncommitted is in the sessions: `exec[w]` for
a start request, `dec[d]` for a decision. `pc[r]` is how far the request got,
`answer[r]` what its caller was told.

*Actions.* One per statement other requests can see or be seen by.

| Action | Code |
|---|---|
| `StartWorkflow`, `RefuseStart` | the endpoint is entered or answers 403 |
| `RunStep` | one iteration of the loop over the plan's steps |
| `FinishStart` | the final status, the approvals row and the audit entry are flushed |
| `CommitStart`, `CommitDecision` | `session_dep` commits |
| `Decide`, `RefuseDecision` | approve, reject or escalate is entered or answers 403 |
| `ReadWorkflow` | `_reload`: SELECT the workflow, or 404 |
| `ReadApprovals` | `_reload`: SELECT the approvals; then the guard on the status read before (409) and the first pending row |
| `FlushDecision` | the UPDATEs, waiting for the row lock of another decision |
| `Respond`, `LoseAnswer` | the caller gets the answer, or the process dies first |
| `Rollback` | a statement or the commit fails, or the process dies |

*Abstractions.* Payloads, results, summaries, errors and timestamps are left out.
A reason is the request whose text it is. An agent's outcome is one of
succeeded, flagged, failed (`Plans`). `RUNNING` is never visible outside its
transaction and is not a status of a committed row. Statuses and decisions no
code assigns are left out. A caller's roles are those in the access token.

*AnswerFirst.* The project's FastAPI requirement has no upper bound. Older
versions run the code after a dependency's `yield` (the commit) before the
response is sent, newer ones after it. Both orders are checked: `races` commits
first, `types` and `ingest` answer first, and the theorems cover both. With the
answer first, a caller may be told 200 or 201 and the commit then fail, so
nothing is claimed of the durability of an answer. What is claimed in either
order is `ClosedForGood`: once a workflow is settled and nobody with an open
request has read it as undecided, its rows and its trail are never touched
again, by a late, repeated or rolled-back request, and nobody is told 200 about
it for a decision the trail does not have.

### ModelRouter

*State.* `settings` fixes the chain of a process. Of a call, `index` is the
router's loop, `tries` the posts a provider has already failed, `attempts` the
list the code builds for its error message, `outcome` the `CompletionResult` or
the exception, `emitted` the records handed to the observer. `modelCalls` and
`costs` say which of those have a row in the two tables, and `connections` is
the pool: a request holds one connection from its first statement to its end,
the observer a second one for every record.

| Action | Code |
|---|---|
| `Arrive`, `Connect`, `ConnectTimeout`, `Leave` | the request that starts a workflow takes its connection, or times out, and gives it back at its end |
| `AskReady`, `AskUnready` | `is_available` |
| `Retry`, `Unreachable` | `complete` posts again after a timeout or transport error; the last try fails |
| `BadAnswer` | an HTTP error or a body of the wrong shape, at once |
| `Escape` | an exception that is no `LLMProviderError` |
| `Complete` | a result, annotated, and the success record |
| `OpenSession`, `SessionTimeout` | the observer gets a connection, or its wait times out |
| `Store`, `StoreFails` | both rows in one commit, or the exception is swallowed; then `Proceed`: return, next provider, or `ModelRouterError` |

*Abstractions.* A request makes one completion. Texts, models, latencies and
prompt versions are left out; of an error only its kind is kept. A provider's
prices are those of its default model, in 10^-8 USD per token. `probing` stands
for a provider that may report itself unavailable, as the fakes of
`tests/unit/test_router.py` do: none of the three built-in ones ever does, since
`GroqProvider` turns an empty key into `None` and `is_available` only tests for
an empty one. Groq without a key is therefore called, and refuses.

### WorkflowReads and ReviewQueue

`WorkflowReads` adds to every step of `WorkflowService` the rows a session has
loaded (`shown`). `GET /workflows/{id}` is the first half of a decision, the
same two SELECTs, so it has no action of its own. The answer to a decision comes
from a second `_reload` in the same session, which does not refresh a collection
that is loaded: a row the decision updated is shown, one it inserted is not.

`ReviewQueue` has a client that asks for page after page, each request being two
SELECTs (the total, then the page), while cases come, go and come back as
`ApprovalGate` allows. A case is its place in the order of `created_at`, which
is set when its start begins and becomes visible when it commits: a case may
join the queue in front of a younger one. Two cases with the same `created_at`,
between which the ORDER BY does not decide, are left out. `stayed`, `left` and `joined` are
history variables that the property is about.

### DocumentIngest

*State.* `objects` is the object directory, `documents`, `chunks` and `audit`
the committed rows, `index[p]` the vector store of process `p`; `stage`, `fate`,
`answer` and `req` belong to an upload. A document is named by its upload, a
chunk by its document and its place. `reply` is the last answer of a search or
of the compliance agent.

| Action | Code |
|---|---|
| `Receive`, `RefuseUpload` | the endpoint is entered, or answers 403 or 422 |
| `OpenObject`, `WriteObject` | `LocalFileStorage.put`: `write_bytes` truncates, then writes |
| `FlushRows` | the document row, its chunks and embeddings, uncommitted |
| `IndexChunks` | `upsert` into the index of this process; then final status and audit entry |
| `Commit`, `Respond`, `Rollback` | `session_dep`; the answer before or after the commit (`AnswerFirst`, as above) |
| `Restart` | the process ends and starts again with an empty index |
| `Search`, `Comply` | `GET /search`; `ComplianceAgent.run` |

*Abstractions.* A body is a name and a number of words. Scores are left out, so
`Best` is any choice of `top_k` records. A path traversal in a key cannot occur,
as the name is a last component (`..`, which is one, makes `put` fail: a
rollback). `put` has no await, so its process does nothing else meanwhile
(`Idle`), but another process may write the same file.

### AgentRules, AgentExecutor and TemporalWorker

`AgentRules` gives the rules as functions of inputs. Amounts are whole units;
the loan formula is computed in fractions, with a yearly rate that is zero or a
multiple of 1 / `RateUnit` (`RateUnit` at most 10,000: the floats of the code
are then right to nine digits, and a loan is rated as in fractions unless it
lies that close to a threshold). At the other end `dust` is a rate so small that
`1 + r` loses a part of it: a monthly rate in sixteenths of 2^-52, of which the
sum keeps a whole number of last places (`Kept`). If it keeps none, `factor - 1`
is zero and the step fails (`DividesByZero`); else the payment is the equal
share times the true rate over the rate that was kept, between a half and three
halves of it. Rates between 64 last places and 1 / `RateUnit` are not modelled.
A text is a word and the way it is written, a
date three numbers and the format it is written in. `AgentExecutor` runs a
payload through its plan as `WorkflowService.start` does. `Accepted` is the
validation of the input models, which raises inside the adapter, before
`execute` could turn it into a failed outcome: `start` catches that, the
worker's activity does not. `TemporalWorker` runs the same payload as
activities: `Attempt`, then `ActivityReturns`, `ActivityRaises` or
`ActivityLost`, and `Return` after the last. `InProcess` is the status `start`
leaves for the same payload, so that `WhereEnginesPart` can compare the ends:
the person asked by one engine and not by the other, the failure one engine
stops at and the other passes.

### Seeding

*State.* `rows` and `account` are what is committed; `phase`, `seen` and
`pending` belong to the startup of a process and its one transaction. Each stage
is a SELECT and a flush (`Select`, `Insert`); an INSERT of a name that another
open transaction holds waits (`Blocked`), and of one that was committed since
the SELECT fails (`Duplicate`). `Abandon` is the end of the session, however it
ended: the error is suppressed and the process serves.

### AuthTokens

*State.* One account, the clock, every token ever issued (none is stored by the
code, and none is ever used up), the requests under way. `Login` and `Refresh`
are the check of the users row, `IssueTokens` the second SELECT with the roles
and the new pair; `Edit` may fall between them. `lastActive` and `lastHeld` are
history variables. An endpoint's check (`Admits`) reads nothing but the token.
The clock stands still while a login or refresh is between its two SELECTs, so
the bound that is shown, `AccessTTL`, is to be read as `AccessTTL` plus the time
such a request takes.

### Runs

| Run | Instance | Shows |
|---|---|---|
| `races` | 1 workflow, 3 decisions, 2 users, `fraud_review`, commit before answer | the table invariants, the inductive invariant, `RecordKept`, `ClosedForGood`, the refinement `ImplementsGate` |
| `types` | 1 workflow, 2 decisions, all six plans, answer before commit, with fairness | `HumanGate` by plan and by flag, `MachineOutcomeFinal`, failed plans, `ResponsesAgree`, `ClosedForGood` in the other order, `RequestsEnd` |
| `lost_update` | 1 workflow, 2 decisions | **violated** `GuardedTransitions`: a decision overwrites a settled workflow |
| `torn_row` | 1 workflow, 2 decisions with and without a reason | **violated** `RecordsOneDecision`: one request's reason beside the other's decision |
| `reviewer` | 1 workflow, 2 decisions | **violated** `ReviewerHoldsPermission`: the permission a row names is never consulted |
| `queue` | 4 workflows, 2 decisions, pages of 1 and 2 | `WalkExplained`: a walk misses a case only if an older one left or joined, and repeats one only if an older one joined |
| `routing` | 2 completions, a pool of 2, 4 settings, 1 retry, with fairness | the story of the records, costs, connections, the refinement `ImplementsFailover`, `RoutingEnds` |
| `unrecorded` | 1 completion | **violated** `OneRecordPerAttempt`: an answer the code cannot read fails the call with no record and no fallback |
| `ingest` | 2 uploads, 2 processes, 4 bodies, windows of 4 words that share 1, answer before commit | documents are whole or absent, objects and index disagree with the tables only as stated, no phrase is cut, when an answer is ungrounded |
| `rules` | all six plans, about 10,000 payloads, both engines, with fairness | monotone rules, `OutcomesAsPlanned`, `WhereEnginesPart`, `WorkflowReturns` |
| `seeding` | 3 processes, 3 catalogues, 2 accounts, with fairness | the loser of a race serves what the winner wrote, all or nothing; startup ends |
| `accounts` | 2 requests at a time, 3 token pairs, 5 moments | a privilege outlives its grant by less than `AccessTTL` |

*Bounds of `queue`.* Four cases in pages of two are the fewest where a page
boundary has a case on both sides that stays and one that moves. *Of `ingest`:*
two uploads can share a key, and two processes an object but not an index; the
bodies are a text of three windows, one that fills a window exactly, a blank one
and one above the ceiling. *Of `rules`:* inputs lie on both sides of every
threshold and every bound of the input models; texts have up to four lines, and
rates are 0, 1/2 and 1, and traces either side of a half and of a whole last
place (the theorems cover every rate of the two kinds above).
*Of `seeding`:* three processes are the fewest where one waits for a second while
a third commits; the catalogue is the real one, empty, complete, or of a release
without one role and one permission. *Of `accounts`:* a refresh token lives as
long as two access tokens, and three pairs allow a refresh of a refreshed pair.

*Bounds of the router's runs.* The chain is fixed for a process, so the four
settings give four independent systems: three providers, two with one that may
be unavailable, and one only (local or remote). Two requests and two
connections are the fewest where requests fill the pool and wait for each
other, where one request leaves room for one observer session, and where a
third party gets none. One retry tells first, last and repeated tries apart.
One of the two usages costs groq less than a micro-dollar's half, so it leaves
no cost row; the other is not a multiple of a thousand tokens.

*Bounds.* Decisions on different workflows share no row (row locks, rows and the
audit entries are per workflow), so one workflow is enough; the theorems cover
any number. Three decisions are the fewest with two that race while a third has
already settled the workflow, or that escalate twice and approve. The two users
are a manager, who may start and take every decision, and a risk analyst, who
may neither start nor escalate: one of each kind of refusal. `StartTypes` is one
gated single-step plan where the races matter and all six where the plans do.
`Reasoned` is only needed by `torn_row`.

*Deadlock* is not checked: a system stops when every request, walk, payload or
moment of the instance is used up, and rows in `awaiting_approval` may wait for
a person forever.

*Fairness* (`types`, `routing`, `rules`, `seeding`). A request that entered its endpoint runs to its end: the
event loop keeps resuming its coroutine, and the database grants a row lock that
stays free (a transaction takes at most one contended lock, so weak fairness is
enough: whoever holds it commits or rolls back). A request in `routing` always
has a step it can take: every wait for a provider or for a connection has a
timeout (`llm_request_timeout_seconds`, the pool's). Nobody has to send a request, a
rollback never has to happen, and no agent has to succeed. In `rules`, Temporal
schedules what is due and an attempt that is given the time ends; that it is
given the time is not assumed, so `WorkflowReturns` concludes that the workflow
returns or its attempts are lost again and again. `Begin` and the in-process
engine need no fairness. In `seeding` a starting process that can step again and
again does step (strong fairness): the database grants a unique name to the
transaction that has queued for it, though others insert and die meanwhile.

### What is proved

Theorems hold for every value of the constants that satisfies the named
assumption of the module. Each proof module first states an inductive invariant
(or takes it from a module of its own), shows that every action keeps it, one
lemma per action, and then derives the properties the runs check. All of these
invariants were checked with TLC on the instances above before they were proved;
`IInv` and `RouterIInv` are properties of runs.

**Workflow engine** (`WorkflowServiceProofs`, `WorkflowHistoryProofs`): every set
of workflows, requests and users, every assignment of roles, both answer orders,
from `ParametersAssumption` alone.

| Theorem | States |
|---|---|
| `TypeCorrect`, `OnePendingRowHolds`, `StatusBackedHolds`, `DecisionsAuditedHolds`, `HumanGateHolds` | what the tables hold |
| `MachineOutcomeIsFinal`, `RecordIsKept` | what a step may never do |
| `ConflictJustifiedHolds`, `RunsExplainStatusHolds` | where a 409 and a status come from |
| `ClosedCasesStay` | a closed case stays closed, whichever of commit and answer comes first |
| `GateImplemented` | the refinement of `ApprovalGate` |
| `ResponsesDoAgree` | what `WorkflowReads` shows, for `ReadsSpec` |
| `Invariance` | `IInv` itself |

None of the table properties is inductive. Whether a commit keeps them depends
on what the session read several steps earlier. `TablesInv`, the first half of
`IInv`, adds what such a reading still says about the tables (`ReadingsHold`): a
status other than awaiting approval was read after the pending row was gone, a
workflow never returns to `awaiting_approval`, and a row never to `pending`. So a
decision that holds a pending row holds the one `start` inserted and changes the
status with it, and one that holds none meets a workflow that no longer waits.
`TablesAgree` ties rows to their requests' commits. The proof splits the steps in
two: those that commit nothing keep the tables (`QuietKeepsTables`), and the two
commits are treated one by one (`CommitStartTables`, `CommitDecisionTables`);
readings of other sessions survive a commit because the tables only move forward
(`Forward`).

`HistoryInv`, the second half, ties the tables to what happened: every commit
has its audit entry (`CommitsAudited`), a reading of a settled workflow came
after an audited settlement (`ReadingAudited`: this is what makes a 409
deserved, since the answer is given long after the reading), a committed
decision is in the trail of its workflow (`DecisionsTraced`), and the
runs of a start, committed or not, stop at the first failure (`RunsInOrder`).
For the refinement, a commit is shown to be one step of the gate on its own case
and none on any other; a decision that overwrites a settled workflow is the
gate's own step for that, since the gate promises no more than the code does.
`ReadsInv` adds to `IInv` what the rows loaded by one SELECT say about the status
loaded by the other, before and after the decision's flush.

**Router** (`ModelRouterProofs`): every set of calls and settings, every size of
the pool, number of retries and set of usages, from `RouterAssumption`.
`RouterTypeCorrect`, `StoryHolds`, `CostsHold`, `PoolHolds`,
`Invariance`, and `RouterImplementsFailover`: `Spec => F!FailoverSpec`, under the
mapping that forgets everything but the chain, the failures and the outcome.
`RouterIInv` adds `LoopShape` (where the loop is tells how many providers have
failed and whether the outcome is settled, which is what relates `index`,
`attempts` and `emitted`), `EstimatesAreClose` (every success record carries its
exact cost, rounded, before any of it is stored) and the finiteness of the pool.
A step of one call leaves the invariant of every other untouched
(`StepTouchesOne`, `SameKeeps`); most steps of the call itself are silent for
the records (`SilentKeeps`), and the four that are not, a failure, a success,
`Store` and `Proceed`, have a lemma each.

**Documents** (`DocumentIngestProofs`): every set of uploads, processes, bodies
and file names, texts of any length, from `IngestAssumption` and
`ChunkAssumption`. `TypeCorrect`, `DocumentsAreWhole`, `ProcessedIsIndexed`,
`GhostsAreExplained`, `ObjectsAreKept`, the action property `NothingFoundIsNone`,
and `PhrasesDoSurvive`. The last assumes `ChunkOverlap < ChunkSize` (20 and 120
in the code, whose one call takes the defaults): with a larger overlap
`chunk_text` advances by one word and the windows are too short for the phrases. `IngestInv` follows an
upload through its stages: what it has put in each store by then, which key its
content gives it (so that a writer of the same key writes the same bytes), and
who may have torn the file. That the chunking loop ends at all is a least-number
argument (`LastWindowIsFirst`).

**Agents and engines** (`AgentProofs`): every payload whose texts, numbers and
dates have the types of the input models (`PayloadAssumption`), every unit of the
rate (`RateAssumption`), every current date. `OutcomesArePlanned`, `EnginesPart`, from `EngineInv` (both
engines have only outcomes that the one payload gives; the worker has passed
only steps whose payload is accepted, and returns what the plan says). The
ends are compared by what a plan's steps can do: only document intelligence has
a step that may flag and no gate (`GatedPlans`), and an accepted step fails only
on a model or on a division by zero (`WhichFail`). The others are facts about the rules: `TwoSignalsNeeded`,
`MinorsAlwaysCaught`, `WorseIsNeverSafer`, `LastValuesWin`. The total of a
transaction is a sum of seven points, each of which only grows. That a loan gets
no safer rests on three facts about the payment, a fraction of powers: interest
on a shrinking debt is at most interest on the whole of it (`InterestBounded`, the
step from a zero rate to any other), the payment grows with the rate
(`RateConvex`) and falls with the term (`ShorterTerm`). These are facts about
exact fractions; of a rate that `1 + r` keeps in part the theorem says less, as
the code does less: the payment is within a half of an equal share
(`KeptBounds`), and grows with the principal and falls with the term, but a
higher rate may be the cheaper one. These, and what
`ParseFields` reads, are about recursive functions. Each is unfolded once to the
equation it satisfies, and `Induction`, stated of sets of numbers, does the rest.

**Authentication** (`AuthTokensProofs`): every pair of lifetimes and number of
clients, from `TokenAssumption`. `TypeCorrect`, `PrivilegesAreRecent`. `AuthInv`
says of every access token that the account was active, and had the roles the
token claims, when it was issued or later, and of every handler between its two
SELECTs that the account was active at this moment.

**Seeding** (`SeedingProofs`): any number of processes and any database, from
`SeedingAssumption`. `SeedingAgrees`. `SeedInv` says which names a transaction
has behind it at each stage, and that a reading is out of date only once another
process has committed everything.

**Review queue** (`ReviewQueueProofs`): any number of cases and any page size,
from `QueueAssumption`. `WalksAreExplained`. `WalkInv` counts: while no older
case joins, the place of a case in the queue only falls, so a case that was shown
is behind the pages to come (`ShownOnce`); while none leaves either, its place
stays, so one not shown yet is ahead of them and within the total that decides
which page is the last (`NotSkipped`).

*Only model-checked.* The liveness properties (`RequestsEnd`, `RoutingEnds`,
`WorkflowReturns`, `StartupEnds`): liveness under fairness is out of the prover's
reach. Every other property of a passing run is a theorem.

*What the proofs found.* `FinalStatus` used to be a CASE whose guards overlap,
which TLA+ leaves open to any of the branches; the code is an `if` / `elif`
chain. TLC takes the first true guard and so did not notice. The models of
`_score_to_risk` and of the loan agent's rating had the same form. All are IF
chains now.

## What the code does otherwise than it says

`PROJECT.json` (`findings`) quotes the lines of the first four, which a run
shows:

* a decision is guarded by a status that may be stale, so a settled workflow can
  be overwritten (`lost_update`);
* two racing decisions can leave one's reason in the other's row (`torn_row`);
* the permission stored with an approval is never checked (`reviewer`);
* a provider may fail in a way that neither falls back nor leaves a record
  (`unrecorded`).

The models also hold the following; the properties state what remains true.

* The worker says it mirrors the in-process execution
  (`apps/worker/banking_worker/workflows.py:3`), but goes on after a failed
  step, retries a refused payload without limit, asks for approval by the plan
  alone, whatever a step flagged, and gives every activity a new, empty vector
  store, so its compliance agent never finds a policy. `WhereEnginesPart` says
  on which payloads that shows.
* `_monthly_payment` tests for a rate of zero, but a positive yearly rate below
  about 1.3e-15 is lost in `1 + r` as well and divides by zero, so the loan
  fails; slightly larger ones are priced up to a half below or above an equal
  share.
* A date like 12/01/2006 is read with the day first, so a customer who is a
  minor by the other reading is not found out (`MinorsAreCaught`).
* `core/security.py:8` says refresh-token rotation is enforced in the auth
  service; `UserService.refresh` issues a new pair as often as a refresh token
  is presented, until it expires.
* The answer to a decision that inserted an approvals row does not show it.
* `role_permissions` rows are seeded and never read: permissions come from the
  table in `core/rbac.py`, by the role names in the token.
* A failed or interrupted second upload of the same file tears the object of the
  first; a rolled-back upload stays in the index of its process until a restart.
* `api/v1/documents.py:25` documents 413 for a file above the ceiling; the code
  raises `ValidationAppError`, a 422.

## Plan

1. `WorkflowService`, `ModelRouter` and their theorems: done.
2. `DocumentIngest`, `AgentRules`, `AgentExecutor`, `TemporalWorker`, `Seeding`,
   `AuthTokens`, `WorkflowReads`, `ReviewQueue`: done, and all their safety
   properties are proved.
3. Left: that `WorkflowReads` and `TemporalWorker` refine the modules they
   extend, as theorems (so that what is proved of `Spec` is inherited by name
   rather than by the shape of `Next`), and shorter proofs where two modules
   have the same lemma.

## Not modelled

The paged queries of audit entries and agent runs (the paging of `ReviewQueue`,
newest first, over rows that are only added), redaction, floating-point
rounding other than that of `1 + r` at tiny rates, `notification_agent` (on no plan, with no adapter), `S3Storage`,
`PgVectorStore` and the OIDC mode (seams without code), the create_all of SQLite
development runs, metrics, the frontend (a status page), container and cluster
definitions, generated migrations, logging and error formatting, Keycloak (not
called by the code). Prompt texts and model output have no behaviour to check
here.
