# Models and proofs of the AI backend handbook's systems

The repository teaches a backend by building one: a job backend with a durable
pipeline (`src/projects/ai-backend-data-layer`), an agent runtime with an MCP
client and server and a RAG system (`src/projects/ai-agent`), and smaller
automation projects (`src/projects/fastapi-playwright`,
`src/projects/n8n-workflows`). This directory holds TLA+ models of the parts with
state that several actors share, TLC configurations that check them, and TLAPS
proofs about the pipeline, the in-memory backend, the agent's stores and tool loop,
the MCP operations and the stages of RAG.

Run a check with `tlc -config <cfg> <module>` and the proofs with `tlapm <module>`
(section 7 lists the modules with theorems). `PROJECT.json` lists components, runs,
mutants, the lines of source behind every definition, hazards and theorems.

## 1. Inventory

### Job pipeline (day59 - day61)

| part | state | operations |
|---|---|---|
| acceptance API | `jobs` row, `outbox_events` row, request fingerprint per (tenant, idempotency key) | `accept_job` |
| outbox relay | `published_at`, `relay_token`, `relay_claim_expiry` of a row | claim, publish, checkpoint |
| Celery/Redis | messages, unacknowledged deliveries | deliver, redeliver, acknowledge (external) |
| worker | lease token, attempt row, dispatch marker, request id, artifact | `claim_and_start_attempt`, `run_external_operation` and its transactions |
| sweeper | expired leases | `recovery_sweep` |
| repair operator | `job_repair_history` | `repair_early_ack` |

All of them share PostgreSQL and nothing else. Each transaction is atomic; what
happens between transactions, and between a transaction and an external call, is
not. That gap is where the pipeline is hard: a provider call costs money and
cannot be undone, messages come twice, workers die or stall past their lease, and
a sweep may give the Job to somebody else meanwhile. Correct means: at most one
provider call for a Job, no result without its evidence, no effect of a worker
that lost its lease, no accepted Job forgotten.

### In-memory backend (day49, day50, day55 - day57)

Uploads (a session row, the versions of an object, verifiers with a lease, a
cleaner) feed job acceptance (a Job and its dispatch intent, relays with leases).
Storage calls and scans run outside the row's guard, so cleanup, takeover and a
replaced object may come in between. A delivered Job is claimed by a worker under a
lease, marked, and sent to the provider outside any lock. Before a provider call, a limiter shared by
the fleet, a tenant ledger, a circuit breaker and the Job are asked in turn, each
under its own lock. Correct means: a Document names stored, verified bytes; an
accepted command keeps its Job, its input and its dispatch; a Job under way keeps a
delivery; money is conserved; no
early return leaks a permit or a probe slot; a call that may have executed is
neither repeated nor un-funded.

### Agent runtime (day74, day79 - day85)

Stores with one discipline (decide without side effects, commit conditionally):
`InMemoryAgentStateStore` (steps and budget of a loop), the tool registry with its
capability snapshots and the idempotent tool execution, the durable Job store
(recovery and lease), the human control store (approval, interrupt, dispatch of
one action) and the coordination store (handoffs to child workers). Their hazards
are candidates computed on old reads, replays, takeovers, grants that change
between what the model saw and what is executed, and events in an order nobody
planned.

### MCP (day89 - day94)

A client (transport generations, request bindings, preflight permits, dispatch
and reconciliation stores, retry policy), a wire, and a server (edge guard, token
and key checks, authorization with operation bindings, lifecycle with drain, a
capacity gate, an operation registry, controlled services). Workers gate, claim,
send and commit; an outcome that stays unknown is reconciled with an authority.
Hard: the request or answer is lost, doubled or late; a worker dies after the
durable claim; the server drains while handlers run. Correct means: the tool
takes effect at most once, and no store records an effect that did not happen or
denies one that did.

### RAG (day95 - day102)

| stage | state | who moves it |
|---|---|---|
| ingestion (day95) | heads, versions, operations, claims | orchestrator threads, parser process, recovery, retry, tombstone |
| chunking (day96) | chunk sets, selection pointer | orchestrators, committer |
| metadata (day96, day97) | operations, snapshots, refresh events | orchestrators, committer, event consumers |
| authorization (day97) | memberships, policies, decision cache, permits | administrators, readers |
| embedding (day98) | operations, claims, sets, selections | orchestrators, provider |
| vector index (day99) | generations, fences, activation pointer, outbox hints | builders, provider, operators |
| retrieval, reranking, grounding (day100 - day102) | bundle selection, caches, cursors, one request in progress | a client, administrators |

Each stage has a store with its own lock and reads the stores before it one at a
time. Hard: facts that change between two reads, replays of a claim, a build that
wakes up after its successor, selections that go back and forth, failures of one
branch of several. Correct means: the published chain (head, chunk set, snapshot,
embedding set, generation) belongs together, access was allowed when something was
released or committed, and what a client is told (complete, full, current) is so.

### Everything else

`PROJECT.json` lists the remaining components with the reason they are not
modelled (section 8).

## 2. Plan and order

Built in this order: the pipeline with its contract and proofs; the agent stores
and provider resilience; RAG from ingestion to serving, stage by stage, each stage
over the abstraction of the one before; MCP; tool governance composed with the
loop; uploads and acceptance. Next, by importance:

1. The releases of the serving path (`ReleasesAreCurrent`,
   `WholeSearchIsComplete`), for every corpus: the argument needs what filters, sorts
   and folds over sequences return (section 7).
2. Cancellation and late results (day54), beside `ProviderResilience` and
   `WorkerExecution`.
3. The browser worker (day66), the n8n capstone (day70), the lease backfill (day48).
4. One model of `DurableAgentJobs` and `HumanControl` over the record they share.

## 3. Modules

| module | models | over |
|---|---|---|
| `JobPipeline` | day59 - day61: relays, workers, sweeper, repair, faults | |
| `JobContract` | what the pipeline promises the owner of a Job | |
| `DurableJobsProofs` | theorems about `JobPipeline`, `DurableAgentJobs`, `MultiAgentCoordination` | those |
| `BackendProofs` | sums; theorems about `ProviderResilience`, `UploadVerification`, `JobIntake`, `AgentToolLoop` | those |
| `ClaimsProofs` | theorems about `WorkerExecution`, `HumanControl` | those |
| `UploadVerification` | day49: object versions, verification lease, scan, commit, cleanup | |
| `JobIntake` | day50: acceptance, outbox relay, worker claim | `UploadVerification` |
| `ProviderResilience` | day56 and the recovery boundary of day57 | |
| `WorkerExecution` | day55: relay, broker, `JobStore`, `run_worker` | |
| `AgentStateMachine` | day79 `decide_control`, day81 `decide_transition` and its store | |
| `ToolInvocation` | day80 governance, day74 tool contracts | |
| `AgentToolLoop` | a step with the tool call it makes | both above |
| `DurableAgentJobs` | day82 `decide_durable_recovery` and its store | |
| `HumanControl` | day83 `decide_human_control`, its store, `dispatch_once` | |
| `MultiAgentCoordination` | day85 `InMemoryCoordinationStore` | |
| `McpAdmission` | the gates of day92 - day94 as decision lists | |
| `McpServer` | day91, day92: security boundary, lifecycle, capacity, registry, handlers | `McpAdmission` |
| `McpClient` | day89, day90, day93: generations, bindings, permits, correlation | |
| `McpOperations` | day93, day94: dispatch, commit, reconciliation, retry, recovery, late answers | server and client |
| `McpOperationsProofs` | theorems about `McpOperations` | `McpOperations` |
| `RagDocument` | abstract: what ingestion promises about heads | |
| `RagIngestion` | day95 | refines `RagDocument` |
| `RagStoresProofs` | theorems about `RagIngestion`, `RagVectorIndex` | those |
| `RagClaims` | the claim tables the committers share | |
| `RagChunks` | day96: strategies, validator | |
| `RagPublication` | day96, day97: chunk sets, metadata, refresh events | `RagDocument`, refines `RagProvenance` |
| `RagReleaseProofs` | theorems about `RagPublication` and the grounding of `RagServing` | those |
| `MC_RagChunkPublication` | from the text to the pointer | `RagChunks`, `RagPublication` |
| `RagProvenance` | abstract: which binding is current | |
| `RagAuthorization` | day97: facts, decisions, cache, permits, guarded read | `RagProvenance` |
| `RagEmbedding` | day98 | `RagAuthorization` |
| `RagEmbeddingProofs` | theorems about `RagAuthorization` and `RagEmbedding` | `RagEmbedding` |
| `RagVectorIndex` | day99 | |
| `RagRetrieval`, `RagReranking`, `RagGrounding` | day100, day101, day102 | |
| `RagServing` | the serving path as a client meets it | the three above |
| `FirstMatch` | a decision list: the outcome of the first rule whose condition holds, and the lemmas that say so | |
| other `MC_*` | instances for TLC, several of them for two or three components side by side (section 4); `JobPipeline` needs none | |

Conventions. A definition with the name of a function or method is its
translation. A decision function that is a chain of early returns is a decision
list. Outcomes that leave every variable alone are not steps: the guard of an
action is the negation of the early returns. A definition preceded by "Mutant" is
a plausible mistake in the definition after it; `PROJECT.json` names the property
that catches it. Text, identifiers, hashes and timestamps are abstracted to what
the code compares: a digest is the thing digested, a lease is held or expired (or
has a deadline on a small clock), counters that always move together are one.

How state and actions correspond to the code:

- **JobPipeline.** One Job row per (tenant, key). `status`, `lease`, `token`,
  `marker` are columns of `jobs`; `attempt`, `requestId`, `finished` of
  `job_attempts`; `rows`, `published`, `claimed`, `rowToken` of `outbox_events`.
  `calls` and `objects` record what the outside world saw. One committed
  transaction is one step, taken where its guarded statement runs.
  `_persist_provider_request_id` is two steps because its first statement locks
  only the attempt row. `AckLate` and `TaskErrors` are the two broker settings that
  matter. Faults (crashes, stalls past a lease or claim, redeliveries, task errors)
  are bounded by `MaxFaults`; time that passes for a lease no process works under
  costs none.
- **UploadVerification, JobIntake.** Every guarded write of the store is one step;
  inspection, scan, deletion and publication are steps of their own. A verifier
  keeps the time its call began (`t0`) and a relay the time of its claim, because
  the code passes those values on. The presigned grant is honoured by the storage
  up to `MaxClockSkew` after it expired.
- **ProviderResilience.** `evaluate_dispatch` is five actions: durable facts and
  circuit state; the read-only probe hint; the permit; the reservation; the atomic
  slot. What a worker tells circuit and limiter after its call is external: the
  repository shows it only in tests.
- **WorkerExecution.** One Job; deliveries are alike and are counted (`ready`,
  `unacked`, or held by a worker). `process[p].at` is where `run_worker` stands:
  every locked call of the store and the provider call is a step, so a lease may
  lapse, an intent arrive or the worker die between any two.
- **AgentToolLoop.** Controllers read the budget, take a snapshot, decide, deliver
  (perhaps twice), and then prepare, admit, execute and complete the call.
  Conditions that outrank a continuation are raised at most `MaxRaised` at a time.
- **DurableAgentJobs.** A recovery process classifies the record with any evidence
  and applies later; `accept_result` is the authority a worker would be granted.
- **HumanControl.** `plan` and `apply` are one step because `apply` recomputes the
  candidate; the dispatch claim and the effect are two, as in `dispatch_once`.
- **MultiAgentCoordination.** Workers keep the fence of their claim; `childCalls` is the
  set of dispatches allowed, with the worker and fence they were allowed for.
- **McpOperations.** Both stores register an operation once, so each attempt has a
  record of its own; the server's calls have a program counter and interleave with
  reads and a shutdown; the wire is a set of messages that loses and doubles.
- **Rag\*.** A store method under one lock is one step. Where a method reads the
  stores of others, which have locks of their own, each read is a step. `asOf`
  (embedding, index) is history: the facts in force when the method began.
  `RagChunks` cuts a sequence of character classes, one token each, turn by turn of
  the generator's loop. Scores, similarity and wording are choices of the
  environment; ranks, limits, deadlines, cursors and caches are as in the code.

## 4. Runs

| run | properties | instance |
|---|---|---|
| `pipeline` | `AtMostOneProviderCall`, `SafetyInv`, `StaleWorkerChangesNothing`, `ImplementsContract`, `AcceptedSettles` | 1 Job, 1 command, 2 relays, 2 workers, 2 faults, late acknowledgement |
| `backend` | `BudgetRespected`, `OneEffectPerVersion`, `ReadyIsCurrent`; `LedgerConserved`, `PermitsAccountedFor`, `UncertainStaysFunded` | 2 controllers, 2 steps, a registered tool version and one that is not, 1 change of grants, constraints or registry; 2 Jobs, 2 workers, 2 recovery rounds, costs none, below and above the reservation |
| `agent_jobs` | `HistoryIsLinear`, `UnknownUsageStaysHeld`, `NoSupersededResult`; `OneCallPerHandoff`, `ReadyIsEarned` | 2 recoveries, 2 workers; 2 handoffs, 2 child workers, 2 fences, one slot |
| `claims` | `ClaimIsCovered`, `ClosedStaysClosed`; `NothingIsStranded`; `DocumentIsStored`, `AcceptedIsBacked` | a gate, 2 decisions, an interrupt, a revocation, 2 recoveries; 2 workers, 2 publications, 2 crashes or early timeouts, both acknowledgement modes; 2 verifiers, 1 cleaner, 2 uploads, 2 clients, 2 relays, 3 commands, time 0 - 2 |
| `mcp` | `ToolRunsAtMostOnce`, `FactsMatchTheEffect` | 1 operation, 2 workers, 1 retry, 2 generations, 2 disturbances (loss, doubling, crash, timeout, cancellation, drain, ...) |
| `rag_stores` | `HeadNamesTheActiveVersion`, `SettledStaysSettled`, `ImplementsDocument`; `SealedWasAuthorized`, `LateWriterIsFenced`, `NoLostActivation` | 1 document, 2 versions, 2 threads, 2 attempts; 2 builders, 2 claims, 3 fences, 3 events, every mode of the provider |
| `rag_publication` | `GeneratedIsValid`, `BoundariesAreStructural`, `SnapshotsFormAChain`, `RefreshesInOrder`, `ImplementsProvenance` | texts up to 5 symbols, several contracts; 2 workers, 2 versions, 2 chunk sets |
| `rag_release` | `SetsAreWhole`, `ReleasedWasAuthorized`, `CommittedWasAuthorized`; `ReleasesAreCurrent`, `WholeSearchIsComplete`, `FullAnswerIsGrounded` | 2 workers, 4 administrative events, every mode of the provider, batches split by items, tokens and bytes; 1 client, 2 requests, 2 events, 1 fault, 3 turns |
| `rag_withdrawal` | violated: `WithdrawalStands` | the ingestion of `rag_stores` |
| `rag_serving_stale`, `rag_serving_selection`, `rag_serving_full` | violated: `NothingStaleIsReleased`, `ChangedSelectionIsRejected`, `FullAnswerIsUndegraded` | the serving of `rag_release` |

The last four runs state what the repository's documents and reason codes say of the
program and TLC finds the code's counterexample; section 5 tells them. A passing run
has between 300,000 and 1,500,000 distinct states. Components written side by side in
one run share no state: each runs while the others rest in an initial state, and the
identities of one serve the other where a permutation may rename both
(`SharedNames`).

Why the bounds are enough. Jobs of the pipeline share no row, so one Job shows
every interleaving of its own processes; the proofs cover any number, and a second
command under the same key. Two workers
and two faults give the shapes that matter: a stalled worker and its successor, a
redelivery during an attempt, a crash during the recovery from a crash. In
`backend` two workers compete for the last permit, slot and unit of money, and two
rounds let a probe outlive its round; in `claims` there is time for a lease to lapse
and be taken over, for cleanup to become legal before the session expires, for a
second version under the same key, and for both attempts of a relay to fail, and the
two faults let a returning delivery meet the lease of a worker that then dies. The
balance of 5 holds two reservations and an overage at once; that one more Job finds
too little money is left to the proof, which is about any balance. `MaxRaised = 1`
means that one stopping condition is raised at a time; the priority between two is the
order of the decision list itself. In `mcp` one operation suffices because operations
share only capacity, which is 1, and two disturbances give a loss followed by a crash
of the recovery. In the RAG runs two actors and two to four events let every fact
change between any two reads of one method and change back; a document with two
versions and two attempts shows a late parse against a newer version, a tombstone and
a retry. Chunk texts of five symbols contain a heading, a sentence end, a table bar
and an overlap at once.

Symmetry is used over identical actors and only in runs without liveness.
Deadlock is checked in `pipeline`; in the other runs the identities, attempts or
events a caller may use are bounded and used up, so the system really stops (the
agent's loop does not, but shares its run with dispatches that do).

Fairness (`pipeline`). Relays and the sweeper loop for ever, a Celery worker takes
its next message and runs a task to its end, and time passes. Nothing is assumed
of clients, operators, faults or answers of external services. Each is weak
fairness of a process's steps; the clock is assumed to move only where no process
is working under the lease or claim. No other component promises progress in this
repository: the loops that would call them are left to the reader of the handbook.

## 5. What the checks show

**Pipeline.** At most one provider call per Job under any combination of
redelivery, crash, stall, sweep and repair; a succeeded Job has its request id,
object, artifact and finish time; a worker without its lease changes no Job; every
outbox row has a cause; every accepted Job settles. As refinement, `JobPipeline`
implements `JobContract`, with the marker as the authorisation and the HTTP request
as the call.

**Backend.** Available, reserved and charged money are the balance, and the account is
never overdrawn; permits in use
are those of workers in flight; a call that may have executed happens once and
stays funded. A Document names the version that was bound before its scan, that
version is still stored with the expected bytes, and no cleaner is about to delete
it. A client that was told "created" or "existing" can rely on the Job being its
command, on its input, and on a dispatch that is owed, made or in quarantine. With
late acknowledgement a queued or running Job keeps a delivery whatever conflicts,
deaths and early timeouts its workers meet, and a cost is settled by a success alone.

**Agent runtime.** Budgets are respected though they are checked on old reads, and
what is held is what the applied transitions asked for; a report version is
published once by each tool version; a call reaches the backend only if the registry,
grants and constraints of that moment allow it. Recoveries form one chain, no
superseded result gets authority, unknown usage is never given back. A high-risk
effect had an approval when it was claimed, capacity is released only if nothing
was dispatched, and then the action stays closed. A handoff causes one call; READY
is reported only when every child's verified facts agree.

**MCP.** However requests and answers are lost, doubled, late or reordered and
whoever dies, a tool takes effect at most once per operation, and the dispatch and
reconciliation stores never contradict the service (with one exception below).

**RAG.** Head, versions and operations tell one story, and a superseded attempt
never publishes; the heads evolve as `RagDocument` says, the publications as
`RagProvenance` says, which is what the later stages are modelled over. `RagDocument`
names every move of a head, the one the documents forbid included (`Reactivate`), so
the refinement is no statement about withdrawals. Generated
chunks pass the independent validator. What is read, embedded or sealed was
authorized as a whole at one moment though its facts were read one at a time. A
superseded builder cannot overwrite a sealed generation and no activation is lost.
Every release to a client (the hits of a round, the last look at a handoff, the
claims of an answer) reads grant and provenance with what it lets through; a search
that reports itself exhausted is complete; a FULL answer covers every item, comes
from a handoff labeled FULL and met no failure of its own. More is not promised; four
things the documents do promise fail:

- **Withdrawal** (`rag_withdrawal`). `register_intake` refuses a tombstoned document
  with TOMBSTONED_DOCUMENT_REQUIRES_EXPLICIT_RESTORE_POLICY
  (`rag_ingestion_committer.py:536`; `DAY95_RAG_INGESTION.md:116`), but a version
  accepted before the tombstone and committed after it makes the document active.
- **Deadline between rounds** (`rag_serving_stale`). Grant and provenance should be
  reread immediately before text leaves (`day100-hybrid-retrieval-and-filtering.md:255`).
  A search that the deadline or the candidate budget ends before its next round
  replies with the hits of the last one, revoked since or not
  (`rag_retrieval_orchestrator.py:369`).
- **Change of selection** (`rag_serving_selection`). It should reject the response
  (the same document, line 259). The selected bundle is read once, at the beginning
  (`rag_retrieval_orchestrator.py:113`).
- **Partial labeled full** (`rag_serving_full`). Day101 must reject it
  (`DAY100_TO_DAY101_HANDOFF.md:46`). A variant whose branch or budget failed answers
  PARTIAL, which neither the executor of variants
  (`rag_multi_query_retrieval.py:77`) nor `degraded`
  (`rag_reranking_orchestrator.py:534`) looks at; handoff and answer are FULL.

## 6. Observations

What modelling brought up beside the properties and the four findings of section 5;
none is part of a run.

Pipeline and backend:

- A task that raises before its claim is acknowledged, and its Job stays queued
  without a message (`day60_celery_app.py:81`, `day60_celery_config.py:26`),
  although `day60_delivery_recovery_logic.py:164` relies on "it is already awaiting
  delivery"; the manual repair covers it for Jobs that never had an attempt.
- `_persist_provider_request_id` (`day61_worker_completion.py:106`) is called
  lease-fenced, but a sweep can commit between its two statements.
- The provider is called after the marker commits without looking at the lease
  again (`day61_worker_completion.py:184`). `JobContract.Call` allows it.
- A second repair answers `not_eligible`, not `already_applied`. A Job that was
  swept, requeued and lost its message is neither sweepable nor repairable.
- `start_half_open` (`day56_provider_resilience.py:394`) forgets probes in flight,
  so a late probe frees a slot of the next round and more than
  `half_open_max_probes` may run.
- `process_deadline` looks for evidence before the status, so a succeeded Job with
  a request id goes back to PENDING_RECONCILIATION.
- `run_relay_once` (day50) passes its claim time to the checkpoint, so the expiry
  half of `_require_live_lease` never refuses there; only the owner check does.
  `finalize_upload` claims with the time its call began.
- `complete_multipart` stores the default content type, so its object verifies only
  for contracts that expect it; cleanup deletes one version and leaves others.
- Two workers can both claim a Job of day55 before either sets the marker, when the
  lease of the first lapses in between: `mark_provider_dispatch_starting`
  (`day55_celery_worker_execution.py:415`) refuses nobody, so both call the provider,
  with one idempotency key. The evidence gate holds for claims after the marker.
- day54's `hold_cost_reconciliation` is unguarded: the cancellation path of a
  duplicate worker can turn a settled cost back to RECONCILIATION_PENDING.

Agent runtime:

- RELEASE after SETTLE gives back the whole reservation
  (`durable_agent_jobs.py:520`). `take_over_expired_lease` (`:603`) clears the expiry
  and refuses a record without one: a second owner that dies is never replaced.
- `decide_transition` tests only terminal states, so a CONTINUE is applied to a Job
  that waits or awaits reconciliation.
- The idempotency key of a tool call includes the tool's version
  (`output_tool_contracts.py:614`): two versions can publish one report version
  twice. Grants revoked after preparation are not rechecked at execution.
- `authorize_provider_dispatch` does not read the grant's expiry; completed handoffs
  keep their allocation; an empty store aggregates to READY.
- A GATE while the policy is unavailable moves a Job from PENDING_RECONCILIATION to
  WAITING.

MCP:

- DUPLICATE from `authorize_tool` (`mcp_authorization.py:298`) refuses a legitimate
  retry; `add_retryable` and `add_pending` raise for an operation they know.
- A doubled request can execute after its other copy was refused, and the refusal
  taken for proof; `FactsMatchTheEffect` excepts doubled requests for this reason.
- The drain timeout races the handler: `mark_completed` then raises
  (`mcp_server_handlers.py:166`), `mark_pending` of an unclaimed operation aborts the
  drain loop (`mcp_server_lifecycle.py:140`). An output validation that raises
  leaves the operation IN_FLIGHT for ever.
- Recovery does not ask whether the owner still lives; the journal of
  `agent_mcp_recovery.py` is saved separately from the claim.

RAG:

- Generator and validator normalise the useful minimum differently
  (`rag_chunking_validator.py:258`).
- Selecting an earlier embedding set again answers ALREADY_COMMITTED and selects
  nothing (`rag_embedding_committer.py:268`); a chunk-only grant that may expand
  authorises the read but never the commit; a cached ALLOW skips the principal's
  expiry; `replace_membership` (`rag_acl_contracts.py:296`) increments a revision it
  read earlier.
- Running a build again with the same attempt rewrites the points of a sealed
  generation (`rag_vector_adapter.py:232`); reconciling with a new attempt does not
  raise the provider's fence (`rag_vector_orchestrator.py:128`).
- The retrieval cache key omits `top_k` (`rag_retrieval_orchestrator.py:635`).

## 7. Proofs

Every theorem holds for any sets of actors and any limits that satisfy the named
assumptions of the module it is about:

- bounds, budgets, fences and lifetimes are natural numbers, usages are within the
  reservation, and `None`, `Nobody`, `Absent` and `Nothing` are no actor, record,
  command or binding;
- the Jobs of `ProviderResilience` are finitely many, so that there is a sum over them;
- an approval is invalidated only to a status the code admits (`HumanControl`);
- tool schemas are well formed, and a constraint narrows a property its schema has
  (`ToolInvocation`);
- a version belongs to one document (`RagIngestion`) and a chunk set to one version
  (`RagPublication`), and a chunk request names one of the chunk sets;
- a request to read names some chunks, each once (`RagAuthorization`); contracts,
  weights and points are well formed and there is an embedding set (`RagEmbedding`,
  `RagVectorIndex`); serving requests, items and claims are as the code's validators
  leave them (`RagServing`, `RagGrounding`);
- nothing between an MCP client and the server passes for the server
  (`McpOperations`).

`PublishedOnce` is about a registry with one tool, as `default_registry`
(`output_tool_contracts.py:689`) and the scenarios set it up; it has this as a
hypothesis of its own because the tool's version is part of the idempotency key
(section 6). Where the table names a property of section 4, the run shows it on a small
instance and the theorem for every one.

| module | theorem | property |
|---|---|---|
| `DurableJobsProofs` | `TypeCorrect`, `SafetyCorrect` | the type invariant; `SafetyInv` |
| | `OneProviderCall`, `ResultsBacked`, `LeaseIsExclusive`, `IntentsCorrect` | consequences of `SafetyInv`, `AtMostOneProviderCall` among them |
| | `SettledStaysSettled`, `StaleWorkersAreHarmless` | action properties `SettledIsFinal`, `StaleWorkerChangesNothing` |
| | `NoQueuedJobForgotten` | a queued Job has somebody to deliver it (late acknowledgement, no task errors) |
| | `PipelineImplementsContract` | refinement `ImplementsContract` |
| | `DurableInvariant`, `RecoveriesFormOneChain`, `UnknownOutcomeKeepsCapacity`, `OnlyCurrentResultsCount` | `DurableInv`; `HistoryIsLinear`, `UnknownUsageStaysHeld`, `NoSupersededResult` |
| | `CoordinationInvariant`, `HandoffsAreDispatchedOnce`, `ReadyParentsEarnedIt` | `CoordinationInv`; `OneCallPerHandoff`, `ReadyIsEarned` |
| `BackendProofs` | `ProviderInvariant`, `PermitsAreAccountedFor`, `ExecutionsStayFunded` | `ProviderInv`; `PermitsAccountedFor`, `UncertainStaysFunded` |
| | `MoneyIsNeitherMadeNorLost`, `MoneyIsConserved` | action property `DoubleEntry`; `LedgerConserved` |
| | `BackendInvariant`, `DocumentsAreStored`, `AcceptedCommandsAreBacked` | `BackendInv`; `DocumentIsStored`, `AcceptedIsBacked` |
| | `BudgetIsRespected`, `PublishedOnce` | `BudgetRespected`, `OneEffectPerVersion` |
| | `ReadyWhatIsCurrent` | action property `ReadyIsCurrent` |
| `ClaimsProofs` | `WorkerInvariant`, `DeliveriesAreNotLost` | `WorkerInv`; `NothingIsStranded` |
| | `ClaimsAreCovered`, `WhatIsClosedStaysClosed` | `ClaimIsCovered`; action property `ClosedStaysClosed` |
| `RagStoresProofs` | `IngestionInvariant`, `HeadsNameActiveVersions` | `IngestionInv`; `HeadNamesTheActiveVersion` |
| | `SettledOperationsStay` | action property `SettledStaysSettled` |
| | `IngestionImplementsDocument` | refinement `ImplementsDocument` |
| | `IndexInvariant`, `SealedUnderOneAuthority`, `LateWritersAreFenced`, `ActivationsAreNotLost` | `IndexInv`; action properties `SealedWasAuthorized`, `LateWriterIsFenced`, `NoLostActivation` |
| `RagReleaseProofs` | `PublicationInvariant`, `SnapshotsAreAChain` | `PublicationInv`; `SnapshotsFormAChain` |
| | `RefreshesKeepTheirOrder` | action property `RefreshesInOrder` |
| | `PublicationImplementsProvenance` | refinement `ImplementsProvenance` |
| | `FullAnswersAreGrounded` | `FullAnswerIsGrounded` |
| `RagEmbeddingProofs` | `EmbeddingInvariant`, `ReadsWereAuthorized`, `CommitsWereAuthorized` | `EmbeddingInv`; action properties `ReleasedWasAuthorized`, `CommittedWasAuthorized` |
| `McpOperationsProofs` | `OperationsInvariant`, `ToolRunsOnce`, `FactsAreTrue` | `OperationsInv`; `ToolRunsAtMostOnce`, `FactsMatchTheEffect` |

**Decision lists.** Most decisions of this code are chains of early returns, written
`FirstMatch(rules)`. `FirstMatchApplies` says that the outcome is that of a rule whose
condition holds while no earlier one does; it rests on `LeastNumber`, the least element
of a set of naturals. Each proof about a decision function then goes through its
rules. Where only the closing rule has the outcome in question (FULL, EXECUTED, a
successful compare-and-set), `LastRuleApplies` gives at once that every earlier
condition failed.

**Sums.** What a fold computes would need an induction over sets, and the provers
cannot instantiate one. The proofs in `BackendProofs` state induction about a set
instead: a set of naturals with 0 and every successor is `Nat` (`EveryNumber`, again
from the least element). "There is a function that adds up on every subset of S with n
elements" is then such a set of numbers (`Layer`, `SumsExist`, `SumsAgree`), the order
of the terms does not matter (`InAnyOrder`), and the library's `FoldFunction` and
`MapThenSumSet` are the sums so described (`FoldAddsUp`). `SumOfUpdate` and
`GrowingField` are what the invariants use: a change of one term changes the sum by as
much.

**JobPipeline.** `AtMostOneProviderCall` is not inductive: nothing in it stops two
workers from standing before the call. `SafetyInv` adds why they cannot. A lease
token is that of the last attempt and no two workers share one (`LeaseInv`,
`TokenInv`); the marker precedes every external effect, and a Job with a marker is
never queued again, so its attempt is the last (`MarkerInv`); hence the worker past
the marker belongs to the last attempt, has made no call before "calling" and
exactly one after (`CallInv`). `ResultsBacked` follows the same worker through the
checkpoints. `NoQueuedJobForgotten` needs `DeliveryInv`: an unpublished row counts
as delivery only if no relay is about to checkpoint it, because that relay's
message may already be consumed. For the refinement, `View` lists what one step may
do to the status, marker and call count of a Job; `SafetyInv` excludes the other
combinations (a second marker, a call of a Job that failed or succeeded, a sweep
that requeues a marked Job), and each case of `View` is one step of the contract
under the mapping.

**ProviderResilience.** `UncertainStaysFunded` needs to know what a worker in the
middle of `evaluate_dispatch` may still rely on: the evidence and the reservation it
looked at in earlier steps are as they were, because its claim is exclusive and no
other operation touches a Job that is running without evidence (`DispatchInv`).
`ExecutionInv` adds that an execution leaves evidence, which is what keeps deadlines
and repairs from releasing its money. Permits are counted as the cardinality of
their holders; for probe slots the count is only an upper bound, because
`start_half_open` forgets the probes of the round before (`CountInv`). Conservation of
the balance is proved as the step it consists of: a step moves money between the
balance and the accounts of one Job (`DoubleEntry`). It changes one term of each sum,
by amounts that cancel, which gives the sum over all Jobs; the guards of the
reservation and of the overage keep what is available a natural number, the other half
of `LedgerConserved`.

**Uploads and acceptance.** The order of the cleanup protocol carries the proof: a
cleaner works only on a session that has expired without a Document (`CleanupInv`), and
until expiry nothing a verifier inspected is removed (`InspectedInv`), so the version
bound at the commit is still stored (`DocumentInv`) and stays. A Document is never
withdrawn, so what a client was admitted with still holds when it reaches the arbiter
(`AdmittedInv`); what clients were told is about the one Job row (`ToldInv`); and a row
that is no longer unpublished was sent or ran out of attempts, even if the relay that
checkpoints it has lost its lease (`OutboxInv`).

**WorkerExecution.** `NothingIsStranded` breaks if a worker acknowledges while the Job
still needs a delivery. `StandingInv` says why it does not: a worker at its
acknowledgement found or made the Job something other than queued or running, and
the statuses it saw do not come back.

**HumanControl.** `ClaimsAreCovered` is nearly inductive; the work is in the effect of
`decide_human_control` under each command (`ApplyEffect`): a claimed action keeps its
approval and its capacity, and an unclaimed one that was closed is refused by every
rule that could open it again.

**DurableAgentJobs.** A recovery applies a candidate decided on an older record, so
the invariant keeps what every stored candidate satisfies, whatever it was decided on
(`WorkInv`): no release while the outcome is unknown, and a settlement only of a
reported usage. Versions and generations seen by a worker only grow (`BegunInv`), and
an equal fence then means that both are equal.

**MultiAgentCoordination.** Calls and the states that follow a dispatch are the same
thing (`ChildCallInv`), as are facts and verified handoffs (`FactInv`); a handoff in such a
state is never claimed again, so a second call or fact has nowhere to come from.

**AgentToolLoop.** What is held is the sum of what the applied continuations asked for
(`BudgetInv`), because a candidate that is applied was not applied before: the store
compares the transition's id. The budget a candidate was decided on may be old, but
`apply` tests it again. Only `Prepare` makes a call ready; it compares the bound schema
with the projection in force, which is no wider than the registered schema
(`ProjectionNarrows`), so whatever grants and constraints were when the step was
planned, a ready call fits those of now. With one tool the key of an operation is its
effect, and an effect without an operation did not happen (`EffectInv`).

**McpOperations.** An operation is claimed before it takes effect, and by one call of
the server (`ServerInv`), which is what keeps the tool from running twice. That the
stores tell the truth needs the client's side too. A claim wants a record that is
ready, so every record but the newest was dispatched (`RecordInv`), and one run drives
it (`WorkerInv`). Unless the wire doubled it, a request is the only one of its attempt
and has not executed (`RequestInv`), so a refusal proves that the attempt is gone: it
has not taken effect and never will. Such an attempt stays gone and a claimed operation
without an effect or a call stays dead, so answers and verdicts that were true remain so
(`AnswerInv`, `Verdict`). Evidence is about an attempt nobody drives (`EvidenceInv`),
and a repair is pending only for the newest one and while it is undecided (`RepairInv`),
so `Retry` cannot race it.

**RagIngestion.** `HeadNamesTheActiveVersion` speaks of an operation and "its" version,
which means something only because intake binds operations and versions one to one
(`IntakeInv`). `StoryInv` says what the two records agree on, whichever of them was
written last: publication facts, quarantine, and the attempt that completed the
operation. `HeadInv` keeps the pointer at the one active version. The case that needs
all of them is the commit: an actor carries the guard it read steps before, and expects
only an operation whose parse was dispatched (`ActorInv`); such an operation is not
completed, so its version carries no facts and is not the one the head names, and the
version superseded is another one. A new attempt has a number above every one in the
history (`AttemptInv`), so an attempt given up is never the current one again. For the
refinement the published versions are those of completed operations
(`PublicationInv`): an activation or reactivation adds its own, and every other write
of the store is a registration, a tombstone, or leaves head and published versions as
they are. `RagDocument` has no bound of its own; `RagPublication`, which composes with
it, bounds the revisions TLC explores (`MaxRevision`).

**RagPublication.** A worker reads selection and head one after the other and writes
its snapshot under the store's lock, while both move on. What it read under the lock has
been reached and is behind no snapshot already made (`WorkerInv`), and each snapshot
extends a pointer that was (`SnapshotInv`); so the pointer counts the snapshots of its
chunk set, and they are in the order of the revisions they bind (`ChainInv`). Refresh
intents announce pointers up to the current one (`RefreshInv`), and a consumer compares
with the pointer as it is, so one delivered late does not take it back. For the
refinement the binding's revision is the sum of the head's and the selection's, so every
move of either is a new binding of `RagProvenance`.

**RagEmbedding.** An ALLOW that is cached, carried or made a permit was right at the
revisions it names: there were a membership and a policy of those revisions that grant
it (`Justified`). Revisions only grow, so if they are found equal at a later read, they
were those also at the moment in between (`RevisionsMeet`); time enters the evaluation
through the expiry alone (`GrantsAtAnyTime`); and a past binding is the current one or
gone for ever. Reading the facts one at a time therefore finds what one look at a
single moment would have found, which is what the two properties say.

**RagVectorIndex.** The same for the sealing of a generation: the authority of the
permit, of the moment the method began and of now are in this order (`LeadsTo`), and
the two ends being equal means that so is the middle. The provider's fences grow and
every checkpoint carries one that was taken (`FenceInv`), so a superseded writer fails
the comparison. A bundle an operator has seen is the selected one or an earlier one,
and with an equal revision the same (`BundleInv`); the compare-and-set then loses
nothing.

**RagServing.** While an answer is made the client is busy, nothing else is under way,
and every failure is the answer's own. A failure of a provider ends the request or
leaves its fallback in the record; only FULL and DEGRADED handoffs go on
(`GroundingInv`). FULL is the closing rule of its decision list, so every condition
the code knows to degrade an answer was false.

Only model-checked:

- liveness (`AcceptedSettles`), outside what the prover does;
- `GeneratedIsValid` and `BoundariesAreStructural` of `RagChunks`, `SetsAreWhole` of
  `RagEmbedding`, `ReleasesAreCurrent` and `WholeSearchIsComplete` of `RagServing`:
  each is about what a chain of selections, sorts and folds over sequences returns, and
  the provers have neither the definitions of those operators for sequences of any
  length nor the induction to go through them.

## 8. Limits and what is not modelled

PostgreSQL is taken to provide what the statements ask for (row locks, READ
COMMITTED re-evaluation of guards); SQL isolation below a guarded statement, the
HTTP layer and telemetry are left out. Broker, provider, object store, parser,
embedding and vector providers are external: any answer the code distinguishes.
Counters are bounded by constants named in the modules.

Not modelled: request contracts, composition and mapping (day44 - day47), token and
role checks of one request (day51, day52), structured output (day53), prompt,
routing and provider contracts (day71 - day78), agent security (day86) and framework
adapters (day87, day88) are pure validation or translation of one value. Experiments
and selection evidence compare measurements offline. Observability changes no
state. The migrations and backfill (day48), streaming (day54), browser projects
(day62 - day66), the n8n capstone (day70) and context memory (day84) have state and
were not reached; `PROJECT.json` says for each what
stands in for it. In modelled components the parts left out are: multipart uploads
and result recovery (day49), drain, dead letters and repair classification (day55),
the structured-output repair of day74, inventory pages
and their cursors, message encoding and the recovery journal of MCP, and the
parsing of the three media types of day95.
