---------------------------- MODULE McpOperations ----------------------------
(***************************************************************************)
(* Business operations carried out over MCP (days 93 and 94): workers gate *)
(* and claim a durable dispatch record, send one protocol attempt to       *)
(* McpServer over a wire that loses, duplicates and reorders, and commit   *)
(* the answer; an attempt whose outcome is unknown is reconciled with an   *)
(* authority, and one that provably did not execute may be retried under a *)
(* fresh request id.  The dispatch and reconciliation stores register an   *)
(* operation once, so each attempt has stores of its own: the n-th record  *)
(* of dispatch[op] and of repair[op] belongs to attempt n.                 *)
(***************************************************************************)
EXTENDS McpServer, McpClient, SequencesExt

CONSTANTS Workers,
          Inputs,                \* what a run is given beside the durable record (McpAdmission)
          Contexts,              \* RetryContext and RetryDispatchContext
          MaxQueries,            \* maximum_queries of a reconciliation schedule
          MaxDisturbances        \* bound on what the surroundings do to a behaviour

\* The binding of a request key (McpClient): its attempt, its status, the answer seen.
Link == [op : Ops, n : Nat \ {0}, consumed : BOOLEAN,
         status : {None, "PENDING", "PENDING_RECONCILIATION", "ABORTED_PRE_DISPATCH", "COMPLETED", "CONFLICT"},
         seen : {None} \cup ({"RESULT", "ERROR", "FOREIGN"} \X (Nat \cup {None}))]

\* None is neither a binding nor a state, and no intermediary passes for the server.
ASSUME OperationsAssumption ==
    /\ None \notin Link
    /\ None \notin {"IN_FLIGHT", "PENDING_RECONCILIATION", "COMPLETED", "SUCCEEDED", "FAILED", "NOT_EXECUTED",
                    "POSSIBLE_EXECUTION"}
    /\ ServerIdentity # "intermediary"
    /\ MaxGenerations \in Nat \ {0}

VARIABLES dispatch,              \* InMemoryRetryDispatchStore, by operation and attempt
          repair,                \* InMemoryReconciliationStore and the schedule, likewise
          evidence,              \* the latest FailureEvidence of an operation
          worker,                \* AgentMCPOrchestrator.run in progress, or None
          proposals,             \* resolved reconciliation decisions not yet committed
          duplicated,            \* attempts whose request the wire has doubled
          disturbances           \* how often the surroundings have interfered

storeVars == <<dispatch, repair, evidence, proposals>>
opVars == <<dispatch, repair, evidence, worker, proposals, duplicated>>
vars == <<requests, answers, serverVars, clientVars, opVars, disturbances>>

-----------------------------------------------------------------------------
\* add_ready_operation and add_retryable.
ReadyRecord == [state |-> "READY_FOR_DISPATCH", version |-> 1, attempt |-> 0, id |-> None,
                fence |-> 0, gen |-> None, object |-> None]
RetryableRecord(e) == [ReadyRecord EXCEPT !.state = "READY_FOR_RETRY", !.attempt = e.n, !.id = e.id]
NoRepair == [state |-> None, version |-> 0, outcome |-> None, object |-> None, queries |-> 0, alerted |-> FALSE]

Init == /\ ServerInit /\ ClientInit
        /\ dispatch = [o \in Ops |-> <<ReadyRecord>>]
        /\ repair = [o \in Ops |-> <<NoRepair>>]
        /\ evidence = [o \in Ops |-> None]
        /\ worker = [w \in Workers |-> None]
        /\ proposals = {} /\ duplicated = {} /\ disturbances = {}

Rest(w) == worker' = [worker EXCEPT ![w] = None]
Go(w, pc) == worker' = [worker EXCEPT ![w].pc = pc]
Learn(op, e) == evidence' = [evidence EXCEPT ![op] = e]

-----------------------------------------------------------------------------
\* A run for the newest record, an attempt under a request id the record does not hold
\* (plan_retry_attempt, CapstoneRetryAttemptFactory.prepare) in the current generation.
Run(op, id, fenced) ==
    LET n == Len(dispatch[op])
    IN  [pc |-> "gated", op |-> op, n |-> n, id |-> id, gen |-> generation,
         record |-> dispatch[op][n], fenced |-> fenced, permit |-> None, object |-> None]

\* AgentMCPOrchestrator.run up to the claim.  The caller's expected reading of the record and the
\* attempt's generation may be older than the current ones.
GateOutcome(in, record) ==
    FirstMatch(<< <<BindProposal(in) # "ACCEPTED_FOR_GOVERNANCE", "PROPOSAL_BLOCKED">>,
                  <<PrepareAuthorization(in) # "READY_FOR_CURRENT_AUTHORIZATION", "IDENTITY_BLOCKED">>,
                  <<ComposeAccess(in) # "READY_FOR_PREFLIGHT", "ACCESS_BLOCKED">>,
                  <<TRUE, Preflight(in, [record EXCEPT !.version = @ - in.expectedAge], record,
                                    generation - in.attemptAge, generation)>> >>)
Gate(w, op) ==
    LET record == Last(dispatch[op])
    IN  /\ worker[w] = None
        /\ record.state \in {"READY_FOR_DISPATCH", "READY_FOR_RETRY"}
        /\ \E in \in Inputs : GateOutcome(in, record) = "READY_FOR_DISPATCH_CLAIM"
        /\ \E id \in RequestIds \ {record.id} : worker' = [worker EXCEPT ![w] = Run(op, id, TRUE)]
        /\ UNCHANGED <<requests, answers, serverVars, clientVars, storeVars, duplicated>>

\* The retry path of day 93 has its own admission and claims without a fence.
GateRetry(w, op) ==
    LET record == Last(dispatch[op])
    IN  /\ worker[w] = None /\ record.state = "READY_FOR_RETRY"
        /\ \E ctx \in Contexts : AdmitRetryDispatch(ctx) = "ADMITTED"
        /\ \E id \in RequestIds \ {record.id} : worker' = [worker EXCEPT ![w] = Run(op, id, FALSE)]
        /\ UNCHANGED <<requests, answers, serverVars, clientVars, storeVars, duplicated>>

\* claim_dispatch, for CapstoneDispatchClaimer.claim and for a day 93 retry.
ClaimOutcome(run, current) ==
    FirstMatch(<< <<current.state # run.record.state, "STATE_CONFLICT">>,
                  <<current.version # run.record.version, "VERSION_CONFLICT">>,
                  <<run.fenced /\ current.fence # run.record.fence, "FENCE_CONFLICT">>,
                  <<run.n # current.attempt + 1, "ATTEMPT_SEQUENCE_CONFLICT">>,
                  <<TRUE, "CLAIMED">> >>)
Started(run, current) ==
    [current EXCEPT !.state = "DISPATCH_STARTED", !.version = @ + 1, !.attempt = run.n, !.id = run.id,
                    !.fence = IF run.fenced THEN @ + 1 ELSE @, !.gen = run.gen]
ClaimDispatch(w) ==
    /\ worker[w] # None /\ worker[w].pc = "gated"
    /\ LET run == worker[w] current == dispatch[run.op][run.n]
       IN  IF ClaimOutcome(run, current) = "CLAIMED"
           THEN /\ dispatch' = [dispatch EXCEPT ![run.op][run.n] = Started(run, current)]
                /\ worker' = [worker EXCEPT ![w].pc = "claimed", ![w].record = Started(run, current)]
           ELSE Rest(w) /\ UNCHANGED dispatch
    /\ UNCHANGED <<requests, answers, serverVars, clientVars, repair, evidence, proposals, duplicated>>

-----------------------------------------------------------------------------
\* The transport: a permit, the binding of the request key, then the exchange, which wants the
\* permit still current.  What it raises leaves the record DISPATCH_STARTED.
BindAttempt(w) ==
    /\ worker[w] # None /\ worker[w].pc = "claimed"
    /\ LET run == worker[w]
       IN  IF PermitIssued /\ MayBind(KeyOf(run))
           THEN /\ links' = [links EXCEPT ![KeyOf(run)] = Binding(run.op, run.n)]
                /\ worker' = [worker EXCEPT ![w].pc = "bound", ![w].permit = inventory.gen]
           ELSE Rest(w) /\ UNCHANGED links
    /\ UNCHANGED <<requests, answers, serverVars, generation, inventory, storeVars, duplicated>>

Request(run) == [op |-> run.op, n |-> run.n, gen |-> run.gen, id |-> run.id, copy |-> FALSE]
SendRequest(w) ==
    /\ worker[w].pc = "bound" /\ PermitIsCurrent(worker[w].permit)
    /\ requests' = requests \cup {Request(worker[w])}
    /\ Go(w, "sent")
    /\ UNCHANGED <<links, evidence>>
StalePermit(w) ==
    /\ worker[w].pc = "bound" /\ ~PermitIsCurrent(worker[w].permit)
    /\ links' = [links EXCEPT ![KeyOf(worker[w])] = Abort(@)]
    /\ Rest(w)
    /\ UNCHANGED <<requests, evidence>>
Exchange(w) ==
    /\ worker[w] # None
    /\ SendRequest(w) \/ StalePermit(w)
    /\ UNCHANGED <<answers, serverVars, generation, inventory, dispatch, repair, proposals, duplicated>>

\* MCPTransportFailure, TimeoutBeforeSend: the bytes provably did not leave.
FailToSend(w) ==
    /\ worker[w].pc = "bound" /\ PermitIsCurrent(worker[w].permit)
    /\ links' = [links EXCEPT ![KeyOf(worker[w])] = Popped(@)]
    /\ Learn(worker[w].op, Evidence(worker[w].n, worker[w].id, "SEND_FAILURE",
                                    "PROVEN_NOT_SENT", "PROVEN_NOT_EXECUTED"))
\* READ_TIMEOUT and CONNECTION_LOST of the exchange; the adapter's CapstoneUnknownTransportOutcome.
TimeOut(w) ==
    /\ worker[w].pc = "sent"
    /\ links' = [links EXCEPT ![KeyOf(worker[w])] = OutcomeUnknown(@)]
    /\ Learn(worker[w].op, Evidence(worker[w].n, worker[w].id, "READ_TIMEOUT",
                                    "POSSIBLY_SENT", "POSSIBLY_EXECUTED"))
\* The caller cancels before or after the request may have left.
Cancel(w) ==
    /\ worker[w].pc \in {"bound", "sent"}
    /\ LET sent == worker[w].pc = "sent" k == KeyOf(worker[w])
       IN  /\ links' = [links EXCEPT ![k] = IF sent THEN OutcomeUnknown(@) ELSE Abort(@)]
           /\ Learn(worker[w].op, Cancellation(worker[w].n, worker[w].id,
                                    IF sent THEN "POSSIBLY_SENT" ELSE "PROVEN_NOT_SENT"))
BreakOff(w) ==
    /\ worker[w] # None
    /\ FailToSend(w) \/ TimeOut(w) \/ Cancel(w)
    /\ Rest(w)
    /\ UNCHANGED <<requests, answers, serverVars, generation, inventory, dispatch, repair, proposals, duplicated>>

\* The process dies, or shuts down gracefully (preserve_unknown): the durable marker stays.
Stop(w) ==
    /\ worker[w] # None
    /\ Rest(w)
    /\ UNCHANGED <<requests, answers, serverVars, clientVars, storeVars, duplicated>>

-----------------------------------------------------------------------------
\* CapstoneCandidatePipeline.evaluate over an answer's correlation and observation.
IsCandidate(a, k, run) ==
    /\ CorrelateResponse(k) = "MATCHED"
    /\ links[k].op = run.op /\ links[k].n = run.n
    /\ Correlate(links[k], a) = "PROTOCOL_RESULT"
    /\ a.content # None

Awaits(w, a) == worker[w] # None /\ worker[w].pc = "sent" /\ KeyOf(worker[w]) = KeyOf(a)

\* The awaited answer: a refusal is translated to evidence when it is matched, any other answer
\* is a candidate or blocks the run.
Receive(w, a) ==
    /\ Awaits(w, a)
    /\ answers' = answers \ {a}
    /\ links' = AfterAnswer(a)
    /\ LET run == worker[w] k == KeyOf(a)
       IN  IF IsCandidate(a, k, run)
           THEN worker' = [worker EXCEPT ![w].pc = "proposed", ![w].object = a.content] /\ UNCHANGED evidence
           ELSE /\ Rest(w)
                /\ IF a.kind = "HTTP" /\ CorrelateResponse(k) = "MATCHED"
                   THEN Learn(run.op, Translate(a, links[k])) ELSE UNCHANGED evidence
    /\ UNCHANGED <<requests, serverVars, generation, inventory, dispatch, repair, proposals, duplicated>>

\* CapstoneCommitter.commit and compare_and_set_completed.  ALREADY_COMMITTED and every
\* conflict change nothing.
Commits(run, current) ==
    /\ current.attempt = run.n /\ current.id = run.id /\ current.gen = run.gen
    /\ current.state = "DISPATCH_STARTED"
    /\ current.version = run.record.version /\ current.fence = run.record.fence
Completed(run, current) == [current EXCEPT !.state = "COMPLETED", !.version = @ + 1, !.object = run.object]
Commit(w) ==
    /\ worker[w] # None /\ worker[w].pc = "proposed"
    /\ LET run == worker[w] current == dispatch[run.op][run.n]
       IN  dispatch' = IF Commits(run, current)
                       THEN [dispatch EXCEPT ![run.op][run.n] = Completed(run, current)] ELSE dispatch
    /\ Rest(w)
    /\ UNCHANGED <<requests, answers, serverVars, clientVars, repair, evidence, proposals, duplicated>>

-----------------------------------------------------------------------------
\* CapstoneRecoveryCoordinator.plan on a restart, and add_pending: a started dispatch that no
\* run of this process drives lost its owner.
Recover(op) ==
    LET n == Len(dispatch[op]) record == dispatch[op][n]
    IN  /\ record.state = "DISPATCH_STARTED" /\ repair[op][n].state = None
        /\ \A w \in Workers : worker[w] # None => (worker[w].op # op \/ worker[w].pc = "gated")
        /\ Learn(op, Evidence(n, record.id, "DISPATCH_OWNER_LOST", "POSSIBLY_SENT", "POSSIBLY_EXECUTED"))
        /\ repair' = [repair EXCEPT ![op][n].state = "PENDING_RECONCILIATION", ![op][n].version = 1]
        /\ UNCHANGED <<requests, answers, serverVars, clientVars, dispatch, worker, proposals, duplicated>>

\* external: what the status authority may answer.  NOT_EXECUTED and FAILED are final; it may
\* not have seen an effect yet, and may answer for another binding.
MayRun(op) == \/ \E m \in requests : m.op = op
              \/ \E c \in calls : c.m.op = op
AuthorityAnswers(op) ==
    {"NOT_FOUND", "UNKNOWN", "OTHER_BINDING"}
    \cup (IF effects[op] # <<>> THEN {"SUCCEEDED"} ELSE {})
    \cup (IF effects[op] = <<>> /\ ~MayRun(op)
          THEN {IF registry[op] = None THEN "NOT_EXECUTED" ELSE "FAILED"} ELSE {})

\* ReconciliationScheduler.reconcile_once.
NotFoundIsProof(e, status) ==
    FirstMatch(<< <<e.executed = "PROVEN_NOT_EXECUTED", "NOT_REQUIRED">>,
                  <<status = "OTHER_BINDING", "EVIDENCE_CONFLICT">>,
                  <<status \in {"SUCCEEDED", "FAILED", "NOT_EXECUTED"}, status>>,
                  <<status = "NOT_FOUND", "NOT_EXECUTED">>,
                  <<TRUE, "STILL_PENDING">> >>)
ReconcileOnce(e, status) ==
    FirstMatch(<< <<e.executed = "PROVEN_NOT_EXECUTED", "NOT_REQUIRED">>,
                  <<status = "OTHER_BINDING", "EVIDENCE_CONFLICT">>,
                  <<status \in {"SUCCEEDED", "FAILED", "NOT_EXECUTED"}, status>>,
                  <<TRUE, "STILL_PENDING">> >>)
\* BoundedReconciliationPolicy.advance; late: the next query would miss the deadline.
Scheduled(r, decision, late) ==
    IF decision \in {"SUCCEEDED", "FAILED", "NOT_EXECUTED"} \/ r.alerted THEN r
    ELSE [r EXCEPT !.queries = @ + 1,
                   !.alerted = r.queries + 1 >= MaxQueries \/ late \/ decision = "EVIDENCE_CONFLICT"]

Proposal(op, n, outcome, object) ==
    [op |-> op, n |-> n, outcome |-> outcome, object |-> object, version |-> repair[op][n].version]
\* CapstoneReconciliationCycle.run_once.
Observe(op, n) ==
    /\ repair[op][n].state = "PENDING_RECONCILIATION" /\ evidence[op] # None /\ evidence[op].n = n
    /\ \E status \in AuthorityAnswers(op), late \in BOOLEAN :
         LET decision == ReconcileOnce(evidence[op], status)
         IN  /\ repair' = [repair EXCEPT ![op][n] = Scheduled(repair[op][n], decision, late)]
             /\ proposals' = IF decision \in {"SUCCEEDED", "FAILED", "NOT_EXECUTED"}
                             THEN proposals \cup {Proposal(op, n, decision,
                                     IF decision = "SUCCEEDED" THEN effects[op][1] ELSE None)}
                             ELSE proposals
    /\ UNCHANGED <<requests, answers, serverVars, clientVars, dispatch, evidence, worker, duplicated>>

\* validate_late_success: an answer nobody awaits is evidence for the pending repair.
LateAnswer(a) ==
    /\ a \in answers /\ \A w \in Workers : ~Awaits(w, a)
    /\ answers' = answers \ {a}
    /\ links' = AfterAnswer(a)
    /\ LET k == KeyOf(a) link == links[k]
           late == /\ link # None /\ IsCandidate(a, k, link)
                   /\ repair[link.op][link.n].state = "PENDING_RECONCILIATION"
       IN  proposals' = IF late THEN proposals \cup {Proposal(link.op, link.n, "SUCCEEDED", a.content)}
                        ELSE proposals
    /\ UNCHANGED <<requests, serverVars, generation, inventory, dispatch, repair, evidence, worker, duplicated>>

\* ReconciliationCommitter.commit and its compare-and-set; a committed NOT_EXECUTED becomes
\* retry evidence (authoritative_not_executed_evidence).
Repaired(p, r) ==
    [r EXCEPT !.state = "COMPLETED", !.version = @ + 1, !.outcome = p.outcome, !.object = p.object]
CommitReconciliation(p) ==
    LET r == repair[p.op][p.n]
        wins == r.state = "PENDING_RECONCILIATION" /\ r.version = p.version
        e == evidence[p.op]
    IN  /\ p \in proposals
        /\ proposals' = proposals \ {p}
        /\ repair' = IF wins THEN [repair EXCEPT ![p.op][p.n] = Repaired(p, r)] ELSE repair
        /\ IF wins /\ p.outcome = "NOT_EXECUTED"
           THEN Learn(p.op, Evidence(e.n, e.id, "AUTHORITATIVE_NOT_EXECUTED", e.sent, "PROVEN_NOT_EXECUTED"))
           ELSE UNCHANGED evidence
        /\ UNCHANGED <<requests, answers, serverVars, clientVars, dispatch, worker, duplicated>>

\* BoundedRetryPolicy.decide and add_retryable.
Retry(op) ==
    LET n == Len(dispatch[op])
    IN  /\ evidence[op] # None /\ evidence[op].n = n
        /\ \E ctx \in Contexts : Decide(evidence[op], ctx, n - 1) = "ELIGIBLE"
        /\ dispatch' = [dispatch EXCEPT ![op] = Append(@, RetryableRecord(evidence[op]))]
        /\ repair' = [repair EXCEPT ![op] = Append(@, NoRepair)]
        /\ UNCHANGED <<requests, answers, serverVars, clientVars, evidence, worker, proposals, duplicated>>

-----------------------------------------------------------------------------
\* external: the wire.  A lost request, a request doubled by a retrying hop, and an answer an
\* intermediary or a confused peer makes up.  A lost answer is one that is never received.
Lose(m) ==
    /\ m \in requests /\ requests' = requests \ {m}
    /\ UNCHANGED <<answers, serverVars, clientVars, opVars>>
Duplicate(m) ==
    /\ m \in requests /\ <<m.op, m.n>> \notin duplicated
    /\ requests' = requests \cup {[m EXCEPT !.copy = TRUE]}
    /\ duplicated' = duplicated \cup {<<m.op, m.n>>}
    /\ UNCHANGED <<answers, serverVars, clientVars, dispatch, repair, evidence, worker, proposals>>
MakeUp(m) ==
    /\ m \in requests /\ ~m.copy
    /\ answers' \in {answers \cup {[Answer(m, "HTTP", "CAPACITY_REJECTED") EXCEPT !.from = "intermediary"]},
                     answers \cup {Answer(m, "FOREIGN", None)}}
    /\ UNCHANGED <<requests, serverVars, clientVars, opVars>>

ServerActs == ServerStep /\ UNCHANGED <<clientVars, opVars>>
Reconnect == BeginGeneration /\ UNCHANGED <<requests, answers, serverVars, opVars>>

Alone(w) == \A v \in Workers \ {w} : worker[v] = None

\* What may happen to a run from outside: each kind once, and at most MaxDisturbances kinds.
WireFails == \E m \in requests : Lose(m) \/ Duplicate(m) \/ MakeUp(m)
RunFails == \E w \in Workers : Stop(w) \/ BreakOff(w)
OthersAct == \/ \E w \in Workers, op \in Ops : ~Alone(w) /\ (Gate(w, op) \/ GateRetry(w, op))
             \/ Reconnect
             \/ NoteToolsListChanged /\ UNCHANGED <<requests, answers, serverVars, opVars>>
             \/ (StartRead \/ BeginShutdown) /\ UNCHANGED <<clientVars, opVars>>
Disturb ==
    \E kind \in {"wire", "run", "others"} \ disturbances :
        /\ Cardinality(disturbances) < MaxDisturbances
        /\ disturbances' = disturbances \cup {kind}
        /\ CASE kind = "wire" -> WireFails [] kind = "run" -> RunFails [] OTHER -> OthersAct

Work ==
    \/ \E w \in Workers : \/ \E op \in Ops : Alone(w) /\ (Gate(w, op) \/ GateRetry(w, op))
                          \/ ClaimDispatch(w) \/ BindAttempt(w)
                          \/ Exchange(w) \/ Commit(w)
                          \/ \E a \in answers : Receive(w, a)
    \/ \E op \in Ops : \/ Recover(op) \/ Retry(op)
                       \/ \E n \in DOMAIN repair[op] : Observe(op, n)
    \/ \E a \in answers : LateAnswer(a)
    \/ \E p \in proposals : CommitReconciliation(p)
    \/ RefreshToolInventory /\ UNCHANGED <<requests, answers, serverVars, opVars>>
    \/ ServerActs

Next == Disturb \/ (Work /\ UNCHANGED disturbances)

Spec == Init /\ [][Next]_vars

-----------------------------------------------------------------------------
\* The controlled service takes effect at most once for an operation, however often its request
\* is doubled by the wire or retried by a worker (InMemoryOperationRegistry.try_claim,
\* BoundedRetryPolicy, plan_retry_attempt).
ToolRunsAtMostOnce == \A op \in Ops : Len(effects[op]) <= 1

\* What the durable stores say happened is what happened: a completed dispatch names the object
\* of its own attempt, a repair that says SUCCEEDED names the effect and one that says FAILED has
\* none, and an attempt said not to have executed did not, unless the wire doubled its request
\* after the refusal (CapstoneCommitter, ReconciliationCommitter, validate_late_success,
\* ApplicationRemoteFailureAdapter.translate).
Took(op, n) == \E i \in DOMAIN effects[op] : effects[op][i] = n
CompletedIsTrue(op, n) ==
    dispatch[op][n].state = "COMPLETED" => dispatch[op][n].object = n /\ Took(op, n)
RepairIsTrue(op, n) ==
    LET r == repair[op][n]
    IN  /\ r.outcome = "SUCCEEDED" => Took(op, r.object)
        /\ r.outcome = "FAILED" => effects[op] = <<>>
        /\ r.outcome = "NOT_EXECUTED" => ~Took(op, n)
EvidenceIsTrue(op) ==
    LET e == evidence[op]
    IN  (e # None /\ e.executed = "PROVEN_NOT_EXECUTED" /\ <<op, e.n>> \notin duplicated) => ~Took(op, e.n)
FactsMatchTheEffect ==
    \A op \in Ops : /\ EvidenceIsTrue(op)
                    /\ \A n \in DOMAIN dispatch[op] : CompletedIsTrue(op, n) /\ RepairIsTrue(op, n)
=============================================================================
