----------------------------- MODULE JobPipeline -----------------------------
(***************************************************************************)
(* The durable job pipeline of ai-backend-data-layer (day59 acceptance,    *)
(* day60 relay, worker claim, recovery sweep and repair, day61 external    *)
(* operation).  PostgreSQL, the Celery broker, the provider and the object *)
(* store are shared; API processes, relays, workers, the sweeper and the   *)
(* repair operator run concurrently and may crash or stall at any step.    *)
(*                                                                         *)
(* Every committed SQL transaction is one step, taken where its guarded    *)
(* statement runs.  A process that reads in one transaction and acts in    *)
(* another, or outside any transaction, does so in separate steps.         *)
(***************************************************************************)
EXTENDS Integers, FiniteSets

CONSTANTS
    Jobs,          \* (tenant_id, idempotency_key) pairs, one Job row each
    Fingerprints,  \* request fingerprints: the logical commands a key may carry
    Relays,        \* relay processes
    Workers,       \* Celery worker processes
    None,          \* SQL NULL
    SweepLimit,    \* rows one sweep may take (LIMIT :lim)
    MaxFaults,     \* bound: crashes, stalls, redeliveries and task errors
    AckLate,       \* task_acks_late with task_reject_on_worker_lost
    TaskErrors     \* whether a task may raise before its claim commits

ASSUME NoneAssumption == None \notin Fingerprints \cup Relays
ASSUME BoundsAssumption == /\ SweepLimit \in Nat \ {0}
                           /\ MaxFaults \in Nat
ASSUME ConfigAssumption == AckLate \in BOOLEAN /\ TaskErrors \in BOOLEAN

VARIABLES
    status,       \* jobs.job_status, "absent" before the row exists
    fingerprint,  \* jobs.request_fingerprint
    lease,        \* "none" | "held" | "expired": lease_expires_at against now
    token,        \* jobs.lease_token, named by the attempt it was issued with
    marker,       \* jobs.provider_dispatch_started_at IS NOT NULL
    attempt,      \* max(job_attempts.attempt_number), 0 when there is none
    requestId,    \* attempts whose provider_request_id is set
    finished,     \* attempts whose finished_at is set
    artifacts,    \* attempts with a result_artifacts row
    rows,         \* number of outbox_events rows; row 1 is the dispatch intent
    published,    \* rows whose published_at is set
    claimed,      \* rows whose relay_claim_expiry lies in the future
    rowToken,     \* <<j, i, r>>: row i of j holds the relay_token drawn by r
    repaired,     \* Jobs with a job_repair_history row
    broker,       \* number of deliverable messages per Job
    calls,        \* provider HTTP requests sent for each Job
    objects,      \* attempts whose result object is verified in the store
    relayPc, relayJob, relayRow,         \* relay processes and the row they claimed
    workerPc, workerJob, workerToken,    \* worker processes and their attempt
    accepted,     \* fingerprints answered 202 (what clients were told)
    faults        \* faults so far, at most MaxFaults

jobVars      == <<status, lease, token, marker, attempt>>
evidenceVars == <<requestId, finished, artifacts, calls, objects>>
clientVars   == <<fingerprint, accepted>>
outboxVars   == <<rows, published, claimed, rowToken, repaired>>
relayVars    == <<relayPc, relayJob, relayRow>>
workerVars   == <<workerPc, workerJob, workerToken>>
vars == <<jobVars, evidenceVars, clientVars, outboxVars, broker, relayVars, workerVars,
          faults>>

Settled  == {"succeeded", "failed", "pending_reconciliation"}
Statuses == {"absent", "queued", "running"} \cup Settled

\* Worker states after its claim committed, and those that will call the provider
\* or already did.
PostCall == {"answered", "persisting", "storing", "completing", "reconciling", "failing"}
Claimed  == {"claimed", "calling"} \cup PostCall

JobsOK ==
    /\ status \in [Jobs -> Statuses]
    /\ lease \in [Jobs -> {"none", "held", "expired"}]
    /\ token \in [Jobs -> Nat]
    /\ marker \in [Jobs -> BOOLEAN]
    /\ attempt \in [Jobs -> Nat]
    /\ fingerprint \in [Jobs -> Fingerprints \cup {None}]
    /\ accepted \in [Jobs -> SUBSET Fingerprints]

EvidenceOK ==
    /\ requestId \in [Jobs -> SUBSET Nat]
    /\ finished \in [Jobs -> SUBSET Nat]
    /\ artifacts \in [Jobs -> SUBSET Nat]
    /\ objects \in [Jobs -> SUBSET Nat]
    /\ calls \in [Jobs -> Nat]

DeliveryOK ==
    /\ rows \in [Jobs -> Nat]
    /\ published \in [Jobs -> SUBSET Nat]
    /\ claimed \in [Jobs -> SUBSET Nat]
    /\ rowToken \in SUBSET (Jobs \X Nat \X Relays)
    /\ repaired \in SUBSET Jobs
    /\ broker \in [Jobs -> Nat]
    /\ relayPc \in [Relays -> {"idle", "publishing", "checkpointing"}]
    /\ relayJob \in [Relays -> Jobs \cup {None}]
    /\ relayRow \in [Relays -> Nat]
    /\ \A r \in Relays : relayPc[r] # "idle" =>
          relayJob[r] \in Jobs /\ relayRow[r] \in 1 .. rows[relayJob[r]]

RowsOK == \A j \in Jobs : published[j] \subseteq 1 .. rows[j]

WorkersOK ==
    /\ workerPc \in [Workers -> {"idle", "received"} \cup Claimed]
    /\ workerJob \in [Workers -> Jobs \cup {None}]
    /\ workerToken \in [Workers -> Nat]
    /\ \A w \in Workers : workerPc[w] # "idle" => workerJob[w] \in Jobs
    /\ faults \in 0..MaxFaults

TypeOK == JobsOK /\ EvidenceOK /\ DeliveryOK /\ RowsOK /\ WorkersOK

Init ==
    /\ status = [j \in Jobs |-> "absent"]
    /\ lease = [j \in Jobs |-> "none"]
    /\ token = [j \in Jobs |-> 0]
    /\ marker = [j \in Jobs |-> FALSE]
    /\ attempt = [j \in Jobs |-> 0]
    /\ fingerprint = [j \in Jobs |-> None]
    /\ accepted = [j \in Jobs |-> {}]
    /\ requestId = [j \in Jobs |-> {}]
    /\ finished = [j \in Jobs |-> {}]
    /\ artifacts = [j \in Jobs |-> {}]
    /\ objects = [j \in Jobs |-> {}]
    /\ calls = [j \in Jobs |-> 0]
    /\ rows = [j \in Jobs |-> 0]
    /\ published = [j \in Jobs |-> {}]
    /\ claimed = [j \in Jobs |-> {}]
    /\ rowToken = {}
    /\ repaired = {}
    /\ broker = [j \in Jobs |-> 0]
    /\ relayPc = [r \in Relays |-> "idle"]
    /\ relayJob = [r \in Relays |-> None]
    /\ relayRow = [r \in Relays |-> 0]
    /\ workerPc = [w \in Workers |-> "idle"]
    /\ workerJob = [w \in Workers |-> None]
    /\ workerToken = [w \in Workers |-> 0]
    /\ faults = 0

Fault == faults < MaxFaults /\ faults' = faults + 1

-----------------------------------------------------------------------------
(***************************************************************************)
(* API: accept_job.                                                        *)
(***************************************************************************)

\* existing is None when no Job row has the key.
classify_idempotency(existing, incoming) ==
    CASE existing = None     -> "accept_new"
      [] existing = incoming -> "return_original"
      [] OTHER               -> "conflict_409"

\* One transaction: INSERT ... ON CONFLICT DO NOTHING under the unique key, then
\* either the replay of the committed Job or the fresh Job with its one dispatch
\* intent.  A 409, and a 422 for documents that are not verified, roll back.
accept_job(j, f, documentsVerified) ==
    LET decision == classify_idempotency(fingerprint[j], f) IN
    /\ \/ /\ decision = "return_original"
          /\ UNCHANGED <<status, fingerprint, rows>>
       \/ /\ decision = "accept_new" /\ documentsVerified
          /\ status' = [status EXCEPT ![j] = "queued"]
          /\ fingerprint' = [fingerprint EXCEPT ![j] = f]
          /\ rows' = [rows EXCEPT ![j] = @ + 1]
    /\ accepted' = [accepted EXCEPT ![j] = @ \cup {f}]
    /\ UNCHANGED <<lease, token, marker, attempt, evidenceVars, published, claimed,
                   rowToken,
                   repaired, broker, relayVars, workerVars, faults>>

-----------------------------------------------------------------------------
(***************************************************************************)
(* Relay: OutboxRelay.deliver_batch is claim, publish, checkpoint.         *)
(***************************************************************************)

Unpublished(j) == (1 .. rows[j]) \ published[j]

RelayIdles(r) == /\ relayPc' = [relayPc EXCEPT ![r] = "idle"]
                 /\ relayJob' = [relayJob EXCEPT ![r] = None]
                 /\ relayRow' = [relayRow EXCEPT ![r] = 0]

\* _claim_one: any unpublished row whose claim is absent or expired.  SKIP LOCKED
\* and created_at (the writer's clock) leave the choice among them open.  A relay
\* works on one claim at a time, so its name stands for the fresh relay_token.
RelayClaim(r, j, i) ==
    /\ relayPc[r] = "idle"
    /\ i \in Unpublished(j) \ claimed[j]
    /\ claimed' = [claimed EXCEPT ![j] = @ \cup {i}]
    /\ rowToken' = {t \in rowToken : t[1] # j \/ t[2] # i} \cup {<<j, i, r>>}
    /\ relayPc' = [relayPc EXCEPT ![r] = "publishing"]
    /\ relayJob' = [relayJob EXCEPT ![r] = j]
    /\ relayRow' = [relayRow EXCEPT ![r] = i]
    /\ UNCHANGED <<jobVars, evidenceVars, clientVars, rows, published, repaired, broker,
                   workerVars, faults>>

\* The injected publish, outside any database lock.
RelayPublish(r) ==
    /\ relayPc[r] = "publishing"
    /\ broker' = [broker EXCEPT ![relayJob[r]] = @ + 1]
    /\ relayPc' = [relayPc EXCEPT ![r] = "checkpointing"]
    /\ UNCHANGED <<jobVars, evidenceVars, clientVars, outboxVars, relayJob, relayRow,
                   workerVars, faults>>

\* _checkpoint: fenced by the relay token, so a relay whose claim was taken over
\* changes no row.
RelayCheckpoint(r) ==
    /\ relayPc[r] = "checkpointing"
    /\ published' = IF <<relayJob[r], relayRow[r], r>> \in rowToken
                    THEN [published EXCEPT ![relayJob[r]] = @ \cup {relayRow[r]}]
                    ELSE published
    /\ RelayIdles(r)
    /\ UNCHANGED <<jobVars, evidenceVars, clientVars, rows, claimed, rowToken, repaired,
                   broker, workerVars, faults>>

\* The process dies, or publish raises and main() ends: the claim stays in the row.
RelayCrash(r) ==
    /\ relayPc[r] # "idle" /\ Fault
    /\ RelayIdles(r)
    /\ UNCHANGED <<jobVars, evidenceVars, clientVars, outboxVars, broker, workerVars>>

ClaimInUse(j, i) == \E r \in Relays : /\ relayPc[r] # "idle"
                                      /\ relayJob[r] = j /\ relayRow[r] = i
                                      /\ <<j, i, r>> \in rowToken

\* RELAY_CLAIM_SECONDS pass; under a relay that is still working this is a stall.
RelayClaimExpires(j, i) ==
    /\ i \in claimed[j] \cap Unpublished(j)
    /\ IF ClaimInUse(j, i) THEN Fault ELSE UNCHANGED faults
    /\ claimed' = [claimed EXCEPT ![j] = @ \ {i}]
    /\ UNCHANGED <<jobVars, evidenceVars, clientVars, rows, published, rowToken, repaired,
                   broker, relayVars, workerVars>>

-----------------------------------------------------------------------------
(***************************************************************************)
(* Worker: delivery, then run_authoritative_attempt.                       *)
(***************************************************************************)

WorkerGoes(w, pc) == /\ workerPc' = [workerPc EXCEPT ![w] = pc]
                     /\ UNCHANGED <<workerJob, workerToken>>
WorkerDone(w) == /\ workerPc' = [workerPc EXCEPT ![w] = "idle"]
                 /\ workerJob' = [workerJob EXCEPT ![w] = None]
                 /\ workerToken' = [workerToken EXCEPT ![w] = 0]

\* The guard of every state-changing statement of day61.
can_act_under_lease(j, n) == status[j] = "running" /\ token[j] = n

\* With late acknowledgement the message stays unacknowledged until the task ends.
WorkerReceive(w, j) ==
    /\ workerPc[w] = "idle" /\ broker[j] > 0
    /\ broker' = [broker EXCEPT ![j] = @ - 1]
    /\ workerPc' = [workerPc EXCEPT ![w] = "received"]
    /\ workerJob' = [workerJob EXCEPT ![w] = j]
    /\ UNCHANGED <<jobVars, evidenceVars, clientVars, outboxVars, relayVars,
                   workerToken, faults>>

\* The broker's visibility timeout hands an unacknowledged message out again.
BrokerRedelivers(w) ==
    /\ AckLate /\ workerPc[w] # "idle" /\ Fault
    /\ broker' = [broker EXCEPT ![workerJob[w]] = @ + 1]
    /\ UNCHANGED <<jobVars, evidenceVars, clientVars, outboxVars, relayVars, workerVars>>

\* The guarded queued -> running claim with lease, attempt and event.
claim_and_start_attempt(w) ==
    LET j == workerJob[w] IN
    /\ workerPc[w] = "received"
    /\ \/ /\ status[j] = "queued"
          /\ status' = [status EXCEPT ![j] = "running"]
          /\ lease' = [lease EXCEPT ![j] = "held"]
          /\ attempt' = [attempt EXCEPT ![j] = @ + 1]
          /\ token' = [token EXCEPT ![j] = attempt[j] + 1]
          /\ workerPc' = [workerPc EXCEPT ![w] = "claimed"]
          /\ workerToken' = [workerToken EXCEPT ![w] = attempt[j] + 1]
          /\ UNCHANGED <<marker, workerJob>>
       \/ /\ status[j] # "queued"   \* not_claimed
          /\ WorkerDone(w)
          /\ UNCHANGED jobVars
    /\ UNCHANGED <<evidenceVars, clientVars, outboxVars, broker, relayVars, faults>>

\* Mutant: the marker UPDATE has no lease guard.
unguarded_dispatch_marker(w) ==
    /\ workerPc[w] = "claimed"
    /\ marker' = [marker EXCEPT ![workerJob[w]] = TRUE]
    /\ WorkerGoes(w, "calling")
    /\ UNCHANGED <<status, lease, token, attempt, evidenceVars, clientVars, outboxVars,
                   broker, relayVars, faults>>

\* _claim_dispatch_marker: the checkpoint before any provider HTTP.
claim_dispatch_marker(w) ==
    LET j == workerJob[w] IN
    /\ workerPc[w] = "claimed"
    /\ \/ /\ can_act_under_lease(j, workerToken[w])
          /\ marker' = [marker EXCEPT ![j] = TRUE]
          /\ WorkerGoes(w, "calling")
       \/ /\ ~can_act_under_lease(j, workerToken[w])
          /\ WorkerDone(w)
          /\ UNCHANGED marker
    /\ UNCHANGED <<status, lease, token, attempt, evidenceVars, clientVars, outboxVars,
                   broker, relayVars, faults>>

\* classify_provider_outcome with the marker persisted: where each outcome leads.
ExecutionDecision == [valid |-> "answered", invalid_body |-> "failing", timeout |-> "reconciling"]

\* call_provider: the request leaves the worker; any outcome may come back.
call_provider(w, outcome) ==
    /\ workerPc[w] = "calling"
    /\ calls' = [calls EXCEPT ![workerJob[w]] = @ + 1]
    /\ WorkerGoes(w, ExecutionDecision[outcome])
    /\ UNCHANGED <<jobVars, requestId, finished, artifacts, objects, clientVars,
                   outboxVars, broker, relayVars, faults>>

\* _persist_provider_request_id, first statement: SELECT ... FOR UPDATE OF a checks
\* the lease but locks only the attempt row.
persist_request_id_check(w) ==
    /\ workerPc[w] = "answered"
    /\ IF can_act_under_lease(workerJob[w], workerToken[w])
       THEN WorkerGoes(w, "persisting")
       ELSE WorkerDone(w)
    /\ UNCHANGED <<jobVars, evidenceVars, clientVars, outboxVars, broker, relayVars,
                   faults>>

\* Second statement: UPDATE job_attempts ... WHERE provider_request_id IS NULL.
persist_request_id_write(w) ==
    /\ workerPc[w] = "persisting"
    /\ requestId' = [requestId EXCEPT ![workerJob[w]] = @ \cup {workerToken[w]}]
    /\ WorkerGoes(w, "storing")
    /\ UNCHANGED <<jobVars, finished, artifacts, calls, objects, clientVars,
                   outboxVars, broker, relayVars, faults>>

\* Mutant: a conflicting object under the key is taken for the stored result.
put_if_safe_ignores_conflict(w, verdict) ==
    /\ workerPc[w] = "storing"
    /\ WorkerGoes(w, IF verdict = "absent" THEN "reconciling" ELSE "completing")
    /\ objects' = IF verdict # "verified" THEN objects
                  ELSE [objects EXCEPT ![workerJob[w]] = @ \cup {workerToken[w]}]
    /\ UNCHANGED <<jobVars, requestId, finished, artifacts, calls, clientVars,
                   outboxVars, broker, relayVars, faults>>

\* put_if_safe on the attempt's own key: HEAD, PUT when absent, HEAD again.
put_if_safe(w, verdict) ==
    /\ workerPc[w] = "storing"
    /\ \/ /\ verdict = "verified"
          /\ objects' = [objects EXCEPT ![workerJob[w]] = @ \cup {workerToken[w]}]
          /\ WorkerGoes(w, "completing")
       \/ /\ verdict \in {"conflict", "absent"}
          /\ WorkerGoes(w, "reconciling")
          /\ UNCHANGED objects
    /\ UNCHANGED <<jobVars, requestId, finished, artifacts, calls, clientVars,
                   outboxVars, broker, relayVars, faults>>

\* running -> s under the worker's lease, which is cleared.
LeaveRunning(j, s) ==
    /\ status' = [status EXCEPT ![j] = s]
    /\ lease' = [lease EXCEPT ![j] = "none"]
    /\ token' = [token EXCEPT ![j] = 0]
    /\ UNCHANGED <<marker, attempt>>

\* _guarded_completion: job, artifact reference, attempt and lease in one transaction.
guarded_completion(w) ==
    LET j == workerJob[w]
        n == workerToken[w]
    IN  /\ workerPc[w] = "completing"
        /\ \/ /\ can_act_under_lease(j, n)
              /\ LeaveRunning(j, "succeeded")
              /\ artifacts' = [artifacts EXCEPT ![j] = @ \cup {n}]
              /\ finished' = [finished EXCEPT ![j] = @ \cup {n}]
           \/ /\ ~can_act_under_lease(j, n)   \* lease_lost_no_commit
              /\ UNCHANGED <<jobVars, artifacts, finished>>
        /\ WorkerDone(w)
        /\ UNCHANGED <<requestId, calls, objects, clientVars, outboxVars, broker,
                       relayVars, faults>>

\* _to_pending_reconciliation: the attempt stays unfinished as evidence.
to_pending_reconciliation(w) ==
    LET j == workerJob[w] IN
    /\ workerPc[w] = "reconciling"
    /\ IF can_act_under_lease(j, workerToken[w])
       THEN LeaveRunning(j, "pending_reconciliation")
       ELSE UNCHANGED jobVars
    /\ WorkerDone(w)
    /\ UNCHANGED <<evidenceVars, clientVars, outboxVars, broker, relayVars, faults>>

\* _record_contract_failure.
record_contract_failure(w) ==
    LET j == workerJob[w]
        n == workerToken[w]
    IN  /\ workerPc[w] = "failing"
        /\ \/ /\ can_act_under_lease(j, n)
              /\ LeaveRunning(j, "failed")
              /\ finished' = [finished EXCEPT ![j] = @ \cup {n}]
           \/ /\ ~can_act_under_lease(j, n)
              /\ UNCHANGED <<jobVars, finished>>
        /\ WorkerDone(w)
        /\ UNCHANGED <<requestId, artifacts, calls, objects, clientVars, outboxVars,
                       broker, relayVars, faults>>

\* The process is lost: a late-acknowledged message goes back to the broker.
WorkerCrash(w) ==
    /\ workerPc[w] # "idle" /\ Fault
    /\ broker' = IF AckLate THEN [broker EXCEPT ![workerJob[w]] = @ + 1] ELSE broker
    /\ WorkerDone(w)
    /\ UNCHANGED <<jobVars, evidenceVars, clientVars, outboxVars, relayVars>>

\* The task raises.  DAY60_CELERY_SETTINGS leaves task_acks_on_failure_or_timeout at
\* its default, so the failed task is acknowledged and its message is gone.
TaskRaises(w) ==
    /\ workerPc[w] # "idle" /\ Fault
    /\ workerPc[w] = "received" => TaskErrors
    /\ WorkerDone(w)
    /\ UNCHANGED <<jobVars, evidenceVars, clientVars, outboxVars, broker, relayVars>>

-----------------------------------------------------------------------------
(***************************************************************************)
(* Leases, recovery sweep and repair.                                      *)
(***************************************************************************)

\* Worker w is in the middle of the attempt that the lease of j was issued for.
Holds(w, j) == /\ workerPc[w] \in Claimed /\ workerJob[w] = j
               /\ can_act_under_lease(j, workerToken[w])

\* LEASE_SECONDS pass; under a worker that is still working this is a stall.
LeaseExpires(j) ==
    /\ lease[j] = "held"
    /\ IF \E w \in Workers : Holds(w, j) THEN Fault ELSE UNCHANGED faults
    /\ lease' = [lease EXCEPT ![j] = "expired"]
    /\ UNCHANGED <<status, token, marker, attempt, evidenceVars, clientVars,
                   outboxVars, broker, relayVars, workerVars>>

\* Mutant: the sweep asks for a request id only and overlooks the dispatch marker.
RequestIdOnly(j) == requestId[j] # {}

\* The Job's marker, or a provider_request_id of any of its attempts.
HasExternalEvidence(j) == marker[j] \/ requestId[j] # {}

Sweepable == {j \in Jobs : status[j] = "running" /\ lease[j] = "expired"}

\* Mutant: a requeued Job gets no redispatch intent.
sweep_without_redispatch(S) ==
    /\ S # {} /\ S \subseteq Sweepable /\ Cardinality(S) <= SweepLimit
    /\ status' = [j \in Jobs |-> IF j \notin S THEN status[j]
                                 ELSE IF HasExternalEvidence(j) THEN "pending_reconciliation"
                                 ELSE "queued"]
    /\ lease' = [j \in Jobs |-> IF j \in S THEN "none" ELSE lease[j]]
    /\ token' = [j \in Jobs |-> IF j \in S THEN 0 ELSE token[j]]
    /\ UNCHANGED <<marker, attempt, evidenceVars, clientVars, rows, published, claimed,
                   rowToken, repaired, broker, relayVars, workerVars, faults>>

\* One transaction over up to SweepLimit expired running Jobs; SKIP LOCKED leaves
\* open which ones.
recovery_sweep(S) ==
    /\ S # {} /\ S \subseteq Sweepable /\ Cardinality(S) <= SweepLimit
    /\ status' = [j \in Jobs |-> IF j \notin S THEN status[j]
                                 ELSE IF HasExternalEvidence(j) THEN "pending_reconciliation"
                                 ELSE "queued"]
    /\ lease' = [j \in Jobs |-> IF j \in S THEN "none" ELSE lease[j]]
    /\ token' = [j \in Jobs |-> IF j \in S THEN 0 ELSE token[j]]
    /\ rows' = [j \in Jobs |-> IF j \in S /\ ~HasExternalEvidence(j) THEN rows[j] + 1
                                                                     ELSE rows[j]]
    /\ UNCHANGED <<marker, attempt, evidenceVars, clientVars, published, claimed, rowToken,
                   repaired, broker, relayVars, workerVars, faults>>

\* release_version is never written, so a Job is only eligible for the release "", and no
\* caller gives a reason but the default, "early_ack": the repair id comes down to the Job.
is_repair_eligible(j) ==
    /\ status[j] = "queued"
    /\ 1 \in published[j]
    /\ attempt[j] = 0 /\ ~marker[j]
    /\ j \notin repaired

\* One transaction under SELECT ... FOR UPDATE of the Job row; inWindow and attested
\* are the operator's incident window and attestation.  Otherwise: not_eligible.
repair_early_ack(j, inWindow, attested) ==
    /\ is_repair_eligible(j) /\ inWindow /\ attested
    /\ rows' = [rows EXCEPT ![j] = @ + 1]
    /\ repaired' = repaired \cup {j}
    /\ UNCHANGED <<jobVars, evidenceVars, clientVars, published, claimed, rowToken, broker,
                   relayVars, workerVars, faults>>

-----------------------------------------------------------------------------
RelayStep(r) == \/ \E j \in Jobs : \E i \in 1 .. rows[j] : RelayClaim(r, j, i)
                \/ RelayPublish(r)
                \/ RelayCheckpoint(r)

WorkerStep(w) == \/ claim_and_start_attempt(w)
                 \/ claim_dispatch_marker(w)
                 \/ \E o \in DOMAIN ExecutionDecision : call_provider(w, o)
                 \/ persist_request_id_check(w)
                 \/ persist_request_id_write(w)
                 \/ \E v \in {"verified", "conflict", "absent"} : put_if_safe(w, v)
                 \/ guarded_completion(w)
                 \/ to_pending_reconciliation(w)
                 \/ record_contract_failure(w)

Next ==
    \/ \E j \in Jobs, f \in Fingerprints, d \in BOOLEAN : accept_job(j, f, d)
    \/ \E r \in Relays : RelayStep(r) \/ RelayCrash(r)
    \/ \E j \in Jobs : \E i \in 1 .. rows[j] : RelayClaimExpires(j, i)
    \/ \E w \in Workers : \/ WorkerStep(w)
                          \/ \E j \in Jobs : WorkerReceive(w, j)
                          \/ BrokerRedelivers(w) \/ WorkerCrash(w) \/ TaskRaises(w)
    \/ \E j \in Jobs : LeaseExpires(j)
    \/ \E S \in SUBSET Jobs : recovery_sweep(S)
    \/ \E j \in Jobs, inWindow, attested \in BOOLEAN : repair_early_ack(j, inWindow, attested)

Spec == Init /\ [][Next]_vars

\* Relays and the sweeper poll for ever, a worker process takes its next message
\* and finishes a task it started, and time passes for a claim or lease that no
\* process is working under.  Nothing is assumed of clients, operators, faults or
\* the outcome of external calls.
Fairness ==
    /\ \A r \in Relays : WF_vars(RelayStep(r))
    /\ \A w \in Workers : WF_vars(WorkerStep(w) \/ \E j \in Jobs : WorkerReceive(w, j))
    /\ WF_vars(\E S \in SUBSET Jobs : recovery_sweep(S))
    /\ WF_vars(\E j \in Jobs : LeaseExpires(j) /\ faults' = faults)
    /\ WF_vars(\E j \in Jobs : \E i \in 1 .. rows[j] :
                  RelayClaimExpires(j, i) /\ faults' = faults)

FairSpec == Spec /\ Fairness

-----------------------------------------------------------------------------
(***************************************************************************)
(* Properties.                                                             *)
(***************************************************************************)

\* However messages are duplicated, workers lost and leases swept, a Job reaches the
\* potentially billable provider at most once (day61 run_external_operation).
AtMostOneProviderCall == \A j \in Jobs : calls[j] <= 1

\* A succeeded Job has one provider call and, for its last attempt, the request id,
\* the verified object, the artifact reference and the finish time: success comes
\* only from _guarded_completion at the end of the checkpoint order.
SucceededHasEvidence ==
    \A j \in Jobs : status[j] = "succeeded" =>
        /\ calls[j] = 1
        /\ attempt[j] \in requestId[j] \cap objects[j] \cap artifacts[j] \cap finished[j]

\* An artifact row or a finished attempt belongs to the last attempt of a Job that
\* ended in the matching status: a worker that lost its lease leaves neither behind.
NoStaleResult ==
    \A j \in Jobs :
        /\ artifacts[j] # {} => status[j] = "succeeded" /\ artifacts[j] = {attempt[j]}
        /\ finished[j] # {} => status[j] \in {"succeeded", "failed"} /\ finished[j] = {attempt[j]}

\* The lease triple is set exactly while a Job runs (CHECK constraints of migrations
\* 0002 and 0003) and at most one worker process acts under it.
LeaseExclusive ==
    \A j \in Jobs :
        /\ (status[j] = "running") <=> (lease[j] # "none")
        /\ (status[j] = "running") <=> (token[j] # 0)
        /\ \A v, w \in Workers : Holds(v, j) /\ Holds(w, j) => v = w

AwaitsDelivery(j) ==
    \/ Unpublished(j) # {}
    \/ broker[j] > 0
    \/ \E w \in Workers : workerPc[w] = "received" /\ workerJob[w] = j

\* A queued Job is never forgotten: an unpublished intent, a broker message or a
\* worker about to claim it exists.  The sweeper skips queued Jobs because of this
\* (classify_recovery_sweep: "it is already awaiting delivery").
QueuedAwaitsDelivery == \A j \in Jobs : status[j] = "queued" => AwaitsDelivery(j)

\* Every outbox row has a cause: one dispatch for the accepted Job, one redispatch
\* for each interrupted attempt that the sweep requeued, one for the repair.
IntentsAccountedFor ==
    \A j \in Jobs :
        rows[j] = attempt[j] + (IF status[j] = "queued" THEN 1 ELSE 0)
                             + (IF j \in repaired THEN 1 ELSE 0)

\* Every client answered 202 for one (tenant, key) sent the same logical command.
OneCommandPerKey ==
    \A j \in Jobs : accepted[j] = IF status[j] = "absent" THEN {} ELSE {fingerprint[j]}

\* A settled Job never changes status, lease or attempt again, and once the dispatch
\* marker is set no new attempt starts: no delivery, sweep or repair revives it.
SettledIsFinal ==
    [][\A j \in Jobs :
        /\ status[j] \in Settled => UNCHANGED <<status[j], lease[j], token[j], attempt[j]>>
        /\ marker[j] => attempt'[j] = attempt[j] /\ marker'[j]]_vars

\* A worker whose lease was swept or superseded changes no column of any Job.
StaleWorkerChangesNothing ==
    [][\A w \in Workers :
        workerPc[w] \in Claimed /\ workerPc'[w] # workerPc[w]
          /\ ~can_act_under_lease(workerJob[w], workerToken[w]) => UNCHANGED jobVars]_vars

Contract == INSTANCE JobContract WITH authorised <- marker,
                                      called <- [j \in Jobs |-> calls[j] > 0]

\* The pipeline implements the contract: the dispatch marker is the authorisation, the
\* HTTP request is the call, and every other step leaves the contract's view alone.
ImplementsContract == Contract!Spec

\* Every accepted Job ends in a settled status, whatever crashes, stalls and
\* redeliveries happen on the way.
AcceptedSettles == \A j \in Jobs : status[j] = "queued" ~> status[j] \in Settled

-----------------------------------------------------------------------------
(***************************************************************************)
(* The inductive invariant behind the properties above.                    *)
(***************************************************************************)

\* A Job row and its fingerprint are inserted together.
KeyInv == \A j \in Jobs : (status[j] = "absent") <=> (fingerprint[j] = None)

\* Only a running Job has a lease, and its token is the one of its last attempt.
LeaseInv ==
    \A j \in Jobs :
        /\ status[j] = "running" => /\ lease[j] \in {"held", "expired"}
                                    /\ token[j] = attempt[j] /\ attempt[j] > 0
        /\ status[j] # "running" => lease[j] = "none" /\ token[j] = 0

\* A token names an attempt that was started, and no two workers carry the same one.
TokenInv ==
    /\ \A w \in Workers : workerPc[w] \in Claimed =>
          workerToken[w] \in 1 .. attempt[workerJob[w]]
    /\ \A v, w \in Workers :
          /\ workerPc[v] \in Claimed /\ workerPc[w] \in Claimed
          /\ workerJob[v] = workerJob[w] /\ workerToken[v] = workerToken[w]
          => v = w

\* The marker comes before every external effect and ends requeueing; a Job fails only
\* after its call.
MarkerInv ==
    \A j \in Jobs :
        /\ marker[j] => status[j] \in {"running"} \cup Settled
        /\ ~marker[j] => calls[j] = 0 /\ requestId[j] = {}
        /\ status[j] \in Settled => marker[j]
        /\ status[j] = "failed" => calls[j] = 1

\* The worker past the marker is the one of the last attempt; it has not called the
\* provider before "calling" and the Job's one call is its own afterwards.
CallInv ==
    \A w \in Workers :
        LET j == workerJob[w] IN
        /\ workerPc[w] = "claimed" /\ workerToken[w] = attempt[j] => ~marker[j]
        /\ workerPc[w] = "calling" =>
              marker[j] /\ workerToken[w] = attempt[j] /\ calls[j] = 0
        /\ workerPc[w] \in PostCall =>
              marker[j] /\ workerToken[w] = attempt[j] /\ calls[j] = 1
        /\ workerPc[w] \in {"storing", "completing"} => workerToken[w] \in requestId[j]
        /\ workerPc[w] = "completing" => workerToken[w] \in objects[j]

\* Everything the safety theorems need about Jobs, workers and external effects.
SafetyInv == /\ TypeOK /\ KeyInv /\ LeaseInv /\ TokenInv /\ MarkerInv /\ CallInv
             /\ AtMostOneProviderCall /\ SucceededHasEvidence /\ NoStaleResult
             /\ OneCommandPerKey /\ IntentsAccountedFor

\* An intent of j that no relay is about to checkpoint, so that it stays unpublished
\* until a relay publishes it.
Undelivered(j, i) == /\ i \in Unpublished(j)
                     /\ \A r \in Relays : relayPc[r] = "checkpointing" =>
                          ~(relayJob[r] = j /\ relayRow[r] = i)

Deliverable(j) == \/ \E i \in 1 .. rows[j] : Undelivered(j, i)
                  \/ broker[j] > 0
                  \/ \E w \in Workers : workerPc[w] = "received" /\ workerJob[w] = j

\* A relay checkpoints a row only after it put the message in the broker, so the row
\* that keeps a queued Job alive is never one whose message was already consumed.
DeliveryInv == \A j \in Jobs : status[j] = "queued" => Deliverable(j)
=============================================================================
