-------------------------- MODULE DurableJobsProofs --------------------------
(***************************************************************************)
(* Proofs about Jobs that outlive the process that runs them: JobPipeline, *)
(* for every number of Jobs, relays, workers and faults and every sweep    *)
(* limit, DurableAgentJobs, for any workers and recoveries, and            *)
(* MultiAgentCoordination, for any handoffs, workers, limits and contents. *)
(***************************************************************************)
EXTENDS JobPipeline, DurableAgentJobs, MultiAgentCoordination, FiniteSetTheorems, SequenceTheorems, TLAPS

-----------------------------------------------------------------------------
(***************************************************************************)
(* Type correctness, one lemma per group of variables.                     *)
(***************************************************************************)
LEMMA TypeInit == Init => TypeOK
  BY BoundsAssumption
     DEF Init, TypeOK, JobsOK, EvidenceOK, DeliveryOK, RowsOK, WorkersOK, Statuses

\* The columns of app.jobs keep their types under every transaction.
LEMMA JobsTypeStep == TypeOK /\ [Next]_vars => JobsOK'
<1> SUFFICES ASSUME TypeOK, [Next]_vars PROVE JobsOK'
  OBVIOUS
<1> USE DEF TypeOK, JobsOK, WorkersOK, Statuses, Settled, jobVars, clientVars
<1>1. ASSUME NEW j \in Jobs, NEW f \in Fingerprints, NEW d \in BOOLEAN, accept_job(j, f, d)
      PROVE  JobsOK'
  BY <1>1 DEF accept_job
<1>2. CASE UNCHANGED <<jobVars, clientVars>>
  BY <1>2
<1>3. ASSUME NEW w \in Workers, claim_and_start_attempt(w)
      PROVE  JobsOK'
  BY <1>3 DEF claim_and_start_attempt
<1>4. ASSUME NEW w \in Workers, claim_dispatch_marker(w)
      PROVE  JobsOK'
  BY <1>4 DEF claim_dispatch_marker
<1>5. ASSUME NEW w \in Workers,
             guarded_completion(w) \/ to_pending_reconciliation(w) \/ record_contract_failure(w)
      PROVE  JobsOK'
  BY <1>5 DEF guarded_completion, to_pending_reconciliation, record_contract_failure, LeaveRunning
<1>6. ASSUME NEW j \in Jobs, LeaseExpires(j)
      PROVE  JobsOK'
  BY <1>6 DEF LeaseExpires
<1>7. ASSUME NEW S \in SUBSET Jobs, recovery_sweep(S)
      PROVE  JobsOK'
  BY <1>7 DEF recovery_sweep
<1> QED
  BY <1>1, <1>2, <1>3, <1>4, <1>5, <1>6, <1>7
     DEF Next, RelayStep, WorkerStep, RelayClaim, RelayPublish, RelayCheckpoint, RelayCrash,
         RelayClaimExpires, WorkerReceive, BrokerRedelivers, WorkerCrash, TaskRaises,
         call_provider, persist_request_id_check, persist_request_id_write, put_if_safe,
         repair_early_ack, vars

\* Evidence is only ever added: attempts to sets, calls to a counter.
LEMMA EvidenceTypeStep == TypeOK /\ [Next]_vars => EvidenceOK'
<1> SUFFICES ASSUME TypeOK, [Next]_vars PROVE EvidenceOK'
  OBVIOUS
<1> USE DEF TypeOK, EvidenceOK, WorkersOK, evidenceVars
<1>1. CASE UNCHANGED evidenceVars
  BY <1>1
<1>2. ASSUME NEW w \in Workers, NEW o \in DOMAIN ExecutionDecision, call_provider(w, o)
      PROVE  EvidenceOK'
  BY <1>2 DEF call_provider
<1>3. ASSUME NEW w \in Workers, persist_request_id_write(w)
      PROVE  EvidenceOK'
  BY <1>3 DEF persist_request_id_write
<1>4. ASSUME NEW w \in Workers, NEW v \in {"verified", "conflict", "absent"}, put_if_safe(w, v)
      PROVE  EvidenceOK'
  BY <1>4 DEF put_if_safe
<1>5. ASSUME NEW w \in Workers, guarded_completion(w) \/ record_contract_failure(w)
      PROVE  EvidenceOK'
  BY <1>5 DEF guarded_completion, record_contract_failure
<1> QED
  BY <1>1, <1>2, <1>3, <1>4, <1>5
     DEF Next, RelayStep, WorkerStep, accept_job, RelayClaim, RelayPublish, RelayCheckpoint,
         RelayCrash, RelayClaimExpires, WorkerReceive, BrokerRedelivers, WorkerCrash, TaskRaises,
         claim_and_start_attempt, claim_dispatch_marker, persist_request_id_check,
         to_pending_reconciliation, LeaseExpires, recovery_sweep, repair_early_ack, vars

\* Outbox rows are never removed, so the row a relay works on stays a row.
LEMMA DeliveryTypeStep == TypeOK /\ [Next]_vars => DeliveryOK'
<1> SUFFICES ASSUME TypeOK, [Next]_vars PROVE DeliveryOK'
  OBVIOUS
<1> USE DEF TypeOK, DeliveryOK, WorkersOK, outboxVars, relayVars
<1>1. CASE UNCHANGED <<outboxVars, broker, relayVars>>
  BY <1>1
<1>2. ASSUME NEW j \in Jobs, NEW f \in Fingerprints, NEW d \in BOOLEAN, accept_job(j, f, d)
      PROVE  DeliveryOK'
  BY <1>2 DEF accept_job
<1>3. ASSUME NEW r \in Relays, NEW j \in Jobs, NEW i \in 1 .. rows[j], RelayClaim(r, j, i)
      PROVE  DeliveryOK'
  <2>1. rowToken' \in SUBSET (Jobs \X Nat \X Relays)
    BY <1>3 DEF RelayClaim
  <2> QED
    BY <1>3, <2>1 DEF RelayClaim
<1>4. ASSUME NEW r \in Relays, RelayPublish(r)
      PROVE  DeliveryOK'
  BY <1>4 DEF RelayPublish
<1>5. ASSUME NEW r \in Relays, RelayCheckpoint(r)
      PROVE  DeliveryOK'
  BY <1>5 DEF RelayCheckpoint, RelayIdles
<1>6. ASSUME NEW r \in Relays, RelayCrash(r)
      PROVE  DeliveryOK'
  BY <1>6 DEF RelayCrash, RelayIdles
<1>7. ASSUME NEW j \in Jobs, NEW i \in 1 .. rows[j], RelayClaimExpires(j, i)
      PROVE  DeliveryOK'
  BY <1>7 DEF RelayClaimExpires
<1>8. ASSUME NEW w \in Workers, NEW j \in Jobs, WorkerReceive(w, j)
      PROVE  DeliveryOK'
  BY <1>8 DEF WorkerReceive
<1>9. ASSUME NEW w \in Workers, BrokerRedelivers(w) \/ WorkerCrash(w)
      PROVE  DeliveryOK'
  BY <1>9 DEF BrokerRedelivers, WorkerCrash
<1>10. ASSUME NEW S \in SUBSET Jobs, recovery_sweep(S)
       PROVE  DeliveryOK'
  BY <1>10 DEF recovery_sweep
<1>11. ASSUME NEW j \in Jobs, NEW b \in BOOLEAN, NEW a \in BOOLEAN, repair_early_ack(j, b, a)
       PROVE  DeliveryOK'
  BY <1>11 DEF repair_early_ack
<1> QED
  BY <1>1, <1>2, <1>3, <1>4, <1>5, <1>6, <1>7, <1>8, <1>9, <1>10, <1>11
     DEF Next, RelayStep, WorkerStep, TaskRaises, claim_and_start_attempt, claim_dispatch_marker,
         call_provider, persist_request_id_check, persist_request_id_write, put_if_safe,
         guarded_completion, to_pending_reconciliation, record_contract_failure, LeaseExpires,
         vars

\* A worker that is not idle works on a Job, and faults stay within their budget.
LEMMA WorkersTypeStep == TypeOK /\ [Next]_vars => WorkersOK'
<1> SUFFICES ASSUME TypeOK, [Next]_vars PROVE WorkersOK'
  OBVIOUS
<1> USE BoundsAssumption
        DEF TypeOK, JobsOK, WorkersOK, workerVars, Claimed, PostCall, Fault
<1>1. CASE UNCHANGED <<workerVars, faults>>
  BY <1>1
<1>2. CASE UNCHANGED workerVars /\ Fault
  BY <1>2
<1>3. ASSUME NEW w \in Workers, NEW j \in Jobs, WorkerReceive(w, j)
      PROVE  WorkersOK'
  BY <1>3 DEF WorkerReceive
<1>4. ASSUME NEW w \in Workers, claim_and_start_attempt(w)
      PROVE  WorkersOK'
  BY <1>4 DEF claim_and_start_attempt, WorkerDone
<1>5. ASSUME NEW w \in Workers, NEW pc \in Claimed, workerPc[w] # "idle", WorkerGoes(w, pc),
             UNCHANGED faults
      PROVE  WorkersOK'
  BY <1>5 DEF WorkerGoes
<1>6. ASSUME NEW w \in Workers, WorkerDone(w), UNCHANGED faults \/ Fault
      PROVE  WorkersOK'
  BY <1>6 DEF WorkerDone
<1>7. ASSUME NEW w \in Workers, claim_dispatch_marker(w) \/ persist_request_id_check(w)
                                \/ persist_request_id_write(w)
      PROVE  WorkersOK'
  BY <1>7, <1>5, <1>6 DEF claim_dispatch_marker, persist_request_id_check, persist_request_id_write
<1>8. ASSUME NEW w \in Workers, NEW o \in DOMAIN ExecutionDecision, call_provider(w, o)
      PROVE  WorkersOK'
  BY <1>8, <1>5 DEF call_provider, ExecutionDecision
<1>9. ASSUME NEW w \in Workers, NEW v \in {"verified", "conflict", "absent"}, put_if_safe(w, v)
      PROVE  WorkersOK'
  BY <1>9, <1>5 DEF put_if_safe
<1>10. ASSUME NEW w \in Workers, guarded_completion(w) \/ to_pending_reconciliation(w)
                                 \/ record_contract_failure(w) \/ WorkerCrash(w) \/ TaskRaises(w)
       PROVE  WorkersOK'
  BY <1>10, <1>6 DEF guarded_completion, to_pending_reconciliation, record_contract_failure,
                     WorkerCrash, TaskRaises
<1>11. ASSUME NEW w \in Workers, BrokerRedelivers(w)
       PROVE  WorkersOK'
  BY <1>11, <1>2 DEF BrokerRedelivers
<1> HIDE DEF TypeOK, JobsOK, WorkersOK, workerVars, Claimed, PostCall, Fault
<1>12. ASSUME NEW r \in Relays, RelayCrash(r)
       PROVE  WorkersOK'
  BY <1>12, <1>2 DEF RelayCrash
<1>13. ASSUME NEW j \in Jobs, \/ LeaseExpires(j)
                               \/ \E i \in 1 .. rows[j] : RelayClaimExpires(j, i)
       PROVE  WorkersOK'
  BY <1>13, <1>1, <1>2 DEF LeaseExpires, RelayClaimExpires
<1> QED
  BY <1>1, <1>3, <1>4, <1>7, <1>8, <1>9, <1>10, <1>11, <1>12, <1>13
     DEF Next, RelayStep, WorkerStep, accept_job, RelayClaim, RelayPublish, RelayCheckpoint,
         recovery_sweep, repair_early_ack, vars

\* Only rows that exist are checkpointed.
LEMMA RowsTypeStep == TypeOK /\ [Next]_vars => RowsOK'
<1> SUFFICES ASSUME TypeOK, [Next]_vars PROVE RowsOK'
  OBVIOUS
<1> USE DEF TypeOK, DeliveryOK, RowsOK, outboxVars
<1>1. ASSUME UNCHANGED published, \A j \in Jobs : rows'[j] \in {rows[j], rows[j] + 1}
      PROVE  RowsOK'
  BY <1>1
<1>2. ASSUME NEW r \in Relays, RelayCheckpoint(r)
      PROVE  RowsOK'
  BY <1>2 DEF RelayCheckpoint
<1>3. ASSUME NEW j \in Jobs, NEW f \in Fingerprints, NEW d \in BOOLEAN, accept_job(j, f, d)
      PROVE  RowsOK'
  BY <1>3, <1>1 DEF accept_job
<1>4. ASSUME NEW S \in SUBSET Jobs, recovery_sweep(S)
      PROVE  RowsOK'
  BY <1>4, <1>1 DEF recovery_sweep
<1>5. ASSUME NEW j \in Jobs, NEW b \in BOOLEAN, NEW a \in BOOLEAN, repair_early_ack(j, b, a)
      PROVE  RowsOK'
  BY <1>5, <1>1 DEF repair_early_ack
<1>6. CASE UNCHANGED <<rows, published>>
  BY <1>6
<1> HIDE DEF TypeOK, DeliveryOK, RowsOK
<1> QED
  BY <1>2, <1>3, <1>4, <1>5, <1>6
     DEF Next, RelayStep, WorkerStep, RelayClaim, RelayPublish, RelayCrash, RelayClaimExpires,
         WorkerReceive, BrokerRedelivers, WorkerCrash, TaskRaises, claim_and_start_attempt,
         claim_dispatch_marker, call_provider, persist_request_id_check, persist_request_id_write,
         put_if_safe, guarded_completion, to_pending_reconciliation, record_contract_failure,
         LeaseExpires, vars

LEMMA TypeStep == TypeOK /\ [Next]_vars => TypeOK'
  BY JobsTypeStep, EvidenceTypeStep, DeliveryTypeStep, RowsTypeStep, WorkersTypeStep DEF TypeOK

\* The tables, the broker and every process state keep their types, and a relay always
\* works on an outbox row that exists.
THEOREM TypeCorrect == Spec => []TypeOK
  BY TypeInit, TypeStep, PTL DEF Spec

-----------------------------------------------------------------------------
(***************************************************************************)
(* The safety invariant: who may act for a Job, and what it left behind.   *)
(***************************************************************************)
LEMMA SafetyInit == Init => SafetyInv
<1> SUFFICES ASSUME Init PROVE SafetyInv
  OBVIOUS
<1>1. TypeOK
  BY TypeInit
<1>2. KeyInv /\ LeaseInv /\ TokenInv /\ MarkerInv /\ CallInv
  BY DEF Init, KeyInv, LeaseInv, TokenInv, MarkerInv, CallInv, Claimed, PostCall, Settled
<1>3. AtMostOneProviderCall /\ SucceededHasEvidence /\ NoStaleResult
  BY DEF Init, AtMostOneProviderCall, SucceededHasEvidence, NoStaleResult
<1>4. OneCommandPerKey /\ IntentsAccountedFor
  BY DEF Init, OneCommandPerKey, IntentsAccountedFor
<1> QED
  BY <1>1, <1>2, <1>3, <1>4 DEF SafetyInv

\* What the acceptance transaction does when it commits a new Job: the key was unused,
\* so the Job was absent.
LEMMA AcceptCases ==
    ASSUME TypeOK, KeyInv, NEW j \in Jobs, NEW f \in Fingerprints, NEW d \in BOOLEAN,
           accept_job(j, f, d)
    PROVE  \/ UNCHANGED <<status, fingerprint, rows>> /\ fingerprint[j] = f
           \/ /\ status[j] = "absent"
              /\ status' = [status EXCEPT ![j] = "queued"]
              /\ fingerprint' = [fingerprint EXCEPT ![j] = f]
              /\ rows' = [rows EXCEPT ![j] = @ + 1]
  BY NoneAssumption DEF accept_job, classify_idempotency, KeyInv, TypeOK, JobsOK

\* Acceptance writes the row and its fingerprint; nothing later touches either.
LEMMA KeyStep == TypeOK /\ KeyInv /\ OneCommandPerKey /\ [Next]_vars => (KeyInv /\ OneCommandPerKey)'
<1> SUFFICES ASSUME TypeOK, KeyInv, OneCommandPerKey, [Next]_vars
             PROVE  (KeyInv /\ OneCommandPerKey)'
  OBVIOUS
<1> DEFINE Kept == /\ UNCHANGED clientVars
                   /\ \A j \in Jobs : (status'[j] = "absent") <=> (status[j] = "absent")
<1> USE DEF TypeOK, JobsOK, WorkersOK, jobVars, clientVars
<1>1. ASSUME UNCHANGED <<status, clientVars>>
      PROVE  Kept
  BY <1>1
<1>2. ASSUME NEW j \in Jobs, NEW f \in Fingerprints, NEW d \in BOOLEAN, accept_job(j, f, d)
      PROVE  (KeyInv /\ OneCommandPerKey)'
  <2>1. accepted' = [accepted EXCEPT ![j] = @ \cup {f}]
    BY <1>2 DEF accept_job
  <2>2. CASE UNCHANGED <<status, fingerprint, rows>> /\ fingerprint[j] = f
    <3>1. accepted[j] = {f}
      BY <2>2, NoneAssumption DEF KeyInv, OneCommandPerKey
    <3>2. accepted' = accepted
      BY <2>1, <3>1
    <3> QED
      BY <2>2, <3>2 DEF KeyInv, OneCommandPerKey
  <2>3. CASE /\ status[j] = "absent"
             /\ status' = [status EXCEPT ![j] = "queued"]
             /\ fingerprint' = [fingerprint EXCEPT ![j] = f]
    <3>1. accepted' = [accepted EXCEPT ![j] = {f}]
      BY <2>1, <2>3 DEF OneCommandPerKey
    <3>2. KeyInv'
      BY <2>3, NoneAssumption DEF KeyInv
    <3>3. OneCommandPerKey'
      BY <2>3, <3>1 DEF OneCommandPerKey
    <3> QED
      BY <3>2, <3>3
  <2> QED
    BY <1>2, <2>2, <2>3, AcceptCases
<1>3. ASSUME NEW w \in Workers, claim_and_start_attempt(w)
      PROVE  Kept
  BY <1>3 DEF claim_and_start_attempt
<1>4. ASSUME NEW w \in Workers,
             guarded_completion(w) \/ to_pending_reconciliation(w) \/ record_contract_failure(w)
      PROVE  Kept
  BY <1>4 DEF guarded_completion, to_pending_reconciliation, record_contract_failure,
              LeaveRunning, can_act_under_lease
<1>5. ASSUME NEW S \in SUBSET Jobs, recovery_sweep(S)
      PROVE  Kept
  BY <1>5 DEF recovery_sweep, Sweepable
<1>6. ASSUME Kept
      PROVE  (KeyInv /\ OneCommandPerKey)'
  BY <1>6 DEF KeyInv, OneCommandPerKey
<1> HIDE DEF TypeOK, JobsOK, WorkersOK, Kept
<1> QED
  BY <1>1, <1>2, <1>3, <1>4, <1>5, <1>6
     DEF Next, RelayStep, WorkerStep, RelayClaim, RelayPublish, RelayCheckpoint, RelayCrash,
         RelayClaimExpires, WorkerReceive, BrokerRedelivers, WorkerCrash, TaskRaises,
         claim_dispatch_marker, call_provider, persist_request_id_check,
         persist_request_id_write, put_if_safe, LeaseExpires, repair_early_ack, vars

\* A claim sets the whole lease, and every way out of running clears it.
LEMMA LeaseStep == TypeOK /\ KeyInv /\ LeaseInv /\ [Next]_vars => LeaseInv'
<1> SUFFICES ASSUME TypeOK, KeyInv, LeaseInv, [Next]_vars PROVE LeaseInv'
  OBVIOUS
<1> USE DEF TypeOK, JobsOK, WorkersOK, LeaseInv, jobVars
<1>1. CASE UNCHANGED <<status, lease, token, attempt>>
  BY <1>1
<1>2. ASSUME NEW j \in Jobs, NEW f \in Fingerprints, NEW d \in BOOLEAN, accept_job(j, f, d)
      PROVE  LeaseInv'
  <2>1. UNCHANGED <<lease, token, attempt>>
    BY <1>2 DEF accept_job
  <2> QED
    BY <1>2, <2>1, AcceptCases
<1>3. ASSUME NEW w \in Workers, claim_and_start_attempt(w)
      PROVE  LeaseInv'
  BY <1>3 DEF claim_and_start_attempt
<1>4. ASSUME NEW w \in Workers,
             guarded_completion(w) \/ to_pending_reconciliation(w) \/ record_contract_failure(w)
      PROVE  LeaseInv'
  BY <1>4 DEF guarded_completion, to_pending_reconciliation, record_contract_failure, LeaveRunning
<1>5. ASSUME NEW j \in Jobs, LeaseExpires(j)
      PROVE  LeaseInv'
  BY <1>5 DEF LeaseExpires
<1>6. ASSUME NEW S \in SUBSET Jobs, recovery_sweep(S)
      PROVE  LeaseInv'
  BY <1>6 DEF recovery_sweep
<1> HIDE DEF TypeOK, JobsOK, WorkersOK, LeaseInv
<1> QED
  BY <1>1, <1>2, <1>3, <1>4, <1>5, <1>6
     DEF Next, RelayStep, WorkerStep, RelayClaim, RelayPublish, RelayCheckpoint, RelayCrash,
         RelayClaimExpires, WorkerReceive, BrokerRedelivers, WorkerCrash, TaskRaises,
         claim_dispatch_marker, call_provider, persist_request_id_check,
         persist_request_id_write, put_if_safe, repair_early_ack, vars

\* Every intent is written with the status change or the repair that causes it.
LEMMA IntentsStep == TypeOK /\ KeyInv /\ IntentsAccountedFor /\ [Next]_vars => IntentsAccountedFor'
<1> SUFFICES ASSUME TypeOK, KeyInv, IntentsAccountedFor, [Next]_vars PROVE IntentsAccountedFor'
  OBVIOUS
<1> USE DEF TypeOK, JobsOK, DeliveryOK, WorkersOK, IntentsAccountedFor, jobVars, outboxVars
<1>1. CASE UNCHANGED <<status, attempt, rows, repaired>>
  BY <1>1
<1>2. ASSUME NEW j \in Jobs, NEW f \in Fingerprints, NEW d \in BOOLEAN, accept_job(j, f, d)
      PROVE  IntentsAccountedFor'
  <2>1. UNCHANGED <<attempt, repaired>>
    BY <1>2 DEF accept_job
  <2> QED
    BY <1>2, <2>1, AcceptCases
<1>3. ASSUME NEW w \in Workers, claim_and_start_attempt(w)
      PROVE  IntentsAccountedFor'
  BY <1>3 DEF claim_and_start_attempt
<1>4. ASSUME NEW w \in Workers,
             guarded_completion(w) \/ to_pending_reconciliation(w) \/ record_contract_failure(w)
      PROVE  IntentsAccountedFor'
  BY <1>4 DEF guarded_completion, to_pending_reconciliation, record_contract_failure,
              LeaveRunning, can_act_under_lease
<1>5. ASSUME NEW S \in SUBSET Jobs, recovery_sweep(S)
      PROVE  IntentsAccountedFor'
  BY <1>5 DEF recovery_sweep, Sweepable
<1>6. ASSUME NEW j \in Jobs, NEW b \in BOOLEAN, NEW a \in BOOLEAN, repair_early_ack(j, b, a)
      PROVE  IntentsAccountedFor'
  BY <1>6 DEF repair_early_ack, is_repair_eligible
<1> HIDE DEF TypeOK, JobsOK, DeliveryOK, WorkersOK, IntentsAccountedFor
<1> QED
  BY <1>1, <1>2, <1>3, <1>4, <1>5, <1>6
     DEF Next, RelayStep, WorkerStep, RelayClaim, RelayPublish, RelayCheckpoint, RelayCrash,
         RelayClaimExpires, WorkerReceive, BrokerRedelivers, WorkerCrash, TaskRaises,
         claim_dispatch_marker, call_provider, persist_request_id_check,
         persist_request_id_write, put_if_safe, LeaseExpires, vars

\* A fresh attempt number makes a fresh token, so tokens of two workers differ.
LEMMA TokenStep == TypeOK /\ TokenInv /\ [Next]_vars => TokenInv'
<1> SUFFICES ASSUME TypeOK, TokenInv, [Next]_vars PROVE TokenInv'
  OBVIOUS
<1> USE DEF TypeOK, JobsOK, WorkersOK, TokenInv, jobVars, workerVars, Claimed
<1>1. CASE UNCHANGED <<attempt, workerVars>>
  BY <1>1
<1>2. ASSUME NEW w \in Workers, NEW j \in Jobs, WorkerReceive(w, j)
      PROVE  TokenInv'
  BY <1>2 DEF WorkerReceive, PostCall
<1>3. ASSUME NEW w \in Workers, WorkerDone(w), UNCHANGED attempt
      PROVE  TokenInv'
  BY <1>3 DEF WorkerDone, PostCall
<1>4. ASSUME NEW w \in Workers, NEW pc \in Claimed, workerPc[w] \in Claimed, WorkerGoes(w, pc),
             UNCHANGED attempt
      PROVE  TokenInv'
  BY <1>4 DEF WorkerGoes
<1>5. ASSUME NEW w \in Workers, claim_and_start_attempt(w)
      PROVE  TokenInv'
  <2>1. CASE status[workerJob[w]] = "queued"
    <3>1. /\ workerJob[w] \in Jobs
          /\ attempt' = [attempt EXCEPT ![workerJob[w]] = @ + 1]
          /\ workerPc' = [workerPc EXCEPT ![w] = "claimed"]
          /\ workerToken' = [workerToken EXCEPT ![w] = attempt[workerJob[w]] + 1]
          /\ workerJob' = workerJob
      BY <1>5, <2>1 DEF claim_and_start_attempt
    <3>2. \A v \in Workers : v # w => workerPc'[v] = workerPc[v] /\ workerToken'[v] = workerToken[v]
      BY <3>1
    <3>3. workerToken'[w] = attempt[workerJob[w]] + 1
      BY <3>1
    <3>4. \A j \in Jobs : attempt'[j] \in Nat /\ attempt'[j] >= attempt[j]
      BY <3>1
    <3>5. attempt'[workerJob[w]] = attempt[workerJob[w]] + 1
      BY <3>1
    <3>6. \A v \in Workers : v # w /\ workerPc'[v] \in Claimed =>
             workerToken'[v] \in 1 .. attempt[workerJob[v]] /\ workerJob[v] \in Jobs
      BY <3>2 DEF PostCall
    <3>7. ASSUME NEW v \in Workers, workerPc'[v] \in Claimed
          PROVE  workerToken'[v] \in 1 .. attempt'[workerJob'[v]]
      BY <3>1, <3>3, <3>4, <3>5, <3>6, <3>7
    <3>8. ASSUME NEW u \in Workers, NEW v \in Workers, u # v,
                 workerPc'[u] \in Claimed, workerPc'[v] \in Claimed, workerJob[u] = workerJob[v]
          PROVE  workerToken'[u] # workerToken'[v]
      BY <3>2, <3>3, <3>6, <3>8
    <3> QED
      BY <3>1, <3>7, <3>8
  <2>2. CASE status[workerJob[w]] # "queued"
    BY <1>5, <2>2, <1>3 DEF claim_and_start_attempt
  <2> QED
    BY <2>1, <2>2
<1> HIDE DEF TypeOK, JobsOK, WorkersOK, TokenInv
<1>6. ASSUME NEW w \in Workers, claim_dispatch_marker(w) \/ persist_request_id_check(w)
                                \/ persist_request_id_write(w)
      PROVE  TokenInv'
  BY <1>6, <1>3, <1>4 DEF claim_dispatch_marker, persist_request_id_check,
                          persist_request_id_write, PostCall
<1>7. ASSUME NEW w \in Workers, NEW o \in DOMAIN ExecutionDecision, call_provider(w, o)
      PROVE  TokenInv'
  BY <1>7, <1>4 DEF call_provider, ExecutionDecision, PostCall
<1>8. ASSUME NEW w \in Workers, NEW v \in {"verified", "conflict", "absent"}, put_if_safe(w, v)
      PROVE  TokenInv'
  BY <1>8, <1>4 DEF put_if_safe, PostCall
<1>9. ASSUME NEW w \in Workers, guarded_completion(w) \/ to_pending_reconciliation(w)
                                \/ record_contract_failure(w) \/ WorkerCrash(w) \/ TaskRaises(w)
      PROVE  TokenInv'
  BY <1>9, <1>3 DEF guarded_completion, to_pending_reconciliation, record_contract_failure,
                    LeaveRunning, WorkerCrash, TaskRaises
<1> QED
  BY <1>1, <1>2, <1>5, <1>6, <1>7, <1>8, <1>9
     DEF Next, RelayStep, WorkerStep, accept_job, RelayClaim, RelayPublish, RelayCheckpoint,
         RelayCrash, RelayClaimExpires, BrokerRedelivers, LeaseExpires, recovery_sweep,
         repair_early_ack, vars

\* The dispatch marker is written before the call and read by the sweep.
LEMMA MarkerStep == SafetyInv /\ [Next]_vars => MarkerInv'
<1> SUFFICES ASSUME SafetyInv, [Next]_vars PROVE MarkerInv'
  OBVIOUS
<1> USE DEF SafetyInv, TypeOK, JobsOK, EvidenceOK, WorkersOK, MarkerInv, CallInv, Settled,
            jobVars, evidenceVars
<1>1. CASE UNCHANGED <<status, marker, calls, requestId>>
  BY <1>1
<1>2. ASSUME NEW j \in Jobs, NEW f \in Fingerprints, NEW d \in BOOLEAN, accept_job(j, f, d)
      PROVE  MarkerInv'
  <2>1. UNCHANGED <<marker, calls, requestId>>
    BY <1>2 DEF accept_job
  <2> QED
    BY <1>2, <2>1, AcceptCases
<1>3. ASSUME NEW w \in Workers, claim_and_start_attempt(w)
      PROVE  MarkerInv'
  BY <1>3 DEF claim_and_start_attempt
<1>4. ASSUME NEW w \in Workers, claim_dispatch_marker(w)
      PROVE  MarkerInv'
  BY <1>4 DEF claim_dispatch_marker, can_act_under_lease
<1>5. ASSUME NEW w \in Workers, NEW o \in DOMAIN ExecutionDecision, call_provider(w, o)
      PROVE  MarkerInv'
  BY <1>5 DEF call_provider
<1>6. ASSUME NEW w \in Workers, persist_request_id_write(w)
      PROVE  MarkerInv'
  BY <1>6 DEF persist_request_id_write, PostCall
<1>7. ASSUME NEW w \in Workers, guarded_completion(w)
      PROVE  MarkerInv'
  BY <1>7 DEF guarded_completion, LeaveRunning, PostCall
<1>8. ASSUME NEW w \in Workers, to_pending_reconciliation(w)
      PROVE  MarkerInv'
  BY <1>8 DEF to_pending_reconciliation, LeaveRunning, PostCall
<1>9. ASSUME NEW w \in Workers, record_contract_failure(w)
      PROVE  MarkerInv'
  BY <1>9 DEF record_contract_failure, LeaveRunning, PostCall
<1>10. ASSUME NEW S \in SUBSET Jobs, recovery_sweep(S)
       PROVE  MarkerInv'
  BY <1>10 DEF recovery_sweep, HasExternalEvidence
<1>11. ASSUME NEW w \in Workers, NEW v \in {"verified", "conflict", "absent"}, put_if_safe(w, v)
       PROVE  MarkerInv'
  BY <1>11 DEF put_if_safe
<1> HIDE DEF SafetyInv, TypeOK, JobsOK, EvidenceOK, WorkersOK, MarkerInv, CallInv, Settled
<1> QED
  BY <1>1, <1>2, <1>3, <1>4, <1>5, <1>6, <1>7, <1>8, <1>9, <1>10, <1>11
     DEF Next, RelayStep, WorkerStep, RelayClaim, RelayPublish, RelayCheckpoint, RelayCrash,
         RelayClaimExpires, WorkerReceive, BrokerRedelivers, WorkerCrash, TaskRaises,
         persist_request_id_check, LeaseExpires, repair_early_ack, vars

\* Past the marker there is one worker, the one of the last attempt, and it calls once.
LEMMA CallStep == SafetyInv /\ [Next]_vars => (CallInv /\ AtMostOneProviderCall)'
<1> SUFFICES ASSUME SafetyInv, [Next]_vars PROVE (CallInv /\ AtMostOneProviderCall)'
  OBVIOUS
<1> DEFINE Goal == (CallInv /\ AtMostOneProviderCall)'
<1> USE DEF SafetyInv, TypeOK, JobsOK, EvidenceOK, WorkersOK, CallInv, AtMostOneProviderCall,
            jobVars, evidenceVars, workerVars
<1>1. ASSUME UNCHANGED <<marker, attempt, calls, requestId, objects>>, UNCHANGED workerVars
      PROVE  Goal
  BY <1>1
<1>2. ASSUME NEW w \in Workers, WorkerDone(w),
             UNCHANGED <<marker, attempt, calls, requestId, objects>>
      PROVE  Goal
  BY <1>2 DEF WorkerDone, PostCall
<1>3. ASSUME NEW w \in Workers, NEW j \in Jobs, WorkerReceive(w, j)
      PROVE  Goal
  BY <1>3 DEF WorkerReceive, PostCall
<1>4. ASSUME NEW w \in Workers, claim_and_start_attempt(w)
      PROVE  Goal
  <2>1. CASE status[workerJob[w]] = "queued"
    <3>1. /\ workerJob[w] \in Jobs
          /\ attempt' = [attempt EXCEPT ![workerJob[w]] = @ + 1]
          /\ workerPc' = [workerPc EXCEPT ![w] = "claimed"]
          /\ workerToken' = [workerToken EXCEPT ![w] = attempt[workerJob[w]] + 1]
          /\ UNCHANGED <<workerJob, marker, calls, requestId, objects>>
      BY <1>4, <2>1 DEF claim_and_start_attempt
    <3>2. ~marker[workerJob[w]]
      BY <2>1, <3>1 DEF MarkerInv, Settled
    <3>3. \A v \in Workers : v # w /\ workerPc[v] \in {"calling"} \cup PostCall =>
             workerJob[v] # workerJob[w]
      BY <3>2 DEF PostCall
    <3> QED
      BY <3>1, <3>2, <3>3 DEF PostCall
  <2>2. CASE status[workerJob[w]] # "queued"
    BY <1>4, <2>2, <1>2 DEF claim_and_start_attempt
  <2> QED
    BY <2>1, <2>2
<1>5. ASSUME NEW w \in Workers, claim_dispatch_marker(w)
      PROVE  Goal
  <2>1. CASE can_act_under_lease(workerJob[w], workerToken[w])
    <3>1. /\ workerJob[w] \in Jobs /\ workerPc[w] = "claimed"
          /\ marker' = [marker EXCEPT ![workerJob[w]] = TRUE]
          /\ workerPc' = [workerPc EXCEPT ![w] = "calling"]
          /\ UNCHANGED <<workerJob, workerToken, attempt, calls, requestId, objects>>
      BY <1>5, <2>1 DEF claim_dispatch_marker, WorkerGoes
    <3>2. workerToken[w] = attempt[workerJob[w]]
      BY <2>1, <3>1 DEF can_act_under_lease, LeaseInv
    <3>3. ~marker[workerJob[w]] /\ calls[workerJob[w]] = 0
      BY <3>1, <3>2 DEF MarkerInv
    <3>4. \A v \in Workers : v # w /\ workerPc[v] = "claimed" /\ workerJob[v] = workerJob[w] =>
             workerToken[v] # attempt[workerJob[w]]
      BY <3>1, <3>2 DEF TokenInv, Claimed
    <3> QED
      BY <3>1, <3>2, <3>3, <3>4 DEF PostCall
  <2>2. CASE ~can_act_under_lease(workerJob[w], workerToken[w])
    BY <1>5, <2>2, <1>2 DEF claim_dispatch_marker
  <2> QED
    BY <2>1, <2>2
<1>6. ASSUME NEW w \in Workers, NEW o \in DOMAIN ExecutionDecision, call_provider(w, o)
      PROVE  Goal
  <2>1. /\ workerJob[w] \in Jobs /\ workerPc[w] = "calling"
        /\ calls' = [calls EXCEPT ![workerJob[w]] = @ + 1]
        /\ UNCHANGED <<workerJob, workerToken, marker, attempt, requestId, objects>>
    BY <1>6 DEF call_provider, WorkerGoes
  <2>2. /\ workerPc' = [workerPc EXCEPT ![w] = ExecutionDecision[o]]
        /\ ExecutionDecision[o] \in {"answered", "failing", "reconciling"}
    BY <1>6 DEF call_provider, WorkerGoes, ExecutionDecision
  <2>3. \A v \in Workers : v # w /\ workerPc[v] \in {"calling"} \cup PostCall =>
           workerJob[v] # workerJob[w]
    BY <2>1 DEF TokenInv, Claimed
  <2> QED
    BY <2>1, <2>2, <2>3 DEF PostCall
<1>7. ASSUME NEW w \in Workers, persist_request_id_check(w)
      PROVE  Goal
  <2>1. CASE can_act_under_lease(workerJob[w], workerToken[w])
    BY <1>7, <2>1 DEF persist_request_id_check, WorkerGoes, PostCall
  <2>2. CASE ~can_act_under_lease(workerJob[w], workerToken[w])
    BY <1>7, <2>2, <1>2 DEF persist_request_id_check
  <2> QED
    BY <2>1, <2>2
<1>8. ASSUME NEW w \in Workers, persist_request_id_write(w)
      PROVE  Goal
  BY <1>8 DEF persist_request_id_write, WorkerGoes, PostCall
<1>9. ASSUME NEW w \in Workers, NEW v \in {"verified", "conflict", "absent"}, put_if_safe(w, v)
      PROVE  Goal
  BY <1>9 DEF put_if_safe, WorkerGoes, PostCall
<1> HIDE DEF SafetyInv, TypeOK, JobsOK, EvidenceOK, WorkersOK, CallInv, AtMostOneProviderCall, Goal
<1>10. ASSUME NEW w \in Workers, guarded_completion(w) \/ to_pending_reconciliation(w)
                                 \/ record_contract_failure(w) \/ WorkerCrash(w) \/ TaskRaises(w)
       PROVE  Goal
  BY <1>10, <1>2 DEF guarded_completion, to_pending_reconciliation, record_contract_failure,
                     LeaveRunning, WorkerCrash, TaskRaises
<1>11. Goal
  BY <1>1, <1>3, <1>4, <1>5, <1>6, <1>7, <1>8, <1>9, <1>10
     DEF Next, RelayStep, WorkerStep, accept_job, RelayClaim, RelayPublish, RelayCheckpoint,
         RelayCrash, RelayClaimExpires, BrokerRedelivers, LeaseExpires, recovery_sweep,
         repair_early_ack, vars
<1> QED
  BY <1>11 DEF Goal

\* Results are written with the status they belong to, by the worker that holds the lease.
LEMMA EvidenceStep == SafetyInv /\ [Next]_vars => (SucceededHasEvidence /\ NoStaleResult)'
<1> SUFFICES ASSUME SafetyInv, [Next]_vars PROVE (SucceededHasEvidence /\ NoStaleResult)'
  OBVIOUS
<1> DEFINE Goal == (SucceededHasEvidence /\ NoStaleResult)'
<1> USE DEF SafetyInv, TypeOK, JobsOK, EvidenceOK, WorkersOK, SucceededHasEvidence, NoStaleResult,
            jobVars, evidenceVars
<1>1. ASSUME UNCHANGED <<status, attempt>>, UNCHANGED evidenceVars
      PROVE  Goal
  BY <1>1
<1>2. ASSUME NEW j \in Jobs, NEW f \in Fingerprints, NEW d \in BOOLEAN, accept_job(j, f, d)
      PROVE  Goal
  <2>1. UNCHANGED attempt /\ UNCHANGED evidenceVars
    BY <1>2 DEF accept_job
  <2> QED
    BY <1>2, <2>1, AcceptCases
<1>3. ASSUME NEW w \in Workers, claim_and_start_attempt(w)
      PROVE  Goal
  BY <1>3 DEF claim_and_start_attempt
<1>4. ASSUME NEW w \in Workers, NEW o \in DOMAIN ExecutionDecision, call_provider(w, o)
      PROVE  Goal
  <2>1. /\ UNCHANGED <<status, attempt, requestId, finished, artifacts, objects>>
        /\ calls' = [calls EXCEPT ![workerJob[w]] = @ + 1]
        /\ workerJob[w] \in Jobs /\ calls[workerJob[w]] = 0
    BY <1>4 DEF call_provider, CallInv
  <2> QED
    BY <2>1
<1>5. ASSUME NEW w \in Workers, persist_request_id_write(w)
      PROVE  Goal
  BY <1>5 DEF persist_request_id_write
<1>6. ASSUME NEW w \in Workers, NEW v \in {"verified", "conflict", "absent"}, put_if_safe(w, v)
      PROVE  Goal
  BY <1>6 DEF put_if_safe
<1>7. ASSUME NEW w \in Workers, guarded_completion(w)
      PROVE  Goal
  <2>1. CASE can_act_under_lease(workerJob[w], workerToken[w])
    <3> DEFINE j == workerJob[w]
    <3>1. /\ j \in Jobs /\ workerPc[w] = "completing" /\ status[j] = "running"
          /\ status' = [status EXCEPT ![j] = "succeeded"]
          /\ artifacts' = [artifacts EXCEPT ![j] = @ \cup {workerToken[w]}]
          /\ finished' = [finished EXCEPT ![j] = @ \cup {workerToken[w]}]
          /\ UNCHANGED <<attempt, requestId, calls, objects>>
      BY <1>7, <2>1 DEF guarded_completion, LeaveRunning, can_act_under_lease
    <3>2. /\ workerToken[w] = attempt[j] /\ calls[j] = 1
          /\ attempt[j] \in requestId[j] /\ attempt[j] \in objects[j]
      BY <3>1 DEF CallInv, PostCall
    <3>3. artifacts[j] = {} /\ finished[j] = {}
      BY <3>1
    <3> QED
      BY <3>1, <3>2, <3>3
  <2>2. CASE ~can_act_under_lease(workerJob[w], workerToken[w])
    BY <1>7, <2>2, <1>1 DEF guarded_completion
  <2> QED
    BY <2>1, <2>2
<1>8. ASSUME NEW w \in Workers, record_contract_failure(w)
      PROVE  Goal
  <2>1. CASE can_act_under_lease(workerJob[w], workerToken[w])
    <3> DEFINE j == workerJob[w]
    <3>1. /\ j \in Jobs /\ workerPc[w] = "failing" /\ status[j] = "running"
          /\ status' = [status EXCEPT ![j] = "failed"]
          /\ finished' = [finished EXCEPT ![j] = @ \cup {workerToken[w]}]
          /\ UNCHANGED <<attempt, artifacts, requestId, calls, objects>>
      BY <1>8, <2>1 DEF record_contract_failure, LeaveRunning, can_act_under_lease
    <3>2. workerToken[w] = attempt[j] /\ finished[j] = {} /\ artifacts[j] = {}
      BY <3>1 DEF CallInv, PostCall
    <3> QED
      BY <3>1, <3>2
  <2>2. CASE ~can_act_under_lease(workerJob[w], workerToken[w])
    BY <1>8, <2>2, <1>1 DEF record_contract_failure
  <2> QED
    BY <2>1, <2>2
<1>9. ASSUME NEW w \in Workers, to_pending_reconciliation(w)
      PROVE  Goal
  BY <1>9 DEF to_pending_reconciliation, LeaveRunning, can_act_under_lease
<1>10. ASSUME NEW S \in SUBSET Jobs, recovery_sweep(S)
       PROVE  Goal
  BY <1>10 DEF recovery_sweep, Sweepable
<1> HIDE DEF SafetyInv, TypeOK, JobsOK, EvidenceOK, WorkersOK, SucceededHasEvidence,
             NoStaleResult, Goal
<1>11. Goal
  BY <1>1, <1>2, <1>3, <1>4, <1>5, <1>6, <1>7, <1>8, <1>9, <1>10
     DEF Next, RelayStep, WorkerStep, RelayClaim, RelayPublish, RelayCheckpoint, RelayCrash,
         RelayClaimExpires, WorkerReceive, BrokerRedelivers, WorkerCrash, TaskRaises,
         claim_dispatch_marker, persist_request_id_check, LeaseExpires, repair_early_ack, vars
<1> QED
  BY <1>11 DEF Goal

LEMMA SafetyStep == SafetyInv /\ [Next]_vars => SafetyInv'
  BY TypeStep, KeyStep, LeaseStep, IntentsStep, TokenStep, MarkerStep, CallStep, EvidenceStep
     DEF SafetyInv

\* The inductive invariant holds in every reachable state.
THEOREM SafetyCorrect == Spec => []SafetyInv
  BY SafetyInit, SafetyStep, PTL DEF Spec

\* No interleaving of relays, workers, redeliveries and sweeps makes a Job call the
\* provider twice.
THEOREM OneProviderCall == Spec => []AtMostOneProviderCall
<1>1. SafetyInv => AtMostOneProviderCall
  BY DEF SafetyInv
<1> QED
  BY <1>1, SafetyCorrect, PTL

\* Success is reported only with its call, request id, object, reference and finish time,
\* and no stale worker leaves a result behind.
THEOREM ResultsBacked == Spec => [](SucceededHasEvidence /\ NoStaleResult)
<1>1. SafetyInv => SucceededHasEvidence /\ NoStaleResult
  BY DEF SafetyInv
<1> QED
  BY <1>1, SafetyCorrect, PTL

\* The lease triple is coherent and at most one worker acts under it.
THEOREM LeaseIsExclusive == Spec => []LeaseExclusive
<1>1. SafetyInv => LeaseExclusive
  <2> SUFFICES ASSUME SafetyInv, NEW j \in Jobs
               PROVE  /\ (status[j] = "running") <=> (lease[j] # "none")
                      /\ (status[j] = "running") <=> (token[j] # 0)
                      /\ \A v, w \in Workers : Holds(v, j) /\ Holds(w, j) => v = w
    BY DEF LeaseExclusive
  <2>1. /\ (status[j] = "running") <=> (lease[j] # "none")
        /\ (status[j] = "running") <=> (token[j] # 0)
    BY DEF SafetyInv, LeaseInv, TypeOK, JobsOK
  <2>2. \A v, w \in Workers : Holds(v, j) /\ Holds(w, j) => v = w
    BY DEF SafetyInv, TokenInv, Holds, can_act_under_lease
  <2> QED
    BY <2>1, <2>2
<1> QED
  BY <1>1, SafetyCorrect, PTL

\* Each outbox intent is owed to one acceptance, one requeue or one repair.
THEOREM IntentsCorrect == Spec => [](IntentsAccountedFor /\ OneCommandPerKey)
<1>1. SafetyInv => IntentsAccountedFor /\ OneCommandPerKey
  BY DEF SafetyInv
<1> QED
  BY <1>1, SafetyCorrect, PTL

-----------------------------------------------------------------------------
(***************************************************************************)
(* Action properties.                                                      *)
(***************************************************************************)

\* A settled Job never moves again and a marked Job never starts another attempt.
THEOREM SettledStaysSettled == Spec => SettledIsFinal
<1> DEFINE Final == \A j \in Jobs :
              /\ status[j] \in Settled => UNCHANGED <<status[j], lease[j], token[j], attempt[j]>>
              /\ marker[j] => attempt'[j] = attempt[j] /\ marker'[j]
<1>1. SafetyInv /\ [Next]_vars => Final
  <2> SUFFICES ASSUME SafetyInv, [Next]_vars PROVE Final
    OBVIOUS
  <2> USE DEF SafetyInv, TypeOK, JobsOK, WorkersOK, MarkerInv, Settled, jobVars
  <2>1. CASE UNCHANGED jobVars
    BY <2>1
  <2>2. ASSUME NEW j \in Jobs, NEW f \in Fingerprints, NEW d \in BOOLEAN, accept_job(j, f, d)
        PROVE  Final
    <3>1. UNCHANGED <<lease, token, marker, attempt>>
      BY <2>2 DEF accept_job
    <3> QED
      BY <2>2, <3>1, AcceptCases
  <2>3. ASSUME NEW w \in Workers, claim_and_start_attempt(w)
        PROVE  Final
    BY <2>3 DEF claim_and_start_attempt
  <2>4. ASSUME NEW w \in Workers, claim_dispatch_marker(w)
        PROVE  Final
    BY <2>4 DEF claim_dispatch_marker
  <2>5. ASSUME NEW w \in Workers, \/ guarded_completion(w) \/ to_pending_reconciliation(w)
                                  \/ record_contract_failure(w)
        PROVE  Final
    BY <2>5 DEF guarded_completion, to_pending_reconciliation, record_contract_failure,
                LeaveRunning, can_act_under_lease
  <2>6. ASSUME NEW j \in Jobs, LeaseExpires(j)
        PROVE  Final
    BY <2>6 DEF LeaseExpires, LeaseInv
  <2>7. ASSUME NEW S \in SUBSET Jobs, recovery_sweep(S)
        PROVE  Final
    BY <2>7 DEF recovery_sweep, Sweepable
  <2> HIDE DEF SafetyInv, TypeOK, JobsOK, WorkersOK, MarkerInv, Settled, Final
  <2> QED
    BY <2>1, <2>2, <2>3, <2>4, <2>5, <2>6, <2>7
       DEF Next, RelayStep, WorkerStep, RelayClaim, RelayPublish, RelayCheckpoint, RelayCrash,
           RelayClaimExpires, WorkerReceive, BrokerRedelivers, WorkerCrash, TaskRaises,
           call_provider, persist_request_id_check, persist_request_id_write, put_if_safe,
           repair_early_ack, vars
<1>2. SafetyInv /\ [Next]_vars => [Final]_vars
  BY <1>1
<1> QED
  BY <1>2, SafetyCorrect, PTL DEF Spec, SettledIsFinal

\* A worker that moves on after its lease was swept or superseded changes no column of any
\* Job: every statement after the claim is guarded by the lease it was issued.
THEOREM StaleWorkersAreHarmless == Spec => StaleWorkerChangesNothing
<1> DEFINE Harmless == \A w \in Workers :
              workerPc[w] \in Claimed /\ workerPc'[w] # workerPc[w]
                /\ ~can_act_under_lease(workerJob[w], workerToken[w]) => UNCHANGED jobVars
<1>1. TypeOK /\ [Next]_vars => Harmless
  <2> SUFFICES ASSUME TypeOK, [Next]_vars PROVE Harmless
    OBVIOUS
  <2>1. CASE UNCHANGED jobVars \/ UNCHANGED workerPc
    BY <2>1
  <2>2. ASSUME NEW w \in Workers, claim_and_start_attempt(w)
        PROVE  Harmless
    <3>1. workerPc[w] \notin Claimed /\ \A v \in Workers \ {w} : workerPc'[v] = workerPc[v]
      BY <2>2 DEF claim_and_start_attempt, WorkerDone, Claimed, PostCall, TypeOK, WorkersOK
    <3> QED
      BY <3>1
  <2>3. ASSUME NEW w \in Workers, \/ claim_dispatch_marker(w) \/ guarded_completion(w)
                                  \/ to_pending_reconciliation(w) \/ record_contract_failure(w)
        PROVE  Harmless
    <3>1. \A v \in Workers \ {w} : workerPc'[v] = workerPc[v]
      BY <2>3 DEF claim_dispatch_marker, guarded_completion, to_pending_reconciliation,
                  record_contract_failure, WorkerGoes, WorkerDone, TypeOK, WorkersOK
    <3>2. ~can_act_under_lease(workerJob[w], workerToken[w]) => UNCHANGED jobVars
      BY <2>3 DEF claim_dispatch_marker, guarded_completion, to_pending_reconciliation,
                  record_contract_failure, jobVars
    <3> QED
      BY <3>1, <3>2
  <2> HIDE DEF Harmless
  <2> QED
    BY <2>1, <2>2, <2>3
       DEF Next, RelayStep, WorkerStep, accept_job, RelayClaim, RelayPublish, RelayCheckpoint,
           RelayCrash, RelayClaimExpires, WorkerReceive, BrokerRedelivers, WorkerCrash, TaskRaises,
           call_provider, persist_request_id_check, persist_request_id_write, put_if_safe,
           LeaseExpires, recovery_sweep, repair_early_ack, workerVars, vars
<1>2. TypeOK /\ [Next]_vars => [Harmless]_vars
  BY <1>1
<1> QED
  BY <1>2, TypeCorrect, PTL DEF Spec, StaleWorkerChangesNothing

-----------------------------------------------------------------------------
(***************************************************************************)
(* No queued Job is forgotten, given late acknowledgement and no task that *)
(* raises before its claim.                                                *)
(***************************************************************************)
LEMMA DeliveryStep ==
    ASSUME AckLate, ~TaskErrors, SafetyInv, DeliveryInv, [Next]_vars
    PROVE  DeliveryInv'
<1> DEFINE Reaches(w) == workerPc[w] = "received" => /\ workerPc'[w] = "received"
                                                     /\ workerJob'[w] = workerJob[w]
           Quiet(j) == status'[j] = "queued" => status[j] = "queued"
<1> USE DEF jobVars, outboxVars, relayVars, workerVars
<1>0. /\ rows \in [Jobs -> Nat] /\ published \in [Jobs -> SUBSET Nat] /\ broker \in [Jobs -> Nat]
      /\ \A j \in Jobs : published[j] \subseteq 1 .. rows[j]
      /\ relayPc \in [Relays -> {"idle", "publishing", "checkpointing"}]
      /\ relayJob \in [Relays -> Jobs \cup {None}] /\ relayRow \in [Relays -> Nat]
      /\ \A r \in Relays : relayPc[r] # "idle" =>
            relayJob[r] \in Jobs /\ relayRow[r] \in 1 .. rows[relayJob[r]]
      /\ workerPc \in [Workers -> {"idle", "received"} \cup Claimed]
      /\ workerJob \in [Workers -> Jobs \cup {None}]
      /\ \A w \in Workers : workerPc[w] # "idle" => workerJob[w] \in Jobs
      /\ status \in [Jobs -> Statuses]
  BY DEF SafetyInv, TypeOK, JobsOK, DeliveryOK, RowsOK, WorkersOK
<1>1. ASSUME UNCHANGED <<rows, published, broker>>, UNCHANGED relayVars,
             \A j \in Jobs : Quiet(j), \A w \in Workers : Reaches(w)
      PROVE  DeliveryInv'
  <2>1. \A j \in Jobs, i \in Nat : Undelivered(j, i) => Undelivered(j, i)'
    BY <1>1 DEF Undelivered, Unpublished
  <2>2. \A j \in Jobs : Deliverable(j) => Deliverable(j)'
    BY <1>0, <1>1, <2>1 DEF Deliverable
  <2> QED
    BY <1>1, <2>2 DEF DeliveryInv
\* A new row is unpublished and no relay works on it yet.
<1>2. ASSUME NEW S \in SUBSET Jobs,
             rows' = [j \in Jobs |-> IF j \in S THEN rows[j] + 1 ELSE rows[j]],
             \A j \in Jobs \ S : Quiet(j),
             UNCHANGED <<published, broker>>, UNCHANGED relayVars, UNCHANGED workerVars
      PROVE  DeliveryInv'
  <2> SUFFICES ASSUME NEW j \in Jobs, status'[j] = "queued"
               PROVE  Deliverable(j)'
    BY DEF DeliveryInv
  <2>1. CASE j \in S
    <3>1. rows'[j] = rows[j] + 1 /\ rows[j] + 1 \in 1 .. rows'[j] /\ rows[j] + 1 \notin published[j]
      BY <1>0, <1>2, <2>1
    <3>2. \A r \in Relays : relayPc'[r] = "checkpointing" =>
             ~(relayJob'[r] = j /\ relayRow'[r] = rows[j] + 1)
      BY <1>0, <1>2
    <3>3. rows[j] + 1 \in (1 .. rows'[j]) \ published'[j]
      BY <1>2, <3>1
    <3> QED
      BY <3>1, <3>2, <3>3 DEF Deliverable, Undelivered, Unpublished
  <2>2. CASE j \notin S
    <3>1. Deliverable(j) /\ rows'[j] = rows[j]
      BY <1>2, <2>2 DEF DeliveryInv
    <3> QED
      BY <1>2, <3>1 DEF Deliverable, Undelivered, Unpublished
  <2> QED
    BY <2>1, <2>2
<1>3. ASSUME NEW j \in Jobs, NEW f \in Fingerprints, NEW d \in BOOLEAN, accept_job(j, f, d)
      PROVE  DeliveryInv'
  <2>1. /\ UNCHANGED <<published, broker>> /\ UNCHANGED relayVars /\ UNCHANGED workerVars
    BY <1>3 DEF accept_job
  <2>2. CASE UNCHANGED <<status, fingerprint, rows>>
    BY <1>1, <2>1, <2>2
  <2>3. CASE /\ status' = [status EXCEPT ![j] = "queued"]
             /\ rows' = [rows EXCEPT ![j] = @ + 1]
    <3>1. rows' = [k \in Jobs |-> IF k \in {j} THEN rows[k] + 1 ELSE rows[k]]
      BY <1>0, <2>3
    <3>2. \A k \in Jobs \ {j} : Quiet(k)
      BY <1>0, <2>3
    <3>3. {j} \in SUBSET Jobs
      OBVIOUS
    <3> QED
      BY <1>2, <2>1, <3>1, <3>2, <3>3
  <2>4. TypeOK /\ KeyInv
    BY DEF SafetyInv
  <2> QED
    BY <1>3, <2>2, <2>3, <2>4, AcceptCases
<1>4. ASSUME NEW j \in Jobs, NEW b \in BOOLEAN, NEW a \in BOOLEAN, repair_early_ack(j, b, a)
      PROVE  DeliveryInv'
  <2>1. rows' = [k \in Jobs |-> IF k \in {j} THEN rows[k] + 1 ELSE rows[k]]
    BY <1>0, <1>4 DEF repair_early_ack
  <2>2. \A k \in Jobs \ {j} : Quiet(k)
    BY <1>4 DEF repair_early_ack
  <2>3. {j} \in SUBSET Jobs
    OBVIOUS
  <2> QED
    BY <1>2, <1>4, <2>1, <2>2, <2>3 DEF repair_early_ack
<1>5. ASSUME NEW S \in SUBSET Jobs, recovery_sweep(S)
      PROVE  DeliveryInv'
  <2> DEFINE R == {j \in S : ~HasExternalEvidence(j)}
  <2>1. /\ R \in SUBSET Jobs
        /\ rows' = [j \in Jobs |-> IF j \in R THEN rows[j] + 1 ELSE rows[j]]
        /\ \A j \in Jobs \ R : Quiet(j)
    BY <1>5 DEF recovery_sweep
  <2> HIDE DEF R
  <2> QED
    BY <1>2, <1>5, <2>1 DEF recovery_sweep
\* Publishing puts the message in the broker before the row can be checkpointed.
<1>6. ASSUME NEW r \in Relays, RelayPublish(r)
      PROVE  DeliveryInv'
  BY <1>0, <1>6 DEF RelayPublish, DeliveryInv, Deliverable, Undelivered, Unpublished
<1>7. ASSUME NEW r \in Relays, RelayCheckpoint(r)
      PROVE  DeliveryInv'
  <2>1. /\ relayPc[r] = "checkpointing" /\ relayPc' = [relayPc EXCEPT ![r] = "idle"]
        /\ relayJob' = [relayJob EXCEPT ![r] = None] /\ relayRow' = [relayRow EXCEPT ![r] = 0]
        /\ UNCHANGED <<status, rows, broker>> /\ UNCHANGED workerVars
    BY <1>7 DEF RelayCheckpoint, RelayIdles
  <2>2. \A j \in Jobs, i \in Nat : i \in published'[j] /\ i \notin published[j] =>
           relayJob[r] = j /\ relayRow[r] = i
    BY <1>0, <1>7 DEF RelayCheckpoint
  <2>3. ASSUME NEW j \in Jobs, NEW i \in 1 .. rows[j], Undelivered(j, i)
        PROVE  Undelivered(j, i)'
    BY <1>0, <2>1, <2>2, <2>3 DEF Undelivered, Unpublished
  <2> QED
    BY <2>1, <2>3 DEF DeliveryInv, Deliverable
<1>8. ASSUME NEW r \in Relays, NEW j \in Jobs, NEW i \in 1 .. rows[j], RelayClaim(r, j, i)
      PROVE  DeliveryInv'
  BY <1>0, <1>8 DEF RelayClaim, DeliveryInv, Deliverable, Undelivered, Unpublished
<1>9. ASSUME NEW r \in Relays, RelayCrash(r)
      PROVE  DeliveryInv'
  BY <1>0, <1>9 DEF RelayCrash, RelayIdles, DeliveryInv, Deliverable, Undelivered, Unpublished
\* The message moves from the broker to the worker, and back when the worker is lost.
<1>10. ASSUME NEW w \in Workers, NEW j \in Jobs, WorkerReceive(w, j)
       PROVE  DeliveryInv'
  BY <1>0, <1>10 DEF WorkerReceive, DeliveryInv, Deliverable, Undelivered, Unpublished
<1>11. ASSUME NEW w \in Workers, BrokerRedelivers(w)
       PROVE  DeliveryInv'
  BY <1>0, <1>11 DEF BrokerRedelivers, DeliveryInv, Deliverable, Undelivered, Unpublished
<1>12. ASSUME NEW w \in Workers, WorkerCrash(w)
       PROVE  DeliveryInv'
  BY <1>0, <1>12 DEF WorkerCrash, WorkerDone, DeliveryInv, Deliverable, Undelivered, Unpublished
\* A delivery that finds the Job queued claims it.
<1>13. ASSUME NEW w \in Workers, claim_and_start_attempt(w)
       PROVE  DeliveryInv'
  <2>1. /\ UNCHANGED <<rows, published, broker>> /\ UNCHANGED relayVars
        /\ workerJob[w] \in Jobs /\ workerPc[w] = "received"
        /\ status'[workerJob[w]] # "queued"
        /\ \A j \in Jobs : Quiet(j)
        /\ \A v \in Workers : v # w => Reaches(v)
    BY <1>0, <1>13 DEF claim_and_start_attempt, WorkerDone
  <2>2. ASSUME NEW j \in Jobs, status'[j] = "queued"
        PROVE  Deliverable(j)'
    <3>1. Deliverable(j) /\ workerJob[w] # j
      BY <2>1, <2>2 DEF DeliveryInv
    <3>2. \A i \in Nat : Undelivered(j, i) => Undelivered(j, i)'
      BY <2>1 DEF Undelivered, Unpublished
    <3> QED
      BY <1>0, <2>1, <3>1, <3>2 DEF Deliverable
  <2> QED
    BY <2>2 DEF DeliveryInv
<1>14. ASSUME NEW w \in Workers, workerPc[w] # "received",
              WorkerDone(w) \/ \E pc \in Claimed : WorkerGoes(w, pc)
       PROVE  \A v \in Workers : Reaches(v)
  BY <1>0, <1>14 DEF WorkerDone, WorkerGoes
<1>15. ASSUME NEW w \in Workers, TaskRaises(w)
       PROVE  DeliveryInv'
  BY <1>15, <1>1, <1>14 DEF TaskRaises
<1>16. ASSUME NEW w \in Workers, claim_dispatch_marker(w) \/ persist_request_id_check(w)
                                 \/ persist_request_id_write(w)
       PROVE  DeliveryInv'
  BY <1>16, <1>14, <1>1 DEF claim_dispatch_marker, persist_request_id_check,
                            persist_request_id_write, Claimed, PostCall
<1>17. ASSUME NEW w \in Workers, NEW o \in DOMAIN ExecutionDecision, call_provider(w, o)
       PROVE  DeliveryInv'
  <2>1. ExecutionDecision[o] \in Claimed
    BY DEF ExecutionDecision, Claimed, PostCall
  <2>2. \A v \in Workers : Reaches(v)
    BY <1>17, <1>14, <2>1 DEF call_provider
  <2> QED
    BY <1>17, <1>1, <2>2 DEF call_provider
<1>18. ASSUME NEW w \in Workers, NEW v \in {"verified", "conflict", "absent"}, put_if_safe(w, v)
       PROVE  DeliveryInv'
  BY <1>18, <1>14, <1>1 DEF put_if_safe, Claimed, PostCall
<1>19. ASSUME NEW w \in Workers, \/ guarded_completion(w) \/ to_pending_reconciliation(w)
                                 \/ record_contract_failure(w)
       PROVE  DeliveryInv'
  <2>1. \A j \in Jobs : Quiet(j)
    BY <1>0, <1>19 DEF guarded_completion, to_pending_reconciliation, record_contract_failure,
                       LeaveRunning
  <2> QED
    BY <1>19, <1>14, <1>1, <2>1 DEF guarded_completion, to_pending_reconciliation,
                                    record_contract_failure
<1>20. CASE UNCHANGED <<status, rows, published, broker>> /\ UNCHANGED relayVars /\ UNCHANGED workerVars
  BY <1>20, <1>1
<1> QED
  BY <1>3, <1>4, <1>5, <1>6, <1>7, <1>8, <1>9, <1>10, <1>11, <1>12, <1>13, <1>15, <1>16,
     <1>17, <1>18, <1>19, <1>20
     DEF Next, RelayStep, WorkerStep, RelayClaimExpires, LeaseExpires, vars

\* With late acknowledgement and tasks that do not raise before their claim, a queued Job
\* always has an unpublished intent, a message or a worker about to claim it.
THEOREM NoQueuedJobForgotten ==
    ASSUME AckLate, ~TaskErrors
    PROVE  Spec => []QueuedAwaitsDelivery
<1>1. Init => DeliveryInv
  BY DEF Init, DeliveryInv
<1>2. SafetyInv /\ DeliveryInv /\ [Next]_vars => DeliveryInv'
  BY DeliveryStep
<1>3. SafetyInv /\ DeliveryInv => QueuedAwaitsDelivery
  BY DEF DeliveryInv, Deliverable, QueuedAwaitsDelivery, AwaitsDelivery, Undelivered
<1> QED
  BY <1>1, <1>2, <1>3, SafetyCorrect, PTL DEF Spec
-----------------------------------------------------------------------------
(***************************************************************************)
(* The pipeline implements JobContract.                                    *)
(***************************************************************************)

\* What one step may do to the columns of a Job that the contract sees: one case per step
\* of the contract, with the number of calls in place of the fact that there was one.
View(j) ==
    \/ status'[j] = status[j] /\ marker'[j] = marker[j] /\ calls'[j] = calls[j]
    \/ /\ status[j] = "absent" /\ status'[j] = "queued"
       /\ marker'[j] = marker[j] /\ calls'[j] = calls[j]
    \/ /\ status[j] = "queued" /\ status'[j] = "running"
       /\ marker'[j] = marker[j] /\ calls'[j] = calls[j]
    \/ /\ status[j] = "running" /\ status'[j] = "queued"
       /\ ~marker[j] /\ marker'[j] = marker[j] /\ calls'[j] = calls[j]
    \/ /\ status[j] = "running" /\ status'[j] = "running"
       /\ ~marker[j] /\ marker'[j] = TRUE /\ calls'[j] = calls[j]
    \/ /\ status[j] \in {"running", "pending_reconciliation"} /\ status'[j] = status[j]
       /\ marker[j] /\ marker'[j] = marker[j] /\ calls[j] = 0 /\ calls'[j] = 1
    \/ /\ status[j] = "running" /\ marker[j] /\ marker'[j] = marker[j] /\ calls'[j] = calls[j]
       /\ status'[j] \in {"succeeded", "failed"} => calls[j] = 1
       /\ status'[j] \in Settled

\* Every step of the pipeline changes a Job the way one step of the contract does.
LEMMA ViewStep == SafetyInv /\ [Next]_vars => \A j \in Jobs : View(j)
<1> SUFFICES ASSUME SafetyInv, [Next]_vars PROVE \A j \in Jobs : View(j)
  OBVIOUS
<1> DEFINE Goal == \A j \in Jobs : View(j)
<1> USE DEF SafetyInv, TypeOK, JobsOK, EvidenceOK, WorkersOK, View, jobVars, evidenceVars
<1>1. ASSUME UNCHANGED <<status, marker, calls>>
      PROVE  Goal
  BY <1>1
<1>2. ASSUME NEW j \in Jobs, NEW f \in Fingerprints, NEW d \in BOOLEAN, accept_job(j, f, d)
      PROVE  Goal
  <2>1. UNCHANGED <<marker, calls>>
    BY <1>2 DEF accept_job
  <2> QED
    BY <1>2, <2>1, AcceptCases
<1>3. ASSUME NEW w \in Workers, claim_and_start_attempt(w)
      PROVE  Goal
  BY <1>3 DEF claim_and_start_attempt
<1>4. ASSUME NEW w \in Workers, claim_dispatch_marker(w)
      PROVE  Goal
  <2>1. CASE can_act_under_lease(workerJob[w], workerToken[w])
    <3>1. /\ workerJob[w] \in Jobs /\ workerPc[w] = "claimed"
          /\ marker' = [marker EXCEPT ![workerJob[w]] = TRUE]
          /\ UNCHANGED <<status, calls>>
      BY <1>4, <2>1 DEF claim_dispatch_marker
    <3>2. status[workerJob[w]] = "running" /\ workerToken[w] = attempt[workerJob[w]]
      BY <2>1, <3>1 DEF can_act_under_lease, LeaseInv
    <3>3. ~marker[workerJob[w]]
      BY <3>1, <3>2 DEF CallInv
    <3> QED
      BY <3>1, <3>2, <3>3
  <2>2. CASE ~can_act_under_lease(workerJob[w], workerToken[w])
    BY <1>4, <2>2 DEF claim_dispatch_marker
  <2> QED
    BY <2>1, <2>2
<1>5. ASSUME NEW w \in Workers, NEW o \in DOMAIN ExecutionDecision, call_provider(w, o)
      PROVE  Goal
  <2>1. /\ workerJob[w] \in Jobs /\ workerPc[w] = "calling"
        /\ calls' = [calls EXCEPT ![workerJob[w]] = @ + 1]
        /\ UNCHANGED <<status, marker>>
    BY <1>5 DEF call_provider
  <2>2. marker[workerJob[w]] /\ calls[workerJob[w]] = 0
    BY <2>1 DEF CallInv
  <2>3. status[workerJob[w]] \in {"running", "pending_reconciliation"}
    BY <2>1, <2>2 DEF MarkerInv, Settled, SucceededHasEvidence
  <2> QED
    BY <2>1, <2>2, <2>3
<1>6. ASSUME NEW w \in Workers, \/ guarded_completion(w) \/ to_pending_reconciliation(w)
                                \/ record_contract_failure(w)
      PROVE  Goal
  <2>1. /\ workerJob[w] \in Jobs
        /\ marker[workerJob[w]] /\ calls[workerJob[w]] = 1
    BY <1>6 DEF guarded_completion, to_pending_reconciliation, record_contract_failure, CallInv,
                PostCall
  <2>2. UNCHANGED <<marker, calls>>
    BY <1>6 DEF guarded_completion, to_pending_reconciliation, record_contract_failure,
                LeaveRunning
  <2>3. \/ UNCHANGED status
        \/ /\ status[workerJob[w]] = "running"
           /\ \E s \in Settled : status' = [status EXCEPT ![workerJob[w]] = s]
    BY <1>6 DEF guarded_completion, to_pending_reconciliation, record_contract_failure,
                LeaveRunning, can_act_under_lease, Settled
  <2> QED
    BY <2>1, <2>2, <2>3
<1>7. ASSUME NEW S \in SUBSET Jobs, recovery_sweep(S)
      PROVE  Goal
  <2>1. \A j \in Jobs : /\ j \notin S => status'[j] = status[j]
                        /\ j \in S => /\ status[j] = "running"
                                      /\ status'[j] = IF marker[j] THEN "pending_reconciliation"
                                                                    ELSE "queued"
    BY <1>7 DEF recovery_sweep, Sweepable, HasExternalEvidence, MarkerInv
  <2>2. UNCHANGED <<marker, calls>>
    BY <1>7 DEF recovery_sweep
  <2> QED
    BY <2>1, <2>2 DEF Settled
<1> HIDE DEF SafetyInv, TypeOK, JobsOK, EvidenceOK, WorkersOK, View, Goal
<1>8. ASSUME NEW w \in Workers, WorkerStep(w)
      PROVE  Goal
  <2>1. ASSUME \/ persist_request_id_check(w) \/ persist_request_id_write(w)
               \/ \E v \in {"verified", "conflict", "absent"} : put_if_safe(w, v)
        PROVE  Goal
    BY <1>1, <2>1 DEF persist_request_id_check, persist_request_id_write, put_if_safe
  <2> QED
    BY <1>3, <1>4, <1>5, <1>6, <1>8, <2>1 DEF WorkerStep
<1>9. ASSUME NEW r \in Relays, RelayStep(r)
      PROVE  Goal
  BY <1>1, <1>9 DEF RelayStep, RelayClaim, RelayPublish, RelayCheckpoint
<1>10. Goal
  BY <1>1, <1>2, <1>7, <1>8, <1>9
     DEF Next, RelayCrash, RelayClaimExpires, WorkerReceive, BrokerRedelivers, WorkerCrash,
         TaskRaises, LeaseExpires, repair_early_ack, vars
<1> QED
  BY <1>10 DEF Goal

\* Every step of the pipeline is a step of the contract under the refinement mapping.
LEMMA ContractStep == SafetyInv /\ SafetyInv' /\ [Next]_vars => Contract!Next
<1> SUFFICES ASSUME SafetyInv, SafetyInv', [Next]_vars PROVE Contract!Next
  OBVIOUS
<1>1. ASSUME NEW j \in Jobs
      PROVE  \/ Contract!Same(j) \/ Contract!Accept(j) \/ Contract!Start(j) \/ Contract!Requeue(j)
             \/ Contract!Authorise(j) \/ Contract!Call(j) \/ Contract!Settle(j)
  <2>1. View(j)
    BY ViewStep
  <2>2. /\ calls[j] \in Nat /\ calls'[j] \in Nat /\ marker[j] \in BOOLEAN /\ marker'[j] \in BOOLEAN
    BY DEF SafetyInv, TypeOK, JobsOK, EvidenceOK
  <2> DEFINE now == [i \in Jobs |-> calls[i] > 0][j]
             next == [i \in Jobs |-> calls[i] > 0]'[j]
  <2>3. now = (calls[j] > 0) /\ next = (calls'[j] > 0)
    OBVIOUS
  <2> HIDE DEF now, next
  <2>4. /\ now \in BOOLEAN /\ next \in BOOLEAN
        /\ calls'[j] = calls[j] => next = now
        /\ calls[j] = 1 => now = TRUE
        /\ calls[j] = 0 /\ calls'[j] = 1 => now = FALSE /\ next = TRUE
    <3>1. /\ calls[j] = 1 => calls[j] > 0
          /\ calls[j] = 0 => ~(calls[j] > 0)
          /\ calls'[j] = 1 => calls'[j] > 0
      BY <2>2
    <3>2. (calls[j] > 0) \in BOOLEAN /\ (calls'[j] > 0) \in BOOLEAN
      BY <2>2
    <3> QED
      BY <2>3, <3>1, <3>2, Zenon
  <2> QED
    BY <2>1, <2>2, <2>4, Zenon
       DEF View, now, next, Settled, Contract!Same, Contract!Accept, Contract!Start,
           Contract!Requeue, Contract!Authorise, Contract!Call, Contract!Settle, Contract!Becomes
<1>2. DOMAIN status' = Jobs /\ DOMAIN marker' = Jobs
  BY DEF SafetyInv, TypeOK, JobsOK
<1> QED
  BY <1>1, <1>2 DEF Contract!Next

\* Seen through the marker and the call, every behaviour of relays, workers, sweeps and
\* repairs is one that the contract allows.
THEOREM PipelineImplementsContract == Spec => ImplementsContract
<1>1. Init => Contract!Init
  <2> SUFFICES ASSUME Init PROVE Contract!Init
    OBVIOUS
  <2>1. \A j \in Jobs : (calls[j] > 0) = FALSE
    BY DEF Init
  <2>2. [j \in Jobs |-> calls[j] > 0] = [j \in Jobs |-> FALSE]
    BY <2>1, Zenon
  <2> QED
    BY <2>2 DEF Init, Contract!Init
<1>2. SafetyInv /\ SafetyInv' /\ [Next]_vars => [Contract!Next]_(Contract!vars)
  BY ContractStep
<1> QED
  BY <1>1, <1>2, SafetyCorrect, PTL DEF Spec, ImplementsContract, Contract!Spec

-----------------------------------------------------------------------------
(***************************************************************************)
(* Durable agent Jobs: checkpoints, recoveries and takeovers.              *)
(***************************************************************************)

\* What a candidate may ask for: a state of the machine, no release while the outcome is
\* unknown, and a settlement only of a usage that evidence reported.
WellFormed(c) ==
    /\ c.next \in AgentState
    /\ c.decision \in {"ESCALATE", "RECONCILE"} => c.reservation = "KEEP_HELD"
    /\ c.reservation = "SETTLE_VERIFIED" => c.usage \in Usages

WorkInv == \A r \in Recoveries : work[r] # Unset => WellFormed(work[r].candidate)

\* The chain of checkpoints is built from the recoveries that were applied.
OperationsInv == DOMAIN recovery_operations \subseteq Recoveries /\ IsFiniteSet(DOMAIN recovery_operations)

\* What a worker saw when it began was so then, and nothing of it ever decreases.
BegunInv == \A w \in AgentWorkers : begun[w] # Unset =>
                /\ {begun[w].fence, begun[w].version, begun[w].generation} \subseteq Nat
                /\ begun[w].fence = begun[w].version + begun[w].generation
                /\ begun[w].version <= version /\ begun[w].generation <= generation

DurableInv == /\ AgentJobTypeOK /\ DOMAIN work = Recoveries /\ DOMAIN begun = AgentWorkers
              /\ WorkInv /\ OperationsInv /\ BegunInv /\ HistoryIsLinear /\ UnknownUsageStaysHeld

-----------------------------------------------------------------------------
\* decide_durable_recovery: whichever early return is taken.
LEMMA DecideOutcome ==
  ASSUME NEW s \in AgentState, NEW e \in RecoveryEvidence, NEW d, d = decide_durable_recovery(s, e)
  PROVE  /\ d[2] \in AgentState
         /\ d[1] \in {"ESCALATE", "RECONCILE"} => d[3] = "KEEP_HELD"
         /\ d[3] = "SETTLE_VERIFIED" => d[1] = "SETTLE" /\ e.usage \in Usages
<1> DEFINE p == PendingUnlessTerminal(s)
           a1 == e.exhausted
           a2 == e.certainty = "OUTCOME_UNKNOWN"
           a3 == e.repair
           a4 == e.unwanted /\ ~e.auth
           a5 == e.unwanted
           a6 == e.usage # Unset
           a7 == s \in TERMINAL_STATES
           a8 == ~e.binding /\ ~e.auth
           a9 == ~e.binding
           a10 == e.certainty = "DEFINITELY_NOT_DISPATCHED" /\ ~e.auth
           a11 == e.certainty = "DEFINITELY_NOT_DISPATCHED"
           r1 == <<"ESCALATE", p, "KEEP_HELD", FALSE>>
           r2 == <<"RECONCILE", p, "KEEP_HELD", TRUE>>
           r3 == <<"REPAIR", s, "NO_CHANGE", FALSE>>
           r4 == <<"BLOCKED", s, "NO_CHANGE", FALSE>>
           r5 == <<"COMPENSATE", s, "NO_CHANGE", TRUE>>
           r6 == <<"SETTLE", s, "SETTLE_VERIFIED", FALSE>>
           r7 == <<"TERMINAL_NOOP", s, "NO_CHANGE", FALSE>>
           r8 == <<"BLOCKED", s, "RELEASE", FALSE>>
           r9 == <<"REPLAN", "WAITING", "RELEASE", TRUE>>
           r10 == <<"BLOCKED", s, "RELEASE", FALSE>>
           r11 == <<"RETRY", "RUNNING", "RELEASE", TRUE>>
           r12 == <<"RESUME", s, "NO_CHANGE", FALSE>>
           rules == << <<a1, r1>>, <<a2, r2>>, <<a3, r3>>, <<a4, r4>>, <<a5, r5>>, <<a6, r6>>,
                       <<a7, r7>>, <<a8, r8>>, <<a9, r9>>, <<a10, r10>>, <<a11, r11>>, <<TRUE, r12>> >>
           Good(x) == /\ x[2] \in AgentState
                      /\ x[1] \in {"ESCALATE", "RECONCILE"} => x[3] = "KEEP_HELD"
                      /\ x[3] = "SETTLE_VERIFIED" => x[1] = "SETTLE" /\ e.usage \in Usages
<1>1. d = FirstMatch(rules)
  BY Zenon DEF decide_durable_recovery
<1>2. p \in AgentState /\ "WAITING" \in AgentState /\ "RUNNING" \in AgentState
  BY DEF PendingUnlessTerminal, AgentState, TERMINAL_STATES
<1>3. a6 => e.usage \in Usages
  BY DEF RecoveryEvidence
<1> HIDE DEF p, a1, a2, a3, a4, a5, a6, a7, a8, a9, a10, a11
<1>4. /\ Good(r1)
      /\ Good(r2)
      /\ Good(r3)
      /\ Good(r4)
      /\ Good(r5)
      /\ a6 => Good(r6)
  BY <1>2, <1>3
<1>5. /\ Good(r7)
      /\ Good(r8)
      /\ Good(r9)
      /\ Good(r10)
      /\ Good(r11)
      /\ Good(r12)
  BY <1>2
<1> HIDE DEF r1, r2, r3, r4, r5, r6, r7, r8, r9, r10, r11, r12, Good
<1>6. DOMAIN rules = 1 .. 12
  OBVIOUS
<1>7. /\ rules[1][2] = r1
      /\ rules[2][2] = r2
      /\ rules[3][2] = r3
      /\ rules[4][2] = r4
      /\ rules[5][2] = r5
      /\ rules[6] = <<a6, r6>>
      /\ rules[7][2] = r7
      /\ rules[8][2] = r8
      /\ rules[9][2] = r9
      /\ rules[10][2] = r10
      /\ rules[11][2] = r11
      /\ rules[12][2] = r12
      /\ rules[12][1]
  OBVIOUS
<1> HIDE DEF rules
<1>8. PICK i \in 1 .. 12 : rules[i][1] /\ FirstMatch(rules) = rules[i][2]
  <2>1. 12 \in Nat /\ 12 > 0 /\ rules[12][1]
    BY <1>7
  <2> QED
    BY <1>6, <2>1, FirstMatchApplies
<1>9. Good(d)
  BY <1>1, <1>4, <1>5, <1>7, <1>8
<1> QED
  BY <1>9 DEF Good

LEMMA CandidatesWellFormed ==
  ASSUME NEW s \in AgentState, NEW c \in Candidates[s] PROVE WellFormed(c)
<1>1. PICK e \in RecoveryEvidence : c = LET d == decide_durable_recovery(s, e) IN
              [decision |-> d[1], next |-> d[2], reservation |-> d[3], intent |-> d[4],
               usage |-> IF d[1] = "SETTLE" THEN e.usage ELSE Unset]
  BY Zenon DEF Candidates
<1> DEFINE d == decide_durable_recovery(s, e)
<1>2. /\ d[2] \in AgentState
      /\ d[1] \in {"ESCALATE", "RECONCILE"} => d[3] = "KEEP_HELD"
      /\ d[3] = "SETTLE_VERIFIED" => d[1] = "SETTLE" /\ e.usage \in Usages
  BY DecideOutcome
<1>3. /\ c.decision = d[1]
      /\ c.next = d[2]
      /\ c.reservation = d[3]
      /\ c.usage = IF d[1] = "SETTLE" THEN e.usage ELSE Unset
  BY <1>1
<1> HIDE DEF d
<1> QED
  BY <1>2, <1>3 DEF WellFormed

LEMMA DurableInit == AgentJobInit => DurableInv
<1> SUFFICES ASSUME AgentJobInit PROVE DurableInv
  OBVIOUS
<1> USE DEF AgentJobInit
<1>1. AgentJobTypeOK
  BY ReservationAssumption DEF AgentJobTypeOK, AgentState, TERMINAL_STATES
<1>2. DOMAIN recovery_operations = {}
  OBVIOUS
<1>3. OperationsInv /\ Cardinality(DOMAIN recovery_operations) = 0
  BY <1>2, FS_EmptySet DEF OperationsInv
<1>4. HistoryIsLinear
  <2>1. Len(checkpoint.id) = 0 /\ DOMAIN checkpoint.id = {}
    OBVIOUS
  <2> QED
    BY <1>2, <1>3, <2>1 DEF HistoryIsLinear
<1> QED
  BY <1>1, <1>3, <1>4 DEF DurableInv, WorkInv, BegunInv, UnknownUsageStaysHeld

\* Classify: the candidate that is kept comes from the evidence of that moment.
LEMMA ClassifyStep == ASSUME DurableInv, NEW r \in Recoveries, Classify(r) PROVE DurableInv'
<1>1. PICK c \in Candidates[state] : work' = [work EXCEPT ![r] = [at |-> Snapshot, candidate |-> c]]
  BY DEF Classify
<1>2. WellFormed(c)
  BY CandidatesWellFormed DEF DurableInv, AgentJobTypeOK
<1>3. WorkInv' /\ DOMAIN work' = Recoveries
  <2>1. work'[r].candidate = c
    BY <1>1 DEF DurableInv
  <2>2. \A q \in Recoveries : q # r => work'[q] = work[q]
    BY <1>1 DEF DurableInv
  <2>3. DOMAIN work' = Recoveries
    BY <1>1 DEF DurableInv
  <2> QED
    BY <1>2, <2>1, <2>2, <2>3 DEF DurableInv, WorkInv
<1>4. UNCHANGED <<job, begun>>
  BY DEF Classify
<1> QED
  BY <1>3, <1>4 DEF DurableInv, job, AgentJobTypeOK, OperationsInv, BegunInv, HistoryIsLinear,
                    UnknownUsageStaysHeld

\* apply: the chain grows by the recovery that was not in it, with version and fence; capacity
\* leaves the held state only by a candidate that neither escalates nor reconciles.
LEMMA ApplyStep == ASSUME DurableInv, NEW r \in Recoveries, apply(r) PROVE DurableInv'
<1> DEFINE c == work[r].candidate
           chain == checkpoint.id
<1>1. /\ r \notin DOMAIN recovery_operations /\ WellFormed(c)
      /\ state' = c.next /\ version' = version + 1 /\ fence' = fence + 1
      /\ checkpoint' = NextCheckpoint(r, c)
      /\ reservation' = ReservationAfter(c)
      /\ intents' = IF c.intent THEN intents \cup {r} ELSE intents
      /\ recovery_operations' = [q \in DOMAIN recovery_operations \cup {r} |->
                                     IF q = r THEN c.decision ELSE recovery_operations[q]]
      /\ UNCHANGED <<generation, owner, expiry, work, begun>>
  BY DEF apply, Applicable, DurableInv, WorkInv
<1>2. /\ chain \in Seq(Recoveries) /\ checkpoint.version \in Nat
      /\ version \in Nat /\ fence \in Nat /\ generation \in Nat
  BY DEF DurableInv, AgentJobTypeOK
<1>3. /\ checkpoint'.id = Append(chain, r)
      /\ checkpoint'.version = checkpoint.version + 1
      /\ checkpoint'.state = c.next
      /\ checkpoint'.state_version = version + 1
  BY <1>1 DEF NextCheckpoint, _next_checkpoint_id
<1>4. /\ DOMAIN recovery_operations' = DOMAIN recovery_operations \cup {r}
      /\ recovery_operations'[r] = c.decision
      /\ \A q \in DOMAIN recovery_operations : recovery_operations'[q] = recovery_operations[q]
  BY <1>1
<1> HIDE DEF c
<1>5. OperationsInv' /\ Cardinality(DOMAIN recovery_operations') = Cardinality(DOMAIN recovery_operations) + 1
  BY <1>1, <1>4, FS_AddElement DEF DurableInv, OperationsInv
<1>6. HistoryIsLinear'
  <2> DEFINE new == Append(chain, r)
  <2>1. /\ new \in Seq(Recoveries)
        /\ Len(new) = Len(chain) + 1
        /\ DOMAIN new = DOMAIN chain \cup {Len(chain) + 1}
        /\ new[Len(chain) + 1] = r
        /\ \A i \in DOMAIN chain : new[i] = chain[i]
    BY <1>2
  <2> HIDE DEF new
  <2>2. {new[i] : i \in DOMAIN new} = {chain[i] : i \in DOMAIN chain} \cup {r}
    BY <2>1
  <2>3. checkpoint'.id = new
    BY <1>3 DEF new
  <2>4. {new[i] : i \in DOMAIN new} = DOMAIN recovery_operations'
    BY <1>4, <2>2 DEF DurableInv, HistoryIsLinear
  <2>5. Len(new) = Cardinality(DOMAIN recovery_operations')
    BY <1>5, <2>1 DEF DurableInv, HistoryIsLinear
  <2>6. checkpoint'.version = Len(new) /\ version' = Len(new)
    BY <1>1, <1>3, <2>1 DEF DurableInv, HistoryIsLinear
  <2>7. fence' = version' + generation'
    BY <1>1, <1>2 DEF DurableInv, HistoryIsLinear
  <2> QED
    BY <1>1, <1>3, <2>3, <2>4, <2>5, <2>6, <2>7 DEF HistoryIsLinear
<1>7. UnknownUsageStaysHeld'
  <2> SUFFICES ASSUME \A q \in DOMAIN recovery_operations' :
                                 recovery_operations'[q] \in {"ESCALATE", "RECONCILE"}
               PROVE  reservation'.status = "HELD"
    BY DEF UnknownUsageStaysHeld
  <2>1. c.reservation = "KEEP_HELD"
    BY <1>1, <1>4 DEF WellFormed
  <2>2. reservation' = reservation
    BY <1>1, <2>1 DEF ReservationAfter
  <2> QED
    BY <1>4, <2>2 DEF DurableInv, UnknownUsageStaysHeld
<1>8. reservation' \in [status : {"HELD", "SETTLED", "RELEASED"}, settled : 0 .. Reserved,
                        released : 0 .. Reserved]
  <2>1. c.reservation = "SETTLE_VERIFIED" => c.usage \in 0 .. Reserved /\ Reserved - c.usage \in 0 .. Reserved
    <3>1. \A u \in Usages : u \in 0 .. Reserved /\ Reserved - u \in 0 .. Reserved
      BY ReservationAssumption
    <3> QED
      BY <1>1, <3>1 DEF WellFormed
  <2>2. Reserved \in 0 .. Reserved
    BY ReservationAssumption
  <2>3. CASE c.reservation = "RELEASE"
    BY <1>1, <2>2, <2>3 DEF ReservationAfter, DurableInv, AgentJobTypeOK
  <2>4. CASE c.reservation = "SETTLE_VERIFIED"
    BY <1>1, <2>1, <2>4 DEF ReservationAfter
  <2>5. CASE c.reservation \notin {"RELEASE", "SETTLE_VERIFIED"}
    BY <1>1, <2>5 DEF ReservationAfter, DurableInv, AgentJobTypeOK
  <2> QED
    BY <2>3, <2>4, <2>5
<1>9. checkpoint' \in [id : Seq(Recoveries), version : Nat, state : AgentState, state_version : Nat]
  BY <1>1, <1>2 DEF NextCheckpoint, _next_checkpoint_id, WellFormed
<1>10. AgentJobTypeOK'
  BY <1>1, <1>2, <1>8, <1>9 DEF DurableInv, AgentJobTypeOK, WellFormed
<1>11. WorkInv' /\ BegunInv' /\ DOMAIN work' = Recoveries /\ DOMAIN begun' = AgentWorkers
  BY <1>1, <1>2 DEF DurableInv, WorkInv, BegunInv
<1> QED
  BY <1>5, <1>6, <1>7, <1>10, <1>11 DEF DurableInv

LEMMA DurableStep == DurableInv /\ [AgentJobNext]_agentJobVars => DurableInv'
<1> SUFFICES ASSUME DurableInv, [AgentJobNext]_agentJobVars PROVE DurableInv'
  OBVIOUS
<1>1. ASSUME NEW w \in AgentWorkers, take_over_expired_lease(w) PROVE DurableInv'
  <2>1. AgentJobTypeOK'
    BY <1>1 DEF take_over_expired_lease, DurableInv, AgentJobTypeOK
  <2>2. BegunInv'
    BY <1>1 DEF take_over_expired_lease, DurableInv, AgentJobTypeOK, BegunInv
  <2>3. HistoryIsLinear'
    BY <1>1 DEF take_over_expired_lease, DurableInv, AgentJobTypeOK, HistoryIsLinear
  <2> QED
    BY <1>1, <2>1, <2>2, <2>3
       DEF take_over_expired_lease, DurableInv, WorkInv, OperationsInv, UnknownUsageStaysHeld
<1>2. ASSUME NEW w \in AgentWorkers, Begin(w) PROVE DurableInv'
  <2>1. BegunInv' /\ DOMAIN begun' = AgentWorkers
    BY <1>2 DEF Begin, job, DurableInv, AgentJobTypeOK, BegunInv, HistoryIsLinear
  <2> QED
    BY <1>2, <2>1 DEF Begin, job, DurableInv, AgentJobTypeOK, WorkInv, OperationsInv, HistoryIsLinear,
                      UnknownUsageStaysHeld
<1>3. CASE Tick
  BY <1>3 DEF Tick, DurableInv, AgentJobTypeOK, WorkInv, OperationsInv, BegunInv, HistoryIsLinear,
              UnknownUsageStaysHeld
<1>4. CASE UNCHANGED agentJobVars
  BY <1>4 DEF agentJobVars, job, DurableInv, AgentJobTypeOK, WorkInv, OperationsInv, BegunInv, HistoryIsLinear,
              UnknownUsageStaysHeld
<1> QED
  BY <1>1, <1>2, <1>3, <1>4, ClassifyStep, ApplyStep DEF AgentJobNext

-----------------------------------------------------------------------------
\* Types, the linear history and the held reservation are inductive together with what recovery
\* processes and workers remember: candidates that may be stale, and the record at the start of
\* an attempt.
THEOREM DurableInvariant == AgentJobSpec => []DurableInv
<1> QED
  BY DurableInit, DurableStep, PTL DEF AgentJobSpec

\* Whatever recoveries are classified, delivered twice or late and interleaved with takeovers,
\* the applied ones form one chain that versions and fences count.
THEOREM RecoveriesFormOneChain == AgentJobSpec => []HistoryIsLinear
<1>1. DurableInv => HistoryIsLinear
  BY DEF DurableInv
<1> QED
  BY <1>1, DurableInvariant, PTL

\* Escalation and reconciliation alone never give reserved capacity back.
THEOREM UnknownOutcomeKeepsCapacity == AgentJobSpec => []UnknownUsageStaysHeld
<1>1. DurableInv => UnknownUsageStaysHeld
  BY DEF DurableInv
<1> QED
  BY <1>1, DurableInvariant, PTL

\* A worker's result is authorised only if no recovery and no takeover came since it began: the
\* fence counts both, so an equal fence means that neither counter moved.
THEOREM OnlyCurrentResultsCount == AgentJobSpec => []NoSupersededResult
<1>1. DurableInv => NoSupersededResult
  <2> SUFFICES ASSUME DurableInv, NEW w \in AgentWorkers, accept_result(w)
               PROVE  /\ begun[w].version = version /\ begun[w].generation = generation
                      /\ \A v \in AgentWorkers : accept_result(v) => v = w
    BY DEF NoSupersededResult
  <2>1. begun[w] # Unset /\ owner = w /\ fence = begun[w].fence
    BY DEF accept_result
  <2>2. begun[w].version = version /\ begun[w].generation = generation
    BY <2>1 DEF DurableInv, AgentJobTypeOK, BegunInv, HistoryIsLinear
  <2> QED
    BY <2>1, <2>2 DEF accept_result
<1> QED
  BY <1>1, DurableInvariant, PTL

-----------------------------------------------------------------------------
(***************************************************************************)
(* Handoffs between agents.                                                *)
(***************************************************************************)

\* States of a handoff whose provider call was allowed.
Called == {"DISPATCHED", "PENDING_RECONCILIATION", "VERIFIED_COMPLETED"}

\* What holds of every record: a handoff somebody claimed has an owner, only a cancelled one
\* gave its tokens back, and cancellation is recorded nowhere on the way to a verified result.
Sound(r) ==
    /\ r.state \in Called \cup {"CLAIMED"} => r.owner # Absent
    /\ r.state # "FAILED"
    /\ r.allocation = "RELEASED" <=> r.state = "CANCELLED"
    /\ r.cancellation => r.state \in {"CANCELLED", "PENDING_RECONCILIATION"}

RecordInv == \A h \in Known : Sound(records[h])

\* Dispatches and the states that come after one are the same thing, and fences only grow.
ChildCallInv ==
    /\ \A x \in childCalls : /\ x.handoff \in Known /\ records[x.handoff].state \in Called
                        /\ x.fence <= records[x.handoff].fence
    /\ \A x, y \in childCalls : x.handoff = y.handoff => x = y
    /\ \A h \in Known : records[h].state \in Called => \E x \in childCalls : x.handoff = h

\* Facts and verified handoffs are the same thing.
FactInv ==
    /\ IsFiniteSet(facts)
    /\ \A e \in facts : /\ e.handoff \in Known /\ records[e.handoff].state = "VERIFIED_COMPLETED"
                        /\ \E x \in childCalls : x.handoff = e.handoff /\ x.fence <= e.fence
                        /\ \A d \in facts : d.handoff = e.handoff => d = e
    /\ \A h \in Known : records[h].state = "VERIFIED_COMPLETED" => \E e \in facts : e.handoff = h

CoordinationInv == HandoffTypeOK /\ RecordInv /\ ChildCallInv /\ FactInv

-----------------------------------------------------------------------------
LEMMA CoordinationInit == HandoffInit => CoordinationInv
<1> SUFFICES ASSUME HandoffInit PROVE CoordinationInv
  OBVIOUS
<1>1. HandoffTypeOK
  BY DEF HandoffInit, HandoffTypeOK
<1>2. Known = {}
  BY DEF HandoffInit, Known
<1> QED
  BY <1>1, <1>2, FS_EmptySet DEF HandoffInit, CoordinationInv, RecordInv, ChildCallInv, FactInv

\* What writing one record does to the store.
LEMMA UpdateEffect ==
  ASSUME HandoffTypeOK, NEW h \in Handoffs, NEW q \in HandoffRecord, Update(h, q)
  PROVE  /\ records' \in [Handoffs -> HandoffRecord \cup {Absent}]
         /\ records'[h] = q
         /\ \A g \in Handoffs : g # h => records'[g] = records[g]
         /\ Known' = Known \cup {h}
<1>1. /\ records' \in [Handoffs -> HandoffRecord \cup {Absent}]
      /\ records'[h] = q
      /\ \A g \in Handoffs : g # h => records'[g] = records[g]
  BY Zenon DEF HandoffTypeOK, Update
<1>2. q # Absent
  BY AbsentAssumption
<1> QED
  BY <1>1, <1>2 DEF Known

\* A known handoff has a record.
LEMMA KnownRecord == ASSUME HandoffTypeOK, NEW h \in Known PROVE h \in Handoffs /\ records[h] \in HandoffRecord
BY DEF HandoffTypeOK, Known

\* Steps that move one handoff without dispatching it or verifying its result.
Moves(h, q) == /\ Update(h, q)
               /\ Sound(q)
               /\ q.state \in Called <=> records[h].state \in Called
               /\ q.state = "VERIFIED_COMPLETED" <=> records[h].state = "VERIFIED_COMPLETED"
               /\ q.fence >= records[h].fence
               /\ UNCHANGED <<facts, childCalls>>

LEMMA MovesKeep ==
  ASSUME CoordinationInv, NEW h \in Known, NEW q \in HandoffRecord, Moves(h, q)
  PROVE  RecordInv' /\ ChildCallInv' /\ FactInv'
<1>1. h \in Handoffs /\ records[h] \in HandoffRecord
  BY KnownRecord DEF CoordinationInv
<1>2. /\ records'[h] = q
      /\ \A g \in Handoffs : g # h => records'[g] = records[g]
      /\ Known' = Known
  BY <1>1, UpdateEffect DEF CoordinationInv, Moves
<1>3. Known \subseteq Handoffs
  BY DEF Known
<1>4. \A g \in Known : records[g].fence \in Nat /\ records'[g].fence \in Nat /\ records[g].fence <= records'[g].fence
  <2> TAKE g \in Known
  <2>1. records[g].fence \in Nat
    BY KnownRecord DEF CoordinationInv, HandoffRecord
  <2>2. q.fence \in Nat
    BY DEF HandoffRecord
  <2> QED
    BY <1>2, <1>3, <2>1, <2>2 DEF Moves
<1>5. RecordInv'
  BY <1>2, <1>3 DEF CoordinationInv, RecordInv, Moves
<1>6. \A g \in Known : /\ records'[g].state \in Called <=> records[g].state \in Called
                       /\ records'[g].state = "VERIFIED_COMPLETED" <=> records[g].state = "VERIFIED_COMPLETED"
  BY <1>2, <1>3 DEF Moves
<1>7. ChildCallInv'
  <2>1. \A x \in childCalls : x.fence \in Nat
    BY DEF CoordinationInv, HandoffTypeOK
  <2> QED
    BY <1>2, <1>4, <1>6, <2>1 DEF CoordinationInv, ChildCallInv, Moves
<1>8. FactInv'
  BY <1>2, <1>6 DEF CoordinationInv, FactInv, Moves
<1> QED
  BY <1>5, <1>7, <1>8

\* A step that moves a handoff in this sense and leaves everything else well typed keeps the
\* invariant; the lemmas below show which steps are such moves.
LEMMA MoveStep ==
  ASSUME CoordinationInv, NEW h \in Known, NEW q \in HandoffRecord, Moves(h, q),
         UNCHANGED <<parent_terminal, lapsed>>, ticket' \in [ChildWorkers -> [Handoffs -> Nat]]
  PROVE  CoordinationInv'
<1>1. h \in Handoffs
  BY DEF Known
<1>2. HandoffTypeOK'
  BY <1>1, UpdateEffect DEF CoordinationInv, HandoffTypeOK, Moves
<1> QED
  BY <1>2, MovesKeep DEF CoordinationInv

LEMMA PublishStep ==
  ASSUME CoordinationInv, NEW h \in Handoffs, mark_outbox_published(h)
  PROVE  CoordinationInv'
<1> DEFINE r == records[h]
           q == [r EXCEPT !.published = TRUE]
<1>1. h \in Known /\ r \in HandoffRecord /\ Sound(r)
  BY KnownRecord DEF mark_outbox_published, CoordinationInv, RecordInv
<1>2. Update(h, q) /\ UNCHANGED <<facts, parent_terminal, ticket, childCalls, lapsed>>
  BY Zenon DEF mark_outbox_published
<1>3. ticket' \in [ChildWorkers -> [Handoffs -> Nat]]
  BY <1>2 DEF CoordinationInv, HandoffTypeOK
<1> HIDE DEF r
<1>4. q \in HandoffRecord
  BY <1>1 DEF HandoffRecord, HandoffState
<1>5. /\ q.state = r.state
      /\ q.owner = r.owner
      /\ q.fence = r.fence
      /\ q.cancellation = r.cancellation
      /\ q.allocation = r.allocation
  BY <1>1 DEF HandoffRecord
<1> HIDE DEF q
<1>6. Moves(h, q)
  BY <1>1, <1>2, <1>5 DEF Moves, Sound, r, HandoffRecord
<1> QED
  BY <1>1, <1>2, <1>3, <1>4, <1>6, MoveStep

LEMMA ExpireStep ==
  ASSUME CoordinationInv, NEW h \in Handoffs, Expire(h)
  PROVE  CoordinationInv'
<1> DEFINE r == records[h]
           q == [r EXCEPT !.lease = "expired"]
<1>1. h \in Known /\ r \in HandoffRecord /\ Sound(r)
  BY KnownRecord DEF Expire, CoordinationInv, RecordInv
<1>2. Update(h, q) /\ UNCHANGED <<facts, parent_terminal, ticket, childCalls, lapsed>>
  BY Zenon DEF Expire
<1>3. ticket' \in [ChildWorkers -> [Handoffs -> Nat]]
  BY <1>2 DEF CoordinationInv, HandoffTypeOK
<1> HIDE DEF r
<1>4. q \in HandoffRecord
  BY <1>1 DEF HandoffRecord, HandoffState
<1>5. /\ q.state = r.state
      /\ q.owner = r.owner
      /\ q.fence = r.fence
      /\ q.cancellation = r.cancellation
      /\ q.allocation = r.allocation
  BY <1>1 DEF HandoffRecord
<1> HIDE DEF q
<1>6. Moves(h, q)
  BY <1>1, <1>2, <1>5 DEF Moves, Sound, r, HandoffRecord
<1> QED
  BY <1>1, <1>2, <1>3, <1>4, <1>6, MoveStep

\* claim: a handoff without an owner was never dispatched.
LEMMA ClaimStep ==
  ASSUME CoordinationInv, NEW w \in ChildWorkers, NEW h \in Handoffs, claim(w, h)
  PROVE  CoordinationInv'
<1> DEFINE r == records[h]
           n == r.fence + 1
           q == [r EXCEPT !.state = "CLAIMED", !.owner = w, !.lease = "live", !.fence = n]
<1>1. h \in Known /\ r \in HandoffRecord /\ Sound(r)
  BY KnownRecord DEF claim, CoordinationInv, RecordInv
<1>2. Update(h, q) /\ UNCHANGED <<facts, parent_terminal, childCalls, lapsed>>
  BY Zenon DEF claim
<1>3. r.state = "ACCEPTED"
  BY <1>1 DEF claim, Sound, HandoffRecord, HandoffState, Called
<1>4. n \in Nat /\ n >= r.fence
  BY <1>1 DEF HandoffRecord
<1>5. ticket' \in [ChildWorkers -> [Handoffs -> Nat]]
  BY <1>4 DEF claim, CoordinationInv, HandoffTypeOK
<1> HIDE DEF r, n
<1>6. q \in HandoffRecord
  BY <1>1, <1>4 DEF HandoffRecord, HandoffState
<1>7. /\ q.state = "CLAIMED"
      /\ q.owner = w
      /\ q.fence = n
      /\ q.cancellation = r.cancellation
      /\ q.allocation = r.allocation
  BY <1>1, <1>4 DEF HandoffRecord
<1> HIDE DEF q
<1>8. Moves(h, q)
  BY <1>1, <1>2, <1>3, <1>4, <1>7, AbsentAssumption DEF Moves, Sound, r, HandoffRecord, Called
<1> QED
  BY <1>1, <1>2, <1>5, <1>6, <1>8, MoveStep

LEMMA TakeOverStep ==
  ASSUME CoordinationInv, NEW w \in ChildWorkers, NEW h \in Handoffs, take_over_expired_handoff_lease(w, h)
  PROVE  CoordinationInv'
<1> DEFINE r == records[h]
           n == r.fence + 1
           q == [r EXCEPT !.owner = w, !.lease = "live", !.fence = n]
<1>1. h \in Known /\ r \in HandoffRecord /\ Sound(r)
  BY KnownRecord DEF take_over_expired_handoff_lease, CoordinationInv, RecordInv
<1>2. Update(h, q) /\ UNCHANGED <<facts, parent_terminal, childCalls, lapsed>>
  BY Zenon DEF take_over_expired_handoff_lease
<1>3. n \in Nat /\ n >= r.fence
  BY <1>1 DEF HandoffRecord
<1>4. ticket' \in [ChildWorkers -> [Handoffs -> Nat]]
  BY <1>3 DEF take_over_expired_handoff_lease, CoordinationInv, HandoffTypeOK
<1> HIDE DEF r, n
<1>5. q \in HandoffRecord
  BY <1>1, <1>3 DEF HandoffRecord, HandoffState
<1>6. /\ q.state = r.state
      /\ q.owner = w
      /\ q.fence = n
      /\ q.cancellation = r.cancellation
      /\ q.allocation = r.allocation
  BY <1>1, <1>3 DEF HandoffRecord
<1> HIDE DEF q
<1>7. Moves(h, q)
  BY <1>1, <1>2, <1>3, <1>6, AbsentAssumption DEF Moves, Sound, r, HandoffRecord
<1> QED
  BY <1>1, <1>2, <1>4, <1>5, <1>7, MoveStep

LEMMA UnknownStep ==
  ASSUME CoordinationInv, NEW w \in ChildWorkers, NEW h \in Handoffs, mark_outcome_unknown(w, h)
  PROVE  CoordinationInv'
<1> DEFINE r == records[h]
           q == [r EXCEPT !.state = "PENDING_RECONCILIATION"]
<1>1. h \in Known /\ r \in HandoffRecord /\ Sound(r)
  BY KnownRecord DEF mark_outcome_unknown, CoordinationInv, RecordInv
<1>2. Update(h, q) /\ UNCHANGED <<facts, parent_terminal, ticket, childCalls, lapsed>>
  BY Zenon DEF mark_outcome_unknown
<1>3. r.state = "DISPATCHED"
  BY DEF mark_outcome_unknown
<1>4. ticket' \in [ChildWorkers -> [Handoffs -> Nat]]
  BY <1>2 DEF CoordinationInv, HandoffTypeOK
<1> HIDE DEF r
<1>5. q \in HandoffRecord
  BY <1>1 DEF HandoffRecord, HandoffState
<1>6. /\ q.state = "PENDING_RECONCILIATION"
      /\ q.owner = r.owner
      /\ q.fence = r.fence
      /\ q.cancellation = r.cancellation
      /\ q.allocation = r.allocation
  BY <1>1 DEF HandoffRecord
<1> HIDE DEF q
<1>7. Moves(h, q)
  BY <1>1, <1>2, <1>3, <1>6 DEF Moves, Sound, r, HandoffRecord, Called
<1> QED
  BY <1>1, <1>2, <1>4, <1>5, <1>7, MoveStep

\* cancel: before the dispatch it gives the tokens back, after it only marks the handoff.
LEMMA CancelStep ==
  ASSUME CoordinationInv, NEW h \in Handoffs, cancel(h)
  PROVE  CoordinationInv'
<1> DEFINE r == records[h]
           early == [r EXCEPT !.state = "CANCELLED", !.cancellation = TRUE, !.allocation = "RELEASED"]
           late == [r EXCEPT !.state = "PENDING_RECONCILIATION", !.cancellation = TRUE]
<1>1. h \in Known /\ r \in HandoffRecord /\ Sound(r)
  BY KnownRecord DEF cancel, CoordinationInv, RecordInv
<1>2. UNCHANGED <<facts, parent_terminal, ticket, childCalls, lapsed>>
  BY DEF cancel
<1>3. \/ r.state \in {"ACCEPTED", "CLAIMED"} /\ Update(h, early)
      \/ r.state \in {"DISPATCHED", "PENDING_RECONCILIATION"} /\ Update(h, late)
  <2>1. r.state \in {"ACCEPTED", "CLAIMED", "DISPATCHED", "PENDING_RECONCILIATION"}
    BY <1>1 DEF cancel, Sound, HandoffRecord, HandoffState
  <2> QED
    BY <2>1, Zenon DEF cancel
<1>4. ticket' \in [ChildWorkers -> [Handoffs -> Nat]]
  BY <1>2 DEF CoordinationInv, HandoffTypeOK
<1> HIDE DEF r
<1>5. early \in HandoffRecord /\ late \in HandoffRecord
  BY <1>1 DEF HandoffRecord, HandoffState
<1>6. /\ early.state = "CANCELLED"
      /\ early.fence = r.fence
      /\ early.allocation = "RELEASED"
      /\ late.state = "PENDING_RECONCILIATION"
      /\ late.owner = r.owner
      /\ late.fence = r.fence
      /\ late.allocation = r.allocation
  BY <1>1 DEF HandoffRecord
<1> HIDE DEF early, late
<1>7. CASE r.state \in {"ACCEPTED", "CLAIMED"} /\ Update(h, early)
  <2>1. Moves(h, early)
    BY <1>1, <1>2, <1>6, <1>7 DEF Moves, Sound, r, HandoffRecord, Called
  <2> QED
    BY <1>1, <1>2, <1>4, <1>5, <2>1, MoveStep
<1>8. CASE r.state \in {"DISPATCHED", "PENDING_RECONCILIATION"} /\ Update(h, late)
  <2>1. Moves(h, late)
    BY <1>1, <1>2, <1>6, <1>8 DEF Moves, Sound, r, HandoffRecord, Called
  <2> QED
    BY <1>1, <1>2, <1>4, <1>5, <2>1, MoveStep
<1> QED
  BY <1>3, <1>7, <1>8

\* accept: the new handoff has no history, hence no call and no fact.
LEMMA AcceptStep ==
  ASSUME CoordinationInv, NEW h \in Handoffs, NEW c \in HandoffCandidates, accept(h, c)
  PROVE  CoordinationInv'
<1> DEFINE q == [candidate |-> c, state |-> "ACCEPTED", owner |-> Absent, lease |-> Absent, fence |-> 0,
                 operation |-> Absent, cancellation |-> FALSE, allocation |-> "HELD", published |-> FALSE]
<1>1. h \notin Known /\ Update(h, q) /\ UNCHANGED <<facts, parent_terminal, ticket, childCalls, lapsed>>
  BY DEF accept, IsNew, Known
<1>2. q \in HandoffRecord
  BY DEF HandoffRecord, HandoffState
<1>3. Sound(q) /\ q.state = "ACCEPTED"
  BY DEF Sound, Called
<1> HIDE DEF q
<1>4. /\ records' \in [Handoffs -> HandoffRecord \cup {Absent}]
      /\ records'[h] = q
      /\ \A g \in Handoffs : g # h => records'[g] = records[g]
      /\ Known' = Known \cup {h}
  BY <1>1, <1>2, UpdateEffect DEF CoordinationInv
<1>5. \A g \in Known : g \in Handoffs /\ records'[g] = records[g]
  BY <1>1, <1>4 DEF Known
<1>6. HandoffTypeOK'
  BY <1>1, <1>4 DEF CoordinationInv, HandoffTypeOK
<1>7. RecordInv'
  BY <1>3, <1>4, <1>5 DEF CoordinationInv, RecordInv
<1>8. ChildCallInv'
  BY <1>1, <1>3, <1>4, <1>5 DEF CoordinationInv, ChildCallInv, Called
<1>9. FactInv'
  BY <1>1, <1>3, <1>4, <1>5 DEF CoordinationInv, FactInv
<1> QED
  BY <1>6, <1>7, <1>8, <1>9 DEF CoordinationInv

\* record_provider_dispatch: a claimed handoff has no call yet, and the one it gets carries the
\* fence of its record.
LEMMA DispatchStep ==
  ASSUME CoordinationInv, NEW w \in ChildWorkers, NEW h \in Handoffs, record_provider_dispatch(w, h)
  PROVE  CoordinationInv'
<1> DEFINE r == records[h]
           op == <<w, r.fence>>
           q == [r EXCEPT !.state = "DISPATCHED", !.operation = op]
           x == [handoff |-> h, worker |-> w, fence |-> r.fence]
<1>1. h \in Known /\ r \in HandoffRecord /\ Sound(r) /\ r.state = "CLAIMED"
  BY KnownRecord DEF record_provider_dispatch, authorize_provider_dispatch, CoordinationInv, RecordInv
<1>2. Update(h, q) /\ childCalls' = childCalls \cup {x} /\ UNCHANGED <<facts, parent_terminal, ticket, lapsed>>
  BY Zenon DEF record_provider_dispatch
<1> HIDE DEF r
<1>3. op \in ChildWorkers \X Nat /\ r.fence \in Nat
  BY <1>1 DEF HandoffRecord
<1> HIDE DEF op
<1>4. q \in HandoffRecord
  BY <1>1, <1>3 DEF HandoffRecord, HandoffState
<1>5. /\ q.state = "DISPATCHED"
      /\ q.owner = r.owner
      /\ q.fence = r.fence
      /\ q.cancellation = r.cancellation
      /\ q.allocation = r.allocation
  BY <1>1 DEF HandoffRecord
<1> HIDE DEF q
<1>6. /\ records' \in [Handoffs -> HandoffRecord \cup {Absent}]
      /\ records'[h] = q
      /\ \A g \in Handoffs : g # h => records'[g] = records[g]
      /\ Known' = Known
  BY <1>1, <1>2, <1>4, UpdateEffect DEF CoordinationInv
<1>7. Known \subseteq Handoffs
  BY DEF Known
<1>8. x.handoff = h /\ x.fence = r.fence /\ x \in [handoff : Handoffs, worker : ChildWorkers, fence : Nat]
  BY <1>3
<1> HIDE DEF x
<1>9. \A y \in childCalls : y.handoff # h
  BY <1>1 DEF CoordinationInv, ChildCallInv, Called, r
<1>10. \A e \in facts : e.handoff # h
  BY <1>1 DEF CoordinationInv, FactInv, r
<1>11. HandoffTypeOK'
  BY <1>2, <1>6, <1>8 DEF CoordinationInv, HandoffTypeOK
<1>12. RecordInv'
  <2>1. Sound(q)
    BY <1>1, <1>5 DEF Sound, Called
  <2> QED
    BY <1>6, <1>7, <2>1 DEF CoordinationInv, RecordInv
<1>13. ChildCallInv'
  <2>1. \A y \in childCalls' : /\ y.handoff \in Known' /\ records'[y.handoff].state \in Called
                          /\ y.fence <= records'[y.handoff].fence
    BY <1>1, <1>2, <1>3, <1>5, <1>6, <1>7, <1>8, <1>9 DEF CoordinationInv, ChildCallInv, Called
  <2>2. \A y, z \in childCalls' : y.handoff = z.handoff => y = z
    BY <1>2, <1>8, <1>9 DEF CoordinationInv, ChildCallInv
  <2>3. \A g \in Known' : records'[g].state \in Called => \E y \in childCalls' : y.handoff = g
    BY <1>2, <1>6, <1>7, <1>8 DEF CoordinationInv, ChildCallInv
  <2> QED
    BY <2>1, <2>2, <2>3 DEF ChildCallInv
<1>14. FactInv'
  <2>1. facts' = facts /\ childCalls \subseteq childCalls'
    BY <1>2
  <2>2. \A e \in facts : /\ e.handoff \in Known' /\ records'[e.handoff].state = "VERIFIED_COMPLETED"
    BY <1>6, <1>7, <1>10 DEF CoordinationInv, FactInv
  <2>3. \A g \in Known' : records'[g].state = "VERIFIED_COMPLETED" => \E e \in facts : e.handoff = g
    BY <1>5, <1>6, <1>7 DEF CoordinationInv, FactInv
  <2> QED
    BY <2>1, <2>2, <2>3 DEF CoordinationInv, FactInv
<1> QED
  BY <1>11, <1>12, <1>13, <1>14 DEF CoordinationInv

\* verify_result: a dispatched handoff has its call, made under the worker's fence or an
\* earlier one, and no fact yet.
LEMMA VerifyStep ==
  ASSUME CoordinationInv, NEW w \in ChildWorkers, NEW h \in Handoffs, NEW v \in FactValues,
         verify_result(w, h, v)
  PROVE  CoordinationInv'
<1> DEFINE r == records[h]
           q == [r EXCEPT !.state = "VERIFIED_COMPLETED"]
           f == ticket[w][h]
           e == [handoff |-> h, worker |-> w, fence |-> f, value |-> v]
<1>1. h \in Known /\ r \in HandoffRecord /\ Sound(r) /\ r.state = "DISPATCHED" /\ r.fence = f /\ f \in Nat
  BY KnownRecord DEF verify_result, Verified, CoordinationInv, RecordInv, HandoffRecord
<1>2. Update(h, q) /\ facts' = facts \cup {e} /\ UNCHANGED <<parent_terminal, ticket, childCalls, lapsed>>
  BY Zenon DEF verify_result
<1> HIDE DEF r, f
<1>3. q \in HandoffRecord
  BY <1>1 DEF HandoffRecord, HandoffState
<1>4. /\ q.state = "VERIFIED_COMPLETED"
      /\ q.owner = r.owner
      /\ q.fence = r.fence
      /\ q.cancellation = r.cancellation
      /\ q.allocation = r.allocation
  BY <1>1 DEF HandoffRecord
<1> HIDE DEF q
<1>5. /\ records' \in [Handoffs -> HandoffRecord \cup {Absent}]
      /\ records'[h] = q
      /\ \A g \in Handoffs : g # h => records'[g] = records[g]
      /\ Known' = Known
  BY <1>1, <1>2, <1>3, UpdateEffect DEF CoordinationInv
<1>6. Known \subseteq Handoffs
  BY DEF Known
<1>7. e.handoff = h /\ e.fence = f /\ e \in [handoff : Handoffs, worker : ChildWorkers, fence : Nat, value : FactValues]
  BY <1>1
<1> HIDE DEF e
<1>8. \A d \in facts : d.handoff # h
  BY <1>1 DEF CoordinationInv, FactInv, r
<1>9. HandoffTypeOK'
  BY <1>2, <1>5, <1>7 DEF CoordinationInv, HandoffTypeOK
<1>10. RecordInv'
  <2>1. Sound(q)
    BY <1>1, <1>4 DEF Sound, Called
  <2> QED
    BY <1>5, <1>6, <2>1 DEF CoordinationInv, RecordInv
<1>11. ChildCallInv'
  <2>1. \A g \in Known : /\ records'[g].state \in Called <=> records[g].state \in Called
                         /\ records'[g].fence = records[g].fence
    BY <1>1, <1>4, <1>5, <1>6 DEF Called, r
  <2> QED
    BY <1>2, <1>5, <2>1 DEF CoordinationInv, ChildCallInv
<1>12. FactInv'
  <2>1. IsFiniteSet(facts')
    BY <1>2, FS_AddElement DEF CoordinationInv, FactInv
  <2>2. \E x \in childCalls : x.handoff = h /\ x.fence <= f
    BY <1>1 DEF CoordinationInv, ChildCallInv, Called, r
  <2>3. \A d \in facts' : d.handoff \in Known' /\ records'[d.handoff].state = "VERIFIED_COMPLETED"
    BY <1>1, <1>2, <1>4, <1>5, <1>6, <1>7, <1>8 DEF CoordinationInv, FactInv
  <2>4. \A d \in facts' : \E x \in childCalls' : x.handoff = d.handoff /\ x.fence <= d.fence
    BY <1>2, <1>7, <2>2 DEF CoordinationInv, FactInv
  <2>5. \A d, g \in facts' : d.handoff = g.handoff => d = g
    BY <1>2, <1>7, <1>8 DEF CoordinationInv, FactInv
  <2>6. \A g \in Known' : records'[g].state = "VERIFIED_COMPLETED" => \E d \in facts' : d.handoff = g
    BY <1>2, <1>5, <1>6, <1>7 DEF CoordinationInv, FactInv
  <2> QED
    BY <2>1, <2>3, <2>4, <2>5, <2>6 DEF FactInv
<1> QED
  BY <1>9, <1>10, <1>11, <1>12 DEF CoordinationInv

-----------------------------------------------------------------------------
LEMMA CoordinationStep == CoordinationInv /\ [HandoffNext]_handoffVars => CoordinationInv'
<1> SUFFICES ASSUME CoordinationInv, [HandoffNext]_handoffVars PROVE CoordinationInv'
  OBVIOUS
<1>1. ASSUME NEW h \in Handoffs, Lapse(h) PROVE CoordinationInv'
  BY <1>1 DEF Lapse, store, CoordinationInv, HandoffTypeOK, RecordInv, ChildCallInv, FactInv, Known
<1>2. CASE ParentEnds
  BY <1>2 DEF ParentEnds, CoordinationInv, HandoffTypeOK, RecordInv, ChildCallInv, FactInv, Known
<1>3. CASE UNCHANGED handoffVars
  BY <1>3 DEF handoffVars, store, CoordinationInv, HandoffTypeOK, RecordInv, ChildCallInv, FactInv, Known
<1> QED
  BY <1>1, <1>2, <1>3, AcceptStep, PublishStep, CancelStep, ExpireStep, ClaimStep, TakeOverStep,
     DispatchStep, UnknownStep, VerifyStep DEF HandoffNext

LEMMA TwoElements ==
  ASSUME NEW V, IsFiniteSet(V), NEW a \in V, NEW b \in V, a # b
  PROVE  Cardinality(V) > 1
<1>1. IsFiniteSet({a}) /\ Cardinality({a}) = 1
  BY FS_Singleton
<1>2. IsFiniteSet({a} \cup {b}) /\ Cardinality({a} \cup {b}) = Cardinality({a}) + 1
  <2>1. b \notin {a}
    OBVIOUS
  <2> QED
    BY <1>1, <2>1, FS_AddElement
<1>3. Cardinality({a} \cup {b}) <= Cardinality(V)
  <2>1. {a} \cup {b} \subseteq V
    OBVIOUS
  <2> QED
    BY <2>1, FS_Subset
<1>4. Cardinality(V) \in Nat
  BY FS_CardinalityType
<1> QED
  BY <1>1, <1>2, <1>3, <1>4

\* Facts that differ make what aggregate childCalls a conflict.
LEMMA AgreeingFacts ==
  ASSUME IsFiniteSet(facts), ~(Cardinality({e.value : e \in facts}) > 1)
  PROVE  \A d, e \in facts : d.value = e.value
<1> DEFINE V == {e.value : e \in facts}
           value == [e \in facts |-> e.value]
<1>1. value \in Surjection(facts, V)
  BY DEF Surjection
<1>2. IsFiniteSet(V)
  BY <1>1, FS_Surjection
<1>3. \A d, e \in facts : d.value \in V /\ e.value \in V
  OBVIOUS
<1> HIDE DEF value
<1> QED
  BY <1>2, <1>3, TwoElements

\* aggregate answers READY only when none of the reasons before it applies.
LEMMA ReadyMeansNoReason ==
  ASSUME aggregate = "READY"
  PROVE  /\ ~(Cardinality({e.value : e \in facts}) > 1)
         /\ Known \subseteq InState({"VERIFIED_COMPLETED"})
<1> DEFINE verified == InState({"VERIFIED_COMPLETED"})
           required == {h \in Known : records[h].candidate.required}
           p1 == parent_terminal
           p2 == ~(required \subseteq verified)
           p3 == Cardinality({e.value : e \in facts}) > 1
           p4 == ~(Known \subseteq verified)
           rules == << <<p1, "PARENT_TERMINAL">>, <<p2, "WAITING_FOR_REQUIRED">>, <<p3, "CONFLICT">>,
                       <<p4, "PARTIAL">>, <<TRUE, "READY">> >>
<1>1. FirstMatch(rules) = "READY"
  BY Zenon DEF aggregate
<1> HIDE DEF p1, p2, p3, p4
<1>2. DOMAIN rules = 1 .. 5
  OBVIOUS
<1>3. /\ rules[1][2] = "PARENT_TERMINAL"
      /\ rules[2][2] = "WAITING_FOR_REQUIRED"
      /\ rules[3] = <<p3, "CONFLICT">>
      /\ rules[4] = <<p4, "PARTIAL">>
      /\ rules[5][1]
  OBVIOUS
<1> HIDE DEF rules
<1>4. PICK i \in 1 .. 5 : /\ rules[i][1]
                          /\ \A k \in 1 .. i - 1 : ~rules[k][1]
                          /\ FirstMatch(rules) = rules[i][2]
  <2>1. 5 \in Nat /\ 5 > 0
    OBVIOUS
  <2> QED
    BY <1>2, <1>3, <2>1, FirstMatchApplies, Zenon
<1>5. i = 5
  BY <1>1, <1>3, <1>4
<1>6. ~p3 /\ ~p4
  BY <1>3, <1>4, <1>5
<1> QED
  BY <1>6 DEF p3, p4

\* The inductive invariant holds in every reachable state of a parent with any number of
\* handoffs and workers: every record, call and fact is typed; childCalls and dispatched handoffs,
\* facts and verified handoffs correspond one to one.
THEOREM CoordinationInvariant == HandoffSpec => []CoordinationInv
<1> QED
  BY CoordinationInit, CoordinationStep, PTL DEF HandoffSpec

\* However claims, lease takeovers, cancellations and dispatches interleave, a handoff is
\* dispatched to the provider at most once and tokens of a dispatched one stay held.
THEOREM HandoffsAreDispatchedOnce == HandoffSpec => []OneCallPerHandoff
<1>1. CoordinationInv => OneCallPerHandoff
  <2> SUFFICES ASSUME CoordinationInv PROVE OneCallPerHandoff
    OBVIOUS
  <2>1. \A x \in childCalls : records[x.handoff].allocation = "HELD"
    <3> TAKE x \in childCalls
    <3>1. x.handoff \in Known /\ records[x.handoff].state \in Called
      BY DEF CoordinationInv, ChildCallInv
    <3>2. records[x.handoff] \in HandoffRecord /\ Sound(records[x.handoff])
      BY <3>1, KnownRecord DEF CoordinationInv, RecordInv
    <3> QED
      BY <3>1, <3>2 DEF Sound, HandoffRecord, Called
  <2> QED
    BY <2>1 DEF CoordinationInv, ChildCallInv, OneCallPerHandoff
<1> QED
  BY <1>1, CoordinationInvariant, PTL

\* Every fact is that of one verified, uncancelled handoff whose call was made under its fence
\* or an earlier one; when aggregate answers READY, every child delivered and the facts agree.
THEOREM ReadyParentsEarnedIt == HandoffSpec => []ReadyIsEarned
<1>1. CoordinationInv => ReadyIsEarned
  <2> SUFFICES ASSUME CoordinationInv PROVE ReadyIsEarned
    OBVIOUS
  <2>1. ASSUME NEW e \in facts PROVE ~records[e.handoff].cancellation
    <3>1. e.handoff \in Known /\ records[e.handoff].state = "VERIFIED_COMPLETED"
      BY DEF CoordinationInv, FactInv
    <3>2. Sound(records[e.handoff])
      BY <3>1 DEF CoordinationInv, RecordInv
    <3> QED
      BY <3>1, <3>2 DEF Sound
  <2>2. ASSUME aggregate = "READY"
        PROVE  /\ \A h \in Known : \E e \in facts : e.handoff = h
               /\ \A d, e \in facts : d.value = e.value
    <3>1. \A d, e \in facts : d.value = e.value
      BY <2>2, ReadyMeansNoReason, AgreeingFacts DEF CoordinationInv, FactInv
    <3>2. \A h \in Known : records[h].state = "VERIFIED_COMPLETED"
      BY <2>2, ReadyMeansNoReason DEF InState
    <3> QED
      BY <3>1, <3>2 DEF CoordinationInv, FactInv
  <2> QED
    BY <2>1, <2>2 DEF ReadyIsEarned, CoordinationInv, FactInv
<1> QED
  BY <1>1, CoordinationInvariant, PTL
=============================================================================
