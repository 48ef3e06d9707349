---------------------------- MODULE WorkerExecution ----------------------------
(***************************************************************************)
(* The in-memory Celery worker (day55) for one Job: a relay publishes      *)
(* before it checkpoints, a broker delivers at least once, and workers run *)
(* run_worker on a delivery, one locked call of the JobStore at a time.    *)
(* Leases lapse, workers die, deliveries time out while they are worked    *)
(* on, and a cancellation or deadline intent may be recorded at any point. *)
(* Deliveries are alike and are counted; one with an unsupported envelope  *)
(* is dead-lettered before the Job is looked at and is left out.           *)
(***************************************************************************)
EXTENDS Integers

CONSTANTS Processes,             \* workers
          NoProcess, NotCancelled,
          MaxPublishes, MaxFaults

ASSUME WorkerAssumption ==
    /\ NoProcess \notin Processes /\ NotCancelled \notin {"user_cancellation", "deadline_expiry"}
    /\ {MaxPublishes, MaxFaults} \subseteq Nat

VARIABLES ackLate, \* AckMode.LATE of the release, fixed
          job,        \* Job: [status, cost, intent, owner, live, supported]
          attempt,    \* its Attempt: [marked, requested], evidence of a provider call
          calls,      \* calls the provider saw
          ready, unacked,             \* the broker's queue; deliveries nobody works on
          published, checkpointed,    \* the relay
          faults,     \* crashes, and deliveries that time out in a worker's hands
          process     \* each run_worker: [at, held, result]; held: its delivery is still in flight

workerVars == <<ackLate, job, attempt, calls, ready, unacked, published, checkpointed, faults, process>>

TERMINAL_STATUSES == {"succeeded", "failed", "cancelled", "expired", "quarantined"}
LIVE_STATUSES == {"queued", "running", "pending_reconciliation"}

NoDelivery == [at |-> "idle", held |-> FALSE, result |-> "none"]

WorkerInit ==
    /\ ackLate \in BOOLEAN
    /\ job \in [status : {"queued"}, cost : {"reserved"}, intent : {NotCancelled},
                   owner : {NoProcess}, live : {FALSE}, supported : BOOLEAN]
    /\ attempt = [marked |-> FALSE, requested |-> FALSE] /\ calls = 0
    /\ ready = 0 /\ unacked = 0 /\ published = 0 /\ checkpointed = FALSE /\ faults = 0
    /\ process = [p \in Processes |-> NoDelivery]

-----------------------------------------------------------------------------
\* Relay and broker.

\* OutboxRelay.relay: publish, then checkpoint, unless the relay crashes in between; without
\* the checkpoint it publishes again.
relay_publish ==
    /\ ~checkpointed /\ published < MaxPublishes
    /\ ready' = ready + 1 /\ published' = published + 1 /\ checkpointed' \in BOOLEAN
    /\ UNCHANGED <<job, attempt, calls, unacked, faults, process>>

deliver(p) ==
    /\ process[p].at = "idle" /\ ready > 0 /\ ready' = ready - 1
    /\ process' = [process EXCEPT ![p] = [at |-> "check", held |-> TRUE, result |-> "none"]]
    /\ UNCHANGED <<job, attempt, calls, unacked, published, checkpointed, faults>>

\* visibility_timeout, of an abandoned delivery or of one a slow worker still has.
VisibilityTimeout ==
    /\ unacked > 0 /\ unacked' = unacked - 1 /\ ready' = ready + 1
    /\ UNCHANGED <<job, attempt, calls, published, checkpointed, faults, process>>
SlowDelivery(p) ==
    /\ process[p].held /\ faults < MaxFaults /\ faults' = faults + 1
    /\ ready' = ready + 1 /\ process' = [process EXCEPT ![p].held = FALSE]
    /\ UNCHANGED <<job, attempt, calls, unacked, published, checkpointed>>

\* A worker leaves without an ack: its delivery, if it still has it, stays in flight.
Abandon(p) ==
    /\ unacked' = unacked + (IF process[p].held THEN 1 ELSE 0)
    /\ process' = [process EXCEPT ![p] = NoDelivery]
    /\ UNCHANGED ready

Crash(p) ==
    /\ process[p].at # "idle" /\ Abandon(p)
    /\ faults < MaxFaults /\ faults' = faults + 1
    /\ UNCHANGED <<job, attempt, calls, published, checkpointed>>

-----------------------------------------------------------------------------
\* run_worker.

Move(p, at) == process' = [process EXCEPT ![p].at = at] /\ UNCHANGED <<ready, unacked>>
Brokerage == <<published, checkpointed, faults>>

\* (b), (c): an intent seen while the Job is queued, then the contract.
check(p) ==
    /\ process[p].at = "check"
    /\ Move(p, IF job.intent # NotCancelled /\ job.status = "queued" THEN "cancel"
             ELSE IF ~job.supported THEN "quarantine" ELSE "claim")
    /\ UNCHANGED <<job, attempt, calls, Brokerage>>

quarantine_job(p) ==
    /\ process[p].at = "quarantine" /\ Move(p, "ack")
    /\ job' = IF job.status \in TERMINAL_STATUSES THEN job ELSE [job EXCEPT !.status = "quarantined"]
    /\ UNCHANGED <<attempt, calls, Brokerage>>

\* guarded_terminal_transition to the terminal status of the intent.
terminal_for_intent(kind) == IF kind = "user_cancellation" THEN "cancelled" ELSE "expired"
guarded_terminal_transition(p) ==
    /\ process[p].at = "cancel" /\ Move(p, "ack")
    /\ job' = IF job.status \in LIVE_STATUSES
              THEN [job EXCEPT !.status = terminal_for_intent(job.intent)] ELSE job
    /\ UNCHANGED <<attempt, calls, Brokerage>>

\* claim_execution: a settled Job is not run again, another worker's live lease is respected,
\* and any evidence of a provider call turns the claim into reconciliation.
Evidence == attempt.marked \/ attempt.requested
HeldByOther(p) == job.status = "running" /\ job.live /\ job.owner \notin {NoProcess, p}
Reconciled == [job EXCEPT !.status = "pending_reconciliation", !.cost = "reconciliation_pending"]

\* Mutant: a conflicting delivery is acknowledged away.
AcksConflict(p) == HeldByOther(p) /\ Move(p, "ack") /\ UNCHANGED job
\* CONFLICT: the delivery is left to come back later.
Conflict(p) == HeldByOther(p) /\ Abandon(p) /\ UNCHANGED job

claim_execution(p) ==
    /\ process[p].at = "claim"
    /\ \/ /\ job.status \in TERMINAL_STATUSES \cup {"pending_reconciliation"}
          /\ Move(p, "ack") /\ UNCHANGED job
       \/ Conflict(p)
       \/ /\ job.status \in {"queued", "running"} /\ ~HeldByOther(p)
          /\ job' = IF Evidence THEN Reconciled
                    ELSE [job EXCEPT !.status = "running", !.owner = p, !.live = TRUE]
          /\ Move(p, IF Evidence THEN "ack" ELSE "recheck")
    /\ UNCHANGED <<attempt, calls, Brokerage>>

\* (d2), with the early ack of AckMode.EARLY.
recheck(p) ==
    /\ process[p].at = "recheck"
    /\ IF job.intent # NotCancelled THEN Move(p, "cancel")
       ELSE /\ process' = [process EXCEPT ![p].at = "mark", ![p].held = @ /\ ackLate]
            /\ UNCHANGED <<ready, unacked>>
    /\ UNCHANGED <<job, attempt, calls, Brokerage>>

mark_provider_dispatch_starting(p) ==
    /\ process[p].at = "mark" /\ Move(p, "call")
    /\ attempt' = [attempt EXCEPT !.marked = TRUE]
    /\ UNCHANGED <<job, calls, Brokerage>>

\* (e): the provider answers as it likes: `valid` and `unpriced` pass the day53 gate, the latter
\* without usage.
Results == {"valid", "unpriced", "invalid", "timeout", "transient"}
call(p, result) ==
    /\ process[p].at = "call" /\ calls' = calls + 1
    /\ process' = [process EXCEPT ![p].at = "record", ![p].result = result]
    /\ UNCHANGED <<job, attempt, ready, unacked, Brokerage>>

record_provider_request_id(p) ==
    /\ process[p].at = "record"
    /\ Move(p, CASE process[p].result \in {"timeout", "invalid"} -> "pend"
               [] process[p].result = "transient" -> "redeliver"
               [] OTHER -> "final")
    /\ attempt' = [attempt EXCEPT !.requested = TRUE]
    /\ UNCHANGED <<job, calls, Brokerage>>

mark_pending_reconciliation(p) ==
    /\ process[p].at = "pend" /\ Move(p, "ack")
    /\ job' = IF job.status \in {"running", "queued"} THEN Reconciled ELSE job
    /\ UNCHANGED <<attempt, calls, Brokerage>>

\* A transient failure gives the delivery back for another attempt.
Redeliver(p) ==
    /\ process[p].at = "redeliver"
    /\ ready' = ready + (IF process[p].held THEN 1 ELSE 0)
    /\ process' = [process EXCEPT ![p] = NoDelivery]
    /\ UNCHANGED <<job, attempt, calls, unacked, Brokerage>>

\* (g), (h).
final_check(p) ==
    /\ process[p].at = "final"
    /\ Move(p, IF job.intent # NotCancelled THEN "cancel" ELSE "complete")
    /\ UNCHANGED <<job, attempt, calls, Brokerage>>

guarded_complete_success(p) ==
    /\ process[p].at = "complete" /\ Move(p, "ack")
    /\ job' = IF job.status \in LIVE_STATUSES
              THEN [job EXCEPT !.status = "succeeded",
                               !.cost = IF process[p].result = "valid" THEN "settled"
                                        ELSE "reconciliation_pending"]
              ELSE job
    /\ UNCHANGED <<attempt, calls, Brokerage>>

ack(p) ==
    /\ process[p].at = "ack" /\ process' = [process EXCEPT ![p] = NoDelivery]
    /\ UNCHANGED <<job, attempt, calls, ready, unacked, Brokerage>>

-----------------------------------------------------------------------------
\* request_cancellation: the first intent is kept.
request_cancellation(kind) ==
    /\ job.intent = NotCancelled /\ job' = [job EXCEPT !.intent = kind]
    /\ UNCHANGED <<attempt, calls, ready, unacked, Brokerage, process>>

\* The clock passes lease_expiry.
LeaseLapses ==
    /\ job.live /\ job' = [job EXCEPT !.live = FALSE]
    /\ UNCHANGED <<attempt, calls, ready, unacked, Brokerage, process>>

WorkerStep(p) ==
    \/ deliver(p) \/ SlowDelivery(p) \/ Crash(p) \/ check(p) \/ quarantine_job(p)
    \/ guarded_terminal_transition(p) \/ claim_execution(p) \/ recheck(p)
    \/ mark_provider_dispatch_starting(p) \/ \E result \in Results : call(p, result)
    \/ record_provider_request_id(p) \/ mark_pending_reconciliation(p) \/ Redeliver(p)
    \/ final_check(p) \/ guarded_complete_success(p) \/ ack(p)

WorkerNext ==
    /\ \/ relay_publish \/ VisibilityTimeout \/ LeaseLapses
       \/ \E kind \in {"user_cancellation", "deadline_expiry"} : request_cancellation(kind)
       \/ \E p \in Processes : WorkerStep(p)
    /\ UNCHANGED ackLate
WorkerSpec == WorkerInit /\ [][WorkerNext]_workerVars

-----------------------------------------------------------------------------
\* With late acknowledgement a published Job that is queued or running always has a delivery
\* in the queue, in flight or in the hands of a worker, whatever workers die, conflict or time
\* out.  A provider call leaves its marker on a Job that is no longer queued, and a cost is
\* settled only by a success with a recorded request, even when a late worker finds the Job
\* cancelled, reconciling or finished.
NothingIsStranded ==
    /\ ackLate /\ checkpointed /\ job.status \in {"queued", "running"} =>
           ready + unacked > 0 \/ \E p \in Processes : process[p].held
    /\ calls > 0 => attempt.marked /\ job.status # "queued"
    /\ job.cost = "settled" => job.status = "succeeded" /\ attempt.requested
=============================================================================
