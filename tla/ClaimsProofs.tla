----------------------------- MODULE ClaimsProofs -----------------------------
(***************************************************************************)
(* Proofs about the two places where a claim comes before an effect        *)
(* outside any lock: WorkerExecution, for any number of workers and        *)
(* faults, and HumanControl, for any commands and facts.                   *)
(***************************************************************************)
EXTENDS HumanControl, WorkerExecution

-----------------------------------------------------------------------------
(***************************************************************************)
(* WorkerExecution.                                                        *)
(***************************************************************************)

JobStatus == TERMINAL_STATUSES \cup LIVE_STATUSES
JobRow == [status : JobStatus, cost : {"reserved", "settled", "reconciliation_pending"},
           intent : {NotCancelled, "user_cancellation", "deadline_expiry"},
           owner : Processes \cup {NoProcess}, live : BOOLEAN, supported : BOOLEAN]

\* The steps of run_worker after a successful claim, after the dispatch marker, and after the
\* request id.
Points == {"idle", "check", "cancel", "quarantine", "claim", "recheck", "mark", "call", "record",
           "pend", "redeliver", "final", "complete", "ack"}
AfterRequest == {"pend", "redeliver", "final", "complete"}
AfterMarker == {"call", "record"} \cup AfterRequest
AfterClaim == {"recheck", "mark"} \cup AfterMarker

WorkerTypeOK ==
    /\ ackLate \in BOOLEAN /\ checkpointed \in BOOLEAN
    /\ job \in JobRow
    /\ attempt \in [marked : BOOLEAN, requested : BOOLEAN]
    /\ calls \in Nat /\ ready \in Nat /\ unacked \in Nat
    /\ process \in [Processes -> [at : Points, held : BOOLEAN, result : Results \cup {"none"}]]

\* Where a worker stands says what it has left behind: whoever acknowledges found or made the
\* Job something else than queued or running, and evidence was written before the step that
\* relies on it.
StandingInv ==
    \A p \in Processes :
        /\ process[p].at = "ack" => job.status \notin {"queued", "running"}
        /\ process[p].at \in AfterClaim => job.status # "queued"
        /\ process[p].at \in AfterMarker => attempt.marked
        /\ process[p].at \in AfterRequest => attempt.requested

WorkerInv == WorkerTypeOK /\ StandingInv /\ NothingIsStranded

LEMMA WorkerInitOK == WorkerInit => WorkerInv
<1> SUFFICES ASSUME WorkerInit PROVE WorkerInv
  OBVIOUS
<1>1. WorkerTypeOK
  BY DEF WorkerInit, WorkerTypeOK, JobRow, JobStatus, TERMINAL_STATUSES, LIVE_STATUSES, NoDelivery, Points
<1> QED
  BY <1>1 DEF WorkerInv, WorkerInit, StandingInv, NothingIsStranded, NoDelivery, AfterClaim,
              AfterMarker, AfterRequest

\* One worker moves to another step; the broker's queue stays.
LEMMA MoveEffect ==
  ASSUME WorkerTypeOK, NEW p \in Processes, NEW at \in Points, Move(p, at)
  PROVE  /\ process' \in [Processes -> [at : Points, held : BOOLEAN, result : Results \cup {"none"}]]
         /\ process'[p].at = at
         /\ \A q \in Processes : q # p => process'[q] = process[q]
         /\ \A q \in Processes : process'[q].held = process[q].held
         /\ ready' = ready /\ unacked' = unacked
BY DEF WorkerTypeOK, Move

\* What a step of worker p may do to the Job and to the evidence without disturbing the others:
\* a Job that left queued, or queued and running, does not come back, evidence stays, a cost is
\* settled by a success with a recorded request, and a settled one is left alone.
Harmless ==
    /\ job' \in JobRow
    /\ attempt' \in [marked : BOOLEAN, requested : BOOLEAN]
    /\ attempt.marked => attempt'.marked
    /\ attempt.requested => attempt'.requested
    /\ job.status # "queued" => job'.status # "queued"
    /\ job.status \notin {"queued", "running"} => job'.status \notin {"queued", "running"}
    /\ job'.cost = "settled" => job'.status = "succeeded" /\ attempt'.requested

\* What the new step of p promises.
Stands(p) ==
    /\ process'[p].at = "ack" => job'.status \notin {"queued", "running"}
    /\ process'[p].at \in AfterClaim => job'.status # "queued"
    /\ process'[p].at \in AfterMarker => attempt'.marked
    /\ process'[p].at \in AfterRequest => attempt'.requested

\* Steps in which no delivery changes hands.
LEMMA HandsKeep ==
  ASSUME WorkerInv, NEW p \in Processes, Harmless, Stands(p),
         process' \in [Processes -> [at : Points, held : BOOLEAN, result : Results \cup {"none"}]],
         \A q \in Processes : q # p => process'[q] = process[q],
         process'[p].held = process[p].held \/ (process'[p].held = FALSE /\ (~ackLate \/ job'.status \notin {"queued", "running"})),
         UNCHANGED <<ackLate, ready, unacked, checkpointed>>,
         \/ calls' = calls
         \/ calls' = calls + 1 /\ attempt'.marked /\ job'.status # "queued"
  PROVE  WorkerInv'
<1>1. WorkerTypeOK'
  BY DEF WorkerInv, WorkerTypeOK, Harmless
<1>2. StandingInv'
  BY DEF WorkerInv, StandingInv, Harmless, Stands
<1>3. NothingIsStranded'
  <2>1. ackLate' /\ checkpointed' /\ job'.status \in {"queued", "running"} =>
           ready' + unacked' > 0 \/ \E q \in Processes : process'[q].held
    BY DEF WorkerInv, NothingIsStranded, Harmless, WorkerTypeOK, JobRow, JobStatus, TERMINAL_STATUSES, LIVE_STATUSES
  <2>2. calls' > 0 => attempt'.marked /\ job'.status # "queued"
    BY DEF WorkerInv, NothingIsStranded, Harmless, WorkerTypeOK
  <2> QED
    BY <2>1, <2>2 DEF NothingIsStranded, Harmless
<1> QED
  BY <1>1, <1>2, <1>3 DEF WorkerInv

\* The same for a worker that only moves.
LEMMA MoveKeeps ==
  ASSUME WorkerInv, NEW p \in Processes, NEW at \in Points, Move(p, at), Harmless,
         UNCHANGED <<ackLate, calls, checkpointed>>,
         at = "ack" => job'.status \notin {"queued", "running"},
         at \in AfterClaim => job'.status # "queued",
         at \in AfterMarker => attempt'.marked,
         at \in AfterRequest => attempt'.requested
  PROVE  WorkerInv'
<1>1. /\ process' \in [Processes -> [at : Points, held : BOOLEAN, result : Results \cup {"none"}]]
      /\ process'[p].at = at
      /\ \A q \in Processes : q # p => process'[q] = process[q]
      /\ \A q \in Processes : process'[q].held = process[q].held
      /\ ready' = ready /\ unacked' = unacked
  BY MoveEffect DEF WorkerInv
<1>2. Stands(p)
  BY <1>1 DEF Stands
<1> QED
  BY <1>1, <1>2, HandsKeep

\* Leaving the Job alone is harmless.
LEMMA SameJob == ASSUME WorkerInv, UNCHANGED job, attempt' = attempt PROVE Harmless
BY DEF WorkerInv, WorkerTypeOK, NothingIsStranded, Harmless

\* A Job whose status changes before anything of it is settled.
LEMMA StatusChange ==
  ASSUME WorkerInv, NEW st \in JobStatus \ {"queued"}, attempt' = attempt,
         job' = [job EXCEPT !.status = st], job.status \in LIVE_STATUSES,
         job.status = "pending_reconciliation" => st # "running"
  PROVE  Harmless /\ job'.status = st
<1>1. job \in JobRow
  BY DEF WorkerInv, WorkerTypeOK
<1>2. job' \in JobRow /\ job'.status = st /\ job'.cost = job.cost
  BY <1>1 DEF JobRow
<1>3. job.cost # "settled"
  BY DEF WorkerInv, NothingIsStranded, LIVE_STATUSES
<1> QED
  BY <1>2, <1>3 DEF WorkerInv, WorkerTypeOK, Harmless, LIVE_STATUSES

LEMMA ReconciledJob ==
  ASSUME WorkerInv, job' = Reconciled, attempt' = attempt
  PROVE  Harmless /\ job'.status = "pending_reconciliation"
<1>1. job \in JobRow
  BY DEF WorkerInv, WorkerTypeOK
<1>2. job' \in JobRow /\ job'.status = "pending_reconciliation" /\ job'.cost = "reconciliation_pending"
  BY <1>1 DEF JobRow, Reconciled, JobStatus, LIVE_STATUSES
<1> QED
  BY <1>2 DEF WorkerInv, WorkerTypeOK, Harmless

LEMMA CheckStep ==
  ASSUME WorkerInv, NEW p \in Processes, check(p), UNCHANGED ackLate PROVE WorkerInv'
<1>1. PICK at \in {"cancel", "quarantine", "claim"} : Move(p, at)
  BY DEF check
<1>2. UNCHANGED <<job, attempt, calls, checkpointed>>
  BY DEF check, Brokerage
<1>3. at \in Points /\ at # "ack" /\ at \notin AfterClaim /\ at \notin AfterMarker /\ at \notin AfterRequest
  BY DEF Points, AfterClaim, AfterMarker, AfterRequest
<1> QED
  BY <1>1, <1>2, <1>3, SameJob, MoveKeeps

LEMMA QuarantineStep ==
  ASSUME WorkerInv, NEW p \in Processes, quarantine_job(p), UNCHANGED ackLate PROVE WorkerInv'
<1>1. Move(p, "ack") /\ UNCHANGED <<attempt, calls, checkpointed>>
  BY DEF quarantine_job, Brokerage
<1>2. Harmless /\ job'.status \notin {"queued", "running"}
  <2>1. CASE job.status \in TERMINAL_STATUSES
    BY <1>1, <2>1, SameJob DEF quarantine_job, TERMINAL_STATUSES
  <2>2. CASE job.status \notin TERMINAL_STATUSES
    <3>1. job' = [job EXCEPT !.status = "quarantined"] /\ job.status \in LIVE_STATUSES
      BY <2>2 DEF quarantine_job, WorkerInv, WorkerTypeOK, JobRow, JobStatus
    <3>2. "quarantined" \in JobStatus \ {"queued"} /\ "quarantined" # "running"
      BY DEF JobStatus, TERMINAL_STATUSES
    <3> QED
      BY <1>1, <3>1, <3>2, StatusChange
  <2> QED
    BY <2>1, <2>2
<1>3. "ack" \in Points /\ "ack" \notin AfterClaim /\ "ack" \notin AfterMarker /\ "ack" \notin AfterRequest
  BY DEF Points, AfterClaim, AfterMarker, AfterRequest
<1> QED
  BY <1>1, <1>2, <1>3, MoveKeeps

LEMMA TerminalStep ==
  ASSUME WorkerInv, NEW p \in Processes, guarded_terminal_transition(p), UNCHANGED ackLate PROVE WorkerInv'
<1>1. Move(p, "ack") /\ UNCHANGED <<attempt, calls, checkpointed>>
  BY DEF guarded_terminal_transition, Brokerage
<1>2. Harmless /\ job'.status \notin {"queued", "running"}
  <2>1. CASE job.status \notin LIVE_STATUSES
    BY <1>1, <2>1, SameJob DEF guarded_terminal_transition, LIVE_STATUSES
  <2>2. CASE job.status \in LIVE_STATUSES
    <3>1. PICK st \in {"cancelled", "expired"} : job' = [job EXCEPT !.status = st]
      BY <2>2 DEF guarded_terminal_transition, terminal_for_intent
    <3>2. st \in JobStatus \ {"queued"} /\ st # "running"
      BY DEF JobStatus, TERMINAL_STATUSES
    <3> QED
      BY <1>1, <2>2, <3>1, <3>2, StatusChange
  <2> QED
    BY <2>1, <2>2
<1>3. "ack" \in Points /\ "ack" \notin AfterClaim /\ "ack" \notin AfterMarker /\ "ack" \notin AfterRequest
  BY DEF Points, AfterClaim, AfterMarker, AfterRequest
<1> QED
  BY <1>1, <1>2, <1>3, MoveKeeps

LEMMA PendStep ==
  ASSUME WorkerInv, NEW p \in Processes, mark_pending_reconciliation(p), UNCHANGED ackLate PROVE WorkerInv'
<1>1. Move(p, "ack") /\ UNCHANGED <<attempt, calls, checkpointed>>
  BY DEF mark_pending_reconciliation, Brokerage
<1>2. Harmless /\ job'.status \notin {"queued", "running"}
  <2>1. CASE job.status \in {"running", "queued"}
    BY <1>1, <2>1, ReconciledJob DEF mark_pending_reconciliation
  <2>2. CASE job.status \notin {"running", "queued"}
    BY <1>1, <2>2, SameJob DEF mark_pending_reconciliation
  <2> QED
    BY <2>1, <2>2
<1>3. "ack" \in Points /\ "ack" \notin AfterClaim /\ "ack" \notin AfterMarker /\ "ack" \notin AfterRequest
  BY DEF Points, AfterClaim, AfterMarker, AfterRequest
<1> QED
  BY <1>1, <1>2, <1>3, MoveKeeps

\* guarded_complete_success: whoever gets here has recorded the request.
LEMMA CompleteStep ==
  ASSUME WorkerInv, NEW p \in Processes, guarded_complete_success(p), UNCHANGED ackLate PROVE WorkerInv'
<1>1. Move(p, "ack") /\ UNCHANGED <<attempt, calls, checkpointed>>
  BY DEF guarded_complete_success, Brokerage
<1>2. Harmless /\ job'.status \notin {"queued", "running"}
  <2>1. CASE job.status \notin LIVE_STATUSES
    BY <1>1, <2>1, SameJob DEF guarded_complete_success, LIVE_STATUSES
  <2>2. CASE job.status \in LIVE_STATUSES
    <3>1. PICK cost \in {"settled", "reconciliation_pending"} : job' = [job EXCEPT !.status = "succeeded", !.cost = cost]
      BY <2>2 DEF guarded_complete_success
    <3>2. job \in JobRow
      BY DEF WorkerInv, WorkerTypeOK
    <3>3. job' \in JobRow /\ job'.status = "succeeded"
      BY <3>1, <3>2 DEF JobRow, JobStatus, TERMINAL_STATUSES
    <3>4. attempt.requested
      BY DEF guarded_complete_success, WorkerInv, StandingInv, AfterRequest
    <3> QED
      BY <1>1, <3>3, <3>4 DEF Harmless, WorkerInv, WorkerTypeOK
  <2> QED
    BY <2>1, <2>2
<1>3. "ack" \in Points /\ "ack" \notin AfterClaim /\ "ack" \notin AfterMarker /\ "ack" \notin AfterRequest
  BY DEF Points, AfterClaim, AfterMarker, AfterRequest
<1> QED
  BY <1>1, <1>2, <1>3, MoveKeeps

LEMMA FinalStep ==
  ASSUME WorkerInv, NEW p \in Processes, final_check(p), UNCHANGED ackLate PROVE WorkerInv'
<1>1. PICK at \in {"cancel", "complete"} : Move(p, at)
  BY DEF final_check
<1>2. UNCHANGED <<job, attempt, calls, checkpointed>>
  BY DEF final_check, Brokerage
<1>3. at \in Points /\ at # "ack"
  BY DEF Points
<1>4. job.status # "queued" /\ attempt.marked /\ attempt.requested
  BY DEF final_check, WorkerInv, StandingInv, AfterClaim, AfterMarker, AfterRequest
<1> QED
  BY <1>1, <1>2, <1>3, <1>4, SameJob, MoveKeeps

\* The marker is written before the call.
LEMMA MarkStep ==
  ASSUME WorkerInv, NEW p \in Processes, mark_provider_dispatch_starting(p), UNCHANGED ackLate
  PROVE  WorkerInv'
<1>1. Move(p, "call") /\ UNCHANGED <<job, calls, checkpointed>> /\ attempt' = [attempt EXCEPT !.marked = TRUE]
  BY DEF mark_provider_dispatch_starting, Brokerage
<1>2. job.status # "queued"
  BY DEF mark_provider_dispatch_starting, WorkerInv, StandingInv, AfterClaim
<1>3. /\ attempt' \in [marked : BOOLEAN, requested : BOOLEAN]
      /\ attempt'.marked
      /\ attempt'.requested = attempt.requested
  BY <1>1 DEF WorkerInv, WorkerTypeOK
<1>4. Harmless
  BY <1>1, <1>3 DEF WorkerInv, WorkerTypeOK, NothingIsStranded, Harmless
<1>5. "call" \in Points /\ "call" # "ack" /\ "call" \notin AfterRequest
  BY DEF Points, AfterRequest
<1> QED
  BY <1>1, <1>2, <1>3, <1>4, <1>5, MoveKeeps

\* The request id is written before anything that relies on it.
LEMMA RecordStep ==
  ASSUME WorkerInv, NEW p \in Processes, record_provider_request_id(p), UNCHANGED ackLate
  PROVE  WorkerInv'
<1>1. UNCHANGED <<job, calls, checkpointed>> /\ attempt' = [attempt EXCEPT !.requested = TRUE]
  BY DEF record_provider_request_id, Brokerage
<1>2. PICK at \in AfterRequest : Move(p, at)
  <2>1. {"pend", "redeliver", "final"} \subseteq AfterRequest
    BY DEF AfterRequest
  <2> QED
    BY <2>1 DEF record_provider_request_id
<1>3. job.status # "queued" /\ attempt.marked
  BY DEF record_provider_request_id, WorkerInv, StandingInv, AfterClaim, AfterMarker
<1>4. /\ attempt' \in [marked : BOOLEAN, requested : BOOLEAN]
      /\ attempt'.marked = attempt.marked
      /\ attempt'.requested
  BY <1>1 DEF WorkerInv, WorkerTypeOK
<1>5. Harmless
  BY <1>1, <1>4 DEF WorkerInv, WorkerTypeOK, NothingIsStranded, Harmless
<1>6. at \in Points /\ at # "ack"
  BY DEF Points, AfterRequest
<1> QED
  BY <1>1, <1>2, <1>3, <1>4, <1>5, <1>6, MoveKeeps

\* A worker whose delivery was acknowledged early, or was not, goes on to the marker; with late
\* acknowledgement it keeps the delivery.
LEMMA RecheckStep ==
  ASSUME WorkerInv, NEW p \in Processes, recheck(p), UNCHANGED ackLate PROVE WorkerInv'
<1>1. UNCHANGED <<job, attempt, calls, checkpointed>> /\ job.status # "queued"
  BY DEF recheck, Brokerage, WorkerInv, StandingInv, AfterClaim
<1>2. CASE Move(p, "cancel")
  <2>1. "cancel" \in Points \ (AfterMarker \cup AfterRequest \cup {"ack"})
    BY DEF Points, AfterMarker, AfterRequest
  <2> QED
    BY <1>1, <1>2, <2>1, SameJob, MoveKeeps
<1>3. CASE /\ process' = [process EXCEPT ![p].at = "mark", ![p].held = @ /\ ackLate]
           /\ UNCHANGED <<ready, unacked>>
  <2>1. /\ process' \in [Processes -> [at : Points, held : BOOLEAN, result : Results \cup {"none"}]]
        /\ process'[p].at = "mark"
        /\ process'[p].held = (process[p].held /\ ackLate)
        /\ \A q \in Processes : q # p => process'[q] = process[q]
    BY <1>3 DEF WorkerInv, WorkerTypeOK, Points
  <2>2. Stands(p)
    BY <1>1, <2>1 DEF Stands, AfterMarker, AfterRequest
  <2>3. process'[p].held = process[p].held \/ (process'[p].held = FALSE /\ ~ackLate)
    BY <2>1 DEF WorkerInv, WorkerTypeOK
  <2> QED
    BY <1>1, <1>3, <2>1, <2>2, <2>3, SameJob, HandsKeep
<1> QED
  BY <1>2, <1>3 DEF recheck

LEMMA CallStep ==
  ASSUME WorkerInv, NEW p \in Processes, NEW result \in Results, call(p, result), UNCHANGED ackLate
  PROVE  WorkerInv'
<1>1. UNCHANGED <<job, attempt, ready, unacked, checkpointed>> /\ calls' = calls + 1
  BY DEF call, Brokerage
<1>2. job.status # "queued" /\ attempt.marked
  BY DEF call, WorkerInv, StandingInv, AfterClaim, AfterMarker
<1>3. /\ process' \in [Processes -> [at : Points, held : BOOLEAN, result : Results \cup {"none"}]]
      /\ process'[p].at = "record"
      /\ process'[p].held = process[p].held
      /\ \A q \in Processes : q # p => process'[q] = process[q]
  BY DEF call, WorkerInv, WorkerTypeOK, Points
<1>4. Stands(p)
  BY <1>1, <1>2, <1>3 DEF Stands, AfterRequest
<1> QED
  BY <1>1, <1>2, <1>3, <1>4, SameJob, HandsKeep

\* Steps in which a delivery changes hands between the queue, the broker and a worker.
LEMMA DeliveryKeeps ==
  ASSUME WorkerInv, NEW p \in Processes, UNCHANGED <<ackLate, job, attempt, calls, checkpointed>>,
         process' \in [Processes -> [at : Points, held : BOOLEAN, result : Results \cup {"none"}]],
         process'[p].at \in {"idle", "check", process[p].at},
         \A q \in Processes : q # p => process'[q] = process[q],
         ready' \in Nat, unacked' \in Nat,
         process[p].held \/ ready + unacked > 0 => process'[p].held \/ ready' + unacked' > 0
  PROVE  WorkerInv'
<1>1. Stands(p)
  BY DEF Stands, WorkerInv, StandingInv, AfterClaim, AfterMarker, AfterRequest
<1>2. Harmless
  BY SameJob
<1>3. WorkerTypeOK'
  BY DEF WorkerInv, WorkerTypeOK
<1>4. StandingInv'
  BY <1>1 DEF WorkerInv, StandingInv, Stands
<1>5. NothingIsStranded'
  BY DEF WorkerInv, NothingIsStranded
<1> QED
  BY <1>3, <1>4, <1>5 DEF WorkerInv

LEMMA IdleDelivery == NoDelivery \in [at : Points, held : BOOLEAN, result : Results \cup {"none"}]
BY DEF NoDelivery, Points

LEMMA DeliverStep ==
  ASSUME WorkerInv, NEW p \in Processes, deliver(p), UNCHANGED ackLate PROVE WorkerInv'
<1>1. /\ process' \in [Processes -> [at : Points, held : BOOLEAN, result : Results \cup {"none"}]]
      /\ process'[p].at = "check" /\ process'[p].held
      /\ \A q \in Processes : q # p => process'[q] = process[q]
  BY DEF deliver, WorkerInv, WorkerTypeOK, Points
<1>2. ready' \in Nat /\ unacked' \in Nat /\ UNCHANGED <<job, attempt, calls, checkpointed>>
  BY DEF deliver, WorkerInv, WorkerTypeOK
<1> QED
  BY <1>1, <1>2, DeliveryKeeps

LEMMA SlowStep ==
  ASSUME WorkerInv, NEW p \in Processes, SlowDelivery(p), UNCHANGED ackLate PROVE WorkerInv'
<1>1. /\ process' \in [Processes -> [at : Points, held : BOOLEAN, result : Results \cup {"none"}]]
      /\ process'[p].at = process[p].at
      /\ \A q \in Processes : q # p => process'[q] = process[q]
  BY DEF SlowDelivery, WorkerInv, WorkerTypeOK
<1>2. /\ ready' \in Nat /\ unacked' \in Nat /\ ready' + unacked' > 0
      /\ UNCHANGED <<job, attempt, calls, checkpointed>>
  BY DEF SlowDelivery, WorkerInv, WorkerTypeOK
<1> QED
  BY <1>1, <1>2, DeliveryKeeps

\* A worker that leaves without an ack leaves its delivery with the broker.
LEMMA AbandonKeeps ==
  ASSUME WorkerInv, NEW p \in Processes, Abandon(p),
         UNCHANGED <<ackLate, job, attempt, calls, checkpointed>>
  PROVE  WorkerInv'
<1>1. /\ process' \in [Processes -> [at : Points, held : BOOLEAN, result : Results \cup {"none"}]]
      /\ process'[p] = NoDelivery
      /\ \A q \in Processes : q # p => process'[q] = process[q]
  BY IdleDelivery DEF Abandon, WorkerInv, WorkerTypeOK
<1>2. /\ ready' \in Nat /\ unacked' \in Nat
      /\ process[p].held \/ ready + unacked > 0 => ready' + unacked' > 0
  BY DEF Abandon, WorkerInv, WorkerTypeOK
<1>3. process'[p].at = "idle"
  BY <1>1 DEF NoDelivery
<1> QED
  BY <1>1, <1>2, <1>3, DeliveryKeeps

LEMMA CrashStep ==
  ASSUME WorkerInv, NEW p \in Processes, Crash(p), UNCHANGED ackLate PROVE WorkerInv'
BY AbandonKeeps DEF Crash

LEMMA RedeliverStep ==
  ASSUME WorkerInv, NEW p \in Processes, Redeliver(p), UNCHANGED ackLate PROVE WorkerInv'
<1>1. /\ process' \in [Processes -> [at : Points, held : BOOLEAN, result : Results \cup {"none"}]]
      /\ process'[p] = NoDelivery
      /\ \A q \in Processes : q # p => process'[q] = process[q]
  BY IdleDelivery DEF Redeliver, WorkerInv, WorkerTypeOK
<1>2. /\ ready' \in Nat /\ unacked' \in Nat
      /\ process[p].held \/ ready + unacked > 0 => ready' + unacked' > 0
      /\ UNCHANGED <<job, attempt, calls, checkpointed>>
  BY DEF Redeliver, WorkerInv, WorkerTypeOK, Brokerage
<1>3. process'[p].at = "idle"
  BY <1>1 DEF NoDelivery
<1> QED
  BY <1>1, <1>2, <1>3, DeliveryKeeps

\* An acknowledgement gives up a delivery of a Job that needs it no more.
LEMMA AckStep ==
  ASSUME WorkerInv, NEW p \in Processes, ack(p), UNCHANGED ackLate PROVE WorkerInv'
<1>1. /\ process' \in [Processes -> [at : Points, held : BOOLEAN, result : Results \cup {"none"}]]
      /\ process'[p] = NoDelivery
      /\ \A q \in Processes : q # p => process'[q] = process[q]
  BY IdleDelivery DEF ack, WorkerInv, WorkerTypeOK
<1>2. UNCHANGED <<job, attempt, calls, ready, unacked, checkpointed>>
  BY DEF ack, Brokerage
<1>3. job.status \notin {"queued", "running"}
  BY DEF ack, WorkerInv, StandingInv
<1>4. process'[p].at = "idle" /\ process'[p].held = FALSE
  BY <1>1 DEF NoDelivery
<1>5. Stands(p)
  BY <1>4 DEF Stands, AfterClaim, AfterMarker, AfterRequest
<1> QED
  BY <1>1, <1>2, <1>3, <1>4, <1>5, SameJob, HandsKeep

\* claim_execution: three outcomes.
LEMMA ClaimExecutionStep ==
  ASSUME WorkerInv, NEW p \in Processes, claim_execution(p), UNCHANGED ackLate PROVE WorkerInv'
<1>1. UNCHANGED <<attempt, calls, checkpointed>>
  BY DEF claim_execution, Brokerage
<1>2. "ack" \in Points /\ "ack" \notin AfterClaim /\ "ack" \notin AfterMarker /\ "ack" \notin AfterRequest
  BY DEF Points, AfterClaim, AfterMarker, AfterRequest
<1>3. CASE /\ job.status \in TERMINAL_STATUSES \cup {"pending_reconciliation"}
           /\ Move(p, "ack") /\ UNCHANGED job
  <2>1. job.status \notin {"queued", "running"}
    BY <1>3 DEF TERMINAL_STATUSES
  <2> QED
    BY <1>1, <1>2, <1>3, <2>1, SameJob, MoveKeeps
<1>4. CASE Conflict(p)
  BY <1>1, <1>4, AbandonKeeps DEF Conflict
<1>5. CASE /\ job.status \in {"queued", "running"}
           /\ job' = Reconciled /\ Move(p, "ack")
  BY <1>1, <1>2, <1>5, ReconciledJob, MoveKeeps
<1>6. CASE /\ job.status \in {"queued", "running"}
           /\ job' = [job EXCEPT !.status = "running", !.owner = p, !.live = TRUE]
           /\ Move(p, "recheck")
  <2>1. job \in JobRow /\ job.cost # "settled"
    BY <1>6 DEF WorkerInv, WorkerTypeOK, NothingIsStranded
  <2>2. job' \in JobRow /\ job'.status = "running" /\ job'.cost = job.cost
    BY <1>6, <2>1 DEF JobRow, JobStatus, LIVE_STATUSES
  <2>3. Harmless
    BY <1>1, <1>6, <2>1, <2>2 DEF WorkerInv, WorkerTypeOK, Harmless
  <2>4. "recheck" \in Points \ (AfterMarker \cup AfterRequest \cup {"ack"})
    BY DEF Points, AfterMarker, AfterRequest
  <2> QED
    BY <1>1, <1>6, <2>2, <2>3, <2>4, MoveKeeps
<1> QED
  BY <1>3, <1>4, <1>5, <1>6 DEF claim_execution

\* Steps outside the workers.
LEMMA RelayStep == ASSUME WorkerInv, relay_publish, UNCHANGED ackLate PROVE WorkerInv'
BY DEF relay_publish, WorkerInv, WorkerTypeOK, StandingInv, NothingIsStranded

LEMMA TimeoutStep == ASSUME WorkerInv, VisibilityTimeout, UNCHANGED ackLate PROVE WorkerInv'
BY DEF VisibilityTimeout, WorkerInv, WorkerTypeOK, StandingInv, NothingIsStranded

\* An intent or a lapsed lease leaves status, cost and evidence alone.
LEMMA IntentOrLapse ==
  ASSUME WorkerInv, job' \in JobRow, job'.status = job.status, job'.cost = job.cost,
         UNCHANGED <<ackLate, attempt, calls, ready, unacked, checkpointed, process>>
  PROVE  WorkerInv'
BY DEF WorkerInv, WorkerTypeOK, StandingInv, NothingIsStranded

LEMMA WorkerStepOK == WorkerInv /\ [WorkerNext]_workerVars => WorkerInv'
<1> SUFFICES ASSUME WorkerInv, [WorkerNext]_workerVars PROVE WorkerInv'
  OBVIOUS
<1>1. CASE UNCHANGED workerVars
  BY <1>1 DEF workerVars, WorkerInv, WorkerTypeOK, StandingInv, NothingIsStranded
<1>2. job \in JobRow
  BY DEF WorkerInv, WorkerTypeOK
<1>3. ASSUME NEW kind \in {"user_cancellation", "deadline_expiry"}, request_cancellation(kind),
             UNCHANGED ackLate
      PROVE  WorkerInv'
  <2>1. job' \in JobRow /\ job'.status = job.status /\ job'.cost = job.cost
    BY <1>2, <1>3 DEF request_cancellation, JobRow
  <2> QED
    BY <1>3, <2>1, IntentOrLapse DEF request_cancellation, Brokerage
<1>4. ASSUME LeaseLapses, UNCHANGED ackLate PROVE WorkerInv'
  <2>1. job' \in JobRow /\ job'.status = job.status /\ job'.cost = job.cost
    BY <1>2, <1>4 DEF LeaseLapses, JobRow
  <2> QED
    BY <1>4, <2>1, IntentOrLapse DEF LeaseLapses, Brokerage
<1>5. ASSUME NEW p \in Processes, WorkerStep(p), UNCHANGED ackLate PROVE WorkerInv'
  BY <1>5, DeliverStep, SlowStep, CrashStep, CheckStep, QuarantineStep, TerminalStep,
     ClaimExecutionStep, RecheckStep, MarkStep, CallStep, RecordStep, PendStep, RedeliverStep,
     FinalStep, CompleteStep, AckStep DEF WorkerStep
<1> QED
  BY <1>1, <1>3, <1>4, <1>5, RelayStep, TimeoutStep DEF WorkerNext

\* The inductive invariant of the delivery workers: types, where each one stands, and that
\* nothing is stranded.
THEOREM WorkerInvariant == WorkerSpec => []WorkerInv
<1> QED
  BY WorkerInitOK, WorkerStepOK, PTL DEF WorkerSpec

\* With late acknowledgement no crash, conflict, slow delivery or retry of any number of workers
\* loses the last delivery of a queued or running Job, calls come after their marker, and a cost
\* is settled only by a success with a recorded request.
THEOREM DeliveriesAreNotLost == WorkerSpec => []NothingIsStranded
<1>1. WorkerInv => NothingIsStranded
  BY DEF WorkerInv
<1> QED
  BY <1>1, WorkerInvariant, PTL

-----------------------------------------------------------------------------
(***************************************************************************)
(* HumanControl.                                                           *)
(***************************************************************************)

\* A candidate leaves alone what is closed: a decision is recorded once, a closed approval is
\* not opened and a terminal state not left.
Keeps(c) ==
    /\ c.status = "DECISION_RECORDED" => decision = None
    /\ approval \in ClosedApprovals => c.approval \in ClosedApprovals
    /\ state \in TERMINAL_STATES => c.state = state

LEMMA RecoverKeeps == ASSUME NEW f PROVE Keeps(Recover(f))
<1> DEFINE pending == IF state \in TERMINAL_STATES THEN state ELSE "PENDING_RECONCILIATION"
           known == f.usage # None
           a1 == known /\ f.certainty # "VERIFIED_TERMINAL"
           a2 == known /\ AlreadySettled /\ reservation.settled = f.usage
           a3 == known /\ AlreadySettled
           a4 == known /\ reservation.status = "RELEASED"
           a5 == f.certainty = "DEFINITELY_NOT_DISPATCHED"
           a6 == known
           a7 == Exhausted(f)
           a8 == f.certainty = "OUTCOME_UNKNOWN"
           r1 == Stay("USAGE_EVIDENCE_REQUIRED")
           r2 == Stay("SETTLEMENT_ALREADY_RECORDED")
           r3 == Escalate("SETTLEMENT_CONFLICT", state, approval, f)
           r4 == Escalate("SETTLEMENT_RESERVATION_CONFLICT", state, approval, f)
           r5 == Stay("NO_EXTERNAL_OPERATION_TO_RECONCILE")
           r6 == [Cand("SETTLE", state, approval, "SETTLE_VERIFIED", None) EXCEPT !.usage = f.usage]
           r7 == Escalate("BOUNDED_RECOVERY_EXHAUSTED", pending, approval, f)
           r8 == Cand("RECONCILE", pending, approval, "KEEP_HELD", "RECONCILIATION_QUERY")
           r9 == Stay("RECOVERY_NO_NEW_BUSINESS_EXECUTION")
           rules == << <<a1, r1>>, <<a2, r2>>, <<a3, r3>>, <<a4, r4>>, <<a5, r5>>, <<a6, r6>>, <<a7, r7>>, <<a8, r8>>, <<TRUE, r9>> >>
<1>1. Recover(f) = FirstMatch(rules)
  BY Zenon DEF Recover
<1>2. state \in TERMINAL_STATES => pending = state
  OBVIOUS
<1> HIDE DEF a1, a2, a3, a4, a5, a6, a7, a8, pending, known
<1>3. Keeps(r1)
  BY <1>2 DEF Keeps, Stay, Escalate, Cand
<1>4. Keeps(r2)
  BY <1>2 DEF Keeps, Stay, Escalate, Cand
<1>5. Keeps(r3)
  BY <1>2 DEF Keeps, Stay, Escalate, Cand
<1>6. Keeps(r4)
  BY <1>2 DEF Keeps, Stay, Escalate, Cand
<1>7. Keeps(r5)
  BY <1>2 DEF Keeps, Stay, Escalate, Cand
<1>8. Keeps(r6)
  BY <1>2 DEF Keeps, Stay, Escalate, Cand
<1>9. Keeps(r7)
  BY <1>2 DEF Keeps, Stay, Escalate, Cand
<1>10. Keeps(r8)
  BY <1>2 DEF Keeps, Stay, Escalate, Cand
<1>11. Keeps(r9)
  BY <1>2 DEF Keeps, Stay, Escalate, Cand
<1> HIDE DEF r1, r2, r3, r4, r5, r6, r7, r8, r9
<1>12. DOMAIN rules = 1 .. 9
  OBVIOUS
<1>13. /\ rules[1] = <<a1, r1>>
      /\ rules[2] = <<a2, r2>>
      /\ rules[3] = <<a3, r3>>
      /\ rules[4] = <<a4, r4>>
      /\ rules[5] = <<a5, r5>>
      /\ rules[6] = <<a6, r6>>
      /\ rules[7] = <<a7, r7>>
      /\ rules[8] = <<a8, r8>>
      /\ rules[9] = <<TRUE, r9>>
  OBVIOUS
<1> HIDE DEF rules
<1>14. PICK i \in 1 .. 9 :
         /\ rules[i][1]
         /\ \A k \in 1 .. i - 1 : ~rules[k][1]
         /\ FirstMatch(rules) = rules[i][2]
  <2>1. 9 \in Nat /\ 9 > 0 /\ rules[9][1]
    BY <1>13
  <2> QED
    BY <1>12, <2>1, FirstMatchApplies, Zenon
<1>15. Recover(f) \in {r1, r2, r3, r4, r5, r6, r7, r8, r9}
  BY <1>1, <1>13, <1>14
<1> QED
  BY <1>3, <1>4, <1>5, <1>6, <1>7, <1>8, <1>9, <1>10, <1>11, <1>15

LEMMA DecisionOnce == ASSUME NEW k, NEW f, Decision(k, f).status = "DECISION_RECORDED" PROVE decision = None
<1> DEFINE a1 == "decided_late" \in f.raised
           a2 == "approver_invalid" \in f.raised
           a3 == decision # None
           r1 == Stay("DECISION_TIME_INVALID")
           r2 == Stay("APPROVER_POLICY_REJECTED")
           r3 == Escalate("CONFLICTING_HUMAN_DECISION", state, "CONFLICT", f)
           r4 == Cand("DECISION_RECORDED", state, k.choice, "NO_CHANGE", None)
           rules == << <<a1, r1>>, <<a2, r2>>, <<a3, r3>>, <<TRUE, r4>> >>
<1>1. Decision(k, f) = FirstMatch(rules)
  BY Zenon DEF Decision
<1>2. /\ r1.status # "DECISION_RECORDED"
      /\ r2.status # "DECISION_RECORDED"
      /\ r3.status # "DECISION_RECORDED"
  BY DEF Stay, Escalate, Cand
<1> HIDE DEF a1, a2, a3, r1, r2, r3, r4
<1>3. DOMAIN rules = 1 .. 4
  OBVIOUS
<1>4. /\ rules[1] = <<a1, r1>>
      /\ rules[2] = <<a2, r2>>
      /\ rules[3] = <<a3, r3>>
      /\ rules[4] = <<TRUE, r4>>
  OBVIOUS
<1> HIDE DEF rules
<1>5. PICK i \in 1 .. 4 :
         /\ rules[i][1]
         /\ \A m \in 1 .. i - 1 : ~rules[m][1]
         /\ FirstMatch(rules) = rules[i][2]
  <2>1. 4 \in Nat /\ 4 > 0 /\ rules[4][1]
    BY <1>4
  <2> QED
    BY <1>3, <2>1, FirstMatchApplies, Zenon
<1>6. i = 4
  BY <1>1, <1>2, <1>4, <1>5
<1>7. ~a3
  BY <1>4, <1>5, <1>6
<1> QED
  BY <1>7 DEF a3

\* The gate records no decision; it lets an action pass only with its capacity held and, where
\* approval is required, with a recorded one.
LEMMA GateOutcome ==
  ASSUME NEW f
  PROVE  /\ Gate(f).status # "DECISION_RECORDED"
         /\ Gate(f).status = "EXECUTION_CANDIDATE" =>
                /\ reservation.status = "HELD"
                /\ "not_required" \notin f.raised => decision # None /\ decision.choice = "APPROVED"
<1> DEFINE required == "not_required" \notin f.raised
           a1 == "not_authorized" \in f.raised
           a2 == "guard_blocked" \in f.raised
           a3 == claimed
           a4 == f.certainty # "DEFINITELY_NOT_DISPATCHED"
           a5 == reservation.status # "HELD"
           a6 == required /\ approval # "APPROVED" /\ clock # "early"
           a7 == required /\ approval # "APPROVED"
           a8 == required /\ (decision = None \/ "approver_invalid" \in f.raised \/ decision.choice # "APPROVED")
           r1 == Cand("AUTHORIZATION_REVOKED", state, approval, IF Unused(f) THEN "RELEASE" ELSE "KEEP_HELD", None)
           r2 == Stay("GUARD_BLOCKED")
           r3 == Stay("ALREADY_DISPATCH_CLAIMED")
           r4 == Stay("EXTERNAL_OPERATION_ALREADY_POSSIBLE")
           r5 == Stay("RESERVATION_NOT_HELD")
           r6 == Escalate("APPROVAL_OVERDUE", "WAITING", approval, f)
           r7 == Cand("APPROVAL_PENDING", "WAITING", approval, "NO_CHANGE", "APPROVAL_REQUEST")
           r8 == Stay("CURRENT_APPROVER_INVALID")
           r9 == Cand("EXECUTION_CANDIDATE", "RUNNING", IF required THEN approval ELSE "NOT_REQUIRED", "NO_CHANGE", "PUBLISH")
           rules == << <<a1, r1>>, <<a2, r2>>, <<a3, r3>>, <<a4, r4>>, <<a5, r5>>, <<a6, r6>>, <<a7, r7>>, <<a8, r8>>, <<TRUE, r9>> >>
<1>1. Gate(f) = FirstMatch(rules)
  BY Zenon DEF Gate
<1>2. /\ r1.status \notin {"DECISION_RECORDED", "EXECUTION_CANDIDATE"}
      /\ r2.status \notin {"DECISION_RECORDED", "EXECUTION_CANDIDATE"}
      /\ r3.status \notin {"DECISION_RECORDED", "EXECUTION_CANDIDATE"}
      /\ r4.status \notin {"DECISION_RECORDED", "EXECUTION_CANDIDATE"}
      /\ r5.status \notin {"DECISION_RECORDED", "EXECUTION_CANDIDATE"}
      /\ r6.status \notin {"DECISION_RECORDED", "EXECUTION_CANDIDATE"}
      /\ r7.status \notin {"DECISION_RECORDED", "EXECUTION_CANDIDATE"}
      /\ r8.status \notin {"DECISION_RECORDED", "EXECUTION_CANDIDATE"}
      /\ r9.status # "DECISION_RECORDED"
  BY DEF Stay, Escalate, Cand
<1> HIDE DEF a1, a2, a3, a4, a5, a6, a7, a8, r1, r2, r3, r4, r5, r6, r7, r8, r9, required
<1>3. DOMAIN rules = 1 .. 9
  OBVIOUS
<1>4. /\ rules[1] = <<a1, r1>>
      /\ rules[2] = <<a2, r2>>
      /\ rules[3] = <<a3, r3>>
      /\ rules[4] = <<a4, r4>>
      /\ rules[5] = <<a5, r5>>
      /\ rules[6] = <<a6, r6>>
      /\ rules[7] = <<a7, r7>>
      /\ rules[8] = <<a8, r8>>
      /\ rules[9] = <<TRUE, r9>>
  OBVIOUS
<1> HIDE DEF rules
<1>5. PICK i \in 1 .. 9 :
         /\ rules[i][1]
         /\ \A k \in 1 .. i - 1 : ~rules[k][1]
         /\ FirstMatch(rules) = rules[i][2]
  <2>1. 9 \in Nat /\ 9 > 0 /\ rules[9][1]
    BY <1>4
  <2> QED
    BY <1>3, <2>1, FirstMatchApplies, Zenon
<1>6. Gate(f).status # "DECISION_RECORDED"
  BY <1>1, <1>2, <1>4, <1>5
<1>7. ASSUME Gate(f).status = "EXECUTION_CANDIDATE" PROVE ~a5 /\ ~a8
  <2>1. i = 9
    BY <1>1, <1>2, <1>4, <1>5, <1>7
  <2> QED
    BY <1>4, <1>5, <2>1
<1> QED
  BY <1>6, <1>7 DEF a5, a8, required

\* The lifecycle checks: what is closed stays, and what follows them is reached only when
\* nothing is closed.
LEMMA LifecycleOutcome ==
  ASSUME NEW f, NEW next
  PROVE  \/ /\ Lifecycle(f, next).status \notin {"DECISION_RECORDED", "EXECUTION_CANDIDATE"}
            /\ Keeps(Lifecycle(f, next))
         \/ /\ Lifecycle(f, next) = next
            /\ state \notin TERMINAL_STATES /\ ~interrupted /\ approval \notin ClosedApprovals
            /\ ~(risk = "HIGH" /\ "not_required" \in f.raised)
<1> DEFINE a1 == state \in TERMINAL_STATES
           a2 == interrupted
           a3 == approval \in ClosedApprovals
           a4 == clock = "expired" /\ "not_required" \notin f.raised
           a5 == "quarantined" \in f.raised
           a6 == "policy_wait_over" \in f.raised
           a7 == "policy_unavailable" \in f.raised
           a8 == risk = "HIGH" /\ "not_required" \in f.raised
           r1 == Stay("TERMINAL_NOOP")
           r2 == Stay("INTERRUPT_BLOCKED")
           r3 == Stay("APPROVAL_CLOSED")
           r4 == Cand("APPROVAL_EXPIRED", state, "EXPIRED", "NO_CHANGE", None)
           r5 == Stay("POLICY_QUARANTINED")
           r6 == Escalate("APPROVAL_POLICY_UNAVAILABLE", "WAITING", approval, f)
           r7 == Cand("POLICY_UNAVAILABLE", "WAITING", approval, "NO_CHANGE", None)
           r8 == Stay("RISK_POLICY_CONFLICT")
           r9 == next
           rules == << <<a1, r1>>, <<a2, r2>>, <<a3, r3>>, <<a4, r4>>, <<a5, r5>>, <<a6, r6>>, <<a7, r7>>, <<a8, r8>>, <<TRUE, r9>> >>
           Refused(x) == x.status \notin {"DECISION_RECORDED", "EXECUTION_CANDIDATE"} /\ Keeps(x)
<1>1. Lifecycle(f, next) = FirstMatch(rules)
  BY Zenon DEF Lifecycle
<1>2. /\ Refused(r1)
      /\ Refused(r2)
      /\ Refused(r3)
      /\ Refused(r5)
      /\ Refused(r8)
  BY DEF Keeps, Stay, Cand
<1>3. /\ ~a1 => Refused(r4)
      /\ ~a1 /\ ~a3 => Refused(r6)
      /\ ~a1 /\ ~a3 => Refused(r7)
  BY DEF Keeps, Escalate, Cand, ClosedApprovals
<1> HIDE DEF a1, a2, a3, a4, a5, a6, a7, a8, r1, r2, r3, r4, r5, r6, r7, r8, Refused
<1>4. DOMAIN rules = 1 .. 9
  OBVIOUS
<1>5. /\ rules[1] = <<a1, r1>>
      /\ rules[2] = <<a2, r2>>
      /\ rules[3] = <<a3, r3>>
      /\ rules[4] = <<a4, r4>>
      /\ rules[5] = <<a5, r5>>
      /\ rules[6] = <<a6, r6>>
      /\ rules[7] = <<a7, r7>>
      /\ rules[8] = <<a8, r8>>
      /\ rules[9] = <<TRUE, r9>>
  OBVIOUS
<1> HIDE DEF rules
<1>6. PICK i \in 1 .. 9 :
         /\ rules[i][1]
         /\ \A k \in 1 .. i - 1 : ~rules[k][1]
         /\ FirstMatch(rules) = rules[i][2]
  <2>1. 9 \in Nat /\ 9 > 0 /\ rules[9][1]
    BY <1>5
  <2> QED
    BY <1>4, <2>1, FirstMatchApplies, Zenon
<1>7. CASE i = 9
  <2>1. ~a1 /\ ~a2 /\ ~a3 /\ ~a8
    BY <1>5, <1>6, <1>7
  <2>2. Lifecycle(f, next) = next
    BY <1>1, <1>5, <1>6, <1>7
  <2> QED
    BY <2>1, <2>2 DEF a1, a2, a3, a8
<1>8. CASE i # 9
  <2>1. i \in {4, 6, 7} => ~a1
    BY <1>5, <1>6
  <2>2. i \in {6, 7} => ~a3
    BY <1>5, <1>6
  <2>3. Refused(Lifecycle(f, next))
    BY <1>1, <1>2, <1>3, <1>5, <1>6, <1>8, <2>1, <2>2
  <2> QED
    BY <2>3 DEF Refused
<1> QED
  BY <1>7, <1>8

LEMMA InterruptKeeps == ASSUME NEW f PROVE Keeps(Interrupt(f))
BY DEF Interrupt, Keeps, Stay, Cand

\* Every command of every kind, under any facts, leaves alone what is closed.
LEMMA CommandKeeps == ASSUME NEW k \in Commands, NEW f PROVE Keeps(decide_human_control(k, f))
<1> DEFINE c == decide_human_control(k, f)
           Plain == {"RESULT_EVIDENCE", "STALE_CANDIDATE", "DUPLICATE_DECISION", "CANCELLATION_OBSERVED",
                     "NO_CANCELLATION_REQUEST"}
<1>1. \A status \in Plain : Keeps(Stay(status))
  BY DEF Keeps, Stay, Cand
<1>2. Keeps(Escalate("DECISION_IDENTITY_CONFLICT", state, "CONFLICT", f))
  BY DEF Keeps, Escalate, Cand, ClosedApprovals
<1>3. k.op = "INVALIDATE" => Keeps(Cand("APPROVAL_INVALIDATED", state, k.to, "NO_CHANGE", None))
  BY CommandsAssumption DEF Keeps, Cand, ClosedApprovals
<1>4. Keeps(Lifecycle(f, Decision(k, f)))
  BY LifecycleOutcome, DecisionOnce DEF Keeps
<1>5. Keeps(Lifecycle(f, Gate(f)))
  BY LifecycleOutcome, GateOutcome DEF Keeps
<1>6. CASE k.op = "LATE_RESULT"
  BY <1>1, <1>6 DEF decide_human_control, KnownDecision
<1>7. CASE KnownDecision(k)
  BY <1>1, <1>2, <1>7 DEF decide_human_control, KnownDecision
<1>8. CASE k.op # "LATE_RESULT" /\ ~KnownDecision(k) /\ "stale" \in f.raised
  BY <1>1, <1>8 DEF decide_human_control
<1>9. CASE k.op # "LATE_RESULT" /\ ~KnownDecision(k) /\ ~("stale" \in f.raised)
  <2>1. k.op = "RECOVER" => c = Recover(f)
    BY <1>9 DEF decide_human_control
  <2>2. k.op = "OBSERVE_CANCEL" =>
            c = Stay(IF interrupted THEN "CANCELLATION_OBSERVED" ELSE "NO_CANCELLATION_REQUEST")
    BY <1>9 DEF decide_human_control
  <2>3. k.op = "INTERRUPT" => c = Interrupt(f)
    BY <1>9 DEF decide_human_control
  <2>4. k.op = "INVALIDATE" => c = Cand("APPROVAL_INVALIDATED", state, k.to, "NO_CHANGE", None)
    BY <1>9 DEF decide_human_control
  <2>5. k.op = "DECISION" => c = Lifecycle(f, Decision(k, f))
    BY <1>9 DEF decide_human_control
  <2>6. k.op = "GATE" => c = Lifecycle(f, Gate(f))
    BY <1>9 DEF decide_human_control
  <2>7. k.op \in {"DECISION", "GATE", "INTERRUPT", "OBSERVE_CANCEL", "INVALIDATE", "RECOVER"}
    BY <1>9, CommandsAssumption
  <2> HIDE DEF c
  <2>8. Keeps(c)
    BY <1>1, <1>3, <1>4, <1>5, <2>1, <2>2, <2>3, <2>4, <2>5, <2>6, <2>7, RecoverKeeps, InterruptKeeps
  <2> QED
    BY <2>8 DEF c
<1> QED
  BY <1>6, <1>7, <1>8, <1>9

\* dispatch_once passes the gate only when nothing is closed and the action is covered.
LEMMA DispatchIsCovered ==
  ASSUME NEW f, DispatchAllowed(f)
  PROVE  /\ state \notin TERMINAL_STATES /\ ~interrupted /\ approval \notin ClosedApprovals
         /\ risk = "HIGH" => decision # None /\ decision.choice = "APPROVED"
         /\ reservation.status = "HELD"
<1> DEFINE k == [id |-> "dispatch", op |-> "GATE", decision |-> None, choice |-> None, to |-> None]
           c == decide_human_control(k, f)
<1>1. k.op = "GATE" /\ c.status = "EXECUTION_CANDIDATE"
  BY DEF DispatchAllowed
<1> HIDE DEF k
<1>2. ~KnownDecision(k)
  BY <1>1 DEF KnownDecision
<1>3. "stale" \notin f.raised
  <2>1. SUFFICES ASSUME "stale" \in f.raised PROVE FALSE
    OBVIOUS
  <2>2. c = Stay("STALE_CANDIDATE")
    BY <1>1, <1>2, <2>1 DEF decide_human_control
  <2> QED
    BY <1>1, <2>2 DEF Stay, Cand
<1>4. c = Lifecycle(f, Gate(f))
  BY <1>1, <1>2, <1>3 DEF decide_human_control
<1> HIDE DEF c
<1>5. /\ c = Gate(f)
      /\ state \notin TERMINAL_STATES /\ ~interrupted /\ approval \notin ClosedApprovals
      /\ ~(risk = "HIGH" /\ "not_required" \in f.raised)
  BY <1>1, <1>4, LifecycleOutcome
<1> QED
  BY <1>1, <1>5, GateOutcome

\* apply commits a candidate that leaves the closed alone, and releases capacity only while
\* nothing is claimed.
LEMMA ApplyEffect ==
  ASSUME NEW k \in Commands, apply(k)
  PROVE  /\ claimed' = claimed
         /\ decision # None => decision' = decision
         /\ approval \in ClosedApprovals => approval' \in ClosedApprovals
         /\ state \in TERMINAL_STATES => state' = state
         /\ claimed /\ reservation.status # "RELEASED" => reservation'.status # "RELEASED"
<1>1. PICK x \in Classified(k) :
         \/ UNCHANGED record
         \/ /\ x.safe
            /\ state' = x.candidate.state /\ approval' = x.candidate.approval
            /\ reservation' =
                 CASE x.candidate.reservation = "SETTLE_VERIFIED" -> [status |-> "SETTLED", settled |-> x.candidate.usage]
                   [] x.candidate.reservation = "RELEASE" /\ reservation.status = "HELD" ->
                          [reservation EXCEPT !.status = "RELEASED"]
                   [] OTHER -> reservation
            /\ decision' = IF x.candidate.status = "DECISION_RECORDED"
                           THEN [id |-> k.decision, choice |-> k.choice] ELSE decision
            /\ UNCHANGED claimed
  BY DEF apply
<1>2. PICK f \in Facts(k.op) :
         x = LET c == decide_human_control(k, f) IN [candidate |-> c, safe |-> SafeRelease(c, f)]
  BY DEF Classified
<1>3. CASE UNCHANGED record
  BY <1>3 DEF record
<1>4. CASE ~UNCHANGED record
  <2> DEFINE c == x.candidate
  <2>1. Keeps(c) /\ x.safe = SafeRelease(c, f)
    BY <1>2, CommandKeeps
  <2>2. claimed /\ x.safe => c.reservation # "RELEASE"
    BY <2>1 DEF SafeRelease, Unused
  <2> HIDE DEF c
  <2>3. /\ x.safe
        /\ state' = c.state /\ approval' = c.approval
        /\ reservation' =
             CASE c.reservation = "SETTLE_VERIFIED" -> [status |-> "SETTLED", settled |-> c.usage]
               [] c.reservation = "RELEASE" /\ reservation.status = "HELD" ->
                      [reservation EXCEPT !.status = "RELEASED"]
               [] OTHER -> reservation
        /\ decision' = IF c.status = "DECISION_RECORDED"
                       THEN [id |-> k.decision, choice |-> k.choice] ELSE decision
        /\ UNCHANGED claimed
    BY <1>1, <1>4 DEF c
  <2>4. claimed /\ reservation.status # "RELEASED" => reservation'.status # "RELEASED"
    BY <2>2, <2>3
  <2> QED
    BY <2>1, <2>3, <2>4 DEF Keeps
<1> QED
  BY <1>3, <1>4

ControlInv == ClaimIsCovered /\ effects \in Nat /\ (effects > 0 => claimed)

LEMMA ControlStep == ControlInv /\ [Next]_vars => ControlInv'
<1> SUFFICES ASSUME ControlInv, [Next]_vars PROVE ControlInv'
  OBVIOUS
<1>1. ASSUME NEW k \in Commands, apply(k) PROVE ControlInv'
  <2>1. risk' = risk /\ effects' = effects
    BY <1>1 DEF apply
  <2> QED
    BY <1>1, <2>1, ApplyEffect DEF ControlInv, ClaimIsCovered
<1>2. ASSUME NEW f \in Facts("GATE"), dispatch_once(f) PROVE ControlInv'
  BY <1>2, DispatchIsCovered DEF dispatch_once, ControlInv, ClaimIsCovered
<1>3. CASE Effect
  BY <1>3 DEF Effect, record, ControlInv, ClaimIsCovered
<1>4. CASE Tick
  BY <1>4 DEF Tick, record, ControlInv, ClaimIsCovered
<1>5. CASE UNCHANGED vars
  BY <1>5 DEF vars, record, ControlInv, ClaimIsCovered
<1> QED
  BY <1>1, <1>2, <1>3, <1>4, <1>5 DEF Next

\* Whatever commands are sent under whatever facts, a claimed action has its capacity and, at
\* high risk, a recorded approval behind it.
THEOREM ClaimsAreCovered == Spec => []ClaimIsCovered
<1>1. Init => ControlInv
  BY DEF Init, ControlInv, ClaimIsCovered
<1>2. ControlInv => ClaimIsCovered
  BY DEF ControlInv
<1> QED
  BY <1>1, <1>2, ControlStep, PTL DEF Spec

\* No sequence of commands claims an action that was interrupted, closed or ended before, opens
\* a closed approval, or leaves a terminal state.
THEOREM WhatIsClosedStaysClosed == Spec => ClosedStaysClosed
<1> DEFINE A == /\ (interrupted \/ approval \in ClosedApprovals \/ state \in TERMINAL_STATES) /\ ~claimed => ~claimed'
                /\ approval \in ClosedApprovals => approval' \in ClosedApprovals
                /\ (state \in TERMINAL_STATES) => state' = state
<1>1. ASSUME [Next]_vars PROVE [A]_vars
  <2>1. ASSUME NEW k \in Commands, apply(k) PROVE A
    BY <2>1, ApplyEffect
  <2>2. ASSUME NEW f \in Facts("GATE"), dispatch_once(f) PROVE A
    BY <2>2, DispatchIsCovered DEF dispatch_once
  <2>3. CASE Effect
    BY <2>3 DEF Effect, record
  <2>4. CASE Tick
    BY <2>4 DEF Tick, record
  <2> HIDE DEF A
  <2> QED
    BY <1>1, <2>1, <2>2, <2>3, <2>4 DEF Next
<1> QED
  BY <1>1, PTL DEF Spec, ClosedStaysClosed
=============================================================================
