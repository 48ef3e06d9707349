-------------------------- MODULE ProviderResilience --------------------------
(***************************************************************************)
(* The admission-to-provider control plane (day56) with its recovery       *)
(* boundary (day57).  evaluate_dispatch asks four authorities that have    *)
(* one lock each: the durable Job, the shared rate limiter, the tenant     *)
(* ledger and the circuit breaker.  Workers run it concurrently, so every  *)
(* locked question is a step of its own and an earlier answer may be stale *)
(* when the next one is asked.                                             *)
(*                                                                         *)
(* All Jobs belong to one tenant and one circuit key.  A worker holds the  *)
(* guarded claim of its Job (day55), so no other process changes that Job. *)
(***************************************************************************)
EXTENDS Integers, FiniteSetsExt, Functions

CONSTANTS Jobs, Workers,
          Balance,         \* the tenant's balance
          WorstCase,       \* worst_case_cost of a contract
          Costs,           \* actual costs a completed call may report
          Capacity,        \* of the limiter
          fail_threshold, half_open_max_probes, needed_to_close,
          MaxRounds,       \* bound on recovery rounds
          Disturbed,       \* Jobs that cancellation, deadlines and the repair may meet
          Outages,         \* whether the limiter's store may fail
          None

ASSUME BoundsAssumption ==
    /\ {Balance, WorstCase, Capacity, fail_threshold, half_open_max_probes, needed_to_close,
        MaxRounds} \subseteq Nat
    /\ WorstCase > 0 /\ fail_threshold > 0 /\ Costs \subseteq Nat
    /\ IsFiniteSet(Jobs) /\ Disturbed \subseteq Jobs /\ Outages \in BOOLEAN /\ None \notin Jobs

VARIABLES status, intent, evidence, late,  \* per Job: status, cancellation intent, provider
                                           \* evidence, business deadline passed
          available, reserved,             \* TenantBudgetLedger; reserved[j] = 0: no entry
          charged,                         \* per Job, what the tenant paid in all
          settled,                         \* Jobs whose settled_cost is set
          up, used,                        \* SharedRateLimiter
          state, fails, probes, successes, \* CircuitBreaker
          round,                           \* recovery rounds started so far
          repaired,                        \* repair_ledger
          pc, job, permit, cstate,         \* each worker's evaluate_dispatch
          probe,                           \* the round whose slot its call holds, or 0
          executed                         \* per Job, calls that may have executed

jobVars == <<status, intent, evidence, late>>
ledger == <<available, reserved, charged, settled>>
limiter == <<up, used>>
circuit == <<state, fails, probes, successes, round>>
workers == <<pc, job, permit, cstate, probe>>
vars == <<jobVars, ledger, limiter, circuit, repaired, workers, executed>>

TERMINAL_STATUSES == {"SUCCEEDED", "FAILED", "CANCELLED", "EXPIRED"}
JobStatus == {"absent", "QUEUED", "RUNNING", "DEFERRED", "PENDING_RECONCILIATION"} \cup TERMINAL_STATUSES
Steps == {"idle", "facts", "hint", "permit", "afford", "slot", "calling"}

TypeOK ==
    /\ status \in [Jobs -> JobStatus] /\ intent \in [Jobs -> BOOLEAN] /\ late \in [Jobs -> BOOLEAN]
    /\ evidence \in [Jobs -> {"none", "marker", "request_id"}]
    /\ available \in Nat /\ reserved \in [Jobs -> {0, WorstCase}] /\ charged \in [Jobs -> Nat] /\ settled \subseteq Jobs
    /\ up \in BOOLEAN /\ used \in 0 .. Capacity
    /\ state \in {"CLOSED", "OPEN", "HALF_OPEN"} /\ {fails, successes} \subseteq Nat
    /\ probes \in 0 .. half_open_max_probes /\ round \in 0 .. MaxRounds
    /\ repaired \subseteq Jobs
    /\ pc \in [Workers -> Steps] /\ job \in [Workers -> Jobs \cup {None}]
    /\ permit \in [Workers -> BOOLEAN] /\ probe \in [Workers -> 0 .. MaxRounds]
    /\ cstate \in [Workers -> {"CLOSED", "HALF_OPEN", None}]
    /\ executed \in [Jobs -> Nat]

Init ==
    /\ status = [j \in Jobs |-> "absent"] /\ intent = [j \in Jobs |-> FALSE]
    /\ evidence = [j \in Jobs |-> "none"] /\ late = [j \in Jobs |-> FALSE]
    /\ available = Balance /\ reserved = [j \in Jobs |-> 0] /\ charged = [j \in Jobs |-> 0] /\ settled = {}
    /\ up = TRUE /\ used = 0
    /\ state = "CLOSED" /\ fails = 0 /\ probes = 0 /\ successes = 0 /\ round = 0
    /\ repaired = {}
    /\ pc = [w \in Workers |-> "idle"] /\ job = [w \in Workers |-> None]
    /\ permit = [w \in Workers |-> FALSE] /\ cstate = [w \in Workers |-> None]
    /\ probe = [w \in Workers |-> 0]
    /\ executed = [j \in Jobs |-> 0]

SetStatus(j, s) == status' = [status EXCEPT ![j] = s]
Claimed(j) == \E w \in Workers : job[w] = j
Evident(j) == evidence[j] # "none"

-----------------------------------------------------------------------------
(***************************************************************************)
(* The tenant ledger.                                                      *)
(***************************************************************************)

Affordable == available >= WorstCase

\* The outcome TRUE; FALSE (not affordable) changes nothing.
reserve_worst_case(j) ==
    \/ reserved[j] > 0 /\ UNCHANGED ledger
    \/ /\ reserved[j] = 0 /\ Affordable
       /\ available' = available - WorstCase
       /\ reserved' = [reserved EXCEPT ![j] = WorstCase]
       /\ UNCHANGED <<charged, settled>>

\* Mutant: the tenant pays what the call cost, reserved or not.
ChargesOverage(j, cost) ==
    /\ reserved' = [reserved EXCEPT ![j] = 0]
    /\ available' = available + reserved[j] - cost
    /\ charged' = [charged EXCEPT ![j] = @ + cost] /\ settled' = settled \cup {j}

\* An overage is charged up to the reservation and left to reconciliation.
settle_actual(j, cost) ==
    /\ reserved' = [reserved EXCEPT ![j] = 0]
    /\ available' = available + Max({0, reserved[j] - cost})
    /\ charged' = [charged EXCEPT ![j] = @ + Min({cost, reserved[j]})] /\ settled' = settled \cup {j}

release_reservation(j) ==
    /\ reserved' = [reserved EXCEPT ![j] = 0]
    /\ available' = available + reserved[j]
    /\ UNCHANGED <<charged, settled>>

-----------------------------------------------------------------------------
(***************************************************************************)
(* The circuit breaker.                                                    *)
(***************************************************************************)

record_failure == /\ fails' = fails + 1
                  /\ state' = IF fails + 1 >= fail_threshold THEN "OPEN" ELSE state
                  /\ UNCHANGED <<probes, successes, round>>

\* An explicit new recovery round, whatever the state of the circuit.
start_half_open == /\ round < MaxRounds
                   /\ state' = "HALF_OPEN" /\ probes' = 0 /\ successes' = 0
                   /\ round' = round + 1
                   /\ UNCHANGED <<fails, jobVars, ledger, limiter, repaired, workers, executed>>

has_probe_capacity == state = "HALF_OPEN" /\ probes < half_open_max_probes

FreeSlot == probes' = Max({0, probes - 1})

record_probe_success ==
    /\ FreeSlot
    /\ IF state = "HALF_OPEN"
       THEN /\ successes' = successes + 1
            /\ state' = IF successes + 1 >= needed_to_close THEN "CLOSED" ELSE state
            /\ fails' = IF successes + 1 >= needed_to_close THEN 0 ELSE fails
       ELSE UNCHANGED <<state, successes, fails>>
    /\ UNCHANGED round

record_probe_failure == FreeSlot /\ state' = "OPEN" /\ UNCHANGED <<fails, successes, round>>

-----------------------------------------------------------------------------
(***************************************************************************)
(* evaluate_dispatch, one action per locked question.                      *)
(***************************************************************************)

\* The worker lets go of its Job.
Leave(w) == /\ pc' = [pc EXCEPT ![w] = "idle"] /\ job' = [job EXCEPT ![w] = None]
            /\ permit' = [permit EXCEPT ![w] = FALSE] /\ cstate' = [cstate EXCEPT ![w] = None]
            /\ probe' = [probe EXCEPT ![w] = 0]

Go(w, step) == pc' = [pc EXCEPT ![w] = step] /\ UNCHANGED <<job, permit, cstate, probe>>

\* Mutant: the permit taken in step (5) is forgotten.
KeepsPermit(w) == UNCHANGED limiter

ReturnPermit(w) == used' = (IF permit[w] THEN Max({0, used - 1}) ELSE used) /\ UNCHANGED up

\* _defer: the Job waits for its next attempt and the worker is free.
_defer(w) == /\ SetStatus(job[w], "DEFERRED") /\ Leave(w)
             /\ UNCHANGED <<intent, evidence, late, ledger, circuit, repaired, executed>>

\* Acceptance: backpressure (admit_job) refuses before the Job exists.
Accept(j) == /\ status[j] = "absent"
             /\ reserve_worst_case(j) /\ SetStatus(j, "QUEUED")
             /\ UNCHANGED <<intent, evidence, late, limiter, circuit, repaired, workers, executed>>

\* External: the guarded claim of day55.
Claim(w, j) == /\ pc[w] = "idle" /\ status[j] \in {"QUEUED", "DEFERRED"} /\ ~Claimed(j)
               /\ SetStatus(j, "RUNNING")
               /\ pc' = [pc EXCEPT ![w] = "facts"] /\ job' = [job EXCEPT ![w] = j]
               /\ UNCHANGED <<intent, evidence, late, ledger, limiter, circuit, repaired, permit,
                              cstate, probe, executed>>

\* (1)-(4): durable facts outrank capacity; then the circuit's state is read.
EvaluateFacts(w) ==
    LET j == job[w] IN
    /\ pc[w] = "facts"
    /\ \/ /\ intent[j] /\ SetStatus(j, "CANCELLED") /\ Leave(w)
          /\ UNCHANGED <<intent, evidence, late, ledger, limiter, circuit, repaired, executed>>
       \/ /\ ~intent[j] /\ Evident(j) /\ SetStatus(j, "PENDING_RECONCILIATION") /\ Leave(w)
          /\ UNCHANGED <<intent, evidence, late, ledger, limiter, circuit, repaired, executed>>
       \/ /\ ~intent[j] /\ ~Evident(j) /\ late[j]
          /\ release_reservation(j) /\ SetStatus(j, "EXPIRED") /\ Leave(w)
          /\ UNCHANGED <<intent, evidence, late, limiter, circuit, repaired, executed>>
       \/ /\ ~intent[j] /\ ~Evident(j) /\ ~late[j]
          /\ IF state = "OPEN" THEN _defer(w) /\ UNCHANGED limiter
             ELSE /\ cstate' = [cstate EXCEPT ![w] = state]
                  /\ pc' = [pc EXCEPT ![w] = IF state = "HALF_OPEN" THEN "hint" ELSE "permit"]
                  /\ UNCHANGED <<jobVars, ledger, limiter, circuit, repaired, job, permit, probe,
                                 executed>>

\* (4) The read-only hint for a HALF_OPEN circuit.
ProbeHint(w) ==
    /\ pc[w] = "hint"
    /\ IF has_probe_capacity
       THEN Go(w, "permit") /\ UNCHANGED <<jobVars, ledger, limiter, circuit, repaired, executed>>
       ELSE _defer(w) /\ UNCHANGED limiter

\* (5) The shared limiter; an outage fails closed unless the caller opted out.
TakePermit(w, emergency_fail_open) ==
    /\ pc[w] = "permit"
    /\ \/ /\ up /\ used < Capacity
          /\ used' = used + 1 /\ permit' = [permit EXCEPT ![w] = TRUE]
          /\ pc' = [pc EXCEPT ![w] = "afford"]
          /\ UNCHANGED <<jobVars, ledger, up, circuit, repaired, job, cstate, probe, executed>>
       \/ /\ ~up /\ emergency_fail_open /\ Go(w, "afford")
          /\ UNCHANGED <<jobVars, ledger, limiter, circuit, repaired, executed>>
       \/ /\ IF up THEN used >= Capacity ELSE ~emergency_fail_open
          /\ _defer(w) /\ UNCHANGED limiter

\* (6) The reservation made at acceptance.
CheckReservation(w) ==
    /\ pc[w] = "afford"
    /\ IF reserved[job[w]] > 0
       THEN /\ Go(w, IF cstate[w] = "HALF_OPEN" THEN "slot" ELSE "calling")
            /\ UNCHANGED <<jobVars, ledger, limiter, circuit, repaired, executed>>
       ELSE ReturnPermit(w) /\ _defer(w)

\* (7) The atomic acquisition; the loser gives its permit back.
try_acquire_probe(w) ==
    /\ pc[w] = "slot"
    /\ IF has_probe_capacity
       THEN /\ probes' = probes + 1
            /\ probe' = [probe EXCEPT ![w] = round] /\ pc' = [pc EXCEPT ![w] = "calling"]
            /\ UNCHANGED <<jobVars, ledger, limiter, state, fails, successes, round, repaired, job,
                           permit, cstate, executed>>
       ELSE ReturnPermit(w) /\ _defer(w)

-----------------------------------------------------------------------------
(***************************************************************************)
(* The call and what follows it.                                           *)
(***************************************************************************)

\* The circuit hears of the call as a probe or as an ordinary call.
Report(w, ok) == IF probe[w] > 0
                 THEN IF ok THEN record_probe_success ELSE record_probe_failure
                 ELSE IF ok THEN UNCHANGED circuit ELSE record_failure

\* The provider took the request and the worker keeps its id (day55).
record_provider_request_id(w) ==
    /\ pc[w] = "calling" /\ evidence[job[w]] # "request_id"
    /\ evidence' = [evidence EXCEPT ![job[w]] = "request_id"]
    /\ UNCHANGED <<status, intent, late, ledger, limiter, circuit, repaired, workers, executed>>

\* The call succeeds: its cost is settled.
CallSucceeds(w, cost) ==
    LET j == job[w] IN
    /\ pc[w] = "calling" /\ evidence[j] = "request_id"
    /\ settle_actual(j, cost) /\ SetStatus(j, "SUCCEEDED")
    /\ executed' = [executed EXCEPT ![j] = @ + 1]
    /\ Report(w, TRUE) /\ ReturnPermit(w) /\ Leave(w)
    /\ UNCHANGED <<intent, evidence, late, repaired>>

\* classify_execution_certainty: a request id always means the call may have executed.
Certainties(j) == IF evidence[j] = "request_id" THEN {"MAY_HAVE_EXECUTED"}
                  ELSE {"DEFINITELY_NOT_ACCEPTED", "UNKNOWN"}

\* The call fails (decide_and_apply_recovery): only a certain refusal goes the way of an
\* ordinary defer; otherwise a dispatch marker is left and the reservation held.
CallFails(w, certainty) ==
    LET j == job[w] IN
    /\ pc[w] = "calling" /\ certainty \in Certainties(j)
    /\ IF certainty = "DEFINITELY_NOT_ACCEPTED"
       THEN SetStatus(j, "DEFERRED") /\ UNCHANGED <<evidence, executed>>
       ELSE /\ SetStatus(j, "PENDING_RECONCILIATION")
            /\ evidence' = [evidence EXCEPT ![j] = IF @ = "none" THEN "marker" ELSE @]
            /\ executed' = [executed EXCEPT ![j] = @ + 1]
    /\ Report(w, FALSE) /\ ReturnPermit(w) /\ Leave(w)
    /\ UNCHANGED <<intent, late, ledger, repaired>>

\* attempt_late_completion answers COMPLETED: the result that belongs to the recorded
\* request settles the Job.  An unknown request id refuses.
LateCompletion(j, cost) ==
    /\ status[j] = "PENDING_RECONCILIATION" /\ evidence[j] = "request_id"
    /\ settle_actual(j, cost) /\ SetStatus(j, "SUCCEEDED")
    /\ UNCHANGED <<intent, evidence, late, limiter, circuit, repaired, workers, executed>>

\* Mutant: expiry does not look for evidence.
ExpiresAnything(j) ==
    /\ status[j] \notin TERMINAL_STATUSES \cup {"absent"} /\ ~Claimed(j)
    /\ release_reservation(j) /\ SetStatus(j, "EXPIRED")
    /\ UNCHANGED <<intent, evidence, late, limiter, circuit, repaired, workers, executed>>

\* process_deadline, at the defer deadline of a Job no worker holds.  A bad release may set
\* that deadline far before the business deadline.
process_deadline(j) ==
    /\ status[j] # "absent" /\ ~Claimed(j)
    /\ \/ Evident(j) /\ SetStatus(j, "PENDING_RECONCILIATION") /\ UNCHANGED ledger
       \/ /\ ~Evident(j) /\ status[j] \notin TERMINAL_STATUSES
          /\ release_reservation(j) /\ SetStatus(j, "EXPIRED")
    /\ UNCHANGED <<intent, evidence, late, limiter, circuit, repaired, workers, executed>>

\* repair_redispatch of an affected Job, one atomic decision.
repair_redispatch(j) ==
    /\ j \notin repaired                                 \* ALREADY_APPLIED
    /\ status[j] = "EXPIRED" /\ ~intent[j] /\ ~Evident(j) /\ ~late[j]
    /\ reserve_worst_case(j) /\ SetStatus(j, "QUEUED")
    /\ repaired' = repaired \cup {j}
    /\ UNCHANGED <<intent, evidence, late, limiter, circuit, workers, executed>>

\* External: a user cancels, a business deadline passes, the limiter's store fails or
\* comes back.
Cancel(j) == /\ status[j] \notin TERMINAL_STATUSES \cup {"absent"} /\ ~intent[j]
             /\ intent' = [intent EXCEPT ![j] = TRUE]
             /\ UNCHANGED <<status, evidence, late, ledger, limiter, circuit, repaired, workers, executed>>
DeadlinePasses(j) == /\ status[j] # "absent" /\ ~late[j] /\ late' = [late EXCEPT ![j] = TRUE]
                     /\ UNCHANGED <<status, intent, evidence, ledger, limiter, circuit, repaired,
                                    workers, executed>>
Outage == up' = ~up /\ UNCHANGED <<jobVars, ledger, used, circuit, repaired, workers, executed>>

Next ==
    \/ \E j \in Jobs : Accept(j) \/ \E c \in Costs : LateCompletion(j, c)
    \/ \E j \in Disturbed : \/ process_deadline(j) \/ repair_redispatch(j)
                            \/ Cancel(j) \/ DeadlinePasses(j)
    \/ \E w \in Workers : \/ \E j \in Jobs : Claim(w, j)
                          \/ EvaluateFacts(w) \/ ProbeHint(w)
                          \/ \E o \in BOOLEAN : TakePermit(w, o)
                          \/ CheckReservation(w) \/ try_acquire_probe(w)
                          \/ record_provider_request_id(w)
                          \/ \E c \in Costs : CallSucceeds(w, c)
                          \/ \E c \in {"DEFINITELY_NOT_ACCEPTED", "MAY_HAVE_EXECUTED", "UNKNOWN"} : CallFails(w, c)
    \/ start_half_open
    \/ Outages /\ Outage

Spec == Init /\ [][Next]_vars

-----------------------------------------------------------------------------
\* The tenant's money is conserved and never overdrawn, through settlements, overages,
\* releases and repairs: what is available, reserved and charged adds up to the balance, and
\* no settlement or reservation takes more than was there (day56 settle_actual).
LedgerConserved ==
    /\ available >= 0
    /\ available + FoldFunction(+, 0, reserved) + FoldFunction(+, 0, charged) = Balance

\* The limiter counts exactly the permits of the workers between step (5) and the end of
\* their call, and every probe slot counted while HALF_OPEN belongs to a call in flight: no
\* early return of evaluate_dispatch leaks either, or returns it twice, so that neither the
\* fleet nor a recovering circuit can be blocked by what nobody will free.
PermitsAccountedFor ==
    /\ used = Cardinality({w \in Workers : permit[w]})
    /\ state = "HALF_OPEN" => probes <= Cardinality({w \in Workers : probe[w] = round})

\* A Job reaches the provider at most once where it may have executed, and until that
\* execution is settled its reservation is held: no deadline, repair or retry frees it.
UncertainStaysFunded ==
    \A j \in Jobs :
        /\ executed[j] <= 1
        /\ executed[j] = 1 /\ j \notin settled => reserved[j] = WorstCase

=============================================================================
