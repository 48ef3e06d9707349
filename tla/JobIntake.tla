------------------------------- MODULE JobIntake -------------------------------
(***************************************************************************)
(* Job acceptance and its outbox in memory (day50), over the Documents     *)
(* that UploadVerification commits.  Clients race on one idempotency key:  *)
(* each reads, admits its documents, and goes to the arbiter.  The Job and *)
(* its dispatch intent are written together; relays claim the intent,      *)
(* publish outside any lock and checkpoint under their token.  A relay     *)
(* judges its lease by the time of its claim, as run_relay_once does.      *)
(***************************************************************************)
EXTENDS UploadVerification

CONSTANTS Clients, Relays,
          Requests,               \* [command -> the documents it names]
          RelayHold, MaxAttempts, BackoffCap

ASSUME IntakeAssumption ==
    /\ Nobody \notin Relays
    /\ {RelayHold, MaxAttempts, BackoffCap} \subseteq Nat \ {0}

VARIABLES jobRow,    \* JobRow of the key: [status, request]
          outbox,    \* its OutboxRow: [state, attempts, due, owner, hold]
          sent,      \* the transport was given the envelope
          client,    \* each accept_job: [at, request]; `at` ends as the outcome it was told
          relay      \* each run_relay_once: [at, t]

intakeVars == <<jobRow, outbox, sent, client, relay>>

NoJob == [status |-> "none", request |-> Nobody]
NoIntent == [state |-> "none", attempts |-> 0, due |-> 0, owner |-> Nobody, hold |-> 0]

NoCommand == [at |-> "idle", request |-> Nobody]
NoPass == [at |-> "idle", t |-> 0]

IntakeInit ==
    /\ jobRow = NoJob /\ outbox = NoIntent /\ sent = FALSE
    /\ client = [c \in Clients |-> NoCommand]
    /\ relay = [r \in Relays |-> NoPass]

-----------------------------------------------------------------------------
\* accept_job.

\* The directory knows the Document of this tenant's session once it is committed.
is_verified_and_owned(d) == d = "own" /\ document # 0

\* _existing_result.
Existing(row, request) == IF row.request = request THEN "returned_existing" ELSE "conflict"

\* A Job that is there answers at once, without looking at documents; documents that are not
\* verified or not owned end the call.
accept_job(c, request) ==
    /\ client[c].at = "idle"
    /\ jobRow = NoJob => \A d \in Requests[request] : is_verified_and_owned(d)
    /\ client' = [client EXCEPT ![c] = [at |-> IF jobRow = NoJob THEN "arbiter" ELSE Existing(jobRow, request),
                                        request |-> request]]
    /\ UNCHANGED <<jobRow, outbox, sent, relay>>

\* Mutant: the arbiter trusts the earlier read.
InsertsAnyway(c) ==
    /\ client[c].at = "arbiter"
    /\ jobRow' = [status |-> "queued", request |-> client[c].request]
    /\ outbox' = [NoIntent EXCEPT !.state = "unpublished", !.due = now]
    /\ client' = [client EXCEPT ![c].at = "created"]
    /\ UNCHANGED <<sent, relay>>
\* upsert_job_on_conflict: the first creates Job and intent, the others see it.
upsert_job_on_conflict(c) ==
    /\ client[c].at = "arbiter"
    /\ IF jobRow = NoJob
       THEN /\ jobRow' = [status |-> "queued", request |-> client[c].request]
            /\ outbox' = [NoIntent EXCEPT !.state = "unpublished", !.due = now]
            /\ client' = [client EXCEPT ![c].at = "created"]
       ELSE /\ client' = [client EXCEPT ![c].at = Existing(jobRow, client[c].request)]
            /\ UNCHANGED <<jobRow, outbox>>
    /\ UNCHANGED <<sent, relay>>

\* A client, or its commit, fails.
ClientFails(c) ==
    /\ client[c].at = "arbiter" /\ client' = [client EXCEPT ![c] = NoCommand]
    /\ UNCHANGED <<jobRow, outbox, sent, relay>>

-----------------------------------------------------------------------------
\* run_relay_once, for the one row.

EndsPass(r) == relay' = [relay EXCEPT ![r] = NoPass]

\* A due intent that no other relay holds.
claim_outbox_batch(r) ==
    /\ relay[r].at = "idle"
    /\ outbox.state = "unpublished" /\ now >= outbox.due
    /\ outbox.owner \in {Nobody, r} \/ now >= outbox.hold
    /\ outbox' = [outbox EXCEPT !.owner = r, !.hold = now + RelayHold]
    /\ relay' = [relay EXCEPT ![r] = [at |-> "publish", t |-> now]]
    /\ UNCHANGED <<jobRow, sent, client>>

publish(r) ==
    /\ relay[r].at = "publish" /\ sent' = TRUE /\ relay' = [relay EXCEPT ![r].at = "checkpoint"]
    /\ UNCHANGED <<jobRow, outbox, client>>

\* _require_live_lease; without it the pass ends with a FencingError.
LiveLease(r) == outbox.owner = r /\ relay[r].t < outbox.hold

checkpoint_published_if_owner(r) ==
    /\ relay[r].at = "checkpoint" /\ EndsPass(r)
    /\ outbox' = IF outbox.state # "published" /\ LiveLease(r)
                 THEN [outbox EXCEPT !.state = "published", !.owner = Nobody, !.hold = 0] ELSE outbox
    /\ UNCHANGED <<jobRow, sent, client>>

\* compute_next_attempt: doubling from one, up to the cap.
Backoff(attempt) == IF 2 ^ (attempt - 1) < BackoffCap THEN 2 ^ (attempt - 1) ELSE BackoffCap

\* The transport fails, and the intent is kept for a later attempt, or in quarantine.
record_transport_failure(r) ==
    LET attempt == outbox.attempts + 1 IN
    /\ relay[r].at = "publish" /\ EndsPass(r)
    /\ outbox' = IF LiveLease(r)
                 THEN [state |-> IF attempt >= MaxAttempts THEN "quarantined" ELSE outbox.state,
                       attempts |-> attempt, due |-> relay[r].t + Backoff(attempt),
                       owner |-> Nobody, hold |-> 0]
                 ELSE outbox
    /\ UNCHANGED <<jobRow, sent, client>>

\* The relay dies, before or after its message is out (TransportCrashAfterPublish).
RelayDies(r) ==
    /\ relay[r].at # "idle" /\ EndsPass(r)
    /\ UNCHANGED <<jobRow, outbox, sent, client>>

\* A delivery: the first one runs the Job.
worker_claim ==
    /\ sent /\ jobRow.status = "queued" /\ jobRow' = [jobRow EXCEPT !.status = "running"]
    /\ UNCHANGED <<outbox, sent, client, relay>>

IntakeNext ==
    \/ \E c \in Clients : \/ \E request \in DOMAIN Requests : accept_job(c, request)
                          \/ upsert_job_on_conflict(c) \/ ClientFails(c)
    \/ \E r \in Relays : \/ claim_outbox_batch(r) \/ publish(r) \/ checkpoint_published_if_owner(r)
                         \/ record_transport_failure(r) \/ RelayDies(r)
    \/ worker_claim

\* Uploads and acceptance side by side.
BackendInit == UploadInit /\ IntakeInit
BackendNext == \/ UploadNext /\ UNCHANGED intakeVars
               \/ IntakeNext /\ UNCHANGED uploadVars
BackendSpec == BackendInit /\ [][BackendNext]_<<uploadVars, intakeVars>>

-----------------------------------------------------------------------------
\* A client that was told its command is accepted can rely on it: the Job of the key is that
\* command, its input is stored and verified, and its dispatch is still owed, was made, or is
\* in quarantine after all attempts.  Neither a race on the key nor a cleanup, nor relays
\* that die between publication and checkpoint or lose their lease, can break the promise.
AcceptedIsBacked ==
    \A c \in Clients :
        client[c].at \in {"created", "returned_existing"} =>
            /\ jobRow.request = client[c].request
            /\ \A d \in Requests[jobRow.request] : is_verified_and_owned(d) /\ DocumentIsStored
            /\ \/ sent
               \/ outbox.state = "unpublished"
               \/ outbox.state = "quarantined" /\ outbox.attempts = MaxAttempts
=============================================================================
