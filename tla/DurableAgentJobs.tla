--------------------------- MODULE DurableAgentJobs ---------------------------
(***************************************************************************)
(* Recovery of durable agent Jobs (day82): decide_durable_recovery makes a *)
(* candidate from a request, InMemoryDurableAgentJobStore.apply commits it *)
(* conditionally; leases change hands and late worker results are judged.  *)
(***************************************************************************)
EXTENDS Integers, FiniteSets, Sequences, TLC, FirstMatch

CONSTANTS AgentWorkers,
          Recoveries,       \* recovery identities
          Reserved,         \* reserved_units of the attempt's reservation
          Usages,           \* the verified usages evidence may report
          Unset

ASSUME ReservationAssumption == Reserved \in Nat /\ Usages \subseteq 0 .. Reserved

VARIABLES state, version, fence, generation,   \* DurableAgentJobRecord
          owner, expiry,       \* the lease; expiry is "future", "past" or Unset
          checkpoint,          \* the current DurableCheckpoint
          reservation,         \* the ReservationRecord of the current attempt
          intents,             \* outbox_intents, by recovery identity
          recovery_operations, \* applied recoveries: recovery identity -> decision
          work,                \* what each recovery process holds: a candidate and the record it is for
          begun                \* the record each worker saw when it began the attempt

job == <<state, version, fence, generation, owner, expiry, checkpoint, reservation, intents,
         recovery_operations>>
agentJobVars == <<job, work, begun>>

TERMINAL_STATES == {"COMPLETED", "TERMINATED", "FAILED", "CANCELLED"}
AgentState == {"READY", "RUNNING", "WAITING", "PENDING_RECONCILIATION"} \cup TERMINAL_STATES

\* A checkpoint id hashes its predecessor's id and the recovery: it stands for the chain.
_next_checkpoint_id(id, r) == Append(id, r)

\* What a request or candidate names: the checkpoint and the expected state, version
\* and fence.  Tenant, Job, step and attempt never change in this store.
Snapshot == [checkpoint |-> checkpoint.id, state |-> state, version |-> version, fence |-> fence]

\* The evidence of a RecoveryRequest and the bound of its RecoveryOperation.
RecoveryEvidence ==
    [exhausted : BOOLEAN, auth : BOOLEAN, binding : BOOLEAN, repair : BOOLEAN,
     unwanted : BOOLEAN, usage : Usages \cup {Unset},
     certainty : {"OUTCOME_UNKNOWN", "DEFINITELY_NOT_DISPATCHED", "VERIFIED_TERMINAL"}]

AgentJobInit ==
    /\ state \in {"RUNNING", "COMPLETED"} /\ version = 0 /\ fence = 0 /\ generation = 0
    /\ owner \in AgentWorkers /\ expiry = "future"
    /\ checkpoint = [id |-> <<>>, version |-> 0, state |-> state, state_version |-> 0]
    /\ reservation = [status |-> "HELD", settled |-> 0, released |-> 0]
    /\ intents = {} /\ recovery_operations = << >>
    /\ work = [r \in Recoveries |-> Unset]
    /\ begun = [w \in AgentWorkers |-> Unset]

-----------------------------------------------------------------------------

\* The state a Job whose outcome is unknown is parked in.
PendingUnlessTerminal(s) == IF s \in TERMINAL_STATES THEN s ELSE "PENDING_RECONCILIATION"

\* decide_durable_recovery: decision, next state, reservation action, whether an intent is
\* created, for the state s of the record and the evidence e.  A request whose
\* expectations are not the record's (REJECT_STALE) comes to nothing.
decide_durable_recovery(s, e) == FirstMatch(<<
    <<e.exhausted,                   <<"ESCALATE", PendingUnlessTerminal(s), "KEEP_HELD", FALSE>> >>,
    <<e.certainty = "OUTCOME_UNKNOWN",
                                     <<"RECONCILE", PendingUnlessTerminal(s), "KEEP_HELD", TRUE>> >>,
    <<e.repair,                      <<"REPAIR", s, "NO_CHANGE", FALSE>> >>,
    <<e.unwanted /\ ~e.auth,         <<"BLOCKED", s, "NO_CHANGE", FALSE>> >>,
    <<e.unwanted,                    <<"COMPENSATE", s, "NO_CHANGE", TRUE>> >>,
    <<e.usage # Unset,               <<"SETTLE", s, "SETTLE_VERIFIED", FALSE>> >>,
    <<s \in TERMINAL_STATES,         <<"TERMINAL_NOOP", s, "NO_CHANGE", FALSE>> >>,
    <<~e.binding /\ ~e.auth,         <<"BLOCKED", s, "RELEASE", FALSE>> >>,
    <<~e.binding,                    <<"REPLAN", "WAITING", "RELEASE", TRUE>> >>,
    <<e.certainty = "DEFINITELY_NOT_DISPATCHED" /\ ~e.auth,
                                     <<"BLOCKED", s, "RELEASE", FALSE>> >>,
    <<e.certainty = "DEFINITELY_NOT_DISPATCHED",
                                     <<"RETRY", "RUNNING", "RELEASE", TRUE>> >>,
    <<TRUE,                          <<"RESUME", s, "NO_CHANGE", FALSE>> >> >>)

\* The candidates the evidence allows in each state.
Candidates == [s \in AgentState |->
    {LET d == decide_durable_recovery(s, e) IN
     [decision |-> d[1], next |-> d[2], reservation |-> d[3], intent |-> d[4],
      usage |-> IF d[1] = "SETTLE" THEN e.usage ELSE Unset] : e \in RecoveryEvidence}]

\* A recovery process reads the record, builds its RecoveryRequest and classifies it
\* (_candidate).  Classifying the same record twice is as good as once with the second evidence.
Classify(r) ==
    /\ work[r] # Unset => work[r].at # Snapshot
    /\ \E c \in Candidates[state] : work' = [work EXCEPT ![r] = [at |-> Snapshot, candidate |-> c]]
    /\ UNCHANGED <<job, begun>>

\* Mutant: no memory of the recoveries already applied.
ForgetsRecoveries(r, c) ==
    /\ work[r].at = Snapshot
    /\ c.decision # "TERMINAL_NOOP"

\* The guards of apply: every other outcome leaves the record as it is.
Applicable(r, c) ==
    /\ r \notin DOMAIN recovery_operations                               \* DUPLICATE_REPLAY
    /\ work[r].at = Snapshot                                    \* NOOP_STALE
    /\ state \in TERMINAL_STATES =>                             \* NOOP_TERMINAL
           c.decision \in {"RECONCILE", "REPAIR", "SETTLE", "COMPENSATE", "ESCALATE"}
    /\ c.decision # "TERMINAL_NOOP"
    /\ ~(c.decision = "BLOCKED" /\ c.reservation = "NO_CHANGE" /\ ~c.intent)

NextCheckpoint(r, c) ==
    [id |-> _next_checkpoint_id(checkpoint.id, r), version |-> checkpoint.version + 1,
     state |-> c.next, state_version |-> version + 1]

\* Mutant: a missing usage counts as zero.
UnknownIsZero(c) ==
    IF c.reservation \in {"RELEASE", "KEEP_HELD"}
    THEN [reservation EXCEPT !.status = "RELEASED", !.released = Reserved]
    ELSE reservation

ReservationAfter(c) ==
    CASE c.reservation = "RELEASE" ->
           [reservation EXCEPT !.status = "RELEASED", !.released = Reserved]
      [] c.reservation = "SETTLE_VERIFIED" ->
           [status |-> "SETTLED", settled |-> c.usage, released |-> Reserved - c.usage]
      [] OTHER -> reservation

\* InMemoryDurableAgentJobStore.apply.  The process keeps its candidate and may deliver
\* it again.
apply(r) ==
    LET c == work[r].candidate IN
    /\ work[r] # Unset /\ Applicable(r, c)
    /\ state' = c.next /\ version' = version + 1 /\ fence' = fence + 1
    /\ checkpoint' = NextCheckpoint(r, c)
    /\ reservation' = ReservationAfter(c)
    /\ intents' = IF c.intent THEN intents \cup {r} ELSE intents
    /\ recovery_operations' = [q \in DOMAIN recovery_operations \cup {r} |->
                                   IF q = r THEN c.decision ELSE recovery_operations[q]]
    /\ UNCHANGED <<generation, owner, expiry, work, begun>>

-----------------------------------------------------------------------------
\* The clock passes the lease expiry.
Tick == /\ expiry = "future" /\ expiry' = "past"
        /\ UNCHANGED <<state, version, fence, generation, owner, checkpoint, reservation, intents,
                       recovery_operations, work, begun>>

take_over_expired_lease(w) ==
    /\ expiry = "past" /\ state \notin TERMINAL_STATES
    /\ owner' = w /\ expiry' = Unset
    /\ generation' = generation + 1 /\ fence' = fence + 1
    /\ UNCHANGED <<state, version, checkpoint, reservation, intents, recovery_operations, work, begun>>

\* The owner starts the attempt with the fence it reads.
Begin(w) == /\ owner = w
            /\ begun' = [begun EXCEPT ![w] = [fence |-> fence, version |-> version, generation |-> generation]]
            /\ UNCHANGED <<job, work>>

\* Mutant: ownership alone authorises a result.
OwnerIsEnough(w) == /\ begun[w] # Unset
                    /\ owner = w /\ state \notin TERMINAL_STATES

\* accept_result always keeps the evidence; this is the write authority it grants.  A
\* worker that has begun may report at any later moment.
accept_result(w) == /\ begun[w] # Unset
                    /\ owner = w /\ fence = begun[w].fence /\ state \notin TERMINAL_STATES

AgentJobNext ==
    \/ \E r \in Recoveries : Classify(r) \/ apply(r)
    \/ \E w \in AgentWorkers : take_over_expired_lease(w) \/ Begin(w)
    \/ Tick

AgentJobSpec == AgentJobInit /\ [][AgentJobNext]_agentJobVars

-----------------------------------------------------------------------------
AgentJobTypeOK ==
    /\ state \in AgentState /\ {version, fence, generation} \subseteq Nat
    /\ owner \in AgentWorkers /\ expiry \in {"future", "past", Unset}
    /\ checkpoint \in [id : Seq(Recoveries), version : Nat, state : AgentState, state_version : Nat]
    /\ reservation \in [status : {"HELD", "SETTLED", "RELEASED"}, settled : 0 .. Reserved,
                        released : 0 .. Reserved]
    /\ intents \subseteq Recoveries

\* The applied recoveries form one chain: each is in the checkpoint history once,
\* versions, fences and generations count exactly the recoveries and takeovers there were,
\* and a restart from the current checkpoint resumes in the state the record is in.
HistoryIsLinear ==
    LET chain == checkpoint.id IN
    /\ {chain[i] : i \in DOMAIN chain} = DOMAIN recovery_operations
    /\ Len(chain) = Cardinality(DOMAIN recovery_operations)
    /\ checkpoint.version = Len(chain) /\ version = Len(chain)
    /\ fence = version + generation
    /\ checkpoint.state = state /\ checkpoint.state_version = version

\* A result is authorised only when neither a recovery nor a takeover came between the
\* worker's start and its answer, and never for two workers at once.
NoSupersededResult ==
    \A w \in AgentWorkers : accept_result(w) =>
        /\ begun[w].version = version /\ begun[w].generation = generation
        /\ \A v \in AgentWorkers : accept_result(v) => v = w

\* Capacity is released only by a recovery that was not told the outcome is unknown: while
\* escalation or reconciliation is all that happened, it stays held.
UnknownUsageStaysHeld ==
    (\A r \in DOMAIN recovery_operations : recovery_operations[r] \in {"ESCALATE", "RECONCILE"})
        => reservation.status = "HELD"

\* For TLC: the identities of workers and of recoveries are interchangeable.
Symmetry == Permutations(AgentWorkers) \cup Permutations(Recoveries)

=============================================================================
