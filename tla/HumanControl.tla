----------------------------- MODULE HumanControl -----------------------------
(***************************************************************************)
(* Human approval, interrupt and recovery of one planned action (day83).   *)
(* decide_human_control classifies a command under the current facts,      *)
(* InMemoryHumanControlStore.apply commits it when the classification is   *)
(* still the same, and dispatch_once claims the action before the effect.  *)
(*                                                                         *)
(* plan and apply are one step: apply recomputes the candidate from the    *)
(* record and the facts of that moment and commits only when it is equal,  *)
(* so what was planned earlier decides nothing else.                       *)
(***************************************************************************)
EXTENDS Integers, FiniteSets, FirstMatch

CONSTANTS Commands,        \* [id, op, decision, choice, to]: the commands that may be sent
          Units,           \* reserved_units
          Usages,          \* usages that evidence may claim
          AttemptLimit,    \* attempt_limit of the recovery operation
          MaxRaised,       \* bound on the conditions raised together
          None

ASSUME BoundsAssumption == /\ {Units, AttemptLimit, MaxRaised} \subseteq Nat /\ AttemptLimit > 0
                           /\ Usages \subseteq 0 .. Units
\* An approval is invalidated to one of three statuses; any other is refused.
ASSUME CommandsAssumption ==
    \A k \in Commands :
        /\ k.op \in {"DECISION", "GATE", "INTERRUPT", "OBSERVE_CANCEL", "INVALIDATE", "RECOVER", "LATE_RESULT"}
        /\ k.op = "INVALIDATE" => k.to \in {"REVOKED", "SUPERSEDED", "CANCELLED"}

VARIABLES risk,                    \* of the action, fixed
          state,                   \* of the DurableAgentJobRecord
          reservation,             \* status and settled units
          approval, decision,      \* approval status, the recorded first decision
          interrupted,             \* interrupt_id is set
          claimed, effects,        \* dispatch_started; effects performed outside the lock
          queries,                 \* attempts_used of the recovery history
          intents,                 \* kinds of committed intents; an alert stands for its escalation
          commands,                \* _commands: the command identities consumed
          clock                    \* "early", "overdue" (respond_by), "expired" (expires_at)

record == <<state, reservation, approval, decision, interrupted, claimed, queries, intents>>
vars == <<risk, record, effects, commands, clock>>

TERMINAL_STATES == {"COMPLETED", "TERMINATED", "FAILED", "CANCELLED"}
AgentState == {"READY", "RUNNING", "WAITING", "PENDING_RECONCILIATION"} \cup TERMINAL_STATES
ClosedApprovals == {"REJECTED", "EXPIRED", "REVOKED", "SUPERSEDED", "CANCELLED", "CONFLICT"}
ApprovalStatus == {"NOT_REQUIRED", "PENDING", "APPROVED"} \cup ClosedApprovals

\* Facts that vary from call to call and matter to an operation; any MaxRaised of them hold
\* together.  "stale" stands for a command whose expected state, version or fence is not
\* the record's: every commit advances the version, so any earlier command may be stale.
Conditions(op) ==
    CASE op = "GATE" -> {"stale", "quarantined", "policy_unavailable", "policy_wait_over", "not_required",
                         "not_authorized", "guard_blocked", "approver_invalid"}
      [] op = "DECISION" -> {"stale", "quarantined", "policy_unavailable", "policy_wait_over",
                             "not_required", "approver_invalid", "decided_late"}
      [] op = "RECOVER" -> {"stale", "recovery_deadline"}
      [] OTHER -> {"stale"}
\* What can be known of the external operation: a lookup may still find nothing after the
\* claim, and nothing is verified before the effect.
Certainties == {"OUTCOME_UNKNOWN"}
                   \cup (IF effects = 0 THEN {"DEFINITELY_NOT_DISPATCHED"} ELSE {"VERIFIED_TERMINAL"})
Facts(op) == [raised : {c \in SUBSET Conditions(op) : Cardinality(c) <= MaxRaised},
              certainty : Certainties, usage : IF op = "RECOVER" THEN Usages \cup {None} ELSE {None}]

Init ==
    /\ risk \in {"LOW", "HIGH"}
    /\ state \in {"RUNNING", "COMPLETED"}
    /\ reservation = [status |-> "HELD", settled |-> None]
    /\ approval = "PENDING" /\ decision = None /\ interrupted = FALSE
    /\ claimed = FALSE /\ effects = 0 /\ queries = 0
    /\ intents = {} /\ commands = {} /\ clock = "early"

-----------------------------------------------------------------------------
\* A candidate: status, next state, approval, reservation action, intent; verified usage
\* is added when there is some to settle.  An escalation has its reason for a status.
Cand(status, s, a, r, o) ==
    [status |-> status, state |-> s, approval |-> a, reservation |-> r, outbox |-> o, usage |-> None]
Stay(status) == Cand(status, state, approval, "NO_CHANGE", None)
Escalate(reason, s, a, f) ==
    Cand(reason, s, a,
         IF f.certainty = "OUTCOME_UNKNOWN" THEN "KEEP_HELD" ELSE "NO_CHANGE", "ESCALATION_ALERT")

\* Mutant: a certain answer outweighs the claim.
TrustsLookup(f) == f.certainty = "DEFINITELY_NOT_DISPATCHED"

\* Proven not to have reached the outside.
Unused(f) == ~claimed /\ f.certainty = "DEFINITELY_NOT_DISPATCHED"

Exhausted(f) == queries >= AttemptLimit \/ "recovery_deadline" \in f.raised
AlreadySettled == reservation.status = "SETTLED"

\* The RECOVER operation; decide_durable_recovery ends in ESCALATE, RECONCILE, SETTLE or
\* in a decision that starts no new business execution.
Recover(f) ==
    LET pending == IF state \in TERMINAL_STATES THEN state ELSE "PENDING_RECONCILIATION"
        known == f.usage # None
    IN FirstMatch(<<
    <<known /\ f.certainty # "VERIFIED_TERMINAL",      Stay("USAGE_EVIDENCE_REQUIRED")>>,
    <<known /\ AlreadySettled /\ reservation.settled = f.usage,
                                                       Stay("SETTLEMENT_ALREADY_RECORDED")>>,
    <<known /\ AlreadySettled,                         Escalate("SETTLEMENT_CONFLICT", state, approval, f)>>,
    <<known /\ reservation.status = "RELEASED",        Escalate("SETTLEMENT_RESERVATION_CONFLICT", state, approval, f)>>,
    <<f.certainty = "DEFINITELY_NOT_DISPATCHED",       Stay("NO_EXTERNAL_OPERATION_TO_RECONCILE")>>,
    <<known,                                           [Cand("SETTLE", state, approval, "SETTLE_VERIFIED", None)
                                                           EXCEPT !.usage = f.usage]>>,
    <<Exhausted(f),                                    Escalate("BOUNDED_RECOVERY_EXHAUSTED", pending, approval, f)>>,
    <<f.certainty = "OUTCOME_UNKNOWN",                 Cand("RECONCILE", pending, approval, "KEEP_HELD", "RECONCILIATION_QUERY")>>,
    <<TRUE,                                            Stay("RECOVERY_NO_NEW_BUSINESS_EXECUTION")>> >>)

\* The end of the DECISION operation: one decision is recorded, a second is a conflict.
Decision(k, f) == FirstMatch(<<
    <<"decided_late" \in f.raised,     Stay("DECISION_TIME_INVALID")>>,
    <<"approver_invalid" \in f.raised, Stay("APPROVER_POLICY_REJECTED")>>,
    <<decision # None,                 Escalate("CONFLICTING_HUMAN_DECISION", state, "CONFLICT", f)>>,
    <<TRUE,                            Cand("DECISION_RECORDED", state, k.choice, "NO_CHANGE", None)>> >>)

\* Mutant: the gate does not look at the approval.
ForgetsApproval(f) == Cand("EXECUTION_CANDIDATE", "RUNNING", approval, "NO_CHANGE", "PUBLISH")

\* The GATE operation after the lifecycle checks: every current guard must pass.
Gate(f) ==
    LET required == "not_required" \notin f.raised IN FirstMatch(<<
    <<"not_authorized" \in f.raised,   Cand("AUTHORIZATION_REVOKED", state, approval,
                                            IF Unused(f) THEN "RELEASE" ELSE "KEEP_HELD", None)>>,
    <<"guard_blocked" \in f.raised,    Stay("GUARD_BLOCKED")>>,
    <<claimed,                         Stay("ALREADY_DISPATCH_CLAIMED")>>,
    <<f.certainty # "DEFINITELY_NOT_DISPATCHED", Stay("EXTERNAL_OPERATION_ALREADY_POSSIBLE")>>,
    <<reservation.status # "HELD",     Stay("RESERVATION_NOT_HELD")>>,
    <<required /\ approval # "APPROVED" /\ clock # "early",
                                       Escalate("APPROVAL_OVERDUE", "WAITING", approval, f)>>,
    <<required /\ approval # "APPROVED", Cand("APPROVAL_PENDING", "WAITING", approval, "NO_CHANGE", "APPROVAL_REQUEST")>>,
    <<required /\ (decision = None \/ "approver_invalid" \in f.raised \/ decision.choice # "APPROVED"),
                                       Stay("CURRENT_APPROVER_INVALID")>>,
    <<TRUE, Cand("EXECUTION_CANDIDATE", "RUNNING", IF required THEN approval ELSE "NOT_REQUIRED",
                 "NO_CHANGE", "PUBLISH")>> >>)

\* The INTERRUPT operation.
Interrupt(f) ==
    IF interrupted THEN Stay("DUPLICATE_INTERRUPT")
    ELSE Cand("INTERRUPTED",
              IF state \in TERMINAL_STATES THEN state
              ELSE IF Unused(f) THEN "CANCELLED" ELSE "PENDING_RECONCILIATION",
              approval, IF Unused(f) THEN "RELEASE" ELSE "KEEP_HELD", None)

\* The lifecycle checks that DECISION and GATE share; next is what follows them.
Lifecycle(f, next) == FirstMatch(<<
    <<state \in TERMINAL_STATES,          Stay("TERMINAL_NOOP")>>,
    <<interrupted,                        Stay("INTERRUPT_BLOCKED")>>,
    <<approval \in ClosedApprovals,       Stay("APPROVAL_CLOSED")>>,
    <<clock = "expired" /\ "not_required" \notin f.raised,
                                          Cand("APPROVAL_EXPIRED", state, "EXPIRED", "NO_CHANGE", None)>>,
    <<"quarantined" \in f.raised,         Stay("POLICY_QUARANTINED")>>,
    <<"policy_wait_over" \in f.raised,    Escalate("APPROVAL_POLICY_UNAVAILABLE", "WAITING", approval, f)>>,
    <<"policy_unavailable" \in f.raised,  Cand("POLICY_UNAVAILABLE", "WAITING", approval, "NO_CHANGE", None)>>,
    <<risk = "HIGH" /\ "not_required" \in f.raised, Stay("RISK_POLICY_CONFLICT")>>,
    <<TRUE,                               next>> >>)

\* A decision whose identity is already known is judged before its freshness.
KnownDecision(k) == k.op = "DECISION" /\ decision # None /\ decision.id = k.decision

\* decide_human_control; the malformed and the foreign are refused before.
decide_human_control(k, f) ==
    CASE k.op = "LATE_RESULT" -> Stay("RESULT_EVIDENCE")
      [] KnownDecision(k) -> IF decision.choice = k.choice THEN Stay("DUPLICATE_DECISION")
                             ELSE Escalate("DECISION_IDENTITY_CONFLICT", state, "CONFLICT", f)
      [] k.op # "LATE_RESULT" /\ ~KnownDecision(k) /\ "stale" \in f.raised -> Stay("STALE_CANDIDATE")
      [] OTHER ->
         CASE k.op = "RECOVER" -> Recover(f)
           [] k.op = "OBSERVE_CANCEL" ->
                  Stay(IF interrupted THEN "CANCELLATION_OBSERVED" ELSE "NO_CANCELLATION_REQUEST")
           [] k.op = "INTERRUPT" -> Interrupt(f)
           [] k.op = "INVALIDATE" -> Cand("APPROVAL_INVALIDATED", state, k.to, "NO_CHANGE", None)
           [] k.op = "DECISION" -> Lifecycle(f, Decision(k, f))
           [] k.op = "GATE" -> Lifecycle(f, Gate(f))

\* Statuses that advance the record; every other one is AUDIT_ONLY.
Transitions == {"DECISION_RECORDED", "EXECUTION_CANDIDATE", "APPROVAL_PENDING", "APPROVAL_EXPIRED",
                "APPROVAL_INVALIDATED", "POLICY_UNAVAILABLE", "RECONCILE", "SETTLE",
                "CANCELLATION_OBSERVED", "AUTHORIZATION_REVOKED", "INTERRUPTED"}
Advances(c) == c.status \in Transitions \/ c.outbox = "ESCALATION_ALERT"

\* UNSAFE_RELEASE_REJECTED: apply checks the proof again before it gives capacity back.
SafeRelease(c, f) == c.reservation = "RELEASE" => Unused(f)

\* The candidates of a command under the facts that may hold now.
Classified(k) == {LET c == decide_human_control(k, f) IN [candidate |-> c, safe |-> SafeRelease(c, f)] :
                     f \in Facts(k.op)}

\* InMemoryHumanControlStore.apply for a command identity not seen before.
apply(k) ==
    /\ k.id \notin commands /\ commands' = commands \cup {k.id}
    /\ \E x \in Classified(k) : LET c == x.candidate IN
       \/ ~Advances(c) /\ UNCHANGED record
       \/ /\ Advances(c) /\ x.safe
          /\ state' = c.state /\ approval' = c.approval
          /\ interrupted' = (interrupted \/ c.status = "INTERRUPTED")
          /\ reservation' =
               CASE c.reservation = "SETTLE_VERIFIED" -> [status |-> "SETTLED", settled |-> c.usage]
                 [] c.reservation = "RELEASE" /\ reservation.status = "HELD" ->
                        [reservation EXCEPT !.status = "RELEASED"]
                 [] OTHER -> reservation
          /\ decision' = IF c.status = "DECISION_RECORDED"
                         THEN [id |-> k.decision, choice |-> k.choice] ELSE decision
          /\ queries' = IF c.status = "RECONCILE" THEN queries + 1 ELSE queries
          /\ intents' = intents \cup ({c.outbox} \ {None})
          /\ UNCHANGED claimed
    /\ UNCHANGED <<risk, effects, clock>>

\* Mutant: the guards are not evaluated again at dispatch.
DispatchUnguarded(f) == TRUE

\* dispatch_once repeats the GATE under the current facts.
DispatchAllowed(f) ==
    decide_human_control([id |-> "dispatch", op |-> "GATE", decision |-> None, choice |-> None, to |-> None], f).status
        = "EXECUTION_CANDIDATE"

\* dispatch_once, under the lock: the claim.  The checks of fence, lease owner and expiry
\* can only refuse; the lease an interrupt takes away would be refused by the gate as well.
dispatch_once(f) ==
    /\ "PUBLISH" \in intents /\ ~claimed
    /\ DispatchAllowed(f)
    /\ claimed' = TRUE
    /\ UNCHANGED <<risk, state, reservation, approval, decision, interrupted, queries, intents,
                   effects, commands, clock>>

\* dispatch_once, after the lock is released: the effect.
Effect == /\ claimed /\ effects = 0 /\ effects' = 1
          /\ UNCHANGED <<risk, record, commands, clock>>

\* External: time passes respond_by and expires_at.
Tick == /\ clock' = IF clock = "early" THEN "overdue" ELSE "expired"
        /\ clock # "expired"
        /\ UNCHANGED <<risk, record, effects, commands>>

Next == \/ \E k \in Commands : apply(k)
        \/ \E f \in Facts("GATE") : dispatch_once(f)
        \/ Effect \/ Tick

Spec == Init /\ [][Next]_vars

-----------------------------------------------------------------------------
TypeOK ==
    /\ state \in AgentState /\ approval \in ApprovalStatus
    /\ {interrupted, claimed} \subseteq BOOLEAN /\ effects \in 0 .. 1
    /\ reservation.status \in {"HELD", "SETTLED", "RELEASED"} /\ reservation.settled \in Usages \cup {None}
    /\ intents \subseteq {"ESCALATION_ALERT", "RECONCILIATION_QUERY", "APPROVAL_REQUEST", "PUBLISH"}
    /\ queries \in Nat

\* A claim is covered: a high-risk action has a recorded human approval behind it, and its
\* capacity was not given back, neither before the claim nor while the effect is under way.
ClaimIsCovered ==
    claimed \/ effects > 0 =>
        /\ risk = "HIGH" => decision # None /\ decision.choice = "APPROVED"
        /\ reservation.status # "RELEASED"

\* Once interrupted, expired, rejected, revoked or in conflict before the claim, the action
\* is never claimed, whatever commands follow; a terminal Job is never reopened.
ClosedStaysClosed ==
    [][/\ (interrupted \/ approval \in ClosedApprovals \/ state \in TERMINAL_STATES) /\ ~claimed => ~claimed'
       /\ approval \in ClosedApprovals => approval' \in ClosedApprovals
       /\ (state \in TERMINAL_STATES) => state' = state]_vars

=============================================================================
