-------------------------- MODULE AgentStateMachine --------------------------
(***************************************************************************)
(* The agent loop of ai-agent: decide_control (day79) and decide_transition *)
(* (day81) turn facts into a candidate transition, and                     *)
(* InMemoryAgentStateStore.apply commits it conditionally.  Controllers    *)
(* collect their facts at different times and deliver a candidate late,    *)
(* repeatedly or never; the store is the only authority.                   *)
(***************************************************************************)
EXTENDS Integers, FiniteSetsExt, FirstMatch

CONSTANTS Controllers,       \* processes that decide and apply
          Observations,      \* the verified facts a next Step may be derived from
          NoCandidate,
          StepLimit, TokenLimit, CostLimit,   \* BudgetSnapshot limits
          Reservations,      \* <<tokens, cost>> a candidate may request
          MaxRaised,         \* bound on the conditions raised together
          MaxFence           \* bound on the transitions explored

ASSUME LimitsAssumption == /\ {StepLimit, TokenLimit, CostLimit, MaxFence, MaxRaised} \subseteq Nat
                           /\ Reservations \subseteq Nat \X Nat

VARIABLES agentState, fence, step,     \* AuthoritativeAgentRecord; a step is <<depth, origin>>
          stepsUsed, tokens, cost,     \* steps_used, held token and cost reservations
          applied,                     \* transition_id -> decision of the store
          seen,                        \* the budget each controller read
          candidate                    \* the candidate each controller holds

record == <<agentState, fence, step, stepsUsed, tokens, cost, applied>>
agentVars == <<record, seen, candidate>>

TERMINAL_STATES == {"COMPLETED", "TERMINATED", "FAILED", "CANCELLED"}
AgentState == {"READY", "RUNNING", "WAITING", "PENDING_RECONCILIATION"} \cup TERMINAL_STATES

\* The facts besides record and budget that can stop a plan.  A decision is made under
\* any MaxRaised of them at a time; the first in priority order decides.
Conditions == {"pending_reconciliation_identity", "runtime_pending", "runtime_rejected",
               "enough_observations", "waiting_for", "goal_verified", "hard_loop_detected",
               "not_authorized", "day80_revoked", "day80_drift", "context_exceeded"}
Facts == {{}} \cup {{raised[i] : i \in DOMAIN raised} : raised \in [1 .. MaxRaised -> Conditions]}

Budgets == [used : 0 .. StepLimit, tokens : 0 .. TokenLimit, cost : 0 .. CostLimit]
StepRecords == (0 .. StepLimit + 1) \X Observations

Candidates == [step : StepRecords, expected : AgentState, fence : 0 .. MaxFence,
               action : {"NOOP", "RECONCILE", "COMPLETE", "WAIT", "FAIL", "TERMINATE", "CONTINUE"},
               next : AgentState, status : STRING, origin : Observations,
               tokens : Nat, cost : Nat]

AgentTypeOK ==
    /\ agentState \in AgentState /\ fence \in 0 .. MaxFence + 1 /\ step \in StepRecords
    /\ stepsUsed \in 0 .. StepLimit /\ tokens \in Nat /\ cost \in Nat
    /\ applied \subseteq Candidates
    /\ seen \in [Controllers -> Budgets]
    /\ candidate \in [Controllers -> Candidates \cup {NoCandidate}]

AgentInit ==
    /\ agentState = "READY" /\ fence = 0
    /\ step \in {0} \X Observations
    /\ stepsUsed = 0 /\ tokens = 0 /\ cost = 0
    /\ applied = {}
    /\ seen = [c \in Controllers |-> [used |-> 0, tokens |-> 0, cost |-> 0]]
    /\ candidate = [c \in Controllers |-> NoCandidate]

-----------------------------------------------------------------------------
\* day79 decide_control.
decide_control(s, f) == FirstMatch(<<
    <<s \in TERMINAL_STATES,            "COMPLETE">>,
    <<"pending_reconciliation_identity" \in f, "RECONCILE">>,
    <<"runtime_pending" \in f,              "RECONCILE">>,
    <<"runtime_rejected" \in f,             "FAIL">>,
    <<"enough_observations" \in f,          "COMPLETE">>,
    <<"waiting_for" \in f,                  "WAIT">>,
    <<TRUE,                                 "CONTINUE">> >>)

\* day81 decide_transition: action, proposed state and status, in priority order.
\* b is the budget the caller passed in, t and c the requested reservations.
decide_transition(s, f, b, t, c) ==
    LET control == decide_control(s, f) IN FirstMatch(<<
    <<s \in TERMINAL_STATES,                <<"NOOP", s, "ALREADY_TERMINAL">> >>,
    <<"pending_reconciliation_identity" \in f \/ control = "RECONCILE",
        <<"RECONCILE", "PENDING_RECONCILIATION", "EXTERNAL_OUTCOME_UNKNOWN">> >>,
    <<"goal_verified" \in f,                <<"COMPLETE", "COMPLETED", "GOAL_VERIFIED">> >>,
    <<control = "WAIT",                     <<"WAIT", "WAITING", "KNOWN_PREREQUISITE_PENDING">> >>,
    <<control = "FAIL",                     <<"FAIL", "FAILED", "CONTROL_FAILURE">> >>,
    <<"hard_loop_detected" \in f,           <<"TERMINATE", "TERMINATED", "HARD_LOOP">> >>,
    <<"not_authorized" \in f,               <<"TERMINATE", "TERMINATED", "REVOKED">> >>,
    <<"day80_revoked" \in f,                <<"TERMINATE", "TERMINATED", "DAY80_REVOKED">> >>,
    <<"day80_drift" \in f,                  <<"WAIT", "WAITING", "DAY80_REPLAN">> >>,
    <<control # "CONTINUE",                 <<"FAIL", "FAILED", "UNSUPPORTED_DAY79_DECISION">> >>,
    <<StepLimit - b.used <= 0,              <<"TERMINATE", "TERMINATED", "STEP_BUDGET">> >>,
    <<"context_exceeded" \in f,             <<"WAIT", "WAITING", "CONTEXT_BUDGET_EXCEEDED">> >>,
    <<t > TokenLimit - b.tokens,            <<"TERMINATE", "TERMINATED", "TOKEN_BUDGET">> >>,
    <<c > CostLimit - b.cost,               <<"TERMINATE", "TERMINATED", "COST_BUDGET">> >>,
    <<TRUE,                                 <<"CONTINUE", "RUNNING", "NEXT_STEP_CANDIDATE">> >> >>)

\* A controller reads the budget it will plan with.
ReadBudget(k) ==
    /\ seen' = [seen EXCEPT ![k] = [used |-> stepsUsed, tokens |-> tokens, cost |-> cost]]
    /\ UNCHANGED <<record, candidate>>

\* It reads the record and the other facts, one of the given sets of raised conditions, and
\* makes a candidate; only CONTINUE reserves (reserve=True).
Decide(k, o, t, c, facts) ==
    \E d \in {decide_transition(agentState, f, seen[k], t, c) : f \in facts} :
        LET go == d[1] = "CONTINUE" IN
        /\ fence <= MaxFence
        /\ candidate' = [candidate EXCEPT ![k] =
              [step |-> step, expected |-> agentState, fence |-> fence, action |-> d[1],
               next |-> d[2], status |-> d[3], origin |-> o,
               tokens |-> IF go THEN t ELSE 0, cost |-> IF go THEN c ELSE 0]]
        /\ UNCHANGED <<record, seen>>

\* The parts _transition_id hashes: the requested reservations are not among them.
transition_id(d) == <<d.step, d.fence, d.origin, d.action, d.status>>

\* The guards of the conditional apply, up to the budget.
Applicable(d) ==
    /\ \A e \in applied : transition_id(e) # transition_id(d)     \* DUPLICATE_REPLAY
    /\ agentState \notin TERMINAL_STATES                           \* NOOP_TERMINAL
    /\ agentState = d.expected /\ step = d.step /\ fence = d.fence \* NOOP_STALE

\* Mutant: the budget admitted by decide_transition is not checked again at apply.
WithinBudgetWhenPlanned(d) == d.tokens <= TokenLimit /\ d.cost <= CostLimit

\* RESERVATION_CONFLICT otherwise: the budget is checked again, against the record.
WithinBudget(d) == /\ StepLimit - stepsUsed > 0
                   /\ d.tokens <= TokenLimit - tokens
                   /\ d.cost <= CostLimit - cost

\* InMemoryAgentStateStore.apply; the controller keeps its candidate and may deliver
\* it again.  Every other outcome leaves the record as it is.
apply(k) ==
    LET d == candidate[k] IN
    /\ d # NoCandidate /\ Applicable(d)
    /\ \/ /\ d.action = "CONTINUE" /\ WithinBudget(d)
          /\ step' = <<step[1] + 1, d.origin>>
          /\ stepsUsed' = stepsUsed + 1
          /\ tokens' = tokens + d.tokens
          /\ cost' = cost + d.cost
       \/ /\ d.action \in {"WAIT", "RECONCILE", "COMPLETE", "TERMINATE", "FAIL"}
          /\ UNCHANGED <<step, stepsUsed, tokens, cost>>
    /\ agentState' = d.next
    /\ fence' = fence + 1
    /\ applied' = applied \cup {d}
    /\ UNCHANGED <<seen, candidate>>

AgentNext == \E k \in Controllers :
            \/ ReadBudget(k)
            \/ apply(k)
            \/ \E o \in Observations, r \in Reservations : Decide(k, o, r[1], r[2], Facts)

AgentSpec == AgentInit /\ [][AgentNext]_agentVars

-----------------------------------------------------------------------------
Continues == {d \in applied : d.action = "CONTINUE"}

\* The reservations and Steps granted never exceed the Job's budget, although a candidate
\* was admitted against a budget that others have used since; and what is held is exactly
\* what the applied candidates asked for: no replayed, late or rejected candidate
\* reserves, and none is forgotten.
BudgetRespected ==
    /\ stepsUsed <= StepLimit /\ tokens <= TokenLimit /\ cost <= CostLimit
    /\ stepsUsed = Cardinality(Continues) /\ stepsUsed = step[1]
    /\ tokens = MapThenSumSet(LAMBDA d : d.tokens, Continues)
    /\ cost = MapThenSumSet(LAMBDA d : d.cost, Continues)

=============================================================================
