----------------------------- MODULE AgentToolLoop -----------------------------
(***************************************************************************)
(* The agent loop with the tool call each step makes: AgentStateMachine    *)
(* and ToolInvocation composed as human_control_scenarios does.  A         *)
(* controller that plans takes a capability snapshot for the step it wants *)
(* and binds the provider's candidate to it; the governance of that        *)
(* binding is one of the facts it decides by; once the store has applied   *)
(* its candidate it prepares, admits, executes and completes the call.     *)
(* Controllers race for the record, and grants, argument constraints and   *)
(* the registry change under all of them.                                  *)
(***************************************************************************)
EXTENDS AgentStateMachine, ToolInvocation

VARIABLE call                    \* the invocation of each controller, or NoCall

loopVars == <<agentVars, toolVars, call>>
NoCall == [pc |-> "none"]

LoopInit == AgentInit /\ ToolInit /\ call = [k \in Controllers |-> NoCall]

SetCall(k, c) == call' = [call EXCEPT ![k] = c]
Planning(k) == call[k].pc \in {"none", "bound"}

\* The planned Step of a controller, as _result derives it from the current one.
NextStep(o) == <<step[1] + 1, o>>

\* The facts collected before a decision: budget, capability snapshot and binding.
Plan(k) ==
    /\ Planning(k) /\ ReadBudget(k)
    /\ \E p \in Proposals, o \in Observations : SetCall(k, Bind(p, Snapshot(NextStep(o))))
    /\ UNCHANGED toolVars

\* day80_governance of AgentTransitionInput, as decide_transition tells it apart.
GovernanceFacts(k, o) ==
    IF call[k].pc = "none" THEN {}
    ELSE LET status == InvocationGovernance(call[k], NextStep(o))
         IN  CASE status = "ALLOWED_TO_DAY74_ADMISSION" -> {}
               [] status = "CURRENT_PERMISSION_REVOKED" -> {"day80_revoked"}
               [] OTHER -> {"day80_drift"}

\* A candidate for the current fence is not made anew: a second decision could as well have been
\* the first, so this leaves no state out.
Ungoverned == {f \in Facts : f \cap {"day80_revoked", "day80_drift"} = {}}
DecideGoverned(k) ==
    /\ Planning(k)
    /\ candidate[k] # NoCandidate => candidate[k].fence # fence
    /\ \E o \in Observations : \E governed \in {GovernanceFacts(k, o)}, r \in Reservations :
        Decide(k, o, r[1], r[2], {f \cup governed : f \in Ungoverned})
    /\ UNCHANGED <<toolVars, call>>

\* Only a candidate that was applied, and continues, lets its call go on.
ApplyPlan(k) ==
    /\ Planning(k) /\ apply(k)
    /\ IF call[k].pc = "bound" /\ candidate[k].action = "CONTINUE"
       THEN SetCall(k, [call[k] EXCEPT !.pc = "applied"])
       ELSE SetCall(k, NoCall)
    /\ UNCHANGED toolVars

-----------------------------------------------------------------------------
\* The governance is checked once more for the step the record is now at.
Prepare(k) ==
    /\ call[k].pc = "applied"
    /\ IF Preparation(call[k], step) = "READY_FOR_BACKEND_ADMISSION"
       THEN SetCall(k, [call[k] EXCEPT !.pc = "prepared"]) ELSE SetCall(k, NoCall)
    /\ UNCHANGED <<agentVars, toolVars>>

Admit(k) ==
    /\ call[k].pc = "prepared"
    /\ \E text \in {"call", "malformed", "no_call"}, auth \in Auths :
        IF Admission(text, call[k], auth) = "ALLOWED"
        THEN SetCall(k, [call[k] EXCEPT !.pc = "admitted"]) ELSE SetCall(k, NoCall)
    /\ UNCHANGED <<agentVars, toolVars>>

\* The call is executed, again if the controller did not learn the outcome; without an answer in
\* time the Job waits for reconciliation.
Run(k) ==
    /\ call[k].pc = "admitted"
    /\ Execute(call[k])
    /\ \/ /\ ExecuteOutcome(call[k]) # "REJECTED_DISABLED"
          /\ SetCall(k, [call[k] EXCEPT !.pc = "executed"]) /\ UNCHANGED toolJob
       \/ /\ ExecuteOutcome(call[k]) # "REJECTED_DISABLED"
          /\ MarkTimeoutUnknown(call[k], step) /\ UNCHANGED call
       \/ /\ ExecuteOutcome(call[k]) = "REJECTED_DISABLED"
          /\ SetCall(k, NoCall) /\ UNCHANGED toolJob
    /\ UNCHANGED <<agentVars, contextVars>>

\* The outcome is verified and the Job completed; the controller goes on with a safe result only.
Complete(k) ==
    /\ call[k].pc = "executed"
    /\ \E outcome \in Outcomes :
        /\ GuardedComplete(call[k], step, outcome)
        /\ LET phase == IF VerifyOutcome(outcome) = "VERIFIED" THEN "VERIFIED_TERMINAL" ELSE "UNVERIFIED_TERMINAL"
           IN  IF Observation(phase) = "SAFE_RESULT_READY" THEN SetCall(k, NoCall) ELSE UNCHANGED call
    /\ UNCHANGED <<agentVars, contextVars, executorVars>>

\* A controller stops and forgets its call; another plans the step again.
Abandon(k) == ~Planning(k) /\ SetCall(k, NoCall) /\ UNCHANGED <<agentVars, toolVars>>

LoopNext == \/ Change /\ UNCHANGED <<agentVars, call>>
            \/ \E k \in Controllers :
                 \/ Plan(k) \/ DecideGoverned(k) \/ ApplyPlan(k) \/ Prepare(k) \/ Admit(k) \/ Run(k)
                 \/ Complete(k) \/ Abandon(k)
LoopSpec == LoopInit /\ [][LoopNext]_loopVars

-----------------------------------------------------------------------------
\* However many steps, controllers and repetitions of a call ask for it, a version of a report is
\* published at most once.
OneEffectPerVersion == \A e \in EffectKeys : effects[e] <= 1

\* What is handed to the backend is what the server allows at that moment, not what the model was
\* shown: the tool is granted and enabled, the arguments keep to the constraint now in force, and
\* the step is still the record's.
ReadyIsCurrent ==
    [][\A k \in Controllers : call[k].pc = "applied" /\ call'[k].pc = "prepared" =>
        LET tool == call[k].tool IN
        /\ tool \in granted \ disabled /\ tool \in DOMAIN Schemas
        /\ FitsSchema(call[k].arguments, Schemas[tool])
        /\ \A n \in {narrowing} \ {Nothing} :
              n.tool = tool /\ n.property \in DOMAIN call[k].arguments => call[k].arguments[n.property] \in n.allowed
        /\ call[k].step = step]_call
=============================================================================
