---------------------------- MODULE ToolInvocation ----------------------------
(***************************************************************************)
(* Tool governance (day80) and the output and tool contracts (day74): what *)
(* a model may see of the tools, how the call it proposes is bound to that *)
(* view and checked again against the current one, and how an admitted     *)
(* call is executed once, verified, and completed under a guard.  Grants,  *)
(* argument constraints and the registry change at any time.  Tenant, user *)
(* and role of the context are fixed: a snapshot differs from another in   *)
(* its step, its tools and their schemas.  A digest is the thing digested. *)
(***************************************************************************)
EXTENDS Naturals, FiniteSets, FirstMatch

CONSTANTS Nothing, Tenant,
          Catalog,               \* AgentToolCatalogEntry: tool ids, <<name, version>>
          Schemas,               \* ToolRegistry: [tool -> arguments schema]
          Narrowings,            \* ArgumentEnumConstraint: [tool, property, allowed], one in force at a time
          Proposals,             \* candidates of the provider: [tool, arguments]
          Reports,               \* InMemoryReportStore: [report -> [tenant, status, version]]
          Auths,                 \* AuthContext: [tenant, role]
          Outcomes,              \* what the tool may return
          MaxChanges             \* bound on changes of grants, constraints and registry

\* A schema lists its properties with the values they admit (type, enum, lengths and bounds
\* together), and the required ones; none of the schemas here admits an additional property.
WellFormedSchema(s) == DOMAIN s = {"required", "properties"} /\ s.required \subseteq DOMAIN s.properties
\* _project_schema refuses to add a property or to widen an enum.
WellFormedNarrowing(n) == /\ n.allowed # {} /\ n.property \in DOMAIN Schemas[n.tool].properties
                          /\ n.allowed \subseteq Schemas[n.tool].properties[n.property]
ASSUME ToolAssumption == /\ \A t \in DOMAIN Schemas : WellFormedSchema(Schemas[t])
                         /\ \A n \in Narrowings : n.tool \in DOMAIN Schemas /\ WellFormedNarrowing(n)
                         /\ MaxChanges \in Nat

VARIABLES granted, narrowing,    \* TrustedToolContext: granted_tool_ids, argument_enum_constraints
          disabled,              \* ToolRegistry: the versions disabled
          changes,
          operations, effects,   \* InMemoryToolExecutor: idempotency keys, and effect_counts
          toolJob                \* InMemoryDurableStore: [status, operation]

contextVars == <<granted, narrowing, disabled, changes>>
executorVars == <<operations, effects>>
toolVars == <<contextVars, executorVars, toolJob>>

EffectKeys == {<<Reports[r].tenant, r, Reports[r].version>> : r \in DOMAIN Reports}

ToolInit ==
    /\ granted = Catalog /\ narrowing = Nothing /\ disabled = {} /\ changes = 0
    /\ operations = {} /\ effects = [e \in EffectKeys |-> 0]
    /\ toolJob = [status |-> "RUNNING", operation |-> Nothing]

-----------------------------------------------------------------------------
\* ToolRegistry.resolve: exact name and version.
Resolve(tool) ==
    FirstMatch(<< <<tool \in disabled, "TOOL_DISABLED">>,
                  <<tool \in DOMAIN Schemas, "ALLOWED">>,
                  <<\E t \in DOMAIN Schemas : t[1] = tool[1], "INCOMPATIBLE_TOOL_VERSION">>,
                  <<TRUE, "UNKNOWN_TOOL">> >>)

\* disable, and the server deriving another context for the same principal.
Disable(tool) == disabled' = disabled \cup {tool} /\ UNCHANGED <<granted, narrowing>>
ChangeContext ==
    /\ \/ /\ \E tool \in DOMAIN Schemas : granted' \in {granted \cup {tool}, granted \ {tool}} \ {granted}
          /\ UNCHANGED narrowing
       \/ narrowing' \in ({Nothing} \cup Narrowings) \ {narrowing} /\ UNCHANGED granted
    /\ UNCHANGED disabled
Change == /\ changes < MaxChanges /\ changes' = changes + 1
          /\ (\E tool \in DOMAIN Schemas \ disabled : Disable(tool)) \/ ChangeContext
          /\ UNCHANGED <<executorVars, toolJob>>

\* validate_schema_subset finds no error.
FitsSchema(instance, s) ==
    /\ s.required \subseteq DOMAIN instance
    /\ DOMAIN instance \subseteq DOMAIN s.properties
    /\ \A p \in DOMAIN instance : instance[p] \in s.properties[p]

\* _project_schema.
ProjectSchema(tool) ==
    IF narrowing = Nothing THEN Schemas[tool]
    ELSE IF narrowing.tool # tool THEN Schemas[tool]
    ELSE [Schemas[tool] EXCEPT !.properties[narrowing.property] = narrowing.allowed]

\* build_tool_capability_snapshot for a step under the current context and registry.
Visibility(tool) ==
    FirstMatch(<< <<tool \notin granted, "NOT_GRANTED_FOR_CONTEXT">>,
                  <<Resolve(tool) # "ALLOWED", Resolve(tool)>>,
                  <<TRUE, "VISIBLE">> >>)
Snapshot(step) ==
    LET decisions == [t \in Catalog |-> Visibility(t)]
        seen == {t \in Catalog : decisions[t] = "VISIBLE"}
    IN  [step |-> step, decisions |-> decisions, visible |-> [t \in seen |-> ProjectSchema(t)]]

\* A candidate of the provider bound to the snapshot it was made from: of that snapshot only the
\* step and the schema of the tool are asked for again.
Bind(proposal, snapshot) ==
    [pc |-> "bound", tool |-> proposal.tool, arguments |-> proposal.arguments, step |-> snapshot.step,
     schema |-> IF proposal.tool \in DOMAIN snapshot.visible THEN snapshot.visible[proposal.tool] ELSE Nothing]

\* Mutant: the schema in force is not compared with the bound one.
SchemaAsBound(call, step) ==
    LET now == Snapshot(step)
    IN  FirstMatch(<<
          <<call.step # step, "ORIGINAL_SNAPSHOT_MISMATCH">>,
          <<call.schema = Nothing, "ORIGINAL_TOOL_NOT_VISIBLE">>,
          <<now.decisions[call.tool] = "NOT_GRANTED_FOR_CONTEXT", "CURRENT_PERMISSION_REVOKED">>,
          <<now.decisions[call.tool] # "VISIBLE", "CURRENT_REGISTRY_BLOCKED">>,
          <<TRUE, "ALLOWED_TO_DAY74_ADMISSION">> >>)

\* check_invocation_governance: the binding against its own snapshot, whose schema it took, then
\* against a snapshot made now for the current step.
InvocationGovernance(call, step) ==
    LET now == Snapshot(step)
    IN  FirstMatch(<<
          <<call.step # step, "ORIGINAL_SNAPSHOT_MISMATCH">>,
          <<call.schema = Nothing, "ORIGINAL_TOOL_NOT_VISIBLE">>,
          <<now.decisions[call.tool] = "NOT_GRANTED_FOR_CONTEXT", "CURRENT_PERMISSION_REVOKED">>,
          <<now.decisions[call.tool] # "VISIBLE", "CURRENT_REGISTRY_BLOCKED">>,
          <<call.schema \notin {now.visible[t] : t \in DOMAIN now.visible \cap {call.tool}}, "SCHEMA_BINDING_MISMATCH">>,
          <<TRUE, "ALLOWED_TO_DAY74_ADMISSION">> >>)

\* prepare_candidate_for_backend_admission: the arguments against the schema of the snapshot.
Preparation(call, step) ==
    FirstMatch(<< <<InvocationGovernance(call, step) # "ALLOWED_TO_DAY74_ADMISSION", "BLOCKED_BY_GOVERNANCE">>,
                  <<call.schema # Nothing /\ ~FitsSchema(call.arguments, call.schema), "PROJECTED_SCHEMA_INVALID">>,
                  <<TRUE, "READY_FOR_BACKEND_ADMISSION">> >>)

-----------------------------------------------------------------------------
\* admit_tool_call: the text of the candidate may not parse or not be a call; the identity is
\* the server's, the arguments are the model's.  The report is looked up under the tenant.
Admission(text, call, auth) ==
    FirstMatch(<<
      <<text = "malformed", "PARSE_FAILURE">>,
      <<text = "no_call", "SCHEMA_INVALID">>,
      <<Resolve(call.tool) # "ALLOWED", Resolve(call.tool)>>,
      <<Resolve(call.tool) = "ALLOWED" /\ ~FitsSchema(call.arguments, Schemas[call.tool]), "SCHEMA_INVALID">>,
      <<call.arguments.tenant_id # auth.tenant \/ auth.role # "publisher", "UNAUTHORIZED">>,
      <<~\E r \in DOMAIN Reports : /\ r = call.arguments.report_id /\ Reports[r].tenant = auth.tenant
                                   /\ Reports[r].status = "draft", "SEMANTICALLY_INVALID">>,
      <<TRUE, "ALLOWED">> >>)

\* Mutant: the attempt is part of the idempotency key.
KeyOfAttempt(call) ==
    [effect |-> <<Tenant, call.arguments.report_id, Reports[call.arguments.report_id].version>>,
     tool |-> call.tool, step |-> call.step]

\* The AdmittedToolCall's idempotency key; the operation id is its digest.
IdempotencyKey(call) ==
    [effect |-> <<Tenant, call.arguments.report_id, Reports[call.arguments.report_id].version>>, tool |-> call.tool]

\* InMemoryToolExecutor.execute, under the registry's guard.
ExecuteOutcome(call) ==
    FirstMatch(<< <<Resolve(call.tool) # "ALLOWED", "REJECTED_DISABLED">>,
                  <<IdempotencyKey(call) \in operations, "DUPLICATE_SUPPRESSED">>,
                  <<TRUE, "EXECUTED">> >>)
Execute(call) ==
    IF ExecuteOutcome(call) = "EXECUTED"
    THEN /\ operations' = operations \cup {IdempotencyKey(call)}
         /\ effects' = [effects EXCEPT ![IdempotencyKey(call).effect] = @ + 1]
    ELSE UNCHANGED executorVars

\* verify_publish_outcome of what the tool returned.
VerifyOutcome(outcome) ==
    FirstMatch(<< <<~outcome.parses, "PARSE_FAILURE">>,
                  <<~outcome.fits, "SCHEMA_INVALID">>,
                  <<~outcome.published \/ outcome.error, "SEMANTICALLY_INVALID">>,
                  <<~outcome.own, "IDENTITY_MISMATCH">>,
                  <<TRUE, "VERIFIED">> >>)

\* InMemoryDurableStore._matches: the attempt is that of the current step.
Matches(call, step) == call.step = step
\* mark_timeout_unknown and guarded_complete.
MarkTimeoutUnknown(call, step) ==
    toolJob' = IF Matches(call, step) /\ toolJob.status # "SUCCEEDED"
               THEN [toolJob EXCEPT !.status = "PENDING_RECONCILIATION"] ELSE toolJob
GuardedComplete(call, step, outcome) ==
    toolJob' = IF Matches(call, step) /\ toolJob.status # "SUCCEEDED" /\ VerifyOutcome(outcome) = "VERIFIED"
               THEN [status |-> "SUCCEEDED", operation |-> IdempotencyKey(call)] ELSE toolJob

\* project_backend_result_for_agent: only a verified terminal result is an observation.
Observation(phase) ==
    FirstMatch(<< <<phase = "ACCEPTED", "WAIT_FOR_TERMINAL_RESULT">>,
                  <<phase = "UNVERIFIED_TERMINAL", "BLOCKED_UNVERIFIED_RESULT">>,
                  <<TRUE, "SAFE_RESULT_READY">> >>)
=============================================================================
