----------------------------- MODULE McpAdmission -----------------------------
(***************************************************************************)
(* What an MCP request passes before it reaches a handler, and what an     *)
(* application decides before it dispatches one: the edge guard, load      *)
(* shedding, key resolution, bearer verification and authorization of      *)
(* days 92 and 93, and the proposal, access and preflight gates of day 94. *)
(* Each is a chain of early returns over the facts it is given; the        *)
(* outcome names the first that fails.                                     *)
(***************************************************************************)
EXTENDS Integers, FiniteSets, FirstMatch

CONSTANTS None, Tenant, Tool, Scope, Issuer, Audience, Method,
          MaxBody,               \* maximum_body_bytes
          ClientVersions         \* sequence, preferred first

-----------------------------------------------------------------------------
\* HTTPPreAuthenticationGuard.check, and admit_global_load behind it.
EdgeCheck(edge) ==
    FirstMatch(<< <<edge.length < 0 \/ edge.length > MaxBody, "PAYLOAD_TOO_LARGE">>,
                  <<~edge.rate, "RATE_LIMITED">>,
                  <<TRUE, "ADMITTED">> >>)
AdmitGlobalLoad(edge) == IF edge.capacity THEN "ADMITTED" ELSE "SHED"

\* RefreshingJWKSResolver.resolve: a cached key needs no refresh.
ResolveKey(kid, cached, refresh) ==
    FirstMatch(<< <<kid \in cached, "RESOLVED_FROM_CACHE">>,
                  <<refresh = "unavailable", "AUTHENTICATION_DEPENDENCY_UNAVAILABLE">>,
                  <<refresh = "unknown", "UNKNOWN_SIGNING_KEY">>,
                  <<TRUE, "RESOLVED_AFTER_REFRESH">> >>)

\* AuthenticatedPrincipal: what a verified bearer credential stands for.
WellFormedPrincipal(c) == c.subject # None /\ c.issuer # None /\ c.audiences # {} /\ c.exp > 0

\* MCPHTTPAuthenticationBoundary._extract_bearer.
ExtractBearer(c) ==
    FirstMatch(<< <<c.header = "none", "MISSING_CREDENTIAL">>,
                  <<c.header # "bearer", "MALFORMED_CREDENTIAL">>,
                  <<TRUE, "EXTRACTED">> >>)
\* DeterministicHMACBearerVerifier.verify over the trusted keys; exp and nbf are None when the
\* claim is absent, and only a missing exp is malformed.
Verify(c, keys, now) ==
    FirstMatch(<< <<~c.decodes, "MALFORMED_CREDENTIAL">>,
                  <<c.alg # "HS256", "INVALID_SIGNATURE">>,
                  <<c.kid \notin keys, "UNKNOWN_SIGNING_KEY">>,
                  <<~c.signed, "INVALID_SIGNATURE">>,
                  <<c.issuer # Issuer, "WRONG_ISSUER">>,
                  <<Audience \notin c.audiences, "WRONG_AUDIENCE">>,
                  <<c.exp = None, "MALFORMED_CREDENTIAL">>,
                  <<c.exp # None /\ now >= c.exp, "EXPIRED">>,
                  <<c.nbf # None /\ now < c.nbf, "NOT_YET_VALID">>,
                  <<c.subject = None, "MISSING_SUBJECT">>,
                  <<TRUE, "AUTHENTICATED">> >>)
Authenticate(c, keys, now) ==
    IF ExtractBearer(c) = "EXTRACTED" THEN Verify(c, keys, now) ELSE ExtractBearer(c)

-----------------------------------------------------------------------------
\* ApplicationAuthorizationService.  facts are CurrentAuthorizationFacts; an unavailable source
\* fails at the first question it is asked.
AuthorizeTarget(c, facts, target, permitted, denied) ==
    FirstMatch(<< <<"revocation" \in facts.down, "AUTHORIZATION_UNAVAILABLE">>,
                  <<facts.revoked, "PRINCIPAL_REVOKED">>,
                  <<Scope \notin c.scopes, "INSUFFICIENT_SCOPE">>,
                  <<"membership" \in facts.down, "AUTHORIZATION_UNAVAILABLE">>,
                  <<Tenant \notin facts.memberships, "TENANT_MEMBERSHIP_MISMATCH">>,
                  <<"permission" \in facts.down, "AUTHORIZATION_UNAVAILABLE">>,
                  <<target \notin permitted, denied>>,
                  <<TRUE, "AUTHORIZED">> >>)

\* InMemoryOperationAuthorizationBindings.bind: an operation is bound once, whoever asks again.
BindOperation(bindings, op, subject) ==
    FirstMatch(<< <<\A b \in bindings : b.op # op, "BOUND">>,
                  <<[op |-> op, subject |-> subject] \in bindings, "DUPLICATE">>,
                  <<TRUE, "IDENTITY_CONFLICT">> >>)

\* authorize_tool: both answers of an operation already bound are rejections.
AuthorizeTool(c, facts, bindings, op) ==
    LET access == AuthorizeTarget(c, facts, Tool, facts.tools, "TOOL_PERMISSION_DENIED")
        bound  == BindOperation(bindings, op, c.subject)
    IN  IF access = "AUTHORIZED" /\ bound # "BOUND" THEN bound ELSE access
\* authorize_prompt: an argument that claims authority is refused before memberships are read.
AuthorizePrompt(c, facts, arguments) ==
    IF /\ arguments \cap {"role", "scope", "subject", "tenant_id", "tenant_membership", "user_id"} # {}
       /\ "revocation" \notin facts.down /\ ~facts.revoked /\ Scope \in c.scopes
    THEN "PROMPT_ARGUMENT_PRIVILEGE_ESCALATION"
    ELSE AuthorizeTarget(c, facts, "prompt", facts.prompts, "PROMPT_PERMISSION_DENIED")
AuthorizeResource(c, facts) ==
    AuthorizeTarget(c, facts, "resource", facts.resources, "RESOURCE_PERMISSION_DENIED")

\* The code of a refusal on the wire: security_http_status, the edge's 413 and 429, and the two
\* refusals of ControlledRemoteFailureContract the server can make before a handler runs.
RefusalCode(outcome) ==
    CASE outcome = "SHED" -> "CAPACITY_REJECTED"
      [] outcome = "AUTHENTICATION_DEPENDENCY_UNAVAILABLE" -> outcome
      [] outcome = "AUTHORIZATION_UNAVAILABLE" -> "UNAVAILABLE"
      [] OTHER -> "REFUSED"

-----------------------------------------------------------------------------
\* negotiate_generation: the client's first version the server has.
NegotiateGeneration(serverVersions) ==
    LET common == {i \in DOMAIN ClientVersions : ClientVersions[i] \in serverVersions}
    IN  IF common = {} THEN None
        ELSE ClientVersions[CHOOSE i \in common : \A j \in common : i <= j]

\* validate_versioned_permit against the negotiation of one generation.
ValidateVersionedPermit(permit, generation, version, capabilities) ==
    FirstMatch(<< <<version = None, "NEGOTIATION_INCOMPATIBLE">>,
                  <<permit.generation # generation, "STALE_GENERATION">>,
                  <<permit.version # version, "VERSION_MISMATCH">>,
                  <<permit.method # Method, "METHOD_NOT_BOUND">>,
                  <<"tools" \notin capabilities \cap permit.capabilities, "CAPABILITY_REJECTED">>,
                  <<TRUE, "ADMITTED">> >>)

\* AgentMCPProposalBoundary.bind.
BindProposal(in) == IF in.tool \in in.snapshot THEN "ACCEPTED_FOR_GOVERNANCE" ELSE "TOOL_NOT_VISIBLE"
\* CapstoneOperationIdentityBoundary.prepare_authorization.
PrepareAuthorization(in) ==
    FirstMatch(<< <<in.snapshotTenant # Tenant, "TENANT_BINDING_CONFLICT">>,
                  <<~in.resource, "RESOURCE_BINDING_CONFLICT">>,
                  <<TRUE, "READY_FOR_CURRENT_AUTHORIZATION">> >>)
\* CapstoneAccessGate.compose: approval and authorization are separate facts, each bound to
\* this operation.
ComposeAccess(in) ==
    FirstMatch(<< <<in.approval # "APPROVED" \/ in.approvalExpired, "HUMAN_CHECKPOINT_BLOCKED">>,
                  <<~in.approvalBinds, "APPROVAL_BINDING_CONFLICT">>,
                  <<in.authorization # "AUTHORIZED", "CURRENT_AUTHORIZATION_BLOCKED">>,
                  <<~in.permitBinds, "PERMIT_BINDING_CONFLICT">>,
                  <<TRUE, "READY_FOR_PREFLIGHT">> >>)

\* TenantCapacityAdmission.admit: a tenant without a class is STANDARD.
AdmitTenant(in) == (IF in.class = None THEN "STANDARD" ELSE in.class) \in in.classes
\* DeadlineBudget.remaining.
Remaining(in) == IF in.deadline - in.now - in.reserve > 0 THEN in.deadline - in.now - in.reserve ELSE 0

\* CapstonePreflight.evaluate.  expected and current are DurableDispatchGuard's two readings of
\* the durable record, attempt the generation the attempt was planned for, generation the
\* negotiated one; a versioned permit may be permitAge generations old.
Preflight(in, expected, current, attempt, generation) ==
    LET version == NegotiateGeneration(in.serverVersions)
        permit  == [generation |-> generation - in.permitAge, version |-> in.permitVersion,
                    method |-> in.permitMethod, capabilities |-> in.permitCapabilities]
    IN  FirstMatch(
           << <<ComposeAccess(in) # "READY_FOR_PREFLIGHT", "ACCESS_NOT_CURRENT">>,
              <<~in.attemptBinds, "ATTEMPT_IDENTITY_CONFLICT">>,
              <<expected # current, "DURABLE_OWNERSHIP_STALE">>,
              <<~in.intent \/ in.cancelled, "CALLER_INTENT_INACTIVE">>,
              <<Remaining(in) <= 0, "DEADLINE_EXHAUSTED">>,
              <<version = None, "PROTOCOL_NEGOTIATION_INCOMPATIBLE">>,
              <<attempt # generation, "ATTEMPT_GENERATION_MISMATCH">>,
              <<ValidateVersionedPermit(permit, generation, version, in.capabilities) # "ADMITTED",
                "VERSIONED_PERMIT_REJECTED">>,
              <<~AdmitTenant(in), "CAPACITY_REJECTED">>,
              <<~in.circuit, "CIRCUIT_OPEN">>,
              <<TRUE, "READY_FOR_DISPATCH_CLAIM">> >>)
=============================================================================
