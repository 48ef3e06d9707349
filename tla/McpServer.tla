------------------------------- MODULE McpServer -------------------------------
(***************************************************************************)
(* The MCP server (days 91 and 92): a security boundary in front of it     *)
(* when it is reached over HTTP, a lifecycle that drains, one bounded      *)
(* capacity gate for tools, resources and prompts, and a registry of       *)
(* operations that lets each run its controlled service once.  A request   *)
(* is a call with a program counter, so that calls, reads and a shutdown   *)
(* interleave; requests and answers travel on a wire that may lose,        *)
(* duplicate and reorder them.                                             *)
(***************************************************************************)
EXTENDS McpAdmission

CONSTANTS Ops,
          Arrivals,              \* what may surround a request: [edge, credential, now, refresh, facts]
          Reads,                 \* resource and prompt requests: [kind, credential, facts, arguments]
          Capacity               \* leases of the capacity gate

ASSUME ServerAssumption == /\ Capacity \in Nat \ {0}
                           /\ \A a \in Arrivals : LET c == a.credential IN
                                 Authenticate(c, {c.kid}, a.now) = "AUTHENTICATED" => WellFormedPrincipal(c)

VARIABLES secured,               \* whether the security boundary is in front (HTTP) or not (stdio)
          requests, answers,     \* the wire
          keys, bindings,        \* RefreshingJWKSResolver, InMemoryOperationAuthorizationBindings
          lifecycle, inFlight, pending, frozen,        \* MCPServerLifecycle; operations its ports are still to be told of
          registry,              \* InMemoryOperationRegistry
          calls, reading,        \* requests being handled, and whether a read holds a lease
          effects                \* external: the attempts for which the controlled service took effect

serverVars == <<secured, keys, bindings, lifecycle, inFlight, pending, frozen, registry, calls, reading, effects>>

ServerInit ==
    /\ secured \in BOOLEAN
    /\ requests = {} /\ answers = {} /\ keys = {} /\ bindings = {}
    /\ lifecycle = "ACCEPTING" /\ inFlight = {} /\ pending = {} /\ frozen = {}
    /\ registry = [o \in Ops |-> None]
    /\ calls = {} /\ reading = FALSE
    /\ effects = [o \in Ops |-> <<>>]

\* An answer names the request it answers, not the operation.
Answer(m, kind, content) == [gen |-> m.gen, id |-> m.id, kind |-> kind, content |-> content, from |-> "server"]
\* What the SDK boundary makes of the coordinator's decision: a protocol error, a tool error or
\* the content.
Reply(m, kind, content) == answers' = answers \cup {Answer(m, kind, content)}
Advance(call, pc) == calls' = (calls \ {call}) \cup {[call EXCEPT !.pc = pc]}

-----------------------------------------------------------------------------
\* The verifier's keys: a well-formed credential whose key is not cached makes the resolver ask
\* the issuer, and a key it fetches is trusted from then on.
Resolved(a) ==
    IF ExtractBearer(a.credential) = "EXTRACTED" /\ a.credential.decodes /\ a.credential.alg = "HS256"
    THEN ResolveKey(a.credential.kid, keys, a.refresh) ELSE "NOT_ASKED"
TrustedKeys(a) == IF Resolved(a) = "RESOLVED_AFTER_REFRESH" THEN keys \cup {a.credential.kid} ELSE keys

\* MCPToolSecurityBoundary.handle_tool behind the edge guard and load shedding.
SecurityOutcome(a, op) ==
    LET identity == Authenticate(a.credential, TrustedKeys(a), a.now)
    IN  FirstMatch(<< <<EdgeCheck(a.edge) # "ADMITTED", EdgeCheck(a.edge)>>,
                      <<AdmitGlobalLoad(a.edge) # "ADMITTED", AdmitGlobalLoad(a.edge)>>,
                      <<Resolved(a) = "AUTHENTICATION_DEPENDENCY_UNAVAILABLE", Resolved(a)>>,
                      <<identity # "AUTHENTICATED", identity>>,
                      <<TRUE, AuthorizeTool(a.credential, a.facts, bindings, op)>> >>)

Arrive(m) ==
    /\ m \in requests
    /\ requests' = requests \ {m}
    /\ \/ \E a \in Arrivals :
            /\ secured
            /\ LET outcome == SecurityOutcome(a, m.op)
               IN  /\ keys' = IF outcome \in {"PAYLOAD_TOO_LARGE", "RATE_LIMITED", "SHED"}
                              THEN keys ELSE TrustedKeys(a)
                   /\ IF outcome = "AUTHORIZED"
                      THEN /\ bindings' = bindings \cup {[op |-> m.op, subject |-> a.credential.subject]}
                           /\ calls' = calls \cup {[m |-> m, pc |-> "authorized"]}
                           /\ UNCHANGED answers
                      ELSE /\ Reply(m, "HTTP", RefusalCode(outcome))
                           /\ UNCHANGED <<bindings, calls>>
       \/ \* MCPStdioAuthenticationBoundary: the trusted launch principal.
          /\ ~secured
          /\ calls' = calls \cup {[m |-> m, pc |-> "authorized"]}
          /\ UNCHANGED <<keys, bindings, answers>>
    /\ UNCHANGED <<secured, lifecycle, inFlight, pending, frozen, registry, reading, effects>>

-----------------------------------------------------------------------------
\* A call or a read between try_acquire and release.
Leases == Cardinality({c \in calls : c.pc # "authorized"}) + (IF reading THEN 1 ELSE 0)

\* complete_request and lease.release(), however the handler was left.
Leave(call) ==
    /\ calls' = calls \ {call}
    /\ inFlight' = IF call.m.op \in pending THEN inFlight ELSE inFlight \ {call.m.op}

\* begin_request, then the capacity gate of MCPServerRequestCoordinator.handle_tool.
Enter(call) ==
    LET op == call.m.op
    IN  /\ call \in calls /\ call.pc = "authorized"
        /\ \/ /\ lifecycle # "ACCEPTING" \/ op \in inFlight
              /\ Reply(call.m, "ERROR", None)
              /\ calls' = calls \ {call} /\ UNCHANGED inFlight
           \/ /\ lifecycle = "ACCEPTING" /\ op \notin inFlight
              /\ IF Leases < Capacity
                 THEN Advance(call, "entered") /\ inFlight' = inFlight \cup {op} /\ UNCHANGED answers
                 ELSE Reply(call.m, "ERROR", None) /\ calls' = calls \ {call} /\ UNCHANGED inFlight
        /\ UNCHANGED <<secured, requests, keys, bindings, lifecycle, pending, frozen, registry, reading, effects>>

\* InMemoryOperationRegistry.try_claim.  An idempotency key is fixed with its operation
\* (CapstoneOperationIdentity), so the identity conflict of the code does not arise.
ClaimEveryTime(op) == "CLAIMED"
TryClaim(op) == IF registry[op] = None THEN "CLAIMED" ELSE "DUPLICATE"

\* ResearchLookupHandler.handle up to the service: the admission port and the query's shape may
\* refuse, then the operation is claimed.  A refusal is a tool error of run_lookup.
Claim(call) ==
    LET op == call.m.op
    IN  /\ call \in calls /\ call.pc = "entered"
        /\ \E admitted \in BOOLEAN :
            IF admitted /\ TryClaim(op) = "CLAIMED"
            THEN /\ registry' = [registry EXCEPT ![op] = "IN_FLIGHT"]
                 /\ Advance(call, "claimed")
                 /\ UNCHANGED <<inFlight, answers>>
            ELSE /\ Reply(call.m, "RESULT", None) /\ Leave(call) /\ UNCHANGED registry
        /\ UNCHANGED <<secured, requests, keys, bindings, lifecycle, pending, frozen, reading, effects>>

\* The controlled service: it takes effect, or raises with or without an effect, and then the
\* operation is left pending reconciliation.
Lookup(call) ==
    LET op == call.m.op
        took == [effects EXCEPT ![op] = Append(@, call.m.n)]
    IN  /\ call \in calls /\ call.pc = "claimed"
        /\ \/ effects' = took /\ Advance(call, "looked") /\ UNCHANGED <<registry, inFlight, answers>>
           \/ /\ effects' \in {effects, took}
              /\ registry' = [registry EXCEPT ![op] = "PENDING_RECONCILIATION"]
              /\ Reply(call.m, "ERROR", None) /\ Leave(call)
        /\ UNCHANGED <<secured, requests, keys, bindings, lifecycle, pending, frozen, reading>>

\* Output validation, mark_completed, the answer.  Validation may raise, which leaves the claim
\* in flight; mark_completed raises once a drain has marked the operation pending.
Finish(call) ==
    LET op == call.m.op
    IN  /\ call \in calls /\ call.pc = "looked"
        /\ \E validated \in {"admitted", "rejected", "raised"} :
            LET marked == validated # "raised" /\ registry[op] = "IN_FLIGHT"
            IN  /\ registry' = IF marked THEN [registry EXCEPT ![op] = "COMPLETED"] ELSE registry
                /\ CASE ~marked -> Reply(call.m, "ERROR", None)
                     [] marked /\ validated = "rejected" -> Reply(call.m, "RESULT", None)
                     [] OTHER -> Reply(call.m, "RESULT", call.m.n)
        /\ Leave(call)
        /\ UNCHANGED <<secured, requests, keys, bindings, lifecycle, pending, frozen, reading, effects>>

-----------------------------------------------------------------------------
\* MCPServerResourceCoordinator and MCPServerPromptCoordinator: a read holds a lease while its
\* handler runs, which it does when authorized; both end by releasing it.
ResourceAdmitted(r) == r.kind # "prompt" /\ AuthorizeResource(r.credential, r.facts) = "AUTHORIZED"
PromptAdmitted(r) == r.kind = "prompt" /\ AuthorizePrompt(r.credential, r.facts, r.arguments) = "AUTHORIZED"
StartRead ==
    /\ ~reading /\ Leases < Capacity
    /\ \E r \in Reads : ResourceAdmitted(r) \/ PromptAdmitted(r)
    /\ reading' = TRUE
    /\ UNCHANGED <<secured, requests, answers, keys, bindings, lifecycle, inFlight, pending, frozen, registry, calls, effects>>
EndRead ==
    /\ reading
    /\ reading' = FALSE
    /\ UNCHANGED <<secured, requests, answers, keys, bindings, lifecycle, inFlight, pending, frozen, registry, calls, effects>>

\* start_shutdown, finish_clean_drain, and expire_drain_timeout up to the end of its lock.
StartShutdown == lifecycle = "ACCEPTING" /\ lifecycle' = "DRAINING" /\ UNCHANGED <<pending, frozen>>
FinishCleanDrain == /\ lifecycle = "DRAINING" /\ inFlight = {}
                    /\ lifecycle' = "STOPPED" /\ UNCHANGED <<pending, frozen>>
ExpireDrainTimeout == /\ lifecycle = "DRAINING"
                      /\ lifecycle' = "STOPPED" /\ pending' = pending \cup inFlight /\ frozen' = inFlight
BeginShutdown ==
    /\ StartShutdown
    /\ UNCHANGED <<secured, requests, answers, keys, bindings, inFlight, registry, calls, reading, effects>>
Shutdown ==
    /\ FinishCleanDrain \/ ExpireDrainTimeout
    /\ UNCHANGED <<secured, requests, answers, keys, bindings, inFlight, registry, calls, reading, effects>>

\* Outside the lock, for one frozen operation after the other: the call is cancelled, which may
\* come too late, and the registry is told.  It refuses an operation no handler has claimed yet,
\* and the rest of the loop is then skipped.
DrainPorts(op) ==
    /\ op \in frozen
    /\ calls' \in {calls, {c \in calls : c.m.op # op}}
    /\ IF registry[op] = None
       THEN frozen' = {} /\ UNCHANGED registry
       ELSE frozen' = frozen \ {op} /\ registry' = [registry EXCEPT ![op] = "PENDING_RECONCILIATION"]
    /\ UNCHANGED <<secured, requests, answers, keys, bindings, lifecycle, inFlight, pending, reading, effects>>

ServerStep ==
    \/ \E m \in requests : Arrive(m)
    \/ \E c \in calls : Enter(c) \/ Claim(c) \/ Lookup(c) \/ Finish(c)
    \/ EndRead \/ Shutdown
    \/ \E op \in Ops : DrainPorts(op)
=============================================================================
