------------------------------- MODULE McpClient -------------------------------
(***************************************************************************)
(* The client's side of the wire (days 89, 90 and 93): the generation of   *)
(* the transport, the bindings of request keys to attempts that answers    *)
(* are correlated with, and the tool inventory that preflight permits are  *)
(* issued from.  A key is a generation and a protocol request id; the      *)
(* protocol boundary is made anew with each transport, so its bindings     *)
(* have the same keys as the correlation registry.                         *)
(***************************************************************************)
EXTENDS McpAdmission

CONSTANTS RequestIds,
          ServerIdentity,        \* ControlledRemoteFailureContract.server_identity
          Rejections,            \* its pre_handler_rejections: [code -> failure kind]
          RetryableKinds,        \* failure kinds BoundedRetryPolicy may retry
          MaxRetries,
          MaxGenerations,        \* bound on reconnections
          MaxInventories         \* bound on changes of the tool list

Keys == [gen : 1..MaxGenerations, id : RequestIds]

VARIABLES generation,            \* RemoteCorrelationRegistry._current_generation
          links,                 \* [key -> binding or None]: both registries' bindings, status,
                                 \* the response seen, and whether the key is consumed
          inventory              \* SDKPrivateMCPClientAdapter: [gen, observed]

clientVars == <<generation, links, inventory>>

ClientInit == /\ generation = 1
              /\ links = [k \in Keys |-> None]
              /\ inventory = [gen |-> 0, observed |-> TRUE]

KeyOf(x) == [gen |-> x.gen, id |-> x.id]

-----------------------------------------------------------------------------
\* begin_generation: old bindings stay as evidence.
BeginGeneration == /\ generation < MaxGenerations
                   /\ generation' = generation + 1
                   /\ UNCHANGED <<links, inventory>>

\* note_tools_list_changed closes dispatch; refresh_tool_inventory publishes only when every page
\* and schema is valid, and else leaves it closed.
NoteToolsListChanged == /\ inventory.gen < MaxInventories
                        /\ inventory' = [gen |-> inventory.gen + 1, observed |-> FALSE]
                        /\ UNCHANGED <<generation, links>>
RefreshToolInventory == /\ ~inventory.observed
                        /\ inventory' = [inventory EXCEPT !.observed = TRUE]
                        /\ UNCHANGED <<generation, links>>

\* issue_preflight_permit: the tool must be in the current inventory.  A permit is its generation.
PermitIssued == inventory.observed
PermitIsCurrent(permit) == PermitIssued /\ permit = inventory.gen

\* RemoteCorrelationRegistry.bind and the binding MCPProtocolBoundary.dispatch makes.
MayBind(k) == k.gen = generation /\ links[k] = None
Binding(op, n) == [op |-> op, n |-> n, status |-> "PENDING", seen |-> None, consumed |-> FALSE]

\* correlate_response: MATCHED once for a key of the current generation, and never again.
CorrelateResponse(k) ==
    FirstMatch(<< <<k.gen # generation, "STALE_GENERATION">>,
                  <<links[k] = None, "UNKNOWN_REQUEST">>,
                  <<links[k] # None /\ links[k].consumed, "ALREADY_COMPLETED">>,
                  <<TRUE, "MATCHED">> >>)
Consumed(link, outcome) == IF outcome = "MATCHED" THEN [link EXCEPT !.consumed = TRUE] ELSE link

\* MCPProtocolBoundary.correlate of a JSON-RPC answer: a peer may claim another operation, and a
\* key answered before is a duplicate or a conflict.  A conflict over the claimed operation
\* records no response, so a later answer still completes the binding.
Correlate(link, a) ==
    FirstMatch(<< <<link.status = None, "UNKNOWN_RESPONSE">>,
                  <<a.kind = "FOREIGN", "CONFLICT">>,
                  <<link.seen = <<a.kind, a.content>>, "DUPLICATE">>,
                  <<link.seen # None, "CONFLICT">>,
                  <<a.kind = "RESULT", "PROTOCOL_RESULT">>,
                  <<TRUE, "PROTOCOL_ERROR">> >>)
Correlated(link, a) ==
    LET outcome == Correlate(link, a)
    IN  CASE outcome = "CONFLICT" -> [link EXCEPT !.status = "CONFLICT"]
          [] outcome \in {"PROTOCOL_RESULT", "PROTOCOL_ERROR"} ->
               [link EXCEPT !.status = "COMPLETED", !.seen = <<a.kind, a.content>>]
          [] OTHER -> link

\* Both registries after an answer.  An HTTP refusal is no JSON-RPC answer.
AfterAnswer(a) ==
    LET k == KeyOf(a)
        consumed == Consumed(links[k], CorrelateResponse(k))
    IN  IF links[k] = None THEN links
        ELSE [links EXCEPT ![k] = IF a.kind = "HTTP" THEN consumed ELSE Correlated(consumed, a)]

\* abort_before_dispatch and mark_outcome_unknown; TimeoutBeforeSend takes the protocol binding
\* back and leaves the other registry's.
Abort(link) == [link EXCEPT !.status = IF @ = "PENDING" THEN "ABORTED_PRE_DISPATCH" ELSE @]
OutcomeUnknown(link) ==
    [link EXCEPT !.status = IF @ \in {"PENDING", "PENDING_RECONCILIATION"} THEN "PENDING_RECONCILIATION" ELSE @]
Popped(link) == [link EXCEPT !.status = None]

-----------------------------------------------------------------------------
\* FailureEvidence.
Evidence(n, id, kind, sent, executed) ==
    [n |-> n, id |-> id, kind |-> kind, sent |-> sent, executed |-> executed]
WellFormedEvidence(e) ==
    e # None => /\ e.n >= 1
                /\ e.sent = "PROVEN_NOT_SENT" => e.executed = "PROVEN_NOT_EXECUTED"

\* ApplicationRemoteFailureAdapter.translate of a matched refusal: only the configured server's
\* verified connection, with a configured code, proves that no handler ran.
Trusted(a) == a.from = ServerIdentity /\ a.content \in DOMAIN Rejections
Translate(a, link) ==
    IF Trusted(a) THEN Evidence(link.n, a.id, Rejections[a.content], "PROVEN_SENT", "PROVEN_NOT_EXECUTED")
    ELSE Evidence(link.n, a.id, "UNVERIFIED_REMOTE_FAILURE", "PROVEN_SENT", "POSSIBLY_EXECUTED")

\* cancellation_failure_evidence.
Cancellation(n, id, sent) ==
    Evidence(n, id, "CALLER_CANCELLED", sent,
             IF sent = "PROVEN_NOT_SENT" THEN "PROVEN_NOT_EXECUTED" ELSE "POSSIBLY_EXECUTED")

\* BoundedRetryPolicy: the exponential delay (the jitter, which only scales it, is left out), the
\* reasons that block a retry, and the decision.
Delay(ctx, retriesUsed) ==
    LET delay == ctx.base * 2 ^ retriesUsed IN IF delay < ctx.maximum THEN delay ELSE ctx.maximum
BlockedReason(e, ctx, retriesUsed) ==
    FirstMatch(<< <<e.executed # "PROVEN_NOT_EXECUTED", "POSSIBLE_EXECUTION">>,
                  <<~ctx.intent, "CALLER_INTENT_INACTIVE">>,
                  <<e.kind \notin RetryableKinds, "FAILURE_NOT_RETRYABLE">>,
                  <<retriesUsed >= MaxRetries, "RETRY_BUDGET_EXHAUSTED">>,
                  <<ctx.now >= ctx.deadline, "DEADLINE_EXHAUSTED">>,
                  <<~ctx.authorized, "AUTHORIZATION_NOT_CURRENT">>,
                  <<~ctx.capacity, "CAPACITY_NOT_ADMITTED">>,
                  <<~ctx.circuit, "CIRCUIT_OPEN">>,
                  <<TRUE, None>> >>)
Decide(e, ctx, retriesUsed) ==
    FirstMatch(<< <<BlockedReason(e, ctx, retriesUsed) # None, BlockedReason(e, ctx, retriesUsed)>>,
                  <<ctx.now + Delay(ctx, retriesUsed) + ctx.window > ctx.deadline, "DEADLINE_EXHAUSTED">>,
                  <<TRUE, "ELIGIBLE">> >>)

\* admit_retry_dispatch: the volatile facts again, after the backoff.
AdmitRetryDispatch(ctx) ==
    FirstMatch(<< <<~ctx.intent, "CALLER_INTENT_INACTIVE">>,
                  <<ctx.now + ctx.window > ctx.deadline, "DEADLINE_EXHAUSTED">>,
                  <<~ctx.authorized, "AUTHORIZATION_NOT_CURRENT">>,
                  <<~ctx.capacity, "CAPACITY_NOT_ADMITTED">>,
                  <<~ctx.circuit, "CIRCUIT_OPEN">>,
                  <<TRUE, "ADMITTED">> >>)
=============================================================================
