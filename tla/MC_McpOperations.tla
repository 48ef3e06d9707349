--------------------------- MODULE MC_McpOperations ---------------------------
(***************************************************************************)
(* Instance of McpOperations for model checking.  Inputs, arrivals and     *)
(* contexts are the accepted one and each with one fact turned bad.        *)
(***************************************************************************)
EXTENDS McpOperations, TLC

CONSTANTS t1, tool1, scope1, iss1, aud1, k1, u1, w1, w2, id1, id2

Good == [tool |-> tool1, snapshot |-> {tool1}, snapshotTenant |-> t1, resource |-> TRUE,
         approval |-> "APPROVED", approvalExpired |-> FALSE, approvalBinds |-> TRUE,
         authorization |-> "AUTHORIZED", permitBinds |-> TRUE, attemptBinds |-> TRUE,
         expectedAge |-> 0, attemptAge |-> 0,
         intent |-> TRUE, cancelled |-> FALSE, deadline |-> 3, now |-> 1, reserve |-> 1,
         serverVersions |-> {"v1", "v2"}, permitAge |-> 0, permitVersion |-> "v2",
         permitMethod |-> "tools/call", permitCapabilities |-> {"tools"}, capabilities |-> {"tools"},
         class |-> None, classes |-> {"STANDARD"}, circuit |-> TRUE]
MCInputs ==
    {Good,
     [Good EXCEPT !.snapshot = {}], [Good EXCEPT !.snapshotTenant = None], [Good EXCEPT !.resource = FALSE],
     [Good EXCEPT !.approval = "DENIED"], [Good EXCEPT !.approvalExpired = TRUE],
     [Good EXCEPT !.approvalBinds = FALSE], [Good EXCEPT !.authorization = "PRINCIPAL_REVOKED"],
     [Good EXCEPT !.permitBinds = FALSE], [Good EXCEPT !.attemptBinds = FALSE],
     [Good EXCEPT !.expectedAge = 1], [Good EXCEPT !.attemptAge = 1],
     [Good EXCEPT !.intent = FALSE], [Good EXCEPT !.cancelled = TRUE], [Good EXCEPT !.now = 2],
     [Good EXCEPT !.serverVersions = {}], [Good EXCEPT !.permitAge = 1], [Good EXCEPT !.permitVersion = "v1"],
     [Good EXCEPT !.permitMethod = "prompts/get"], [Good EXCEPT !.capabilities = {}],
     [Good EXCEPT !.class = "PREMIUM"], [Good EXCEPT !.circuit = FALSE]}

Credential == [header |-> "bearer", decodes |-> TRUE, alg |-> "HS256", kid |-> k1, signed |-> TRUE,
               issuer |-> iss1, audiences |-> {aud1}, exp |-> 2, nbf |-> None, subject |-> u1, scopes |-> {scope1}]
Facts == [down |-> {}, revoked |-> FALSE, memberships |-> {t1}, tools |-> {tool1},
          prompts |-> {"prompt"}, resources |-> {"resource"}]
Arrival == [edge |-> [length |-> 1, rate |-> TRUE, capacity |-> TRUE], credential |-> Credential,
            now |-> 1, refresh |-> "found", facts |-> Facts]
MCArrivals ==
    {Arrival,
     [Arrival EXCEPT !.edge.length = 2], [Arrival EXCEPT !.edge.capacity = FALSE],
     [Arrival EXCEPT !.refresh = "unavailable"], [Arrival EXCEPT !.refresh = "unknown"], [Arrival EXCEPT !.now = 2],
     [Arrival EXCEPT !.facts.down = {"membership"}], [Arrival EXCEPT !.facts.tools = {}]}
MCReads == {[kind |-> "prompt", credential |-> Credential, facts |-> Facts, arguments |-> {"role"}],
            [kind |-> "resource", credential |-> Credential, facts |-> Facts, arguments |-> {}]}

Context == [intent |-> TRUE, now |-> 1, deadline |-> 4, base |-> 1, maximum |-> 2, window |-> 1,
            authorized |-> TRUE, capacity |-> TRUE, circuit |-> TRUE]
MCContexts == {Context, [Context EXCEPT !.intent = FALSE], [Context EXCEPT !.now = 3],
               [Context EXCEPT !.authorized = FALSE], [Context EXCEPT !.capacity = FALSE],
               [Context EXCEPT !.circuit = FALSE]}

MCVersions == <<"v2", "v1">>
MCRejections == [c \in {"CAPACITY_REJECTED", "AUTHENTICATION_DEPENDENCY_UNAVAILABLE"} |->
                    IF c = "CAPACITY_REJECTED" THEN c ELSE "JWKS_REFRESH_FAILED"]
MCRetryableKinds == {"SEND_FAILURE", "JWKS_REFRESH_FAILED", "CAPACITY_REJECTED", "AUTHORITATIVE_NOT_EXECUTED"}

Symmetry == Permutations(Workers) \cup Permutations(RequestIds)
=============================================================================
