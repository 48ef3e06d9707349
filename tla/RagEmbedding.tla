----------------------------- MODULE RagEmbedding -----------------------------
(***************************************************************************)
(* Embedding of the chunks an authorized read released (day98).  The       *)
(* orchestrator claims an operation, plans batches, calls the provider     *)
(* batch by batch and commits the whole set or nothing.  persist holds the *)
(* store's lock but reads membership, policy and provenance under theirs,  *)
(* one after the other, before it writes.                                  *)
(***************************************************************************)
EXTENDS RagAuthorization, RagClaims

CONSTANTS EmbeddingRequests,     \* [op, key]
          Attempts,              \* the attempts tried, [n, by]
          Contracts,             \* [contract -> [hardMax, maxItems, maxTokens, maxBytes, role, hosted, egress]]
          TokensOf, BytesOf,     \* tokens and bytes of a chunk behind the contract's prefix
          Evidence,              \* sets of ModelCandidateEvidence a selection may see
          Weights,               \* FrozenWeightedPreferences
          Modes,                 \* what the provider may do with a batch
          MaxEvents              \* bound on permits and on changes of policy, membership, publication,
                                 \* contract and time, together

\* EmbeddingContract, BatchLimits and EgressPolicy: documents only, and a hosted model needs an
\* explicit approval of the egress of protected data.
WellFormedContract(c) == /\ c.hardMax > 0 /\ c.maxItems > 0 /\ c.maxTokens > 0 /\ c.maxBytes > 0
                         /\ c.role = "DOCUMENT" /\ (c.hosted => c.egress)

ASSUME ContractsAssumption == \A c \in DOMAIN Contracts : WellFormedContract(Contracts[c])
\* FrozenWeightedPreferences.
WellFormedWeights == FoldFunction(+, 0, Weights) = 100
ASSUME WeightsAssumption == WellFormedWeights

VARIABLES contractSelection,                    \* InMemoryEmbeddingStore
          operations, keys, claims, embeddings, selections, outbox,
          storeLock

embeddingVars == <<contractSelection, operations, keys, claims, embeddings, selections, outbox, storeLock>>
vars == <<authorizationVars, worker, embeddingVars>>

Init ==
    /\ AuthorizationInit
    /\ contractSelection = [contract |-> None, rev |-> 0]
    /\ operations = EmptyTable /\ keys = EmptyTable /\ claims = EmptyTable
    /\ embeddings = EmptyTable /\ outbox = {} /\ storeLock = None
    /\ selections = [s \in ChunkSets |-> [set |-> None, rev |-> 0]]

-----------------------------------------------------------------------------
\* ModelCandidateEvidence.hard_gate_failures, and select_model: weights never compensate a
\* failed gate; ties go to the larger candidate id.
PassesGates(candidate) == candidate.gates = {} /\ "quality" \in DOMAIN candidate.scores
Score(candidate) == FoldFunction(+, 0, [w \in DOMAIN Weights |-> Weights[w] * candidate.scores[w]])
SelectModel(candidates) ==
    LET eligible == {c \in candidates : PassesGates(c)}
    IN  IF eligible = {} THEN None
        ELSE (CHOOSE c \in eligible : \A o \in eligible :
                Score(c) > Score(o) \/ (Score(c) = Score(o) /\ c.order >= o.order)).contract

\* select_contract: the revision advances only when the selected contract changes.
SelectContract ==
    /\ storeLock = None
    /\ \E candidates \in Evidence :
        LET c == SelectModel(candidates) IN
        /\ c \notin {None, contractSelection.contract}
        /\ contractSelection' = [contract |-> c, rev |-> contractSelection.rev + 1]
    /\ UNCHANGED <<authorizationVars, worker, operations, keys, claims, embeddings, selections, outbox, storeLock>>

\* prepare_authorized_items: exact token admission, never truncation.
Admitted(chunks, contract) == \A i \in DOMAIN chunks : TokensOf[chunks[i]] <= Contracts[contract].hardMax

\* BatchLimits: what one batch may hold.
WithinLimits(batch, limits) ==
    LET total(size) == FoldSeq(LAMBDA c, n : n + size[c], 0, batch)
    IN  /\ Len(batch) <= limits.maxItems
        /\ total(TokensOf) <= limits.maxTokens /\ total(BytesOf) <= limits.maxBytes

\* Mutant: a full batch still takes the next chunk.
PlanBatchesLate(chunks, contract) ==
    LET Place(c, plan) == IF plan # <<>> /\ WithinLimits(Last(plan), Contracts[contract])
                          THEN [plan EXCEPT ![Len(plan)] = Append(@, c)] ELSE Append(plan, <<c>>)
    IN  FoldLeft(LAMBDA plan, c : Place(c, plan), <<>>, chunks)

\* plan_batches: split between chunks only, in order, each batch within the limits.
PlanBatches(chunks, contract) ==
    LET Place(c, plan) == IF plan # <<>> /\ WithinLimits(Append(Last(plan), c), Contracts[contract])
                          THEN [plan EXCEPT ![Len(plan)] = Append(@, c)] ELSE Append(plan, <<c>>)
    IN  FoldLeft(LAMBDA plan, c : Place(c, plan), <<>>, chunks)
\* The planner raises when one chunk exceeds a batch limit by itself.
Plannable(chunks, contract) == \A i \in DOMAIN chunks : WithinLimits(<<chunks[i]>>, Contracts[contract])

\* DeterministicFakeEmbeddingAdapter.embed: the response of a mode.  A vector is "ok", "other"
\* (valid too) or "bad": wrong dimension or type, not finite, zero or not normalised.
Respond(mode, batch) ==
    LET items == [i \in DOMAIN batch |-> [id |-> batch[i], vector |-> IF mode = "PERTURBED" THEN "other" ELSE "ok"]]
        last == Len(batch)
    IN  [items |-> CASE mode = "REVERSED" -> Reverse(items)
                     [] mode = "MISSING" -> SubSeq(items, 1, last - 1)
                     [] mode = "DUPLICATE" -> [items EXCEPT ![last] = items[1]]
                     [] mode = "UNKNOWN_ITEM" -> [items EXCEPT ![last].id = None]
                     [] mode = "BAD_VECTOR" -> [items EXCEPT ![last].vector = "bad"]
                     [] OTHER -> items,
         identityMatches |-> mode # "WRONG_MODEL",
         usageMatches |-> mode # "WRONG_USAGE",
         partial |-> mode = "PARTIAL"]

\* EmbeddingCandidateValidator.evaluate.
ValidResponse(batch, response) ==
    /\ response.identityMatches /\ ~response.partial
    /\ Len(response.items) = Len(batch)
    /\ {i.id : i \in ToSet(response.items)} = ToSet(batch)
    /\ \A i \in ToSet(response.items) : i.vector # "bad"
    /\ response.usageMatches

-----------------------------------------------------------------------------
\* embedding_handoff: only an embedding read goes on to the orchestrator, with its chunks in order.
Handoff(p) == IF p.request.action = "embed" THEN [pc |-> "handoff", permit |-> p] ELSE Idle

\* EmbeddingOperationIdentity of a handoff under the selected contract, and stable_result_key.
Operation(e, p) == [op |-> e.op, key |-> e.key, set |-> p.request.set, chunks |-> p.request.chunks,
                    binding |-> p.binding, revisions |-> p.revisions, selected |-> contractSelection]
ResultKey(o) == <<o.set, o.chunks, o.selected.contract>>

\* EmbeddingCommitter.claim.
Claimed(o, t) ==
    /\ ClaimAccepted(operations, keys, claims, o, t)
    /\ operations' = Put(operations, o.op, o)
    /\ keys' = Put(keys, o.key, o.op)
    /\ claims' = Put(claims, o.op, t)

\* EmbeddingOrchestrator.run as far as the batches: claim, admission, plan.
Claim(a) ==
    /\ worker[a].pc = "handoff" /\ storeLock = None /\ contractSelection.rev > 0
    /\ \E e \in EmbeddingRequests, t \in Attempts :
        LET o == Operation(e, worker[a].permit)
            contract == o.selected.contract
            planned == Admitted(o.chunks, contract) /\ Plannable(o.chunks, contract)
        IN  /\ Claimed(o, t)
            /\ IF planned
               THEN Become(a, [pc |-> "embed", permit |-> worker[a].permit, operation |-> o, attempt |-> t,
                               expected |-> selections[o.set], batches |-> PlanBatches(o.chunks, contract),
                               vectors |-> <<>>])
               ELSE Rest(a)
    /\ UNCHANGED <<authorizationVars, contractSelection, embeddings, selections, outbox, storeLock>>

\* One provider call and its validation.  A proven non-execution lets the caller try again with
\* the same handoff; an unknown one waits for reconciliation; one invalid item rejects it all.
EmbedBatch(a) ==
    /\ worker[a].pc = "embed" /\ worker[a].batches # <<>>
    /\ \E mode \in Modes :
        LET batch == Head(worker[a].batches)
            response == Respond(mode, batch)
        IN  CASE mode = "PROVEN_NOT_EXECUTED" -> Become(a, [pc |-> "handoff", permit |-> worker[a].permit])
              [] mode = "TIMEOUT_UNKNOWN" -> Rest(a)
              [] OTHER -> IF ValidResponse(batch, response)
                          THEN Become(a, [worker[a] EXCEPT !.batches = Tail(@), !.vectors = @ \o response.items])
                          ELSE Rest(a)
    /\ UNCHANGED <<authorizationVars, embeddingVars>>

\* EmbeddingCommitter.persist: the lock, the claim, the contract selection, the permit's expiry
\* and the membership.
PersistCheck(a) ==
    LET o == worker[a].operation IN
    /\ worker[a].pc = "embed" /\ worker[a].batches = <<>> /\ storeLock = None
    /\ IF /\ Holds(claims, o.op, worker[a].attempt)
          /\ contractSelection = o.selected
          /\ worker[a].permit.expiresAt > clock
          /\ membership.active
       THEN /\ storeLock' = a
            /\ Become(a, [pc |-> "persist_policy", operation |-> o, vectors |-> worker[a].vectors,
                          expected |-> worker[a].expected, membership |-> membership,
                          asOf |-> [binding |-> binding, policy |-> policy]])
       ELSE Rest(a) /\ UNCHANGED storeLock
    /\ UNCHANGED <<authorizationVars, contractSelection, operations, keys, claims, embeddings, selections, outbox>>

\* Mutant: the grants are not evaluated again, only an epoch no older is required.
GrantUnchecked(o, m, p) == o.revisions.policy <= p.epoch

\* _authorization_error: the revisions of the read, and a grant on the chunk set or above.
StillGranted(o, m, p) ==
    LET applicable == {e \in p.entries : e.action = "embed" /\ IsAncestorOf(e.resource, ResourceOf(o.set))} IN
    /\ o.revisions = Revisions(m, p) /\ "embed" \in SupportedActions
    /\ \A e \in applicable : e.effect # "DENY"
    /\ \E e \in applicable : e.effect = "ALLOW"

PersistPolicy(a) ==
    /\ worker[a].pc = "persist_policy"
    /\ IF StillGranted(worker[a].operation, worker[a].membership, policy)
       THEN Become(a, [worker[a] EXCEPT !.pc = "persist_provenance"]) /\ UNCHANGED storeLock
       ELSE Rest(a) /\ storeLock' = None
    /\ UNCHANGED <<authorizationVars, contractSelection, operations, keys, claims, embeddings, selections, outbox>>

\* _provenance_error.
PersistProvenance(a) ==
    /\ worker[a].pc = "persist_provenance"
    /\ IF binding = worker[a].operation.binding
       THEN Become(a, [worker[a] EXCEPT !.pc = "persist_write"]) /\ UNCHANGED storeLock
       ELSE Rest(a) /\ storeLock' = None
    /\ UNCHANGED <<authorizationVars, contractSelection, operations, keys, claims, embeddings, selections, outbox>>

\* The vectors by chunk, in the order of the operation: vector_manifest_checksum.
Manifest(o, vectors) ==
    [i \in DOMAIN o.chunks |-> {v.vector : v \in {x \in ToSet(vectors) : x.id = o.chunks[i]}}]
EmbeddingSet(o, vectors) == [operation |-> o, manifest |-> Manifest(o, vectors)]
WholeOperation(o, vectors) == Len(vectors) = Len(o.chunks) /\ {v.id : v \in ToSet(vectors)} = ToSet(o.chunks)

\* The rest of persist: the same result is found again, the selection must be the expected one,
\* set, selection and intent are written together.
PersistWrite(a) ==
    LET o == worker[a].operation  key == ResultKey(o)
        outcome == FirstMatch(<<
            <<~WholeOperation(o, worker[a].vectors),    "NOT_READY">>,
            <<key \in DOMAIN embeddings,                "ALREADY_COMMITTED or IDENTITY_CONFLICT">>,
            <<selections[o.set] # worker[a].expected,   "STALE_SELECTION">>,
            <<TRUE,                                     "COMMITTED">> >>)
        chosen == [set |-> key, rev |-> selections[o.set].rev + 1]
    IN  /\ worker[a].pc = "persist_write" /\ storeLock' = None /\ Rest(a)
        /\ IF outcome = "COMMITTED"
           THEN /\ embeddings' = Put(embeddings, key, EmbeddingSet(o, worker[a].vectors))
                /\ selections' = [selections EXCEPT ![o.set] = chosen]
                /\ outbox' = outbox \cup {[chunkSet |-> o.set, chosen |-> chosen]}
           ELSE UNCHANGED <<embeddings, selections, outbox>>
        /\ UNCHANGED <<authorizationVars, contractSelection, operations, keys, claims>>

\* A worker dies, or finds the authorization state out of reach; its lock goes with its call.
Crash(a) ==
    /\ worker[a] # Idle /\ Rest(a)
    /\ storeLock' = IF storeLock = a THEN None ELSE storeLock
    /\ UNCHANGED <<authorizationVars, contractSelection, operations, keys, claims, embeddings, selections, outbox>>

ReaderStep(a) == /\ \/ Load(a) /\ Events + contractSelection.rev < MaxEvents
                    \/ LoadMembership(a) \/ Decide(a) \/ BeginRead(a) \/ ReadMembership(a)
                    \/ ReadPolicy(a) \/ Consume(a, Handoff(worker[a].permit))
                 /\ UNCHANGED embeddingVars

Next == \/ /\ Events + contractSelection.rev < MaxEvents
           /\ SelectContract \/ (Environment /\ UNCHANGED embeddingVars)
        \/ \E a \in Workers : \/ ReaderStep(a) \/ Claim(a) \/ EmbedBatch(a)
                              \/ PersistCheck(a) \/ PersistPolicy(a) \/ PersistProvenance(a) \/ PersistWrite(a)
                              \/ Crash(a)
Spec == Init /\ [][Next]_vars

-----------------------------------------------------------------------------
\* A set is committed only under authority that was whole at one moment.  The binding, the
\* membership and the policy the read was allowed under were all still in force when persist
\* began, although persist reads them one by one and the provider calls lie in between.
CommittedWasAuthorized ==
    [][\A a \in Workers :
        worker[a].pc = "persist_write" /\ embeddings' # embeddings /\ worker'[a] # worker[a] =>
            LET o == worker[a].operation  then == worker[a].asOf IN
            /\ then.binding = o.binding
            /\ Evaluate([action |-> "embed", set |-> o.set, chunks |-> o.chunks],
                        worker[a].membership, then.policy, 0) = "ALLOW"]_<<embeddings, worker>>

\* All or nothing over several batches: whatever the provider answered, every stored set has one
\* valid vector for each chunk of its operation, from batches within the contract's limits.
SetsAreWhole ==
    /\ \A key \in DOMAIN embeddings : \A i \in DOMAIN embeddings[key].manifest :
            /\ Cardinality(embeddings[key].manifest[i]) = 1
            /\ embeddings[key].manifest[i] \subseteq {"ok", "other"}
    /\ \A a \in Workers : worker[a].pc = "embed" =>
        LET w == worker[a]  contract == w.operation.selected.contract IN
        /\ ToSet(FlattenSeq(w.batches)) \cup {v.id : v \in ToSet(w.vectors)} = ToSet(w.operation.chunks)
        /\ \A b \in ToSet(w.batches) : b # <<>> /\ WithinLimits(b, Contracts[contract])
===============================================================================
