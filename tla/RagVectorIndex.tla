---------------------------- MODULE RagVectorIndex ----------------------------
(***************************************************************************)
(* Vector generations (day99) for one tenant and chunk set.  A builder     *)
(* checks its authorization, claims a fence, lets the provider replace the *)
(* generation in place, reads it back, probes it against the exact         *)
(* reference, and seals it.  Sealed generations with full evidence are     *)
(* activated by a compare-and-set under an activation fence.  persist      *)
(* holds the control plane's lock but reads membership, policy, provenance *)
(* and the embedding selection from the stores of others, one at a time.   *)
(* A generation is named by its result key.                                *)
(***************************************************************************)
EXTENDS RagClaims, Sequences, SequencesExt, FiniteSets, FirstMatch

CONSTANTS Workers, NoValue,
          Points,                \* [embedding set -> sequence of points, by id]: VectorPoint
          Sizes,                 \* _point_size of a point id
          Similarity,            \* [vector -> [vector -> score]], by cosine
          Contracts,             \* VectorIndexContract: [embedding, algorithm, maxItems, maxBytes]
          Policies,              \* RetrievalPolicyRevision: [contract, parameter]
          BuildRequests,         \* [op, key]
          Attempts,              \* the attempts tried, [n, by]
          Modes,                 \* FakeVectorMode
          PermitTtl,
          Fences,                \* activation fences a caller may bring
          MaxEvents,             \* bound on changes of authority, selections, contract and time
          MaxClaims,             \* bound on claims of one result key
          MaxBuilds,             \* bound on permits
          MaxBundles             \* bound on activations

EmbeddingSets == DOMAIN Points

\* VectorIndexContract and IndexBuildParameters.
WellFormedContract(c) == /\ c.maxItems > 0 /\ c.maxBytes > 0
                         /\ c.embedding \in EmbeddingSets
                         /\ c.algorithm \in {"FLAT", "HNSW", "IVFFLAT"}
\* VectorPoint, and the unique record ids of a set.
WellFormedPoints(ps) == ps # <<>> /\ \A i, j \in DOMAIN ps : i < j => ps[i].id < ps[j].id
ASSUME IndexAssumption == /\ \A c \in DOMAIN Contracts : WellFormedContract(Contracts[c])
                          /\ \A e \in EmbeddingSets : WellFormedPoints(Points[e])
                          /\ EmbeddingSets # {} /\ Fences \subseteq Nat

VARIABLES authority,                           \* what the guard reads from the stores of others:
                                               \* [membership, policy, provenance, embedding]
          clock,
          contractSelection,                   \* InMemoryVectorControlPlane
          operations, keys, claims, resultFences, unknown,
          generations, selected, activationFence, indexOutbox, storeLock,
          stored, providerFences,              \* DeterministicFakeVectorProvider
          begun,                               \* permits issued, for the bound
          worker

controlVars == <<contractSelection, operations, keys, claims, resultFences, unknown, generations,
                 selected, activationFence, indexOutbox, storeLock>>
providerVars == <<stored, providerFences>>
indexVars == <<authority, clock, controlVars, providerVars, begun, worker>>

Resting == [pc |-> "idle"]
NoBundle == [generation |-> NoValue, policy |-> NoValue, rev |-> 0]

IndexInit ==
    /\ authority = [membership |-> [ok |-> TRUE, rev |-> 1], policy |-> [ok |-> TRUE, rev |-> 1],
                    provenance |-> [ok |-> TRUE, rev |-> 1],
                    embedding |-> [set |-> CHOOSE e \in EmbeddingSets : TRUE, rev |-> 1]]
    /\ clock = 0
    /\ contractSelection = [contract |-> NoValue, rev |-> 0]
    /\ operations = EmptyTable /\ keys = EmptyTable /\ claims = EmptyTable
    /\ resultFences = EmptyTable /\ unknown = {} /\ generations = EmptyTable
    /\ selected = NoBundle /\ activationFence = 0 /\ indexOutbox = {} /\ storeLock = NoValue
    /\ stored = EmptyTable /\ providerFences = EmptyTable
    /\ begun = 0 /\ worker = [a \in Workers |-> Resting]

Become(a, record) == worker' = [worker EXCEPT ![a] = record]
Rest(a) == Become(a, Resting)
Lookup(table, key, default) == IF key \in DOMAIN table THEN table[key] ELSE default

-----------------------------------------------------------------------------
\* External to the index: administrators, publications and embedding selections, each of which
\* advances the revision of what it changes (RagAuthorization, RagPublication, RagEmbedding).
Revoke(what) ==
    authority' = [authority EXCEPT ![what] = [ok |-> FALSE, rev |-> @.rev + 1]]
Renew(what) ==
    authority' = [authority EXCEPT ![what] = [ok |-> TRUE, rev |-> @.rev + 1]]
Reembed(e) ==
    authority' = [authority EXCEPT !.embedding = [set |-> e, rev |-> @.rev + 1]]

Events == authority.membership.rev + authority.policy.rev + authority.provenance.rev
          + authority.embedding.rev + contractSelection.rev + clock - 4
Environment ==
    /\ Events < MaxEvents
    /\ \/ /\ \/ \E what \in {"membership", "policy", "provenance"} : Revoke(what) \/ Renew(what)
             \/ \E e \in EmbeddingSets : e # authority.embedding.set /\ Reembed(e)
          /\ UNCHANGED clock
       \/ clock' = clock + 1 /\ UNCHANGED authority
    /\ UNCHANGED <<controlVars, providerVars, begun, worker>>

\* select_contract: the revision advances only when the selected contract changes.
SelectContract ==
    /\ storeLock = NoValue /\ Events < MaxEvents
    /\ \E c \in DOMAIN Contracts :
        /\ c # contractSelection.contract
        /\ contractSelection' = [contract |-> c, rev |-> contractSelection.rev + 1]
    /\ UNCHANGED <<authority, clock, operations, keys, claims, resultFences, unknown, generations,
                   selected, activationFence, indexOutbox, storeLock, providerVars, begun, worker>>

-----------------------------------------------------------------------------
\* plan_vector_batches: in the order of the ids, each batch within the contract's limits;
\* one point too large for a batch raises.
Plannable(points, c) == \A i \in DOMAIN points : Sizes[points[i].id] <= Contracts[c].maxBytes
PlanVectorBatches(points, c) ==
    LET size(b) == FoldLeft(LAMBDA n, p : n + Sizes[p.id], 0, b)
        fits(b, p) == Len(b) < Contracts[c].maxItems /\ size(b) + Sizes[p.id] <= Contracts[c].maxBytes
    IN  FoldLeft(LAMBDA plan, p :
                    IF plan # <<>> /\ fits(Last(plan), p) THEN [plan EXCEPT ![Len(plan)] = Append(@, p)]
                    ELSE Append(plan, <<p>>),
                 <<>>, points)

\* generation_manifest: point ids, vectors and payloads; not the tenant column.
Manifest(points) == {[id |-> p.id, vector |-> p.vector, payload |-> p.payload] : p \in ToSet(points)}

\* ExactFlatReference.search, and query_raw behind ApplicationVectorAdapter.search: best first,
\* ties by id, within one tenant.
Search(points, probe, tenant, k) ==
    LET own == SelectSeq(points, LAMBDA p : p.tenant = tenant)
        before(p, q) == LET s == Similarity[probe][p.vector]  t == Similarity[probe][q.vector]
                        IN  s > t \/ (s = t /\ p.id < q.id)
        ranked == SortSeq(own, before)
    IN  SubSeq(ranked, 1, IF k < Len(ranked) THEN k ELSE Len(ranked))

\* What replace_generation stores, by mode.
StoredPoints(mode, points) ==
    CASE mode = "ACK_ONLY" -> <<>>
      [] mode = "PARTIAL_WRITE" -> Front(points)
      [] mode = "WRONG_VECTOR" -> [points EXCEPT ![1].vector = "negated"]
      [] mode = "WRONG_PAYLOAD" -> [points EXCEPT ![1].payload = "corrupted"]
      [] mode = "CROSS_TENANT_POINT" -> [points EXCEPT ![1].tenant = "forbidden", ![1].payload = "forbidden"]
      [] OTHER -> points

\* The acknowledgements: a batch, its accepted ids, and whether generation, namespace, tenant,
\* request and operation are those of the call.
Ack(batch, accepted) == [batch |-> batch, accepted |-> accepted, correlated |-> TRUE]
Accepted(batch) == {p.id : p \in ToSet(batch)}
Acknowledgements(mode, plan) ==
    LET acks == [i \in DOMAIN plan |-> Ack(i, Accepted(plan[i]))]
        n == Len(plan)
    IN  CASE mode = "PARTIAL_WRITE" -> [acks EXCEPT ![n].accepted = Accepted(Front(plan[n]))]
          [] mode = "MISSING_ACK" -> Front(acks)
          [] mode = "DUPLICATE_ACK" -> Append(acks, acks[1])
          [] mode = "UNKNOWN_ACK" -> Append(acks, Ack(0, Accepted(plan[1])))
          [] mode = "UNCORRELATED_ACK" -> [acks EXCEPT ![1].correlated = FALSE]
          [] mode = "REVERSED_ACKS" -> Reverse(acks)
          [] OTHER -> acks

\* VectorGenerationValidator.evaluate, the part before the probes.
AcknowledgedAndReadBack(points, plan, acks, readback) ==
    /\ Cardinality({ack.batch : ack \in ToSet(acks)}) = Len(acks)
    /\ {ack.batch : ack \in ToSet(acks)} = DOMAIN plan
    /\ \A ack \in ToSet(acks) : ack.correlated /\ ack.accepted = Accepted(plan[ack.batch])
    /\ readback # <<>> /\ Manifest(readback) = Manifest(points)

\* The probes: order and scores of every point's own query, and nothing of another tenant.
ProbesAgree(points, found, reversed) ==
    LET k == IF Len(points) < 3 THEN Len(points) ELSE 3
        tenant == points[1].tenant
        answer(p, t) == LET hits == Search(found, p.vector, t, Len(found))
                            order == IF reversed THEN Reverse(hits) ELSE hits
                        IN  SubSeq(order, 1, IF k < Len(order) THEN k ELSE Len(order))
        seen(hits, p) == [i \in DOMAIN hits |-> <<hits[i].id, Similarity[p.vector][hits[i].vector]>>]
    IN  /\ \A p \in ToSet(points) :
            seen(answer(p, tenant), p) = seen(Search(points, p.vector, tenant, k), p)
        /\ answer(points[1], "forbidden-probe") = <<>>

-----------------------------------------------------------------------------
\* authorized_index_build_input: the permit binds the authority it was issued under to the
\* embedding set and to the selected contract.
Authorize(a) ==
    /\ worker[a] = Resting /\ begun < MaxBuilds /\ begun' = begun + 1
    /\ contractSelection.contract # NoValue
    /\ Contracts[contractSelection.contract].embedding = authority.embedding.set
    /\ authority.membership.ok /\ authority.policy.ok /\ authority.provenance.ok
    /\ Become(a, [pc |-> "handoff", permit |-> authority, contract |-> contractSelection,
                  expiresAt |-> clock + PermitTtl])
    /\ UNCHANGED <<authority, clock, controlVars, providerVars>>

\* Mutant: the selected embedding set is compared, its selection revision is not.
SameValue(what, permit) ==
    IF what = "embedding" THEN authority.embedding.set = permit.embedding.set
    ELSE authority[what] = permit[what]

\* One read of IndexBuildAuthorizationGuard.check: still valid at the permit's revision.
GuardRead(what, permit) == authority[what] = permit[what]

\* The whole check before dispatch.  Its reads are separate too, but all of them compare with
\* revisions that only grow, so a check that passes would have passed at its first read.
GuardPasses(w) ==
    /\ w.expiresAt > clock
    /\ \A what \in {"membership", "policy", "provenance", "embedding"} : GuardRead(what, w.permit)
    /\ contractSelection = w.contract

\* VectorBuildOperation and stable_result_key.
Operation(r, w) == [op |-> r.op, key |-> r.key, embedding |-> w.permit.embedding, contract |-> w.contract,
                    revisions |-> <<w.permit.membership.rev, w.permit.policy.rev>>]
ResultKey(o) == <<o.embedding, o.contract>>

\* VectorGenerationCommitter.claim: the same attempt finds its claim again, an operation whose
\* outcome is unknown takes no new one, and every new claim raises the fence of the result.
ClaimOf(o, t) ==
    IF o.op \in DOMAIN claims /\ claims[o.op].attempt = t THEN claims[o.op]
    ELSE [operation |-> o, attempt |-> t, fence |-> Lookup(resultFences, ResultKey(o), 0) + 1]
MayClaim(o, t) ==
    /\ FreeOrSame(operations, o.op, o) /\ FreeOrSame(keys, o.key, o.op)
    /\ \/ o.op \in DOMAIN claims /\ claims[o.op].attempt = t
       \/ /\ o.op \notin unknown
          /\ AttemptFollows([p \in DOMAIN claims |-> claims[p].attempt], o.op, t)

\* _prepare, for run and for reconcile: guard, operation, claim, points and plan.
Prepare(a) ==
    /\ worker[a].pc = "handoff" /\ storeLock = NoValue
    /\ \E r \in BuildRequests, t \in Attempts, then \in {"write", "readback"} :
        LET w == worker[a]
            o == Operation(r, w)
            claim == ClaimOf(o, t)
            points == Points[o.embedding.set]
            contract == o.contract.contract
            plan == PlanVectorBatches(points, contract)
        IN  IF GuardPasses(w) /\ MayClaim(o, t)
            THEN /\ claim.fence <= MaxClaims
                 /\ operations' = Put(operations, o.op, o) /\ keys' = Put(keys, o.key, o.op)
                 /\ claims' = Put(claims, o.op, claim)
                 /\ resultFences' = Put(resultFences, ResultKey(o),
                                        IF Lookup(resultFences, ResultKey(o), 0) > claim.fence
                                        THEN resultFences[ResultKey(o)] ELSE claim.fence)
                 /\ IF Plannable(points, contract)
                    THEN Become(a, [pc |-> then, permit |-> w.permit, contract |-> w.contract,
                                    expiresAt |-> w.expiresAt, claim |-> claim,
                                    acks |-> Acknowledgements("NORMAL", plan)])
                    ELSE Rest(a)
            ELSE Rest(a) /\ UNCHANGED <<operations, keys, claims, resultFences>>
    /\ UNCHANGED <<authority, clock, contractSelection, unknown, generations, selected, activationFence,
                   indexOutbox, storeLock, providerVars, begun>>

PointsFor(w) == Points[w.claim.operation.embedding.set]
PlanFor(w) == PlanVectorBatches(PointsFor(w), w.contract.contract)

\* Mutant: the provider takes any fence.
AnyFence(key, fence) == TRUE

\* The provider refuses a fence older than the last one it saw.
ProviderAccepts(key, fence) == fence >= Lookup(providerFences, key, 0)

\* replace_generation, as run calls it.
ReplaceGeneration(a) ==
    LET w == worker[a]  key == ResultKey(w.claim.operation) IN
    /\ w.pc = "write"
    /\ IF ProviderAccepts(key, w.claim.fence)
       THEN \E mode \in Modes :
            /\ providerFences' = Put(providerFences, key, w.claim.fence)
            /\ stored' = Put(stored, key, StoredPoints(mode, PointsFor(w)))
            /\ IF mode = "TIMEOUT_UNKNOWN" THEN Become(a, [w EXCEPT !.pc = "mark"])
               ELSE Become(a, [w EXCEPT !.pc = "readback", !.acks = Acknowledgements(mode, PlanFor(w))])
       ELSE Rest(a) /\ UNCHANGED providerVars
    /\ UNCHANGED <<authority, clock, controlVars, begun>>

\* mark_unknown, if the claim is still the operation's.
MarkUnknown(a) ==
    /\ worker[a].pc = "mark" /\ storeLock = NoValue
    /\ unknown' = IF Holds(claims, worker[a].claim.operation.op, worker[a].claim)
                  THEN unknown \cup {worker[a].claim.operation.op} ELSE unknown
    /\ Rest(a)
    /\ UNCHANGED <<authority, clock, contractSelection, operations, keys, claims, resultFences, generations,
                   selected, activationFence, indexOutbox, storeLock, providerVars, begun>>

\* _validate_and_persist: the readback.  The checkpoint digests the fence with the points.
Readback(a) ==
    LET w == worker[a]  key == ResultKey(w.claim.operation)
        found == Lookup(stored, key, <<>>)
    IN  /\ w.pc = "readback"
        /\ IF AcknowledgedAndReadBack(PointsFor(w), PlanFor(w), w.acks, found)
           THEN Become(a, [pc |-> "probe", permit |-> w.permit, contract |-> w.contract,
                           expiresAt |-> w.expiresAt, claim |-> w.claim,
                           checkpoint |-> [fence |-> Lookup(providerFences, key, 0),
                                           points |-> Manifest(found)]])
           ELSE Rest(a)
        /\ UNCHANGED <<authority, clock, controlVars, providerVars, begun>>

\* The probes query the provider again; WRONG_QUERY_ORDER turns its answers round.
Probe(a) ==
    LET w == worker[a] IN
    /\ w.pc = "probe"
    /\ \E reversed \in {FALSE} \cup {TRUE : m \in Modes \cap {"WRONG_QUERY_ORDER"}} :
        IF ProbesAgree(PointsFor(w), Lookup(stored, ResultKey(w.claim.operation), <<>>), reversed)
        THEN Become(a, [w EXCEPT !.pc = "persist"]) ELSE Rest(a)
    /\ UNCHANGED <<authority, clock, controlVars, providerVars, begun>>

-----------------------------------------------------------------------------
\* persist, under the lock: the claim, the permit's expiry, the membership.  asOf is the
\* authority at that moment (a history value).
PersistBegin(a) ==
    LET w == worker[a] IN
    /\ w.pc = "persist" /\ storeLock = NoValue
    /\ IF /\ Holds(claims, w.claim.operation.op, w.claim)
          /\ w.expiresAt > clock /\ GuardRead("membership", w.permit)
       THEN storeLock' = a /\ Become(a, [pc |-> "policy", permit |-> w.permit, contract |-> w.contract,
                                         claim |-> w.claim, checkpoint |-> w.checkpoint, asOf |-> authority])
       ELSE Rest(a) /\ UNCHANGED storeLock
    /\ UNCHANGED <<authority, clock, contractSelection, operations, keys, claims, resultFences, unknown,
                   generations, selected, activationFence, indexOutbox, providerVars, begun>>

\* The rest of the guard, read by read.
PersistGuard(a, what, then) ==
    /\ worker[a].pc = what
    /\ IF GuardRead(what, worker[a].permit) /\ (what = "embedding" => contractSelection = worker[a].contract)
       THEN Become(a, [worker[a] EXCEPT !.pc = then]) /\ UNCHANGED storeLock
       ELSE Rest(a) /\ storeLock' = NoValue
    /\ UNCHANGED <<authority, clock, contractSelection, operations, keys, claims, resultFences, unknown,
                   generations, selected, activationFence, indexOutbox, providerVars, begun>>

\* VectorGeneration, as the local validator leaves it: four gates have not run.
Generation(w) == [operation |-> w.claim.operation, contract |-> w.contract.contract,
                  manifest |-> Manifest(PointsFor(w)), checkpoint |-> w.checkpoint,
                  evidence |-> "MORE_EVIDENCE_NEEDED", state |-> "SEALED"]
\* _equivalent_generation.
Equivalent(left, right) == /\ left.contract = right.contract /\ left.manifest = right.manifest
                           /\ left.evidence = right.evidence /\ left.state = right.state

\* _current_embedding_matches and the write.
PersistWrite(a) ==
    LET w == worker[a]  o == w.claim.operation  key == ResultKey(o)
        outcome == FirstMatch(<<
            <<~GuardRead("embedding", w.permit),                 "STALE_EMBEDDING_SELECTION">>,
            <<key \in DOMAIN generations /\ Equivalent(Lookup(generations, key, Generation(w)), Generation(w)),
                                                                 "ALREADY_SEALED">>,
            <<key \in DOMAIN generations,                        "IDENTITY_CONFLICT">>,
            <<TRUE,                                              "SEALED">> >>)
    IN  /\ w.pc = "seal" /\ storeLock' = NoValue /\ Rest(a)
        /\ unknown' = IF outcome \in {"ALREADY_SEALED", "SEALED"} THEN unknown \ {o.op} ELSE unknown
        /\ IF outcome = "SEALED"
           THEN /\ generations' = Put(generations, key, Generation(w))
                /\ indexOutbox' = indexOutbox \cup {[event |-> "SEALED", generation |-> key, rev |-> 1]}
           ELSE UNCHANGED <<generations, indexOutbox>>
        /\ UNCHANGED <<authority, clock, contractSelection, operations, keys, claims, resultFences, selected,
                       activationFence, providerVars, begun>>

\* External: the evidence of a real provider is added to a sealed generation.
Promote ==
    /\ storeLock = NoValue
    /\ \E key \in DOMAIN generations :
        /\ generations[key].evidence # "PRODUCTION_READY"
        /\ generations' = [generations EXCEPT ![key].evidence = "PRODUCTION_READY",
                                              ![key].state = "PRODUCTION_READY"]
    /\ UNCHANGED <<authority, clock, contractSelection, operations, keys, claims, resultFences, unknown, selected,
                   activationFence, indexOutbox, storeLock, providerVars, begun, worker>>

\* accepts_policy: the parameter of the algorithm the contract was built with.
AcceptsPolicy(c, p) ==
    /\ p.contract = c
    /\ p.parameter = CASE Contracts[c].algorithm = "FLAT" -> "none"
                       [] Contracts[c].algorithm = "HNSW" -> "ef_search"
                       [] OTHER -> "probes"

\* An operator reads the bundle it will replace.
ActivateRead(a) ==
    /\ worker[a] = Resting /\ DOMAIN generations # {} /\ selected.rev < MaxBundles
    /\ Become(a, [pc |-> "activate", seen |-> selected])
    /\ UNCHANGED <<authority, clock, controlVars, providerVars, begun>>

\* Mutant: only the generation is compared.
SameGeneration(bundle, seen) == bundle.generation = seen.generation

\* The compare-and-set of activate: expected generation and revision.
BundleIsExpected(bundle, seen) == bundle.generation = seen.generation /\ bundle.rev = seen.rev

\* activate: replays, fences, compare-and-set, readiness; bundle, fence, state and intent move
\* together.
Activate(a) ==
    /\ worker[a].pc = "activate" /\ storeLock = NoValue /\ selected.rev < MaxBundles
    /\ \E key \in DOMAIN generations, p \in Policies, fence \in Fences :
        LET outcome == FirstMatch(<<
            <<selected.generation = key /\ selected.policy = p /\ fence = activationFence, "ALREADY_ACTIVATED">>,
            <<fence <= activationFence,                                                  "STALE_FENCE">>,
            <<~BundleIsExpected(selected, worker[a].seen),                               "STALE_SELECTION">>,
            <<generations[key].evidence # "PRODUCTION_READY" \/ ~AcceptsPolicy(generations[key].contract, p),
                                                                                         "NOT_READY">>,
            <<TRUE,                                                                      "ACTIVATED">> >>)
            bundle == [generation |-> key, policy |-> p, rev |-> selected.rev + 1]
        IN  IF outcome = "ACTIVATED"
            THEN /\ selected' = bundle /\ activationFence' = fence
                 /\ generations' = [generations EXCEPT ![key].state = "ACTIVATED"]
                 /\ indexOutbox' = indexOutbox \cup {[event |-> "SELECTED", generation |-> key, rev |-> bundle.rev]}
            ELSE UNCHANGED <<selected, activationFence, generations, indexOutbox>>
    /\ Rest(a)
    /\ UNCHANGED <<authority, clock, contractSelection, operations, keys, claims, resultFences, unknown,
                   storeLock, providerVars, begun>>

\* A worker dies, or a store is out of reach; its lock goes with its call.
Abandon(a) ==
    /\ worker[a] # Resting /\ Rest(a)
    /\ storeLock' = IF storeLock = a THEN NoValue ELSE storeLock
    /\ UNCHANGED <<authority, clock, contractSelection, operations, keys, claims, resultFences, unknown,
                   generations, selected, activationFence, indexOutbox, providerVars, begun>>

IndexNext ==
    \/ Environment \/ SelectContract \/ Promote
    \/ \E a \in Workers :
        \/ Authorize(a) \/ Prepare(a) \/ ReplaceGeneration(a) \/ MarkUnknown(a) \/ Readback(a) \/ Probe(a)
        \/ PersistBegin(a) \/ PersistGuard(a, "policy", "provenance")
        \/ PersistGuard(a, "provenance", "embedding") \/ PersistGuard(a, "embedding", "seal")
        \/ PersistWrite(a) \/ ActivateRead(a) \/ Activate(a) \/ Abandon(a)
IndexSpec == IndexInit /\ [][IndexNext]_indexVars

-----------------------------------------------------------------------------
\* classify_outbox_hint.
Hint(intent) ==
    IF intent.event = "SEALED"
    THEN IF intent.generation \in DOMAIN generations THEN "CURRENT" ELSE "STALE"
    ELSE IF intent.generation = selected.generation /\ intent.rev = selected.rev THEN "CURRENT" ELSE "STALE"

\* Membership, policy, publication and embedding selection may move between any two reads of
\* persist, and back again: what is sealed was authorized as a whole when persist began.
SealedWasAuthorized ==
    [][\A a \in Workers :
        worker[a].pc = "seal" /\ DOMAIN generations' # DOMAIN generations /\ worker'[a] # worker[a] =>
            worker[a].asOf = worker[a].permit]_<<generations, worker>>

\* A build that was superseded and wakes late cannot touch what its successor sealed: the points
\* of a sealed generation are replaced only under a fence no older than its checkpoint's.
LateWriterIsFenced ==
    [][\A key \in DOMAIN generations :
        Lookup(stored', key, <<>>) # Lookup(stored, key, <<>>) =>
            Lookup(providerFences', key, 0) >= generations[key].checkpoint.fence]_<<stored, providerFences>>

\* No activation is lost: operators that race, or come back to a generation that was selected
\* before, replace only the bundle they have seen; and of all announced selections exactly the
\* last one is current.
NoLostActivation ==
    [][\A a \in Workers :
        selected' # selected /\ worker'[a] # worker[a] =>
            /\ selected = worker[a].seen /\ activationFence' > activationFence
            /\ {i.rev : i \in {x \in indexOutbox' : x.event = "SELECTED" /\ (Hint(x) = "CURRENT")'}} = {selected'.rev}
      ]_<<selected, worker>>
===============================================================================
