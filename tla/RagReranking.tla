----------------------------- MODULE RagReranking -----------------------------
(***************************************************************************)
(* Query rewriting and reranking (day101).  execute rewrites the query,    *)
(* retrieves every variant through RagRetrieval, fuses the hits, rechecks  *)
(* the pool, has a provider reorder it, and rechecks what it releases.     *)
(* An orchestrator's bundle, contracts and degradation policies are fixed  *)
(* when it is built (a policy); its currentness oracle shares the          *)
(* authorization with the retriever and keeps a provenance of its own.     *)
(* `ranking` is the request in progress and then the handoff to day102.    *)
(***************************************************************************)
EXTENDS RagRetrieval

CONSTANTS Rewrites,              \* what the rewrite provider answers: [query -> sequence of RewriteCandidate]
          RerankScores,          \* [occurrence -> score]
          RankingPolicies        \* the orchestrators over one retriever, by how they were built

\* QueryRewriteContract with its degradation and egress policies, RewriteCandidate,
\* MultiQueryExecutionPolicy, MultiQueryFusionPolicy, and RerankerContract with its policies.
WellFormedRewrite(p) ==
    /\ p.maxVariants > 0 /\ p.maxChars > 0 /\ p.maxBytes > 0
    /\ {p.rewriteEgress, p.originalOnEgressDenied, p.originalOnFailure, p.originalOnTimeout, p.partialVariants}
            \subseteq BOOLEAN
WellFormedCandidate(c) == c.chars > 0 /\ {c.allowedSource, c.locale, c.inScope} \subseteq BOOLEAN
WellFormedExecution(p) == p.maxExecuted > 0 /\ p.maxObservations > 0
WellFormedFusion(p) == p.fusionK > 0 /\ p.maxUnique > 0
WellFormedReranker(p) ==
    /\ p.topN > 0 /\ p.topN <= p.maxCandidates
    /\ p.output \in {"FULL_PERMUTATION", "TOP_N", "SUBSET"}
    /\ {p.rerankEgress, p.unrerankedOnEgressDenied, p.unrerankedOnFailure, p.unrerankedOnTimeout,
        p.unrerankedOnInvalid} \subseteq BOOLEAN
ASSUME RankingAssumption ==
    /\ \A p \in RankingPolicies : /\ WellFormedRewrite(p) /\ WellFormedExecution(p)
                                  /\ WellFormedFusion(p) /\ WellFormedReranker(p)
    /\ \A q \in DOMAIN Rewrites : \A i \in DOMAIN Rewrites[q] : WellFormedCandidate(Rewrites[q][i])

VARIABLE ranking

NoRanking == [pc |-> "idle"]
RankingInit == ranking = NoRanking

\* Day101Response and _finish.  partial: a variant's own reply was PARTIAL, which the retrieval
\* report keeps and nothing below looks at.
RankingReply(r, outcome, hits) ==
    [pc |-> "done", req |-> r.req, outcome |-> outcome, hits |-> hits, partial |-> r.partial]
RankingEnds(outcome) == ranking' = RankingReply(ranking, outcome, <<>>)

\* _eligibility_failure, on the bundle the orchestrator was built with.
EligibleBundle(p) ==
    /\ p.bundle # 0
    /\ p.production => Bundles[p.bundle].eligible
    /\ Bundles[p.bundle].classroom => p.classroom

\* QueryVariantValidator.validate, in the order of the provider's ordinals.
Rejected(p, original, kept, c) ==
    \/ ~c.allowedSource \/ ~c.locale \/ c.query = Nothing
    \/ c.chars > p.maxChars
    \/ c.query = original \/ \E i \in DOMAIN kept : kept[i].query = c.query
    \/ Len(kept) >= p.maxVariants
    \/ p.originalBytes + FoldLeft(LAMBDA n, k : n + k.chars, 0, kept) + c.chars > p.maxBytes
    \/ ~c.inScope
ValidVariants(p, original, candidates) ==
    FoldLeft(LAMBDA kept, c : IF Rejected(p, original, kept, c) THEN kept ELSE Append(kept, c),
             <<>>, candidates)

\* QueryVariant and RewriteSet: the original is variant zero, the accepted ones follow in order.
VariantSet(original, kept, mode) ==
    [queries |-> <<original>> \o [i \in DOMAIN kept |-> kept[i].query], mode |-> mode]
\* BoundedQueryRewriter.rewrite: Nothing for RewriteError, else the original and its variants.
\* failure is NONE, FAILED or TIMEOUT of the provider.
RewriteSet(p, original, failure) ==
    LET candidates == IF p.rewriteEgress /\ failure = "NONE" THEN Rewrites[original] ELSE <<>>
        kept == ValidVariants(p, original, candidates)
        rejected == Len(kept) < Len(candidates)
        refused == \/ ~p.rewriteEgress /\ ~p.originalOnEgressDenied
                   \/ failure = "FAILED" /\ ~p.originalOnFailure
                   \/ failure = "TIMEOUT" /\ ~p.originalOnTimeout
                   \/ rejected /\ ~p.partialVariants
    IN  IF refused THEN Nothing
        ELSE VariantSet(original, kept, FirstMatch(<<<<kept # <<>> /\ rejected, "PARTIAL_REWRITE">>,
                                                     <<kept # <<>>, "FULL_REWRITE">>,
                                                     <<TRUE, "ORIGINAL_ONLY_FALLBACK">> >>))

\* execute, up to the retrieval of the original query.
Execute(p, req, failure) ==
    /\ ranking.pc # "variants"
    /\ failure # "NONE" => EligibleBundle(p) /\ p.rewriteEgress /\ faults < MaxFaults
    /\ faults' = IF failure = "NONE" THEN faults ELSE faults + 1
    /\ LET rewrite == RewriteSet(p, req.query, failure)
           begun == [req |-> req, policy |-> p, partial |-> FALSE]
       IN  IF ~EligibleBundle(p) THEN ranking' = RankingReply(begun, "REJECTED", <<>>) /\ UNCHANGED call
           ELSE IF rewrite = Nothing \/ Len(rewrite.queries) > p.maxExecuted
           THEN ranking' = RankingReply(begun, "UNAVAILABLE", <<>>) /\ UNCHANGED call
           ELSE /\ ranking' = [pc |-> "variants", rewrite |-> rewrite, results |-> <<>>,
                               done |-> 0, failed |-> FALSE] @@ begun
                /\ Retrieve("variant", [req EXCEPT !.query = rewrite.queries[1]], Nothing)

\* MultiQueryCandidatePool: cut to the policy's limit.
CandidatePool(fused, limit) ==
    [candidates |-> SubSeq(fused, 1, Min({limit, Len(fused)})), truncated |-> Len(fused) > limit]
\* fuse_multi_query_results: the ranks an occurrence has in the variants' hits.
Pool(p, results) ==
    LET ranks == [v \in DOMAIN results |->
                    [o \in ToSet(results[v]) |-> CHOOSE i \in DOMAIN results[v] : results[v][i] = o]]
        fused == RankFusion(ranks, [v \in DOMAIN results |-> 1], p.fusionK)
    IN  CandidatePool(fused, p.maxUnique)

\* Day100VariantRetrievalExecutor.execute: a variant's reply is taken and the next variant
\* retrieved; after the last one the hits are fused.
TakeVariant ==
    /\ ranking.pc = "variants" /\ call.pc = "done"
    /\ LET lost == call.outcome \in RetrievalFailed
           results == IF lost THEN ranking.results ELSE Append(ranking.results, call.hits)
           observed == FoldLeft(LAMBDA n, hits : n + Len(hits), 0, results)
           r == [ranking EXCEPT !.results = results, !.failed = @ \/ lost, !.done = @ + 1,
                                !.partial = @ \/ call.outcome = "PARTIAL"]
           last == r.done = Len(r.rewrite.queries)
           pool == Pool(ranking.policy, results)
       IN  IF \/ lost /\ ~ranking.policy.partialVariantFailures
              \/ observed > ranking.policy.maxObservations
              \/ last /\ results = <<>>
           THEN RankingEnds("UNAVAILABLE") /\ call' = NoCall
           ELSE IF ~last THEN /\ ranking' = r
                              /\ Retrieve("variant", [r.req EXCEPT !.query = r.rewrite.queries[r.done + 1]], Nothing)
           ELSE /\ call' = NoCall
                /\ IF pool.candidates = <<>> THEN RankingEnds("EMPTY")
                   ELSE ranking' = [r EXCEPT !.pc = "precheck", !.results = <<>>]
                                   @@ [pool |-> pool.candidates, truncated |-> pool.truncated]
    /\ UNCHANGED faults

\* Day100CurrentnessOracle.recheck, against the scope and the oracle's provenance now.
Recheck(store, candidates) ==
    SelectSeq(candidates, LAMBDA o : o \in scope.allowed /\ o \in provenance[store])

\* RerankerInputBuilder.build: the limit of the contract; RerankerRequest is never empty.
InputFits(p, pool) == Len(pool) <= p.maxCandidates
\* Before anything leaves for the provider: the pool rechecked, the egress decided.  The input
\* builder raises on a pool over the contract's limit, which nobody catches.
Precheck ==
    /\ ranking.pc = "precheck"
    /\ LET current == Recheck("reranking", ranking.pool)
           r == [ranking EXCEPT !.pool = current] @@ [rejected |-> current # ranking.pool, reranked |-> TRUE]
       IN  IF current = <<>> THEN RankingEnds("EMPTY")
           ELSE IF ~ranking.policy.rerankEgress
           THEN IF ranking.policy.unrerankedOnEgressDenied
                THEN ranking' = [r EXCEPT !.pc = "final", !.reranked = FALSE]
                ELSE RankingEnds("REJECTED")
           ELSE IF ~InputFits(ranking.policy, current) THEN RankingEnds("RAISED")
           ELSE ranking' = [r EXCEPT !.pc = "rank"]
    /\ UNCHANGED <<faults, call>>

\* DeterministicRerankerAdapter.rank: the pool's indexes by score, cut to TOP_N; and the
\* answers the validator exists for.
RankedIndexes(pool) ==
    SetToSortSeq(DOMAIN pool, LAMBDA i, j : LET s == RerankScores[pool[i]]  t == RerankScores[pool[j]]
                                            IN  s > t \/ (s = t /\ i < j))
RawResponse(p, pool, kind) ==
    LET ranked == RankedIndexes(pool)
        indexes == IF p.output = "TOP_N" THEN SubSeq(ranked, 1, Min({p.topN, Len(ranked)})) ELSE ranked
    IN  [bound |-> kind # "foreign",
         indexes |-> CASE kind = "short" -> Front(indexes)
                       [] kind = "duplicate" -> [i \in DOMAIN indexes |-> indexes[1]]
                       [] kind = "unknown" -> [indexes EXCEPT ![1] = Len(pool) + 1]
                       [] kind = "unsorted" -> Reverse(indexes)
                       [] OTHER -> indexes]

\* RerankingValidator.validate: Nothing for RerankingValidationError, else the pool reordered.
Validated(p, pool, raw) ==
    LET n == Len(raw.indexes)
        count == CASE p.output = "FULL_PERMUTATION" -> n = Len(pool)
                   [] p.output = "TOP_N" -> n = Min({p.topN, Len(pool)})
                   [] OTHER -> n <= Len(pool)
        ordered == SelectSeq(RankedIndexes(pool), LAMBDA i : i \in ToSet(raw.indexes))
    IN  IF raw.bound /\ count /\ IsInjective(raw.indexes) /\ ToSet(raw.indexes) \subseteq DOMAIN pool
        THEN [i \in DOMAIN ordered |-> pool[ordered[i]]] ELSE Nothing

RankKinds == {"good", "FAILED", "TIMEOUT", "foreign", "short", "duplicate", "unknown", "unsorted"}
\* The provider ranks, or fails; where the policy allows it the fused order is kept instead.
Rank ==
    /\ ranking.pc = "rank"
    /\ \E kind \in RankKinds :
       LET failed == kind \in {"FAILED", "TIMEOUT"}
           order == IF failed THEN Nothing
                    ELSE Validated(ranking.policy, ranking.pool, RawResponse(ranking.policy, ranking.pool, kind))
           excused == CASE kind = "FAILED" -> ranking.policy.unrerankedOnFailure
                        [] kind = "TIMEOUT" -> ranking.policy.unrerankedOnTimeout
                        [] OTHER -> ranking.policy.unrerankedOnInvalid
       IN  /\ kind # "good" => faults < MaxFaults
           /\ faults' = IF kind = "good" THEN faults ELSE faults + 1
           /\ IF order # Nothing THEN ranking' = [ranking EXCEPT !.pc = "final", !.pool = order]
              ELSE IF excused THEN ranking' = [ranking EXCEPT !.pc = "final", !.reranked = FALSE]
              ELSE RankingEnds(IF failed THEN "UNAVAILABLE" ELSE "REJECTED")
    /\ UNCHANGED call

\* The last recheck, and the classification of what it lets through.
Degraded(r, hits) == \/ r.rewrite.mode # "FULL_REWRITE" \/ ~r.reranked \/ r.failed \/ r.truncated
                     \/ r.rejected \/ hits # r.pool
FinalRecheck ==
    /\ ranking.pc = "final"
    /\ LET hits == Recheck("reranking", ranking.pool)
       IN  ranking' = RankingReply(ranking, FirstMatch(<<<<hits = <<>>, "EMPTY">>,
                                        <<Degraded(ranking, hits), "DEGRADED">>, <<TRUE, "FULL">> >>), hits)
    /\ UNCHANGED <<faults, call>>

RankingUnavailable ==
    /\ ranking.pc \in {"precheck", "final"} /\ faults < MaxFaults /\ faults' = faults + 1
    /\ RankingEnds("UNAVAILABLE")
    /\ UNCHANGED call

RankingStep ==
    /\ TakeVariant \/ Precheck \/ Rank \/ FinalRecheck \/ RankingUnavailable
    /\ UNCHANGED <<scope, provenance, selected, _clock, retrievalStores>>
=============================================================================
