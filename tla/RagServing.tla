------------------------------ MODULE RagServing ------------------------------
(***************************************************************************)
(* The serving path as a client meets it: RagRetrieval, RagReranking over  *)
(* it and RagGrounding over its handoff, sharing one authorization store.  *)
(* One client makes one request at a time, pages with any cursor it was    *)
(* given and grounds its last handoff whenever it likes, while             *)
(* administrators revoke, republish, select bundles and supersede sources. *)
(***************************************************************************)
EXTENDS RagGrounding

CONSTANTS RetrievalRequests,     \* RetrievalRequest: [query, topK, filter, encoder, override, action]
          RankingRequests,       \* those made of day101
          MaxRequests, MaxAdministrations,
          MaxTurns               \* bounds on requests, on administrative events, and on both with the faults

ASSUME ServingAssumption == \A r \in RetrievalRequests \cup RankingRequests : WellFormedRequest(r)

VARIABLES requests, events

retrievalVars == <<scope, provenance, selected, _clock, retrievalStores, call, faults>>
servingVars == <<retrievalVars, ranking, superseded, grounding, requests, events>>

ServingInit ==
    /\ RetrievalInit /\ RankingInit /\ GroundingInit
    /\ requests = 0 /\ events = 0

ClientIdle == /\ call.pc \in {"idle", "done"} /\ ranking.pc \in {"idle", "done"}
              /\ grounding.pc \in {"idle", "done"}

\* The cursors the client holds, and what becomes of one that is tampered with.
Cursors == cursors \cup {[c EXCEPT !.signed = FALSE] : c \in cursors}
InBounds == requests + events + faults < MaxTurns

\* A request of the client: a page of hits, a reranked handoff, or an answer from the last handoff,
\* asked with its own query and digest or with others.
Ask ==
    /\ ClientIdle /\ requests < MaxRequests /\ InBounds
    /\ requests' = requests + 1
    /\ \/ /\ \E req \in RetrievalRequests, cursor \in {Nothing} \cup Cursors : Retrieve("client", req, cursor)
          /\ ranking' = NoRanking /\ grounding' = NoGrounding /\ UNCHANGED faults
       \/ /\ \E p \in RankingPolicies, req \in RankingRequests, failure \in {"NONE", "FAILED", "TIMEOUT"} :
                Execute(p, req, failure)
          /\ grounding' = NoGrounding
    /\ UNCHANGED <<scope, provenance, selected, _clock, retrievalStores, superseded, events>>
AskAnswer ==
    /\ ClientIdle /\ grounding.pc = "idle"
    /\ \E req \in RankingRequests : GroundUnavailable(req.query) \/ \E bound \in BOOLEAN : Ground(req.query, bound)
    /\ UNCHANGED <<scope, provenance, selected, _clock, retrievalStores, call, ranking, superseded,
                   requests, events>>

Administer ==
    /\ events < MaxAdministrations /\ InBounds /\ events' = events + 1
    /\ \/ /\ \/ \E o \in Occurrences : RevokeOccurrence(o) \/ \E s \in DOMAIN provenance : ChangeProvenance(s, o)
             \/ \E b \in DOMAIN Bundles : SelectBundle(b)
             \/ Tick
          /\ UNCHANGED superseded
       \/ (\E o \in Occurrences : MarkSuperseded(o)) /\ UNCHANGED <<scope, provenance, selected, _clock>>
    /\ UNCHANGED <<retrievalStores, call, faults, ranking, grounding, requests>>

ServingNext ==
    \/ Ask \/ AskAnswer \/ Administer
    \/ RetrievalStep /\ UNCHANGED <<ranking, superseded, grounding, requests, events>>
    \/ RankingStep /\ UNCHANGED <<superseded, grounding, requests, events>>
    \/ GroundingStep /\ UNCHANGED <<requests, events>>
ServingSpec == ServingInit /\ [][ServingNext]_servingVars

-----------------------------------------------------------------------------
Hits(c) == IF "hits" \in DOMAIN c THEN ToSet(c.hits) ELSE {}
Cited(g) == IF g.pc = "done" THEN UNION {c.cites : c \in ToSet(g.released)} ELSE {}

\* Each release reads authorization and provenance with what it lets through, however old the
\* cache entry, cursor page, fused pool or handoff it comes from: the hits of a round, the final
\* recheck of a handoff, the claims of an answer.  A search that ends between two rounds shows
\* no more than its last round released, and that is all the code promises of it
\* (rag_authorized_retriever.release, the two currentness oracles; NothingStaleIsReleased).
ReleasesAreCurrent ==
    [][/\ call' # call => Hits(call') \subseteq IF call.pc = "round" THEN Hits(call)
                                               ELSE scope.allowed \cap provenance["retrieval"]
       /\ ranking'.pc = "done" /\ ranking' # ranking =>
            Hits(ranking') \subseteq scope.allowed \cap provenance["reranking"]
       /\ grounding' # grounding => Cited(grounding') \subseteq Current(Occurrences) \cap Hits(ranking)]_servingVars

\* What the documentation of day100 asks of every reply: grant and provenance are those of the
\* moment it leaves.  A search that the deadline or the budget ends before its next round replies
\* with hits of the last one, revoked since or not.
NothingStaleIsReleased ==
    [][call'.pc = "done" /\ call' # call =>
        Hits(call') \subseteq scope.allowed \cap provenance["retrieval"]]_servingVars

\* And of the bundle: a selection that changed during the retrieval rejects the response.  The
\* code reads the selected bundle once, at the beginning.
ChangedSelectionIsRejected ==
    [][call'.pc = "done" /\ call' # call /\ Hits(call') # {} => call'.bundle = selected]_servingVars

\* A search that calls itself exhausted left nothing out: with fewer hits than asked for, and an
\* authorization that did not change meanwhile, no authorized, matching record of the bundle's
\* chunk set whose provenance is current is missing (retrieve, the refill loop and its offsets).
WholeSearchIsComplete ==
    [][call'.pc = "done" /\ call' # call /\ call'.whole =>
        {o \in scope.allowed \cap provenance["retrieval"] \cap Matching(call'.req.filter) :
            Records[o].tenant = Tenant /\ Records[o].chunkSet = Bundles[call'.bundle].chunkSet}
        \subseteq Hits(call')]_servingVars

\* An answer that calls itself FULL answers every item, from a handoff labeled FULL, and grounding
\* it met no failure, not even one a fallback stood in for (rag_grounding_orchestrator.execute's
\* classification).  What the label of the handoff hides is not said here.
FullAnswerIsGrounded ==
    grounding.pc = "done" /\ grounding.outcome = "FULL" =>
        /\ grounding.handoff.outcome = "FULL" /\ grounding.clean
        /\ Answered(grounding.released) = Items

\* No partial result falsely labeled FULL passes day101: behind a FULL answer every variant was
\* searched completely.  Day101 does not look at the outcome of a variant that was not lost.
FullAnswerIsUndegraded ==
    grounding.pc = "done" /\ grounding.outcome = "FULL" => ~grounding.handoff.partial
=============================================================================
