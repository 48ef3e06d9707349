---------------------------- MODULE MC_RagRelease ----------------------------
(***************************************************************************)
(* TLC instance of the two places where text leaves the system: to an      *)
(* embedding provider (RagEmbedding) and to the client (MC_RagServing).    *)
(* They share no state, so each runs while the other rests where it began. *)
(*                                                                         *)
(* Embedding: one set of two chunks; policies with a grant above, with     *)
(* grants on chunks only, and with a deny; contracts that need one batch,  *)
(* two for the tokens or the bytes, or refuse a chunk.                     *)
(***************************************************************************)
EXTENDS RagEmbedding, MC_RagServing

Entry(id, effect, resource) == [id |-> id, effect |-> effect, resource |-> resource, action |-> "embed"]
OnDocument == Entry("g", "ALLOW", <<"tenant", "document">>)
MCPolicies == {{OnDocument},
               {Entry("d", "DENY", <<"tenant", "document", "s1", "c2">>),
                Entry("g1", "ALLOW", <<"tenant", "document", "s1", "c1">>),
                Entry("g2", "ALLOW", <<"tenant", "document", "s1", "c2">>)}}
MCEmbedRequests == {[action |-> "embed", set |-> "s1", chunks |-> <<"c1", "c2">>]}
MCChunksOf == "s1" :> {"c1", "c2"}
ContractOf(hardMax, maxTokens, maxBytes) ==
    [hardMax |-> hardMax, maxItems |-> 2, maxTokens |-> maxTokens, maxBytes |-> maxBytes,
     role |-> "DOCUMENT", hosted |-> FALSE, egress |-> FALSE]
MCContracts == "e1" :> ContractOf(2, 3, 9) @@ "e2" :> ContractOf(2, 2, 9) @@ "e3" :> ContractOf(1, 2, 9)
            @@ "e4" :> ContractOf(2, 3, 8)
MCTokensOf == "c1" :> 1 @@ "c2" :> 2
MCBytesOf == "c1" :> 4 @@ "c2" :> 5
MCWeights == "quality" :> 60 @@ "cost" :> 40
Candidate(contract, order, gates, quality, cost) ==
    [contract |-> contract, order |-> order, gates |-> gates, scores |-> "quality" :> quality @@ "cost" :> cost]
MCEvidence == {{Candidate("e1", 1, {}, 2, 2), Candidate("e2", 3, {"TENANT_ISOLATION"}, 5, 5)},
               {Candidate("e1", 1, {}, 2, 2), Candidate("e2", 2, {}, 2, 2)},
               {Candidate("e3", 1, {}, 2, 2)}, {Candidate("e4", 1, {}, 2, 2)}}
MCEmbeddingRequests == {[op |-> "o1", key |-> "k1"]}
MCAttempts == {[n |-> 1, by |-> "r1"], [n |-> 2, by |-> "r2"]}

EmbeddingRests == Init /\ policy.entries = {OnDocument}
MCInit == Init /\ ServingInit
MCNext == \/ ServingInit /\ Next /\ UNCHANGED servingVars
          \/ EmbeddingRests /\ ServingNext /\ UNCHANGED vars
MCSpec == MCInit /\ [][MCNext]_<<vars, servingVars>>

Symmetry == Permutations(Workers)
=============================================================================
