------------------------------- MODULE MC_RagStores -------------------------------
(***************************************************************************)
(* TLC instance of the first and the last store of the RAG pipeline: the   *)
(* ingestion of MC_RagIngestion, and a vector index over two embedding     *)
(* sets of two points, with one contract for each (a batch per point or    *)
(* one for both) and two builds or activations.  They share no state, so   *)
(* each runs while the other rests where it began.                         *)
(***************************************************************************)
EXTENDS MC_RagIngestion, RagVectorIndex

CONSTANTS w1, w2

Point(id, vector) == [id |-> id, tenant |-> "tenant", vector |-> vector, payload |-> "own"]
MCPoints == "e1" :> <<Point(1, "x"), Point(2, "y")>> @@ "e2" :> <<Point(1, "y"), Point(2, "x")>>
MCSizes == <<1, 2>>
MCSimilarity == "x" :> ("x" :> 2 @@ "y" :> 1 @@ "negated" :> 0) @@ "y" :> ("x" :> 1 @@ "y" :> 2 @@ "negated" :> 0)
ContractOf(e, algorithm, bytes) ==
    [embedding |-> e, algorithm |-> algorithm, maxItems |-> 2, maxBytes |-> bytes]
MCContracts == "v1" :> ContractOf("e1", "FLAT", 2) @@ "v2" :> ContractOf("e2", "HNSW", 3)
MCPolicies == {[contract |-> "v1", parameter |-> "none"], [contract |-> "v2", parameter |-> "ef_search"]}
MCBuildRequests == {[op |-> "o1", key |-> "k1"]}
MCAttempts == {[n |-> 1, by |-> "r1"], [n |-> 2, by |-> "r2"]}
MCWorkers == {w1, w2}

StoresInit == Init /\ IndexInit
StoresNext == \/ IndexInit /\ Next /\ UNCHANGED indexVars
              \/ Init /\ IndexNext /\ UNCHANGED vars
StoresSpec == StoresInit /\ [][StoresNext]_<<vars, indexVars>>

Symmetry == ActorSymmetry \cup Permutations(MCWorkers)
==============================================================================
