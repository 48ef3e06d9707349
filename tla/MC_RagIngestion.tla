-------------------------- MODULE MC_RagIngestion --------------------------
(* Two versions of one document, and an upload that is not admitted.        *)
EXTENDS RagIngestion, TLC

CONSTANTS a1, a2

Text(size) == [content |-> "text", declared |-> "plain", size |-> size, expectedSize |-> size,
               safeName |-> TRUE, checksumMatches |-> TRUE]
MCIntakes ==
    {[op |-> "o1", doc |-> "d", ver |-> "v1", source |-> "s1", key |-> "k1", contract |-> "c", request |-> "r1", upload |-> Text(1)],
     [op |-> "o2", doc |-> "d", ver |-> "v2", source |-> "s2", key |-> "k2", contract |-> "c", request |-> "r1", upload |-> Text(2)],
     [op |-> "o4", doc |-> "d", ver |-> "v4", source |-> "s4", key |-> "k4", contract |-> "c", request |-> "r1",
      upload |-> [Text(1) EXCEPT !.content = "pdf"]]}
MCActors == {a1, a2}
ActorSymmetry == Permutations(MCActors)
=============================================================================
