----------------------- MODULE MC_RagChunkPublication -----------------------
(***************************************************************************)
(* A chunk set from the text to the pointer: RagChunks cuts the text of a  *)
(* version, and what it generates to the end and the validator accepts is  *)
(* the candidate RagPublication persists, selects and describes.  Cutting  *)
(* is a pure function of text and contract, so doing it ahead of the claim *)
(* gives the candidate the orchestrator would form after it.               *)
(*                                                                         *)
(* Every text of up to MaxLength prose symbols, and a few with tables and  *)
(* code, cut under contracts of every strategy, policy and normalisation;  *)
(* one of the results is published, for a document with a chunk set of     *)
(* each of its two versions and two metadata operations, with candidates   *)
(* the metadata validator accepts and refuses.                             *)
(***************************************************************************)
EXTENDS RagChunks, RagPublication, TLC

CONSTANT Published               \* bound: the <<text, contract>> that are published

CutInit == ChunkingInit /\ Init

\* RAGChunkingOrchestrator.run commits a validated candidate only.
ReadyForCommit ==
    /\ status = "READY" /\ <<text, contract>> \in Published
    /\ Validate(text, contract, chunks) = "READY_FOR_COMMIT"

CutNext == \/ ChunkingNext /\ UNCHANGED vars
           \/ ReadyForCommit /\ Next /\ UNCHANGED chunkingVars
CutSpec == CutInit /\ [][CutNext]_<<chunkingVars, vars>>

-----------------------------------------------------------------------------
\* The instance.

CONSTANTS MaxLength

NoTouchingWords(t) == \A i \in 1 .. Len(t) - 1 : ~(t[i] = "w" /\ t[i + 1] = "w")
Prose == {t \in UNION {[1 .. n -> {"w", ".", " ", "n", "#"}] : n \in 0 .. MaxLength} : NoTouchingWords(t)}
Structured ==
    {<<"#", "w", "n", "|", "w", "n", "|", ".", "n", "|", "w", "n", "w">>,
     <<"#", "n", "|", "w", "n", "|", "w", "n", "w", ".", "n", "n", "#", "w", "n", "w">>,
     <<"q", "q", "q", "n", "w", "n", "w", " ", "w", "n", "q", "q", "q", "n", "w", ".">>,
     <<"w", " ", " ", " ", "w", " ", " ", ".", " ", " ", "w", " ", "w", ".", "n", "n", "w">>,
     <<"|", "w", "n", "|", "w", "n", "#", "w", "n", "n", "w", ".", " ", " ", "w", " ", "w", "n">>}
MCTexts == Prose \cup Structured

Base == [strategy |-> "recursive", normalization |-> "identity", policy |-> "fail-closed",
         soft |-> 2, hard |-> 3, useful |-> 1, overlap |-> 1,
         maxChunks |-> 20, maxInput |-> 20, maxOutput |-> 60, maxWork |-> 80, maxMemory |-> 1000]
MCContracts ==
    {Base,
     [Base EXCEPT !.strategy = "fixed-token", !.normalization = "collapse", !.useful = 2],
     [Base EXCEPT !.policy = "fallback", !.normalization = "collapse"],
     [Base EXCEPT !.normalization = "collapse", !.overlap = 0],
     [Base EXCEPT !.strategy = "section-aware", !.policy = "fallback", !.soft = 4, !.hard = 6, !.useful = 2],
     [Base EXCEPT !.strategy = "section-aware", !.normalization = "collapse", !.soft = 5, !.hard = 8, !.overlap = 2],
     [Base EXCEPT !.maxChunks = 2, !.maxInput = 4, !.maxOutput = 4, !.maxWork = 8, !.maxMemory = 150]}

MCPublished == {<< <<"w", ".", "w">>, Base>>}

CONSTANTS w1, w2

MCDocumentOf == [v \in Versions |-> "d"]
MCVersionOf == [s \in ChunkSets |-> IF s = "s2" THEN "v2" ELSE "v1"]
MCChunkRequests == {[op |-> "c1", key |-> "k1", set |-> "s1"],
                    [op |-> "c2", key |-> "k2", set |-> "s2"]}
MCMetadataOps == {[op |-> "m1", key |-> "j1"], [op |-> "m2", key |-> "j2"]}
Attempt(n, by) == [n |-> n, by |-> by]
MCAttemptsOf == [o \in {"c1", "c2", "m1", "m2"} |->
    IF o \in {"c1", "m1"} THEN {Attempt(1, "r1"), Attempt(2, "r1"), Attempt(2, "r2")}
    ELSE {Attempt(1, "r1")}]
MCFields == "lang" :> [origins |-> {"source"}, type |-> "text"]
Assertion(name, origin, type) == [name |-> name, origin |-> origin, type |-> type]
MCCandidates == {<<Assertion("lang", "source", "text"), Assertion("lang", "source", "text")>>,
                 <<Assertion("tenant_id", "source", "text")>>}
MCWorkers == {w1, w2}
Symmetry == Permutations(MCWorkers)
=============================================================================
