---------------------------- MODULE RagProvenance ----------------------------
(***************************************************************************)
(* What CurrentRAGProvenanceValidator promises the stages that read a      *)
(* published document (day97 and later): at most one chunk set is current, *)
(* and a binding that stopped being current never is current again, since  *)
(* the selection revision and the document's revision only grow.           *)
(* RagPublication implements this module.                                  *)
(***************************************************************************)
EXTENDS Integers

CONSTANTS ChunkSets, None,
          MaxBindings            \* bound on the changes of the binding

VARIABLES binding,               \* CurrentRAGBinding: [set, rev], or None
          revision               \* selection and document revisions together

provenanceVars == <<binding, revision>>

ProvenanceInit == binding = None /\ revision = 0

Publish(s) ==
    /\ revision < MaxBindings
    /\ revision' = revision + 1 /\ binding' = [set |-> s, rev |-> revision']

Withdraw ==
    /\ revision < MaxBindings
    /\ revision' = revision + 1 /\ binding' = None

ProvenanceNext == Withdraw \/ \E s \in ChunkSets : Publish(s)
ProvenanceSpec == ProvenanceInit /\ [][ProvenanceNext]_provenanceVars
==============================================================================
