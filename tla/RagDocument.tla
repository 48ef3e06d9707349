----------------------------- MODULE RagDocument -----------------------------
(***************************************************************************)
(* What the later stages can rely on about document heads (day95): a head  *)
(* points at a version only while it is active, every change of it         *)
(* advances its revision (state_version and fence_token move together),    *)
(* and a version is published at most once.  What they cannot rely on is   *)
(* that a withdrawn document stays withdrawn: Reactivate is an action of   *)
(* its own.  RagIngestion implements this module, and the later stages     *)
(* compose with it as the authority they read.                             *)
(***************************************************************************)
EXTENDS Integers

CONSTANTS Documents, Versions,
          DocumentOf,            \* the document of a version
          None

ASSUME DocumentAssumption == /\ DocumentOf \in [Versions -> Documents]
                             /\ None \notin Versions

VARIABLES head,                  \* DocumentHeadSnapshot of each document
          published              \* versions that carry publication facts

documentVars == <<head, published>>

DocumentHeadState == {"ABSENT", "REGISTERED", "ACTIVE", "TOMBSTONED"}
Absent == [state |-> "ABSENT", active |-> None, rev |-> 0]

\* A stored head: only an active document carries a pointer, and it must carry one.
DocumentHeadSnapshot ==
    {h \in [state : DocumentHeadState, active : Versions \cup {None}, rev : Nat] :
        (h.state = "ACTIVE") <=> (h.active # None)}

DocumentInit == head = [d \in Documents |-> Absent] /\ published = {}

Register(d) ==
    /\ head[d].state = "ABSENT"
    /\ head' = [head EXCEPT ![d].state = "REGISTERED"]
    /\ UNCHANGED published

Publish(v) ==
    /\ v \notin published
    /\ head' = [head EXCEPT ![DocumentOf[v]] = [state |-> "ACTIVE", active |-> v, rev |-> @.rev + 1]]
    /\ published' = published \cup {v}

Activate(v) == head[DocumentOf[v]].state \in {"REGISTERED", "ACTIVE"} /\ Publish(v)

Tombstone(d) ==
    /\ head[d].state \in {"REGISTERED", "ACTIVE"}
    /\ head' = [head EXCEPT ![d] = [state |-> "TOMBSTONED", active |-> None, rev |-> @.rev + 1]]
    /\ UNCHANGED published

\* Not a restore, which the code does not have: intake refuses a tombstoned document until
\* one is decided, but the commit of a version accepted before the tombstone does not look,
\* and makes the document active again (WithdrawalStands of RagIngestion).
Reactivate(v) == head[DocumentOf[v]].state = "TOMBSTONED" /\ Publish(v)

DocumentNext == \/ \E d \in Documents : Register(d) \/ Tombstone(d)
                \/ \E v \in Versions : Activate(v) \/ Reactivate(v)

DocumentSpec == DocumentInit /\ [][DocumentNext]_documentVars
==============================================================================
