---------------------------- MODULE RagPublication ----------------------------
(***************************************************************************)
(* From an active document version to a published chunk set and metadata   *)
(* snapshot (day96, day97), for one document whose head moves as           *)
(* RagDocument says.  ChunkSetCommitter claims, persists and selects under *)
(* the locks of both stores; MetadataCommitter reads the provenance of the *)
(* selection under those locks, lets go of them, and writes under its own. *)
(* Workers run the orchestrators and the selection call, and may die       *)
(* anywhere.  A chunk set is named by its result key.                      *)
(***************************************************************************)
EXTENDS RagDocument, RagClaims, Sequences, FiniteSets, FirstMatch

CONSTANTS Workers,
          ChunkSets, VersionOf,      \* the version a chunk set was cut from
          ChunkRequests,             \* ChunkingOperationIdentity: [op, key, set]
          MetadataOps,               \* MetadataProjectionOperation: [op, key]
          Candidates,                \* metadata candidates: sequences of assertions
          Fields,                    \* MetadataContract: [name -> [origins, type]]
          AuthorityNames,
          AttemptsOf,                \* bound: the attempts tried on each operation, [n, by]
          MaxRevision,               \* bound on the changes of one head
          MaxSelections              \* bound on selections of the document

Document == CHOOSE d \in Documents : TRUE

ASSUME PublicationAssumption == /\ Documents # {} /\ VersionOf \in [ChunkSets -> Versions]
                                /\ None \notin ChunkSets \cup Workers
                                /\ {MaxRevision, MaxSelections} \subseteq Nat
                                /\ \A r \in ChunkRequests : r.set \in ChunkSets
                                /\ None \notin [set : ChunkSets, selectionRev : Nat, documentRev : Nat]

VARIABLES chunkOperations, chunkKeys, chunkClaims,       \* InMemoryChunkSetStore
          sets, selection, chunkOutbox,
          metadataOperations, metadataKeys, metadataClaims,   \* InMemoryMetadataStore
          snapshots, pointers, metadataOutbox, applied,
          metadataLock,                                  \* the worker inside MetadataCommitter.persist
          worker                                         \* what each worker is doing

chunkVars == <<chunkOperations, chunkKeys, chunkClaims, sets, selection, chunkOutbox>>
metadataVars == <<metadataOperations, metadataKeys, metadataClaims, snapshots, pointers,
                  metadataOutbox, applied>>
vars == <<documentVars, chunkVars, metadataVars, metadataLock, worker>>

\* MetadataProjectionOperation, as a caller forms it: the version and the expected selection,
\* document and snapshot revisions are in the binding and the expected pointer.
MetadataOperation(m, binding, expected) ==
    [op |-> m.op, key |-> m.key, binding |-> binding, expected |-> expected]

Idle == [pc |-> "idle"]
NoSelection == [set |-> None, rev |-> 0]
NoPointer == [snapshot |-> None, rev |-> 0]

Init ==
    /\ DocumentInit
    /\ chunkOperations = EmptyTable /\ chunkKeys = EmptyTable /\ chunkClaims = EmptyTable
    /\ sets = {} /\ selection = NoSelection /\ chunkOutbox = {}
    /\ metadataOperations = EmptyTable /\ metadataKeys = EmptyTable /\ metadataClaims = EmptyTable
    /\ snapshots = {} /\ pointers = [s \in ChunkSets |-> NoPointer]
    /\ metadataOutbox = {} /\ applied = {}
    /\ metadataLock = None /\ worker = [a \in Workers |-> Idle]

\* evaluate_day96_chunking_eligibility: an active head names an active version whose ingestion
\* completed (RagIngestion!HeadNamesTheActiveVersion).
Eligible(v) == head[Document].state = "ACTIVE" /\ head[Document].active = v

\* The Day95 bindings of a candidate, which ChunkSetCandidateValidator.evaluate checks before its
\* chunks (RagChunks!Validate) and ChunkSetCommitter.persist checks again under the locks.
InputIsCurrent(set) == Eligible(VersionOf[set])

\* CurrentRAGProvenanceValidator.evaluate, under the locks of both stores: the selected set,
\* when its version is the active one.  The artifacts are immutable and were checked before
\* they were stored.
Provenance ==
    IF selection.set # None /\ Eligible(VersionOf[selection.set])
    THEN [set |-> selection.set, selectionRev |-> selection.rev, documentRev |-> head[Document].rev]
    ELSE None

Become(a, record) == worker' = [worker EXCEPT ![a] = record]
Rest(a) == Become(a, Idle)

-----------------------------------------------------------------------------
\* ChunkSetCommitter.claim.
ChunkClaim(r, t) ==
    /\ ClaimAccepted(chunkOperations, chunkKeys, chunkClaims, r, t)
    /\ chunkOperations' = Put(chunkOperations, r.op, r)
    /\ chunkKeys' = Put(chunkKeys, r.key, r.op)
    /\ chunkClaims' = Put(chunkClaims, r.op, t)

\* RAGChunkingOrchestrator.run as far as the candidate.  A cancelled, unadmitted, mismatched or
\* refused request changes nothing; what run reads before the claim, the claim reads again
\* under the locks.  The generation may fail.
ChunkRun(a) ==
    /\ worker[a] = Idle
    /\ \E r \in ChunkRequests : \E t \in AttemptsOf[r.op] :
        /\ Eligible(VersionOf[r.set]) /\ ChunkClaim(r, t)
        /\ \/ Become(a, [pc |-> "chunk_persist", request |-> r, attempt |-> t])
           \/ UNCHANGED worker
    /\ UNCHANGED <<documentVars, sets, selection, chunkOutbox, metadataVars, metadataLock>>

\* The claim a caller holds is still the stored one.
ClaimIsCurrent(op, t) == Holds(chunkClaims, op, t)

\* ChunkSetCommitter.persist: the first result of a key is inserted, the same one found again.
ChunkPersist(a) ==
    LET r == worker[a].request IN
    /\ worker[a].pc = "chunk_persist"
    /\ sets' = IF ClaimIsCurrent(r.op, worker[a].attempt) /\ InputIsCurrent(r.set)
               THEN sets \cup {r.set} ELSE sets
    /\ Rest(a)
    /\ UNCHANGED <<documentVars, chunkOperations, chunkKeys, chunkClaims, selection, chunkOutbox,
                   metadataVars, metadataLock>>

\* A caller reads the claim, the selection and the head it will expect.
SelectRead(a) ==
    /\ worker[a] = Idle
    /\ \E o \in DOMAIN chunkClaims :
        /\ chunkOperations[o].set \in sets
        /\ Become(a, [pc |-> "select", request |-> chunkOperations[o], attempt |-> chunkClaims[o],
                      expected |-> selection, documentRev |-> head[Document].rev])
    /\ UNCHANGED <<documentVars, chunkVars, metadataVars, metadataLock>>

\* Mutant: the expected baseline is not compared.
AnyBaseline(current, expected) == TRUE

\* The selection baseline: the id and the revision the caller read.
BaselineHolds(current, expected) == current = expected

\* Mutant: a selection that replaces another keeps its revision.
KeepsRevision(set) == [set |-> set, rev |-> IF selection.rev = 0 THEN 1 ELSE selection.rev]

\* The selection that follows the current one.
NewSelection(set) == [set |-> set, rev |-> selection.rev + 1]

\* ChunkSetCommitter.select: the pointer and its outbox intent in one step (nothing reads the
\* dispatched flag that mark_outbox_dispatched sets).
Select(a) ==
    LET r == worker[a].request
        outcome == FirstMatch(<<
            <<~ClaimIsCurrent(r.op, worker[a].attempt),                         "STALE_ATTEMPT">>,
            <<~Eligible(VersionOf[r.set]) \/ head[Document].rev # worker[a].documentRev,
                                                                                "STALE_DAY95_INPUT">>,
            <<selection.set = r.set,                                            "ALREADY_SELECTED">>,
            <<~BaselineHolds(selection, worker[a].expected),                    "STALE_SELECTION">>,
            <<TRUE,                                                             "SELECTED">> >>)
    IN  /\ worker[a].pc = "select" /\ selection.rev < MaxSelections
        /\ IF outcome = "SELECTED"
           THEN /\ selection' = NewSelection(r.set)
                /\ chunkOutbox' = chunkOutbox \cup {NewSelection(r.set)}
           ELSE UNCHANGED <<selection, chunkOutbox>>
        /\ Rest(a)
        /\ UNCHANGED <<documentVars, chunkOperations, chunkKeys, chunkClaims, sets, metadataVars, metadataLock>>

-----------------------------------------------------------------------------
\* MetadataCandidateValidator.evaluate over the assertions of a candidate.
MetadataValid(candidate) ==
    /\ \A i \in DOMAIN candidate :
        LET x == candidate[i] IN
        /\ x.name \notin AuthorityNames
        /\ x.name \in DOMAIN Fields
        /\ x.origin \in Fields[x.name].origins
        /\ x.type = Fields[x.name].type
    /\ \A i, j \in DOMAIN candidate : candidate[i].name = candidate[j].name => candidate[i] = candidate[j]
\* The accepted candidate: one assertion per name, in order.
Accepted(candidate) == {candidate[i] : i \in DOMAIN candidate}

\* _operation_matches_current.
OperationMatchesCurrent(operation) == Provenance = operation.binding

\* A caller forms the operation from what it reads; claim first compares it with the current
\* provenance, before it takes its own lock.
MetadataRun(a) ==
    /\ worker[a] = Idle /\ Provenance # None
    /\ \E m \in MetadataOps : \E t \in AttemptsOf[m.op] :
        LET formed == MetadataOperation(m, Provenance, pointers[Provenance.set])
        IN  \E operation \in {formed} \cup {metadataOperations[o] : o \in DOMAIN metadataOperations \cap {m.op}} :
            /\ OperationMatchesCurrent(operation)
            /\ Become(a, [pc |-> "metadata_claim", request |-> operation, attempt |-> t])
    /\ UNCHANGED <<documentVars, chunkVars, metadataVars, metadataLock>>

\* MetadataCommitter.claim under its lock, then projection and validation.
MetadataClaim(a) ==
    LET r == worker[a].request  t == worker[a].attempt IN
    /\ worker[a].pc = "metadata_claim" /\ metadataLock = None
    /\ IF ClaimAccepted(metadataOperations, metadataKeys, metadataClaims, r, t)
       THEN /\ metadataOperations' = Put(metadataOperations, r.op, r)
            /\ metadataKeys' = Put(metadataKeys, r.key, r.op)
            /\ metadataClaims' = Put(metadataClaims, r.op, t)
            /\ \E c \in Candidates :
                IF MetadataValid(c)
                THEN Become(a, [pc |-> "metadata_persist", request |-> r, attempt |-> t, assertions |-> Accepted(c)])
                ELSE Rest(a)
       ELSE Rest(a) /\ UNCHANGED <<metadataOperations, metadataKeys, metadataClaims>>
    /\ UNCHANGED <<documentVars, chunkVars, snapshots, pointers, metadataOutbox, applied, metadataLock>>

\* MetadataCommitter.persist takes its lock, checks the attempt and reads the provenance.
MetadataCheck(a) ==
    LET r == worker[a].request IN
    /\ worker[a].pc = "metadata_persist" /\ metadataLock = None
    /\ IF Holds(metadataClaims, r.op, worker[a].attempt) /\ OperationMatchesCurrent(r)
       THEN metadataLock' = a /\ Become(a, [worker[a] EXCEPT !.pc = "metadata_write"])
       ELSE Rest(a) /\ UNCHANGED metadataLock
    /\ UNCHANGED <<documentVars, chunkVars, metadataVars>>

SnapshotsOf(op) == {s \in snapshots : s.op = op}

\* The rest of persist: an earlier result of the operation is found again, the pointer must
\* still be the expected one, snapshot, pointer and intent are written together.
MetadataWrite(a) ==
    LET r == worker[a].request
        set == r.binding.set
        outcome == FirstMatch(<<
            <<SnapshotsOf(r.op) # {},                        "ALREADY_COMMITTED or IDENTITY_CONFLICT">>,
            <<~BaselineHolds(pointers[set], r.expected),     "STALE_POINTER">>,
            <<TRUE,                                          "COMMITTED">> >>)
        snapshot == [op |-> r.op, binding |-> r.binding, assertions |-> worker[a].assertions]
        pointer == [snapshot |-> snapshot, rev |-> pointers[set].rev + 1]
    IN  /\ worker[a].pc = "metadata_write"
        /\ metadataLock' = None /\ Rest(a)
        /\ IF outcome = "COMMITTED"
           THEN /\ snapshots' = snapshots \cup {snapshot}
                /\ pointers' = [pointers EXCEPT ![set] = pointer]
                /\ metadataOutbox' = metadataOutbox \cup {[set |-> set, pointer |-> pointer]}
           ELSE UNCHANGED <<snapshots, pointers, metadataOutbox>>
        /\ UNCHANGED <<documentVars, chunkVars, metadataOperations, metadataKeys, metadataClaims, applied>>

\* Mutant: a refresh is applied whatever the pointer says now.
AnyRefresh(i) == i.set \in ChunkSets

\* The intent still describes the current pointer.
RefreshIsCurrent(i) == pointers[i.set] = i.pointer

\* apply_refresh: a delivery is a hint; duplicates and stale ones have no effect.
ApplyRefresh ==
    /\ metadataLock = None
    /\ \E i \in metadataOutbox \ applied : RefreshIsCurrent(i) /\ applied' = applied \cup {i}
    /\ UNCHANGED <<documentVars, chunkVars, metadataOperations, metadataKeys, metadataClaims, snapshots,
                   pointers, metadataOutbox, metadataLock, worker>>

-----------------------------------------------------------------------------
\* The ingestion side moves the head, but not while a step above holds its lock.
DocumentStep == /\ DocumentNext /\ \A d \in Documents : head'[d].rev <= MaxRevision
                /\ UNCHANGED <<chunkVars, metadataVars, metadataLock, worker>>

\* A worker dies; its locks go with its call.
Crash(a) ==
    /\ worker[a] # Idle /\ Rest(a)
    /\ metadataLock' = IF metadataLock = a THEN None ELSE metadataLock
    /\ UNCHANGED <<documentVars, chunkVars, metadataVars>>

Next == \/ DocumentStep \/ ApplyRefresh
        \/ \E a \in Workers : \/ ChunkRun(a) \/ ChunkPersist(a) \/ SelectRead(a) \/ Select(a)
                              \/ MetadataRun(a) \/ MetadataClaim(a) \/ MetadataCheck(a) \/ MetadataWrite(a)
                              \/ Crash(a)
Spec == Init /\ [][Next]_vars
-----------------------------------------------------------------------------
\* No lost metadata update.  persist compares the pointer with the baseline the operation was
\* formed from, so the snapshots of a chunk set form one chain: its pointer counts them, no
\* baseline is extended twice, and a later snapshot never binds an older selection or head.
SnapshotsFormAChain ==
    \A s \in ChunkSets :
        LET chain == {x \in snapshots : x.binding.set = s}
            Baseline(x) == metadataOperations[x.op].expected.rev
        IN  /\ pointers[s].rev = Cardinality(chain)
            /\ \A x, y \in chain : x # y =>
                /\ Baseline(x) # Baseline(y)
                /\ Baseline(x) < Baseline(y) =>
                    /\ x.binding.selectionRev <= y.binding.selectionRev
                    /\ x.binding.documentRev <= y.binding.documentRev

\* Refresh events are delivered in any order and more than once; apply_refresh rereads the
\* pointer, so an effect is never followed by that of an older revision of the same set.
RefreshesInOrder ==
    [][\A i \in applied' \ applied : \A j \in applied :
            i.set = j.set => i.pointer.rev > j.pointer.rev]_vars

\* The stages behind a publication hold bindings for a long time.  What is current changes only
\* under a new revision, so that a binding once withdrawn or replaced is never current again,
\* although the head and the selection move separately and come back to earlier values.
CurrentBinding == IF Provenance = None THEN None
                  ELSE [set |-> Provenance.set, rev |-> Provenance.selectionRev + Provenance.documentRev]
CurrentRevision == head[Document].rev + selection.rev
P == INSTANCE RagProvenance WITH
        binding <- CurrentBinding, revision <- CurrentRevision,
        MaxBindings <- MaxRevision + MaxSelections + 1
ImplementsProvenance == P!ProvenanceSpec
==============================================================================
