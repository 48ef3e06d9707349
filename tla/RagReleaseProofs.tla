--------------------------- MODULE RagReleaseProofs ---------------------------
(***************************************************************************)
(* Proofs about what RAG publishes and what it releases: RagPublication,   *)
(* for any versions, chunk sets, workers and metadata operations, and that *)
(* it implements RagProvenance; and the grounding of RagServing, for any   *)
(* records, requests, policies, claims and faults.                         *)
(***************************************************************************)
EXTENDS RagPublication, RagServing, FiniteSetTheorems, TLAPS

Binding == [set : ChunkSets, selectionRev : Nat, documentRev : Nat]

\* The head is one RagDocument admits; the selection names a chunk set.
HeadInv == /\ head \in [Documents -> DocumentHeadSnapshot]
           /\ \A d \in Documents : head[d].rev <= MaxRevision
SelectionInv == selection \in [set : ChunkSets \cup {None}, rev : 0 .. MaxSelections]

\* What was claimed was requested.
ChunkInv == /\ DOMAIN chunkClaims \subseteq DOMAIN chunkOperations
            /\ \A o \in DOMAIN chunkOperations : chunkOperations[o] \in ChunkRequests

\* A metadata operation binds a publication and expects a pointer.
WellFormedOperation(q) == q.binding \in Binding /\ q.expected.rev \in Nat
OperationInv == \A o \in DOMAIN metadataOperations :
                    metadataOperations[o].op = o /\ WellFormedOperation(metadataOperations[o])
Registered(q) == q.op \in DOMAIN metadataOperations /\ metadataOperations[q.op] = q

\* A binding that is not behind any snapshot's.
Follows(b) == \A x \in snapshots : /\ x.binding.selectionRev <= b.selectionRev
                                   /\ x.binding.documentRev <= b.documentRev

\* A binding of revisions that have been reached.
Reached(b) == b.selectionRev <= selection.rev /\ b.documentRev <= head[Document].rev

\* Where a worker stands says what it relies on.  Only the holder of the lock is about to write,
\* and what it read under the lock is not behind any snapshot, though head and selection move.
WorkerInv ==
    /\ worker = [a \in Workers |-> worker[a]]
    /\ \A a \in Workers : LET w == worker[a] IN
        /\ w.pc = "select" => w.request \in ChunkRequests
        /\ w.pc = "metadata_claim" => WellFormedOperation(w.request)
        /\ w.pc \in {"metadata_persist", "metadata_write"} => Registered(w.request)
        /\ w.pc = "metadata_persist" =>
              w = [pc |-> "metadata_persist", request |-> w.request, attempt |-> w.attempt,
                   assertions |-> w.assertions]
        /\ w.pc = "metadata_write" => metadataLock = a /\ Follows(w.request.binding) /\ Reached(w.request.binding)

\* A snapshot is of one registered operation, extends a pointer that was, and binds nothing that
\* is yet to come.
Baseline(x) == metadataOperations[x.op].expected.rev
SnapshotInv ==
    /\ pointers = [s \in ChunkSets |-> pointers[s]]
    /\ \A s \in ChunkSets : pointers[s].rev \in Nat
    /\ IsFiniteSet(snapshots)
    /\ \A x \in snapshots :
        /\ x.op \in DOMAIN metadataOperations /\ metadataOperations[x.op].binding = x.binding
        /\ Baseline(x) < pointers[x.binding.set].rev
        /\ Reached(x.binding)
    /\ \A x, y \in snapshots : x.op = y.op => x = y

\* The pointer counts its snapshots, and they extend it one after the other.
ChainOf(s) == {x \in snapshots : x.binding.set = s}
InOrder(x, y) == /\ Baseline(x) # Baseline(y)
                 /\ Baseline(x) < Baseline(y) =>
                        /\ x.binding.selectionRev <= y.binding.selectionRev
                        /\ x.binding.documentRev <= y.binding.documentRev
ChainInv == \A s \in ChunkSets :
                /\ pointers[s].rev = Cardinality(ChainOf(s))
                /\ \A x, y \in ChainOf(s) : x # y => InOrder(x, y)

\* Intents announce pointers up to the current one, and none twice.
RefreshInv ==
    /\ applied \subseteq metadataOutbox
    /\ \A i \in metadataOutbox :
        /\ i = [set |-> i.set, pointer |-> i.pointer] /\ i.set \in ChunkSets
        /\ i.pointer.rev \in Nat /\ i.pointer.rev <= pointers[i.set].rev
        /\ i.pointer.rev = pointers[i.set].rev => i.pointer = pointers[i.set]

PublicationInv == /\ HeadInv /\ SelectionInv /\ ChunkInv /\ OperationInv
                  /\ WorkerInv /\ SnapshotInv /\ ChainInv /\ RefreshInv

-----------------------------------------------------------------------------
\* The empty stores satisfy the invariant.
LEMMA PublicationInit == Init => PublicationInv
<1> SUFFICES ASSUME Init PROVE PublicationInv
  OBVIOUS
<1> USE DEF Init
<1>1. HeadInv
  BY DocumentAssumption, PublicationAssumption
  DEF HeadInv, DocumentInit, Absent, DocumentHeadSnapshot, DocumentHeadState
<1>2. SelectionInv
  BY PublicationAssumption DEF SelectionInv, NoSelection
<1>3. ChunkInv /\ OperationInv
  BY DEF ChunkInv, OperationInv, EmptyTable
<1>4. WorkerInv
  BY DEF WorkerInv, Idle
<1>5. IsFiniteSet({}) /\ Cardinality({}) = 0
  BY FS_EmptySet
<1>6. SnapshotInv
  BY <1>5 DEF SnapshotInv, NoPointer
<1>7. ChainInv
  <2>1. \A s \in ChunkSets : ChainOf(s) = {}
    BY DEF ChainOf
  <2> QED
    BY <1>5, <2>1 DEF ChainInv, NoPointer
<1>8. RefreshInv
  BY DEF RefreshInv
<1> QED
  BY <1>1, <1>2, <1>3, <1>4, <1>6, <1>7, <1>8 DEF PublicationInv

-----------------------------------------------------------------------------
\* The document that is published is one of the documents.
LEMMA DocumentIsOne == Document \in Documents
BY PublicationAssumption DEF Document

\* What a worker does to its own record.
LEMMA Becomes ==
  ASSUME WorkerInv, NEW a \in Workers, NEW r, Become(a, r)
  PROVE  /\ worker' = [b \in Workers |-> worker'[b]]
         /\ worker'[a] = r /\ \A b \in Workers : b # a => worker'[b] = worker[b]
BY DEF WorkerInv, Become

\* Registered operations stay registered.
OperationsKept == /\ DOMAIN metadataOperations \subseteq DOMAIN metadataOperations'
                  /\ \A o \in DOMAIN metadataOperations : metadataOperations'[o] = metadataOperations[o]

\* What has been reached stays reached while head and selection move on.
Onward == \A b \in Binding : Reached(b) => Reached(b)'

LEMMA MovesOn ==
  ASSUME HeadInv, SelectionInv, HeadInv', SelectionInv',
         head'[Document].rev >= head[Document].rev, selection'.rev >= selection.rev
  PROVE  Onward
<1>1. /\ selection.rev \in Int /\ selection'.rev \in Int
      /\ head[Document].rev \in Int /\ head'[Document].rev \in Int
  BY DocumentIsOne, PublicationAssumption DEF SelectionInv, HeadInv, DocumentHeadSnapshot
<1> QED
  BY <1>1 DEF Onward, Reached, Binding

\* A worker that moves while the others stay where they are.
Suits(a, w) ==
    /\ w.pc = "select" => w.request \in ChunkRequests
    /\ w.pc = "metadata_claim" => WellFormedOperation(w.request)
    /\ w.pc \in {"metadata_persist", "metadata_write"} => Registered(w.request)
    /\ w.pc = "metadata_persist" =>
          w = [pc |-> "metadata_persist", request |-> w.request, attempt |-> w.attempt,
               assertions |-> w.assertions]
    /\ w.pc = "metadata_write" => metadataLock = a /\ Follows(w.request.binding) /\ Reached(w.request.binding)

LEMMA WorkerMoves ==
  ASSUME WorkerInv, OperationInv, Onward, NEW a \in Workers, NEW r, Become(a, r), Suits(a, r)',
         OperationsKept, snapshots' = snapshots \/ (worker[a].pc = "metadata_write" /\ metadataLock = a),
         metadataLock' = metadataLock \/ metadataLock \in {a, None}
  PROVE  WorkerInv'
<1>1. /\ worker' = [b \in Workers |-> worker'[b]]
      /\ worker'[a] = r /\ \A b \in Workers : b # a => worker'[b] = worker[b]
  BY Becomes
<1>2. ASSUME NEW b \in Workers, b # a PROVE Suits(b, worker[b])'
  <2>1. Suits(b, worker[b]) /\ worker'[b] = worker[b] /\ b # None
    BY <1>1, <1>2, PublicationAssumption DEF WorkerInv, Suits
  <2>2. worker[b].pc = "metadata_write" => snapshots' = snapshots /\ metadataLock' = metadataLock
    BY <1>2, <2>1 DEF Suits
  <2>3. worker[b].pc = "metadata_write" => Reached(worker[b].request.binding)'
    <3>1. worker[b].pc = "metadata_write" => /\ worker[b].request.binding \in Binding
                                             /\ Reached(worker[b].request.binding)
      BY <2>1 DEF Suits, Registered, OperationInv, WellFormedOperation
    <3> QED
      BY <2>1, <3>1 DEF Onward, Reached
  <2> QED
    BY <2>1, <2>2, <2>3 DEF Suits, Registered, OperationsKept, Follows, WellFormedOperation
<1>3. Suits(a, worker[a])'
  BY <1>1 DEF Suits, Registered, Follows, Reached, WellFormedOperation
<1> QED
  BY <1>1, <1>2, <1>3 DEF WorkerInv, Suits

\* The workers stay where they are.
LEMMA WorkersRest ==
  ASSUME PublicationInv, UNCHANGED <<metadataVars, metadataLock, worker>>, HeadInv', SelectionInv',
         head'[Document].rev >= head[Document].rev, selection'.rev >= selection.rev
  PROVE  WorkerInv'
<1>1. Onward
  BY MovesOn DEF PublicationInv
<1>2. ASSUME NEW a \in Workers PROVE Suits(a, worker[a])'
  <2>1. Suits(a, worker[a])
    BY DEF PublicationInv, WorkerInv, Suits
  <2>2. worker[a].pc = "metadata_write" => Reached(worker[a].request.binding)'
    <3>1. worker[a].pc = "metadata_write" => /\ worker[a].request.binding \in Binding
                                             /\ Reached(worker[a].request.binding)
      BY <2>1 DEF PublicationInv, Suits, Registered, OperationInv, WellFormedOperation
    <3> QED
      BY <1>1, <3>1 DEF Onward, Reached
  <2> QED
    BY <2>1, <2>2 DEF Suits, Registered, Follows, WellFormedOperation, metadataVars
<1> QED
  BY <1>2 DEF PublicationInv, WorkerInv, Suits

\* A worker that does not touch the metadata store moves to a record of its own.
LEMMA WorkerAlone ==
  ASSUME PublicationInv, NEW a \in Workers, NEW w, Become(a, w), Suits(a, w)', UNCHANGED <<metadataVars, metadataLock>>,
         HeadInv', SelectionInv', head'[Document].rev >= head[Document].rev, selection'.rev >= selection.rev
  PROVE  WorkerInv'
<1>1. OperationsKept
  BY DEF OperationsKept, metadataVars
<1>2. Onward
  BY MovesOn DEF PublicationInv
<1> QED
  BY <1>1, <1>2, WorkerMoves DEF PublicationInv, metadataVars

\* Nothing is said of an idle worker.
LEMMA IdleSuits == ASSUME NEW a PROVE Suits(a, Idle)'
BY DEF Suits, Idle

\* Snapshots bind revisions that are numbers.
LEMMA SnapshotBindings ==
  ASSUME OperationInv, SnapshotInv, NEW x \in snapshots
  PROVE  x.binding \in Binding /\ Baseline(x) \in Nat
BY DEF OperationInv, SnapshotInv, WellFormedOperation, Baseline

\* Head and selection may move on while the metadata store rests.
LEMMA MetadataRests ==
  ASSUME PublicationInv, UNCHANGED metadataVars, HeadInv', SelectionInv',
         head'[Document].rev >= head[Document].rev, selection'.rev >= selection.rev
  PROVE  OperationInv' /\ SnapshotInv' /\ ChainInv' /\ RefreshInv'
<1> USE DEF PublicationInv, metadataVars
<1>1. OperationInv'
  BY DEF OperationInv, WellFormedOperation
<1>2. ASSUME NEW x \in snapshots PROVE Reached(x.binding)'
  BY MovesOn, SnapshotBindings DEF Onward, SnapshotInv, Reached
<1>3. SnapshotInv'
  BY <1>2 DEF SnapshotInv, Baseline
<1>4. ChainInv'
  <2>1. \A s : ChainOf(s)' = ChainOf(s)
    BY DEF ChainOf
  <2>2. \A x, y : InOrder(x, y) => InOrder(x, y)'
    BY DEF InOrder, Baseline
  <2>3. \A s : Cardinality(ChainOf(s))' = Cardinality(ChainOf(s))
    BY <2>1
  <2> QED
    BY <2>1, <2>2, <2>3 DEF ChainInv
<1>5. RefreshInv'
  BY DEF RefreshInv
<1> QED
  BY <1>1, <1>3, <1>4, <1>5

\* The ingestion side moves a head as RagDocument says: its revision does not fall.
LEMMA HeadMoves ==
  ASSUME HeadInv, DocumentNext
  PROVE  head' \in [Documents -> DocumentHeadSnapshot] /\ head'[Document].rev >= head[Document].rev
<1> DEFINE Moves(d, h) == head' = [head EXCEPT ![d] = h] /\ h \in DocumentHeadSnapshot /\ h.rev >= head[d].rev
<1>1. ASSUME NEW d \in Documents, NEW h, Moves(d, h)
      PROVE  head' \in [Documents -> DocumentHeadSnapshot] /\ head'[Document].rev >= head[Document].rev
  <2>1. head' \in [Documents -> DocumentHeadSnapshot]
    BY <1>1 DEF HeadInv
  <2>2. head[Document].rev \in Nat
    BY DocumentIsOne DEF HeadInv, DocumentHeadSnapshot
  <2> QED
    BY <1>1, <2>1, <2>2, DocumentIsOne DEF HeadInv
<1>2. ASSUME NEW d \in Documents, Register(d) PROVE \E h : Moves(d, h)
  <2>1. head[d] \in DocumentHeadSnapshot
    BY DEF HeadInv
  <2> DEFINE h == [head[d] EXCEPT !.state = "REGISTERED"]
  <2>2. h \in DocumentHeadSnapshot /\ h.rev >= head[d].rev
    BY <1>2, <2>1 DEF DocumentHeadSnapshot, DocumentHeadState, Register
  <2>3. head' = [head EXCEPT ![d] = h]
    BY <1>2 DEF Register, HeadInv
  <2> QED
    BY <2>2, <2>3
<1>3. ASSUME NEW d \in Documents, Tombstone(d) PROVE \E h : Moves(d, h)
  <2>1. head[d].rev \in Nat
    BY DEF HeadInv, DocumentHeadSnapshot
  <2> DEFINE h == [state |-> "TOMBSTONED", active |-> None, rev |-> head[d].rev + 1]
  <2>2. h \in DocumentHeadSnapshot /\ h.rev >= head[d].rev
    BY <2>1 DEF DocumentHeadSnapshot, DocumentHeadState
  <2>3. head' = [head EXCEPT ![d] = h]
    BY <1>3 DEF Tombstone, HeadInv
  <2> QED
    BY <2>2, <2>3
<1>4. ASSUME NEW v \in Versions, Publish(v) PROVE DocumentOf[v] \in Documents /\ \E h : Moves(DocumentOf[v], h)
  <2> DEFINE d == DocumentOf[v]
             h == [state |-> "ACTIVE", active |-> v, rev |-> head[d].rev + 1]
  <2>1. d \in Documents /\ head[d].rev \in Nat /\ v # None
    BY DocumentAssumption DEF HeadInv, DocumentHeadSnapshot
  <2>2. h \in DocumentHeadSnapshot /\ h.rev >= head[d].rev
    BY <2>1 DEF DocumentHeadSnapshot, DocumentHeadState
  <2>3. head' = [head EXCEPT ![d] = h]
    BY <1>4, <2>1 DEF Publish, HeadInv
  <2> QED
    BY <2>1, <2>2, <2>3
<1> HIDE DEF Moves
<1> QED
  BY <1>1, <1>2, <1>3, <1>4 DEF DocumentNext, Activate, Reactivate

LEMMA HeadStep ==
  ASSUME PublicationInv, DocumentStep
  PROVE  PublicationInv'
<1>1. HeadInv' /\ head'[Document].rev >= head[Document].rev
  BY HeadMoves DEF PublicationInv, DocumentStep, HeadInv
<1>2. SelectionInv' /\ ChunkInv' /\ selection'.rev >= selection.rev
  BY PublicationAssumption DEF PublicationInv, DocumentStep, SelectionInv, ChunkInv, chunkVars
<1>3. WorkerInv'
  BY <1>1, <1>2, WorkersRest DEF PublicationInv, DocumentStep
<1>4. OperationInv' /\ SnapshotInv' /\ ChainInv' /\ RefreshInv'
  BY <1>1, <1>2, MetadataRests DEF DocumentStep
<1> QED
  BY <1>1, <1>2, <1>3, <1>4 DEF PublicationInv

-----------------------------------------------------------------------------
\* The steps of ChunkSetCommitter and its callers.
LEMMA ChunkRunStep ==
  ASSUME PublicationInv, NEW a \in Workers, ChunkRun(a)
  PROVE  PublicationInv'
<1> USE DEF PublicationInv
<1>1. PICK r \in ChunkRequests : \E t \in AttemptsOf[r.op] :
         /\ ChunkClaim(r, t)
         /\ Become(a, [pc |-> "chunk_persist", request |-> r, attempt |-> t]) \/ UNCHANGED worker
  BY DEF ChunkRun
<1>2. PICK t \in AttemptsOf[r.op] :
         /\ ChunkClaim(r, t)
         /\ Become(a, [pc |-> "chunk_persist", request |-> r, attempt |-> t]) \/ UNCHANGED worker
  BY <1>1
<1>3. ChunkInv'
  BY <1>2 DEF ChunkClaim, ChunkInv, Put
<1>4. HeadInv' /\ SelectionInv' /\ head'[Document].rev >= head[Document].rev /\ selection'.rev >= selection.rev
  BY DocumentIsOne, PublicationAssumption
  DEF ChunkRun, documentVars, HeadInv, SelectionInv, DocumentHeadSnapshot
<1>5. UNCHANGED <<metadataVars, metadataLock>>
  BY DEF ChunkRun
<1>6. OperationInv' /\ SnapshotInv' /\ ChainInv' /\ RefreshInv'
  BY <1>4, <1>5, MetadataRests
<1>7. WorkerInv'
  <2>1. CASE UNCHANGED worker
    BY <1>4, <1>5, <2>1, WorkersRest
  <2>2. CASE Become(a, [pc |-> "chunk_persist", request |-> r, attempt |-> t])
    <3> DEFINE w == [pc |-> "chunk_persist", request |-> r, attempt |-> t]
    <3>1. Suits(a, w)'
      BY DEF Suits
    <3> HIDE DEF w
    <3> QED
      BY <1>4, <1>5, <2>2, <3>1, WorkerAlone DEF w
  <2> QED
    BY <1>2, <2>1, <2>2
<1> QED
  BY <1>3, <1>4, <1>6, <1>7

LEMMA ChunkPersistStep ==
  ASSUME PublicationInv, NEW a \in Workers, ChunkPersist(a)
  PROVE  PublicationInv'
<1> USE DEF PublicationInv
<1>1. /\ ChunkInv' /\ HeadInv' /\ SelectionInv'
      /\ head'[Document].rev >= head[Document].rev /\ selection'.rev >= selection.rev
  BY DocumentIsOne, PublicationAssumption
  DEF ChunkPersist, documentVars, HeadInv, SelectionInv, DocumentHeadSnapshot, ChunkInv
<1>2. UNCHANGED <<metadataVars, metadataLock>> /\ Become(a, Idle)
  BY DEF ChunkPersist, Rest
<1>3. OperationInv' /\ SnapshotInv' /\ ChainInv' /\ RefreshInv'
  BY <1>1, <1>2, MetadataRests
<1>4. WorkerInv'
  BY <1>1, <1>2, IdleSuits, WorkerAlone
<1> QED
  BY <1>1, <1>3, <1>4

LEMMA SelectReadStep ==
  ASSUME PublicationInv, NEW a \in Workers, SelectRead(a)
  PROVE  PublicationInv'
<1> USE DEF PublicationInv
<1>1. /\ ChunkInv' /\ HeadInv' /\ SelectionInv'
      /\ head'[Document].rev >= head[Document].rev /\ selection'.rev >= selection.rev
  BY DocumentIsOne, PublicationAssumption
  DEF SelectRead, documentVars, chunkVars, HeadInv, SelectionInv, DocumentHeadSnapshot, ChunkInv
<1>2. PICK o \in DOMAIN chunkClaims :
         Become(a, [pc |-> "select", request |-> chunkOperations[o], attempt |-> chunkClaims[o],
                    expected |-> selection, documentRev |-> head[Document].rev])
  BY DEF SelectRead
<1>3. PICK w : /\ Become(a, w) /\ w.pc = "select" /\ w.request \in ChunkRequests
  BY <1>2 DEF ChunkInv
<1>4. UNCHANGED <<metadataVars, metadataLock>>
  BY DEF SelectRead
<1>5. OperationInv' /\ SnapshotInv' /\ ChainInv' /\ RefreshInv'
  BY <1>1, <1>4, MetadataRests
<1>6. WorkerInv'
  BY <1>1, <1>3, <1>4, WorkerAlone DEF Suits
<1> QED
  BY <1>1, <1>5, <1>6

\* Only a call whose every check passes selects.
LEMMA SelectedIsEligible ==
  ASSUME NEW a \in Workers, Select(a), selection' # selection
  PROVE  /\ Eligible(VersionOf[worker[a].request.set])
         /\ selection' = NewSelection(worker[a].request.set)
<1> DEFINE r == worker[a].request
           c1 == ~ClaimIsCurrent(r.op, worker[a].attempt)
           c2 == ~Eligible(VersionOf[r.set]) \/ head[Document].rev # worker[a].documentRev
           c3 == selection.set = r.set
           c4 == ~BaselineHolds(selection, worker[a].expected)
           rules == << <<c1, "STALE_ATTEMPT">>, <<c2, "STALE_DAY95_INPUT">>, <<c3, "ALREADY_SELECTED">>,
                       <<c4, "STALE_SELECTION">>, <<TRUE, "SELECTED">> >>
<1>1. FirstMatch(rules) = "SELECTED" /\ selection' = NewSelection(r.set)
  BY Zenon DEF Select
<1>2. c2 \in BOOLEAN
  OBVIOUS
<1> HIDE DEF c1, c2, c3, c4
<1>3. DOMAIN rules = 1 .. 5
  OBVIOUS
<1>4. /\ rules[1] = <<c1, "STALE_ATTEMPT">> /\ rules[2] = <<c2, "STALE_DAY95_INPUT">>
      /\ rules[3] = <<c3, "ALREADY_SELECTED">> /\ rules[4] = <<c4, "STALE_SELECTION">>
      /\ rules[5] = <<TRUE, "SELECTED">>
  OBVIOUS
<1> HIDE DEF rules
<1>5. rules[5][1] /\ FirstMatch(rules) = rules[5][2] /\ 5 \in Nat /\ 5 > 0 /\ 5 - 1 = 4
  BY <1>1, <1>4
<1>6. \A k \in 1 .. 4 : rules[k][2] # rules[5][2]
  BY <1>4
<1>7. \A k \in 1 .. 4 : ~rules[k][1]
  BY <1>5, <1>6, <1>3, LastRuleApplies
<1>8. ~c2
  BY <1>4, <1>7
<1> QED
  BY <1>1, <1>8 DEF c2

LEMMA SelectStep ==
  ASSUME PublicationInv, NEW a \in Workers, Select(a)
  PROVE  PublicationInv'
<1> USE DEF PublicationInv
<1>1. /\ UNCHANGED <<documentVars, metadataVars, metadataLock, chunkOperations, chunkClaims>> /\ Become(a, Idle)
      /\ worker[a].pc = "select" /\ selection.rev < MaxSelections
  BY DEF Select, Rest
<1>2. worker[a].request \in ChunkRequests
  BY <1>1 DEF WorkerInv
<1>3. SelectionInv' /\ selection'.rev >= selection.rev
  <2>1. CASE selection' = selection
    BY <2>1, PublicationAssumption DEF SelectionInv
  <2>2. CASE selection' # selection
    BY <1>1, <1>2, <2>2, SelectedIsEligible, PublicationAssumption DEF SelectionInv, NewSelection
  <2> QED
    BY <2>1, <2>2
<1>4. ChunkInv' /\ HeadInv' /\ head'[Document].rev >= head[Document].rev
  BY <1>1, DocumentIsOne DEF documentVars, HeadInv, DocumentHeadSnapshot, ChunkInv
<1>5. OperationInv' /\ SnapshotInv' /\ ChainInv' /\ RefreshInv'
  BY <1>1, <1>3, <1>4, MetadataRests
<1>6. WorkerInv'
  BY <1>1, <1>3, <1>4, IdleSuits, WorkerAlone
<1> QED
  BY <1>3, <1>4, <1>5, <1>6

-----------------------------------------------------------------------------
\* The steps of MetadataCommitter and its callers.

\* A published binding is made of what is current.
LEMMA ProvenanceIsCurrent ==
  ASSUME HeadInv, SelectionInv, Provenance # None
  PROVE  /\ Provenance \in Binding /\ Provenance.selectionRev = selection.rev
         /\ Provenance.documentRev = head[Document].rev
<1>1. Provenance = [set |-> selection.set, selectionRev |-> selection.rev, documentRev |-> head[Document].rev]
      /\ selection.set # None
  BY DEF Provenance
<1>2. selection.set \in ChunkSets /\ selection.rev \in Nat /\ head[Document].rev \in Nat
  BY <1>1, DocumentIsOne, PublicationAssumption DEF HeadInv, SelectionInv, DocumentHeadSnapshot
<1> QED
  BY <1>1, <1>2 DEF Binding

\* Steps that leave the chunk side and the heads alone.
LEMMA ChunkSideRests ==
  ASSUME PublicationInv, UNCHANGED <<documentVars, chunkVars>>
  PROVE  /\ HeadInv' /\ SelectionInv' /\ ChunkInv'
         /\ head'[Document].rev >= head[Document].rev /\ selection'.rev >= selection.rev
BY DocumentIsOne, PublicationAssumption
DEF PublicationInv, documentVars, chunkVars, HeadInv, SelectionInv, DocumentHeadSnapshot, ChunkInv

LEMMA MetadataRunStep ==
  ASSUME PublicationInv, NEW a \in Workers, MetadataRun(a)
  PROVE  PublicationInv'
<1> USE DEF PublicationInv
<1>1. UNCHANGED <<documentVars, chunkVars, metadataVars, metadataLock>> /\ Provenance # None
  BY DEF MetadataRun
<1>2. Provenance \in Binding
  BY <1>1, ProvenanceIsCurrent
<1>3. PICK m \in MetadataOps : \E t \in AttemptsOf[m.op] :
         \E q \in {MetadataOperation(m, Provenance, pointers[Provenance.set])}
                    \cup {metadataOperations[o] : o \in DOMAIN metadataOperations \cap {m.op}} :
             Become(a, [pc |-> "metadata_claim", request |-> q, attempt |-> t])
  BY DEF MetadataRun
<1>4. PICK t : \E q \in {MetadataOperation(m, Provenance, pointers[Provenance.set])}
                    \cup {metadataOperations[o] : o \in DOMAIN metadataOperations \cap {m.op}} :
             Become(a, [pc |-> "metadata_claim", request |-> q, attempt |-> t])
  BY <1>3
<1>5. PICK q \in {MetadataOperation(m, Provenance, pointers[Provenance.set])}
                    \cup {metadataOperations[o] : o \in DOMAIN metadataOperations \cap {m.op}} :
             Become(a, [pc |-> "metadata_claim", request |-> q, attempt |-> t])
  BY <1>4
<1>6. WellFormedOperation(q)
  <2>1. CASE q = MetadataOperation(m, Provenance, pointers[Provenance.set])
    <3>1. q.binding = Provenance /\ q.expected = pointers[Provenance.set]
      BY <2>1 DEF MetadataOperation
    <3> QED
      BY <1>2, <3>1 DEF WellFormedOperation, Binding, SnapshotInv
  <2>2. CASE \E o \in DOMAIN metadataOperations : q = metadataOperations[o]
    BY <2>2 DEF OperationInv
  <2> QED
    BY <2>1, <2>2
<1>7. PICK w : Become(a, w) /\ w.pc = "metadata_claim" /\ w.request = q
  BY <1>5
<1>8. Suits(a, w)'
  BY <1>6, <1>7 DEF Suits, WellFormedOperation
<1>9. WorkerInv'
  BY <1>1, <1>7, <1>8, ChunkSideRests, WorkerAlone
<1> QED
  BY <1>1, <1>9, ChunkSideRests, MetadataRests

\* A claim on an operation adds it to the table or finds it there.
LEMMA ClaimKeeps ==
  ASSUME PublicationInv, NEW r, WellFormedOperation(r), FreeOrSame(metadataOperations, r.op, r),
         metadataOperations' = Put(metadataOperations, r.op, r)
  PROVE  OperationsKept /\ OperationInv' /\ Registered(r)'
<1>1. /\ DOMAIN metadataOperations' = DOMAIN metadataOperations \cup {r.op}
      /\ \A o \in DOMAIN metadataOperations' :
            metadataOperations'[o] = IF o = r.op THEN r ELSE metadataOperations[o]
  BY DEF Put
<1>2. OperationsKept
  BY <1>1 DEF OperationsKept, FreeOrSame
<1>3. OperationInv'
  BY <1>1 DEF PublicationInv, OperationInv, WellFormedOperation
<1> QED
  BY <1>1, <1>2, <1>3 DEF Registered

\* More operations change nothing for the snapshots there are.
LEMMA OperationsGrow ==
  ASSUME PublicationInv, OperationsKept, UNCHANGED <<documentVars, chunkVars, snapshots, pointers>>
  PROVE  SnapshotInv' /\ ChainInv'
<1> USE DEF PublicationInv
<1>1. ASSUME NEW x \in snapshots
      PROVE  x.op \in DOMAIN metadataOperations' /\ metadataOperations'[x.op] = metadataOperations[x.op]
  BY DEF SnapshotInv, OperationsKept
<1>2. SnapshotInv'
  BY <1>1 DEF SnapshotInv, Baseline, Reached, documentVars, chunkVars
<1>3. \A s : ChainOf(s)' = ChainOf(s) /\ ChainOf(s) \subseteq snapshots
  BY DEF ChainOf
<1>4. \A x, y \in snapshots : InOrder(x, y) => InOrder(x, y)'
  BY <1>1 DEF InOrder, Baseline
<1>5. \A s : Cardinality(ChainOf(s))' = Cardinality(ChainOf(s))
  BY <1>3
<1>6. ChainInv'
  BY <1>3, <1>4, <1>5 DEF ChainInv
<1> QED
  BY <1>2, <1>6

LEMMA MetadataClaimStep ==
  ASSUME PublicationInv, NEW a \in Workers, MetadataClaim(a)
  PROVE  PublicationInv'
<1> USE DEF PublicationInv
<1>1. PICK r, t : r = worker[a].request /\ t = worker[a].attempt
  OBVIOUS
<1>2. /\ UNCHANGED <<documentVars, chunkVars, snapshots, pointers, metadataOutbox, applied, metadataLock>>
      /\ worker[a].pc = "metadata_claim"
  BY DEF MetadataClaim
<1>3. WellFormedOperation(r)
  BY <1>2, <1>1 DEF WorkerInv
<1>4. HeadInv' /\ SelectionInv' /\ ChunkInv'
  BY <1>2, ChunkSideRests
<1>5. Onward
  BY <1>2, ChunkSideRests, MovesOn
<1>6. RefreshInv'
  BY <1>2 DEF RefreshInv
<1>7. CASE ClaimAccepted(metadataOperations, metadataKeys, metadataClaims, r, t)
  <2>1. metadataOperations' = Put(metadataOperations, r.op, r)
    BY <1>7, <1>1 DEF MetadataClaim
  <2>2. FreeOrSame(metadataOperations, r.op, r)
    BY <1>7 DEF ClaimAccepted
  <2>3. OperationsKept /\ OperationInv' /\ Registered(r)'
    BY <1>3, <2>1, <2>2, ClaimKeeps
  <2>4. SnapshotInv' /\ ChainInv'
    BY <1>2, <2>3, OperationsGrow
  <2>5. \/ Become(a, Idle)
        \/ \E c \in Candidates :
              Become(a, [pc |-> "metadata_persist", request |-> r, attempt |-> t, assertions |-> Accepted(c)])
    BY <1>7, <1>1 DEF MetadataClaim, Rest
  <2>6. WorkerInv'
    <3>1. CASE Become(a, Idle)
      BY <1>2, <1>5, <2>3, <3>1, IdleSuits, WorkerMoves
    <3>2. ASSUME NEW c \in Candidates,
                 Become(a, [pc |-> "metadata_persist", request |-> r, attempt |-> t, assertions |-> Accepted(c)])
          PROVE  WorkerInv'
      <4>1. PICK k : k = Accepted(c)
        OBVIOUS
      <4>2. PICK w : w = [pc |-> "metadata_persist", request |-> r, attempt |-> t, assertions |-> k]
        OBVIOUS
      <4>3. /\ w.pc = "metadata_persist" /\ w.request = r
            /\ w = [pc |-> "metadata_persist", request |-> w.request, attempt |-> w.attempt,
                    assertions |-> w.assertions]
        BY <4>2
      <4>4. Suits(a, w)'
        BY <2>3, <4>3 DEF Suits, Registered
      <4>5. Become(a, w)
        BY <3>2, <4>1, <4>2
      <4> QED
        BY <1>2, <1>5, <2>3, <4>4, <4>5, WorkerMoves
    <3> QED
      BY <2>5, <3>1, <3>2
  <2> QED
    BY <1>4, <1>6, <2>3, <2>4, <2>6
<1>8. CASE ~ClaimAccepted(metadataOperations, metadataKeys, metadataClaims, r, t)
  <2>1. Become(a, Idle) /\ UNCHANGED <<metadataVars, metadataLock>>
    BY <1>2, <1>8, <1>1 DEF MetadataClaim, Rest, metadataVars
  <2>2. WorkerInv'
    BY <1>2, <2>1, IdleSuits, ChunkSideRests, WorkerAlone
  <2> QED
    BY <1>2, <2>1, <2>2, ChunkSideRests, MetadataRests
<1> QED
  BY <1>7, <1>8

LEMMA MetadataCheckStep ==
  ASSUME PublicationInv, NEW a \in Workers, MetadataCheck(a)
  PROVE  PublicationInv'
<1> USE DEF PublicationInv
<1>1. /\ UNCHANGED <<documentVars, chunkVars, metadataVars>>
      /\ worker[a].pc = "metadata_persist" /\ metadataLock = None
  BY DEF MetadataCheck
<1>2. PICK r : r = worker[a].request
  OBVIOUS
<1>3. /\ HeadInv' /\ SelectionInv' /\ ChunkInv' /\ OperationInv' /\ SnapshotInv' /\ ChainInv' /\ RefreshInv' /\ Onward
  BY <1>1, ChunkSideRests, MetadataRests, MovesOn
<1>4. OperationsKept
  BY <1>1 DEF OperationsKept, metadataVars
<1>5. Registered(r)
  BY <1>1, <1>2 DEF WorkerInv
<1>6. CASE OperationMatchesCurrent(r) /\ metadataLock' = a
           /\ Become(a, [worker[a] EXCEPT !.pc = "metadata_write"])
  <2>1. r.binding \in Binding
    BY <1>5 DEF Registered, OperationInv, WellFormedOperation
  <2>2. Provenance = r.binding /\ Provenance # None
    BY <1>6, <2>1, PublicationAssumption DEF OperationMatchesCurrent, Binding
  <2>3. r.binding.selectionRev = selection.rev /\ r.binding.documentRev = head[Document].rev
    BY <2>2, ProvenanceIsCurrent
  <2>4. Follows(r.binding)
    BY <2>3 DEF Follows, SnapshotInv, Reached
  <2>5. Reached(r.binding)
    BY <2>1, <2>3 DEF Reached, Binding
  <2>6. PICK w : w = [worker[a] EXCEPT !.pc = "metadata_write"]
    OBVIOUS
  <2>7. w.pc = "metadata_write" /\ w.request = r
    <3>1. worker[a] = [pc |-> "metadata_persist", request |-> r, attempt |-> worker[a].attempt,
                       assertions |-> worker[a].assertions]
      BY <1>1, <1>2 DEF WorkerInv
    <3> QED
      BY <2>6, <3>1
  <2>8. Reached(r.binding)'
    BY <1>3, <2>1, <2>5 DEF Onward
  <2>9. Suits(a, w)'
    BY <1>1, <1>5, <1>6, <2>4, <2>7, <2>8 DEF Suits, Registered, Follows, Reached, metadataVars
  <2> QED
    BY <1>1, <1>3, <1>4, <1>6, <2>6, <2>9, WorkerMoves DEF metadataVars
<1>7. CASE Become(a, Idle) /\ UNCHANGED metadataLock
  BY <1>1, <1>3, <1>4, <1>7, IdleSuits, WorkerMoves DEF metadataVars
<1> QED
  BY <1>2, <1>6, <1>7 DEF MetadataCheck, Rest

\* What persist writes when its checks pass: the first snapshot of the operation, on the pointer
\* the operation expects.
Committed(r, x, p) ==
    /\ SnapshotsOf(r.op) = {} /\ pointers[r.binding.set] = r.expected
    /\ x.op = r.op /\ x.binding = r.binding /\ p.rev = pointers[r.binding.set].rev + 1
    /\ snapshots' = snapshots \cup {x}
    /\ pointers' = [pointers EXCEPT ![r.binding.set] = p]
    /\ metadataOutbox' = metadataOutbox \cup {[set |-> r.binding.set, pointer |-> p]}

LEMMA WriteCommits ==
  ASSUME NEW a \in Workers, MetadataWrite(a)
  PROVE  UNCHANGED <<snapshots, pointers, metadataOutbox>> \/ \E x, p : Committed(worker[a].request, x, p)
<1> DEFINE r == worker[a].request
           x == [op |-> r.op, binding |-> r.binding, assertions |-> worker[a].assertions]
           p == [snapshot |-> x, rev |-> pointers[r.binding.set].rev + 1]
           c1 == SnapshotsOf(r.op) # {}
           c2 == ~BaselineHolds(pointers[r.binding.set], r.expected)
           found == "ALREADY_COMMITTED or IDENTITY_CONFLICT"
           rules == << <<c1, found>>, <<c2, "STALE_POINTER">>,
                       <<TRUE, "COMMITTED">> >>
<1>1. \/ UNCHANGED <<snapshots, pointers, metadataOutbox>>
      \/ /\ FirstMatch(rules) = "COMMITTED"
         /\ snapshots' = snapshots \cup {x} /\ pointers' = [pointers EXCEPT ![r.binding.set] = p]
         /\ metadataOutbox' = metadataOutbox \cup {[set |-> r.binding.set, pointer |-> p]}
  BY Zenon DEF MetadataWrite
<1>2. x.op = r.op /\ x.binding = r.binding /\ p.rev = pointers[r.binding.set].rev + 1
  OBVIOUS
<1>3. found # "COMMITTED"
  BY Zenon
<1> HIDE DEF c1, c2, x, p, found
<1>4. DOMAIN rules = 1 .. 3
  OBVIOUS
<1>5. /\ rules[1] = <<c1, found>> /\ rules[2] = <<c2, "STALE_POINTER">>
      /\ rules[3] = <<TRUE, "COMMITTED">>
  OBVIOUS
<1> HIDE DEF rules
<1>6. ASSUME FirstMatch(rules) = "COMMITTED" PROVE ~c1 /\ ~c2
  <2>1. rules[3][1] /\ FirstMatch(rules) = rules[3][2] /\ 3 \in Nat /\ 3 > 0 /\ 3 - 1 = 2
    BY <1>5, <1>6
  <2>2. \A k \in 1 .. 2 : rules[k][2] # rules[3][2]
    BY <1>5, <1>3
  <2>3. \A k \in 1 .. 2 : ~rules[k][1]
    BY <1>4, <2>1, <2>2, LastRuleApplies
  <2> QED
    BY <1>5, <2>3
<1>7. CASE FirstMatch(rules) = "COMMITTED" /\ ~UNCHANGED <<snapshots, pointers, metadataOutbox>>
  <2>1. SnapshotsOf(r.op) = {} /\ pointers[r.binding.set] = r.expected
    BY <1>6, <1>7 DEF c1, c2, BaselineHolds
  <2>2. Committed(r, x, p)
    BY <1>1, <1>2, <1>7, <2>1, Zenon DEF Committed
  <2> QED
    BY <2>2
<1> QED
  BY <1>1, <1>7

\* A commit extends the chain of its set at the end.
LEMMA CommitExtends ==
  ASSUME PublicationInv, NEW r, NEW x, NEW p, Registered(r), Follows(r.binding), Reached(r.binding),
         Committed(r, x, p), UNCHANGED <<documentVars, chunkVars, metadataOperations, applied>>
  PROVE  SnapshotInv' /\ ChainInv' /\ RefreshInv'
<1> USE DEF PublicationInv
<1> DEFINE s == r.binding.set
<1>1. /\ metadataOperations[x.op] = r /\ x.op \in DOMAIN metadataOperations
      /\ r.binding \in Binding /\ s \in ChunkSets /\ r.expected.rev \in Nat
  BY DEF Committed, Registered, OperationInv, WellFormedOperation, Binding
<1>2. /\ \A y \in snapshots : y.op # x.op
      /\ x \notin snapshots /\ snapshots' = snapshots \cup {x}
  BY DEF Committed, SnapshotsOf
<1>3. /\ pointers' = [u \in ChunkSets |-> pointers'[u]] /\ pointers'[s] = p
      /\ \A u \in ChunkSets : u # s => pointers'[u] = pointers[u]
  BY <1>1 DEF Committed, SnapshotInv
<1>4. /\ p.rev = pointers[s].rev + 1 /\ pointers[s].rev \in Nat /\ p.rev \in Nat
      /\ Baseline(x) = pointers[s].rev
  BY <1>1 DEF Committed, SnapshotInv, Baseline
<1>5. \A y : Baseline(y)' = Baseline(y)
  BY DEF Baseline
<1>6. \A y \in snapshots : y.binding \in Binding /\ Baseline(y) \in Nat /\ y.binding.set \in ChunkSets
  BY SnapshotBindings DEF Binding
<1>7. x.binding = r.binding
  BY DEF Committed
<1> HIDE DEF s
<1>8. SnapshotInv'
  <2>1. \A u \in ChunkSets : pointers'[u].rev \in Nat
    BY <1>3, <1>4 DEF SnapshotInv
  <2>2. IsFiniteSet(snapshots')
    BY <1>2, FS_AddElement DEF SnapshotInv
  <2>3. ASSUME NEW y \in snapshots'
        PROVE  /\ y.op \in DOMAIN metadataOperations' /\ metadataOperations'[y.op].binding = y.binding
               /\ Baseline(y)' < pointers'[y.binding.set].rev
               /\ Reached(y.binding)'
    <3>1. CASE y = x
      BY <1>1, <1>3, <1>4, <1>5, <1>7, <3>1 DEF s, Reached, documentVars, chunkVars
    <3>2. CASE y \in snapshots
      <4>1. Baseline(y) < pointers[y.binding.set].rev /\ Reached(y.binding)
            /\ y.op \in DOMAIN metadataOperations /\ metadataOperations[y.op].binding = y.binding
        BY <3>2 DEF SnapshotInv
      <4>2. Baseline(y) < pointers'[y.binding.set].rev
        BY <1>3, <1>4, <1>6, <3>2, <4>1
      <4> QED
        BY <1>5, <4>1, <4>2 DEF Reached, documentVars, chunkVars
    <3> QED
      BY <1>2, <3>1, <3>2
  <2>4. \A y, z \in snapshots' : y.op = z.op => y = z
    BY <1>2 DEF SnapshotInv
  <2> QED
    BY <1>3, <2>1, <2>2, <2>3, <2>4 DEF SnapshotInv
<1>9. ASSUME NEW u \in ChunkSets
      PROVE  /\ pointers'[u].rev = Cardinality(ChainOf(u)')
             /\ \A y, z \in ChainOf(u)' : y # z => InOrder(y, z)'
  <2>1. /\ pointers[u].rev = Cardinality(ChainOf(u))
        /\ \A y, z \in ChainOf(u) : y # z => InOrder(y, z)
    BY DEF ChainInv
  <2>2. \A y, z : InOrder(y, z) => InOrder(y, z)'
    BY DEF InOrder, Baseline
  <2>3. CASE u # s
    <3>1. ChainOf(u)' = ChainOf(u)
      BY <1>2, <1>7, <2>3 DEF ChainOf, s
    <3>2. pointers'[u] = pointers[u]
      BY <1>3, <2>3
    <3> QED
      BY <2>1, <2>2, <3>1, <3>2
  <2>4. CASE u = s
    <3>1. ChainOf(u)' = ChainOf(u) \cup {x} /\ x \notin ChainOf(u)
      BY <1>2, <1>7, <2>4 DEF ChainOf, s
    <3>2. IsFiniteSet(ChainOf(u))
      <4>1. ChainOf(u) \subseteq snapshots
        BY DEF ChainOf
      <4> QED
        BY <4>1, FS_Subset DEF SnapshotInv
    <3>3. Cardinality(ChainOf(u)') = Cardinality(ChainOf(u)) + 1
      BY <3>1, <3>2, FS_AddElement
    <3>4. ASSUME NEW y \in ChainOf(u) PROVE InOrder(y, x)' /\ InOrder(x, y)'
      <4>1. y \in snapshots /\ y.binding.set = s
        BY <2>4 DEF ChainOf
      <4>2. Baseline(y) < Baseline(x) /\ Baseline(y) \in Nat /\ Baseline(x) \in Nat
        BY <1>4, <1>6, <4>1 DEF SnapshotInv
      <4>3. y.binding.selectionRev <= x.binding.selectionRev /\ y.binding.documentRev <= x.binding.documentRev
        BY <1>7, <4>1 DEF Follows
      <4> QED
        BY <1>5, <4>2, <4>3 DEF InOrder
    <3>5. \A y, z \in ChainOf(u)' : y # z => InOrder(y, z)'
      BY <2>1, <2>2, <3>1, <3>4
    <3> QED
      BY <1>3, <1>4, <2>1, <2>4, <3>3, <3>5
  <2> QED
    BY <2>3, <2>4
<1>10. ChainInv'
  BY <1>9 DEF ChainInv
<1>11. RefreshInv'
  <2>1. PICK i : i = [set |-> s, pointer |-> p]
    OBVIOUS
  <2>2. metadataOutbox' = metadataOutbox \cup {i} /\ applied' = applied
    BY <2>1 DEF Committed, s
  <2>3. ASSUME NEW j \in metadataOutbox'
        PROVE  /\ j = [set |-> j.set, pointer |-> j.pointer] /\ j.set \in ChunkSets
               /\ j.pointer.rev \in Nat /\ j.pointer.rev <= pointers'[j.set].rev
               /\ j.pointer.rev = pointers'[j.set].rev => j.pointer = pointers'[j.set]
    <3>1. CASE j = i
      <4>1. j.set = s /\ j.pointer = p
        BY <2>1, <3>1
      <4> QED
        BY <1>1, <1>3, <1>4, <2>1, <3>1, <4>1 DEF s
    <3>2. CASE j \in metadataOutbox
      BY <1>3, <1>4, <3>2 DEF RefreshInv
    <3> QED
      BY <2>2, <3>1, <3>2
  <2> QED
    BY <2>2, <2>3 DEF RefreshInv
<1> QED
  BY <1>8, <1>10, <1>11

LEMMA MetadataWriteStep ==
  ASSUME PublicationInv, NEW a \in Workers, MetadataWrite(a)
  PROVE  PublicationInv'
<1> USE DEF PublicationInv
<1>1. /\ UNCHANGED <<documentVars, chunkVars, metadataOperations, metadataKeys, metadataClaims, applied>>
      /\ worker[a].pc = "metadata_write" /\ Become(a, Idle) /\ metadataLock' = None
  BY DEF MetadataWrite, Rest
<1>2. PICK r : r = worker[a].request
  OBVIOUS
<1>3. metadataLock = a /\ Registered(r) /\ Follows(r.binding) /\ Reached(r.binding)
  BY <1>1, <1>2 DEF WorkerInv
<1>4. HeadInv' /\ SelectionInv' /\ ChunkInv' /\ Onward
  BY <1>1, ChunkSideRests, MovesOn
<1>5. OperationsKept /\ OperationInv'
  BY <1>1 DEF OperationsKept, OperationInv, WellFormedOperation
<1>6. WorkerInv'
  BY <1>1, <1>3, <1>4, <1>5, IdleSuits, WorkerMoves
<1>7. CASE UNCHANGED <<snapshots, pointers, metadataOutbox>>
  <2>1. UNCHANGED metadataVars
    BY <1>1, <1>7 DEF metadataVars
  <2> QED
    BY <1>1, <1>4, <1>5, <1>6, <2>1, ChunkSideRests, MetadataRests
<1>8. CASE \E x, p : Committed(r, x, p)
  BY <1>1, <1>3, <1>4, <1>5, <1>6, <1>8, CommitExtends
<1> QED
  BY <1>2, <1>7, <1>8, WriteCommits

LEMMA ApplyRefreshStep ==
  ASSUME PublicationInv, ApplyRefresh
  PROVE  PublicationInv'
<1> USE DEF PublicationInv
<1>1. /\ UNCHANGED <<documentVars, chunkVars, metadataOperations, metadataKeys, metadataClaims, snapshots,
                     pointers, metadataOutbox, metadataLock, worker>>
      /\ \E i \in metadataOutbox \ applied : applied' = applied \cup {i}
  BY DEF ApplyRefresh
<1>2. HeadInv' /\ SelectionInv' /\ ChunkInv'
  BY <1>1, ChunkSideRests
<1>3. OperationsKept /\ OperationInv'
  BY <1>1 DEF OperationsKept, OperationInv, WellFormedOperation
<1>4. SnapshotInv' /\ ChainInv'
  BY <1>1, <1>3, OperationsGrow
<1>5. RefreshInv'
  BY <1>1 DEF RefreshInv
<1>6. WorkerInv'
  BY <1>1 DEF WorkerInv, Registered, Follows, Reached, WellFormedOperation, documentVars, chunkVars
<1> QED
  BY <1>2, <1>3, <1>4, <1>5, <1>6

\* A worker that dies gives its lock back, and no other worker was about to write.
LEMMA CrashStep ==
  ASSUME PublicationInv, NEW a \in Workers, Crash(a)
  PROVE  PublicationInv'
<1> USE DEF PublicationInv
<1>1. /\ UNCHANGED <<documentVars, chunkVars, metadataVars>> /\ Become(a, Idle)
      /\ metadataLock' = metadataLock \/ metadataLock = a
  BY DEF Crash, Rest
<1>2. /\ HeadInv' /\ SelectionInv' /\ ChunkInv' /\ OperationInv' /\ SnapshotInv' /\ ChainInv' /\ RefreshInv' /\ Onward
  BY <1>1, ChunkSideRests, MetadataRests, MovesOn
<1>3. OperationsKept /\ snapshots' = snapshots
  BY <1>1 DEF OperationsKept, metadataVars
<1>4. WorkerInv'
  BY <1>1, <1>2, <1>3, IdleSuits, WorkerMoves
<1> QED
  BY <1>2, <1>4

-----------------------------------------------------------------------------
\* Every step preserves the invariant.
LEMMA PublicationStep == PublicationInv /\ [Next]_vars => PublicationInv'
<1> SUFFICES ASSUME PublicationInv, [Next]_vars PROVE PublicationInv'
  OBVIOUS
<1>1. CASE UNCHANGED vars
  <2>1. /\ UNCHANGED <<documentVars, chunkVars, metadataVars, metadataLock, worker>>
    BY <1>1 DEF vars
  <2>2. /\ HeadInv' /\ SelectionInv' /\ ChunkInv'
        /\ head'[Document].rev >= head[Document].rev /\ selection'.rev >= selection.rev
    BY <2>1, ChunkSideRests
  <2> QED
    BY <2>1, <2>2, MetadataRests, WorkersRest DEF PublicationInv
<1>2. CASE Next
  BY <1>2, HeadStep, ApplyRefreshStep, ChunkRunStep, ChunkPersistStep, SelectReadStep, SelectStep, MetadataRunStep,
     MetadataClaimStep, MetadataCheckStep, MetadataWriteStep, CrashStep DEF Next
<1> QED
  BY <1>1, <1>2

\* The invariant of the two committers holds in every reachable state.
THEOREM PublicationInvariant == Spec => []PublicationInv
BY PublicationInit, PublicationStep, PTL DEF Spec

\* No metadata update is lost, whatever head and selection do between the check and the write of
\* MetadataCommitter.persist: the pointer of a chunk set counts its snapshots, each extends another
\* baseline, and bindings grow along the chain.
THEOREM SnapshotsAreAChain == Spec => []SnapshotsFormAChain
<1>1. PublicationInv => SnapshotsFormAChain
  BY DEF PublicationInv, ChainInv, ChainOf, InOrder, Baseline, SnapshotsFormAChain
<1> QED
  BY <1>1, PublicationInvariant, PTL

\* apply_refresh rereads the pointer under the lock: whatever the order and the number of the
\* deliveries, an effect is never followed by that of an older revision of the same set.
THEOREM RefreshesKeepTheirOrder == Spec => RefreshesInOrder
<1> DEFINE Ordered == \A i \in applied' \ applied : \A j \in applied : i.set = j.set => i.pointer.rev > j.pointer.rev
<1>1. PublicationInv /\ [Next]_vars => Ordered \/ UNCHANGED vars
  <2> SUFFICES ASSUME PublicationInv, Next, NEW i \in applied' \ applied, NEW j \in applied, i.set = j.set
               PROVE  i.pointer.rev > j.pointer.rev
    OBVIOUS
  <2>1. ApplyRefresh
    BY DEF Next, DocumentStep, ChunkRun, ChunkPersist, SelectRead, Select, MetadataRun, MetadataClaim,
           MetadataCheck, MetadataWrite, Crash, metadataVars
  <2>2. i \in metadataOutbox /\ pointers[i.set] = i.pointer
    BY <2>1 DEF ApplyRefresh, RefreshIsCurrent
  <2>3. /\ i = [set |-> i.set, pointer |-> i.pointer] /\ j = [set |-> j.set, pointer |-> j.pointer]
        /\ i.pointer.rev \in Nat /\ j.pointer.rev \in Nat /\ j.pointer.rev <= pointers[i.set].rev
        /\ j.pointer.rev = pointers[i.set].rev => j.pointer = pointers[i.set]
    BY <2>2 DEF PublicationInv, RefreshInv
  <2>4. i # j
    OBVIOUS
  <2>5. i.pointer # j.pointer
    BY <2>3, <2>4
  <2> QED
    BY <2>2, <2>3, <2>5
<1> QED
  BY <1>1, PublicationInvariant, PTL DEF Spec, RefreshesInOrder

-----------------------------------------------------------------------------
\* The abstract state is a function of head and selection.
LEMMA SameAuthority ==
  ASSUME head'[Document] = head[Document], selection' = selection
  PROVE  UNCHANGED <<CurrentBinding, CurrentRevision>>
BY DEF CurrentBinding, CurrentRevision, Provenance, Eligible

\* The binding that the state of the published document gives.
LEMMA BindingOf ==
  ASSUME HeadInv, SelectionInv
  PROVE  /\ CurrentRevision \in Nat /\ CurrentRevision < MaxRevision + MaxSelections + 1
         /\ selection.set # None /\ Eligible(VersionOf[selection.set]) =>
               selection.set \in ChunkSets /\ CurrentBinding = [set |-> selection.set, rev |-> CurrentRevision]
         /\ ~(selection.set # None /\ Eligible(VersionOf[selection.set])) => CurrentBinding = None
<1>1. /\ head[Document].rev \in Nat /\ head[Document].rev <= MaxRevision
      /\ selection.rev \in Nat /\ selection.rev <= MaxSelections
      /\ MaxRevision \in Nat /\ MaxSelections \in Nat
  BY DocumentIsOne, PublicationAssumption DEF HeadInv, SelectionInv, DocumentHeadSnapshot
<1>2. CurrentRevision \in Nat /\ CurrentRevision < MaxRevision + MaxSelections + 1
  BY <1>1 DEF CurrentRevision
<1>3. ASSUME selection.set # None, Eligible(VersionOf[selection.set])
      PROVE  selection.set \in ChunkSets /\ CurrentBinding = [set |-> selection.set, rev |-> CurrentRevision]
  <2>1. Provenance = [set |-> selection.set, selectionRev |-> selection.rev, documentRev |-> head[Document].rev]
        /\ selection.set \in ChunkSets
    BY <1>3 DEF Provenance, SelectionInv
  <2>2. Provenance \in Binding
    BY <1>1, <2>1 DEF Binding
  <2>3. Provenance # None
    BY <2>2, PublicationAssumption DEF Binding
  <2>4. selection.rev + head[Document].rev = CurrentRevision
    BY <1>1 DEF CurrentRevision
  <2>5. CurrentBinding = [set |-> selection.set, rev |-> selection.rev + head[Document].rev]
    BY <2>1, <2>3 DEF CurrentBinding
  <2> QED
    BY <2>1, <2>4, <2>5
<1>4. ~(selection.set # None /\ Eligible(VersionOf[selection.set])) => CurrentBinding = None
  BY DEF CurrentBinding, Provenance
<1> QED
  BY <1>2, <1>3, <1>4

LEMMA BindingOfNext ==
  HeadInv' /\ SelectionInv' =>
      (/\ CurrentRevision \in Nat
       /\ selection.set # None /\ Eligible(VersionOf[selection.set]) =>
             selection.set \in ChunkSets /\ CurrentBinding = [set |-> selection.set, rev |-> CurrentRevision]
       /\ ~(selection.set # None /\ Eligible(VersionOf[selection.set])) => CurrentBinding = None)'
<1>1. HeadInv /\ SelectionInv =>
      (/\ CurrentRevision \in Nat
       /\ selection.set # None /\ Eligible(VersionOf[selection.set]) =>
             selection.set \in ChunkSets /\ CurrentBinding = [set |-> selection.set, rev |-> CurrentRevision]
       /\ ~(selection.set # None /\ Eligible(VersionOf[selection.set])) => CurrentBinding = None)
  BY BindingOf
<1> QED
  BY <1>1, PTL

\* A step that advances the revision publishes a chunk set or withdraws the one there is.
LEMMA AdvanceRefines ==
  ASSUME HeadInv, SelectionInv, HeadInv', SelectionInv', CurrentRevision' = CurrentRevision + 1
  PROVE  P!ProvenanceNext
<1>1. CurrentRevision < MaxRevision + MaxSelections + 1
  BY BindingOf
<1>2. CASE (selection.set # None /\ Eligible(VersionOf[selection.set]))'
  <2>1. PICK s \in ChunkSets : CurrentBinding' = [set |-> s, rev |-> CurrentRevision']
    BY <1>2, BindingOfNext
  <2>2. P!Publish(s)
    BY <1>1, <2>1 DEF P!Publish
  <2> QED
    BY <2>2 DEF P!ProvenanceNext
<1>3. CASE ~(selection.set # None /\ Eligible(VersionOf[selection.set]))'
  <2>1. CurrentBinding' = None
    BY <1>3, BindingOfNext
  <2>2. P!Withdraw
    BY <1>1, <2>1 DEF P!Withdraw
  <2> QED
    BY <2>2 DEF P!ProvenanceNext
<1> QED
  BY <1>2, <1>3

\* The head of the document moves.
LEMMA HeadRefines ==
  ASSUME PublicationInv, PublicationInv', DocumentStep
  PROVE  P!ProvenanceNext \/ UNCHANGED <<CurrentBinding, CurrentRevision>>
<1> USE DEF PublicationInv
<1>1. selection' = selection /\ selection.rev \in Nat /\ head[Document].rev \in Nat
  BY DocumentIsOne, PublicationAssumption
  DEF DocumentStep, chunkVars, SelectionInv, HeadInv, DocumentHeadSnapshot
<1>2. ASSUME head'[Document].rev = head[Document].rev + 1 PROVE P!ProvenanceNext
  BY <1>1, <1>2, AdvanceRefines DEF CurrentRevision
<1>3. ASSUME NEW d \in Documents, Register(d) PROVE UNCHANGED <<CurrentBinding, CurrentRevision>>
  <2>1. CASE d # Document
    BY <1>1, <1>3, <2>1, DocumentIsOne, SameAuthority DEF Register, HeadInv
  <2>2. CASE d = Document
    <3>1. /\ head[Document].state = "ABSENT" /\ head'[Document].state = "REGISTERED"
          /\ head'[Document].rev = head[Document].rev
      BY <1>3, <2>2, DocumentIsOne DEF Register, HeadInv, DocumentHeadSnapshot
    <3> QED
      BY <1>1, <3>1 DEF CurrentBinding, CurrentRevision, Provenance, Eligible
  <2> QED
    BY <2>1, <2>2
<1>4. ASSUME NEW d \in Documents, Tombstone(d)
      PROVE  P!ProvenanceNext \/ UNCHANGED <<CurrentBinding, CurrentRevision>>
  <2>1. CASE d # Document
    BY <1>1, <1>4, <2>1, DocumentIsOne, SameAuthority DEF Tombstone, HeadInv
  <2>2. CASE d = Document
    BY <1>2, <1>4, <2>2, DocumentIsOne DEF Tombstone, HeadInv
  <2> QED
    BY <2>1, <2>2
<1>5. ASSUME NEW v \in Versions, Publish(v)
      PROVE  P!ProvenanceNext \/ UNCHANGED <<CurrentBinding, CurrentRevision>>
  <2>1. CASE DocumentOf[v] # Document
    BY <1>1, <1>5, <2>1, DocumentIsOne, SameAuthority DEF Publish, HeadInv
  <2>2. CASE DocumentOf[v] = Document
    BY <1>2, <1>5, <2>2, DocumentIsOne DEF Publish, HeadInv
  <2> QED
    BY <2>1, <2>2
<1> QED
  BY <1>3, <1>4, <1>5 DEF DocumentStep, DocumentNext, Activate, Reactivate

\* A selection is made.
LEMMA SelectRefines ==
  ASSUME PublicationInv, PublicationInv', NEW a \in Workers, Select(a)
  PROVE  P!ProvenanceNext \/ UNCHANGED <<CurrentBinding, CurrentRevision>>
<1> USE DEF PublicationInv
<1>1. head' = head /\ selection.rev \in Nat /\ head[Document].rev \in Nat
  BY DocumentIsOne, PublicationAssumption DEF Select, documentVars, SelectionInv, HeadInv, DocumentHeadSnapshot
<1>2. CASE selection' = selection
  BY <1>1, <1>2, SameAuthority
<1>3. CASE selection' # selection
  <2>1. selection'.rev = selection.rev + 1
    BY <1>3, SelectedIsEligible DEF NewSelection
  <2> QED
    BY <1>1, <2>1, AdvanceRefines DEF CurrentRevision
<1> QED
  BY <1>2, <1>3

\* Head and selection together behave as RagProvenance promises the later stages: although they
\* move separately and come back to earlier values, a binding once replaced is never current again.
THEOREM PublicationImplementsProvenance == Spec => ImplementsProvenance
<1>1. Init => P!ProvenanceInit
  <2> SUFFICES ASSUME Init PROVE P!ProvenanceInit
    OBVIOUS
  <2>1. selection = NoSelection /\ head[Document] = Absent
    BY DocumentIsOne DEF Init, DocumentInit
  <2> QED
    BY <2>1 DEF P!ProvenanceInit, CurrentBinding, CurrentRevision, Provenance, NoSelection, Absent
<1>2. PublicationInv /\ PublicationInv' /\ [Next]_vars => [P!ProvenanceNext]_(P!provenanceVars)
  <2> SUFFICES ASSUME PublicationInv, PublicationInv', [Next]_vars
               PROVE  P!ProvenanceNext \/ UNCHANGED P!provenanceVars
    OBVIOUS
  <2>1. UNCHANGED <<CurrentBinding, CurrentRevision>> => UNCHANGED P!provenanceVars
    BY Zenon DEF P!provenanceVars
  <2>2. CASE DocumentStep \/ \E a \in Workers : Select(a)
    BY <2>1, <2>2, HeadRefines, SelectRefines
  <2>3. CASE UNCHANGED <<head, selection>>
    BY <2>1, <2>3, SameAuthority
  <2>4. CASE ~(DocumentStep \/ \E a \in Workers : Select(a))
    <3>1. UNCHANGED <<head, selection>>
      BY <2>4 DEF Next, vars, documentVars, chunkVars, ApplyRefresh, ChunkRun, ChunkPersist, SelectRead, MetadataRun,
                  MetadataClaim, MetadataCheck, MetadataWrite, Crash
    <3> QED
      BY <2>3, <3>1
  <2> QED
    BY <2>2, <2>4
<1> QED
  BY <1>1, <1>2, PublicationInvariant, PTL DEF Spec, ImplementsProvenance, P!ProvenanceSpec

-----------------------------------------------------------------------------
(***************************************************************************)
(* Grounded answers.                                                       *)
(***************************************************************************)

\* An answer is being made.
InProgress == grounding.pc \in {"generate", "verify", "final"}

\* While an answer is made nothing else is under way, so what failed since it began is its own: a
\* provider that a fallback stood in for.  The handoff it is made from may be used.
GroundingInv ==
    /\ faults \in Int
    /\ grounding.pc \in {"idle", "generate", "verify", "final", "done"}
    /\ InProgress => /\ call.pc \in {"idle", "done"} /\ ranking.pc \in {"idle", "done"}
                     /\ grounding.handoff.outcome \in {"FULL", "DEGRADED"}
    /\ grounding.pc = "generate" => faults = grounding.met
    /\ grounding.pc \in {"verify", "final"} =>
         /\ {"pc", "fallback"} \subseteq DOMAIN grounding /\ grounding.fallback \in BOOLEAN
         /\ faults = grounding.met \/ grounding.fallback
    /\ FullAnswerIsGrounded

\* Steps that leave the answer alone do not fail under one that is in progress.
LEMMA GroundingKept ==
  ASSUME GroundingInv, UNCHANGED grounding, faults' \in Int,
         InProgress => UNCHANGED faults /\ call'.pc \in {"idle", "done"} /\ ranking'.pc \in {"idle", "done"}
  PROVE  GroundingInv'
BY DEF GroundingInv, InProgress, FullAnswerIsGrounded, Answered

\* An answer that is not FULL is under no obligation.
LEMMA GroundingOver ==
  ASSUME faults' \in Int, NEW g, NEW outcome, NEW released, outcome # "FULL",
         grounding' = GroundingReply(g, outcome, released)
  PROVE  GroundingInv'
BY DEF GroundingInv, InProgress, FullAnswerIsGrounded, GroundingReply

\* Nor is one that was not asked for.
LEMMA NoAnswer == ASSUME faults' \in Int, grounding' = NoGrounding PROVE GroundingInv'
BY DEF GroundingInv, InProgress, FullAnswerIsGrounded, NoGrounding

\* _run_generator and _run_verifier: the primary answered, or nothing did, or a fallback.
LEMMA ModeOfPrimary ==
  ASSUME NEW primary, NEW fallback, NEW g
  PROVE  /\ FallbackMode(primary, fallback, g) \in {"PRIMARY", "FALLBACK", "NONE"}
         /\ FallbackMode(primary, fallback, g) = "PRIMARY" => primary = "ok"
<1> DEFINE c1 == primary = "ok"
           c2 == ~(IF primary = "TIMEOUT" THEN g.onTimeout ELSE g.onFailure) \/ ~g.present
           c3 == fallback = "ok"
           rules == << <<c1, "PRIMARY">>, <<c2, "NONE">>, <<c3, "FALLBACK">>, <<TRUE, "NONE">> >>
<1>1. FallbackMode(primary, fallback, g) = FirstMatch(rules)
  BY DEF FallbackMode
<1> HIDE DEF c1, c2, c3
<1>2. DOMAIN rules = 1 .. 4
  OBVIOUS
<1>3. /\ rules[1] = <<c1, "PRIMARY">> /\ rules[2] = <<c2, "NONE">> /\ rules[3] = <<c3, "FALLBACK">>
      /\ rules[4] = <<TRUE, "NONE">>
  OBVIOUS
<1> HIDE DEF rules
<1>4. rules[4][1] /\ 4 \in Nat /\ 4 > 0
  BY <1>3
<1>5. PICK i \in 1 .. 4 : rules[i][1] /\ FirstMatch(rules) = rules[i][2]
  BY <1>2, <1>4, FirstMatchApplies
<1>6. i = 1 \/ i = 2 \/ i = 3 \/ i = 4
  OBVIOUS
<1>7. FallbackMode(primary, fallback, g) \in {"PRIMARY", "FALLBACK", "NONE"}
  BY <1>1, <1>3, <1>5, <1>6
<1>8. FallbackMode(primary, fallback, g) = "PRIMARY" => i = 1
  BY <1>1, <1>3, <1>5, <1>6
<1>9. i = 1 => c1
  BY <1>3, <1>5
<1> QED
  BY <1>7, <1>8, <1>9 DEF c1

\* With the primary's answer to a bound request nothing failed.
LEMMA NothingFailed ==
  ASSUME faults \in Int, NEW primary, NEW fallback, NEW g, FallbackMode(primary, fallback, g) # "NONE",
         primary = "ok" => fallback = "ok",
         faults' = faults + (ProviderFaults(primary, fallback) + 0)
  PROVE  faults' = faults \/ FallbackMode(primary, fallback, g) = "FALLBACK"
<1>1. CASE primary = "ok"
  BY <1>1 DEF ProviderFaults
<1>2. CASE primary # "ok"
  BY <1>2, ModeOfPrimary
<1> QED
  BY <1>1, <1>2

\* execute, up to the generator: a handoff that is refused ends the request, so what goes on is FULL or
\* DEGRADED, and no failure has been met yet.
LEMMA GroundStep ==
  ASSUME GroundingInv, ClientIdle, NEW query, NEW bound, Ground(query, bound), UNCHANGED <<call, ranking>>
  PROVE  GroundingInv'
<1>1. PICK g, c2, c3 :
        /\ g.pc = "generate" /\ g.handoff = ranking /\ g.met = faults
        /\ grounding' = FirstMatch(<<
            <<~ValidHandoff(ranking, query, bound), GroundingReply(g, "REJECTED", <<>>)>>,
            <<c2, GroundingReply(g, "ABSTAINED", <<>>)>>,
            <<c3, GroundingReply(g, "REJECTED", <<>>)>>,
            <<TRUE, g>> >>)
  <2> DEFINE hits == ranking.hits
             current == SelectSeq(hits, LAMBDA o : o \in Current(ToSet(hits)))
             windows == WindowPlan(current)
             g == GroundingBundle(ranking, windows, current # hits)
             c2 == current = <<>>
             c3 == windows = Nothing \/ ~EgressAllowed
  <2>1. g.pc = "generate" /\ g.handoff = ranking /\ g.met = faults
    BY DEF GroundingBundle
  <2>2. grounding' = FirstMatch(<<
            <<~ValidHandoff(ranking, query, bound), GroundingReply(g, "REJECTED", <<>>)>>,
            <<c2, GroundingReply(g, "ABSTAINED", <<>>)>>,
            <<c3, GroundingReply(g, "REJECTED", <<>>)>>,
            <<TRUE, g>> >>)
    BY DEF Ground
  <2> HIDE DEF g, c2, c3
  <2> QED
    BY <2>1, <2>2
<1> DEFINE c1 == ~ValidHandoff(ranking, query, bound)
           rejected == GroundingReply(g, "REJECTED", <<>>)
           abstained == GroundingReply(g, "ABSTAINED", <<>>)
           rules == << <<c1, rejected>>, <<c2, abstained>>, <<c3, rejected>>, <<TRUE, g>> >>
<1>2. grounding' = FirstMatch(rules)
  BY <1>1
<1> HIDE DEF c1, rejected, abstained
<1>3. DOMAIN rules = 1 .. 4
  OBVIOUS
<1>4. /\ rules[1] = <<c1, rejected>> /\ rules[2] = <<c2, abstained>> /\ rules[3] = <<c3, rejected>>
      /\ rules[4] = <<TRUE, g>>
  OBVIOUS
<1> HIDE DEF rules
<1>5. rules[4][1] /\ 4 \in Nat /\ 4 > 0
  BY <1>4
<1>6. PICK i \in 1 .. 4 : /\ rules[i][1] /\ \A k \in 1 .. i - 1 : ~rules[k][1]
                          /\ FirstMatch(rules) = rules[i][2]
  BY <1>3, <1>5, FirstMatchApplies
<1>7. i = 1 \/ i = 2 \/ i = 3 \/ i = 4
  OBVIOUS
<1>8. grounding' = rejected \/ grounding' = abstained \/ (grounding' = g /\ ~c1)
  BY <1>2, <1>4, <1>6, <1>7
<1>9. faults' = faults /\ faults' \in Int /\ call.pc \in {"idle", "done"} /\ ranking.pc \in {"idle", "done"}
  BY DEF Ground, GroundingInv, ClientIdle
<1>10. CASE grounding' = rejected \/ grounding' = abstained
  BY <1>9, <1>10, GroundingOver DEF rejected, abstained
<1>11. CASE grounding' = g /\ ~c1
  <2>1. g.handoff.outcome \in {"FULL", "DEGRADED"}
    BY <1>1, <1>11 DEF c1, ValidHandoff
  <2> QED
    BY <1>1, <1>9, <1>11, <2>1 DEF GroundingInv, InProgress, FullAnswerIsGrounded
<1> QED
  BY <1>8, <1>10, <1>11

\* A failure of the generator ends the request or shows as a fallback.
LEMMA GenerateStep ==
  ASSUME GroundingInv, Generate, UNCHANGED <<call, ranking>>
  PROVE  GroundingInv'
<1>1. PICK primary, fallback \in ProviderStates, bound \in BOOLEAN, claims \in Extractions :
        LET mode == FallbackMode(primary, fallback, Grounding.generator)
            accepted == SelectSeq(claims, LAMBDA c : WellCited(c, grounding.windows))
        IN  /\ primary = "ok" => fallback = "ok"
            /\ faults' = faults + (ProviderFaults(primary, fallback) + (IF bound THEN 0 ELSE 1))
            /\ faults' \in 0 .. MaxFaults
            /\ IF mode = "NONE" THEN GroundingEnds("UNAVAILABLE")
               ELSE IF ~bound \/ ~ValidExtraction(claims) THEN GroundingEnds("REJECTED")
               ELSE IF accepted = <<>> THEN GroundingEnds("ABSTAINED")
               ELSE grounding' = [pc |-> "verify", handoff |-> grounding.handoff, met |-> grounding.met,
                                  rejected |-> grounding.rejected, claims |-> accepted,
                                  refused |-> accepted # claims, fallback |-> mode = "FALLBACK"]
  BY ZenonT(120) DEF Generate
<1> DEFINE mode == FallbackMode(primary, fallback, Grounding.generator)
           accepted == SelectSeq(claims, LAMBDA c : WellCited(c, grounding.windows))
           g == [pc |-> "verify", handoff |-> grounding.handoff, met |-> grounding.met,
                 rejected |-> grounding.rejected, claims |-> accepted,
                 refused |-> accepted # claims, fallback |-> mode = "FALLBACK"]
<1>2. faults' \in Int
  BY <1>1
<1>3. \/ \E outcome \in {"UNAVAILABLE", "REJECTED", "ABSTAINED"} : GroundingEnds(outcome)
      \/ grounding' = g /\ bound = TRUE /\ mode # "NONE"
  BY <1>1
<1>4. CASE \E outcome \in {"UNAVAILABLE", "REJECTED", "ABSTAINED"} : GroundingEnds(outcome)
  BY <1>2, <1>4, GroundingOver DEF GroundingEnds
<1>5. CASE grounding' = g /\ bound = TRUE /\ mode # "NONE"
  <2>1. /\ g.pc = "verify" /\ g.handoff = grounding.handoff /\ g.met = grounding.met
        /\ g.fallback = (mode = "FALLBACK") /\ {"pc", "fallback"} \subseteq DOMAIN g
    OBVIOUS
  <2>2. faults' = faults \/ mode = "FALLBACK"
    <3>1. faults \in Int /\ faults' = faults + (ProviderFaults(primary, fallback) + 0)
      BY <1>1, <1>5 DEF GroundingInv
    <3> QED
      BY <1>1, <1>5, <3>1, NothingFailed
  <2>3. grounding.pc = "generate"
    BY DEF Generate
  <2> HIDE DEF g, mode
  <2> QED
    BY <1>2, <1>5, <2>1, <2>2, <2>3 DEF GroundingInv, InProgress, FullAnswerIsGrounded
<1> QED
  BY <1>3, <1>4, <1>5

\* So does one of the verifier.
LEMMA VerifyStep ==
  ASSUME GroundingInv, Verify, UNCHANGED <<call, ranking>>
  PROVE  GroundingInv'
<1>1. PICK primary, fallback \in ProviderStates, bound \in BOOLEAN, relation \in Relations :
        LET mode == FallbackMode(primary, fallback, Grounding.verifier)
            supported == Supported(grounding.claims, relation)
        IN  /\ primary = "ok" => fallback = "ok"
            /\ faults' = faults + (ProviderFaults(primary, fallback) + (IF bound THEN 0 ELSE 1))
            /\ faults' \in 0 .. MaxFaults
            /\ IF mode = "NONE" THEN GroundingEnds("UNAVAILABLE")
               ELSE IF ~bound THEN GroundingEnds("REJECTED")
               ELSE IF supported = <<>> THEN GroundingEnds("ABSTAINED")
               ELSE grounding' = [grounding EXCEPT !.claims = supported,
                                     !.refused = @ \/ supported # grounding.claims,
                                     !.fallback = @ \/ mode = "FALLBACK", !.pc = "final"]
  BY ZenonT(120) DEF Verify
<1> DEFINE mode == FallbackMode(primary, fallback, Grounding.verifier)
           supported == Supported(grounding.claims, relation)
           g == [grounding EXCEPT !.claims = supported, !.refused = @ \/ supported # grounding.claims,
                                  !.fallback = @ \/ mode = "FALLBACK", !.pc = "final"]
<1>2. faults' \in Int
  BY <1>1
<1>3. \/ \E outcome \in {"UNAVAILABLE", "REJECTED", "ABSTAINED"} : GroundingEnds(outcome)
      \/ grounding' = g /\ bound = TRUE /\ mode # "NONE"
  BY <1>1
<1>4. CASE \E outcome \in {"UNAVAILABLE", "REJECTED", "ABSTAINED"} : GroundingEnds(outcome)
  BY <1>2, <1>4, GroundingOver DEF GroundingEnds
<1>5. CASE grounding' = g /\ bound = TRUE /\ mode # "NONE"
  <2>0. grounding.pc = "verify" /\ {"pc", "fallback"} \subseteq DOMAIN grounding
    BY DEF Verify, GroundingInv
  <2>1. /\ g.pc = "final" /\ g.handoff = grounding.handoff /\ g.met = grounding.met
        /\ g.fallback = (grounding.fallback \/ mode = "FALLBACK") /\ {"pc", "fallback"} \subseteq DOMAIN g
    BY <2>0
  <2>2. faults' = faults \/ mode = "FALLBACK"
    <3>1. faults \in Int /\ faults' = faults + (ProviderFaults(primary, fallback) + 0)
      BY <1>1, <1>5 DEF GroundingInv
    <3> QED
      BY <1>1, <1>5, <3>1, NothingFailed
  <2> HIDE DEF g, mode
  <2> QED
    BY <1>2, <1>5, <2>0, <2>1, <2>2 DEF GroundingInv, InProgress, FullAnswerIsGrounded
<1> QED
  BY <1>3, <1>4, <1>5

\* The classification: FULL is the closing rule, so every earlier one failed to apply.
LEMMA ReleaseStep ==
  ASSUME GroundingInv, ReleaseClaims, UNCHANGED <<call, ranking>>
  PROVE  GroundingInv'
<1> DEFINE cited == UNION {c.cites : c \in ToSet(grounding.claims)}
           current == Current(cited)
           released == SelectSeq(grounding.claims, LAMBDA c : FullyCited(c, current))
           c1 == released = <<>>
           c2 == Answered(released) # Items \/ grounding.refused \/ released # grounding.claims
           c3 == \/ grounding.handoff.outcome = "DEGRADED" \/ grounding.fallback
                 \/ grounding.rejected \/ current # cited
           rules == << <<c1, "ABSTAINED">>, <<c2, "PARTIAL">>, <<c3, "DEGRADED">>, <<TRUE, "FULL">> >>
<1>1. grounding' = GroundingReply(grounding, FirstMatch(rules), released) /\ UNCHANGED faults
  BY DEF ReleaseClaims
<1>2. c2 = (Answered(released) # Items \/ grounding.refused \/ released # grounding.claims)
  OBVIOUS
<1> HIDE DEF released, c1, c2, c3
<1>3. DOMAIN rules = 1 .. 4
  OBVIOUS
<1>4. /\ rules[1] = <<c1, "ABSTAINED">> /\ rules[2] = <<c2, "PARTIAL">> /\ rules[3] = <<c3, "DEGRADED">>
      /\ rules[4] = <<TRUE, "FULL">>
  OBVIOUS
<1> HIDE DEF rules
<1>5. faults' \in Int /\ grounding.pc = "final"
  BY <1>1 DEF GroundingInv, ReleaseClaims
<1>6. CASE FirstMatch(rules) # "FULL"
  BY <1>1, <1>5, <1>6, GroundingOver
<1>7. CASE FirstMatch(rules) = "FULL"
  <2>1. \A k \in 1 .. 3 : ~rules[k][1]
    <3>1. rules[4][1] /\ FirstMatch(rules) = rules[4][2] /\ 4 \in Nat /\ 4 > 0 /\ 4 - 1 = 3
      BY <1>4, <1>7
    <3>2. \A k \in 1 .. 3 : rules[k][2] # rules[4][2]
      BY <1>4
    <3> QED
      BY <1>3, <3>1, <3>2, LastRuleApplies
  <2>2. ~c2 /\ ~c3
    BY <1>4, <2>1
  <2>3. Answered(released) = Items
    BY <1>2, <2>2
  <2>4. grounding.handoff.outcome # "DEGRADED" /\ ~grounding.fallback
    BY <2>2 DEF c3
  <2>5. grounding.handoff.outcome = "FULL" /\ faults = grounding.met
    BY <1>5, <2>4 DEF GroundingInv, InProgress
  <2>6. /\ grounding'.pc = "done" /\ grounding'.released = released
        /\ grounding'.handoff = grounding.handoff /\ grounding'.clean
    BY <1>1, <2>5 DEF GroundingReply
  <2> QED
    BY <1>5, <2>3, <2>5, <2>6 DEF GroundingInv, InProgress, FullAnswerIsGrounded
<1> QED
  BY <1>6, <1>7

\* The steps of a retrieval and of a reranking.
LEMMA OtherSteps ==
  ASSUME GroundingInv, UNCHANGED grounding, RetrievalStep \/ RankingStep
  PROVE  GroundingInv'
<1>1. faults' \in Int
  <2>1. ReadScope \/ CacheRelease \/ Release \/ GiveUp \/ TakeVariant \/ Precheck \/ FinalRecheck => faults' = faults
    BY Zenon DEF ReadScope, CacheRelease, Release, GiveUp, TakeVariant, Precheck, FinalRecheck
  <2>2. AuthorizationUnavailable \/ RankingUnavailable => faults' = faults + 1
    BY Zenon DEF AuthorizationUnavailable, RankingUnavailable
  <2>3. Encode \/ Round => faults' \in 0 .. MaxFaults
    BY Zenon DEF Encode, Round
  <2>4. Rank => faults' = faults \/ faults' = faults + 1
    BY Zenon DEF Rank
  <2>5. faults \in Int
    BY DEF GroundingInv
  <2> QED
    BY <2>1, <2>2, <2>3, <2>4, <2>5 DEF RetrievalStep, RankingStep
<1>2. ~InProgress
  <2>1. CASE RetrievalStep
    BY <2>1 DEF RetrievalStep, ReadScope, CacheRelease, AuthorizationUnavailable, Encode, Round, Release, GiveUp,
                GroundingInv
  <2>2. CASE RankingStep
    BY <2>2 DEF RankingStep, TakeVariant, Precheck, Rank, FinalRecheck, RankingUnavailable, GroundingInv
  <2> QED
    BY <2>1, <2>2
<1> QED
  BY <1>1, <1>2, GroundingKept

\* Every step of the serving path keeps it so.
LEMMA GroundingNext == ASSUME GroundingInv, [ServingNext]_servingVars PROVE GroundingInv'
<1>1. CASE UNCHANGED servingVars
  BY <1>1, GroundingKept DEF servingVars, retrievalVars, GroundingInv
<1>2. CASE Ask
  <2>1. faults' \in Int
    <3>1. ASSUME NEW p, NEW req, NEW failure, Execute(p, req, failure)
          PROVE  faults' = faults \/ faults' = faults + 1
      BY <3>1, Zenon DEF Execute
    <3> QED
      BY <1>2, <3>1 DEF Ask, GroundingInv
  <2> QED
    BY <1>2, <2>1, NoAnswer DEF Ask
<1>3. CASE AskAnswer
  <2>1. ASSUME NEW query, GroundUnavailable(query) PROVE GroundingInv'
    BY <2>1, GroundingOver DEF GroundUnavailable, GroundingInv
  <2> QED
    BY <1>3, <2>1, GroundStep DEF AskAnswer
<1>4. CASE Administer
  BY <1>4, GroundingKept DEF Administer, GroundingInv
<1>5. CASE RetrievalStep /\ UNCHANGED <<ranking, superseded, grounding, requests, events>>
  BY <1>5, OtherSteps
<1>6. CASE RankingStep /\ UNCHANGED <<superseded, grounding, requests, events>>
  BY <1>6, OtherSteps
<1>7. CASE GroundingStep
  <2>1. CASE ReleaseUnavailable
    BY <2>1, GroundingOver DEF ReleaseUnavailable, GroundingEnds, GroundingInv
  <2> QED
    BY <1>7, <2>1, GenerateStep, VerifyStep, ReleaseStep DEF GroundingStep
<1> QED
  BY <1>1, <1>2, <1>3, <1>4, <1>5, <1>6, <1>7 DEF ServingNext

\* AuthorizedGroundingOrchestrator.execute: an answer that calls itself FULL covers every item, from a handoff
\* labeled FULL, and no failure or fallback occurred since it was asked for, whatever the providers did.
THEOREM FullAnswersAreGrounded == ServingSpec => []FullAnswerIsGrounded
<1>1. ServingInit => GroundingInv
  BY DEF ServingInit, RetrievalInit, RankingInit, GroundingInit, NoGrounding, NoRanking, NoCall, GroundingInv,
         InProgress, FullAnswerIsGrounded
<1>2. GroundingInv => FullAnswerIsGrounded
  BY DEF GroundingInv
<1> QED
  BY <1>1, <1>2, GroundingNext, PTL DEF ServingSpec
=============================================================================
