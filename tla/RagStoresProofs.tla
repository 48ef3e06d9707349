--------------------------- MODULE RagStoresProofs ---------------------------
(***************************************************************************)
(* Proofs about the stores at both ends of the RAG pipeline: RagIngestion, *)
(* for any intakes, actors, request ids and number of attempts, and that   *)
(* it implements RagDocument; RagVectorIndex, for any points, contracts,   *)
(* requests, provider modes and number of workers.                         *)
(***************************************************************************)
EXTENDS RagIngestion, RagVectorIndex, TLAPS

\* What an actor holds between two steps, and between the read of the guard and the commit.
Expected == {"PARSE_DISPATCH_STARTED", "PENDING_RECONCILIATION"}
Holding == [pc : {"parse", "lost", "reject", "read", "mark", "query", "FAILED", "PROVEN_NOT_EXECUTED"},
            op : Operations, attempt : ParserAttemptIdentity \cup {None}, sv : Nat, expect : Expected]
Committing == [pc : {"commit"}, op : Operations, attempt : ParserAttemptIdentity \cup {None}, sv : Nat,
               expect : Expected, head : DocumentHeadSnapshot \cup {None},
               ver : DocumentVersionLifecycleRecord \cup {None}]

StoreTypeOK ==
    /\ docs \in [Documents -> DocumentHeadSnapshot \cup {None}]
    /\ vers \in [Versions -> DocumentVersionLifecycleRecord \cup {None}]
    /\ ops \in [Operations -> IngestionOperationRecord \cup {None}]
    /\ intakes \subseteq Intakes
    /\ artifacts \subseteq [op : Operations, attempt : ParserAttemptIdentity]

\* An actor works on, and a dispatch request is for, an operation that was registered.
ActorInv ==
    /\ act \in [Actors -> {Idle} \cup Holding \cup Committing]
    /\ \A a \in Actors : act[a].pc # "idle" => ops[act[a].op] # None
    /\ \A r \in requests : r.op \in Operations /\ ops[r.op] # None /\ r.attempt \in ParserAttemptIdentity

\* Attempts are numbered upwards: a new one is in no history.
Numbered(q) ==
    /\ q.attempt = None => q.state = "READY_FOR_DISPATCH" /\ q.history = {}
    /\ q.attempt # None => \A x \in q.history : x.number <= q.attempt.number

AttemptInv == \A o \in Operations : ops[o] # None => Numbered(ops[o])

\* Intakes, operations and versions are registered together and one to one.
IntakeInv ==
    /\ \A i, j \in intakes : i.op = j.op \/ i.ver = j.ver => i = j
    /\ \A i \in intakes : docs[i.doc] # None /\ vers[i.ver] # None /\ ops[i.op] # None
    /\ \A o \in Operations : ops[o] # None => \E i \in intakes : i.op = o
    /\ \A v \in Versions : vers[v] # None => \E i \in intakes : i.ver = v

\* The record q of operation o and the record v of its version tell one story.
Published == {"ACTIVE", "SUPERSEDED", "TOMBSTONED"}
Agree(o, q, v) ==
    /\ q.state = "COMPLETED" <=> v.artifact # None
    /\ v.state \in Published <=> v.artifact # None
    /\ q.state = "QUARANTINED" <=> v.state = "QUARANTINED"
    /\ v.artifact # None => v.artifact = [op |-> o, attempt |-> q.attempt]

StoryInv == \A i \in intakes : Agree(i.op, ops[i.op], vers[i.ver])

\* Heads point at the active versions of their documents and at nothing else.
HeadInv ==
    /\ \A i \in intakes : vers[i.ver].state = "ACTIVE" => docs[i.doc].active = i.ver
    /\ \A d \in Documents : docs[d] # None /\ docs[d].active # None =>
          \E i \in intakes : i.doc = d /\ i.ver = docs[d].active /\ vers[i.ver].state = "ACTIVE"

StoreInv == StoreTypeOK /\ AttemptInv /\ IntakeInv /\ StoryInv /\ HeadInv
IngestionInv == StoreInv /\ ActorInv

-----------------------------------------------------------------------------
(***************************************************************************)
(* Identities.                                                             *)
(***************************************************************************)

\* The parts of an intake are in the sets the store is indexed by, and None is none of them.
LEMMA PartsOfIntake ==
  ASSUME NEW i \in Intakes
  PROVE  /\ i.op \in Operations /\ i.doc \in Documents /\ i.ver \in Versions
         /\ i.ver # None /\ i.request \in RequestIds
         /\ DocumentOf[i.ver] = i.doc
<1>1. i.op \in Operations /\ i.doc \in Documents /\ i.ver \in Versions
  BY DEF Operations, Documents, Versions
<1>2. i.ver # None /\ i.request \in RequestIds
  BY IngestionAssumption DEF WellFormedIntake
<1>3. DocumentOf[i.ver] = i.doc
  <2> DEFINE j == CHOOSE k \in Intakes : k.ver = i.ver
  <2>1. j \in Intakes /\ j.ver = i.ver
    OBVIOUS
  <2>2. j.doc = i.doc
    BY <2>1, IngestionAssumption
  <2>3. DocumentOf[i.ver] = j.doc
    BY <1>1 DEF DocumentOf
  <2> QED
    BY <2>2, <2>3
<1> QED
  BY <1>1, <1>2, <1>3

\* The assumption of RagDocument follows from that of ingestion.
LEMMA NoneIsNoVersion == None \notin Versions /\ DocumentOf \in [Versions -> Documents]
<1>1. ASSUME NEW v \in Versions PROVE v # None /\ DocumentOf[v] \in Documents
  <2>1. PICK i \in Intakes : i.ver = v
    BY DEF Versions
  <2> QED
    BY <2>1, PartsOfIntake
<1> QED
  BY <1>1 DEF DocumentOf

\* The intake an operation was registered with.
LEMMA IntakeOfKnown ==
  ASSUME StoreTypeOK, IntakeInv, NEW o \in Operations, ops[o] # None
  PROVE  IntakeOf(o) \in intakes /\ IntakeOf(o).op = o
BY DEF IntakeInv, IntakeOf

\* An operation was registered with one intake only.
LEMMA IntakeOfItsOwn ==
  ASSUME StoreTypeOK, IntakeInv, NEW i \in intakes
  PROVE  IntakeOf(i.op) = i
BY DEF IntakeInv, IntakeOf

\* The records behind an intake.
LEMMA Records ==
  ASSUME StoreTypeOK, IntakeInv, NEW i \in intakes
  PROVE  /\ i \in Intakes
         /\ ops[i.op] \in IngestionOperationRecord /\ ops[i.op] # None
         /\ vers[i.ver] \in DocumentVersionLifecycleRecord /\ vers[i.ver] # None
         /\ docs[i.doc] \in DocumentHeadSnapshot /\ docs[i.doc] # None
<1>1. i \in Intakes
  BY DEF StoreTypeOK
<1>2. i.op \in Operations /\ i.doc \in Documents /\ i.ver \in Versions
  BY <1>1, PartsOfIntake
<1>3. docs[i.doc] # None /\ vers[i.ver] # None /\ ops[i.op] # None
  BY DEF IntakeInv
<1> QED
  BY <1>1, <1>2, <1>3 DEF StoreTypeOK

-----------------------------------------------------------------------------
(***************************************************************************)
(* What the guarded writes do to the store.                                *)
(***************************************************************************)

\* The record a committer transition stores.
LEMMA StepEffect ==
  ASSUME StoreTypeOK, NEW o \in Operations, ops[o] # None, NEW s \in IngestionOperationState,
         s \in {"PARSE_DISPATCH_STARTED", "PENDING_RECONCILIATION", "COMPLETED"} => ops[o].attempt # None
  PROVE  \E q \in IngestionOperationRecord :
            /\ Step(o, s) = [ops EXCEPT ![o] = q]
            /\ q.state = s /\ q.attempt = ops[o].attempt /\ q.history = ops[o].history
            /\ q.sv = ops[o].sv + 1
<1> DEFINE p == ops[o]
           q == [p EXCEPT !.state = s, !.sv = @ + 1]
<1>1. p \in IngestionOperationRecord
  BY DEF StoreTypeOK
<1>2. Step(o, s) = [ops EXCEPT ![o] = q]
  BY DEF StoreTypeOK, Step
<1>3. s \in {"PARSE_DISPATCH_STARTED", "PENDING_RECONCILIATION", "COMPLETED"} => p.attempt # None
  OBVIOUS
<1> HIDE DEF p
<1>4. /\ q.state = s /\ q.attempt = p.attempt /\ q.history = p.history /\ q.sv = p.sv + 1
      /\ q \in [state : IngestionOperationState, sv : Nat, attempt : ParserAttemptIdentity \cup {None},
                history : SUBSET ParserAttemptIdentity]
  <2> DEFINE n == p.sv + 1
  <2>1. /\ n \in Nat
        /\ p \in [state : IngestionOperationState, sv : Nat, attempt : ParserAttemptIdentity \cup {None},
                  history : SUBSET ParserAttemptIdentity]
    BY <1>1 DEF IngestionOperationRecord
  <2>2. q = [p EXCEPT !.state = s, !.sv = n]
    BY <2>1
  <2> HIDE DEF n
  <2>3. /\ q.state = s /\ q.attempt = p.attempt /\ q.history = p.history /\ q.sv = n
        /\ q \in [state : IngestionOperationState, sv : Nat, attempt : ParserAttemptIdentity \cup {None},
                  history : SUBSET ParserAttemptIdentity]
    BY <2>1, <2>2
  <2> QED
    BY <2>3 DEF n
<1>5. q \in IngestionOperationRecord
  BY <1>1, <1>3, <1>4 DEF IngestionOperationRecord
<1> QED
  BY <1>2, <1>4, <1>5 DEF p

\* What a step may do to the operations: none is forgotten, none that is settled changes, and
\* only a dispatched one is completed.
Settled == {"COMPLETED", "FAILED", "QUARANTINED"}
Advances ==
    \A p \in Operations : ops[p] # None =>
        /\ ops'[p] # None
        /\ ops[p].state \in Settled => ops'[p] = ops[p]
        /\ ops'[p].state = "COMPLETED" /\ ops[p] # ops'[p] => ops[p].state \in Expected

\* A step that moves one operation and leaves its publication open: heads and versions still
\* tell its story.
Moves(o, q) ==
    /\ ops' = [ops EXCEPT ![o] = q]
    /\ q \in IngestionOperationRecord /\ Numbered(q)
    /\ ops[o].state \notin Settled /\ q.state \notin {"COMPLETED", "QUARANTINED"}
    /\ UNCHANGED <<docs, vers, intakes, artifacts>>

LEMMA MovesKeep ==
  ASSUME StoreInv, NEW o \in Operations, ops[o] # None, NEW q, Moves(o, q)
  PROVE  StoreInv' /\ Advances
<1> USE DEF StoreInv
<1>1. /\ ops' \in [Operations -> IngestionOperationRecord \cup {None}]
      /\ ops'[o] = q /\ \A p \in Operations : p # o => ops'[p] = ops[p]
  BY Zenon DEF StoreTypeOK, Moves
<1>2. q # None
  BY NoneAssumption DEF Moves
<1>3. UNCHANGED <<docs, vers, intakes, artifacts>>
  BY DEF Moves
<1>4. StoreTypeOK'
  BY <1>1, <1>3 DEF StoreTypeOK
<1>5. AttemptInv'
  BY <1>1 DEF AttemptInv, Moves
<1>6. IntakeInv'
  <2>1. \A p \in Operations : (ops'[p] # None) <=> (ops[p] # None)
    BY <1>1, <1>2
  <2>2. \A i \in intakes : i.op \in Operations
    BY PartsOfIntake DEF StoreTypeOK
  <2> QED
    BY <1>3, <2>1, <2>2 DEF IntakeInv
<1>7. StoryInv'
  <2>1. ASSUME NEW i \in intakes PROVE Agree(i.op, ops'[i.op], vers[i.ver])
    <3>1. i.op \in Operations /\ Agree(i.op, ops[i.op], vers[i.ver])
      BY PartsOfIntake DEF StoreTypeOK, StoryInv
    <3>2. CASE i.op = o
      BY <1>1, <3>1, <3>2 DEF Agree, Moves, Settled
    <3>3. CASE i.op # o
      BY <1>1, <3>1, <3>3
    <3> QED
      BY <3>2, <3>3
  <2> QED
    BY <1>3, <2>1 DEF StoryInv
<1>8. HeadInv'
  BY <1>3 DEF HeadInv
<1>9. Advances
  BY <1>1, <1>2 DEF Advances, Moves
<1> QED
  BY <1>4, <1>5, <1>6, <1>7, <1>8, <1>9

\* A refused write.
LEMMA RefusalKeeps ==
  ASSUME StoreInv, UNCHANGED <<docs, vers, ops, intakes, artifacts>>
  PROVE  StoreInv' /\ Advances
<1>1. Advances
  BY DEF Advances
<1>2. StoreTypeOK' /\ AttemptInv' /\ IntakeInv' /\ StoryInv' /\ HeadInv'
  BY DEF StoreInv, StoreTypeOK, AttemptInv, IntakeInv, StoryInv, HeadInv
<1> QED
  BY <1>1, <1>2 DEF StoreInv

\* A committer transition out of a state that is not settled.
LEMMA TransitionKeeps ==
  ASSUME StoreInv, NEW o \in Operations, ops[o] # None, ops[o].attempt # None,
         ops[o].state \notin Settled,
         NEW s \in IngestionOperationState \ {"COMPLETED", "QUARANTINED"},
         ops' = Step(o, s), UNCHANGED <<docs, vers, intakes, artifacts>>
  PROVE  StoreInv' /\ Advances
<1>1. PICK q \in IngestionOperationRecord :
            /\ Step(o, s) = [ops EXCEPT ![o] = q]
            /\ q.state = s /\ q.attempt = ops[o].attempt /\ q.history = ops[o].history
  BY StepEffect DEF StoreInv
<1>2. Numbered(ops[o])
  BY DEF StoreInv, AttemptInv
<1>3. Moves(o, q)
  BY <1>1, <1>2 DEF Moves, Numbered
<1> QED
  BY <1>3, MovesKeep

\* A parse whose answer was lost becomes pending, or the guard refuses and nothing changes.
LEMMA MarkPendingKeeps ==
  ASSUME StoreInv, NEW o \in Operations, ops[o] # None, NEW sv, MarkPending(o, sv),
         UNCHANGED <<docs, vers, intakes, artifacts>>
  PROVE  StoreInv' /\ Advances
<1>1. CASE Guarded(o, "PARSE_DISPATCH_STARTED", sv)
  <2>1. ops[o].state = "PARSE_DISPATCH_STARTED" /\ ops' = Step(o, "PENDING_RECONCILIATION")
    BY <1>1 DEF MarkPending, Guarded
  <2>2. ops[o].attempt # None
    BY <2>1 DEF StoreInv, AttemptInv, Numbered
  <2>3. "PENDING_RECONCILIATION" \in IngestionOperationState \ {"COMPLETED", "QUARANTINED"}
    BY DEF IngestionOperationState
  <2> QED
    BY <2>1, <2>2, <2>3, TransitionKeeps DEF Settled
<1>2. CASE ~Guarded(o, "PARSE_DISPATCH_STARTED", sv)
  BY <1>2, RefusalKeeps DEF MarkPending
<1> QED
  BY <1>1, <1>2

\* Recovery resolves a pending outcome, or its guard refuses.
LEMMA ReconciliationKeeps ==
  ASSUME StoreInv, NEW o \in Operations, ops[o] # None, NEW sv,
         NEW target \in {"FAILED", "PROVEN_NOT_EXECUTED"}, CommitReconciliation(o, target, sv),
         UNCHANGED <<docs, vers, intakes, artifacts>>
  PROVE  StoreInv' /\ Advances
<1>1. CASE Guarded(o, "PENDING_RECONCILIATION", sv)
  <2>1. ops[o].state = "PENDING_RECONCILIATION" /\ ops' = Step(o, target)
    BY <1>1 DEF CommitReconciliation, Guarded
  <2>2. ops[o].attempt # None
    BY <2>1 DEF StoreInv, AttemptInv, Numbered
  <2>3. target \in IngestionOperationState \ {"COMPLETED", "QUARANTINED"}
    BY DEF IngestionOperationState
  <2> QED
    BY <2>1, <2>2, <2>3, TransitionKeeps DEF Settled
<1>2. CASE ~Guarded(o, "PENDING_RECONCILIATION", sv)
  BY <1>2, RefusalKeeps DEF CommitReconciliation
<1> QED
  BY <1>1, <1>2

-----------------------------------------------------------------------------
(***************************************************************************)
(* Version records.                                                        *)
(***************************************************************************)

\* A published version is replaced or withdrawn: it keeps its artifact.
LEMMA VersionStep ==
  ASSUME NEW u \in DocumentVersionLifecycleRecord, NEW s \in DocumentVersionLifecycle,
         s \in {"ACTIVE", "SUPERSEDED"} => u.artifact # None,
         s \in {"REGISTERED", "QUARANTINED", "STALE_RESULT"} => u.artifact = None
  PROVE  LET w == [u EXCEPT !.state = s, !.sv = @ + 1]
         IN  w \in DocumentVersionLifecycleRecord /\ w.state = s /\ w.artifact = u.artifact
<1> DEFINE n == u.sv + 1
           w == [u EXCEPT !.state = s, !.sv = n]
           A == [op : Operations, attempt : ParserAttemptIdentity] \cup {None}
<1>1. n \in Nat /\ u \in [state : DocumentVersionLifecycle, artifact : A, sv : Nat]
  BY DEF DocumentVersionLifecycleRecord
<1>2. [u EXCEPT !.state = s, !.sv = @ + 1] = w
  BY <1>1
<1> HIDE DEF n, A
<1>3. w \in [state : DocumentVersionLifecycle, artifact : A, sv : Nat] /\ w.state = s /\ w.artifact = u.artifact
  BY <1>1
<1> HIDE DEF w
<1>4. w \in DocumentVersionLifecycleRecord
  BY <1>3 DEF DocumentVersionLifecycleRecord, A
<1> QED
  BY <1>2, <1>3, <1>4

\* A rejected parse quarantines the operation and its version together.
LEMMA MarkQuarantinedKeeps ==
  ASSUME StoreInv, NEW o \in Operations, ops[o] # None, NEW sv, MarkQuarantined(o, sv),
         UNCHANGED <<docs, intakes, artifacts>>
  PROVE  StoreInv' /\ Advances
<1> USE DEF StoreInv
<1> DEFINE i == IntakeOf(o)
           g == Guarded(o, "PARSE_DISPATCH_STARTED", sv) /\ vers[i.ver].state = "REGISTERED"
<1>1. CASE ~g
  BY <1>1, RefusalKeeps DEF MarkQuarantined
<1>2. CASE g
  <2>1. i \in intakes /\ i.op = o
    BY IntakeOfKnown
  <2>2. /\ ops' = Step(o, "QUARANTINED") /\ ops[o].state = "PARSE_DISPATCH_STARTED"
        /\ vers' = [vers EXCEPT ![i.ver].state = "QUARANTINED", ![i.ver].sv = @ + 1]
        /\ vers[i.ver].state = "REGISTERED"
    BY <1>2 DEF MarkQuarantined, Guarded
  <2> HIDE DEF i
  <2>3. /\ vers[i.ver] \in DocumentVersionLifecycleRecord /\ vers[i.ver].artifact = None
        /\ i.ver \in Versions /\ i \in Intakes
    <3>1. vers[i.ver] \in DocumentVersionLifecycleRecord /\ i \in Intakes
      BY <2>1, Records
    <3> QED
      BY <2>2, <3>1, PartsOfIntake DEF DocumentVersionLifecycleRecord
  <2> DEFINE u == vers[i.ver]
             w == [u EXCEPT !.state = "QUARANTINED", !.sv = @ + 1]
  <2>4. w \in DocumentVersionLifecycleRecord /\ w.state = "QUARANTINED" /\ w.artifact = None
    BY <2>3, VersionStep DEF DocumentVersionLifecycle
  <2>5. vers' = [vers EXCEPT ![i.ver] = w]
    BY <2>2, <2>3 DEF StoreTypeOK
  <2> HIDE DEF w, u
  <2>6. PICK q \in IngestionOperationRecord :
            /\ Step(o, "QUARANTINED") = [ops EXCEPT ![o] = q]
            /\ q.state = "QUARANTINED" /\ q.attempt = ops[o].attempt /\ q.history = ops[o].history
    BY StepEffect DEF IngestionOperationState
  <2>7. /\ ops' \in [Operations -> IngestionOperationRecord \cup {None}]
        /\ ops'[o] = q /\ \A p \in Operations : p # o => ops'[p] = ops[p]
    BY <2>2, <2>6, Zenon DEF StoreTypeOK
  <2>8. /\ vers' \in [Versions -> DocumentVersionLifecycleRecord \cup {None}]
        /\ vers'[i.ver] = w /\ \A v \in Versions : v # i.ver => vers'[v] = vers[v]
    BY <2>3, <2>4, <2>5, Zenon DEF StoreTypeOK
  <2>9. q # None /\ w # None
    BY <2>4, NoneAssumption
  <2>10. \A j \in intakes : /\ j.op \in Operations /\ j.ver \in Versions
                            /\ j # i => j.op # o /\ j.ver # i.ver
    BY <2>1, PartsOfIntake DEF StoreTypeOK, IntakeInv
  <2>11. StoreTypeOK'
    BY <2>7, <2>8 DEF StoreTypeOK
  <2>12. AttemptInv'
    <3>1. Numbered(q)
      BY <2>2, <2>6 DEF AttemptInv, Numbered
    <3> QED
      BY <2>7, <3>1 DEF AttemptInv
  <2>13. IntakeInv'
    <3>1. \A p \in Operations : (ops'[p] # None) <=> (ops[p] # None)
      BY <2>7, <2>9
    <3>2. \A v \in Versions : (vers'[v] # None) <=> (vers[v] # None)
      BY <2>1, <2>8, <2>9 DEF IntakeInv
    <3>3. intakes' = intakes /\ docs' = docs
      OBVIOUS
    <3>4. \A j \in intakes : docs[j.doc] # None /\ vers'[j.ver] # None /\ ops'[j.op] # None
      BY <2>10, <3>1, <3>2, Zenon DEF IntakeInv
    <3> QED
      BY <3>1, <3>2, <3>3, <3>4 DEF IntakeInv
  <2>14. StoryInv'
    <3>1. Agree(i.op, ops'[i.op], vers'[i.ver])
      BY <2>1, <2>4, <2>6, <2>7, <2>8 DEF Agree, Published
    <3>2. \A j \in intakes : j # i => Agree(j.op, ops'[j.op], vers'[j.ver])
      BY <2>7, <2>8, <2>10, Zenon DEF StoryInv
    <3> QED
      BY <3>1, <3>2 DEF StoryInv
  <2>15. HeadInv'
    <3>1. \A j \in intakes : j # i => vers'[j.ver] = vers[j.ver]
      BY <2>8, <2>10, Zenon
    <3>2. vers'[i.ver].state # "ACTIVE" /\ vers[i.ver].state # "ACTIVE"
      BY <2>2, <2>4, <2>8
    <3>3. \A j \in intakes : (vers'[j.ver].state = "ACTIVE") <=> (vers[j.ver].state = "ACTIVE")
      BY <3>1, <3>2
    <3> QED
      BY <3>3 DEF HeadInv
  <2>16. Advances
    BY <2>2, <2>6, <2>7, <2>9 DEF Advances, Settled
  <2> QED
    BY <2>11, <2>12, <2>13, <2>14, <2>15, <2>16
<1> QED
  BY <1>1, <1>2

\* The version the head of d names: its intake, and the only active version of d.
LEMMA ActiveVersion ==
  ASSUME StoreInv, NEW d \in Documents, docs[d] # None, docs[d].active # None
  PROVE  \E k \in intakes : /\ k.doc = d /\ k.ver = docs[d].active /\ vers[k.ver].state = "ACTIVE"
                            /\ \A j \in intakes : j.doc = d /\ vers[j.ver].state = "ACTIVE" => j = k
<1>1. PICK k \in intakes : k.doc = d /\ k.ver = docs[d].active /\ vers[k.ver].state = "ACTIVE"
  BY DEF StoreInv, HeadInv
<1>2. ASSUME NEW j \in intakes, j.doc = d, vers[j.ver].state = "ACTIVE" PROVE j = k
  <2>1. j.ver = k.ver
    BY <1>1, <1>2 DEF StoreInv, HeadInv
  <2> QED
    BY <2>1 DEF StoreInv, IntakeInv
<1> QED
  BY <1>1, <1>2

\* Withdraws(u, v): the record of a version whose pointer is taken away.
Withdraws(u, v) ==
    /\ v \in DocumentVersionLifecycleRecord /\ v.state \in {"SUPERSEDED", "TOMBSTONED"}
    /\ v.artifact = u.artifact

\* A step that takes the pointer of d away from the version it names: every other version of
\* the store stays as it is.
LEMMA WithdrawalEffect ==
  ASSUME StoreInv, NEW d \in Documents, docs[d] # None,
         NEW s \in {"SUPERSEDED", "TOMBSTONED"}, NEW f,
         f = [v \in Versions |-> IF v = docs[d].active
                                 THEN [vers[v] EXCEPT !.state = s, !.sv = @ + 1] ELSE vers[v]]
  PROVE  /\ f \in [Versions -> DocumentVersionLifecycleRecord \cup {None}]
         /\ \A v \in Versions : v # docs[d].active => f[v] = vers[v]
         /\ docs[d].active # None => /\ docs[d].active \in Versions
                                     /\ Withdraws(vers[docs[d].active], f[docs[d].active])
<1>1. \A v \in Versions : v # docs[d].active => f[v] = vers[v]
  OBVIOUS
<1>2. ASSUME docs[d].active # None
      PROVE  /\ docs[d].active \in Versions
             /\ Withdraws(vers[docs[d].active], f[docs[d].active])
  <2>1. PICK k \in intakes : k.doc = d /\ k.ver = docs[d].active /\ vers[k.ver].state = "ACTIVE"
    BY <1>2, ActiveVersion
  <2>2. k \in Intakes /\ vers[k.ver] \in DocumentVersionLifecycleRecord
    BY <2>1, Records DEF StoreInv
  <2>3. k.ver \in Versions
    BY <2>2, PartsOfIntake
  <2> DEFINE u == vers[k.ver]
             w == [u EXCEPT !.state = s, !.sv = @ + 1]
  <2>4. u \in DocumentVersionLifecycleRecord /\ u.artifact # None
    BY <2>1, <2>2 DEF DocumentVersionLifecycleRecord
  <2>5. f[k.ver] = w
    BY <2>1, <2>3
  <2>6. w \in DocumentVersionLifecycleRecord /\ w.state = s /\ w.artifact = u.artifact
    <3> HIDE DEF u
    <3>1. s \in DocumentVersionLifecycle /\ s \notin {"REGISTERED", "QUARANTINED", "STALE_RESULT"}
      BY DEF DocumentVersionLifecycle
    <3> QED
      BY <2>4, <3>1, VersionStep
  <2> HIDE DEF w
  <2> QED
    BY <2>1, <2>3, <2>5, <2>6 DEF Withdraws
<1>3. ASSUME NEW v \in Versions PROVE f[v] \in DocumentVersionLifecycleRecord \cup {None}
  <2>1. CASE v # docs[d].active
    BY <1>1, <2>1 DEF StoreInv, StoreTypeOK
  <2>2. CASE v = docs[d].active
    BY <1>2, <2>2, NoneIsNoVersion DEF Withdraws
  <2> QED
    BY <2>1, <2>2
<1>4. f \in [Versions -> DocumentVersionLifecycleRecord \cup {None}]
  BY <1>3
<1> QED
  BY <1>1, <1>2, <1>4

\* tombstone_document.
LEMMA TombstoneKeeps ==
  ASSUME StoreInv, NEW d \in Documents, TombstoneDocument(d)
  PROVE  StoreInv' /\ Advances
<1> USE DEF StoreInv
<1> DEFINE h == [state |-> "TOMBSTONED", active |-> None, sv |-> docs[d].sv + 1]
<1>1. /\ docs[d] # None /\ docs' = [docs EXCEPT ![d] = h]
      /\ vers' = [v \in Versions |-> IF v = docs[d].active
                                     THEN [vers[v] EXCEPT !.state = "TOMBSTONED", !.sv = @ + 1] ELSE vers[v]]
      /\ UNCHANGED <<ops, intakes, artifacts>>
  BY DEF TombstoneDocument
<1>2. h \in DocumentHeadSnapshot /\ h.active = None
  <2>1. docs[d].sv + 1 \in Nat
    <3>1. docs[d] \in DocumentHeadSnapshot
      BY <1>1 DEF StoreTypeOK
    <3> QED
      BY <3>1 DEF DocumentHeadSnapshot
  <2> QED
    BY <2>1 DEF DocumentHeadSnapshot
<1> HIDE DEF h
<1>3. h # None
  BY <1>2, NoneAssumption
<1>4. /\ docs' \in [Documents -> DocumentHeadSnapshot \cup {None}]
      /\ docs'[d] = h /\ \A e \in Documents : e # d => docs'[e] = docs[e]
  BY <1>1, <1>2, Zenon DEF StoreTypeOK
<1>5. /\ vers' \in [Versions -> DocumentVersionLifecycleRecord \cup {None}]
      /\ \A v \in Versions : v # docs[d].active => vers'[v] = vers[v]
      /\ docs[d].active # None => /\ docs[d].active \in Versions
                                  /\ Withdraws(vers[docs[d].active], vers'[docs[d].active])
  BY <1>1, WithdrawalEffect
<1>6. \A j \in intakes : j \in Intakes /\ j.op \in Operations /\ j.ver \in Versions /\ j.doc \in Documents
                           /\ j.ver # None
  BY PartsOfIntake DEF StoreTypeOK
<1>7. StoreTypeOK'
  BY <1>1, <1>4, <1>5 DEF StoreTypeOK
<1>8. AttemptInv'
  BY <1>1 DEF AttemptInv
<1>9. IntakeInv'
  <2>1. \A v \in Versions : (vers'[v] # None) <=> (vers[v] # None)
    <3>1. CASE docs[d].active = None
      BY <1>5, <3>1, NoneIsNoVersion
    <3>2. CASE docs[d].active # None
      <4>1. vers[docs[d].active] # None
        <5>1. PICK k \in intakes : k.ver = docs[d].active
          BY <1>1, <3>2, ActiveVersion
        <5> QED
          BY <5>1 DEF IntakeInv
      <4>2. vers'[docs[d].active] # None
        BY <1>5, <3>2, NoneAssumption DEF Withdraws
      <4> QED
        BY <1>5, <4>1, <4>2
    <3> QED
      BY <3>1, <3>2
  <2>2. \A e \in Documents : docs[e] # None => docs'[e] # None
    BY <1>3, <1>4
  <2>3. \A j \in intakes : docs'[j.doc] # None /\ vers'[j.ver] # None
    BY <1>6, <2>1, <2>2, Zenon DEF IntakeInv
  <2> QED
    BY <1>1, <2>1, <2>3 DEF IntakeInv
<1>10. StoryInv'
  <2>1. ASSUME NEW j \in intakes PROVE Agree(j.op, ops[j.op], vers'[j.ver])
    <3>1. Agree(j.op, ops[j.op], vers[j.ver])
      BY DEF StoryInv
    <3>2. CASE j.ver # docs[d].active
      BY <1>5, <1>6, <3>1, <3>2
    <3>3. CASE j.ver = docs[d].active
      <4>1. Withdraws(vers[j.ver], vers'[j.ver])
        BY <1>5, <1>6, <3>3
      <4>2. vers[j.ver].state = "ACTIVE"
        <5>1. PICK k \in intakes : k.ver = docs[d].active /\ vers[k.ver].state = "ACTIVE"
          BY <1>1, <1>6, <3>3, ActiveVersion
        <5> QED
          BY <3>3, <5>1
      <4> QED
        BY <3>1, <4>1, <4>2 DEF Agree, Withdraws, Published
    <3> QED
      BY <3>2, <3>3
  <2> QED
    BY <1>1, <2>1 DEF StoryInv
<1>11. HeadInv'
  <2>1. ASSUME NEW j \in intakes, vers'[j.ver].state = "ACTIVE" PROVE docs'[j.doc].active = j.ver
    <3>1. j.ver # docs[d].active
      BY <1>5, <1>6, <2>1 DEF Withdraws
    <3>2. docs[j.doc].active = j.ver
      BY <1>5, <1>6, <2>1, <3>1 DEF HeadInv
    <3> QED
      BY <1>4, <1>6, <3>1, <3>2
  <2>2. ASSUME NEW e \in Documents, docs'[e] # None, docs'[e].active # None
        PROVE  \E i \in intakes : i.doc = e /\ i.ver = docs'[e].active /\ vers'[i.ver].state = "ACTIVE"
    <3>1. e # d /\ docs'[e] = docs[e]
      BY <1>2, <1>4, <2>2
    <3>2. PICK k \in intakes : k.doc = e /\ k.ver = docs[e].active /\ vers[k.ver].state = "ACTIVE"
      BY <2>2, <3>1, ActiveVersion
    <3>3. k.ver # docs[d].active
      <4>1. SUFFICES ASSUME k.ver = docs[d].active PROVE FALSE
        OBVIOUS
      <4>2. PICK m \in intakes : m.doc = d /\ m.ver = docs[d].active
        BY <1>1, <1>6, <4>1, ActiveVersion
      <4>3. m = k
        BY <4>1, <4>2 DEF IntakeInv
      <4> QED
        BY <3>1, <3>2, <4>2, <4>3
    <3> QED
      BY <1>5, <1>6, <3>1, <3>2, <3>3
  <2> QED
    BY <1>1, <2>1, <2>2 DEF HeadInv
<1>12. Advances
  BY <1>1 DEF Advances
<1> QED
  BY <1>7, <1>8, <1>9, <1>10, <1>11, <1>12

\* IngestionCommitter.commit, when it does not refuse.  The guard expects a dispatched
\* operation, so its version is not published, and the head names another version or none.
LEMMA ActivationEffect ==
  ASSUME StoreInv, NEW w \in Committing, ops[w.op] # None, BindingsMatch(w), GuardMatches(w, IntakeOf(w.op)),
         NEW i, i = IntakeOf(w.op)
  PROVE  /\ i \in intakes /\ i.op = w.op /\ i \in Intakes
         /\ ops[i.op].state \in Expected /\ ops[i.op].attempt = w.attempt
         /\ w.attempt \in ParserAttemptIdentity
         /\ vers[i.ver].artifact = None /\ vers[i.ver].state # "ACTIVE"
         /\ docs[i.doc].active # i.ver
<1>1. w.op \in Operations /\ w.expect \in Expected
  BY DEF Committing
<1>2. i \in intakes /\ i.op = w.op
  BY <1>1, IntakeOfKnown DEF StoreInv
<1>3. ops[i.op].state \in Expected /\ ops[i.op].attempt = w.attempt
  BY <1>1, <1>2 DEF GuardMatches, Guarded, BindingsMatch
<1>4. ops[i.op] \in IngestionOperationRecord /\ i \in Intakes
  BY <1>2, Records DEF StoreInv
<1>5. w.attempt \in ParserAttemptIdentity
  BY <1>3, <1>4 DEF IngestionOperationRecord, Expected
<1>6. vers[i.ver].artifact = None /\ vers[i.ver].state # "ACTIVE"
  BY <1>2, <1>3 DEF StoreInv, StoryInv, Agree, Published, Expected
<1>7. docs[i.doc].active # i.ver
  <2>1. SUFFICES ASSUME docs[i.doc].active = i.ver PROVE FALSE
    OBVIOUS
  <2>2. i.doc \in Documents /\ i.ver # None /\ docs[i.doc] # None
    BY <1>2, <1>4, PartsOfIntake, Records DEF StoreInv
  <2>3. PICK k \in intakes : k.ver = i.ver /\ vers[k.ver].state = "ACTIVE"
    BY <2>1, <2>2, ActiveVersion
  <2> QED
    BY <1>6, <2>3
<1> QED
  BY <1>2, <1>3, <1>4, <1>5, <1>6, <1>7

\* What the activation of i writes.
Activates(i, attempt, w, q) ==
    /\ w.state = "ACTIVE" /\ w.artifact = [op |-> i.op, attempt |-> attempt]
    /\ w \in DocumentVersionLifecycleRecord
    /\ vers' \in [Versions -> DocumentVersionLifecycleRecord \cup {None}] /\ vers'[i.ver] = w
    /\ \A v \in Versions : v \notin {i.ver, docs[i.doc].active} => vers'[v] = vers[v]
    /\ docs[i.doc].active # None => /\ docs[i.doc].active \in Versions
                                    /\ Withdraws(vers[docs[i.doc].active], vers'[docs[i.doc].active])
    /\ docs' = [docs EXCEPT ![i.doc] = [state |-> "ACTIVE", active |-> i.ver, sv |-> docs[i.doc].sv + 1]]
    /\ q \in IngestionOperationRecord /\ q.state = "COMPLETED" /\ q.attempt = ops[i.op].attempt
    /\ q.history = ops[i.op].history /\ ops' = [ops EXCEPT ![i.op] = q]
    /\ UNCHANGED intakes
    /\ artifacts' = artifacts \cup {[op |-> i.op, attempt |-> attempt]}

\* A commit that writes at all passed both guards and activates its own version.
LEMMA CommitWrites ==
  ASSUME StoreInv, NEW w \in Committing, ops[w.op] # None, CommitActivation(w), UNCHANGED intakes,
         ~UNCHANGED <<docs, vers, ops, artifacts>>,
         NEW i, i = IntakeOf(w.op)
  PROVE  /\ BindingsMatch(w) /\ GuardMatches(w, i)
         /\ \E u, q : Activates(i, w.attempt, u, q)
<1> DEFINE artifact == [op |-> w.op, attempt |-> w.attempt]
           f == SupersedePrevious(i)
           u == [state |-> "ACTIVE", artifact |-> artifact, sv |-> f[i.ver].sv + 1]
           h == [state |-> "ACTIVE", active |-> i.ver, sv |-> docs[i.doc].sv + 1]
<1>1. /\ BindingsMatch(w) /\ GuardMatches(w, i)
      /\ artifacts' = artifacts \cup {artifact}
      /\ vers' = [f EXCEPT ![i.ver] = u]
      /\ docs' = [docs EXCEPT ![i.doc] = h]
      /\ ops' = Step(w.op, "COMPLETED")
  BY DEF CommitActivation
<1>2. /\ i \in intakes /\ i.op = w.op /\ i \in Intakes
      /\ ops[i.op].state \in Expected /\ ops[i.op].attempt = w.attempt
      /\ w.attempt \in ParserAttemptIdentity
      /\ vers[i.ver].artifact = None /\ vers[i.ver].state # "ACTIVE"
      /\ docs[i.doc].active # i.ver
  BY <1>1, ActivationEffect, Zenon
<1>3. i.op \in Operations /\ i.doc \in Documents /\ i.ver \in Versions
  BY <1>2, PartsOfIntake
<1>4. /\ vers[i.ver] \in DocumentVersionLifecycleRecord
      /\ docs[i.doc] \in DocumentHeadSnapshot /\ docs[i.doc] # None
  BY <1>2, Records DEF StoreInv
<1>5. f = [v \in Versions |-> IF v = docs[i.doc].active
                              THEN [vers[v] EXCEPT !.state = "SUPERSEDED", !.sv = @ + 1] ELSE vers[v]]
  BY <1>2 DEF SupersedePrevious
<1> HIDE DEF f
<1>6. /\ f \in [Versions -> DocumentVersionLifecycleRecord \cup {None}]
      /\ \A v \in Versions : v # docs[i.doc].active => f[v] = vers[v]
      /\ docs[i.doc].active # None => /\ docs[i.doc].active \in Versions
                                      /\ Withdraws(vers[docs[i.doc].active], f[docs[i.doc].active])
  BY <1>3, <1>4, <1>5, WithdrawalEffect
<1>7. artifact \in [op : Operations, attempt : ParserAttemptIdentity]
  BY <1>2, <1>3
<1>8. u \in DocumentVersionLifecycleRecord /\ u.state = "ACTIVE" /\ u.artifact = artifact
  <2>1. f[i.ver].sv + 1 \in Nat
    BY <1>2, <1>3, <1>4, <1>6 DEF DocumentVersionLifecycleRecord
  <2> DEFINE n == f[i.ver].sv + 1
  <2> HIDE DEF n, artifact
  <2>2. artifact # None
    BY <1>7, NoneAssumption
  <2>3. [state |-> "ACTIVE", artifact |-> artifact, sv |-> n] \in DocumentVersionLifecycleRecord
    BY <1>7, <2>1, <2>2 DEF DocumentVersionLifecycleRecord, DocumentVersionLifecycle, n
  <2> QED
    BY <2>3 DEF n
<1>9. \E q \in IngestionOperationRecord :
        /\ Step(i.op, "COMPLETED") = [ops EXCEPT ![i.op] = q]
        /\ q.state = "COMPLETED" /\ q.attempt = ops[i.op].attempt /\ q.history = ops[i.op].history
  <2>1. ops[i.op].attempt # None /\ ops[i.op] # None
    BY <1>2, NoneAssumption
  <2> QED
    BY <1>3, <2>1, StepEffect DEF StoreInv, IngestionOperationState
<1>10. PICK q \in IngestionOperationRecord :
        /\ Step(i.op, "COMPLETED") = [ops EXCEPT ![i.op] = q]
        /\ q.state = "COMPLETED" /\ q.attempt = ops[i.op].attempt /\ q.history = ops[i.op].history
  BY <1>9
<1> HIDE DEF u
<1>11. /\ vers' \in [Versions -> DocumentVersionLifecycleRecord \cup {None}] /\ vers'[i.ver] = u
       /\ \A v \in Versions : v # i.ver => vers'[v] = f[v]
  BY <1>1, <1>3, <1>6, <1>8, Zenon
<1>12. Activates(i, w.attempt, u, q)
  <2>1. \A v \in Versions : v \notin {i.ver, docs[i.doc].active} => vers'[v] = vers[v]
    BY <1>6, <1>11
  <2>2. docs[i.doc].active # None => /\ docs[i.doc].active \in Versions
                                     /\ Withdraws(vers[docs[i.doc].active], vers'[docs[i.doc].active])
    BY <1>2, <1>6, <1>11
  <2>3. artifact = [op |-> i.op, attempt |-> w.attempt]
    BY <1>2
  <2> QED
    BY <1>1, <1>2, <1>8, <1>10, <1>11, <2>1, <2>2, <2>3 DEF Activates
<1> QED
  BY <1>1, <1>12

\* An activation supersedes the version before it and completes its operation.
LEMMA ActivationKeeps ==
  ASSUME StoreInv, NEW i \in intakes, NEW attempt \in ParserAttemptIdentity, NEW u, NEW q,
         ops[i.op].state \in Expected, ops[i.op].attempt = attempt,
         docs[i.doc].active # i.ver, Activates(i, attempt, u, q)
  PROVE  StoreInv' /\ Advances
<1> USE DEF StoreInv
<1> DEFINE h == [state |-> "ACTIVE", active |-> i.ver, sv |-> docs[i.doc].sv + 1]
           old == docs[i.doc].active
<1>1. \A j \in intakes : /\ j \in Intakes /\ j.op \in Operations /\ j.ver \in Versions /\ j.doc \in Documents
                         /\ j.ver # None
                         /\ j # i => j.op # i.op /\ j.ver # i.ver
  BY PartsOfIntake DEF StoreTypeOK, IntakeInv
<1>2. docs[i.doc] \in DocumentHeadSnapshot /\ docs[i.doc] # None
  BY Records
<1>3. h \in DocumentHeadSnapshot /\ h.active = i.ver
  <2>1. docs[i.doc].sv + 1 \in Nat
    BY <1>2 DEF DocumentHeadSnapshot
  <2> QED
    BY <1>1, <2>1 DEF DocumentHeadSnapshot
<1>4. docs' = [docs EXCEPT ![i.doc] = h] /\ intakes' = intakes
  BY DEF Activates
<1> HIDE DEF h
<1>5. h # None /\ q # None /\ u # None /\ [op |-> i.op, attempt |-> attempt] # None
  BY <1>1, <1>3, NoneAssumption DEF Activates
<1>6. /\ docs' \in [Documents -> DocumentHeadSnapshot \cup {None}]
      /\ docs'[i.doc] = h /\ \A e \in Documents : e # i.doc => docs'[e] = docs[e]
  BY <1>1, <1>3, <1>4, Zenon DEF StoreTypeOK
<1>7. /\ ops' \in [Operations -> IngestionOperationRecord \cup {None}]
      /\ ops'[i.op] = q /\ \A p \in Operations : p # i.op => ops'[p] = ops[p]
  BY <1>1, Zenon DEF StoreTypeOK, Activates
<1>8. \A j \in intakes : j # i /\ j.ver # old => vers'[j.ver] = vers[j.ver]
  BY <1>1 DEF Activates
<1>9. \A j \in intakes : j.ver = old =>
          /\ Withdraws(vers[j.ver], vers'[j.ver]) /\ vers[j.ver].state = "ACTIVE" /\ j.doc = i.doc
  <2>1. SUFFICES ASSUME NEW j \in intakes, j.ver = old
                 PROVE  /\ Withdraws(vers[j.ver], vers'[j.ver]) /\ vers[j.ver].state = "ACTIVE"
                        /\ j.doc = i.doc
    OBVIOUS
  <2>2. PICK k \in intakes : k.doc = i.doc /\ k.ver = old /\ vers[k.ver].state = "ACTIVE"
    BY <1>1, <1>2, <2>1, ActiveVersion
  <2>3. j = k
    BY <2>1, <2>2 DEF IntakeInv
  <2> QED
    BY <1>1, <2>1, <2>2, <2>3 DEF Activates
<1>10. StoreTypeOK'
  BY <1>1, <1>4, <1>6, <1>7 DEF StoreTypeOK, Activates
<1>11. AttemptInv'
  <2>1. Numbered(ops[i.op])
    BY <1>1, Records DEF AttemptInv
  <2>2. attempt # None
    BY NoneAssumption
  <2>3. Numbered(q)
    BY <2>1, <2>2 DEF Numbered, Activates
  <2> QED
    BY <1>7, <2>3 DEF AttemptInv
<1>12. IntakeInv'
  <2>1. \A p \in Operations : (ops'[p] # None) <=> (ops[p] # None)
    BY <1>5, <1>7 DEF IntakeInv
  <2>2. \A e \in Documents : docs[e] # None => docs'[e] # None
    BY <1>5, <1>6
  <2>3. \A j \in intakes : vers'[j.ver] # None
    <3>1. ASSUME NEW j \in intakes PROVE vers'[j.ver] # None
      <4>1. CASE j = i
        BY <1>5, <4>1 DEF Activates
      <4>2. CASE j.ver = old
        BY <1>9, <4>2, NoneAssumption DEF Withdraws
      <4>3. CASE j # i /\ j.ver # old
        BY <1>8, <4>3 DEF IntakeInv
      <4> QED
        BY <4>1, <4>2, <4>3
    <3> QED
      BY <3>1
  <2>4. \A v \in Versions : vers'[v] # None => \E j \in intakes : j.ver = v
    <3>1. ASSUME NEW v \in Versions, vers'[v] # None PROVE \E j \in intakes : j.ver = v
      <4>1. CASE v = i.ver
        BY <4>1
      <4>2. CASE v = old
        BY <1>1, <1>2, <4>2, ActiveVersion, NoneIsNoVersion
      <4>3. CASE v \notin {i.ver, old}
        BY <3>1, <4>3 DEF Activates, IntakeInv
      <4> QED
        BY <4>1, <4>2, <4>3
    <3> QED
      BY <3>1
  <2>5. \A j \in intakes : docs'[j.doc] # None /\ vers'[j.ver] # None /\ ops'[j.op] # None
    BY <1>1, <2>1, <2>2, <2>3, Zenon DEF IntakeInv
  <2> QED
    BY <1>4, <2>1, <2>4, <2>5 DEF IntakeInv
<1>13. StoryInv'
  <2>1. ASSUME NEW j \in intakes PROVE Agree(j.op, ops'[j.op], vers'[j.ver])
    <3>1. Agree(j.op, ops[j.op], vers[j.ver])
      BY DEF StoryInv
    <3>2. CASE j = i
      BY <1>5, <1>7, <3>2 DEF Agree, Activates, Published
    <3>3. CASE j # i /\ j.ver = old
      <4>1. ops'[j.op] = ops[j.op] /\ Withdraws(vers[j.ver], vers'[j.ver]) /\ vers[j.ver].state = "ACTIVE"
        BY <1>1, <1>7, <1>9, <3>3
      <4> QED
        BY <3>1, <4>1 DEF Agree, Withdraws, Published
    <3>4. CASE j # i /\ j.ver # old
      BY <1>1, <1>7, <1>8, <3>1, <3>4
    <3> QED
      BY <3>2, <3>3, <3>4
  <2> QED
    BY <1>4, <2>1 DEF StoryInv
<1>14. HeadInv'
  <2>1. ASSUME NEW j \in intakes, vers'[j.ver].state = "ACTIVE" PROVE docs'[j.doc].active = j.ver
    <3>1. CASE j = i
      BY <1>3, <1>6, <3>1
    <3>2. CASE j # i
      <4>1. j.ver # old
        BY <1>9, <2>1 DEF Withdraws
      <4>2. docs[j.doc].active = j.ver
        BY <1>8, <2>1, <3>2, <4>1 DEF HeadInv
      <4>3. j.doc # i.doc
        BY <4>1, <4>2
      <4> QED
        BY <1>1, <1>6, <4>2, <4>3
    <3> QED
      BY <3>1, <3>2
  <2>2. ASSUME NEW e \in Documents, docs'[e] # None, docs'[e].active # None
        PROVE  \E j \in intakes : j.doc = e /\ j.ver = docs'[e].active /\ vers'[j.ver].state = "ACTIVE"
    <3>1. CASE e = i.doc
      BY <1>3, <1>6, <3>1 DEF Activates
    <3>2. CASE e # i.doc
      <4>1. docs'[e] = docs[e]
        BY <1>6, <3>2
      <4>2. PICK k \in intakes : k.doc = e /\ k.ver = docs[e].active /\ vers[k.ver].state = "ACTIVE"
        BY <2>2, <4>1, ActiveVersion
      <4>3. k # i /\ k.ver # old
        BY <1>9, <3>2, <4>2
      <4> QED
        BY <1>8, <4>1, <4>2, <4>3
    <3> QED
      BY <3>1, <3>2
  <2> QED
    BY <1>4, <2>1, <2>2 DEF HeadInv
<1>15. Advances
  BY <1>5, <1>7 DEF Advances, Settled, Expected
<1> QED
  BY <1>10, <1>11, <1>12, <1>13, <1>14, <1>15

\* A commit, refused or not, keeps the store consistent.
LEMMA CommitKeeps ==
  ASSUME StoreInv, NEW w \in Committing, ops[w.op] # None, CommitActivation(w), UNCHANGED intakes
  PROVE  StoreInv' /\ Advances
<1>1. CASE UNCHANGED <<docs, vers, ops, artifacts>>
  BY <1>1, RefusalKeeps
<1>2. CASE ~UNCHANGED <<docs, vers, ops, artifacts>>
  <2> DEFINE i == IntakeOf(w.op)
  <2>1. BindingsMatch(w) /\ GuardMatches(w, i) /\ \E u, q : Activates(i, w.attempt, u, q)
    BY <1>2, CommitWrites
  <2>2. PICK u, q : Activates(i, w.attempt, u, q)
    BY <2>1
  <2>3. /\ i \in intakes /\ ops[i.op].state \in Expected /\ ops[i.op].attempt = w.attempt
        /\ w.attempt \in ParserAttemptIdentity /\ docs[i.doc].active # i.ver
    BY <2>1, ActivationEffect
  <2> HIDE DEF i
  <2> QED
    BY <2>2, <2>3, ActivationKeeps
<1> QED
  BY <1>1, <1>2

-----------------------------------------------------------------------------
(***************************************************************************)
(* Registration and the dispatch claim.                                    *)
(***************************************************************************)

\* register_intake creates only what is new.
LEMMA CreatedIsNew ==
  ASSUME NEW i \in Intakes, IntakeOutcome(i) = "CREATED"
  PROVE  /\ ~ \E j \in intakes : j.op = i.op
         /\ ~(docs[i.doc] # None /\ docs[i.doc].state = "TOMBSTONED")
         /\ ~(vers[i.ver] # None)
<1> DEFINE a1 == i \in intakes
           a2 == \E j \in intakes : j.op = i.op
           a3 == \E j \in intakes : j.key = i.key
           a4 == \E j \in intakes : Fingerprint(j) = Fingerprint(i)
           a5 == docs[i.doc] # None /\ docs[i.doc].state = "TOMBSTONED"
           a6 == vers[i.ver] # None
           a7 == \E j \in intakes : j.source = i.source
           rules == << <<a1, "EXACT_DUPLICATE">>, <<a2, "IDENTITY_CONFLICT">>, <<a3, "IDENTITY_CONFLICT">>,
                       <<a4, "EXACT_DUPLICATE">>, <<a5, "DOCUMENT_TOMBSTONED">>, <<a6, "IDENTITY_CONFLICT">>,
                       <<a7, "IDENTITY_CONFLICT">>, <<TRUE, "CREATED">> >>
<1>1. FirstMatch(rules) = "CREATED"
  BY Zenon DEF IntakeOutcome
<1> HIDE DEF a1, a2, a3, a4, a5, a6, a7
<1>2. DOMAIN rules = 1 .. 8
  OBVIOUS
<1>3. /\ rules[1] = <<a1, "EXACT_DUPLICATE">> /\ rules[2] = <<a2, "IDENTITY_CONFLICT">>
      /\ rules[3] = <<a3, "IDENTITY_CONFLICT">> /\ rules[4] = <<a4, "EXACT_DUPLICATE">>
      /\ rules[5] = <<a5, "DOCUMENT_TOMBSTONED">> /\ rules[6] = <<a6, "IDENTITY_CONFLICT">>
      /\ rules[7] = <<a7, "IDENTITY_CONFLICT">> /\ rules[8] = <<TRUE, "CREATED">>
  OBVIOUS
<1> HIDE DEF rules
<1>4. PICK k \in 1 .. 8 :
         /\ rules[k][1]
         /\ \A m \in 1 .. k - 1 : ~rules[m][1]
         /\ FirstMatch(rules) = rules[k][2]
  <2>1. 8 \in Nat /\ 8 > 0 /\ rules[8][1]
    BY <1>3
  <2> QED
    BY <1>2, <2>1, FirstMatchApplies, Zenon
<1>5. k = 8
  BY <1>1, <1>3, <1>4
<1>6. ~a2 /\ ~a5 /\ ~a6
  BY <1>3, <1>4, <1>5
<1> QED
  BY <1>6 DEF a2, a5, a6

\* claim_parse_dispatch claims an operation that is ready, with an attempt of its own.
LEMMA ClaimedIsReady ==
  ASSUME NEW r, ClaimOutcome(r) = "CLAIMED"
  PROVE  /\ ops[r.op].state = "READY_FOR_DISPATCH"
         /\ ops[r.op].attempt # None => r.attempt.number = ops[r.op].attempt.number + 1
         /\ \A x \in ops[r.op].history : x.request # r.attempt.request
<1> DEFINE cur == ops[r.op]
           a1 == cur.state = "PARSE_DISPATCH_STARTED" /\ cur.attempt = r.attempt
           a2 == cur.state # "READY_FOR_DISPATCH"
           a3 == cur.sv # r.sv
           a4 == cur.attempt # None /\ (\/ r.attempt.number # cur.attempt.number + 1
                                        \/ r.attempt.request = cur.attempt.request)
           a5 == \E x \in cur.history : x.request = r.attempt.request
           rules == << <<a1, "ALREADY_CLAIMED">>, <<a2, "STATE_CONFLICT">>, <<a3, "VERSION_CONFLICT">>,
                       <<a4, "ATTEMPT_SEQUENCE_CONFLICT">>, <<a5, "INVALID">>, <<TRUE, "CLAIMED">> >>
<1>1. FirstMatch(rules) = "CLAIMED"
  BY Zenon DEF ClaimOutcome
<1> HIDE DEF a1, a2, a3, a4, a5
<1>2. DOMAIN rules = 1 .. 6
  OBVIOUS
<1>3. /\ rules[1] = <<a1, "ALREADY_CLAIMED">> /\ rules[2] = <<a2, "STATE_CONFLICT">>
      /\ rules[3] = <<a3, "VERSION_CONFLICT">> /\ rules[4] = <<a4, "ATTEMPT_SEQUENCE_CONFLICT">>
      /\ rules[5] = <<a5, "INVALID">> /\ rules[6] = <<TRUE, "CLAIMED">>
  OBVIOUS
<1> HIDE DEF rules
<1>4. PICK k \in 1 .. 6 :
         /\ rules[k][1]
         /\ \A m \in 1 .. k - 1 : ~rules[m][1]
         /\ FirstMatch(rules) = rules[k][2]
  <2>1. 6 \in Nat /\ 6 > 0 /\ rules[6][1]
    BY <1>3
  <2> QED
    BY <1>2, <2>1, FirstMatchApplies, Zenon
<1>5. k = 6
  BY <1>1, <1>3, <1>4
<1>6. ~a2 /\ ~a4 /\ ~a5
  BY <1>3, <1>4, <1>5
<1> QED
  BY <1>6 DEF a2, a4, a5

\* The parse claim opens the next attempt of an operation that is ready.
LEMMA ClaimKeeps ==
  ASSUME StoreInv, NEW r, r.op \in Operations, ops[r.op] # None, r.attempt \in ParserAttemptIdentity,
         ClaimOutcome(r) = "CLAIMED", ops' = [ops EXCEPT ![r.op] = Claimed(r)],
         UNCHANGED <<docs, vers, intakes, artifacts>>
  PROVE  StoreInv' /\ Advances /\ ops'[r.op].sv \in Nat
<1> DEFINE o == r.op
           p == ops[o]
           x == r.attempt
           n == p.sv + 1
           q == [state |-> "PARSE_DISPATCH_STARTED", sv |-> n, attempt |-> x, history |-> p.history \cup {x}]
<1>1. /\ p.state = "READY_FOR_DISPATCH"
      /\ p.attempt # None => x.number = p.attempt.number + 1
      /\ \A y \in p.history : y.request # x.request
  BY ClaimedIsReady
<1>2. ops' = [ops EXCEPT ![o] = q]
  BY DEF Claimed
<1>3. p \in IngestionOperationRecord /\ Numbered(p)
  BY DEF StoreInv, StoreTypeOK, AttemptInv
<1>4. x \in ParserAttemptIdentity /\ x # None /\ o \in Operations /\ p # None
  BY NoneAssumption
<1>5. n \in Nat /\ p.history \in SUBSET ParserAttemptIdentity
      /\ (p.attempt # None => p.attempt \in ParserAttemptIdentity)
      /\ \A a, b \in p.history : a # b => a.number # b.number /\ a.request # b.request
  BY <1>3 DEF IngestionOperationRecord
<1>6. \A y \in p.history : y.number < x.number
  <2>1. CASE p.attempt = None
    BY <1>3, <2>1 DEF Numbered
  <2>2. CASE p.attempt # None
    <3>1. ASSUME NEW y \in p.history PROVE y.number < x.number
      <4>1. y.number <= p.attempt.number /\ x.number = p.attempt.number + 1
        BY <1>1, <1>3, <2>2 DEF Numbered
      <4>2. y \in ParserAttemptIdentity /\ p.attempt \in ParserAttemptIdentity
        BY <1>5, <2>2
      <4>3. y.number \in Int /\ p.attempt.number \in Int
        BY <4>2 DEF ParserAttemptIdentity
      <4> QED
        BY <4>1, <4>3
    <3> QED
      BY <3>1
  <2> QED
    BY <2>1, <2>2
<1>7. x.number \in Nat /\ \A y \in p.history : y.number \in Nat
  BY <1>4, <1>5, IngestionAssumption DEF ParserAttemptIdentity
<1> HIDE DEF p, x, n, o
<1>8. /\ q.state = "PARSE_DISPATCH_STARTED" /\ q.sv = n /\ q.attempt = x /\ q.history = p.history \cup {x}
      /\ q \in [state : IngestionOperationState, sv : Nat, attempt : ParserAttemptIdentity \cup {None},
                history : SUBSET ParserAttemptIdentity]
  BY <1>4, <1>5 DEF IngestionOperationState
<1> HIDE DEF q
<1>9. \A a, b \in q.history : a # b => a.number # b.number /\ a.request # b.request
  BY <1>1, <1>5, <1>6, <1>7, <1>8
<1>10. q \in IngestionOperationRecord
  BY <1>4, <1>8, <1>9 DEF IngestionOperationRecord
<1>11. Numbered(q)
  BY <1>4, <1>6, <1>7, <1>8 DEF Numbered
<1>12. Moves(o, q)
  BY <1>1, <1>2, <1>8, <1>10, <1>11 DEF Moves, Settled, p
<1>13. StoreInv' /\ Advances
  BY <1>4, <1>12, MovesKeep DEF p
<1>14. ops'[o] = q
  BY <1>2, <1>4, Zenon DEF StoreInv, StoreTypeOK
<1> QED
  BY <1>5, <1>8, <1>13, <1>14 DEF o

\* register_intake: a version, an operation and, for a new document, its head.
LEMMA IntakeKeeps ==
  ASSUME StoreInv, NEW i \in Intakes, Intake(i)
  PROVE  StoreInv' /\ Advances
<1> USE DEF StoreInv
<1> DEFINE h == IF docs[i.doc] = None THEN [state |-> "REGISTERED", active |-> None, sv |-> 0] ELSE docs[i.doc]
           v == [state |-> "REGISTERED", artifact |-> None, sv |-> 0]
           q == [state |-> "READY_FOR_DISPATCH", sv |-> 0, attempt |-> None, history |-> {}]
<1>1. /\ docs' = [docs EXCEPT ![i.doc] = h] /\ vers' = [vers EXCEPT ![i.ver] = v]
      /\ ops' = [ops EXCEPT ![i.op] = q] /\ intakes' = intakes \cup {i} /\ artifacts' = artifacts
  BY DEF Intake
<1>2. (~ \E j \in intakes : j.op = i.op) /\ vers[i.ver] = None
  BY CreatedIsNew DEF Intake
<1>3. i.op \in Operations /\ i.doc \in Documents /\ i.ver \in Versions
  BY PartsOfIntake
<1>4. \A j \in intakes : /\ j \in Intakes /\ j.op \in Operations /\ j.ver \in Versions /\ j.doc \in Documents
                         /\ j.op # i.op /\ j.ver # i.ver
  BY <1>2, PartsOfIntake DEF StoreTypeOK, IntakeInv
<1>5. ops[i.op] = None
  BY <1>2, <1>3 DEF IntakeInv
<1>6. h \in DocumentHeadSnapshot /\ (docs[i.doc] = None => h.active = None)
      /\ (docs[i.doc] # None => h = docs[i.doc])
  BY <1>3 DEF StoreTypeOK, DocumentHeadSnapshot
<1>7. v \in DocumentVersionLifecycleRecord /\ v.state = "REGISTERED" /\ v.artifact = None
  BY DEF DocumentVersionLifecycleRecord, DocumentVersionLifecycle
<1>8. q \in IngestionOperationRecord /\ q.state = "READY_FOR_DISPATCH" /\ Numbered(q)
  BY DEF IngestionOperationRecord, IngestionOperationState, Numbered
<1> HIDE DEF h, v, q
<1>9. h # None /\ v # None /\ q # None
  BY <1>6, <1>7, <1>8, NoneAssumption
<1>10. /\ docs' \in [Documents -> DocumentHeadSnapshot \cup {None}]
       /\ docs'[i.doc] = h /\ \A e \in Documents : e # i.doc => docs'[e] = docs[e]
  BY <1>1, <1>3, <1>6, Zenon DEF StoreTypeOK
<1>11. /\ vers' \in [Versions -> DocumentVersionLifecycleRecord \cup {None}]
       /\ vers'[i.ver] = v /\ \A x \in Versions : x # i.ver => vers'[x] = vers[x]
  BY <1>1, <1>3, <1>7, Zenon DEF StoreTypeOK
<1>12. /\ ops' \in [Operations -> IngestionOperationRecord \cup {None}]
       /\ ops'[i.op] = q /\ \A p \in Operations : p # i.op => ops'[p] = ops[p]
  BY <1>1, <1>3, <1>8, Zenon DEF StoreTypeOK
<1>13. \A j \in intakes : vers'[j.ver] = vers[j.ver] /\ ops'[j.op] = ops[j.op]
  BY <1>4, <1>11, <1>12
<1>14. \A e \in Documents : /\ docs[e] # None => docs'[e] = docs[e]
                            /\ docs[e] = None /\ docs'[e] # None => docs'[e].active = None
  BY <1>6, <1>10
<1>15. StoreTypeOK'
  BY <1>1, <1>10, <1>11, <1>12 DEF StoreTypeOK
<1>16. AttemptInv'
  BY <1>8, <1>12 DEF AttemptInv
<1>17. IntakeInv'
  <2>1. \A j, k \in intakes' : j.op = k.op \/ j.ver = k.ver => j = k
    BY <1>1, <1>4 DEF IntakeInv
  <2>2. \A j \in intakes' : docs'[j.doc] # None /\ vers'[j.ver] # None /\ ops'[j.op] # None
    <3>1. docs'[i.doc] # None /\ vers'[i.ver] # None /\ ops'[i.op] # None
      BY <1>9, <1>10, <1>11, <1>12
    <3>2. \A j \in intakes : docs'[j.doc] # None /\ vers'[j.ver] # None /\ ops'[j.op] # None
      BY <1>4, <1>13, <1>14 DEF IntakeInv
    <3> QED
      BY <1>1, <3>1, <3>2
  <2>3. \A o \in Operations : ops'[o] # None => \E j \in intakes' : j.op = o
    BY <1>1, <1>12 DEF IntakeInv
  <2>4. \A x \in Versions : vers'[x] # None => \E j \in intakes' : j.ver = x
    BY <1>1, <1>11 DEF IntakeInv
  <2> QED
    BY <2>1, <2>2, <2>3, <2>4 DEF IntakeInv
<1>18. StoryInv'
  <2>1. Agree(i.op, ops'[i.op], vers'[i.ver])
    BY <1>7, <1>8, <1>11, <1>12 DEF Agree, Published
  <2>2. \A j \in intakes : Agree(j.op, ops'[j.op], vers'[j.ver])
    BY <1>13, Zenon DEF StoryInv
  <2> QED
    BY <1>1, <2>1, <2>2 DEF StoryInv
<1>19. HeadInv'
  <2>1. \A j \in intakes' : vers'[j.ver].state = "ACTIVE" => docs'[j.doc].active = j.ver
    <3>1. vers'[i.ver].state # "ACTIVE"
      BY <1>7, <1>11
    <3>2. \A j \in intakes : vers'[j.ver].state = "ACTIVE" => docs'[j.doc].active = j.ver
      BY <1>4, <1>13, <1>14 DEF HeadInv, IntakeInv
    <3> QED
      BY <1>1, <3>1, <3>2
  <2>2. ASSUME NEW d \in Documents, docs'[d] # None, docs'[d].active # None
        PROVE  \E j \in intakes' : j.doc = d /\ j.ver = docs'[d].active /\ vers'[j.ver].state = "ACTIVE"
    <3>1. docs[d] # None /\ docs'[d] = docs[d]
      BY <1>14, <2>2
    <3>2. PICK k \in intakes : k.doc = d /\ k.ver = docs[d].active /\ vers[k.ver].state = "ACTIVE"
      BY <2>2, <3>1, ActiveVersion
    <3> QED
      BY <1>1, <1>13, <3>1, <3>2
  <2> QED
    BY <2>1, <2>2 DEF HeadInv
<1>20. Advances
  BY <1>5, <1>12 DEF Advances
<1> QED
  BY <1>15, <1>16, <1>17, <1>18, <1>19, <1>20

\* prepare_proven_not_executed_retry.
LEMMA RetryKeeps ==
  ASSUME StoreInv, NEW o \in Operations, NEW r \in RequestIds, PrepareRetry(o, r)
  PROVE  /\ StoreInv' /\ Advances /\ ops[o] # None
         /\ [number |-> ops[o].attempt.number + 1, request |-> r] \in ParserAttemptIdentity
<1>1. /\ ops[o] # None /\ ops[o].state = "PROVEN_NOT_EXECUTED" /\ ops[o].attempt.number < MaxAttempts
      /\ ops' = Step(o, "READY_FOR_DISPATCH") /\ UNCHANGED <<docs, vers, intakes, artifacts>>
  BY DEF PrepareRetry, ReadyForRetry
<1>2. ops[o] \in IngestionOperationRecord /\ ops[o].attempt # None
  BY <1>1 DEF StoreInv, StoreTypeOK, AttemptInv, Numbered
<1>3. ops[o].attempt \in ParserAttemptIdentity
  BY <1>2 DEF IngestionOperationRecord
<1>4. ops[o].attempt.number + 1 \in 1 .. MaxAttempts
  BY <1>1, <1>3, IngestionAssumption DEF ParserAttemptIdentity
<1>5. [number |-> ops[o].attempt.number + 1, request |-> r] \in ParserAttemptIdentity
  BY <1>4 DEF ParserAttemptIdentity
<1>6. "READY_FOR_DISPATCH" \in IngestionOperationState \ {"COMPLETED", "QUARANTINED"}
  BY DEF IngestionOperationState
<1>7. StoreInv' /\ Advances
  BY <1>1, <1>2, <1>6, TransitionKeeps DEF Settled
<1> QED
  BY <1>1, <1>5, <1>7

-----------------------------------------------------------------------------
(***************************************************************************)
(* Actors.                                                                 *)
(***************************************************************************)

\* What an actor that is not idle holds.
LEMMA Holder ==
  ASSUME ActorInv, NEW a \in Actors, act[a].pc # "idle"
  PROVE  /\ act[a].op \in Operations /\ ops[act[a].op] # None
         /\ act[a].pc = "commit" => act[a] \in Committing
         /\ act[a].pc # "commit" => act[a] \in Holding
<1>1. act[a] \in {Idle} \cup Holding \cup Committing /\ ops[act[a].op] # None
  BY DEF ActorInv
<1>2. act[a] # Idle
  BY DEF Idle
<1>3. CASE act[a] \in Holding
  BY <1>1, <1>3 DEF Holding
<1>4. CASE act[a] \in Committing
  BY <1>1, <1>4 DEF Committing
<1> QED
  BY <1>1, <1>2, <1>3, <1>4

\* One actor goes on or lets go.
LEMMA ActorMoves ==
  ASSUME ActorInv, Advances, NEW a \in Actors, NEW w \in {Idle} \cup Holding \cup Committing,
         act' = [act EXCEPT ![a] = w], w.pc # "idle" => w.op \in Operations /\ ops[w.op] # None,
         requests' = requests
  PROVE  ActorInv'
<1>1. /\ act' \in [Actors -> {Idle} \cup Holding \cup Committing]
      /\ act'[a] = w /\ \A b \in Actors : b # a => act'[b] = act[b]
  BY Zenon DEF ActorInv
<1>2. \A p \in Operations : ops[p] # None => ops'[p] # None
  BY DEF Advances
<1>3. ASSUME NEW b \in Actors, act'[b].pc # "idle" PROVE ops'[act'[b].op] # None
  <2>1. CASE b = a
    BY <1>1, <1>2, <1>3, <2>1
  <2>2. CASE b # a
    <3>1. act[b].op \in Operations /\ ops[act[b].op] # None
      BY <1>1, <1>3, <2>2, Holder
    <3> QED
      BY <1>1, <1>2, <2>2, <3>1
  <2> QED
    BY <2>1, <2>2
<1>4. \A r \in requests : r.op \in Operations /\ ops'[r.op] # None /\ r.attempt \in ParserAttemptIdentity
  BY <1>2 DEF ActorInv
<1> QED
  BY <1>1, <1>3, <1>4 DEF ActorInv

\* An actor that puts its work down holds nothing the invariant is about.
LEMMA ActorRests ==
  ASSUME ActorInv, Advances, NEW a \in Actors, Release(a), requests' = requests
  PROVE  ActorInv'
<1>1. Idle \in {Idle} \cup Holding \cup Committing /\ Idle.pc = "idle"
  BY DEF Idle
<1> QED
  BY <1>1, ActorMoves DEF Release

\* An actor that goes on works on the same operation.
LEMMA ActorContinues ==
  ASSUME ActorInv, Advances, NEW a \in Actors, act[a].pc \notin {"idle", "commit"},
         NEW pc \in {"lost", "reject", "read", "FAILED", "PROVEN_NOT_EXECUTED"},
         Continue(a, pc), requests' = requests
  PROVE  ActorInv'
<1> DEFINE u == act[a]
           w == [u EXCEPT !.pc = pc]
<1>1. u \in Holding /\ u.op \in Operations /\ ops[u.op] # None
  BY Holder
<1>2. act' = [act EXCEPT ![a] = w]
  BY DEF Continue, ActorInv
<1> HIDE DEF u
<1>3. w \in Holding /\ w.op = u.op
  BY <1>1 DEF Holding
<1> HIDE DEF w
<1> QED
  BY <1>1, <1>2, <1>3, ActorMoves

\* Steps that change nothing in the store.
LEMMA StoreRests ==
  ASSUME StoreInv, UNCHANGED store
  PROVE  StoreInv' /\ Advances
BY RefusalKeeps DEF store

\* One lemma for each step of an actor, and then for the callers.
LEMMA RunStep ==
  ASSUME IngestionInv, NEW a \in Actors, NEW r \in requests, Run(a, r)
  PROVE  IngestionInv' /\ Advances
<1> USE DEF IngestionInv
<1> DEFINE w == [pc |-> "parse", op |-> r.op, attempt |-> r.attempt, sv |-> ops'[r.op].sv,
                 expect |-> "PARSE_DISPATCH_STARTED"]
<1>1. /\ ClaimOutcome(r) = "CLAIMED" /\ ops' = [ops EXCEPT ![r.op] = Claimed(r)]
      /\ act' = [act EXCEPT ![a] = w] /\ UNCHANGED <<docs, vers, intakes, artifacts, requests>>
  BY DEF Run
<1>2. r.op \in Operations /\ ops[r.op] # None /\ r.attempt \in ParserAttemptIdentity
  BY DEF ActorInv
<1>3. StoreInv' /\ Advances /\ ops'[r.op].sv \in Nat
  BY <1>1, <1>2, ClaimKeeps
<1>4. w \in Holding /\ w.op = r.op
  BY <1>2, <1>3 DEF Holding, Expected
<1> HIDE DEF w
<1>5. ActorInv'
  BY <1>1, <1>2, <1>3, <1>4, ActorMoves
<1> QED
  BY <1>3, <1>5

LEMMA ParseStep ==
  ASSUME IngestionInv, NEW a \in Actors, Parse(a)
  PROVE  IngestionInv' /\ Advances
<1> USE DEF IngestionInv
<1>1. act[a].pc = "parse" /\ UNCHANGED <<store, requests>>
  BY DEF Parse
<1>2. PICK pc \in {"lost", "reject", "read"} : Continue(a, pc)
  <2>1. PICK outcome :
           CASE outcome = "UNKNOWN" -> Continue(a, "lost")
             [] outcome = "CANDIDATE" -> \E d \in {{}} \cup {{x} : x \in Defects} :
                   Continue(a, IF Validate(d) = "READY_FOR_COMMIT" THEN "read" ELSE "reject")
             [] OTHER -> Continue(a, "reject")
    BY DEF Parse
  <2>2. CASE outcome = "UNKNOWN"
    BY <2>1, <2>2
  <2>3. CASE outcome = "CANDIDATE"
    <3>1. PICK d : Continue(a, IF Validate(d) = "READY_FOR_COMMIT" THEN "read" ELSE "reject")
      BY <2>1, <2>3
    <3>2. CASE Validate(d) = "READY_FOR_COMMIT"
      BY <3>1, <3>2
    <3>3. CASE Validate(d) # "READY_FOR_COMMIT"
      BY <3>1, <3>3
    <3> QED
      BY <3>2, <3>3
  <2>4. CASE outcome \notin {"UNKNOWN", "CANDIDATE"}
    BY <2>1, <2>4
  <2> QED
    BY <2>2, <2>3, <2>4
<1>3. StoreInv' /\ Advances
  BY <1>1, StoreRests
<1>4. ActorInv'
  BY <1>1, <1>2, <1>3, ActorContinues
<1> QED
  BY <1>3, <1>4

LEMMA RunLostStep ==
  ASSUME IngestionInv, NEW a \in Actors, RunLost(a)
  PROVE  IngestionInv' /\ Advances
<1> USE DEF IngestionInv
<1>1. /\ act[a].pc = "lost" /\ MarkPending(act[a].op, act[a].sv) /\ Release(a)
      /\ UNCHANGED <<docs, vers, intakes, artifacts, requests>>
  BY DEF RunLost
<1>2. act[a].op \in Operations /\ ops[act[a].op] # None
  BY <1>1, Holder
<1>3. StoreInv' /\ Advances
  BY <1>1, <1>2, MarkPendingKeeps
<1>4. ActorInv'
  BY <1>1, <1>3, ActorRests
<1> QED
  BY <1>3, <1>4

LEMMA RunRejectedStep ==
  ASSUME IngestionInv, NEW a \in Actors, RunRejected(a)
  PROVE  IngestionInv' /\ Advances
<1> USE DEF IngestionInv
<1>1. /\ act[a].pc = "reject" /\ MarkQuarantined(act[a].op, act[a].sv) /\ Release(a)
      /\ UNCHANGED <<docs, intakes, artifacts, requests>>
  BY DEF RunRejected
<1>2. act[a].op \in Operations /\ ops[act[a].op] # None
  BY <1>1, Holder
<1>3. StoreInv' /\ Advances
  BY <1>1, <1>2, MarkQuarantinedKeeps
<1>4. ActorInv'
  BY <1>1, <1>3, ActorRests
<1> QED
  BY <1>3, <1>4

LEMMA ReadGuardStep ==
  ASSUME IngestionInv, NEW a \in Actors, ReadGuard(a)
  PROVE  IngestionInv' /\ Advances
<1> USE DEF IngestionInv
<1> DEFINE u == act[a]
           i == IntakeOf(u.op)
           w == [pc |-> "commit", op |-> u.op, attempt |-> u.attempt, sv |-> u.sv, expect |-> u.expect,
                 head |-> docs[i.doc], ver |-> vers[i.ver]]
<1>1. u.pc = "read" /\ act' = [act EXCEPT ![a] = w] /\ UNCHANGED <<store, requests>>
  BY DEF ReadGuard, ActivationGuard
<1>2. u \in Holding /\ u.op \in Operations /\ ops[u.op] # None
  BY <1>1, Holder
<1>3. i \in intakes
  BY <1>2, IntakeOfKnown DEF StoreInv
<1> HIDE DEF i, u
<1>4. docs[i.doc] \in DocumentHeadSnapshot /\ vers[i.ver] \in DocumentVersionLifecycleRecord
  BY <1>3, Records DEF StoreInv
<1>5. w \in Committing /\ w.op = u.op
  BY <1>2, <1>4 DEF Holding, Committing
<1>6. StoreInv' /\ Advances
  BY <1>1, StoreRests
<1> HIDE DEF w
<1>7. ActorInv'
  BY <1>1, <1>2, <1>5, <1>6, ActorMoves
<1> QED
  BY <1>6, <1>7

LEMMA CommitStep ==
  ASSUME IngestionInv, NEW a \in Actors, Commit(a)
  PROVE  IngestionInv' /\ Advances
<1> USE DEF IngestionInv
<1>1. /\ act[a].pc = "commit" /\ CommitActivation(act[a]) /\ Release(a) /\ UNCHANGED <<intakes, requests>>
  BY DEF Commit
<1>2. act[a] \in Committing /\ ops[act[a].op] # None
  BY <1>1, Holder
<1>3. StoreInv' /\ Advances
  BY <1>1, <1>2, CommitKeeps
<1>4. ActorInv'
  BY <1>1, <1>3, ActorRests
<1> QED
  BY <1>3, <1>4

LEMMA RecoverReadStep ==
  ASSUME IngestionInv, NEW a \in Actors, NEW o \in Operations, RecoverRead(a, o)
  PROVE  IngestionInv' /\ Advances
<1> USE DEF IngestionInv
<1> DEFINE pc == IF ops[o].state = "PARSE_DISPATCH_STARTED" THEN "mark" ELSE "query"
           w == [pc |-> pc, op |-> o, attempt |-> ops[o].attempt, sv |-> ops[o].sv,
                 expect |-> "PENDING_RECONCILIATION"]
<1>1. ops[o] # None /\ act' = [act EXCEPT ![a] = w] /\ UNCHANGED <<store, requests>>
  BY DEF RecoverRead
<1>2. ops[o] \in IngestionOperationRecord /\ pc \in {"mark", "query"}
  BY <1>1 DEF StoreInv, StoreTypeOK
<1> HIDE DEF pc
<1>3. ops[o].attempt \in ParserAttemptIdentity \cup {None} /\ ops[o].sv \in Nat
  BY <1>2 DEF IngestionOperationRecord
<1>4. w \in Holding /\ w.op = o
  BY <1>2, <1>3 DEF Holding, Expected
<1>5. StoreInv' /\ Advances
  BY <1>1, StoreRests
<1> HIDE DEF w
<1>6. ActorInv'
  BY <1>1, <1>4, <1>5, ActorMoves
<1> QED
  BY <1>5, <1>6

LEMMA RecoverMarkStep ==
  ASSUME IngestionInv, NEW a \in Actors, RecoverMark(a)
  PROVE  IngestionInv' /\ Advances
<1> USE DEF IngestionInv
<1> DEFINE u == act[a]
           n == ops'[u.op].sv
           t == ops'[u.op].attempt
           w == [u EXCEPT !.pc = "query", !.sv = n, !.attempt = t]
<1>1. /\ u.pc = "mark" /\ MarkPending(u.op, u.sv)
      /\ act' = [act EXCEPT ![a].pc = "query", ![a].sv = n, ![a].attempt = t]
      /\ UNCHANGED <<docs, vers, intakes, artifacts, requests>>
  BY DEF RecoverMark
<1>2. u \in Holding /\ u.op \in Operations /\ ops[u.op] # None
  BY <1>1, Holder
<1>3. StoreInv' /\ Advances
  BY <1>1, <1>2, MarkPendingKeeps
<1>4. ops'[u.op] \in IngestionOperationRecord
  BY <1>2, <1>3 DEF StoreInv, StoreTypeOK, Advances
<1>5. t \in ParserAttemptIdentity \cup {None} /\ n \in Nat
  BY <1>4 DEF IngestionOperationRecord
<1>6. act' = [act EXCEPT ![a] = w]
  BY <1>1 DEF ActorInv
<1> HIDE DEF n, t, u
<1>7. w \in Holding /\ w.op = u.op
  BY <1>2, <1>5 DEF Holding
<1> HIDE DEF w
<1>8. ActorInv'
  BY <1>1, <1>2, <1>3, <1>6, <1>7, ActorMoves
<1> QED
  BY <1>3, <1>8

LEMMA RecoverQueryStep ==
  ASSUME IngestionInv, NEW a \in Actors, RecoverQuery(a)
  PROVE  IngestionInv' /\ Advances
<1> USE DEF IngestionInv
<1> DEFINE u == act[a]
           W(s, binds) == CASE ~binds \/ s \in {"NOT_FOUND", "UNKNOWN"} -> Idle
                            [] binds /\ s = "FAILED" -> [u EXCEPT !.pc = "FAILED"]
                            [] binds /\ s = "NOT_EXECUTED" -> [u EXCEPT !.pc = "PROVEN_NOT_EXECUTED"]
                            [] binds /\ s = "SUCCEEDED" -> [u EXCEPT !.pc = "read"]
<1>1. u.pc = "query" /\ UNCHANGED <<store, requests>>
  BY DEF RecoverQuery
<1>2. PICK s \in {"NOT_FOUND", "UNKNOWN", "SUCCEEDED", "FAILED", "NOT_EXECUTED"}, binds \in BOOLEAN :
         act' = [act EXCEPT ![a] = W(s, binds)]
  <2>1. PICK s \in Evidence(u.op, u.attempt), binds \in BOOLEAN : act' = [act EXCEPT ![a] = W(s, binds)]
    BY DEF RecoverQuery, ActorInv
  <2>2. s \in {"NOT_FOUND", "UNKNOWN", "SUCCEEDED", "FAILED", "NOT_EXECUTED"}
    BY DEF Evidence
  <2> QED
    BY <2>1, <2>2
<1>3. u \in Holding /\ u.op \in Operations /\ ops[u.op] # None
  BY <1>1, Holder
<1> DEFINE w == W(s, binds)
<1>4. w = Idle \/ \E pc \in {"FAILED", "PROVEN_NOT_EXECUTED", "read"} : w = [u EXCEPT !.pc = pc]
  OBVIOUS
<1> HIDE DEF u
<1>5. \A pc \in {"FAILED", "PROVEN_NOT_EXECUTED", "read"} :
          [u EXCEPT !.pc = pc] \in Holding /\ [u EXCEPT !.pc = pc].op = u.op
  BY <1>3 DEF Holding
<1>6. act' = [act EXCEPT ![a] = w]
  BY <1>2
<1> HIDE DEF w, W
<1>7. /\ w \in {Idle} \cup Holding \cup Committing
      /\ w.pc # "idle" => w.op = u.op
  <2>1. CASE w = Idle
    BY <2>1 DEF Idle
  <2>2. ASSUME NEW pc \in {"FAILED", "PROVEN_NOT_EXECUTED", "read"}, w = [u EXCEPT !.pc = pc]
        PROVE  w \in Holding /\ w.op = u.op
    BY <1>5, <2>2, Zenon
  <2> QED
    BY <1>4, <2>1, <2>2
<1>8. StoreInv' /\ Advances
  BY <1>1, StoreRests
<1>9. ActorInv'
  BY <1>1, <1>3, <1>6, <1>7, <1>8, ActorMoves
<1> QED
  BY <1>8, <1>9

LEMMA RecoverResolveStep ==
  ASSUME IngestionInv, NEW a \in Actors, RecoverResolve(a)
  PROVE  IngestionInv' /\ Advances
<1> USE DEF IngestionInv
<1>1. /\ act[a].pc \in {"FAILED", "PROVEN_NOT_EXECUTED"}
      /\ CommitReconciliation(act[a].op, act[a].pc, act[a].sv) /\ Release(a)
      /\ UNCHANGED <<docs, vers, intakes, artifacts, requests>>
  BY DEF RecoverResolve
<1>2. act[a].op \in Operations /\ ops[act[a].op] # None
  BY <1>1, Holder
<1>3. StoreInv' /\ Advances
  BY <1>1, <1>2, ReconciliationKeeps
<1>4. ActorInv'
  BY <1>1, <1>3, ActorRests
<1> QED
  BY <1>3, <1>4

LEMMA CrashStep ==
  ASSUME IngestionInv, NEW a \in Actors, Crash(a)
  PROVE  IngestionInv' /\ Advances
BY StoreRests, ActorRests DEF IngestionInv, Crash

\* A caller gets a dispatch request for an operation that is there.
LEMMA RequestsGrow ==
  ASSUME ActorInv, Advances, UNCHANGED act, NEW r, requests' = requests \cup {r},
         r.op \in Operations, ops'[r.op] # None, r.attempt \in ParserAttemptIdentity
  PROVE  ActorInv'
<1>1. \A p \in Operations : ops[p] # None => ops'[p] # None
  BY DEF Advances
<1>2. ASSUME NEW b \in Actors, act[b].pc # "idle" PROVE ops'[act[b].op] # None
  BY <1>1, <1>2, Holder
<1>3. \A x \in requests : x.op \in Operations /\ ops'[x.op] # None /\ x.attempt \in ParserAttemptIdentity
  BY <1>1 DEF ActorInv
<1> QED
  BY <1>2, <1>3 DEF ActorInv

LEMMA IntakeStep ==
  ASSUME IngestionInv, NEW i \in Intakes, Intake(i)
  PROVE  IngestionInv' /\ Advances
<1> USE DEF IngestionInv
<1> DEFINE x == [number |-> 1, request |-> i.request]
           r == [op |-> i.op, attempt |-> x, sv |-> 0]
<1>1. StoreInv' /\ Advances
  BY IntakeKeeps
<1>2. i.op \in Operations /\ i.request \in RequestIds
  BY PartsOfIntake
<1>3. x \in ParserAttemptIdentity
  BY <1>2, IngestionAssumption DEF ParserAttemptIdentity
<1>4. requests' = requests \cup {r} /\ UNCHANGED act /\ i \in intakes'
  BY DEF Intake
<1>5. ops'[i.op] # None
  BY <1>1, <1>4 DEF StoreInv, IntakeInv
<1> HIDE DEF x
<1>6. r.op = i.op /\ r.attempt = x
  OBVIOUS
<1> HIDE DEF r
<1>7. ActorInv'
  BY <1>1, <1>2, <1>3, <1>4, <1>5, <1>6, RequestsGrow
<1> QED
  BY <1>1, <1>7

LEMMA RetryStep ==
  ASSUME IngestionInv, NEW o \in Operations, NEW request \in RequestIds, PrepareRetry(o, request)
  PROVE  IngestionInv' /\ Advances
<1> USE DEF IngestionInv
<1> DEFINE x == [number |-> ops[o].attempt.number + 1, request |-> request]
           r == [op |-> o, attempt |-> x, sv |-> ops'[o].sv]
<1>1. StoreInv' /\ Advances /\ ops[o] # None /\ x \in ParserAttemptIdentity
  BY RetryKeeps
<1>2. requests' = requests \cup {r} /\ UNCHANGED act
  BY DEF PrepareRetry
<1> HIDE DEF x
<1>3. r.op = o /\ r.attempt = x
  OBVIOUS
<1> HIDE DEF r
<1>4. ops'[o] # None
  BY <1>1 DEF Advances
<1>5. ActorInv'
  BY <1>1, <1>2, <1>3, <1>4, RequestsGrow
<1> QED
  BY <1>1, <1>5

LEMMA TombstoneStep ==
  ASSUME IngestionInv, NEW d \in Documents, TombstoneDocument(d)
  PROVE  IngestionInv' /\ Advances
<1>1. StoreInv' /\ Advances
  BY TombstoneKeeps DEF IngestionInv
<1>2. UNCHANGED <<ops, requests, act>>
  BY DEF TombstoneDocument
<1>3. ActorInv'
  BY <1>2 DEF IngestionInv, ActorInv
<1> QED
  BY <1>1, <1>3 DEF IngestionInv

-----------------------------------------------------------------------------
\* The empty store satisfies the invariant.
LEMMA IngestionInit == Init => IngestionInv
<1> SUFFICES ASSUME Init PROVE IngestionInv
  OBVIOUS
<1>1. StoreTypeOK /\ AttemptInv /\ IntakeInv /\ StoryInv /\ HeadInv
  BY DEF Init, StoreTypeOK, AttemptInv, IntakeInv, StoryInv, HeadInv
<1>2. ActorInv
  BY DEF Init, ActorInv, Idle
<1> QED
  BY <1>1, <1>2 DEF IngestionInv, StoreInv

\* Every step keeps the invariant.
LEMMA IngestionStep ==
  ASSUME IngestionInv, [Next]_vars
  PROVE  IngestionInv' /\ Advances
<1>1. CASE UNCHANGED vars
  <2>1. StoreInv' /\ Advances
    BY <1>1, StoreRests DEF IngestionInv, vars
  <2>2. ActorInv'
    BY <1>1 DEF IngestionInv, ActorInv, vars, store
  <2> QED
    BY <2>1, <2>2 DEF IngestionInv
<1>2. ASSUME NEW a \in Actors, ActorNext(a) PROVE IngestionInv' /\ Advances
  BY <1>2, RunStep, ParseStep, RunLostStep, RunRejectedStep, ReadGuardStep, CommitStep, RecoverReadStep,
     RecoverMarkStep, RecoverQueryStep, RecoverResolveStep, CrashStep DEF ActorNext
<1> QED
  BY <1>1, <1>2, IntakeStep, RetryStep, TombstoneStep DEF Next

\* The store's tables stay in step and well typed, whatever actors do, crash or come late.
THEOREM IngestionInvariant == Spec => []IngestionInv
<1>1. IngestionInv /\ [Next]_vars => IngestionInv'
  BY IngestionStep
<1> QED
  BY <1>1, IngestionInit, PTL DEF Spec

\* A head names the one active version of its document, and an operation and its version agree
\* (the tables that IngestionCommitter.commit, mark_quarantined and tombstone_document write).
THEOREM HeadsNameActiveVersions == Spec => []HeadNamesTheActiveVersion
<1>1. IngestionInv => HeadNamesTheActiveVersion
  <2> SUFFICES ASSUME IngestionInv PROVE HeadNamesTheActiveVersion
    OBVIOUS
  <2> USE DEF IngestionInv, StoreInv
  <2>1. ASSUME NEW v \in Versions, vers[v] # None, vers[v].state = "ACTIVE"
        PROVE  docs[DocumentOf[v]].active = v
    <3>1. PICK i \in intakes : i.ver = v
      BY <2>1 DEF IntakeInv
    <3>2. DocumentOf[v] = i.doc
      BY <3>1, Records, PartsOfIntake
    <3> QED
      BY <2>1, <3>1, <3>2 DEF HeadInv
  <2>2. ASSUME NEW d \in Documents, docs[d] # None, docs[d].active # None
        PROVE  \E o \in Operations : /\ Eligible(o) /\ IntakeOf(o).ver = docs[d].active
                                     /\ vers[docs[d].active].artifact = [op |-> o, attempt |-> ops[o].attempt]
    <3>1. PICK k \in intakes : k.doc = d /\ k.ver = docs[d].active /\ vers[k.ver].state = "ACTIVE"
      BY <2>2, ActiveVersion
    <3>2. IntakeOf(k.op) = k /\ k.op \in Operations /\ ops[k.op] # None
      BY IntakeOfItsOwn, Records, PartsOfIntake
    <3>3. docs[d].state = "ACTIVE"
      BY <2>2 DEF StoreTypeOK, DocumentHeadSnapshot
    <3>4. /\ ops[k.op].state = "COMPLETED" /\ vers[k.ver].artifact # None
          /\ vers[k.ver].artifact = [op |-> k.op, attempt |-> ops[k.op].attempt]
      BY <3>1 DEF StoryInv, Agree, Published
    <3>5. Eligible(k.op)
      BY <3>1, <3>2, <3>3, <3>4 DEF Eligible
    <3> QED
      BY <3>1, <3>2, <3>4, <3>5
  <2>3. ASSUME NEW o \in Operations, ops[o] # None
        PROVE  LET v == vers[IntakeOf(o).ver]
               IN  /\ ops[o].state = "COMPLETED" <=> v.artifact # None
                   /\ ops[o].state = "QUARANTINED" <=> v.state = "QUARANTINED"
    <3>1. IntakeOf(o) \in intakes /\ IntakeOf(o).op = o
      BY <2>3, IntakeOfKnown
    <3> QED
      BY <3>1 DEF StoryInv, Agree
  <2> QED
    BY <2>1, <2>2, <2>3 DEF HeadNamesTheActiveVersion
<1> QED
  BY <1>1, IngestionInvariant, PTL

\* A settled operation never changes, and only a dispatched one is completed: a late parser or
\* a second recovery is refused by the operation's state and version.
THEOREM SettledOperationsStay == Spec => SettledStaysSettled
<1> DEFINE A == \A o \in Operations : ops[o] # None =>
        /\ ops[o].state \in {"COMPLETED", "FAILED", "QUARANTINED"} => ops'[o] = ops[o]
        /\ ops'[o].state = "COMPLETED" /\ ops[o] # ops'[o] =>
              ops[o].state \in {"PARSE_DISPATCH_STARTED", "PENDING_RECONCILIATION"}
<1>1. IngestionInv /\ [Next]_vars => [A]_vars
  BY IngestionStep DEF Advances, Settled, Expected
<1>2. Spec => [][A]_vars
  BY <1>1, IngestionInvariant, PTL DEF Spec
<1> QED
  BY <1>2 DEF SettledStaysSettled

-----------------------------------------------------------------------------
(***************************************************************************)
(* Ingestion implements RagDocument.                                       *)
(***************************************************************************)

\* The refinement mapping, one head at a time.
HeadOf(h) == IF h = None THEN [state |-> "ABSENT", active |-> None, rev |-> 0]
             ELSE [state |-> h.state, active |-> h.active, rev |-> h.sv]
Heads == [d \in Documents |-> HeadOf(docs[d])]
PublishedVersions == {v \in Versions : vers[v] # None /\ vers[v].artifact # None}

\* The versions with publication facts are those whose operation completed.
CompletedVersions == {v \in Versions : \E i \in intakes : i.ver = v /\ ops[i.op].state = "COMPLETED"}
PublicationInv == PublishedVersions = CompletedVersions

\* The versions with publication facts are those of completed operations, before and after a step.
LEMMA CompletedArePublished == StoreInv => PublicationInv
<1> SUFFICES ASSUME StoreInv PROVE PublicationInv
  OBVIOUS
<1>1. ASSUME NEW v \in Versions
      PROVE  (vers[v] # None /\ vers[v].artifact # None)
                <=> \E i \in intakes : i.ver = v /\ ops[i.op].state = "COMPLETED"
  <2>1. ASSUME NEW i \in intakes, i.ver = v
        PROVE  vers[v] # None /\ (vers[v].artifact # None <=> ops[i.op].state = "COMPLETED")
    BY <2>1 DEF StoreInv, IntakeInv, StoryInv, Agree
  <2>2. vers[v] # None => \E i \in intakes : i.ver = v
    BY DEF StoreInv, IntakeInv
  <2> QED
    BY <2>1, <2>2
<1> QED
  BY <1>1 DEF PublicationInv, PublishedVersions, CompletedVersions

LEMMA CompletedArePublishedNext == StoreInv' => PublicationInv'
BY CompletedArePublished, PTL

\* A step that completes no operation publishes nothing.
LEMMA SamePublished ==
  ASSUME StoreInv, StoreInv', intakes' = intakes,
         \A i \in intakes : ops'[i.op].state = "COMPLETED" <=> ops[i.op].state = "COMPLETED"
  PROVE  PublishedVersions' = PublishedVersions
<1>1. PublishedVersions = CompletedVersions /\ PublishedVersions' = CompletedVersions'
  BY CompletedArePublished, CompletedArePublishedNext DEF PublicationInv
<1>2. \A v : (\E i \in intakes' : i.ver = v /\ ops'[i.op].state = "COMPLETED")
               <=> (\E i \in intakes : i.ver = v /\ ops[i.op].state = "COMPLETED")
  OBVIOUS
<1>3. CompletedVersions' = CompletedVersions
  BY <1>2 DEF CompletedVersions
<1> QED
  BY <1>1, <1>3

\* Writing one head.
LEMMA HeadWritten ==
  ASSUME StoreTypeOK, NEW d \in Documents, NEW h, docs' = [docs EXCEPT ![d] = h]
  PROVE  Heads' = [Heads EXCEPT ![d] = HeadOf(h)]
<1>1. docs'[d] = h /\ \A e \in Documents : e # d => docs'[e] = docs[e]
  BY DEF StoreTypeOK
<1>2. Heads' = [e \in Documents |-> HeadOf(docs'[e])] /\ Heads = [e \in Documents |-> HeadOf(docs[e])]
  BY DEF Heads, HeadOf
<1>3. \A e \in Documents : HeadOf(docs'[e]) = IF e = d THEN HeadOf(h) ELSE Heads[e]
  BY <1>1, <1>2
<1> QED
  BY <1>2, <1>3

\* One lemma for each operation that changes a head: the step of RagDocument it is.
LEMMA TombstoneRefines ==
  ASSUME StoreInv, StoreInv', NEW d \in Documents, TombstoneDocument(d)
  PROVE  Document!Tombstone(d)
<1> DEFINE h == [state |-> "TOMBSTONED", active |-> None, sv |-> docs[d].sv + 1]
<1>1. docs[d] # None /\ docs[d].state # "TOMBSTONED" /\ docs' = [docs EXCEPT ![d] = h]
      /\ UNCHANGED <<ops, intakes>>
  BY DEF TombstoneDocument
<1>2. docs[d] \in DocumentHeadSnapshot
  BY <1>1 DEF StoreInv, StoreTypeOK
<1>3. h # None
  <2>1. h \in DocumentHeadSnapshot
    BY <1>2 DEF DocumentHeadSnapshot
  <2> QED
    BY <2>1, NoneAssumption
<1>4. Heads' = [Heads EXCEPT ![d] = HeadOf(h)]
  BY <1>1, HeadWritten DEF StoreInv
<1>5. HeadOf(h) = [state |-> "TOMBSTONED", active |-> None, rev |-> Heads[d].rev + 1]
  BY <1>1, <1>3 DEF HeadOf, Heads
<1>6. Heads[d].state \in {"REGISTERED", "ACTIVE"}
  BY <1>1, <1>2 DEF HeadOf, Heads, DocumentHeadSnapshot
<1>7. PublishedVersions' = PublishedVersions
  BY <1>1, SamePublished
<1>8. Heads' = [Heads EXCEPT ![d] = [state |-> "TOMBSTONED", active |-> None, rev |-> @.rev + 1]]
  BY <1>4, <1>5
<1> QED
  BY <1>6, <1>7, <1>8, Zenon DEF Document!Tombstone, Heads, HeadOf, PublishedVersions

LEMMA IntakeRefines ==
  ASSUME StoreInv, StoreInv', NEW i \in Intakes, Intake(i)
  PROVE  Document!Register(i.doc) \/ UNCHANGED <<Heads, PublishedVersions>>
<1> DEFINE d == i.doc
           new == [state |-> "REGISTERED", active |-> None, sv |-> 0]
           h == IF docs[d] = None THEN new ELSE docs[d]
           q == [state |-> "READY_FOR_DISPATCH", sv |-> 0, attempt |-> None, history |-> {}]
<1>1. docs' = [docs EXCEPT ![d] = h] /\ ops' = [ops EXCEPT ![i.op] = q] /\ intakes' = intakes \cup {i}
  BY DEF Intake
<1>2. d \in Documents /\ i.op \in Operations
  BY PartsOfIntake
<1>3. PublishedVersions' = PublishedVersions
  <2>1. \A j \in intakes : j.op # i.op /\ j.op \in Operations
    BY CreatedIsNew, PartsOfIntake DEF Intake, StoreInv, StoreTypeOK
  <2>2. ops'[i.op].state # "COMPLETED" /\ \A j \in intakes : ops'[j.op] = ops[j.op]
    BY <1>1, <1>2, <2>1 DEF StoreInv, StoreTypeOK
  <2>3. CompletedVersions' = CompletedVersions
    BY <1>1, <2>2 DEF CompletedVersions
  <2> QED
    BY <2>3, CompletedArePublished, CompletedArePublishedNext DEF PublicationInv
<1> HIDE DEF d
<1>4. Heads' = [Heads EXCEPT ![d] = HeadOf(h)]
  BY <1>1, <1>2, HeadWritten DEF StoreInv
<1>5. CASE docs[d] # None
  <2>1. HeadOf(h) = Heads[d]
    BY <1>2, <1>5 DEF Heads
  <2>2. Heads' = Heads
    BY <1>2, <1>4, <2>1 DEF Heads
  <2> QED
    BY <1>3, <2>2
<1>6. CASE docs[d] = None
  <2>1. new # None
    <3>1. new \in DocumentHeadSnapshot
      BY DEF DocumentHeadSnapshot
    <3> QED
      BY <3>1, NoneAssumption
  <2>2. Heads[d] = [state |-> "ABSENT", active |-> None, rev |-> 0]
    BY <1>2, <1>6 DEF Heads, HeadOf
  <2>3. HeadOf(h) = [state |-> "REGISTERED", active |-> None, rev |-> 0]
    BY <1>6, <2>1 DEF HeadOf
  <2>4. HeadOf(h) = [Heads[d] EXCEPT !.state = "REGISTERED"]
    BY <2>2, <2>3
  <2>5. Heads' = [Heads EXCEPT ![d].state = "REGISTERED"]
    BY <1>4, <2>4
  <2>6. Heads[d].state = "ABSENT"
    BY <2>2
  <2>7. Document!Register(d)
    BY <1>3, <2>5, <2>6, Zenon DEF Document!Register, Heads, HeadOf, PublishedVersions
  <2> QED
    BY <2>7 DEF d
<1> QED
  BY <1>5, <1>6

LEMMA CommitRefines ==
  ASSUME StoreInv, StoreInv', NEW w \in Committing, ops[w.op] # None, CommitActivation(w), UNCHANGED intakes
  PROVE  (\E v \in Versions : Document!Activate(v) \/ Document!Reactivate(v)) \/ UNCHANGED <<Heads, PublishedVersions>>
<1>1. CASE UNCHANGED <<docs, vers, ops, artifacts>>
  BY <1>1 DEF Heads, HeadOf, PublishedVersions
<1>2. CASE ~UNCHANGED <<docs, vers, ops, artifacts>>
  <2> DEFINE i == IntakeOf(w.op)
             d == i.doc
             h == [state |-> "ACTIVE", active |-> i.ver, sv |-> docs[d].sv + 1]
  <2>1. BindingsMatch(w) /\ GuardMatches(w, i) /\ \E u, q : Activates(i, w.attempt, u, q)
    BY <1>2, CommitWrites
  <2>2. PICK u, q : Activates(i, w.attempt, u, q)
    BY <2>1
  <2>3. i \in intakes /\ i \in Intakes /\ vers[i.ver].artifact = None
    BY <2>1, ActivationEffect
  <2> HIDE DEF i
  <2>4. d \in Documents /\ i.ver \in Versions /\ i.op \in Operations /\ DocumentOf[i.ver] = d /\ i.ver # None
    BY <2>3, PartsOfIntake
  <2>5. docs[d] \in DocumentHeadSnapshot /\ docs[d] # None
    BY <2>3, Records DEF StoreInv
  <2>6. docs' = [docs EXCEPT ![d] = h] /\ ops' = [ops EXCEPT ![i.op] = q] /\ q.state = "COMPLETED"
    BY <2>2 DEF Activates
  <2>7. PublishedVersions' = PublishedVersions \cup {i.ver} /\ i.ver \notin PublishedVersions
    <3>1. \A j \in intakes : j # i => j.op # i.op /\ j.op \in Operations
      BY <2>3, PartsOfIntake DEF StoreInv, StoreTypeOK, IntakeInv
    <3>2. ops'[i.op].state = "COMPLETED" /\ \A j \in intakes : j # i => ops'[j.op] = ops[j.op]
      BY <2>4, <2>6, <3>1 DEF StoreInv, StoreTypeOK
    <3>3. i.ver \notin PublishedVersions
      BY <2>3 DEF PublishedVersions
    <3>4. CompletedVersions' = CompletedVersions \cup {i.ver}
      BY <2>3, <2>4, <3>2 DEF CompletedVersions
    <3> QED
      BY <3>3, <3>4, CompletedArePublished, CompletedArePublishedNext DEF PublicationInv
  <2>8. Heads' = [Heads EXCEPT ![d] = HeadOf(h)]
    BY <2>4, <2>6, HeadWritten DEF StoreInv
  <2>9. h # None
    <3>1. docs[d].sv + 1 \in Nat
      BY <2>5 DEF DocumentHeadSnapshot
    <3>2. h \in DocumentHeadSnapshot
      BY <2>4, <3>1 DEF DocumentHeadSnapshot
    <3> QED
      BY <3>2, NoneAssumption
  <2>10. HeadOf(h) = [state |-> "ACTIVE", active |-> i.ver, rev |-> Heads[d].rev + 1]
    BY <2>4, <2>5, <2>9 DEF HeadOf, Heads
  <2>11. Heads[d].state \in {"REGISTERED", "ACTIVE", "TOMBSTONED"}
    BY <2>4, <2>5 DEF HeadOf, Heads, DocumentHeadSnapshot
  <2>12. Heads' = [Heads EXCEPT ![DocumentOf[i.ver]] = [state |-> "ACTIVE", active |-> i.ver, rev |-> @.rev + 1]]
    BY <2>4, <2>8, <2>10
  <2>13. Heads[DocumentOf[i.ver]].state \in {"REGISTERED", "ACTIVE", "TOMBSTONED"}
    BY <2>4, <2>11
  <2>14. PICK v \in Versions : v = i.ver
    BY <2>4
  <2>15. Heads' = [Heads EXCEPT ![DocumentOf[v]] = [state |-> "ACTIVE", active |-> v, rev |-> @.rev + 1]]
    BY <2>12, <2>14
  <2>16. Heads[DocumentOf[v]].state \in {"REGISTERED", "ACTIVE"} \/ Heads[DocumentOf[v]].state = "TOMBSTONED"
    BY <2>13, <2>14
  <2>17. PublishedVersions' = PublishedVersions \cup {v}
    BY <2>7, <2>14
  <2>18. v \notin PublishedVersions
    BY <2>7, <2>14
  <2>19. Document!Publish(v)
    BY <2>15, <2>17, <2>18, Zenon DEF Document!Publish, Heads, HeadOf, PublishedVersions
  <2>20. Document!Activate(v) \/ Document!Reactivate(v)
    BY <2>16, <2>19, Zenon DEF Document!Activate, Document!Reactivate, Heads, HeadOf
  <2> QED
    BY <2>14, <2>20
<1> QED
  BY <1>1, <1>2

LEMMA QuarantineRefines ==
  ASSUME StoreInv, StoreInv', NEW o \in Operations, ops[o] # None, NEW sv, MarkQuarantined(o, sv),
         UNCHANGED <<docs, intakes>>
  PROVE  UNCHANGED <<Heads, PublishedVersions>>
<1>1. Heads' = Heads
  BY DEF Heads, HeadOf
<1>2. CASE UNCHANGED <<ops, vers>>
  BY <1>1, <1>2 DEF PublishedVersions
<1>3. CASE ops' = Step(o, "QUARANTINED") /\ ops[o].state = "PARSE_DISPATCH_STARTED"
  <2>1. PICK q \in IngestionOperationRecord : Step(o, "QUARANTINED") = [ops EXCEPT ![o] = q] /\ q.state = "QUARANTINED"
    BY StepEffect DEF StoreInv, IngestionOperationState
  <2>2. \A j \in intakes : j.op \in Operations
    BY PartsOfIntake DEF StoreInv, StoreTypeOK
  <2>3. \A j \in intakes : ops'[j.op].state = "COMPLETED" <=> ops[j.op].state = "COMPLETED"
    BY <1>3, <2>1, <2>2 DEF StoreInv, StoreTypeOK
  <2> QED
    BY <1>1, <2>3, SamePublished
<1> QED
  BY <1>2, <1>3 DEF MarkQuarantined, Guarded

\* Every step is one of RagDocument or leaves its variables alone.
LEMMA DocumentStep ==
  ASSUME IngestionInv, IngestionInv', [Next]_vars
  PROVE  Document!DocumentNext \/ UNCHANGED <<Heads, PublishedVersions>>
<1> USE DEF IngestionInv
<1>1. CASE UNCHANGED <<docs, vers>>
  BY <1>1 DEF Heads, HeadOf, PublishedVersions
<1>2. ASSUME NEW i \in Intakes, Intake(i) PROVE Document!DocumentNext \/ UNCHANGED <<Heads, PublishedVersions>>
  <2>1. Document!Register(i.doc) \/ UNCHANGED <<Heads, PublishedVersions>>
    BY <1>2, IntakeRefines
  <2> QED
    BY <2>1, PartsOfIntake DEF Document!DocumentNext
<1>3. ASSUME NEW d \in Documents, TombstoneDocument(d) PROVE Document!DocumentNext
  <2>1. Document!Tombstone(d)
    BY <1>3, TombstoneRefines
  <2> QED
    BY <2>1 DEF Document!DocumentNext
<1>4. ASSUME NEW a \in Actors, Commit(a) PROVE Document!DocumentNext \/ UNCHANGED <<Heads, PublishedVersions>>
  <2>1. act[a] \in Committing /\ ops[act[a].op] # None
    BY <1>4, Holder DEF Commit
  <2>2. (\E v \in Versions : Document!Activate(v) \/ Document!Reactivate(v)) \/ UNCHANGED <<Heads, PublishedVersions>>
    BY <1>4, <2>1, CommitRefines DEF Commit
  <2> QED
    BY <2>2 DEF Document!DocumentNext
<1>5. ASSUME NEW a \in Actors, RunRejected(a) PROVE UNCHANGED <<Heads, PublishedVersions>>
  <2>1. act[a].op \in Operations /\ ops[act[a].op] # None
    BY <1>5, Holder DEF RunRejected
  <2> QED
    BY <1>5, <2>1, QuarantineRefines DEF RunRejected
<1>6. ASSUME NEW a \in Actors, ActorNext(a), ~Commit(a), ~RunRejected(a) PROVE UNCHANGED <<docs, vers>>
  BY <1>6 DEF ActorNext, Run, Parse, RunLost, ReadGuard, RecoverRead, RecoverMark, RecoverQuery, RecoverResolve,
              Crash, store
<1>7. ASSUME NEW o \in Operations, NEW r \in RequestIds, PrepareRetry(o, r) PROVE UNCHANGED <<docs, vers>>
  BY <1>7 DEF PrepareRetry
<1> QED
  BY <1>1, <1>2, <1>3, <1>4, <1>5, <1>6, <1>7 DEF Next, vars, store

\* RagIngestion implements RagDocument: every step registers, activates or tombstones a head as
\* the later stages are promised, or leaves heads and publication facts alone.
THEOREM IngestionImplementsDocument == Spec => ImplementsDocument
<1>1. Init => Document!DocumentInit
  <2> SUFFICES ASSUME Init PROVE Document!DocumentInit
    OBVIOUS
  <2>1. \A d \in Documents : docs[d] = None
    BY DEF Init
  <2>2. [d \in Documents |-> IF docs[d] = None THEN [state |-> "ABSENT", active |-> None, rev |-> 0]
                             ELSE [state |-> docs[d].state, active |-> docs[d].active, rev |-> docs[d].sv]]
        = [d \in Documents |-> [state |-> "ABSENT", active |-> None, rev |-> 0]]
    BY <2>1, Zenon
  <2>3. {v \in Versions : vers[v] # None /\ vers[v].artifact # None} = {}
    BY DEF Init
  <2> QED
    BY <2>2, <2>3 DEF Document!DocumentInit, Document!Absent
<1>2. IngestionInv /\ IngestionInv' /\ [Next]_vars => [Document!DocumentNext]_(Document!documentVars)
  <2> SUFFICES ASSUME IngestionInv, IngestionInv', [Next]_vars
               PROVE  Document!DocumentNext \/ UNCHANGED Document!documentVars
    OBVIOUS
  <2>1. UNCHANGED <<Heads, PublishedVersions>> => UNCHANGED Document!documentVars
    BY Zenon DEF Document!documentVars, Heads, HeadOf, PublishedVersions
  <2> QED
    BY <2>1, DocumentStep
<1> QED
  BY <1>1, <1>2, IngestionInvariant, PTL DEF Spec, ImplementsDocument, Document!DocumentSpec

-----------------------------------------------------------------------------
(***************************************************************************)
(* The vector index.                                                       *)
(***************************************************************************)

Parts == {"membership", "policy", "provenance", "embedding"}
Fact == [ok : BOOLEAN, rev : Nat]
Authority == [membership : Fact, policy : Fact, provenance : Fact,
              embedding : [set : EmbeddingSets, rev : Nat]]

\* y is x or a later authority: a part that has changed has another revision, though it may
\* say again what it said before.
LeadsTo(x, y) == \A f \in Parts : x[f].rev <= y[f].rev /\ (x[f].rev = y[f].rev => x[f] = y[f])

FenceOf(key) == Lookup(providerFences, key, 0)

\* A sealed generation was read back under a fence the provider had taken.
FenceInv ==
    /\ \A o \in DOMAIN claims : claims[o].fence \in Nat
    /\ \A key \in DOMAIN resultFences : resultFences[key] \in Nat
    /\ \A key \in DOMAIN providerFences : providerFences[key] \in Nat
    /\ generations = [key \in DOMAIN generations |-> generations[key]]
    /\ \A key \in DOMAIN generations :
        /\ "checkpoint" \in DOMAIN generations[key]
        /\ generations[key].checkpoint.fence \in Nat /\ generations[key].checkpoint.fence <= FenceOf(key)

BundleInv == selected.rev \in Nat /\ activationFence \in Nat

\* Where a worker stands says what it carries and relies on.
Persisting == {"policy", "provenance", "embedding", "seal"}
Validated == {"probe", "persist"} \cup Persisting
Claiming == {"write", "mark", "readback"} \cup Validated
Permitted == {"handoff"} \cup Claiming

Carries(w) == /\ "pc" \in DOMAIN w
              /\ w.pc \in Permitted => "permit" \in DOMAIN w
              /\ w.pc \in Claiming => "claim" \in DOMAIN w
              /\ w.pc \in Validated => "checkpoint" \in DOMAIN w
              /\ w.pc \in Persisting => "asOf" \in DOMAIN w

\* The permit is one that was, and so is the authority when persist began; each read that
\* passed, however late, shows that they agree on what was read.
Confirmed(w, f) == w.asOf[f] = w.permit[f]
Authorized(w) ==
    /\ w.pc \in Permitted => w.permit \in Authority /\ LeadsTo(w.permit, authority)
    /\ w.pc \in Persisting => /\ w.asOf \in Authority /\ LeadsTo(w.permit, w.asOf) /\ LeadsTo(w.asOf, authority)
                              /\ Confirmed(w, "membership")
    /\ w.pc \in {"provenance", "embedding", "seal"} => Confirmed(w, "policy")
    /\ w.pc \in {"embedding", "seal"} => Confirmed(w, "provenance")
    /\ w.pc = "seal" => Confirmed(w, "embedding")

\* The provider has taken the fence of the checkpoint, or a later one.
Fenced(w) == /\ w.pc \in Claiming => w.claim.fence \in Nat
             /\ w.pc \in Validated => /\ w.checkpoint.fence \in Nat
                                      /\ w.checkpoint.fence <= FenceOf(ResultKey(w.claim.operation))

\* The bundle an operator has seen is the selected one or an earlier one.
Seen(w) == w.pc = "activate" => /\ w.seen.rev \in Nat /\ w.seen.rev <= selected.rev
                                /\ w.seen.rev = selected.rev => w.seen = selected

Fits(w) == Carries(w) /\ Authorized(w) /\ Fenced(w) /\ Seen(w)
WorkerInv == worker = [a \in Workers |-> worker[a]] /\ \A a \in Workers : Fits(worker[a])

AuthorityInv == authority \in Authority
IndexInv == AuthorityInv /\ FenceInv /\ BundleInv /\ WorkerInv

-----------------------------------------------------------------------------
\* Nothing is built, stored or selected at first.
LEMMA IndexStart == IndexInit => IndexInv
<1> SUFFICES ASSUME IndexInit PROVE IndexInv
  OBVIOUS
<1> USE DEF IndexInit
<1>1. AuthorityInv
  BY IndexAssumption DEF AuthorityInv, Authority, Fact
<1>2. FenceInv
  BY DEF FenceInv, EmptyTable
<1>3. BundleInv
  BY DEF BundleInv, NoBundle
<1>4. WorkerInv
  BY DEF WorkerInv, Fits, Carries, Authorized, Fenced, Seen, Resting, Persisting, Validated, Claiming, Permitted
<1> QED
  BY <1>1, <1>2, <1>3, <1>4 DEF IndexInv

-----------------------------------------------------------------------------
\* Being an earlier authority is reflexive and transitive.
LEMMA LeadsToItself == ASSUME NEW x \in Authority PROVE LeadsTo(x, x)
BY DEF LeadsTo, Authority, Fact, Parts

LEMMA LeadsOn ==
  ASSUME NEW x \in Authority, NEW y \in Authority, NEW z \in Authority, LeadsTo(x, y), LeadsTo(y, z)
  PROVE  LeadsTo(x, z)
BY DEF LeadsTo, Authority, Fact, Parts

\* A part that reads as the permit says has not changed since any moment after the permit.
LEMMA ReadConfirms ==
  ASSUME NEW f \in Parts, NEW x \in Authority, NEW y \in Authority, NEW z \in Authority,
         LeadsTo(x, y), LeadsTo(y, z), z[f] = x[f]
  PROVE  y[f] = x[f]
BY DEF LeadsTo, Authority, Fact, Parts

LEMMA SameAuthority ==
  ASSUME NEW x \in Authority, NEW y \in Authority, \A f \in Parts : x[f] = y[f]
  PROVE  x = y
BY DEF Authority, Fact, Parts

\* What the provider answers for a fence is a number.
LEMMA FencesAreNumbers ==
  ASSUME FenceInv, NEW key
  PROVE  FenceOf(key) \in Nat
BY DEF FenceInv, FenceOf, Lookup

-----------------------------------------------------------------------------
\* What a worker relies on only moves forward: authority, fences of the provider, bundles.
Onward == /\ AuthorityInv /\ AuthorityInv' /\ LeadsTo(authority, authority')
          /\ \A key : FenceOf(key) \in Nat /\ FenceOf(key)' \in Nat /\ FenceOf(key) <= FenceOf(key)'
          /\ BundleInv /\ BundleInv' /\ (selected' = selected \/ selected.rev < selected'.rev)

LEMMA FitsStill ==
  ASSUME Onward, NEW w, Fits(w)
  PROVE  Fits(w)'
<1>1. Carries(w)'
  BY DEF Fits, Carries
<1>2. Authorized(w)'
  <2>1. w.pc \in Permitted => LeadsTo(w.permit, authority)'
    BY LeadsOn DEF Fits, Authorized, Onward, AuthorityInv
  <2>2. w.pc \in Persisting => LeadsTo(w.asOf, authority)'
    BY LeadsOn DEF Fits, Authorized, Onward, AuthorityInv
  <2> QED
    BY <2>1, <2>2 DEF Fits, Authorized
<1>3. Fenced(w)'
  <2>1. ASSUME w.pc \in Validated
        PROVE  w.checkpoint.fence <= FenceOf(ResultKey(w.claim.operation))'
    BY <2>1 DEF Fits, Fenced, Onward
  <2> QED
    BY <2>1 DEF Fits, Fenced
<1>4. Seen(w)'
  BY DEF Fits, Seen, Onward, BundleInv
<1> QED
  BY <1>1, <1>2, <1>3, <1>4 DEF Fits

\* A step of one worker, or of none.
LEMMA WorkerMoves ==
  ASSUME Onward, WorkerInv, NEW a \in Workers, NEW w, Become(a, w), Fits(w)'
  PROVE  WorkerInv'
<1>1. /\ worker' = [b \in Workers |-> worker'[b]] /\ worker'[a] = w
      /\ \A b \in Workers : b # a => worker'[b] = worker[b]
  BY DEF WorkerInv, Become
<1>2. ASSUME NEW b \in Workers PROVE Fits(worker[b])'
  <2>1. CASE b = a
    BY <1>1, <2>1
  <2>2. CASE b # a
    <3>1. PICK v : v = worker[b]
      OBVIOUS
    <3>2. Fits(v)'
      BY <3>1, FitsStill DEF WorkerInv
    <3> QED
      BY <1>1, <2>2, <3>1, <3>2
  <2> QED
    BY <2>1, <2>2
<1> QED
  BY <1>1, <1>2 DEF WorkerInv

LEMMA WorkersRest ==
  ASSUME Onward, WorkerInv, UNCHANGED worker
  PROVE  WorkerInv'
<1>1. ASSUME NEW b \in Workers PROVE Fits(worker[b])'
  <2>1. PICK v : v = worker[b]
    OBVIOUS
  <2>2. Fits(v)'
    BY <2>1, FitsStill DEF WorkerInv
  <2> QED
    BY <2>1, <2>2
<1> QED
  BY <1>1 DEF WorkerInv

\* Nothing a worker relies on changes.
LEMMA Standstill ==
  ASSUME IndexInv, UNCHANGED <<authority, providerFences, selected, activationFence>>
  PROVE  Onward /\ AuthorityInv' /\ BundleInv'
<1>1. AuthorityInv /\ AuthorityInv' /\ LeadsTo(authority, authority')
  BY LeadsToItself DEF IndexInv, AuthorityInv
<1>2. ASSUME NEW key PROVE FenceOf(key) \in Nat /\ FenceOf(key)' = FenceOf(key)
  BY FencesAreNumbers DEF IndexInv, FenceOf, Lookup
<1>3. BundleInv /\ BundleInv'
  BY DEF IndexInv, BundleInv
<1> QED
  BY <1>1, <1>2, <1>3 DEF Onward

\* A worker that carries nothing fits everywhere.
LEMMA IdleFits == Fits(Resting)'
BY DEF Fits, Carries, Authorized, Fenced, Seen, Resting, Persisting, Validated, Claiming, Permitted

\* A worker moves; the stores it relies on and the generations stay.
LEMMA OneWorkerMoves ==
  ASSUME IndexInv, UNCHANGED <<authority, providerFences, selected, activationFence>>, FenceInv',
         NEW a \in Workers, NEW w, Become(a, w), Fits(w)'
  PROVE  IndexInv'
BY Standstill, WorkerMoves DEF IndexInv

-----------------------------------------------------------------------------
\* Administrators, publications, embedding selections and the clock.
LEMMA EnvironmentStep ==
  ASSUME IndexInv, Environment
  PROVE  IndexInv'
<1>1. AuthorityInv' /\ LeadsTo(authority, authority')
  <2>1. ASSUME NEW what \in {"membership", "policy", "provenance"}, Revoke(what) \/ Renew(what)
        PROVE  AuthorityInv' /\ LeadsTo(authority, authority')
    <3>1. authority \in Authority
      BY DEF IndexInv, AuthorityInv
    <3>2. PICK b \in BOOLEAN : authority' = [authority EXCEPT ![what] = [ok |-> b, rev |-> @.rev + 1]]
      BY <2>1 DEF Revoke, Renew
    <3>3. CASE what = "membership"
      BY <3>1, <3>2, <3>3 DEF AuthorityInv, LeadsTo, Authority, Fact, Parts
    <3>4. CASE what = "policy"
      BY <3>1, <3>2, <3>4 DEF AuthorityInv, LeadsTo, Authority, Fact, Parts
    <3>5. CASE what = "provenance"
      BY <3>1, <3>2, <3>5 DEF AuthorityInv, LeadsTo, Authority, Fact, Parts
    <3> QED
      BY <3>3, <3>4, <3>5
  <2>2. ASSUME NEW e \in EmbeddingSets, Reembed(e)
        PROVE  AuthorityInv' /\ LeadsTo(authority, authority')
    BY <2>2 DEF IndexInv, AuthorityInv, Reembed, LeadsTo, Authority, Fact, Parts
  <2>3. CASE UNCHANGED authority
    BY <2>3, LeadsToItself DEF IndexInv, AuthorityInv
  <2> QED
    BY <2>1, <2>2, <2>3 DEF Environment
<1>2. UNCHANGED <<claims, resultFences, providerFences, generations, selected, activationFence, worker>>
  BY DEF Environment, controlVars, providerVars
<1>3. ASSUME NEW key PROVE FenceOf(key) \in Nat /\ FenceOf(key)' = FenceOf(key)
  BY <1>2, FencesAreNumbers DEF IndexInv, FenceOf, Lookup
<1>4. BundleInv' /\ FenceInv'
  BY <1>2, <1>3 DEF IndexInv, BundleInv, FenceInv
<1>5. Onward
  BY <1>1, <1>2, <1>3, <1>4 DEF Onward, IndexInv
<1> QED
  BY <1>1, <1>2, <1>4, <1>5, WorkersRest DEF IndexInv

\* The tables of fences and the generations stay.
LEMMA FencesRest ==
  ASSUME FenceInv, UNCHANGED <<claims, resultFences, providerFences, generations>>
  PROVE  FenceInv'
<1>1. ASSUME NEW key PROVE FenceOf(key)' = FenceOf(key)
  BY DEF FenceOf, Lookup
<1> QED
  BY <1>1 DEF FenceInv

LEMMA SelectContractStep ==
  ASSUME IndexInv, SelectContract
  PROVE  IndexInv'
<1>1. UNCHANGED <<authority, claims, resultFences, providerFences, generations, selected, activationFence, worker>>
  BY DEF SelectContract, providerVars
<1> QED
  BY <1>1, Standstill, FencesRest, WorkersRest DEF IndexInv

-----------------------------------------------------------------------------
\* The permit is the authority of the moment.
LEMMA AuthorizeStep ==
  ASSUME IndexInv, NEW a \in Workers, Authorize(a)
  PROVE  IndexInv'
<1> DEFINE w == [pc |-> "handoff", permit |-> authority, contract |-> contractSelection,
                 expiresAt |-> clock + PermitTtl]
<1>1. /\ Become(a, w)
      /\ UNCHANGED <<authority, claims, resultFences, providerFences, generations, selected, activationFence>>
  BY DEF Authorize, controlVars, providerVars
<1>2. /\ w.pc = "handoff" /\ w.permit = authority /\ "pc" \in DOMAIN w /\ "permit" \in DOMAIN w
  OBVIOUS
<1> HIDE DEF w
<1>3. PICK v : v = w
  OBVIOUS
<1>4. Fits(v)'
  <2>1. LeadsTo(v.permit, authority)'
    BY <1>1, <1>2, <1>3, LeadsToItself DEF IndexInv, AuthorityInv
  <2> QED
    BY <1>1, <1>2, <1>3, <2>1
    DEF Fits, Carries, Authorized, Fenced, Seen, Persisting, Validated, Claiming, Permitted, IndexInv, AuthorityInv
<1> QED
  BY <1>1, <1>3, <1>4, FencesRest, OneWorkerMoves DEF IndexInv

\* A worker that gives up.
LEMMA RestStep ==
  ASSUME IndexInv, NEW a \in Workers, Rest(a),
         UNCHANGED <<authority, claims, resultFences, providerFences, generations, selected, activationFence>>
  PROVE  IndexInv'
BY IdleFits, FencesRest, OneWorkerMoves DEF Rest, IndexInv

\* Every new claim has a number for its fence.
LEMMA ClaimIsNumbered ==
  ASSUME FenceInv, NEW o, NEW t
  PROVE  ClaimOf(o, t).fence \in Nat
<1>1. Lookup(resultFences, ResultKey(o), 0) \in Nat
  BY DEF FenceInv, Lookup
<1> QED
  BY <1>1 DEF FenceInv, ClaimOf

\* The guard, the claim and the plan: the worker goes on with its permit and a numbered claim.
LEMMA PrepareStep ==
  ASSUME IndexInv, NEW a \in Workers, Prepare(a)
  PROVE  IndexInv'
<1>1. UNCHANGED <<authority, providerFences, generations, selected, activationFence>>
  BY DEF Prepare, providerVars
<1>2. PICK r \in BuildRequests, t \in Attempts, then \in {"write", "readback"} :
        LET w == worker[a]
            o == Operation(r, w)
            claim == ClaimOf(o, t)
            points == Points[o.embedding.set]
            contract == o.contract.contract
            plan == PlanVectorBatches(points, contract)
        IN  IF GuardPasses(w) /\ MayClaim(o, t)
            THEN /\ claim.fence <= MaxClaims
                 /\ operations' = Put(operations, o.op, o) /\ keys' = Put(keys, o.key, o.op)
                 /\ claims' = Put(claims, o.op, claim)
                 /\ resultFences' = Put(resultFences, ResultKey(o),
                                        IF Lookup(resultFences, ResultKey(o), 0) > claim.fence
                                        THEN resultFences[ResultKey(o)] ELSE claim.fence)
                 /\ IF Plannable(points, contract)
                    THEN Become(a, [pc |-> then, permit |-> w.permit, contract |-> w.contract,
                                    expiresAt |-> w.expiresAt, claim |-> claim,
                                    acks |-> Acknowledgements("NORMAL", plan)])
                    ELSE Rest(a)
            ELSE Rest(a) /\ UNCHANGED <<operations, keys, claims, resultFences>>
  BY DEF Prepare
<1> DEFINE o == Operation(r, worker[a])
           claim == ClaimOf(o, t)
           fence == IF Lookup(resultFences, ResultKey(o), 0) > claim.fence
                    THEN resultFences[ResultKey(o)] ELSE claim.fence
           acks == Acknowledgements("NORMAL", PlanVectorBatches(Points[o.embedding.set], o.contract.contract))
           next == [pc |-> then, permit |-> worker[a].permit, contract |-> worker[a].contract,
                    expiresAt |-> worker[a].expiresAt, claim |-> claim, acks |-> acks]
<1>3. \/ Rest(a) /\ UNCHANGED <<claims, resultFences>>
      \/ /\ claims' = Put(claims, o.op, claim) /\ resultFences' = Put(resultFences, ResultKey(o), fence)
         /\ Rest(a) \/ Become(a, next)
  BY <1>2
<1>4. claim.fence \in Nat /\ fence \in Nat
  <2>1. claim.fence \in Nat
    BY ClaimIsNumbered DEF IndexInv
  <2>2. ASSUME Lookup(resultFences, ResultKey(o), 0) > claim.fence PROVE resultFences[ResultKey(o)] \in Nat
    BY <2>1, <2>2 DEF IndexInv, FenceInv, Lookup
  <2> QED
    BY <2>1, <2>2
<1>5. /\ next.pc = then /\ next.permit = worker[a].permit /\ next.claim = claim
      /\ "pc" \in DOMAIN next /\ "permit" \in DOMAIN next /\ "claim" \in DOMAIN next
  OBVIOUS
<1> HIDE DEF next, acks, fence, claim, o
<1>6. CASE Rest(a) /\ UNCHANGED <<claims, resultFences>>
  BY <1>1, <1>6, RestStep
<1>7. CASE /\ claims' = Put(claims, o.op, claim) /\ resultFences' = Put(resultFences, ResultKey(o), fence)
           /\ Rest(a) \/ Become(a, next)
  <2>1. FenceInv'
    <3>1. \A p \in DOMAIN claims' : claims'[p].fence \in Nat
      BY <1>4, <1>7 DEF IndexInv, FenceInv, Put
    <3>2. \A key \in DOMAIN resultFences' : resultFences'[key] \in Nat
      BY <1>4, <1>7 DEF IndexInv, FenceInv, Put
    <3>3. ASSUME NEW key PROVE FenceOf(key)' = FenceOf(key)
      BY <1>1 DEF FenceOf, Lookup
    <3> QED
      BY <1>1, <3>1, <3>2, <3>3 DEF IndexInv, FenceInv
  <2>2. PICK v : v = next
    OBVIOUS
  <2>3. Fits(v)'
    <3>1. worker[a].permit \in Authority /\ LeadsTo(worker[a].permit, authority)
      BY DEF Prepare, IndexInv, WorkerInv, Fits, Authorized, Permitted
    <3>2. v.permit \in Authority /\ LeadsTo(v.permit, authority)'
      BY <1>1, <1>5, <2>2, <3>1
    <3>3. v.pc \in {"write", "readback"} /\ v.claim.fence \in Nat
      BY <1>4, <1>5, <2>2
    <3>4. Carries(v)
      BY <1>5, <2>2, <3>3 DEF Carries, Persisting, Validated, Claiming, Permitted
    <3> QED
      BY <3>2, <3>3, <3>4 DEF Fits, Carries, Authorized, Fenced, Seen, Persisting, Validated, Claiming, Permitted
  <2> QED
    BY <1>1, <1>7, <2>1, <2>2, <2>3, IdleFits, OneWorkerMoves DEF Rest
<1> QED
  BY <1>3, <1>6, <1>7

\* The provider takes a fence only if it is no older than the last one: fences never go back.
LEMMA ReplaceGenerationStep ==
  ASSUME IndexInv, NEW a \in Workers, ReplaceGeneration(a)
  PROVE  IndexInv' /\ \A key : FenceOf(key) <= FenceOf(key)'
<1>1. PICK w, key : w = worker[a] /\ key = ResultKey(w.claim.operation)
  OBVIOUS
<1>2. UNCHANGED <<authority, claims, resultFences, generations, selected, activationFence>> /\ w.pc = "write"
  BY <1>1 DEF ReplaceGeneration, controlVars
<1>3. Fits(w) /\ w.claim.fence \in Nat
  BY <1>1, <1>2 DEF IndexInv, WorkerInv, Fits, Fenced, Claiming
<1>4. CASE Rest(a) /\ UNCHANGED providerVars
  <2>1. \A k : FenceOf(k) \in Nat /\ FenceOf(k)' = FenceOf(k)
    BY <1>4, FencesAreNumbers DEF IndexInv, FenceOf, Lookup, providerVars
  <2> QED
    BY <1>2, <1>4, <2>1, RestStep DEF providerVars
<1>5. ASSUME ProviderAccepts(key, w.claim.fence), NEW mode \in Modes,
             providerFences' = Put(providerFences, key, w.claim.fence),
             IF mode = "TIMEOUT_UNKNOWN" THEN Become(a, [w EXCEPT !.pc = "mark"])
             ELSE Become(a, [w EXCEPT !.pc = "readback", !.acks = Acknowledgements(mode, PlanFor(w))])
      PROVE  IndexInv' /\ \A k : FenceOf(k) <= FenceOf(k)'
  <2>1. ASSUME NEW k PROVE FenceOf(k) \in Nat /\ FenceOf(k)' \in Nat /\ FenceOf(k) <= FenceOf(k)'
    <3>1. FenceOf(k) \in Nat
      BY FencesAreNumbers DEF IndexInv
    <3>2. CASE k = key
      BY <1>3, <1>5, <3>1, <3>2 DEF FenceOf, Lookup, Put, ProviderAccepts
    <3>3. CASE k # key
      <4>1. FenceOf(k)' = FenceOf(k)
        BY <1>5, <3>3 DEF FenceOf, Lookup, Put
      <4> QED
        BY <3>1, <4>1
    <3> QED
      BY <3>2, <3>3
  <2>2. FenceInv'
    <3>1. \A k \in DOMAIN providerFences' : providerFences'[k] \in Nat
      BY <1>3, <1>5 DEF IndexInv, FenceInv, Put
    <3>2. ASSUME NEW k \in DOMAIN generations PROVE generations[k].checkpoint.fence <= FenceOf(k)'
      BY <2>1 DEF IndexInv, FenceInv
    <3> QED
      BY <1>2, <3>1, <3>2 DEF IndexInv, FenceInv
  <2>3. AuthorityInv /\ AuthorityInv' /\ LeadsTo(authority, authority') /\ BundleInv /\ BundleInv'
    BY <1>2, LeadsToItself DEF IndexInv, AuthorityInv, BundleInv
  <2>4. Onward
    BY <1>2, <2>1, <2>3 DEF Onward
  <2>5. PICK v : /\ Become(a, v) /\ v.pc \in {"mark", "readback"} /\ v.permit = w.permit /\ v.claim = w.claim
                 /\ {"pc", "permit", "claim"} \subseteq DOMAIN v
    <3>1. {"pc", "permit", "claim"} \subseteq DOMAIN w
      BY <1>2, <1>3 DEF Fits, Carries, Claiming, Permitted
    <3>2. CASE mode = "TIMEOUT_UNKNOWN"
      <4> DEFINE next == [w EXCEPT !.pc = "mark"]
      <4>1. Become(a, next)
        BY <1>5, <3>2
      <4>2. /\ next.pc = "mark" /\ next.permit = w.permit /\ next.claim = w.claim
            /\ {"pc", "permit", "claim"} \subseteq DOMAIN next
        BY <3>1
      <4> QED
        BY <4>1, <4>2, Zenon
    <3>3. CASE mode # "TIMEOUT_UNKNOWN"
      <4> DEFINE acks == Acknowledgements(mode, PlanFor(w))
                 next == [w EXCEPT !.pc = "readback", !.acks = acks]
      <4>1. Become(a, next)
        BY <1>5, <3>3
      <4> HIDE DEF acks
      <4>2. /\ next.pc = "readback" /\ next.permit = w.permit /\ next.claim = w.claim
            /\ {"pc", "permit", "claim"} \subseteq DOMAIN next
        BY <3>1
      <4> QED
        BY <4>1, <4>2
    <3> QED
      BY <3>2, <3>3
  <2>6. Fits(v)'
    <3>1. w.permit \in Authority /\ LeadsTo(w.permit, authority)'
      BY <1>2, <1>3 DEF Fits, Authorized, Permitted, Claiming
    <3>2. Carries(v)
      BY <2>5 DEF Carries, Persisting, Validated, Claiming, Permitted
    <3> QED
      BY <1>3, <2>5, <3>1, <3>2
      DEF Fits, Carries, Authorized, Fenced, Seen, Persisting, Validated, Claiming, Permitted
  <2> QED
    BY <2>1, <2>2, <2>3, <2>4, <2>5, <2>6, WorkerMoves DEF IndexInv
<1> QED
  BY <1>1, <1>4, <1>5 DEF ReplaceGeneration

LEMMA MarkUnknownStep ==
  ASSUME IndexInv, NEW a \in Workers, MarkUnknown(a)
  PROVE  IndexInv'
BY RestStep DEF MarkUnknown, providerVars

\* The checkpoint carries the fence the provider holds.
LEMMA ReadbackStep ==
  ASSUME IndexInv, NEW a \in Workers, Readback(a)
  PROVE  IndexInv'
<1>1. PICK w, key, found : /\ w = worker[a] /\ key = ResultKey(w.claim.operation)
                           /\ found = Lookup(stored, key, <<>>)
  OBVIOUS
<1>2. /\ UNCHANGED <<authority, claims, resultFences, providerFences, generations, selected, activationFence>>
      /\ w.pc = "readback"
  BY <1>1 DEF Readback, controlVars, providerVars
<1> DEFINE next == [pc |-> "probe", permit |-> w.permit, contract |-> w.contract,
                    expiresAt |-> w.expiresAt, claim |-> w.claim,
                    checkpoint |-> [fence |-> Lookup(providerFences, key, 0), points |-> Manifest(found)]]
<1>3. Rest(a) \/ Become(a, next)
  BY <1>1 DEF Readback
<1>4. /\ next.pc = "probe" /\ next.permit = w.permit /\ next.claim = w.claim
      /\ next.checkpoint.fence = FenceOf(key)
      /\ {"pc", "permit", "claim", "checkpoint"} \subseteq DOMAIN next
  BY DEF FenceOf
<1> HIDE DEF next
<1>5. PICK v : v = next
  OBVIOUS
<1>6. Fits(v)'
  <2>1. w.permit \in Authority /\ LeadsTo(w.permit, authority)' /\ w.claim.fence \in Nat
    BY <1>1, <1>2 DEF IndexInv, WorkerInv, Fits, Authorized, Fenced, Permitted, Claiming
  <2>2. FenceOf(key) \in Nat /\ FenceOf(key)' = FenceOf(key)
    BY <1>2, FencesAreNumbers DEF IndexInv, FenceOf, Lookup
  <2>3. Carries(v)
    BY <1>4, <1>5 DEF Carries, Persisting, Validated, Claiming, Permitted
  <2>4. v.checkpoint.fence \in Nat /\ v.checkpoint.fence <= FenceOf(ResultKey(v.claim.operation))'
    BY <1>1, <1>4, <1>5, <2>2
  <2>5. Authorized(v)'
    BY <1>4, <1>5, <2>1 DEF Authorized, Persisting, Permitted, Claiming, Validated
  <2>6. Fenced(v)'
    BY <1>4, <1>5, <2>1, <2>4 DEF Fenced
  <2> QED
    BY <1>4, <1>5, <2>3, <2>5, <2>6 DEF Fits, Carries, Seen
<1> QED
  BY <1>2, <1>3, <1>5, <1>6, RestStep, FencesRest, OneWorkerMoves DEF IndexInv

\* A worker that goes on keeps what it carries.
LEMMA GoesOn ==
  ASSUME NEW w, "pc" \in DOMAIN w, NEW then
  PROVE  LET v == [w EXCEPT !.pc = then]
         IN  /\ v.pc = then /\ DOMAIN v = DOMAIN w
             /\ "permit" \in DOMAIN w => v.permit = w.permit
             /\ "claim" \in DOMAIN w => v.claim = w.claim
             /\ "checkpoint" \in DOMAIN w => v.checkpoint = w.checkpoint
             /\ "asOf" \in DOMAIN w => v.asOf = w.asOf
OBVIOUS

\* Answers of the provider to the probes.
LEMMA ProbeStep ==
  ASSUME IndexInv, NEW a \in Workers, Probe(a)
  PROVE  IndexInv'
<1>1. PICK w : w = worker[a]
  OBVIOUS
<1>2. /\ UNCHANGED <<authority, claims, resultFences, providerFences, generations, selected, activationFence>>
      /\ w.pc = "probe"
  BY <1>1 DEF Probe, controlVars, providerVars
<1> DEFINE next == [w EXCEPT !.pc = "persist"]
<1>3. Rest(a) \/ Become(a, next)
  BY <1>1 DEF Probe
<1> HIDE DEF next
<1>4. CASE Become(a, next)
  <2>1. Fits(w)
    BY <1>1 DEF IndexInv, WorkerInv
  <2>2. Fits(w)'
    BY <1>2, <2>1, Standstill, FitsStill
  <2>3. PICK v : v = next
    OBVIOUS
  <2>4. {"pc", "permit", "claim", "checkpoint"} \subseteq DOMAIN w
    BY <1>2, <2>1 DEF Fits, Carries, Claiming, Permitted, Validated
  <2>5. /\ v.pc = "persist" /\ v.permit = w.permit /\ v.claim = w.claim /\ v.checkpoint = w.checkpoint
        /\ DOMAIN v = DOMAIN w
    BY <2>3, <2>4, GoesOn DEF next
  <2>6. Carries(v)' /\ Seen(v)'
    BY <2>4, <2>5 DEF Carries, Seen, Persisting, Validated, Claiming, Permitted
  <2>7. Authorized(v)'
    BY <1>2, <2>2, <2>5 DEF Fits, Authorized, Persisting, Validated, Claiming, Permitted
  <2>8. Fenced(v)'
    BY <1>2, <2>2, <2>5 DEF Fits, Fenced, Validated, Claiming
  <2> QED
    BY <1>2, <1>4, <2>3, <2>6, <2>7, <2>8, FencesRest, OneWorkerMoves DEF IndexInv, Fits
<1> QED
  BY <1>2, <1>3, <1>4, RestStep

\* Membership is read with the lock, the rest later: asOf is the authority of this moment.
LEMMA PersistBeginStep ==
  ASSUME IndexInv, NEW a \in Workers, PersistBegin(a)
  PROVE  IndexInv'
<1>1. PICK w, now : w = worker[a] /\ now = authority
  OBVIOUS
<1>2. /\ UNCHANGED <<authority, claims, resultFences, providerFences, generations, selected, activationFence>>
      /\ w.pc = "persist"
  BY <1>1 DEF PersistBegin, providerVars
<1> DEFINE next == [pc |-> "policy", permit |-> w.permit, contract |-> w.contract,
                    claim |-> w.claim, checkpoint |-> w.checkpoint, asOf |-> now]
<1>3. Rest(a) \/ (Become(a, next) /\ now["membership"] = w.permit["membership"])
  BY <1>1 DEF PersistBegin, GuardRead
<1>4. /\ next.pc = "policy" /\ next.permit = w.permit /\ next.claim = w.claim
      /\ next.checkpoint = w.checkpoint /\ next.asOf = now
      /\ {"pc", "permit", "claim", "checkpoint", "asOf"} \subseteq DOMAIN next
  OBVIOUS
<1> HIDE DEF next
<1>5. CASE Become(a, next) /\ now["membership"] = w.permit["membership"]
  <2>1. Fits(w)
    BY <1>1 DEF IndexInv, WorkerInv
  <2>2. Fits(w)'
    BY <1>2, <2>1, Standstill, FitsStill
  <2>3. PICK v : v = next
    OBVIOUS
  <2>4. Carries(v)' /\ Seen(v)'
    BY <1>4, <2>3 DEF Carries, Seen, Persisting, Validated, Claiming, Permitted
  <2>5. Authorized(v)'
    <3>1. w.permit \in Authority /\ LeadsTo(w.permit, now) /\ LeadsTo(w.permit, authority)'
      BY <1>1, <1>2, <2>1, <2>2 DEF Fits, Authorized, Persisting, Validated, Claiming, Permitted
    <3>2. now \in Authority /\ LeadsTo(now, authority)'
      BY <1>1, <1>2, LeadsToItself DEF IndexInv, AuthorityInv
    <3>3. Confirmed(v, "membership")
      BY <1>4, <1>5, <2>3 DEF Confirmed
    <3> QED
      BY <1>4, <2>3, <3>1, <3>2, <3>3 DEF Authorized, Confirmed, Persisting, Validated, Claiming, Permitted
  <2>6. Fenced(v)'
    BY <1>2, <1>4, <2>2, <2>3 DEF Fits, Fenced, Persisting, Validated, Claiming
  <2> QED
    BY <1>2, <1>5, <2>3, <2>4, <2>5, <2>6, FencesRest, OneWorkerMoves DEF IndexInv, Fits
<1> QED
  BY <1>2, <1>3, <1>5, RestStep

\* A later read that agrees with the permit agrees with asOf, which lies between the two.
LEMMA PersistGuardStep ==
  ASSUME IndexInv, NEW a \in Workers, NEW what, NEW then,
         <<what, then>> \in {<<"policy", "provenance">>, <<"provenance", "embedding">>, <<"embedding", "seal">>},
         PersistGuard(a, what, then)
  PROVE  IndexInv'
<1>1. PICK w : w = worker[a]
  OBVIOUS
<1>2. /\ UNCHANGED <<authority, claims, resultFences, providerFences, generations, selected, activationFence>>
      /\ w.pc = what /\ what \in Persisting /\ what \in Parts /\ then \in Persisting
  BY <1>1 DEF PersistGuard, providerVars, Persisting, Parts
<1> DEFINE next == [w EXCEPT !.pc = then]
<1>3. Rest(a) \/ (Become(a, next) /\ authority[what] = w.permit[what])
  BY <1>1 DEF PersistGuard, GuardRead
<1> HIDE DEF next
<1>4. CASE Become(a, next) /\ authority[what] = w.permit[what]
  <2>1. Fits(w)
    BY <1>1 DEF IndexInv, WorkerInv
  <2>2. Fits(w)'
    BY <1>2, <2>1, Standstill, FitsStill
  <2>3. PICK v : v = next
    OBVIOUS
  <2>4. {"pc", "permit", "claim", "checkpoint", "asOf"} \subseteq DOMAIN w
    BY <1>2, <2>1 DEF Fits, Carries, Claiming, Permitted, Validated, Persisting
  <2>5. /\ v.pc = then /\ v.permit = w.permit /\ v.claim = w.claim /\ v.checkpoint = w.checkpoint
        /\ v.asOf = w.asOf /\ DOMAIN v = DOMAIN w
    BY <2>3, <2>4, GoesOn DEF next
  <2>6. Carries(v)' /\ Seen(v)'
    BY <1>2, <2>4, <2>5 DEF Carries, Seen, Persisting
  <2>7. Authorized(v)'
    <3>1. /\ w.permit \in Authority /\ w.asOf \in Authority
          /\ LeadsTo(w.permit, w.asOf) /\ LeadsTo(w.asOf, authority)
      BY <1>2, <2>1 DEF Fits, Authorized, Persisting, Validated, Claiming, Permitted
    <3>2. Confirmed(w, what)
      BY <1>2, <1>4, <3>1, ReadConfirms DEF Confirmed, IndexInv, AuthorityInv
    <3>3. \A f \in Parts : Confirmed(v, f) <=> Confirmed(w, f)
      BY <2>5 DEF Confirmed
    <3>4. /\ v.permit \in Authority /\ LeadsTo(v.permit, authority)' /\ v.asOf \in Authority
          /\ LeadsTo(v.permit, v.asOf) /\ LeadsTo(v.asOf, authority)' /\ Confirmed(v, "membership")
      BY <1>2, <2>2, <2>5, <3>3 DEF Fits, Authorized, Parts, Persisting, Validated, Claiming, Permitted
    <3>5. /\ v.pc \in {"provenance", "embedding", "seal"} => Confirmed(v, "policy")
          /\ v.pc \in {"embedding", "seal"} => Confirmed(v, "provenance")
          /\ v.pc = "seal" => Confirmed(v, "embedding")
      BY <1>2, <2>1, <2>5, <3>2, <3>3 DEF Fits, Authorized, Parts
    <3> QED
      BY <3>4, <3>5 DEF Authorized, Confirmed
  <2>8. Fenced(v)'
    BY <1>2, <2>2, <2>5 DEF Fits, Fenced, Validated, Claiming
  <2> QED
    BY <1>2, <1>4, <2>3, <2>6, <2>7, <2>8, FencesRest, OneWorkerMoves DEF IndexInv, Fits
<1> QED
  BY <1>2, <1>3, <1>4, RestStep

-----------------------------------------------------------------------------
\* A change to a generation that leaves its checkpoint alone.
LEMMA GenerationsMove ==
  ASSUME FenceInv, UNCHANGED <<claims, resultFences, providerFences>>,
         generations' = [key \in DOMAIN generations' |-> generations'[key]],
         \A key \in DOMAIN generations' :
            /\ "checkpoint" \in DOMAIN generations'[key]
            /\ \/ key \in DOMAIN generations /\ generations'[key].checkpoint = generations[key].checkpoint
               \/ /\ generations'[key].checkpoint.fence \in Nat
                  /\ generations'[key].checkpoint.fence <= FenceOf(key)
  PROVE  FenceInv'
<1>1. ASSUME NEW key PROVE FenceOf(key)' = FenceOf(key)
  BY DEF FenceOf, Lookup
<1> QED
  BY <1>1 DEF FenceInv

\* What is sealed carries the checkpoint the builder validated.
LEMMA PersistWriteStep ==
  ASSUME IndexInv, NEW a \in Workers, PersistWrite(a)
  PROVE  IndexInv'
<1>1. PICK w, key : w = worker[a] /\ key = ResultKey(w.claim.operation)
  OBVIOUS
<1>2. /\ UNCHANGED <<authority, claims, resultFences, providerFences, selected, activationFence>>
      /\ w.pc = "seal" /\ Rest(a)
  BY <1>1 DEF PersistWrite, providerVars
<1>3. UNCHANGED generations \/ generations' = Put(generations, key, Generation(w))
  BY <1>1 DEF PersistWrite
<1>4. CASE generations' = Put(generations, key, Generation(w))
  <2>1. "checkpoint" \in DOMAIN Generation(w) /\ Generation(w).checkpoint = w.checkpoint
    BY DEF Generation
  <2>2. w.checkpoint.fence \in Nat /\ w.checkpoint.fence <= FenceOf(key)
    BY <1>1, <1>2 DEF IndexInv, WorkerInv, Fits, Fenced, Validated, Persisting
  <2>3. PICK g : g = Generation(w)
    OBVIOUS
  <2>4. /\ generations' = [k \in DOMAIN generations' |-> generations'[k]]
        /\ \A k \in DOMAIN generations' :
              \/ k = key /\ generations'[k] = g
              \/ k \in DOMAIN generations /\ generations'[k] = generations[k]
    <3>1. generations' = [k \in DOMAIN generations \cup {key} |-> IF k = key THEN g ELSE generations[k]]
      BY <1>4, <2>3 DEF Put
    <3>2. DOMAIN generations' = DOMAIN generations \cup {key}
      BY <3>1
    <3>3. \A k \in DOMAIN generations \cup {key} : generations'[k] = IF k = key THEN g ELSE generations[k]
      BY <3>1
    <3>4. generations' = [k \in DOMAIN generations' |-> generations'[k]]
      BY <3>1, <3>2, <3>3, Zenon
    <3>5. ASSUME NEW k \in DOMAIN generations'
          PROVE  \/ k = key /\ generations'[k] = g
                 \/ k \in DOMAIN generations /\ generations'[k] = generations[k]
      BY <3>2, <3>3
    <3> QED
      BY <3>4, <3>5, Zenon
  <2>5. \A k \in DOMAIN generations : "checkpoint" \in DOMAIN generations[k]
    BY DEF IndexInv, FenceInv
  <2>6. FenceInv'
    BY <1>2, <2>1, <2>2, <2>3, <2>4, <2>5, GenerationsMove DEF IndexInv
  <2> QED
    BY <1>2, <2>6, IdleFits, OneWorkerMoves DEF Rest
<1> QED
  BY <1>2, <1>3, <1>4, RestStep

LEMMA PromoteStep ==
  ASSUME IndexInv, Promote
  PROVE  IndexInv'
<1>1. UNCHANGED <<authority, claims, resultFences, providerFences, selected, activationFence, worker>>
  BY DEF Promote, providerVars
<1>2. PICK key \in DOMAIN generations :
        generations' = [generations EXCEPT ![key].evidence = "PRODUCTION_READY", ![key].state = "PRODUCTION_READY"]
  BY DEF Promote
<1>3. \A k \in DOMAIN generations : "checkpoint" \in DOMAIN generations[k]
  BY DEF IndexInv, FenceInv
<1>4. /\ DOMAIN generations' = DOMAIN generations /\ generations' = [k \in DOMAIN generations' |-> generations'[k]]
      /\ \A k \in DOMAIN generations : /\ "checkpoint" \in DOMAIN generations'[k]
                                       /\ generations'[k].checkpoint = generations[k].checkpoint
  BY <1>2, <1>3
<1>5. FenceInv'
  BY <1>1, <1>4, GenerationsMove DEF IndexInv
<1> QED
  BY <1>1, <1>5, Standstill, WorkersRest DEF IndexInv

\* An operator has seen the bundle of the moment.
LEMMA ActivateReadStep ==
  ASSUME IndexInv, NEW a \in Workers, ActivateRead(a)
  PROVE  IndexInv'
<1>1. PICK bundle : bundle = selected
  OBVIOUS
<1> DEFINE next == [pc |-> "activate", seen |-> bundle]
<1>2. /\ UNCHANGED <<authority, claims, resultFences, providerFences, generations, selected, activationFence>>
      /\ Become(a, next)
  BY <1>1 DEF ActivateRead, controlVars, providerVars
<1>3. next.pc = "activate" /\ next.seen = bundle /\ "pc" \in DOMAIN next
  OBVIOUS
<1> HIDE DEF next
<1>4. PICK v : v = next
  OBVIOUS
<1>5. Fits(v)'
  BY <1>1, <1>2, <1>3, <1>4
  DEF Fits, Carries, Authorized, Fenced, Seen, Persisting, Validated, Claiming, Permitted, IndexInv, BundleInv
<1> QED
  BY <1>2, <1>4, <1>5, FencesRest, OneWorkerMoves DEF IndexInv

\* What an activation that succeeds has checked and what it writes.
Replaces(a, key, p, fence) ==
    /\ key \in DOMAIN generations /\ fence \in Nat /\ fence > activationFence
    /\ selected = worker[a].seen
    /\ selected' = [generation |-> key, policy |-> p, rev |-> selected.rev + 1] /\ activationFence' = fence
    /\ generations' = [generations EXCEPT ![key].state = "ACTIVATED"]
    /\ indexOutbox' = indexOutbox \cup {[event |-> "SELECTED", generation |-> key, rev |-> selected.rev + 1]}

LEMMA ActivateMoves ==
  ASSUME IndexInv, NEW a \in Workers, Activate(a)
  PROVE  \/ UNCHANGED <<selected, activationFence, generations, indexOutbox>>
         \/ \E key \in DOMAIN generations, p \in Policies, fence \in Fences : Replaces(a, key, p, fence)
<1>1. PICK key \in DOMAIN generations, p \in Policies, fence \in Fences :
        LET outcome == FirstMatch(<<
            <<selected.generation = key /\ selected.policy = p /\ fence = activationFence, "ALREADY_ACTIVATED">>,
            <<fence <= activationFence,                                                  "STALE_FENCE">>,
            <<~BundleIsExpected(selected, worker[a].seen),                               "STALE_SELECTION">>,
            <<generations[key].evidence # "PRODUCTION_READY" \/ ~AcceptsPolicy(generations[key].contract, p),
                                                                                         "NOT_READY">>,
            <<TRUE,                                                                      "ACTIVATED">> >>)
            bundle == [generation |-> key, policy |-> p, rev |-> selected.rev + 1]
        IN  IF outcome = "ACTIVATED"
            THEN /\ selected' = bundle /\ activationFence' = fence
                 /\ generations' = [generations EXCEPT ![key].state = "ACTIVATED"]
                 /\ indexOutbox' = indexOutbox \cup {[event |-> "SELECTED", generation |-> key, rev |-> bundle.rev]}
            ELSE UNCHANGED <<selected, activationFence, generations, indexOutbox>>
  BY DEF Activate
<1> DEFINE replay == selected.generation = key /\ selected.policy = p /\ fence = activationFence
           old == fence <= activationFence
           stale == ~BundleIsExpected(selected, worker[a].seen)
           unready == generations[key].evidence # "PRODUCTION_READY" \/ ~AcceptsPolicy(generations[key].contract, p)
           rules == << <<replay, "ALREADY_ACTIVATED">>, <<old, "STALE_FENCE">>, <<stale, "STALE_SELECTION">>,
                       <<unready, "NOT_READY">>, <<TRUE, "ACTIVATED">> >>
<1>2. CASE FirstMatch(rules) # "ACTIVATED"
  BY <1>1, <1>2
<1>3. CASE FirstMatch(rules) = "ACTIVATED"
  <2>1. /\ selected' = [generation |-> key, policy |-> p, rev |-> selected.rev + 1] /\ activationFence' = fence
        /\ generations' = [generations EXCEPT ![key].state = "ACTIVATED"]
        /\ indexOutbox' = indexOutbox \cup {[event |-> "SELECTED", generation |-> key, rev |-> selected.rev + 1]}
    BY <1>1, <1>3
  <2>2. old \in BOOLEAN /\ stale \in BOOLEAN
    OBVIOUS
  <2> HIDE DEF replay, old, stale, unready
  <2>3. DOMAIN rules = 1 .. 5
    OBVIOUS
  <2>4. /\ rules[1] = <<replay, "ALREADY_ACTIVATED">> /\ rules[2] = <<old, "STALE_FENCE">>
        /\ rules[3] = <<stale, "STALE_SELECTION">> /\ rules[4] = <<unready, "NOT_READY">>
        /\ rules[5] = <<TRUE, "ACTIVATED">>
    OBVIOUS
  <2> HIDE DEF rules
  <2>5. rules[5][1] /\ FirstMatch(rules) = rules[5][2] /\ 5 \in Nat /\ 5 > 0 /\ 5 - 1 = 4
    BY <1>3, <2>4
  <2>6. \A k \in 1 .. 4 : rules[k][2] # rules[5][2]
    BY <2>4
  <2>7. \A k \in 1 .. 4 : ~rules[k][1]
    BY <2>3, <2>5, <2>6, LastRuleApplies
  <2>8. ~old /\ ~stale
    BY <2>4, <2>7
  <2>9. fence \in Nat /\ fence > activationFence
    BY <2>8, IndexAssumption DEF old, IndexInv, BundleInv
  <2>10. selected = worker[a].seen
    BY <2>8 DEF stale, BundleIsExpected, Activate, IndexInv, WorkerInv, Fits, Seen
  <2> QED
    BY <2>1, <2>9, <2>10 DEF Replaces
<1> QED
  BY <1>2, <1>3

LEMMA ActivateStep ==
  ASSUME IndexInv, NEW a \in Workers, Activate(a)
  PROVE  IndexInv'
<1>1. UNCHANGED <<authority, claims, resultFences, providerFences>> /\ Rest(a)
  BY DEF Activate, providerVars
<1>2. CASE UNCHANGED <<selected, activationFence, generations, indexOutbox>>
  BY <1>1, <1>2, RestStep
<1>3. ASSUME NEW key \in DOMAIN generations, NEW p \in Policies, NEW fence \in Fences, Replaces(a, key, p, fence)
      PROVE  IndexInv'
  <2>1. selected.rev < selected'.rev /\ BundleInv'
    BY <1>3 DEF Replaces, IndexInv, BundleInv
  <2>2. AuthorityInv /\ AuthorityInv' /\ LeadsTo(authority, authority')
    BY <1>1, LeadsToItself DEF IndexInv, AuthorityInv
  <2>3. ASSUME NEW k PROVE FenceOf(k) \in Nat /\ FenceOf(k)' = FenceOf(k)
    BY <1>1, FencesAreNumbers DEF IndexInv, FenceOf, Lookup
  <2>4. Onward
    BY <2>1, <2>2, <2>3 DEF Onward, IndexInv
  <2>5. \A k \in DOMAIN generations : "checkpoint" \in DOMAIN generations[k]
    BY DEF IndexInv, FenceInv
  <2>6. /\ DOMAIN generations' = DOMAIN generations /\ generations' = [k \in DOMAIN generations' |-> generations'[k]]
        /\ \A k \in DOMAIN generations : /\ "checkpoint" \in DOMAIN generations'[k]
                                         /\ generations'[k].checkpoint = generations[k].checkpoint
    BY <1>3, <2>5 DEF Replaces
  <2>7. FenceInv'
    BY <1>1, <2>6, GenerationsMove DEF IndexInv
  <2> QED
    BY <1>1, <2>1, <2>2, <2>4, <2>7, IdleFits, WorkerMoves DEF Rest, IndexInv
<1> QED
  BY <1>2, <1>3, ActivateMoves

LEMMA AbandonStep ==
  ASSUME IndexInv, NEW a \in Workers, Abandon(a)
  PROVE  IndexInv'
BY RestStep DEF Abandon, providerVars

LEMMA IndexStep == IndexInv /\ [IndexNext]_indexVars => IndexInv'
<1> SUFFICES ASSUME IndexInv, [IndexNext]_indexVars PROVE IndexInv'
  OBVIOUS
<1>1. CASE UNCHANGED indexVars
  <2>1. UNCHANGED <<authority, claims, resultFences, providerFences, generations, selected, activationFence, worker>>
    BY <1>1 DEF indexVars, controlVars, providerVars
  <2> QED
    BY <2>1, Standstill, FencesRest, WorkersRest DEF IndexInv
<1>2. CASE Environment \/ SelectContract \/ Promote
  BY <1>2, EnvironmentStep, SelectContractStep, PromoteStep
<1>3. ASSUME NEW a \in Workers,
             \/ PersistGuard(a, "policy", "provenance") \/ PersistGuard(a, "provenance", "embedding")
             \/ PersistGuard(a, "embedding", "seal")
      PROVE  IndexInv'
  BY <1>3, PersistGuardStep
<1>4. ASSUME NEW a \in Workers,
             \/ Authorize(a) \/ Prepare(a) \/ ReplaceGeneration(a) \/ MarkUnknown(a) \/ Readback(a) \/ Probe(a)
             \/ PersistBegin(a) \/ PersistWrite(a) \/ ActivateRead(a) \/ Activate(a) \/ Abandon(a)
      PROVE  IndexInv'
  BY <1>4, AuthorizeStep, PrepareStep, ReplaceGenerationStep, MarkUnknownStep, ReadbackStep, ProbeStep,
     PersistBeginStep, PersistWriteStep, ActivateReadStep, ActivateStep, AbandonStep
<1> QED
  BY <1>1, <1>2, <1>3, <1>4 DEF IndexNext

-----------------------------------------------------------------------------
\* The invariant of the vector index: a permit, and the authority seen when persist began, are
\* former authorities of which every part that was read again agrees; every checkpoint carries
\* a fence the provider has taken; what an operator has seen was selected.
THEOREM IndexInvariant == IndexSpec => []IndexInv
<1>1. IndexInit => IndexInv
  BY IndexStart
<1>2. IndexInv /\ [IndexNext]_indexVars => IndexInv'
  BY IndexStep
<1> QED
  BY <1>1, <1>2, PTL DEF IndexSpec

\* VectorGenerationCommitter.persist seals a generation only if membership, policy, publication
\* and embedding selection held together when it took the lock, though it reads them one by one.
THEOREM SealedUnderOneAuthority == IndexSpec => SealedWasAuthorized
<1> DEFINE A == \A a \in Workers :
                  worker[a].pc = "seal" /\ DOMAIN generations' # DOMAIN generations /\ worker'[a] # worker[a] =>
                      worker[a].asOf = worker[a].permit
<1>1. IndexInv => A
  <2> SUFFICES ASSUME IndexInv, NEW a \in Workers, worker[a].pc = "seal"
               PROVE  worker[a].asOf = worker[a].permit
    OBVIOUS
  <2>1. /\ worker[a].asOf \in Authority /\ worker[a].permit \in Authority
        /\ \A f \in Parts : worker[a].asOf[f] = worker[a].permit[f]
    BY DEF IndexInv, WorkerInv, Fits, Authorized, Confirmed, Parts, Persisting, Validated, Claiming, Permitted
  <2> QED
    BY <2>1, SameAuthority
<1>2. IndexInv => [A]_<<generations, worker>>
  BY <1>1
<1> QED
  BY <1>2, IndexInvariant, PTL DEF SealedWasAuthorized

\* The fences the provider has taken never go back.
LEMMA FencesGrow ==
  ASSUME IndexInv, [IndexNext]_indexVars, NEW key
  PROVE  FenceOf(key) \in Nat /\ FenceOf(key)' \in Nat /\ FenceOf(key) <= FenceOf(key)'
<1>1. FenceOf(key) \in Nat
  BY FencesAreNumbers DEF IndexInv
<1>2. IndexInv'
  BY IndexStep
<1>3. FenceOf(key)' \in Nat
  BY <1>2 DEF IndexInv, FenceInv, FenceOf, Lookup
<1>4. CASE UNCHANGED providerVars
  <2>1. FenceOf(key)' = FenceOf(key)
    BY <1>4 DEF FenceOf, Lookup, providerVars
  <2> QED
    BY <1>1, <2>1
<1>5. ASSUME NEW a \in Workers, ReplaceGeneration(a) PROVE FenceOf(key) <= FenceOf(key)'
  BY <1>5, ReplaceGenerationStep
<1>6. UNCHANGED providerVars \/ \E a \in Workers : ReplaceGeneration(a)
  BY DEF IndexNext, indexVars, Environment, SelectContract, Promote, Authorize, Prepare, MarkUnknown, Readback, Probe,
         PersistBegin, PersistGuard, PersistWrite, ActivateRead, Activate, Abandon
<1> QED
  BY <1>1, <1>3, <1>4, <1>5, <1>6

\* The vectors behind a sealed generation are replaced only under a fence no older than the one
\* it was sealed under, however late the superseded builder wakes.
THEOREM LateWritersAreFenced == IndexSpec => LateWriterIsFenced
<1> DEFINE A == \A key \in DOMAIN generations :
                  Lookup(stored', key, <<>>) # Lookup(stored, key, <<>>) =>
                      Lookup(providerFences', key, 0) >= generations[key].checkpoint.fence
<1>1. IndexInv /\ [IndexNext]_indexVars => A
  <2> SUFFICES ASSUME IndexInv, [IndexNext]_indexVars, NEW key \in DOMAIN generations
               PROVE  Lookup(providerFences', key, 0) >= generations[key].checkpoint.fence
    OBVIOUS
  <2>1. FenceOf(key) \in Nat /\ FenceOf(key)' \in Nat /\ FenceOf(key) <= FenceOf(key)'
    BY FencesGrow
  <2>2. generations[key].checkpoint.fence \in Nat /\ generations[key].checkpoint.fence <= FenceOf(key)
    BY DEF IndexInv, FenceInv
  <2>3. Lookup(providerFences', key, 0) = FenceOf(key)'
    BY DEF FenceOf, Lookup
  <2> QED
    BY <2>1, <2>2, <2>3
<1>2. IndexInv /\ [IndexNext]_indexVars => [A]_<<stored, providerFences>>
  BY <1>1
<1> QED
  BY <1>2, IndexInvariant, PTL DEF IndexSpec, LateWriterIsFenced

\* InMemoryVectorControlPlane.activate replaces the very bundle its operator has seen, under a
\* fence that grows, and of all announced selections exactly the new one is current.
THEOREM ActivationsAreNotLost == IndexSpec => NoLostActivation
<1> DEFINE A == \A a \in Workers :
                  selected' # selected /\ worker'[a] # worker[a] =>
                      /\ selected = worker[a].seen /\ activationFence' > activationFence
                      /\ {i.rev : i \in {x \in indexOutbox' : x.event = "SELECTED" /\ (Hint(x) = "CURRENT")'}}
                            = {selected'.rev}
<1>1. IndexInv /\ [IndexNext]_indexVars => A
  <2> SUFFICES ASSUME IndexInv, [IndexNext]_indexVars, NEW a \in Workers, selected' # selected, worker'[a] # worker[a]
               PROVE  /\ selected = worker[a].seen /\ activationFence' > activationFence
                      /\ {i.rev : i \in {x \in indexOutbox' : x.event = "SELECTED" /\ (Hint(x) = "CURRENT")'}}
                            = {selected'.rev}
    OBVIOUS
  <2>1. PICK b \in Workers : Activate(b)
    BY DEF IndexNext, indexVars, controlVars, Environment, SelectContract, Promote, Authorize, Prepare, ReplaceGeneration,
           MarkUnknown, Readback, Probe, PersistBegin, PersistGuard, PersistWrite, ActivateRead, Abandon
  <2>2. b = a
    BY <2>1 DEF Activate, Rest, Become, IndexInv, WorkerInv
  <2>3. PICK key \in DOMAIN generations, p \in Policies, fence \in Fences : Replaces(a, key, p, fence)
    BY <2>1, <2>2, ActivateMoves
  <2>4. selected = worker[a].seen /\ activationFence' > activationFence
    BY <2>3 DEF Replaces
  <2> DEFINE Announced == {x \in indexOutbox' : x.event = "SELECTED" /\ (Hint(x) = "CURRENT")'}
             intent == [event |-> "SELECTED", generation |-> key, rev |-> selected'.rev]
  <2>5. selected'.generation = key /\ selected'.rev = selected.rev + 1
    BY <2>3 DEF Replaces
  <2>6. intent \in indexOutbox' /\ intent.event = "SELECTED" /\ intent.generation = key /\ intent.rev = selected'.rev
    BY <2>3, <2>5 DEF Replaces
  <2> HIDE DEF intent
  <2>7. PICK x : x = intent
    OBVIOUS
  <2>8. (Hint(x) = "CURRENT")'
    BY <2>5, <2>6, <2>7 DEF Hint
  <2>9. x \in Announced /\ x.rev = selected'.rev
    BY <2>6, <2>7, <2>8
  <2>10. ASSUME NEW y \in Announced PROVE y.rev = selected'.rev
    BY <2>10 DEF Hint
  <2> HIDE DEF Announced
  <2>11. {i.rev : i \in Announced} = {selected'.rev}
    BY <2>9, <2>10
  <2> QED
    BY <2>4, <2>11 DEF Announced
<1>2. IndexInv /\ [IndexNext]_indexVars => [A]_<<selected, worker>>
  BY <1>1
<1> QED
  BY <1>2, IndexInvariant, PTL DEF IndexSpec, NoLostActivation
=============================================================================
