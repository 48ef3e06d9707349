------------------------- MODULE McpOperationsProofs -------------------------
(***************************************************************************)
(* Proofs about McpOperations, for any operations, workers, request ids,   *)
(* arrivals, inputs and any number of disturbances.                        *)
(***************************************************************************)
EXTENDS McpOperations, SequenceTheorems, TLAPS

Attempt == Nat \ {0}
Message == [op : Ops, n : Attempt, gen : 1 .. MaxGenerations, id : RequestIds, copy : BOOLEAN]

-----------------------------------------------------------------------------
\* The server: an operation is claimed before it takes effect, by one call only.
ServerInv ==
    /\ effects = [o \in Ops |-> effects[o]] /\ registry = [o \in Ops |-> registry[o]]
    /\ \A c \in calls : c \in [m : Message, pc : {"authorized", "entered", "claimed", "looked"}]
    /\ \A c, d \in calls : c.pc = "claimed" /\ d.pc = "claimed" /\ c.m.op = d.m.op => c = d
    /\ \A op \in Ops :
        /\ effects[op] = <<>> \/ (effects[op] = <<effects[op][1]>> /\ effects[op][1] \in Attempt)
        /\ registry[op] = None => effects[op] = <<>>
    /\ \A c \in calls : /\ c.pc = "claimed" => effects[c.m.op] = <<>> /\ registry[c.m.op] # None
                        /\ c.pc = "looked" => Took(c.m.op, c.m.n)

\* The client: a request key is bound to one attempt for ever.
Bound(k, op, n) == links[k] # None /\ links[k].op = op /\ links[k].n = n
ClientInv ==
    /\ generation \in 1 .. MaxGenerations
    /\ links \in [Keys -> Link \cup {None}]
    /\ \A k \in Keys : links[k] # None => links[k].n \in DOMAIN dispatch[links[k].op]

\* The durable records: all but the newest have been dispatched, and a completed one names the
\* effect of its own attempt.
Ready == {"READY_FOR_DISPATCH", "READY_FOR_RETRY"}
Record == [state : Ready \cup {"DISPATCH_STARTED", "COMPLETED"}, version : Nat, attempt : Nat,
           id : RequestIds \cup {None}, fence : Nat, gen : (1 .. MaxGenerations) \cup {None}, object : Nat \cup {None}]
Repair == [state : {None, "PENDING_RECONCILIATION", "COMPLETED"}, version : Nat,
           outcome : {None, "SUCCEEDED", "FAILED", "NOT_EXECUTED"}, object : Nat \cup {None}, queries : Nat,
           alerted : BOOLEAN]
Spent(op, n) == n \in DOMAIN dispatch[op] /\ dispatch[op][n].state \notin Ready
RecordInv ==
    /\ dispatch \in [Ops -> Seq(Record)] /\ repair \in [Ops -> Seq(Repair)]
    /\ \A op \in Ops :
        /\ Len(dispatch[op]) > 0 /\ Len(repair[op]) = Len(dispatch[op])
        /\ \A n \in 1 .. Len(dispatch[op]) - 1 : Spent(op, n)
        /\ \A n \in 1 .. Len(dispatch[op]) : CompletedIsTrue(op, n)

-----------------------------------------------------------------------------
\* A run that has claimed its record drives the attempt; it is unsent until the exchange.
DrivesAt(w, pcs, op, n) == worker[w] # None /\ worker[w].pc \in pcs /\ worker[w].op = op /\ worker[w].n = n
Driving == {"claimed", "bound", "sent", "proposed"}
Unsent == {"claimed", "bound"}
OnItsWay(op, n) == \/ \E m \in requests : m.op = op /\ m.n = n
                   \/ \E c \in calls : c.m.op = op /\ c.m.n = n
Quiet(op, n) == ~Took(op, n) /\ ~OnItsWay(op, n)
Driven(op, n) == \E w \in Workers : DrivesAt(w, Driving, op, n)
Held(op, n) == \E w \in Workers : DrivesAt(w, Unsent, op, n)

\* An attempt that has not executed and never will.
Gone(op, n) == Spent(op, n) /\ Quiet(op, n) /\ ~Held(op, n)
\* An operation that was claimed, has no effect and never will.
Dead(op) == /\ effects[op] = <<>> /\ registry[op] # None
            /\ \A c \in calls : c.m.op = op => c.pc # "claimed"

\* A message on its way is the one its record names; unless the wire has doubled it, there is no
\* other of the same attempt, and none has executed.
Issued(m) == /\ m \in Message /\ Bound(KeyOf(m), m.op, m.n) /\ Spent(m.op, m.n)
             /\ dispatch[m.op][m.n].id = m.id /\ dispatch[m.op][m.n].gen = m.gen
OnlyOne(m) == /\ ~m.copy /\ ~Took(m.op, m.n)
              /\ \A c \in calls : ~(c.m.op = m.op /\ c.m.n = m.n)
RequestInv ==
    /\ \A m \in requests : Issued(m) /\ (<<m.op, m.n>> \notin duplicated => OnlyOne(m))
    /\ \A c \in calls : Issued(c.m)

\* Only an attempt that was dispatched has taken effect or been doubled.
SpentInv == \A op \in Ops : \A n : Took(op, n) \/ <<op, n>> \in duplicated => Spent(op, n)

\* An answer with content is of an attempt that took effect, and a refusal of the server is of
\* one that did not, unless its request was doubled.
TrueAnswer(a) ==
    LET link == links[KeyOf(a)] IN
    /\ KeyOf(a) \in Keys
    /\ a.kind = "RESULT" /\ a.content # None => link # None /\ a.content = link.n /\ Took(link.op, link.n)
    /\ a.kind = "HTTP" /\ a.from # "intermediary" =>
            link # None /\ (<<link.op, link.n>> \notin duplicated => Gone(link.op, link.n))
    /\ a.kind # "HTTP" => a.kind \in {"RESULT", "ERROR", "FOREIGN"} /\ a.content \in Nat \cup {None}
AnswerInv == \A a \in answers : TrueAnswer(a)

\* A run: what it has read, and what its stage says of the record it drives.
RunInv(r) ==
    /\ {"pc", "op", "n", "id", "gen", "record", "fenced", "permit", "object"} \subseteq DOMAIN r
    /\ r.pc \in {"gated"} \cup Driving /\ r.op \in Ops /\ r.n \in DOMAIN dispatch[r.op]
    /\ r.id \in RequestIds /\ r.gen \in 1 .. MaxGenerations
    /\ r.pc = "gated" => r.record.state \in Ready
    /\ r.pc \in Driving => /\ Spent(r.op, r.n) /\ r.n = Len(dispatch[r.op])
                           /\ dispatch[r.op][r.n].id = r.id /\ dispatch[r.op][r.n].gen = r.gen
    /\ r.pc \in Unsent => Quiet(r.op, r.n) /\ <<r.op, r.n>> \notin duplicated
    /\ r.pc \in {"bound", "sent"} => Bound(KeyOf(r), r.op, r.n)
    /\ r.pc = "proposed" => r.object = r.n /\ Took(r.op, r.n)
WorkerInv ==
    /\ worker = [w \in Workers |-> worker[w]]
    /\ \A w \in Workers : worker[w] # None => RunInv(worker[w])
    /\ \A v, w \in Workers :
            worker[v] # None /\ worker[v].pc \in Driving /\ DrivesAt(w, Driving, worker[v].op, worker[v].n) => v = w

-----------------------------------------------------------------------------
\* A verdict about an attempt that stays true.
Verdict(op, n, outcome, object) == /\ outcome = "SUCCEEDED" => Took(op, object)
                                   /\ outcome = "FAILED" => Dead(op)
                                   /\ outcome = "NOT_EXECUTED" => Gone(op, n)
\* Evidence is about an attempt nobody drives any more.
EvidenceInv ==
    /\ evidence = [o \in Ops |-> evidence[o]]
    /\ \A op \in Ops : LET e == evidence[op] IN e # None =>
        /\ Spent(op, e.n) /\ ~Driven(op, e.n) /\ e.id \in RequestIds \cup {None}
        /\ e.executed = "PROVEN_NOT_EXECUTED" /\ <<op, e.n>> \notin duplicated => Gone(op, e.n)

\* The evidence is about attempt n, which may have executed.
Undecided(op, n) == LET e == evidence[op] IN
    e.n = n /\ e.executed # "PROVEN_NOT_EXECUTED" /\ e.id \in RequestIds \cup {None}

\* A repair is pending for the newest attempt only, which may have executed.
RepairInv ==
    \A op \in Ops : \A n \in DOMAIN repair[op] :
        /\ Verdict(op, n, repair[op][n].outcome, repair[op][n].object)
        /\ repair[op][n].state = "PENDING_RECONCILIATION" =>
            /\ n = Len(repair[op]) /\ Spent(op, n) /\ ~Driven(op, n) /\ Undecided(op, n)
ProposalInv ==
    \A p \in proposals : /\ p.op \in Ops /\ p.n \in DOMAIN repair[p.op]
                         /\ p.outcome \in {"SUCCEEDED", "FAILED", "NOT_EXECUTED"} /\ p.object \in Nat \cup {None}
                         /\ Verdict(p.op, p.n, p.outcome, p.object)

OperationsInv == /\ ServerInv /\ ClientInv /\ RecordInv /\ RequestInv /\ SpentInv /\ AnswerInv /\ WorkerInv
                 /\ EvidenceInv /\ RepairInv /\ ProposalInv

-----------------------------------------------------------------------------
\* At first every operation has one record, ready for dispatch, and nothing has happened.
LEMMA OperationsInit == Init => OperationsInv
<1> SUFFICES ASSUME Init PROVE OperationsInv
  OBVIOUS
<1> USE DEF Init, ServerInit, ClientInit
<1>1. ServerInv
  BY DEF ServerInv
<1>2. ReadyRecord \in Record /\ NoRepair \in Repair /\ ReadyRecord.state \in Ready
  BY DEF ReadyRecord, NoRepair, Record, Repair, Ready
<1>3. ClientInv
  BY OperationsAssumption DEF ClientInv, Keys
<1>4. \A op \in Ops : /\ dispatch[op] = <<ReadyRecord>> /\ repair[op] = <<NoRepair>>
                      /\ Len(dispatch[op]) = 1 /\ Len(repair[op]) = 1
                      /\ dispatch[op][1] = ReadyRecord /\ repair[op][1] = NoRepair
  OBVIOUS
<1>5. RecordInv
  <2>1. dispatch \in [Ops -> Seq(Record)] /\ repair \in [Ops -> Seq(Repair)]
    BY <1>2
  <2>2. \A op \in Ops : CompletedIsTrue(op, 1)
    BY <1>4 DEF CompletedIsTrue, ReadyRecord
  <2> QED
    BY <1>4, <2>1, <2>2 DEF RecordInv
<1>6. RequestInv /\ AnswerInv /\ WorkerInv /\ EvidenceInv /\ ProposalInv
  BY DEF RequestInv, AnswerInv, WorkerInv, DrivesAt, EvidenceInv, ProposalInv
<1>7. RepairInv
  <2>1. NoRepair.state # "PENDING_RECONCILIATION" /\ NoRepair.outcome \notin {"SUCCEEDED", "FAILED", "NOT_EXECUTED"}
    <3>1. None # "PENDING_RECONCILIATION" /\ None \notin {"SUCCEEDED", "FAILED", "NOT_EXECUTED"}
      BY OperationsAssumption
    <3> QED
      BY <3>1 DEF NoRepair
  <2>2. \A op \in Ops : \A n \in DOMAIN repair[op] : repair[op][n] = NoRepair
    BY <1>4
  <2> QED
    BY <2>1, <2>2 DEF RepairInv, Verdict
<1>8. SpentInv
  BY DEF SpentInv, Took
<1> QED
  BY <1>1, <1>3, <1>5, <1>6, <1>7, <1>8 DEF OperationsInv

-----------------------------------------------------------------------------
\* What no step takes back.
RecordsKeep == \A op \in Ops : \A n : Spent(op, n) => /\ Spent(op, n)'
                                                      /\ dispatch'[op][n].id = dispatch[op][n].id
                                                      /\ dispatch'[op][n].gen = dispatch[op][n].gen
LinksKeep == \A k \in Keys : links[k] # None => /\ links'[k] # None
                                                /\ links'[k].op = links[k].op /\ links'[k].n = links[k].n
TookKeep == \A op \in Ops : \A n : Took(op, n) => Took(op, n)'
DeadKeep == \A op \in Ops : Dead(op) => Dead(op)'
GoneKeep == \A op \in Ops : \A n : Gone(op, n) => Gone(op, n)'
QuietKeep == \A op \in Ops : \A n : Quiet(op, n) => Quiet(op, n)'
Lasting == /\ RecordsKeep /\ LinksKeep /\ TookKeep /\ DeadKeep /\ GoneKeep
           /\ duplicated \subseteq duplicated'

LEMMA RecordsStill == ASSUME UNCHANGED dispatch PROVE RecordsKeep
BY DEF RecordsKeep, Spent

LEMMA LinksStill == ASSUME UNCHANGED links PROVE LinksKeep
BY DEF LinksKeep

LEMMA ServerStill ==
  ASSUME UNCHANGED <<effects, registry, calls>>, requests' \subseteq requests
  PROVE  TookKeep /\ DeadKeep /\ QuietKeep
<1>1. \A op \in Ops : \A n : Took(op, n)' <=> Took(op, n)
  BY DEF Took
<1>2. \A op \in Ops : \A n : OnItsWay(op, n)' => OnItsWay(op, n)
  BY DEF OnItsWay
<1>3. DeadKeep
  BY DEF DeadKeep, Dead
<1> QED
  BY <1>1, <1>2, <1>3 DEF TookKeep, QuietKeep, Quiet

\* An attempt stays gone unless a worker takes it up again.
LEMMA GoneStays ==
  ASSUME RecordsKeep, QuietKeep,
         \A op \in Ops : \A n : Spent(op, n) /\ Held(op, n)' => Held(op, n)
  PROVE  GoneKeep
BY DEF RecordsKeep, QuietKeep, GoneKeep, Gone

LEMMA HeldStill ==
  ASSUME UNCHANGED worker
  PROVE  \A op, n : Held(op, n)' = Held(op, n) /\ Driven(op, n)' = Driven(op, n)
BY DEF Held, Driven, DrivesAt

\* What was true of an answer, a verdict or a message stays true.
LEMMA AnswerStays ==
  ASSUME ClientInv, Lasting, NEW a, TrueAnswer(a)
  PROVE  TrueAnswer(a)'
<1>1. PICK k : k = KeyOf(a)
  OBVIOUS
<1>2. k \in Keys
  BY <1>1 DEF TrueAnswer
<1>3. links[k] # None => links[k].op \in Ops
  BY <1>2 DEF ClientInv, Link
<1>4. KeyOf(a)' = k
  BY <1>1 DEF KeyOf
<1>5. links[k] # None => links'[k] # None /\ links'[k].op = links[k].op /\ links'[k].n = links[k].n
  BY <1>2 DEF Lasting, LinksKeep
<1>6. a.kind = "RESULT" /\ a.content # None =>
        links'[k] # None /\ a.content = links'[k].n /\ Took(links[k].op, links[k].n)'
  BY <1>1, <1>3, <1>5 DEF TrueAnswer, Lasting, TookKeep
<1> QED
  BY <1>1, <1>2, <1>3, <1>4, <1>5 DEF TrueAnswer, Lasting, TookKeep, GoneKeep

LEMMA VerdictStays ==
  ASSUME Lasting, NEW op \in Ops, NEW n, NEW outcome, NEW object, Verdict(op, n, outcome, object)
  PROVE  Verdict(op, n, outcome, object)'
BY DEF Verdict, Lasting, TookKeep, DeadKeep, GoneKeep

LEMMA IssuedStays ==
  ASSUME RecordsKeep, LinksKeep, NEW m, Issued(m)
  PROVE  Issued(m)'
<1>1. m.op \in Ops /\ KeyOf(m) \in Keys /\ KeyOf(m)' = KeyOf(m)
  BY DEF Issued, Message, KeyOf, Keys
<1> QED
  BY <1>1 DEF Issued, Bound, RecordsKeep, LinksKeep

\* A run that does not move keeps what its stage says.
LEMMA RunStays ==
  ASSUME RecordsKeep, LinksKeep, TookKeep, NEW r, RunInv(r),
         r.n \in DOMAIN dispatch'[r.op],
         r.pc \in Driving => r.n = Len(dispatch'[r.op]),
         r.pc \in Unsent => Quiet(r.op, r.n)' /\ <<r.op, r.n>> \notin duplicated'
  PROVE  RunInv(r)'
<1>1. r.op \in Ops /\ KeyOf(r) \in Keys /\ KeyOf(r)' = KeyOf(r)
  BY DEF RunInv, KeyOf, Keys
<1>2. r.pc \in Driving => /\ Spent(r.op, r.n)'
                          /\ dispatch'[r.op][r.n].id = r.id /\ dispatch'[r.op][r.n].gen = r.gen
  BY <1>1 DEF RunInv, RecordsKeep
<1>3. r.pc \in {"bound", "sent"} => Bound(KeyOf(r), r.op, r.n)'
  BY <1>1 DEF RunInv, LinksKeep, Bound
<1>4. r.pc = "proposed" => r.object = r.n /\ Took(r.op, r.n)'
  BY <1>1 DEF RunInv, TookKeep
<1> QED
  BY <1>2, <1>3, <1>4 DEF RunInv

\* The part of the state that is the workers' and the stores' does not move.
LEMMA StoresRest ==
  ASSUME OperationsInv, UNCHANGED <<links, dispatch, repair, evidence, worker, proposals>>,
         generation' \in 1 .. MaxGenerations,
         TookKeep, DeadKeep, QuietKeep, duplicated \subseteq duplicated',
         \A op, n : <<op, n>> \in duplicated' => <<op, n>> \in duplicated \/ OnItsWay(op, n),
         \A op \in Ops : \A n : Took(op, n)' => Took(op, n) \/ OnItsWay(op, n),
         ServerInv', RequestInv', \A a \in answers' : a \in answers \/ TrueAnswer(a)'
  PROVE  OperationsInv'
<1>1. RecordsKeep /\ LinksKeep
  BY RecordsStill, LinksStill
<1>2. GoneKeep
  BY <1>1, HeldStill, GoneStays
<1>3. Lasting
  BY <1>1, <1>2 DEF Lasting
<1>4. ClientInv'
  BY DEF OperationsInv, ClientInv
<1>5. RecordInv'
  <2>1. ASSUME NEW op \in Ops, NEW n \in 1 .. Len(dispatch[op]) PROVE CompletedIsTrue(op, n)'
    BY DEF OperationsInv, RecordInv, CompletedIsTrue, TookKeep
  <2>2. ASSUME NEW op \in Ops, NEW n \in 1 .. Len(dispatch[op]) - 1 PROVE Spent(op, n)'
    BY DEF OperationsInv, RecordInv, Spent
  <2> QED
    BY <2>1, <2>2 DEF OperationsInv, RecordInv
<1>6. AnswerInv'
  BY <1>3, AnswerStays DEF OperationsInv, AnswerInv
<1>7. WorkerInv'
  <2>1. ASSUME NEW w \in Workers, worker[w] # None PROVE RunInv(worker[w])'
    <3>1. PICK r : r = worker[w]
      OBVIOUS
    <3>2. RunInv(r)
      BY <2>1, <3>1 DEF OperationsInv, WorkerInv
    <3>3. r.pc \in Unsent => Quiet(r.op, r.n)' /\ <<r.op, r.n>> \notin duplicated'
      BY <3>2 DEF RunInv, QuietKeep, Quiet
    <3>4. RunInv(r)'
      BY <1>1, <3>2, <3>3, RunStays DEF RunInv
    <3> QED
      BY <3>1, <3>4
  <2> QED
    BY <2>1 DEF OperationsInv, WorkerInv, DrivesAt
<1>8. EvidenceInv'
  <2>1. ASSUME NEW op \in Ops, evidence[op] # None, NEW n, n = evidence[op].n
        PROVE  /\ Spent(op, n)' /\ ~Driven(op, n)'
               /\ evidence[op].executed = "PROVEN_NOT_EXECUTED" /\ <<op, n>> \notin duplicated' => Gone(op, n)'
    BY <2>1, <1>1, <1>2, HeldStill DEF OperationsInv, EvidenceInv, RecordsKeep, GoneKeep
  <2> QED
    BY <2>1 DEF OperationsInv, EvidenceInv
<1>9. RepairInv'
  <2>1. ASSUME NEW op \in Ops, NEW n \in DOMAIN repair[op]
        PROVE  /\ Verdict(op, n, repair[op][n].outcome, repair[op][n].object)'
               /\ repair[op][n].state = "PENDING_RECONCILIATION" => Spent(op, n)' /\ ~Driven(op, n)' /\ Undecided(op, n)'
    <3>1. PICK outcome, object : outcome = repair[op][n].outcome /\ object = repair[op][n].object
      OBVIOUS
    <3>2. Verdict(op, n, outcome, object)'
      BY <1>3, <3>1, VerdictStays DEF OperationsInv, RepairInv
    <3>3. repair[op][n].state = "PENDING_RECONCILIATION" => Spent(op, n)' /\ ~Driven(op, n)' /\ Undecided(op, n)'
      BY <1>1, HeldStill DEF OperationsInv, RepairInv, RecordsKeep, Undecided
    <3> QED
      BY <3>1, <3>2, <3>3
  <2> QED
    BY <2>1 DEF OperationsInv, RepairInv
<1>10. ProposalInv'
  <2>1. ASSUME NEW p \in proposals PROVE Verdict(p.op, p.n, p.outcome, p.object)'
    BY <1>3, VerdictStays DEF OperationsInv, ProposalInv
  <2> QED
    BY <2>1 DEF OperationsInv, ProposalInv
<1>11. SpentInv'
  <2>1. \A op, n : OnItsWay(op, n) => Spent(op, n)
    BY DEF OperationsInv, RequestInv, OnItsWay, Issued
  <2>2. \A op, n : Spent(op, n)' <=> Spent(op, n)
    BY DEF Spent
  <2> QED
    BY <2>1, <2>2 DEF OperationsInv, SpentInv
<1> QED
  BY <1>4, <1>5, <1>6, <1>7, <1>8, <1>9, <1>10, <1>11 DEF OperationsInv

-----------------------------------------------------------------------------
\* The answers of the server: a plain one, one with content, a refusal.
LEMMA AnswerFields ==
  ASSUME NEW m, NEW kind, NEW content
  PROVE  LET a == Answer(m, kind, content)
         IN  /\ a.gen = m.gen /\ a.id = m.id /\ a.kind = kind /\ a.content = content /\ a.from = "server"
             /\ KeyOf(a) = KeyOf(m)
BY DEF Answer, KeyOf

LEMMA PlainAnswer ==
  ASSUME NEW m, KeyOf(m) \in Keys, NEW kind \in {"RESULT", "ERROR", "FOREIGN"}
  PROVE  TrueAnswer(Answer(m, kind, None))'
<1>1. PICK a : a = Answer(m, kind, None)
  OBVIOUS
<1>2. a.kind = kind /\ a.content = None /\ KeyOf(a) = KeyOf(m)
  BY <1>1, AnswerFields
<1>3. TrueAnswer(a)'
  BY <1>2 DEF TrueAnswer, KeyOf, Keys
<1> QED
  BY <1>1, <1>3 DEF Answer

LEMMA ContentAnswer ==
  ASSUME NEW m \in Message, Bound(KeyOf(m), m.op, m.n)', Took(m.op, m.n)'
  PROVE  TrueAnswer(Answer(m, "RESULT", m.n))'
<1>1. PICK a : a = Answer(m, "RESULT", m.n)
  OBVIOUS
<1>2. a.kind = "RESULT" /\ a.content = m.n /\ KeyOf(a) = KeyOf(m) /\ m.n \in Nat /\ KeyOf(m) \in Keys
  BY <1>1, AnswerFields DEF Message, Attempt, KeyOf, Keys
<1>3. TrueAnswer(a)'
  BY <1>2 DEF TrueAnswer, Bound, KeyOf, Keys
<1> QED
  BY <1>1, <1>3 DEF Answer

LEMMA RefusalAnswer ==
  ASSUME NEW m \in Message, NEW code, Bound(KeyOf(m), m.op, m.n)', <<m.op, m.n>> \notin duplicated' => Gone(m.op, m.n)'
  PROVE  TrueAnswer(Answer(m, "HTTP", code))'
<1>1. PICK a : a = Answer(m, "HTTP", code)
  OBVIOUS
<1>2. a.kind = "HTTP" /\ KeyOf(a) = KeyOf(m) /\ KeyOf(m) \in Keys
  BY <1>1, AnswerFields DEF Message, KeyOf, Keys
<1>3. TrueAnswer(a)'
  BY <1>2 DEF TrueAnswer, Bound, KeyOf, Keys
<1> QED
  BY <1>1, <1>3 DEF Answer

-----------------------------------------------------------------------------
\* Unless the wire has doubled it, a request is the only one of its attempt.
LEMMA OneRequest ==
  ASSUME RequestInv, NEW m \in requests, NEW q \in requests, q.op = m.op, q.n = m.n, <<m.op, m.n>> \notin duplicated
  PROVE  q = m
<1>1. m \in Message /\ q \in Message /\ ~m.copy /\ ~q.copy /\ m.id = q.id /\ m.gen = q.gen
  BY DEF RequestInv, Issued, OnlyOne
<1> QED
  BY <1>1 DEF Message

\* A worker that has not sent yet has nothing on its way.
LEMMA HeldIsQuiet ==
  ASSUME WorkerInv, NEW op, NEW n, Held(op, n)
  PROVE  Quiet(op, n) /\ <<op, n>> \notin duplicated
BY DEF WorkerInv, Held, DrivesAt, RunInv

\* A request that arrives becomes a call, or is refused and then gone.
LEMMA ArriveStep ==
  ASSUME OperationsInv, NEW m \in requests, Arrive(m), UNCHANGED <<clientVars, opVars>>
  PROVE  OperationsInv'
<1> DEFINE call == [m |-> m, pc |-> "authorized"]
<1>1. UNCHANGED <<links, dispatch, repair, evidence, worker, proposals, duplicated, generation, registry, effects>>
  BY DEF Arrive, clientVars, opVars
<1>2. Issued(m) /\ m \in Message /\ m.op \in Ops /\ KeyOf(m) \in Keys
  BY DEF OperationsInv, RequestInv, Issued, Message, KeyOf, Keys
<1>3. /\ requests' = requests \ {m}
      /\ \/ calls' = calls \cup {call} /\ UNCHANGED answers
         \/ UNCHANGED calls /\ \E code : answers' = answers \cup {Answer(m, "HTTP", code)}
  BY DEF Arrive, Reply
<1>4. \A op \in Ops : \A n : Took(op, n)' <=> Took(op, n)
  BY <1>1 DEF Took
<1>5. call.m = m /\ call.pc = "authorized"
      /\ call \in [m : Message, pc : {"authorized", "entered", "claimed", "looked"}]
  BY <1>2
<1> HIDE DEF call
<1>6. \A c \in calls' : c \in calls \/ c = call
  BY <1>3
<1>7. TookKeep /\ DeadKeep
  BY <1>1, <1>4, <1>5, <1>6 DEF TookKeep, DeadKeep, Dead
<1>8. ASSUME NEW op, NEW n, OnItsWay(op, n)' PROVE OnItsWay(op, n)
  BY <1>3, <1>5, <1>6, <1>8 DEF OnItsWay
<1>9. QuietKeep
  BY <1>4, <1>8 DEF QuietKeep, Quiet
<1>10. ServerInv'
  <2>1. ASSUME NEW c \in calls', c.pc \in {"claimed", "looked"} PROVE c \in calls
    BY <2>1, <1>5, <1>6
  <2>2. \A c \in calls' : c.pc = "looked" => Took(c.m.op, c.m.n)'
    BY <2>1, <1>7 DEF OperationsInv, ServerInv, TookKeep, Message
  <2> QED
    BY <2>1, <2>2, <1>1, <1>5, <1>6 DEF OperationsInv, ServerInv
<1>11. RequestInv'
  <2>1. RecordsKeep /\ LinksKeep
    BY <1>1, RecordsStill, LinksStill
  <2>2. ASSUME NEW q \in requests' PROVE Issued(q)'
    BY <1>3, <2>1, IssuedStays DEF OperationsInv, RequestInv
  <2>3. ASSUME NEW q \in requests', <<q.op, q.n>> \notin duplicated' PROVE OnlyOne(q)'
    <3>1. q \in requests /\ q # m /\ OnlyOne(q) /\ q.op \in Ops
      BY <1>1, <1>3, <2>3 DEF OperationsInv, RequestInv, Issued, Message
    <3>2. ~(m.op = q.op /\ m.n = q.n)
      BY <1>1, <2>3, <3>1, OneRequest DEF OperationsInv
    <3> QED
      BY <1>4, <1>5, <1>6, <3>1, <3>2 DEF OnlyOne
  <2>4. ASSUME NEW c \in calls' PROVE Issued(c.m)'
    <3>1. PICK q : q = c.m
      OBVIOUS
    <3>2. Issued(q)
      BY <1>2, <1>5, <1>6, <3>1 DEF OperationsInv, RequestInv
    <3>3. Issued(q)'
      BY <2>1, <3>2, IssuedStays
    <3> QED
      BY <3>1, <3>3
  <2> QED
    BY <2>2, <2>3, <2>4 DEF RequestInv
<1>12. ASSUME NEW a \in answers', a \notin answers PROVE TrueAnswer(a)'
  <2>1. PICK code : a = Answer(m, "HTTP", code)
    BY <1>3, <1>12
  <2>2. UNCHANGED calls
    BY <1>3, <1>12
  <2>3. Bound(KeyOf(m), m.op, m.n)'
    BY <1>1, <1>2 DEF Issued, Bound, KeyOf
  <2>4. ASSUME <<m.op, m.n>> \notin duplicated' PROVE Gone(m.op, m.n)'
    <3>1. <<m.op, m.n>> \notin duplicated
      BY <1>1, <2>4
    <3>2. OnlyOne(m) /\ Spent(m.op, m.n)
      BY <1>2, <3>1 DEF OperationsInv, RequestInv, Issued
    <3>3. ~Took(m.op, m.n)'
      BY <1>2, <1>4, <3>2 DEF OnlyOne
    <3>4. ~OnItsWay(m.op, m.n)'
      <4>1. ~ \E q \in requests' : q.op = m.op /\ q.n = m.n
        BY <1>3, <3>1, OneRequest DEF OperationsInv
      <4> QED
        BY <2>2, <3>2, <4>1 DEF OnItsWay, OnlyOne
    <3>5. ~Held(m.op, m.n)
      BY HeldIsQuiet DEF OperationsInv, Quiet, OnItsWay
    <3>6. ~Held(m.op, m.n)'
      BY <1>1, <3>5, HeldStill
    <3>7. Spent(m.op, m.n)'
      BY <1>1, <3>2 DEF Spent
    <3> QED
      BY <3>3, <3>4, <3>6, <3>7 DEF Gone, Quiet
  <2>5. TrueAnswer(Answer(m, "HTTP", code))'
    BY <1>2, <2>3, <2>4, RefusalAnswer
  <2> QED
    BY <2>1, <2>5 DEF Answer
<1>13. generation' \in 1 .. MaxGenerations
  BY <1>1 DEF OperationsInv, ClientInv
<1> QED
  BY <1>1, <1>4, <1>7, <1>9, <1>10, <1>11, <1>12, <1>13, StoresRest

-----------------------------------------------------------------------------
\* Calls move on, end or take effect.
LEMMA CallsMove ==
  ASSUME OperationsInv, UNCHANGED <<requests, clientVars, opVars>>,
         \A c \in calls' : \E d \in calls : c.m = d.m,
         TookKeep, DeadKeep,
         \A op \in Ops : \A n : Took(op, n)' => Took(op, n) \/ \E d \in calls : d.m.op = op /\ d.m.n = n,
         ServerInv', \A a \in answers' : a \in answers \/ TrueAnswer(a)'
  PROVE  OperationsInv'
<1>1. UNCHANGED <<links, dispatch, repair, evidence, worker, proposals, duplicated, generation>>
  BY DEF clientVars, opVars
<1>2. \A op, n : OnItsWay(op, n)' => OnItsWay(op, n)
  BY DEF OnItsWay
<1>3. QuietKeep
  BY <1>2 DEF QuietKeep, Quiet, OnItsWay
<1>4. RequestInv'
  <2>1. RecordsKeep /\ LinksKeep
    BY <1>1, RecordsStill, LinksStill
  <2>2. ASSUME NEW q \in requests' PROVE Issued(q)'
    BY <2>1, IssuedStays DEF OperationsInv, RequestInv
  <2>3. ASSUME NEW q \in requests', <<q.op, q.n>> \notin duplicated' PROVE OnlyOne(q)'
    <3>1. q \in requests /\ OnlyOne(q) /\ q.op \in Ops
      BY <1>1, <2>3 DEF OperationsInv, RequestInv, Issued, Message
    <3> QED
      BY <3>1 DEF OnlyOne
  <2>4. ASSUME NEW c \in calls' PROVE Issued(c.m)'
    <3>1. PICK q : q = c.m
      OBVIOUS
    <3>2. Issued(q)
      BY <3>1 DEF OperationsInv, RequestInv
    <3>3. Issued(q)'
      BY <2>1, <3>2, IssuedStays
    <3> QED
      BY <3>1, <3>3
  <2> QED
    BY <2>2, <2>3, <2>4 DEF RequestInv
<1>5. generation' \in 1 .. MaxGenerations
  BY <1>1 DEF OperationsInv, ClientInv
<1>6. \A op \in Ops : \A n : Took(op, n)' => Took(op, n) \/ OnItsWay(op, n)
  BY DEF OnItsWay
<1> QED
  BY <1>1, <1>3, <1>4, <1>5, <1>6, StoresRest

Stages == {"authorized", "entered", "claimed", "looked"}

LEMMA CallAdvances ==
  ASSUME ServerInv, NEW call \in calls, NEW pc \in Stages, Advance(call, pc)
  PROVE  \E next \in [m : Message, pc : Stages] :
            next.m = call.m /\ next.pc = pc /\ calls' = (calls \ {call}) \cup {next}
<1> DEFINE next == [call EXCEPT !.pc = pc]
<1>1. call \in [m : Message, pc : Stages]
  BY DEF ServerInv, Stages
<1>2. next \in [m : Message, pc : Stages] /\ next.m = call.m /\ next.pc = pc
  BY <1>1
<1>3. calls' = (calls \ {call}) \cup {next}
  BY DEF Advance
<1> HIDE DEF next
<1> QED
  BY <1>2, <1>3

\* Calls that leave, or move without claiming or taking effect.
LEMMA CallsUnclaimed ==
  ASSUME OperationsInv, UNCHANGED <<requests, clientVars, opVars, registry, effects>>,
         NEW next \in [m : Message, pc : Stages], next.pc \notin {"claimed", "looked"},
         \E d \in calls : next.m = d.m,
         \A c \in calls' : c \in calls \/ c = next,
         \A a \in answers' : a \in answers \/ TrueAnswer(a)'
  PROVE  OperationsInv'
<1>1. \A op \in Ops : \A n : Took(op, n)' <=> Took(op, n)
  BY DEF Took
<1>2. TookKeep /\ DeadKeep
  BY <1>1 DEF TookKeep, DeadKeep, Dead
<1>3. ServerInv'
  <2>1. ASSUME NEW c \in calls', c.pc \in {"claimed", "looked"} PROVE c \in calls
    BY <2>1
  <2>2. \A c \in calls' : c.pc = "looked" => Took(c.m.op, c.m.n)'
    BY <2>1, <1>2 DEF OperationsInv, ServerInv, TookKeep, Message
  <2> QED
    BY <2>1, <2>2 DEF OperationsInv, ServerInv, Stages
<1> QED
  BY <1>1, <1>2, <1>3, CallsMove

LEMMA CallsLeave ==
  ASSUME OperationsInv, UNCHANGED <<requests, clientVars, opVars, effects>>, calls' \subseteq calls,
         registry' = [o \in Ops |-> registry'[o]], \A o \in Ops : registry[o] # None => registry'[o] # None,
         \A a \in answers' : a \in answers \/ TrueAnswer(a)'
  PROVE  OperationsInv'
<1>1. \A op \in Ops : \A n : Took(op, n)' <=> Took(op, n)
  BY DEF Took
<1>2. TookKeep /\ DeadKeep
  BY <1>1 DEF TookKeep, DeadKeep, Dead
<1>3. ServerInv'
  <2>1. \A c \in calls' : c.pc = "looked" => Took(c.m.op, c.m.n)'
    BY <1>2 DEF OperationsInv, ServerInv, TookKeep, Message
  <2>2. \A c \in calls' : c.pc = "claimed" => effects'[c.m.op] = <<>> /\ registry'[c.m.op] # None
    BY DEF OperationsInv, ServerInv, Message
  <2>3. /\ \A c \in calls' : c \in [m : Message, pc : Stages]
        /\ \A c, d \in calls' : c.pc = "claimed" /\ d.pc = "claimed" /\ c.m.op = d.m.op => c = d
    BY DEF OperationsInv, ServerInv, Stages
  <2>4. effects' = [o \in Ops |-> effects'[o]] /\ \A o \in Ops : registry'[o] = None => effects'[o] = <<>>
    BY DEF OperationsInv, ServerInv
  <2>5. \A o \in Ops : effects'[o] = <<>> \/ (effects'[o] = <<effects'[o][1]>> /\ effects'[o][1] \in Attempt)
    BY DEF OperationsInv, ServerInv
  <2> QED
    BY <2>1, <2>2, <2>3, <2>4, <2>5 DEF ServerInv, Stages
<1> QED
  BY <1>1, <1>2, <1>3, CallsMove

\* An answer without content.
LEMMA PlainReply ==
  ASSUME OperationsInv, NEW call \in calls, NEW kind \in {"RESULT", "ERROR"}, Reply(call.m, kind, None)
  PROVE  \A a \in answers' : a \in answers \/ TrueAnswer(a)'
<1>1. PICK m : m = call.m
  OBVIOUS
<1>2. KeyOf(m) \in Keys
  BY <1>1 DEF OperationsInv, ServerInv, Message, KeyOf, Keys
<1>3. TrueAnswer(Answer(m, kind, None))'
  BY <1>2, PlainAnswer
<1>4. answers' = answers \cup {Answer(m, kind, None)}
  BY <1>1 DEF Reply
<1>5. ASSUME NEW a \in answers', a \notin answers PROVE TrueAnswer(a)'
  <2>1. a = Answer(m, kind, None)
    BY <1>4, <1>5
  <2> QED
    BY <1>3, <2>1 DEF Answer
<1> QED
  BY <1>5

LEMMA EnterStep ==
  ASSUME OperationsInv, NEW call \in calls, Enter(call), UNCHANGED <<clientVars, opVars>>
  PROVE  OperationsInv'
<1>1. UNCHANGED <<requests, registry, effects>>
  BY DEF Enter
<1>2. CASE Reply(call.m, "ERROR", None) /\ calls' = calls \ {call}
  <2>1. \A a \in answers' : a \in answers \/ TrueAnswer(a)'
    BY <1>2, PlainReply
  <2>2. registry' = [o \in Ops |-> registry'[o]]
    BY <1>1 DEF OperationsInv, ServerInv
  <2> QED
    BY <1>1, <1>2, <2>1, <2>2, CallsLeave
<1>3. CASE Advance(call, "entered") /\ UNCHANGED answers
  <2>1. ServerInv
    BY DEF OperationsInv
  <2>2. PICK next \in [m : Message, pc : Stages] :
           next.m = call.m /\ next.pc = "entered" /\ calls' = (calls \ {call}) \cup {next}
    BY <1>3, <2>1, CallAdvances DEF Stages
  <2> QED
    BY <1>1, <1>3, <2>2, CallsUnclaimed
<1> QED
  BY <1>2, <1>3 DEF Enter

\* InMemoryOperationRegistry.try_claim: the operation was free, so no other call has claimed it.
LEMMA ClaimStep ==
  ASSUME OperationsInv, NEW call \in calls, Claim(call), UNCHANGED <<clientVars, opVars>>
  PROVE  OperationsInv'
<1>1. UNCHANGED <<requests, effects>>
  BY DEF Claim
<1>2. CASE Reply(call.m, "RESULT", None) /\ Leave(call) /\ UNCHANGED registry
  <2>1. \A a \in answers' : a \in answers \/ TrueAnswer(a)'
    BY <1>2, PlainReply
  <2>2. registry' = [o \in Ops |-> registry'[o]]
    BY <1>2 DEF OperationsInv, ServerInv
  <2> QED
    BY <1>1, <1>2, <2>1, <2>2, CallsLeave DEF Leave
<1>3. CASE /\ TryClaim(call.m.op) = "CLAIMED" /\ registry' = [registry EXCEPT ![call.m.op] = "IN_FLIGHT"]
           /\ Advance(call, "claimed") /\ UNCHANGED answers
  <2>1. ServerInv
    BY DEF OperationsInv
  <2>2. PICK next \in [m : Message, pc : Stages] :
           next.m = call.m /\ next.pc = "claimed" /\ calls' = (calls \ {call}) \cup {next}
    BY <1>3, <2>1, CallAdvances DEF Stages
  <2>3. PICK op \in Ops : op = call.m.op
    BY <2>1 DEF ServerInv, Message
  <2>4. registry[op] = None
    BY <1>3, <2>3 DEF TryClaim
  <2>5. /\ registry' = [o \in Ops |-> registry'[o]] /\ registry'[op] = "IN_FLIGHT" /\ registry'[op] # None
        /\ \A o \in Ops : o # op => registry'[o] = registry[o]
    BY <1>3, <2>1, <2>3, OperationsAssumption DEF ServerInv
  <2>6. effects[op] = <<>> /\ \A c \in calls : c.pc = "claimed" => c.m.op # op
    BY <2>1, <2>4 DEF ServerInv
  <2>7. \A o \in Ops : \A n : Took(o, n)' <=> Took(o, n)
    BY <1>1 DEF Took
  <2>8. TookKeep /\ DeadKeep
    BY <1>1, <2>2, <2>3, <2>4, <2>5, <2>7 DEF TookKeep, DeadKeep, Dead
  <2>9. ServerInv'
    <3>1. ASSUME NEW c \in calls', c.pc = "claimed" PROVE c = next \/ (c \in calls /\ c.m.op # op)
      BY <2>2, <2>6, <3>1
    <3>2. \A c \in calls' : c \in [m : Message, pc : Stages]
      BY <2>1, <2>2 DEF ServerInv, Stages
    <3>3. \A c, d \in calls' : c.pc = "claimed" /\ d.pc = "claimed" /\ c.m.op = d.m.op => c = d
      BY <2>1, <2>2, <2>3, <3>1 DEF ServerInv
    <3>4. \A c \in calls' : c.pc = "claimed" => effects[c.m.op] = <<>> /\ registry'[c.m.op] # None
      BY <2>1, <2>2, <2>3, <2>5, <2>6, <3>1, <3>2 DEF ServerInv, Message
    <3>5. \A o \in Ops : registry'[o] = None => effects[o] = <<>>
      BY <2>1, <2>5 DEF ServerInv
    <3>6. \A c \in calls' : c.pc = "looked" => Took(c.m.op, c.m.n)'
      BY <2>1, <2>2, <2>8 DEF ServerInv, TookKeep, Message
    <3> QED
      BY <1>1, <2>1, <2>5, <3>2, <3>3, <3>4, <3>5, <3>6 DEF ServerInv, Stages
  <2> QED
    BY <1>1, <1>3, <2>2, <2>7, <2>8, <2>9, CallsMove
<1> QED
  BY <1>2, <1>3 DEF Claim

\* The controlled service runs for a claimed call, which is then claimed no more: nothing had
\* taken effect before, and no other call can follow.
LEMMA ServiceRuns ==
  ASSUME OperationsInv, NEW call \in calls, call.pc = "claimed",
         effects' \in {effects, [effects EXCEPT ![call.m.op] = Append(@, call.m.n)]},
         registry' \in {registry, [registry EXCEPT ![call.m.op] = "PENDING_RECONCILIATION"]},
         NEW next \in [m : Message, pc : Stages], next.m = call.m, next.pc = "looked",
         \A c \in calls' : (c \in calls /\ c # call) \/ c = next,
         next \in calls' => next \in calls \/ Took(call.m.op, call.m.n)',
         UNCHANGED <<requests, clientVars, opVars>>,
         \A a \in answers' : a \in answers \/ TrueAnswer(a)'
  PROVE  OperationsInv'
<1>1. ServerInv
  BY DEF OperationsInv
<1>2. PICK op \in Ops, n \in Attempt : op = call.m.op /\ n = call.m.n
  BY <1>1 DEF ServerInv, Message
<1>3. effects[op] = <<>> /\ registry[op] # None
  BY <1>1, <1>2 DEF ServerInv
<1>4. ASSUME NEW c \in calls', c.pc = "claimed" PROVE c \in calls /\ c.m.op # op
  BY <1>1, <1>2, <1>4 DEF ServerInv
<1>5. /\ effects' = [o \in Ops |-> effects'[o]] /\ effects'[op] \in {<<>>, <<n>>}
      /\ \A o \in Ops : o # op => effects'[o] = effects[o]
  <2>1. effects = [o \in Ops |-> effects[o]] /\ Append(effects[op], n) = <<n>>
    BY <1>1, <1>3 DEF ServerInv
  <2>2. CASE effects' = effects
    BY <1>3, <2>1, <2>2
  <2>3. CASE effects' = [effects EXCEPT ![op] = Append(@, n)]
    BY <2>1, <2>3
  <2> QED
    BY <1>2, <2>2, <2>3
<1>6. /\ registry' = [o \in Ops |-> registry'[o]] /\ registry'[op] # None
      /\ \A o \in Ops : o # op => registry'[o] = registry[o]
  BY <1>1, <1>2, <1>3, OperationsAssumption DEF ServerInv
<1>7. \A o \in Ops : \A k : Took(o, k) => o # op
  BY <1>3 DEF Took
<1>8. TookKeep
  BY <1>5, <1>7 DEF TookKeep, Took
<1>9. DeadKeep
  <2>1. \A o \in Ops : Dead(o) => o # op
    BY <1>2 DEF Dead
  <2> QED
    BY <1>4, <1>5, <1>6, <2>1 DEF DeadKeep, Dead
<1>10. ASSUME NEW o \in Ops, NEW k, Took(o, k)' PROVE Took(o, k) \/ (o = op /\ k = n)
  <2>1. CASE o = op
    <3>1. PICK i \in DOMAIN effects'[op] : effects'[op][i] = k
      BY <1>10, <2>1 DEF Took
    <3>2. DOMAIN <<>> = {} /\ DOMAIN <<n>> = {1} /\ <<n>>[1] = n
      OBVIOUS
    <3> QED
      BY <1>5, <2>1, <3>1, <3>2
  <2>2. CASE o # op
    BY <1>5, <1>10, <2>2 DEF Took
  <2> QED
    BY <2>1, <2>2
<1>11. ServerInv'
  <2>1. \A c \in calls' : c \in [m : Message, pc : Stages]
    BY <1>1 DEF ServerInv, Stages
  <2>2. \A c, d \in calls' : c.pc = "claimed" /\ d.pc = "claimed" /\ c.m.op = d.m.op => c = d
    BY <1>1, <1>4 DEF ServerInv
  <2>3. \A c \in calls' : c.pc = "claimed" => effects'[c.m.op] = <<>> /\ registry'[c.m.op] # None
    BY <1>1, <1>4, <1>5, <1>6, <2>1 DEF ServerInv, Message
  <2>4. \A o \in Ops : /\ registry'[o] = None => effects'[o] = <<>>
                       /\ effects'[o] = <<>> \/ (effects'[o] = <<effects'[o][1]>> /\ effects'[o][1] \in Attempt)
    <3>1. ASSUME NEW o \in Ops, o # op
          PROVE  /\ registry'[o] = None => effects'[o] = <<>>
                 /\ effects'[o] = <<>> \/ (effects'[o] = <<effects'[o][1]>> /\ effects'[o][1] \in Attempt)
      BY <1>1, <1>5, <1>6, <3>1 DEF ServerInv
    <3>2. effects'[op] = <<>> \/ (effects'[op] = <<effects'[op][1]>> /\ effects'[op][1] \in Attempt)
      <4>1. <<n>>[1] = n
        OBVIOUS
      <4>2. CASE effects'[op] = <<n>>
        <5>1. effects'[op][1] = n
          BY <4>1, <4>2
        <5> QED
          BY <4>2, <5>1
      <4> QED
        BY <1>5, <4>2
    <3> QED
      BY <1>6, <3>1, <3>2
  <2>5. \A c \in calls' : c.pc = "looked" => Took(c.m.op, c.m.n)'
    BY <1>1, <1>8 DEF ServerInv, TookKeep, Message
  <2> QED
    BY <1>5, <1>6, <2>1, <2>2, <2>3, <2>4, <2>5 DEF ServerInv, Stages
<1>12. \A c \in calls' : \E d \in calls : c.m = d.m
  OBVIOUS
<1>13. \A o \in Ops : \A k : Took(o, k)' => Took(o, k) \/ \E d \in calls : d.m.op = o /\ d.m.n = k
  BY <1>2, <1>10
<1> QED
  BY <1>8, <1>9, <1>11, <1>12, <1>13, CallsMove

LEMMA LookupStep ==
  ASSUME OperationsInv, NEW call \in calls, Lookup(call), UNCHANGED <<clientVars, opVars>>
  PROVE  OperationsInv'
<1> DEFINE took == [effects EXCEPT ![call.m.op] = Append(@, call.m.n)]
<1>1. UNCHANGED requests /\ call.pc = "claimed"
  BY DEF Lookup
<1>2. CASE effects' = took /\ Advance(call, "looked") /\ UNCHANGED <<registry, answers>>
  <2>1. ServerInv
    BY DEF OperationsInv
  <2>2. PICK next \in [m : Message, pc : Stages] :
           next.m = call.m /\ next.pc = "looked" /\ calls' = (calls \ {call}) \cup {next}
    BY <1>2, <2>1, CallAdvances DEF Stages
  <2>3. PICK op \in Ops, n \in Attempt : op = call.m.op /\ n = call.m.n
    BY <2>1 DEF ServerInv, Message
  <2>4. effects'[op] = <<n>>
    <3>1. effects = [o \in Ops |-> effects[o]] /\ effects[op] = <<>>
      BY <1>1, <2>1, <2>3 DEF ServerInv
    <3>2. Append(<<>>, n) = <<n>>
      OBVIOUS
    <3> QED
      BY <1>2, <2>3, <3>1, <3>2
  <2>5. Took(op, n)'
    <3>1. 1 \in DOMAIN <<n>> /\ <<n>>[1] = n
      OBVIOUS
    <3> QED
      BY <2>4, <3>1 DEF Took
  <2> HIDE DEF took
  <2>6. effects' \in {effects, took} /\ \A c \in calls' : (c \in calls /\ c # call) \/ c = next
    BY <1>2, <2>2
  <2>7. Took(call.m.op, call.m.n)'
    BY <2>3, <2>5 DEF Took
  <2> QED
    BY <1>1, <1>2, <2>2, <2>6, <2>7, ServiceRuns DEF took
<1>3. CASE /\ effects' \in {effects, took} /\ registry' = [registry EXCEPT ![call.m.op] = "PENDING_RECONCILIATION"]
           /\ Reply(call.m, "ERROR", None) /\ Leave(call)
  <2>1. \A a \in answers' : a \in answers \/ TrueAnswer(a)'
    BY <1>3, PlainReply
  <2>2. call.m \in Message
    BY DEF OperationsInv, ServerInv
  <2> DEFINE next == [m |-> call.m, pc |-> "looked"]
  <2>3. next \in [m : Message, pc : Stages] /\ next.m = call.m /\ next.pc = "looked"
    BY <2>2 DEF Stages
  <2> HIDE DEF next, took
  <2>4. (\A c \in calls' : (c \in calls /\ c # call) \/ c = next) /\ (next \in calls' => next \in calls)
    BY <1>3 DEF Leave
  <2> QED
    BY <1>1, <1>3, <2>1, <2>3, <2>4, ServiceRuns DEF took
<1> QED
  BY <1>2, <1>3 DEF Lookup

\* The answer with content is given after the effect.
LEMMA FinishStep ==
  ASSUME OperationsInv, NEW call \in calls, Finish(call), UNCHANGED <<clientVars, opVars>>
  PROVE  OperationsInv'
<1>1. UNCHANGED <<requests, effects>> /\ call.pc = "looked" /\ calls' \subseteq calls
  BY DEF Finish, Leave
<1>2. ServerInv /\ registry = [o \in Ops |-> registry[o]]
  BY DEF OperationsInv, ServerInv
<1>3. registry' = registry \/ registry' = [registry EXCEPT ![call.m.op] = "COMPLETED"]
  BY DEF Finish
<1>4. registry' = [o \in Ops |-> registry'[o]] /\ \A o \in Ops : registry[o] # None => registry'[o] # None
  BY <1>2, <1>3, OperationsAssumption
<1>5. \/ Reply(call.m, "ERROR", None) \/ Reply(call.m, "RESULT", None) \/ Reply(call.m, "RESULT", call.m.n)
  BY DEF Finish
<1>6. \A a \in answers' : a \in answers \/ TrueAnswer(a)'
  <2>1. CASE Reply(call.m, "RESULT", call.m.n)
    <3>1. PICK m : m = call.m
      OBVIOUS
    <3>2. Issued(m) /\ m \in Message /\ Took(m.op, m.n)
      BY <1>1, <1>2, <3>1 DEF OperationsInv, RequestInv, ServerInv
    <3>3. Took(m.op, m.n)' /\ Bound(KeyOf(m), m.op, m.n)'
      BY <1>1, <3>2 DEF Took, Issued, Bound, KeyOf, clientVars
    <3>4. TrueAnswer(Answer(m, "RESULT", m.n))'
      BY <3>2, <3>3, ContentAnswer
    <3>5. answers' = answers \cup {Answer(m, "RESULT", m.n)}
      BY <2>1, <3>1 DEF Reply
    <3>6. ASSUME NEW a \in answers', a \notin answers PROVE TrueAnswer(a)'
      <4>1. a = Answer(m, "RESULT", m.n)
        BY <3>5, <3>6
      <4> QED
        BY <3>4, <4>1 DEF Answer
    <3> QED
      BY <3>6
  <2> QED
    BY <1>5, <2>1, PlainReply
<1> QED
  BY <1>1, <1>4, <1>6, CallsLeave

LEMMA DrainPortsStep ==
  ASSUME OperationsInv, NEW op \in Ops, DrainPorts(op), UNCHANGED <<clientVars, opVars>>
  PROVE  OperationsInv'
<1>1. UNCHANGED <<requests, answers, effects>> /\ calls' \subseteq calls
  BY DEF DrainPorts
<1>2. registry = [o \in Ops |-> registry[o]]
  BY DEF OperationsInv, ServerInv
<1>3. registry' = registry \/ registry' = [registry EXCEPT ![op] = "PENDING_RECONCILIATION"]
  BY DEF DrainPorts
<1>4. registry' = [o \in Ops |-> registry'[o]] /\ \A o \in Ops : registry[o] # None => registry'[o] # None
  BY <1>2, <1>3, OperationsAssumption
<1> QED
  BY <1>1, <1>4, CallsLeave

\* Reads and the lifecycle touch no operation.
LEMMA QuietServerStep ==
  ASSUME OperationsInv, UNCHANGED <<requests, answers, calls, registry, effects, clientVars, opVars>>
  PROVE  OperationsInv'
<1>1. registry' = [o \in Ops |-> registry'[o]]
  BY DEF OperationsInv, ServerInv
<1> QED
  BY <1>1, CallsLeave

LEMMA ServerKeeps ==
  ASSUME OperationsInv, UNCHANGED <<clientVars, opVars>>, ServerStep \/ StartRead \/ BeginShutdown
  PROVE  OperationsInv'
<1>1. ASSUME NEW m \in requests, Arrive(m) PROVE OperationsInv'
  BY <1>1, ArriveStep
<1>2. ASSUME NEW c \in calls, Enter(c) \/ Claim(c) \/ Lookup(c) \/ Finish(c) PROVE OperationsInv'
  BY <1>2, EnterStep, ClaimStep, LookupStep, FinishStep
<1>3. ASSUME NEW op \in Ops, DrainPorts(op) PROVE OperationsInv'
  BY <1>3, DrainPortsStep
<1>4. CASE EndRead \/ Shutdown \/ StartRead \/ BeginShutdown
  BY <1>4, QuietServerStep DEF EndRead, Shutdown, StartRead, BeginShutdown
<1> QED
  BY <1>1, <1>2, <1>3, <1>4 DEF ServerStep

-----------------------------------------------------------------------------
\* The wire loses a request, doubles one, or makes up an answer that is not the server's.
LEMMA LoseStep ==
  ASSUME OperationsInv, NEW m \in requests, Lose(m)
  PROVE  OperationsInv'
<1>1. /\ UNCHANGED <<answers, calls, registry, effects, links, generation, dispatch, repair, evidence, worker,
                     proposals, duplicated>>
      /\ requests' \subseteq requests
  BY DEF Lose, serverVars, clientVars, opVars
<1>2. TookKeep /\ DeadKeep /\ QuietKeep
  BY <1>1, ServerStill
<1>3. \A op, n : Took(op, n)' <=> Took(op, n)
  BY <1>1 DEF Took
<1>4. ServerInv'
  <2>1. \A c \in calls : c.pc = "looked" => Took(c.m.op, c.m.n)'
    BY <1>3 DEF OperationsInv, ServerInv
  <2> QED
    BY <1>1, <2>1 DEF OperationsInv, ServerInv
<1>5. RequestInv'
  BY <1>1, <1>3 DEF OperationsInv, RequestInv, Issued, OnlyOne, Bound, Spent, KeyOf
<1>6. generation' \in 1 .. MaxGenerations
  BY <1>1 DEF OperationsInv, ClientInv
<1> QED
  BY <1>1, <1>2, <1>3, <1>4, <1>5, <1>6, StoresRest

LEMMA DuplicateStep ==
  ASSUME OperationsInv, NEW m \in requests, Duplicate(m)
  PROVE  OperationsInv'
<1> DEFINE q == [m EXCEPT !.copy = TRUE]
<1>1. /\ UNCHANGED <<answers, calls, registry, effects, links, generation, dispatch, repair, evidence, worker,
                     proposals>>
      /\ requests' = requests \cup {q} /\ duplicated' = duplicated \cup {<<m.op, m.n>>}
  BY DEF Duplicate, serverVars, clientVars
<1>2. Issued(m) /\ m \in Message
  BY DEF OperationsInv, RequestInv, Issued
<1>3. q \in Message /\ q.op = m.op /\ q.n = m.n /\ q.gen = m.gen /\ q.id = m.id
  BY <1>2 DEF Message
<1>4. Issued(q)
  BY <1>2, <1>3 DEF Issued, KeyOf
<1> HIDE DEF q
<1>5. \A op, n : Took(op, n)' <=> Took(op, n)
  BY <1>1 DEF Took
<1>6. ASSUME NEW op, NEW n, OnItsWay(op, n)' PROVE OnItsWay(op, n)
  BY <1>1, <1>3, <1>6 DEF OnItsWay
<1>7. TookKeep /\ DeadKeep /\ QuietKeep
  BY <1>1, <1>5, <1>6 DEF TookKeep, DeadKeep, Dead, QuietKeep, Quiet
<1>8. ServerInv'
  <2>1. \A c \in calls : c.pc = "looked" => Took(c.m.op, c.m.n)'
    BY <1>5 DEF OperationsInv, ServerInv
  <2> QED
    BY <1>1, <2>1 DEF OperationsInv, ServerInv
<1>9. RequestInv'
  <2>1. \A r \in requests' : Issued(r)'
    BY <1>1, <1>4, RecordsStill, LinksStill, IssuedStays DEF OperationsInv, RequestInv
  <2>2. ASSUME NEW r \in requests', <<r.op, r.n>> \notin duplicated' PROVE OnlyOne(r)'
    <3>1. r \in requests /\ <<r.op, r.n>> \notin duplicated
      BY <1>1, <1>3, <2>2
    <3> QED
      BY <1>1, <1>5, <3>1 DEF OperationsInv, RequestInv, OnlyOne
  <2>3. \A c \in calls' : Issued(c.m)'
    BY <1>1 DEF OperationsInv, RequestInv, Issued, Bound, Spent, KeyOf
  <2> QED
    BY <2>1, <2>2, <2>3 DEF RequestInv
<1>10. \A op, n : <<op, n>> \in duplicated' => <<op, n>> \in duplicated \/ OnItsWay(op, n)
  BY <1>1 DEF OnItsWay
<1>11. generation' \in 1 .. MaxGenerations
  BY <1>1 DEF OperationsInv, ClientInv
<1> QED
  BY <1>1, <1>5, <1>7, <1>8, <1>9, <1>10, <1>11, StoresRest

LEMMA MakeUpStep ==
  ASSUME OperationsInv, NEW m \in requests, MakeUp(m)
  PROVE  OperationsInv'
<1> DEFINE made == [Answer(m, "HTTP", "CAPACITY_REJECTED") EXCEPT !.from = "intermediary"]
<1>1. UNCHANGED <<requests, calls, registry, effects, clientVars, opVars>>
  BY DEF MakeUp, serverVars
<1>2. answers' = answers \cup {made} \/ answers' = answers \cup {Answer(m, "FOREIGN", None)}
  BY DEF MakeUp
<1>3. KeyOf(m) \in Keys
  BY DEF OperationsInv, RequestInv, Issued, Message, KeyOf, Keys
<1>4. made.kind = "HTTP" /\ made.from = "intermediary" /\ KeyOf(made) = KeyOf(m)
  BY DEF Answer, KeyOf
<1>5. TrueAnswer(Answer(m, "FOREIGN", None))'
  BY <1>3, PlainAnswer
<1> HIDE DEF made
<1>6. PICK made1 : made1 = made
  OBVIOUS
<1>7. TrueAnswer(made1)'
  BY <1>3, <1>4, <1>6 DEF TrueAnswer, KeyOf, Keys
<1>8. ASSUME NEW a \in answers', a \notin answers PROVE TrueAnswer(a)'
  <2>1. a = made1 \/ a = Answer(m, "FOREIGN", None)
    BY <1>2, <1>6, <1>8
  <2> QED
    BY <1>5, <1>7, <2>1 DEF Answer
<1>9. registry' = [o \in Ops |-> registry'[o]]
  BY <1>1 DEF OperationsInv, ServerInv
<1> QED
  BY <1>1, <1>8, <1>9, CallsLeave

-----------------------------------------------------------------------------
\* The client's generation and tool inventory.
LEMMA ClientStep ==
  ASSUME OperationsInv, UNCHANGED <<requests, answers, serverVars, opVars>>,
         BeginGeneration \/ NoteToolsListChanged \/ RefreshToolInventory
  PROVE  OperationsInv'
<1>1. UNCHANGED <<answers, requests, calls, registry, effects, links, dispatch, repair, evidence, worker, proposals,
                  duplicated>>
  BY DEF BeginGeneration, NoteToolsListChanged, RefreshToolInventory, serverVars, opVars
<1>2. generation' \in 1 .. MaxGenerations
  BY OperationsAssumption
  DEF OperationsInv, ClientInv, BeginGeneration, NoteToolsListChanged, RefreshToolInventory
<1>3. TookKeep /\ DeadKeep /\ QuietKeep
  BY <1>1, ServerStill
<1>4. \A op, n : Took(op, n)' <=> Took(op, n)
  BY <1>1 DEF Took
<1>5. ServerInv'
  <2>1. \A c \in calls : c.pc = "looked" => Took(c.m.op, c.m.n)'
    BY <1>4 DEF OperationsInv, ServerInv
  <2> QED
    BY <1>1, <2>1 DEF OperationsInv, ServerInv
<1>6. RequestInv'
  BY <1>1, <1>4 DEF OperationsInv, RequestInv, Issued, OnlyOne, Bound, Spent, KeyOf
<1> QED
  BY <1>1, <1>2, <1>3, <1>4, <1>5, <1>6, StoresRest

-----------------------------------------------------------------------------
\* A step of the workers and stores: the server does not move and nothing is taken back.  A run
\* may take up only an attempt that was not dispatched before.
Still == UNCHANGED <<calls, registry, effects, generation, duplicated>>
TakesUpNew == \A op \in Ops : \A n : Spent(op, n) => /\ Driven(op, n)' => Driven(op, n)
                                                     /\ Held(op, n)' => Held(op, n)
LinksInv == /\ links \in [Keys -> Link \cup {None}]
            /\ \A k \in Keys : links[k] # None => links[k].n \in DOMAIN dispatch[links[k].op]

LEMMA StillLasts ==
  ASSUME Still, requests' \subseteq requests, RecordsKeep, LinksKeep, TakesUpNew
  PROVE  Lasting /\ QuietKeep
<1>1. TookKeep /\ DeadKeep /\ QuietKeep
  BY ServerStill DEF Still
<1>2. GoneKeep
  BY <1>1, GoneStays DEF TakesUpNew
<1> QED
  BY <1>1, <1>2 DEF Lasting, Still

LEMMA StoresMove ==
  ASSUME OperationsInv, Still, Lasting, answers' \subseteq answers,
         LinksInv', RecordInv', RequestInv', WorkerInv', EvidenceInv', RepairInv', ProposalInv'
  PROVE  OperationsInv'
<1>1. \A op, n : Took(op, n)' <=> Took(op, n)
  BY DEF Still, Took
<1>2. ServerInv'
  <2>1. \A c \in calls : c.pc = "looked" => Took(c.m.op, c.m.n)'
    BY <1>1 DEF OperationsInv, ServerInv
  <2> QED
    BY <2>1 DEF Still, OperationsInv, ServerInv
<1>3. ClientInv'
  BY DEF OperationsInv, ClientInv, LinksInv, Still
<1>4. AnswerInv'
  BY AnswerStays DEF OperationsInv, AnswerInv
<1>5. SpentInv'
  BY <1>1 DEF OperationsInv, SpentInv, Lasting, RecordsKeep, Still
<1> QED
  BY <1>2, <1>3, <1>4, <1>5 DEF OperationsInv

LEMMA LinksRest ==
  ASSUME OperationsInv, UNCHANGED links, \A op \in Ops : DOMAIN dispatch[op] \subseteq DOMAIN dispatch'[op]
  PROVE  LinksInv' /\ LinksKeep
<1>1. LinksInv
  BY DEF OperationsInv, ClientInv, LinksInv
<1>2. \A k \in Keys : links[k] # None => links[k].op \in Ops
  BY <1>1 DEF LinksInv, Link
<1> QED
  BY <1>1, <1>2, LinksStill DEF LinksInv

\* A binding changes its status and what was seen, never its attempt.
LEMMA LinkPut ==
  ASSUME OperationsInv, UNCHANGED dispatch, NEW k \in Keys, NEW link \in Link,
         links' = [links EXCEPT ![k] = link], link.n \in DOMAIN dispatch[link.op],
         links[k] # None => link.op = links[k].op /\ link.n = links[k].n
  PROVE  LinksInv' /\ LinksKeep /\ links'[k] = link /\ link # None
<1>1. LinksInv
  BY DEF OperationsInv, ClientInv, LinksInv
<1>2. link # None
  BY OperationsAssumption
<1>3. links'[k] = link /\ \A j \in Keys : j # k => links'[j] = links[j]
  BY <1>1 DEF LinksInv
<1>4. links' \in [Keys -> Link \cup {None}]
  BY <1>1 DEF LinksInv
<1>5. ASSUME NEW j \in Keys, links'[j] # None PROVE links'[j].n \in DOMAIN dispatch'[links'[j].op]
  BY <1>1, <1>3, <1>5 DEF LinksInv
<1>6. LinksKeep
  BY <1>2, <1>3 DEF LinksKeep
<1> QED
  BY <1>2, <1>3, <1>4, <1>5, <1>6 DEF LinksInv

LEMMA RequestsRest ==
  ASSUME OperationsInv, Still, requests' \subseteq requests, RecordsKeep, LinksKeep
  PROVE  RequestInv'
<1>1. \A op, n : Took(op, n)' <=> Took(op, n)
  BY DEF Still, Took
<1>2. ASSUME NEW q \in requests' PROVE Issued(q)'
  BY IssuedStays DEF OperationsInv, RequestInv
<1>3. ASSUME NEW q \in requests', <<q.op, q.n>> \notin duplicated' PROVE OnlyOne(q)'
  BY <1>1, <1>3 DEF OperationsInv, RequestInv, OnlyOne, Still
<1>4. ASSUME NEW c \in calls' PROVE Issued(c.m)'
  <2>1. PICK q : q = c.m
    OBVIOUS
  <2>2. Issued(q)
    BY <2>1 DEF OperationsInv, RequestInv, Still
  <2>3. Issued(q)'
    BY <2>2, IssuedStays
  <2> QED
    BY <2>1, <2>3
<1> QED
  BY <1>2, <1>3, <1>4 DEF RequestInv

LEMMA RecordsRest ==
  ASSUME OperationsInv, Still, UNCHANGED dispatch,
         repair' \in [Ops -> Seq(Repair)], \A op \in Ops : Len(repair'[op]) = Len(repair[op])
  PROVE  RecordInv'
<1>1. \A op, n : Took(op, n)' <=> Took(op, n)
  BY DEF Still, Took
<1>2. \A op \in Ops : \A n \in 1 .. Len(dispatch[op]) : CompletedIsTrue(op, n)'
  BY <1>1 DEF OperationsInv, RecordInv, CompletedIsTrue
<1>3. \A op \in Ops : \A n \in 1 .. Len(dispatch[op]) - 1 : Spent(op, n)'
  BY DEF OperationsInv, RecordInv, Spent
<1> QED
  BY <1>2, <1>3 DEF OperationsInv, RecordInv

\* One record moves on.
LEMMA RecordPut ==
  ASSUME OperationsInv, Still, UNCHANGED repair, NEW op \in Ops, NEW n \in DOMAIN dispatch[op], NEW r \in Record,
         dispatch' = [dispatch EXCEPT ![op][n] = r], r.state \notin Ready,
         Spent(op, n) => r.id = dispatch[op][n].id /\ r.gen = dispatch[op][n].gen,
         r.state = "COMPLETED" => r.object = n /\ Took(op, n)
  PROVE  /\ RecordInv' /\ RecordsKeep /\ dispatch'[op][n] = r /\ Spent(op, n)'
         /\ \A o \in Ops : Len(dispatch'[o]) = Len(dispatch[o]) /\ DOMAIN dispatch'[o] = DOMAIN dispatch[o]
<1>1. RecordInv
  BY DEF OperationsInv
<1> DEFINE s == [dispatch[op] EXCEPT ![n] = r]
<1>2. dispatch[op] \in Seq(Record)
  BY <1>1 DEF RecordInv
<1>3. s \in Seq(Record) /\ Len(s) = Len(dispatch[op]) /\ DOMAIN s = DOMAIN dispatch[op] /\ s[n] = r
      /\ \A i \in DOMAIN dispatch[op] : i # n => s[i] = dispatch[op][i]
  BY <1>2
<1>4. dispatch' = [dispatch EXCEPT ![op] = s]
  OBVIOUS
<1> HIDE DEF s
<1>5. dispatch'[op] = s /\ \A o \in Ops : o # op => dispatch'[o] = dispatch[o]
  BY <1>1, <1>4 DEF RecordInv
<1>6. dispatch' \in [Ops -> Seq(Record)]
  BY <1>1, <1>3, <1>4 DEF RecordInv
<1>7. \A o \in Ops : Len(dispatch'[o]) = Len(dispatch[o]) /\ DOMAIN dispatch'[o] = DOMAIN dispatch[o]
  BY <1>3, <1>5
<1>8. Spent(op, n)' /\ dispatch'[op][n] = r
  BY <1>3, <1>5 DEF Spent
<1>9. \A o \in Ops : \A i \in DOMAIN dispatch[o] : o # op \/ i # n => dispatch'[o][i] = dispatch[o][i]
  BY <1>3, <1>5
<1>10. RecordsKeep
  BY <1>7, <1>8, <1>9 DEF RecordsKeep, Spent
<1>11. \A o, i : Took(o, i)' <=> Took(o, i)
  BY DEF Still, Took
<1>12. ASSUME NEW o \in Ops, NEW i \in 1 .. Len(dispatch[o]) PROVE CompletedIsTrue(o, i)'
  <2>1. i \in DOMAIN dispatch[o]
    BY <1>1 DEF RecordInv
  <2>2. CASE o = op /\ i = n
    BY <1>8, <1>11, <2>2 DEF CompletedIsTrue
  <2>3. CASE o # op \/ i # n
    BY <1>1, <1>9, <1>11, <2>1, <2>3 DEF CompletedIsTrue, RecordInv
  <2> QED
    BY <2>2, <2>3
<1>13. ASSUME NEW o \in Ops, NEW i \in 1 .. Len(dispatch[o]) - 1 PROVE Spent(o, i)'
  BY <1>1, <1>10 DEF RecordInv, RecordsKeep
<1>14. RecordInv'
  BY <1>1, <1>6, <1>7, <1>12, <1>13 DEF RecordInv
<1> QED
  BY <1>7, <1>8, <1>10, <1>14

\* One run moves on, starts or ends.
LEMMA WorkerMoves ==
  ASSUME OperationsInv, Still, RecordsKeep, LinksKeep, NEW w \in Workers, NEW r,
         worker' = [worker EXCEPT ![w] = r], r # None => RunInv(r)',
         r # None /\ r.pc \in Driving =>
            \A v \in Workers : v # w => ~DrivesAt(v, Driving, r.op, r.n),
         \A op \in Ops : Len(dispatch'[op]) = Len(dispatch[op]) /\ DOMAIN dispatch'[op] = DOMAIN dispatch[op],
         \A v \in Workers, op \in Ops : \A n : v # w /\ DrivesAt(v, Unsent, op, n) => Quiet(op, n)'
  PROVE  WorkerInv'
<1>1. WorkerInv
  BY DEF OperationsInv
<1>2. worker' = [v \in Workers |-> worker'[v]] /\ worker'[w] = r /\ \A v \in Workers : v # w => worker'[v] = worker[v]
  BY <1>1 DEF WorkerInv
<1>3. TookKeep
  BY DEF TookKeep, Took, Still
<1>4. ASSUME NEW v \in Workers, v # w, worker[v] # None, NEW q, q = worker[v] PROVE RunInv(q)'
  <2>1. RunInv(q) /\ q.op \in Ops
    BY <1>1, <1>4 DEF WorkerInv, RunInv
  <2>2. q.pc \in Unsent => Quiet(q.op, q.n)' /\ <<q.op, q.n>> \notin duplicated'
    BY <1>4, <2>1 DEF RunInv, Still, DrivesAt
  <2> QED
    BY <1>3, <2>1, <2>2, RunStays DEF RunInv
<1>5. ASSUME NEW v \in Workers, worker'[v] # None, NEW q, q = worker'[v] PROVE RunInv(q)'
  BY <1>2, <1>4, <1>5
<1>6. \A v \in Workers : worker'[v] # None => RunInv(worker[v])'
  BY <1>5
<1>7. \A u, v \in Workers :
         worker'[u] # None /\ worker'[u].pc \in Driving /\ DrivesAt(v, Driving, worker[u].op, worker[u].n)' => u = v
  BY <1>1, <1>2 DEF WorkerInv, DrivesAt
<1> QED
  BY <1>2, <1>6, <1>7 DEF WorkerInv

\* A run that ends, or moves without claiming, takes nothing up.
LEMMA TakesUpNothing ==
  ASSUME OperationsInv, NEW w \in Workers, NEW r, worker' = [worker EXCEPT ![w] = r],
         r # None /\ r.pc \in Driving => DrivesAt(w, Driving, r.op, r.n) \/ ~Spent(r.op, r.n),
         r # None /\ r.pc \in Unsent => DrivesAt(w, Unsent, r.op, r.n) \/ ~Spent(r.op, r.n)
  PROVE  TakesUpNew
<1>1. worker'[w] = r /\ \A v \in Workers : v # w => worker'[v] = worker[v]
  BY DEF OperationsInv, WorkerInv
<1>2. ASSUME NEW op \in Ops, NEW n, Spent(op, n), Driven(op, n)' PROVE Driven(op, n)
  BY <1>1, <1>2 DEF Driven, DrivesAt
<1>3. ASSUME NEW op \in Ops, NEW n, Spent(op, n), Held(op, n)' PROVE Held(op, n)
  BY <1>1, <1>3 DEF Held, DrivesAt
<1> QED
  BY <1>2, <1>3 DEF TakesUpNew

LEMMA WorkersRest ==
  ASSUME OperationsInv, Still, RecordsKeep, LinksKeep, requests' \subseteq requests, UNCHANGED worker,
         \A op \in Ops : DOMAIN dispatch[op] \subseteq DOMAIN dispatch'[op],
         \A op \in Ops : Len(dispatch'[op]) # Len(dispatch[op]) => ~Driven(op, Len(dispatch[op]))
  PROVE  WorkerInv' /\ TakesUpNew
<1>1. WorkerInv
  BY DEF OperationsInv
<1>2. TookKeep /\ QuietKeep
  BY ServerStill DEF Still
<1>3. ASSUME NEW v \in Workers, worker[v] # None, NEW q, q = worker[v] PROVE RunInv(q)'
  <2>1. RunInv(q) /\ q.op \in Ops
    BY <1>1, <1>3 DEF WorkerInv, RunInv
  <2>2. q.pc \in Unsent => Quiet(q.op, q.n)' /\ <<q.op, q.n>> \notin duplicated'
    BY <1>2, <2>1 DEF RunInv, Still, QuietKeep
  <2>3. q.pc \in Driving => q.n = Len(dispatch[q.op]) /\ Driven(q.op, q.n)
    BY <1>3, <2>1 DEF RunInv, Driven, DrivesAt
  <2>4. q.pc \in Driving => q.n = Len(dispatch'[q.op])
    BY <2>1, <2>3
  <2>5. q.n \in DOMAIN dispatch'[q.op]
    BY <2>1 DEF RunInv
  <2> QED
    BY <1>2, <2>1, <2>2, <2>4, <2>5, RunStays
<1>4. WorkerInv'
  BY <1>1, <1>3 DEF WorkerInv, DrivesAt
<1>5. TakesUpNew
  BY HeldStill DEF TakesUpNew
<1> QED
  BY <1>4, <1>5

-----------------------------------------------------------------------------
\* Evidence stays, or new evidence is about an attempt nobody drives.
LEMMA EvidenceStays ==
  ASSUME OperationsInv, Lasting, TakesUpNew, Still, NEW op \in Ops, NEW e,
         UNCHANGED evidence \/ evidence' = [evidence EXCEPT ![op] = e],
         evidence' # evidence =>
            /\ Spent(op, e.n)' /\ ~Driven(op, e.n)' /\ e.id \in RequestIds \cup {None}
            /\ e.executed = "PROVEN_NOT_EXECUTED" /\ <<op, e.n>> \notin duplicated => Gone(op, e.n)'
  PROVE  EvidenceInv'
<1>1. EvidenceInv
  BY DEF OperationsInv
<1>2. evidence' = [o \in Ops |-> evidence'[o]]
  BY <1>1 DEF EvidenceInv
<1>3. ASSUME NEW o \in Ops, evidence[o] # None, NEW n, n = evidence[o].n
      PROVE  /\ Spent(o, n)' /\ ~Driven(o, n)' /\ evidence[o].id \in RequestIds \cup {None}
             /\ evidence[o].executed = "PROVEN_NOT_EXECUTED" /\ <<o, n>> \notin duplicated => Gone(o, n)'
  BY <1>1, <1>3 DEF EvidenceInv, Lasting, RecordsKeep, GoneKeep, TakesUpNew
<1>4. ASSUME NEW o \in Ops, evidence'[o] # None, NEW n, n = evidence'[o].n
      PROVE  /\ Spent(o, n)' /\ ~Driven(o, n)' /\ evidence'[o].id \in RequestIds \cup {None}
             /\ evidence'[o].executed = "PROVEN_NOT_EXECUTED" /\ <<o, n>> \notin duplicated' => Gone(o, n)'
  <2>1. CASE evidence'[o] = evidence[o]
    BY <1>3, <1>4, <2>1 DEF Still
  <2>2. CASE evidence'[o] # evidence[o]
    <3>1. o = op /\ evidence'[o] = e /\ evidence' # evidence
      BY <1>1, <2>2 DEF EvidenceInv
    <3>2. n = e.n
      BY <1>4, <3>1
    <3> QED
      BY <3>1, <3>2 DEF Still
  <2> QED
    BY <2>1, <2>2
<1> QED
  BY <1>2, <1>4 DEF EvidenceInv

Pending(op) == \E n \in DOMAIN repair[op] : repair[op][n].state = "PENDING_RECONCILIATION"

LEMMA RepairsRest ==
  ASSUME OperationsInv, Lasting, TakesUpNew, UNCHANGED repair,
         \A op \in Ops : evidence'[op] = evidence[op] \/ ~Pending(op)
  PROVE  RepairInv'
<1>1. ASSUME NEW op \in Ops, NEW n \in DOMAIN repair[op], NEW outcome, NEW object,
             outcome = repair[op][n].outcome, object = repair[op][n].object
      PROVE  Verdict(op, n, outcome, object)'
  BY <1>1, VerdictStays DEF OperationsInv, RepairInv
<1>2. ASSUME NEW op \in Ops, NEW n \in DOMAIN repair[op], repair[op][n].state = "PENDING_RECONCILIATION"
      PROVE  /\ n = Len(repair[op]) /\ Spent(op, n)' /\ ~Driven(op, n)' /\ Undecided(op, n)'
  BY <1>2 DEF OperationsInv, RepairInv, Pending, Lasting, RecordsKeep, TakesUpNew, Undecided
<1> QED
  BY <1>1, <1>2 DEF RepairInv

LEMMA ProposalsRest ==
  ASSUME OperationsInv, Lasting, proposals' \subseteq proposals,
         \A op \in Ops : DOMAIN repair[op] \subseteq DOMAIN repair'[op]
  PROVE  ProposalInv'
<1>1. ASSUME NEW p \in proposals, NEW op, NEW n, NEW outcome, NEW object,
             op = p.op, n = p.n, outcome = p.outcome, object = p.object
      PROVE  Verdict(op, n, outcome, object)'
  BY <1>1, VerdictStays DEF OperationsInv, ProposalInv
<1> QED
  BY <1>1 DEF OperationsInv, ProposalInv

\* A run that drives an attempt drives the newest one, which is then not being repaired.
LEMMA DrivenIsNewest ==
  ASSUME OperationsInv, NEW w \in Workers, worker[w] # None, worker[w].pc \in Driving
  PROVE  /\ worker[w].op \in Ops /\ worker[w].n = Len(dispatch[worker[w].op])
         /\ Driven(worker[w].op, worker[w].n) /\ ~Pending(worker[w].op)
<1>1. RunInv(worker[w])
  BY DEF OperationsInv, WorkerInv
<1>2. Driven(worker[w].op, worker[w].n)
  BY DEF Driven, DrivesAt
<1>3. worker[w].op \in Ops /\ worker[w].n = Len(dispatch[worker[w].op])
  BY <1>1 DEF RunInv
<1>4. Len(repair[worker[w].op]) = Len(dispatch[worker[w].op])
  BY <1>3 DEF OperationsInv, RecordInv
<1> QED
  BY <1>2, <1>3, <1>4 DEF OperationsInv, RepairInv, Pending

\* A run that ends leaves its attempt undriven.
LEMMA RunEnds ==
  ASSUME OperationsInv, NEW w \in Workers, NEW op, NEW n, DrivesAt(w, Driving, op, n),
         worker' = [worker EXCEPT ![w] = None]
  PROVE  ~Driven(op, n)'
<1>1. worker'[w] = None /\ \A v \in Workers : v # w => worker'[v] = worker[v]
  BY DEF OperationsInv, WorkerInv
<1> QED
  BY <1>1 DEF OperationsInv, WorkerInv, Driven, DrivesAt

-----------------------------------------------------------------------------
\* A step of one run that sends nothing.
LEMMA RunStep ==
  ASSUME OperationsInv, Still, UNCHANGED <<repair, proposals>>, requests' \subseteq requests, answers' \subseteq answers,
         RecordInv', RecordsKeep, LinksInv', LinksKeep,
         \A o \in Ops : Len(dispatch'[o]) = Len(dispatch[o]) /\ DOMAIN dispatch'[o] = DOMAIN dispatch[o],
         NEW w \in Workers, NEW r, worker' = [worker EXCEPT ![w] = r], r # None => RunInv(r)',
         r # None /\ r.pc \in Driving => DrivesAt(w, Driving, r.op, r.n) \/ ~Spent(r.op, r.n),
         r # None /\ r.pc \in Unsent => DrivesAt(w, Unsent, r.op, r.n) \/ ~Spent(r.op, r.n),
         NEW op \in Ops, NEW e,
         UNCHANGED evidence \/ (evidence' = [evidence EXCEPT ![op] = e] /\ ~Pending(op)),
         evidence' # evidence =>
            /\ Spent(op, e.n)' /\ ~Driven(op, e.n)' /\ e.id \in RequestIds \cup {None}
            /\ e.executed = "PROVEN_NOT_EXECUTED" /\ <<op, e.n>> \notin duplicated => Gone(op, e.n)'
  PROVE  OperationsInv'
<1>1. TakesUpNew
  BY TakesUpNothing
<1>2. Lasting /\ QuietKeep
  BY <1>1, StillLasts
<1>3. RequestInv'
  BY RequestsRest
<1>4. ASSUME NEW v \in Workers, NEW o \in Ops, NEW n, v # w, DrivesAt(v, Unsent, o, n) PROVE Quiet(o, n)'
  <2>1. Held(o, n)
    BY <1>4 DEF Held
  <2> QED
    BY <1>2, <2>1, HeldIsQuiet DEF OperationsInv, QuietKeep
<1>5. ASSUME r # None, r.pc \in Driving, NEW v \in Workers, DrivesAt(v, Driving, r.op, r.n) PROVE v = w
  <2>1. RunInv(worker[v]) /\ worker[v].pc \in Driving /\ worker[v].op = r.op /\ worker[v].n = r.n
    BY <1>5 DEF OperationsInv, WorkerInv, DrivesAt
  <2>2. Spent(r.op, r.n)
    BY <2>1 DEF RunInv
  <2>3. DrivesAt(w, Driving, r.op, r.n)
    BY <1>5, <2>2
  <2> QED
    BY <1>5, <2>3 DEF OperationsInv, WorkerInv, DrivesAt
<1>6. WorkerInv'
  BY <1>4, <1>5, WorkerMoves
<1>7. EvidenceInv'
  BY <1>1, <1>2, EvidenceStays
<1>8. \A o \in Ops : evidence'[o] = evidence[o] \/ ~Pending(o)
  BY DEF OperationsInv, EvidenceInv
<1>9. RepairInv'
  BY <1>1, <1>2, <1>8, RepairsRest
<1>10. ProposalInv'
  BY <1>2, ProposalsRest
<1> QED
  BY <1>2, <1>3, <1>6, <1>7, <1>9, <1>10, StoresMove

\* Such a step that leaves the records and the evidence alone.
LEMMA QuietRunStep ==
  ASSUME OperationsInv, Still, UNCHANGED <<dispatch, repair, evidence, proposals>>,
         requests' \subseteq requests, answers' \subseteq answers, LinksInv', LinksKeep,
         NEW w \in Workers, NEW r, worker' = [worker EXCEPT ![w] = r], r # None => RunInv(r)',
         r # None /\ r.pc \in Driving => DrivesAt(w, Driving, r.op, r.n),
         r # None /\ r.pc \in Unsent => DrivesAt(w, Unsent, r.op, r.n),
         NEW op \in Ops
  PROVE  OperationsInv'
<1>1. RecordInv' /\ RecordsKeep
  <2>1. repair' \in [Ops -> Seq(Repair)]
    BY DEF OperationsInv, RecordInv
  <2> QED
    BY <2>1, RecordsRest, RecordsStill
<1> QED
  BY <1>1, RunStep

LEMMA GateStep ==
  ASSUME OperationsInv, NEW w \in Workers, NEW op \in Ops, Gate(w, op) \/ GateRetry(w, op)
  PROVE  OperationsInv'
<1>1. /\ Still /\ UNCHANGED <<requests, answers, links, dispatch, repair, evidence, proposals>>
      /\ dispatch[op][Len(dispatch[op])].state \in Ready
      /\ \E id \in RequestIds, fenced \in BOOLEAN : worker' = [worker EXCEPT ![w] = Run(op, id, fenced)]
  BY DEF Gate, GateRetry, Last, Ready, Still, serverVars, clientVars, storeVars
<1>2. PICK id \in RequestIds, fenced \in BOOLEAN : worker' = [worker EXCEPT ![w] = Run(op, id, fenced)]
  BY <1>1
<1>3. PICK r : r = Run(op, id, fenced)
  OBVIOUS
<1>4. /\ {"pc", "op", "n", "id", "gen", "record", "fenced", "permit", "object"} \subseteq DOMAIN r
      /\ r.pc = "gated" /\ r.op = op /\ r.n = Len(dispatch[op]) /\ r.id = id /\ r.gen = generation
      /\ r.record = dispatch[op][Len(dispatch[op])]
  BY <1>3 DEF Run
<1>5. Len(dispatch[op]) \in DOMAIN dispatch[op] /\ generation \in 1 .. MaxGenerations
  BY DEF OperationsInv, RecordInv, ClientInv
<1>6. RunInv(r)'
  BY <1>1, <1>4, <1>5 DEF RunInv, Driving, Unsent
<1>7. LinksInv' /\ LinksKeep
  BY <1>1, LinksRest
<1>8. r.pc \notin Driving /\ r.pc \notin Unsent
  BY <1>4 DEF Driving, Unsent
<1>9. worker' = [worker EXCEPT ![w] = r]
  BY <1>2, <1>3
<1> QED
  BY <1>1, <1>6, <1>7, <1>8, <1>9, QuietRunStep

LEMMA StopStep ==
  ASSUME OperationsInv, NEW w \in Workers, Stop(w)
  PROVE  OperationsInv'
<1>1. /\ Still /\ UNCHANGED <<requests, answers, links, dispatch, repair, evidence, proposals>>
      /\ worker' = [worker EXCEPT ![w] = None] /\ worker[w] # None
  BY DEF Stop, Rest, Still, serverVars, clientVars, storeVars
<1>2. worker[w].op \in Ops
  BY <1>1 DEF OperationsInv, WorkerInv, RunInv
<1>3. LinksInv' /\ LinksKeep
  BY <1>1, LinksRest
<1> QED
  BY <1>1, <1>2, <1>3, QuietRunStep

-----------------------------------------------------------------------------
\* A claim wants the record it has read, which was ready; so nobody drives the attempt, and it
\* is the newest one.
LEMMA ClaimedIsReady ==
  ASSUME NEW run, NEW current, ClaimOutcome(run, current) = "CLAIMED"
  PROVE  current.state = run.record.state
<1> DEFINE c1 == current.state # run.record.state
           c2 == current.version # run.record.version
           c3 == run.fenced /\ current.fence # run.record.fence
           c4 == run.n # current.attempt + 1
           rules == << <<c1, "STATE_CONFLICT">>, <<c2, "VERSION_CONFLICT">>, <<c3, "FENCE_CONFLICT">>,
                       <<c4, "ATTEMPT_SEQUENCE_CONFLICT">>, <<TRUE, "CLAIMED">> >>
<1>1. FirstMatch(rules) = "CLAIMED"
  BY DEF ClaimOutcome
<1>2. c1 \in BOOLEAN
  OBVIOUS
<1> HIDE DEF c1, c2, c3, c4
<1>3. DOMAIN rules = 1 .. 5
  OBVIOUS
<1>4. /\ rules[1] = <<c1, "STATE_CONFLICT">> /\ rules[2] = <<c2, "VERSION_CONFLICT">>
      /\ rules[3] = <<c3, "FENCE_CONFLICT">> /\ rules[4] = <<c4, "ATTEMPT_SEQUENCE_CONFLICT">>
      /\ rules[5] = <<TRUE, "CLAIMED">>
  OBVIOUS
<1> HIDE DEF rules
<1>5. rules[5][1] /\ FirstMatch(rules) = rules[5][2] /\ 5 \in Nat /\ 5 > 0 /\ 5 - 1 = 4
  BY <1>1, <1>4
<1>6. \A k \in 1 .. 4 : rules[k][2] # rules[5][2]
  BY <1>4
<1>7. \A k \in 1 .. 4 : ~rules[k][1]
  BY <1>3, <1>5, <1>6, LastRuleApplies
<1>8. ~c1
  BY <1>2, <1>4, <1>7
<1> QED
  BY <1>8 DEF c1

LEMMA ClaimDispatchStep ==
  ASSUME OperationsInv, NEW w \in Workers, ClaimDispatch(w)
  PROVE  OperationsInv'
<1>1. Still /\ UNCHANGED <<requests, answers, links, repair, evidence, proposals>>
  BY DEF ClaimDispatch, Still, serverVars, clientVars
<1>2. PICK run, op, n : run = worker[w] /\ op = run.op /\ n = run.n
  OBVIOUS
<1>3. worker[w] # None /\ run.pc = "gated" /\ RunInv(run) /\ op \in Ops /\ n \in DOMAIN dispatch[op]
  BY <1>2 DEF ClaimDispatch, OperationsInv, WorkerInv, RunInv
<1>4. run.record.state \in Ready
  BY <1>3 DEF RunInv
<1>5. PICK current : current = dispatch[op][n]
  OBVIOUS
<1>6. current \in Record
  BY <1>3, <1>5 DEF OperationsInv, RecordInv
<1>7. CASE /\ ClaimOutcome(run, current) = "CLAIMED" /\ dispatch' = [dispatch EXCEPT ![op][n] = Started(run, current)]
           /\ worker' = [worker EXCEPT ![w].pc = "claimed", ![w].record = Started(run, current)]
  <2>1. current.state \in Ready
    BY <1>4, <1>7, ClaimedIsReady
  <2>2. PICK rec : rec = Started(run, current)
    OBVIOUS
  <2>3. /\ rec \in Record /\ rec.state = "DISPATCH_STARTED" /\ rec.id = run.id /\ rec.gen = run.gen
    <3>1. run.id \in RequestIds /\ run.gen \in 1 .. MaxGenerations /\ n \in Nat
      BY <1>3 DEF RunInv, OperationsInv, RecordInv
    <3> DEFINE fence == IF run.fenced THEN current.fence + 1 ELSE current.fence
    <3>2. fence \in Nat /\ current.version + 1 \in Nat
      BY <1>6 DEF Record
    <3>3. rec = [current EXCEPT !.state = "DISPATCH_STARTED", !.version = current.version + 1, !.attempt = n,
                                !.id = run.id, !.fence = fence, !.gen = run.gen]
      BY <1>2, <1>6, <2>2 DEF Started, Record
    <3> HIDE DEF fence
    <3> QED
      BY <1>6, <3>1, <3>2, <3>3 DEF Record
  <2>4. ~Spent(op, n)
    BY <1>5, <2>1 DEF Spent
  <2>5. n = Len(dispatch[op])
    <3>1. dispatch[op] \in Seq(Record) /\ \A i \in 1 .. Len(dispatch[op]) - 1 : Spent(op, i)
      BY <1>3 DEF OperationsInv, RecordInv
    <3>2. n \in 1 .. Len(dispatch[op]) /\ Len(dispatch[op]) \in Nat
      BY <1>3, <3>1
    <3> QED
      BY <2>4, <3>1, <3>2
  <2>6. /\ RecordInv' /\ RecordsKeep /\ dispatch'[op][n] = rec /\ Spent(op, n)'
        /\ \A o \in Ops : Len(dispatch'[o]) = Len(dispatch[o]) /\ DOMAIN dispatch'[o] = DOMAIN dispatch[o]
    <3>1. rec.state \notin Ready /\ rec.state # "COMPLETED"
      BY <2>3 DEF Ready
    <3>2. dispatch' = [dispatch EXCEPT ![op][n] = rec]
      BY <1>7, <2>2
    <3> QED
      BY <1>1, <1>3, <2>3, <2>4, <3>1, <3>2, RecordPut
  <2>7. PICK r : r = [run EXCEPT !.pc = "claimed", !.record = rec]
    OBVIOUS
  <2>8. worker' = [worker EXCEPT ![w] = r]
    BY <1>2, <1>7, <2>2, <2>7
  <2>9. /\ {"pc", "op", "n", "id", "gen", "record", "fenced", "permit", "object"} \subseteq DOMAIN r
        /\ r.pc = "claimed" /\ r.op = op /\ r.n = n /\ r.id = run.id /\ r.gen = run.gen
    BY <1>2, <1>3, <2>7 DEF RunInv
  <2>10. Quiet(op, n) /\ <<op, n>> \notin duplicated
    <3>1. ~Took(op, n) /\ <<op, n>> \notin duplicated
      BY <1>3, <2>4 DEF OperationsInv, SpentInv
    <3>2. ~OnItsWay(op, n)
      BY <2>4 DEF OperationsInv, RequestInv, OnItsWay, Issued
    <3> QED
      BY <3>1, <3>2 DEF Quiet
  <2>11. Quiet(op, n)' /\ <<op, n>> \notin duplicated'
    BY <1>1, <2>10 DEF Quiet, Took, OnItsWay, Still
  <2>12. RunInv(r)'
    BY <1>3, <2>3, <2>5, <2>6, <2>9, <2>11 DEF RunInv, Driving, Unsent
  <2>13. LinksInv' /\ LinksKeep
    BY <1>1, <2>6, LinksRest
  <2> QED
    BY <1>1, <1>3, <2>4, <2>6, <2>8, <2>9, <2>12, <2>13, RunStep
<1>8. CASE worker' = [worker EXCEPT ![w] = None] /\ UNCHANGED dispatch
  <2>1. LinksInv' /\ LinksKeep
    BY <1>1, <1>8, LinksRest
  <2> QED
    BY <1>1, <1>3, <1>8, <2>1, QuietRunStep
<1> QED
  BY <1>2, <1>5, <1>7, <1>8 DEF ClaimDispatch, Rest

-----------------------------------------------------------------------------
\* What a run changes of the binding it holds: its status, or the mark that an answer was seen.
LEMMA HoldsLink ==
  ASSUME OperationsInv, NEW w \in Workers, worker[w] # None, worker[w].pc \in {"bound", "sent"}, NEW run, run = worker[w]
  PROVE  /\ run.op \in Ops /\ run.n \in DOMAIN dispatch[run.op] /\ KeyOf(run) \in Keys
         /\ links[KeyOf(run)] \in Link /\ links[KeyOf(run)].op = run.op /\ links[KeyOf(run)].n = run.n
<1>1. RunInv(run)
  BY DEF OperationsInv, WorkerInv
<1>2. run.op \in Ops /\ run.n \in DOMAIN dispatch[run.op] /\ KeyOf(run) \in Keys
  BY <1>1 DEF RunInv, KeyOf, Keys
<1>3. Bound(KeyOf(run), run.op, run.n)
  BY <1>1 DEF RunInv
<1> QED
  BY <1>2, <1>3 DEF Bound, OperationsInv, ClientInv

LEMMA StatusPut ==
  ASSUME OperationsInv, UNCHANGED dispatch, NEW k \in Keys, links[k] \in Link, NEW link,
         link \in {Abort(links[k]), OutcomeUnknown(links[k]), Popped(links[k])},
         links' = [links EXCEPT ![k] = link]
  PROVE  LinksInv' /\ LinksKeep
<1>1. PICK old \in Link : old = links[k]
  OBVIOUS
<1>2. link \in Link /\ link.op = old.op /\ link.n = old.n
  <2>1. CASE link = Abort(old)
    BY <2>1 DEF Abort, Link
  <2>2. CASE link = OutcomeUnknown(old)
    BY <2>2 DEF OutcomeUnknown, Link
  <2>3. CASE link = Popped(old)
    BY <2>3 DEF Popped, Link
  <2> QED
    BY <1>1, <2>1, <2>2, <2>3
<1>3. old # None /\ old.n \in DOMAIN dispatch[old.op]
  BY <1>1, OperationsAssumption DEF OperationsInv, ClientInv
<1> QED
  BY <1>1, <1>2, <1>3, LinkPut

\* A key that is free is bound to the attempt.
LEMMA BindAttemptStep ==
  ASSUME OperationsInv, NEW w \in Workers, BindAttempt(w)
  PROVE  OperationsInv'
<1>1. Still /\ UNCHANGED <<requests, answers, dispatch, repair, evidence, proposals>>
  BY DEF BindAttempt, Still, serverVars, storeVars
<1>2. PICK run : run = worker[w]
  OBVIOUS
<1>3. /\ worker[w] # None /\ run.pc = "claimed" /\ RunInv(run) /\ run.op \in Ops /\ run.n \in DOMAIN dispatch[run.op]
      /\ KeyOf(run) \in Keys
  BY <1>2 DEF BindAttempt, OperationsInv, WorkerInv, RunInv, KeyOf, Keys
<1>4. CASE /\ MayBind(KeyOf(run)) /\ links' = [links EXCEPT ![KeyOf(run)] = Binding(run.op, run.n)]
           /\ worker' = [worker EXCEPT ![w].pc = "bound", ![w].permit = inventory.gen]
  <2>1. PICK link : link = Binding(run.op, run.n)
    OBVIOUS
  <2>2. run.n \in Nat \ {0}
    BY <1>3 DEF OperationsInv, RecordInv
  <2>3. link \in Link /\ link.op = run.op /\ link.n = run.n
    BY <1>3, <2>1, <2>2 DEF Binding, Link
  <2>4. links[KeyOf(run)] = None
    BY <1>4 DEF MayBind
  <2>5. LinksInv' /\ LinksKeep /\ links'[KeyOf(run)] = link /\ link # None
    BY <1>1, <1>3, <1>4, <2>1, <2>3, <2>4, LinkPut
  <2>6. PICK r : r = [run EXCEPT !.pc = "bound", !.permit = inventory.gen]
    OBVIOUS
  <2>7. worker' = [worker EXCEPT ![w] = r]
    BY <1>2, <1>4, <2>6
  <2>8. /\ {"pc", "op", "n", "id", "gen", "record", "fenced", "permit", "object"} \subseteq DOMAIN r
        /\ r.pc = "bound" /\ r.op = run.op /\ r.n = run.n /\ r.id = run.id /\ r.gen = run.gen
    BY <1>3, <2>6 DEF RunInv
  <2>9. Bound(KeyOf(r), r.op, r.n)'
    BY <2>3, <2>5, <2>8 DEF Bound, KeyOf
  <2>10. Quiet(r.op, r.n)' /\ <<r.op, r.n>> \notin duplicated'
    <3>1. Quiet(r.op, r.n) /\ <<r.op, r.n>> \notin duplicated
      BY <1>3, <2>8 DEF RunInv, Unsent
    <3> QED
      BY <1>1, <3>1 DEF Quiet, Took, OnItsWay, Still
  <2>11. Spent(r.op, r.n)'
    BY <1>1, <1>3, <2>8 DEF RunInv, Spent, Driving
  <2>12. RunInv(r)'
    BY <1>1, <1>3, <2>8, <2>9, <2>10, <2>11 DEF RunInv, Driving, Unsent
  <2>13. DrivesAt(w, Driving, r.op, r.n) /\ DrivesAt(w, Unsent, r.op, r.n)
    BY <1>2, <1>3, <2>8 DEF DrivesAt, Driving, Unsent
  <2> QED
    BY <1>1, <1>3, <2>5, <2>7, <2>12, <2>13, QuietRunStep
<1>5. CASE worker' = [worker EXCEPT ![w] = None] /\ UNCHANGED links
  <2>1. LinksInv' /\ LinksKeep
    BY <1>1, <1>5, LinksRest
  <2> QED
    BY <1>1, <1>3, <1>5, <2>1, QuietRunStep
<1> QED
  BY <1>2, <1>4, <1>5 DEF BindAttempt, Rest

LEMMA StalePermitStep ==
  ASSUME OperationsInv, NEW w \in Workers, Exchange(w), StalePermit(w)
  PROVE  OperationsInv'
<1>1. /\ Still /\ UNCHANGED <<requests, answers, dispatch, repair, evidence, proposals>>
      /\ worker[w] # None /\ worker[w].pc = "bound" /\ worker' = [worker EXCEPT ![w] = None]
  BY DEF Exchange, StalePermit, Still, serverVars, Rest
<1>2. PICK run, k : run = worker[w] /\ k = KeyOf(run)
  OBVIOUS
<1>3. run.op \in Ops /\ k \in Keys /\ links[k] \in Link
  BY <1>1, <1>2, HoldsLink
<1>4. links' = [links EXCEPT ![k] = Abort(links[k])]
  BY <1>2 DEF StalePermit
<1>5. LinksInv' /\ LinksKeep
  BY <1>1, <1>3, <1>4, StatusPut
<1> QED
  BY <1>1, <1>3, <1>5, QuietRunStep

\* The request leaves: its attempt was quiet and unsent until now, so it is the only one.
LEMMA SendRequestStep ==
  ASSUME OperationsInv, NEW w \in Workers, Exchange(w), SendRequest(w)
  PROVE  OperationsInv'
<1>1. /\ Still /\ UNCHANGED <<answers, links, dispatch, repair, evidence, proposals>>
      /\ worker[w] # None /\ worker[w].pc = "bound"
  BY DEF Exchange, SendRequest, Still, serverVars
<1>2. PICK run, m, op, n : run = worker[w] /\ m = Request(run) /\ op = run.op /\ n = run.n
  OBVIOUS
<1>3. RunInv(run) /\ run.pc = "bound" /\ op \in Ops /\ n \in DOMAIN dispatch[op] /\ n \in Nat \ {0}
  BY <1>1, <1>2 DEF OperationsInv, WorkerInv, RunInv, RecordInv
<1>4. /\ m \in Message /\ m.op = op /\ m.n = n /\ m.gen = run.gen /\ m.id = run.id /\ m.copy = FALSE
      /\ KeyOf(m) = KeyOf(run)
  BY <1>2, <1>3 DEF RunInv, Request, Message, Attempt, KeyOf
<1>5. requests' = requests \cup {m}
  BY <1>2 DEF SendRequest
<1>6. Quiet(op, n) /\ <<op, n>> \notin duplicated /\ Spent(op, n) /\ Bound(KeyOf(run), op, n)
  BY <1>2, <1>3 DEF RunInv, Unsent, Driving
<1>7. Issued(m)
  BY <1>2, <1>3, <1>4, <1>6 DEF Issued, RunInv, Driving
<1>8. PICK r : r = [run EXCEPT !.pc = "sent"]
  OBVIOUS
<1>9. worker' = [worker EXCEPT ![w] = r]
  BY <1>2, <1>8 DEF SendRequest, Go
<1>10. /\ {"pc", "op", "n", "id", "gen", "record", "fenced", "permit", "object"} \subseteq DOMAIN r
       /\ r.pc = "sent" /\ r.op = op /\ r.n = n /\ r.id = run.id /\ r.gen = run.gen
  BY <1>2, <1>3, <1>8 DEF RunInv
<1>11. RecordsKeep /\ LinksKeep /\ LinksInv'
  BY <1>1, RecordsStill, LinksRest
<1>12. DrivesAt(w, Driving, op, n) /\ DrivesAt(w, Unsent, op, n)
  BY <1>1, <1>2 DEF DrivesAt, Driving, Unsent
<1>13. r.pc \notin Unsent
  BY <1>10 DEF Unsent
<1>14. TakesUpNew
  BY <1>9, <1>10, <1>12, <1>13, TakesUpNothing
<1>15. \A o, i : Took(o, i)' <=> Took(o, i)
  BY <1>1 DEF Still, Took
<1>16. ASSUME NEW o, NEW i, OnItsWay(o, i)' PROVE OnItsWay(o, i) \/ (o = op /\ i = n)
  BY <1>1, <1>4, <1>5, <1>16 DEF OnItsWay, Still
<1>17. Lasting
  <2>1. TookKeep /\ DeadKeep
    BY <1>1, <1>15 DEF TookKeep, DeadKeep, Dead, Still
  <2>2. Held(op, n)
    BY <1>12 DEF Held
  <2>3. GoneKeep
    BY <1>11, <1>14, <1>15, <1>16, <2>2 DEF GoneKeep, Gone, Quiet, RecordsKeep, TakesUpNew
  <2> QED
    BY <1>1, <1>11, <2>1, <2>3 DEF Lasting, Still
<1>18. RequestInv'
  <2>1. ASSUME NEW q \in requests' PROVE Issued(q)'
    BY <1>5, <1>7, <1>11, IssuedStays DEF OperationsInv, RequestInv
  <2>2. ASSUME NEW q \in requests', <<q.op, q.n>> \notin duplicated' PROVE OnlyOne(q)'
    <3>1. CASE q = m
      BY <1>1, <1>4, <1>6, <1>15, <3>1 DEF OnlyOne, Quiet, OnItsWay, Still
    <3>2. CASE q # m
      BY <1>1, <1>5, <1>15, <2>2, <3>2 DEF OperationsInv, RequestInv, OnlyOne, Still
    <3> QED
      BY <3>1, <3>2
  <2>3. ASSUME NEW c \in calls' PROVE Issued(c.m)'
    <3>1. PICK q : q = c.m
      OBVIOUS
    <3>2. Issued(q)
      BY <1>1, <3>1 DEF OperationsInv, RequestInv, Still
    <3>3. Issued(q)'
      BY <1>11, <3>2, IssuedStays
    <3> QED
      BY <3>1, <3>3
  <2> QED
    BY <2>1, <2>2, <2>3 DEF RequestInv
<1>19. RunInv(r)'
  <2>1. Spent(r.op, r.n)' /\ Bound(KeyOf(r), r.op, r.n)'
    BY <1>1, <1>6, <1>10 DEF Spent, Bound, KeyOf
  <2> QED
    BY <1>1, <1>2, <1>3, <1>10, <2>1 DEF RunInv, Driving, Unsent
<1>20. ASSUME NEW v \in Workers, v # w, NEW o, NEW i, DrivesAt(v, Driving, o, i) PROVE ~(o = op /\ i = n)
  BY <1>1, <1>2, <1>12, <1>20 DEF OperationsInv, WorkerInv, DrivesAt
<1>21. ASSUME NEW v \in Workers, NEW o \in Ops, NEW i, v # w, DrivesAt(v, Unsent, o, i) PROVE Quiet(o, i)'
  <2>1. Held(o, i) /\ DrivesAt(v, Driving, o, i)
    BY <1>21 DEF Held, DrivesAt, Unsent, Driving
  <2>2. Quiet(o, i)
    BY <2>1, HeldIsQuiet DEF OperationsInv
  <2> QED
    BY <1>15, <1>16, <1>20, <1>21, <2>1, <2>2 DEF Quiet
<1>22. WorkerInv'
  BY <1>1, <1>9, <1>10, <1>11, <1>19, <1>20, <1>21, WorkerMoves
<1>23. RecordInv'
  BY <1>1, RecordsRest DEF OperationsInv, RecordInv
<1>24. EvidenceInv' /\ RepairInv' /\ ProposalInv'
  BY <1>1, <1>3, <1>14, <1>17, EvidenceStays, RepairsRest, ProposalsRest
<1> QED
  BY <1>1, <1>11, <1>17, <1>18, <1>22, <1>23, <1>24, StoresMove

-----------------------------------------------------------------------------
LEMMA EvidenceFields ==
  ASSUME NEW n, NEW id, NEW kind, NEW sent, NEW executed
  PROVE  LET e == Evidence(n, id, kind, sent, executed) IN e.n = n /\ e.id = id /\ e.executed = executed
BY DEF Evidence

\* A run that breaks off tells what it knows: an unsent attempt is gone for good.
LEMMA TellsOnBreakOff ==
  ASSUME OperationsInv, NEW w \in Workers, Still, UNCHANGED <<requests, answers, dispatch, repair, proposals>>,
         worker[w] # None, worker[w].pc \in {"bound", "sent"}, worker' = [worker EXCEPT ![w] = None],
         NEW run, NEW k, run = worker[w], k = KeyOf(run),
         NEW link \in {Abort(links[k]), OutcomeUnknown(links[k]), Popped(links[k])},
         links' = [links EXCEPT ![k] = link],
         NEW kind, NEW sent, NEW executed, Learn(run.op, Evidence(run.n, run.id, kind, sent, executed)),
         executed # "PROVEN_NOT_EXECUTED" \/ run.pc = "bound"
  PROVE  OperationsInv'
<1>1. PICK op, n : op = run.op /\ n = run.n
  OBVIOUS
<1>2. RunInv(run) /\ op \in Ops /\ n \in DOMAIN dispatch[op] /\ k \in Keys /\ links[k] \in Link /\ run.id \in RequestIds
  BY <1>1, HoldsLink DEF OperationsInv, WorkerInv, RunInv
<1>3. PICK e : e = Evidence(n, run.id, kind, sent, executed)
  OBVIOUS
<1>4. e.n = n /\ e.id = run.id /\ e.executed = executed
  BY <1>3, EvidenceFields
<1>5. evidence' = [evidence EXCEPT ![op] = e]
  BY <1>1, <1>3 DEF Learn
<1>6. LinksInv' /\ LinksKeep
  BY <1>2, StatusPut
<1>7. RecordInv' /\ RecordsKeep
  BY RecordsRest, RecordsStill DEF OperationsInv, RecordInv
<1>8. run.pc \in Driving /\ DrivesAt(w, Driving, op, n)
  BY <1>1 DEF Driving, DrivesAt
<1>9. ~Driven(op, n)' /\ ~Pending(op)
  BY <1>1, <1>8, RunEnds, DrivenIsNewest
<1>10. Spent(op, n)'
  BY <1>1, <1>2, <1>8 DEF RunInv, Spent
<1>11. executed = "PROVEN_NOT_EXECUTED" => Gone(op, n)'
  <2>1. ~Held(op, n)'
    BY <1>9 DEF Held, Driven, DrivesAt, Unsent, Driving
  <2>2. run.pc = "bound" => Quiet(op, n)
    BY <1>1, <1>2 DEF RunInv, Unsent
  <2> QED
    BY <1>10, <2>1, <2>2 DEF Gone, Quiet, Took, OnItsWay, Still
<1> QED
  BY <1>2, <1>4, <1>5, <1>6, <1>7, <1>9, <1>10, <1>11, RunStep

LEMMA BreakOffStep ==
  ASSUME OperationsInv, NEW w \in Workers, BreakOff(w)
  PROVE  OperationsInv'
<1>1. /\ Still /\ UNCHANGED <<requests, answers, dispatch, repair, proposals>>
      /\ worker[w] # None /\ worker[w].pc \in {"bound", "sent"} /\ worker' = [worker EXCEPT ![w] = None]
  BY DEF BreakOff, FailToSend, TimeOut, Cancel, Still, serverVars, Rest
<1>2. PICK run, k : run = worker[w] /\ k = KeyOf(run)
  OBVIOUS
<1>3. "POSSIBLY_EXECUTED" # "PROVEN_NOT_EXECUTED"
  OBVIOUS
<1>4. CASE FailToSend(w)
  <2>1. /\ links' = [links EXCEPT ![k] = Popped(links[k])] /\ run.pc = "bound"
        /\ Learn(run.op, Evidence(run.n, run.id, "SEND_FAILURE", "PROVEN_NOT_SENT", "PROVEN_NOT_EXECUTED"))
    BY <1>2, <1>4 DEF FailToSend
  <2> QED
    BY <1>1, <1>2, <2>1, TellsOnBreakOff
<1>5. CASE TimeOut(w)
  <2>1. /\ links' = [links EXCEPT ![k] = OutcomeUnknown(links[k])]
        /\ Learn(run.op, Evidence(run.n, run.id, "READ_TIMEOUT", "POSSIBLY_SENT", "POSSIBLY_EXECUTED"))
    BY <1>2, <1>5 DEF TimeOut
  <2> QED
    BY <1>1, <1>2, <1>3, <2>1, TellsOnBreakOff
<1>6. CASE Cancel(w) /\ run.pc = "sent"
  <2>1. /\ links' = [links EXCEPT ![k] = OutcomeUnknown(links[k])]
        /\ Learn(run.op, Evidence(run.n, run.id, "CALLER_CANCELLED", "POSSIBLY_SENT", "POSSIBLY_EXECUTED"))
    BY <1>2, <1>6 DEF Cancel, Cancellation
  <2> QED
    BY <1>1, <1>2, <1>3, <2>1, TellsOnBreakOff
<1>7. CASE Cancel(w) /\ run.pc # "sent"
  <2>1. /\ links' = [links EXCEPT ![k] = Abort(links[k])] /\ run.pc = "bound"
        /\ Learn(run.op, Evidence(run.n, run.id, "CALLER_CANCELLED", "PROVEN_NOT_SENT", "PROVEN_NOT_EXECUTED"))
    BY <1>1, <1>2, <1>7 DEF Cancel, Cancellation
  <2> QED
    BY <1>1, <1>2, <2>1, TellsOnBreakOff
<1> QED
  BY <1>4, <1>5, <1>6, <1>7 DEF BreakOff

-----------------------------------------------------------------------------
\* Both registries after an answer: the binding keeps its attempt.
LEMMA AnsweredLink ==
  ASSUME OperationsInv, UNCHANGED dispatch, NEW a \in answers, links' = AfterAnswer(a)
  PROVE  LinksInv' /\ LinksKeep
<1>1. PICK k : k = KeyOf(a)
  OBVIOUS
<1>2. k \in Keys /\ (a.kind # "HTTP" => <<a.kind, a.content>> \in {"RESULT", "ERROR", "FOREIGN"} \X (Nat \cup {None}))
  BY <1>1 DEF OperationsInv, AnswerInv, TrueAnswer
<1>3. CASE links[k] = None
  <2>1. UNCHANGED links
    BY <1>1, <1>3 DEF AfterAnswer
  <2> QED
    BY <2>1, LinksRest
<1>4. CASE links[k] # None
  <2>1. PICK old \in Link : old = links[k]
    BY <1>2, <1>4 DEF OperationsInv, ClientInv
  <2>2. PICK consumed : consumed = Consumed(old, CorrelateResponse(k))
    OBVIOUS
  <2>3. consumed \in Link /\ consumed.op = old.op /\ consumed.n = old.n
    BY <2>2 DEF Consumed, Link
  <2>4. PICK link : link = IF a.kind = "HTTP" THEN consumed ELSE Correlated(consumed, a)
    OBVIOUS
  <2>5. link \in Link /\ link.op = old.op /\ link.n = old.n
    <3>1. CASE a.kind = "HTTP"
      BY <2>3, <2>4, <3>1
    <3>2. CASE a.kind # "HTTP"
      <4>1. PICK seen \in {"RESULT", "ERROR", "FOREIGN"} \X (Nat \cup {None}) : seen = <<a.kind, a.content>>
        BY <1>2, <3>2
      <4>2. \/ link = [consumed EXCEPT !.status = "CONFLICT"]
            \/ link = [consumed EXCEPT !.status = "COMPLETED", !.seen = seen]
            \/ link = consumed
        BY <2>4, <3>2, <4>1 DEF Correlated
      <4> QED
        BY <2>3, <4>1, <4>2 DEF Link
    <3> QED
      BY <3>1, <3>2
  <2>6. links' = [links EXCEPT ![k] = link]
    BY <1>1, <1>4, <2>1, <2>2, <2>4 DEF AfterAnswer
  <2>7. old.n \in DOMAIN dispatch[old.op]
    BY <1>2, <1>4, <2>1 DEF OperationsInv, ClientInv
  <2> QED
    BY <1>2, <2>1, <2>5, <2>6, <2>7, LinkPut
<1> QED
  BY <1>3, <1>4

\* MCPProtocolBoundary.correlate takes only a result for one.
LEMMA ResultIsResult ==
  ASSUME NEW link, NEW a, Correlate(link, a) = "PROTOCOL_RESULT"
  PROVE  a.kind = "RESULT"
<1> DEFINE c1 == link.status = None
           c2 == a.kind = "FOREIGN"
           c3 == link.seen = <<a.kind, a.content>>
           c4 == link.seen # None
           c5 == a.kind = "RESULT"
           rules == << <<c1, "UNKNOWN_RESPONSE">>, <<c2, "CONFLICT">>, <<c3, "DUPLICATE">>, <<c4, "CONFLICT">>,
                       <<c5, "PROTOCOL_RESULT">>, <<TRUE, "PROTOCOL_ERROR">> >>
<1>1. FirstMatch(rules) = "PROTOCOL_RESULT"
  BY DEF Correlate
<1>2. c5 \in BOOLEAN
  OBVIOUS
<1> HIDE DEF c1, c2, c3, c4, c5
<1>3. DOMAIN rules = 1 .. 6
  OBVIOUS
<1>4. /\ rules[1] = <<c1, "UNKNOWN_RESPONSE">> /\ rules[2] = <<c2, "CONFLICT">> /\ rules[3] = <<c3, "DUPLICATE">>
      /\ rules[4] = <<c4, "CONFLICT">> /\ rules[5] = <<c5, "PROTOCOL_RESULT">> /\ rules[6] = <<TRUE, "PROTOCOL_ERROR">>
  OBVIOUS
<1> HIDE DEF rules
<1>5. rules[6][1] /\ 6 \in Nat /\ 6 > 0
  BY <1>4
<1>6. PICK i \in 1 .. 6 : rules[i][1] /\ FirstMatch(rules) = rules[i][2]
  BY <1>3, <1>5, FirstMatchApplies
<1>7. i = 5
  BY <1>1, <1>4, <1>6
<1>8. c5
  BY <1>2, <1>4, <1>6, <1>7
<1> QED
  BY <1>8 DEF c5

\* A candidate's content is the effect of the attempt its key is bound to.
LEMMA CandidateIsTrue ==
  ASSUME OperationsInv, NEW a \in answers, NEW k, k = KeyOf(a), NEW run, IsCandidate(a, k, run)
  PROVE  a.content = run.n /\ Took(run.op, run.n)
<1>1. a.kind = "RESULT" /\ a.content # None
  BY ResultIsResult DEF IsCandidate
<1>2. a.content = links[k].n /\ Took(links[k].op, links[k].n)
  BY <1>1 DEF OperationsInv, AnswerInv, TrueAnswer
<1> QED
  BY <1>2 DEF IsCandidate

LEMMA ReceiveStep ==
  ASSUME OperationsInv, NEW w \in Workers, NEW a \in answers, Receive(w, a)
  PROVE  OperationsInv'
<1>1. /\ Still /\ UNCHANGED <<requests, dispatch, repair, proposals>> /\ answers' \subseteq answers
      /\ worker[w] # None /\ worker[w].pc = "sent" /\ links' = AfterAnswer(a)
  BY DEF Receive, Awaits, Still, serverVars
<1>2. PICK run, k, op, n : run = worker[w] /\ k = KeyOf(a) /\ op = run.op /\ n = run.n
  OBVIOUS
<1>3. /\ RunInv(run) /\ op \in Ops /\ n \in DOMAIN dispatch[op] /\ KeyOf(run) = k /\ k \in Keys
      /\ links[k].op = op /\ links[k].n = n /\ run.pc = "sent"
  BY <1>1, <1>2, HoldsLink DEF OperationsInv, WorkerInv, Receive, Awaits
<1>4. LinksInv' /\ LinksKeep
  BY <1>1, AnsweredLink
<1>5. RecordInv' /\ RecordsKeep
  BY <1>1, RecordsRest, RecordsStill DEF OperationsInv, RecordInv
<1>6. DrivesAt(w, Driving, op, n) /\ Spent(op, n)
  BY <1>1, <1>2, <1>3 DEF DrivesAt, Driving, RunInv
<1>7. CASE /\ IsCandidate(a, k, run) /\ UNCHANGED evidence
           /\ worker' = [worker EXCEPT ![w].pc = "proposed", ![w].object = a.content]
  <2>1. a.content = n /\ Took(op, n)
    BY <1>2, <1>7, CandidateIsTrue
  <2>2. PICK r : r = [run EXCEPT !.pc = "proposed", !.object = n]
    OBVIOUS
  <2>3. worker' = [worker EXCEPT ![w] = r]
    BY <1>2, <1>7, <2>1, <2>2
  <2>4. /\ {"pc", "op", "n", "id", "gen", "record", "fenced", "permit", "object"} \subseteq DOMAIN r
        /\ r.pc = "proposed" /\ r.op = op /\ r.n = n /\ r.id = run.id /\ r.gen = run.gen /\ r.object = n
    BY <1>2, <1>3, <2>2 DEF RunInv
  <2>5. Spent(r.op, r.n)' /\ Took(r.op, r.n)'
    BY <1>1, <1>6, <2>1, <2>4 DEF Spent, Took, Still
  <2>6. RunInv(r)'
    BY <1>1, <1>2, <1>3, <2>4, <2>5 DEF RunInv, Driving, Unsent
  <2>7. r.pc \notin Unsent
    BY <2>4 DEF Unsent
  <2> QED
    BY <1>1, <1>3, <1>4, <1>6, <1>7, <2>3, <2>4, <2>6, <2>7, QuietRunStep
<1>8. CASE worker' = [worker EXCEPT ![w] = None] /\ UNCHANGED evidence
  BY <1>1, <1>3, <1>4, <1>8, QuietRunStep
<1>9. CASE worker' = [worker EXCEPT ![w] = None] /\ a.kind = "HTTP" /\ Learn(op, Translate(a, links[k]))
  <2>1. PICK e : e = Translate(a, links[k])
    OBVIOUS
  <2>2. e.n = n /\ e.id = a.id /\ (e.executed = "PROVEN_NOT_EXECUTED" => a.from = ServerIdentity)
    BY <1>3, <2>1 DEF Translate, Trusted, Evidence
  <2>3. a.id \in RequestIds
    BY <1>2, <1>3 DEF KeyOf, Keys
  <2>4. ~Driven(op, n)' /\ ~Pending(op)
    BY <1>1, <1>2, <1>6, <1>9, RunEnds, DrivenIsNewest DEF DrivesAt
  <2>5. Spent(op, n)'
    BY <1>1, <1>6 DEF Spent
  <2>6. e.executed = "PROVEN_NOT_EXECUTED" /\ <<op, n>> \notin duplicated => Gone(op, n)
    BY <1>2, <1>3, <1>9, <2>2, OperationsAssumption DEF OperationsInv, AnswerInv, TrueAnswer
  <2>7. ~Held(op, n)'
    BY <2>4 DEF Held, Driven, DrivesAt, Unsent, Driving
  <2>8. Gone(op, n) => Gone(op, n)'
    BY <1>1, <2>5, <2>7 DEF Gone, Quiet, Took, OnItsWay, Still
  <2>9. evidence' = [evidence EXCEPT ![op] = e]
    BY <1>9, <2>1 DEF Learn
  <2> QED
    BY <1>1, <1>3, <1>4, <1>5, <1>9, <2>2, <2>3, <2>4, <2>5, <2>6, <2>8, <2>9, RunStep
<1> QED
  BY <1>2, <1>7, <1>8, <1>9 DEF Receive, Rest

\* CapstoneCommitter.commit: the content it writes is the effect of the attempt.
LEMMA CommitStep ==
  ASSUME OperationsInv, NEW w \in Workers, Commit(w)
  PROVE  OperationsInv'
<1>1. /\ Still /\ UNCHANGED <<requests, answers, links, repair, evidence, proposals>>
      /\ worker[w] # None /\ worker[w].pc = "proposed" /\ worker' = [worker EXCEPT ![w] = None]
  BY DEF Commit, Still, serverVars, clientVars, Rest
<1>2. PICK run, op, n : run = worker[w] /\ op = run.op /\ n = run.n
  OBVIOUS
<1>3. RunInv(run) /\ op \in Ops /\ n \in DOMAIN dispatch[op] /\ run.object = n /\ Took(op, n) /\ n \in Nat
  BY <1>1, <1>2 DEF OperationsInv, WorkerInv, RunInv, RecordInv
<1>4. CASE UNCHANGED dispatch
  <2>1. LinksInv' /\ LinksKeep
    BY <1>1, <1>4, LinksRest
  <2> QED
    BY <1>1, <1>3, <1>4, <2>1, QuietRunStep
<1>5. CASE dispatch' = [dispatch EXCEPT ![op][n] = Completed(run, dispatch[op][n])]
  <2>1. PICK current \in Record : current = dispatch[op][n]
    BY <1>3 DEF OperationsInv, RecordInv
  <2>2. PICK version \in Nat : version = current.version + 1
    BY <2>1 DEF Record
  <2>3. PICK r : r = Completed(run, current)
    OBVIOUS
  <2>4. r = [current EXCEPT !.state = "COMPLETED", !.version = version, !.object = n]
    BY <1>3, <2>2, <2>3 DEF Record, Completed
  <2>5. r \in Record /\ r.state = "COMPLETED" /\ r.object = n /\ r.id = current.id /\ r.gen = current.gen
    BY <1>3, <2>4 DEF Record
  <2>6. dispatch' = [dispatch EXCEPT ![op][n] = r]
    BY <1>5, <2>1, <2>3
  <2>7. r.state \notin Ready
    BY <2>5 DEF Ready
  <2>8. /\ RecordInv' /\ RecordsKeep
        /\ \A o \in Ops : Len(dispatch'[o]) = Len(dispatch[o]) /\ DOMAIN dispatch'[o] = DOMAIN dispatch[o]
    BY <1>1, <1>3, <2>1, <2>5, <2>6, <2>7, RecordPut
  <2>9. LinksInv' /\ LinksKeep
    BY <1>1, <2>8, LinksRest
  <2> QED
    BY <1>1, <1>3, <2>8, <2>9, RunStep
<1> QED
  BY <1>2, <1>4, <1>5 DEF Commit

-----------------------------------------------------------------------------
\* One repair moves on.
LEMMA RepairPut ==
  ASSUME OperationsInv, NEW op \in Ops, NEW n \in DOMAIN repair[op], NEW r \in Repair,
         repair' = [repair EXCEPT ![op][n] = r]
  PROVE  /\ repair' \in [Ops -> Seq(Repair)] /\ repair'[op][n] = r
         /\ \A o \in Ops : Len(repair'[o]) = Len(repair[o]) /\ DOMAIN repair'[o] = DOMAIN repair[o]
         /\ \A o \in Ops : \A i \in DOMAIN repair[o] : o # op \/ i # n => repair'[o][i] = repair[o][i]
<1> DEFINE s == [repair[op] EXCEPT ![n] = r]
<1>1. repair \in [Ops -> Seq(Repair)]
  BY DEF OperationsInv, RecordInv
<1>2. /\ s \in Seq(Repair) /\ Len(s) = Len(repair[op]) /\ DOMAIN s = DOMAIN repair[op] /\ s[n] = r
      /\ \A i \in DOMAIN repair[op] : i # n => s[i] = repair[op][i]
  BY <1>1
<1>3. repair' = [repair EXCEPT ![op] = s]
  OBVIOUS
<1> HIDE DEF s
<1>4. repair' \in [Ops -> Seq(Repair)] /\ repair'[op] = s /\ \A o \in Ops : o # op => repair'[o] = repair[o]
  BY <1>1, <1>2, <1>3
<1> QED
  BY <1>2, <1>4

LEMMA RepairMoves ==
  ASSUME OperationsInv, Lasting, TakesUpNew, NEW op \in Ops, NEW n \in DOMAIN repair[op], NEW r \in Repair,
         repair' = [repair EXCEPT ![op][n] = r], Verdict(op, n, r.outcome, r.object)',
         r.state = "PENDING_RECONCILIATION" =>
            /\ n = Len(repair[op]) /\ Spent(op, n)' /\ ~Driven(op, n)' /\ Undecided(op, n)',
         \A o \in Ops : \/ evidence'[o] = evidence[o]
                        \/ o = op /\ \A i \in DOMAIN repair[op] : i # n => repair[op][i].state # "PENDING_RECONCILIATION"
  PROVE  RepairInv'
<1>1. /\ repair'[op][n] = r
      /\ \A o \in Ops : Len(repair'[o]) = Len(repair[o]) /\ DOMAIN repair'[o] = DOMAIN repair[o]
      /\ \A o \in Ops : \A i \in DOMAIN repair[o] : o # op \/ i # n => repair'[o][i] = repair[o][i]
  BY RepairPut
<1>2. ASSUME NEW o \in Ops, NEW i \in DOMAIN repair[o], o # op \/ i # n, NEW outcome, NEW object,
             outcome = repair[o][i].outcome, object = repair[o][i].object
      PROVE  Verdict(o, i, outcome, object)'
  BY <1>2, VerdictStays DEF OperationsInv, RepairInv
<1>3. ASSUME NEW o \in Ops, NEW i \in DOMAIN repair[o], NEW outcome, NEW object,
             outcome = repair'[o][i].outcome, object = repair'[o][i].object
      PROVE  Verdict(o, i, outcome, object)'
  <2>1. CASE o = op /\ i = n
    BY <1>1, <1>3, <2>1
  <2>2. CASE o # op \/ i # n
    BY <1>1, <1>2, <1>3, <2>2
  <2> QED
    BY <2>1, <2>2
<1>4. ASSUME NEW o \in Ops, NEW i \in DOMAIN repair[o], repair'[o][i].state = "PENDING_RECONCILIATION"
      PROVE  /\ i = Len(repair[o]) /\ Spent(o, i)' /\ ~Driven(o, i)' /\ Undecided(o, i)'
  <2>1. CASE o = op /\ i = n
    BY <1>1, <1>4, <2>1
  <2>2. CASE o # op \/ i # n
    <3>1. repair[o][i].state = "PENDING_RECONCILIATION"
      BY <1>1, <1>4, <2>2
    <3>2. evidence'[o] = evidence[o]
      BY <2>2, <3>1
    <3> QED
      BY <3>1, <3>2 DEF OperationsInv, RepairInv, Lasting, RecordsKeep, TakesUpNew, Undecided
  <2> QED
    BY <2>1, <2>2
<1> QED
  BY <1>1, <1>3, <1>4 DEF RepairInv

\* A step of the stores alone.
LEMMA StoreStep ==
  ASSUME OperationsInv, UNCHANGED <<requests, serverVars, generation, dispatch, worker, duplicated>>,
         LinksInv', LinksKeep, answers' \subseteq answers
  PROVE  /\ Still /\ Lasting /\ TakesUpNew /\ WorkerInv' /\ RequestInv' /\ RecordsKeep
         /\ \A op \in Ops : \A n : /\ Spent(op, n)' <=> Spent(op, n)
                                   /\ Driven(op, n)' <=> Driven(op, n)
                                   /\ Gone(op, n)' <=> Gone(op, n)
<1>1. Still
  BY DEF Still, serverVars
<1>2. RecordsKeep
  BY RecordsStill
<1>3. WorkerInv' /\ TakesUpNew
  BY <1>1, <1>2, WorkersRest
<1>4. Lasting /\ RequestInv'
  BY <1>1, <1>2, <1>3, StillLasts, RequestsRest
<1>5. \A op \in Ops : \A n : /\ Spent(op, n)' <=> Spent(op, n)
                             /\ Driven(op, n)' <=> Driven(op, n)
                             /\ Held(op, n)' <=> Held(op, n)
                             /\ Quiet(op, n)' <=> Quiet(op, n)
  BY <1>1, HeldStill DEF Spent, Quiet, Took, OnItsWay, Still
<1> QED
  BY <1>1, <1>2, <1>3, <1>4, <1>5 DEF Gone

\* A started dispatch nobody drives: its attempt may have executed.
LEMMA RecoverStep ==
  ASSUME OperationsInv, NEW op \in Ops, Recover(op)
  PROVE  OperationsInv'
<1>1. PICK n : n = Len(dispatch[op])
  OBVIOUS
<1>2. /\ UNCHANGED <<requests, answers, serverVars, generation, links, dispatch, worker, proposals, duplicated>>
      /\ dispatch[op][n].state = "DISPATCH_STARTED"
  BY <1>1 DEF Recover, clientVars
<1>3. n \in DOMAIN dispatch[op] /\ n \in DOMAIN repair[op] /\ n = Len(repair[op]) /\ repair[op] \in Seq(Repair)
  BY <1>1 DEF OperationsInv, RecordInv
<1>4. dispatch[op][n].id \in RequestIds \cup {None}
  <2>1. dispatch[op][n] \in Record
    BY <1>3 DEF OperationsInv, RecordInv
  <2> QED
    BY <2>1 DEF Record
<1>5. Spent(op, n) /\ ~Driven(op, n)
  BY <1>1, <1>2, <1>3 DEF Recover, Spent, Driven, DrivesAt, Driving, Ready
<1>6. LinksInv' /\ LinksKeep
  BY <1>2, LinksRest
<1>7. /\ Still /\ Lasting /\ TakesUpNew /\ WorkerInv' /\ RequestInv' /\ RecordsKeep
      /\ Spent(op, n)' /\ ~Driven(op, n)'
  BY <1>2, <1>5, <1>6, StoreStep
<1>8. PICK e : e = Evidence(n, dispatch[op][n].id, "DISPATCH_OWNER_LOST", "POSSIBLY_SENT", "POSSIBLY_EXECUTED")
  OBVIOUS
<1>9. e.n = n /\ e.id \in RequestIds \cup {None} /\ e.executed # "PROVEN_NOT_EXECUTED"
  BY <1>4, <1>8 DEF Evidence
<1>10. evidence' = [evidence EXCEPT ![op] = e] /\ evidence'[op] = e /\ \A o \in Ops : o # op => evidence'[o] = evidence[o]
  BY <1>1, <1>8 DEF Recover, Learn, OperationsInv, EvidenceInv
<1>11. EvidenceInv' /\ Undecided(op, n)'
  BY <1>7, <1>9, <1>10, EvidenceStays DEF Undecided
<1>12. PICK old \in Repair : old = repair[op][n]
  BY <1>3
<1>13. PICK r : r = [old EXCEPT !.state = "PENDING_RECONCILIATION", !.version = 1]
  OBVIOUS
<1>14. r \in Repair /\ r.outcome = old.outcome /\ r.object = old.object
  BY <1>13 DEF Repair
<1>15. repair' = [repair EXCEPT ![op][n] = r]
  BY <1>1, <1>12, <1>13 DEF Recover
<1>16. Verdict(op, n, r.outcome, r.object)'
  <2>1. PICK outcome, object : outcome = old.outcome /\ object = old.object
    OBVIOUS
  <2>2. Verdict(op, n, outcome, object)
    BY <1>3, <1>12, <2>1 DEF OperationsInv, RepairInv
  <2>3. Verdict(op, n, outcome, object)'
    BY <1>7, <2>2, VerdictStays
  <2> QED
    BY <1>14, <2>1, <2>3
<1>17. \A i \in DOMAIN repair[op] : i # n => repair[op][i].state # "PENDING_RECONCILIATION"
  BY <1>3 DEF OperationsInv, RepairInv
<1>18. RepairInv'
  BY <1>3, <1>7, <1>10, <1>11, <1>14, <1>15, <1>16, <1>17, RepairMoves
<1>19. RecordInv' /\ \A o \in Ops : DOMAIN repair[o] \subseteq DOMAIN repair'[o]
  BY <1>2, <1>3, <1>7, <1>14, <1>15, RepairPut, RecordsRest
<1>20. ProposalInv'
  BY <1>2, <1>7, <1>19, ProposalsRest
<1> QED
  BY <1>2, <1>6, <1>7, <1>11, <1>18, <1>19, <1>20, StoresMove

\* ReconciliationScheduler.reconcile_once decides only what the authority said.
LEMMA DecisionIsStatus ==
  ASSUME NEW e, NEW status, ReconcileOnce(e, status) \in {"SUCCEEDED", "FAILED", "NOT_EXECUTED"}
  PROVE  ReconcileOnce(e, status) = status
<1> DEFINE c1 == e.executed = "PROVEN_NOT_EXECUTED"
           c2 == status = "OTHER_BINDING"
           c3 == status \in {"SUCCEEDED", "FAILED", "NOT_EXECUTED"}
           rules == << <<c1, "NOT_REQUIRED">>, <<c2, "EVIDENCE_CONFLICT">>, <<c3, status>>, <<TRUE, "STILL_PENDING">> >>
<1>1. ReconcileOnce(e, status) = FirstMatch(rules)
  BY DEF ReconcileOnce
<1> HIDE DEF c1, c2, c3
<1>2. DOMAIN rules = 1 .. 4
  OBVIOUS
<1>3. /\ rules[1] = <<c1, "NOT_REQUIRED">> /\ rules[2] = <<c2, "EVIDENCE_CONFLICT">> /\ rules[3] = <<c3, status>>
      /\ rules[4] = <<TRUE, "STILL_PENDING">>
  OBVIOUS
<1> HIDE DEF rules
<1>4. rules[4][1] /\ 4 \in Nat /\ 4 > 0
  BY <1>3
<1>5. PICK i \in 1 .. 4 : FirstMatch(rules) = rules[i][2]
  BY <1>2, <1>4, FirstMatchApplies
<1>6. i = 3
  BY <1>1, <1>3, <1>5
<1> QED
  BY <1>1, <1>3, <1>5, <1>6

\* What the authority says of an attempt nobody drives stays true.
LEMMA AuthorityIsRight ==
  ASSUME OperationsInv, NEW op \in Ops, NEW n, Spent(op, n), ~Driven(op, n), NEW status \in AuthorityAnswers(op)
  PROVE  /\ status = "SUCCEEDED" => effects[op][1] \in Nat /\ Took(op, effects[op][1])
         /\ status = "FAILED" => Dead(op)
         /\ status = "NOT_EXECUTED" => Gone(op, n)
<1>1. CASE status = "SUCCEEDED"
  <2>1. effects[op] # <<>>
    BY <1>1 DEF AuthorityAnswers
  <2>2. PICK first \in Attempt : effects[op] = <<first>> /\ effects[op][1] = first
    BY <2>1 DEF OperationsInv, ServerInv
  <2>3. 1 \in DOMAIN effects[op]
    BY <2>2
  <2> QED
    BY <1>1, <2>2, <2>3 DEF Took, Attempt
<1>2. CASE status \in {"FAILED", "NOT_EXECUTED"}
  <2>1. effects[op] = <<>> /\ ~MayRun(op) /\ (status = "FAILED" => registry[op] # None)
    BY <1>2 DEF AuthorityAnswers
  <2>2. ~Took(op, n)
    BY <2>1 DEF Took
  <2>3. ~OnItsWay(op, n) /\ \A c \in calls : c.m.op # op
    BY <2>1 DEF MayRun, OnItsWay
  <2>4. ~Held(op, n)
    BY DEF Held, Driven, DrivesAt, Unsent, Driving
  <2> QED
    BY <1>2, <2>1, <2>2, <2>3, <2>4 DEF Dead, Gone, Quiet
<1> QED
  BY <1>1, <1>2

\* Proposals are joined by one whose verdict is true.
LEMMA ProposalJoins ==
  ASSUME OperationsInv, Lasting, NEW op \in Ops, NEW n \in DOMAIN repair[op],
         NEW outcome \in {"SUCCEEDED", "FAILED", "NOT_EXECUTED"}, NEW object \in Nat \cup {None},
         Verdict(op, n, outcome, object), proposals' = proposals \cup {Proposal(op, n, outcome, object)},
         \A o \in Ops : DOMAIN repair[o] \subseteq DOMAIN repair'[o]
  PROVE  ProposalInv'
<1>1. PICK new : new = Proposal(op, n, outcome, object)
  OBVIOUS
<1>2. new.op = op /\ new.n = n /\ new.outcome = outcome /\ new.object = object
  BY <1>1 DEF Proposal
<1>3. ASSUME NEW p \in proposals, NEW o, NEW i, NEW out, NEW obj, o = p.op, i = p.n, out = p.outcome, obj = p.object
      PROVE  Verdict(o, i, out, obj)'
  BY <1>3, VerdictStays DEF OperationsInv, ProposalInv
<1>4. Verdict(op, n, outcome, object)'
  BY VerdictStays
<1>5. ASSUME NEW p \in proposals'
      PROVE  /\ p.op \in Ops /\ p.n \in DOMAIN repair'[p.op]
             /\ p.outcome \in {"SUCCEEDED", "FAILED", "NOT_EXECUTED"} /\ p.object \in Nat \cup {None}
             /\ Verdict(p.op, p.n, p.outcome, p.object)'
  <2>1. CASE p \in proposals
    BY <1>3, <2>1 DEF OperationsInv, ProposalInv
  <2>2. CASE p = new
    BY <1>2, <1>4, <2>2
  <2> QED
    BY <1>1, <2>1, <2>2
<1> QED
  BY <1>5 DEF ProposalInv

LEMMA ObserveStep ==
  ASSUME OperationsInv, NEW op \in Ops, NEW n \in DOMAIN repair[op], Observe(op, n)
  PROVE  OperationsInv'
<1>1. /\ UNCHANGED <<requests, answers, serverVars, generation, links, dispatch, evidence, worker, duplicated>>
      /\ repair[op][n].state = "PENDING_RECONCILIATION"
  BY DEF Observe, clientVars
<1>2. PICK status \in AuthorityAnswers(op), late \in BOOLEAN :
         /\ repair' = [repair EXCEPT ![op][n] = Scheduled(repair[op][n], ReconcileOnce(evidence[op], status), late)]
         /\ proposals' = IF ReconcileOnce(evidence[op], status) \in {"SUCCEEDED", "FAILED", "NOT_EXECUTED"}
                         THEN proposals \cup {Proposal(op, n, ReconcileOnce(evidence[op], status),
                                 IF ReconcileOnce(evidence[op], status) = "SUCCEEDED" THEN effects[op][1] ELSE None)}
                         ELSE proposals
  BY DEF Observe
<1>3. PICK decision : decision = ReconcileOnce(evidence[op], status)
  OBVIOUS
<1>4. PICK old \in Repair : old = repair[op][n]
  BY DEF OperationsInv, RecordInv
<1>5. PICK r : r = Scheduled(old, decision, late)
  OBVIOUS
<1>6. r \in Repair /\ r.outcome = old.outcome /\ r.object = old.object /\ r.state = old.state
  <2> DEFINE alerted == old.queries + 1 >= MaxQueries \/ late \/ decision = "EVIDENCE_CONFLICT"
  <2>1. r = old \/ r = [old EXCEPT !.queries = old.queries + 1, !.alerted = alerted]
    BY <1>4, <1>5 DEF Scheduled, Repair
  <2>2. alerted \in BOOLEAN
    OBVIOUS
  <2> HIDE DEF alerted
  <2>3. old.queries + 1 \in Nat
    BY <1>4 DEF Repair
  <2> QED
    BY <1>4, <2>1, <2>2, <2>3 DEF Repair
<1>7. repair' = [repair EXCEPT ![op][n] = r]
  BY <1>2, <1>3, <1>4, <1>5
<1>8. /\ Spent(op, n) /\ ~Driven(op, n) /\ n = Len(repair[op])
      /\ Undecided(op, n)
  BY <1>1 DEF OperationsInv, RepairInv
<1>9. LinksInv' /\ LinksKeep
  BY <1>1, LinksRest
<1>10. /\ Still /\ Lasting /\ TakesUpNew /\ WorkerInv' /\ RequestInv' /\ RecordsKeep
       /\ Spent(op, n)' /\ ~Driven(op, n)'
  BY <1>1, <1>8, <1>9, StoreStep
<1>11. Verdict(op, n, r.outcome, r.object)'
  <2>1. PICK outcome, object : outcome = old.outcome /\ object = old.object
    OBVIOUS
  <2>2. Verdict(op, n, outcome, object)
    BY <1>4, <2>1 DEF OperationsInv, RepairInv
  <2>3. Verdict(op, n, outcome, object)'
    BY <1>10, <2>2, VerdictStays
  <2> QED
    BY <1>6, <2>1, <2>3
<1>12. RepairInv'
  BY <1>1, <1>6, <1>7, <1>8, <1>10, <1>11, RepairMoves DEF Undecided
<1>13. RecordInv' /\ \A o \in Ops : DOMAIN repair[o] \subseteq DOMAIN repair'[o]
  BY <1>1, <1>6, <1>7, <1>10, RepairPut, RecordsRest
<1>14. EvidenceInv'
  BY <1>1, <1>10, EvidenceStays
<1>15. ProposalInv'
  <2>1. CASE decision \in {"SUCCEEDED", "FAILED", "NOT_EXECUTED"}
    <3>1. decision = status
      BY <1>3, <2>1, DecisionIsStatus
    <3>2. PICK object : object = IF decision = "SUCCEEDED" THEN effects[op][1] ELSE None
      OBVIOUS
    <3>3. object \in Nat \cup {None} /\ Verdict(op, n, decision, object)
      BY <1>8, <2>1, <3>1, <3>2, AuthorityIsRight DEF Verdict
    <3>4. proposals' = proposals \cup {Proposal(op, n, decision, object)}
      BY <1>2, <1>3, <2>1, <3>2
    <3> QED
      BY <1>10, <1>13, <2>1, <3>3, <3>4, ProposalJoins
  <2>2. CASE decision \notin {"SUCCEEDED", "FAILED", "NOT_EXECUTED"}
    <3>1. proposals' = proposals
      BY <1>2, <1>3, <2>2
    <3> QED
      BY <1>10, <1>13, <3>1, ProposalsRest
  <2> QED
    BY <2>1, <2>2
<1> QED
  BY <1>1, <1>9, <1>10, <1>12, <1>13, <1>14, <1>15, StoresMove

\* validate_late_success: the content of a late answer is the effect of its attempt.
LEMMA LateAnswerStep ==
  ASSUME OperationsInv, NEW a \in answers, LateAnswer(a)
  PROVE  OperationsInv'
<1>1. /\ UNCHANGED <<requests, serverVars, generation, dispatch, repair, evidence, worker, duplicated>>
      /\ links' = AfterAnswer(a) /\ answers' \subseteq answers
  BY DEF LateAnswer
<1>2. LinksInv' /\ LinksKeep
  BY <1>1, AnsweredLink
<1>3. Still /\ Lasting /\ TakesUpNew /\ WorkerInv' /\ RequestInv' /\ RecordsKeep
  BY <1>1, <1>2, StoreStep
<1>4. RecordInv'
  BY <1>1, <1>3, RecordsRest DEF OperationsInv, RecordInv
<1>5. RepairInv'
  BY <1>1, <1>3, RepairsRest
<1>6. EvidenceInv'
  <2>1. CASE Ops = {}
    BY <1>1, <2>1 DEF OperationsInv, EvidenceInv
  <2>2. CASE Ops # {}
    BY <1>1, <1>3, <2>2, EvidenceStays
  <2> QED
    BY <2>1, <2>2
<1>7. ProposalInv'
  <2>1. PICK k, link : k = KeyOf(a) /\ link = links[k]
    OBVIOUS
  <2>2. CASE proposals' = proposals
    BY <1>1, <1>3, <2>2, ProposalsRest
  <2>3. CASE /\ link # None /\ IsCandidate(a, k, link)
             /\ proposals' = proposals \cup {Proposal(link.op, link.n, "SUCCEEDED", a.content)}
    <3>1. a.content = link.n /\ Took(link.op, link.n)
      BY <2>1, <2>3, CandidateIsTrue
    <3>2. k \in Keys
      BY <2>1 DEF OperationsInv, AnswerInv, TrueAnswer
    <3>3. link \in Link /\ link.op \in Ops /\ link.n \in Nat /\ link.n \in DOMAIN dispatch[link.op]
      BY <2>1, <2>3, <3>2 DEF OperationsInv, ClientInv, Link
    <3>4. link.n \in DOMAIN repair[link.op]
      BY <3>3 DEF OperationsInv, RecordInv
    <3>5. Verdict(link.op, link.n, "SUCCEEDED", a.content)
      BY <3>1 DEF Verdict
    <3> QED
      BY <1>1, <1>3, <2>3, <3>1, <3>3, <3>4, <3>5, ProposalJoins
  <2> QED
    BY <2>1, <2>2, <2>3 DEF LateAnswer
<1> QED
  BY <1>1, <1>2, <1>3, <1>4, <1>5, <1>6, <1>7, StoresMove

\* A proposal that wins the compare-and-set is committed; one that says the attempt was not
\* executed becomes evidence for a retry.
LEMMA CommitReconciliationStep ==
  ASSUME OperationsInv, NEW p \in proposals, CommitReconciliation(p)
  PROVE  OperationsInv'
<1>1. /\ UNCHANGED <<requests, answers, serverVars, generation, links, dispatch, worker, duplicated>>
      /\ proposals' \subseteq proposals
  BY DEF CommitReconciliation, clientVars
<1>2. PICK op, n, outcome, object : op = p.op /\ n = p.n /\ outcome = p.outcome /\ object = p.object
  OBVIOUS
<1>3. /\ op \in Ops /\ n \in DOMAIN repair[op] /\ outcome \in {"SUCCEEDED", "FAILED", "NOT_EXECUTED"}
      /\ object \in Nat \cup {None} /\ Verdict(op, n, outcome, object)
  BY <1>2 DEF OperationsInv, ProposalInv
<1>4. LinksInv' /\ LinksKeep
  BY <1>1, LinksRest
<1>5. /\ Still /\ Lasting /\ TakesUpNew /\ WorkerInv' /\ RequestInv' /\ RecordsKeep
      /\ \A i : /\ Spent(op, i)' <=> Spent(op, i)
                /\ Driven(op, i)' <=> Driven(op, i)
                /\ Gone(op, i)' <=> Gone(op, i)
  BY <1>1, <1>3, <1>4, StoreStep
<1>6. PICK old \in Repair : old = repair[op][n]
  BY <1>3 DEF OperationsInv, RecordInv
<1>7. CASE UNCHANGED <<repair, evidence>>
  <2>1. RecordInv'
    BY <1>1, <1>5, <1>7, RecordsRest DEF OperationsInv, RecordInv
  <2>2. RepairInv' /\ EvidenceInv' /\ ProposalInv'
    BY <1>1, <1>3, <1>5, <1>7, RepairsRest, EvidenceStays, ProposalsRest
  <2> QED
    BY <1>1, <1>4, <1>5, <2>1, <2>2, StoresMove
<1>8. CASE /\ old.state = "PENDING_RECONCILIATION" /\ repair' = [repair EXCEPT ![op][n] = Repaired(p, old)]
           /\ IF outcome = "NOT_EXECUTED"
              THEN Learn(op, Evidence(evidence[op].n, evidence[op].id, "AUTHORITATIVE_NOT_EXECUTED",
                                      evidence[op].sent, "PROVEN_NOT_EXECUTED"))
              ELSE UNCHANGED evidence
  <2>1. /\ Spent(op, n) /\ ~Driven(op, n) /\ n = Len(repair[op])
        /\ evidence[op].n = n /\ evidence[op].id \in RequestIds \cup {None}
    BY <1>3, <1>6, <1>8 DEF OperationsInv, RepairInv, Undecided
  <2>2. PICK r : r = Repaired(p, old)
    OBVIOUS
  <2>3. r \in Repair /\ r.state = "COMPLETED" /\ r.outcome = outcome /\ r.object = object
    <3>1. PICK version \in Nat : version = old.version + 1
      BY <1>6 DEF Repair
    <3>2. r = [old EXCEPT !.state = "COMPLETED", !.version = version, !.outcome = outcome, !.object = object]
      BY <1>2, <1>6, <2>2, <3>1 DEF Repaired, Repair
    <3> QED
      BY <1>3, <1>6, <3>2 DEF Repair
  <2>4. repair' = [repair EXCEPT ![op][n] = r]
    BY <1>8, <2>2
  <2>5. RecordInv' /\ \A o \in Ops : DOMAIN repair[o] \subseteq DOMAIN repair'[o]
    BY <1>1, <1>3, <1>5, <2>3, <2>4, RepairPut, RecordsRest
  <2>6. ProposalInv'
    BY <1>1, <1>5, <2>5, ProposalsRest
  <2>7. Verdict(op, n, r.outcome, r.object)'
    <3>1. Verdict(op, n, outcome, object)'
      BY <1>3, <1>5, VerdictStays
    <3> QED
      BY <2>3, <3>1
  <2>8. \A i \in DOMAIN repair[op] : i # n => repair[op][i].state # "PENDING_RECONCILIATION"
    BY <1>3, <2>1 DEF OperationsInv, RepairInv
  <2>9. \A o \in Ops : o = op \/ evidence'[o] = evidence[o]
    BY <1>3, <1>8 DEF Learn, OperationsInv, EvidenceInv
  <2>10. RepairInv'
    BY <1>3, <1>5, <2>3, <2>4, <2>7, <2>8, <2>9, RepairMoves
  <2>11. EvidenceInv'
    <3>1. CASE outcome = "NOT_EXECUTED"
      <4>1. PICK e : e = Evidence(evidence[op].n, evidence[op].id, "AUTHORITATIVE_NOT_EXECUTED",
                                  evidence[op].sent, "PROVEN_NOT_EXECUTED")
        OBVIOUS
      <4>2. e.n = n /\ e.id = evidence[op].id
        BY <2>1, <4>1 DEF Evidence
      <4>3. evidence' = [evidence EXCEPT ![op] = e]
        BY <1>8, <3>1, <4>1 DEF Learn
      <4>4. Gone(op, n)
        BY <1>3, <3>1 DEF Verdict
      <4> QED
        BY <1>3, <1>5, <2>1, <4>2, <4>3, <4>4, EvidenceStays
    <3>2. CASE UNCHANGED evidence
      BY <1>3, <1>5, <3>2, EvidenceStays
    <3> QED
      BY <1>8, <3>1, <3>2
  <2> QED
    BY <1>1, <1>4, <1>5, <2>5, <2>6, <2>10, <2>11, StoresMove
<1> QED
  BY <1>2, <1>6, <1>7, <1>8 DEF CommitReconciliation

-----------------------------------------------------------------------------
\* BoundedRetryPolicy.decide wants proof that the attempt was not executed.
LEMMA EligibleIsProven ==
  ASSUME NEW e, NEW ctx, NEW used, Decide(e, ctx, used) = "ELIGIBLE"
  PROVE  e.executed = "PROVEN_NOT_EXECUTED"
<1> SUFFICES ASSUME e.executed # "PROVEN_NOT_EXECUTED" PROVE FALSE
  OBVIOUS
<1>1. BlockedReason(e, ctx, used) = "POSSIBLE_EXECUTION"
  <2> DEFINE c1 == e.executed # "PROVEN_NOT_EXECUTED"
             c2 == ~ctx.intent
             c3 == e.kind \notin RetryableKinds
             c4 == used >= MaxRetries
             c5 == ctx.now >= ctx.deadline
             c6 == ~ctx.authorized
             c7 == ~ctx.capacity
             c8 == ~ctx.circuit
             rules == << <<c1, "POSSIBLE_EXECUTION">>, <<c2, "CALLER_INTENT_INACTIVE">>, <<c3, "FAILURE_NOT_RETRYABLE">>,
                         <<c4, "RETRY_BUDGET_EXHAUSTED">>, <<c5, "DEADLINE_EXHAUSTED">>,
                         <<c6, "AUTHORIZATION_NOT_CURRENT">>, <<c7, "CAPACITY_NOT_ADMITTED">>, <<c8, "CIRCUIT_OPEN">>,
                         <<TRUE, None>> >>
  <2>1. BlockedReason(e, ctx, used) = FirstMatch(rules)
    BY DEF BlockedReason
  <2>2. c1
    OBVIOUS
  <2> HIDE DEF c1, c2, c3, c4, c5, c6, c7, c8
  <2>3. DOMAIN rules = 1 .. 9
    OBVIOUS
  <2>4. rules[1] = <<c1, "POSSIBLE_EXECUTION">> /\ rules[9] = <<TRUE, None>>
    OBVIOUS
  <2> HIDE DEF rules
  <2>5. rules[9][1] /\ 9 \in Nat /\ 9 > 0 /\ rules[1][1] /\ rules[1][2] = "POSSIBLE_EXECUTION"
    BY <2>2, <2>4
  <2>6. PICK i \in 1 .. 9 : /\ \A k \in 1 .. i - 1 : ~rules[k][1]
                            /\ FirstMatch(rules) = rules[i][2]
    BY <2>3, <2>5, FirstMatchApplies
  <2>7. i = 1
    BY <2>5, <2>6
  <2> QED
    BY <2>1, <2>5, <2>6, <2>7
<1>2. BlockedReason(e, ctx, used) # None
  BY <1>1, OperationsAssumption
<1> DEFINE reason == BlockedReason(e, ctx, used)
           c1 == reason # None
           c2 == ctx.now + Delay(ctx, used) + ctx.window > ctx.deadline
           rules == << <<c1, reason>>, <<c2, "DEADLINE_EXHAUSTED">>, <<TRUE, "ELIGIBLE">> >>
<1>3. FirstMatch(rules) = "ELIGIBLE"
  BY DEF Decide
<1>4. c1 /\ reason # "ELIGIBLE"
  BY <1>1, <1>2
<1> HIDE DEF reason, c1, c2
<1>5. DOMAIN rules = 1 .. 3
  OBVIOUS
<1>6. rules[1] = <<c1, reason>> /\ rules[3] = <<TRUE, "ELIGIBLE">>
  OBVIOUS
<1> HIDE DEF rules
<1>7. rules[3][1] /\ 3 \in Nat /\ 3 > 0 /\ rules[1][1] /\ rules[1][2] = reason
  BY <1>4, <1>6
<1>8. PICK i \in 1 .. 3 : /\ \A k \in 1 .. i - 1 : ~rules[k][1]
                          /\ FirstMatch(rules) = rules[i][2]
  BY <1>5, <1>7, FirstMatchApplies
<1>9. i = 1
  BY <1>7, <1>8
<1> QED
  BY <1>3, <1>4, <1>7, <1>8, <1>9

\* A retry opens a record after the newest one, which was dispatched, is driven by nobody and,
\* having provably not executed, is not being repaired.
LEMMA RetryStep ==
  ASSUME OperationsInv, NEW op \in Ops, Retry(op)
  PROVE  OperationsInv'
<1>1. PICK n, e, rec : n = Len(dispatch[op]) /\ e = evidence[op] /\ rec = RetryableRecord(e)
  OBVIOUS
<1>2. /\ Still /\ UNCHANGED <<requests, answers, links, evidence, worker, proposals>>
      /\ e # None /\ e.n = n /\ e.executed = "PROVEN_NOT_EXECUTED"
      /\ dispatch' = [dispatch EXCEPT ![op] = Append(dispatch[op], rec)]
      /\ repair' = [repair EXCEPT ![op] = Append(repair[op], NoRepair)]
  BY <1>1, EligibleIsProven DEF Retry, Still, serverVars, clientVars
<1>3. Spent(op, n) /\ ~Driven(op, n) /\ e.id \in RequestIds \cup {None}
  BY <1>1, <1>2 DEF OperationsInv, EvidenceInv
<1>4. RecordInv /\ dispatch[op] \in Seq(Record) /\ repair[op] \in Seq(Repair) /\ Len(repair[op]) = n /\ n \in Nat
  BY <1>1 DEF OperationsInv, RecordInv
<1>5. rec \in Record /\ NoRepair \in Repair /\ rec.state # "COMPLETED"
  BY <1>1, <1>2, <1>3, <1>4 DEF RetryableRecord, ReadyRecord, NoRepair, Record, Repair, Ready
<1>6. /\ dispatch'[op] = Append(dispatch[op], rec) /\ repair'[op] = Append(repair[op], NoRepair)
      /\ \A o \in Ops : o # op => dispatch'[o] = dispatch[o] /\ repair'[o] = repair[o]
      /\ dispatch' \in [Ops -> Seq(Record)] /\ repair' \in [Ops -> Seq(Repair)]
  BY <1>2, <1>4, <1>5 DEF RecordInv
<1>7. /\ Len(dispatch'[op]) = n + 1 /\ Len(repair'[op]) = n + 1
      /\ dispatch'[op][n + 1] = rec /\ repair'[op][n + 1] = NoRepair
      /\ \A i \in 1 .. n : dispatch'[op][i] = dispatch[op][i] /\ repair'[op][i] = repair[op][i]
      /\ DOMAIN dispatch[op] = 1 .. n /\ DOMAIN repair[op] = 1 .. n
      /\ DOMAIN dispatch'[op] = 1 .. n + 1 /\ DOMAIN repair'[op] = 1 .. n + 1
  BY <1>1, <1>4, <1>5, <1>6
<1>8. /\ \A o \in Ops : DOMAIN dispatch[o] \subseteq DOMAIN dispatch'[o] /\ DOMAIN repair[o] \subseteq DOMAIN repair'[o]
      /\ \A o \in Ops : \A i \in DOMAIN dispatch[o] : dispatch'[o][i] = dispatch[o][i]
      /\ \A o \in Ops : \A i \in DOMAIN repair[o] : repair'[o][i] = repair[o][i]
  <2>1. /\ DOMAIN dispatch[op] \subseteq DOMAIN dispatch'[op] /\ DOMAIN repair[op] \subseteq DOMAIN repair'[op]
        /\ \A i \in DOMAIN dispatch[op] : dispatch'[op][i] = dispatch[op][i]
        /\ \A i \in DOMAIN repair[op] : repair'[op][i] = repair[op][i]
    BY <1>4, <1>7
  <2>2. \A o \in Ops : o # op => dispatch'[o] = dispatch[o] /\ repair'[o] = repair[o]
    BY <1>6
  <2> QED
    BY <2>1, <2>2, Zenon
<1>9. RecordsKeep
  BY <1>8 DEF RecordsKeep, Spent
<1>10. LinksInv' /\ LinksKeep
  BY <1>2, <1>8, LinksRest
<1>11. WorkerInv' /\ TakesUpNew
  BY <1>1, <1>2, <1>3, <1>6, <1>8, <1>9, <1>10, WorkersRest
<1>12. Lasting /\ RequestInv'
  BY <1>2, <1>9, <1>10, <1>11, StillLasts, RequestsRest
<1>13. EvidenceInv'
  BY <1>2, <1>11, <1>12, EvidenceStays
<1>14. ProposalInv'
  BY <1>2, <1>8, <1>12, ProposalsRest
<1>15. RecordInv'
  <2>1. ASSUME NEW o \in Ops, NEW i \in 1 .. Len(dispatch'[o]) PROVE CompletedIsTrue(o, i)'
    <3>1. CASE o = op /\ i = n + 1
      BY <1>5, <1>7, <3>1 DEF CompletedIsTrue
    <3>2. CASE ~(o = op /\ i = n + 1)
      <4>1. i \in 1 .. Len(dispatch[o]) /\ dispatch'[o][i] = dispatch[o][i]
        <5>1. CASE o = op
          BY <1>1, <1>4, <1>7, <3>2, <5>1
        <5>2. CASE o # op
          <6>1. dispatch'[o] = dispatch[o]
            BY <1>6, <5>2
          <6> QED
            BY <6>1
        <5> QED
          BY <5>1, <5>2
      <4>2. CompletedIsTrue(o, i)
        BY <1>4, <4>1 DEF RecordInv
      <4> QED
        BY <1>2, <4>1, <4>2 DEF CompletedIsTrue, Took, Still
    <3> QED
      BY <3>1, <3>2
  <2>2. ASSUME NEW o \in Ops, NEW i \in 1 .. Len(dispatch'[o]) - 1 PROVE Spent(o, i)'
    <3>1. CASE o = op /\ i = n
      BY <1>3, <1>9, <3>1 DEF RecordsKeep
    <3>2. CASE ~(o = op /\ i = n)
      <4>1. i \in 1 .. Len(dispatch[o]) - 1
        BY <1>1, <1>4, <1>6, <1>7, <3>2
      <4> QED
        BY <1>4, <1>9, <4>1 DEF RecordsKeep, RecordInv
    <3> QED
      BY <3>1, <3>2
  <2>3. ASSUME NEW o \in Ops PROVE Len(dispatch'[o]) > 0 /\ Len(repair'[o]) = Len(dispatch'[o])
    <3>1. CASE o = op
      BY <1>4, <1>7, <3>1
    <3>2. CASE o # op
      <4>1. dispatch'[o] = dispatch[o] /\ repair'[o] = repair[o]
        BY <1>6, <3>2
      <4> QED
        BY <1>4, <4>1 DEF RecordInv
    <3> QED
      BY <3>1, <3>2
  <2> QED
    BY <1>6, <2>1, <2>2, <2>3 DEF RecordInv
<1>16. RepairInv'
  <2>1. NoRepair.state # "PENDING_RECONCILIATION" /\ NoRepair.outcome \notin {"SUCCEEDED", "FAILED", "NOT_EXECUTED"}
    <3>1. None # "PENDING_RECONCILIATION" /\ None \notin {"SUCCEEDED", "FAILED", "NOT_EXECUTED"}
      BY OperationsAssumption
    <3> QED
      BY <3>1 DEF NoRepair
  <2>2. ASSUME NEW o \in Ops, NEW i \in DOMAIN repair[o], NEW outcome, NEW object,
               outcome = repair[o][i].outcome, object = repair[o][i].object
        PROVE  Verdict(o, i, outcome, object)'
    BY <1>12, <2>2, VerdictStays DEF OperationsInv, RepairInv
  <2>3. \A i \in DOMAIN repair[op] : repair[op][i].state # "PENDING_RECONCILIATION"
    BY <1>1, <1>2 DEF OperationsInv, RepairInv, Undecided
  <2>4. ASSUME NEW o \in Ops, NEW i \in DOMAIN repair'[o], NEW outcome, NEW object,
               outcome = repair'[o][i].outcome, object = repair'[o][i].object
        PROVE  /\ Verdict(o, i, outcome, object)'
               /\ repair'[o][i].state = "PENDING_RECONCILIATION" => o # op /\ i \in DOMAIN repair[o]
    <3>1. CASE o = op /\ i = n + 1
      BY <1>7, <2>1, <2>4, <3>1 DEF Verdict
    <3>2. CASE ~(o = op /\ i = n + 1)
      <4>1. i \in DOMAIN repair[o]
        BY <1>4, <1>6, <1>7, <3>2
      <4>2. repair'[o][i] = repair[o][i]
        BY <1>8, <4>1
      <4> QED
        BY <2>2, <2>3, <2>4, <4>1, <4>2
    <3> QED
      BY <3>1, <3>2
  <2>5. ASSUME NEW o \in Ops, NEW i \in DOMAIN repair'[o], repair'[o][i].state = "PENDING_RECONCILIATION"
        PROVE  /\ i = Len(repair'[o]) /\ Spent(o, i)' /\ ~Driven(o, i)' /\ Undecided(o, i)'
    <3>1. o # op /\ i \in DOMAIN repair[o]
      BY <2>4, <2>5
    <3>2. repair'[o] = repair[o] /\ evidence' = evidence /\ repair[o][i].state = "PENDING_RECONCILIATION"
      BY <1>2, <1>6, <2>5, <3>1
    <3> QED
      BY <1>9, <1>11, <3>1, <3>2 DEF OperationsInv, RepairInv, RecordsKeep, TakesUpNew, Undecided
  <2> QED
    BY <2>4, <2>5 DEF RepairInv
<1> QED
  BY <1>2, <1>10, <1>11, <1>12, <1>13, <1>14, <1>15, <1>16, StoresMove

-----------------------------------------------------------------------------
LEMMA OperationsStep == OperationsInv /\ [Next]_vars => OperationsInv'
<1> SUFFICES ASSUME OperationsInv, [Next]_vars PROVE OperationsInv'
  OBVIOUS
<1>1. ASSUME NEW m \in requests, Lose(m) \/ Duplicate(m) \/ MakeUp(m) PROVE OperationsInv'
  BY <1>1, LoseStep, DuplicateStep, MakeUpStep
<1>2. ASSUME NEW w \in Workers, NEW op \in Ops, Gate(w, op) \/ GateRetry(w, op) PROVE OperationsInv'
  BY <1>2, GateStep
<1>3. ASSUME NEW w \in Workers, Stop(w) \/ BreakOff(w) PROVE OperationsInv'
  BY <1>3, StopStep, BreakOffStep
<1>4. ASSUME NEW w \in Workers, ClaimDispatch(w) \/ BindAttempt(w) \/ Exchange(w) \/ Commit(w) PROVE OperationsInv'
  BY <1>4, ClaimDispatchStep, BindAttemptStep, SendRequestStep, StalePermitStep, CommitStep DEF Exchange
<1>5. ASSUME NEW w \in Workers, NEW a \in answers, Receive(w, a) PROVE OperationsInv'
  BY <1>5, ReceiveStep
<1>6. ASSUME NEW op \in Ops, Recover(op) \/ Retry(op) PROVE OperationsInv'
  BY <1>6, RecoverStep, RetryStep
<1>7. ASSUME NEW op \in Ops, NEW n \in DOMAIN repair[op], Observe(op, n) PROVE OperationsInv'
  BY <1>7, ObserveStep
<1>8. ASSUME NEW a \in answers, LateAnswer(a) PROVE OperationsInv'
  BY <1>8, LateAnswerStep
<1>9. ASSUME NEW p \in proposals, CommitReconciliation(p) PROVE OperationsInv'
  BY <1>9, CommitReconciliationStep
<1>10. CASE /\ BeginGeneration \/ NoteToolsListChanged \/ RefreshToolInventory
            /\ UNCHANGED <<requests, answers, serverVars, opVars>>
  BY <1>10, ClientStep
<1>11. CASE (ServerStep \/ StartRead \/ BeginShutdown) /\ UNCHANGED <<clientVars, opVars>>
  BY <1>11, ServerKeeps
<1>12. CASE UNCHANGED vars
  <2>1. UNCHANGED <<requests, answers, calls, registry, effects, clientVars, opVars>>
    BY <1>12 DEF vars, serverVars
  <2> QED
    BY <2>1, QuietServerStep
<1>13. CASE Disturb
  <2>1. WireFails \/ RunFails \/ OthersAct
    BY <1>13 DEF Disturb
  <2> QED
    BY <1>1, <1>2, <1>3, <1>10, <1>11, <2>1 DEF WireFails, RunFails, OthersAct, Reconnect
<1>14. CASE Work
  BY <1>2, <1>4, <1>5, <1>6, <1>7, <1>8, <1>9, <1>10, <1>11, <1>14 DEF Work, ServerActs
<1> QED
  BY <1>12, <1>13, <1>14 DEF Next

\* The inductive invariant of the operations holds throughout.
THEOREM OperationsInvariant == Spec => []OperationsInv
BY OperationsInit, OperationsStep, PTL DEF Spec

\* The controlled service takes effect at most once for an operation, however often its request is
\* doubled, lost or retried (InMemoryOperationRegistry.try_claim).
THEOREM ToolRunsOnce == Spec => []ToolRunsAtMostOnce
<1>1. OperationsInv => ToolRunsAtMostOnce
  <2> SUFFICES ASSUME OperationsInv, NEW op \in Ops PROVE Len(effects[op]) <= 1
    BY DEF ToolRunsAtMostOnce
  <2>1. CASE effects[op] = <<>>
    BY <2>1
  <2>2. CASE effects[op] = <<effects[op][1]>>
    <3>1. PICK first : effects[op] = <<first>>
      BY <2>2
    <3>2. Len(<<first>>) = 1
      OBVIOUS
    <3> QED
      BY <3>1, <3>2
  <2> QED
    BY <2>1, <2>2 DEF OperationsInv, ServerInv
<1> QED
  BY <1>1, OperationsInvariant, PTL

\* What the durable stores say happened is what happened (CapstoneCommitter,
\* ReconciliationCommitter, validate_late_success, ApplicationRemoteFailureAdapter.translate).
THEOREM FactsAreTrue == Spec => []FactsMatchTheEffect
<1>1. OperationsInv => FactsMatchTheEffect
  <2> SUFFICES ASSUME OperationsInv, NEW op \in Ops
               PROVE  /\ EvidenceIsTrue(op)
                      /\ \A n \in DOMAIN dispatch[op] : CompletedIsTrue(op, n) /\ RepairIsTrue(op, n)
    BY DEF FactsMatchTheEffect
  <2>1. EvidenceIsTrue(op)
    BY DEF OperationsInv, EvidenceInv, EvidenceIsTrue, Gone, Quiet
  <2>2. ASSUME NEW n \in DOMAIN dispatch[op] PROVE CompletedIsTrue(op, n) /\ RepairIsTrue(op, n)
    <3>1. n \in 1 .. Len(dispatch[op]) /\ n \in DOMAIN repair[op]
      BY DEF OperationsInv, RecordInv
    <3>2. CompletedIsTrue(op, n)
      BY <3>1 DEF OperationsInv, RecordInv
    <3>3. Verdict(op, n, repair[op][n].outcome, repair[op][n].object)
      BY <3>1 DEF OperationsInv, RepairInv
    <3> QED
      BY <3>2, <3>3 DEF RepairIsTrue, Verdict, Dead, Gone, Quiet
  <2> QED
    BY <2>1, <2>2
<1> QED
  BY <1>1, OperationsInvariant, PTL
===============================================================================
