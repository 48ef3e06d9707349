----------------------------- MODULE RagIngestion -----------------------------
(***************************************************************************)
(* Ingestion of document versions (day95): admission of an upload, intake, *)
(* the dispatch claim, the parser call outside the store's lock, candidate *)
(* validation, the guarded activation commit, recovery from an answer that *)
(* never came, retry after proof of non-execution, and the tombstone.      *)
(*                                                                         *)
(* Every store method runs under one lock and is one step.  What a run or  *)
(* a recovery keeps between two steps is in act, so that any other step    *)
(* may come in between, and an actor may die anywhere.  state_version and  *)
(* fence_token always move together and are one counter, sv.               *)
(***************************************************************************)
EXTENDS Integers, Sequences, FiniteSets, FirstMatch

CONSTANTS Intakes,        \* [op, doc, ver, source, key, contract, request, upload]: what callers ask for
          Actors,         \* threads that run the orchestrator or a recovery
          RequestIds,     \* parser_request_id values
          MaxAttempts,    \* attempts a retry policy allows
          MaxRequests,    \* bound on the dispatch requests of all operations together
          Contract,       \* parse_contract_version of the current parser
          MediaTypes,     \* supported_media_types of the admission policy
          ParserMediaTypes,   \* supported_media_types of the parser's capability
          MaxSize,        \* maximum_size_bytes of admission and parser
          None

\* What the constructors of the operation, version and source identities demand of a request,
\* and of the upload it comes from: no empty identity, and no negative expected size.
WellFormedIntake(i) ==
    /\ None \notin {i.op, i.doc, i.ver, i.source, i.key, i.contract}
WellFormedUpload(u) == u.expectedSize \in Nat /\ None \notin {u.content, u.declared}

ASSUME IngestionAssumption ==
    /\ MaxAttempts \in Nat \ {0} /\ MaxSize \in Nat \ {0}
    /\ \A i \in Intakes : WellFormedIntake(i) /\ WellFormedUpload(i.upload) /\ i.request \in RequestIds
    /\ \A i, j \in Intakes : i.ver = j.ver => i.doc = j.doc

Operations == {i.op : i \in Intakes}
Documents == {i.doc : i \in Intakes}
Versions == {i.ver : i \in Intakes}
DocumentOf == [v \in Versions |-> (CHOOSE i \in Intakes : i.ver = v).doc]

VARIABLES docs, vers, ops,       \* _documents, _versions, _operations
          intakes,               \* the intakes committed: sources, fingerprints and keys
          artifacts,             \* _parsed_artifacts: [op, attempt]
          outbox,                \* event identities; setdefault keeps the first
          requests,              \* dispatch requests callers hold: [op, attempt, sv]
          executed,              \* external: what the parser registry knows, <<op, attempt, status>>
          act                    \* what each actor holds between two steps

store == <<docs, vers, ops, intakes, artifacts, outbox>>
vars == <<store, requests, executed, act>>

DocumentVersionLifecycle ==
    {"REGISTERED", "ACTIVE", "SUPERSEDED", "QUARANTINED", "TOMBSTONED", "STALE_RESULT"}
IngestionOperationState ==
    {"READY_FOR_DISPATCH", "PARSE_DISPATCH_STARTED", "PENDING_RECONCILIATION", "COMPLETED",
     "FAILED", "QUARANTINED", "PROVEN_NOT_EXECUTED"}

\* ParserAttemptIdentity: the number and the request identity; the generation is the parser's.
ParserAttemptIdentity == [number : 1 .. MaxAttempts, request : RequestIds]

DocumentHeadSnapshot ==
    {h \in [state : {"REGISTERED", "ACTIVE", "TOMBSTONED"}, active : Versions \cup {None}, sv : Nat] :
        (h.state = "ACTIVE") <=> (h.active # None)}

\* Publication facts (artifact and commit identity) come together, ACTIVE and SUPERSEDED need
\* them, REGISTERED, QUARANTINED and STALE_RESULT must not have them.
DocumentVersionLifecycleRecord ==
    {v \in [state : DocumentVersionLifecycle, artifact : [op : Operations, attempt : ParserAttemptIdentity] \cup {None},
            sv : Nat] :
        /\ v.state \in {"ACTIVE", "SUPERSEDED"} => v.artifact # None
        /\ v.state \in {"REGISTERED", "QUARANTINED", "STALE_RESULT"} => v.artifact = None}

\* A dispatched operation has an attempt; numbers and request ids of the history are unique.
IngestionOperationRecord ==
    {o \in [state : IngestionOperationState, sv : Nat, attempt : ParserAttemptIdentity \cup {None},
            history : SUBSET ParserAttemptIdentity] :
        /\ o.state \in {"PARSE_DISPATCH_STARTED", "PENDING_RECONCILIATION", "COMPLETED"} => o.attempt # None
        /\ \A a, b \in o.history : a # b => a.number # b.number /\ a.request # b.request}

Idle == [pc |-> "idle"]

Init ==
    /\ docs = [d \in Documents |-> None]
    /\ vers = [v \in Versions |-> None]
    /\ ops = [o \in Operations |-> None]
    /\ intakes = {} /\ artifacts = {} /\ outbox = {}
    /\ requests = {} /\ executed = {}
    /\ act = [a \in Actors |-> Idle]

\* None is no record of the store.
ASSUME NoneAssumption == /\ None \notin DocumentHeadSnapshot /\ None \notin DocumentVersionLifecycleRecord
                         /\ None \notin IngestionOperationRecord /\ None \notin ParserAttemptIdentity
                         /\ None \notin [op : Operations, attempt : ParserAttemptIdentity]

-----------------------------------------------------------------------------
\* Admission of an upload: _detect, then evaluate.  A media type is recognised from the
\* content, and the declared type must agree with it.
Detect(u) == FirstMatch(<<
    <<u.content = "zip",                                     <<"UNSUPPORTED_ARCHIVE", "zip">> >>,
    <<u.content = "encrypted pdf",                           <<"ENCRYPTED_DOCUMENT", "pdf">> >>,
    <<u.content = "pdf" /\ u.declared # "pdf",               <<"MEDIA_TYPE_MISMATCH", "pdf">> >>,
    <<u.content = "pdf",                                     <<"ADMITTED", "pdf">> >>,
    <<u.content = "binary",                                  <<"MALFORMED_TEXT", None>> >>,
    <<u.content = "html" /\ u.declared # "html",             <<"MEDIA_TYPE_MISMATCH", "html">> >>,
    <<u.content = "html",                                    <<"ADMITTED", "html">> >>,
    <<u.declared \in {"plain", "markdown"},                  <<"ADMITTED", u.declared>> >>,
    <<TRUE,                                                  <<"MEDIA_TYPE_MISMATCH", "plain">> >> >>)

Evaluate(u) == FirstMatch(<<
    <<~u.safeName,                        "UNSAFE_FILENAME">>,
    <<u.size = 0,                         "EMPTY_SOURCE">>,
    <<u.size > MaxSize,                   "OVERSIZED_SOURCE">>,
    <<u.size # u.expectedSize,            "SIZE_MISMATCH">>,
    <<~u.checksumMatches,                 "CHECKSUM_MISMATCH">>,
    <<Detect(u)[1] # "ADMITTED",          Detect(u)[1]>>,
    <<Detect(u)[2] \notin MediaTypes,     "UNSUPPORTED_MEDIA_TYPE">>,
    <<TRUE,                               "ADMITTED">> >>)

\* The content of an upload stands for its checksum; the fingerprint is the admitted evidence
\* under one parse contract, within one document.
Fingerprint(i) == <<i.doc, i.upload.content, i.upload.size, Detect(i.upload)[2], i.contract>>

\* register_intake up to the writes, under the lock.  The tenant is part of every identity.
IntakeOutcome(i) == FirstMatch(<<
    <<i \in intakes,                                             "EXACT_DUPLICATE">>,
    <<\E j \in intakes : j.op = i.op,                            "IDENTITY_CONFLICT">>,
    <<\E j \in intakes : j.key = i.key,                          "IDENTITY_CONFLICT">>,
    <<\E j \in intakes : Fingerprint(j) = Fingerprint(i),        "EXACT_DUPLICATE">>,
    <<docs[i.doc] # None /\ docs[i.doc].state = "TOMBSTONED",    "DOCUMENT_TOMBSTONED">>,
    <<vers[i.ver] # None,                                        "IDENTITY_CONFLICT">>,
    <<\E j \in intakes : j.source = i.source,                    "IDENTITY_CONFLICT">>,
    <<TRUE,                                                      "CREATED">> >>)

Intake(i) ==
    /\ Evaluate(i.upload) = "ADMITTED"
    /\ IntakeOutcome(i) = "CREATED"
    /\ docs' = [docs EXCEPT ![i.doc] = IF @ = None THEN [state |-> "REGISTERED", active |-> None, sv |-> 0] ELSE @]
    /\ vers' = [vers EXCEPT ![i.ver] = [state |-> "REGISTERED", artifact |-> None, sv |-> 0]]
    /\ ops' = [ops EXCEPT ![i.op] = [state |-> "READY_FOR_DISPATCH", sv |-> 0, attempt |-> None, history |-> {}]]
    /\ intakes' = intakes \cup {i}
    /\ outbox' = outbox \cup {<<"INGESTION_REGISTERED", i.op>>}
    /\ requests' = requests \cup {[op |-> i.op, attempt |-> [number |-> 1, request |-> i.request], sv |-> 0]}
    /\ UNCHANGED <<artifacts, executed, act>>

-----------------------------------------------------------------------------
IntakeOf(o) == CHOOSE i \in intakes : i.op = o

\* The request is built by a caller whose facts may have lapsed: at most one of these holds.
Lapses == {"authorization", "caller intent", "deadline", "capacity", "circuit", "binding", "generation"}

\* ControlledParserAdapter.preflight.
ParserPreflight(i, lapsed) == FirstMatch(<<
    <<"binding" \in lapsed,                          "BINDING_CONFLICT">>,
    <<i.contract # Contract,                         "CONTRACT_MISMATCH">>,
    <<Detect(i.upload)[2] \notin ParserMediaTypes,     "UNSUPPORTED_MEDIA_TYPE">>,
    <<i.upload.size > MaxSize,                       "RESOURCE_LIMIT">>,
    <<"generation" \in lapsed,                       "GENERATION_MISMATCH">>,
    <<TRUE,                                          "READY">> >>)

\* IngestionPreflight.evaluate.
Preflight(i, lapsed) == FirstMatch(<<
    <<"authorization" \in lapsed,                    "AUTHORIZATION_BLOCKED">>,
    <<"caller intent" \in lapsed,                    "CALLER_INTENT_INACTIVE">>,
    <<"deadline" \in lapsed,                         "DEADLINE_EXHAUSTED">>,
    <<"capacity" \in lapsed,                         "CAPACITY_REJECTED">>,
    <<"circuit" \in lapsed,                          "CIRCUIT_OPEN">>,
    <<ParserPreflight(i, lapsed) # "READY",          "PARSER_PREFLIGHT_BLOCKED">>,
    <<TRUE,                                          "READY">> >>)

\* claim_parse_dispatch; the expected state of every request is READY_FOR_DISPATCH, which intake
\* and the retry hand out with its attempt and version.  "INVALID" is the record's refusal of a history with a repeated
\* request id, raised while the claimed record is built.
ClaimOutcome(r) ==
    LET cur == ops[r.op] IN FirstMatch(<<
    <<cur.state = "PARSE_DISPATCH_STARTED" /\ cur.attempt = r.attempt,     "ALREADY_CLAIMED">>,
    <<cur.state # "READY_FOR_DISPATCH",                                    "STATE_CONFLICT">>,
    <<cur.sv # r.sv,                                                       "VERSION_CONFLICT">>,
    <<cur.attempt # None /\ (\/ r.attempt.number # cur.attempt.number + 1
                             \/ r.attempt.request = cur.attempt.request),  "ATTEMPT_SEQUENCE_CONFLICT">>,
    <<\E a \in cur.history : a.request = r.attempt.request,                "INVALID">>,
    <<TRUE,                                                                "CLAIMED">> >>)

\* The record a claim stores: the attempt joins the history before the parser sees it.
Claimed(r) ==
    [state |-> "PARSE_DISPATCH_STARTED", sv |-> ops[r.op].sv + 1, attempt |-> r.attempt,
     history |-> ops[r.op].history \cup {r.attempt}]

\* RAGIngestionOrchestrator.run up to the handoff: preflight, then the durable claim.
Run(a, r) ==
    /\ act[a] = Idle
    /\ \E lapsed \in {{}} \cup {{l} : l \in Lapses} : Preflight(IntakeOf(r.op), lapsed) = "READY"
    /\ ClaimOutcome(r) = "CLAIMED"
    /\ ops' = [ops EXCEPT ![r.op] = Claimed(r)]
    /\ act' = [act EXCEPT ![a] = [pc |-> "parse", op |-> r.op, attempt |-> r.attempt, sv |-> ops'[r.op].sv,
                                  expect |-> "PARSE_DISPATCH_STARTED"]]
    /\ UNCHANGED <<docs, vers, intakes, artifacts, outbox, requests, executed>>

-----------------------------------------------------------------------------
\* Defects a candidate may carry, in the order the validator looks for them.
Defects == {"correlation", "binding", "source checksum", "structure", "output checksum"}

\* ParsedCandidateValidator.evaluate.
Validate(defects) == FirstMatch(<<
    <<"correlation" \in defects,        "CORRELATION_CONFLICT">>,
    <<"binding" \in defects,            "MANIFEST_BINDING_CONFLICT">>,
    <<"source checksum" \in defects,    "SOURCE_CHECKSUM_CONFLICT">>,
    <<"structure" \in defects,          "STRUCTURE_INVALID">>,
    <<"output checksum" \in defects,    "OUTPUT_CHECKSUM_CONFLICT">>,
    <<TRUE,                             "READY_FOR_COMMIT">> >>)

Continue(a, pc) == act' = [act EXCEPT ![a].pc = pc]
Ran(o, attempt, status) == executed' = executed \cup {<<o, attempt, status>>}

\* What may go wrong around the parser: the bytes changed since admission, its text is empty
\* after extraction and canonicalisation, the worker process hangs, fails, or answers with too
\* much or with nonsense.
ParseFaults == {"bytes changed", "empty text", "timeout", "exit status", "oversized answer", "invalid answer"}

\* _DeterministicTextParser.parse; script and style content never becomes text.
PrivateParse(i, faults) ==
    IF Detect(i.upload)[2] \notin {"html", "plain", "markdown"} \/ "empty text" \in faults THEN "ERROR" ELSE "TEXT"

\* ControlledParserAdapter.parse; the preflight is repeated against the current capability.
AdapterOutcome(i, faults) == FirstMatch(<<
    <<ParserPreflight(i, {}) # "READY",             "PREFLIGHT_BLOCKED">>,
    <<"bytes changed" \in faults,                   "SOURCE_BYTES_CHANGED">>,
    <<PrivateParse(i, faults) = "ERROR",            "PARSER_FAILED">>,
    <<TRUE,                                         "CANDIDATE">> >>)

\* IndependentParserProcessTransport.execute: only the missing answer leaves the outcome unknown.
TransportOutcome(i, faults) == FirstMatch(<<
    <<"timeout" \in faults,                                                    "UNKNOWN">>,
    <<faults \cap {"exit status", "oversized answer", "invalid answer"} # {},  "PARSER_FAILED">>,
    <<TRUE,                                                                    AdapterOutcome(i, faults)>> >>)

\* The handoff to the parser, outside every lock.  The registry learns of a run that ended;
\* a worker that timed out may have finished or not.
Parse(a) ==
    LET w == act[a] IN
    /\ w.pc = "parse"
    /\ \E f \in {{}} \cup {{x} : x \in ParseFaults} :
          LET outcome == TransportOutcome(IntakeOf(w.op), f) IN
          /\ CASE outcome = "CANDIDATE" -> Ran(w.op, w.attempt, "SUCCEEDED")
               [] outcome = "PARSER_FAILED" -> Ran(w.op, w.attempt, "FAILED")
               [] outcome = "UNKNOWN" -> Ran(w.op, w.attempt, "SUCCEEDED") \/ UNCHANGED executed
               [] OTHER -> UNCHANGED executed
          /\ CASE outcome = "UNKNOWN" -> Continue(a, "lost")
               [] outcome = "CANDIDATE" -> \E d \in {{}} \cup {{x} : x \in Defects} :
                     Continue(a, IF Validate(d) = "READY_FOR_COMMIT" THEN "read" ELSE "reject")
               [] OTHER -> Continue(a, "reject")
    /\ UNCHANGED <<store, requests>>

Release(a) == act' = [act EXCEPT ![a] = Idle]

Step(o, s) == [ops EXCEPT ![o].state = s, ![o].sv = @ + 1]

\* The transition guard the committer's operation transitions share: the state it starts
\* from and the version and fence the caller read.
Guarded(o, from, sv) == ops[o].state = from /\ ops[o].sv = sv

\* mark_pending_reconciliation: the event identity has no counter, a second loss is silent.
MarkPending(o, sv) ==
    IF Guarded(o, "PARSE_DISPATCH_STARTED", sv)
    THEN /\ ops' = Step(o, "PENDING_RECONCILIATION")
         /\ outbox' = outbox \cup {<<"INGESTION_RECONCILIATION_REQUIRED", o>>}
    ELSE UNCHANGED <<ops, outbox>>

RunLost(a) ==
    /\ act[a].pc = "lost"
    /\ MarkPending(act[a].op, act[a].sv)
    /\ Release(a)
    /\ UNCHANGED <<docs, vers, intakes, artifacts, requests, executed>>

\* mark_quarantined: the operation and its version, or neither.
MarkQuarantined(o, sv) ==
    LET v == IntakeOf(o).ver IN
    IF Guarded(o, "PARSE_DISPATCH_STARTED", sv) /\ vers[v].state = "REGISTERED"
    THEN /\ ops' = Step(o, "QUARANTINED")
         /\ vers' = [vers EXCEPT ![v].state = "QUARANTINED", ![v].sv = @ + 1]
         /\ outbox' = outbox \cup {<<"INGESTION_QUARANTINED", o>>}
    ELSE UNCHANGED <<ops, vers, outbox>>

RunRejected(a) ==
    /\ act[a].pc = "reject"
    /\ MarkQuarantined(act[a].op, act[a].sv)
    /\ Release(a)
    /\ UNCHANGED <<docs, intakes, artifacts, requests, executed>>

\* The activation guard takes the head and the version as they are now; only the operation
\* is expected as the claim (or the recovery) left it.
ActivationGuard(w) ==
    LET i == IntakeOf(w.op) IN
    [pc |-> "commit", op |-> w.op, attempt |-> w.attempt, sv |-> w.sv, expect |-> w.expect,
     head |-> docs[i.doc], ver |-> vers[i.ver]]

ReadGuard(a) ==
    /\ act[a].pc = "read"
    /\ act' = [act EXCEPT ![a] = ActivationGuard(@)]
    /\ UNCHANGED <<store, requests, executed>>

-----------------------------------------------------------------------------
\* _bindings_match: the proposal belongs to the operation's current attempt.
BindingsMatch(w) == ops[w.op].attempt = w.attempt

AlreadyCommitted(w, i) ==
    /\ docs[i.doc].state = "ACTIVE" /\ docs[i.doc].active = i.ver
    /\ vers[i.ver].state = "ACTIVE" /\ ops[w.op].state = "COMPLETED"

\* Mutant: the operation is not part of the guard.
GuardForgetsOperation(w, i) == docs[i.doc] = w.head /\ vers[i.ver] = w.ver

\* _document_guard_matches, _version_guard_matches, _operation_guard_matches.
GuardMatches(w, i) ==
    /\ docs[i.doc] = w.head
    /\ vers[i.ver] = w.ver
    /\ Guarded(w.op, w.expect, w.sv)

\* Mutant: the replaced version stays active.
KeepsPreviousActive(i) == vers

\* The version the head points at is superseded by the same transaction.
SupersedePrevious(i) == [v \in Versions |->
    IF v = docs[i.doc].active /\ v # i.ver
    THEN [vers[v] EXCEPT !.state = "SUPERSEDED", !.sv = @ + 1] ELSE vers[v]]

\* IngestionCommitter.commit: one transaction over artifact, versions, head, operation and
\* event, or nothing.  An active pointer that names no active version is a binding conflict.
CommitActivation(w) ==
    LET i == IntakeOf(w.op)
        artifact == [op |-> w.op, attempt |-> w.attempt]
        previous == docs[i.doc].active
    IN  IF /\ BindingsMatch(w) /\ ~AlreadyCommitted(w, i) /\ GuardMatches(w, i)
           /\ ~ \E x \in artifacts : x.op = w.op /\ x # artifact
           /\ previous \in {None, i.ver} \/ vers[previous].state = "ACTIVE"
        THEN /\ artifacts' = artifacts \cup {artifact}
             /\ vers' = [SupersedePrevious(i) EXCEPT
                            ![i.ver] = [state |-> "ACTIVE", artifact |-> artifact, sv |-> @.sv + 1]]
             /\ docs' = [docs EXCEPT ![i.doc] = [state |-> "ACTIVE", active |-> i.ver, sv |-> @.sv + 1]]
             /\ ops' = Step(w.op, "COMPLETED")
             /\ outbox' = outbox \cup {<<"DOCUMENT_VERSION_ACTIVATED", w.op>>}
        ELSE UNCHANGED <<artifacts, vers, docs, ops, outbox>>

Commit(a) ==
    /\ act[a].pc = "commit"
    /\ CommitActivation(act[a])
    /\ Release(a)
    /\ UNCHANGED <<intakes, requests, executed>>

-----------------------------------------------------------------------------
\* IngestionRecoveryCoordinator.recover: read the operation; only a dispatched operation is
\* first marked pending, a stale mark goes on with the record the store returned.
RecoverRead(a, o) ==
    /\ act[a] = Idle /\ ops[o] # None
    /\ ops[o].attempt # None
    /\ ops[o].state \in {"PARSE_DISPATCH_STARTED", "PENDING_RECONCILIATION"}
    /\ act' = [act EXCEPT ![a] =
                  [pc |-> IF ops[o].state = "PARSE_DISPATCH_STARTED" THEN "mark" ELSE "query", op |-> o,
                   attempt |-> ops[o].attempt, sv |-> ops[o].sv, expect |-> "PENDING_RECONCILIATION"]]
    /\ UNCHANGED <<store, requests, executed>>

RecoverMark(a) ==
    LET o == act[a].op IN
    /\ act[a].pc = "mark"
    /\ MarkPending(o, act[a].sv)
    /\ act' = [act EXCEPT ![a].pc = "query", ![a].sv = ops'[o].sv, ![a].attempt = ops'[o].attempt]
    /\ UNCHANGED <<docs, vers, intakes, artifacts, requests, executed>>

\* External: the registry knows what ran; it denies an execution only while there was none,
\* and may always know nothing.
Evidence(o, attempt) ==
    {"NOT_FOUND", "UNKNOWN"} \cup
    {s \in {"SUCCEEDED", "FAILED"} : <<o, attempt, s>> \in executed} \cup
    (IF \E s \in {"SUCCEEDED", "FAILED"} : <<o, attempt, s>> \in executed THEN {} ELSE {"NOT_EXECUTED"})

\* Evidence that does not bind the attempt, says nothing, or carries a defective candidate
\* changes nothing: the operation stays pending for a further query or an operator.
RecoverQuery(a) ==
    /\ act[a].pc = "query"
    /\ \E s \in Evidence(act[a].op, act[a].attempt), binds \in BOOLEAN :
          act' = [act EXCEPT ![a] =
              CASE ~binds \/ s \in {"NOT_FOUND", "UNKNOWN"} -> Idle
                [] binds /\ s = "FAILED" -> [@ EXCEPT !.pc = "FAILED"]
                [] binds /\ s = "NOT_EXECUTED" -> [@ EXCEPT !.pc = "PROVEN_NOT_EXECUTED"]
                [] binds /\ s = "SUCCEEDED" -> [@ EXCEPT !.pc = "read"]]
    /\ UNCHANGED <<store, requests, executed>>

\* commit_authoritative_reconciliation.
CommitReconciliation(o, target, sv) ==
    IF Guarded(o, "PENDING_RECONCILIATION", sv)
    THEN /\ ops' = Step(o, target)
         /\ outbox' = outbox \cup {<<"INGESTION_" \o target, o>>}
    ELSE UNCHANGED <<ops, outbox>>

RecoverResolve(a) ==
    LET w == act[a] IN
    /\ w.pc \in {"FAILED", "PROVEN_NOT_EXECUTED"}
    /\ CommitReconciliation(w.op, w.pc, w.sv)
    /\ Release(a)
    /\ UNCHANGED <<docs, vers, intakes, artifacts, requests, executed>>

\* prepare_proven_not_executed_retry: the operation is ready again and keeps its last attempt.
ReadyForRetry(o) ==
    /\ ops' = Step(o, "READY_FOR_DISPATCH")
    /\ outbox' = outbox \cup {<<"INGESTION_RETRY_READY", o>>}

\* IngestionRetryCoordinator.prepare: a fresh request id
\* and the next number, and the state the new attempt has to find.  The read and the guarded
\* write are one step: a change in between is refused.
PrepareRetry(o, r) ==
    /\ ops[o] # None /\ ops[o].state = "PROVEN_NOT_EXECUTED"
    /\ ops[o].attempt.number < MaxAttempts /\ r # ops[o].attempt.request
    /\ Cardinality(requests) < MaxRequests
    /\ ReadyForRetry(o)
    /\ requests' = requests \cup
          {[op |-> o, attempt |-> [number |-> ops[o].attempt.number + 1, request |-> r], sv |-> ops'[o].sv]}
    /\ UNCHANGED <<docs, vers, intakes, artifacts, executed, act>>

\* tombstone_document, with the guard read just before it.
TombstoneDocument(d) ==
    /\ docs[d] # None /\ docs[d].state # "TOMBSTONED"
    /\ docs[d].active # None => vers[docs[d].active].state = "ACTIVE"
    /\ docs' = [docs EXCEPT ![d] = [state |-> "TOMBSTONED", active |-> None, sv |-> @.sv + 1]]
    /\ vers' = [v \in Versions |-> IF v = docs[d].active
                                   THEN [vers[v] EXCEPT !.state = "TOMBSTONED", !.sv = @ + 1] ELSE vers[v]]
    /\ outbox' = outbox \cup {<<"DOCUMENT_TOMBSTONED", d>>}
    /\ UNCHANGED <<ops, intakes, artifacts, requests, executed, act>>

\* The process of an actor ends; the store keeps what was committed.
Crash(a) == act[a] # Idle /\ Release(a) /\ UNCHANGED <<store, requests, executed>>

ActorNext(a) ==
    \/ \E r \in requests : Run(a, r)
    \/ Parse(a) \/ RunLost(a) \/ RunRejected(a) \/ ReadGuard(a) \/ Commit(a)
    \/ \E o \in Operations : RecoverRead(a, o)
    \/ RecoverMark(a) \/ RecoverQuery(a) \/ RecoverResolve(a) \/ Crash(a)

Next ==
    \/ \E i \in Intakes : Intake(i)
    \/ \E a \in Actors : ActorNext(a)
    \/ \E o \in Operations, r \in RequestIds : PrepareRetry(o, r)
    \/ \E d \in Documents : TombstoneDocument(d)

Spec == Init /\ [][Next]_vars

-----------------------------------------------------------------------------
\* evaluate_day96_chunking_eligibility: what the chunking stage takes for current.
Eligible(o) ==
    /\ ops[o] # None
    /\ LET i == IntakeOf(o) IN
       /\ docs[i.doc].state = "ACTIVE" /\ docs[i.doc].active = i.ver
       /\ vers[i.ver].state = "ACTIVE" /\ vers[i.ver].artifact # None
       /\ ops[o].state = "COMPLETED"

\* Every stored record satisfies the contract its constructor checks: no sequence of commits
\* builds a head, a version or an operation that the code would refuse to construct.
TypeOK ==
    /\ \A d \in Documents : docs[d] \in DocumentHeadSnapshot \cup {None}
    /\ \A v \in Versions : vers[v] \in DocumentVersionLifecycleRecord \cup {None}
    /\ \A o \in Operations : ops[o] \in IngestionOperationRecord \cup {None}
    /\ intakes \subseteq Intakes /\ artifacts \subseteq [op : Operations, attempt : ParserAttemptIdentity]

\* The head and the versions agree: an active head points at the one active version of its
\* document, that version is eligible for chunking under its own operation with the artifact of
\* the attempt that completed it, and no other version is active.  An operation and its version
\* agree too: completed exactly when the version was published, quarantined exactly when the
\* version is.
HeadNamesTheActiveVersion ==
    /\ \A v \in Versions : vers[v] # None /\ vers[v].state = "ACTIVE" => docs[DocumentOf[v]].active = v
    /\ \A d \in Documents : docs[d] # None /\ docs[d].active # None =>
          \E o \in Operations : /\ Eligible(o) /\ IntakeOf(o).ver = docs[d].active
                                /\ vers[docs[d].active].artifact = [op |-> o, attempt |-> ops[o].attempt]
    /\ \A o \in Operations : ops[o] # None =>
          LET v == vers[IntakeOf(o).ver] IN
          /\ ops[o].state = "COMPLETED" <=> v.artifact # None
          /\ ops[o].state = "QUARANTINED" <=> v.state = "QUARANTINED"

\* An attempt that recovery proved not executed, or that was replaced by a later one, never
\* publishes, even if its parser was only slow: an operation is completed by its last attempt,
\* and never leaves COMPLETED, FAILED or QUARANTINED.
SettledStaysSettled ==
    [][\A o \in Operations : ops[o] # None =>
        /\ ops[o].state \in {"COMPLETED", "FAILED", "QUARANTINED"} => ops'[o] = ops[o]
        /\ ops'[o].state = "COMPLETED" /\ ops[o] # ops'[o] =>
              ops[o].state \in {"PARSE_DISPATCH_STARTED", "PENDING_RECONCILIATION"}]_vars

\* A document whose withdrawal was announced stays withdrawn: the code has no restore, and
\* intake refuses the document until an explicit policy restores it (register_intake).  The
\* commit of a version accepted before the withdrawal breaks it.
WithdrawalStands ==
    \A d \in Documents : <<"DOCUMENT_TOMBSTONED", d>> \in outbox => docs[d].state = "TOMBSTONED"

\* The heads as the later stages see them.
Document == INSTANCE RagDocument WITH
    head <- [d \in Documents |-> IF docs[d] = None THEN [state |-> "ABSENT", active |-> None, rev |-> 0]
                                 ELSE [state |-> docs[d].state, active |-> docs[d].active, rev |-> docs[d].sv]],
    published <- {v \in Versions : vers[v] # None /\ vers[v].artifact # None}

\* Ingestion implements RagDocument: heads change only by registration, by the activation of a
\* version never published before, and by a tombstone.  RagDocument calls the activation in a
\* tombstoned document Reactivate; that it happens at all is what WithdrawalStands is about.
ImplementsDocument == Document!DocumentSpec

==============================================================================
