----------------------------- MODULE RagRetrieval -----------------------------
(***************************************************************************)
(* Authorized hybrid retrieval (day100) for one tenant and principal.      *)
(* retrieve reads the selected bundle once, the authorization scope, the   *)
(* cache, then searches a lexical and a dense branch page by page, fuses   *)
(* the ranks, and releases what a second authorization read still allows.  *)
(* Each read of what others may change is a step of its own.  A scope is   *)
(* [allowed, rev]; a record's identity never changes, its provenance in a  *)
(* store does.  `call` is the retrieval in progress.  The parameter        *)
(* system_excluded_occurrence_ids, which no caller passes, is left out.    *)
(***************************************************************************)
EXTENDS Integers, Sequences, SequencesExt, FiniteSets, FiniteSetsExt, FirstMatch

CONSTANTS Nothing,
          Records,               \* RetrievalRecord: [occurrence -> [tenant, chunkSet, meta, size]]
          Queries,               \* [query -> [lexical, dense : [occurrence -> score], sensitive]]
          Bundles,               \* SelectedRetrievalBundle and its policies, by revision
          FilterNodes,           \* FilterExpression, closed under children
          FilterRules,           \* FilterSchema, capabilities and the planner's switches
          AdapterEncoder,        \* the encoder contract of the query encoder adapter
          ClassroomMode,
          CursorTtl, RetrievalCacheTtl,
          MaxFaults              \* bound on failures of providers and of the authorization read

Occurrences == DOMAIN Records
Tenant == "own"

\* FilterExpression: EQ and IN carry a field and its values, the others children.
WellFormedFilter(f) ==
    IF f.op \in {"EQ", "IN"} THEN f.values # {} /\ f.children = <<>>
    ELSE /\ f.values = {} /\ \A i \in DOMAIN f.children : f.children[i] \in FilterNodes
         /\ IF f.op = "NOT" THEN Len(f.children) = 1 ELSE Len(f.children) >= 2
\* FilterSchema, ProviderFilterCapabilities.
WellFormedRules(r) == r.maxDepth > 0 /\ r.maxNodes > 0 /\ r.supported # {}
\* FusionPolicy and HybridRetrievalPolicy.
WellFormedPolicy(b) == /\ b.rrfK > 0 /\ b.depth > 0 /\ b.lexicalWeight > 0 /\ b.denseWeight > 0
                       /\ b.maxTopK > 0 /\ b.rounds > 0 /\ b.budget > 0 /\ b.deadlineMs > 0
\* CandidateIdentity and RetrievalRecord: whole identities, text and metadata.
WellFormedRecord(r) == r.tenant # Nothing /\ r.chunkSet # Nothing /\ r.size > 0
\* RetrievalRequest.
WellFormedRequest(r) == r.query \in DOMAIN Queries /\ r.topK > 0 /\ r.filter \in FilterNodes \cup {Nothing}
\* SelectedRetrievalBundle.
WellFormedBundle(b) == WellFormedPolicy(b) /\ ~(b.classroom /\ b.eligible)
ASSUME RetrievalAssumption == /\ \A f \in FilterNodes : WellFormedFilter(f)
                              /\ WellFormedRules(FilterRules)
                              /\ \A o \in DOMAIN Records : WellFormedRecord(Records[o])
                              /\ \A b \in DOMAIN Bundles : WellFormedBundle(Bundles[b])

VARIABLES scope,                 \* InMemoryRetrievalAuthorization: [allowed, rev]
          provenance,            \* [store -> occurrences whose provenance is the record's]
          selected,              \* InMemoryRetrievalBundleAuthority: a revision, 0 for none
          _clock, _cache, cursors, call,
          faults                 \* failures so far, for the bound

retrievalStores == <<_cache, cursors>>
NoCall == [pc |-> "idle"]
\* RetrievalAuthorizationScope.
Scope(allowed, rev) == [allowed |-> allowed, rev |-> rev]

RetrievalInit ==
    /\ scope = Scope(Occurrences, 1)
    /\ provenance = [s \in {"retrieval", "reranking", "grounding"} |-> Occurrences]
    /\ selected = 1 /\ _clock = 0 /\ _cache = {} /\ cursors = {} /\ call = NoCall /\ faults = 0

-----------------------------------------------------------------------------
\* Filters.  matches_filter: metadata.get, and the logical connectives.
Metadata(o, field) == IF field \in DOMAIN Records[o].meta THEN Records[o].meta[field] ELSE Nothing
MatchesFilter[f \in FilterNodes] ==                    \* the occurrences f admits
    LET child(i) == MatchesFilter[f.children[i]]
    IN  CASE f.op \in {"EQ", "IN"} -> {o \in Occurrences : Metadata(o, f.field) \in f.values}
          [] f.op = "AND" -> {o \in Occurrences : \A i \in DOMAIN f.children : o \in child(i)}
          [] f.op = "OR" -> UNION {child(i) : i \in DOMAIN f.children}
          [] f.op = "NOT" -> Occurrences \ child(1)
Matching(f) == IF f = Nothing THEN Occurrences ELSE MatchesFilter[f]

\* _operators, and what _validate's walk meets: the leaves, the depth and the count.
Operators[f \in FilterNodes] == {f.op} \cup UNION {Operators[f.children[i]] : i \in DOMAIN f.children}
Leaves[f \in FilterNodes] ==
    IF f.children = <<>> THEN {f} ELSE UNION {Leaves[f.children[i]] : i \in DOMAIN f.children}
Depth[f \in FilterNodes] == 1 + Max({0} \cup {Depth[f.children[i]] : i \in DOMAIN f.children})
Count[f \in FilterNodes] == 1 + FoldLeft(LAMBDA n, c : n + Count[c], 0, f.children)
ValidFilter(f) ==
    /\ Depth[f] <= FilterRules.maxDepth /\ Count[f] <= FilterRules.maxNodes
    /\ \A l \in Leaves[f] : /\ l.field \in DOMAIN FilterRules.fields
                            /\ l.values \subseteq FilterRules.fields[l.field]

\* FilterPlanner.plan: DIRECT, SPLIT_OR, the authorization prefilter with an application
\* post-filter, or Nothing for UnsupportedFilter.  The plan is bound to the scope.
Supports(f) == Operators[f] \subseteq FilterRules.supported
Plan(filter, sc) ==
    LET plan(queries, post) == [queries |-> queries, post |-> post, filter |-> filter, scope |-> sc]
    IN  IF filter = Nothing THEN plan(<<Nothing>>, Nothing)
        ELSE FirstMatch(<<
            <<~ValidFilter(filter), Nothing>>,
            <<Supports(filter), plan(<<filter>>, Nothing)>>,
            <<FilterRules.splitOr /\ filter.op = "OR"
                /\ \A i \in DOMAIN filter.children : Supports(filter.children[i]),
              plan(filter.children, Nothing)>>,
            <<FilterRules.postFilter, plan(<<Nothing>>, filter)>>,
            <<TRUE, Nothing>> >>)

-----------------------------------------------------------------------------
\* Branches.  authorized_and_business_match, and the order of a query's scores in a branch.
AuthorizedMatch(sc, filter) ==
    {o \in sc.allowed \cap Matching(filter) : Records[o].tenant = Tenant}
BranchOrder ==
    LET order(scores) == SetToSortSeq(Occurrences, LAMBDA o, p : \/ scores[o] > scores[p]
                                                                 \/ scores[o] = scores[p] /\ o < p)
    IN  [q \in DOMAIN Queries |-> [LEXICAL |-> order(Queries[q].lexical), DENSE |-> order(Queries[q].dense)]]
Ranked(q, branch, os) == SelectSeq(BranchOrder[q][branch], LAMBDA o : o \in os)

\* A page of a branch: LexicalRetrievalAdapter.search knows only positive scores; a leaking
\* ExactDenseRetrievalAdapter adds the best record outside the scope or the filter.
BranchCandidate(branch, o) == [branch |-> branch, occ |-> o]
Page(q, branch, os, offset, depth) ==
    LET ranked == Ranked(q, branch, os)
        slice == SubSeq(ranked, offset + 1, Min({offset + depth, Len(ranked)}))
    IN  [i \in DOMAIN slice |-> BranchCandidate(branch, slice[i])]
LexicalSearch(q, sc, filter, offset, depth) ==
    Page(q, "LEXICAL", {o \in AuthorizedMatch(sc, filter) : Queries[q].lexical[o] > 0}, offset, depth)
DenseSearch(q, sc, filter, offset, depth, leak) ==
    LET own == AuthorizedMatch(sc, filter)
        other == Occurrences \ own
        leaked == IF leak /\ other # {} THEN {Ranked(q, "DENSE", other)[1]} ELSE {}
    IN  Page(q, "DENSE", own \cup leaked, offset, depth)

\* _normalize_branch_ranks: every occurrence seen in a branch, ranked by its score.
BranchRanks(q, candidates, branch) ==
    LET ranked == Ranked(q, branch, {c.occ : c \in {d \in candidates : d.branch = branch}})
    IN  [o \in ToSet(ranked) |-> CHOOSE i \in DOMAIN ranked : ranked[i] = o]

\* RetrievalCandidateValidator.validate; candidates always carry the bundle's own generations.
ValidCandidate(o, bundle, sc) ==
    Records[o].tenant = Tenant /\ Records[o].chunkSet = bundle.chunkSet /\ o \in sc.allowed

\* Reciprocal rank fusion of lists of ranks, [occurrence -> rank], with a weight each: by score,
\* best rank, id.  Scores are in units of 1 / ((k + 1) ... (k + n)).
RankUnit(k) == ProductSet({k + r : r \in 1..Cardinality(Occurrences)})
FusedCandidate(o, score, best) == [occ |-> o, score |-> score, best |-> best]
RankFusion(lists, weight, k) ==
    LET unit == RankUnit(k)
        in(o) == {b \in DOMAIN lists : o \in DOMAIN lists[b]}
        score(o) == MapThenSumSet(LAMBDA b : weight[b] * (unit \div (k + lists[b][o])), in(o))
        scored == {FusedCandidate(o, score(o), Min({lists[b][o] : b \in in(o)})) :
                    o \in UNION {DOMAIN lists[b] : b \in DOMAIN lists}}
        before(x, y) == \/ x.score > y.score
                        \/ x.score = y.score /\ (x.best < y.best \/ (x.best = y.best /\ x.occ < y.occ))
        order == SetToSortSeq(scored, before)
    IN  [i \in DOMAIN order |-> order[i].occ]

\* What a round makes of everything seen so far: ranks, validation, post-filter, fusion.
\* Dropped candidates leave gaps in the ranks.
Fused(c) ==
    LET bundle == Bundles[c.bundle]
        kept(branch) == LET rank == BranchRanks(c.req.query, c.seen, branch)
                        IN  [o \in {p \in DOMAIN rank \cap Matching(c.plan.post) :
                                    ValidCandidate(p, bundle, c.scope)} |-> rank[o]]
    IN  RankFusion(<<kept("LEXICAL"), kept("DENSE")>>, <<bundle.lexicalWeight, bundle.denseWeight>>,
                   bundle.rrfK)

\* Mutant of Released: the first page of what was fused, without the second authorization read.
ReleasedAsFused(fused, limit) == SubSeq(fused, 1, Min({limit, Len(fused)}))
\* GuardedRetrievalReleaser.release, against the scope read now.
Released(fused, limit) ==
    LET ok == SelectSeq(fused, LAMBDA o : o \in scope.allowed /\ o \in provenance["retrieval"])
    IN  SubSeq(ok, 1, Min({limit, Len(ok)}))

-----------------------------------------------------------------------------
\* retrieve.  RetrievalResponse and _finish: what the reply says; whole is set by Conclude.
Reply(c, outcome, hits) ==
    [pc |-> "done", by |-> c.by, req |-> c.req, outcome |-> outcome, hits |-> hits,
     bundle |-> c.bundle, whole |-> FALSE]
Fail(outcome) == call' = Reply(call, outcome, <<>>)
RetrievalFailed == {"REJECTED", "AUTHORIZATION_DENIED", "UNAVAILABLE"}

\* _validate_request.
RequestFits(req, b) ==
    /\ req.action /\ req.topK <= b.maxTopK
    /\ req.encoder \in {Nothing, b.encoder}
    /\ b.classroom => ClassroomMode
    /\ b.eligible \/ b.classroom

\* The call begins: the selected bundle is read, once.  by is the caller; a variant's call has no cursor.
Retrieve(by, req, cursor) ==
    LET c == [pc |-> "scope", by |-> by, req |-> req, cursor |-> cursor, bundle |-> selected]
    IN  call' = IF selected # 0 /\ ~req.override /\ RequestFits(req, Bundles[selected]) THEN c
                ELSE Reply(c, "REJECTED", <<>>)

\* validate_current; decode refuses a token this codec did not sign.
CursorHolds(cursor, c, plan) ==
    /\ cursor.signed
    /\ cursor.expires > _clock
    /\ cursor.bundle = c.bundle /\ cursor.scope = plan.scope
    /\ cursor.query = c.req.query /\ cursor.plan = plan

\* _cache_key: the query, bundle and plan, with the scope in it; not top_k.
_cache_key(c, plan) == [query |-> c.req.query, bundle |-> c.bundle, plan |-> plan]
CacheHits(key) == {e \in _cache : e.key = key /\ e.expires > _clock}

\* The scope is read; filter plan, cursor and cache follow without another read.
ReadScope ==
    /\ call.pc = "scope"
    /\ LET plan == Plan(call.req.filter, scope)
           paged == call.cursor # Nothing
           cached == ~paged /\ CacheHits(_cache_key(call, plan)) # {}
       IN  call' = IF scope.allowed = {} THEN Reply(call, "AUTHORIZATION_DENIED", <<>>)
                   ELSE IF plan = Nothing THEN Reply(call, "REJECTED", <<>>)
                   ELSE IF paged /\ ~CursorHolds(call.cursor, call, plan) THEN Reply(call, "REJECTED", <<>>)
                   ELSE [plan |-> plan, scope |-> scope, key |-> _cache_key(call, plan),
                         offsets |-> IF paged THEN call.cursor.offsets ELSE <<0, 0>>,
                         pc |-> IF cached THEN "cached" ELSE "encode"] @@ call
    /\ UNCHANGED faults

CacheRelease ==
    /\ call.pc = "cached"
    /\ LET e == CHOOSE e \in _cache : e.key = call.key
           hits == Released(e.fused, call.req.topK)
       IN  call' = Reply(call, IF hits = <<>> THEN "EMPTY" ELSE "FULL", hits)
    /\ UNCHANGED faults

\* The authorization read raises: before the search, for a cached release (which then searches
\* afresh), or for the release of a round.
AuthorizationUnavailable ==
    /\ faults < MaxFaults /\ faults' = faults + 1
    /\ \/ call.pc \in {"scope", "release"} /\ Fail("UNAVAILABLE")
       \/ call.pc = "cached" /\ call' = [call EXCEPT !.pc = "encode"]

\* QueryEncoderAdapter.encode: refused before the provider is called (contract, egress), or failed
\* by it; either way the search goes on without the dense branch where the policy allows it.
EncoderRefuses(c) == Bundles[c.bundle].encoder # AdapterEncoder \/ Queries[c.req.query].sensitive
Encode ==
    /\ call.pc = "encode"
    /\ \E failed, leak \in BOOLEAN :
       LET refused == EncoderRefuses(call)
           none == refused \/ failed
           cost == (IF failed THEN 1 ELSE 0) + (IF leak THEN 1 ELSE 0)
           search == [pc |-> "round", encoded |-> ~none, leak |-> leak, degraded |-> none,
                      missing |-> IF none THEN {"DENSE"} ELSE {}, completed |-> {}, seen |-> {},
                      examined |-> 0, rounds |-> 0, started |-> _clock, hits |-> <<>>, fused |-> <<>>]
       IN  /\ faults' = faults + cost /\ faults' \in 0 .. MaxFaults
           /\ refused => ~failed
           /\ none => ~leak
           /\ IF none /\ ~Bundles[call.bundle].lexicalOnly
              THEN Fail(IF refused THEN "REJECTED" ELSE "UNAVAILABLE")
              ELSE call' = search @@ call

\* The end of the search: the classification (whole: an exhausted search under one scope), a cursor
\* for the next page, and FULL results cached under the key of the first scope read.
Conclude(c, exhausted) ==
    LET short == Len(c.hits) < c.req.topK /\ ~exhausted
        outcome == FirstMatch(<<
            <<c.completed = {}, "UNAVAILABLE">>,
            <<c.missing # {} \/ c.degraded \/ short, "PARTIAL">>,
            <<c.hits # <<>>, "FULL">>, <<TRUE, "EMPTY">> >>)
        cursor == [scope |-> c.scope, bundle |-> c.bundle, query |-> c.req.query, plan |-> c.plan,
                   offsets |-> c.offsets, expires |-> _clock + CursorTtl, signed |-> TRUE]
        entry == [key |-> c.key, fused |-> c.fused, expires |-> _clock + RetrievalCacheTtl]
        whole == /\ outcome \in {"FULL", "EMPTY"} /\ Len(c.hits) < c.req.topK
                 /\ c.cursor = Nothing /\ c.scope = c.plan.scope
    IN  /\ call' = [Reply(c, outcome, IF c.completed = {} THEN <<>> ELSE c.hits)
                        EXCEPT !.whole = whole]
        /\ cursors' = IF outcome = "UNAVAILABLE" THEN cursors ELSE cursors \cup {cursor}
        /\ _cache' = IF outcome = "FULL" THEN {e \in _cache : e.key # c.key} \cup {entry} ELSE _cache

\* One query of the plan: its lexical page, then its dense page while the query is encoded.
SearchQuery(r, i, lexicalFails, denseFails) ==
    LET c == r.call
        b == Bundles[c.bundle]
        lexical == LexicalSearch(c.req.query, c.scope, c.plan.queries[i], c.offsets[1], b.depth)
        dense == DenseSearch(c.req.query, c.scope, c.plan.queries[i], c.offsets[2], b.depth, c.leak)
        afterLexical ==
            IF i \in lexicalFails
            THEN [r EXCEPT !.call.missing = @ \cup {"LEXICAL"}, !.call.degraded = TRUE,
                           !.fatal = @ \/ ~b.denseOnly]
            ELSE [r EXCEPT !.found = @ \o lexical, !.call.completed = @ \cup {"LEXICAL"},
                           !.lexical = Append(@, Len(lexical))]
    IN  IF ~c.encoded THEN afterLexical
        ELSE IF i \in denseFails
        THEN [afterLexical EXCEPT !.call.missing = @ \cup {"DENSE"}, !.call.degraded = TRUE,
                                  !.call.encoded = FALSE, !.fatal = @ \/ ~b.lexicalOnly]
        ELSE [afterLexical EXCEPT !.found = @ \o dense, !.call.completed = @ \cup {"DENSE"},
                                  !.dense = Append(@, Len(dense))]

OutOfTime(c) == 1000 * (_clock - c.started) >= Bundles[c.bundle].deadlineMs
OutOfBudget(c) == c.examined >= Bundles[c.bundle].budget
\* Mutant of Advance: the next page starts one past where the last one ended.
AdvancePastOne(offsets, depth, encoded) ==
    <<offsets[1] + depth + 1, offsets[2] + IF encoded THEN depth + 1 ELSE 0>>
Advance(offsets, depth, encoded) == <<offsets[1] + depth, offsets[2] + IF encoded THEN depth ELSE 0>>

\* One refill round up to its release: both branches searched for every query of the plan, the
\* offsets advanced, and what was found cut to the candidate budget.
Round ==
    /\ call.pc = "round"
    /\ ~OutOfTime(call) /\ ~OutOfBudget(call)
    /\ \E lexicalFails, denseFails \in SUBSET DOMAIN call.plan.queries :
       LET cost == Cardinality(lexicalFails) + Cardinality(denseFails)
           b == Bundles[call.bundle]
           r == FoldLeft(LAMBDA acc, i : SearchQuery(acc, i, lexicalFails, denseFails),
                         [call |-> call, found |-> <<>>, lexical |-> <<>>, dense |-> <<>>, fatal |-> FALSE],
                         [i \in DOMAIN call.plan.queries |-> i])
           left == b.budget - call.examined
           cut == Len(r.found) > left
           found == IF cut THEN SubSeq(r.found, 1, left) ELSE r.found
           drained(counts) == counts # <<>> /\ \A i \in DOMAIN counts : counts[i] < b.depth
       IN  /\ faults' = faults + cost /\ faults' \in 0 .. MaxFaults
           /\ denseFails # {} => call.encoded
           /\ IF r.fatal THEN Fail("UNAVAILABLE")
              ELSE call' = [cut |-> cut,
                            drained |-> drained(r.lexical) /\ (~r.call.encoded \/ drained(r.dense))]
                           @@ [r.call EXCEPT !.pc = "release", !.rounds = @ + 1,
                                  !.offsets = Advance(@, b.depth, r.call.encoded),
                                  !.degraded = @ \/ cut,
                                  !.examined = @ + Len(found), !.seen = @ \cup ToSet(found)]
    /\ UNCHANGED retrievalStores

\* The release of a round, and whether another one follows.
Release ==
    /\ call.pc = "release"
    /\ LET fused == Fused(call)
           c == [call EXCEPT !.fused = fused, !.hits = Released(fused, call.req.topK), !.scope = scope]
           enough == Len(c.hits) >= c.req.topK
       IN  IF enough \/ c.cut \/ c.drained THEN Conclude(c, ~enough /\ ~c.cut)
           ELSE IF c.rounds = Bundles[c.bundle].rounds THEN Conclude([c EXCEPT !.degraded = TRUE], FALSE)
           ELSE call' = [c EXCEPT !.pc = "round"] /\ UNCHANGED retrievalStores
    /\ UNCHANGED faults

\* The loop is left before a round, by the deadline or the candidate budget.
GiveUp ==
    /\ call.pc = "round" /\ (OutOfTime(call) \/ OutOfBudget(call))
    /\ Conclude([call EXCEPT !.degraded = TRUE], FALSE)
    /\ UNCHANGED faults

RetrievalStep ==
    /\ \/ (ReadScope \/ CacheRelease \/ AuthorizationUnavailable \/ Encode) /\ UNCHANGED retrievalStores
       \/ Round \/ Release \/ GiveUp
    /\ UNCHANGED <<scope, provenance, selected, _clock>>

-----------------------------------------------------------------------------
\* revoke_occurrence, change_provenance, select (whose revision must advance) and time.
RevokeOccurrence(o) ==
    /\ o \in scope.allowed
    /\ scope' = Scope(scope.allowed \ {o}, scope.rev + 1)
    /\ UNCHANGED <<provenance, selected, _clock>>
ChangeProvenance(store, o) ==
    /\ o \in provenance[store]
    /\ provenance' = [provenance EXCEPT ![store] = @ \ {o}]
    /\ UNCHANGED <<scope, selected, _clock>>
SelectBundle(b) ==
    /\ b > selected
    /\ selected' = b
    /\ UNCHANGED <<scope, provenance, _clock>>
Tick == _clock' = _clock + 1 /\ UNCHANGED <<scope, provenance, selected>>
=============================================================================
