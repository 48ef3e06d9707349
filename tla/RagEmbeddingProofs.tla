-------------------------- MODULE RagEmbeddingProofs --------------------------
(***************************************************************************)
(* Proofs about RagAuthorization and RagEmbedding, for any number of       *)
(* workers, any policies, requests, contracts and provider modes.          *)
(***************************************************************************)
EXTENDS RagEmbedding, TLAPS

Membership == [active : BOOLEAN, rev : Nat]
Policy == [epoch : Nat, entries : SUBSET UNION Policies]
RevisionVector == [membership : Nat, policy : Nat]

\* The facts of the moment; a binding that is current has the newest revision.
FactsInv == /\ membership \in Membership /\ policy \in Policy /\ clock \in Nat /\ revision \in Nat
            /\ binding # None => binding.rev = revision

\* What was current when it was read, and is again only if nothing has changed since.
PastBinding(b) == b # None /\ b.rev \in Nat /\ b.rev <= revision /\ (b.rev = revision => b = binding)
PastMembership(m) == m \in Membership /\ m.rev <= membership.rev /\ (m.rev = membership.rev => m = membership)
PastPolicy(p) == p \in Policy /\ p.epoch <= policy.epoch /\ (p.epoch = policy.epoch => p = policy)

\* The policy grants the request, but for the expiry of the principal.
Grants(r, m, p) == Evaluate(r, m, p, 0) = "ALLOW"

\* Some membership and policy of these revisions granted the request.
Justified(r, revisions) ==
    /\ revisions \in RevisionVector
    /\ \E m \in [active : BOOLEAN, rev : {revisions.membership}],
          p \in [epoch : {revisions.policy}, entries : SUBSET UNION Policies] :
            Grants(r, m, p) /\ PastMembership(m) /\ PastPolicy(p)

\* Allowing decisions that are cached, and permits, are justified by facts of their revisions.
CacheInv == \A x \in cache : x.decision = "ALLOW" => Justified(x.key.request, x.key.revisions)
PermitInv == \A p \in permits : /\ p.request \in Requests /\ PastBinding(p.binding)
                                /\ Justified(p.request, p.revisions)

\* Facts m and p, read together when a call began, against the revisions of its permit.
Compared(r, revisions, m, p) ==
    /\ revisions \in RevisionVector /\ m \in Membership /\ p \in Policy
    /\ revisions.membership <= m.rev /\ m.rev <= membership.rev
    /\ revisions.policy <= p.epoch /\ p.epoch <= policy.epoch
    /\ revisions = Revisions(m, p) => Grants(r, m, p)

\* Where a worker stands says what it has read and relies on.
Loading == {"load_membership", "load_policy"}
Reading == {"read_membership", "read_policy", "consume"}
Persisting == {"persist_policy", "persist_provenance", "persist_write"}
EmbedRequest(o) == [action |-> "embed", set |-> o.set, chunks |-> o.chunks]

LoadInv(w) == /\ w.pc \in Loading => w.request \in Requests /\ PastBinding(w.binding)
              /\ w.pc = "load_policy" => PastMembership(w.membership)
ReadInv(w) ==
    /\ w.pc \in Reading =>
        /\ w.permit \in permits /\ w.asOf.clock \in Nat /\ PrincipalExpiresAt > w.asOf.clock
        /\ Compared(w.permit.request, w.permit.revisions, w.asOf.membership, w.asOf.policy)
    /\ w.pc = "read_policy" => w.membership \in Membership /\ w.asOf.membership.rev <= w.membership.rev
    /\ w.pc = "consume" => w.permit.revisions = Revisions(w.asOf.membership, w.asOf.policy)
EmbedInv(w) ==
    /\ w.pc \in {"handoff", "embed"} => w.permit \in permits /\ w.permit.request.action = "embed"
    /\ w.pc = "embed" => /\ w.operation.binding = w.permit.binding /\ w.operation.revisions = w.permit.revisions
                         /\ EmbedRequest(w.operation) = w.permit.request
PersistInv(w) ==
    /\ w.pc \in Persisting =>
        /\ "pc" \in DOMAIN w
        /\ Compared(EmbedRequest(w.operation), w.operation.revisions, w.membership, w.asOf.policy)
        /\ w.operation.binding # None /\ w.operation.binding.rev \in Nat
        /\ w.asOf.binding = w.operation.binding \/ w.operation.binding.rev < revision
    /\ w.pc \in {"persist_provenance", "persist_write"} =>
        w.operation.revisions = Revisions(w.membership, w.asOf.policy)
    /\ w.pc = "persist_write" => w.asOf.binding = w.operation.binding
Fits(w) == LoadInv(w) /\ ReadInv(w) /\ EmbedInv(w) /\ PersistInv(w)
WorkerInv == worker = [a \in Workers |-> worker[a]] /\ \A a \in Workers : Fits(worker[a])

EmbeddingInv == FactsInv /\ CacheInv /\ PermitInv /\ WorkerInv

-----------------------------------------------------------------------------
\* PolicyDecisionPoint.evaluate depends on time only through the expiry of the principal.
LEMMA GrantsAtAnyTime ==
  ASSUME NEW r, NEW m, NEW p, NEW s, NEW t, Evaluate(r, m, p, s) = "ALLOW"
  PROVE  /\ ~(PrincipalExpiresAt <= s)
         /\ ~(PrincipalExpiresAt <= t) => Evaluate(r, m, p, t) = "ALLOW"
<1> DEFINE chunks == ToSet(r.chunks)
           Covers(e) == {c \in chunks : IsAncestorOf(e.resource, ChunkResource(r.set, c))}
           applicable == {e \in p.entries : e.action = r.action /\ Covers(e) # {}}
           Allows(c) == {e \in applicable : e.effect = "ALLOW" /\ c \in Covers(e)}
           expired(now) == PrincipalExpiresAt <= now
           c2 == ~m.active
           c3 == r.action \notin SupportedActions
           c4 == r.action = "embed" /\ PrincipalKind # "SERVICE"
           c5 == \E e \in applicable : e.effect = "DENY"
           c6 == \E c \in chunks : Allows(c) = {}
           c7 == ~ChunkAllowMayExpand /\ \E c \in chunks : \A e \in Allows(c) : Len(e.resource) = 4
           rules(now) == << <<expired(now), "DENY">>, <<c2, "DENY">>, <<c3, "DENY">>, <<c4, "DENY">>,
                            <<c5, "DENY">>, <<c6, "DENY">>, <<c7, "DENY">>, <<TRUE, "ALLOW">> >>
<1>1. \A now : Evaluate(r, m, p, now) = FirstMatch(rules(now))
  BY DEF Evaluate
<1>2. expired(s) \in BOOLEAN /\ expired(t) \in BOOLEAN
  OBVIOUS
<1> HIDE DEF expired, c2, c3, c4, c5, c6, c7
<1>3. \A now : DOMAIN rules(now) = 1 .. 8
  OBVIOUS
<1>4. \A now : /\ rules(now)[1] = <<expired(now), "DENY">> /\ rules(now)[2] = <<c2, "DENY">>
               /\ rules(now)[3] = <<c3, "DENY">> /\ rules(now)[4] = <<c4, "DENY">>
               /\ rules(now)[5] = <<c5, "DENY">> /\ rules(now)[6] = <<c6, "DENY">>
               /\ rules(now)[7] = <<c7, "DENY">> /\ rules(now)[8] = <<TRUE, "ALLOW">>
  OBVIOUS
<1> HIDE DEF rules
<1>5. \A now : rules(now)[8][1] /\ rules(now)[8][2] = "ALLOW" /\ \A k \in 1 .. 7 : rules(now)[k][2] # rules(now)[8][2]
  <2> TAKE now
  <2>1. \A k \in 1 .. 7 : rules(now)[k][2] = "DENY"
    BY <1>4
  <2>2. rules(now)[8] = <<TRUE, "ALLOW">>
    BY <1>4
  <2>3. rules(now)[8][1] /\ rules(now)[8][2] = "ALLOW"
    BY <2>2
  <2> QED
    BY <2>1, <2>3
<1>6. \A k \in 1 .. 7 : ~rules(s)[k][1]
  <2>1. FirstMatch(rules(s)) = rules(s)[8][2] /\ 8 \in Nat /\ 8 > 0 /\ 8 - 1 = 7
    BY <1>1, <1>5
  <2> QED
    BY <1>3, <1>5, <2>1, LastRuleApplies
<1>7. \A k \in 2 .. 7 : ~rules(t)[k][1]
  <2>1. \A k \in 2 .. 7 : rules(t)[k] = rules(s)[k]
    BY <1>4
  <2> QED
    BY <1>6, <2>1
<1>8. ~expired(s)
  BY <1>2, <1>4, <1>6
<1>9. PICK i \in 1 .. 8 : rules(t)[i][1] /\ FirstMatch(rules(t)) = rules(t)[i][2]
  <2>1. 8 \in Nat /\ 8 > 0 /\ DOMAIN rules(t) = 1 .. 8 /\ rules(t)[8][1]
    BY <1>3, <1>5
  <2> QED
    BY <2>1, FirstMatchApplies
<1>10. ~expired(t) => i = 8
  BY <1>2, <1>4, <1>7, <1>9
<1> QED
  BY <1>1, <1>5, <1>8, <1>9, <1>10 DEF expired

\* So what is allowed at some time is granted.
LEMMA AllowedIsGranted ==
  ASSUME NEW r, NEW m, NEW p, NEW s \in Nat, Evaluate(r, m, p, s) = "ALLOW"
  PROVE  Grants(r, m, p)
<1>1. ~(PrincipalExpiresAt <= s)
  BY GrantsAtAnyTime
<1>2. ~(PrincipalExpiresAt <= 0)
  BY <1>1, TimeAssumption
<1> QED
  BY <1>2, GrantsAtAnyTime DEF Grants

-----------------------------------------------------------------------------
\* Facts move on: a changed one has a new revision.
Later == /\ membership.rev <= membership'.rev /\ (membership.rev = membership'.rev => membership' = membership)
         /\ policy.epoch <= policy'.epoch /\ (policy.epoch = policy'.epoch => policy' = policy)
         /\ revision <= revision' /\ (revision = revision' => binding' = binding)
         /\ permits \subseteq permits'

\* What was read stays a thing of the past.
LEMMA PastStays ==
  ASSUME FactsInv, FactsInv', Later
  PROVE  /\ \A b : PastBinding(b) => PastBinding(b)'
         /\ \A m : PastMembership(m) => PastMembership(m)'
         /\ \A p : PastPolicy(p) => PastPolicy(p)'
<1>1. \A b : PastBinding(b) => PastBinding(b)'
  BY DEF FactsInv, Later, PastBinding
<1>2. \A m : PastMembership(m) => PastMembership(m)'
  BY DEF FactsInv, Later, PastMembership, Membership
<1>3. \A p : PastPolicy(p) => PastPolicy(p)'
  BY DEF FactsInv, Later, PastPolicy, Policy
<1> QED
  BY <1>1, <1>2, <1>3

LEMMA JustifiedStays ==
  ASSUME FactsInv, FactsInv', Later, NEW r, NEW v, Justified(r, v)
  PROVE  Justified(r, v)'
BY PastStays DEF Justified, Grants

LEMMA ComparedStays ==
  ASSUME FactsInv, FactsInv', Later, NEW r, NEW v, NEW m, NEW p, Compared(r, v, m, p)
  PROVE  Compared(r, v, m, p)'
<1>1. /\ {membership.rev, membership'.rev, policy.epoch, policy'.epoch, m.rev, p.epoch} \subseteq Nat
      /\ membership.rev <= membership'.rev /\ policy.epoch <= policy'.epoch
  BY DEF FactsInv, Membership, Policy, Compared, Later
<1> QED
  BY <1>1 DEF Compared, Grants, Revisions

\* A worker that does not move keeps what its stage says.
LEMMA FitsStays ==
  ASSUME FactsInv, FactsInv', Later, NEW w, Fits(w)
  PROVE  Fits(w)'
<1>1. LoadInv(w)'
  BY PastStays DEF Fits, LoadInv
<1>2. ReadInv(w)'
  <2>1. w.pc \in Reading => Compared(w.permit.request, w.permit.revisions, w.asOf.membership, w.asOf.policy)'
    BY ComparedStays DEF Fits, ReadInv
  <2> QED
    BY <2>1 DEF Fits, ReadInv, Later
<1>3. EmbedInv(w)'
  BY DEF Fits, EmbedInv, Later
<1>4. PersistInv(w)'
  <2>1. w.pc \in Persisting =>
            Compared(EmbedRequest(w.operation), w.operation.revisions, w.membership, w.asOf.policy)'
    BY ComparedStays DEF Fits, PersistInv
  <2>2. revision \in Nat /\ revision' \in Nat /\ revision <= revision'
    BY DEF FactsInv, Later
  <2> QED
    BY <2>1, <2>2 DEF Fits, PersistInv
<1> QED
  BY <1>1, <1>2, <1>3, <1>4 DEF Fits

LEMMA IdleFits == Fits(Idle) /\ Fits(Idle)'
BY DEF Fits, LoadInv, ReadInv, EmbedInv, PersistInv, Idle, Loading, Reading, Persisting

\* One worker moves.
LEMMA WorkerMoves ==
  ASSUME WorkerInv, FactsInv, FactsInv', Later, NEW a \in Workers, NEW r, Become(a, r), Fits(r)'
  PROVE  WorkerInv'
<1>1. /\ worker' = [b \in Workers |-> worker'[b]] /\ worker'[a] = r
      /\ \A b \in Workers : b # a => worker'[b] = worker[b]
  BY DEF WorkerInv, Become
<1>2. ASSUME NEW b \in Workers PROVE Fits(worker[b])'
  <2>1. CASE b = a
    BY <1>1, <2>1
  <2>2. CASE b # a
    <3>1. PICK w : w = worker[b]
      OBVIOUS
    <3>2. Fits(w)'
      BY <3>1, FitsStays DEF WorkerInv
    <3> QED
      BY <1>1, <2>2, <3>1, <3>2
  <2> QED
    BY <2>1, <2>2
<1> QED
  BY <1>1, <1>2 DEF WorkerInv
\* A step of one worker that leaves facts, cache and permits alone.
LEMMA QuietStep ==
  ASSUME EmbeddingInv, UNCHANGED <<provenanceVars, authorizationState, clock, cache, permits>>,
         NEW a \in Workers, NEW r, Become(a, r), Fits(r)
  PROVE  EmbeddingInv'
<1>1. /\ membership' = membership /\ policy' = policy /\ clock' = clock /\ revision' = revision
      /\ binding' = binding /\ cache' = cache /\ permits' = permits
  BY DEF provenanceVars, authorizationState
<1>2. FactsInv' /\ FactsInv
  BY <1>1 DEF EmbeddingInv, FactsInv
<1>3. Later
  BY <1>1, <1>2 DEF Later, FactsInv, Membership, Policy
<1>4. CacheInv'
  BY <1>1, <1>2, <1>3, JustifiedStays DEF EmbeddingInv, CacheInv
<1>5. PermitInv'
  BY <1>1, <1>2, <1>3, JustifiedStays, PastStays DEF EmbeddingInv, PermitInv
<1>6. WorkerInv'
  BY <1>2, <1>3, FitsStays, WorkerMoves DEF EmbeddingInv
<1> QED
  BY <1>2, <1>4, <1>5, <1>6 DEF EmbeddingInv

LEMMA RestStep ==
  ASSUME EmbeddingInv, UNCHANGED <<provenanceVars, authorizationState, clock, cache, permits>>,
         NEW a \in Workers, Rest(a)
  PROVE  EmbeddingInv'
BY QuietStep, IdleFits DEF Rest

-----------------------------------------------------------------------------
LEMMA EmbeddingInit == Init => EmbeddingInv
<1> SUFFICES ASSUME Init PROVE EmbeddingInv
  OBVIOUS
<1>1. AuthorizationInit /\ ProvenanceInit
  BY DEF Init, AuthorizationInit
<1>2. FactsInv
  <2>1. PICK entries \in Policies : policy = [epoch |-> 1, entries |-> entries]
    BY <1>1 DEF AuthorizationInit
  <2>2. policy \in Policy
    BY <2>1 DEF Policy
  <2> QED
    BY <1>1, <2>2 DEF AuthorizationInit, ProvenanceInit, FactsInv, Membership
<1>3. CacheInv /\ PermitInv
  BY <1>1 DEF AuthorizationInit, CacheInv, PermitInv
<1>4. WorkerInv
  BY <1>1, IdleFits DEF AuthorizationInit, WorkerInv
<1> QED
  BY <1>2, <1>3, <1>4 DEF EmbeddingInv

\* Publications, administrators and time.
LEMMA EnvironmentStep == ASSUME EmbeddingInv, Environment PROVE EmbeddingInv'
<1>1. UNCHANGED <<cache, permits, consumed, worker>>
  BY DEF Environment
<1>2. FactsInv' /\ Later
  <2> USE DEF EmbeddingInv, FactsInv, Later, Membership, Policy, authorizationState, provenanceVars
  <2>1. CASE ProvenanceNext /\ UNCHANGED <<authorizationState, clock>>
    BY <1>1, <2>1 DEF ProvenanceNext, Publish, Withdraw
  <2>2. CASE (RevokeGrant \/ AdvanceEpoch \/ ReplaceMembership) /\ UNCHANGED <<provenanceVars, clock>>
    <3>1. CASE RevokeGrant
      BY <1>1, <2>2, <3>1 DEF RevokeGrant
    <3>2. CASE AdvanceEpoch
      BY <1>1, <2>2, <3>2 DEF AdvanceEpoch
    <3>3. CASE ReplaceMembership
      BY <1>1, <2>2, <3>3 DEF ReplaceMembership
    <3> QED
      BY <2>2, <3>1, <3>2, <3>3
  <2>3. CASE clock' = clock + 1 /\ UNCHANGED <<provenanceVars, authorizationState>>
    BY <1>1, <2>3
  <2> QED
    BY <2>1, <2>2, <2>3 DEF Environment
<1>3. CacheInv' /\ PermitInv'
  BY <1>1, <1>2, JustifiedStays, PastStays DEF EmbeddingInv, CacheInv, PermitInv
<1>4. WorkerInv'
  <2>1. ASSUME NEW b \in Workers PROVE Fits(worker[b])'
    <3>1. PICK w : w = worker[b]
      OBVIOUS
    <3>2. Fits(w)'
      BY <1>2, <3>1, FitsStays DEF EmbeddingInv, WorkerInv
    <3> QED
      BY <1>1, <3>1, <3>2
  <2> QED
    BY <1>1, <2>1 DEF EmbeddingInv, WorkerInv
<1> QED
  BY <1>2, <1>3, <1>4 DEF EmbeddingInv
-----------------------------------------------------------------------------
\* What a permit rests on, seen from the facts of this moment.
LEMMA JustifiedNow ==
  ASSUME FactsInv, NEW r, NEW v, Justified(r, v)
  PROVE  Compared(r, v, membership, policy)
<1>1. PICK m \in [active : BOOLEAN, rev : {v.membership}],
           p \in [epoch : {v.policy}, entries : SUBSET UNION Policies] :
             Grants(r, m, p) /\ PastMembership(m) /\ PastPolicy(p)
  BY DEF Justified
<1>2. m.rev = v.membership /\ p.epoch = v.policy /\ v \in RevisionVector
  BY <1>1 DEF Justified
<1>3. v = Revisions(membership, policy) => m = membership /\ p = policy
  BY <1>1, <1>2 DEF PastMembership, PastPolicy, Revisions
<1>4. v.membership <= membership.rev /\ v.policy <= policy.epoch
  BY <1>1, <1>2 DEF PastMembership, PastPolicy
<1> QED
  BY <1>1, <1>2, <1>3, <1>4 DEF FactsInv, Compared, Membership, Policy

LEMMA LoadStep == ASSUME EmbeddingInv, NEW a \in Workers, Load(a) PROVE EmbeddingInv'
<1>1. PICK q \in Requests : /\ binding # None
                            /\ Become(a, [pc |-> "load_membership", request |-> q, binding |-> binding])
  BY DEF Load
<1>2. PICK r : r = [pc |-> "load_membership", request |-> q, binding |-> binding]
  OBVIOUS
<1>3. PastBinding(binding)
  BY <1>1 DEF EmbeddingInv, FactsInv, PastBinding
<1>4. Fits(r)
  BY <1>2, <1>3 DEF Fits, LoadInv, ReadInv, EmbedInv, PersistInv, Loading, Reading, Persisting
<1>5. UNCHANGED <<provenanceVars, authorizationState, clock, cache, permits>>
  BY DEF Load, authorizationVars
<1> QED
  BY <1>1, <1>2, <1>4, <1>5, QuietStep

LEMMA LoadMembershipStep == ASSUME EmbeddingInv, NEW a \in Workers, LoadMembership(a) PROVE EmbeddingInv'
<1>1. PICK w : w = worker[a] /\ w.pc = "load_membership" /\ Fits(w)
  BY DEF LoadMembership, EmbeddingInv, WorkerInv
<1>2. PICK r : r = [pc |-> "load_policy", request |-> w.request, binding |-> w.binding, membership |-> membership]
  OBVIOUS
<1>3. PastMembership(membership)
  BY DEF EmbeddingInv, FactsInv, PastMembership, Membership
<1>4. Fits(r)
  BY <1>1, <1>2, <1>3 DEF Fits, LoadInv, ReadInv, EmbedInv, PersistInv, Loading, Reading, Persisting
<1>5. UNCHANGED <<provenanceVars, authorizationState, clock, cache, permits>>
  BY DEF LoadMembership, authorizationVars
<1>6. Become(a, r) \/ Rest(a)
  BY <1>1, <1>2 DEF LoadMembership, Unavailable
<1> QED
  BY <1>4, <1>5, <1>6, QuietStep, RestStep

\* authorize: a decision found in the cache was made on facts of the same revisions.
LEMMA DecideStep == ASSUME EmbeddingInv, NEW a \in Workers, Decide(a) PROVE EmbeddingInv'
<1>1. PICK w : w = worker[a] /\ w.pc = "load_policy" /\ Fits(w)
  BY DEF Decide, EmbeddingInv, WorkerInv
<1>2. PICK q, b, m : q = w.request /\ b = w.binding /\ m = w.membership
  OBVIOUS
<1>3. q \in Requests /\ PastBinding(b) /\ PastMembership(m)
  BY <1>1, <1>2 DEF Fits, LoadInv, Loading
<1>4. PICK v : v = Revisions(m, policy)
  OBVIOUS
<1>5. PICK key : key = CacheKey(q, b, v)
  OBVIOUS
<1>6. key.request = q /\ key.revisions = v
  BY <1>5 DEF CacheKey
<1>7. UNCHANGED <<provenanceVars, authorizationState, clock>> /\ Rest(a)
  BY DEF Decide
<1>8. /\ membership' = membership /\ policy' = policy /\ clock' = clock /\ revision' = revision
      /\ binding' = binding
  BY <1>7 DEF provenanceVars, authorizationState
<1>9. CASE UNCHANGED <<cache, permits>>
  BY <1>7, <1>9, RestStep
<1>10. ASSUME NEW decision,
              decision \in IF Cached(key) # {} THEN {x.decision : x \in Cached(key)}
                           ELSE {Evaluate(q, m, policy, clock)},
              cache' = IF Cached(key) # {} THEN cache ELSE Cache(key, decision),
              permits' = IF decision = "ALLOW" /\ Cardinality(permits) < MaxPermits
                         THEN permits \cup {Permit(q, b, v)} ELSE permits
       PROVE  EmbeddingInv'
  <2>1. FactsInv /\ FactsInv' /\ Later
    <3>1. FactsInv /\ FactsInv'
      BY <1>8 DEF EmbeddingInv, FactsInv
    <3>2. permits \subseteq permits'
      BY <1>10
    <3> QED
      BY <1>8, <3>1, <3>2 DEF Later, FactsInv, Membership, Policy
  <2>2. decision = "ALLOW" => Justified(q, v)
    <3>1. CASE Cached(key) # {}
      <4>1. PICK x \in cache : x.key = key /\ x.decision = decision
        BY <1>10, <3>1 DEF Cached
      <4> QED
        BY <1>6, <4>1 DEF EmbeddingInv, CacheInv
    <3>2. CASE Cached(key) = {} /\ decision = "ALLOW"
      <4>1. Evaluate(q, m, policy, clock) = "ALLOW"
        BY <1>10, <3>2
      <4>2. Grants(q, m, policy)
        BY <2>1, <4>1, AllowedIsGranted DEF FactsInv
      <4>3. v.membership = m.rev /\ v.policy = policy.epoch /\ v \in RevisionVector
        BY <1>3, <1>4, <2>1 DEF Revisions, RevisionVector, PastMembership, Membership, FactsInv, Policy
      <4>4. /\ m \in [active : BOOLEAN, rev : {v.membership}]
            /\ policy \in [epoch : {v.policy}, entries : SUBSET UNION Policies]
        BY <1>3, <2>1, <4>3 DEF PastMembership, Membership, FactsInv, Policy
      <4>5. PastPolicy(policy)
        BY <2>1 DEF PastPolicy, FactsInv, Policy
      <4> QED
        BY <1>3, <4>2, <4>3, <4>4, <4>5 DEF Justified
    <3> QED
      BY <3>1, <3>2
  <2>3. CacheInv'
    <3>1. ASSUME NEW x \in cache', x.decision = "ALLOW" PROVE Justified(x.key.request, x.key.revisions)
      <4>1. CASE x \in cache
        BY <3>1, <4>1 DEF EmbeddingInv, CacheInv
      <4>2. CASE x \notin cache
        <5>1. x = [key |-> key, expiresAt |-> clock + CacheTtl, decision |-> decision]
          BY <1>10, <4>2 DEF Cache
        <5> QED
          BY <1>6, <2>2, <3>1, <5>1
      <4> QED
        BY <4>1, <4>2
    <3> QED
      BY <2>1, <3>1, JustifiedStays DEF CacheInv
  <2>4. PermitInv'
    <3>1. ASSUME NEW p \in permits'
          PROVE  p.request \in Requests /\ PastBinding(p.binding) /\ Justified(p.request, p.revisions)
      <4>1. CASE p \in permits
        BY <4>1 DEF EmbeddingInv, PermitInv
      <4>2. CASE p \notin permits
        <5>1. decision = "ALLOW" /\ p = Permit(q, b, v)
          BY <1>10, <4>2
        <5>2. p.request = q /\ p.binding = b /\ p.revisions = v
          BY <5>1 DEF Permit
        <5> QED
          BY <1>3, <2>2, <5>1, <5>2
      <4> QED
        BY <4>1, <4>2
    <3> QED
      BY <2>1, <3>1, JustifiedStays, PastStays DEF PermitInv
  <2>5. WorkerInv'
    BY <1>7, <2>1, IdleFits, WorkerMoves DEF Rest, EmbeddingInv
  <2> QED
    BY <2>1, <2>3, <2>4, <2>5 DEF EmbeddingInv
<1> QED
  BY <1>1, <1>2, <1>4, <1>5, <1>9, <1>10 DEF Decide
-----------------------------------------------------------------------------
\* GuardedChunkReader.read.
LEMMA BeginReadStep == ASSUME EmbeddingInv, NEW a \in Workers, BeginRead(a) PROVE EmbeddingInv'
<1>1. PICK p \in permits :
        /\ PrincipalExpiresAt > clock
        /\ Become(a, [pc |-> "read_membership", permit |-> p,
                      asOf |-> [membership |-> membership, policy |-> policy, clock |-> clock]])
  BY DEF BeginRead
<1>2. PICK r : r = [pc |-> "read_membership", permit |-> p,
                    asOf |-> [membership |-> membership, policy |-> policy, clock |-> clock]]
  OBVIOUS
<1>3. Compared(p.request, p.revisions, membership, policy)
  BY JustifiedNow DEF EmbeddingInv, PermitInv
<1>4. Fits(r)
  <2>1. clock \in Nat
    BY DEF EmbeddingInv, FactsInv
  <2> QED
    BY <1>1, <1>2, <1>3, <2>1 DEF Fits, LoadInv, ReadInv, EmbedInv, PersistInv, Loading, Reading, Persisting
<1>5. UNCHANGED <<provenanceVars, authorizationState, clock, cache, permits>>
  BY DEF BeginRead, authorizationVars
<1> QED
  BY <1>1, <1>2, <1>4, <1>5, QuietStep

LEMMA ReadMembershipStep == ASSUME EmbeddingInv, NEW a \in Workers, ReadMembership(a) PROVE EmbeddingInv'
<1>1. PICK w : w = worker[a] /\ w.pc = "read_membership" /\ Fits(w)
  BY DEF ReadMembership, EmbeddingInv, WorkerInv
<1>2. PICK r : r = [pc |-> "read_policy", permit |-> w.permit, asOf |-> w.asOf, membership |-> membership]
  OBVIOUS
<1>3. Fits(r)
  <2>1. membership \in Membership /\ w.asOf.membership.rev <= membership.rev
    BY <1>1 DEF EmbeddingInv, FactsInv, Fits, ReadInv, Reading, Compared
  <2>2. /\ w.permit \in permits /\ w.asOf.clock \in Nat /\ PrincipalExpiresAt > w.asOf.clock
        /\ Compared(w.permit.request, w.permit.revisions, w.asOf.membership, w.asOf.policy)
    BY <1>1 DEF Fits, ReadInv, Reading
  <2> QED
    BY <1>2, <2>1, <2>2 DEF Fits, LoadInv, ReadInv, EmbedInv, PersistInv, Loading, Reading, Persisting
<1>4. UNCHANGED <<provenanceVars, authorizationState, clock, cache, permits>>
  BY DEF ReadMembership, authorizationVars
<1>5. Become(a, r) \/ Rest(a)
  BY <1>1, <1>2 DEF ReadMembership, Unavailable
<1> QED
  BY <1>3, <1>4, <1>5, QuietStep, RestStep

\* Revisions that have not moved between two reads are those of the moment before both.
LEMMA RevisionsMeet ==
  ASSUME FactsInv, NEW r, NEW v, NEW m, NEW p, NEW later, Compared(r, v, m, p),
         later \in Membership, m.rev <= later.rev, v = Revisions(later, policy)
  PROVE  v = Revisions(m, p)
<1>1. v.membership = later.rev /\ v.policy = policy.epoch
  BY DEF Revisions
<1>2. /\ {m.rev, later.rev, p.epoch, policy.epoch} \subseteq Nat
      /\ v.membership <= m.rev /\ v.policy <= p.epoch /\ p.epoch <= policy.epoch
  BY DEF FactsInv, Compared, Membership, Policy
<1>3. m.rev = later.rev /\ p.epoch = policy.epoch
  BY <1>1, <1>2
<1> QED
  BY <1>3 DEF Revisions

LEMMA ReadPolicyStep == ASSUME EmbeddingInv, NEW a \in Workers, ReadPolicy(a) PROVE EmbeddingInv'
<1>1. PICK w : w = worker[a] /\ w.pc = "read_policy" /\ Fits(w)
  BY DEF ReadPolicy, EmbeddingInv, WorkerInv
<1>2. PICK r : r = [pc |-> "consume", permit |-> w.permit, asOf |-> w.asOf]
  OBVIOUS
<1>3. ASSUME RevisionsCurrent(w.permit, w.membership, policy) PROVE Fits(r)
  <2>1. /\ w.permit \in permits /\ w.asOf.clock \in Nat /\ PrincipalExpiresAt > w.asOf.clock
        /\ Compared(w.permit.request, w.permit.revisions, w.asOf.membership, w.asOf.policy)
        /\ w.membership \in Membership /\ w.asOf.membership.rev <= w.membership.rev
    BY <1>1 DEF Fits, ReadInv, Reading
  <2>2. w.permit.revisions = Revisions(w.asOf.membership, w.asOf.policy)
    BY <1>3, <2>1, RevisionsMeet DEF RevisionsCurrent, EmbeddingInv
  <2> QED
    BY <1>2, <2>1, <2>2 DEF Fits, LoadInv, ReadInv, EmbedInv, PersistInv, Loading, Reading, Persisting
<1>4. UNCHANGED <<provenanceVars, authorizationState, clock, cache, permits>>
  BY DEF ReadPolicy, authorizationVars
<1>5. (RevisionsCurrent(w.permit, w.membership, policy) /\ Become(a, r)) \/ Rest(a)
  BY <1>1, <1>2 DEF ReadPolicy, Unavailable
<1> QED
  BY <1>3, <1>4, <1>5, QuietStep, RestStep

LEMMA ConsumeStep ==
  ASSUME EmbeddingInv, NEW a \in Workers, Consume(a, Handoff(worker[a].permit))
  PROVE  EmbeddingInv'
<1>1. PICK w : w = worker[a] /\ w.pc = "consume" /\ Fits(w)
  BY DEF Consume, EmbeddingInv, WorkerInv
<1>2. PICK r : r = Handoff(w.permit)
  OBVIOUS
<1>3. Fits(r)
  <2>1. CASE w.permit.request.action = "embed"
    <3>1. r = [pc |-> "handoff", permit |-> w.permit] /\ w.permit \in permits
      BY <1>1, <1>2, <2>1 DEF Handoff, Fits, ReadInv, Reading
    <3> QED
      BY <2>1, <3>1 DEF Fits, LoadInv, ReadInv, EmbedInv, PersistInv, Loading, Reading, Persisting
  <2>2. CASE w.permit.request.action # "embed"
    BY <1>2, <2>2, IdleFits DEF Handoff
  <2> QED
    BY <2>1, <2>2
<1>4. UNCHANGED <<provenanceVars, authorizationState, clock, cache, permits>>
  BY DEF Consume
<1>5. Become(a, r) \/ Rest(a)
  BY <1>1, <1>2 DEF Consume
<1> QED
  BY <1>3, <1>4, <1>5, QuietStep, RestStep

-----------------------------------------------------------------------------
\* EmbeddingOrchestrator.run.
LEMMA ClaimStep == ASSUME EmbeddingInv, NEW a \in Workers, Claim(a) PROVE EmbeddingInv'
<1>1. PICK w : w = worker[a] /\ w.pc = "handoff" /\ Fits(w)
  BY DEF Claim, EmbeddingInv, WorkerInv
<1>2. w.permit \in permits /\ w.permit.request.action = "embed"
  BY <1>1 DEF Fits, EmbedInv
<1>3. w.permit.request \in Requests
  BY <1>2 DEF EmbeddingInv, PermitInv
<1>4. UNCHANGED <<provenanceVars, authorizationState, clock, cache, permits>>
  BY DEF Claim, authorizationVars
<1>5. CASE Rest(a)
  BY <1>4, <1>5, RestStep
<1>6. ASSUME NEW e \in EmbeddingRequests, NEW t \in Attempts, NEW o, o = Operation(e, w.permit), NEW r,
             r = [pc |-> "embed", permit |-> w.permit, operation |-> o, attempt |-> t,
                  expected |-> selections[o.set], batches |-> PlanBatches(o.chunks, o.selected.contract),
                  vectors |-> <<>>],
             Become(a, r)
      PROVE  EmbeddingInv'
  <2>1. /\ o.binding = w.permit.binding /\ o.revisions = w.permit.revisions
        /\ o.set = w.permit.request.set /\ o.chunks = w.permit.request.chunks
    BY <1>6 DEF Operation
  <2>2. EmbedRequest(o) = w.permit.request
    BY <1>2, <1>3, <2>1, RequestsAssumption DEF EmbedRequest
  <2>3. r.pc = "embed" /\ r.permit = w.permit /\ r.operation = o
    BY <1>6
  <2>4. Fits(r)
    BY <1>2, <2>1, <2>2, <2>3 DEF Fits, LoadInv, ReadInv, EmbedInv, PersistInv, Loading, Reading, Persisting
  <2> QED
    BY <1>4, <1>6, <2>4, QuietStep
<1> QED
  BY <1>1, <1>5, <1>6 DEF Claim

LEMMA EmbedBatchStep == ASSUME EmbeddingInv, NEW a \in Workers, EmbedBatch(a) PROVE EmbeddingInv'
<1>1. PICK w : w = worker[a] /\ w.pc = "embed" /\ Fits(w)
  BY DEF EmbedBatch, EmbeddingInv, WorkerInv
<1>2. UNCHANGED <<provenanceVars, authorizationState, clock, cache, permits>>
  BY DEF EmbedBatch, authorizationVars
<1>3. CASE Rest(a)
  BY <1>2, <1>3, RestStep
<1>4. CASE Become(a, [pc |-> "handoff", permit |-> w.permit])
  <2>1. PICK r : r = [pc |-> "handoff", permit |-> w.permit]
    OBVIOUS
  <2>2. Fits(r)
    BY <1>1, <2>1 DEF Fits, LoadInv, ReadInv, EmbedInv, PersistInv, Loading, Reading, Persisting
  <2> QED
    BY <1>2, <1>4, <2>1, <2>2, QuietStep
<1>5. ASSUME NEW items, Become(a, [w EXCEPT !.batches = Tail(@), !.vectors = @ \o items]) PROVE EmbeddingInv'
  <2>1. PICK r : r = [w EXCEPT !.batches = Tail(@), !.vectors = @ \o items]
    OBVIOUS
  <2>2. r.pc = w.pc /\ r.permit = w.permit /\ r.operation = w.operation
    BY <2>1
  <2>3. Fits(r)
    BY <1>1, <2>2 DEF Fits, LoadInv, ReadInv, EmbedInv, PersistInv, Loading, Reading, Persisting
  <2> QED
    BY <1>2, <1>5, <2>1, <2>3, QuietStep
<1> QED
  BY <1>1, <1>3, <1>4, <1>5 DEF EmbedBatch
-----------------------------------------------------------------------------
\* EmbeddingCommitter.persist: membership and policy at its beginning against the permit's
\* revisions, and a binding that is current or gone for ever.
LEMMA PersistCheckStep == ASSUME EmbeddingInv, NEW a \in Workers, PersistCheck(a) PROVE EmbeddingInv'
<1>1. PICK w : w = worker[a] /\ w.pc = "embed" /\ Fits(w)
  BY DEF PersistCheck, EmbeddingInv, WorkerInv
<1>2. PICK o, p : o = w.operation /\ p = w.permit
  OBVIOUS
<1>3. /\ p \in permits /\ o.binding = p.binding /\ o.revisions = p.revisions /\ EmbedRequest(o) = p.request
  BY <1>1, <1>2 DEF Fits, EmbedInv
<1>4. PastBinding(o.binding) /\ Compared(EmbedRequest(o), o.revisions, membership, policy)
  BY <1>3, JustifiedNow DEF EmbeddingInv, PermitInv
<1>5. PICK r : r = [pc |-> "persist_policy", operation |-> o, vectors |-> w.vectors, expected |-> w.expected,
                    membership |-> membership, asOf |-> [binding |-> binding, policy |-> policy]]
  OBVIOUS
<1>6. Fits(r)
  <2>1. o.binding # None /\ o.binding.rev \in Nat /\ (binding = o.binding \/ o.binding.rev < revision)
    BY <1>4 DEF PastBinding, EmbeddingInv, FactsInv
  <2>2. /\ "pc" \in DOMAIN r /\ r.pc = "persist_policy" /\ r.operation = o /\ r.membership = membership
        /\ r.asOf.binding = binding /\ r.asOf.policy = policy
    BY <1>5
  <2> QED
    BY <1>4, <2>1, <2>2 DEF Fits, LoadInv, ReadInv, EmbedInv, PersistInv, Loading, Reading, Persisting
<1>7. UNCHANGED <<provenanceVars, authorizationState, clock, cache, permits>>
  BY DEF PersistCheck, authorizationVars
<1>8. Become(a, r) \/ Rest(a)
  BY <1>1, <1>2, <1>5 DEF PersistCheck
<1> QED
  BY <1>6, <1>7, <1>8, QuietStep, RestStep

LEMMA PersistPolicyStep == ASSUME EmbeddingInv, NEW a \in Workers, PersistPolicy(a) PROVE EmbeddingInv'
<1>1. PICK w : w = worker[a] /\ w.pc = "persist_policy" /\ Fits(w)
  BY DEF PersistPolicy, EmbeddingInv, WorkerInv
<1>2. PICK r : r = [w EXCEPT !.pc = "persist_provenance"]
  OBVIOUS
<1>3. ASSUME StillGranted(w.operation, w.membership, policy) PROVE Fits(r)
  <2>1. /\ "pc" \in DOMAIN w
        /\ Compared(EmbedRequest(w.operation), w.operation.revisions, w.membership, w.asOf.policy)
        /\ w.operation.binding # None /\ w.operation.binding.rev \in Nat
        /\ w.asOf.binding = w.operation.binding \/ w.operation.binding.rev < revision
    BY <1>1 DEF Fits, PersistInv, Persisting
  <2>2. w.operation.revisions = Revisions(w.membership, policy)
    BY <1>3 DEF StillGranted
  <2>3. w.membership \in Membership /\ w.membership.rev <= w.membership.rev
    BY <2>1 DEF Compared, Membership
  <2>4. w.operation.revisions = Revisions(w.membership, w.asOf.policy)
    BY <2>1, <2>2, <2>3, RevisionsMeet DEF EmbeddingInv
  <2>5. /\ r.pc = "persist_provenance" /\ r.operation = w.operation /\ r.membership = w.membership
        /\ r.asOf = w.asOf /\ "pc" \in DOMAIN r
    BY <1>2, <2>1
  <2> QED
    BY <2>1, <2>4, <2>5 DEF Fits, LoadInv, ReadInv, EmbedInv, PersistInv, Loading, Reading, Persisting
<1>4. UNCHANGED <<provenanceVars, authorizationState, clock, cache, permits>>
  BY DEF PersistPolicy, authorizationVars
<1>5. (StillGranted(w.operation, w.membership, policy) /\ Become(a, r)) \/ Rest(a)
  BY <1>1, <1>2 DEF PersistPolicy
<1> QED
  BY <1>3, <1>4, <1>5, QuietStep, RestStep

LEMMA PersistProvenanceStep == ASSUME EmbeddingInv, NEW a \in Workers, PersistProvenance(a) PROVE EmbeddingInv'
<1>1. PICK w : w = worker[a] /\ w.pc = "persist_provenance" /\ Fits(w)
  BY DEF PersistProvenance, EmbeddingInv, WorkerInv
<1>2. PICK r : r = [w EXCEPT !.pc = "persist_write"]
  OBVIOUS
<1>3. ASSUME binding = w.operation.binding PROVE Fits(r)
  <2>1. /\ "pc" \in DOMAIN w
        /\ Compared(EmbedRequest(w.operation), w.operation.revisions, w.membership, w.asOf.policy)
        /\ w.operation.binding # None /\ w.operation.binding.rev \in Nat
        /\ w.asOf.binding = w.operation.binding \/ w.operation.binding.rev < revision
        /\ w.operation.revisions = Revisions(w.membership, w.asOf.policy)
    BY <1>1 DEF Fits, PersistInv, Persisting
  <2>2. w.asOf.binding = w.operation.binding
    BY <1>3, <2>1 DEF EmbeddingInv, FactsInv
  <2>3. /\ r.pc = "persist_write" /\ r.operation = w.operation /\ r.membership = w.membership
        /\ r.asOf = w.asOf /\ "pc" \in DOMAIN r
    BY <1>2, <2>1
  <2> QED
    BY <2>1, <2>2, <2>3 DEF Fits, LoadInv, ReadInv, EmbedInv, PersistInv, Loading, Reading, Persisting
<1>4. UNCHANGED <<provenanceVars, authorizationState, clock, cache, permits>>
  BY DEF PersistProvenance, authorizationVars
<1>5. (binding = w.operation.binding /\ Become(a, r)) \/ Rest(a)
  BY <1>1, <1>2 DEF PersistProvenance
<1> QED
  BY <1>3, <1>4, <1>5, QuietStep, RestStep

LEMMA PersistWriteStep == ASSUME EmbeddingInv, NEW a \in Workers, PersistWrite(a) PROVE EmbeddingInv'
BY RestStep DEF PersistWrite, authorizationVars

LEMMA CrashStep == ASSUME EmbeddingInv, NEW a \in Workers, Crash(a) PROVE EmbeddingInv'
BY RestStep DEF Crash, authorizationVars
LEMMA EmbeddingStep == EmbeddingInv /\ [Next]_vars => EmbeddingInv'
<1> SUFFICES ASSUME EmbeddingInv, [Next]_vars PROVE EmbeddingInv'
  OBVIOUS
<1>1. ASSUME UNCHANGED <<authorizationVars, worker>> PROVE EmbeddingInv'
  <2>1. /\ membership' = membership /\ policy' = policy /\ clock' = clock /\ revision' = revision
        /\ binding' = binding /\ cache' = cache /\ permits' = permits /\ worker' = worker
    BY <1>1 DEF authorizationVars, provenanceVars, authorizationState
  <2>2. FactsInv /\ FactsInv'
    BY <2>1 DEF EmbeddingInv, FactsInv
  <2>3. Later
    BY <2>1, <2>2 DEF Later, FactsInv, Membership, Policy
  <2>4. CacheInv' /\ PermitInv'
    BY <2>1, <2>2, <2>3, JustifiedStays, PastStays DEF EmbeddingInv, CacheInv, PermitInv
  <2>5. ASSUME NEW b \in Workers PROVE Fits(worker[b])'
    <3>1. PICK w : w = worker[b]
      OBVIOUS
    <3>2. Fits(w)'
      BY <2>2, <2>3, <3>1, FitsStays DEF EmbeddingInv, WorkerInv
    <3> QED
      BY <2>1, <3>1, <3>2
  <2> QED
    BY <2>1, <2>2, <2>4, <2>5 DEF EmbeddingInv, WorkerInv
<1>2. CASE UNCHANGED vars
  BY <1>1, <1>2 DEF vars
<1>3. CASE SelectContract
  BY <1>1, <1>3 DEF SelectContract
<1>4. CASE Environment
  BY <1>4, EnvironmentStep
<1>5. ASSUME NEW a \in Workers, ReaderStep(a) PROVE EmbeddingInv'
  BY <1>5, LoadStep, LoadMembershipStep, DecideStep, BeginReadStep, ReadMembershipStep, ReadPolicyStep, ConsumeStep
  DEF ReaderStep
<1> QED
  BY <1>2, <1>3, <1>4, <1>5, ClaimStep, EmbedBatchStep, PersistCheckStep, PersistPolicyStep, PersistProvenanceStep,
     PersistWriteStep, CrashStep
  DEF Next

-----------------------------------------------------------------------------
\* The inductive invariant holds throughout: decisions, permits and what workers remember were
\* justified by facts that were, and a fact that was is current only if nothing has changed.
THEOREM EmbeddingInvariant == Spec => []EmbeddingInv
<1> QED
  BY EmbeddingInit, EmbeddingStep, PTL DEF Spec

\* Only the worker that consumes a permit releases chunks.
LEMMA OnlyConsumeReleases ==
  ASSUME Next, consumed' # consumed, NEW a \in Workers, worker'[a] # worker[a], WorkerInv
  PROVE  Consume(a, Handoff(worker[a].permit))
<1>1. ASSUME NEW b \in Workers, NEW r, Become(b, r) PROVE b = a
  BY <1>1 DEF Become, WorkerInv
<1>2. PICK b \in Workers : Consume(b, Handoff(worker[b].permit))
  BY DEF Next, ReaderStep, Load, LoadMembership, Decide, BeginRead, ReadMembership, ReadPolicy, Claim, EmbedBatch,
         PersistCheck, PersistPolicy, PersistProvenance, PersistWrite, Crash, SelectContract, Environment,
         authorizationVars
<1>3. \E r : Become(b, r)
  BY <1>2 DEF Consume, Rest
<1> QED
  BY <1>1, <1>2, <1>3

\* GuardedChunkReader.read releases chunks only if membership and policy allowed it when the read
\* began, whatever was cached, revoked, granted again or read in between, and each permit once.
THEOREM ReadsWereAuthorized == Spec => ReleasedWasAuthorized
<1>1. ASSUME EmbeddingInv, Next, NEW a \in Workers, worker[a].pc = "consume", consumed' # consumed,
             worker'[a] # worker[a], NEW p, p = worker[a].permit, NEW then, then = worker[a].asOf
      PROVE  Evaluate(p.request, then.membership, then.policy, then.clock) = "ALLOW" /\ p.id \notin consumed
  <2>1. Consume(a, Handoff(worker[a].permit))
    BY <1>1, OnlyConsumeReleases DEF EmbeddingInv
  <2>2. p.id \notin consumed
    BY <1>1, <2>1 DEF Consume, Unused
  <2>3. ReadInv(worker[a])
    BY <1>1 DEF EmbeddingInv, WorkerInv, Fits
  <2>4. /\ then.clock \in Nat /\ PrincipalExpiresAt > then.clock
        /\ Grants(p.request, then.membership, then.policy)
    BY <1>1, <2>3 DEF ReadInv, Reading, Compared
  <2>5. ~(PrincipalExpiresAt <= then.clock)
    BY <2>4, TimeAssumption
  <2> QED
    BY <2>2, <2>4, <2>5, GrantsAtAnyTime DEF Grants
<1>2. EmbeddingInv /\ [Next]_vars =>
        [\A a \in Workers :
            worker[a].pc = "consume" /\ consumed' # consumed /\ worker'[a] # worker[a] =>
                LET p == worker[a].permit  then == worker[a].asOf IN
                /\ Evaluate(p.request, then.membership, then.policy, then.clock) = "ALLOW"
                /\ p.id \notin consumed]_<<consumed, worker>>
  BY <1>1 DEF vars, authorizationVars
<1> QED
  BY <1>2, EmbeddingInvariant, PTL DEF Spec, ReleasedWasAuthorized

\* EmbeddingCommitter.persist writes a set only if binding, membership and policy of the read were
\* all in force when it took the lock, though it reads them one after the other.
THEOREM CommitsWereAuthorized == Spec => CommittedWasAuthorized
<1>1. ASSUME EmbeddingInv, Next, NEW a \in Workers, worker[a].pc = "persist_write", embeddings' # embeddings,
             worker'[a] # worker[a], NEW o, o = worker[a].operation, NEW then, then = worker[a].asOf
      PROVE  /\ then.binding = o.binding
             /\ Evaluate([action |-> "embed", set |-> o.set, chunks |-> o.chunks], worker[a].membership,
                         then.policy, 0) = "ALLOW"
  <2>1. PersistInv(worker[a])
    BY <1>1 DEF EmbeddingInv, WorkerInv, Fits
  <2>2. then.binding = o.binding /\ Grants(EmbedRequest(o), worker[a].membership, then.policy)
    BY <1>1, <2>1 DEF PersistInv, Persisting, Compared
  <2> QED
    BY <2>2 DEF Grants, EmbedRequest
<1>2. EmbeddingInv /\ [Next]_vars =>
        [\A a \in Workers :
            worker[a].pc = "persist_write" /\ embeddings' # embeddings /\ worker'[a] # worker[a] =>
                LET o == worker[a].operation  then == worker[a].asOf IN
                /\ then.binding = o.binding
                /\ Evaluate([action |-> "embed", set |-> o.set, chunks |-> o.chunks],
                            worker[a].membership, then.policy, 0) = "ALLOW"]_<<embeddings, worker>>
  BY <1>1 DEF vars, embeddingVars
<1> QED
  BY <1>2, EmbeddingInvariant, PTL DEF Spec, CommittedWasAuthorized
=============================================================================
