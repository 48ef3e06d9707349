--------------------------- MODULE RagAuthorization ---------------------------
(***************************************************************************)
(* Authorization of protected reads (day97) for one tenant, document and   *)
(* principal: the policy information point loads facts in three separate   *)
(* reads, the decision point decides (its decisions are cached under every *)
(* revision they rest on), the issuer signs a permit, and the guarded      *)
(* reader checks the permit against current facts, again in separate       *)
(* reads, and consumes it.  Administrators and publications move between   *)
(* any two reads.  acl_revision moves only with the epoch, so a policy is  *)
(* [epoch, entries]; a resource is the path from the tenant down.          *)
(***************************************************************************)
EXTENDS RagProvenance, FiniteSets, Sequences, SequencesExt, FirstMatch

CONSTANTS Workers,
          ChunksOf,              \* the chunks of a set
          Policies,              \* entries a policy may start with: sets of [id, effect, resource, action]
          SupportedActions, ChunkAllowMayExpand, PrincipalKind,
          Requests,              \* AuthorizationRequest: [action, set, chunks]
          PrincipalExpiresAt, PermitTtl, CacheTtl,
          MaxClock, MaxPermits   \* bounds

\* AuthorizationRequest: the chunks asked for are a tuple without repetition.
ASSUME RequestsAssumption ==
    \A r \in Requests : /\ r = [action |-> r.action, set |-> r.set, chunks |-> r.chunks]
                        /\ r.chunks # <<>> /\ r.chunks \in Seq(ToSet(r.chunks))
                        /\ \A i, j \in DOMAIN r.chunks : r.chunks[i] = r.chunks[j] => i = j
ASSUME TimeAssumption == {PrincipalExpiresAt, PermitTtl, CacheTtl} \subseteq Nat

VARIABLES policy, membership,               \* InMemoryAuthorizationStateStore
          clock,
          cache,                            \* BoundedAuthorizationDecisionCache
          permits,                          \* the permits issued so far
          consumed,                         \* PermitUseStore
          worker

authorizationState == <<policy, membership>>
authorizationVars == <<provenanceVars, authorizationState, clock, cache, permits, consumed>>

Idle == [pc |-> "idle"]
AuthorizationInit ==
    /\ ProvenanceInit
    /\ \E entries \in Policies : policy = [epoch |-> 1, entries |-> entries]
    /\ membership = [active |-> TRUE, rev |-> 1]
    /\ clock = 0 /\ cache = {} /\ permits = {} /\ consumed = {}
    /\ worker = [a \in Workers |-> Idle]

Become(a, record) == worker' = [worker EXCEPT ![a] = record]
Rest(a) == Become(a, Idle)

-----------------------------------------------------------------------------
\* The state store: every change of the policy advances the epoch, every change of the
\* membership its revision.
RevokeGrant ==
    /\ \E e \in policy.entries :
        policy' = [epoch |-> policy.epoch + 1, entries |-> policy.entries \ {e}]
    /\ UNCHANGED membership

AdvanceEpoch ==
    /\ policy' = [policy EXCEPT !.epoch = @ + 1]
    /\ UNCHANGED membership

ReplaceMembership ==
    /\ \E active \in BOOLEAN : membership' = [active |-> active, rev |-> membership.rev + 1]
    /\ UNCHANGED policy

\* _require_available: the store may be out of reach at any read, which then raises; the caller
\* answers INDETERMINATE and nothing has changed.
Unavailable(a) == Rest(a)

\* What has happened so far, for the bound of the module that composes this one.
Events == revision + policy.epoch + membership.rev + clock + Cardinality(permits) - 2

\* Publications, administrators and time move on their own.
Environment ==
    /\ \/ ProvenanceNext /\ UNCHANGED <<authorizationState, clock>>
       \/ (RevokeGrant \/ AdvanceEpoch \/ ReplaceMembership) /\ UNCHANGED <<provenanceVars, clock>>
       \/ clock < MaxClock /\ clock' = clock + 1 /\ UNCHANGED <<provenanceVars, authorizationState>>
    /\ UNCHANGED <<cache, permits, consumed, worker>>

-----------------------------------------------------------------------------
\* ResourceRef.is_ancestor_of, and the resource of one chunk.
IsAncestorOf(resource, other) == IsPrefix(resource, other)
ResourceOf(s) == <<"tenant", "document", s>>
ChunkResource(s, c) == Append(ResourceOf(s), c)

\* AuthorizationRevisionVector.
Revisions(m, p) == [membership |-> m.rev, policy |-> p.epoch]

\* PolicyDecisionPoint.evaluate: default deny, an applicable deny overrides, and grants on
\* single chunks count only where the policy lets them expand.
Evaluate(request, m, p, now) ==
    LET chunks == ToSet(request.chunks)
        Covers(e) == {c \in chunks : IsAncestorOf(e.resource, ChunkResource(request.set, c))}
        applicable == {e \in p.entries : e.action = request.action /\ Covers(e) # {}}
        Allows(c) == {e \in applicable : e.effect = "ALLOW" /\ c \in Covers(e)}
    IN  FirstMatch(<<
            <<PrincipalExpiresAt <= now,                                      "DENY">>,
            <<~m.active,                                                      "DENY">>,
            <<request.action \notin SupportedActions,                         "DENY">>,
            <<request.action = "embed" /\ PrincipalKind # "SERVICE",          "DENY">>,
            <<\E e \in applicable : e.effect = "DENY",                        "DENY">>,
            <<\E c \in chunks : Allows(c) = {},                               "DENY">>,
            <<~ChunkAllowMayExpand /\ \E c \in chunks : \A e \in Allows(c) : Len(e.resource) = 4,
                                                                              "DENY">>,
            <<TRUE,                                                           "ALLOW">> >>)

\* PolicyInformationPoint.load starts from the current provenance of the requested set.
Load(a) ==
    /\ worker[a] = Idle /\ Cardinality(permits) < MaxPermits
    /\ \E r \in Requests :
        /\ binding # None /\ r.set = binding.set /\ ToSet(r.chunks) \subseteq ChunksOf[r.set]
        /\ Become(a, [pc |-> "load_membership", request |-> r, binding |-> binding])
    /\ UNCHANGED authorizationVars

LoadMembership(a) ==
    /\ worker[a].pc = "load_membership"
    /\ \/ Become(a, [pc |-> "load_policy", request |-> worker[a].request, binding |-> worker[a].binding,
                      membership |-> membership])
       \/ Unavailable(a)
    /\ UNCHANGED authorizationVars

\* BoundedAuthorizationDecisionCache.key, get and put.
CacheKey(r, b, revisions) == [request |-> r, binding |-> b, revisions |-> revisions]
Cached(key) == {x \in cache : x.key = key /\ x.expiresAt > clock}
Cache(key, decision) ==
    {x \in cache : x.key # key} \cup {[key |-> key, expiresAt |-> clock + CacheTtl, decision |-> decision]}

\* PermitIssuer.issue; the nonce makes every permit different.
Permit(r, b, revisions) ==
    [id |-> Cardinality(permits) + 1, request |-> r, binding |-> b, revisions |-> revisions,
     expiresAt |-> clock + PermitTtl]

\* RAGAuthorizationService.authorize from the read of the policy on.
Decide(a) ==
    /\ worker[a].pc = "load_policy" /\ Rest(a)
    /\ LET r == worker[a].request  b == worker[a].binding
           revisions == Revisions(worker[a].membership, policy)
           key == CacheKey(r, b, revisions)
           fresh == Evaluate(r, worker[a].membership, policy, clock)
       IN  \/ UNCHANGED <<cache, permits>>    \* the policy could not be read
           \/ \E decision \in IF Cached(key) # {} THEN {x.decision : x \in Cached(key)} ELSE {fresh} :
                /\ cache' = IF Cached(key) # {} THEN cache ELSE Cache(key, decision)
                /\ permits' = IF decision = "ALLOW" /\ Cardinality(permits) < MaxPermits
                              THEN permits \cup {Permit(r, b, revisions)} ELSE permits
    /\ UNCHANGED <<provenanceVars, authorizationState, clock, consumed>>

-----------------------------------------------------------------------------
\* GuardedChunkReader.read: signature, context, expiry and provenance.  asOf is what was true
\* when the read began (a history value).
BeginRead(a) ==
    /\ worker[a] = Idle
    /\ \E p \in permits :
        /\ p.expiresAt > clock /\ PrincipalExpiresAt > clock
        /\ binding = p.binding
        /\ Become(a, [pc |-> "read_membership", permit |-> p,
                      asOf |-> [membership |-> membership, policy |-> policy, clock |-> clock]])
    /\ UNCHANGED authorizationVars

ReadMembership(a) ==
    /\ worker[a].pc = "read_membership"
    /\ IF membership.active
       THEN \/ Become(a, [pc |-> "read_policy", permit |-> worker[a].permit, asOf |-> worker[a].asOf,
                          membership |-> membership])
            \/ Unavailable(a)
       ELSE Rest(a)
    /\ UNCHANGED authorizationVars

\* Mutant: only the policy's part of the revision vector is compared.
PolicyRevisionOnly(permit, m, p) == permit.revisions.policy = p.epoch

\* The permit's revision vector against the current one.
RevisionsCurrent(permit, m, p) == permit.revisions = Revisions(m, p)

ReadPolicy(a) ==
    /\ worker[a].pc = "read_policy"
    /\ IF RevisionsCurrent(worker[a].permit, worker[a].membership, policy)
       THEN \/ Become(a, [pc |-> "consume", permit |-> worker[a].permit, asOf |-> worker[a].asOf])
            \/ Unavailable(a)
       ELSE Rest(a)
    /\ UNCHANGED authorizationVars

\* PermitUseStore.
Unused(p) == p.id \notin consumed

\* consume_once, then the release of the chunks; `released` is what the caller goes on with.
Consume(a, released) ==
    LET p == worker[a].permit IN
    /\ worker[a].pc = "consume"
    /\ IF Unused(p)
       THEN consumed' = consumed \cup {p.id} /\ Become(a, released)
       ELSE Rest(a) /\ UNCHANGED consumed
    /\ UNCHANGED <<provenanceVars, authorizationState, clock, cache, permits>>

\* A revocation, an epoch change, an inactive membership or a new publication that was complete
\* when a read began always blocks it, though decision, permit and read each looked at the facts
\* one at a time and the decision may come from the cache: what is released was allowed by the
\* policy and the membership in force at that moment.
ReleasedWasAuthorized ==
    [][\A a \in Workers :
        worker[a].pc = "consume" /\ consumed' # consumed /\ worker'[a] # worker[a] =>
            LET p == worker[a].permit  then == worker[a].asOf IN
            /\ Evaluate(p.request, then.membership, then.policy, then.clock) = "ALLOW"
            /\ p.id \notin consumed]_<<consumed, worker>>
===============================================================================
