------------------------ MODULE MultiAgentCoordination ------------------------
(***************************************************************************)
(* Handoffs from a parent Job to child workers (day85,                     *)
(* InMemoryCoordinationStore): acceptance with budget, fan-out and         *)
(* concurrency limits, claims and lease takeovers, the dispatch fence,     *)
(* cancellation, result verification and aggregation.                      *)
(***************************************************************************)
EXTENDS Integers, FiniteSetsExt, TLC, FirstMatch

CONSTANTS Handoffs, ChildWorkers,
          HandoffCandidates,        \* semantic contents of a handoff: [tokens, required]
          FactValues,        \* values a child may report for the one fact key
          ParentReservation, \* parent_token_reservation
          MaxFanOut, ConcurrencyLimit,
          MaxFence,          \* bound on claims and takeovers of one handoff
          Absent

ASSUME LimitsAssumption == /\ {ParentReservation, MaxFanOut, ConcurrencyLimit, MaxFence} \subseteq Nat
                           /\ ParentReservation > 0
                           /\ \A c \in HandoffCandidates : c.tokens \in Nat \ {0} /\ c.required \in BOOLEAN

VARIABLES records,          \* handoff_id -> HandoffRecord or Absent
          facts,            \* result_evidence of verified results; the rest is kept and never read
          parent_terminal,
          ticket,           \* the fence each worker got from its claim or takeover
          childCalls,       \* provider dispatches allowed: what the external world saw
          lapsed            \* handoffs whose deadline, hence grant, has passed

store == <<records, facts, parent_terminal>>
handoffVars == <<store, ticket, childCalls, lapsed>>

HandoffState == {"ACCEPTED", "CLAIMED", "DISPATCHED", "PENDING_RECONCILIATION",
                 "VERIFIED_COMPLETED", "FAILED", "CANCELLED"}

HandoffRecord == [candidate : HandoffCandidates, state : HandoffState, owner : ChildWorkers \cup {Absent},
                  lease : {"live", "expired", Absent}, fence : Nat,
                  operation : (ChildWorkers \X Nat) \cup {Absent},
                  cancellation : BOOLEAN, allocation : {"HELD", "RELEASED"}, published : BOOLEAN]

ASSUME AbsentAssumption == Absent \notin ChildWorkers /\ Absent \notin HandoffRecord

Known == {h \in Handoffs : records[h] # Absent}
InState(S) == {h \in Known : records[h].state \in S}

HandoffInit == /\ records = [h \in Handoffs |-> Absent]
        /\ facts = {} /\ parent_terminal = FALSE
        /\ ticket = [w \in ChildWorkers |-> [h \in Handoffs |-> 0]]
        /\ childCalls = {} /\ lapsed = {}

Update(h, r) == records' = [records EXCEPT ![h] = r]

-----------------------------------------------------------------------------

allocated_tokens == MapThenSumSet(LAMBDA h : records[h].candidate.tokens,
                                  {h \in Known : records[h].allocation = "HELD"})

\* DUPLICATE and SEMANTIC_CONFLICT leave the accepted record alone.
IsNew(h, c) == records[h] = Absent

Active == InState(HandoffState \ {"CANCELLED", "VERIFIED_COMPLETED", "FAILED"})

\* accept: the checks on what the store holds and on the deadline.  The checks on what
\* the caller supplies (scope, policy, contracts, context, capabilities) only refuse.
accept(h, c) ==
    /\ IsNew(h, c)
    /\ h \notin lapsed
    /\ Cardinality(Known) < MaxFanOut
    /\ Cardinality(Active) < ConcurrencyLimit
    /\ allocated_tokens + c.tokens <= ParentReservation
    /\ Update(h, [candidate |-> c, state |-> "ACCEPTED", owner |-> Absent, lease |-> Absent, fence |-> 0,
                  operation |-> Absent, cancellation |-> FALSE, allocation |-> "HELD",
                  published |-> FALSE])
    /\ UNCHANGED <<facts, parent_terminal, ticket, childCalls, lapsed>>

mark_outbox_published(h) ==
    /\ h \in Known /\ ~records[h].published
    /\ Update(h, [records[h] EXCEPT !.published = TRUE])
    /\ UNCHANGED <<facts, parent_terminal, ticket, childCalls, lapsed>>

\* claim: the first worker wins; delivery of the intent is not a condition.
claim(w, h) ==
    /\ h \in Known /\ records[h].state # "CANCELLED" /\ records[h].owner = Absent
    /\ Update(h, [records[h] EXCEPT !.state = "CLAIMED", !.owner = w, !.lease = "live", !.fence = @ + 1])
    /\ ticket' = [ticket EXCEPT ![w][h] = records[h].fence + 1]
    /\ UNCHANGED <<facts, parent_terminal, childCalls, lapsed>>

\* take_over_expired_handoff_lease looks at the lease only, not at the state.
take_over_expired_handoff_lease(w, h) ==
    /\ h \in Known /\ records[h].owner # Absent /\ records[h].lease = "expired"
    /\ records[h].fence < MaxFence
    /\ Update(h, [records[h] EXCEPT !.owner = w, !.lease = "live", !.fence = @ + 1])
    /\ ticket' = [ticket EXCEPT ![w][h] = records[h].fence + 1]
    /\ UNCHANGED <<facts, parent_terminal, childCalls, lapsed>>

\* Mutant: a handoff that is already dispatched may be dispatched by a new owner.
AllowsRedispatch(w, h) ==
    LET r == records[h] IN
    r.state \in {"CLAIMED", "DISPATCHED"} /\ r.fence = ticket[w][h] /\ r.owner = w /\ r.lease = "live"

\* The capabilities of the grant and of current policy are supplied by the caller and can
\* only refuse.  The expiry of the grant is not looked at.
authorize_provider_dispatch(w, h) ==
    LET r == records[h] IN
    /\ r.state = "CLAIMED" /\ r.fence = ticket[w][h] /\ r.owner = w /\ r.lease = "live"

\* record_provider_dispatch; ALLOWED lets the worker make the call.
record_provider_dispatch(w, h) ==
    LET r == records[h] IN
    /\ h \in Known /\ authorize_provider_dispatch(w, h)
    /\ Update(h, [r EXCEPT !.state = "DISPATCHED", !.operation = <<w, r.fence>>])
    /\ childCalls' = childCalls \cup {[handoff |-> h, worker |-> w, fence |-> r.fence]}
    /\ UNCHANGED <<facts, parent_terminal, ticket, lapsed>>

\* The dispatching worker reports that it does not know the outcome.
mark_outcome_unknown(w, h) ==
    /\ h \in Known /\ records[h].state = "DISPATCHED"
    /\ records[h].operation = <<w, ticket[w][h]>>
    /\ Update(h, [records[h] EXCEPT !.state = "PENDING_RECONCILIATION"])
    /\ UNCHANGED <<facts, parent_terminal, ticket, childCalls, lapsed>>

cancel(h) ==
    /\ h \in Known /\ records[h].state \notin {"CANCELLED", "VERIFIED_COMPLETED"}
    /\ IF records[h].state \in {"ACCEPTED", "CLAIMED"}
       THEN Update(h, [records[h] EXCEPT !.state = "CANCELLED", !.cancellation = TRUE,
                                         !.allocation = "RELEASED"])
       ELSE Update(h, [records[h] EXCEPT !.state = "PENDING_RECONCILIATION", !.cancellation = TRUE])
    /\ UNCHANGED <<facts, parent_terminal, ticket, childCalls, lapsed>>

\* Mutant: a result counts whatever happened to the handoff since the dispatch.
TrustsOwner(w, h) == records[h].fence = ticket[w][h] /\ records[h].owner = w

\* The guards of verify_result; contract, attempt and source versions can only refuse.
Verified(w, h) == /\ ~parent_terminal
                  /\ records[h].fence = ticket[w][h] /\ records[h].owner = w
                  /\ records[h].state = "DISPATCHED"

\* verify_result: a verified candidate becomes a fact; every other one changes nothing
\* that is read again.
verify_result(w, h, v) ==
    /\ h \in Known /\ ticket[w][h] > 0 /\ Verified(w, h)
    /\ facts' = facts \cup {[handoff |-> h, worker |-> w, fence |-> ticket[w][h], value |-> v]}
    /\ Update(h, [records[h] EXCEPT !.state = "VERIFIED_COMPLETED"])
    /\ UNCHANGED <<parent_terminal, ticket, childCalls, lapsed>>

\* External: the parent ends; the clock passes a lease or a deadline.
ParentEnds == /\ ~parent_terminal /\ parent_terminal' = TRUE
              /\ UNCHANGED <<records, facts, ticket, childCalls, lapsed>>
Expire(h) == /\ h \in Known /\ records[h].lease = "live"
             /\ Update(h, [records[h] EXCEPT !.lease = "expired"])
             /\ UNCHANGED <<facts, parent_terminal, ticket, childCalls, lapsed>>
Lapse(h) == /\ h \notin lapsed /\ lapsed' = lapsed \cup {h}
            /\ UNCHANGED <<store, ticket, childCalls>>

aggregate ==
    LET verified == InState({"VERIFIED_COMPLETED"})
        required == {h \in Known : records[h].candidate.required}
    IN FirstMatch(<<
        <<parent_terminal,                          "PARENT_TERMINAL">>,
        <<~(required \subseteq verified),           "WAITING_FOR_REQUIRED">>,
        <<Cardinality({e.value : e \in facts}) > 1, "CONFLICT">>,
        <<~(Known \subseteq verified),              "PARTIAL">>,
        <<TRUE,                                     "READY">> >>)

HandoffNext == \/ \E h \in Handoffs : \/ \E c \in HandoffCandidates : accept(h, c)
                               \/ mark_outbox_published(h) \/ cancel(h) \/ Expire(h) \/ Lapse(h)
        \/ \E w \in ChildWorkers, h \in Handoffs :
               \/ claim(w, h) \/ take_over_expired_handoff_lease(w, h) \/ record_provider_dispatch(w, h)
               \/ mark_outcome_unknown(w, h)
               \/ \E v \in FactValues : verify_result(w, h, v)
        \/ ParentEnds

HandoffSpec == HandoffInit /\ [][HandoffNext]_handoffVars

-----------------------------------------------------------------------------
HandoffTypeOK == /\ records \in [Handoffs -> HandoffRecord \cup {Absent}]
          /\ facts \subseteq [handoff : Handoffs, worker : ChildWorkers, fence : Nat, value : FactValues]
          /\ parent_terminal \in BOOLEAN /\ lapsed \subseteq Handoffs
          /\ ticket \in [ChildWorkers -> [Handoffs -> Nat]]
          /\ childCalls \subseteq [handoff : Handoffs, worker : ChildWorkers, fence : Nat]

\* Lease takeovers never lead to a second provider call for one handoff, and tokens are
\* given back only where no provider call was, or ever will be, made.
OneCallPerHandoff ==
    /\ \A x, y \in childCalls : x.handoff = y.handoff => x = y
    /\ \A x \in childCalls : records[x.handoff].allocation = "HELD"

\* A handoff yields at most one fact, only after a provider call was made for it under this
\* fence or an earlier one, and none once it is cancelled; READY means that every child of
\* the parent delivered its fact and the facts agree.
ReadyIsEarned ==
    /\ \A e \in facts :
        /\ \E x \in childCalls : x.handoff = e.handoff /\ x.fence <= e.fence
        /\ records[e.handoff].state = "VERIFIED_COMPLETED" /\ ~records[e.handoff].cancellation
        /\ \A d \in facts : d.handoff = e.handoff => d = e
    /\ aggregate = "READY" =>
        /\ \A h \in Known : \E e \in facts : e.handoff = h
        /\ \A d, e \in facts : d.value = e.value

\* For TLC: a cheap optional and a costly required child; the identities of handoffs, workers and
\* values are interchangeable.
SmallCandidates == {[tokens |-> 1, required |-> FALSE], [tokens |-> 2, required |-> TRUE]}
HandoffSymmetry == Permutations(Handoffs) \cup Permutations(ChildWorkers) \cup Permutations(FactValues)
=============================================================================
