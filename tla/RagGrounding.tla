----------------------------- MODULE RagGrounding -----------------------------
(***************************************************************************)
(* Grounded answers (day102) from a day101 handoff.  execute validates the *)
(* handoff and rechecks its sources, plans the windows, has an answer      *)
(* generated and its claims extracted and verified, and rechecks the cited *)
(* sources before a claim is released.  `grounding` is the request in      *)
(* progress.  A claim is [id, item, start, end, exact, cites].             *)
(***************************************************************************)
EXTENDS RagReranking

CONSTANTS Items,                 \* the request items to be answered
          Extractions,           \* what the extractor may find: sequences of claims
          Relations,             \* what the verifier may say: [claim id -> relation]
          Grounding              \* GroundingContract, egress and degradation policies

\* GroundingContract, the egress policies and GroundingDegradationPolicy.
WellFormedGrounding(g) ==
    /\ g.maxWindows > 0 /\ g.maxWindowChars > 0 /\ g.maxClaims > 0 /\ g.maxTotalChars >= g.maxWindowChars
    /\ {g.generatorEgress, g.verifierEgress, g.degradedHandoff, g.generator.onTimeout, g.generator.onFailure,
        g.verifier.onTimeout, g.verifier.onFailure} \subseteq BOOLEAN
\* GroundingRequest: at least one item.  ExtractedClaim: a non-empty span.
WellFormedItems(items) == items # {}
WellFormedClaim(c) == c.start >= 0 /\ c.end > c.start
ASSUME GroundingAssumption ==
    /\ WellFormedGrounding(Grounding) /\ WellFormedItems(Items)
    /\ \A e \in Extractions : \A i \in DOMAIN e : WellFormedClaim(e[i])

VARIABLES superseded, grounding

NoGrounding == [pc |-> "idle"]
GroundingInit == superseded = {} /\ grounding = NoGrounding

\* Day102Response, _finish and _empty_response; clean: nothing failed since the request began.
GroundingReply(g, outcome, released) ==
    [pc |-> "done", outcome |-> outcome, released |-> released, handoff |-> g.handoff,
     clean |-> faults = g.met]
GroundingEnds(outcome) == grounding' = GroundingReply(grounding, outcome, <<>>)

\* _validate_handoff: the digest and query of the request, complete hits, an outcome that may be used.
ValidHandoff(handoff, query, bound) ==
    /\ bound /\ handoff.req.query = query
    /\ handoff.hits # <<>> /\ IsInjective(handoff.hits)
    /\ \A i \in DOMAIN handoff.hits : Records[handoff.hits[i]].tenant = Tenant
    /\ handoff.outcome = "FULL" \/ (handoff.outcome = "DEGRADED" /\ Grounding.degradedHandoff)

\* recheck_identities of the grounding oracle.
Current(occs) == {o \in occs : o \in scope.allowed /\ o \notin superseded /\ o \in provenance["grounding"]}

\* SourceWindow and GroundingBundle: the windows under the handoff and what was left of it.
GroundingBundle(handoff, windows, rejected) ==
    [pc |-> "generate", handoff |-> handoff, met |-> faults, windows |-> windows, rejected |-> rejected]

\* The selector: every current hit in its order, or a configured selection.
SelectWindows(hits) == IF Grounding.selected = <<>> THEN hits ELSE Grounding.selected
\* GroundingContextPlanner.plan with its selector: the selected windows, Nothing for GroundingPlanError.
WindowPlan(hits) ==
    LET wanted == SelectWindows(hits)
        chosen == SubSeq(wanted, 1, Min({Grounding.maxWindows, Len(wanted)}))
        chars == FoldLeft(LAMBDA n, o : n + Records[o].size, 0, chosen)
    IN  IF /\ chosen # <<>> /\ IsInjective(chosen) /\ ToSet(chosen) \subseteq ToSet(hits)
           /\ \A i \in DOMAIN chosen : Records[chosen[i]].size <= Grounding.maxWindowChars
           /\ chars <= Grounding.maxTotalChars
        THEN ToSet(chosen) ELSE Nothing

\* _egress_failure: query and sources may go to the generator, claims and sources to the verifier.
EgressAllowed == Grounding.generatorEgress /\ Grounding.verifierEgress

\* execute, up to the generator.  bound is whether the caller brings the handoff's own digest.
Ground(query, bound) ==
    /\ ranking.pc = "done" /\ grounding.pc \in {"idle", "done"}
    /\ LET hits == ranking.hits
           current == SelectSeq(hits, LAMBDA o : o \in Current(ToSet(hits)))
           windows == WindowPlan(current)
           g == GroundingBundle(ranking, windows, current # hits)
       IN  grounding' = FirstMatch(<<
            <<~ValidHandoff(ranking, query, bound), GroundingReply(g, "REJECTED", <<>>)>>,
            <<current = <<>>, GroundingReply(g, "ABSTAINED", <<>>)>>,
            <<windows = Nothing \/ ~EgressAllowed, GroundingReply(g, "REJECTED", <<>>)>>,
            <<TRUE, g>> >>)
    /\ UNCHANGED faults

\* The precheck's authorization read raises, for a handoff that would be accepted.
GroundUnavailable(query) ==
    /\ ranking.pc = "done" /\ grounding.pc \in {"idle", "done"}
    /\ ValidHandoff(ranking, query, TRUE)
    /\ faults < MaxFaults /\ faults' = faults + 1
    /\ grounding' = GroundingReply([handoff |-> ranking, met |-> faults], "UNAVAILABLE", <<>>)

\* validate_claims: the extraction as a whole,
ValidExtraction(claims) ==
    LET ordered == SortSeq(claims, LAMBDA c, d : c.start < d.start)
    IN  /\ Len(claims) <= Grounding.maxClaims
        /\ \A i, j \in DOMAIN claims : i # j => claims[i].id # claims[j].id
        /\ \A i \in DOMAIN ordered : /\ ordered[i].exact /\ ordered[i].item \in Items
                                     /\ i > 1 => ordered[i].start >= ordered[i - 1].end
\* and each claim: cited, and from the bundle's windows.
WellCited(c, windows) == c.cites # {} /\ c.cites \subseteq windows

\* _run_generator: the primary, and on its timeout or failure the fallback where the policy allows it.
ProviderStates == {"ok", "FAILED", "TIMEOUT"}
\* Mutant of FallbackMode: an answer of the fallback is taken for the primary's.
FallbackAsPrimary(primary, fallback, g) ==
    IF primary = "ok" \/ (g.present /\ fallback = "ok" /\ IF primary = "TIMEOUT" THEN g.onTimeout ELSE g.onFailure)
    THEN "PRIMARY" ELSE "NONE"
FallbackMode(primary, fallback, g) ==
    FirstMatch(<<
        <<primary = "ok", "PRIMARY">>,
        <<~(IF primary = "TIMEOUT" THEN g.onTimeout ELSE g.onFailure) \/ ~g.present, "NONE">>,
        <<fallback = "ok", "FALLBACK">>, <<TRUE, "NONE">> >>)
ProviderFaults(primary, fallback) ==
    (IF primary = "ok" THEN 0 ELSE 1) + (IF fallback = "ok" THEN 0 ELSE 1)
Generate ==
    /\ grounding.pc = "generate"
    /\ \E primary, fallback \in ProviderStates, bound \in BOOLEAN, claims \in Extractions :
       LET mode == FallbackMode(primary, fallback, Grounding.generator)
           cost == ProviderFaults(primary, fallback) + (IF bound THEN 0 ELSE 1)
           accepted == SelectSeq(claims, LAMBDA c : WellCited(c, grounding.windows))
       IN  /\ primary = "ok" => fallback = "ok"
           /\ faults' = faults + cost /\ faults' \in 0 .. MaxFaults
           /\ IF mode = "NONE" THEN GroundingEnds("UNAVAILABLE")
              ELSE IF ~bound \/ ~ValidExtraction(claims) THEN GroundingEnds("REJECTED")
              ELSE IF accepted = <<>> THEN GroundingEnds("ABSTAINED")
              ELSE grounding' = [pc |-> "verify", handoff |-> grounding.handoff, met |-> grounding.met,
                                 rejected |-> grounding.rejected, claims |-> accepted,
                                 refused |-> accepted # claims, fallback |-> mode = "FALLBACK"]

\* The verifier's relation of a claim; only SUPPORTED survives relation_failure_reason.
Supported(claims, relation) == SelectSeq(claims, LAMBDA c : relation[c.id] = "SUPPORTED")
\* _run_verifier and validate_verification; bound is whether the results name exactly the claims,
\* their citations, this bundle and the revision of the verifier that ran.
Verify ==
    /\ grounding.pc = "verify"
    /\ \E primary, fallback \in ProviderStates, bound \in BOOLEAN, relation \in Relations :
       LET mode == FallbackMode(primary, fallback, Grounding.verifier)
           cost == ProviderFaults(primary, fallback) + (IF bound THEN 0 ELSE 1)
           supported == Supported(grounding.claims, relation)
           g == [grounding EXCEPT !.claims = supported, !.refused = @ \/ supported # grounding.claims,
                                  !.fallback = @ \/ mode = "FALLBACK", !.pc = "final"]
       IN  /\ primary = "ok" => fallback = "ok"
           /\ faults' = faults + cost /\ faults' \in 0 .. MaxFaults
           /\ IF mode = "NONE" THEN GroundingEnds("UNAVAILABLE")
              ELSE IF ~bound THEN GroundingEnds("REJECTED")
              ELSE IF supported = <<>> THEN GroundingEnds("ABSTAINED")
              ELSE grounding' = g

\* _coverage: the items a released claim answers.
Answered(released) == {released[i].item : i \in DOMAIN released}

\* The last recheck, of the cited sources; a claim with any stale citation is dropped.
FullyCited(c, current) == c.cites \subseteq current
ReleaseClaims ==
    /\ grounding.pc = "final"
    /\ LET cited == UNION {c.cites : c \in ToSet(grounding.claims)}
           current == Current(cited)
           released == SelectSeq(grounding.claims, LAMBDA c : FullyCited(c, current))
           degraded == \/ grounding.handoff.outcome = "DEGRADED" \/ grounding.fallback
                       \/ grounding.rejected \/ current # cited
       IN  grounding' = GroundingReply(grounding, FirstMatch(<<
                <<released = <<>>, "ABSTAINED">>,
                <<Answered(released) # Items \/ grounding.refused \/ released # grounding.claims, "PARTIAL">>,
                <<degraded, "DEGRADED">>, <<TRUE, "FULL">> >>), released)
    /\ UNCHANGED faults

ReleaseUnavailable ==
    /\ grounding.pc = "final" /\ faults < MaxFaults /\ faults' = faults + 1
    /\ GroundingEnds("UNAVAILABLE")

GroundingStep ==
    /\ Generate \/ Verify \/ ReleaseClaims \/ ReleaseUnavailable
    /\ UNCHANGED <<scope, provenance, superseded, selected, _clock, retrievalStores, call, ranking>>

\* mark_superseded of the grounding oracle.
MarkSuperseded(o) == o \notin superseded /\ superseded' = superseded \cup {o}

=============================================================================
