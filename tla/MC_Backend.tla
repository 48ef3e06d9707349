------------------------------ MODULE MC_Backend ------------------------------
(***************************************************************************)
(* TLC instance of the in-memory backend: the agent's tool loop            *)
(* (AgentToolLoop) and the gates before a provider call                    *)
(* (ProviderResilience).  They share no state, so each runs while the      *)
(* other rests where it began.                                             *)
(***************************************************************************)
EXTENDS AgentToolLoop, ProviderResilience, TLC

\* The loop: one tool and a catalogued version of it the registry does not have, a report of
\* the own and one of another tenant.
MCReservations == {<<1, 1>>, <<2, 1>>}
v1 == <<"publish_report", "v1">>
v2 == <<"publish_report", "v2">>
MCCatalog == {v1, v2}
MCSchemas == v1 :> [required |-> {"tenant_id", "report_id"},
                    properties |-> [tenant_id |-> {"a", "b"}, report_id |-> {"r7", "r8"}]]
MCNarrowings == {[tool |-> v1, property |-> "report_id", allowed |-> {"r8"}]}
Args(tenant, report) == [tenant_id |-> tenant, report_id |-> report]
MCProposals == {[tool |-> v1, arguments |-> Args("a", "r7")]}
MCReports == "r7" :> [tenant |-> "a", status |-> "draft", version |-> 7]
             @@ "r8" :> [tenant |-> "b", status |-> "draft", version |-> 2]
MCAuths == {[tenant |-> "a", role |-> "publisher"], [tenant |-> "a", role |-> "viewer"]}
Returned == [parses |-> TRUE, fits |-> TRUE, published |-> TRUE, error |-> FALSE, own |-> TRUE]
MCOutcomes == {Returned, [Returned EXCEPT !.parses = FALSE], [Returned EXCEPT !.fits = FALSE],
               [Returned EXCEPT !.published = FALSE], [Returned EXCEPT !.error = TRUE], [Returned EXCEPT !.own = FALSE]}

MCInit == LoopInit /\ Init
MCNext == \/ Init /\ LoopNext /\ UNCHANGED vars
          \/ LoopInit /\ Next /\ UNCHANGED loopVars
MCSpec == MCInit /\ [][MCNext]_<<loopVars, vars>>

\* Controllers and workers share their names, so that one permutation renames both.
ASSUME SharedNames == Controllers = Workers
Symmetry == Permutations(Jobs) \cup Permutations(Workers)
=============================================================================
