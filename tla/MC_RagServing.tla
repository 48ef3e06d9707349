---------------------------- MODULE MC_RagServing ----------------------------
EXTENDS RagServing

MCRecords == 1 :> [tenant |-> "own", chunkSet |-> "s", meta |-> [lang |-> "en"], size |-> 1]
          @@ 2 :> [tenant |-> "own", chunkSet |-> "s", meta |-> [lang |-> "de"], size |-> 1]
          @@ 3 :> [tenant |-> "own", chunkSet |-> "s", meta |-> [kind |-> "note"], size |-> 2]
          @@ 4 :> [tenant |-> "other", chunkSet |-> "s", meta |-> [lang |-> "en"], size |-> 1]
MCQueries == [q |-> [lexical |-> <<3, 0, 1, 4>>, dense |-> <<1, 2, 3, 4>>, sensitive |-> FALSE],
              r |-> [lexical |-> <<0, 2, 2, 0>>, dense |-> <<3, 3, 1, 0>>, sensitive |-> FALSE],
              secret |-> [lexical |-> <<1, 1, 0, 0>>, dense |-> <<1, 1, 1, 1>>, sensitive |-> TRUE]]
Bundle == [encoder |-> "e1", chunkSet |-> "s", depth |-> 2, rrfK |-> 1, lexicalWeight |-> 1,
           denseWeight |-> 1, maxTopK |-> 3, rounds |-> 3, budget |-> 6, deadlineMs |-> 1000,
           lexicalOnly |-> TRUE, denseOnly |-> TRUE, eligible |-> FALSE, classroom |-> TRUE]
MCBundles == <<Bundle, [Bundle EXCEPT !.depth = 1, !.rounds = 2, !.lexicalOnly = FALSE, !.denseOnly = FALSE,
                                      !.budget = 3]>>

Leaf(field, value) == [op |-> "EQ", field |-> field, values |-> {value}, children |-> <<>>]
Node(op, children) == [op |-> op, field |-> Nothing, values |-> {}, children |-> children]
En == Leaf("lang", "en")
De == Leaf("lang", "de")
Either == Node("OR", <<En, De>>)
NotEn == Node("NOT", <<En>>)
Acl == Leaf("acl", "x")
MCFilterNodes == {En, De, Either, NotEn, Acl}
MCFilterRules == [supported |-> {"EQ"}, splitOr |-> TRUE, postFilter |-> TRUE, maxDepth |-> 2, maxNodes |-> 3,
                  fields |-> [lang |-> {"en", "de"}, kind |-> {"note"}]]

Ask1(q, k, f) == [query |-> q, topK |-> k, filter |-> f, encoder |-> Nothing, override |-> FALSE, action |-> TRUE]
MCRequests == {Ask1("q", 1, Nothing), Ask1("q", 3, NotEn), Ask1("q", 3, Either), Ask1("q", 1, Acl),
               Ask1("secret", 2, Nothing), [Ask1("q", 1, Nothing) EXCEPT !.override = TRUE]}
MCRankingRequests == {Ask1("q", 2, Nothing), Ask1("r", 1, Nothing)}

Variant(q) == [query |-> q, allowedSource |-> TRUE, locale |-> TRUE, chars |-> 1, inScope |-> TRUE]
MCRewrites == [q |-> <<Variant("r")>>, r |-> <<Variant("r"), [Variant("secret") EXCEPT !.inScope = FALSE],
                                               Variant("q")>>, secret |-> <<>>]
Lenient == [bundle |-> 1, production |-> FALSE, classroom |-> TRUE, rewriteEgress |-> TRUE,
            originalOnEgressDenied |-> TRUE, originalOnFailure |-> TRUE, originalOnTimeout |-> TRUE,
            partialVariants |-> TRUE, maxVariants |-> 1, maxChars |-> 2, originalBytes |-> 1, maxBytes |-> 3,
            maxExecuted |-> 2, maxObservations |-> 4, partialVariantFailures |-> TRUE,
            fusionK |-> 1, maxUnique |-> 3, maxCandidates |-> 3, topN |-> 2, output |-> "FULL_PERMUTATION",
            rerankEgress |-> TRUE, unrerankedOnEgressDenied |-> TRUE, unrerankedOnFailure |-> TRUE,
            unrerankedOnTimeout |-> TRUE, unrerankedOnInvalid |-> TRUE]
MCRankingPolicies == {Lenient,
    [Lenient EXCEPT !.partialVariants = FALSE, !.originalOnTimeout = FALSE, !.partialVariantFailures = FALSE,
                    !.output = "TOP_N", !.topN = 1, !.unrerankedOnInvalid = FALSE, !.maxUnique = 2, !.maxCandidates = 1],
    [Lenient EXCEPT !.rerankEgress = FALSE], [Lenient EXCEPT !.production = TRUE]}
MCScores == <<1, 3, 2, 0>>

MCClaim(id, item, at, cites) == [id |-> id, item |-> item, start |-> at, end |-> at + 1, exact |-> TRUE, cites |-> cites]
MCExtractions == {<<MCClaim("a", "i", 0, {2}), MCClaim("b", "j", 1, {3})>>,
                  <<MCClaim("a", "i", 0, {2}), MCClaim("b", "j", 0, {1})>>,
                  <<MCClaim("a", "i", 0, {2, 3}), MCClaim("b", "j", 1, {})>>,
                  <<MCClaim("a", "i", 0, {2, 3})>>}
MCRelations == {[a |-> "SUPPORTED", b |-> "SUPPORTED"], [a |-> "SUPPORTED", b |-> "CONTRADICTION"],
                [a |-> "UNSUPPORTED", b |-> "UNSUPPORTED"]}
Fallback == [present |-> TRUE, onTimeout |-> TRUE, onFailure |-> FALSE]
MCGrounding == [maxWindows |-> 3, maxWindowChars |-> 2, maxTotalChars |-> 4, maxClaims |-> 2, selected |-> <<>>,
                generatorEgress |-> TRUE, verifierEgress |-> TRUE, degradedHandoff |-> TRUE,
                generator |-> Fallback, verifier |-> Fallback]
=============================================================================
