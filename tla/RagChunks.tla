------------------------------ MODULE RagChunks ------------------------------
(***************************************************************************)
(* Cutting a parsed document into chunks (day96): ChunkingStrategyAdapter  *)
(* generates one chunk per turn of its loop, ChunkSetCandidateValidator    *)
(* judges the result against the canonical text without trusting it.       *)
(*                                                                         *)
(* A text is a sequence of symbols that are one token each: a word "w" (so *)
(* two never touch), a full stop, a space, a newline "n", a heading mark,  *)
(* a table bar and a backquote "q".  Offsets are those of the code, from 0.*)
(***************************************************************************)
EXTENDS Integers, Sequences, FiniteSets, SequencesExt, FirstMatch

CONSTANTS Texts, Contracts

\* ChunkingContract.__post_init__; the versions and the deadline are not data here.
WellFormed(c) ==
    /\ c.normalization \in {"identity", "collapse"}
    /\ 0 < c.soft /\ c.soft <= c.hard
    /\ 0 < c.useful /\ c.useful <= c.hard
    /\ 0 <= c.overlap /\ c.overlap < c.soft
    /\ \A budget \in {c.maxChunks, c.maxInput, c.maxOutput, c.maxWork, c.maxMemory} : budget > 0

ASSUME ChunkingAssumption == \A c \in Contracts : WellFormed(c)

VARIABLES text, contract,        \* the canonical text and the contract, fixed
          start,                 \* index of the next token
          chunks, work,          \* chunks so far, token work spent
          status                 \* "running", "READY" or the reason of a ChunkGenerationError

chunkingVars == <<text, contract, start, chunks, work, status>>

-----------------------------------------------------------------------------
\* normalize and the tokenizer: a run of spaces is one token under "collapse".  A token keeps
\* the source interval it stands for.
Tokens(t, normalization) ==
    LET starts == SelectSeq([i \in 1 .. Len(t) |-> i],
                            LAMBDA i : ~(normalization = "collapse" /\ i > 1 /\ t[i] = " " /\ t[i - 1] = " "))
    IN  [k \in 1 .. Len(starts) |->
            [symbol |-> t[starts[k]], from |-> starts[k] - 1,
             to |-> IF k = Len(starts) THEN Len(t) ELSE starts[k + 1] - 1]]

Symbols(tokens) == [k \in 1 .. Len(tokens) |-> tokens[k].symbol]
\* text[from:to] of the source, and its normalised form.
Slice(t, s) == SubSeq(t, s.from + 1, s.to)
Normalized(t, s, c) == Symbols(Tokens(Slice(t, s), c.normalization))

\* The boundary predicates, asked after e tokens of the normalised symbols.
At(symbols, i) == IF i \in 1 .. Len(symbols) THEN symbols[i] ELSE "end"
IsSection(s, e) == At(s, e + 1) = "#" /\ (e = 0 \/ At(s, e) = "n")
IsParagraph(s, e) == e > 1 /\ s[e] = "n" /\ s[e - 1] = "n"
IsSentence(s, e) ==
    \E i \in 1 .. e : s[i] = "." /\ \A j \in i + 1 .. e : s[j] \in {" ", "n"}
IsWhitespace(s, e) == At(s, e) \in {" ", "n"}
IsTableRow(s, e) == At(s, e) = "n" /\ At(s, e + 1) = "|"
\* Inside a code block: an odd number of fences, three backquotes each, came before.
FenceEnds(s, e) ==
    {i \in 1 .. e : \E k \in 1 .. i : /\ (i - k + 1) % 3 = 0
                                      /\ \A j \in k .. i : s[j] = "q"
                                      /\ k = 1 \/ s[k - 1] # "q"}
IsCodeLine(s, e) == At(s, e) = "n" /\ Cardinality(FenceEnds(s, e)) % 2 = 1

\* The kinds of boundary a strategy looks for, best first; the fallback adds white space.
Priorities(c) ==
    (IF c.strategy = "section-aware"
     THEN <<"SECTION", "PARAGRAPH", "TABLE_ROW", "CODE_LINE", "SENTENCE">>
     ELSE <<"SECTION", "PARAGRAPH", "SENTENCE">>)
    \o (IF c.policy = "fallback" THEN <<"WHITESPACE_FALLBACK">> ELSE << >>)
IsBoundary(kind, s, e) ==
    CASE kind = "SECTION" -> IsSection(s, e)
      [] kind = "PARAGRAPH" -> IsParagraph(s, e)
      [] kind = "TABLE_ROW" -> IsTableRow(s, e)
      [] kind = "CODE_LINE" -> IsCodeLine(s, e)
      [] kind = "SENTENCE" -> IsSentence(s, e)
      [] kind = "WHITESPACE_FALLBACK" -> IsWhitespace(s, e)

Distance(a, b) == IF a < b THEN b - a ELSE a - b
\* The choice nearest to the target, the smaller one of two.
Nearest(choices, target) ==
    CHOOSE e \in choices : \A x \in choices :
        \/ Distance(e, target) < Distance(x, target)
        \/ Distance(e, target) = Distance(x, target) /\ e <= x

\* Mutant: any boundary up to the limit will do.
ChooseAnyEnd(s, from, c, budget) ==
    IF Len(s) - from <= budget THEN <<Len(s), "SOURCE_END">>
    ELSE <<from + c.soft, "FIXED_TOKEN_WINDOW">>

\* _choose_end: <<end, reason>>; end 0 is the refusal of an oversized atomic unit.
ChooseEnd(s, from, c, budget) ==
    LET limit == IF from + budget < Len(s) THEN from + budget ELSE Len(s)
        target == IF from + c.soft < limit THEN from + c.soft ELSE limit
        least == IF c.useful > c.overlap + 1 THEN c.useful ELSE c.overlap + 1
        choices(kind) == {e \in from + least .. limit : IsBoundary(kind, s, e)}
        found == SelectSeq(Priorities(c), LAMBDA kind : choices(kind) # {})
        structural == IF found # << >> THEN <<Nearest(choices(Head(found)), target), Head(found)>>
                      ELSE IF c.policy = "fail-closed" THEN <<0, "OVERSIZED_ATOMIC_UNIT">>
                      ELSE <<limit, "HARD_TOKEN_FALLBACK">>
    IN  FirstMatch(<<
            <<Len(s) - from <= budget,      <<Len(s), "SOURCE_END">> >>,
            <<c.strategy = "fixed-token",   <<target, "FIXED_TOKEN_WINDOW">> >>,
            <<TRUE,                         structural>> >>)

-----------------------------------------------------------------------------
\* A line of the source: it starts after a newline and keeps its own.
LineStarts(t) == {i \in 0 .. Len(t) - 1 : i = 0 \/ t[i] = "n"}
VisibleEnd(t, i) == CHOOSE e \in i .. Len(t) : /\ e = Len(t) \/ t[e + 1] = "n"
                                               /\ \A j \in i + 1 .. e : t[j] # "n"
LineStartsWith(t, i, mark) ==
    \E j \in i + 1 .. Len(t) : t[j] = mark /\ \A k \in i + 1 .. j - 1 : t[k] = " "
LatestOf(S) == CHOOSE x \in S : \A y \in S : y <= x
EarliestOf(S) == CHOOSE x \in S : \A y \in S : y >= x

\* _context_segments: the last heading at or before the line of the body, and the first line of
\* the table the body is in, when they end before the body starts.
ContextSegments(t, body) ==
    LET lines == {i \in LineStarts(t) : i <= body}
        headings == {i \in lines : LineStartsWith(t, i, "#")}
        table == {i \in lines : \A j \in lines : j >= i => LineStartsWith(t, j, "|")}
        segment(i, role) == [from |-> i, to |-> VisibleEnd(t, i), role |-> role]
        heading == segment(LatestOf(headings), "heading-context")
        header == segment(EarliestOf(table), "table-header-context")
    IN  (IF headings # {} /\ heading.to <= body THEN <<heading>> ELSE << >>)
        \o (IF table # {} /\ header.to <= body THEN <<header>> ELSE << >>)

\* The context as it is repeated in front of the body.
Prefix(t, segments, c) ==
    IF segments = << >> THEN << >>
    ELSE FlattenSeq([i \in 1 .. Len(segments) |-> Normalized(t, segments[i], c) \o <<"n">>])

-----------------------------------------------------------------------------
ChunkingInit ==
    /\ text \in Texts /\ contract \in Contracts
    /\ start = 0 /\ chunks = << >> /\ work = 0 /\ status = "running"

Refuse(reason) == status' = reason /\ UNCHANGED <<text, contract, start, chunks, work>>

\* What generate checks before its loop.
Preconditions ==
    LET n == Len(Tokens(text, contract.normalization)) IN FirstMatch(<<
    <<Len(text) = 0 \/ Len(text) > contract.maxInput,                       "INPUT_SIZE_BUDGET_EXCEEDED">>,
    <<n > contract.maxWork,                                                 "TOKEN_WORK_BUDGET_EXCEEDED">>,
    <<Len(text) + n + 32 * n > contract.maxMemory,                          "ESTIMATED_MEMORY_BUDGET_EXCEEDED">>,
    <<TRUE,                                                                 "READY">> >>)

Begin ==
    /\ status = "running" /\ work = 0
    /\ IF Preconditions # "READY" THEN Refuse(Preconditions)
       ELSE /\ work' = Len(Tokens(text, contract.normalization))
            /\ UNCHANGED <<text, contract, start, chunks, status>>

\* Mutant: an overlap that is one token short of the declared one.
ShortOverlap(end) == end - contract.overlap + 1

NextStart(end) == IF end > contract.overlap THEN end - contract.overlap ELSE 0

Output(cs) == Len(FlattenSeq([i \in 1 .. Len(cs) |-> cs[i].text]))

\* One turn of the loop: a chunk, or the reason to give up.
GenerateChunk ==
    LET c == contract
        tokens == Tokens(text, c.normalization)
        s == Symbols(tokens)
        body == tokens[start + 1].from
        context == IF c.strategy = "section-aware" THEN ContextSegments(text, body) ELSE << >>
        prefix == Prefix(text, context, c)
        budget == c.hard - Len(prefix)
        least == IF c.useful > c.overlap + 1 THEN c.useful ELSE c.overlap + 1
        choice == ChooseEnd(s, start, c, budget)
        end == choice[1]
        content == prefix \o SubSeq(s, start + 1, end)
        spent == work + (IF c.hard < Len(tokens) - start THEN c.hard ELSE Len(tokens) - start)
        chunk == [ordinal |-> Len(chunks), text |-> content,
                  segments |-> context \o <<[from |-> body, to |-> tokens[end].to, role |-> "body"]>>,
                  tokens |-> Len(content), reason |-> choice[2],
                  left |-> IF start > 0 THEN c.overlap ELSE 0,
                  right |-> IF end < Len(tokens) THEN c.overlap ELSE 0]
        refusal == FirstMatch(<<
            <<Len(chunks) >= c.maxChunks,                                   "MAX_CHUNK_COUNT_EXCEEDED">>,
            <<spent > c.maxWork,                                            "TOKEN_WORK_BUDGET_EXCEEDED">>,
            <<budget < least,                                               "STRUCTURAL_CONTEXT_EXCEEDS_TOKEN_BUDGET">>,
            <<end = 0,                                                      "OVERSIZED_ATOMIC_UNIT">>,
            <<end <= start \/ end - start > c.hard,                         "INVALID_STRATEGY_BOUNDARY">>,
            <<Len(content) > c.hard,                                        "STRUCTURAL_CONTEXT_EXCEEDS_TOKEN_BUDGET">>,
            <<Output(chunks) + Len(content) > c.maxOutput,                  "OUTPUT_SIZE_BUDGET_EXCEEDED">>,
            <<Len(text) + 33 * Len(tokens) + 4 * (Output(chunks) + Len(content)) > c.maxMemory,
                                                                            "ESTIMATED_MEMORY_BUDGET_EXCEEDED">>,
            <<end - start < c.useful /\ Len(tokens) >= c.useful,            "MINIMUM_USEFUL_SIZE_NOT_MET">>,
            <<end < Len(tokens) /\ NextStart(end) <= start,                 "NON_ADVANCING_OVERLAP">>,
            <<TRUE,                                                         "none">> >>)
    IN  /\ status = "running" /\ work > 0
        /\ IF refusal # "none" THEN Refuse(refusal)
           ELSE /\ chunks' = Append(chunks, chunk)
                /\ work' = spent
                /\ start' = IF end = Len(tokens) THEN start ELSE NextStart(end)
                /\ status' = IF end = Len(tokens) THEN "READY" ELSE "running"
                /\ UNCHANGED <<text, contract>>

\* The clock passed the deadline between two turns.
Expire == status = "running" /\ work > 0 /\ Refuse("CHUNKING_DEADLINE_EXCEEDED")

ChunkingNext == Begin \/ GenerateChunk \/ Expire

-----------------------------------------------------------------------------
\* The validator's checks of one chunk, then of its neighbour, then of the set.
Body(chunk) == chunk.segments[Len(chunk.segments)]
Context(chunk) == SubSeq(chunk.segments, 1, Len(chunk.segments) - 1)
StructureValid(t, cs, i) ==
    LET segments == cs[i].segments
    IN  /\ cs[i].ordinal = i - 1 /\ segments # << >>
        /\ \A k \in 1 .. Len(segments) - 1 : segments[k].to <= segments[k + 1].from
        /\ \A k \in 1 .. Len(segments) :
            /\ segments[k].role \in {"body", "heading-context", "table-header-context"}
            /\ (segments[k].role = "body") = (k = Len(segments))
            /\ segments[k].to <= Len(t)
BodyAdvances(cs, i) ==
    IF i = 1 THEN Body(cs[i]).from = 0
    ELSE Body(cs[i]).from <= Body(cs[i - 1]).to /\ Body(cs[i]).to > Body(cs[i - 1]).to
ContextIsReal(t, chunk) ==
    \A k \in 1 .. Len(chunk.segments) - 1 :
        LET segment == chunk.segments[k] IN
        LineStartsWith(Slice(t, segment), 0, IF segment.role = "heading-context" THEN "#" ELSE "|")
RoundTrips(t, chunk, c) ==
    chunk.text # << >> /\ chunk.text = Prefix(t, Context(chunk), c) \o Normalized(t, Body(chunk), c)
WithinBudget(t, cs, i, c) ==
    /\ cs[i].tokens = Len(cs[i].text) /\ cs[i].tokens <= c.hard
    /\ cs[i].tokens < c.useful => Len(t) < c.useful
    /\ Output(SubSeq(cs, 1, i)) <= c.maxOutput
\* The tokens two consecutive bodies share.
SharedTokens(t, a, b, c) ==
    IF b.from < a.to THEN Len(Normalized(t, [from |-> b.from, to |-> a.to], c)) ELSE 0
OverlapDeclared(t, cs, i, c) ==
    IF i = 1 THEN cs[i].left = 0
    ELSE LET shared == SharedTokens(t, Body(cs[i - 1]), Body(cs[i]), c)
         IN  shared = cs[i - 1].right /\ shared = cs[i].left /\ shared <= c.overlap
Covered(cs) ==
    UNION {segment.from .. segment.to - 1 : segment \in UNION {ToSet(cs[i].segments) : i \in DOMAIN cs}}

\* evaluate, from the chunk count down; the bindings above it are RagPublication's.
Validate(t, c, cs) ==
    LET every(Holds(_)) == \A i \in 1 .. Len(cs) : Holds(i) IN FirstMatch(<<
    <<Len(cs) = 0 \/ Len(cs) > c.maxChunks \/ Len(t) > c.maxInput,           "TOKEN_BUDGET_INVALID">>,
    <<~every(LAMBDA i : StructureValid(t, cs, i) /\ BodyAdvances(cs, i) /\ ContextIsReal(t, cs[i])),
                                                                            "SOURCE_SPAN_INVALID">>,
    <<~every(LAMBDA i : RoundTrips(t, cs[i], c)),                           "CONTENT_MISMATCH">>,
    <<~every(LAMBDA i : WithinBudget(t, cs, i, c)),                         "TOKEN_BUDGET_INVALID">>,
    <<~every(LAMBDA i : OverlapDeclared(t, cs, i, c)) \/ cs[Len(cs)].right # 0, "OVERLAP_INVALID">>,
    <<Covered(cs) # 0 .. Len(t) - 1,                                        "COVERAGE_GAP">>,
    <<TRUE,                                                                 "READY_FOR_COMMIT">> >>)

\* The counters of an experiment that compares contracts (_metrics).
Metrics(t, c, cs) ==
    [gaps       |-> Cardinality((0 .. Len(t) - 1) \ Covered(cs)),
     duplicates |-> Len(cs) - Cardinality({[k \in DOMAIN cs[i].segments |->
                        <<cs[i].segments[k].from, cs[i].segments[k].to>>] : i \in DOMAIN cs}),
     oversized  |-> Cardinality({i \in DOMAIN cs : cs[i].tokens > c.hard}),
     roundtrips |-> Cardinality({i \in DOMAIN cs : RoundTrips(t, cs[i], c)}),
     breaks     |-> Cardinality({i \in DOMAIN cs : cs[i].reason \in
                        {"FIXED_TOKEN_WINDOW", "WHITESPACE_FALLBACK", "HARD_TOKEN_FALLBACK"}})]

-----------------------------------------------------------------------------
\* The strategies and the validator are written apart; what one generates to the end the other
\* accepts, and an experiment over it counts no gap, no duplicate, no oversized chunk.
\* The exception is real: the generator compares the useful minimum with the normalised text,
\* the validator with the source text, which collapsing spaces made longer.
GeneratedIsValid ==
    status = "READY" =>
        /\ \/ Validate(text, contract, chunks) = "READY_FOR_COMMIT"
           \/ /\ Len(Tokens(text, contract.normalization)) < contract.useful
              /\ contract.useful <= Len(text)
        /\ LET m == Metrics(text, contract, chunks)
           IN  m.gaps = 0 /\ m.duplicates = 0 /\ m.oversized = 0 /\ m.roundtrips = Len(chunks)

\* A contract that fails closed never cuts inside a unit: every body but the last ends where its
\* boundary reason says, in the source text too, whatever was collapsed before it.
BoundariesAreStructural ==
    contract.strategy # "fixed-token" /\ contract.policy = "fail-closed" =>
        \A i \in 1 .. Len(chunks) :
            \/ chunks[i].reason = "SOURCE_END" /\ i = Len(chunks)
            \/ /\ chunks[i].reason \in ToSet(Priorities(contract))
               /\ IsBoundary(chunks[i].reason, text, Body(chunks[i]).to)
==============================================================================
