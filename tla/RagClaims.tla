------------------------------ MODULE RagClaims ------------------------------
(***************************************************************************)
(* Claims on an operation, as the chunk, metadata, embedding and vector    *)
(* committers share them.  A table is a function on the keys it holds; an  *)
(* attempt is [n, by], its number (the generation, the claim's revision    *)
(* and its fence move with it) and its request id; a claim is the attempt  *)
(* that holds it.                                                          *)
(***************************************************************************)
EXTENDS Integers

EmptyTable == [k \in {} |-> {}]
Put(table, key, value) == [k \in DOMAIN table \cup {key} |-> IF k = key THEN value ELSE table[k]]
Holds(table, key, value) == key \in DOMAIN table /\ table[key] = value
FreeOrSame(table, key, value) == key \in DOMAIN table => table[key] = value

\* The first attempt is number 1; the same attempt finds its own claim again; another one
\* must be the next number under another request id.
AttemptFollows(claims, op, attempt) ==
    IF op \notin DOMAIN claims THEN attempt.n = 1
    ELSE \/ attempt = claims[op]
         \/ attempt.n = claims[op].n + 1 /\ attempt.by # claims[op].by

\* An operation id names one operation for ever, an idempotency key one operation id.
ClaimAccepted(operations, keys, claims, operation, attempt) ==
    /\ FreeOrSame(operations, operation.op, operation)
    /\ FreeOrSame(keys, operation.key, operation.op)
    /\ AttemptFollows(claims, operation.op, attempt)
==============================================================================
