-------------------------------- MODULE Pick --------------------------------
(***************************************************************************)
(* src/scheduler.rs, pick: which of the buffered items join the oldest one *)
(* in a batch.  Items are known by their token lengths; a batch of n items *)
(* costs n times its longest, since the runtime pads.                      *)
(***************************************************************************)
EXTENDS Helpers

\* Within a factor of two of the oldest item's length.
Similar(target, n) == Larger(target, n) <= 2 * Smaller(target, n)

\* Variants: the batch's oldest item is not counted; the newest first.
OneTooMany(target, lens, maxItems, maxTokens) ==
    LET Consider(acc, i) ==
            LET n == lens[i]
                len == Larger(acc.longest, n)
            IN IF /\ Len(acc.chosen) < maxItems
                  /\ Similar(target, n)
                  /\ (Len(acc.chosen) + 1) * len <= maxTokens
               THEN [chosen |-> Append(acc.chosen, i), longest |-> len]
               ELSE acc
    IN FoldLeftDomain(Consider, [chosen |-> <<>>, longest |-> target], lens).chosen

NewestFirst(target, lens, maxItems, maxTokens) ==
    LET Consider(i, acc) ==
            LET n == lens[i]
                len == Larger(acc.longest, n)
            IN IF /\ Len(acc.chosen) + 1 < maxItems
                  /\ Similar(target, n)
                  /\ (Len(acc.chosen) + 2) * len <= maxTokens
               THEN [chosen |-> <<i>> \o acc.chosen, longest |-> len]
               ELSE acc
    IN FoldRightDomain(Consider, lens, [chosen |-> <<>>, longest |-> target]).chosen

\* The buffer positions chosen, by one pass in arrival order over the lengths:
\* a similar item is taken if the padded batch stays under the cap, until the
\* batch (the oldest included) has maxItems.
Chosen(target, lens, maxItems, maxTokens) ==
    LET Consider(acc, i) ==
            LET n == lens[i]
                len == Larger(acc.longest, n)
            IN IF /\ Len(acc.chosen) + 1 < maxItems
                  /\ Similar(target, n)
                  /\ (Len(acc.chosen) + 2) * len <= maxTokens
               THEN [chosen |-> Append(acc.chosen, i), longest |-> len]
               ELSE acc
    IN FoldLeftDomain(Consider, [chosen |-> <<>>, longest |-> target], lens).chosen

\* The batch and what stays buffered, both in arrival order.
PickBatch(first, buf, lenOf, maxItems, maxTokens) ==
    LET lens == [i \in DOMAIN buf |-> lenOf[buf[i]]]
        chosen == Chosen(lenOf[first], lens, maxItems, maxTokens)
        rest == Keep([i \in DOMAIN buf |-> i], DOMAIN buf \ ToSet(chosen))
    IN [batch |-> <<first>> \o [j \in DOMAIN chosen |-> buf[chosen[j]]],
        rest  |-> [j \in DOMAIN rest |-> buf[rest[j]]]]
=============================================================================
