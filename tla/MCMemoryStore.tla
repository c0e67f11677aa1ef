--------------------------- MODULE MCMemoryStore ---------------------------
(* An instance of MemoryStore: one run writes two records, another run     *)
(* repeats a key, and two stewards act at the same time.                   *)
EXTENDS MemoryStore, TLC

CONSTANTS a, b, c, d, e, lang, editor, vim, redacted, wa, wb, wc, r1, r2, q1, q2

(* Two ids are left for the corrections of two requests.                   *)
AllIds == {a, b, c, d, e}
TwoKeys == {lang, editor}
OneValue == {vim}
Three == {wa, wb, wc}
OneRequest == {q1}
TwoRequests == {q1, q2}

Write(id, key, run, auto, undated) ==
  [id |-> id, key |-> key, value |-> vim, run |-> run, auto |-> auto, undated |-> undated]

(* A task of r1 queues a candidate without a created_at, r2 confirms the   *)
(* same key, and another task of r1 queues one under the other key.        *)
SharedKey == [w \in Three |->
  CASE w = wa -> Write(a, lang, r1, FALSE, TRUE)
    [] w = wb -> Write(b, lang, r2, TRUE, FALSE)
    [] w = wc -> Write(c, editor, r1, FALSE, FALSE)]
=============================================================================
