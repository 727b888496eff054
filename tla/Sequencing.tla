----------------------------- MODULE Sequencing -----------------------------
(***************************************************************************)
(* What is kept of a sequence, and sums, written so that proofs can use    *)
(* them: by sets of positions and by a recursive function.                 *)
(***************************************************************************)
EXTENDS Integers, FiniteSets

(* The k-th smallest of a set of numbers, and all of them in order.        *)
Nth(P, k)  == CHOOSE i \in P : Cardinality({j \in P : j <= i}) = k
InOrder(P) == [k \in 1 .. Cardinality(P) |-> Nth(P, k)]

(* What a sequence has at the positions P, in order.                       *)
Picked(s, P) == [k \in 1 .. Cardinality(P) |-> s[Nth(P, k)]]

(* A sequence without what is in D.                                        *)
Omitting(s, D) == Picked(s, {i \in DOMAIN s : s[i] \notin D})

(* f[1] + ... + f[n].                                                      *)
Total(f, n) == LET sum[i \in 0 .. n] == IF i = 0 THEN 0 ELSE sum[i - 1] + f[i] IN sum[n]
=============================================================================
