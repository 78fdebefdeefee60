---------------------------- MODULE RegisterSum ----------------------------
(* The sum of the first n values of a function on the naturals, written as *)
(* a recursive function so that facts about it can be proved.              *)
EXTENDS Integers

PrefixSums(f, n) == LET s[k \in 0 .. n] == IF k = 0 THEN 0 ELSE s[k - 1] + f[k - 1] IN s

SumUpTo(f, n) == PrefixSums(f, n)[n]
=============================================================================
