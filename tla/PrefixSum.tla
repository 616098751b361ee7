------------------------------ MODULE PrefixSum ------------------------------
(***************************************************************************)
(* Sums of the values of a function over 1..n, as a recursive function so  *)
(* that both TLC and the proofs can use it.  The vault invariants add up   *)
(* what every request key (a nonce in 1..n) is owed.                       *)
(***************************************************************************)
EXTENDS Integers

\* s[i] is f[1] + ... + f[i].
PrefixSum(f, n) ==
  LET s[i \in 0..n] == IF i = 0 THEN 0 ELSE s[i - 1] + f[i] IN s

Total(f, n) == PrefixSum(f, n)[n]

\* What a table of prefix sums of f is, without recursion: the proofs work
\* with this characterisation.
IsPrefixSum(s, f, n) ==
  /\ s \in [0..n -> Int]
  /\ s[0] = 0
  /\ \A i \in 1..n : s[i] = s[i - 1] + f[i]
=============================================================================
