----------------------------- MODULE TokenPrefix -----------------------------
(* Prefixes of token sequences, as the prompt cache compares them.          *)
EXTENDS Naturals, Sequences

Smaller(m, n) == IF m < n THEN m ELSE n
Larger(m, n) == IF m < n THEN n ELSE m
Take(s, n) == SubSeq(s, 1, Smaller(n, Len(s)))

\* The number of tokens that two sequences share at their start.
Common(a, b) ==
  CHOOSE n \in 0 .. Smaller(Len(a), Len(b)):
    /\ \A i \in 1 .. n: a[i] = b[i]
    /\ n < Smaller(Len(a), Len(b)) => a[n + 1] # b[n + 1]
=============================================================================
