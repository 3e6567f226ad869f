------------------------------- MODULE Lists -------------------------------
(***************************************************************************)
(* What the iterators of the standard library compute from a list.         *)
(***************************************************************************)
EXTENDS Integers, Sequences

\* retain, filter: the elements of the sequence q that are in K, in their order.
Kept(q, K) ==
    LET F[i \in 0 .. Len(q)] ==
          IF i = 0 THEN << >>
          ELSE IF q[i] \in K THEN Append(F[i - 1], q[i]) ELSE F[i - 1]
    IN F[Len(q)]

\* sum: f[1] + ... + f[n].
Total(f, n) ==
    LET S[i \in 0 .. n] == IF i = 0 THEN 0 ELSE S[i - 1] + f[i]
    IN S[n]
=============================================================================
