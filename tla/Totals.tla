------------------------------- MODULE Totals -------------------------------
(***************************************************************************)
(* Sums over a finite set, by counting: an amount is a number of units, and*)
(* a total the number of all of them.  And powers, by recursion.           *)
(***************************************************************************)
EXTENDS Naturals, FiniteSets

\* What `f` adds up to over the finite set `S`: `f[u]` units for each element
\* `u`.
Units(f, S) == UNION {{u} \X (1..f[u]) : u \in S}
Total(f, S) == Cardinality(Units(f, S))

\* `b` to the power of `k`.
Power(b, k) ==
    LET p[i \in Nat] == IF i = 0 THEN 1 ELSE b * p[i - 1]
    IN  p[k]
=============================================================================
