----------------------------- MODULE Fractions -----------------------------
(***************************************************************************)
(* Portfolio weights as exact fractions.  The code computes with floats    *)
(* and compares them up to 1e-12; here the comparison is exact.            *)
(***************************************************************************)
EXTENDS Naturals, FiniteSetsExt

\* n/d in lowest terms, by its continued fraction: n/d = q + r/d = q + 1/(d/r).
lowest[p \in Nat \X (Nat \ {0})] ==
    LET q == p[1] \div p[2]
        r == p[1] % p[2]
        rest == lowest[<<p[2], r>>]
    IN  IF r = 0 THEN [n |-> q, d |-> 1] ELSE [n |-> q * rest.n + rest.d, d |-> rest.n]

Frac(n, d) == lowest[<<n, d>>]
Fraction == {x \in [n : Nat, d : Nat \ {0}] : Frac(x.n, x.d) = x}
Zero == Frac(0, 1)

x ++ y == Frac(x.n * y.d + y.n * x.d, x.d * y.d)
x ** y == Frac(x.n * y.n, x.d * y.d)
x // y == Frac(x.n * y.d, x.d * y.n)               \* y is not Zero
x -- y == Frac(x.n * y.d - y.n * x.d, x.d * y.d)   \* y is at most x
x \prec y   == x.n * y.d < y.n * x.d
x \preceq y == x.n * y.d <= y.n * x.d

\* The sum of f over the indices S.
Total(f, S) == FoldSet(LAMBDA i, sum : f[i] ++ sum, Zero, S)

=============================================================================
