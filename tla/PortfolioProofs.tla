--------------------------- MODULE PortfolioProofs ---------------------------
(***************************************************************************)
(* Theorems about Portfolio, for any universe, scores, holdings, sectors,  *)
(* target size, exit rank and caps.                                        *)
(*                                                                         *)
(* Weights are exact fractions, and totals are folds over sets: what they  *)
(* obey is proved first, by looking at the least counterexample.           *)
(***************************************************************************)
EXTENDS Portfolio, Integers, FiniteSetTheorems, SequenceTheorems, WellFoundedInduction, TLAPS

-----------------------------------------------------------------------------
(***************************************************************************)
(* Least elements, and recursion over a measure.                           *)
(***************************************************************************)

\* A set of numbers that is not empty has a least element.
LEMMA LeastElement ==
    ASSUME NEW T \in SUBSET Nat, T # {}
    PROVE  \E n \in T : \A k \in T : n <= k
<1>1. PICK n \in T : \A k \in T : ~(<<k, n>> \in OpToRel(<, Nat))
  BY NatLessThanWellFounded, WFMin, Zenon
<1>2. \A k \in T : ~(k < n)
  BY <1>1 DEF OpToRel
<1>3. QED
  BY <1>2

\* f is defined on dom by recursion: base where it stops, more elsewhere.
Recursive(f, dom, stop, base, next, more) ==
    \A x \in dom : f[x] = IF x \in stop THEN base[x] ELSE more[<<x, f[next[x]]>>]

\* Two functions defined by the same recursion agree where both are defined.
LEMMA RecursionUnique ==
    ASSUME NEW D, NEW measure \in [D -> Nat], NEW stop, NEW base, NEW next \in [D -> D], NEW more,
           \A x \in D \ stop : measure[next[x]] < measure[x],
           NEW k \in Nat, NEW l \in Nat, NEW f, NEW g,
           Recursive(f, {x \in D : measure[x] < k}, stop, base, next, more),
           Recursive(g, {x \in D : measure[x] < l}, stop, base, next, more),
           NEW x \in D, measure[x] < k, measure[x] < l
    PROVE  f[x] = g[x]
<1> DEFINE Differ == {y \in D : measure[y] < k /\ measure[y] < l /\ f[y] # g[y]}
           T == {measure[y] : y \in Differ}
<1>1. SUFFICES ASSUME Differ # {} PROVE FALSE
  OBVIOUS
<1>2. T \in SUBSET Nat /\ T # {}
  BY <1>1
<1>3. PICK n \in T : \A m \in T : n <= m
  <2> HIDE DEF T
  <2>1. QED
    BY <1>2, LeastElement
<1>4. PICK y \in Differ : measure[y] = n
  OBVIOUS
<1>5. y \notin stop
  BY <1>4 DEF Recursive
<1>6. next[y] \in D /\ measure[next[y]] < measure[y] /\ measure[next[y]] \in Nat /\ measure[y] \in Nat
  BY <1>4, <1>5
<1>7. f[next[y]] = g[next[y]]
  <2>1. measure[next[y]] \notin T
    <3> HIDE DEF T, Differ
    <3>1. QED
      BY <1>3, <1>4, <1>6
  <2>2. next[y] \notin Differ
    BY <2>1
  <2>3. QED
    BY <1>4, <1>6, <2>2
<1>8. f[y] = more[<<y, f[next[y]]>>] /\ g[y] = more[<<y, g[next[y]]>>]
  BY <1>4, <1>5 DEF Recursive
<1>9. QED
  BY <1>4, <1>7, <1>8

\* A recursion that lowers a measure defines a function on all of D.
LEMMA Recursion ==
    ASSUME NEW D, NEW S, NEW measure \in [D -> Nat], NEW stop, NEW base \in [D -> S], NEW next \in [D -> D],
           NEW more \in [D \X S -> S],
           \A x \in D \ stop : measure[next[x]] < measure[x]
    PROVE  \E f \in [D -> S] : Recursive(f, D, stop, base, next, more)
<1> DEFINE Below(n) == {x \in D : measure[x] < n}
           Good(n, g) == g \in [Below(n) -> S] /\ Recursive(g, Below(n), stop, base, next, more)
           upto == [n \in Nat |-> CHOOSE g : Good(n, g)]
           f == [x \in D |-> upto[measure[x] + 1][x]]
<1>1. ASSUME NEW k \in Nat PROVE \E g \in [Below(k) -> S] : Recursive(g, Below(k), stop, base, next, more)
  <2> DEFINE Defined(n) == \E h \in [Below(n) -> S] : Recursive(h, Below(n), stop, base, next, more)
             T == {n \in Nat : ~Defined(n)}
  <2>1. SUFFICES ASSUME T # {} PROVE FALSE
    OBVIOUS
  <2>2. PICK n \in T : \A m \in T : n <= m
    <3> HIDE DEF Defined
    <3>1. T \in SUBSET Nat
      OBVIOUS
    <3> HIDE DEF T
    <3>2. QED
      BY <2>1, <3>1, LeastElement
  <2>3. n \in Nat /\ ~Defined(n)
    OBVIOUS
  <2>4. CASE n = 0
    <3>1. Below(n) = {}
      BY <2>4
    <3>2. [x \in {} |-> base[x]] \in [Below(n) -> S] /\ Recursive([x \in {} |-> base[x]], Below(n), stop, base, next, more)
      BY <3>1 DEF Recursive
    <3>3. QED
      BY <2>3, <3>2
  <2>5. CASE n # 0
    <3>1. n - 1 \in Nat /\ Defined(n - 1)
      <4>1. n - 1 \in Nat /\ ~(n <= n - 1)
        BY <2>3, <2>5
      <4>2. n - 1 \notin T
        BY <2>2, <4>1
      <4>3. QED
        BY <4>1, <4>2
    <3>2. PICK h \in [Below(n - 1) -> S] : Recursive(h, Below(n - 1), stop, base, next, more)
      BY <3>1
    <3> DEFINE g == [x \in Below(n) |-> IF x \in stop THEN base[x] ELSE more[<<x, h[next[x]]>>]]
    <3>3. ASSUME NEW x \in Below(n), x \notin stop
          PROVE  next[x] \in Below(n - 1) /\ next[x] \in Below(n)
      <4>1. x \in D /\ measure[x] < n /\ next[x] \in D /\ measure[next[x]] < measure[x]
            /\ measure[x] \in Nat /\ measure[next[x]] \in Nat
        BY <3>3
      <4>2. measure[next[x]] < n - 1 /\ measure[next[x]] < n
        BY <2>3, <4>1
      <4>3. QED
        BY <4>1, <4>2
    <3>4. g \in [Below(n) -> S]
      <4>1. ASSUME NEW x \in Below(n)
            PROVE  (IF x \in stop THEN base[x] ELSE more[<<x, h[next[x]]>>]) \in S
        <5>1. CASE x \in stop
          BY <5>1
        <5>2. CASE x \notin stop
          <6>1. h[next[x]] \in S /\ x \in D
            BY <3>2, <3>3, <5>2
          <6>2. QED
            BY <5>2, <6>1
        <5>3. QED
          BY <5>1, <5>2
      <4>2. QED
        BY <4>1
    <3>5. \A x \in Below(n - 1) : g[x] = h[x]
      <4>1. \A x \in Below(n - 1) : x \in Below(n)
        BY <2>3
      <4>2. QED
        BY <3>2, <4>1 DEF Recursive
    <3>6. Recursive(g, Below(n), stop, base, next, more)
      <4>1. ASSUME NEW x \in Below(n), x \notin stop
            PROVE  g[x] = more[<<x, g[next[x]]>>]
        BY <3>3, <3>5, <4>1
      <4>2. ASSUME NEW x \in Below(n), x \in stop PROVE g[x] = base[x]
        BY <4>2
      <4> HIDE DEF g, Below
      <4>3. QED
        BY <4>1, <4>2 DEF Recursive
    <3>7. QED
      BY <2>3, <3>4, <3>6
  <2>6. QED
    BY <2>4, <2>5
<1>2. ASSUME NEW n \in Nat PROVE Good(n, upto[n])
  <2>1. \E g : Good(n, g)
    BY <1>1
  <2> HIDE DEF Good
  <2>2. QED
    BY <2>1
<1> HIDE DEF upto
<1>3. ASSUME NEW n \in Nat, NEW x \in Below(n)
      PROVE  upto[n][x] = f[x]
  <2>1. measure[x] + 1 \in Nat /\ measure[x] < measure[x] + 1 /\ measure[x] < n /\ x \in D
    OBVIOUS
  <2>2. Good(n, upto[n]) /\ Good(measure[x] + 1, upto[measure[x] + 1])
    BY <1>2, <2>1
  <2>3. upto[n][x] = upto[measure[x] + 1][x]
    BY <2>1, <2>2, RecursionUnique
  <2>4. QED
    BY <2>1, <2>3
<1>4. ASSUME NEW x \in D
      PROVE  f[x] \in S /\ f[x] = IF x \in stop THEN base[x] ELSE more[<<x, f[next[x]]>>]
  <2> DEFINE n == measure[x] + 1
  <2>1. n \in Nat /\ x \in Below(n)
    OBVIOUS
  <2>2. Good(n, upto[n]) /\ upto[n][x] = f[x]
    BY <1>2, <1>3, <2>1
  <2>3. f[x] \in S
    BY <2>1, <2>2
  <2>4. f[x] = IF x \in stop THEN base[x] ELSE more[<<x, upto[n][next[x]]>>]
    BY <2>1, <2>2 DEF Recursive
  <2>5. x \notin stop => upto[n][next[x]] = f[next[x]]
    <3>1. ASSUME x \notin stop PROVE next[x] \in Below(n)
      <4>1. next[x] \in D /\ measure[next[x]] < measure[x] /\ measure[next[x]] \in Nat /\ measure[x] \in Nat
        BY <3>1
      <4>2. QED
        BY <4>1
    <3>2. QED
      BY <1>3, <2>1, <3>1
  <2> HIDE DEF f, n
  <2>6. QED
    BY <2>3, <2>4, <2>5
<1>5. f \in [D -> S]
  BY <1>4, Zenon
<1> HIDE DEF f
<1>6. Recursive(f, D, stop, base, next, more)
  BY <1>4 DEF Recursive
<1>7. QED
  BY <1>5, <1>6

-----------------------------------------------------------------------------
(***************************************************************************)
(* Ratios and their lowest terms.                                          *)
(***************************************************************************)

Ratio == Nat \X (Nat \ {0})

\* Quotient and remainder.
LEMMA Division ==
    ASSUME NEW n \in Nat, NEW d \in Nat \ {0}
    PROVE  /\ n \div d \in Nat /\ n % d \in Nat /\ n % d < d
           /\ n = ((n \div d) * d) + (n % d)
  OBVIOUS

\* lowest satisfies its recursive definition: every step lowers the denominator.
LEMMA LowestStep ==
    ASSUME NEW n \in Nat, NEW d \in Nat \ {0}
    PROVE  lowest[<<n, d>>] = IF n % d = 0 THEN [n |-> n \div d, d |-> 1]
                              ELSE [n |-> (n \div d) * lowest[<<d, n % d>>].n + lowest[<<d, n % d>>].d,
                                    d |-> lowest[<<d, n % d>>].n]
<1> DEFINE S == [n : Nat, d : Nat]
           measure == [p \in Ratio |-> p[2]]
           stop == {p \in Ratio : p[1] % p[2] = 0}
           base == [p \in Ratio |-> [n |-> p[1] \div p[2], d |-> 1]]
           next == [p \in Ratio |-> IF p \in stop THEN p ELSE <<p[2], p[1] % p[2]>>]
           more == [z \in Ratio \X S |-> [n |-> (z[1][1] \div z[1][2]) * z[2].n + z[2].d, d |-> z[2].n]]
           Is(f) == f = [p \in Ratio |->
                            LET q == p[1] \div p[2]
                                r == p[1] % p[2]
                                rest == f[<<p[2], r>>]
                            IN  IF r = 0 THEN [n |-> q, d |-> 1] ELSE [n |-> q * rest.n + rest.d, d |-> rest.n]]
<1>1. measure \in [Ratio -> Nat]
  BY DEF Ratio
<1>2. base \in [Ratio -> S]
  BY Division DEF Ratio
<1>3. next \in [Ratio -> Ratio]
  <2>1. ASSUME NEW p \in Ratio, p \notin stop PROVE <<p[2], p[1] % p[2]>> \in Ratio
    BY <2>1, Division DEF Ratio
  <2>2. QED
    BY <2>1
<1>4. more \in [Ratio \X S -> S]
  <2>1. ASSUME NEW z \in Ratio \X S
        PROVE  [n |-> (z[1][1] \div z[1][2]) * z[2].n + z[2].d, d |-> z[2].n] \in S
    <3>1. z[1][1] \div z[1][2] \in Nat /\ z[2].n \in Nat /\ z[2].d \in Nat
      BY Division DEF Ratio
    <3>2. QED
      BY <3>1
  <2>2. QED
    BY <2>1
<1>5. \A p \in Ratio \ stop : measure[next[p]] < measure[p]
  BY Division DEF Ratio
<1>6. \E f \in [Ratio -> S] : Recursive(f, Ratio, stop, base, next, more)
  <2> HIDE DEF S, measure, stop, base, next, more, Ratio
  <2>1. QED
    BY <1>1, <1>2, <1>3, <1>4, <1>5, Recursion
<1>7. PICK f \in [Ratio -> S] : Recursive(f, Ratio, stop, base, next, more)
  BY <1>6
<1>8. Is(f)
  <2>1. ASSUME NEW p \in Ratio
        PROVE  f[p] = LET q == p[1] \div p[2]
                          r == p[1] % p[2]
                          rest == f[<<p[2], r>>]
                      IN  IF r = 0 THEN [n |-> q, d |-> 1] ELSE [n |-> q * rest.n + rest.d, d |-> rest.n]
    <3>1. f[p] = IF p \in stop THEN base[p] ELSE more[<<p, f[next[p]]>>]
      BY <1>7 DEF Recursive
    <3>2. CASE p[1] % p[2] = 0
      BY <3>1, <3>2
    <3>3. CASE p[1] % p[2] # 0
      <4>1. next[p] = <<p[2], p[1] % p[2]>> /\ f[next[p]] \in S
        BY <1>3, <1>7, <3>3
      <4>2. <<p, f[next[p]]>> \in Ratio \X S
        BY <4>1
      <4>3. p \notin stop
        BY <3>3
      <4>4. f[p] = more[<<p, f[next[p]]>>]
        <5> HIDE DEF stop, more, next, base
        <5>1. QED
          BY <3>1, <4>3
      <4> HIDE DEF next
      <4>5. QED
        BY <3>3, <4>1, <4>2, <4>4
    <3>4. QED
      BY <3>2, <3>3
  <2>2. QED
    BY <1>7, <2>1
<1>9. Is(lowest)
  <2>1. \E g : Is(g)
    BY <1>8
  <2>2. Is(CHOOSE g : Is(g))
    <3> HIDE DEF Is
    <3>1. QED
      BY <2>1
  <2>3. QED
    BY <2>2, Zenon DEF lowest, Ratio
<1>10. <<n, d>> \in Ratio
  BY DEF Ratio
<1>11. QED
  BY <1>9, <1>10, Zenon

\* The records that may stand for a fraction.
Ratios == [n : Nat, d : Nat \ {0}]

\* lowest[<<n, d>>] is equal to n/d: the least denominator for which it were not
\* would leave a smaller one, its remainder.
LEMMA LowestValue ==
    \A d \in Nat \ {0} : \A n \in Nat :
        /\ lowest[<<n, d>>] \in Ratios
        /\ lowest[<<n, d>>].n * d = n * lowest[<<n, d>>].d
<1> DEFINE Fair(n, d) == lowest[<<n, d>>] \in Ratios /\ lowest[<<n, d>>].n * d = n * lowest[<<n, d>>].d
           Bad == {d \in Nat : d # 0 /\ \E n \in Nat : ~Fair(n, d)}
<1>1. SUFFICES ASSUME Bad # {} PROVE FALSE
  OBVIOUS
<1>2. PICK d \in Bad : \A k \in Bad : d <= k
  <2>1. Bad \in SUBSET Nat
    OBVIOUS
  <2> HIDE DEF Bad
  <2>2. QED
    BY <1>1, <2>1, LeastElement
<1>3. PICK n \in Nat : ~Fair(n, d)
  OBVIOUS
<1> DEFINE q == n \div d
           r == n % d
           c == lowest[<<d, r>>]
<1>4. d \in Nat \ {0} /\ q \in Nat /\ r \in Nat /\ r < d /\ n = (q * d) + r
  BY Division
<1>5. lowest[<<n, d>>] = IF r = 0 THEN [n |-> q, d |-> 1] ELSE [n |-> (q * c.n) + c.d, d |-> c.n]
  BY <1>4, LowestStep
<1>6. CASE r = 0
  BY <1>3, <1>4, <1>5, <1>6 DEF Ratios
<1>7. CASE r # 0
  <2>1. Fair(d, r)
    <3> HIDE DEF Fair
    <3>1. r \notin Bad
      <4> HIDE DEF Bad
      <4>1. QED
        BY <1>2, <1>4
    <3>2. QED
      BY <1>4, <1>7, <3>1
  <2>2. c.n \in Nat /\ c.d \in Nat \ {0} /\ c.n * r = d * c.d
    BY <2>1 DEF Ratios
  <2> HIDE DEF q, r, c
  <2>3. c.n # 0
    BY <1>4, <1>7, <2>2
  <2>4. ((q * c.n) + c.d) * d = n * c.n
    <3>1. ((q * c.n) + c.d) * d = (q * d) * c.n + d * c.d
      BY <1>4, <2>2
    <3>2. n * c.n = (q * d) * c.n + r * c.n
      BY <1>4, <2>2
    <3>3. QED
      BY <1>4, <2>2, <3>1, <3>2
  <2>5. Fair(n, d)
    <3>1. (q * c.n) + c.d \in Nat
      BY <1>4, <2>2
    <3>2. QED
      BY <1>5, <1>7, <2>2, <2>3, <2>4, <3>1 DEF Ratios
  <2>6. QED
    BY <1>3, <2>5
<1>8. QED
  BY <1>6, <1>7

\* A number determines its quotient and its remainder.
LEMMA QuotientUnique ==
    ASSUME NEW P \in Nat, NEW q \in Nat, NEW p \in Nat, NEW a \in Nat, NEW b \in Nat, a < P, b < P,
           q * P + a = p * P + b
    PROVE  q = p
<1>1. CASE q < p
  <2>1. PICK e \in Nat : p = (q + 1) + e
    <3>1. p - (q + 1) \in Nat /\ p = (q + 1) + (p - (q + 1))
      BY <1>1
    <3>2. QED
      BY <3>1
  <2>2. p * P = q * P + P + e * P /\ e * P \in Nat /\ q * P \in Nat
    BY <2>1
  <2>3. QED
    BY <2>2
<1>2. CASE p < q
  <2>1. PICK e \in Nat : q = (p + 1) + e
    <3>1. q - (p + 1) \in Nat /\ q = (p + 1) + (q - (p + 1))
      BY <1>2
    <3>2. QED
      BY <3>1
  <2>2. q * P = p * P + P + e * P /\ e * P \in Nat /\ p * P \in Nat
    BY <2>1
  <2>3. QED
    BY <2>2
<1>3. QED
  BY <1>1, <1>2

\* A common factor cancels from an equation ...
LEMMA Cancel ==
    ASSUME NEW k \in Nat \ {0}, NEW a \in Nat, NEW b \in Nat, a * k = b * k
    PROVE  a = b
<1>1. a * k + 0 = b * k + 0
  OBVIOUS
<1>2. QED
  BY <1>1, QuotientUnique

\* ... and from an inequality.
LEMMA CancelLess ==
    ASSUME NEW k \in Nat \ {0}, NEW a \in Nat, NEW b \in Nat
    PROVE  (a * k < b * k) <=> (a < b)
<1>1. CASE a < b
  <2>1. PICK e \in Nat \ {0} : b = a + e
    <3>1. b - a \in Nat \ {0} /\ b = a + (b - a)
      BY <1>1
    <3>2. QED
      BY <3>1
  <2>2. b * k = a * k + e * k /\ a * k \in Nat /\ e * k \in Nat \ {0}
    BY <2>1
  <2>3. QED
    BY <1>1, <2>2
<1>2. CASE ~(a < b)
  <2>1. PICK e \in Nat : a = b + e
    <3>1. a - b \in Nat /\ a = b + (a - b)
      BY <1>2
    <3>2. QED
      BY <3>1
  <2>2. a * k = b * k + e * k /\ b * k \in Nat /\ e * k \in Nat
    BY <2>1
  <2>3. QED
    BY <1>2, <2>2
<1>3. QED
  BY <1>1, <1>2

\* Equal ratios have the same lowest terms.
LEMMA LowestEqual ==
    \A d \in Nat \ {0} : \A n, m \in Nat : \A e \in Nat \ {0} :
        n * e = m * d => lowest[<<n, d>>] = lowest[<<m, e>>]
<1> DEFINE Same(d) == \A n, m \in Nat : \A e \in Nat \ {0} : n * e = m * d => lowest[<<n, d>>] = lowest[<<m, e>>]
           Bad == {d \in Nat : d # 0 /\ ~Same(d)}
<1>1. SUFFICES ASSUME Bad # {} PROVE FALSE
  OBVIOUS
<1>2. PICK d \in Bad : \A k \in Bad : d <= k
  <2>1. Bad \in SUBSET Nat
    OBVIOUS
  <2> HIDE DEF Bad
  <2>2. QED
    BY <1>1, <2>1, LeastElement
<1>3. PICK n \in Nat, m \in Nat, e \in Nat \ {0} : n * e = m * d /\ lowest[<<n, d>>] # lowest[<<m, e>>]
  OBVIOUS
<1> DEFINE q == n \div d
           r == n % d
           p == m \div e
           s == m % e
<1>4. /\ d \in Nat \ {0} /\ q \in Nat /\ r \in Nat /\ r < d /\ n = (q * d) + r
      /\ p \in Nat /\ s \in Nat /\ s < e /\ m = (p * e) + s
  BY Division
<1>5. /\ lowest[<<n, d>>] = IF r = 0 THEN [n |-> q, d |-> 1]
                            ELSE [n |-> q * lowest[<<d, r>>].n + lowest[<<d, r>>].d, d |-> lowest[<<d, r>>].n]
      /\ lowest[<<m, e>>] = IF s = 0 THEN [n |-> p, d |-> 1]
                            ELSE [n |-> p * lowest[<<e, s>>].n + lowest[<<e, s>>].d, d |-> lowest[<<e, s>>].n]
  BY <1>4, LowestStep
<1>6. n * e = m * d
  BY <1>3
<1>7. r = 0 \/ r \notin Bad
  <2> HIDE DEF Bad
  <2>1. QED
    BY <1>2, <1>4
<1>8. r = 0 \/ Same(r)
  <2> HIDE DEF Same
  <2>1. QED
    BY <1>4, <1>7
<1> HIDE DEF q, r, p, s, Bad
<1>9. q = p /\ r * e = s * d
  <2>1. n * e = q * (d * e) + r * e /\ m * d = p * (d * e) + s * d
    BY <1>3, <1>4
  <2>2. d * e \in Nat /\ r * e \in Nat /\ s * d \in Nat
    BY <1>3, <1>4
  <2>3. r * e < d * e /\ s * d < e * d
    BY <1>3, <1>4, CancelLess
  <2>4. q = p
    BY <1>4, <1>6, <2>1, <2>2, <2>3, QuotientUnique
  <2>5. q * (d * e) = p * (d * e) /\ q * (d * e) \in Nat
    BY <1>4, <2>2, <2>4
  <2>6. QED
    BY <1>6, <2>1, <2>2, <2>4, <2>5
<1>10. r = 0 <=> s = 0
  BY <1>3, <1>4, <1>9
<1>11. r # 0 => lowest[<<d, r>>] = lowest[<<e, s>>]
  <2>1. d * s = e * r
    BY <1>3, <1>4, <1>9
  <2>2. QED
    BY <1>3, <1>4, <1>8, <1>10, <2>1
<1>12. QED
  BY <1>3, <1>5, <1>9, <1>10, <1>11

-----------------------------------------------------------------------------
(***************************************************************************)
(* The arithmetic of fractions.                                            *)
(***************************************************************************)

\* Frac(n, d) is a fraction, and is equal to n/d.
LEMMA FracValue ==
    ASSUME NEW n \in Nat, NEW d \in Nat \ {0}
    PROVE  /\ Frac(n, d) \in Fraction
           /\ Frac(n, d).n \in Nat /\ Frac(n, d).d \in Nat \ {0}
           /\ Frac(n, d).n * d = n * Frac(n, d).d
<1> DEFINE c == Frac(n, d)
<1>1. c \in Ratios /\ c.n * d = n * c.d
  BY LowestValue DEF Frac
<1>2. c.n \in Nat /\ c.d \in Nat \ {0}
  BY <1>1 DEF Ratios
<1>3. Frac(c.n, c.d) = c
  <2>1. lowest[<<c.n, c.d>>] = lowest[<<n, d>>]
    <3> HIDE DEF c
    <3>1. QED
      BY <1>1, <1>2, LowestEqual
  <2>2. QED
    BY <2>1 DEF Frac
<1>4. QED
  BY <1>1, <1>2, <1>3 DEF Fraction, Ratios

\* Fractions are equal when they are equal crosswise.
LEMMA FracEqual ==
    ASSUME NEW n \in Nat, NEW d \in Nat \ {0}, NEW m \in Nat, NEW e \in Nat \ {0}
    PROVE  Frac(n, d) = Frac(m, e) <=> n * e = m * d
<1>1. n * e = m * d => Frac(n, d) = Frac(m, e)
  BY LowestEqual DEF Frac
<1>2. ASSUME Frac(n, d) = Frac(m, e) PROVE n * e = m * d
  <2> DEFINE c == Frac(n, d)
  <2>1. c.n \in Nat /\ c.d \in Nat \ {0} /\ c.n * d = n * c.d /\ c.n * e = m * c.d
    BY <1>2, FracValue
  <2> HIDE DEF c
  <2>2. (n * e) * c.d = (m * d) * c.d
    <3>1. (n * e) * c.d = (n * c.d) * e /\ (m * d) * c.d = (m * c.d) * d
      BY <2>1
    <3>2. (c.n * d) * e = (c.n * e) * d
      BY <2>1
    <3>3. QED
      BY <2>1, <3>1, <3>2
  <2>3. n * e \in Nat /\ m * d \in Nat
    OBVIOUS
  <2>4. QED
    BY <2>1, <2>2, <2>3, Cancel
<1>3. QED
  BY <1>1, <1>2

\* Positive numbers have a positive product.
LEMMA Products ==
    ASSUME NEW a \in Nat \ {0}, NEW b \in Nat \ {0}
    PROVE  a * b \in Nat \ {0}
<1>1. 0 * b < a * b
  BY CancelLess
<1>2. a * b \in Nat
  OBVIOUS
<1>3. QED
  BY <1>1, <1>2

\* The numerator of a sum, when its terms are multiplied by g and h.
LEMMA CrossSum ==
    ASSUME NEW a \in Nat, NEW b \in Nat, NEW c \in Nat, NEW e \in Nat, NEW g \in Nat, NEW h \in Nat
    PROVE  (a * e + c * b) * (g * h) = (a * g) * (e * h) + (c * h) * (b * g)
<1>1. (a * e) * (g * h) = (a * g) * (e * h)
  OBVIOUS
<1>2. (c * b) * (g * h) = (c * h) * (b * g)
  OBVIOUS
<1>3. (a * e + c * b) * (g * h) = (a * e) * (g * h) + (c * b) * (g * h)
  OBVIOUS
<1>4. QED
  BY <1>1, <1>2, <1>3

\* The terms of Frac(n, d), as numbers of their own.
LEMMA FracTerms ==
    ASSUME NEW n \in Nat, NEW d \in Nat \ {0}
    PROVE  \E k \in Nat : \E l \in Nat \ {0} : Frac(n, d).n = k /\ Frac(n, d).d = l /\ k * d = n * l
<1>1. Frac(n, d).n \in Nat /\ Frac(n, d).d \in Nat \ {0} /\ Frac(n, d).n * d = n * Frac(n, d).d
  BY FracValue
<1>2. QED
  BY <1>1

\* Every fraction is the fraction of its own terms.
LEMMA FracOf ==
    ASSUME NEW x \in Fraction
    PROVE  \E n \in Nat : \E d \in Nat \ {0} : x.n = n /\ x.d = d /\ x = Frac(n, d)
  BY DEF Fraction

\* The sum of two ratios, in any terms.
LEMMA AddFrac ==
    ASSUME NEW a \in Nat, NEW b \in Nat \ {0}, NEW c \in Nat, NEW e \in Nat \ {0}
    PROVE  Frac(a, b) ++ Frac(c, e) = Frac(a * e + c * b, b * e)
<1>1. PICK k \in Nat, l \in Nat \ {0} : Frac(a, b).n = k /\ Frac(a, b).d = l /\ k * b = a * l
  BY FracTerms
<1>2. PICK i \in Nat, j \in Nat \ {0} : Frac(c, e).n = i /\ Frac(c, e).d = j /\ i * e = c * j
  BY FracTerms
<1>3. b * e \in Nat \ {0} /\ l * j \in Nat \ {0}
  BY Products
<1>4. k * j + i * l \in Nat /\ a * e + c * b \in Nat
  OBVIOUS
<1>5. (k * j + i * l) * (b * e) = (a * e + c * b) * (l * j)
  <2>1. (k * j + i * l) * (b * e) = (k * b) * (j * e) + (i * e) * (l * b)
    BY CrossSum
  <2>2. (a * e + c * b) * (l * j) = (a * l) * (e * j) + (c * j) * (b * l)
    BY CrossSum
  <2>3. e * j = j * e /\ b * l = l * b
    OBVIOUS
  <2>4. QED
    BY <1>1, <1>2, <2>1, <2>2, <2>3
<1>6. Frac(k * j + i * l, l * j) = Frac(a * e + c * b, b * e)
  BY <1>3, <1>4, <1>5, FracEqual
<1>7. QED
  BY <1>1, <1>2, <1>6 DEF ++

\* The product of two ratios, in any terms.
LEMMA MulFrac ==
    ASSUME NEW a \in Nat, NEW b \in Nat \ {0}, NEW c \in Nat, NEW e \in Nat \ {0}
    PROVE  Frac(a, b) ** Frac(c, e) = Frac(a * c, b * e)
<1>1. PICK k \in Nat, l \in Nat \ {0} : Frac(a, b).n = k /\ Frac(a, b).d = l /\ k * b = a * l
  BY FracTerms
<1>2. PICK i \in Nat, j \in Nat \ {0} : Frac(c, e).n = i /\ Frac(c, e).d = j /\ i * e = c * j
  BY FracTerms
<1>3. b * e \in Nat \ {0} /\ l * j \in Nat \ {0}
  BY Products
<1>4. (k * i) * (b * e) = (a * c) * (l * j)
  <2>1. (k * i) * (b * e) = (k * b) * (i * e)
    OBVIOUS
  <2>2. (a * c) * (l * j) = (a * l) * (c * j)
    OBVIOUS
  <2>3. QED
    BY <1>1, <1>2, <2>1, <2>2
<1>5. Frac(k * i, l * j) = Frac(a * c, b * e)
  BY <1>3, <1>4, FracEqual
<1>6. QED
  BY <1>1, <1>2, <1>5 DEF **

\* Zero and one are fractions.
LEMMA ZeroAndOne ==
    /\ Zero \in Fraction /\ Zero = Frac(0, 1) /\ Zero.n = 0
    /\ Frac(1, 1) \in Fraction
<1>1. Frac(0, 1) \in Fraction /\ Frac(1, 1) \in Fraction
  BY FracValue
<1>2. PICK k \in Nat, l \in Nat \ {0} : Frac(0, 1).n = k /\ Frac(0, 1).d = l /\ k * 1 = 0 * l
  BY FracTerms
<1>3. QED
  BY <1>1, <1>2 DEF Zero

\* Sums and products of fractions are fractions.
LEMMA Closed ==
    ASSUME NEW x \in Fraction, NEW y \in Fraction
    PROVE  x ++ y \in Fraction /\ x ** y \in Fraction
<1>1. PICK a \in Nat, b \in Nat \ {0} : x = Frac(a, b)
  BY FracOf
<1>2. PICK c \in Nat, e \in Nat \ {0} : y = Frac(c, e)
  BY FracOf
<1>3. b * e \in Nat \ {0} /\ a * e + c * b \in Nat /\ a * c \in Nat
  BY Products
<1>4. Frac(a * e + c * b, b * e) \in Fraction /\ Frac(a * c, b * e) \in Fraction
  BY <1>3, FracValue
<1>5. QED
  BY <1>1, <1>2, <1>4, AddFrac, MulFrac

\* Addition and multiplication commute.
LEMMA Commutes ==
    ASSUME NEW x \in Fraction, NEW y \in Fraction
    PROVE  x ++ y = y ++ x /\ x ** y = y ** x
<1>1. PICK a \in Nat, b \in Nat \ {0} : x = Frac(a, b)
  BY FracOf
<1>2. PICK c \in Nat, e \in Nat \ {0} : y = Frac(c, e)
  BY FracOf
<1>3. a * e + c * b = c * b + a * e /\ b * e = e * b /\ a * c = c * a
  OBVIOUS
<1>4. /\ Frac(a, b) ++ Frac(c, e) = Frac(a * e + c * b, b * e)
      /\ Frac(c, e) ++ Frac(a, b) = Frac(c * b + a * e, e * b)
      /\ Frac(a, b) ** Frac(c, e) = Frac(a * c, b * e)
      /\ Frac(c, e) ** Frac(a, b) = Frac(c * a, e * b)
  BY AddFrac, MulFrac
<1>5. QED
  BY <1>1, <1>2, <1>3, <1>4

\* Zero and one are neutral, and zero annihilates.
LEMMA Units ==
    ASSUME NEW x \in Fraction
    PROVE  Zero ++ x = x /\ Zero ** x = Zero /\ Frac(1, 1) ** x = x
<1>1. PICK a \in Nat, b \in Nat \ {0} : x = Frac(a, b)
  BY FracOf
<1>2. \A o \in Nat : \A i \in Nat \ {0} :
          /\ Frac(o, i) ++ Frac(a, b) = Frac(o * b + a * i, i * b)
          /\ Frac(o, i) ** Frac(a, b) = Frac(o * a, i * b)
  BY AddFrac, MulFrac
<1>3. 0 * b + a * 1 = a /\ 1 * b = b /\ 0 * a = 0 /\ 1 * a = a
      /\ 0 \in Nat /\ 1 \in Nat /\ 1 \in Nat \ {0}
  OBVIOUS
<1>4. Frac(0, b) = Frac(0, 1)
  <2>1. 0 * 1 = 0 * b
    OBVIOUS
  <2>2. QED
    BY <2>1, FracEqual
<1>5. Frac(0, 1) ++ Frac(a, b) = Frac(a, b)
  BY <1>2, <1>3
<1>6. Frac(0, 1) ** Frac(a, b) = Frac(0, 1)
  BY <1>2, <1>3, <1>4
<1>7. Frac(1, 1) ** Frac(a, b) = Frac(a, b)
  BY <1>2, <1>3
<1>8. QED
  BY <1>1, <1>5, <1>6, <1>7 DEF Zero

\* Addition and multiplication associate.
LEMMA Associates ==
    ASSUME NEW x \in Fraction, NEW y \in Fraction, NEW z \in Fraction
    PROVE  (x ++ y) ++ z = x ++ (y ++ z) /\ (x ** y) ** z = x ** (y ** z)
<1>1. PICK a \in Nat, b \in Nat \ {0} : x = Frac(a, b)
  BY FracOf
<1>2. PICK c \in Nat, e \in Nat \ {0} : y = Frac(c, e)
  BY FracOf
<1>3. PICK g \in Nat, h \in Nat \ {0} : z = Frac(g, h)
  BY FracOf
<1>4. b * e \in Nat \ {0} /\ e * h \in Nat \ {0}
  BY Products
<1> DEFINE A == a * e + c * b
           C == c * h + g * e
           B == b * e
           E == e * h
           M == a * c
           N == c * g
<1>5. A \in Nat /\ C \in Nat /\ M \in Nat /\ N \in Nat
  OBVIOUS
<1>6. /\ x ++ y = Frac(A, B) /\ y ++ z = Frac(C, E)
      /\ x ** y = Frac(M, B) /\ y ** z = Frac(N, E)
  BY <1>1, <1>2, <1>3, AddFrac, MulFrac
<1>7. A * h + g * B = a * E + C * b /\ B * h = b * E /\ M * g = a * N
  OBVIOUS
<1>8. B \in Nat \ {0} /\ E \in Nat \ {0}
  BY <1>4
<1> HIDE DEF A, B, C, E, M, N
<1>9. Frac(A, B) ++ Frac(g, h) = Frac(A * h + g * B, B * h)
  BY <1>5, <1>8, AddFrac
<1>10. Frac(a, b) ++ Frac(C, E) = Frac(a * E + C * b, b * E)
  BY <1>5, <1>8, AddFrac
<1>11. Frac(M, B) ** Frac(g, h) = Frac(M * g, B * h)
  BY <1>5, <1>8, MulFrac
<1>12. Frac(a, b) ** Frac(N, E) = Frac(a * N, b * E)
  BY <1>5, <1>8, MulFrac
<1>13. QED
  BY <1>1, <1>2, <1>3, <1>6, <1>7, <1>9, <1>10, <1>11, <1>12

\* Multiplication distributes over addition.
LEMMA Distributes ==
    ASSUME NEW x \in Fraction, NEW y \in Fraction, NEW z \in Fraction
    PROVE  (x ++ y) ** z = (x ** z) ++ (y ** z)
<1>1. PICK a \in Nat, b \in Nat \ {0} : x = Frac(a, b)
  BY FracOf
<1>2. PICK c \in Nat, e \in Nat \ {0} : y = Frac(c, e)
  BY FracOf
<1>3. PICK g \in Nat, h \in Nat \ {0} : z = Frac(g, h)
  BY FracOf
<1> DEFINE A == a * e + c * b
           B == b * e
           C == a * g
           D == b * h
           E == c * g
           F == e * h
<1>4. B \in Nat \ {0} /\ D \in Nat \ {0} /\ F \in Nat \ {0} /\ A \in Nat /\ C \in Nat /\ E \in Nat
  BY Products
<1>5. x ++ y = Frac(A, B) /\ x ** z = Frac(C, D) /\ y ** z = Frac(E, F)
  BY <1>1, <1>2, <1>3, AddFrac, MulFrac
<1>6. (A * g) * (D * F) = (C * F + E * D) * (B * h)
  <2>1. (A * g) * (D * F) = A * ((g * h) * (B * h))
    OBVIOUS
  <2>2. C * F + E * D = A * (g * h)
    OBVIOUS
  <2>3. A * ((g * h) * (B * h)) = (A * (g * h)) * (B * h)
    OBVIOUS
  <2>4. QED
    BY <2>1, <2>2, <2>3
<1> HIDE DEF A, B, C, D, E, F
<1>7. /\ Frac(A, B) ** Frac(g, h) = Frac(A * g, B * h)
      /\ Frac(C, D) ++ Frac(E, F) = Frac(C * F + E * D, D * F)
  BY <1>4, AddFrac, MulFrac
<1>8. Frac(A * g, B * h) = Frac(C * F + E * D, D * F)
  <2>1. A * g \in Nat /\ C * F + E * D \in Nat /\ B * h \in Nat \ {0} /\ D * F \in Nat \ {0}
    BY <1>4, Products
  <2>2. QED
    BY <1>6, <2>1, FracEqual
<1>9. QED
  BY <1>1, <1>2, <1>3, <1>5, <1>7, <1>8

\* The order of two ratios, in any terms.
LEMMA LeFrac ==
    ASSUME NEW n \in Nat, NEW d \in Nat \ {0}, NEW m \in Nat, NEW e \in Nat \ {0}
    PROVE  Frac(n, d) \preceq Frac(m, e) <=> n * e <= m * d
<1>1. PICK k \in Nat, l \in Nat \ {0} : Frac(n, d).n = k /\ Frac(n, d).d = l /\ k * d = n * l
  BY FracTerms
<1>2. PICK i \in Nat, j \in Nat \ {0} : Frac(m, e).n = i /\ Frac(m, e).d = j /\ i * e = m * j
  BY FracTerms
<1> DEFINE X == k * j
           Y == i * l
           D == d * e
           U == n * e
           V == m * d
           L == l * j
<1>3. D \in Nat \ {0} /\ L \in Nat \ {0} /\ X \in Nat /\ Y \in Nat /\ U \in Nat /\ V \in Nat
  BY Products
<1>4. X * D = U * L
  <2>1. X * D = (k * d) * (j * e) /\ U * L = (n * l) * (j * e)
    OBVIOUS
  <2>2. QED
    BY <1>1, <2>1
<1>5. Y * D = V * L
  <2>1. Y * D = (i * e) * (l * d) /\ V * L = (m * j) * (l * d)
    OBVIOUS
  <2>2. QED
    BY <1>2, <2>1
<1>6. (Y * D < X * D <=> Y < X) /\ (V * L < U * L <=> V < U)
  <2> HIDE DEF X, Y, D, U, V, L
  <2>1. QED
    BY <1>3, CancelLess
<1>7. Y < X <=> V < U
  <2> HIDE DEF X, Y, D, U, V, L
  <2>1. QED
    BY <1>4, <1>5, <1>6
<1>8. X <= Y <=> U <= V
  <2> HIDE DEF X, Y, D, U, V, L
  <2>1. QED
    BY <1>3, <1>7
<1>9. QED
  BY <1>1, <1>2, <1>8 DEF \preceq

\* The order of fractions is total.
LEMMA Compare ==
    ASSUME NEW x \in Fraction, NEW y \in Fraction
    PROVE  /\ x \preceq x
           /\ x \preceq y \/ y \prec x
           /\ ~(x \preceq y /\ y \prec x)
           /\ x \prec y => x \preceq y
           /\ x \preceq y /\ y \preceq x => x = y
<1>1. PICK a \in Nat, b \in Nat \ {0} : x.n = a /\ x.d = b /\ x = Frac(a, b)
  BY FracOf
<1>2. PICK c \in Nat, e \in Nat \ {0} : y.n = c /\ y.d = e /\ y = Frac(c, e)
  BY FracOf
<1>3. x \preceq x /\ (x \preceq y <=> a * e <= c * b) /\ (y \prec x <=> c * b < a * e)
      /\ (y \preceq x <=> c * b <= a * e) /\ (x \prec y <=> a * e < c * b)
  BY <1>1, <1>2 DEF \prec, \preceq
<1>4. a * e \in Nat /\ c * b \in Nat
  OBVIOUS
<1>5. a * e = c * b => x = y
  BY <1>1, <1>2, FracEqual
<1>6. QED
  BY <1>3, <1>4, <1>5

\* Subtraction gives what is missing from the larger one.
LEMMA Minus ==
    ASSUME NEW x \in Fraction, NEW y \in Fraction, x \preceq y
    PROVE  y -- x \in Fraction /\ x ++ (y -- x) = y
<1>1. PICK a \in Nat, b \in Nat \ {0} : x.n = a /\ x.d = b /\ x = Frac(a, b)
  BY FracOf
<1>2. PICK c \in Nat, e \in Nat \ {0} : y.n = c /\ y.d = e /\ y = Frac(c, e)
  BY FracOf
<1>3. a * e <= c * b
  BY <1>1, <1>2 DEF \preceq
<1>4. PICK m \in Nat : c * b - a * e = m /\ a * e + m = c * b
  <2>1. c * b \in Nat /\ a * e \in Nat
    OBVIOUS
  <2>2. c * b - a * e \in Nat /\ a * e + (c * b - a * e) = c * b
    BY <1>3, <2>1
  <2>3. QED
    BY <2>2
<1>5. PICK f \in Nat \ {0} : f = e * b
  BY Products
<1>6. y -- x = Frac(m, f)
  BY <1>1, <1>2, <1>4, <1>5 DEF --
<1>7. x ++ (y -- x) = Frac(a * f + m * b, b * f)
  BY <1>1, <1>6, AddFrac
<1>8. (a * f + m * b) * e = c * (b * f)
  <2>1. a * f = (a * e) * b
    BY <1>5
  <2>2. a * f + m * b = (a * e + m) * b
    BY <2>1
  <2>3. (a * f + m * b) * e = ((c * b) * b) * e
    BY <1>4, <2>2
  <2>4. c * (b * f) = ((c * b) * b) * e
    BY <1>5
  <2>5. QED
    BY <2>3, <2>4
<1>9. Frac(a * f + m * b, b * f) = Frac(c, e)
  <2>1. b * f \in Nat \ {0} /\ a * f + m * b \in Nat
    BY Products
  <2>2. QED
    BY <1>8, <2>1, FracEqual
<1>10. QED
  BY <1>2, <1>6, <1>7, <1>9, FracValue

\* A sum is at least each of its terms, and what was added can be taken away.
LEMMA Grows ==
    ASSUME NEW x \in Fraction, NEW z \in Fraction
    PROVE  x \preceq x ++ z /\ (x ++ z) -- x = z
<1>1. PICK a \in Nat, b \in Nat \ {0} : x.n = a /\ x.d = b /\ x = Frac(a, b)
  BY FracOf
<1>2. PICK g \in Nat, h \in Nat \ {0} : z.n = g /\ z.d = h /\ z = Frac(g, h)
  BY FracOf
<1>3. PICK s \in Nat : s = a * h + g * b
  OBVIOUS
<1>4. PICK t \in Nat \ {0} : t = b * h
  BY Products
<1>5. x ++ z = Frac(s, t)
  BY <1>1, <1>2, <1>3, <1>4, AddFrac
<1>6. PICK k \in Nat, l \in Nat \ {0} : Frac(s, t).n = k /\ Frac(s, t).d = l /\ k * t = s * l
  BY FracTerms
<1>7. x \preceq x ++ z
  <2>1. a * t <= s * b
    <3>1. s * b = a * t + (g * b) * b /\ (g * b) * b \in Nat /\ a * t \in Nat
      BY <1>3, <1>4
    <3>2. QED
      BY <3>1
  <2>2. QED
    BY <1>1, <1>5, <2>1, LeFrac
<1>8. a * l <= k * b
  BY <1>1, <1>5, <1>6, <1>7 DEF \preceq
<1>9. PICK m \in Nat : k * b - a * l = m /\ a * l + m = k * b
  <2>1. k * b \in Nat /\ a * l \in Nat
    OBVIOUS
  <2>2. k * b - a * l \in Nat /\ a * l + (k * b - a * l) = k * b
    BY <1>8, <2>1
  <2>3. QED
    BY <2>2
<1>10. PICK f \in Nat \ {0} : f = l * b
  BY Products
<1>11. (x ++ z) -- x = Frac(m, f)
  BY <1>1, <1>5, <1>6, <1>9, <1>10 DEF --
<1>12. m * h = g * f
  <2>1. (a * l + m) * h = s * l
    <3>1. (k * b) * h = k * t
      BY <1>4
    <3>2. QED
      BY <1>6, <1>9, <3>1
  <2>2. s * l = (a * h) * l + (g * b) * l
    BY <1>3
  <2>3. (a * l + m) * h = (a * l) * h + m * h
    OBVIOUS
  <2>4. (a * l) * h = (a * h) * l /\ (g * b) * l = g * f
    BY <1>10
  <2>5. (a * h) * l \in Nat /\ g * f \in Nat /\ m * h \in Nat
    OBVIOUS
  <2>6. QED
    BY <2>1, <2>2, <2>3, <2>4, <2>5
<1>13. QED
  BY <1>2, <1>7, <1>11, <1>12, FracEqual

\* Zero over anything is Zero.
LEMMA ZeroOver ==
    ASSUME NEW e \in Nat \ {0}
    PROVE  Frac(0, e) = Zero
<1>1. \A o \in Nat : \A i \in Nat \ {0} : o * e = 0 * i => Frac(o, i) = Frac(0, e)
  BY FracEqual
<1>2. 0 \in Nat /\ 1 \in Nat \ {0} /\ 0 * e = 0 * 1
  OBVIOUS
<1>3. Frac(0, 1) = Frac(0, e)
  BY <1>1, <1>2
<1>4. QED
  BY <1>3 DEF Zero

\* Division undoes multiplication, by anything but Zero.
LEMMA Quotient ==
    ASSUME NEW x \in Fraction, NEW y \in Fraction, y # Zero
    PROVE  x // y \in Fraction /\ (x // y) ** y = x
<1>1. PICK a \in Nat, b \in Nat \ {0} : x.n = a /\ x.d = b /\ x = Frac(a, b)
  BY FracOf
<1>2. PICK c \in Nat, e \in Nat \ {0} : y.n = c /\ y.d = e /\ y = Frac(c, e)
  BY FracOf
<1>3. c # 0
  BY <1>2, ZeroOver
<1>4. PICK s \in Nat : s = a * e
  OBVIOUS
<1>5. PICK t \in Nat \ {0} : t = b * c
  BY <1>3, Products
<1>6. x // y = Frac(s, t)
  BY <1>1, <1>2, <1>4, <1>5 DEF //
<1>7. (x // y) ** y = Frac(s * c, t * e)
  BY <1>2, <1>6, MulFrac
<1>8. (s * c) * b = a * (t * e)
  BY <1>4, <1>5
<1>9. s * c \in Nat /\ t * e \in Nat \ {0}
  BY Products
<1>10. Frac(s * c, t * e) = Frac(a, b)
  BY <1>8, <1>9, FracEqual
<1>11. QED
  BY <1>1, <1>6, <1>7, <1>10, FracValue

\* Only one leaves something other than Zero as it is.
LEMMA CancelFactor ==
    ASSUME NEW x \in Fraction, NEW t \in Fraction, t # Zero, x ** t = t
    PROVE  x = Frac(1, 1)
<1>1. PICK a \in Nat, b \in Nat \ {0} : x.n = a /\ x.d = b /\ x = Frac(a, b)
  BY FracOf
<1>2. PICK g \in Nat, h \in Nat \ {0} : t.n = g /\ t.d = h /\ t = Frac(g, h)
  BY FracOf
<1>3. g # 0
  BY <1>2, ZeroOver
<1>4. PICK k \in Nat \ {0} : k = g * h
  BY <1>3, Products
<1>5. a * g \in Nat /\ b * h \in Nat \ {0}
  BY Products
<1>6. Frac(a * g, b * h) = Frac(g, h)
  BY <1>1, <1>2, MulFrac
<1>7. (a * g) * h = g * (b * h)
  BY <1>5, <1>6, FracEqual
<1>8. a * k = b * k
  BY <1>4, <1>7
<1>9. a = b
  BY <1>8, Cancel
<1>10. \A n \in Nat : \A d \in Nat \ {0} : n * b = a * d => Frac(n, d) = Frac(a, b)
  BY FracEqual
<1>11. 1 \in Nat /\ 1 \in Nat \ {0} /\ 1 * b = a * 1
  BY <1>9
<1>12. QED
  BY <1>1, <1>10, <1>11

\* The order is transitive.
LEMMA AtMostTransitive ==
    ASSUME NEW x \in Fraction, NEW y \in Fraction, NEW z \in Fraction, x \preceq y, y \preceq z
    PROVE  x \preceq z
<1>1. y -- x \in Fraction /\ x ++ (y -- x) = y /\ z -- y \in Fraction /\ y ++ (z -- y) = z
  BY Minus
<1>2. z = x ++ ((y -- x) ++ (z -- y)) /\ (y -- x) ++ (z -- y) \in Fraction
  BY <1>1, Associates, Closed
<1>3. QED
  BY <1>2, Grows

\* The terms of a sum of two sums can be paired otherwise.
LEMMA SumOfSums ==
    ASSUME NEW x \in Fraction, NEW s \in Fraction, NEW u \in Fraction, NEW t \in Fraction
    PROVE  (x ++ s) ++ (u ++ t) = (x ++ u) ++ (s ++ t)
<1>1. (x ++ s) ++ (u ++ t) = x ++ (s ++ (u ++ t))
  BY Associates, Closed
<1>2. s ++ (u ++ t) = (s ++ u) ++ t /\ s ++ u = u ++ s /\ (u ++ s) ++ t = u ++ (s ++ t)
  BY Associates, Commutes
<1>3. x ++ (u ++ (s ++ t)) = (x ++ u) ++ (s ++ t)
  BY Associates, Closed
<1>4. QED
  BY <1>1, <1>2, <1>3

\* The two first terms of a sum can be exchanged.
LEMMA Swap ==
    ASSUME NEW x \in Fraction, NEW y \in Fraction, NEW z \in Fraction
    PROVE  x ++ (y ++ z) = y ++ (x ++ z)
<1>1. x ++ (y ++ z) = (x ++ y) ++ z /\ y ++ (x ++ z) = (y ++ x) ++ z
  BY Associates
<1>2. x ++ y = y ++ x
  BY Commutes
<1>3. QED
  BY <1>1, <1>2

\* Addition respects the order.
LEMMA AddMonotone ==
    ASSUME NEW x \in Fraction, NEW y \in Fraction, NEW u \in Fraction, NEW v \in Fraction,
           x \preceq y, u \preceq v
    PROVE  x ++ u \preceq y ++ v
<1>1. PICK s \in Fraction : x ++ s = y
  BY Minus
<1>2. PICK t \in Fraction : u ++ t = v
  BY Minus
<1>3. (x ++ s) ++ (u ++ t) = (x ++ u) ++ (s ++ t)
  BY SumOfSums
<1>4. QED
  BY <1>1, <1>2, <1>3, Closed, Grows

\* So does multiplication.
LEMMA MulMonotone ==
    ASSUME NEW x \in Fraction, NEW y \in Fraction, NEW z \in Fraction, x \preceq y
    PROVE  x ** z \preceq y ** z
<1>1. PICK s \in Fraction : x ++ s = y
  BY Minus
<1>2. y ** z = (x ** z) ++ (s ** z) /\ x ** z \in Fraction /\ s ** z \in Fraction
  BY <1>1, Distributes, Closed
<1>3. QED
  BY <1>2, Grows

-----------------------------------------------------------------------------
(***************************************************************************)
(* Totals.                                                                 *)
(***************************************************************************)

\* Of the subsets of a finite set that are bad, one has no smaller bad one below it.
LEMMA SmallestSet ==
    ASSUME NEW U, IsFiniteSet(U), NEW Bad \in SUBSET (SUBSET U), Bad # {}
    PROVE  \E S \in Bad : \A T \in Bad : T \subseteq S => T = S
<1>1. IsWellFoundedOn(StrictSubsetOrdering(U), SUBSET U)
  BY FS_StrictSubsetOrderingWellFounded, FS_FiniteSubsetsOfFinite
<1>2. PICK S \in Bad : \A T \in Bad : ~(<<T, S>> \in StrictSubsetOrdering(U))
  BY <1>1, WFMin, Zenon
<1>3. QED
  BY <1>2 DEF StrictSubsetOrdering

\* The element FoldSet takes first.
Any(S) == CHOOSE x \in S : TRUE

\* g gives the total of f over each subset of U: the recursion behind Total.
Sums(f, U, g) ==
    \A S \in SUBSET U : g[S] = IF S = {} THEN Zero ELSE f[Any(S)] ++ g[S \ {Any(S)}]

\* Finite sets have totals ...
LEMMA SumsExist ==
    ASSUME NEW U, IsFiniteSet(U), NEW f, \A i \in U : f[i] \in Fraction
    PROVE  \E g \in [SUBSET U -> Fraction] : Sums(f, U, g)
<1> DEFINE D == SUBSET U
           measure == [S \in D |-> Cardinality(S)]
           stop == {{}}
           base == [S \in D |-> Zero]
           next == [S \in D |-> S \ {Any(S)}]
           more == [z \in D \X Fraction |-> IF z[1] = {} THEN Zero ELSE f[Any(z[1])] ++ z[2]]
<1>1. ASSUME NEW S \in D, S # {} PROVE Any(S) \in S /\ Any(S) \in U
  BY <1>1 DEF Any
<1>2. measure \in [D -> Nat]
  BY FS_Subset, FS_CardinalityType
<1>3. base \in [D -> Fraction] /\ next \in [D -> D]
  BY ZeroAndOne
<1>4. more \in [D \X Fraction -> Fraction]
  <2>1. ASSUME NEW S \in D, NEW x \in Fraction
        PROVE  (IF S = {} THEN Zero ELSE f[Any(S)] ++ x) \in Fraction
    BY <1>1, ZeroAndOne, Closed
  <2>2. ASSUME NEW z \in D \X Fraction PROVE z[1] \in D /\ z[2] \in Fraction
    OBVIOUS
  <2>3. QED
    BY <2>1, <2>2
<1>5. ASSUME NEW S \in D, S \notin stop PROVE measure[next[S]] < measure[S]
  <2>1. Any(S) \in S /\ IsFiniteSet(S) /\ Cardinality(S) \in Nat
    BY <1>1, <1>5, FS_Subset, FS_CardinalityType
  <2>2. Cardinality(S \ {Any(S)}) = Cardinality(S) - 1
    BY <2>1, FS_RemoveElement
  <2>3. S \ {Any(S)} \in D
    OBVIOUS
  <2>4. QED
    BY <2>1, <2>2, <2>3
<1>6. PICK g \in [D -> Fraction] : Recursive(g, D, stop, base, next, more)
  <2> HIDE DEF D, measure, stop, base, next, more
  <2>1. QED
    BY <1>2, <1>3, <1>4, <1>5, Recursion
<1>7. ASSUME NEW S \in SUBSET U
      PROVE  g[S] = IF S = {} THEN Zero ELSE f[Any(S)] ++ g[S \ {Any(S)}]
  <2>1. g[S] = IF S \in stop THEN base[S] ELSE more[<<S, g[next[S]]>>]
    BY <1>6 DEF Recursive
  <2>2. CASE S = {}
    BY <2>1, <2>2
  <2>3. CASE S # {}
    <3>1. S \ {Any(S)} \in D /\ g[S \ {Any(S)}] \in Fraction
      BY <1>6
    <3>2. <<S, g[S \ {Any(S)}]>> \in D \X Fraction
      BY <3>1
    <3>3. g[S] = more[<<S, g[S \ {Any(S)}]>>]
      BY <2>1, <2>3
    <3>4. QED
      BY <2>3, <3>2, <3>3
  <2>4. QED
    BY <2>2, <2>3
<1>8. QED
  BY <1>6, <1>7 DEF Sums

\* ... and only one each.
LEMMA SumsUnique ==
    ASSUME NEW S, IsFiniteSet(S), NEW f, NEW g, NEW h, NEW U, NEW V, S \subseteq U, S \subseteq V,
           Sums(f, U, g), Sums(f, V, h)
    PROVE  g[S] = h[S]
<1> DEFINE Bad == {T \in SUBSET S : g[T] # h[T]}
<1>1. SUFFICES ASSUME Bad # {} PROVE FALSE
  OBVIOUS
<1>2. PICK T \in Bad : \A R \in Bad : R \subseteq T => R = T
  <2>1. Bad \in SUBSET (SUBSET S)
    OBVIOUS
  <2> HIDE DEF Bad
  <2>2. QED
    BY <1>1, <2>1, SmallestSet
<1>3. T \in SUBSET U /\ T \in SUBSET V
  OBVIOUS
<1>4. /\ g[T] = IF T = {} THEN Zero ELSE f[Any(T)] ++ g[T \ {Any(T)}]
      /\ h[T] = IF T = {} THEN Zero ELSE f[Any(T)] ++ h[T \ {Any(T)}]
  BY <1>3 DEF Sums
<1>5. T # {}
  BY <1>4
<1>6. Any(T) \in T
  BY <1>5 DEF Any
<1>7. T \ {Any(T)} \notin Bad
  BY <1>2, <1>6
<1>8. QED
  BY <1>4, <1>5, <1>7

\* Total is what that recursion gives.
LEMMA TotalIsSum ==
    ASSUME NEW S, IsFiniteSet(S), NEW f, \A i \in S : f[i] \in Fraction
    PROVE  \E g \in [SUBSET S -> Fraction] : Sums(f, S, g) /\ Total(f, S) = g[S]
<1> DEFINE Is(g) == g = [T \in SUBSET S |->
                            IF T = {} THEN Zero ELSE LET x == CHOOSE x \in T : TRUE IN f[x] ++ g[T \ {x}]]
           Sum == CHOOSE g : Is(g)
<1>1. PICK g \in [SUBSET S -> Fraction] : Sums(f, S, g)
  BY SumsExist
<1>2. Is(g)
  BY <1>1 DEF Sums, Any
<1>3. Is(Sum)
  <2> HIDE DEF Is
  <2>1. QED
    BY <1>2
<1>4. Total(f, S) = Sum[S]
  BY DEF Total, FoldSet, MapThenFoldSet
<1>5. Sums(f, S, Sum)
  <2> HIDE DEF Sum
  <2>1. QED
    BY <1>3 DEF Sums, Any
<1>6. Sum[S] = g[S]
  <2> HIDE DEF Sum
  <2>1. QED
    BY <1>1, <1>5, SumsUnique
<1>7. QED
  BY <1>1, <1>4, <1>6

\* The total over any subset is given by one function.
LEMMA TotalOf ==
    ASSUME NEW U, IsFiniteSet(U), NEW f, \A i \in U : f[i] \in Fraction, NEW g, Sums(f, U, g),
           NEW S \in SUBSET U
    PROVE  Total(f, S) = g[S]
<1>1. IsFiniteSet(S)
  BY FS_Subset
<1>2. PICK h \in [SUBSET S -> Fraction] : Sums(f, S, h) /\ Total(f, S) = h[S]
  BY <1>1, TotalIsSum
<1>3. h[S] = g[S]
  BY <1>1, <1>2, SumsUnique
<1>4. QED
  BY <1>2, <1>3

\* A total of fractions is a fraction.
LEMMA TotalType ==
    ASSUME NEW S, IsFiniteSet(S), NEW f, \A i \in S : f[i] \in Fraction
    PROVE  Total(f, S) \in Fraction
<1>1. PICK g \in [SUBSET S -> Fraction] : Sums(f, S, g) /\ Total(f, S) = g[S]
  BY TotalIsSum, Zenon
<1>2. S \in SUBSET S
  OBVIOUS
<1>3. QED
  BY <1>1, <1>2

\* The total over nothing is Zero.
LEMMA TotalEmpty ==
    ASSUME NEW f
    PROVE  Total(f, {}) = Zero
<1>1. IsFiniteSet({})
  BY FS_EmptySet
<1>2. \A i \in {} : f[i] \in Fraction
  OBVIOUS
<1>3. PICK g \in [SUBSET {} -> Fraction] : Sums(f, {}, g) /\ Total(f, {}) = g[{}]
  BY <1>1, <1>2, TotalIsSum
<1>4. QED
  BY <1>3 DEF Sums

\* The total over U, whichever element is taken out first.
LEMMA TotalPick ==
    ASSUME NEW U, IsFiniteSet(U), NEW f, \A i \in U : f[i] \in Fraction, NEW y \in U
    PROVE  /\ Total(f, U) \in Fraction /\ Total(f, U \ {y}) \in Fraction
           /\ Total(f, U) = f[y] ++ Total(f, U \ {y})
<1>1. PICK g \in [SUBSET U -> Fraction] : Sums(f, U, g)
  BY SumsExist
<1>2. \A S \in SUBSET U : Total(f, S) = g[S]
  BY <1>1, TotalOf
<1> DEFINE Bad == {S \in SUBSET U : \E z \in S : g[S] # f[z] ++ g[S \ {z}]}
<1>3. SUFFICES ASSUME Bad # {} PROVE FALSE
  <2>1. U \in SUBSET U /\ U \ {y} \in SUBSET U
    OBVIOUS
  <2>2. Total(f, U) = g[U] /\ Total(f, U \ {y}) = g[U \ {y}] /\ g[U] \in Fraction /\ g[U \ {y}] \in Fraction
    BY <1>2, <1>1, <2>1
  <2>3. ASSUME g[U] # f[y] ++ g[U \ {y}] PROVE U \in Bad
    <3>1. \E z \in U : g[U] # f[z] ++ g[U \ {z}]
      BY <2>3
    <3>2. QED
      BY <2>1, <3>1
  <2> HIDE DEF Bad
  <2>4. QED
    BY <2>2, <2>3
<1>4. PICK S \in Bad : \A R \in Bad : R \subseteq S => R = S
  <2>1. Bad \in SUBSET (SUBSET U)
    OBVIOUS
  <2> HIDE DEF Bad
  <2>2. QED
    BY <1>3, <2>1, SmallestSet
<1>5. PICK z \in S : g[S] # f[z] ++ g[S \ {z}]
  OBVIOUS
<1> DEFINE x == Any(S)
<1>6. x \in S /\ S \in SUBSET U /\ g[S] = f[x] ++ g[S \ {x}]
  BY <1>1 DEF Sums, Any
<1>7. x # z
  BY <1>5, <1>6
<1> HIDE DEF x
<1>8. ASSUME NEW v \in S, NEW w \in S, v # w
      PROVE  g[S \ {v}] = f[w] ++ g[(S \ {v}) \ {w}]
  <2>1. S \ {v} \notin Bad
    <3> HIDE DEF Bad
    <3>1. S \ {v} # S
      BY <1>8
    <3>2. QED
      BY <1>4, <3>1
  <2>2. S \ {v} \in SUBSET U /\ w \in S \ {v}
    BY <1>6, <1>8
  <2>3. QED
    BY <2>1, <2>2
<1>9. g[S \ {x}] = f[z] ++ g[(S \ {x}) \ {z}] /\ g[S \ {z}] = f[x] ++ g[(S \ {z}) \ {x}]
  BY <1>6, <1>7, <1>8
<1>10. (S \ {x}) \ {z} = (S \ {z}) \ {x}
  OBVIOUS
<1> DEFINE r == g[(S \ {z}) \ {x}]
<1>11. r \in Fraction /\ f[x] \in Fraction /\ f[z] \in Fraction
  <2>1. (S \ {z}) \ {x} \in SUBSET U
    OBVIOUS
  <2>2. QED
    BY <1>1, <1>6, <2>1
<1>12. g[S] = f[x] ++ (f[z] ++ r) /\ g[S \ {z}] = f[x] ++ r
  BY <1>6, <1>9, <1>10
<1> HIDE DEF r
<1>13. f[x] ++ (f[z] ++ r) = f[z] ++ (f[x] ++ r)
  BY <1>11, Swap
<1>14. QED
  BY <1>5, <1>12, <1>13

\* What is added to some of the terms is added to the total.
LEMMA TotalAdd ==
    ASSUME NEW U, IsFiniteSet(U), NEW f, NEW g, NEW h, NEW T \in SUBSET U,
           \A i \in U : f[i] \in Fraction /\ h[i] \in Fraction, \A i \in T : g[i] \in Fraction,
           \A i \in U : h[i] = IF i \in T THEN f[i] ++ g[i] ELSE f[i]
    PROVE  Total(h, U) = Total(f, U) ++ Total(g, T)
<1> DEFINE Bad == {S \in SUBSET U : Total(h, S) # Total(f, S) ++ Total(g, S \cap T)}
<1>1. SUFFICES ASSUME Bad # {} PROVE FALSE
  <2>1. U \cap T = T
    OBVIOUS
  <2>2. QED
    BY <1>1, <2>1
<1>2. PICK S \in Bad : \A R \in Bad : R \subseteq S => R = S
  <2>1. Bad \in SUBSET (SUBSET U)
    OBVIOUS
  <2> HIDE DEF Bad
  <2>2. QED
    BY <1>1, <2>1, SmallestSet
<1>3. S # {}
  <2>1. {} \cap T = {}
    OBVIOUS
  <2>2. Zero ++ Zero = Zero
    BY Units, ZeroAndOne
  <2>3. QED
    BY <2>1, <2>2, TotalEmpty
<1>4. PICK y \in S : TRUE
  BY <1>3
<1> DEFINE R == S \ {y}
           a == Total(f, R)
           b == Total(g, R \cap T)
<1>5. IsFiniteSet(S) /\ IsFiniteSet(S \cap T) /\ S \subseteq U
  BY FS_Subset
<1>6. Total(h, R) = a ++ b
  <2>1. R \notin Bad
    <3> HIDE DEF Bad
    <3>1. QED
      BY <1>2, <1>4
  <2>2. QED
    BY <2>1
<1>7. /\ Total(h, S) = h[y] ++ Total(h, R) /\ Total(f, S) = f[y] ++ a
      /\ a \in Fraction /\ f[y] \in Fraction
  BY <1>4, <1>5, TotalPick
<1>8. CASE y \in T
  <2>1. (S \cap T) \ {y} = R \cap T /\ y \in S \cap T
    BY <1>8
  <2>2. Total(g, S \cap T) = g[y] ++ b /\ b \in Fraction /\ g[y] \in Fraction
    <3>1. PICK V : V = S \cap T
      OBVIOUS
    <3>2. IsFiniteSet(V) /\ y \in V /\ \A i \in V : g[i] \in Fraction
      BY <1>5, <2>1, <3>1
    <3>3. Total(g, V) = g[y] ++ Total(g, V \ {y}) /\ Total(g, V \ {y}) \in Fraction /\ g[y] \in Fraction
      BY <3>2, TotalPick
    <3>4. QED
      BY <2>1, <3>1, <3>3
  <2>3. h[y] = f[y] ++ g[y]
    BY <1>5, <1>8
  <2> HIDE DEF R, a, b
  <2>4. (f[y] ++ g[y]) ++ (a ++ b) = (f[y] ++ a) ++ (g[y] ++ b)
    BY <1>7, <2>2, SumOfSums
  <2>5. QED
    BY <1>6, <1>7, <2>2, <2>3, <2>4
<1>9. CASE y \notin T
  <2>1. S \cap T = R \cap T
    BY <1>9
  <2>2. b \in Fraction
    <3>1. IsFiniteSet(R \cap T) /\ \A i \in R \cap T : g[i] \in Fraction
      BY <1>5, <2>1
    <3>2. QED
      BY <3>1, TotalType
  <2>3. h[y] = f[y]
    BY <1>5, <1>9
  <2> HIDE DEF R, a, b
  <2>4. f[y] ++ (a ++ b) = (f[y] ++ a) ++ b
    BY <1>7, <2>2, Associates
  <2>5. Total(g, S \cap T) = b
    BY <2>1 DEF b
  <2>6. QED
    BY <1>6, <1>7, <2>3, <2>4, <2>5
<1>10. QED
  BY <1>8, <1>9

\* A factor of every term is a factor of the total.
LEMMA TotalScale ==
    ASSUME NEW U, IsFiniteSet(U), NEW f, NEW h, NEW c \in Fraction,
           \A i \in U : f[i] \in Fraction /\ h[i] = f[i] ** c
    PROVE  Total(h, U) = Total(f, U) ** c
<1> DEFINE Bad == {S \in SUBSET U : Total(h, S) # Total(f, S) ** c}
<1>1. SUFFICES ASSUME Bad # {} PROVE FALSE
  BY <1>1
<1>2. PICK S \in Bad : \A R \in Bad : R \subseteq S => R = S
  <2>1. Bad \in SUBSET (SUBSET U)
    OBVIOUS
  <2> HIDE DEF Bad
  <2>2. QED
    BY <1>1, <2>1, SmallestSet
<1>3. S # {}
  <2>1. Zero ** c = Zero
    BY Units
  <2>2. QED
    BY <2>1, TotalEmpty
<1>4. PICK y \in S : TRUE
  BY <1>3
<1>5. IsFiniteSet(S) /\ S \subseteq U /\ \A i \in S : f[i] \in Fraction /\ h[i] \in Fraction
  BY FS_Subset, Closed
<1>6. Total(h, S \ {y}) = Total(f, S \ {y}) ** c
  BY <1>2, <1>4
<1>7. /\ Total(h, S) = h[y] ++ Total(h, S \ {y}) /\ Total(f, S) = f[y] ++ Total(f, S \ {y})
      /\ Total(f, S \ {y}) \in Fraction
  BY <1>4, <1>5, TotalPick
<1>8. (f[y] ++ Total(f, S \ {y})) ** c = (f[y] ** c) ++ (Total(f, S \ {y}) ** c)
  BY <1>5, <1>7, Distributes
<1>9. QED
  BY <1>5, <1>6, <1>7, <1>8

\* The total depends on the terms alone.
LEMMA TotalSame ==
    ASSUME NEW U, IsFiniteSet(U), NEW f, NEW h, \A i \in U : f[i] \in Fraction /\ h[i] = f[i]
    PROVE  Total(h, U) = Total(f, U) /\ Total(f, U) \in Fraction
<1>1. Total(h, U) = Total(f, U) ++ Total(f, {})
  BY TotalAdd
<1>2. Total(f, U) \in Fraction
  BY TotalType
<1>3. Total(f, U) ++ Zero = Total(f, U)
  BY <1>2, Units, Commutes, ZeroAndOne
<1>4. QED
  BY <1>1, <1>2, <1>3, TotalEmpty

\* Larger terms have a larger total.
LEMMA TotalMonotone ==
    ASSUME NEW U, IsFiniteSet(U), NEW f, NEW h,
           \A i \in U : f[i] \in Fraction /\ h[i] \in Fraction /\ f[i] \preceq h[i]
    PROVE  Total(f, U) \preceq Total(h, U) /\ Total(f, U) \in Fraction /\ Total(h, U) \in Fraction
<1> DEFINE g == [i \in U |-> h[i] -- f[i]]
<1>1. \A i \in U : g[i] \in Fraction /\ h[i] = f[i] ++ g[i]
  BY Minus
<1>2. U \in SUBSET U
  OBVIOUS
<1>3. Total(f, U) \in Fraction /\ Total(h, U) \in Fraction /\ Total(g, U) \in Fraction
  BY <1>1, TotalSame
<1> HIDE DEF g
<1>4. Total(h, U) = Total(f, U) ++ Total(g, U)
  BY <1>1, <1>2, TotalAdd
<1>5. QED
  BY <1>3, <1>4, Grows

-----------------------------------------------------------------------------
(***************************************************************************)
(* Sets put in order.                                                      *)
(***************************************************************************)

\* before puts the members of S in a strict total order.
Orders(before, S) ==
    \A x, y \in S : /\ x \notin before[x]
                    /\ x # y => x \in before[y] \/ y \in before[x]
                    /\ x \in before[y] => before[x] \cap S \subseteq before[y]

\* InOrder lists every member of S once, at its rank.
LEMMA Ranks ==
    ASSUME NEW S, IsFiniteSet(S), NEW before, Orders(before, S)
    PROVE  /\ Cardinality(S) \in Nat
           /\ InOrder(S, before) \in [1..Cardinality(S) -> S]
           /\ \A k \in 1..Cardinality(S) : Cardinality(before[InOrder(S, before)[k]] \cap S) = k - 1
           /\ \A x \in S : /\ Cardinality(before[x] \cap S) \in 0..(Cardinality(S) - 1)
                           /\ InOrder(S, before)[Cardinality(before[x] \cap S) + 1] = x
<1> DEFINE n == Cardinality(S)
           rank == [x \in S |-> Cardinality(before[x] \cap S)]
<1>1. n \in Nat
  BY FS_CardinalityType
<1>2. ASSUME NEW x \in S
      PROVE  Cardinality(before[x] \cap S) \in 0..(n - 1) /\ IsFiniteSet(before[x] \cap S)
  <2>1. before[x] \cap S \in SUBSET (S \ {x})
    BY DEF Orders
  <2>2. IsFiniteSet(S \ {x}) /\ Cardinality(S \ {x}) = n - 1
    BY FS_RemoveElement
  <2>3. IsFiniteSet(before[x] \cap S) /\ Cardinality(before[x] \cap S) <= n - 1
    BY <2>1, <2>2, FS_Subset
  <2>4. Cardinality(before[x] \cap S) \in Nat
    BY <2>3, FS_CardinalityType
  <2>5. QED
    BY <1>1, <2>3, <2>4
<1>3. ASSUME NEW x \in S, NEW y \in S, x \in before[y]
      PROVE  Cardinality(before[x] \cap S) # Cardinality(before[y] \cap S)
  <2>1. before[x] \cap S \in SUBSET (before[y] \cap S) /\ x \in before[y] \cap S /\ x \notin before[x] \cap S
    BY <1>3 DEF Orders
  <2>2. IsFiniteSet(before[y] \cap S)
    BY <1>2
  <2>3. Cardinality(before[y] \cap S) = Cardinality(before[x] \cap S) => before[y] \cap S = before[x] \cap S
    BY <2>1, <2>2, FS_Subset
  <2>4. QED
    BY <2>1, <2>3
<1>4. \A x, y \in S : rank[x] = rank[y] => x = y
  BY <1>3 DEF Orders
<1>5. rank \in [S -> 0..(n - 1)]
  BY <1>2
<1>6. rank \in Injection(S, 0..(n - 1))
  BY <1>4, <1>5 DEF Injection, IsInjective
<1>7. IsFiniteSet(0..(n - 1)) /\ Cardinality(0..(n - 1)) = n
  BY <1>1, FS_Interval
<1>8. rank \in Surjection(S, 0..(n - 1))
  BY <1>6, <1>7, FS_Injection
<1>9. ASSUME NEW k \in 1..n PROVE \E x \in S : Cardinality(before[x] \cap S) = k - 1
  <2>1. k - 1 \in 0..(n - 1)
    BY <1>1
  <2>2. QED
    BY <1>8, <2>1 DEF Surjection
<1>10. ASSUME NEW k \in 1..n
       PROVE  InOrder(S, before)[k] \in S /\ Cardinality(before[InOrder(S, before)[k]] \cap S) = k - 1
  BY <1>9 DEF InOrder
<1>11. InOrder(S, before) \in [1..n -> S]
  BY <1>9 DEF InOrder
<1>12. ASSUME NEW x \in S
       PROVE  InOrder(S, before)[Cardinality(before[x] \cap S) + 1] = x
  <2> DEFINE k == Cardinality(before[x] \cap S) + 1
  <2>1. k \in 1..n /\ k - 1 = Cardinality(before[x] \cap S)
    BY <1>1, <1>2
  <2>2. InOrder(S, before)[k] \in S /\ rank[InOrder(S, before)[k]] = rank[x]
    <3> HIDE DEF k
    <3>1. QED
      BY <1>10, <2>1
  <2>3. QED
    BY <1>4, <2>2
<1>13. QED
  BY <1>1, <1>2, <1>10, <1>11, <1>12

\* s lists the members of S that fewer than m precede, each once.
Foremost(s, S, before, m) ==
    /\ s \in Seq(S) /\ Len(s) = IF m < Cardinality(S) THEN m ELSE Cardinality(S)
    /\ Range(s) = {x \in S : Cardinality(before[x] \cap S) < m}
    /\ IsInjective(s)

\* The first m of them are those.
LEMMA FirstRanks ==
    ASSUME NEW S, IsFiniteSet(S), NEW before, Orders(before, S), NEW m \in Nat,
           NEW s, s = UpTo(m, InOrder(S, before))
    PROVE  Foremost(s, S, before, m)
<1> DEFINE n == Cardinality(S)
           all == InOrder(S, before)
           l == IF m < n THEN m ELSE n
<1>1. /\ n \in Nat /\ all \in [1..n -> S]
      /\ \A k \in 1..n : Cardinality(before[all[k]] \cap S) = k - 1
      /\ \A x \in S : Cardinality(before[x] \cap S) \in 0..(n - 1) /\ all[Cardinality(before[x] \cap S) + 1] = x
  BY Ranks
<1> HIDE DEF all, n, Foremost
<1>2. all \in Seq(S) /\ Len(all) = n
  BY <1>1
<1>3. l \in Nat /\ l <= n /\ l <= m /\ 1..l \subseteq 1..n
  BY <1>1
<1>4. s \in Seq(S) /\ Len(s) = l /\ \A k \in 1..l : s[k] = all[k]
  BY <1>1, <1>2, <1>3 DEF UpTo, all
<1>5. s = [k \in 1..l |-> all[k]]
  BY <1>4
<1>6. ASSUME NEW x \in Range(s) PROVE x \in S /\ Cardinality(before[x] \cap S) < m
  <2>1. PICK k \in 1..l : x = all[k]
    BY <1>5 DEF Range
  <2>2. k \in 1..n /\ k - 1 < m
    BY <1>3
  <2>3. QED
    BY <1>1, <2>1, <2>2
<1>7. ASSUME NEW x \in S, Cardinality(before[x] \cap S) < m PROVE x \in Range(s)
  <2> DEFINE k == Cardinality(before[x] \cap S) + 1
  <2>1. k \in 1..l
    BY <1>1, <1>7
  <2>2. s[k] = x
    BY <1>1, <1>4, <2>1
  <2>3. QED
    BY <1>5, <2>1, <2>2 DEF Range
<1>8. ASSUME NEW j \in 1..l, NEW k \in 1..l, s[j] = s[k] PROVE j = k
  <2>1. j \in 1..n /\ k \in 1..n /\ all[j] = all[k]
    BY <1>3, <1>4, <1>8
  <2>2. j - 1 = k - 1
    BY <1>1, <2>1
  <2>3. QED
    BY <2>2
<1>9. IsInjective(s)
  BY <1>4, <1>5, <1>8 DEF IsInjective
<1>10. QED
  BY <1>4, <1>6, <1>7, <1>9 DEF all, n, Foremost

-----------------------------------------------------------------------------
(***************************************************************************)
(* What a layer does to the weights.                                       *)
(***************************************************************************)

\* The weight a position takes of an excess is its share of the excess.
LEMMA Exchange ==
    ASSUME NEW x \in Fraction, NEW y \in Fraction, NEW t \in Fraction, t # Zero
    PROVE  x ** (y // t) = y ** (x // t)
<1>1. PICK a \in Nat, b \in Nat \ {0} : x.n = a /\ x.d = b /\ x = Frac(a, b)
  BY FracOf
<1>2. PICK c \in Nat, e \in Nat \ {0} : y.n = c /\ y.d = e /\ y = Frac(c, e)
  BY FracOf
<1>3. PICK g \in Nat \ {0}, h \in Nat \ {0} : t.n = g /\ t.d = h
  <2>1. PICK g \in Nat, h \in Nat \ {0} : t.n = g /\ t.d = h /\ t = Frac(g, h)
    BY FracOf
  <2>2. g = 0 => Frac(g, h) = Zero
    BY ZeroOver
  <2>3. QED
    BY <2>1, <2>2
<1>4. PICK eg \in Nat \ {0}, bg \in Nat \ {0} : eg = e * g /\ bg = b * g
  BY Products
<1>5. PICK ch \in Nat, ah \in Nat : ch = c * h /\ ah = a * h
  OBVIOUS
<1>6. y // t = Frac(ch, eg) /\ x // t = Frac(ah, bg)
  BY <1>1, <1>2, <1>3, <1>4, <1>5 DEF //
<1>7. x ** (y // t) = Frac(a * ch, b * eg)
  BY <1>1, <1>6, MulFrac
<1>8. y ** (x // t) = Frac(c * ah, e * bg)
  BY <1>2, <1>6, MulFrac
<1>9. a * ch = c * ah /\ b * eg = e * bg
  BY <1>4, <1>5
<1>10. QED
  BY <1>7, <1>8, <1>9

\* A list of weights has finitely many positions, and so has one that changes them.
LEMMA Weights ==
    ASSUME NEW w \in Seq(Fraction)
    PROVE  /\ IsFiniteSet(DOMAIN w) /\ \A i \in DOMAIN w : w[i] \in Fraction
           /\ \A v : DOMAIN v = DOMAIN w /\ v = [i \in DOMAIN w |-> v[i]] /\ (\A i \in DOMAIN w : v[i] \in Fraction)
                     => v \in Seq(Fraction)
<1>1. DOMAIN w = 1..Len(w) /\ Len(w) \in Nat
  OBVIOUS
<1>2. IsFiniteSet(1..Len(w))
  BY <1>1, FS_Interval
<1>3. ASSUME NEW v, DOMAIN v = DOMAIN w, v = [i \in DOMAIN w |-> v[i]], \A i \in DOMAIN w : v[i] \in Fraction
      PROVE  v \in Seq(Fraction)
  <2>1. v \in [1..Len(w) -> Fraction]
    BY <1>1, <1>3
  <2>2. QED
    BY <1>1, <2>1
<1>4. QED
  BY <1>1, <1>2, <1>3

\* Spread lowers no weight, raises only those of S, and hands out its excess or nothing.
LEMMA SpreadGives ==
    ASSUME NEW w \in Seq(Fraction), NEW e \in Fraction, NEW S \in SUBSET DOMAIN w
    PROVE  /\ Spread(w, e, S) \in Seq(Fraction) /\ DOMAIN Spread(w, e, S) = DOMAIN w
           /\ \A i \in DOMAIN w : w[i] \preceq Spread(w, e, S)[i]
           /\ \A i \in DOMAIN w \ S : Spread(w, e, S)[i] = w[i]
           /\ Total(Spread(w, e, S), DOMAIN w) \preceq Total(w, DOMAIN w) ++ e
<1> DEFINE D == DOMAIN w
           total == Total(w, S)
           v == Spread(w, e, S)
<1>1. IsFiniteSet(D) /\ \A i \in D : w[i] \in Fraction
  BY Weights
<1>2. IsFiniteSet(S) /\ \A i \in S : w[i] \in Fraction
  BY <1>1, FS_Subset
<1>3. total \in Fraction /\ Total(w, D) \in Fraction
  BY <1>1, <1>2, TotalType
<1>4. CASE total = Zero
  <2>1. v = w
    BY <1>4 DEF Spread
  <2>2. QED
    BY <1>1, <1>3, <2>1, Compare, Grows
<1>5. CASE total # Zero
  <2> DEFINE g == [i \in S |-> e ** (w[i] // total)]
  <2>1. v = [i \in D |-> IF i \in S THEN w[i] ++ (e ** (w[i] // total)) ELSE w[i]]
    BY <1>5 DEF Spread
  <2> HIDE DEF total, v
  <2>2. \A i \in S : w[i] // total \in Fraction /\ g[i] \in Fraction /\ g[i] = w[i] ** (e // total)
    <3>1. ASSUME NEW i \in S
          PROVE  w[i] // total \in Fraction /\ e ** (w[i] // total) = w[i] ** (e // total)
      BY <1>2, <1>3, <1>5, Quotient, Exchange
    <3>2. ASSUME NEW i \in S PROVE e ** (w[i] // total) \in Fraction
      BY <3>1, Closed
    <3>3. QED
      BY <3>1, <3>2
  <2>3. \A i \in D : v[i] = IF i \in S THEN w[i] ++ g[i] ELSE w[i]
    BY <2>1
  <2> HIDE DEF g
  <2>4. \A i \in D : v[i] \in Fraction /\ w[i] \preceq v[i]
    <3>1. ASSUME NEW i \in S PROVE w[i] ++ g[i] \in Fraction /\ w[i] \preceq w[i] ++ g[i]
      BY <1>2, <2>2, Closed, Grows
    <3>2. ASSUME NEW i \in D PROVE w[i] \preceq w[i]
      BY <1>1, Compare
    <3>3. QED
      BY <1>1, <2>3, <3>1, <3>2
  <2>5. DOMAIN v = D /\ v = [i \in D |-> v[i]]
    BY <2>1
  <2>6. v \in Seq(Fraction)
    BY <2>4, <2>5, Weights
  <2>7. Total(g, S) = e
    <3>1. e // total \in Fraction /\ (e // total) ** total = e
      BY <1>3, <1>5, Quotient
    <3>2. Total(g, S) = Total(w, S) ** (e // total)
      BY <1>2, <2>2, <3>1, TotalScale
    <3>3. total ** (e // total) = e
      BY <1>3, <3>1, Commutes
    <3>4. Total(w, S) = total
      BY DEF total
    <3>5. QED
      BY <3>2, <3>3, <3>4
  <2>8. Total(v, D) = Total(w, D) ++ Total(g, S)
    <3>1. /\ \A i \in D : w[i] \in Fraction /\ v[i] \in Fraction
          /\ \A i \in S : g[i] \in Fraction
          /\ S \in SUBSET D
      BY <1>1, <2>2, <2>4
    <3> HIDE DEF D
    <3>2. QED
      BY <1>1, <2>3, <3>1, TotalAdd
  <2>9. Total(v, D) \preceq Total(w, D) ++ e
    BY <1>3, <2>7, <2>8, Compare, Closed
  <2>10. \A i \in D \ S : v[i] = w[i]
    BY <2>3
  <2>11. Spread(w, e, S) = v
    BY DEF v
  <2>12. QED
    BY <2>4, <2>5, <2>6, <2>9, <2>10, <2>11
<1>6. QED
  BY <1>4, <1>5

\* Cutting the weights above a cap to it and spreading the excess adds no exposure:
\* CapPositions and CapEarnings.
LEMMA CutToCap ==
    ASSUME NEW w \in Seq(Fraction), NEW cap \in Fraction, NEW over \in SUBSET DOMAIN w,
           \A i \in over : cap \prec w[i], NEW S \in SUBSET DOMAIN w
    PROVE  LET excess == Total([i \in over |-> w[i] -- cap], over)
               cut    == [i \in DOMAIN w |-> IF i \in over THEN cap ELSE w[i]]
               v      == Spread(cut, excess, S)
           IN  v \in Seq(Fraction) /\ DOMAIN v = DOMAIN w /\ Total(v, DOMAIN w) \preceq Total(w, DOMAIN w)
<1> DEFINE D == DOMAIN w
           g == [i \in over |-> w[i] -- cap]
           cut == [i \in D |-> IF i \in over THEN cap ELSE w[i]]
           excess == Total(g, over)
<1>1. IsFiniteSet(D) /\ \A i \in D : w[i] \in Fraction
  BY Weights
<1>2. \A i \in D : cut[i] \in Fraction
  BY <1>1
<1>3. cut \in Seq(Fraction) /\ DOMAIN cut = D
  BY <1>2, Weights
<1>4. \A i \in over : g[i] \in Fraction /\ cap ++ g[i] = w[i]
  <2>1. ASSUME NEW i \in over PROVE w[i] -- cap \in Fraction /\ cap ++ (w[i] -- cap) = w[i]
    <3>1. w[i] \in Fraction /\ cap \prec w[i]
      BY <1>1
    <3>2. cap \preceq w[i]
      BY <3>1, Compare
    <3>3. QED
      BY <3>1, <3>2, Minus
  <2>2. QED
    BY <2>1
<1>5. \A i \in D : w[i] = IF i \in over THEN cut[i] ++ g[i] ELSE cut[i]
  BY <1>4
<1> HIDE DEF g, cut
<1>6. Total(w, D) = Total(cut, D) ++ excess
  BY <1>1, <1>2, <1>4, <1>5, TotalAdd
<1>7. excess \in Fraction
  <2>1. IsFiniteSet(over)
    BY <1>1, FS_Subset
  <2>2. QED
    BY <1>4, <2>1, TotalType
<1> HIDE DEF excess
<1>8. /\ Spread(cut, excess, S) \in Seq(Fraction) /\ DOMAIN Spread(cut, excess, S) = D
      /\ Total(Spread(cut, excess, S), D) \preceq Total(cut, D) ++ excess
  BY <1>3, <1>7, SpreadGives
<1>9. QED
  BY <1>6, <1>8 DEF cut, excess, g

\* Reducing the weights of M by the excess of a total that M has at least, and
\* spreading that excess elsewhere, adds no exposure and lowers no other weight; if
\* the total is that of M, M is left with the cap: CapSector.
LEMMA CutSector ==
    ASSUME NEW w \in Seq(Fraction), NEW cap \in Fraction, NEW T \in Fraction, cap \prec T,
           NEW M \in SUBSET DOMAIN w, NEW S \in SUBSET (DOMAIN w \ M), T \preceq Total(w, M)
    PROVE  LET cut == [i \in DOMAIN w |-> IF i \in M THEN w[i] ** (cap // T) ELSE w[i]]
               v   == Spread(cut, T -- cap, S)
           IN  /\ v \in Seq(Fraction) /\ DOMAIN v = DOMAIN w
               /\ Total(v, DOMAIN w) \preceq Total(w, DOMAIN w)
               /\ \A i \in DOMAIN w \ M : w[i] \preceq v[i]
               /\ \A i \in DOMAIN w \ (M \cup S) : v[i] = w[i]
               /\ T = Total(w, M) => Total(v, M) = cap
<1> DEFINE D == DOMAIN w
           c == cap // T
           cut == [i \in D |-> IF i \in M THEN w[i] ** c ELSE w[i]]
           e == T -- cap
           v == Spread(cut, e, S)
           X == Total(w, M)
<1>1. /\ IsFiniteSet(D) /\ \A i \in D : w[i] \in Fraction
      /\ IsFiniteSet(M) /\ \A i \in M : w[i] \in Fraction
  BY Weights, FS_Subset
<1>2. cap \preceq T /\ T # Zero
  <2>1. Zero \preceq cap
    BY Units, Grows, ZeroAndOne
  <2>2. QED
    BY <2>1, Compare
<1>3. e \in Fraction /\ cap ++ e = T
  BY <1>2, Minus
<1>4. c \in Fraction /\ c ** T = cap
  BY <1>2, Quotient
<1>5. X \in Fraction
  BY <1>1, TotalType
<1> HIDE DEF c, e, X
\* The share that is taken away.
<1>6. PICK d \in Fraction : c ++ d = Frac(1, 1) /\ T ** d = e
  <2> DEFINE One == Frac(1, 1)
             q == e // T
  <2>1. q \in Fraction /\ q ** T = e
    BY <1>2, <1>3, Quotient
  <2> HIDE DEF q
  <2>2. (c ++ q) ** T = T
    <3>1. (c ++ q) ** T = (c ** T) ++ (q ** T)
      BY <1>4, <2>1, Distributes
    <3>2. QED
      BY <1>3, <1>4, <2>1, <3>1
  <2>3. c ++ q = One
    BY <1>2, <1>4, <2>1, <2>2, Closed, CancelFactor
  <2>4. T ** q = e
    BY <2>1, Commutes
  <2>5. QED
    BY <2>1, <2>3, <2>4
<1>7. ASSUME NEW x \in Fraction
      PROVE  x ** c \in Fraction /\ x ** d \in Fraction /\ x = (x ** c) ++ (x ** d)
  <2>1. x ** c \in Fraction /\ x ** d \in Fraction /\ x ** c = c ** x /\ x ** d = d ** x
    BY <1>4, Closed, Commutes
  <2>2. (c ++ d) ** x = (c ** x) ++ (d ** x)
    BY <1>4, Distributes
  <2>3. Frac(1, 1) ** x = x
    BY Units
  <2>4. QED
    BY <1>6, <2>1, <2>2, <2>3
<1> DEFINE g == [i \in M |-> w[i] ** d]
<1>8. \A i \in D : cut[i] \in Fraction
  BY <1>1, <1>7
<1>9. cut \in Seq(Fraction) /\ DOMAIN cut = D
  BY <1>8, Weights
<1>10. \A i \in M : g[i] \in Fraction /\ g[i] = w[i] ** d
  BY <1>1, <1>7
<1>11. \A i \in D : w[i] = IF i \in M THEN cut[i] ++ g[i] ELSE cut[i]
  BY <1>1, <1>7
<1>12. (\A i \in M : cut[i] = w[i] ** c) /\ (\A i \in D \ M : cut[i] = w[i])
  OBVIOUS
<1> HIDE DEF g, cut
<1>13. Total(w, D) = Total(cut, D) ++ Total(g, M)
  BY <1>1, <1>8, <1>10, <1>11, TotalAdd
<1>14. Total(g, M) = X ** d /\ Total(g, M) \in Fraction
  BY <1>1, <1>5, <1>7, <1>10, TotalScale DEF X
<1>15. e \preceq Total(g, M)
  <2>1. T \preceq X
    BY DEF X
  <2>2. T ** d \preceq X ** d
    BY <1>5, <2>1, MulMonotone
  <2>3. QED
    BY <1>6, <1>14, <2>2
<1>16. S \in SUBSET DOMAIN cut
  BY <1>9
<1>17. /\ v \in Seq(Fraction) /\ DOMAIN v = D
       /\ \A i \in D : cut[i] \preceq v[i]
       /\ \A i \in D \ S : v[i] = cut[i]
       /\ Total(v, D) \preceq Total(cut, D) ++ e
  BY <1>3, <1>9, <1>16, SpreadGives
<1> HIDE DEF v
<1>18. Total(v, D) \preceq Total(w, D)
  <2>1. Total(cut, D) \in Fraction /\ Total(v, D) \in Fraction
    BY <1>1, <1>8, <1>17, TotalType, Weights
  <2>2. Total(cut, D) ++ e \preceq Total(cut, D) ++ Total(g, M)
    BY <1>3, <1>14, <1>15, <2>1, AddMonotone, Compare
  <2>3. QED
    BY <1>3, <1>13, <1>14, <1>17, <2>1, <2>2, Closed, AtMostTransitive
<1>19. T = X => Total(v, M) = cap
  <2>1. \A i \in M : v[i] = w[i] ** c
    BY <1>12, <1>17
  <2>2. Total(v, M) = X ** c
    BY <1>1, <1>4, <2>1, TotalScale DEF X
  <2>3. QED
    BY <1>4, <2>2, Commutes
<1>20. (\A i \in D \ M : w[i] \preceq v[i]) /\ (\A i \in D \ (M \cup S) : v[i] = w[i])
  BY <1>12, <1>17
<1>21. QED
  BY <1>17, <1>18, <1>19, <1>20 DEF v, cut, c, e, X

-----------------------------------------------------------------------------
(***************************************************************************)
(* The inductive invariant.                                                *)
(***************************************************************************)

\* The sectors that wait in a pass are over the cap, are not frozen and are different
\* from each other; their totals may have grown since, except that of the first one.
DueOK ==
    /\ due \in Seq([sector : Range(sector) \ frozen, total : Fraction, first : BOOLEAN])
    /\ \A k \in DOMAIN due :
         /\ SectorCap \prec due[k].total
         /\ due[k].total \preceq SectorTotal(due[k].sector)
         /\ due[k].first => k = 1 /\ due[k].total = SectorTotal(due[k].sector)
    /\ \A j, k \in DOMAIN due : due[j].sector = due[k].sector => j = k

\* A sector that was capped against its own total is at the cap and stays there.
FrozenOK ==
    /\ late \subseteq frozen
    /\ \A s \in (frozen \cap Range(sector)) \ late : SectorTotal(s) \preceq SectorCap

\* The inductive invariant.
IInv ==
    /\ TypeOK
    /\ near \subseteq Position
    /\ step \in {"select", "weigh", "positions"} => due = <<>> /\ late = {} /\ near = {}
    /\ step \in {"sectors", "earnings"} => sector \in [Position -> Sectors]
    /\ step = "sectors" => DueOK /\ FrozenOK
    /\ SellBuffer /\ LoneSectorsCapped

\* It holds before a rebalance.
LEMMA InitIInv == Init => IInv
<1>1. SUFFICES ASSUME Init PROVE IInv
  OBVIOUS
<1>2. <<>> \in Seq(Symbol) /\ <<>> \in Seq(Fraction) /\ Len(<<>>) = 0 /\ DOMAIN <<>> = {}
  OBVIOUS
<1>3. IsInjective(<<>>)
  BY <1>2 DEF IsInjective
<1>4. TypeOK
  BY <1>1, <1>2, <1>3, SizesAssumption DEF Init, TypeOK
<1>5. QED
  BY <1>1, <1>4 DEF Init, IInv, LoneSectorsCapped, SellBuffer

-----------------------------------------------------------------------------
(***************************************************************************)
(* Selection and equal weights.                                            *)
(***************************************************************************)

\* The universe is finite, and the sizes are numbers.
LEMMA SymbolsFinite ==
    /\ IsFiniteSet(Symbol) /\ Cardinality(Symbol) = NSymbols /\ NSymbols \in Nat
    /\ TopN \in Nat /\ TopN > 0 /\ ExitRank \in Nat /\ MaxScore \in Nat
<1>1. NSymbols \in Nat
  BY SizesAssumption
<1>2. IsFiniteSet(1..NSymbols) /\ Cardinality(1..NSymbols) = NSymbols
  BY <1>1, FS_Interval
<1>3. QED
  BY <1>1, <1>2, SizesAssumption DEF Symbol

\* The sort key of select_top_n puts any set of symbols in a strict total order.
LEMMA BetterOrders ==
    ASSUME score \in [Symbol -> 0..MaxScore], NEW S \in SUBSET Symbol
    PROVE  Orders(RanksBefore, S)
<1>1. \A x \in Symbol : x \in Int /\ score[x] \in Int
  BY SymbolsFinite DEF Symbol
<1>2. \A x, y \in Symbol : x \in RanksBefore[y] <=> Better(x, y)
  BY DEF RanksBefore
<1>3. \A x, y \in Symbol : ~Better(x, x) /\ (x # y => Better(x, y) \/ Better(y, x))
  BY <1>1 DEF Better
<1>4. \A x, y, z \in Symbol : Better(z, x) /\ Better(x, y) => Better(z, y)
  BY <1>1 DEF Better
<1>5. QED
  BY <1>2, <1>3, <1>4 DEF Orders

\* The members of a concatenation.
LEMMA RangeOfBoth ==
    ASSUME NEW S, NEW r \in Seq(S), NEW e \in Seq(S)
    PROVE  Range(r \o e) = Range(r) \cup Range(e)
<1> DEFINE n == Len(r)
           l == Len(e)
           s == r \o e
<1>1. /\ n \in Nat /\ l \in Nat /\ DOMAIN s = 1..(n + l) /\ DOMAIN r = 1..n /\ DOMAIN e = 1..l
      /\ \A i \in 1..(n + l) : s[i] = IF i <= n THEN r[i] ELSE e[i - n]
  OBVIOUS
<1> HIDE DEF n, l, s
<1>2. ASSUME NEW i \in 1..n PROVE r[i] \in Range(s)
  <2>1. i \in 1..(n + l) /\ s[i] = r[i]
    BY <1>1
  <2>2. QED
    BY <1>1, <2>1 DEF Range
<1>3. ASSUME NEW i \in 1..l PROVE e[i] \in Range(s)
  <2>1. i + n \in 1..(n + l) /\ s[i + n] = e[i]
    BY <1>1
  <2>2. QED
    BY <1>1, <2>1 DEF Range
<1>4. ASSUME NEW i \in 1..(n + l) PROVE s[i] \in Range(r) \cup Range(e)
  <2>1. CASE i <= n
    <3>1. i \in 1..n /\ s[i] = r[i]
      BY <1>1, <2>1
    <3>2. QED
      BY <1>1, <3>1 DEF Range
  <2>2. CASE ~(i <= n)
    <3>1. i - n \in 1..l /\ s[i] = e[i - n]
      BY <1>1, <2>2
    <3>2. QED
      BY <1>1, <3>1 DEF Range
  <2>3. QED
    BY <2>1, <2>2
<1>5. Range(s) = Range(r) \cup Range(e)
  BY <1>1, <1>2, <1>3, <1>4 DEF Range
<1>6. QED
  BY <1>5 DEF s

\* What select_top_n returns keeps the promise of its buffer.
LEMMA SelectKeeps ==
    ASSUME TypeOK, step = "select"
    PROVE  /\ Retained \o Entering \in Seq(Symbol)
           /\ Len(Retained \o Entering) = IF TopN < NSymbols THEN TopN ELSE NSymbols
           /\ IsInjective(Retained \o Entering)
           /\ \A s \in held \ Range(Retained \o Entering) :
                \/ Cardinality(RanksBefore[s]) >= ExitRank
                \/ Cardinality(RanksBefore[s] \cap held) >= TopN
           /\ \A s \in Range(Retained \o Entering) \ held : RanksBefore[s] \subseteq Range(Retained \o Entering)
<1> DEFINE R == {s \in held : Cardinality(RanksBefore[s]) < ExitRank}
           r == Retained
           U == Symbol \ Range(r)
           e == Entering
           m == TopN - Len(r)
<1>1. score \in [Symbol -> 0..MaxScore] /\ held \subseteq Symbol
  BY DEF TypeOK
<1>2. R \in SUBSET Symbol /\ IsFiniteSet(R) /\ Orders(RanksBefore, R) /\ Cardinality(R) \in Nat
  <2>1. R \in SUBSET Symbol
    BY <1>1
  <2> HIDE DEF R
  <2>2. QED
    BY <1>1, <2>1, SymbolsFinite, BetterOrders, FS_Subset, FS_CardinalityType
<1>3. /\ r \in Seq(R) /\ Len(r) = IF TopN < Cardinality(R) THEN TopN ELSE Cardinality(R)
      /\ Range(r) = {s \in R : Cardinality(RanksBefore[s] \cap R) < TopN}
      /\ IsInjective(r)
  <2>1. r = UpTo(TopN, InOrder(R, RanksBefore))
    BY DEF Retained
  <2>2. TopN \in Nat
    BY SymbolsFinite
  <2> HIDE DEF R, r
  <2>3. Foremost(r, R, RanksBefore, TopN)
    BY <1>2, <2>1, <2>2, FirstRanks
  <2>4. QED
    BY <2>3 DEF Foremost
<1>4. m \in Nat /\ Len(r) \in Nat
  BY <1>2, <1>3, SymbolsFinite
<1>5. U \in SUBSET Symbol /\ IsFiniteSet(U) /\ Orders(RanksBefore, U) /\ Cardinality(U) \in Nat
  <2>1. U \in SUBSET Symbol
    OBVIOUS
  <2> HIDE DEF U
  <2>2. QED
    BY <1>1, <2>1, SymbolsFinite, BetterOrders, FS_Subset, FS_CardinalityType
<1>6. /\ e \in Seq(U) /\ Len(e) = IF m < Cardinality(U) THEN m ELSE Cardinality(U)
      /\ Range(e) = {s \in U : Cardinality(RanksBefore[s] \cap U) < m}
      /\ IsInjective(e)
  <2>1. e = UpTo(m, InOrder(U, RanksBefore))
    BY DEF Entering
  <2> HIDE DEF R, r, U, e, m
  <2>2. Foremost(e, U, RanksBefore, m)
    BY <1>4, <1>5, <2>1, FirstRanks
  <2>3. QED
    BY <2>2 DEF Foremost
<1> HIDE DEF R, U, r, e, m
<1>7. Cardinality(U) = NSymbols - Len(r) /\ Len(r) <= NSymbols
  <2>1. r \in [1..Len(r) -> R]
    BY <1>3, SeqDef
  <2>2. r \in Surjection(1..Len(r), Range(r)) /\ r \in Injection(1..Len(r), Range(r))
    <3>1. DOMAIN r = 1..Len(r) /\ Range(r) = {r[k] : k \in 1..Len(r)}
      BY <2>1 DEF Range
    <3>2. r \in [1..Len(r) -> Range(r)]
      BY <2>1, <3>1
    <3>3. \A j, k \in 1..Len(r) : r[j] = r[k] => j = k
      BY <1>3, <3>1 DEF IsInjective
    <3>4. \A x \in Range(r) : \E k \in 1..Len(r) : r[k] = x
      BY <3>1
    <3>5. QED
      BY <3>2, <3>3, <3>4 DEF Surjection, Injection, IsInjective
  <2>3. IsFiniteSet(1..Len(r)) /\ Cardinality(1..Len(r)) = Len(r)
    <3>1. \A n \in Nat : IsFiniteSet(1..n) /\ Cardinality(1..n) = n
      BY FS_Interval
    <3>2. QED
      BY <1>4, <3>1
  <2>4. IsFiniteSet(Range(r)) /\ Cardinality(Range(r)) = Len(r)
    BY <2>2, <2>3, FS_Surjection
  <2>5. Range(r) \in SUBSET Symbol
    BY <1>2, <1>3
  <2>6. Cardinality(Range(r)) <= NSymbols
    BY <2>5, SymbolsFinite, FS_Subset
  <2>7. Symbol \cap Range(r) = Range(r)
    BY <2>5
  <2>8. Cardinality(U) = NSymbols - Cardinality(Range(r))
    BY <2>7, SymbolsFinite, FS_Difference DEF U
  <2>9. QED
    BY <2>4, <2>6, <2>8
<1>8. /\ r \o e \in Seq(Symbol) /\ Len(r \o e) = Len(r) + Len(e)
      /\ \A i \in 1..(Len(r) + Len(e)) : (r \o e)[i] = IF i <= Len(r) THEN r[i] ELSE e[i - Len(r)]
  <2>1. r \in Seq(Symbol) /\ e \in Seq(Symbol)
    BY <1>2, <1>3, <1>5, <1>6
  <2>2. QED
    BY <2>1
<1>9. Len(r \o e) = IF TopN < NSymbols THEN TopN ELSE NSymbols
  BY <1>2, <1>3, <1>4, <1>5, <1>6, <1>7, <1>8, SymbolsFinite DEF m
<1>10. Range(r \o e) = Range(r) \cup Range(e)
  <2>1. r \in Seq(Symbol) /\ e \in Seq(Symbol)
    BY <1>2, <1>3, <1>5, <1>6
  <2>2. QED
    BY <2>1, RangeOfBoth
<1>11. IsInjective(r \o e)
  <2> DEFINE n == Len(r)
             l == Len(e)
             s == r \o e
  <2>1. n \in Nat /\ l \in Nat /\ DOMAIN s = 1..(n + l) /\ DOMAIN r = 1..n /\ DOMAIN e = 1..l
    BY <1>3, <1>4, <1>6, <1>8
  <2>2. ASSUME NEW i \in 1..(n + l), NEW j \in 1..(n + l), s[i] = s[j]
        PROVE  i = j
    <3>1. \A k \in 1..n : r[k] \notin U
      BY <2>1 DEF U, Range
    <3>2. \A k \in 1..l : e[k] \in U
      BY <1>6, <2>1
    <3>3. \A k \in 1..(n + l) : k \in 1..n \/ (k - n \in 1..l /\ ~(k <= n))
      BY <2>1
    <3>4. CASE i \in 1..n /\ j \in 1..n
      <4>1. r[i] = r[j]
        BY <1>8, <2>1, <2>2, <3>4
      <4>2. QED
        BY <1>3, <2>1, <3>4, <4>1 DEF IsInjective
    <3>5. CASE i \notin 1..n /\ j \notin 1..n
      <4>1. e[i - n] = e[j - n] /\ i - n \in 1..l /\ j - n \in 1..l
        BY <1>8, <2>1, <2>2, <3>3, <3>5
      <4>2. i - n = j - n
        BY <1>6, <2>1, <4>1 DEF IsInjective
      <4>3. QED
        BY <2>1, <4>2
    <3>6. CASE (i \in 1..n) # (j \in 1..n)
      BY <1>8, <2>1, <2>2, <3>1, <3>2, <3>3, <3>6
    <3>7. QED
      BY <3>4, <3>5, <3>6
  <2>3. QED
    BY <2>1, <2>2 DEF IsInjective
<1>12. ASSUME NEW s \in held \ Range(r \o e), ~(Cardinality(RanksBefore[s]) >= ExitRank)
       PROVE  Cardinality(RanksBefore[s] \cap held) >= TopN
  <2>1. IsFiniteSet(RanksBefore[s]) /\ IsFiniteSet(RanksBefore[s] \cap held)
    <3>1. RanksBefore[s] \in SUBSET Symbol
      BY <1>1 DEF RanksBefore
    <3>2. QED
      BY <3>1, SymbolsFinite, FS_Subset
  <2>2. Cardinality(RanksBefore[s]) \in Nat /\ Cardinality(RanksBefore[s] \cap held) \in Nat
    BY <2>1, FS_CardinalityType
  <2>3. s \in R
    BY <1>12, <2>2, SymbolsFinite DEF R
  <2>4. ~(Cardinality(RanksBefore[s] \cap R) < TopN)
    BY <1>3, <1>10, <2>3
  <2>5. RanksBefore[s] \cap R \in SUBSET (RanksBefore[s] \cap held)
    BY DEF R
  <2>6. Cardinality(RanksBefore[s] \cap R) <= Cardinality(RanksBefore[s] \cap held) /\ Cardinality(RanksBefore[s] \cap R) \in Nat
    BY <2>1, <2>5, FS_Subset, FS_CardinalityType
  <2>7. QED
    BY <2>2, <2>4, <2>6, SymbolsFinite
<1>13. ASSUME NEW s \in Range(r \o e) \ held, NEW t \in RanksBefore[s]
       PROVE  t \in Range(r \o e)
  <2>1. s \in Range(e)
    <3>1. Range(r) \subseteq held
      BY <1>3 DEF R
    <3>2. QED
      BY <1>10, <3>1
  <2>2. s \in U /\ Cardinality(RanksBefore[s] \cap U) < m
    BY <1>6, <2>1
  <2>3. t \in Symbol
    BY <1>5, <2>2 DEF RanksBefore
  <2>4. CASE t \in Range(r)
    BY <1>10, <2>4
  <2>5. CASE t \notin Range(r)
    <3>1. t \in U
      BY <2>3, <2>5 DEF U
    <3>2. RanksBefore[t] \cap U \in SUBSET (RanksBefore[s] \cap U)
      BY <1>5, <2>2, <3>1 DEF Orders
    <3>3. IsFiniteSet(RanksBefore[s] \cap U) /\ Cardinality(RanksBefore[s] \cap U) \in Nat
      BY <1>5, FS_Intersection, FS_CardinalityType
    <3>4. Cardinality(RanksBefore[t] \cap U) <= Cardinality(RanksBefore[s] \cap U) /\ Cardinality(RanksBefore[t] \cap U) \in Nat
      BY <3>2, <3>3, FS_Subset, FS_CardinalityType
    <3>5. t \in Range(e)
      BY <1>4, <1>6, <2>2, <3>1, <3>3, <3>4
    <3>6. QED
      BY <1>10, <3>5
  <2>6. QED
    BY <2>4, <2>5
<1>14. QED
  BY <1>8, <1>9, <1>11, <1>12, <1>13 DEF r, e

\* Selection keeps the invariant.
LEMMA SelectStep == IInv /\ Select => IInv'
<1>1. SUFFICES ASSUME TypeOK, IInv, Select PROVE IInv'
  BY DEF IInv
<1>2. /\ step = "select" /\ step' = "weigh"
      /\ order' = IF \A s \in Symbol : score[s] = 0 THEN <<>> ELSE Retained \o Entering
      /\ UNCHANGED <<score, held, sector, near, weight, frozen, due, late>>
  BY <1>1 DEF Select
<1>3. RanksBefore' = RanksBefore
  BY <1>2 DEF RanksBefore, Better
<1> DEFINE s == Retained \o Entering
<1>4. /\ s \in Seq(Symbol)
      /\ Len(s) = IF TopN < NSymbols THEN TopN ELSE NSymbols
      /\ IsInjective(s)
      /\ \A x \in held \ Range(s) :
           \/ Cardinality(RanksBefore[x]) >= ExitRank
           \/ Cardinality(RanksBefore[x] \cap held) >= TopN
      /\ \A x \in Range(s) \ held : RanksBefore[x] \subseteq Range(s)
  BY <1>1, <1>2, SelectKeeps
<1> HIDE DEF s
<1>5. order' \in Seq(Symbol) /\ Len(order') <= TopN /\ IsInjective(order')
  <2>1. CASE order' = <<>>
    BY <2>1, SymbolsFinite DEF IsInjective
  <2>2. CASE order' = s
    BY <1>4, <2>2, SymbolsFinite
  <2>3. QED
    BY <1>2, <2>1, <2>2 DEF s
<1>6. SellBuffer'
  <2>1. order' # <<>> => order' = s
    BY <1>2 DEF s
  <2>2. QED
    BY <1>2, <1>3, <1>4, <2>1 DEF SellBuffer
<1>7. TypeOK'
  BY <1>1, <1>2, <1>5 DEF TypeOK
<1>8. (near \subseteq Position)' /\ (due = <<>> /\ late = {} /\ near = {})'
  BY <1>1, <1>2 DEF IInv, Position
<1>9. QED
  BY <1>2, <1>6, <1>7, <1>8 DEF IInv, LoneSectorsCapped

\* Equal weights keep the invariant.
LEMMA WeighStep == IInv /\ Weigh => IInv'
<1>1. SUFFICES ASSUME TypeOK, IInv, Weigh PROVE IInv'
  BY DEF IInv
<1>2. /\ step = "weigh" /\ step' \in {"positions", "done"}
      /\ \E exposure \in Exposures : weight' = [i \in DOMAIN order |-> exposure ** Frac(1, Len(order))]
      /\ score' = <<>> /\ held' = {} /\ order' = <<>>
      /\ UNCHANGED <<sector, near, frozen, due, late>>
  BY <1>1 DEF Weigh
<1>3. PICK exposure \in Fraction : weight' = [i \in DOMAIN order |-> exposure ** Frac(1, Len(order))]
  BY <1>2, CapsAssumption
<1>4. DOMAIN order = 1..Len(order) /\ Len(order) \in Nat
  BY <1>1 DEF TypeOK
<1>5. ASSUME NEW i \in 1..Len(order)
      PROVE  exposure ** Frac(1, Len(order)) \in Fraction
  <2>1. Len(order) \in Nat \ {0} /\ 1 \in Nat
    BY <1>4
  <2>2. QED
    BY <2>1, FracValue, Closed
<1>6. weight' \in Seq(Fraction)
  <2>1. weight' \in [1..Len(order) -> Fraction]
    BY <1>3, <1>4, <1>5
  <2>2. QED
    BY <1>4, <2>1
<1>7. IsInjective(<<>>)
  BY DEF IsInjective
<1>8. TypeOK'
  BY <1>1, <1>2, <1>6, <1>7, SymbolsFinite DEF TypeOK
<1>9. near = {}
  BY <1>1, <1>2 DEF IInv
<1>10. QED
  BY <1>1, <1>2, <1>8, <1>9 DEF IInv, LoneSectorsCapped, SellBuffer

-----------------------------------------------------------------------------
(***************************************************************************)
(* The risk layers.                                                        *)
(***************************************************************************)

\* A pass of the position caps keeps the invariant and adds no exposure.
LEMMA CapPositionsStep ==
    ASSUME IInv, CapPositions
    PROVE  IInv' /\ Invested' \preceq Invested
<1> DEFINE over   == {i \in Position : PositionCap \prec weight[i]}
           excess == Total([i \in over |-> weight[i] -- PositionCap], over)
           cut    == [i \in Position |-> IF i \in over THEN PositionCap ELSE weight[i]]
           under  == Position \ (frozen \cup over)
<1>1. /\ step = "positions" /\ step' \in {"positions", "sectors"}
      /\ weight' = weight \/ weight' = Spread(cut, excess, under)
      /\ step' = "sectors" => frozen' = {} /\ sector' \in [Position -> Sectors]
      /\ step' # "sectors" => sector' = sector
      /\ UNCHANGED <<score, held, order, near, due, late>>
  BY DEF CapPositions
<1>2. PositionCap \in Fraction /\ weight \in Seq(Fraction)
  BY CapsAssumption DEF IInv, TypeOK
<1>3. weight' \in Seq(Fraction) /\ DOMAIN weight' = DOMAIN weight /\ Invested' \preceq Invested
  <2>1. CASE weight' = weight
    <3>1. Invested \in Fraction
      BY <1>2, Weights, TotalType DEF Invested, Position
    <3>2. Invested' = Invested
      BY <2>1 DEF Invested, Position
    <3>3. QED
      BY <1>2, <2>1, <3>1, <3>2, Compare
  <2>2. CASE weight' = Spread(cut, excess, under)
    <3>1. over \in SUBSET DOMAIN weight /\ under \in SUBSET DOMAIN weight /\ \A i \in over : PositionCap \prec weight[i]
      BY DEF Position
    <3>2. Position = DOMAIN weight
      BY DEF Position
    <3> HIDE DEF over, under
    <3>3. /\ weight' \in Seq(Fraction) /\ DOMAIN weight' = DOMAIN weight
          /\ Total(weight', DOMAIN weight) \preceq Total(weight, DOMAIN weight)
      BY <1>2, <2>2, <3>1, <3>2, CutToCap
    <3>4. QED
      BY <3>3 DEF Invested, Position
  <2>3. QED
    BY <1>1, <2>1, <2>2
<1>4. due = <<>> /\ late = {} /\ near = {}
  BY <1>1 DEF IInv
<1>5. TypeOK'
  BY <1>1, <1>3, <1>4 DEF IInv, TypeOK
<1>6. step' = "sectors" => sector' \in [Position' -> Sectors]
  BY <1>1, <1>3 DEF Position
<1>7. step' = "sectors" => DueOK' /\ FrozenOK'
  <2>1. SUFFICES ASSUME step' = "sectors" PROVE DueOK' /\ FrozenOK'
    OBVIOUS
  <2>2. frozen' = {} /\ due' = <<>> /\ late' = {}
    BY <1>1, <1>4, <2>1
  <2>3. DueOK'
    BY <2>2 DEF DueOK
  <2>4. FrozenOK'
    BY <2>2 DEF FrozenOK
  <2>5. QED
    BY <2>3, <2>4
<1>8. QED
  BY <1>1, <1>3, <1>4, <1>5, <1>6, <1>7 DEF IInv, LoneSectorsCapped, SellBuffer

\* The earnings layer keeps the invariant and adds no exposure.
LEMMA CapEarningsStep ==
    ASSUME IInv, CapEarnings
    PROVE  IInv' /\ Invested' \preceq Invested
<1> DEFINE over   == {i \in near : EarningsCap \prec weight[i]}
           excess == Total([i \in over |-> weight[i] -- EarningsCap], over)
           cut    == [i \in Position |-> IF i \in over THEN EarningsCap ELSE weight[i]]
           rest   == Position \ over
<1>1. /\ step = "earnings" /\ step' = "done"
      /\ weight' = weight \/ weight' = Spread(cut, excess, rest)
      /\ UNCHANGED <<score, held, order, sector, near, frozen, due, late>>
  BY DEF CapEarnings
<1>2. EarningsCap \in Fraction /\ weight \in Seq(Fraction) /\ near \subseteq Position
  BY CapsAssumption DEF IInv, TypeOK
<1>3. weight' \in Seq(Fraction) /\ DOMAIN weight' = DOMAIN weight /\ Invested' \preceq Invested
  <2>1. CASE weight' = weight
    <3>1. Invested \in Fraction
      BY <1>2, Weights, TotalType DEF Invested, Position
    <3>2. Invested' = Invested
      BY <2>1 DEF Invested, Position
    <3>3. QED
      BY <1>2, <2>1, <3>1, <3>2, Compare
  <2>2. CASE weight' = Spread(cut, excess, rest)
    <3>1. over \in SUBSET DOMAIN weight /\ rest \in SUBSET DOMAIN weight /\ \A i \in over : EarningsCap \prec weight[i]
      BY <1>2 DEF Position
    <3>2. Position = DOMAIN weight
      BY DEF Position
    <3> HIDE DEF over, rest
    <3>3. /\ weight' \in Seq(Fraction) /\ DOMAIN weight' = DOMAIN weight
          /\ Total(weight', DOMAIN weight) \preceq Total(weight, DOMAIN weight)
      BY <1>2, <2>2, <3>1, <3>2, CutToCap
    <3>4. QED
      BY <3>3 DEF Invested, Position
  <2>3. QED
    BY <1>1, <2>1, <2>2
<1>4. TypeOK'
  BY <1>1, <1>3 DEF IInv, TypeOK
<1>5. (near \subseteq Position)'
  BY <1>1, <1>2, <1>3 DEF Position
<1>6. QED
  BY <1>1, <1>3, <1>4, <1>5 DEF IInv, LoneSectorsCapped, SellBuffer

\* The total of a sector is a fraction.
LEMMA SectorWeights ==
    ASSUME IInv, sector \in [Position -> Sectors], NEW s
    PROVE  SectorTotal(s) \in Fraction /\ Members(s) \subseteq Position /\ IsFiniteSet(Members(s))
           /\ \A i \in Members(s) : weight[i] \in Fraction
<1>1. IsFiniteSet(Position) /\ \A i \in Position : weight[i] \in Fraction
  BY Weights DEF IInv, TypeOK, Position
<1>2. Members(s) \subseteq Position
  BY DEF Members
<1>3. IsFiniteSet(Members(s))
  BY <1>1, <1>2, FS_Subset
<1>4. SectorTotal(s) \in Fraction
  BY <1>1, <1>2, <1>3, TotalType DEF SectorTotal
<1>5. QED
  BY <1>1, <1>2, <1>3, <1>4

\* The sectors that a pass finds over the cap are listed once each, and all of them.
LEMMA OverSectorsOrdered ==
    ASSUME IInv, step = "sectors"
    PROVE  LET over == {s \in Range(sector) \ frozen : SectorCap \prec SectorTotal(s)} IN
           /\ OverSectors \in [1..Cardinality(over) -> over] /\ Cardinality(over) \in Nat
           /\ \A j, k \in 1..Cardinality(over) : OverSectors[j] = OverSectors[k] => j = k
           /\ OverSectors = <<>> => over = {}
<1> DEFINE over == {s \in Range(sector) \ frozen : SectorCap \prec SectorTotal(s)}
           First(s) == CHOOSE i \in Members(s) : \A j \in Members(s) : i <= j
           before == [s \in over |-> {t \in over : First(t) < First(s)}]
<1>1. sector \in [Position -> Sectors] /\ Position = 1..Len(weight) /\ Len(weight) \in Nat
  BY DEF IInv, TypeOK, Position
<1>2. ASSUME NEW s \in Range(sector)
      PROVE  First(s) \in Nat /\ First(s) \in Members(s)
  <2>1. Members(s) \in SUBSET Nat /\ Members(s) # {}
    BY <1>1 DEF Members, Range
  <2>2. \E i \in Members(s) : \A j \in Members(s) : i <= j
    BY <2>1, LeastElement
  <2>3. QED
    BY <2>1, <2>2
<1>3. \A s, t \in Range(sector) : First(s) = First(t) => s = t
  BY <1>2 DEF Members
<1>4. over \subseteq Range(sector)
  OBVIOUS
<1>5. Orders(before, over)
  <2> HIDE DEF over, First
  <2>1. \A s \in over : First(s) \in Nat
    BY <1>2, <1>4
  <2>2. \A s, t \in over : s \in before[t] <=> First(s) < First(t)
    OBVIOUS
  <2>3. \A s, t \in over : First(s) = First(t) => s = t
    BY <1>3, <1>4
  <2> HIDE DEF before
  <2>4. QED
    BY <2>1, <2>2, <2>3 DEF Orders
<1>6. IsFiniteSet(over)
  <2>1. sector \in Surjection(Position, Range(sector))
    BY <1>1 DEF Surjection, Range
  <2>2. IsFiniteSet(Position)
    BY <1>1, Weights DEF IInv, TypeOK, Position
  <2>3. IsFiniteSet(Range(sector))
    BY <2>1, <2>2, FS_Surjection
  <2>4. QED
    BY <1>4, <2>3, FS_Subset
<1>7. OverSectors = InOrder(over, before)
  BY DEF OverSectors
<1> HIDE DEF over, before
<1>8. /\ Cardinality(over) \in Nat /\ OverSectors \in [1..Cardinality(over) -> over]
      /\ \A k \in 1..Cardinality(over) : Cardinality(before[OverSectors[k]] \cap over) = k - 1
  BY <1>5, <1>6, <1>7, Ranks
<1>9. \A j, k \in 1..Cardinality(over) : OverSectors[j] = OverSectors[k] => j = k
  <2>1. \A j, k \in 1..Cardinality(over) : OverSectors[j] = OverSectors[k] => j - 1 = k - 1
    BY <1>8
  <2>2. QED
    BY <1>8, <2>1
<1>10. OverSectors = <<>> => over = {}
  <2>1. SUFFICES ASSUME OverSectors = <<>> PROVE over = {}
    OBVIOUS
  <2>2. 1..Cardinality(over) = {}
    BY <1>8, <2>1
  <2>3. Cardinality(over) = 0
    BY <1>8, <2>2
  <2>4. QED
    BY <1>6, <2>3, FS_EmptySet
<1>11. QED
  BY <1>8, <1>9, <1>10 DEF over

\* A record of the pass.
LEMMA DueRecord ==
    ASSUME NEW A, NEW F, NEW a \in A, NEW t \in F, NEW b \in BOOLEAN
    PROVE  [sector |-> a, total |-> t, first |-> b] \in [sector : A, total : F, first : BOOLEAN]
  BY Zenon

\* Opening a pass of the sector caps keeps the invariant; a pass that finds nothing
\* to cap leaves every sector that was capped alone within its cap.
LEMMA OpenSectorPassStep ==
    ASSUME IInv, OpenSectorPass
    PROVE  IInv' /\ Invested' \preceq Invested
<1> DEFINE over == {s \in Range(sector) \ frozen : SectorCap \prec SectorTotal(s)}
           n == Cardinality(over)
<1>1. /\ step = "sectors"
      /\ due' = [k \in DOMAIN OverSectors |->
                   [sector |-> OverSectors[k], total |-> SectorTotal(OverSectors[k]), first |-> k = 1]]
      /\ step' = IF OverSectors = <<>> THEN "earnings" ELSE step
      /\ near' \in IF OverSectors = <<>> THEN SUBSET Position ELSE {near}
      /\ UNCHANGED <<score, held, order, sector, weight, frozen, late>>
  BY DEF OpenSectorPass
<1>2. /\ OverSectors \in [1..n -> over] /\ n \in Nat
      /\ \A j, k \in 1..n : OverSectors[j] = OverSectors[k] => j = k
      /\ OverSectors = <<>> => over = {}
  BY <1>1, OverSectorsOrdered
<1>3. sector \in [Position -> Sectors] /\ DueOK /\ FrozenOK /\ near \subseteq Position
  BY <1>1 DEF IInv
<1>4. \A s : SectorTotal(s) \in Fraction /\ SectorTotal(s)' = SectorTotal(s)
  BY <1>1, <1>3, SectorWeights DEF SectorTotal, Members
<1>5. Position' = Position /\ Invested' = Invested
  BY <1>1 DEF Invested, Position
<1>6. Invested' \preceq Invested
  <2>1. Invested \in Fraction
    BY Weights, TotalType DEF IInv, TypeOK, Invested, Position
  <2>2. QED
    BY <1>5, <2>1, Compare
<1>7. TypeOK'
  BY <1>1 DEF IInv, TypeOK
<1>8. (near \subseteq Position)'
  BY <1>1, <1>3, <1>5
<1>9. DueOK'
  <2>1. /\ DOMAIN due' = 1..n
        /\ \A k \in 1..n : due'[k] = [sector |-> OverSectors[k], total |-> SectorTotal(OverSectors[k]), first |-> k = 1]
    BY <1>1, <1>2
  <2>2. \A k \in 1..n : OverSectors[k] \in Range(sector) \ frozen /\ SectorCap \prec SectorTotal(OverSectors[k])
    BY <1>2
  <2> DEFINE D == [sector : Range(sector) \ frozen, total : Fraction, first : BOOLEAN]
  <2>3. ASSUME NEW k \in 1..n PROVE due'[k] \in D
    <3>1. OverSectors[k] \in Range(sector) \ frozen /\ SectorTotal(OverSectors[k]) \in Fraction
      BY <1>4, <2>2
    <3>2. (k = 1) \in BOOLEAN
      OBVIOUS
    <3>3. [sector |-> OverSectors[k], total |-> SectorTotal(OverSectors[k]), first |-> k = 1] \in D
      BY <3>1, <3>2, DueRecord, Zenon
    <3> HIDE DEF D
    <3>4. QED
      BY <2>1, <3>3, Zenon
  <2>4. due' \in [1..n -> D]
    <3> HIDE DEF D
    <3>1. due' = [k \in 1..n |-> due'[k]]
      BY <1>1, <2>1
    <3>2. QED
      BY <2>3, <3>1
  <2>5. due' \in Seq(D)
    <3> HIDE DEF D
    <3>1. QED
      BY <1>2, <2>4
  <2>6. \A k \in 1..n : /\ due'[k].sector = OverSectors[k] /\ due'[k].total = SectorTotal(OverSectors[k])
                        /\ due'[k].first => k = 1
    <3>1. TAKE k \in 1..n
    <3>2. due'[k].sector = OverSectors[k] /\ due'[k].total = SectorTotal(OverSectors[k])
      BY <2>1
    <3> DEFINE r == [sector |-> OverSectors[k], total |-> SectorTotal(OverSectors[k]), first |-> k = 1]
    <3>3. r.first => k = 1
      OBVIOUS
    <3>4. due'[k] = r
      BY <2>1, Zenon
    <3> HIDE DEF r
    <3>5. QED
      BY <3>2, <3>3, <3>4
  <2>7. \A k \in 1..n : SectorTotal(OverSectors[k]) \preceq SectorTotal(OverSectors[k])
    BY <1>4, Compare
  <2>8. \A k \in 1..n : /\ SectorCap \prec due'[k].total
                        /\ due'[k].total \preceq SectorTotal(due'[k].sector)
                        /\ due'[k].first => k = 1 /\ due'[k].total = SectorTotal(due'[k].sector)
    BY <2>2, <2>6, <2>7
  <2>9. \A j, k \in 1..n : due'[j].sector = due'[k].sector => j = k
    BY <1>2, <2>6
  <2>10. \A k \in 1..n : SectorTotal(due[k].sector)' = SectorTotal(due'[k].sector)
    BY <1>1 DEF SectorTotal, Members
  <2>11. (due \in Seq([sector : Range(sector) \ frozen, total : Fraction, first : BOOLEAN]))'
    BY <1>1, <2>5
  <2>12. QED
    BY <2>1, <2>8, <2>9, <2>10, <2>11 DEF DueOK
<1>10. FrozenOK'
  BY <1>1, <1>3, <1>4 DEF FrozenOK
<1>11. LoneSectorsCapped'
  <2>1. SUFFICES ASSUME step' = "earnings", NEW s \in Range(sector) \ late
                 PROVE  SectorTotal(s) \preceq SectorCap
    BY <1>1, <1>4 DEF LoneSectorsCapped
  <2>2. over = {}
    BY <1>1, <1>2, <2>1
  <2>3. SectorCap \in Fraction /\ SectorTotal(s) \in Fraction
    BY <1>4, CapsAssumption
  <2>4. CASE s \in frozen
    BY <1>3, <2>1, <2>4 DEF FrozenOK
  <2>5. CASE s \notin frozen
    <3>1. ~(SectorCap \prec SectorTotal(s))
      BY <2>1, <2>2, <2>5
    <3>2. QED
      BY <2>3, <3>1, Compare
  <2>6. QED
    BY <2>4, <2>5
<1>12. QED
  BY <1>1, <1>3, <1>5, <1>6, <1>7, <1>8, <1>9, <1>10, <1>11 DEF IInv, SellBuffer

\* Capping a sector keeps the invariant and adds no exposure: the redistribution
\* reaches no sector that is frozen, and lowers the total of none that waits.
LEMMA CapSectorStep ==
    ASSUME IInv, CapSector
    PROVE  IInv' /\ Invested' \preceq Invested
<1> DEFINE this  == Head(due)
           M     == Members(this.sector)
           other == {i \in Position : sector[i] \notin frozen \cup {this.sector}}
           cut   == [i \in Position |-> IF i \in M THEN weight[i] ** (SectorCap // this.total) ELSE weight[i]]
<1>1. /\ step = "sectors" /\ due # <<>>
      /\ weight' = Spread([i \in Position |-> IF sector[i] = this.sector THEN weight[i] ** (SectorCap // this.total)
                                                                        ELSE weight[i]],
                          this.total -- SectorCap, other)
      /\ frozen' = frozen \cup {this.sector}
      /\ due' = Tail(due)
      /\ late' = IF this.first THEN late ELSE late \cup {this.sector}
      /\ UNCHANGED <<step, score, held, order, sector, near>>
  BY DEF CapSector
<1>2. /\ sector \in [Position -> Sectors] /\ DueOK /\ FrozenOK /\ near \subseteq Position
      /\ weight \in Seq(Fraction) /\ SectorCap \in Fraction /\ Position = DOMAIN weight
  BY <1>1, CapsAssumption DEF IInv, TypeOK, Position
<1> DEFINE D == [sector : Range(sector) \ frozen, total : Fraction, first : BOOLEAN]
           n == Len(due)
<1>3. due \in Seq(D) /\ n \in Nat \ {0} /\ DOMAIN due = 1..n /\ this = due[1]
  <2> HIDE DEF D
  <2>1. due \in Seq(D)
    BY <1>2 DEF DueOK, D
  <2>2. QED
    BY <1>1, <2>1
<1>4. this \in D
  <2> HIDE DEF D, this
  <2>1. 1 \in 1..n
    BY <1>3
  <2>2. QED
    BY <1>3, <2>1
<1>5. this.sector \in Range(sector) \ frozen /\ this.total \in Fraction /\ this.first \in BOOLEAN
  <2> HIDE DEF this
  <2>1. QED
    BY <1>4, Zenon
<1>6. /\ SectorCap \prec this.total /\ this.total \preceq SectorTotal(this.sector)
      /\ this.first => this.total = SectorTotal(this.sector)
  <2> HIDE DEF this
  <2>1. 1 \in DOMAIN due
    BY <1>3
  <2>2. QED
    BY <1>2, <1>3, <2>1 DEF DueOK
<1>7. M \in SUBSET DOMAIN weight /\ other \in SUBSET (DOMAIN weight \ M)
      /\ \A i \in Position : sector[i] = this.sector <=> i \in M
  BY <1>2 DEF Members
<1>8. cut = [i \in Position |-> IF sector[i] = this.sector THEN weight[i] ** (SectorCap // this.total) ELSE weight[i]]
  BY <1>7
<1>9. weight' = Spread(cut, this.total -- SectorCap, other) /\ this.total \preceq Total(weight, M)
  BY <1>1, <1>6, <1>8 DEF SectorTotal
<1>10. /\ weight' \in Seq(Fraction) /\ DOMAIN weight' = DOMAIN weight
       /\ Total(weight', DOMAIN weight) \preceq Total(weight, DOMAIN weight)
       /\ \A i \in DOMAIN weight \ M : weight[i] \preceq weight'[i]
       /\ \A i \in DOMAIN weight \ (M \cup other) : weight'[i] = weight[i]
       /\ this.total = Total(weight, M) => Total(weight', M) = SectorCap
  <2> DEFINE total == this.total
  <2>1. cut = [i \in DOMAIN weight |-> IF i \in M THEN weight[i] ** (SectorCap // total) ELSE weight[i]]
    BY <1>2
  <2>2. weight' = Spread(cut, total -- SectorCap, other) /\ total \preceq Total(weight, M) /\ total \in Fraction
        /\ SectorCap \prec total
    BY <1>5, <1>6, <1>9
  <2> HIDE DEF cut, M, other, total
  <2>3. QED
    BY <1>2, <1>7, <2>1, <2>2, CutSector DEF total
<1> HIDE DEF this, M, other, cut
<1>11. Invested' \preceq Invested /\ Position' = Position
  BY <1>10 DEF Invested, Position
<1>12. \A s : Members(s)' = Members(s) /\ SectorTotal(s)' = Total(weight', Members(s))
  BY <1>1 DEF Members, SectorTotal
<1>13. ASSUME NEW s, s # this.sector
       PROVE  /\ Members(s) \subseteq Position \ M
              /\ SectorTotal(s) \preceq SectorTotal(s)'
              /\ SectorTotal(s) \in Fraction /\ SectorTotal(s)' \in Fraction
              /\ s \in frozen => SectorTotal(s)' = SectorTotal(s)
  <2>1. Members(s) \subseteq Position \ M
    BY <1>2, <1>13 DEF Members, M
  <2>2. IsFiniteSet(Members(s)) /\ \A i \in Members(s) : weight[i] \in Fraction /\ weight'[i] \in Fraction
    <3>1. \A i \in DOMAIN weight : weight[i] \in Fraction /\ weight'[i] \in Fraction
      BY <1>2, <1>10, Weights
    <3>2. QED
      BY <1>2, <2>1, <3>1, SectorWeights
  <2>3. \A i \in Members(s) : weight[i] \preceq weight'[i]
    BY <1>2, <1>10, <2>1
  <2>4. /\ Total(weight, Members(s)) \preceq Total(weight', Members(s))
        /\ Total(weight, Members(s)) \in Fraction /\ Total(weight', Members(s)) \in Fraction
    BY <2>2, <2>3, TotalMonotone
  <2>5. ASSUME s \in frozen PROVE Total(weight', Members(s)) = Total(weight, Members(s))
    <3>1. \A i \in Members(s) : i \in DOMAIN weight \ (M \cup other)
      BY <1>2, <2>1, <2>5 DEF Members, other
    <3>2. \A i \in Members(s) : weight'[i] = weight[i]
      BY <1>10, <3>1
    <3>3. QED
      BY <2>2, <3>2, TotalSame
  <2>6. SectorTotal(s) = Total(weight, Members(s)) /\ SectorTotal(s)' = Total(weight', Members(s))
    BY <1>12 DEF SectorTotal
  <2>7. QED
    BY <2>1, <2>4, <2>5, <2>6
<1>14. late' \subseteq Range(sector)' /\ late \subseteq frozen
  BY <1>1, <1>2, <1>5 DEF IInv, TypeOK, FrozenOK
<1>15. TypeOK'
  BY <1>1, <1>10, <1>14 DEF IInv, TypeOK
<1>16. FrozenOK'
  <2>1. late' \subseteq frozen'
    BY <1>1, <1>14
  <2>2. ASSUME NEW s \in (frozen' \cap Range(sector)) \ late'
        PROVE  SectorTotal(s)' \preceq SectorCap
    <3>1. CASE s = this.sector
      <4>1. this.first
        BY <1>1, <2>2, <3>1
      <4>2. this.total = Total(weight, M)
        BY <1>6, <4>1 DEF SectorTotal, M
      <4>3. SectorTotal(s)' = SectorCap
        BY <1>10, <1>12, <3>1, <4>2 DEF M
      <4>4. QED
        BY <1>2, <4>3, Compare
    <3>2. CASE s # this.sector
      <4>1. s \in (frozen \cap Range(sector)) \ late
        BY <1>1, <2>2, <3>2
      <4>2. QED
        BY <1>2, <1>13, <3>2, <4>1 DEF FrozenOK
    <3>3. QED
      BY <3>1, <3>2
  <2>3. QED
    BY <1>1, <2>1, <2>2 DEF FrozenOK
<1>17. DueOK'
  <2> DEFINE E == [sector : Range(sector) \ (frozen \cup {this.sector}), total : Fraction, first : BOOLEAN]
  <2>1. /\ DOMAIN due' = 1..(n - 1) /\ Len(due') = n - 1 /\ n - 1 \in Nat
        /\ \A k \in 1..(n - 1) : due'[k] = due[k + 1] /\ k + 1 \in 1..n
    <3> HIDE DEF D
    <3>1. QED
      BY <1>1, <1>3, HeadTailProperties
  <2>2. ASSUME NEW k \in 1..(n - 1)
        PROVE  /\ due'[k] \in E /\ due'[k].sector # this.sector
               /\ SectorCap \prec due'[k].total
               /\ due'[k].total \preceq SectorTotal(due[k].sector)'
               /\ ~due'[k].first
    <3>1. k + 1 \in 1..n /\ 1 \in 1..n /\ k + 1 # 1 /\ due'[k] = due[k + 1]
      BY <1>3, <2>1
    <3> DEFINE d == due[k + 1]
    <3>2. d \in D
      <4> HIDE DEF D
      <4>1. QED
        BY <1>3, <3>1
    <3>3. d.sector # this.sector
      <4> HIDE DEF D
      <4>1. QED
        BY <1>2, <1>3, <3>1 DEF DueOK
    <3>4. SectorCap \prec d.total /\ d.total \preceq SectorTotal(d.sector) /\ ~d.first
      <4> HIDE DEF D
      <4>1. QED
        BY <1>2, <1>3, <3>1 DEF DueOK
    <3> HIDE DEF d
    <3>5. d \in E
      BY <3>2, <3>3, Zenon
    <3>6. d.total \in Fraction
      BY <3>2, Zenon
    <3>7. PICK s : s = d.sector
      OBVIOUS
    <3>8. d.total \preceq SectorTotal(s)'
      BY <1>13, <3>3, <3>4, <3>6, <3>7, AtMostTransitive
    <3>9. due'[k] = d
      BY <3>1 DEF d
    <3>10. due'[k].total \preceq Total(weight', Members(s)) /\ due'[k].sector = s
      BY <1>12, <3>7, <3>8, <3>9
    <3>11. SectorTotal(due[k].sector)' = Total(weight', Members(s))
      BY <1>1, <3>10 DEF SectorTotal, Members
    <3>12. QED
      BY <3>3, <3>4, <3>5, <3>9, <3>10, <3>11
  <2>3. (due \in Seq([sector : Range(sector) \ frozen, total : Fraction, first : BOOLEAN]))'
    <3>1. \A k \in 1..(n - 1) : due'[k] \in E
      BY <2>2
    <3>2. due' \in Seq(E)
      <4> HIDE DEF E, D
      <4>1. due' \in Seq(D)
        BY <1>1, <1>3, HeadTailProperties
      <4>2. due' \in [1..(n - 1) -> E]
        BY <2>1, <3>1, <4>1
      <4>3. QED
        BY <2>1, <4>2
    <3>3. QED
      BY <1>1, <3>2
  <2>4. \A j, k \in 1..(n - 1) : due'[j].sector = due'[k].sector => j = k
    <3>1. ASSUME NEW j \in 1..(n - 1), NEW k \in 1..(n - 1), due'[j].sector = due'[k].sector
          PROVE  j = k
      <4>1. due[j + 1].sector = due[k + 1].sector /\ j + 1 \in DOMAIN due /\ k + 1 \in DOMAIN due
        BY <1>3, <2>1, <3>1
      <4>2. j + 1 = k + 1
        BY <1>2, <4>1 DEF DueOK
      <4>3. QED
        BY <4>2
    <3>2. QED
      BY <3>1
  <2> HIDE DEF E
  <2>5. QED
    BY <2>1, <2>2, <2>3, <2>4 DEF DueOK
<1>18. QED
  BY <1>1, <1>2, <1>11, <1>15, <1>16, <1>17 DEF IInv, LoneSectorsCapped, SellBuffer

\* Nothing happens to the invariant when nothing happens.
LEMMA StutterIInv == IInv /\ UNCHANGED vars => IInv'
<1>1. SUFFICES ASSUME IInv, UNCHANGED vars PROVE IInv'
  OBVIOUS
<1>2. RanksBefore' = RanksBefore
  BY <1>1 DEF vars, RanksBefore, Better
<1>3. TypeOK'
  BY <1>1 DEF IInv, TypeOK, vars
<1>4. SellBuffer'
  BY <1>1, <1>2 DEF IInv, SellBuffer, vars
<1>5. step' = "sectors" => DueOK' /\ FrozenOK'
  <2>1. SUFFICES ASSUME step = "sectors" PROVE DueOK' /\ FrozenOK'
    BY <1>1 DEF vars
  <2>2. DueOK /\ FrozenOK
    BY <1>1, <2>1 DEF IInv
  <2>3. UNCHANGED <<sector, weight, frozen, due, late>>
    BY <1>1 DEF vars
  <2>4. DueOK'
    BY <2>2, <2>3 DEF DueOK, SectorTotal, Members
  <2>5. FrozenOK'
    BY <2>2, <2>3 DEF FrozenOK, SectorTotal, Members
  <2>6. QED
    BY <2>4, <2>5
<1>6. LoneSectorsCapped'
  BY <1>1 DEF IInv, LoneSectorsCapped, vars, SectorTotal, Members
<1>7. QED
  BY <1>1, <1>3, <1>4, <1>5, <1>6 DEF IInv, vars, Position

-----------------------------------------------------------------------------
(***************************************************************************)
(* The theorems.                                                           *)
(***************************************************************************)

\* Every step keeps the invariant.
LEMMA NextIInv == IInv /\ [Next]_vars => IInv'
<1>1. SUFFICES ASSUME IInv, [Next]_vars PROVE IInv'
  OBVIOUS
<1>2. CASE Select
  BY <1>1, <1>2, SelectStep
<1>3. CASE Weigh
  BY <1>1, <1>3, WeighStep
<1>4. CASE CapPositions
  BY <1>1, <1>4, CapPositionsStep
<1>5. CASE OpenSectorPass
  BY <1>1, <1>5, OpenSectorPassStep
<1>6. CASE CapSector
  BY <1>1, <1>6, CapSectorStep
<1>7. CASE CapEarnings
  BY <1>1, <1>7, CapEarningsStep
<1>8. CASE UNCHANGED vars
  BY <1>1, <1>8, StutterIInv
<1>9. QED
  BY <1>1, <1>2, <1>3, <1>4, <1>5, <1>6, <1>7, <1>8 DEF Next

\* The inductive invariant holds throughout a rebalance, for every universe, ranking,
\* assignment of sectors and cap.
THEOREM AllocationInvariance == Spec => []IInv
  BY InitIInv, NextIInv, PTL DEF Spec

\* build_portfolio never selects more than top_n symbols, selects none twice, and
\* every weight it computes is a fraction that is not negative.
THEOREM AllocationTypes == Spec => []TypeOK
  BY AllocationInvariance, PTL DEF IInv

\* apply_sector_caps leaves a sector above its cap only if it capped it after another
\* one of the same pass, against a total that was stale.
THEOREM LoneSectorsStayCapped == Spec => []LoneSectorsCapped
  BY AllocationInvariance, PTL DEF IInv

\* select_top_n drops a holding only when it ranks at or below the exit rank, or top_n
\* holdings rank before it; it adds none while a better candidate stays outside; and
\* it fills the list when there are enough symbols.
THEOREM HoldingsBuffered == Spec => []SellBuffer
  BY AllocationInvariance, PTL DEF IInv

\* No layer of risk.py adds exposure: what it takes from one position it gives to
\* others or gives up.
THEOREM NoLayerAddsExposure == Spec => ExposureNeverGrows
<1>1. ASSUME IInv, [Next]_vars
      PROVE  [(step \notin {"select", "weigh"}) => (Invested' \preceq Invested)]_vars
  <2>1. CASE UNCHANGED vars
    BY <2>1
  <2>2. CASE Select \/ Weigh
    BY <2>2 DEF Select, Weigh
  <2>3. CASE CapPositions
    BY <1>1, <2>3, CapPositionsStep
  <2>4. CASE OpenSectorPass
    BY <1>1, <2>4, OpenSectorPassStep
  <2>5. CASE CapSector
    BY <1>1, <2>5, CapSectorStep
  <2>6. CASE CapEarnings
    BY <1>1, <2>6, CapEarningsStep
  <2>7. QED
    BY <1>1, <2>1, <2>2, <2>3, <2>4, <2>5, <2>6 DEF Next
<1>2. QED
  BY <1>1, AllocationInvariance, PTL DEF Spec, ExposureNeverGrows

=============================================================================
