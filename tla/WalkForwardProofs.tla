-------------------------- MODULE WalkForwardProofs -------------------------
(***************************************************************************)
(* Theorems about WalkForward, for any calls, tables, gaps and lookbacks.  *)
(***************************************************************************)
EXTENDS WalkForward, WellFoundedInduction, FiniteSetTheorems, TLAPS

-----------------------------------------------------------------------------
(***************************************************************************)
(* Sets put in order.                                                      *)
(***************************************************************************)

\* before puts the members of S in a strict total order.
Orders(before, S) ==
    \A x, y \in S : /\ <<x, x>> \notin before
                    /\ x # y => <<x, y>> \in before \/ <<y, x>> \in before
                    /\ <<x, y>> \in before => \A z \in S : <<z, x>> \in before => <<z, y>> \in before

\* The members of S before x.
Ahead(x, S, before) == {r \in S : <<r, x>> \in before}

\* InOrder lists every member of S once, at its rank.
LEMMA Ranks ==
    ASSUME NEW S, IsFiniteSet(S), NEW before, Orders(before, S)
    PROVE  /\ Cardinality(S) \in Nat
           /\ InOrder(S, before) \in [1..Cardinality(S) -> S]
           /\ \A x \in S : /\ Cardinality(Ahead(x, S, before)) \in 0..(Cardinality(S) - 1)
                           /\ InOrder(S, before)[Cardinality(Ahead(x, S, before)) + 1] = x
           /\ \A j, k \in 1..Cardinality(S) :
                InOrder(S, before)[j] = InOrder(S, before)[k] => j = k
<1> DEFINE n == Cardinality(S)
           rank == [x \in S |-> Cardinality(Ahead(x, S, before))]
<1>1. n \in Nat
  BY FS_CardinalityType
<1>2. ASSUME NEW x \in S
      PROVE  Cardinality(Ahead(x, S, before)) \in 0..(n - 1) /\ IsFiniteSet(Ahead(x, S, before))
  <2>1. Ahead(x, S, before) \in SUBSET (S \ {x})
    BY DEF Orders, Ahead
  <2>2. IsFiniteSet(S \ {x}) /\ Cardinality(S \ {x}) = n - 1
    BY FS_RemoveElement
  <2>3. IsFiniteSet(Ahead(x, S, before)) /\ Cardinality(Ahead(x, S, before)) <= n - 1
    BY <2>1, <2>2, FS_Subset
  <2>4. Cardinality(Ahead(x, S, before)) \in Nat
    BY <2>3, FS_CardinalityType
  <2>5. QED
    BY <1>1, <2>3, <2>4
<1>3. ASSUME NEW x \in S, NEW y \in S, <<x, y>> \in before
      PROVE  Cardinality(Ahead(x, S, before)) # Cardinality(Ahead(y, S, before))
  <2>1. /\ Ahead(x, S, before) \in SUBSET Ahead(y, S, before)
        /\ x \in Ahead(y, S, before) /\ x \notin Ahead(x, S, before)
    BY <1>3 DEF Orders, Ahead
  <2>2. IsFiniteSet(Ahead(y, S, before))
    BY <1>2
  <2>3. Cardinality(Ahead(y, S, before)) = Cardinality(Ahead(x, S, before))
          => Ahead(y, S, before) = Ahead(x, S, before)
    BY <2>1, <2>2, FS_Subset
  <2>4. QED
    BY <2>1, <2>3
<1>4. \A x, y \in S : rank[x] = rank[y] => x = y
  BY <1>3 DEF Orders
<1>5. rank \in [S -> 0..(n - 1)]
  BY <1>2
<1>6. rank \in Injection(S, 0..(n - 1))
  BY <1>4, <1>5 DEF Injection, IsInjective
<1>7. IsFiniteSet(0..(n - 1)) /\ Cardinality(0..(n - 1)) = n
  BY <1>1, FS_Interval
<1>8. rank \in Surjection(S, 0..(n - 1))
  BY <1>6, <1>7, FS_Injection
<1>9. ASSUME NEW k \in 1..n PROVE \E x \in S : Cardinality(Ahead(x, S, before)) = k - 1
  <2>1. k - 1 \in 0..(n - 1)
    BY <1>1
  <2>2. QED
    BY <1>8, <2>1 DEF Surjection
<1>10. InOrder(S, before) = [k \in 1..n |-> CHOOSE x \in S : Cardinality(Ahead(x, S, before)) = k - 1]
  BY DEF InOrder, Ahead
<1>11. ASSUME NEW k \in 1..n
       PROVE  InOrder(S, before)[k] \in S /\ Cardinality(Ahead(InOrder(S, before)[k], S, before)) = k - 1
  <2>1. InOrder(S, before)[k] = CHOOSE x \in S : Cardinality(Ahead(x, S, before)) = k - 1
    BY <1>10
  <2>2. QED
    BY <1>9, <2>1
<1>12. InOrder(S, before) \in [1..n -> S]
  BY <1>10, <1>11
<1>13. ASSUME NEW x \in S
       PROVE  InOrder(S, before)[Cardinality(Ahead(x, S, before)) + 1] = x
  <2> DEFINE k == Cardinality(Ahead(x, S, before)) + 1
  <2>1. k \in 1..n /\ k - 1 = Cardinality(Ahead(x, S, before))
    BY <1>1, <1>2
  <2>2. InOrder(S, before)[k] \in S /\ rank[InOrder(S, before)[k]] = rank[x]
    <3> HIDE DEF k
    <3>1. QED
      BY <1>11, <2>1
  <2>3. QED
    BY <1>4, <2>2
<1>14. ASSUME NEW j \in 1..n, NEW k \in 1..n, InOrder(S, before)[j] = InOrder(S, before)[k]
       PROVE  j = k
  <2>1. j - 1 = k - 1
    BY <1>11, <1>14
  <2>2. QED
    BY <1>1, <2>1
<1>15. QED
  BY <1>1, <1>2, <1>12, <1>13, <1>14

\* So it names each of them, and no more.
LEMMA ListedOnce ==
    ASSUME NEW S, IsFiniteSet(S), NEW before, Orders(before, S)
    PROVE  /\ Len(InOrder(S, before)) = Cardinality(S) /\ Cardinality(S) \in Nat
           /\ ToSet(InOrder(S, before)) = S
<1> DEFINE s == InOrder(S, before)
<1>1. Cardinality(S) \in Nat /\ s \in [1..Cardinality(S) -> S]
  BY Ranks
<1>2. \A x \in S : \E k \in 1..Cardinality(S) : s[k] = x
  <2>1. TAKE x \in S
  <2> DEFINE k == Cardinality(Ahead(x, S, before)) + 1
  <2>2. Cardinality(Ahead(x, S, before)) \in 0..(Cardinality(S) - 1) /\ s[k] = x
    BY Ranks
  <2>3. k \in 1..Cardinality(S)
    BY <1>1, <2>2
  <2>4. QED
    BY <2>2, <2>3
<1> HIDE DEF s
<1>3. Len(s) = Cardinality(S) /\ DOMAIN s = 1..Cardinality(S)
  BY <1>1
<1>4. ToSet(s) = S
  BY <1>1, <1>2, <1>3 DEF ToSet
<1>5. QED
  BY <1>1, <1>3, <1>4 DEF s

\* Two orders that agree on S list it alike.
LEMMA SameOrder ==
    ASSUME NEW S, NEW before, NEW earlier,
           \A x, y \in S : <<x, y>> \in before <=> <<x, y>> \in earlier
    PROVE  InOrder(S, before) = InOrder(S, earlier)
<1>1. \A y \in S : {r \in S : <<r, y>> \in before} = {r \in S : <<r, y>> \in earlier}
  OBVIOUS
<1> DEFINE at(k) == CHOOSE s \in S : Cardinality({r \in S : <<r, s>> \in before}) = k - 1
           as(k) == CHOOSE s \in S : Cardinality({r \in S : <<r, s>> \in earlier}) = k - 1
<1>2. ASSUME NEW k PROVE at(k) = as(k)
  <2>1. \A s \in S : Cardinality({r \in S : <<r, s>> \in before}) = Cardinality({r \in S : <<r, s>> \in earlier})
    BY <1>1
  <2>2. QED
    BY <2>1
<1>3. /\ InOrder(S, before) = [k \in 1..Cardinality(S) |-> at(k)]
      /\ InOrder(S, earlier) = [k \in 1..Cardinality(S) |-> as(k)]
  BY DEF InOrder
<1> HIDE DEF at, as
<1>4. QED
  BY <1>2, <1>3

-----------------------------------------------------------------------------
(***************************************************************************)
(* Columns.                                                                *)
(***************************************************************************)

\* The registry.
LEMMA Places ==
    /\ Factors = {"ivol_20d", "52w_high_proximity", "momentum_2_12", "piotroski_f_score"}
    /\ Place("ivol_20d") = 1 /\ Place("52w_high_proximity") = 2
    /\ Place("momentum_2_12") = 3 /\ Place("piotroski_f_score") = 4
    /\ Len(Registry) = 4
<1>1. Len(Registry) = 4 /\ DOMAIN Registry = {1, 2, 3, 4}
  <2>1. Len(Registry) = 4 /\ DOMAIN Registry = 1..4
    BY DEF Registry
  <2>2. 1..4 = {1, 2, 3, 4}
    OBVIOUS
  <2>3. QED
    BY <2>1, <2>2
<1>2. /\ Registry[1] = "ivol_20d" /\ Registry[2] = "52w_high_proximity"
      /\ Registry[3] = "momentum_2_12" /\ Registry[4] = "piotroski_f_score"
  BY DEF Registry
<1>3. Factors = {"ivol_20d", "52w_high_proximity", "momentum_2_12", "piotroski_f_score"}
  BY <1>1, <1>2 DEF Factors, ToSet
<1>4. /\ \A k \in DOMAIN Registry : Registry[k] = "ivol_20d" <=> k = 1
      /\ \A k \in DOMAIN Registry : Registry[k] = "52w_high_proximity" <=> k = 2
      /\ \A k \in DOMAIN Registry : Registry[k] = "momentum_2_12" <=> k = 3
      /\ \A k \in DOMAIN Registry : Registry[k] = "piotroski_f_score" <=> k = 4
  BY <1>1, <1>2
<1>5. Place("ivol_20d") = 1
  BY <1>1, <1>4 DEF Place
<1>6. Place("52w_high_proximity") = 2
  BY <1>1, <1>4 DEF Place
<1>7. Place("momentum_2_12") = 3
  BY <1>1, <1>4 DEF Place
<1>8. Place("piotroski_f_score") = 4
  BY <1>1, <1>4 DEF Place
<1>9. QED
  BY <1>1, <1>3, <1>5, <1>6, <1>7, <1>8

LEMMA PlacesDiffer ==
    /\ \A f \in Factors : Place(f) \in 1..4
    /\ \A f, g \in Factors : Place(f) = Place(g) => f = g
    /\ IsFiniteSet(Factors) /\ Cardinality(Factors) = 4
<1>1. \A f \in Factors : Place(f) \in 1..4
  BY Places
<1>2. \A f, g \in Factors : Place(f) = Place(g) => f = g
  BY Places
<1>3. IsFiniteSet({}) /\ Cardinality({}) = 0
  BY FS_EmptySet
<1>4. ASSUME NEW S, IsFiniteSet(S), NEW x, x \notin S, NEW n \in Nat, Cardinality(S) = n
      PROVE  IsFiniteSet(S \cup {x}) /\ Cardinality(S \cup {x}) = n + 1
  BY <1>4, FS_AddElement
<1> DEFINE A == {} \cup {"ivol_20d"}
           B == A \cup {"52w_high_proximity"}
           C == B \cup {"momentum_2_12"}
           D == C \cup {"piotroski_f_score"}
<1>5. IsFiniteSet(A) /\ Cardinality(A) = 1
  BY <1>3, <1>4
<1>6. IsFiniteSet(B) /\ Cardinality(B) = 2
  <2>1. "52w_high_proximity" \notin A
    OBVIOUS
  <2> HIDE DEF A
  <2>2. QED
    BY <1>4, <1>5, <2>1
<1>7. IsFiniteSet(C) /\ Cardinality(C) = 3
  <2>1. "momentum_2_12" \notin B
    OBVIOUS
  <2> HIDE DEF B
  <2>2. QED
    BY <1>4, <1>6, <2>1
<1>8. IsFiniteSet(D) /\ Cardinality(D) = 4
  <2>1. "piotroski_f_score" \notin C
    OBVIOUS
  <2> HIDE DEF C
  <2>2. QED
    BY <1>4, <1>7, <2>1
<1>9. Factors = D
  BY Places
<1>10. QED
  BY <1>1, <1>2, <1>8, <1>9

LEMMA EarlierOrders ==
    ASSUME NEW S \in SUBSET Factors
    PROVE  IsFiniteSet(S) /\ Orders(Earlier, S)
<1>1. IsFiniteSet(S)
  BY PlacesDiffer, FS_Subset
<1>2. \A f, g \in S : <<f, g>> \in Earlier <=> Place(f) < Place(g)
  BY DEF Earlier
<1>3. \A f \in S : Place(f) \in Int
  BY PlacesDiffer
<1>4. \A f, g \in S : Place(f) = Place(g) => f = g
  BY PlacesDiffer
<1>5. \A f, g \in S : /\ ~(Place(f) < Place(f))
                      /\ f # g => Place(f) < Place(g) \/ Place(g) < Place(f)
                      /\ Place(f) < Place(g) => \A h \in S : Place(h) < Place(f) => Place(h) < Place(g)
  BY <1>3, <1>4
<1>6. QED
  BY <1>1, <1>2, <1>5 DEF Orders

\* The registry is in its own order.
LEMMA RegistryInOrder == Registry = InOrder(Factors, Earlier)
<1> DEFINE rank(f) == Cardinality(Ahead(f, Factors, Earlier))
           s == InOrder(Factors, Earlier)
<1>1. s \in [1..4 -> Factors] /\ \A f \in Factors : rank(f) \in 0..3 /\ s[rank(f) + 1] = f
  <2>1. Factors \in SUBSET Factors
    OBVIOUS
  <2>2. IsFiniteSet(Factors) /\ Cardinality(Factors) = 4 /\ Orders(Earlier, Factors)
    BY <2>1, EarlierOrders, PlacesDiffer
  <2>3. s \in [1..Cardinality(Factors) -> Factors]
    BY <2>2, Ranks
  <2>4. ASSUME NEW f \in Factors
        PROVE  rank(f) \in 0..(Cardinality(Factors) - 1) /\ s[rank(f) + 1] = f
    BY <2>2, Ranks
  <2> HIDE DEF rank, s
  <2>5. Cardinality(Factors) - 1 = 3
    BY <2>2
  <2>6. QED
    BY <2>2, <2>3, <2>4, <2>5
<1>2. \A f, g \in Factors : Place(f) < Place(g) => rank(f) < rank(g)
  <2> SUFFICES ASSUME NEW f \in Factors, NEW g \in Factors, Place(f) < Place(g)
               PROVE  rank(f) < rank(g)
    OBVIOUS
  <2>1. \A h \in Factors : Place(h) \in Int
    BY PlacesDiffer
  <2>2. /\ Ahead(f, Factors, Earlier) \in SUBSET Ahead(g, Factors, Earlier)
        /\ f \in Ahead(g, Factors, Earlier) /\ f \notin Ahead(f, Factors, Earlier)
    BY <2>1 DEF Ahead, Earlier
  <2>3. IsFiniteSet(Ahead(g, Factors, Earlier))
    BY PlacesDiffer, FS_Subset DEF Ahead
  <2>4. rank(f) <= rank(g) /\ rank(f) # rank(g)
    BY <2>2, <2>3, FS_Subset
  <2>5. rank(f) \in Int /\ rank(g) \in Int
    BY <1>1
  <2>6. QED
    BY <2>4, <2>5
<1> HIDE DEF rank, s
<1>3. /\ rank("ivol_20d") < rank("52w_high_proximity")
      /\ rank("52w_high_proximity") < rank("momentum_2_12")
      /\ rank("momentum_2_12") < rank("piotroski_f_score")
  BY <1>2, Places
<1>4. /\ rank("ivol_20d") \in 0..3 /\ rank("52w_high_proximity") \in 0..3
      /\ rank("momentum_2_12") \in 0..3 /\ rank("piotroski_f_score") \in 0..3
  BY <1>1, Places
<1>5. /\ rank("ivol_20d") = 0 /\ rank("52w_high_proximity") = 1
      /\ rank("momentum_2_12") = 2 /\ rank("piotroski_f_score") = 3
  BY <1>3, <1>4
<1>6. /\ s[0 + 1] = "ivol_20d" /\ s[1 + 1] = "52w_high_proximity"
      /\ s[2 + 1] = "momentum_2_12" /\ s[3 + 1] = "piotroski_f_score"
  BY <1>1, <1>5, Places
<1>7. s[1] = Registry[1] /\ s[2] = Registry[2] /\ s[3] = Registry[3] /\ s[4] = Registry[4]
  BY <1>6 DEF Registry
<1>8. /\ Registry = [k \in 1..4 |-> Registry[k]] /\ s = [k \in 1..4 |-> s[k]]
      /\ \A k \in 1..4 : k = 1 \/ k = 2 \/ k = 3 \/ k = 4
  BY <1>1 DEF Registry
<1>9. QED
  BY <1>7, <1>8 DEF s

\* The factors that are there on day t.
There(t) == {f \in Factors : (Closes(f, t) \cup Facts(f, t)) # {} /\ ~Blanked(f, t)}

\* A day's columns are some of the factors, each once, in the order of the registry.
LEMMA ColumnsTypes ==
    ASSUME NEW t
    PROVE  /\ ToSet(ColumnsOf(t)) \in SUBSET Factors
           /\ IsFiniteSet(ToSet(ColumnsOf(t)))
           /\ Len(ColumnsOf(t)) = Cardinality(ToSet(ColumnsOf(t)))
           /\ ColumnsOf(t) = InOrder(ToSet(ColumnsOf(t)), Earlier)
           /\ ToSet(ColumnsOf(t)) = IF call.loop = "backtest" THEN Factors ELSE There(t)
<1>1. CASE call.loop # "backtest"
  <2>1. There(t) \in SUBSET Factors
    BY DEF There
  <2>2. ColumnsOf(t) = InOrder(There(t), Earlier)
    BY <1>1 DEF ColumnsOf, Columns, There
  <2>3. /\ Len(InOrder(There(t), Earlier)) = Cardinality(There(t))
        /\ ToSet(InOrder(There(t), Earlier)) = There(t)
    BY <2>1, EarlierOrders, ListedOnce
  <2>4. QED
    BY <1>1, <2>1, <2>2, <2>3, EarlierOrders
<1>2. CASE call.loop = "backtest"
  <2>1. ColumnsOf(t) = Registry /\ ToSet(Registry) = Factors
    BY <1>2 DEF ColumnsOf, Factors
  <2>2. Registry = InOrder(Factors, Earlier)
    BY RegistryInOrder
  <2>3. QED
    BY <1>2, <2>1, <2>2, Places, PlacesDiffer
<1>3. QED
  BY <1>1, <1>2

-----------------------------------------------------------------------------
(***************************************************************************)
(* The training stack.                                                     *)
(***************************************************************************)

\* Days have a first one.
LEMMA FirstDay ==
    ASSUME NEW days \in SUBSET Nat, days # {}
    PROVE  \E t \in days : \A u \in days : t <= u
<1>1. PICK t \in days : \A u \in days : ~(<<u, t>> \in OpToRel(<, Nat))
  BY NatLessThanWellFounded, WFMin, Zenon
<1>2. \A u \in days : u \in Nat /\ ~(u < t)
  BY <1>1 DEF OpToRel
<1>3. QED
  BY <1>2

\* Names of what Stacked puts in order, and of the order.
SeenOn(days) == {p[2] : p \in Shown(days)}
StackOrder(days) ==
    {r \in SeenOn(days) \X SeenOn(days) : \E p \in Shown(days) :
        p[2] = r[1] /\ \A q \in Shown(days) : q[2] = r[2] => Sooner(p, q)}

\* t is the first of the days with column f.
Appears(f, t, days) ==
    t \in days /\ f \in ToSet(ColumnsOf(t)) /\ \A u \in days : f \in ToSet(ColumnsOf(u)) => t <= u

LEMMA StackedInOrder == \A days : Stacked(days) = InOrder(SeenOn(days), StackOrder(days))
  BY DEF Stacked, SeenOn, StackOrder

LEMMA ShownPairs ==
    ASSUME NEW days
    PROVE  /\ \A p \in Shown(days) : p[1] \in days /\ p[2] \in ToSet(ColumnsOf(p[1])) /\ p = <<p[1], p[2]>>
           /\ \A t \in days : \A f \in ToSet(ColumnsOf(t)) : <<t, f>> \in Shown(days)
           /\ \A f : f \in SeenOn(days) <=> \E t \in days : f \in ToSet(ColumnsOf(t))
<1>1. \A p \in Shown(days) : p[1] \in days /\ p[2] \in ToSet(ColumnsOf(p[1])) /\ p = <<p[1], p[2]>>
  BY DEF Shown
<1>2. \A t \in days : \A f \in ToSet(ColumnsOf(t)) : <<t, f>> \in Shown(days)
  BY DEF Shown
<1>3. ASSUME NEW f, f \in SeenOn(days) PROVE \E t \in days : f \in ToSet(ColumnsOf(t))
  BY <1>1, <1>3 DEF SeenOn
<1>4. ASSUME NEW f, NEW t \in days, f \in ToSet(ColumnsOf(t)) PROVE f \in SeenOn(days)
  <2>1. <<t, f>> \in Shown(days) /\ <<t, f>>[2] = f
    BY <1>2, <1>4
  <2>2. QED
    BY <2>1 DEF SeenOn
<1>5. QED
  BY <1>1, <1>2, <1>3, <1>4

LEMMA SeenTypes == \A days : SeenOn(days) \in SUBSET Factors /\ IsFiniteSet(SeenOn(days))
<1>1. TAKE days
<1>2. SeenOn(days) \in SUBSET Factors
  BY ShownPairs, ColumnsTypes
<1>3. QED
  BY <1>2, PlacesDiffer, FS_Subset

\* Every column has its first day.
LEMMA HasFirst ==
    ASSUME NEW days \in SUBSET Nat, NEW f \in SeenOn(days)
    PROVE  \E t \in days : Appears(f, t, days)
<1> DEFINE D == {t \in days : f \in ToSet(ColumnsOf(t))}
<1>1. D \in SUBSET Nat /\ D # {}
  BY ShownPairs
<1>2. \E t \in D : \A u \in D : t <= u
  <2> HIDE DEF D
  <2>1. QED
    BY <1>1, FirstDay
<1>3. QED
  BY <1>2 DEF Appears

\* The order of the stack: the earlier first day, then the registry.
LEMMA OrderByFirst ==
    ASSUME NEW days \in SUBSET Nat, NEW f \in SeenOn(days), NEW g \in SeenOn(days),
           NEW t \in days, Appears(f, t, days), NEW u \in days, Appears(g, u, days)
    PROVE  <<f, g>> \in StackOrder(days) <=> t < u \/ (t = u /\ Place(f) < Place(g))
<1>1. <<f, g>> \in StackOrder(days)
        <=> \E p \in Shown(days) : p[2] = f /\ \A q \in Shown(days) : q[2] = g => Sooner(p, q)
  BY DEF StackOrder
<1>2. t \in Nat /\ u \in Nat /\ Place(f) \in Int /\ Place(g) \in Int
  BY SeenTypes, PlacesDiffer
<1>3. /\ <<t, f>> \in Shown(days) /\ <<u, g>> \in Shown(days)
      /\ \A p \in Shown(days) : p[1] \in days /\ p[2] \in ToSet(ColumnsOf(p[1]))
  BY ShownPairs DEF Appears
<1>4. ASSUME NEW p \in Shown(days), p[2] = f, \A q \in Shown(days) : q[2] = g => Sooner(p, q)
      PROVE  t < u \/ (t = u /\ Place(f) < Place(g))
  <2>1. Sooner(p, <<u, g>>)
    BY <1>3, <1>4
  <2>2. p[1] < u \/ (p[1] = u /\ Place(f) < Place(g))
    BY <1>4, <2>1 DEF Sooner
  <2>3. t <= p[1] /\ p[1] \in Nat
    BY <1>3, <1>4 DEF Appears
  <2>4. QED
    BY <1>2, <2>2, <2>3
<1>5. ASSUME t < u \/ (t = u /\ Place(f) < Place(g)), NEW q \in Shown(days), q[2] = g
      PROVE  Sooner(<<t, f>>, q)
  <2>1. u <= q[1] /\ q[1] \in Nat
    BY <1>3, <1>5 DEF Appears
  <2>2. t < q[1] \/ (t = q[1] /\ Place(f) < Place(g))
    BY <1>2, <1>5, <2>1
  <2>3. QED
    BY <1>5, <2>2 DEF Sooner
<1>6. <<t, f>>[2] = f
  OBVIOUS
<1>7. QED
  BY <1>1, <1>3, <1>4, <1>5, <1>6

LEMMA StackOrders ==
    ASSUME NEW days \in SUBSET Nat
    PROVE  Orders(StackOrder(days), SeenOn(days))
<1> DEFINE S == SeenOn(days)
           at == [f \in S |-> CHOOSE t \in days : Appears(f, t, days)]
<1>1. \A f \in S : at[f] \in days /\ Appears(f, at[f], days)
  BY HasFirst
<1>2. \A f, g \in S : <<f, g>> \in StackOrder(days)
                        <=> at[f] < at[g] \/ (at[f] = at[g] /\ Place(f) < Place(g))
  <2> HIDE DEF at
  <2>1. QED
    BY <1>1, OrderByFirst
<1>3. \A f \in S : at[f] \in Int
  <2> HIDE DEF at, S
  <2>1. \A f \in S : at[f] \in days
    BY <1>1
  <2>2. \A t \in days : t \in Int
    OBVIOUS
  <2>3. QED
    BY <2>1, <2>2
<1>4. \A f \in S : Place(f) \in Int
  BY SeenTypes, PlacesDiffer
<1>5. \A f, g \in S : Place(f) = Place(g) => f = g
  BY SeenTypes, PlacesDiffer
<1> HIDE DEF at, S
<1>6. ASSUME NEW f \in S, NEW g \in S
      PROVE  /\ ~(at[f] < at[f] \/ (at[f] = at[f] /\ Place(f) < Place(f)))
             /\ f # g => \/ at[f] < at[g] \/ (at[f] = at[g] /\ Place(f) < Place(g))
                         \/ at[g] < at[f] \/ (at[g] = at[f] /\ Place(g) < Place(f))
             /\ \A h \in S : /\ at[f] < at[g] \/ (at[f] = at[g] /\ Place(f) < Place(g))
                             /\ at[h] < at[f] \/ (at[h] = at[f] /\ Place(h) < Place(f))
                             => at[h] < at[g] \/ (at[h] = at[g] /\ Place(h) < Place(g))
  BY <1>3, <1>4, <1>5
<1>7. Orders(StackOrder(days), S)
  BY <1>2, <1>6 DEF Orders
<1>8. QED
  BY <1>7 DEF S

\* The columns of a stack are those of its days, each once.
LEMMA StackTypes ==
    ASSUME NEW days \in SUBSET Nat
    PROVE  /\ ToSet(Stacked(days)) = SeenOn(days)
           /\ Len(Stacked(days)) = Cardinality(SeenOn(days)) /\ Len(Stacked(days)) \in Nat
  BY StackedInOrder, StackOrders, SeenTypes, ListedOnce

\* When on every day a factor is there only if all earlier ones are, the stack is in the
\* order of the registry.
LEMMA StackInRegistry ==
    ASSUME NEW days \in SUBSET Nat,
           \A t \in days : \A g \in ToSet(ColumnsOf(t)) : \A f \in Factors :
              Place(f) < Place(g) => f \in ToSet(ColumnsOf(t))
    PROVE  Stacked(days) = InOrder(SeenOn(days), Earlier)
<1>1. ASSUME NEW f \in SeenOn(days), NEW g \in SeenOn(days)
      PROVE  <<f, g>> \in StackOrder(days) <=> <<f, g>> \in Earlier
  <2>1. PICK t \in days : Appears(f, t, days)
    BY HasFirst
  <2>2. PICK u \in days : Appears(g, u, days)
    BY HasFirst
  <2>3. <<f, g>> \in StackOrder(days) <=> t < u \/ (t = u /\ Place(f) < Place(g))
    BY <2>1, <2>2, OrderByFirst
  <2>4. f \in Factors /\ g \in Factors
    BY SeenTypes
  <2>5. <<f, g>> \in Earlier <=> Place(f) < Place(g)
    BY <2>4 DEF Earlier
  <2>6. Place(f) < Place(g) => t <= u
    BY <2>1, <2>2, <2>4 DEF Appears
  <2>7. Place(g) < Place(f) => u <= t
    BY <2>1, <2>2, <2>4 DEF Appears
  <2>8. Place(f) \in Int /\ Place(g) \in Int /\ t \in Nat /\ u \in Nat
    BY <2>4, PlacesDiffer
  <2>9. Place(f) = Place(g) => f = g
    BY <2>4, PlacesDiffer
  <2>10. f = g => t = u
    <3>1. f = g => t <= u /\ u <= t
      BY <2>1, <2>2 DEF Appears
    <3>2. QED
      BY <2>8, <3>1
  <2>11. QED
    BY <2>3, <2>5, <2>6, <2>7, <2>8, <2>9, <2>10
<1>2. QED
  BY <1>1, SameOrder, StackedInOrder

-----------------------------------------------------------------------------
(***************************************************************************)
(* The splitter.                                                           *)
(***************************************************************************)

LEMMA CallTypes ==
    ASSUME NEW c \in Setups
    PROVE  /\ c \in Setup /\ c.days \in Nat /\ c.folds \in Nat \ {0} /\ c.test \in Nat \ {0}
           /\ c.embargo \in Nat /\ c.horizon \in Nat \ {0} /\ c.purge \in Nat /\ c.delay \in Nat
           /\ LeastTrain(c) \in Nat /\ LeastTrain(c) >= 1
           /\ Purge(c) \in Nat /\ Purge(c) >= c.horizon /\ Purge(c) >= c.purge + c.delay
           /\ Gap(c) = Purge(c) + c.embargo /\ Gap(c) \in Nat
  BY SizeAssumption, SetupAssumption DEF Setup, Larger, LeastTrain, Purge, Gap

LEMMA Widths == \A a, b, w \in Nat : a <= b => a * w \in Nat /\ b * w \in Nat /\ a * w <= b * w
<1>1. \A a, d, w \in Nat : (a + d) * w = a * w + d * w
  OBVIOUS
<1>2. \A a, w \in Nat : a * w \in Nat
  OBVIOUS
<1>3. TAKE a, b, w \in Nat
<1>4. HAVE a <= b
<1>5. b - a \in Nat /\ b = a + (b - a)
  BY <1>4
<1>6. b * w = a * w + (b - a) * w
  BY <1>1, <1>5
<1>7. QED
  BY <1>2, <1>5, <1>6

\* Where a fold lies.
LEMMA Layout ==
    ASSUME NEW c \in Setups, NEW k \in 1..c.folds
    PROVE  /\ Stop(c, k) \in Int /\ Start(c, k) \in Int /\ Train(c, k) \in Int
           /\ Stop(c, k) - Start(c, k) = c.test /\ Start(c, k) - Train(c, k) = Purge(c)
           /\ k = c.folds => Stop(c, k) = c.days
           /\ k > 1 => Start(c, k) - Stop(c, k - 1) = Gap(c)
           /\ Train(c, 1) <= Train(c, k)
<1> DEFINE w == c.test + Gap(c)
<1>1. w \in Nat /\ c.folds \in Nat /\ c.days \in Nat /\ c.test \in Nat /\ Purge(c) \in Nat
      /\ c.folds - k \in Nat /\ c.folds - 1 \in Nat /\ c.folds - k <= c.folds - 1
  BY CallTypes
<1>2. /\ (c.folds - k) * w \in Nat /\ (c.folds - 1) * w \in Nat
      /\ (c.folds - k) * w <= (c.folds - 1) * w
  <2> HIDE DEF w
  <2>1. QED
    BY <1>1, Widths
<1>3. Stop(c, k) = c.days - (c.folds - k) * w /\ Stop(c, 1) = c.days - (c.folds - 1) * w
  BY DEF Stop
<1>4. k > 1 => /\ Stop(c, k - 1) = c.days - (c.folds - (k - 1)) * w
               /\ (c.folds - (k - 1)) * w = (c.folds - k) * w + w
  <2>1. \A n, v \in Nat : (n + 1) * v = n * v + v
    OBVIOUS
  <2>2. c.folds - (k - 1) = (c.folds - k) + 1
    BY <1>1
  <2>3. (c.folds - (k - 1)) * w = (c.folds - k) * w + w
    <3> HIDE DEF w
    <3>1. QED
      BY <1>1, <2>1, <2>2
  <2>4. QED
    BY <2>3 DEF Stop
<1>5. k = c.folds => (c.folds - k) * w = 0
  <2>1. \A v \in Nat : 0 * v = 0
    OBVIOUS
  <2>2. k = c.folds => c.folds - k = 0
    BY <1>1
  <2>3. QED
    <3> HIDE DEF w
    <3>1. QED
      BY <1>1, <2>1, <2>2
<1>6. Start(c, k) = Stop(c, k) - c.test /\ Train(c, k) = Start(c, k) - Purge(c)
      /\ Train(c, 1) = Stop(c, 1) - c.test - Purge(c)
  BY DEF Start, Train
<1>7. w = c.test + Gap(c) /\ Gap(c) \in Nat
  BY CallTypes
<1> HIDE DEF w
<1>8. /\ Stop(c, k) \in Int /\ Start(c, k) \in Int /\ Train(c, k) \in Int
      /\ Stop(c, k) - Start(c, k) = c.test /\ Start(c, k) - Train(c, k) = Purge(c)
      /\ k = c.folds => Stop(c, k) = c.days
  BY <1>1, <1>2, <1>3, <1>5, <1>6
<1>9. k > 1 => Start(c, k) - Stop(c, k - 1) = Gap(c)
  BY <1>1, <1>2, <1>3, <1>4, <1>6, <1>7
<1>10. Train(c, 1) <= Train(c, k)
  BY <1>1, <1>2, <1>3, <1>6
<1>11. QED
  BY <1>8, <1>9, <1>10

\* An index that is long enough has room for every fold.
LEMMA RoomForAll ==
    ASSUME NEW c \in Setups, c.days >= Needed(c)
    PROVE  \A k \in 1..c.folds : Train(c, k) >= LeastTrain(c)
<1> DEFINE w == c.test + Gap(c)
<1>1. w \in Nat /\ c.folds - 1 \in Nat /\ c.folds \in Nat /\ 1 \in 1..c.folds
  BY CallTypes
<1>2. c.folds * w = (c.folds - 1) * w + w /\ (c.folds - 1) * w \in Nat
  <2>1. \A n, v \in Nat : n * v \in Nat /\ (n + 1) * v = n * v + v
    OBVIOUS
  <2>2. c.folds = (c.folds - 1) + 1
    BY <1>1
  <2>3. QED
    <3> HIDE DEF w
    <3>1. QED
      BY <1>1, <2>1, <2>2
<1>3. c.days >= LeastTrain(c) + c.folds * w - c.embargo
  BY DEF Needed
<1>4. Train(c, 1) = c.days - (c.folds - 1) * w - c.test - Purge(c)
  BY DEF Train, Start, Stop
<1>5. w = c.test + Purge(c) + c.embargo
  BY CallTypes
<1> HIDE DEF w
<1>6. Train(c, 1) >= LeastTrain(c)
  BY <1>1, <1>2, <1>3, <1>4, <1>5, CallTypes
<1>7. QED
  BY <1>1, <1>6, Layout, CallTypes

LEMMA NeededIsWhole == \A c \in Setups : Needed(c) \in Int
<1>1. TAKE c \in Setups
<1> DEFINE w == c.test + Gap(c)
<1>2. w \in Nat /\ c.folds \in Nat /\ LeastTrain(c) \in Nat /\ c.embargo \in Nat
  BY CallTypes
<1>3. \A n, v \in Nat : n * v \in Nat
  OBVIOUS
<1>4. Needed(c) = LeastTrain(c) + c.folds * w - c.embargo
  BY DEF Needed
<1> HIDE DEF w
<1>5. c.folds * w \in Nat
  BY <1>2, <1>3
<1>6. QED
  BY <1>2, <1>4, <1>5

\* What the windows of a split are.
LEMMA FoldsOfSplit ==
    ASSUME NEW c \in Setups, c.days >= Needed(c)
    PROVE  Folds(c) = [k \in 1..c.folds |->
                         [train |-> Train(c, k), start |-> Start(c, k), stop |-> Stop(c, k)]]
<1>1. {k \in 1..c.folds : Train(c, k) < LeastTrain(c)} = {}
  BY RoomForAll, Layout, CallTypes
<1>2. Cardinality({k \in 1..c.folds : Train(c, k) < LeastTrain(c)}) = 0
  BY <1>1, FS_EmptySet
<1>3. c.folds \in Nat /\ c.folds - 0 = c.folds /\ \A k \in 1..c.folds : k + 0 = k
  BY CallTypes
<1>4. QED
  BY <1>2, <1>3 DEF Folds

\* The windows are those of the call, once there are any.
WindowsOfCall ==
    /\ call \in Setups
    /\ windows # <<>> => call.days >= Needed(call) /\ windows = Folds(call)
    /\ windows = <<>> => Len(windows) = 0

LEMMA WindowsNumber == WindowsOfCall => Len(windows) \in Nat
<1>1. ASSUME WindowsOfCall, windows # <<>> PROVE Len(windows) \in Nat
  <2>1. call \in Setups /\ call.folds \in Nat
    BY <1>1, CallTypes DEF WindowsOfCall
  <2>2. windows = [k \in 1..call.folds |->
              [train |-> Train(call, k), start |-> Start(call, k), stop |-> Stop(call, k)]]
    BY <1>1, FoldsOfSplit DEF WindowsOfCall
  <2>3. QED
    BY <2>1, <2>2
<1>2. QED
  BY <1>1 DEF WindowsOfCall

LEMMA InitSplit == Init => WindowsOfCall
  BY DEF Init, WindowsOfCall

LEMMA StepSplit == WindowsOfCall /\ [Next]_vars => WindowsOfCall'
<1> SUFFICES ASSUME WindowsOfCall, [Next]_vars PROVE WindowsOfCall'
  OBVIOUS
<1>1. CASE Split
  <2>1. call \in Setups /\ Needed(call) \in Int /\ call.days \in Int
    BY NeededIsWhole, CallTypes DEF WindowsOfCall
  <2>2. ~(call.days < Needed(call)) => call.days >= Needed(call)
    BY <2>1
  <2>3. QED
    BY <1>1, <2>1, <2>2 DEF Split, WindowsOfCall
<1>2. CASE RejectHoldout \/ TrainFold \/ TestDay \/ EndFold \/ Finish \/ UNCHANGED vars
  BY <1>2 DEF RejectHoldout, TrainFold, TestDay, EndFold, Finish, vars, WindowsOfCall
<1>3. QED
  BY <1>1, <1>2 DEF Next

\* A split that does not raise yields every fold that was asked for, with its years of
\* training, its purge and its embargo, for any arguments (cv.py, split).
THEOREM EveryFold == Spec => []FoldsComplete
<1>1. WindowsOfCall => FoldsComplete
  <2> SUFFICES ASSUME WindowsOfCall, windows # <<>> PROVE FoldsComplete
    BY DEF FoldsComplete
  <2>1. /\ windows = [k \in 1..call.folds |->
              [train |-> Train(call, k), start |-> Start(call, k), stop |-> Stop(call, k)]]
        /\ call \in Setups /\ call.days >= Needed(call)
    BY FoldsOfSplit DEF WindowsOfCall
  <2>2. call.folds \in Nat /\ call.folds >= 1 /\ Len(windows) = call.folds
    BY <2>1, CallTypes
  <2>3. windows[call.folds].stop = call.days
    <3>1. call.folds \in 1..call.folds
      BY <2>2
    <3>2. windows[call.folds].stop = Stop(call, call.folds)
      BY <2>1, <3>1
    <3>3. QED
      BY <2>1, <3>1, <3>2, Layout
  <2>4. ASSUME NEW k \in 1..call.folds
        PROVE  /\ windows[k].train >= LeastTrain(call)
               /\ windows[k].stop - windows[k].start = call.test
               /\ windows[k].start - windows[k].train >= call.purge + call.delay
               /\ k > 1 => windows[k].start - windows[k - 1].stop >= call.embargo + call.horizon
    <3>1. /\ windows[k].train = Train(call, k) /\ windows[k].start = Start(call, k)
          /\ windows[k].stop = Stop(call, k)
      BY <2>1
    <3>2. k > 1 => windows[k - 1].stop = Stop(call, k - 1)
      BY <2>1, <2>2
    <3>3. windows[k].train >= LeastTrain(call)
      BY <2>1, <3>1, RoomForAll
    <3>4. /\ windows[k].stop - windows[k].start = call.test
          /\ windows[k].start - windows[k].train >= call.purge + call.delay
      BY <2>1, <3>1, Layout, CallTypes
    <3>5. k > 1 => windows[k].start - windows[k - 1].stop >= call.embargo + call.horizon
      <4>1. k > 1 => windows[k].start - windows[k - 1].stop = Gap(call)
        BY <2>1, <3>1, <3>2, Layout
      <4>2. Gap(call) >= call.embargo + call.horizon
        <5>1. /\ Purge(call) \in Nat /\ call.embargo \in Nat /\ call.horizon \in Nat
              /\ Purge(call) >= call.horizon /\ Gap(call) = Purge(call) + call.embargo
          BY <2>1, CallTypes
        <5>2. QED
          BY <5>1
      <4>3. QED
        BY <4>1, <4>2
    <3>6. QED
      BY <3>3, <3>4, <3>5
  <2>5. QED
    BY <2>2, <2>3, <2>4 DEF FoldsComplete
<1>2. QED
  BY <1>1, InitSplit, StepSplit, PTL DEF Spec

-----------------------------------------------------------------------------
(***************************************************************************)
(* No price leaks.                                                         *)
(***************************************************************************)

\* No factor reads a close after its day.
LEMMA ClosesKnown == \A cols, t : \A d \in ClosesOf(cols, t) : d \in Trailing(t)
<1>1. \A f, t : Closes(f, t) \subseteq Trailing(t)
  BY DEF Closes, Ivol, High, Momentum, Latest
<1>2. QED
  BY <1>1 DEF ClosesOf

\* Days have a last one.
LEMMA LastDay ==
    ASSUME NEW n \in Int, NEW days \in SUBSET (0..(n - 1)), days # {}
    PROVE  \E t \in days : \A u \in days : u <= t
<1> DEFINE T == {(n - 1) - i : i \in days}
<1>1. \A i \in days : i \in Int /\ (n - 1) - i \in Nat
  OBVIOUS
<1>2. T \in SUBSET Nat /\ T # {}
  BY <1>1
<1>3. PICK x \in T : \A y \in T : ~(<<y, x>> \in OpToRel(<, Nat))
  <2> HIDE DEF T
  <2>1. QED
    BY <1>2, NatLessThanWellFounded, WFMin, Zenon
<1>4. PICK i \in days : x = (n - 1) - i
  OBVIOUS
<1>5. \A j \in days : ~((n - 1) - j < (n - 1) - i)
  BY <1>2, <1>3, <1>4 DEF OpToRel
<1>6. \A u \in days : u <= i
  BY <1>1, <1>5
<1>7. QED
  BY <1>6

\* The labels of a fold's training rows end before its test window.
LEMMA LabelsEnd ==
    ASSUME WindowsOfCall, fold \in 1..Len(windows), NEW columns, TrainRows(columns) # {}
    PROVE  (CHOOSE t \in TrainRows(columns) : \A u \in TrainRows(columns) : u <= t) + call.horizon
             < windows[fold].start
<1>1. windows # <<>>
  BY DEF WindowsOfCall
<1>2. /\ call \in Setups /\ call.folds \in Nat
      /\ windows = [k \in 1..call.folds |->
              [train |-> Train(call, k), start |-> Start(call, k), stop |-> Stop(call, k)]]
  BY <1>1, FoldsOfSplit, CallTypes DEF WindowsOfCall
<1>3. fold \in 1..call.folds /\ windows[fold].train = Train(call, fold)
      /\ windows[fold].start = Start(call, fold)
  BY <1>2
<1> DEFINE rows == TrainRows(columns)
<1>4. /\ windows[fold].train \in Int /\ windows[fold].start \in Int /\ call.horizon \in Nat
      /\ windows[fold].start - windows[fold].train >= call.horizon
  BY <1>2, <1>3, Layout, CallTypes
<1>5. rows \in SUBSET (0..(windows[fold].train - 1)) /\ rows # {}
  BY DEF TrainRows, TrainDays
<1> HIDE DEF rows
<1>6. \E t \in rows : \A u \in rows : u <= t
  BY <1>4, <1>5, LastDay
<1>7. (CHOOSE t \in rows : \A u \in rows : u <= t) \in rows
  BY <1>6
<1>8. \A r \in rows : r + call.horizon < windows[fold].start
  <2>1. \A r \in rows : r \in Int /\ r <= windows[fold].train - 1
    BY <1>4, <1>5
  <2>2. \A r, n, m \in Int, h \in Nat : r <= n - 1 /\ m - n >= h => r + h < m
    OBVIOUS
  <2>3. ASSUME NEW r \in rows PROVE r + call.horizon < windows[fold].start
    <3>1. r \in Int /\ r <= windows[fold].train - 1
      BY <2>1
    <3>2. QED
      BY <1>4, <2>2, <3>1
  <2>4. QED
    BY <2>3
<1>9. QED
  BY <1>7, <1>8 DEF rows

\* The model in use was fitted before its test window, and nothing is booked before the
\* windows are laid out.
ModelInTime ==
    /\ fold \in Nat \ {0}
    /\ pc = "start" => booked = {}
    /\ pc = "test" => fold <= Len(windows) /\ model.lastClose < windows[fold].start
    /\ NoPriceLeak

LEMMA InitInTime == Init => ModelInTime
  BY DEF Init, ModelInTime, NoPriceLeak

LEMMA StepInTime == WindowsOfCall /\ ModelInTime /\ [Next]_vars => ModelInTime'
<1> SUFFICES ASSUME WindowsOfCall, ModelInTime, [Next]_vars PROVE ModelInTime'
  OBVIOUS
<1>1. ASSUME UNCHANGED <<windows, booked>> PROVE NoPriceLeak'
  BY <1>1 DEF ModelInTime, NoPriceLeak
<1>2. CASE RejectHoldout
  BY <1>1, <1>2 DEF RejectHoldout, ModelInTime
<1>3. CASE Split
  <2>1. pc = "start" /\ pc' \notin {"start", "test"} /\ UNCHANGED <<fold, booked>>
    BY <1>3 DEF Split
  <2>2. booked' = {}
    BY <2>1 DEF ModelInTime
  <2>3. QED
    BY <2>1, <2>2 DEF ModelInTime, NoPriceLeak
<1>4. CASE TrainFold
  <2>1. pc = "train" /\ fold <= Len(windows) /\ UNCHANGED <<call, windows, booked>>
    BY <1>4 DEF TrainFold
  <2>2. CASE NextFold
    <3>1. pc' = "train" /\ fold' = fold + 1
      BY <2>1, <2>2 DEF NextFold
    <3>2. QED
      BY <1>1, <2>1, <3>1 DEF ModelInTime
  <2>3. CASE ~NextFold
    <3> DEFINE columns == Stacked(TrainDays)
    <3>2. PICK failed : /\ TrainRows(columns) # {}
                        /\ model' = Fitted(columns, TrainRows(columns), failed)
                        /\ pc' = "test" /\ UNCHANGED fold
      BY <1>4, <2>3 DEF TrainFold
    <3>3. fold \in 1..Len(windows)
      BY <2>1, WindowsNumber DEF ModelInTime
    <3>4. model'.lastClose < windows[fold].start
      <4> HIDE DEF columns
      <4>1. QED
        BY <3>2, <3>3, LabelsEnd DEF Fitted
    <3>5. QED
      BY <1>1, <2>1, <3>2, <3>4 DEF ModelInTime
  <2>4. QED
    BY <2>2, <2>3
<1>5. CASE TestDay
  <2>1. pc = "test" /\ pc' \in {"test", "raised"} /\ UNCHANGED <<windows, fold, model>>
    BY <1>5 DEF TestDay
  <2>2. CASE UNCHANGED booked
    BY <1>1, <2>1, <2>2 DEF ModelInTime
  <2>3. CASE Book
    <3>1. \A d \in ClosesOf(ColumnsOf(day), day) : d <= day
      BY ClosesKnown DEF Trailing
    <3>2. \A b \in booked' :
             \/ b \in booked
             \/ b.fitted = model /\ b.fold = fold /\ b.day = day /\ b.closes = ClosesOf(ColumnsOf(day), day)
      BY <2>3 DEF Book
    <3>3. NoPriceLeak'
      BY <2>1, <3>1, <3>2 DEF ModelInTime, NoPriceLeak
    <3>4. QED
      BY <2>1, <3>3 DEF ModelInTime
  <2>4. QED
    BY <1>5, <2>2, <2>3 DEF TestDay
<1>6. CASE EndFold
  BY <1>1, <1>6 DEF EndFold, ModelInTime
<1>7. CASE Finish
  <2>1. pc' \in {"empty", "validated", "reported"} /\ UNCHANGED <<windows, booked, fold>>
    BY <1>7 DEF Finish
  <2>2. QED
    BY <1>1, <2>1 DEF ModelInTime
<1>8. CASE UNCHANGED vars
  BY <1>1, <1>8 DEF vars, ModelInTime
<1>9. QED
  BY <1>2, <1>3, <1>4, <1>5, <1>6, <1>7, <1>8 DEF Next

\* No fold learns from its own test window, and no score reads a close of a later day,
\* for any purge, embargo, delay and horizon, any lookbacks and any gaps (cv.py, split;
\* research_pipeline.py and backtest.py, the two loops).
THEOREM NoPriceLeaks == Spec => []NoPriceLeak
<1>1. ModelInTime => NoPriceLeak
  BY DEF ModelInTime
<1>2. QED
  BY <1>1, InitSplit, StepSplit, InitInTime, StepInTime, PTL DEF Spec

-----------------------------------------------------------------------------
(***************************************************************************)
(* Types.                                                                  *)
(***************************************************************************)

\* Where a window lies in the index.
LEMMA WindowBounds ==
    ASSUME WindowsOfCall, NEW k \in DOMAIN windows
    PROVE  /\ windows[k] \in [train : Int, start : Int, stop : Int]
           /\ 0 <= windows[k].train /\ 0 <= windows[k].start
           /\ windows[k].start <= windows[k].stop /\ windows[k].stop <= call.days
<1>1. windows # <<>> /\ call \in Setups /\ call.days >= Needed(call)
  BY DEF WindowsOfCall
<1>2. windows = [i \in 1..call.folds |->
              [train |-> Train(call, i), start |-> Start(call, i), stop |-> Stop(call, i)]]
  BY <1>1, FoldsOfSplit DEF WindowsOfCall
<1>3. k \in 1..call.folds /\ windows[k] = [train |-> Train(call, k), start |-> Start(call, k), stop |-> Stop(call, k)]
  BY <1>2
<1>4. /\ Stop(call, k) \in Int /\ Start(call, k) \in Int /\ Train(call, k) \in Int
      /\ Stop(call, k) - Start(call, k) = call.test /\ Start(call, k) - Train(call, k) = Purge(call)
      /\ Train(call, k) >= LeastTrain(call)
  BY <1>1, <1>3, Layout, RoomForAll
<1>5. /\ LeastTrain(call) \in Nat /\ Purge(call) \in Nat /\ call.test \in Nat /\ call.days \in Nat
      /\ call.folds \in Nat /\ call.test + Gap(call) \in Nat
  BY <1>1, CallTypes
<1>6. Stop(call, k) <= call.days
  <2>1. call.folds - k \in Nat
    BY <1>3, <1>5
  <2>2. \A n, w \in Nat : n * w \in Nat
    OBVIOUS
  <2>3. (call.folds - k) * (call.test + Gap(call)) \in Nat
    BY <1>5, <2>1, <2>2
  <2>4. Stop(call, k) = call.days - (call.folds - k) * (call.test + Gap(call))
    BY DEF Stop
  <2> DEFINE after == (call.folds - k) * (call.test + Gap(call))
  <2>5. after \in Nat /\ Stop(call, k) = call.days - after
    BY <2>3, <2>4
  <2> HIDE DEF after
  <2>6. QED
    BY <1>5, <2>5
<1>7. QED
  BY <1>3, <1>4, <1>5, <1>6

WindowsTyped == \A k \in DOMAIN windows : windows[k] \in [train : Int, start : Int, stop : Int]

LEMMA WindowTypes == WindowsOfCall => WindowsTyped
  BY WindowBounds DEF WindowsTyped

LEMMA WindowsAreFolds ==
    ASSUME WindowsOfCall
    PROVE  /\ DOMAIN windows = 1..Len(windows)
           /\ Len(windows) \in Nat /\ call.folds \in Nat /\ Len(windows) <= call.folds
           /\ Len(windows) > 0 => windows # <<>>
<1>1. call \in Setups /\ call.folds \in Nat
  BY CallTypes DEF WindowsOfCall
<1>2. CASE windows = <<>>
  <2>1. Len(windows) = 0 /\ DOMAIN windows = 1..0
    BY <1>2
  <2>2. QED
    BY <1>1, <2>1
<1>3. CASE windows # <<>>
  <2>1. windows = [k \in 1..call.folds |->
              [train |-> Train(call, k), start |-> Start(call, k), stop |-> Stop(call, k)]]
    BY <1>1, <1>3, FoldsOfSplit DEF WindowsOfCall
  <2>2. Len(windows) = call.folds /\ DOMAIN windows = 1..call.folds
    BY <1>1, <2>1
  <2>3. QED
    BY <1>1, <1>3, <2>2
<1>4. QED
  BY <1>2, <1>3

\* A stack from which rows are left has columns.
LEMMA RowsHaveColumns ==
    ASSUME WindowsOfCall, NEW rows, rows = TrainRows(Stacked(TrainDays)), rows # {}
    PROVE  /\ Stacked(TrainDays) # <<>>
           /\ Cardinality(ToSet(Stacked(TrainDays))) = Len(Stacked(TrainDays))
           /\ \E t \in TrainDays : ToSet(ColumnsOf(t)) = SeenOn(TrainDays)
<1>1. TrainDays \in SUBSET Nat
  BY DEF TrainDays
<1>2. PICK t \in TrainDays : ColumnsOf(t) # <<>> /\ ToSet(ColumnsOf(t)) = ToSet(Stacked(TrainDays))
  BY DEF TrainRows, TrainDays
<1>3. ToSet(Stacked(TrainDays)) = SeenOn(TrainDays) /\ Len(Stacked(TrainDays)) = Cardinality(SeenOn(TrainDays))
  BY <1>1, StackTypes
<1>4. ASSUME Stacked(TrainDays) = <<>> PROVE FALSE
  <2>1. SeenOn(TrainDays) = {}
    BY <1>3, <1>4 DEF ToSet
  <2>2. ColumnsOf(t) = InOrder({}, Earlier)
    BY <1>2, <1>3, <2>1, ColumnsTypes
  <2>3. InOrder({}, Earlier) = InOrder({}, StackOrder(TrainDays))
    BY SameOrder
  <2>4. QED
    BY <1>2, <1>4, <2>1, <2>2, <2>3, StackedInOrder
<1>5. QED
  BY <1>2, <1>3, <1>4

\* A test goes forward, and the portfolio held is of an earlier day.
Forward ==
    /\ TypeOK
    /\ pc = "test" => held < day

LEMMA InitForward == Init => Forward
<1> SUFFICES ASSUME Init PROVE Forward
  OBVIOUS
<1>1. call \in Setups /\ windows = <<>> /\ fold = 1 /\ day = 0 /\ held = -1 /\ booked = {}
      /\ model = NoModel /\ pc = "start" /\ table \in Tables
  BY DEF Init
<1>2. call.folds \in Nat \ {0} /\ call.days \in Nat /\ call.step \in Nat
  BY <1>1, CallTypes DEF Setup
<1>3. fold \in 1..call.folds + 1 /\ day \in 0..call.days + call.step /\ held \in -1..call.days - 1
  BY <1>1, <1>2
<1>4. \A k \in DOMAIN windows : windows[k] \in [train : Int, start : Int, stop : Int]
  BY <1>1
<1>5. QED
  BY <1>1, <1>3, <1>4 DEF Forward, TypeOK

LEMMA StepForward == WindowsOfCall /\ WindowsOfCall' /\ ModelInTime /\ Forward /\ [Next]_vars => Forward'
<1> SUFFICES ASSUME WindowsOfCall, WindowsOfCall', ModelInTime, Forward, [Next]_vars PROVE Forward'
  OBVIOUS
<1>1. call \in Setups /\ call.days \in Nat /\ call.folds \in Nat \ {0} /\ call.step \in Nat \ {0}
  BY CallTypes, SetupAssumption DEF WindowsOfCall, Setup
<1>2. WindowsTyped'
  BY WindowTypes, PTL
<1>3. ASSUME UNCHANGED <<call, table, fold, day, model, booked, held>>,
             pc' \in {"train", "reported", "validated", "empty", "raised"}
      PROVE  Forward'
  BY <1>2, <1>3 DEF Forward, TypeOK, WindowsTyped
<1>4. /\ TypeOK /\ fold \in Nat /\ day \in Int /\ held \in Int
      /\ Stride \in Nat /\ 1 <= Stride /\ Stride <= call.step
  BY <1>1 DEF Forward, TypeOK, Stride
<1>5. CASE RejectHoldout
  BY <1>3, <1>5 DEF RejectHoldout
<1>6. CASE Split
  BY <1>3, <1>6 DEF Split
<1>7. CASE TrainFold
  <2>1. pc = "train" /\ fold <= Len(windows) /\ UNCHANGED <<call, table, gaps, windows, booked>>
    BY <1>7 DEF TrainFold
  <2>2. fold \in DOMAIN windows /\ fold <= call.folds /\ fold + 1 \in 1..call.folds + 1
    BY <1>1, <1>4, <2>1, WindowsAreFolds DEF ModelInTime
  <2>3. CASE NextFold
    BY <1>2, <2>1, <2>2, <2>3 DEF NextFold, Forward, TypeOK, WindowsTyped
  <2>4. CASE ~NextFold
    <3>1. PICK failed : /\ TrainRows(Stacked(TrainDays)) # {}
                        /\ model' = Fitted(Stacked(TrainDays), TrainRows(Stacked(TrainDays)), failed)
                        /\ pc' = "test" /\ day' = windows[fold].start /\ held' = -1 /\ UNCHANGED fold
      BY <1>7, <2>4 DEF TrainFold
    <3>2. model'.columns = Stacked(TrainDays)
      BY <3>1 DEF Fitted
    <3>3. model'.columns # <<>> /\ Cardinality(ToSet(model'.columns)) = Len(model'.columns)
      BY <3>1, <3>2, RowsHaveColumns
    <3>4. day' \in 0..call.days + call.step /\ held' \in -1..call.days - 1 /\ held' < day'
      <4>1. /\ windows[fold].start \in Int /\ windows[fold].stop \in Int
            /\ 0 <= windows[fold].start /\ windows[fold].start <= windows[fold].stop
            /\ windows[fold].stop <= call.days
        BY <2>2, WindowBounds
      <4>2. QED
        BY <1>1, <3>1, <4>1
    <3>5. QED
      BY <1>2, <2>1, <3>1, <3>3, <3>4 DEF Forward, TypeOK, WindowsTyped
  <2>5. QED
    BY <2>3, <2>4
<1>8. CASE TestDay
  <2>1. /\ pc = "test" /\ day < windows[fold].stop /\ pc' \in {"test", "raised"}
        /\ UNCHANGED <<call, table, gaps, windows, fold, model>>
    BY <1>8 DEF TestDay
  <2>2. fold \in DOMAIN windows
    BY <1>4, <2>1, WindowsAreFolds DEF ModelInTime
  <2>3. day < call.days /\ 0 <= day /\ held < day
    <3>1. windows[fold].stop \in Int /\ windows[fold].stop <= call.days
      BY <2>2, WindowBounds
    <3>2. held < day /\ 0 <= day
      BY <1>1, <1>4, <2>1 DEF Forward, TypeOK
    <3>3. QED
      BY <1>1, <1>4, <2>1, <3>1, <3>2
  <2>4. \/ UNCHANGED <<day, booked, held>>
        \/ day' = day + Stride /\ UNCHANGED <<booked, held>>
        \/ day' = day + Stride /\ Book /\ held' = day
    BY <1>8 DEF TestDay
  <2>5. day' \in 0..call.days + call.step /\ held' \in -1..call.days - 1 /\ held' < day'
    <3>1. day \in Nat /\ held \in -1..call.days - 1
      BY <1>1, <1>4, <2>3 DEF TypeOK
    <3>2. CASE UNCHANGED <<day, booked, held>>
      BY <1>1, <2>3, <3>1, <3>2
    <3>3. CASE day' = day + Stride /\ UNCHANGED held
      BY <1>1, <1>4, <2>3, <3>1, <3>3
    <3>4. CASE day' = day + Stride /\ held' = day
      BY <1>1, <1>4, <2>3, <3>1, <3>4
    <3>5. QED
      BY <2>4, <3>2, <3>3, <3>4
  <2>6. \A b \in booked' : b.day \in 0..call.days - 1 /\ b.from < b.day
    <3>1. \A b \in booked : b.day \in 0..call.days - 1 /\ b.from < b.day
      BY <1>4 DEF TypeOK
    <3>2. Book => \A b \in booked' : b \in booked \/ (b.day = day /\ b.from = held)
      BY DEF Book
    <3>3. day \in 0..call.days - 1
      BY <1>1, <1>4, <2>3
    <3>4. QED
      BY <2>3, <2>4, <3>1, <3>2, <3>3
  <2>7. QED
    BY <1>2, <2>1, <2>5, <2>6 DEF Forward, TypeOK, WindowsTyped
<1>9. CASE EndFold
  <2>1. fold \in DOMAIN windows /\ fold <= call.folds /\ fold + 1 \in 1..call.folds + 1
    BY <1>1, <1>4, <1>9, WindowsAreFolds DEF EndFold, ModelInTime
  <2>2. QED
    BY <1>2, <1>9, <2>1 DEF EndFold, Forward, TypeOK, WindowsTyped
<1>10. CASE Finish
  BY <1>3, <1>10 DEF Finish
<1>11. CASE UNCHANGED vars
  BY <1>11 DEF vars, Forward, TypeOK
<1>12. QED
  BY <1>5, <1>6, <1>7, <1>8, <1>9, <1>10, <1>11 DEF Next

\* The types, for any calls: folds and days stay in their bounds, a day's return is booked
\* from a portfolio of an earlier day, and every model has columns, each of them once
\* (research_pipeline.py and backtest.py, the two loops).
THEOREM WalkTypes == Spec => []TypeOK
<1>1. Forward => TypeOK
  BY DEF Forward
<1>2. QED
  BY <1>1, InitSplit, StepSplit, InitInTime, StepInTime, InitForward, StepForward, PTL DEF Spec

-----------------------------------------------------------------------------
(***************************************************************************)
(* Coefficients and factors.                                               *)
(***************************************************************************)

\* The latest of some days are some.
LEMMA LatestThere ==
    ASSUME NEW n \in Int, NEW days \in SUBSET (0..(n - 1)), days # {}, NEW m \in Nat \ {0}
    PROVE  Latest(days, m) # {}
<1>1. PICK d \in days : \A e \in days : e <= d
  BY LastDay
<1>2. \A e \in days : ~(e > d)
  BY <1>1
<1>3. {e \in days : e > d} = {}
  BY <1>2
<1>4. Cardinality({e \in days : e > d}) = 0
  BY <1>3, FS_EmptySet
<1>5. d \in Latest(days, m)
  BY <1>4 DEF Latest
<1>6. QED
  BY <1>5

\* On prices alone a factor is there only if all earlier ones of the registry are: each
\* needs at least the closes of the one before.
LEMMA PricesGiveAPrefix ==
    ASSUME call \in Setups, table = {}, gaps = {}, NEW t,
           NEW g \in ToSet(ColumnsOf(t)), NEW f \in Factors, Place(f) < Place(g)
    PROVE  f \in ToSet(ColumnsOf(t))
<1>1. CASE call.loop = "backtest"
  BY <1>1, ColumnsTypes
<1>2. CASE call.loop # "backtest"
  <2> DEFINE days == Trailing(t)
             n == Cardinality(days)
  <2>1. call.days \in Int
    BY CallTypes
  <2>2. days \in SUBSET (0..(call.days - 1))
    BY DEF Trailing
  <2>3. n \in Nat
    <3>1. IsFiniteSet(0..(call.days - 1))
      BY <2>1, FS_Interval
    <3>2. IsFiniteSet(days)
      BY <2>2, <3>1, FS_Subset
    <3>3. QED
      BY <3>2, FS_CardinalityType
  <2>4. n > 0 => days # {}
    BY FS_EmptySet
  <2> HIDE DEF days
  <2>5. /\ IvolDays \in Nat \ {0} /\ IvolReach \in Nat \ {0} /\ HighDays \in Nat \ {0} /\ MomDays \in Nat \ {0}
        /\ IvolDays <= HighDays /\ HighDays <= MomDays
    BY SizeAssumption, LookbackAssumption
  <2> HIDE DEF n
  <2>6. n >= IvolDays => Ivol(days) # {}
    <3>1. n >= IvolDays => Latest(days, IvolReach) # {}
      <4>1. n >= IvolDays => days # {}
        BY <2>3, <2>4, <2>5
      <4>2. days # {} => Latest(days, IvolReach) # {}
        BY <2>1, <2>2, <2>5, LatestThere
      <4>3. QED
        BY <4>1, <4>2
    <3>2. n >= IvolDays => ~(n < IvolDays)
      BY <2>3, <2>5
    <3>3. QED
      BY <3>1, <3>2 DEF Ivol, n
  <2>7. /\ n >= HighDays => High(days) # {}
        /\ High(days) # {} => n >= HighDays
    <3>1. n >= HighDays => Latest(days, MomDays) # {}
      <4>1. n >= HighDays => days # {}
        BY <2>3, <2>4, <2>5
      <4>2. days # {} => Latest(days, MomDays) # {}
        BY <2>1, <2>2, <2>5, LatestThere
      <4>3. QED
        BY <4>1, <4>2
    <3>2. n >= HighDays <=> ~(n < HighDays)
      BY <2>3, <2>5
    <3>3. QED
      BY <3>1, <3>2 DEF High, n
  <2>8. Momentum(days) # {} => n >= MomDays
    <3>1. n >= MomDays <=> ~(n < MomDays)
      BY <2>3, <2>5
    <3>2. QED
      BY <3>1 DEF Momentum, n
  <2>9. \A h : Facts(h, t) = {} /\ ~Blanked(h, t)
    BY DEF Facts, Piotroski, Current, Blanked
  <2>10. \A h \in Factors : h \in There(t) <=> Closes(h, t) # {}
    BY <2>9 DEF There
  <2>11. /\ Closes("ivol_20d", t) = Ivol(days) /\ Closes("52w_high_proximity", t) = High(days)
         /\ Closes("momentum_2_12", t) = Momentum(days) /\ Closes("piotroski_f_score", t) = {}
    BY DEF Closes, days
  <2>12. ToSet(ColumnsOf(t)) = There(t) /\ g \in Factors
    BY <1>2, ColumnsTypes
  <2>13. /\ Momentum(days) # {} => High(days) # {}
         /\ High(days) # {} => Ivol(days) # {}
    BY <2>3, <2>5, <2>6, <2>7, <2>8
  <2>14. CASE g = "ivol_20d"
    BY <2>14, Places
  <2>15. CASE g = "52w_high_proximity"
    <3>1. f = "ivol_20d"
      BY <2>15, Places
    <3>2. QED
      BY <2>10, <2>11, <2>12, <2>13, <2>15, <3>1
  <2>16. CASE g = "momentum_2_12"
    <3>1. f = "ivol_20d" \/ f = "52w_high_proximity"
      BY <2>16, Places
    <3>2. QED
      BY <2>10, <2>11, <2>12, <2>13, <2>16, <3>1
  <2>17. CASE g = "piotroski_f_score"
    BY <2>10, <2>11, <2>12, <2>17
  <2>18. QED
    BY <2>12, <2>14, <2>15, <2>16, <2>17, Places
<1>3. QED
  BY <1>1, <1>2

\* So as many columns are the same columns.
LEMMA AsManyAreTheSame ==
    ASSUME call \in Setups, table = {}, gaps = {}, NEW t, NEW u,
           Len(ColumnsOf(t)) = Len(ColumnsOf(u))
    PROVE  ColumnsOf(t) = ColumnsOf(u)
<1> DEFINE A == ToSet(ColumnsOf(t))
           B == ToSet(ColumnsOf(u))
<1>1. A \in SUBSET Factors /\ B \in SUBSET Factors /\ IsFiniteSet(A) /\ IsFiniteSet(B)
      /\ Cardinality(A) = Cardinality(B)
  BY ColumnsTypes
<1>2. /\ \A g \in A, f \in Factors : Place(f) < Place(g) => f \in A
      /\ \A g \in B, f \in Factors : Place(f) < Place(g) => f \in B
  BY PricesGiveAPrefix
<1>3. A \subseteq B \/ B \subseteq A
  <2>1. SUFFICES ASSUME NEW x \in A, x \notin B, NEW y \in B, y \notin A PROVE FALSE
    OBVIOUS
  <2>2. x \in Factors /\ y \in Factors /\ x # y
    BY <1>1, <2>1
  <2>3. Place(x) \in Int /\ Place(y) \in Int /\ Place(x) # Place(y)
    BY <2>2, PlacesDiffer
  <2>4. Place(x) < Place(y) \/ Place(y) < Place(x)
    BY <2>3
  <2>5. QED
    BY <1>2, <2>1, <2>2, <2>4
<1>4. A = B
  <2> HIDE DEF A, B
  <2>1. QED
    BY <1>1, <1>3, FS_Subset
<1>5. QED
  BY <1>4, ColumnsTypes

\* On prices alone the stack of a fold has the columns of one of its days.
LEMMA StackIsADay ==
    ASSUME WindowsOfCall, table = {}, gaps = {}, TrainRows(Stacked(TrainDays)) # {}
    PROVE  \E t \in TrainDays : Stacked(TrainDays) = ColumnsOf(t)
<1>1. call \in Setups /\ TrainDays \in SUBSET Nat
  BY DEF WindowsOfCall, TrainDays
<1>2. PICK t \in TrainDays : ToSet(ColumnsOf(t)) = SeenOn(TrainDays)
  BY RowsHaveColumns
<1>3. Stacked(TrainDays) = InOrder(SeenOn(TrainDays), Earlier)
  BY <1>1, PricesGiveAPrefix, StackInRegistry
<1>4. QED
  BY <1>2, <1>3, ColumnsTypes

\* The columns are a matter of the call, its table and its gaps.
LEMMA SameColumns ==
    ASSUME UNCHANGED <<call, table, gaps>>
    PROVE  \A t : ColumnsOf(t)' = ColumnsOf(t)
  BY DEF ColumnsOf, Columns, Closes, Facts, Blanked, Trailing

\* On prices alone the model in use has the columns of some day.
Named ==
    table = {} /\ gaps = {} =>
        /\ ByName
        /\ pc = "test" => \E t : model.columns = ColumnsOf(t)

LEMMA InitNamed == Init => Named
  BY DEF Init, Named, ByName

LEMMA StepNamed == WindowsOfCall /\ ModelInTime /\ Named /\ [Next]_vars => Named'
<1> SUFFICES ASSUME WindowsOfCall, ModelInTime, Named, [Next]_vars PROVE Named'
  OBVIOUS
<1>1. UNCHANGED <<call, table, gaps>>
  BY DEF Next, RejectHoldout, Split, TrainFold, TestDay, EndFold, Finish, vars
<1> SUFFICES ASSUME table = {}, gaps = {}
             PROVE  ByName' /\ (pc' = "test" => \E t : model'.columns = ColumnsOf(t)')
  BY <1>1 DEF Named
<1>2. /\ ByName /\ call \in Setups
      /\ pc = "test" => \E t : model.columns = ColumnsOf(t)
      /\ \A t : ColumnsOf(t)' = ColumnsOf(t)
  BY <1>1, SameColumns DEF Named, WindowsOfCall
<1>3. ASSUME UNCHANGED booked PROVE ByName'
  BY <1>2, <1>3 DEF ByName
<1>4. CASE TrainFold
  <2>1. UNCHANGED booked /\ pc = "train"
    BY <1>4 DEF TrainFold
  <2>2. CASE NextFold
    BY <1>3, <2>1, <2>2 DEF NextFold
  <2>3. CASE ~NextFold
    <3>1. PICK failed : /\ TrainRows(Stacked(TrainDays)) # {}
                        /\ model' = Fitted(Stacked(TrainDays), TrainRows(Stacked(TrainDays)), failed)
      BY <1>4, <2>3 DEF TrainFold
    <3>2. model'.columns = Stacked(TrainDays)
      BY <3>1 DEF Fitted
    <3>3. QED
      BY <1>2, <1>3, <2>1, <3>1, <3>2, StackIsADay
  <2>4. QED
    BY <2>2, <2>3
<1>5. CASE TestDay
  <2>1. pc = "test" /\ UNCHANGED model
    BY <1>5 DEF TestDay
  <2>2. PICK t : model.columns = ColumnsOf(t)
    BY <1>2, <2>1
  <2>3. CASE UNCHANGED booked
    BY <1>2, <1>3, <2>1, <2>2, <2>3
  <2>4. CASE Book /\ CanPredict
    <3>1. Len(ColumnsOf(day)) = Len(ColumnsOf(t))
      BY <2>2, <2>4 DEF CanPredict
    <3>2. ColumnsOf(day) = model.columns
      BY <1>2, <2>2, <3>1, AsManyAreTheSame
    <3>3. \A b \in booked' : b \in booked \/ (b.fitted = model /\ b.columns = ColumnsOf(day))
      BY <2>4 DEF Book
    <3>4. ByName'
      BY <1>2, <3>2, <3>3 DEF ByName
    <3>5. QED
      BY <1>2, <2>1, <2>2, <3>4
  <2>5. QED
    BY <1>5, <2>3, <2>4 DEF TestDay
<1>6. CASE RejectHoldout \/ Split \/ EndFold \/ Finish
  <2>1. UNCHANGED booked /\ pc' # "test"
    BY <1>6 DEF RejectHoldout, Split, EndFold, Finish
  <2>2. QED
    BY <1>3, <2>1
<1>7. CASE UNCHANGED vars
  BY <1>2, <1>3, <1>7 DEF vars
<1>8. QED
  BY <1>4, <1>5, <1>6, <1>7 DEF Next

\* On prices alone and with no gaps, every coefficient meets the factor it was fitted
\* for, although models take columns by position: for any calls and windows, as long as
\* no factor of the registry needs fewer closes than the one before (research_pipeline.py
\* and backtest.py, the two loops; ridge_model.py, predict).
THEOREM NamesMeet == Spec => []ByNameOnPrices
<1>1. Named => ByNameOnPrices
  BY DEF Named, ByNameOnPrices
<1>2. QED
  BY <1>1, InitSplit, StepSplit, InitInTime, StepInTime, InitNamed, StepNamed, PTL DEF Spec
=============================================================================
