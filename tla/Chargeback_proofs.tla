------------------------- MODULE Chargeback_proofs -------------------------
(***************************************************************************)
(* Proofs about ingests and chargeback runs, for every set of sessions,    *)
(* every set of exports, catalog, tag keys and    *)
(* bounds.  A session is reasoned about on its record, on the charges and  *)
(* tag rows that are stored: what it replaced, and what a commit of        *)
(* another session changes of that.  The sums are those of the community   *)
(* modules, over finite sets; a sum over tag rows or insights is brought   *)
(* to one over input rows by a bijection.                                  *)
(***************************************************************************)
EXTENDS Chargeback, FiniteSetTheorems, WellFoundedInduction, SequenceTheorems, TLAPS

-----------------------------------------------------------------------------
(* Finite sets and sums over them.                                         *)

\* A set of numbers that is not empty has a least one.
LEMMA LeastExists ==
  ASSUME NEW S \in SUBSET Nat, S # {}
  PROVE  \E x \in S : \A y \in S : x <= y
<1>1. PICK x \in S : \A y \in S : ~ (<<y, x>> \in OpToRel(<, Nat))
  BY NatLessThanWellFounded, WFMin
<1>2. \A y \in S : ~ (y < x)
  <2>1. \A y \in S : <<y, x>> \in Nat \X Nat
    OBVIOUS
  <2>2. QED
    BY <1>1, <2>1, Zenon DEF OpToRel
<1>3. QED
  BY <1>2

\* What holds of a set as soon as it holds of its proper subsets holds of a finite set: a
\* smallest subset it does not hold of would be one it holds of.
LEMMA FiniteInduction ==
  ASSUME NEW U, IsFiniteSet(U), NEW Good,
         \A S \in SUBSET U : (\A R \in SUBSET S : R # S => R \in Good) => S \in Good
  PROVE  U \in Good
<1> DEFINE Bad == {S \in SUBSET U : S \notin Good}
           Sizes == {Cardinality(S) : S \in Bad}
<1>1. \A S \in SUBSET U : IsFiniteSet(S) /\ Cardinality(S) \in Nat
  BY FS_Subset, FS_CardinalityType
<1>2. SUFFICES ASSUME U \notin Good
               PROVE  FALSE
  OBVIOUS
<1>3. Sizes \in SUBSET Nat /\ Sizes # {}
  BY <1>1, <1>2
<1>4. PICK m \in Sizes : \A n \in Sizes : m <= n
  <2> HIDE DEF Sizes
  <2>1. QED
    BY <1>3, LeastExists
<1>5. PICK S \in Bad : m = Cardinality(S)
  OBVIOUS
<1>6. ASSUME NEW R \in SUBSET S, R # S
      PROVE  R \in Good
  <2>1. Cardinality(R) \in Nat /\ Cardinality(S) \in Nat /\ Cardinality(R) <= Cardinality(S)
        /\ Cardinality(R) # Cardinality(S)
    BY <1>1, <1>6, FS_Subset
  <2>2. ~ (m <= Cardinality(R))
    BY <1>5, <2>1
  <2>3. QED
    BY <1>4, <2>2
<1>7. QED
  BY <1>6

\* The elements a function gives a finite set are finitely many.
LEMMA ImageFinite ==
  ASSUME NEW h, NEW S, IsFiniteSet(S)
  PROVE  IsFiniteSet({h[x] : x \in S})
<1> DEFINE T == {h[x] : x \in S}
           g == [x \in S |-> h[x]]
<1>1. g \in Surjection(S, T)
  BY DEF Surjection
<1>2. QED
  BY <1>1, FS_Surjection

\* A fold of + over the subsets of S, in the order CHOOSE takes their elements.
IsFold(f, S, g) ==
  g = [s \in SUBSET S |->
         IF s = {} THEN 0 ELSE f[CHOOSE x \in s : TRUE] + g[s \ {CHOOSE x \in s : TRUE}]]

\* SumFunctionOnSet of the community modules is one.
LEMMA SumIs ==
  ASSUME NEW f, NEW S
  PROVE  SumFunctionOnSet(f, S) = (CHOOSE g : IsFold(f, S, g))[S]
BY DEF SumFunctionOnSet, FoldFunctionOnSet, MapThenFoldSet, IsFold

\* The sum over a finite set, one element taken away.
Step(f, S) ==
  IF S = {} THEN 0
  ELSE f[CHOOSE x \in S : TRUE] + SumFunctionOnSet(f, S \ {CHOOSE x \in S : TRUE})

\* A sum is one of its terms and the sum of the others.
LEMMA SumStep ==
  ASSUME NEW f, NEW U, IsFiniteSet(U)
  PROVE  SumFunctionOnSet(f, U) = Step(f, U)
<1> DEFINE Good == {S \in SUBSET U : SumFunctionOnSet(f, S) = Step(f, S)}
<1>1. ASSUME NEW S \in SUBSET U, \A R \in SUBSET S : R # S => R \in Good
      PROVE  S \in Good
  <2> DEFINE h == [s \in SUBSET S |-> IF s = S THEN Step(f, S) ELSE SumFunctionOnSet(f, s)]
  <2>1. \A s \in SUBSET S : s # {} =>
          /\ (CHOOSE x \in s : TRUE) \in s
          /\ s \ {CHOOSE x \in s : TRUE} \in SUBSET S
          /\ s \ {CHOOSE x \in s : TRUE} # S
    OBVIOUS
  <2>2. IsFold(f, S, h)
    <3>1. \A s \in SUBSET S : h[s] = Step(f, s)
      BY <1>1
    <3>2. \A s \in SUBSET S : s # {} =>
            h[s \ {CHOOSE x \in s : TRUE}] = SumFunctionOnSet(f, s \ {CHOOSE x \in s : TRUE})
      BY <2>1
    <3>3. \A s \in SUBSET S : h[s] =
            IF s = {} THEN 0 ELSE f[CHOOSE x \in s : TRUE] + h[s \ {CHOOSE x \in s : TRUE}]
      BY <3>1, <3>2 DEF Step
    <3>4. h = [s \in SUBSET S |-> h[s]]
      OBVIOUS
    <3> HIDE DEF h
    <3>5. QED
      BY <3>3, <3>4 DEF IsFold
  <2>3. PICK g : IsFold(f, S, g) /\ SumFunctionOnSet(f, S) = g[S]
    BY <2>2, SumIs
  <2>4. \A s \in SUBSET S : g[s] =
          IF s = {} THEN 0 ELSE f[CHOOSE x \in s : TRUE] + g[s \ {CHOOSE x \in s : TRUE}]
    BY <2>3 DEF IsFold
  <2>5. ASSUME NEW s \in SUBSET S, s # S
        PROVE  g[s] = SumFunctionOnSet(f, s)
    <3> DEFINE Same == {r \in SUBSET S : g[r] = SumFunctionOnSet(f, r)}
    <3>1. IsFiniteSet(s)
      BY FS_Subset
    <3>2. ASSUME NEW r \in SUBSET s, \A q \in SUBSET r : q # r => q \in Same
          PROVE  r \in Same
      <4>1. SumFunctionOnSet(f, r) = Step(f, r)
        BY <1>1, <2>5
      <4>2. r # {} => r \ {CHOOSE x \in r : TRUE} \in Same
        BY <3>2
      <4>3. g[r] = Step(f, r)
        BY <2>4, <4>2 DEF Step
      <4>4. QED
        BY <4>1, <4>3
    <3>3. s \in Same
      <4> HIDE DEF Same
      <4>1. QED
        BY <3>1, <3>2, FiniteInduction
    <3>4. QED
      BY <3>3
  <2>6. S # {} => g[S \ {CHOOSE x \in S : TRUE}] = SumFunctionOnSet(f, S \ {CHOOSE x \in S : TRUE})
    BY <2>1, <2>5
  <2>7. g[S] = Step(f, S)
    BY <2>4, <2>6 DEF Step
  <2>8. QED
    BY <2>3, <2>7
<1>2. U \in Good
  <2> HIDE DEF Good
  <2>1. QED
    BY <1>1, FiniteInduction
<1>3. QED
  BY <1>2

\* The sum of nothing.
LEMMA SumEmpty ==
  ASSUME NEW f
  PROVE  SumFunctionOnSet(f, {}) = 0
BY SumStep, FS_EmptySet DEF Step

\* A sum of integers is an integer.
LEMMA SumInt ==
  ASSUME NEW f, NEW U, IsFiniteSet(U), \A x \in U : f[x] \in Int
  PROVE  SumFunctionOnSet(f, U) \in Int
<1> DEFINE Good == {S \in SUBSET U : SumFunctionOnSet(f, S) \in Int}
<1>1. ASSUME NEW S \in SUBSET U, \A R \in SUBSET S : R # S => R \in Good
      PROVE  S \in Good
  <2>1. SumFunctionOnSet(f, S) = Step(f, S)
    BY FS_Subset, SumStep
  <2>2. CASE S = {}
    BY <2>1, <2>2 DEF Step
  <2>3. CASE S # {}
    <3>1. PICK x \in S : Step(f, S) = f[x] + SumFunctionOnSet(f, S \ {x})
      BY <2>3 DEF Step
    <3>2. S \ {x} \in Good
      BY <1>1
    <3>3. QED
      BY <2>1, <3>1, <3>2
  <2>4. QED
    BY <2>2, <2>3
<1>2. U \in Good
  <2> HIDE DEF Good
  <2>1. QED
    BY <1>1, FiniteInduction
<1>3. QED
  BY <1>2

\* Any element can be taken out of it.
LEMMA SumRemove ==
  ASSUME NEW f, NEW U, IsFiniteSet(U), \A x \in U : f[x] \in Int, NEW a \in U
  PROVE  SumFunctionOnSet(f, U) = f[a] + SumFunctionOnSet(f, U \ {a})
<1> DEFINE Good == {S \in SUBSET U : \A x \in S :
                      SumFunctionOnSet(f, S) = f[x] + SumFunctionOnSet(f, S \ {x})}
<1>1. ASSUME NEW S \in SUBSET U, \A R \in SUBSET S : R # S => R \in Good
      PROVE  S \in Good
  <2>1. SUFFICES ASSUME NEW x \in S
                 PROVE  SumFunctionOnSet(f, S) = f[x] + SumFunctionOnSet(f, S \ {x})
    OBVIOUS
  <2>2. SumFunctionOnSet(f, S) = Step(f, S)
    BY FS_Subset, SumStep
  <2>3. PICK y \in S : SumFunctionOnSet(f, S) = f[y] + SumFunctionOnSet(f, S \ {y})
    BY <2>2 DEF Step
  <2>4. CASE x = y
    BY <2>3, <2>4
  <2>5. CASE x # y
    <3>1. SumFunctionOnSet(f, S \ {y}) = f[x] + SumFunctionOnSet(f, (S \ {y}) \ {x})
      BY <1>1, <2>5
    <3>2. SumFunctionOnSet(f, S \ {x}) = f[y] + SumFunctionOnSet(f, (S \ {x}) \ {y})
      BY <1>1, <2>5
    <3>3. (S \ {y}) \ {x} = (S \ {x}) \ {y}
      OBVIOUS
    <3>4. PICK z : z = SumFunctionOnSet(f, (S \ {x}) \ {y})
      OBVIOUS
    <3>5. z \in Int
      <4>1. IsFiniteSet((S \ {x}) \ {y}) /\ \A w \in (S \ {x}) \ {y} : f[w] \in Int
        BY FS_Subset
      <4>2. QED
        BY <3>4, <4>1, SumInt
    <3>6. f[x] \in Int /\ f[y] \in Int
      OBVIOUS
    <3>7. SumFunctionOnSet(f, S) = f[y] + (f[x] + z) /\ SumFunctionOnSet(f, S \ {x}) = f[y] + z
      BY <2>3, <3>1, <3>2, <3>3, <3>4
    <3>8. QED
      BY <3>5, <3>6, <3>7
  <2>6. QED
    BY <2>4, <2>5
<1>2. U \in Good
  <2> HIDE DEF Good
  <2>1. QED
    BY <1>1, FiniteInduction
<1>3. QED
  BY <1>2

\* The sum of one term.
LEMMA SumSingle ==
  ASSUME NEW f, NEW a, f[a] \in Int
  PROVE  SumFunctionOnSet(f, {a}) = f[a]
<1>1. IsFiniteSet({a}) /\ {a} \ {a} = {}
  BY FS_Singleton
<1>2. SumFunctionOnSet(f, {a}) = f[a] + SumFunctionOnSet(f, {})
  BY <1>1, SumRemove
<1>3. QED
  BY <1>2, SumEmpty

\* Reindexed by a bijection, a sum is the same.
LEMMA SumBijection ==
  ASSUME NEW f, NEW U, IsFiniteSet(U), NEW g, NEW T, NEW h,
         \A x \in U : h[x] \in T /\ f[x] \in Int /\ g[h[x]] = f[x],
         \A x, y \in U : h[x] = h[y] => x = y,
         \A z \in T : \E x \in U : h[x] = z
  PROVE  IsFiniteSet(T) /\ SumFunctionOnSet(f, U) = SumFunctionOnSet(g, T)
<1> DEFINE Image(S) == {h[x] : x \in S}
           Good == {S \in SUBSET U : SumFunctionOnSet(f, S) = SumFunctionOnSet(g, Image(S))}
<1>1. ASSUME NEW S \in SUBSET U, \A R \in SUBSET S : R # S => R \in Good
      PROVE  S \in Good
  <2>1. CASE S = {}
    <3>1. Image(S) = {}
      BY <2>1
    <3>2. QED
      BY <2>1, <3>1, SumEmpty
  <2>2. CASE S # {}
    <3>1. PICK x \in S : TRUE
      BY <2>2
    <3>2. IsFiniteSet(S) /\ IsFiniteSet(Image(S))
      BY FS_Subset, ImageFinite
    <3>3. SumFunctionOnSet(f, S) = f[x] + SumFunctionOnSet(f, S \ {x})
      BY <3>2, SumRemove
    <3>4. SumFunctionOnSet(g, Image(S)) = g[h[x]] + SumFunctionOnSet(g, Image(S) \ {h[x]})
      <4>1. h[x] \in Image(S) /\ \A z \in Image(S) : g[z] \in Int
        OBVIOUS
      <4> HIDE DEF Image
      <4>2. QED
        BY <3>2, <4>1, SumRemove
    <3>5. Image(S) \ {h[x]} = Image(S \ {x})
      OBVIOUS
    <3>6. S \ {x} \in Good
      BY <1>1
    <3>7. g[h[x]] = f[x]
      OBVIOUS
    <3>8. QED
      BY <3>3, <3>4, <3>5, <3>6, <3>7
  <2>3. QED
    BY <2>1, <2>2
<1>2. U \in Good
  <2> HIDE DEF Good
  <2>1. QED
    BY <1>1, FiniteInduction
<1>3. Image(U) = T
  OBVIOUS
<1>4. QED
  BY <1>2, <1>3, ImageFinite

-----------------------------------------------------------------------------
(* Rows.                                                                   *)

\* A finite set of numbers, counted off in order.
LEMMA Ranks ==
  ASSUME NEW S \in SUBSET Nat, IsFiniteSet(S)
  PROVE  /\ Cardinality(S) \in Nat
         /\ \A k \in S : Cardinality({j \in S : j <= k}) \in 1..Cardinality(S)
         /\ \A i \in 1..Cardinality(S) : \E k \in S : Cardinality({j \in S : j <= k}) = i
         /\ \A k, l \in S :
              Cardinality({j \in S : j <= k}) = Cardinality({j \in S : j <= l}) => k = l
<1> DEFINE Upto(k) == {j \in S : j <= k}
           rank == [k \in S |-> Cardinality(Upto(k))]
           n == Cardinality(S)
<1>1. n \in Nat
  BY FS_CardinalityType
<1>2. \A k \in S : IsFiniteSet(Upto(k)) /\ Cardinality(Upto(k)) \in Nat /\ Cardinality(Upto(k)) <= n
  <2>1. \A k \in S : Upto(k) \in SUBSET S
    OBVIOUS
  <2>2. QED
    BY <2>1, FS_Subset, FS_CardinalityType
<1>3. \A k \in S : Cardinality(Upto(k)) # 0
  <2>1. \A k \in S : Upto(k) # {}
    OBVIOUS
  <2>2. QED
    BY <1>2, <2>1, FS_EmptySet
<1>4. \A k \in S : Cardinality(Upto(k)) \in 1..n
  BY <1>1, <1>2, <1>3
<1>5. ASSUME NEW k \in S, NEW l \in S, k < l
      PROVE  Cardinality(Upto(k)) < Cardinality(Upto(l))
  <2>1. Upto(k) \in SUBSET Upto(l) /\ l \in Upto(l) /\ l \notin Upto(k)
    <3>1. \A j \in S : j <= k => j <= l
      BY <1>5
    <3>2. ~ (l <= k) /\ l <= l
      BY <1>5
    <3>3. QED
      BY <3>1, <3>2
  <2>2. Cardinality(Upto(k)) <= Cardinality(Upto(l)) /\ Cardinality(Upto(k)) # Cardinality(Upto(l))
    <3>1. IsFiniteSet(Upto(l)) /\ Upto(l) # Upto(k)
      BY <1>2, <2>1
    <3> HIDE DEF Upto
    <3>2. QED
      BY <2>1, <3>1, FS_Subset
  <2>3. QED
    BY <1>2, <2>2
<1>6. ASSUME NEW k \in S, NEW l \in S, Cardinality(Upto(k)) = Cardinality(Upto(l))
      PROVE  k = l
  <2> DEFINE size(x) == Cardinality(Upto(x))
  <2>1. size(k) \in Nat /\ size(k) = size(l)
    BY <1>2, <1>6
  <2>2. (k < l => size(k) < size(l)) /\ (l < k => size(l) < size(k))
    BY <1>5
  <2>3. k \in Nat /\ l \in Nat
    OBVIOUS
  <2> HIDE DEF size
  <2>4. QED
    BY <2>1, <2>2, <2>3
<1>7. rank \in Injection(S, 1..n)
  BY <1>4, <1>6 DEF Injection, IsInjective
<1>8. IsFiniteSet(1..n) /\ Cardinality(1..n) = n
  BY <1>1, FS_Interval
<1>9. rank \in Surjection(S, 1..n)
  <2> HIDE DEF rank
  <2>1. QED
    BY <1>7, <1>8, FS_Injection
<1>10. \A i \in 1..n : \E k \in S : Cardinality(Upto(k)) = i
  BY <1>9 DEF Surjection
<1>11. QED
  BY <1>1, <1>4, <1>6, <1>10

\* SelectRows returns the rows with these numbers, and nothing else.
LEMMA SelectedRows ==
  ASSUME NEW rows, NEW S \in SUBSET Nat, IsFiniteSet(S)
  PROVE  LET selected == SelectRows(rows, S) IN
         /\ Cardinality(S) \in Nat /\ DOMAIN selected = 1..Cardinality(S)
         /\ selected \in Seq({rows[k] : k \in S})
         /\ \A i \in DOMAIN selected : \E k \in S : selected[i] = rows[k]
         /\ \A k \in S : \E i \in DOMAIN selected : selected[i] = rows[k]
<1> DEFINE n == Cardinality(S)
           Place(i) == CHOOSE k \in S : Cardinality({j \in S : j <= k}) = i
           selected == SelectRows(rows, S)
<1>1. n \in Nat
  BY Ranks
<1>2. selected = [i \in 1..n |-> rows[Place(i)]]
  BY DEF SelectRows
<1>3. \A i \in 1..n : Place(i) \in S
  BY Ranks
<1>4. ASSUME NEW k \in S
      PROVE  \E i \in 1..n : Place(i) = k
  <2> DEFINE i == Cardinality({j \in S : j <= k})
  <2>1. i \in 1..n
    BY Ranks
  <2>2. \A l \in S : Cardinality({j \in S : j <= l}) = i => l = k
    BY Ranks
  <2>3. Place(i) = k
    BY <2>2
  <2>4. QED
    BY <2>1, <2>3
<1> DEFINE T == {rows[k] : k \in S}
<1> HIDE DEF Place, n, selected
<1>5. \A i \in 1..n : selected[i] \in T
  BY <1>2, <1>3
<1>6. selected \in Seq(T)
  <2> HIDE DEF T
  <2>1. selected \in [1..n -> T]
    BY <1>2, <1>5
  <2>2. QED
    BY <1>1, <2>1
<1>7. DOMAIN selected = 1..n
  BY <1>2
<1>8. \A i \in DOMAIN selected : \E k \in S : selected[i] = rows[k]
  BY <1>2, <1>3
<1>9. \A k \in S : \E i \in DOMAIN selected : selected[i] = rows[k]
  BY <1>2, <1>4
<1>10. QED
  BY <1>1, <1>6, <1>7, <1>8, <1>9 DEF n, selected

\* The numbers of a sequence.
LEMMA Numbers ==
  ASSUME NEW rows, NEW T, rows \in Seq(T)
  PROVE  /\ IsFiniteSet(DOMAIN rows) /\ DOMAIN rows \in SUBSET (Nat \ {0})
         /\ \A S \in SUBSET DOMAIN rows : S \in SUBSET Nat /\ IsFiniteSet(S)
         /\ \A k \in DOMAIN rows : rows[k] \in T
         /\ ToSet(rows) = {rows[k] : k \in DOMAIN rows}
<1>1. DOMAIN rows = 1..Len(rows) /\ Len(rows) \in Nat
  OBVIOUS
<1>2. IsFiniteSet(DOMAIN rows)
  BY <1>1, FS_Interval
<1>3. QED
  BY <1>1, <1>2, FS_Subset DEF ToSet

IsCharge(c) ==
  /\ DOMAIN c = {"bucket", "native", "currency", "cost"}
  /\ c.currency \in FOCUS_VALID_CURRENCIES /\ c.cost \in Int
IsTag(t) ==
  /\ DOMAIN t = {"charge", "by", "index", "key", "value", "cost"}
  /\ t.index \in Nat \ {0} /\ t.cost \in Int
IsRow(r) ==
  /\ DOMAIN r = {"service", "period", "currency", "cost", "tags"}
  /\ r.cost \in Int /\ r.currency \in FOCUS_VALID_CURRENCIES /\ IsFiniteSet(DOMAIN r.tags)

\* What load_focus returns, and what the aggregator accepts of it.
AreRows(rows) ==
  /\ rows \in Seq(ToSet(rows)) /\ \A r \in ToSet(rows) : IsRow(r)
  /\ ~ MixesCurrencies(rows)

\* The rows of one bucket.
AreOf(rows, b) == AreRows(rows) /\ 1 \in DOMAIN rows /\ \A r \in ToSet(rows) : BucketOf(r) = b

\* What load_focus returns are rows with a known currency and an amount.
LEMMA LoadedRows ==
  ASSUME NEW e \in Exports
  PROVE  Load(e) \in Seq(ToSet(Load(e))) /\ \A r \in ToSet(Load(e)) : IsRow(r)
<1> DEFINE S == {k \in DOMAIN e : ~ Raises(e[k])}
           valid == SelectRows(e, S)
<1>1. e \in Seq(ToSet(e)) /\ \A r \in ToSet(e) :
        /\ DOMAIN r = {"service", "period", "currency", "cost", "tags"}
        /\ r.cost \in Int \cup {NotADecimal}
        /\ IsFiniteSet(DOMAIN r.tags)
  BY ExportsAssumption
<1>2. S \in SUBSET Nat /\ IsFiniteSet(S) /\ \A k \in S : e[k] \in ToSet(e)
  BY <1>1, Numbers
<1>3. /\ Cardinality(S) \in Nat /\ DOMAIN valid = 1..Cardinality(S)
      /\ \A i \in DOMAIN valid : \E k \in S : valid[i] = e[k]
  <2> HIDE DEF S
  <2>1. QED
    BY <1>2, SelectedRows
<1>4. Load(e) = [k \in DOMAIN valid |-> Parsed(valid[k])]
  BY DEF Load
<1>5. ASSUME NEW i \in DOMAIN valid
      PROVE  IsRow(Parsed(valid[i]))
  <2>1. PICK k \in S : valid[i] = e[k]
    BY <1>3
  <2>2. ~ Raises(e[k]) /\ e[k] \in ToSet(e)
    BY <1>2
  <2> DEFINE r == e[k]
  <2>3. DOMAIN r = {"service", "period", "currency", "cost", "tags"}
        /\ r.cost \in Int \cup {NotADecimal} /\ IsFiniteSet(DOMAIN r.tags)
    BY <1>1, <2>2
  <2>4. r.currency \in FOCUS_VALID_CURRENCIES
    BY <2>2 DEF Raises
  <2> HIDE DEF r
  <2>5. IsRow(Parsed(r))
    BY <2>3, <2>4 DEF IsRow, Parsed
  <2>6. QED
    BY <2>1, <2>5 DEF r
<1>6. Load(e) \in Seq(ToSet(Load(e)))
  <2> HIDE DEF valid, S
  <2>1. \A k \in DOMAIN Load(e) : Load(e)[k] \in ToSet(Load(e))
    BY DEF ToSet
  <2>2. Load(e) \in [1..Cardinality(S) -> ToSet(Load(e))]
    BY <1>3, <1>4, <2>1
  <2>3. QED
    BY <1>3, <2>2
<1>7. \A r \in ToSet(Load(e)) : IsRow(r)
  <2> HIDE DEF valid, S
  <2>1. QED
    BY <1>4, <1>5 DEF ToSet
<1>8. QED
  BY <1>6, <1>7

\* The buckets an ingest goes through are those of the rows.
LEMMA BucketsCover ==
  ASSUME NEW rows, rows \in Seq(ToSet(rows))
  PROVE  /\ Buckets(rows) \in Seq({BucketOf(r) : r \in ToSet(rows)})
         /\ ToSet(Buckets(rows)) = {BucketOf(r) : r \in ToSet(rows)}
<1> DEFINE S == {k \in DOMAIN rows : \A j \in 1..(k - 1) : BucketOf(rows[j]) # BucketOf(rows[k])}
           first == SelectRows(rows, S)
           B == {BucketOf(r) : r \in ToSet(rows)}
<1>1. S \in SUBSET Nat /\ IsFiniteSet(S) /\ \A k \in DOMAIN rows : rows[k] \in ToSet(rows)
  BY Numbers
<1>2. /\ Cardinality(S) \in Nat /\ DOMAIN first = 1..Cardinality(S)
      /\ \A i \in DOMAIN first : \E k \in S : first[i] = rows[k]
      /\ \A k \in S : \E i \in DOMAIN first : first[i] = rows[k]
  <2> HIDE DEF S
  <2>1. QED
    BY <1>1, SelectedRows
<1>3. Buckets(rows) = [i \in DOMAIN first |-> BucketOf(first[i])]
  BY DEF Buckets
<1>4. \A i \in DOMAIN first : BucketOf(first[i]) \in B
  BY <1>1, <1>2
<1>5. Buckets(rows) \in Seq(B)
  <2> HIDE DEF first, B, S
  <2>1. Buckets(rows) \in [1..Cardinality(S) -> B]
    BY <1>2, <1>3, <1>4
  <2>2. QED
    BY <1>2, <2>1
<1>6. ASSUME NEW b \in B
      PROVE  \E k \in S : BucketOf(rows[k]) = b
  <2> DEFINE K == {k \in DOMAIN rows : BucketOf(rows[k]) = b}
  <2>1. K \in SUBSET Nat /\ K # {}
    <3>1. PICK r \in ToSet(rows) : BucketOf(r) = b
      OBVIOUS
    <3>2. QED
      BY <3>1, Numbers
  <2>2. PICK k \in K : \A j \in K : k <= j
    <3> HIDE DEF K
    <3>1. QED
      BY <2>1, LeastExists
  <2>3. \A j \in 1..(k - 1) : j \in DOMAIN rows /\ j \notin K
    <3>1. DOMAIN rows = 1..Len(rows) /\ k \in 1..Len(rows) /\ Len(rows) \in Nat
      OBVIOUS
    <3> HIDE DEF K
    <3>2. QED
      BY <2>2, <3>1
  <2>4. k \in S
    BY <2>3
  <2>5. QED
    BY <2>4
<1>7. ASSUME NEW b \in B
      PROVE  \E i \in DOMAIN first : BucketOf(first[i]) = b
  BY <1>2, <1>6
<1>8. ToSet(Buckets(rows)) = B
  <2> HIDE DEF first, B, S
  <2>1. QED
    BY <1>3, <1>4, <1>7 DEF ToSet
<1>9. QED
  BY <1>5, <1>8

\* The rows of a bucket of the export.
LEMMA RowsOfBucket ==
  ASSUME NEW rows, AreRows(rows), NEW b, b \in {BucketOf(r) : r \in ToSet(rows)}
  PROVE  AreOf(RowsOf(rows, b), b)
<1> DEFINE S == {k \in DOMAIN rows : BucketOf(rows[k]) = b}
           mine == RowsOf(rows, b)
<1>1. rows \in Seq(ToSet(rows)) /\ (\A r \in ToSet(rows) : IsRow(r)) /\ ~ MixesCurrencies(rows)
  BY DEF AreRows
<1>2. S \in SUBSET Nat /\ IsFiniteSet(S) /\ \A k \in S : rows[k] \in ToSet(rows) /\ k \in DOMAIN rows
  BY <1>1, Numbers
<1>3. S # {}
  <2>1. PICK r \in ToSet(rows) : BucketOf(r) = b
    OBVIOUS
  <2>2. QED
    BY <2>1 DEF ToSet
<1>4. \A k \in S : BucketOf(rows[k]) = b
  OBVIOUS
<1>5. /\ Cardinality(S) \in Nat /\ DOMAIN mine = 1..Cardinality(S)
      /\ mine \in Seq({rows[k] : k \in S})
      /\ \A i \in DOMAIN mine : \E k \in S : mine[i] = rows[k]
      /\ \A k \in S : \E i \in DOMAIN mine : mine[i] = rows[k]
  <2>1. mine = SelectRows(rows, S)
    BY DEF RowsOf
  <2> HIDE DEF S, mine
  <2>2. QED
    BY <1>2, <2>1, SelectedRows
<1> HIDE DEF S, mine
<1>6. 1 \in DOMAIN mine
  BY <1>3, <1>5
<1>7. mine \in Seq(ToSet(mine))
  <2>1. \A k \in DOMAIN mine : mine[k] \in ToSet(mine)
    BY DEF ToSet
  <2>2. \A T : mine \in Seq(T) => mine \in [1..Len(mine) -> T] /\ Len(mine) \in Nat
    OBVIOUS
  <2>3. Len(mine) \in Nat /\ mine \in [1..Len(mine) -> ToSet(mine)]
    BY <1>5, <2>1, <2>2
  <2>4. QED
    BY <2>3
<1>8. \A r \in ToSet(mine) : \E k \in S : r = rows[k]
  BY <1>5 DEF ToSet
<1>9. (\A r \in ToSet(mine) : IsRow(r)) /\ \A r \in ToSet(mine) : BucketOf(r) = b
  BY <1>1, <1>2, <1>4, <1>8
<1>10. ~ MixesCurrencies(mine)
  <2>1. \A i, j \in DOMAIN mine : mine[i].currency = mine[j].currency
    <3>1. \A k, l \in DOMAIN rows :
            BucketOf(rows[k]) = BucketOf(rows[l]) => rows[k].currency = rows[l].currency
      BY <1>1 DEF MixesCurrencies
    <3>2. \A k, l \in S : rows[k].currency = rows[l].currency
      BY <1>2, <1>4, <3>1
    <3>3. SUFFICES ASSUME NEW i \in DOMAIN mine, NEW j \in DOMAIN mine
                   PROVE  mine[i].currency = mine[j].currency
      OBVIOUS
    <3>4. PICK k \in S : mine[i] = rows[k]
      BY <1>5
    <3>5. PICK l \in S : mine[j] = rows[l]
      BY <1>5
    <3>6. QED
      BY <3>2, <3>4, <3>5
  <2>2. QED
    BY <2>1 DEF MixesCurrencies
<1>11. QED
  BY <1>6, <1>7, <1>9, <1>10 DEF AreOf, AreRows, mine

\* The sum of the amounts of rows is an amount.
LEMMA SumType ==
  ASSUME NEW rows, AreRows(rows)
  PROVE  Sum(rows) \in Int
<1> DEFINE f == [k \in DOMAIN rows |-> rows[k].cost]
<1>1. IsFiniteSet(DOMAIN rows) /\ \A k \in DOMAIN rows : rows[k].cost \in Int
  BY Numbers DEF AreRows, IsRow
<1>2. DOMAIN f = DOMAIN rows /\ \A k \in DOMAIN rows : f[k] \in Int
  BY <1>1
<1>3. Sum(rows) = SumFunctionOnSet(f, DOMAIN rows)
  BY DEF Sum, SumFunction
<1> HIDE DEF f
<1>4. QED
  BY <1>1, <1>2, <1>3, SumInt

\* The charge of the rows of a bucket.
LEMMA ChargeIs ==
  ASSUME NEW rows, NEW b, AreOf(rows, b)
  PROVE  /\ IsCharge(Charge(rows)) /\ Charge(rows).bucket = b
         /\ Charge(rows).cost = Sum(rows) /\ Charge(rows).currency = rows[1].currency
<1>1. rows[1] \in ToSet(rows)
  BY DEF AreOf, ToSet
<1>2. BucketOf(rows[1]) = b /\ rows[1].currency \in FOCUS_VALID_CURRENCIES
  BY <1>1 DEF AreOf, AreRows, IsRow
<1>3. Sum(rows) \in Int
  BY SumType DEF AreOf
<1>4. QED
  BY <1>2, <1>3 DEF Charge, IsCharge

\* The tag rows of a charge.
LEMMA TagRowsAre ==
  ASSUME NEW rows, AreRows(rows), NEW id, NEW n
  PROVE  IsFiniteSet(TagRows(id, n, rows)) /\ \A t \in TagRows(id, n, rows) : IsTag(t) /\ t.charge = id
<1> DEFINE Tag(k, key) == [charge |-> id, by |-> n, index |-> k, key |-> key,
                            value |-> rows[k].tags[key], cost |-> rows[k].cost]
           tagsOf == [k \in DOMAIN rows |-> {Tag(k, key) : key \in DOMAIN rows[k].tags}]
<1>1. /\ IsFiniteSet(DOMAIN rows) /\ DOMAIN rows \in SUBSET (Nat \ {0})
      /\ \A k \in DOMAIN rows : rows[k].cost \in Int /\ IsFiniteSet(DOMAIN rows[k].tags)
  BY Numbers DEF AreRows, IsRow
<1>2. TagRows(id, n, rows) = UNION {tagsOf[k] : k \in DOMAIN rows}
  BY DEF TagRows
<1>3. ASSUME NEW k \in DOMAIN rows
      PROVE  IsFiniteSet(tagsOf[k])
  <2> DEFINE h == [key \in DOMAIN rows[k].tags |-> Tag(k, key)]
  <2>1. tagsOf[k] = {h[key] : key \in DOMAIN rows[k].tags}
    OBVIOUS
  <2> HIDE DEF h, tagsOf
  <2>2. QED
    BY <1>1, <2>1, ImageFinite
<1>4. IsFiniteSet(TagRows(id, n, rows))
  <2> HIDE DEF tagsOf
  <2>1. IsFiniteSet({tagsOf[k] : k \in DOMAIN rows})
    BY <1>1, ImageFinite
  <2>2. QED
    BY <1>2, <1>3, <2>1, FS_UNION
<1>5. ASSUME NEW t \in TagRows(id, n, rows)
      PROVE  IsTag(t) /\ t.charge = id
  <2>1. PICK k \in DOMAIN rows : \E key \in DOMAIN rows[k].tags : t = Tag(k, key)
    BY DEF TagRows
  <2>2. QED
    BY <1>1, <2>1 DEF IsTag
<1>6. QED
  BY <1>4, <1>5

-----------------------------------------------------------------------------
(* The invariant of the ingests, of a session's record i on charges c and  *)
(* tag rows t.                                                             *)

View(i, c) == Over(i.new, c)
SeenTags(i, t) == (t \ i.deleted) \cup i.inserted
BucketsOf(i) == {BucketOf(r) : r \in ToSet(i.rows)}

IngestFields == {"phase", "n", "rows", "todo", "found", "loaded", "seen", "new", "deleted",
                 "inserted", "raced"}

Types(i) ==
  /\ DOMAIN i = IngestFields
  /\ i.phase \in {"row", "delete", "update"} /\ i.n \in Nat
  /\ AreRows(i.rows)
  /\ i.todo \in Seq(BucketsOf(i))
  /\ i.raced \subseteq BucketsOf(i)

\* What a session writes is about buckets of its export, on charges that were there,
\* whose bucket it keeps, or on its own, whose ids it has not come to yet.
OwnBucket(i, c, id) == id \in DOMAIN View(i, c) /\ View(i, c)[id].bucket \in BucketsOf(i)
Writes(i, c) ==
  /\ IsFiniteSet(DOMAIN i.new) /\ IsFiniteSet(i.inserted)
  /\ \A id \in DOMAIN i.new :
       /\ IsCharge(i.new[id]) /\ i.new[id].bucket \in BucketsOf(i)
       /\ id \in DOMAIN c => i.new[id].bucket = c[id].bucket
       /\ id \notin DOMAIN c => id \in {i.n} \X Nat /\ id[2] > Len(i.todo)
  /\ \A x \in i.inserted : IsTag(x) /\ OwnBucket(i, c, x.charge)
  /\ \A x \in i.deleted : OwnBucket(i, c, x.charge)

\* Nothing committed has an id of the session.
OwnIds(i, c) == \A id \in DOMAIN c : id[1] # i.n

\* The charge of a bucket.
IsTheOne(c, b, id) == \A a \in DOMAIN c : c[a].bucket = b <=> a = id

\* The charge that was found is there and stays in its bucket; unless another session
\* commits the bucket it is the only one, as it was loaded, with the tag rows seen.
Found(i, c, t) ==
  i.phase # "row" =>
    /\ i.todo # <<>>
    /\ i.found \in DOMAIN View(i, c) /\ View(i, c)[i.found].bucket = Head(i.todo)
    /\ i.phase = "update" => \A x \in i.seen : x.charge = i.found
    /\ Head(i.todo) \notin i.raced =>
         /\ IsTheOne(View(i, c), Head(i.todo), i.found)
         /\ i.loaded = {View(i, c)[i.found]}
         /\ i.phase = "update" => i.seen = {x \in SeenTags(i, t) : x.charge = i.found}

\* Among charges c and tag rows t there is one charge of b, with what rows say.
Replaces(c, t, b, rows) ==
  \E id \in DOMAIN c :
    /\ IsTheOne(c, b, id)
    /\ c[id].cost = Sum(rows) /\ c[id].currency = rows[1].currency
    /\ \E n \in Nat : {x \in t : x.charge = id} = TagRows(id, n, rows)

\* What a session is done with it replaced, unless another committed the bucket.
Replaced(i, c, t) ==
  \A b \in BucketsOf(i) \ ToSet(i.todo) :
    /\ \E id \in DOMAIN View(i, c) : View(i, c)[id].bucket = b
    /\ b \notin i.raced => Replaces(View(i, c), SeenTags(i, t), b, RowsOf(i.rows, b))

SessionInv(i, c, t) ==
  Types(i) /\ Writes(i, c) /\ OwnIds(i, c) /\ Found(i, c, t) /\ Replaced(i, c, t)

\* What is stored: charges with an id of an ingest that began, and tag rows of charges.
Stored(c, t) ==
  /\ IsFiniteSet(DOMAIN c) /\ IsFiniteSet(t)
  /\ \A id \in DOMAIN c : IsCharge(c[id]) /\ id \in Nat \X Nat
  /\ \A x \in t : IsTag(x) /\ x.charge \in DOMAIN c

\* Charges c and tag rows t agree with c2 and t2 on bucket b.
SameFor(c, t, c2, t2, b) ==
  /\ \A id \in DOMAIN c : c[id].bucket = b => id \in DOMAIN c2 /\ c2[id] = c[id]
  /\ \A id \in DOMAIN c2 : c2[id].bucket = b => id \in DOMAIN c /\ c[id].bucket = b
  /\ \A id \in DOMAIN c : c[id].bucket = b =>
       {x \in t : x.charge = id} = {x \in t2 : x.charge = id}

-----------------------------------------------------------------------------
\* Where two states agree on a bucket the one replaces as the other does.
LEMMA SameReplaces ==
  ASSUME NEW c, NEW t, NEW c2, NEW t2, NEW b, NEW rows,
         SameFor(c, t, c2, t2, b), Replaces(c, t, b, rows)
  PROVE  Replaces(c2, t2, b, rows)
<1>1. PICK id \in DOMAIN c :
        /\ IsTheOne(c, b, id)
        /\ c[id].cost = Sum(rows) /\ c[id].currency = rows[1].currency
        /\ \E n \in Nat : {x \in t : x.charge = id} = TagRows(id, n, rows)
  BY DEF Replaces
<1>2. c[id].bucket = b
  BY <1>1 DEF IsTheOne
<1>3. id \in DOMAIN c2 /\ c2[id] = c[id] /\ {x \in t : x.charge = id} = {x \in t2 : x.charge = id}
  BY <1>2 DEF SameFor
<1>4. IsTheOne(c2, b, id)
  <2>1. ASSUME NEW a \in DOMAIN c2, c2[a].bucket = b
        PROVE  a = id
    <3>1. a \in DOMAIN c /\ c[a].bucket = b
      BY <2>1 DEF SameFor
    <3>2. QED
      BY <1>1, <3>1 DEF IsTheOne
  <2>2. c2[id].bucket = b
    BY <1>2, <1>3
  <2>3. QED
    BY <2>1, <2>2 DEF IsTheOne
<1>5. QED
  BY <1>1, <1>3, <1>4 DEF Replaces

\* Ids, charges and tag rows a session sees.
Sees(i, c, t) ==
  /\ DOMAIN View(i, c) = DOMAIN i.new \cup DOMAIN c
  /\ \A id \in DOMAIN i.new : View(i, c)[id] = i.new[id]
  /\ \A id \in DOMAIN c \ DOMAIN i.new : View(i, c)[id] = c[id]
  /\ \A id \in DOMAIN c : View(i, c)[id].bucket = c[id].bucket
  /\ \A id \in DOMAIN View(i, c) \ DOMAIN c : id[1] = i.n
  /\ IsFiniteSet(DOMAIN View(i, c)) /\ IsFiniteSet(SeenTags(i, t))
  /\ \A id \in DOMAIN View(i, c) : IsCharge(View(i, c)[id]) /\ id \in Nat \X Nat
  /\ \A x \in SeenTags(i, t) : IsTag(x) /\ x.charge \in DOMAIN View(i, c)

\* What a session sees is what it wrote over what is stored.
LEMMA ViewIs ==
  ASSUME NEW i, NEW c, NEW t, Stored(c, t), SessionInv(i, c, t)
  PROVE  Sees(i, c, t)
<1>0. Types(i) /\ Writes(i, c) /\ OwnIds(i, c)
  BY DEF SessionInv
<1>1. /\ DOMAIN View(i, c) = DOMAIN i.new \cup DOMAIN c
      /\ \A id \in DOMAIN i.new : View(i, c)[id] = i.new[id]
      /\ \A id \in DOMAIN c \ DOMAIN i.new : View(i, c)[id] = c[id]
  BY DEF View, Over
<1>2. \A id \in DOMAIN c : View(i, c)[id].bucket = c[id].bucket
  BY <1>0, <1>1 DEF Writes
<1>3. \A id \in DOMAIN View(i, c) \ DOMAIN c : id[1] = i.n
  BY <1>0, <1>1 DEF Writes
<1>4. IsFiniteSet(DOMAIN View(i, c)) /\ IsFiniteSet(SeenTags(i, t))
  <2>1. IsFiniteSet(t \ i.deleted)
    BY FS_Difference DEF Stored
  <2>2. QED
    <3>1. IsFiniteSet(DOMAIN i.new) /\ IsFiniteSet(i.inserted) /\ IsFiniteSet(DOMAIN c)
      BY <1>0 DEF Writes, Stored
    <3>2. IsFiniteSet(DOMAIN i.new \cup DOMAIN c)
      BY <3>1, FS_Union
    <3>3. IsFiniteSet((t \ i.deleted) \cup i.inserted)
      BY <2>1, <3>1, FS_Union
    <3>4. QED
      BY <1>1, <3>2, <3>3 DEF SeenTags
<1>5. \A id \in DOMAIN View(i, c) : IsCharge(View(i, c)[id]) /\ id \in Nat \X Nat
  BY <1>0, <1>1 DEF Writes, Stored, Types
<1>6. \A x \in SeenTags(i, t) : IsTag(x) /\ x.charge \in DOMAIN View(i, c)
  BY <1>0, <1>1 DEF Writes, OwnBucket, Stored, SeenTags
<1>7. QED
  BY <1>1, <1>2, <1>3, <1>4, <1>5, <1>6 DEF Sees

-----------------------------------------------------------------------------
(* The steps of a session, on its record.                                  *)

\* The bucket a session is at, and the ones after it.
LEMMA Todo ==
  ASSUME NEW i, Types(i), i.todo # <<>>
  PROVE  /\ Head(i.todo) \in BucketsOf(i) /\ Tail(i.todo) \in Seq(BucketsOf(i))
         /\ Len(i.todo) \in Nat /\ Len(i.todo) > Len(Tail(i.todo)) /\ Len(Tail(i.todo)) \in Nat
         /\ ToSet(i.todo) \subseteq ToSet(Tail(i.todo)) \cup {Head(i.todo)}
         /\ AreOf(RowsOf(i.rows, Head(i.todo)), Head(i.todo))
<1>1. i.todo \in Seq(BucketsOf(i))
  BY DEF Types
<1>2. /\ Head(i.todo) \in BucketsOf(i) /\ Tail(i.todo) \in Seq(BucketsOf(i))
      /\ Len(i.todo) \in Nat /\ Len(i.todo) > Len(Tail(i.todo)) /\ Len(Tail(i.todo)) \in Nat
  BY <1>1
<1>3. \A k \in 1..Len(i.todo) : k = 1 \/ k - 1 \in 1..Len(Tail(i.todo))
  BY <1>1
<1>4. \A k \in 1..Len(Tail(i.todo)) : Tail(i.todo)[k] = i.todo[k + 1]
  BY <1>1
<1>5. \A k \in 1..Len(i.todo) : i.todo[k] \in ToSet(Tail(i.todo)) \cup {Head(i.todo)}
  <2>1. SUFFICES ASSUME NEW k \in 1..Len(i.todo), k # 1
                 PROVE  i.todo[k] \in ToSet(Tail(i.todo))
    BY <1>1
  <2>2. k - 1 \in DOMAIN Tail(i.todo)
    BY <1>2, <1>3, <2>1
  <2>3. Tail(i.todo)[k - 1] = i.todo[k]
    BY <1>1, <1>3, <1>4, <2>1
  <2>4. QED
    BY <2>2, <2>3 DEF ToSet
<1>6. ToSet(i.todo) \subseteq ToSet(Tail(i.todo)) \cup {Head(i.todo)}
  <2>1. DOMAIN i.todo = 1..Len(i.todo)
    BY <1>1
  <2>2. QED
    BY <1>5, <2>1 DEF ToSet
<1>7. AreOf(RowsOf(i.rows, Head(i.todo)), Head(i.todo))
  BY <1>2, RowsOfBucket DEF Types, BucketsOf
<1>8. QED
  BY <1>2, <1>6, <1>7

\* A session that replaced the bucket it is at, and touched no other, goes to the next.
LEMMA ReplacedNext ==
  ASSUME NEW i, NEW c, NEW t, NEW j, Types(i), Replaced(i, c, t), i.todo # <<>>,
         j.rows = i.rows, j.raced = i.raced, j.todo = Tail(i.todo),
         \A b : b # Head(i.todo) =>
           SameFor(View(i, c), SeenTags(i, t), View(j, c), SeenTags(j, t), b),
         \E id \in DOMAIN View(j, c) : View(j, c)[id].bucket = Head(i.todo),
         Head(i.todo) \notin i.raced =>
           Replaces(View(j, c), SeenTags(j, t), Head(i.todo), RowsOf(i.rows, Head(i.todo)))
  PROVE  Replaced(j, c, t)
<1>1. BucketsOf(j) = BucketsOf(i)
  BY DEF BucketsOf
<1>2. SUFFICES ASSUME NEW b \in BucketsOf(i) \ ToSet(Tail(i.todo))
               PROVE  /\ \E id \in DOMAIN View(j, c) : View(j, c)[id].bucket = b
                      /\ b \notin i.raced =>
                           Replaces(View(j, c), SeenTags(j, t), b, RowsOf(i.rows, b))
  BY <1>1 DEF Replaced
<1>3. CASE b = Head(i.todo)
  BY <1>3
<1>4. CASE b # Head(i.todo)
  <2>1. b \in BucketsOf(i) \ ToSet(i.todo)
    BY <1>2, <1>4, Todo
  <2>2. /\ \E id \in DOMAIN View(i, c) : View(i, c)[id].bucket = b
        /\ b \notin i.raced => Replaces(View(i, c), SeenTags(i, t), b, RowsOf(i.rows, b))
    BY <2>1 DEF Replaced
  <2>3. SameFor(View(i, c), SeenTags(i, t), View(j, c), SeenTags(j, t), b)
    BY <1>4
  <2>4. \E id \in DOMAIN View(j, c) : View(j, c)[id].bucket = b
    BY <2>2, <2>3 DEF SameFor
  <2>5. QED
    BY <2>2, <2>3, <2>4, SameReplaces
<1>5. QED
  BY <1>3, <1>4

\* From i to j a charge is inserted.
Inserts(i, c, j, id0, R) ==
  /\ i.todo # <<>> /\ R = RowsOf(i.rows, Head(i.todo)) /\ id0 = <<i.n, Len(i.todo)>>
  /\ \A id \in DOMAIN View(i, c) : View(i, c)[id].bucket # Head(i.todo)
  /\ DOMAIN j = IngestFields /\ j.phase = "row" /\ j.n = i.n /\ j.rows = i.rows
  /\ j.todo = Tail(i.todo) /\ j.new = Put(i.new, id0, Charge(R))
  /\ j.inserted = i.inserted \cup TagRows(id0, i.n, R) /\ j.deleted = i.deleted
  /\ j.raced = i.raced

\* InsertCharge preserves the invariant of its session.
LEMMA InsertStep ==
  ASSUME NEW i, NEW c, NEW t, Stored(c, t), SessionInv(i, c, t),
         NEW j, NEW id0, NEW R, Inserts(i, c, j, id0, R)
  PROVE  SessionInv(j, c, t)
<1> DEFINE b0 == Head(i.todo)
           new0 == Charge(R)
           tags0 == TagRows(id0, i.n, R)
<1>a. /\ i.todo # <<>> /\ R = RowsOf(i.rows, b0) /\ id0 = <<i.n, Len(i.todo)>>
      /\ \A id \in DOMAIN View(i, c) : View(i, c)[id].bucket # b0
  BY DEF Inserts
<1>b. /\ DOMAIN j = IngestFields /\ j.phase = "row" /\ j.n = i.n /\ j.rows = i.rows
      /\ j.todo = Tail(i.todo) /\ j.deleted = i.deleted /\ j.raced = i.raced
      /\ j.new = Put(i.new, id0, new0) /\ j.inserted = i.inserted \cup tags0
  BY DEF Inserts
<1>1. Types(i) /\ Writes(i, c) /\ OwnIds(i, c) /\ Replaced(i, c, t) /\ i.n \in Nat
  BY DEF SessionInv, Types
<1>2. /\ b0 \in BucketsOf(i) /\ Tail(i.todo) \in Seq(BucketsOf(i))
      /\ Len(i.todo) \in Nat /\ Len(i.todo) > Len(Tail(i.todo)) /\ Len(Tail(i.todo)) \in Nat
      /\ AreOf(R, b0)
  BY <1>1, <1>a, Todo
<1>3. /\ IsCharge(new0) /\ new0.bucket = b0 /\ new0.cost = Sum(R) /\ new0.currency = R[1].currency
      /\ IsFiniteSet(tags0) /\ \A x \in tags0 : IsTag(x) /\ x.charge = id0
  <2>1. AreRows(R)
    BY <1>2 DEF AreOf
  <2>2. QED
    BY <1>2, <2>1, ChargeIs, TagRowsAre
<1> HIDE DEF tags0, new0, b0
<1>s. Sees(i, c, t)
  BY ViewIs
<1>5. /\ DOMAIN View(i, c) = DOMAIN i.new \cup DOMAIN c
      /\ \A id \in DOMAIN i.new : View(i, c)[id] = i.new[id]
      /\ \A id \in DOMAIN c \ DOMAIN i.new : View(i, c)[id] = c[id]
      /\ \A x \in SeenTags(i, t) : IsTag(x) /\ x.charge \in DOMAIN View(i, c)
  BY <1>s DEF Sees
<1>6. id0 \notin DOMAIN View(i, c)
  <2>1. id0 \notin DOMAIN c
    BY <1>1, <1>a DEF OwnIds
  <2>2. id0 \notin DOMAIN i.new
    <3>1. ~ (id0[2] > Len(i.todo))
      BY <1>2, <1>a
    <3>2. QED
      BY <1>1, <2>1, <3>1 DEF Writes
  <2>3. QED
    BY <1>5, <2>1, <2>2
<1>7. /\ DOMAIN j.new = DOMAIN i.new \cup {id0} /\ j.new[id0] = new0
      /\ \A id \in DOMAIN i.new : j.new[id] = i.new[id]
  <2>1. \A id \in DOMAIN i.new : id # id0
    BY <1>5, <1>6
  <2>2. QED
    BY <1>b, <2>1 DEF Put
<1>8. /\ DOMAIN View(j, c) = DOMAIN View(i, c) \cup {id0}
      /\ View(j, c)[id0] = new0
      /\ \A id \in DOMAIN View(i, c) : View(j, c)[id] = View(i, c)[id]
  <2>1. /\ DOMAIN View(j, c) = DOMAIN j.new \cup DOMAIN c
        /\ \A id \in DOMAIN j.new : View(j, c)[id] = j.new[id]
        /\ \A id \in DOMAIN c \ DOMAIN j.new : View(j, c)[id] = c[id]
    BY DEF View, Over
  <2>2. QED
    BY <1>5, <1>6, <1>7, <2>1
<1>9. SeenTags(j, t) = SeenTags(i, t) \cup tags0
  BY <1>b DEF SeenTags
<1>10. BucketsOf(j) = BucketsOf(i)
  BY <1>b DEF BucketsOf
<1>11. Types(j)
  BY <1>1, <1>2, <1>b, <1>10 DEF Types
<1>12. Writes(j, c)
  <2>1. IsFiniteSet(DOMAIN j.new) /\ IsFiniteSet(j.inserted)
    <3>1. IsFiniteSet(DOMAIN i.new) /\ IsFiniteSet(i.inserted)
      BY <1>1 DEF Writes
    <3>2. IsFiniteSet(DOMAIN i.new \cup {id0}) /\ IsFiniteSet(i.inserted \cup tags0)
      BY <1>3, <3>1, FS_Union, FS_AddElement
    <3>3. QED
      BY <1>b, <1>7, <3>2
  <2>2. ASSUME NEW id \in DOMAIN j.new
        PROVE  /\ IsCharge(j.new[id]) /\ j.new[id].bucket \in BucketsOf(j)
               /\ id \in DOMAIN c => j.new[id].bucket = c[id].bucket
               /\ id \notin DOMAIN c => id \in {j.n} \X Nat /\ id[2] > Len(j.todo)
    <3>1. CASE id = id0
      <4>1. id \notin DOMAIN c
        BY <1>5, <1>6, <3>1
      <4>2. id \in {j.n} \X Nat /\ id[2] = Len(i.todo)
        BY <1>2, <1>a, <1>b, <3>1
      <4>3. QED
        BY <1>2, <1>3, <1>b, <1>7, <1>10, <3>1, <4>1, <4>2
    <3>2. CASE id # id0
      <4>1. id \in DOMAIN i.new /\ j.new[id] = i.new[id]
        BY <1>7, <3>2
      <4>2. /\ IsCharge(i.new[id]) /\ i.new[id].bucket \in BucketsOf(i)
            /\ id \in DOMAIN c => i.new[id].bucket = c[id].bucket
            /\ id \notin DOMAIN c => id \in {i.n} \X Nat /\ id[2] > Len(i.todo)
        BY <1>1, <4>1 DEF Writes
      <4>3. id \notin DOMAIN c => id[2] > Len(j.todo)
        <5>1. SUFFICES ASSUME id \notin DOMAIN c
                       PROVE  id[2] > Len(j.todo)
          OBVIOUS
        <5>2. id[2] \in Nat /\ id[2] > Len(i.todo)
          BY <4>2, <5>1
        <5>3. QED
          BY <1>2, <1>b, <5>2
      <4>4. QED
        BY <1>b, <1>10, <4>1, <4>2, <4>3
    <3>3. QED
      BY <3>1, <3>2
  <2>3. ASSUME NEW id, OwnBucket(i, c, id)
        PROVE  OwnBucket(j, c, id)
    BY <1>8, <1>10, <2>3 DEF OwnBucket
  <2>4. OwnBucket(j, c, id0)
    BY <1>2, <1>3, <1>8, <1>10 DEF OwnBucket
  <2>5. \A x \in j.inserted : IsTag(x) /\ OwnBucket(j, c, x.charge)
    BY <1>1, <1>3, <1>b, <2>3, <2>4 DEF Writes
  <2>6. \A x \in j.deleted : OwnBucket(j, c, x.charge)
    BY <1>1, <1>b, <2>3 DEF Writes
  <2>7. QED
    BY <2>1, <2>2, <2>5, <2>6 DEF Writes
<1>13. OwnIds(j, c)
  BY <1>1, <1>b DEF OwnIds
<1>14. Found(j, c, t)
  BY <1>b DEF Found
<1>15. ASSUME NEW b, b # b0
       PROVE  SameFor(View(i, c), SeenTags(i, t), View(j, c), SeenTags(j, t), b)
  <2>1. \A id \in DOMAIN View(i, c) : {x \in SeenTags(i, t) : x.charge = id} = {x \in SeenTags(j, t) : x.charge = id}
    BY <1>3, <1>6, <1>9
  <2>2. QED
    BY <1>3, <1>8, <1>15, <2>1 DEF SameFor
<1>16. Replaces(View(j, c), SeenTags(j, t), b0, R)
  <2>1. IsTheOne(View(j, c), b0, id0)
    BY <1>a, <1>3, <1>6, <1>8 DEF IsTheOne
  <2>2. {x \in SeenTags(j, t) : x.charge = id0} = TagRows(id0, i.n, R)
    BY <1>3, <1>5, <1>6, <1>9 DEF tags0
  <2>3. QED
    BY <1>1, <1>3, <1>8, <2>1, <2>2 DEF Replaces
<1>17. Replaced(j, c, t)
  <2>1. \E id \in DOMAIN View(j, c) : View(j, c)[id].bucket = b0
    BY <1>3, <1>8
  <2>2. QED
    BY <1>a, <1>1, <1>b, <1>15, <1>16, <2>1, ReplacedNext DEF b0
<1>18. QED
  BY <1>b, <1>11, <1>12, <1>13, <1>14, <1>17 DEF SessionInv

\* From i to j the charge that was found is updated to row.
Updates(i, c, j, id, row, R) ==
  LET loaded == CHOOSE x \in i.loaded : TRUE
      charge == Charge(R) IN
  /\ i.phase = "update" /\ id = i.found /\ R = RowsOf(i.rows, Head(i.todo))
  /\ row = [View(i, c)[id] EXCEPT
              !.cost = IF charge.cost = loaded.cost THEN @ ELSE charge.cost,
              !.currency = IF charge.currency = loaded.currency THEN @ ELSE charge.currency]
  /\ DOMAIN j = IngestFields /\ j.phase = "row" /\ j.n = i.n /\ j.rows = i.rows
  /\ j.todo = Tail(i.todo) /\ j.raced = i.raced
  /\ j.new = IF row # View(i, c)[id] THEN Put(i.new, id, row) ELSE i.new
  /\ j.deleted = i.deleted \cup i.seen
  /\ j.inserted = (i.inserted \ i.seen) \cup TagRows(id, i.n, R)

\* The row that is written has the amount and the currency of the new rows.
LEMMA UpdatedRow ==
  ASSUME NEW i, NEW c, NEW t, Stored(c, t), SessionInv(i, c, t),
         NEW j, NEW id, NEW row, NEW R, Updates(i, c, j, id, row, R)
  PROVE  /\ IsCharge(row) /\ row.bucket = View(i, c)[id].bucket
         /\ Head(i.todo) \notin i.raced => row.cost = Sum(R) /\ row.currency = R[1].currency
<1> DEFINE loaded == CHOOSE x \in i.loaded : TRUE
           charge == Charge(R)
           was == View(i, c)[id]
<1>1. /\ i.phase = "update" /\ id = i.found /\ R = RowsOf(i.rows, Head(i.todo))
      /\ row = [was EXCEPT
              !.cost = IF charge.cost = loaded.cost THEN @ ELSE charge.cost,
              !.currency = IF charge.currency = loaded.currency THEN @ ELSE charge.currency]
  BY DEF Updates
<1>2. /\ i.todo # <<>> /\ id \in DOMAIN View(i, c)
      /\ Head(i.todo) \notin i.raced => i.loaded = {was}
  BY <1>1 DEF SessionInv, Found
<1>s. Sees(i, c, t)
  BY ViewIs
<1>3. IsCharge(was)
  BY <1>2, <1>s DEF Sees
<1>4. /\ IsCharge(charge) /\ charge.cost = Sum(R) /\ charge.currency = R[1].currency
  BY <1>1, <1>2, Todo, ChargeIs DEF SessionInv
<1>5. Head(i.todo) \notin i.raced => loaded = was
  BY <1>2
<1> HIDE DEF was, charge, loaded
<1>6. IsCharge(row) /\ row.bucket = was.bucket
  BY <1>1, <1>3, <1>4 DEF IsCharge
<1>7. /\ row.cost = IF charge.cost = loaded.cost THEN was.cost ELSE charge.cost
      /\ row.currency = IF charge.currency = loaded.currency THEN was.currency ELSE charge.currency
  BY <1>1, <1>3 DEF IsCharge
<1>8. QED
  BY <1>4, <1>5, <1>6, <1>7 DEF was

\* UpdateCharge preserves the invariant of its session.
LEMMA UpdateStep ==
  ASSUME NEW i, NEW c, NEW t, Stored(c, t), SessionInv(i, c, t),
         NEW j, NEW id, NEW row, NEW R, Updates(i, c, j, id, row, R)
  PROVE  SessionInv(j, c, t)
<1> DEFINE b0 == Head(i.todo)
           tags0 == TagRows(id, i.n, R)
<1>a. i.phase = "update" /\ id = i.found /\ R = RowsOf(i.rows, b0)
  BY DEF Updates
<1>b. /\ DOMAIN j = IngestFields /\ j.phase = "row" /\ j.n = i.n /\ j.rows = i.rows
      /\ j.todo = Tail(i.todo) /\ j.raced = i.raced
      /\ j.new = IF row # View(i, c)[id] THEN Put(i.new, id, row) ELSE i.new
      /\ j.deleted = i.deleted \cup i.seen /\ j.inserted = (i.inserted \ i.seen) \cup tags0
  BY DEF Updates
<1>1. Types(i) /\ Writes(i, c) /\ OwnIds(i, c) /\ Replaced(i, c, t) /\ i.n \in Nat
  BY DEF SessionInv, Types
<1>c. /\ i.todo # <<>>
      /\ id \in DOMAIN View(i, c) /\ View(i, c)[id].bucket = b0
      /\ \A x \in i.seen : x.charge = id
      /\ b0 \notin i.raced =>
           IsTheOne(View(i, c), b0, id) /\ i.seen = {x \in SeenTags(i, t) : x.charge = id}
  BY <1>a DEF SessionInv, Found
<1>2. /\ b0 \in BucketsOf(i) /\ Tail(i.todo) \in Seq(BucketsOf(i))
      /\ Len(i.todo) \in Nat /\ Len(i.todo) > Len(Tail(i.todo)) /\ Len(Tail(i.todo)) \in Nat
      /\ AreOf(R, b0)
  BY <1>1, <1>a, <1>c, Todo
<1>3. IsFiniteSet(tags0) /\ \A x \in tags0 : IsTag(x) /\ x.charge = id
  BY <1>2, TagRowsAre DEF AreOf
<1>4. /\ IsCharge(row) /\ row.bucket = b0
      /\ b0 \notin i.raced => row.cost = Sum(R) /\ row.currency = R[1].currency
  BY <1>c, UpdatedRow
<1> HIDE DEF tags0, b0
<1>s. Sees(i, c, t)
  BY ViewIs
<1>5. /\ DOMAIN View(i, c) = DOMAIN i.new \cup DOMAIN c
      /\ \A a \in DOMAIN i.new : View(i, c)[a] = i.new[a]
      /\ \A a \in DOMAIN c \ DOMAIN i.new : View(i, c)[a] = c[a]
      /\ \A a \in DOMAIN c : View(i, c)[a].bucket = c[a].bucket
      /\ \A x \in SeenTags(i, t) : IsTag(x) /\ x.charge \in DOMAIN View(i, c)
  <2>1. /\ DOMAIN View(i, c) = DOMAIN i.new \cup DOMAIN c
        /\ \A x \in SeenTags(i, t) : IsTag(x) /\ x.charge \in DOMAIN View(i, c)
    BY <1>s DEF Sees
  <2>2. \A a \in DOMAIN i.new : View(i, c)[a] = i.new[a]
    BY <1>s DEF Sees
  <2>3. \A a \in DOMAIN c \ DOMAIN i.new : View(i, c)[a] = c[a]
    BY <1>s DEF Sees
  <2>4. \A a \in DOMAIN c : View(i, c)[a].bucket = c[a].bucket
    BY <1>1, <2>2, <2>3 DEF Writes
  <2>5. QED
    BY <2>1, <2>2, <2>3, <2>4
<1>6. /\ DOMAIN i.new \subseteq DOMAIN j.new /\ DOMAIN j.new \subseteq DOMAIN i.new \cup {id}
      /\ \A a \in DOMAIN j.new : a # id => j.new[a] = i.new[a]
      /\ id \in DOMAIN j.new => j.new[id] = row
      /\ id \notin DOMAIN j.new => row = View(i, c)[id]
  <2>1. CASE row = View(i, c)[id]
    BY <1>b, <1>5, <2>1
  <2>2. CASE row # View(i, c)[id]
    BY <1>b, <2>2 DEF Put
  <2>3. QED
    BY <2>1, <2>2
<1>7. /\ DOMAIN View(j, c) = DOMAIN j.new \cup DOMAIN c
      /\ \A a \in DOMAIN j.new : View(j, c)[a] = j.new[a]
      /\ \A a \in DOMAIN c \ DOMAIN j.new : View(j, c)[a] = c[a]
  <2>1. View(j, c) = [a \in DOMAIN j.new \cup DOMAIN c |-> IF a \in DOMAIN j.new THEN j.new[a] ELSE c[a]]
    BY DEF View, Over
  <2>2. QED
    BY <2>1
<1>8. /\ DOMAIN View(j, c) = DOMAIN View(i, c)
      /\ View(j, c)[id] = row
      /\ \A a \in DOMAIN View(i, c) : a # id => View(j, c)[a] = View(i, c)[a]
  <2>1. DOMAIN View(j, c) = DOMAIN View(i, c)
    BY <1>c, <1>5, <1>6, <1>7
  <2>2. View(j, c)[id] = row
    BY <1>c, <1>5, <1>6, <1>7
  <2>3. ASSUME NEW a \in DOMAIN View(i, c), a # id
        PROVE  View(j, c)[a] = View(i, c)[a]
    BY <1>5, <1>6, <1>7, <2>3
  <2>4. QED
    BY <2>1, <2>2, <2>3
<1>9. SeenTags(j, t) = (SeenTags(i, t) \ i.seen) \cup tags0
  BY <1>b DEF SeenTags
<1>10. BucketsOf(j) = BucketsOf(i)
  BY <1>b DEF BucketsOf
<1>11. Types(j)
  BY <1>1, <1>2, <1>b, <1>10 DEF Types
<1>12. Writes(j, c)
  <2>1. IsFiniteSet(DOMAIN j.new) /\ IsFiniteSet(j.inserted)
    <3>1. IsFiniteSet(DOMAIN i.new) /\ IsFiniteSet(i.inserted)
      BY <1>1 DEF Writes
    <3>2. IsFiniteSet(DOMAIN i.new \cup {id})
      BY <3>1, FS_AddElement
    <3>3. IsFiniteSet(i.inserted \ i.seen)
      BY <3>1, FS_Difference
    <3>4. IsFiniteSet((i.inserted \ i.seen) \cup tags0)
      BY <1>3, <3>3, FS_Union
    <3>5. IsFiniteSet(DOMAIN j.new)
      BY <1>6, <3>2, FS_Subset
    <3>6. QED
      BY <1>b, <3>4, <3>5
  <2>2. ASSUME NEW a \in DOMAIN j.new
        PROVE  /\ IsCharge(j.new[a]) /\ j.new[a].bucket \in BucketsOf(j)
               /\ a \in DOMAIN c => j.new[a].bucket = c[a].bucket
               /\ a \notin DOMAIN c => a \in {j.n} \X Nat /\ a[2] > Len(j.todo)
    <3>0. \A a1 \in DOMAIN i.new :
            /\ IsCharge(i.new[a1]) /\ i.new[a1].bucket \in BucketsOf(i)
            /\ a1 \in DOMAIN c => i.new[a1].bucket = c[a1].bucket
            /\ a1 \notin DOMAIN c => a1 \in {i.n} \X Nat /\ a1[2] > Len(i.todo)
      BY <1>1 DEF Writes
    <3>1. /\ IsCharge(j.new[a]) /\ j.new[a].bucket \in BucketsOf(j)
          /\ a \in DOMAIN c => j.new[a].bucket = c[a].bucket
      <4>1. CASE a = id
        BY <1>c, <1>2, <1>4, <1>5, <1>6, <1>10, <4>1
      <4>2. CASE a # id
        BY <1>6, <1>10, <3>0, <4>2
      <4>3. QED
        BY <4>1, <4>2
    <3>2. SUFFICES ASSUME a \notin DOMAIN c
                   PROVE  a \in {j.n} \X Nat /\ a[2] > Len(j.todo)
      BY <3>1
    <3>3. a \in DOMAIN i.new
      BY <1>c, <1>5, <1>6, <3>2
    <3>4. a \in {i.n} \X Nat /\ a[2] > Len(i.todo) /\ a[2] \in Nat
      BY <3>0, <3>2, <3>3
    <3>5. a[2] > Len(Tail(i.todo))
      BY <1>2, <3>4
    <3>6. QED
      BY <1>b, <3>4, <3>5
  <2>3. ASSUME NEW a, OwnBucket(i, c, a)
        PROVE  OwnBucket(j, c, a)
    BY <1>c, <1>2, <1>4, <1>8, <1>10, <2>3 DEF OwnBucket
  <2>4. OwnBucket(j, c, id)
    BY <1>c, <1>2, <1>4, <1>8, <1>10 DEF OwnBucket
  <2>5. \A x \in j.inserted : IsTag(x) /\ OwnBucket(j, c, x.charge)
    BY <1>1, <1>3, <1>b, <2>3, <2>4 DEF Writes
  <2>6. \A x \in j.deleted : OwnBucket(j, c, x.charge)
    BY <1>1, <1>b, <1>c, <2>3, <2>4 DEF Writes
  <2>7. QED
    BY <2>1, <2>2, <2>5, <2>6 DEF Writes
<1>13. OwnIds(j, c)
  BY <1>1, <1>b DEF OwnIds
<1>14. Found(j, c, t)
  BY <1>b DEF Found
<1>15. ASSUME NEW b, b # b0
       PROVE  SameFor(View(i, c), SeenTags(i, t), View(j, c), SeenTags(j, t), b)
  <2>1. \A a \in DOMAIN View(i, c) : a # id =>
          {x \in SeenTags(i, t) : x.charge = a} = {x \in SeenTags(j, t) : x.charge = a}
    BY <1>3, <1>c, <1>9
  <2>2. QED
    BY <1>c, <1>4, <1>8, <1>15, <2>1 DEF SameFor
<1>16. b0 \notin i.raced => Replaces(View(j, c), SeenTags(j, t), b0, R)
  <2>1. SUFFICES ASSUME b0 \notin i.raced
                 PROVE  Replaces(View(j, c), SeenTags(j, t), b0, R)
    OBVIOUS
  <2>2. IsTheOne(View(i, c), b0, id) /\ i.seen = {x \in SeenTags(i, t) : x.charge = id}
    BY <1>c, <2>1
  <2>3. IsTheOne(View(j, c), b0, id)
    BY <1>4, <1>8, <2>2 DEF IsTheOne
  <2>4. {x \in SeenTags(j, t) : x.charge = id} = TagRows(id, i.n, R)
    BY <1>3, <1>9, <2>2 DEF tags0
  <2>5. QED
    BY <1>1, <1>c, <1>4, <1>8, <2>1, <2>3, <2>4 DEF Replaces
<1>17. Replaced(j, c, t)
  <2>1. \E a \in DOMAIN View(j, c) : View(j, c)[a].bucket = b0
    BY <1>c, <1>4, <1>8
  <2>2. QED
    BY <1>a, <1>b, <1>c, <1>1, <1>15, <1>16, <2>1, ReplacedNext DEF b0
<1>18. QED
  BY <1>11, <1>12, <1>13, <1>14, <1>17 DEF SessionInv

\* What FindCharge and StartDelete leave alone.
SameWrites(i, j) ==
  /\ DOMAIN j = IngestFields /\ j.n = i.n /\ j.rows = i.rows /\ j.todo = i.todo /\ j.raced = i.raced
  /\ j.new = i.new /\ j.deleted = i.deleted /\ j.inserted = i.inserted

\* A step that writes nothing preserves it where the charge found is as it says.
LEMMA SameWritesStep ==
  ASSUME NEW i, NEW c, NEW t, Stored(c, t), SessionInv(i, c, t),
         NEW j, SameWrites(i, j), j.phase \in {"row", "delete", "update"}, Found(j, c, t)
  PROVE  SessionInv(j, c, t)
<1>1. /\ DOMAIN j = IngestFields /\ j.n = i.n /\ j.rows = i.rows /\ j.todo = i.todo
      /\ j.raced = i.raced /\ j.new = i.new /\ j.deleted = i.deleted /\ j.inserted = i.inserted
  BY DEF SameWrites
<1>2. View(j, c) = View(i, c) /\ SeenTags(j, t) = SeenTags(i, t) /\ BucketsOf(j) = BucketsOf(i)
  BY <1>1 DEF View, SeenTags, BucketsOf
<1>3. Types(i) /\ Writes(i, c) /\ OwnIds(i, c) /\ Replaced(i, c, t)
  BY DEF SessionInv
<1>4. Types(j)
  BY <1>1, <1>2, <1>3 DEF Types
<1>5. Writes(j, c)
  <2>1. \A id : OwnBucket(j, c, id) <=> OwnBucket(i, c, id)
    BY <1>2 DEF OwnBucket
  <2>2. QED
    BY <1>1, <1>2, <1>3, <2>1 DEF Writes
<1>6. OwnIds(j, c) /\ Replaced(j, c, t)
  BY <1>1, <1>2, <1>3 DEF OwnIds, Replaced
<1>7. QED
  BY <1>4, <1>5, <1>6 DEF SessionInv

-----------------------------------------------------------------------------
(* A commit, and what it leaves alone.                                     *)

\* What is committed by a session says the same of the buckets it did not ingest.
LEMMA CommitSame ==
  ASSUME NEW i, NEW c, NEW t, Stored(c, t), SessionInv(i, c, t), NEW b, b \notin BucketsOf(i)
  PROVE  SameFor(c, t, View(i, c), SeenTags(i, t), b)
<1>s. Sees(i, c, t)
  BY ViewIs
<1>1. /\ DOMAIN View(i, c) = DOMAIN i.new \cup DOMAIN c
      /\ \A id \in DOMAIN i.new : View(i, c)[id] = i.new[id]
      /\ \A id \in DOMAIN c \ DOMAIN i.new : View(i, c)[id] = c[id]
  BY <1>s DEF Sees
<1>2. Writes(i, c)
  BY DEF SessionInv
<1>3. /\ \A id \in DOMAIN i.new : i.new[id].bucket # b
      /\ \A id \in DOMAIN c : View(i, c)[id].bucket = c[id].bucket
  BY <1>1, <1>2 DEF Writes
<1>4. \A id \in DOMAIN c : c[id].bucket = b => id \in DOMAIN View(i, c) /\ View(i, c)[id] = c[id]
  BY <1>1, <1>3
<1>5. \A id \in DOMAIN View(i, c) : View(i, c)[id].bucket = b => id \in DOMAIN c /\ c[id].bucket = b
  BY <1>1, <1>3
<1>6. ASSUME NEW id \in DOMAIN c, c[id].bucket = b
      PROVE  {x \in t : x.charge = id} = {x \in SeenTags(i, t) : x.charge = id}
  <2>1. ~ OwnBucket(i, c, id)
    BY <1>3, <1>6 DEF OwnBucket
  <2>2. \A x : x.charge = id => x \notin i.inserted /\ x \notin i.deleted
    BY <1>2, <2>1 DEF Writes
  <2>3. QED
    BY <2>2 DEF SeenTags
<1>7. QED
  BY <1>4, <1>5, <1>6 DEF SameFor

\* The session with record i commits: what another one, with record k, sees.
OtherSees(k, i, c, c2) ==
  /\ DOMAIN View(k, c) = DOMAIN k.new \cup DOMAIN c
  /\ DOMAIN View(k, c2) = DOMAIN k.new \cup DOMAIN i.new \cup DOMAIN c
  /\ DOMAIN c2 = DOMAIN i.new \cup DOMAIN c
  /\ DOMAIN k.new \cap DOMAIN i.new \subseteq DOMAIN c
  /\ \A id \in DOMAIN k.new : View(k, c)[id] = k.new[id] /\ View(k, c2)[id] = k.new[id]
  /\ \A id \in DOMAIN c \ DOMAIN k.new : View(k, c)[id] = c[id]
  /\ \A id \in DOMAIN c2 \ DOMAIN k.new : View(k, c2)[id] = c2[id]

\* A commit gives every other session what it did not write itself.
LEMMA OtherSeesSo ==
  ASSUME NEW i, NEW c, NEW t, Stored(c, t), SessionInv(i, c, t),
         NEW k, SessionInv(k, c, t), k.n # i.n
  PROVE  OtherSees(k, i, c, View(i, c))
<1> DEFINE c2 == View(i, c)
<1>s. Sees(i, c, t) /\ Sees(k, c, t)
  BY ViewIs
<1>1. DOMAIN c2 = DOMAIN i.new \cup DOMAIN c
  BY <1>s DEF Sees
<1>2. /\ DOMAIN View(k, c) = DOMAIN k.new \cup DOMAIN c
      /\ \A id \in DOMAIN k.new : View(k, c)[id] = k.new[id]
      /\ \A id \in DOMAIN c \ DOMAIN k.new : View(k, c)[id] = c[id]
  BY <1>s DEF Sees
<1>3. DOMAIN k.new \cap DOMAIN i.new \subseteq DOMAIN c
  <2>1. \A id \in DOMAIN k.new : id \notin DOMAIN c => id[1] = k.n
    BY DEF SessionInv, Writes
  <2>2. \A id \in DOMAIN i.new : id \notin DOMAIN c => id[1] = i.n
    BY DEF SessionInv, Writes
  <2>3. QED
    BY <2>1, <2>2
<1> HIDE DEF c2
<1>4. /\ DOMAIN View(k, c2) = DOMAIN k.new \cup DOMAIN c2
      /\ \A id \in DOMAIN k.new : View(k, c2)[id] = k.new[id]
      /\ \A id \in DOMAIN c2 \ DOMAIN k.new : View(k, c2)[id] = c2[id]
  <2>1. View(k, c2) =
          [a \in DOMAIN k.new \cup DOMAIN c2 |-> IF a \in DOMAIN k.new THEN k.new[a] ELSE c2[a]]
    BY DEF View, Over
  <2>2. QED
    BY <2>1
<1>5. QED
  BY <1>1, <1>2, <1>3, <1>4 DEF OtherSees, c2

\* And changes nothing another session sees of the buckets it did not ingest.
LEMMA OtherSame ==
  ASSUME NEW i, NEW c, NEW t, Stored(c, t), SessionInv(i, c, t),
         NEW k, SessionInv(k, c, t), k.n # i.n,
         NEW b, b \notin BucketsOf(i)
  PROVE  SameFor(View(k, c), SeenTags(k, t), View(k, View(i, c)), SeenTags(k, SeenTags(i, t)), b)
<1> DEFINE c2 == View(i, c)
           t2 == SeenTags(i, t)
<1>1. OtherSees(k, i, c, c2)
  BY OtherSeesSo
<1>2. SameFor(c, t, c2, t2, b)
  BY CommitSame
<1>3. Writes(i, c) /\ Writes(k, c)
  BY DEF SessionInv
<1>s. Sees(i, c, t)
  BY ViewIs
<1>4. \A id \in DOMAIN c : c2[id].bucket = c[id].bucket
  BY <1>s DEF Sees
<1>5. \A id \in DOMAIN c2 \ DOMAIN c : id[1] = i.n
  BY <1>s DEF Sees
<1> HIDE DEF c2, t2
<1>6. \A id \in DOMAIN View(k, c) : View(k, c)[id].bucket = b =>
         id \in DOMAIN View(k, c2) /\ View(k, c2)[id] = View(k, c)[id]
  BY <1>1, <1>2 DEF OtherSees, SameFor
<1>7. \A id \in DOMAIN View(k, c2) : View(k, c2)[id].bucket = b =>
         id \in DOMAIN View(k, c) /\ View(k, c)[id].bucket = b
  BY <1>1, <1>2 DEF OtherSees, SameFor
<1>8. ASSUME NEW id \in DOMAIN View(k, c), View(k, c)[id].bucket = b
      PROVE  {x \in SeenTags(k, t) : x.charge = id} = {x \in SeenTags(k, t2) : x.charge = id}
  <2>1. ~ OwnBucket(i, c, id)
    <3>1. CASE id \in DOMAIN c
      <4>1. c[id].bucket = b
        BY <1>1, <1>3, <1>8, <3>1 DEF OtherSees, Writes
      <4>2. QED
        BY <1>4, <3>1, <4>1 DEF OwnBucket, c2
    <3>2. CASE id \notin DOMAIN c
      <4>1. id \in DOMAIN k.new /\ id[1] = k.n
        BY <1>1, <1>3, <3>2 DEF OtherSees, Writes
      <4>2. id \notin DOMAIN c2
        BY <1>5, <3>2, <4>1
      <4>3. QED
        BY <4>2 DEF OwnBucket, c2
    <3>3. QED
      BY <3>1, <3>2
  <2>2. \A x : x.charge = id => x \notin i.inserted /\ x \notin i.deleted
    BY <1>3, <2>1 DEF Writes
  <2>3. QED
    BY <2>2 DEF SeenTags, t2
<1>9. QED
  BY <1>6, <1>7, <1>8 DEF SameFor, c2, t2

\* The record of the other session after it.
SeesCommit(k, i, k2) ==
  /\ DOMAIN k2 = IngestFields
  /\ k2.phase = k.phase /\ k2.n = k.n /\ k2.rows = k.rows /\ k2.todo = k.todo
  /\ k2.found = k.found /\ k2.loaded = k.loaded /\ k2.seen = k.seen /\ k2.new = k.new
  /\ k2.deleted = k.deleted /\ k2.inserted = k.inserted
  /\ k2.raced = k.raced \cup (BucketsOf(i) \cap BucketsOf(k))

\* A commit preserves the invariant of every other session.
LEMMA CommitStep ==
  ASSUME NEW i, NEW c, NEW t, Stored(c, t), SessionInv(i, c, t),
         NEW k, SessionInv(k, c, t), k.n # i.n, NEW k2, SeesCommit(k, i, k2)
  PROVE  SessionInv(k2, View(i, c), SeenTags(i, t))
<1> DEFINE c2 == View(i, c)
           t2 == SeenTags(i, t)
<1>1. /\ DOMAIN k2 = IngestFields
      /\ k2.phase = k.phase /\ k2.n = k.n /\ k2.rows = k.rows /\ k2.todo = k.todo
      /\ k2.found = k.found /\ k2.loaded = k.loaded /\ k2.seen = k.seen /\ k2.new = k.new
      /\ k2.deleted = k.deleted /\ k2.inserted = k.inserted
      /\ k2.raced = k.raced \cup (BucketsOf(i) \cap BucketsOf(k))
  BY DEF SeesCommit
<1>2. Types(k) /\ Writes(k, c) /\ OwnIds(k, c) /\ Found(k, c, t) /\ Replaced(k, c, t)
  BY DEF SessionInv
<1>3. BucketsOf(k2) = BucketsOf(k) /\ View(k2, c2) = View(k, c2) /\ SeenTags(k2, t2) = SeenTags(k, t2)
  BY <1>1 DEF BucketsOf, View, SeenTags
<1>4. OtherSees(k, i, c, c2)
  BY OtherSeesSo
<1>5. \A b : b \notin BucketsOf(i) => SameFor(View(k, c), SeenTags(k, t), View(k, c2), SeenTags(k, t2), b)
  BY OtherSame
<1>s. Sees(i, c, t)
  BY ViewIs
<1>6. \A id \in DOMAIN c : c2[id].bucket = c[id].bucket
  BY <1>s DEF Sees
<1>7. \A id \in DOMAIN c2 \ DOMAIN c : id[1] = i.n
  BY <1>s DEF Sees
<1> HIDE DEF c2, t2
<1>8. \A id \in DOMAIN View(k, c) :
         id \in DOMAIN View(k, c2) /\ View(k, c2)[id].bucket = View(k, c)[id].bucket
  BY <1>4, <1>6 DEF OtherSees
<1>9. Types(k2)
  BY <1>1, <1>2, <1>3 DEF Types
<1>10. Writes(k2, c2)
  <2>1. \A id : OwnBucket(k, c, id) => OwnBucket(k2, c2, id)
    BY <1>3, <1>8 DEF OwnBucket
  <2>2. ASSUME NEW id \in DOMAIN k.new
        PROVE  /\ id \in DOMAIN c2 => k.new[id].bucket = c2[id].bucket
               /\ id \notin DOMAIN c2 => id \notin DOMAIN c
    <3>1. id \in DOMAIN c2 <=> id \in DOMAIN c
      BY <1>4 DEF OtherSees
    <3>2. id \in DOMAIN c => k.new[id].bucket = c[id].bucket
      BY <1>2 DEF Writes
    <3>3. QED
      BY <1>6, <3>1, <3>2
  <2>3. \A id \in DOMAIN k.new :
          /\ IsCharge(k.new[id]) /\ k.new[id].bucket \in BucketsOf(k)
          /\ id \notin DOMAIN c => id \in {k.n} \X Nat /\ id[2] > Len(k.todo)
    BY <1>2 DEF Writes
  <2>4. IsFiniteSet(DOMAIN k.new) /\ IsFiniteSet(k.inserted)
        /\ (\A x \in k.inserted : IsTag(x) /\ OwnBucket(k2, c2, x.charge))
        /\ (\A x \in k.deleted : OwnBucket(k2, c2, x.charge))
    BY <1>2, <2>1 DEF Writes
  <2>5. \A id \in DOMAIN k2.new :
          /\ IsCharge(k2.new[id]) /\ k2.new[id].bucket \in BucketsOf(k2)
          /\ id \in DOMAIN c2 => k2.new[id].bucket = c2[id].bucket
          /\ id \notin DOMAIN c2 => id \in {k2.n} \X Nat /\ id[2] > Len(k2.todo)
    BY <1>1, <1>3, <2>2, <2>3
  <2>6. QED
    BY <1>1, <2>4, <2>5 DEF Writes
<1>11. OwnIds(k2, c2)
  BY <1>1, <1>2, <1>7 DEF OwnIds
<1>12. Found(k2, c2, t2)
  <2>1. SUFFICES ASSUME k.phase # "row"
                 PROVE  /\ k.todo # <<>>
                        /\ k.found \in DOMAIN View(k, c2) /\ View(k, c2)[k.found].bucket = Head(k.todo)
                        /\ k.phase = "update" => \A x \in k.seen : x.charge = k.found
                        /\ Head(k.todo) \notin k2.raced =>
                             /\ IsTheOne(View(k, c2), Head(k.todo), k.found)
                             /\ k.loaded = {View(k, c2)[k.found]}
                             /\ k.phase = "update" => k.seen = {x \in SeenTags(k, t2) : x.charge = k.found}
    BY <1>1, <1>3 DEF Found
  <2>2. /\ k.todo # <<>>
        /\ k.found \in DOMAIN View(k, c) /\ View(k, c)[k.found].bucket = Head(k.todo)
        /\ k.phase = "update" => \A x \in k.seen : x.charge = k.found
        /\ Head(k.todo) \notin k.raced =>
             /\ IsTheOne(View(k, c), Head(k.todo), k.found)
             /\ k.loaded = {View(k, c)[k.found]}
             /\ k.phase = "update" => k.seen = {x \in SeenTags(k, t) : x.charge = k.found}
    BY <1>2, <2>1 DEF Found
  <2>3. k.found \in DOMAIN View(k, c2) /\ View(k, c2)[k.found].bucket = Head(k.todo)
    BY <1>8, <2>2
  <2>4. ASSUME Head(k.todo) \notin k2.raced
        PROVE  /\ IsTheOne(View(k, c2), Head(k.todo), k.found)
               /\ k.loaded = {View(k, c2)[k.found]}
               /\ k.phase = "update" => k.seen = {x \in SeenTags(k, t2) : x.charge = k.found}
    <3>1. Head(k.todo) \in BucketsOf(k)
      BY <1>2, <2>2, Todo
    <3>2. Head(k.todo) \notin BucketsOf(i) /\ Head(k.todo) \notin k.raced
      BY <1>1, <2>4, <3>1
    <3>3. SameFor(View(k, c), SeenTags(k, t), View(k, c2), SeenTags(k, t2), Head(k.todo))
      BY <1>5, <3>2
    <3>4. /\ View(k, c2)[k.found] = View(k, c)[k.found]
          /\ {x \in SeenTags(k, t) : x.charge = k.found} = {x \in SeenTags(k, t2) : x.charge = k.found}
      BY <2>2, <3>3 DEF SameFor
    <3>5. IsTheOne(View(k, c2), Head(k.todo), k.found)
      BY <2>2, <2>3, <3>2, <3>3 DEF SameFor, IsTheOne
    <3>6. QED
      BY <2>2, <3>2, <3>4, <3>5
  <2>5. QED
    BY <2>2, <2>3, <2>4
<1>13. Replaced(k2, c2, t2)
  <2>1. SUFFICES ASSUME NEW b \in BucketsOf(k) \ ToSet(k.todo)
                 PROVE  /\ \E id \in DOMAIN View(k, c2) : View(k, c2)[id].bucket = b
                        /\ b \notin k2.raced => Replaces(View(k, c2), SeenTags(k, t2), b, RowsOf(k.rows, b))
    BY <1>1, <1>3 DEF Replaced
  <2>2. /\ \E id \in DOMAIN View(k, c) : View(k, c)[id].bucket = b
        /\ b \notin k.raced => Replaces(View(k, c), SeenTags(k, t), b, RowsOf(k.rows, b))
    BY <1>2, <2>1 DEF Replaced
  <2>3. \E id \in DOMAIN View(k, c2) : View(k, c2)[id].bucket = b
    BY <1>8, <2>2
  <2>4. b \notin k2.raced => b \notin k.raced /\ b \notin BucketsOf(i)
    BY <1>1, <2>1
  <2>5. QED
    BY <1>5, <2>2, <2>3, <2>4, SameReplaces
<1>14. QED
  BY <1>9, <1>10, <1>11, <1>12, <1>13 DEF SessionInv, c2, t2

-----------------------------------------------------------------------------
(* The steps of the ingests.                                               *)

Committed ==
  /\ Stored(charges, tagRows)
  /\ ingests \in 0..MaxIngests /\ \A id \in DOMAIN charges : id[1] <= ingests
  /\ \A b \in DOMAIN newest : AreOf(newest[b], b)
  /\ DOMAIN newest = {charges[id].bucket : id \in DOMAIN charges}
  /\ raced \subseteq DOMAIN newest
  /\ \A b \in DOMAIN newest \ raced : Replaces(charges, tagRows, b, newest[b])

Session(i, c, t, n) ==
  IF i.phase = "idle" THEN i = NoIngest ELSE SessionInv(i, c, t) /\ i.n <= n

SessionsInv ==
  /\ ingest \in [Sessions -> {ingest[s] : s \in Sessions}]
  /\ \A s \in Sessions : Session(ingest[s], charges, tagRows, ingests)
  /\ \A s, o \in Sessions : s # o /\ Ingesting(s) /\ Ingesting(o) => ingest[s].n # ingest[o].n

IngestInv == Committed /\ SessionsInv

\* Nothing is stored at first.
LEMMA InitIngest ==
  ASSUME Init
  PROVE  IngestInv
<1>1. /\ charges = <<>> /\ tagRows = {} /\ ingest = [s \in Sessions |-> NoIngest] /\ ingests = 0
      /\ newest = <<>> /\ raced = {}
  BY DEF Init
<1>2. DOMAIN charges = {} /\ DOMAIN newest = {}
  BY <1>1
<1>3. Stored(charges, tagRows)
  BY <1>1, <1>2, FS_EmptySet DEF Stored
<1>4. Committed
  BY <1>1, <1>2, <1>3, BoundsAssumption DEF Committed
<1>5. SessionsInv
  BY <1>1 DEF SessionsInv, Session, Ingesting, NoIngest
<1>6. QED
  BY <1>4, <1>5 DEF IngestInv

\* A step that changes one session at most.
LEMMA OwnChange ==
  ASSUME IngestInv, NEW s \in Sessions,
         UNCHANGED <<stored, newest, raced>>, ingests' \in ingests..MaxIngests,
         NEW j, ingest' = [ingest EXCEPT ![s] = j], Session(j, charges, tagRows, ingests'),
         \A o \in Sessions \ {s} : Ingesting(o) /\ j.phase # "idle" => ingest[o].n # j.n
  PROVE  IngestInv'
<1>1. ingest \in [Sessions -> {ingest[o] : o \in Sessions}] /\ ingests \in 0..MaxIngests
  BY DEF IngestInv, SessionsInv, Committed
<1>2. /\ charges' = charges /\ tagRows' = tagRows /\ newest' = newest /\ raced' = raced
  BY DEF stored
<1>3. ingests' \in 0..MaxIngests /\ ingests <= ingests' /\ ingests \in Int /\ ingests' \in Int
  BY <1>1, BoundsAssumption
<1>4. Committed'
  <2>1. \A id \in DOMAIN charges : id[1] <= ingests /\ id[1] \in Nat
    BY DEF IngestInv, Committed, Stored
  <2>2. \A id \in DOMAIN charges : id[1] <= ingests'
    BY <1>3, <2>1
  <2>3. QED
    BY <1>2, <1>3, <2>2 DEF IngestInv, Committed
<1>5. ingest'[s] = j /\ \A o \in Sessions \ {s} : ingest'[o] = ingest[o]
  BY <1>1
<1>6. ingest' \in [Sessions -> {ingest'[o] : o \in Sessions}]
  BY <1>1
<1>7. ASSUME NEW o \in Sessions \ {s}
      PROVE  Session(ingest[o], charges, tagRows, ingests')
  <2>1. Session(ingest[o], charges, tagRows, ingests)
    BY DEF IngestInv, SessionsInv
  <2>2. CASE ingest[o].phase = "idle"
    BY <2>1, <2>2 DEF Session
  <2>3. CASE ingest[o].phase # "idle"
    <3>1. SessionInv(ingest[o], charges, tagRows) /\ ingest[o].n <= ingests /\ ingest[o].n \in Nat
      BY <2>1, <2>3 DEF Session, SessionInv, Types
    <3>2. ingest[o].n <= ingests'
      BY <1>3, <3>1
    <3>3. QED
      BY <2>3, <3>1, <3>2 DEF Session
  <2>4. QED
    BY <2>2, <2>3
<1>8. \A o \in Sessions : Session(ingest'[o], charges', tagRows', ingests')
  BY <1>2, <1>5, <1>7
<1>9. \A o, p \in Sessions : o # p /\ ingest'[o].phase # "idle" /\ ingest'[p].phase # "idle" =>
        ingest'[o].n # ingest'[p].n
  BY <1>5 DEF IngestInv, SessionsInv, Ingesting
<1>10. SessionsInv'
  BY <1>6, <1>8, <1>9 DEF SessionsInv, Ingesting
<1>11. QED
  BY <1>4, <1>10 DEF IngestInv

\* The record of a session that ingests.
LEMMA SessionIs ==
  ASSUME IngestInv, NEW s \in Sessions, Ingesting(s)
  PROVE  /\ SessionInv(ingest[s], charges, tagRows) /\ ingest[s].n <= ingests
         /\ Types(ingest[s]) /\ DOMAIN ingest[s] = IngestFields
         /\ Stored(charges, tagRows) /\ ingests \in 0..MaxIngests
         /\ Charges(s) = View(ingest[s], charges) /\ TagRowsSeen(s) = SeenTags(ingest[s], tagRows)
         /\ BucketsIn(s) = BucketsOf(ingest[s])
         /\ \A o \in Sessions \ {s} : Ingesting(o) => ingest[o].n # ingest[s].n
<1>1. SessionInv(ingest[s], charges, tagRows) /\ ingest[s].n <= ingests
  BY DEF IngestInv, SessionsInv, Session, Ingesting
<1>2. Types(ingest[s]) /\ DOMAIN ingest[s] = IngestFields
  BY <1>1 DEF SessionInv, Types
<1>3. Stored(charges, tagRows) /\ ingests \in 0..MaxIngests
  BY DEF IngestInv, Committed
<1>4. /\ Charges(s) = View(ingest[s], charges) /\ TagRowsSeen(s) = SeenTags(ingest[s], tagRows)
      /\ BucketsIn(s) = BucketsOf(ingest[s])
  BY DEF Charges, View, TagRowsSeen, SeenTags, BucketsIn, BucketsOf
<1>5. \A o \in Sessions \ {s} : Ingesting(o) => ingest[o].n # ingest[s].n
  BY DEF IngestInv, SessionsInv
<1>6. QED
  BY <1>1, <1>2, <1>3, <1>4, <1>5

\* A step of a session that goes on.
LEMMA GoesOn ==
  ASSUME IngestInv, NEW s \in Sessions, Ingesting(s),
         UNCHANGED <<stored, newest, raced, ingests>>,
         NEW j, ingest' = [ingest EXCEPT ![s] = j], SessionInv(j, charges, tagRows),
         j.n = ingest[s].n
  PROVE  IngestInv'
<1>1. /\ ingest[s].n <= ingests /\ ingests \in 0..MaxIngests
      /\ \A o \in Sessions \ {s} : Ingesting(o) => ingest[o].n # ingest[s].n
  BY SessionIs
<1>2. Session(j, charges, tagRows, ingests)
  BY <1>1 DEF Session, SessionInv, Types
<1>3. ingests' = ingests /\ ingests' \in ingests..MaxIngests
  BY <1>1, BoundsAssumption
<1>4. UNCHANGED <<stored, newest, raced>>
  BY DEF stored
<1>5. \A o \in Sessions \ {s} : Ingesting(o) /\ j.phase # "idle" => ingest[o].n # j.n
  BY <1>1
<1>6. /\ UNCHANGED <<stored, newest, raced>> /\ ingests' \in ingests..MaxIngests
      /\ Session(j, charges, tagRows, ingests')
  BY <1>2, <1>3, <1>4
<1> HIDE <1>1, <1>2, <1>3, <1>4
<1>7. QED
  BY <1>5, <1>6, OwnChange

\* BeginIngest: a session starts with every bucket of its export to do.
LEMMA BeginStep ==
  ASSUME IngestInv, NEW s \in Sessions, BeginIngest(s)
  PROVE  IngestInv'
<1>1. PICK e \in Exports :
        /\ ~ MixesCurrencies(Load(e))
        /\ ingest' = [ingest EXCEPT ![s] =
             [phase |-> "row", n |-> ingests + 1, rows |-> Load(e), todo |-> Buckets(Load(e)),
              found |-> NoId, loaded |-> {}, seen |-> {}, new |-> <<>>, deleted |-> {},
              inserted |-> {}, raced |-> {}]]
  BY DEF BeginIngest
<1> DEFINE j == [phase |-> "row", n |-> ingests + 1, rows |-> Load(e), todo |-> Buckets(Load(e)),
                 found |-> NoId, loaded |-> {}, seen |-> {}, new |-> <<>>, deleted |-> {},
                 inserted |-> {}, raced |-> {}]
<1>2. ingests' = ingests + 1 /\ ingests < MaxIngests /\ UNCHANGED <<stored, newest, raced>>
  BY DEF BeginIngest, history
<1>3. ingests \in 0..MaxIngests /\ Stored(charges, tagRows) /\ \A id \in DOMAIN charges : id[1] <= ingests
  BY DEF IngestInv, Committed
<1>4. /\ j.phase = "row" /\ j.n = ingests + 1 /\ j.rows = Load(e) /\ j.todo = Buckets(Load(e))
      /\ j.new = <<>> /\ j.deleted = {} /\ j.inserted = {} /\ j.raced = {} /\ DOMAIN j = IngestFields
  BY DEF IngestFields
<1>5. ingest' = [ingest EXCEPT ![s] = j]
  BY <1>1
<1> HIDE DEF j
<1>6. AreRows(Load(e))
  BY <1>1, LoadedRows DEF AreRows
<1>7. j.todo \in Seq(BucketsOf(j)) /\ ToSet(j.todo) = BucketsOf(j)
  BY <1>4, <1>6, BucketsCover DEF AreRows, BucketsOf
<1>8. Types(j)
  BY <1>3, <1>4, <1>6, <1>7 DEF Types
<1>9. DOMAIN j.new = {}
  BY <1>4
<1>10. Writes(j, charges)
  BY <1>4, <1>9, FS_EmptySet DEF Writes
<1>11. OwnIds(j, charges)
  <2>1. \A id \in DOMAIN charges : id[1] \in Nat
    BY <1>3 DEF Stored
  <2>2. QED
    BY <1>3, <1>4, <2>1 DEF OwnIds
<1>12. Found(j, charges, tagRows) /\ Replaced(j, charges, tagRows)
  BY <1>4, <1>7 DEF Found, Replaced
<1>13. SessionInv(j, charges, tagRows)
  BY <1>8, <1>10, <1>11, <1>12 DEF SessionInv
<1>14. Session(j, charges, tagRows, ingests')
  BY <1>2, <1>3, <1>4, <1>13 DEF Session
<1>15. \A o \in Sessions \ {s} : Ingesting(o) => ingest[o].n # j.n
  <2>1. SUFFICES ASSUME NEW o \in Sessions, Ingesting(o)
                 PROVE  ingest[o].n # j.n
    OBVIOUS
  <2>2. ingest[o].n <= ingests /\ ingest[o].n \in Nat
    BY <2>1, SessionIs DEF Types
  <2>3. QED
    BY <1>3, <1>4, <2>2
<1>16. ingests' \in ingests..MaxIngests
  BY <1>2, <1>3, BoundsAssumption
<1>17. QED
  BY <1>2, <1>5, <1>14, <1>15, <1>16, OwnChange

\* InsertCharge, in a state of all sessions.
LEMMA InsertChargeStep ==
  ASSUME IngestInv, NEW s \in Sessions, InsertCharge(s)
  PROVE  IngestInv'
<1> DEFINE i == ingest[s]
           j == [i EXCEPT !.new = Put(@, NewId(s), Charge(CurrentRows(s))),
                          !.inserted = @ \cup TagRows(NewId(s), i.n, CurrentRows(s)),
                          !.todo = Tail(@)]
<1>1. /\ i.phase = "row" /\ i.todo # <<>> /\ Matches(s) = {}
      /\ UNCHANGED <<stored, newest, raced, ingests>>
  BY DEF InsertCharge, history
<1>2. Ingesting(s)
  BY <1>1 DEF Ingesting
<1>3. /\ SessionInv(i, charges, tagRows) /\ DOMAIN i = IngestFields /\ Stored(charges, tagRows)
      /\ Charges(s) = View(i, charges)
  BY <1>2, SessionIs
<1>4. ingest' = [ingest EXCEPT ![s] = j]
  <2>1. s \in DOMAIN ingest
    BY DEF IngestInv, SessionsInv
  <2>2. QED
    BY <2>1 DEF InsertCharge
<1>5. Inserts(i, charges, j, NewId(s), CurrentRows(s))
  <2>1. \A id \in DOMAIN View(i, charges) : View(i, charges)[id].bucket # Head(i.todo)
    BY <1>1, <1>3 DEF Matches, Current
  <2>2. /\ CurrentRows(s) = RowsOf(i.rows, Head(i.todo)) /\ NewId(s) = <<i.n, Len(i.todo)>>
    BY DEF CurrentRows, Current, NewId
  <2>3. /\ DOMAIN j = IngestFields /\ j.phase = "row" /\ j.n = i.n /\ j.rows = i.rows
        /\ j.todo = Tail(i.todo) /\ j.new = Put(i.new, NewId(s), Charge(CurrentRows(s)))
        /\ j.inserted = i.inserted \cup TagRows(NewId(s), i.n, CurrentRows(s)) /\ j.deleted = i.deleted
        /\ j.raced = i.raced
    <3> HIDE DEF i
    <3>1. QED
      BY <1>1, <1>3 DEF IngestFields
  <2>4. QED
    BY <1>1, <2>1, <2>2, <2>3 DEF Inserts
<1>6. j.n = i.n
  BY <1>5 DEF Inserts
<1> HIDE DEF j
<1>7. SessionInv(j, charges, tagRows)
  BY <1>3, <1>5, InsertStep
<1>8. QED
  BY <1>1, <1>2, <1>4, <1>6, <1>7, GoesOn

\* FindCharge: the one charge that matches is the charge of the bucket.
LEMMA FindChargeStep ==
  ASSUME IngestInv, NEW s \in Sessions, FindCharge(s)
  PROVE  IngestInv'
<1> DEFINE i == ingest[s]
<1>1. PICK id \in Matches(s) :
        /\ Matches(s) = {id}
        /\ ingest' = [ingest EXCEPT ![s].phase = "delete", ![s].found = id,
                                    ![s].loaded = {Charges(s)[id]}]
  BY DEF FindCharge
<1> DEFINE j == [i EXCEPT !.phase = "delete", !.found = id, !.loaded = {Charges(s)[id]}]
<1>2. i.phase = "row" /\ i.todo # <<>> /\ UNCHANGED <<stored, newest, raced, ingests>>
  BY DEF FindCharge, history
<1>3. Ingesting(s)
  BY <1>2 DEF Ingesting
<1>4. /\ SessionInv(i, charges, tagRows) /\ DOMAIN i = IngestFields /\ Stored(charges, tagRows)
      /\ Charges(s) = View(i, charges)
  BY <1>3, SessionIs
<1>5. ingest' = [ingest EXCEPT ![s] = j]
  <2>1. s \in DOMAIN ingest
    BY DEF IngestInv, SessionsInv
  <2>2. QED
    BY <1>1, <2>1
<1>6. /\ SameWrites(i, j) /\ j.phase = "delete" /\ j.found = id
      /\ j.loaded = {View(i, charges)[id]} /\ j.todo = i.todo
  <2> HIDE DEF i
  <2>1. QED
    BY <1>4 DEF SameWrites, IngestFields
<1> HIDE DEF j
<1>7. View(j, charges) = View(i, charges) /\ j.n = i.n
  BY <1>6 DEF SameWrites, View
<1>8. /\ id \in DOMAIN View(i, charges) /\ View(i, charges)[id].bucket = Head(i.todo)
      /\ IsTheOne(View(i, charges), Head(i.todo), id)
  BY <1>1, <1>4 DEF Matches, Current, IsTheOne
<1>9. Found(j, charges, tagRows)
  BY <1>2, <1>6, <1>7, <1>8 DEF Found
<1>10. SessionInv(j, charges, tagRows)
  BY <1>4, <1>6, <1>9, SameWritesStep
<1>11. QED
  BY <1>2, <1>3, <1>5, <1>7, <1>10, GoesOn

\* StartDelete: what is seen are the tag rows of the charge.
LEMMA StartDeleteStep ==
  ASSUME IngestInv, NEW s \in Sessions, StartDelete(s)
  PROVE  IngestInv'
<1> DEFINE i == ingest[s]
           j == [i EXCEPT !.phase = "update", !.seen = ToDelete(s)]
<1>2. i.phase = "delete" /\ UNCHANGED <<stored, newest, raced, ingests>>
  BY DEF StartDelete, history
<1>3. Ingesting(s)
  BY <1>2 DEF Ingesting
<1>4. /\ SessionInv(i, charges, tagRows) /\ DOMAIN i = IngestFields /\ Stored(charges, tagRows)
      /\ TagRowsSeen(s) = SeenTags(i, tagRows)
  BY <1>3, SessionIs
<1>5. ingest' = [ingest EXCEPT ![s] = j]
  <2>1. s \in DOMAIN ingest
    BY DEF IngestInv, SessionsInv
  <2>2. QED
    BY <2>1 DEF StartDelete
<1>6. /\ SameWrites(i, j) /\ j.phase = "update" /\ j.found = i.found
      /\ j.seen = ToDelete(s) /\ j.todo = i.todo /\ j.loaded = i.loaded /\ j.raced = i.raced
  <2> HIDE DEF i
  <2>1. QED
    BY <1>4 DEF SameWrites, IngestFields
<1> HIDE DEF j
<1>7. View(j, charges) = View(i, charges) /\ j.n = i.n /\ SeenTags(j, tagRows) = SeenTags(i, tagRows)
  BY <1>6 DEF SameWrites, View, SeenTags
<1>8. ToDelete(s) = {x \in SeenTags(i, tagRows) : x.charge = i.found}
  BY <1>4 DEF ToDelete
<1>9. Found(i, charges, tagRows)
  BY <1>4 DEF SessionInv
<1>10. Found(j, charges, tagRows)
  <2>1. \A x \in ToDelete(s) : x.charge = i.found
    BY <1>8
  <2>2. QED
    BY <1>2, <1>6, <1>7, <1>8, <1>9, <2>1 DEF Found
<1>11. SessionInv(j, charges, tagRows)
  BY <1>4, <1>6, <1>10, SameWritesStep
<1>12. QED
  BY <1>2, <1>3, <1>5, <1>7, <1>11, GoesOn

\* UpdateCharge, in a state of all sessions.
LEMMA UpdateChargeStep ==
  ASSUME IngestInv, NEW s \in Sessions, UpdateCharge(s)
  PROVE  IngestInv'
<1> DEFINE i == ingest[s]
           id == i.found
           row == Updated(s, CHOOSE c \in i.loaded : TRUE)
           j == [i EXCEPT !.phase = "row",
                          !.new = IF row # Charges(s)[id] THEN Put(@, id, row) ELSE @,
                          !.deleted = @ \cup i.seen,
                          !.inserted = (@ \ i.seen) \cup TagRows(id, i.n, CurrentRows(s)),
                          !.todo = Tail(@)]
<1>2. i.phase = "update" /\ UNCHANGED <<stored, newest, raced, ingests>>
  BY DEF UpdateCharge, history
<1>3. Ingesting(s)
  BY <1>2 DEF Ingesting
<1>4. /\ SessionInv(i, charges, tagRows) /\ DOMAIN i = IngestFields /\ Stored(charges, tagRows)
      /\ Charges(s) = View(i, charges)
  BY <1>3, SessionIs
<1>5. ingest' = [ingest EXCEPT ![s] = j]
  <2>1. s \in DOMAIN ingest
    BY DEF IngestInv, SessionsInv
  <2>2. ingest' = [ingest EXCEPT
          ![s].phase = "row",
          ![s].new = IF row # Charges(s)[id] THEN Put(@, id, row) ELSE @,
          ![s].deleted = @ \cup i.seen,
          ![s].inserted = (@ \ i.seen) \cup TagRows(id, i.n, CurrentRows(s)),
          ![s].todo = Tail(@)]
    BY DEF UpdateCharge
  <2> HIDE DEF row, id
  <2>3. QED
    BY <2>1, <2>2
<1>6. /\ DOMAIN j = IngestFields /\ j.phase = "row" /\ j.n = i.n /\ j.rows = i.rows
      /\ j.todo = Tail(i.todo) /\ j.raced = i.raced
      /\ j.new = IF row # View(i, charges)[id] THEN Put(i.new, id, row) ELSE i.new
      /\ j.deleted = i.deleted \cup i.seen
      /\ j.inserted = (i.inserted \ i.seen) \cup TagRows(id, i.n, CurrentRows(s))
  <2> HIDE DEF i, row, id
  <2>1. DOMAIN j = IngestFields /\ j.phase = "row" /\ j.n = i.n /\ j.rows = i.rows
        /\ j.todo = Tail(i.todo) /\ j.raced = i.raced
    BY <1>4 DEF IngestFields
  <2>2. j.new = IF row # View(i, charges)[id] THEN Put(i.new, id, row) ELSE i.new
    BY <1>4 DEF IngestFields
  <2>3. j.deleted = i.deleted \cup i.seen
        /\ j.inserted = (i.inserted \ i.seen) \cup TagRows(id, i.n, CurrentRows(s))
    BY <1>4 DEF IngestFields
  <2>4. QED
    BY <2>1, <2>2, <2>3
<1>7. CurrentRows(s) = RowsOf(i.rows, Head(i.todo))
  BY DEF CurrentRows, Current
<1>8. Updates(i, charges, j, id, row, CurrentRows(s))
  <2> HIDE DEF j
  <2>1. QED
    BY <1>2, <1>4, <1>6, <1>7 DEF Updates, Updated
<1> HIDE DEF j, row
<1>9. SessionInv(j, charges, tagRows)
  BY <1>4, <1>8, UpdateStep
<1>10. QED
  BY <1>2, <1>3, <1>5, <1>6, <1>9, GoesOn

\* IngestFails: a session that is closed leaves nothing.
LEMMA FailsStep ==
  ASSUME IngestInv, NEW s \in Sessions, IngestFails(s)
  PROVE  IngestInv'
<1>1. ingest' = [ingest EXCEPT ![s] = NoIngest] /\ UNCHANGED <<stored, newest, raced>> /\ ingests' = ingests
  BY DEF IngestFails, history
<1>2. NoIngest.phase = "idle" /\ Session(NoIngest, charges, tagRows, ingests')
  BY DEF NoIngest, Session
<1>3. ingests' \in ingests..MaxIngests
  <2>1. ingests \in 0..MaxIngests
    BY DEF IngestInv, Committed
  <2>2. QED
    BY <1>1, <2>1, BoundsAssumption
<1>4. \A o \in Sessions \ {s} : Ingesting(o) /\ NoIngest.phase # "idle" => ingest[o].n # NoIngest.n
  BY <1>2
<1>5. QED
  BY <1>1, <1>2, <1>3, <1>4, OwnChange

\* CommitIngest: what the session replaced is stored, the others see it.
LEMMA CommitIngestStep ==
  ASSUME IngestInv, NEW s \in Sessions, CommitIngest(s)
  PROVE  IngestInv'
<1> DEFINE i == ingest[s]
           c2 == View(i, charges)
           t2 == SeenTags(i, tagRows)
           B == BucketsOf(i)
           mine == [b \in BucketsIn(s) |-> RowsOf(i.rows, b)]
<1>1. /\ i.phase = "row" /\ i.todo = <<>> /\ charges' = Charges(s) /\ tagRows' = TagRowsSeen(s)
      /\ ingest' = [o \in Sessions |->
           IF o = s THEN NoIngest
           ELSE IF Ingesting(o)
           THEN [ingest[o] EXCEPT !.raced = @ \cup (BucketsIn(s) \cap BucketsIn(o))] ELSE NoIngest]
      /\ newest' = Over(mine, newest)
      /\ raced' = (raced \ BucketsIn(s)) \cup i.raced /\ ingests' = ingests
  BY DEF CommitIngest
<1>2. Ingesting(s)
  BY <1>1 DEF Ingesting
<1>3. /\ SessionInv(i, charges, tagRows) /\ i.n <= ingests /\ Types(i) /\ Stored(charges, tagRows)
      /\ Charges(s) = c2 /\ TagRowsSeen(s) = t2 /\ BucketsIn(s) = B
      /\ \A o \in Sessions \ {s} : Ingesting(o) => ingest[o].n # i.n
  BY <1>2, SessionIs
<1>4. charges' = c2 /\ tagRows' = t2
  BY <1>1, <1>3
<1>s. Sees(i, charges, tagRows)
  <2> HIDE DEF i
  <2>1. QED
    BY <1>3, ViewIs
<1>5. Stored(c2, t2)
  BY <1>s DEF Sees, Stored
<1>6. /\ DOMAIN c2 = DOMAIN i.new \cup DOMAIN charges
      /\ \A id \in DOMAIN i.new : c2[id] = i.new[id]
  BY <1>s DEF Sees
<1>7. \A id \in DOMAIN charges : c2[id].bucket = charges[id].bucket
  BY <1>s DEF Sees
<1>8. \A id \in DOMAIN c2 \ DOMAIN charges : id[1] = i.n
  BY <1>s DEF Sees
<1>9. \A id \in DOMAIN i.new : i.new[id].bucket \in B
  BY <1>3 DEF SessionInv, Writes
<1>10. /\ ingests \in 0..MaxIngests /\ \A id \in DOMAIN charges : id[1] <= ingests
       /\ \A b \in DOMAIN newest : AreOf(newest[b], b)
       /\ DOMAIN newest = {charges[id].bucket : id \in DOMAIN charges}
       /\ raced \subseteq DOMAIN newest
       /\ \A b \in DOMAIN newest \ raced : Replaces(charges, tagRows, b, newest[b])
  BY DEF IngestInv, Committed
<1>11. \A b \in B :
         /\ \E id \in DOMAIN c2 : c2[id].bucket = b
         /\ b \notin i.raced => Replaces(c2, t2, b, RowsOf(i.rows, b))
  <2>1. ToSet(i.todo) = {}
    BY <1>1 DEF ToSet
  <2>2. QED
    BY <1>3, <2>1 DEF SessionInv, Replaced
<1>12. /\ DOMAIN newest' = B \cup DOMAIN newest
       /\ \A b \in B : newest'[b] = RowsOf(i.rows, b)
       /\ \A b \in DOMAIN newest \ B : newest'[b] = newest[b]
  <2> HIDE DEF i, B
  <2>1. newest' = [x \in B \cup DOMAIN newest |-> IF x \in B THEN mine[x] ELSE newest[x]]
    BY <1>1, <1>3 DEF Over
  <2>2. \A b \in B : mine[b] = RowsOf(i.rows, b)
    BY <1>3
  <2> HIDE DEF mine
  <2>3. QED
    BY <2>1, <2>2
<1>13. \A b \in B : AreOf(RowsOf(i.rows, b), b)
  BY <1>3, RowsOfBucket DEF Types, BucketsOf
<1>14. \A b : b \notin B => SameFor(charges, tagRows, c2, t2, b)
  BY <1>3, CommitSame
<1> HIDE DEF c2, t2, B, mine
<1>15. Committed'
  <2>1. Stored(charges', tagRows')
    BY <1>4, <1>5
  <2>2. ingests' \in 0..MaxIngests /\ \A id \in DOMAIN charges' : id[1] <= ingests'
    BY <1>1, <1>3, <1>4, <1>8, <1>10
  <2>3. \A b \in DOMAIN newest' : AreOf(newest'[b], b)
    BY <1>10, <1>12, <1>13
  <2>4. DOMAIN newest' = {charges'[id].bucket : id \in DOMAIN charges'}
    <3>1. ASSUME NEW b \in DOMAIN newest'
          PROVE  \E id \in DOMAIN c2 : c2[id].bucket = b
      <4>1. CASE b \in B
        BY <1>11, <4>1
      <4>2. CASE b \notin B
        <5>1. PICK id \in DOMAIN charges : charges[id].bucket = b
          BY <1>10, <1>12, <4>2
        <5>2. QED
          BY <1>6, <1>7, <5>1
      <4>3. QED
        BY <4>1, <4>2
    <3>2. ASSUME NEW id \in DOMAIN c2
          PROVE  c2[id].bucket \in DOMAIN newest'
      <4>1. CASE id \in DOMAIN i.new
        BY <1>6, <1>9, <1>12, <4>1
      <4>2. CASE id \notin DOMAIN i.new
        BY <1>6, <1>7, <1>10, <1>12, <4>2
      <4>3. QED
        BY <4>1, <4>2
    <3>3. QED
      BY <1>4, <3>1, <3>2
  <2>5. raced' \subseteq DOMAIN newest'
    <3>1. i.raced \subseteq B
      BY <1>3 DEF Types, B
    <3>2. QED
      BY <1>1, <1>10, <1>12, <3>1
  <2>6. ASSUME NEW b \in DOMAIN newest' \ raced'
        PROVE  Replaces(c2, t2, b, newest'[b])
    <3>1. CASE b \in B
      BY <1>1, <1>11, <1>12, <2>6, <3>1
    <3>2. CASE b \notin B
      <4>1. b \in DOMAIN newest \ raced /\ newest'[b] = newest[b]
        BY <1>1, <1>3, <1>12, <2>6, <3>2
      <4>2. QED
        BY <1>10, <1>14, <3>2, <4>1, SameReplaces
    <3>3. QED
      BY <3>1, <3>2
  <2>7. QED
    BY <1>4, <2>1, <2>2, <2>3, <2>4, <2>5, <2>6 DEF Committed
<1>16. ingest' \in [Sessions -> {ingest'[o] : o \in Sessions}]
  BY <1>1
<1>17. ASSUME NEW o \in Sessions, ingest'[o].phase # "idle"
       PROVE  /\ o # s /\ Ingesting(o) /\ SeesCommit(ingest[o], i, ingest'[o])
              /\ ingest'[o].n = ingest[o].n
  <2>1. o # s /\ Ingesting(o)
    BY <1>1, <1>17 DEF NoIngest
  <2>2. DOMAIN ingest[o] = IngestFields /\ BucketsIn(o) = BucketsOf(ingest[o])
    BY <2>1, SessionIs
  <2> DEFINE k == ingest[o]
  <2>3. ingest'[o] = [k EXCEPT !.raced = k.raced \cup (BucketsOf(i) \cap BucketsOf(k))]
    BY <1>1, <1>3, <2>1, <2>2 DEF B
  <2> HIDE DEF k
  <2>4. SeesCommit(k, i, ingest'[o])
    BY <2>2, <2>3 DEF SeesCommit, IngestFields, k
  <2>5. QED
    BY <2>1, <2>4 DEF SeesCommit, k
<1>18. ASSUME NEW o \in Sessions
       PROVE  Session(ingest'[o], charges', tagRows', ingests')
  <2>1. CASE ingest'[o].phase = "idle"
    <3>1. o = s \/ ~ Ingesting(o)
      <4>1. SUFFICES ASSUME o # s, Ingesting(o)
                     PROVE  FALSE
        OBVIOUS
      <4>2. "phase" \in DOMAIN ingest[o]
        BY <4>1, SessionIs DEF IngestFields
      <4>3. ingest'[o] = [ingest[o] EXCEPT !.raced = @ \cup (BucketsIn(s) \cap BucketsIn(o))]
        BY <1>1, <4>1
      <4>4. ingest'[o].phase = ingest[o].phase
        BY <4>2, <4>3
      <4>5. QED
        BY <2>1, <4>1, <4>4 DEF Ingesting
    <3>2. ingest'[o] = NoIngest
      BY <1>1, <3>1
    <3>3. QED
      BY <3>2 DEF Session, NoIngest
  <2>2. CASE ingest'[o].phase # "idle"
    <3>1. o # s /\ Ingesting(o) /\ SeesCommit(ingest[o], i, ingest'[o]) /\ ingest'[o].n = ingest[o].n
      BY <1>17, <2>2
    <3>2. SessionInv(ingest[o], charges, tagRows) /\ ingest[o].n <= ingests /\ ingest[o].n # i.n
      BY <1>3, <3>1, SessionIs
    <3>3. SessionInv(ingest'[o], c2, t2)
      BY <1>3, <3>1, <3>2, CommitStep DEF c2, t2
    <3>4. QED
      BY <1>1, <1>4, <2>2, <3>1, <3>2, <3>3 DEF Session
  <2>3. QED
    BY <2>1, <2>2
<1>19. ASSUME NEW o \in Sessions, NEW p \in Sessions, o # p,
              ingest'[o].phase # "idle", ingest'[p].phase # "idle"
       PROVE  ingest'[o].n # ingest'[p].n
  <2>1. /\ Ingesting(o) /\ ingest'[o].n = ingest[o].n
        /\ Ingesting(p) /\ ingest'[p].n = ingest[p].n
    BY <1>17, <1>19
  <2>2. QED
    BY <1>19, <2>1 DEF IngestInv, SessionsInv
<1>20. SessionsInv'
  BY <1>16, <1>18, <1>19 DEF SessionsInv, Ingesting
<1>21. QED
  BY <1>15, <1>20 DEF IngestInv

\* Every step preserves the invariant of the ingests; a run writes nothing of theirs.
LEMMA StepIngest ==
  ASSUME IngestInv, [Next]_vars
  PROVE  IngestInv'
<1>1. ASSUME NEW s \in Sessions, Ingest(s)
      PROVE  IngestInv'
  BY <1>1, BeginStep, InsertChargeStep, FindChargeStep, StartDeleteStep, UpdateChargeStep,
     CommitIngestStep, FailsStep DEF Ingest
<1>2. CASE Run \/ UNCHANGED vars
  <2>1. UNCHANGED <<stored, ingest, ingests, newest, raced>>
    BY <1>2 DEF Run, RunStarts, ReadCharges, ReadTags, ReadCosts, RunCommits, RunFails, vars, history
  <2>2. charges' = charges /\ tagRows' = tagRows /\ ingest' = ingest /\ ingests' = ingests
        /\ newest' = newest /\ raced' = raced
    BY <2>1 DEF stored
  <2>3. Committed' /\ SessionsInv'
    BY <2>2 DEF IngestInv, Committed, SessionsInv, Ingesting
  <2>4. QED
    BY <2>3 DEF IngestInv
<1>3. QED
  BY <1>1, <1>2 DEF Next

\* The inductive invariant of the ingests.
THEOREM IngestsCorrect == Spec => []IngestInv
BY InitIngest, StepIngest, PTL DEF Spec

-----------------------------------------------------------------------------
\* An export ingested again replaces what an earlier one said of its buckets.
LEMMA SoloOf ==
  ASSUME IngestInv
  PROVE  SoloIngestsReplace
<1>1. SUFFICES ASSUME NEW b \in DOMAIN newest \ raced
               PROVE  LET ids == {id \in DOMAIN charges : charges[id].bucket = b} IN
                      /\ Cardinality(ids) = 1
                      /\ \A id \in ids :
                           /\ charges[id].cost = Sum(newest[b])
                           /\ charges[id].currency = newest[b][1].currency
                           /\ {<<t.index, t.key, t.value, t.cost>> : t \in TagRowsOf(id)} =
                                UNION {{<<k, key, newest[b][k].tags[key], newest[b][k].cost>> :
                                          key \in DOMAIN newest[b][k].tags} : k \in DOMAIN newest[b]}
                           /\ \A t, u \in TagRowsOf(id) : t.by = u.by
  BY DEF SoloIngestsReplace
<1> DEFINE ids == {id \in DOMAIN charges : charges[id].bucket = b}
           rows == newest[b]
<1>2. PICK a \in DOMAIN charges :
        /\ IsTheOne(charges, b, a)
        /\ charges[a].cost = Sum(rows) /\ charges[a].currency = rows[1].currency
        /\ \E n \in Nat : {x \in tagRows : x.charge = a} = TagRows(a, n, rows)
  BY DEF IngestInv, Committed, Replaces
<1>3. ids = {a}
  BY <1>2 DEF IsTheOne
<1>4. PICK n \in Nat : TagRowsOf(a) = TagRows(a, n, rows)
  BY <1>2 DEF TagRowsOf
<1> DEFINE said == UNION {{<<k, key, rows[k].tags[key], rows[k].cost>> :
                             key \in DOMAIN rows[k].tags} : k \in DOMAIN rows}
<1> HIDE DEF rows
<1>5. {<<t.index, t.key, t.value, t.cost>> : t \in TagRowsOf(a)} = said
  <2>1. ASSUME NEW t \in TagRows(a, n, rows)
        PROVE  <<t.index, t.key, t.value, t.cost>> \in said
    BY DEF TagRows
  <2>2. ASSUME NEW x \in said
        PROVE  \E t \in TagRows(a, n, rows) : x = <<t.index, t.key, t.value, t.cost>>
    <3>1. PICK k \in DOMAIN rows : \E key \in DOMAIN rows[k].tags :
            x = <<k, key, rows[k].tags[key], rows[k].cost>>
      OBVIOUS
    <3>2. PICK key \in DOMAIN rows[k].tags : x = <<k, key, rows[k].tags[key], rows[k].cost>>
      BY <3>1
    <3> DEFINE t == [charge |-> a, by |-> n, index |-> k, key |-> key,
                     value |-> rows[k].tags[key], cost |-> rows[k].cost]
    <3>3. t \in TagRows(a, n, rows)
      BY DEF TagRows
    <3>4. QED
      BY <3>2, <3>3
  <2> HIDE DEF said
  <2>3. QED
    BY <1>4, <2>1, <2>2
<1>6. \A t, u \in TagRowsOf(a) : t.by = u.by
  BY <1>4 DEF TagRows
<1>7. Cardinality(ids) = 1
  BY <1>3, FS_Singleton
<1>8. QED
  BY <1>2, <1>3, <1>5, <1>6, <1>7 DEF rows, said

\* SoloIngestsReplace: of the exports that were committed, the newest says what is stored.
THEOREM Solo == Spec => []SoloIngestsReplace
BY IngestsCorrect, SoloOf, PTL

-----------------------------------------------------------------------------
(* The runs: what they read, and that their amounts are integers.          *)

RunFields == {"phase", "key", "charges", "tags", "costs", "quiet"}

RunTypes ==
  IF run.phase = "idle" THEN run = NoRun
  ELSE /\ DOMAIN run = RunFields
       /\ run.phase \in {"charges", "tags", "costs", "emit"}
       /\ run.key \in TagKeys \cup {None} /\ run.quiet \in BOOLEAN
       /\ IsFiniteSet(DOMAIN run.charges)
       /\ \A id \in DOMAIN run.charges :
            /\ IsCharge(run.charges[id])
            /\ run.phase \in {"costs", "emit"} => IsFiniteSet(DOMAIN run.tags[id])
            /\ run.phase = "emit" =>
                 /\ IsFiniteSet(DOMAIN run.costs[id])
                 /\ \A k \in DOMAIN run.costs[id] : run.costs[id][k] \in Int

\* What a quiet run has read is what is stored.
QuietReads ==
  run.phase # "idle" /\ run.quiet =>
    /\ run.phase # "charges" => run.charges = charges
    /\ run.phase \in {"costs", "emit"} =>
         \A id \in DOMAIN charges : run.tags[id] \in TagDicts(id)
    /\ run.phase = "emit" =>
         \A id \in DOMAIN charges : run.costs[id] \in RowCosts(id)

Shapes ==
  /\ RunTypes /\ runs \in 0..MaxRuns
  /\ \A x \in insights : x.cost \in Int /\ x.key \in TagKeys \cup {None}
  /\ DOMAIN names = {x.group : x \in insights}

\* A pick has one of the options at each place.
LEMMA PicksAre ==
  ASSUME NEW options, NEW f \in Picks(options)
  PROVE  DOMAIN f = DOMAIN options /\ \A k \in DOMAIN options : f[k] \in options[k]
BY DEF Picks

\* There are finitely many numbers of input rows.
LEMMA IndexesFinite ==
  ASSUME NEW rows, IsFiniteSet(rows), \A t \in rows : IsTag(t)
  PROVE  IsFiniteSet(Indexes(rows))
<1> DEFINE upto == [t \in rows |-> 1..t.index]
<1>1. IsFiniteSet({upto[t] : t \in rows})
  <2> HIDE DEF upto
  <2>1. QED
    BY ImageFinite
<1>2. \A S \in {upto[t] : t \in rows} : IsFiniteSet(S)
  BY FS_Interval DEF IsTag
<1>3. {upto[t] : t \in rows} = {1..t.index : t \in rows}
  OBVIOUS
<1>4. IsFiniteSet(UNION {upto[t] : t \in rows})
  BY <1>1, <1>2, FS_UNION
<1>5. QED
  BY <1>3, <1>4 DEF Indexes

\* What is read of the tag rows of a charge.
LEMMA Reads ==
  ASSUME IngestInv, NEW id
  PROVE  /\ IsFiniteSet(TagRowsOf(id)) /\ \A t \in TagRowsOf(id) : IsTag(t)
         /\ IsFiniteSet(Indexes(TagRowsOf(id)))
         /\ \A d \in TagDicts(id) : DOMAIN d = Indexes(TagRowsOf(id))
         /\ \A c \in RowCosts(id) : /\ DOMAIN c = Indexes(TagRowsOf(id))
                                    /\ \A k \in DOMAIN c : c[k] \in Int
<1>1. IsFiniteSet(tagRows) /\ \A t \in tagRows : IsTag(t)
  BY DEF IngestInv, Committed, Stored
<1>2. IsFiniteSet(TagRowsOf(id)) /\ \A t \in TagRowsOf(id) : IsTag(t)
  BY <1>1, FS_Subset DEF TagRowsOf
<1>3. IsFiniteSet(Indexes(TagRowsOf(id)))
  BY <1>2, IndexesFinite
<1>4. \A d \in TagDicts(id) : DOMAIN d = Indexes(TagRowsOf(id))
  BY PicksAre DEF TagDicts
<1>5. ASSUME NEW c \in RowCosts(id)
      PROVE  DOMAIN c = Indexes(TagRowsOf(id)) /\ \A k \in DOMAIN c : c[k] \in Int
  <2> DEFINE At1(k) == {t \in TagRowsOf(id) : t.index = k}
             options == [k \in Indexes(TagRowsOf(id)) |-> IF At1(k) = {} THEN {0} ELSE {t.cost : t \in At1(k)}]
  <2>1. c \in Picks(options)
    BY DEF RowCosts
  <2>2. DOMAIN c = DOMAIN options /\ \A k \in DOMAIN options : c[k] \in options[k]
    <3> HIDE DEF options
    <3>1. QED
      BY <2>1, PicksAre
  <2>3. \A k \in DOMAIN options : options[k] \subseteq Int
    BY <1>2 DEF IsTag
  <2>4. QED
    BY <2>2, <2>3
<1>6. QED
  BY <1>2, <1>3, <1>4, <1>5

-----------------------------------------------------------------------------
\* What a charge gives, by tag or by period.
AmountsOf(c) == IF run.key # None THEN ByTag(c) ELSE ByPeriod(c)

\* A charge gives finitely many amounts.
LEMMA AmountsTyped ==
  ASSUME RunTypes, run.phase = "emit", NEW id \in DOMAIN run.charges
  PROVE  /\ IsFiniteSet(AmountsOf(FocusCharge(id)))
         /\ \A a \in AmountsOf(FocusCharge(id)) : a.cost \in Int
<1> DEFINE c == FocusCharge(id)
<1>1. /\ c.cost \in Int /\ IsFiniteSet(DOMAIN c.tags) /\ IsFiniteSet(DOMAIN c.costs)
      /\ \A k \in DOMAIN c.costs : c.costs[k] \in Int
  BY DEF FocusCharge, RunTypes, IsCharge
<1> HIDE DEF c
<1>o. ASSUME NEW service, NEW value
      PROVE  LET S == {Amount(0, service, value, c.cost)} IN
             IsFiniteSet(S) /\ \A a \in S : a.cost \in Int
  <2>1. Amount(0, service, value, c.cost).cost \in Int
    BY <1>1 DEF Amount
  <2>2. QED
    BY <2>1, FS_Singleton
<1>2. /\ IsFiniteSet(ByPeriod(c)) /\ \A a \in ByPeriod(c) : a.cost \in Int
  <2>1. ByPeriod(c) = {Amount(0, c.bucket.service, None, c.cost)}
    BY DEF ByPeriod
  <2>2. QED
    BY <1>o, <2>1
<1>3. /\ IsFiniteSet(ByRowCount(c)) /\ \A a \in ByRowCount(c) : a.cost \in Int
  <2> DEFINE tagged == {k \in DOMAIN c.tags : run.key \in DOMAIN c.tags[k]}
  <2>1. CASE tagged = {}
    <3>1. ByRowCount(c) = {Amount(0, c.native, UNTAGGED, c.cost)}
      BY <2>1 DEF ByRowCount
    <3>2. QED
      BY <1>o, <3>1
  <2>2. CASE tagged # {}
    <3> DEFINE h == [k \in tagged |-> Amount(k, c.native, c.tags[k][run.key], c.cost \div Cardinality(tagged))]
    <3>1. ByRowCount(c) = {h[k] : k \in tagged}
      BY <2>2 DEF ByRowCount
    <3>2. IsFiniteSet(tagged)
      BY <1>1, FS_Subset
    <3>3. Cardinality(tagged) \in Nat /\ Cardinality(tagged) # 0
      <4> HIDE DEF tagged
      <4>1. QED
        BY <2>2, <3>2, FS_CardinalityType, FS_EmptySet
    <3>4. c.cost \div Cardinality(tagged) \in Int
      <4> HIDE DEF tagged
      <4>1. QED
        BY <1>1, <3>3
    <3>5. \A k \in tagged : h[k].cost \in Int
      BY <3>4 DEF Amount
    <3> HIDE DEF h, tagged
    <3>6. IsFiniteSet({h[k] : k \in tagged})
      BY <3>2, ImageFinite
    <3>7. QED
      BY <3>1, <3>5, <3>6
  <2>3. QED
    BY <2>1, <2>2
<1>4. /\ IsFiniteSet(ByTag(c)) /\ \A a \in ByTag(c) : a.cost \in Int
  <2>1. CASE DOMAIN c.costs # {}
    <3> DEFINE h == [k \in DOMAIN c.costs |->
                       Amount(k, c.bucket.service, ValueOf(c.tags[k], run.key), c.costs[k])]
    <3>1. ByTag(c) = {h[k] : k \in DOMAIN c.costs}
      BY <2>1 DEF ByTag
    <3>2. \A k \in DOMAIN c.costs : h[k].cost \in Int
      BY <1>1 DEF Amount
    <3> HIDE DEF h
    <3>3. IsFiniteSet({h[k] : k \in DOMAIN c.costs})
      BY <1>1, ImageFinite
    <3>4. QED
      BY <3>1, <3>2, <3>3
  <2>2. CASE DOMAIN c.costs = {} /\ DOMAIN c.tags # {}
    BY <1>3, <2>2 DEF ByTag
  <2>3. CASE DOMAIN c.costs = {} /\ DOMAIN c.tags = {}
    <3>1. ByTag(c) = {Amount(0, c.bucket.service, UNTAGGED, c.cost)}
      BY <2>3 DEF ByTag
    <3>2. QED
      BY <1>o, <3>1
  <2>4. QED
    BY <2>1, <2>2, <2>3
<1>5. QED
  BY <1>2, <1>4 DEF AmountsOf, c

\* The amounts of a run are those of its charges.
LEMMA AllAmountsAre ==
  \A x : x \in AllAmounts <=>
    \E id \in DOMAIN run.charges : \E a \in AmountsOf(FocusCharge(id)) :
      x = [charge |-> FocusCharge(id), a |-> a]
BY DEF AllAmounts, AmountsOf

\* And there are finitely many of them.
LEMMA AllAmountsTyped ==
  ASSUME RunTypes, run.phase = "emit"
  PROVE  IsFiniteSet(AllAmounts) /\ \A x \in AllAmounts : x.a.cost \in Int
<1> DEFINE given == [id \in DOMAIN run.charges |->
                       {[charge |-> FocusCharge(id), a |-> a] : a \in AmountsOf(FocusCharge(id))}]
<1>1. \A x \in AllAmounts : x.a.cost \in Int
  BY AllAmountsAre, AmountsTyped
<1>2. ASSUME NEW id \in DOMAIN run.charges
      PROVE  IsFiniteSet(given[id])
  <2> DEFINE h == [a \in AmountsOf(FocusCharge(id)) |-> [charge |-> FocusCharge(id), a |-> a]]
  <2>1. given[id] = {h[a] : a \in AmountsOf(FocusCharge(id))}
    OBVIOUS
  <2>2. IsFiniteSet(AmountsOf(FocusCharge(id)))
    BY AmountsTyped
  <2> HIDE DEF h, given
  <2>3. QED
    BY <2>1, <2>2, ImageFinite
<1>3. IsFiniteSet(DOMAIN run.charges)
  BY DEF RunTypes
<1>4. AllAmounts = UNION {given[id] : id \in DOMAIN run.charges}
  <2>1. \A x : x \in AllAmounts <=> \E id \in DOMAIN run.charges : x \in given[id]
    <3>1. ASSUME NEW id \in DOMAIN run.charges, NEW x
          PROVE  x \in given[id] <=>
                   \E a \in AmountsOf(FocusCharge(id)) : x = [charge |-> FocusCharge(id), a |-> a]
      OBVIOUS
    <3> HIDE DEF given
    <3>2. QED
      BY <3>1, AllAmountsAre
  <2> HIDE DEF given
  <2>2. QED
    BY <2>1
<1> HIDE DEF given
<1>5. IsFiniteSet({given[id] : id \in DOMAIN run.charges})
  BY <1>3, ImageFinite
<1>6. QED
  BY <1>1, <1>2, <1>4, <1>5, FS_UNION

\* The sum of a group.
GroupCost(g) == SumFunction([x \in {y \in AllAmounts : Group(y) = g} |-> x.a.cost])

\* There is an insight for each group of amounts.
LEMMA InsightsAre ==
  Insights = {[group |-> g, key |-> run.key, cost |-> GroupCost(g)] :
                g \in {Group(x) : x \in AllAmounts}}
<1>1. Aggregated = {[group |-> g, cost |-> GroupCost(g)] : g \in {Group(x) : x \in AllAmounts}}
  BY DEF Aggregated, GroupCost
<1> DEFINE A == {[group |-> g, cost |-> GroupCost(g)] : g \in {Group(x) : x \in AllAmounts}}
           I == {[group |-> g, key |-> run.key, cost |-> GroupCost(g)] :
                   g \in {Group(x) : x \in AllAmounts}}
<1>2. Insights = {[group |-> a.group, key |-> run.key, cost |-> a.cost] : a \in A}
  BY <1>1 DEF Insights
<1>3. ASSUME NEW a \in A
      PROVE  [group |-> a.group, key |-> run.key, cost |-> a.cost] \in I
  OBVIOUS
<1>4. ASSUME NEW x \in I
      PROVE  \E a \in A : x = [group |-> a.group, key |-> run.key, cost |-> a.cost]
  <2>1. PICK g \in {Group(y) : y \in AllAmounts} : x = [group |-> g, key |-> run.key, cost |-> GroupCost(g)]
    OBVIOUS
  <2>2. [group |-> g, cost |-> GroupCost(g)] \in A
    OBVIOUS
  <2>3. QED
    BY <2>1, <2>2
<1> HIDE DEF A, I
<1>5. Insights = I
  BY <1>2, <1>3, <1>4
<1>6. QED
  BY <1>5 DEF I

\* The cost of an insight is an amount, and its key the key of the run.
LEMMA InsightsTyped ==
  ASSUME RunTypes, run.phase = "emit"
  PROVE  \A x \in Insights : x.cost \in Int /\ x.key \in TagKeys \cup {None}
<1>1. ASSUME NEW g
      PROVE  GroupCost(g) \in Int
  <2> DEFINE S == {y \in AllAmounts : Group(y) = g}
             f == [x \in S |-> x.a.cost]
  <2>1. IsFiniteSet(S) /\ \A x \in S : x.a.cost \in Int
    BY AllAmountsTyped, FS_Subset
  <2>2. GroupCost(g) = SumFunctionOnSet(f, S)
    BY DEF GroupCost, SumFunction
  <2>3. \A x \in S : f[x] \in Int
    BY <2>1
  <2> HIDE DEF f, S
  <2>4. QED
    BY <2>1, <2>2, <2>3, SumInt
<1>2. run.key \in TagKeys \cup {None}
  BY DEF RunTypes
<1>3. QED
  BY <1>1, <1>2, InsightsAre

\* No run is under way at first.
LEMMA InitRun ==
  ASSUME Init
  PROVE  Shapes /\ QuietReads
<1>1. run = NoRun /\ NoRun.phase = "idle" /\ runs = 0 /\ insights = {} /\ names = <<>>
  BY DEF Init, NoRun
<1>2. QED
  BY <1>1, BoundsAssumption DEF Shapes, RunTypes, QuietReads

\* RunStarts: nothing was read yet.
LEMMA RunStartsStep ==
  ASSUME IngestInv, Shapes, QuietReads, RunStarts
  PROVE  Shapes' /\ QuietReads'
<1>1. PICK key \in TagKeys \cup {None} :
        run' = [phase |-> "charges", key |-> key, charges |-> <<>>, tags |-> <<>>,
                costs |-> <<>>, quiet |-> TRUE]
  BY DEF RunStarts
<1>2. runs < MaxRuns /\ runs' = runs + 1 /\ insights' = insights /\ names' = names
  BY DEF RunStarts
<1>3. /\ DOMAIN run' = RunFields /\ run'.phase = "charges" /\ run'.key = key /\ run'.quiet = TRUE
      /\ run'.charges = <<>>
  BY <1>1 DEF RunFields
<1>4. DOMAIN run'.charges = {}
  BY <1>3
<1>5. RunTypes'
  BY <1>3, <1>4, FS_EmptySet DEF RunTypes
<1>6. runs' \in 0..MaxRuns
  BY <1>2, BoundsAssumption DEF Shapes
<1>7. Shapes'
  BY <1>2, <1>5, <1>6 DEF Shapes
<1>8. QuietReads'
  BY <1>3 DEF QuietReads
<1>9. QED
  BY <1>7, <1>8

\* ReadCharges: what is read are charges.
LEMMA ReadChargesStep ==
  ASSUME IngestInv, Shapes, QuietReads, ReadCharges
  PROVE  Shapes' /\ QuietReads'
<1>1. /\ run.phase = "charges" /\ run' = [run EXCEPT !.phase = "tags", !.charges = charges]
      /\ charges' = charges /\ runs' = runs /\ insights' = insights /\ names' = names
  BY DEF ReadCharges, stored
<1>2. DOMAIN run = RunFields /\ run.key \in TagKeys \cup {None} /\ run.quiet \in BOOLEAN
  BY <1>1 DEF Shapes, RunTypes
<1>3. /\ DOMAIN run' = RunFields /\ run'.phase = "tags" /\ run'.key = run.key
      /\ run'.quiet = run.quiet /\ run'.charges = charges
  BY <1>1, <1>2 DEF RunFields
<1>4. IsFiniteSet(DOMAIN charges) /\ \A id \in DOMAIN charges : IsCharge(charges[id])
  BY DEF IngestInv, Committed, Stored
<1>5. RunTypes'
  BY <1>2, <1>3, <1>4 DEF RunTypes
<1>6. Shapes'
  BY <1>1, <1>5 DEF Shapes
<1>7. QuietReads'
  BY <1>1, <1>3 DEF QuietReads
<1>8. QED
  BY <1>6, <1>7

\* ReadTags: tags of each charge that was read.
LEMMA ReadTagsStep ==
  ASSUME IngestInv, Shapes, QuietReads, ReadTags
  PROVE  Shapes' /\ QuietReads'
<1>1. PICK d \in Picks([id \in DOMAIN run.charges |-> TagDicts(id)]) :
        run' = [run EXCEPT !.phase = "costs", !.tags = d]
  BY DEF ReadTags
<1>2. /\ run.phase = "tags" /\ charges' = charges /\ tagRows' = tagRows /\ runs' = runs
      /\ insights' = insights /\ names' = names
  BY DEF ReadTags, stored
<1>3. /\ DOMAIN run = RunFields /\ run.key \in TagKeys \cup {None} /\ run.quiet \in BOOLEAN
      /\ IsFiniteSet(DOMAIN run.charges) /\ \A id \in DOMAIN run.charges : IsCharge(run.charges[id])
  BY <1>2 DEF Shapes, RunTypes
<1>4. /\ DOMAIN run' = RunFields /\ run'.phase = "costs" /\ run'.key = run.key
      /\ run'.quiet = run.quiet /\ run'.charges = run.charges /\ run'.tags = d
  BY <1>1, <1>3 DEF RunFields
<1>5. \A id \in DOMAIN run.charges : d[id] \in TagDicts(id)
  BY <1>1, PicksAre
<1>6. \A id \in DOMAIN run.charges : IsFiniteSet(DOMAIN d[id])
  BY <1>5, Reads
<1>7. RunTypes'
  BY <1>3, <1>4, <1>6 DEF RunTypes
<1>8. Shapes'
  BY <1>2, <1>7 DEF Shapes
<1>9. \A id : TagDicts(id)' = TagDicts(id)
  BY <1>2 DEF TagDicts, TagRowsOf
<1>10. QuietReads'
  BY <1>2, <1>4, <1>5, <1>9 DEF QuietReads
<1>11. QED
  BY <1>8, <1>10

\* ReadCosts: costs of each charge that was read.
LEMMA ReadCostsStep ==
  ASSUME IngestInv, Shapes, QuietReads, ReadCosts
  PROVE  Shapes' /\ QuietReads'
<1>1. PICK d \in Picks([id \in DOMAIN run.charges |-> RowCosts(id)]) :
        run' = [run EXCEPT !.phase = "emit", !.costs = d]
  BY DEF ReadCosts
<1>2. /\ run.phase = "costs" /\ charges' = charges /\ tagRows' = tagRows /\ runs' = runs
      /\ insights' = insights /\ names' = names
  BY DEF ReadCosts, stored
<1>3. /\ DOMAIN run = RunFields /\ run.key \in TagKeys \cup {None} /\ run.quiet \in BOOLEAN
      /\ IsFiniteSet(DOMAIN run.charges)
      /\ \A id \in DOMAIN run.charges : IsCharge(run.charges[id]) /\ IsFiniteSet(DOMAIN run.tags[id])
  BY <1>2 DEF Shapes, RunTypes
<1>4. /\ DOMAIN run' = RunFields /\ run'.phase = "emit" /\ run'.key = run.key
      /\ run'.quiet = run.quiet /\ run'.charges = run.charges /\ run'.tags = run.tags
      /\ run'.costs = d
  BY <1>1, <1>3 DEF RunFields
<1>5. \A id \in DOMAIN run.charges : d[id] \in RowCosts(id)
  BY <1>1, PicksAre
<1>6. \A id \in DOMAIN run.charges :
        IsFiniteSet(DOMAIN d[id]) /\ \A k \in DOMAIN d[id] : d[id][k] \in Int
  BY <1>5, Reads
<1>7. RunTypes'
  BY <1>3, <1>4, <1>6 DEF RunTypes
<1>8. Shapes'
  BY <1>2, <1>7 DEF Shapes
<1>9. \A id : TagDicts(id)' = TagDicts(id) /\ RowCosts(id)' = RowCosts(id)
  BY <1>2 DEF TagDicts, RowCosts, TagRowsOf
<1>10. QuietReads'
  BY <1>2, <1>4, <1>5, <1>9 DEF QuietReads
<1>11. QED
  BY <1>8, <1>10

\* A run that ends.
LEMMA RunEndsStep ==
  ASSUME IngestInv, Shapes, QuietReads, RunCommits \/ RunFails
  PROVE  Shapes' /\ QuietReads'
<1>1. run' = NoRun /\ NoRun.phase = "idle" /\ runs' = runs
  BY DEF RunCommits, RunFails, NoRun
<1>2. \A x \in insights' : x.cost \in Int /\ x.key \in TagKeys \cup {None}
  <2>1. CASE RunFails
    BY <2>1 DEF RunFails, Shapes
  <2>2. CASE RunCommits
    <3>1. run.phase = "emit" /\ (insights' = {} \/ insights' = Insights)
      BY <2>2 DEF RunCommits
    <3>2. QED
      BY <3>1, InsightsTyped DEF Shapes
  <2>3. QED
    BY <2>1, <2>2
<1>3. DOMAIN names' = {x.group : x \in insights'}
  <2>1. CASE RunFails
    BY <2>1 DEF RunFails, Shapes
  <2>2. CASE RunCommits
    <3>1. CASE Mismatched
      <4>1. insights' = {} /\ names' = <<>>
        BY <2>2, <3>1 DEF RunCommits
      <4>2. QED
        BY <4>1
    <3>2. CASE ~ Mismatched
      <4>1. insights' = Insights /\ \E order : names' = Names(order)
        BY <2>2, <3>2 DEF RunCommits
      <4>2. DOMAIN names' = {a.group : a \in Aggregated}
        BY <4>1 DEF Names
      <4>3. {x.group : x \in Insights} = {a.group : a \in Aggregated}
        <5> DEFINE A == Aggregated
        <5>1. Insights = {[group |-> a.group, key |-> run.key, cost |-> a.cost] : a \in A}
          BY DEF Insights
        <5> HIDE DEF A
        <5>2. \A x \in Insights : \E a \in A : x.group = a.group
          BY <5>1
        <5>3. \A a \in A : \E x \in Insights : x.group = a.group
          <6>1. ASSUME NEW a \in A
                PROVE  [group |-> a.group, key |-> run.key, cost |-> a.cost] \in Insights
            BY <5>1
          <6>2. QED
            BY <6>1
        <5>4. {x.group : x \in Insights} = {a.group : a \in A}
          BY <5>2, <5>3
        <5>5. QED
          BY <5>4 DEF A
      <4>4. QED
        BY <4>1, <4>2, <4>3
    <3>3. QED
      BY <3>1, <3>2
  <2>3. QED
    BY <2>1, <2>2
<1>4. QED
  BY <1>1, <1>2, <1>3 DEF Shapes, RunTypes, QuietReads

\* An ingest that commits ends the quiet of a run.
LEMMA RunsOn ==
  ASSUME IngestInv, Shapes, QuietReads, NEW s \in Sessions, Ingest(s)
  PROVE  Shapes' /\ QuietReads'
<1>1. CASE CommitIngest(s)
  <2>1. /\ run' = IF run = NoRun THEN run ELSE [run EXCEPT !.quiet = FALSE]
        /\ runs' = runs /\ insights' = insights /\ names' = names
    BY <1>1 DEF CommitIngest
  <2>2. CASE run.phase = "idle"
    <3>1. run' = run /\ run.phase = "idle"
      BY <2>1, <2>2 DEF Shapes, RunTypes
    <3>2. QED
      BY <2>1, <3>1 DEF Shapes, RunTypes, QuietReads
  <2>3. CASE run.phase # "idle"
    <3>1. run # NoRun
      BY <2>3 DEF NoRun
    <3>2. DOMAIN run = RunFields
      BY <2>3 DEF Shapes, RunTypes
    <3>3. /\ DOMAIN run' = RunFields /\ run'.phase = run.phase /\ run'.key = run.key
          /\ run'.charges = run.charges /\ run'.tags = run.tags /\ run'.costs = run.costs
          /\ run'.quiet = FALSE
      BY <2>1, <3>1, <3>2 DEF RunFields
    <3>4. RunTypes'
      BY <2>3, <3>3 DEF Shapes, RunTypes
    <3>5. QED
      BY <2>1, <3>3, <3>4 DEF Shapes, QuietReads
  <2>4. QED
    BY <2>2, <2>3
<1>2. CASE ~ CommitIngest(s)
  <2>1. run' = run /\ runs' = runs /\ insights' = insights /\ names' = names /\ UNCHANGED stored
    BY <1>2 DEF Ingest, BeginIngest, InsertCharge, FindCharge, StartDelete, UpdateCharge, IngestFails
  <2>2. charges' = charges /\ tagRows' = tagRows
    BY <2>1 DEF stored
  <2>3. \A id : TagDicts(id)' = TagDicts(id) /\ RowCosts(id)' = RowCosts(id)
    BY <2>2 DEF TagDicts, RowCosts, TagRowsOf
  <2>4. Shapes'
    BY <2>1 DEF Shapes, RunTypes
  <2>5. QuietReads'
    BY <2>1, <2>2, <2>3 DEF QuietReads
  <2>6. QED
    BY <2>4, <2>5
<1>3. QED
  BY <1>1, <1>2

\* Every step preserves the invariant of the runs.
LEMMA StepRun ==
  ASSUME IngestInv, Shapes, QuietReads, [Next]_vars
  PROVE  Shapes' /\ QuietReads'
<1>1. CASE Run
  BY <1>1, RunStartsStep, ReadChargesStep, ReadTagsStep, ReadCostsStep, RunEndsStep DEF Run
<1>2. ASSUME NEW s \in Sessions, Ingest(s)
      PROVE  Shapes' /\ QuietReads'
  BY <1>2, RunsOn
<1>3. CASE UNCHANGED vars
  <2>1. run' = run /\ runs' = runs /\ insights' = insights /\ names' = names /\ charges' = charges /\ tagRows' = tagRows
    BY <1>3 DEF vars, stored
  <2>2. \A id : TagDicts(id)' = TagDicts(id) /\ RowCosts(id)' = RowCosts(id)
    BY <2>1 DEF TagDicts, RowCosts, TagRowsOf
  <2>3. QED
    BY <2>1, <2>2 DEF Shapes, RunTypes, QuietReads
<1>4. QED
  BY <1>1, <1>2, <1>3 DEF Next

\* The inductive invariant of the runs beside that of the ingests.
THEOREM RunsCorrect == Spec => [](Shapes /\ QuietReads)
<1>1. Init => IngestInv /\ Shapes /\ QuietReads
  BY InitIngest, InitRun
<1>2. IngestInv /\ Shapes /\ QuietReads /\ [Next]_vars => (IngestInv /\ Shapes /\ QuietReads)'
  BY StepIngest, StepRun
<1>3. QED
  BY <1>1, <1>2, PTL DEF Spec

\* The invariants give the types.
LEMMA TypesOf ==
  ASSUME IngestInv, Shapes
  PROVE  TypeOK
<1>1. /\ Stored(charges, tagRows) /\ ingests \in 0..MaxIngests
      /\ DOMAIN newest = {charges[id].bucket : id \in DOMAIN charges} /\ raced \subseteq DOMAIN newest
  BY DEF IngestInv, Committed
<1>2. \A id \in DOMAIN charges :
        /\ DOMAIN charges[id] = {"bucket", "native", "currency", "cost"}
        /\ charges[id].currency \in FOCUS_VALID_CURRENCIES
        /\ charges[id].cost \in Int
  BY <1>1 DEF Stored, IsCharge
<1>3. \A t \in tagRows :
        /\ DOMAIN t = {"charge", "by", "index", "key", "value", "cost"}
        /\ t.charge \in DOMAIN charges
        /\ t.index \in Nat \ {0} /\ t.cost \in Int
  BY <1>1 DEF Stored, IsTag
<1>4. \A s \in Sessions : ingest[s].phase \in {"idle", "row", "delete", "update"}
  BY DEF IngestInv, SessionsInv, Session, SessionInv, Types
<1>5. /\ run.phase \in {"idle", "charges", "tags", "costs", "emit"} /\ runs \in 0..MaxRuns
      /\ \A x \in insights : x.cost \in Int /\ x.key \in TagKeys \cup {None}
      /\ DOMAIN names = {x.group : x \in insights}
  BY DEF Shapes, RunTypes
<1>6. QED
  BY <1>1, <1>2, <1>3, <1>4, <1>5 DEF TypeOK

\* TypeOK: a stored amount is an amount in a known currency, and a tag row has its charge.
THEOREM TypeCorrect == Spec => []TypeOK
BY IngestsCorrect, RunsCorrect, TypesOf, PTL

-----------------------------------------------------------------------------
(* What a quiet run shows, against the rows that were ingested.            *)

\* A run is about to commit, nothing was ingested under it, no bucket is raced.
Quiet ==
  /\ IngestInv /\ Shapes /\ QuietReads
  /\ run.phase = "emit" /\ run.quiet /\ raced = {}

\* The charge of a bucket, with what is stored of its rows.
ChargeOf(b, id) ==
  /\ id \in DOMAIN run.charges /\ run.charges = charges /\ IsTheOne(charges, b, id)
  /\ charges[id].bucket = b
  /\ charges[id].cost = Sum(newest[b]) /\ charges[id].currency = newest[b][1].currency
  /\ \E n \in Nat : TagRowsOf(id) = TagRows(id, n, newest[b])
  /\ run.tags[id] \in TagDicts(id) /\ run.costs[id] \in RowCosts(id)

\* Every bucket has its charge.
LEMMA HasCharge ==
  ASSUME Quiet, NEW b \in DOMAIN newest
  PROVE  AreOf(newest[b], b) /\ \E id : ChargeOf(b, id)
<1>1. AreOf(newest[b], b) /\ Replaces(charges, tagRows, b, newest[b])
  BY DEF Quiet, IngestInv, Committed
<1>2. PICK id \in DOMAIN charges :
        /\ IsTheOne(charges, b, id)
        /\ charges[id].cost = Sum(newest[b]) /\ charges[id].currency = newest[b][1].currency
        /\ \E n \in Nat : {x \in tagRows : x.charge = id} = TagRows(id, n, newest[b])
  BY <1>1 DEF Replaces
<1>3. /\ run.charges = charges /\ run.tags[id] \in TagDicts(id) /\ run.costs[id] \in RowCosts(id)
  BY DEF Quiet, QuietReads
<1>4. charges[id].bucket = b
  BY <1>2 DEF IsTheOne
<1>5. ChargeOf(b, id)
  BY <1>2, <1>3, <1>4 DEF ChargeOf, TagRowsOf
<1>6. QED
  BY <1>1, <1>5

\* And every charge that was read is one.
LEMMA AllAreCharges ==
  ASSUME Quiet, NEW id \in DOMAIN run.charges
  PROVE  charges[id].bucket \in DOMAIN newest /\ ChargeOf(charges[id].bucket, id)
<1>1. run.charges = charges
  BY DEF Quiet, QuietReads
<1>2. charges[id].bucket \in DOMAIN newest
  BY <1>1 DEF Quiet, IngestInv, Committed
<1>3. PICK a : ChargeOf(charges[id].bucket, a)
  BY <1>2, HasCharge
<1>4. a = id
  BY <1>1, <1>3 DEF ChargeOf, IsTheOne
<1>5. QED
  BY <1>2, <1>3, <1>4

\* A bucket is its service and its period.
LEMMA BucketIs ==
  ASSUME NEW rows, NEW b, AreOf(rows, b), NEW others, NEW a, AreOf(others, a),
         a.service = b.service, a.period = b.period
  PROVE  a = b
<1>1. rows[1] \in ToSet(rows) /\ others[1] \in ToSet(others)
  BY DEF AreOf, ToSet
<1>2. b = BucketOf(rows[1]) /\ a = BucketOf(others[1])
  BY <1>1 DEF AreOf
<1>3. QED
  BY <1>2 DEF BucketOf

\* The rows of a bucket that is shown.
LEMMA InputRowsOf ==
  ASSUME \A b \in DOMAIN newest : AreOf(newest[b], b), NEW b \in DOMAIN newest
  PROVE  /\ \A p : p \in InputRows /\ At(p, b) <=> \E k \in DOMAIN newest[b] : p = <<b, k>>
         /\ \A k \in DOMAIN newest[b] : /\ RowAt(<<b, k>>) = newest[b][k]
                                        /\ newest[b][k].currency = newest[b][1].currency
                                        /\ newest[b][k].cost \in Int
<1>1. \A a \in DOMAIN newest : \A k \in DOMAIN newest[a] :
        RowAt(<<a, k>>) = newest[a][k] /\ BucketOf(newest[a][k]) = a /\ IsRow(newest[a][k])
  BY DEF RowAt, AreOf, AreRows, ToSet
<1>2. \A p : p \in InputRows <=> \E a \in DOMAIN newest : \E k \in DOMAIN newest[a] : p = <<a, k>>
  BY DEF InputRows
<1>3. \A p : p \in InputRows /\ At(p, b) <=> \E k \in DOMAIN newest[b] : p = <<b, k>>
  BY <1>1, <1>2 DEF At
<1>4. \A k \in DOMAIN newest[b] : newest[b][k].currency = newest[b][1].currency
  <2>1. 1 \in DOMAIN newest[b] /\ ~ MixesCurrencies(newest[b])
    BY DEF AreOf, AreRows
  <2>2. \A k \in DOMAIN newest[b] : BucketOf(newest[b][k]) = BucketOf(newest[b][1])
    BY <1>1, <2>1
  <2>3. \A k, l \in DOMAIN newest[b] :
          BucketOf(newest[b][k]) = BucketOf(newest[b][l]) => newest[b][k].currency = newest[b][l].currency
    BY <2>1 DEF MixesCurrencies
  <2>4. QED
    BY <2>1, <2>2, <2>3
<1>5. \A k \in DOMAIN newest[b] : newest[b][k].cost \in Int
  BY <1>1 DEF IsRow
<1>6. QED
  BY <1>1, <1>3, <1>4, <1>5

CostsOf(b) == [k \in DOMAIN newest[b] |-> newest[b][k].cost]

\* The total of rows of a bucket, summed up by their numbers.
LEMMA TotalOf ==
  ASSUME \A b \in DOMAIN newest : AreOf(newest[b], b), NEW b \in DOMAIN newest,
         NEW K \in SUBSET DOMAIN newest[b]
  PROVE  Total({<<b, k>> : k \in K}) = SumFunctionOnSet(CostsOf(b), K)
<1> DEFINE P == {<<b, k>> : k \in K}
           g == [p \in P |-> RowAt(p).cost]
           h == [k \in K |-> <<b, k>>]
           f == CostsOf(b)
<1>1. IsFiniteSet(K)
  BY Numbers DEF AreOf, AreRows
<1>2. \A k \in K : f[k] = newest[b][k].cost /\ f[k] \in Int /\ RowAt(<<b, k>>) = newest[b][k]
  BY InputRowsOf DEF CostsOf
<1>3. \A k \in K : h[k] \in P /\ f[k] \in Int /\ g[h[k]] = f[k]
  BY <1>2
<1>4. \A k, l \in K : h[k] = h[l] => k = l
  OBVIOUS
<1>5. \A p \in P : \E k \in K : h[k] = p
  OBVIOUS
<1>6. Total(P) = SumFunctionOnSet(g, P)
  BY DEF Total, SumFunction
<1> HIDE DEF g, h, P, f
<1>7. SumFunctionOnSet(f, K) = SumFunctionOnSet(g, P)
  BY <1>1, <1>3, <1>4, <1>5, SumBijection
<1>8. QED
  BY <1>6, <1>7 DEF P, f

\* What the insights of a group show is what its amounts sum to.
LEMMA ShownIs ==
  ASSUME RunTypes, run.phase = "emit", NEW g
  PROVE  Shown({x \in Insights : x.group = g}) = GroupCost(g)
<1> DEFINE X == {x \in Insights : x.group = g}
           Y == {y \in AllAmounts : Group(y) = g}
           f == [x \in X |-> x.cost]
           z == [group |-> g, key |-> run.key, cost |-> GroupCost(g)]
<1>1. Shown(X) = SumFunctionOnSet(f, X)
  BY DEF Shown, SumFunction
<1>2. \A x : x \in X <=> x = z /\ Y # {}
  <2>1. \A x : x \in Insights <=> \E y \in AllAmounts :
          x = [group |-> Group(y), key |-> run.key, cost |-> GroupCost(Group(y))]
    BY InsightsAre
  <2>2. z.group = g
    OBVIOUS
  <2>3. ASSUME NEW x \in X
        PROVE  x = z /\ Y # {}
    <3>1. PICK y \in AllAmounts : x = [group |-> Group(y), key |-> run.key, cost |-> GroupCost(Group(y))]
      BY <2>1
    <3>2. Group(y) = g
      BY <3>1
    <3>3. QED
      BY <3>1, <3>2
  <2>4. ASSUME NEW y \in Y
        PROVE  z \in X
    BY <2>1, <2>2
  <2>5. QED
    BY <2>3, <2>4
<1>3. CASE Y = {}
  <2>1. X = {}
    BY <1>2, <1>3
  <2>2. GroupCost(g) = SumFunctionOnSet([x \in Y |-> x.a.cost], Y)
    BY DEF GroupCost, SumFunction
  <2>3. GroupCost(g) = 0
    BY <1>3, <2>2, SumEmpty
  <2>4. QED
    BY <1>1, <2>1, <2>3, SumEmpty
<1>4. CASE Y # {}
  <2>1. X = {z}
    BY <1>2, <1>4
  <2>2. z \in Insights
    BY <2>1
  <2>3. z.cost \in Int
    BY <2>2, InsightsTyped
  <2>4. f[z] = GroupCost(g) /\ f[z] \in Int
    BY <2>1, <2>3
  <2> HIDE DEF f, X, z
  <2>5. QED
    BY <1>1, <2>1, <2>4, SumSingle DEF X
<1>5. QED
  BY <1>3, <1>4

\* The group of a place, a currency and a value.
GroupOf(b, c, v) == [service |-> b.service, period |-> b.period, currency |-> c, value |-> v]

\* The group of an amount.
LEMMA GroupIs ==
  ASSUME NEW x, NEW b, NEW c, NEW v
  PROVE  Group(x) = GroupOf(b, c, v) <=>
           /\ x.a.service = b.service /\ x.charge.bucket.period = b.period
           /\ x.charge.currency = c /\ x.a.value = v
BY DEF Group, GroupOf

\* A group's amounts are given by the charge of its bucket.
LEMMA GroupFrom ==
  ASSUME Quiet, NEW b \in DOMAIN newest, NEW c, NEW v, NEW id, ChargeOf(b, id),
         \A a \in DOMAIN run.charges : \A x \in AmountsOf(FocusCharge(a)) :
           x.service = FocusCharge(a).bucket.service
  PROVE  \A y : y \in AllAmounts /\ Group(y) = GroupOf(b, c, v) <=>
           /\ c = newest[b][1].currency
           /\ \E x \in AmountsOf(FocusCharge(id)) :
                x.value = v /\ y = [charge |-> FocusCharge(id), a |-> x]
<1>1. \A a \in DOMAIN run.charges :
        FocusCharge(a).bucket = charges[a].bucket /\ FocusCharge(a).currency = charges[a].currency
  BY DEF ChargeOf, FocusCharge
<1>2. /\ id \in DOMAIN run.charges /\ IsTheOne(charges, b, id) /\ charges[id].bucket = b
      /\ charges[id].currency = newest[b][1].currency /\ run.charges = charges
  BY DEF ChargeOf
<1>3. ASSUME NEW y, y \in AllAmounts, Group(y) = GroupOf(b, c, v)
      PROVE  /\ c = newest[b][1].currency
             /\ \E x \in AmountsOf(FocusCharge(id)) :
                  x.value = v /\ y = [charge |-> FocusCharge(id), a |-> x]
  <2>1. PICK a \in DOMAIN run.charges : \E x \in AmountsOf(FocusCharge(a)) :
          y = [charge |-> FocusCharge(a), a |-> x]
    BY <1>3, AllAmountsAre
  <2>2. PICK x \in AmountsOf(FocusCharge(a)) : y = [charge |-> FocusCharge(a), a |-> x]
    BY <2>1
  <2>3. /\ y.a.service = b.service /\ y.charge.bucket.period = b.period
        /\ y.charge.currency = c /\ y.a.value = v
    BY <1>3, GroupIs
  <2>4. y.a = x /\ y.charge = FocusCharge(a)
    BY <2>2
  <2>5. charges[a].bucket.service = b.service /\ charges[a].bucket.period = b.period
    BY <1>1, <2>3, <2>4
  <2>6. charges[a].bucket = b
    <3>1. charges[a].bucket \in DOMAIN newest
      BY AllAreCharges
    <3>2. AreOf(newest[charges[a].bucket], charges[a].bucket) /\ AreOf(newest[b], b)
      BY <3>1, HasCharge
    <3>3. QED
      BY <2>5, <3>2, BucketIs
  <2>7. a = id
    BY <1>2, <2>6 DEF IsTheOne
  <2>8. QED
    BY <1>1, <1>2, <2>2, <2>3, <2>4, <2>7
<1>4. ASSUME NEW y, c = newest[b][1].currency,
             NEW x \in AmountsOf(FocusCharge(id)), x.value = v, y = [charge |-> FocusCharge(id), a |-> x]
      PROVE  y \in AllAmounts /\ Group(y) = GroupOf(b, c, v)
  <2>1. y \in AllAmounts
    BY <1>2, <1>4, AllAmountsAre
  <2>2. y.a = x /\ y.charge = FocusCharge(id)
    BY <1>4
  <2>3. QED
    BY <1>1, <1>2, <1>4, <2>1, <2>2, GroupIs
<1>5. QED
  BY <1>3, <1>4

\* The insights of a group, summed up.
LEMMA GroupSum ==
  ASSUME Quiet, NEW b \in DOMAIN newest, NEW c, NEW v, NEW id, ChargeOf(b, id),
         \A a \in DOMAIN run.charges : \A x \in AmountsOf(FocusCharge(a)) :
           x.service = FocusCharge(a).bucket.service
  PROVE  LET A == {x \in AmountsOf(FocusCharge(id)) : x.value = v} IN
         GroupCost(GroupOf(b, c, v)) =
           IF c = newest[b][1].currency THEN SumFunctionOnSet([x \in A |-> x.cost], A) ELSE 0
<1> DEFINE A == {x \in AmountsOf(FocusCharge(id)) : x.value = v}
           fa == [x \in A |-> x.cost]
           Y == {y \in AllAmounts : Group(y) = GroupOf(b, c, v)}
           fy == [y \in Y |-> y.a.cost]
           h == [x \in A |-> [charge |-> FocusCharge(id), a |-> x]]
<1>1. GroupCost(GroupOf(b, c, v)) = SumFunctionOnSet(fy, Y)
  BY DEF GroupCost, SumFunction
<1>2. \A y : y \in Y <=>
        c = newest[b][1].currency /\ \E x \in A : y = [charge |-> FocusCharge(id), a |-> x]
  <2>1. \A y : y \in AllAmounts /\ Group(y) = GroupOf(b, c, v) <=>
           /\ c = newest[b][1].currency
           /\ \E x \in AmountsOf(FocusCharge(id)) :
                x.value = v /\ y = [charge |-> FocusCharge(id), a |-> x]
    BY GroupFrom
  <2>2. QED
    BY <2>1
<1>3. CASE c # newest[b][1].currency
  <2>1. Y = {}
    BY <1>2, <1>3
  <2>2. QED
    BY <1>1, <1>3, <2>1, SumEmpty
<1>4. CASE c = newest[b][1].currency
  <2>1. IsFiniteSet(A) /\ \A x \in A : x.cost \in Int
    <3>1. RunTypes /\ run.phase = "emit" /\ id \in DOMAIN run.charges
      BY DEF Quiet, Shapes, ChargeOf
    <3>2. IsFiniteSet(AmountsOf(FocusCharge(id))) /\ \A a \in AmountsOf(FocusCharge(id)) : a.cost \in Int
      BY <3>1, AmountsTyped
    <3>3. QED
      BY <3>2, FS_Subset
  <2>2. \A x \in A : h[x] \in Y /\ h[x].a = x
    BY <1>2, <1>4
  <2>3. \A x \in A : h[x] \in Y /\ fa[x] \in Int /\ fy[h[x]] = fa[x]
    <3>1. \A y \in Y : fy[y] = y.a.cost
      OBVIOUS
    <3>2. \A x \in A : fa[x] = x.cost
      OBVIOUS
    <3> HIDE DEF h, fy, fa, Y, A
    <3>3. QED
      BY <2>1, <2>2, <3>1, <3>2
  <2>4. \A x, z \in A : h[x] = h[z] => x = z
    <3> HIDE DEF h, A
    <3>1. QED
      BY <2>2
  <2>5. \A y \in Y : \E x \in A : h[x] = y
    BY <1>2
  <2> HIDE DEF h, fy, fa, Y, A
  <2>6. SumFunctionOnSet(fa, A) = SumFunctionOnSet(fy, Y)
    BY <2>1, <2>3, <2>4, <2>5, SumBijection
  <2>7. QED
    BY <1>1, <1>4, <2>6 DEF fa, A
<1>5. QED
  BY <1>3, <1>4

-----------------------------------------------------------------------------
\* What insights i should show of bucket b in currency c, and of a value of a key.
AddsUpIn(i, b, c) ==
  Shown({x \in i : Shows(x, b, c)}) = Total({p \in InputRows : At(p, b) /\ RowAt(p).currency = c})
TaggedIn(i, key, b, c, v) ==
  Shown({x \in i : Shows(x, b, c) /\ x.group.value = v}) =
    Total({p \in InputRows : At(p, b) /\ RowAt(p).currency = c /\ Has(p, key, v)})

\* Without a tag key a charge shows its amount.
LEMMA PeriodAddsUp ==
  ASSUME Quiet, run.key = None, NEW b \in DOMAIN newest, NEW c
  PROVE  AddsUpIn(Insights, b, c)
<1>1. AreOf(newest[b], b) /\ \A a \in DOMAIN newest : AreOf(newest[a], a)
  BY HasCharge
<1>2. PICK id : ChargeOf(b, id)
  BY HasCharge
<1>3. \A a \in DOMAIN run.charges : AmountsOf(FocusCharge(a)) =
        {Amount(0, FocusCharge(a).bucket.service, None, FocusCharge(a).cost)}
  BY DEF AmountsOf, ByPeriod
<1>4. \A a \in DOMAIN run.charges : \A x \in AmountsOf(FocusCharge(a)) :
        x.service = FocusCharge(a).bucket.service /\ x.value = None
  BY <1>3 DEF Amount
<1>5. {x \in Insights : Shows(x, b, c)} = {x \in Insights : x.group = GroupOf(b, c, None)}
  <2>1. \A x \in Insights : \E y \in AllAmounts : x.group = Group(y)
    BY InsightsAre
  <2>2. \A y \in AllAmounts : y.a.value = None
    BY <1>4, AllAmountsAre
  <2>3. \A x \in Insights : Shows(x, b, c) <=> x.group = GroupOf(b, c, None)
    <3> SUFFICES ASSUME NEW x \in Insights
                 PROVE  Shows(x, b, c) <=> x.group = GroupOf(b, c, None)
      OBVIOUS
    <3>1. PICK y \in AllAmounts : x.group = Group(y)
      BY <2>1
    <3>2. Group(y) = GroupOf(b, c, None) <=>
            /\ y.a.service = b.service /\ y.charge.bucket.period = b.period
            /\ y.charge.currency = c
      BY <2>2, GroupIs
    <3>3. /\ x.group.service = y.a.service /\ x.group.period = y.charge.bucket.period
          /\ x.group.currency = y.charge.currency
      BY <3>1 DEF Group
    <3>4. QED
      BY <3>1, <3>2, <3>3 DEF Shows
  <2>4. QED
    BY <2>3
<1>6. Shown({x \in Insights : Shows(x, b, c)}) = GroupCost(GroupOf(b, c, None))
  <2>1. RunTypes /\ run.phase = "emit"
    BY DEF Quiet, Shapes
  <2>2. ASSUME NEW g
        PROVE  Shown({x \in Insights : x.group = g}) = GroupCost(g)
    BY <2>1, ShownIs
  <2>3. Shown({x \in Insights : x.group = GroupOf(b, c, None)}) = GroupCost(GroupOf(b, c, None))
    BY <2>2
  <2>4. QED
    BY <1>5, <2>3
<1> DEFINE A == {x \in AmountsOf(FocusCharge(id)) : x.value = None}
           x0 == Amount(0, FocusCharge(id).bucket.service, None, FocusCharge(id).cost)
<1>7. GroupCost(GroupOf(b, c, None)) =
        IF c = newest[b][1].currency THEN SumFunctionOnSet([x \in A |-> x.cost], A) ELSE 0
  <2>1. \A a \in DOMAIN run.charges : \A x \in AmountsOf(FocusCharge(a)) :
          x.service = FocusCharge(a).bucket.service
    BY <1>4
  <2>2. ASSUME NEW v
        PROVE  GroupCost(GroupOf(b, c, v)) =
                 IF c = newest[b][1].currency
                 THEN SumFunctionOnSet([x \in {z \in AmountsOf(FocusCharge(id)) : z.value = v} |-> x.cost],
                                       {z \in AmountsOf(FocusCharge(id)) : z.value = v})
                 ELSE 0
    <3> HIDE <1>1, <1>3, <1>4, <1>5, <1>6
    <3>1. QED
      BY <1>2, <2>1, GroupSum
  <2>3. QED
    BY <2>2
<1>8. SumFunctionOnSet([x \in A |-> x.cost], A) = Sum(newest[b])
  <2>1. id \in DOMAIN run.charges /\ FocusCharge(id).cost = Sum(newest[b])
    BY <1>2 DEF ChargeOf, FocusCharge
  <2>2. A = {x0} /\ x0.cost = Sum(newest[b])
    BY <1>3, <2>1 DEF Amount
  <2>3. Sum(newest[b]) \in Int
    BY <1>1, SumType DEF AreOf
  <2> DEFINE f == [x \in A |-> x.cost]
  <2>4. f[x0] = Sum(newest[b])
    BY <2>2
  <2> HIDE DEF f, A, x0
  <2>5. SumFunctionOnSet(f, {x0}) = f[x0]
    BY <2>3, <2>4, SumSingle
  <2>6. QED
    BY <2>2, <2>4, <2>5 DEF f
<1> DEFINE P == {p \in InputRows : At(p, b) /\ RowAt(p).currency = c}
<1>9. CASE c = newest[b][1].currency
  <2>1. P = {<<b, k>> : k \in DOMAIN newest[b]}
    BY <1>1, <1>9, InputRowsOf
  <2>2. Total(P) = SumFunctionOnSet(CostsOf(b), DOMAIN newest[b])
    BY <1>1, <2>1, TotalOf
  <2>3. Sum(newest[b]) = SumFunctionOnSet(CostsOf(b), DOMAIN newest[b])
    BY DEF Sum, SumFunction, CostsOf
  <2>4. QED
    BY <1>6, <1>7, <1>8, <1>9, <2>2, <2>3 DEF AddsUpIn
<1>10. CASE c # newest[b][1].currency
  <2>1. P = {}
    BY <1>1, <1>10, InputRowsOf
  <2>2. Total(P) = 0
    BY <2>1, SumEmpty DEF Total, SumFunction
  <2>3. QED
    BY <1>6, <1>7, <1>10, <2>2 DEF AddsUpIn
<1>11. QED
  BY <1>9, <1>10

-----------------------------------------------------------------------------
(* What a quiet run reads of the tags is what the rows have.               *)

\* The tag row of an input row and a key.
TagRow(id, n, k, key, rows) ==
  [charge |-> id, by |-> n, index |-> k, key |-> key, value |-> rows[k].tags[key],
   cost |-> rows[k].cost]

\* The tag rows of rows.
LEMMA TagRowsAt ==
  ASSUME NEW id, NEW n, NEW rows
  PROVE  \A t : t \in TagRows(id, n, rows) <=>
           \E k \in DOMAIN rows : \E key \in DOMAIN rows[k].tags : t = TagRow(id, n, k, key, rows)
BY DEF TagRows, TagRow

\* The numbers read, in the order of the rows, and what was read at each.
ReadAs(tags, costs, indexes, rows) ==
  /\ DOMAIN tags = indexes /\ DOMAIN costs = indexes /\ indexes \subseteq DOMAIN rows
  /\ \A k \in DOMAIN rows : DOMAIN rows[k].tags # {} => k \in indexes
  /\ \A k \in indexes :
       /\ DOMAIN tags[k] = DOMAIN rows[k].tags
       /\ \A key \in DOMAIN rows[k].tags : tags[k][key] = rows[k].tags[key]
       /\ DOMAIN rows[k].tags # {} => costs[k] = rows[k].cost

\* A quiet run reads of a charge what the rows of its bucket have.
LEMMA ReadOf ==
  ASSUME Quiet, NEW b \in DOMAIN newest, NEW id, ChargeOf(b, id)
  PROVE  ReadAs(run.tags[id], run.costs[id], Indexes(TagRowsOf(id)), newest[b])
<1> DEFINE rows == newest[b]
           T == TagRowsOf(id)
           idx == Indexes(T)
           At1(k) == {t \in T : t.index = k}
           ValuesOf(k) == [key \in {t.key : t \in At1(k)} |->
                             {t.value : t \in {u \in At1(k) : u.key = key}}]
           costsOf == [k \in idx |-> IF At1(k) = {} THEN {0} ELSE {t.cost : t \in At1(k)}]
           tagsOf == [k \in idx |-> Picks(ValuesOf(k))]
           tags == run.tags[id]
           costs == run.costs[id]
<1>1. PICK n \in Nat : T = TagRows(id, n, rows)
  BY DEF ChargeOf
<1>2. tags \in Picks(tagsOf) /\ costs \in Picks(costsOf)
  BY DEF ChargeOf, TagDicts, RowCosts
<1>3. rows \in Seq(ToSet(rows)) /\ DOMAIN rows = 1..Len(rows) /\ Len(rows) \in Nat
  <2>1. rows \in Seq(ToSet(rows))
    BY HasCharge DEF AreOf, AreRows
  <2>2. QED
    BY <2>1
<1>4. \A t : t \in T <=>
        \E k \in DOMAIN rows : \E key \in DOMAIN rows[k].tags : t = TagRow(id, n, k, key, rows)
  <2> HIDE DEF T, rows
  <2>1. QED
    BY <1>1, TagRowsAt
<1> HIDE DEF T, rows
<1>5. ASSUME NEW k \in DOMAIN rows
      PROVE  \A t : t \in At1(k) <=> \E key \in DOMAIN rows[k].tags : t = TagRow(id, n, k, key, rows)
  BY <1>4 DEF TagRow
<1>6. \A k : k \in idx <=> \E t \in T : k \in 1..t.index
  BY DEF Indexes
<1>7. idx \subseteq DOMAIN rows
  <2>1. \A t \in T : t.index \in DOMAIN rows
    BY <1>4 DEF TagRow
  <2>2. QED
    BY <1>3, <1>6, <2>1
<1>8. ASSUME NEW k \in DOMAIN rows, DOMAIN rows[k].tags # {}
      PROVE  k \in idx
  <2>1. PICK key \in DOMAIN rows[k].tags : TRUE
    BY <1>8
  <2>2. TagRow(id, n, k, key, rows) \in T /\ TagRow(id, n, k, key, rows).index = k
    BY <1>4, <2>1 DEF TagRow
  <2>3. k \in 1..k
    BY <1>3
  <2>4. QED
    BY <1>6, <2>2, <2>3
<1> HIDE DEF idx, At1
<1>9. /\ DOMAIN tags = idx /\ \A k \in idx : tags[k] \in Picks(ValuesOf(k))
      /\ DOMAIN costs = idx
      /\ \A k \in idx : costs[k] \in IF At1(k) = {} THEN {0} ELSE {t.cost : t \in At1(k)}
  <2>1. DOMAIN tagsOf = idx /\ \A k \in idx : tagsOf[k] = Picks(ValuesOf(k))
    OBVIOUS
  <2>2. DOMAIN costsOf = idx
        /\ \A k \in idx : costsOf[k] = IF At1(k) = {} THEN {0} ELSE {t.cost : t \in At1(k)}
    OBVIOUS
  <2> HIDE DEF tagsOf, costsOf, ValuesOf, tags, costs
  <2>3. DOMAIN tags = DOMAIN tagsOf /\ \A k \in DOMAIN tagsOf : tags[k] \in tagsOf[k]
    BY <1>2, PicksAre
  <2>4. DOMAIN costs = DOMAIN costsOf /\ \A k \in DOMAIN costsOf : costs[k] \in costsOf[k]
    BY <1>2, PicksAre
  <2>5. QED
    BY <2>1, <2>2, <2>3, <2>4
<1>10. ASSUME NEW k \in idx
       PROVE  /\ DOMAIN tags[k] = DOMAIN rows[k].tags
              /\ \A key \in DOMAIN rows[k].tags : tags[k][key] = rows[k].tags[key]
              /\ DOMAIN rows[k].tags # {} => costs[k] = rows[k].cost
  <2>1. \A t : t \in At1(k) <=> \E key \in DOMAIN rows[k].tags : t = TagRow(id, n, k, key, rows)
    BY <1>5, <1>7
  <2>2. \A key : /\ TagRow(id, n, k, key, rows).key = key
                 /\ TagRow(id, n, k, key, rows).value = rows[k].tags[key]
                 /\ TagRow(id, n, k, key, rows).cost = rows[k].cost
    BY DEF TagRow
  <2>3. DOMAIN ValuesOf(k) = DOMAIN rows[k].tags
    <3>1. {t.key : t \in At1(k)} = DOMAIN rows[k].tags
      BY <2>1, <2>2
    <3>2. QED
      BY <3>1
  <2>4. ASSUME NEW key \in DOMAIN rows[k].tags
        PROVE  ValuesOf(k)[key] = {rows[k].tags[key]}
    <3>1. ValuesOf(k)[key] = {t.value : t \in {u \in At1(k) : u.key = key}}
      BY <2>3
    <3>2. {u \in At1(k) : u.key = key} = {TagRow(id, n, k, key, rows)}
      BY <2>1, <2>2
    <3>3. QED
      BY <2>2, <3>1, <3>2
  <2>5. tags[k] \in Picks(ValuesOf(k))
    BY <1>9
  <2> HIDE DEF ValuesOf, tags, costs
  <2>6. DOMAIN tags[k] = DOMAIN ValuesOf(k) /\ \A key \in DOMAIN ValuesOf(k) : tags[k][key] \in ValuesOf(k)[key]
    BY <2>5, PicksAre
  <2>7. ASSUME DOMAIN rows[k].tags # {}
        PROVE  costs[k] = rows[k].cost
    <3>1. At1(k) # {} /\ \A t \in At1(k) : t.cost = rows[k].cost
      BY <2>1, <2>2, <2>7
    <3>2. costs[k] \in {t.cost : t \in At1(k)}
      BY <1>9, <3>1
    <3>3. QED
      BY <3>1, <3>2
  <2>8. QED
    BY <2>3, <2>4, <2>6, <2>7
<1> HIDE DEF tags, costs
<1>11. ReadAs(tags, costs, idx, rows)
  BY <1>7, <1>8, <1>9, <1>10 DEF ReadAs
<1>12. QED
  BY <1>11 DEF tags, costs, idx, T, rows

\* An amount of a tagged run is in the service of its charge.
LEMMA TaggedService ==
  ASSUME Quiet, run.key # None
  PROVE  \A a \in DOMAIN run.charges : \A x \in AmountsOf(FocusCharge(a)) :
           x.service = FocusCharge(a).bucket.service
<1> SUFFICES ASSUME NEW a \in DOMAIN run.charges, NEW x \in AmountsOf(FocusCharge(a))
             PROVE  x.service = FocusCharge(a).bucket.service
  OBVIOUS
<1> DEFINE c == FocusCharge(a)
<1>1. DOMAIN c.tags = DOMAIN c.costs
  <2>1. charges[a].bucket \in DOMAIN newest /\ ChargeOf(charges[a].bucket, a)
    BY AllAreCharges
  <2>2. DOMAIN run.tags[a] = DOMAIN run.costs[a]
    BY <2>1, ReadOf DEF ReadAs
  <2>3. QED
    BY <2>2 DEF FocusCharge
<1> HIDE DEF c
<1>2. x \in ByTag(c)
  BY DEF AmountsOf, c
<1>3. CASE DOMAIN c.costs # {}
  <2>1. \E k \in DOMAIN c.costs :
          x = Amount(k, c.bucket.service, ValueOf(c.tags[k], run.key), c.costs[k])
    BY <1>2, <1>3 DEF ByTag
  <2>2. QED
    BY <2>1 DEF Amount, c
<1>4. CASE DOMAIN c.costs = {}
  <2>1. x = Amount(0, c.bucket.service, UNTAGGED, c.cost)
    BY <1>1, <1>2, <1>4 DEF ByTag
  <2>2. QED
    BY <2>1 DEF Amount, c
<1>5. QED
  BY <1>3, <1>4

\* The rows of a bucket that have a value.
RowsWith(b, v) == {k \in DOMAIN newest[b] : ValueOf(newest[b][k].tags, run.key) = v}

\* A value of the key is given the amounts of the rows that have it.
LEMMA ValueAmounts ==
  ASSUME Quiet, run.key # None, NEW b \in DOMAIN newest, NEW v, v # UNTAGGED,
         NEW id, ChargeOf(b, id)
  PROVE  \A x : x \in AmountsOf(FocusCharge(id)) /\ x.value = v <=>
           \E k \in RowsWith(b, v) : x = Amount(k, b.service, v, newest[b][k].cost)
<1> DEFINE c == FocusCharge(id)
           rows == newest[b]
           key == run.key
           idx == Indexes(TagRowsOf(id))
<1>1. ReadAs(c.tags, c.costs, idx, rows)
  <2>1. ReadAs(run.tags[id], run.costs[id], idx, rows)
    BY ReadOf
  <2>2. c.tags = run.tags[id] /\ c.costs = run.costs[id]
    BY DEF FocusCharge
  <2>3. QED
    BY <2>1, <2>2
<1>2. c.bucket = b
  BY DEF FocusCharge, ChargeOf
<1>3. AmountsOf(c) = ByTag(c)
  BY DEF AmountsOf
<1> HIDE DEF c, rows, idx
<1>4. \A k \in RowsWith(b, v) : k \in idx /\ c.costs[k] = rows[k].cost
  <2> SUFFICES ASSUME NEW k \in RowsWith(b, v)
               PROVE  k \in idx /\ c.costs[k] = rows[k].cost
    OBVIOUS
  <2>1. k \in DOMAIN rows /\ ValueOf(rows[k].tags, key) = v
    BY DEF RowsWith, rows
  <2>2. key \in DOMAIN rows[k].tags
    BY <2>1 DEF ValueOf
  <2>3. QED
    BY <1>1, <2>1, <2>2 DEF ReadAs
<1>5. \A k \in idx : k \in DOMAIN rows /\ ValueOf(c.tags[k], key) = ValueOf(rows[k].tags, key)
  BY <1>1 DEF ReadAs, ValueOf
<1>6. \A k \in idx : ValueOf(c.tags[k], key) = v <=> k \in RowsWith(b, v)
  BY <1>5 DEF RowsWith, rows
<1>7. CASE idx # {}
  <2>1. \A x : x \in ByTag(c) <=>
          \E k \in idx : x = Amount(k, b.service, ValueOf(c.tags[k], key), c.costs[k])
    <3>1. DOMAIN c.costs = idx
      BY <1>1 DEF ReadAs
    <3>2. ByTag(c) = {Amount(k, c.bucket.service, ValueOf(c.tags[k], key), c.costs[k]) : k \in idx}
      BY <1>7, <3>1 DEF ByTag
    <3>3. QED
      BY <1>2, <3>2
  <2>2. \A k, w, m : Amount(k, b.service, w, m).value = w
    BY DEF Amount
  <2>3. ASSUME NEW x, x \in ByTag(c), x.value = v
        PROVE  \E k \in RowsWith(b, v) : x = Amount(k, b.service, v, rows[k].cost)
    <3>1. PICK k \in idx : x = Amount(k, b.service, ValueOf(c.tags[k], key), c.costs[k])
      BY <2>1, <2>3
    <3>2. ValueOf(c.tags[k], key) = v
      BY <2>2, <2>3, <3>1
    <3>3. k \in RowsWith(b, v) /\ c.costs[k] = rows[k].cost
      BY <1>4, <1>6, <3>2
    <3>4. QED
      BY <3>1, <3>2, <3>3
  <2>4. ASSUME NEW k \in RowsWith(b, v)
        PROVE  /\ Amount(k, b.service, v, rows[k].cost) \in ByTag(c)
               /\ Amount(k, b.service, v, rows[k].cost).value = v
    <3>1. k \in idx /\ c.costs[k] = rows[k].cost /\ ValueOf(c.tags[k], key) = v
      BY <1>4, <1>6
    <3>2. QED
      BY <2>1, <2>2, <3>1
  <2>5. QED
    BY <1>3, <2>3, <2>4 DEF c, rows
<1>8. CASE idx = {}
  <2>1. RowsWith(b, v) = {}
    BY <1>4, <1>8
  <2>2. DOMAIN c.costs = {} /\ DOMAIN c.tags = {}
    BY <1>1, <1>8 DEF ReadAs
  <2>3. \A x \in ByTag(c) : x.value = UNTAGGED
    BY <2>2 DEF ByTag, Amount
  <2>4. QED
    BY <1>3, <2>1, <2>3 DEF c
<1>9. QED
  BY <1>7, <1>8

\* And its group shows what these rows sum to.
LEMMA TaggedAddsUp ==
  ASSUME Quiet, run.key # None, NEW b \in DOMAIN newest, NEW c, NEW v, v # UNTAGGED
  PROVE  TaggedIn(Insights, run.key, b, c, v)
<1> DEFINE K == RowsWith(b, v)
           P == {p \in InputRows : At(p, b) /\ RowAt(p).currency = c /\ Has(p, run.key, v)}
<1>1. AreOf(newest[b], b) /\ \A a \in DOMAIN newest : AreOf(newest[a], a)
  BY HasCharge
<1>2. PICK id : ChargeOf(b, id)
  BY HasCharge
<1>3. {x \in Insights : Shows(x, b, c) /\ x.group.value = v} = {x \in Insights : x.group = GroupOf(b, c, v)}
  <2>1. \A x \in Insights : \E y \in AllAmounts : x.group = Group(y)
    BY InsightsAre
  <2>2. ASSUME NEW x \in Insights
        PROVE  Shows(x, b, c) /\ x.group.value = v <=> x.group = GroupOf(b, c, v)
    <3>1. PICK y \in AllAmounts : x.group = Group(y)
      BY <2>1
    <3>2. Group(y) = GroupOf(b, c, v) <=>
            /\ y.a.service = b.service /\ y.charge.bucket.period = b.period
            /\ y.charge.currency = c /\ y.a.value = v
      BY GroupIs
    <3>3. /\ x.group.service = y.a.service /\ x.group.period = y.charge.bucket.period
          /\ x.group.currency = y.charge.currency /\ x.group.value = y.a.value
      BY <3>1 DEF Group
    <3>4. QED
      BY <3>1, <3>2, <3>3 DEF Shows
  <2>3. QED
    BY <2>2
<1>4. Shown({x \in Insights : Shows(x, b, c) /\ x.group.value = v}) = GroupCost(GroupOf(b, c, v))
  <2>1. RunTypes /\ run.phase = "emit"
    BY DEF Quiet, Shapes
  <2>2. ASSUME NEW g
        PROVE  Shown({x \in Insights : x.group = g}) = GroupCost(g)
    BY <2>1, ShownIs
  <2>3. Shown({x \in Insights : x.group = GroupOf(b, c, v)}) = GroupCost(GroupOf(b, c, v))
    BY <2>2
  <2>4. QED
    BY <1>3, <2>3
<1> DEFINE A == {x \in AmountsOf(FocusCharge(id)) : x.value = v}
           fa == [x \in A |-> x.cost]
<1>5. GroupCost(GroupOf(b, c, v)) =
        IF c = newest[b][1].currency THEN SumFunctionOnSet(fa, A) ELSE 0
  <2>1. \A a \in DOMAIN run.charges : \A x \in AmountsOf(FocusCharge(a)) :
          x.service = FocusCharge(a).bucket.service
    BY TaggedService
  <2>2. QED
    BY <1>2, <2>1, GroupSum
<1>6. SumFunctionOnSet(CostsOf(b), K) = SumFunctionOnSet(fa, A)
  <2> DEFINE h == [k \in K |-> Amount(k, b.service, v, newest[b][k].cost)]
             f == CostsOf(b)
  <2>1. IsFiniteSet(K)
    BY <1>1, Numbers DEF AreOf, AreRows, RowsWith
  <2>2. \A x : x \in A <=> \E k \in K : x = Amount(k, b.service, v, newest[b][k].cost)
    BY <1>2, ValueAmounts
  <2>3. \A k \in K : h[k] \in A /\ h[k].cost = newest[b][k].cost /\ h[k].index = k
    BY <2>2 DEF Amount
  <2>4. \A k \in K : f[k] \in Int /\ f[k] = newest[b][k].cost
    BY <1>1, InputRowsOf DEF RowsWith, CostsOf
  <2>5. \A x \in A : fa[x] = x.cost
    OBVIOUS
  <2>6. \A x \in A : \E k \in K : h[k] = x
    BY <2>2
  <2> HIDE DEF h, f, fa, A, K
  <2>7. \A k \in K : h[k] \in A /\ f[k] \in Int /\ fa[h[k]] = f[k]
    BY <2>3, <2>4, <2>5
  <2>8. \A k, l \in K : h[k] = h[l] => k = l
    BY <2>3
  <2>9. SumFunctionOnSet(f, K) = SumFunctionOnSet(fa, A)
    BY <2>1, <2>6, <2>7, <2>8, SumBijection
  <2>10. QED
    BY <2>9 DEF f
<1>7. /\ \A p : p \in InputRows /\ At(p, b) <=> \E k \in DOMAIN newest[b] : p = <<b, k>>
      /\ \A k \in DOMAIN newest[b] : RowAt(<<b, k>>) = newest[b][k]
                                     /\ newest[b][k].currency = newest[b][1].currency
  BY <1>1, InputRowsOf
<1>8. CASE c = newest[b][1].currency
  <2>1. P = {<<b, k>> : k \in K}
    <3>1. \A p : p \in P <=> \E k \in K : p = <<b, k>>
      BY <1>7, <1>8 DEF RowsWith, Has
    <3> HIDE DEF P, K
    <3>2. QED
      BY <3>1
  <2>2. K \in SUBSET DOMAIN newest[b]
    BY DEF RowsWith
  <2> HIDE DEF P, K
  <2>3. Total(P) = SumFunctionOnSet(CostsOf(b), K)
    BY <1>1, <2>1, <2>2, TotalOf
  <2>4. QED
    BY <1>4, <1>5, <1>6, <1>8, <2>3 DEF P, TaggedIn
<1>9. CASE c # newest[b][1].currency
  <2>1. P = {}
    BY <1>7, <1>9
  <2>2. Total(P) = 0
    BY <2>1, SumEmpty DEF Total, SumFunction
  <2>3. QED
    BY <1>4, <1>5, <1>9, <2>2 DEF TaggedIn
<1>10. QED
  BY <1>8, <1>9

-----------------------------------------------------------------------------
(* What the last run shows, until an export is ingested.                   *)

\* What a run committed is compared with changes when an export is committed only.
LEMMA SameRows ==
  ASSUME newest' = newest, NEW i
  PROVE  /\ InputRows' = InputRows /\ Currencies' = Currencies
         /\ \A key, v : {ValueOf(RowAt(p).tags, key) : p \in InputRows}' =
                          {ValueOf(RowAt(p).tags, key) : p \in InputRows}
         /\ \A b, c : AddsUpIn(i, b, c)' = AddsUpIn(i, b, c)
         /\ \A key, b, c, v : TaggedIn(i, key, b, c, v)' = TaggedIn(i, key, b, c, v)
<1>1. InputRows' = InputRows /\ \A p : RowAt(p)' = RowAt(p)
  BY DEF InputRows, RowAt
<1>2. Currencies' = Currencies
  BY <1>1 DEF Currencies
<1>3. \A p, b, key, v : At(p, b)' = At(p, b) /\ Has(p, key, v)' = Has(p, key, v)
  BY <1>1 DEF At, Has
<1>4. \A b, c : AddsUpIn(i, b, c)' = AddsUpIn(i, b, c)
  BY <1>1, <1>3 DEF AddsUpIn, Total
<1>5. \A key, b, c, v : TaggedIn(i, key, b, c, v)' = TaggedIn(i, key, b, c, v)
  BY <1>1, <1>3 DEF TaggedIn, Total
<1>6. QED
  BY <1>1, <1>2, <1>4, <1>5

\* Where the rows stay as they are, insights are compared with the same sums.
LEMMA SumsFrom ==
  ASSUME newest' = newest, raced' = raced,
         raced = {} => \A b \in DOMAIN newest, c \in Currencies :
           /\ done' = {None} => AddsUpIn(insights', b, c)
           /\ \A key \in done' \ {None} :
                \A v \in {ValueOf(RowAt(p).tags, key) : p \in InputRows} \ {UNTAGGED} :
                  TaggedIn(insights', key, b, c, v)
  PROVE  QuietRunAddsUp' /\ TaggedCosted'
<1>1. PICK i : i = insights'
  OBVIOUS
<1>2. /\ Currencies' = Currencies
      /\ \A key : {ValueOf(RowAt(p).tags, key) : p \in InputRows}' =
                    {ValueOf(RowAt(p).tags, key) : p \in InputRows}
      /\ \A b, c : AddsUpIn(i, b, c)' = AddsUpIn(i, b, c)
      /\ \A key, b, c, v : TaggedIn(i, key, b, c, v)' = TaggedIn(i, key, b, c, v)
  BY SameRows
<1>3. ASSUME raced' = {}, NEW b \in DOMAIN newest', NEW c \in Currencies'
      PROVE  /\ done' = {None} => AddsUpIn(i, b, c)'
             /\ \A key \in done' \ {None} :
                  \A v \in {ValueOf(RowAt(p).tags, key) : p \in InputRows}' \ {UNTAGGED} :
                    TaggedIn(i, key, b, c, v)'
  BY <1>1, <1>2, <1>3
<1>4. QuietRunAddsUp'
  <2>1. ASSUME done' = {None}, raced' = {}, NEW b \in DOMAIN newest', NEW c \in Currencies'
        PROVE  AddsUpIn(insights, b, c)'
    <3>1. AddsUpIn(i, b, c)'
      BY <1>3, <2>1
    <3>2. QED
      BY <1>1, <3>1 DEF AddsUpIn
  <2>2. QED
    BY <2>1 DEF QuietRunAddsUp, AddsUpIn
<1>5. TaggedCosted'
  <2>1. ASSUME raced' = {}, NEW key \in done' \ {None}, NEW b \in DOMAIN newest', NEW c \in Currencies',
               NEW v \in {ValueOf(RowAt(p).tags, key) : p \in InputRows}' \ {UNTAGGED}
        PROVE  TaggedIn(insights, key, b, c, v)'
    <3>1. TaggedIn(i, key, b, c, v)'
      BY <1>3, <2>1
    <3>2. QED
      BY <1>1, <3>1 DEF TaggedIn
  <2>2. QED
    BY <2>1 DEF TaggedCosted, TaggedIn
<1>6. QED
  BY <1>4, <1>5

\* The insights of a quiet run are what should be shown.
LEMMA QuietCommits ==
  ASSUME Quiet, RunCommits
  PROVE  QuietRunAddsUp' /\ TaggedCosted'
<1>1. /\ insights' = IF Mismatched THEN {} ELSE Insights
      /\ done' = {run.key} /\ newest' = newest /\ raced' = raced
  BY DEF RunCommits, Quiet
<1>2. ~ Mismatched
  <2>1. ASSUME NEW id \in DOMAIN run.charges
        PROVE  DOMAIN run.tags[id] = DOMAIN run.costs[id]
    <3>1. charges[id].bucket \in DOMAIN newest /\ ChargeOf(charges[id].bucket, id)
      BY AllAreCharges
    <3>2. QED
      BY <3>1, ReadOf DEF ReadAs
  <2>2. QED
    BY <2>1 DEF Mismatched
<1>3. insights' = Insights
  BY <1>1, <1>2
<1>4. ASSUME NEW b \in DOMAIN newest, NEW c \in Currencies
      PROVE  /\ done' = {None} => AddsUpIn(Insights, b, c)
             /\ \A key \in done' \ {None} :
                  \A v \in {ValueOf(RowAt(p).tags, key) : p \in InputRows} \ {UNTAGGED} :
                    TaggedIn(Insights, key, b, c, v)
  <2>1. ASSUME done' = {None}
        PROVE  AddsUpIn(Insights, b, c)
    <3>1. run.key = None
      BY <1>1, <2>1
    <3>2. QED
      BY <3>1, PeriodAddsUp
  <2>2. ASSUME NEW v, v # UNTAGGED, run.key # None
        PROVE  TaggedIn(Insights, run.key, b, c, v)
    BY <2>2, TaggedAddsUp
  <2>3. QED
    BY <1>1, <2>1, <2>2
<1>5. QED
  BY <1>1, <1>3, <1>4, SumsFrom

\* What the last quiet run committed adds up.
Sums == QuietRunAddsUp /\ TaggedCosted

\* Every step preserves what the last run shows.
LEMMA StepSums ==
  ASSUME IngestInv, Shapes, QuietReads, Sums, [Next]_vars
  PROVE  Sums'
<1>1. CASE RunCommits
  <2>1. CASE run.quiet /\ raced = {}
    <3>1. Quiet
      BY <1>1, <2>1 DEF RunCommits, Quiet
    <3>2. QED
      BY <1>1, <3>1, QuietCommits DEF Sums
  <2>2. CASE raced # {}
    BY <1>1, <2>2 DEF RunCommits, Sums, QuietRunAddsUp, TaggedCosted
  <2>3. CASE ~ run.quiet
    <3>1. done' = {}
      BY <1>1, <2>3 DEF RunCommits
    <3>2. QED
      BY <3>1 DEF Sums, QuietRunAddsUp, TaggedCosted
  <2>4. QED
    BY <2>1, <2>2, <2>3
<1>2. CASE \E s \in Sessions : CommitIngest(s)
  <2>1. done' = {}
    BY <1>2 DEF CommitIngest
  <2>2. QED
    BY <2>1 DEF Sums, QuietRunAddsUp, TaggedCosted
<1>3. CASE ~ RunCommits /\ ~ \E s \in Sessions : CommitIngest(s)
  <2>1. insights' = insights /\ newest' = newest /\ raced' = raced /\ done' = done
    BY <1>3 DEF Next, Run, RunStarts, ReadCharges, ReadTags, ReadCosts, RunFails, Ingest,
       BeginIngest, InsertCharge, FindCharge, StartDelete, UpdateCharge, IngestFails, vars, history
  <2>2. raced = {} => \A b \in DOMAIN newest, c \in Currencies :
          /\ done = {None} => AddsUpIn(insights, b, c)
          /\ \A key \in done \ {None} :
               \A v \in {ValueOf(RowAt(p).tags, key) : p \in InputRows} \ {UNTAGGED} :
                 TaggedIn(insights, key, b, c, v)
    BY DEF Sums, QuietRunAddsUp, TaggedCosted, AddsUpIn, TaggedIn
  <2>3. QED
    BY <2>1, <2>2, SumsFrom DEF Sums
<1>4. QED
  BY <1>1, <1>2, <1>3

\* The inductive invariant, with what the last run shows.
THEOREM RunsAddUp == Spec => []Sums
<1>1. Init => IngestInv /\ Shapes /\ QuietReads /\ Sums
  <2>1. Init => Sums
    BY DEF Init, Sums, QuietRunAddsUp, TaggedCosted
  <2>2. QED
    BY <2>1, InitIngest, InitRun
<1>2. IngestInv /\ Shapes /\ QuietReads /\ Sums /\ [Next]_vars =>
        (IngestInv /\ Shapes /\ QuietReads /\ Sums)'
  BY StepIngest, StepRun, StepSums
<1>3. QED
  BY <1>1, <1>2, PTL DEF Spec

\* QuietRunAddsUp: after a run without a tag key that nothing was ingested under, the
\* insights of a service, a period and a currency are the amounts of the input rows.
THEOREM AddsUp == Spec => []QuietRunAddsUp
<1>1. Sums => QuietRunAddsUp
  BY DEF Sums
<1>2. QED
  BY <1>1, RunsAddUp, PTL

\* TaggedCosted: after such a run by a tag key, those of a value are the amounts of the
\* rows that have it (migration 0020).
THEOREM Tagged == Spec => []TaggedCosted
<1>1. Sums => TaggedCosted
  BY DEF Sums
<1>2. QED
  BY <1>1, RunsAddUp, PTL
=============================================================================
