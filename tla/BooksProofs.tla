----------------------------- MODULE BooksProofs -----------------------------
(***************************************************************************)
(* The books of a ledger, of any number of entries, tickers and splits:    *)
(* what is open are the last purchases, and cash, costs and realized       *)
(* profits add up.  The lots of a ticker lie end to end over what was      *)
(* bought, from where the sales end; every entry keeps them so.            *)
(***************************************************************************)
EXTENDS ReportBook, FiniteSetTheorems, TLAPS

-----------------------------------------------------------------------------
(* What is recursive in a model is reasoned about with the least element    *)
(* of a set of naturals, which takes no operator.                           *)

\* A set of naturals has a least element,
LEMMA Least ==
    ASSUME NEW S, S \subseteq Nat, S # {}
    PROVE  \E m \in S : \A k \in S : m <= k
<1> DEFINE R == OpToRel(<, Nat)
<1>1. IsWellFoundedOn(R, Nat)
  BY NatLessThanWellFounded
<1>2. \E m \in S : \A k \in S : <<k, m>> \notin R
  <2> HIDE DEF R
  <2> QED
    BY <1>1, WFMin
<1>3. \A k, m \in Nat : k < m => <<k, m>> \in R
  BY DEF OpToRel
<1> HIDE DEF R
<1>4. PICK m \in S : \A k \in S : <<k, m>> \notin R
  BY <1>2
<1>5. ASSUME NEW k \in S PROVE m <= k
  <2>1. k \in Nat /\ m \in Nat
    OBVIOUS
  <2>2. ~(k < m)
    BY <1>3, <1>4, <2>1
  <2> QED
    BY <2>1, <2>2
<1> QED
  BY <1>5

\* so that what holds of 0 and goes from one natural to the next holds of all.
LEMMA Induction ==
    ASSUME NEW S, 0 \in S, \A n \in Nat : n \in S => n + 1 \in S
    PROVE  Nat \subseteq S
<1> SUFFICES ASSUME Nat \ S # {} PROVE FALSE
  OBVIOUS
<1>1. PICK m \in Nat \ S : \A k \in Nat \ S : m <= k
  BY Least
<1>2. m # 0 /\ m - 1 \in Nat
  BY <1>1
<1>3. m - 1 \in S
  BY <1>1, <1>2
<1> QED
  BY <1>1, <1>2, <1>3

\* A fold of the library goes through a set from the element it picks to the rest.
Picks(pick, S) == \A s \in SUBSET S : s # {} => pick[s] \in s

\* The function that such a fold computes, of every subset.
IsFold(f, S, V, pick, base, combine) ==
    /\ f \in [SUBSET S -> V]
    /\ \A s \in SUBSET S :
         f[s] = IF s = {} THEN base ELSE combine[<<f[s \ {pick[s]}], pick[s]>>]

\* What FoldLeft and MapThenFoldSet define exists.
LEMMA FoldsExist ==
    ASSUME NEW S, IsFiniteSet(S), NEW pick, Picks(pick, S),
           NEW V, NEW base \in V, NEW combine \in [V \X S -> V]
    PROVE  \E f : IsFold(f, S, V, pick, base, combine)
<1> DEFINE RightTo(f, k) ==
        \A s \in SUBSET S : Cardinality(s) <= k =>
            f[s] = IF s = {} THEN base ELSE combine[<<f[s \ {pick[s]}], pick[s]>>]
           T == {k \in Nat : \E f \in [SUBSET S -> V] : RightTo(f, k)}
<1>1. \A s \in SUBSET S : IsFiniteSet(s) /\ Cardinality(s) \in Nat
  BY FS_Subset, FS_CardinalityType
<1>2. 0 \in T
  <2> DEFINE f == [s \in SUBSET S |-> base]
  <2>1. f \in [SUBSET S -> V]
    OBVIOUS
  <2>2. \A s \in SUBSET S : Cardinality(s) <= 0 => s = {}
    BY <1>1, FS_EmptySet
  <2>3. RightTo(f, 0)
    BY <2>2
  <2> QED
    BY <2>1, <2>3
<1>3. ASSUME NEW k \in Nat, k \in T PROVE k + 1 \in T
  <2>1. PICK f \in [SUBSET S -> V] : RightTo(f, k)
    BY <1>3
  <2> DEFINE g == [s \in SUBSET S |->
                     IF s = {} THEN base ELSE combine[<<f[s \ {pick[s]}], pick[s]>>]]
  <2>2. \A s \in SUBSET S : s # {} =>
          /\ pick[s] \in S /\ s \ {pick[s]} \in SUBSET S
          /\ Cardinality(s \ {pick[s]}) = Cardinality(s) - 1
    BY <1>1, FS_RemoveElement DEF Picks
  <2>3. g \in [SUBSET S -> V]
    BY <2>2
  <2>4. \A s \in SUBSET S : Cardinality(s) <= k => g[s] = f[s]
    BY <2>1
  <2>5. ASSUME NEW s \in SUBSET S, Cardinality(s) <= k + 1, s # {}
        PROVE  g[s] = combine[<<g[s \ {pick[s]}], pick[s]>>]
    <3>1. Cardinality(s \ {pick[s]}) <= k
      BY <1>1, <2>2, <2>5
    <3>2. g[s \ {pick[s]}] = f[s \ {pick[s]}]
      BY <2>2, <2>4, <2>5, <3>1
    <3> QED
      BY <2>5, <3>2
  <2>6. RightTo(g, k + 1)
    BY <2>5
  <2> HIDE DEF g, RightTo
  <2> QED
    BY <2>3, <2>6
<1>4. Cardinality(S) \in T
  <2> HIDE DEF T
  <2> QED
    BY <1>1, <1>2, <1>3, Induction
<1>5. \A s \in SUBSET S : Cardinality(s) <= Cardinality(S)
  BY FS_Subset
<1> QED
  BY <1>4, <1>5 DEF IsFold


-----------------------------------------------------------------------------
(* Sums and products over a set, as functions of all its subsets.           *)

\* A function of the subsets that grows with every element by what it is worth.
Measures(F, X, V, val, plus, zero) ==
    /\ F \in [SUBSET X -> V]
    /\ F[{}] = zero
    /\ \A s \in SUBSET X : \A y \in X \ s : F[s \cup {y}] = plus[<<F[s], val[y]>>]

\* The order of two additions does not matter.
Commutes(V, plus) ==
    /\ plus \in [V \X V -> V]
    /\ \A a, b, c \in V : plus[<<plus[<<a, b>>], c>>] = plus[<<plus[<<a, c>>], b>>]

\* There is such a function.
LEMMA MeasuresExist ==
    ASSUME NEW X, IsFiniteSet(X), NEW V, NEW zero \in V, NEW plus, Commutes(V, plus),
           NEW val \in [X -> V]
    PROVE  \E F : Measures(F, X, V, val, plus, zero)
<1> DEFINE T == {k \in Nat : \A Y \in SUBSET X :
                    Cardinality(Y) = k => \E F : Measures(F, Y, V, val, plus, zero)}
<1>1. \A Y \in SUBSET X : IsFiniteSet(Y) /\ Cardinality(Y) \in Nat
  BY FS_Subset, FS_CardinalityType
<1>2. 0 \in T
  <2> SUFFICES ASSUME NEW Y \in SUBSET X, Cardinality(Y) = 0
               PROVE  \E F : Measures(F, Y, V, val, plus, zero)
    OBVIOUS
  <2>1. Y = {}
    BY <1>1, FS_EmptySet
  <2> DEFINE F == [s \in SUBSET Y |-> zero]
  <2>2. Measures(F, Y, V, val, plus, zero)
    BY <2>1 DEF Measures
  <2> QED
    BY <2>2
<1>3. ASSUME NEW k \in Nat, k \in T PROVE k + 1 \in T
  <2> SUFFICES ASSUME NEW Y \in SUBSET X, Cardinality(Y) = k + 1
               PROVE  \E F : Measures(F, Y, V, val, plus, zero)
    OBVIOUS
  <2>0. /\ \A Z \in SUBSET X : Cardinality(Z) = k => \E F : Measures(F, Z, V, val, plus, zero)
        /\ IsFiniteSet(Y)
    BY <1>1, <1>3
  <2> HIDE DEF T
  <2>1. PICK x \in Y : TRUE
    BY FS_EmptySet
  <2> DEFINE Z == Y \ {x}
  <2>2. Z \in SUBSET X /\ Cardinality(Z) = k
    <3>1. Cardinality(Y \ {x}) = Cardinality(Y) - 1
      BY <2>0, <2>1, FS_RemoveElement
    <3> QED
      BY <3>1
  <2>3. PICK G : Measures(G, Z, V, val, plus, zero)
    BY <2>0, <2>2
  <2> DEFINE F == [s \in SUBSET Y |-> IF x \in s THEN plus[<<G[s \ {x}], val[x]>>] ELSE G[s]]
  <2>4. /\ \A s \in SUBSET Y : x \notin s => s \in SUBSET Z /\ F[s] = G[s]
        /\ \A s \in SUBSET Y : x \in s => s \ {x} \in SUBSET Z
                                          /\ F[s] = plus[<<G[s \ {x}], val[x]>>]
    OBVIOUS
  <2>5. \A s \in SUBSET Z : G[s] \in V
    BY <2>3 DEF Measures
  <2>6. F \in [SUBSET Y -> V]
    <3>1. \A s \in SUBSET Y : F[s] \in V
      BY <2>1, <2>4, <2>5 DEF Commutes
    <3> QED
      BY <3>1
  <2>7. F[{}] = zero
    BY <2>3, <2>4 DEF Measures
  <2>8. ASSUME NEW s \in SUBSET Y, NEW y \in Y \ s
        PROVE  F[s \cup {y}] = plus[<<F[s], val[y]>>]
    <3>1. CASE y = x
      <4>1. /\ (s \cup {y}) \ {x} = s /\ x \in s \cup {y} /\ x \notin s
            /\ s \cup {y} \in SUBSET Y
        BY <2>8, <3>1
      <4> HIDE DEF F
      <4> QED
        BY <2>4, <2>8, <3>1, <4>1
    <3>2. CASE y # x /\ x \notin s
      <4>1. x \notin s \cup {y} /\ s \in SUBSET Z /\ y \in Z \ s
        BY <2>8, <3>2
      <4> QED
        BY <2>3, <2>4, <2>8, <3>2, <4>1 DEF Measures
    <3>3. CASE y # x /\ x \in s
      <4> DEFINE r == s \ {x}
      <4>1. /\ (s \cup {y}) \ {x} = r \cup {y} /\ x \in s \cup {y} /\ r \in SUBSET Z
            /\ y \in Z \ r /\ s \cup {y} \in SUBSET Y
        BY <2>8, <3>3
      <4> HIDE DEF F
      <4>2. G[r \cup {y}] = plus[<<G[r], val[y]>>]
        BY <2>3, <4>1 DEF Measures
      <4>3. F[s] = plus[<<G[r], val[x]>>] /\ F[s \cup {y}] = plus[<<G[r \cup {y}], val[x]>>]
        BY <2>4, <2>8, <3>3, <4>1
      <4>4. G[r] \in V /\ val[x] \in V /\ val[y] \in V
        BY <2>1, <2>5, <2>8, <4>1
      <4> QED
        BY <4>2, <4>3, <4>4 DEF Commutes
    <3> QED
      BY <3>1, <3>2, <3>3
  <2> HIDE DEF F
  <2>9. Measures(F, Y, V, val, plus, zero)
    BY <2>6, <2>7, <2>8 DEF Measures
  <2> QED
    BY <2>9
<1>4. Cardinality(X) \in T
  <2> HIDE DEF T
  <2> QED
    BY <1>1, <1>2, <1>3, Induction
<1> QED
  BY <1>4

\* The element that the library picks of a set.
Chosen(s) == CHOOSE x \in s : TRUE

\* It is one of its elements.
LEMMA ChosenIn ==
    ASSUME NEW s, s # {}
    PROVE  Chosen(s) \in s
BY DEF Chosen

\* The sum of the values over every subset, and the product of them.
Additive(F, X, val) ==
    /\ F[{}] = 0
    /\ \A s \in SUBSET X : F[s] \in Int
    /\ \A s \in SUBSET X : \A y \in X \ s : F[s \cup {y}] = F[s] + val[y]
    /\ \A s \in SUBSET X : \A y \in s : F[s] = F[s \ {y}] + val[y]

Multiplicative(F, X, val) ==
    /\ F[{}] = 1
    /\ \A s \in SUBSET X : F[s] \in Nat \ {0}
    /\ \A s \in SUBSET X : \A y \in X \ s : F[s \cup {y}] = F[s] * val[y]
    /\ \A s \in SUBSET X : \A y \in s : F[s] = F[s \ {y}] * val[y]

\* What the library folds when it sums or multiplies over a set.
AddsUp(f, S, val) ==
    f = [s \in SUBSET S |-> IF s = {} THEN 0 ELSE val[Chosen(s)] + f[s \ {Chosen(s)}]]

Multiplies(f, S, val) ==
    f = [s \in SUBSET S |-> IF s = {} THEN 1 ELSE val[Chosen(s)] * f[s \ {Chosen(s)}]]

\* Integers have a sum over every subset, in whatever order they are added.
LEMMA SumsExist ==
    ASSUME NEW X, IsFiniteSet(X), NEW val \in [X -> Int]
    PROVE  \E F : Additive(F, X, val)
<1> DEFINE plus == [p \in Int \X Int |-> p[1] + p[2]]
<1>1. Commutes(Int, plus)
  BY DEF Commutes
<1>2. \A a, b \in Int : plus[<<a, b>>] = a + b
  OBVIOUS
<1> HIDE DEF plus
<1>3. PICK F : Measures(F, X, Int, val, plus, 0)
  BY <1>1, MeasuresExist
<1>4. /\ F[{}] = 0
      /\ \A s \in SUBSET X : F[s] \in Int
  BY <1>3 DEF Measures
<1>5. \A s \in SUBSET X : \A y \in X \ s : F[s \cup {y}] = F[s] + val[y]
  BY <1>2, <1>3, <1>4 DEF Measures
<1>6. ASSUME NEW s \in SUBSET X, NEW y \in s PROVE F[s] = F[s \ {y}] + val[y]
  <2>1. s \ {y} \in SUBSET X /\ y \in X \ (s \ {y}) /\ (s \ {y}) \cup {y} = s
    OBVIOUS
  <2> QED
    BY <1>5, <2>1
<1> QED
  BY <1>4, <1>5, <1>6 DEF Additive

\* So have positive numbers a product.
LEMMA ProductsExist ==
    ASSUME NEW X, IsFiniteSet(X), NEW val \in [X -> Nat \ {0}]
    PROVE  \E F : Multiplicative(F, X, val)
<1> DEFINE P == Nat \ {0}
           times == [p \in P \X P |-> p[1] * p[2]]
<1>1. \A a, b, c \in P : a * b \in P /\ (a * b) * c = (a * c) * b
  OBVIOUS
<1>2. Commutes(P, times) /\ \A a, b \in P : times[<<a, b>>] = a * b
  <2> HIDE DEF P
  <2> QED
    BY <1>1 DEF Commutes
<1>3. 1 \in P /\ val \in [X -> P]
  OBVIOUS
<1> HIDE DEF P, times
<1>4. PICK F : Measures(F, X, P, val, times, 1)
  BY <1>2, <1>3, MeasuresExist
<1>5. /\ F[{}] = 1
      /\ \A s \in SUBSET X : F[s] \in P
  BY <1>4 DEF Measures
<1>6. \A s \in SUBSET X : \A y \in X \ s : F[s \cup {y}] = F[s] * val[y]
  BY <1>2, <1>3, <1>4, <1>5 DEF Measures
<1>7. ASSUME NEW s \in SUBSET X, NEW y \in s PROVE F[s] = F[s \ {y}] * val[y]
  <2>1. s \ {y} \in SUBSET X /\ y \in X \ (s \ {y}) /\ (s \ {y}) \cup {y} = s
    OBVIOUS
  <2> QED
    BY <1>6, <2>1
<1> QED
  BY <1>5, <1>6, <1>7 DEF Multiplicative, P

\* What the library sums in an order of its own is the sum.
LEMMA SumIsOnly ==
    ASSUME NEW X, IsFiniteSet(X), NEW val, NEW F, Additive(F, X, val),
           NEW S \in SUBSET X, NEW f, AddsUp(f, S, val), \A x \in X : val[x] \in Int
    PROVE  f[S] = F[S]
<1> DEFINE T == {k \in Nat : \A s \in SUBSET S : Cardinality(s) = k => f[s] = F[s]}
<1>1. \A s \in SUBSET S : IsFiniteSet(s) /\ Cardinality(s) \in Nat
  BY FS_Subset, FS_CardinalityType
<1>0. f[{}] = 0 /\ \A s \in SUBSET S : s # {} => f[s] = val[Chosen(s)] + f[s \ {Chosen(s)}]
  BY DEF AddsUp
<1>2. 0 \in T
  BY <1>0, <1>1, FS_EmptySet DEF Additive
<1>3. ASSUME NEW k \in Nat, k \in T PROVE k + 1 \in T
  <2> SUFFICES ASSUME NEW s \in SUBSET S, Cardinality(s) = k + 1 PROVE f[s] = F[s]
    OBVIOUS
  <2>1. \A r \in SUBSET S : Cardinality(r) = k => f[r] = F[r]
    BY <1>3
  <2> HIDE DEF T
  <2>2. Cardinality({}) # k + 1
    BY FS_EmptySet
  <2>3. s # {} /\ Chosen(s) \in s
    BY <2>2, ChosenIn
  <2>4. Cardinality(s \ {Chosen(s)}) = Cardinality(s) - 1
    BY <1>1, <2>3, FS_RemoveElement
  <2>5. f[s \ {Chosen(s)}] = F[s \ {Chosen(s)}]
    BY <2>1, <2>4
  <2>6. F[s] = F[s \ {Chosen(s)}] + val[Chosen(s)] /\ F[s \ {Chosen(s)}] \in Int
    BY <2>3 DEF Additive
  <2>7. val[Chosen(s)] \in Int
    BY <2>3
  <2> QED
    BY <1>0, <2>3, <2>5, <2>6, <2>7
<1>4. \A k \in Nat : k \in T
  <2> HIDE DEF T
  <2> QED
    BY <1>2, <1>3, Induction
<1> QED
  BY <1>1, <1>4

\* So is what it multiplies the product.
LEMMA ProductIsOnly ==
    ASSUME NEW X, IsFiniteSet(X), NEW val, NEW F, Multiplicative(F, X, val),
           NEW f, Multiplies(f, X, val), \A x \in X : val[x] \in Nat \ {0}
    PROVE  f[X] = F[X]
<1> DEFINE T == {k \in Nat : \A s \in SUBSET X : Cardinality(s) = k => f[s] = F[s]}
<1>1. \A s \in SUBSET X : IsFiniteSet(s) /\ Cardinality(s) \in Nat
  BY FS_Subset, FS_CardinalityType
<1>0. f[{}] = 1 /\ \A s \in SUBSET X : s # {} => f[s] = val[Chosen(s)] * f[s \ {Chosen(s)}]
  BY DEF Multiplies
<1>2. 0 \in T
  BY <1>0, <1>1, FS_EmptySet DEF Multiplicative
<1>3. ASSUME NEW k \in Nat, k \in T PROVE k + 1 \in T
  <2> SUFFICES ASSUME NEW s \in SUBSET X, Cardinality(s) = k + 1 PROVE f[s] = F[s]
    OBVIOUS
  <2>1. \A r \in SUBSET X : Cardinality(r) = k => f[r] = F[r]
    BY <1>3
  <2> HIDE DEF T
  <2>2. Cardinality({}) # k + 1
    BY FS_EmptySet
  <2>3. s # {} /\ Chosen(s) \in s
    BY <2>2, ChosenIn
  <2>4. Cardinality(s \ {Chosen(s)}) = Cardinality(s) - 1
    BY <1>1, <2>3, FS_RemoveElement
  <2>5. f[s \ {Chosen(s)}] = F[s \ {Chosen(s)}]
    BY <2>1, <2>4
  <2>6. F[s] = F[s \ {Chosen(s)}] * val[Chosen(s)] /\ F[s \ {Chosen(s)}] \in Nat \ {0}
    BY <2>3 DEF Multiplicative
  <2>7. val[Chosen(s)] \in Nat \ {0}
    BY <2>3
  <2>8. \A a, b \in Nat : a * b = b * a
    OBVIOUS
  <2> QED
    BY <1>0, <2>3, <2>5, <2>6, <2>7, <2>8
<1>4. \A k \in Nat : k \in T
  <2> HIDE DEF T
  <2> QED
    BY <1>2, <1>3, Induction
<1> QED
  BY <1>1, <1>4

\* The sum of a disjoint union.
LEMMA SumOfUnion ==
    ASSUME NEW X, IsFiniteSet(X), NEW val, NEW F, Additive(F, X, val),
           NEW a \in SUBSET X, NEW b \in SUBSET X, a \cap b = {},
           \A x \in X : val[x] \in Int
    PROVE  F[a \cup b] = F[a] + F[b]
<1> DEFINE T == {k \in Nat : \A s \in SUBSET b : Cardinality(s) = k => F[a \cup s] = F[a] + F[s]}
<1>0. \A s \in SUBSET b : IsFiniteSet(s) /\ Cardinality(s) \in Nat
  BY FS_Subset, FS_CardinalityType
<1>1. 0 \in T
  <2> SUFFICES ASSUME NEW s \in SUBSET b, Cardinality(s) = 0 PROVE F[a \cup s] = F[a] + F[s]
    OBVIOUS
  <2>1. s = {}
    BY <1>0, FS_EmptySet
  <2>2. F[s] = 0 /\ F[a] \in Int
    BY <2>1 DEF Additive
  <2>3. F[a \cup s] = F[a]
    BY <2>1
  <2> QED
    BY <2>2, <2>3
<1>2. ASSUME NEW k \in Nat, k \in T PROVE k + 1 \in T
  <2> SUFFICES ASSUME NEW s \in SUBSET b, Cardinality(s) = k + 1
               PROVE  F[a \cup s] = F[a] + F[s]
    OBVIOUS
  <2>1. \A r \in SUBSET b : Cardinality(r) = k => F[a \cup r] = F[a] + F[r]
    BY <1>2
  <2> HIDE DEF T
  <2>2. Cardinality({}) # k + 1
    BY FS_EmptySet
  <2>3. PICK y \in s : TRUE
    BY <2>2
  <2>4. Cardinality(s \ {y}) = Cardinality(s) - 1
    BY <1>0, <2>3, FS_RemoveElement
  <2>5. F[a \cup (s \ {y})] = F[a] + F[s \ {y}]
    BY <2>1, <2>4
  <2>6. F[s] = F[s \ {y}] + val[y]
    BY <2>3 DEF Additive
  <2>7. F[a \cup s] = F[a \cup (s \ {y})] + val[y]
    <3>1. /\ a \cup s \in SUBSET X /\ y \in a \cup s
          /\ (a \cup s) \ {y} = a \cup (s \ {y})
      BY <2>3
    <3>2. F[a \cup s] = F[(a \cup s) \ {y}] + val[y]
      BY <3>1 DEF Additive
    <3> QED
      BY <3>1, <3>2
  <2>8. F[a] \in Int /\ F[s \ {y}] \in Int /\ val[y] \in Int
    BY <2>3 DEF Additive
  <2> QED
    BY <2>5, <2>6, <2>7, <2>8
<1>3. \A k \in Nat : k \in T
  <2> HIDE DEF T
  <2> QED
    BY <1>1, <1>2, Induction
<1> QED
  BY <1>0, <1>3

\* The sum of values that are multiples of others'.
LEMMA SumOfMultiples ==
    ASSUME NEW X, IsFiniteSet(X), NEW val, NEW F, Additive(F, X, val),
           NEW other, NEW G, Additive(G, X, other), NEW c \in Int,
           NEW a \in SUBSET X, \A x \in a : other[x] \in Int /\ val[x] = c * other[x]
    PROVE  F[a] = c * G[a]
<1> DEFINE T == {k \in Nat : \A s \in SUBSET a : Cardinality(s) = k => F[s] = c * G[s]}
<1>0. \A s \in SUBSET a : IsFiniteSet(s) /\ Cardinality(s) \in Nat
  BY FS_Subset, FS_CardinalityType
<1>1. 0 \in T
  <2> SUFFICES ASSUME NEW s \in SUBSET a, Cardinality(s) = 0 PROVE F[s] = c * G[s]
    OBVIOUS
  <2>1. s = {}
    BY <1>0, FS_EmptySet
  <2>2. F[s] = 0 /\ G[s] = 0
    BY <2>1 DEF Additive
  <2> QED
    BY <2>2
<1>2. ASSUME NEW k \in Nat, k \in T PROVE k + 1 \in T
  <2> SUFFICES ASSUME NEW s \in SUBSET a, Cardinality(s) = k + 1 PROVE F[s] = c * G[s]
    OBVIOUS
  <2>1. \A r \in SUBSET a : Cardinality(r) = k => F[r] = c * G[r]
    BY <1>2
  <2> HIDE DEF T
  <2>2. Cardinality({}) # k + 1
    BY FS_EmptySet
  <2>3. PICK y \in s : TRUE
    BY <2>2
  <2>4. Cardinality(s \ {y}) = Cardinality(s) - 1
    BY <1>0, <2>3, FS_RemoveElement
  <2>5. F[s \ {y}] = c * G[s \ {y}]
    BY <2>1, <2>4
  <2>6. F[s] = F[s \ {y}] + val[y] /\ G[s] = G[s \ {y}] + other[y]
    BY <2>3 DEF Additive
  <2>7. G[s \ {y}] \in Int /\ other[y] \in Int /\ val[y] = c * other[y]
    BY <2>3 DEF Additive
  <2>8. \A u, v \in Int : c * u + c * v = c * (u + v)
    OBVIOUS
  <2> QED
    BY <2>5, <2>6, <2>7, <2>8
<1>3. \A k \in Nat : k \in T
  <2> HIDE DEF T
  <2> QED
    BY <1>1, <1>2, Induction
<1> QED
  BY <1>0, <1>3

-----------------------------------------------------------------------------
(* Folds of sequences, step by step.                                        *)

\* The greatest element of an interval is its end.
LEMMA MaxOfInterval ==
    ASSUME NEW k \in Nat \ {0}
    PROVE  Max(1..k) = k
BY DEF Max

\* The greatest element of a set is in it.
LEMMA MaxIn ==
    ASSUME NEW n \in Nat, NEW s, s \subseteq 1..n, s # {}
    PROVE  Max(s) \in s
<1> DEFINE U == {n - x : x \in s}
<1>1. U \subseteq Nat /\ U # {}
  <2>1. \A x \in s : n - x \in Nat
    OBVIOUS
  <2> QED
    BY <2>1
<1>2. PICK m \in U : \A k \in U : m <= k
  BY <1>1, Least
<1>3. PICK x \in s : m = n - x
  BY <1>2
<1>4. ASSUME NEW y \in s PROVE x >= y
  <2>1. n - y \in U /\ x \in Int /\ y \in Int
    BY <1>4
  <2>2. n - x <= n - y
    BY <1>2, <1>3, <2>1
  <2> HIDE DEF U
  <2> QED
    BY <2>1, <2>2
<1> QED
  BY <1>4 DEF Max

\* The library folds a sequence from the last position to the first.
LEMMA Stretch ==
    ASSUME NEW n \in Nat, NEW k \in 1..n
    PROVE  /\ (1..k) \in SUBSET (1..n) /\ 1..k # {}
           /\ (1..k) \ {k} = 1..(k - 1)
           /\ Max(1..k) = k
<1>1. (1..k) \in SUBSET (1..n) /\ 1..k # {}
  OBVIOUS
<1>2. (1..k) \ {k} = 1..(k - 1)
  OBVIOUS
<1>3. Max(1..k) = k
  BY MaxOfInterval
<1> QED
  BY <1>1, <1>2, <1>3

\* What FoldLeft folds over positions.
FoldsUp(f, n, V, base, combine) ==
    /\ f \in [SUBSET (1..n) -> V]
    /\ \A s \in SUBSET (1..n) :
         f[s] = IF s = {} THEN base ELSE combine[<<f[s \ {Max(s)}], Max(s)>>]

\* There is such a fold.
LEMMA FoldLeftExists ==
    ASSUME NEW n \in Nat, NEW V, NEW base \in V, NEW combine \in [V \X (1..n) -> V]
    PROVE  \E f : FoldsUp(f, n, V, base, combine)
<1> DEFINE S == 1..n
           pick == [s \in SUBSET S |-> Max(s)]
<1>1. IsFiniteSet(S)
  BY FS_Interval
<1>2. Picks(pick, S)
  BY MaxIn DEF Picks
<1> HIDE DEF S, pick
<1>3. PICK f : IsFold(f, S, V, pick, base, combine)
  BY <1>1, <1>2, FoldsExist DEF S
<1>4. \A s \in SUBSET S : s # {} => pick[s] = Max(s)
  BY DEF pick
<1> QED
  BY <1>3, <1>4 DEF IsFold, FoldsUp, S

\* What goes from one step to the next in a set stays in it.
LEMMA RunTyped ==
    ASSUME NEW n \in Nat, NEW V, NEW r, r[0] \in V,
           \A k \in 1..n : r[k - 1] \in V => r[k] \in V
    PROVE  \A k \in 0..n : r[k] \in V
<1> DEFINE T == {k \in Nat : k <= n => r[k] \in V}
<1>1. 0 \in T
  OBVIOUS
<1>2. ASSUME NEW k \in Nat, k \in T PROVE k + 1 \in T
  <2>1. k + 1 <= n => k + 1 \in 1..n /\ (k + 1) - 1 = k /\ k <= n
    OBVIOUS
  <2> QED
    BY <1>2, <2>1
<1>3. \A k \in Nat : k \in T
  <2> HIDE DEF T
  <2> QED
    BY <1>1, <1>2, Induction
<1> QED
  BY <1>3

\* Quantities and costs of lots.
Lots == [qty : Nat, cost : Int]

\* The quantities and the costs of lots, from the first lot on.
QtyRuns(lots, r) ==
    /\ r \in [0..Len(lots) -> Nat] /\ r[0] = 0
    /\ \A k \in 1..Len(lots) : r[k] = r[k - 1] + lots[k].qty

CostRuns(lots, r) ==
    /\ r \in [0..Len(lots) -> Int] /\ r[0] = 0
    /\ \A k \in 1..Len(lots) : r[k] = r[k - 1] + lots[k].cost

\* The folds of LedgerReplay come to where they end.
LEMMA QtyOfRuns ==
    ASSUME NEW lots \in Seq(Lots)
    PROVE  \E r : QtyRuns(lots, r) /\ r[Len(lots)] = QtyOf(lots)
<1> DEFINE n == Len(lots)
           combine == [x \in Nat \X (1..n) |-> x[1] + lots[x[2]].qty]
           Iter == CHOOSE f : f = [s \in SUBSET (DOMAIN lots) |->
                     IF s = {} THEN 0 ELSE f[s \ {Max(s)}] + lots[Max(s)].qty]
           r == [k \in 0..n |-> Iter[1..k]]
<1>0. n \in Nat /\ DOMAIN lots = 1..n /\ \A k \in 1..n : lots[k] \in Lots
  OBVIOUS
<1>1. n \in Nat /\ DOMAIN lots = 1..n /\ \A k \in 1..n : lots[k].qty \in Nat
  <2> HIDE DEF n
  <2> QED
    BY <1>0 DEF Lots
<1>2. combine \in [Nat \X (1..n) -> Nat]
  BY <1>1
<1>3. \A a \in Nat, k \in 1..n : combine[<<a, k>>] = a + lots[k].qty
  OBVIOUS
<1> HIDE DEF n, combine
<1>4. PICK f : FoldsUp(f, n, Nat, 0, combine)
  <2>1. 0 \in Nat
    OBVIOUS
  <2> QED
    BY <1>1, <1>2, <2>1, FoldLeftExists
<1>5. \A s \in SUBSET (1..n) : s # {} => Max(s) \in 1..n /\ s \ {Max(s)} \in SUBSET (1..n)
  BY <1>1, MaxIn
<1>6. f = [s \in SUBSET (DOMAIN lots) |->
             IF s = {} THEN 0 ELSE f[s \ {Max(s)}] + lots[Max(s)].qty]
  BY <1>1, <1>3, <1>4, <1>5 DEF FoldsUp
<1>7. Iter = [s \in SUBSET (DOMAIN lots) |->
                IF s = {} THEN 0 ELSE Iter[s \ {Max(s)}] + lots[Max(s)].qty]
  BY <1>6, Zenon
<1>8. QtyOf(lots) = Iter[DOMAIN lots]
  BY Zenon DEF QtyOf, FoldLeft, MapThenFoldSet
<1> HIDE DEF Iter
<1>9. Iter[{}] = 0
  BY <1>7
<1>10. ASSUME NEW k \in 1..n PROVE Iter[1..k] = Iter[1..(k - 1)] + lots[k].qty
  <2>1. /\ (1..k) \in SUBSET (DOMAIN lots) /\ 1..k # {} /\ Max(1..k) = k
        /\ (1..k) \ {k} = 1..(k - 1)
    BY <1>1, Stretch, Zenon
  <2> QED
    BY <1>7, <2>1, Zenon
<1>11. r[0] = 0 /\ \A k \in 1..n : r[k] = r[k - 1] + lots[k].qty
  BY <1>1, <1>9, <1>10
<1>12. r[n] = QtyOf(lots)
  BY <1>1, <1>8
<1> HIDE DEF r
<1>13. \A k \in 0..n : r[k] \in Nat
  <2>1. r[0] \in Nat /\ \A k \in 1..n : r[k - 1] \in Nat => r[k] \in Nat
    BY <1>1, <1>11
  <2> QED
    BY <1>1, <2>1, RunTyped
<1> QED
  BY <1>1, <1>11, <1>12, <1>13 DEF QtyRuns, n, r

\* The same of the costs.
LEMMA CostOfRuns ==
    ASSUME NEW lots \in Seq(Lots)
    PROVE  \E r : CostRuns(lots, r) /\ r[Len(lots)] = CostOf(lots)
<1> DEFINE n == Len(lots)
           combine == [x \in Int \X (1..n) |-> x[1] + lots[x[2]].cost]
           Iter == CHOOSE f : f = [s \in SUBSET (DOMAIN lots) |->
                     IF s = {} THEN 0 ELSE f[s \ {Max(s)}] + lots[Max(s)].cost]
           r == [k \in 0..n |-> Iter[1..k]]
<1>0. n \in Nat /\ DOMAIN lots = 1..n /\ \A k \in 1..n : lots[k] \in Lots
  OBVIOUS
<1>1. n \in Nat /\ DOMAIN lots = 1..n /\ \A k \in 1..n : lots[k].cost \in Int
  <2> HIDE DEF n
  <2> QED
    BY <1>0 DEF Lots
<1>2. combine \in [Int \X (1..n) -> Int]
  BY <1>1
<1>3. \A a \in Int, k \in 1..n : combine[<<a, k>>] = a + lots[k].cost
  OBVIOUS
<1> HIDE DEF n, combine
<1>4. PICK f : FoldsUp(f, n, Int, 0, combine)
  <2>1. 0 \in Int
    OBVIOUS
  <2> QED
    BY <1>1, <1>2, <2>1, FoldLeftExists
<1>5. \A s \in SUBSET (1..n) : s # {} => Max(s) \in 1..n /\ s \ {Max(s)} \in SUBSET (1..n)
  BY <1>1, MaxIn
<1>6. f = [s \in SUBSET (DOMAIN lots) |->
             IF s = {} THEN 0 ELSE f[s \ {Max(s)}] + lots[Max(s)].cost]
  BY <1>1, <1>3, <1>4, <1>5 DEF FoldsUp
<1>7. Iter = [s \in SUBSET (DOMAIN lots) |->
                IF s = {} THEN 0 ELSE Iter[s \ {Max(s)}] + lots[Max(s)].cost]
  BY <1>6, Zenon
<1>8. CostOf(lots) = Iter[DOMAIN lots]
  BY Zenon DEF CostOf, FoldLeft, MapThenFoldSet
<1> HIDE DEF Iter
<1>9. Iter[{}] = 0
  BY <1>7
<1>10. ASSUME NEW k \in 1..n PROVE Iter[1..k] = Iter[1..(k - 1)] + lots[k].cost
  <2>1. /\ (1..k) \in SUBSET (DOMAIN lots) /\ 1..k # {} /\ Max(1..k) = k
        /\ (1..k) \ {k} = 1..(k - 1)
    BY <1>1, Stretch, Zenon
  <2> QED
    BY <1>7, <2>1, Zenon
<1>11. r[0] = 0 /\ \A k \in 1..n : r[k] = r[k - 1] + lots[k].cost
  BY <1>1, <1>9, <1>10
<1>12. r[n] = CostOf(lots)
  BY <1>1, <1>8
<1> HIDE DEF r
<1>13. \A k \in 0..n : r[k] \in Int
  <2>1. r[0] \in Int /\ \A k \in 1..n : r[k - 1] \in Int => r[k] \in Int
    BY <1>1, <1>11
  <2> QED
    BY <1>1, <2>1, RunTyped
<1> QED
  BY <1>1, <1>11, <1>12, <1>13 DEF CostRuns, n, r

\* Only one function runs through the quantities or costs of lots.
Strung(a, n, r) ==
    /\ \A k \in 0..n : r[k] \in Int
    /\ r[0] = 0
    /\ \A k \in 1..n : r[k] = r[k - 1] + a[k]

\* Two such functions end alike.
LEMMA SameRuns ==
    ASSUME NEW n \in Nat, NEW a, NEW r, Strung(a, n, r), NEW s, Strung(a, n, s)
    PROVE  r[n] = s[n]
<1> DEFINE T == {k \in Nat : k <= n => r[k] = s[k]}
<1>1. 0 \in T
  BY DEF Strung
<1>2. ASSUME NEW k \in Nat, k \in T PROVE k + 1 \in T
  <2>1. k + 1 <= n => k + 1 \in 1..n /\ (k + 1) - 1 = k /\ k <= n
    OBVIOUS
  <2> QED
    BY <1>2, <2>1 DEF Strung
<1>3. \A k \in Nat : k \in T
  <2> HIDE DEF T
  <2> QED
    BY <1>1, <1>2, Induction
<1> QED
  BY <1>3

\* So whatever runs through the quantities ends with their sum,
LEMMA QtyRunsOnly ==
    ASSUME NEW lots \in Seq(Lots), NEW r, QtyRuns(lots, r)
    PROVE  r[Len(lots)] = QtyOf(lots)
<1> DEFINE n == Len(lots)
<1>1. PICK s : QtyRuns(lots, s) /\ s[n] = QtyOf(lots)
  BY QtyOfRuns
<1>2. n \in Nat /\ \A k \in 1..n : lots[k] \in Lots
  OBVIOUS
<1>3. n \in Nat /\ \A k \in 1..n : lots[k].qty \in Int
  BY <1>2 DEF Lots
<1> HIDE DEF n
<1>0. r \in [0..n -> Nat] /\ s \in [0..n -> Nat]
  BY <1>1 DEF QtyRuns, n
<1>4. /\ \A k \in 0..n : r[k] \in Int /\ s[k] \in Int
      /\ r[0] = 0 /\ s[0] = 0
      /\ \A k \in 1..n : r[k] = r[k - 1] + lots[k].qty /\ s[k] = s[k - 1] + lots[k].qty
  BY <1>0, <1>1 DEF QtyRuns, n
<1> HIDE DEF n
<1>5. r[n] = s[n]
  <2> DEFINE a == [k \in 1..n |-> lots[k].qty]
  <2>1. Strung(a, n, r) /\ Strung(a, n, s)
    BY <1>4 DEF Strung
  <2> HIDE DEF a
  <2> QED
    BY <1>3, <2>1, SameRuns
<1> QED
  BY <1>1, <1>5 DEF n

\* and whatever runs through the costs with theirs.
LEMMA CostRunsOnly ==
    ASSUME NEW lots \in Seq(Lots), NEW r, CostRuns(lots, r)
    PROVE  r[Len(lots)] = CostOf(lots)
<1> DEFINE n == Len(lots)
<1>1. PICK s : CostRuns(lots, s) /\ s[n] = CostOf(lots)
  BY CostOfRuns
<1>2. n \in Nat /\ \A k \in 1..n : lots[k] \in Lots
  OBVIOUS
<1>3. n \in Nat /\ \A k \in 1..n : lots[k].cost \in Int
  BY <1>2 DEF Lots
<1>4. /\ \A k \in 0..n : r[k] \in Int /\ s[k] \in Int
      /\ r[0] = 0 /\ s[0] = 0
      /\ \A k \in 1..n : r[k] = r[k - 1] + lots[k].cost /\ s[k] = s[k - 1] + lots[k].cost
  BY <1>1 DEF CostRuns
<1> HIDE DEF n
<1>5. r[n] = s[n]
  <2> DEFINE a == [k \in 1..n |-> lots[k].cost]
  <2>1. Strung(a, n, r) /\ Strung(a, n, s)
    BY <1>4 DEF Strung
  <2> HIDE DEF a
  <2> QED
    BY <1>3, <2>1, SameRuns
<1> QED
  BY <1>1, <1>5 DEF n

-----------------------------------------------------------------------------
(* A sale, lot by lot.                                                      *)

\* A sale on its way through the lots, and one that has not begun.
Sales == [left : Nat, cost : Int, lots : Seq(Lots), undefined : BOOLEAN]

Asked(requested) == [left |-> requested, cost |-> 0, lots |-> <<>>, undefined |-> FALSE]

\* What a division comes to.
LEMMA QuotientIs ==
    ASSUME NEW a \in Int, NEW b \in Nat \ {0}, NEW c \in Int, b * c <= a, a < b * c + b
    PROVE  a \div b = c
OBVIOUS

\* The share of a lot that is taken whole is its cost: there is nothing to round.
LEMMA WholeShare ==
    ASSUME NEW c \in Int, NEW q \in Nat \ {0}
    PROVE  RoundHalfUp(c * q, q) = c
<1>1. 2 * (c * q) + q \in Int /\ 2 * q \in Nat \ {0}
  OBVIOUS
<1>2. (2 * q) * c = 2 * (c * q)
  OBVIOUS
<1>3. (2 * q) * c <= 2 * (c * q) + q /\ 2 * (c * q) + q < (2 * q) * c + 2 * q
  BY <1>2
<1> QED
  BY <1>1, <1>3, QuotientIs DEF RoundHalfUp

\* Chosen other share is a whole number of calculation units.
LEMMA RoundHalfUpTyped ==
    ASSUME NEW a \in Int, NEW b \in Nat \ {0}
    PROVE  RoundHalfUp(a, b) \in Int
BY DEF RoundHalfUp

\* The less of two numbers.
LEMMA MinOf ==
    ASSUME NEW a \in Int, NEW b \in Int
    PROVE  Min({a, b}) = IF a <= b THEN a ELSE b
BY DEF Min

\* The greater of two numbers.
LEMMA MaxOf ==
    ASSUME NEW a \in Int, NEW b \in Int
    PROVE  Max({a, b}) = IF a <= b THEN b ELSE a
BY DEF Max

\* A step of a sale is one.
LEMMA TakeTyped ==
    ASSUME NEW sale \in Sales, NEW lot \in Lots
    PROVE  TakeFrom(sale, lot) \in Sales
<1>0. /\ lot.qty \in Nat /\ lot.cost \in Int
      /\ sale.left \in Nat /\ sale.cost \in Int
      /\ sale.lots \in Seq(Lots) /\ sale.undefined \in BOOLEAN
  BY DEF Sales, Lots
<1>1. CASE sale.left = 0
  <2>1. Append(sale.lots, lot) \in Seq(Lots)
    BY <1>0
  <2> QED
    BY <1>1, <2>1 DEF TakeFrom, Sales
<1>2. CASE sale.left # 0
  <2> DEFINE used == Min({lot.qty, sale.left})
             usedCost == IF lot.qty = 0 THEN 0 ELSE RoundHalfUp(lot.cost * used, lot.qty)
  <2>1. used = IF lot.qty <= sale.left THEN lot.qty ELSE sale.left
    BY <1>0, MinOf
  <2>2. used \in Nat /\ sale.left - used \in Nat /\ lot.qty - used \in Nat
    BY <1>0, <2>1
  <2> HIDE DEF used
  <2>3. usedCost \in Int
    <3>1. lot.cost * used \in Int
      BY <1>0, <2>2
    <3>2. CASE lot.qty = 0
      BY <3>2
    <3>3. CASE lot.qty # 0
      <4>1. lot.qty \in Nat \ {0}
        BY <1>0, <3>3
      <4> QED
        BY <3>1, <3>3, <4>1, RoundHalfUpTyped
    <3> QED
      BY <3>2, <3>3
  <2> HIDE DEF usedCost
  <2>4. Lot(lot.qty - used, lot.cost - usedCost) \in Lots
    BY <1>0, <2>2, <2>3 DEF Lot, Lots
  <2>5. (IF used < lot.qty
         THEN Append(sale.lots, Lot(lot.qty - used, lot.cost - usedCost))
         ELSE sale.lots) \in Seq(Lots)
    BY <1>0, <2>4
  <2>6. TakeFrom(sale, lot) =
          [left      |-> sale.left - used,
           cost      |-> sale.cost + usedCost,
           lots      |-> IF used < lot.qty
                         THEN Append(sale.lots, Lot(lot.qty - used, lot.cost - usedCost))
                         ELSE sale.lots,
           undefined |-> sale.undefined \/ lot.qty = 0]
    BY <1>2 DEF TakeFrom, used, usedCost
  <2>7. sale.cost + usedCost \in Int /\ (sale.undefined \/ lot.qty = 0) \in BOOLEAN
    BY <1>0, <2>3
  <2> QED
    BY <2>2, <2>5, <2>6, <2>7 DEF Sales
<1> QED
  BY <1>1, <1>2

\* What the sale takes of a lot that is not empty: nothing, all of it, or a part.
LEMMA TakeNothing ==
    ASSUME NEW sale \in Sales, NEW lot \in Lots, sale.left = 0
    PROVE  TakeFrom(sale, lot) =
             [left |-> 0, cost |-> sale.cost, lots |-> Append(sale.lots, lot),
              undefined |-> sale.undefined]
<1>1. TakeFrom(sale, lot) = [sale EXCEPT !.lots = Append(sale.lots, lot)]
  BY DEF TakeFrom
<1>2. sale = [left |-> sale.left, cost |-> sale.cost, lots |-> sale.lots,
              undefined |-> sale.undefined]
  BY DEF Sales
<1> HIDE DEF Lots
<1> QED
  BY <1>1, <1>2

\* A lot that is put behind the others.
LEMMA Appended ==
    ASSUME NEW s \in Seq(Lots), NEW lot \in Lots
    PROVE  /\ Append(s, lot) \in Seq(Lots)
           /\ Len(Append(s, lot)) = Len(s) + 1
           /\ \A i \in 1..Len(s) : Append(s, lot)[i] = s[i]
           /\ Append(s, lot)[Len(s) + 1] = lot
OBVIOUS

\* A lot that is not more than what is left to sell is used up, with its whole cost.
LEMMA TakeWhole ==
    ASSUME NEW sale \in Sales, NEW lot \in Lots, lot.qty > 0, lot.qty <= sale.left
    PROVE  TakeFrom(sale, lot) =
             [left |-> sale.left - lot.qty, cost |-> sale.cost + lot.cost,
              lots |-> sale.lots, undefined |-> sale.undefined]
<1>0. lot.qty \in Nat \ {0} /\ lot.cost \in Int /\ sale.left \in Nat /\ sale.undefined \in BOOLEAN
  BY DEF Sales, Lots
<1>1. Min({lot.qty, sale.left}) = lot.qty
  BY <1>0, MinOf
<1>2. RoundHalfUp(lot.cost * lot.qty, lot.qty) = lot.cost
  BY <1>0, WholeShare
<1>3. sale.left # 0 /\ lot.qty # 0 /\ ~(lot.qty < lot.qty)
  BY <1>0
<1>4. (sale.undefined \/ lot.qty = 0) = sale.undefined
  BY <1>0
<1> QED
  BY <1>1, <1>2, <1>3, <1>4, Zenon DEF TakeFrom

\* Of a greater one the rest is left, and with it the rest of its cost.
LEMMA TakePart ==
    ASSUME NEW sale \in Sales, NEW lot \in Lots, 0 < sale.left, sale.left < lot.qty
    PROVE  \E uc \in Int :
             TakeFrom(sale, lot) =
               [left |-> 0, cost |-> sale.cost + uc,
                lots |-> Append(sale.lots, [qty |-> lot.qty - sale.left, cost |-> lot.cost - uc]),
                undefined |-> sale.undefined]
<1>0. lot.qty \in Nat \ {0} /\ lot.cost \in Int /\ sale.left \in Nat /\ sale.undefined \in BOOLEAN
  BY DEF Sales, Lots
<1>1. Min({lot.qty, sale.left}) = sale.left
  BY <1>0, MinOf
<1> DEFINE uc == RoundHalfUp(lot.cost * sale.left, lot.qty)
<1>2. uc \in Int
  <2>1. lot.cost * sale.left \in Int
    BY <1>0
  <2> QED
    BY <1>0, <2>1, RoundHalfUpTyped
<1>3. sale.left # 0 /\ lot.qty # 0 /\ sale.left < lot.qty /\ sale.left - sale.left = 0
  BY <1>0
<1>4. (sale.undefined \/ lot.qty = 0) = sale.undefined
  BY <1>0
<1>5. TakeFrom(sale, lot) =
        [left |-> 0, cost |-> sale.cost + uc,
         lots |-> Append(sale.lots, [qty |-> lot.qty - sale.left, cost |-> lot.cost - uc]),
         undefined |-> sale.undefined]
  BY <1>1, <1>3, <1>4, Zenon DEF TakeFrom, Lot
<1> QED
  BY <1>2, <1>5

\* A sale, from lot to lot.
SaleRuns(lots, requested, r) ==
    /\ \A k \in 0..Len(lots) : r[k] \in Sales
    /\ r[0] = Asked(requested)
    /\ \A k \in 1..Len(lots) : r[k] = TakeFrom(r[k - 1], lots[k])

\* Consume comes to where it ends.
LEMMA ConsumeRuns ==
    ASSUME NEW lots \in Seq(Lots), NEW requested \in Nat
    PROVE  \E r : SaleRuns(lots, requested, r) /\ r[Len(lots)] = Consume(lots, requested)
<1> DEFINE n == Len(lots)
           base == [left |-> requested, cost |-> 0, lots |-> <<>>, undefined |-> FALSE]
           combine == [x \in Sales \X (1..n) |-> TakeFrom(x[1], lots[x[2]])]
           Iter == CHOOSE f : f = [s \in SUBSET (DOMAIN lots) |->
                     IF s = {} THEN base ELSE TakeFrom(f[s \ {Max(s)}], lots[Max(s)])]
           r == [k \in 0..n |-> Iter[1..k]]
<1>1. n \in Nat /\ DOMAIN lots = 1..n /\ \A k \in 1..n : lots[k] \in Lots
  OBVIOUS
<1> HIDE DEF n
<1>2. combine \in [Sales \X (1..n) -> Sales]
  BY <1>1, TakeTyped
<1>3. \A a \in Sales, k \in 1..n : combine[<<a, k>>] = TakeFrom(a, lots[k])
  OBVIOUS
<1>0. base \in Sales /\ base = Asked(requested)
  BY DEF Sales, Asked
<1> HIDE DEF base, combine
<1>4. PICK f : FoldsUp(f, n, Sales, base, combine)
  BY <1>0, <1>1, <1>2, FoldLeftExists
<1>5. \A s \in SUBSET (1..n) : s # {} => Max(s) \in 1..n /\ s \ {Max(s)} \in SUBSET (1..n)
  BY <1>1, MaxIn
<1>6. f = [s \in SUBSET (DOMAIN lots) |->
             IF s = {} THEN base ELSE TakeFrom(f[s \ {Max(s)}], lots[Max(s)])]
  BY <1>1, <1>3, <1>4, <1>5 DEF FoldsUp
<1>7. Iter = [s \in SUBSET (DOMAIN lots) |->
                IF s = {} THEN base ELSE TakeFrom(Iter[s \ {Max(s)}], lots[Max(s)])]
  BY <1>6, Zenon
<1>8. Consume(lots, requested) = Iter[DOMAIN lots]
  BY Zenon DEF Consume, FoldLeft, MapThenFoldSet, base
<1> HIDE DEF Iter
<1>9. Iter[{}] = base
  BY <1>7
<1>10. ASSUME NEW k \in 1..n PROVE Iter[1..k] = TakeFrom(Iter[1..(k - 1)], lots[k])
  <2>1. /\ (1..k) \in SUBSET (DOMAIN lots) /\ 1..k # {} /\ Max(1..k) = k
        /\ (1..k) \ {k} = 1..(k - 1)
    BY <1>1, Stretch, Zenon
  <2> QED
    BY <1>7, <2>1, Zenon
<1>11. r[0] = base
  <2>1. 1..0 = {} /\ 0 \in 0..n
    BY <1>1
  <2> QED
    BY <1>9, <2>1
<1>12. ASSUME NEW k \in 1..n PROVE r[k] = TakeFrom(r[k - 1], lots[k])
  <2>1. k \in 0..n /\ k - 1 \in 0..n
    BY <1>1
  <2>2. r[k] = Iter[1..k] /\ r[k - 1] = Iter[1..(k - 1)]
    BY <2>1
  <2> QED
    BY <1>10, <2>2
<1>13. r[n] = Consume(lots, requested)
  <2>1. n \in 0..n
    BY <1>1
  <2> QED
    BY <1>1, <1>8, <2>1
<1> HIDE DEF r
<1>14. \A k \in 0..n : r[k] \in Sales
  <2>1. r[0] \in Sales /\ \A k \in 1..n : r[k - 1] \in Sales => r[k] \in Sales
    BY <1>0, <1>1, <1>11, <1>12, TakeTyped
  <2> QED
    BY <1>1, <2>1, RunTyped
<1> QED
  <2>1. SaleRuns(lots, requested, r)
    BY <1>0, <1>11, <1>12, <1>14 DEF SaleRuns, n
  <2> QED
    BY <1>13, <2>1 DEF n

\* What is left after a sale of requested units: the lots after the m-th, the first of
\* them perhaps in part, at a cost uc less.
Leaves(sale, lots, requested, X, C, m, uc) ==
    /\ m \in 0..Len(lots) /\ uc \in Int
    /\ X[m] <= requested
    /\ m < Len(lots) => requested < X[m + 1]
    /\ m = Len(lots) => uc = 0
    /\ requested = X[m] => uc = 0
    /\ sale.undefined = FALSE
    /\ sale.cost = C[m] + uc
    /\ sale.lots \in Seq(Lots) /\ Len(sale.lots) = Len(lots) - m
    /\ \A i \in 1..(Len(lots) - m) :
         sale.lots[i] = IF i = 1 THEN [qty |-> X[m + 1] - requested, cost |-> lots[m + 1].cost - uc]
                                 ELSE lots[m + i]

\* The lots that a sale takes whole are the first ones.
LEMMA LastWhole ==
    ASSUME NEW n \in Nat, NEW X, \A k \in 0..n : X[k] \in Nat, X[0] = 0,
           NEW requested \in Nat
    PROVE  \E m \in 0..n : /\ \A k \in 0..m : X[k] <= requested
                           /\ m < n => requested < X[m + 1]
<1> DEFINE S == {k \in 0..n : requested < X[k]}
<1>1. CASE S = {}
  <2>1. \A k \in 0..n : X[k] <= requested
    BY <1>1
  <2> QED
    BY <2>1
<1>2. CASE S # {}
  <2>0. S \subseteq Nat
    OBVIOUS
  <2> HIDE DEF S
  <2>1. PICK k \in S : \A j \in S : k <= j
    BY <1>2, <2>0, Least
  <2> USE DEF S
  <2>2. k \in 1..n /\ requested < X[k]
    BY <2>1
  <2>3. \A j \in 0..(k - 1) : X[j] <= requested
    <3> SUFFICES ASSUME NEW j \in 0..(k - 1) PROVE X[j] <= requested
      OBVIOUS
    <3>1. j \in 0..n /\ ~(k <= j)
      BY <2>2
    <3>2. j \notin S
      BY <2>1, <3>1
    <3> QED
      BY <3>1, <3>2
  <2>4. k - 1 \in 0..n /\ (k - 1) + 1 = k
    BY <2>2
  <2> QED
    BY <2>2, <2>3, <2>4
<1> QED
  BY <1>1, <1>2

\* Places of the lots behind lot m + 1.
LEMMA LotBehind ==
    ASSUME NEW n \in Nat, NEW m \in 0..n, NEW j \in Nat, m + 1 + (j + 1) <= n
    PROVE  LET k == m + 1 + j
           IN  /\ m + 1 + (j + 1) = k + 1 /\ k \in Nat /\ k + 1 \in 1..n /\ k \in 0..n /\ k <= n
               /\ (k + 1) - 1 = k /\ (k + 1) - m = (k - m) + 1 /\ k - m \in Nat /\ k - m >= 1
               /\ m + ((k - m) + 1) = k + 1
OBVIOUS

\* A sale of not more than there is leaves the lots behind it as they were.
LEMMA ConsumeLeaves ==
    ASSUME NEW lots \in Seq(Lots), \A i \in 1..Len(lots) : lots[i].qty > 0,
           NEW X, QtyRuns(lots, X), NEW C, CostRuns(lots, C),
           NEW requested \in Nat, requested <= X[Len(lots)]
    PROVE  \E m, uc : Leaves(Consume(lots, requested), lots, requested, X, C, m, uc)
<1> DEFINE n == Len(lots)
<1>1. n \in Nat /\ \A i \in 1..n : lots[i] \in Lots
  OBVIOUS
<1>2. \A i \in 1..n : lots[i].qty \in Nat \ {0} /\ lots[i].cost \in Int
  BY <1>1 DEF Lots
<1>3. /\ \A k \in 0..n : X[k] \in Nat /\ C[k] \in Int
      /\ X[0] = 0 /\ C[0] = 0
      /\ \A k \in 1..n : X[k] = X[k - 1] + lots[k].qty /\ C[k] = C[k - 1] + lots[k].cost
  BY DEF QtyRuns, CostRuns
<1>4. PICK r : SaleRuns(lots, requested, r) /\ r[n] = Consume(lots, requested)
  BY ConsumeRuns
<1>5. /\ \A k \in 0..n : r[k] \in Sales
      /\ r[0] = Asked(requested)
      /\ \A k \in 1..n : r[k] = TakeFrom(r[k - 1], lots[k])
  BY <1>4 DEF SaleRuns
<1>6. requested <= X[n]
  OBVIOUS
<1> HIDE DEF n
<1>7. PICK m \in 0..n : /\ \A k \in 0..m : X[k] <= requested
                        /\ m < n => requested < X[m + 1]
  BY <1>1, <1>3, LastWhole
\* The first m lots go whole,
<1> DEFINE Whole(k) == [left |-> requested - X[k], cost |-> C[k], lots |-> <<>>,
                        undefined |-> FALSE]
           T == {k \in Nat : k <= m => r[k] = Whole(k)}
<1>8. 0 \in T
  <2>1. requested - X[0] = requested /\ C[0] = 0 /\ r[0] = Asked(requested)
    BY <1>1, <1>3, <1>5
  <2> QED
    BY <2>1 DEF Asked
<1>9. ASSUME NEW k \in Nat, k \in T PROVE k + 1 \in T
  <2> SUFFICES ASSUME k + 1 <= m PROVE r[k + 1] = Whole(k + 1)
    OBVIOUS
  <2>1. k \in 0..n /\ k + 1 \in 1..n /\ (k + 1) - 1 = k /\ k + 1 \in 0..m /\ k + 1 \in 0..n
    BY <1>1, <1>7
  <2>2. r[k] = Whole(k) /\ r[k] \in Sales
    BY <1>5, <1>9, <2>1
  <2>3. X[k + 1] = X[k] + lots[k + 1].qty /\ C[k + 1] = C[k] + lots[k + 1].cost
        /\ r[k + 1] = TakeFrom(r[k], lots[k + 1]) /\ X[k + 1] <= requested
    BY <1>3, <1>5, <1>7, <2>1
  <2>4. X[k] \in Nat /\ C[k] \in Int /\ X[k + 1] \in Nat
    BY <1>3, <2>1
  <2> DEFINE lot == lots[k + 1]
  <2>5. lot \in Lots /\ lot.qty \in Nat \ {0} /\ lot.cost \in Int
    BY <1>1, <1>2, <2>1
  <2> HIDE DEF T
  <2>6. /\ r[k].left = requested - X[k] /\ r[k].cost = C[k] /\ r[k].lots = <<>>
        /\ r[k].undefined = FALSE
    BY <2>2
  <2> HIDE DEF lot, Whole
  <2>7. lot.qty > 0 /\ lot.qty <= r[k].left
    BY <2>3, <2>4, <2>5, <2>6 DEF lot
  <2>8. r[k + 1] = [left |-> r[k].left - lot.qty, cost |-> r[k].cost + lot.cost,
                    lots |-> r[k].lots, undefined |-> r[k].undefined]
    BY <2>2, <2>3, <2>5, <2>7, TakeWhole DEF lot
  <2>9. r[k].left - lot.qty = requested - X[k + 1]
    <3> DEFINE x == X[k]
               y == X[k + 1]
               qty == lot.qty
    <3>1. y = x + qty
      BY <2>3 DEF lot
    <3>2. r[k].left = requested - x
      BY <2>6
    <3>3. x \in Int /\ y \in Int /\ qty \in Int /\ requested \in Int
      BY <2>4, <2>5
    <3> HIDE DEF x, y, qty
    <3>4. (requested - x) - qty = requested - y
      BY <3>1, <3>3
    <3>5. r[k].left - qty = requested - y
      BY <3>2, <3>4
    <3> QED
      BY <3>5 DEF y, qty
  <2> QED
    BY <2>3, <2>6, <2>8, <2>9 DEF Whole, lot
<1>10. r[m] = Whole(m)
  <2>1. \A k \in Nat : k \in T
    <3> HIDE DEF T
    <3> QED
      BY <1>8, <1>9, Induction
  <2>2. m \in Nat /\ m <= m
    BY <1>1, <1>7
  <2> HIDE DEF Whole
  <2> QED
    BY <2>1, <2>2
<1> HIDE DEF T
<1>11. X[m] \in Nat /\ C[m] \in Int /\ X[m] <= requested
  BY <1>3, <1>7
<1>12. CASE m = n
  <2>1. X[n] = requested
    BY <1>3, <1>6, <1>11, <1>12
  <2>2. r[n].undefined = FALSE /\ r[n].cost = C[m] + 0 /\ r[n].lots = <<>>
    BY <1>10, <1>11, <1>12
  <2>3. Len(r[n].lots) = n - m /\ r[n].lots \in Seq(Lots) /\ 1..(n - m) = {} /\ ~(m < n)
    BY <1>1, <1>12, <2>2
  <2>4. Leaves(r[n], lots, requested, X, C, m, 0)
    BY <1>7, <1>11, <2>2, <2>3 DEF Leaves, n
  <2> QED
    BY <1>4, <2>4
\* a part, or nothing, is taken of the next,
<1>13. CASE m < n
  <2> DEFINE lot == lots[m + 1]
             rest == X[m + 1] - requested
  <2>1. m + 1 \in 1..n /\ (m + 1) - 1 = m /\ m \in 0..n /\ m + 1 \in 0..n
    BY <1>1, <1>7, <1>13
  <2>2. lot \in Lots /\ lot.qty \in Nat \ {0} /\ lot.cost \in Int
    BY <1>1, <1>2, <2>1
  <2>3. /\ r[m + 1] = TakeFrom(r[m], lot) /\ r[m] \in Sales
        /\ X[m + 1] = X[m] + lot.qty /\ requested < X[m + 1] /\ X[m + 1] \in Nat
    BY <1>3, <1>5, <1>7, <1>13, <2>1
  <2>4. /\ r[m].left = requested - X[m] /\ r[m].cost = C[m] /\ r[m].lots = <<>>
        /\ r[m].undefined = FALSE
    BY <1>10
  <2> HIDE DEF lot, Whole
  <2>5. \E uc \in Int :
          /\ requested = X[m] => uc = 0
          /\ r[m + 1] = [left |-> 0, cost |-> C[m] + uc,
                         lots |-> <<[qty |-> rest, cost |-> lot.cost - uc]>>,
                         undefined |-> FALSE]
    <3>1. CASE requested = X[m]
      <4>1. r[m].left = 0
        BY <1>11, <2>4, <3>1
      <4>2. r[m + 1] = [left |-> 0, cost |-> r[m].cost, lots |-> Append(r[m].lots, lot),
                        undefined |-> r[m].undefined]
        BY <2>2, <2>3, <4>1, TakeNothing
      <4>3. rest = lot.qty /\ lot.cost - 0 = lot.cost /\ C[m] + 0 = C[m]
        BY <1>11, <2>2, <2>3, <3>1
      <4>4. lot = [qty |-> rest, cost |-> lot.cost - 0]
        BY <2>2, <4>3 DEF Lots
      <4>5. Append(<<>>, lot) = <<lot>>
        OBVIOUS
      <4> HIDE DEF rest
      <4>6. r[m + 1] = [left |-> 0, cost |-> C[m] + 0, lots |-> <<lot>>, undefined |-> FALSE]
        <5>1. Append(r[m].lots, lot) = <<lot>> /\ r[m].cost = C[m] + 0
          BY <2>4, <4>3, <4>5
        <5> QED
          BY <2>4, <4>2, <5>1, Zenon
      <4>7. <<lot>> = <<[qty |-> rest, cost |-> lot.cost - 0]>>
        BY <4>4, Zenon
      <4>8. r[m + 1] = [left |-> 0, cost |-> C[m] + 0,
                        lots |-> <<[qty |-> rest, cost |-> lot.cost - 0]>>,
                        undefined |-> FALSE]
        BY <4>6, <4>7, Zenon
      <4>9. 0 \in Int
        OBVIOUS
      <4> QED
        BY <4>8, <4>9, Zenon
    <3>2. CASE requested # X[m]
      <4>1. 0 < r[m].left /\ r[m].left < lot.qty /\ lot.qty - r[m].left = rest
        BY <1>11, <2>2, <2>3, <2>4, <3>2
      <4> HIDE DEF rest
      <4>2. PICK uc \in Int :
              r[m + 1] =
                [left |-> 0, cost |-> r[m].cost + uc,
                 lots |-> Append(r[m].lots,
                                 [qty |-> lot.qty - r[m].left, cost |-> lot.cost - uc]),
                 undefined |-> r[m].undefined]
        <5>1. \E uc \in Int :
                TakeFrom(r[m], lot) =
                  [left |-> 0, cost |-> r[m].cost + uc,
                   lots |-> Append(r[m].lots,
                                   [qty |-> lot.qty - r[m].left, cost |-> lot.cost - uc]),
                   undefined |-> r[m].undefined]
          BY <2>2, <2>3, <4>1, TakePart
        <5> QED
          BY <2>3, <5>1
      <4>3. Append(<<>>, [qty |-> rest, cost |-> lot.cost - uc])
              = <<[qty |-> rest, cost |-> lot.cost - uc]>>
        OBVIOUS
      <4> QED
        BY <2>4, <3>2, <4>1, <4>2, <4>3
    <3> QED
      BY <3>1, <3>2
  <2>6. PICK uc \in Int :
          /\ requested = X[m] => uc = 0
          /\ r[m + 1] = [left |-> 0, cost |-> C[m] + uc,
                         lots |-> <<[qty |-> rest, cost |-> lot.cost - uc]>>,
                         undefined |-> FALSE]
    BY <2>5
  <2> DEFINE first == [qty |-> rest, cost |-> lot.cost - uc]
             Kept(k) == /\ r[k].left = 0 /\ r[k].cost = C[m] + uc /\ r[k].undefined = FALSE
                        /\ Len(r[k].lots) = k - m
                        /\ \A i \in 1..(k - m) :
                             r[k].lots[i] = IF i = 1 THEN first ELSE lots[m + i]
             U == {j \in Nat : m + 1 + j <= n => Kept(m + 1 + j)}
  <2> HIDE DEF first, rest, Kept
  \* and all that follow are kept.
  <2>7. 0 \in U
    <3>1. (m + 1 + 0) = m + 1 /\ (m + 1) - m = 1
      BY <2>1
    <3>2. Kept(m + 1)
      BY <2>1, <2>6, <3>1 DEF first, Kept
    <3> QED
      BY <3>1, <3>2
  <2>8. ASSUME NEW j \in Nat, j \in U PROVE j + 1 \in U
    <3> DEFINE k == m + 1 + j
    <3> SUFFICES ASSUME m + 1 + (j + 1) <= n PROVE Kept(m + 1 + (j + 1))
      OBVIOUS
    <3>1. /\ m + 1 + (j + 1) = k + 1 /\ k \in Nat /\ k + 1 \in 1..n /\ k \in 0..n /\ k <= n
          /\ (k + 1) - 1 = k /\ (k + 1) - m = (k - m) + 1 /\ k - m \in Nat /\ k - m >= 1
          /\ m + ((k - m) + 1) = k + 1
      BY <1>1, LotBehind
    <3>2. Kept(k)
      BY <2>8, <3>1
    <3> HIDE DEF k, U
    <3>3. r[k + 1] = TakeFrom(r[k], lots[k + 1]) /\ r[k] \in Sales /\ lots[k + 1] \in Lots
      BY <1>1, <1>5, <3>1
    <3>4. r[k].left = 0 /\ r[k].lots \in Seq(Lots) /\ Len(r[k].lots) = k - m
      BY <3>2, <3>3 DEF Sales, Kept
    <3>5. r[k + 1] = [left |-> 0, cost |-> r[k].cost, lots |-> Append(r[k].lots, lots[k + 1]),
                      undefined |-> r[k].undefined]
      BY <3>3, <3>4, TakeNothing
    <3>6. /\ r[k + 1].left = 0 /\ r[k + 1].cost = C[m] + uc /\ r[k + 1].undefined = FALSE
          /\ r[k + 1].lots = Append(r[k].lots, lots[k + 1])
      BY <3>2, <3>5 DEF Kept
    <3>9. /\ Len(r[k + 1].lots) = (k - m) + 1
          /\ \A i \in 1..(k - m) : r[k + 1].lots[i] = r[k].lots[i]
          /\ r[k + 1].lots[(k - m) + 1] = lots[k + 1]
      BY <3>3, <3>4, <3>6, Appended
    <3>7. Len(r[k + 1].lots) = (k + 1) - m
      BY <3>1, <3>9
    <3>8. ASSUME NEW i \in 1..((k + 1) - m)
          PROVE  r[k + 1].lots[i] = IF i = 1 THEN first ELSE lots[m + i]
      <4>1. CASE i \in 1..(k - m)
        <5>1. r[k + 1].lots[i] = r[k].lots[i]
          BY <3>9, <4>1
        <5> QED
          BY <3>2, <4>1, <5>1 DEF Kept
      <4>2. CASE i = (k - m) + 1
        <5>1. r[k + 1].lots[i] = lots[k + 1]
          BY <3>9, <4>2
        <5>2. i # 1 /\ m + i = k + 1
          BY <3>1, <4>2
        <5> QED
          BY <5>1, <5>2
      <4> QED
        BY <3>1, <4>1, <4>2
    <3> QED
      BY <3>1, <3>6, <3>7, <3>8 DEF Kept
  <2>9. n - (m + 1) \in Nat /\ m + 1 + (n - (m + 1)) = n
    BY <1>1, <2>1
  <2>10. Kept(n)
    <3>1. \A j \in Nat : j \in U
      <4> HIDE DEF U
      <4> QED
        BY <2>7, <2>8, Induction
    <3>2. n - (m + 1) \in U
      BY <2>9, <3>1
    <3> HIDE DEF Kept
    <3>3. m + 1 + (n - (m + 1)) <= n => Kept(m + 1 + (n - (m + 1)))
      BY <3>2
    <3> QED
      BY <1>1, <2>9, <3>3
  <2>11. r[n].lots \in Seq(Lots)
    BY <1>1, <1>5 DEF Sales
  <2>12. Leaves(r[n], lots, requested, X, C, m, uc)
    BY <1>11, <1>13, <2>1, <2>3, <2>6, <2>10, <2>11 DEF Leaves, Kept, n, first, rest, lot
  <2> QED
    BY <1>4, <2>12
<1> QED
  BY <1>1, <1>7, <1>12, <1>13

\* What it leaves and what it cost add up, and no lot is left empty.
LEMMA LeavesAddUp ==
    ASSUME NEW lots \in Seq(Lots), NEW X, QtyRuns(lots, X), NEW C, CostRuns(lots, C),
           \A i \in 1..Len(lots) : lots[i].qty > 0,
           NEW requested \in Nat, NEW sale, NEW m, NEW uc,
           Leaves(sale, lots, requested, X, C, m, uc)
    PROVE  /\ CostOf(sale.lots) + sale.cost = CostOf(lots)
           /\ \A i \in 1..Len(sale.lots) : sale.lots[i].qty > 0
<1> DEFINE n == Len(lots)
           r == [i \in 0..(n - m) |-> IF i = 0 THEN 0 ELSE C[m + i] - C[m] - uc]
<1>1. n \in Nat /\ m \in 0..n /\ uc \in Int /\ \A i \in 1..n : lots[i] \in Lots
  BY DEF Leaves
<1>2. \A i \in 1..n : lots[i].cost \in Int
  BY <1>1 DEF Lots
<1>3. /\ \A k \in 0..n : C[k] \in Int
      /\ \A k \in 1..n : C[k] = C[k - 1] + lots[k].cost
      /\ \A k \in 0..n : X[k] \in Nat
      /\ C[n] = CostOf(lots)
  BY CostRunsOnly DEF CostRuns, QtyRuns
<1>4. /\ m < n => requested < X[m + 1]
      /\ m = n => uc = 0
      /\ sale.cost = C[m] + uc
      /\ sale.lots \in Seq(Lots) /\ Len(sale.lots) = n - m
      /\ \A i \in 1..(n - m) :
           sale.lots[i] = IF i = 1 THEN [qty |-> X[m + 1] - requested, cost |-> lots[m + 1].cost - uc]
                                   ELSE lots[m + i]
      /\ \A i \in 1..n : lots[i].qty > 0
  BY DEF Leaves
<1> HIDE DEF n
<1>5. ASSUME NEW k \in 0..(n - m) PROVE r[k] \in Int
  <2>1. m + k \in 0..n
    BY <1>1
  <2> QED
    BY <1>1, <1>3, <2>1
<1>6. ASSUME NEW k \in 1..(n - m) PROVE r[k] = r[k - 1] + sale.lots[k].cost
  <2>1. m + k \in 1..n /\ (m + k) - 1 = m + (k - 1) /\ m + (k - 1) \in 0..n /\ k - 1 \in 0..(n - m)
        /\ m + k \in 0..n /\ k \in 0..(n - m)
    BY <1>1
  <2>2. C[m + k] = C[m + (k - 1)] + lots[m + k].cost /\ lots[m + k].cost \in Int
        /\ C[m + (k - 1)] \in Int /\ C[m] \in Int /\ C[m + k] \in Int
    BY <1>1, <1>2, <1>3, <2>1
  <2>3. r[k] = C[m + k] - C[m] - uc
    BY <2>1
  <2>4. CASE k = 1
    <3>1. sale.lots[k].cost = lots[m + 1].cost - uc /\ r[k - 1] = 0 /\ m + (k - 1) = m
      BY <1>1, <1>4, <2>1, <2>4
    <3> QED
      BY <1>1, <2>2, <2>3, <2>4, <3>1
  <2>5. CASE k # 1
    <3>1. k \in 1..(n - m) /\ k - 1 \in 0..(n - m) /\ k - 1 # 0
      BY <2>1, <2>5
    <3>2. sale.lots[k] = lots[m + k]
      BY <1>4, <2>5, <3>1
    <3>3. r[k - 1] = C[m + (k - 1)] - C[m] - uc
      BY <3>1
    <3> HIDE DEF r
    <3> DEFINE a == C[m + k]
               b == C[m + (k - 1)]
               c == lots[m + k].cost
               e == C[m]
    <3>4. a \in Int /\ b \in Int /\ c \in Int /\ e \in Int /\ uc \in Int /\ a = b + c
      BY <1>1, <2>2
    <3>5. r[k] = a - e - uc /\ r[k - 1] = b - e - uc /\ sale.lots[k].cost = c
      BY <2>3, <3>2, <3>3
    <3> HIDE DEF a, b, c, e
    <3> QED
      BY <3>4, <3>5
  <2> QED
    BY <2>4, <2>5
<1>7. r[0] = 0 /\ r \in [0..(n - m) -> Int]
  <2>1. 0 \in 0..(n - m)
    <3>1. n \in Nat /\ m \in 0..n
      BY <1>1
    <3> HIDE DEF r
    <3> QED
      BY <3>1
  <2>2. r[0] = 0
    BY <2>1
  <2>3. r = [i \in 0..(n - m) |-> r[i]]
    OBVIOUS
  <2> HIDE DEF r
  <2>4. \A i \in 0..(n - m) : r[i] \in Int
    BY <1>5
  <2> QED
    BY <2>2, <2>3, <2>4
<1>8. r[n - m] = IF n = m THEN 0 ELSE C[n] - C[m] - uc
  <2>1. n - m \in 0..(n - m) /\ m + (n - m) = n /\ (n - m = 0 <=> n = m)
    BY <1>1
  <2> QED
    BY <2>1
<1> HIDE DEF r
<1>9. r[n - m] = CostOf(sale.lots)
  <2>1. CostRuns(sale.lots, r)
    BY <1>4, <1>6, <1>7 DEF CostRuns
  <2> QED
    BY <1>4, <2>1, CostRunsOnly
<1>10. CostOf(sale.lots) + sale.cost = CostOf(lots)
  <2>1. C[n] \in Int /\ C[m] \in Int
    BY <1>1, <1>3
  <2> QED
    BY <1>1, <1>3, <1>4, <1>8, <1>9, <2>1
<1>11. ASSUME NEW i \in 1..Len(sale.lots) PROVE sale.lots[i].qty > 0
  <2>1. i \in 1..(n - m) /\ m + i \in 1..n /\ m < n /\ m + 1 \in 0..n
    BY <1>1, <1>4
  <2>2. X[m + 1] - requested > 0
    BY <1>3, <1>4, <2>1
  <2> QED
    BY <1>4, <2>1, <2>2
<1> QED
  BY <1>10, <1>11

-----------------------------------------------------------------------------
(* Lists in an order.                                                       *)

\* A strict total order of a set,
Ordering(R, E) ==
    /\ IsFiniteSet(E)
    /\ \A e \in E : <<e, e>> \notin R
    /\ \A e, f \in E : e = f \/ <<e, f>> \in R \/ <<f, e>> \in R
    /\ \A e, f, g \in E : <<e, f>> \in R /\ <<f, g>> \in R => <<e, g>> \in R

\* ... and a list of its elements in that order.
Ranked(q, n, R, E) ==
    /\ q \in [1..n -> E]
    /\ \A e \in E : \E i \in 1..n : q[i] = e
    /\ \A i, j \in 1..n : i < j => <<q[i], q[j]>> \in R

\* Elements that are each where as many others come before are in order.
LEMMA RanksList ==
    ASSUME NEW E, NEW R, Ordering(R, E), NEW q,
           q = [i \in 1..Cardinality(E) |->
                  CHOOSE e \in E : Cardinality({f \in E : <<f, e>> \in R}) = i - 1]
    PROVE  Cardinality(E) \in Nat /\ Ranked(q, Cardinality(E), R, E)
<1> DEFINE n == Cardinality(E)
           P(e) == {f \in E : <<f, e>> \in R}
           rank == [e \in E |-> Cardinality(P(e))]
           place(i) == CHOOSE e \in E : Cardinality({f \in E : <<f, e>> \in R}) = i - 1
<1>0. /\ \A e \in E : <<e, e>> \notin R
      /\ \A e, f \in E : <<e, f>> \in R => <<f, e>> \notin R
      /\ \A e, f \in E : e = f \/ <<e, f>> \in R \/ <<f, e>> \in R
      /\ \A e, f, g \in E : <<e, f>> \in R /\ <<f, g>> \in R => <<e, g>> \in R
  BY DEF Ordering
<1>1. IsFiniteSet(E) /\ n \in Nat
  BY FS_CardinalityType DEF Ordering
<1>2. \A e \in E : IsFiniteSet(P(e)) /\ Cardinality(P(e)) \in Nat
  <2>1. \A e \in E : P(e) \in SUBSET E
    OBVIOUS
  <2> HIDE DEF P
  <2> QED
    BY <1>1, <2>1, FS_Subset, FS_CardinalityType
<1> HIDE DEF n
<1>3. ASSUME NEW e \in E PROVE rank[e] \in 0..(n - 1)
  <2>1. P(e) \in SUBSET (E \ {e})
    <3>1. \A f \in P(e) : f \in E /\ <<f, e>> \in R
      OBVIOUS
    <3>2. \A f \in P(e) : f # e
      BY <1>0, <3>1
    <3> HIDE DEF P
    <3> QED
      BY <3>1, <3>2
  <2> HIDE DEF P
  <2>2. IsFiniteSet(E \ {e}) /\ Cardinality(E \ {e}) = n - 1
    BY <1>1, FS_RemoveElement DEF n
  <2>3. Cardinality(P(e)) <= n - 1
    BY <2>1, <2>2, FS_Subset
  <2> QED
    BY <1>1, <1>2, <2>3
<1>4. ASSUME NEW e \in E, NEW f \in E, <<e, f>> \in R PROVE rank[e] < rank[f]
  <2>1. P(e) \cup {e} \in SUBSET P(f) /\ e \notin P(e)
    BY <1>0, <1>4
  <2> HIDE DEF P
  <2>2. Cardinality(P(e) \cup {e}) = Cardinality(P(e)) + 1
    BY <1>2, <2>1, FS_AddElement
  <2>3. Cardinality(P(e) \cup {e}) <= Cardinality(P(f))
    BY <1>2, <2>1, FS_Subset
  <2> QED
    BY <1>2, <2>2, <2>3
<1>5. \A e \in E, f \in E : rank[e] = rank[f] => e = f
  <2>1. \A e \in E : rank[e] \in Int
    BY <1>3
  <2> HIDE DEF rank
  <2> SUFFICES ASSUME NEW e \in E, NEW f \in E, e # f PROVE rank[e] # rank[f]
    OBVIOUS
  <2>2. <<e, f>> \in R \/ <<f, e>> \in R
    BY <1>0
  <2>3. rank[e] < rank[f] \/ rank[f] < rank[e]
    BY <1>4, <2>2
  <2> QED
    BY <2>1, <2>3
<1>6. \A k \in 0..(n - 1) : \E e \in E : rank[e] = k
  <2> HIDE DEF rank
  <2>1. rank \in Injection(E, 0..(n - 1))
    <3>1. rank \in [E -> 0..(n - 1)]
      BY <1>3 DEF rank
    <3> QED
      BY <1>5, <3>1 DEF Injection, IsInjective
  <2>2. IsFiniteSet(0..(n - 1)) /\ Cardinality(0..(n - 1)) = n
    BY <1>1, FS_Interval
  <2>3. rank \in Surjection(E, 0..(n - 1))
    BY <1>1, <2>1, <2>2, FS_Injection DEF n
  <2> QED
    BY <2>3 DEF Surjection
<1>7. ASSUME NEW i \in 1..n PROVE place(i) \in E /\ rank[place(i)] = i - 1
  <2>1. i - 1 \in 0..(n - 1)
    BY <1>1
  <2>2. \E e \in E : Cardinality({f \in E : <<f, e>> \in R}) = i - 1
    BY <1>6, <2>1
  <2>3. place(i) \in E /\ Cardinality({f \in E : <<f, place(i)>> \in R}) = i - 1
    BY <2>2, Zenon
  <2> HIDE DEF place
  <2> QED
    BY <2>3
<1>8. q = [i \in 1..n |-> place(i)]
  BY DEF n
<1> HIDE DEF rank, place
<1>9. q \in [1..n -> E] /\ \A i \in 1..n : rank[q[i]] = i - 1
  BY <1>7, <1>8
<1>10. ASSUME NEW e \in E PROVE \E i \in 1..n : q[i] = e
  <2>1. rank[e] + 1 \in 1..n /\ (rank[e] + 1) - 1 = rank[e]
    BY <1>1, <1>3
  <2>2. q[rank[e] + 1] \in E /\ rank[q[rank[e] + 1]] = rank[e]
    BY <1>9, <2>1
  <2> QED
    BY <1>5, <2>1, <2>2
<1>11. ASSUME NEW i \in 1..n, NEW j \in 1..n, i < j PROVE <<q[i], q[j]>> \in R
  <2>1. rank[q[i]] = i - 1 /\ rank[q[j]] = j - 1 /\ q[i] \in E /\ q[j] \in E
    BY <1>9
  <2>2. ~(rank[q[j]] < rank[q[i]]) /\ rank[q[i]] # rank[q[j]]
    BY <1>11, <2>1
  <2>3. <<q[j], q[i]>> \notin R /\ q[i] # q[j]
    BY <1>4, <2>1, <2>2
  <2> QED
    BY <1>0, <2>1, <2>3
<1> QED
  BY <1>1, <1>9, <1>10, <1>11 DEF Ranked, n

-----------------------------------------------------------------------------
(* Entries in order.                                                        *)

\* Entries with days and with ids of their own.
Dated(entries) ==
    /\ IsFiniteSet(entries)
    /\ \A e \in entries : e.day \in Int /\ e.id \in Int
    /\ \A e, f \in entries : e.id = f.id => e = f

\* A list of all entries, each before the next.
Lists(q, n, entries) ==
    /\ q \in [1..n -> entries]
    /\ \A e \in entries : \E i \in 1..n : q[i] = e
    /\ \A i, j \in 1..n : i < j => Before(q[i], q[j])

\* The order of days and ids is total.
LEMMA BeforeIsOrder ==
    ASSUME NEW E, Dated(E)
    PROVE  /\ \A e \in E : ~Before(e, e)
           /\ \A e, f \in E : Before(e, f) => ~Before(f, e)
           /\ \A e, f \in E : e = f \/ Before(e, f) \/ Before(f, e)
           /\ \A e, f, g \in E : Before(e, f) /\ Before(f, g) => Before(e, g)
BY DEF Dated, Before

\* InOrder is a function of the places.
LEMMA InOrderIsFunction ==
    ASSUME NEW E, NEW n, n = Cardinality(E)
    PROVE  InOrder(E) = [i \in 1..n |-> InOrder(E)[i]]
<1> DEFINE Rank(e) == Cardinality({f \in E : Before(f, e)})
<1>1. InOrder(E) = [i \in 1..n |-> CHOOSE e \in E : Rank(e) = i - 1]
  BY Zenon DEF InOrder
<1> HIDE DEF Rank
<1> QED
  BY <1>1

\* It lists the entries: each is at the place that as many others come before.
LEMMA InOrderLists ==
    ASSUME NEW E, Dated(E)
    PROVE  /\ Cardinality(E) \in Nat
           /\ Lists(InOrder(E), Cardinality(E), E)
<1> DEFINE R == {x \in E \X E : Before(x[1], x[2])}
<1>1. \A e, f \in E : <<e, f>> \in R <=> Before(e, f)
  OBVIOUS
<1> HIDE DEF R
<1>2. Ordering(R, E)
  BY <1>1, BeforeIsOrder DEF Ordering, Dated
<1>3. \A e \in E : {f \in E : <<f, e>> \in R} = {f \in E : Before(f, e)}
  BY <1>1
<1>4. InOrder(E) = [i \in 1..Cardinality(E) |->
                      CHOOSE e \in E : Cardinality({f \in E : Before(f, e)}) = i - 1]
  BY Zenon DEF InOrder
<1>5. \A i : (CHOOSE e \in E : Cardinality({f \in E : Before(f, e)}) = i - 1)
               = CHOOSE e \in E : Cardinality({f \in E : <<f, e>> \in R}) = i - 1
  BY <1>3, Zenon
<1>6. InOrder(E) = [i \in 1..Cardinality(E) |->
                      CHOOSE e \in E : Cardinality({f \in E : <<f, e>> \in R}) = i - 1]
  BY <1>4, <1>5, Zenon
<1>7. Cardinality(E) \in Nat /\ Ranked(InOrder(E), Cardinality(E), R, E)
  BY <1>2, <1>6, RanksList DEF Dated
<1>8. \A i, j \in 1..Cardinality(E) : i < j => Before(InOrder(E)[i], InOrder(E)[j])
  <2> SUFFICES ASSUME NEW i \in 1..Cardinality(E), NEW j \in 1..Cardinality(E), i < j
               PROVE  Before(InOrder(E)[i], InOrder(E)[j])
    OBVIOUS
  <2>1. InOrder(E)[i] \in E /\ InOrder(E)[j] \in E /\ <<InOrder(E)[i], InOrder(E)[j]>> \in R
    BY <1>7 DEF Ranked
  <2> QED
    BY <1>1, <2>1
<1>9. InOrder(E) \in [1..Cardinality(E) -> E] /\ \A e \in E : \E i \in 1..Cardinality(E) : InOrder(E)[i] = e
  BY <1>7 DEF Ranked
<1> QED
  BY <1>7, <1>8, <1>9 DEF Lists

\* As many elements as places are in a list without duplicates.
LEMMA CountOfList ==
    ASSUME NEW n \in Nat, NEW q, \A i, j \in 1..n : i < j => q[i] # q[j],
           NEW k \in 0..n, NEW S, \A x : x \in S <=> \E j \in 1..k : x = q[j]
    PROVE  IsFiniteSet(S) /\ Cardinality(S) = k
<1> DEFINE T == {c \in Nat : c <= n => /\ IsFiniteSet({q[j] : j \in 1..c})
                                       /\ Cardinality({q[j] : j \in 1..c}) = c}
<1>1. 0 \in T
  <2>1. {q[j] : j \in 1..0} = {}
    OBVIOUS
  <2> QED
    BY <2>1, FS_EmptySet
<1>2. ASSUME NEW i \in Nat, i \in T PROVE i + 1 \in T
  <2> SUFFICES ASSUME i + 1 <= n
               PROVE  /\ IsFiniteSet({q[j] : j \in 1..(i + 1)})
                      /\ Cardinality({q[j] : j \in 1..(i + 1)}) = i + 1
    OBVIOUS
  <2> DEFINE F == {q[j] : j \in 1..i}
  <2>1. IsFiniteSet(F) /\ Cardinality(F) = i
    BY <1>2
  <2>2. {q[j] : j \in 1..(i + 1)} = F \cup {q[i + 1]}
    OBVIOUS
  <2>3. q[i + 1] \notin F
    OBVIOUS
  <2> HIDE DEF F
  <2> QED
    BY <2>1, <2>2, <2>3, FS_AddElement
<1>3. \A i \in Nat : i \in T
  <2> HIDE DEF T
  <2> QED
    BY <1>1, <1>2, Induction
<1>4. S = {q[j] : j \in 1..k}
  OBVIOUS
<1>5. k \in Nat /\ k <= n
  OBVIOUS
<1>6. k \in T
  <2> HIDE DEF T
  <2> QED
    BY <1>3, <1>5
<1>7. IsFiniteSet({q[j] : j \in 1..k}) /\ Cardinality({q[j] : j \in 1..k}) = k
  BY <1>5, <1>6
<1> QED
  BY <1>4, <1>7, Zenon

\* A list of the entries in order is the only one.
LEMMA OnlyList ==
    ASSUME NEW E, Dated(E), NEW n \in Nat, NEW q, Lists(q, n, E)
    PROVE  n = Cardinality(E) /\ InOrder(E) = q
<1>1. /\ q \in [1..n -> E]
      /\ \A e \in E : \E i \in 1..n : q[i] = e
      /\ \A i, j \in 1..n : i < j => Before(q[i], q[j])
  BY DEF Lists
<1>2. \A i, j \in 1..n : i < j => q[i] # q[j]
  BY <1>1, BeforeIsOrder
<1>3. n = Cardinality(E)
  <2>1. E = {q[j] : j \in 1..n}
    BY <1>1
  <2>2. n \in 0..n
    OBVIOUS
  <2>3. Cardinality(E) = n
    <3>1. \A x : x \in E <=> \E j \in 1..n : x = q[j]
      BY <1>1
    <3> QED
      BY <1>2, <2>2, <3>1, CountOfList
  <2> QED
    BY <2>1, <2>3
<1>4. ASSUME NEW i \in 1..n PROVE Cardinality({f \in E : Before(f, q[i])}) = i - 1
  <2>1. {f \in E : Before(f, q[i])} = {q[j] : j \in 1..(i - 1)}
    <3>1. ASSUME NEW f \in E, Before(f, q[i]) PROVE \E j \in 1..(i - 1) : f = q[j]
      <4>1. PICK j \in 1..n : q[j] = f
        BY <1>1
      <4>2. j # i /\ ~(i < j)
        BY <1>1, <3>1, <4>1, BeforeIsOrder
      <4> QED
        BY <4>1, <4>2
    <3>2. ASSUME NEW j \in 1..(i - 1) PROVE q[j] \in E /\ Before(q[j], q[i])
      BY <1>1
    <3> QED
      BY <3>1, <3>2
  <2>2. i - 1 \in 0..n
    OBVIOUS
  <2> DEFINE S == {f \in E : Before(f, q[i])}
  <2>3. \A x : x \in S <=> \E j \in 1..(i - 1) : x = q[j]
    BY <2>1
  <2> HIDE DEF S
  <2>4. Cardinality(S) = i - 1
    BY <1>2, <2>2, <2>3, CountOfList
  <2> QED
    BY <2>4 DEF S
<1>5. ASSUME NEW i \in 1..n PROVE InOrder(E)[i] = q[i]
  <2>1. InOrder(E)[i] = CHOOSE e \in E : Cardinality({f \in E : Before(f, e)}) = i - 1
    BY <1>3 DEF InOrder
  <2>2. q[i] \in E /\ Cardinality({f \in E : Before(f, q[i])}) = i - 1
    BY <1>1, <1>4
  <2>3. PICK e \in E : e = InOrder(E)[i] /\ Cardinality({f \in E : Before(f, e)}) = i - 1
    BY <2>1, <2>2, Zenon
  <2>4. PICK j \in 1..n : q[j] = e
    BY <1>1
  <2>5. Cardinality({f \in E : Before(f, q[j])}) = j - 1
    BY <1>4
  <2>6. j = i
    BY <2>3, <2>4, <2>5
  <2> QED
    BY <2>3, <2>4, <2>6
<1>6. InOrder(E) = [i \in 1..n |-> InOrder(E)[i]]
  BY <1>3, InOrderIsFunction
<1> QED
  BY <1>1, <1>3, <1>5, <1>6

-----------------------------------------------------------------------------
(* The library's sums and products over a set.                              *)

\* The fold the library sums with exists.
LEMMA SumFold ==
    ASSUME NEW S, IsFiniteSet(S), NEW val \in [S -> Int]
    PROVE  \E f : AddsUp(f, S, val)
<1> DEFINE pick == [s \in SUBSET S |-> Chosen(s)]
           combine == [x \in Int \X S |-> val[x[2]] + x[1]]
<1>1. \A s \in SUBSET S : s # {} => pick[s] = Chosen(s) /\ Chosen(s) \in s
  BY ChosenIn
<1>2. combine \in [Int \X S -> Int] /\ \A a \in Int, x \in S : combine[<<a, x>>] = val[x] + a
  OBVIOUS
<1> HIDE DEF pick, combine
<1>3. PICK f : IsFold(f, S, Int, pick, 0, combine)
  <2>1. Picks(pick, S)
    BY <1>1 DEF Picks
  <2>2. 0 \in Int
    OBVIOUS
  <2> QED
    BY <1>2, <2>1, <2>2, FoldsExist
<1>4. ASSUME NEW s \in SUBSET S
      PROVE  f[s] = IF s = {} THEN 0 ELSE val[Chosen(s)] + f[s \ {Chosen(s)}]
  <2>1. CASE s = {}
    BY <1>3, <2>1 DEF IsFold
  <2>2. CASE s # {}
    <3>1. pick[s] = Chosen(s) /\ Chosen(s) \in S /\ s \ {Chosen(s)} \in SUBSET S
      BY <1>1, <2>2
    <3>2. f[s \ {Chosen(s)}] \in Int
      BY <1>3, <3>1 DEF IsFold
    <3>3. f[s] = combine[<<f[s \ {Chosen(s)}], Chosen(s)>>]
      BY <1>3, <2>2, <3>1 DEF IsFold
    <3> QED
      BY <1>2, <2>2, <3>1, <3>2, <3>3
  <2> QED
    BY <2>1, <2>2
<1>5. f \in [SUBSET S -> Int]
  BY <1>3 DEF IsFold
<1> QED
  BY <1>4, <1>5 DEF AddsUp

\* So does the one it multiplies with.
LEMMA ProductFold ==
    ASSUME NEW S, IsFiniteSet(S), NEW val \in [S -> Nat \ {0}]
    PROVE  \E f : Multiplies(f, S, val)
<1> DEFINE pick == [s \in SUBSET S |-> Chosen(s)]
           combine == [x \in Int \X S |-> val[x[2]] * x[1]]
<1>1. \A s \in SUBSET S : s # {} => pick[s] = Chosen(s) /\ Chosen(s) \in s
  BY ChosenIn
<1>2. combine \in [Int \X S -> Int] /\ \A a \in Int, x \in S : combine[<<a, x>>] = val[x] * a
  OBVIOUS
<1> HIDE DEF pick, combine
<1>3. PICK f : IsFold(f, S, Int, pick, 1, combine)
  <2>1. Picks(pick, S)
    BY <1>1 DEF Picks
  <2>2. 1 \in Int
    OBVIOUS
  <2> QED
    BY <1>2, <2>1, <2>2, FoldsExist
<1>4. ASSUME NEW s \in SUBSET S
      PROVE  f[s] = IF s = {} THEN 1 ELSE val[Chosen(s)] * f[s \ {Chosen(s)}]
  <2>1. CASE s = {}
    BY <1>3, <2>1 DEF IsFold
  <2>2. CASE s # {}
    <3>1. pick[s] = Chosen(s) /\ Chosen(s) \in S /\ s \ {Chosen(s)} \in SUBSET S
      BY <1>1, <2>2
    <3>2. f[s \ {Chosen(s)}] \in Int
      BY <1>3, <3>1 DEF IsFold
    <3>3. f[s] = combine[<<f[s \ {Chosen(s)}], Chosen(s)>>]
      BY <1>3, <2>2, <3>1 DEF IsFold
    <3> QED
      BY <1>2, <2>2, <3>1, <3>2, <3>3
  <2> QED
    BY <2>1, <2>2
<1>5. f \in [SUBSET S -> Int]
  BY <1>3 DEF IsFold
<1> QED
  BY <1>4, <1>5 DEF Multiplies

-----------------------------------------------------------------------------
(* What a quantity is worth after splits, without rounding.                 *)

\* The product of as many ratio units as there are splits divides QStep.
LEMMA QStepDivides ==
    ASSUME NEW P, IsFiniteSet(P), Cardinality(P) <= MaxId,
           NEW D, Multiplicative(D, P, [e \in P |-> RatioUnit]),
           NEW s \in SUBSET P
    PROVE  \E z \in Nat \ {0} : QStep = z * D[s]
<1> DEFINE unit == [i \in 1..MaxId |-> RatioUnit]
           S == 1..MaxId
           Iter == CHOOSE f : f = [i \in SUBSET S |->
                     IF i = {} THEN 1 ELSE unit[Chosen(i)] * f[i \ {Chosen(i)}]]
<1>1. /\ MaxId \in Nat /\ IsFiniteSet(S) /\ RatioUnit \in Nat \ {0} /\ QStep \in Nat \ {0}
      /\ unit \in [S -> Nat \ {0}] /\ \A i \in S : unit[i] = RatioUnit
  BY ScaleAssumption, EntriesAssumption, FS_Interval
<1>2. DOMAIN unit = S
  OBVIOUS
<1>3. Fineness(MaxId) = Iter[S]
  BY <1>2, Zenon DEF Fineness, FoldFunction, FoldFunctionOnSet, MapThenFoldSet, Chosen, unit, S
<1> HIDE DEF unit, S
<1>4. Multiplies(Iter, S, unit)
  <2>1. \E f : Multiplies(f, S, unit)
    BY <1>1, ProductFold
  <2> QED
    BY <2>1, Zenon DEF Iter, Multiplies
<1>5. PICK F : Multiplicative(F, S, unit)
  BY <1>1, ProductsExist
<1> HIDE DEF Iter
<1>6. Iter[S] = F[S]
  <2>1. \A i \in S : unit[i] \in Nat \ {0}
    BY <1>1
  <2> QED
    BY <1>1, <1>4, <1>5, <2>1, ProductIsOnly
<1> USE DEF S
\* The splits of a set are as many factors of the product,
<1> DEFINE T == {k \in Nat : k <= MaxId => \A r \in SUBSET P :
                    Cardinality(r) = k => D[r] * F[(k + 1)..MaxId] = F[1..MaxId]}
<1>7. \A r \in SUBSET P : IsFiniteSet(r) /\ Cardinality(r) \in Nat /\ Cardinality(r) <= MaxId
  <2>1. \A r \in SUBSET P : IsFiniteSet(r) /\ Cardinality(r) \in Nat
                            /\ Cardinality(r) <= Cardinality(P)
    BY FS_Subset, FS_CardinalityType
  <2>2. Cardinality(P) \in Nat
    BY FS_CardinalityType
  <2> QED
    BY <1>1, <2>1, <2>2
<1>8. /\ D[{}] = 1 /\ \A r \in SUBSET P : D[r] \in Nat \ {0}
      /\ \A r \in SUBSET P : \A y \in r : D[r] = D[r \ {y}] * RatioUnit
      /\ \A i \in SUBSET (1..MaxId) : F[i] \in Nat \ {0}
      /\ \A i \in SUBSET (1..MaxId) : \A y \in i : F[i] = F[i \ {y}] * RatioUnit
  <2> HIDE DEF S
  <2>1. \A r \in SUBSET P : \A y \in r : D[r] = D[r \ {y}] * RatioUnit
    <3>1. \A r \in SUBSET P : \A y \in r : [e \in P |-> RatioUnit][y] = RatioUnit
      OBVIOUS
    <3>2. \A r \in SUBSET P : \A y \in r : D[r] = D[r \ {y}] * [e \in P |-> RatioUnit][y]
      BY Zenon DEF Multiplicative
    <3> QED
      BY <3>1, <3>2
  <2>2. \A i \in SUBSET S : \A y \in i : F[i] = F[i \ {y}] * RatioUnit
    <3>1. \A i \in SUBSET S : \A y \in i : unit[y] = RatioUnit
      BY <1>1
    <3>2. \A i \in SUBSET S : \A y \in i : F[i] = F[i \ {y}] * unit[y]
      BY <1>5, Zenon DEF Multiplicative
    <3> SUFFICES ASSUME NEW i \in SUBSET S, NEW y \in i PROVE F[i] = F[i \ {y}] * RatioUnit
      OBVIOUS
    <3>3. unit[y] = RatioUnit
      BY <3>1, Zenon
    <3>4. F[i] = F[i \ {y}] * unit[y]
      BY <3>2, Zenon
    <3> QED
      BY <3>3, <3>4, Zenon
  <2>3. /\ D[{}] = 1 /\ \A r \in SUBSET P : D[r] \in Nat \ {0}
        /\ \A i \in SUBSET S : F[i] \in Nat \ {0}
    BY <1>5, Zenon DEF Multiplicative
  <2> QED
    BY <2>1, <2>2, <2>3, Zenon DEF S
<1>9. 0 \in T
  <2> SUFFICES ASSUME NEW r \in SUBSET P, Cardinality(r) = 0
               PROVE  D[r] * F[(0 + 1)..MaxId] = F[1..MaxId]
    OBVIOUS
  <2>1. r = {}
    BY <1>7, FS_EmptySet
  <2>2. D[r] = 1 /\ F[1..MaxId] \in Int /\ (0 + 1)..MaxId = 1..MaxId
    <3>1. F[1..MaxId] \in Nat \ {0}
      BY <1>8
    <3> QED
      BY <1>8, <2>1, <3>1
  <2> QED
    BY <2>2
<1>10. ASSUME NEW k \in Nat, k \in T PROVE k + 1 \in T
  <2> SUFFICES ASSUME k + 1 <= MaxId, NEW r \in SUBSET P, Cardinality(r) = k + 1
               PROVE  D[r] * F[((k + 1) + 1)..MaxId] = F[1..MaxId]
    OBVIOUS
  <2>1. \A o \in SUBSET P : Cardinality(o) = k => D[o] * F[(k + 1)..MaxId] = F[1..MaxId]
    BY <1>1, <1>10
  <2> HIDE DEF T
  <2>2. Cardinality({}) # k + 1
    BY FS_EmptySet
  <2>3. PICK y \in r : TRUE
    BY <2>2
  <2>4. r \ {y} \in SUBSET P /\ Cardinality(r \ {y}) = k
    BY <1>7, <2>3, FS_RemoveElement
  <2>5. /\ (k + 1)..MaxId \in SUBSET (1..MaxId) /\ k + 1 \in (k + 1)..MaxId
        /\ ((k + 1)..MaxId) \ {k + 1} = ((k + 1) + 1)..MaxId
    BY <1>1
  <2>6. D[r] = D[r \ {y}] * RatioUnit
        /\ F[(k + 1)..MaxId] = F[((k + 1) + 1)..MaxId] * RatioUnit
    <3>1. F[(k + 1)..MaxId] = F[((k + 1)..MaxId) \ {k + 1}] * RatioUnit
      BY <1>8, <2>5, Zenon
    <3> QED
      BY <1>8, <2>3, <2>5, <3>1
  <2>7. D[r \ {y}] * F[(k + 1)..MaxId] = F[1..MaxId]
    BY <2>1, <2>4
  <2>8. D[r \ {y}] \in Int /\ F[((k + 1) + 1)..MaxId] \in Int
    <3>1. ((k + 1) + 1)..MaxId \in SUBSET (1..MaxId)
      BY <1>1
    <3>2. D[r \ {y}] \in Nat \ {0} /\ F[((k + 1) + 1)..MaxId] \in Nat \ {0}
      BY <1>8, <2>4, <3>1, Zenon
    <3> QED
      BY <3>2
  <2>9. \A a, b, c \in Int : (a * c) * b = a * (b * c)
    OBVIOUS
  <2> QED
    BY <1>1, <2>6, <2>7, <2>8, <2>9
<1>11. \A k \in Nat : k \in T
  <2> HIDE DEF T
  <2> QED
    BY <1>9, <1>10, Induction
<1> DEFINE c == Cardinality(s)
<1>12. D[s] * F[(c + 1)..MaxId] = F[1..MaxId] /\ c \in Nat
  BY <1>7, <1>11
<1> HIDE DEF T, c
\* and the rest of them is what QStep is a multiple of.
<1>13. PICK g \in Nat \ {0} : D[s] * g = F[1..MaxId]
  <2>1. (c + 1)..MaxId \in SUBSET (1..MaxId)
    BY <1>1, <1>12
  <2> QED
    BY <1>8, <1>12, <2>1
<1>14. F[1..MaxId] \in Nat \ {0} /\ D[s] \in Nat \ {0}
  BY <1>8
<1>15. QStep % F[1..MaxId] = 0
  BY <1>3, <1>6, EntriesAssumption
<1>16. PICK p \in Nat \ {0} : QStep = F[1..MaxId] * p
  <2> DEFINE m == F[1..MaxId]
  <2>1. m \in Nat \ {0} /\ QStep % m = 0
    BY <1>14, <1>15
  <2> HIDE DEF m
  <2>2. QStep = m * (QStep \div m) /\ QStep \div m \in Nat \ {0}
    BY <1>1, <2>1
  <2> QED
    BY <2>2 DEF m
<1>17. (D[s] * g) * p = (g * p) * D[s] /\ g * p \in Nat \ {0}
  <2>1. \A a, b, d \in Nat \ {0} : (a * b) * d = (b * d) * a /\ b * d \in Nat \ {0}
    OBVIOUS
  <2> QED
    BY <1>14, <2>1
<1> QED
  BY <1>13, <1>16, <1>17

\* A quantity held between two splits, and what it is worth after the last one: as many
\* times n, the ratios to come, as the quantity is times d, the ratio units to come.
Same(x, u, d, n) == \E a \in Nat : x = a * d /\ u = a * n

\* Both are natural numbers.
LEMMA SameTyped ==
    ASSUME NEW d \in Nat \ {0}, NEW n \in Nat \ {0}, NEW x, NEW u, Same(x, u, d, n)
    PROVE  x \in Nat /\ u \in Nat
<1>1. \A a \in Nat : a * d \in Nat /\ a * n \in Nat
  OBVIOUS
<1> QED
  BY <1>1 DEF Same

\* So related quantities keep to it when they are added,
LEMMA SameSum ==
    ASSUME NEW d \in Nat \ {0}, NEW n \in Nat \ {0}, NEW x, NEW u, Same(x, u, d, n),
           NEW y, NEW v, Same(y, v, d, n)
    PROVE  Same(x + y, u + v, d, n)
<1>1. PICK a \in Nat : x = a * d /\ u = a * n
  BY DEF Same
<1>2. PICK b \in Nat : y = b * d /\ v = b * n
  BY DEF Same
<1>3. \A e \in Nat : a * e + b * e = (a + b) * e
  OBVIOUS
<1>4. a + b \in Nat /\ x + y = (a + b) * d /\ u + v = (a + b) * n
  BY <1>1, <1>2, <1>3
<1> QED
  BY <1>4 DEF Same

\* Multiples are ordered as what is multiplied.
LEMMA TimesOrder ==
    ASSUME NEW d \in Nat \ {0}, NEW a \in Nat, NEW b \in Nat
    PROVE  a * d <= b * d <=> a <= b
<1>1. CASE a <= b
  <2>1. PICK c \in Nat : b = a + c
    <3>1. b - a \in Nat /\ b = a + (b - a)
      BY <1>1
    <3> QED
      BY <3>1
  <2>2. b * d = a * d + c * d /\ c * d \in Nat /\ a * d \in Nat
    BY <2>1
  <2> QED
    BY <1>1, <2>2
<1>2. CASE ~(a <= b)
  <2>1. PICK c \in Nat : a = (b + c) + 1
    <3>1. (a - b) - 1 \in Nat /\ a = (b + ((a - b) - 1)) + 1
      BY <1>2
    <3> QED
      BY <3>1
  <2>2. a * d = (b * d + c * d) + d /\ c * d \in Nat /\ b * d \in Nat
    BY <2>1
  <2> QED
    BY <1>2, <2>2
<1> QED
  BY <1>1, <1>2

\* are ordered alike,
LEMMA SameOrder ==
    ASSUME NEW d \in Nat \ {0}, NEW n \in Nat \ {0}, NEW x, NEW u, Same(x, u, d, n),
           NEW y, NEW v, Same(y, v, d, n)
    PROVE  /\ x <= y <=> u <= v
           /\ x < y <=> u < v
           /\ x = y <=> u = v
<1>1. PICK a \in Nat : x = a * d /\ u = a * n
  BY DEF Same
<1>2. PICK b \in Nat : y = b * d /\ v = b * n
  BY DEF Same
<1>3. /\ x <= y <=> a <= b
      /\ u <= v <=> a <= b
      /\ y <= x <=> b <= a
      /\ v <= u <=> b <= a
  BY <1>1, <1>2, TimesOrder
<1>4. x \in Nat /\ u \in Nat /\ y \in Nat /\ v \in Nat
  BY SameTyped
<1> QED
  BY <1>3, <1>4

\* keep to it when one is taken from the other,
LEMMA SameDifference ==
    ASSUME NEW d \in Nat \ {0}, NEW n \in Nat \ {0}, NEW x, NEW u, Same(x, u, d, n),
           NEW y, NEW v, Same(y, v, d, n), y <= x
    PROVE  Same(x - y, u - v, d, n)
<1>1. PICK a \in Nat : x = a * d /\ u = a * n
  BY DEF Same
<1>2. PICK b \in Nat : y = b * d /\ v = b * n
  BY DEF Same
<1>3. b <= a
  BY <1>1, <1>2, TimesOrder
<1>4. \A e \in Nat : a * e - b * e = (a - b) * e
  BY <1>1, <1>2
<1>5. a - b \in Nat /\ x - y = (a - b) * d /\ u - v = (a - b) * n
  BY <1>1, <1>2, <1>3, <1>4
<1> QED
  BY <1>5 DEF Same

\* and go through a split of either without a remainder.
LEMMA SameSplit ==
    ASSUME NEW d \in Nat \ {0}, NEW n \in Nat \ {0}, NEW ratio \in Nat \ {0},
           NEW x, NEW u, Same(x, u, d * RatioUnit, n * ratio)
    PROVE  Same((x * ratio) \div RatioUnit, u, d, n)
<1>0. RatioUnit \in Nat \ {0}
  BY ScaleAssumption
<1>1. PICK a \in Nat : x = a * (d * RatioUnit) /\ u = a * (n * ratio)
  BY DEF Same
<1>2. x * ratio = RatioUnit * ((a * ratio) * d) /\ u = (a * ratio) * n
  BY <1>0, <1>1
<1>3. a * ratio \in Nat
  OBVIOUS
<1>4. \A b \in Nat : b * d \in Int
  OBVIOUS
<1> DEFINE c == (a * ratio) * d
<1>5. c \in Int
  BY <1>3, <1>4
<1> HIDE DEF c
<1>6. (RatioUnit * c) \div RatioUnit = c
  <2>1. RatioUnit * c \in Int
    BY <1>0, <1>5
  <2>2. RatioUnit * c <= RatioUnit * c /\ RatioUnit * c < RatioUnit * c + RatioUnit
    BY <1>0, <2>1
  <2> QED
    BY <1>0, <1>5, <2>1, <2>2, QuotientIs
<1>7. (x * ratio) \div RatioUnit = (a * ratio) * d
  BY <1>2, <1>6 DEF c
<1> QED
  BY <1>2, <1>3, <1>7 DEF Same

\* When no split is to come they are equal.
LEMMA SameOne ==
    ASSUME NEW x, NEW u, Same(x, u, 1, 1)
    PROVE  x = u
<1>1. PICK a \in Nat : x = a * 1 /\ u = a * 1
  BY DEF Same
<1> QED
  BY <1>1

-----------------------------------------------------------------------------
(* The ledger of a ticker.                                                  *)

\* The entries recorded are entries of the instance, their ids apart.
Booked(entries) ==
    /\ IsFiniteSet(entries) /\ Cardinality(entries) <= MaxId
    /\ \A e \in entries :
         /\ e.type \in FlowTypes \cup TradeTypes \cup {"SPLIT"}
         /\ e.id \in Int /\ e.day \in Int /\ e.gross \in Nat /\ e.fee \in Nat
         /\ e.type \in TradeTypes => e.ticker \in Tickers /\ e.qty \in Nat \ {0}
         /\ e.type = "SPLIT" => e.ticker \in Tickers /\ e.ratio \in Nat \ {0}
    /\ \A e, f \in entries : e.id = f.id => e = f

\* The splits of a ticker.
Splits(t) == {e \in ledger : e.type = "SPLIT" /\ e.ticker = t}

\* Products of the ratios of splits, and of as many ratio units.
Scales(t, N, D) ==
    /\ Multiplicative(N, Splits(t), [e \in Splits(t) |-> e.ratio])
    /\ Multiplicative(D, Splits(t), [e \in Splits(t) |-> RatioUnit])

\* There are such products.
LEMMA ScalesExist ==
    ASSUME Booked(ledger), NEW t
    PROVE  \E N, D : Scales(t, N, D)
<1> DEFINE P == Splits(t)
           ratio == [e \in P |-> e.ratio]
           unit == [e \in P |-> RatioUnit]
<1>1. P \in SUBSET ledger /\ \A e \in P : e.ratio \in Nat \ {0}
  BY DEF Booked, Splits
<1>2. IsFiniteSet(P)
  BY <1>1, FS_Subset DEF Booked
<1>3. ratio \in [P -> Nat \ {0}] /\ unit \in [P -> Nat \ {0}]
  BY <1>1, ScaleAssumption
<1> HIDE DEF P, ratio, unit
<1>4. PICK N : Multiplicative(N, P, ratio)
  BY <1>2, <1>3, ProductsExist
<1>5. PICK D : Multiplicative(D, P, unit)
  BY <1>2, <1>3, ProductsExist
<1> QED
  BY <1>4, <1>5 DEF Scales, P, ratio, unit

\* One split more.
LEMMA ScalesGrow ==
    ASSUME Booked(ledger), NEW t, NEW N, NEW D, Scales(t, N, D), NEW s \in SUBSET Splits(t)
    PROVE  /\ N[{}] = 1 /\ D[{}] = 1
           /\ N[s] \in Nat \ {0} /\ D[s] \in Nat \ {0}
BY DEF Scales, Multiplicative

\* One of the splits taken out.
LEMMA ScalesFactor ==
    ASSUME Booked(ledger), NEW t, NEW N, NEW D, Scales(t, N, D), NEW s \in SUBSET Splits(t),
           NEW f \in s
    PROVE  N[s] = N[s \ {f}] * f.ratio /\ D[s] = D[s \ {f}] * RatioUnit
<1> DEFINE P == Splits(t)
           ratio == [e \in P |-> e.ratio]
           unit == [e \in P |-> RatioUnit]
<1>1. ratio[f] = f.ratio /\ unit[f] = RatioUnit /\ s \in SUBSET P
  OBVIOUS
<1>2. Multiplicative(N, P, ratio) /\ Multiplicative(D, P, unit)
  BY DEF Scales
<1> HIDE DEF P, ratio, unit
<1>3. N[s] = N[s \ {f}] * ratio[f] /\ D[s] = D[s \ {f}] * unit[f]
  BY <1>1, <1>2, Zenon DEF Multiplicative
<1> QED
  BY <1>1, <1>3, Zenon

\* What a trade is worth.
LEMMA UnitsAre ==
    ASSUME Booked(ledger), NEW e \in ledger, e.type \in TradeTypes,
           NEW N, NEW D, Scales(e.ticker, N, D)
    PROVE  \E a \in Nat \ {0} : /\ e.qty * QStep = a * D[SplitsAfter(e)]
                                /\ UnitsOf(e) = a * N[SplitsAfter(e)]
<1> DEFINE A == SplitsAfter(e)
           P == Splits(e.ticker)
           base == e.qty * QStep
           pick == [s \in SUBSET A |-> Chosen(s)]
           combine == [x \in Int \X A |-> (x[1] * x[2].ratio) \div RatioUnit]
           Iter == CHOOSE f : f = [s \in SUBSET A |->
                     IF s = {} THEN base ELSE (f[s \ {Chosen(s)}] * Chosen(s).ratio) \div RatioUnit]
<1>1. A \in SUBSET P /\ P \in SUBSET ledger /\ \A f \in P : f.ratio \in Nat \ {0}
  BY DEF Booked, Splits, SplitsAfter
<1>2. IsFiniteSet(P) /\ Cardinality(P) <= MaxId /\ IsFiniteSet(A)
  <2>1. IsFiniteSet(P) /\ IsFiniteSet(A) /\ Cardinality(P) <= Cardinality(ledger)
    BY <1>1, FS_Subset DEF Booked
  <2>2. Cardinality(P) \in Nat /\ Cardinality(ledger) \in Nat /\ Cardinality(ledger) <= MaxId
    BY <2>1, FS_CardinalityType DEF Booked
  <2> QED
    BY <2>1, <2>2, EntriesAssumption
<1>3. /\ e.qty \in Nat \ {0} /\ QStep \in Nat \ {0} /\ RatioUnit \in Nat \ {0}
      /\ MaxId \in Nat
  BY ScaleAssumption, EntriesAssumption DEF Booked
<1>4. UnitsOf(e) = Iter[A]
  BY Zenon DEF UnitsOf, FoldSet, MapThenFoldSet, Chosen
<1>5. \A s \in SUBSET A : s # {} => pick[s] = Chosen(s) /\ Chosen(s) \in s
  BY ChosenIn
<1>6. /\ combine \in [Int \X A -> Int]
      /\ \A v \in Int, x \in A : combine[<<v, x>>] = (v * x.ratio) \div RatioUnit
  <2>1. \A v \in Int, x \in A : (v * x.ratio) \div RatioUnit \in Int
    BY <1>1, <1>3
  <2> QED
    BY <2>1
<1>7. base \in Int
  BY <1>3
<1> HIDE DEF A, P, pick, combine
<1>8. PICK f : IsFold(f, A, Int, pick, base, combine)
  <2> HIDE DEF base
  <2>1. Picks(pick, A)
    BY <1>5 DEF Picks
  <2> QED
    BY <1>2, <1>6, <1>7, <2>1, FoldsExist
<1>9. f = [s \in SUBSET A |->
             IF s = {} THEN base ELSE (f[s \ {Chosen(s)}] * Chosen(s).ratio) \div RatioUnit]
  <2> HIDE DEF base
  <2>1. ASSUME NEW s \in SUBSET A
        PROVE  f[s] = IF s = {} THEN base
                                ELSE (f[s \ {Chosen(s)}] * Chosen(s).ratio) \div RatioUnit
    <3>1. CASE s = {}
      BY <1>8, <3>1 DEF IsFold
    <3>2. CASE s # {}
      <4>1. pick[s] = Chosen(s) /\ Chosen(s) \in A /\ s \ {Chosen(s)} \in SUBSET A
        BY <1>5, <3>2
      <4>2. f[s \ {Chosen(s)}] \in Int
        BY <1>8, <4>1 DEF IsFold
      <4>3. f[s] = combine[<<f[s \ {Chosen(s)}], Chosen(s)>>]
        BY <1>8, <3>2, <4>1 DEF IsFold
      <4> QED
        BY <1>6, <3>2, <4>1, <4>2, <4>3
    <3> QED
      BY <3>1, <3>2
  <2>2. f \in [SUBSET A -> Int]
    BY <1>8 DEF IsFold
  <2> QED
    BY <2>1, <2>2
<1>10. Iter = [s \in SUBSET A |->
                 IF s = {} THEN base ELSE (Iter[s \ {Chosen(s)}] * Chosen(s).ratio) \div RatioUnit]
  BY <1>9, Zenon DEF Iter
<1> HIDE DEF Iter
<1>11. PICK z \in Nat \ {0} : QStep = z * D[A]
  <2>1. Multiplicative(D, P, [g \in P |-> RatioUnit])
    BY Zenon DEF Scales, P
  <2> QED
    BY <1>1, <1>2, <2>1, QStepDivides, Zenon
<1> DEFINE a == e.qty * z
<1>12. D[A] \in Nat \ {0}
  BY <1>1, ScalesGrow DEF P
<1>13. a \in Nat \ {0} /\ base = a * D[A]
  <2>1. \A x, y \in Nat \ {0} : x * y \in Nat \ {0}
    OBVIOUS
  <2>2. \A x, y, w \in Nat \ {0} : x * (y * w) = (x * y) * w
    OBVIOUS
  <2> QED
    BY <1>3, <1>11, <1>12, <2>1, <2>2
<1> HIDE DEF a, base
<1> DEFINE T == {k \in Nat : \A s \in SUBSET A :
                   Cardinality(s) = k => Iter[s] = (a * D[A \ s]) * N[s]}
<1>14. \A s \in SUBSET A : IsFiniteSet(s) /\ Cardinality(s) \in Nat
  BY <1>2, FS_Subset, FS_CardinalityType
<1>15. 0 \in T
  <2> SUFFICES ASSUME NEW s \in SUBSET A, Cardinality(s) = 0
               PROVE  Iter[s] = (a * D[A \ s]) * N[s]
    OBVIOUS
  <2>1. s = {}
    BY <1>14, FS_EmptySet
  <2>2. N[s] = 1 /\ Iter[s] = base /\ A \ s = A
    <3>1. {} \in SUBSET Splits(e.ticker)
      OBVIOUS
    <3>2. N[{}] = 1
      BY <3>1, ScalesGrow
    <3> QED
      BY <1>10, <2>1, <3>2
  <2>3. \A v \in Int : v * 1 = v
    OBVIOUS
  <2>4. Iter[s] = a * D[A] /\ a * D[A] \in Int
    BY <1>7, <1>13, <2>2
  <2>5. (a * D[A]) * 1 = a * D[A]
    BY <2>3, <2>4
  <2> QED
    BY <2>2, <2>4, <2>5, Zenon
<1>16. ASSUME NEW k \in Nat, k \in T PROVE k + 1 \in T
  <2> SUFFICES ASSUME NEW s \in SUBSET A, Cardinality(s) = k + 1
               PROVE  Iter[s] = (a * D[A \ s]) * N[s]
    OBVIOUS
  <2>1. \A o \in SUBSET A : Cardinality(o) = k => Iter[o] = (a * D[A \ o]) * N[o]
    BY <1>16
  <2> HIDE DEF T
  <2>2. Cardinality({}) # k + 1
    BY FS_EmptySet
  <2> DEFINE x == Chosen(s)
  <2>3. s # {} /\ x \in s
    BY <2>2, ChosenIn
  <2>4. Iter[s] = (Iter[s \ {x}] * x.ratio) \div RatioUnit
    BY <1>10, <2>3
  <2> HIDE DEF x
  <2>5. s \ {x} \in SUBSET A /\ Cardinality(s \ {x}) = k
    <3>1. Cardinality(s \ {x}) = Cardinality(s) - 1
      BY <1>14, <2>3, FS_RemoveElement
    <3> QED
      BY <3>1
  <2>6. Iter[s \ {x}] = (a * D[A \ (s \ {x})]) * N[s \ {x}]
    BY <2>1, <2>5
  <2>7. /\ A \ (s \ {x}) \in SUBSET Splits(e.ticker) /\ s \in SUBSET Splits(e.ticker)
        /\ A \ s \in SUBSET Splits(e.ticker) /\ s \ {x} \in SUBSET Splits(e.ticker)
        /\ x \in A \ (s \ {x}) /\ (A \ (s \ {x})) \ {x} = A \ s
    BY <1>1, <2>3 DEF P
  <2>8. D[A \ (s \ {x})] = D[A \ s] * RatioUnit /\ N[s] = N[s \ {x}] * x.ratio
    <3>1. D[A \ (s \ {x})] = D[(A \ (s \ {x})) \ {x}] * RatioUnit
      BY <2>7, ScalesFactor
    <3>2. N[s] = N[s \ {x}] * x.ratio
      BY <2>3, <2>7, ScalesFactor
    <3> QED
      BY <2>7, <3>1, <3>2
  <2>9. D[A \ s] \in Nat \ {0} /\ N[s \ {x}] \in Nat \ {0} /\ x.ratio \in Nat \ {0}
    BY <1>1, <2>3, <2>7, ScalesGrow
  <2> DEFINE c == (a * D[A \ s]) * N[s]
  <2>10. Iter[s \ {x}] * x.ratio = RatioUnit * c
    <3>1. \A p, d, u, n, r \in Nat \ {0} : ((p * (d * u)) * n) * r = u * ((p * d) * (n * r))
      OBVIOUS
    <3> QED
      BY <1>3, <1>13, <2>6, <2>8, <2>9, <3>1
  <2>11. c \in Int
    <3>1. N[s] \in Int
      BY <2>8, <2>9
    <3>2. \A p, d, n \in Int : (p * d) * n \in Int
      OBVIOUS
    <3> QED
      BY <1>13, <2>9, <3>1, <3>2
  <2> HIDE DEF c
  <2>12. RatioUnit * c \in Int /\ RatioUnit * c <= RatioUnit * c
         /\ RatioUnit * c < RatioUnit * c + RatioUnit
    BY <1>3, <2>11
  <2>13. (RatioUnit * c) \div RatioUnit = c
    BY <1>3, <2>11, <2>12, QuotientIs
  <2> QED
    BY <2>4, <2>10, <2>13 DEF c
<1>17. \A k \in Nat : k \in T
  <2> HIDE DEF T
  <2> QED
    BY <1>15, <1>16, Induction
<1>18. Iter[A] = a * N[A]
  <2>1. Iter[A] = (a * D[A \ A]) * N[A]
    BY <1>14, <1>17
  <2>2. A \ A = {} /\ {} \in SUBSET Splits(e.ticker)
    OBVIOUS
  <2>3. D[{}] = 1
    BY <2>2, ScalesGrow
  <2> QED
    BY <1>13, <2>1, <2>2, <2>3
<1> QED
  BY <1>4, <1>13, <1>18 DEF A, base

-----------------------------------------------------------------------------
(* The replay of a ticker, entry by entry.                                  *)

\* The records that a replay passes through.
PositionType == [lots : Seq(Lots), realized : Int, oversold : SUBSET Int, undefined : BOOLEAN]

\* A position is its four fields.
LEMMA PositionIs ==
    ASSUME NEW pos \in PositionType
    PROVE  /\ pos.lots \in Seq(Lots) /\ pos.realized \in Int /\ pos.oversold \in SUBSET Int
           /\ pos.undefined \in BOOLEAN
           /\ pos = [lots |-> pos.lots, realized |-> pos.realized, oversold |-> pos.oversold,
                     undefined |-> pos.undefined]
<1> HIDE DEF Lots
<1> QED
  BY DEF PositionType

\* All but the oversold entries of it are replaced.
LEMMA PositionReplaced ==
    ASSUME NEW pos \in PositionType, NEW lots, NEW gain, NEW bad
    PROVE  [pos EXCEPT !.lots = lots, !.realized = gain, !.undefined = bad] =
             [lots |-> lots, realized |-> gain, oversold |-> pos.oversold, undefined |-> bad]
<1> DEFINE f == [x \in DOMAIN pos |-> IF x = "undefined" THEN bad
                                      ELSE IF x = "realized" THEN gain
                                      ELSE IF x = "lots" THEN lots ELSE pos[x]]
<1>1. [pos EXCEPT !.lots = lots, !.realized = gain, !.undefined = bad] = f
  OBVIOUS
<1>2. DOMAIN pos = {"lots", "realized", "oversold", "undefined"}
  BY DEF PositionType
<1>3. f = [lots |-> lots, realized |-> gain, oversold |-> pos.oversold, undefined |-> bad]
  BY <1>2
<1> QED
  BY <1>1, <1>3

\* What a sale leaves is a sale.
LEMMA ConsumeTyped ==
    ASSUME NEW lots \in Seq(Lots), NEW requested \in Nat
    PROVE  Consume(lots, requested) \in Sales
<1>1. PICK r : SaleRuns(lots, requested, r) /\ r[Len(lots)] = Consume(lots, requested)
  BY ConsumeRuns
<1>2. Len(lots) \in 0..Len(lots)
  OBVIOUS
<1> QED
  BY <1>1, <1>2 DEF SaleRuns

\* The entries of a ticker have the fields that its replay reads.
LEMMA EntryTyped ==
    ASSUME Booked(ledger), NEW t, NEW e \in TradesOf(ledger, t)
    PROVE  /\ e \in ledger /\ e.ticker = t /\ t \in Tickers
           /\ e.id \in Int /\ e.gross \in Nat /\ e.fee \in Nat
           /\ e.type \in {"BUY", "SELL", "SPLIT"}
           /\ e.type \in {"BUY", "SELL"} => e.qty \in Nat \ {0} /\ e.qty * QStep \in Nat \ {0}
           /\ e.type = "SPLIT" => e.ratio \in Nat \ {0}
           /\ (e.gross + e.fee) * Cent \in Int /\ (e.gross - e.fee) * Cent \in Int
<1>1. e \in ledger /\ e.ticker = t /\ e.type \in {"BUY", "SELL", "SPLIT"}
  BY DEF TradesOf
<1>2. /\ e.id \in Int /\ e.gross \in Nat /\ e.fee \in Nat
      /\ e.type \in TradeTypes => e.ticker \in Tickers /\ e.qty \in Nat \ {0}
      /\ e.type = "SPLIT" => e.ticker \in Tickers /\ e.ratio \in Nat \ {0}
  BY <1>1 DEF Booked
<1>3. \A x, y \in Nat \ {0} : x * y \in Nat \ {0}
  OBVIOUS
<1>4. QStep \in Nat \ {0} /\ Cent \in Nat \ {0}
  BY ScaleAssumption
<1>5. \A x, y \in Int : x * y \in Int
  OBVIOUS
<1>6. e.gross + e.fee \in Int /\ e.gross - e.fee \in Int /\ Cent \in Int
  BY <1>2, <1>4
<1> QED
  BY <1>1, <1>2, <1>3, <1>4, <1>5, <1>6 DEF TradeTypes

\* A purchase adds a lot with its cost.
LEMMA TradedBuy ==
    ASSUME NEW pos \in PositionType, NEW e, e.type = "BUY"
    PROVE  Traded(pos, e) =
             [lots |-> Append(pos.lots, [qty |-> e.qty * QStep, cost |-> (e.gross + e.fee) * Cent]),
              realized |-> pos.realized, oversold |-> pos.oversold, undefined |-> pos.undefined]
<1>1. Traded(pos, e) =
        [pos EXCEPT !.lots = Append(pos.lots, Lot(e.qty * QStep, (e.gross + e.fee) * Cent))]
  BY DEF Traded, Bought
<1>2. Lot(e.qty * QStep, (e.gross + e.fee) * Cent)
        = [qty |-> e.qty * QStep, cost |-> (e.gross + e.fee) * Cent]
  BY DEF Lot
<1> DEFINE lots == Append(pos.lots, Lot(e.qty * QStep, (e.gross + e.fee) * Cent))
<1> HIDE DEF lots
<1>3. [pos EXCEPT !.lots = lots] =
        [lots |-> lots, realized |-> pos.realized, oversold |-> pos.oversold,
         undefined |-> pos.undefined]
  BY PositionIs
<1> QED
  BY <1>1, <1>2, <1>3, Zenon DEF lots

\* A sale takes lots, and realizes what it brings beyond their cost.
LEMMA TradedSale ==
    ASSUME NEW pos \in PositionType, NEW e, e.type = "SELL",
           ~(QtyOf(pos.lots) < e.qty * QStep)
    PROVE  Traded(pos, e) =
             [lots |-> Consume(pos.lots, e.qty * QStep).lots,
              realized |-> pos.realized + (e.gross - e.fee) * Cent
                             - Consume(pos.lots, e.qty * QStep).cost,
              oversold |-> pos.oversold,
              undefined |-> (pos.undefined \/ Consume(pos.lots, e.qty * QStep).undefined)]
<1> DEFINE sale == Consume(pos.lots, e.qty * QStep)
           gain == pos.realized + (e.gross - e.fee) * Cent - sale.cost
           bad == pos.undefined \/ sale.undefined
<1>1. Traded(pos, e) = [pos EXCEPT !.lots = sale.lots, !.realized = gain, !.undefined = bad]
  BY DEF Traded, Sold
<1> HIDE DEF sale, gain, bad
<1>2. [pos EXCEPT !.lots = sale.lots, !.realized = gain, !.undefined = bad] =
        [lots |-> sale.lots, realized |-> gain, oversold |-> pos.oversold, undefined |-> bad]
  BY PositionReplaced, Zenon
<1> QED
  BY <1>1, <1>2, Zenon DEF sale, gain, bad

\* A sale of more than is held is noted, and nothing is taken.
LEMMA TradedOversale ==
    ASSUME NEW pos \in PositionType, NEW e, e.type = "SELL", QtyOf(pos.lots) < e.qty * QStep
    PROVE  Traded(pos, e) =
             [lots |-> pos.lots, realized |-> pos.realized, oversold |-> pos.oversold \cup {e.id},
              undefined |-> pos.undefined]
<1>1. Traded(pos, e) = [pos EXCEPT !.oversold = pos.oversold \cup {e.id}]
  BY DEF Traded, Sold
<1> DEFINE ids == pos.oversold \cup {e.id}
<1> HIDE DEF ids
<1>2. [pos EXCEPT !.oversold = ids] =
        [lots |-> pos.lots, realized |-> pos.realized, oversold |-> ids,
         undefined |-> pos.undefined]
  BY PositionIs
<1> QED
  BY <1>1, <1>2, Zenon DEF ids

\* A split changes the quantities of lots and not their costs.
LEMMA TradedSplit ==
    ASSUME NEW pos \in PositionType, NEW e, e.type = "SPLIT"
    PROVE  Traded(pos, e) =
             [lots |-> [i \in DOMAIN pos.lots |->
                          [qty |-> (pos.lots[i].qty * e.ratio) \div RatioUnit,
                           cost |-> pos.lots[i].cost]],
              realized |-> pos.realized, oversold |-> pos.oversold, undefined |-> pos.undefined]
<1> DEFINE lots == [i \in DOMAIN pos.lots |->
                      [qty |-> (pos.lots[i].qty * e.ratio) \div RatioUnit,
                       cost |-> pos.lots[i].cost]]
<1>1. Traded(pos, e) = [pos EXCEPT !.lots = lots]
  BY DEF Traded, Scaled, Lot
<1> HIDE DEF lots
<1>2. [pos EXCEPT !.lots = lots] =
        [lots |-> lots, realized |-> pos.realized, oversold |-> pos.oversold,
         undefined |-> pos.undefined]
  BY PositionIs
<1> QED
  BY <1>1, <1>2, Zenon DEF lots

\* They are lots again.
LEMMA SplitLots ==
    ASSUME NEW lots \in Seq(Lots), NEW ratio \in Nat \ {0}
    PROVE  LET scaled == [i \in DOMAIN lots |->
                            [qty |-> (lots[i].qty * ratio) \div RatioUnit, cost |-> lots[i].cost]]
           IN  /\ scaled \in Seq(Lots) /\ Len(scaled) = Len(lots)
               /\ \A i \in 1..Len(lots) :
                    scaled[i] = [qty |-> (lots[i].qty * ratio) \div RatioUnit,
                                 cost |-> lots[i].cost]
<1> DEFINE n == Len(lots)
           scaled == [i \in DOMAIN lots |->
                        [qty |-> (lots[i].qty * ratio) \div RatioUnit, cost |-> lots[i].cost]]
<1>1. n \in Nat /\ DOMAIN lots = 1..n /\ \A i \in 1..n : lots[i] \in Lots
  OBVIOUS
<1>2. \A a \in Nat : (a * ratio) \div RatioUnit \in Nat
  <2>1. RatioUnit \in Nat \ {0}
    BY ScaleAssumption
  <2>2. \A a \in Nat : a * ratio \in Nat
    OBVIOUS
  <2>3. \A b \in Nat : b \div RatioUnit \in Nat
    BY <2>1
  <2> QED
    BY <2>2, <2>3
<1> HIDE DEF n
<1>3. ASSUME NEW i \in 1..n
      PROVE  [qty |-> (lots[i].qty * ratio) \div RatioUnit, cost |-> lots[i].cost] \in Lots
  BY <1>1, <1>2 DEF Lots
<1>4. scaled = [i \in 1..n |->
                  [qty |-> (lots[i].qty * ratio) \div RatioUnit, cost |-> lots[i].cost]]
  BY <1>1
<1>5. scaled \in [1..n -> Lots]
  BY <1>3, <1>4
<1>6. scaled \in Seq(Lots) /\ Len(scaled) = n
  BY <1>1, <1>5
<1> QED
  BY <1>4, <1>6 DEF n

\* Every entry leads from a position to one.
LEMMA TradedTyped ==
    ASSUME Booked(ledger), NEW t, NEW e \in TradesOf(ledger, t), NEW pos \in PositionType
    PROVE  Traded(pos, e) \in PositionType
<1>1. /\ pos.lots \in Seq(Lots) /\ pos.realized \in Int /\ pos.oversold \in SUBSET Int
      /\ pos.undefined \in BOOLEAN
  BY PositionIs
<1>2. /\ e.id \in Int /\ e.type \in {"BUY", "SELL", "SPLIT"}
      /\ e.type \in {"BUY", "SELL"} => e.qty * QStep \in Nat \ {0}
      /\ e.type = "SPLIT" => e.ratio \in Nat \ {0}
      /\ (e.gross + e.fee) * Cent \in Int /\ (e.gross - e.fee) * Cent \in Int
  BY EntryTyped
<1>3. CASE e.type = "BUY"
  <2>1. [qty |-> e.qty * QStep, cost |-> (e.gross + e.fee) * Cent] \in Lots
    BY <1>2, <1>3 DEF Lots
  <2> DEFINE lots == Append(pos.lots, [qty |-> e.qty * QStep, cost |-> (e.gross + e.fee) * Cent])
  <2>2. lots \in Seq(Lots)
    BY <1>1, <2>1, Appended
  <2>3. Traded(pos, e) = [lots |-> lots, realized |-> pos.realized, oversold |-> pos.oversold,
                          undefined |-> pos.undefined]
    BY <1>3, TradedBuy
  <2> HIDE DEF lots
  <2> QED
    BY <1>1, <2>2, <2>3 DEF PositionType
<1>4. CASE e.type = "SELL"
  <2> DEFINE sale == Consume(pos.lots, e.qty * QStep)
  <2>1. e.qty * QStep \in Nat
    BY <1>2, <1>4
  <2>2. sale \in Sales
    BY <1>1, <2>1, ConsumeTyped
  <2>3. sale.lots \in Seq(Lots) /\ sale.cost \in Int /\ sale.undefined \in BOOLEAN
    BY <2>2 DEF Sales
  <2> HIDE DEF sale
  <2>4. CASE QtyOf(pos.lots) < e.qty * QStep
    <3>1. pos.oversold \cup {e.id} \in SUBSET Int
      BY <1>1, <1>2
    <3> QED
      BY <1>1, <1>4, <2>4, <3>1, TradedOversale DEF PositionType
  <2>5. CASE ~(QtyOf(pos.lots) < e.qty * QStep)
    <3>1. Traded(pos, e) =
            [lots |-> sale.lots, realized |-> pos.realized + (e.gross - e.fee) * Cent - sale.cost,
             oversold |-> pos.oversold, undefined |-> (pos.undefined \/ sale.undefined)]
      BY <1>4, <2>5, TradedSale DEF sale
    <3>2. pos.realized + (e.gross - e.fee) * Cent - sale.cost \in Int
      BY <1>1, <1>2, <2>3
    <3>3. (pos.undefined \/ sale.undefined) \in BOOLEAN
      OBVIOUS
    <3> QED
      BY <1>1, <2>3, <3>1, <3>2, <3>3 DEF PositionType
  <2> QED
    BY <2>4, <2>5
<1>5. CASE e.type = "SPLIT"
  <2> DEFINE scaled == [i \in DOMAIN pos.lots |->
                          [qty |-> (pos.lots[i].qty * e.ratio) \div RatioUnit,
                           cost |-> pos.lots[i].cost]]
  <2>1. scaled \in Seq(Lots)
    BY <1>1, <1>2, <1>5, SplitLots
  <2>2. Traded(pos, e) = [lots |-> scaled, realized |-> pos.realized, oversold |-> pos.oversold,
                          undefined |-> pos.undefined]
    BY <1>5, TradedSplit
  <2> HIDE DEF scaled
  <2> QED
    BY <1>1, <2>1, <2>2 DEF PositionType
<1> QED
  BY <1>2, <1>3, <1>4, <1>5

\* The replay of a ticker, entry by entry.
Replayed(t, q, n, r) ==
    /\ n \in Nat /\ Lists(q, n, TradesOf(ledger, t))
    /\ \A k \in 0..n : r[k] \in PositionType
    /\ r[0] = NoPosition
    /\ \A k \in 1..n : r[k] = Traded(r[k - 1], q[k])
    /\ r[n] = Position(ledger, t)

\* The entries of a ticker can be listed.
LEMMA TradesDated ==
    ASSUME Booked(ledger), NEW t
    PROVE  Dated(TradesOf(ledger, t))
<1>1. TradesOf(ledger, t) \in SUBSET ledger
  BY DEF TradesOf
<1>2. IsFiniteSet(TradesOf(ledger, t))
  BY <1>1, FS_Subset DEF Booked
<1> QED
  BY <1>1, <1>2 DEF Booked, Dated

\* Every ticker has a replay, which ends with its position.
LEMMA ReplayExists ==
    ASSUME Booked(ledger), NEW t
    PROVE  \E q, n, r : Replayed(t, q, n, r)
<1> DEFINE T == TradesOf(ledger, t)
           q == InOrder(T)
           n == Cardinality(T)
           combine == [x \in PositionType \X (1..n) |-> Traded(x[1], q[x[2]])]
           Iter == CHOOSE f : f = [s \in SUBSET (DOMAIN q) |->
                     IF s = {} THEN NoPosition ELSE Traded(f[s \ {Max(s)}], q[Max(s)])]
           r == [k \in 0..n |-> Iter[1..k]]
<1>1. n \in Nat /\ Lists(q, n, T)
  BY TradesDated, InOrderLists
<1>2. Position(ledger, t) = Iter[DOMAIN q]
  BY Zenon DEF Position, FoldLeft, MapThenFoldSet
<1> HIDE DEF T, q, n
<1>3. DOMAIN q = 1..n /\ \A k \in 1..n : q[k] \in T
  BY <1>1 DEF Lists
<1>4. /\ combine \in [PositionType \X (1..n) -> PositionType]
      /\ \A a \in PositionType, k \in 1..n : combine[<<a, k>>] = Traded(a, q[k])
  BY <1>3, TradedTyped DEF T
<1>5. NoPosition \in PositionType
  <2>1. <<>> \in Seq(Lots)
    OBVIOUS
  <2> QED
    BY <2>1 DEF NoPosition, PositionType
<1> HIDE DEF combine
<1>6. PICK f : FoldsUp(f, n, PositionType, NoPosition, combine)
  BY <1>1, <1>4, <1>5, FoldLeftExists
<1>7. \A s \in SUBSET (1..n) : s # {} => Max(s) \in 1..n /\ s \ {Max(s)} \in SUBSET (1..n)
  BY <1>1, MaxIn
<1>8. f = [s \in SUBSET (DOMAIN q) |->
             IF s = {} THEN NoPosition ELSE Traded(f[s \ {Max(s)}], q[Max(s)])]
  BY <1>3, <1>4, <1>6, <1>7 DEF FoldsUp
<1>9. Iter = [s \in SUBSET (DOMAIN q) |->
                IF s = {} THEN NoPosition ELSE Traded(Iter[s \ {Max(s)}], q[Max(s)])]
  BY <1>8, Zenon
<1> HIDE DEF Iter
<1>10. ASSUME NEW k \in 1..n PROVE Iter[1..k] = Traded(Iter[1..(k - 1)], q[k])
  <2>1. /\ (1..k) \in SUBSET (DOMAIN q) /\ 1..k # {} /\ Max(1..k) = k
        /\ (1..k) \ {k} = 1..(k - 1)
    BY <1>1, <1>3, Stretch, Zenon
  <2> QED
    BY <1>9, <2>1, Zenon
<1>11. r[0] = NoPosition
  <2>1. 1..0 = {} /\ 0 \in 0..n /\ {} \in SUBSET (DOMAIN q)
    BY <1>1
  <2>2. Iter[{}] = NoPosition
    BY <1>9, <2>1
  <2> QED
    BY <2>1, <2>2
<1>12. ASSUME NEW k \in 1..n PROVE r[k] = Traded(r[k - 1], q[k])
  <2>1. k \in 0..n /\ k - 1 \in 0..n
    BY <1>1
  <2>2. r[k] = Iter[1..k] /\ r[k - 1] = Iter[1..(k - 1)]
    BY <2>1
  <2> QED
    BY <1>10, <2>2
<1>13. r[n] = Position(ledger, t)
  <2>1. n \in 0..n
    BY <1>1
  <2> QED
    BY <1>2, <1>3, <2>1
<1> HIDE DEF r
<1>14. \A k \in 0..n : r[k] \in PositionType
  <2>1. r[0] \in PositionType
        /\ \A k \in 1..n : r[k - 1] \in PositionType => r[k] \in PositionType
    BY <1>3, <1>5, <1>11, <1>12, TradedTyped DEF T
  <2> QED
    BY <1>1, <2>1, RunTyped
<1>15. Replayed(t, q, n, r)
  BY <1>1, <1>11, <1>12, <1>13, <1>14 DEF Replayed, T
<1> QED
  BY <1>15

-----------------------------------------------------------------------------
(* The trades of a ticker, laid end to end.                                 *)

\* Purchases and sales of a ticker.
DealsOf(t) == {e \in ledger : e.type \in TradeTypes /\ e.ticker = t}

\* What each of them is worth at the end is more than nothing.
LEMMA UnitsTyped ==
    ASSUME Booked(ledger), NEW e \in ledger, e.type \in TradeTypes
    PROVE  UnitsOf(e) \in Nat \ {0}
<1>1. PICK N, D : Scales(e.ticker, N, D)
  BY ScalesExist
<1>2. PICK a \in Nat \ {0} : UnitsOf(e) = a * N[SplitsAfter(e)]
  BY <1>1, UnitsAre
<1>3. SplitsAfter(e) \in SUBSET Splits(e.ticker)
  BY DEF SplitsAfter, Splits
<1>4. N[SplitsAfter(e)] \in Nat \ {0}
  BY <1>1, <1>3, ScalesGrow
<1>5. \A x, y \in Nat \ {0} : x * y \in Nat \ {0}
  OBVIOUS
<1> QED
  BY <1>2, <1>4, <1>5

\* The total of trades is the sum of what they are worth.
LEMMA TotalIs ==
    ASSUME NEW X, IsFiniteSet(X), NEW val, NEW W, Additive(W, X, val),
           \A e \in X : val[e] = UnitsOf(e) /\ UnitsOf(e) \in Int,
           NEW S \in SUBSET X
    PROVE  Total(S) = W[S]
<1> DEFINE Iter == CHOOSE f : f = [s \in SUBSET S |->
                     IF s = {} THEN 0 ELSE UnitsOf(Chosen(s)) + f[s \ {Chosen(s)}]]
           v == [e \in S |-> val[e]]
<1>1. Total(S) = Iter[S]
  BY Zenon DEF Total, MapThenSumSet, MapThenFoldSet, Chosen
<1>2. \A s \in SUBSET S : s # {} => Chosen(s) \in s
  BY ChosenIn
<1>3. IsFiniteSet(S)
  BY FS_Subset
<1>4. PICK f : AddsUp(f, S, v)
  <2>1. v \in [S -> Int]
    OBVIOUS
  <2> HIDE DEF v
  <2> QED
    BY <1>3, <2>1, SumFold
<1>5. f = [s \in SUBSET S |-> IF s = {} THEN 0 ELSE UnitsOf(Chosen(s)) + f[s \ {Chosen(s)}]]
  <2>1. \A s \in SUBSET S : s # {} => v[Chosen(s)] = UnitsOf(Chosen(s))
    BY <1>2
  <2> HIDE DEF v
  <2> QED
    BY <1>4, <2>1 DEF AddsUp
<1>6. Iter = [s \in SUBSET S |-> IF s = {} THEN 0 ELSE UnitsOf(Chosen(s)) + Iter[s \ {Chosen(s)}]]
  BY <1>5, Zenon
<1> HIDE DEF Iter
<1>7. AddsUp(Iter, S, val)
  <2>1. \A s \in SUBSET S : s # {} => val[Chosen(s)] = UnitsOf(Chosen(s))
    BY <1>2
  <2> QED
    BY <1>6, <2>1 DEF AddsUp
<1>8. \A x \in X : val[x] \in Int
  OBVIOUS
<1> QED
  BY <1>1, <1>7, <1>8, SumIsOnly

\* What is bought and sold up to the k-th entry in the units of the last split, and what
\* a quantity of the k-th entry's time is multiplied with and divided by to come to it.
Stated(t, q, n, w, B, S, d, m) ==
    /\ B[0] = 0 /\ S[0] = 0 /\ d[n] = 1 /\ m[n] = 1
    /\ \A k \in 0..n : B[k] \in Nat /\ S[k] \in Nat /\ d[k] \in Nat \ {0} /\ m[k] \in Nat \ {0}
    /\ \A k \in 1..n :
         /\ q[k].type = "BUY" => B[k] = B[k - 1] + w[k] /\ S[k] = S[k - 1]
         /\ q[k].type = "SELL" => B[k] = B[k - 1] /\ S[k] = S[k - 1] + w[k]
         /\ q[k].type = "SPLIT" => /\ B[k] = B[k - 1] /\ S[k] = S[k - 1]
                                   /\ d[k - 1] = d[k] * RatioUnit
                                   /\ m[k - 1] = m[k] * q[k].ratio
         /\ q[k].type \in TradeTypes => /\ d[k - 1] = d[k] /\ m[k - 1] = m[k]
                                        /\ w[k] = UnitsOf(q[k]) /\ w[k] \in Nat \ {0}
                                        /\ Same(q[k].qty * QStep, w[k], d[k], m[k])
    /\ \A k \in 1..n : /\ Total(Upto(Trades(t, "BUY"), q[k])) = B[k]
                       /\ Total(Upto(Trades(t, "SELL"), q[k])) = S[k]
    /\ Total(Trades(t, "SELL")) = S[n]

\* Every ticker has such an account of its entries.
LEMMA StatementExists ==
    ASSUME Booked(ledger), NEW t, NEW n \in Nat, NEW q, Lists(q, n, TradesOf(ledger, t))
    PROVE  \E w, B, S, d, m : Stated(t, q, n, w, B, S, d, m)
<1> DEFINE T == TradesOf(ledger, t)
           X == DealsOf(t)
           val == [e \in X |-> UnitsOf(e)]
           To(k, type) == {e \in Trades(t, type) : \E i \in 1..k : q[i] = e}
           After(k) == {e \in Splits(t) : \E i \in (k + 1)..n : q[i] = e}
<1>1. /\ \A k \in 1..n : q[k] \in T
      /\ \A e \in T : \E i \in 1..n : q[i] = e
      /\ \A i, j \in 1..n : i < j => Before(q[i], q[j])
  BY DEF Lists
<1>2. \A i, j \in 1..n : (q[i] = q[j] => i = j) /\ (Before(q[i], q[j]) <=> i < j)
  <2>1. \A i, j \in 1..n : i < j \/ j < i \/ i = j
    OBVIOUS
  <2>2. \A i, j \in 1..n : i < j => ~Before(q[j], q[i]) /\ q[i] # q[j]
    BY <1>1, TradesDated, BeforeIsOrder
  <2>3. \A i \in 1..n : ~Before(q[i], q[i])
    BY <1>1, TradesDated, BeforeIsOrder
  <2> QED
    BY <1>1, <2>1, <2>2, <2>3
<1>3. /\ X \in SUBSET ledger /\ X \in SUBSET T /\ Splits(t) \in SUBSET T
      /\ Trades(t, "BUY") \in SUBSET X /\ Trades(t, "SELL") \in SUBSET X
      /\ \A e \in X : e.type \in TradeTypes
  BY DEF DealsOf, TradesOf, Splits, Trades, TradeTypes
<1>4. IsFiniteSet(X) /\ \A e \in X : val[e] = UnitsOf(e) /\ UnitsOf(e) \in Nat \ {0}
  <2>1. IsFiniteSet(X)
    BY <1>3, FS_Subset DEF Booked
  <2>2. \A e \in X : UnitsOf(e) \in Nat \ {0}
    BY <1>3, UnitsTyped
  <2> QED
    BY <2>1, <2>2
<1>5. val \in [X -> Int]
  BY <1>4
<1> HIDE DEF T, X, val
<1>6. PICK W : Additive(W, X, val)
  BY <1>4, <1>5, SumsExist
<1>7. PICK N, D : Scales(t, N, D)
  BY ScalesExist
<1> DEFINE w == [k \in 1..n |-> UnitsOf(q[k])]
           B == [k \in 0..n |-> W[To(k, "BUY")]]
           S == [k \in 0..n |-> W[To(k, "SELL")]]
           d == [k \in 0..n |-> D[After(k)]]
           m == [k \in 0..n |-> N[After(k)]]
\* Each entry adds itself to what comes before it, or to what comes after.
<1>8. ASSUME NEW type \in TradeTypes, NEW k \in 1..n
      PROVE  /\ q[k].type = type => /\ W[To(k, type)] = W[To(k - 1, type)] + UnitsOf(q[k])
             /\ q[k].type # type => W[To(k, type)] = W[To(k - 1, type)]
  <2>1. q[k] \in ledger /\ q[k].ticker = t
    BY <1>1 DEF T, TradesOf
  <2>2. ASSUME q[k].type = type
        PROVE  To(k, type) = To(k - 1, type) \cup {q[k]} /\ q[k] \in X \ To(k - 1, type)
    <3>1. q[k] \in Trades(t, type) /\ q[k] \in X
      BY <2>1, <2>2 DEF Trades, X, DealsOf
    <3>2. q[k] \notin To(k - 1, type)
      BY <1>2
    <3>3. \A i \in 1..k : i \in 1..(k - 1) \/ i = k
      OBVIOUS
    <3> QED
      BY <3>1, <3>2, <3>3
  <2>3. ASSUME q[k].type # type PROVE To(k, type) = To(k - 1, type)
    <3>1. \A e \in Trades(t, type) : e # q[k]
      BY <2>3 DEF Trades
    <3>2. \A i \in 1..k : i \in 1..(k - 1) \/ i = k
      OBVIOUS
    <3> QED
      BY <3>1, <3>2
  <2>4. To(k - 1, type) \in SUBSET X
    BY <1>3 DEF TradeTypes
  <2> HIDE DEF To
  <2>5. ASSUME q[k].type = type
        PROVE  W[To(k, type)] = W[To(k - 1, type)] + UnitsOf(q[k])
    <3>1. W[To(k - 1, type) \cup {q[k]}] = W[To(k - 1, type)] + val[q[k]]
      BY <1>6, <2>2, <2>4, <2>5 DEF Additive
    <3> QED
      BY <1>4, <2>2, <2>5, <3>1
  <2> QED
    BY <2>3, <2>5
<1>9. ASSUME NEW k \in 1..n
      PROVE  /\ q[k].type = "SPLIT" => /\ D[After(k - 1)] = D[After(k)] * RatioUnit
                                       /\ N[After(k - 1)] = N[After(k)] * q[k].ratio
             /\ q[k].type # "SPLIT" => After(k - 1) = After(k)
  <2>1. q[k] \in ledger /\ q[k].ticker = t
    BY <1>1 DEF T, TradesOf
  <2>2. \A i \in ((k - 1) + 1)..n : i \in (k + 1)..n \/ i = k
    OBVIOUS
  <2>3. k \in ((k - 1) + 1)..n /\ \A i \in (k + 1)..n : i \in ((k - 1) + 1)..n
    OBVIOUS
  <2>4. ASSUME q[k].type # "SPLIT" PROVE After(k - 1) = After(k)
    <3>1. \A e \in Splits(t) : e # q[k]
      BY <2>4 DEF Splits
    <3> QED
      BY <2>2, <2>3, <3>1
  <2>5. ASSUME q[k].type = "SPLIT"
        PROVE  /\ D[After(k - 1)] = D[After(k)] * RatioUnit
               /\ N[After(k - 1)] = N[After(k)] * q[k].ratio
    <3>1. q[k] \in Splits(t)
      BY <2>1, <2>5 DEF Splits
    <3>2. q[k] \notin After(k)
      BY <1>2
    <3>3. After(k - 1) = After(k) \cup {q[k]}
      BY <2>2, <2>3, <3>1
    <3>4. After(k - 1) \in SUBSET Splits(t)
      OBVIOUS
    <3> HIDE DEF After
    <3>5. q[k] \in After(k - 1) /\ After(k - 1) \ {q[k]} = After(k)
      BY <3>2, <3>3
    <3> DEFINE s == After(k - 1)
               f == q[k]
    <3>6. f \in s /\ s \ {f} = After(k)
      BY <3>5
    <3>7. s \in SUBSET Splits(t)
      BY <3>4
    <3> HIDE DEF s, f
    <3>8. N[s] = N[s \ {f}] * f.ratio /\ D[s] = D[s \ {f}] * RatioUnit
      BY <1>7, <3>6, <3>7, ScalesFactor
    <3> QED
      BY <3>6, <3>8, Zenon DEF s, f
  <2> QED
    BY <2>4, <2>5
<1>10. ASSUME NEW k \in 1..n, q[k].type \in TradeTypes
       PROVE  /\ q[k] \in ledger /\ q[k] \in X /\ q[k].ticker = t
              /\ SplitsAfter(q[k]) = After(k)
  <2>1. q[k] \in ledger /\ q[k].ticker = t
    BY <1>1 DEF T, TradesOf
  <2>2. ASSUME NEW f \in SplitsAfter(q[k]) PROVE f \in After(k)
    <3>1. f \in Splits(t) /\ Before(q[k], f)
      BY <2>1, <2>2 DEF SplitsAfter, Splits
    <3>2. PICK i \in 1..n : q[i] = f
      BY <1>1, <1>3, <3>1 DEF T
    <3>3. k < i
      BY <1>2, <3>1, <3>2
    <3> QED
      BY <3>1, <3>2, <3>3
  <2>3. ASSUME NEW f \in After(k) PROVE f \in SplitsAfter(q[k])
    <3>1. PICK i \in (k + 1)..n : q[i] = f
      BY <2>3
    <3>2. Before(q[k], f) /\ f \in Splits(t)
      BY <1>1, <2>3, <3>1
    <3> QED
      BY <2>1, <3>2 DEF SplitsAfter, Splits
  <2> QED
    BY <1>10, <2>1, <2>2, <2>3 DEF X, DealsOf
<1>11. ASSUME NEW k \in 1..n, NEW type \in TradeTypes
       PROVE  Upto(Trades(t, type), q[k]) = To(k, type)
  <2>1. ASSUME NEW f \in Upto(Trades(t, type), q[k]) PROVE f \in To(k, type)
    <3>1. f \in Trades(t, type) /\ (f = q[k] \/ Before(f, q[k]))
      BY <2>1 DEF Upto
    <3>2. PICK i \in 1..n : q[i] = f
      BY <1>1, <1>3, <3>1 DEF TradeTypes
    <3>3. i = k \/ i < k
      BY <1>2, <3>1, <3>2
    <3> QED
      BY <3>1, <3>2, <3>3
  <2>2. ASSUME NEW f \in To(k, type) PROVE f \in Upto(Trades(t, type), q[k])
    <3>1. PICK i \in 1..k : q[i] = f
      BY <2>2
    <3>2. i = k \/ Before(q[i], q[k])
      BY <1>1
    <3> QED
      BY <2>2, <3>1, <3>2 DEF Upto
  <2> QED
    BY <2>1, <2>2
<1>12. ASSUME NEW k \in 0..n, NEW type \in TradeTypes
       PROVE  To(k, type) \in SUBSET X /\ Total(To(k, type)) = W[To(k, type)]
  <2>1. To(k, type) \in SUBSET X
    BY <1>3 DEF TradeTypes
  <2> HIDE DEF To
  <2>2. \A e \in X : val[e] = UnitsOf(e) /\ UnitsOf(e) \in Int
    BY <1>4
  <2>3. Total(To(k, type)) = W[To(k, type)]
    BY <1>4, <1>6, <2>1, <2>2, TotalIs
  <2> QED
    BY <2>1, <2>3
<1>13. \A type \in TradeTypes : W[To(0, type)] = 0
  <2>1. \A type : To(0, type) = {}
    OBVIOUS
  <2> QED
    BY <1>6, <2>1 DEF Additive
<1>14. ASSUME NEW type \in TradeTypes
       PROVE  \A k \in 0..n : W[To(k, type)] \in Nat
  <2> DEFINE r == [k \in 0..n |-> W[To(k, type)]]
  <2>1. \A k \in 0..n : r[k] = W[To(k, type)]
    OBVIOUS
  <2> HIDE DEF r, To
  <2>2. r[0] \in Nat
    BY <1>13, <2>1
  <2>3. ASSUME NEW k \in 1..n, r[k - 1] \in Nat PROVE r[k] \in Nat
    <3>1. k \in 0..n /\ k - 1 \in 0..n
      OBVIOUS
    <3>2. q[k].type = type => UnitsOf(q[k]) \in Nat
      BY <1>4, <1>10
    <3> QED
      BY <1>8, <2>1, <2>3, <3>1, <3>2
  <2>4. \A k \in 0..n : r[k] \in Nat
    BY <2>2, <2>3, RunTyped
  <2> QED
    BY <2>1, <2>4
<1>15. \A k \in 0..n : D[After(k)] \in Nat \ {0} /\ N[After(k)] \in Nat \ {0}
  <2>1. \A k \in 0..n : After(k) \in SUBSET Splits(t)
    OBVIOUS
  <2> HIDE DEF After
  <2> QED
    BY <1>7, <2>1, ScalesGrow
<1>16. D[After(n)] = 1 /\ N[After(n)] = 1
  <2>1. After(n) = {} /\ {} \in SUBSET Splits(t)
    OBVIOUS
  <2> HIDE DEF After
  <2> QED
    BY <1>7, <2>1, ScalesGrow
<1>17. ASSUME NEW k \in 1..n, q[k].type \in TradeTypes
       PROVE  /\ UnitsOf(q[k]) \in Nat \ {0}
              /\ Same(q[k].qty * QStep, UnitsOf(q[k]), D[After(k)], N[After(k)])
  <2> HIDE DEF After
  <2>1. q[k] \in ledger /\ q[k] \in X /\ q[k].ticker = t /\ SplitsAfter(q[k]) = After(k)
    BY <1>10, <1>17
  <2>2. PICK a \in Nat \ {0} : /\ q[k].qty * QStep = a * D[SplitsAfter(q[k])]
                               /\ UnitsOf(q[k]) = a * N[SplitsAfter(q[k])]
    BY <1>7, <1>17, <2>1, UnitsAre
  <2> QED
    BY <1>4, <2>1, <2>2 DEF Same
<1>18. To(n, "SELL") = Trades(t, "SELL")
  <2>1. Trades(t, "SELL") \in SUBSET T
    BY <1>3
  <2> QED
    BY <1>1, <2>1
<1>19. /\ \A k \in 1..n : w[k] = UnitsOf(q[k])
       /\ \A k \in 0..n : /\ B[k] = W[To(k, "BUY")] /\ S[k] = W[To(k, "SELL")]
                          /\ d[k] = D[After(k)] /\ m[k] = N[After(k)]
  OBVIOUS
<1>20. "BUY" \in TradeTypes /\ "SELL" \in TradeTypes /\ "SPLIT" \notin TradeTypes
       /\ "BUY" # "SELL" /\ "BUY" # "SPLIT" /\ "SELL" # "SPLIT"
  BY DEF TradeTypes
<1> HIDE DEF w, B, S, d, m, To, After
<1>21. /\ B[0] = 0 /\ S[0] = 0 /\ d[n] = 1 /\ m[n] = 1
       /\ \A k \in 0..n : B[k] \in Nat /\ S[k] \in Nat /\ d[k] \in Nat \ {0} /\ m[k] \in Nat \ {0}
  <2>1. 0 \in 0..n /\ n \in 0..n
    OBVIOUS
  <2> QED
    BY <1>13, <1>14, <1>15, <1>16, <1>19, <1>20, <2>1
<1>22. ASSUME NEW k \in 1..n
       PROVE  /\ q[k].type = "BUY" => B[k] = B[k - 1] + w[k] /\ S[k] = S[k - 1]
              /\ q[k].type = "SELL" => B[k] = B[k - 1] /\ S[k] = S[k - 1] + w[k]
              /\ q[k].type = "SPLIT" => /\ B[k] = B[k - 1] /\ S[k] = S[k - 1]
                                        /\ d[k - 1] = d[k] * RatioUnit
                                        /\ m[k - 1] = m[k] * q[k].ratio
              /\ q[k].type \in TradeTypes => /\ d[k - 1] = d[k] /\ m[k - 1] = m[k]
                                             /\ w[k] = UnitsOf(q[k]) /\ w[k] \in Nat \ {0}
                                             /\ Same(q[k].qty * QStep, w[k], d[k], m[k])
              /\ Total(Upto(Trades(t, "BUY"), q[k])) = B[k]
              /\ Total(Upto(Trades(t, "SELL"), q[k])) = S[k]
  <2>1. k \in 0..n /\ k - 1 \in 0..n
    OBVIOUS
  <2>2. w[k] = UnitsOf(q[k]) /\ B[k] = W[To(k, "BUY")] /\ S[k] = W[To(k, "SELL")]
        /\ d[k] = D[After(k)] /\ m[k] = N[After(k)]
    BY <1>19, <2>1
  <2>3. B[k - 1] = W[To(k - 1, "BUY")] /\ S[k - 1] = W[To(k - 1, "SELL")]
        /\ d[k - 1] = D[After(k - 1)] /\ m[k - 1] = N[After(k - 1)]
    BY <1>19, <2>1
  <2>4. Upto(Trades(t, "BUY"), q[k]) = To(k, "BUY") /\ Upto(Trades(t, "SELL"), q[k]) = To(k, "SELL")
    BY <1>11, <1>20
  <2>5. Total(To(k, "BUY")) = W[To(k, "BUY")] /\ Total(To(k, "SELL")) = W[To(k, "SELL")]
    BY <1>12, <1>20, <2>1
  <2>6. CASE q[k].type = "BUY"
    BY <1>8, <1>9, <1>17, <1>20, <2>2, <2>3, <2>4, <2>5, <2>6
  <2>7. CASE q[k].type = "SELL"
    BY <1>8, <1>9, <1>17, <1>20, <2>2, <2>3, <2>4, <2>5, <2>7
  <2>8. CASE q[k].type \notin {"BUY", "SELL"}
    BY <1>8, <1>9, <1>20, <2>2, <2>3, <2>4, <2>5, <2>8 DEF TradeTypes
  <2> QED
    BY <2>6, <2>7, <2>8
<1>23. Total(Trades(t, "SELL")) = S[n]
  <2>1. n \in 0..n
    OBVIOUS
  <2> QED
    BY <1>12, <1>18, <1>19, <1>20, <2>1
<1>24. Stated(t, q, n, w, B, S, d, m)
  BY <1>21, <1>22, <1>23 DEF Stated
<1> QED
  BY <1>24

-----------------------------------------------------------------------------
(* First in, first out.                                                     *)

\* What grows from one step to the next grows from any step to any later one.
LEMMA Climbs ==
    ASSUME NEW n \in Nat, NEW E, \A j \in 0..n : E[j] \in Nat, \A j \in 1..n : E[j - 1] < E[j]
    PROVE  \A i, j \in 0..n : i < j => E[i] < E[j]
<1> DEFINE T == {j \in Nat : j <= n => \A i \in 0..n : i < j => E[i] < E[j]}
<1>1. 0 \in T
  OBVIOUS
<1>2. ASSUME NEW j \in Nat, j \in T PROVE j + 1 \in T
  <2> SUFFICES ASSUME j + 1 <= n, NEW i \in 0..n, i < j + 1 PROVE E[i] < E[j + 1]
    OBVIOUS
  <2>1. j + 1 \in 1..n /\ (j + 1) - 1 = j /\ j \in 0..n /\ j <= n /\ j + 1 \in 0..n
    OBVIOUS
  <2>2. E[j] < E[j + 1] /\ E[i] \in Nat /\ E[j] \in Nat /\ E[j + 1] \in Nat
    BY <2>1
  <2>3. i = j \/ E[i] < E[j]
    BY <1>2, <2>1
  <2> QED
    BY <2>2, <2>3
<1>3. \A j \in Nat : j \in T
  <2> HIDE DEF T
  <2> QED
    BY <1>1, <1>2, Induction
<1> QED
  BY <1>3

\* The quantities of lots, lot by lot and together.
LEMMA RunsSame ==
    ASSUME NEW d \in Nat \ {0}, NEW m \in Nat \ {0}, NEW lots \in Seq(Lots),
           NEW X, QtyRuns(lots, X), NEW E, \A j \in 0..Len(lots) : E[j] \in Nat,
           \A j \in 1..Len(lots) : Same(lots[j].qty, E[j] - E[j - 1], d, m)
    PROVE  \A j \in 0..Len(lots) : Same(X[j], E[j] - E[0], d, m)
<1> DEFINE n == Len(lots)
<1>1. /\ n \in Nat
      /\ \A j \in 0..n : X[j] \in Nat /\ E[j] \in Nat
      /\ X[0] = 0 /\ \A j \in 1..n : X[j] = X[j - 1] + lots[j].qty
  <2>1. n \in Nat /\ \A j \in 0..n : E[j] \in Nat
    OBVIOUS
  <2>2. X \in [0..n -> Nat] /\ X[0] = 0 /\ \A j \in 1..n : X[j] = X[j - 1] + lots[j].qty
    BY DEF QtyRuns
  <2> HIDE DEF n
  <2> QED
    BY <2>1, <2>2
<1>0. \A j \in 1..n : Same(lots[j].qty, E[j] - E[j - 1], d, m)
  OBVIOUS
<1> HIDE DEF n
<1> DEFINE T == {j \in Nat : j <= n => Same(X[j], E[j] - E[0], d, m)}
<1>2. 0 \in T
  <2>1. 0 \in 0..n /\ E[0] - E[0] = 0
    BY <1>1
  <2>2. Same(0, 0, d, m)
    <3>1. 0 \in Nat /\ 0 = 0 * d /\ 0 = 0 * m
      OBVIOUS
    <3> QED
      BY <3>1 DEF Same
  <2> QED
    BY <1>1, <2>1, <2>2
<1>3. ASSUME NEW j \in Nat, j \in T PROVE j + 1 \in T
  <2> SUFFICES ASSUME j + 1 <= n PROVE Same(X[j + 1], E[j + 1] - E[0], d, m)
    OBVIOUS
  <2>1. j + 1 \in 1..n /\ (j + 1) - 1 = j /\ j \in 0..n /\ j <= n /\ j + 1 \in 0..n /\ 0 \in 0..n
    BY <1>1
  <2>2. Same(X[j], E[j] - E[0], d, m) /\ Same(lots[j + 1].qty, E[j + 1] - E[j], d, m)
    BY <1>0, <1>3, <2>1
  <2>3. Same(X[j] + lots[j + 1].qty, (E[j] - E[0]) + (E[j + 1] - E[j]), d, m)
    BY <2>2, SameSum
  <2>4. X[j + 1] = X[j] + lots[j + 1].qty
    BY <1>1, <2>1
  <2>5. (E[j] - E[0]) + (E[j + 1] - E[j]) = E[j + 1] - E[0]
    BY <1>1, <2>1
  <2> QED
    BY <2>3, <2>4, <2>5
<1>4. \A j \in Nat : j \in T
  <2> HIDE DEF T
  <2> QED
    BY <1>2, <1>3, Induction
<1>5. \A j \in 0..n : j \in Nat /\ j <= n
  BY <1>1
<1> QED
  BY <1>4, <1>5 DEF n

\* No sale up to the k-th entry is of more than was bought before it.
Covered(q, B, S, k) == \A i \in 1..k : q[i].type = "SELL" => S[i] <= B[i]

\* The open lots lie end to end over the purchases s[1], s[2], ..., from where the sales end
\* to where the purchases end: lot j from E[j - 1] to E[j].
Stacked(q, B, S, d, m, k, lots, s, E) ==
    /\ \A j \in 1..Len(lots) : s[j] \in 1..k /\ q[s[j]].type = "BUY"
    /\ \A i, j \in 1..Len(lots) : i < j => s[i] < s[j]
    /\ \A j \in 0..Len(lots) : E[j] \in Nat
    /\ E[0] = S[k] /\ E[Len(lots)] = B[k]
    /\ \A j \in 1..Len(lots) :
         /\ E[j] = B[s[j]] /\ E[j - 1] < E[j]
         /\ B[s[j] - 1] <= E[j - 1]
         /\ j > 1 => B[s[j] - 1] = E[j - 1]
         /\ lots[j].qty > 0 /\ Same(lots[j].qty, E[j] - E[j - 1], d[k], m[k])
         /\ B[s[j] - 1] = E[j - 1] => lots[j].cost = (q[s[j]].gross + q[s[j]].fee) * Cent
    /\ \A i \in 1..k : q[i].type = "BUY" => (S[k] < B[i] <=> \E j \in 1..Len(lots) : s[j] = i)

\* What they hold together.
LEMMA StackHolds ==
    ASSUME NEW t, NEW q, NEW n \in Nat, NEW w, NEW B, NEW S, NEW d, NEW m,
           Stated(t, q, n, w, B, S, d, m), NEW k \in 0..n,
           NEW lots \in Seq(Lots), NEW s, NEW E, Stacked(q, B, S, d, m, k, lots, s, E)
    PROVE  /\ Same(QtyOf(lots), B[k] - S[k], d[k], m[k])
           /\ S[k] <= B[k]
<1>1. d[k] \in Nat \ {0} /\ m[k] \in Nat \ {0}
  BY DEF Stated
<1>2. /\ \A j \in 0..Len(lots) : E[j] \in Nat
      /\ \A j \in 1..Len(lots) : E[j - 1] < E[j]
      /\ \A j \in 1..Len(lots) : Same(lots[j].qty, E[j] - E[j - 1], d[k], m[k])
      /\ E[0] = S[k] /\ E[Len(lots)] = B[k]
  BY DEF Stacked
<1>3. PICK X : QtyRuns(lots, X) /\ X[Len(lots)] = QtyOf(lots)
  BY QtyOfRuns
<1>4. Len(lots) \in Nat /\ Len(lots) \in 0..Len(lots) /\ 0 \in 0..Len(lots)
  OBVIOUS
<1>5. Same(X[Len(lots)], E[Len(lots)] - E[0], d[k], m[k])
  BY <1>1, <1>2, <1>3, <1>4, RunsSame
<1>6. Len(lots) = 0 \/ E[0] < E[Len(lots)]
  <2>1. \A i, j \in 0..Len(lots) : i < j => E[i] < E[j]
    BY <1>2, <1>4, Climbs
  <2> QED
    BY <1>4, <2>1
<1> QED
  BY <1>2, <1>3, <1>4, <1>5, <1>6

\* A purchase is laid after the others.
LEMMA BuyStacks ==
    ASSUME NEW t, NEW q, NEW n \in Nat, NEW w, NEW B, NEW S, NEW d, NEW m,
           Stated(t, q, n, w, B, S, d, m), NEW k \in 1..n, q[k].type = "BUY",
           NEW lots \in Seq(Lots), NEW s, NEW E, Stacked(q, B, S, d, m, k - 1, lots, s, E),
           NEW lot \in Lots, lot.qty = q[k].qty * QStep, lot.qty > 0,
           lot.cost = (q[k].gross + q[k].fee) * Cent
    PROVE  \E s1, E1 : Stacked(q, B, S, d, m, k, Append(lots, lot), s1, E1)
<1> DEFINE M == Len(lots)
           more == Append(lots, lot)
           s1 == [j \in 1..(M + 1) |-> IF j = M + 1 THEN k ELSE s[j]]
           E1 == [j \in 0..(M + 1) |-> IF j = M + 1 THEN B[k] ELSE E[j]]
<1>1. /\ B[k] = B[k - 1] + w[k] /\ S[k] = S[k - 1]
      /\ d[k - 1] = d[k] /\ m[k - 1] = m[k] /\ w[k] \in Nat \ {0}
      /\ Same(lot.qty, w[k], d[k], m[k])
      /\ \A i \in 0..n : B[i] \in Nat /\ S[i] \in Nat
  BY DEF Stated, TradeTypes
<1>2. M \in Nat /\ more \in Seq(Lots) /\ Len(more) = M + 1 /\ more[M + 1] = lot
      /\ \A j \in 1..M : more[j] = lots[j]
  BY Appended
<1>3. /\ \A j \in 1..M : s[j] \in 1..(k - 1) /\ q[s[j]].type = "BUY"
      /\ \A i, j \in 1..M : i < j => s[i] < s[j]
      /\ \A j \in 0..M : E[j] \in Nat
      /\ E[0] = S[k - 1] /\ E[M] = B[k - 1]
      /\ \A j \in 1..M :
           /\ E[j] = B[s[j]] /\ E[j - 1] < E[j]
           /\ B[s[j] - 1] <= E[j - 1]
           /\ j > 1 => B[s[j] - 1] = E[j - 1]
           /\ lots[j].qty > 0 /\ Same(lots[j].qty, E[j] - E[j - 1], d[k - 1], m[k - 1])
           /\ B[s[j] - 1] = E[j - 1] => lots[j].cost = (q[s[j]].gross + q[s[j]].fee) * Cent
      /\ \A i \in 1..(k - 1) :
           q[i].type = "BUY" => (S[k - 1] < B[i] <=> \E j \in 1..M : s[j] = i)
  BY DEF Stacked
<1> HIDE DEF M, more
<1>4. /\ \A j \in 1..M : s1[j] = s[j] /\ E1[j] = E[j] /\ E1[j - 1] = E[j - 1]
      /\ s1[M + 1] = k /\ E1[M + 1] = B[k] /\ E1[M] = E[M] /\ E1[0] = E[0]
  BY <1>2
<1> HIDE DEF s1, E1
<1>5. /\ \A j \in 1..(M + 1) : j \in 1..M \/ j = M + 1
      /\ \A j \in 0..(M + 1) : j \in 0..M \/ j = M + 1
      /\ \A i \in 1..k : i \in 1..(k - 1) \/ i = k
      /\ \A i \in 1..(k - 1) : i \in 1..k /\ i < k
      /\ \A j \in 0..M : j = 0 \/ j \in 1..M
      /\ k \in 0..n /\ k - 1 \in 0..n /\ (M + 1) - 1 = M
      /\ \A j \in 1..M : j < M + 1 /\ j \in 1..(M + 1)
  BY <1>2
<1>6. \A j \in 1..(M + 1) : s1[j] \in 1..k /\ q[s1[j]].type = "BUY"
  BY <1>3, <1>4, <1>5
<1>7. \A i, j \in 1..(M + 1) : i < j => s1[i] < s1[j]
  <2> SUFFICES ASSUME NEW i \in 1..(M + 1), NEW j \in 1..(M + 1), i < j PROVE s1[i] < s1[j]
    OBVIOUS
  <2>1. i \in 1..M
    BY <1>2
  <2> QED
    BY <1>3, <1>4, <1>5, <2>1
<1>8. \A j \in 0..(M + 1) : E1[j] \in Nat
  <2>1. B[k] \in Nat /\ E[0] \in Nat /\ E1[0] = E[0]
    BY <1>1, <1>2, <1>3, <1>4, <1>5
  <2> QED
    BY <1>3, <1>4, <1>5, <2>1
<1>9. E1[0] = S[k] /\ E1[M + 1] = B[k]
  BY <1>1, <1>3, <1>4
<1>10. ASSUME NEW j \in 1..(M + 1)
       PROVE  /\ E1[j] = B[s1[j]] /\ E1[j - 1] < E1[j]
              /\ B[s1[j] - 1] <= E1[j - 1]
              /\ j > 1 => B[s1[j] - 1] = E1[j - 1]
              /\ more[j].qty > 0 /\ Same(more[j].qty, E1[j] - E1[j - 1], d[k], m[k])
              /\ B[s1[j] - 1] = E1[j - 1]
                   => more[j].cost = (q[s1[j]].gross + q[s1[j]].fee) * Cent
  <2>1. CASE j \in 1..M
    <3>1. s1[j] = s[j] /\ E1[j] = E[j] /\ E1[j - 1] = E[j - 1] /\ more[j] = lots[j]
      BY <1>2, <1>4, <2>1
    <3>2. d[k - 1] = d[k] /\ m[k - 1] = m[k]
      BY <1>1
    <3> QED
      BY <1>3, <2>1, <3>1, <3>2
  <2>2. CASE j = M + 1
    <3>1. s1[j] = k /\ E1[j] = B[k] /\ E1[j - 1] = B[k - 1] /\ more[j] = lot
      BY <1>2, <1>3, <1>4, <1>5, <2>2
    <3>2. B[k - 1] \in Nat /\ B[k - 1] < B[k] /\ B[k] - B[k - 1] = w[k]
      BY <1>1, <1>5
    <3> QED
      BY <1>1, <3>1, <3>2
  <2> QED
    BY <1>5, <2>1, <2>2
<1>11. ASSUME NEW i \in 1..k, q[i].type = "BUY"
       PROVE  S[k] < B[i] <=> \E j \in 1..(M + 1) : s1[j] = i
  <2>1. CASE i \in 1..(k - 1)
    <3>1. S[k] < B[i] <=> \E j \in 1..M : s[j] = i
      BY <1>1, <1>3, <1>11, <2>1
    <3>2. i # k
      BY <1>5, <2>1
    <3> QED
      BY <1>4, <1>5, <3>1, <3>2
  <2>2. CASE i = k
    <3>1. S[k] <= B[k - 1]
      BY <1>1, <1>5, StackHolds
    <3>2. S[k] < B[k]
      BY <1>1, <1>5, <3>1
    <3>3. M + 1 \in 1..(M + 1)
      BY <1>2
    <3> QED
      BY <1>4, <2>2, <3>2, <3>3
  <2> QED
    BY <1>5, <2>1, <2>2
<1>12. Stacked(q, B, S, d, m, k, more, s1, E1)
  BY <1>2, <1>6, <1>7, <1>8, <1>9, <1>10, <1>11 DEF Stacked
<1> QED
  BY <1>12 DEF more

\* A split stretches every lot alike.
LEMMA SplitStacks ==
    ASSUME NEW t, NEW q, NEW n \in Nat, NEW w, NEW B, NEW S, NEW d, NEW m,
           Stated(t, q, n, w, B, S, d, m), NEW k \in 1..n, q[k].type = "SPLIT",
           q[k].ratio \in Nat \ {0},
           NEW lots \in Seq(Lots), NEW s, NEW E, Stacked(q, B, S, d, m, k - 1, lots, s, E),
           NEW scaled, Len(scaled) = Len(lots),
           \A j \in 1..Len(lots) : /\ scaled[j].qty = (lots[j].qty * q[k].ratio) \div RatioUnit
                                   /\ scaled[j].cost = lots[j].cost
    PROVE  Stacked(q, B, S, d, m, k, scaled, s, E)
<1> DEFINE M == Len(lots)
<1>1. /\ B[k] = B[k - 1] /\ S[k] = S[k - 1]
      /\ d[k - 1] = d[k] * RatioUnit /\ m[k - 1] = m[k] * q[k].ratio
      /\ d[k] \in Nat \ {0} /\ m[k] \in Nat \ {0}
  BY DEF Stated
<1>2. M \in Nat /\ Len(scaled) = M
  OBVIOUS
<1>3. /\ \A j \in 1..M : s[j] \in 1..(k - 1) /\ q[s[j]].type = "BUY"
      /\ \A i, j \in 1..M : i < j => s[i] < s[j]
      /\ \A j \in 0..M : E[j] \in Nat
      /\ E[0] = S[k - 1] /\ E[M] = B[k - 1]
      /\ \A j \in 1..M :
           /\ E[j] = B[s[j]] /\ E[j - 1] < E[j]
           /\ B[s[j] - 1] <= E[j - 1]
           /\ j > 1 => B[s[j] - 1] = E[j - 1]
           /\ lots[j].qty > 0 /\ Same(lots[j].qty, E[j] - E[j - 1], d[k - 1], m[k - 1])
           /\ B[s[j] - 1] = E[j - 1] => lots[j].cost = (q[s[j]].gross + q[s[j]].fee) * Cent
      /\ \A i \in 1..(k - 1) :
           q[i].type = "BUY" => (S[k - 1] < B[i] <=> \E j \in 1..M : s[j] = i)
  BY DEF Stacked
<1>4. \A j \in 1..M : /\ scaled[j].qty = (lots[j].qty * q[k].ratio) \div RatioUnit
                      /\ scaled[j].cost = lots[j].cost
  OBVIOUS
<1> HIDE DEF M
<1>5. ASSUME NEW j \in 1..M
      PROVE  scaled[j].qty > 0 /\ Same(scaled[j].qty, E[j] - E[j - 1], d[k], m[k])
  <2>1. Same(lots[j].qty, E[j] - E[j - 1], d[k] * RatioUnit, m[k] * q[k].ratio)
    BY <1>1, <1>3
  <2>2. Same((lots[j].qty * q[k].ratio) \div RatioUnit, E[j] - E[j - 1], d[k], m[k])
    BY <1>1, <2>1, SameSplit
  <2>3. Same(scaled[j].qty, E[j] - E[j - 1], d[k], m[k])
    BY <1>4, <2>2
  <2>4. Same(0, 0, d[k], m[k])
    <3>1. 0 \in Nat /\ 0 = 0 * d[k] /\ 0 = 0 * m[k]
      BY <1>1
    <3> QED
      BY <3>1 DEF Same
  <2>5. 0 < E[j] - E[j - 1]
    <3>1. j \in 0..M /\ j - 1 \in 0..M
      BY <1>2
    <3> QED
      BY <1>3, <3>1
  <2>6. 0 < scaled[j].qty <=> 0 < E[j] - E[j - 1]
    BY <1>1, <2>3, <2>4, SameOrder
  <2>7. scaled[j].qty \in Nat
    BY <1>1, <2>3, SameTyped
  <2> QED
    BY <2>3, <2>5, <2>6, <2>7
<1>6. /\ \A i \in 1..k : i \in 1..(k - 1) \/ i = k
      /\ \A i \in 1..(k - 1) : i \in 1..k
  OBVIOUS
<1>7. ASSUME NEW i \in 1..k, q[i].type = "BUY"
      PROVE  S[k] < B[i] <=> \E j \in 1..M : s[j] = i
  <2>1. i \in 1..(k - 1)
    BY <1>6, <1>7
  <2> QED
    BY <1>1, <1>3, <1>7, <2>1
<1> QED
  <2>1. /\ \A j \in 1..M : s[j] \in 1..k /\ q[s[j]].type = "BUY"
        /\ \A i, j \in 1..M : i < j => s[i] < s[j]
        /\ \A j \in 0..M : E[j] \in Nat
        /\ E[0] = S[k] /\ E[M] = B[k]
    BY <1>1, <1>3, <1>6
  <2>2. \A j \in 1..M :
           /\ E[j] = B[s[j]] /\ E[j - 1] < E[j]
           /\ B[s[j] - 1] <= E[j - 1]
           /\ j > 1 => B[s[j] - 1] = E[j - 1]
           /\ scaled[j].qty > 0 /\ Same(scaled[j].qty, E[j] - E[j - 1], d[k], m[k])
           /\ B[s[j] - 1] = E[j - 1] => scaled[j].cost = (q[s[j]].gross + q[s[j]].fee) * Cent
    BY <1>3, <1>4, <1>5
  <2> QED
    BY <1>2, <1>7, <2>1, <2>2 DEF Stacked

\* A sale covers the stack up to where the sales end now.
LEMMA SaleStacks ==
    ASSUME NEW t, NEW q, NEW n \in Nat, NEW w, NEW B, NEW S, NEW d, NEW m,
           Stated(t, q, n, w, B, S, d, m), NEW k \in 1..n, q[k].type = "SELL", S[k] <= B[k],
           NEW lots \in Seq(Lots), NEW s, NEW E, Stacked(q, B, S, d, m, k - 1, lots, s, E),
           NEW X, QtyRuns(lots, X), NEW C, CostRuns(lots, C), NEW sale, NEW f, NEW uc,
           Leaves(sale, lots, q[k].qty * QStep, X, C, f, uc)
    PROVE  \E s1, E1 : Stacked(q, B, S, d, m, k, sale.lots, s1, E1)
<1> DEFINE M == Len(lots)
           requested == q[k].qty * QStep
           L == Len(sale.lots)
           s1 == [j \in 1..L |-> s[f + j]]
           E1 == [j \in 0..L |-> IF j = 0 THEN S[k] ELSE E[f + j]]
<1>1. /\ B[k] = B[k - 1] /\ S[k] = S[k - 1] + w[k]
      /\ d[k - 1] = d[k] /\ m[k - 1] = m[k] /\ w[k] \in Nat \ {0}
      /\ Same(requested, w[k], d[k], m[k])
      /\ \A i \in 0..n : B[i] \in Nat /\ S[i] \in Nat
      /\ d[k] \in Nat \ {0} /\ m[k] \in Nat \ {0}
  <2>1. q[k].type \in TradeTypes /\ k \in 0..n
    BY DEF TradeTypes
  <2>2. \A i \in 0..n : B[i] \in Nat /\ S[i] \in Nat
    BY DEF Stated
  <2> HIDE DEF requested
  <2>3. B[k] = B[k - 1] /\ S[k] = S[k - 1] + w[k] /\ d[k] \in Nat \ {0} /\ m[k] \in Nat \ {0}
    BY <2>1 DEF Stated
  <2>4. d[k - 1] = d[k] /\ m[k - 1] = m[k] /\ w[k] \in Nat \ {0}
        /\ Same(q[k].qty * QStep, w[k], d[k], m[k])
    BY <2>1 DEF Stated
  <2> QED
    BY <2>2, <2>3, <2>4 DEF requested
<1>2. /\ f \in 0..M /\ uc \in Int
      /\ X[f] <= requested
      /\ f < M => requested < X[f + 1]
      /\ requested = X[f] => uc = 0
      /\ L = M - f
      /\ \A i \in 1..(M - f) :
           sale.lots[i] = IF i = 1 THEN [qty |-> X[f + 1] - requested, cost |-> lots[f + 1].cost - uc]
                                   ELSE lots[f + i]
  BY DEF Leaves
<1>3. /\ \A j \in 1..M : s[j] \in 1..(k - 1) /\ q[s[j]].type = "BUY"
      /\ \A i, j \in 1..M : i < j => s[i] < s[j]
      /\ \A j \in 0..M : E[j] \in Nat
      /\ E[0] = S[k - 1] /\ E[M] = B[k - 1]
      /\ \A j \in 1..M :
           /\ E[j] = B[s[j]] /\ E[j - 1] < E[j]
           /\ B[s[j] - 1] <= E[j - 1]
           /\ j > 1 => B[s[j] - 1] = E[j - 1]
           /\ lots[j].qty > 0 /\ Same(lots[j].qty, E[j] - E[j - 1], d[k - 1], m[k - 1])
           /\ B[s[j] - 1] = E[j - 1] => lots[j].cost = (q[s[j]].gross + q[s[j]].fee) * Cent
      /\ \A i \in 1..(k - 1) :
           q[i].type = "BUY" => (S[k - 1] < B[i] <=> \E j \in 1..M : s[j] = i)
  BY DEF Stacked
<1>31. \A j \in 1..M : s[j] \in 1..(k - 1) /\ q[s[j]].type = "BUY"
  BY <1>3
<1>32. \A i, j \in 1..M : i < j => s[i] < s[j]
  BY <1>3
<1>33. \A j \in 0..M : E[j] \in Nat
  BY <1>3
<1>34. E[0] = S[k] - w[k] /\ E[M] = B[k]
  <2>1. k - 1 \in 0..n /\ k \in 0..n
    OBVIOUS
  <2>2. S[k - 1] \in Nat /\ S[k] = S[k - 1] + w[k] /\ w[k] \in Nat /\ B[k] = B[k - 1]
    BY <1>1, <2>1
  <2>3. E[0] = S[k - 1] /\ E[M] = B[k - 1]
    BY <1>3
  <2> QED
    BY <2>2, <2>3
<1>35. \A j \in 1..M :
         /\ E[j] = B[s[j]] /\ E[j - 1] < E[j]
         /\ B[s[j] - 1] <= E[j - 1]
         /\ j > 1 => B[s[j] - 1] = E[j - 1]
         /\ lots[j].qty > 0 /\ Same(lots[j].qty, E[j] - E[j - 1], d[k], m[k])
         /\ B[s[j] - 1] = E[j - 1] => lots[j].cost = (q[s[j]].gross + q[s[j]].fee) * Cent
  <2>1. d[k - 1] = d[k] /\ m[k - 1] = m[k]
    BY <1>1
  <2> QED
    BY <1>3, <2>1
<1>4. /\ M \in Nat
      /\ \A j \in 1..M : lots[j] \in Lots
  OBVIOUS
<1>5. \A j \in 0..M : Same(X[j], E[j] - E[0], d[k], m[k])
  BY <1>1, <1>3, RunsSame
<1>6. \A j \in 1..M : lots[j].cost \in Int
  BY <1>4 DEF Lots
<1> HIDE DEF M, requested, L
<1>7. /\ \A j \in 1..L : s1[j] = s[f + j] /\ E1[j] = E[f + j]
      /\ E1[0] = S[k]
      /\ \A j \in 1..L : E1[j - 1] = IF j = 1 THEN S[k] ELSE E[f + (j - 1)]
  <2>1. \A j \in 1..L : j \in 0..L /\ j # 0 /\ j - 1 \in 0..L /\ (j - 1 = 0 <=> j = 1)
    BY <1>2, <1>4
  <2>2. 0 \in 0..L
    BY <1>2, <1>4
  <2> QED
    BY <2>1, <2>2
<1> HIDE DEF s1, E1
<1>8. /\ L \in Nat /\ f \in Nat
      /\ \A j \in 1..L : f + j \in 1..M /\ (f + j) - 1 = f + (j - 1) /\ f + (j - 1) \in 0..M
                         /\ f + j \in 0..M /\ j \in 1..(M - f)
      /\ \A i \in 1..k : i \in 1..(k - 1) \/ i = k
      /\ \A i \in 1..(k - 1) : i \in 1..k /\ i \in 0..n /\ i - 1 \in 0..n
      /\ k \in 0..n /\ k - 1 \in 0..n
  BY <1>2, <1>4
\* The stack and the sales, compared in the units of the last split.
<1>9. E[f] <= S[k] /\ (requested = X[f] <=> E[f] = S[k])
  <2>1. f \in 0..M /\ 0 \in 0..M
    BY <1>2, <1>4
  <2>2. Same(X[f], E[f] - E[0], d[k], m[k])
    BY <1>5, <2>1
  <2>3. /\ X[f] <= requested <=> E[f] - E[0] <= w[k]
        /\ X[f] = requested <=> E[f] - E[0] = w[k]
    BY <1>1, <2>2, SameOrder
  <2>4. E[f] \in Nat /\ E[0] \in Nat /\ w[k] \in Nat /\ S[k] \in Nat
    BY <1>1, <1>8, <1>33, <2>1
  <2>5. X[f] <= requested
    BY <1>2
  <2> QED
    BY <1>34, <2>3, <2>4, <2>5
<1>10. ASSUME f < M PROVE S[k] < E[f + 1] /\ Same(X[f + 1] - requested, E[f + 1] - S[k], d[k], m[k])
  <2>1. f + 1 \in 0..M /\ 0 \in 0..M
    BY <1>2, <1>4, <1>10
  <2>2. Same(X[f + 1], E[f + 1] - E[0], d[k], m[k])
    BY <1>5, <2>1
  <2>3. requested < X[f + 1] <=> w[k] < E[f + 1] - E[0]
    BY <1>1, <2>2, SameOrder
  <2>4. E[f + 1] \in Nat /\ E[0] \in Nat /\ w[k] \in Nat /\ S[k] \in Nat
    BY <1>1, <1>8, <1>33, <2>1
  <2>5. requested \in Nat /\ X[f + 1] \in Nat
    BY <1>1, <2>2, SameTyped
  <2>6. requested <= X[f + 1]
    BY <1>2, <1>10, <2>5
  <2>7. Same(X[f + 1] - requested, (E[f + 1] - E[0]) - w[k], d[k], m[k])
    BY <1>1, <2>2, <2>6, SameDifference
  <2>8. (E[f + 1] - E[0]) - w[k] = E[f + 1] - S[k]
    BY <1>34, <2>4
  <2>9. requested < X[f + 1]
    BY <1>2, <1>10
  <2>10. S[k] < E[f + 1]
    BY <1>34, <2>3, <2>4, <2>9
  <2> QED
    BY <2>7, <2>8, <2>10
<1>11. \A i, j \in 0..M : i < j => E[i] < E[j]
  <2>1. \A j \in 1..M : E[j - 1] < E[j]
    BY <1>35
  <2> QED
    BY <1>4, <1>33, <2>1, Climbs
<1>12. \A j \in 1..L : s1[j] \in 1..k /\ q[s1[j]].type = "BUY"
  <2> SUFFICES ASSUME NEW j \in 1..L PROVE s1[j] \in 1..k /\ q[s1[j]].type = "BUY"
    OBVIOUS
  <2>1. f + j \in 1..M
    BY <1>8
  <2>2. s[f + j] \in 1..(k - 1) /\ q[s[f + j]].type = "BUY"
    BY <1>31, <2>1
  <2> QED
    BY <1>7, <1>8, <2>2
<1>13. \A i, j \in 1..L : i < j => s1[i] < s1[j]
  <2> SUFFICES ASSUME NEW i \in 1..L, NEW j \in 1..L, i < j PROVE s1[i] < s1[j]
    OBVIOUS
  <2>1. f + i \in 1..M /\ f + j \in 1..M
    BY <1>8
  <2>2. f + i < f + j
    BY <1>8
  <2> QED
    BY <1>7, <1>32, <2>1, <2>2
<1>14. \A j \in 0..L : E1[j] \in Nat
  <2>1. \A j \in 0..L : j = 0 \/ j \in 1..L
    BY <1>8
  <2>2. S[k] \in Nat
    BY <1>1, <1>8
  <2> SUFFICES ASSUME NEW j \in 1..L PROVE E1[j] \in Nat
    BY <1>7, <2>1, <2>2
  <2>3. f + j \in 0..M
    BY <1>8
  <2> QED
    BY <1>7, <1>33, <2>3
<1>15. E1[L] = B[k]
  <2>1. CASE f = M
    <3>1. L = 0 /\ E1[L] = S[k]
      BY <1>2, <1>7, <2>1
    <3>2. E[f] = B[k]
      BY <1>34, <2>1
    <3>3. S[k] \in Nat /\ B[k] \in Nat
      BY <1>1, <1>8
    <3> QED
      BY <1>9, <3>1, <3>2, <3>3
  <2>2. CASE f # M
    <3>1. L \in 1..L /\ f + L = M
      <4>1. f \in 0..M /\ L = M - f /\ M \in Nat
        BY <1>2, <1>4
      <4> QED
        BY <2>2, <4>1
    <3> QED
      BY <1>7, <1>34, <3>1
  <2> QED
    BY <2>1, <2>2
<1>16. ASSUME NEW j \in 1..L
       PROVE  /\ E1[j] = B[s1[j]] /\ E1[j - 1] < E1[j]
              /\ B[s1[j] - 1] <= E1[j - 1]
              /\ j > 1 => B[s1[j] - 1] = E1[j - 1]
              /\ sale.lots[j].qty > 0 /\ Same(sale.lots[j].qty, E1[j] - E1[j - 1], d[k], m[k])
              /\ B[s1[j] - 1] = E1[j - 1]
                   => sale.lots[j].cost = (q[s1[j]].gross + q[s1[j]].fee) * Cent
  <2>0. f + j \in 1..M /\ (f + j) - 1 = f + (j - 1) /\ f + (j - 1) \in 0..M /\ f + j \in 0..M
        /\ j \in 1..(M - f) /\ f < M /\ f + 1 \in 1..M /\ f + 1 \in 0..M
    <3>1. f + j \in 1..M /\ (f + j) - 1 = f + (j - 1) /\ f + (j - 1) \in 0..M /\ f + j \in 0..M
          /\ j \in 1..(M - f)
      BY <1>8
    <3> QED
      BY <1>4, <1>8, <3>1
  <2>1. /\ E[f + j] = B[s[f + j]] /\ E[f + (j - 1)] < E[f + j]
        /\ B[s[f + j] - 1] <= E[f + (j - 1)]
        /\ f + j > 1 => B[s[f + j] - 1] = E[f + (j - 1)]
        /\ lots[f + j].qty > 0
        /\ Same(lots[f + j].qty, E[f + j] - E[f + (j - 1)], d[k], m[k])
        /\ B[s[f + j] - 1] = E[f + (j - 1)]
             => lots[f + j].cost = (q[s[f + j]].gross + q[s[f + j]].fee) * Cent
    <3> DEFINE g == f + j
    <3>1. g \in 1..M /\ g - 1 = f + (j - 1)
      BY <2>0
    <3> HIDE DEF g
    <3>2. /\ E[g] = B[s[g]] /\ E[g - 1] < E[g]
          /\ B[s[g] - 1] <= E[g - 1]
          /\ g > 1 => B[s[g] - 1] = E[g - 1]
          /\ lots[g].qty > 0
          /\ Same(lots[g].qty, E[g] - E[g - 1], d[k], m[k])
          /\ B[s[g] - 1] = E[g - 1] => lots[g].cost = (q[s[g]].gross + q[s[g]].fee) * Cent
      BY <1>35, <3>1
    <3> QED
      BY <3>1, <3>2, Zenon DEF g
  <2>2. s1[j] = s[f + j] /\ E1[j] = E[f + j]
    BY <1>7
  <2>3. CASE j = 1
    <3>1. E1[j - 1] = S[k] /\ f + (j - 1) = f /\ f + j = f + 1
      BY <1>7, <1>8, <2>3
    <3>2. sale.lots[j] = [qty |-> X[f + 1] - requested, cost |-> lots[f + 1].cost - uc]
      BY <1>2, <2>0, <2>3
    <3>3. S[k] < E[f + 1] /\ Same(X[f + 1] - requested, E[f + 1] - S[k], d[k], m[k])
      BY <1>10, <2>0
    <3>4. sale.lots[j].qty = X[f + 1] - requested /\ sale.lots[j].cost = lots[f + 1].cost - uc
      BY <3>2
    <3>5. X[f + 1] - requested > 0
      <4>1. Same(0, 0, d[k], m[k])
        <5>1. 0 \in Nat /\ 0 = 0 * d[k] /\ 0 = 0 * m[k]
          BY <1>1
        <5> QED
          BY <5>1 DEF Same
      <4>2. 0 < X[f + 1] - requested <=> 0 < E[f + 1] - S[k]
        <5> DEFINE x == X[f + 1] - requested
                   u == E[f + 1] - S[k]
        <5>1. Same(x, u, d[k], m[k]) /\ d[k] \in Nat \ {0} /\ m[k] \in Nat \ {0}
          BY <1>1, <3>3
        <5> HIDE DEF x, u
        <5>2. 0 < x <=> 0 < u
          BY <4>1, <5>1, SameOrder
        <5> QED
          BY <5>2 DEF x, u
      <4>3. E[f + 1] \in Nat /\ S[k] \in Nat /\ X[f + 1] - requested \in Nat
        <5>1. E[f + 1] \in Nat
          BY <1>33, <2>0
        <5>2. X[f + 1] - requested \in Nat
          BY <1>1, <3>3, SameTyped
        <5> QED
          BY <1>1, <1>8, <5>1, <5>2
      <4> QED
        BY <3>3, <4>2, <4>3
    <3>6. s[f + 1] - 1 \in 0..n /\ B[s[f + 1] - 1] \in Nat /\ E[f] \in Nat /\ S[k] \in Nat
      <4>1. s[f + 1] \in 1..(k - 1)
        BY <1>31, <2>0
      <4>2. f \in 0..M
        BY <1>2
      <4> QED
        BY <1>1, <1>8, <1>33, <4>1, <4>2
    <3>7. B[s[f + 1] - 1] <= E[f] /\ E[f] <= S[k]
      BY <1>9, <2>1, <3>1
    <3>8. ASSUME B[s[f + 1] - 1] = S[k]
          PROVE  lots[f + 1].cost - uc = (q[s[f + 1]].gross + q[s[f + 1]].fee) * Cent
      <4>1. E[f] = S[k] /\ B[s[f + 1] - 1] = E[f]
        BY <3>6, <3>7, <3>8
      <4>2. uc = 0
        BY <1>2, <1>9, <4>1
      <4>3. lots[f + 1].cost \in Int
        BY <1>6, <2>0, <3>1
      <4>4. lots[f + 1].cost = (q[s[f + 1]].gross + q[s[f + 1]].fee) * Cent
        BY <2>1, <3>1, <4>1
      <4> QED
        BY <4>2, <4>3, <4>4
    <3>9. B[s[f + 1] - 1] <= S[k]
      BY <3>6, <3>7
    <3>10. E[f + 1] = B[s[f + 1]]
      BY <2>1, <3>1
    <3>11. s1[j] = s[f + 1] /\ E1[j] = E[f + 1]
      BY <2>2, <3>1
    <3> QED
      BY <2>3, <3>1, <3>3, <3>4, <3>5, <3>8, <3>9, <3>10, <3>11
  <2>4. CASE j # 1
    <3>1. E1[j - 1] = E[f + (j - 1)]
      BY <1>7, <2>4
    <3>2. sale.lots[j] = lots[f + j]
      BY <1>2, <2>0, <2>4
    <3>3. f + j > 1
      BY <1>8, <2>4
    <3> QED
      BY <2>1, <2>2, <3>1, <3>2, <3>3
  <2> QED
    BY <2>3, <2>4
<1>17. ASSUME NEW i \in 1..k, q[i].type = "BUY"
       PROVE  S[k] < B[i] <=> \E j \in 1..L : s1[j] = i
  <2>1. i \in 1..(k - 1) /\ B[i] \in Nat
    BY <1>1, <1>8, <1>17
  <2>2. S[k - 1] \in Nat /\ S[k] \in Nat /\ S[k - 1] < S[k]
    BY <1>1, <1>8
  <2>3. ASSUME S[k] < B[i] PROVE \E j \in 1..L : s1[j] = i
    <3>1. S[k - 1] < B[i]
      BY <2>1, <2>2, <2>3
    <3>2. PICK j \in 1..M : s[j] = i
      BY <1>3, <1>17, <2>1, <3>1
    <3>3. E[j] = B[i]
      BY <1>3, <3>2
    <3>4. f < j
      <4>1. j \in 0..M /\ f \in 0..M /\ (j < f \/ j = f \/ f < j)
        BY <1>2, <1>4
      <4>2. E[f] \in Nat /\ E[j] \in Nat
        BY <1>3, <4>1
      <4>3. E[f] < E[j]
        BY <1>9, <2>2, <2>3, <3>3, <4>2
      <4>4. j < f => E[j] < E[f]
        BY <1>11, <4>1
      <4> QED
        BY <4>1, <4>2, <4>3, <4>4
    <3>5. j - f \in 1..L /\ f + (j - f) = j
      BY <1>2, <1>4, <1>8, <3>4
    <3> QED
      BY <1>7, <3>2, <3>5
  <2>4. ASSUME NEW j \in 1..L, s1[j] = i PROVE S[k] < B[i]
    <3>1. f + j \in 1..M /\ f + j \in 0..M /\ f < M /\ f + 1 \in 0..M
      BY <1>2, <1>4, <1>8
    <3>2. E[f + j] = B[i]
      BY <1>7, <1>35, <2>4, <3>1
    <3>3. S[k] < E[f + 1]
      BY <1>10, <3>1
    <3>4. E[f + 1] \in Nat /\ E[f + j] \in Nat
      BY <1>33, <3>1
    <3>5. f + 1 = f + j \/ E[f + 1] < E[f + j]
      <4>1. f + 1 = f + j \/ f + 1 < f + j
        BY <1>8
      <4> QED
        BY <1>11, <3>1, <4>1
    <3> QED
      BY <2>2, <3>2, <3>3, <3>4, <3>5
  <2> QED
    BY <2>3, <2>4
<1>18. Stacked(q, B, S, d, m, k, sale.lots, s1, E1)
  BY <1>7, <1>12, <1>13, <1>14, <1>15, <1>16, <1>17 DEF Stacked, L
<1> QED
  BY <1>18

-----------------------------------------------------------------------------
(* The replay keeps the books of a ticker.                                  *)

\* One lot more adds its cost.
LEMMA CostAppended ==
    ASSUME NEW lots \in Seq(Lots), NEW lot \in Lots
    PROVE  CostOf(Append(lots, lot)) = CostOf(lots) + lot.cost
<1> DEFINE M == Len(lots)
           more == Append(lots, lot)
<1>1. PICK C : CostRuns(lots, C) /\ C[M] = CostOf(lots)
  BY CostOfRuns
<1>2. M \in Nat /\ more \in Seq(Lots) /\ Len(more) = M + 1 /\ more[M + 1] = lot
      /\ \A j \in 1..M : more[j] = lots[j]
  BY Appended
<1>3. /\ \A j \in 0..M : C[j] \in Int
      /\ C[0] = 0
      /\ \A j \in 1..M : C[j] = C[j - 1] + lots[j].cost
  BY <1>1 DEF CostRuns
<1>4. lot.cost \in Int
  BY DEF Lots
<1> HIDE DEF M, more
<1> DEFINE r == [j \in 0..(M + 1) |-> IF j = M + 1 THEN C[M] + lot.cost ELSE C[j]]
<1>5. /\ \A j \in 0..M : r[j] = C[j]
      /\ r[M + 1] = C[M] + lot.cost
  BY <1>2
<1>6. r \in [0..(M + 1) -> Int]
  <2>1. \A j \in 0..(M + 1) : j = M + 1 \/ j \in 0..M
    BY <1>2
  <2>2. C[M] + lot.cost \in Int
    BY <1>2, <1>3, <1>4
  <2> QED
    BY <1>3, <2>1, <2>2
<1> HIDE DEF r
<1>7. \A j \in 1..(M + 1) : r[j] = r[j - 1] + more[j].cost
  <2> SUFFICES ASSUME NEW j \in 1..(M + 1) PROVE r[j] = r[j - 1] + more[j].cost
    OBVIOUS
  <2>1. CASE j \in 1..M
    <3>1. j \in 0..M /\ j - 1 \in 0..M
      BY <1>2, <2>1
    <3> QED
      BY <1>2, <1>3, <1>5, <2>1, <3>1
  <2>2. CASE j = M + 1
    <3>1. j - 1 = M /\ M \in 0..M
      BY <1>2, <2>2
    <3> QED
      BY <1>2, <1>5, <2>2, <3>1
  <2> QED
    BY <1>2, <2>1, <2>2
<1>8. r[0] = 0
  BY <1>2, <1>3, <1>5
<1>9. CostRuns(more, r)
  BY <1>2, <1>6, <1>7, <1>8 DEF CostRuns
<1>10. r[Len(more)] = CostOf(more)
  BY <1>2, <1>9, CostRunsOnly
<1> QED
  BY <1>1, <1>2, <1>5, <1>10 DEF more

\* Lots whose quantities alone have changed cost the same.
LEMMA CostKept ==
    ASSUME NEW lots \in Seq(Lots), NEW scaled \in Seq(Lots), Len(scaled) = Len(lots),
           \A j \in 1..Len(lots) : scaled[j].cost = lots[j].cost
    PROVE  CostOf(scaled) = CostOf(lots)
<1>1. PICK C : CostRuns(lots, C) /\ C[Len(lots)] = CostOf(lots)
  BY CostOfRuns
<1>2. CostRuns(scaled, C)
  BY <1>1 DEF CostRuns
<1> QED
  BY <1>1, <1>2, CostRunsOnly

\* Costs and quantities of lots are numbers.
LEMMA CostTyped ==
    ASSUME NEW lots \in Seq(Lots)
    PROVE  CostOf(lots) \in Int /\ QtyOf(lots) \in Nat
<1>1. PICK C : CostRuns(lots, C) /\ C[Len(lots)] = CostOf(lots)
  BY CostOfRuns
<1>2. PICK X : QtyRuns(lots, X) /\ X[Len(lots)] = QtyOf(lots)
  BY QtyOfRuns
<1>3. Len(lots) \in 0..Len(lots)
  OBVIOUS
<1> QED
  BY <1>1, <1>2, <1>3 DEF CostRuns, QtyRuns

\* What the trades up to an entry have cost.
Paid(q, n, paid) ==
    /\ paid[0] = 0
    /\ \A k \in 0..n : paid[k] \in Int
    /\ \A k \in 1..n :
         /\ q[k].type = "BUY" => paid[k] = paid[k - 1] + (q[k].gross + q[k].fee) * Cent
         /\ q[k].type = "SELL" => paid[k] = paid[k - 1] - (q[k].gross - q[k].fee) * Cent
         /\ q[k].type = "SPLIT" => paid[k] = paid[k - 1]

\* What the replay up to the k-th entry comes to.
Kept(q, B, S, d, m, paid, k, pos) ==
    /\ pos.oversold = {} <=> Covered(q, B, S, k)
    /\ Covered(q, B, S, k) =>
         /\ pos.undefined = FALSE
         /\ \E s, E : Stacked(q, B, S, d, m, k, pos.lots, s, E)
         /\ CostOf(pos.lots) = pos.realized + paid[k]

\* Only a sale can be one of too much.
LEMMA CoveredStep ==
    ASSUME NEW n \in Nat, NEW k \in 1..n, NEW q, NEW B, NEW S
    PROVE  /\ q[k].type # "SELL" => (Covered(q, B, S, k) <=> Covered(q, B, S, k - 1))
           /\ q[k].type = "SELL" =>
                (Covered(q, B, S, k) <=> Covered(q, B, S, k - 1) /\ S[k] <= B[k])
<1>1. /\ \A i \in 1..k : i \in 1..(k - 1) \/ i = k
      /\ \A i \in 1..(k - 1) : i \in 1..k
      /\ k \in 1..k
  OBVIOUS
<1> QED
  BY <1>1 DEF Covered

\* A purchase keeps it: the new lot is laid on the stack with its cost,
LEMMA KeptByBuy ==
    ASSUME Booked(ledger), NEW t, NEW q, NEW n, NEW r, Replayed(t, q, n, r),
           NEW w, NEW B, NEW S, NEW d, NEW m, Stated(t, q, n, w, B, S, d, m),
           NEW paid, Paid(q, n, paid), NEW k \in 1..n, q[k].type = "BUY",
           Kept(q, B, S, d, m, paid, k - 1, r[k - 1])
    PROVE  Kept(q, B, S, d, m, paid, k, r[k])
<1> DEFINE pos == r[k - 1]
           lot == [qty |-> q[k].qty * QStep, cost |-> (q[k].gross + q[k].fee) * Cent]
<1>1. /\ n \in Nat /\ q[k] \in TradesOf(ledger, t) /\ pos \in PositionType
      /\ r[k] = Traded(pos, q[k])
  <2>1. n \in Nat
    BY DEF Replayed
  <2>2. k - 1 \in 0..n
    BY <2>1
  <2> QED
    BY <2>1, <2>2 DEF Replayed, Lists
<1>2. /\ q[k].qty * QStep \in Nat \ {0} /\ (q[k].gross + q[k].fee) * Cent \in Int
  BY <1>1, EntryTyped
<1>3. lot \in Lots /\ lot.qty = q[k].qty * QStep /\ lot.qty > 0
      /\ lot.cost = (q[k].gross + q[k].fee) * Cent
  BY <1>2 DEF Lots
<1>4. /\ r[k].lots = Append(pos.lots, lot) /\ r[k].realized = pos.realized
      /\ r[k].oversold = pos.oversold /\ r[k].undefined = pos.undefined
  <2>1. r[k] = [lots |-> Append(pos.lots, lot), realized |-> pos.realized,
                oversold |-> pos.oversold, undefined |-> pos.undefined]
    BY <1>1, TradedBuy
  <2> HIDE DEF pos, lot
  <2> QED
    BY <2>1
<1>5. pos.lots \in Seq(Lots) /\ pos.realized \in Int
  BY <1>1, PositionIs
<1>6. Kept(q, B, S, d, m, paid, k - 1, pos)
  OBVIOUS
<1> HIDE DEF pos, lot
<1>7. Covered(q, B, S, k) <=> Covered(q, B, S, k - 1)
  BY <1>1, CoveredStep
<1>8. ASSUME Covered(q, B, S, k)
      PROVE  /\ r[k].undefined = FALSE
             /\ \E s, E : Stacked(q, B, S, d, m, k, r[k].lots, s, E)
             /\ CostOf(r[k].lots) = r[k].realized + paid[k]
  <2>1. /\ pos.undefined = FALSE
        /\ \E s, E : Stacked(q, B, S, d, m, k - 1, pos.lots, s, E)
        /\ CostOf(pos.lots) = pos.realized + paid[k - 1]
    BY <1>6, <1>7, <1>8 DEF Kept
  <2>2. PICK s, E : Stacked(q, B, S, d, m, k - 1, pos.lots, s, E)
    BY <2>1
  <2>3. \E s1, E1 : Stacked(q, B, S, d, m, k, Append(pos.lots, lot), s1, E1)
    BY <1>1, <1>3, <1>5, <2>2, BuyStacks
  <2>4. CostOf(r[k].lots) = CostOf(pos.lots) + lot.cost
    BY <1>3, <1>4, <1>5, CostAppended
  <2>5. paid[k] = paid[k - 1] + lot.cost /\ paid[k - 1] \in Int /\ lot.cost \in Int
    <3>1. k - 1 \in 0..n
      BY <1>1
    <3> QED
      BY <1>2, <1>3, <3>1 DEF Paid
  <2>6. CostOf(r[k].lots) = r[k].realized + paid[k]
    BY <1>4, <1>5, <2>1, <2>4, <2>5
  <2> QED
    BY <1>4, <2>1, <2>3, <2>6
<1>9. r[k].oversold = {} <=> Covered(q, B, S, k)
  BY <1>4, <1>6, <1>7 DEF Kept
<1> QED
  BY <1>8, <1>9 DEF Kept

\* so does a split, which stretches the stack,
LEMMA KeptBySplit ==
    ASSUME Booked(ledger), NEW t, NEW q, NEW n, NEW r, Replayed(t, q, n, r),
           NEW w, NEW B, NEW S, NEW d, NEW m, Stated(t, q, n, w, B, S, d, m),
           NEW paid, Paid(q, n, paid), NEW k \in 1..n, q[k].type = "SPLIT",
           Kept(q, B, S, d, m, paid, k - 1, r[k - 1])
    PROVE  Kept(q, B, S, d, m, paid, k, r[k])
<1> DEFINE pos == r[k - 1]
           scaled == [i \in DOMAIN pos.lots |->
                        [qty |-> (pos.lots[i].qty * q[k].ratio) \div RatioUnit,
                         cost |-> pos.lots[i].cost]]
<1>1. /\ n \in Nat /\ q[k] \in TradesOf(ledger, t) /\ pos \in PositionType
      /\ r[k] = Traded(pos, q[k])
  <2>1. n \in Nat
    BY DEF Replayed
  <2>2. k - 1 \in 0..n
    BY <2>1
  <2> QED
    BY <2>1, <2>2 DEF Replayed, Lists
<1>2. q[k].ratio \in Nat \ {0}
  BY <1>1, EntryTyped
<1>3. pos.lots \in Seq(Lots) /\ pos.realized \in Int
  BY <1>1, PositionIs
<1>4. /\ r[k].lots = scaled /\ r[k].realized = pos.realized
      /\ r[k].oversold = pos.oversold /\ r[k].undefined = pos.undefined
  <2>1. r[k] = [lots |-> scaled, realized |-> pos.realized,
                oversold |-> pos.oversold, undefined |-> pos.undefined]
    BY <1>1, TradedSplit
  <2> HIDE DEF pos, scaled
  <2> QED
    BY <2>1
<1>5. /\ scaled \in Seq(Lots) /\ Len(scaled) = Len(pos.lots)
      /\ \A i \in 1..Len(pos.lots) :
           scaled[i] = [qty |-> (pos.lots[i].qty * q[k].ratio) \div RatioUnit,
                        cost |-> pos.lots[i].cost]
  BY <1>2, <1>3, SplitLots
<1>6. Kept(q, B, S, d, m, paid, k - 1, pos)
  OBVIOUS
<1> HIDE DEF pos, scaled
<1>7. \A i \in 1..Len(pos.lots) : /\ scaled[i].qty = (pos.lots[i].qty * q[k].ratio) \div RatioUnit
                                  /\ scaled[i].cost = pos.lots[i].cost
  <2> SUFFICES ASSUME NEW i \in 1..Len(pos.lots)
               PROVE  /\ scaled[i].qty = (pos.lots[i].qty * q[k].ratio) \div RatioUnit
                      /\ scaled[i].cost = pos.lots[i].cost
    OBVIOUS
  <2>1. scaled[i] = [qty |-> (pos.lots[i].qty * q[k].ratio) \div RatioUnit,
                     cost |-> pos.lots[i].cost]
    BY <1>5
  <2> QED
    BY <2>1
<1>8. Covered(q, B, S, k) <=> Covered(q, B, S, k - 1)
  BY <1>1, CoveredStep
<1>9. ASSUME Covered(q, B, S, k)
      PROVE  /\ r[k].undefined = FALSE
             /\ \E s, E : Stacked(q, B, S, d, m, k, r[k].lots, s, E)
             /\ CostOf(r[k].lots) = r[k].realized + paid[k]
  <2>1. /\ pos.undefined = FALSE
        /\ \E s, E : Stacked(q, B, S, d, m, k - 1, pos.lots, s, E)
        /\ CostOf(pos.lots) = pos.realized + paid[k - 1]
    BY <1>6, <1>8, <1>9 DEF Kept
  <2>2. PICK s, E : Stacked(q, B, S, d, m, k - 1, pos.lots, s, E)
    BY <2>1
  <2>3. Stacked(q, B, S, d, m, k, scaled, s, E)
    BY <1>1, <1>2, <1>3, <1>5, <1>7, <2>2, SplitStacks
  <2>4. CostOf(scaled) = CostOf(pos.lots)
    BY <1>3, <1>5, <1>7, CostKept
  <2>5. paid[k] = paid[k - 1]
    BY DEF Paid
  <2> QED
    BY <1>4, <2>1, <2>3, <2>4, <2>5
<1>10. r[k].oversold = {} <=> Covered(q, B, S, k)
  BY <1>4, <1>6, <1>8 DEF Kept
<1> QED
  BY <1>9, <1>10 DEF Kept

\* and a sale, which takes of it from below or is noted as oversold.
LEMMA KeptBySale ==
    ASSUME Booked(ledger), NEW t, NEW q, NEW n, NEW r, Replayed(t, q, n, r),
           NEW w, NEW B, NEW S, NEW d, NEW m, Stated(t, q, n, w, B, S, d, m),
           NEW paid, Paid(q, n, paid), NEW k \in 1..n, q[k].type = "SELL",
           Kept(q, B, S, d, m, paid, k - 1, r[k - 1])
    PROVE  Kept(q, B, S, d, m, paid, k, r[k])
<1> DEFINE pos == r[k - 1]
           requested == q[k].qty * QStep
           sale == Consume(pos.lots, requested)
<1>1. /\ n \in Nat /\ q[k] \in TradesOf(ledger, t) /\ pos \in PositionType
      /\ r[k] = Traded(pos, q[k])
  <2>1. n \in Nat
    BY DEF Replayed
  <2>2. k - 1 \in 0..n
    BY <2>1
  <2> QED
    BY <2>1, <2>2 DEF Replayed, Lists
<1>2. /\ requested \in Nat /\ (q[k].gross - q[k].fee) * Cent \in Int
  BY <1>1, EntryTyped
<1>3. pos.lots \in Seq(Lots) /\ pos.realized \in Int
  BY <1>1, PositionIs
<1>4. Kept(q, B, S, d, m, paid, k - 1, pos)
  OBVIOUS
<1>5. Covered(q, B, S, k) <=> Covered(q, B, S, k - 1) /\ S[k] <= B[k]
  BY <1>1, CoveredStep
<1>6. QtyOf(pos.lots) < requested =>
        /\ r[k].lots = pos.lots /\ r[k].oversold = pos.oversold \cup {q[k].id}
        /\ r[k].oversold # {}
  <2> SUFFICES ASSUME QtyOf(pos.lots) < requested
               PROVE  /\ r[k].lots = pos.lots /\ r[k].oversold = pos.oversold \cup {q[k].id}
                      /\ r[k].oversold # {}
    OBVIOUS
  <2>1. r[k] = [lots |-> pos.lots, realized |-> pos.realized,
                oversold |-> pos.oversold \cup {q[k].id}, undefined |-> pos.undefined]
    BY <1>1, TradedOversale
  <2> HIDE DEF pos
  <2> QED
    BY <2>1
<1>7. ~(QtyOf(pos.lots) < requested) =>
        /\ r[k].lots = sale.lots
        /\ r[k].realized = pos.realized + (q[k].gross - q[k].fee) * Cent - sale.cost
        /\ r[k].oversold = pos.oversold
        /\ r[k].undefined = (pos.undefined \/ sale.undefined)
  <2> SUFFICES ASSUME ~(QtyOf(pos.lots) < requested)
               PROVE  /\ r[k].lots = sale.lots
                      /\ r[k].realized = pos.realized + (q[k].gross - q[k].fee) * Cent - sale.cost
                      /\ r[k].oversold = pos.oversold
                      /\ r[k].undefined = (pos.undefined \/ sale.undefined)
    OBVIOUS
  <2>1. r[k] = [lots |-> sale.lots,
                realized |-> pos.realized + (q[k].gross - q[k].fee) * Cent - sale.cost,
                oversold |-> pos.oversold,
                undefined |-> (pos.undefined \/ sale.undefined)]
    BY <1>1, TradedSale
  <2> HIDE DEF pos, sale
  <2> QED
    BY <2>1
<1> HIDE DEF pos
<1>8. ASSUME ~Covered(q, B, S, k - 1) PROVE r[k].oversold # {}
  <2>1. pos.oversold # {}
    BY <1>4, <1>8 DEF Kept
  <2> HIDE DEF sale, requested
  <2> QED
    BY <1>6, <1>7, <2>1
<1>9. ASSUME Covered(q, B, S, k - 1)
      PROVE  Kept(q, B, S, d, m, paid, k, r[k])
  <2>1. /\ pos.undefined = FALSE /\ pos.oversold = {}
        /\ \E s, E : Stacked(q, B, S, d, m, k - 1, pos.lots, s, E)
        /\ CostOf(pos.lots) = pos.realized + paid[k - 1]
    BY <1>4, <1>9 DEF Kept
  <2>2. PICK s, E : Stacked(q, B, S, d, m, k - 1, pos.lots, s, E)
    BY <2>1
  <2>3. /\ k \in 0..n /\ k - 1 \in 0..n
        /\ B[k] = B[k - 1] /\ S[k] = S[k - 1] + w[k]
        /\ d[k - 1] = d[k] /\ m[k - 1] = m[k] /\ w[k] \in Nat \ {0}
        /\ Same(requested, w[k], d[k], m[k])
    <3>1. k \in 0..n /\ k - 1 \in 0..n /\ q[k].type \in TradeTypes
      BY <1>1 DEF TradeTypes
    <3>2. B[k] = B[k - 1] /\ S[k] = S[k - 1] + w[k]
      BY DEF Stated
    <3>3. d[k - 1] = d[k] /\ m[k - 1] = m[k] /\ w[k] \in Nat \ {0}
          /\ Same(q[k].qty * QStep, w[k], d[k], m[k])
      BY <3>1 DEF Stated
    <3> QED
      BY <3>1, <3>2, <3>3
  <2>4. /\ B[k - 1] \in Nat /\ S[k - 1] \in Nat /\ d[k] \in Nat \ {0} /\ m[k] \in Nat \ {0}
    BY <2>3 DEF Stated
  <2>5. QtyOf(pos.lots) < requested <=> ~(S[k] <= B[k])
    <3>1. Same(QtyOf(pos.lots), B[k - 1] - S[k - 1], d[k - 1], m[k - 1]) /\ S[k - 1] <= B[k - 1]
      BY <1>1, <1>3, <2>2, <2>3, StackHolds
    <3> HIDE DEF requested
    <3>2. QtyOf(pos.lots) < requested <=> B[k - 1] - S[k - 1] < w[k]
      BY <2>3, <2>4, <3>1, SameOrder
    <3> QED
      BY <2>3, <2>4, <3>1, <3>2
  <2>6. CASE ~(S[k] <= B[k])
    BY <1>5, <1>6, <2>5, <2>6 DEF Kept
  <2>7. CASE S[k] <= B[k]
    <3>0. Covered(q, B, S, k)
      BY <1>5, <1>9, <2>7
    <3>1. PICK X : QtyRuns(pos.lots, X) /\ X[Len(pos.lots)] = QtyOf(pos.lots)
      BY <1>3, QtyOfRuns
    <3>2. PICK C : CostRuns(pos.lots, C) /\ C[Len(pos.lots)] = CostOf(pos.lots)
      BY <1>3, CostOfRuns
    <3>3. \A i \in 1..Len(pos.lots) : pos.lots[i].qty > 0
      BY <2>2 DEF Stacked
    <3>4. requested <= X[Len(pos.lots)]
      <4>1. QtyOf(pos.lots) \in Nat
        BY <1>3, CostTyped
      <4> HIDE DEF requested
      <4> QED
        BY <1>2, <2>5, <2>7, <3>1, <4>1
    <3>5. PICK f, uc : Leaves(sale, pos.lots, requested, X, C, f, uc)
      BY <1>2, <1>3, <3>1, <3>2, <3>3, <3>4, ConsumeLeaves
    <3>6. \E s1, E1 : Stacked(q, B, S, d, m, k, sale.lots, s1, E1)
      <4> HIDE DEF sale
      <4> QED
        BY <1>1, <1>3, <2>2, <2>7, <3>1, <3>2, <3>5, SaleStacks
    <3> HIDE DEF requested
    <3>7. /\ CostOf(sale.lots) + sale.cost = CostOf(pos.lots)
          /\ sale.undefined = FALSE
      <4> HIDE DEF sale
      <4>1. CostOf(sale.lots) + sale.cost = CostOf(pos.lots)
        BY <1>2, <1>3, <3>1, <3>2, <3>3, <3>5, LeavesAddUp
      <4>2. sale.undefined = FALSE
        BY <3>5 DEF Leaves
      <4> QED
        BY <4>1, <4>2
    <3>8. sale.lots \in Seq(Lots) /\ sale.cost \in Int
      <4>1. sale \in Sales
        BY <1>2, <1>3, ConsumeTyped
      <4> HIDE DEF sale
      <4> QED
        BY <4>1 DEF Sales
    <3> HIDE DEF sale
    <3>9. CostOf(sale.lots) \in Int
      BY <3>8, CostTyped
    <3>10. paid[k] = paid[k - 1] - (q[k].gross - q[k].fee) * Cent /\ paid[k - 1] \in Int
      BY <2>3 DEF Paid
    <3>11. CostOf(r[k].lots) = r[k].realized + paid[k]
      <4> DEFINE g == (q[k].gross - q[k].fee) * Cent
      <4>1. /\ g \in Int /\ paid[k] = paid[k - 1] - g
            /\ r[k].realized = pos.realized + g - sale.cost /\ r[k].lots = sale.lots
        BY <1>2, <1>7, <2>5, <2>7, <3>10
      <4> DEFINE rest == CostOf(sale.lots)
                 cost == sale.cost
                 before == CostOf(pos.lots)
                 gain == pos.realized
                 owed == paid[k - 1]
      <4>2. /\ rest \in Int /\ cost \in Int /\ gain \in Int /\ owed \in Int
            /\ rest + cost = before /\ before = gain + owed
        BY <1>3, <2>1, <3>7, <3>8, <3>9, <3>10
      <4>3. CostOf(r[k].lots) = rest /\ r[k].realized = gain + g - cost /\ paid[k] = owed - g
        BY <4>1
      <4> HIDE DEF g, rest, cost, before, gain, owed
      <4> QED
        BY <4>1, <4>2, <4>3
    <3>12. r[k].oversold = {} /\ r[k].undefined = FALSE /\ r[k].lots = sale.lots
      BY <1>7, <2>1, <2>5, <2>7, <3>7
    <3> QED
      BY <3>0, <3>6, <3>11, <3>12 DEF Kept
  <2> QED
    BY <2>6, <2>7
<1> QED
  BY <1>5, <1>8, <1>9 DEF Kept

\* So it is what the whole replay comes to.
LEMMA KeptToTheEnd ==
    ASSUME Booked(ledger), NEW t, NEW q, NEW n, NEW r, Replayed(t, q, n, r),
           NEW w, NEW B, NEW S, NEW d, NEW m, Stated(t, q, n, w, B, S, d, m),
           NEW paid, Paid(q, n, paid)
    PROVE  Kept(q, B, S, d, m, paid, n, Position(ledger, t))
<1> DEFINE K(k) == Kept(q, B, S, d, m, paid, k, r[k])
           T == {k \in Nat : k <= n => K(k)}
<1>1. n \in Nat /\ r[0] = NoPosition /\ r[n] = Position(ledger, t)
      /\ \A k \in 1..n : q[k] \in TradesOf(ledger, t)
  BY DEF Replayed, Lists
<1>2. K(0)
  <2>1. r[0].lots = <<>> /\ r[0].realized = 0 /\ r[0].oversold = {} /\ r[0].undefined = FALSE
    BY <1>1 DEF NoPosition
  <2>2. Covered(q, B, S, 0)
    BY DEF Covered
  <2>3. B[0] = 0 /\ S[0] = 0 /\ paid[0] = 0
    BY DEF Stated, Paid
  <2> DEFINE E == [j \in 0..0 |-> 0]
  <2>4. E[0] = 0 /\ 0 \in 0..0 /\ \A j \in 0..0 : E[j] \in Nat
    OBVIOUS
  <2>5. <<>> \in Seq(Lots) /\ Len(<<>>) = 0
    OBVIOUS
  <2>6. CostOf(<<>>) = 0
    <3>1. E \in [0..0 -> Int] /\ \A k \in 1..0 : E[k] = E[k - 1] + <<>>[k].cost
      OBVIOUS
    <3> HIDE DEF E
    <3>2. CostRuns(<<>>, E)
      BY <2>4, <2>5, <3>1 DEF CostRuns
    <3> QED
      BY <2>4, <2>5, <3>2, CostRunsOnly
  <2> HIDE DEF E
  <2>7. Stacked(q, B, S, d, m, 0, <<>>, q, E)
    <3>1. \A j : j \notin 1..0
      OBVIOUS
    <3> QED
      BY <2>3, <2>4, <2>5, <3>1 DEF Stacked
  <2>8. CostOf(r[0].lots) = r[0].realized + paid[0]
    BY <2>1, <2>3, <2>6
  <2> QED
    BY <2>1, <2>2, <2>7, <2>8 DEF Kept
<1>3. ASSUME NEW k \in Nat, k \in T PROVE k + 1 \in T
  <2> SUFFICES ASSUME k + 1 <= n PROVE K(k + 1)
    OBVIOUS
  <2>1. k + 1 \in 1..n /\ (k + 1) - 1 = k /\ k <= n
    BY <1>1
  <2>2. Kept(q, B, S, d, m, paid, (k + 1) - 1, r[(k + 1) - 1])
    BY <1>3, <2>1
  <2>3. q[k + 1].type \in {"BUY", "SELL", "SPLIT"}
    BY <1>1, <2>1, EntryTyped
  <2>4. CASE q[k + 1].type = "BUY"
    BY <2>1, <2>2, <2>4, KeptByBuy
  <2>5. CASE q[k + 1].type = "SELL"
    BY <2>1, <2>2, <2>5, KeptBySale
  <2>6. CASE q[k + 1].type = "SPLIT"
    BY <2>1, <2>2, <2>6, KeptBySplit
  <2> QED
    BY <2>3, <2>4, <2>5, <2>6
<1>4. \A k \in Nat : k \in T
  <2>1. 0 \in T
    BY <1>2
  <2> HIDE DEF T
  <2> QED
    BY <1>3, <2>1, Induction
<1> QED
  BY <1>1, <1>4

\* What the entries' effects on cash add up to is what the lots and the profits show.
LEMMA PaidExists ==
    ASSUME Booked(ledger), NEW t, NEW q, NEW n \in Nat, Lists(q, n, TradesOf(ledger, t)),
           NEW val, NEW F, Additive(F, ledger, val),
           \A e \in ledger : val[e] = CashEffect(e)
    PROVE  \E paid : Paid(q, n, paid) /\ paid[n] = - (F[TradesOf(ledger, t)] * Cent)
<1> DEFINE T == TradesOf(ledger, t)
           To(k) == {e \in T : \E i \in 1..k : q[i] = e}
           paid == [k \in 0..n |-> - (F[To(k)] * Cent)]
<1>1. /\ \A k \in 1..n : q[k] \in T
      /\ \A e \in T : \E i \in 1..n : q[i] = e
      /\ \A i, j \in 1..n : i < j => q[i] # q[j]
  <2>1. /\ \A k \in 1..n : q[k] \in T
        /\ \A e \in T : \E i \in 1..n : q[i] = e
        /\ \A i, j \in 1..n : i < j => Before(q[i], q[j])
    BY DEF Lists
  <2> QED
    BY <2>1, TradesDated, BeforeIsOrder
<1>2. T \in SUBSET ledger
  BY DEF TradesOf
<1>3. /\ To(0) = {} /\ To(n) = T /\ \A k \in 0..n : To(k) \in SUBSET ledger
  BY <1>1, <1>2
<1>4. ASSUME NEW k \in 1..n PROVE To(k) = To(k - 1) \cup {q[k]} /\ q[k] \in ledger \ To(k - 1)
  <2>1. \A i \in 1..k : i \in 1..(k - 1) \/ i = k
    OBVIOUS
  <2>2. q[k] \notin To(k - 1)
    BY <1>1
  <2> QED
    BY <1>1, <1>2, <2>1, <2>2
<1>5. \A k \in 0..n : paid[k] = - (F[To(k)] * Cent)
  OBVIOUS
<1> HIDE DEF To, paid
<1>6. \A k \in 0..n : F[To(k)] \in Int
  BY <1>3 DEF Additive
<1>7. ASSUME NEW k \in 1..n PROVE F[To(k)] = F[To(k - 1)] + CashEffect(q[k])
  <2>1. k - 1 \in 0..n
    OBVIOUS
  <2>2. F[To(k - 1) \cup {q[k]}] = F[To(k - 1)] + val[q[k]]
    BY <1>3, <1>4, <2>1 DEF Additive
  <2> QED
    BY <1>4, <2>2
<1>8. Cent \in Int
  BY ScaleAssumption
<1>9. paid[0] = 0
  <2>1. 0 \in 0..n /\ F[{}] = 0 /\ 0 * Cent = 0
    BY <1>8 DEF Additive
  <2> QED
    BY <1>3, <1>5, <2>1
<1>10. \A k \in 0..n : paid[k] \in Int
  <2>1. \A x \in Int : - (x * Cent) \in Int
    BY <1>8
  <2> QED
    BY <1>5, <1>6, <2>1
<1>11. ASSUME NEW k \in 1..n
       PROVE  /\ q[k].type = "BUY" => paid[k] = paid[k - 1] + (q[k].gross + q[k].fee) * Cent
              /\ q[k].type = "SELL" => paid[k] = paid[k - 1] - (q[k].gross - q[k].fee) * Cent
              /\ q[k].type = "SPLIT" => paid[k] = paid[k - 1]
  <2>1. k \in 0..n /\ k - 1 \in 0..n
    OBVIOUS
  <2>2. paid[k] = - (F[To(k)] * Cent) /\ paid[k - 1] = - (F[To(k - 1)] * Cent)
        /\ F[To(k - 1)] \in Int
    BY <1>5, <1>6, <2>1
  <2>3. q[k].gross + q[k].fee \in Int /\ q[k].gross - q[k].fee \in Int
    <3>1. q[k].gross \in Nat /\ q[k].fee \in Nat
      BY <1>1, EntryTyped
    <3> QED
      BY <3>1
  <2>4. /\ q[k].type = "BUY" => CashEffect(q[k]) = - (q[k].gross + q[k].fee)
        /\ q[k].type = "SELL" => CashEffect(q[k]) = q[k].gross - q[k].fee
        /\ q[k].type = "SPLIT" => CashEffect(q[k]) = 0
    BY DEF CashEffect
  <2>5. \A x, y \in Int : /\ - ((x + (- y)) * Cent) = - (x * Cent) + y * Cent
                          /\ - ((x + y) * Cent) = - (x * Cent) - y * Cent
                          /\ - ((x + 0) * Cent) = - (x * Cent)
    BY <1>8
  <2> DEFINE more == q[k].gross + q[k].fee
             less == q[k].gross - q[k].fee
             f == F[To(k - 1)]
  <2>6. /\ more \in Int /\ less \in Int /\ f \in Int
        /\ F[To(k)] = f + CashEffect(q[k])
        /\ paid[k] = - (F[To(k)] * Cent) /\ paid[k - 1] = - (f * Cent)
        /\ q[k].type = "BUY" => CashEffect(q[k]) = - more
        /\ q[k].type = "SELL" => CashEffect(q[k]) = less
        /\ q[k].type = "SPLIT" => CashEffect(q[k]) = 0
    BY <1>7, <2>2, <2>3, <2>4
  <2> HIDE DEF more, less, f
  <2>7. CASE q[k].type = "BUY"
    <3>1. paid[k] = - ((f + (- more)) * Cent)
      BY <2>6, <2>7
    <3>2. - ((f + (- more)) * Cent) = - (f * Cent) + more * Cent
      BY <2>5, <2>6
    <3>3. - (f * Cent) \in Int /\ more * Cent \in Int
      BY <1>8, <2>6
    <3>4. paid[k] = paid[k - 1] + more * Cent
      BY <2>6, <3>1, <3>2
    <3> QED
      BY <2>7, <3>4 DEF more
  <2>8. CASE q[k].type = "SELL"
    <3>1. paid[k] = - ((f + less) * Cent)
      BY <2>6, <2>8
    <3>2. - ((f + less) * Cent) = - (f * Cent) - less * Cent
      BY <2>5, <2>6
    <3>3. paid[k] = paid[k - 1] - less * Cent
      BY <2>6, <3>1, <3>2
    <3> QED
      BY <2>8, <3>3 DEF less
  <2>9. CASE q[k].type = "SPLIT"
    BY <2>5, <2>6, <2>9
  <2> QED
    BY <2>7, <2>8, <2>9
<1>12. Paid(q, n, paid)
  BY <1>9, <1>10, <1>11 DEF Paid
<1>13. paid[n] = - (F[T] * Cent)
  <2>1. n \in 0..n
    OBVIOUS
  <2> QED
    BY <1>3, <1>5, <2>1
<1> QED
  BY <1>12, <1>13

-----------------------------------------------------------------------------
(* What the replay of a ticker ends with.                                   *)

\* The end of a replay that meets no sale of more than was held.
Ends(t, q, n, w, B, S, d, m, pos) ==
    /\ n \in Nat /\ Lists(q, n, TradesOf(ledger, t)) /\ Stated(t, q, n, w, B, S, d, m)
    /\ pos.lots \in Seq(Lots) /\ pos.realized \in Int
    /\ pos.oversold = {} <=> Covered(q, B, S, n)
    /\ pos.oversold = {} =>
         /\ pos.undefined = FALSE
         /\ \E s, E : Stacked(q, B, S, d, m, n, pos.lots, s, E)

\* Every ticker's replay ends so, and what its lots cost is what has been paid for them.
LEMMA ReplayEnds ==
    ASSUME Booked(ledger), NEW t, NEW val, NEW F, Additive(F, ledger, val),
           \A e \in ledger : val[e] = CashEffect(e)
    PROVE  /\ \E q, n, w, B, S, d, m : Ends(t, q, n, w, B, S, d, m, Position(ledger, t))
           /\ Position(ledger, t).oversold = {} =>
                CostOf(Position(ledger, t).lots)
                  = Position(ledger, t).realized - F[TradesOf(ledger, t)] * Cent
<1> DEFINE pos == Position(ledger, t)
<1>1. PICK q, n, r : Replayed(t, q, n, r)
  BY ReplayExists
<1>2. n \in Nat /\ Lists(q, n, TradesOf(ledger, t)) /\ pos \in PositionType
  <2>1. n \in Nat
    BY <1>1 DEF Replayed
  <2>2. n \in 0..n
    BY <2>1
  <2> QED
    BY <1>1, <2>1, <2>2 DEF Replayed
<1>3. PICK w, B, S, d, m : Stated(t, q, n, w, B, S, d, m)
  BY <1>2, StatementExists
<1>4. PICK paid : Paid(q, n, paid) /\ paid[n] = - (F[TradesOf(ledger, t)] * Cent)
  BY <1>2, PaidExists
<1>5. Kept(q, B, S, d, m, paid, n, pos)
  BY <1>1, <1>3, <1>4, KeptToTheEnd
<1>6. pos.lots \in Seq(Lots) /\ pos.realized \in Int
  BY <1>2, PositionIs
<1> HIDE DEF pos
<1>7. Ends(t, q, n, w, B, S, d, m, pos)
  BY <1>2, <1>3, <1>5, <1>6 DEF Kept, Ends
<1>8. ASSUME pos.oversold = {} PROVE CostOf(pos.lots) = pos.realized - F[TradesOf(ledger, t)] * Cent
  <2> DEFINE f == F[TradesOf(ledger, t)] * Cent
  <2>1. f \in Int
    <3>1. TradesOf(ledger, t) \in SUBSET ledger
      BY DEF TradesOf
    <3>2. F[TradesOf(ledger, t)] \in Int /\ Cent \in Int
      BY <3>1, ScaleAssumption DEF Additive
    <3> QED
      BY <3>2
  <2>2. CostOf(pos.lots) = pos.realized + (- f)
    BY <1>4, <1>5, <1>8 DEF Kept
  <2> HIDE DEF f
  <2>3. CostOf(pos.lots) = pos.realized - f
    BY <1>6, <2>1, <2>2
  <2> QED
    BY <2>3 DEF f
<1> QED
  BY <1>7, <1>8 DEF pos

\* Whether a ticker is ever sold short of what is held.
LEMMA OversoldIs ==
    ASSUME Booked(ledger), NEW t, NEW q, NEW n, NEW w, NEW B, NEW S, NEW d, NEW m, NEW pos,
           Ends(t, q, n, w, B, S, d, m, pos)
    PROVE  pos.oversold = {} <=>
             \A sell \in Trades(t, "SELL") :
               Total(Upto(Trades(t, "SELL"), sell)) <= Total(Upto(Trades(t, "BUY"), sell))
<1>1. /\ \A i \in 1..n : q[i] \in TradesOf(ledger, t)
      /\ \A e \in TradesOf(ledger, t) : \E i \in 1..n : q[i] = e
  BY DEF Ends, Lists
<1>2. \A i \in 1..n : /\ Total(Upto(Trades(t, "BUY"), q[i])) = B[i]
                      /\ Total(Upto(Trades(t, "SELL"), q[i])) = S[i]
  BY DEF Ends, Stated
<1>3. \A e \in TradesOf(ledger, t) : e.type = "SELL" <=> e \in Trades(t, "SELL")
  BY DEF TradesOf, Trades
<1>4. Trades(t, "SELL") \in SUBSET TradesOf(ledger, t)
  BY DEF TradesOf, Trades
<1>5. pos.oversold = {} <=> \A i \in 1..n : q[i].type = "SELL" => S[i] <= B[i]
  BY DEF Ends, Covered
<1>6. ASSUME \A i \in 1..n : q[i].type = "SELL" => S[i] <= B[i], NEW sell \in Trades(t, "SELL")
      PROVE  Total(Upto(Trades(t, "SELL"), sell)) <= Total(Upto(Trades(t, "BUY"), sell))
  <2>1. PICK i \in 1..n : q[i] = sell
    BY <1>1, <1>4
  <2>2. q[i].type = "SELL"
    BY <2>1 DEF Trades
  <2>3. S[i] <= B[i]
    BY <1>6, <2>2
  <2> QED
    BY <1>2, <2>1, <2>3
<1>7. ASSUME \A sell \in Trades(t, "SELL") :
               Total(Upto(Trades(t, "SELL"), sell)) <= Total(Upto(Trades(t, "BUY"), sell)),
             NEW i \in 1..n, q[i].type = "SELL"
      PROVE  S[i] <= B[i]
  <2>1. q[i] \in Trades(t, "SELL")
    BY <1>1, <1>3, <1>7
  <2>2. Total(Upto(Trades(t, "SELL"), q[i])) <= Total(Upto(Trades(t, "BUY"), q[i]))
    BY <1>7, <2>1
  <2> QED
    BY <1>2, <2>2
<1> QED
  BY <1>5, <1>6, <1>7

\* The lots are what the purchases have left.
LEMMA LotsAreRemainders ==
    ASSUME Booked(ledger), NEW t, NEW q, NEW n, NEW w, NEW B, NEW S, NEW d, NEW m, NEW pos,
           Ends(t, q, n, w, B, S, d, m, pos), pos.oversold = {}
    PROVE  LET lots == pos.lots
               open == InOrder({buy \in Trades(t, "BUY") : Remainder(t, buy) > 0})
           IN  /\ Len(lots) = Len(open)
               /\ \A i \in DOMAIN lots :
                    /\ lots[i].qty = Remainder(t, open[i])
                    /\ Remainder(t, open[i]) = UnitsOf(open[i])
                       => lots[i].cost = (open[i].gross + open[i].fee) * Cent
<1> DEFINE lots == pos.lots
           M == Len(lots)
           Open == {buy \in Trades(t, "BUY") : Remainder(t, buy) > 0}
           T == TradesOf(ledger, t)
<1>1. n \in Nat /\ Lists(q, n, T) /\ Stated(t, q, n, w, B, S, d, m) /\ lots \in Seq(Lots)
  BY DEF Ends
<1>2. PICK s, E : Stacked(q, B, S, d, m, n, lots, s, E)
  BY DEF Ends
<1>3. /\ \A i \in 1..n : q[i] \in T
      /\ \A e \in T : \E i \in 1..n : q[i] = e
      /\ \A i, j \in 1..n : i < j => Before(q[i], q[j])
  BY <1>1 DEF Lists
<1>4. /\ M \in Nat /\ DOMAIN lots = 1..M
      /\ \A j \in 1..M : lots[j] \in Lots
  BY <1>1
<1> HIDE DEF lots, M, T
<1>5. /\ \A j \in 1..M : s[j] \in 1..n /\ q[s[j]].type = "BUY"
      /\ \A i, j \in 1..M : i < j => s[i] < s[j]
      /\ \A j \in 0..M : E[j] \in Nat
      /\ E[0] = S[n]
  BY <1>2 DEF Stacked, M
<1>6. \A j \in 1..M :
         /\ E[j] = B[s[j]] /\ E[j - 1] < E[j]
         /\ B[s[j] - 1] <= E[j - 1]
         /\ j > 1 => B[s[j] - 1] = E[j - 1]
         /\ Same(lots[j].qty, E[j] - E[j - 1], d[n], m[n])
         /\ B[s[j] - 1] = E[j - 1] => lots[j].cost = (q[s[j]].gross + q[s[j]].fee) * Cent
  BY <1>2 DEF Stacked, M
<1>7. \A i \in 1..n : q[i].type = "BUY" => (S[n] < B[i] <=> \E j \in 1..M : s[j] = i)
  BY <1>2 DEF Stacked, M
\* What a purchase has left.
<1>8. ASSUME NEW i \in 1..n, q[i].type = "BUY"
      PROVE  /\ q[i] \in Trades(t, "BUY")
             /\ B[i] \in Nat /\ B[i - 1] \in Nat /\ S[n] \in Nat
             /\ UnitsOf(q[i]) = B[i] - B[i - 1] /\ B[i - 1] < B[i]
             /\ S[n] < B[i] => Remainder(t, q[i]) = B[i] - (IF B[i - 1] <= S[n] THEN S[n] ELSE B[i - 1])
             /\ ~(S[n] < B[i]) => Remainder(t, q[i]) = 0
  <2>1. q[i] \in Trades(t, "BUY")
    BY <1>3, <1>8 DEF T, TradesOf, Trades
  <2>2. i \in 0..n /\ i - 1 \in 0..n /\ n \in 0..n
    BY <1>1
  <2>3. B[i] \in Nat /\ B[i - 1] \in Nat /\ S[n] \in Nat
    BY <1>1, <2>2 DEF Stated
  <2>4. /\ Total(Upto(Trades(t, "BUY"), q[i])) = B[i] /\ Total(Trades(t, "SELL")) = S[n]
        /\ B[i] = B[i - 1] + w[i] /\ w[i] = UnitsOf(q[i]) /\ w[i] \in Nat \ {0}
    BY <1>1, <1>8 DEF Stated, TradeTypes
  <2>5. B[i] - UnitsOf(q[i]) = B[i - 1] /\ UnitsOf(q[i]) = B[i] - B[i - 1] /\ B[i - 1] < B[i]
    BY <2>3, <2>4
  <2>6. Remainder(t, q[i]) = B[i] - Max({B[i - 1], Min({B[i], S[n]})})
    BY <2>4, <2>5 DEF Remainder
  <2>7. Min({B[i], S[n]}) = IF B[i] <= S[n] THEN B[i] ELSE S[n]
    BY <2>3, MinOf
  <2> DEFINE least == Min({B[i], S[n]})
  <2>8. least \in Int
    BY <2>3, <2>7
  <2> HIDE DEF least
  <2>9. Max({B[i - 1], least}) = IF B[i - 1] <= least THEN least ELSE B[i - 1]
    BY <2>3, <2>8, MaxOf
  <2>10. Remainder(t, q[i]) = B[i] - (IF B[i - 1] <= least THEN least ELSE B[i - 1])
    BY <2>6, <2>9 DEF least
  <2>11. least = IF B[i] <= S[n] THEN B[i] ELSE S[n]
    BY <2>7 DEF least
  <2> QED
    BY <2>1, <2>3, <2>5, <2>10, <2>11
<1>9. ASSUME NEW j \in 1..M
      PROVE  /\ q[s[j]] \in Open
             /\ lots[j].qty = Remainder(t, q[s[j]])
             /\ Remainder(t, q[s[j]]) = UnitsOf(q[s[j]])
                  => lots[j].cost = (q[s[j]].gross + q[s[j]].fee) * Cent
  <2> DEFINE i == s[j]
  <2>1. i \in 1..n /\ q[i].type = "BUY"
    BY <1>5
  <2>2. /\ E[j] = B[i] /\ E[j - 1] < E[j] /\ B[i - 1] <= E[j - 1]
        /\ j > 1 => B[i - 1] = E[j - 1]
        /\ Same(lots[j].qty, E[j] - E[j - 1], d[n], m[n])
        /\ B[i - 1] = E[j - 1] => lots[j].cost = (q[i].gross + q[i].fee) * Cent
    BY <1>6
  <2>3. S[n] < B[i]
    BY <1>7, <2>1
  <2> HIDE DEF i
  <2>4. /\ q[i] \in Trades(t, "BUY")
        /\ B[i] \in Nat /\ B[i - 1] \in Nat /\ S[n] \in Nat
        /\ UnitsOf(q[i]) = B[i] - B[i - 1]
        /\ Remainder(t, q[i]) = B[i] - (IF B[i - 1] <= S[n] THEN S[n] ELSE B[i - 1])
    BY <1>8, <2>1, <2>3
  <2>5. j \in 0..M /\ j - 1 \in 0..M /\ (j = 1 \/ j > 1) /\ 1 - 1 = 0
    BY <1>4
  <2>6. E[j - 1] \in Nat /\ E[j] \in Nat
    BY <1>5, <2>5
  <2>7. lots[j].qty = E[j] - E[j - 1]
    <3>1. d[n] = 1 /\ m[n] = 1
      BY <1>1 DEF Stated
    <3> QED
      BY <2>2, <3>1, SameOne
  <2>8. Remainder(t, q[i]) = E[j] - E[j - 1]
    <3>1. CASE j = 1
      BY <1>5, <2>2, <2>4, <2>5, <2>6, <3>1
    <3>2. CASE j > 1
      <4>1. S[n] < E[j - 1]
        <5>1. \A a, b \in 0..M : a < b => E[a] < E[b]
          <6>1. \A a \in 1..M : E[a - 1] < E[a]
            BY <1>6
          <6> QED
            BY <1>4, <1>5, <6>1, Climbs
        <5>2. 0 \in 0..M /\ 0 < j - 1
          BY <1>4, <3>2
        <5> QED
          BY <1>5, <2>5, <5>1, <5>2
      <4> QED
        BY <2>2, <2>4, <2>6, <3>2, <4>1
    <3> QED
      BY <2>5, <3>1, <3>2
  <2>9. Remainder(t, q[i]) > 0
    BY <2>2, <2>6, <2>8
  <2>10. Remainder(t, q[i]) = UnitsOf(q[i]) => B[i - 1] = E[j - 1]
    BY <2>2, <2>4, <2>6, <2>8
  <2> QED
    BY <2>2, <2>4, <2>7, <2>8, <2>9, <2>10 DEF i
<1> DEFINE p == [j \in 1..M |-> q[s[j]]]
<1>10. Lists(p, M, Open)
  <2>1. p \in [1..M -> Open]
    <3> HIDE DEF Open
    <3> QED
      BY <1>9
  <2>2. ASSUME NEW e \in Open PROVE \E j \in 1..M : p[j] = e
    <3>1. e \in Trades(t, "BUY") /\ Remainder(t, e) > 0
      BY <2>2
    <3>2. e \in T /\ e.type = "BUY"
      BY <3>1 DEF T, TradesOf, Trades
    <3>3. PICK i \in 1..n : q[i] = e
      BY <1>3, <3>2
    <3>4. S[n] < B[i]
      <4>1. ~(S[n] < B[i]) => Remainder(t, q[i]) = 0
        BY <1>8, <3>2, <3>3
      <4> QED
        BY <3>1, <3>3, <4>1
    <3>5. PICK j \in 1..M : s[j] = i
      BY <1>7, <3>2, <3>3, <3>4
    <3> QED
      BY <3>3, <3>5
  <2>3. ASSUME NEW i \in 1..M, NEW j \in 1..M, i < j PROVE Before(p[i], p[j])
    BY <1>3, <1>5, <2>3
  <2> HIDE DEF p, Open
  <2> QED
    BY <2>1, <2>2, <2>3 DEF Lists
<1>11. Dated(Open)
  <2>1. Open \in SUBSET ledger
    BY DEF Trades
  <2> HIDE DEF Open
  <2>2. IsFiniteSet(Open)
    BY <2>1, FS_Subset DEF Booked
  <2> QED
    BY <2>1, <2>2 DEF Booked, Dated
<1>12. p = [j \in 1..M |-> q[s[j]]]
  OBVIOUS
<1>13. InOrder(Open) = p
  <2> HIDE DEF Open, p
  <2> QED
    BY <1>4, <1>10, <1>11, OnlyList
<1>14. Len(p) = M /\ \A j \in 1..M : p[j] = q[s[j]]
  BY <1>4
<1> HIDE DEF p
<1>15. \A j \in 1..M : /\ lots[j].qty = Remainder(t, p[j])
                       /\ Remainder(t, p[j]) = UnitsOf(p[j])
                            => lots[j].cost = (p[j].gross + p[j].fee) * Cent
  BY <1>9, <1>14
<1>16. Len(lots) = M
  BY DEF M
<1> QED
  BY <1>4, <1>13, <1>14, <1>15, <1>16 DEF lots

-----------------------------------------------------------------------------
(* The sums of the books.                                                   *)

\* The sums of the model are sums over sets: of values,
LEMMA SumOfIs ==
    ASSUME NEW X, IsFiniteSet(X), NEW val, NEW W, Additive(W, X, val),
           \A x \in X : val[x] \in Int,
           NEW S \in SUBSET X, NEW f, DOMAIN f = S, \A x \in S : f[x] = val[x]
    PROVE  SumOf(f) = W[S]
<1> DEFINE Iter == CHOOSE g : g = [s \in SUBSET S |->
                     IF s = {} THEN 0 ELSE f[Chosen(s)] + g[s \ {Chosen(s)}]]
           v == [x \in S |-> val[x]]
<1>1. SumOf(f) = Iter[S]
  BY Zenon DEF SumOf, FoldFunction, FoldFunctionOnSet, MapThenFoldSet, Chosen
<1>2. \A s \in SUBSET S : s # {} => Chosen(s) \in s
  BY ChosenIn
<1>3. IsFiniteSet(S)
  BY FS_Subset
<1>4. PICK g : AddsUp(g, S, v)
  <2>1. v \in [S -> Int]
    OBVIOUS
  <2> HIDE DEF v
  <2> QED
    BY <1>3, <2>1, SumFold
<1>5. g = [s \in SUBSET S |-> IF s = {} THEN 0 ELSE f[Chosen(s)] + g[s \ {Chosen(s)}]]
  <2>1. \A s \in SUBSET S : s # {} => v[Chosen(s)] = f[Chosen(s)]
    BY <1>2
  <2> HIDE DEF v
  <2> QED
    BY <1>4, <2>1 DEF AddsUp
<1>6. Iter = [s \in SUBSET S |-> IF s = {} THEN 0 ELSE f[Chosen(s)] + Iter[s \ {Chosen(s)}]]
  BY <1>5, Zenon
<1> HIDE DEF Iter
<1>7. AddsUp(Iter, S, val)
  <2>1. \A s \in SUBSET S : s # {} => val[Chosen(s)] = f[Chosen(s)]
    BY <1>2
  <2> QED
    BY <1>6, <2>1 DEF AddsUp
<1> QED
  BY <1>1, <1>7, SumIsOnly

\* of the effects on cash,
LEMMA CashIs ==
    ASSUME IsFiniteSet(ledger), NEW val, NEW W, Additive(W, ledger, val),
           \A e \in ledger : val[e] = CashEffect(e) /\ val[e] \in Int
    PROVE  LedgerCash(ledger) = W[ledger]
<1> DEFINE S == ledger
           Iter == CHOOSE f : f = [s \in SUBSET S |->
                     IF s = {} THEN 0 ELSE CashEffect(Chosen(s)) + f[s \ {Chosen(s)}]]
           v == [e \in S |-> val[e]]
<1>1. LedgerCash(ledger) = Iter[S]
  BY Zenon DEF LedgerCash, MapThenSumSet, MapThenFoldSet, Chosen
<1>2. \A s \in SUBSET S : s # {} => Chosen(s) \in s
  BY ChosenIn
<1>4. PICK f : AddsUp(f, S, v)
  <2>1. v \in [S -> Int]
    OBVIOUS
  <2> HIDE DEF v
  <2> QED
    BY <2>1, SumFold
<1>5. f = [s \in SUBSET S |-> IF s = {} THEN 0 ELSE CashEffect(Chosen(s)) + f[s \ {Chosen(s)}]]
  <2>1. \A s \in SUBSET S : s # {} => v[Chosen(s)] = CashEffect(Chosen(s))
    BY <1>2
  <2> HIDE DEF v
  <2> QED
    BY <1>4, <2>1 DEF AddsUp
<1>6. Iter = [s \in SUBSET S |-> IF s = {} THEN 0 ELSE CashEffect(Chosen(s)) + Iter[s \ {Chosen(s)}]]
  BY <1>5, Zenon
<1> HIDE DEF Iter
<1>7. AddsUp(Iter, S, val)
  <2>1. \A s \in SUBSET S : s # {} => val[Chosen(s)] = CashEffect(Chosen(s))
    BY <1>2
  <2> QED
    BY <1>6, <2>1 DEF AddsUp
<1>8. S \in SUBSET ledger /\ \A e \in ledger : val[e] \in Int
  OBVIOUS
<1> QED
  BY <1>1, <1>7, <1>8, SumIsOnly

\* Entries of some types.
OfTypes(types) == {e \in ledger : e.type \in types}

\* and of gross amounts.
LEMMA GrossIs ==
    ASSUME IsFiniteSet(ledger), NEW val, NEW W, Additive(W, ledger, val),
           \A e \in ledger : val[e] = e.gross /\ val[e] \in Int, NEW types
    PROVE  GrossOf(ledger, types) = W[OfTypes(types)]
<1> DEFINE S == {e \in ledger : e.type \in types}
           Iter == CHOOSE f : f = [s \in SUBSET S |->
                     IF s = {} THEN 0 ELSE Chosen(s).gross + f[s \ {Chosen(s)}]]
           v == [e \in S |-> val[e]]
<1>1. GrossOf(ledger, types) = Iter[S]
  BY Zenon DEF GrossOf, MapThenSumSet, MapThenFoldSet, Chosen
<1>0. S \in SUBSET ledger
  OBVIOUS
<1> HIDE DEF S
<1>2. \A s \in SUBSET S : s # {} => Chosen(s) \in s
  BY ChosenIn
<1>3. IsFiniteSet(S)
  BY <1>0, FS_Subset
<1>4. PICK f : AddsUp(f, S, v)
  <2>1. v \in [S -> Int]
    BY <1>0
  <2> HIDE DEF v
  <2> QED
    BY <1>3, <2>1, SumFold
<1>5. f = [s \in SUBSET S |-> IF s = {} THEN 0 ELSE Chosen(s).gross + f[s \ {Chosen(s)}]]
  <2>1. \A s \in SUBSET S : s # {} => v[Chosen(s)] = Chosen(s).gross
    BY <1>0, <1>2
  <2> HIDE DEF v
  <2> QED
    BY <1>4, <2>1 DEF AddsUp
<1>6. Iter = [s \in SUBSET S |-> IF s = {} THEN 0 ELSE Chosen(s).gross + Iter[s \ {Chosen(s)}]]
  BY <1>5, Zenon
<1> HIDE DEF Iter
<1>7. AddsUp(Iter, S, val)
  <2>1. \A s \in SUBSET S : s # {} => val[Chosen(s)] = Chosen(s).gross
    BY <1>0, <1>2
  <2> QED
    BY <1>6, <2>1 DEF AddsUp
<1> QED
  BY <1>0, <1>1, <1>7, SumIsOnly DEF S, OfTypes

\* A sum of differences is the difference of the sums.
LEMMA SumOfDifferences ==
    ASSUME NEW X, IsFiniteSet(X), NEW h, NEW H, Additive(H, X, h),
           NEW r, NEW R, Additive(R, X, r), NEW g, NEW G, Additive(G, X, g), NEW c \in Int,
           \A x \in X : r[x] \in Int /\ g[x] \in Int /\ h[x] = r[x] - g[x] * c
    PROVE  H[X] = R[X] - G[X] * c
<1> DEFINE T == {k \in Nat : \A s \in SUBSET X : Cardinality(s) = k => H[s] = R[s] - G[s] * c}
<1>0. \A s \in SUBSET X : IsFiniteSet(s) /\ Cardinality(s) \in Nat
  BY FS_Subset, FS_CardinalityType
<1>1. 0 \in T
  <2> SUFFICES ASSUME NEW s \in SUBSET X, Cardinality(s) = 0 PROVE H[s] = R[s] - G[s] * c
    OBVIOUS
  <2>1. s = {}
    BY <1>0, FS_EmptySet
  <2>2. H[s] = 0 /\ R[s] = 0 /\ G[s] = 0
    BY <2>1 DEF Additive
  <2> QED
    BY <2>2
<1>2. ASSUME NEW k \in Nat, k \in T PROVE k + 1 \in T
  <2> SUFFICES ASSUME NEW s \in SUBSET X, Cardinality(s) = k + 1
               PROVE  H[s] = R[s] - G[s] * c
    OBVIOUS
  <2>1. s # {}
    BY FS_EmptySet
  <2>2. PICK y \in s : TRUE
    BY <2>1
  <2> DEFINE rest == s \ {y}
  <2>3. rest \in SUBSET X /\ Cardinality(rest) = k
    <3>1. Cardinality(rest) = Cardinality(s) - 1
      BY <1>0, <2>2, FS_RemoveElement
    <3> QED
      BY <3>1
  <2>4. H[rest] = R[rest] - G[rest] * c
    BY <1>2, <2>3
  <2>5. H[s] = H[rest] + h[y] /\ R[s] = R[rest] + r[y] /\ G[s] = G[rest] + g[y]
    <3>1. H[s] = H[rest] + h[y]
      BY <2>2 DEF Additive
    <3>2. R[s] = R[rest] + r[y]
      BY <2>2 DEF Additive
    <3>3. G[s] = G[rest] + g[y]
      BY <2>2 DEF Additive
    <3> QED
      BY <3>1, <3>2, <3>3
  <2>6. R[rest] \in Int /\ G[rest] \in Int /\ r[y] \in Int /\ g[y] \in Int
    <3>1. R[rest] \in Int /\ G[rest] \in Int
      BY <2>3 DEF Additive
    <3> QED
      BY <2>2, <3>1
  <2>7. h[y] = r[y] - g[y] * c
    BY <2>2
  <2>8. \A a, b, u, v \in Int : (a - b * c) + (u - v * c) = (a + u) - (b + v) * c
    OBVIOUS
  <2> HIDE DEF rest, T
  <2>9. (R[rest] - G[rest] * c) + (r[y] - g[y] * c) = (R[rest] + r[y]) - (G[rest] + g[y]) * c
    BY <2>6, <2>8
  <2> QED
    BY <2>4, <2>5, <2>7, <2>9, Zenon
<1>3. \A k \in Nat : k \in T
  <2> HIDE DEF T
  <2> QED
    BY <1>1, <1>2, Induction
<1> QED
  BY <1>0, <1>3

\* The trades of the tickers of a set.
TradesOfAll(s) == {e \in ledger : e.type \in {"BUY", "SELL", "SPLIT"} /\ e.ticker \in s}

\* The effects of all trades are those of the tickers added up.
LEMMA SumByTicker ==
    ASSUME IsFiniteSet(ledger), NEW val, NEW F, Additive(F, ledger, val),
           \A e \in ledger : val[e] \in Int,
           NEW g, NEW G, Additive(G, Tickers, g),
           \A t \in Tickers : g[t] = F[TradesOf(ledger, t)]
    PROVE  F[TradesOfAll(Tickers)] = G[Tickers]
<1> DEFINE T == {k \in Nat : \A s \in SUBSET Tickers :
                    Cardinality(s) = k => F[TradesOfAll(s)] = G[s]}
<1>0. \A s \in SUBSET Tickers : IsFiniteSet(s) /\ Cardinality(s) \in Nat
  BY EntriesAssumption, FS_Subset, FS_CardinalityType
<1>1. 0 \in T
  <2> SUFFICES ASSUME NEW s \in SUBSET Tickers, Cardinality(s) = 0
               PROVE  F[TradesOfAll(s)] = G[s]
    OBVIOUS
  <2>1. s = {}
    BY <1>0, FS_EmptySet
  <2>2. TradesOfAll(s) = {}
    BY <2>1 DEF TradesOfAll
  <2> QED
    BY <2>1, <2>2 DEF Additive
<1>2. ASSUME NEW k \in Nat, k \in T PROVE k + 1 \in T
  <2> SUFFICES ASSUME NEW s \in SUBSET Tickers, Cardinality(s) = k + 1
               PROVE  F[TradesOfAll(s)] = G[s]
    OBVIOUS
  <2>1. s # {}
    BY FS_EmptySet
  <2>2. PICK y \in s : TRUE
    BY <2>1
  <2> DEFINE rest == s \ {y}
  <2>3. rest \in SUBSET Tickers /\ Cardinality(rest) = k
    <3>1. Cardinality(rest) = Cardinality(s) - 1
      BY <1>0, <2>2, FS_RemoveElement
    <3> QED
      BY <3>1
  <2>4. F[TradesOfAll(rest)] = G[rest]
    BY <1>2, <2>3
  <2>5. G[s] = G[rest] + g[y]
    BY <2>2 DEF Additive
  <2>6. TradesOfAll(s) = TradesOfAll(rest) \cup TradesOf(ledger, y)
    BY <2>2 DEF TradesOfAll, TradesOf
  <2>7. /\ TradesOfAll(rest) \cap TradesOf(ledger, y) = {}
        /\ TradesOfAll(rest) \in SUBSET ledger /\ TradesOf(ledger, y) \in SUBSET ledger
    BY DEF TradesOfAll, TradesOf
  <2> HIDE DEF rest, T
  <2>8. F[TradesOfAll(rest) \cup TradesOf(ledger, y)]
          = F[TradesOfAll(rest)] + F[TradesOf(ledger, y)]
    BY <2>7, SumOfUnion
  <2>9. g[y] = F[TradesOf(ledger, y)]
    BY <2>2
  <2> QED
    BY <2>4, <2>5, <2>6, <2>8, <2>9, Zenon
<1>3. \A k \in Nat : k \in T
  <2> HIDE DEF T
  <2> QED
    BY <1>1, <1>2, Induction
<1> QED
  BY <1>0, <1>3

\* What is neither bought nor sold is paid in or out.
LEMMA FlowsAre ==
    ASSUME Booked(ledger), NEW val, NEW F, Additive(F, ledger, val),
           \A e \in ledger : val[e] = CashEffect(e) /\ val[e] \in Int
    PROVE  LET flows == NetContributions(ledger) + GrossOf(ledger, {"DIVIDEND"})
                          - GrossOf(ledger, {"FEE"})
           IN  flows \in Int /\ F[ledger] = F[TradesOfAll(Tickers)] + flows
<1> DEFINE gross == [e \in ledger |-> e.gross]
           Of(type) == {e \in ledger : e.type \in {type}}
           trades == TradesOfAll(Tickers)
<1>1. IsFiniteSet(ledger) /\ \A e \in ledger : e.gross \in Nat /\ e.gross \in Int
  BY DEF Booked
<1>2. gross \in [ledger -> Int] /\ \A e \in ledger : gross[e] = e.gross /\ gross[e] \in Int
  BY <1>1
<1> HIDE DEF gross
<1>3. PICK W : Additive(W, ledger, gross)
  BY <1>1, <1>2, SumsExist
<1>4. \A type : Of(type) \in SUBSET ledger
  OBVIOUS
<1>5. \A type : GrossOf(ledger, {type}) = W[Of(type)] /\ W[Of(type)] \in Int
  <2> SUFFICES ASSUME NEW type
               PROVE  GrossOf(ledger, {type}) = W[Of(type)] /\ W[Of(type)] \in Int
    OBVIOUS
  <2>0. Of(type) = OfTypes({type})
    BY DEF OfTypes
  <2> HIDE DEF Of
  <2>1. GrossOf(ledger, {type}) = W[Of(type)]
    BY <1>1, <1>2, <1>3, <2>0, GrossIs
  <2>2. W[Of(type)] \in Int
    BY <1>3, <1>4 DEF Additive
  <2> QED
    BY <2>1, <2>2
<1>6. /\ \A e \in Of("DEPOSIT") : val[e] = 1 * gross[e]
      /\ \A e \in Of("DIVIDEND") : val[e] = 1 * gross[e]
      /\ \A e \in Of("WITHDRAWAL") : val[e] = (-1) * gross[e]
      /\ \A e \in Of("FEE") : val[e] = (-1) * gross[e]
  <2>1. ASSUME NEW e \in ledger, e.type \in {"DEPOSIT", "DIVIDEND"} PROVE val[e] = 1 * gross[e]
    <3>1. CashEffect(e) = e.gross
      BY <2>1 DEF CashEffect
    <3> QED
      BY <1>2, <3>1
  <2>2. ASSUME NEW e \in ledger, e.type \in {"WITHDRAWAL", "FEE"} PROVE val[e] = (-1) * gross[e]
    <3>1. CashEffect(e) = - e.gross
      BY <2>2 DEF CashEffect
    <3> QED
      BY <1>2, <3>1
  <2> QED
    BY <2>1, <2>2
<1>7. \A e \in ledger : gross[e] \in Int /\ val[e] \in Int
  BY <1>2
<1>8. /\ trades \in SUBSET ledger
      /\ ledger = (((trades \cup Of("DEPOSIT")) \cup Of("DIVIDEND")) \cup Of("WITHDRAWAL")) \cup Of("FEE")
      /\ trades \cap Of("DEPOSIT") = {}
      /\ (trades \cup Of("DEPOSIT")) \cap Of("DIVIDEND") = {}
      /\ ((trades \cup Of("DEPOSIT")) \cup Of("DIVIDEND")) \cap Of("WITHDRAWAL") = {}
      /\ (((trades \cup Of("DEPOSIT")) \cup Of("DIVIDEND")) \cup Of("WITHDRAWAL")) \cap Of("FEE") = {}
  <2>1. \A e \in ledger : /\ e.type \in FlowTypes \cup TradeTypes \cup {"SPLIT"}
                          /\ e.type \in {"BUY", "SELL", "SPLIT"} => e.ticker \in Tickers
    BY DEF Booked, TradeTypes
  <2> QED
    BY <2>1 DEF TradesOfAll, FlowTypes, TradeTypes
<1>9. \A type : \A e \in Of(type) : gross[e] \in Int
  BY <1>4, <1>7
<1> HIDE DEF Of, trades
<1>10. 1 \in Int /\ -1 \in Int
  OBVIOUS
<1>11. /\ F[Of("DEPOSIT")] = 1 * W[Of("DEPOSIT")]
       /\ F[Of("DIVIDEND")] = 1 * W[Of("DIVIDEND")]
       /\ F[Of("WITHDRAWAL")] = (-1) * W[Of("WITHDRAWAL")]
       /\ F[Of("FEE")] = (-1) * W[Of("FEE")]
  <2>1. F[Of("DEPOSIT")] = 1 * W[Of("DEPOSIT")]
    BY <1>1, <1>3, <1>4, <1>6, <1>9, <1>10, SumOfMultiples
  <2>2. F[Of("DIVIDEND")] = 1 * W[Of("DIVIDEND")]
    BY <1>1, <1>3, <1>4, <1>6, <1>9, <1>10, SumOfMultiples
  <2>3. F[Of("WITHDRAWAL")] = (-1) * W[Of("WITHDRAWAL")]
    BY <1>1, <1>3, <1>4, <1>6, <1>9, <1>10, SumOfMultiples
  <2>4. F[Of("FEE")] = (-1) * W[Of("FEE")]
    BY <1>1, <1>3, <1>4, <1>6, <1>9, <1>10, SumOfMultiples
  <2> QED
    BY <2>1, <2>2, <2>3, <2>4
<1>0. \A a, b \in SUBSET ledger : a \cap b = {} => F[a \cup b] = F[a] + F[b]
  <2> SUFFICES ASSUME NEW a \in SUBSET ledger, NEW b \in SUBSET ledger, a \cap b = {}
               PROVE  F[a \cup b] = F[a] + F[b]
    OBVIOUS
  <2>1. IsFiniteSet(ledger) /\ \A e \in ledger : val[e] \in Int
    BY <1>1, <1>7
  <2> QED
    BY <2>1, SumOfUnion
<1>12. F[ledger] = (((F[trades] + F[Of("DEPOSIT")]) + F[Of("DIVIDEND")]) + F[Of("WITHDRAWAL")])
                     + F[Of("FEE")]
  <2> DEFINE a == trades \cup Of("DEPOSIT")
             b == a \cup Of("DIVIDEND")
             c == b \cup Of("WITHDRAWAL")
  <2>1. a \in SUBSET ledger /\ b \in SUBSET ledger /\ c \in SUBSET ledger
    BY <1>4, <1>8
  <2>2. F[trades \cup Of("DEPOSIT")] = F[trades] + F[Of("DEPOSIT")]
    BY <1>0, <1>4, <1>8
  <2>3. /\ a \cap Of("DIVIDEND") = {} /\ b \cap Of("WITHDRAWAL") = {} /\ c \cap Of("FEE") = {}
        /\ a = trades \cup Of("DEPOSIT") /\ b = a \cup Of("DIVIDEND")
        /\ c = b \cup Of("WITHDRAWAL") /\ ledger = c \cup Of("FEE")
    BY <1>8
  <2> HIDE DEF a, b, c
  <2>4. F[a \cup Of("DIVIDEND")] = F[a] + F[Of("DIVIDEND")]
    BY <1>0, <1>4, <2>1, <2>3
  <2>5. F[b \cup Of("WITHDRAWAL")] = F[b] + F[Of("WITHDRAWAL")]
    BY <1>0, <1>4, <2>1, <2>3
  <2>6. F[c \cup Of("FEE")] = F[c] + F[Of("FEE")]
    BY <1>0, <1>4, <2>1, <2>3
  <2> QED
    BY <2>2, <2>3, <2>4, <2>5, <2>6
<1>13. F[trades] \in Int
  BY <1>8 DEF Additive
<1> QED
  BY <1>5, <1>11, <1>12, <1>13 DEF NetContributions, trades

\* Lots that hold nothing cost nothing.
LEMMA NoneHeld ==
    ASSUME NEW lots \in Seq(Lots), \A i \in 1..Len(lots) : lots[i].qty > 0, ~(QtyOf(lots) > 0)
    PROVE  CostOf(lots) = 0
<1> DEFINE M == Len(lots)
<1>1. PICK X : QtyRuns(lots, X) /\ X[M] = QtyOf(lots)
  BY QtyOfRuns
<1>2. PICK C : CostRuns(lots, C) /\ C[M] = CostOf(lots)
  BY CostOfRuns
<1>3. M \in Nat /\ \A i \in 1..M : lots[i] \in Lots /\ lots[i].qty > 0
  OBVIOUS
<1>4. X \in [0..M -> Nat] /\ X[0] = 0 /\ (\A k \in 1..M : X[k] = X[k - 1] + lots[k].qty)
      /\ C[0] = 0
  BY <1>1, <1>2 DEF QtyRuns, CostRuns
<1> HIDE DEF M
<1>5. \A k \in 1..M : X[k - 1] < X[k]
  <2> SUFFICES ASSUME NEW k \in 1..M PROVE X[k - 1] < X[k]
    OBVIOUS
  <2>1. lots[k].qty \in Nat
    BY <1>3 DEF Lots
  <2>2. k - 1 \in 0..M /\ k \in 0..M
    BY <1>3
  <2>3. X[k - 1] \in Nat /\ X[k] \in Nat
    BY <1>4, <2>2
  <2>4. X[k] = X[k - 1] + lots[k].qty /\ lots[k].qty > 0
    BY <1>3, <1>4
  <2> QED
    BY <2>1, <2>3, <2>4
<1>6. M = 0
  <2> SUFFICES ASSUME M # 0 PROVE FALSE
    OBVIOUS
  <2>1. 0 \in 0..M /\ M \in 0..M /\ 0 < M
    BY <1>3
  <2>2. \A k \in 0..M : X[k] \in Nat
    BY <1>4
  <2>3. \A i, j \in 0..M : i < j => X[i] < X[j]
    BY <1>3, <1>5, <2>2, Climbs
  <2>4. X[0] < X[M]
    BY <2>1, <2>3
  <2> QED
    BY <1>1, <1>4, <2>4
<1> QED
  BY <1>2, <1>4, <1>6

\* The effects of the entries on cash.
LEMMA EffectsExist ==
    ASSUME Booked(ledger)
    PROVE  \E val, F : /\ Additive(F, ledger, val)
                       /\ \A e \in ledger : val[e] = CashEffect(e) /\ val[e] \in Int
<1> DEFINE val == [e \in ledger |-> CashEffect(e)]
<1>1. ASSUME NEW e \in ledger PROVE CashEffect(e) \in Int
  <2>1. e.gross \in Nat /\ e.fee \in Nat /\ e.type \in FlowTypes \cup TradeTypes \cup {"SPLIT"}
    BY DEF Booked
  <2> QED
    BY <2>1 DEF CashEffect, FlowTypes, TradeTypes
<1>2. val \in [ledger -> Int] /\ \A e \in ledger : val[e] = CashEffect(e) /\ val[e] \in Int
  BY <1>1
<1> HIDE DEF val
<1>3. PICK F : Additive(F, ledger, val)
  BY <1>2, SumsExist DEF Booked
<1> QED
  BY <1>2, <1>3

\* The replay of a ledger without oversold tickers.
LEMMA CalculationIs ==
    LET calc == Calculation(ledger)
        held == {t \in Tickers : QtyOf(Position(ledger, t).lots) > 0}
    IN  /\ calc.cash = LedgerCash(ledger)
        /\ DOMAIN calc.positions = held
        /\ \A t \in held : calc.positions[t].cost = CostOf(Position(ledger, t).lots)
        /\ calc.realized = [t \in Tickers |-> Position(ledger, t).realized]
        /\ calc.errors = {} <=> \A t \in Tickers : Position(ledger, t).oversold = {}
<1> DEFINE P == Positions(ledger)
<1>1. \A t \in Tickers : P[t] = Position(ledger, t)
  BY DEF Positions
<1> HIDE DEF P
<1>2. /\ Calculation(ledger).cash = LedgerCash(ledger)
      /\ Calculation(ledger).positions =
           [t \in {u \in Tickers : QtyOf(P[u].lots) > 0} |->
              [qty |-> QtyOf(P[t].lots), cost |-> CostOf(P[t].lots)]]
      /\ Calculation(ledger).realized = [t \in Tickers |-> P[t].realized]
      /\ Calculation(ledger).errors = UNION {P[t].oversold : t \in Tickers}
  BY DEF Calculation, P
<1>3. {u \in Tickers : QtyOf(P[u].lots) > 0} = {t \in Tickers : QtyOf(Position(ledger, t).lots) > 0}
  BY <1>1
<1>4. [t \in Tickers |-> P[t].realized] = [t \in Tickers |-> Position(ledger, t).realized]
  BY <1>1
<1>5. Calculation(ledger).errors = {} <=> \A t \in Tickers : Position(ledger, t).oversold = {}
  BY <1>1, <1>2
<1>6. \A t \in {u \in Tickers : QtyOf(P[u].lots) > 0} :
        Calculation(ledger).positions[t].cost = CostOf(Position(ledger, t).lots)
  BY <1>1, <1>2
<1> QED
  BY <1>2, <1>3, <1>4, <1>5, <1>6

-----------------------------------------------------------------------------
(* What the properties say of a ledger.                                     *)

\* The lots that are left are of the last purchases: FirstInFirstOut,
LEMMA FirstIn ==
    ASSUME Booked(ledger)
    PROVE  FirstInFirstOut
<1> SUFFICES ASSUME Replayable(Calculation(ledger)), NEW t \in Tickers
             PROVE  LET lots == Position(ledger, t).lots
                        open == InOrder({buy \in Trades(t, "BUY") : Remainder(t, buy) > 0})
                    IN  /\ Len(lots) = Len(open)
                        /\ \A i \in DOMAIN lots :
                             /\ lots[i].qty = Remainder(t, open[i])
                             /\ Remainder(t, open[i]) = UnitsOf(open[i])
                                => lots[i].cost = (open[i].gross + open[i].fee) * Cent
  BY DEF FirstInFirstOut
<1> DEFINE pos == Position(ledger, t)
<1>1. pos.oversold = {}
  BY CalculationIs DEF Replayable
<1>2. PICK val, F : Additive(F, ledger, val) /\ \A e \in ledger : val[e] = CashEffect(e)
  BY EffectsExist
<1>3. PICK q, n, w, B, S, d, m : Ends(t, q, n, w, B, S, d, m, pos)
  BY <1>2, ReplayEnds
<1> HIDE DEF pos
<1>4. LET lots == pos.lots
          open == InOrder({buy \in Trades(t, "BUY") : Remainder(t, buy) > 0})
      IN  /\ Len(lots) = Len(open)
          /\ \A i \in DOMAIN lots :
               /\ lots[i].qty = Remainder(t, open[i])
               /\ Remainder(t, open[i]) = UnitsOf(open[i])
                  => lots[i].cost = (open[i].gross + open[i].fee) * Cent
  BY <1>1, <1>3, LotsAreRemainders
<1> QED
  BY <1>4, Zenon DEF pos

\* a ticker is reported just if it was sold short: OversellReported,
LEMMA Oversold ==
    ASSUME Booked(ledger)
    PROVE  OversellReported
<1> DEFINE ok(t) == \A sell \in Trades(t, "SELL") :
                      Total(Upto(Trades(t, "SELL"), sell)) <= Total(Upto(Trades(t, "BUY"), sell))
<1>1. PICK val, F : Additive(F, ledger, val) /\ \A e \in ledger : val[e] = CashEffect(e)
  BY EffectsExist
<1>2. ASSUME NEW t \in Tickers PROVE Position(ledger, t).oversold = {} <=> ok(t)
  <2>1. PICK q, n, w, B, S, d, m : Ends(t, q, n, w, B, S, d, m, Position(ledger, t))
    BY <1>1, ReplayEnds
  <2> QED
    BY <2>1, OversoldIs
<1>3. Calculation(ledger).errors = {} <=> \A t \in Tickers : Position(ledger, t).oversold = {}
  BY CalculationIs
<1> HIDE DEF ok
<1>4. Calculation(ledger).errors = {} <=> \A t \in Tickers : ok(t)
  BY <1>2, <1>3
<1> QED
  BY <1>4, Zenon DEF ok, OversellReported

\* and cash, costs and profits are what went in and out: BooksBalance.
LEMMA Balance ==
    ASSUME Booked(ledger)
    PROVE  BooksBalance
<1> DEFINE calc == Calculation(ledger)
           pos == [t \in Tickers |-> Position(ledger, t)]
           h == [t \in Tickers |-> CostOf(pos[t].lots)]
           r == [t \in Tickers |-> pos[t].realized]
           held == {t \in Tickers : QtyOf(pos[t].lots) > 0}
           costs == [t \in DOMAIN calc.positions |-> calc.positions[t].cost]
           flows == NetContributions(ledger) + GrossOf(ledger, {"DIVIDEND"})
                      - GrossOf(ledger, {"FEE"})
<1> SUFFICES ASSUME Replayable(calc)
             PROVE  calc.cash * Cent + SumOf(costs) = flows * Cent + SumOf(calc.realized)
  BY Zenon DEF BooksBalance
<1>1. PICK val, F : /\ Additive(F, ledger, val)
                    /\ \A e \in ledger : val[e] = CashEffect(e) /\ val[e] \in Int
  BY EffectsExist
<1> DEFINE g == [t \in Tickers |-> F[TradesOf(ledger, t)]]
<1>2. \A t \in Tickers : pos[t] = Position(ledger, t)
  OBVIOUS
<1>3. /\ calc.cash = LedgerCash(ledger)
      /\ DOMAIN calc.positions = held
      /\ \A t \in held : calc.positions[t].cost = CostOf(pos[t].lots)
      /\ calc.realized = r
      /\ \A t \in Tickers : pos[t].oversold = {}
  <2>1. held = {t \in Tickers : QtyOf(Position(ledger, t).lots) > 0}
    BY <1>2
  <2>2. r = [t \in Tickers |-> Position(ledger, t).realized]
    BY <1>2
  <2> HIDE DEF held, r
  <2>3. calc.errors = {}
    BY DEF Replayable
  <2> HIDE DEF calc
  <2>4. /\ calc.cash = LedgerCash(ledger)
        /\ DOMAIN calc.positions = held
        /\ \A t \in held : calc.positions[t].cost = CostOf(Position(ledger, t).lots)
        /\ calc.realized = r
        /\ \A t \in Tickers : Position(ledger, t).oversold = {}
    BY <2>1, <2>2, <2>3, CalculationIs, Zenon DEF calc
  <2>5. held \subseteq Tickers
    BY <2>1
  <2> QED
    BY <1>2, <2>4, <2>5
<1>4. costs = [t \in DOMAIN calc.positions |-> calc.positions[t].cost]
  OBVIOUS
<1>5. ASSUME NEW t \in Tickers
      PROVE  /\ CostOf(pos[t].lots) \in Int /\ pos[t].realized \in Int
             /\ F[TradesOf(ledger, t)] \in Int
             /\ CostOf(pos[t].lots) = pos[t].realized - F[TradesOf(ledger, t)] * Cent
             /\ t \notin held => CostOf(pos[t].lots) = 0
  <2>1. PICK q, n, w, B, S, d, m : Ends(t, q, n, w, B, S, d, m, Position(ledger, t))
    BY <1>1, ReplayEnds
  <2>2. CostOf(Position(ledger, t).lots)
          = Position(ledger, t).realized - F[TradesOf(ledger, t)] * Cent
    <3>1. Position(ledger, t).oversold = {} /\ \A e \in ledger : val[e] = CashEffect(e)
      BY <1>1, <1>2, <1>3
    <3> HIDE DEF pos
    <3> QED
      BY <1>1, <3>1, ReplayEnds
  <2>3. Ends(t, q, n, w, B, S, d, m, pos[t]) /\ pos[t].oversold = {}
        /\ CostOf(pos[t].lots) = pos[t].realized - F[TradesOf(ledger, t)] * Cent
        /\ (t \notin held => ~(QtyOf(pos[t].lots) > 0))
    BY <1>2, <1>3, <2>1, <2>2
  <2>4. TradesOf(ledger, t) \in SUBSET ledger
    BY DEF TradesOf
  <2>5. F[TradesOf(ledger, t)] \in Int
    BY <1>1, <2>4 DEF Additive
  <2> HIDE DEF pos, held
  <2>6. pos[t].lots \in Seq(Lots) /\ pos[t].realized \in Int
    BY <2>3 DEF Ends
  <2>7. \A i \in 1..Len(pos[t].lots) : pos[t].lots[i].qty > 0
    <3>1. PICK s, E : Stacked(q, B, S, d, m, n, pos[t].lots, s, E)
      BY <2>3 DEF Ends
    <3> QED
      BY <3>1 DEF Stacked
  <2>8. CostOf(pos[t].lots) \in Int
    BY <2>6, CostTyped
  <2>9. t \notin held => CostOf(pos[t].lots) = 0
    BY <2>3, <2>6, <2>7, NoneHeld
  <2> QED
    BY <2>3, <2>5, <2>6, <2>8, <2>9
<1>6. held \in SUBSET Tickers
  OBVIOUS
<1> HIDE DEF calc, pos, held, costs
<1>7. /\ h \in [Tickers -> Int] /\ r \in [Tickers -> Int] /\ g \in [Tickers -> Int]
      /\ \A t \in Tickers : /\ h[t] = CostOf(pos[t].lots) /\ h[t] \in Int
                            /\ r[t] = pos[t].realized /\ r[t] \in Int
                            /\ g[t] = F[TradesOf(ledger, t)] /\ g[t] \in Int
  BY <1>5
<1>8. DOMAIN r = Tickers
  OBVIOUS
<1> HIDE DEF h, r, g
<1>9. IsFiniteSet(Tickers)
  BY EntriesAssumption
<1>10. PICK H : Additive(H, Tickers, h)
  BY <1>7, <1>9, SumsExist
<1>11. PICK R : Additive(R, Tickers, r)
  BY <1>7, <1>9, SumsExist
<1>12. PICK G : Additive(G, Tickers, g)
  BY <1>7, <1>9, SumsExist
<1>13. Cent \in Int
  BY ScaleAssumption
<1>14. \A t \in Tickers : r[t] \in Int /\ g[t] \in Int /\ h[t] = r[t] - g[t] * Cent
  BY <1>5, <1>7
<1>15. H[Tickers] = R[Tickers] - G[Tickers] * Cent
  BY <1>9, <1>10, <1>11, <1>12, <1>13, <1>14, SumOfDifferences
<1>16. F[TradesOfAll(Tickers)] = G[Tickers]
  <2>1. IsFiniteSet(ledger) /\ (\A e \in ledger : val[e] \in Int)
        /\ \A t \in Tickers : g[t] = F[TradesOf(ledger, t)]
    BY <1>1, <1>7 DEF Booked
  <2> QED
    BY <1>1, <1>12, <2>1, SumByTicker
<1>17. flows \in Int /\ F[ledger] = F[TradesOfAll(Tickers)] + flows
  BY <1>1, FlowsAre
<1>18. calc.cash = F[ledger]
  <2>1. IsFiniteSet(ledger)
    BY DEF Booked
  <2>2. LedgerCash(ledger) = F[ledger]
    BY <1>1, <2>1, CashIs
  <2> QED
    BY <1>3, <2>2
<1>19. \A t \in Tickers : h[t] \in Int /\ r[t] \in Int
  BY <1>7
<1>20. SumOf(calc.realized) = R[Tickers]
  <2>1. Tickers \in SUBSET Tickers /\ DOMAIN r = Tickers /\ (\A t \in Tickers : r[t] \in Int)
        /\ \A t \in Tickers : r[t] = r[t]
    BY <1>8, <1>19
  <2>2. SumOf(r) = R[Tickers]
    BY <1>9, <1>11, <2>1, SumOfIs
  <2> QED
    BY <1>3, <2>2
<1>21. SumOf(costs) = H[held]
  <2>1. DOMAIN costs = held /\ \A t \in held : costs[t] = h[t]
    BY <1>3, <1>4, <1>6, <1>7
  <2>2. \A t \in Tickers : h[t] \in Int
    BY <1>19
  <2> QED
    BY <1>6, <1>9, <1>10, <2>1, <2>2, SumOfIs
<1>22. H[held] = H[Tickers]
  <2> DEFINE rest == Tickers \ held
  <2>1. rest \in SUBSET Tickers /\ held \cap rest = {} /\ held \cup rest = Tickers
    BY <1>6
  <2>2. \A t \in rest : h[t] \in Int /\ h[t] = 0 * h[t]
    <3>1. \A t \in rest : h[t] \in Int /\ h[t] = 0
      BY <1>5, <1>7
    <3> QED
      BY <3>1
  <2> HIDE DEF rest
  <2>3. \A t \in Tickers : h[t] \in Int
    BY <1>19
  <2>4. H[held \cup rest] = H[held] + H[rest]
    BY <1>6, <1>9, <1>10, <2>1, <2>3, SumOfUnion
  <2>5. H[rest] = 0 * H[rest]
    <3>1. 0 \in Int
      OBVIOUS
    <3> QED
      BY <1>9, <1>10, <2>1, <2>2, <3>1, SumOfMultiples
  <2>6. H[rest] \in Int /\ H[held] \in Int
    BY <1>6, <1>10, <2>1 DEF Additive
  <2>7. \A x, y \in Int : x = 0 * x => y + x = y
    OBVIOUS
  <2>8. H[held] + H[rest] = H[held]
    BY <2>5, <2>6, <2>7
  <2> QED
    BY <2>1, <2>4, <2>8
<1>23. R[Tickers] \in Int /\ G[Tickers] \in Int
  <2>1. Tickers \in SUBSET Tickers
    OBVIOUS
  <2> QED
    BY <1>11, <1>12, <2>1 DEF Additive
<1> HIDE DEF flows
<1>24. \A a, b, c \in Int : (a + b) * Cent + (c - a * Cent) = b * Cent + c
  BY <1>13
<1>25. (G[Tickers] + flows) * Cent + (R[Tickers] - G[Tickers] * Cent) = flows * Cent + R[Tickers]
  BY <1>17, <1>23, <1>24
<1> QED
  BY <1>15, <1>16, <1>17, <1>18, <1>20, <1>21, <1>22, <1>25, Zenon

-----------------------------------------------------------------------------
(* What the books do to a ledger.                                           *)

\* Entries are recorded under ids of their own, no more of them than ids.
BookInvariant ==
    /\ nextId \in 1..(MaxId + 1)
    /\ IsFiniteSet(ledger) /\ Cardinality(ledger) <= nextId - 1
    /\ \A e \in ledger : /\ e.id \in 1..(nextId - 1)
                         /\ \E f \in Entries : e = Recorded(f, e.id)
    /\ \A e, f \in ledger : e.id = f.id => e = f

\* A recorded entry has the fields of the request.
LEMMA RecordedIs ==
    ASSUME NEW f \in Entries, NEW id \in Int
    PROVE  LET e == Recorded(f, id)
           IN  /\ e.id = id
               /\ e.type \in FlowTypes \cup TradeTypes \cup {"SPLIT"}
               /\ e.day \in Int /\ e.gross \in Nat /\ e.fee \in Nat
               /\ e.type \in TradeTypes => e.ticker \in Tickers /\ e.qty \in Nat \ {0}
               /\ e.type = "SPLIT" => e.ticker \in Tickers /\ e.ratio \in Nat \ {0}
<1> DEFINE e == Recorded(f, id)
<1>1. /\ e.id = id /\ e.type = f.type /\ e.day = f.day /\ e.gross = f.gross /\ e.fee = f.fee
      /\ e.ticker = f.ticker /\ e.qty = f.qty /\ e.ratio = f.ratio
  BY DEF Recorded
<1>2. /\ f.type \in FlowTypes \cup TradeTypes \cup {"SPLIT"}
      /\ f.day \in Int /\ f.gross \in Nat /\ f.fee \in Nat
      /\ f.type \in TradeTypes => f.ticker \in Tickers /\ f.qty \in Nat \ {0}
      /\ f.type = "SPLIT" => f.ticker \in Tickers /\ f.ratio \in Nat \ {0}
  BY EntriesAssumption
<1> HIDE DEF e
<1> QED
  BY <1>1, <1>2 DEF e

\* A ledger of that kind is one the lemmas speak of.
LEMMA BookIsBooked ==
    ASSUME BookInvariant
    PROVE  Booked(ledger) /\ TypeOK
<1>1. /\ nextId \in 1..(MaxId + 1) /\ MaxId \in Nat
      /\ IsFiniteSet(ledger) /\ Cardinality(ledger) <= nextId - 1
      /\ \A e \in ledger : e.id \in 1..(nextId - 1)
      /\ \A e, f \in ledger : e.id = f.id => e = f
  BY EntriesAssumption DEF BookInvariant
<1>2. Cardinality(ledger) <= MaxId
  BY <1>1, FS_CardinalityType
<1>3. ASSUME NEW e \in ledger
      PROVE  /\ e.type \in FlowTypes \cup TradeTypes \cup {"SPLIT"}
             /\ e.id \in Int /\ e.day \in Int /\ e.gross \in Nat /\ e.fee \in Nat
             /\ e.type \in TradeTypes => e.ticker \in Tickers /\ e.qty \in Nat \ {0}
             /\ e.type = "SPLIT" => e.ticker \in Tickers /\ e.ratio \in Nat \ {0}
  <2>1. PICK f \in Entries : e = Recorded(f, e.id)
    BY DEF BookInvariant
  <2>2. e.id \in Int
    BY <1>1
  <2> DEFINE id == e.id
             g == Recorded(f, id)
  <2>3. id \in Int /\ g = e
    BY <2>1, <2>2
  <2> HIDE DEF id
  <2>4. /\ g.type \in FlowTypes \cup TradeTypes \cup {"SPLIT"}
        /\ g.day \in Int /\ g.gross \in Nat /\ g.fee \in Nat
        /\ g.type \in TradeTypes => g.ticker \in Tickers /\ g.qty \in Nat \ {0}
        /\ g.type = "SPLIT" => g.ticker \in Tickers /\ g.ratio \in Nat \ {0}
    BY <2>3, RecordedIs
  <2> HIDE DEF g
  <2> QED
    BY <2>2, <2>3, <2>4
<1>4. Booked(ledger)
  BY <1>1, <1>2, <1>3 DEF Booked
<1>5. TypeOK
  BY <1>1 DEF TypeOK
<1> QED
  BY <1>4, <1>5

\* The empty ledger is one,
LEMMA BookStarts == Init => BookInvariant
<1> SUFFICES ASSUME Init PROVE BookInvariant
  OBVIOUS
<1>1. ledger = {} /\ nextId = 1 /\ MaxId \in Nat
  BY EntriesAssumption DEF Init
<1>2. IsFiniteSet({}) /\ Cardinality({}) = 0
  BY FS_EmptySet
<1> QED
  BY <1>1, <1>2 DEF BookInvariant

\* a recorded and a deleted entry leave one,
LEMMA BookSteps ==
    ASSUME BookInvariant, Next \/ UNCHANGED vars
    PROVE  BookInvariant'
<1>1. /\ nextId \in 1..(MaxId + 1) /\ MaxId \in Nat
      /\ IsFiniteSet(ledger) /\ Cardinality(ledger) <= nextId - 1
      /\ \A e \in ledger : e.id \in 1..(nextId - 1)
      /\ \A e \in ledger : \E f \in Entries : e = Recorded(f, e.id)
      /\ \A e, f \in ledger : e.id = f.id => e = f
  BY EntriesAssumption DEF BookInvariant
<1>2. ASSUME NEW f \in Entries, Record(f)
      PROVE  BookInvariant'
  <2> DEFINE new == Recorded(f, nextId)
  <2>1. /\ nextId <= MaxId /\ ledger' = ledger \cup {new} /\ nextId' = nextId + 1
    BY <1>2 DEF Record
  <2>2. new.id = nextId /\ new = Recorded(f, new.id)
    BY DEF Recorded
  <2> HIDE DEF new
  <2>3. new \notin ledger
    BY <1>1, <2>2
  <2>4. IsFiniteSet(ledger') /\ Cardinality(ledger') = Cardinality(ledger) + 1
    BY <1>1, <2>1, <2>3, FS_AddElement
  <2>5. nextId' \in 1..(MaxId + 1) /\ Cardinality(ledger') <= nextId' - 1
    <3>1. Cardinality(ledger) \in Nat
      BY <1>1, FS_CardinalityType
    <3> QED
      BY <1>1, <2>1, <2>4, <3>1
  <2>6. \A e \in ledger' : e.id \in 1..(nextId' - 1)
    BY <1>1, <2>1, <2>2
  <2>7. \A e \in ledger' : \E g \in Entries : e = Recorded(g, e.id)
    BY <1>1, <1>2, <2>1, <2>2
  <2>8. \A e, g \in ledger' : e.id = g.id => e = g
    BY <1>1, <2>1, <2>2
  <2> QED
    BY <2>4, <2>5, <2>6, <2>7, <2>8 DEF BookInvariant
<1>3. ASSUME NEW e \in ledger, Erase(e)
      PROVE  BookInvariant'
  <2>1. ledger' = ledger \ {e} /\ nextId' = nextId
    BY <1>3 DEF Erase
  <2>2. IsFiniteSet(ledger') /\ Cardinality(ledger') = Cardinality(ledger) - 1
    BY <1>1, <2>1, FS_RemoveElement
  <2>3. Cardinality(ledger') <= nextId' - 1
    <3>1. Cardinality(ledger) \in Nat
      BY <1>1, FS_CardinalityType
    <3> QED
      BY <1>1, <2>1, <2>2, <3>1
  <2> QED
    BY <1>1, <2>1, <2>2, <2>3 DEF BookInvariant
<1>4. CASE UNCHANGED vars
  <2>1. ledger' = ledger /\ nextId' = nextId
    BY <1>4 DEF vars
  <2> QED
    BY <1>1, <2>1 DEF BookInvariant
<1> QED
  BY <1>2, <1>3, <1>4 DEF Next

\* and the books of every such ledger add up.
LEMMA BookAddsUp ==
    ASSUME BookInvariant
    PROVE  BooksBalance /\ FirstInFirstOut /\ OversellReported
<1>1. Booked(ledger)
  BY BookIsBooked
<1> QED
  BY <1>1, Balance, FirstIn, Oversold

\* Whatever is recorded and deleted, in whatever order: the books balance to the last
\* calculation unit, the open lots are what the first purchases have left, and a replay
\* reports an oversold ticker if and only if one is (PortfolioLedgerCalculator).
THEOREM TheLedgerAddsUp == Spec => [](TypeOK /\ BooksBalance /\ FirstInFirstOut /\ OversellReported)
<1>1. Init => BookInvariant
  BY BookStarts
<1>2. BookInvariant /\ [Next]_vars => BookInvariant'
  BY BookSteps
<1>3. BookInvariant => TypeOK /\ BooksBalance /\ FirstInFirstOut /\ OversellReported
  BY BookIsBooked, BookAddsUp
<1> QED
  BY <1>1, <1>2, <1>3, PTL DEF Spec

-----------------------------------------------------------------------------
(* The ledger of institutional holdings. A generation has the filings of  *)
(* the days it covers, and what it stores for a filing depends on the     *)
(* filings before it only. A filing that a later generation adds is of a  *)
(* later day, so that it is neither available by the day after nor        *)
(* before any filing the earlier one has.                                 *)

\* The next session is after the day, and not before the next session of an earlier one.
LEMMA SessionsFollow ==
    ASSUME Filings!Calendar, NEW date \in 1..LastFilingDay
    PROVE  /\ Filings!NextMarketSession(date) \in Int /\ Filings!NextMarketSession(date) > date
           /\ \A earlier \in 1..LastFilingDay :
                 earlier < date => Filings!NextMarketSession(earlier) <= Filings!NextMarketSession(date)
<1>1. \A d \in 1..LastFilingDay : Filings!NextMarketSession(d) \in MarketDays /\ Filings!IsNextSession(Filings!NextMarketSession(d), d)
  BY DEF Filings!Calendar, Filings!NextMarketSession
<1>2. date \in Int /\ \A d \in 1..LastFilingDay : d \in Int /\ Filings!NextMarketSession(d) \in Int
  <2>1. LastFilingDay \in Int /\ MarketDays \subseteq Int
    BY DEF Filings!Calendar
  <2>2. ASSUME NEW d \in 1..LastFilingDay
        PROVE  d \in Int /\ Filings!NextMarketSession(d) \in Int
    <3>1. Filings!NextMarketSession(d) \in MarketDays
      BY <1>1
    <3>2. Filings!NextMarketSession(d) \in Int
      BY <2>1, <3>1, Zenon
    <3>3. d \in Int
      BY <2>1
    <3>4. QED
      BY <3>2, <3>3
  <2>3. QED
    BY <2>2
<1>3. Filings!NextMarketSession(date) > date
  BY <1>1 DEF Filings!IsNextSession
<1>4. ASSUME NEW earlier \in 1..LastFilingDay, earlier < date
      PROVE  Filings!NextMarketSession(earlier) <= Filings!NextMarketSession(date)
  <2>1. Filings!NextMarketSession(date) > earlier
    BY <1>2, <1>3, <1>4
  <2>2. QED
    BY <1>1, <2>1 DEF Filings!IsNextSession
<1>5. QED
  BY <1>2, <1>3, <1>4

\* Filings in an order of acceptance that their days follow, each with a number of its
\* own.
Accepted(p) ==
    /\ p \in Seq(Filings!Published)
    /\ \A i, j \in DOMAIN p : i < j => p[i].filed <= p[j].filed /\ p[i].accession # p[j].accession

\* The rows of the tables are those of the days covered, each with the state after it.
TablesFollow ==
    /\ day \in 1..LastFilingDay /\ covered \in 0..(day - 1)
    /\ Accepted(published)
    /\ \A row \in Filings!ToSet(published) : row.filed <= day
    /\ filings = Filings!Inserted({row \in Filings!ToSet(published) : row.filed <= covered})
    /\ \A row \in filings : Filings!Usable(row) => effective[row] = Filings!After(filings, row)

\* The elements of a sequence are of its type, ...
LEMMA ElementsTyped ==
    ASSUME NEW S, NEW s \in Seq(S)
    PROVE  Filings!ToSet(s) \subseteq S
  BY DEF Filings!ToSet

\* ... and one that is appended is added to them.
LEMMA ElementsGrow ==
    ASSUME NEW S, NEW s \in Seq(S), NEW e \in S
    PROVE  Filings!ToSet(Append(s, e)) = Filings!ToSet(s) \union {e}
<1>1. /\ Append(s, e) \in Seq(S) /\ DOMAIN Append(s, e) = DOMAIN s \union {Len(s) + 1}
      /\ Append(s, e)[Len(s) + 1] = e
      /\ \A i \in DOMAIN s : Append(s, e)[i] = s[i]
  OBVIOUS
<1>2. QED
  BY <1>1 DEF Filings!ToSet

\* The positions of a day that was covered, and of the next, stay.
LEMMA PositionsStay ==
    ASSUME TablesFollow, TablesFollow', Filings!Calendar, [Filings!Next]_(Filings!vars)
    PROVE  \A group \in Groups, date \in 1..(covered + 1) :
               Filings!PeriodPositions(group, date)' = Filings!PeriodPositions(group, date)
<1>1. CASE Filings!Generate
  <2> SUFFICES ASSUME NEW group \in Groups, NEW date \in 1..(covered + 1)
               PROVE  Filings!PeriodPositions(group, date)' = Filings!PeriodPositions(group, date)
    OBVIOUS
  <2>1. /\ covered \in Int /\ date \in Int /\ date <= covered + 1
        /\ \A row \in Filings!ToSet(published) : row.filed \in 1..LastFilingDay /\ row.filed \in Int
    <3>1. Filings!ToSet(published) \subseteq Filings!Published
      BY ElementsTyped DEF TablesFollow, Accepted
    <3>2. LastFilingDay \in Int
      BY DEF Filings!Calendar
    <3>3. QED
      BY <3>1, <3>2 DEF TablesFollow, Filings!Published
  <2>2. filings = {row \in filings' : row.filed <= covered} /\ filings' \subseteq Filings!ToSet(published)
    BY <1>1, <2>1 DEF Filings!Generate, TablesFollow, Filings!Inserted
  <2>3. \A row \in filings' : Filings!Availability(row) \in Int /\ Filings!Availability(row) > row.filed
    BY <2>1, <2>2, SessionsFollow DEF Filings!Availability
  <2>4. Filings!AvailableBy(group, date)' = Filings!AvailableBy(group, date)
    <3>1. \A row \in filings' : Filings!Availability(row) <= date => row.filed <= covered
      BY <2>1, <2>2, <2>3
    <3>2. QED
      BY <2>2, <3>1 DEF Filings!AvailableBy, Filings!Usable
  <2>5. ASSUME NEW last \in filings
        PROVE  Filings!Events(filings', last) = Filings!Events(filings, last)
    <3>1. ASSUME NEW row \in filings', Filings!Before(row, last)
          PROVE  row \in filings
      <4>1. last \in filings' /\ last.filed <= covered
        BY <2>2
      <4>2. row.filed > covered => Filings!Availability(last) <= Filings!Availability(row)
        BY <2>1, <2>2, <4>1, SessionsFollow DEF Filings!Availability
      <4>3. QED
        BY <2>1, <2>2, <2>3, <3>1, <4>1, <4>2 DEF Filings!Before
    <3>2. QED
      BY <2>2, <3>1 DEF Filings!Events
  <2>6. \A row \in filings : Filings!Usable(row) => effective'[row] = effective[row]
    BY <2>2, <2>5 DEF TablesFollow, Filings!After
  <2> DEFINE newest == Filings!Newest(Filings!AvailableBy(group, date))
  <2>7. newest # {} => /\ (CHOOSE row \in newest : TRUE) \in filings
                       /\ Filings!Usable(CHOOSE row \in newest : TRUE)
    BY DEF Filings!Newest, Filings!AvailableBy
  <2>8. newest # {} => effective'[CHOOSE row \in newest : TRUE] = effective[CHOOSE row \in newest : TRUE]
    BY <2>6, <2>7
  <2>9. QED
    BY <2>4, <2>8 DEF Filings!PeriodPositions
<1>2. CASE ~Filings!Generate
  <2>1. filings' = filings /\ effective' = effective
    BY <1>2 DEF Filings!Next, Filings!File, Filings!EndOfDay, Filings!vars
  <2>2. QED
    BY <2>1 DEF Filings!PeriodPositions, Filings!AvailableBy, Filings!Newest, Filings!Held
<1> QED
  BY <1>1, <1>2

-----------------------------------------------------------------------------
(* What a generation stores for a filing. The rows of a quarter stand in     *)
(* the order of their ranks, and the state is flushed along it; after each   *)
(* filing it says, of every security, what the first filing does that names  *)
(* it among those no later filing replaced. The filings without a selected   *)
(* security are no rows, but when none of them replaces what was reported,   *)
(* they change nothing that is said.                                         *)

\* Rows that Before can order: no two of a day have the same accession number.
Told(rows) ==
    /\ IsFiniteSet(rows) /\ rows \subseteq Filings!Published
    /\ \A row, other \in rows :
          row.filed = other.filed /\ row.accession = other.accession => row = other

\* They are ordered, and any two of them.
LEMMA RowsOrdered ==
    ASSUME Filings!Calendar, NEW E, Told(E)
    PROVE  /\ \A e \in E : ~Filings!Before(e, e)
           /\ \A e, f \in E : Filings!Before(e, f) => ~Filings!Before(f, e)
           /\ \A e, f \in E : e = f \/ Filings!Before(e, f) \/ Filings!Before(f, e)
           /\ \A e, f, g \in E : Filings!Before(e, f) /\ Filings!Before(f, g) => Filings!Before(e, g)
<1>1. \A e \in E : e.filed \in 1..LastFilingDay /\ e.filed \in Int /\ e.accession \in Int
  <2>1. LastFilingDay \in Int /\ \A a \in Filings!Accessions : a \in Int
    BY DEF Filings!Calendar, Filings!Accessions
  <2> QED
    BY <2>1 DEF Told, Filings!Published
<1>2. \A e \in E : Filings!Availability(e) \in Int
  BY <1>1, SessionsFollow DEF Filings!Availability
<1>3. \A e, f \in E : e.filed = f.filed /\ e.accession = f.accession => e = f
  BY DEF Told
<1> QED
  BY <1>1, <1>2, <1>3 DEF Filings!Before

\* A list of rows, in order.
Orders(q, n, rows) ==
    /\ q \in [1..n -> rows]
    /\ \A row \in rows : \E i \in 1..n : q[i] = row
    /\ \A i, j \in 1..n : i < j => Filings!Before(q[i], q[j])

\* The rows are counted as in FiniteSets.
LEMMA RowsCounted == \A S : Filings!Cardinality(S) = Cardinality(S)
BY Zenon DEF Cardinality, Filings!Cardinality

\* Every row is in its place.
LEMMA ChronologicalOrders ==
    ASSUME Filings!Calendar, NEW E, Told(E)
    PROVE  /\ Cardinality(E) \in Nat
           /\ Orders(Filings!Chronological(E), Cardinality(E), E)
<1> DEFINE R == {x \in E \X E : Filings!Before(x[1], x[2])}
           place(i) ==
               CHOOSE e \in E : Filings!Cardinality({f \in E : Filings!Before(f, e)}) = i - 1
           spot(i) == CHOOSE e \in E : Cardinality({f \in E : <<f, e>> \in R}) = i - 1
           q == Filings!Chronological(E)
<1>1. \A e, f \in E : <<e, f>> \in R <=> Filings!Before(e, f)
  OBVIOUS
<1> HIDE DEF R
<1>2. Ordering(R, E)
  BY <1>1, RowsOrdered DEF Ordering, Told
<1>3. \A S : Filings!Cardinality(S) = Cardinality(S)
  BY RowsCounted
<1>4. q = [i \in 1..Filings!Cardinality(E) |-> place(i)]
  BY Zenon DEF Filings!Chronological
<1>5. \A e \in E : {f \in E : <<f, e>> \in R} = {f \in E : Filings!Before(f, e)}
  BY <1>1
<1>6. \A i : place(i) = spot(i)
  BY <1>3, <1>5, Zenon
<1> HIDE DEF q, place
<1>7. q = [i \in 1..Cardinality(E) |-> spot(i)]
  <2> HIDE DEF spot
  <2>1. 1..Filings!Cardinality(E) = 1..Cardinality(E)
    BY <1>3, Zenon
  <2> QED
    BY <1>4, <1>6, <2>1
<1>8. Cardinality(E) \in Nat /\ Ranked(q, Cardinality(E), R, E)
  BY <1>2, <1>7, RanksList
<1>9. \A i, j \in 1..Cardinality(E) : i < j => Filings!Before(q[i], q[j])
  <2> SUFFICES ASSUME NEW i \in 1..Cardinality(E), NEW j \in 1..Cardinality(E), i < j
               PROVE  Filings!Before(q[i], q[j])
    OBVIOUS
  <2>1. q[i] \in E /\ q[j] \in E /\ <<q[i], q[j]>> \in R
    BY <1>8 DEF Ranked
  <2> QED
    BY <1>1, <2>1
<1>10. q \in [1..Cardinality(E) -> E] /\ \A e \in E : \E i \in 1..Cardinality(E) : q[i] = e
  BY <1>8 DEF Ranked
<1> QED
  BY <1>8, <1>9, <1>10 DEF Orders, q

-----------------------------------------------------------------------------
\* The securities that a filing names.
Names(i) == DOMAIN published[i].filing.holdings

\* What is said of the securities by some filings: of each, what the first one says that
\* names it and stands.
Says(v, K) ==
    /\ v = [t \in DOMAIN v |-> v[t]]
    /\ \A t : t \in DOMAIN v <=> \E i \in Filings!Standing(K) : t \in Names(i)
    /\ \A i \in Filings!Standing(K) : \A t \in Names(i) :
          (\A j \in Filings!Standing(K) : t \in Names(j) => i <= j)
          => v[t] = published[i].filing.holdings[t]

\* Nothing is said by none.
LEMMA NothingSays == Says(<<>>, {})
BY DEF Says, Filings!Standing

\* What a filing makes of a state.
LEMMA FlushIs ==
    ASSUME NEW v, NEW row
    PROVE  /\ row.filing.type # "NEW HOLDINGS" => Filings!Flush(v, row) = row.filing.holdings
           /\ row.filing.type = "NEW HOLDINGS" =>
                Filings!Flush(v, row) =
                    [t \in DOMAIN v \cup DOMAIN row.filing.holdings |->
                        IF t \in DOMAIN v THEN v[t] ELSE row.filing.holdings[t]]
BY DEF Filings!Flush, Filings!Joined

\* One more filing, the last, is added to what is said.
LEMMA FlushSays ==
    ASSUME NEW K, K \subseteq DOMAIN published, DOMAIN published \subseteq Nat,
           NEW m \in DOMAIN published, \A i \in K : i < m,
           published[m].filing.holdings = [t \in Names(m) |-> published[m].filing.holdings[t]],
           NEW v, Says(v, K)
    PROVE  Says(Filings!Flush(v, published[m]), K \cup {m})
<1> DEFINE h == published[m].filing.holdings
           w == Filings!Flush(v, published[m])
           old == Filings!Standing(K)
           new == Filings!Standing(K \cup {m})
<1>1. DOMAIN h = Names(m) /\ h = [t \in DOMAIN h |-> h[t]]
  BY DEF Names
<1>2. CASE published[m].filing.type # "NEW HOLDINGS"
  <2>1. new = {m}
    <3>1. \A i \in K \cup {m} : i \in Nat /\ i <= m
      OBVIOUS
    <3>2. m \in new
      BY <3>1 DEF Filings!Standing
    <3>3. \A i \in new : i \in K \cup {m} /\ m <= i
      BY <1>2 DEF Filings!Standing
    <3> HIDE DEF new
    <3> QED
      BY <3>1, <3>2, <3>3
  <2>2. w = h
    BY <1>2, FlushIs
  <2> HIDE DEF new, w, h
  <2>3. \A t : t \in DOMAIN w <=> \E i \in new : t \in Names(i)
    BY <1>1, <2>1, <2>2
  <2>4. \A i \in new : \A t \in Names(i) : w[t] = published[i].filing.holdings[t]
    BY <2>1, <2>2 DEF h
  <2> QED
    BY <1>1, <2>2, <2>3, <2>4 DEF Says, new, w
<1>3. CASE published[m].filing.type = "NEW HOLDINGS"
  <2>1. new = old \cup {m}
    <3>1. \A i \in K \cup {m} : i \in Nat /\ i <= m
      OBVIOUS
    <3>2. m \in new
      BY <3>1 DEF Filings!Standing
    <3>3. \A i \in K : i \in new <=> i \in old
      BY <1>3 DEF Filings!Standing
    <3>4. new \subseteq K \cup {m} /\ old \subseteq K
      BY DEF Filings!Standing
    <3> HIDE DEF new, old
    <3> QED
      BY <3>2, <3>3, <3>4
  <2>2. w = [t \in DOMAIN v \cup DOMAIN h |-> IF t \in DOMAIN v THEN v[t] ELSE h[t]]
    BY <1>3, FlushIs
  <2>0. \A i \in old : i < m /\ i \in Nat /\ m \in Nat
    BY DEF Filings!Standing
  <2>3. /\ \A t : t \in DOMAIN v <=> \E i \in old : t \in Names(i)
        /\ \A i \in old : \A t \in Names(i) :
              (\A j \in old : t \in Names(j) => i <= j) => v[t] = published[i].filing.holdings[t]
    BY DEF Says
  <2> HIDE DEF new, old, w, h
  <2>4. w = [t \in DOMAIN w |-> w[t]] /\ DOMAIN w = DOMAIN v \cup DOMAIN h
    BY <2>2
  <2>5. \A t : t \in DOMAIN w <=> \E i \in new : t \in Names(i)
    BY <1>1, <2>1, <2>3, <2>4
  <2>6. ASSUME NEW i \in new, NEW t \in Names(i), \A j \in new : t \in Names(j) => i <= j
        PROVE  w[t] = published[i].filing.holdings[t]
    <3>1. CASE t \in DOMAIN v
      <4>1. w[t] = v[t]
        BY <2>2, <3>1
      <4>2. PICK j \in old : t \in Names(j)
        BY <2>3, <3>1
      <4>3. i # m
        BY <2>0, <2>1, <2>6, <4>2
      <4>4. i \in old /\ \A k \in old : t \in Names(k) => i <= k
        BY <2>1, <2>6, <4>3
      <4> QED
        BY <2>3, <2>6, <4>1, <4>4
    <3>2. CASE t \notin DOMAIN v
      <4>1. i = m
        BY <2>1, <2>3, <2>6, <3>2
      <4>2. w[t] = h[t]
        BY <1>1, <2>2, <2>6, <3>2, <4>1
      <4> QED
        BY <4>1, <4>2 DEF h
    <3> QED
      BY <3>1, <3>2
  <2> QED
    BY <2>4, <2>5, <2>6 DEF Says, new, w
<1> QED
  BY <1>2, <1>3

-----------------------------------------------------------------------------
\* Numbers of shares of some securities.
Shares(T) == UNION {[D -> Nat] : D \in SUBSET T}

\* They are what they look like.
LEMMA SharesAre ==
    ASSUME NEW T, NEW v
    PROVE  v \in Shares(T) <=> /\ v = [t \in DOMAIN v |-> v[t]] /\ DOMAIN v \subseteq T
                               /\ \A t \in DOMAIN v : v[t] \in Nat
<1>1. ASSUME v \in Shares(T)
      PROVE  /\ v = [t \in DOMAIN v |-> v[t]] /\ DOMAIN v \subseteq T
             /\ \A t \in DOMAIN v : v[t] \in Nat
  <2>1. PICK D \in SUBSET T : v \in [D -> Nat]
    BY <1>1 DEF Shares
  <2> QED
    BY <2>1
<1>2. ASSUME v = [t \in DOMAIN v |-> v[t]], DOMAIN v \subseteq T,
             \A t \in DOMAIN v : v[t] \in Nat
      PROVE  v \in Shares(T)
  <2>1. v \in [DOMAIN v -> Nat]
    BY <1>2
  <2> QED
    BY <1>2, <2>1 DEF Shares
<1> QED
  BY <1>1, <1>2

\* A state stays one.
LEMMA FlushTyped ==
    ASSUME NEW T, NEW v \in Shares(T), NEW row, row.filing.holdings \in Shares(T)
    PROVE  Filings!Flush(v, row) \in Shares(T)
<1> DEFINE w == Filings!Flush(v, row)
           h == row.filing.holdings
<1>1. CASE row.filing.type # "NEW HOLDINGS"
  BY <1>1, FlushIs
<1>2. CASE row.filing.type = "NEW HOLDINGS"
  <2>1. w = [t \in DOMAIN v \cup DOMAIN h |-> IF t \in DOMAIN v THEN v[t] ELSE h[t]]
    BY <1>2, FlushIs
  <2>2. /\ DOMAIN v \subseteq T /\ \A t \in DOMAIN v : v[t] \in Nat
        /\ DOMAIN h \subseteq T /\ \A t \in DOMAIN h : h[t] \in Nat
    BY SharesAre
  <2> HIDE DEF w, h
  <2>3. w = [t \in DOMAIN w |-> w[t]] /\ DOMAIN w \subseteq T /\ \A t \in DOMAIN w : w[t] \in Nat
    BY <2>1, <2>2
  <2> QED
    BY <2>3, SharesAre DEF w
<1> QED
  BY <1>1, <1>2

\* The states from the first filing of a list to the last.
StateRuns(q, n, r) ==
    r[0] = <<>> /\ \A k \in 1..n : r[k] = Filings!Flush(r[k - 1], q[k])

\* The fold of a list of filings is the last of its states.
LEMMA FlushRuns ==
    ASSUME NEW T, NEW n \in Nat, NEW q, DOMAIN q = 1..n,
           \A k \in 1..n : q[k].filing.holdings \in Shares(T)
    PROVE  \E r : StateRuns(q, n, r) /\ r[n] = Filings!FoldLeft(Filings!Flush, <<>>, q)
<1> DEFINE combine == [x \in Shares(T) \X (1..n) |-> Filings!Flush(x[1], q[x[2]])]
           Iter == CHOOSE f : f = [s \in SUBSET (DOMAIN q) |->
                     IF s = {} THEN <<>> ELSE Filings!Flush(f[s \ {Filings!Max(s)}], q[Filings!Max(s)])]
           r == [k \in 0..n |-> Iter[1..k]]
<1>0. \A s : Filings!Max(s) = Max(s)
  BY Zenon DEF Max, Filings!Max
<1>1. <<>> \in Shares(T)
  <2>1. <<>> \in Seq(Nat) /\ Len(<<>>) = 0
    OBVIOUS
  <2>2. <<>> \in [1..0 -> Nat] /\ 1..0 = {}
    BY <2>1
  <2>3. {} \in SUBSET T
    OBVIOUS
  <2> QED
    BY <2>2, <2>3, Zenon DEF Shares
<1>2. combine \in [Shares(T) \X (1..n) -> Shares(T)]
  BY FlushTyped
<1>3. \A v \in Shares(T), k \in 1..n : combine[<<v, k>>] = Filings!Flush(v, q[k])
  OBVIOUS
<1> HIDE DEF combine
<1>4. PICK f : FoldsUp(f, n, Shares(T), <<>>, combine)
  BY <1>1, <1>2, FoldLeftExists
<1>5. \A s \in SUBSET (1..n) : s # {} => Max(s) \in 1..n /\ s \ {Max(s)} \in SUBSET (1..n)
  BY MaxIn
<1>6. f = [s \in SUBSET (DOMAIN q) |->
             IF s = {} THEN <<>> ELSE Filings!Flush(f[s \ {Filings!Max(s)}], q[Filings!Max(s)])]
  BY <1>0, <1>3, <1>4, <1>5 DEF FoldsUp
<1>7. Iter = [s \in SUBSET (DOMAIN q) |->
                IF s = {} THEN <<>> ELSE Filings!Flush(Iter[s \ {Filings!Max(s)}], q[Filings!Max(s)])]
  BY <1>6, Zenon
<1>8. Filings!FoldLeft(Filings!Flush, <<>>, q) = Iter[DOMAIN q]
  BY Zenon DEF Filings!FoldLeft, Filings!MapThenFoldSet
<1> HIDE DEF Iter
<1>9. Iter[{}] = <<>>
  BY <1>7
<1>10. ASSUME NEW k \in 1..n PROVE Iter[1..k] = Filings!Flush(Iter[1..(k - 1)], q[k])
  <2>1. /\ (1..k) \in SUBSET (DOMAIN q) /\ 1..k # {} /\ Filings!Max(1..k) = k
        /\ (1..k) \ {k} = 1..(k - 1)
    BY <1>0, Stretch, Zenon
  <2> QED
    BY <1>7, <2>1, Zenon
<1>11. r[0] = <<>>
  <2>1. 1..0 = {} /\ 0 \in 0..n
    OBVIOUS
  <2> QED
    BY <1>9, <2>1
<1>12. ASSUME NEW k \in 1..n PROVE r[k] = Filings!Flush(r[k - 1], q[k])
  <2>1. k \in 0..n /\ k - 1 \in 0..n
    OBVIOUS
  <2>2. r[k] = Iter[1..k] /\ r[k - 1] = Iter[1..(k - 1)]
    BY <2>1
  <2> QED
    BY <1>10, <2>2
<1>13. r[n] = Filings!FoldLeft(Filings!Flush, <<>>, q)
  <2>1. n \in 0..n
    OBVIOUS
  <2> QED
    BY <1>8, <2>1
<1> HIDE DEF r
<1> QED
  BY <1>11, <1>12, <1>13 DEF StateRuns

-----------------------------------------------------------------------------
\* Filings that are before one another in the order they were accepted in.
InTurn(K) ==
    /\ K \subseteq DOMAIN published
    /\ \A i, j \in K : i < j => Filings!Before(published[i], published[j])

\* Where the rows of a list were published, in the order of acceptance.
Places(at, q, n, K) ==
    /\ at \in [1..n -> K]
    /\ \A k \in 1..n : q[k] = published[at[k]]
    /\ \A k, l \in 1..n : k < l => at[k] < at[l]
    /\ \A i \in K : \E k \in 1..n : at[k] = i

\* Each has its place in a list of their rows.
LEMMA PlacesFollow ==
    ASSUME Filings!Calendar, NEW K, InTurn(K), DOMAIN published \subseteq Nat,
           NEW E, E = {published[i] : i \in K}, Told(E), NEW n \in Nat, NEW q, Orders(q, n, E)
    PROVE  \E at : Places(at, q, n, K)
<1> DEFINE at == [k \in 1..n |-> CHOOSE i \in K : published[i] = q[k]]
<1>0. /\ \A e \in E : ~Filings!Before(e, e)
      /\ \A e, f \in E : Filings!Before(e, f) => ~Filings!Before(f, e)
  BY RowsOrdered
<1>1. ASSUME NEW k \in 1..n PROVE at[k] \in K /\ q[k] = published[at[k]] /\ q[k] \in E
  <2>1. q[k] \in E
    BY DEF Orders
  <2>2. \E i \in K : published[i] = q[k]
    BY <2>1
  <2> QED
    BY <2>1, <2>2
<1>2. \A i \in K : i \in Nat /\ published[i] \in E
  BY DEF InTurn
<1>3. at \in [1..n -> K]
  BY <1>1
<1> HIDE DEF at
<1>4. ASSUME NEW i \in K, NEW j \in K, published[i] = published[j] PROVE i = j
  BY <1>0, <1>2, <1>4 DEF InTurn
<1>5. ASSUME NEW k \in 1..n, NEW l \in 1..n, k < l PROVE at[k] < at[l]
  <2>1. Filings!Before(published[at[k]], published[at[l]])
    BY <1>1, <1>5 DEF Orders
  <2>2. /\ at[k] \in K /\ at[l] \in K /\ at[k] \in Nat /\ at[l] \in Nat
        /\ published[at[k]] \in E /\ published[at[l]] \in E
    BY <1>1, <1>2
  <2>3. ~(at[l] < at[k])
    BY <1>0, <2>1, <2>2 DEF InTurn
  <2>4. at[l] # at[k]
    BY <1>0, <2>1, <2>2
  <2> QED
    BY <2>2, <2>3, <2>4
<1>6. ASSUME NEW i \in K PROVE \E k \in 1..n : at[k] = i
  <2>1. PICK k \in 1..n : q[k] = published[i]
    BY <1>2 DEF Orders
  <2> QED
    BY <1>1, <1>4, <2>1
<1>7. Places(at, q, n, K)
  BY <1>1, <1>3, <1>5, <1>6 DEF Places
<1> QED
  BY <1>7

\* After the last of some filings that follow, the state is what they say.
LEMMA LastSays ==
    ASSUME Filings!Calendar, NEW K, InTurn(K), DOMAIN published \subseteq Nat,
           NEW E, E = {published[i] : i \in K}, Told(E),
           NEW T, \A i \in K : published[i].filing.holdings \in Shares(T)
    PROVE  Says(Filings!FoldLeft(Filings!Flush, <<>>, Filings!Chronological(E)), K)
<1> DEFINE n == Cardinality(E)
           q == Filings!Chronological(E)
<1>1. n \in Nat /\ Orders(q, n, E)
  BY ChronologicalOrders
<1> HIDE DEF n, q
<1>2. PICK at : /\ at \in [1..n -> K]
                /\ \A k \in 1..n : q[k] = published[at[k]]
                /\ \A k, l \in 1..n : k < l => at[k] < at[l]
                /\ \A i \in K : \E k \in 1..n : at[k] = i
  <2>1. \E at : Places(at, q, n, K)
    BY <1>1, PlacesFollow
  <2> QED
    BY <2>1 DEF Places
<1>3. DOMAIN q = 1..n /\ \A k \in 1..n : q[k].filing.holdings \in Shares(T)
  <2>1. DOMAIN q = 1..n
    BY <1>1 DEF Orders
  <2>2. ASSUME NEW k \in 1..n PROVE q[k].filing.holdings \in Shares(T)
    <3>1. at[k] \in K /\ q[k] = published[at[k]]
      BY <1>2
    <3>2. published[at[k]].filing.holdings \in Shares(T)
      BY <3>1
    <3> QED
      BY <3>1, <3>2
  <2> QED
    BY <2>1, <2>2
<1>4. PICK r : StateRuns(q, n, r) /\ r[n] = Filings!FoldLeft(Filings!Flush, <<>>, q)
  BY <1>1, <1>3, FlushRuns
<1> DEFINE Up(k) == {at[l] : l \in 1..k}
           S == {k \in Nat : k <= n => Says(r[k], Up(k))}
<1>5. 0 \in S
  <2>1. Up(0) = {}
    OBVIOUS
  <2> QED
    BY <1>4, <2>1, NothingSays DEF StateRuns
<1>6. ASSUME NEW k \in Nat, k \in S PROVE k + 1 \in S
  <2> SUFFICES ASSUME k + 1 <= n PROVE Says(r[k + 1], Up(k + 1))
    OBVIOUS
  <2>1. k + 1 \in 1..n /\ (k + 1) - 1 = k /\ k <= n /\ 1..(k + 1) = 1..k \cup {k + 1}
    BY <1>1
  <2>2. Up(k + 1) = Up(k) \cup {at[k + 1]}
    BY <2>1
  <2>3. \A i \in Up(k) : i \in K /\ i < at[k + 1]
    <3>1. \A l \in 1..k : l \in 1..n /\ l < k + 1
      BY <1>1, <2>1
    <3> QED
      BY <1>2, <2>1, <3>1
  <2>4. Says(r[k], Up(k))
    BY <1>6, <2>1
  <2> HIDE DEF Up
  <2>5. at[k + 1] \in K /\ q[k + 1] = published[at[k + 1]]
    BY <1>2, <2>1
  <2>6. r[k + 1] = Filings!Flush(r[k], published[at[k + 1]])
    BY <1>4, <2>1, <2>5 DEF StateRuns
  <2>7. Up(k) \subseteq DOMAIN published /\ at[k + 1] \in DOMAIN published
    BY <2>3, <2>5 DEF InTurn
  <2>8. published[at[k + 1]].filing.holdings =
            [t \in Names(at[k + 1]) |-> published[at[k + 1]].filing.holdings[t]]
    BY <2>5, SharesAre DEF Names
  <2>9. Says(Filings!Flush(r[k], published[at[k + 1]]), Up(k) \cup {at[k + 1]})
    BY <2>3, <2>4, <2>7, <2>8, FlushSays
  <2> QED
    BY <2>2, <2>6, <2>9
<1>7. \A k \in Nat : k \in S
  <2> HIDE DEF S
  <2> QED
    BY <1>5, <1>6, Induction
<1>8. Says(r[n], Up(n))
  <2>1. n \in S
    <3> HIDE DEF S
    <3> QED
      BY <1>1, <1>7
  <2>2. n <= n
    BY <1>1
  <2> HIDE DEF Up
  <2> QED
    BY <2>1, <2>2
<1>9. Up(n) = K
  <2>1. \A k \in 1..n : at[k] \in K
    BY <1>2
  <2>2. \A i \in K : i \in Up(n)
    BY <1>2
  <2> QED
    BY <2>1, <2>2
<1> QED
  BY <1>4, <1>8, <1>9 DEF q

\* What of the filings known on a day are rows: those that name a security.
Rows(group, date) == {i \in Filings!Known(group, date) : Names(i) # {}}

\* A filing has its day and its number, and is available from the next session on.
LEMMA FilingsTyped ==
    ASSUME Filings!Calendar, Accepted(published), NEW i \in DOMAIN published
    PROVE  /\ published[i] \in Filings!Published /\ published[i] \in Filings!ToSet(published)
           /\ published[i].filing \in Filable /\ i \in Nat
           /\ published[i].filed \in 1..LastFilingDay /\ published[i].filed \in Int
           /\ Filings!Availability(published[i]) \in Int
           /\ Filings!Availability(published[i]) > published[i].filed
           /\ Filings!Availability(published[i]) \in MarketDays
           /\ \A s \in MarketDays : s > published[i].filed => Filings!Availability(published[i]) <= s
<1>1. published[i] \in Filings!Published /\ i \in Nat
  BY DEF Accepted
<1>2. published[i] \in Filings!ToSet(published)
  BY DEF Filings!ToSet
<1>3. /\ published[i].filing \in Filable /\ published[i].filed \in 1..LastFilingDay
      /\ LastFilingDay \in Int
  BY <1>1 DEF Filings!Published, Filings!Calendar
<1>4. /\ Filings!NextMarketSession(published[i].filed) \in MarketDays
      /\ Filings!IsNextSession(Filings!NextMarketSession(published[i].filed), published[i].filed)
  BY <1>3 DEF Filings!Calendar, Filings!NextMarketSession
<1> QED
  BY <1>1, <1>2, <1>3, <1>4, SessionsFollow DEF Filings!Availability, Filings!IsNextSession

\* The rows available on a day are of the filings known.
LEMMA AvailableAre ==
    ASSUME Filings!Calendar, TablesFollow, NEW group \in Groups, NEW date \in 1..(covered + 1)
    PROVE  Filings!AvailableBy(group, date) = {published[i] : i \in Rows(group, date)}
<1>1. covered \in Int /\ date \in Int /\ date <= covered + 1
  BY DEF TablesFollow
<1>2. ASSUME NEW i \in Rows(group, date)
      PROVE  published[i] \in Filings!AvailableBy(group, date)
  <2>1. /\ i \in DOMAIN published /\ Names(i) # {}
        /\ published[i].filing.group = group /\ Filings!Usable(published[i])
        /\ \E s \in MarketDays : published[i].filed < s /\ s <= date
    BY DEF Rows, Filings!Known
  <2>2. PICK s \in MarketDays : published[i].filed < s /\ s <= date
    BY <2>1
  <2>3. s \in Int
    BY DEF Filings!Calendar
  <2>4. /\ published[i] \in Filings!ToSet(published) /\ published[i].filed \in Int
        /\ Filings!Availability(published[i]) \in Int
        /\ Filings!Availability(published[i]) <= s
    BY <2>1, <2>2, <2>3, FilingsTyped DEF TablesFollow
  <2>5. Filings!Availability(published[i]) <= date /\ published[i].filed <= covered
    BY <1>1, <2>2, <2>3, <2>4
  <2>6. published[i] \in filings
    BY <2>1, <2>4, <2>5 DEF TablesFollow, Filings!Inserted, Names
  <2> QED
    BY <2>1, <2>5, <2>6 DEF Filings!AvailableBy
<1>3. ASSUME NEW row \in Filings!AvailableBy(group, date)
      PROVE  \E i \in Rows(group, date) : row = published[i]
  <2>1. /\ row \in filings /\ row.filing.group = group /\ Filings!Usable(row)
        /\ Filings!Availability(row) <= date
    BY DEF Filings!AvailableBy
  <2>2. row \in Filings!ToSet(published) /\ DOMAIN row.filing.holdings # {}
    BY <2>1 DEF TablesFollow, Filings!Inserted
  <2>3. PICK i \in DOMAIN published : row = published[i]
    BY <2>2 DEF Filings!ToSet
  <2>4. /\ Filings!Availability(row) \in MarketDays /\ Filings!Availability(row) > row.filed
        /\ Filings!Availability(row) \in Int /\ row.filed \in Int
    BY <2>3, FilingsTyped DEF TablesFollow
  <2>5. \E s \in MarketDays : row.filed < s /\ s <= date
    BY <2>1, <2>4
  <2> QED
    BY <2>1, <2>2, <2>3, <2>5 DEF Rows, Filings!Known, Names
<1> QED
  BY <1>2, <1>3

\* Filings of a group whose numbers follow are before one another.
LEMMA RowsInTurn ==
    ASSUME Filings!Calendar, TablesFollow, NEW group \in Groups, NEW date,
           Filings!InOrder(group)
    PROVE  InTurn(Rows(group, date))
<1>1. \A i \in Rows(group, date) : i \in DOMAIN published /\ published[i].filing.group = group
  BY DEF Rows, Filings!Known
<1>2. ASSUME NEW i \in Rows(group, date), NEW j \in Rows(group, date), i < j
      PROVE  Filings!Before(published[i], published[j])
  <2>1. /\ i \in DOMAIN published /\ published[i].filing.group = group
        /\ j \in DOMAIN published /\ published[j].filing.group = group
    BY <1>1
  <2>2. /\ published[i].filed \in 1..LastFilingDay /\ published[i].filed \in Int
        /\ published[j].filed \in 1..LastFilingDay /\ published[j].filed \in Int
        /\ Filings!Availability(published[i]) \in Int /\ Filings!Availability(published[j]) \in Int
    BY <2>1, FilingsTyped DEF TablesFollow
  <2>3. published[i].filed <= published[j].filed
    BY <1>2, <2>1 DEF TablesFollow, Accepted
  <2>4. published[i].filed = published[j].filed => published[i].accession < published[j].accession
    BY <1>2, <2>1 DEF Filings!InOrder
  <2>5. Filings!Availability(published[i]) <= Filings!Availability(published[j])
    BY <2>2, <2>3, SessionsFollow DEF Filings!Availability
  <2> QED
    BY <2>2, <2>3, <2>4, <2>5 DEF Filings!Before
<1> QED
  BY <1>1, <1>2 DEF InTurn

\* A finite number of rows, which their numbers tell apart.
LEMMA RowsTold ==
    ASSUME Filings!Calendar, TablesFollow, NEW K, K \subseteq DOMAIN published,
           NEW E, E = {published[i] : i \in K}
    PROVE  Told(E)
<1>1. \A i \in DOMAIN published : published[i] \in Filings!Published /\ i \in Nat
  BY FilingsTyped DEF TablesFollow
<1>2. IsFiniteSet(E)
  <2>1. IsFiniteSet(DOMAIN published)
    <3>1. Len(published) \in Nat /\ DOMAIN published = 1..Len(published)
      BY DEF TablesFollow, Accepted
    <3>2. 1 \in Int /\ Len(published) \in Int
      BY <3>1
    <3> QED
      BY <3>1, <3>2, FS_Interval
  <2>2. IsFiniteSet(K)
    BY <2>1, FS_Subset
  <2>3. [i \in K |-> published[i]] \in Surjection(K, E)
    BY DEF Surjection
  <2> QED
    BY <2>2, <2>3, FS_Surjection
<1>3. ASSUME NEW i \in K, NEW j \in K, published[i].accession = published[j].accession
      PROVE  i = j
  <2>1. i \in Nat /\ j \in Nat
    BY <1>1
  <2>2. ~(i < j) /\ ~(j < i)
    BY <1>3 DEF TablesFollow, Accepted
  <2> QED
    BY <2>1, <2>2
<1> QED
  BY <1>1, <1>2, <1>3 DEF Told

\* What is said by the filings kept is what is said by those known: the others name no
\* security, and replace nothing.
LEMMA RowsStand ==
    ASSUME Filings!FilingAssumption, Filings!Calendar, TablesFollow, NEW group \in Groups, NEW date,
           Filings!NamesASecurity(group)
    PROVE  \A i \in Filings!Known(group, date) :
               Names(i) # {} => (i \in Filings!Standing(Filings!Known(group, date))
                                 <=> i \in Filings!Standing(Rows(group, date)))
<1> DEFINE known == Filings!Known(group, date)
           kept == Rows(group, date)
<1>1. kept \subseteq known /\ \A i \in known : Names(i) # {} <=> i \in kept
  BY DEF Rows
<1>2. ASSUME NEW i \in known, published[i].filing.type # "NEW HOLDINGS" PROVE i \in kept
  <2>1. /\ i \in DOMAIN published /\ published[i].filing.group = group
        /\ Filings!Usable(published[i])
    BY DEF Filings!Known
  <2>2. published[i].filing \in Filable /\ published[i] \in Filings!ToSet(published)
    BY <2>1, FilingsTyped DEF TablesFollow
  <2>3. published[i].filing.type \in {"INITIAL", "RESTATEMENT"}
    BY <1>2, <2>1, <2>2 DEF Filings!FilingAssumption, Filings!Usable
  <2>4. Names(i) # {}
    BY <2>1, <2>2, <2>3 DEF Filings!NamesASecurity, Names
  <2> QED
    BY <1>1, <2>4
<1> HIDE DEF known, kept
<1>3. ASSUME NEW i \in kept
      PROVE  i \in Filings!Standing(known) <=> i \in Filings!Standing(kept)
  BY <1>1, <1>2 DEF Filings!Standing
<1> QED
  BY <1>1, <1>3 DEF known, kept

\* What they say is what is reported.
LEMMA SaidIsReported ==
    ASSUME Filings!FilingAssumption, Filings!Calendar, TablesFollow, NEW group \in Groups, NEW date,
           Filings!NamesASecurity(group), NEW v, Says(v, Rows(group, date))
    PROVE  Filings!Reported(group, date) = Filings!Held(v)
<1> DEFINE standing == Filings!Standing(Filings!Known(group, date))
           kept == Filings!Standing(Rows(group, date))
           First(t) == CHOOSE i \in standing :
                           t \in Names(i) /\ \A j \in standing : t \in Names(j) => i <= j
           w == [t \in UNION {Names(i) : i \in standing} |-> published[First(t)].filing.holdings[t]]
<1>1. Filings!Reported(group, date) = Filings!Held(w)
  BY Zenon DEF Filings!Reported, Names
<1>2. \A t, i : t \in Names(i) => (i \in standing <=> i \in kept)
  <2>1. standing \subseteq Filings!Known(group, date) /\ kept \subseteq Rows(group, date)
        /\ Rows(group, date) \subseteq Filings!Known(group, date)
    BY DEF Filings!Standing, Rows
  <2>2. \A t, i : t \in Names(i) => Names(i) # {}
    OBVIOUS
  <2> HIDE DEF standing, kept
  <2>3. \A i \in Filings!Known(group, date) : Names(i) # {} => (i \in standing <=> i \in kept)
    BY RowsStand DEF standing, kept
  <2> QED
    BY <2>1, <2>2, <2>3
<1>3. \A i \in standing : i \in Nat
  BY FilingsTyped DEF Filings!Standing, Filings!Known, TablesFollow
<1>4. /\ v = [t \in DOMAIN v |-> v[t]]
      /\ \A t : t \in DOMAIN v <=> \E i \in kept : t \in Names(i)
      /\ \A i \in kept : \A t \in Names(i) :
            (\A j \in kept : t \in Names(j) => i <= j) => v[t] = published[i].filing.holdings[t]
  BY DEF Says
<1> HIDE DEF standing, kept
<1>5. DOMAIN w = DOMAIN v
  <2>1. \A t : t \in DOMAIN w <=> \E i \in standing : t \in Names(i)
    OBVIOUS
  <2> QED
    BY <1>2, <1>4, <2>1
<1>6. ASSUME NEW t \in DOMAIN w PROVE w[t] = v[t]
  <2> DEFINE naming == {i \in standing : t \in Names(i)}
  <2>1. naming \subseteq Nat /\ naming # {}
    BY <1>3
  <2>2. \E i \in naming : \A j \in naming : i <= j
    <3> HIDE DEF naming
    <3> QED
      BY <2>1, Least
  <2>3. \E i \in standing : t \in Names(i) /\ \A j \in standing : t \in Names(j) => i <= j
    BY <2>2
  <2>4. /\ First(t) \in standing /\ t \in Names(First(t))
        /\ \A j \in standing : t \in Names(j) => First(t) <= j
    BY <2>3, Zenon
  <2>5. w[t] = published[First(t)].filing.holdings[t]
    OBVIOUS
  <2> HIDE DEF First, w
  <2> QED
    BY <1>2, <1>4, <2>4, <2>5
<1>7. w = v
  <2>1. w = [t \in DOMAIN w |-> w[t]]
    OBVIOUS
  <2> HIDE DEF w
  <2> QED
    BY <1>4, <1>5, <1>6, <2>1
<1> QED
  BY <1>1, <1>7, Zenon

\* The positions of a day are what was reported.
LEMMA PositionsAre ==
    ASSUME Filings!FilingAssumption, Filings!Calendar, TablesFollow, NEW group \in Groups,
           NEW date \in 1..(covered + 1), Filings!InOrder(group), Filings!NamesASecurity(group)
    PROVE  Filings!PeriodPositions(group, date) = Filings!Reported(group, date)
<1> DEFINE K == Rows(group, date)
           rows == Filings!AvailableBy(group, date)
           newest == Filings!Newest(rows)
<1>1. rows = {published[i] : i \in K} /\ Told(rows) /\ InTurn(K)
  <2>1. K \subseteq DOMAIN published
    BY DEF Rows, Filings!Known
  <2> HIDE DEF K
  <2> QED
    BY <2>1, AvailableAre, RowsInTurn, RowsTold DEF K
<1>2. /\ \A e \in rows : ~Filings!Before(e, e)
      /\ \A e, f \in rows : Filings!Before(e, f) => ~Filings!Before(f, e)
  BY <1>1, RowsOrdered
<1>3. DOMAIN published = 1..Len(published) /\ Len(published) \in Nat
  BY DEF TablesFollow, Accepted
<1>4. K \subseteq 1..Len(published)
  BY <1>1, <1>3 DEF InTurn
<1>5. CASE K = {}
  <2>1. newest = {}
    BY <1>1, <1>5 DEF Filings!Newest
  <2>2. Filings!PeriodPositions(group, date) = <<>>
    BY <2>1 DEF Filings!PeriodPositions
  <2>3. Says(<<>>, K)
    BY <1>5, NothingSays
  <2>4. Filings!Reported(group, date) = Filings!Held(<<>>)
    BY <2>3, SaidIsReported
  <2>5. Filings!Held(<<>>) = <<>>
    BY DEF Filings!Held
  <2> QED
    BY <2>2, <2>4, <2>5
<1>6. CASE K # {}
  <2>1. PICK m \in K : \A i \in K : i <= m
    <3> DEFINE U == {Len(published) - i : i \in K}
    <3>1. U \subseteq Nat /\ U # {}
      BY <1>3, <1>4, <1>6
    <3>2. PICK u \in U : \A k \in U : u <= k
      BY <3>1, Least
    <3>3. PICK m \in K : u = Len(published) - m
      BY <3>2
    <3>4. \A i \in K : i \in Int /\ Len(published) - i \in U
      BY <1>4
    <3> HIDE DEF U
    <3>5. \A i \in K : i <= m
      BY <1>3, <3>2, <3>3, <3>4
    <3> QED
      BY <3>5
  <2> DEFINE last == published[m]
  <2> HIDE DEF K
  <2>2. \A i \in K : i \in Nat /\ (i = m \/ Filings!Before(published[i], last))
    BY <1>1, <1>4, <2>1 DEF InTurn
  <2>3. last \in rows
    BY <1>1
  <2>4. newest = {last}
    <3> HIDE DEF rows
    <3>1. \A row \in rows : row = last \/ Filings!Before(row, last)
      BY <1>1, <2>2
    <3>2. \A row \in newest : row \in rows /\ (row = last \/ Filings!Before(last, row))
      BY <2>3 DEF Filings!Newest
    <3>3. last \in newest
      BY <2>3, <3>1 DEF Filings!Newest
    <3> HIDE DEF newest, last
    <3> QED
      BY <1>2, <2>3, <3>1, <3>2, <3>3
  <2>5. Filings!PeriodPositions(group, date) = Filings!Held(effective[last])
    <3> HIDE DEF last
    <3>1. newest # {} /\ (CHOOSE row \in newest : TRUE) = last
      BY <2>4
    <3> QED
      BY <3>1 DEF Filings!PeriodPositions
  <2>6. Filings!Events(filings, last) = rows
    <3>1. /\ last \in filings /\ last.filing.group = group /\ Filings!Usable(last)
          /\ Filings!Availability(last) <= date
      BY <2>3 DEF Filings!AvailableBy
    <3>2. ASSUME NEW row \in filings, Filings!Before(row, last)
          PROVE  Filings!Availability(row) <= date
      <4>1. row \in Filings!ToSet(published) /\ last \in Filings!ToSet(published)
        BY <3>1, <3>2 DEF TablesFollow, Filings!Inserted
      <4>2. Filings!Availability(row) \in Int /\ Filings!Availability(last) \in Int
        BY <4>1, FilingsTyped DEF TablesFollow, Filings!ToSet
      <4>3. date \in Int
        BY DEF TablesFollow
      <4> QED
        BY <3>1, <3>2, <4>2, <4>3 DEF Filings!Before
    <3>3. \A row \in rows : row = last \/ Filings!Before(row, last)
      BY <1>1, <2>2
    <3> QED
      BY <3>1, <3>2, <3>3 DEF Filings!Events, Filings!AvailableBy
  <2>7. effective[last] = Filings!FoldLeft(Filings!Flush, <<>>, Filings!Chronological(rows))
    <3>1. last \in filings /\ Filings!Usable(last)
      BY <2>3 DEF Filings!AvailableBy
    <3>2. effective[last] = Filings!After(filings, last)
      BY <3>1 DEF TablesFollow
    <3> QED
      BY <2>6, <3>2, Zenon DEF Filings!After
  <2> DEFINE T == UNION {Names(i) : i \in K}
  <2>8. \A i \in K : published[i].filing.holdings \in Shares(T)
    <3> SUFFICES ASSUME NEW i \in K PROVE published[i].filing.holdings \in Shares(T)
      OBVIOUS
    <3>1. published[i].filing \in Filable
      BY <1>1, FilingsTyped DEF TablesFollow, InTurn
    <3>2. published[i].filing.holdings \in [Names(i) -> Nat]
      BY <3>1 DEF Filings!FilingAssumption, Names
    <3>3. Names(i) \in SUBSET T
      OBVIOUS
    <3> HIDE DEF T
    <3> QED
      BY <3>2, <3>3 DEF Shares
  <2>9. Says(effective[last], K)
    <3> HIDE DEF T, rows, last
    <3> QED
      BY <1>1, <1>3, <2>7, <2>8, LastSays
  <2> QED
    BY <2>5, <2>9, SaidIsReported DEF K
<1> QED
  BY <1>5, <1>6

=============================================================================
