------------------------- MODULE TransactionsProofs -------------------------
(***************************************************************************)
(* Proofs about what a wallet builds, for any utxos, tokens, versions,     *)
(* fees, deposits and limits, and for any request within the assumption of *)
(* Transactions.  The inductive invariant says that what a call returned   *)
(* is what its builder prepares from the utxos that were available; each   *)
(* builder then has a lemma that says what it prepares is right.           *)
(*                                                                         *)
(* The sums are folds over finite sets: each fact about them is induction  *)
(* over the naturals, which is stated for a set (NatSet) because the       *)
(* provers cannot instantiate one for a predicate.                         *)
(***************************************************************************)
EXTENDS Transactions, FiniteSetTheorems, WellFoundedInduction, TLAPS

-----------------------------------------------------------------------------
(* Sums over finite sets *)

\* Induction over the naturals, for a set.
LEMMA NatSet ==
  ASSUME NEW S, 0 \in S, \A n \in Nat : n \in S => n + 1 \in S
  PROVE  Nat \subseteq S
<1> SUFFICES ASSUME Nat \ S # {} PROVE FALSE
  OBVIOUS
<1>1. PICK x \in Nat \ S : \A y \in Nat \ S : ~(<<y, x>> \in OpToRel(<, Nat))
  BY NatLessThanWellFounded, WFMin
<1>2. x # 0 /\ x - 1 \in Nat
  OBVIOUS
<1>3. <<x - 1, x>> \in OpToRel(<, Nat)
  <2>1. <<x - 1, x>> \in Nat \X Nat
    BY <1>2
  <2>2. <<x - 1, x>>[1] < <<x - 1, x>>[2]
    BY <1>2
  <2> QED
    BY <2>1, <2>2 DEF OpToRel
<1>4. x - 1 \in S
  BY <1>1, <1>2, <1>3
<1> QED
  BY <1>2, <1>4

LEMMA RemoveOne ==
  ASSUME NEW S, IsFiniteSet(S), NEW x \in S, NEW n \in Nat, Cardinality(S) = n + 1
  PROVE  Cardinality(S \ {x}) = n
<1>1. Cardinality(S \ {x}) = Cardinality(S) - 1
  BY FS_RemoveElement
<1> QED
  BY <1>1

\* What a sum iterates over.
IsSum(it, f, S) ==
  it = [T \in SUBSET S |-> IF T = {} THEN 0 ELSE f[CHOOSE x \in T : TRUE] + it[T \ {CHOOSE x \in T : TRUE}]]

LEMMA SumIs ==
  ASSUME NEW f, NEW S
  PROVE  SumFunctionOnSet(f, S) = (CHOOSE it : IsSum(it, f, S))[S]
BY DEF SumFunctionOnSet, FoldFunctionOnSet, MapThenFoldSet, IsSum

LEMMA SumExists ==
  ASSUME NEW f, NEW S, IsFiniteSet(S)
  PROVE  \E it : IsSum(it, f, S)
<1> DEFINE Next(g) == [T \in SUBSET S |-> IF T = {} THEN 0 ELSE f[CHOOSE x \in T : TRUE] + g[T \ {CHOOSE x \in T : TRUE}]]
           Reached(g, n) == \A T \in SUBSET S : Cardinality(T) <= n => g[T] = Next(g)[T]
           Is(n) == \E g : g = [T \in SUBSET S |-> g[T]] /\ Reached(g, n)
           N == {n \in Nat : Is(n)}
<1>1. \A T \in SUBSET S : IsFiniteSet(T) /\ Cardinality(T) \in Nat
  BY FS_Subset, FS_CardinalityType
<1>2. 0 \in N
  <2> DEFINE g == [T \in SUBSET S |-> 0]
  <2>1. ASSUME NEW T \in SUBSET S, Cardinality(T) <= 0 PROVE g[T] = Next(g)[T]
    <3>1. T = {}
      BY <1>1, <2>1, FS_EmptySet
    <3> QED
      BY <3>1
  <2>2. g = [T \in SUBSET S |-> g[T]]
    OBVIOUS
  <2>3. Is(0)
    BY <2>1, <2>2
  <2> QED
    BY <2>3
<1>3. ASSUME NEW n \in Nat, n \in N PROVE n + 1 \in N
  <2>1. PICK g : g = [T \in SUBSET S |-> g[T]] /\ Reached(g, n)
    BY <1>3
  <2> DEFINE h == Next(g)
  <2>2. ASSUME NEW T \in SUBSET S, Cardinality(T) <= n + 1 PROVE h[T] = Next(h)[T]
    <3>1. CASE T = {}
      BY <3>1
    <3>2. CASE T # {}
      <4> DEFINE x == CHOOSE x \in T : TRUE
      <4>1. x \in T
        BY <3>2
      <4>2. T \ {x} \in SUBSET S
        OBVIOUS
      <4> HIDE DEF x
      <4>6. IsFiniteSet(T)
        BY <1>1
      <4>7. Cardinality(T \ {x}) = Cardinality(T) - 1
        BY <4>1, <4>6, FS_RemoveElement
      <4>8. Cardinality(T \ {x}) <= n
        BY <4>7, <1>1, <2>2
      <4> USE DEF x
      <4>3. g[T \ {x}] = h[T \ {x}]
        BY <4>2, <4>8, <2>1
      <4>4. h[T] = f[x] + g[T \ {x}]
        BY <3>2
      <4>5. Next(h)[T] = f[x] + h[T \ {x}]
        BY <3>2
      <4> QED
        BY <4>3, <4>4, <4>5
    <3> QED
      BY <3>1, <3>2
  <2>3. h = [T \in SUBSET S |-> h[T]]
    OBVIOUS
  <2>4. Is(n + 1)
    BY <2>2, <2>3
  <2> HIDE DEF Is
  <2> QED
    BY <2>4
<1>4. Nat \subseteq N
  <2> HIDE DEF N
  <2> QED
    BY <1>2, <1>3, NatSet
<1>5. PICK g : g = [T \in SUBSET S |-> g[T]] /\ Reached(g, Cardinality(S))
  BY <1>1, <1>4
<1>6. \A T \in SUBSET S : g[T] = Next(g)[T]
  <2>1. \A T \in SUBSET S : Cardinality(T) <= Cardinality(S)
    BY FS_Subset
  <2> QED
    BY <1>5, <2>1
<1>7. g = Next(g)
  BY <1>5, <1>6
<1> QED
  BY <1>7 DEF IsSum

\* Induction over the subsets of a finite set, for a set of them.
LEMMA SubsetInduction ==
  ASSUME NEW S, IsFiniteSet(S), NEW K, {} \in K,
         \A T \in SUBSET S : \A x \in S \ T : T \in K => T \cup {x} \in K
  PROVE  \A T \in SUBSET S : T \in K
<1> DEFINE N == {n \in Nat : \A T \in SUBSET S : Cardinality(T) = n => T \in K}
<1>1. \A T \in SUBSET S : IsFiniteSet(T) /\ Cardinality(T) \in Nat
  BY FS_Subset, FS_CardinalityType
<1>2. 0 \in N
  BY <1>1, FS_EmptySet
<1>3. ASSUME NEW n \in Nat, n \in N PROVE n + 1 \in N
  <2>1. ASSUME NEW T \in SUBSET S, Cardinality(T) = n + 1 PROVE T \in K
    <3>1. T # {}
      <4>1. Cardinality(T) # 0
        BY <2>1
      <4> QED
        BY <4>1, FS_EmptySet
    <3>2. PICK x \in T : TRUE
      BY <3>1
    <3>6. IsFiniteSet(T)
      BY <1>1
    <3>3. Cardinality(T \ {x}) = n
      BY <3>2, <3>6, <2>1, RemoveOne
    <3>4. T \ {x} \in K
      BY <3>3, <1>3
    <3>5. T = (T \ {x}) \cup {x} /\ x \in S \ (T \ {x}) /\ T \ {x} \in SUBSET S
      BY <3>2
    <3> QED
      BY <3>4, <3>5
  <2> QED
    BY <2>1
<1>4. Nat \subseteq N
  <2> HIDE DEF N
  <2> QED
    BY <1>2, <1>3, NatSet
<1> QED
  BY <1>1, <1>4

LEMMA SumUnfolds ==
  ASSUME NEW f, NEW S, IsFiniteSet(S), S # {}
  PROVE  SumFunctionOnSet(f, S) = f[CHOOSE x \in S : TRUE] + SumFunctionOnSet(f, S \ {CHOOSE x \in S : TRUE})
<1> DEFINE x == CHOOSE x \in S : TRUE
           it == CHOOSE it : IsSum(it, f, S)
           R == S \ {x}
           jt == CHOOSE jt : IsSum(jt, f, R)
<1>1. IsSum(it, f, S)
  BY SumExists
<1>2. IsFiniteSet(R)
  BY FS_RemoveElement
<1>3. IsSum(jt, f, R)
  BY <1>2, SumExists
<1> HIDE DEF it, jt
<1> DEFINE K == {T \in SUBSET R : it[T] = jt[T]}
<1>4. {} \in K
  BY <1>1, <1>3 DEF IsSum
<1> DEFINE N == {n \in Nat : \A T \in SUBSET R : Cardinality(T) <= n => T \in K}
<1>5. \A T \in SUBSET R : IsFiniteSet(T) /\ Cardinality(T) \in Nat
  BY <1>2, FS_Subset, FS_CardinalityType
<1>6. 0 \in N
  <2>1. ASSUME NEW T \in SUBSET R, Cardinality(T) <= 0 PROVE T = {}
    <3>1. Cardinality(T) = 0
      BY <1>5, <2>1
    <3> QED
      BY <1>5, <3>1, FS_EmptySet
  <2> HIDE DEF K
  <2> QED
    BY <2>1, <1>4
<1>7. ASSUME NEW n \in Nat, n \in N PROVE n + 1 \in N
  <2>1. ASSUME NEW T \in SUBSET R, Cardinality(T) <= n + 1 PROVE T \in K
    <3>1. CASE T = {}
      BY <3>1, <1>4
    <3>2. CASE T # {}
      <4> DEFINE y == CHOOSE y \in T : TRUE
      <4>1. y \in T
        BY <3>2
      <4> HIDE DEF y
      <4>2. IsFiniteSet(T) /\ Cardinality(T) \in Nat
        BY <1>5
      <4>3. Cardinality(T \ {y}) = Cardinality(T) - 1
        BY <4>1, <4>2, FS_RemoveElement
      <4>4. T \ {y} \in K
        BY <4>2, <4>3, <1>7, <2>1
      <4> USE DEF y
      <4>5. it[T] = f[y] + it[T \ {y}]
        BY <1>1, <3>2 DEF IsSum
      <4>6. jt[T] = f[y] + jt[T \ {y}]
        BY <1>3, <3>2 DEF IsSum
      <4> QED
        BY <4>4, <4>5, <4>6
    <3> QED
      BY <3>1, <3>2
  <2> HIDE DEF K
  <2> QED
    BY <2>1
<1>8. Nat \subseteq N
  <2> HIDE DEF N
  <2> QED
    BY <1>6, <1>7, NatSet
<1>9. R \in K
  <2> HIDE DEF K
  <2> QED
    BY <1>8, <1>5
<1>10. it[S] = f[x] + it[R]
  BY <1>1 DEF IsSum
<1>11. SumFunctionOnSet(f, S) = it[S] /\ SumFunctionOnSet(f, R) = jt[R]
  BY SumIs DEF it, jt
<1> QED
  BY <1>9, <1>10, <1>11

LEMMA SumEmpty ==
  ASSUME NEW f
  PROVE  SumFunctionOnSet(f, {}) = 0
<1> DEFINE it == CHOOSE it : IsSum(it, f, {})
<1>1. IsSum(it, f, {})
  BY SumExists, FS_EmptySet
<1>2. it[{}] = 0
  BY <1>1 DEF IsSum
<1> QED
  BY <1>2, SumIs

LEMMA SumInt ==
  ASSUME NEW f, NEW S, IsFiniteSet(S), \A x \in S : f[x] \in Int
  PROVE  SumFunctionOnSet(f, S) \in Int
<1> DEFINE N == {n \in Nat : \A T \in SUBSET S : Cardinality(T) = n => SumFunctionOnSet(f, T) \in Int}
<1>1. \A T \in SUBSET S : IsFiniteSet(T) /\ Cardinality(T) \in Nat
  BY FS_Subset, FS_CardinalityType
<1>2. 0 \in N
  BY <1>1, FS_EmptySet, SumEmpty
<1>3. ASSUME NEW n \in Nat, n \in N PROVE n + 1 \in N
  <2>1. ASSUME NEW T \in SUBSET S, Cardinality(T) = n + 1 PROVE SumFunctionOnSet(f, T) \in Int
    <3>1. T # {}
      <4>1. Cardinality(T) # 0
        BY <2>1
      <4> QED
        BY <4>1, FS_EmptySet
    <3> DEFINE x == CHOOSE x \in T : TRUE
    <3>2. x \in T
      BY <3>1
    <3>3. IsFiniteSet(T)
      BY <1>1
    <3>4. SumFunctionOnSet(f, T) = f[x] + SumFunctionOnSet(f, T \ {x})
      BY <3>1, <3>3, SumUnfolds
    <3> HIDE DEF x
    <3>5. Cardinality(T \ {x}) = n
      BY <3>2, <3>3, <2>1, RemoveOne
    <3>6. SumFunctionOnSet(f, T \ {x}) \in Int
      BY <3>5, <1>3
    <3> QED
      BY <3>2, <3>4, <3>6
  <2> QED
    BY <2>1
<1>4. Nat \subseteq N
  <2> HIDE DEF N
  <2> QED
    BY <1>2, <1>3, NatSet
<1> QED
  BY <1>1, <1>4

\* A sum without one of its terms.
LEMMA SumRemove ==
  ASSUME NEW f, NEW S, IsFiniteSet(S), \A x \in S : f[x] \in Int, NEW a \in S
  PROVE  SumFunctionOnSet(f, S) = f[a] + SumFunctionOnSet(f, S \ {a})
<1> DEFINE Sum(T) == SumFunctionOnSet(f, T)
           N == {n \in Nat : \A T \in SUBSET S : Cardinality(T) = n =>
                                \A x \in T : Sum(T) = f[x] + Sum(T \ {x})}
<1>1. \A T \in SUBSET S : IsFiniteSet(T) /\ Cardinality(T) \in Nat
  BY FS_Subset, FS_CardinalityType
<1>5. \A T \in SUBSET S : Sum(T) \in Int
  BY <1>1, SumInt
<1>2. 0 \in N
  <2>1. ASSUME NEW T \in SUBSET S, Cardinality(T) = 0 PROVE T = {}
    BY <1>1, <2>1, FS_EmptySet
  <2> HIDE DEF Sum
  <2> QED
    BY <2>1
<1>3. ASSUME NEW n \in Nat, n \in N PROVE n + 1 \in N
  <2>1. ASSUME NEW T \in SUBSET S, Cardinality(T) = n + 1, NEW x \in T
        PROVE  Sum(T) = f[x] + Sum(T \ {x})
    <3> DEFINE c == CHOOSE c \in T : TRUE
    <3>2. c \in T
      OBVIOUS
    <3>3. IsFiniteSet(T) /\ T # {}
      BY <1>1
    <3>4. Sum(T) = f[c] + Sum(T \ {c})
      BY <3>3, SumUnfolds
    <3> HIDE DEF c
    <3>5. CASE x = c
      BY <3>4, <3>5
    <3>6. CASE x # c
      <4>1. Cardinality(T \ {c}) = n
        BY <3>2, <3>3, <2>1, RemoveOne
      <4>2. Cardinality(T \ {x}) = n
        BY <3>3, <2>1, RemoveOne
      <4> HIDE DEF Sum
      <4>3. Sum(T \ {c}) = f[x] + Sum((T \ {c}) \ {x})
        BY <4>1, <1>3, <3>6
      <4>4. Sum(T \ {x}) = f[c] + Sum((T \ {x}) \ {c})
        BY <4>2, <1>3, <3>2, <3>6
      <4>5. (T \ {c}) \ {x} = (T \ {x}) \ {c}
        OBVIOUS
      <4>6. f[x] \in Int /\ f[c] \in Int
        BY <3>2
      <4>7. Sum((T \ {x}) \ {c}) \in Int
        BY <1>5
      <4> DEFINE rest == Sum((T \ {x}) \ {c})
      <4>8. Sum(T) = f[c] + (f[x] + rest)
        BY <3>4, <4>3, <4>5
      <4>9. Sum(T \ {x}) = f[c] + rest
        BY <4>4
      <4>10. rest \in Int
        BY <4>7
      <4> HIDE DEF rest
      <4> QED
        BY <4>6, <4>8, <4>9, <4>10
    <3> QED
      BY <3>5, <3>6
  <2> HIDE DEF Sum
  <2> QED
    BY <2>1
<1>4. Nat \subseteq N
  <2> HIDE DEF N
  <2> QED
    BY <1>2, <1>3, NatSet
<1> HIDE DEF Sum
<1>6. Cardinality(S) \in N /\ S \in SUBSET S
  BY <1>1, <1>4
<1>7. Sum(S) = f[a] + Sum(S \ {a})
  BY <1>6
<1> QED
  BY <1>7 DEF Sum

LEMMA SumAdd ==
  ASSUME NEW f, NEW S, IsFiniteSet(S), NEW a, a \notin S, \A x \in S \cup {a} : f[x] \in Int
  PROVE  SumFunctionOnSet(f, S \cup {a}) = f[a] + SumFunctionOnSet(f, S)
<1>1. IsFiniteSet(S \cup {a}) /\ (S \cup {a}) \ {a} = S
  BY FS_AddElement
<1>2. SumFunctionOnSet(f, S \cup {a}) = f[a] + SumFunctionOnSet(f, (S \cup {a}) \ {a})
  BY <1>1, SumRemove
<1> QED
  BY <1>1, <1>2

\* Sums of terms that agree are equal.
LEMMA SumAgree ==
  ASSUME NEW f, NEW g, NEW S, IsFiniteSet(S), \A x \in S : f[x] \in Int /\ f[x] = g[x]
  PROVE  SumFunctionOnSet(f, S) = SumFunctionOnSet(g, S)
<1> DEFINE K == {T \in SUBSET S : SumFunctionOnSet(f, T) = SumFunctionOnSet(g, T)}
<1>1. {} \in K
  BY SumEmpty
<1>2. ASSUME NEW T \in SUBSET S, NEW x \in S \ T, T \in K PROVE T \cup {x} \in K
  <2>1. IsFiniteSet(T)
    BY FS_Subset
  <2>2. \A y \in T \cup {x} : f[y] \in Int /\ g[y] \in Int
    OBVIOUS
  <2>3. SumFunctionOnSet(f, T \cup {x}) = f[x] + SumFunctionOnSet(f, T)
    BY <2>1, <2>2, SumAdd
  <2>4. SumFunctionOnSet(g, T \cup {x}) = g[x] + SumFunctionOnSet(g, T)
    BY <2>1, <2>2, SumAdd
  <2> QED
    BY <1>2, <2>3, <2>4
<1>3. \A T \in SUBSET S : T \in K
  <2> HIDE DEF K
  <2> QED
    BY <1>1, <1>2, SubsetInduction
<1> QED
  BY <1>3

LEMMA SumNat ==
  ASSUME NEW f, NEW S, IsFiniteSet(S), \A x \in S : f[x] \in Nat
  PROVE  SumFunctionOnSet(f, S) \in Nat
<1> DEFINE K == {T \in SUBSET S : SumFunctionOnSet(f, T) \in Nat}
<1>1. {} \in K
  BY SumEmpty
<1>2. ASSUME NEW T \in SUBSET S, NEW x \in S \ T, T \in K PROVE T \cup {x} \in K
  <2>1. IsFiniteSet(T)
    BY FS_Subset
  <2>2. \A y \in T \cup {x} : f[y] \in Int
    OBVIOUS
  <2>3. SumFunctionOnSet(f, T \cup {x}) = f[x] + SumFunctionOnSet(f, T)
    BY <2>1, <2>2, SumAdd
  <2> QED
    BY <1>2, <2>3
<1>3. \A T \in SUBSET S : T \in K
  <2> HIDE DEF K
  <2> QED
    BY <1>1, <1>2, SubsetInduction
<1> QED
  BY <1>3

\* A sum over two sets that have nothing in common.
LEMMA SumDisjoint ==
  ASSUME NEW f, NEW S, NEW T, IsFiniteSet(S), IsFiniteSet(T), S \cap T = {},
         \A x \in S \cup T : f[x] \in Int
  PROVE  SumFunctionOnSet(f, S \cup T) = SumFunctionOnSet(f, S) + SumFunctionOnSet(f, T)
<1> DEFINE K == {R \in SUBSET T : SumFunctionOnSet(f, S \cup R)
                                    = SumFunctionOnSet(f, S) + SumFunctionOnSet(f, R)}
<1>0. SumFunctionOnSet(f, S) \in Int
  BY SumInt
<1>1. {} \in K
  <2>1. S \cup {} = S
    OBVIOUS
  <2> QED
    BY <1>0, <2>1, SumEmpty
<1>2. ASSUME NEW R \in SUBSET T, NEW x \in T \ R, R \in K PROVE R \cup {x} \in K
  <2>1. IsFiniteSet(R) /\ IsFiniteSet(S \cup R)
    BY FS_Subset, FS_Union
  <2>2. \A y \in R \cup {x} : f[y] \in Int
    OBVIOUS
  <2>6. \A y \in (S \cup R) \cup {x} : f[y] \in Int
    OBVIOUS
  <2>3. SumFunctionOnSet(f, R \cup {x}) = f[x] + SumFunctionOnSet(f, R)
    BY <2>1, <2>2, SumAdd
  <2>4. x \notin S \cup R /\ S \cup (R \cup {x}) = (S \cup R) \cup {x}
    OBVIOUS
  <2>5. SumFunctionOnSet(f, (S \cup R) \cup {x}) = f[x] + SumFunctionOnSet(f, S \cup R)
    BY <2>1, <2>6, <2>4, SumAdd
  <2>7. SumFunctionOnSet(f, R) \in Int /\ f[x] \in Int
    BY <2>1, <2>2, SumInt
  <2> DEFINE a == SumFunctionOnSet(f, S)
             b == SumFunctionOnSet(f, R)
  <2>8. SumFunctionOnSet(f, S \cup R) = a + b
    BY <1>2
  <2>9. a \in Int /\ b \in Int
    BY <1>0, <2>7
  <2> HIDE DEF a, b
  <2>10. f[x] + (a + b) = a + (f[x] + b)
    BY <2>7, <2>9
  <2>11. SumFunctionOnSet(f, S \cup (R \cup {x})) = a + SumFunctionOnSet(f, R \cup {x})
    BY <2>3, <2>4, <2>5, <2>8, <2>10 DEF b
  <2> QED
    BY <1>2, <2>11 DEF a
<1>3. \A R \in SUBSET T : R \in K
  <2> HIDE DEF K
  <2> QED
    BY <1>1, <1>2, SubsetInduction
<1> QED
  BY <1>3

\* A sum over the places of what is summed.
LEMMA SumReindex ==
  ASSUME NEW f, NEW g, NEW S, NEW T, IsFiniteSet(S), NEW b \in Bijection(S, T),
         \A x \in S : g[x] = f[b[x]], \A y \in T : f[y] \in Int
  PROVE  SumFunctionOnSet(g, S) = SumFunctionOnSet(f, T)
<1> DEFINE Image(R) == {b[x] : x \in R}
           K == {R \in SUBSET S : SumFunctionOnSet(g, R) = SumFunctionOnSet(f, Image(R))}
<1>0. b \in [S -> T] /\ (\A x, y \in S : b[x] = b[y] => x = y) /\ (\A y \in T : \E x \in S : b[x] = y)
  BY DEF Bijection, Injection, Surjection, IsInjective
<1>7. IsFiniteSet(T)
  <2>1. b \in Surjection(S, T)
    BY DEF Bijection
  <2> QED
    BY <2>1, FS_Surjection
<1>1. {} \in K
  <2>1. Image({}) = {}
    OBVIOUS
  <2> QED
    BY <2>1, SumEmpty
<1>2. ASSUME NEW R \in SUBSET S, NEW x \in S \ R, R \in K PROVE R \cup {x} \in K
  <2>1. IsFiniteSet(R)
    BY FS_Subset
  <2>7. Image(R) \subseteq T
    BY <1>0
  <2>8. IsFiniteSet(Image(R))
    <3> HIDE DEF Image
    <3> QED
      BY <1>7, <2>7, FS_Subset
  <2>2. \A y \in R \cup {x} : g[y] \in Int
    BY <1>0
  <2>3. SumFunctionOnSet(g, R \cup {x}) = g[x] + SumFunctionOnSet(g, R)
    BY <2>1, <2>2, SumAdd
  <2>4. Image(R \cup {x}) = Image(R) \cup {b[x]} /\ b[x] \notin Image(R)
    BY <1>0
  <2>5. \A y \in Image(R) \cup {b[x]} : f[y] \in Int
    BY <1>0
  <2> HIDE DEF Image
  <2>6. SumFunctionOnSet(f, Image(R) \cup {b[x]}) = f[b[x]] + SumFunctionOnSet(f, Image(R))
    BY <2>8, <2>4, <2>5, SumAdd
  <2> QED
    BY <1>2, <2>3, <2>4, <2>6
<1>3. \A R \in SUBSET S : R \in K
  <2> HIDE DEF K
  <2> QED
    BY <1>1, <1>2, SubsetInduction
<1>4. Image(S) = T
  BY <1>0
<1> QED
  BY <1>3, <1>4

\* Larger terms give a larger sum.
LEMMA SumLess ==
  ASSUME NEW f, NEW g, NEW S, IsFiniteSet(S), \A x \in S : f[x] \in Int /\ g[x] \in Int /\ f[x] <= g[x]
  PROVE  SumFunctionOnSet(f, S) <= SumFunctionOnSet(g, S)
<1> DEFINE K == {T \in SUBSET S : SumFunctionOnSet(f, T) <= SumFunctionOnSet(g, T)}
<1>1. {} \in K
  BY SumEmpty
<1>2. ASSUME NEW T \in SUBSET S, NEW x \in S \ T, T \in K PROVE T \cup {x} \in K
  <2>1. IsFiniteSet(T)
    BY FS_Subset
  <2>2. \A y \in T \cup {x} : f[y] \in Int /\ g[y] \in Int
    OBVIOUS
  <2>3. SumFunctionOnSet(f, T \cup {x}) = f[x] + SumFunctionOnSet(f, T)
    BY <2>1, <2>2, SumAdd
  <2>4. SumFunctionOnSet(g, T \cup {x}) = g[x] + SumFunctionOnSet(g, T)
    BY <2>1, <2>2, SumAdd
  <2>5. SumFunctionOnSet(f, T) \in Int /\ SumFunctionOnSet(g, T) \in Int
    BY <2>1, <2>2, SumInt
  <2>6. f[x] + SumFunctionOnSet(f, T) <= g[x] + SumFunctionOnSet(g, T)
    <3> DEFINE a == SumFunctionOnSet(f, T)
               b == SumFunctionOnSet(g, T)
    <3>1. a \in Int /\ b \in Int /\ a <= b
      BY <1>2, <2>5
    <3> HIDE DEF a, b
    <3>2. f[x] + a <= g[x] + b
      BY <2>2, <3>1
    <3> QED
      BY <3>2 DEF a, b
  <2> QED
    BY <2>3, <2>4, <2>6
<1>3. \A T \in SUBSET S : T \in K
  <2> HIDE DEF K
  <2> QED
    BY <1>1, <1>2, SubsetInduction
<1> QED
  BY <1>3

\* A sum is not changed by terms that are 0.
LEMMA SumZeros ==
  ASSUME NEW f, NEW S, NEW T, IsFiniteSet(S), T \subseteq S,
         \A x \in S : f[x] \in Int, \A x \in S \ T : f[x] = 0
  PROVE  SumFunctionOnSet(f, S) = SumFunctionOnSet(f, T)
<1> DEFINE K == {R \in SUBSET (S \ T) : SumFunctionOnSet(f, R) = 0}
<1>0. IsFiniteSet(S \ T) /\ IsFiniteSet(T)
  BY FS_Subset
<1>1. {} \in K
  BY SumEmpty
<1>2. ASSUME NEW R \in SUBSET (S \ T), NEW x \in (S \ T) \ R, R \in K PROVE R \cup {x} \in K
  <2>1. IsFiniteSet(R)
    BY <1>0, FS_Subset
  <2>2. \A y \in R \cup {x} : f[y] \in Int
    OBVIOUS
  <2>3. SumFunctionOnSet(f, R \cup {x}) = f[x] + SumFunctionOnSet(f, R)
    BY <2>1, <2>2, SumAdd
  <2> QED
    BY <1>2, <2>3
<1>3. \A R \in SUBSET (S \ T) : R \in K
  <2> HIDE DEF K
  <2> QED
    BY <1>0, <1>1, <1>2, SubsetInduction
<1>4. SumFunctionOnSet(f, S \ T) = 0
  BY <1>3
<1>5. S = T \cup (S \ T) /\ T \cap (S \ T) = {} /\ \A x \in T \cup (S \ T) : f[x] \in Int
  OBVIOUS
<1>6. SumFunctionOnSet(f, T \cup (S \ T)) = SumFunctionOnSet(f, T) + SumFunctionOnSet(f, S \ T)
  BY <1>0, <1>5, SumDisjoint
<1>7. SumFunctionOnSet(f, T) \in Int
  BY <1>0, <1>5, SumInt
<1>8. SumFunctionOnSet(f, T \cup (S \ T)) = SumFunctionOnSet(f, T)
  BY <1>4, <1>6, <1>7
<1>9. T \cup (S \ T) = S
  OBVIOUS
<1> QED
  BY <1>8, <1>9

\* The terms of a sum, each a number of times.
LEMMA SumScaled ==
  ASSUME NEW f, NEW g, NEW S, IsFiniteSet(S), NEW c \in Int, \A x \in S : f[x] \in Int /\ g[x] = c * f[x]
  PROVE  SumFunctionOnSet(g, S) = c * SumFunctionOnSet(f, S)
<1> DEFINE K == {T \in SUBSET S : SumFunctionOnSet(g, T) = c * SumFunctionOnSet(f, T)}
<1>1. {} \in K
  BY SumEmpty
<1>2. ASSUME NEW T \in SUBSET S, NEW x \in S \ T, T \in K PROVE T \cup {x} \in K
  <2>1. IsFiniteSet(T)
    BY FS_Subset
  <2>2. \A y \in T \cup {x} : f[y] \in Int /\ g[y] \in Int
    OBVIOUS
  <2>3. SumFunctionOnSet(f, T \cup {x}) = f[x] + SumFunctionOnSet(f, T)
    BY <2>1, <2>2, SumAdd
  <2>4. SumFunctionOnSet(g, T \cup {x}) = g[x] + SumFunctionOnSet(g, T)
    BY <2>1, <2>2, SumAdd
  <2>5. SumFunctionOnSet(f, T) \in Int
    BY <2>1, <2>2, SumInt
  <2>6. c * f[x] + c * SumFunctionOnSet(f, T) = c * (f[x] + SumFunctionOnSet(f, T))
    <3> DEFINE a == SumFunctionOnSet(f, T)
    <3>1. a \in Int
      BY <2>5
    <3> HIDE DEF a
    <3>2. c * f[x] + c * a = c * (f[x] + a)
      BY <2>2, <3>1
    <3> QED
      BY <3>2 DEF a
  <2>7. g[x] = c * f[x] /\ SumFunctionOnSet(g, T) = c * SumFunctionOnSet(f, T)
    BY <1>2
  <2> QED
    BY <2>3, <2>4, <2>6, <2>7
<1>3. \A T \in SUBSET S : T \in K
  <2> HIDE DEF K
  <2> QED
    BY <1>1, <1>2, SubsetInduction
<1> QED
  BY <1>3

LEMMA ImageIsFinite ==
  ASSUME NEW f, NEW S, IsFiniteSet(S)
  PROVE  IsFiniteSet({f[x] : x \in S}) /\ Cardinality({f[x] : x \in S}) <= Cardinality(S)
<1> DEFINE T == {f[x] : x \in S}
           g == [x \in S |-> f[x]]
<1>1. g \in Surjection(S, T)
  BY DEF Surjection
<1> QED
  BY <1>1, FS_Surjection

-----------------------------------------------------------------------------
(* Sorted sets *)

\* A set of pairs that is a strict order of a set.
Orders(before, S) ==
    /\ \A x \in S : <<x, x>> \notin before
    /\ \A x, y \in S : x = y \/ <<x, y>> \in before \/ <<y, x>> \in before
    /\ \A x, y, z \in S : <<x, y>> \in before /\ <<y, z>> \in before => <<x, z>> \in before

\* A sequence that has each element of a set once.
Enumerates(s, S) ==
    /\ s \in [1..Cardinality(S) -> S]
    /\ \A i, j \in 1..Cardinality(S) : s[i] = s[j] => i = j
    /\ \A x \in S : \E i \in 1..Cardinality(S) : s[i] = x

InOrder(s, S, before) == \A i, j \in 1..Cardinality(S) : i < j => <<s[i], s[j]>> \in before

\* Different elements have different ranks, so that there is one for each place.
LEMMA SortedIsInOrder ==
  ASSUME NEW S, IsFiniteSet(S), NEW before, Orders(before, S)
  PROVE  Enumerates(Sorted(S, before), S) /\ InOrder(Sorted(S, before), S, before)
<1> DEFINE n == Cardinality(S)
           Earlier(x) == {y \in S : <<y, x>> \in before}
           rank == [x \in S |-> Cardinality(Earlier(x)) + 1]
           s == Sorted(S, before)
<1>1. n \in Nat /\ IsFiniteSet(1..n) /\ Cardinality(1..n) = n
  <2>1. n \in Nat
    BY FS_CardinalityType
  <2> HIDE DEF n
  <2> QED
    BY <2>1, FS_Interval
<1>2. ASSUME NEW x \in S
      PROVE  IsFiniteSet(Earlier(x)) /\ Cardinality(Earlier(x)) \in Nat /\ Cardinality(Earlier(x)) < n
  <2>1. Earlier(x) \subseteq S /\ x \notin Earlier(x)
    BY DEF Orders
  <2> HIDE DEF Earlier
  <2>2. IsFiniteSet(Earlier(x)) /\ Cardinality(Earlier(x)) <= n /\ Cardinality(Earlier(x)) # n
    BY <2>1, FS_Subset
  <2>3. Cardinality(Earlier(x)) \in Nat
    BY <2>2, FS_CardinalityType
  <2> HIDE DEF n
  <2> QED
    BY <1>1, <2>2, <2>3
<1>3. ASSUME NEW x \in S, NEW y \in S, <<x, y>> \in before PROVE rank[x] < rank[y]
  <2>1. Earlier(x) \subseteq Earlier(y) /\ x \in Earlier(y) /\ x \notin Earlier(x)
    BY <1>3 DEF Orders
  <2> HIDE DEF Earlier
  <2>2. Cardinality(Earlier(x)) <= Cardinality(Earlier(y)) /\ Cardinality(Earlier(x)) # Cardinality(Earlier(y))
    BY <1>2, <2>1, FS_Subset
  <2> QED
    BY <1>2, <2>2
<1>4. rank \in [S -> 1..n]
  <2> HIDE DEF Earlier, n
  <2>1. \A x \in S : Cardinality(Earlier(x)) + 1 \in 1..n
    BY <1>1, <1>2
  <2> QED
    BY <2>1
<1>5. s = [k \in 1..n |-> CHOOSE x \in S : Cardinality(Earlier(x)) = k - 1]
  BY DEF Sorted
<1>6. \A x \in S : Cardinality(Earlier(x)) = rank[x] - 1
  <2> HIDE DEF Earlier
  <2> QED
    BY <1>2
<1> HIDE DEF Earlier, rank, s, n
<1>7. ASSUME NEW x \in S, NEW y \in S, rank[x] = rank[y] PROVE x = y
  <2>1. rank[x] \in Nat /\ rank[y] \in Nat
    BY <1>4
  <2>2. ~(<<x, y>> \in before) /\ ~(<<y, x>> \in before)
    BY <1>3, <1>7, <2>1
  <2> QED
    BY <2>2 DEF Orders
<1>8. rank \in Surjection(S, 1..n)
  <2>1. rank \in Injection(S, 1..n)
    BY <1>4, <1>7 DEF Injection, IsInjective
  <2> QED
    BY <1>1, <2>1, FS_Injection DEF n
<1>9. \A k \in 1..n : \E x \in S : rank[x] = k
  BY <1>8 DEF Surjection
<1>10. ASSUME NEW k \in 1..n PROVE s[k] \in S /\ rank[s[k]] = k
  <2>1. PICK x \in S : rank[x] = k
    BY <1>9
  <2>2. \E y \in S : Cardinality(Earlier(y)) = k - 1
    BY <1>6, <2>1
  <2>3. s[k] = CHOOSE y \in S : Cardinality(Earlier(y)) = k - 1
    BY <1>5
  <2>4. s[k] \in S /\ Cardinality(Earlier(s[k])) = k - 1
    BY <2>2, <2>3
  <2>5. rank[s[k]] \in 1..n /\ Cardinality(Earlier(s[k])) = rank[s[k]] - 1
    BY <1>4, <1>6, <2>4
  <2> QED
    BY <2>4, <2>5, <1>1
<1>11. s \in [1..n -> S]
  BY <1>5, <1>10
<1>12. ASSUME NEW i \in 1..n, NEW j \in 1..n, i < j PROVE <<s[i], s[j]>> \in before
  <2>1. rank[s[i]] = i /\ rank[s[j]] = j /\ s[i] \in S /\ s[j] \in S
    BY <1>10
  <2>2. ~(<<s[j], s[i]>> \in before) /\ s[i] # s[j]
    BY <1>1, <1>3, <1>12, <2>1
  <2> QED
    BY <2>1, <2>2 DEF Orders
<1>13. ASSUME NEW x \in S PROVE \E k \in 1..n : s[k] = x
  <2>1. rank[x] \in 1..n /\ s[rank[x]] = x
    BY <1>4, <1>7, <1>10
  <2> QED
    BY <2>1
<1>14. \A i, j \in 1..n : s[i] = s[j] => i = j
  BY <1>10
<1> QED
  BY <1>11, <1>12, <1>13, <1>14 DEF Enumerates, InOrder, s, n

\* A part of an ordered set.
LEMMA OrdersPart ==
  ASSUME NEW S, NEW before, Orders(before, S), NEW T \in SUBSET S
  PROVE  Orders(before, T)
BY DEF Orders

-----------------------------------------------------------------------------
(* The orders of the utxos *)

LEMMA KnownUtxosAreFinite == IsFiniteSet(KnownUtxos) /\ IsFiniteSet(Tokens)
<1>1. ASSUME NEW s, NEW S, s \in Seq(S) PROVE IsFiniteSet(Range(s))
  <2>1. IsFiniteSet(1..Len(s)) /\ DOMAIN s = 1..Len(s)
    BY <1>1, FS_Interval
  <2> QED
    BY <2>1, ImageIsFinite DEF Range
<1> QED
  BY <1>1, TxFundsAssumption DEF KnownUtxos, Tokens

LEMMA PositionsDiffer ==
  /\ \A u \in KnownUtxos : Position(u) \in Nat
  /\ \A u, v \in KnownUtxos : Position(u) = Position(v) => u = v
<1>1. UtxoOrder \in Seq(KnownUtxos)
  BY TxFundsAssumption
<1>2. ASSUME NEW u \in KnownUtxos PROVE Position(u) \in DOMAIN UtxoOrder /\ UtxoOrder[Position(u)] = u
  BY DEF Position, KnownUtxos, Range
<1> QED
  BY <1>1, <1>2

Value(u) == UtxoOf[u].value

LEMMA UtxosHaveValues == \A u \in KnownUtxos : Value(u) \in Nat
BY TxFundsAssumption DEF Value

LEMMA StorageOrders ==
  Orders(Stored, KnownUtxos) /\ Orders(Descending, KnownUtxos) /\ Orders(Ascending, KnownUtxos)
<1> DEFINE at == [u \in KnownUtxos |-> Position(u)]
           of == [u \in KnownUtxos |-> UtxoOf[u].value]
<1>1. /\ at \in [KnownUtxos -> Nat] /\ of \in [KnownUtxos -> Nat]
      /\ \A u, v \in KnownUtxos : at[u] = at[v] => u = v
  BY PositionsDiffer, UtxosHaveValues DEF Value
<1>2. \A u, v \in KnownUtxos : <<u, v>> \in Stored <=> at[u] < at[v]
  BY DEF Stored
<1>3. \A u, v \in KnownUtxos : <<u, v>> \in Descending <=> of[u] > of[v] \/ (of[u] = of[v] /\ at[u] < at[v])
  BY <1>2 DEF Descending
<1>4. \A u, v \in KnownUtxos : <<u, v>> \in Ascending <=> of[u] < of[v] \/ (of[u] = of[v] /\ at[u] < at[v])
  BY <1>2 DEF Ascending
<1> HIDE DEF at, of
<1>5. Orders(Stored, KnownUtxos)
  BY <1>1, <1>2 DEF Orders
<1>6. Orders(Descending, KnownUtxos)
  BY <1>1, <1>3 DEF Orders
<1>7. Orders(Ascending, KnownUtxos)
  BY <1>1, <1>4 DEF Orders
<1> QED
  BY <1>5, <1>6, <1>7

LEMMA UtxosSorted ==
  ASSUME NEW us \in SUBSET KnownUtxos, NEW before \in {Stored, Descending, Ascending}
  PROVE  /\ IsFiniteSet(us)
         /\ Enumerates(Sorted(us, before), us)
         /\ InOrder(Sorted(us, before), us, before)
<1>1. IsFiniteSet(us)
  BY KnownUtxosAreFinite, FS_Subset
<1>2. Orders(before, us)
  BY StorageOrders, OrdersPart
<1> QED
  BY <1>1, <1>2, SortedIsInOrder

-----------------------------------------------------------------------------
(* The selections of utxos *)

LEMMA MinIsLeast ==
  ASSUME NEW S \in SUBSET Nat, S # {}
  PROVE  Min(S) \in S /\ \A x \in S : Min(S) <= x
<1>1. PICK x \in S : \A y \in S : ~(<<y, x>> \in OpToRel(<, Nat))
  BY NatLessThanWellFounded, WFMin
<1>2. \A y \in S : x <= y
  <2>1. ASSUME NEW y \in S, y < x PROVE FALSE
    <3>1. <<y, x>> \in Nat \X Nat /\ <<y, x>>[1] < <<y, x>>[2]
      BY <2>1
    <3> QED
      BY <1>1, <3>1 DEF OpToRel
  <2> QED
    BY <2>1
<1> QED
  BY <1>2 DEF Min

LEMMA MaxIsGreatest ==
  ASSUME NEW n \in Nat, NEW S \in SUBSET (1..n), S # {}
  PROVE  Max(S) \in S /\ \A x \in S : x <= Max(S)
<1> DEFINE Below == {n - x : x \in S}
<1>0. \A x \in S : x \in 1..n
  OBVIOUS
<1>1. Below \in SUBSET Nat /\ Below # {}
  <2>1. \A x \in S : n - x \in Nat
    BY <1>0
  <2> QED
    BY <2>1
<1>2. Min(Below) \in Below /\ \A y \in Below : Min(Below) <= y
  BY <1>1, MinIsLeast
<1>3. PICK x \in S : Min(Below) = n - x
  BY <1>2
<1>4. \A y \in S : n - x <= n - y
  BY <1>2, <1>3
<1>5. \A y \in S : y <= x
  BY <1>0, <1>4
<1> QED
  BY <1>5 DEF Max

LEMMA FirstNumbers ==
  ASSUME NEW n \in Nat
  PROVE  IsFiniteSet(1..n) /\ Cardinality(1..n) = n
BY FS_Interval

\* The value of a set of utxos.
Total(us) == SumFunctionOnSet([u \in KnownUtxos |-> UtxoOf[u].value], us)

LEMMA TotalType ==
  ASSUME NEW us \in SUBSET KnownUtxos
  PROVE  Total(us) \in Nat
<1>1. IsFiniteSet(us)
  BY KnownUtxosAreFinite, FS_Subset
<1>2. \A u \in us : [v \in KnownUtxos |-> UtxoOf[v].value][u] \in Nat
  BY UtxosHaveValues DEF Value
<1> QED
  BY <1>1, <1>2, SumNat DEF Total

LEMMA TotalRemove ==
  ASSUME NEW us \in SUBSET KnownUtxos, NEW u \in us
  PROVE  Total(us) = Value(u) + Total(us \ {u})
<1>1. IsFiniteSet(us)
  BY KnownUtxosAreFinite, FS_Subset
<1>2. \A x \in us : [v \in KnownUtxos |-> UtxoOf[v].value][x] \in Int
  BY UtxosHaveValues DEF Value
<1>3. Total(us) = [v \in KnownUtxos |-> UtxoOf[v].value][u] + Total(us \ {u})
  BY <1>1, <1>2, SumRemove DEF Total
<1> QED
  BY <1>3 DEF Value

\* A sequence of different elements of a set.
Distinct(s, S) == s \in Seq(S) /\ \A i, j \in 1..Len(s) : s[i] = s[j] => i = j

LEMMA DistinctIsBijection ==
  ASSUME NEW S, NEW s, Distinct(s, S)
  PROVE  s \in Bijection(1..Len(s), Range(s)) /\ IsFiniteSet(Range(s)) /\ Cardinality(Range(s)) = Len(s)
<1>1. s \in [1..Len(s) -> Range(s)] /\ DOMAIN s = 1..Len(s)
  BY DEF Distinct, Range
<1>2. s \in Bijection(1..Len(s), Range(s))
  BY <1>1 DEF Distinct, Bijection, Injection, Surjection, IsInjective, Range
<1>3. Len(s) \in Nat
  BY DEF Distinct
<1>4. IsFiniteSet(1..Len(s)) /\ Cardinality(1..Len(s)) = Len(s)
  BY <1>3, FirstNumbers
<1>5. ExistsBijection(1..Len(s), Range(s))
  BY <1>2 DEF ExistsBijection
<1> QED
  BY <1>2, <1>4, <1>5, FS_Bijection

LEMMA SelectionTotal ==
  ASSUME NEW utxos, Distinct(utxos, KnownUtxos)
  PROVE  Selection(utxos) = [utxos |-> utxos, amount |-> Total(Range(utxos))]
<1> DEFINE g == [i \in DOMAIN utxos |-> UtxoOf[utxos[i]].value]
           f == [u \in KnownUtxos |-> UtxoOf[u].value]
<1>1. utxos \in Bijection(1..Len(utxos), Range(utxos)) /\ DOMAIN utxos = 1..Len(utxos) /\ Range(utxos) \subseteq KnownUtxos
  BY DistinctIsBijection DEF Distinct, Range
<1>2. IsFiniteSet(1..Len(utxos))
  BY FirstNumbers DEF Distinct
<1>3. \A i \in 1..Len(utxos) : g[i] = f[utxos[i]]
  BY <1>1 DEF Distinct
<1>4. \A u \in Range(utxos) : f[u] \in Int
  BY <1>1, UtxosHaveValues DEF Value
<1> HIDE DEF g, f
<1>5. SumFunctionOnSet(g, 1..Len(utxos)) = SumFunctionOnSet(f, Range(utxos))
  BY <1>1, <1>2, <1>3, <1>4, SumReindex
<1> USE DEF g, f
<1>6. SumFunction(g) = SumFunctionOnSet(g, 1..Len(utxos))
  BY <1>1 DEF SumFunction
<1> QED
  BY <1>5, <1>6 DEF Selection, Total

\* The first elements of a sequence.
Top(s, k) == {s[i] : i \in 1..k}

LEMMA Prefix ==
  ASSUME NEW S, IsFiniteSet(S), NEW s, Enumerates(s, S), NEW k \in 0..Cardinality(S)
  PROVE  /\ Distinct(SubSeq(s, 1, k), S) /\ Len(SubSeq(s, 1, k)) = k
         /\ Range(SubSeq(s, 1, k)) = Top(s, k)
<1>1. Cardinality(S) \in Nat
  BY FS_CardinalityType
<1> DEFINE n == Cardinality(S)
           t == SubSeq(s, 1, k)
<1>2. s \in [1..n -> S] /\ n \in Nat /\ k \in 0..n
  BY <1>1 DEF Enumerates
<1>3. \A i, j \in 1..n : s[i] = s[j] => i = j
  BY DEF Enumerates
<1> HIDE DEF n
<1>4. t = [i \in 1..k |-> s[i]]
  BY <1>2
<1>5. t \in Seq(S) /\ Len(t) = k /\ DOMAIN t = 1..k
  BY <1>2, <1>4
<1> HIDE DEF t
<1>6. Distinct(t, S)
  BY <1>2, <1>3, <1>4, <1>5 DEF Distinct
<1>7. Range(t) = Top(s, k)
  BY <1>4, <1>5 DEF Range, Top
<1> QED
  BY <1>5, <1>6, <1>7 DEF t

LEMMA DistinctPart ==
  ASSUME NEW S, NEW T \in SUBSET S, NEW s, Distinct(s, T)
  PROVE  Distinct(s, S) /\ Range(s) \in SUBSET T
<1>1. s \in Seq(S) /\ Range(s) \in SUBSET T
  BY DEF Distinct, Range
<1> QED
  BY <1>1 DEF Distinct

\* What taking the first utxos gives.
LEMMA TakenIs ==
  ASSUME NEW us \in SUBSET KnownUtxos, NEW s, Enumerates(s, us), NEW k \in 0..Cardinality(us)
  PROVE  /\ Taken(s, k) = [utxos |-> SubSeq(s, 1, k), amount |-> Total(Top(s, k))]
         /\ Distinct(SubSeq(s, 1, k), us) /\ Range(SubSeq(s, 1, k)) = Top(s, k)
         /\ Top(s, k) \in SUBSET us /\ Cardinality(Top(s, k)) = k
<1>1. IsFiniteSet(us)
  BY KnownUtxosAreFinite, FS_Subset
<1>2. Distinct(SubSeq(s, 1, k), us) /\ Len(SubSeq(s, 1, k)) = k /\ Range(SubSeq(s, 1, k)) = Top(s, k)
  BY <1>1, Prefix
<1>3. Distinct(SubSeq(s, 1, k), KnownUtxos) /\ Range(SubSeq(s, 1, k)) \in SUBSET us
  BY <1>2, DistinctPart
<1>4. Selection(SubSeq(s, 1, k)) = [utxos |-> SubSeq(s, 1, k), amount |-> Total(Range(SubSeq(s, 1, k)))]
  BY <1>3, SelectionTotal
<1>5. Cardinality(Range(SubSeq(s, 1, k))) = Len(SubSeq(s, 1, k))
  BY <1>2, DistinctIsBijection
<1> QED
  BY <1>2, <1>3, <1>4, <1>5 DEF Taken

LEMMA TopNext ==
  ASSUME NEW S, IsFiniteSet(S), NEW s, Enumerates(s, S), NEW k \in Nat, k + 1 \in 1..Cardinality(S)
  PROVE  s[k + 1] \in S /\ s[k + 1] \in Top(s, k + 1) /\ Top(s, k + 1) \ {s[k + 1]} = Top(s, k)
<1> DEFINE n == Cardinality(S)
<1>1. s \in [1..n -> S] /\ (\A i, j \in 1..n : s[i] = s[j] => i = j) /\ k + 1 \in 1..n
  BY DEF Enumerates
<1>2. n \in Nat
  BY FS_CardinalityType
<1> HIDE DEF n
<1>3. \A i \in 1..k : i \in 1..n /\ i # k + 1
  BY <1>1, <1>2
<1>4. \A i \in 1..k + 1 : i = k + 1 \/ i \in 1..k
  OBVIOUS
<1>5. \A i \in 1..k : i \in 1..k + 1
  OBVIOUS
<1> DEFINE m == k + 1
<1>6. m \in 1..m
  OBVIOUS
<1> HIDE DEF m
<1> QED
  BY <1>1, <1>3, <1>4, <1>5, <1>6 DEF Top, m

\* The utxos of the highest values cover as much as any set with as many of them.
LEMMA HighestCoverMost ==
  ASSUME NEW us \in SUBSET KnownUtxos, NEW s, Enumerates(s, us), InOrder(s, us, Descending)
  PROVE  \A k \in 0..Cardinality(us) : \A vs \in SUBSET us :
            Cardinality(vs) <= k => Total(vs) <= Total(Top(s, k))
<1> DEFINE n == Cardinality(us)
           N == {k \in Nat : k <= n => \A vs \in SUBSET us : Cardinality(vs) <= k => Total(vs) <= Total(Top(s, k))}
<1>1. IsFiniteSet(us) /\ n \in Nat
  <2>1. IsFiniteSet(us)
    BY KnownUtxosAreFinite, FS_Subset
  <2> QED
    BY <2>1, FS_CardinalityType
<1>2. \A vs \in SUBSET us : IsFiniteSet(vs) /\ Cardinality(vs) \in Nat /\ Total(vs) \in Nat
  BY <1>1, FS_Subset, FS_CardinalityType, TotalType
<1>8. \A k \in 0..n : Top(s, k) \in SUBSET us
  BY TakenIs
<1>3. 0 \in N
  <2>1. ASSUME NEW vs \in SUBSET us, Cardinality(vs) <= 0 PROVE Total(vs) <= Total(Top(s, 0))
    <3>1. Cardinality(vs) = 0
      BY <1>2, <2>1
    <3>2. vs = {}
      BY <1>2, <3>1, FS_EmptySet
    <3>3. Top(s, 0) = {}
      BY DEF Top
    <3> QED
      BY <1>2, <3>2, <3>3
  <2> QED
    BY <2>1
<1>4. ASSUME NEW k \in Nat, k \in N PROVE k + 1 \in N
  <2>1. SUFFICES ASSUME k + 1 <= n, NEW vs \in SUBSET us, Cardinality(vs) <= k + 1
                 PROVE  Total(vs) <= Total(Top(s, k + 1))
    BY DEF N
  <2>2. k + 1 \in 1..n /\ k \in 0..n /\ k + 1 \in 0..n
    BY <1>1, <2>1
  <2>3. s[k + 1] \in us /\ s[k + 1] \in Top(s, k + 1) /\ Top(s, k + 1) \ {s[k + 1]} = Top(s, k)
    BY <1>1, <2>2, TopNext
  <2>4. Top(s, k) \in SUBSET us /\ Top(s, k + 1) \in SUBSET us
    BY <1>8, <2>2
  <2>5. Total(Top(s, k + 1)) = Value(s[k + 1]) + Total(Top(s, k))
    BY <2>3, <2>4, TotalRemove
  <2>6. Value(s[k + 1]) \in Nat /\ Total(Top(s, k)) \in Nat
    BY <1>2, <2>3, <2>4, UtxosHaveValues
  <2>7. CASE vs \subseteq Top(s, k)
    <3>1. Cardinality(vs) <= k
      <4>1. IsFiniteSet(Top(s, k)) /\ Cardinality(Top(s, k)) = k
        BY <1>2, <2>2, <2>4, TakenIs
      <4> QED
        BY <2>7, <4>1, FS_Subset
    <3>2. Total(vs) <= Total(Top(s, k))
      BY <1>4, <2>2, <3>1
    <3> QED
      BY <1>2, <2>5, <2>6, <3>2
  <2>8. CASE ~(vs \subseteq Top(s, k))
    <3>1. PICK u \in vs : u \notin Top(s, k)
      BY <2>8
    <3>2. PICK i \in 1..n : s[i] = u
      BY DEF Enumerates
    <3>3. i >= k + 1
      <4>1. i \notin 1..k
        BY <3>1, <3>2 DEF Top
      <4> QED
        BY <1>1, <4>1
    <3>4. Value(u) <= Value(s[k + 1])
      <4>1. CASE i = k + 1
        BY <2>6, <3>2, <4>1
      <4>2. CASE i > k + 1
        <5>1. <<s[k + 1], u>> \in Descending
          BY <1>1, <2>2, <3>2, <4>2 DEF InOrder
        <5>2. Value(u) \in Nat
          BY UtxosHaveValues
        <5> QED
          BY <2>6, <5>1, <5>2 DEF Descending, Value
      <4> QED
        BY <1>1, <3>3, <4>1, <4>2
    <3>5. Cardinality(vs \ {u}) <= k
      <4>1. IsFiniteSet(vs) /\ Cardinality(vs) \in Nat
        BY <1>2
      <4>2. Cardinality(vs \ {u}) = Cardinality(vs) - 1
        BY <4>1, FS_RemoveElement
      <4> QED
        BY <2>1, <4>1, <4>2
    <3>6. Total(vs \ {u}) <= Total(Top(s, k))
      BY <1>4, <2>2, <3>5
    <3>7. Total(vs) = Value(u) + Total(vs \ {u})
      BY TotalRemove
    <3>8. Value(u) \in Nat /\ Total(vs \ {u}) \in Nat
      BY <1>2, UtxosHaveValues
    <3> QED
      BY <2>5, <2>6, <3>4, <3>6, <3>7, <3>8
  <2> QED
    BY <2>7, <2>8
<1>5. Nat \subseteq N
  <2> HIDE DEF N
  <2> QED
    BY <1>3, <1>4, NatSet
<1>6. ASSUME NEW k \in 0..n PROVE k \in N /\ k <= n
  BY <1>1, <1>5
<1> QED
  BY <1>6

\* The first of the places at which a sequence may stop.
FirstStop(n, stops) == IF stops = {} THEN n ELSE Min(stops)

LEMMA FirstStopIs ==
  ASSUME NEW n \in Nat \ {0}, NEW stops \in SUBSET (1..n)
  PROVE  /\ FirstStop(n, stops) \in 1..n
         /\ \A i \in stops : FirstStop(n, stops) <= i
         /\ FirstStop(n, stops) \in stops \/ (stops = {} /\ FirstStop(n, stops) = n)
<1>1. CASE stops = {}
  BY <1>1 DEF FirstStop
<1>2. CASE stops # {}
  <2>1. Min(stops) \in stops /\ \A i \in stops : Min(stops) <= i
    BY <1>2, MinIsLeast
  <2> QED
    BY <1>2, <2>1 DEF FirstStop
<1> QED
  BY <1>1, <1>2

\* A selection of different utxos of a set.
Selected(sel, us) ==
    /\ Distinct(sel.utxos, us)
    /\ sel = [utxos |-> sel.utxos, amount |-> Total(Range(sel.utxos))]

\* One that covers an amount with as few as possible, or is empty when nothing covers it.
Fewest(sel, us, amount) ==
    /\ Selected(sel, us)
    /\ IF Total(us) < amount THEN sel.utxos = <<>>
       ELSE /\ sel.amount >= amount
            /\ \A vs \in SUBSET us : Total(vs) >= amount => Cardinality(Range(sel.utxos)) <= Cardinality(vs)

LEMMA SelectedNothing ==
  ASSUME NEW us \in SUBSET KnownUtxos
  PROVE  Selected(Selection(<<>>), us) /\ Selection(<<>>) = [utxos |-> <<>>, amount |-> 0]
<1>1. Distinct(<<>>, us) /\ Distinct(<<>>, KnownUtxos) /\ Range(<<>>) = {}
  BY DEF Distinct, Range
<1>2. Total({}) = 0
  BY SumEmpty DEF Total
<1>3. Selection(<<>>) = [utxos |-> <<>>, amount |-> Total(Range(<<>>))]
  BY <1>1, SelectionTotal
<1>4. Selection(<<>>).utxos = <<>> /\ Selection(<<>>) = [utxos |-> <<>>, amount |-> 0]
  BY <1>1, <1>2, <1>3
<1>5. Selection(<<>>) = [utxos |-> Selection(<<>>).utxos, amount |-> Total(Range(Selection(<<>>).utxos))]
  BY <1>3, <1>4, Zenon
<1> QED
  BY <1>1, <1>4, <1>5 DEF Selected

LEMMA SelectedOne ==
  ASSUME NEW us \in SUBSET KnownUtxos, NEW u \in us
  PROVE  /\ Selected(Selection(<<u>>), us)
         /\ Selection(<<u>>) = [utxos |-> <<u>>, amount |-> Value(u)]
         /\ Range(<<u>>) = {u} /\ Cardinality({u}) = 1
<1>1. Distinct(<<u>>, us) /\ Distinct(<<u>>, KnownUtxos) /\ Range(<<u>>) = {u}
  BY DEF Distinct, Range
<1>2. Total({u}) = Value(u)
  <2>1. Total({u}) = Value(u) + Total({u} \ {u})
    BY TotalRemove
  <2>2. Total({u} \ {u}) = 0
    BY SumEmpty DEF Total
  <2> QED
    BY <2>1, <2>2, UtxosHaveValues
<1>3. Selection(<<u>>) = [utxos |-> <<u>>, amount |-> Total(Range(<<u>>))]
  BY <1>1, SelectionTotal
<1> QED
  BY <1>1, <1>2, <1>3, FS_Singleton DEF Selected

LEMMA TotalPart ==
  ASSUME NEW us \in SUBSET KnownUtxos, NEW vs \in SUBSET us
  PROVE  Total(vs) <= Total(us)
<1> DEFINE f == [u \in KnownUtxos |-> UtxoOf[u].value]
<1>1. IsFiniteSet(vs) /\ IsFiniteSet(us \ vs)
  BY KnownUtxosAreFinite, FS_Subset
<1>2. \A u \in vs \cup (us \ vs) : f[u] \in Int
  BY UtxosHaveValues DEF Value
<1> HIDE DEF f
<1>3. SumFunctionOnSet(f, vs \cup (us \ vs)) = SumFunctionOnSet(f, vs) + SumFunctionOnSet(f, us \ vs)
  BY <1>1, <1>2, SumDisjoint
<1>4. vs \cup (us \ vs) = us
  OBVIOUS
<1>5. Total(us) = Total(vs) + Total(us \ vs)
  BY <1>3, <1>4 DEF Total, f
<1>6. Total(vs) \in Nat /\ Total(us \ vs) \in Nat
  BY TotalType
<1> QED
  BY <1>5, <1>6

\* The highest values until they reach an amount are the fewest.
LEMMA FewestOfFirst ==
  ASSUME NEW us \in SUBSET KnownUtxos, NEW s, Enumerates(s, us), InOrder(s, us, Descending),
         NEW amount \in Nat \ {0}, NEW k \in 1..Cardinality(us),
         \A i \in 1..Cardinality(us) : i < k => Taken(s, i).amount < amount,
         Taken(s, k).amount >= amount
  PROVE  Fewest(Taken(s, k), us, amount)
<1> DEFINE n == Cardinality(us)
<1>1. n \in Nat
  BY KnownUtxosAreFinite, FS_Subset, FS_CardinalityType
<1> HIDE DEF n
<1>2. k \in 1..n /\ k \in 0..n /\ k - 1 \in 0..n
  BY <1>1 DEF n
<1>3. /\ Taken(s, k) = [utxos |-> SubSeq(s, 1, k), amount |-> Total(Top(s, k))]
      /\ Distinct(SubSeq(s, 1, k), us) /\ Range(SubSeq(s, 1, k)) = Top(s, k)
      /\ Top(s, k) \in SUBSET us /\ Cardinality(Top(s, k)) = k
  BY <1>2, TakenIs DEF n
<1>4. Total(us) >= amount
  <2>1. Total(Top(s, k)) <= Total(us)
    BY <1>3, TotalPart
  <2>2. Total(us) \in Nat /\ Total(Top(s, k)) \in Nat
    BY <1>3, TotalType
  <2> QED
    BY <1>3, <2>1, <2>2
<1>5. Total(Top(s, k - 1)) < amount
  <2>1. CASE k = 1
    <3>1. Top(s, k - 1) = {}
      BY <2>1 DEF Top
    <3>2. Total({}) = 0
      BY SumEmpty DEF Total
    <3> QED
      BY <3>1, <3>2
  <2>2. CASE k > 1
    <3>1. k - 1 \in 1..n /\ k - 1 < k
      BY <1>1, <1>2, <2>2
    <3> DEFINE j == k - 1
    <3>2. j \in 0..n /\ j \in 1..n /\ j < k
      BY <1>2, <3>1
    <3> HIDE DEF j
    <3>3. Taken(s, j) = [utxos |-> SubSeq(s, 1, j), amount |-> Total(Top(s, j))]
      BY <3>2, TakenIs DEF n
    <3>4. Total(Top(s, j)) < amount
      BY <3>2, <3>3 DEF n
    <3> QED
      BY <3>4 DEF j
  <2> QED
    BY <1>2, <2>1, <2>2
<1>6. ASSUME NEW vs \in SUBSET us, Total(vs) >= amount PROVE k <= Cardinality(vs)
  <2>1. Cardinality(vs) \in Nat
    BY KnownUtxosAreFinite, FS_Subset, FS_CardinalityType
  <2>2. CASE Cardinality(vs) <= k - 1
    <3> DEFINE j == k - 1
    <3>2. j \in 0..n /\ Cardinality(vs) <= j
      BY <1>2, <2>2
    <3> HIDE DEF j
    <3>3. Total(vs) <= Total(Top(s, j))
      BY <3>2, HighestCoverMost DEF n
    <3>4. Total(Top(s, j)) \in Nat /\ Total(vs) \in Nat
      <4>1. Top(s, j) \in SUBSET us
        BY <3>2, TakenIs DEF n
      <4> QED
        BY <4>1, TotalType
    <3> QED
      BY <1>5, <1>6, <3>3, <3>4 DEF j
  <2> QED
    BY <1>2, <2>1, <2>2
<1>7. Selected(Taken(s, k), us)
  <2>1. Taken(s, k).utxos = SubSeq(s, 1, k)
    BY <1>3
  <2>2. Taken(s, k) = [utxos |-> Taken(s, k).utxos, amount |-> Total(Range(Taken(s, k).utxos))]
    BY <1>3, <2>1, Zenon
  <2> QED
    BY <1>3, <2>1, <2>2 DEF Selected
<1>8. Total(us) \in Nat
  BY TotalType
<1> QED
  BY <1>3, <1>4, <1>6, <1>7, <1>8 DEF Fewest

LEMMA NothingToSort ==
  ASSUME NEW us \in SUBSET KnownUtxos, NEW s, Enumerates(s, us)
  PROVE  /\ s = <<>> <=> us = {}
         /\ us # {} => Cardinality(us) \in Nat \ {0}
         /\ Len(s) = Cardinality(us) /\ DOMAIN s = 1..Cardinality(us)
<1>1. IsFiniteSet(us) /\ Cardinality(us) \in Nat
  BY KnownUtxosAreFinite, FS_Subset, FS_CardinalityType
<1>2. Cardinality(us) = 0 <=> us = {}
  BY <1>1, FS_EmptySet
<1> DEFINE n == Cardinality(us)
<1>3. s \in [1..n -> us] /\ n \in Nat
  BY <1>1 DEF Enumerates
<1> HIDE DEF n
<1>4. s \in Seq(us) /\ Len(s) = n /\ DOMAIN s = 1..n
  BY <1>3
<1>5. s = <<>> <=> n = 0
  BY <1>4
<1> QED
  BY <1>1, <1>2, <1>4, <1>5 DEF n

\* All of the utxos, taken.
LEMMA TakenAll ==
  ASSUME NEW us \in SUBSET KnownUtxos, NEW s, Enumerates(s, us)
  PROVE  Top(s, Cardinality(us)) = us
BY DEF Top, Enumerates

LEMMA FastSelection ==
  ASSUME NEW us \in SUBSET KnownUtxos, NEW amount \in Nat \ {0}
  PROVE  Fewest(TakenUntil(Sorted(us, Descending), amount), us, amount)
<1> DEFINE s == Sorted(us, Descending)
           n == Cardinality(us)
           stops == {i \in DOMAIN s : Taken(s, i).amount >= amount}
           k == FirstStop(n, stops)
<1>1. Enumerates(s, us) /\ InOrder(s, us, Descending)
  BY UtxosSorted
<1>2. /\ s = <<>> <=> us = {}
      /\ us # {} => n \in Nat \ {0}
      /\ Len(s) = n /\ DOMAIN s = 1..n
  BY <1>1, NothingToSort
<1>3. TakenUntil(s, amount) = Enough(Taken(s, k), amount)
  BY <1>2, Zenon DEF TakenUntil, Until, FirstStop
<1>4. n \in Nat /\ n = Cardinality(us)
  BY KnownUtxosAreFinite, FS_Subset, FS_CardinalityType
<1>5. \A i \in 0..n : Taken(s, i).amount = Total(Top(s, i)) /\ Total(Top(s, i)) \in Nat
  <2>1. ASSUME NEW i \in 0..n PROVE Taken(s, i).amount = Total(Top(s, i)) /\ Top(s, i) \in SUBSET us
    <3>1. Taken(s, i) = [utxos |-> SubSeq(s, 1, i), amount |-> Total(Top(s, i))] /\ Top(s, i) \in SUBSET us
      BY <1>1, TakenIs
    <3> QED
      BY <3>1
  <2> QED
    BY <2>1, TotalType
<1>6. Total(us) \in Nat /\ Top(s, n) = us
  BY <1>1, TotalType, TakenAll
<1>7. Selected(Selection(<<>>), us) /\ Selection(<<>>) = [utxos |-> <<>>, amount |-> 0]
  BY SelectedNothing
<1> HIDE DEF s, n
<1>8. CASE us = {}
  <2>1. k = 0 /\ n = 0
    <3>1. n = 0
      BY <1>4, <1>8, FS_EmptySet
    <3>2. stops = {}
      BY <1>2, <3>1
    <3> QED
      BY <3>1, <3>2 DEF FirstStop
  <2>2. Taken(s, k).amount < amount /\ Total(us) < amount
    <3>1. Total({}) = 0
      BY SumEmpty DEF Total
    <3>2. Taken(s, 0).amount = Total(Top(s, 0))
      BY <1>5, <2>1
    <3> QED
      BY <1>6, <1>8, <2>1, <3>1, <3>2
  <2>3. TakenUntil(s, amount) = Selection(<<>>)
    BY <1>3, <2>2 DEF Enough
  <2> QED
    BY <1>7, <2>2, <2>3 DEF Fewest, s
<1>9. CASE us # {}
  <2>1. n \in Nat \ {0} /\ stops \in SUBSET (1..n)
    BY <1>2, <1>9
  <2> HIDE DEF stops
  <2>2. k \in 1..n /\ (\A i \in stops : k <= i) /\ (k \in stops \/ (stops = {} /\ k = n))
    BY <2>1, FirstStopIs
  <2> HIDE DEF k
  <2>3. CASE k \in stops
    <3>1. Taken(s, k).amount >= amount
      BY <2>3 DEF stops
    <3>2. \A i \in 1..n : i < k => Taken(s, i).amount < amount
      <4>1. ASSUME NEW i \in 1..n, i < k PROVE Taken(s, i).amount < amount
        <5>1. i \notin stops
          BY <2>2, <4>1
        <5>2. i \in DOMAIN s /\ Taken(s, i).amount \in Nat
          BY <1>2, <1>5
        <5>3. ~(Taken(s, i).amount >= amount)
          BY <5>1, <5>2 DEF stops
        <5> QED
          BY <5>2, <5>3
      <4> QED
        BY <4>1
    <3>3. Fewest(Taken(s, k), us, amount)
      BY <1>1, <2>2, <3>1, <3>2, FewestOfFirst DEF n
    <3>4. TakenUntil(s, amount) = Taken(s, k)
      <4>1. k \in 0..n
        BY <2>2
      <4>2. Taken(s, k).amount \in Nat
        BY <1>5, <4>1
      <4>3. ~(Taken(s, k).amount < amount)
        BY <3>1, <4>2
      <4> QED
        BY <1>3, <4>3, Zenon DEF Enough
    <3> QED
      BY <3>3, <3>4 DEF s
  <2>4. CASE stops = {} /\ k = n
    <3>1. n \in DOMAIN s /\ n \notin stops /\ n \in 0..n
      BY <1>2, <2>1, <2>4
    <3>2. Taken(s, n).amount = Total(us)
      BY <1>5, <1>6, <3>1
    <3>3. ~(Taken(s, n).amount >= amount)
      BY <3>1 DEF stops
    <3>4. Total(us) < amount
      BY <1>6, <3>2, <3>3
    <3>5. TakenUntil(s, amount) = Selection(<<>>)
      BY <1>3, <2>4, <3>2, <3>4 DEF Enough
    <3> QED
      BY <1>7, <3>4, <3>5 DEF Fewest, s
  <2> QED
    BY <2>2, <2>3, <2>4
<1> QED
  BY <1>8, <1>9

\* One utxo that covers the amount is the fewest.
LEMMA FewestOfOne ==
  ASSUME NEW us \in SUBSET KnownUtxos, NEW amount \in Nat \ {0}, NEW u \in us, Value(u) >= amount
  PROVE  Fewest(Selection(<<u>>), us, amount)
<1>1. /\ Selected(Selection(<<u>>), us)
      /\ Selection(<<u>>) = [utxos |-> <<u>>, amount |-> Value(u)]
      /\ Range(<<u>>) = {u} /\ Cardinality({u}) = 1
  BY SelectedOne
<1>2. Total(us) >= amount
  <2>1. Total(us) = Value(u) + Total(us \ {u})
    BY TotalRemove
  <2>2. Value(u) \in Nat /\ Total(us \ {u}) \in Nat
    BY UtxosHaveValues, TotalType
  <2> QED
    BY <2>1, <2>2
<1>3. ASSUME NEW vs \in SUBSET us, Total(vs) >= amount PROVE 1 <= Cardinality(vs)
  <2>1. IsFiniteSet(vs) /\ Cardinality(vs) \in Nat
    BY KnownUtxosAreFinite, FS_Subset, FS_CardinalityType
  <2>2. vs # {}
    <3>1. Total({}) = 0
      BY SumEmpty DEF Total
    <3> QED
      BY <1>3, <3>1
  <2>3. Cardinality(vs) # 0
    BY <2>1, <2>2, FS_EmptySet
  <2> QED
    BY <2>1, <2>3
<1>4. Total(us) \in Nat /\ Value(u) \in Nat
  BY TotalType, UtxosHaveValues
<1>5. Selection(<<u>>).amount >= amount /\ Range(Selection(<<u>>).utxos) = {u}
  BY <1>1
<1>6. \A vs \in SUBSET us : Total(vs) >= amount =>
          Cardinality(Range(Selection(<<u>>).utxos)) <= Cardinality(vs)
  BY <1>1, <1>3, <1>5
<1>7. ~(Total(us) < amount)
  BY <1>2, <1>4
<1> QED
  BY <1>1, <1>5, <1>6, <1>7, Zenon DEF Fewest

\* The parts of bestUtxoSelection().
Above(s, amount) == {i \in DOMAIN s : Value(s[i]) > amount}
BestStops(s, amount) ==
    {i \in DOMAIN s :
        \/ Value(s[i]) = amount
        \/ /\ Value(s[i]) < amount
           /\ Above(s, amount) # {} \/ Taken(s, i).amount >= amount}
BestFound(s, amount, last) ==
    IF Value(s[last]) = amount THEN Selection(<<s[last]>>)
    ELSE IF Above(s, amount) = {} THEN Enough(Taken(s, last), amount)
    ELSE Selection(<<s[Min({i \in Above(s, amount) :
            \A j \in Above(s, amount) : Value(s[i]) <= Value(s[j])})]>>)

LEMMA BestIs ==
  ASSUME NEW wanted, NEW token, NEW amount
  PROVE  LET s == Sorted(Available(wanted, token), Descending)
         IN  BestUtxoSelection(wanted, token, amount)
             = IF s = <<>> THEN Selection(<<>>)
               ELSE BestFound(s, amount, FirstStop(Len(s), BestStops(s, amount)))
BY DEF BestUtxoSelection, BestFound, BestStops, Above, FirstStop, Until, Value

LEMMA BestSelection ==
  ASSUME NEW us \in SUBSET KnownUtxos, NEW amount \in Nat \ {0}, us # {}
  PROVE  LET s == Sorted(us, Descending)
         IN  Fewest(BestFound(s, amount, FirstStop(Len(s), BestStops(s, amount))), us, amount)
<1> DEFINE s == Sorted(us, Descending)
           n == Cardinality(us)
           stops == BestStops(s, amount)
           above == Above(s, amount)
           k == FirstStop(n, stops)
           found == BestFound(s, amount, k)
<1>1. Enumerates(s, us) /\ InOrder(s, us, Descending)
  BY UtxosSorted
<1>2. n \in Nat \ {0} /\ Len(s) = n /\ DOMAIN s = 1..n
  BY <1>1, NothingToSort
<1>3. s \in [1..n -> us]
  BY <1>1 DEF Enumerates
<1>4. n = Cardinality(us)
  OBVIOUS
<1>5. \A i \in 0..n : Taken(s, i).amount = Total(Top(s, i)) /\ Total(Top(s, i)) \in Nat
  <2>1. ASSUME NEW i \in 0..n PROVE Taken(s, i).amount = Total(Top(s, i)) /\ Top(s, i) \in SUBSET us
    <3>1. Taken(s, i) = [utxos |-> SubSeq(s, 1, i), amount |-> Total(Top(s, i))] /\ Top(s, i) \in SUBSET us
      BY <1>1, TakenIs
    <3> QED
      BY <3>1
  <2> QED
    BY <2>1, TotalType
<1>6. Total(us) \in Nat /\ Top(s, n) = us
  BY <1>1, TotalType, TakenAll
<1>7. Selected(Selection(<<>>), us) /\ Selection(<<>>) = [utxos |-> <<>>, amount |-> 0]
  BY SelectedNothing
<1>8. stops \in SUBSET (1..n) /\ above \in SUBSET (1..n)
  BY <1>2 DEF BestStops, Above
<1> HIDE DEF s, n
<1>9. \A i \in 1..n : s[i] \in us /\ Value(s[i]) \in Nat /\ i \in 0..n
  BY <1>3, UtxosHaveValues
<1> HIDE DEF stops, above
<1>10. k \in 1..n /\ (\A i \in stops : k <= i) /\ (k \in stops \/ (stops = {} /\ k = n))
  BY <1>2, <1>8, FirstStopIs
<1> HIDE DEF k
<1>11. CASE Value(s[k]) = amount
  <2>1. found = Selection(<<s[k]>>)
    BY <1>11 DEF BestFound
  <2>2. s[k] \in us /\ Value(s[k]) >= amount
    BY <1>9, <1>10, <1>11
  <2> QED
    BY <2>1, <2>2, <1>2, FewestOfOne DEF s, k, stops
<1>12. CASE Value(s[k]) # amount /\ above # {}
  <2> DEFINE values == {Value(s[i]) : i \in above}
             least == {i \in above : \A j \in above : Value(s[i]) <= Value(s[j])}
  <2>1. values \in SUBSET Nat /\ values # {}
    BY <1>8, <1>9, <1>12
  <2>2. Min(values) \in values /\ \A v \in values : Min(values) <= v
    BY <2>1, MinIsLeast
  <2>3. PICK i \in above : Min(values) = Value(s[i])
    BY <2>2
  <2>4. \A j \in above : Value(s[i]) <= Value(s[j])
    BY <2>2, <2>3
  <2>5. least # {} /\ least \in SUBSET Nat
    BY <1>8, <2>3, <2>4
  <2> HIDE DEF least
  <2>6. Min(least) \in least
    BY <2>5, MinIsLeast
  <2>7. Min(least) \in above /\ Min(least) \in 1..n
    BY <1>8, <2>6 DEF least
  <2>8. found = Selection(<<s[Min(least)]>>)
    BY <1>12 DEF BestFound, above, least
  <2>9. s[Min(least)] \in us /\ Value(s[Min(least)]) >= amount
    BY <1>9, <2>7 DEF above, Above
  <2> QED
    BY <2>8, <2>9, <1>2, FewestOfOne DEF s, k, stops
<1>13. CASE Value(s[k]) # amount /\ above = {}
  <2>1. found = Enough(Taken(s, k), amount)
    BY <1>13 DEF BestFound, above
  <2>2. \A i \in 1..n : ~(Value(s[i]) > amount)
    BY <1>2, <1>13 DEF above, Above
  <2>3. ASSUME NEW i \in 1..n PROVE i \in stops <=> Value(s[i]) = amount \/ (Value(s[i]) < amount /\ Taken(s, i).amount >= amount)
    BY <1>2, <1>13, <2>3 DEF stops, BestStops, above
  <2>4. CASE k \in stops
    <3>1. Taken(s, k).amount >= amount
      BY <1>10, <1>13, <2>3, <2>4
    <3>2. ASSUME NEW i \in 1..n, i < k PROVE Taken(s, i).amount < amount
      <4>1. i \notin stops
        BY <1>10, <3>2
      <4>2. Value(s[i]) < amount
        BY <1>9, <2>2, <2>3, <4>1
      <4>3. Taken(s, i).amount \in Nat
        BY <1>5, <1>9
      <4> QED
        BY <2>3, <4>1, <4>2, <4>3
    <3>3. Fewest(Taken(s, k), us, amount)
      BY <1>1, <1>10, <3>1, <3>2, FewestOfFirst DEF n
    <3>4. Taken(s, k).amount \in Nat
      BY <1>5, <1>9, <1>10
    <3>5. ~(Taken(s, k).amount < amount)
      BY <3>1, <3>4
    <3>6. found = Taken(s, k)
      BY <2>1, <3>5, Zenon DEF Enough
    <3> QED
      BY <3>3, <3>6, <1>2 DEF s, k, stops
  <2>5. CASE stops = {} /\ k = n
    <3>1. n \in 1..n /\ n \notin stops /\ n \in 0..n
      BY <1>2, <2>5
    <3>2. Taken(s, n).amount = Total(us)
      BY <1>5, <1>6, <3>1
    <3>3. Value(s[n]) < amount
      BY <1>9, <2>2, <2>3, <3>1
    <3>4. Total(us) < amount
      BY <1>6, <2>3, <3>1, <3>2, <3>3
    <3>5. found = Selection(<<>>)
      BY <2>1, <2>5, <3>2, <3>4, Zenon DEF Enough
    <3>6. Fewest(found, us, amount)
      BY <1>7, <3>4, <3>5 DEF Fewest
    <3> QED
      BY <3>6, <1>2 DEF s, k, stops
  <2> QED
    BY <1>10, <2>4, <2>5
<1> QED
  BY <1>11, <1>12, <1>13

LEMMA AvailablePart ==
  ASSUME NEW wanted, NEW token
  PROVE  Available(wanted, token) \in SUBSET wanted
BY DEF Available

\* Both selections, for any utxos and any amount above zero.
LEMMA BestIsFewest ==
  ASSUME NEW wanted \in SUBSET KnownUtxos, NEW token, NEW amount \in Nat \ {0}
  PROVE  Fewest(BestUtxoSelection(wanted, token, amount), Available(wanted, token), amount)
<1> DEFINE us == Available(wanted, token)
           s == Sorted(us, Descending)
<1>1. us \in SUBSET KnownUtxos
  BY AvailablePart
<1>2. Enumerates(s, us)
  BY <1>1, UtxosSorted
<1>3. s = <<>> <=> us = {}
  BY <1>1, <1>2, NothingToSort
<1>4. BestUtxoSelection(wanted, token, amount)
      = IF s = <<>> THEN Selection(<<>>)
        ELSE BestFound(s, amount, FirstStop(Len(s), BestStops(s, amount)))
  BY BestIs
<1>5. CASE us = {}
  <2>1. BestUtxoSelection(wanted, token, amount) = Selection(<<>>)
    BY <1>3, <1>4, <1>5
  <2>2. Selected(Selection(<<>>), us) /\ Selection(<<>>) = [utxos |-> <<>>, amount |-> 0]
    BY <1>1, SelectedNothing
  <2>3. Total(us) = 0
    BY <1>5, SumEmpty DEF Total
  <2>4. Total(us) < amount /\ Selection(<<>>).utxos = <<>>
    BY <2>2, <2>3
  <2>5. Fewest(Selection(<<>>), us, amount)
    BY <2>2, <2>4, Zenon DEF Fewest
  <2> QED
    BY <2>1, <2>5
<1>6. CASE us # {}
  <2> HIDE DEF us
  <2>1. Fewest(BestFound(s, amount, FirstStop(Len(s), BestStops(s, amount))), us, amount)
    BY <1>1, <1>6, BestSelection
  <2> QED
    BY <1>3, <1>4, <1>6, <2>1 DEF us
<1> QED
  BY <1>5, <1>6

LEMMA FastIsFewest ==
  ASSUME NEW wanted \in SUBSET KnownUtxos, NEW token, NEW amount \in Nat \ {0}
  PROVE  Fewest(FastUtxoSelection(wanted, token, amount), Available(wanted, token), amount)
<1>1. Available(wanted, token) \in SUBSET KnownUtxos
  BY AvailablePart
<1> QED
  BY <1>1, FastSelection DEF FastUtxoSelection

-----------------------------------------------------------------------------
(* What a call returns *)

Prepared(r, available) ==
    CASE r.builder = "send" -> PreparedTx(r, available)
      [] r.builder = "consolidate" -> PrepareConsolidateUtxosData(r, available)
      [] r.builder = "mint" -> PrepareMintTokens(r, available)
      [] r.builder = "melt" -> PrepareMeltTokens(r, available)
      [] r.builder = "create" -> PrepareCreateNewToken(r, available)
      [] r.builder = "delegate" -> PrepareDelegateAuthority(r, available)
      [] r.builder = "destroy" -> PrepareDestroyAuthority(r, available)
      [] r.builder = "nano" -> BuildNano(r, available)
      [] r.builder = "template" -> BuildTemplate(r, available)
      [] r.builder = "select" ->
            [ok |-> FALSE,
             chosen |-> {Range(FastUtxoSelection(available, r.token, r.amount).utxos),
                         Range(BestUtxoSelection(available, r.token, r.amount).utxos)}]
      [] r.builder = "service_send" ->
            ServiceTx(PrepareServiceTx(Send(r.inputs, r.outputs, 0), available), r.outputs)
      [] r.builder = "service_data" ->
            ServiceTx(PrepareServiceTxData(Send(r.inputs, r.outputs, 0), available), r.outputs)
      [] r.builder = "service_create" -> PrepareServiceCreate(r, available)
      [] r.builder = "service_mint" -> PrepareServiceMint(r, available)
      [] r.builder = "service_melt" -> PrepareServiceMelt(r, available)
      [] r.builder = "service_delegate" -> PrepareServiceDelegate(r, available)
      [] r.builder = "service_destroy" -> PrepareServiceDestroy(r, available)

\* Nothing yet, or what was prepared of the request and what is available.
TxInv ==
    /\ request \in Requests
    /\ free \in SUBSET request.wallet
    /\ tx = None \/ tx = Prepared(request, free)

\* Where the theorems start from: the state of an answered call holds what its builder
\* prepares, by the definition of each action.
LEMMA CallsReturnWhatTheyPrepare == TxSpec => []TxInv
<1>1. TxInit => TxInv
  BY DEF TxInit, TxInv
<1>2. TxInv /\ [TxNext]_txVars => TxInv'
  <2> SUFFICES ASSUME TxInv, [TxNext]_txVars PROVE TxInv'
    OBVIOUS
  <2>1. CASE UNCHANGED txVars
    BY <2>1 DEF TxInv, txVars
  <2> SUFFICES ASSUME TxNext PROVE request' = request /\ free' = free /\ tx' = Prepared(request, free)
    BY <2>1, Zenon DEF TxInv
  <2>2. CASE PrepareSend
    BY <2>2 DEF PrepareSend, Asks, Returns, Prepared
  <2>3. CASE PrepareConsolidate
    BY <2>3 DEF PrepareConsolidate, Asks, Returns, Prepared
  <2>4. CASE PrepareMint
    BY <2>4 DEF PrepareMint, Asks, Returns, Prepared
  <2>5. CASE PrepareMelt
    BY <2>5 DEF PrepareMelt, Asks, Returns, Prepared
  <2>6. CASE PrepareCreate
    BY <2>6 DEF PrepareCreate, Asks, Returns, Prepared
  <2>7. CASE PrepareDelegate
    BY <2>7 DEF PrepareDelegate, Asks, Returns, Prepared
  <2>8. CASE PrepareDestroy
    BY <2>8 DEF PrepareDestroy, Asks, Returns, Prepared
  <2>9. CASE PrepareNano
    BY <2>9 DEF PrepareNano, Asks, Returns, Prepared
  <2>10. CASE PrepareTemplate
    BY <2>10 DEF PrepareTemplate, Asks, Returns, Prepared
  <2>11. CASE SelectInputUtxos
    BY <2>11 DEF SelectInputUtxos, Asks, Returns, Prepared
  <2>12. CASE ServicePrepareTx
    BY <2>12 DEF ServicePrepareTx, AskedSend, Asks, Returns, Prepared
  <2>13. CASE ServicePrepareTxData
    BY <2>13 DEF ServicePrepareTxData, AskedSend, Asks, Returns, Prepared
  <2>14. CASE ServiceCreate
    BY <2>14 DEF ServiceCreate, Asks, Returns, Prepared
  <2>15. CASE ServiceMint
    BY <2>15 DEF ServiceMint, Asks, Returns, Prepared
  <2>16. CASE ServiceMelt
    BY <2>16 DEF ServiceMelt, Asks, Returns, Prepared
  <2>17. CASE ServiceDelegate
    BY <2>17 DEF ServiceDelegate, Asks, Returns, Prepared
  <2>18. CASE ServiceDestroy
    BY <2>18 DEF ServiceDestroy, Asks, Returns, Prepared
  <2> QED
    BY <2>2, <2>3, <2>4, <2>5, <2>6, <2>7, <2>8, <2>9, <2>10, <2>11, <2>12, <2>13, <2>14,
       <2>15, <2>16, <2>17, <2>18, Zenon DEF TxNext
<1> QED
  BY <1>1, <1>2, PTL DEF TxSpec

-----------------------------------------------------------------------------
(* The selections *)

LEMMA WorthIsTotal ==
  ASSUME NEW wanted \in SUBSET KnownUtxos, NEW token
  PROVE  Worth(token, wanted) = Total(Available(wanted, token))
<1> DEFINE us == Available(wanted, token)
           f == [u \in us |-> UtxoOf[u].value]
           g == [u \in KnownUtxos |-> UtxoOf[u].value]
<1>1. us \in SUBSET KnownUtxos
  BY AvailablePart
<1>2. IsFiniteSet(us)
  BY <1>1, KnownUtxosAreFinite, FS_Subset
<1>3. \A u \in us : f[u] \in Int /\ f[u] = g[u]
  BY <1>1, UtxosHaveValues DEF Value
<1>4. Worth(token, wanted) = SumFunctionOnSet(f, us)
  BY Zenon DEF Worth, SumFunction
<1> HIDE DEF f, g, us
<1>5. SumFunctionOnSet(f, us) = SumFunctionOnSet(g, us)
  BY <1>2, <1>3, SumAgree
<1> QED
  BY <1>4, <1>5 DEF Total, g, us

LEMMA AvailableAgain ==
  ASSUME NEW wanted, NEW token, NEW us \in SUBSET Available(wanted, token)
  PROVE  Available(us, token) = us
BY DEF Available

\* What is chosen covers the amount whenever something does, with no more utxos than
\* anything else that covers it, for every wallet, token and amount.
THEOREM SelectionsAreFewest == TxSpec => []SelectionIsFewest
<1>1. TxInv => SelectionIsFewest
  <2> SUFFICES ASSUME TxInv, tx # None, request.builder = "select" PROVE SelectionIsFewest
    BY DEF SelectionIsFewest
  <2> DEFINE token == request.token
             amount == request.amount
             us == Available(free, token)
             fast == FastUtxoSelection(free, token, amount)
             best == BestUtxoSelection(free, token, amount)
             Covers(vs) == Worth(token, vs) >= amount
             covering == {vs \in SUBSET us : Covers(vs)}
  <2>1. free \in SUBSET KnownUtxos /\ amount \in Nat \ {0}
    BY RequestsAssumption DEF TxInv
  <2>2. tx.chosen = {Range(fast.utxos), Range(best.utxos)}
    BY DEF TxInv, Prepared
  <2>3. Fewest(fast, us, amount) /\ Fewest(best, us, amount)
    BY <2>1, FastIsFewest, BestIsFewest
  <2>4. us \in SUBSET KnownUtxos
    BY <2>1, AvailablePart
  <2> HIDE DEF fast, best, amount, token
  <2>5. \A vs \in SUBSET us : Worth(token, vs) = Total(vs) /\ Total(vs) \in Nat
    BY <2>4, WorthIsTotal, AvailableAgain, TotalType
  <2>6. us \in SUBSET us /\ {} \in SUBSET us
    OBVIOUS
  <2> HIDE DEF us
  <2>7. ASSUME NEW sel, Fewest(sel, us, amount)
        PROVE  IF covering = {} THEN Range(sel.utxos) = {}
               ELSE Covers(Range(sel.utxos)) /\ \A vs \in covering : Cardinality(Range(sel.utxos)) <= Cardinality(vs)
    <3>1. Selected(sel, us) /\ Range(sel.utxos) \in SUBSET us /\ sel.amount = Total(Range(sel.utxos))
      <4>1. Selected(sel, us)
        BY <2>7 DEF Fewest
      <4>2. sel.amount = Total(Range(sel.utxos)) /\ Distinct(sel.utxos, us)
        BY <4>1 DEF Selected
      <4> QED
        BY <4>1, <4>2, DistinctPart
    <3>2. CASE Total(us) < amount
      <4>1. \A vs \in SUBSET us : Total(vs) <= Total(us)
        BY <2>4, TotalPart
      <4>2. covering = {}
        BY <2>1, <2>5, <2>6, <3>2, <4>1
      <4>3. sel.utxos = <<>>
        BY <2>7, <3>2 DEF Fewest
      <4> QED
        BY <4>2, <4>3 DEF Range
    <3>3. CASE ~(Total(us) < amount)
      <4>1. us \in covering
        BY <2>1, <2>5, <2>6, <3>3
      <4>2. sel.amount >= amount /\ \A vs \in SUBSET us : Total(vs) >= amount => Cardinality(Range(sel.utxos)) <= Cardinality(vs)
        BY <2>7, <3>3 DEF Fewest
      <4>3. Covers(Range(sel.utxos))
        BY <2>5, <3>1, <4>2
      <4> QED
        BY <2>5, <4>1, <4>2, <4>3
    <3> QED
      BY <3>2, <3>3
  <2>8. \A chosen \in tx.chosen :
            IF covering = {} THEN chosen = {}
            ELSE Covers(chosen) /\ \A vs \in covering : Cardinality(chosen) <= Cardinality(vs)
    BY <2>2, <2>3, <2>7
  <2> QED
    BY <2>8 DEF SelectionIsFewest, us, token, amount
<1> QED
  BY <1>1, CallsReturnWhatTheyPrepare, PTL

-----------------------------------------------------------------------------
(* Sequences of different utxos *)

LEMMA SortedIsDistinct ==
  ASSUME NEW us \in SUBSET KnownUtxos, NEW before \in {Stored, Descending, Ascending}
  PROVE  Distinct(Sorted(us, before), us) /\ Range(Sorted(us, before)) = us
<1> DEFINE s == Sorted(us, before)
           n == Cardinality(us)
<1>1. Enumerates(s, us)
  BY UtxosSorted
<1>2. n \in Nat
  BY KnownUtxosAreFinite, FS_Subset, FS_CardinalityType
<1>3. s \in [1..n -> us] /\ (\A i, j \in 1..n : s[i] = s[j] => i = j) /\ \A u \in us : \E i \in 1..n : s[i] = u
  BY <1>1 DEF Enumerates
<1> HIDE DEF s, n
<1>4. s \in Seq(us) /\ Len(s) = n /\ DOMAIN s = 1..n
  BY <1>2, <1>3
<1> QED
  BY <1>3, <1>4 DEF Distinct, Range, s

LEMMA DistinctEnumerates ==
  ASSUME NEW S, NEW s, Distinct(s, S)
  PROVE  Enumerates(s, Range(s)) /\ Range(s) \in SUBSET S
<1>1. Cardinality(Range(s)) = Len(s) /\ s \in Bijection(1..Len(s), Range(s))
  BY DistinctIsBijection
<1>2. Range(s) \in SUBSET S
  BY DEF Distinct, Range
<1>3. /\ s \in [1..Len(s) -> Range(s)] /\ (\A i, j \in 1..Len(s) : s[i] = s[j] => i = j)
      /\ \A x \in Range(s) : \E i \in 1..Len(s) : s[i] = x
  BY <1>1 DEF Bijection, Injection, Surjection, IsInjective
<1> QED
  BY <1>1, <1>2, <1>3 DEF Enumerates

LEMMA DistinctJoin ==
  ASSUME NEW S, NEW s, Distinct(s, S), NEW t, Distinct(t, S), Range(s) \cap Range(t) = {}
  PROVE  Distinct(s \o t, S) /\ Range(s \o t) = Range(s) \cup Range(t)
<1> DEFINE m == Len(s)
           n == Len(t)
           r == s \o t
<1>1. s \in Seq(S) /\ t \in Seq(S) /\ m \in Nat /\ n \in Nat
  BY DEF Distinct
<1>2. r \in Seq(S) /\ Len(r) = m + n /\ DOMAIN r = 1..m + n /\ DOMAIN s = 1..m /\ DOMAIN t = 1..n
  BY <1>1
<1>3. /\ \A i \in 1..m : r[i] = s[i]
      /\ \A i \in m + 1..m + n : r[i] = t[i - m] /\ i - m \in 1..n
  BY <1>1
<1>7. (\A i, j \in 1..m : s[i] = s[j] => i = j) /\ (\A i, j \in 1..n : t[i] = t[j] => i = j)
  BY DEF Distinct
<1>8. \A i \in 1..m, j \in 1..n : s[i] # t[j]
  BY <1>2 DEF Range
<1>9. \A i \in 1..m : i \in 1..m + n
  BY <1>1
<1>10. \A i \in 1..n : i + m \in 1..m + n /\ r[i + m] = t[i]
  BY <1>1
<1>11. \A i \in 1..m + n : i \in 1..m \/ i \in m + 1..m + n
  BY <1>1
<1> HIDE DEF m, n, r
<1>4. Distinct(r, S)
  <2>1. ASSUME NEW i \in 1..m + n, NEW j \in 1..m + n, r[i] = r[j] PROVE i = j
    <3>1. CASE i \in 1..m /\ j \in 1..m
      BY <1>3, <1>7, <2>1, <3>1
    <3>2. CASE i \in m + 1..m + n /\ j \in m + 1..m + n
      <4>1. i - m = j - m
        BY <1>3, <1>7, <2>1, <3>2
      <4> QED
        BY <1>1, <4>1
    <3>3. CASE i \in 1..m /\ j \in m + 1..m + n
      BY <1>3, <1>8, <2>1, <3>3
    <3>4. CASE i \in m + 1..m + n /\ j \in 1..m
      BY <1>3, <1>8, <2>1, <3>4
    <3> QED
      BY <1>11, <3>1, <3>2, <3>3, <3>4
  <2> QED
    BY <1>2, <2>1 DEF Distinct
<1>5. Range(r) \subseteq Range(s) \cup Range(t)
  BY <1>2, <1>3, <1>11 DEF Range
<1>6. Range(s) \cup Range(t) \subseteq Range(r)
  BY <1>2, <1>3, <1>9, <1>10 DEF Range
<1> QED
  BY <1>4, <1>5, <1>6 DEF r

LEMMA DistinctOne ==
  ASSUME NEW S, NEW x \in S
  PROVE  Distinct(<<x>>, S) /\ Range(<<x>>) = {x}
BY DEF Distinct, Range

LEMMA DistinctNone ==
  ASSUME NEW S
  PROVE  Distinct(<<>>, S) /\ Range(<<>>) = {}
BY DEF Distinct, Range

-----------------------------------------------------------------------------
(* What the callers of the selections get *)

\* The inputs that cover an amount of a token, and the change.
Covers(cover, token, amount, available) ==
    \/ cover = Failed
    \/ \E change \in Nat :
        /\ Distinct(cover.inputs, Available(available, token))
        /\ Total(Range(cover.inputs)) = amount + change
        /\ cover = [ok |-> TRUE, inputs |-> cover.inputs, outputs |-> Change(token, change)]

\* What transactionUtils.selectUtxos() picks from a set of utxos.
Picks(picked, us, amount) ==
    \/ picked = Failed
    \/ /\ amount > 0
       /\ Distinct(picked.utxos, us)
       /\ Total(Range(picked.utxos)) >= amount
       /\ picked = [ok |-> TRUE, utxos |-> picked.utxos, change |-> Total(Range(picked.utxos)) - amount]

LEMMA SelectionCovers ==
  ASSUME NEW us \in SUBSET KnownUtxos, NEW amount \in Nat \ {0}, NEW sel, Fewest(sel, us, amount)
  PROVE  /\ sel.amount \in Nat /\ sel.amount = Total(Range(sel.utxos))
         /\ Distinct(sel.utxos, us)
         /\ sel.amount < amount <=> Total(us) < amount
<1>1. Selected(sel, us)
  BY DEF Fewest
<1>2. Distinct(sel.utxos, us) /\ sel.amount = Total(Range(sel.utxos))
  BY <1>1 DEF Selected
<1>3. Range(sel.utxos) \in SUBSET us
  BY <1>2, DistinctPart
<1>4. sel.amount \in Nat /\ sel.amount <= Total(us) /\ Total(us) \in Nat
  BY <1>2, <1>3, TotalType, TotalPart
<1>5. Total(us) < amount \/ sel.amount >= amount
  BY <1>4 DEF Fewest
<1> QED
  BY <1>2, <1>4, <1>5

LEMMA BestCovers ==
  ASSUME NEW available \in SUBSET KnownUtxos, NEW token, NEW amount \in Nat \ {0}
  PROVE  LET chosen == BestUtxoSelection(available, token, amount)
         IN  /\ chosen.amount \in Nat /\ chosen.amount = Total(Range(chosen.utxos))
             /\ Distinct(chosen.utxos, Available(available, token))
             /\ chosen.amount < amount <=> Total(Available(available, token)) < amount
<1>1. Available(available, token) \in SUBSET KnownUtxos
  BY AvailablePart
<1> QED
  BY <1>1, BestIsFewest, SelectionCovers

LEMMA CoverCovers ==
  ASSUME NEW available \in SUBSET KnownUtxos, NEW token, NEW amount \in Nat
  PROVE  Covers(Cover(token, amount, available), token, amount, available)
<1> DEFINE chosen == BestUtxoSelection(available, token, amount)
<1>1. CASE amount = 0
  <2> DEFINE none == [ok |-> TRUE, inputs |-> <<>>, outputs |-> <<>>]
  <2>1. Cover(token, amount, available) = none
    BY <1>1 DEF Cover
  <2>2. Change(token, 0) = <<>>
    BY DEF Change, Positive
  <2>3. Distinct(<<>>, Available(available, token)) /\ Total(Range(<<>>)) = 0
    BY DistinctNone, SumEmpty DEF Total
  <2>4. none.inputs = <<>> /\ none = [ok |-> TRUE, inputs |-> none.inputs, outputs |-> Change(token, 0)]
    BY <2>2
  <2> HIDE DEF none
  <2>5. Total(Range(none.inputs)) = amount + 0 /\ Distinct(none.inputs, Available(available, token))
    BY <1>1, <2>3, <2>4
  <2> QED
    BY <2>1, <2>4, <2>5 DEF Covers
<1>2. CASE amount # 0
  <2>1. /\ chosen.amount \in Nat /\ chosen.amount = Total(Range(chosen.utxos))
        /\ Distinct(chosen.utxos, Available(available, token))
    BY <1>2, BestCovers
  <2>2. Cover(token, amount, available)
        = IF chosen.amount < amount THEN Failed
          ELSE [ok |-> TRUE, inputs |-> chosen.utxos, outputs |-> Change(token, chosen.amount - amount)]
    BY <1>2 DEF Cover
  <2> HIDE DEF chosen
  <2>3. CASE chosen.amount < amount
    BY <2>2, <2>3 DEF Covers
  <2>4. CASE ~(chosen.amount < amount)
    <3> DEFINE change == chosen.amount - amount
               given == Cover(token, amount, available)
    <3>1. change \in Nat /\ chosen.amount = amount + change
      BY <2>1, <2>4
    <3>2. given = [ok |-> TRUE, inputs |-> chosen.utxos, outputs |-> Change(token, change)]
      BY <2>2, <2>4
    <3> HIDE DEF change, given
    <3>3. given.inputs = chosen.utxos
      BY <3>2
    <3>4. given = [ok |-> TRUE, inputs |-> given.inputs, outputs |-> Change(token, change)]
      BY <3>2, <3>3
    <3> QED
      BY <2>1, <3>1, <3>3, <3>4 DEF Covers, given
  <2> QED
    BY <2>3, <2>4
<1> QED
  BY <1>1, <1>2

LEMMA SelectUtxosPicks ==
  ASSUME NEW us \in SUBSET KnownUtxos, NEW utxos, Distinct(utxos, us), NEW amount \in Int
  PROVE  Picks(SelectUtxos(utxos, amount), us, amount)
<1> DEFINE n == Len(utxos)
           Alone(i) == UtxoOf[utxos[i]].value >= amount
           stops == {i \in DOMAIN utxos : Taken(utxos, i).amount >= amount /\ i + 1 \in DOMAIN utxos /\ ~Alone(i + 1)}
           last == FirstStop(n, stops)
           alone == {i \in 1..last : Alone(i)}
           chosen == IF alone = {} THEN Taken(utxos, last) ELSE Selection(<<utxos[Max(alone)]>>)
<1>1. CASE utxos = <<>>
  BY <1>1 DEF SelectUtxos, Picks, Failed
<1>2. CASE utxos # <<>>
  <2>1. SelectUtxos(utxos, amount)
        = IF amount <= 0 \/ chosen.amount < amount THEN Failed
          ELSE [ok |-> TRUE, utxos |-> chosen.utxos, change |-> chosen.amount - amount]
    BY <1>2, Zenon DEF SelectUtxos, Until, FirstStop, Failed
  <2>2. n \in Nat \ {0} /\ DOMAIN utxos = 1..n /\ \A i \in 1..n : utxos[i] \in us
    BY <1>2 DEF Distinct
  <2>3. stops \in SUBSET (1..n)
    BY <2>2
  <2> HIDE DEF stops, n
  <2>4. last \in 1..n
    BY <2>2, <2>3, FirstStopIs
  <2> HIDE DEF last
  <2>5. Distinct(chosen.utxos, us) /\ chosen.amount = Total(Range(chosen.utxos)) /\ chosen.amount \in Nat
    <3>1. CASE alone = {}
      <4>1. Enumerates(utxos, Range(utxos)) /\ Range(utxos) \in SUBSET us /\ Cardinality(Range(utxos)) = n
        BY DistinctEnumerates, DistinctIsBijection DEF n
      <4>2. last \in 0..n /\ Range(utxos) \in SUBSET KnownUtxos
        BY <2>2, <2>4, <4>1
      <4>3. /\ Taken(utxos, last) = [utxos |-> SubSeq(utxos, 1, last), amount |-> Total(Top(utxos, last))]
            /\ Distinct(SubSeq(utxos, 1, last), Range(utxos))
            /\ Range(SubSeq(utxos, 1, last)) = Top(utxos, last)
            /\ Top(utxos, last) \in SUBSET Range(utxos)
        BY <4>1, <4>2, TakenIs
      <4>7. chosen = Taken(utxos, last)
        BY <3>1, Zenon
      <4> HIDE DEF chosen
      <4>4. chosen.utxos = SubSeq(utxos, 1, last) /\ chosen.amount = Total(Top(utxos, last))
        <5> DEFINE part == SubSeq(utxos, 1, last)
                   sum == Total(Top(utxos, last))
        <5>1. chosen = [utxos |-> part, amount |-> sum]
          BY <4>3, <4>7, Zenon
        <5> HIDE DEF part, sum
        <5>2. chosen.utxos = part /\ chosen.amount = sum
          BY <5>1
        <5> QED
          BY <5>2 DEF part, sum
      <4>5. Distinct(SubSeq(utxos, 1, last), us)
        BY <4>1, <4>3, DistinctPart
      <4>6. Total(Top(utxos, last)) \in Nat
        BY <4>2, <4>3, TotalType
      <4> QED
        BY <4>3, <4>4, <4>5, <4>6
    <3>2. CASE alone # {}
      <4>8. alone \in SUBSET (1..last) /\ last \in Nat
        BY <2>4
      <4>1. Max(alone) \in alone /\ alone \in SUBSET (1..last)
        BY <3>2, <4>8, MaxIsGreatest
      <4>2. Max(alone) \in 1..n
        BY <2>2, <2>4, <4>1
      <4>3. utxos[Max(alone)] \in us
        BY <2>2, <4>2
      <4> DEFINE u == utxos[Max(alone)]
      <4>4. chosen = Selection(<<u>>)
        BY <3>2
      <4> HIDE DEF u
      <4>5. Selected(Selection(<<u>>), us) /\ Selection(<<u>>) = [utxos |-> <<u>>, amount |-> Value(u)]
        BY <4>3, SelectedOne DEF u
      <4> HIDE DEF chosen
      <4>6. Distinct(chosen.utxos, us) /\ chosen.amount = Total(Range(chosen.utxos))
        BY <4>4, <4>5 DEF Selected
      <4>10. chosen = [utxos |-> <<u>>, amount |-> Value(u)]
        BY <4>4, <4>5, Zenon
      <4>9. u \in KnownUtxos /\ chosen.amount = Value(u)
        BY <4>3, <4>10 DEF u
      <4>7. chosen.amount = Value(u) /\ Value(u) \in Nat
        BY <4>9, UtxosHaveValues
      <4> QED
        BY <4>6, <4>7
    <3> QED
      BY <3>1, <3>2
  <2> HIDE DEF chosen
  <2>6. CASE amount <= 0 \/ chosen.amount < amount
    BY <2>1, <2>6 DEF Picks
  <2>7. CASE ~(amount <= 0 \/ chosen.amount < amount)
    <3> DEFINE picked == SelectUtxos(utxos, amount)
    <3>1. picked = [ok |-> TRUE, utxos |-> chosen.utxos, change |-> Total(Range(chosen.utxos)) - amount]
      BY <2>1, <2>5, <2>7
    <3> HIDE DEF picked
    <3>2. picked.utxos = chosen.utxos
      BY <3>1
    <3>3. picked = [ok |-> TRUE, utxos |-> picked.utxos, change |-> Total(Range(picked.utxos)) - amount]
      BY <3>1, <3>2
    <3>4. amount > 0 /\ Total(Range(picked.utxos)) >= amount /\ Distinct(picked.utxos, us)
      BY <2>5, <2>7, <3>2
    <3> QED
      BY <3>3, <3>4 DEF Picks, picked
  <2> QED
    BY <2>6, <2>7
<1> QED
  BY <1>1, <1>2

-----------------------------------------------------------------------------
(* The funds of a list of outputs *)

\* A list of what has a value.
Listing(s) == s \in Seq(Range(s)) /\ \A i \in 1..Len(s) : s[i].value \in Nat

LEMMA JoinIs ==
  ASSUME NEW s, NEW t, Listing(s), Listing(t)
  PROVE  /\ Listing(s \o t) /\ Len(s) \in Nat /\ Len(t) \in Nat
         /\ Len(s \o t) = Len(s) + Len(t)
         /\ DOMAIN (s \o t) = 1..Len(s) + Len(t) /\ DOMAIN s = 1..Len(s) /\ DOMAIN t = 1..Len(t)
         /\ \A i \in 1..Len(s) : (s \o t)[i] = s[i]
         /\ \A i \in 1..Len(t) : (s \o t)[i + Len(s)] = t[i]
<1> DEFINE S == Range(s) \cup Range(t)
           r == s \o t
           m == Len(s)
           n == Len(t)
<1>1. s \in Seq(Range(s)) /\ t \in Seq(Range(t))
  BY DEF Listing
<1>2. m \in Nat /\ n \in Nat /\ DOMAIN s = 1..m /\ DOMAIN t = 1..n
  BY <1>1
<1>3. s \in Seq(S) /\ t \in Seq(S)
  BY <1>1
<1> HIDE DEF S
<1>4. r \in Seq(S) /\ Len(r) = m + n /\ DOMAIN r = 1..m + n
  BY <1>3
<1>5. (\A i \in 1..m : r[i] = s[i]) /\ (\A i \in 1..n : r[i + m] = t[i])
  BY <1>3
<1>6. \A i \in m + 1..m + n : r[i] = t[i - m] /\ i - m \in 1..n
  BY <1>3
<1>7. \A i \in 1..m + n : i \in 1..m \/ i \in m + 1..m + n
  BY <1>2
<1>8. (\A i \in 1..m : s[i].value \in Nat) /\ (\A i \in 1..n : t[i].value \in Nat)
  BY DEF Listing
<1> HIDE DEF r, m, n
<1>9. \A i \in 1..m + n : r[i].value \in Nat
  BY <1>5, <1>6, <1>7, <1>8
<1>10. r \in Seq(Range(r))
  BY <1>4 DEF Range
<1>11. Listing(r)
  BY <1>4, <1>9, <1>10 DEF Listing
<1> QED
  BY <1>2, <1>4, <1>5, <1>11 DEF r, m, n

LEMMA CarriersAreFinite ==
  ASSUME NEW s, Listing(s), NEW t
  PROVE  /\ IsFiniteSet(Carriers(s, t)) /\ Carriers(s, t) \in SUBSET (1..Len(s))
         /\ Cardinality(Carriers(s, t)) \in Nat
<1>1. DOMAIN s = 1..Len(s) /\ Len(s) \in Nat
  BY DEF Listing
<1>2. Carriers(s, t) \in SUBSET (1..Len(s))
  BY <1>1 DEF Carriers
<1>3. IsFiniteSet(1..Len(s))
  BY <1>1, FirstNumbers
<1> QED
  BY <1>2, <1>3, FS_Subset, FS_CardinalityType

LEMMA FundsType ==
  ASSUME NEW s, Listing(s), NEW t
  PROVE  Funds(s, t) \in Nat /\ Cardinality(Carriers(s, t)) \in Nat
<1> DEFINE f == [i \in Carriers(s, t) |-> s[i].value]
<1>1. IsFiniteSet(Carriers(s, t)) /\ Carriers(s, t) \in SUBSET (1..Len(s))
  BY CarriersAreFinite
<1>2. \A i \in Carriers(s, t) : f[i] \in Nat
  BY <1>1 DEF Listing
<1>3. Funds(s, t) = SumFunctionOnSet(f, Carriers(s, t))
  BY Zenon DEF Funds, SumFunction
<1> HIDE DEF f
<1> QED
  BY <1>1, <1>2, <1>3, SumNat, CarriersAreFinite

\* The carriers of two lists that are joined.
LEMMA CarriersJoin ==
  ASSUME NEW s, NEW t, Listing(s), Listing(t), NEW k
  PROVE  LET moved == {i + Len(s) : i \in Carriers(t, k)}
         IN  /\ Carriers(s \o t, k) = Carriers(s, k) \cup moved
             /\ Carriers(s, k) \cap moved = {}
             /\ [i \in Carriers(t, k) |-> i + Len(s)] \in Bijection(Carriers(t, k), moved)
             /\ IsFiniteSet(moved) /\ Cardinality(moved) = Cardinality(Carriers(t, k))
<1> DEFINE m == Len(s)
           n == Len(t)
           r == s \o t
           moved == {i + m : i \in Carriers(t, k)}
           b == [i \in Carriers(t, k) |-> i + m]
<1>1. /\ m \in Nat /\ n \in Nat /\ DOMAIN r = 1..m + n /\ DOMAIN s = 1..m /\ DOMAIN t = 1..n
      /\ (\A i \in 1..m : r[i] = s[i]) /\ (\A i \in 1..n : r[i + m] = t[i])
  BY JoinIs
<1>2. Carriers(s, k) \in SUBSET (1..m) /\ Carriers(t, k) \in SUBSET (1..n) /\ IsFiniteSet(Carriers(t, k))
  BY CarriersAreFinite
<1> HIDE DEF m, n, r
<1>3. \A i \in 1..m + n : i \in 1..m \/ \E j \in 1..n : i = j + m
  <2>1. \A i \in 1..m + n : i \in 1..m \/ (i - m \in 1..n /\ i = (i - m) + m)
    BY <1>1
  <2> QED
    BY <2>1
<1>4. (\A i \in 1..m : i \in 1..m + n) /\ (\A i \in 1..n : i + m \in 1..m + n /\ i + m \notin 1..m)
  BY <1>1
<1>5. Carriers(r, k) \subseteq Carriers(s, k) \cup moved
  <2> SUFFICES ASSUME NEW i \in Carriers(r, k) PROVE i \in Carriers(s, k) \cup moved
    OBVIOUS
  <2>1. i \in 1..m + n /\ r[i].token = k /\ r[i].authorities = {}
    BY <1>1 DEF Carriers
  <2>2. CASE i \in 1..m
    BY <1>1, <2>1, <2>2 DEF Carriers
  <2>3. CASE \E j \in 1..n : i = j + m
    <3>1. PICK j \in 1..n : i = j + m
      BY <2>3
    <3>2. j \in Carriers(t, k)
      BY <1>1, <2>1, <3>1 DEF Carriers
    <3> QED
      BY <3>1, <3>2
  <2> QED
    BY <1>3, <2>1, <2>2, <2>3
<1>6. Carriers(s, k) \cup moved \subseteq Carriers(r, k)
  BY <1>1, <1>4 DEF Carriers
<1>7. Carriers(s, k) \cap moved = {}
  BY <1>2, <1>4
<1>8. b \in Bijection(Carriers(t, k), moved)
  <2>1. \A i, j \in 1..n : i + m = j + m => i = j
    BY <1>1
  <2>2. b \in [Carriers(t, k) -> moved] /\ \A i, j \in Carriers(t, k) : b[i] = b[j] => i = j
    BY <1>2, <2>1
  <2> QED
    BY <2>2 DEF Bijection, Injection, Surjection, IsInjective
<1>9. IsFiniteSet(moved) /\ Cardinality(moved) = Cardinality(Carriers(t, k))
  <2>1. ExistsBijection(Carriers(t, k), moved)
    BY <1>8 DEF ExistsBijection
  <2> HIDE DEF moved
  <2> QED
    BY <1>2, <2>1, FS_Bijection
<1>10. Carriers(r, k) = Carriers(s, k) \cup moved
  BY <1>5, <1>6
<1> QED
  BY <1>7, <1>8, <1>9, <1>10 DEF r, m

LEMMA FundsJoin ==
  ASSUME NEW s, NEW t, Listing(s), Listing(t), NEW k
  PROVE  /\ Funds(s \o t, k) = Funds(s, k) + Funds(t, k)
         /\ Cardinality(Carriers(s \o t, k)) = Cardinality(Carriers(s, k)) + Cardinality(Carriers(t, k))
<1> DEFINE m == Len(s)
           r == s \o t
           A == Carriers(s, k)
           B == Carriers(t, k)
           moved == {i + m : i \in B}
           b == [i \in B |-> i + m]
           f == [i \in Carriers(r, k) |-> r[i].value]
           g == [i \in A |-> s[i].value]
           h == [i \in B |-> t[i].value]
<1>1. /\ Carriers(r, k) = A \cup moved /\ A \cap moved = {} /\ b \in Bijection(B, moved)
      /\ IsFiniteSet(moved) /\ Cardinality(moved) = Cardinality(B)
  BY CarriersJoin
<1>2. IsFiniteSet(A) /\ A \in SUBSET (1..m) /\ IsFiniteSet(B) /\ B \in SUBSET (1..Len(t))
  BY CarriersAreFinite
<1>3. (\A i \in 1..m : r[i] = s[i]) /\ (\A i \in 1..Len(t) : r[i + m] = t[i])
  BY JoinIs
<1>4. (\A i \in 1..m : s[i].value \in Nat) /\ (\A i \in 1..Len(t) : t[i].value \in Nat)
  BY DEF Listing
<1>5. \A i \in A : g[i] \in Int /\ g[i] = f[i]
  BY <1>1, <1>2, <1>3, <1>4
<1>6. \A i \in B : h[i] = f[b[i]] /\ h[i] \in Int /\ b[i] \in moved
  BY <1>1, <1>2, <1>3, <1>4
<1>7. \A i \in moved : f[i] \in Int
  <2>1. \A y \in moved : \E i \in B : b[i] = y
    OBVIOUS
  <2> HIDE DEF b, f, h, moved
  <2> QED
    BY <1>6, <2>1
<1>8. Funds(r, k) = SumFunctionOnSet(f, A \cup moved)
  BY <1>1, Zenon DEF Funds, SumFunction
<1>9. Funds(s, k) = SumFunctionOnSet(g, A) /\ Funds(t, k) = SumFunctionOnSet(h, B)
  BY Zenon DEF Funds, SumFunction
<1>10. A \cup moved = Carriers(r, k)
  BY <1>1
<1> HIDE DEF f, g, h, A, B, moved, b, m, r
<1>11. SumFunctionOnSet(g, A) = SumFunctionOnSet(f, A)
  BY <1>2, <1>5, SumAgree
<1>12. SumFunctionOnSet(h, B) = SumFunctionOnSet(f, moved)
  <2>1. \A i \in B : h[i] = f[b[i]]
    BY <1>6
  <2>2. b \in Bijection(B, moved)
    BY <1>1
  <2>3. IsFiniteSet(B)
    BY <1>2
  <2>4. \A i \in moved : f[i] \in Int
    BY <1>7
  <2> QED
    BY <2>1, <2>2, <2>3, <2>4, SumReindex
<1>13. \A i \in A \cup moved : f[i] \in Int
  BY <1>5, <1>7
<1>14. SumFunctionOnSet(f, A \cup moved) = SumFunctionOnSet(f, A) + SumFunctionOnSet(f, moved)
  BY <1>1, <1>2, <1>13, SumDisjoint
<1>15. Cardinality(A \cup moved) = Cardinality(A) + Cardinality(moved)
  <2>1. Cardinality(A \cup moved) = Cardinality(A) + Cardinality(moved) - Cardinality(A \cap moved)
    BY <1>1, <1>2, FS_Union
  <2>2. Cardinality(A \cap moved) = 0
    BY <1>1, FS_EmptySet
  <2>3. Cardinality(A) \in Nat /\ Cardinality(moved) \in Nat
    BY <1>1, <1>2, FS_CardinalityType
  <2> QED
    BY <2>1, <2>2, <2>3
<1> QED
  BY <1>1, <1>8, <1>9, <1>10, <1>11, <1>12, <1>14, <1>15 DEF r, A, B

\* A list of one output, and one of none.
LEMMA FundsOfOne ==
  ASSUME NEW o, o.value \in Nat, NEW k
  PROVE  /\ Listing(<<o>>)
         /\ Funds(<<o>>, k) = IF o.token = k /\ o.authorities = {} THEN o.value ELSE 0
         /\ Cardinality(Carriers(<<o>>, k)) = IF o.token = k /\ o.authorities = {} THEN 1 ELSE 0
<1> DEFINE f == [i \in Carriers(<<o>>, k) |-> <<o>>[i].value]
<1>1. <<o>> \in Seq({o}) /\ Len(<<o>>) = 1 /\ DOMAIN <<o>> = 1..1 /\ <<o>>[1] = o
  OBVIOUS
<1>2. Listing(<<o>>)
  BY <1>1 DEF Listing, Range
<1>3. Funds(<<o>>, k) = SumFunctionOnSet(f, Carriers(<<o>>, k))
  BY Zenon DEF Funds, SumFunction
<1>4. CASE o.token = k /\ o.authorities = {}
  <2>1. Carriers(<<o>>, k) = {1}
    BY <1>1, <1>4 DEF Carriers
  <2>2. f[1] = o.value
    BY <1>1, <2>1
  <2> HIDE DEF f
  <2>3. IsFiniteSet({1}) /\ Cardinality({1}) = 1 /\ {1} \ {1} = {}
    BY FS_Singleton
  <2>4. SumFunctionOnSet(f, {1}) = f[1] + SumFunctionOnSet(f, {1} \ {1})
    BY <2>2, <2>3, SumRemove
  <2>5. SumFunctionOnSet(f, {1}) = o.value
    BY <2>2, <2>3, <2>4, SumEmpty
  <2> QED
    BY <1>2, <1>3, <1>4, <2>1, <2>3, <2>5
<1>5. CASE ~(o.token = k /\ o.authorities = {})
  <2>1. Carriers(<<o>>, k) = {}
    BY <1>1, <1>5 DEF Carriers
  <2> HIDE DEF f
  <2> QED
    BY <1>2, <1>3, <1>5, <2>1, SumEmpty, FS_EmptySet
<1> QED
  BY <1>4, <1>5

LEMMA FundsOfNone ==
  ASSUME NEW k
  PROVE  Listing(<<>>) /\ Funds(<<>>, k) = 0 /\ Cardinality(Carriers(<<>>, k)) = 0
<1>1. Carriers(<<>>, k) = {} /\ Listing(<<>>)
  BY DEF Carriers, Listing, Range
<1>2. Funds(<<>>, k) = SumFunctionOnSet([i \in Carriers(<<>>, k) |-> <<>>[i].value], Carriers(<<>>, k))
  BY Zenon DEF Funds, SumFunction
<1> QED
  BY <1>1, <1>2, SumEmpty, FS_EmptySet

LEMMA SumOnes ==
  ASSUME NEW f, NEW S, IsFiniteSet(S), \A x \in S : f[x] = 1
  PROVE  SumFunctionOnSet(f, S) = Cardinality(S)
<1> DEFINE K == {T \in SUBSET S : SumFunctionOnSet(f, T) = Cardinality(T)}
<1>1. {} \in K
  BY SumEmpty, FS_EmptySet
<1>2. ASSUME NEW T \in SUBSET S, NEW x \in S \ T, T \in K PROVE T \cup {x} \in K
  <2>1. IsFiniteSet(T) /\ Cardinality(T) \in Nat
    BY FS_Subset, FS_CardinalityType
  <2>2. \A y \in T \cup {x} : f[y] \in Int
    OBVIOUS
  <2>3. SumFunctionOnSet(f, T \cup {x}) = f[x] + SumFunctionOnSet(f, T)
    BY <2>1, <2>2, SumAdd
  <2>4. Cardinality(T \cup {x}) = Cardinality(T) + 1
    BY <2>1, FS_AddElement
  <2> QED
    BY <1>2, <2>1, <2>3, <2>4
<1>3. \A T \in SUBSET S : T \in K
  <2> HIDE DEF K
  <2> QED
    BY <1>1, <1>2, SubsetInduction
<1> QED
  BY <1>3

LEMMA FundsOfPositive ==
  ASSUME NEW token, NEW v \in Nat, NEW kind, NEW k
  PROVE  /\ Listing(Positive(token, v, kind))
         /\ Funds(Positive(token, v, kind), k) = IF token = k THEN v ELSE 0
         /\ Cardinality(Carriers(Positive(token, v, kind), k)) = IF token = k /\ v # 0 THEN 1 ELSE 0
<1> DEFINE o == Output(token, v, {}, kind)
<1>1. o.value = v /\ o.token = token /\ o.authorities = {}
  BY DEF Output
<1>2. Positive(token, v, kind) = IF v = 0 THEN <<>> ELSE <<o>>
  BY DEF Positive
<1> HIDE DEF o
<1>3. CASE v = 0
  BY <1>2, <1>3, FundsOfNone
<1>4. CASE v # 0
  <2>1. /\ Listing(<<o>>)
        /\ Funds(<<o>>, k) = IF o.token = k /\ o.authorities = {} THEN o.value ELSE 0
        /\ Cardinality(Carriers(<<o>>, k)) = IF o.token = k /\ o.authorities = {} THEN 1 ELSE 0
    BY <1>1, FundsOfOne
  <2> QED
    BY <1>1, <1>2, <1>4, <2>1
<1> QED
  BY <1>3, <1>4

LEMMA FundsOfChange ==
  ASSUME NEW token, NEW v \in Nat, NEW k
  PROVE  /\ Listing(Change(token, v))
         /\ Funds(Change(token, v), k) = IF token = k THEN v ELSE 0
         /\ Cardinality(Carriers(Change(token, v), k)) = IF token = k /\ v # 0 THEN 1 ELSE 0
BY FundsOfPositive DEF Change

LEMMA FundsOfOutput ==
  ASSUME NEW token, NEW v \in Nat, NEW kind, NEW k
  PROVE  /\ Listing(<<Output(token, v, {}, kind)>>)
         /\ Funds(<<Output(token, v, {}, kind)>>, k) = IF token = k THEN v ELSE 0
         /\ Cardinality(Carriers(<<Output(token, v, {}, kind)>>, k)) = IF token = k THEN 1 ELSE 0
<1> DEFINE o == Output(token, v, {}, kind)
<1>1. o.value = v /\ o.token = token /\ o.authorities = {}
  BY DEF Output
<1> HIDE DEF o
<1>2. /\ Listing(<<o>>)
      /\ Funds(<<o>>, k) = IF o.token = k /\ o.authorities = {} THEN o.value ELSE 0
      /\ Cardinality(Carriers(<<o>>, k)) = IF o.token = k /\ o.authorities = {} THEN 1 ELSE 0
  BY <1>1, FundsOfOne
<1> QED
  BY <1>1, <1>2 DEF o

LEMMA FundsOfAuthority ==
  ASSUME NEW token, NEW rights, rights # {}, NEW kind, NEW k
  PROVE  /\ Listing(<<Output(token, 0, rights, kind)>>)
         /\ Funds(<<Output(token, 0, rights, kind)>>, k) = 0
         /\ Cardinality(Carriers(<<Output(token, 0, rights, kind)>>, k)) = 0
<1> DEFINE o == Output(token, 0, rights, kind)
<1>1. o.value = 0 /\ o.authorities # {}
  BY DEF Output
<1> HIDE DEF o
<1>2. /\ Listing(<<o>>)
      /\ Funds(<<o>>, k) = IF o.token = k /\ o.authorities = {} THEN o.value ELSE 0
      /\ Cardinality(Carriers(<<o>>, k)) = IF o.token = k /\ o.authorities = {} THEN 1 ELSE 0
  BY <1>1, FundsOfOne
<1> QED
  BY <1>1, <1>2 DEF o

LEMMA FundsOfAnother ==
  ASSUME NEW wanted, NEW token, NEW kind, NEW k
  PROVE  /\ Listing(Another(wanted, token, kind))
         /\ Funds(Another(wanted, token, kind), k) = 0
         /\ Cardinality(Carriers(Another(wanted, token, kind), k)) = 0
         /\ Authorities(wanted, token, kind) = Another(wanted, token, kind)
<1>1. Authorities(wanted, token, kind) = Another(wanted, token, kind)
  BY Zenon DEF Authorities, Another, Authority
<1>2. Another(wanted, token, kind) = IF wanted THEN <<Output(token, 0, {kind}, "authority")>> ELSE <<>>
  BY Zenon DEF Another, Authority
<1>3. CASE wanted
  <2>1. {kind} # {}
    OBVIOUS
  <2>2. Another(wanted, token, kind) = <<Output(token, 0, {kind}, "authority")>>
    BY <1>2, <1>3, Zenon
  <2> QED
    BY <1>1, <2>1, <2>2, FundsOfAuthority
<1>4. CASE ~wanted
  <2>1. Another(wanted, token, kind) = <<>>
    BY <1>2, <1>4, Zenon
  <2> QED
    BY <1>1, <2>1, FundsOfNone
<1> QED
  BY <1>3, <1>4

LEMMA FundsOfData ==
  ASSUME NEW count \in Nat, NEW k
  PROVE  /\ Listing(DataOutputs(count))
         /\ Funds(DataOutputs(count), k) = IF HTR = k THEN count ELSE 0
         /\ Cardinality(Carriers(DataOutputs(count), k)) = IF HTR = k THEN count ELSE 0
         /\ Data(count) = DataOutputs(count)
<1> DEFINE o == Output(HTR, 1, {}, "data")
           s == DataOutputs(count)
           f == [i \in Carriers(s, k) |-> s[i].value]
<1>1. o.value = 1 /\ o.token = HTR /\ o.authorities = {}
  BY DEF Output
<1>2. s = [i \in 1..count |-> o] /\ Data(count) = s
  BY DEF DataOutputs, Data
<1> HIDE DEF o
<1>3. DOMAIN s = 1..count /\ \A i \in 1..count : s[i] = o
  BY <1>2
<1>4. s \in Seq({o}) /\ Len(s) = count
  BY <1>2
<1>5. Funds(s, k) = SumFunctionOnSet(f, Carriers(s, k))
  BY Zenon DEF Funds, SumFunction
<1> HIDE DEF s
<1>6. s \in Seq(Range(s))
  BY <1>3, <1>4 DEF Range
<1>7. Listing(s)
  BY <1>1, <1>3, <1>4, <1>6 DEF Listing
<1>8. CASE HTR = k
  <2>1. Carriers(s, k) = 1..count
    BY <1>1, <1>3, <1>8 DEF Carriers
  <2>2. \A i \in 1..count : f[i] = 1
    BY <1>1, <1>3, <2>1
  <2> HIDE DEF f
  <2>3. SumFunctionOnSet(f, 1..count) = count
    BY <2>2, FirstNumbers, SumOnes
  <2> QED
    BY <1>2, <1>5, <1>7, <1>8, <2>1, <2>3, FirstNumbers DEF s
<1>9. CASE HTR # k
  <2>1. Carriers(s, k) = {}
    BY <1>1, <1>3, <1>9 DEF Carriers
  <2> HIDE DEF f
  <2> QED
    BY <1>2, <1>5, <1>7, <1>9, <2>1, SumEmpty, FS_EmptySet DEF s
<1> QED
  BY <1>8, <1>9 DEF s

-----------------------------------------------------------------------------
(* What the inputs bring *)

LEMMA TotalJoin ==
  ASSUME NEW us \in SUBSET KnownUtxos, NEW vs \in SUBSET KnownUtxos, us \cap vs = {}
  PROVE  Total(us \cup vs) = Total(us) + Total(vs)
<1> DEFINE f == [u \in KnownUtxos |-> UtxoOf[u].value]
<1>1. IsFiniteSet(us) /\ IsFiniteSet(vs)
  BY KnownUtxosAreFinite, FS_Subset
<1>2. \A u \in us \cup vs : f[u] \in Int
  BY UtxosHaveValues DEF Value
<1> HIDE DEF f
<1> QED
  BY <1>1, <1>2, SumDisjoint DEF Total, f

\* What the inputs of a transaction bring of a token.
LEMMA ReceivedIs ==
  ASSUME NEW inputs, Distinct(inputs, KnownUtxos), NEW t
  PROVE  /\ Listing(SpentOutputs(inputs))
         /\ Received(inputs, t) = Total(Available(Range(inputs), t))
         /\ Cardinality(Carriers(SpentOutputs(inputs), t)) = Cardinality(Available(Range(inputs), t))
         /\ Carriers(SpentOutputs(inputs), t) = {} <=> Available(Range(inputs), t) = {}
<1> DEFINE s == SpentOutputs(inputs)
           A == Carriers(s, t)
           B == Available(Range(inputs), t)
           n == Len(inputs)
           g == [i \in A |-> s[i].value]
           f == [u \in KnownUtxos |-> UtxoOf[u].value]
           b == [i \in A |-> inputs[i]]
<1>1. inputs \in Seq(KnownUtxos) /\ n \in Nat /\ DOMAIN inputs = 1..n /\ (\A i, j \in 1..n : inputs[i] = inputs[j] => i = j)
  BY DEF Distinct
<1>2. s = [i \in 1..n |-> UtxoOf[inputs[i]]]
  BY <1>1, Zenon DEF SpentOutputs
<1>3. \A i \in 1..n : inputs[i] \in KnownUtxos
  BY <1>1
<1>4. Listing(s)
  <2> HIDE DEF n, s
  <2>1. s \in Seq(Range(s)) /\ Len(s) = n
    BY <1>1, <1>2 DEF Range
  <2>2. \A i \in 1..n : s[i].value \in Nat
    BY <1>2, <1>3, UtxosHaveValues DEF Value
  <2> QED
    BY <2>1, <2>2 DEF Listing
<1>5. A = {i \in 1..n : UtxoOf[inputs[i]].token = t /\ UtxoOf[inputs[i]].authorities = {}}
  BY <1>2 DEF Carriers
<1>6. B = {inputs[i] : i \in A}
  BY <1>1, <1>5 DEF Available, Range
<1>7. b \in Bijection(A, B)
  <2>1. \A i, j \in A : inputs[i] = inputs[j] => i = j
    BY <1>1, <1>5
  <2> HIDE DEF A, B
  <2> QED
    BY <1>6, <2>1 DEF Bijection, Injection, Surjection, IsInjective
<1>8. \A i \in A : g[i] = f[b[i]] /\ b[i] \in KnownUtxos
  BY <1>2, <1>3, <1>5
<1>9. IsFiniteSet(A)
  BY <1>4, CarriersAreFinite
<1>10. \A u \in B : f[u] \in Int
  <2>1. \A u \in B : u \in KnownUtxos
    BY <1>3, <1>5, <1>6
  <2> QED
    BY <2>1, UtxosHaveValues DEF Value
<1>11. Received(inputs, t) = SumFunctionOnSet(g, A)
  BY Zenon DEF Received, Funds, SumFunction
<1> HIDE DEF A, B, s, f, g, b, n
<1>12. SumFunctionOnSet(g, A) = SumFunctionOnSet(f, B)
  <2>1. \A i \in A : g[i] = f[b[i]]
    BY <1>8
  <2> QED
    BY <1>7, <1>9, <1>10, <2>1, SumReindex
<1>13. Cardinality(A) = Cardinality(B)
  <2>1. ExistsBijection(A, B)
    BY <1>7 DEF ExistsBijection
  <2> QED
    BY <1>9, <2>1, FS_Bijection
<1>14. A = {} <=> B = {}
  BY <1>6
<1> QED
  BY <1>4, <1>11, <1>12, <1>13, <1>14 DEF A, B, s, f, Total

-----------------------------------------------------------------------------
(* Deposits and withdrawals *)

LEMMA Quotient ==
  ASSUME NEW x \in Nat, NEW d \in Nat \ {0}
  PROVE  x \div d \in Nat /\ (x \div d) * d <= x /\ x < (x \div d) * d + d
<1>1. x = d * (x \div d) + (x % d) /\ x % d \in 0..d - 1 /\ x \div d \in Nat
  BY SMT
<1> DEFINE q == x \div d
           r == x % d
<1>2. x = d * q + r /\ r \in Nat /\ r < d /\ q \in Nat
  BY <1>1
<1> HIDE DEF q, r
<1>3. d * q = q * d /\ d * q \in Nat
  BY <1>2
<1>4. q * d <= x /\ x < q * d + d
  BY <1>2, <1>3
<1> QED
  BY <1>2, <1>4 DEF q

LEMMA Scale ==
  ASSUME NEW a \in Nat, NEW b \in Nat, NEW d \in Nat \ {0}, a * d < b * d + d
  PROVE  a <= b
<1> SUFFICES ASSUME b + 1 <= a PROVE FALSE
  OBVIOUS
<1>1. PICK k \in Nat : a = b + 1 + k
  <2>1. a - (b + 1) \in Nat /\ a = b + 1 + (a - (b + 1))
    OBVIOUS
  <2> QED
    BY <2>1
<1>2. a * d = b * d + d + k * d /\ k * d \in Nat
  BY <1>1
<1> QED
  BY <1>2

LEMMA Ratio ==
  /\ DepositNumerator \in Nat /\ DepositDenominator \in Nat \ {0}
  /\ \A a \in Nat : DepositNumerator * a \in Nat /\ DepositNumerator * a <= a * DepositDenominator
<1>1. DepositNumerator \in Nat /\ DepositDenominator \in Nat \ {0} /\ DepositNumerator <= DepositDenominator
  BY TxFundsAssumption
<1>2. PICK k \in Nat : DepositDenominator = DepositNumerator + k
  <2>1. DepositDenominator - DepositNumerator \in Nat
    BY <1>1
  <2> QED
    BY <1>1, <2>1
<1>3. \A a \in Nat : a * DepositDenominator = DepositNumerator * a + k * a /\ k * a \in Nat /\ DepositNumerator * a \in Nat
  BY <1>1, <1>2
<1>4. \A a \in Nat : a * DepositDenominator \in Nat
  BY <1>1
<1>5. ASSUME NEW a \in Nat PROVE DepositNumerator * a \in Nat /\ DepositNumerator * a <= a * DepositDenominator
  <2> DEFINE x == DepositNumerator * a
             y == k * a
  <2>1. a * DepositDenominator = x + y /\ y \in Nat /\ x \in Nat
    BY <1>3
  <2> HIDE DEF x, y
  <2>2. x \in Nat /\ x <= a * DepositDenominator
    BY <2>1
  <2> QED
    BY <2>2 DEF x
<1> QED
  BY <1>1, <1>5

\* The deposit of the code, rounded up, is the least that is enough.
LEMMA DepositIsLeast ==
  ASSUME NEW t \in Tokens, NEW amount \in Nat
  PROVE  /\ DepositOf(t, amount) = RequiredDeposit(t, amount) /\ DepositOf(t, amount) \in Nat
         /\ DepositOf(t, 0) = 0 /\ DepositAmount(amount) \in Nat
<1> DEFINE d == DepositDenominator
           x == DepositNumerator * amount
           q == DepositAmount(amount)
           enough == {e \in 0..amount : e * d >= x}
<1>1. d \in Nat \ {0} /\ x \in Nat /\ x <= amount * d
  BY Ratio
<1>2. q = (x + d - 1) \div d
  BY DEF DepositAmount
<1> HIDE DEF d, x, q
<1>3. x + d - 1 \in Nat
  BY <1>1
<1>4. q \in Nat /\ q * d <= x + d - 1 /\ x + d - 1 < q * d + d
  BY <1>1, <1>2, <1>3, Quotient
<1>5. q * d \in Nat /\ q * d >= x
  BY <1>1, <1>4
<1>6. ASSUME NEW e \in Nat, e * d >= x PROVE q <= e
  <2>1. e * d \in Nat
    BY <1>1
  <2>2. q * d < e * d + d
    BY <1>1, <1>4, <1>5, <1>6, <2>1
  <2> QED
    BY <1>1, <1>4, <2>2, Scale
<1>7. q <= amount
  BY <1>1, <1>6
<1>8. q \in enough /\ enough \in SUBSET Nat /\ \A e \in enough : q <= e
  BY <1>4, <1>5, <1>6, <1>7
<1> HIDE DEF enough
<1>9. Min(enough) = q
  <2>1. Min(enough) \in enough /\ \A e \in enough : Min(enough) <= e
    BY <1>8, MinIsLeast
  <2>2. Min(enough) \in Nat /\ Min(enough) <= q /\ q <= Min(enough)
    BY <1>8, <2>1
  <2> QED
    BY <1>4, <2>2
<1>10. DepositAmount(0) = 0
  <2>1. DepositNumerator * 0 = 0
    BY Ratio
  <2>2. DepositAmount(0) = (DepositNumerator * 0 + DepositDenominator - 1) \div DepositDenominator
    BY DEF DepositAmount
  <2>3. DepositAmount(0) = (d - 1) \div d
    BY <1>1, <2>1, <2>2 DEF d
  <2> DEFINE p == (d - 1) \div d
  <2>4. p \in Nat /\ p * d <= d - 1
    BY <1>1, Quotient
  <2>5. p * d < 0 * d + d
    BY <1>1, <2>4
  <2> HIDE DEF p
  <2>6. p <= 0
    BY <1>1, <2>4, <2>5, Scale
  <2> QED
    BY <2>3, <2>4, <2>6 DEF p
<1>11. Version[t] \in {"deposit", "fee"}
  BY TxFundsAssumption
<1>12. CASE Version[t] = "fee"
  BY <1>4, <1>12 DEF DepositOf, RequiredDeposit, q
<1>13. CASE Version[t] = "deposit"
  BY <1>4, <1>9, <1>10, <1>13 DEF DepositOf, RequiredDeposit, q, enough, d, x
<1> QED
  BY <1>11, <1>12, <1>13

\* What the code withdraws, rounded down, is the most there may be.
LEMMA WithdrawIsMost ==
  ASSUME NEW t \in Tokens, NEW amount \in Nat
  PROVE  /\ WithdrawOf(t, amount) = AllowedWithdraw(t, amount) /\ WithdrawOf(t, amount) \in Nat
         /\ WithdrawOf(t, 0) = 0 /\ WithdrawAmount(amount) \in Nat
<1> DEFINE d == DepositDenominator
           x == DepositNumerator * amount
           q == WithdrawAmount(amount)
           few == {e \in 0..amount : e * d <= x}
<1>1. d \in Nat \ {0} /\ x \in Nat /\ x <= amount * d
  BY Ratio
<1>2. q = x \div d
  BY DEF WithdrawAmount
<1> HIDE DEF d, x, q
<1>4. q \in Nat /\ q * d <= x /\ x < q * d + d
  BY <1>1, <1>2, Quotient
<1>5. q * d \in Nat
  BY <1>1, <1>4
<1>6. ASSUME NEW e \in Nat, e * d <= x PROVE e <= q
  <2>1. e * d \in Nat
    BY <1>1
  <2>2. e * d < q * d + d
    BY <1>1, <1>4, <1>5, <1>6, <2>1
  <2> QED
    BY <1>1, <1>4, <2>2, Scale
<1>7. q <= amount
  <2>1. amount * d \in Nat
    BY <1>1
  <2>2. q * d < amount * d + d
    BY <1>1, <1>4, <1>5, <2>1
  <2> QED
    BY <1>1, <1>4, <2>2, Scale
<1>8. q \in few /\ \A e \in few : e <= q
  BY <1>4, <1>5, <1>6, <1>7
<1>9. Max(few) = q
  <2>1. \A y \in few : (\A e \in few : e <= y) => y = q
    BY <1>4, <1>8
  <2> HIDE DEF few
  <2> QED
    BY <1>8, <2>1 DEF Max
<1>10. WithdrawAmount(0) = 0
  <2>1. DepositNumerator * 0 = 0
    BY Ratio
  <2>2. WithdrawAmount(0) = 0 \div d
    BY <2>1 DEF WithdrawAmount, d
  <2> DEFINE p == 0 \div d
  <2>4. p \in Nat /\ p * d <= 0
    BY <1>1, Quotient
  <2>5. p * d < 0 * d + d
    BY <1>1, <2>4
  <2> HIDE DEF p
  <2>6. p <= 0
    BY <1>1, <2>4, <2>5, Scale
  <2> QED
    BY <2>2, <2>4, <2>6 DEF p
<1>11. Version[t] \in {"deposit", "fee"}
  BY TxFundsAssumption
<1>12. CASE Version[t] = "fee"
  BY <1>4, <1>12 DEF WithdrawOf, AllowedWithdraw, q
<1>13. CASE Version[t] = "deposit"
  BY <1>4, <1>9, <1>10, <1>13 DEF WithdrawOf, AllowedWithdraw, q, few, d, x
<1> QED
  BY <1>11, <1>12, <1>13

-----------------------------------------------------------------------------
(* The rules, for transactions without contract actions *)

Simple(t) ==
    /\ t.actions = <<>> /\ t.fee \in Nat
    /\ Listing(t.outputs) /\ Listing(t.shielded)
    /\ Distinct(t.inputs, KnownUtxos)

LEMMA SimpleExcess ==
  ASSUME NEW x, Simple(x), NEW t
  PROVE  /\ Excess(x, t) = Funds(x.outputs, t) + Funds(x.shielded, t) - Total(Available(Range(x.inputs), t))
         /\ Excess(x, t) \in Int
<1>1. \A type : Acted(x, type, t) = 0
  <2> SUFFICES ASSUME NEW type PROVE Acted(x, type, t) = 0
    OBVIOUS
  <2> DEFINE chosen == {i \in DOMAIN x.actions : x.actions[i].type = type /\ x.actions[i].token = t}
  <2>1. chosen = {}
    BY DEF Simple
  <2>2. Acted(x, type, t) = SumFunctionOnSet([i \in chosen |-> x.actions[i].amount], chosen)
    BY Zenon DEF Acted, SumFunction
  <2> HIDE DEF chosen
  <2> QED
    BY <2>1, <2>2, SumEmpty
<1>2. Funds(x.outputs, t) \in Nat /\ Funds(x.shielded, t) \in Nat
  BY FundsType DEF Simple
<1>3. Received(x.inputs, t) = Total(Available(Range(x.inputs), t))
  BY ReceivedIs DEF Simple
<1>4. Total(Available(Range(x.inputs), t)) \in Nat
  <2>1. Range(x.inputs) \in SUBSET KnownUtxos
    BY DEF Simple, Distinct, Range
  <2>2. Available(Range(x.inputs), t) \in SUBSET KnownUtxos
    BY <2>1 DEF Available
  <2> QED
    BY <2>2, TotalType
<1>5. Excess(x, t) = Funds(x.outputs, t) + Funds(x.shielded, t) + 0 - Received(x.inputs, t) - 0
  BY <1>1 DEF Excess
<1> QED
  BY <1>2, <1>3, <1>4, <1>5

LEMMA SumOfOne ==
  ASSUME NEW a, NEW f, f[a] \in Int
  PROVE  SumFunctionOnSet(f, {a}) = f[a]
<1>1. IsFiniteSet({a}) /\ {a} \ {a} = {}
  BY FS_Singleton
<1>2. SumFunctionOnSet(f, {a}) = f[a] + SumFunctionOnSet(f, {a} \ {a})
  BY <1>1, SumRemove
<1> QED
  BY <1>1, <1>2, SumEmpty

\* A transaction that only moves tokens.
LEMMA BalancedWhenMoved ==
  ASSUME NEW x, \A t \in Tokens : Excess(x, t) = 0, Excess(x, HTR) + x.fee = 0
  PROVE  Balanced(x)
<1>1. Minted(x) = {} /\ Melted(x) = {}
  BY DEF Minted, Melted
<1> DEFINE f == [t \in Minted(x) |-> RequiredDeposit(t, Excess(x, t))]
           g == [t \in Melted(x) |-> AllowedWithdraw(t, -Excess(x, t))]
<1>2. SumFunction(f) = SumFunctionOnSet(f, Minted(x)) /\ SumFunction(g) = SumFunctionOnSet(g, Melted(x))
  BY Zenon DEF SumFunction
<1> HIDE DEF f, g
<1>3. SumFunction(f) = 0 /\ SumFunction(g) = 0
  BY <1>1, <1>2, SumEmpty
<1>4. Excess(x, HTR) + x.fee + SumFunction(f) = SumFunction(g)
  BY <1>3
<1> QED
  BY <1>1, <1>4 DEF Balanced, f, g

\* One that mints an amount of a token.
LEMMA BalancedWhenMinted ==
  ASSUME NEW x, NEW token \in Tokens, NEW amount \in Nat,
         \A t \in Tokens : Excess(x, t) = IF t = token THEN amount ELSE 0,
         token \in x.created \/ Grants(x, "mint", token),
         Excess(x, HTR) \in Int, x.fee \in Nat, Excess(x, HTR) + x.fee + DepositOf(token, amount) = 0
  PROVE  Balanced(x)
<1>0. DepositOf(token, amount) = RequiredDeposit(token, amount) /\ DepositOf(token, amount) \in Nat /\ DepositOf(token, 0) = 0
  BY DepositIsLeast
<1>1. CASE amount = 0
  <2>1. Excess(x, HTR) + x.fee = 0
    BY <1>0, <1>1
  <2>2. \A t \in Tokens : Excess(x, t) = 0
    BY <1>1
  <2> QED
    BY <2>1, <2>2, BalancedWhenMoved
<1>2. CASE amount # 0
  <2>1. Minted(x) = {token} /\ Melted(x) = {}
    BY <1>2 DEF Minted, Melted
  <2> DEFINE f == [t \in Minted(x) |-> RequiredDeposit(t, Excess(x, t))]
             g == [t \in Melted(x) |-> AllowedWithdraw(t, -Excess(x, t))]
  <2>2. SumFunction(f) = SumFunctionOnSet(f, Minted(x)) /\ SumFunction(g) = SumFunctionOnSet(g, Melted(x))
    BY Zenon DEF SumFunction
  <2>3. f[token] = DepositOf(token, amount)
    BY <1>0, <2>1
  <2> HIDE DEF f, g
  <2>4. SumFunction(f) = DepositOf(token, amount)
    <3>1. f[token] \in Int
      BY <1>0, <2>3
    <3>2. SumFunctionOnSet(f, {token}) = f[token]
      BY <3>1, SumOfOne
    <3> QED
      BY <2>1, <2>2, <2>3, <3>2
  <2>5. SumFunction(g) = 0
    BY <2>1, <2>2, SumEmpty
  <2>6. Excess(x, HTR) + x.fee + SumFunction(f) = SumFunction(g)
    BY <2>4, <2>5
  <2> QED
    BY <2>1, <2>6 DEF Balanced, f, g
<1> QED
  BY <1>1, <1>2

\* One that melts an amount of a token.
LEMMA BalancedWhenMelted ==
  ASSUME NEW x, NEW token \in Tokens, NEW amount \in Nat,
         \A t \in Tokens : Excess(x, t) = IF t = token THEN -amount ELSE 0,
         Grants(x, "melt", token),
         Excess(x, HTR) \in Int, x.fee \in Nat, Excess(x, HTR) + x.fee = WithdrawOf(token, amount)
  PROVE  Balanced(x)
<1>0. WithdrawOf(token, amount) = AllowedWithdraw(token, amount) /\ WithdrawOf(token, amount) \in Nat /\ WithdrawOf(token, 0) = 0
  BY WithdrawIsMost
<1>1. CASE amount = 0
  <2>1. Excess(x, HTR) + x.fee = 0
    BY <1>0, <1>1
  <2>2. \A t \in Tokens : Excess(x, t) = 0
    BY <1>1
  <2> QED
    BY <2>1, <2>2, BalancedWhenMoved
<1>2. CASE amount # 0
  <2>1. Minted(x) = {} /\ Melted(x) = {token} /\ -Excess(x, token) = amount
    <3>1. \A t \in Tokens : ~(Excess(x, t) > 0) /\ (Excess(x, t) < 0 <=> t = token)
      BY <1>2
    <3>2. -Excess(x, token) = amount
      BY SMT
    <3> QED
      BY <3>1, <3>2 DEF Minted, Melted
  <2> DEFINE f == [t \in Minted(x) |-> RequiredDeposit(t, Excess(x, t))]
             g == [t \in Melted(x) |-> AllowedWithdraw(t, -Excess(x, t))]
  <2>2. SumFunction(f) = SumFunctionOnSet(f, Minted(x)) /\ SumFunction(g) = SumFunctionOnSet(g, Melted(x))
    BY Zenon DEF SumFunction
  <2>3. g[token] = WithdrawOf(token, amount)
    BY <1>0, <2>1
  <2> HIDE DEF f, g
  <2>4. SumFunction(g) = WithdrawOf(token, amount)
    <3>1. g[token] \in Int
      BY <1>0, <2>3
    <3>2. SumFunctionOnSet(g, {token}) = g[token]
      BY <3>1, SumOfOne
    <3> QED
      BY <2>1, <2>2, <2>3, <3>2
  <2>5. SumFunction(f) = 0
    BY <2>1, <2>2, SumEmpty
  <2>6. Excess(x, HTR) + x.fee + SumFunction(f) = SumFunction(g)
    BY <2>4, <2>5
  <2> QED
    BY <2>1, <2>6 DEF Balanced, f, g
<1> QED
  BY <1>1, <1>2

-----------------------------------------------------------------------------
(* The fee *)

\* What is due for each token of a transaction without contract actions.
Due(x, t) ==
    IF Cardinality(Carriers(x.outputs, t)) > 0 THEN Cardinality(Carriers(x.outputs, t))
    ELSE IF Available(Range(x.inputs), t) # {} THEN 1 ELSE 0

LEMMA TokensPayFees == FeeTokens \in SUBSET Tokens /\ IsFiniteSet(FeeTokens) /\ HTR \notin FeeTokens /\ FeePerOutput \in Nat
<1>1. FeeTokens \in SUBSET Tokens /\ HTR \notin FeeTokens /\ FeePerOutput \in Nat
  BY TxFundsAssumption DEF FeeTokens
<1> QED
  BY <1>1, KnownUtxosAreFinite, FS_Subset

LEMMA FeeDueIs ==
  ASSUME NEW x, Simple(x), NEW t \in Tokens
  PROVE  /\ FeeDue(x, t) = IF t \in FeeTokens THEN FeePerOutput * Due(x, t) ELSE 0
         /\ Due(x, t) \in Nat
<1> DEFINE Count(type) == Cardinality({i \in DOMAIN x.actions : x.actions[i].type = type /\ x.actions[i].token = t})
           given == Cardinality(Carriers(SpentOutputs(x.inputs), t)) + Count("withdrawal")
           paid == Cardinality(Carriers(x.outputs, t)) + Count("deposit")
           out == Cardinality(Carriers(x.outputs, t))
           came == Cardinality(Available(Range(x.inputs), t))
<1>1. \A type : Count(type) = 0
  <2>1. \A type : {i \in DOMAIN x.actions : x.actions[i].type = type /\ x.actions[i].token = t} = {}
    BY DEF Simple
  <2> QED
    BY <2>1, FS_EmptySet
<1>2. out \in Nat
  BY FundsType DEF Simple
<1>3. Cardinality(Carriers(SpentOutputs(x.inputs), t)) = came
  BY ReceivedIs DEF Simple
<1>4. came \in Nat /\ (came = 0 <=> Available(Range(x.inputs), t) = {})
  <2>1. IsFiniteSet(Range(x.inputs))
    BY DistinctIsBijection DEF Simple
  <2>2. IsFiniteSet(Available(Range(x.inputs), t))
    BY <2>1, AvailablePart, FS_Subset
  <2> QED
    BY <2>2, FS_CardinalityType, FS_EmptySet
<1>5. FeeDue(x, t) = IF t \in Tokens /\ Version[t] = "fee" THEN FeePerOutput * Max({paid, Min({given, 1})}) ELSE 0
  BY Zenon DEF FeeDue
<1> HIDE DEF out, came
<1>10. Count("withdrawal") = 0 /\ Count("deposit") = 0
  BY <1>1
<1> HIDE DEF Count
<1>6. given = came /\ paid = out
  BY <1>2, <1>3, <1>4, <1>10 DEF out
<1> HIDE DEF given, paid
<1>7. Min({given, 1}) = IF came = 0 THEN 0 ELSE 1
  <2>1. {given, 1} \in SUBSET Nat /\ {given, 1} # {}
    BY <1>4, <1>6
  <2>2. Min({given, 1}) \in {given, 1} /\ \A n \in {given, 1} : Min({given, 1}) <= n
    BY <2>1, MinIsLeast
  <2> QED
    BY <1>4, <1>6, <2>2
<1>8. Max({paid, Min({given, 1})}) = IF out > 0 THEN out ELSE IF came = 0 THEN 0 ELSE 1
  <2> DEFINE low == Min({given, 1})
  <2>1. low \in {0, 1} /\ (low = 0 <=> came = 0)
    BY <1>7
  <2> HIDE DEF low
  <2>2. PICK n \in Nat : n = out + 1
    BY <1>2
  <2>3. Max({paid, low}) \in {paid, low} /\ \A k \in {paid, low} : k <= Max({paid, low})
    <3>1. \E m \in {paid, low} : \A k \in {paid, low} : k <= m
      <4>1. CASE paid <= low
        BY <1>2, <1>6, <2>1, <4>1
      <4>2. CASE ~(paid <= low)
        BY <1>2, <1>6, <2>1, <4>2
      <4> QED
        BY <4>1, <4>2
    <3> QED
      BY <3>1 DEF Max
  <2>4. Max({paid, low}) \in Nat /\ (Max({paid, low}) = paid \/ Max({paid, low}) = low) /\ paid <= Max({paid, low}) /\ low <= Max({paid, low})
    BY <1>2, <1>6, <2>1, <2>3
  <2>5. Max({paid, low}) = IF out > 0 THEN out ELSE IF came = 0 THEN 0 ELSE 1
    BY <1>2, <1>6, <2>1, <2>4
  <2> QED
    BY <2>5 DEF low
<1>9. Due(x, t) = IF out > 0 THEN out ELSE IF came = 0 THEN 0 ELSE 1
  BY <1>4 DEF Due, out
<1> QED
  BY <1>2, <1>5, <1>8, <1>9 DEF FeeTokens

\* The fee of a transaction without contract actions is what is due for all tokens.
LEMMA FeeIsDue ==
  ASSUME NEW x, Simple(x)
  PROVE  /\ SumFunction([t \in Tokens |-> FeeDue(x, t)])
            = FeePerOutput * SumFunctionOnSet([t \in FeeTokens |-> Due(x, t)], FeeTokens)
         /\ SumFunctionOnSet([t \in FeeTokens |-> Due(x, t)], FeeTokens) \in Nat
<1> DEFINE f == [t \in Tokens |-> FeeDue(x, t)]
           g == [t \in FeeTokens |-> Due(x, t)]
<1>1. \A t \in Tokens : FeeDue(x, t) = (IF t \in FeeTokens THEN FeePerOutput * Due(x, t) ELSE 0) /\ Due(x, t) \in Nat
  BY FeeDueIs
<1>2. /\ FeeTokens \in SUBSET Tokens /\ IsFiniteSet(FeeTokens) /\ FeePerOutput \in Nat /\ IsFiniteSet(Tokens)
  BY TokensPayFees, KnownUtxosAreFinite
<1>3. \A t \in FeeTokens : f[t] = FeePerOutput * g[t] /\ g[t] \in Nat
  BY <1>1, <1>2
<1>4. \A t \in Tokens : f[t] \in Int
  BY <1>1, <1>2
<1>5. \A t \in Tokens \ FeeTokens : f[t] = 0
  BY <1>1
<1>6. SumFunction(f) = SumFunctionOnSet(f, Tokens)
  BY Zenon DEF SumFunction
<1> HIDE DEF f, g
<1>7. SumFunctionOnSet(f, Tokens) = SumFunctionOnSet(f, FeeTokens)
  BY <1>2, <1>4, <1>5, SumZeros
<1>8. SumFunctionOnSet(f, FeeTokens) = FeePerOutput * SumFunctionOnSet(g, FeeTokens)
  BY <1>2, <1>3, SumScaled
<1>9. SumFunctionOnSet(g, FeeTokens) \in Nat
  BY <1>2, <1>3, SumNat
<1> QED
  BY <1>6, <1>7, <1>8, <1>9 DEF f, g

-----------------------------------------------------------------------------
(* What the inputs of a transaction bring *)

\* Two lists of inputs that have nothing in common.
LEMMA SpentJoin ==
  ASSUME NEW a, NEW b, Distinct(a, KnownUtxos), Distinct(b, KnownUtxos), Range(a) \cap Range(b) = {}, NEW t
  PROVE  /\ Distinct(a \o b, KnownUtxos) /\ Range(a \o b) = Range(a) \cup Range(b)
         /\ Available(Range(a \o b), t) = Available(Range(a), t) \cup Available(Range(b), t)
         /\ Total(Available(Range(a \o b), t)) = Total(Available(Range(a), t)) + Total(Available(Range(b), t))
         /\ Total(Available(Range(a), t)) \in Nat /\ Total(Available(Range(b), t)) \in Nat
<1>1. Distinct(a \o b, KnownUtxos) /\ Range(a \o b) = Range(a) \cup Range(b)
  BY DistinctJoin
<1>2. Available(Range(a) \cup Range(b), t) = Available(Range(a), t) \cup Available(Range(b), t)
  BY DEF Available
<1>3. Range(a) \in SUBSET KnownUtxos /\ Range(b) \in SUBSET KnownUtxos
  BY DistinctPart
<1>4. /\ Available(Range(a), t) \in SUBSET KnownUtxos /\ Available(Range(b), t) \in SUBSET KnownUtxos
      /\ Available(Range(a), t) \cap Available(Range(b), t) = {}
  BY <1>3 DEF Available
<1>5. Total(Available(Range(a), t) \cup Available(Range(b), t)) = Total(Available(Range(a), t)) + Total(Available(Range(b), t))
  BY <1>4, TotalJoin
<1> QED
  BY <1>1, <1>2, <1>4, <1>5, TotalType

\* Inputs that were chosen for a token bring nothing else.
LEMMA SpentFor ==
  ASSUME NEW available \in SUBSET KnownUtxos, NEW token, NEW us \in SUBSET Available(available, token), NEW t
  PROVE  /\ us \in SUBSET KnownUtxos /\ us \in SUBSET available
         /\ Available(us, t) = IF t = token THEN us ELSE {}
         /\ Total(Available(us, t)) = IF t = token THEN Total(us) ELSE 0
         /\ Total(us) \in Nat
<1>1. us \in SUBSET KnownUtxos /\ us \in SUBSET available
  BY DEF Available
<1>2. Available(us, t) = IF t = token THEN us ELSE {}
  BY DEF Available
<1> QED
  BY <1>1, <1>2, TotalType, SumEmpty DEF Total

\* Nothing, and an authority, bring no value.
LEMMA SpentNothing ==
  ASSUME NEW us \in SUBSET KnownUtxos, \A u \in us : UtxoOf[u].authorities # {}, NEW t
  PROVE  Available(us, t) = {} /\ Total(Available(us, t)) = 0
<1>1. Available(us, t) = {}
  BY DEF Available
<1> QED
  BY <1>1, SumEmpty DEF Total

-----------------------------------------------------------------------------
(* Transactions that are right *)

\* The inputs were available, and the rules are satisfied.
Correct(x, available) ==
    /\ Simple(x) /\ Distinct(x.inputs, available)
    /\ Balanced(x) /\ FeeIsRight(x)

LEMMA NothingShielded == ShieldedFees(<<>>) = 0 /\ \A t : Funds(<<>>, t) = 0
<1> DEFINE f == [i \in DOMAIN <<>> |-> ShieldedFee(<<>>[i].mode)]
<1>1. ShieldedFees(<<>>) = SumFunctionOnSet(f, DOMAIN <<>>)
  BY Zenon DEF ShieldedFees, SumFunction
<1>2. DOMAIN <<>> = {}
  OBVIOUS
<1> HIDE DEF f
<1> QED
  BY <1>1, <1>2, SumEmpty, FundsOfNone

\* Only one token has a fee that is due.
LEMMA FeeOfOne ==
  ASSUME NEW x, Simple(x), x.shielded = <<>>, NEW token \in Tokens,
         \A t \in Tokens \ {token} : Due(x, t) = 0,
         x.fee = IF token \in FeeTokens THEN FeePerOutput * Due(x, token) ELSE 0
  PROVE  FeeIsRight(x)
<1> DEFINE f == [t \in Tokens |-> FeeDue(x, t)]
<1>1. \A t \in Tokens : FeeDue(x, t) = (IF t \in FeeTokens THEN FeePerOutput * Due(x, t) ELSE 0) /\ Due(x, t) \in Nat
  BY FeeDueIs
<1>2. FeePerOutput \in Nat
  BY TokensPayFees
<1>3. \A t \in Tokens : f[t] \in Int /\ (t # token => f[t] = 0)
  BY <1>1, <1>2
<1>4. f[token] = x.fee
  BY <1>1
<1>5. SumFunction(f) = SumFunctionOnSet(f, Tokens)
  BY Zenon DEF SumFunction
<1> HIDE DEF f
<1>6. {token} \subseteq Tokens /\ \A t \in Tokens \ {token} : f[t] = 0
  BY <1>3
<1>7. SumFunctionOnSet(f, Tokens) = SumFunctionOnSet(f, {token})
  BY <1>3, <1>6, KnownUtxosAreFinite, SumZeros
<1>8. SumFunctionOnSet(f, {token}) = f[token]
  BY <1>3, SumOfOne
<1>9. ShieldedFees(x.shielded) = 0
  BY NothingShielded
<1>10. x.fee \in Nat
  BY DEF Simple
<1>11. x.fee = SumFunction(f) + ShieldedFees(x.shielded)
  BY <1>4, <1>5, <1>7, <1>8, <1>9, <1>10
<1> QED
  BY <1>11 DEF FeeIsRight, f

\* No fee is due for what moves no value.
LEMMA FeeOfNone ==
  ASSUME NEW x, Simple(x), x.shielded = <<>>, \A t \in Tokens : Due(x, t) = 0, x.fee = 0
  PROVE  FeeIsRight(x)
<1> DEFINE f == [t \in Tokens |-> FeeDue(x, t)]
<1>1. \A t \in Tokens : FeeDue(x, t) = (IF t \in FeeTokens THEN FeePerOutput * Due(x, t) ELSE 0) /\ Due(x, t) \in Nat
  BY FeeDueIs
<1>2. FeePerOutput \in Nat
  BY TokensPayFees
<1>3. \A t \in Tokens : f[t] \in Int /\ f[t] = 0
  BY <1>1, <1>2
<1>5. SumFunction(f) = SumFunctionOnSet(f, Tokens)
  BY Zenon DEF SumFunction
<1> HIDE DEF f
<1>6. {} \subseteq Tokens /\ (\A t \in Tokens : f[t] \in Int) /\ \A t \in Tokens \ {} : f[t] = 0
  BY <1>3
<1>7. SumFunctionOnSet(f, Tokens) = SumFunctionOnSet(f, {})
  BY <1>6, KnownUtxosAreFinite, SumZeros
<1>9. ShieldedFees(x.shielded) = 0
  BY NothingShielded
<1>11. x.fee = SumFunction(f) + ShieldedFees(x.shielded)
  BY <1>5, <1>7, <1>9, SumEmpty
<1> QED
  BY <1>11 DEF FeeIsRight, f

\* What mints an amount of a token, pays its deposit and the fee of one output.
Mints(x, token, amount, available) ==
    /\ Simple(x) /\ x.shielded = <<>> /\ Distinct(x.inputs, available)
    /\ \A t \in Tokens : /\ Funds(x.outputs, t) = IF t = token THEN amount ELSE 0
                         /\ Cardinality(Carriers(x.outputs, t)) = IF t = token THEN 1 ELSE 0
                         /\ Available(Range(x.inputs), t) = {}
    /\ Funds(x.outputs, HTR) + x.fee + DepositOf(token, amount) = Total(Available(Range(x.inputs), HTR))

LEMMA MintsIsBalanced ==
  ASSUME NEW x, NEW token \in Tokens, NEW amount \in Nat, NEW available, Mints(x, token, amount, available),
         token \in x.created \/ Grants(x, "mint", token)
  PROVE  Balanced(x)
<1>1. Simple(x) /\ x.shielded = <<>>
  BY DEF Mints
<1>2. \A t : /\ Excess(x, t) = Funds(x.outputs, t) + Funds(x.shielded, t) - Total(Available(Range(x.inputs), t))
             /\ Excess(x, t) \in Int /\ Funds(x.outputs, t) \in Nat
  BY <1>1, SimpleExcess, FundsType DEF Simple
<1>3. \A t : Funds(x.shielded, t) = 0
  BY <1>1, NothingShielded
<1>4. Total({}) = 0
  BY SumEmpty DEF Total
<1>5. \A t \in Tokens : Excess(x, t) = IF t = token THEN amount ELSE 0
  <2> SUFFICES ASSUME NEW t \in Tokens PROVE Excess(x, t) = IF t = token THEN amount ELSE 0
    OBVIOUS
  <2> DEFINE came == Total(Available(Range(x.inputs), t))
  <2>1. Funds(x.outputs, t) = (IF t = token THEN amount ELSE 0) /\ came = 0
    BY <1>4 DEF Mints
  <2>2. Excess(x, t) = Funds(x.outputs, t) + Funds(x.shielded, t) - came /\ Funds(x.shielded, t) = 0
    BY <1>2, <1>3
  <2> HIDE DEF came
  <2> QED
    BY <2>1, <2>2
<1>6. x.fee \in Nat /\ DepositOf(token, amount) \in Nat
  BY <1>1, DepositIsLeast DEF Simple
<1>7. Excess(x, HTR) \in Int /\ Excess(x, HTR) + x.fee + DepositOf(token, amount) = 0
  <2>1. Total(Available(Range(x.inputs), HTR)) = Funds(x.outputs, HTR) + x.fee + DepositOf(token, amount)
    BY Zenon DEF Mints
  <2> QED
    BY <1>2, <1>3, <1>6, <2>1
<1> QED
  BY <1>5, <1>6, <1>7, BalancedWhenMinted

LEMMA MintsPays ==
  ASSUME NEW x, NEW token \in Tokens, NEW amount \in Nat, NEW available, Mints(x, token, amount, available),
         x.fee = IF token \in FeeTokens THEN FeePerOutput ELSE 0
  PROVE  FeeIsRight(x)
<1>1. Simple(x) /\ x.shielded = <<>>
  BY DEF Mints
<1>2. Due(x, token) = 1 /\ \A t \in Tokens \ {token} : Due(x, t) = 0
  BY DEF Due, Mints
<1>3. FeePerOutput \in Nat
  BY TokensPayFees
<1>4. x.fee = IF token \in FeeTokens THEN FeePerOutput * Due(x, token) ELSE 0
  BY <1>2, <1>3
<1> QED
  BY <1>1, <1>2, <1>4, FeeOfOne

\* What melts an amount of a token, and withdraws what it may.
Melts(x, token, amount, available) ==
    /\ Simple(x) /\ x.shielded = <<>> /\ Distinct(x.inputs, available)
    /\ \A t \in Tokens \ {token} : /\ Funds(x.outputs, t) = 0
                                   /\ Cardinality(Carriers(x.outputs, t)) = 0
                                   /\ Available(Range(x.inputs), t) = {}
    /\ Funds(x.outputs, token) + amount = Total(Available(Range(x.inputs), token))
    /\ Funds(x.outputs, HTR) + x.fee = Total(Available(Range(x.inputs), HTR)) + WithdrawOf(token, amount)
    /\ Grants(x, "melt", token)
    /\ x.fee = IF token \in FeeTokens THEN FeePerOutput * Due(x, token) ELSE 0

LEMMA MeltsIsCorrect ==
  ASSUME NEW x, NEW token \in Tokens, NEW amount \in Nat, NEW available, Melts(x, token, amount, available)
  PROVE  Correct(x, available)
<1>1. Simple(x) /\ x.shielded = <<>> /\ Distinct(x.inputs, available)
  BY DEF Melts
<1>2. \A t : /\ Excess(x, t) = Funds(x.outputs, t) + Funds(x.shielded, t) - Total(Available(Range(x.inputs), t))
             /\ Excess(x, t) \in Int /\ Funds(x.outputs, t) \in Nat
  BY <1>1, SimpleExcess, FundsType DEF Simple
<1>3. \A t : Funds(x.shielded, t) = 0
  BY <1>1, NothingShielded
<1>4. Total({}) = 0
  BY SumEmpty DEF Total
<1>5. \A t \in Tokens \ {token} : Excess(x, t) = 0
  <2> SUFFICES ASSUME NEW t \in Tokens \ {token} PROVE Excess(x, t) = 0
    OBVIOUS
  <2> DEFINE came == Total(Available(Range(x.inputs), t))
  <2>1. Funds(x.outputs, t) = 0 /\ came = 0
    BY <1>4 DEF Melts
  <2>2. Excess(x, t) = Funds(x.outputs, t) + Funds(x.shielded, t) - came /\ Funds(x.shielded, t) = 0
    BY <1>2, <1>3
  <2> HIDE DEF came
  <2> QED
    BY <2>1, <2>2
<1>6. Excess(x, token) = -amount
  <2>1. Total(Available(Range(x.inputs), token)) = Funds(x.outputs, token) + amount
    BY Zenon DEF Melts
  <2> QED
    BY <1>2, <1>3, <2>1
<1>7. x.fee \in Nat /\ WithdrawOf(token, amount) \in Nat
  BY <1>1, WithdrawIsMost DEF Simple
<1>8. Total(Available(Range(x.inputs), HTR)) \in Nat
  <2>1. Range(x.inputs) \in SUBSET KnownUtxos
    BY <1>1, DistinctPart DEF Simple
  <2>2. Available(Range(x.inputs), HTR) \in SUBSET KnownUtxos
    BY <2>1, AvailablePart
  <2> QED
    BY <2>2, TotalType
<1>9. Excess(x, HTR) \in Int /\ Excess(x, HTR) + x.fee = WithdrawOf(token, amount)
  <2>1. Funds(x.outputs, HTR) + x.fee = Total(Available(Range(x.inputs), HTR)) + WithdrawOf(token, amount)
    BY Zenon DEF Melts
  <2> QED
    BY <1>2, <1>3, <1>7, <1>8, <2>1
<1>10. Grants(x, "melt", token) /\ \A t \in Tokens : Excess(x, t) = IF t = token THEN -amount ELSE 0
  BY <1>5, <1>6 DEF Melts
<1>11. Balanced(x)
  BY <1>7, <1>9, <1>10, BalancedWhenMelted
<1>12. \A t \in Tokens \ {token} : Due(x, t) = 0
  BY DEF Due, Melts
<1>13. x.fee = IF token \in FeeTokens THEN FeePerOutput * Due(x, token) ELSE 0
  BY DEF Melts
<1>14. FeeIsRight(x)
  BY <1>1, <1>12, <1>13, FeeOfOne
<1> QED
  BY <1>1, <1>11, <1>14 DEF Correct

\* What moves authorities only.
LEMMA AuthoritiesAreCorrect ==
  ASSUME NEW x, NEW available \in SUBSET KnownUtxos, x.actions = <<>>, x.fee = 0, x.shielded = <<>>,
         Distinct(x.inputs, available), \A u \in Range(x.inputs) : UtxoOf[u].authorities # {},
         Listing(x.outputs), \A t : Funds(x.outputs, t) = 0 /\ Cardinality(Carriers(x.outputs, t)) = 0
  PROVE  Correct(x, available)
<1>1. Distinct(x.inputs, KnownUtxos) /\ Range(x.inputs) \in SUBSET available
  BY DistinctPart
<1>2. Simple(x)
  BY <1>1, FundsOfNone DEF Simple
<1>3. \A t : Available(Range(x.inputs), t) = {} /\ Total(Available(Range(x.inputs), t)) = 0
  BY <1>1, SpentNothing
<1>4. \A t : Excess(x, t) = 0
  <2> SUFFICES ASSUME NEW t PROVE Excess(x, t) = 0
    OBVIOUS
  <2>1. Excess(x, t) = Funds(x.outputs, t) + Funds(x.shielded, t) - Total(Available(Range(x.inputs), t))
    BY <1>2, SimpleExcess
  <2>2. Funds(x.shielded, t) = 0
    BY NothingShielded
  <2> QED
    BY <1>3, <2>1, <2>2
<1>5. Excess(x, HTR) + x.fee = 0
  BY <1>4
<1>6. Balanced(x)
  BY <1>4, <1>5, BalancedWhenMoved
<1>7. \A t \in Tokens : Due(x, t) = 0
  BY <1>3 DEF Due
<1>8. FeeIsRight(x)
  BY <1>2, <1>7, FeeOfNone
<1> QED
  BY <1>2, <1>6, <1>8 DEF Correct

-----------------------------------------------------------------------------
(* The authorities *)

LEMMA AuthoritiesListed ==
  ASSUME NEW available \in SUBSET KnownUtxos, NEW token, NEW kind
  PROVE  LET s == AuthorityUtxos(token, kind, available)
         IN  /\ ServiceAuthorities(token, kind, available) = s
             /\ Distinct(s, available)
             /\ \A u \in Range(s) : /\ u \in available /\ UtxoOf[u].token = token
                                    /\ kind \in UtxoOf[u].authorities
             /\ s # <<>> => Head(s) \in Range(s)
             /\ \A n \in 0..Len(s) : Distinct(SubSeq(s, 1, n), available) /\ Range(SubSeq(s, 1, n)) \subseteq Range(s)
<1> DEFINE us == {u \in available : UtxoOf[u].token = token /\ kind \in UtxoOf[u].authorities}
           s == AuthorityUtxos(token, kind, available)
<1>1. us \in SUBSET KnownUtxos /\ us \in SUBSET available
  OBVIOUS
<1>2. s = Sorted(us, Stored) /\ ServiceAuthorities(token, kind, available) = s
  BY DEF AuthorityUtxos, ServiceAuthorities
<1>3. \A u \in us : u \in available /\ UtxoOf[u].token = token /\ kind \in UtxoOf[u].authorities
  OBVIOUS
<1> HIDE DEF us, s
<1>4. Distinct(s, us) /\ Range(s) = us
  BY <1>1, <1>2, SortedIsDistinct
<1>5. Distinct(s, available)
  BY <1>1, <1>4, DistinctPart
<1>6. s # <<>> => Head(s) \in Range(s)
  BY <1>4 DEF Distinct, Range
<1>7. ASSUME NEW n \in 0..Len(s) PROVE Distinct(SubSeq(s, 1, n), available) /\ Range(SubSeq(s, 1, n)) \subseteq Range(s)
  <2>1. Enumerates(s, us) /\ Cardinality(us) = Len(s) /\ IsFiniteSet(us)
    BY <1>4, DistinctEnumerates, DistinctIsBijection
  <2>2. n \in 0..Cardinality(us)
    BY <2>1
  <2>3. Distinct(SubSeq(s, 1, n), us)
    BY <2>1, <2>2, Prefix
  <2> QED
    BY <1>1, <1>4, <2>3, DistinctPart
<1> QED
  BY <1>2, <1>3, <1>4, <1>5, <1>6, <1>7 DEF s

\* The first of the authorities, as the only input.
LEMMA FirstAuthority ==
  ASSUME NEW available \in SUBSET KnownUtxos, NEW token, NEW kind,
         AuthorityUtxos(token, kind, available) # <<>>
  PROVE  LET u == Head(AuthorityUtxos(token, kind, available))
         IN  /\ u \in available /\ UtxoOf[u].token = token /\ kind \in UtxoOf[u].authorities
             /\ Distinct(<<u>>, available) /\ Range(<<u>>) = {u}
BY AuthoritiesListed, DistinctOne

\* What a token pays fees for.
LEMMA FeeOfOneOutput ==
  ASSUME NEW token \in Tokens
  PROVE  /\ Version[token] \in {"deposit", "fee"} /\ (token \in FeeTokens <=> Version[token] = "fee")
         /\ FeeOf(token) = (IF token \in FeeTokens THEN FeePerOutput ELSE 0) /\ FeePerOutput \in Nat
BY TxFundsAssumption DEF FeeTokens, FeeOf

\* The inputs that are chosen beside the authorities.
LEMMA WithAuthorities ==
  ASSUME NEW available \in SUBSET KnownUtxos, NEW rights, Distinct(rights, available),
         \A u \in Range(rights) : UtxoOf[u].authorities # {},
         NEW token, NEW chosen, Distinct(chosen, Available(available, token))
  PROVE  /\ Distinct(rights \o chosen, available) /\ Range(rights \o chosen) = Range(rights) \cup Range(chosen)
         /\ Distinct(chosen \o rights, available) /\ Range(chosen \o rights) = Range(rights) \cup Range(chosen)
         /\ \A t : Available(Range(rights) \cup Range(chosen), t) = IF t = token THEN Range(chosen) ELSE {}
         /\ Range(chosen) \in SUBSET KnownUtxos
<1>1. /\ Distinct(chosen, available) /\ Range(chosen) \in SUBSET Available(available, token)
      /\ Range(rights) \in SUBSET available
  BY AvailablePart, DistinctPart
<1>2. Range(rights) \cap Range(chosen) = {}
  BY <1>1 DEF Available
<1>3. /\ Distinct(rights \o chosen, available) /\ Range(rights \o chosen) = Range(rights) \cup Range(chosen)
      /\ Distinct(chosen \o rights, available) /\ Range(chosen \o rights) = Range(rights) \cup Range(chosen)
  BY <1>1, <1>2, DistinctJoin
<1>4. \A t : Available(Range(rights) \cup Range(chosen), t) = IF t = token THEN Range(chosen) ELSE {}
  BY <1>1 DEF Available
<1> QED
  BY <1>1, <1>3, <1>4 DEF Available

-----------------------------------------------------------------------------
(* prepareMintTxData() and prepareCreateTokenData() *)

\* What prepareMintTxData() returns.
MintedBy(x, rights, token, amount, available) ==
    \/ x = Failed
    \/ \E inputs, outputs, fee :
         /\ x = [ok |-> TRUE, inputs |-> inputs, outputs |-> outputs, fee |-> fee,
                 shielded |-> <<>>, actions |-> <<>>, tokens |-> {token}, created |-> {}]
         /\ Mints(x, token, amount, available) /\ Range(rights) \subseteq Range(inputs)
         /\ fee = IF token \in FeeTokens THEN FeePerOutput ELSE 0

LEMMA MintTx ==
  ASSUME NEW available \in SUBSET KnownUtxos, NEW token \in Tokens, NEW amount \in Nat, NEW another,
         NEW count \in Nat, NEW rights, Distinct(rights, available),
         \A u \in Range(rights) : UtxoOf[u].authorities # {}
  PROVE  MintedBy(PrepareMintTxData(token, amount, rights, another, count, FALSE, available),
                  rights, token, amount, available)
<1> DEFINE one == <<Output(token, amount, {}, "mint")>>
           more == Another(another, token, "mint")
           minted == one \o more
           data == DataOutputs(count)
           deposit == IF Version[token] = "deposit" THEN DepositAmount(amount) + count ELSE count
           fee == IF Version[token] = "deposit" THEN 0 ELSE FeePerOutput * Cardinality(Carriers(minted, token))
           needed == deposit + fee
           cover == Cover(HTR, needed, available)
           outputs == cover.outputs \o minted \o data
           x == PrepareMintTxData(token, amount, rights, another, count, FALSE, available)
<1>1. x = IF ~cover.ok THEN Failed ELSE [Tx(rights \o cover.inputs, outputs, fee) EXCEPT !.tokens = {token}]
  BY Zenon DEF PrepareMintTxData, TransactionHTRDeposit, DataFee, FeeForMintAndCreate
<1>2. \A k : /\ Listing(one) /\ Funds(one, k) = (IF token = k THEN amount ELSE 0)
             /\ Cardinality(Carriers(one, k)) = (IF token = k THEN 1 ELSE 0)
  BY FundsOfOutput
<1>3. \A k : Listing(more) /\ Funds(more, k) = 0 /\ Cardinality(Carriers(more, k)) = 0
  BY FundsOfAnother
<1>4. \A k : /\ Listing(data) /\ Funds(data, k) = (IF HTR = k THEN count ELSE 0)
             /\ Cardinality(Carriers(data, k)) = (IF HTR = k THEN count ELSE 0)
  BY FundsOfData
<1> HIDE DEF one, more, data
<1>5. \A k : /\ Listing(minted) /\ Funds(minted, k) = (IF token = k THEN amount ELSE 0)
             /\ Cardinality(Carriers(minted, k)) = (IF token = k THEN 1 ELSE 0)
  BY <1>2, <1>3, JoinIs, FundsJoin
<1> HIDE DEF minted
<1>6. fee = IF token \in FeeTokens THEN FeePerOutput ELSE 0
  BY <1>5, FeeOfOneOutput
<1>7. fee \in Nat /\ DepositAmount(amount) \in Nat /\ deposit = count + DepositOf(token, amount) /\ DepositOf(token, amount) \in Nat
  BY <1>6, FeeOfOneOutput, DepositIsLeast DEF DepositOf
<1> HIDE DEF fee, deposit
<1>8. needed \in Nat /\ needed = count + DepositOf(token, amount) + fee
  BY <1>7
<1> HIDE DEF needed
<1>9. Covers(cover, HTR, needed, available)
  BY <1>8, CoverCovers
<1> HIDE DEF cover
<1>10. CASE cover = Failed
  <2>1. x = Failed
    BY <1>1, <1>10 DEF Failed
  <2> QED
    BY <2>1, Zenon DEF MintedBy
<1>11. CASE cover # Failed
  <2>1. PICK change \in Nat :
            /\ Distinct(cover.inputs, Available(available, HTR))
            /\ Total(Range(cover.inputs)) = needed + change
            /\ cover = [ok |-> TRUE, inputs |-> cover.inputs, outputs |-> Change(HTR, change)]
    BY <1>9, <1>11 DEF Covers
  <2>2. cover.ok = TRUE /\ cover.outputs = Change(HTR, change)
    <3> DEFINE chosen == cover.inputs
    <3>1. cover = [ok |-> TRUE, inputs |-> chosen, outputs |-> Change(HTR, change)]
      BY <2>1
    <3> HIDE DEF chosen
    <3> QED
      BY <3>1
  <2>3. \A k : /\ Listing(cover.outputs) /\ Funds(cover.outputs, k) = (IF HTR = k THEN change ELSE 0)
               /\ Cardinality(Carriers(cover.outputs, k)) = (IF HTR = k /\ change # 0 THEN 1 ELSE 0)
    BY <2>2, FundsOfChange
  <2> DEFINE first == cover.outputs \o minted
  <2>4. \A k : /\ Listing(first) /\ Funds(first, k) = (IF HTR = k THEN change ELSE 0) + (IF token = k THEN amount ELSE 0)
               /\ Cardinality(Carriers(first, k)) = (IF HTR = k /\ change # 0 THEN 1 ELSE 0) + (IF token = k THEN 1 ELSE 0)
    BY <1>5, <2>3, JoinIs, FundsJoin
  <2> HIDE DEF first
  <2>5. outputs = first \o data
    BY DEF first
  <2> HIDE DEF outputs
  <2>6. \A k : /\ Listing(outputs)
               /\ Funds(outputs, k) = (IF HTR = k THEN change ELSE 0) + (IF token = k THEN amount ELSE 0) + (IF HTR = k THEN count ELSE 0)
               /\ Cardinality(Carriers(outputs, k)) = (IF HTR = k /\ change # 0 THEN 1 ELSE 0) + (IF token = k THEN 1 ELSE 0)
                                                      + (IF HTR = k THEN count ELSE 0)
    BY <1>4, <2>4, <2>5, JoinIs, FundsJoin
  <2>7. HTR \notin Tokens /\ HTR # token
    BY TxFundsAssumption
  <2>8. /\ \A t \in Tokens : /\ Funds(outputs, t) = (IF t = token THEN amount ELSE 0)
                             /\ Cardinality(Carriers(outputs, t)) = (IF t = token THEN 1 ELSE 0)
        /\ Funds(outputs, HTR) = change + count
    BY <2>6, <2>7
  <2> DEFINE chosen == cover.inputs
             inputs == rights \o chosen
  <2>9. /\ Distinct(inputs, available) /\ Range(rights) \subseteq Range(inputs)
        /\ \A t : Available(Range(inputs), t) = IF t = HTR THEN Range(chosen) ELSE {}
    <3>1. /\ Distinct(rights \o chosen, available) /\ Range(rights \o chosen) = Range(rights) \cup Range(chosen)
          /\ \A t : Available(Range(rights) \cup Range(chosen), t) = IF t = HTR THEN Range(chosen) ELSE {}
      <4>1. Distinct(chosen, Available(available, HTR))
        BY <2>1
      <4> HIDE DEF chosen
      <4>2. \A u \in Range(rights) : UtxoOf[u].authorities # {}
        OBVIOUS
      <4>3. Distinct(rights, available) /\ available \in SUBSET KnownUtxos
        OBVIOUS
      <4>4. /\ Distinct(rights \o chosen, available) /\ Range(rights \o chosen) = Range(rights) \cup Range(chosen)
            /\ Distinct(chosen \o rights, available) /\ Range(chosen \o rights) = Range(rights) \cup Range(chosen)
            /\ \A t : Available(Range(rights) \cup Range(chosen), t) = IF t = HTR THEN Range(chosen) ELSE {}
            /\ Range(chosen) \in SUBSET KnownUtxos
        BY ONLY <4>1, <4>2, <4>3, WithAuthorities, Zenon
      <4> QED
        BY <4>4
    <3> QED
      BY <3>1
  <2>10. Total(Available(Range(inputs), HTR)) = needed + change
    BY <2>1, <2>9
  <2>11. Distinct(inputs, KnownUtxos)
    BY <2>9, DistinctPart
  <2>12. x = [Tx(inputs, outputs, fee) EXCEPT !.tokens = {token}]
    BY <1>1, <2>2 DEF outputs
  <2> HIDE DEF inputs, x
  <2>13. x = [ok |-> TRUE, inputs |-> inputs, outputs |-> outputs, fee |-> fee,
              shielded |-> <<>>, actions |-> <<>>, tokens |-> {token}, created |-> {}]
    BY <2>12 DEF Tx
  <2>14. x.inputs = inputs /\ x.outputs = outputs /\ x.fee = fee /\ x.shielded = <<>> /\ x.actions = <<>>
    BY <2>13
  <2>15. Simple(x)
    BY <1>7, <2>6, <2>11, <2>14, FundsOfNone DEF Simple
  <2>16. Funds(outputs, HTR) + fee + DepositOf(token, amount) = Total(Available(Range(inputs), HTR))
    BY <1>7, <1>8, <2>8, <2>10
  <2>17. Mints(x, token, amount, available)
    BY <2>7, <2>8, <2>9, <2>14, <2>15, <2>16 DEF Mints
  <2>18. Range(rights) \subseteq Range(inputs)
    BY <2>9
  <2>19. MintedBy(x, rights, token, amount, available)
    BY <1>6, <2>13, <2>17, <2>18, Zenon DEF MintedBy
  <2> QED
    BY <2>19, Zenon DEF x
<1> QED
  BY <1>10, <1>11

LEMMA GrantedBy ==
  ASSUME NEW x, NEW u \in Range(x.inputs), NEW kind \in UtxoOf[u].authorities
  PROVE  Grants(x, kind, UtxoOf[u].token)
BY DEF Range, Grants

LEMMA MintIsCorrect ==
  ASSUME NEW available \in SUBSET KnownUtxos, NEW r, r.token \in Tokens, r.amount \in Nat, r.data \in Nat
  PROVE  PrepareMintTokens(r, available) = Failed \/ Correct(PrepareMintTokens(r, available), available)
<1> DEFINE s == AuthorityUtxos(r.token, "mint", available)
           u == Head(s)
           x == PrepareMintTxData(r.token, r.amount, <<u>>, r.another, r.data, FALSE, available)
<1>1. PrepareMintTokens(r, available) = IF s = <<>> THEN Failed ELSE x
  BY Zenon DEF PrepareMintTokens
<1>2. CASE s = <<>>
  BY <1>1, <1>2
<1>3. CASE s # <<>>
  <2>1. /\ u \in available /\ UtxoOf[u].token = r.token /\ "mint" \in UtxoOf[u].authorities
        /\ Distinct(<<u>>, available) /\ Range(<<u>>) = {u}
    BY <1>3, FirstAuthority
  <2>2. \A v \in Range(<<u>>) : UtxoOf[v].authorities # {}
    BY <2>1
  <2> HIDE DEF u
  <2> DEFINE rights == <<u>>
  <2>3. Distinct(rights, available) /\ \A v \in Range(rights) : UtxoOf[v].authorities # {}
    BY <2>1, <2>2
  <2> HIDE DEF rights
  <2>4. MintedBy(PrepareMintTxData(r.token, r.amount, rights, r.another, r.data, FALSE, available),
                 rights, r.token, r.amount, available)
    BY <2>3, MintTx
  <2>5. MintedBy(x, rights, r.token, r.amount, available)
    BY <2>4 DEF rights
  <2> HIDE DEF x
  <2>6. CASE x = Failed
    BY <1>1, <1>3, <2>6
  <2>7. CASE x # Failed
    <3>1. PICK inputs, outputs, fee :
             /\ x = [ok |-> TRUE, inputs |-> inputs, outputs |-> outputs, fee |-> fee,
                     shielded |-> <<>>, actions |-> <<>>, tokens |-> {r.token}, created |-> {}]
             /\ Mints(x, r.token, r.amount, available) /\ Range(rights) \subseteq Range(inputs)
             /\ fee = IF r.token \in FeeTokens THEN FeePerOutput ELSE 0
      BY <2>5, <2>7, Zenon DEF MintedBy
    <3>2. x.inputs = inputs /\ x.fee = fee
      BY <3>1
    <3>3. Distinct(x.inputs, available) /\ Simple(x)
      BY <3>1 DEF Mints
    <3>4. u \in Range(x.inputs)
      BY <2>1, <3>1, <3>2 DEF rights
    <3>5. Grants(x, "mint", r.token)
      BY <2>1, <3>4, GrantedBy
    <3>6. Balanced(x)
      BY <3>1, <3>5, MintsIsBalanced
    <3>7. FeeIsRight(x)
      BY <3>1, <3>2, MintsPays
    <3>8. Correct(x, available)
      BY <3>3, <3>6, <3>7 DEF Correct
    <3> QED
      BY <1>1, <1>3, <3>8
  <2> QED
    BY <2>6, <2>7
<1> QED
  BY <1>2, <1>3

LEMMA CreateIsCorrect ==
  ASSUME NEW available \in SUBSET KnownUtxos, NEW r, r.token \in Tokens, r.amount \in Nat, r.data \in Nat
  PROVE  PrepareCreateNewToken(r, available) = Failed \/ Correct(PrepareCreateNewToken(r, available), available)
<1> DEFINE token == r.token
           amount == r.amount
           more == Another(r.another, token, "melt")
           x == PrepareMintTxData(token, amount, <<>>, r.another, r.data, FALSE, available)
           y == PrepareCreateNewToken(r, available)
<1>1. y = IF ~x.ok THEN Failed ELSE [x EXCEPT !.outputs = @ \o more, !.tokens = {}, !.created = {token}]
  BY Zenon DEF PrepareCreateNewToken, PrepareCreateTokenData
<1>2. Distinct(<<>>, available) /\ \A u \in Range(<<>>) : UtxoOf[u].authorities # {}
  BY DistinctNone
<1>3. MintedBy(x, <<>>, token, amount, available)
  BY <1>2, MintTx
<1>4. \A k : Listing(more) /\ Funds(more, k) = 0 /\ Cardinality(Carriers(more, k)) = 0
  BY FundsOfAnother
<1> HIDE DEF x, y, more
<1>5. CASE x = Failed
  BY <1>1, <1>5 DEF Failed, y
<1>6. CASE x # Failed
  <2>1. PICK inputs, outputs, fee :
           /\ x = [ok |-> TRUE, inputs |-> inputs, outputs |-> outputs, fee |-> fee,
                   shielded |-> <<>>, actions |-> <<>>, tokens |-> {token}, created |-> {}]
           /\ Mints(x, token, amount, available) /\ Range(<<>>) \subseteq Range(inputs)
           /\ fee = IF token \in FeeTokens THEN FeePerOutput ELSE 0
    BY <1>3, <1>6, Zenon DEF MintedBy
  <2> DEFINE all == outputs \o more
  <2>2. y = [x EXCEPT !.outputs = @ \o more, !.tokens = {}, !.created = {token}]
    BY <1>1, <2>1
  <2>3. x.outputs = outputs /\ x.fee = fee /\ x.inputs = inputs /\ x.shielded = <<>> /\ x.actions = <<>>
    BY <2>1
  <2>4. y.outputs = all /\ y.fee = fee /\ y.inputs = inputs /\ y.shielded = <<>> /\ y.actions = <<>> /\ y.created = {token}
    BY <2>1, <2>2
  <2>5. Simple(x) /\ Listing(outputs)
    BY <2>1, <2>3 DEF Mints, Simple
  <2>6. \A k : /\ Listing(all) /\ Funds(all, k) = Funds(outputs, k)
               /\ Cardinality(Carriers(all, k)) = Cardinality(Carriers(outputs, k))
    <3> SUFFICES ASSUME NEW k PROVE /\ Listing(all) /\ Funds(all, k) = Funds(outputs, k)
                                    /\ Cardinality(Carriers(all, k)) = Cardinality(Carriers(outputs, k))
      OBVIOUS
    <3>1. /\ Listing(all) /\ Funds(all, k) = Funds(outputs, k) + Funds(more, k)
          /\ Cardinality(Carriers(all, k)) = Cardinality(Carriers(outputs, k)) + Cardinality(Carriers(more, k))
      BY <1>4, <2>5, JoinIs, FundsJoin
    <3>2. Funds(outputs, k) \in Nat /\ Cardinality(Carriers(outputs, k)) \in Nat
      BY <2>5, FundsType
    <3> QED
      BY <1>4, <3>1, <3>2
  <2> HIDE DEF all
  <2>7. Simple(y)
    BY <2>3, <2>4, <2>5, <2>6 DEF Simple
  <2>8. Mints(y, token, amount, available)
    BY <2>1, <2>3, <2>4, <2>6, <2>7 DEF Mints
  <2>9. Balanced(y)
    BY <2>4, <2>8, MintsIsBalanced
  <2>10. FeeIsRight(y)
    BY <2>1, <2>4, <2>8, MintsPays
  <2>11. Distinct(y.inputs, available)
    BY <2>8 DEF Mints
  <2>12. Correct(y, available)
    BY <2>7, <2>9, <2>10, <2>11 DEF Correct
  <2> QED
    BY <2>12 DEF y
<1> QED
  BY <1>5, <1>6

-----------------------------------------------------------------------------
(* Fee.calculate() *)

\* What is due for a token, given the inputs and the outputs.
Owed(us, outputs, t) ==
    IF Cardinality(Carriers(outputs, t)) > 0 THEN Cardinality(Carriers(outputs, t))
    ELSE IF Available(us, t) # {} THEN 1 ELSE 0

LEMMA OwedType ==
  ASSUME NEW us, NEW outputs, Listing(outputs), NEW t
  PROVE  Owed(us, outputs, t) \in Nat
BY FundsType DEF Owed

LEMMA CalculatedFee ==
  ASSUME NEW inputs, Distinct(inputs, KnownUtxos), NEW outputs, Listing(outputs)
  PROVE  CalculateFee(inputs, outputs, <<>>)
         = FeePerOutput * SumFunctionOnSet([t \in FeeTokens |-> Owed(Range(inputs), outputs, t)], FeeTokens)
<1> DEFINE Of(type, t) == {i \in DOMAIN <<>> : <<>>[i].type = type /\ <<>>[i].token = t}
           DueOf(t) ==
             LET out == Cardinality(Carriers(outputs, t)) + Cardinality(Of("deposit", t))
             IN  IF out > 0 THEN out
                 ELSE IF Carriers(SpentOutputs(inputs), t) # {} \/ Of("withdrawal", t) # {}
                 THEN 1 ELSE 0
           f == [t \in FeeTokens |-> DueOf(t)]
           g == [t \in FeeTokens |-> Owed(Range(inputs), outputs, t)]
<1>1. CalculateFee(inputs, outputs, <<>>) = FeePerOutput * SumFunction(f)
  BY Zenon DEF CalculateFee
<1>2. \A type, t : Of(type, t) = {} /\ Cardinality(Of(type, t)) = 0
  BY FS_EmptySet
<1> HIDE DEF Of
<1>3. \A t : DueOf(t) = Owed(Range(inputs), outputs, t)
  <2> SUFFICES ASSUME NEW t PROVE DueOf(t) = Owed(Range(inputs), outputs, t)
    OBVIOUS
  <2>1. Carriers(SpentOutputs(inputs), t) = {} <=> Available(Range(inputs), t) = {}
    BY ReceivedIs
  <2>2. Cardinality(Carriers(outputs, t)) \in Nat
    BY FundsType
  <2> QED
    BY <1>2, <2>1, <2>2 DEF Owed
<1>4. f = g
  BY <1>3
<1>5. SumFunction(g) = SumFunctionOnSet(g, FeeTokens)
  BY Zenon DEF SumFunction
<1> HIDE DEF f, g
<1>6. CalculateFee(inputs, outputs, <<>>) = FeePerOutput * SumFunctionOnSet(g, FeeTokens)
  BY <1>1, <1>4, <1>5
<1> QED
  BY <1>6 DEF g

\* The fee when only one token is moved.
LEMMA CalculatedFeeOfOne ==
  ASSUME NEW inputs, Distinct(inputs, KnownUtxos), NEW outputs, Listing(outputs), NEW token \in Tokens,
         \A t \in Tokens \ {token} : Owed(Range(inputs), outputs, t) = 0
  PROVE  /\ CalculateFee(inputs, outputs, <<>>)
            = IF token \in FeeTokens THEN FeePerOutput * Owed(Range(inputs), outputs, token) ELSE 0
         /\ CalculateFee(inputs, outputs, <<>>) \in Nat
<1> DEFINE g == [t \in FeeTokens |-> Owed(Range(inputs), outputs, t)]
           only == FeeTokens \cap {token}
<1>1. CalculateFee(inputs, outputs, <<>>) = FeePerOutput * SumFunctionOnSet(g, FeeTokens)
  BY CalculatedFee
<1>2. FeeTokens \in SUBSET Tokens /\ IsFiniteSet(FeeTokens) /\ FeePerOutput \in Nat
  BY TokensPayFees
<1>3. (\A t \in FeeTokens : g[t] \in Int) /\ \A t \in FeeTokens \ only : g[t] = 0
  BY <1>2, OwedType
<1>4. token \in FeeTokens => g[token] = Owed(Range(inputs), outputs, token)
  OBVIOUS
<1>5. Owed(Range(inputs), outputs, token) \in Nat
  BY OwedType
<1>6. only \subseteq FeeTokens /\ only = IF token \in FeeTokens THEN {token} ELSE {}
  OBVIOUS
<1> HIDE DEF g, only
<1>7. SumFunctionOnSet(g, FeeTokens) = SumFunctionOnSet(g, only)
  BY <1>2, <1>3, <1>6, SumZeros
<1>8. CASE token \in FeeTokens
  <2>1. g[token] \in Int
    BY <1>4, <1>5, <1>8
  <2>2. SumFunctionOnSet(g, {token}) = g[token]
    BY <2>1, SumOfOne
  <2>3. CalculateFee(inputs, outputs, <<>>) = FeePerOutput * Owed(Range(inputs), outputs, token)
    BY <1>1, <1>4, <1>6, <1>7, <1>8, <2>2
  <2> QED
    BY <1>2, <1>5, <1>8, <2>3
<1>9. CASE token \notin FeeTokens
  <2>1. SumFunctionOnSet(g, FeeTokens) = 0
    BY <1>6, <1>7, <1>9, SumEmpty
  <2> QED
    BY <1>1, <1>2, <1>9, <2>1
<1> QED
  BY <1>8, <1>9

-----------------------------------------------------------------------------
(* What covers an amount *)

LEMMA CoverFields ==
  ASSUME NEW cover, NEW token, NEW amount \in Nat, NEW available \in SUBSET KnownUtxos,
         Covers(cover, token, amount, available), cover # Failed
  PROVE  /\ cover.ok = TRUE
         /\ Distinct(cover.inputs, Available(available, token))
         /\ Distinct(cover.inputs, KnownUtxos) /\ Distinct(cover.inputs, available)
         /\ \E change \in Nat :
              /\ cover.outputs = Change(token, change)
              /\ Total(Range(cover.inputs)) = amount + change
<1>1. PICK change \in Nat :
        /\ Distinct(cover.inputs, Available(available, token))
        /\ Total(Range(cover.inputs)) = amount + change
        /\ cover = [ok |-> TRUE, inputs |-> cover.inputs, outputs |-> Change(token, change)]
  BY DEF Covers
<1> DEFINE chosen == cover.inputs
<1>2. cover = [ok |-> TRUE, inputs |-> chosen, outputs |-> Change(token, change)]
  BY <1>1
<1> HIDE DEF chosen
<1>3. cover.ok = TRUE /\ cover.outputs = Change(token, change)
  BY <1>2
<1>4. Distinct(cover.inputs, available)
  BY <1>1, AvailablePart, DistinctPart
<1>5. Distinct(cover.inputs, KnownUtxos)
  BY <1>4, DistinctPart
<1> QED
  BY <1>1, <1>3, <1>4, <1>5

\* The inputs of a melt: its authority, the tokens and what pays for them.
MeltSpends(s, u, a, b, token, available) ==
    /\ Distinct(s, available) /\ Distinct(s, KnownUtxos) /\ u \in Range(s)
    /\ \A t : Available(Range(s), t) = IF t = token THEN Range(a) ELSE IF t = HTR THEN Range(b) ELSE {}

LEMMA MeltInputs ==
  ASSUME NEW available \in SUBSET KnownUtxos, NEW u \in available, UtxoOf[u].authorities # {},
         NEW token \in Tokens, NEW a, Distinct(a, Available(available, token)),
         NEW b, Distinct(b, Available(available, HTR)), NEW s, s = <<u>> \o a \o b \/ s = Append(a, u) \o b
  PROVE  MeltSpends(s, u, a, b, token, available)
<1>1. HTR # token
  BY TxFundsAssumption
<1>2. Distinct(a, available) /\ Distinct(b, available) /\ Range(a) \in SUBSET Available(available, token)
      /\ Range(b) \in SUBSET Available(available, HTR)
  BY AvailablePart, DistinctPart
<1>3. Distinct(<<u>>, available) /\ Range(<<u>>) = {u}
  BY DistinctOne
<1>4. \A v \in Range(<<u>>) : UtxoOf[v].authorities # {}
  BY <1>3
<1> DEFINE rights == <<u>>
           first == <<u>> \o a
           second == a \o <<u>>
<1>5. /\ Distinct(rights \o a, available) /\ Range(rights \o a) = Range(rights) \cup Range(a)
      /\ Distinct(a \o rights, available) /\ Range(a \o rights) = Range(rights) \cup Range(a)
  <2>1. Distinct(rights, available) /\ Range(rights) \cap Range(a) = {} /\ Range(a) \cap Range(rights) = {}
    BY <1>2, <1>3 DEF Available
  <2> HIDE DEF rights
  <2>2. /\ Distinct(rights \o a, available) /\ Range(rights \o a) = Range(rights) \cup Range(a)
    BY <1>2, <2>1, DistinctJoin
  <2>3. /\ Distinct(a \o rights, available) /\ Range(a \o rights) = Range(a) \cup Range(rights)
    BY <1>2, <2>1, DistinctJoin
  <2> QED
    BY <2>2, <2>3
<1>6. /\ Distinct(first, available) /\ Range(first) = {u} \cup Range(a)
      /\ Distinct(second, available) /\ Range(second) = {u} \cup Range(a)
  BY <1>3, <1>5
<1>7. Append(a, u) = second
  BY <1>2 DEF Distinct
<1> HIDE DEF first, second
<1>8. ({u} \cup Range(a)) \cap Range(b) = {}
  BY <1>1, <1>2 DEF Available
<1>9. /\ Distinct(first \o b, available) /\ Range(first \o b) = Range(first) \cup Range(b)
      /\ Distinct(second \o b, available) /\ Range(second \o b) = Range(second) \cup Range(b)
  BY <1>2, <1>6, <1>8, DistinctJoin
<1>10. s \in {first \o b, second \o b}
  BY <1>7 DEF first
<1>11. Distinct(s, available) /\ Range(s) = {u} \cup Range(a) \cup Range(b)
  BY <1>6, <1>9, <1>10
<1>12. \A t : Available({u} \cup Range(a) \cup Range(b), t) = IF t = token THEN Range(a) ELSE IF t = HTR THEN Range(b) ELSE {}
  BY <1>1, <1>2 DEF Available
<1>13. Distinct(s, KnownUtxos)
  BY <1>11, DistinctPart
<1> QED
  BY <1>11, <1>12, <1>13 DEF MeltSpends

LEMMA MeltIsCorrect ==
  ASSUME NEW available \in SUBSET KnownUtxos, NEW r, r.token \in Tokens, r.amount \in Nat, r.data \in Nat
  PROVE  PrepareMeltTokens(r, available) = Failed \/ Correct(PrepareMeltTokens(r, available), available)
<1> DEFINE token == r.token
           amount == r.amount
           count == r.data
           s == AuthorityUtxos(token, "melt", available)
           u == Head(s)
           w == WithdrawOf(token, amount)
           paid == Min({w, count})
           given == Cover(token, amount, available)
           more == Another(r.another, token, "melt")
           rest == Positive(HTR, w - paid, "plain")
           melted == given.outputs \o more \o rest
           fee == CalculateFee(given.inputs, melted, <<>>)
           needed == count - paid + fee
           cover == Cover(HTR, needed, available)
           data == DataOutputs(count)
           inputs == <<u>> \o given.inputs \o cover.inputs
           outputs == melted \o cover.outputs \o data
           x == PrepareMeltTokens(r, available)
<1>1. x = IF s = <<>> THEN Failed
          ELSE IF UtxoOf[u].authorities # {"melt"} THEN Failed
          ELSE IF ~given.ok THEN Failed
          ELSE IF ~cover.ok THEN Failed
          ELSE [Tx(inputs, outputs, fee) EXCEPT !.tokens = {token}]
  BY Zenon DEF PrepareMeltTokens, PrepareMeltTxData, DataFee, WithdrawOf
<1>2. token \in Tokens /\ amount \in Nat /\ count \in Nat /\ HTR # token /\ HTR \notin Tokens
  BY TxFundsAssumption
<1>3. w \in Nat
  BY WithdrawIsMost
<1> HIDE DEF token, amount, count, w
<1>4. paid \in Nat /\ paid <= w /\ paid <= count
  <2>1. {w, count} \in SUBSET Nat /\ {w, count} # {}
    BY <1>2, <1>3
  <2> QED
    BY <2>1, <1>2, <1>3, MinIsLeast
<1> HIDE DEF paid
<1> DEFINE left == w - paid
<1>5. left \in Nat /\ left + paid = w
  BY <1>3, <1>4
<1>6. Covers(given, token, amount, available)
  BY <1>2, CoverCovers
<1>7. \A k : Listing(more) /\ Funds(more, k) = 0 /\ Cardinality(Carriers(more, k)) = 0
  BY FundsOfAnother
<1>8. \A k : /\ Listing(data) /\ Funds(data, k) = (IF HTR = k THEN count ELSE 0)
             /\ Cardinality(Carriers(data, k)) = (IF HTR = k THEN count ELSE 0)
  BY <1>2, FundsOfData
<1> DEFINE remains == Positive(HTR, left, "plain")
<1>9. rest = remains
  BY DEF left
<1> HIDE DEF left
<1>10. \A k : /\ Listing(remains) /\ Funds(remains, k) = (IF HTR = k THEN left ELSE 0)
              /\ Cardinality(Carriers(remains, k)) = (IF HTR = k /\ left # 0 THEN 1 ELSE 0)
  BY <1>5, FundsOfPositive
<1> HIDE DEF given, more, remains, data, rest, s
<1>11. CASE s = <<>> \/ UtxoOf[u].authorities # {"melt"} \/ given = Failed
  BY <1>1, <1>11 DEF Failed, x
<1>12. CASE ~(s = <<>> \/ UtxoOf[u].authorities # {"melt"} \/ given = Failed)
  <2>1. /\ u \in available /\ UtxoOf[u].token = token /\ "melt" \in UtxoOf[u].authorities
    BY <1>12, FirstAuthority DEF s
  <2> HIDE DEF u
  <2>2. /\ given.ok = TRUE
        /\ Distinct(given.inputs, Available(available, token))
        /\ Distinct(given.inputs, KnownUtxos) /\ Distinct(given.inputs, available)
        /\ \E change \in Nat :
             /\ given.outputs = Change(token, change)
             /\ Total(Range(given.inputs)) = amount + change
    BY <1>2, <1>6, <1>12, CoverFields
  <2>3. PICK change \in Nat :
             /\ given.outputs = Change(token, change)
             /\ Total(Range(given.inputs)) = amount + change
    BY <2>2
  <2>4. \A k : /\ Listing(given.outputs) /\ Funds(given.outputs, k) = (IF token = k THEN change ELSE 0)
               /\ Cardinality(Carriers(given.outputs, k)) = (IF token = k /\ change # 0 THEN 1 ELSE 0)
    BY <2>3, FundsOfChange
  <2> DEFINE first == given.outputs \o more
  <2>5. \A k : /\ Listing(first) /\ Funds(first, k) = (IF token = k THEN change ELSE 0)
               /\ Cardinality(Carriers(first, k)) = (IF token = k /\ change # 0 THEN 1 ELSE 0)
    BY <1>7, <2>4, JoinIs, FundsJoin
  <2> HIDE DEF first
  <2>6. melted = first \o remains
    BY <1>9 DEF first
  <2> HIDE DEF melted
  <2>7. \A k : /\ Listing(melted) /\ Funds(melted, k) = (IF token = k THEN change ELSE 0) + (IF HTR = k THEN left ELSE 0)
               /\ Cardinality(Carriers(melted, k)) = (IF token = k /\ change # 0 THEN 1 ELSE 0) + (IF HTR = k /\ left # 0 THEN 1 ELSE 0)
    BY <1>10, <2>5, <2>6, JoinIs, FundsJoin
  <2>8. Range(given.inputs) \in SUBSET Available(available, token)
    BY <2>2, DistinctPart, AvailablePart
  <2>9. \A t : Available(Range(given.inputs), t) = IF t = token THEN Range(given.inputs) ELSE {}
    BY <2>8 DEF Available
  <2>10. \A t \in Tokens \ {token} : Owed(Range(given.inputs), melted, t) = 0
    BY <1>2, <2>7, <2>9 DEF Owed
  <2>11. fee = (IF token \in FeeTokens THEN FeePerOutput * Owed(Range(given.inputs), melted, token) ELSE 0) /\ fee \in Nat
    <3>1. Listing(melted)
      BY <2>7
    <3> QED
      BY <1>2, <2>2, <2>10, <3>1, CalculatedFeeOfOne
  <2> HIDE DEF fee
  <2>12. needed \in Nat /\ needed = count - paid + fee
    BY <1>2, <1>4, <2>11
  <2> HIDE DEF needed
  <2>13. Covers(cover, HTR, needed, available)
    BY <2>12, CoverCovers
  <2> HIDE DEF cover
  <2>14. CASE cover = Failed
    BY <1>1, <1>12, <2>2, <2>14 DEF Failed, x
  <2>15. CASE cover # Failed
    <3>1. /\ cover.ok = TRUE
          /\ Distinct(cover.inputs, Available(available, HTR))
          /\ \E spare \in Nat :
               /\ cover.outputs = Change(HTR, spare)
               /\ Total(Range(cover.inputs)) = needed + spare
      BY <2>12, <2>13, <2>15, CoverFields
    <3>2. PICK spare \in Nat :
               /\ cover.outputs = Change(HTR, spare)
               /\ Total(Range(cover.inputs)) = needed + spare
      BY <3>1
    <3>3. \A k : /\ Listing(cover.outputs) /\ Funds(cover.outputs, k) = (IF HTR = k THEN spare ELSE 0)
                 /\ Cardinality(Carriers(cover.outputs, k)) = (IF HTR = k /\ spare # 0 THEN 1 ELSE 0)
      BY <3>2, FundsOfChange
    <3> DEFINE most == melted \o cover.outputs
    <3>4. \A k : /\ Listing(most)
                 /\ Funds(most, k) = Funds(melted, k) + Funds(cover.outputs, k)
                 /\ Cardinality(Carriers(most, k)) = Cardinality(Carriers(melted, k)) + Cardinality(Carriers(cover.outputs, k))
      BY <2>7, <3>3, JoinIs, FundsJoin
    <3> HIDE DEF most
    <3>5. outputs = most \o data
      BY DEF most
    <3> HIDE DEF outputs
    <3>6. \A k : /\ Listing(outputs)
                 /\ Funds(outputs, k) = Funds(most, k) + Funds(data, k)
                 /\ Cardinality(Carriers(outputs, k)) = Cardinality(Carriers(most, k)) + Cardinality(Carriers(data, k))
      BY <1>8, <3>4, <3>5, JoinIs, FundsJoin
    <3>7. /\ \A t \in Tokens : /\ Funds(outputs, t) = (IF t = token THEN change ELSE 0)
                               /\ Cardinality(Carriers(outputs, t)) = Cardinality(Carriers(melted, t))
                               /\ t # token => Cardinality(Carriers(outputs, t)) = 0
          /\ Funds(outputs, HTR) = left + spare + count
      <4>1. ASSUME NEW t \in Tokens
            PROVE  /\ Funds(outputs, t) = (IF t = token THEN change ELSE 0)
                   /\ Cardinality(Carriers(outputs, t)) = Cardinality(Carriers(melted, t))
                   /\ t # token => Cardinality(Carriers(outputs, t)) = 0
        <5>1. t # HTR
          BY <1>2
        <5>2. /\ Funds(melted, t) = (IF token = t THEN change ELSE 0)
              /\ Cardinality(Carriers(melted, t)) = (IF token = t /\ change # 0 THEN 1 ELSE 0)
          BY <5>1, <2>7
        <5>3. /\ Funds(cover.outputs, t) = 0 /\ Cardinality(Carriers(cover.outputs, t)) = 0
              /\ Funds(data, t) = 0 /\ Cardinality(Carriers(data, t)) = 0
          BY <5>1, <1>8, <3>3
        <5>4. /\ Funds(outputs, t) = Funds(melted, t) + Funds(cover.outputs, t) + Funds(data, t)
              /\ Cardinality(Carriers(outputs, t)) = Cardinality(Carriers(melted, t)) + Cardinality(Carriers(cover.outputs, t)) + Cardinality(Carriers(data, t))
          BY <3>4, <3>6
        <5> QED
          BY <5>2, <5>3, <5>4
      <4>2. Funds(melted, HTR) = left /\ Funds(cover.outputs, HTR) = spare /\ Funds(data, HTR) = count
        BY <1>2, <1>5, <1>8, <2>7, <3>3
      <4>3. Funds(outputs, HTR) = Funds(melted, HTR) + Funds(cover.outputs, HTR) + Funds(data, HTR)
        BY <3>4, <3>6
      <4> QED
        BY <4>1, <4>2, <4>3
    <3> DEFINE a == given.inputs
               b == cover.inputs
    <3>8. /\ Distinct(a, Available(available, token)) /\ Distinct(b, Available(available, HTR))
          /\ inputs = <<u>> \o a \o b /\ Total(Range(a)) = amount + change /\ Total(Range(b)) = needed + spare
      BY <2>2, <2>3, <3>1, <3>2
    <3>9. UtxoOf[u].authorities # {}
      BY <2>1
    <3> HIDE DEF a, b, inputs
    <3>10. /\ Distinct(inputs, available) /\ Distinct(inputs, KnownUtxos) /\ u \in Range(inputs)
           /\ \A t : Available(Range(inputs), t) = IF t = token THEN Range(a) ELSE IF t = HTR THEN Range(b) ELSE {}
      <4>1. inputs = <<u>> \o a \o b \/ inputs = Append(a, u) \o b
        BY <3>8
      <4>2. MeltSpends(inputs, u, a, b, token, available)
        BY <1>2, <2>1, <3>8, <3>9, <4>1, MeltInputs
      <4> QED
        BY <4>2 DEF MeltSpends
    <3>11. x = [Tx(inputs, outputs, fee) EXCEPT !.tokens = {token}]
      BY <1>1, <1>12, <2>2, <3>1 DEF outputs, inputs
    <3> HIDE DEF x
    <3>12. x.inputs = inputs /\ x.outputs = outputs /\ x.fee = fee /\ x.shielded = <<>> /\ x.actions = <<>>
      BY <3>11 DEF Tx
    <3>13. Simple(x)
      BY <2>11, <3>6, <3>10, <3>12, FundsOfNone DEF Simple
    <3>14. Grants(x, "melt", token)
      BY <2>1, <3>10, <3>12, GrantedBy
    <3>15. Funds(outputs, token) + amount = Total(Available(Range(inputs), token))
      BY <1>2, <3>7, <3>8, <3>10
    <3>16. Funds(outputs, HTR) + fee = Total(Available(Range(inputs), HTR)) + w
      <4>1. Total(Available(Range(inputs), HTR)) = needed + spare
        BY <1>2, <3>8, <3>10
      <4> QED
        BY <1>2, <1>3, <1>4, <1>5, <2>11, <2>12, <3>7, <4>1
    <3>17. \A t \in Tokens \ {token} : /\ Funds(outputs, t) = 0
                                       /\ Cardinality(Carriers(outputs, t)) = 0
                                       /\ Available(Range(inputs), t) = {}
      BY <1>2, <3>7, <3>10
    <3>18. fee = IF token \in FeeTokens THEN FeePerOutput * Due(x, token) ELSE 0
      <4>1. Available(Range(inputs), token) = Available(Range(given.inputs), token)
        BY <2>9, <3>10 DEF a
      <4>2. Due(x, token) = Owed(Range(given.inputs), melted, token)
        BY <1>2, <3>7, <3>12, <4>1 DEF Due, Owed
      <4> QED
        BY <2>11, <4>2
    <3>19. Melts(x, token, amount, available)
      BY <3>10, <3>12, <3>13, <3>14, <3>15, <3>16, <3>17, <3>18 DEF Melts, w
    <3>20. Correct(x, available)
      BY <1>2, <3>19, MeltsIsCorrect
    <3> QED
      BY <3>20 DEF x
  <2> QED
    BY <2>14, <2>15
<1> QED
  BY <1>11, <1>12

-----------------------------------------------------------------------------
(* Delegating and destroying authorities *)

LEMMA FundsOfRights ==
  ASSUME NEW token, NEW rights, rights # {}, NEW another, NEW k
  PROVE  LET o == Output(token, 0, rights, "authority")
             s == IF another THEN <<o, o>> ELSE <<o>>
         IN  Listing(s) /\ Funds(s, k) = 0 /\ Cardinality(Carriers(s, k)) = 0
<1> DEFINE o == Output(token, 0, rights, "authority")
           one == <<o>>
           two == <<o, o>>
<1>1. Listing(one) /\ Funds(one, k) = 0 /\ Cardinality(Carriers(one, k)) = 0
  BY FundsOfAuthority
<1>2. two = one \o one
  OBVIOUS
<1> HIDE DEF one, two
<1>3. /\ Listing(two) /\ Funds(two, k) = Funds(one, k) + Funds(one, k)
      /\ Cardinality(Carriers(two, k)) = Cardinality(Carriers(one, k)) + Cardinality(Carriers(one, k))
  BY <1>1, <1>2, JoinIs, FundsJoin
<1>4. Listing(two) /\ Funds(two, k) = 0 /\ Cardinality(Carriers(two, k)) = 0
  BY <1>1, <1>3
<1> QED
  BY <1>1, <1>4, Zenon DEF one, two

\* A transaction of one authority and what it becomes.
LEMMA RightsTx ==
  ASSUME NEW available \in SUBSET KnownUtxos, NEW u \in available, NEW kind \in UtxoOf[u].authorities,
         NEW token, NEW rights, rights # {}, NEW another, NEW tokens
  PROVE  LET o == Output(token, 0, rights, "authority")
         IN  Correct([Tx(<<u>>, IF another THEN <<o, o>> ELSE <<o>>, 0) EXCEPT !.tokens = tokens], available)
<1> DEFINE o == Output(token, 0, rights, "authority")
           s == IF another THEN <<o, o>> ELSE <<o>>
           inputs == <<u>>
           x == [Tx(inputs, s, 0) EXCEPT !.tokens = tokens]
<1>1. \A k : Listing(s) /\ Funds(s, k) = 0 /\ Cardinality(Carriers(s, k)) = 0
  BY FundsOfRights
<1>2. Distinct(inputs, available) /\ Range(inputs) = {u}
  BY DistinctOne
<1> HIDE DEF s, inputs
<1>3. x.inputs = inputs /\ x.outputs = s /\ x.fee = 0 /\ x.shielded = <<>> /\ x.actions = <<>>
  BY DEF Tx
<1>4. \A v \in Range(inputs) : UtxoOf[v].authorities # {}
  BY <1>2
<1> HIDE DEF x
<1>5. Correct(x, available)
  BY <1>1, <1>2, <1>3, <1>4, AuthoritiesAreCorrect
<1> QED
  BY <1>5, Zenon DEF x, s, inputs

LEMMA DelegateIsCorrect ==
  ASSUME NEW available \in SUBSET KnownUtxos, NEW r
  PROVE  /\ PrepareDelegateAuthority(r, available) = Failed \/ Correct(PrepareDelegateAuthority(r, available), available)
         /\ PrepareServiceDelegate(r, available) = Failed \/ Correct(PrepareServiceDelegate(r, available), available)
<1> DEFINE s == AuthorityUtxos(r.token, r.kind, available)
           u == Head(s)
           own == UtxoOf[u].authorities
           all == Output(r.token, 0, own, "authority")
           one == Output(r.token, 0, {r.kind}, "authority")
           x == [Tx(<<u>>, IF r.another THEN <<all, all>> ELSE <<all>>, 0) EXCEPT !.tokens = {r.token}]
           y == [Tx(<<u>>, IF r.another THEN <<one, one>> ELSE <<one>>, 0) EXCEPT !.tokens = {r.token}]
<1>1. PrepareDelegateAuthority(r, available) = IF s = <<>> THEN Failed ELSE x
  BY Zenon DEF PrepareDelegateAuthority, PrepareDelegateAuthorityTxData
<1>2. ServiceAuthorities(r.token, r.kind, available) = s
  BY AuthoritiesListed
<1>3. PrepareServiceDelegate(r, available) = IF s = <<>> THEN Failed ELSE y
  BY <1>2, Zenon DEF PrepareServiceDelegate
<1>4. CASE s = <<>>
  BY <1>1, <1>3, <1>4
<1>5. CASE s # <<>>
  <2>1. u \in available /\ r.kind \in UtxoOf[u].authorities
    BY <1>5, FirstAuthority
  <2>2. own # {} /\ {r.kind} # {}
    BY <2>1
  <2> HIDE DEF u, own
  <2>3. Correct(x, available) /\ Correct(y, available)
    BY <2>1, <2>2, RightsTx
  <2> QED
    BY <1>1, <1>3, <1>5, <2>3
<1> QED
  BY <1>4, <1>5

LEMMA DestroyIsCorrect ==
  ASSUME NEW available \in SUBSET KnownUtxos, NEW r, r.amount \in Nat
  PROVE  /\ PrepareDestroyAuthority(r, available) = Failed \/ Correct(PrepareDestroyAuthority(r, available), available)
         /\ PrepareServiceDestroy(r, available) = Failed \/ Correct(PrepareServiceDestroy(r, available), available)
<1> DEFINE s == AuthorityUtxos(r.token, r.kind, available)
           inputs == SubSeq(s, 1, r.amount)
           x == Tx(inputs, <<>>, 0)
           y == [Tx(inputs, <<>>, 0) EXCEPT !.tokens = {r.token}]
<1>1. PrepareDestroyAuthority(r, available) = IF Len(s) < r.amount THEN Failed ELSE x
  BY Zenon DEF PrepareDestroyAuthority, PrepareDestroyAuthorityTxData
<1>2. ServiceAuthorities(r.token, r.kind, available) = s /\ Distinct(s, available)
  BY AuthoritiesListed
<1>3. PrepareServiceDestroy(r, available) = IF Len(s) < r.amount THEN Failed ELSE y
  BY <1>2, Zenon DEF PrepareServiceDestroy
<1>4. CASE Len(s) < r.amount
  BY <1>1, <1>3, <1>4
<1>5. CASE ~(Len(s) < r.amount)
  <2>1. r.amount \in 0..Len(s)
    BY <1>2, <1>5 DEF Distinct
  <2>2. Distinct(inputs, available) /\ Range(inputs) \subseteq Range(s)
    BY <2>1, AuthoritiesListed
  <2>3. \A u \in Range(inputs) : UtxoOf[u].authorities # {}
    <3>1. \A u \in Range(s) : r.kind \in UtxoOf[u].authorities
      BY AuthoritiesListed
    <3> QED
      BY <2>2, <3>1
  <2> HIDE DEF inputs
  <2>4. /\ x.inputs = inputs /\ x.outputs = <<>> /\ x.fee = 0 /\ x.shielded = <<>> /\ x.actions = <<>>
        /\ y.inputs = inputs /\ y.outputs = <<>> /\ y.fee = 0 /\ y.shielded = <<>> /\ y.actions = <<>>
    BY DEF Tx
  <2> HIDE DEF x, y
  <2>5. \A t : Listing(<<>>) /\ Funds(<<>>, t) = 0 /\ Cardinality(Carriers(<<>>, t)) = 0
    BY FundsOfNone
  <2>6. Correct(x, available) /\ Correct(y, available)
    BY <2>2, <2>3, <2>4, <2>5, AuthoritiesAreCorrect
  <2> QED
    BY <1>1, <1>3, <1>5, <2>6
<1> QED
  BY <1>4, <1>5

-----------------------------------------------------------------------------
(* The wallet service facade *)

LEMMA ServiceUtxosListed ==
  ASSUME NEW available \in SUBSET KnownUtxos, NEW token
  PROVE  Distinct(ServiceUtxos(token, available), Available(available, token))
<1> DEFINE us == {u \in Available(available, token) : ~UtxoOf[u].shielded}
<1>1. us \in SUBSET KnownUtxos /\ us \in SUBSET Available(available, token)
  BY DEF Available
<1>2. ServiceUtxos(token, available) = Sorted(us, Stored)
  BY DEF ServiceUtxos
<1> HIDE DEF us
<1>3. Distinct(Sorted(us, Stored), us)
  BY <1>1, SortedIsDistinct
<1> QED
  BY <1>1, <1>2, <1>3, DistinctPart

LEMMA PickedFields ==
  ASSUME NEW available \in SUBSET KnownUtxos, NEW token, NEW amount \in Nat, NEW picked,
         picked = SelectUtxos(ServiceUtxos(token, available), amount), picked # Failed
  PROVE  /\ picked.ok = TRUE /\ amount > 0
         /\ Distinct(picked.utxos, Available(available, token))
         /\ Distinct(picked.utxos, KnownUtxos) /\ Distinct(picked.utxos, available)
         /\ picked.change \in Nat /\ Total(Range(picked.utxos)) = amount + picked.change
<1> DEFINE us == Available(available, token)
           s == ServiceUtxos(token, available)
<1>1. us \in SUBSET KnownUtxos /\ us \in SUBSET available
  BY AvailablePart
<1>2. Distinct(s, us)
  BY ServiceUtxosListed
<1>3. picked = SelectUtxos(s, amount) /\ amount \in Int
  OBVIOUS
<1> HIDE DEF s, us
<1>4. Picks(picked, us, amount)
  BY <1>1, <1>2, <1>3, SelectUtxosPicks
<1> DEFINE utxos == picked.utxos
           change == Total(Range(picked.utxos)) - amount
<1>5. /\ amount > 0 /\ Distinct(utxos, us) /\ Total(Range(utxos)) >= amount
      /\ picked = [ok |-> TRUE, utxos |-> utxos, change |-> change]
  BY <1>4 DEF Picks
<1>6. Range(utxos) \in SUBSET us
  BY <1>5, DistinctPart
<1>7. Total(Range(utxos)) \in Nat
  BY <1>1, <1>6, TotalType
<1>8. change \in Nat /\ Total(Range(utxos)) = amount + change
  BY <1>5, <1>7
<1> HIDE DEF utxos, change
<1>9. picked.ok = TRUE /\ picked.change = change
  BY <1>5
<1>10. Distinct(utxos, KnownUtxos) /\ Distinct(utxos, available)
  BY <1>1, <1>5, DistinctPart
<1> QED
  BY <1>5, <1>8, <1>9, <1>10 DEF us, utxos

LEMMA ServiceMintIsCorrect ==
  ASSUME NEW available \in SUBSET KnownUtxos, NEW r, r.token \in Tokens, r.amount \in Nat
  PROVE  PrepareServiceMint(r, available) = Failed \/ Correct(PrepareServiceMint(r, available), available)
<1> DEFINE token == r.token
           amount == r.amount
           s == AuthorityUtxos(token, "mint", available)
           u == Head(s)
           one == <<Output(token, amount, {}, "mint")>>
           more == Another(r.another, token, "mint")
           minted == one \o more
           fee == CalculateFee(<<>>, minted, <<>>)
           needed == DepositOf(token, amount) + fee
           picked == SelectUtxos(ServiceUtxos(HTR, available), needed)
           spare == Change(HTR, picked.change)
           inputs == Append(picked.utxos, u)
           outputs == minted \o spare
           x == PrepareServiceMint(r, available)
<1>1. x = IF s = <<>> \/ ~picked.ok THEN Failed ELSE [Tx(inputs, outputs, fee) EXCEPT !.tokens = {token}]
  <2>1. ServiceAuthorities(token, "mint", available) = s
    BY AuthoritiesListed
  <2>2. Authorities(r.another, token, "mint") = more
    BY FundsOfAnother
  <2> QED
    BY <2>1, <2>2, Zenon DEF PrepareServiceMint
<1>2. token \in Tokens /\ amount \in Nat /\ HTR # token /\ HTR \notin Tokens
  BY TxFundsAssumption
<1>3. \A k : /\ Listing(one) /\ Funds(one, k) = (IF token = k THEN amount ELSE 0)
             /\ Cardinality(Carriers(one, k)) = (IF token = k THEN 1 ELSE 0)
  BY FundsOfOutput
<1>4. \A k : Listing(more) /\ Funds(more, k) = 0 /\ Cardinality(Carriers(more, k)) = 0
  BY FundsOfAnother
<1> HIDE DEF one, more
<1>5. \A k : /\ Listing(minted) /\ Funds(minted, k) = (IF token = k THEN amount ELSE 0)
             /\ Cardinality(Carriers(minted, k)) = (IF token = k THEN 1 ELSE 0)
  BY <1>3, <1>4, JoinIs, FundsJoin
<1> HIDE DEF minted, s, token, amount
<1>6. fee = IF token \in FeeTokens THEN FeePerOutput ELSE 0
  <2> DEFINE none == <<>>
  <2>1. Distinct(none, KnownUtxos) /\ Range(none) = {}
    BY DistinctNone
  <2>2. \A t : Available({}, t) = {}
    BY DEF Available
  <2>3. Listing(minted) /\ \A t \in Tokens \ {token} : Owed(Range(none), minted, t) = 0
    BY <1>5, <2>1, <2>2 DEF Owed
  <2>4. Owed(Range(none), minted, token) = 1
    BY <1>5 DEF Owed
  <2> HIDE DEF none
  <2>5. CalculateFee(none, minted, <<>>) = IF token \in FeeTokens THEN FeePerOutput * Owed(Range(none), minted, token) ELSE 0
    BY <1>2, <2>1, <2>3, CalculatedFeeOfOne
  <2> QED
    BY <2>4, <2>5, TokensPayFees DEF none
<1> HIDE DEF fee
<1>7. fee \in Nat /\ DepositOf(token, amount) \in Nat
  <2>1. DepositOf(token, amount) \in Nat
    BY <1>2, DepositIsLeast
  <2> QED
    BY <1>6, <2>1, TokensPayFees
<1>8. needed \in Nat /\ needed = DepositOf(token, amount) + fee
  BY <1>7
<1> HIDE DEF needed
<1>9. CASE s = <<>> \/ picked = Failed
  BY <1>1, <1>9 DEF Failed, x
<1>10. CASE ~(s = <<>> \/ picked = Failed)
  <2>1. u \in available /\ UtxoOf[u].token = token /\ "mint" \in UtxoOf[u].authorities
        /\ Distinct(<<u>>, available) /\ Range(<<u>>) = {u}
    BY <1>10, FirstAuthority DEF s
  <2> HIDE DEF u
  <2>2. /\ picked.ok = TRUE /\ Distinct(picked.utxos, Available(available, HTR))
        /\ picked.change \in Nat /\ Total(Range(picked.utxos)) = needed + picked.change
    BY <1>8, <1>10, PickedFields
  <2> HIDE DEF picked
  <2>3. \A k : /\ Listing(spare) /\ Funds(spare, k) = (IF HTR = k THEN picked.change ELSE 0)
               /\ Cardinality(Carriers(spare, k)) = (IF HTR = k /\ picked.change # 0 THEN 1 ELSE 0)
    BY <2>2, FundsOfChange
  <2> HIDE DEF spare
  <2>4. \A k : /\ Listing(outputs) /\ Funds(outputs, k) = (IF token = k THEN amount ELSE 0) + (IF HTR = k THEN picked.change ELSE 0)
               /\ Cardinality(Carriers(outputs, k)) = (IF token = k THEN 1 ELSE 0) + (IF HTR = k /\ picked.change # 0 THEN 1 ELSE 0)
    BY <1>5, <2>3, JoinIs, FundsJoin
  <2> HIDE DEF outputs
  <2> DEFINE chosen == picked.utxos
             rights == <<u>>
  <2>5. inputs = chosen \o rights
    BY <2>2 DEF Distinct
  <2> HIDE DEF inputs
  <2>6. /\ Distinct(inputs, available) /\ Range(inputs) = {u} \cup Range(chosen)
        /\ \A t : Available(Range(inputs), t) = IF t = HTR THEN Range(chosen) ELSE {}
    <3>1. Distinct(chosen, Available(available, HTR))
      BY <2>2
    <3>2. \A v \in Range(rights) : UtxoOf[v].authorities # {}
      BY <2>1
    <3>3. Distinct(rights, available) /\ available \in SUBSET KnownUtxos /\ Range(rights) = {u}
      BY <2>1
    <3> HIDE DEF chosen, rights
    <3>4. /\ Distinct(rights \o chosen, available) /\ Range(rights \o chosen) = Range(rights) \cup Range(chosen)
          /\ Distinct(chosen \o rights, available) /\ Range(chosen \o rights) = Range(rights) \cup Range(chosen)
          /\ \A t : Available(Range(rights) \cup Range(chosen), t) = IF t = HTR THEN Range(chosen) ELSE {}
          /\ Range(chosen) \in SUBSET KnownUtxos
      BY ONLY <3>1, <3>2, <3>3, WithAuthorities, Zenon
    <3> QED
      BY <2>5, <3>3, <3>4
  <2>7. x = [Tx(inputs, outputs, fee) EXCEPT !.tokens = {token}]
    BY <1>1, <1>10, <2>2 DEF outputs, inputs
  <2> HIDE DEF x
  <2>8. x.inputs = inputs /\ x.outputs = outputs /\ x.fee = fee /\ x.shielded = <<>> /\ x.actions = <<>>
    BY <2>7 DEF Tx
  <2>9. Distinct(inputs, KnownUtxos)
    BY <2>6, DistinctPart
  <2>10. Simple(x)
    BY <1>7, <2>4, <2>8, <2>9, FundsOfNone DEF Simple
  <2>11. Grants(x, "mint", token)
    <3>1. u \in Range(x.inputs)
      BY <2>6, <2>8
    <3> QED
      BY <2>1, <3>1, GrantedBy
  <2>12. \A t \in Tokens : /\ Funds(x.outputs, t) = IF t = token THEN amount ELSE 0
                           /\ Cardinality(Carriers(x.outputs, t)) = IF t = token THEN 1 ELSE 0
                           /\ Available(Range(x.inputs), t) = {}
    <3> SUFFICES ASSUME NEW t \in Tokens
                 PROVE  /\ Funds(x.outputs, t) = IF t = token THEN amount ELSE 0
                        /\ Cardinality(Carriers(x.outputs, t)) = IF t = token THEN 1 ELSE 0
                        /\ Available(Range(x.inputs), t) = {}
      OBVIOUS
    <3>1. t # HTR
      BY <1>2
    <3>2. /\ Funds(outputs, t) = IF t = token THEN amount ELSE 0
          /\ Cardinality(Carriers(outputs, t)) = IF t = token THEN 1 ELSE 0
      BY <1>2, <2>4, <3>1
    <3>3. Available(Range(inputs), t) = {}
      BY <2>6, <3>1
    <3> QED
      BY <2>8, <3>2, <3>3
  <2>13. Funds(x.outputs, HTR) + x.fee + DepositOf(token, amount) = Total(Available(Range(x.inputs), HTR))
    <3>1. Total(Available(Range(inputs), HTR)) = needed + picked.change
      BY <2>2, <2>6
    <3>2. Funds(outputs, HTR) = picked.change
      BY <1>2, <2>2, <2>4
    <3> QED
      BY <1>7, <1>8, <2>2, <2>8, <3>1, <3>2
  <2>14. Mints(x, token, amount, available)
    BY <2>6, <2>8, <2>10, <2>12, <2>13 DEF Mints
  <2>15. Balanced(x)
    BY <1>2, <2>11, <2>14, MintsIsBalanced
  <2>16. FeeIsRight(x)
    BY <1>2, <1>6, <2>8, <2>14, MintsPays
  <2>17. Correct(x, available)
    BY <2>6, <2>8, <2>10, <2>15, <2>16 DEF Correct
  <2> QED
    BY <2>17 DEF x
<1> QED
  BY <1>9, <1>10

LEMMA ServiceMeltIsCorrect ==
  ASSUME NEW available \in SUBSET KnownUtxos, NEW r, r.token \in Tokens, r.amount \in Nat
  PROVE  PrepareServiceMelt(r, available) = Failed \/ Correct(PrepareServiceMelt(r, available), available)
<1> DEFINE token == r.token
           amount == r.amount
           s == AuthorityUtxos(token, "melt", available)
           u == Head(s)
           w == WithdrawOf(token, amount)
           picked == SelectUtxos(ServiceUtxos(token, available), amount)
           back == Positive(HTR, w, "plain")
           more == Another(r.another, token, "melt")
           change == Change(token, picked.change)
           melted == back \o more \o change
           fee == IF Version[token] = "fee" THEN CalculateFee(picked.utxos, melted, <<>>) ELSE 0
           htr == SelectUtxos(ServiceUtxos(HTR, available), fee)
           paid == [ok |-> TRUE, utxos |-> <<>>, change |-> 0]
           cover == IF Version[token] = "fee" THEN htr ELSE paid
           spare == Change(HTR, cover.change)
           inputs == Append(picked.utxos, u) \o cover.utxos
           outputs == melted \o spare
           x == PrepareServiceMelt(r, available)
<1>1. x = IF ~picked.ok \/ s = <<>> THEN Failed
          ELSE IF ~cover.ok THEN Failed
          ELSE [Tx(inputs, outputs, fee) EXCEPT !.tokens = {token}]
  <2>1. ServiceAuthorities(token, "melt", available) = s
    BY AuthoritiesListed
  <2>2. Authorities(r.another, token, "melt") = more
    BY FundsOfAnother
  <2> QED
    BY <2>1, <2>2, Zenon DEF PrepareServiceMelt
<1>2. token \in Tokens /\ amount \in Nat /\ HTR # token /\ HTR \notin Tokens
  BY TxFundsAssumption
<1>3. w \in Nat
  BY WithdrawIsMost
<1> HIDE DEF token, amount, w
<1>4. \A k : /\ Listing(back) /\ Funds(back, k) = (IF HTR = k THEN w ELSE 0)
             /\ Cardinality(Carriers(back, k)) = (IF HTR = k /\ w # 0 THEN 1 ELSE 0)
  BY <1>3, FundsOfPositive
<1>5. \A k : Listing(more) /\ Funds(more, k) = 0 /\ Cardinality(Carriers(more, k)) = 0
  BY FundsOfAnother
<1> HIDE DEF back, more, s
<1>6. CASE s = <<>> \/ picked = Failed
  BY <1>1, <1>6 DEF Failed, x
<1>7. CASE ~(s = <<>> \/ picked = Failed)
  <2>1. u \in available /\ UtxoOf[u].token = token /\ "melt" \in UtxoOf[u].authorities
    BY <1>7, FirstAuthority DEF s
  <2> HIDE DEF u
  <2>2. /\ picked.ok = TRUE /\ Distinct(picked.utxos, Available(available, token)) /\ Distinct(picked.utxos, KnownUtxos)
        /\ picked.change \in Nat /\ Total(Range(picked.utxos)) = amount + picked.change
    BY <1>2, <1>7, PickedFields
  <2> HIDE DEF picked
  <2>3. \A k : /\ Listing(change) /\ Funds(change, k) = (IF token = k THEN picked.change ELSE 0)
               /\ Cardinality(Carriers(change, k)) = (IF token = k /\ picked.change # 0 THEN 1 ELSE 0)
    <3> DEFINE c == picked.change
               list == Change(token, c)
    <3>1. c \in Nat
      BY <2>2
    <3> HIDE DEF c
    <3>2. \A k : /\ Listing(list) /\ Funds(list, k) = (IF token = k THEN c ELSE 0)
                 /\ Cardinality(Carriers(list, k)) = (IF token = k /\ c # 0 THEN 1 ELSE 0)
      BY <3>1, FundsOfChange
    <3> QED
      BY <3>2 DEF c
  <2> HIDE DEF change
  <2> DEFINE first == back \o more
  <2>4. \A k : /\ Listing(first) /\ Funds(first, k) = (IF HTR = k THEN w ELSE 0)
               /\ Cardinality(Carriers(first, k)) = (IF HTR = k /\ w # 0 THEN 1 ELSE 0)
    BY <1>3, <1>4, <1>5, JoinIs, FundsJoin
  <2> HIDE DEF first
  <2>5. melted = first \o change
    BY DEF first
  <2> HIDE DEF melted
  <2>6. \A k : /\ Listing(melted)
               /\ Funds(melted, k) = (IF HTR = k THEN w ELSE 0) + (IF token = k THEN picked.change ELSE 0)
               /\ Cardinality(Carriers(melted, k)) = (IF HTR = k /\ w # 0 THEN 1 ELSE 0) + (IF token = k /\ picked.change # 0 THEN 1 ELSE 0)
    BY <2>3, <2>4, <2>5, JoinIs, FundsJoin
  <2>7. Range(picked.utxos) \in SUBSET Available(available, token)
    BY <2>2, DistinctPart, AvailablePart
  <2>8. \A t : Available(Range(picked.utxos), t) = IF t = token THEN Range(picked.utxos) ELSE {}
    BY <2>7 DEF Available
  <2>9. \A t \in Tokens \ {token} : Owed(Range(picked.utxos), melted, t) = 0
    BY <1>2, <2>6, <2>8 DEF Owed
  <2>10. fee = (IF token \in FeeTokens THEN FeePerOutput * Owed(Range(picked.utxos), melted, token) ELSE 0) /\ fee \in Nat
    <3>1. Listing(melted)
      BY <2>6
    <3>2. /\ CalculateFee(picked.utxos, melted, <<>>)
              = (IF token \in FeeTokens THEN FeePerOutput * Owed(Range(picked.utxos), melted, token) ELSE 0)
          /\ CalculateFee(picked.utxos, melted, <<>>) \in Nat
      BY <1>2, <2>2, <2>9, <3>1, CalculatedFeeOfOne
    <3>3. token \in FeeTokens <=> Version[token] = "fee"
      BY <1>2, FeeOfOneOutput
    <3> QED
      BY <3>2, <3>3
  <2> HIDE DEF fee
  <2>11. CASE ~cover.ok
    BY <1>1, <1>7, <2>2, <2>11 DEF x
  <2>12. CASE cover.ok
    <3>1. /\ Distinct(cover.utxos, Available(available, HTR)) /\ cover.change \in Nat
          /\ Total(Range(cover.utxos)) = fee + cover.change
      <4>1. CASE Version[token] = "fee"
        <5>1. htr # Failed /\ cover = htr
          BY <2>12, <4>1 DEF Failed
        <5> HIDE DEF cover
        <5>2. /\ Distinct(htr.utxos, Available(available, HTR)) /\ htr.change \in Nat
              /\ Total(Range(htr.utxos)) = fee + htr.change
          BY <2>10, <5>1, PickedFields
        <5> QED
          BY <5>1, <5>2
      <4>2. CASE Version[token] # "fee"
        <5>1. cover.utxos = <<>> /\ cover.change = 0
          BY <4>2
        <5> HIDE DEF cover
        <5>2. fee = 0
          BY <1>2, <2>10, <4>2, FeeOfOneOutput
        <5>3. Distinct(<<>>, Available(available, HTR)) /\ Total(Range(<<>>)) = 0
          BY DistinctNone, SumEmpty DEF Total
        <5>4. Distinct(cover.utxos, Available(available, HTR)) /\ Total(Range(cover.utxos)) = 0
          BY <5>1, <5>3
        <5> QED
          BY <5>1, <5>2, <5>4
      <4> QED
        BY <4>1, <4>2
    <3> HIDE DEF cover
    <3>2. \A k : /\ Listing(spare) /\ Funds(spare, k) = (IF HTR = k THEN cover.change ELSE 0)
                 /\ Cardinality(Carriers(spare, k)) = (IF HTR = k /\ cover.change # 0 THEN 1 ELSE 0)
      BY <3>1, FundsOfChange
    <3> HIDE DEF spare
    <3>3. \A k : /\ Listing(outputs)
                 /\ Funds(outputs, k) = Funds(melted, k) + Funds(spare, k)
                 /\ Cardinality(Carriers(outputs, k)) = Cardinality(Carriers(melted, k)) + Cardinality(Carriers(spare, k))
      BY <2>6, <3>2, JoinIs, FundsJoin
    <3> HIDE DEF outputs
    <3>4. /\ \A t \in Tokens : /\ Funds(outputs, t) = (IF t = token THEN picked.change ELSE 0)
                               /\ Cardinality(Carriers(outputs, t)) = Cardinality(Carriers(melted, t))
                               /\ t # token => Cardinality(Carriers(outputs, t)) = 0
          /\ Funds(outputs, HTR) = w + cover.change
      <4>1. ASSUME NEW t \in Tokens
            PROVE  /\ Funds(outputs, t) = (IF t = token THEN picked.change ELSE 0)
                   /\ Cardinality(Carriers(outputs, t)) = Cardinality(Carriers(melted, t))
                   /\ t # token => Cardinality(Carriers(outputs, t)) = 0
        <5>1. t # HTR
          BY <1>2
        <5>2. /\ Funds(melted, t) = (IF token = t THEN picked.change ELSE 0)
              /\ Cardinality(Carriers(melted, t)) = (IF token = t /\ picked.change # 0 THEN 1 ELSE 0)
          BY <5>1, <2>2, <2>6
        <5>3. Funds(spare, t) = 0 /\ Cardinality(Carriers(spare, t)) = 0
          BY <5>1, <3>2
        <5> QED
          BY <2>2, <3>3, <5>2, <5>3
      <4>2. Funds(melted, HTR) = w /\ Funds(spare, HTR) = cover.change
        BY <1>2, <1>3, <2>6, <3>2
      <4> QED
        BY <3>3, <4>1, <4>2
    <3> DEFINE a == picked.utxos
               b == cover.utxos
    <3>5. /\ Distinct(a, Available(available, token)) /\ Distinct(b, Available(available, HTR))
          /\ inputs = Append(a, u) \o b /\ Total(Range(a)) = amount + picked.change /\ Total(Range(b)) = fee + cover.change
      BY <2>2, <3>1
    <3>6. UtxoOf[u].authorities # {}
      BY <2>1
    <3> HIDE DEF a, b, inputs
    <3>7. /\ Distinct(inputs, available) /\ Distinct(inputs, KnownUtxos) /\ u \in Range(inputs)
          /\ \A t : Available(Range(inputs), t) = IF t = token THEN Range(a) ELSE IF t = HTR THEN Range(b) ELSE {}
      <4>1. inputs = <<u>> \o a \o b \/ inputs = Append(a, u) \o b
        BY <3>5
      <4>2. /\ available \in SUBSET KnownUtxos /\ u \in available /\ UtxoOf[u].authorities # {} /\ token \in Tokens
            /\ Distinct(a, Available(available, token)) /\ Distinct(b, Available(available, HTR))
        BY <1>2, <2>1, <3>5, <3>6
      <4>3. MeltSpends(inputs, u, a, b, token, available)
        BY <4>1, <4>2, MeltInputs
      <4> QED
        BY <4>3 DEF MeltSpends
    <3>8. x = [Tx(inputs, outputs, fee) EXCEPT !.tokens = {token}]
      BY <1>1, <1>7, <2>2, <2>12 DEF outputs, inputs
    <3> HIDE DEF x
    <3>9. x.inputs = inputs /\ x.outputs = outputs /\ x.fee = fee /\ x.shielded = <<>> /\ x.actions = <<>>
      BY <3>8 DEF Tx
    <3>10. Simple(x)
      BY <2>10, <3>3, <3>7, <3>9, FundsOfNone DEF Simple
    <3>11. Grants(x, "melt", token)
      BY <2>1, <3>7, <3>9, GrantedBy
    <3>12. Funds(outputs, token) + amount = Total(Available(Range(inputs), token))
      BY <1>2, <2>2, <3>4, <3>5, <3>7
    <3>13. Funds(outputs, HTR) + fee = Total(Available(Range(inputs), HTR)) + w
      <4>1. Total(Available(Range(inputs), HTR)) = fee + cover.change
        BY <1>2, <3>5, <3>7
      <4> QED
        BY <1>3, <2>10, <3>1, <3>4, <4>1
    <3>14. \A t \in Tokens \ {token} : /\ Funds(outputs, t) = 0
                                       /\ Cardinality(Carriers(outputs, t)) = 0
                                       /\ Available(Range(inputs), t) = {}
      BY <1>2, <3>4, <3>7
    <3>15. fee = IF token \in FeeTokens THEN FeePerOutput * Due(x, token) ELSE 0
      <4>1. Available(Range(inputs), token) = Available(Range(picked.utxos), token)
        BY <2>8, <3>7 DEF a
      <4>2. Due(x, token) = Owed(Range(picked.utxos), melted, token)
        BY <1>2, <3>4, <3>9, <4>1 DEF Due, Owed
      <4> QED
        BY <2>10, <4>2
    <3>16. Melts(x, token, amount, available)
      BY <3>7, <3>9, <3>10, <3>11, <3>12, <3>13, <3>14, <3>15 DEF Melts, w
    <3>17. Correct(x, available)
      BY <1>2, <3>16, MeltsIsCorrect
    <3> QED
      BY <3>17 DEF x
  <2> QED
    BY <2>11, <2>12
<1> QED
  BY <1>6, <1>7

\* The outputs of a token that is created, and those of them that are counted.
CreatedOutputs(token, amount, count, nft, another) ==
    (IF nft THEN DataOutputs(count) ELSE <<>>)
    \o <<Output(token, amount, {}, "mint")>> \o Another(another, token, "mint")
Counted(outputs) == Cardinality({i \in DOMAIN outputs : outputs[i].authorities = {}})

LEMMA CreatedOutputsAre ==
  ASSUME NEW token \in Tokens, NEW amount \in Nat, NEW count \in Nat, NEW nft, NEW another
  PROVE  LET minted == CreatedOutputs(token, amount, count, nft, another)
         IN  /\ Listing(minted)
             /\ \A k : /\ Funds(minted, k) = (IF nft /\ HTR = k THEN count ELSE 0) + (IF token = k THEN amount ELSE 0)
                       /\ k # HTR => Cardinality(Carriers(minted, k)) = IF token = k THEN 1 ELSE 0
             /\ Counted(minted) \in Nat /\ (~nft => Counted(minted) = 1)
<1> DEFINE first == IF nft THEN DataOutputs(count) ELSE <<>>
           one == <<Output(token, amount, {}, "mint")>>
           more == Another(another, token, "mint")
           two == first \o one
           minted == first \o one \o more
           places == {i \in DOMAIN minted : minted[i].authorities = {}}
<1>1. \A k : /\ Listing(first) /\ Funds(first, k) = (IF nft /\ HTR = k THEN count ELSE 0)
             /\ Cardinality(Carriers(first, k)) = (IF nft /\ HTR = k THEN count ELSE 0)
  <2>1. CASE nft
    <3>1. first = DataOutputs(count)
      BY <2>1
    <3> QED
      BY <2>1, <3>1, FundsOfData
  <2>2. CASE ~nft
    <3>1. first = <<>>
      BY <2>2
    <3> QED
      BY <2>2, <3>1, FundsOfNone
  <2> QED
    BY <2>1, <2>2
<1>2. \A k : /\ Listing(one) /\ Funds(one, k) = (IF token = k THEN amount ELSE 0)
             /\ Cardinality(Carriers(one, k)) = (IF token = k THEN 1 ELSE 0)
  BY FundsOfOutput
<1>3. \A k : Listing(more) /\ Funds(more, k) = 0 /\ Cardinality(Carriers(more, k)) = 0
  BY FundsOfAnother
<1>4. ~nft => Cardinality(places) = 1
  <2> SUFFICES ASSUME ~nft PROVE Cardinality(places) = 1
    OBVIOUS
  <2> DEFINE o == Output(token, amount, {}, "mint")
             a == Authority(token, "mint")
  <2>1. first = <<>>
    OBVIOUS
  <2>2. one = <<o>> /\ (more = <<>> \/ more = <<a>>)
    BY Zenon DEF Another
  <2>4. o.authorities = {} /\ a.authorities # {}
    BY DEF Output, Authority
  <2>6. minted = <<>> \o one \o more
    BY <2>1
  <2> HIDE DEF o, a, first, one, more, minted
  <2>3. minted = <<o>> \/ minted = <<o, a>>
    <3>1. <<>> \o <<o>> = <<o>> /\ <<o>> \o <<>> = <<o>> /\ <<o>> \o <<a>> = <<o, a>>
      <4>1. <<o>> \in Seq({o})
        OBVIOUS
      <4>2. \A s \in Seq({o}) : <<>> \o s = s /\ s \o <<>> = s
        OBVIOUS
      <4>3. <<o>> \o <<a>> = <<o, a>>
        <5> DEFINE s == <<o>> \o <<a>>
        <5>1. <<o>> \in Seq({o, a}) /\ <<a>> \in Seq({o, a})
          OBVIOUS
        <5>2. s \in Seq({o, a}) /\ Len(s) = 2 /\ s[1] = o /\ s[2] = a
          BY <5>1
        <5> HIDE DEF s
        <5>3. s = <<o, a>>
          BY <5>2
        <5> QED
          BY <5>3 DEF s
      <4> QED
        BY <4>1, <4>2, <4>3
    <3>2. CASE more = <<>>
      BY <2>2, <2>6, <3>1, <3>2
    <3>3. CASE more = <<a>>
      BY <2>2, <2>6, <3>1, <3>3
    <3> QED
      BY <2>2, <3>2, <3>3
  <2>5. places = {1}
    <3>1. CASE minted = <<o>>
      <4>1. DOMAIN minted = {1} /\ minted[1] = o
        BY <3>1
      <4> QED
        BY <2>4, <4>1
    <3>2. CASE minted = <<o, a>>
      <4>1. DOMAIN minted = {1, 2} /\ minted[1] = o /\ minted[2] = a
        BY <3>2
      <4> QED
        BY <2>4, <4>1
    <3> QED
      BY <2>3, <3>1, <3>2
  <2> HIDE DEF places
  <2> QED
    BY <2>5, FS_Singleton
<1>5. two = first \o one /\ minted = two \o more
  OBVIOUS
<1> HIDE DEF first, one, more, two
<1>6. \A k : /\ Listing(two) /\ Funds(two, k) = (IF nft /\ HTR = k THEN count ELSE 0) + (IF token = k THEN amount ELSE 0)
             /\ Cardinality(Carriers(two, k)) = (IF nft /\ HTR = k THEN count ELSE 0) + (IF token = k THEN 1 ELSE 0)
  <2>1. \A k : /\ Listing(two) /\ Funds(two, k) = Funds(first, k) + Funds(one, k)
               /\ Cardinality(Carriers(two, k)) = Cardinality(Carriers(first, k)) + Cardinality(Carriers(one, k))
    BY <1>1, <1>2, <1>5, JoinIs, FundsJoin
  <2> QED
    BY <1>1, <1>2, <2>1
<1> DEFINE all == two \o more
<1>7. \A k : /\ Listing(all) /\ Funds(all, k) = Funds(two, k) + Funds(more, k)
             /\ Cardinality(Carriers(all, k)) = Cardinality(Carriers(two, k)) + Cardinality(Carriers(more, k))
  BY <1>3, <1>6, JoinIs, FundsJoin
<1>8. minted = all
  BY <1>5
<1>11. minted = CreatedOutputs(token, amount, count, nft, another)
  BY Zenon DEF CreatedOutputs, first, one, more
<1> HIDE DEF all, minted
<1>9. \A k : /\ Listing(minted) /\ Funds(minted, k) = (IF nft /\ HTR = k THEN count ELSE 0) + (IF token = k THEN amount ELSE 0)
             /\ k # HTR => Cardinality(Carriers(minted, k)) = IF token = k THEN 1 ELSE 0
  <2> SUFFICES ASSUME NEW k
               PROVE  /\ Listing(minted) /\ Funds(minted, k) = (IF nft /\ HTR = k THEN count ELSE 0) + (IF token = k THEN amount ELSE 0)
                      /\ k # HTR => Cardinality(Carriers(minted, k)) = IF token = k THEN 1 ELSE 0
    OBVIOUS
  <2>1. /\ Listing(minted) /\ Funds(minted, k) = Funds(two, k) + 0
        /\ Cardinality(Carriers(minted, k)) = Cardinality(Carriers(two, k)) + 0
    BY <1>3, <1>7, <1>8
  <2>2. Funds(two, k) \in Nat /\ Cardinality(Carriers(two, k)) \in Nat
    BY <1>6, FundsType
  <2>3. k # HTR => Cardinality(Carriers(two, k)) = IF token = k THEN 1 ELSE 0
    BY <1>6
  <2> QED
    BY <1>6, <2>1, <2>2, <2>3
<1>10. Cardinality(places) \in Nat
  <2>1. Listing(minted)
    BY <1>9
  <2>2. DOMAIN minted = 1..Len(minted) /\ Len(minted) \in Nat
    BY <2>1 DEF Listing
  <2>3. IsFiniteSet(1..Len(minted)) /\ places \in SUBSET (1..Len(minted))
    BY <2>2, FS_Interval
  <2>4. IsFiniteSet(places)
    BY <2>3, FS_Subset
  <2> QED
    BY <2>4, FS_CardinalityType
<1>12. Counted(minted) = Cardinality(places)
  BY Zenon DEF Counted
<1> HIDE DEF places
<1> QED
  BY <1>4, <1>9, <1>10, <1>11, <1>12

LEMMA ServiceCreateIsCorrect ==
  ASSUME NEW available \in SUBSET KnownUtxos, NEW r, r.token \in Tokens, r.amount \in Nat, r.data \in Nat
  PROVE  LET x == PrepareServiceCreate(r, available)
         IN  \/ x = Failed
             \/ /\ Simple(x) /\ Distinct(x.inputs, available) /\ Balanced(x)
                /\ ~r.nft \/ r.token \notin FeeTokens => FeeIsRight(x)
<1> DEFINE token == r.token
           amount == r.amount
           count == r.data
           x == PrepareServiceCreate(r, available)
           minted == CreatedOutputs(token, amount, count, r.nft, r.another)
           charged == Counted(minted)
           fee == FeeOf(token) * charged
           needed == count + DepositOf(token, amount) + fee
           picked == SelectUtxos(ServiceUtxos(HTR, available), needed)
           change == Change(HTR, picked.change)
           more == Another(r.another, token, "melt")
           last == IF r.nft THEN <<>> ELSE DataOutputs(count)
           outputs == minted \o change \o more \o last
<1>1. x = IF ~picked.ok THEN Failed ELSE [Tx(picked.utxos, outputs, fee) EXCEPT !.created = {token}]
  <2>1. Authorities(r.another, token, "mint") = Another(r.another, token, "mint") /\ Authorities(r.another, token, "melt") = more
    BY FundsOfAnother
  <2>2. Data(count) = DataOutputs(count)
    BY FundsOfData
  <2> QED
    BY <2>1, <2>2, Zenon DEF PrepareServiceCreate, DataFee, CreatedOutputs, Counted
<1>2. token \in Tokens /\ amount \in Nat /\ count \in Nat /\ HTR # token /\ HTR \notin Tokens
  BY TxFundsAssumption
<1>3. /\ Listing(minted)
      /\ \A k : /\ Funds(minted, k) = (IF r.nft /\ HTR = k THEN count ELSE 0) + (IF token = k THEN amount ELSE 0)
                /\ k # HTR => Cardinality(Carriers(minted, k)) = IF token = k THEN 1 ELSE 0
      /\ charged \in Nat /\ (~r.nft => charged = 1)
  BY <1>2, CreatedOutputsAre
<1>4. \A k : Listing(more) /\ Funds(more, k) = 0 /\ Cardinality(Carriers(more, k)) = 0
  BY FundsOfAnother
<1>5. \A k : /\ Listing(last) /\ Funds(last, k) = (IF ~r.nft /\ HTR = k THEN count ELSE 0)
             /\ k # HTR => Cardinality(Carriers(last, k)) = 0
  <2>1. CASE ~r.nft
    <3>1. last = DataOutputs(count)
      BY <2>1
    <3> QED
      BY <2>1, <3>1, FundsOfData
  <2>2. CASE r.nft
    <3>1. last = <<>>
      BY <2>2
    <3> QED
      BY <2>2, <3>1, FundsOfNone
  <2> QED
    BY <2>1, <2>2
<1> HIDE DEF minted, charged, more, last, token, amount, count
<1>6. fee \in Nat /\ DepositOf(token, amount) \in Nat /\ (~r.nft \/ token \notin FeeTokens => fee = IF token \in FeeTokens THEN FeePerOutput ELSE 0)
  <2>1. DepositOf(token, amount) \in Nat
    BY <1>2, DepositIsLeast
  <2>2. FeeOf(token) = (IF token \in FeeTokens THEN FeePerOutput ELSE 0) /\ FeePerOutput \in Nat
    BY <1>2, FeeOfOneOutput
  <2>3. CASE token \in FeeTokens
    BY <1>3, <2>1, <2>2, <2>3
  <2>4. CASE token \notin FeeTokens
    BY <1>3, <2>1, <2>2, <2>4
  <2> QED
    BY <2>3, <2>4
<1> HIDE DEF fee
<1>7. needed \in Nat /\ needed = count + DepositOf(token, amount) + fee
  BY <1>2, <1>6
<1> HIDE DEF needed
<1>8. CASE picked = Failed
  BY <1>1, <1>8 DEF Failed, x
<1>9. CASE picked # Failed
  <2>1. /\ picked.ok = TRUE /\ Distinct(picked.utxos, Available(available, HTR))
        /\ Distinct(picked.utxos, KnownUtxos) /\ Distinct(picked.utxos, available)
        /\ picked.change \in Nat /\ Total(Range(picked.utxos)) = needed + picked.change
    BY <1>7, <1>9, PickedFields
  <2> HIDE DEF picked
  <2>2. \A k : /\ Listing(change) /\ Funds(change, k) = (IF HTR = k THEN picked.change ELSE 0)
               /\ Cardinality(Carriers(change, k)) = (IF HTR = k /\ picked.change # 0 THEN 1 ELSE 0)
    BY <2>1, FundsOfChange
  <2> HIDE DEF change
  <2> DEFINE a == minted \o change
             b == a \o more
             c == b \o last
  <2>3. \A k : /\ Listing(a) /\ Funds(a, k) = Funds(minted, k) + Funds(change, k)
               /\ Cardinality(Carriers(a, k)) = Cardinality(Carriers(minted, k)) + Cardinality(Carriers(change, k))
    BY <1>3, <2>2, JoinIs, FundsJoin
  <2> HIDE DEF a
  <2>4. \A k : /\ Listing(b) /\ Funds(b, k) = Funds(a, k) + Funds(more, k)
               /\ Cardinality(Carriers(b, k)) = Cardinality(Carriers(a, k)) + Cardinality(Carriers(more, k))
    BY <1>4, <2>3, JoinIs, FundsJoin
  <2> HIDE DEF b
  <2>5. \A k : /\ Listing(c) /\ Funds(c, k) = Funds(b, k) + Funds(last, k)
               /\ Cardinality(Carriers(c, k)) = Cardinality(Carriers(b, k)) + Cardinality(Carriers(last, k))
    BY <1>5, <2>4, JoinIs, FundsJoin
  <2>6. outputs = c
    BY DEF a, b
  <2> HIDE DEF outputs, c
  <2>7. /\ Listing(outputs) /\ Funds(outputs, HTR) = count + picked.change
        /\ \A t \in Tokens : /\ Funds(outputs, t) = IF t = token THEN amount ELSE 0
                             /\ Cardinality(Carriers(outputs, t)) = IF t = token THEN 1 ELSE 0
    <3>1. ASSUME NEW k
          PROVE  /\ Listing(outputs)
                 /\ Funds(outputs, k) = Funds(minted, k) + Funds(change, k) + Funds(more, k) + Funds(last, k)
                 /\ Cardinality(Carriers(outputs, k)) = Cardinality(Carriers(minted, k)) + Cardinality(Carriers(change, k))
                        + Cardinality(Carriers(more, k)) + Cardinality(Carriers(last, k))
      BY <2>3, <2>4, <2>5, <2>6
    <3>2. Funds(outputs, HTR) = count + picked.change
      <4>1. Funds(minted, HTR) = (IF r.nft THEN count ELSE 0)
        BY <1>2, <1>3
      <4>2. Funds(last, HTR) = (IF r.nft THEN 0 ELSE count)
        BY <1>5
      <4>3. Funds(change, HTR) = picked.change /\ Funds(more, HTR) = 0
        BY <1>4, <2>2
      <4>4. CASE r.nft
        BY <1>2, <2>1, <3>1, <4>1, <4>2, <4>3, <4>4
      <4>5. CASE ~r.nft
        BY <1>2, <2>1, <3>1, <4>1, <4>2, <4>3, <4>5
      <4> QED
        BY <4>4, <4>5
    <3>3. ASSUME NEW t \in Tokens
          PROVE  /\ Funds(outputs, t) = IF t = token THEN amount ELSE 0
                 /\ Cardinality(Carriers(outputs, t)) = IF t = token THEN 1 ELSE 0
      <4>1. t # HTR
        BY <1>2
      <4>2. Funds(minted, t) = (IF t = token THEN amount ELSE 0) /\ Cardinality(Carriers(minted, t)) = (IF t = token THEN 1 ELSE 0)
        BY <1>2, <1>3, <4>1
      <4>3. Funds(last, t) = 0 /\ Cardinality(Carriers(last, t)) = 0 /\ Funds(more, t) = 0 /\ Cardinality(Carriers(more, t)) = 0
        BY <1>4, <1>5, <4>1
      <4>4. Funds(change, t) = 0 /\ Cardinality(Carriers(change, t)) = 0
        BY <2>2, <4>1
      <4> QED
        BY <1>2, <3>1, <4>2, <4>3, <4>4
    <3> QED
      BY <3>1, <3>2, <3>3
  <2> DEFINE chosen == picked.utxos
  <2>8. \A t : Available(Range(chosen), t) = IF t = HTR THEN Range(chosen) ELSE {}
    <3>1. Range(chosen) \in SUBSET Available(available, HTR)
      BY <2>1, DistinctPart, AvailablePart
    <3> QED
      BY <3>1 DEF Available
  <2>9. x = [Tx(chosen, outputs, fee) EXCEPT !.created = {token}]
    BY <1>1, <2>1 DEF outputs
  <2>10. Total(Range(chosen)) = needed + picked.change /\ Distinct(chosen, available) /\ Distinct(chosen, KnownUtxos)
    BY <2>1
  <2> HIDE DEF x, chosen
  <2>11. /\ x.inputs = chosen /\ x.outputs = outputs /\ x.fee = fee /\ x.shielded = <<>> /\ x.actions = <<>>
         /\ x.created = {token}
    BY <2>9 DEF Tx
  <2>12. Simple(x)
    BY <1>6, <2>7, <2>10, <2>11, FundsOfNone DEF Simple
  <2>13. Funds(x.outputs, HTR) + x.fee + DepositOf(token, amount) = Total(Available(Range(x.inputs), HTR))
    <3>1. Total(Available(Range(chosen), HTR)) = needed + picked.change
      BY <2>8, <2>10
    <3> QED
      BY <1>2, <1>6, <1>7, <2>1, <2>7, <2>11, <3>1
  <2>14. \A t \in Tokens : Available(Range(x.inputs), t) = {}
    BY <1>2, <2>8, <2>11
  <2>15. Mints(x, token, amount, available)
    BY <2>7, <2>10, <2>11, <2>12, <2>13, <2>14 DEF Mints
  <2>16. Balanced(x)
    BY <1>2, <2>11, <2>15, MintsIsBalanced
  <2>17. ~r.nft \/ token \notin FeeTokens => FeeIsRight(x)
    BY <1>2, <1>6, <2>11, <2>15, MintsPays
  <2>18. Distinct(x.inputs, available)
    BY <2>10, <2>11
  <2> QED
    BY <2>12, <2>16, <2>17, <2>18, Zenon DEF x, token
<1> QED
  BY <1>8, <1>9

-----------------------------------------------------------------------------
(* A send of the wallet service facade while it is prepared *)

\* The outputs that are charged: those that carry a token that pays fees.
FeeCarriers(outputs) == SumFunctionOnSet([t \in FeeTokens |-> Cardinality(Carriers(outputs, t))], FeeTokens)

\* The inputs are available and different, and the fee is that of the outputs.
Sending(s, available) ==
    /\ s = [ok |-> TRUE, inputs |-> s.inputs, outputs |-> s.outputs, fee |-> s.fee]
    /\ Distinct(s.inputs, available) /\ Listing(s.outputs) /\ s.fee \in Nat
    /\ s.fee = FeePerOutput * FeeCarriers(s.outputs)

\* The call has thrown.
Threw(s) == s.ok = FALSE /\ "ok" \in DOMAIN s

\* What a send is once an amount of a token is covered, if it does not throw.
CoversOne(s, next, t, amount, available) ==
    \/ Threw(next)
    \/ /\ Sending(next, available) /\ ~Threw(s)
       /\ \A k : k # t => /\ Funds(next.outputs, k) = Funds(s.outputs, k)
                          /\ Cardinality(Carriers(next.outputs, k)) = Cardinality(Carriers(s.outputs, k))
                          /\ Available(Range(next.inputs), k) = Available(Range(s.inputs), k)
       /\ Total(Available(Range(next.inputs), t)) + Funds(s.outputs, t) = amount + Funds(next.outputs, t)
       /\ Cardinality(Carriers(next.outputs, t)) >= Cardinality(Carriers(s.outputs, t))

LEMMA SendingGoesOn ==
  ASSUME NEW s, NEW available, Sending(s, available)
  PROVE  s.ok = TRUE /\ ~Threw(s) /\ Threw(Thrown(s))
<1>1. s = [ok |-> TRUE, inputs |-> s.inputs, outputs |-> s.outputs, fee |-> s.fee]
  BY DEF Sending
<1>2. s.ok = TRUE /\ "ok" \in DOMAIN s
  BY <1>1
<1> QED
  BY <1>2 DEF Threw, Thrown

\* Two sums that differ in one term.
LEMMA SumChange ==
  ASSUME NEW f, NEW g, NEW S, IsFiniteSet(S), NEW a \in S, \A x \in S : f[x] \in Int /\ g[x] \in Int,
         \A x \in S \ {a} : f[x] = g[x]
  PROVE  SumFunctionOnSet(g, S) + f[a] = SumFunctionOnSet(f, S) + g[a]
<1>1. SumFunctionOnSet(f, S) = f[a] + SumFunctionOnSet(f, S \ {a}) /\ SumFunctionOnSet(g, S) = g[a] + SumFunctionOnSet(g, S \ {a})
  BY SumRemove
<1>2. IsFiniteSet(S \ {a})
  BY FS_Subset
<1>3. SumFunctionOnSet(f, S \ {a}) = SumFunctionOnSet(g, S \ {a}) /\ SumFunctionOnSet(f, S \ {a}) \in Int
  BY <1>2, SumAgree, SumInt
<1> QED
  BY <1>1, <1>3

LEMMA FeeCarriersType ==
  ASSUME NEW outputs, Listing(outputs)
  PROVE  FeeCarriers(outputs) \in Nat
<1> DEFINE f == [t \in FeeTokens |-> Cardinality(Carriers(outputs, t))]
<1>1. IsFiniteSet(FeeTokens) /\ \A t \in FeeTokens : f[t] \in Nat
  BY TokensPayFees, FundsType
<1> HIDE DEF f
<1>2. SumFunctionOnSet(f, FeeTokens) \in Nat
  BY <1>1, SumNat
<1> QED
  BY <1>2 DEF FeeCarriers, f

\* A change is charged when its token pays fees.
LEMMA FeeCarriersWithChange ==
  ASSUME NEW outputs, Listing(outputs), NEW t, NEW change \in Nat
  PROVE  FeeCarriers(outputs \o Change(t, change))
         = FeeCarriers(outputs) + IF t \in FeeTokens /\ change # 0 THEN 1 ELSE 0
<1> DEFINE more == Change(t, change)
           all == outputs \o more
           f == [k \in FeeTokens |-> Cardinality(Carriers(outputs, k))]
           g == [k \in FeeTokens |-> Cardinality(Carriers(all, k))]
<1>1. \A k : /\ Listing(more) /\ Cardinality(Carriers(more, k)) = IF t = k /\ change # 0 THEN 1 ELSE 0
  BY FundsOfChange
<1> HIDE DEF more
<1>2. \A k : /\ Cardinality(Carriers(all, k)) = Cardinality(Carriers(outputs, k)) + Cardinality(Carriers(more, k))
             /\ Cardinality(Carriers(outputs, k)) \in Nat
  BY <1>1, FundsJoin, FundsType
<1> HIDE DEF all
<1>3. \A k : /\ Cardinality(Carriers(all, k)) = Cardinality(Carriers(outputs, k)) + IF t = k /\ change # 0 THEN 1 ELSE 0
             /\ Cardinality(Carriers(outputs, k)) \in Nat
  BY <1>1, <1>2
<1>4. \A k \in FeeTokens : f[k] \in Int /\ g[k] \in Int /\ g[k] = f[k] + IF t = k /\ change # 0 THEN 1 ELSE 0
  BY <1>3
<1>5. IsFiniteSet(FeeTokens)
  BY TokensPayFees
<1>6. FeeCarriers(outputs) = SumFunctionOnSet(f, FeeTokens) /\ FeeCarriers(all) = SumFunctionOnSet(g, FeeTokens)
  BY DEF FeeCarriers
<1> HIDE DEF f, g
<1>7. SumFunctionOnSet(f, FeeTokens) \in Int
  BY <1>4, <1>5, SumInt
<1>8. CASE t \in FeeTokens /\ change # 0
  <2>1. \A k \in FeeTokens \ {t} : f[k] = g[k]
    BY <1>4
  <2>2. SumFunctionOnSet(g, FeeTokens) + f[t] = SumFunctionOnSet(f, FeeTokens) + g[t]
    BY <1>4, <1>5, <1>8, <2>1, SumChange
  <2>3. SumFunctionOnSet(g, FeeTokens) \in Int
    BY <1>4, <1>5, SumInt
  <2>4. f[t] \in Int /\ g[t] = f[t] + 1
    BY <1>4, <1>8
  <2>5. FeeCarriers(all) = FeeCarriers(outputs) + 1
    BY <1>6, <1>7, <2>2, <2>3, <2>4
  <2> QED
    BY <1>8, <2>5 DEF all, more
<1>9. CASE ~(t \in FeeTokens /\ change # 0)
  <2>1. \A k \in FeeTokens : f[k] = g[k] /\ f[k] \in Int
    BY <1>4, <1>9
  <2>2. SumFunctionOnSet(f, FeeTokens) = SumFunctionOnSet(g, FeeTokens)
    BY <1>5, <2>1, SumAgree
  <2>3. FeeCarriers(all) = FeeCarriers(outputs) + 0
    BY <1>6, <1>7, <2>2
  <2> QED
    BY <1>9, <2>3 DEF all, more
<1> QED
  BY <1>8, <1>9

\* One token is covered by more inputs, or by those it has, and its change.
LEMMA SendExtended ==
  ASSUME NEW available \in SUBSET KnownUtxos, NEW s, Sending(s, available), NEW t \in Tokens \cup {HTR},
         NEW chosen, Distinct(chosen, Available(available, t)),
         chosen = <<>> \/ Available(Range(s.inputs), t) = {},
         NEW change \in Nat, NEW amount \in Nat,
         Total(Range(chosen)) + Total(Available(Range(s.inputs), t)) = amount + change,
         NEW next, next = [ok |-> TRUE, inputs |-> s.inputs \o chosen, outputs |-> s.outputs \o Change(t, change),
                           fee |-> s.fee + IF change = 0 THEN 0 ELSE FeeOf(t)]
  PROVE  CoversOne(s, next, t, amount, available)
<1> DEFINE inputs == s.inputs \o chosen
           more == Change(t, change)
           outputs == s.outputs \o more
           fee == s.fee + IF change = 0 THEN 0 ELSE FeeOf(t)
<1>1. /\ Distinct(s.inputs, available) /\ Distinct(s.inputs, KnownUtxos) /\ Range(s.inputs) \in SUBSET available
      /\ Listing(s.outputs) /\ s.fee \in Nat /\ s.fee = FeePerOutput * FeeCarriers(s.outputs)
  BY DistinctPart DEF Sending
<1>2. /\ Distinct(chosen, available) /\ Distinct(chosen, KnownUtxos) /\ Range(chosen) \in SUBSET Available(available, t)
  <2> DEFINE us == Available(available, t)
  <2>1. us \in SUBSET available /\ us \in SUBSET KnownUtxos
    BY DEF Available
  <2>2. Distinct(chosen, us)
    OBVIOUS
  <2> HIDE DEF us
  <2>3. Distinct(chosen, available) /\ Range(chosen) \in SUBSET us
    BY <2>1, <2>2, DistinctPart
  <2>4. Distinct(chosen, KnownUtxos)
    BY <2>1, <2>2, DistinctPart
  <2> QED
    BY <2>3, <2>4 DEF us
<1>3. Range(s.inputs) \cap Range(chosen) = {}
  <2>1. CASE chosen = <<>>
    BY <2>1, DistinctNone
  <2>2. CASE Available(Range(s.inputs), t) = {}
    BY <1>2, <2>2 DEF Available
  <2> QED
    BY <2>1, <2>2
<1>4. Distinct(inputs, available) /\ Range(inputs) = Range(s.inputs) \cup Range(chosen)
  BY <1>1, <1>2, <1>3, DistinctJoin
<1>5. \A k : k # t => Available(Range(inputs), k) = Available(Range(s.inputs), k)
  BY <1>2, <1>4 DEF Available
<1>6. Total(Available(Range(inputs), t)) = amount + change
  <2>1. Available(Range(inputs), t) = Available(Range(s.inputs), t) \cup Range(chosen)
    BY <1>2, <1>4 DEF Available
  <2>2. /\ Available(Range(s.inputs), t) \in SUBSET KnownUtxos /\ Range(chosen) \in SUBSET KnownUtxos
        /\ Available(Range(s.inputs), t) \cap Range(chosen) = {}
    BY <1>1, <1>2, <1>3 DEF Available
  <2>3. Total(Available(Range(s.inputs), t) \cup Range(chosen)) = Total(Available(Range(s.inputs), t)) + Total(Range(chosen))
    BY <2>2, TotalJoin
  <2>4. Total(Available(Range(s.inputs), t)) \in Nat /\ Total(Range(chosen)) \in Nat
    BY <2>2, TotalType
  <2> QED
    BY <2>1, <2>3, <2>4
<1>7. \A k : /\ Listing(more) /\ Funds(more, k) = (IF t = k THEN change ELSE 0)
             /\ Cardinality(Carriers(more, k)) = (IF t = k /\ change # 0 THEN 1 ELSE 0)
  BY FundsOfChange
<1>8. FeeCarriers(outputs) = FeeCarriers(s.outputs) + IF t \in FeeTokens /\ change # 0 THEN 1 ELSE 0
  BY <1>1, FeeCarriersWithChange
<1> HIDE DEF more
<1>9. \A k : /\ Listing(outputs) /\ Funds(outputs, k) = Funds(s.outputs, k) + Funds(more, k)
             /\ Cardinality(Carriers(outputs, k)) = Cardinality(Carriers(s.outputs, k)) + Cardinality(Carriers(more, k))
             /\ Funds(s.outputs, k) \in Nat /\ Cardinality(Carriers(s.outputs, k)) \in Nat
  BY <1>1, <1>7, JoinIs, FundsJoin, FundsType
<1> HIDE DEF outputs, inputs
<1>10. FeeOf(t) = (IF t \in FeeTokens THEN FeePerOutput ELSE 0) /\ FeePerOutput \in Nat
  BY TokensPayFees DEF FeeOf, FeeTokens
<1>11. FeeCarriers(s.outputs) \in Nat
  BY <1>1, FeeCarriersType
<1>12. fee \in Nat /\ fee = FeePerOutput * FeeCarriers(outputs)
  <2>1. CASE t \in FeeTokens /\ change # 0
    <3>1. FeePerOutput * (FeeCarriers(s.outputs) + 1) = FeePerOutput * FeeCarriers(s.outputs) + FeePerOutput
      BY <1>10, <1>11
    <3> QED
      BY <1>1, <1>8, <1>10, <2>1, <3>1
  <2>2. CASE ~(t \in FeeTokens /\ change # 0)
    <3>1. fee = s.fee + 0
      BY <1>10, <2>2
    <3>2. FeeCarriers(outputs) = FeeCarriers(s.outputs)
      BY <1>8, <1>11, <2>2
    <3> QED
      BY <1>1, <3>1, <3>2
  <2> QED
    BY <2>1, <2>2
<1> HIDE DEF fee
<1>13. next = [ok |-> TRUE, inputs |-> inputs, outputs |-> outputs, fee |-> fee]
  BY DEF inputs, outputs, fee, more
<1>14. next.inputs = inputs /\ next.outputs = outputs /\ next.fee = fee
  BY <1>13
<1>15. Sending(next, available)
  BY <1>4, <1>9, <1>12, <1>13, <1>14 DEF Sending
<1>16. \A k : k # t => /\ Funds(outputs, k) = Funds(s.outputs, k)
                       /\ Cardinality(Carriers(outputs, k)) = Cardinality(Carriers(s.outputs, k))
  BY <1>7, <1>9
<1>17. /\ Funds(outputs, t) = Funds(s.outputs, t) + change /\ Funds(s.outputs, t) \in Nat
       /\ Cardinality(Carriers(outputs, t)) >= Cardinality(Carriers(s.outputs, t))
  BY <1>7, <1>9
<1>18. Total(Available(Range(inputs), t)) + Funds(s.outputs, t) = amount + Funds(outputs, t)
  BY <1>6, <1>17
<1>19. ~Threw(s)
  BY SendingGoesOn
<1> QED
  BY <1>5, <1>14, <1>15, <1>16, <1>17, <1>18, <1>19 DEF CoversOne

\* Outputs that move value, as a send of the facade has them.
Valued(outputs) == Listing(outputs) /\ \A i \in DOMAIN outputs : outputs[i].authorities = {}

\* Charging each output is charging those that carry a token that pays fees.
LEMMA ChargedIs ==
  ASSUME NEW outputs, Valued(outputs)
  PROVE  SumFunction([i \in DOMAIN outputs |-> FeeOf(outputs[i].token)]) = FeePerOutput * FeeCarriers(outputs)
<1> DEFINE places == DOMAIN outputs
           f == [i \in places |-> FeeOf(outputs[i].token)]
           g == [i \in places |-> IF outputs[i].token \in FeeTokens THEN 1 ELSE 0]
           c == [t \in FeeTokens |-> Cardinality(Carriers(outputs, t))]
           Of(T) == {i \in places : outputs[i].token \in T}
           K == {T \in SUBSET FeeTokens : SumFunctionOnSet(g, Of(T)) = SumFunctionOnSet(c, T)}
<1>1. IsFiniteSet(places)
  <2>1. Len(outputs) \in Nat /\ DOMAIN outputs = 1..Len(outputs)
    BY DEF Valued, Listing
  <2> QED
    BY <2>1, FirstNumbers
<1>2. /\ FeeTokens \in SUBSET Tokens /\ IsFiniteSet(FeeTokens) /\ FeePerOutput \in Nat
  BY TokensPayFees
<1>3. \A i \in places : g[i] \in Int /\ f[i] = FeePerOutput * g[i]
  <2> SUFFICES ASSUME NEW i \in places PROVE g[i] \in Int /\ f[i] = FeePerOutput * g[i]
    OBVIOUS
  <2>1. f[i] = IF outputs[i].token \in FeeTokens THEN FeePerOutput ELSE 0
    BY DEF FeeOf, FeeTokens
  <2>2. FeePerOutput * 1 = FeePerOutput /\ FeePerOutput * 0 = 0
    BY <1>2
  <2> QED
    BY <2>1, <2>2
<1>4. \A t \in FeeTokens : /\ Carriers(outputs, t) \in SUBSET places /\ IsFiniteSet(Carriers(outputs, t))
                           /\ \A i \in Carriers(outputs, t) : g[i] = 1
                           /\ c[t] \in Int /\ c[t] = Cardinality(Carriers(outputs, t))
  <2> SUFFICES ASSUME NEW t \in FeeTokens
               PROVE  /\ Carriers(outputs, t) \in SUBSET places /\ IsFiniteSet(Carriers(outputs, t))
                      /\ \A i \in Carriers(outputs, t) : g[i] = 1
                      /\ c[t] \in Int /\ c[t] = Cardinality(Carriers(outputs, t))
    OBVIOUS
  <2>1. Carriers(outputs, t) \in SUBSET places /\ \A i \in Carriers(outputs, t) : g[i] = 1
    BY DEF Carriers
  <2>2. IsFiniteSet(Carriers(outputs, t)) /\ Cardinality(Carriers(outputs, t)) \in Nat
    BY CarriersAreFinite DEF Valued
  <2>3. c[t] = Cardinality(Carriers(outputs, t))
    OBVIOUS
  <2> QED
    BY <2>1, <2>2, <2>3
<1>5. \A T \in SUBSET FeeTokens : \A t \in FeeTokens \ T :
        Of(T \cup {t}) = Of(T) \cup Carriers(outputs, t) /\ Of(T) \cap Carriers(outputs, t) = {}
  BY DEF Carriers, Valued
<1>6. \A T \in SUBSET FeeTokens : IsFiniteSet(Of(T)) /\ Of(T) \in SUBSET places
  BY <1>1, FS_Subset
<1>7. Of({}) = {}
  OBVIOUS
<1>8. SumFunction(f) = SumFunctionOnSet(f, places)
  BY Zenon DEF SumFunction
<1>9. \A i \in places \ Of(FeeTokens) : g[i] = 0
  OBVIOUS
<1>10. FeeCarriers(outputs) = SumFunctionOnSet(c, FeeTokens)
  BY DEF FeeCarriers
<1> HIDE DEF f, g, c, Of, places
<1>11. {} \in K
  BY <1>7, SumEmpty
<1>12. ASSUME NEW T \in SUBSET FeeTokens, NEW t \in FeeTokens \ T, T \in K PROVE T \cup {t} \in K
  <2>1. IsFiniteSet(T) /\ \A x \in T \cup {t} : c[x] \in Int
    BY <1>2, <1>4, FS_Subset
  <2>2. SumFunctionOnSet(c, T \cup {t}) = c[t] + SumFunctionOnSet(c, T)
    BY <2>1, SumAdd
  <2> DEFINE more == Carriers(outputs, t)
  <2>3. /\ Of(T \cup {t}) = Of(T) \cup more /\ Of(T) \cap more = {}
    BY <1>5
  <2>4. IsFiniteSet(Of(T)) /\ IsFiniteSet(more) /\ \A i \in Of(T) \cup more : g[i] \in Int
    BY <1>3, <1>4, <1>6
  <2>5. SumFunctionOnSet(g, more) = Cardinality(more) /\ Cardinality(more) = c[t]
    BY <1>4, SumOnes
  <2> HIDE DEF more
  <2>6. SumFunctionOnSet(g, Of(T) \cup more) = SumFunctionOnSet(g, Of(T)) + SumFunctionOnSet(g, more)
    BY <2>3, <2>4, SumDisjoint
  <2>7. SumFunctionOnSet(c, T) \in Int
    BY <2>1, SumInt
  <2>8. SumFunctionOnSet(g, Of(T \cup {t})) = SumFunctionOnSet(c, T \cup {t})
    <3>1. SumFunctionOnSet(g, Of(T)) = SumFunctionOnSet(c, T)
      BY <1>12
    <3>2. SumFunctionOnSet(g, Of(T \cup {t})) = SumFunctionOnSet(g, Of(T)) + c[t]
      BY <2>3, <2>5, <2>6
    <3>3. c[t] \in Int
      BY <1>4
    <3> HIDE DEF K
    <3> QED
      BY <2>2, <2>7, <3>1, <3>2, <3>3
  <2> QED
    BY <2>8
<1>13. \A T \in SUBSET FeeTokens : T \in K
  <2> HIDE DEF K
  <2> QED
    BY <1>2, <1>11, <1>12, SubsetInduction
<1>14. SumFunctionOnSet(g, Of(FeeTokens)) = SumFunctionOnSet(c, FeeTokens)
  BY <1>13
<1>15. SumFunctionOnSet(g, places) = SumFunctionOnSet(g, Of(FeeTokens))
  BY <1>1, <1>3, <1>6, <1>9, SumZeros
<1>16. SumFunctionOnSet(f, places) = FeePerOutput * SumFunctionOnSet(g, places)
  BY <1>1, <1>2, <1>3, SumScaled
<1> QED
  BY <1>8, <1>10, <1>14, <1>15, <1>16 DEF f, places

\* What a send becomes with more inputs and a change.
LEMMA WithChangeIs ==
  ASSUME NEW s, s = [ok |-> TRUE, inputs |-> s.inputs, outputs |-> s.outputs, fee |-> s.fee],
         Listing(s.outputs), s.fee \in Nat, NEW t, NEW change \in Nat, NEW chosen
  PROVE  WithChange([s EXCEPT !.inputs = @ \o chosen], t, change)
         = [ok |-> TRUE, inputs |-> s.inputs \o chosen, outputs |-> s.outputs \o Change(t, change),
            fee |-> s.fee + IF change = 0 THEN 0 ELSE FeeOf(t)]
<1> DEFINE more == [s EXCEPT !.inputs = @ \o chosen]
           inputs == s.inputs \o chosen
<1>1. more = [ok |-> TRUE, inputs |-> inputs, outputs |-> s.outputs, fee |-> s.fee]
  <2> DEFINE a == s.inputs
             b == s.outputs
             c == s.fee
  <2>1. s = [ok |-> TRUE, inputs |-> a, outputs |-> b, fee |-> c]
    OBVIOUS
  <2>2. more = [s EXCEPT !.inputs = inputs]
    OBVIOUS
  <2> HIDE DEF a, b, c, more, inputs
  <2>3. more = [ok |-> TRUE, inputs |-> inputs, outputs |-> b, fee |-> c]
    BY <2>1, <2>2
  <2> QED
    BY <2>3 DEF b, c
<1>2. s.outputs \o <<>> = s.outputs
  BY DEF Listing
<1> HIDE DEF more, inputs
<1>3. CASE change = 0
  <2>1. WithChange(more, t, change) = more
    BY <1>3 DEF WithChange
  <2>2. Change(t, change) = <<>>
    BY <1>3 DEF Change, Positive
  <2>3. s.fee + 0 = s.fee
    OBVIOUS
  <2>4. WithChange(more, t, change)
        = [ok |-> TRUE, inputs |-> inputs, outputs |-> s.outputs \o Change(t, change),
           fee |-> s.fee + IF change = 0 THEN 0 ELSE FeeOf(t)]
    BY <1>1, <1>2, <1>3, <2>1, <2>2, <2>3
  <2> QED
    BY <2>4 DEF more, inputs
<1>4. CASE change # 0
  <2>1. WithChange(more, t, change) = [more EXCEPT !.outputs = @ \o Change(t, change), !.fee = @ + FeeOf(t)]
    BY <1>4 DEF WithChange
  <2>2. WithChange(more, t, change)
        = [ok |-> TRUE, inputs |-> inputs, outputs |-> s.outputs \o Change(t, change), fee |-> s.fee + FeeOf(t)]
    BY <1>1, <2>1
  <2>3. WithChange(more, t, change)
        = [ok |-> TRUE, inputs |-> inputs, outputs |-> s.outputs \o Change(t, change),
           fee |-> s.fee + IF change = 0 THEN 0 ELSE FeeOf(t)]
    BY <1>4, <2>2
  <2> QED
    BY <2>3 DEF more, inputs
<1> QED
  BY <1>3, <1>4

\* selectUtxosToUse() covers what is asked.
LEMMA SelectStep ==
  ASSUME NEW available \in SUBSET KnownUtxos, NEW s, NEW t \in Tokens \cup {HTR}, NEW amount \in Nat,
         Threw(s) \/ (Sending(s, available) /\ Available(Range(s.inputs), t) = {})
  PROVE  CoversOne(s, SelectUtxosToUse(s, t, amount, available), t, amount, available)
<1> DEFINE picked == SelectUtxos(ServiceUtxos(t, available), amount)
           next == SelectUtxosToUse(s, t, amount, available)
<1>0. next = IF ~s.ok THEN s
             ELSE IF ~picked.ok THEN Thrown(s)
             ELSE WithChange([s EXCEPT !.inputs = @ \o picked.utxos], t, picked.change)
  BY Zenon DEF SelectUtxosToUse
<1> HIDE DEF next
<1>1. CASE Threw(s)
  <2>1. next = s
    BY <1>0, <1>1 DEF Threw
  <2>2. CoversOne(s, next, t, amount, available)
    BY <1>1, <2>1 DEF CoversOne
  <2> QED
    BY <2>2 DEF next
<1>2. CASE Sending(s, available) /\ Available(Range(s.inputs), t) = {}
  <2>1. /\ s = [ok |-> TRUE, inputs |-> s.inputs, outputs |-> s.outputs, fee |-> s.fee]
        /\ Listing(s.outputs) /\ s.fee \in Nat
    BY <1>2 DEF Sending
  <2>2. s.ok = TRUE /\ Threw(Thrown(s))
    BY <1>2, SendingGoesOn
  <2>3. CASE picked = Failed
    <3>1. picked.ok = FALSE
      BY <2>3 DEF Failed
    <3> HIDE DEF picked
    <3>2. next = Thrown(s)
      BY <1>0, <2>2, <3>1
    <3>3. Threw(next)
      BY <2>2, <3>2
    <3>4. CoversOne(s, next, t, amount, available)
      BY <3>3 DEF CoversOne
    <3> QED
      BY <3>4 DEF next
  <2>4. CASE picked # Failed
    <3>1. /\ picked.ok = TRUE /\ Distinct(picked.utxos, Available(available, t))
          /\ picked.change \in Nat /\ Total(Range(picked.utxos)) = amount + picked.change
      BY <2>4, PickedFields
    <3> HIDE DEF picked
    <3> DEFINE chosen == picked.utxos
               change == picked.change
    <3>2. next = WithChange([s EXCEPT !.inputs = @ \o chosen], t, change)
      BY <1>0, <2>2, <3>1
    <3>3. /\ Distinct(chosen, Available(available, t))
          /\ change \in Nat /\ Total(Range(chosen)) = amount + change
      BY <3>1
    <3> HIDE DEF chosen, change
    <3>4. next = [ok |-> TRUE, inputs |-> s.inputs \o chosen, outputs |-> s.outputs \o Change(t, change),
                  fee |-> s.fee + IF change = 0 THEN 0 ELSE FeeOf(t)]
      <4>1. change \in Nat
        BY <3>3
      <4>2. WithChange([s EXCEPT !.inputs = @ \o chosen], t, change)
            = [ok |-> TRUE, inputs |-> s.inputs \o chosen, outputs |-> s.outputs \o Change(t, change),
               fee |-> s.fee + IF change = 0 THEN 0 ELSE FeeOf(t)]
        BY ONLY <2>1, <4>1, WithChangeIs, Zenon
      <4> QED
        BY <3>2, <4>2
    <3>5. Available(Range(s.inputs), t) = {} /\ Total({}) = 0
      BY <1>2, SumEmpty DEF Total
    <3>6. Total(Range(chosen)) + Total(Available(Range(s.inputs), t)) = amount + change
      BY <3>3, <3>5
    <3>7. Sending(s, available)
      BY <1>2
    <3>8. CoversOne(s, next, t, amount, available)
      BY <3>3, <3>4, <3>5, <3>6, <3>7, SendExtended
    <3> QED
      BY <3>8 DEF next
  <2> QED
    BY <2>3, <2>4
<1> QED
  BY <1>1, <1>2

\* validateUtxos() finds that the inputs of a token cover what is asked.
LEMMA ValidateStep ==
  ASSUME NEW available \in SUBSET KnownUtxos, NEW s, NEW t \in Tokens \cup {HTR}, NEW amount \in Nat,
         NEW given, Distinct(given, KnownUtxos),
         Threw(s) \/ (Sending(s, available) /\ Available(Range(s.inputs), t) = Available(Range(given), t))
  PROVE  CoversOne(s, ValidateUtxos(s, t, amount, given), t, amount, available)
<1> DEFINE next == ValidateUtxos(s, t, amount, given)
           worth == Received(given, t)
           short == t \notin InputTokens(given) \/ worth < amount
<1>0. next = IF ~s.ok THEN s ELSE IF short THEN Thrown(s) ELSE WithChange(s, t, worth - amount)
  BY DEF ValidateUtxos
<1>1. worth = Total(Available(Range(given), t))
  BY ReceivedIs
<1>2. worth \in Nat
  <2>1. Available(Range(given), t) \in SUBSET KnownUtxos
    BY DEF Available, Distinct, Range
  <2> QED
    BY <1>1, <2>1, TotalType
<1> HIDE DEF next, worth, short
<1>3. CASE Threw(s)
  <2>1. next = s
    BY <1>0, <1>3 DEF Threw
  <2>2. CoversOne(s, next, t, amount, available)
    BY <1>3, <2>1 DEF CoversOne
  <2> QED
    BY <2>2 DEF next
<1>4. CASE Sending(s, available) /\ Available(Range(s.inputs), t) = Available(Range(given), t)
  <2>1. /\ s = [ok |-> TRUE, inputs |-> s.inputs, outputs |-> s.outputs, fee |-> s.fee]
        /\ Listing(s.outputs) /\ s.fee \in Nat /\ Distinct(s.inputs, available) /\ s.inputs \in Seq(available)
    BY <1>4 DEF Sending, Distinct
  <2>2. s.ok = TRUE /\ Threw(Thrown(s))
    BY <1>4, SendingGoesOn
  <2>3. CASE short
    <3>1. next = Thrown(s)
      BY <1>0, <2>2, <2>3
    <3>2. Threw(next)
      BY <2>2, <3>1
    <3>3. CoversOne(s, next, t, amount, available)
      BY <3>2 DEF CoversOne
    <3> QED
      BY <3>3 DEF next
  <2>4. CASE ~short
    <3> DEFINE change == worth - amount
               none == <<>>
    <3>1. change \in Nat /\ worth = amount + change
      BY <1>2, <2>4 DEF short
    <3>2. next = WithChange(s, t, change)
      BY <1>0, <2>2, <2>4
    <3>3. s.inputs \o none = s.inputs
      BY <2>1
    <3>4. none = <<>> /\ Distinct(none, Available(available, t)) /\ Range(none) = {}
      BY DistinctNone
    <3> HIDE DEF change, none
    <3>5. [s EXCEPT !.inputs = @ \o none] = s
      BY <2>1, <3>3
    <3>6. next = WithChange([s EXCEPT !.inputs = @ \o none], t, change)
      BY <3>2, <3>5
    <3>7. next = [ok |-> TRUE, inputs |-> s.inputs \o none, outputs |-> s.outputs \o Change(t, change),
                  fee |-> s.fee + IF change = 0 THEN 0 ELSE FeeOf(t)]
      BY <2>1, <3>1, <3>6, WithChangeIs, Zenon
    <3>8. Total({}) = 0
      BY SumEmpty DEF Total
    <3>9. Total(Range(none)) + Total(Available(Range(s.inputs), t)) = amount + change
      <4>1. Total(Range(none)) = 0
        BY <3>4, <3>8
      <4>2. Total(Available(Range(s.inputs), t)) = worth
        BY <1>1, <1>4
      <4> QED
        BY <1>2, <3>1, <4>1, <4>2
    <3>10. Sending(s, available)
      BY <1>4
    <3>11. CoversOne(s, next, t, amount, available)
      BY <3>1, <3>4, <3>7, <3>9, <3>10, SendExtended
    <3> QED
      BY <3>11 DEF next
  <2> QED
    BY <2>3, <2>4
<1> QED
  BY <1>3, <1>4

\* What a send is once its tokens of a set are covered, if it does not throw.
Closes(s, next, T, available) ==
    \/ Threw(next)
    \/ /\ Sending(next, available) /\ ~Threw(s)
       /\ \A k : k \notin T => /\ Funds(next.outputs, k) = Funds(s.outputs, k)
                               /\ Cardinality(Carriers(next.outputs, k)) = Cardinality(Carriers(s.outputs, k))
                               /\ Available(Range(next.inputs), k) = Available(Range(s.inputs), k)
       /\ \A k \in T : /\ Total(Available(Range(next.inputs), k)) = Funds(next.outputs, k)
                       /\ Cardinality(Carriers(next.outputs, k)) >= Cardinality(Carriers(s.outputs, k))

\* One token after the other.
LEMMA ClosesOneMore ==
  ASSUME NEW available \in SUBSET KnownUtxos, NEW s, NEW prev, NEW next, NEW T, NEW t, t \notin T, NEW amount \in Nat,
         Threw(s) \/ (Sending(s, available) /\ Funds(s.outputs, t) = amount),
         Closes(s, prev, T, available), CoversOne(prev, next, t, amount, available)
  PROVE  Closes(s, next, T \cup {t}, available)
<1>1. CASE Threw(next)
  BY <1>1 DEF Closes
<1>2. CASE ~Threw(next)
  <2>1. /\ Sending(next, available) /\ ~Threw(prev)
        /\ \A k : k # t => /\ Funds(next.outputs, k) = Funds(prev.outputs, k)
                           /\ Cardinality(Carriers(next.outputs, k)) = Cardinality(Carriers(prev.outputs, k))
                           /\ Available(Range(next.inputs), k) = Available(Range(prev.inputs), k)
        /\ Total(Available(Range(next.inputs), t)) + Funds(prev.outputs, t) = amount + Funds(next.outputs, t)
        /\ Cardinality(Carriers(next.outputs, t)) >= Cardinality(Carriers(prev.outputs, t))
    BY <1>2 DEF CoversOne
  <2>2. /\ Sending(prev, available) /\ ~Threw(s)
        /\ \A k : k \notin T => /\ Funds(prev.outputs, k) = Funds(s.outputs, k)
                                /\ Cardinality(Carriers(prev.outputs, k)) = Cardinality(Carriers(s.outputs, k))
                                /\ Available(Range(prev.inputs), k) = Available(Range(s.inputs), k)
        /\ \A k \in T : /\ Total(Available(Range(prev.inputs), k)) = Funds(prev.outputs, k)
                        /\ Cardinality(Carriers(prev.outputs, k)) >= Cardinality(Carriers(s.outputs, k))
    BY <2>1 DEF Closes
  <2>3. Funds(prev.outputs, t) = amount
    BY <2>2
  <2>4. Distinct(next.inputs, available) /\ Listing(next.outputs)
    BY <2>1 DEF Sending
  <2>5. Total(Available(Range(next.inputs), t)) = Funds(next.outputs, t)
    <3>1. Funds(next.outputs, t) \in Nat
      BY <2>4, FundsType
    <3>2. Total(Available(Range(next.inputs), t)) \in Int
      <4>1. Available(Range(next.inputs), t) \in SUBSET KnownUtxos
        BY <2>4 DEF Available, Distinct, Range
      <4> QED
        BY <4>1, TotalType
    <3> QED
      BY <2>1, <2>3, <3>1, <3>2
  <2> QED
    BY <2>1, <2>2, <2>5 DEF Closes
<1> QED
  BY <1>1, <1>2

\* The tokens of a set, one after the other in the order of the tokens.
LEMMA ClosesAll ==
  ASSUME NEW available \in SUBSET KnownUtxos, NEW s, NEW tokens, NEW amount \in [Tokens -> Nat],
         Threw(s) \/ (Sending(s, available) /\ \A t \in tokens \cap Tokens : Funds(s.outputs, t) = amount[t]),
         NEW upTo, upTo[0] = s,
         \A i \in 1..Len(TokenOrder) :
            IF TokenOrder[i] \notin tokens THEN upTo[i] = upTo[i - 1]
            ELSE Threw(upTo[i - 1])
                 \/ (/\ Sending(upTo[i - 1], available) /\ ~Threw(s)
                     /\ Available(Range(upTo[i - 1].inputs), TokenOrder[i]) = Available(Range(s.inputs), TokenOrder[i]))
                 => CoversOne(upTo[i - 1], upTo[i], TokenOrder[i], amount[TokenOrder[i]], available)
  PROVE  Closes(s, upTo[Len(TokenOrder)], tokens \cap Tokens, available)
<1> DEFINE n == Len(TokenOrder)
           Done(i) == {TokenOrder[j] : j \in 1..i} \cap tokens
           N == {i \in Nat : i <= n => Closes(s, upTo[i], Done(i), available)}
<1>1. /\ n \in Nat /\ \A i \in 1..n : TokenOrder[i] \in Tokens
      /\ \A i, j \in 1..n : TokenOrder[i] = TokenOrder[j] => i = j
      /\ Tokens = {TokenOrder[j] : j \in 1..n}
  <2>1. TokenOrder \in Seq(Tokens) /\ IsInjective(TokenOrder)
    BY TxFundsAssumption
  <2>2. n \in Nat /\ DOMAIN TokenOrder = 1..n /\ \A i \in 1..n : TokenOrder[i] \in Tokens
    BY <2>1
  <2>3. \A i, j \in 1..n : TokenOrder[i] = TokenOrder[j] => i = j
    BY <2>1, <2>2 DEF IsInjective
  <2>4. Tokens = {TokenOrder[j] : j \in 1..n}
    BY <2>2 DEF Tokens, Range
  <2> QED
    BY <2>2, <2>3, <2>4
<1>2. 0 \in N
  <2>1. Done(0) = {}
    OBVIOUS
  <2>2. Closes(s, s, {}, available)
    BY DEF Closes, Sending
  <2> HIDE DEF Done
  <2>3. Closes(s, upTo[0], Done(0), available)
    BY <2>1, <2>2
  <2> QED
    BY <2>3
<1>3. ASSUME NEW i \in Nat, i \in N PROVE i + 1 \in N
  <2> SUFFICES ASSUME i + 1 <= n PROVE Closes(s, upTo[i + 1], Done(i + 1), available)
    OBVIOUS
  <2> DEFINE t == TokenOrder[i + 1]
  <2>1. i + 1 \in 1..n /\ (i + 1) - 1 = i /\ i <= n
    BY <1>1
  <2>2. Closes(s, upTo[i], Done(i), available)
    BY <1>3, <2>1
  <2>3. t \in Tokens
    BY <1>1, <2>1
  <2>4. CASE t \notin tokens
    <3>1. Done(i + 1) = Done(i)
      <4>1. 1..i + 1 = 1..i \cup {i + 1}
        BY <1>3
      <4> QED
        BY <2>4, <4>1
    <3>2. upTo[i + 1] = upTo[i]
      BY <2>1, <2>4
    <3> HIDE DEF Done
    <3> QED
      BY <2>2, <3>1, <3>2
  <2>5. CASE t \in tokens
    <3>1. Done(i + 1) = Done(i) \cup {t}
      <4>1. 1..i + 1 = 1..i \cup {i + 1}
        BY <1>3
      <4> QED
        BY <2>5, <4>1
    <3>2. t \notin Done(i)
      <4>1. \A j \in 1..i : j \in 1..n /\ j # i + 1
        BY <1>1, <2>1
      <4> QED
        BY <1>1, <2>1, <4>1
    <3> DEFINE prev == upTo[i]
               next == upTo[i + 1]
    <3>3. Threw(prev) \/ (Sending(prev, available) /\ ~Threw(s) /\ Available(Range(prev.inputs), t) = Available(Range(s.inputs), t))
          => CoversOne(prev, next, t, amount[t], available)
      BY <2>1, <2>5
    <3> HIDE DEF Done, prev, next, t
    <3>4. Threw(prev) \/ (Sending(prev, available) /\ ~Threw(s) /\ Available(Range(prev.inputs), t) = Available(Range(s.inputs), t))
      BY <2>2, <3>2 DEF Closes, prev
    <3>5. CoversOne(prev, next, t, amount[t], available)
      BY <3>3, <3>4
    <3>6. amount[t] \in Nat
      BY <2>3
    <3>7. Threw(s) \/ (Sending(s, available) /\ Funds(s.outputs, t) = amount[t])
      BY <2>3, <2>5
    <3>8. Closes(s, prev, Done(i), available)
      BY <2>2 DEF prev
    <3>9. Closes(s, next, Done(i) \cup {t}, available)
      BY <3>2, <3>5, <3>6, <3>7, <3>8, ClosesOneMore
    <3> QED
      BY <3>1, <3>9 DEF next
  <2> QED
    BY <2>4, <2>5
<1>4. Nat \subseteq N
  <2> HIDE DEF N
  <2> QED
    BY <1>2, <1>3, NatSet
<1>5. Closes(s, upTo[n], Done(n), available)
  <2>1. n \in N /\ n <= n
    <3> HIDE DEF N
    <3> QED
      BY <1>1, <1>4
  <2> HIDE DEF Done, n
  <2> QED
    BY <2>1
<1>6. Done(n) = tokens \cap Tokens
  BY <1>1
<1> QED
  BY <1>5, <1>6

\* What SelectForTokens iterates over.
Selects(upTo, send, asked, tokens, available) ==
    upTo = [i \in 0..Len(TokenOrder) |->
              IF i = 0 THEN send
              ELSE IF TokenOrder[i] \notin tokens THEN upTo[i - 1]
              ELSE SelectUtxosToUse(upTo[i - 1], TokenOrder[i], Funds(asked, TokenOrder[i]), available)]

LEMMA SelectsExists ==
  ASSUME NEW send, NEW asked, NEW tokens, NEW available
  PROVE  \E upTo : Selects(upTo, send, asked, tokens, available)
<1> DEFINE n == Len(TokenOrder)
           After(g, i) == IF i = 0 THEN send
                          ELSE IF TokenOrder[i] \notin tokens THEN g[i - 1]
                          ELSE SelectUtxosToUse(g[i - 1], TokenOrder[i], Funds(asked, TokenOrder[i]), available)
           Reached(g, k) == \A i \in 0..n : i <= k => g[i] = After(g, i)
           N == {k \in Nat : \E g : Reached(g, k)}
<1>1. n \in Nat
  BY TxFundsAssumption
<1>2. 0 \in N
  <2> DEFINE g == [i \in 0..n |-> send]
  <2>1. Reached(g, 0)
    <3> SUFFICES ASSUME NEW i \in 0..n, i <= 0 PROVE g[i] = After(g, i)
      OBVIOUS
    <3>1. i = 0
      BY <1>1
    <3> QED
      BY <3>1
  <2> QED
    BY <2>1
<1>3. ASSUME NEW k \in Nat, k \in N PROVE k + 1 \in N
  <2>1. PICK g : Reached(g, k)
    BY <1>3
  <2> DEFINE h == [i \in 0..n |-> IF i <= k THEN g[i] ELSE After(g, i)]
  <2>2. ASSUME NEW i \in 0..n, i <= k + 1 PROVE h[i] = After(h, i)
    <3>1. h[i] = After(g, i)
      <4>1. CASE i <= k
        <5>1. h[i] = g[i]
          BY <4>1
        <5> QED
          BY <2>1, <4>1, <5>1
      <4>2. CASE ~(i <= k)
        BY <4>2
      <4> QED
        BY <4>1, <4>2
    <3>2. CASE i = 0
      BY <3>1, <3>2
    <3>3. CASE i # 0
      <4>1. i - 1 \in 0..n /\ i - 1 <= k
        BY <1>1, <2>2, <3>3
      <4>2. h[i - 1] = g[i - 1]
        BY <4>1
      <4> HIDE DEF h
      <4> QED
        BY <3>1, <3>3, <4>2
    <3> QED
      BY <3>2, <3>3
  <2> HIDE DEF h, After
  <2>3. Reached(h, k + 1)
    BY <2>2
  <2> QED
    BY <2>3
<1>4. Nat \subseteq N
  <2> HIDE DEF N
  <2> QED
    BY <1>2, <1>3, NatSet
<1>5. PICK g : Reached(g, n)
  <2>1. n \in N
    <3> HIDE DEF N
    <3> QED
      BY <1>1, <1>4
  <2> QED
    BY <2>1
<1> DEFINE it == [i \in 0..n |-> g[i]]
<1>6. ASSUME NEW i \in 0..n PROVE it[i] = After(it, i)
  <2>1. i <= n /\ it[i] = g[i]
    BY <1>1
  <2>2. it[i] = After(g, i)
    BY <1>5, <2>1
  <2>3. CASE i = 0
    BY <2>2, <2>3
  <2>4. CASE i # 0
    <3>1. i - 1 \in 0..n
      BY <1>1, <2>4
    <3>2. it[i - 1] = g[i - 1]
      BY <3>1
    <3> HIDE DEF it
    <3> QED
      BY <2>2, <2>4, <3>2
  <2> QED
    BY <2>3, <2>4
<1>7. it = [i \in 0..n |-> it[i]]
  OBVIOUS
<1> HIDE DEF it, After
<1>8. it = [i \in 0..n |-> After(it, i)]
  BY <1>6, <1>7
<1>9. Selects(it, send, asked, tokens, available)
  BY <1>8 DEF Selects, After
<1> QED
  BY <1>9

LEMMA SelectsUnfolds ==
  ASSUME NEW send, NEW asked, NEW tokens, NEW available
  PROVE  \E upTo : /\ SelectForTokens(send, asked, tokens, available) = upTo[Len(TokenOrder)]
                   /\ upTo[0] = send
                   /\ \A i \in 1..Len(TokenOrder) :
                        upTo[i] = IF TokenOrder[i] \notin tokens THEN upTo[i - 1]
                                  ELSE SelectUtxosToUse(upTo[i - 1], TokenOrder[i], Funds(asked, TokenOrder[i]), available)
<1> DEFINE n == Len(TokenOrder)
           it == CHOOSE upTo : Selects(upTo, send, asked, tokens, available)
<1>1. SelectForTokens(send, asked, tokens, available) = it[n]
  BY Zenon DEF SelectForTokens, Selects
<1>2. Selects(it, send, asked, tokens, available)
  BY SelectsExists
<1> HIDE DEF it
<1>3. n \in Nat
  BY TxFundsAssumption
<1>4. \A i \in 0..n :
        it[i] = IF i = 0 THEN send ELSE IF TokenOrder[i] \notin tokens THEN it[i - 1]
                ELSE SelectUtxosToUse(it[i - 1], TokenOrder[i], Funds(asked, TokenOrder[i]), available)
  BY <1>2 DEF Selects
<1>5. 0 \in 0..n /\ \A i \in 1..n : i \in 0..n /\ i # 0
  BY <1>3
<1>6. it[0] = send
  BY <1>4, <1>5
<1>7. \A i \in 1..n : it[i] = IF TokenOrder[i] \notin tokens THEN it[i - 1]
                ELSE SelectUtxosToUse(it[i - 1], TokenOrder[i], Funds(asked, TokenOrder[i]), available)
  BY <1>4, <1>5
<1> QED
  BY <1>1, <1>6, <1>7

\* What ValidateForTokens iterates over.
Validates(upTo, send, asked, tokens, given) ==
    upTo = [i \in 0..Len(TokenOrder) |->
              IF i = 0 THEN send
              ELSE IF TokenOrder[i] \notin tokens THEN upTo[i - 1]
              ELSE ValidateUtxos(upTo[i - 1], TokenOrder[i], Funds(asked, TokenOrder[i]), given)]

LEMMA ValidatesExists ==
  ASSUME NEW send, NEW asked, NEW tokens, NEW given
  PROVE  \E upTo : Validates(upTo, send, asked, tokens, given)
<1> DEFINE n == Len(TokenOrder)
           After(g, i) == IF i = 0 THEN send
                          ELSE IF TokenOrder[i] \notin tokens THEN g[i - 1]
                          ELSE ValidateUtxos(g[i - 1], TokenOrder[i], Funds(asked, TokenOrder[i]), given)
           Reached(g, k) == \A i \in 0..n : i <= k => g[i] = After(g, i)
           N == {k \in Nat : \E g : Reached(g, k)}
<1>1. n \in Nat
  BY TxFundsAssumption
<1>2. 0 \in N
  <2> DEFINE g == [i \in 0..n |-> send]
  <2>1. Reached(g, 0)
    <3> SUFFICES ASSUME NEW i \in 0..n, i <= 0 PROVE g[i] = After(g, i)
      OBVIOUS
    <3>1. i = 0
      BY <1>1
    <3> QED
      BY <3>1
  <2> QED
    BY <2>1
<1>3. ASSUME NEW k \in Nat, k \in N PROVE k + 1 \in N
  <2>1. PICK g : Reached(g, k)
    BY <1>3
  <2> DEFINE h == [i \in 0..n |-> IF i <= k THEN g[i] ELSE After(g, i)]
  <2>2. ASSUME NEW i \in 0..n, i <= k + 1 PROVE h[i] = After(h, i)
    <3>1. h[i] = After(g, i)
      <4>1. CASE i <= k
        <5>1. h[i] = g[i]
          BY <4>1
        <5> QED
          BY <2>1, <4>1, <5>1
      <4>2. CASE ~(i <= k)
        BY <4>2
      <4> QED
        BY <4>1, <4>2
    <3>2. CASE i = 0
      BY <3>1, <3>2
    <3>3. CASE i # 0
      <4>1. i - 1 \in 0..n /\ i - 1 <= k
        BY <1>1, <2>2, <3>3
      <4>2. h[i - 1] = g[i - 1]
        BY <4>1
      <4> HIDE DEF h
      <4> QED
        BY <3>1, <3>3, <4>2
    <3> QED
      BY <3>2, <3>3
  <2> HIDE DEF h, After
  <2>3. Reached(h, k + 1)
    BY <2>2
  <2> QED
    BY <2>3
<1>4. Nat \subseteq N
  <2> HIDE DEF N
  <2> QED
    BY <1>2, <1>3, NatSet
<1>5. PICK g : Reached(g, n)
  <2>1. n \in N
    <3> HIDE DEF N
    <3> QED
      BY <1>1, <1>4
  <2> QED
    BY <2>1
<1> DEFINE it == [i \in 0..n |-> g[i]]
<1>6. ASSUME NEW i \in 0..n PROVE it[i] = After(it, i)
  <2>1. i <= n /\ it[i] = g[i]
    BY <1>1
  <2>2. it[i] = After(g, i)
    BY <1>5, <2>1
  <2>3. CASE i = 0
    BY <2>2, <2>3
  <2>4. CASE i # 0
    <3>1. i - 1 \in 0..n
      BY <1>1, <2>4
    <3>2. it[i - 1] = g[i - 1]
      BY <3>1
    <3> HIDE DEF it
    <3> QED
      BY <2>2, <2>4, <3>2
  <2> QED
    BY <2>3, <2>4
<1>7. it = [i \in 0..n |-> it[i]]
  OBVIOUS
<1> HIDE DEF it, After
<1>8. it = [i \in 0..n |-> After(it, i)]
  BY <1>6, <1>7
<1>9. Validates(it, send, asked, tokens, given)
  BY <1>8 DEF Validates, After
<1> QED
  BY <1>9

LEMMA ValidatesUnfolds ==
  ASSUME NEW send, NEW asked, NEW tokens, NEW given
  PROVE  \E upTo : /\ ValidateForTokens(send, asked, tokens, given) = upTo[Len(TokenOrder)]
                   /\ upTo[0] = send
                   /\ \A i \in 1..Len(TokenOrder) :
                        upTo[i] = IF TokenOrder[i] \notin tokens THEN upTo[i - 1]
                                  ELSE ValidateUtxos(upTo[i - 1], TokenOrder[i], Funds(asked, TokenOrder[i]), given)
<1> DEFINE n == Len(TokenOrder)
           it == CHOOSE upTo : Validates(upTo, send, asked, tokens, given)
<1>1. ValidateForTokens(send, asked, tokens, given) = it[n]
  BY Zenon DEF ValidateForTokens, Validates
<1>2. Validates(it, send, asked, tokens, given)
  BY ValidatesExists
<1> HIDE DEF it
<1>3. n \in Nat
  BY TxFundsAssumption
<1>4. \A i \in 0..n :
        it[i] = IF i = 0 THEN send ELSE IF TokenOrder[i] \notin tokens THEN it[i - 1]
                ELSE ValidateUtxos(it[i - 1], TokenOrder[i], Funds(asked, TokenOrder[i]), given)
  BY <1>2 DEF Validates
<1>5. 0 \in 0..n /\ \A i \in 1..n : i \in 0..n /\ i # 0
  BY <1>3
<1>6. it[0] = send
  BY <1>4, <1>5
<1>7. \A i \in 1..n : it[i] = IF TokenOrder[i] \notin tokens THEN it[i - 1]
                ELSE ValidateUtxos(it[i - 1], TokenOrder[i], Funds(asked, TokenOrder[i]), given)
  BY <1>4, <1>5
<1> QED
  BY <1>1, <1>6, <1>7

\* The tokens that are selected for are covered.
LEMMA SelectForTokensCloses ==
  ASSUME NEW available \in SUBSET KnownUtxos, NEW s, NEW asked, Listing(asked), NEW tokens,
         Threw(s) \/ (/\ Sending(s, available)
                         /\ \A t \in tokens \cap Tokens : /\ Funds(s.outputs, t) = Funds(asked, t)
                                                          /\ Available(Range(s.inputs), t) = {})
  PROVE  Closes(s, SelectForTokens(s, asked, tokens, available), tokens \cap Tokens, available)
<1> DEFINE amount == [t \in Tokens |-> Funds(asked, t)]
<1>1. PICK upTo : /\ SelectForTokens(s, asked, tokens, available) = upTo[Len(TokenOrder)]
                  /\ upTo[0] = s
                  /\ \A i \in 1..Len(TokenOrder) :
                        upTo[i] = IF TokenOrder[i] \notin tokens THEN upTo[i - 1]
                                  ELSE SelectUtxosToUse(upTo[i - 1], TokenOrder[i], Funds(asked, TokenOrder[i]), available)
  BY SelectsUnfolds
<1>2. amount \in [Tokens -> Nat]
  BY FundsType
<1>3. Threw(s) \/ (Sending(s, available) /\ \A t \in tokens \cap Tokens : Funds(s.outputs, t) = amount[t])
  OBVIOUS
<1>4. ASSUME NEW i \in 1..Len(TokenOrder)
      PROVE  IF TokenOrder[i] \notin tokens THEN upTo[i] = upTo[i - 1]
             ELSE Threw(upTo[i - 1])
                  \/ (/\ Sending(upTo[i - 1], available) /\ ~Threw(s)
                      /\ Available(Range(upTo[i - 1].inputs), TokenOrder[i]) = Available(Range(s.inputs), TokenOrder[i]))
                  => CoversOne(upTo[i - 1], upTo[i], TokenOrder[i], amount[TokenOrder[i]], available)
  <2> DEFINE prev == upTo[i - 1]
             next == upTo[i]
             t == TokenOrder[i]
  <2>1. t \in Tokens
    BY TxFundsAssumption
  <2>2. next = IF t \notin tokens THEN prev ELSE SelectUtxosToUse(prev, t, Funds(asked, t), available)
    BY <1>1
  <2>3. amount[t] = Funds(asked, t) /\ Funds(asked, t) \in Nat
    BY <2>1, FundsType
  <2> HIDE DEF prev, next, t, amount
  <2>4. CASE t \notin tokens
    BY <2>2, <2>4 DEF prev, next, t
  <2>5. CASE t \in tokens
    <3> SUFFICES ASSUME Threw(prev)
                        \/ (Sending(prev, available) /\ ~Threw(s) /\ Available(Range(prev.inputs), t) = Available(Range(s.inputs), t))
                 PROVE  CoversOne(prev, next, t, amount[t], available)
      BY <2>5 DEF prev, next, t
    <3>2. Threw(prev) \/ (Sending(prev, available) /\ Available(Range(prev.inputs), t) = {})
      BY <2>1, <2>5
    <3>3. CoversOne(prev, SelectUtxosToUse(prev, t, Funds(asked, t), available), t, Funds(asked, t), available)
      BY <2>1, <2>3, <3>2, SelectStep
    <3> QED
      BY <2>2, <2>3, <2>5, <3>3
  <2> QED
    BY <2>4, <2>5
<1> HIDE DEF amount
<1>5. Closes(s, upTo[Len(TokenOrder)], tokens \cap Tokens, available)
  BY <1>1, <1>2, <1>3, <1>4, ClosesAll
<1> QED
  BY <1>1, <1>5

\* The tokens that are validated are covered.
LEMMA ValidateForTokensCloses ==
  ASSUME NEW available \in SUBSET KnownUtxos, NEW s, NEW asked, Listing(asked), NEW tokens,
         NEW given, Distinct(given, KnownUtxos),
         Threw(s) \/ (/\ Sending(s, available)
                         /\ \A t \in tokens \cap Tokens : /\ Funds(s.outputs, t) = Funds(asked, t)
                                                          /\ Available(Range(s.inputs), t) = Available(Range(given), t))
  PROVE  Closes(s, ValidateForTokens(s, asked, tokens, given), tokens \cap Tokens, available)
<1> DEFINE amount == [t \in Tokens |-> Funds(asked, t)]
<1>1. PICK upTo : /\ ValidateForTokens(s, asked, tokens, given) = upTo[Len(TokenOrder)]
                  /\ upTo[0] = s
                  /\ \A i \in 1..Len(TokenOrder) :
                        upTo[i] = IF TokenOrder[i] \notin tokens THEN upTo[i - 1]
                                  ELSE ValidateUtxos(upTo[i - 1], TokenOrder[i], Funds(asked, TokenOrder[i]), given)
  BY ValidatesUnfolds
<1>2. amount \in [Tokens -> Nat]
  BY FundsType
<1>3. Threw(s) \/ (Sending(s, available) /\ \A t \in tokens \cap Tokens : Funds(s.outputs, t) = amount[t])
  OBVIOUS
<1>4. ASSUME NEW i \in 1..Len(TokenOrder)
      PROVE  IF TokenOrder[i] \notin tokens THEN upTo[i] = upTo[i - 1]
             ELSE Threw(upTo[i - 1])
                  \/ (/\ Sending(upTo[i - 1], available) /\ ~Threw(s)
                      /\ Available(Range(upTo[i - 1].inputs), TokenOrder[i]) = Available(Range(s.inputs), TokenOrder[i]))
                  => CoversOne(upTo[i - 1], upTo[i], TokenOrder[i], amount[TokenOrder[i]], available)
  <2> DEFINE prev == upTo[i - 1]
             next == upTo[i]
             t == TokenOrder[i]
  <2>1. t \in Tokens
    BY TxFundsAssumption
  <2>2. next = IF t \notin tokens THEN prev ELSE ValidateUtxos(prev, t, Funds(asked, t), given)
    BY <1>1
  <2>3. amount[t] = Funds(asked, t) /\ Funds(asked, t) \in Nat
    BY <2>1, FundsType
  <2> HIDE DEF prev, next, t, amount
  <2>4. CASE t \notin tokens
    BY <2>2, <2>4 DEF prev, next, t
  <2>5. CASE t \in tokens
    <3> SUFFICES ASSUME Threw(prev)
                        \/ (Sending(prev, available) /\ ~Threw(s) /\ Available(Range(prev.inputs), t) = Available(Range(s.inputs), t))
                 PROVE  CoversOne(prev, next, t, amount[t], available)
      BY <2>5 DEF prev, next, t
    <3>2. Threw(prev) \/ (Sending(prev, available) /\ Available(Range(prev.inputs), t) = Available(Range(given), t))
      BY <2>1, <2>5
    <3>3. CoversOne(prev, ValidateUtxos(prev, t, Funds(asked, t), given), t, Funds(asked, t), available)
      BY <2>1, <2>3, <3>2, ValidateStep
    <3> QED
      BY <2>2, <2>3, <2>5, <3>3
  <2> QED
    BY <2>4, <2>5
<1> HIDE DEF amount
<1>5. Closes(s, upTo[Len(TokenOrder)], tokens \cap Tokens, available)
  BY <1>1, <1>2, <1>3, <1>4, ClosesAll
<1> QED
  BY <1>1, <1>5

\* The custom tokens of a send are covered, and those that come in go out.
TokensCovered(s) ==
    \A k \in Tokens : /\ Total(Available(Range(s.inputs), k)) = Funds(s.outputs, k)
                      /\ Available(Range(s.inputs), k) = {} \/ Cardinality(Carriers(s.outputs, k)) > 0

\* A send that has its custom tokens, and one that has the native token too.
Ready(s, asked, given, available) ==
    \/ Threw(s)
    \/ /\ Sending(s, available) /\ TokensCovered(s)
       /\ Funds(s.outputs, HTR) = Funds(asked, HTR)
       /\ Available(Range(s.inputs), HTR) = Available(Range(given), HTR)
Settled(s, available) ==
    \/ Threw(s)
    \/ /\ Sending(s, available) /\ TokensCovered(s)
       /\ Total(Available(Range(s.inputs), HTR)) = Funds(s.outputs, HTR) + s.fee

LEMMA HtrIsApart == HTR \notin Tokens /\ HTR \notin FeeTokens
<1> QED
  BY TxFundsAssumption, TokensPayFees

LEMMA SettledWhenCovered ==
  ASSUME NEW available \in SUBSET KnownUtxos, NEW s, NEW asked, Listing(asked), NEW given, Ready(s, asked, given, available),
         NEW next, CoversOne(s, next, HTR, Funds(asked, HTR) + s.fee, available)
  PROVE  Settled(next, available)
<1>1. CASE Threw(next)
  BY <1>1 DEF Settled
<1>2. CASE ~Threw(next)
  <2> DEFINE amount == Funds(asked, HTR) + s.fee
  <2>1. /\ Sending(next, available) /\ ~Threw(s)
        /\ \A k : k # HTR => /\ Funds(next.outputs, k) = Funds(s.outputs, k)
                             /\ Cardinality(Carriers(next.outputs, k)) = Cardinality(Carriers(s.outputs, k))
                             /\ Available(Range(next.inputs), k) = Available(Range(s.inputs), k)
        /\ Total(Available(Range(next.inputs), HTR)) + Funds(s.outputs, HTR) = amount + Funds(next.outputs, HTR)
    BY <1>2 DEF CoversOne
  <2>2. Sending(s, available) /\ TokensCovered(s) /\ Funds(s.outputs, HTR) = Funds(asked, HTR)
    BY <2>1 DEF Ready
  <2>3. \A k \in FeeTokens : Cardinality(Carriers(next.outputs, k)) = Cardinality(Carriers(s.outputs, k))
    BY <2>1, HtrIsApart
  <2>4. FeeCarriers(next.outputs) = FeeCarriers(s.outputs)
    <3>1. [t \in FeeTokens |-> Cardinality(Carriers(next.outputs, t))] = [t \in FeeTokens |-> Cardinality(Carriers(s.outputs, t))]
      BY <2>3
    <3> QED
      BY <3>1 DEF FeeCarriers
  <2>5. next.fee = s.fee /\ s.fee \in Nat /\ Listing(next.outputs) /\ Distinct(next.inputs, available)
    BY <2>1, <2>2, <2>4 DEF Sending
  <2>6. Funds(next.outputs, HTR) \in Nat /\ Funds(asked, HTR) \in Nat
    BY <2>5, FundsType
  <2>7. Total(Available(Range(next.inputs), HTR)) \in Nat
    <3>1. Available(Range(next.inputs), HTR) \in SUBSET KnownUtxos
      BY <2>5 DEF Available, Distinct, Range
    <3> QED
      BY <3>1, TotalType
  <2>8. Total(Available(Range(next.inputs), HTR)) = Funds(next.outputs, HTR) + next.fee
    BY <2>1, <2>2, <2>5, <2>6, <2>7
  <2>9. TokensCovered(next)
    <3>1. \A k \in Tokens : k # HTR
      BY HtrIsApart
    <3> QED
      BY <2>1, <2>2, <3>1 DEF TokensCovered
  <2> QED
    BY <2>1, <2>8, <2>9 DEF Settled
<1> QED
  BY <1>1, <1>2

\* Nothing of the native token is asked for, and nothing comes in.
LEMMA SettledWhenNothing ==
  ASSUME NEW available, NEW s, NEW asked, Listing(asked), NEW given, Ready(s, asked, given, available),
         Threw(s) \/ Funds(asked, HTR) + s.fee = 0, Available(Range(given), HTR) = {}
  PROVE  Settled(s, available)
<1>1. CASE Threw(s)
  BY <1>1 DEF Settled
<1>2. CASE ~Threw(s)
  <2>1. /\ Sending(s, available) /\ TokensCovered(s) /\ Funds(s.outputs, HTR) = Funds(asked, HTR)
        /\ Available(Range(s.inputs), HTR) = {} /\ Funds(asked, HTR) + s.fee = 0
    BY <1>2 DEF Ready
  <2>2. Total({}) = 0
    BY SumEmpty DEF Total
  <2>3. Total(Available(Range(s.inputs), HTR)) = Funds(s.outputs, HTR) + s.fee
    BY <2>1, <2>2
  <2> QED
    BY <2>1, <2>3 DEF Settled
<1> QED
  BY <1>1, <1>2

LEMMA SettledIsCorrect ==
  ASSUME NEW available \in SUBSET KnownUtxos, NEW s, Settled(s, available), NEW asked
  PROVE  ServiceTx(s, asked) = Failed \/ Correct(ServiceTx(s, asked), available)
<1> DEFINE x == [Tx(s.inputs, s.outputs, s.fee) EXCEPT !.tokens = TokensOf(asked) \ {HTR}]
<1>0. ServiceTx(s, asked) = IF ~s.ok THEN Failed ELSE x
  BY DEF ServiceTx
<1>1. CASE Threw(s)
  BY <1>0, <1>1 DEF Threw
<1>2. CASE ~Threw(s)
  <2>1. /\ Sending(s, available) /\ TokensCovered(s)
        /\ Total(Available(Range(s.inputs), HTR)) = Funds(s.outputs, HTR) + s.fee
    BY <1>2 DEF Settled
  <2>2. /\ x.inputs = s.inputs /\ x.outputs = s.outputs /\ x.fee = s.fee /\ x.shielded = <<>> /\ x.actions = <<>>
    BY DEF Tx
  <2>3. s.ok = TRUE /\ Distinct(s.inputs, available) /\ Listing(s.outputs) /\ s.fee \in Nat
    BY <2>1, SendingGoesOn DEF Sending
  <2>4. ServiceTx(s, asked) = x
    BY <1>0, <2>3
  <2> HIDE DEF x
  <2>5. Distinct(s.inputs, KnownUtxos)
    BY <2>3, DistinctPart
  <2>6. Simple(x)
    BY <2>2, <2>3, <2>5, FundsOfNone DEF Simple
  <2>7. \A t : /\ Excess(x, t) = Funds(x.outputs, t) + Funds(x.shielded, t) - Total(Available(Range(x.inputs), t))
               /\ Funds(x.shielded, t) = 0 /\ Funds(x.outputs, t) \in Nat
    BY <2>2, <2>3, <2>6, SimpleExcess, NothingShielded, FundsType
  <2>8. \A t \in Tokens : Excess(x, t) = 0
    <3> SUFFICES ASSUME NEW t \in Tokens PROVE Excess(x, t) = 0
      OBVIOUS
    <3>1. Total(Available(Range(x.inputs), t)) = Funds(x.outputs, t)
      BY <2>1, <2>2 DEF TokensCovered
    <3> QED
      BY <2>7, <3>1
  <2>9. Excess(x, HTR) + x.fee = 0
    <3>1. Total(Available(Range(x.inputs), HTR)) = Funds(x.outputs, HTR) + x.fee /\ x.fee \in Nat
      BY <2>1, <2>2, <2>3
    <3> QED
      BY <2>7, <3>1
  <2>10. Balanced(x)
    BY <2>8, <2>9, BalancedWhenMoved
  <2>11. [t \in FeeTokens |-> Due(x, t)] = [t \in FeeTokens |-> Cardinality(Carriers(s.outputs, t))]
    <3> SUFFICES ASSUME NEW t \in FeeTokens PROVE Due(x, t) = Cardinality(Carriers(s.outputs, t))
      OBVIOUS
    <3>1. t \in Tokens
      BY TokensPayFees
    <3>2. Available(Range(s.inputs), t) = {} \/ Cardinality(Carriers(s.outputs, t)) > 0
      BY <2>1, <3>1 DEF TokensCovered
    <3>3. Cardinality(Carriers(s.outputs, t)) \in Nat
      BY <2>3, FundsType
    <3> QED
      BY <2>2, <3>2, <3>3 DEF Due
  <2>12. SumFunction([t \in Tokens |-> FeeDue(x, t)]) = FeePerOutput * FeeCarriers(s.outputs)
    BY <2>6, <2>11, FeeIsDue DEF FeeCarriers
  <2>13. x.fee = FeePerOutput * FeeCarriers(s.outputs) /\ ShieldedFees(x.shielded) = 0
    BY <2>1, <2>2, NothingShielded DEF Sending
  <2>14. FeeIsRight(x)
    BY <2>2, <2>3, <2>12, <2>13 DEF FeeIsRight
  <2> QED
    BY <2>2, <2>3, <2>4, <2>6, <2>10, <2>14 DEF Correct
<1> QED
  BY <1>1, <1>2

LEMMA FieldsOfSend ==
  ASSUME NEW a, NEW b, NEW c, NEW d, NEW s, s = [ok |-> TRUE, inputs |-> a, outputs |-> b, fee |-> c],
         NEW e, e = [s EXCEPT !.ok = TRUE], NEW f, f = [s EXCEPT !.fee = d]
  PROVE  e = s /\ f = [ok |-> TRUE, inputs |-> a, outputs |-> b, fee |-> d]
<1>1. e = [ok |-> TRUE, inputs |-> a, outputs |-> b, fee |-> c]
  OBVIOUS
<1>2. f = [ok |-> TRUE, inputs |-> a, outputs |-> b, fee |-> d]
  OBVIOUS
<1> QED
  BY <1>1, <1>2

\* The object of a send once its outputs are charged.
LEMMA ChargedSend ==
  ASSUME NEW outputs, Valued(outputs), NEW given
  PROVE  Charge([Send(given, outputs, 0) EXCEPT !.ok = TRUE])
         = [ok |-> TRUE, inputs |-> given, outputs |-> outputs, fee |-> FeePerOutput * FeeCarriers(outputs)]
<1> DEFINE more == SumFunction([i \in DOMAIN outputs |-> FeeOf(outputs[i].token)])
           s == [ok |-> TRUE, inputs |-> given, outputs |-> outputs, fee |-> 0]
           e == [Send(given, outputs, 0) EXCEPT !.ok = TRUE]
           f == [s EXCEPT !.fee = more]
<1>1. s = [ok |-> TRUE, inputs |-> given, outputs |-> outputs, fee |-> 0]
  OBVIOUS
<1>2. e = [s EXCEPT !.ok = TRUE]
  BY DEF Send
<1>3. f = [s EXCEPT !.fee = more]
  OBVIOUS
<1>4. s.outputs = outputs /\ s.fee = 0
  OBVIOUS
<1>5. more = FeePerOutput * FeeCarriers(outputs) /\ FeePerOutput * FeeCarriers(outputs) \in Nat
  <2>1. FeeCarriers(outputs) \in Nat /\ FeePerOutput \in Nat
    BY FeeCarriersType, TokensPayFees DEF Valued
  <2>2. FeePerOutput * FeeCarriers(outputs) \in Nat
    BY <2>1
  <2> QED
    BY <2>2, ChargedIs
<1>6. Charge(s) = [s EXCEPT !.fee = 0 + more]
  BY <1>4 DEF Charge
<1> HIDE DEF s, e, f, more
<1>7. e = s /\ f = [ok |-> TRUE, inputs |-> given, outputs |-> outputs, fee |-> more]
  BY <1>1, <1>2, <1>3, FieldsOfSend
<1>8. 0 + more = more
  BY <1>5
<1>9. Charge(s) = f
  BY <1>3, <1>6, <1>8
<1> QED
  BY <1>5, <1>7, <1>9 DEF e

LEMMA ClosesJoin ==
  ASSUME NEW available, NEW s, NEW mid, NEW next, NEW S, NEW T, S \cap T = {},
         Closes(s, mid, S, available), Closes(mid, next, T, available)
  PROVE  Closes(s, next, S \cup T, available)
<1>1. CASE Threw(next)
  BY <1>1 DEF Closes
<1>2. CASE ~Threw(next)
  <2>1. /\ Sending(next, available) /\ ~Threw(mid)
        /\ \A k : k \notin T => /\ Funds(next.outputs, k) = Funds(mid.outputs, k)
                                /\ Cardinality(Carriers(next.outputs, k)) = Cardinality(Carriers(mid.outputs, k))
                                /\ Available(Range(next.inputs), k) = Available(Range(mid.inputs), k)
        /\ \A k \in T : /\ Total(Available(Range(next.inputs), k)) = Funds(next.outputs, k)
                        /\ Cardinality(Carriers(next.outputs, k)) >= Cardinality(Carriers(mid.outputs, k))
    BY <1>2 DEF Closes
  <2>2. /\ ~Threw(s)
        /\ \A k : k \notin S => /\ Funds(mid.outputs, k) = Funds(s.outputs, k)
                                /\ Cardinality(Carriers(mid.outputs, k)) = Cardinality(Carriers(s.outputs, k))
                                /\ Available(Range(mid.inputs), k) = Available(Range(s.inputs), k)
        /\ \A k \in S : /\ Total(Available(Range(mid.inputs), k)) = Funds(mid.outputs, k)
                        /\ Cardinality(Carriers(mid.outputs, k)) >= Cardinality(Carriers(s.outputs, k))
    BY <2>1 DEF Closes
  <2>3. \A k \in S : k \notin T
    OBVIOUS
  <2>4. \A k \in S \cup T : /\ Total(Available(Range(next.inputs), k)) = Funds(next.outputs, k)
                            /\ Cardinality(Carriers(next.outputs, k)) >= Cardinality(Carriers(s.outputs, k))
    BY <2>1, <2>2, <2>3
  <2> QED
    BY <2>1, <2>2, <2>4 DEF Closes
<1> QED
  BY <1>1, <1>2

\* What was charged is ready when the tokens of its outputs are covered.
LEMMA ReadyWhenClosed ==
  ASSUME NEW available \in SUBSET KnownUtxos, NEW asked, Valued(asked), NEW given,
         \A k \in Tokens \ TokensOf(asked) : Available(Range(given), k) = {},
         NEW fee, NEW charged, charged = [ok |-> TRUE, inputs |-> given, outputs |-> asked, fee |-> fee],
         NEW s, Closes(charged, s, TokensOf(asked) \cap Tokens, available)
  PROVE  Ready(s, asked, given, available)
<1>1. CASE Threw(s)
  BY <1>1 DEF Ready
<1>2. CASE ~Threw(s)
  <2> DEFINE T == TokensOf(asked) \cap Tokens
  <2>0. charged.inputs = given /\ charged.outputs = asked
    OBVIOUS
  <2>1. /\ Sending(s, available)
        /\ \A k : k \notin T => /\ Funds(s.outputs, k) = Funds(asked, k)
                                /\ Cardinality(Carriers(s.outputs, k)) = Cardinality(Carriers(asked, k))
                                /\ Available(Range(s.inputs), k) = Available(Range(given), k)
        /\ \A k \in T : /\ Total(Available(Range(s.inputs), k)) = Funds(s.outputs, k)
                        /\ Cardinality(Carriers(s.outputs, k)) >= Cardinality(Carriers(asked, k))
    BY <1>2, <2>0 DEF Closes
  <2>2. \A k \in TokensOf(asked) : Carriers(asked, k) # {}
    BY DEF TokensOf, Carriers, Valued
  <2>3. \A k : k \notin TokensOf(asked) => Carriers(asked, k) = {}
    BY DEF TokensOf, Carriers
  <2>4. \A k : IsFiniteSet(Carriers(asked, k)) /\ Cardinality(Carriers(asked, k)) \in Nat
    BY CarriersAreFinite DEF Valued
  <2>5. \A k : Listing(s.outputs) /\ Cardinality(Carriers(s.outputs, k)) \in Nat
    BY <2>1, FundsType DEF Sending
  <2>6. TokensCovered(s)
    <3> SUFFICES ASSUME NEW k \in Tokens
                 PROVE  /\ Total(Available(Range(s.inputs), k)) = Funds(s.outputs, k)
                        /\ Available(Range(s.inputs), k) = {} \/ Cardinality(Carriers(s.outputs, k)) > 0
      BY DEF TokensCovered
    <3>1. CASE k \in TokensOf(asked)
      <4>1. Cardinality(Carriers(asked, k)) # 0
        BY <2>2, <2>4, <3>1, FS_EmptySet
      <4> QED
        BY <2>1, <2>4, <2>5, <3>1, <4>1
    <3>2. CASE k \notin TokensOf(asked)
      <4>1. Available(Range(s.inputs), k) = {} /\ Total({}) = 0
        BY <2>1, <3>2, SumEmpty DEF Total
      <4>2. Funds(asked, k) = 0
        <5> DEFINE f == [i \in Carriers(asked, k) |-> asked[i].value]
        <5>1. DOMAIN f = {}
          BY <2>3, <3>2
        <5> HIDE DEF f
        <5>2. SumFunction(f) = 0
          BY <5>1, SumEmpty, Zenon DEF SumFunction
        <5> QED
          BY <5>2 DEF Funds, f
      <4> QED
        BY <2>1, <3>2, <4>1, <4>2
    <3> QED
      BY <3>1, <3>2
  <2>7. HTR \notin T
    BY HtrIsApart
  <2> QED
    BY <2>1, <2>6, <2>7 DEF Ready
<1> QED
  BY <1>1, <1>2

\* The inputs the user named are available, and different.
LEMMA KnownInputs ==
  ASSUME NEW available \in SUBSET KnownUtxos, NEW given \in Seq(KnownUtxos), IsInjective(given),
         given = <<>> \/ ~Unknown(given, available)
  PROVE  Distinct(given, KnownUtxos) /\ Distinct(given, available)
<1>1. Distinct(given, KnownUtxos)
  BY DEF IsInjective, Distinct
<1>2. CASE given = <<>>
  BY <1>1, <1>2, DistinctNone
<1>3. CASE ~Unknown(given, available)
  <2>1. ASSUME NEW i \in 1..Len(given) PROVE given[i] \in available
    <3>1. PICK t \in Tokens \cup {HTR} : given[i] \in Range(ServiceUtxos(t, available))
      BY <1>3 DEF Unknown
    <3>2. Distinct(ServiceUtxos(t, available), Available(available, t))
      BY ServiceUtxosListed
    <3>3. Range(ServiceUtxos(t, available)) \in SUBSET Available(available, t)
      BY <3>2, DistinctEnumerates
    <3> QED
      BY <3>1, <3>3 DEF Available
  <2>2. given \in Seq(available)
    BY <2>1
  <2> QED
    BY <1>1, <2>2 DEF Distinct
<1> QED
  BY <1>2, <1>3

\* What a thrown send is.
LEMMA ThrownFails ==
  ASSUME NEW a, NEW b, NEW c, NEW ok, NEW s, s = [ok |-> ok, inputs |-> a, outputs |-> b, fee |-> c]
  PROVE  Threw(Thrown(s))
<1> QED
  BY DEF Threw, Thrown

LEMMA ThrownAgain ==
  ASSUME NEW s, Threw(s)
  PROVE  Threw(Thrown(s))
<1> QED
  BY DEF Threw, Thrown

\* What a send of the facade starts with.
LEMMA ChargedIsSending ==
  ASSUME NEW available \in SUBSET KnownUtxos, NEW outputs, Valued(outputs), NEW given, Distinct(given, available),
         NEW s, s = [ok |-> TRUE, inputs |-> given, outputs |-> outputs, fee |-> FeePerOutput * FeeCarriers(outputs)]
  PROVE  Sending(s, available) /\ ~Threw(s) /\ s.inputs = given /\ s.outputs = outputs
<1> DEFINE fee == FeePerOutput * FeeCarriers(outputs)
<1>1. FeeCarriers(outputs) \in Nat /\ FeePerOutput \in Nat
  BY FeeCarriersType, TokensPayFees DEF Valued
<1>2. fee \in Nat /\ fee = FeePerOutput * FeeCarriers(outputs)
  BY <1>1
<1> HIDE DEF fee
<1>3. s = [ok |-> TRUE, inputs |-> given, outputs |-> outputs, fee |-> fee]
  BY <1>2
<1>4. s.ok = TRUE /\ s.inputs = given /\ s.outputs = outputs /\ s.fee = fee
  BY <1>3
<1> QED
  BY <1>2, <1>3, <1>4 DEF Sending, Valued, Threw

\* prepareTx() of the wallet service facade.
LEMMA ServiceSendIsCorrect ==
  ASSUME NEW available \in SUBSET KnownUtxos, NEW outputs, Valued(outputs),
         \A i \in DOMAIN outputs : outputs[i].token \in Tokens \cup {HTR},
         NEW given \in Seq(KnownUtxos), IsInjective(given)
  PROVE  LET x == ServiceTx(PrepareServiceTx(Send(given, outputs, 0), available), outputs)
         IN  x = Failed \/ Correct(x, available)
<1> DEFINE send == Send(given, outputs, 0)
           tokens == TokensOf(outputs) \ {HTR}
           charged == Charge([send EXCEPT !.ok = TRUE])
           chosen == SelectForTokens(charged, outputs, tokens, available)
           checked == ValidateForTokens(charged, outputs, tokens, given)
           NeededHtr(s) == Funds(outputs, HTR) + s.fee
           ChooseHtr(s) ==
               IF NeededHtr(s) = 0 THEN s ELSE SelectUtxosToUse(s, HTR, NeededHtr(s), available)
           CheckHtr(s) ==
               IF NeededHtr(s) # 0 THEN ValidateUtxos(s, HTR, NeededHtr(s), given)
               ELSE IF HTR \in InputTokens(given) THEN Thrown(s) ELSE s
           next == PrepareServiceTx(send, available)
<1>1. send.inputs = given /\ send.outputs = outputs
  BY DEF Send
<1>2. charged = [ok |-> TRUE, inputs |-> given, outputs |-> outputs, fee |-> FeePerOutput * FeeCarriers(outputs)]
  BY ChargedSend
<1> HIDE DEF send
<1>3. next = IF given = <<>> THEN ChooseHtr(chosen)
             ELSE IF Unknown(given, available) \/ (InputTokens(given) \ {HTR}) \ tokens # {}
             THEN Thrown(charged)
             ELSE CheckHtr(checked)
  BY <1>1 DEF PrepareServiceTx
<1> HIDE DEF next, charged
<1>4. /\ Listing(outputs) /\ Funds(outputs, HTR) \in Nat /\ HTR \notin Tokens
      /\ tokens \cap Tokens = TokensOf(outputs) \cap Tokens
  BY FundsType, HtrIsApart DEF Valued
<1>5. Settled(next, available)
  <2>1. CASE given = <<>>
    <3>1. Distinct(given, available) /\ Range(given) = {} /\ \A k : Available(Range(given), k) = {}
      BY <2>1, DistinctNone DEF Available
    <3>2. Sending(charged, available) /\ ~Threw(charged) /\ charged.inputs = given /\ charged.outputs = outputs
      BY <1>2, <3>1, ChargedIsSending
    <3>3. Closes(charged, chosen, tokens \cap Tokens, available)
      BY <1>4, <3>1, <3>2, SelectForTokensCloses
    <3> HIDE DEF chosen
    <3>4. Ready(chosen, outputs, given, available)
      BY <1>2, <1>4, <3>1, <3>3, ReadyWhenClosed
    <3>5. next = ChooseHtr(chosen)
      BY <1>3, <2>1
    <3>6. Threw(chosen) \/ (/\ Sending(chosen, available) /\ chosen.fee \in Nat
                               /\ Available(Range(chosen.inputs), HTR) = {})
      BY <3>1, <3>4 DEF Ready, Sending
    <3>7. CASE NeededHtr(chosen) = 0
      <4>1. next = chosen
        BY <3>5, <3>7
      <4>2. Available(Range(given), HTR) = {}
        BY <3>1
      <4> QED
        BY <1>4, <3>4, <3>7, <4>1, <4>2, SettledWhenNothing
    <3>8. CASE NeededHtr(chosen) # 0
      <4> DEFINE amount == NeededHtr(chosen)
      <4>1. next = SelectUtxosToUse(chosen, HTR, amount, available)
        BY <3>5, <3>8
      <4>2. CASE Threw(chosen)
        <5>1. next = chosen
          BY <4>1, <4>2 DEF SelectUtxosToUse, Threw
        <5> QED
          BY <4>2, <5>1 DEF Settled
      <4>3. CASE ~Threw(chosen)
        <5>1. amount \in Nat /\ amount = Funds(outputs, HTR) + chosen.fee
          <6>1. chosen.fee \in Nat
            BY <3>6, <4>3
          <6>2. amount = Funds(outputs, HTR) + chosen.fee
            OBVIOUS
          <6> HIDE DEF amount
          <6> QED
            BY <1>4, <6>1, <6>2
        <5> HIDE DEF amount
        <5>2. CoversOne(chosen, next, HTR, amount, available)
          BY <3>6, <4>1, <5>1, SelectStep
        <5> QED
          BY <1>4, <3>4, <5>1, <5>2, SettledWhenCovered
      <4> QED
        BY <4>2, <4>3
    <3> QED
      BY <3>7, <3>8
  <2>2. CASE given # <<>> /\ (Unknown(given, available) \/ (InputTokens(given) \ {HTR}) \ tokens # {})
    <3>1. next = Thrown(charged)
      BY <1>3, <2>2
    <3>2. Threw(next)
      BY <1>2, <3>1, ThrownFails
    <3> QED
      BY <3>2 DEF Settled
  <2>3. CASE given # <<>> /\ ~(Unknown(given, available) \/ (InputTokens(given) \ {HTR}) \ tokens # {})
    <3>1. Distinct(given, available) /\ Distinct(given, KnownUtxos)
      BY <2>3, KnownInputs
    <3>2. Sending(charged, available) /\ ~Threw(charged) /\ charged.inputs = given /\ charged.outputs = outputs
      BY <1>2, <3>1, ChargedIsSending
    <3>3. Closes(charged, checked, tokens \cap Tokens, available)
      BY <1>4, <3>1, <3>2, ValidateForTokensCloses
    <3> HIDE DEF checked
    <3>4. \A k : k \notin InputTokens(given) => Available(Range(given), k) = {}
      BY DEF InputTokens, Available, Range
    <3>5. \A k \in Tokens \ TokensOf(outputs) : Available(Range(given), k) = {}
      BY <1>4, <2>3, <3>4
    <3>6. Ready(checked, outputs, given, available)
      BY <1>2, <1>4, <3>3, <3>5, ReadyWhenClosed
    <3>7. next = CheckHtr(checked)
      BY <1>3, <2>3
    <3>8. Threw(checked) \/ (/\ Sending(checked, available) /\ checked.fee \in Nat
                                /\ Available(Range(checked.inputs), HTR) = Available(Range(given), HTR))
      BY <3>6 DEF Ready, Sending
    <3>9. CASE NeededHtr(checked) = 0
      <4>1. CASE HTR \in InputTokens(given)
        <5>1. next = Thrown(checked)
          BY <3>7, <3>9, <4>1
        <5>2. Threw(next)
          <6>1. Threw(Thrown(checked))
            BY <3>8, SendingGoesOn, ThrownAgain
          <6> QED
            BY <5>1, <6>1
        <5> QED
          BY <5>2 DEF Settled
      <4>2. CASE HTR \notin InputTokens(given)
        <5>1. next = checked
          BY <3>7, <3>9, <4>2
        <5>2. Available(Range(given), HTR) = {}
          BY <3>4, <4>2
        <5> QED
          BY <1>4, <3>6, <3>9, <5>1, <5>2, SettledWhenNothing
      <4> QED
        BY <4>1, <4>2
    <3>10. CASE NeededHtr(checked) # 0
      <4> DEFINE amount == NeededHtr(checked)
      <4>1. next = ValidateUtxos(checked, HTR, amount, given)
        BY <3>7, <3>10
      <4>2. CASE Threw(checked)
        <5>1. next = checked
          BY <4>1, <4>2 DEF ValidateUtxos, Threw
        <5> QED
          BY <4>2, <5>1 DEF Settled
      <4>3. CASE ~Threw(checked)
        <5>1. amount \in Nat /\ amount = Funds(outputs, HTR) + checked.fee
          <6>1. checked.fee \in Nat
            BY <3>8, <4>3
          <6>2. amount = Funds(outputs, HTR) + checked.fee
            OBVIOUS
          <6> HIDE DEF amount
          <6> QED
            BY <1>4, <6>1, <6>2
        <5> HIDE DEF amount
        <5>2. CoversOne(checked, next, HTR, amount, available)
          BY <3>1, <3>8, <4>1, <5>1, ValidateStep
        <5> QED
          BY <1>4, <3>6, <5>1, <5>2, SettledWhenCovered
      <4> QED
        BY <4>2, <4>3
    <3> QED
      BY <3>9, <3>10
  <2> QED
    BY <2>1, <2>2, <2>3
<1>6. ServiceTx(next, outputs) = Failed \/ Correct(ServiceTx(next, outputs), available)
  BY <1>5, SettledIsCorrect
<1> QED
  BY <1>6 DEF next, send

\* prepareTxData() of the wallet service facade.
LEMMA ServiceDataIsCorrect ==
  ASSUME NEW available \in SUBSET KnownUtxos, NEW outputs, Valued(outputs),
         \A i \in DOMAIN outputs : outputs[i].token \in Tokens \cup {HTR},
         NEW given \in Seq(KnownUtxos), IsInjective(given)
  PROVE  LET x == ServiceTx(PrepareServiceTxData(Send(given, outputs, 0), available), outputs)
         IN  x = Failed \/ Correct(x, available)
<1> DEFINE send == Send(given, outputs, 0)
           tokens == TokensOf(outputs)
           named == InputTokens(given)
           charged == Charge([send EXCEPT !.ok = TRUE])
           checked == ValidateForTokens(charged, outputs, named, given)
           chosen == SelectForTokens(checked, outputs, tokens \ named, available)
           CoverNative(s, needed) ==
               IF HTR \in named THEN ValidateUtxos(s, HTR, needed, given)
               ELSE IF HTR \in tokens \/ s.fee > 0 THEN SelectUtxosToUse(s, HTR, needed, available)
               ELSE s
           covered == CoverNative(chosen, Funds(outputs, HTR) + chosen.fee)
           Finish(s) == IF s.ok THEN s ELSE [Thrown(send) EXCEPT !.fee = s.fee]
           next == PrepareServiceTxData(send, available)
<1>1. send.inputs = given /\ send.outputs = outputs
  BY DEF Send
<1>2. charged = [ok |-> TRUE, inputs |-> given, outputs |-> outputs, fee |-> FeePerOutput * FeeCarriers(outputs)]
  BY ChargedSend
<1>3. \A s : Threw(s) => Threw(Finish(s))
  BY DEF Threw, Thrown, Send
<1>4. \A s : s.ok = TRUE => Finish(s) = s
  OBVIOUS
<1> HIDE DEF send
<1>5. next = IF Unknown(given, available) \/ named \ tokens # {} THEN Thrown(charged) ELSE Finish(covered)
  BY <1>1 DEF PrepareServiceTxData
<1> HIDE DEF next, charged, covered, Finish
<1>6. /\ Listing(outputs) /\ Funds(outputs, HTR) \in Nat /\ HTR \notin Tokens
  BY FundsType, HtrIsApart DEF Valued
<1>7. Settled(next, available)
  <2>1. CASE Unknown(given, available) \/ named \ tokens # {}
    <3>1. next = Thrown(charged)
      BY <1>5, <2>1
    <3>2. Threw(next)
      BY <1>2, <3>1, ThrownFails
    <3> QED
      BY <3>2 DEF Settled
  <2>2. CASE ~(Unknown(given, available) \/ named \ tokens # {})
    <3>1. Distinct(given, available) /\ Distinct(given, KnownUtxos)
      BY <2>2, KnownInputs
    <3>2. Sending(charged, available) /\ ~Threw(charged) /\ charged.inputs = given /\ charged.outputs = outputs
      BY <1>2, <3>1, ChargedIsSending
    <3>3. Closes(charged, checked, named \cap Tokens, available)
      BY <1>6, <3>1, <3>2, ValidateForTokensCloses
    <3> HIDE DEF checked
    <3>4. \A k : k \notin named => Available(Range(given), k) = {}
      BY DEF InputTokens, Available, Range
    <3>5. Threw(checked) \/ (/\ Sending(checked, available)
                             /\ \A t \in (tokens \ named) \cap Tokens : /\ Funds(checked.outputs, t) = Funds(outputs, t)
                                                                        /\ Available(Range(checked.inputs), t) = {})
      <4>1. CASE Threw(checked)
        BY <4>1
      <4>2. CASE ~Threw(checked)
        <5>1. /\ Sending(checked, available)
              /\ \A k : k \notin named \cap Tokens => /\ Funds(checked.outputs, k) = Funds(charged.outputs, k)
                                                      /\ Available(Range(checked.inputs), k) = Available(Range(charged.inputs), k)
          BY <3>3, <4>2 DEF Closes
        <5>2. \A t \in (tokens \ named) \cap Tokens : /\ Funds(checked.outputs, t) = Funds(outputs, t)
                                                      /\ Available(Range(checked.inputs), t) = {}
          BY <3>2, <3>4, <5>1
        <5> QED
          BY <5>1, <5>2
      <4> QED
        BY <4>1, <4>2
    <3>6. Closes(checked, chosen, (tokens \ named) \cap Tokens, available)
      BY <1>6, <3>5, SelectForTokensCloses
    <3> HIDE DEF chosen
    <3>7. Closes(charged, chosen, tokens \cap Tokens, available)
      <4> DEFINE S == named \cap Tokens
                 T == (tokens \ named) \cap Tokens
      <4>1. S \cup T = tokens \cap Tokens /\ S \cap T = {}
        BY <2>2
      <4>2. Closes(charged, checked, S, available) /\ Closes(checked, chosen, T, available)
        BY <3>3, <3>6
      <4> HIDE DEF S, T
      <4>3. Closes(charged, chosen, S \cup T, available)
        BY <4>1, <4>2, ClosesJoin
      <4> QED
        BY <4>1, <4>3
    <3>8. \A k \in Tokens \ tokens : Available(Range(given), k) = {}
      BY <2>2, <3>4
    <3>9. Ready(chosen, outputs, given, available)
      BY <1>2, <1>6, <3>7, <3>8, ReadyWhenClosed
    <3>10. Threw(chosen) \/ (/\ Sending(chosen, available) /\ chosen.fee \in Nat /\ chosen.ok = TRUE
                             /\ Available(Range(chosen.inputs), HTR) = Available(Range(given), HTR))
      BY <3>9, SendingGoesOn DEF Ready, Sending
    <3>11. Settled(covered, available)
      <4> DEFINE amount == Funds(outputs, HTR) + chosen.fee
      <4>1. covered = IF HTR \in named THEN ValidateUtxos(chosen, HTR, amount, given)
                      ELSE IF HTR \in tokens \/ chosen.fee > 0 THEN SelectUtxosToUse(chosen, HTR, amount, available)
                      ELSE chosen
        BY DEF covered
      <4>2. CASE Threw(chosen)
        <5>1. covered = chosen
          BY <4>1, <4>2 DEF SelectUtxosToUse, ValidateUtxos, Threw
        <5> QED
          BY <4>2, <5>1 DEF Settled
      <4>3. CASE ~Threw(chosen)
        <5>1. amount \in Nat /\ amount = Funds(outputs, HTR) + chosen.fee
          <6>1. chosen.fee \in Nat
            BY <3>10, <4>3
          <6>2. amount = Funds(outputs, HTR) + chosen.fee
            OBVIOUS
          <6> HIDE DEF amount
          <6> QED
            BY <1>6, <6>1, <6>2
        <5> HIDE DEF amount
        <5>2. CASE HTR \in named
          <6>1. CoversOne(chosen, covered, HTR, amount, available)
            BY <3>1, <3>10, <4>1, <4>3, <5>1, <5>2, ValidateStep
          <6> QED
            BY <1>6, <3>9, <5>1, <6>1, SettledWhenCovered
        <5>3. CASE HTR \notin named /\ (HTR \in tokens \/ chosen.fee > 0)
          <6>1. CoversOne(chosen, covered, HTR, amount, available)
            BY <3>4, <3>10, <4>1, <4>3, <5>1, <5>3, SelectStep
          <6> QED
            BY <1>6, <3>9, <5>1, <6>1, SettledWhenCovered
        <5>4. CASE HTR \notin named /\ HTR \notin tokens /\ ~(chosen.fee > 0)
          <6>1. covered = chosen
            BY <4>1, <5>4
          <6>2. Funds(outputs, HTR) = 0
            <7> DEFINE f == [i \in Carriers(outputs, HTR) |-> outputs[i].value]
            <7>1. DOMAIN f = {}
              BY <5>4 DEF TokensOf, Carriers
            <7> HIDE DEF f
            <7>2. SumFunction(f) = 0
              BY <7>1, SumEmpty, Zenon DEF SumFunction
            <7> QED
              BY <7>2 DEF Funds, f
          <6>3. chosen.fee = 0
            BY <3>10, <4>3, <5>4
          <6>4. Funds(outputs, HTR) + chosen.fee = 0
            BY <6>2, <6>3
          <6>5. Available(Range(given), HTR) = {}
            BY <3>4, <5>4
          <6> QED
            BY <1>6, <3>9, <6>1, <6>4, <6>5, SettledWhenNothing
        <5> QED
          BY <5>2, <5>3, <5>4
      <4> QED
        BY <4>2, <4>3
    <3>12. next = Finish(covered)
      BY <1>5, <2>2
    <3>13. CASE Threw(covered)
      <4>1. Threw(next)
        BY <1>3, <3>12, <3>13
      <4> QED
        BY <4>1 DEF Settled
    <3>14. CASE ~Threw(covered)
      <4>1. Sending(covered, available)
        BY <3>11, <3>14 DEF Settled
      <4>2. covered.ok = TRUE
        BY <4>1, SendingGoesOn
      <4> QED
        BY <1>4, <3>11, <3>12, <4>2
    <3> QED
      BY <3>13, <3>14
  <2> QED
    BY <2>1, <2>2
<1>8. ServiceTx(next, outputs) = Failed \/ Correct(ServiceTx(next, outputs), available)
  BY <1>7, SettledIsCorrect
<1> QED
  BY <1>8 DEF next, send

-----------------------------------------------------------------------------
(* The elements of a list at some of its places *)

ValuesOf(s) == [i \in DOMAIN s |-> s[i].value]

\* What the elements at some places carry of a token.
FundsAt(s, at, t) == SumFunctionOnSet(ValuesOf(s), at \cap Carriers(s, t))

\* The places, in their order.
Upwards(at) == {p \in at \X at : p[1] < p[2]}

LEMMA PlacesInOrder ==
  ASSUME NEW n \in Nat, NEW at \in SUBSET (1..n)
  PROVE  IsFiniteSet(at) /\ Enumerates(Sorted(at, Upwards(at)), at)
<1>1. IsFiniteSet(at)
  BY FirstNumbers, FS_Subset
<1>2. \A x, y \in at : <<x, y>> \in Upwards(at) <=> x < y
  BY DEF Upwards
<1>3. at \in SUBSET Nat
  OBVIOUS
<1>4. Orders(Upwards(at), at)
  BY <1>2, <1>3 DEF Orders
<1>5. Enumerates(Sorted(at, Upwards(at)), at)
  BY <1>1, <1>4, SortedIsInOrder
<1> QED
  BY <1>1, <1>5

LEMMA KeptIs ==
  ASSUME NEW s, Listing(s), NEW at \in SUBSET DOMAIN s
  PROVE  /\ Listing(Kept(s, at)) /\ IsFiniteSet(at)
         /\ \A i \in DOMAIN Kept(s, at) : \E j \in at : Kept(s, at)[i] = s[j]
         /\ \A t : Funds(Kept(s, at), t) = FundsAt(s, at, t)
<1> DEFINE order == Sorted(at, Upwards(at))
           n == Cardinality(at)
           r == Kept(s, at)
<1>1. Len(s) \in Nat /\ DOMAIN s = 1..Len(s) /\ at \in SUBSET (1..Len(s))
  BY DEF Listing
<1>2. IsFiniteSet(at) /\ Enumerates(order, at)
  BY <1>1, PlacesInOrder
<1>3. n \in Nat
  BY <1>2, FS_CardinalityType
<1>4. r = [i \in DOMAIN order |-> s[order[i]]]
  BY Zenon DEF Kept, Upwards
<1> HIDE DEF order, n, r
<1>5. /\ order \in [1..n -> at] /\ \A i, j \in 1..n : order[i] = order[j] => i = j
      /\ \A x \in at : \E i \in 1..n : order[i] = x
  BY <1>2 DEF Enumerates, n
<1>6. r = [i \in 1..n |-> s[order[i]]] /\ Len(r) = n /\ DOMAIN r = 1..n
  BY <1>3, <1>4, <1>5
<1>7. Listing(r)
  <2>1. r \in Seq(Range(r))
    BY <1>3, <1>6 DEF Range
  <2>2. \A i \in 1..n : r[i] = s[order[i]] /\ order[i] \in 1..Len(s)
    BY <1>1, <1>5, <1>6
  <2>3. \A i \in 1..n : r[i].value \in Nat
    BY <2>2 DEF Listing
  <2> QED
    BY <1>6, <2>1, <2>3 DEF Listing
<1>8. \A i \in DOMAIN r : \E j \in at : r[i] = s[j]
  BY <1>5, <1>6
<1>9. ASSUME NEW t PROVE Funds(r, t) = FundsAt(s, at, t)
  <2> DEFINE A == Carriers(r, t)
             B == at \cap Carriers(s, t)
             g == [i \in A |-> r[i].value]
             f == ValuesOf(s)
             b == [i \in A |-> order[i]]
  <2>1. A = {i \in 1..n : order[i] \in Carriers(s, t)}
    BY <1>1, <1>5, <1>6 DEF Carriers
  <2>2. B = {order[i] : i \in A}
    BY <1>5, <2>1
  <2>3. b \in Bijection(A, B)
    <3>1. \A i, j \in A : order[i] = order[j] => i = j
      BY <1>5, <2>1
    <3> HIDE DEF A, B
    <3> QED
      BY <2>2, <3>1 DEF Bijection, Injection, Surjection, IsInjective
  <2>4. IsFiniteSet(A)
    BY <1>7, CarriersAreFinite
  <2>5. \A i \in A : g[i] = f[b[i]]
    BY <1>1, <1>5, <1>6, <2>1 DEF ValuesOf
  <2>6. \A j \in B : f[j] \in Int
    BY <1>1 DEF ValuesOf, Listing
  <2>7. Funds(r, t) = SumFunctionOnSet(g, A)
    BY Zenon DEF Funds, SumFunction
  <2> HIDE DEF A, B, f, g, b
  <2>8. SumFunctionOnSet(g, A) = SumFunctionOnSet(f, B)
    BY <2>3, <2>4, <2>5, <2>6, SumReindex
  <2> QED
    BY <2>7, <2>8 DEF FundsAt, f, B
<1> QED
  BY <1>2, <1>7, <1>8, <1>9 DEF r

\* All of the places, and two parts of them.
LEMMA FundsAtAll ==
  ASSUME NEW s, Listing(s), NEW t
  PROVE  /\ Funds(s, t) = FundsAt(s, DOMAIN s, t)
         /\ \A at \in SUBSET DOMAIN s :
              FundsAt(s, at, t) + FundsAt(s, DOMAIN s \ at, t) = Funds(s, t) /\ FundsAt(s, at, t) \in Nat
<1> DEFINE C == Carriers(s, t)
           f == ValuesOf(s)
           g == [i \in C |-> s[i].value]
<1>1. IsFiniteSet(C) /\ C \in SUBSET DOMAIN s /\ DOMAIN s = 1..Len(s)
  BY CarriersAreFinite DEF Listing
<1>2. \A i \in C : g[i] = f[i] /\ f[i] \in Nat
  BY <1>1 DEF ValuesOf, Listing
<1>3. Funds(s, t) = SumFunctionOnSet(g, C)
  BY Zenon DEF Funds, SumFunction
<1>4. DOMAIN s \cap C = C
  BY <1>1
<1> HIDE DEF C, f, g
<1>5. SumFunctionOnSet(g, C) = SumFunctionOnSet(f, C)
  BY <1>1, <1>2, SumAgree
<1>6. Funds(s, t) = SumFunctionOnSet(f, C)
  BY <1>3, <1>5
<1>7. Funds(s, t) = FundsAt(s, DOMAIN s, t)
  BY <1>4, <1>6 DEF FundsAt, f, C
<1>8. ASSUME NEW at \in SUBSET DOMAIN s
      PROVE  FundsAt(s, at, t) + FundsAt(s, DOMAIN s \ at, t) = Funds(s, t) /\ FundsAt(s, at, t) \in Nat
  <2> DEFINE A == at \cap C
             B == (DOMAIN s \ at) \cap C
  <2>1. A \cup B = C /\ A \cap B = {}
    BY <1>1
  <2>2. IsFiniteSet(A) /\ IsFiniteSet(B)
    BY <1>1, FS_Subset
  <2>3. (\A i \in A \cup B : f[i] \in Int) /\ \A i \in A : f[i] \in Nat
    BY <1>2, <2>1
  <2>4. FundsAt(s, at, t) = SumFunctionOnSet(f, A) /\ FundsAt(s, DOMAIN s \ at, t) = SumFunctionOnSet(f, B)
    BY DEF FundsAt, f, C
  <2> HIDE DEF A, B
  <2>5. SumFunctionOnSet(f, A \cup B) = SumFunctionOnSet(f, A) + SumFunctionOnSet(f, B)
    BY <2>1, <2>2, <2>3, SumDisjoint
  <2>6. SumFunctionOnSet(f, A) \in Nat
    BY <2>2, <2>3, SumNat
  <2> QED
    BY <1>6, <2>1, <2>4, <2>5, <2>6
<1> QED
  BY <1>7, <1>8

\* The shielded outputs and the others are all of them.
LEMMA HiddenAndPublic ==
  ASSUME NEW s, Listing(s)
  PROVE  /\ Listing(Hidden(s)) /\ Listing(Public(s))
         /\ \A i \in DOMAIN Hidden(s) : \E j \in DOMAIN s : Hidden(s)[i] = s[j]
         /\ \A t : Funds(Hidden(s), t) + Funds(Public(s), t) = Funds(s, t)
<1> DEFINE at == {i \in DOMAIN s : s[i].kind = "shielded"}
           rest == {i \in DOMAIN s : s[i].kind # "shielded"}
<1>1. Hidden(s) = Kept(s, at) /\ Public(s) = Kept(s, rest)
  BY DEF Hidden, Public
<1>2. at \in SUBSET DOMAIN s /\ rest \in SUBSET DOMAIN s /\ rest = DOMAIN s \ at
  OBVIOUS
<1> HIDE DEF at, rest
<1>3. /\ Listing(Kept(s, at)) /\ \A t : Funds(Kept(s, at), t) = FundsAt(s, at, t)
      /\ \A i \in DOMAIN Kept(s, at) : \E j \in at : Kept(s, at)[i] = s[j]
  BY <1>2, KeptIs
<1>4. Listing(Kept(s, rest)) /\ \A t : Funds(Kept(s, rest), t) = FundsAt(s, rest, t)
  BY <1>2, KeptIs
<1>5. \A t : FundsAt(s, at, t) + FundsAt(s, rest, t) = Funds(s, t)
  BY <1>2, FundsAtAll
<1>6. \A i \in DOMAIN Hidden(s) : \E j \in DOMAIN s : Hidden(s)[i] = s[j]
  BY <1>1, <1>2, <1>3
<1>7. \A t : Funds(Hidden(s), t) + Funds(Public(s), t) = Funds(s, t)
  BY <1>1, <1>3, <1>4, <1>5
<1> QED
  BY <1>1, <1>3, <1>4, <1>6, <1>7

\* Changes that are added are not among the shielded outputs.
LEMMA HiddenJoin ==
  ASSUME NEW s, Listing(s), NEW more, Listing(more), \A i \in DOMAIN more : more[i].kind # "shielded", NEW t
  PROVE  Funds(Hidden(s \o more), t) = Funds(Hidden(s), t)
<1> DEFINE r == s \o more
           at == {i \in DOMAIN s : s[i].kind = "shielded"}
           now == {i \in DOMAIN r : r[i].kind = "shielded"}
<1>1. /\ Listing(r) /\ Len(s) \in Nat /\ Len(more) \in Nat
      /\ DOMAIN r = 1..Len(s) + Len(more) /\ DOMAIN s = 1..Len(s) /\ DOMAIN more = 1..Len(more)
      /\ \A i \in 1..Len(s) : r[i] = s[i]
      /\ \A i \in 1..Len(more) : r[i + Len(s)] = more[i]
  BY JoinIs
<1> HIDE DEF r
<1>2. now = at
  <2>1. \A i \in 1..Len(s) : i \in DOMAIN r /\ r[i] = s[i]
    BY <1>1
  <2>2. ASSUME NEW i \in DOMAIN r, i \notin 1..Len(s) PROVE r[i].kind # "shielded"
    <3>1. i - Len(s) \in 1..Len(more) /\ (i - Len(s)) + Len(s) = i
      BY <1>1, <2>2
    <3>2. r[i] = more[i - Len(s)]
      BY <1>1, <3>1
    <3> QED
      BY <1>1, <3>1, <3>2
  <2> QED
    BY <1>1, <2>1, <2>2
<1>3. Hidden(s) = Kept(s, at) /\ Hidden(r) = Kept(r, now)
  BY DEF Hidden
<1>4. at \in SUBSET DOMAIN s /\ now \in SUBSET DOMAIN r
  OBVIOUS
<1> HIDE DEF at, now
<1>5. Funds(Hidden(s), t) = FundsAt(s, at, t) /\ Funds(Hidden(r), t) = FundsAt(r, now, t)
  BY <1>1, <1>3, <1>4, KeptIs
<1> DEFINE S == at \cap Carriers(s, t)
<1>6. now \cap Carriers(r, t) = S
  BY <1>1, <1>2, <1>4 DEF Carriers
<1>7. IsFiniteSet(S) /\ \A i \in S : ValuesOf(s)[i] \in Int /\ ValuesOf(s)[i] = ValuesOf(r)[i]
  <2>1. IsFiniteSet(S)
    BY CarriersAreFinite, FS_Subset
  <2>2. \A i \in S : i \in 1..Len(s) /\ i \in DOMAIN r
    BY <1>1, <1>4
  <2> QED
    BY <1>1, <2>1, <2>2 DEF ValuesOf, Listing
<1> HIDE DEF S
<1>8. SumFunctionOnSet(ValuesOf(s), S) = SumFunctionOnSet(ValuesOf(r), S)
  BY <1>7, SumAgree
<1>9. FundsAt(s, at, t) = FundsAt(r, now, t)
  BY <1>6, <1>8 DEF FundsAt, S
<1> QED
  BY <1>5, <1>9 DEF r

\* Lists that differ in what does not count.
LEMMA FundsAlike ==
  ASSUME NEW s, Listing(s), NEW r, r \in Seq(Range(r)), Len(r) = Len(s),
         \A i \in 1..Len(s) : /\ r[i].token = s[i].token /\ r[i].value = s[i].value
                              /\ r[i].authorities = {} <=> s[i].authorities = {}
  PROVE  Listing(r) /\ \A t : Funds(r, t) = Funds(s, t)
<1>1. DOMAIN r = 1..Len(s) /\ DOMAIN s = 1..Len(s)
  BY DEF Listing
<1>2. Listing(r)
  BY <1>1 DEF Listing
<1>3. ASSUME NEW t PROVE Funds(r, t) = Funds(s, t)
  <2>1. Carriers(r, t) = Carriers(s, t)
    BY <1>1 DEF Carriers
  <2>2. [i \in Carriers(r, t) |-> r[i].value] = [i \in Carriers(s, t) |-> s[i].value]
    <3>1. \A i \in Carriers(s, t) : i \in 1..Len(s)
      BY <1>1 DEF Carriers
    <3> QED
      BY <2>1, <3>1
  <2> QED
    BY <2>2 DEF Funds
<1> QED
  BY <1>2, <1>3

-----------------------------------------------------------------------------
(* Shielded outputs *)

LEMMA ShieldedFeeType == \A mode : ShieldedFee(mode) \in Nat
<1> QED
  BY TxFundsAssumption DEF ShieldedFee

LEMMA ShieldedFeesType ==
  ASSUME NEW defs, Listing(defs)
  PROVE  ShieldedFees(defs) \in Nat
<1> DEFINE f == [i \in DOMAIN defs |-> ShieldedFee(defs[i].mode)]
<1>1. DOMAIN defs = 1..Len(defs) /\ IsFiniteSet(1..Len(defs))
  BY FirstNumbers DEF Listing
<1>2. \A i \in DOMAIN defs : f[i] \in Nat
  BY ShieldedFeeType
<1>3. ShieldedFees(defs) = SumFunctionOnSet(f, DOMAIN defs)
  BY Zenon DEF ShieldedFees, SumFunction
<1> HIDE DEF f
<1>4. SumFunctionOnSet(f, DOMAIN defs) \in Nat
  BY <1>1, <1>2, SumNat
<1> QED
  BY <1>3, <1>4

\* A shielded output more pays its fee.
LEMMA ShieldedFeesAppend ==
  ASSUME NEW defs, Listing(defs), NEW d
  PROVE  ShieldedFees(Append(defs, d)) = ShieldedFees(defs) + ShieldedFee(d.mode)
<1> DEFINE n == Len(defs)
           r == Append(defs, d)
           f == [i \in DOMAIN defs |-> ShieldedFee(defs[i].mode)]
           g == [i \in DOMAIN r |-> ShieldedFee(r[i].mode)]
<1>1. n \in Nat /\ DOMAIN defs = 1..n /\ IsFiniteSet(1..n) /\ defs \in Seq(Range(defs))
  BY FirstNumbers DEF Listing
<1>2. DOMAIN r = 1..n \cup {n + 1} /\ r[n + 1] = d /\ \A i \in 1..n : r[i] = defs[i]
  <2>1. defs \in Seq(Range(defs) \cup {d}) /\ d \in Range(defs) \cup {d}
    BY <1>1
  <2>2. Len(r) = n + 1 /\ DOMAIN r = 1..n + 1 /\ r[n + 1] = d /\ \A i \in 1..n : r[i] = defs[i]
    BY <1>1, <2>1
  <2> QED
    BY <1>1, <2>2
<1> HIDE DEF r
<1>3. \A i \in 1..n : g[i] = f[i] /\ f[i] \in Nat
  BY <1>1, <1>2, ShieldedFeeType
<1>4. g[n + 1] = ShieldedFee(d.mode) /\ g[n + 1] \in Nat
  BY <1>2, ShieldedFeeType
<1>5. ShieldedFees(defs) = SumFunctionOnSet(f, 1..n)
  BY <1>1, Zenon DEF ShieldedFees, SumFunction
<1>6. ShieldedFees(r) = SumFunctionOnSet(g, 1..n \cup {n + 1})
  BY <1>2, Zenon DEF ShieldedFees, SumFunction
<1>7. n + 1 \notin 1..n
  BY <1>1
<1> HIDE DEF f, g, n
<1>8. SumFunctionOnSet(g, 1..n \cup {n + 1}) = g[n + 1] + SumFunctionOnSet(g, 1..n)
  <2>1. \A i \in 1..n \cup {n + 1} : g[i] \in Int
    BY <1>3, <1>4
  <2> QED
    BY <1>1, <1>7, <2>1, SumAdd
<1>9. SumFunctionOnSet(f, 1..n) = SumFunctionOnSet(g, 1..n) /\ SumFunctionOnSet(f, 1..n) \in Nat
  BY <1>1, <1>3, SumAgree, SumNat
<1> QED
  BY <1>4, <1>5, <1>6, <1>8, <1>9 DEF r

\* The shielded outputs that were asked for.
LEMMA ExplicitDefsAre ==
  ASSUME NEW outputs, Valued(outputs)
  PROVE  /\ Listing(ExplicitDefs(outputs))
         /\ \A t : Funds(ExplicitDefs(outputs), t) = Funds(Hidden(outputs), t)
<1> DEFINE asked == Hidden(outputs)
           defs == ExplicitDefs(outputs)
           n == Len(asked)
<1>1. Listing(asked) /\ \A i \in DOMAIN asked : \E j \in DOMAIN outputs : asked[i] = outputs[j]
  BY HiddenAndPublic DEF Valued
<1>2. n \in Nat /\ DOMAIN asked = 1..n
  BY <1>1 DEF Listing
<1>3. \A i \in 1..n : asked[i].authorities = {}
  BY <1>1, <1>2 DEF Valued
<1>4. defs = [i \in DOMAIN asked |-> ShieldedDef(asked[i].token, asked[i].value, asked[i].mode)]
  BY Zenon DEF ExplicitDefs
<1> HIDE DEF asked, defs, n
<1>5. defs \in Seq(Range(defs)) /\ Len(defs) = n
  BY <1>2, <1>4 DEF Range
<1>6. \A i \in 1..n : defs[i].token = asked[i].token /\ defs[i].value = asked[i].value /\ defs[i].authorities = {}
  BY <1>2, <1>4 DEF ShieldedDef
<1>7. \A i \in 1..n : /\ defs[i].token = asked[i].token /\ defs[i].value = asked[i].value
                      /\ defs[i].authorities = {} <=> asked[i].authorities = {}
  BY <1>3, <1>6
<1>8. Listing(defs) /\ \A t : Funds(defs, t) = Funds(asked, t)
  BY <1>1, <1>5, <1>7, FundsAlike DEF n
<1> QED
  BY <1>8 DEF defs, asked

\* The changes that become shielded.
LEMMA ConvertedChangeIs ==
  ASSUME NEW defs, Listing(defs), NEW changes, Valued(changes), NEW mode
  PROVE  /\ Listing(ConvertTokenChange(defs, changes, mode))
         /\ \A t : Funds(ConvertTokenChange(defs, changes, mode), t) = Funds(defs, t) + Funds(changes, t)
<1> DEFINE more == [i \in DOMAIN changes |-> ShieldedDef(changes[i].token, changes[i].value, mode)]
           n == Len(changes)
<1>1. n \in Nat /\ DOMAIN changes = 1..n /\ Listing(changes) /\ \A i \in 1..n : changes[i].authorities = {}
  BY DEF Valued, Listing
<1>2. more \in Seq(Range(more)) /\ Len(more) = n
  BY <1>1 DEF Range
<1>3. \A i \in 1..n : more[i].token = changes[i].token /\ more[i].value = changes[i].value /\ more[i].authorities = {}
  BY <1>1 DEF ShieldedDef
<1>4. ConvertTokenChange(defs, changes, mode) = defs \o more
  BY Zenon DEF ConvertTokenChange
<1> HIDE DEF more
<1>5. \A i \in 1..n : /\ more[i].token = changes[i].token /\ more[i].value = changes[i].value
                      /\ more[i].authorities = {} <=> changes[i].authorities = {}
  BY <1>1, <1>3
<1>6. Listing(more) /\ \A t : Funds(more, t) = Funds(changes, t)
  BY <1>1, <1>2, <1>5, FundsAlike
<1>7. Listing(defs \o more) /\ \A t : Funds(defs \o more, t) = Funds(defs, t) + Funds(more, t)
  BY <1>6, JoinIs, FundsJoin
<1> QED
  BY <1>4, <1>6, <1>7

-----------------------------------------------------------------------------
(* What is proposed for one token *)

\* The utxos of a token among the inputs, whether they have authorities or not.
OfToken(us, token) == {u \in us : UtxoOf[u].token = token}

\* The inputs chosen for a token, or those the user named, cover what is needed.
Proposes(p, chooses, token, inputs, needed, available) ==
    \/ p = Failed
    \/ \E change \in Nat :
        /\ p = [ok |-> TRUE, inputs |-> p.inputs, outputs |-> Change(token, change)]
        /\ Distinct(p.inputs, Available(available, token))
        /\ IF chooses THEN Total(Range(p.inputs)) = needed + change
           ELSE /\ p.inputs = <<>>
                /\ OfToken(Range(inputs), token) \subseteq Available(available, token)
                /\ Total(Available(Range(inputs), token)) = needed + change

LEMMA SendTokensProposes ==
  ASSUME NEW available \in SUBSET KnownUtxos, NEW token, NEW chooses \in BOOLEAN,
         NEW inputs, Distinct(inputs, KnownUtxos), NEW outputs, Listing(outputs), NEW fee \in Nat
  PROVE  Proposes(PrepareSendTokensData(token, chooses, inputs, outputs, fee, available),
                  chooses, token, inputs, fee + Funds(outputs, token), available)
<1> DEFINE needed == fee + Funds(outputs, token)
           given == {i \in DOMAIN inputs : UtxoOf[inputs[i]].token = token}
           f == [i \in given |-> UtxoOf[inputs[i]].value]
           amount == SumFunction(f)
           chosen == BestUtxoSelection(available, token, needed)
           p == PrepareSendTokensData(token, chooses, inputs, outputs, fee, available)
<1>1. p = IF chooses
          THEN IF needed = 0 \/ chosen.amount < needed THEN Failed
               ELSE [ok |-> TRUE, inputs |-> chosen.utxos, outputs |-> Change(token, chosen.amount - needed)]
          ELSE IF (\E i \in given : inputs[i] \notin Available(available, token)) \/ amount < needed
               THEN Failed
               ELSE [ok |-> TRUE, inputs |-> <<>>, outputs |-> Change(token, amount - needed)]
  BY Zenon DEF PrepareSendTokensData
<1>2. needed \in Nat
  BY FundsType
<1> HIDE DEF p, needed, chosen, amount
<1>3. CASE p = Failed
  <2>1. Proposes(p, chooses, token, inputs, needed, available)
    BY <1>3 DEF Proposes
  <2> QED
    BY <2>1 DEF p, needed
<1>4. CASE p # Failed /\ chooses
  <2>1. /\ needed # 0 /\ ~(chosen.amount < needed)
        /\ p = [ok |-> TRUE, inputs |-> chosen.utxos, outputs |-> Change(token, chosen.amount - needed)]
    BY <1>1, <1>4
  <2>2. /\ chosen.amount \in Nat /\ chosen.amount = Total(Range(chosen.utxos))
        /\ Distinct(chosen.utxos, Available(available, token))
    BY <1>2, <2>1, BestCovers DEF chosen
  <2> DEFINE picked == chosen.utxos
             change == chosen.amount - needed
  <2>3. change \in Nat /\ chosen.amount = needed + change
    BY <1>2, <2>1, <2>2
  <2>4. p = [ok |-> TRUE, inputs |-> picked, outputs |-> Change(token, change)]
    BY <2>1
  <2>5. Distinct(picked, Available(available, token)) /\ Total(Range(picked)) = needed + change
    BY <2>2, <2>3
  <2> HIDE DEF picked, change
  <2>6. p.inputs = picked
    BY <2>4
  <2>7. Proposes(p, chooses, token, inputs, needed, available)
    BY <1>4, <2>3, <2>4, <2>5, <2>6 DEF Proposes
  <2> QED
    BY <2>7 DEF p, needed
<1>5. CASE p # Failed /\ ~chooses
  <2>1. /\ \A i \in given : inputs[i] \in Available(available, token)
        /\ ~(amount < needed)
        /\ p = [ok |-> TRUE, inputs |-> <<>>, outputs |-> Change(token, amount - needed)]
    BY <1>1, <1>5
  <2>2. OfToken(Range(inputs), token) \subseteq Available(available, token)
    BY <2>1 DEF OfToken, Range
  <2>3. amount = Total(Available(Range(inputs), token))
    <3> DEFINE C == Carriers(SpentOutputs(inputs), token)
               g == [i \in C |-> SpentOutputs(inputs)[i].value]
    <3>1. C = given
      BY <2>1 DEF Carriers, SpentOutputs, Available
    <3>2. \A i \in DOMAIN inputs : SpentOutputs(inputs)[i] = UtxoOf[inputs[i]]
      BY DEF SpentOutputs
    <3>3. g = f
      BY <3>1, <3>2
    <3>4. Received(inputs, token) = SumFunction(g)
      BY DEF Received, Funds
    <3> HIDE DEF g, f
    <3>5. amount = Received(inputs, token)
      BY <3>3, <3>4 DEF amount
    <3> QED
      BY <3>5, ReceivedIs
  <2>4. amount \in Nat
    <3>1. Available(Range(inputs), token) \in SUBSET KnownUtxos
      BY DEF Available, Distinct, Range
    <3> QED
      BY <2>3, <3>1, TotalType
  <2> DEFINE change == amount - needed
             none == <<>>
  <2>5. change \in Nat /\ amount = needed + change
    BY <1>2, <2>1, <2>4
  <2>6. p = [ok |-> TRUE, inputs |-> none, outputs |-> Change(token, change)] /\ none = <<>>
    BY <2>1
  <2>7. Distinct(none, Available(available, token))
    BY DistinctNone
  <2> HIDE DEF change, none
  <2>8. p.inputs = none
    BY <2>6
  <2>9. Proposes(p, chooses, token, inputs, needed, available)
    BY <1>5, <2>2, <2>3, <2>5, <2>6, <2>7, <2>8 DEF Proposes
  <2> QED
    BY <2>9 DEF p, needed
<1> QED
  BY <1>3, <1>4, <1>5

-----------------------------------------------------------------------------
(* The custom tokens of a send *)

\* Outputs that are changes.
Changed(s) == Valued(s) /\ \A i \in DOMAIN s : s[i].kind # "shielded"

LEMMA ChangeIsChange ==
  ASSUME NEW t, NEW v \in Nat
  PROVE  Changed(Change(t, v))
<1> DEFINE s == Change(t, v)
           o == Output(t, v, {}, "change")
<1>1. Listing(s)
  BY FundsOfChange
<1>2. s = <<>> \/ s = <<o>>
  BY Zenon DEF Change, Positive
<1>3. o.authorities = {} /\ o.kind = "change"
  BY DEF Output
<1> HIDE DEF s, o
<1>4. \A i \in DOMAIN s : s[i] = o
  BY <1>2
<1>5. \A i \in DOMAIN s : s[i].authorities = {} /\ s[i].kind # "shielded"
  BY <1>3, <1>4
<1> QED
  BY <1>1, <1>5 DEF Changed, Valued, s

LEMMA ChangedNone == Changed(<<>>)
<1> QED
  BY FundsOfNone DEF Changed, Valued

LEMMA ValuedJoin ==
  ASSUME NEW s, Valued(s), NEW more, Valued(more)
  PROVE  Valued(s \o more) /\ (Changed(s) /\ Changed(more) => Changed(s \o more))
<1> DEFINE r == s \o more
<1>1. /\ Listing(r) /\ Len(s) \in Nat /\ Len(more) \in Nat
      /\ DOMAIN r = 1..Len(s) + Len(more) /\ DOMAIN s = 1..Len(s) /\ DOMAIN more = 1..Len(more)
      /\ \A i \in 1..Len(s) : r[i] = s[i]
      /\ \A i \in 1..Len(more) : r[i + Len(s)] = more[i]
  BY JoinIs DEF Valued
<1> HIDE DEF r
<1>2. \A i \in DOMAIN r : \/ i \in DOMAIN s /\ r[i] = s[i]
                         \/ \E j \in DOMAIN more : r[i] = more[j]
  <2> SUFFICES ASSUME NEW i \in DOMAIN r, i \notin DOMAIN s
               PROVE  \E j \in DOMAIN more : r[i] = more[j]
    BY <1>1
  <2>1. i - Len(s) \in 1..Len(more) /\ (i - Len(s)) + Len(s) = i
    BY <1>1
  <2>2. r[i] = more[i - Len(s)]
    BY <1>1, <2>1
  <2> QED
    BY <1>1, <2>1, <2>2
<1>3. Valued(r)
  BY <1>1, <1>2 DEF Valued
<1>4. Changed(s) /\ Changed(more) => Changed(r)
  BY <1>2, <1>3 DEF Changed
<1> QED
  BY <1>3, <1>4 DEF r

\* What is sent of one token after the other.
Joined(data, p) ==
    IF ~data.ok \/ ~p.ok THEN Failed
    ELSE [ok |-> TRUE, inputs |-> data.inputs \o p.inputs, outputs |-> data.outputs \o p.outputs]

\* The tokens of a set are covered by what was chosen and by what the user named.
SendsMany(m, T, inputs, outputs, available) ==
    \/ m = Failed
    \/ /\ m = [ok |-> TRUE, inputs |-> m.inputs, outputs |-> m.outputs]
       /\ Distinct(m.inputs, available) /\ Range(m.inputs) \cap Range(inputs) = {}
       /\ Changed(m.outputs)
       /\ \A k : k \notin T => OfToken(Range(m.inputs), k) = {} /\ Funds(m.outputs, k) = 0
       /\ \A k \in T : /\ OfToken(Range(inputs), k) \subseteq Available(available, k)
                       /\ Total(Available(Range(m.inputs), k)) + Total(Available(Range(inputs), k))
                          = Funds(outputs, k) + Funds(m.outputs, k)

LEMMA SendsOneMore ==
  ASSUME NEW available \in SUBSET KnownUtxos, NEW inputs, Distinct(inputs, KnownUtxos), NEW outputs, Listing(outputs),
         NEW T, NEW t, t \notin T, NEW chooses \in BOOLEAN, chooses => OfToken(Range(inputs), t) = {},
         NEW m, SendsMany(m, T, inputs, outputs, available),
         NEW p, Proposes(p, chooses, t, inputs, Funds(outputs, t), available)
  PROVE  SendsMany(Joined(m, p), T \cup {t}, inputs, outputs, available)
<1>1. CASE m = Failed \/ p = Failed
  <2>1. Joined(m, p) = Failed
    BY <1>1 DEF Joined, Failed
  <2> QED
    BY <2>1 DEF SendsMany
<1>2. CASE m # Failed /\ p # Failed
  <2>1. /\ m = [ok |-> TRUE, inputs |-> m.inputs, outputs |-> m.outputs]
        /\ Distinct(m.inputs, available) /\ Range(m.inputs) \cap Range(inputs) = {}
        /\ Changed(m.outputs)
        /\ \A k : k \notin T => OfToken(Range(m.inputs), k) = {} /\ Funds(m.outputs, k) = 0
        /\ \A k \in T : /\ OfToken(Range(inputs), k) \subseteq Available(available, k)
                        /\ Total(Available(Range(m.inputs), k)) + Total(Available(Range(inputs), k))
                           = Funds(outputs, k) + Funds(m.outputs, k)
    BY <1>2 DEF SendsMany
  <2>2. PICK change \in Nat :
          /\ p = [ok |-> TRUE, inputs |-> p.inputs, outputs |-> Change(t, change)]
          /\ Distinct(p.inputs, Available(available, t))
          /\ IF chooses THEN Total(Range(p.inputs)) = Funds(outputs, t) + change
             ELSE /\ p.inputs = <<>>
                  /\ OfToken(Range(inputs), t) \subseteq Available(available, t)
                  /\ Total(Available(Range(inputs), t)) = Funds(outputs, t) + change
    BY <1>2 DEF Proposes
  <2> DEFINE chosen == p.inputs
             more == Change(t, change)
             all == m.inputs \o chosen
             changes == m.outputs \o more
             next == Joined(m, p)
  <2>3. m.ok = TRUE /\ p.ok = TRUE /\ p.outputs = more
    <3>1. m.ok = TRUE
      BY <2>1
    <3> HIDE DEF more
    <3>2. p = [ok |-> TRUE, inputs |-> p.inputs, outputs |-> more]
      BY <2>2 DEF more
    <3> QED
      BY <3>1, <3>2
  <2>4. next = [ok |-> TRUE, inputs |-> all, outputs |-> changes]
    BY <2>3 DEF Joined
  <2>5. Distinct(chosen, Available(available, t))
    BY <2>2
  <2>6. IF chooses THEN Total(Range(chosen)) = Funds(outputs, t) + change
        ELSE /\ chosen = <<>>
             /\ OfToken(Range(inputs), t) \subseteq Available(available, t)
             /\ Total(Available(Range(inputs), t)) = Funds(outputs, t) + change
    BY <2>2
  <2> HIDE DEF next, chosen
  <2>7. Distinct(chosen, available) /\ Range(chosen) \in SUBSET Available(available, t)
    <3> DEFINE us == Available(available, t)
    <3>1. us \in SUBSET available /\ Distinct(chosen, us)
      BY <2>5 DEF Available
    <3> HIDE DEF us
    <3>2. Distinct(chosen, available) /\ Range(chosen) \in SUBSET us
      BY <3>1, DistinctPart
    <3> QED
      BY <3>2 DEF us
  <2>8. OfToken(Range(m.inputs), t) = {} /\ Funds(m.outputs, t) = 0
    BY <2>1
  <2>9. Range(m.inputs) \cap Range(chosen) = {}
    BY <2>7, <2>8 DEF OfToken, Available
  <2>10. Distinct(all, available) /\ Range(all) = Range(m.inputs) \cup Range(chosen)
    BY <2>1, <2>7, <2>9, DistinctJoin
  <2>11. Range(all) \cap Range(inputs) = {}
    <3>1. Range(chosen) \cap Range(inputs) = {}
      <4>1. CASE chooses
        BY <2>7, <4>1 DEF OfToken, Available
      <4>2. CASE ~chooses
        BY <2>6, <4>2, DistinctNone
      <4> QED
        BY <4>1, <4>2
    <3> QED
      BY <2>1, <2>10, <3>1
  <2>12. Valued(m.outputs) /\ Changed(more) /\ Valued(more) /\ Changed(m.outputs)
    BY <2>1, ChangeIsChange DEF Changed
  <2>13. \A k : Listing(more) /\ Funds(more, k) = IF t = k THEN change ELSE 0
    BY FundsOfChange
  <2> HIDE DEF more
  <2>14. Changed(changes)
    BY <2>12, ValuedJoin
  <2>15. \A k : Funds(changes, k) = Funds(m.outputs, k) + Funds(more, k) /\ Funds(m.outputs, k) \in Nat
    BY <2>12, FundsJoin, FundsType DEF Valued
  <2> HIDE DEF all, changes
  <2>16. \A k : k # t => /\ OfToken(Range(all), k) = OfToken(Range(m.inputs), k)
                         /\ Available(Range(all), k) = Available(Range(m.inputs), k)
                         /\ Funds(changes, k) = Funds(m.outputs, k)
    <3> SUFFICES ASSUME NEW k, k # t
                 PROVE  /\ OfToken(Range(all), k) = OfToken(Range(m.inputs), k)
                        /\ Available(Range(all), k) = Available(Range(m.inputs), k)
                        /\ Funds(changes, k) = Funds(m.outputs, k)
      OBVIOUS
    <3>1. /\ OfToken(Range(all), k) = OfToken(Range(m.inputs), k)
          /\ Available(Range(all), k) = Available(Range(m.inputs), k)
      BY <2>7, <2>10 DEF OfToken, Available
    <3>2. Funds(changes, k) = Funds(m.outputs, k)
      BY <2>13, <2>15
    <3> QED
      BY <3>1, <3>2
  <2>17. /\ OfToken(Range(inputs), t) \subseteq Available(available, t)
         /\ Total(Available(Range(all), t)) + Total(Available(Range(inputs), t)) = Funds(outputs, t) + Funds(changes, t)
    <3>1. Available(Range(all), t) = Range(chosen)
      BY <2>7, <2>8, <2>10 DEF OfToken, Available
    <3>2. Funds(changes, t) = change
      BY <2>8, <2>13, <2>15
    <3>3. Total({}) = 0 /\ Funds(outputs, t) \in Nat
      BY SumEmpty, FundsType DEF Total
    <3>4. CASE chooses
      <4>1. OfToken(Range(inputs), t) = {} /\ Available(Range(inputs), t) = {}
        BY <3>4 DEF OfToken, Available
      <4>2. Total(Available(Range(inputs), t)) = 0
        BY <3>3, <4>1
      <4>3. Total(Available(Range(all), t)) = Funds(outputs, t) + change
        BY <2>6, <3>1, <3>4
      <4> QED
        BY <3>2, <3>3, <4>1, <4>2, <4>3
    <3>5. CASE ~chooses
      <4>1. Range(chosen) = {}
        BY <2>6, <3>5, DistinctNone
      <4>2. Total(Available(Range(all), t)) = 0
        BY <3>1, <3>3, <4>1
      <4> QED
        BY <2>6, <3>2, <3>3, <3>5, <4>2
    <3> QED
      BY <3>4, <3>5
  <2>18. next.inputs = all /\ next.outputs = changes
    BY <2>4
  <2>19. \A k : k \notin T \cup {t} => OfToken(Range(all), k) = {} /\ Funds(changes, k) = 0
    BY <2>1, <2>16
  <2>20. \A k \in T \cup {t} : /\ OfToken(Range(inputs), k) \subseteq Available(available, k)
                               /\ Total(Available(Range(all), k)) + Total(Available(Range(inputs), k))
                                  = Funds(outputs, k) + Funds(changes, k)
    <3> SUFFICES ASSUME NEW k \in T
                 PROVE  /\ OfToken(Range(inputs), k) \subseteq Available(available, k)
                        /\ Total(Available(Range(all), k)) + Total(Available(Range(inputs), k))
                           = Funds(outputs, k) + Funds(changes, k)
      BY <2>17
    <3>1. k # t
      OBVIOUS
    <3> QED
      BY <2>1, <2>16, <3>1
  <2>21. SendsMany(next, T \cup {t}, inputs, outputs, available)
    BY <2>4, <2>10, <2>11, <2>14, <2>18, <2>19, <2>20 DEF SendsMany
  <2> QED
    BY <2>21 DEF next
<1> QED
  BY <1>1, <1>2

NothingSent == [ok |-> TRUE, inputs |-> <<>>, outputs |-> <<>>]

\* What PrepareSendManyTokensData iterates over.
IsSendingMany(upTo, tokenMap, inputs, outputs, available) ==
    upTo = [i \in 0..Len(TokenOrder) |->
              IF i = 0 THEN NothingSent
              ELSE IF TokenOrder[i] \notin DOMAIN tokenMap THEN upTo[i - 1]
              ELSE Joined(upTo[i - 1], PrepareSendTokensData(TokenOrder[i], tokenMap[TokenOrder[i]],
                                                               inputs, outputs, 0, available))]

LEMMA IsSendingManyExists ==
  ASSUME NEW tokenMap, NEW inputs, NEW outputs, NEW available
  PROVE  \E upTo : IsSendingMany(upTo, tokenMap, inputs, outputs, available)
<1> DEFINE n == Len(TokenOrder)
           After(g, i) == IF i = 0 THEN NothingSent
                          ELSE IF TokenOrder[i] \notin DOMAIN tokenMap THEN g[i - 1]
                          ELSE Joined(g[i - 1], PrepareSendTokensData(TokenOrder[i], tokenMap[TokenOrder[i]],
                                                               inputs, outputs, 0, available))
           Reached(g, k) == \A i \in 0..n : i <= k => g[i] = After(g, i)
           N == {k \in Nat : \E g : Reached(g, k)}
<1>1. n \in Nat
  BY TxFundsAssumption
<1>2. 0 \in N
  <2> DEFINE g == [i \in 0..n |-> NothingSent]
  <2>1. Reached(g, 0)
    <3> SUFFICES ASSUME NEW i \in 0..n, i <= 0 PROVE g[i] = After(g, i)
      OBVIOUS
    <3>1. i = 0
      BY <1>1
    <3> QED
      BY <3>1
  <2> QED
    BY <2>1
<1>3. ASSUME NEW k \in Nat, k \in N PROVE k + 1 \in N
  <2>1. PICK g : Reached(g, k)
    BY <1>3
  <2> DEFINE h == [i \in 0..n |-> IF i <= k THEN g[i] ELSE After(g, i)]
  <2>2. ASSUME NEW i \in 0..n, i <= k + 1 PROVE h[i] = After(h, i)
    <3>1. h[i] = After(g, i)
      <4>1. CASE i <= k
        <5>1. h[i] = g[i]
          BY <4>1
        <5> QED
          BY <2>1, <4>1, <5>1
      <4>2. CASE ~(i <= k)
        BY <4>2
      <4> QED
        BY <4>1, <4>2
    <3>2. CASE i = 0
      BY <3>1, <3>2
    <3>3. CASE i # 0
      <4>1. i - 1 \in 0..n /\ i - 1 <= k
        BY <1>1, <2>2, <3>3
      <4>2. h[i - 1] = g[i - 1]
        BY <4>1
      <4> HIDE DEF h
      <4> QED
        BY <3>1, <3>3, <4>2
    <3> QED
      BY <3>2, <3>3
  <2> HIDE DEF h, After
  <2>3. Reached(h, k + 1)
    BY <2>2
  <2> QED
    BY <2>3
<1>4. Nat \subseteq N
  <2> HIDE DEF N
  <2> QED
    BY <1>2, <1>3, NatSet
<1>5. PICK g : Reached(g, n)
  <2>1. n \in N
    <3> HIDE DEF N
    <3> QED
      BY <1>1, <1>4
  <2> QED
    BY <2>1
<1> DEFINE it == [i \in 0..n |-> g[i]]
<1>6. ASSUME NEW i \in 0..n PROVE it[i] = After(it, i)
  <2>1. i <= n /\ it[i] = g[i]
    BY <1>1
  <2>2. it[i] = After(g, i)
    BY <1>5, <2>1
  <2>3. CASE i = 0
    BY <2>2, <2>3
  <2>4. CASE i # 0
    <3>1. i - 1 \in 0..n
      BY <1>1, <2>4
    <3>2. it[i - 1] = g[i - 1]
      BY <3>1
    <3> HIDE DEF it
    <3> QED
      BY <2>2, <2>4, <3>2
  <2> QED
    BY <2>3, <2>4
<1>7. it = [i \in 0..n |-> it[i]]
  OBVIOUS
<1> HIDE DEF it, After
<1>8. it = [i \in 0..n |-> After(it, i)]
  BY <1>6, <1>7
<1>9. IsSendingMany(it, tokenMap, inputs, outputs, available)
  BY <1>8 DEF IsSendingMany, After
<1> QED
  BY <1>9

LEMMA IsSendingManyUnfolds ==
  ASSUME NEW tokenMap, NEW inputs, NEW outputs, NEW available
  PROVE  \E upTo : /\ PrepareSendManyTokensData(tokenMap, inputs, outputs, available) = upTo[Len(TokenOrder)]
                   /\ upTo[0] = NothingSent
                   /\ \A i \in 1..Len(TokenOrder) :
                        upTo[i] = IF TokenOrder[i] \notin DOMAIN tokenMap THEN upTo[i - 1]
                                  ELSE Joined(upTo[i - 1], PrepareSendTokensData(TokenOrder[i], tokenMap[TokenOrder[i]],
                                                               inputs, outputs, 0, available))
<1> DEFINE n == Len(TokenOrder)
           it == CHOOSE upTo : IsSendingMany(upTo, tokenMap, inputs, outputs, available)
<1>1. PrepareSendManyTokensData(tokenMap, inputs, outputs, available) = it[n]
  BY Zenon DEF PrepareSendManyTokensData, IsSendingMany, Joined, NothingSent
<1>2. IsSendingMany(it, tokenMap, inputs, outputs, available)
  BY IsSendingManyExists
<1> HIDE DEF it
<1>3. n \in Nat
  BY TxFundsAssumption
<1>4. \A i \in 0..n :
        it[i] = IF i = 0 THEN NothingSent ELSE IF TokenOrder[i] \notin DOMAIN tokenMap THEN it[i - 1]
                ELSE Joined(it[i - 1], PrepareSendTokensData(TokenOrder[i], tokenMap[TokenOrder[i]],
                                                               inputs, outputs, 0, available))
  BY <1>2 DEF IsSendingMany
<1>5. 0 \in 0..n /\ \A i \in 1..n : i \in 0..n /\ i # 0
  BY <1>3
<1>6. it[0] = NothingSent
  BY <1>4, <1>5
<1>7. \A i \in 1..n : it[i] = IF TokenOrder[i] \notin DOMAIN tokenMap THEN it[i - 1]
                ELSE Joined(it[i - 1], PrepareSendTokensData(TokenOrder[i], tokenMap[TokenOrder[i]],
                                                               inputs, outputs, 0, available))
  BY <1>4, <1>5
<1> QED
  BY <1>1, <1>6, <1>7

LEMMA SendManyCovers ==
  ASSUME NEW available \in SUBSET KnownUtxos, NEW inputs, Distinct(inputs, KnownUtxos), NEW outputs, Listing(outputs),
         NEW tokenMap, \A t \in DOMAIN tokenMap : tokenMap[t] \in BOOLEAN /\ (tokenMap[t] => OfToken(Range(inputs), t) = {})
  PROVE  SendsMany(PrepareSendManyTokensData(tokenMap, inputs, outputs, available), DOMAIN tokenMap \cap Tokens,
                   inputs, outputs, available)
<1> DEFINE n == Len(TokenOrder)
           tokens == DOMAIN tokenMap
           Done(i) == {TokenOrder[j] : j \in 1..i} \cap tokens
<1>1. /\ n \in Nat /\ \A i \in 1..n : TokenOrder[i] \in Tokens
      /\ \A i, j \in 1..n : TokenOrder[i] = TokenOrder[j] => i = j
      /\ Tokens = {TokenOrder[j] : j \in 1..n}
  <2>1. TokenOrder \in Seq(Tokens) /\ IsInjective(TokenOrder)
    BY TxFundsAssumption
  <2>2. n \in Nat /\ DOMAIN TokenOrder = 1..n /\ \A i \in 1..n : TokenOrder[i] \in Tokens
    BY <2>1
  <2>3. \A i, j \in 1..n : TokenOrder[i] = TokenOrder[j] => i = j
    BY <2>1, <2>2 DEF IsInjective
  <2>4. Tokens = {TokenOrder[j] : j \in 1..n}
    BY <2>2 DEF Tokens, Range
  <2> QED
    BY <2>2, <2>3, <2>4
<1>2. PICK upTo : /\ PrepareSendManyTokensData(tokenMap, inputs, outputs, available) = upTo[n]
                  /\ upTo[0] = NothingSent
                  /\ \A i \in 1..n :
                       upTo[i] = IF TokenOrder[i] \notin DOMAIN tokenMap THEN upTo[i - 1]
                                 ELSE Joined(upTo[i - 1], PrepareSendTokensData(TokenOrder[i], tokenMap[TokenOrder[i]],
                                                                                inputs, outputs, 0, available))
  BY IsSendingManyUnfolds
<1> DEFINE N == {i \in Nat : i <= n => SendsMany(upTo[i], Done(i), inputs, outputs, available)}
<1>3. 0 \in N
  <2>1. Done(0) = {}
    OBVIOUS
  <2>2. NothingSent = [ok |-> TRUE, inputs |-> <<>>, outputs |-> <<>>] /\ NothingSent.inputs = <<>> /\ NothingSent.outputs = <<>>
    BY DEF NothingSent
  <2>3. Distinct(<<>>, available) /\ Range(<<>>) = {} /\ Changed(<<>>) /\ \A k : Funds(<<>>, k) = 0
    BY DistinctNone, ChangedNone, FundsOfNone
  <2>4. \A k : OfToken({}, k) = {}
    BY DEF OfToken
  <2> HIDE DEF Done
  <2>5. SendsMany(NothingSent, {}, inputs, outputs, available)
    BY <2>2, <2>3, <2>4 DEF SendsMany
  <2>6. SendsMany(upTo[0], Done(0), inputs, outputs, available)
    BY <1>2, <2>1, <2>5
  <2> QED
    BY <2>6
<1>4. ASSUME NEW i \in Nat, i \in N PROVE i + 1 \in N
  <2> SUFFICES ASSUME i + 1 <= n PROVE SendsMany(upTo[i + 1], Done(i + 1), inputs, outputs, available)
    OBVIOUS
  <2> DEFINE t == TokenOrder[i + 1]
  <2>1. i + 1 \in 1..n /\ (i + 1) - 1 = i /\ i <= n
    BY <1>1
  <2>2. SendsMany(upTo[i], Done(i), inputs, outputs, available)
    BY <1>4, <2>1
  <2>3. 1..i + 1 = 1..i \cup {i + 1}
    OBVIOUS
  <2>4. CASE t \notin tokens
    <3>1. Done(i + 1) = Done(i)
      BY <2>3, <2>4
    <3>2. upTo[i + 1] = upTo[i]
      BY <1>2, <2>1, <2>4
    <3> HIDE DEF Done
    <3> QED
      BY <2>2, <3>1, <3>2
  <2>5. CASE t \in tokens
    <3>1. Done(i + 1) = Done(i) \cup {t}
      BY <2>3, <2>5
    <3>2. t \notin Done(i)
      <4>1. \A j \in 1..i : j \in 1..n /\ j # i + 1
        BY <1>1, <2>1
      <4> QED
        BY <1>1, <2>1, <4>1
    <3> DEFINE p == PrepareSendTokensData(t, tokenMap[t], inputs, outputs, 0, available)
               prev == upTo[i]
               chooses == tokenMap[t]
    <3>3. upTo[i + 1] = Joined(prev, p)
      BY <1>2, <2>1, <2>5
    <3>4. chooses \in BOOLEAN /\ (chooses => OfToken(Range(inputs), t) = {})
      BY <2>5
    <3>5. p = PrepareSendTokensData(t, chooses, inputs, outputs, 0, available)
      OBVIOUS
    <3> HIDE DEF Done, p, prev, t, chooses
    <3>6. Proposes(p, chooses, t, inputs, 0 + Funds(outputs, t), available)
      BY <3>4, <3>5, SendTokensProposes
    <3>7. 0 + Funds(outputs, t) = Funds(outputs, t)
      BY FundsType
    <3>8. Proposes(p, chooses, t, inputs, Funds(outputs, t), available)
      BY <3>6, <3>7
    <3>9. SendsMany(prev, Done(i), inputs, outputs, available)
      BY <2>2 DEF prev
    <3>10. SendsMany(Joined(prev, p), Done(i) \cup {t}, inputs, outputs, available)
      BY <3>2, <3>4, <3>8, <3>9, SendsOneMore
    <3> QED
      BY <3>1, <3>3, <3>10
  <2> QED
    BY <2>4, <2>5
<1>5. Nat \subseteq N
  <2> HIDE DEF N
  <2> QED
    BY <1>3, <1>4, NatSet
<1>6. SendsMany(upTo[n], Done(n), inputs, outputs, available)
  <2>1. n \in N /\ n <= n
    <3> HIDE DEF N
    <3> QED
      BY <1>1, <1>5
  <2> HIDE DEF Done, n
  <2> QED
    BY <2>1
<1>7. Done(n) = tokens \cap Tokens
  BY <1>1
<1> HIDE DEF Done
<1> QED
  BY <1>2, <1>6, <1>7

-----------------------------------------------------------------------------
(* The transaction once the custom tokens are covered *)

Partly(x, given, available) ==
    \/ x = Failed
    \/ /\ x = [ok |-> TRUE, inputs |-> x.inputs, defs |-> x.defs, outputs |-> x.outputs]
       /\ Distinct(x.inputs, KnownUtxos)
       /\ \A u \in Range(x.inputs) : UtxoOf[u].token # HTR => u \in available
       /\ OfToken(Range(x.inputs), HTR) = OfToken(Range(given), HTR)
       /\ Listing(x.defs) /\ Listing(x.outputs)
       /\ \A t \in Tokens : Total(Available(Range(x.inputs), t)) = Funds(Public(x.outputs), t) + Funds(x.defs, t)
       /\ Funds(x.outputs, HTR) = Funds(Public(x.outputs), HTR) + Funds(x.defs, HTR)

\* The outputs and the shielded outputs carry what was asked for and the changes.
Carry(asked, changes, shields, defs, outputs, t) ==
    /\ Listing(defs) /\ Listing(outputs)
    /\ Funds(Public(outputs), t) + Funds(defs, t) = Funds(asked, t) + Funds(changes, t)
    /\ Funds(outputs, t) = Funds(asked, t) + (IF shields THEN 0 ELSE Funds(changes, t))
    /\ Funds(asked, t) \in Nat /\ Funds(changes, t) \in Nat /\ Funds(defs, t) \in Nat
    /\ Funds(Public(outputs), t) \in Nat

\* The explicit outputs stay as they are, and the changes go where they are shielded.
LEMMA PartsCarry ==
  ASSUME NEW asked, Valued(asked), NEW changes, Changed(changes), NEW mode, NEW shields \in BOOLEAN, NEW t,
         NEW explicit, explicit = ExplicitDefs(asked),
         NEW defs, defs = (IF shields THEN ConvertTokenChange(explicit, changes, mode) ELSE explicit),
         NEW outputs, outputs = asked \o (IF shields THEN <<>> ELSE changes)
  PROVE  Carry(asked, changes, shields, defs, outputs, t)
<1> DEFINE more == IF shields THEN <<>> ELSE changes
<1>1. Listing(asked) /\ Listing(changes) /\ Valued(changes)
  BY DEF Valued, Changed
<1>2. /\ Listing(explicit) /\ Funds(explicit, t) = Funds(Hidden(asked), t)
      /\ Listing(Hidden(asked))
  BY <1>1, ExplicitDefsAre, HiddenAndPublic
<1>3. Changed(more) /\ Listing(more) /\ Funds(more, t) = IF shields THEN 0 ELSE Funds(changes, t)
  <2>1. CASE shields
    <3>1. more = <<>>
      BY <2>1
    <3> QED
      BY <2>1, <3>1, ChangedNone, FundsOfNone
  <2>2. CASE ~shields
    BY <1>1, <2>2
  <2> QED
    BY <2>1, <2>2
<1>4. Listing(defs) /\ Funds(defs, t) = Funds(explicit, t) + IF shields THEN Funds(changes, t) ELSE 0
  <2>1. CASE shields
    BY <1>1, <1>2, <2>1, ConvertedChangeIs
  <2>2. CASE ~shields
    BY <1>2, <2>2, FundsType
  <2> QED
    BY <2>1, <2>2
<1> HIDE DEF more
<1>5. Listing(outputs) /\ Funds(outputs, t) = Funds(asked, t) + Funds(more, t)
  BY <1>1, <1>3, JoinIs, FundsJoin DEF more
<1>6. Funds(Hidden(outputs), t) = Funds(Hidden(asked), t)
  BY <1>1, <1>3, HiddenJoin DEF Changed, more
<1>7. Funds(Hidden(outputs), t) + Funds(Public(outputs), t) = Funds(outputs, t) /\ Listing(Public(outputs))
  BY <1>5, HiddenAndPublic
<1>8. /\ Funds(Hidden(asked), t) \in Nat /\ Funds(Public(outputs), t) \in Nat /\ Funds(asked, t) \in Nat
      /\ Funds(changes, t) \in Nat /\ Funds(defs, t) \in Nat
  BY <1>1, <1>2, <1>4, <1>7, FundsType
<1>9. Funds(Public(outputs), t) + Funds(defs, t) = Funds(asked, t) + Funds(changes, t)
  <2>1. CASE shields
    BY <1>2, <1>3, <1>4, <1>5, <1>6, <1>7, <1>8, <2>1
  <2>2. CASE ~shields
    <3>1. Funds(more, t) = Funds(changes, t) /\ Funds(defs, t) = Funds(Hidden(asked), t)
      BY <1>2, <1>3, <1>4, <1>8, <2>2
    <3> QED
      BY <1>5, <1>6, <1>7, <1>8, <3>1
  <2> QED
    BY <2>1, <2>2
<1> QED
  BY <1>3, <1>4, <1>5, <1>8, <1>9 DEF Carry

\* What a send may be asked for.
Asked(r) ==
    /\ Valued(r.outputs) /\ \A i \in DOMAIN r.outputs : r.outputs[i].token \in Tokens \cup {HTR}
    /\ Distinct(r.inputs, KnownUtxos)

\* The tokens of the map are those that come in or go out.
LEMMA TokenMapIs ==
  ASSUME NEW r, Asked(r)
  PROVE  LET tokenMap == TokenMap(InputTokensOf(r), OutputTokensOf(r))
         IN  /\ \A t \in DOMAIN tokenMap : /\ tokenMap[t] \in BOOLEAN
                                           /\ tokenMap[t] => OfToken(Range(r.inputs), t) = {}
             /\ DOMAIN tokenMap \subseteq Tokens
             /\ \A t \in Tokens \ DOMAIN tokenMap : OfToken(Range(r.inputs), t) = {} /\ Funds(r.outputs, t) = 0
             /\ \A t : t \notin InputTokensOf(r) => OfToken(Range(r.inputs), t) = {}
<1> DEFINE ins == InputTokensOf(r)
           outs == OutputTokensOf(r)
           m == TokenMap(ins, outs)
<1>1. m = [t \in (outs \cup ins) \ {HTR} |-> t \notin ins]
  BY DEF TokenMap
<1>2. \A u \in Range(r.inputs) : u \in KnownUtxos /\ UtxoOf[u].token \in ins
  BY DEF Asked, Distinct, Range, InputTokensOf
<1>3. \A u \in KnownUtxos : UtxoOf[u].token \in Tokens \cup {HTR}
  BY TxFundsAssumption
<1>4. ins \subseteq Tokens \cup {HTR}
  <2>1. \A i \in DOMAIN r.inputs : r.inputs[i] \in KnownUtxos
    BY DEF Asked, Distinct
  <2> QED
    BY <1>3, <2>1 DEF InputTokensOf
<1>5. outs \subseteq Tokens \cup {HTR}
  BY DEF Asked, OutputTokensOf
<1>6. \A i \in DOMAIN r.outputs : r.outputs[i].token \in outs
  BY DEF OutputTokensOf
<1> HIDE DEF ins, outs, m
<1>7. \A t : t \notin ins => OfToken(Range(r.inputs), t) = {}
  BY <1>2 DEF OfToken
<1>8. DOMAIN m = (outs \cup ins) \ {HTR} /\ \A t \in DOMAIN m : m[t] = (t \notin ins)
  BY <1>1
<1>9. \A t \in DOMAIN m : m[t] \in BOOLEAN /\ (m[t] => OfToken(Range(r.inputs), t) = {})
  BY <1>7, <1>8
<1>10. DOMAIN m \subseteq Tokens
  BY <1>4, <1>5, <1>8
<1>11. ASSUME NEW t \in Tokens \ DOMAIN m PROVE OfToken(Range(r.inputs), t) = {} /\ Funds(r.outputs, t) = 0
  <2>1. t \notin ins /\ t \notin outs
    BY <1>8, HtrIsApart
  <2>2. Carriers(r.outputs, t) = {}
    BY <1>6, <2>1 DEF Carriers
  <2>3. Funds(r.outputs, t) = 0
    BY <2>2, SumEmpty DEF Funds, SumFunction
  <2> QED
    BY <1>7, <2>1, <2>3
<1> QED
  BY <1>7, <1>9, <1>10, <1>11 DEF m, ins, outs

\* The transaction once the custom tokens are covered.
LEMMA PartialIs ==
  ASSUME NEW available \in SUBSET KnownUtxos, NEW r, Asked(r),
         NEW T, T \subseteq Tokens, \A t \in Tokens \ T : OfToken(Range(r.inputs), t) = {} /\ Funds(r.outputs, t) = 0,
         NEW many, SendsMany(many, T, r.inputs, r.outputs, available)
  PROVE  Partly(PartialTx(r, ExplicitDefs(r.outputs), many), r.inputs, available)
<1> DEFINE explicit == ExplicitDefs(r.outputs)
           shields == r.mode # "none" /\ explicit # <<>>
           defs == IF shields THEN ConvertTokenChange(explicit, many.outputs, r.mode) ELSE explicit
           outputs == r.outputs \o (IF shields THEN <<>> ELSE many.outputs)
           inputs == r.inputs \o many.inputs
           x == PartialTx(r, explicit, many)
<1>1. x = Failed \/ (many.ok /\ x = [ok |-> TRUE, inputs |-> inputs, defs |-> defs, outputs |-> outputs])
  BY DEF PartialTx
<1>2. CASE x = Failed
  BY <1>2 DEF Partly
<1>3. CASE x # Failed
  <2>1. many.ok /\ x = [ok |-> TRUE, inputs |-> inputs, defs |-> defs, outputs |-> outputs]
    BY <1>1, <1>3
  <2>2. /\ Distinct(many.inputs, available) /\ Range(many.inputs) \cap Range(r.inputs) = {}
        /\ Changed(many.outputs)
        /\ \A k : k \notin T => OfToken(Range(many.inputs), k) = {} /\ Funds(many.outputs, k) = 0
        /\ \A k \in T : /\ OfToken(Range(r.inputs), k) \subseteq Available(available, k)
                        /\ Total(Available(Range(many.inputs), k)) + Total(Available(Range(r.inputs), k))
                           = Funds(r.outputs, k) + Funds(many.outputs, k)
    <3>1. many # Failed
      BY <2>1 DEF Failed
    <3> QED
      BY <3>1 DEF SendsMany
  <2>3. x.inputs = inputs /\ x.defs = defs /\ x.outputs = outputs
    <3> HIDE DEF x, inputs, defs, outputs
    <3> QED
      BY <2>1
  <2>4. Valued(r.outputs) /\ Distinct(r.inputs, KnownUtxos) /\ Listing(r.outputs)
    BY DEF Asked, Valued
  <2>5. Distinct(many.inputs, KnownUtxos)
    BY <2>2, DistinctPart
  <2>6. /\ Distinct(inputs, KnownUtxos) /\ Range(inputs) = Range(r.inputs) \cup Range(many.inputs)
        /\ \A t : Total(Available(Range(inputs), t))
                  = Total(Available(Range(r.inputs), t)) + Total(Available(Range(many.inputs), t))
    BY <2>2, <2>4, <2>5, SpentJoin
  <2>7. \A t : /\ Listing(defs) /\ Listing(outputs)
               /\ Funds(Public(outputs), t) + Funds(defs, t) = Funds(r.outputs, t) + Funds(many.outputs, t)
               /\ Funds(outputs, t) = Funds(r.outputs, t) + (IF shields THEN 0 ELSE Funds(many.outputs, t))
               /\ Funds(r.outputs, t) \in Nat /\ Funds(many.outputs, t) \in Nat /\ Funds(defs, t) \in Nat
               /\ Funds(Public(outputs), t) \in Nat
    <3> SUFFICES ASSUME NEW t
                 PROVE /\ Listing(defs) /\ Listing(outputs)
                       /\ Funds(Public(outputs), t) + Funds(defs, t) = Funds(r.outputs, t) + Funds(many.outputs, t)
                       /\ Funds(outputs, t) = Funds(r.outputs, t) + (IF shields THEN 0 ELSE Funds(many.outputs, t))
                       /\ Funds(r.outputs, t) \in Nat /\ Funds(many.outputs, t) \in Nat /\ Funds(defs, t) \in Nat
                       /\ Funds(Public(outputs), t) \in Nat
      OBVIOUS
    <3> DEFINE asked == r.outputs
               changes == many.outputs
               mode == r.mode
    <3>1. shields \in BOOLEAN
      OBVIOUS
    <3>2. Valued(asked) /\ Changed(changes)
      BY <2>2, <2>4
    <3>3. /\ explicit = ExplicitDefs(asked)
          /\ defs = IF shields THEN ConvertTokenChange(explicit, changes, mode) ELSE explicit
          /\ outputs = asked \o (IF shields THEN <<>> ELSE changes)
      OBVIOUS
    <3> HIDE DEF shields, asked, changes, mode, defs, outputs, explicit
    <3>4. Carry(asked, changes, shields, defs, outputs, t)
      BY <3>1, <3>2, <3>3, PartsCarry
    <3>5. /\ Listing(defs) /\ Listing(outputs)
          /\ Funds(Public(outputs), t) + Funds(defs, t) = Funds(asked, t) + Funds(changes, t)
          /\ Funds(outputs, t) = Funds(asked, t) + (IF shields THEN 0 ELSE Funds(changes, t))
          /\ Funds(asked, t) \in Nat /\ Funds(changes, t) \in Nat /\ Funds(defs, t) \in Nat
          /\ Funds(Public(outputs), t) \in Nat
      BY <3>4 DEF Carry
    <3> QED
      BY <3>5 DEF asked, changes
  <2> HIDE DEF defs, outputs, inputs, x, shields
  <2>8. HTR \notin T
    BY HtrIsApart
  <2>9. Funds(outputs, HTR) = Funds(Public(outputs), HTR) + Funds(defs, HTR)
    <3>1. Funds(many.outputs, HTR) = 0
      BY <2>2, <2>8
    <3>2. Funds(outputs, HTR) = Funds(r.outputs, HTR)
      BY <2>7, <3>1
    <3> QED
      BY <2>7, <3>1, <3>2
  <2>10. ASSUME NEW t \in Tokens
         PROVE  Total(Available(Range(inputs), t)) = Funds(Public(outputs), t) + Funds(defs, t)
    <3>1. CASE t \in T
      <4>1. Total(Available(Range(many.inputs), t)) + Total(Available(Range(r.inputs), t))
            = Funds(r.outputs, t) + Funds(many.outputs, t)
        BY <2>2, <3>1
      <4>2. Total(Available(Range(many.inputs), t)) \in Nat /\ Total(Available(Range(r.inputs), t)) \in Nat
        BY <2>2, <2>4, <2>5, SpentJoin
      <4>3. Total(Available(Range(inputs), t))
            = Total(Available(Range(r.inputs), t)) + Total(Available(Range(many.inputs), t))
        BY <2>6
      <4>4. Funds(Public(outputs), t) + Funds(defs, t) = Funds(r.outputs, t) + Funds(many.outputs, t)
        BY <2>7
      <4> QED
        BY <4>1, <4>2, <4>3, <4>4
    <3>2. CASE t \notin T
      <4>1. OfToken(Range(r.inputs), t) = {} /\ Funds(r.outputs, t) = 0
            /\ OfToken(Range(many.inputs), t) = {} /\ Funds(many.outputs, t) = 0
        BY <2>2, <3>2
      <4>2. Available(Range(inputs), t) = {}
        BY <2>6, <4>1 DEF OfToken, Available
      <4>3. Total(Available(Range(inputs), t)) = 0
        BY <4>2, SumEmpty DEF Total
      <4> QED
        BY <2>7, <4>1, <4>3
    <3> QED
      BY <3>1, <3>2
  <2>11. OfToken(Range(inputs), HTR) = OfToken(Range(r.inputs), HTR)
    <3>1. OfToken(Range(many.inputs), HTR) = {}
      BY <2>2, <2>8
    <3> QED
      BY <2>6, <3>1 DEF OfToken
  <2>12. ASSUME NEW u \in Range(inputs), UtxoOf[u].token # HTR PROVE u \in available
    <3>1. CASE u \in Range(many.inputs)
      BY <2>2, <3>1 DEF Distinct, Range
    <3>2. CASE u \in Range(r.inputs)
      <4>1. u \in KnownUtxos
        BY <2>4, <3>2 DEF Distinct, Range
      <4>2. UtxoOf[u].token \in Tokens
        BY <2>12, <4>1, TxFundsAssumption
      <4>3. u \in OfToken(Range(r.inputs), UtxoOf[u].token)
        BY <3>2 DEF OfToken
      <4>4. UtxoOf[u].token \in T
        BY <4>2, <4>3
      <4> QED
        BY <2>2, <4>3, <4>4 DEF Available
    <3> QED
      BY <2>6, <3>1, <3>2
  <2>13. x = [ok |-> TRUE, inputs |-> x.inputs, defs |-> x.defs, outputs |-> x.outputs]
    BY <2>1, <2>3
  <2>14. Partly(x, r.inputs, available)
    BY <2>3, <2>6, <2>7, <2>9, <2>10, <2>11, <2>12, <2>13 DEF Partly
  <2> QED
    BY <2>14 DEF x
<1> QED
  BY <1>2, <1>3

-----------------------------------------------------------------------------
(* The native token of a send *)

\* The utxos that are pulled to make a change large enough.
Pulled(us, least) ==
    Taken(Sorted(us, Ascending), Until(Sorted(us, Ascending), LAMBDA i : Taken(Sorted(us, Ascending), i).amount > least))

LEMMA PulledIs ==
  ASSUME NEW us \in SUBSET KnownUtxos, NEW least
  PROVE  Selected(Pulled(us, least), us)
<1> DEFINE s == Sorted(us, Ascending)
           n == Cardinality(us)
           stops == {i \in DOMAIN s : Taken(s, i).amount > least}
           k == FirstStop(n, stops)
           p == Pulled(us, least)
<1>1. Enumerates(s, us)
  BY UtxosSorted
<1>2. /\ s = <<>> <=> us = {}
      /\ us # {} => n \in Nat \ {0}
      /\ Len(s) = n /\ DOMAIN s = 1..n
  BY <1>1, NothingToSort
<1>3. p = Taken(s, k)
  BY <1>2, Zenon DEF Pulled, Until, FirstStop
<1>4. n \in Nat /\ n = Cardinality(us)
  BY KnownUtxosAreFinite, FS_Subset, FS_CardinalityType
<1>5. stops \in SUBSET (1..n)
  BY <1>2
<1> HIDE DEF s, n, stops
<1>6. k \in 0..n
  <2>1. CASE us = {}
    <3>1. n = 0
      BY <1>4, <2>1, FS_EmptySet
    <3>2. stops = {}
      BY <1>5, <3>1
    <3> QED
      BY <1>4, <3>1, <3>2 DEF FirstStop
  <2>2. CASE us # {}
    <3>1. n \in Nat \ {0}
      BY <1>2, <2>2
    <3>2. FirstStop(n, stops) \in 1..n
      BY <1>5, <3>1, FirstStopIs
    <3> QED
      BY <3>2
  <2> QED
    BY <2>1, <2>2
<1> HIDE DEF k, p
<1>7. /\ Taken(s, k) = [utxos |-> SubSeq(s, 1, k), amount |-> Total(Top(s, k))]
      /\ Distinct(SubSeq(s, 1, k), us) /\ Range(SubSeq(s, 1, k)) = Top(s, k)
  BY <1>1, <1>6, TakenIs DEF n
<1> DEFINE taken == SubSeq(s, 1, k)
           amount == Total(Top(s, k))
<1>8. p = [utxos |-> taken, amount |-> amount] /\ amount = Total(Range(taken)) /\ Distinct(taken, us)
  BY <1>3, <1>7
<1> HIDE DEF taken, amount
<1>9. p.utxos = taken
  BY <1>8
<1>10. Selected(p, us)
  BY <1>8, <1>9 DEF Selected
<1> QED
  BY <1>10 DEF p

\* The native utxos that cover a total beside those that are used already, and the change.
HtrCovers(h, used, total, available) ==
    \/ h = Failed
    \/ \E change \in Nat :
        /\ h = [ok |-> TRUE, inputs |-> h.inputs, outputs |-> Change(HTR, change)]
        /\ Distinct(h.inputs, Available(available, HTR)) /\ Range(h.inputs) \cap Range(used) = {}
        /\ OfToken(Range(used), HTR) \subseteq available
        /\ Total(Range(h.inputs)) + Total(Available(Range(used), HTR)) = total + change

LEMMA HtrIsCovered ==
  ASSUME NEW available \in SUBSET KnownUtxos, NEW used, Distinct(used, KnownUtxos),
         NEW chooses \in BOOLEAN, chooses => OfToken(Range(used), HTR) = {},
         NEW total \in Nat, NEW h, Proposes(h, chooses, HTR, used, total, available)
  PROVE  HtrCovers(h, used, total, available)
<1>1. CASE h = Failed
  BY <1>1 DEF HtrCovers
<1>2. CASE h # Failed
  <2>1. PICK change \in Nat :
          /\ h = [ok |-> TRUE, inputs |-> h.inputs, outputs |-> Change(HTR, change)]
          /\ Distinct(h.inputs, Available(available, HTR))
          /\ IF chooses THEN Total(Range(h.inputs)) = total + change
             ELSE /\ h.inputs = <<>>
                  /\ OfToken(Range(used), HTR) \subseteq Available(available, HTR)
                  /\ Total(Available(Range(used), HTR)) = total + change
    BY <1>2 DEF Proposes
  <2>2. Total({}) = 0
    BY SumEmpty DEF Total
  <2>3. CASE chooses
    <3>1. OfToken(Range(used), HTR) = {} /\ Total(Range(h.inputs)) = total + change
      BY <2>1, <2>3
    <3>2. Available(Range(used), HTR) = {}
      BY <3>1 DEF OfToken, Available
    <3>3. Range(h.inputs) \cap Range(used) = {}
      <4>1. \A u \in Range(h.inputs) : UtxoOf[u].token = HTR
        BY <2>1 DEF Distinct, Range, Available
      <4> QED
        BY <3>1, <4>1 DEF OfToken
    <3>4. Total(Range(h.inputs)) + Total(Available(Range(used), HTR)) = total + change
      BY <2>2, <3>1, <3>2
    <3> QED
      BY <2>1, <3>1, <3>3, <3>4 DEF HtrCovers
  <2>4. CASE ~chooses
    <3>1. h.inputs = <<>> /\ OfToken(Range(used), HTR) \subseteq Available(available, HTR)
          /\ Total(Available(Range(used), HTR)) = total + change
      BY <2>1, <2>4
    <3>2. Range(h.inputs) = {}
      BY <3>1, DistinctNone
    <3>3. OfToken(Range(used), HTR) \subseteq available
      BY <3>1 DEF Available
    <3>4. Total(Range(h.inputs)) + Total(Available(Range(used), HTR)) = total + change
      <4>1. Total(Range(h.inputs)) = 0
        BY <2>2, <3>2
      <4> QED
        BY <3>1, <4>1
    <3> QED
      BY <2>1, <3>2, <3>3, <3>4 DEF HtrCovers
  <2> QED
    BY <2>3, <2>4
<1> QED
  BY <1>1, <1>2

\* The native change as it is, or shielded, with what was pulled for it.
Converted(c, defs, used, total, available) ==
    \/ c = Failed
    \/ \E added, v, w \in Nat :
        /\ c.ok = TRUE /\ c.addedFee = added
        /\ Distinct(c.htr.inputs, Available(available, HTR)) /\ Range(c.htr.inputs) \cap Range(used) = {}
        /\ c.htr.outputs = Change(HTR, v)
        /\ Listing(c.defs) /\ ShieldedFees(c.defs) = ShieldedFees(defs) + added
        /\ \A t : Funds(c.defs, t) = Funds(defs, t) + IF t = HTR THEN w ELSE 0
        /\ Total(Range(c.htr.inputs)) + Total(Available(Range(used), HTR)) = total + added + v + w

OneMoreShielded(more, defs, token, w, mode) ==
    /\ Listing(more) /\ ShieldedFees(more) = ShieldedFees(defs) + ShieldedFee(mode)
    /\ \A t : Funds(more, t) = Funds(defs, t) + IF t = token THEN w ELSE 0

LEMMA ShieldedOne ==
  ASSUME NEW defs, Listing(defs), NEW token, NEW w \in Nat, NEW mode,
         NEW more, more = Append(defs, ShieldedDef(token, w, mode))
  PROVE  OneMoreShielded(more, defs, token, w, mode)
<1> DEFINE d == ShieldedDef(token, w, mode)
<1>1. d.mode = mode /\ d.value = w /\ d.token = token /\ d.authorities = {}
  BY DEF ShieldedDef
<1>0. more = Append(defs, d)
  OBVIOUS
<1> HIDE DEF d
<1>2. ShieldedFees(more) = ShieldedFees(defs) + ShieldedFee(mode)
  BY <1>0, <1>1, ShieldedFeesAppend
<1>3. more = defs \o <<d>>
  BY <1>0 DEF Listing
<1>4. \A t : Listing(<<d>>) /\ Funds(<<d>>, t) = IF d.token = t /\ d.authorities = {} THEN d.value ELSE 0
  BY <1>1, FundsOfOne
<1>5. Listing(defs \o <<d>>) /\ \A t : Funds(defs \o <<d>>, t) = Funds(defs, t) + Funds(<<d>>, t)
  BY <1>4, JoinIs, FundsJoin
<1>6. ASSUME NEW t PROVE Funds(more, t) = Funds(defs, t) + IF t = token THEN w ELSE 0
  <2>1. Funds(more, t) = Funds(defs, t) + Funds(<<d>>, t)
    BY <1>3, <1>5
  <2>2. Funds(<<d>>, t) = IF t = token THEN w ELSE 0
    BY <1>1, <1>4
  <2> QED
    BY <2>1, <2>2
<1> QED
  BY <1>2, <1>3, <1>5, <1>6 DEF OneMoreShielded

\* The native inputs and the change that are replaced.
LEMMA FieldsOfHtr ==
  ASSUME NEW a, NEW b, NEW h, h = [ok |-> TRUE, inputs |-> a, outputs |-> b], NEW more,
         NEW g, g = [h EXCEPT !.inputs = @ \o more, !.outputs = <<>>]
  PROVE  g.inputs = a \o more /\ g.outputs = <<>>
<1> QED
  OBVIOUS

LEMMA HtrIsConverted ==
  ASSUME NEW available \in SUBSET KnownUtxos, NEW used, Distinct(used, KnownUtxos), NEW total \in Nat,
         NEW h, HtrCovers(h, used, total, available), h # Failed,
         NEW defs, Listing(defs), NEW mode, NEW selects
  PROVE  Converted(ConvertHtrChange(h, defs, mode, selects, Range(used), available), defs, used, total, available)
<1> DEFINE c == ConvertHtrChange(h, defs, mode, selects, Range(used), available)
           added == ShieldedFee(mode)
           change == h.outputs[1].value
           us == Spare(available, Range(used) \cup Range(h.inputs))
           pulled == Pulled(us, added - change)
           more == IF change > added THEN Selection(<<>>) ELSE pulled
           kept == [ok |-> TRUE, htr |-> h, defs |-> defs, addedFee |-> 0]
           replaced == [h EXCEPT !.inputs = @ \o more.utxos, !.outputs = <<>>]
           shown == Append(defs, ShieldedDef(HTR, change + more.amount - added, mode))
<1>1. \/ c = Failed
      \/ c = kept
      \/ /\ h.outputs # <<>> /\ ~(change + more.amount <= added)
         /\ c = [ok |-> TRUE, htr |-> replaced, defs |-> shown, addedFee |-> added]
  BY Zenon DEF ConvertHtrChange, Pulled
<1>2. PICK left \in Nat :
        /\ h = [ok |-> TRUE, inputs |-> h.inputs, outputs |-> Change(HTR, left)]
        /\ Distinct(h.inputs, Available(available, HTR)) /\ Range(h.inputs) \cap Range(used) = {}
        /\ Total(Range(h.inputs)) + Total(Available(Range(used), HTR)) = total + left
  BY DEF HtrCovers
<1>3. CASE c = Failed
  BY <1>3 DEF Converted
<1>4. CASE c = kept
  <2>1. c.ok = TRUE /\ c.htr = h /\ c.defs = defs /\ c.addedFee = 0
    <3> HIDE DEF c
    <3> QED
      BY <1>4
  <2>2. h.outputs = Change(HTR, left)
    BY <1>2
  <2>3. \A t : Funds(defs, t) = Funds(defs, t) + IF t = HTR THEN 0 ELSE 0
    BY FundsType
  <2>4. ShieldedFees(defs) = ShieldedFees(defs) + 0
    BY ShieldedFeesType
  <2>5. total + left = total + 0 + left + 0
    OBVIOUS
  <2> HIDE DEF c
  <2>6. Converted(c, defs, used, total, available)
    BY <1>2, <2>1, <2>2, <2>3, <2>4, <2>5 DEF Converted
  <2> QED
    BY <2>6 DEF c
<1>5. CASE /\ h.outputs # <<>> /\ ~(change + more.amount <= added)
           /\ c = [ok |-> TRUE, htr |-> replaced, defs |-> shown, addedFee |-> added]
  <2>1. change = left
    <3>1. h.outputs = Change(HTR, left) /\ h.outputs # <<>>
      BY <1>2, <1>5
    <3>2. h.outputs = <<Output(HTR, left, {}, "change")>>
      BY <3>1, Zenon DEF Change, Positive
    <3> QED
      BY <3>2 DEF Output
  <2>2. us \in SUBSET Available(available, HTR) /\ us \in SUBSET KnownUtxos
        /\ us \cap (Range(used) \cup Range(h.inputs)) = {}
    BY DEF Spare, Available
  <2> HIDE DEF us
  <2>3. Selected(more, us)
    <3>1. Selected(pulled, us)
      BY <2>2, PulledIs
    <3>2. Selected(Selection(<<>>), us)
      BY <2>2, SelectedNothing
    <3> HIDE DEF pulled
    <3> QED
      BY <3>1, <3>2
  <2> DEFINE extra == more.utxos
  <2>4. Distinct(extra, us) /\ more.amount = Total(Range(extra))
    <3> HIDE DEF more
    <3> QED
      BY <2>3 DEF Selected
  <2>5. Distinct(extra, Available(available, HTR)) /\ Range(extra) \in SUBSET us
    <3> HIDE DEF extra
    <3> QED
      BY <2>2, <2>4, DistinctPart
  <2>6. replaced.inputs = h.inputs \o extra /\ replaced.outputs = <<>>
    <3> DEFINE a == h.inputs
               b == h.outputs
    <3>1. h = [ok |-> TRUE, inputs |-> a, outputs |-> b]
      BY <1>2
    <3>2. replaced = [h EXCEPT !.inputs = @ \o extra, !.outputs = <<>>]
      OBVIOUS
    <3> HIDE DEF a, b, replaced, extra
    <3>3. replaced.inputs = a \o extra /\ replaced.outputs = <<>>
      BY <3>1, <3>2, FieldsOfHtr
    <3> QED
      BY <3>3 DEF a
  <2>7. c.ok = TRUE /\ c.htr = replaced /\ c.defs = shown /\ c.addedFee = added
    <3> HIDE DEF c, shown, replaced, added
    <3> QED
      BY <1>5
  <2> DEFINE w == change + more.amount - added
             others == h.inputs
  <2>8. added \in Nat
    BY ShieldedFeeType
  <2>9. Range(extra) \in SUBSET KnownUtxos /\ Range(others) \in SUBSET KnownUtxos /\ Range(used) \in SUBSET KnownUtxos
    <3>1. Range(others) \in SUBSET Available(available, HTR)
      BY <1>2 DEF Distinct, Range
    <3>2. Range(others) \in SUBSET KnownUtxos
      BY <3>1 DEF Available
    <3>3. Range(used) \in SUBSET KnownUtxos
      BY DEF Distinct, Range
    <3> HIDE DEF extra
    <3>4. Range(extra) \in SUBSET KnownUtxos
      BY <2>2, <2>5
    <3> QED
      BY <3>2, <3>3, <3>4
  <2>10. Available(Range(used), HTR) \in SUBSET KnownUtxos
    BY <2>9 DEF Available
  <2>11. Total(Range(extra)) \in Nat /\ Total(Range(others)) \in Nat /\ Total(Available(Range(used), HTR)) \in Nat
    BY <2>9, <2>10, TotalType
  <2>12. w \in Nat /\ w = left + Total(Range(extra)) - added
    <3> HIDE DEF added, more, change, extra
    <3> QED
      BY <1>5, <2>1, <2>4, <2>8, <2>11
  <2>13. Range(others) \cap Range(extra) = {} /\ Distinct(others, Available(available, HTR))
    BY <1>2, <2>2, <2>5
  <2> HIDE DEF added, change, w
  <2>14. /\ Listing(shown) /\ ShieldedFees(shown) = ShieldedFees(defs) + added
         /\ \A t : Funds(shown, t) = Funds(defs, t) + IF t = HTR THEN w ELSE 0
    <3>1. shown = Append(defs, ShieldedDef(HTR, w, mode))
      BY DEF w
    <3> HIDE DEF shown
    <3> QED
      <4>1. OneMoreShielded(shown, defs, HTR, w, mode)
        BY <2>12, <3>1, ShieldedOne
      <4> QED
        BY <4>1 DEF OneMoreShielded, added
  <2> HIDE DEF others, extra, more, shown, replaced, c
  <2>15. Distinct(others \o extra, Available(available, HTR)) /\ Range(others \o extra) = Range(others) \cup Range(extra)
    BY <2>5, <2>13, DistinctJoin
  <2>16. Total(Range(others) \cup Range(extra)) = Total(Range(others)) + Total(Range(extra))
    BY <2>9, <2>13, TotalJoin
  <2>17. Total(Range(others)) + Total(Available(Range(used), HTR)) = total + left
    BY <1>2 DEF others
  <2>18. Total(Range(others \o extra)) + Total(Available(Range(used), HTR)) = total + added + 0 + w
    BY <2>8, <2>11, <2>12, <2>15, <2>16, <2>17
  <2>19. Range(others \o extra) \cap Range(used) = {}
    BY <1>2, <2>2, <2>5, <2>15 DEF others
  <2>20. c.htr.inputs = others \o extra /\ c.htr.outputs = Change(HTR, 0)
    <3>1. Change(HTR, 0) = <<>>
      BY DEF Change, Positive
    <3> QED
      BY <2>6, <2>7, <3>1 DEF others
  <2>21. Converted(c, defs, used, total, available)
    <3>1. c.ok = TRUE /\ c.addedFee = added /\ added \in Nat /\ w \in Nat /\ 0 \in Nat
      BY <2>7, <2>8, <2>12
    <3>2. Distinct(c.htr.inputs, Available(available, HTR)) /\ Range(c.htr.inputs) \cap Range(used) = {}
      BY <2>15, <2>19, <2>20
    <3>3. /\ Listing(c.defs) /\ ShieldedFees(c.defs) = ShieldedFees(defs) + added
          /\ \A t : Funds(c.defs, t) = Funds(defs, t) + IF t = HTR THEN w ELSE 0
      BY <2>7, <2>14
    <3>4. Total(Range(c.htr.inputs)) + Total(Available(Range(used), HTR)) = total + added + 0 + w
      BY <2>18, <2>20
    <3> QED
      BY <2>20, <3>1, <3>2, <3>3, <3>4, Zenon DEF Converted
  <2> QED
    BY <2>21 DEF c
<1> QED
  BY <1>1, <1>3, <1>4, <1>5

\* A transaction with its native inputs, its change and its fee is right.
LEMMA FinishIsCorrect ==
  ASSUME NEW available \in SUBSET KnownUtxos, NEW r, NEW given,
         NEW part, Partly(part, given, available), part # Failed,
         OfToken(Range(part.inputs), HTR) \subseteq available,
         NEW fee, fee = CalculateFee(part.inputs, Public(part.outputs), <<>>) + ShieldedFees(part.defs),
         NEW c, Converted(c, part.defs, part.inputs, fee + Funds(part.outputs, HTR), available)
  PROVE  FinishTx(r, part, fee, c) = Failed \/ Correct(FinishTx(r, part, fee, c), available)
<1> DEFINE public == Public(part.outputs)
           used == part.inputs
           defs == part.defs
           more == c.htr.inputs
           change == c.htr.outputs
           inputs == used \o more
           outputs == public \o change
           listed == ((InputTokensOf(r) \cup OutputTokensOf(r)) \ {HTR}) \cap VisibleTokens(outputs, c.defs)
           x == [Tx(inputs, outputs, fee + c.addedFee) EXCEPT !.shielded = c.defs, !.tokens = listed]
           final == FinishTx(r, part, fee, c)
<1>1. final = Failed \/ (c.ok /\ final = x)
  BY Zenon DEF FinishTx
<1>2. CASE final = Failed
  BY <1>2
<1>3. CASE final # Failed
  <2>1. c.ok /\ final = x
    BY <1>1, <1>3
  <2>2. PICK added \in Nat, v \in Nat, w \in Nat :
          /\ c.ok = TRUE /\ c.addedFee = added
          /\ Distinct(more, Available(available, HTR)) /\ Range(more) \cap Range(used) = {}
          /\ change = Change(HTR, v)
          /\ Listing(c.defs) /\ ShieldedFees(c.defs) = ShieldedFees(defs) + added
          /\ \A t : Funds(c.defs, t) = Funds(defs, t) + IF t = HTR THEN w ELSE 0
          /\ Total(Range(more)) + Total(Available(Range(used), HTR))
             = fee + Funds(part.outputs, HTR) + added + v + w
    <3>1. c # Failed
      BY <2>1 DEF Failed
    <3> QED
      BY <3>1 DEF Converted
  <2>3. /\ Distinct(used, KnownUtxos)
        /\ \A u \in Range(used) : UtxoOf[u].token # HTR => u \in available
        /\ Listing(defs) /\ Listing(part.outputs)
        /\ \A t \in Tokens : Total(Available(Range(used), t)) = Funds(public, t) + Funds(defs, t)
        /\ Funds(part.outputs, HTR) = Funds(public, HTR) + Funds(defs, HTR)
    BY DEF Partly
  <2>4. x.inputs = inputs /\ x.outputs = outputs /\ x.fee = fee + added /\ x.shielded = c.defs /\ x.actions = <<>>
    BY <2>2 DEF Tx
  <2> HIDE DEF x, listed, final
  <2>5. Listing(public)
    BY <2>3, HiddenAndPublic
  <2> HIDE DEF public, used, defs, more, change
  <2>6. Distinct(more, KnownUtxos) /\ Distinct(more, available)
    <3>1. Available(available, HTR) \in SUBSET KnownUtxos /\ Available(available, HTR) \in SUBSET available
      BY DEF Available
    <3> QED
      BY <2>2, <3>1, DistinctPart
  <2>7. /\ Distinct(inputs, KnownUtxos) /\ Range(inputs) = Range(used) \cup Range(more)
        /\ \A t : /\ Available(Range(inputs), t) = Available(Range(used), t) \cup Available(Range(more), t)
                  /\ Total(Available(Range(inputs), t))
                     = Total(Available(Range(used), t)) + Total(Available(Range(more), t))
                  /\ Total(Available(Range(used), t)) \in Nat /\ Total(Available(Range(more), t)) \in Nat
    <3>1. Range(used) \cap Range(more) = {}
      BY <2>2
    <3>2. ASSUME NEW t
          PROVE  /\ Distinct(inputs, KnownUtxos) /\ Range(inputs) = Range(used) \cup Range(more)
                 /\ Available(Range(inputs), t) = Available(Range(used), t) \cup Available(Range(more), t)
                 /\ Total(Available(Range(inputs), t))
                    = Total(Available(Range(used), t)) + Total(Available(Range(more), t))
                 /\ Total(Available(Range(used), t)) \in Nat /\ Total(Available(Range(more), t)) \in Nat
      BY <2>3, <2>6, <3>1, SpentJoin
    <3> QED
      BY <3>2
  <2>8. Range(more) \in SUBSET Available(available, HTR)
    BY <2>2 DEF Distinct, Range
  <2>9. \A t : /\ Available(Range(more), t) = IF t = HTR THEN Range(more) ELSE {}
               /\ Total(Available(Range(more), t)) = IF t = HTR THEN Total(Range(more)) ELSE 0
               /\ Total(Range(more)) \in Nat
    <3> DEFINE us == Range(more)
    <3>1. us \in SUBSET Available(available, HTR)
      BY <2>8
    <3> HIDE DEF us
    <3>2. ASSUME NEW t
          PROVE  /\ Available(us, t) = IF t = HTR THEN us ELSE {}
                 /\ Total(Available(us, t)) = IF t = HTR THEN Total(us) ELSE 0
                 /\ Total(us) \in Nat
      <4>1. /\ us \in SUBSET KnownUtxos /\ us \in SUBSET available
            /\ Available(us, t) = IF t = HTR THEN us ELSE {}
            /\ Total(Available(us, t)) = IF t = HTR THEN Total(us) ELSE 0
            /\ Total(us) \in Nat
        BY ONLY available \in SUBSET KnownUtxos, <3>1, SpentFor, Zenon
      <4> QED
        BY <4>1
    <3> QED
      BY <3>2 DEF us
  <2>10. \A t : /\ Listing(change) /\ Funds(change, t) = IF HTR = t THEN v ELSE 0
                /\ Cardinality(Carriers(change, t)) = IF HTR = t /\ v # 0 THEN 1 ELSE 0
    BY <2>2, FundsOfChange
  <2>11. Distinct(used, available)
    <3>1. \A u \in Range(used) : u \in available
      BY <2>3 DEF OfToken, used
    <3>2. \A i \in 1..Len(used) : used[i] \in available
      BY <2>3, <3>1 DEF Distinct, Range
    <3>3. used \in Seq(available)
      BY <2>3, <3>2 DEF Distinct
    <3> QED
      BY <2>3, <3>3 DEF Distinct
  <2>12. Distinct(inputs, available)
    BY <2>2, <2>6, <2>11, DistinctJoin
  <2>13. /\ Listing(outputs)
         /\ \A t : /\ Funds(outputs, t) = Funds(public, t) + Funds(change, t)
                   /\ Cardinality(Carriers(outputs, t)) = Cardinality(Carriers(public, t)) + Cardinality(Carriers(change, t))
                   /\ Funds(public, t) \in Nat /\ Cardinality(Carriers(public, t)) \in Nat
    BY <2>5, <2>10, JoinIs, FundsJoin, FundsType
  <2>14. \A t : Funds(defs, t) \in Nat /\ Funds(c.defs, t) \in Nat
    BY <2>2, <2>3, FundsType
  <2> HIDE DEF inputs, outputs
  <2> DEFINE owed == SumFunctionOnSet([t \in FeeTokens |-> Owed(Range(used), public, t)], FeeTokens)
  <2>15. fee = FeePerOutput * owed + ShieldedFees(defs)
    BY <2>3, <2>5, CalculatedFee DEF used, public, defs
  <2>16. owed \in Nat
    <3>1. \A t \in FeeTokens : [k \in FeeTokens |-> Owed(Range(used), public, k)][t] \in Nat
      BY <2>5, OwedType
    <3>2. IsFiniteSet(FeeTokens)
      BY TokensPayFees
    <3> QED
      BY <3>1, <3>2, SumNat
  <2> HIDE DEF owed
  <2>17. ShieldedFees(defs) \in Nat /\ fee \in Nat
    <3>1. ShieldedFees(defs) \in Nat
      BY <2>3, ShieldedFeesType
    <3>2. FeePerOutput \in Nat
      BY TokensPayFees
    <3>3. FeePerOutput * owed \in Nat
      BY <2>16, <3>2
    <3> QED
      BY <2>15, <3>1, <3>3
  <2>18. Simple(x)
    <3>1. fee + added \in Nat
      BY <2>17
    <3> QED
      BY <2>2, <2>4, <2>7, <2>13, <3>1 DEF Simple
  <2>19. \A t : /\ Excess(x, t) = Funds(outputs, t) + Funds(c.defs, t) - Total(Available(Range(inputs), t))
                /\ Excess(x, t) \in Int
    BY <2>4, <2>18, SimpleExcess
  <2>20. ASSUME NEW t \in Tokens PROVE Excess(x, t) = 0
    <3>1. t # HTR
      BY HtrIsApart
    <3>2. Funds(outputs, t) = Funds(public, t) /\ Funds(c.defs, t) = Funds(defs, t)
      BY <2>2, <2>10, <2>13, <2>14, <3>1
    <3>3. Total(Available(Range(inputs), t)) = Funds(public, t) + Funds(defs, t)
      <4>1. Total(Available(Range(more), t)) = 0
        BY <2>9, <3>1
      <4>2. Total(Available(Range(used), t)) = Funds(public, t) + Funds(defs, t)
        BY <2>3
      <4>3. Total(Available(Range(inputs), t)) = Total(Available(Range(used), t)) + Total(Available(Range(more), t))
        BY <2>7
      <4> QED
        BY <2>13, <2>14, <4>1, <4>2, <4>3
    <3> QED
      BY <2>13, <2>14, <2>19, <3>2, <3>3
  <2>21. Excess(x, HTR) + x.fee = 0
    <3>1. Funds(outputs, HTR) = Funds(public, HTR) + v /\ Funds(c.defs, HTR) = Funds(defs, HTR) + w
      BY <2>2, <2>10, <2>13
    <3>2. Total(Available(Range(inputs), HTR)) = Total(Available(Range(used), HTR)) + Total(Range(more))
      BY <2>7, <2>9
    <3>3. Total(Range(more)) + Total(Available(Range(used), HTR))
          = fee + (Funds(public, HTR) + Funds(defs, HTR)) + added + v + w
      BY <2>2, <2>3
    <3>4. Total(Range(more)) \in Nat /\ Total(Available(Range(used), HTR)) \in Nat
      BY <2>7, <2>9
    <3>5. Funds(public, HTR) \in Nat /\ Funds(defs, HTR) \in Nat
      BY <2>13, <2>14
    <3>6. Excess(x, HTR) = Funds(outputs, HTR) + Funds(c.defs, HTR) - Total(Available(Range(inputs), HTR))
      BY <2>19
    <3> DEFINE a == Funds(public, HTR)
               b == Funds(defs, HTR)
               total == Total(Available(Range(inputs), HTR))
               excess == Excess(x, HTR)
    <3>7. /\ excess = (a + v) + (b + w) - total /\ total = fee + (a + b) + added + v + w
          /\ a \in Nat /\ b \in Nat /\ x.fee = fee + added
      <4>1. total = fee + (a + b) + added + v + w
        BY <3>2, <3>3, <3>4
      <4> QED
        BY <2>4, <3>1, <3>5, <3>6, <4>1
    <3> HIDE DEF a, b, total, excess
    <3>8. excess + (fee + added) = 0
      <4>1. excess = (a + v) + (b + w) - (fee + (a + b) + added + v + w)
        BY <3>7
      <4>2. a \in Nat /\ b \in Nat /\ fee \in Nat
        BY <2>17, <3>7
      <4>3. added \in Nat /\ v \in Nat /\ w \in Nat
        OBVIOUS
      <4> QED
        BY ONLY <4>1, <4>2, <4>3
    <3>9. excess + x.fee = 0
      BY <3>7, <3>8
    <3> QED
      BY <3>9 DEF excess
  <2>22. Balanced(x)
    BY <2>20, <2>21, BalancedWhenMoved
  <2>23. \A t \in FeeTokens : Due(x, t) = Owed(Range(used), public, t)
    <3> SUFFICES ASSUME NEW t \in FeeTokens PROVE Due(x, t) = Owed(Range(used), public, t)
      OBVIOUS
    <3>1. t # HTR
      BY HtrIsApart
    <3>2. Cardinality(Carriers(outputs, t)) = Cardinality(Carriers(public, t))
      <4>1. Cardinality(Carriers(change, t)) = 0
        BY <2>10, <3>1
      <4> QED
        BY <2>13, <4>1
    <3>3. Available(Range(inputs), t) = Available(Range(used), t)
      BY <2>7, <2>9, <3>1
    <3> QED
      BY <2>4, <3>2, <3>3 DEF Due, Owed
  <2>24. FeeIsRight(x)
    <3>1. SumFunction([t \in Tokens |-> FeeDue(x, t)])
          = FeePerOutput * SumFunctionOnSet([t \in FeeTokens |-> Due(x, t)], FeeTokens)
      BY <2>18, FeeIsDue
    <3>2. [t \in FeeTokens |-> Due(x, t)] = [t \in FeeTokens |-> Owed(Range(used), public, t)]
      BY <2>23
    <3>3. SumFunction([t \in Tokens |-> FeeDue(x, t)]) = FeePerOutput * owed
      BY <3>1, <3>2 DEF owed
    <3>4. FeePerOutput * owed \in Nat
      <4>1. FeePerOutput \in Nat
        BY TokensPayFees
      <4> QED
        BY <2>16, <4>1
    <3> DEFINE dues == SumFunction([t \in Tokens |-> FeeDue(x, t)])
               product == FeePerOutput * owed
    <3> HIDE DEF dues, product
    <3>5. dues = product /\ product \in Nat /\ fee = product + ShieldedFees(defs)
      BY <2>15, <3>3, <3>4 DEF dues, product
    <3>6. x.fee = dues + ShieldedFees(x.shielded)
      BY <2>2, <2>4, <2>17, <3>5
    <3> QED
      BY <3>6 DEF FeeIsRight, dues
  <2>25. Correct(x, available)
    BY <2>4, <2>12, <2>18, <2>22, <2>24 DEF Correct
  <2> QED
    BY <2>1, <2>25 DEF final
<1> QED
  BY <1>2, <1>3

\* The fee that is worked out once the custom tokens are covered.
LEMMA PartFee ==
  ASSUME NEW part, Distinct(part.inputs, KnownUtxos), Listing(part.outputs), Listing(part.defs)
  PROVE  CalculateFee(part.inputs, Public(part.outputs), <<>>) + ShieldedFees(part.defs) \in Nat
<1> DEFINE public == Public(part.outputs)
           f == [t \in FeeTokens |-> Owed(Range(part.inputs), public, t)]
<1>1. Listing(public)
  BY HiddenAndPublic
<1> HIDE DEF public
<1>2. CalculateFee(part.inputs, public, <<>>) = FeePerOutput * SumFunctionOnSet(f, FeeTokens)
  BY <1>1, CalculatedFee
<1>3. \A t \in FeeTokens : f[t] \in Nat
  BY <1>1, OwedType
<1>4. IsFiniteSet(FeeTokens) /\ FeePerOutput \in Nat
  BY TokensPayFees
<1> HIDE DEF f
<1>5. SumFunctionOnSet(f, FeeTokens) \in Nat
  BY <1>3, <1>4, SumNat
<1>6. CalculateFee(part.inputs, public, <<>>) \in Nat
  BY <1>2, <1>4, <1>5
<1>7. ShieldedFees(part.defs) \in Nat
  BY ShieldedFeesType
<1> QED
  BY <1>6, <1>7 DEF public

\* The native token covers what is sent of it, and the fee.
LEMMA CoverIsCorrect ==
  ASSUME NEW available \in SUBSET KnownUtxos, NEW r, Asked(r),
         NEW part, Partly(part, r.inputs, available), part # Failed,
         NEW fee, fee = CalculateFee(part.inputs, Public(part.outputs), <<>>) + ShieldedFees(part.defs)
  PROVE  CoverHtr(r, part, fee, available) = Failed \/ Correct(CoverHtr(r, part, fee, available), available)
<1> DEFINE chooses == /\ HTR \notin InputTokensOf(r)
                      /\ HTR \in OutputTokensOf(r) \/ fee > 0
           h == PrepareSendTokensData(HTR, chooses, part.inputs, part.outputs, fee, available)
           c == ConvertHtrChange(h, part.defs, r.mode, chooses, Range(part.inputs), available)
           x == CoverHtr(r, part, fee, available)
           total == fee + Funds(part.outputs, HTR)
<1>1. x = Failed \/ (h.ok /\ x = FinishTx(r, part, fee, c))
  BY Zenon DEF CoverHtr
<1>2. CASE x = Failed
  BY <1>2
<1>3. CASE x # Failed
  <2>1. h.ok /\ x = FinishTx(r, part, fee, c)
    BY <1>1, <1>3
  <2>2. /\ Distinct(part.inputs, KnownUtxos) /\ Listing(part.outputs) /\ Listing(part.defs)
        /\ OfToken(Range(part.inputs), HTR) = OfToken(Range(r.inputs), HTR)
    BY DEF Partly
  <2>3. fee \in Nat /\ total \in Nat
    <3>1. fee \in Nat
      BY <2>2, PartFee
    <3>2. Funds(part.outputs, HTR) \in Nat
      BY <2>2, FundsType
    <3> QED
      BY <3>1, <3>2
  <2>4. chooses \in BOOLEAN /\ (chooses => OfToken(Range(part.inputs), HTR) = {})
    <3>1. HTR \notin InputTokensOf(r) => OfToken(Range(r.inputs), HTR) = {}
      BY TokenMapIs
    <3> QED
      BY <2>2, <3>1
  <2> HIDE DEF chooses
  <2>5. Proposes(h, chooses, HTR, part.inputs, total, available)
    <3> DEFINE used == part.inputs
               outputs == part.outputs
    <3>1. h = PrepareSendTokensData(HTR, chooses, used, outputs, fee, available)
          /\ total = fee + Funds(outputs, HTR) /\ Distinct(used, KnownUtxos) /\ Listing(outputs)
      BY <2>2
    <3> HIDE DEF used, outputs, h, total
    <3>2. Proposes(h, chooses, HTR, used, total, available)
      BY <2>3, <2>4, <3>1, SendTokensProposes
    <3> QED
      BY <3>2 DEF used
  <2> HIDE DEF h, total
  <2>6. HtrCovers(h, part.inputs, total, available)
    <3> DEFINE used == part.inputs
    <3>1. Distinct(used, KnownUtxos) /\ (chooses => OfToken(Range(used), HTR) = {})
          /\ Proposes(h, chooses, HTR, used, total, available)
      BY <2>2, <2>4, <2>5
    <3> HIDE DEF used
    <3>2. HtrCovers(h, used, total, available)
      BY <2>3, <2>4, <3>1, HtrIsCovered
    <3> QED
      BY <3>2 DEF used
  <2>7. h # Failed
    BY <2>1 DEF Failed
  <2>8. Converted(c, part.defs, part.inputs, total, available)
    <3> DEFINE used == part.inputs
               defs == part.defs
               mode == r.mode
    <3>1. c = ConvertHtrChange(h, defs, mode, chooses, Range(used), available)
          /\ Distinct(used, KnownUtxos) /\ Listing(defs) /\ HtrCovers(h, used, total, available)
      BY <2>2, <2>6
    <3> HIDE DEF used, defs, mode, c
    <3>2. Converted(c, defs, used, total, available)
      BY <2>3, <2>7, <3>1, HtrIsConverted
    <3> QED
      BY <3>2 DEF used, defs
  <2>9. OfToken(Range(part.inputs), HTR) \subseteq available
    BY <2>6, <2>7 DEF HtrCovers
  <2> HIDE DEF c
  <2>10. FinishTx(r, part, fee, c) = Failed \/ Correct(FinishTx(r, part, fee, c), available)
    <3> DEFINE given == r.inputs
    <3>1. Partly(part, given, available)
      OBVIOUS
    <3> HIDE DEF given
    <3>2. Converted(c, part.defs, part.inputs, fee + Funds(part.outputs, HTR), available)
      BY <2>8 DEF total
    <3> QED
      BY <2>9, <3>1, <3>2, FinishIsCorrect
  <2> QED
    BY <2>1, <2>10
<1> QED
  BY <1>2, <1>3

\* prepareTx() of the wallet facade.
LEMMA SendIsCorrect ==
  ASSUME NEW available \in SUBSET KnownUtxos, NEW r, Asked(r)
  PROVE  PreparedTx(r, available) = Failed \/ Correct(PreparedTx(r, available), available)
<1> DEFINE tokenMap == TokenMap(InputTokensOf(r), OutputTokensOf(r))
           many == PrepareSendManyTokensData(tokenMap, r.inputs, r.outputs, available)
           part == PartialTx(r, ExplicitDefs(r.outputs), many)
           fee == CalculateFee(part.inputs, Public(part.outputs), <<>>) + ShieldedFees(part.defs)
           x == PrepareTxData(r, available)
<1>1. PreparedTx(r, available) = Failed \/ PreparedTx(r, available) = x
  BY Zenon DEF PreparedTx
<1>2. x = Failed \/ (part.ok /\ x = CoverHtr(r, part, fee, available))
  BY Zenon DEF PrepareTxData
<1>3. /\ \A t \in DOMAIN tokenMap : /\ tokenMap[t] \in BOOLEAN
                                    /\ tokenMap[t] => OfToken(Range(r.inputs), t) = {}
      /\ DOMAIN tokenMap \subseteq Tokens
      /\ \A t \in Tokens \ DOMAIN tokenMap : OfToken(Range(r.inputs), t) = {} /\ Funds(r.outputs, t) = 0
  BY TokenMapIs
<1>4. Distinct(r.inputs, KnownUtxos) /\ Listing(r.outputs)
  BY DEF Asked, Valued
<1> HIDE DEF tokenMap
<1>5. SendsMany(many, DOMAIN tokenMap, r.inputs, r.outputs, available)
  <2> DEFINE inputs == r.inputs
             outputs == r.outputs
  <2>1. /\ many = PrepareSendManyTokensData(tokenMap, inputs, outputs, available)
        /\ Distinct(inputs, KnownUtxos) /\ Listing(outputs)
        /\ \A t \in DOMAIN tokenMap : tokenMap[t] \in BOOLEAN /\ (tokenMap[t] => OfToken(Range(inputs), t) = {})
    BY <1>3, <1>4
  <2> HIDE DEF many, inputs, outputs
  <2>2. SendsMany(PrepareSendManyTokensData(tokenMap, inputs, outputs, available), DOMAIN tokenMap \cap Tokens,
                  inputs, outputs, available)
    BY <2>1, SendManyCovers
  <2>3. DOMAIN tokenMap \cap Tokens = DOMAIN tokenMap
    BY <1>3
  <2>4. SendsMany(many, DOMAIN tokenMap, inputs, outputs, available)
    BY <2>1, <2>2, <2>3
  <2> QED
    BY <2>4 DEF inputs, outputs
<1> HIDE DEF many
<1>6. Partly(part, r.inputs, available)
  <2> DEFINE T == DOMAIN tokenMap
  <2>1. /\ T \subseteq Tokens /\ SendsMany(many, T, r.inputs, r.outputs, available)
        /\ \A t \in Tokens \ T : OfToken(Range(r.inputs), t) = {} /\ Funds(r.outputs, t) = 0
    BY <1>3, <1>5
  <2> HIDE DEF T
  <2> QED
    BY <2>1, PartialIs
<1> HIDE DEF part
<1>7. part.ok => part # Failed
  BY DEF Failed
<1>8. part # Failed => (CoverHtr(r, part, fee, available) = Failed
                        \/ Correct(CoverHtr(r, part, fee, available), available))
  <2> SUFFICES ASSUME part # Failed
               PROVE  CoverHtr(r, part, fee, available) = Failed
                      \/ Correct(CoverHtr(r, part, fee, available), available)
    OBVIOUS
  <2>1. fee = CalculateFee(part.inputs, Public(part.outputs), <<>>) + ShieldedFees(part.defs)
    OBVIOUS
  <2> HIDE DEF fee
  <2> QED
    BY <1>6, <2>1, CoverIsCorrect
<1> HIDE DEF x, fee
<1>9. x = Failed \/ Correct(x, available)
  BY <1>2, <1>7, <1>8
<1> QED
  BY <1>1, <1>9

-----------------------------------------------------------------------------
(* The consolidation of the utxos of a token *)

\* What is sent is what the inputs bring.
LEMMA ConsolidateIsCorrect ==
  ASSUME NEW available \in SUBSET KnownUtxos, NEW r, r.token \in Tokens \cup {HTR}
  PROVE  \/ PrepareConsolidateUtxosData(r, available) = Failed
         \/ Correct(PrepareConsolidateUtxosData(r, available), available)
<1> DEFINE token == r.token
           us == {u \in Available(available, token) : ~UtxoOf[u].shielded}
           all == Sorted(us, Stored)
           k == Min({Len(all), MaxInputs})
           inputs == SubSeq(all, 1, k)
           total == Received(inputs, token)
           o == Output(token, total, {}, "plain")
           asked == [inputs |-> inputs, mode |-> "none", outputs |-> <<o>>]
           x == PrepareConsolidateUtxosData(r, available)
<1>1. x = Failed \/ x = PreparedTx(asked, available)
  BY Zenon DEF PrepareConsolidateUtxosData
<1>2. us \in SUBSET KnownUtxos /\ us \in SUBSET available
  BY DEF Available
<1> HIDE DEF us
<1>3. Distinct(all, us) /\ Enumerates(all, us) /\ IsFiniteSet(us)
  BY <1>2, SortedIsDistinct, UtxosSorted
<1>4. Cardinality(us) \in Nat /\ Len(all) = Cardinality(us)
  BY <1>2, <1>3, NothingToSort, FS_CardinalityType
<1>5. k \in 0..Cardinality(us)
  <2>1. MaxInputs \in Nat
    BY TxFundsAssumption
  <2>2. {Len(all), MaxInputs} \in SUBSET Nat /\ {Len(all), MaxInputs} # {}
    BY <1>4, <2>1
  <2>3. k \in {Len(all), MaxInputs} /\ \A y \in {Len(all), MaxInputs} : k <= y
    BY <2>2, MinIsLeast
  <2> HIDE DEF k
  <2> QED
    BY <1>4, <2>1, <2>3
<1> HIDE DEF all, k
<1>6. Distinct(inputs, us)
  BY <1>3, <1>5, Prefix
<1>7. Distinct(inputs, KnownUtxos)
  <2> HIDE DEF inputs
  <2> QED
    BY <1>2, <1>6, DistinctPart
<1> HIDE DEF inputs
<1>8. total \in Nat
  <2>1. total = Total(Available(Range(inputs), token))
    BY <1>7, ReceivedIs
  <2>2. Available(Range(inputs), token) \in SUBSET KnownUtxos
    BY <1>7 DEF Distinct, Range, Available
  <2> QED
    BY <2>1, <2>2, TotalType
<1> HIDE DEF total
<1>9. o.token = token /\ o.value = total /\ o.authorities = {}
  BY DEF Output
<1> HIDE DEF o
<1>10. Valued(<<o>>) /\ \A i \in DOMAIN <<o>> : <<o>>[i].token \in Tokens \cup {HTR}
  <2>1. Listing(<<o>>)
    BY <1>8, <1>9, FundsOfOne
  <2>2. \A i \in DOMAIN <<o>> : <<o>>[i] = o
    OBVIOUS
  <2> QED
    BY <1>9, <2>1, <2>2 DEF Valued
<1>11. asked.inputs = inputs /\ asked.outputs = <<o>>
  OBVIOUS
<1> HIDE DEF asked
<1>12. Asked(asked)
  BY <1>7, <1>10, <1>11 DEF Asked
<1>13. PreparedTx(asked, available) = Failed \/ Correct(PreparedTx(asked, available), available)
  BY <1>12, SendIsCorrect
<1> HIDE DEF x
<1>14. x = Failed \/ Correct(x, available)
  BY <1>1, <1>13
<1> QED
  BY <1>14 DEF x

-----------------------------------------------------------------------------
(* What the calls return is right *)

\* createNFT() of the wallet service charges the data outputs of a token that pays fees.
ChargesData(r) == r.builder = "service_create" /\ r.nft /\ r.token \in FeeTokens

\* What is not a failure is right.
Right(x, available, exact) ==
    x.ok => /\ Simple(x) /\ Distinct(x.inputs, available) /\ Balanced(x)
            /\ exact => FeeIsRight(x)

LEMMA RightWhenCorrect ==
  ASSUME NEW x, NEW available, x = Failed \/ Correct(x, available), NEW exact
  PROVE  Right(x, available, exact)
<1> QED
  BY DEF Right, Correct, Failed

\* What a request asks for.
LEMMA RequestIs ==
  ASSUME NEW r \in Requests
  PROVE  /\ r.wallet \subseteq KnownUtxos /\ r.builder \in Builders
         /\ r.builder \in {"send", "service_send", "service_data"} =>
                Asked(r) /\ r.inputs \in Seq(KnownUtxos) /\ IsInjective(r.inputs)
         /\ r.builder = "consolidate" => r.token \in Tokens \cup {HTR}
         /\ r.builder \in {"mint", "melt", "create", "service_create", "service_mint", "service_melt"} =>
                r.token \in Tokens /\ r.amount \in Nat
         /\ r.builder \in {"mint", "melt", "create", "service_create"} => r.data \in Nat
         /\ r.builder \in {"destroy", "service_destroy"} => r.amount \in Nat
<1>1. ASSUME r.builder \in {"send", "service_send", "service_data"}
      PROVE  Asked(r) /\ r.inputs \in Seq(KnownUtxos) /\ IsInjective(r.inputs)
  <2>1. /\ r.inputs \in Seq(KnownUtxos) /\ IsInjective(r.inputs)
        /\ r.outputs \in Seq(Range(r.outputs))
        /\ \A i \in DOMAIN r.outputs :
              /\ r.outputs[i].token \in Tokens \cup {HTR}
              /\ r.outputs[i].value \in Nat /\ r.outputs[i].authorities = {}
    BY <1>1, RequestsAssumption
  <2>2. Distinct(r.inputs, KnownUtxos)
    BY <2>1 DEF Distinct, IsInjective
  <2>3. DOMAIN r.outputs = 1..Len(r.outputs)
    BY <2>1
  <2>4. Valued(r.outputs)
    BY <2>1, <2>3 DEF Valued, Listing
  <2> QED
    BY <2>1, <2>2, <2>4 DEF Asked
<1> QED
  BY <1>1, RequestsAssumption

\* What every builder prepares, but those of nano contracts and templates.
LEMMA PreparedIsRight ==
  ASSUME NEW r \in Requests, r.builder \notin {"nano", "template"}, NEW available \in SUBSET r.wallet
  PROVE  Right(Prepared(r, available), available, ~ChargesData(r))
<1> DEFINE x == Prepared(r, available)
           exact == ~ChargesData(r)
<1>1. available \in SUBSET KnownUtxos
  BY RequestIs
<1>2. CASE r.builder = "send"
  <2>1. x = PreparedTx(r, available)
    BY <1>2 DEF Prepared
  <2>2. x = Failed \/ Correct(x, available)
    BY <1>1, <1>2, <2>1, RequestIs, SendIsCorrect
  <2> QED
    BY <2>2, RightWhenCorrect
<1>3. CASE r.builder = "consolidate"
  <2>1. x = PrepareConsolidateUtxosData(r, available)
    BY <1>3 DEF Prepared
  <2>2. x = Failed \/ Correct(x, available)
    BY <1>1, <1>3, <2>1, RequestIs, ConsolidateIsCorrect
  <2> QED
    BY <2>2, RightWhenCorrect
<1>4. CASE r.builder = "mint"
  <2>1. x = PrepareMintTokens(r, available)
    BY <1>4 DEF Prepared
  <2>2. x = Failed \/ Correct(x, available)
    BY <1>1, <1>4, <2>1, RequestIs, MintIsCorrect
  <2> QED
    BY <2>2, RightWhenCorrect
<1>5. CASE r.builder = "melt"
  <2>1. x = PrepareMeltTokens(r, available)
    BY <1>5 DEF Prepared
  <2>2. x = Failed \/ Correct(x, available)
    BY <1>1, <1>5, <2>1, RequestIs, MeltIsCorrect
  <2> QED
    BY <2>2, RightWhenCorrect
<1>6. CASE r.builder = "create"
  <2>1. x = PrepareCreateNewToken(r, available)
    BY <1>6 DEF Prepared
  <2>2. x = Failed \/ Correct(x, available)
    BY <1>1, <1>6, <2>1, RequestIs, CreateIsCorrect
  <2> QED
    BY <2>2, RightWhenCorrect
<1>7. CASE r.builder = "delegate"
  <2>1. x = PrepareDelegateAuthority(r, available)
    BY <1>7 DEF Prepared
  <2>2. x = Failed \/ Correct(x, available)
    BY <1>1, <2>1, DelegateIsCorrect
  <2> QED
    BY <2>2, RightWhenCorrect
<1>8. CASE r.builder = "destroy"
  <2>1. x = PrepareDestroyAuthority(r, available)
    BY <1>8 DEF Prepared
  <2>2. x = Failed \/ Correct(x, available)
    BY <1>1, <1>8, <2>1, RequestIs, DestroyIsCorrect
  <2> QED
    BY <2>2, RightWhenCorrect
<1>9. CASE r.builder = "select"
  <2>1. x.ok = FALSE
    BY <1>9 DEF Prepared
  <2> QED
    BY <2>1 DEF Right
<1>10. CASE r.builder = "service_send"
  <2> DEFINE inputs == r.inputs
             outputs == r.outputs
  <2>1. x = ServiceTx(PrepareServiceTx(Send(inputs, outputs, 0), available), outputs)
    BY <1>10 DEF Prepared
  <2>2. /\ Valued(outputs) /\ \A i \in DOMAIN outputs : outputs[i].token \in Tokens \cup {HTR}
        /\ inputs \in Seq(KnownUtxos) /\ IsInjective(inputs)
    BY <1>10, RequestIs DEF Asked
  <2> HIDE DEF inputs, outputs
  <2>3. LET y == ServiceTx(PrepareServiceTx(Send(inputs, outputs, 0), available), outputs)
        IN  y = Failed \/ Correct(y, available)
    BY <1>1, <2>2, ServiceSendIsCorrect
  <2>4. x = Failed \/ Correct(x, available)
    BY <2>1, <2>3
  <2> QED
    BY <2>4, RightWhenCorrect
<1>11. CASE r.builder = "service_data"
  <2> DEFINE inputs == r.inputs
             outputs == r.outputs
  <2>1. x = ServiceTx(PrepareServiceTxData(Send(inputs, outputs, 0), available), outputs)
    BY <1>11 DEF Prepared
  <2>2. /\ Valued(outputs) /\ \A i \in DOMAIN outputs : outputs[i].token \in Tokens \cup {HTR}
        /\ inputs \in Seq(KnownUtxos) /\ IsInjective(inputs)
    BY <1>11, RequestIs DEF Asked
  <2> HIDE DEF inputs, outputs
  <2>3. LET y == ServiceTx(PrepareServiceTxData(Send(inputs, outputs, 0), available), outputs)
        IN  y = Failed \/ Correct(y, available)
    BY <1>1, <2>2, ServiceDataIsCorrect
  <2>4. x = Failed \/ Correct(x, available)
    BY <2>1, <2>3
  <2> QED
    BY <2>4, RightWhenCorrect
<1>12. CASE r.builder = "service_create"
  <2>1. x = PrepareServiceCreate(r, available)
    BY <1>12 DEF Prepared
  <2>2. \/ x = Failed
        \/ /\ Simple(x) /\ Distinct(x.inputs, available) /\ Balanced(x)
           /\ ~r.nft \/ r.token \notin FeeTokens => FeeIsRight(x)
    BY <1>1, <1>12, <2>1, RequestIs, ServiceCreateIsCorrect
  <2> QED
    BY <1>12, <2>2 DEF Right, ChargesData, Failed
<1>13. CASE r.builder = "service_mint"
  <2>1. x = PrepareServiceMint(r, available)
    BY <1>13 DEF Prepared
  <2>2. x = Failed \/ Correct(x, available)
    BY <1>1, <1>13, <2>1, RequestIs, ServiceMintIsCorrect
  <2> QED
    BY <2>2, RightWhenCorrect
<1>14. CASE r.builder = "service_melt"
  <2>1. x = PrepareServiceMelt(r, available)
    BY <1>14 DEF Prepared
  <2>2. x = Failed \/ Correct(x, available)
    BY <1>1, <1>14, <2>1, RequestIs, ServiceMeltIsCorrect
  <2> QED
    BY <2>2, RightWhenCorrect
<1>15. CASE r.builder = "service_delegate"
  <2>1. x = PrepareServiceDelegate(r, available)
    BY <1>15 DEF Prepared
  <2>2. x = Failed \/ Correct(x, available)
    BY <1>1, <2>1, DelegateIsCorrect
  <2> QED
    BY <2>2, RightWhenCorrect
<1>16. CASE r.builder = "service_destroy"
  <2>1. x = PrepareServiceDestroy(r, available)
    BY <1>16 DEF Prepared
  <2>2. x = Failed \/ Correct(x, available)
    BY <1>1, <1>16, <2>1, RequestIs, DestroyIsCorrect
  <2> QED
    BY <2>2, RightWhenCorrect
<1> QED
  BY <1>2, <1>3, <1>4, <1>5, <1>6, <1>7, <1>8, <1>9, <1>10, <1>11, <1>12, <1>13, <1>14, <1>15, <1>16,
     RequestIs DEF Builders

LEMMA ReturnsAreRight ==
  TxInv /\ request.builder \notin {"nano", "template"} => Right(tx, free, ~ChargesData(request))
<1> SUFFICES ASSUME TxInv, request.builder \notin {"nano", "template"}
             PROVE  Right(tx, free, ~ChargesData(request))
  OBVIOUS
<1>1. request \in Requests /\ free \in SUBSET request.wallet
  BY DEF TxInv
<1>2. CASE tx = None
  BY <1>2 DEF Right, None
<1>3. CASE tx = Prepared(request, free)
  BY <1>1, <1>3, PreparedIsRight
<1> QED
  BY <1>2, <1>3 DEF TxInv

\* What is sent, consolidated, minted, melted, created, delegated or destroyed, through
\* either facade, adds up with its change, its fee and its deposits, whatever the wallet
\* and the request.
THEOREM SentIsBalanced ==
    TxSpec => [](request.builder \notin {"nano", "template"} => TxIsBalanced)
<1>1. TxInv => (request.builder \notin {"nano", "template"} => TxIsBalanced)
  BY ReturnsAreRight DEF Right, TxIsBalanced
<1> QED
  BY <1>1, CallsReturnWhatTheyPrepare, PTL

=============================================================================
