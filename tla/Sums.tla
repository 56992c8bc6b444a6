---------------------------------- MODULE Sums ----------------------------------
(***************************************************************************)
(* Sums of the values of a function over a finite set.  The library adds   *)
(* them up in an unspecified order, one chosen element at a time; the      *)
(* lemmas say that the order makes no difference.                          *)
(***************************************************************************)
EXTENDS Integers, FiniteSetsExt, FiniteSetTheorems, WellFoundedInduction, TLAPS

(* A set of naturals with 0, and with n + 1 whenever it has n, has them all. *)
LEMMA Counting ==
    ASSUME NEW Good, 0 \in Good, \A n \in Nat : n \in Good => n + 1 \in Good
    PROVE  Nat \subseteq Good
<1> SUFFICES ASSUME ~(Nat \subseteq Good)
             PROVE  FALSE
  OBVIOUS
<1>1. IsWellFoundedOn(OpToRel(<, Nat), Nat)
  BY NatLessThanWellFounded
<1>2. Nat \ Good \subseteq Nat /\ Nat \ Good # {}
  OBVIOUS
<1>3. PICK x \in Nat \ Good : \A y \in Nat \ Good : ~(<<y, x>> \in OpToRel(<, Nat))
  BY <1>1, <1>2, WFMin
<1>4. x - 1 \in Nat /\ x - 1 + 1 = x /\ x - 1 < x
  <2>1. x \in Nat /\ x # 0
    OBVIOUS
  <2> QED
    BY <2>1
<1>5. x - 1 \notin Good
  BY <1>3, <1>4
<1>6. <<x - 1, x>> \in OpToRel(<, Nat)
  BY <1>3, <1>4 DEF OpToRel
<1> QED
  BY <1>3, <1>4, <1>5, <1>6

(* A family of subsets of S with every set whose proper subsets it has, has all. *)
LEMMA SubsetInduction ==
    ASSUME NEW S, IsFiniteSet(S), NEW Good,
           \A T \in SUBSET S :
               (\A U \in SUBSET T : U # T => U \in Good) => T \in Good
    PROVE  SUBSET S \subseteq Good
<1> SUFFICES ASSUME ~(SUBSET S \subseteq Good)
             PROVE  FALSE
  OBVIOUS
<1>1. IsWellFoundedOn(StrictSubsetOrdering(S), SUBSET S)
  <2>1. FiniteSubsetsOf(S) = SUBSET S
    BY FS_FiniteSubsetsOfFinite
  <2>2. IsWellFoundedOn(StrictSubsetOrdering(S), FiniteSubsetsOf(S))
    BY FS_StrictSubsetOrderingWellFounded
  <2> QED
    BY <2>1, <2>2
<1>2. PICK Bad : Bad = (SUBSET S) \ Good
  OBVIOUS
<1>3. PICK T \in Bad : \A U \in Bad : ~(<<U, T>> \in StrictSubsetOrdering(S))
  <2>1. Bad \subseteq SUBSET S /\ Bad # {}
    BY <1>2
  <2> QED
    BY <1>1, <2>1, WFMin
<1>4. ASSUME NEW U \in SUBSET T, U # T
      PROVE  U \in Good
  <2>1. T \in SUBSET S /\ U \in SUBSET S
    BY <1>2, <1>3, <1>4
  <2>2. <<U, T>> \in StrictSubsetOrdering(S)
    BY <1>4, <2>1 DEF StrictSubsetOrdering
  <2> QED
    BY <1>2, <1>3, <2>1, <2>2
<1> QED
  BY <1>2, <1>3, <1>4

(* A family with the empty set, and with every set it has by one element   *)
(* more, has every subset of S.                                            *)
Inductive(Good, S) ==
    /\ {} \in Good
    /\ \A T \in SUBSET S, x \in S : T \in Good /\ x \notin T => T \cup {x} \in Good

LEMMA ElementInduction ==
    ASSUME NEW S, IsFiniteSet(S), NEW Good, Inductive(Good, S)
    PROVE  SUBSET S \subseteq Good
<1> USE DEF Inductive
<1>1. ASSUME NEW T \in SUBSET S, \A U \in SUBSET T : U # T => U \in Good
      PROVE  T \in Good
  <2>1. CASE T = {}
    BY <2>1
  <2>2. CASE T # {}
    <3>1. PICK x \in T : TRUE
      BY <2>2
    <3>2. T \ {x} \in SUBSET T /\ T \ {x} # T /\ T = (T \ {x}) \cup {x}
      BY <3>1
    <3>3. T \ {x} \in Good /\ T \ {x} \in SUBSET S
      BY <1>1, <3>2
    <3> QED
      BY <3>1, <3>2, <3>3
  <2> QED
    BY <2>1, <2>2
<1> QED
  BY <1>1, SubsetInduction
-----------------------------------------------------------------------------
(* What the library computes: the sums of all subsets, each from the sum   *)
(* of the subset without the element that is chosen.                       *)
Chosen(T) == CHOOSE x \in T : TRUE
SumsOf(f, S, sum) ==
    sum = [T \in SUBSET S |-> IF T = {} THEN 0
                              ELSE f[Chosen(T)] + sum[T \ {Chosen(T)}]]
IntegerOn(f, S) == IsFiniteSet(S) /\ \A x \in S : f[x] \in Int
Summed(f, S, sum) ==
    /\ IntegerOn(f, S)
    /\ sum \in [SUBSET S -> Int] /\ SumsOf(f, S, sum)

(* There are such sums; they are integers.                                 *)
LEMMA SumsExist ==
    ASSUME NEW S, NEW f, IntegerOn(f, S)
    PROVE  \E sum : Summed(f, S, sum)
<1> USE DEF IntegerOn
<1> DEFINE Level(k) == {T \in SUBSET S : Cardinality(T) <= k}
           Fits(g, T) == g[T] = IF T = {} THEN 0 ELSE f[Chosen(T)] + g[T \ {Chosen(T)}]
           Good == {k \in Nat : \E g \in [Level(k) -> Int] : \A T \in Level(k) : Fits(g, T)}
<1>1. \A T \in SUBSET S : IsFiniteSet(T) /\ Cardinality(T) \in Nat
  BY FS_Subset, FS_CardinalityType
<1>2. \A T \in SUBSET S : T # {} =>
          /\ Chosen(T) \in T /\ T \ {Chosen(T)} \in SUBSET S
          /\ Cardinality(T \ {Chosen(T)}) = Cardinality(T) - 1
          /\ Cardinality(T) >= 1
  <2> SUFFICES ASSUME NEW T \in SUBSET S, T # {}
               PROVE  /\ Chosen(T) \in T /\ T \ {Chosen(T)} \in SUBSET S
                      /\ Cardinality(T \ {Chosen(T)}) = Cardinality(T) - 1
                      /\ Cardinality(T) >= 1
    OBVIOUS
  <2>1. Chosen(T) \in T
    BY DEF Chosen
  <2>2. Cardinality(T \ {Chosen(T)}) = Cardinality(T) - 1
    BY <1>1, <2>1, FS_RemoveElement
  <2>3. Cardinality(T \ {Chosen(T)}) \in Nat
    BY <1>1
  <2> QED
    BY <1>1, <2>1, <2>2, <2>3
<1>3. 0 \in Good
  <2>1. Level(0) = {{}}
    <3>1. {} \in SUBSET S /\ Cardinality({}) = 0
      BY FS_EmptySet
    <3>2. ASSUME NEW T \in SUBSET S, Cardinality(T) <= 0
          PROVE  T = {}
      <4>1. Cardinality(T) \in Nat /\ ~(Cardinality(T) >= 1)
        BY <1>1, <3>2
      <4> QED
        BY <1>2, <4>1
    <3> QED
      BY <3>1, <3>2
  <2> DEFINE g == [T \in Level(0) |-> 0]
  <2>2. g \in [Level(0) -> Int] /\ \A T \in Level(0) : Fits(g, T)
    BY <2>1
  <2> QED
    BY <2>2
<1>4. ASSUME NEW k \in Nat, k \in Good
      PROVE  k + 1 \in Good
  <2>1. PICK g \in [Level(k) -> Int] : \A T \in Level(k) : Fits(g, T)
    BY <1>4
  <2> DEFINE h == [T \in Level(k + 1) |->
                      IF T = {} THEN 0 ELSE f[Chosen(T)] + g[T \ {Chosen(T)}]]
  <2>2. \A T \in Level(k + 1) : T # {} => T \ {Chosen(T)} \in Level(k)
    BY <1>1, <1>2
  <2>3. h \in [Level(k + 1) -> Int]
    BY <1>2, <2>2
  <2>4. \A T \in Level(k) : T \in Level(k + 1) /\ h[T] = g[T]
    <3> SUFFICES ASSUME NEW T \in Level(k)
                 PROVE  T \in Level(k + 1) /\ h[T] = g[T]
      OBVIOUS
    <3>1. T \in Level(k + 1)
      BY <1>1
    <3> QED
      BY <2>1, <3>1
  <2>5. \A T \in Level(k + 1) : Fits(h, T)
    BY <2>2, <2>4
  <2>6. \E w \in [Level(k + 1) -> Int] : \A T \in Level(k + 1) : Fits(w, T)
    <3> HIDE DEF h, Level, Fits
    <3> QED
      BY <2>3, <2>5
  <2>7. k + 1 \in Nat
    OBVIOUS
  <2> HIDE DEF h, Level, Fits
  <2> QED
    BY <2>6, <2>7
<1>5. PICK n \in Nat : n = Cardinality(S)
  BY <1>1
<1>6. n \in Good
  <2> HIDE DEF Good
  <2> QED
    BY <1>3, <1>4, Counting
<1>7. Level(n) = SUBSET S
  BY <1>5, FS_Subset
<1>8. PICK g \in [SUBSET S -> Int] : \A T \in SUBSET S : Fits(g, T)
  BY <1>6, <1>7
<1>9. SumsOf(f, S, g)
  BY <1>8 DEF SumsOf
<1> QED
  BY <1>8, <1>9 DEF Summed

(* The element taken away first makes no difference.                       *)
LEMMA AnyElementFirst ==
    ASSUME NEW S, NEW f, NEW sum, Summed(f, S, sum), NEW x \in S
    PROVE  sum[S] = f[x] + sum[S \ {x}]
<1> USE DEF Summed, IntegerOn
<1> DEFINE Good == {T \in SUBSET S : \A y \in T : sum[T] = f[y] + sum[T \ {y}]}
<1>1. ASSUME NEW T \in SUBSET S, \A U \in SUBSET T : U # T => U \in Good,
             NEW z \in T
      PROVE  sum[T] = f[z] + sum[T \ {z}]
  <2>1. PICK y : y = Chosen(T)
    OBVIOUS
  <2>2. y \in T /\ sum[T] = f[y] + sum[T \ {y}]
    BY <2>1 DEF Chosen, SumsOf
  <2>3. CASE z = y
    BY <2>2, <2>3
  <2>4. CASE z # y
    <3>1. T \ {z} \in Good /\ T \ {y} \in Good
      <4>1. T \ {z} \in SUBSET T /\ T \ {z} # T /\ T \ {y} \in SUBSET T /\ T \ {y} # T
        BY <2>2
      <4> QED
        BY <1>1, <4>1
    <3>2. PICK U \in SUBSET S : U = T \ {z, y}
      OBVIOUS
    <3>3. (T \ {z}) \ {y} = U /\ (T \ {y}) \ {z} = U
      BY <3>2
    <3>4. sum[T \ {z}] = f[y] + sum[U] /\ sum[T \ {y}] = f[z] + sum[U]
      BY <2>2, <2>4, <3>1, <3>3
    <3>5. f[z] \in Int /\ f[y] \in Int /\ sum[U] \in Int
      BY <2>2
    <3> QED
      BY <2>2, <3>4, <3>5
  <2> QED
    BY <2>3, <2>4
<1>2. SUBSET S \subseteq Good
  <2>1. ASSUME NEW T \in SUBSET S, \A U \in SUBSET T : U # T => U \in Good
        PROVE  T \in Good
    BY <1>1, <2>1
  <2> HIDE DEF Good
  <2> QED
    BY <2>1, SubsetInduction
<1> QED
  BY <1>2

(* Two functions that agree have the same sums.                            *)
LEMMA SumsAgree ==
    ASSUME NEW S, IsFiniteSet(S), NEW D, NEW E, S \subseteq D, S \subseteq E,
           NEW f, NEW g, \A x \in S : f[x] = g[x],
           NEW sum, SumsOf(f, D, sum), NEW other, SumsOf(g, E, other)
    PROVE  sum[S] = other[S]
<1> DEFINE Good == {T \in SUBSET S : sum[T] = other[T]}
<1>1. ASSUME NEW T \in SUBSET S, \A U \in SUBSET T : U # T => U \in Good
      PROVE  T \in Good
  <2>1. CASE T = {}
    BY <2>1 DEF SumsOf
  <2>2. CASE T # {}
    <3>1. PICK y : y = Chosen(T)
      OBVIOUS
    <3>2. y \in T
      BY <2>2, <3>1 DEF Chosen
    <3>3. T \ {y} \in SUBSET T /\ T \ {y} # T
      BY <3>2
    <3>4. sum[T \ {y}] = other[T \ {y}]
      BY <1>1, <3>3
    <3>5. sum[T] = f[y] + sum[T \ {y}] /\ other[T] = g[y] + other[T \ {y}]
      BY <2>2, <3>1 DEF SumsOf
    <3> QED
      BY <3>2, <3>4, <3>5
  <2> QED
    BY <2>1, <2>2
<1>2. SUBSET S \subseteq Good
  <2> HIDE DEF Good
  <2> QED
    BY <1>1, SubsetInduction
<1> QED
  BY <1>2

(* What the library returns is one of these sums.                          *)
LEMMA SumIsOneOfTheSums ==
    ASSUME NEW S, NEW f, IntegerOn(f, S)
    PROVE  \E sum : Summed(f, S, sum) /\ SumFunctionOnSet(f, S) = sum[S]
<1>1. PICK any : Summed(f, S, any)
  BY SumsExist
<1>2. PICK iter : iter = CHOOSE sum : SumsOf(f, S, sum)
  OBVIOUS
<1>3. SumsOf(f, S, iter)
  BY <1>1, <1>2 DEF Summed
<1>4. SumFunctionOnSet(f, S) = iter[S]
  <2>1. iter = CHOOSE sum :
           sum = [s \in SUBSET S |->
                     IF s = {} THEN 0 ELSE LET x == CHOOSE x \in s : TRUE
                                           IN  f[x] + sum[s \ {x}]]
    BY <1>2 DEF SumsOf, Chosen
  <2> QED
    BY <2>1 DEF SumFunctionOnSet, FoldFunctionOnSet, MapThenFoldSet
<1>5. \A T \in SUBSET S : iter[T] = any[T]
  <2> SUFFICES ASSUME NEW T \in SUBSET S
               PROVE  iter[T] = any[T]
    OBVIOUS
  <2>1. IsFiniteSet(T) /\ T \subseteq S /\ \A x \in T : f[x] = f[x]
    BY FS_Subset DEF IntegerOn
  <2>2. SumsOf(f, S, any)
    BY <1>1 DEF Summed
  <2> QED
    BY <1>3, <2>1, <2>2, SumsAgree
<1>6. Summed(f, S, iter)
  BY <1>1, <1>3, <1>5 DEF SumsOf, Summed
<1> QED
  BY <1>4, <1>6
-----------------------------------------------------------------------------
LEMMA SumOfNone ==
    ASSUME NEW f
    PROVE  SumFunctionOnSet(f, {}) = 0
<1>1. PICK N : N = {}
  OBVIOUS
<1>2. IntegerOn(f, N)
  BY <1>1, FS_EmptySet DEF IntegerOn
<1>3. PICK sum : Summed(f, N, sum) /\ SumFunctionOnSet(f, N) = sum[N]
  BY <1>2, SumIsOneOfTheSums
<1> QED
  BY <1>1, <1>3 DEF Summed, SumsOf

LEMMA SumIsInteger ==
    ASSUME NEW S, NEW f, IntegerOn(f, S)
    PROVE  SumFunctionOnSet(f, S) \in Int
<1>1. PICK sum : Summed(f, S, sum) /\ SumFunctionOnSet(f, S) = sum[S]
  BY SumIsOneOfTheSums
<1> QED
  BY <1>1 DEF Summed

(* Only the values in the set count.                                       *)
LEMMA SumOfEqual ==
    ASSUME NEW S, NEW f, NEW g, IntegerOn(f, S), \A x \in S : f[x] = g[x]
    PROVE  SumFunctionOnSet(f, S) = SumFunctionOnSet(g, S)
<1>1. IntegerOn(g, S) /\ IsFiniteSet(S) /\ S \subseteq S
  BY DEF IntegerOn
<1>2. PICK sum : Summed(f, S, sum) /\ SumFunctionOnSet(f, S) = sum[S]
  BY SumIsOneOfTheSums
<1>3. PICK other : Summed(g, S, other) /\ SumFunctionOnSet(g, S) = other[S]
  BY <1>1, SumIsOneOfTheSums
<1> QED
  BY <1>1, <1>2, <1>3, SumsAgree DEF Summed

(* One element more adds its value.                                        *)
OneMore(T, S, x) == x \notin S /\ T = S \cup {x}

LEMMA SumWithElement ==
    ASSUME NEW S, NEW x, NEW T, OneMore(T, S, x), NEW f, IntegerOn(f, T)
    PROVE  SumFunctionOnSet(f, T) = SumFunctionOnSet(f, S) + f[x]
<1>1. x \notin S /\ T = S \cup {x}
  BY DEF OneMore
<1>2. IntegerOn(f, T) /\ IntegerOn(f, S) /\ IsFiniteSet(S) /\ T \ {x} = S /\ x \in T
      /\ S \subseteq S /\ S \subseteq T
  BY <1>1, FS_Subset DEF IntegerOn
<1>3. PICK sum : Summed(f, S, sum) /\ SumFunctionOnSet(f, S) = sum[S]
  BY <1>2, SumIsOneOfTheSums
<1>4. PICK other : Summed(f, T, other) /\ SumFunctionOnSet(f, T) = other[T]
  BY <1>2, SumIsOneOfTheSums
<1>5. other[T] = f[x] + other[S]
  BY <1>2, <1>4, AnyElementFirst
<1>6. sum[S] = other[S]
  BY <1>2, <1>3, <1>4, SumsAgree DEF Summed
<1>7. f[x] \in Int /\ sum[S] \in Int
  BY <1>2, <1>3 DEF Summed, IntegerOn
<1> QED
  BY <1>1, <1>3, <1>4, <1>5, <1>6, <1>7
-----------------------------------------------------------------------------
(* Derived by induction over the elements of the set.                      *)
LEMMA SumOfDisjoint ==
    ASSUME NEW S, NEW T, NEW f, IntegerOn(f, S), IntegerOn(f, T), S \cap T = {}
    PROVE  SumFunctionOnSet(f, S \cup T) = SumFunctionOnSet(f, S) + SumFunctionOnSet(f, T)
<1> DEFINE On(U) == SumFunctionOnSet(f, U)
           Good == {U \in SUBSET T : On(S \cup U) = On(S) + On(U)}
<1>1. On(S) \in Int /\ IsFiniteSet(T)
  BY SumIsInteger DEF IntegerOn
<1>2. {} \in Good
  <2>1. On({}) = 0 /\ S \cup {} = S
    BY SumOfNone
  <2>2. On(S \cup {}) = On(S) + On({})
    <3> HIDE DEF On
    <3> QED
      BY <1>1, <2>1
  <2> QED
    BY <2>2
<1>3. ASSUME NEW U \in SUBSET T, NEW x \in T, U \in Good, x \notin U
      PROVE  U \cup {x} \in Good
  <2>1. IntegerOn(f, U) /\ IntegerOn(f, U \cup {x})
    BY FS_Subset DEF IntegerOn
  <2>2. PICK V : V = S \cup U
    OBVIOUS
  <2>3. IntegerOn(f, V \cup {x}) /\ x \notin V
    <3>1. IsFiniteSet(V \cup {x})
      BY <2>1, <2>2, FS_Union, FS_AddElement DEF IntegerOn
    <3>2. \A y \in V \cup {x} : f[y] \in Int
      BY <2>2 DEF IntegerOn
    <3> QED
      BY <1>3, <2>2, <3>1, <3>2 DEF IntegerOn
  <2>4. On(U \cup {x}) = On(U) + f[x]
    <3>1. OneMore(U \cup {x}, U, x)
      BY <1>3 DEF OneMore
    <3> QED
      BY <2>1, <3>1, SumWithElement
  <2>5. On(V \cup {x}) = On(V) + f[x]
    <3>1. OneMore(V \cup {x}, V, x)
      BY <2>3 DEF OneMore
    <3> QED
      BY <2>3, <3>1, SumWithElement
  <2>6. On(U) \in Int /\ f[x] \in Int
    BY <2>1, SumIsInteger DEF IntegerOn
  <2>7. PICK W : W = S \cup (U \cup {x}) /\ W = V \cup {x}
    BY <2>2
  <2>8. On(V) = On(S) + On(U)
    BY <1>3, <2>2
  <2>9. On(S \cup (U \cup {x})) = On(S) + On(U \cup {x})
    <3>1. On(W) = On(V) + f[x]
      BY <2>5, <2>7
    <3>2. On(W) = On(S) + On(U \cup {x})
      <4> HIDE DEF On
      <4> QED
        BY <1>1, <2>4, <2>6, <2>8, <3>1
    <3> QED
      BY <2>7, <3>2
  <2> QED
    BY <2>9
<1>4. SUBSET T \subseteq Good
  <2> HIDE DEF Good, On
  <2>1. Inductive(Good, T)
    BY <1>2, <1>3 DEF Inductive
  <2> QED
    BY <1>1, <2>1, ElementInduction
<1> QED
  BY <1>4

(* Renaming the elements one to one leaves the sum as it is.               *)
LEMMA SumOfImage ==
    ASSUME NEW S, NEW f, IntegerOn(f, S), NEW g, NEW m,
           \A x \in S : g[m[x]] = f[x],
           \A x, y \in S : m[x] = m[y] => x = y
    PROVE  /\ IntegerOn(g, {m[x] : x \in S})
           /\ SumFunctionOnSet(g, {m[x] : x \in S}) = SumFunctionOnSet(f, S)
<1> DEFINE Image(U) == {m[x] : x \in U}
           Same(U) == IntegerOn(g, Image(U))
                      /\ SumFunctionOnSet(g, Image(U)) = SumFunctionOnSet(f, U)
           Good == {U \in SUBSET S : Same(U)}
<1>1. IsFiniteSet(S)
  BY DEF IntegerOn
<1>2. {} \in Good
  <2>1. Image({}) = {} /\ IntegerOn(g, {})
    BY FS_EmptySet DEF IntegerOn
  <2>2. Same({})
    BY <2>1, SumOfNone
  <2> QED
    BY <2>2
<1>3. ASSUME NEW U \in SUBSET S, NEW x \in S, U \in Good, x \notin U
      PROVE  U \cup {x} \in Good
  <2>1. IntegerOn(f, U \cup {x}) /\ g[m[x]] \in Int /\ g[m[x]] = f[x]
    BY FS_Subset DEF IntegerOn
  <2>2. PICK V : V = Image(U) /\ V \cup {m[x]} = Image(U \cup {x}) /\ m[x] \notin V
    BY <1>3
  <2>3. IntegerOn(g, V) /\ SumFunctionOnSet(g, V) = SumFunctionOnSet(f, U)
    BY <1>3, <2>2
  <2>4. IntegerOn(g, V \cup {m[x]})
    BY <2>1, <2>3, FS_AddElement DEF IntegerOn
  <2>5. SumFunctionOnSet(g, V \cup {m[x]}) = SumFunctionOnSet(g, V) + g[m[x]]
    <3>1. OneMore(V \cup {m[x]}, V, m[x])
      BY <2>2 DEF OneMore
    <3> QED
      BY <2>4, <3>1, SumWithElement
  <2>6. SumFunctionOnSet(f, U \cup {x}) = SumFunctionOnSet(f, U) + f[x]
    <3>1. OneMore(U \cup {x}, U, x)
      BY <1>3 DEF OneMore
    <3> QED
      BY <2>1, <3>1, SumWithElement
  <2>7. Same(U \cup {x})
    BY <2>1, <2>2, <2>3, <2>4, <2>5, <2>6
  <2> QED
    BY <2>7
<1>4. SUBSET S \subseteq Good
  <2> HIDE DEF Good
  <2>1. Inductive(Good, S)
    BY <1>2, <1>3 DEF Inductive
  <2> QED
    BY <1>1, <2>1, ElementInduction
<1>5. Same(S)
  BY <1>4
<1> QED
  BY <1>5

(* The sum of what two functions add up to.                                *)
LEMMA SumOfSum ==
    ASSUME NEW S, NEW f, NEW g, NEW h, IntegerOn(f, S), IntegerOn(g, S),
           \A x \in S : h[x] = f[x] + g[x]
    PROVE  SumFunctionOnSet(h, S) = SumFunctionOnSet(f, S) + SumFunctionOnSet(g, S)
<1> DEFINE Same(U) == SumFunctionOnSet(h, U) = SumFunctionOnSet(f, U) + SumFunctionOnSet(g, U)
           Good == {U \in SUBSET S : Same(U)}
<1>1. IsFiniteSet(S) /\ IntegerOn(h, S)
  BY DEF IntegerOn
<1>2. {} \in Good
  <2>1. Same({})
    BY SumOfNone
  <2> QED
    BY <2>1
<1>3. ASSUME NEW U \in SUBSET S, NEW x \in S, U \in Good, x \notin U
      PROVE  U \cup {x} \in Good
  <2>1. IntegerOn(f, U \cup {x}) /\ IntegerOn(g, U \cup {x}) /\ IntegerOn(h, U \cup {x})
        /\ IntegerOn(f, U) /\ IntegerOn(g, U) /\ IntegerOn(h, U)
    BY <1>1, FS_Subset DEF IntegerOn
  <2>2. /\ SumFunctionOnSet(f, U \cup {x}) = SumFunctionOnSet(f, U) + f[x]
        /\ SumFunctionOnSet(g, U \cup {x}) = SumFunctionOnSet(g, U) + g[x]
        /\ SumFunctionOnSet(h, U \cup {x}) = SumFunctionOnSet(h, U) + h[x]
    <3>1. OneMore(U \cup {x}, U, x)
      BY <1>3 DEF OneMore
    <3> QED
      BY <2>1, <3>1, SumWithElement
  <2>3. SumFunctionOnSet(f, U) \in Int /\ SumFunctionOnSet(g, U) \in Int
    BY <2>1, SumIsInteger
  <2>4. f[x] \in Int /\ g[x] \in Int /\ h[x] = f[x] + g[x]
    BY DEF IntegerOn
  <2>5. Same(U)
    BY <1>3
  <2>6. Same(U \cup {x})
    BY <2>2, <2>3, <2>4, <2>5
  <2> QED
    BY <2>6
<1>4. SUBSET S \subseteq Good
  <2> HIDE DEF Good
  <2>1. Inductive(Good, S)
    BY <1>2, <1>3 DEF Inductive
  <2> QED
    BY <1>1, <2>1, ElementInduction
<1>5. Same(S)
  BY <1>4
<1> QED
  BY <1>5

(* What is not negative adds up to no less than any part of it.            *)
LEMMA SumOfPart ==
    ASSUME NEW S, NEW f, IntegerOn(f, S), \A x \in S : f[x] >= 0, NEW T \in SUBSET S
    PROVE  /\ SumFunctionOnSet(f, T) <= SumFunctionOnSet(f, S)
           /\ SumFunctionOnSet(f, T) >= 0
<1> DEFINE Positive(U) == SumFunctionOnSet(f, U) \in Int /\ SumFunctionOnSet(f, U) >= 0
           Good == {U \in SUBSET S : Positive(U)}
<1>1. IsFiniteSet(S)
  BY DEF IntegerOn
<1>2. {} \in Good
  <2>1. Positive({})
    BY SumOfNone
  <2> QED
    BY <2>1
<1>3. ASSUME NEW U \in SUBSET S, NEW x \in S, U \in Good, x \notin U
      PROVE  U \cup {x} \in Good
  <2>1. IntegerOn(f, U \cup {x}) /\ f[x] \in Int /\ f[x] >= 0
    BY FS_Subset DEF IntegerOn
  <2>2. SumFunctionOnSet(f, U \cup {x}) = SumFunctionOnSet(f, U) + f[x]
    <3>1. OneMore(U \cup {x}, U, x)
      BY <1>3 DEF OneMore
    <3> QED
      BY <2>1, <3>1, SumWithElement
  <2>3. Positive(U)
    BY <1>3
  <2>4. Positive(U \cup {x})
    BY <2>1, <2>2, <2>3
  <2> QED
    BY <2>4
<1>4. SUBSET S \subseteq Good
  <2> HIDE DEF Good
  <2>1. Inductive(Good, S)
    BY <1>2, <1>3 DEF Inductive
  <2> QED
    BY <1>1, <2>1, ElementInduction
<1>5. Positive(T) /\ Positive(S \ T)
  BY <1>4
<1>6. IntegerOn(f, T) /\ IntegerOn(f, S \ T) /\ T \cap (S \ T) = {}
  BY FS_Subset DEF IntegerOn
<1>7. PICK V : V = T \cup (S \ T) /\ V = S
  OBVIOUS
<1>8. SumFunctionOnSet(f, S) = SumFunctionOnSet(f, T) + SumFunctionOnSet(f, S \ T)
  BY <1>6, <1>7, SumOfDisjoint
<1> QED
  BY <1>5, <1>8
=============================================================================
