------------------------------ MODULE SumLemmas ------------------------------
(***************************************************************************)
(* Facts about SumFunctionOnSet of the community module Functions, with    *)
(* which the models add up movements, lines, runs and plans.  The operator *)
(* is a fold, defined by a recursive function over the subsets of a set.   *)
(* The induction theorems of the library take a predicate as a parameter;  *)
(* here induction over finite sets is the choice of a smallest             *)
(* counterexample (SmallestSubset, SmallestNumber), which needs none.  The *)
(* last part is about rows in a sequence, and what they add up to.         *)
(***************************************************************************)
EXTENDS Integers, Sequences, FiniteSets, FiniteSetsExt, Functions,
        FiniteSetTheorems, WellFoundedInduction, TLAPS

\* A set of subsets of a finite set has a member no other one is smaller than.
LEMMA SmallestSubset ==
  ASSUME NEW S, IsFiniteSet(S), NEW B, B \subseteq SUBSET S, B # {}
  PROVE  \E T \in B : \A U \in B : U \subseteq T => U = T
<1>1. IsWellFoundedOn(StrictSubsetOrdering(S), SUBSET S)
  BY FS_StrictSubsetOrderingWellFounded, FS_FiniteSubsetsOfFinite
<1>2. PICK T \in B : \A U \in B : ~(<<U, T>> \in StrictSubsetOrdering(S))
  BY <1>1, WFMin
<1>3. ASSUME NEW U \in B, U \subseteq T, U # T
      PROVE  FALSE
  <2>1. <<U, T>> \in (SUBSET S) \X (SUBSET S)
    OBVIOUS
  <2>2. <<U, T>>[1] = U /\ <<U, T>>[2] = T
    OBVIOUS
  <2>3. <<U, T>> \in StrictSubsetOrdering(S)
    BY <2>1, <2>2, <1>3 DEF StrictSubsetOrdering
  <2>4. QED
    BY <2>3, <1>2
<1>4. QED
  BY <1>3

\* The same for a set of numbers.
LEMMA SmallestNumber ==
  ASSUME NEW T, T \subseteq Nat, T # {}
  PROVE  \E x \in T : \A y \in T : ~(y < x)
<1> DEFINE R == OpToRel(<, Nat)
<1>1. IsWellFoundedOn(R, Nat)
  BY NatLessThanWellFounded
<1>2. \A x, y \in Nat : y < x => <<y, x>> \in R
  BY DEF OpToRel
<1> HIDE DEF R
<1>3. PICK x \in T : \A y \in T : ~(<<y, x>> \in R)
  BY <1>1, WFMin
<1> QED BY <1>2, <1>3

----------------------------------------------------------------------------
(* The recursive function behind the operator exists, and is unique *)

One(T) == CHOOSE x \in T : TRUE

Summing(f, S) ==
  CHOOSE g : g = [T \in SUBSET S |->
                    IF T = {} THEN 0 ELSE f[One(T)] + g[T \ {One(T)}]]

LEMMA SumUnfolds ==
  ASSUME NEW f, NEW S
  PROVE  SumFunctionOnSet(f, S) = Summing(f, S)[S]
  BY DEF SumFunctionOnSet, FoldFunctionOnSet, MapThenFoldSet, Summing, One

\* g adds f up over each set in D.
AddsUp(f, D, g) ==
  /\ g \in [D -> Int]
  /\ \A T \in D :
       IF T = {} THEN g[T] = 0
       ELSE T \ {One(T)} \in D /\ g[T] = f[One(T)] + g[T \ {One(T)}]

LEMMA OneIsIn ==
  ASSUME NEW T, T # {}
  PROVE  One(T) \in T
  BY DEF One

LEMMA SumsAgree ==
  ASSUME NEW S, IsFiniteSet(S), NEW f, NEW g, NEW h, NEW D, NEW E,
         D \subseteq SUBSET S, E \subseteq SUBSET S,
         AddsUp(f, D, g), AddsUp(f, E, h)
  PROVE  \A T \in D \cap E : g[T] = h[T]
<1> DEFINE B == {T \in D \cap E : g[T] # h[T]}
<1> SUFFICES ASSUME B # {}
             PROVE  FALSE
  OBVIOUS
<1>a. B \subseteq SUBSET S
  OBVIOUS
<1> HIDE DEF B
<1>1. PICK T \in B : \A U \in B : U \subseteq T => U = T
  BY <1>a, SmallestSubset
<1> USE DEF B
<1>2. T # {}
  BY <1>1 DEF AddsUp
<1>3. T \ {One(T)} \in D \cap E /\ T \ {One(T)} # T
  BY <1>1, <1>2, OneIsIn DEF AddsUp
<1>4. g[T \ {One(T)}] = h[T \ {One(T)}]
  BY <1>1, <1>3
<1>5. QED
  BY <1>1, <1>2, <1>4 DEF AddsUp

HasSum(f, S, T) ==
  \E D \in SUBSET SUBSET S : \E g : AddsUp(f, D, g) /\ T \in D

\* Some function adds f up over T, and over the sets that takes.
LEMMA SumsExist ==
  ASSUME NEW S, IsFiniteSet(S), NEW f, \A x \in S : f[x] \in Int
  PROVE  \A T \in SUBSET S : HasSum(f, S, T)
<1> DEFINE Reached(T) == HasSum(f, S, T)
           B == {T \in SUBSET S : ~Reached(T)}
<1> SUFFICES ASSUME B # {}
             PROVE  FALSE
  OBVIOUS
<1>a. B \subseteq SUBSET S
  OBVIOUS
<1> HIDE DEF B
<1>1. PICK T \in B : \A U \in B : U \subseteq T => U = T
  BY <1>a, SmallestSubset
<1> USE DEF B
<1>2. T # {}
  <2>1. AddsUp(f, {{}}, [U \in {{}} |-> 0])
    BY DEF AddsUp
  <2>2. Reached({})
    BY <2>1 DEF HasSum
  <2>3. QED
    BY <2>2, <1>1
<1> DEFINE x == One(T)
           R == T \ {x}
<1>3. x \in T /\ R \in SUBSET S /\ R # T /\ R \subseteq T
  BY <1>2, OneIsIn
<1>4. Reached(R)
  BY <1>1, <1>3
<1>b. PICK D \in SUBSET SUBSET S : \E g : AddsUp(f, D, g) /\ R \in D
  BY <1>4 DEF HasSum
<1>5. PICK g : AddsUp(f, D, g) /\ R \in D
  BY <1>b
<1> DEFINE h == [U \in D \cup {T} |-> IF U = T THEN f[x] + g[R] ELSE g[U]]
<1>6. f[x] \in Int /\ g[R] \in Int
  BY <1>3, <1>5 DEF AddsUp
<1>7. h \in [D \cup {T} -> Int]
  BY <1>5, <1>6 DEF AddsUp
<1>8. T \notin D
  BY <1>1, <1>5 DEF HasSum
<1>9. ASSUME NEW U \in D \cup {T}
      PROVE  IF U = {} THEN h[U] = 0
             ELSE /\ U \ {One(U)} \in D \cup {T}
                  /\ h[U] = f[One(U)] + h[U \ {One(U)}]
  <2>1. CASE U = T
    <3>1. h[T] = f[x] + g[R] /\ h[R] = g[R]
      BY <1>3, <1>5
    <3>2. QED
      BY <2>1, <3>1, <1>2, <1>5
  <2>2. CASE U # T
    <3>1. U \in D /\ h[U] = g[U]
      BY <2>2
    <3>2. CASE U = {}
      BY <3>1, <3>2, <1>5 DEF AddsUp
    <3>3. CASE U # {}
      <4>1. U \ {One(U)} \in D /\ g[U] = f[One(U)] + g[U \ {One(U)}]
        BY <3>1, <3>3, <1>5 DEF AddsUp
      <4>2. h[U \ {One(U)}] = g[U \ {One(U)}]
        BY <4>1, <1>8
      <4>3. QED
        BY <3>1, <3>3, <4>1, <4>2
    <3>4. QED
      BY <3>2, <3>3
  <2>3. QED
    BY <2>1, <2>2
<1>10. AddsUp(f, D \cup {T}, h)
  BY <1>7, <1>9 DEF AddsUp
<1>11. D \cup {T} \in SUBSET SUBSET S
  BY <1>1
<1>12. Reached(T)
  BY <1>10, <1>11 DEF HasSum
<1>13. QED
  BY <1>1, <1>12

LEMMA SummingAddsUp ==
  ASSUME NEW S, IsFiniteSet(S), NEW f, \A x \in S : f[x] \in Int
  PROVE  AddsUp(f, SUBSET S, Summing(f, S))
<1> DEFINE IsValue(T, v) ==
             \E D \in SUBSET SUBSET S : \E g : AddsUp(f, D, g) /\ T \in D /\ v = g[T]
           G == [T \in SUBSET S |-> CHOOSE v : IsValue(T, v)]
<1>a. \A T \in SUBSET S : HasSum(f, S, T)
  BY SumsExist
<1>1. ASSUME NEW D \in SUBSET SUBSET S, NEW g, AddsUp(f, D, g), NEW T \in D
      PROVE  G[T] = g[T]
  <2>1. IsValue(T, g[T])
    BY <1>1
  <2>2. IsValue(T, CHOOSE v : IsValue(T, v))
    BY <2>1
  <2>c. PICK E \in SUBSET SUBSET S : \E h : AddsUp(f, E, h) /\ T \in E /\ G[T] = h[T]
    BY <2>2, <1>1
  <2>3. PICK h : AddsUp(f, E, h) /\ T \in E /\ G[T] = h[T]
    BY <2>c
  <2>4. g[T] = h[T]
    BY <2>3, <1>1, SumsAgree
  <2>5. QED
    BY <2>3, <2>4
<1>2. ASSUME NEW T \in SUBSET S
      PROVE  /\ G[T] \in Int
             /\ T = {} => G[T] = 0
             /\ T # {} => G[T] = f[One(T)] + G[T \ {One(T)}]
  <2> HIDE DEF G
  <2>a. PICK D \in SUBSET SUBSET S : \E g : AddsUp(f, D, g) /\ T \in D
    BY <1>a DEF HasSum
  <2>1. PICK g : AddsUp(f, D, g) /\ T \in D
    BY <2>a
  <2>b. G[T] = g[T]
    BY <2>1, <1>1
  <2>2. G[T] = g[T] /\ g[T] \in Int
    BY <2>1, <2>b DEF AddsUp
  <2>3. CASE T = {}
    BY <2>1, <2>2, <2>3 DEF AddsUp
  <2>4. CASE T # {}
    <3>1. T \ {One(T)} \in D /\ g[T] = f[One(T)] + g[T \ {One(T)}]
      BY <2>1, <2>4 DEF AddsUp
    <3>2. G[T \ {One(T)}] = g[T \ {One(T)}]
      BY <3>1, <2>1, <1>1
    <3>3. QED
      BY <2>2, <2>4, <3>1, <3>2
  <2>5. QED
    BY <2>3, <2>4
<1>3. G = [T \in SUBSET S |-> IF T = {} THEN 0 ELSE f[One(T)] + G[T \ {One(T)}]]
  <2>1. \A T \in SUBSET S :
          G[T] = IF T = {} THEN 0 ELSE f[One(T)] + G[T \ {One(T)}]
    <3> HIDE DEF G
    <3>1. QED
      BY <1>2
  <2>2. G = [T \in SUBSET S |-> G[T]]
    OBVIOUS
  <2> HIDE DEF G
  <2>3. QED
    BY <2>1, <2>2
<1> DEFINE A == Summing(f, S)
<1>4. A = [T \in SUBSET S |-> IF T = {} THEN 0 ELSE f[One(T)] + A[T \ {One(T)}]]
  <2> HIDE DEF G
  <2>1. QED
    BY <1>3, Zenon DEF Summing
<1> HIDE DEF A
<1>5. \A T \in SUBSET S :
        A[T] = IF T = {} THEN 0 ELSE f[One(T)] + A[T \ {One(T)}]
  BY <1>4
<1>6. DOMAIN A = SUBSET S /\ A = [T \in SUBSET S |-> A[T]]
  BY <1>4
<1>7. \A T \in SUBSET S : T # {} => T \ {One(T)} \in SUBSET S
  OBVIOUS
<1>8. \A T \in SUBSET S : A[T] \in Int
  <2> DEFINE B == {T \in SUBSET S : A[T] \notin Int}
  <2> SUFFICES ASSUME B # {}
               PROVE  FALSE
    OBVIOUS
  <2>a. B \subseteq SUBSET S
    OBVIOUS
  <2> HIDE DEF B
  <2>1. PICK T \in B : \A U \in B : U \subseteq T => U = T
    BY <2>a, SmallestSubset
  <2> USE DEF B
  <2>b. A[{}] \in Int
    <3>1. A[{}] = 0
      BY <1>5
    <3>2. QED
      BY <3>1
  <2>2. T # {}
    BY <2>1, <2>b
  <2>3. One(T) \in S /\ T \ {One(T)} \in SUBSET S /\ T \ {One(T)} # T
    BY <2>1, <2>2, OneIsIn
  <2>4. A[T \ {One(T)}] \in Int
    BY <2>1, <2>3
  <2>5. QED
    BY <2>1, <2>2, <2>3, <2>4, <1>5
<1>9. A \in [SUBSET S -> Int]
  BY <1>6, <1>8
<1>10. QED
  BY <1>5, <1>7, <1>9 DEF AddsUp, A

----------------------------------------------------------------------------
(* What a sum is *)

LEMMA SumInt ==
  ASSUME NEW S, IsFiniteSet(S), NEW f, \A x \in S : f[x] \in Int
  PROVE  SumFunctionOnSet(f, S) \in Int
<1>1. AddsUp(f, SUBSET S, Summing(f, S))
  BY SummingAddsUp
<1>2. QED
  BY <1>1, SumUnfolds DEF AddsUp

\* The sum over a subset is what the function behind a larger sum has there.
LEMMA SumOfSubset ==
  ASSUME NEW S, IsFiniteSet(S), NEW f, \A x \in S : f[x] \in Int,
         NEW T \in SUBSET S
  PROVE  SumFunctionOnSet(f, T) = Summing(f, S)[T]
<1>1. IsFiniteSet(T)
  BY FS_Subset
<1>2. /\ AddsUp(f, SUBSET S, Summing(f, S))
      /\ AddsUp(f, SUBSET T, Summing(f, T))
  <2>1. AddsUp(f, SUBSET S, Summing(f, S))
    BY SummingAddsUp
  <2>2. \A x \in T : f[x] \in Int
    OBVIOUS
  <2>3. AddsUp(f, SUBSET T, Summing(f, T))
    BY <1>1, <2>2, SummingAddsUp
  <2>4. QED
    BY <2>1, <2>3
<1>3. SUBSET T \subseteq SUBSET S /\ T \in (SUBSET T) \cap (SUBSET S)
  OBVIOUS
<1>4. Summing(f, T)[T] = Summing(f, S)[T]
  <2> DEFINE g == Summing(f, T)
             h == Summing(f, S)
             D == SUBSET T
             E == SUBSET S
  <2>1. AddsUp(f, D, g) /\ AddsUp(f, E, h) /\ D \subseteq SUBSET S
        /\ E \subseteq SUBSET S /\ T \in D \cap E
    BY <1>2, <1>3
  <2> HIDE DEF g, h, D, E
  <2>2. \A U \in D \cap E : g[U] = h[U]
    BY <2>1, SumsAgree
  <2>3. g[T] = h[T]
    BY <2>1, <2>2
  <2>4. QED
    BY <2>3 DEF g, h
<1>5. QED
  BY <1>4, SumUnfolds

LEMMA SumEmpty ==
  ASSUME NEW f
  PROVE  SumFunctionOnSet(f, {}) = 0
<1>1. IsFiniteSet({})
  BY FS_EmptySet
<1>2. AddsUp(f, SUBSET {}, Summing(f, {}))
  BY <1>1, SummingAddsUp
<1>3. QED
  BY <1>2, SumUnfolds DEF AddsUp

\* Whichever member is taken out first.
LEMMA SumRemove ==
  ASSUME NEW S, IsFiniteSet(S), NEW f, \A x \in S : f[x] \in Int, NEW y \in S
  PROVE  SumFunctionOnSet(f, S) = f[y] + SumFunctionOnSet(f, S \ {y})
<1> DEFINE g == Summing(f, S)
           B == {T \in SUBSET S : \E x \in T : g[T] # f[x] + g[T \ {x}]}
<1>1. AddsUp(f, SUBSET S, g)
  BY SummingAddsUp
<1> HIDE DEF g
<1>2. \A T \in SUBSET S : T # {} =>
        One(T) \in T /\ g[T] = f[One(T)] + g[T \ {One(T)}]
  BY <1>1, OneIsIn DEF AddsUp
<1>3. \A T \in SUBSET S : g[T] \in Int
  BY <1>1 DEF AddsUp
<1>4. B = {}
  <2> SUFFICES ASSUME B # {}
               PROVE  FALSE
    OBVIOUS
  <2>1. B \subseteq SUBSET S
    OBVIOUS
  <2> HIDE DEF B
  <2>2. PICK T \in B : \A U \in B : U \subseteq T => U = T
    BY <2>1, SmallestSubset
  <2> USE DEF B
  <2>3. PICK x \in T : g[T] # f[x] + g[T \ {x}]
    BY <2>2
  <2> DEFINE z == One(T)
  <2>4. z \in T /\ g[T] = f[z] + g[T \ {z}] /\ T \in SUBSET S
    BY <2>3, <1>2
  <2> HIDE DEF z
  <2>5. x # z
    BY <2>3, <2>4
  <2>6. T \ {x} \notin B /\ T \ {z} \notin B
    BY <2>2, <2>3, <2>4
  <2>7. /\ g[T \ {z}] = f[x] + g[(T \ {z}) \ {x}]
        /\ g[T \ {x}] = f[z] + g[(T \ {x}) \ {z}]
    BY <2>3, <2>4, <2>5, <2>6
  <2>8. (T \ {z}) \ {x} = (T \ {x}) \ {z}
    OBVIOUS
  <2>9. f[x] \in Int /\ f[z] \in Int /\ g[(T \ {x}) \ {z}] \in Int
    BY <2>3, <2>4, <1>3
  <2>10. g[T] = f[z] + (f[x] + g[(T \ {x}) \ {z}])
    BY <2>4, <2>7, <2>8
  <2>11. f[x] + g[T \ {x}] = f[x] + (f[z] + g[(T \ {x}) \ {z}])
    BY <2>7
  <2>12. f[z] + (f[x] + g[(T \ {x}) \ {z}]) = f[x] + (f[z] + g[(T \ {x}) \ {z}])
    BY <2>9
  <2>13. QED
    BY <2>3, <2>10, <2>11, <2>12
<1>5. g[S] = f[y] + g[S \ {y}]
  BY <1>4
<1>6. SumFunctionOnSet(f, S) = g[S] /\ SumFunctionOnSet(f, S \ {y}) = g[S \ {y}]
  BY SumOfSubset DEF g
<1>7. QED
  BY <1>5, <1>6

LEMMA SumAdd ==
  ASSUME NEW S, IsFiniteSet(S), NEW y, y \notin S,
         NEW f, \A x \in S \cup {y} : f[x] \in Int
  PROVE  SumFunctionOnSet(f, S \cup {y}) = SumFunctionOnSet(f, S) + f[y]
<1>1. IsFiniteSet(S \cup {y}) /\ (S \cup {y}) \ {y} = S
  BY FS_AddElement
<1>2. SumFunctionOnSet(f, S \cup {y}) = f[y] + SumFunctionOnSet(f, S)
  BY <1>1, SumRemove
<1>3. SumFunctionOnSet(f, S) \in Int /\ f[y] \in Int
  BY SumInt
<1>4. QED
  BY <1>2, <1>3

\* A sum only depends on the values that are added up.
LEMMA SumSame ==
  ASSUME NEW S, IsFiniteSet(S), NEW f, NEW h,
         \A x \in S : f[x] \in Int /\ h[x] = f[x]
  PROVE  SumFunctionOnSet(h, S) = SumFunctionOnSet(f, S)
<1> DEFINE B == {T \in SUBSET S : SumFunctionOnSet(h, T) # SumFunctionOnSet(f, T)}
<1>1. B = {}
  <2> SUFFICES ASSUME B # {}
               PROVE  FALSE
    OBVIOUS
  <2>1. B \subseteq SUBSET S
    OBVIOUS
  <2> HIDE DEF B
  <2>2. PICK T \in B : \A U \in B : U \subseteq T => U = T
    BY <2>1, SmallestSubset
  <2> USE DEF B
  <2>3. T \in SUBSET S /\ IsFiniteSet(T)
    BY <2>2, FS_Subset
  <2>4. T # {}
    BY <2>2, SumEmpty
  <2>5. PICK y \in T : TRUE
    BY <2>4
  <2>6. \A x \in T : f[x] \in Int /\ h[x] \in Int /\ h[x] = f[x]
    BY <2>3
  <2>7. /\ SumFunctionOnSet(f, T) = f[y] + SumFunctionOnSet(f, T \ {y})
        /\ SumFunctionOnSet(h, T) = h[y] + SumFunctionOnSet(h, T \ {y})
    BY <2>3, <2>6, SumRemove
  <2>8. T \ {y} \in SUBSET S /\ T \ {y} \subseteq T /\ T \ {y} # T
    BY <2>3
  <2>9. SumFunctionOnSet(h, T \ {y}) = SumFunctionOnSet(f, T \ {y})
    BY <2>2, <2>8
  <2>10. QED
    BY <2>2, <2>6, <2>7, <2>9
<1>2. QED
  BY <1>1

\* One value changes.
LEMMA SumChange ==
  ASSUME NEW S, IsFiniteSet(S), NEW y \in S, NEW f, NEW h,
         \A x \in S : f[x] \in Int /\ h[x] \in Int,
         \A x \in S \ {y} : h[x] = f[x]
  PROVE  SumFunctionOnSet(h, S) = SumFunctionOnSet(f, S) - f[y] + h[y]
<1>1. /\ SumFunctionOnSet(f, S) = f[y] + SumFunctionOnSet(f, S \ {y})
      /\ SumFunctionOnSet(h, S) = h[y] + SumFunctionOnSet(h, S \ {y})
  BY SumRemove
<1>2. IsFiniteSet(S \ {y})
  BY FS_RemoveElement
<1>3. SumFunctionOnSet(h, S \ {y}) = SumFunctionOnSet(f, S \ {y})
  BY <1>2, SumSame
<1>4. SumFunctionOnSet(f, S \ {y}) \in Int
  BY <1>2, SumInt
<1>5. QED
  BY <1>1, <1>3, <1>4

\* No member of a sum of naturals exceeds it.
LEMMA SumNat ==
  ASSUME NEW S, IsFiniteSet(S), NEW f, \A x \in S : f[x] \in Nat
  PROVE  /\ SumFunctionOnSet(f, S) \in Nat
         /\ \A x \in S : f[x] <= SumFunctionOnSet(f, S)
<1> DEFINE B == {T \in SUBSET S : SumFunctionOnSet(f, T) \notin Nat}
<1>1. \A x \in S : f[x] \in Int
  OBVIOUS
<1>2. B = {}
  <2> SUFFICES ASSUME B # {}
               PROVE  FALSE
    OBVIOUS
  <2>1. B \subseteq SUBSET S
    OBVIOUS
  <2> HIDE DEF B
  <2>2. PICK T \in B : \A U \in B : U \subseteq T => U = T
    BY <2>1, SmallestSubset
  <2> USE DEF B
  <2>3. T \in SUBSET S /\ IsFiniteSet(T) /\ SumFunctionOnSet(f, T) \notin Nat
    BY <2>2, FS_Subset
  <2>4. T # {}
    BY <2>3, SumEmpty
  <2>5. PICK y \in T : TRUE
    BY <2>4
  <2>6. \A x \in T : f[x] \in Int
    BY <2>3
  <2>7. SumFunctionOnSet(f, T) = f[y] + SumFunctionOnSet(f, T \ {y})
    BY <2>3, <2>6, SumRemove
  <2>8. SumFunctionOnSet(f, T \ {y}) \in Nat
    BY <2>2, <2>3
  <2>9. f[y] \in Nat
    BY <2>3
  <2>10. QED
    BY <2>3, <2>7, <2>8, <2>9
<1>3. \A T \in SUBSET S : SumFunctionOnSet(f, T) \in Nat
  BY <1>2
<1>4. ASSUME NEW x \in S
      PROVE  f[x] <= SumFunctionOnSet(f, S)
  <2>1. SumFunctionOnSet(f, S) = f[x] + SumFunctionOnSet(f, S \ {x})
    BY <1>1, SumRemove
  <2>2. SumFunctionOnSet(f, S \ {x}) \in Nat /\ f[x] \in Nat
    BY <1>3
  <2>3. QED
    BY <2>1, <2>2
<1>5. QED
  BY <1>3, <1>4

\* A sum over two disjoint sets.
LEMMA SumUnion ==
  ASSUME NEW S, IsFiniteSet(S), NEW T, IsFiniteSet(T), S \cap T = {},
         NEW f, \A x \in S \cup T : f[x] \in Int
  PROVE  SumFunctionOnSet(f, S \cup T) = SumFunctionOnSet(f, S) + SumFunctionOnSet(f, T)
<1> DEFINE B == {U \in SUBSET T : SumFunctionOnSet(f, S \cup U)
                                    # SumFunctionOnSet(f, S) + SumFunctionOnSet(f, U)}
<1>0. SumFunctionOnSet(f, S) \in Int
  BY SumInt
<1>1. B = {}
  <2> SUFFICES ASSUME B # {}
               PROVE  FALSE
    OBVIOUS
  <2>1. B \subseteq SUBSET T
    OBVIOUS
  <2> HIDE DEF B
  <2>2. PICK U \in B : \A V \in B : V \subseteq U => V = U
    BY <2>1, SmallestSubset
  <2> USE DEF B
  <2>3. /\ U \in SUBSET T /\ IsFiniteSet(U)
        /\ SumFunctionOnSet(f, S \cup U)
             # SumFunctionOnSet(f, S) + SumFunctionOnSet(f, U)
    BY <2>2, FS_Subset
  <2>4. U # {}
    <3>1. S \cup {} = S
      OBVIOUS
    <3>2. SumFunctionOnSet(f, {}) = 0
      BY SumEmpty
    <3>3. SumFunctionOnSet(f, S \cup {}) = SumFunctionOnSet(f, S) + SumFunctionOnSet(f, {})
      BY <1>0, <3>1, <3>2
    <3>4. QED
      BY <2>3, <3>3
  <2>5. PICK y \in U : TRUE
    BY <2>4
  <2> DEFINE V == U \ {y}
  <2>6. V \in SUBSET T /\ V \subseteq U /\ V # U /\ IsFiniteSet(V)
    BY <2>3, FS_RemoveElement
  <2>7. SumFunctionOnSet(f, S \cup V) = SumFunctionOnSet(f, S) + SumFunctionOnSet(f, V)
    BY <2>2, <2>6
  <2>8. SumFunctionOnSet(f, U) = f[y] + SumFunctionOnSet(f, V)
    BY <2>3, SumRemove
  <2>9. /\ IsFiniteSet(S \cup U) /\ y \in S \cup U /\ (S \cup U) \ {y} = S \cup V
        /\ \A x \in S \cup U : f[x] \in Int
    BY <2>3, FS_Union
  <2>10. SumFunctionOnSet(f, S \cup U) = f[y] + SumFunctionOnSet(f, S \cup V)
    BY <2>9, SumRemove
  <2>11. SumFunctionOnSet(f, V) \in Int /\ f[y] \in Int
    BY <2>3, <2>6, SumInt
  <2>12. QED
    BY <1>0, <2>3, <2>7, <2>8, <2>10, <2>11
<1>2. QED
  BY <1>1

\* Nothing adds up to nothing.
LEMMA SumZero ==
  ASSUME NEW S, IsFiniteSet(S), NEW f, \A x \in S : f[x] = 0
  PROVE  SumFunctionOnSet(f, S) = 0
<1> DEFINE B == {T \in SUBSET S : SumFunctionOnSet(f, T) # 0}
<1>1. B = {}
  <2> SUFFICES ASSUME B # {}
               PROVE  FALSE
    OBVIOUS
  <2>1. B \subseteq SUBSET S
    OBVIOUS
  <2> HIDE DEF B
  <2>2. PICK T \in B : \A U \in B : U \subseteq T => U = T
    BY <2>1, SmallestSubset
  <2> USE DEF B
  <2>3. T \in SUBSET S /\ IsFiniteSet(T) /\ SumFunctionOnSet(f, T) # 0
    BY <2>2, FS_Subset
  <2>4. PICK y \in T : TRUE
    BY <2>3, SumEmpty
  <2>5. SumFunctionOnSet(f, T) = f[y] + SumFunctionOnSet(f, T \ {y})
    <3>1. \A x \in T : f[x] \in Int
      BY <2>3
    <3>2. QED
      BY <2>3, <3>1, SumRemove
  <2>6. T \ {y} \in SUBSET S /\ T \ {y} \subseteq T /\ T \ {y} # T
    BY <2>3
  <2>7. SumFunctionOnSet(f, T \ {y}) = 0 /\ f[y] = 0
    BY <2>2, <2>3, <2>6
  <2>8. QED
    BY <2>3, <2>5, <2>7
<1>2. QED
  BY <1>1

\* Two functions are added up as their values are.
LEMMA SumPlus ==
  ASSUME NEW S, IsFiniteSet(S), NEW f, NEW g, NEW h,
         \A x \in S : f[x] \in Int /\ g[x] \in Int /\ h[x] = f[x] + g[x]
  PROVE  SumFunctionOnSet(h, S) = SumFunctionOnSet(f, S) + SumFunctionOnSet(g, S)
<1> DEFINE B == {T \in SUBSET S : SumFunctionOnSet(h, T)
                                    # SumFunctionOnSet(f, T) + SumFunctionOnSet(g, T)}
<1>1. B = {}
  <2> SUFFICES ASSUME B # {}
               PROVE  FALSE
    OBVIOUS
  <2>1. B \subseteq SUBSET S
    OBVIOUS
  <2> HIDE DEF B
  <2>2. PICK T \in B : \A U \in B : U \subseteq T => U = T
    BY <2>1, SmallestSubset
  <2> USE DEF B
  <2>3. /\ T \in SUBSET S /\ IsFiniteSet(T)
        /\ SumFunctionOnSet(h, T) # SumFunctionOnSet(f, T) + SumFunctionOnSet(g, T)
    BY <2>2, FS_Subset
  <2>4. PICK y \in T : TRUE
    <3>1. /\ SumFunctionOnSet(h, {}) = 0 /\ SumFunctionOnSet(f, {}) = 0
          /\ SumFunctionOnSet(g, {}) = 0
      BY SumEmpty
    <3>2. SumFunctionOnSet(h, {}) = SumFunctionOnSet(f, {}) + SumFunctionOnSet(g, {})
      BY <3>1
    <3>3. T # {}
      <4> HIDE DEF B
      <4>1. QED
        BY <2>3, <3>2
    <3>4. QED
      BY <3>3
  <2> DEFINE V == T \ {y}
  <2>5. V \in SUBSET S /\ V \subseteq T /\ V # T /\ IsFiniteSet(V)
    BY <2>3, FS_RemoveElement
  <2>6. \A x \in T : f[x] \in Int /\ g[x] \in Int /\ h[x] \in Int
    BY <2>3
  <2>7. /\ SumFunctionOnSet(h, T) = h[y] + SumFunctionOnSet(h, V)
        /\ SumFunctionOnSet(f, T) = f[y] + SumFunctionOnSet(f, V)
        /\ SumFunctionOnSet(g, T) = g[y] + SumFunctionOnSet(g, V)
    BY <2>3, <2>6, SumRemove
  <2>8. SumFunctionOnSet(h, V) = SumFunctionOnSet(f, V) + SumFunctionOnSet(g, V)
    BY <2>2, <2>5
  <2>9. SumFunctionOnSet(f, V) \in Int /\ SumFunctionOnSet(g, V) \in Int
    BY <2>5, <2>6, SumInt
  <2>10. f[y] \in Int /\ g[y] \in Int /\ h[y] = f[y] + g[y]
    BY <2>3
  <2>11. QED
    BY <2>3, <2>7, <2>8, <2>9, <2>10
<1>2. QED
  BY <1>1

\* The largest of a set of numbers that has a bound.
LEMMA Largest ==
  ASSUME NEW n \in Nat, NEW S \in SUBSET (0 .. n), S # {}
  PROVE  Max(S) \in S /\ \A y \in S : Max(S) >= y
<1> DEFINE T == {n - x : x \in S}
<1>0. PICK w \in S : n - w \in T
  OBVIOUS
<1>1. T \subseteq Nat
  OBVIOUS
<1> HIDE DEF T
<1>2. PICK t \in T : \A y \in T : ~(y < t)
  BY <1>0, <1>1, SmallestNumber
<1>3. PICK x \in S : t = n - x
  BY <1>2 DEF T
<1>4. \A y \in S : x >= y
  <2> TAKE y \in S
  <2>1. n - y \in T
    BY DEF T
  <2>2. ~(n - y < n - x)
    BY <1>2, <1>3, <2>1
  <2> QED BY <2>2
<1>5. \E z \in S : \A y \in S : z >= y
  BY <1>4
<1> QED BY <1>5 DEF Max

----------------------------------------------------------------------------
(* Sequences of rows: one is changed, or one comes last *)

LEMMA RowPut ==
  ASSUME NEW R, NEW s \in Seq(R), NEW k \in DOMAIN s, NEW r \in R
  PROVE  LET t == [s EXCEPT ![k] = r]
         IN  /\ t \in Seq(R) /\ Len(t) = Len(s) /\ DOMAIN t = DOMAIN s
             /\ t[k] = r /\ \A i \in DOMAIN s \ {k} : t[i] = s[i]
  OBVIOUS

LEMMA RowAppended ==
  ASSUME NEW R, NEW s \in Seq(R), NEW r \in R
  PROVE  LET t == Append(s, r)
             n == Len(s) + 1
         IN  /\ t \in Seq(R) /\ Len(t) = n /\ DOMAIN t = DOMAIN s \cup {n}
             /\ n \notin DOMAIN s /\ t[n] = r /\ \A i \in DOMAIN s : t[i] = s[i]
  OBVIOUS

\* What the rows of a sequence add up to, in their field "sum".
Added(s) == SumFunctionOnSet([k \in DOMAIN s |-> s[k].sum], DOMAIN s)

LEMMA AddedRows ==
  ASSUME NEW R, \A r \in R : r.sum \in Int, NEW s \in Seq(R)
  PROVE  /\ Added(s) \in Int /\ IsFiniteSet(DOMAIN s)
         /\ \A k \in DOMAIN s : s[k] \in R /\ s[k].sum \in Int
<1>1. IsFiniteSet(DOMAIN s)
  <2>1. DOMAIN s = 1 .. Len(s) /\ Len(s) \in Nat
    OBVIOUS
  <2> QED BY <2>1, FS_Interval
<1>2. \A k \in DOMAIN s : s[k] \in R /\ s[k].sum \in Int
  OBVIOUS
<1> DEFINE f == [k \in DOMAIN s |-> s[k].sum]
<1>3. \A k \in DOMAIN s : f[k] \in Int
  BY <1>2
<1> HIDE DEF f
<1>4. SumFunctionOnSet(f, DOMAIN s) \in Int
  BY <1>1, <1>3, SumInt
<1> QED BY <1>1, <1>2, <1>4 DEF Added, f

LEMMA AddedNone == Added(<<>>) = 0
  BY SumEmpty DEF Added

LEMMA AddedPut ==
  ASSUME NEW R, \A r \in R : r.sum \in Int,
         NEW s \in Seq(R), NEW k \in DOMAIN s, NEW v \in R
  PROVE  Added([s EXCEPT ![k] = v]) = Added(s) - s[k].sum + v.sum
<1> DEFINE t == [s EXCEPT ![k] = v]
           f == [i \in DOMAIN s |-> s[i].sum]
           g == [i \in DOMAIN t |-> t[i].sum]
<1>1. /\ t \in Seq(R) /\ DOMAIN t = DOMAIN s
      /\ t[k] = v /\ \A i \in DOMAIN s \ {k} : t[i] = s[i]
  BY RowPut
<1> HIDE DEF t
<1>2. IsFiniteSet(DOMAIN s) /\ \A i \in DOMAIN s : s[i].sum \in Int /\ t[i].sum \in Int
  BY <1>1, AddedRows
<1>3. \A i \in DOMAIN s : f[i] \in Int /\ g[i] \in Int
  BY <1>1, <1>2
<1>4. \A i \in DOMAIN s \ {k} : g[i] = f[i]
  BY <1>1
<1>5. f[k] = s[k].sum /\ g[k] = v.sum
  BY <1>1
<1> HIDE DEF f, g
<1>6. SumFunctionOnSet(g, DOMAIN s) = SumFunctionOnSet(f, DOMAIN s) - f[k] + g[k]
  <2> DEFINE D == DOMAIN s
  <2>1. /\ k \in D /\ IsFiniteSet(D)
        /\ \A i \in D : f[i] \in Int /\ g[i] \in Int
        /\ \A i \in D \ {k} : g[i] = f[i]
    BY <1>2, <1>3, <1>4
  <2> HIDE DEF D
  <2>2. SumFunctionOnSet(g, D) = SumFunctionOnSet(f, D) - f[k] + g[k]
    BY <2>1, SumChange
  <2> QED BY <2>2 DEF D
<1>7. Added(t) = SumFunctionOnSet(g, DOMAIN s) /\ Added(s) = SumFunctionOnSet(f, DOMAIN s)
  BY <1>1 DEF Added, f, g
<1> QED BY <1>5, <1>6, <1>7 DEF t

LEMMA AddedAppended ==
  ASSUME NEW R, \A r \in R : r.sum \in Int, NEW s \in Seq(R), NEW v \in R
  PROVE  Added(Append(s, v)) = Added(s) + v.sum
<1> DEFINE t == Append(s, v)
           n == Len(s) + 1
           f == [i \in DOMAIN s |-> s[i].sum]
           g == [i \in DOMAIN t |-> t[i].sum]
<1>1. /\ t \in Seq(R) /\ DOMAIN t = DOMAIN s \cup {n} /\ n \notin DOMAIN s
      /\ t[n] = v /\ \A i \in DOMAIN s : t[i] = s[i]
  BY RowAppended
<1> HIDE DEF t, n
<1>2. IsFiniteSet(DOMAIN s) /\ \A i \in DOMAIN t : t[i].sum \in Int
  BY <1>1, AddedRows
<1>3. \A i \in DOMAIN s \cup {n} : g[i] \in Int
  BY <1>1, <1>2
<1>4. \A i \in DOMAIN s : g[i] \in Int /\ f[i] = g[i]
  BY <1>1, <1>3
<1>5. g[n] = v.sum
  BY <1>1
<1> HIDE DEF f, g
<1>6. SumFunctionOnSet(g, DOMAIN s \cup {n}) = SumFunctionOnSet(g, DOMAIN s) + g[n]
  BY <1>1, <1>2, <1>3, SumAdd
<1>7. SumFunctionOnSet(f, DOMAIN s) = SumFunctionOnSet(g, DOMAIN s)
  BY <1>2, <1>4, SumSame
<1>8. /\ Added(t) = SumFunctionOnSet(g, DOMAIN s \cup {n})
      /\ Added(s) = SumFunctionOnSet(f, DOMAIN s)
  BY <1>1 DEF Added, f, g
<1> QED BY <1>5, <1>6, <1>7, <1>8 DEF t

=============================================================================
