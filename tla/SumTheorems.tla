----------------------------- MODULE SumTheorems -----------------------------
(***************************************************************************)
(* Facts about SumFunctionOnSet(f, S), the sum of the f[x] over a finite   *)
(* set S, which the money of the models is added up with.  Each is proved  *)
(* from a smallest set that would contradict it.                           *)
(***************************************************************************)
EXTENDS Integers, FiniteSets, Functions, FiniteSetTheorems, WellFoundedInduction, TLAPS

-----------------------------------------------------------------------------
(* Induction over numbers and finite sets, as the choice of a least one.   *)

LEMMA LeastNumber ==
  ASSUME NEW N \in SUBSET Nat, N # {}
  PROVE  \E n \in N : \A m \in N : n <= m
<1>1. PICK n \in N : \A m \in N : ~ (<<m, n>> \in OpToRel(<, Nat))
  BY NatLessThanWellFounded, WFMin
<1>2. \A m \in N : ~ (m < n)
  BY <1>1 DEF OpToRel
<1> QED
  BY <1>2

\* In a family of finite sets there is one that leaves it with every element it loses.
LEMMA SmallestSet ==
  ASSUME NEW F, F # {}, \A T \in F : IsFiniteSet(T)
  PROVE  \E T \in F : \A x \in T : T \ {x} \notin F
<1> DEFINE N == {Cardinality(T) : T \in F}
<1>1. N \in SUBSET Nat /\ N # {}
  BY FS_CardinalityType
<1>2. PICK n \in N : \A m \in N : n <= m
  <2> HIDE DEF N
  <2> QED
    BY <1>1, LeastNumber
<1>3. PICK T \in F : n = Cardinality(T)
  BY <1>2
<1>4. ASSUME NEW x \in T, T \ {x} \in F PROVE FALSE
  <2>1. Cardinality(T \ {x}) = Cardinality(T) - 1
    BY FS_RemoveElement
  <2>2. n <= Cardinality(T \ {x})
    BY <1>2, <1>4
  <2> QED
    BY <1>1, <1>3, <2>1, <2>2
<1> QED
  BY <1>4

-----------------------------------------------------------------------------
(* The recursion that defines the sum.                                     *)

Chosen(T) == CHOOSE x \in T : TRUE

\* The function g adds up f over the sets of D.
Sums(g, f, D) ==
  g = [T \in D |-> IF T = {} THEN 0 ELSE f[Chosen(T)] + g[T \ {Chosen(T)}]]

LEMMA SumUnfolds ==
  ASSUME NEW f, NEW S
  PROVE  SumFunctionOnSet(f, S) = (CHOOSE g : Sums(g, f, SUBSET S))[S]
BY DEF SumFunctionOnSet, FoldFunctionOnSet, MapThenFoldSet, Sums, Chosen

\* The sums over the subsets of S that have at most n elements.
UpTo(n, S) == {T \in SUBSET S : Cardinality(T) <= n}

LEMMA SumsExist ==
  ASSUME NEW f, NEW S, IsFiniteSet(S)
  PROVE  \E g : Sums(g, f, SUBSET S)
<1> DEFINE Without == {n \in Nat : ~ \E g : Sums(g, f, UpTo(n, S))}
<1>1. \A T \in SUBSET S : IsFiniteSet(T) /\ Cardinality(T) \in Nat
  BY FS_Subset, FS_CardinalityType
<1>2. \A T \in SUBSET S : T # {} => Chosen(T) \in T
  BY DEF Chosen
<1>3. \A T \in SUBSET S : T # {} =>
        /\ T \ {Chosen(T)} \in SUBSET S
        /\ Cardinality(T \ {Chosen(T)}) = Cardinality(T) - 1
  BY <1>1, <1>2, FS_RemoveElement
<1>4. \A T \in SUBSET S : Cardinality(T) = 0 <=> T = {}
  BY <1>1, FS_EmptySet
<1>5. Sums([T \in {{}} |-> 0], f, UpTo(0, S))
  <2>1. UpTo(0, S) = {{}}
    BY <1>1, <1>4 DEF UpTo
  <2> QED
    BY <2>1 DEF Sums
<1>6. ASSUME NEW n \in Nat, NEW g, Sums(g, f, UpTo(n, S))
      PROVE  \E h : Sums(h, f, UpTo(n + 1, S))
  <2> DEFINE h == [T \in UpTo(n + 1, S) |->
                     IF T = {} THEN 0 ELSE f[Chosen(T)] + g[T \ {Chosen(T)}]]
  <2>1. \A T \in UpTo(n, S) : T \in UpTo(n + 1, S) /\ h[T] = g[T]
    <3>1. ASSUME NEW T \in UpTo(n, S) PROVE T \in UpTo(n + 1, S)
      BY <1>1 DEF UpTo
    <3>2. ASSUME NEW T \in UpTo(n, S)
          PROVE  g[T] = IF T = {} THEN 0 ELSE f[Chosen(T)] + g[T \ {Chosen(T)}]
      BY <1>6 DEF Sums
    <3> QED
      BY <3>1, <3>2
  <2>2. \A T \in UpTo(n + 1, S) : T # {} => T \ {Chosen(T)} \in UpTo(n, S)
    BY <1>1, <1>3 DEF UpTo
  <2>3. Sums(h, f, UpTo(n + 1, S))
    BY <2>1, <2>2 DEF Sums
  <2> QED
    BY <2>3
<1>7. Without = {}
  <2> SUFFICES ASSUME Without # {} PROVE FALSE
    OBVIOUS
  <2>1. PICK n \in Without : \A m \in Without : n <= m
    <3>1. Without \in SUBSET Nat
      OBVIOUS
    <3> HIDE DEF Without
    <3> QED
      BY <3>1, LeastNumber
  <2>2. n # 0
    BY <1>5, <2>1
  <2>3. n - 1 \in Nat /\ n - 1 \notin Without
    BY <2>1, <2>2
  <2>4. \E g : Sums(g, f, UpTo((n - 1) + 1, S))
    BY <1>6, <2>3
  <2>5. (n - 1) + 1 = n
    BY <2>1
  <2> QED
    BY <2>1, <2>4, <2>5
<1>8. UpTo(Cardinality(S), S) = SUBSET S /\ Cardinality(S) \in Nat
  BY <1>1, FS_Subset DEF UpTo
<1>9. \E g : Sums(g, f, UpTo(Cardinality(S), S))
  BY <1>7, <1>8
<1> QED
  BY <1>8, <1>9

\* A sum over a part of S is the same with the recursion over S as with its own.
LEMMA SumRecursion ==
  ASSUME NEW f, NEW S, IsFiniteSet(S), NEW g, Sums(g, f, SUBSET S)
  PROVE  g[S] = SumFunctionOnSet(f, S)
<1> DEFINE k == CHOOSE h : Sums(h, f, SUBSET S)
<1>1. Sums(k, f, SUBSET S)
  BY SumsExist
<1> HIDE DEF k
<1> DEFINE F == {T \in SUBSET S : g[T] # k[T]}
<1>2. F = {}
  <2> SUFFICES ASSUME F # {} PROVE FALSE
    OBVIOUS
  <2>1. \A T \in F : IsFiniteSet(T)
    BY FS_Subset
  <2>2. PICK T \in F : \A x \in T : T \ {x} \notin F
    <3> HIDE DEF F
    <3> QED
      BY <2>1, SmallestSet
  <2>3. CASE T = {}
    BY <1>1, <2>3 DEF Sums
  <2>4. CASE T # {}
    <3>1. Chosen(T) \in T
      BY <2>4 DEF Chosen
    <3>2. g[T \ {Chosen(T)}] = k[T \ {Chosen(T)}]
      BY <2>2, <3>1
    <3>3. /\ g[T] = f[Chosen(T)] + g[T \ {Chosen(T)}]
          /\ k[T] = f[Chosen(T)] + k[T \ {Chosen(T)}]
      BY <1>1, <2>2, <2>4 DEF Sums
    <3> QED
      BY <2>2, <3>2, <3>3
  <2> QED
    BY <2>3, <2>4
<1> QED
  BY <1>2, SumUnfolds DEF k

LEMMA SumEmpty ==
  ASSUME NEW f
  PROVE  SumFunctionOnSet(f, {}) = 0
<1>1. Sums([T \in {{}} |-> 0], f, SUBSET {})
  <2>1. SUBSET {} = {{}}
    OBVIOUS
  <2> QED
    BY <2>1 DEF Sums
<1> QED
  BY <1>1, SumRecursion, FS_EmptySet

LEMMA SumChosen ==
  ASSUME NEW f, NEW S, IsFiniteSet(S), S # {}
  PROVE  SumFunctionOnSet(f, S)
           = f[Chosen(S)] + SumFunctionOnSet(f, S \ {Chosen(S)})
<1> DEFINE R == S \ {Chosen(S)}
<1>1. PICK g : Sums(g, f, SUBSET S)
  BY SumsExist
<1>2. IsFiniteSet(R)
  BY FS_RemoveElement
<1>3. Sums([T \in SUBSET R |-> g[T]], f, SUBSET R)
  BY <1>1 DEF Sums
<1>4. g[R] = SumFunctionOnSet(f, R)
  BY <1>2, <1>3, SumRecursion
<1>5. g[S] = f[Chosen(S)] + g[R]
  BY <1>1 DEF Sums
<1> QED
  BY <1>1, <1>4, <1>5, SumRecursion

-----------------------------------------------------------------------------
(* What a sum is, and how it follows a change.                             *)

\* A sum of integers is one.
LEMMA SumInt ==
  ASSUME NEW f, NEW S, IsFiniteSet(S), \A x \in S : f[x] \in Int
  PROVE  SumFunctionOnSet(f, S) \in Int
<1> DEFINE F == {T \in SUBSET S : SumFunctionOnSet(f, T) \notin Int}
<1>1. \A T \in F : IsFiniteSet(T)
  BY FS_Subset
<1>2. ASSUME NEW T \in F, \A x \in T : T \ {x} \notin F
      PROVE  FALSE
  <2>1. CASE T = {}
    BY <2>1, SumEmpty
  <2>2. CASE T # {}
    <3>1. Chosen(T) \in T
      BY <2>2 DEF Chosen
    <3>2. SumFunctionOnSet(f, T \ {Chosen(T)}) \in Int
      BY <1>2, <3>1
    <3> QED
      BY <1>1, <2>2, <3>1, <3>2, SumChosen
  <2> QED
    BY <2>1, <2>2
<1>3. F = {}
  <2> HIDE DEF F
  <2> QED
    BY <1>1, <1>2, SmallestSet
<1> QED
  BY <1>3

\* An element may be taken out of a sum, whichever it is.
LEMMA SumTakenOut ==
  ASSUME NEW f, NEW S, IsFiniteSet(S), \A x \in S : f[x] \in Int, NEW x \in S
  PROVE  SumFunctionOnSet(f, S) = f[x] + SumFunctionOnSet(f, S \ {x})
<1> DEFINE F == {T \in SUBSET S : \E y \in T :
                   SumFunctionOnSet(f, T) # f[y] + SumFunctionOnSet(f, T \ {y})}
<1>1. \A T \in F : IsFiniteSet(T)
  BY FS_Subset
<1>2. ASSUME NEW T \in F, \A z \in T : T \ {z} \notin F
      PROVE  FALSE
  <2>1. PICK y \in T : SumFunctionOnSet(f, T) # f[y] + SumFunctionOnSet(f, T \ {y})
    BY <1>2
  <2> DEFINE c == Chosen(T)
  <2>2. c \in T
    BY <2>1 DEF Chosen
  <2> HIDE DEF c
  <2>3. SumFunctionOnSet(f, T) = f[c] + SumFunctionOnSet(f, T \ {c})
    BY <1>1, <2>1, SumChosen DEF c
  <2>4. y # c
    BY <2>1, <2>3
  <2>5. SumFunctionOnSet(f, T \ {c}) = f[y] + SumFunctionOnSet(f, (T \ {c}) \ {y})
    BY <1>2, <2>2, <2>4
  <2>6. SumFunctionOnSet(f, T \ {y}) = f[c] + SumFunctionOnSet(f, (T \ {y}) \ {c})
    BY <1>2, <2>1, <2>2, <2>4
  <2>7. (T \ {c}) \ {y} = (T \ {y}) \ {c} /\ IsFiniteSet((T \ {c}) \ {y})
    BY <1>1, FS_RemoveElement
  <2>8. SumFunctionOnSet(f, (T \ {c}) \ {y}) \in Int
    BY <2>7, SumInt
  <2>9. f[c] \in Int /\ f[y] \in Int
    BY <2>1, <2>2
  <2> QED
    BY <2>1, <2>3, <2>5, <2>6, <2>7, <2>8, <2>9
<1>3. F = {}
  <2> HIDE DEF F
  <2> QED
    BY <1>1, <1>2, SmallestSet
<1> QED
  BY <1>3

\* An element that is put in adds what it counts for.
LEMMA SumPutIn ==
  ASSUME NEW f, NEW S, IsFiniteSet(S), NEW x, x \notin S,
         \A y \in S \cup {x} : f[y] \in Int
  PROVE  SumFunctionOnSet(f, S \cup {x}) = SumFunctionOnSet(f, S) + f[x]
<1>1. IsFiniteSet(S \cup {x}) /\ (S \cup {x}) \ {x} = S
  BY FS_AddElement
<1>2. SumFunctionOnSet(f, S) \in Int
  BY SumInt
<1> QED
  BY <1>1, <1>2, SumTakenOut

\* Only what f is on S counts.
LEMMA SumSame ==
  ASSUME NEW f, NEW g, NEW S, IsFiniteSet(S), \A x \in S : f[x] = g[x]
  PROVE  SumFunctionOnSet(f, S) = SumFunctionOnSet(g, S)
<1> DEFINE F == {T \in SUBSET S : SumFunctionOnSet(f, T) # SumFunctionOnSet(g, T)}
<1>1. \A T \in F : IsFiniteSet(T)
  BY FS_Subset
<1>2. ASSUME NEW T \in F, \A x \in T : T \ {x} \notin F
      PROVE  FALSE
  <2>1. T # {}
    BY SumEmpty
  <2>2. Chosen(T) \in T
    BY <2>1 DEF Chosen
  <2>3. SumFunctionOnSet(f, T \ {Chosen(T)}) = SumFunctionOnSet(g, T \ {Chosen(T)})
    BY <1>2, <2>2
  <2> QED
    BY <1>1, <2>1, <2>2, <2>3, SumChosen
<1>3. F = {}
  <2> HIDE DEF F
  <2> QED
    BY <1>1, <1>2, SmallestSet
<1> QED
  BY <1>3

\* Two functions that differ at one element only have sums that differ as much.
LEMMA SumChanged ==
  ASSUME NEW f, NEW g, NEW S, IsFiniteSet(S), NEW x \in S,
         \A y \in S : f[y] \in Int /\ g[y] \in Int,
         \A y \in S \ {x} : f[y] = g[y]
  PROVE  SumFunctionOnSet(g, S) = SumFunctionOnSet(f, S) - f[x] + g[x]
<1>1. IsFiniteSet(S \ {x})
  BY FS_RemoveElement
<1>2. SumFunctionOnSet(f, S \ {x}) = SumFunctionOnSet(g, S \ {x})
  BY <1>1, SumSame
<1>3. SumFunctionOnSet(f, S \ {x}) \in Int
  BY <1>1, SumInt
<1> QED
  BY <1>2, <1>3, SumTakenOut

\* What is no smaller at any element has no smaller a sum.
LEMMA SumMonotone ==
  ASSUME NEW f, NEW g, NEW S, IsFiniteSet(S),
         \A y \in S : f[y] \in Int /\ g[y] \in Int /\ f[y] <= g[y]
  PROVE  SumFunctionOnSet(f, S) <= SumFunctionOnSet(g, S)
<1> DEFINE F == {T \in SUBSET S : ~ (SumFunctionOnSet(f, T) <= SumFunctionOnSet(g, T))}
<1>1. \A T \in F : IsFiniteSet(T)
  BY FS_Subset
<1>2. ASSUME NEW T \in F, \A x \in T : T \ {x} \notin F
      PROVE  FALSE
  <2>1. CASE T = {}
    BY <2>1, SumEmpty
  <2>2. CASE T # {}
    <3> DEFINE c == Chosen(T)
    <3>1. c \in T
      BY <2>2 DEF Chosen
    <3>2. SumFunctionOnSet(f, T \ {c}) <= SumFunctionOnSet(g, T \ {c})
      BY <1>2, <3>1
    <3>3. IsFiniteSet(T \ {c})
      BY <1>1, FS_RemoveElement
    <3>4. SumFunctionOnSet(f, T \ {c}) \in Int /\ SumFunctionOnSet(g, T \ {c}) \in Int
      BY <3>3, SumInt
    <3>5. /\ SumFunctionOnSet(f, T) = f[c] + SumFunctionOnSet(f, T \ {c})
          /\ SumFunctionOnSet(g, T) = g[c] + SumFunctionOnSet(g, T \ {c})
      BY <1>1, <2>2, SumChosen
    <3>6. f[c] \in Int /\ g[c] \in Int /\ f[c] <= g[c]
      BY <3>1
    <3> QED
      BY <3>2, <3>4, <3>5, <3>6
  <2> QED
    BY <2>1, <2>2
<1>3. F = {}
  <2> HIDE DEF F
  <2> QED
    BY <1>1, <1>2, SmallestSet
<1> QED
  BY <1>3

LEMMA SumOfZeros ==
  ASSUME NEW f, NEW S, IsFiniteSet(S), \A x \in S : f[x] = 0
  PROVE  SumFunctionOnSet(f, S) = 0
<1> DEFINE F == {T \in SUBSET S : SumFunctionOnSet(f, T) # 0}
<1>1. \A T \in F : IsFiniteSet(T)
  BY FS_Subset
<1>2. ASSUME NEW T \in F, \A x \in T : T \ {x} \notin F
      PROVE  FALSE
  <2>1. T # {}
    BY SumEmpty
  <2> DEFINE c == Chosen(T)
  <2>2. c \in T
    BY <2>1 DEF Chosen
  <2>3. f[c] = 0 /\ SumFunctionOnSet(f, T \ {c}) = 0
    BY <1>2, <2>2
  <2>4. SumFunctionOnSet(f, T) = f[c] + SumFunctionOnSet(f, T \ {c})
    BY <1>1, <2>1, SumChosen
  <2> QED
    BY <2>3, <2>4
<1>3. F = {}
  <2> HIDE DEF F
  <2> QED
    BY <1>1, <1>2, SmallestSet
<1> QED
  BY <1>3

\* Natural numbers add up to one, of which each is a part.
LEMMA SumNat ==
  ASSUME NEW f, NEW S, IsFiniteSet(S), \A x \in S : f[x] \in Nat
  PROVE  /\ SumFunctionOnSet(f, S) \in Nat
         /\ \A x \in S : f[x] <= SumFunctionOnSet(f, S)
<1>1. ASSUME NEW T \in SUBSET S PROVE SumFunctionOnSet(f, T) \in Nat
  <2> DEFINE zero == [x \in T |-> 0]
  <2>1. IsFiniteSet(T)
    BY FS_Subset
  <2>2. SumFunctionOnSet(zero, T) = 0
    BY <2>1, SumOfZeros
  <2>3. SumFunctionOnSet(zero, T) <= SumFunctionOnSet(f, T)
    BY <2>1, SumMonotone
  <2>4. SumFunctionOnSet(f, T) \in Int
    BY <2>1, SumInt
  <2> QED
    BY <2>2, <2>3, <2>4
<1>2. ASSUME NEW x \in S PROVE f[x] <= SumFunctionOnSet(f, S)
  <2>1. SumFunctionOnSet(f, S \ {x}) \in Nat /\ SumFunctionOnSet(f, S) \in Nat
    BY <1>1
  <2>2. SumFunctionOnSet(f, S) = f[x] + SumFunctionOnSet(f, S \ {x})
    BY SumTakenOut
  <2> QED
    BY <2>1, <2>2
<1> QED
  BY <1>1, <1>2

LEMMA SumOne ==
  ASSUME NEW f, NEW x, f[x] \in Int
  PROVE  SumFunctionOnSet(f, {x}) = f[x]
<1>1. IsFiniteSet({x}) /\ {x} \ {x} = {}
  BY FS_Singleton
<1>2. SumFunctionOnSet(f, {x}) = f[x] + SumFunctionOnSet(f, {})
  BY <1>1, SumTakenOut
<1> QED
  BY <1>2, SumEmpty

\* A part of a sum of natural numbers is no larger than the whole.
LEMMA SumOfPart ==
  ASSUME NEW f, NEW S, IsFiniteSet(S), NEW T \in SUBSET S, \A x \in S : f[x] \in Nat
  PROVE  SumFunctionOnSet(f, T) <= SumFunctionOnSet(f, S)
<1> DEFINE F == {R \in SUBSET S :
                   T \subseteq R /\ ~ (SumFunctionOnSet(f, T) <= SumFunctionOnSet(f, R))}
<1>1. \A R \in SUBSET S : IsFiniteSet(R) /\ SumFunctionOnSet(f, R) \in Nat
  BY FS_Subset, SumNat
<1>2. ASSUME NEW R \in F, \A x \in R : R \ {x} \notin F
      PROVE  FALSE
  <2>1. R # T
    BY <1>1
  <2>2. PICK x \in R : x \notin T
    BY <2>1
  <2>3. SumFunctionOnSet(f, T) <= SumFunctionOnSet(f, R \ {x})
    BY <1>2, <2>2
  <2>4. SumFunctionOnSet(f, R) = f[x] + SumFunctionOnSet(f, R \ {x})
    BY <1>1, SumTakenOut
  <2>5. f[x] \in Nat /\ R \ {x} \in SUBSET S
    OBVIOUS
  <2> QED
    BY <1>1, <2>3, <2>4, <2>5
<1>3. F = {}
  <2>1. \A R \in F : IsFiniteSet(R)
    BY <1>1
  <2> HIDE DEF F
  <2> QED
    BY <1>2, <2>1, SmallestSet
<1> QED
  BY <1>3

\* One element more, and the others as they were.
LEMMA SumExtended ==
  ASSUME NEW f, NEW g, NEW S, IsFiniteSet(S), NEW x, x \notin S, g[x] \in Int,
         \A y \in S : f[y] \in Int /\ g[y] = f[y]
  PROVE  SumFunctionOnSet(g, S \cup {x}) = SumFunctionOnSet(f, S) + g[x]
<1>1. SumFunctionOnSet(g, S) = SumFunctionOnSet(f, S)
  BY SumSame
<1>2. SumFunctionOnSet(g, S \cup {x}) = SumFunctionOnSet(g, S) + g[x]
  BY SumPutIn
<1> QED
  BY <1>1, <1>2

\* A sum is that of a part and that of the rest.
LEMMA SumSplit ==
  ASSUME NEW f, NEW S, IsFiniteSet(S), NEW T \in SUBSET S, \A x \in S : f[x] \in Int
  PROVE  SumFunctionOnSet(f, S) = SumFunctionOnSet(f, T) + SumFunctionOnSet(f, S \ T)
<1> DEFINE F == {R \in SUBSET S : SumFunctionOnSet(f, S)
                   # SumFunctionOnSet(f, R) + SumFunctionOnSet(f, S \ R)}
<1>1. \A R \in SUBSET S : IsFiniteSet(R) /\ SumFunctionOnSet(f, R) \in Int
  BY FS_Subset, SumInt
<1>2. ASSUME NEW R \in F, \A x \in R : R \ {x} \notin F
      PROVE  FALSE
  <2>1. CASE R = {}
    <3>1. S \ R = S
      BY <2>1
    <3> QED
      BY <1>1, <2>1, <3>1, SumEmpty
  <2>2. CASE R # {}
    <3>1. PICK c \in R : TRUE
      BY <2>2
    <3>2. R \ {c} \in SUBSET S /\ S \ R \in SUBSET S /\ c \in S /\ c \notin S \ R
      BY <3>1
    <3>3. S \ (R \ {c}) = (S \ R) \cup {c}
      BY <3>1, <3>2
    <3>4. SumFunctionOnSet(f, S)
            = SumFunctionOnSet(f, R \ {c}) + SumFunctionOnSet(f, (S \ R) \cup {c})
      BY <1>2, <3>1, <3>2, <3>3
    <3>5. SumFunctionOnSet(f, (S \ R) \cup {c}) = SumFunctionOnSet(f, S \ R) + f[c]
      BY <1>1, <3>2, SumPutIn
    <3>6. SumFunctionOnSet(f, R) = f[c] + SumFunctionOnSet(f, R \ {c})
      BY <1>1, <3>1, SumTakenOut
    <3>7. /\ SumFunctionOnSet(f, R) \in Int /\ SumFunctionOnSet(f, R \ {c}) \in Int
          /\ SumFunctionOnSet(f, S \ R) \in Int /\ f[c] \in Int
      BY <1>1, <3>2
    <3> HIDE DEF F
    <3>8. SumFunctionOnSet(f, S) = SumFunctionOnSet(f, R) + SumFunctionOnSet(f, S \ R)
      BY <3>4, <3>5, <3>6, <3>7
    <3> QED
      BY <1>2, <3>8 DEF F
  <2> QED
    BY <2>1, <2>2
<1>3. F = {}
  <2>1. \A R \in F : IsFiniteSet(R)
    BY <1>1
  <2> HIDE DEF F
  <2> QED
    BY <1>2, <2>1, SmallestSet
<1> QED
  BY <1>3

\* The sums of two functions add up to the sum of their values added up.
LEMMA SumAdded ==
  ASSUME NEW f, NEW g, NEW h, NEW S, IsFiniteSet(S),
         \A x \in S : f[x] \in Int /\ g[x] \in Int /\ h[x] = f[x] + g[x]
  PROVE  SumFunctionOnSet(h, S) = SumFunctionOnSet(f, S) + SumFunctionOnSet(g, S)
<1> DEFINE F == {T \in SUBSET S : SumFunctionOnSet(h, T)
                   # SumFunctionOnSet(f, T) + SumFunctionOnSet(g, T)}
<1>1. \A T \in SUBSET S : /\ IsFiniteSet(T)
                          /\ SumFunctionOnSet(f, T) \in Int
                          /\ SumFunctionOnSet(g, T) \in Int
                          /\ SumFunctionOnSet(h, T) \in Int
  BY FS_Subset, SumInt
<1>2. ASSUME NEW T \in F, \A x \in T : T \ {x} \notin F
      PROVE  FALSE
  <2>1. CASE T = {}
    BY <2>1, SumEmpty
  <2>2. CASE T # {}
    <3>1. PICK c \in T : TRUE
      BY <2>2
    <3>2. T \ {c} \in SUBSET S /\ c \in S
      BY <3>1
    <3>3. SumFunctionOnSet(h, T \ {c})
            = SumFunctionOnSet(f, T \ {c}) + SumFunctionOnSet(g, T \ {c})
      BY <1>2, <3>1, <3>2
    <3>4. SumFunctionOnSet(f, T) = f[c] + SumFunctionOnSet(f, T \ {c})
      BY <1>1, <3>1, SumTakenOut
    <3>5. SumFunctionOnSet(g, T) = g[c] + SumFunctionOnSet(g, T \ {c})
      BY <1>1, <3>1, SumTakenOut
    <3>6. SumFunctionOnSet(h, T) = h[c] + SumFunctionOnSet(h, T \ {c})
      BY <1>1, <3>1, SumTakenOut
    <3>7. /\ SumFunctionOnSet(f, T \ {c}) \in Int /\ SumFunctionOnSet(g, T \ {c}) \in Int
          /\ f[c] \in Int /\ g[c] \in Int /\ h[c] = f[c] + g[c]
      BY <1>1, <3>2
    <3> HIDE DEF F
    <3>8. SumFunctionOnSet(h, T) = SumFunctionOnSet(f, T) + SumFunctionOnSet(g, T)
      BY <3>3, <3>4, <3>5, <3>6, <3>7
    <3> QED
      BY <1>2, <3>8 DEF F
  <2> QED
    BY <2>1, <2>2
<1>3. F = {}
  <2>1. \A T \in F : IsFiniteSet(T)
    BY <1>1
  <2> HIDE DEF F
  <2> QED
    BY <1>2, <2>1, SmallestSet
<1> QED
  BY <1>3
=============================================================================
