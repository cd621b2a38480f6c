-------------------------------- MODULE Sums --------------------------------
(***************************************************************************)
(* What the sums of Functions compute: SumFunctionOnSet(f, S) takes the    *)
(* elements of S one at a time, and for a finite S and natural numbers the *)
(* order does not matter.  Induction on S takes a smallest counterexample. *)
(***************************************************************************)
EXTENDS Integers, Functions, FiniteSetTheorems, WellFoundedInduction, TLAPS

Pick(s) == CHOOSE x \in s : TRUE

IsSum(f, S, sum) ==
    sum = [s \in SUBSET S |-> IF s = {} THEN 0 ELSE f[Pick(s)] + sum[s \ {Pick(s)}]]

LEMMA SumIs == \A f, S : SumFunctionOnSet(f, S) = (CHOOSE sum : IsSum(f, S, sum))[S]
  BY DEF SumFunctionOnSet, FoldFunctionOnSet, MapThenFoldSet, IsSum, Pick

\* A set of subsets of a finite set has a smallest one.
LEMMA Smallest ==
    ASSUME NEW S, IsFiniteSet(S), NEW C \in SUBSET SUBSET S, C # {}
    PROVE  \E T \in C : IsFiniteSet(T) /\ \A U \in C : U \subseteq T => U = T
  <1>1. IsWellFoundedOn(StrictSubsetOrdering(S), SUBSET S)
    BY FS_StrictSubsetOrderingWellFounded, FS_FiniteSubsetsOfFinite
  <1>2. PICK T \in C : \A U \in C : <<U, T>> \notin StrictSubsetOrdering(S)
    BY <1>1, WFMin
  <1>3. \A U \in C : U \subseteq T => U = T
    BY <1>2 DEF StrictSubsetOrdering
  <1> QED
    BY <1>3, FS_Subset

\* A finite set that a relation orders, if only weakly, has a last element.
LEMMA Last_ ==
    ASSUME NEW S, IsFiniteSet(S), S # {}, NEW r,
           \A x, y \in S : <<x, y>> \in r \/ <<y, x>> \in r,
           \A x, y, z \in S : <<x, y>> \in r /\ <<y, z>> \in r => <<x, z>> \in r
    PROVE  \E x \in S : \A y \in S : <<y, x>> \in r
  <1> DEFINE C == {T \in SUBSET S : T # {} /\ ~\E x \in T : \A y \in T : <<y, x>> \in r}
  <1>0. S \notin C => \E x \in S : \A y \in S : <<y, x>> \in r
    OBVIOUS
  <1> SUFFICES ASSUME C # {} PROVE FALSE
    <2> HIDE DEF C
    <2> QED
      BY <1>0
  <1>1. PICK T \in C : \A U \in C : U \subseteq T => U = T
    <2>1. C \in SUBSET SUBSET S
      OBVIOUS
    <2> HIDE DEF C
    <2> QED
      BY <2>1, Smallest
  <1>2. PICK z \in T : TRUE
    BY <1>1
  <1> DEFINE U == T \ {z}
  <1>3. U \in SUBSET S /\ U \notin C
    <2>1. U \in SUBSET S /\ U \subseteq T /\ U # T
      BY <1>2
    <2> HIDE DEF C, U
    <2> QED
      BY <1>1, <2>1
  <1>4. CASE U = {}
    <2>1. T = {z} /\ z \in S
      BY <1>2, <1>4
    <2> QED
      BY <1>1, <2>1
  <1>5. CASE U # {}
    <2>1. PICK x \in U : \A y \in U : <<y, x>> \in r
      BY <1>3, <1>5
    <2>2. T \subseteq S /\ x \in T /\ z \in T
      OBVIOUS
    <2>3. \A y \in T : <<y, x>> \in r \/ y = z
      BY <2>1
    <2>4. ~\E m \in T : \A y \in T : <<y, m>> \in r
      BY <1>1
    <2>5. CASE <<z, x>> \in r
      BY <2>2, <2>3, <2>4, <2>5
    <2>6. CASE <<x, z>> \in r
      <3>1. \A y \in T : <<y, z>> \in r
        <4> SUFFICES ASSUME NEW y \in T PROVE <<y, z>> \in r
          OBVIOUS
        <4>1. CASE <<y, x>> \in r
          BY <2>2, <2>6, <4>1
        <4>2. CASE y = z
          BY <2>2, <4>2
        <4> QED
          BY <2>3, <4>1, <4>2
      <3> QED
        BY <2>2, <2>4, <3>1
    <2> QED
      BY <2>2, <2>5, <2>6
  <1> QED
    BY <1>4, <1>5

\* A finite set of natural numbers has a greatest one.
LEMMA Greatest ==
    ASSUME NEW S, IsFiniteSet(S), S \subseteq Nat, S # {}
    PROVE  \E x \in S : \A y \in S : y <= x
  <1> DEFINE r == {p \in Nat \X Nat : p[1] <= p[2]}
  <1>1. \A x, y \in Nat : <<x, y>> \in r <=> x <= y
    OBVIOUS
  <1>2. /\ \A x, y \in S : <<x, y>> \in r \/ <<y, x>> \in r
        /\ \A x, y, z \in S : <<x, y>> \in r /\ <<y, z>> \in r => <<x, z>> \in r
    BY <1>1
  <1> HIDE DEF r
  <1>3. \E x \in S : \A y \in S : <<y, x>> \in r
    BY <1>2, Last_, Zenon
  <1> QED
    BY <1>1, <1>3

\* A set of natural numbers up to n has a least one.
LEMMA Least ==
    ASSUME NEW n \in Nat, NEW S \in SUBSET (0 .. n), S # {}
    PROVE  \E x \in S : \A y \in S : x <= y
  <1> DEFINE r == {p \in Nat \X Nat : p[2] <= p[1]}
  <1>1. \A x, y \in Nat : <<x, y>> \in r <=> y <= x
    OBVIOUS
  <1>2. S \subseteq Nat /\ IsFiniteSet(S)
    <2>1. 0 \in Int /\ n \in Int
      OBVIOUS
    <2>2. IsFiniteSet(0 .. n)
      BY <2>1, FS_Interval
    <2>3. IsFiniteSet(S)
      BY <2>2, FS_Subset
    <2> QED
      BY <2>3
  <1>3. /\ \A x, y \in S : <<x, y>> \in r \/ <<y, x>> \in r
        /\ \A x, y, z \in S : <<x, y>> \in r /\ <<y, z>> \in r => <<x, z>> \in r
    BY <1>1, <1>2
  <1> HIDE DEF r
  <1>4. \E x \in S : \A y \in S : <<y, x>> \in r
    BY <1>2, <1>3, Last_, Zenon
  <1>5. PICK x \in S : \A y \in S : <<y, x>> \in r
    BY <1>4
  <1>6. \A y \in S : x <= y
    BY <1>1, <1>2, <1>5
  <1> QED
    BY <1>6

LEMMA SumUnique ==
    ASSUME NEW f, NEW S, NEW T, IsFiniteSet(T), NEW sum, NEW sum2,
           IsSum(f, S, sum), IsSum(f, T, sum2), T \subseteq S
    PROVE  \A s \in SUBSET T : sum[s] = sum2[s]
  <1> DEFINE C == {s \in SUBSET T : sum[s] # sum2[s]}
  <1> SUFFICES ASSUME C # {} PROVE FALSE
    OBVIOUS
  <1>1. PICK s \in C : \A u \in C : u \subseteq s => u = s
    <2>1. C \in SUBSET SUBSET T
      OBVIOUS
    <2> HIDE DEF C
    <2> QED
      BY <2>1, Smallest
  <1>2. sum[s] = IF s = {} THEN 0 ELSE f[Pick(s)] + sum[s \ {Pick(s)}]
    BY DEF IsSum
  <1>3. sum2[s] = IF s = {} THEN 0 ELSE f[Pick(s)] + sum2[s \ {Pick(s)}]
    BY DEF IsSum
  <1>4. s # {} => Pick(s) \in s
    BY DEF Pick
  <1>5. s # {} => sum[s \ {Pick(s)}] = sum2[s \ {Pick(s)}]
    <2>1. s \ {Pick(s)} \in SUBSET T /\ s \ {Pick(s)} \subseteq s
      BY <1>1
    <2>2. s # {} => s \ {Pick(s)} # s
      BY <1>4
    <2> QED
      BY <1>1, <2>1, <2>2
  <1> QED
    BY <1>1, <1>2, <1>3, <1>5

\* The recursion has a solution, so the one chosen is one.
LEMMA SumExists ==
    ASSUME NEW f, NEW S, IsFiniteSet(S)
    PROVE  \E sum : IsSum(f, S, sum)
  <1> DEFINE C == {T \in SUBSET S : ~\E sum : IsSum(f, T, sum)}
  <1> SUFFICES ASSUME C # {} PROVE FALSE
    OBVIOUS
  <1>1. PICK T \in C : IsFiniteSet(T) /\ \A U \in C : U \subseteq T => U = T
    <2>1. C \in SUBSET SUBSET S
      OBVIOUS
    <2> HIDE DEF C
    <2> QED
      BY <2>1, Smallest
  <1> DEFINE Sum(U) == (CHOOSE sum : IsSum(f, U, sum))[U]
             all == [s \in SUBSET T |->
                       IF s = {} THEN 0
                       ELSE IF s = T THEN f[Pick(T)] + Sum(T \ {Pick(T)})
                       ELSE Sum(s)]
  <1>2. ASSUME NEW U \in SUBSET T, U # T
        PROVE  IsSum(f, U, CHOOSE sum : IsSum(f, U, sum))
    BY <1>1, <1>2
  <1>3. ASSUME NEW U \in SUBSET T, U # T, NEW V \in SUBSET U
        PROVE  (CHOOSE sum : IsSum(f, U, sum))[V] = Sum(V)
    <2>1. V # T /\ V \in SUBSET T /\ IsFiniteSet(V)
      BY <1>1, <1>3, FS_Subset
    <2>2. /\ IsSum(f, U, CHOOSE sum : IsSum(f, U, sum))
          /\ IsSum(f, V, CHOOSE sum : IsSum(f, V, sum))
      BY <1>2, <1>3, <2>1
    <2> QED
      BY <2>1, <2>2, SumUnique
  <1>4. ASSUME NEW s \in SUBSET T
        PROVE  all[s] = IF s = {} THEN 0 ELSE f[Pick(s)] + all[s \ {Pick(s)}]
    <2>1. CASE s = {}
      BY <2>1
    <2>2. CASE s # {}
      <3>1. Pick(s) \in s
        BY <2>2 DEF Pick
      <3> DEFINE u == s \ {Pick(s)}
      <3>2. u \in SUBSET T /\ u # T /\ u \in SUBSET s
        BY <3>1
      <3>3. Sum({}) = 0
        <4>1. {} \in SUBSET T /\ {} # T
          BY <2>2
        <4> HIDE DEF Sum
        <4>2. IsSum(f, {}, CHOOSE sum : IsSum(f, {}, sum))
          BY <1>2, <4>1
        <4> DEFINE z == CHOOSE sum : IsSum(f, {}, sum)
        <4> HIDE DEF z
        <4>3. IsSum(f, {}, z)
          BY <4>2 DEF z
        <4>4. z[{}] = 0
          BY <4>3 DEF IsSum
        <4> QED
          BY <4>4 DEF z, Sum
      <3>4. all[u] = Sum(u)
        BY <3>2, <3>3
      <3>5. CASE s = T
        BY <2>2, <3>4, <3>5
      <3>6. CASE s # T
        <4> DEFINE i == CHOOSE sum : IsSum(f, s, sum)
        <4>1. IsSum(f, s, i)
          BY <1>2, <3>6
        <4>2. i[u] = Sum(u)
          BY <1>3, <3>2, <3>6
        <4>3. all[s] = i[s]
          BY <2>2, <3>6
        <4> HIDE DEF i, all, Sum
        <4>4. i[s] = f[Pick(s)] + i[u]
          BY <2>2, <4>1 DEF IsSum
        <4> QED
          BY <2>2, <3>4, <4>2, <4>3, <4>4
      <3> QED
        BY <3>5, <3>6
    <2> QED
      BY <2>1, <2>2
  <1>5. IsSum(f, T, all)
    <2> HIDE DEF Sum
    <2>1. all = [s \in SUBSET T |-> all[s]]
      OBVIOUS
    <2> HIDE DEF all
    <2>2. all = [s \in SUBSET T |-> IF s = {} THEN 0 ELSE f[Pick(s)] + all[s \ {Pick(s)}]]
      BY <1>4, <2>1
    <2> QED
      BY <2>2 DEF IsSum
  <1> QED
    BY <1>1, <1>5

-----------------------------------------------------------------------------
(* One element after another *)

LEMMA SumEmpty == \A f : SumFunctionOnSet(f, {}) = 0
  <1> SUFFICES ASSUME NEW f PROVE SumFunctionOnSet(f, {}) = 0
    OBVIOUS
  <1>1. IsSum(f, {}, CHOOSE sum : IsSum(f, {}, sum))
    BY SumExists, FS_EmptySet
  <1> DEFINE z == CHOOSE sum : IsSum(f, {}, sum)
  <1>2. z[{}] = 0
    <2> HIDE DEF z
    <2>1. IsSum(f, {}, z)
      BY <1>1 DEF z
    <2> QED
      BY <2>1 DEF IsSum
  <1> QED
    BY <1>2, SumIs

LEMMA SumPick ==
    ASSUME NEW f, NEW S, IsFiniteSet(S), S # {}
    PROVE  SumFunctionOnSet(f, S) = f[Pick(S)] + SumFunctionOnSet(f, S \ {Pick(S)})
  <1> DEFINE sum == CHOOSE sum : IsSum(f, S, sum)
             u == S \ {Pick(S)}
             sum2 == CHOOSE sum2 : IsSum(f, u, sum2)
  <1>1. IsFiniteSet(u) /\ u \subseteq S
    BY FS_Subset
  <1>2. IsSum(f, S, sum) /\ IsSum(f, u, sum2)
    BY <1>1, SumExists
  <1>3. SumFunctionOnSet(f, S) = sum[S] /\ SumFunctionOnSet(f, u) = sum2[u]
    BY SumIs
  <1> HIDE DEF sum, sum2, u
  <1>4. sum[u] = sum2[u]
    BY <1>1, <1>2, SumUnique
  <1>5. sum[S] = f[Pick(S)] + sum[u]
    BY <1>2 DEF IsSum, u
  <1> QED
    BY <1>3, <1>4, <1>5 DEF u

LEMMA SumNat ==
    ASSUME NEW f, NEW S, IsFiniteSet(S), \A x \in S : f[x] \in Nat
    PROVE  SumFunctionOnSet(f, S) \in Nat
  <1> DEFINE C == {T \in SUBSET S : SumFunctionOnSet(f, T) \notin Nat}
  <1> SUFFICES ASSUME C # {} PROVE FALSE
    OBVIOUS
  <1>1. PICK T \in C : IsFiniteSet(T) /\ \A U \in C : U \subseteq T => U = T
    <2>1. C \in SUBSET SUBSET S
      OBVIOUS
    <2> HIDE DEF C
    <2> QED
      BY <2>1, Smallest
  <1>2. T # {}
    <2>1. SumFunctionOnSet(f, T) \notin Nat /\ SumFunctionOnSet(f, {}) = 0
      BY SumEmpty
    <2> QED
      BY <2>1
  <1>3. Pick(T) \in T
    BY <1>2 DEF Pick
  <1>4. SumFunctionOnSet(f, T) = f[Pick(T)] + SumFunctionOnSet(f, T \ {Pick(T)})
    BY <1>1, <1>2, SumPick
  <1>5. SumFunctionOnSet(f, T \ {Pick(T)}) \in Nat
    BY <1>1, <1>3
  <1>6. f[Pick(T)] \in Nat
    BY <1>3
  <1> QED
    BY <1>1, <1>4, <1>5, <1>6

\* Any element may be the first one taken.
LEMMA SumRemove ==
    ASSUME NEW f, NEW S, IsFiniteSet(S), \A y \in S : f[y] \in Nat, NEW x \in S
    PROVE  SumFunctionOnSet(f, S) = f[x] + SumFunctionOnSet(f, S \ {x})
  <1> DEFINE Sum(T) == SumFunctionOnSet(f, T)
             C == {T \in SUBSET S : \E y \in T : Sum(T) # f[y] + Sum(T \ {y})}
  <1> SUFFICES ASSUME C # {} PROVE FALSE
    OBVIOUS
  <1>1. PICK T \in C : IsFiniteSet(T) /\ \A U \in C : U \subseteq T => U = T
    <2>1. C \in SUBSET SUBSET S
      OBVIOUS
    <2> HIDE DEF C
    <2> QED
      BY <2>1, Smallest
  <1>2. PICK y \in T : Sum(T) # f[y] + Sum(T \ {y})
    OBVIOUS
  <1> DEFINE p == Pick(T)
             both == T \ {p, y}
  <1>3. p \in T
    BY <1>2 DEF Pick
  <1>4. Sum(T) = f[p] + Sum(T \ {p})
    BY <1>1, <1>2, SumPick
  <1>5. p # y
    BY <1>2, <1>4
  <1> HIDE DEF p
  <1>6. (T \ {p}) \ {y} = both /\ (T \ {y}) \ {p} = both
    OBVIOUS
  <1>7. T \ {p} \in SUBSET S /\ T \ {y} \in SUBSET S /\ T \ {p} # T /\ T \ {y} # T
    BY <1>2, <1>3
  <1>8. T \ {p} \notin C /\ T \ {y} \notin C
    BY <1>1, <1>7
  <1>9. Sum(T \ {p}) = f[y] + Sum((T \ {p}) \ {y})
    BY <1>2, <1>5, <1>7, <1>8
  <1>10. Sum(T \ {y}) = f[p] + Sum((T \ {y}) \ {p})
    BY <1>3, <1>5, <1>7, <1>8
  <1>11. Sum(both) \in Nat
    <2>1. IsFiniteSet(both) /\ both \subseteq S
      BY <1>1, FS_Subset
    <2> QED
      BY <2>1, SumNat
  <1>12. f[p] \in Nat /\ f[y] \in Nat
    BY <1>3
  <1>13. \A i, j, k \in Nat : i + (j + k) = j + (i + k)
    OBVIOUS
  <1>14. Sum(T) = f[p] + (f[y] + Sum(both)) /\ Sum(T \ {y}) = f[p] + Sum(both)
    <2> HIDE DEF Sum, both, C
    <2> QED
      BY <1>4, <1>6, <1>9, <1>10
  <1> HIDE DEF Sum, both, C
  <1> QED
    BY <1>2, <1>11, <1>12, <1>13, <1>14

LEMMA SumAdd ==
    ASSUME NEW f, NEW S, IsFiniteSet(S), NEW x, x \notin S, \A y \in S \cup {x} : f[y] \in Nat
    PROVE  SumFunctionOnSet(f, S \cup {x}) = f[x] + SumFunctionOnSet(f, S)
  <1>1. IsFiniteSet(S \cup {x}) /\ x \in S \cup {x} /\ (S \cup {x}) \ {x} = S
    BY FS_AddElement
  <1>2. SumFunctionOnSet(f, S \cup {x}) = f[x] + SumFunctionOnSet(f, (S \cup {x}) \ {x})
    BY <1>1, SumRemove
  <1> QED
    BY <1>1, <1>2

LEMMA SumSame ==
    ASSUME NEW f, NEW g, NEW S, IsFiniteSet(S), \A x \in S : f[x] = g[x]
    PROVE  SumFunctionOnSet(f, S) = SumFunctionOnSet(g, S)
  <1> DEFINE C == {T \in SUBSET S : SumFunctionOnSet(f, T) # SumFunctionOnSet(g, T)}
  <1> SUFFICES ASSUME C # {} PROVE FALSE
    OBVIOUS
  <1>1. PICK T \in C : IsFiniteSet(T) /\ \A U \in C : U \subseteq T => U = T
    <2>1. C \in SUBSET SUBSET S
      OBVIOUS
    <2> HIDE DEF C
    <2> QED
      BY <2>1, Smallest
  <1>2. T # {}
    BY SumEmpty
  <1>3. Pick(T) \in T
    BY <1>2 DEF Pick
  <1>4. /\ SumFunctionOnSet(f, T) = f[Pick(T)] + SumFunctionOnSet(f, T \ {Pick(T)})
        /\ SumFunctionOnSet(g, T) = g[Pick(T)] + SumFunctionOnSet(g, T \ {Pick(T)})
    BY <1>1, <1>2, SumPick
  <1>5. SumFunctionOnSet(f, T \ {Pick(T)}) = SumFunctionOnSet(g, T \ {Pick(T)})
    BY <1>1, <1>3
  <1> QED
    BY <1>3, <1>4, <1>5

\* One summand changes.
LEMMA SumChange ==
    ASSUME NEW f, NEW g, NEW S, IsFiniteSet(S), NEW x \in S,
           \A y \in S : f[y] \in Nat /\ g[y] \in Nat /\ (y # x => f[y] = g[y])
    PROVE  SumFunctionOnSet(g, S) + f[x] = SumFunctionOnSet(f, S) + g[x]
  <1> DEFINE u == S \ {x}
  <1>1. IsFiniteSet(u)
    BY FS_Subset
  <1>2. SumFunctionOnSet(f, u) = SumFunctionOnSet(g, u)
    BY <1>1, SumSame
  <1>3. SumFunctionOnSet(f, u) \in Nat
    BY <1>1, SumNat
  <1>4. /\ SumFunctionOnSet(f, S) = f[x] + SumFunctionOnSet(f, u)
        /\ SumFunctionOnSet(g, S) = g[x] + SumFunctionOnSet(g, u)
    BY SumRemove
  <1> HIDE DEF u
  <1> QED
    BY <1>2, <1>3, <1>4

LEMMA SumZero ==
    ASSUME NEW f, NEW S, IsFiniteSet(S), \A x \in S : f[x] = 0
    PROVE  SumFunctionOnSet(f, S) = 0
  <1> DEFINE C == {T \in SUBSET S : SumFunctionOnSet(f, T) # 0}
  <1> SUFFICES ASSUME C # {} PROVE FALSE
    OBVIOUS
  <1>1. PICK T \in C : IsFiniteSet(T) /\ \A U \in C : U \subseteq T => U = T
    <2>1. C \in SUBSET SUBSET S
      OBVIOUS
    <2> HIDE DEF C
    <2> QED
      BY <2>1, Smallest
  <1>2. T # {}
    BY SumEmpty
  <1>3. Pick(T) \in T
    BY <1>2 DEF Pick
  <1>4. SumFunctionOnSet(f, T) = f[Pick(T)] + SumFunctionOnSet(f, T \ {Pick(T)})
    BY <1>1, <1>2, SumPick
  <1>5. SumFunctionOnSet(f, T \ {Pick(T)}) = 0 /\ f[Pick(T)] = 0
    BY <1>1, <1>3
  <1> QED
    BY <1>1, <1>4, <1>5

\* A set has as many elements as its parts, which a key tells apart, together.
Fiber(S, key, k) == {x \in S : key[x] = k}
LEMMA Fibers ==
    ASSUME NEW S, IsFiniteSet(S), NEW K, IsFiniteSet(K), NEW key, \A x \in S : key[x] \in K,
           NEW f, \A k \in K : f[k] = Cardinality(Fiber(S, key, k))
    PROVE  SumFunctionOnSet(f, K) = Cardinality(S)
  <1> DEFINE Part(T) == {x \in S : key[x] \in T}
             C == {T \in SUBSET K : SumFunctionOnSet(f, T) # Cardinality(Part(T))}
  <1>0. K \notin C => SumFunctionOnSet(f, K) = Cardinality(S)
    <2>1. Part(K) = S
      OBVIOUS
    <2>2. K \notin C => SumFunctionOnSet(f, K) = Cardinality(Part(K))
      OBVIOUS
    <2> QED
      BY <2>1, <2>2
  <1> SUFFICES ASSUME C # {} PROVE FALSE
    <2> HIDE DEF C
    <2> QED
      BY <1>0
  <1>1. PICK T \in C : IsFiniteSet(T) /\ \A U \in C : U \subseteq T => U = T
    <2>1. C \in SUBSET SUBSET K
      OBVIOUS
    <2> HIDE DEF C
    <2> QED
      BY <2>1, Smallest
  <1>2. T # {}
    <2>1. Part({}) = {} /\ Cardinality({}) = 0
      BY FS_EmptySet
    <2>2. SumFunctionOnSet(f, {}) = 0
      BY SumEmpty
    <2>3. SumFunctionOnSet(f, T) # Cardinality(Part(T))
      OBVIOUS
    <2> HIDE DEF Part
    <2> QED
      BY <2>1, <2>2, <2>3
  <1> DEFINE k == Pick(T)
             U == T \ {k}
             own == Fiber(S, key, k)
  <1>3. k \in T
    BY <1>2 DEF Pick
  <1>4. SumFunctionOnSet(f, T) = f[k] + SumFunctionOnSet(f, U)
    BY <1>1, <1>2, SumPick
  <1>5. U \in SUBSET K /\ U \notin C
    BY <1>1, <1>3
  <1>6. SumFunctionOnSet(f, U) = Cardinality(Part(U))
    BY <1>5
  <1>7. f[k] = Cardinality(own)
    BY <1>3
  <1>8. Part(T) = own \cup Part(U) /\ own \cap Part(U) = {}
    BY <1>3 DEF Fiber
  <1>9. /\ IsFiniteSet(own) /\ IsFiniteSet(Part(U))
    BY FS_Subset DEF Fiber
  <1> HIDE DEF Part, own, U, k
  <1>10. Cardinality(Part(T)) = Cardinality(own) + Cardinality(Part(U))
    <2>1. Cardinality({}) = 0 /\ Cardinality(own) \in Nat /\ Cardinality(Part(U)) \in Nat
      BY <1>9, FS_EmptySet, FS_CardinalityType
    <2>2. Cardinality(own \cup Part(U)) = Cardinality(own) + Cardinality(Part(U)) - Cardinality(own \cap Part(U))
      BY <1>9, FS_Union
    <2>3. Cardinality(Part(T)) = Cardinality(own \cup Part(U)) /\ Cardinality(own \cap Part(U)) = 0
      BY <1>8, <2>1
    <2> QED
      BY <2>1, <2>2, <2>3
  <1> QED
    BY <1>1, <1>4, <1>6, <1>7, <1>10

LEMMA SumOne ==
    ASSUME NEW x, NEW f, f[x] \in Nat
    PROVE  SumFunctionOnSet(f, {x}) = f[x]
  <1>1. IsFiniteSet({}) /\ {} \cup {x} = {x} /\ \A y \in {x} : f[y] \in Nat
    BY FS_EmptySet
  <1>2. SumFunctionOnSet(f, {} \cup {x}) = f[x] + SumFunctionOnSet(f, {})
    BY <1>1, SumAdd
  <1> QED
    BY <1>1, <1>2, SumEmpty

LEMMA SumUnion ==
    ASSUME NEW f, NEW S, IsFiniteSet(S), NEW T, IsFiniteSet(T), S \cap T = {},
           \A x \in S \cup T : f[x] \in Nat
    PROVE  SumFunctionOnSet(f, S \cup T) = SumFunctionOnSet(f, S) + SumFunctionOnSet(f, T)
  <1> DEFINE Sum(U) == SumFunctionOnSet(f, U)
             C == {U \in SUBSET T : Sum(S \cup U) # Sum(S) + Sum(U)}
  <1>0. T \notin C => Sum(S \cup T) = Sum(S) + Sum(T)
    OBVIOUS
  <1> SUFFICES ASSUME C # {} PROVE FALSE
    <2> HIDE DEF C
    <2> QED
      BY <1>0
  <1>1. PICK U \in C : IsFiniteSet(U) /\ \A V \in C : V \subseteq U => V = U
    <2>1. C \in SUBSET SUBSET T
      OBVIOUS
    <2> HIDE DEF C
    <2> QED
      BY <2>1, Smallest
  <1>2. Sum({}) = 0 /\ Sum(S) \in Nat
    BY SumEmpty, SumNat
  <1>3. U # {}
    <2>1. S \cup {} = S /\ Sum(S \cup U) # Sum(S) + Sum(U)
      BY <1>1
    <2> HIDE DEF Sum
    <2> QED
      BY <1>2, <2>1
  <1> DEFINE x == Pick(U)
             V == U \ {x}
  <1>4. x \in U /\ U \in SUBSET T
    BY <1>3 DEF Pick
  <1>5. V \in SUBSET T /\ V \notin C
    BY <1>1, <1>4
  <1>6. Sum(S \cup V) = Sum(S) + Sum(V)
    BY <1>5
  <1>7. Sum(U) = f[x] + Sum(V) /\ f[x] \in Nat /\ Sum(V) \in Nat
    <2>1. Sum(U) = f[x] + Sum(V)
      BY <1>1, <1>3, SumPick
    <2>2. IsFiniteSet(V) /\ \A y \in V : f[y] \in Nat
      BY <1>1, <1>4, FS_Subset
    <2>3. Sum(V) \in Nat
      BY <2>2, SumNat
    <2> QED
      BY <1>4, <2>1, <2>3
  <1>8. Sum(S \cup U) = f[x] + Sum(S \cup V)
    <2>1. IsFiniteSet(S \cup U) /\ x \in S \cup U /\ (S \cup U) \ {x} = S \cup V
      BY <1>1, <1>4, FS_Union
    <2>2. \A y \in S \cup U : f[y] \in Nat
      BY <1>4
    <2>3. Sum(S \cup U) = f[x] + Sum((S \cup U) \ {x})
      BY <2>1, <2>2, SumRemove
    <2> HIDE DEF V, x
    <2> QED
      BY <2>1, <2>3
  <1>9. Sum(S \cup U) # Sum(S) + Sum(U)
    BY <1>1
  <1> HIDE DEF Sum, V, x
  <1> QED
    BY <1>2, <1>6, <1>7, <1>8, <1>9

\* The summands under other names.
Images(key, S) == {key[x] : x \in S}
LEMMA SumRenamed ==
    ASSUME NEW S, IsFiniteSet(S), NEW key, \A x, y \in S : key[x] = key[y] => x = y,
           NEW f, NEW g, \A x \in S : f[x] \in Nat /\ g[key[x]] = f[x]
    PROVE  /\ IsFiniteSet(Images(key, S))
           /\ SumFunctionOnSet(g, Images(key, S)) = SumFunctionOnSet(f, S)
  <1> DEFINE Right(U) == /\ IsFiniteSet(Images(key, U))
                         /\ SumFunctionOnSet(g, Images(key, U)) = SumFunctionOnSet(f, U)
             C == {U \in SUBSET S : ~Right(U)}
  <1>0. S \notin C => Right(S)
    <2> HIDE DEF Right
    <2> QED
      OBVIOUS
  <1> SUFFICES ASSUME C # {} PROVE FALSE
    <2> HIDE DEF C
    <2> QED
      BY <1>0
  <1>1. PICK U \in C : IsFiniteSet(U) /\ \A V \in C : V \subseteq U => V = U
    <2>1. C \in SUBSET SUBSET S
      OBVIOUS
    <2> HIDE DEF C
    <2> QED
      BY <2>1, Smallest
  <1>2. U \in SUBSET S /\ ~Right(U)
    <2> HIDE DEF Right
    <2> QED
      OBVIOUS
  <1>3. U # {}
    <2>1. Images(key, {}) = {}
      BY DEF Images
    <2>2. Right({})
      BY <2>1, FS_EmptySet, SumEmpty
    <2> HIDE DEF Right
    <2> QED
      BY <1>2, <2>2
  <1> DEFINE x == Pick(U)
             V == U \ {x}
             I == Images(key, V)
  <1>4. x \in U
    BY <1>3 DEF Pick
  <1>5. Right(V)
    <2> HIDE DEF Right
    <2>1. V \in SUBSET S /\ V \notin C
      BY <1>1, <1>2, <1>4
    <2> QED
      BY <2>1
  <1>6. Images(key, U) = I \cup {key[x]} /\ key[x] \notin I
    BY <1>2, <1>4 DEF Images
  <1>7. \A y \in I \cup {key[x]} : g[y] \in Nat
    BY <1>2, <1>4 DEF Images
  <1>8. SumFunctionOnSet(f, U) = f[x] + SumFunctionOnSet(f, V)
    BY <1>1, <1>3, SumPick
  <1>9. g[key[x]] = f[x]
    BY <1>2, <1>4
  <1>10. IsFiniteSet(I) /\ SumFunctionOnSet(g, I) = SumFunctionOnSet(f, V)
    BY <1>5
  <1> HIDE DEF I, V, x
  <1>11. SumFunctionOnSet(g, I \cup {key[x]}) = g[key[x]] + SumFunctionOnSet(g, I)
    BY <1>6, <1>7, <1>10, SumAdd
  <1>12. IsFiniteSet(I \cup {key[x]})
    BY <1>10, FS_AddElement
  <1> QED
    BY <1>2, <1>6, <1>8, <1>9, <1>10, <1>11, <1>12
=============================================================================
