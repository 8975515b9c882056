---------------------------- MODULE Sums_proofs ----------------------------
(***************************************************************************)
(* Sums over finite sets, as the contracts' money is counted: SumFunction  *)
(* and SumFunctionOnSet of the module Functions.  They fold over a set in  *)
(* an order nobody knows; these lemmas say that the fold ends, that the    *)
(* order is immaterial, and what one more or one changed summand does.     *)
(*                                                                         *)
(* Each is proved by the least set that would refute it.                   *)
(***************************************************************************)
EXTENDS Functions, Integers, FiniteSets, FiniteSetTheorems, WellFoundedInduction, TLAPS

Pick(s) == CHOOSE x \in s : TRUE

\* g is the running sum of f over the subsets of S.
Unrolls(f, S, g) ==
    g = [s \in SUBSET S |-> IF s = {} THEN 0 ELSE f[Pick(s)] + g[s \ {Pick(s)}]]

\* A non-empty set of finite sets has a least member.
LEMMA LeastSet ==
    ASSUME NEW S, IsFiniteSet(S), NEW Bad \in SUBSET SUBSET S, Bad # {}
    PROVE  \E T \in Bad : \A U \in Bad : U \subseteq T => U = T
<1>1. \A T \in Bad : IsFiniteSet(T) /\ T \subseteq S
  BY FS_Subset
<1>2. Bad \subseteq FiniteSubsetsOf(S)
  BY <1>1 DEF FiniteSubsetsOf
<1>3. PICK T \in Bad : \A U \in Bad : ~ (<<U, T>> \in StrictSubsetOrdering(S))
  BY <1>2, FS_StrictSubsetOrderingWellFounded, WFMin
<1>4. ASSUME NEW U \in Bad, U \subseteq T PROVE U = T
  BY <1>3, <1>4 DEF StrictSubsetOrdering
<1>5. QED BY <1>4

\* A non-empty set of numbers has a least member.
LEMMA LeastNumber ==
    ASSUME NEW Bad \in SUBSET Nat, Bad # {}
    PROVE  \E n \in Bad : \A k \in Bad : n <= k
<1> DEFINE less == {ss \in Nat \X Nat : ss[1] < ss[2]}
<1>1. IsWellFoundedOn(less, Nat)
  BY NatLessThanWellFounded, Zenon DEF OpToRel
<1>2. PICK n \in Bad : \A k \in Bad : ~ (<<k, n>> \in less)
  <2> HIDE DEF less
  <2>1. QED BY <1>1, WFMin
<1>3. ASSUME NEW k \in Bad PROVE n <= k
  <2>1. n \in Nat /\ k \in Nat
    OBVIOUS
  <2>2. ~ (k < n)
    BY <1>2, <2>1
  <2>3. QED BY <2>1, <2>2
<1>4. QED BY <1>3

\* The element a fold takes next belongs to the set.
LEMMA PickIn == \A s : s # {} => Pick(s) \in s
BY DEF Pick

\* Two running sums of f agree where both are defined.
LEMMA UnrollsAgree ==
    ASSUME NEW f, NEW S, NEW g, NEW U, NEW h, Unrolls(f, S, g), Unrolls(f, U, h),
           NEW T, IsFiniteSet(T), T \subseteq S \cap U
    PROVE  g[T] = h[T]
<1> DEFINE Bad == {s \in SUBSET T : g[s] # h[s]}
<1>1. SUFFICES ASSUME Bad # {} PROVE FALSE
  BY <1>1
<1>2. PICK s \in Bad : \A t \in Bad : t \subseteq s => t = s
  <2>1. Bad \in SUBSET SUBSET T
    OBVIOUS
  <2> HIDE DEF Bad
  <2>2. QED BY <1>1, <2>1, LeastSet
<1>3. CASE s = {}
  BY <1>2, <1>3 DEF Unrolls
<1>4. CASE s # {}
  <2> DEFINE rest == s \ {Pick(s)}
  <2>1. rest \in SUBSET T /\ rest # s /\ rest \subseteq s
    BY <1>4, PickIn
  <2>2. g[rest] = h[rest]
    BY <1>2, <2>1
  <2>3. g[s] = f[Pick(s)] + g[rest]
    BY <1>4 DEF Unrolls
  <2>4. h[s] = f[Pick(s)] + h[rest]
    BY <1>4 DEF Unrolls
  <2>5. QED BY <2>2, <2>3, <2>4
<1>5. QED BY <1>3, <1>4

\* There is a running sum over every finite set.
LEMMA UnrollsExists ==
    ASSUME NEW f, NEW S, IsFiniteSet(S)
    PROVE  \E g : Unrolls(f, S, g)
<1> DEFINE Bad == {T \in SUBSET S : ~ \E g : Unrolls(f, T, g)}
<1>1. SUFFICES ASSUME Bad # {} PROVE FALSE
  BY <1>1
<1>2. PICK T \in Bad : \A U \in Bad : U \subseteq T => U = T
  <2>1. Bad \in SUBSET SUBSET S
    OBVIOUS
  <2> HIDE DEF Bad
  <2>2. QED BY <1>1, <2>1, LeastSet
<1> DEFINE run(s) == CHOOSE g : Unrolls(f, s, g)
           rest(s) == s \ {Pick(s)}
           sum == [s \in SUBSET T |-> IF s = {} THEN 0 ELSE f[Pick(s)] + run(rest(s))[rest(s)]]
<1>3. ASSUME NEW s \in SUBSET T, s # T PROVE Unrolls(f, s, run(s)) /\ IsFiniteSet(s)
  <2>1. s \in SUBSET S /\ IsFiniteSet(s)
    BY FS_Subset
  <2>2. s \notin Bad
    BY <1>2, <1>3
  <2>3. \E g : Unrolls(f, s, g)
    BY <2>1, <2>2
  <2>4. QED BY <2>1, <2>3
<1>4. ASSUME NEW s \in SUBSET T, s # T PROVE sum[s] = run(s)[s]
  <2>1. Unrolls(f, s, run(s)) /\ IsFiniteSet(s)
    BY <1>3, <1>4
  <2>2. CASE s = {}
    BY <2>1, <2>2 DEF Unrolls
  <2>3. CASE s # {}
    <3>1. rest(s) \in SUBSET s /\ rest(s) # T /\ rest(s) \in SUBSET T
      BY <2>3, PickIn, <1>4
    <3>2. Unrolls(f, rest(s), run(rest(s))) /\ IsFiniteSet(rest(s))
      BY <1>3, <3>1
    <3>3. run(s)[rest(s)] = run(rest(s))[rest(s)]
      <4> HIDE DEF run, rest
      <4>1. QED BY <2>1, <3>1, <3>2, UnrollsAgree
    <3>4. run(s)[s] = f[Pick(s)] + run(s)[rest(s)]
      <4>1. \A g : Unrolls(f, s, g) => g[s] = f[Pick(s)] + g[rest(s)]
        BY <2>3 DEF Unrolls
      <4> HIDE DEF run, rest
      <4>2. QED BY <2>1, <4>1
    <3>5. sum[s] = f[Pick(s)] + run(rest(s))[rest(s)]
      <4> HIDE DEF run, rest
      <4>1. QED BY <2>3
    <3>6. QED BY <3>3, <3>4, <3>5
  <2>4. QED BY <2>2, <2>3
<1>5. ASSUME NEW s \in SUBSET T, s # {} PROVE run(rest(s))[rest(s)] = sum[rest(s)]
  <2>1. rest(s) \in SUBSET T /\ rest(s) # T
    BY <1>5, PickIn
  <2> HIDE DEF run, rest, sum
  <2>2. QED BY <1>4, <2>1
<1>6. Unrolls(f, T, sum)
  <2>1. sum = [s \in SUBSET T |-> IF s = {} THEN 0 ELSE f[Pick(s)] + sum[rest(s)]]
    <3>1. \A s \in SUBSET T : (IF s = {} THEN 0 ELSE f[Pick(s)] + run(rest(s))[rest(s)])
                            = (IF s = {} THEN 0 ELSE f[Pick(s)] + sum[rest(s)])
      <4> HIDE DEF run, rest, sum
      <4>1. QED BY <1>5
    <3>2. sum = [s \in SUBSET T |-> IF s = {} THEN 0
                                    ELSE f[Pick(s)] + run(rest(s))[rest(s)]]
      OBVIOUS
    <3> HIDE DEF run, rest, sum
    <3>3. QED BY <3>1, <3>2
  <2>2. QED BY <2>1 DEF Unrolls
<1>7. QED BY <1>2, <1>6

-----------------------------------------------------------------------------
(***************************************************************************)
(* The sum over a finite set.                                              *)
(***************************************************************************)
LEMMA SumUnroll ==
    ASSUME NEW f, NEW S, IsFiniteSet(S)
    PROVE  SumFunctionOnSet(f, S) =
               IF S = {} THEN 0 ELSE f[Pick(S)] + SumFunctionOnSet(f, S \ {Pick(S)})
<1> DEFINE run(T) == CHOOSE g : Unrolls(f, T, g)
<1>1. \A T : SumFunctionOnSet(f, T) = run(T)[T]
  BY DEF SumFunctionOnSet, FoldFunctionOnSet, MapThenFoldSet, Unrolls, Pick
<1>2. \A T : IsFiniteSet(T) => Unrolls(f, T, run(T))
  BY UnrollsExists
<1>3. CASE S = {}
  <2>1. \A g : Unrolls(f, S, g) => g[S] = 0
    BY <1>3 DEF Unrolls
  <2> HIDE DEF run
  <2>2. QED BY <1>1, <1>2, <1>3, <2>1
<1>4. CASE S # {}
  <2> DEFINE rest == S \ {Pick(S)}
  <2>1. IsFiniteSet(rest)
    BY FS_Subset
  <2>2. \A g : Unrolls(f, S, g) => g[S] = f[Pick(S)] + g[rest]
    BY <1>4 DEF Unrolls
  <2> HIDE DEF run
  <2>3. run(S)[rest] = run(rest)[rest]
    BY <1>2, <2>1, UnrollsAgree
  <2>4. QED BY <1>1, <1>2, <1>4, <2>1, <2>2, <2>3
<1>5. QED BY <1>3, <1>4

\* The sum of nothing.
LEMMA SumEmpty == \A f : SumFunctionOnSet(f, {}) = 0
BY SumUnroll, FS_EmptySet

\* A finite sum of integers is an integer.
LEMMA SumInt ==
    ASSUME NEW S, IsFiniteSet(S), NEW f, \A x \in S : f[x] \in Int
    PROVE  SumFunctionOnSet(f, S) \in Int
<1> DEFINE Bad == {T \in SUBSET S : SumFunctionOnSet(f, T) \notin Int}
<1>1. SUFFICES ASSUME Bad # {} PROVE FALSE
  BY <1>1
<1>2. PICK T \in Bad : \A U \in Bad : U \subseteq T => U = T
  <2>1. Bad \in SUBSET SUBSET S
    OBVIOUS
  <2> HIDE DEF Bad
  <2>2. QED BY <1>1, <2>1, LeastSet
<1>3. IsFiniteSet(T)
  BY FS_Subset
<1>4. T # {}
  BY SumEmpty
<1>5. T \ {Pick(T)} \notin Bad /\ Pick(T) \in S
  BY <1>2, <1>4, PickIn
<1>6. SumFunctionOnSet(f, T \ {Pick(T)}) \in Int
  BY <1>5
<1>7. QED BY <1>3, <1>4, <1>5, <1>6, SumUnroll

\* The sum depends on the summands only.
LEMMA SumSame ==
    ASSUME NEW S, IsFiniteSet(S), NEW f, NEW g, \A x \in S : f[x] = g[x]
    PROVE  SumFunctionOnSet(f, S) = SumFunctionOnSet(g, S)
<1> DEFINE Bad == {T \in SUBSET S : SumFunctionOnSet(f, T) # SumFunctionOnSet(g, T)}
<1>1. SUFFICES ASSUME Bad # {} PROVE FALSE
  BY <1>1
<1>2. PICK T \in Bad : \A U \in Bad : U \subseteq T => U = T
  <2>1. Bad \in SUBSET SUBSET S
    OBVIOUS
  <2> HIDE DEF Bad
  <2>2. QED BY <1>1, <2>1, LeastSet
<1>3. IsFiniteSet(T)
  BY FS_Subset
<1>4. T # {}
  BY SumEmpty
<1>5. T \ {Pick(T)} \notin Bad /\ Pick(T) \in S
  BY <1>2, <1>4, PickIn
<1>6. SumFunctionOnSet(f, T \ {Pick(T)}) = SumFunctionOnSet(g, T \ {Pick(T)})
  BY <1>5
<1>7. QED BY <1>3, <1>4, <1>5, <1>6, SumUnroll

\* Any summand may be the first.
LEMMA SumRemove ==
    ASSUME NEW S, IsFiniteSet(S), NEW f, \A x \in S : f[x] \in Int, NEW e \in S
    PROVE  SumFunctionOnSet(f, S) = f[e] + SumFunctionOnSet(f, S \ {e})
<1> DEFINE sum(T) == SumFunctionOnSet(f, T)
           Bad == {T \in SUBSET S : \E x \in T : sum(T) # f[x] + sum(T \ {x})}
<1>1. SUFFICES ASSUME Bad # {} PROVE FALSE
  BY <1>1
<1>2. PICK T \in Bad : \A U \in Bad : U \subseteq T => U = T
  <2>1. Bad \in SUBSET SUBSET S
    OBVIOUS
  <2> HIDE DEF Bad
  <2>2. QED BY <1>1, <2>1, LeastSet
<1>3. PICK x \in T : sum(T) # f[x] + sum(T \ {x})
  OBVIOUS
<1> DEFINE c == Pick(T)
<1>4. c \in T
  BY PickIn
<1>5. \A U \in SUBSET T : IsFiniteSet(U) /\ sum(U) \in Int
  <2>1. \A U \in SUBSET T : IsFiniteSet(U) /\ \A y \in U : f[y] \in Int
    BY FS_Subset
  <2>2. QED BY <2>1, SumInt
<1>6. sum(T) = f[c] + sum(T \ {c})
  BY <1>4, <1>5, SumUnroll
<1>7. ASSUME NEW y \in T, NEW z \in T \ {y}
      PROVE  sum(T \ {y}) = f[z] + sum((T \ {y}) \ {z})
  <2>1. T \ {y} \in SUBSET S /\ T \ {y} \subseteq T /\ T \ {y} # T
    OBVIOUS
  <2>2. T \ {y} \notin Bad
    BY <1>2, <2>1
  <2>3. QED BY <2>1, <2>2
<1>8. CASE c # x
  <2>1. sum(T \ {c}) = f[x] + sum((T \ {c}) \ {x})
    BY <1>4, <1>7, <1>8
  <2>2. sum(T \ {x}) = f[c] + sum((T \ {x}) \ {c})
    BY <1>4, <1>7, <1>8
  <2>3. (T \ {x}) \ {c} = (T \ {c}) \ {x} /\ f[x] \in Int /\ f[c] \in Int
    BY <1>4
  <2>4. sum((T \ {c}) \ {x}) \in Int
    BY <1>5
  <2> HIDE DEF sum, c
  <2>5. sum(T) = f[c] + (f[x] + sum((T \ {c}) \ {x}))
    BY <1>6, <2>1
  <2>6. sum(T \ {x}) = f[c] + sum((T \ {c}) \ {x})
    BY <2>2, <2>3
  <2>7. sum(T) = f[x] + sum(T \ {x})
    BY <2>3, <2>4, <2>5, <2>6
  <2>8. QED BY <1>3, <2>7
<1>9. QED BY <1>3, <1>6, <1>8

\* One more summand.
LEMMA SumAdd ==
    ASSUME NEW S, IsFiniteSet(S), NEW f, NEW e, e \notin S, \A x \in S \cup {e} : f[x] \in Int
    PROVE  SumFunctionOnSet(f, S \cup {e}) = SumFunctionOnSet(f, S) + f[e]
<1>1. IsFiniteSet(S \cup {e}) /\ (S \cup {e}) \ {e} = S
  BY FS_AddElement
<1>2. SumFunctionOnSet(f, S) \in Int
  BY SumInt
<1>3. SumFunctionOnSet(f, S \cup {e}) = f[e] + SumFunctionOnSet(f, S)
  BY <1>1, SumRemove
<1>4. QED BY <1>2, <1>3

\* One summand changed.
LEMMA SumChange ==
    ASSUME NEW S, IsFiniteSet(S), NEW f, NEW g, \A x \in S : f[x] \in Int /\ g[x] \in Int,
           NEW e \in S, \A x \in S \ {e} : f[x] = g[x]
    PROVE  SumFunctionOnSet(g, S) = SumFunctionOnSet(f, S) - f[e] + g[e]
<1> DEFINE rest == S \ {e}
<1>1. IsFiniteSet(rest)
  BY FS_Subset
<1>2. SumFunctionOnSet(f, rest) = SumFunctionOnSet(g, rest) /\ SumFunctionOnSet(f, rest) \in Int
  BY <1>1, SumSame, SumInt
<1>3. /\ SumFunctionOnSet(f, S) = f[e] + SumFunctionOnSet(f, rest)
      /\ SumFunctionOnSet(g, S) = g[e] + SumFunctionOnSet(g, rest)
  BY SumRemove
<1> HIDE DEF rest
<1>4. QED BY <1>2, <1>3

\* Nothing but zeros.
LEMMA SumZero ==
    ASSUME NEW S, IsFiniteSet(S), NEW f, \A x \in S : f[x] = 0
    PROVE  SumFunctionOnSet(f, S) = 0
<1> DEFINE Bad == {T \in SUBSET S : SumFunctionOnSet(f, T) # 0}
<1>1. SUFFICES ASSUME Bad # {} PROVE FALSE
  BY <1>1
<1>2. PICK T \in Bad : \A U \in Bad : U \subseteq T => U = T
  <2>1. Bad \in SUBSET SUBSET S
    OBVIOUS
  <2> HIDE DEF Bad
  <2>2. QED BY <1>1, <2>1, LeastSet
<1>3. IsFiniteSet(T) /\ T # {}
  BY FS_Subset, SumEmpty
<1>4. T \ {Pick(T)} \notin Bad /\ Pick(T) \in S
  BY <1>2, <1>3, PickIn
<1>5. SumFunctionOnSet(f, T \ {Pick(T)}) = 0
  BY <1>4
<1>6. QED BY <1>3, <1>4, <1>5, SumUnroll

\* A sum of amounts is an amount, and no less than any of them.
LEMMA SumNat ==
    ASSUME NEW S, IsFiniteSet(S), NEW f, \A x \in S : f[x] \in Nat
    PROVE  /\ SumFunctionOnSet(f, S) \in Nat
           /\ \A e \in S : f[e] <= SumFunctionOnSet(f, S)
<1>1. ASSUME NEW T \in SUBSET S PROVE SumFunctionOnSet(f, T) \in Nat
  <2> DEFINE Bad == {U \in SUBSET T : SumFunctionOnSet(f, U) \notin Nat}
  <2>1. SUFFICES ASSUME Bad # {} PROVE FALSE
    BY <2>1
  <2>2. IsFiniteSet(T)
    BY FS_Subset
  <2>3. PICK U \in Bad : \A V \in Bad : V \subseteq U => V = U
    <3>1. Bad \in SUBSET SUBSET T
      OBVIOUS
    <3> HIDE DEF Bad
    <3>2. QED BY <2>1, <2>2, <3>1, LeastSet
  <2>4. IsFiniteSet(U) /\ U # {}
    <3>1. U \in SUBSET T /\ SumFunctionOnSet(f, U) \notin Nat
      OBVIOUS
    <3> HIDE DEF Bad
    <3>2. IsFiniteSet(U)
      BY <2>2, <3>1, FS_Subset
    <3>3. SumFunctionOnSet(f, {}) = 0
      BY SumEmpty
    <3>4. QED BY <3>1, <3>2, <3>3
  <2>5. U \ {Pick(U)} \notin Bad /\ Pick(U) \in S
    BY <2>3, <2>4, PickIn
  <2>6. SumFunctionOnSet(f, U \ {Pick(U)}) \in Nat
    BY <2>5
  <2>7. QED BY <2>4, <2>5, <2>6, SumUnroll
<1>2. ASSUME NEW e \in S PROVE f[e] <= SumFunctionOnSet(f, S)
  <2>1. SumFunctionOnSet(f, S) = f[e] + SumFunctionOnSet(f, S \ {e})
    BY SumRemove
  <2>2. SumFunctionOnSet(f, S \ {e}) \in Nat
    BY <1>1
  <2>3. QED BY <2>1, <2>2
<1>3. QED BY <1>1, <1>2

\* Smaller summands, and fewer of them, make no larger sum.
LEMMA SumLess ==
    ASSUME NEW S, IsFiniteSet(S), NEW f, NEW g,
           \A x \in S : f[x] \in Int /\ g[x] \in Int /\ f[x] <= g[x]
    PROVE  SumFunctionOnSet(f, S) <= SumFunctionOnSet(g, S)
<1> DEFINE Bad == {T \in SUBSET S : ~(SumFunctionOnSet(f, T) <= SumFunctionOnSet(g, T))}
<1>1. SUFFICES ASSUME Bad # {} PROVE FALSE
  BY <1>1
<1>2. PICK T \in Bad : \A U \in Bad : U \subseteq T => U = T
  <2>1. Bad \in SUBSET SUBSET S
    OBVIOUS
  <2> HIDE DEF Bad
  <2>2. QED BY <1>1, <2>1, LeastSet
<1> DEFINE rest == T \ {Pick(T)}
<1>3. IsFiniteSet(T) /\ IsFiniteSet(rest)
  BY FS_Subset
<1>4. T # {}
  BY SumEmpty
<1>5. rest \notin Bad /\ Pick(T) \in S
  BY <1>2, <1>4, PickIn
<1>6. SumFunctionOnSet(f, rest) <= SumFunctionOnSet(g, rest)
  BY <1>5
<1>7. SumFunctionOnSet(f, rest) \in Int /\ SumFunctionOnSet(g, rest) \in Int
  BY <1>3, SumInt
<1>8. /\ SumFunctionOnSet(f, T) = f[Pick(T)] + SumFunctionOnSet(f, rest)
      /\ SumFunctionOnSet(g, T) = g[Pick(T)] + SumFunctionOnSet(g, rest)
  BY <1>3, <1>4, SumUnroll
<1>9. ~(SumFunctionOnSet(f, T) <= SumFunctionOnSet(g, T))
  OBVIOUS
<1> HIDE DEF rest
<1>10. QED BY <1>5, <1>6, <1>7, <1>8, <1>9

\* Naturals sum to no more over a smaller set.
LEMMA SumSubset ==
    ASSUME NEW S, IsFiniteSet(S), NEW f, \A x \in S : f[x] \in Nat, NEW T \in SUBSET S
    PROVE  SumFunctionOnSet(f, T) <= SumFunctionOnSet(f, S)
<1> DEFINE sum(U) == SumFunctionOnSet(f, U)
           Bad == {U \in SUBSET S : T \subseteq U /\ ~(sum(T) <= sum(U))}
<1>1. SUFFICES ASSUME Bad # {} PROVE FALSE
  BY <1>1
<1>2. PICK U \in Bad : \A V \in Bad : V \subseteq U => V = U
  <2>1. Bad \in SUBSET SUBSET S
    OBVIOUS
  <2> HIDE DEF Bad
  <2>2. QED BY <1>1, <2>1, LeastSet
<1>3. \A V \in SUBSET S : IsFiniteSet(V) /\ sum(V) \in Nat
  <2>1. \A V \in SUBSET S : IsFiniteSet(V) /\ \A x \in V : f[x] \in Nat
    BY FS_Subset
  <2>2. QED BY <2>1, SumNat
<1>4. U # T
  BY <1>3
<1>5. PICK e \in U : e \notin T
  BY <1>4
<1> DEFINE rest == U \ {e}
<1>6. rest \in SUBSET S /\ T \subseteq rest /\ rest \notin Bad
  BY <1>2, <1>5
<1>7. sum(T) <= sum(rest)
  BY <1>6
<1>8. sum(U) = f[e] + sum(rest)
  <2>1. IsFiniteSet(U) /\ \A x \in U : f[x] \in Int
    BY <1>3
  <2>2. QED BY <2>1, SumRemove
<1>9. U \in SUBSET S /\ T \in SUBSET S /\ f[e] \in Nat /\ ~(sum(T) <= sum(U))
  OBVIOUS
<1>10. sum(T) \in Nat /\ sum(rest) \in Nat
  BY <1>3, <1>6
<1> HIDE DEF sum, rest
<1>11. QED BY <1>7, <1>8, <1>9, <1>10
=============================================================================
