----------------------------- MODULE SumTheorems -----------------------------
(***************************************************************************)
(* Facts about SumFunctionOnSet(f, S), the sum of f over a finite set of   *)
(* its indices, that the proofs of the balance properties need.  The       *)
(* induction they rest on is the minimal element of a set of finite sets.  *)
(***************************************************************************)
EXTENDS Functions, FiniteSetTheorems, TLAPS

\* A family of subsets of a finite set that has {} and every nonempty set that it
\* has up to one element has them all.
LEMMA SubsetInduction ==
  ASSUME NEW S, IsFiniteSet(S), NEW G,
         {} \in G,
         \A T \in SUBSET S : T # {} /\ (\A x \in T : T \ {x} \in G) => T \in G
  PROVE  \A T \in SUBSET S : T \in G
<1> DEFINE Bad == {T \in SUBSET S : T \notin G}
<1> SUFFICES ASSUME Bad # {} PROVE FALSE
  OBVIOUS
<1>1. IsWellFoundedOn(StrictSubsetOrdering(S), SUBSET S)
  BY FS_StrictSubsetOrderingWellFounded, FS_FiniteSubsetsOfFinite
<1>2. Bad \subseteq SUBSET S
  OBVIOUS
<1>3. PICK T \in Bad : \A U \in Bad : ~ (<<U, T>> \in StrictSubsetOrdering(S))
  <2> HIDE DEF Bad
  <2> QED  BY <1>1, <1>2, WFMin
<1>4. \A x \in T : T \ {x} \in G
  <2> TAKE x \in T
  <2>1. T \ {x} \in SUBSET S
    OBVIOUS
  <2>2. <<T \ {x}, T>> \in StrictSubsetOrdering(S)
    BY <2>1, <1>2 DEF StrictSubsetOrdering
  <2> QED  BY <2>1, <2>2, <1>3
<1> QED  BY <1>4

\* The element a fold takes out of a set first.
Pick(s) == CHOOSE x \in s : TRUE

LEMMA PickIn == ASSUME NEW s, s # {} PROVE Pick(s) \in s
BY DEF Pick

\* g is the running sum of f on the sets of D, which contains what it takes out of.
Runs(f, D, g) ==
    /\ \A s \in D : s # {} => s \ {Pick(s)} \in D
    /\ \A s \in D : g[s] = IF s = {} THEN 0 ELSE f[Pick(s)] + g[s \ {Pick(s)}]

\* Two running sums of a function agree wherever both are defined.
LEMMA RunsAgree ==
  ASSUME NEW S, IsFiniteSet(S), NEW f, NEW D, NEW E, NEW g, NEW h,
         Runs(f, D, g), Runs(f, E, h)
  PROVE  \A s \in SUBSET S : s \in D /\ s \in E => g[s] = h[s]
<1> DEFINE G == {s \in SUBSET S : s \in D /\ s \in E => g[s] = h[s]}
<1>1. {} \in G
  BY DEF Runs
<1>2. ASSUME NEW T \in SUBSET S, T # {}, \A x \in T : T \ {x} \in G
      PROVE  T \in G
  <2> SUFFICES ASSUME T \in D, T \in E PROVE g[T] = h[T]
    OBVIOUS
  <2>1. Pick(T) \in T
    BY <1>2, PickIn
  <2>2. T \ {Pick(T)} \in G
    BY <1>2, <2>1
  <2> QED  BY <1>2, <2>2 DEF Runs
<1>3. \A T \in SUBSET S : T \in G
  <2> HIDE DEF G
  <2> QED  BY <1>1, <1>2, SubsetInduction
<1> QED  BY <1>3

\* There is a running sum for every subset of a finite set.
LEMMA RunsExist ==
  ASSUME NEW S, IsFiniteSet(S), NEW f
  PROVE  \A s \in SUBSET S : \E D \in SUBSET (SUBSET S) : \E g : s \in D /\ Runs(f, D, g)
<1> DEFINE Has(s) == \E D \in SUBSET (SUBSET S) : \E g : s \in D /\ Runs(f, D, g)
           G == {s \in SUBSET S : Has(s)}
<1>1. {} \in G
  <2>1. Runs(f, {{}}, [s \in {{}} |-> 0])
    BY DEF Runs
  <2> QED  BY <2>1
<1>2. ASSUME NEW T \in SUBSET S, T # {}, \A x \in T : T \ {x} \in G
      PROVE  T \in G
  <2>1. Pick(T) \in T
    BY <1>2, PickIn
  <2>0. PICK D \in SUBSET (SUBSET S) : \E g : T \ {Pick(T)} \in D /\ Runs(f, D, g)
    BY <1>2, <2>1
  <2>2. PICK g : T \ {Pick(T)} \in D /\ Runs(f, D, g)
    BY <2>0
  <2>3. CASE T \in D
    BY <2>2, <2>3
  <2>4. CASE T \notin D
    <3> DEFINE h == [s \in D \cup {T} |-> IF s = T THEN f[Pick(T)] + g[T \ {Pick(T)}] ELSE g[s]]
    <3>1. \A s \in D \cup {T} : s # {} => s \ {Pick(s)} \in D
      BY <2>2 DEF Runs
    <3>2. \A s \in D \cup {T} : h[s] = IF s = {} THEN 0 ELSE f[Pick(s)] + h[s \ {Pick(s)}]
      BY <1>2, <2>2, <2>4, <3>1 DEF Runs
    <3>3. Runs(f, D \cup {T}, h)
      <4> HIDE DEF h
      <4> QED  BY <3>1, <3>2 DEF Runs
    <3> QED  BY <3>3
  <2> QED  BY <2>3, <2>4
<1>3. \A T \in SUBSET S : T \in G
  <2> HIDE DEF G
  <2> QED  BY <1>1, <1>2, SubsetInduction
<1> QED  BY <1>3

\* What the fold that sums f over S asks of the function it defines by recursion.
IsFold(f, S, g) ==
    g = [s \in SUBSET S |-> IF s = {} THEN 0 ELSE f[Pick(s)] + g[s \ {Pick(s)}]]

\* There is such a function.
LEMMA FoldExists ==
  ASSUME NEW S, IsFiniteSet(S), NEW f
  PROVE  \E g : IsFold(f, S, g)
<1>0. \A s \in SUBSET S : \E D \in SUBSET (SUBSET S) : \E g : s \in D /\ Runs(f, D, g)
  BY RunsExist
<1> DEFINE Val(s, v) == \E D \in SUBSET (SUBSET S) : \E g : s \in D /\ Runs(f, D, g) /\ g[s] = v
           h == [s \in SUBSET S |-> CHOOSE v : Val(s, v)]
<1>1. ASSUME NEW s \in SUBSET S, NEW v, Val(s, v)
      PROVE  h[s] = v
  <2>1. \A u, w : Val(s, u) /\ Val(s, w) => u = w
    BY RunsAgree
  <2> HIDE DEF Val
  <2> QED  BY <1>1, <2>1
<1>2. ASSUME NEW s \in SUBSET S
      PROVE  h[s] = IF s = {} THEN 0 ELSE f[Pick(s)] + h[s \ {Pick(s)}]
  <2>0. PICK D \in SUBSET (SUBSET S) : \E g : s \in D /\ Runs(f, D, g)
    BY <1>0
  <2>1. PICK g : s \in D /\ Runs(f, D, g)
    BY <2>0
  <2>2. h[s] = g[s]
    <3>1. Val(s, g[s])
      BY <2>1
    <3> HIDE DEF Val, h
    <3> QED  BY <1>1, <3>1
  <2>3. CASE s = {}
    BY <2>1, <2>2, <2>3 DEF Runs
  <2>4. CASE s # {}
    <3>1. s \ {Pick(s)} \in D
      BY <2>1, <2>4 DEF Runs
    <3>2. h[s \ {Pick(s)}] = g[s \ {Pick(s)}]
      <4>1. Val(s \ {Pick(s)}, g[s \ {Pick(s)}])
        BY <2>1, <3>1
      <4>2. s \ {Pick(s)} \in SUBSET S
        OBVIOUS
      <4> HIDE DEF Val, h
      <4> QED  BY <1>1, <4>1, <4>2
    <3> HIDE DEF h
    <3> QED  BY <2>1, <2>2, <2>4, <3>2 DEF Runs
  <2> QED  BY <2>3, <2>4
<1>3. h = [s \in SUBSET S |-> IF s = {} THEN 0 ELSE f[Pick(s)] + h[s \ {Pick(s)}]]
  <2>1. h = [s \in SUBSET S |-> h[s]]
    <3> HIDE DEF Val
    <3> QED  OBVIOUS
  <2> HIDE DEF h
  <2> QED  BY <1>2, <2>1
<1> QED
  <2> HIDE DEF h
  <2> QED  BY <1>3 DEF IsFold

(***************************************************************************)
(* The sum itself: it is computed by taking out one element after another. *)
(***************************************************************************)
LEMMA SumRuns ==
  ASSUME NEW S, IsFiniteSet(S), NEW f
  PROVE  \E g : Runs(f, SUBSET S, g) /\ SumFunctionOnSet(f, S) = g[S]
<1> DEFINE g == CHOOSE g : IsFold(f, S, g)
<1>1. SumFunctionOnSet(f, S) = g[S]
  BY DEF SumFunctionOnSet, FoldFunctionOnSet, MapThenFoldSet, IsFold, Pick
<1>2. IsFold(f, S, g)
  BY FoldExists
<1>3. Runs(f, SUBSET S, g)
  <2> HIDE DEF g
  <2>1. \A s \in SUBSET S : g[s] = IF s = {} THEN 0 ELSE f[Pick(s)] + g[s \ {Pick(s)}]
    BY <1>2 DEF IsFold
  <2> QED  BY <2>1 DEF Runs
<1> HIDE DEF g
<1> QED  BY <1>1, <1>3

\* The sum over nothing, and what the first element taken out leaves.
LEMMA SumUnfold ==
  ASSUME NEW S, IsFiniteSet(S), NEW f
  PROVE  /\ S = {} => SumFunctionOnSet(f, S) = 0
         /\ S # {} => SumFunctionOnSet(f, S) =
                        f[Pick(S)] + SumFunctionOnSet(f, S \ {Pick(S)})
<1>1. PICK g : Runs(f, SUBSET S, g) /\ SumFunctionOnSet(f, S) = g[S]
  BY SumRuns
<1>2. CASE S = {}
  BY <1>1, <1>2 DEF Runs
<1>3. CASE S # {}
  <2> DEFINE T == S \ {Pick(S)}
  <2>1. IsFiniteSet(T)
    BY FS_Subset
  <2>2. PICK h : Runs(f, SUBSET T, h) /\ SumFunctionOnSet(f, T) = h[T]
    BY <2>1, SumRuns
  <2>3. T \in SUBSET S /\ T \in SUBSET T
    OBVIOUS
  <2>4. g[T] = h[T]
    <3> HIDE DEF T
    <3> QED  BY <1>1, <2>1, <2>2, <2>3, RunsAgree
  <2>5. S \in SUBSET S
    OBVIOUS
  <2> QED  BY <1>1, <1>3, <2>2, <2>4, <2>5 DEF Runs
<1> QED  BY <1>2, <1>3

\* Sums of integers are integers, sums of natural numbers are natural.
LEMMA SumType ==
  ASSUME NEW S, IsFiniteSet(S), NEW f
  PROVE  /\ (\A x \in S : f[x] \in Int) => SumFunctionOnSet(f, S) \in Int
         /\ (\A x \in S : f[x] \in Nat) => SumFunctionOnSet(f, S) \in Nat
<1> DEFINE G == {T \in SUBSET S :
                   /\ (\A x \in T : f[x] \in Int) => SumFunctionOnSet(f, T) \in Int
                   /\ (\A x \in T : f[x] \in Nat) => SumFunctionOnSet(f, T) \in Nat}
<1>1. {} \in G
  BY FS_EmptySet, SumUnfold
<1>2. ASSUME NEW T \in SUBSET S, T # {}, \A x \in T : T \ {x} \in G
      PROVE  T \in G
  <2>1. Pick(T) \in T /\ IsFiniteSet(T)
    BY <1>2, PickIn, FS_Subset
  <2>2. SumFunctionOnSet(f, T) = f[Pick(T)] + SumFunctionOnSet(f, T \ {Pick(T)})
    BY <1>2, <2>1, SumUnfold
  <2>3. T \ {Pick(T)} \in G
    BY <1>2, <2>1
  <2> QED  BY <2>1, <2>2, <2>3
<1>3. \A T \in SUBSET S : T \in G
  <2> HIDE DEF G
  <2> QED  BY <1>1, <1>2, SubsetInduction
<1> QED  BY <1>3

\* Any element may be taken out first.
LEMMA SumRemove ==
  ASSUME NEW S, IsFiniteSet(S), NEW f, \A y \in S : f[y] \in Int, NEW x \in S
  PROVE  SumFunctionOnSet(f, S) = f[x] + SumFunctionOnSet(f, S \ {x})
<1> DEFINE G == {T \in SUBSET S :
                   \A y \in T : SumFunctionOnSet(f, T) = f[y] + SumFunctionOnSet(f, T \ {y})}
<1>1. {} \in G
  OBVIOUS
<1>2. ASSUME NEW T \in SUBSET S, T # {}, \A y \in T : T \ {y} \in G
      PROVE  T \in G
  <2>1. Pick(T) \in T /\ IsFiniteSet(T)
    BY <1>2, PickIn, FS_Subset
  <2>2. SumFunctionOnSet(f, T) = f[Pick(T)] + SumFunctionOnSet(f, T \ {Pick(T)})
    BY <1>2, <2>1, SumUnfold
  <2> SUFFICES ASSUME NEW y \in T, y # Pick(T)
               PROVE  SumFunctionOnSet(f, T) = f[y] + SumFunctionOnSet(f, T \ {y})
    BY <2>2
  <2> DEFINE p == Pick(T)
             R == T \ {p, y}
  <2>3. (T \ {p}) \ {y} = R /\ (T \ {y}) \ {p} = R
    OBVIOUS
  <2>4. SumFunctionOnSet(f, T \ {p}) = f[y] + SumFunctionOnSet(f, R)
    BY <1>2, <2>1, <2>3
  <2>5. SumFunctionOnSet(f, T \ {y}) = f[p] + SumFunctionOnSet(f, R)
    BY <1>2, <2>1, <2>3
  <2>6. SumFunctionOnSet(f, R) \in Int
    <3>1. IsFiniteSet(R) /\ R \subseteq S
      BY <2>1, FS_Subset
    <3> QED  BY <3>1, SumType
  <2>7. f[y] \in Int /\ f[p] \in Int
    BY <2>1
  <2> HIDE DEF R, p
  <2> QED  BY <2>2, <2>4, <2>5, <2>6, <2>7 DEF p
<1>3. \A T \in SUBSET S : T \in G
  <2> HIDE DEF G
  <2> QED  BY <1>1, <1>2, SubsetInduction
<1> QED  BY <1>3

\* One element more.
LEMMA SumAdd ==
  ASSUME NEW S, IsFiniteSet(S), NEW f, \A y \in S : f[y] \in Int,
         NEW x, x \notin S, f[x] \in Int
  PROVE  SumFunctionOnSet(f, S \cup {x}) = f[x] + SumFunctionOnSet(f, S)
<1>1. IsFiniteSet(S \cup {x}) /\ (S \cup {x}) \ {x} = S
  BY FS_AddElement
<1> QED  BY <1>1, SumRemove

\* Functions that agree on the set have the same sum over it.
LEMMA SumSame ==
  ASSUME NEW S, IsFiniteSet(S), NEW f, NEW g, \A x \in S : f[x] = g[x]
  PROVE  SumFunctionOnSet(f, S) = SumFunctionOnSet(g, S)
<1> DEFINE G == {T \in SUBSET S : SumFunctionOnSet(f, T) = SumFunctionOnSet(g, T)}
<1>1. {} \in G
  BY FS_EmptySet, SumUnfold
<1>2. ASSUME NEW T \in SUBSET S, T # {}, \A x \in T : T \ {x} \in G
      PROVE  T \in G
  <2>1. Pick(T) \in T /\ IsFiniteSet(T)
    BY <1>2, PickIn, FS_Subset
  <2>2. /\ SumFunctionOnSet(f, T) = f[Pick(T)] + SumFunctionOnSet(f, T \ {Pick(T)})
        /\ SumFunctionOnSet(g, T) = g[Pick(T)] + SumFunctionOnSet(g, T \ {Pick(T)})
    BY <1>2, <2>1, SumUnfold
  <2>3. T \ {Pick(T)} \in G
    BY <1>2, <2>1
  <2> QED  BY <2>1, <2>2, <2>3
<1>3. \A T \in SUBSET S : T \in G
  <2> HIDE DEF G
  <2> QED  BY <1>1, <1>2, SubsetInduction
<1> QED  BY <1>3

\* The sum is monotone in the function.
LEMMA SumLess ==
  ASSUME NEW S, IsFiniteSet(S), NEW f, NEW g,
         \A x \in S : f[x] \in Int /\ g[x] \in Int /\ f[x] <= g[x]
  PROVE  SumFunctionOnSet(f, S) <= SumFunctionOnSet(g, S)
<1> DEFINE G == {T \in SUBSET S : SumFunctionOnSet(f, T) <= SumFunctionOnSet(g, T)}
<1>1. {} \in G
  <2>1. SumFunctionOnSet(f, {}) = 0 /\ SumFunctionOnSet(g, {}) = 0
    BY FS_EmptySet, SumUnfold
  <2> QED  BY <2>1
<1>2. ASSUME NEW T \in SUBSET S, T # {}, \A x \in T : T \ {x} \in G
      PROVE  T \in G
  <2>1. Pick(T) \in T /\ IsFiniteSet(T)
    BY <1>2, PickIn, FS_Subset
  <2>2. /\ SumFunctionOnSet(f, T) = f[Pick(T)] + SumFunctionOnSet(f, T \ {Pick(T)})
        /\ SumFunctionOnSet(g, T) = g[Pick(T)] + SumFunctionOnSet(g, T \ {Pick(T)})
    BY <1>2, <2>1, SumUnfold
  <2>3. T \ {Pick(T)} \in G
    BY <1>2, <2>1
  <2>4. /\ SumFunctionOnSet(f, T \ {Pick(T)}) \in Int
        /\ SumFunctionOnSet(g, T \ {Pick(T)}) \in Int
    <3>1. IsFiniteSet(T \ {Pick(T)}) /\ T \ {Pick(T)} \subseteq S
      BY <2>1, FS_Subset
    <3> QED  BY <3>1, SumType
  <2> QED  BY <2>1, <2>2, <2>3, <2>4
<1>3. \A T \in SUBSET S : T \in G
  <2> HIDE DEF G
  <2> QED  BY <1>1, <1>2, SubsetInduction
<1> QED  BY <1>3

\* Elements that count nothing below zero add nothing below zero.
LEMMA SumLarger ==
  ASSUME NEW S, IsFiniteSet(S), NEW T \in SUBSET S, NEW f,
         \A x \in S : f[x] \in Int, \A x \in S \ T : f[x] >= 0
  PROVE  SumFunctionOnSet(f, T) <= SumFunctionOnSet(f, S)
<1> DEFINE G == {U \in SUBSET S :
                   T \subseteq U => SumFunctionOnSet(f, T) <= SumFunctionOnSet(f, U)}
<1>0. \A U \in SUBSET S : IsFiniteSet(U) /\ SumFunctionOnSet(f, U) \in Int
  <2> TAKE U \in SUBSET S
  <2>1. IsFiniteSet(U)
    BY FS_Subset
  <2> QED  BY <2>1, SumType
<1>1. {} \in G
  BY <1>0
<1>2. ASSUME NEW U \in SUBSET S, U # {}, \A x \in U : U \ {x} \in G
      PROVE  U \in G
  <2> SUFFICES ASSUME T \subseteq U, T # U
               PROVE  SumFunctionOnSet(f, T) <= SumFunctionOnSet(f, U)
    BY <1>0
  <2>1. PICK x \in U : x \notin T
    OBVIOUS
  <2>2. SumFunctionOnSet(f, U) = f[x] + SumFunctionOnSet(f, U \ {x})
    BY <1>0, SumRemove
  <2>3. SumFunctionOnSet(f, T) <= SumFunctionOnSet(f, U \ {x})
    BY <1>2, <2>1
  <2>4. /\ SumFunctionOnSet(f, T) \in Int /\ SumFunctionOnSet(f, U \ {x}) \in Int
        /\ f[x] \in Int /\ f[x] >= 0
    BY <1>0, <2>1
  <2> QED  BY <2>2, <2>3, <2>4
<1>3. \A U \in SUBSET S : U \in G
  <2> HIDE DEF G
  <2> QED  BY <1>1, <1>2, SubsetInduction
<1> QED  BY <1>3

\* Two functions that differ at one element of the set differ by that in their sums.
LEMMA SumChange ==
  ASSUME NEW S, IsFiniteSet(S), NEW f, NEW g, NEW x \in S,
         \A y \in S : f[y] \in Int /\ g[y] \in Int,
         \A y \in S \ {x} : f[y] = g[y]
  PROVE  SumFunctionOnSet(g, S) = SumFunctionOnSet(f, S) - f[x] + g[x]
<1>1. IsFiniteSet(S \ {x})
  BY FS_Subset
<1>2. /\ SumFunctionOnSet(f, S) = f[x] + SumFunctionOnSet(f, S \ {x})
      /\ SumFunctionOnSet(g, S) = g[x] + SumFunctionOnSet(g, S \ {x})
  BY SumRemove
<1>3. SumFunctionOnSet(f, S \ {x}) = SumFunctionOnSet(g, S \ {x})
  BY <1>1, SumSame
<1>4. SumFunctionOnSet(f, S \ {x}) \in Int /\ f[x] \in Int /\ g[x] \in Int
  BY <1>1, SumType
<1> QED  BY <1>2, <1>3, <1>4

\* A sum over a part of a set is a sum over the set.
LEMMA SumPart ==
  ASSUME NEW S, IsFiniteSet(S), NEW T \in SUBSET S, NEW f, \A x \in T : f[x] \in Int
  PROVE  SumFunctionOnSet(f, T) =
           SumFunctionOnSet([x \in S |-> IF x \in T THEN f[x] ELSE 0], S)
<1> DEFINE g == [x \in S |-> IF x \in T THEN f[x] ELSE 0]
           G == {U \in SUBSET S :
                   SumFunctionOnSet(f, U \cap T) = SumFunctionOnSet(g, U)}
<1>0. \A x \in S : g[x] = (IF x \in T THEN f[x] ELSE 0) /\ g[x] \in Int
  OBVIOUS
<1>1. {} \in G
  <2>1. SumFunctionOnSet(f, {}) = 0 /\ SumFunctionOnSet(g, {}) = 0
    <3> HIDE DEF g
    <3> QED  BY FS_EmptySet, SumUnfold
  <2>2. {} \cap T = {}
    OBVIOUS
  <2> HIDE DEF g
  <2> QED  BY <2>1, <2>2
<1>2. ASSUME NEW U \in SUBSET S, U # {}, \A x \in U : U \ {x} \in G
      PROVE  U \in G
  <2> HIDE DEF g
  <2>1. PICK x \in U : TRUE
    BY <1>2
  <2>2. IsFiniteSet(U) /\ IsFiniteSet(U \cap T) /\ \A y \in U : g[y] \in Int
    BY <1>0, FS_Subset
  <2>3. SumFunctionOnSet(g, U) = g[x] + SumFunctionOnSet(g, U \ {x})
    BY <2>2, SumRemove
  <2>4. SumFunctionOnSet(f, (U \ {x}) \cap T) = SumFunctionOnSet(g, U \ {x})
    BY <1>2, <2>1
  <2>5. CASE x \in T
    <3>1. (U \cap T) \ {x} = (U \ {x}) \cap T
      OBVIOUS
    <3>2. SumFunctionOnSet(f, U \cap T) = f[x] + SumFunctionOnSet(f, (U \cap T) \ {x})
      BY <2>2, <2>5, SumRemove
    <3> QED  BY <1>0, <2>3, <2>4, <2>5, <3>1, <3>2
  <2>6. CASE x \notin T
    <3>1. U \cap T = (U \ {x}) \cap T
      BY <2>6
    <3>2. g[x] = 0
      BY <1>0, <2>6
    <3>3. SumFunctionOnSet(g, U \ {x}) \in Int
      <4>1. IsFiniteSet(U \ {x})
        BY <2>2, FS_Subset
      <4> QED  BY <2>2, <4>1, SumType
    <3>4. SumFunctionOnSet(f, U \cap T) = SumFunctionOnSet(g, U \ {x})
      BY <2>4, <3>1
    <3> QED  BY <2>3, <3>2, <3>3, <3>4
  <2> QED  BY <2>5, <2>6
<1>3. \A U \in SUBSET S : U \in G
  <2> HIDE DEF G
  <2> QED  BY <1>1, <1>2, SubsetInduction
<1>4. S \cap T = T
  OBVIOUS
<1>5. S \in G
  <2> HIDE DEF G
  <2> QED  BY <1>3
<1> QED  BY <1>4, <1>5

\* Nothing adds up to nothing.
LEMMA SumZero ==
  ASSUME NEW S, IsFiniteSet(S)
  PROVE  SumFunctionOnSet([x \in S |-> 0], S) = 0
<1> DEFINE f == [x \in S |-> 0]
           G == {T \in SUBSET S : SumFunctionOnSet(f, T) = 0}
<1>1. {} \in G
  BY FS_EmptySet, SumUnfold
<1>2. ASSUME NEW T \in SUBSET S, T # {}, \A x \in T : T \ {x} \in G
      PROVE  T \in G
  <2>1. Pick(T) \in T /\ IsFiniteSet(T)
    BY <1>2, PickIn, FS_Subset
  <2>2. f[Pick(T)] = 0 /\ SumFunctionOnSet(f, T \ {Pick(T)}) = 0
    BY <1>2, <2>1
  <2> HIDE DEF f
  <2>3. SumFunctionOnSet(f, T) = f[Pick(T)] + SumFunctionOnSet(f, T \ {Pick(T)})
    BY <1>2, <2>1, SumUnfold
  <2> QED BY <2>2, <2>3 DEF f
<1> HIDE DEF G
<1>3. \A T \in SUBSET S : T \in G
  BY <1>1, <1>2, SubsetInduction
<1> QED BY <1>3 DEF G

\* Adding n at one index adds n to the sum.
LEMMA SumPlus ==
  ASSUME NEW S, IsFiniteSet(S), NEW f \in [S -> Int], NEW g \in [S -> Int],
         NEW x \in S, NEW n \in Int, g[x] = f[x] + n,
         \A y \in S \ {x} : g[y] = f[y]
  PROVE  SumFunction(f) \in Int /\ SumFunction(g) = SumFunction(f) + n
<1>1. \A y \in S : f[y] \in Int /\ g[y] \in Int
  OBVIOUS
<1>2. SumFunctionOnSet(g, S) = SumFunctionOnSet(f, S) - f[x] + g[x]
  BY <1>1, SumChange
<1>3. SumFunctionOnSet(f, S) \in Int
  BY <1>1, SumType
<1>4. SumFunction(f) = SumFunctionOnSet(f, S) /\ SumFunction(g) = SumFunctionOnSet(g, S)
  BY DEF SumFunction
<1> QED  BY <1>1, <1>2, <1>3, <1>4

\* A set of n elements that count c each has the sum c * n.
LEMMA SumConstant ==
  ASSUME NEW S, IsFiniteSet(S), NEW c \in Int, NEW f, \A x \in S : f[x] = c
  PROVE  SumFunctionOnSet(f, S) = c * Cardinality(S)
<1> DEFINE G == {T \in SUBSET S : SumFunctionOnSet(f, T) = c * Cardinality(T)}
<1>1. {} \in G
  <2>1. SumFunctionOnSet(f, {}) = 0 /\ Cardinality({}) = 0
    BY FS_EmptySet, SumUnfold
  <2> QED BY <2>1
<1>2. ASSUME NEW T \in SUBSET S, T # {}, \A x \in T : T \ {x} \in G PROVE T \in G
  <2>1. PICK x \in T : TRUE
    BY <1>2
  <2>2. IsFiniteSet(T) /\ Cardinality(T) \in Nat
    BY FS_Subset, FS_CardinalityType
  <2>3. SumFunctionOnSet(f, T) = c + SumFunctionOnSet(f, T \ {x})
    <3>1. f[x] = c /\ \A y \in T : f[y] \in Int
      OBVIOUS
    <3> QED BY <2>1, <2>2, <3>1, SumRemove
  <2>4. SumFunctionOnSet(f, T \ {x}) = c * Cardinality(T \ {x})
    BY <1>2, <2>1
  <2>5. Cardinality(T \ {x}) = Cardinality(T) - 1
    BY <2>1, <2>2, FS_RemoveElement
  <2>6. \A n \in Nat : c + c * (n - 1) = c * n
    OBVIOUS
  <2> QED BY <2>2, <2>3, <2>4, <2>5, <2>6
<1> HIDE DEF G
<1>3. \A T \in SUBSET S : T # {} /\ (\A x \in T : T \ {x} \in G) => T \in G
  BY <1>2
<1>4. \A T \in SUBSET S : T \in G
  BY <1>1, <1>3, SubsetInduction
<1> QED BY <1>4 DEF G

\* Sorting a set into the places of B loses none of its elements.
Count(T, h, b) == Cardinality({x \in T : h[x] = b})

LEMMA SumCounts ==
  ASSUME NEW S, IsFiniteSet(S), NEW B, IsFiniteSet(B), NEW h \in [S -> B], NEW c \in Int
  PROVE  SumFunction([b \in B |-> c * Count(S, h, b)]) = c * Cardinality(S)
<1> DEFINE F(T) == [b \in B |-> c * Count(T, h, b)]
           G == {T \in SUBSET S : SumFunction(F(T)) = c * Cardinality(T)}
<1>0. \A T \in SUBSET S : \A b : Count(T, h, b) \in Nat /\ IsFiniteSet({x \in T : h[x] = b})
  <2>1. \A T \in SUBSET S : \A b : IsFiniteSet({x \in T : h[x] = b})
    <3>1. \A T \in SUBSET S : \A b : {x \in T : h[x] = b} \in SUBSET S
      OBVIOUS
    <3> QED BY <3>1, FS_Subset
  <2> QED BY <2>1, FS_CardinalityType DEF Count
<1>1. {} \in G
  <2>1. \A b : Count({}, h, b) = 0
    <3>1. \A b : {x \in {} : h[x] = b} = {}
      OBVIOUS
    <3> QED BY <3>1, FS_EmptySet DEF Count
  <2>2. F({}) = [b \in B |-> 0] /\ Cardinality({}) = 0
    BY <2>1, FS_EmptySet
  <2>3. SumFunction([b \in B |-> 0]) = 0
    BY SumZero DEF SumFunction
  <2> QED BY <2>2, <2>3
<1>2. ASSUME NEW T \in SUBSET S, T # {}, \A x \in T : T \ {x} \in G PROVE T \in G
  <2>1. PICK x \in T : TRUE
    BY <1>2
  <2> DEFINE U == T \ {x}
  <2>2. IsFiniteSet(T) /\ Cardinality(T) \in Nat
    BY FS_Subset, FS_CardinalityType
  <2>3. Cardinality(T) = Cardinality(U) + 1 /\ Cardinality(U) \in Nat
    <3>1. Cardinality(U) = Cardinality(T) - 1
      BY <2>1, <2>2, FS_RemoveElement
    <3>2. IsFiniteSet(U)
      BY <2>2, FS_RemoveElement
    <3> QED BY <2>2, <3>1, <3>2, FS_CardinalityType
  <2>4. Count(T, h, h[x]) = Count(U, h, h[x]) + 1
    <3>1. /\ {y \in T : h[y] = h[x]} = {y \in U : h[y] = h[x]} \cup {x}
          /\ x \notin {y \in U : h[y] = h[x]}
      BY <2>1
    <3>2. IsFiniteSet({y \in U : h[y] = h[x]})
      BY <1>0
    <3> QED BY <3>1, <3>2, FS_AddElement DEF Count
  <2>5. \A b \in B \ {h[x]} : Count(T, h, b) = Count(U, h, b)
    <3>1. \A b \in B \ {h[x]} : {y \in T : h[y] = b} = {y \in U : h[y] = b}
      OBVIOUS
    <3> QED BY <3>1 DEF Count
  <2>6. \A n \in Nat : c * (n + 1) = c * n + c /\ c * n \in Int
    OBVIOUS
  <2>7. F(T) \in [B -> Int] /\ F(U) \in [B -> Int]
    BY <1>0, <2>6
  <2>8. /\ h[x] \in B
        /\ F(T)[h[x]] = F(U)[h[x]] + c
        /\ \A b \in B \ {h[x]} : F(T)[b] = F(U)[b]
    <3>1. h[x] \in B
      BY <2>1
    <3>2. Count(U, h, h[x]) \in Nat
      BY <1>0
    <3>3. c * Count(T, h, h[x]) = c * Count(U, h, h[x]) + c
      BY <2>4, <2>6, <3>2
    <3> QED BY <2>5, <3>1, <3>3
  <2>9. SumFunction(F(T)) = SumFunction(F(U)) + c
    <3> HIDE DEF F, U
    <3> QED BY <2>7, <2>8, SumPlus
  <2>10. SumFunction(F(U)) = c * Cardinality(U)
    BY <1>2, <2>1
  <2>11. SumFunction(F(T)) = c * Cardinality(T)
    <3> HIDE DEF F, U
    <3> QED BY <2>3, <2>6, <2>9, <2>10
  <2> QED BY <2>11
<1> HIDE DEF G
<1>3. \A T \in SUBSET S : T # {} /\ (\A x \in T : T \ {x} \in G) => T \in G
  BY <1>2
<1>4. \A T \in SUBSET S : T \in G
  BY <1>1, <1>3, SubsetInduction
<1> QED BY <1>4 DEF G
==============================================================================
