---------------------------- MODULE SumTheorems ------------------------------
(***************************************************************************)
(* Sums over finite sets of indices, as the ledgers' properties use them:  *)
(* SumFunctionOnSet of the Functions module, which takes the indices one   *)
(* by one as CHOOSE gives them.  The library states no facts about it.     *)
(* They are proved from the recursive equation of the sum (SumStep), which *)
(* itself needs that the function the fold is defined by exists.  Every    *)
(* induction is over the subsets of a finite set and is carried out on a   *)
(* minimal counterexample (SubsetMin).                                     *)
(***************************************************************************)
EXTENDS Integers, Functions, FiniteSetTheorems, TLAPS

\* The index taken first.
Taken(s) == CHOOSE x \in s : TRUE
\* The equation of a fold function over the subsets of S.
FoldsTo(g, f, S) ==
  g = [s \in SUBSET S |-> IF s = {} THEN 0 ELSE f[Taken(s)] + g[s \ {Taken(s)}]]

\* A nonempty set of subsets of a finite set has a member none of whose proper subsets
\* belongs to it.
LEMMA SubsetMin ==
  ASSUME NEW S, IsFiniteSet(S), NEW T, T \subseteq SUBSET S, T # {}
  PROVE  \E s \in T : \A u \in SUBSET s : u # s => u \notin T
  <1>1. FiniteSubsetsOf(S) = SUBSET S
    BY FS_FiniteSubsetsOfFinite, Zenon
  <1>2. \E s \in T : \A u \in T : ~ (<<u, s>> \in StrictSubsetOrdering(S))
    BY <1>1, FS_StrictSubsetOrderingWellFounded, WFMin
  <1>3. PICK s \in T : \A u \in T : ~ (<<u, s>> \in StrictSubsetOrdering(S))
    BY <1>2, Zenon
  <1>4. ASSUME NEW u \in SUBSET s, u # s, u \in T PROVE FALSE
    BY <1>3, <1>4, Zenon DEF StrictSubsetOrdering
  <1> QED BY <1>4, Zenon

\* A sum is the value of a fold function.
LEMMA SumIsFold ==
  ASSUME NEW f, NEW S
  PROVE  SumFunctionOnSet(f, S) = (CHOOSE g : FoldsTo(g, f, S))[S]
  BY Zenon DEF SumFunctionOnSet, FoldFunctionOnSet, MapThenFoldSet, FoldsTo, Taken

\* The index taken is one of the set, and what remains is smaller.
LEMMA TakenIsMember ==
  ASSUME NEW s, s # {}
  PROVE  Taken(s) \in s /\ s \ {Taken(s)} # s /\ s \ {Taken(s)} \in SUBSET s
  <1>1. Taken(s) \in s
    BY Zenon DEF Taken
  <1> QED BY <1>1, Zenon

\* The values of a fold function.
LEMMA FoldValue ==
  ASSUME NEW f, NEW S, NEW g, FoldsTo(g, f, S), NEW s \in SUBSET S
  PROVE  /\ s = {} => g[s] = 0
         /\ s # {} => g[s] = f[Taken(s)] + g[s \ {Taken(s)}]
  <1>1. g = [u \in SUBSET S |-> IF u = {} THEN 0 ELSE f[Taken(u)] + g[u \ {Taken(u)}]]
    BY Zenon DEF FoldsTo
  <1> QED BY <1>1, Zenon

\* There is at most one fold function: two of them, over S and over a subset of it,
\* agree where both are defined.
LEMMA FoldUnique ==
  ASSUME NEW f, NEW S, IsFiniteSet(S), NEW S1 \in SUBSET S,
         NEW g, FoldsTo(g, f, S), NEW h, FoldsTo(h, f, S1)
  PROVE  \A s \in SUBSET S1 : g[s] = h[s]
  <1>0. PICK T : T = {s \in SUBSET S1 : g[s] # h[s]}
    BY Zenon
  <1> SUFFICES ASSUME T # {} PROVE FALSE
    BY <1>0, Zenon
  <1>1. IsFiniteSet(S1)
    BY FS_Subset, Zenon
  <1>2. PICK s \in T : \A u \in SUBSET s : u # s => u \notin T
    BY <1>0, <1>1, SubsetMin
  <1>3. s \in SUBSET S1 /\ s \in SUBSET S /\ g[s] # h[s]
    BY <1>0, <1>2, Zenon
  <1>4. s # {}
    BY <1>3, FoldValue
  <1>5. g[s \ {Taken(s)}] = h[s \ {Taken(s)}]
    BY <1>0, <1>2, <1>3, <1>4, TakenIsMember, Zenon
  <1>6. g[s] = f[Taken(s)] + g[s \ {Taken(s)}] /\ h[s] = f[Taken(s)] + h[s \ {Taken(s)}]
    BY <1>3, <1>4, FoldValue
  <1> QED BY <1>3, <1>5, <1>6, Zenon

\* The fold function exists, and its values are the sums.
LEMMA FoldIsSum ==
  ASSUME NEW f, NEW S, IsFiniteSet(S)
  PROVE  FoldsTo([s \in SUBSET S |-> SumFunctionOnSet(f, s)], f, S)
  <1> DEFINE sum(s) == SumFunctionOnSet(f, s)
             value(s) == IF s = {} THEN 0 ELSE f[Taken(s)] + sum(s \ {Taken(s)})
  <1>0. PICK T : T = {s \in SUBSET S : sum(s) # value(s)}
    BY Zenon
  <1>1. ASSUME T # {} PROVE FALSE
    <2>1. PICK s \in T : \A u \in SUBSET s : u # s => u \notin T
      <3>1. T \subseteq SUBSET S
        BY <1>0, Zenon
      <3> QED BY <1>1, <3>1, SubsetMin, Zenon
    <2>2. s \in SUBSET S /\ sum(s) # value(s)
      BY <1>0, <2>1, Zenon
    <2>3. \A u \in SUBSET s : u # s => sum(u) = value(u)
      BY <1>0, <2>1, <2>2, Zenon
    <2> DEFINE g == [u \in SUBSET s |-> IF u = s THEN value(s) ELSE sum(u)]
    <2>4. ASSUME NEW u \in SUBSET s
          PROVE  g[u] = IF u = {} THEN 0 ELSE f[Taken(u)] + g[u \ {Taken(u)}]
      <3>1. g[u] = value(u)
        BY <2>3, Zenon
      <3>2. CASE u = {}
        BY <3>1, <3>2, Zenon
      <3>3. CASE u # {}
        <4>1. u \ {Taken(u)} \in SUBSET s /\ u \ {Taken(u)} # s
          BY <3>3, TakenIsMember, Zenon
        <4>2. g[u \ {Taken(u)}] = sum(u \ {Taken(u)})
          BY <4>1, Zenon
        <4> QED BY <3>1, <3>3, <4>2, Zenon
      <3> QED BY <3>2, <3>3, Zenon
    <2>5. g = [u \in SUBSET s |-> IF u = {} THEN 0 ELSE f[Taken(u)] + g[u \ {Taken(u)}]]
      <3>1. g = [u \in SUBSET s |-> g[u]]
        BY Zenon
      <3> HIDE DEF g
      <3> QED BY <2>4, <3>1, Zenon
    <2>6. g[s] = value(s)
      BY Zenon
    <2> HIDE DEF g
    <2>7. FoldsTo(g, f, s)
      BY <2>5, Zenon DEF FoldsTo
    <2>8. FoldsTo(CHOOSE h : FoldsTo(h, f, s), f, s)
      BY <2>7, Zenon
    <2>9. PICK h : h = (CHOOSE x : FoldsTo(x, f, s)) /\ FoldsTo(h, f, s)
      BY <2>8, Zenon
    <2>10. IsFiniteSet(s) /\ s \in SUBSET s
      BY <2>2, FS_Subset, Zenon
    <2>11. h[s] = g[s]
      BY <2>7, <2>9, <2>10, FoldUnique
    <2>12. sum(s) = h[s]
      BY <2>9, SumIsFold, Zenon
    <2> QED BY <2>2, <2>6, <2>11, <2>12, Zenon
  <1>2. \A s \in SUBSET S : sum(s) = value(s)
    BY <1>0, <1>1, Zenon
  <1> DEFINE k == [s \in SUBSET S |-> sum(s)]
  <1>3. ASSUME NEW s \in SUBSET S
        PROVE  sum(s) = IF s = {} THEN 0 ELSE f[Taken(s)] + k[s \ {Taken(s)}]
    <2>1. s \ {Taken(s)} \in SUBSET S
      BY Zenon
    <2>2. k[s \ {Taken(s)}] = sum(s \ {Taken(s)})
      BY <2>1, Zenon
    <2> QED BY <1>2, <2>2, Zenon
  <1> HIDE DEF sum
  <1>4. k = [s \in SUBSET S |-> IF s = {} THEN 0 ELSE f[Taken(s)] + k[s \ {Taken(s)}]]
    BY <1>3, Zenon
  <1>5. FoldsTo(k, f, S)
    BY <1>4, Zenon DEF FoldsTo
  <1> QED BY <1>5, Zenon DEF sum

\* The recursive equation of a sum.
LEMMA SumStep ==
  ASSUME NEW f, NEW S, IsFiniteSet(S), NEW s \in SUBSET S
  PROVE  /\ s = {} => SumFunctionOnSet(f, s) = 0
         /\ s # {} => SumFunctionOnSet(f, s) = f[Taken(s)] + SumFunctionOnSet(f, s \ {Taken(s)})
  <1> DEFINE k == [u \in SUBSET S |-> SumFunctionOnSet(f, u)]
  <1>1. FoldsTo(k, f, S)
    BY FoldIsSum, Zenon
  <1>2. k[s] = SumFunctionOnSet(f, s) /\ k[s \ {Taken(s)}] = SumFunctionOnSet(f, s \ {Taken(s)})
    BY Zenon
  <1> HIDE DEF k
  <1>3. /\ s = {} => k[s] = 0
        /\ s # {} => k[s] = f[Taken(s)] + k[s \ {Taken(s)}]
    BY <1>1, FoldValue
  <1> QED BY <1>2, <1>3, Zenon

\* A sum of natural numbers is one.
LEMMA SumType ==
  ASSUME NEW S, IsFiniteSet(S), NEW f, \A x \in S : f[x] \in Nat
  PROVE  SumFunctionOnSet(f, S) \in Nat
  <1>0. PICK T : T = {s \in SUBSET S : SumFunctionOnSet(f, s) \notin Nat}
    BY Zenon
  <1>1. ASSUME T # {} PROVE FALSE
    <2>1. PICK s \in T : \A u \in SUBSET s : u # s => u \notin T
      BY <1>0, <1>1, SubsetMin
    <2>2. s \in SUBSET S /\ SumFunctionOnSet(f, s) \notin Nat
      BY <1>0, <2>1, Zenon
    <2>3. s # {}
      <3>1. s = {} => SumFunctionOnSet(f, s) = 0
        BY <2>2, SumStep, Zenon
      <3> QED BY <2>2, <3>1
    <2>4. Taken(s) \in s /\ f[Taken(s)] \in Nat /\ SumFunctionOnSet(f, s \ {Taken(s)}) \in Nat
      <3>1. /\ Taken(s) \in s /\ s \ {Taken(s)} # s /\ s \ {Taken(s)} \in SUBSET s
        BY <2>3, TakenIsMember, Zenon
      <3>2. s \ {Taken(s)} \in SUBSET S /\ s \ {Taken(s)} \notin T
        BY <2>1, <2>2, <3>1, Zenon
      <3> QED BY <1>0, <2>2, <3>1, <3>2, Zenon
    <2> QED BY <2>2, <2>3, <2>4, SumStep
  <1> QED BY <1>0, <1>1, Zenon

\* A sum of zeros is zero.
LEMMA SumZero ==
  ASSUME NEW S, IsFiniteSet(S), NEW f, \A x \in S : f[x] = 0
  PROVE  SumFunctionOnSet(f, S) = 0
  <1>0. PICK T : T = {s \in SUBSET S : SumFunctionOnSet(f, s) # 0}
    BY Zenon
  <1>1. ASSUME T # {} PROVE FALSE
    <2>1. PICK s \in T : \A u \in SUBSET s : u # s => u \notin T
      BY <1>0, <1>1, SubsetMin
    <2>2. s \in SUBSET S /\ SumFunctionOnSet(f, s) # 0
      BY <1>0, <2>1, Zenon
    <2>3. s # {}
      <3>1. s = {} => SumFunctionOnSet(f, s) = 0
        BY <2>2, SumStep, Zenon
      <3> QED BY <2>2, <3>1, Zenon
    <2>4. Taken(s) \in s /\ f[Taken(s)] = 0 /\ SumFunctionOnSet(f, s \ {Taken(s)}) = 0
      <3>1. /\ Taken(s) \in s /\ s \ {Taken(s)} # s /\ s \ {Taken(s)} \in SUBSET s
        BY <2>3, TakenIsMember, Zenon
      <3>2. s \ {Taken(s)} \in SUBSET S /\ s \ {Taken(s)} \notin T
        BY <2>1, <2>2, <3>1, Zenon
      <3> QED BY <1>0, <2>2, <3>1, <3>2, Zenon
    <2> QED BY <2>2, <2>3, <2>4, SumStep
  <1> QED BY <1>0, <1>1, Zenon

\* When one term grows, the sum grows by as much.
LEMMA SumGrows ==
  ASSUME NEW S, IsFiniteSet(S), NEW q \in S, NEW n \in Nat,
         NEW f, \A x \in S : f[x] \in Nat,
         NEW g, \A x \in S : g[x] = IF x = q THEN f[x] + n ELSE f[x]
  PROVE  SumFunctionOnSet(g, S) = SumFunctionOnSet(f, S) + n
  <1> DEFINE more(s) == IF q \in s THEN n ELSE 0
  <1>0. PICK T : T = {s \in SUBSET S : SumFunctionOnSet(g, s) # SumFunctionOnSet(f, s) + more(s)}
    BY Zenon
  <1>1. ASSUME T # {} PROVE FALSE
    <2>1. PICK s \in T : \A u \in SUBSET s : u # s => u \notin T
      BY <1>0, <1>1, SubsetMin
    <2>2. s \in SUBSET S /\ SumFunctionOnSet(g, s) # SumFunctionOnSet(f, s) + more(s)
      BY <1>0, <2>1, Zenon
    <2>3. s # {}
      <3>1. SUFFICES ASSUME s = {} PROVE FALSE
        BY Zenon
      <3>2. SumFunctionOnSet(g, s) = 0 /\ SumFunctionOnSet(f, s) = 0 /\ more(s) = 0
        BY <2>2, <3>1, SumStep, Zenon
      <3> QED BY <2>2, <3>2
    <2>4. PICK x \in s : x = Taken(s)
      BY <2>3, TakenIsMember, Zenon
    <2>5. PICK u \in SUBSET s : u = s \ {x} /\ u # s
      <3>1. s \ {x} \in SUBSET s /\ s \ {x} # s
        BY <2>3, <2>4, TakenIsMember, Zenon
      <3> QED BY <3>1, Zenon
    <2>6. SumFunctionOnSet(g, u) = SumFunctionOnSet(f, u) + more(u)
      <3>1. u \in SUBSET S /\ u \notin T
        BY <2>1, <2>2, <2>5, Zenon
      <3> QED BY <1>0, <3>1, Zenon
    <2>7. IsFiniteSet(u) /\ \A y \in u : f[y] \in Nat
      BY <2>2, <2>5, FS_Subset, Zenon
    <2>8. SumFunctionOnSet(f, u) \in Nat
      BY <2>7, SumType, Zenon
    <2>9. /\ SumFunctionOnSet(f, s) = f[x] + SumFunctionOnSet(f, u)
          /\ SumFunctionOnSet(g, s) = g[x] + SumFunctionOnSet(g, u)
      BY <2>2, <2>3, <2>4, <2>5, SumStep, Zenon
    <2>10. f[x] \in Nat /\ g[x] = IF x = q THEN f[x] + n ELSE f[x]
      BY <2>2, <2>4, Zenon
    <2>11. more(s) = (IF x = q THEN n ELSE 0) + more(u)
      BY <2>4, <2>5
    <2>12. more(u) \in Nat
      BY Zenon
    <2> HIDE DEF more
    <2> QED BY <2>2, <2>6, <2>8, <2>9, <2>10, <2>11, <2>12
  <1>2. S \notin T
    BY <1>1, Zenon
  <1> QED BY <1>0, <1>2, Zenon

\* A sum depends on its terms only.
LEMMA SumSame ==
  ASSUME NEW S, IsFiniteSet(S), NEW f, \A x \in S : f[x] \in Nat,
         NEW g, \A x \in S : g[x] = f[x]
  PROVE  SumFunctionOnSet(g, S) = SumFunctionOnSet(f, S)
  <1>1. CASE S = {}
    BY <1>1, SumStep, Zenon
  <1>2. CASE S # {}
    <2>1. PICK q \in S : TRUE
      BY <1>2, Zenon
    <2>2. SumFunctionOnSet(g, S) = SumFunctionOnSet(f, S) + 0
      <3>1. \A x \in S : g[x] = IF x = q THEN f[x] + 0 ELSE f[x]
        OBVIOUS
      <3> QED BY <2>1, <3>1, SumGrows
    <2> QED BY <2>2, SumType
  <1> QED BY <1>1, <1>2, Zenon
=============================================================================
