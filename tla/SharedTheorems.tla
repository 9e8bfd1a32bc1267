----------------------------- MODULE SharedTheorems -----------------------------
(***************************************************************************)
(* What the proofs of several components rest on.  Sums over finite sets:  *)
(* what SumFunctionOnSet computes does not depend on the order in which it *)
(* takes the elements.  Sorted lists, and paths, as DirPaths defines them. *)
(***************************************************************************)
EXTENDS DirPaths, Functions, FiniteSetTheorems, SequenceTheorems, TLAPS

--------------------------------------------------------------------------------
(* Induction over finite sets *)

\* Of a collection of subsets of a finite set, some have no other one inside.
LEMMA SmallestSubset ==
  ASSUME NEW S, IsFiniteSet(S), NEW B, B \subseteq SUBSET S, B # {}
  PROVE  \E T \in B : \A U \in B : U \subseteq T => U = T
<1>1. B \subseteq FiniteSubsetsOf(S)
  BY FS_Subset DEF FiniteSubsetsOf
<1>2. IsWellFoundedOn(StrictSubsetOrdering(S), FiniteSubsetsOf(S))
  BY FS_StrictSubsetOrderingWellFounded
<1>3. PICK T \in B : \A U \in B : ~(<<U, T>> \in StrictSubsetOrdering(S))
  BY <1>1, <1>2, WFMin
<1>. QED
  BY <1>3 DEF StrictSubsetOrdering

--------------------------------------------------------------------------------
(* The recursion *)

Pick(s) == CHOOSE x \in s : TRUE

\* g holds the sums over all subsets of S, the elements taken as they are picked.
HoldsSums(g, f, S) ==
  g = [s \in SUBSET S |-> IF s = {} THEN 0 ELSE f[Pick(s)] + g[s \ {Pick(s)}]]

\* The definition of the sum, with its recursive function named.
LEMMA SumDefinition ==
  ASSUME NEW f, NEW S
  PROVE  SumFunctionOnSet(f, S) = (CHOOSE g : HoldsSums(g, f, S))[S]
BY DEF SumFunctionOnSet, FoldFunctionOnSet, MapThenFoldSet, HoldsSums, Pick

\* Two such functions agree where both are defined.
LEMMA SumsAgree ==
  ASSUME NEW f, NEW S, NEW T, T \subseteq S, IsFiniteSet(T),
         NEW g, HoldsSums(g, f, S), NEW h, HoldsSums(h, f, T)
  PROVE  g[T] = h[T]
<1>. DEFINE B == {u \in SUBSET T : g[u] # h[u]}
<1>1. SUFFICES ASSUME B # {} PROVE FALSE
  OBVIOUS
<1>2. PICK u \in B : \A v \in B : v \subseteq u => v = u
  <2>1. B \subseteq SUBSET T
    OBVIOUS
  <2>. HIDE DEF B
  <2>. QED
    BY <1>1, <2>1, SmallestSubset
<1>3. CASE u = {}
  BY <1>3, <1>2 DEF HoldsSums
<1>4. CASE u # {}
  <2>. DEFINE v == u \ {Pick(u)}
  <2>1. Pick(u) \in u
    BY <1>4 DEF Pick
  <2>2. v \in SUBSET T /\ v # u /\ v \subseteq u
    BY <2>1
  <2>3. g[v] = h[v]
    BY <2>2, <1>2
  <2>4. g[u] = f[Pick(u)] + g[v] /\ h[u] = f[Pick(u)] + h[v]
    BY <1>4 DEF HoldsSums
  <2>. QED
    BY <2>3, <2>4
<1>. QED
  BY <1>3, <1>4

\* Such a function exists.
LEMMA SumsExist ==
  ASSUME NEW f, NEW S, IsFiniteSet(S)
  PROVE  \E g : HoldsSums(g, f, S)
<1>. DEFINE B == {u \in SUBSET S : ~ \E g : HoldsSums(g, f, u)}
<1>1. SUFFICES ASSUME B # {} PROVE FALSE
  <2>1. S \notin B => \E g : HoldsSums(g, f, S)
    OBVIOUS
  <2>. QED
    BY <2>1
<1>2. PICK T \in B : \A v \in B : v \subseteq T => v = T
  <2>1. B \subseteq SUBSET S
    OBVIOUS
  <2>. HIDE DEF B
  <2>. QED
    BY <1>1, <2>1, SmallestSubset
<1>. DEFINE G(u) == CHOOSE g : HoldsSums(g, f, u)
            h == [s \in SUBSET T |-> IF s = {} THEN 0
                    ELSE f[Pick(s)] + G(s \ {Pick(s)})[s \ {Pick(s)}]]
<1>3. ASSUME NEW u \in SUBSET T, u # T PROVE HoldsSums(G(u), f, u)
  BY <1>2, <1>3
<1>4. ASSUME NEW s \in SUBSET T, s # {}
      PROVE  s \ {Pick(s)} \in SUBSET T /\ s \ {Pick(s)} # T /\ Pick(s) \in s
  BY <1>4 DEF Pick
<1>5. ASSUME NEW u \in SUBSET T, u # T PROVE G(u)[u] = h[u]
  <2>0. u \in SUBSET u /\ IsFiniteSet(u)
    BY FS_Subset
  <2>1. CASE u = {}
    <3>1. HoldsSums(G(u), f, u)
      BY <1>3, <1>5
    <3>2. G(u)[u] = 0
      <4>. HIDE DEF G
      <4>. QED
        BY <3>1, <2>0, <2>1 DEF HoldsSums
    <3>3. h[u] = 0
      BY <2>1
    <3>. QED
      BY <3>2, <3>3
  <2>2. CASE u # {}
    <3>. DEFINE v == u \ {Pick(u)}
    <3>1. v \subseteq u /\ v \in SUBSET T /\ v # T
      BY <2>2, <1>4
    <3>2. HoldsSums(G(u), f, u) /\ HoldsSums(G(v), f, v) /\ IsFiniteSet(v)
      BY <3>1, <1>3, <1>5, <2>0, FS_Subset
    <3>3. G(u)[v] = G(v)[v]
      <4>. HIDE DEF G, v
      <4>. QED
        BY <3>1, <3>2, SumsAgree
    <3>4. G(u)[u] = f[Pick(u)] + G(u)[v]
      <4>. HIDE DEF G
      <4>. QED
        BY <3>2, <2>0, <2>2 DEF HoldsSums
    <3>5. h[u] = f[Pick(u)] + G(v)[v]
      BY <2>2
    <3>. QED
      BY <3>3, <3>4, <3>5
  <2>. QED
    BY <2>1, <2>2
<1>6. HoldsSums(h, f, T)
  <2>1. ASSUME NEW s \in SUBSET T, s # {}
        PROVE  h[s] = f[Pick(s)] + h[s \ {Pick(s)}]
    <3>1. G(s \ {Pick(s)})[s \ {Pick(s)}] = h[s \ {Pick(s)}]
      BY <1>4, <1>5, <2>1
    <3>. QED
      BY <2>1, <3>1
  <2>2. h[{}] = 0
    OBVIOUS
  <2>3. h = [s \in SUBSET T |-> h[s]]
    OBVIOUS
  <2>. HIDE DEF h
  <2>. QED
    BY <2>1, <2>2, <2>3 DEF HoldsSums
<1>. QED
  BY <1>2, <1>6

--------------------------------------------------------------------------------
(* Facts about sums *)

\* One step of the recursion.
LEMMA SumStep ==
  ASSUME NEW f, NEW S, IsFiniteSet(S)
  PROVE  SumFunctionOnSet(f, S) =
           IF S = {} THEN 0
           ELSE f[Pick(S)] + SumFunctionOnSet(f, S \ {Pick(S)})
<1>. DEFINE G(u) == CHOOSE g : HoldsSums(g, f, u)
            v == S \ {Pick(S)}
<1>1. IsFiniteSet(v) /\ v \subseteq S /\ S \in SUBSET S
  BY FS_Subset
<1>2. HoldsSums(G(S), f, S) /\ HoldsSums(G(v), f, v)
  BY <1>1, SumsExist
<1>3. SumFunctionOnSet(f, S) = G(S)[S] /\ SumFunctionOnSet(f, v) = G(v)[v]
  BY SumDefinition
<1>. HIDE DEF G
<1>4. G(S)[v] = G(v)[v]
  <2>. HIDE DEF v
  <2>. QED
    BY <1>1, <1>2, SumsAgree
<1>5. G(S)[S] = IF S = {} THEN 0 ELSE f[Pick(S)] + G(S)[v]
  BY <1>1, <1>2 DEF HoldsSums
<1>. QED
  BY <1>3, <1>4, <1>5

\* The sum over no elements.
LEMMA SumEmpty == \A f : SumFunctionOnSet(f, {}) = 0
BY SumStep, FS_EmptySet

\* A sum of integers is an integer.
LEMMA SumInt ==
  ASSUME NEW f, NEW S, IsFiniteSet(S), \A x \in S : f[x] \in Int
  PROVE  SumFunctionOnSet(f, S) \in Int
<1>. DEFINE B == {u \in SUBSET S : SumFunctionOnSet(f, u) \notin Int}
<1>1. SUFFICES ASSUME B # {} PROVE FALSE
  OBVIOUS
<1>2. PICK u \in B : \A v \in B : v \subseteq u => v = u
  <2>1. B \subseteq SUBSET S
    OBVIOUS
  <2>. HIDE DEF B
  <2>. QED
    BY <1>1, <2>1, SmallestSubset
<1>3. CASE u = {}
  BY <1>2, <1>3, SumEmpty
<1>4. CASE u # {}
  <2>. DEFINE v == u \ {Pick(u)}
  <2>1. Pick(u) \in u
    BY <1>4 DEF Pick
  <2>2. v \in SUBSET S /\ v # u /\ v \subseteq u /\ IsFiniteSet(u)
    BY <2>1, FS_Subset
  <2>3. SumFunctionOnSet(f, v) \in Int
    BY <2>2, <1>2
  <2>4. SumFunctionOnSet(f, u) = f[Pick(u)] + SumFunctionOnSet(f, v)
    BY <1>4, <2>2, SumStep
  <2>. QED
    BY <2>1, <2>3, <2>4
<1>. QED
  BY <1>3, <1>4

\* A sum depends only on the values over its set.
LEMMA SumSame ==
  ASSUME NEW f, NEW g, NEW S, IsFiniteSet(S), \A x \in S : f[x] = g[x]
  PROVE  SumFunctionOnSet(f, S) = SumFunctionOnSet(g, S)
<1>. DEFINE B == {u \in SUBSET S : SumFunctionOnSet(f, u) # SumFunctionOnSet(g, u)}
<1>1. SUFFICES ASSUME B # {} PROVE FALSE
  OBVIOUS
<1>2. PICK u \in B : \A v \in B : v \subseteq u => v = u
  <2>1. B \subseteq SUBSET S
    OBVIOUS
  <2>. HIDE DEF B
  <2>. QED
    BY <1>1, <2>1, SmallestSubset
<1>3. CASE u = {}
  BY <1>2, <1>3, SumEmpty
<1>4. CASE u # {}
  <2>. DEFINE v == u \ {Pick(u)}
  <2>1. Pick(u) \in u
    BY <1>4 DEF Pick
  <2>2. v \in SUBSET S /\ v # u /\ v \subseteq u /\ IsFiniteSet(u)
    BY <2>1, FS_Subset
  <2>3. SumFunctionOnSet(f, v) = SumFunctionOnSet(g, v)
    BY <2>2, <1>2
  <2>4. /\ SumFunctionOnSet(f, u) = f[Pick(u)] + SumFunctionOnSet(f, v)
        /\ SumFunctionOnSet(g, u) = g[Pick(u)] + SumFunctionOnSet(g, v)
    BY <1>4, <2>2, SumStep
  <2>5. f[Pick(u)] = g[Pick(u)]
    BY <2>1
  <2>. QED
    BY <2>3, <2>4, <2>5
<1>. QED
  BY <1>3, <1>4

\* Any element can be taken first.
LEMMA SumRemove ==
  ASSUME NEW f, NEW S, IsFiniteSet(S), \A y \in S : f[y] \in Int, NEW x \in S
  PROVE  SumFunctionOnSet(f, S) = f[x] + SumFunctionOnSet(f, S \ {x})
<1>. DEFINE Sum(u) == SumFunctionOnSet(f, u)
            B == {u \in SUBSET S : \E y \in u : Sum(u) # f[y] + Sum(u \ {y})}
<1>1. SUFFICES ASSUME B # {} PROVE FALSE
  <2>1. S \notin B => Sum(S) = f[x] + Sum(S \ {x})
    OBVIOUS
  <2>. QED
    BY <2>1
<1>2. PICK u \in B : \A v \in B : v \subseteq u => v = u
  <2>1. B \subseteq SUBSET S
    OBVIOUS
  <2>. HIDE DEF B
  <2>. QED
    BY <1>1, <2>1, SmallestSubset
<1>3. PICK y \in u : Sum(u) # f[y] + Sum(u \ {y})
  BY <1>2
<1>. DEFINE z == Pick(u)
<1>4. z \in u /\ u # {} /\ IsFiniteSet(u) /\ u \in SUBSET S
  BY <1>3, FS_Subset DEF Pick
<1>. HIDE DEF z
<1>5. Sum(u) = f[z] + Sum(u \ {z})
  BY <1>4, SumStep DEF z
<1>6. y # z
  BY <1>3, <1>5
<1>. DEFINE v == u \ {z}
            w == u \ {y}
            r == u \ {y, z}
<1>7. /\ v \notin B /\ w \notin B /\ y \in v /\ z \in w
      /\ v \in SUBSET S /\ w \in SUBSET S
  BY <1>2, <1>3, <1>4, <1>6
<1>8. Sum(v) = f[y] + Sum(v \ {y}) /\ Sum(w) = f[z] + Sum(w \ {z})
  BY <1>7
<1>9. v \ {y} = r /\ w \ {z} = r
  OBVIOUS
<1>10. Sum(r) \in Int /\ f[y] \in Int /\ f[z] \in Int
  <2>1. IsFiniteSet(r) /\ \A q \in r : f[q] \in Int
    BY <1>4, FS_Subset
  <2>. HIDE DEF r
  <2>. QED
    BY <2>1, <1>3, <1>4, SumInt
<1>11. Sum(u) = f[z] + (f[y] + Sum(r)) /\ Sum(w) = f[z] + Sum(r)
  BY <1>5, <1>8, <1>9
<1>12. Sum(u) = f[y] + Sum(w)
  <2>. HIDE DEF Sum, w, r
  <2>. QED
    BY <1>10, <1>11
<1>. QED
  BY <1>3, <1>12

\* One more element.
LEMMA SumAdd ==
  ASSUME NEW f, NEW S, IsFiniteSet(S), NEW x, x \notin S, f[x] \in Int,
         \A y \in S : f[y] \in Int
  PROVE  SumFunctionOnSet(f, S \union {x}) = SumFunctionOnSet(f, S) + f[x]
<1>. DEFINE T == S \union {x}
<1>1. IsFiniteSet(T) /\ x \in T /\ \A y \in T : f[y] \in Int
  BY FS_AddElement
<1>2. T \ {x} = S
  OBVIOUS
<1>. HIDE DEF T
<1>3. SumFunctionOnSet(f, T) = f[x] + SumFunctionOnSet(f, S)
  BY <1>1, <1>2, SumRemove
<1>4. SumFunctionOnSet(f, S) \in Int
  BY SumInt
<1>. QED
  BY <1>3, <1>4 DEF T

\* The sum over two sets that share nothing.
LEMMA SumUnion ==
  ASSUME NEW f, NEW S, IsFiniteSet(S), NEW T, IsFiniteSet(T), S \intersect T = {},
         \A x \in S \union T : f[x] \in Int
  PROVE  SumFunctionOnSet(f, S \union T) = SumFunctionOnSet(f, S) + SumFunctionOnSet(f, T)
<1>. DEFINE Sum(u) == SumFunctionOnSet(f, u)
            B == {u \in SUBSET T : Sum(S \union u) # Sum(S) + Sum(u)}
<1>1. SUFFICES ASSUME B # {} PROVE FALSE
  OBVIOUS
<1>2. PICK u \in B : \A v \in B : v \subseteq u => v = u
  <2>1. B \subseteq SUBSET T
    OBVIOUS
  <2>. HIDE DEF B
  <2>. QED
    BY <1>1, <2>1, SmallestSubset
<1>3. Sum(S) \in Int
  BY SumInt
<1>4. CASE u = {}
  <2>0. S \union u = S
    BY <1>4
  <2>1. Sum(S \union u) = Sum(S) /\ Sum(u) = 0
    BY <1>4, <2>0, SumEmpty
  <2>2. Sum(S \union u) # Sum(S) + Sum(u)
    BY <1>2
  <2>. HIDE DEF Sum
  <2>. QED
    BY <2>1, <2>2, <1>3
<1>5. CASE u # {}
  <2>1. PICK x : x \in u
    BY <1>5
  <2>. DEFINE v == u \ {x}
              w == S \union v
  <2>2. v \in SUBSET T /\ v # u /\ v \subseteq u /\ v \union {x} = u
    BY <2>1
  <2>3. Sum(w) = Sum(S) + Sum(v)
    BY <2>2, <1>2
  <2>4. /\ IsFiniteSet(v) /\ IsFiniteSet(w) /\ x \notin v /\ x \notin w
        /\ f[x] \in Int /\ (\A y \in v : f[y] \in Int) /\ \A y \in w : f[y] \in Int
        /\ w \union {x} = S \union u
    BY <2>1, <2>2, FS_Subset, FS_Union
  <2>. HIDE DEF v, w
  <2>5. Sum(u) = Sum(v) + f[x]
    BY <2>2, <2>4, SumAdd
  <2>6. Sum(S \union u) = Sum(w) + f[x]
    BY <2>4, SumAdd
  <2>7. Sum(v) \in Int
    BY <2>4, SumInt
  <2>8. Sum(S \union u) # Sum(S) + Sum(u) /\ f[x] \in Int
    BY <1>2, <2>4
  <2>. HIDE DEF Sum
  <2>. QED
    BY <2>3, <2>5, <2>6, <2>7, <2>8, <1>3
<1>. QED
  BY <1>4, <1>5

\* A sum of naturals is a natural.
LEMMA SumNat ==
  ASSUME NEW f, NEW S, IsFiniteSet(S), \A x \in S : f[x] \in Nat
  PROVE  SumFunctionOnSet(f, S) \in Nat
<1>. DEFINE B == {u \in SUBSET S : SumFunctionOnSet(f, u) \notin Nat}
<1>1. SUFFICES ASSUME B # {} PROVE FALSE
  OBVIOUS
<1>2. PICK u \in B : \A v \in B : v \subseteq u => v = u
  <2>1. B \subseteq SUBSET S
    OBVIOUS
  <2>. HIDE DEF B
  <2>. QED
    BY <1>1, <2>1, SmallestSubset
<1>3. CASE u = {}
  BY <1>2, <1>3, SumEmpty
<1>4. CASE u # {}
  <2>. DEFINE v == u \ {Pick(u)}
  <2>1. Pick(u) \in u
    BY <1>4 DEF Pick
  <2>2. v \in SUBSET S /\ v # u /\ v \subseteq u /\ IsFiniteSet(u)
    BY <2>1, FS_Subset
  <2>3. SumFunctionOnSet(f, v) \in Nat
    BY <2>2, <1>2
  <2>4. SumFunctionOnSet(f, u) = f[Pick(u)] + SumFunctionOnSet(f, v)
    BY <1>4, <2>2, SumStep
  <2>. QED
    BY <2>1, <2>3, <2>4
<1>. QED
  BY <1>3, <1>4

\* What is zero everywhere adds up to zero.
LEMMA SumZero ==
  ASSUME NEW f, NEW S, IsFiniteSet(S), \A x \in S : f[x] = 0
  PROVE  SumFunctionOnSet(f, S) = 0
<1>. DEFINE B == {u \in SUBSET S : SumFunctionOnSet(f, u) # 0}
<1>1. SUFFICES ASSUME B # {} PROVE FALSE
  OBVIOUS
<1>2. PICK u \in B : \A v \in B : v \subseteq u => v = u
  <2>1. B \subseteq SUBSET S
    OBVIOUS
  <2>. HIDE DEF B
  <2>. QED
    BY <1>1, <2>1, SmallestSubset
<1>3. CASE u = {}
  BY <1>2, <1>3, SumEmpty
<1>4. CASE u # {}
  <2>. DEFINE v == u \ {Pick(u)}
  <2>1. Pick(u) \in u
    BY <1>4 DEF Pick
  <2>2. v \in SUBSET S /\ v # u /\ v \subseteq u /\ IsFiniteSet(u)
    BY <2>1, FS_Subset
  <2>3. SumFunctionOnSet(f, v) = 0
    BY <2>2, <1>2
  <2>4. SumFunctionOnSet(f, u) = f[Pick(u)] + SumFunctionOnSet(f, v)
    BY <1>4, <2>2, SumStep
  <2>. QED
    BY <2>1, <2>3, <2>4, <1>2
<1>. QED
  BY <1>3, <1>4

\* Elements that add nothing can be left out.
LEMMA SumWithout ==
  ASSUME NEW f, NEW S, IsFiniteSet(S), \A x \in S : f[x] \in Int,
         NEW T \in SUBSET S, \A x \in S \ T : f[x] = 0
  PROVE  SumFunctionOnSet(f, S) = SumFunctionOnSet(f, T)
<1>. DEFINE R == S \ T
<1>1. IsFiniteSet(T) /\ IsFiniteSet(R) /\ T \intersect R = {} /\ T \union R = S
  BY FS_Subset
<1>2. \A x \in T \union R : f[x] \in Int
  BY <1>1
<1>3. SumFunctionOnSet(f, R) = 0
  BY <1>1, SumZero
<1>4. SumFunctionOnSet(f, T) \in Int
  BY <1>1, SumInt
<1>. HIDE DEF R
<1>5. SumFunctionOnSet(f, T \union R) = SumFunctionOnSet(f, T) + SumFunctionOnSet(f, R)
  BY <1>1, <1>2, SumUnion
<1>6. SumFunctionOnSet(f, T \union R) = SumFunctionOnSet(f, S)
  BY <1>1, Zenon
<1>. QED
  BY <1>3, <1>4, <1>5, <1>6

\* More elements add up to no less.
LEMMA SumMonotone ==
  ASSUME NEW f, NEW S, IsFiniteSet(S), \A x \in S : f[x] \in Nat, NEW T \in SUBSET S
  PROVE  SumFunctionOnSet(f, T) <= SumFunctionOnSet(f, S)
<1>. DEFINE R == S \ T
<1>1. IsFiniteSet(T) /\ IsFiniteSet(R) /\ T \intersect R = {} /\ T \union R = S
  BY FS_Subset
<1>2. \A x \in T \union R : f[x] \in Int
  BY <1>1
<1>3. SumFunctionOnSet(f, R) \in Nat /\ SumFunctionOnSet(f, T) \in Nat
  BY <1>1, SumNat
<1>. HIDE DEF R
<1>4. SumFunctionOnSet(f, T \union R) = SumFunctionOnSet(f, T) + SumFunctionOnSet(f, R)
  BY <1>1, <1>2, SumUnion
<1>5. SumFunctionOnSet(f, T \union R) = SumFunctionOnSet(f, S)
  BY <1>1, Zenon
<1>. QED
  BY <1>3, <1>4, <1>5

\* A bound of each term is a bound of the sum.
LEMMA SumBound ==
  ASSUME NEW f, NEW g, NEW h, NEW S, IsFiniteSet(S),
         \A x \in S : f[x] \in Int /\ g[x] \in Int /\ h[x] \in Int /\ f[x] <= g[x] + h[x]
  PROVE  SumFunctionOnSet(f, S) <= SumFunctionOnSet(g, S) + SumFunctionOnSet(h, S)
<1>. DEFINE F(u) == SumFunctionOnSet(f, u)
            G(u) == SumFunctionOnSet(g, u)
            H(u) == SumFunctionOnSet(h, u)
            B == {u \in SUBSET S : ~ (F(u) <= G(u) + H(u))}
<1>1. SUFFICES ASSUME B # {} PROVE FALSE
  OBVIOUS
<1>2. PICK u \in B : \A v \in B : v \subseteq u => v = u
  <2>1. B \subseteq SUBSET S
    OBVIOUS
  <2>. HIDE DEF B
  <2>. QED
    BY <1>1, <2>1, SmallestSubset
<1>3. CASE u = {}
  <2>1. F(u) = 0 /\ G(u) = 0 /\ H(u) = 0
    BY <1>3, SumEmpty
  <2>. HIDE DEF F, G, H
  <2>. QED
    BY <1>2, <2>1
<1>4. CASE u # {}
  <2>. DEFINE x == Pick(u)
              v == u \ {x}
  <2>1. x \in u
    BY <1>4 DEF Pick
  <2>2. v \in SUBSET S /\ v # u /\ v \subseteq u /\ IsFiniteSet(u) /\ IsFiniteSet(v)
    BY <2>1, FS_Subset
  <2>3. F(v) <= G(v) + H(v)
    BY <2>2, <1>2
  <2>4. F(u) = f[x] + F(v) /\ G(u) = g[x] + G(v) /\ H(u) = h[x] + H(v)
    BY <1>4, <2>2, SumStep
  <2>5. F(v) \in Int /\ G(v) \in Int /\ H(v) \in Int
    BY <2>2, SumInt
  <2>6. f[x] \in Int /\ g[x] \in Int /\ h[x] \in Int /\ f[x] <= g[x] + h[x]
    BY <2>1
  <2>7. ~ (F(u) <= G(u) + H(u))
    BY <1>2
  <2>. HIDE DEF F, G, H, x, v
  <2>. QED
    BY <2>3, <2>4, <2>5, <2>6, <2>7
<1>. QED
  BY <1>3, <1>4

\* Each element of K has a part of D of its own, over which g adds up to no less
\* than f has there.
HasParts(part, f, K, g, D) ==
  /\ \A k \in K : part[k] \subseteq D /\ f[k] <= SumFunctionOnSet(g, part[k])
  /\ \A k, l \in K : k # l => part[k] \intersect part[l] = {}

\* Then f adds up to no more than g.
LEMMA SumOfParts ==
  ASSUME NEW K, IsFiniteSet(K), NEW D, IsFiniteSet(D), NEW f, NEW g, NEW part,
         \A k \in K : f[k] \in Int, \A x \in D : g[x] \in Nat,
         HasParts(part, f, K, g, D)
  PROVE  SumFunctionOnSet(f, K) <= SumFunctionOnSet(g, D)
<1>. DEFINE Joined(u) == UNION {part[k] : k \in u}
            F(u) == SumFunctionOnSet(f, u)
            G(u) == SumFunctionOnSet(g, u)
            B == {u \in SUBSET K : ~ (F(u) <= G(Joined(u)))}
<1>1. \A u \in SUBSET K : Joined(u) \subseteq D
  BY DEF HasParts
<1>2. B = {}
  <2>1. SUFFICES ASSUME B # {} PROVE FALSE
    OBVIOUS
  <2>2. PICK u \in B : \A v \in B : v \subseteq u => v = u
    <3>1. B \subseteq SUBSET K
      OBVIOUS
    <3>. HIDE DEF B
    <3>. QED
      BY <2>1, <3>1, SmallestSubset
  <2>3. u \in SUBSET K /\ ~ (F(u) <= G(Joined(u)))
    BY <2>2
  <2>4. CASE u = {}
    <3>1. Joined(u) = {}
      BY <2>4
    <3>2. F(u) = 0 /\ G(Joined(u)) = 0
      BY <2>4, <3>1, SumEmpty
    <3>. HIDE DEF F, G, Joined
    <3>. QED
      BY <2>3, <3>2
  <2>5. CASE u # {}
    <3>. DEFINE x == Pick(u)
                v == u \ {x}
    <3>1. x \in u /\ x \in K
      BY <2>3, <2>5 DEF Pick
    <3>2. v \in SUBSET K /\ v # u /\ v \subseteq u /\ IsFiniteSet(u) /\ IsFiniteSet(v)
      BY <2>3, <3>1, FS_Subset
    <3>3. F(v) <= G(Joined(v))
      BY <3>2, <2>2
    <3>4. F(u) = f[x] + F(v)
      BY <2>5, <3>2, SumStep
    <3>5. /\ part[x] \subseteq D /\ Joined(v) \subseteq D
          /\ f[x] \in Int /\ f[x] <= G(part[x])
      BY <1>1, <3>1, <3>2 DEF HasParts
    <3>6. part[x] \intersect Joined(v) = {} /\ part[x] \union Joined(v) = Joined(u)
      <4>1. \A k \in v : k \in K /\ k # x
        BY <3>2
      <4>2. \A k \in v : part[x] \intersect part[k] = {}
        BY <3>1, <4>1 DEF HasParts
      <4>3. u = v \union {x}
        BY <3>1
      <4>. HIDE DEF x, v
      <4>. QED
        BY <4>2, <4>3
    <3>. HIDE DEF Joined, x, v
    <3>7. IsFiniteSet(part[x]) /\ IsFiniteSet(Joined(v))
      BY <3>5, FS_Subset
    <3>8. \A y \in part[x] \union Joined(v) : g[y] \in Int
      BY <3>5
    <3>9. G(part[x] \union Joined(v)) = G(part[x]) + G(Joined(v))
      BY <3>6, <3>7, <3>8, SumUnion
    <3>10. G(part[x]) \in Int /\ G(Joined(v)) \in Int /\ F(v) \in Int
      <4>1. \A y \in v : f[y] \in Int
        BY <3>2
      <4>. QED
        BY <3>2, <3>7, <3>8, <4>1, SumInt
    <3>11. G(Joined(u)) = G(part[x] \union Joined(v))
      BY <3>6, Zenon
    <3>. HIDE DEF F, G
    <3>. QED
      BY <2>3, <3>3, <3>4, <3>5, <3>9, <3>10, <3>11
  <2>. QED
    BY <2>4, <2>5
<1>3. F(K) <= G(Joined(K))
  BY <1>2
<1>4. Joined(K) \in SUBSET D
  BY <1>1
<1>. HIDE DEF Joined
<1>5. G(Joined(K)) <= G(D)
  BY <1>4, SumMonotone
<1>6. G(Joined(K)) \in Int /\ G(D) \in Int /\ F(K) \in Int
  <2>1. IsFiniteSet(Joined(K)) /\ \A y \in Joined(K) : g[y] \in Int
    BY <1>4, FS_Subset
  <2>. QED
    BY <2>1, SumInt
<1>. HIDE DEF F, G
<1>7. F(K) <= G(D)
  BY <1>3, <1>5, <1>6
<1>. QED
  BY <1>7 DEF F, G

\* A sum of differences is the difference of the sums.
LEMMA SumMinus ==
  ASSUME NEW f, NEW g, NEW h, NEW S, IsFiniteSet(S),
         \A x \in S : f[x] \in Int /\ g[x] \in Int /\ h[x] \in Int /\ f[x] = g[x] - h[x]
  PROVE  SumFunctionOnSet(f, S) = SumFunctionOnSet(g, S) - SumFunctionOnSet(h, S)
<1>. DEFINE F(u) == SumFunctionOnSet(f, u)
            G(u) == SumFunctionOnSet(g, u)
            H(u) == SumFunctionOnSet(h, u)
            B == {u \in SUBSET S : F(u) # G(u) - H(u)}
<1>1. SUFFICES ASSUME B # {} PROVE FALSE
  OBVIOUS
<1>2. PICK u \in B : \A v \in B : v \subseteq u => v = u
  <2>1. B \subseteq SUBSET S
    OBVIOUS
  <2>. HIDE DEF B
  <2>. QED
    BY <1>1, <2>1, SmallestSubset
<1>3. CASE u = {}
  <2>1. F(u) = 0 /\ G(u) = 0 /\ H(u) = 0
    BY <1>3, SumEmpty
  <2>. HIDE DEF F, G, H
  <2>. QED
    BY <1>2, <2>1
<1>4. CASE u # {}
  <2>. DEFINE x == Pick(u)
              v == u \ {x}
  <2>1. x \in u
    BY <1>4 DEF Pick
  <2>2. v \in SUBSET S /\ v # u /\ v \subseteq u /\ IsFiniteSet(u) /\ IsFiniteSet(v)
    BY <2>1, FS_Subset
  <2>3. F(v) = G(v) - H(v)
    BY <2>2, <1>2
  <2>4. F(u) = f[x] + F(v) /\ G(u) = g[x] + G(v) /\ H(u) = h[x] + H(v)
    BY <1>4, <2>2, SumStep
  <2>5. F(v) \in Int /\ G(v) \in Int /\ H(v) \in Int
    BY <2>2, SumInt
  <2>6. f[x] \in Int /\ g[x] \in Int /\ h[x] \in Int /\ f[x] = g[x] - h[x]
    BY <2>1
  <2>7. F(u) # G(u) - H(u)
    BY <1>2
  <2>. HIDE DEF F, G, H, x, v
  <2>. QED
    BY <2>3, <2>4, <2>5, <2>6, <2>7
<1>. QED
  BY <1>3, <1>4

\* A sum of smaller numbers is smaller.
LEMMA SumLess ==
  ASSUME NEW f, NEW g, NEW S, IsFiniteSet(S),
         \A x \in S : f[x] \in Int /\ g[x] \in Int /\ f[x] <= g[x]
  PROVE  SumFunctionOnSet(f, S) <= SumFunctionOnSet(g, S)
<1>. DEFINE h == [x \in S |-> 0]
<1>1. \A x \in S : h[x] = 0
  OBVIOUS
<1>. HIDE DEF h
<1>2. \A x \in S : f[x] \in Int /\ g[x] \in Int /\ h[x] \in Int /\ f[x] <= g[x] + h[x]
  BY <1>1
<1>3. SumFunctionOnSet(f, S) <= SumFunctionOnSet(g, S) + SumFunctionOnSet(h, S)
  BY <1>2, SumBound
<1>4. SumFunctionOnSet(h, S) = 0
  BY <1>1, SumZero
<1>5. SumFunctionOnSet(g, S) \in Int
  BY SumInt
<1>. QED
  BY <1>3, <1>4, <1>5

\* The sum of one number.
LEMMA SumSingle ==
  ASSUME NEW f, NEW x, f[x] \in Int
  PROVE  SumFunctionOnSet(f, {x}) = f[x]
<1>1. IsFiniteSet({x}) /\ {x} # {}
  BY FS_Singleton
<1>2. Pick({x}) = x
  BY DEF Pick
<1>3. {x} \ {x} = {}
  OBVIOUS
<1>4. SumFunctionOnSet(f, {x}) = f[x] + SumFunctionOnSet(f, {})
  BY <1>1, <1>2, <1>3, SumStep
<1>. QED
  BY <1>4, SumEmpty

\* The parts of the elements of K share nothing and make up D, and f has at each
\* element what g adds up to over its part.
IsSplit(part, f, K, g, D) ==
  /\ \A k \in K : part[k] \subseteq D /\ f[k] = SumFunctionOnSet(g, part[k])
  /\ \A k, l \in K : k # l => part[k] \intersect part[l] = {}
  /\ \A x \in D : \E k \in K : x \in part[k]

\* Then f adds up to what g does.
LEMMA SumOfSplit ==
  ASSUME NEW K, IsFiniteSet(K), NEW D, IsFiniteSet(D), NEW f, NEW g, NEW part,
         \A x \in D : g[x] \in Int, IsSplit(part, f, K, g, D)
  PROVE  SumFunctionOnSet(f, K) = SumFunctionOnSet(g, D)
<1>. DEFINE Joined(u) == UNION {part[k] : k \in u}
            F(u) == SumFunctionOnSet(f, u)
            G(u) == SumFunctionOnSet(g, u)
            B == {u \in SUBSET K : F(u) # G(Joined(u))}
<1>1. \A u \in SUBSET K : Joined(u) \subseteq D
  BY DEF IsSplit
<1>2. B = {}
  <2>1. SUFFICES ASSUME B # {} PROVE FALSE
    OBVIOUS
  <2>2. PICK u \in B : \A v \in B : v \subseteq u => v = u
    <3>1. B \subseteq SUBSET K
      OBVIOUS
    <3>. HIDE DEF B
    <3>. QED
      BY <2>1, <3>1, SmallestSubset
  <2>3. u \in SUBSET K /\ F(u) # G(Joined(u))
    BY <2>2
  <2>4. CASE u = {}
    <3>1. Joined(u) = {}
      BY <2>4
    <3>2. F(u) = 0 /\ G(Joined(u)) = 0
      BY <2>4, <3>1, SumEmpty
    <3>. HIDE DEF F, G, Joined
    <3>. QED
      BY <2>3, <3>2
  <2>5. CASE u # {}
    <3>. DEFINE x == Pick(u)
                v == u \ {x}
    <3>1. x \in u /\ x \in K
      BY <2>3, <2>5 DEF Pick
    <3>2. v \in SUBSET K /\ v # u /\ v \subseteq u /\ IsFiniteSet(u) /\ IsFiniteSet(v)
      BY <2>3, <3>1, FS_Subset
    <3>3. F(v) = G(Joined(v))
      BY <3>2, <2>2
    <3>4. F(u) = f[x] + F(v)
      BY <2>5, <3>2, SumStep
    <3>5. part[x] \subseteq D /\ Joined(v) \subseteq D /\ f[x] = G(part[x])
      BY <1>1, <3>1, <3>2 DEF IsSplit
    <3>6. part[x] \intersect Joined(v) = {} /\ part[x] \union Joined(v) = Joined(u)
      <4>1. \A k \in v : k \in K /\ k # x
        BY <3>2
      <4>2. \A k \in v : part[x] \intersect part[k] = {}
        BY <3>1, <4>1 DEF IsSplit
      <4>3. u = v \union {x}
        BY <3>1
      <4>. HIDE DEF x, v
      <4>. QED
        BY <4>2, <4>3
    <3>. HIDE DEF Joined, x, v
    <3>7. IsFiniteSet(part[x]) /\ IsFiniteSet(Joined(v))
      BY <3>5, FS_Subset
    <3>8. \A y \in part[x] \union Joined(v) : g[y] \in Int
      BY <3>5
    <3>9. G(part[x] \union Joined(v)) = G(part[x]) + G(Joined(v))
      BY <3>6, <3>7, <3>8, SumUnion
    <3>10. G(Joined(u)) = G(part[x] \union Joined(v))
      BY <3>6, Zenon
    <3>. HIDE DEF F, G
    <3>. QED
      BY <2>3, <3>3, <3>4, <3>5, <3>9, <3>10
  <2>. QED
    BY <2>4, <2>5
<1>3. F(K) = G(Joined(K))
  BY <1>2
<1>4. Joined(K) = D
  <2>1. Joined(K) \subseteq D
    BY <1>1
  <2>2. \A x \in D : x \in Joined(K)
    BY DEF IsSplit
  <2>. HIDE DEF Joined
  <2>. QED
    BY <2>1, <2>2
<1>. HIDE DEF Joined
<1>. QED
  BY <1>3, <1>4, Zenon

--------------------------------------------------------------------------------
(* Numbers and sorted lists *)

\* A property of some number is one of a smallest number.
LEMMA LeastNumber ==
  ASSUME NEW T, T \subseteq Nat, T # {}
  PROVE  \E x \in T : \A y \in T : x <= y
<1>. DEFINE less == {ss \in Nat \X Nat : ss[1] < ss[2]}
<1>1. IsWellFoundedOn(less, Nat)
  BY NatLessThanWellFounded, Zenon DEF OpToRel
<1>2. PICK x \in T : \A y \in T : ~(<<y, x>> \in less)
  <2>. HIDE DEF less
  <2>. QED
    BY <1>1, WFMin
<1>3. ASSUME NEW y \in T PROVE x <= y
  <2>1. ~(<<y, x>> \in less)
    BY <1>2
  <2>. QED
    BY <2>1
<1>. QED
  BY <1>3

\* A strict total order of a set.
IsOrder(before, S) ==
  /\ \A s \in S : <<s, s>> \notin before
  /\ \A s, t, u \in S : <<s, t>> \in before /\ <<t, u>> \in before => <<s, u>> \in before
  /\ \A s, t \in S : s # t => <<s, t>> \in before \/ <<t, s>> \in before

\* The sorted list of a finite set holds its elements, no more and no less, and
\* in their order.
LEMMA SortedIs ==
  ASSUME NEW S, IsFiniteSet(S), NEW before, IsOrder(before, S),
         NEW sorted, sorted = SortedBy(S, before)
  PROVE  /\ sorted \in Seq(S) /\ Range(sorted) = S
         /\ \A i, j \in 1 .. Len(sorted) : i < j => <<sorted[i], sorted[j]>> \in before
<1>. DEFINE N == Cardinality(S)
            prior(s) == {t \in S : <<t, s>> \in before}
            rank == [s \in S |-> Cardinality(prior(s))]
            nth(n) == CHOOSE s \in S : Cardinality(prior(s)) = n - 1
            list == [n \in 1 .. N |-> nth(n)]
<1>1. N \in Nat
  BY FS_CardinalityType
<1>2. \A s \in S : IsFiniteSet(prior(s)) /\ Cardinality(prior(s)) \in Nat
  BY FS_Subset, FS_CardinalityType
<1>3. ASSUME NEW s \in S PROVE Cardinality(prior(s)) \in 0 .. N - 1
  <2>1. prior(s) \in SUBSET (S \ {s})
    BY DEF IsOrder
  <2>2. IsFiniteSet(S \ {s}) /\ Cardinality(S \ {s}) = N - 1
    BY FS_RemoveElement
  <2>3. Cardinality(prior(s)) <= N - 1
    <3>. HIDE DEF prior
    <3>. QED
      BY <2>1, <2>2, FS_Subset
  <2>. QED
    BY <1>1, <1>2, <2>3
<1>4. ASSUME NEW s \in S, NEW t \in S, <<s, t>> \in before
      PROVE  Cardinality(prior(s)) < Cardinality(prior(t))
  <2>1. prior(s) \in SUBSET prior(t) /\ s \in prior(t) /\ s \notin prior(s)
    BY <1>4 DEF IsOrder
  <2>2. prior(s) # prior(t)
    BY <2>1
  <2>. HIDE DEF prior
  <2>. QED
    BY <1>2, <2>1, <2>2, FS_Subset
<1>5. \A s, t \in S : Cardinality(prior(s)) = Cardinality(prior(t)) => s = t
  <2>. SUFFICES ASSUME NEW s \in S, NEW t \in S, s # t
                PROVE  Cardinality(prior(s)) # Cardinality(prior(t))
    OBVIOUS
  <2>1. <<s, t>> \in before \/ <<t, s>> \in before
    BY DEF IsOrder
  <2>. HIDE DEF prior
  <2>. QED
    BY <1>2, <1>4, <2>1
<1>6. rank \in Injection(S, 0 .. N - 1)
  <2>. HIDE DEF prior
  <2>. QED
    BY <1>3, <1>5 DEF Injection, IsInjective
<1>7. IsFiniteSet(0 .. N - 1) /\ Cardinality(0 .. N - 1) = N
  <2>1. 0 \in Int /\ N - 1 \in Int /\ (0 > N - 1 => N = 0) /\ (N - 1) - 0 + 1 = N
    BY <1>1
  <2>. HIDE DEF N
  <2>. QED
    BY <2>1, FS_Interval
<1>8. rank \in Surjection(S, 0 .. N - 1)
  <2>. HIDE DEF rank
  <2>. QED
    BY <1>6, <1>7, FS_Injection
<1>9. \A n \in 1 .. N : \E s \in S : Cardinality(prior(s)) = n - 1
  <2>. TAKE n \in 1 .. N
  <2>1. n - 1 \in 0 .. N - 1
    BY <1>1
  <2>2. PICK s \in S : rank[s] = n - 1
    <3>. HIDE DEF rank
    <3>. QED
      BY <1>8, <2>1 DEF Surjection
  <2>. QED
    BY <2>2
<1>10. sorted = list
  BY DEF SortedBy
<1>11. \A n \in 1 .. N : list[n] \in S /\ Cardinality(prior(list[n])) = n - 1
  <2>1. \A n \in 1 .. N : nth(n) \in S /\ Cardinality(prior(nth(n))) = n - 1
    <3>. HIDE DEF prior
    <3>. QED
      BY <1>9
  <2>. HIDE DEF prior, nth
  <2>. QED
    BY <2>1
<1>12. list \in [1 .. N -> S]
  <2>1. \A n \in 1 .. N : list[n] \in S
    BY <1>11
  <2>. HIDE DEF nth
  <2>. QED
    BY <2>1
<1>13. list \in Seq(S)
  <2>. HIDE DEF list
  <2>. QED
    BY <1>1, <1>12
<1>14. \A s \in S : \E n \in 1 .. N : list[n] = s
  <2>. TAKE s \in S
  <2>1. PICK n \in 1 .. N : Cardinality(prior(s)) = n - 1
    <3>1. PICK c \in 0 .. N - 1 : c = Cardinality(prior(s))
      BY <1>3
    <3>2. c + 1 \in 1 .. N /\ c = (c + 1) - 1
      BY <1>1
    <3>. HIDE DEF prior
    <3>. QED
      BY <3>1, <3>2
  <2>2. list[n] \in S /\ Cardinality(prior(list[n])) = n - 1
    BY <1>11
  <2>. HIDE DEF list, prior
  <2>. QED
    BY <1>5, <2>1, <2>2
<1>15. Range(list) = S
  <2>. HIDE DEF list
  <2>. QED
    BY <1>12, <1>14 DEF Range
<1>16. Len(list) = N
  <2>. HIDE DEF list
  <2>. QED
    BY <1>1, <1>12, <1>13, LenProperties
<1>17. ASSUME NEW i \in 1 .. N, NEW j \in 1 .. N, i < j
       PROVE  <<list[i], list[j]>> \in before
  <2>1. /\ list[i] \in S /\ Cardinality(prior(list[i])) = i - 1
        /\ list[j] \in S /\ Cardinality(prior(list[j])) = j - 1
    BY <1>11
  <2>. HIDE DEF list, prior
  <2>2. list[i] # list[j]
    BY <1>17, <2>1, <1>1
  <2>3. CASE <<list[j], list[i]>> \in before
    <3>1. j - 1 < i - 1
      BY <1>4, <2>1, <2>3
    <3>. QED
      BY <1>17, <3>1, <1>1
  <2>. QED
    BY <2>1, <2>2, <2>3 DEF IsOrder
<1>. QED
  BY <1>10, <1>13, <1>15, <1>16, <1>17

--------------------------------------------------------------------------------
(* Paths *)

\* A prefix and an ancestor, element by element.
LEMMA PrefixIs ==
  ASSUME NEW p \in Seq(Nat), NEW q \in Seq(Nat)
  PROVE  MatchesPathPrefix(p, q) <=>
           Len(q) <= Len(p) /\ \A i \in 1 .. Len(q) : q[i] = p[i]
<1>1. Len(p) \in Nat /\ Len(q) \in Nat
  BY LenProperties
<1>2. CASE Len(q) <= Len(p)
  <2>1. /\ SubSeq(q, 1, Len(q)) = [i \in 1 .. Len(q) |-> q[i]]
        /\ SubSeq(p, 1, Len(q)) = [i \in 1 .. Len(q) |-> p[i]]
    BY <1>1, <1>2, SubSeqProperties
  <2>. QED
    BY <1>1, <1>2, <2>1 DEF MatchesPathPrefix, IsPrefix
<1>. QED
  BY <1>1, <1>2 DEF MatchesPathPrefix, IsPrefix

\* An ancestor is a shorter prefix.
LEMMA AncestorIs ==
  ASSUME NEW p \in Seq(Nat), NEW q
  PROVE  q \in Ancestors(p) <=>
           /\ q \in Seq(Nat) /\ Len(q) < Len(p)
           /\ \A i \in 1 .. Len(q) : q[i] = p[i]
<1>1. Len(p) \in Nat
  BY LenProperties
<1>2. ASSUME NEW n \in 0 .. Len(p) - 1
      PROVE  /\ SubSeq(p, 1, n) \in Seq(Nat) /\ Len(SubSeq(p, 1, n)) = n
             /\ \A i \in 1 .. n : SubSeq(p, 1, n)[i] = p[i]
  BY <1>1, <1>2, SubSeqProperties
<1>3. ASSUME q \in Ancestors(p)
      PROVE  q \in Seq(Nat) /\ Len(q) < Len(p) /\ \A i \in 1 .. Len(q) : q[i] = p[i]
  <2>1. PICK n \in 0 .. Len(p) - 1 : q = SubSeq(p, 1, n)
    BY <1>3 DEF Ancestors
  <2>. QED
    BY <1>1, <1>2, <2>1
<1>4. ASSUME q \in Seq(Nat), Len(q) < Len(p), \A i \in 1 .. Len(q) : q[i] = p[i]
      PROVE  q \in Ancestors(p)
  <2>1. Len(q) \in 0 .. Len(p) - 1
    BY <1>1, <1>4, LenProperties
  <2>2. q = SubSeq(p, 1, Len(q))
    BY <1>2, <1>4, <2>1, SeqEqual
  <2>. QED
    BY <2>1, <2>2 DEF Ancestors
<1>. QED
  BY <1>3, <1>4

\* What is above a directory above another one is above that, too.
LEMMA AncestorTrans ==
  ASSUME NEW p \in Seq(Nat), NEW q \in Ancestors(p), NEW r \in Ancestors(q)
  PROVE  r \in Ancestors(p) /\ q \notin Ancestors(q)
<1>1. q \in Seq(Nat) /\ Len(q) < Len(p) /\ \A i \in 1 .. Len(q) : q[i] = p[i]
  BY AncestorIs
<1>2. r \in Seq(Nat) /\ Len(r) < Len(q) /\ \A i \in 1 .. Len(r) : r[i] = q[i]
  BY <1>1, AncestorIs
<1>3. Len(p) \in Nat /\ Len(q) \in Nat /\ Len(r) \in Nat
  BY <1>1, <1>2, LenProperties
<1>4. Len(r) < Len(p) /\ \A i \in 1 .. Len(r) : r[i] = p[i]
  BY <1>1, <1>2, <1>3
<1>5. r \in Ancestors(p)
  BY <1>2, <1>4, AncestorIs
<1>6. q \notin Ancestors(q)
  BY <1>1, <1>3, AncestorIs
<1>. QED
  BY <1>5, <1>6

\* A path at or below another one is that one, or has it among its ancestors.
LEMMA BelowIs ==
  ASSUME NEW p \in Seq(Nat), NEW q \in Seq(Nat)
  PROVE  MatchesPathPrefix(p, q) <=> p = q \/ q \in Ancestors(p)
<1>1. Len(p) \in Nat /\ Len(q) \in Nat
  BY LenProperties
<1>2. MatchesPathPrefix(p, q) <=> Len(q) <= Len(p) /\ \A i \in 1 .. Len(q) : q[i] = p[i]
  BY PrefixIs
<1>3. q \in Ancestors(p) <=> Len(q) < Len(p) /\ \A i \in 1 .. Len(q) : q[i] = p[i]
  BY AncestorIs
<1>4. Len(q) = Len(p) /\ (\A i \in 1 .. Len(q) : q[i] = p[i]) => p = q
  BY SeqEqual
<1>. QED
  BY <1>1, <1>2, <1>3, <1>4

\* Two directories above a third are one at or below the other.
LEMMA AncestorsCompare ==
  ASSUME NEW p \in Seq(Nat), NEW q, q = p \/ q \in Ancestors(p), NEW r, r \in Ancestors(p)
  PROVE  MatchesPathPrefix(q, r) \/ MatchesPathPrefix(r, q)
<1>1. /\ q \in Seq(Nat) /\ Len(q) <= Len(p) /\ \A i \in 1 .. Len(q) : q[i] = p[i]
      /\ r \in Seq(Nat) /\ Len(r) < Len(p) /\ \A i \in 1 .. Len(r) : r[i] = p[i]
  BY AncestorIs, LenProperties
<1>2. Len(p) \in Nat /\ Len(q) \in Nat /\ Len(r) \in Nat
  BY <1>1, LenProperties
<1>3. CASE Len(q) <= Len(r)
  <2>1. \A i \in 1 .. Len(q) : q[i] = r[i]
    BY <1>1, <1>2, <1>3
  <2>. QED
    BY <1>1, <1>3, <2>1, PrefixIs
<1>4. CASE Len(r) <= Len(q)
  <2>1. \A i \in 1 .. Len(r) : r[i] = q[i]
    BY <1>1, <1>2, <1>4
  <2>. QED
    BY <1>1, <1>4, <2>1, PrefixIs
<1>. QED
  BY <1>2, <1>3, <1>4

\* A path below another one is that one and the rest.
LEMMA SuffixIs ==
  ASSUME NEW path \in Seq(Nat), NEW p \in Seq(Nat), MatchesPathPrefix(p, path),
         NEW s, s = SubSeq(p, Len(path) + 1, Len(p))
  PROVE  s \in Seq(Nat) /\ path \o s = p
<1>1. /\ Len(path) \in Nat /\ Len(p) \in Nat /\ Len(path) <= Len(p)
      /\ \A i \in 1 .. Len(path) : path[i] = p[i]
  BY PrefixIs, LenProperties
<1>2. \A i \in Len(path) + 1 .. Len(p) : p[i] \in Nat
  BY <1>1, ElementOfSeq
<1>3. /\ s \in Seq(Nat)
      /\ Len(s) = IF Len(path) + 1 <= Len(p) THEN Len(p) - (Len(path) + 1) + 1 ELSE 0
      /\ \A i \in 1 .. Len(p) - (Len(path) + 1) + 1 : s[i] = p[Len(path) + 1 + i - 1]
  BY <1>1, <1>2, SubSeqProperties
<1>4. Len(s) = Len(p) - Len(path)
  BY <1>1, <1>3
<1>5. /\ path \o s \in Seq(Nat) /\ Len(path \o s) = Len(path) + Len(s)
      /\ \A i \in 1 .. Len(path) + Len(s) :
           (path \o s)[i] = IF i <= Len(path) THEN path[i] ELSE s[i - Len(path)]
  BY <1>3, ConcatProperties
<1>6. Len(path \o s) = Len(p)
  BY <1>1, <1>4, <1>5
<1>7. ASSUME NEW i \in 1 .. Len(p) PROVE (path \o s)[i] = p[i]
  <2>1. CASE i <= Len(path)
    <3>1. i \in 1 .. Len(path) + Len(s) /\ i \in 1 .. Len(path)
      BY <1>1, <1>4, <2>1
    <3>2. (path \o s)[i] = path[i]
      BY <1>5, <2>1, <3>1
    <3>. QED
      BY <1>1, <3>1, <3>2
  <2>2. CASE ~ (i <= Len(path))
    <3>1. i - Len(path) \in 1 .. Len(p) - (Len(path) + 1) + 1
      BY <1>1, <2>2
    <3>2. s[i - Len(path)] = p[Len(path) + 1 + (i - Len(path)) - 1]
      BY <1>3, <3>1
    <3>3. Len(path) + 1 + (i - Len(path)) - 1 = i
      BY <1>1
    <3>. QED
      BY <1>1, <1>4, <1>5, <2>2, <3>2, <3>3
  <2>. QED
    BY <2>1, <2>2
<1>8. path \o s = p
  BY <1>5, <1>6, <1>7, SeqEqual
<1>. QED
  BY <1>3, <1>8

\* A path followed by another one is at or below it.
LEMMA PrefixOfConcat ==
  ASSUME NEW path \in Seq(Nat), NEW s \in Seq(Nat)
  PROVE  /\ path \o s \in Seq(Nat) /\ MatchesPathPrefix(path \o s, path)
         /\ SubSeq(path \o s, Len(path) + 1, Len(path \o s)) = s
<1>1. /\ path \o s \in Seq(Nat) /\ Len(path \o s) = Len(path) + Len(s)
      /\ \A i \in 1 .. Len(path) + Len(s) :
           (path \o s)[i] = IF i <= Len(path) THEN path[i] ELSE s[i - Len(path)]
  BY ConcatProperties
<1>2. Len(path) \in Nat /\ Len(s) \in Nat
  BY LenProperties
<1>3. MatchesPathPrefix(path \o s, path)
  <2>1. Len(path) <= Len(path \o s)
    BY <1>1, <1>2
  <2>2. \A i \in 1 .. Len(path) : path[i] = (path \o s)[i]
    BY <1>1, <1>2
  <2>. QED
    BY <1>1, <2>1, <2>2, PrefixIs
<1>4. PICK t : t = SubSeq(path \o s, Len(path) + 1, Len(path \o s))
  OBVIOUS
<1>5. t \in Seq(Nat) /\ path \o t = path \o s
  BY <1>1, <1>3, <1>4, SuffixIs
<1>6. t = s
  <2>1. path \in Seq(Nat) /\ t \in Seq(Nat) /\ s \in Seq(Nat)
    BY <1>5
  <2>. QED
    BY <1>5, <2>1, ConcatSimplifications
<1>. QED
  BY <1>1, <1>3, <1>4, <1>6

\* The first n components of a path.
LEMMA FirstComponents ==
  ASSUME NEW s, NEW n \in Nat, \A i \in 1 .. n : s[i] \in Nat
  PROVE  /\ SubSeq(s, 1, n) \in Seq(Nat) /\ Len(SubSeq(s, 1, n)) = n
         /\ \A i \in 1 .. n : SubSeq(s, 1, n)[i] = s[i]
BY SubSeqProperties

\* What is above a child of p is p and what is above p.
LEMMA ChildAncestors ==
  ASSUME NEW p \in Seq(Nat), NEW c \in Seq(Nat), p \in Ancestors(c), Parent(c) = p
  PROVE  Ancestors(c) = {p} \union Ancestors(p) /\ Len(c) = Len(p) + 1
<1>1. Len(c) \in Nat /\ Len(p) \in Nat /\ \A i \in 1 .. Len(c) : c[i] \in Nat
  BY LenProperties, ElementOfSeq
<1>2. Len(p) < Len(c)
  BY AncestorIs
<1>3. /\ Len(SubSeq(c, 1, Len(c) - 1)) = Len(c) - 1
      /\ \A i \in 1 .. Len(c) - 1 : SubSeq(c, 1, Len(c) - 1)[i] = c[i]
  <2>1. \A i \in 1 .. Len(c) - 1 : c[i] \in Nat
    BY <1>1
  <2>2. Len(c) - 1 \in Nat
    BY <1>1, <1>2
  <2>. QED
    BY <2>1, <2>2, FirstComponents
<1>4. Len(p) = Len(c) - 1 /\ \A i \in 1 .. Len(p) : p[i] = c[i]
  BY <1>3 DEF Parent
<1>5. ASSUME NEW q \in Ancestors(c) PROVE q = p \/ q \in Ancestors(p)
  <2>1. q \in Seq(Nat) /\ Len(q) < Len(c) /\ Len(q) \in Nat /\ \A i \in 1 .. Len(q) : q[i] = c[i]
    BY AncestorIs, LenProperties
  <2>2. \A i \in 1 .. Len(q) : q[i] = p[i]
    BY <1>1, <1>4, <2>1
  <2>3. Len(q) = Len(p) \/ Len(q) < Len(p)
    BY <1>1, <1>4, <2>1
  <2>4. Len(q) = Len(p) => q = p
    BY <2>1, <2>2, SeqEqual
  <2>. QED
    BY <2>1, <2>2, <2>3, <2>4, AncestorIs
<1>6. \A q \in Ancestors(p) : q \in Ancestors(c)
  BY AncestorTrans
<1>. QED
  BY <1>1, <1>4, <1>5, <1>6

\* Each directory below p is a child of p or has one above it.
LEMMA ChildTowards ==
  ASSUME NEW p \in Seq(Nat), NEW q \in Seq(Nat), p \in Ancestors(q)
  PROVE  \E c \in Seq(Nat) : /\ p \in Ancestors(c) /\ Parent(c) = p
                             /\ c = q \/ c \in Ancestors(q)
<1>1. /\ Len(q) \in Nat /\ Len(p) \in Nat /\ Len(p) < Len(q)
      /\ \A i \in 1 .. Len(q) : q[i] \in Nat
      /\ \A i \in 1 .. Len(p) : p[i] = q[i]
  BY LenProperties, ElementOfSeq, AncestorIs
<1>2. PICK c : c = SubSeq(q, 1, Len(p) + 1)
  OBVIOUS
<1>3. /\ c \in Seq(Nat) /\ Len(c) = Len(p) + 1
      /\ \A i \in 1 .. Len(p) + 1 : c[i] = q[i]
  <2>1. \A i \in 1 .. Len(p) + 1 : q[i] \in Nat
    BY <1>1
  <2>. QED
    BY <1>1, <1>2, <2>1, SubSeqProperties
<1>4. p \in Ancestors(c) /\ \A i \in 1 .. Len(p) : c[i] = p[i]
  <2>1. \A i \in 1 .. Len(p) : i \in 1 .. Len(p) + 1
    BY <1>1
  <2>2. \A i \in 1 .. Len(p) : c[i] = p[i]
    BY <1>1, <1>3, <2>1
  <2>3. Len(p) < Len(c) /\ \A i \in 1 .. Len(p) : p[i] = c[i]
    BY <1>1, <1>3, <2>2
  <2>. QED
    BY <1>3, <2>2, <2>3, AncestorIs
<1>5. c = q \/ c \in Ancestors(q)
  <2>1. Len(c) = Len(q) \/ Len(c) < Len(q)
    BY <1>1, <1>3
  <2>2. Len(c) = Len(q) => c = q
    BY <1>3, SeqEqual
  <2>. QED
    BY <1>3, <2>1, <2>2, AncestorIs
<1>6. Parent(c) = p
  <2>1. \A i \in 1 .. Len(p) : c[i] \in Nat
    BY <1>4, ElementOfSeq
  <2>2. /\ SubSeq(c, 1, Len(p)) \in Seq(Nat) /\ Len(SubSeq(c, 1, Len(p))) = Len(p)
        /\ \A i \in 1 .. Len(p) : SubSeq(c, 1, Len(p))[i] = c[i]
    BY <1>1, <2>1, FirstComponents
  <2>3. \A i \in 1 .. Len(p) : SubSeq(c, 1, Len(p))[i] = p[i]
    BY <1>4, <2>2
  <2>4. SubSeq(c, 1, Len(p)) = p
    BY <2>2, <2>3, SeqEqual
  <2>. QED
    BY <1>1, <1>3, <2>4 DEF Parent
<1>. QED
  BY <1>3, <1>4, <1>5, <1>6

\* A path other than "/" is below its parent.
LEMMA ParentAbove ==
  ASSUME NEW p \in Seq(Nat), p # <<>>
  PROVE  Parent(p) \in Seq(Nat) /\ Parent(p) \in Ancestors(p) /\ Len(p) = Len(Parent(p)) + 1
<1>1. Len(p) \in Nat /\ \A i \in 1 .. Len(p) : p[i] \in Nat
  BY LenProperties, ElementOfSeq
<1>2. Len(p) # 0
  BY EmptySeq
<1>3. PICK n \in Nat : n = Len(p) - 1
  BY <1>1, <1>2
<1>4. \A i \in 1 .. n : p[i] \in Nat
  BY <1>1, <1>3
<1>5. SubSeq(p, 1, n) \in Seq(Nat) /\ Len(SubSeq(p, 1, n)) = n
  BY <1>4, FirstComponents
<1>6. Parent(p) = SubSeq(p, 1, n) /\ n \in 0 .. Len(p) - 1
  BY <1>1, <1>3 DEF Parent
<1>. QED
  BY <1>1, <1>3, <1>5, <1>6 DEF Ancestors

\* Two directories of one parent that share something below them are the same.
LEMMA SiblingsApart ==
  ASSUME NEW c \in Seq(Nat), NEW d \in Seq(Nat), Len(c) = Len(d),
         NEW q \in Seq(Nat), MatchesPathPrefix(q, c), MatchesPathPrefix(q, d)
  PROVE  c = d
<1>1. \A i \in 1 .. Len(c) : c[i] = q[i]
  BY PrefixIs
<1>2. \A i \in 1 .. Len(d) : d[i] = q[i]
  BY PrefixIs
<1>3. \A i \in 1 .. Len(c) : c[i] = d[i]
  BY <1>1, <1>2
<1>. QED
  BY <1>3, SeqEqual

\* Every path is at or below "/".
LEMMA RootMatches ==
  ASSUME NEW p \in Seq(Nat)
  PROVE  MatchesPathPrefix(p, <<>>)
<1>1. PICK e \in Seq(Nat) : e = <<>>
  BY EmptySeq
<1>2. Len(e) = 0 /\ Len(p) \in Nat
  BY <1>1, EmptySeq, LenProperties
<1>3. MatchesPathPrefix(p, e)
  <2>1. Len(e) <= Len(p) /\ \A i \in 1 .. Len(e) : e[i] = p[i]
    BY <1>2
  <2>. QED
    BY <2>1, PrefixIs
<1>. QED
  BY <1>1, <1>3

\* A prefix of a prefix is a prefix.
LEMMA PrefixTrans ==
  ASSUME NEW p \in Seq(Nat), NEW q \in Seq(Nat), NEW r \in Seq(Nat),
         MatchesPathPrefix(p, q), MatchesPathPrefix(q, r)
  PROVE  MatchesPathPrefix(p, r)
<1>1. /\ Len(q) <= Len(p) /\ \A i \in 1 .. Len(q) : q[i] = p[i]
      /\ Len(r) <= Len(q) /\ \A i \in 1 .. Len(r) : r[i] = q[i]
      /\ Len(p) \in Nat /\ Len(q) \in Nat /\ Len(r) \in Nat
  BY PrefixIs, LenProperties
<1>2. Len(r) <= Len(p) /\ \A i \in 1 .. Len(r) : r[i] = p[i]
  BY <1>1
<1>. QED
  BY <1>2, PrefixIs

\* Of two prefixes of a path, the longer one has the other as a prefix.
LEMMA PrefixesNest ==
  ASSUME NEW p \in Seq(Nat), NEW q \in Seq(Nat), NEW r \in Seq(Nat),
         MatchesPathPrefix(p, q), MatchesPathPrefix(p, r), Len(r) <= Len(q)
  PROVE  MatchesPathPrefix(q, r)
<1>1. \A i \in 1 .. Len(q) : q[i] = p[i]
  BY PrefixIs
<1>2. \A i \in 1 .. Len(r) : r[i] = p[i]
  BY PrefixIs
<1>3. Len(q) \in Nat /\ Len(r) \in Nat
  BY LenProperties
<1>4. \A i \in 1 .. Len(r) : r[i] = q[i]
  BY <1>1, <1>2, <1>3
<1>. QED
  BY <1>4, PrefixIs
================================================================================
