-------------------------------- MODULE Sums --------------------------------
(***************************************************************************)
(* Facts about SumFunctionOnSet, the sum of a function's values over a     *)
(* finite set, that the library states none about. It is a choice of a     *)
(* recursive function on the subsets of the set; the facts are proved by   *)
(* taking a smallest subset they fail for. LeastNatural serves the same    *)
(* argument where a recursive function runs over natural numbers.          *)
(***************************************************************************)
EXTENDS Integers, Functions, FiniteSetTheorems, WellFoundedInduction, TLAPS

\* The recursion SumFunctionOnSet is defined by.
Pick(T) == CHOOSE x \in T : TRUE
IsSum(f, S, g) ==
    g = [T \in SUBSET S |-> IF T = {} THEN 0 ELSE f[Pick(T)] + g[T \ {Pick(T)}]]

\* What the library operator is defined as, in these terms.
LEMMA SumUnfold ==
    ASSUME NEW f, NEW S
    PROVE  SumFunctionOnSet(f, S) = (CHOOSE g : IsSum(f, S, g))[S]
  BY DEF SumFunctionOnSet, FoldFunctionOnSet, MapThenFoldSet, IsSum, Pick

\* A set of subsets of a finite set has a smallest member.
LEMMA SmallestSubset ==
    ASSUME NEW S, IsFiniteSet(S), NEW T, T \subseteq SUBSET S, T # {}
    PROVE  \E U \in T : \A V \in T : V \subseteq U => V = U
  <1>1. IsWellFoundedOn(StrictSubsetOrdering(S), SUBSET S)
    BY FS_StrictSubsetOrderingWellFounded, FS_FiniteSubsetsOfFinite
  <1>2. \E U \in T : \A V \in T : ~(<<V, U>> \in StrictSubsetOrdering(S))
    BY <1>1, WFMin
  <1> QED
    BY <1>2 DEF StrictSubsetOrdering

\* Two functions that satisfy the recursion agree where both are defined.
LEMMA SumAgree ==
    ASSUME NEW f, NEW S, IsFiniteSet(S), NEW A \in SUBSET S, NEW B \in SUBSET S,
           NEW g, NEW h, IsSum(f, A, g), IsSum(f, B, h)
    PROVE  \A U \in SUBSET (A \cap B) : g[U] = h[U]
  <1> DEFINE T == {U \in SUBSET (A \cap B) : g[U] # h[U]}
  <1>1. SUFFICES ASSUME T # {} PROVE FALSE
    OBVIOUS
  <1>2. PICK U \in T : \A V \in T : V \subseteq U => V = U
    <2>1. T \subseteq SUBSET S
      OBVIOUS
    <2> HIDE DEF T
    <2> QED BY <1>1, <2>1, SmallestSubset
  <1>3. U # {}
    BY DEF IsSum
  <1>4. Pick(U) \in U
    BY <1>3 DEF Pick
  <1>5. g[U \ {Pick(U)}] = h[U \ {Pick(U)}]
    BY <1>2, <1>4
  <1>6. /\ g[U] = f[Pick(U)] + g[U \ {Pick(U)}]
        /\ h[U] = f[Pick(U)] + h[U \ {Pick(U)}]
    BY <1>3 DEF IsSum
  <1> QED
    BY <1>5, <1>6

\* Over a finite set the recursion has a solution.
LEMMA SumExists ==
    ASSUME NEW f, NEW S, IsFiniteSet(S)
    PROVE  \E g : IsSum(f, S, g)
  <1> DEFINE T == {A \in SUBSET S : ~ \E g : IsSum(f, A, g)}
             G(A) == CHOOSE g : IsSum(f, A, g)
  <1>1. SUFFICES ASSUME T # {} PROVE FALSE
    OBVIOUS
  <1>2. PICK A \in T : \A V \in T : V \subseteq A => V = A
    <2>1. T \subseteq SUBSET S
      OBVIOUS
    <2> HIDE DEF T
    <2> QED BY <1>1, <2>1, SmallestSubset
  <1>3. \A V \in SUBSET A : V # A => IsSum(f, V, G(V))
    BY <1>2
  <1> DEFINE g == [U \in SUBSET A |->
                     IF U = {} THEN 0
                     ELSE f[Pick(U)] + G(U \ {Pick(U)})[U \ {Pick(U)}]]
  <1> HIDE DEF G
  <1>4. ASSUME NEW U \in SUBSET A, U # {}
        PROVE  g[U \ {Pick(U)}] = G(U \ {Pick(U)})[U \ {Pick(U)}]
    <2> DEFINE V == U \ {Pick(U)}
    <2>1. Pick(U) \in U /\ V \in SUBSET A /\ V # A
      BY <1>4 DEF Pick
    <2>2. IsSum(f, V, G(V))
      BY <1>3, <2>1
    <2>3. CASE V = {}
      BY <2>1, <2>2, <2>3 DEF IsSum
    <2>4. CASE V # {}
      <3> DEFINE W == V \ {Pick(V)}
      <3>1. Pick(V) \in V /\ W \in SUBSET A /\ W # A /\ W \in SUBSET V
        BY <2>1, <2>4 DEF Pick
      <3>2. IsSum(f, W, G(W))
        BY <1>3, <3>1
      <3>3. G(V)[W] = G(W)[W]
        <4>1. W \in SUBSET (V \cap W) /\ V \in SUBSET S /\ W \in SUBSET S
          BY <2>1, <3>1
        <4> HIDE DEF V, W
        <4> QED BY <2>2, <3>2, <4>1, SumAgree
      <3>4. G(V)[V] = f[Pick(V)] + G(V)[W]
        BY <2>2, <2>4 DEF IsSum
      <3>5. g[V] = f[Pick(V)] + G(W)[W]
        BY <2>1, <2>4
      <3> QED
        BY <3>3, <3>4, <3>5
    <2> QED
      BY <2>3, <2>4
  <1>5. IsSum(f, A, g)
    BY <1>4 DEF IsSum
  <1> QED
    BY <1>2, <1>5

\* What the library operator computes: nothing over the empty set, and over
\* any other the value at a chosen element and the sum over the rest.
LEMMA SumRec ==
    ASSUME NEW f, NEW S, IsFiniteSet(S)
    PROVE  /\ S = {} => SumFunctionOnSet(f, S) = 0
           /\ S # {} => /\ Pick(S) \in S
                        /\ SumFunctionOnSet(f, S)
                             = f[Pick(S)] + SumFunctionOnSet(f, S \ {Pick(S)})
  <1> DEFINE G(A) == CHOOSE g : IsSum(f, A, g)
  <1>1. \A A \in SUBSET S : IsSum(f, A, G(A)) /\ SumFunctionOnSet(f, A) = G(A)[A]
    BY SumExists, SumUnfold, FS_Subset
  <1> HIDE DEF G
  <1>2. CASE S = {}
    BY <1>1, <1>2 DEF IsSum
  <1>3. CASE S # {}
    <2> DEFINE R == S \ {Pick(S)}
    <2>1. Pick(S) \in S /\ R \in SUBSET S
      BY <1>3 DEF Pick
    <2>2. IsSum(f, S, G(S)) /\ IsSum(f, R, G(R)) /\ SumFunctionOnSet(f, R) = G(R)[R]
          /\ SumFunctionOnSet(f, S) = G(S)[S]
      BY <1>1, <2>1
    <2>3. G(S)[R] = G(R)[R]
      <3> R \in SUBSET (S \cap R)
        OBVIOUS
      <3> HIDE DEF R
      <3> QED BY <2>1, <2>2, SumAgree
    <2>4. G(S)[S] = f[Pick(S)] + G(S)[R]
      BY <1>3, <2>2 DEF IsSum
    <2> QED
      BY <1>3, <2>1, <2>2, <2>3, <2>4
  <1> QED
    BY <1>2, <1>3

\* Sums of integers are integers, sums of naturals are naturals.
LEMMA SumType ==
    ASSUME NEW f, NEW S, IsFiniteSet(S), \A x \in S : f[x] \in Int
    PROVE  /\ SumFunctionOnSet(f, S) \in Int
           /\ (\A x \in S : f[x] >= 0) => SumFunctionOnSet(f, S) >= 0
  <1> DEFINE Fine(A) == /\ SumFunctionOnSet(f, A) \in Int
                        /\ (\A x \in A : f[x] >= 0) => SumFunctionOnSet(f, A) >= 0
             T == {A \in SUBSET S : ~Fine(A)}
  <1>1. SUFFICES ASSUME T # {} PROVE FALSE
    OBVIOUS
  <1>2. PICK A \in T : \A V \in T : V \subseteq A => V = A
    <2>1. T \subseteq SUBSET S
      OBVIOUS
    <2> HIDE DEF T
    <2> QED BY <1>1, <2>1, SmallestSubset
  <1>3. IsFiniteSet(A)
    BY <1>2, FS_Subset
  <1>4. A # {}
    <2>1. A = {} => SumFunctionOnSet(f, A) = 0
      BY <1>3, SumRec
    <2> QED
      BY <1>2, <2>1
  <1> DEFINE R == A \ {Pick(A)}
  <1>5. /\ Pick(A) \in A
        /\ SumFunctionOnSet(f, A) = f[Pick(A)] + SumFunctionOnSet(f, R)
    BY <1>3, <1>4, SumRec
  <1>6. Fine(R)
    BY <1>2, <1>5
  <1>7. f[Pick(A)] \in Int
    BY <1>2, <1>5
  <1>8. Fine(A)
    BY <1>5, <1>6, <1>7
  <1> QED
    BY <1>2, <1>8

\* Any element can be taken out of a sum.
LEMMA SumTake ==
    ASSUME NEW f, NEW S, IsFiniteSet(S), \A x \in S : f[x] \in Int, NEW y \in S
    PROVE  SumFunctionOnSet(f, S) = f[y] + SumFunctionOnSet(f, S \ {y})
  <1> DEFINE Taken(A) == \A z \in A :
                 SumFunctionOnSet(f, A) = f[z] + SumFunctionOnSet(f, A \ {z})
             T == {A \in SUBSET S : ~Taken(A)}
  <1>1. SUFFICES ASSUME T # {} PROVE FALSE
    OBVIOUS
  <1>2. PICK A \in T : \A V \in T : V \subseteq A => V = A
    <2>1. T \subseteq SUBSET S
      OBVIOUS
    <2> HIDE DEF T
    <2> QED BY <1>1, <2>1, SmallestSubset
  <1>3. ASSUME NEW z \in A
        PROVE  SumFunctionOnSet(f, A) = f[z] + SumFunctionOnSet(f, A \ {z})
    <2> DEFINE p == Pick(A)
               R == A \ {p}
               B == A \ {z}
               C == (A \ {p}) \ {z}
    <2>1. /\ IsFiniteSet(A) /\ IsFiniteSet(B) /\ IsFiniteSet(R) /\ IsFiniteSet(C)
          /\ B \in SUBSET S /\ R \in SUBSET S /\ C \in SUBSET S
      BY <1>2, FS_Subset
    <2>2. p \in A /\ SumFunctionOnSet(f, A) = f[p] + SumFunctionOnSet(f, R)
      BY <1>3, <2>1, SumRec
    <2>3. CASE z = p
      BY <2>2, <2>3
    <2>4. CASE z # p
      <3>1. Taken(R) /\ Taken(B)
        BY <1>2, <2>1, <2>2
      <3>2. z \in R /\ p \in B /\ R \ {z} = C /\ B \ {p} = C
        BY <1>3, <2>2, <2>4
      <3>3. /\ SumFunctionOnSet(f, R) = f[z] + SumFunctionOnSet(f, C)
            /\ SumFunctionOnSet(f, B) = f[p] + SumFunctionOnSet(f, C)
        BY <3>1, <3>2
      <3>4. f[z] \in Int /\ f[p] \in Int /\ SumFunctionOnSet(f, C) \in Int
        BY <1>2, <1>3, <2>1, <2>2, SumType
      <3> QED
        BY <2>2, <3>3, <3>4
    <2> QED
      BY <2>3, <2>4
  <1> QED
    BY <1>2, <1>3

\* Functions that agree on a set have the same sum over it.
LEMMA SumSame ==
    ASSUME NEW f, NEW h, NEW S, IsFiniteSet(S), \A x \in S : f[x] = h[x]
    PROVE  SumFunctionOnSet(f, S) = SumFunctionOnSet(h, S)
  <1> DEFINE T == {A \in SUBSET S : SumFunctionOnSet(f, A) # SumFunctionOnSet(h, A)}
  <1>1. SUFFICES ASSUME T # {} PROVE FALSE
    OBVIOUS
  <1>2. PICK A \in T : \A V \in T : V \subseteq A => V = A
    <2>1. T \subseteq SUBSET S
      OBVIOUS
    <2> HIDE DEF T
    <2> QED BY <1>1, <2>1, SmallestSubset
  <1>3. IsFiniteSet(A)
    BY <1>2, FS_Subset
  <1>4. A # {}
    BY <1>2, <1>3, SumRec
  <1> DEFINE R == A \ {Pick(A)}
  <1>5. /\ Pick(A) \in A
        /\ SumFunctionOnSet(f, A) = f[Pick(A)] + SumFunctionOnSet(f, R)
        /\ SumFunctionOnSet(h, A) = h[Pick(A)] + SumFunctionOnSet(h, R)
    BY <1>3, <1>4, SumRec
  <1>6. SumFunctionOnSet(f, R) = SumFunctionOnSet(h, R)
    BY <1>2, <1>5
  <1> QED
    BY <1>2, <1>5, <1>6

\* Changing one value changes the sum by the difference.
LEMMA SumChange ==
    ASSUME NEW f, NEW h, NEW S, IsFiniteSet(S), NEW y \in S,
           \A x \in S : f[x] \in Int, h[y] \in Int, \A x \in S \ {y} : h[x] = f[x]
    PROVE  /\ SumFunctionOnSet(h, S) = SumFunctionOnSet(f, S) + h[y] - f[y]
           /\ SumFunctionOnSet(f, S) \in Int
  <1>1. IsFiniteSet(S \ {y}) /\ \A x \in S : h[x] \in Int
    BY FS_Subset
  <1>2. /\ SumFunctionOnSet(f, S) = f[y] + SumFunctionOnSet(f, S \ {y})
        /\ SumFunctionOnSet(h, S) = h[y] + SumFunctionOnSet(h, S \ {y})
    BY <1>1, SumTake
  <1>3. /\ SumFunctionOnSet(f, S \ {y}) = SumFunctionOnSet(h, S \ {y})
        /\ SumFunctionOnSet(f, S \ {y}) \in Int /\ f[y] \in Int
    BY <1>1, SumSame, SumType
  <1> QED
    BY <1>2, <1>3

\* Nothing adds up to nothing.
LEMMA SumZero ==
    ASSUME NEW f, NEW S, IsFiniteSet(S), \A x \in S : f[x] = 0
    PROVE  SumFunctionOnSet(f, S) = 0
  <1> DEFINE T == {A \in SUBSET S : SumFunctionOnSet(f, A) # 0}
  <1>1. SUFFICES ASSUME T # {} PROVE FALSE
    OBVIOUS
  <1>2. PICK A \in T : \A V \in T : V \subseteq A => V = A
    <2>1. T \subseteq SUBSET S
      OBVIOUS
    <2> HIDE DEF T
    <2> QED BY <1>1, <2>1, SmallestSubset
  <1>3. IsFiniteSet(A)
    BY <1>2, FS_Subset
  <1>4. A # {}
    BY <1>2, <1>3, SumRec
  <1> DEFINE R == A \ {Pick(A)}
  <1>5. Pick(A) \in A /\ SumFunctionOnSet(f, A) = f[Pick(A)] + SumFunctionOnSet(f, R)
    BY <1>3, <1>4, SumRec
  <1>6. SumFunctionOnSet(f, R) = 0 /\ f[Pick(A)] = 0
    BY <1>2, <1>5
  <1> QED
    BY <1>2, <1>5, <1>6

\* A set of natural numbers has a least member.
LEMMA LeastNatural ==
    ASSUME NEW T, T \subseteq Nat, T # {}
    PROVE  \E n \in T : \A m \in T : n <= m
  <1> DEFINE Less == {ss \in Nat \X Nat : ss[1] < ss[2]}
  <1>1. PICK n \in T : \A m \in T : ~(<<m, n>> \in Less)
    <2>1. IsWellFoundedOn(Less, Nat)
      BY NatLessThanWellFounded, Zenon DEF OpToRel
    <2> HIDE DEF Less
    <2> QED
      BY <2>1, WFMin
  <1>2. ASSUME NEW m \in T PROVE n <= m
    <2>1. ~(m < n)
      <3> SUFFICES ASSUME m < n PROVE <<m, n>> \in Less
        BY <1>1
      <3> QED
        OBVIOUS
    <2> QED
      BY <2>1
  <1> QED
    BY <1>2

\* The sum of a pointwise sum is the sum of the sums.
LEMMA SumAdd ==
    ASSUME NEW f, NEW g, NEW h, NEW S, IsFiniteSet(S),
           \A x \in S : f[x] \in Int /\ g[x] \in Int /\ h[x] = f[x] + g[x]
    PROVE  SumFunctionOnSet(h, S) = SumFunctionOnSet(f, S) + SumFunctionOnSet(g, S)
  <1> DEFINE Added(A) == SumFunctionOnSet(h, A) = SumFunctionOnSet(f, A) + SumFunctionOnSet(g, A)
             T == {A \in SUBSET S : ~Added(A)}
  <1>1. SUFFICES ASSUME T # {} PROVE FALSE
    OBVIOUS
  <1>2. PICK A \in T : \A V \in T : V \subseteq A => V = A
    <2>1. T \subseteq SUBSET S
      OBVIOUS
    <2> HIDE DEF T
    <2> QED BY <1>1, <2>1, SmallestSubset
  <1>3. IsFiniteSet(A)
    BY <1>2, FS_Subset
  <1>4. A # {}
    <2>1. A = {} => /\ SumFunctionOnSet(f, A) = 0 /\ SumFunctionOnSet(g, A) = 0
                    /\ SumFunctionOnSet(h, A) = 0
      BY <1>3, SumRec
    <2> QED
      BY <1>2, <2>1
  <1> DEFINE p == Pick(A)
             R == A \ {p}
  <1>5. /\ p \in A
        /\ SumFunctionOnSet(f, A) = f[p] + SumFunctionOnSet(f, R)
        /\ SumFunctionOnSet(g, A) = g[p] + SumFunctionOnSet(g, R)
        /\ SumFunctionOnSet(h, A) = h[p] + SumFunctionOnSet(h, R)
    BY <1>3, <1>4, SumRec
  <1>6. Added(R)
    BY <1>2, <1>5
  <1>7. SumFunctionOnSet(f, R) \in Int /\ SumFunctionOnSet(g, R) \in Int
    <2>1. IsFiniteSet(R) /\ R \subseteq S
      BY <1>2, <1>3, FS_Subset
    <2> QED
      BY <2>1, SumType
  <1>8. f[p] \in Int /\ g[p] \in Int /\ h[p] = f[p] + g[p]
    BY <1>2, <1>5
  <1>9. Added(A)
    <2> HIDE DEF p, R
    <2> QED
      BY <1>5, <1>6, <1>7, <1>8
  <1> QED
    BY <1>2, <1>9

\* If k times every value of f is at most c times that of g, so are the sums.
LEMMA SumScale ==
    ASSUME NEW f, NEW g, NEW k \in Int, NEW c \in Int, NEW S, IsFiniteSet(S),
           \A x \in S : f[x] \in Int /\ g[x] \in Int /\ k * f[x] <= c * g[x]
    PROVE  k * SumFunctionOnSet(f, S) <= c * SumFunctionOnSet(g, S)
  <1> DEFINE Scaled(A) == k * SumFunctionOnSet(f, A) <= c * SumFunctionOnSet(g, A)
             T == {A \in SUBSET S : ~Scaled(A)}
  <1>1. SUFFICES ASSUME T # {} PROVE FALSE
    OBVIOUS
  <1>2. PICK A \in T : \A V \in T : V \subseteq A => V = A
    <2>1. T \subseteq SUBSET S
      OBVIOUS
    <2> HIDE DEF T
    <2> QED BY <1>1, <2>1, SmallestSubset
  <1>3. IsFiniteSet(A)
    BY <1>2, FS_Subset
  <1>4. A # {}
    <2>1. A = {} => SumFunctionOnSet(f, A) = 0 /\ SumFunctionOnSet(g, A) = 0
      BY <1>3, SumRec
    <2>2. k * 0 <= c * 0
      OBVIOUS
    <2> QED
      BY <1>2, <2>1, <2>2
  <1> DEFINE p == Pick(A)
             R == A \ {p}
  <1>5. /\ p \in A
        /\ SumFunctionOnSet(f, A) = f[p] + SumFunctionOnSet(f, R)
        /\ SumFunctionOnSet(g, A) = g[p] + SumFunctionOnSet(g, R)
    BY <1>3, <1>4, SumRec
  <1>6. Scaled(R)
    BY <1>2, <1>5
  <1>7. SumFunctionOnSet(f, R) \in Int /\ SumFunctionOnSet(g, R) \in Int
    <2>1. IsFiniteSet(R) /\ R \subseteq S
      BY <1>2, <1>3, FS_Subset
    <2> QED
      BY <2>1, SumType
  <1>8. f[p] \in Int /\ g[p] \in Int /\ k * f[p] <= c * g[p]
    BY <1>2, <1>5
  <1>9. \A u, v, x, y \in Int : k * u <= c * v /\ k * x <= c * y => k * (u + x) <= c * (v + y)
    <2> SUFFICES ASSUME NEW u \in Int, NEW v \in Int, NEW x \in Int, NEW y \in Int,
                        k * u <= c * v, k * x <= c * y
                 PROVE  k * (u + x) <= c * (v + y)
      OBVIOUS
    <2>1. k * (u + x) = k * u + k * x /\ c * (v + y) = c * v + c * y
      OBVIOUS
    <2>2. k * u \in Int /\ k * x \in Int /\ c * v \in Int /\ c * y \in Int
      OBVIOUS
    <2> QED
      BY <2>1, <2>2
  <1>10. Scaled(A)
    <2> HIDE DEF p, R
    <2> QED
      BY <1>5, <1>6, <1>7, <1>8, <1>9
  <1> QED
    BY <1>2, <1>10

\* Adding up by groups: to every m the values whose label is m, and these over all m.
LEMMA SumGroups ==
    ASSUME NEW f, NEW S, IsFiniteSet(S), \A x \in S : f[x] \in Int,
           NEW label, NEW M, IsFiniteSet(M), \A x \in S : label[x] \in M
    PROVE  SumFunctionOnSet([m \in M |-> SumFunctionOnSet(f, {x \in S : label[x] = m})], M)
             = SumFunctionOnSet(f, S)
  <1> DEFINE Group(A, m) == {x \in A : label[x] = m}
             by(A) == [m \in M |-> SumFunctionOnSet(f, Group(A, m))]
             Grouped(A) == SumFunctionOnSet(by(A), M) = SumFunctionOnSet(f, A)
             T == {A \in SUBSET S : ~Grouped(A)}
  <1>1. SUFFICES ASSUME T # {} PROVE FALSE
    OBVIOUS
  <1>2. PICK A \in T : \A V \in T : V \subseteq A => V = A
    <2>1. T \subseteq SUBSET S
      OBVIOUS
    <2> HIDE DEF T
    <2> QED BY <1>1, <2>1, SmallestSubset
  <1>3. IsFiniteSet(A) /\ A \in SUBSET S /\ ~Grouped(A)
    BY <1>2, FS_Subset
  <1>4. A # {}
    <2> SUFFICES ASSUME A = {} PROVE Grouped(A)
      BY <1>3
    <2>1. \A m \in M : Group(A, m) = {}
      OBVIOUS
    <2>2. SumFunctionOnSet(f, {}) = 0
      BY FS_EmptySet, SumRec
    <2>3. \A m \in M : by(A)[m] = 0
      BY <2>1, <2>2
    <2> HIDE DEF by
    <2>4. SumFunctionOnSet(by(A), M) = 0
      BY <2>3, SumZero
    <2> QED
      BY <2>2, <2>4
  <1> DEFINE p == Pick(A)
             R == A \ {p}
  <1>5. p \in A /\ SumFunctionOnSet(f, A) = f[p] + SumFunctionOnSet(f, R)
    BY <1>3, <1>4, SumRec
  <1>6. Grouped(R)
    BY <1>2, <1>3, <1>5
  <1>7. label[p] \in M /\ f[p] \in Int
    BY <1>3, <1>5
  <1> HIDE DEF p
  <1>8. ASSUME NEW m \in M PROVE by(R)[m] \in Int /\ by(A)[m] \in Int
    <2>1. IsFiniteSet(Group(R, m)) /\ IsFiniteSet(Group(A, m))
      <3>1. Group(R, m) \subseteq S /\ Group(A, m) \subseteq S
        BY <1>3
      <3> HIDE DEF Group
      <3> QED BY <3>1, FS_Subset
    <2>2. \A x \in Group(R, m) \cup Group(A, m) : f[x] \in Int
      BY <1>3
    <2> HIDE DEF Group
    <2> QED
      BY <2>1, <2>2, SumType
  <1>9. by(A)[label[p]] = by(R)[label[p]] + f[p]
    <2> DEFINE B == Group(A, label[p])
    <2>1. IsFiniteSet(B) /\ (\A x \in B : f[x] \in Int) /\ p \in B
      BY <1>3, <1>5, FS_Subset
    <2>2. B \ {p} = Group(R, label[p])
      OBVIOUS
    <2> HIDE DEF B
    <2>3. SumFunctionOnSet(f, B) = f[p] + SumFunctionOnSet(f, B \ {p})
      BY <2>1, SumTake
    <2>4. by(A)[label[p]] = SumFunctionOnSet(f, B)
      BY <1>7 DEF B
    <2>5. by(R)[label[p]] = SumFunctionOnSet(f, B \ {p})
      BY <1>7, <2>2
    <2>6. by(R)[label[p]] \in Int
      BY <1>7, <1>8
    <2> QED
      BY <1>7, <2>3, <2>4, <2>5, <2>6
  <1>10. \A m \in M \ {label[p]} : by(A)[m] = by(R)[m]
    <2> SUFFICES ASSUME NEW m \in M, m # label[p] PROVE by(A)[m] = by(R)[m]
      OBVIOUS
    <2>1. Group(A, m) = Group(R, m)
      OBVIOUS
    <2> QED
      BY <2>1
  <1> DEFINE u == by(A)
             v == by(R)
             q == label[p]
  <1>11. /\ q \in M /\ u[q] = v[q] + f[p] /\ \A m \in M : u[m] \in Int /\ v[m] \in Int
         /\ \A m \in M \ {q} : u[m] = v[m]
    BY <1>7, <1>8, <1>9, <1>10
  <1>12. SumFunctionOnSet(v, M) = SumFunctionOnSet(f, R)
    BY <1>6
  <1> HIDE DEF u, v, q, R
  <1>13. /\ SumFunctionOnSet(u, M) = SumFunctionOnSet(v, M) + u[q] - v[q]
         /\ SumFunctionOnSet(v, M) \in Int
    BY <1>11, SumChange
  <1>14. SumFunctionOnSet(u, M) = SumFunctionOnSet(f, A)
    BY <1>5, <1>7, <1>11, <1>12, <1>13
  <1>15. Grouped(A)
    BY <1>14 DEF u
  <1> QED
    BY <1>3, <1>15

\* Moving value from one element to another leaves the sum alone.
LEMMA SumMove ==
    ASSUME NEW f, NEW h, NEW S, IsFiniteSet(S), NEW y \in S, NEW z \in S, y # z,
           \A x \in S : f[x] \in Int /\ h[x] \in Int,
           \A x \in S \ {y, z} : h[x] = f[x], h[y] + h[z] = f[y] + f[z]
    PROVE  SumFunctionOnSet(h, S) = SumFunctionOnSet(f, S)
  <1> DEFINE g == [x \in S |-> IF x = y THEN h[y] ELSE f[x]]
  <1>1. g[y] = h[y] /\ g[z] = f[z] /\ \A x \in S : g[x] \in Int
    OBVIOUS
  <1>2. (\A x \in S \ {y} : g[x] = f[x]) /\ (\A x \in S \ {z} : h[x] = g[x])
    OBVIOUS
  <1> HIDE DEF g
  <1>3. /\ SumFunctionOnSet(g, S) = SumFunctionOnSet(f, S) + g[y] - f[y]
        /\ SumFunctionOnSet(f, S) \in Int
    BY <1>1, <1>2, SumChange
  <1>4. SumFunctionOnSet(h, S) = SumFunctionOnSet(g, S) + h[z] - g[z]
    BY <1>1, <1>2, SumChange
  <1> QED
    BY <1>1, <1>3, <1>4
=============================================================================
