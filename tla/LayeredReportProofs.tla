------------------------ MODULE LayeredReportProofs ------------------------
(***************************************************************************)
(* Proofs about LayeredReport: for every oracle and every packet, what the *)
(* layered report counts adds up, and its audit accounts for every lost    *)
(* point. They need facts about sums over finite sets, which come first.   *)
(* The induction theorems of the library have an operator for a parameter; *)
(* here induction is over a set of good numbers, or of good subsets.       *)
(***************************************************************************)
EXTENDS LayeredReport, FiniteSetTheorems, TLAPS

(* Induction *)

LEMMA LeastNat ==
    ASSUME NEW T, T \subseteq Nat, T # {}
    PROVE  \E n \in T : \A m \in T : n <= m
<1> DEFINE Less == {ss \in Nat \X Nat : ss[1] < ss[2]}
<1>1. IsWellFoundedOn(Less, Nat)
  BY NatLessThanWellFounded DEF OpToRel
<1>2. \A m, n \in Nat : <<m, n>> \notin Less => n <= m
  OBVIOUS
<1> HIDE DEF Less
<1>3. \E n \in T : \A m \in T : <<m, n>> \notin Less
  BY <1>1, WFMin
<1> QED  BY <1>2, <1>3

LEMMA NatSetInduction ==
    ASSUME NEW G, 0 \in G, \A n \in Nat : n \in G => n + 1 \in G
    PROVE  Nat \subseteq G
<1> SUFFICES ASSUME Nat \ G # {} PROVE FALSE
  OBVIOUS
<1>1. PICK n \in Nat \ G : \A m \in Nat \ G : n <= m
  BY LeastNat
<1>2. n - 1 \in Nat /\ n - 1 \notin Nat \ G
  BY <1>1
<1> QED  BY <1>1, <1>2

LEMMA GreatestNat ==
    ASSUME NEW T, T \subseteq Nat, T # {}, NEW n \in Nat, \A m \in T : m <= n
    PROVE  \E m \in T : \A k \in T : k <= m
<1> DEFINE D == {n - m : m \in T}
<1>1. D \subseteq Nat /\ D # {}
  <2>1. \A m \in T : n - m \in Nat
    OBVIOUS
  <2> QED  BY <2>1
<1>2. PICK d \in D : \A e \in D : d <= e
  <2> HIDE DEF D
  <2> QED  BY <1>1, LeastNat
<1>3. PICK m \in T : d = n - m
  OBVIOUS
<1>4. \A k \in T : n - m <= n - k
  BY <1>2, <1>3
<1> QED  BY <1>4

\* What holds of a set when it holds of it less any one element, holds of
\* every finite set.
LEMMA SubsetInduction ==
    ASSUME NEW S, IsFiniteSet(S), NEW G, {} \in G,
           \A B \in SUBSET S :
               B # {} /\ (\A x \in B : B \ {x} \in G) => B \in G
    PROVE  S \in G
<1> DEFINE N == {n \in Nat : \A B \in SUBSET S : Cardinality(B) <= n => B \in G}
<1>1. \A B \in SUBSET S : IsFiniteSet(B) /\ Cardinality(B) \in Nat
  BY FS_Subset, FS_CardinalityType
<1>2. 0 \in N
  <2>1. ASSUME NEW B \in SUBSET S, Cardinality(B) <= 0 PROVE B = {}
    BY <1>1, <2>1, FS_EmptySet
  <2> QED  BY <2>1
<1>3. ASSUME NEW n \in Nat, n \in N PROVE n + 1 \in N
  <2> SUFFICES ASSUME NEW B \in SUBSET S, Cardinality(B) <= n + 1
               PROVE  B \in G
    OBVIOUS
  <2> SUFFICES ASSUME B # {} PROVE B \in G
    OBVIOUS
  <2>1. ASSUME NEW x \in B PROVE B \ {x} \in G
    <3>1. Cardinality(B \ {x}) = Cardinality(B) - 1
      BY <1>1, FS_RemoveElement
    <3> QED  BY <1>1, <1>3, <3>1
  <2> QED  BY <2>1
<1>4. Nat \subseteq N
  <2> HIDE DEF N
  <2> QED  BY <1>2, <1>3, NatSetInduction
<1> QED  BY <1>1, <1>4
-----------------------------------------------------------------------------
(* Sums *)

\* The equation of the recursive function that SumFunctionOnSet folds with.
Body(f, F, s) ==
    IF s = {} THEN 0
    ELSE f[CHOOSE x \in s : TRUE] + F[s \ {CHOOSE x \in s : TRUE}]

Folding(f, F, S) == F = [s \in SUBSET S |-> Body(f, F, s)]

LEMMA FoldExists ==
    ASSUME NEW f, NEW S, IsFiniteSet(S)
    PROVE  \E F : Folding(f, F, S)
<1> DEFINE Upto(F, n) == \A s \in SUBSET S :
                Cardinality(s) <= n => F[s] = Body(f, F, s)
           N == {n \in Nat : \E F : /\ F = [s \in SUBSET S |-> F[s]]
                                    /\ Upto(F, n)}
<1>1. \A B \in SUBSET S : IsFiniteSet(B) /\ Cardinality(B) \in Nat
  BY FS_Subset, FS_CardinalityType
<1>2. 0 \in N
  <2> DEFINE F == [s \in SUBSET S |-> 0]
  <2>1. F = [s \in SUBSET S |-> F[s]]
    OBVIOUS
  <2>2. ASSUME NEW s \in SUBSET S, Cardinality(s) <= 0
        PROVE  F[s] = Body(f, F, s)
    BY <1>1, <2>2, FS_EmptySet DEF Body
  <2> QED  BY <2>1, <2>2
<1>3. ASSUME NEW n \in Nat, n \in N PROVE n + 1 \in N
  <2>1. PICK F : F = [s \in SUBSET S |-> F[s]] /\ Upto(F, n)
    BY <1>3
  <2> DEFINE H == [s \in SUBSET S |-> Body(f, F, s)]
  <2>2. H = [s \in SUBSET S |-> H[s]]
    OBVIOUS
  <2>3. \A s \in SUBSET S : H[s] = Body(f, F, s)
    OBVIOUS
  <2> HIDE DEF H
  <2>4. ASSUME NEW s \in SUBSET S, Cardinality(s) <= n + 1
        PROVE  H[s] = Body(f, H, s)
    <3>1. CASE s = {}
      BY <2>3, <3>1 DEF Body
    <3>2. CASE s # {}
      <4> DEFINE c == CHOOSE x \in s : TRUE
      <4>1. c \in s
        BY <3>2
      <4> HIDE DEF c
      <4>2. Cardinality(s \ {c}) = Cardinality(s) - 1
        BY <1>1, <4>1, FS_RemoveElement
      <4>3. s \ {c} \in SUBSET S /\ Cardinality(s \ {c}) <= n
        BY <1>1, <2>4, <4>2
      <4>4. H[s \ {c}] = F[s \ {c}]
        BY <2>1, <2>3, <4>3
      <4> QED  BY <2>3, <4>4 DEF Body, c
    <3> QED  BY <3>1, <3>2
  <2> QED  BY <2>2, <2>4
<1>4. Nat \subseteq N
  <2> HIDE DEF N
  <2> QED  BY <1>2, <1>3, NatSetInduction
<1>5. Cardinality(S) \in N
  BY <1>1, <1>4
<1>6. PICK F : F = [s \in SUBSET S |-> F[s]] /\ Upto(F, Cardinality(S))
  BY <1>5
<1>7. \A s \in SUBSET S : F[s] = Body(f, F, s)
  BY <1>6, FS_Subset
<1> QED  BY <1>6, <1>7 DEF Folding

\* Two folds agree wherever both are defined and their functions agree.
LEMMA FoldsAgree ==
    ASSUME NEW f, NEW g, NEW F, NEW H, NEW S, NEW T, Folding(f, F, S),
           Folding(g, H, T), NEW B, IsFiniteSet(B), B \subseteq S,
           B \subseteq T, \A x \in B : f[x] = g[x]
    PROVE  F[B] = H[B]
<1> DEFINE G == {s \in SUBSET B : F[s] = H[s]}
<1>1. \A s \in SUBSET B : F[s] = Body(f, F, s) /\ H[s] = Body(g, H, s)
  BY DEF Folding
<1>2. {} \in G
  BY <1>1 DEF Body
<1>3. ASSUME NEW s \in SUBSET B, s # {}, \A x \in s : s \ {x} \in G
      PROVE  s \in G
  <2> DEFINE c == CHOOSE x \in s : TRUE
  <2>1. c \in s
    BY <1>3
  <2>2. F[s] = f[c] + F[s \ {c}] /\ H[s] = g[c] + H[s \ {c}]
    BY <1>1, <1>3 DEF Body
  <2> HIDE DEF c
  <2> QED  BY <1>3, <2>1, <2>2
<1>4. B \in G
  <2> HIDE DEF G
  <2> QED  BY <1>2, <1>3, SubsetInduction
<1> QED  BY <1>4

LEMMA SumIsFold ==
    ASSUME NEW f, NEW S, IsFiniteSet(S)
    PROVE  \E F : Folding(f, F, S) /\ SumFunctionOnSet(f, S) = F[S]
<1>1. \E F : F = [s \in SUBSET S |-> Body(f, F, s)]
  BY FoldExists DEF Folding
<1>2. \E F : F = [s \in SUBSET S |-> Body(f, F, s)]
                /\ SumFunctionOnSet(f, S) = F[S]
  BY <1>1 DEF SumFunctionOnSet, FoldFunctionOnSet, MapThenFoldSet, Body
<1> QED  BY <1>2 DEF Folding

LEMMA SumSame ==
    ASSUME NEW S, IsFiniteSet(S), NEW f, NEW g, \A x \in S : f[x] = g[x]
    PROVE  SumFunctionOnSet(f, S) = SumFunctionOnSet(g, S)
<1>1. PICK F : Folding(f, F, S) /\ SumFunctionOnSet(f, S) = F[S]
  BY SumIsFold
<1>2. PICK H : Folding(g, H, S) /\ SumFunctionOnSet(g, S) = H[S]
  BY SumIsFold
<1> QED  BY <1>1, <1>2, FoldsAgree

LEMMA SumEmpty ==
    ASSUME NEW f
    PROVE  SumFunctionOnSet(f, {}) = 0
<1>1. PICK F : Folding(f, F, {}) /\ SumFunctionOnSet(f, {}) = F[{}]
  BY SumIsFold, FS_EmptySet
<1> QED  BY <1>1 DEF Folding, Body

\* A sum folds as its equation says.
LEMMA SumStep ==
    ASSUME NEW S, IsFiniteSet(S), S # {}, NEW f
    PROVE  \E c \in S : SumFunctionOnSet(f, S) =
                            f[c] + SumFunctionOnSet(f, S \ {c})
<1>1. PICK F : Folding(f, F, S) /\ SumFunctionOnSet(f, S) = F[S]
  BY SumIsFold
<1> DEFINE c == CHOOSE x \in S : TRUE
<1>2. c \in S
  OBVIOUS
<1>3. F[S] = f[c] + F[S \ {c}]
  BY <1>1 DEF Folding, Body
<1> HIDE DEF c
<1>4. IsFiniteSet(S \ {c})
  BY FS_RemoveElement
<1>5. PICK H : /\ Folding(f, H, S \ {c})
               /\ SumFunctionOnSet(f, S \ {c}) = H[S \ {c}]
  BY <1>4, SumIsFold
<1>6. F[S \ {c}] = H[S \ {c}]
  BY <1>1, <1>4, <1>5, FoldsAgree
<1> QED  BY <1>1, <1>2, <1>3, <1>5, <1>6

\* Of whole numbers it is one.
LEMMA SumType ==
    ASSUME NEW S, IsFiniteSet(S), NEW f, \A x \in S : f[x] \in Int
    PROVE  SumFunctionOnSet(f, S) \in Int
<1> DEFINE G == {s \in SUBSET S : SumFunctionOnSet(f, s) \in Int}
<1>1. {} \in G
  BY SumEmpty
<1>2. ASSUME NEW s \in SUBSET S, s # {}, \A x \in s : s \ {x} \in G
      PROVE  s \in G
  <2>1. IsFiniteSet(s)
    BY FS_Subset
  <2>2. PICK c \in s : SumFunctionOnSet(f, s) =
                            f[c] + SumFunctionOnSet(f, s \ {c})
    BY <1>2, <2>1, SumStep
  <2> QED  BY <1>2, <2>2
<1>3. S \in G
  <2> HIDE DEF G
  <2> QED  BY <1>1, <1>2, SubsetInduction
<1> QED  BY <1>3

\* The order in which it is folded does not matter: any element may be last.
LEMMA SumRemove ==
    ASSUME NEW S, IsFiniteSet(S), NEW f, \A x \in S : f[x] \in Int, NEW e \in S
    PROVE  SumFunctionOnSet(f, S) = f[e] + SumFunctionOnSet(f, S \ {e})
<1> DEFINE Sum(s) == SumFunctionOnSet(f, s)
           G == {s \in SUBSET S : \A x \in s : Sum(s) = f[x] + Sum(s \ {x})}
<1>1. \A s \in SUBSET S : IsFiniteSet(s)
  BY FS_Subset
<1>2. \A s \in SUBSET S : Sum(s) \in Int
  BY <1>1, SumType
<1>3. {} \in G
  OBVIOUS
<1>4. ASSUME NEW s \in SUBSET S, s # {}, \A x \in s : s \ {x} \in G
      PROVE  s \in G
  <2> SUFFICES ASSUME NEW x \in s PROVE Sum(s) = f[x] + Sum(s \ {x})
    OBVIOUS
  <2>1. PICK c \in s : Sum(s) = f[c] + Sum(s \ {c})
    <3>1. IsFiniteSet(s)
      BY <1>1
    <3> QED  BY <1>4, <3>1, SumStep
  <2> SUFFICES ASSUME x # c PROVE Sum(s) = f[x] + Sum(s \ {x})
    BY <2>1
  <2>2. x \in s \ {c} /\ c \in s \ {x} /\ (s \ {c}) \ {x} = (s \ {x}) \ {c}
    OBVIOUS
  <2>3. Sum(s \ {c}) = f[x] + Sum((s \ {c}) \ {x})
    BY <1>4, <2>2
  <2>4. Sum(s \ {x}) = f[c] + Sum((s \ {x}) \ {c})
    BY <1>4, <2>2
  <2> DEFINE rest == Sum((s \ {x}) \ {c})
  <2>5. rest \in Int /\ f[x] \in Int /\ f[c] \in Int
    BY <1>2
  <2>6. Sum(s \ {c}) = f[x] + rest /\ Sum(s \ {x}) = f[c] + rest
    BY <2>2, <2>3, <2>4
  <2> HIDE DEF Sum, rest
  <2> QED  BY <2>1, <2>5, <2>6
<1>5. S \in G
  <2> HIDE DEF G
  <2> QED  BY <1>1, <1>3, <1>4, SubsetInduction
<1> QED  BY <1>5

LEMMA SumSingle ==
    ASSUME NEW e, NEW f, f[e] \in Int
    PROVE  SumFunctionOnSet(f, {e}) = f[e]
<1>1. IsFiniteSet({e}) /\ {e} \ {e} = {}
  BY FS_Singleton
<1>2. SumFunctionOnSet(f, {e}) = f[e] + SumFunctionOnSet(f, {e} \ {e})
  BY <1>1, SumRemove
<1> QED  BY <1>1, <1>2, SumEmpty

\* A sum of differences is the difference of the sums.
LEMMA SumMinus ==
    ASSUME NEW S, IsFiniteSet(S), NEW f, NEW g, NEW h,
           \A x \in S : f[x] \in Int /\ g[x] \in Int /\ h[x] = f[x] - g[x]
    PROVE  SumFunctionOnSet(h, S) =
               SumFunctionOnSet(f, S) - SumFunctionOnSet(g, S)
<1> DEFINE Sum(k, s) == SumFunctionOnSet(k, s)
           G == {s \in SUBSET S : Sum(h, s) = Sum(f, s) - Sum(g, s)}
<1>1. \A s \in SUBSET S : IsFiniteSet(s)
  BY FS_Subset
<1>2. \A s \in SUBSET S : Sum(f, s) \in Int /\ Sum(g, s) \in Int
  BY <1>1, SumType
<1>3. {} \in G
  BY SumEmpty
<1>4. ASSUME NEW s \in SUBSET S, s # {}, \A x \in s : s \ {x} \in G
      PROVE  s \in G
  <2>1. PICK x : x \in s
    BY <1>4
  <2>2. \A y \in s : h[y] \in Int /\ f[y] \in Int /\ g[y] \in Int
    OBVIOUS
  <2>3. /\ Sum(h, s) = h[x] + Sum(h, s \ {x})
        /\ Sum(f, s) = f[x] + Sum(f, s \ {x})
        /\ Sum(g, s) = g[x] + Sum(g, s \ {x})
    BY <1>1, <2>1, <2>2, SumRemove
  <2>4. Sum(h, s \ {x}) = Sum(f, s \ {x}) - Sum(g, s \ {x})
    BY <1>4, <2>1
  <2>5. s \ {x} \in SUBSET S /\ x \in S
    BY <2>1
  <2>6. /\ Sum(f, s \ {x}) \in Int /\ Sum(g, s \ {x}) \in Int
        /\ f[x] \in Int /\ g[x] \in Int /\ h[x] = f[x] - g[x]
    BY <1>2, <2>5
  <2> HIDE DEF Sum
  <2>7. Sum(h, s) = Sum(f, s) - Sum(g, s)
    BY <2>3, <2>4, <2>6
  <2> QED  BY <2>7
<1>5. S \in G
  <2> HIDE DEF G
  <2> QED  BY <1>1, <1>3, <1>4, SubsetInduction
<1> QED  BY <1>5

\* What is not summed over a part is summed over the rest.
LEMMA SumSplit ==
    ASSUME NEW S, IsFiniteSet(S), NEW f, \A x \in S : f[x] \in Int,
           NEW T, T \subseteq S
    PROVE  SumFunctionOnSet(f, S) =
               SumFunctionOnSet(f, T) + SumFunctionOnSet(f, S \ T)
<1> DEFINE Sum(s) == SumFunctionOnSet(f, s)
           G == {t \in SUBSET T : Sum(S) = Sum(t) + Sum(S \ t)}
<1>1. \A s \in SUBSET S : IsFiniteSet(s)
  BY FS_Subset
<1>2. \A s \in SUBSET S : Sum(s) \in Int
  BY <1>1, SumType
<1>3. {} \in G
  <2>1. Sum({}) = 0 /\ S \ {} = S /\ Sum(S) \in Int
    BY <1>2, SumEmpty
  <2> HIDE DEF Sum
  <2> QED  BY <2>1
<1>4. ASSUME NEW t \in SUBSET T, t # {}, \A x \in t : t \ {x} \in G
      PROVE  t \in G
  <2>1. PICK x : x \in t
    BY <1>4
  <2> DEFINE u == t \ {x}
  <2>2. Sum(t) = f[x] + Sum(u)
    BY <1>1, <2>1, SumRemove
  <2>3. x \in S \ u /\ (S \ u) \ {x} = S \ t /\ S \ u \in SUBSET S
    BY <2>1
  <2>4. Sum(S \ u) = f[x] + Sum(S \ t)
    <3>1. Sum(S \ u) = f[x] + Sum((S \ u) \ {x})
      BY <1>1, <2>3, SumRemove
    <3> QED  BY <2>3, <3>1
  <2>5. Sum(S) = Sum(u) + Sum(S \ u)
    BY <1>4, <2>1
  <2>6. /\ u \in SUBSET S /\ S \ t \in SUBSET S
        /\ Sum(u) \in Int /\ Sum(S \ t) \in Int /\ f[x] \in Int
    BY <1>2, <2>1
  <2> HIDE DEF Sum, u
  <2>7. Sum(S) = Sum(t) + Sum(S \ t)
    BY <2>2, <2>3, <2>4, <2>5, <2>6
  <2> QED  BY <2>7
<1>5. T \in G
  <2> HIDE DEF G
  <2>1. IsFiniteSet(T)
    BY <1>1
  <2> QED  BY <2>1, <1>3, <1>4, SubsetInduction
<1> QED  BY <1>5

\* Only what is not zero counts.
LEMMA SumZero ==
    ASSUME NEW S, IsFiniteSet(S), NEW f, \A x \in S : f[x] = 0
    PROVE  SumFunctionOnSet(f, S) = 0
<1> DEFINE G == {s \in SUBSET S : SumFunctionOnSet(f, s) = 0}
<1>1. {} \in G
  BY SumEmpty
<1>2. ASSUME NEW s \in SUBSET S, s # {}, \A x \in s : s \ {x} \in G
      PROVE  s \in G
  <2>1. PICK c \in s : SumFunctionOnSet(f, s) =
                            f[c] + SumFunctionOnSet(f, s \ {c})
    BY <1>2, FS_Subset, SumStep
  <2> QED  BY <1>2, <2>1
<1>3. S \in G
  <2> HIDE DEF G
  <2> QED  BY <1>1, <1>2, SubsetInduction
<1> QED  BY <1>3

\* A sum may be taken over other indices, one for each.
LEMMA SumReindex ==
    ASSUME NEW S, IsFiniteSet(S), NEW f, \A x \in S : f[x] \in Int,
           NEW g, NEW p, \A x, y \in S : p[x] = p[y] => x = y,
           \A x \in S : g[p[x]] = f[x]
    PROVE  SumFunctionOnSet(g, {p[x] : x \in S}) = SumFunctionOnSet(f, S)
<1> DEFINE Im(s) == {p[x] : x \in s}
           G == {s \in SUBSET S : /\ IsFiniteSet(Im(s))
                                  /\ SumFunctionOnSet(g, Im(s)) =
                                         SumFunctionOnSet(f, s)}
<1>1. \A s \in SUBSET S : IsFiniteSet(s)
  BY FS_Subset
<1>2. {} \in G
  <2>1. Im({}) = {}
    OBVIOUS
  <2> QED  BY <2>1, SumEmpty, FS_EmptySet
<1>3. ASSUME NEW s \in SUBSET S, s # {}, \A x \in s : s \ {x} \in G
      PROVE  s \in G
  <2>1. PICK x : x \in s
    BY <1>3
  <2> DEFINE t == s \ {x}
  <2>2. t \in G
    BY <1>3, <2>1
  <2>3. Im(s) = Im(t) \cup {p[x]} /\ p[x] \in Im(s) /\ Im(s) \ {p[x]} = Im(t)
    BY <2>1
  <2>4. IsFiniteSet(Im(s))
    <3>1. IsFiniteSet(Im(t))
      BY <2>2
    <3> HIDE DEF Im, t
    <3> QED  BY <2>3, <3>1, FS_AddElement
  <2>5. \A y \in Im(s) : g[y] \in Int
    OBVIOUS
  <2>6. SumFunctionOnSet(g, Im(s)) =
            g[p[x]] + SumFunctionOnSet(g, Im(s) \ {p[x]})
    <3> HIDE DEF Im
    <3> QED  BY <2>3, <2>4, <2>5, SumRemove
  <2>7. SumFunctionOnSet(f, s) = f[x] + SumFunctionOnSet(f, t)
    BY <1>1, <2>1, SumRemove
  <2> QED  BY <2>1, <2>2, <2>3, <2>4, <2>6, <2>7
<1>4. S \in G
  <2> HIDE DEF G
  <2> QED  BY <1>2, <1>3, SubsetInduction
<1> QED  BY <1>4

\* The sizes of disjoint sets add up to the size of all of them.
LEMMA SumOfSizes ==
    ASSUME NEW S, IsFiniteSet(S), NEW A, \A x \in S : IsFiniteSet(A[x]),
           \A x, y \in S : x # y => A[x] \cap A[y] = {},
           NEW f, \A x \in S : f[x] = Cardinality(A[x]),
           NEW U, \A u : u \in U <=> \E x \in S : u \in A[x]
    PROVE  IsFiniteSet(U) /\ SumFunctionOnSet(f, S) = Cardinality(U)
<1> DEFINE All(s) == UNION {A[x] : x \in s}
           G == {s \in SUBSET S : /\ IsFiniteSet(All(s))
                                  /\ SumFunctionOnSet(f, s) = Cardinality(All(s))}
<1>1. \A x \in S : f[x] \in Int
  BY FS_CardinalityType
<1>2. {} \in G
  <2>1. All({}) = {}
    OBVIOUS
  <2> QED  BY <2>1, SumEmpty, FS_EmptySet
<1>3. ASSUME NEW s \in SUBSET S, s # {}, \A x \in s : s \ {x} \in G
      PROVE  s \in G
  <2>1. PICK x : x \in s
    BY <1>3
  <2> DEFINE t == s \ {x}
  <2>2. t \in G
    BY <1>3, <2>1
  <2>3. All(s) = All(t) \cup A[x] /\ All(t) \cap A[x] = {}
    BY <2>1
  <2>4. /\ IsFiniteSet(All(s))
        /\ Cardinality(All(s)) = Cardinality(All(t)) + Cardinality(A[x])
    <3> HIDE DEF All
    <3>1. Cardinality({}) = 0 /\ IsFiniteSet(A[x]) /\ IsFiniteSet(All(t))
      BY <2>1, <2>2, FS_EmptySet DEF G
    <3>2. /\ IsFiniteSet(All(t) \cup A[x])
          /\ Cardinality(All(t) \cup A[x]) = Cardinality(All(t))
                + Cardinality(A[x]) - Cardinality(All(t) \cap A[x])
      BY <3>1, FS_Union
    <3>3. Cardinality(All(t)) \in Nat /\ Cardinality(A[x]) \in Nat
      BY <3>1, FS_CardinalityType
    <3>4. Cardinality(All(t) \cap A[x]) = 0
      BY <2>3, <3>1
    <3>5. IsFiniteSet(All(s)) /\ Cardinality(All(s)) = Cardinality(All(t) \cup A[x])
      BY <2>3, <3>2
    <3> HIDE DEF t
    <3> QED  BY <3>2, <3>3, <3>4, <3>5
  <2>5. SumFunctionOnSet(f, s) = f[x] + SumFunctionOnSet(f, t)
    <3>1. IsFiniteSet(s)
      BY FS_Subset
    <3> QED  BY <1>1, <2>1, <3>1, SumRemove
  <2>6. f[x] = Cardinality(A[x]) /\ f[x] \in Int
    BY <1>1, <2>1
  <2>7. IsFiniteSet(All(t)) /\ SumFunctionOnSet(f, t) = Cardinality(All(t))
    BY <2>2
  <2>8. Cardinality(All(t)) \in Nat
    BY <2>7, FS_CardinalityType
  <2> HIDE DEF All, t
  <2> QED  BY <2>4, <2>5, <2>6, <2>7, <2>8
<1>4. S \in G
  <2> HIDE DEF G
  <2> QED  BY <1>2, <1>3, SubsetInduction
<1>5. U = All(S)
  OBVIOUS
<1> QED  BY <1>4, <1>5
-----------------------------------------------------------------------------
(* Sequences *)

LEMMA SeqDomain ==
    ASSUME NEW T, NEW s \in Seq(T)
    PROVE  /\ Len(s) \in Nat /\ DOMAIN s = 1..Len(s)
           /\ IsFiniteSet(DOMAIN s) /\ Cardinality(DOMAIN s) = Len(s)
<1>1. Len(s) \in Nat /\ DOMAIN s = 1..Len(s)
  OBVIOUS
<1> QED  BY <1>1, FS_Interval

\* RowsByQid() has, for a question that is asked, the last row that asks it.
LEMMA LastRow ==
    ASSUME NEW T, NEW rows \in Seq(T), NEW k \in DOMAIN rows
    PROVE  \E i \in DOMAIN rows :
              /\ rows[i].qid = rows[k].qid
              /\ \A j \in DOMAIN rows : rows[j].qid = rows[k].qid => j <= i
              /\ RowsByQid(rows)[rows[k].qid] = rows[i]
<1> DEFINE q == rows[k].qid
           Is(i) == rows[i].qid = q /\ \A j \in DOMAIN rows : rows[j].qid = q => j <= i
           At == {i \in DOMAIN rows : rows[i].qid = q}
<1>1. Len(rows) \in Nat /\ DOMAIN rows = 1..Len(rows)
  OBVIOUS
<1>2. At \subseteq Nat /\ At # {} /\ \A m \in At : m <= Len(rows)
  BY <1>1
<1>3. \E i \in At : \A j \in At : j <= i
  <2> HIDE DEF At
  <2> QED  BY <1>1, <1>2, GreatestNat
<1>4. \E i \in DOMAIN rows : Is(i)
  BY <1>3
<1> DEFINE last == CHOOSE i \in DOMAIN rows : Is(i)
<1>5. last \in DOMAIN rows /\ Is(last)
  BY <1>4
<1>6. RowsByQid(rows)[q] = rows[last]
  BY DEF RowsByQid
<1> HIDE DEF last
<1> QED  BY <1>5, <1>6
-----------------------------------------------------------------------------
(* Evidence *)

\* Of a set with finitely many elements, those in two disjoint parts.
LEMMA TwoParts ==
    ASSUME NEW S, IsFiniteSet(S), NEW A, NEW B,
           S = A \cup B, A \cap B = {}
    PROVE  Cardinality(S) = Cardinality(A) + Cardinality(B)
<1>1. IsFiniteSet(A) /\ IsFiniteSet(B)
  BY FS_Subset
<1>2. Cardinality(A \cup B) =
          Cardinality(A) + Cardinality(B) - Cardinality(A \cap B)
  BY <1>1, FS_Union
<1>3. Cardinality(A) \in Nat /\ Cardinality(B) \in Nat
  BY <1>1, FS_CardinalityType
<1> QED  BY <1>2, <1>3, FS_EmptySet

LEMMA TheRest ==
    ASSUME NEW S, IsFiniteSet(S), NEW A, NEW B, S = A \cup B, A \cap B = {}
    PROVE  Cardinality(A) = Cardinality(S) - Cardinality(B)
<1>1. Cardinality(S) = Cardinality(A) + Cardinality(B)
  BY TwoParts
<1>2. Cardinality(A) \in Nat /\ Cardinality(B) \in Nat
  BY FS_Subset, FS_CardinalityType
<1> QED  BY <1>1, <1>2

\* An injection keeps the size of a set.
LEMMA SameSize ==
    ASSUME NEW S, IsFiniteSet(S), NEW p, \A x, y \in S : p[x] = p[y] => x = y
    PROVE  /\ IsFiniteSet({p[x] : x \in S})
           /\ Cardinality({p[x] : x \in S}) = Cardinality(S)
<1> DEFINE T == {p[x] : x \in S}
           f == [x \in S |-> p[x]]
<1>1. f \in Surjection(S, T) /\ f \in Injection(S, T)
  BY DEF Surjection, Injection, IsInjective
<1> QED  BY <1>1, FS_Surjection

\* The image of a finite set is finite.
LEMMA ImageFinite ==
    ASSUME NEW S, IsFiniteSet(S), NEW f
    PROVE  IsFiniteSet({f[x] : x \in S})
<1> DEFINE T == {f[x] : x \in S}
           g == [x \in S |-> f[x]]
<1>1. g \in Surjection(S, T)
  BY DEF Surjection
<1> QED  BY <1>1, FS_Surjection

\* Every verified evidence row is passed or failed by Atlas; the verified
\* rows of the three buckets and the unresolved ones are all of the oracle.
THEOREM EvidenceAddsUp ==
    ASSUME NEW oracle, IsSpec(oracle), NEW rows
    PROVE  LET r == Report(oracle, rows) IN
           /\ r.pass + r.fail = r.verified["evidence"]
           /\ r.verified["evidence"] + r.verified["context"]
                + r.verified["command"] + r.unresolved = Len(oracle.rows)
<1> DEFINE runtime == RowsByQid(rows)
           Is(result) == {i \in DOMAIN oracle.rows :
                             AtlasResult(oracle, i, runtime) = result}
           unresolved == {i \in DOMAIN oracle.rows : ~oracle.rows[i].verified}
           r == Report(oracle, rows)
<1>1. /\ Len(oracle.rows) \in Nat /\ IsFiniteSet(DOMAIN oracle.rows)
      /\ Cardinality(DOMAIN oracle.rows) = Len(oracle.rows)
  BY SeqDomain DEF IsSpec
<1>2. /\ r.pass = Cardinality(Is("pass")) /\ r.fail = Cardinality(Is("fail"))
      /\ r.unresolved = Cardinality(unresolved)
      /\ \A b \in Buckets : r.verified[b] = Cardinality(Rows(oracle, b))
  BY DEF Report
<1>3. Rows(oracle, "evidence") = Is("pass") \cup Is("fail")
  BY DEF Rows, AtlasResult
<1>4. Is("pass") \cap Is("fail") = {}
  OBVIOUS
<1>5. IsFiniteSet(Rows(oracle, "evidence"))
  BY <1>1, FS_Subset DEF Rows
<1>6. r.pass + r.fail = r.verified["evidence"]
  <2> HIDE DEF Is, r
  <2> QED  BY <1>2, <1>3, <1>4, <1>5, TwoParts DEF Buckets
<1> DEFINE ev == Rows(oracle, "evidence")
           cx == Rows(oracle, "context")
           cm == Rows(oracle, "command")
<1>7. DOMAIN oracle.rows = ev \cup (cx \cup (cm \cup unresolved))
  BY DEF IsSpec, Buckets, Rows, Has
<1>8. /\ ev \cap (cx \cup (cm \cup unresolved)) = {}
      /\ cx \cap (cm \cup unresolved) = {} /\ cm \cap unresolved = {}
  BY DEF Rows, Has
<1>9. Cardinality(DOMAIN oracle.rows) = Cardinality(ev) + (Cardinality(cx)
          + (Cardinality(cm) + Cardinality(unresolved)))
  <2> HIDE DEF ev, cx, cm, unresolved
  <2>1. IsFiniteSet(cx \cup (cm \cup unresolved)) /\ IsFiniteSet(cm \cup unresolved)
    BY <1>1, <1>7, FS_Subset
  <2>2. Cardinality(DOMAIN oracle.rows) =
            Cardinality(ev) + Cardinality(cx \cup (cm \cup unresolved))
    BY <1>1, <1>7, <1>8, TwoParts
  <2>3. Cardinality(cx \cup (cm \cup unresolved)) =
            Cardinality(cx) + Cardinality(cm \cup unresolved)
    BY <1>8, <2>1, TwoParts
  <2>4. Cardinality(cm \cup unresolved) = Cardinality(cm) + Cardinality(unresolved)
    BY <1>8, <2>1, TwoParts
  <2> QED  BY <2>2, <2>3, <2>4
<1>10. /\ Cardinality(ev) \in Nat /\ Cardinality(cx) \in Nat
       /\ Cardinality(cm) \in Nat /\ Cardinality(unresolved) \in Nat
  <2>1. IsFiniteSet(ev) /\ IsFiniteSet(cx) /\ IsFiniteSet(cm) /\ IsFiniteSet(unresolved)
    BY <1>1, FS_Subset DEF Rows
  <2> QED  BY <2>1, FS_CardinalityType
<1>11. r.verified["evidence"] + r.verified["context"]
          + r.verified["command"] + r.unresolved = Len(oracle.rows)
  <2> HIDE DEF r, unresolved
  <2> QED  BY <1>1, <1>2, <1>9, <1>10 DEF Buckets
<1> QED  BY <1>6, <1>11

\* If the verified evidence asks no question twice, Atlas passes no more of it
\* than there are receipts that passed.
THEOREM PassesAreEarned ==
    ASSUME NEW oracle, AsksOnce(oracle), NEW T, NEW rows \in Seq(T)
    PROVE  Report(oracle, rows).pass <= HowMany(rows, Passes)
<1> DEFINE runtime == RowsByQid(rows)
           passed == {i \in DOMAIN oracle.rows :
                         AtlasResult(oracle, i, runtime) = "pass"}
           earned == {k \in DOMAIN rows : Passes(rows[k])}
           by == [i \in passed |-> CHOOSE k \in earned :
                                       rows[k].qid = oracle.rows[i].qid]
<1>1. ASSUME NEW i \in passed
      PROVE  /\ i \in Rows(oracle, "evidence")
             /\ \E k \in earned : rows[k].qid = oracle.rows[i].qid
  <2>1. /\ Has(oracle, i, "evidence") /\ oracle.rows[i].qid \in DOMAIN runtime
        /\ Passes(runtime[oracle.rows[i].qid])
    BY DEF AtlasResult
  <2>2. PICK k \in DOMAIN rows : rows[k].qid = oracle.rows[i].qid
    BY <2>1 DEF RowsByQid
  <2>3. PICK j \in DOMAIN rows : /\ rows[j].qid = rows[k].qid
                                 /\ runtime[rows[k].qid] = rows[j]
    BY LastRow
  <2> QED  BY <2>1, <2>2, <2>3 DEF Rows
<1>2. \A i \in passed : by[i] \in earned /\ rows[by[i]].qid = oracle.rows[i].qid
  BY <1>1
<1>3. \A i, j \in passed : by[i] = by[j] => i = j
  BY <1>1, <1>2 DEF AsksOnce
<1>4. by \in Injection(passed, earned)
  BY <1>2, <1>3 DEF Injection, IsInjective
<1>5. IsFiniteSet(earned)
  BY SeqDomain, FS_Subset
<1>6. Cardinality(passed) <= Cardinality(earned)
  <2> HIDE DEF passed, earned, by
  <2> QED  BY <1>4, <1>5, FS_Injection
<1> QED  BY <1>6 DEF Report, HowMany
-----------------------------------------------------------------------------
(* Synthesis *)

\* The points an actor lost on a criterion, in the rows of the audit.
LossOf(c, actor) == {r \in AuditRows(c) : r.actor = actor}

LEMMA CriterionLoss ==
    ASSUME NEW oracle, IsSpec(oracle), Valid(oracle), InRange(oracle),
           NEW actor \in Actors, NEW k \in DOMAIN oracle.criteria
    PROVE  LET c == oracle.criteria[k] IN
           SumFunctionOnSet([r \in LossOf(c, actor) |-> r.lost], LossOf(c, actor))
               = c.possible - c.given[actor]
<1> DEFINE c == oracle.criteria[k]
           lost == LossOf(c, actor)
           f == [r \in lost |-> r.lost]
<1>1. c.possible \in Int /\ c.given[actor] \in Int
  BY DEF IsSpec
<1>2. CASE Subs(c) # {}
  <2> DEFINE g == [j \in Subs(c) |-> c.subs[j].points]
             got  == {j \in Subs(c) : c.subs[j].status[actor] = "covered"}
             miss == {j \in Subs(c) : /\ c.subs[j].points > 0
                                      /\ c.subs[j].status[actor] # "covered"}
             p == [j \in miss |-> [sub |-> j, actor |-> actor,
                                   lost |-> c.subs[j].points]]
  <2>1. IsFiniteSet(Subs(c)) /\ \A j \in Subs(c) : g[j] \in Int /\ g[j] >= 0
    BY SeqDomain DEF IsSpec, InRange, Subs
  <2>2. /\ c.possible = SumFunctionOnSet(g, Subs(c))
        /\ c.given[actor] = SumFunctionOnSet(g, got)
    BY <1>2 DEF Valid, SubPoints, Covered, SumFunction
  <2>3. SumFunctionOnSet(g, Subs(c)) =
            SumFunctionOnSet(g, got) + SumFunctionOnSet(g, Subs(c) \ got)
    <3> HIDE DEF g
    <3> QED  BY <2>1, SumSplit
  <2>4. SumFunctionOnSet(g, Subs(c) \ got) = SumFunctionOnSet(g, miss)
    <3> DEFINE rest == Subs(c) \ got
    <3>1. IsFiniteSet(rest) /\ miss \subseteq rest /\ IsFiniteSet(rest \ miss)
      BY <2>1, FS_Subset
    <3>2. \A j \in rest : g[j] \in Int
      BY <2>1
    <3>3. \A j \in rest \ miss : g[j] = 0
      BY <2>1
    <3>4. SumFunctionOnSet(g, rest) =
              SumFunctionOnSet(g, miss) + SumFunctionOnSet(g, rest \ miss)
      <4> HIDE DEF g, rest, miss
      <4> QED  BY <3>1, <3>2, SumSplit
    <3>5. SumFunctionOnSet(g, rest \ miss) = 0
      <4> HIDE DEF g, rest, miss
      <4> QED  BY <3>1, <3>3, SumZero
    <3>6. SumFunctionOnSet(g, miss) \in Int
      <4>1. IsFiniteSet(miss) /\ \A j \in miss : g[j] \in Int
        BY <2>1, FS_Subset
      <4> HIDE DEF g, miss
      <4> QED  BY <4>1, SumType
    <3> HIDE DEF g, rest, miss
    <3>7. SumFunctionOnSet(g, rest) = SumFunctionOnSet(g, miss)
      BY <3>4, <3>5, <3>6
    <3> QED  BY <3>7 DEF rest
  <2>5. lost = {p[j] : j \in miss}
    <3>1. \A r \in lost : \E j \in miss : r = p[j]
      BY <1>2 DEF LossOf, AuditRows
    <3>2. ASSUME NEW j \in miss PROVE p[j] \in lost
      <4>1. /\ <<j, actor>> \in Subs(c) \X Actors
            /\ <<j, actor>>[1] = j /\ <<j, actor>>[2] = actor
        OBVIOUS
      <4> QED  BY <1>2, <4>1 DEF LossOf, AuditRows
    <3> QED  BY <3>1, <3>2
  <2>6. SumFunctionOnSet(f, lost) = SumFunctionOnSet(g, miss)
    <3>1. IsFiniteSet(miss) /\ \A j \in miss : g[j] \in Int
      BY <2>1, FS_Subset
    <3>2. \A i, j \in miss : p[i] = p[j] => i = j
      OBVIOUS
    <3>3. \A j \in miss : f[p[j]] = g[j]
      BY <2>5
    <3> HIDE DEF g, miss, p, f
    <3>4. SumFunctionOnSet(f, {p[j] : j \in miss}) = SumFunctionOnSet(g, miss)
      BY <3>1, <3>2, <3>3, SumReindex
    <3> QED  BY <2>5, <3>4
  <2>7. SumFunctionOnSet(g, miss) \in Int
    <3>1. IsFiniteSet(miss) /\ \A j \in miss : g[j] \in Int
      BY <2>1, FS_Subset
    <3> HIDE DEF g, miss
    <3> QED  BY <3>1, SumType
  <2> HIDE DEF g, got, miss, f, lost, c
  <2>8. SumFunctionOnSet(f, lost) = c.possible - c.given[actor]
    BY <1>1, <2>2, <2>3, <2>4, <2>6, <2>7
  <2> QED  BY <2>8 DEF f, lost, c
<1>3. CASE Subs(c) = {}
  <2>1. c.given[actor] \in 0..c.possible
    BY <1>3 DEF InRange
  <2> DEFINE e == [sub |-> 0, actor |-> actor, lost |-> c.possible - c.given[actor]]
  <2>2. CASE c.given[actor] < c.possible
    <3>1. lost = {e} /\ f[e] = c.possible - c.given[actor] /\ f[e] \in Int
      BY <1>1, <1>3, <2>1, <2>2 DEF LossOf, AuditRows
    <3> HIDE DEF e, f, lost
    <3>2. SumFunctionOnSet(f, {e}) = f[e]
      BY <3>1, SumSingle
    <3>3. SumFunctionOnSet(f, lost) = c.possible - c.given[actor]
      BY <3>1, <3>2
    <3> QED  BY <3>3 DEF f, lost
  <2>3. CASE c.given[actor] >= c.possible
    <3>1. lost = {} /\ c.possible - c.given[actor] = 0
      BY <1>1, <1>3, <2>1, <2>3 DEF LossOf, AuditRows
    <3> QED  BY <3>1, SumEmpty
  <2> QED  BY <1>1, <2>2, <2>3
<1> QED  BY <1>2, <1>3

\* The audit of an oracle that validates accounts for exactly the points that
\* an actor did not get.
THEOREM AuditAddsUp ==
    ASSUME NEW oracle, IsSpec(oracle), Valid(oracle), InRange(oracle), NEW rows,
           NEW actor \in Actors
    PROVE  LET r == Report(oracle, rows)
           IN r.lost[actor] = r.possible - r.points[actor]
<1> DEFINE K == DOMAIN oracle.criteria
           h == [k \in K |-> SumFunctionOnSet(
                    [r \in LossOf(oracle.criteria[k], actor) |-> r.lost],
                    LossOf(oracle.criteria[k], actor))]
           f == [k \in K |-> oracle.criteria[k].possible]
           g == [k \in K |-> oracle.criteria[k].given[actor]]
<1>1. Report(oracle, rows).lost[actor] = SumFunctionOnSet(h, K)
  BY DEF Report, AuditLoss, LossOf, SumFunction
<1>2. /\ Report(oracle, rows).possible = SumFunctionOnSet(f, K)
      /\ Report(oracle, rows).points[actor] = SumFunctionOnSet(g, K)
  BY DEF Report, SumFunction
<1>3. \A k \in K : f[k] \in Int /\ g[k] \in Int /\ h[k] = f[k] - g[k]
  BY CriterionLoss DEF IsSpec
<1>4. IsFiniteSet(K)
  BY SeqDomain DEF IsSpec
<1> HIDE DEF K, h, f, g
<1>5. SumFunctionOnSet(h, K) = SumFunctionOnSet(f, K) - SumFunctionOnSet(g, K)
  BY <1>3, <1>4, SumMinus
<1> QED  BY <1>1, <1>2, <1>5
=============================================================================
