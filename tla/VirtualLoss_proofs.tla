------------------------ MODULE VirtualLoss_proofs ------------------------
(***************************************************************************)
(* Proofs about virtual loss, for every graph of nodes, every number of    *)
(* workers and every limit.  VirtualLoss counts with sums: the weights of  *)
(* the items, frames and tasks of all workers.  The first sections give    *)
(* sums, and totals over sequences, the laws they need; then come the      *)
(* inductive invariant IInv, the steps of a pick, which move weight        *)
(* between a frame and what it is replaced by, and the steps of a worker   *)
(* outside a pick, which move it between minibatch, shared collisions and  *)
(* n_in_flight.                                                            *)
(***************************************************************************)
EXTENDS VirtualLoss, FiniteSetTheorems, FunctionTheorems, SequenceTheorems,
        WellFoundedInduction, TLAPS

-----------------------------------------------------------------------------
(* Sums over finite sets: SumFunctionOnSet is a fold, about which nothing can be
   proved by induction on an operator, so the induction is on sets. *)

\* The set form of induction on the natural numbers.
LEMMA NatSet ==
  ASSUME NEW Z, 0 \in Z, \A n \in Nat : n \in Z => n + 1 \in Z
  PROVE  Nat \subseteq Z
<1> DEFINE R == OpToRel(<, Nat)
<1>1. IsWellFoundedOn(R, Nat) BY NatLessThanWellFounded, Zenon
<1>2. \A m, n \in Nat : m < n => <<m, n>> \in R BY DEF OpToRel
<1> HIDE DEF R
<1>3. SUFFICES ASSUME Nat \ Z # {} PROVE FALSE
  OBVIOUS
<1>4. Nat \ Z \subseteq Nat OBVIOUS
<1>5. PICK n \in Nat \ Z : \A m \in Nat \ Z : ~ (<<m, n>> \in R)
  BY <1>1, <1>3, <1>4, WFMin, Zenon
<1>6. n # 0 BY <1>5
<1>7. n - 1 \in Nat /\ n - 1 < n BY <1>6, SMT
<1>8. n - 1 \in Z BY <1>2, <1>5, <1>7, Zenon
<1> QED BY <1>5, <1>7, <1>8, SMT

\* The set form of induction on finite sets.
LEMMA FiniteSubsets ==
  ASSUME NEW S, IsFiniteSet(S), NEW Z, {} \in Z,
         \A T \in SUBSET S, x \in S : T \in Z /\ x \notin T => T \cup {x} \in Z
  PROVE  S \in Z
<1> DEFINE Sized(n) == \A T \in SUBSET S : Cardinality(T) = n => T \in Z
           N == {n \in Nat : Sized(n)}
<1>1. \A T \in SUBSET S : IsFiniteSet(T) /\ Cardinality(T) \in Nat
  BY FS_Subset, FS_CardinalityType
<1>2. 0 \in N
  BY <1>1, FS_EmptySet, Zenon
<1>3. ASSUME NEW n \in Nat, n \in N PROVE n + 1 \in N
  <2> SUFFICES ASSUME NEW T \in SUBSET S, Cardinality(T) = n + 1 PROVE T \in Z
    OBVIOUS
  <2>1. T # {} BY FS_EmptySet, SMT
  <2>2. PICK x \in T : TRUE BY <2>1
  <2>6. Cardinality(T \ {x}) = Cardinality(T) - 1 BY <1>1, <2>2, FS_RemoveElement, Zenon
  <2>3. Cardinality(T \ {x}) = n BY <2>6
  <2>4. T \ {x} \in Z BY <1>3, <2>3
  <2>5. (T \ {x}) \cup {x} = T BY <2>2
  <2> QED BY <2>2, <2>4, <2>5
<1> HIDE DEF N
<1>4. Nat \subseteq N BY <1>2, <1>3, NatSet
<1> QED BY <1>1, <1>4 DEF N

-----------------------------------------------------------------------------
Some(s) == CHOOSE x \in s : TRUE
FoldStep(f, g, s) == IF s = {} THEN 0 ELSE f[Some(s)] + g[s \ {Some(s)}]

IsFold(f, g, S) == \A s \in SUBSET S : g[s] = FoldStep(f, g, s)

\* What the recursion of a fold takes out of a set is one of its elements.
LEMMA SomeIs == \A s : s # {} => Some(s) \in s
BY DEF Some

\* SumFunctionOnSet is defined: there is a function that its recursion defines.
LEMMA FoldExists ==
  ASSUME NEW f, NEW S, IsFiniteSet(S)
  PROVE  \E g : g = [s \in SUBSET S |-> FoldStep(f, g, s)]
<1> DEFINE UpTo(n) == {s \in SUBSET S : Cardinality(s) <= n}
           N == {n \in Nat : \E g : g = [s \in UpTo(n) |-> FoldStep(f, g, s)]}
<1>1. \A s \in SUBSET S : IsFiniteSet(s) /\ Cardinality(s) \in Nat
  BY FS_Subset, FS_CardinalityType
<1>2. 0 \in N
  <2> DEFINE g == [s \in UpTo(0) |-> 0]
  <2>1. \A s \in UpTo(0) : s = {} BY <1>1, FS_EmptySet, SMT
  <2>2. \A s \in UpTo(0) : FoldStep(f, g, s) = 0 BY <2>1 DEF FoldStep
  <2>3. g = [s \in UpTo(0) |-> FoldStep(f, g, s)] BY <2>2, Zenon
  <2> QED BY <2>3, Zenon
<1>3. ASSUME NEW n \in Nat, n \in N PROVE n + 1 \in N
  <2>1. PICK g : g = [s \in UpTo(n) |-> FoldStep(f, g, s)] BY <1>3, Zenon
  <2> DEFINE h == [s \in UpTo(n + 1) |-> FoldStep(f, g, s)]
  <2>2. ASSUME NEW s \in UpTo(n + 1) PROVE FoldStep(f, h, s) = FoldStep(f, g, s)
    <3>1. CASE s = {} BY <3>1 DEF FoldStep
    <3>2. CASE s # {}
      <4> DEFINE u == s \ {Some(s)}
      <4>1. Some(s) \in s BY <3>2, SomeIs
      <4>2. Cardinality(u) = Cardinality(s) - 1 BY <1>1, <4>1, FS_RemoveElement
      <4>3. u \in UpTo(n) /\ u \in UpTo(n + 1) BY <1>1, <4>2, SMT
      <4> HIDE DEF u
      <4>4. g[u] = FoldStep(f, g, u) BY <2>1, <4>3, Zenon
      <4>5. h[u] = FoldStep(f, g, u) BY <4>3
      <4>6. h[u] = g[u] BY <4>4, <4>5, Zenon
      <4> QED BY <3>2, <4>6 DEF FoldStep, u
    <3> QED BY <3>1, <3>2
  <2>3. h = [s \in UpTo(n + 1) |-> FoldStep(f, h, s)] BY <2>2, Zenon
  <2> HIDE DEF h
  <2> QED BY <2>3
<1> HIDE DEF N
<1>4. Cardinality(S) \in N BY <1>1, <1>2, <1>3, NatSet
<1>5. UpTo(Cardinality(S)) = SUBSET S BY <1>1, FS_Subset
<1> QED BY <1>4, <1>5, Zenon DEF N

\* What the recursion leaves: the sum over S and over all its subsets.
LEMMA FoldIs ==
  ASSUME NEW f, NEW S, IsFiniteSet(S)
  PROVE  \E g : IsFold(f, g, S) /\ SumFunctionOnSet(f, S) = g[S]
<1> DEFINE g == CHOOSE g : g = [s \in SUBSET S |-> FoldStep(f, g, s)]
<1>1. g = [s \in SUBSET S |-> FoldStep(f, g, s)] BY FoldExists, Zenon
<1>2. SumFunctionOnSet(f, S) = g[S]
  BY DEF SumFunctionOnSet, FoldFunctionOnSet, MapThenFoldSet, FoldStep, Some
<1> HIDE DEF g
<1>3. IsFold(f, g, S) BY <1>1, Zenon DEF IsFold
<1> QED BY <1>2, <1>3

\* The sum over any subset is that of the recursion for the whole set.
LEMMA FoldUnique ==
  ASSUME NEW f, NEW S, IsFiniteSet(S), NEW g, NEW h,
         IsFold(f, g, S), IsFold(f, h, S)
  PROVE  g[S] = h[S]
<1> DEFINE Sized(n) == \A s \in SUBSET S : Cardinality(s) = n => g[s] = h[s]
           N == {n \in Nat : Sized(n)}
<1>1. \A s \in SUBSET S : IsFiniteSet(s) /\ Cardinality(s) \in Nat
  BY FS_Subset, FS_CardinalityType
<1>2. 0 \in N
  BY <1>1, FS_EmptySet, Zenon DEF FoldStep, IsFold
<1>3. ASSUME NEW n \in Nat, n \in N PROVE n + 1 \in N
  <2> SUFFICES ASSUME NEW s \in SUBSET S, Cardinality(s) = n + 1 PROVE g[s] = h[s]
    OBVIOUS
  <2> DEFINE u == s \ {Some(s)}
  <2>1. s # {} BY FS_EmptySet, SMT
  <2>2. Some(s) \in s BY <2>1, SomeIs
  <2>3. Cardinality(u) = n BY <1>1, <2>2, FS_RemoveElement, SMT
  <2>4. g[u] = h[u] BY <1>3, <2>3
  <2> QED BY <2>1, <2>4, Zenon DEF FoldStep, IsFold
<1> HIDE DEF N
<1>4. Cardinality(S) \in N BY <1>1, <1>2, <1>3, NatSet
<1> QED BY <1>4 DEF N

\* One step of the recursion, for any finite set.
LEMMA SumStep ==
  ASSUME NEW f, NEW S, IsFiniteSet(S)
  PROVE  SumFunctionOnSet(f, S) =
           IF S = {} THEN 0 ELSE f[Some(S)] + SumFunctionOnSet(f, S \ {Some(S)})
<1>1. PICK g : IsFold(f, g, S) /\ SumFunctionOnSet(f, S) = g[S]
  BY FoldIs
<1> DEFINE T == S \ {Some(S)}
<1>2. IsFiniteSet(T) /\ T \subseteq S BY FS_Subset
<1> HIDE DEF T
<1>3. PICK h : IsFold(f, h, T) /\ SumFunctionOnSet(f, T) = h[T]
  BY <1>2, FoldIs
<1>4. IsFold(f, g, T) BY <1>1, <1>2 DEF IsFold
<1>5. g[T] = h[T] BY <1>2, <1>3, <1>4, FoldUnique
<1>6. g[S] = FoldStep(f, g, S) BY <1>1 DEF IsFold
<1> QED BY <1>1, <1>3, <1>5, <1>6, Zenon DEF FoldStep, T

-----------------------------------------------------------------------------

\* Nothing adds up to nothing.
LEMMA SumEmpty == \A f : SumFunctionOnSet(f, {}) = 0
BY SumStep, FS_EmptySet

\* A sum of integers is one.
LEMMA SumType ==
  ASSUME NEW f, NEW S, IsFiniteSet(S), \A x \in S : f[x] \in Int
  PROVE  SumFunctionOnSet(f, S) \in Int
<1> DEFINE Sized(n) == \A s \in SUBSET S : Cardinality(s) = n => SumFunctionOnSet(f, s) \in Int
           N == {n \in Nat : Sized(n)}
<1>1. \A s \in SUBSET S : IsFiniteSet(s) /\ Cardinality(s) \in Nat
  BY FS_Subset, FS_CardinalityType
<1>2. 0 \in N
  BY <1>1, FS_EmptySet, SumEmpty
<1>3. ASSUME NEW n \in Nat, n \in N PROVE n + 1 \in N
  <2> SUFFICES ASSUME NEW s \in SUBSET S, Cardinality(s) = n + 1
               PROVE  SumFunctionOnSet(f, s) \in Int
    OBVIOUS
  <2> DEFINE x == Some(s)
  <2>1. s # {} BY FS_EmptySet, SMT
  <2>2. x \in s BY <2>1, SomeIs
  <2>3. Cardinality(s \ {x}) = Cardinality(s) - 1 BY <1>1, <2>2, FS_RemoveElement, Zenon
  <2>4. SumFunctionOnSet(f, s \ {x}) \in Int BY <1>3, <2>3
  <2>5. SumFunctionOnSet(f, s) = f[x] + SumFunctionOnSet(f, s \ {x})
    BY <1>1, <2>1, SumStep
  <2> QED BY <2>2, <2>4, <2>5
<1> HIDE DEF N
<1>4. Cardinality(S) \in N BY <1>1, <1>2, <1>3, NatSet
<1> QED BY <1>4 DEF N

\* A sum does not depend on the order.
LEMMA SumRemove ==
  ASSUME NEW f, NEW S, IsFiniteSet(S), \A x \in S : f[x] \in Int, NEW x \in S
  PROVE  SumFunctionOnSet(f, S) = f[x] + SumFunctionOnSet(f, S \ {x})
<1> DEFINE Agrees(s) == \A y \in s : SumFunctionOnSet(f, s) = f[y] + SumFunctionOnSet(f, s \ {y})
           Sized(n) == \A s \in SUBSET S : Cardinality(s) = n => Agrees(s)
           N == {n \in Nat : Sized(n)}
<1>1. \A s \in SUBSET S : IsFiniteSet(s) /\ Cardinality(s) \in Nat
  BY FS_Subset, FS_CardinalityType
<1>2. 0 \in N
  BY <1>1, FS_EmptySet
<1>3. ASSUME NEW n \in Nat, n \in N PROVE n + 1 \in N
  <2> SUFFICES ASSUME NEW s \in SUBSET S, Cardinality(s) = n + 1, NEW y \in s
               PROVE  SumFunctionOnSet(f, s) = f[y] + SumFunctionOnSet(f, s \ {y})
    OBVIOUS
  <2> DEFINE z == Some(s)
  <2>1. z \in s BY SomeIs
  <2>2. SumFunctionOnSet(f, s) = f[z] + SumFunctionOnSet(f, s \ {z})
    BY <1>1, SumStep
  <2> HIDE DEF z
  <2>3. CASE y = z BY <2>2, <2>3
  <2>4. CASE y # z
    <3> DEFINE u == s \ {y, z}
    <3>1. Cardinality(s \ {y}) = Cardinality(s) - 1 BY <1>1, FS_RemoveElement
    <3>2. Cardinality(s \ {z}) = Cardinality(s) - 1 BY <1>1, <2>1, FS_RemoveElement, Zenon
    <3>3. Agrees(s \ {y}) /\ Agrees(s \ {z}) BY <1>3, <3>1, <3>2
    <3>4. (s \ {y}) \ {z} = u /\ (s \ {z}) \ {y} = u OBVIOUS
    <3>5. SumFunctionOnSet(f, s \ {y}) = f[z] + SumFunctionOnSet(f, u)
      BY <2>1, <2>4, <3>3, <3>4, Zenon
    <3>6. SumFunctionOnSet(f, s \ {z}) = f[y] + SumFunctionOnSet(f, u)
      BY <2>4, <3>3, <3>4, Zenon
    <3>7. f[y] \in Int /\ f[z] \in Int BY <2>1
    <3>8. SumFunctionOnSet(f, u) \in Int
      <4>1. IsFiniteSet(u) BY <1>1
      <4> QED BY <4>1, SumType
    <3> QED BY <2>2, <3>5, <3>6, <3>7, <3>8
  <2> QED BY <2>3, <2>4
<1> HIDE DEF N
<1>4. Cardinality(S) \in N BY <1>1, <1>2, <1>3, NatSet
<1> QED BY <1>4 DEF N

\* One more element.
LEMMA SumAdd ==
  ASSUME NEW f, NEW S, IsFiniteSet(S), \A y \in S : f[y] \in Int,
         NEW x, x \notin S, f[x] \in Int
  PROVE  SumFunctionOnSet(f, S \cup {x}) = f[x] + SumFunctionOnSet(f, S)
<1>1. IsFiniteSet(S \cup {x}) BY FS_AddElement
<1>2. (S \cup {x}) \ {x} = S OBVIOUS
<1> QED BY <1>1, <1>2, SumRemove

\* A sum depends on the values only, and is linear in them.
LEMMA SumLinear ==
  ASSUME NEW f, NEW g, NEW h, NEW S, IsFiniteSet(S),
         \A x \in S : f[x] \in Int /\ g[x] \in Int /\ h[x] = f[x] + g[x]
  PROVE  SumFunctionOnSet(h, S) = SumFunctionOnSet(f, S) + SumFunctionOnSet(g, S)
<1> DEFINE Z == {s \in SUBSET S : SumFunctionOnSet(h, s) = SumFunctionOnSet(f, s) + SumFunctionOnSet(g, s)}
<1>1. {} \in Z BY SumEmpty
<1>2. ASSUME NEW T \in SUBSET S, NEW x \in S, T \in Z, x \notin T PROVE T \cup {x} \in Z
  <2>1. IsFiniteSet(T) BY FS_Subset
  <2>2. SumFunctionOnSet(f, T) \in Int /\ SumFunctionOnSet(g, T) \in Int BY <2>1, SumType
  <2>3. SumFunctionOnSet(f, T \cup {x}) = f[x] + SumFunctionOnSet(f, T) BY <1>2, <2>1, SumAdd
  <2>4. SumFunctionOnSet(g, T \cup {x}) = g[x] + SumFunctionOnSet(g, T) BY <1>2, <2>1, SumAdd
  <2>5. SumFunctionOnSet(h, T \cup {x}) = h[x] + SumFunctionOnSet(h, T)
    <3>1. \A y \in S : h[y] \in Int OBVIOUS
    <3> QED BY <1>2, <2>1, <3>1, SumAdd
  <2> QED BY <1>2, <2>2, <2>3, <2>4, <2>5
<1> HIDE DEF Z
<1>3. S \in Z BY <1>1, <1>2, FiniteSubsets, Zenon
<1> QED BY <1>3 DEF Z

\* A sum of zeros.
LEMMA SumZero ==
  ASSUME NEW f, NEW S, IsFiniteSet(S), \A x \in S : f[x] = 0
  PROVE  SumFunctionOnSet(f, S) = 0
<1> DEFINE Z == {s \in SUBSET S : SumFunctionOnSet(f, s) = 0}
<1>1. {} \in Z BY SumEmpty
<1>2. ASSUME NEW T \in SUBSET S, NEW x \in S, T \in Z, x \notin T PROVE T \cup {x} \in Z
  <2>1. IsFiniteSet(T) BY FS_Subset
  <2>2. SumFunctionOnSet(f, T \cup {x}) = f[x] + SumFunctionOnSet(f, T) BY <1>2, <2>1, SumAdd
  <2> QED BY <1>2, <2>2
<1> HIDE DEF Z
<1>3. S \in Z BY <1>1, <1>2, FiniteSubsets, Zenon
<1> QED BY <1>3 DEF Z

\* The same values on the same set.
LEMMA SumSame ==
  ASSUME NEW f, NEW g, NEW S, IsFiniteSet(S),
         \A x \in S : f[x] \in Int /\ g[x] = f[x]
  PROVE  SumFunctionOnSet(g, S) = SumFunctionOnSet(f, S)
<1> DEFINE z == [x \in S |-> 0]
<1>1. SumFunctionOnSet(z, S) = 0 BY SumZero
<1>2. SumFunctionOnSet(g, S) = SumFunctionOnSet(f, S) + SumFunctionOnSet(z, S)
  BY SumLinear
<1>3. SumFunctionOnSet(f, S) \in Int BY SumType
<1> QED BY <1>1, <1>2, <1>3

\* A sum of natural numbers is one.
LEMMA SumNat ==
  ASSUME NEW f, NEW S, IsFiniteSet(S), \A x \in S : f[x] \in Nat
  PROVE  SumFunctionOnSet(f, S) \in Nat
<1> DEFINE Z == {s \in SUBSET S : SumFunctionOnSet(f, s) \in Nat}
<1>1. {} \in Z BY SumEmpty
<1>2. ASSUME NEW T \in SUBSET S, NEW x \in S, T \in Z, x \notin T PROVE T \cup {x} \in Z
  <2>1. IsFiniteSet(T) BY FS_Subset
  <2>2. SumFunctionOnSet(f, T \cup {x}) = f[x] + SumFunctionOnSet(f, T) BY <1>2, <2>1, SumAdd
  <2> QED BY <1>2, <2>2
<1> HIDE DEF Z
<1>3. S \in Z BY <1>1, <1>2, FiniteSubsets, Zenon
<1> QED BY <1>3 DEF Z

\* Values that are no greater sum up to no more.
LEMMA SumMonotone ==
  ASSUME NEW f, NEW g, NEW S, IsFiniteSet(S),
         \A x \in S : f[x] \in Int /\ g[x] \in Int /\ f[x] <= g[x]
  PROVE  SumFunctionOnSet(f, S) <= SumFunctionOnSet(g, S)
<1> DEFINE d == [x \in S |-> g[x] - f[x]]
<1>1. SumFunctionOnSet(d, S) \in Nat BY SumNat
<1>2. \A x \in S : d[x] \in Int /\ g[x] = f[x] + d[x] OBVIOUS
<1> HIDE DEF d
<1>3. SumFunctionOnSet(g, S) = SumFunctionOnSet(f, S) + SumFunctionOnSet(d, S)
  BY <1>2, SumLinear
<1>4. SumFunctionOnSet(f, S) \in Int BY SumType
<1> QED BY <1>1, <1>3, <1>4

\* One value changes.
LEMMA SumChange ==
  ASSUME NEW f, NEW g, NEW S, IsFiniteSet(S), NEW x \in S,
         \A y \in S : f[y] \in Int /\ g[y] \in Int /\ (y # x => g[y] = f[y])
  PROVE  SumFunctionOnSet(g, S) = SumFunctionOnSet(f, S) - f[x] + g[x]
<1> DEFINE T == S \ {x}
<1>1. IsFiniteSet(T) /\ \A y \in T : f[y] \in Int /\ g[y] = f[y] BY FS_RemoveElement
<1>2. SumFunctionOnSet(f, S) = f[x] + SumFunctionOnSet(f, T) BY SumRemove
<1>3. SumFunctionOnSet(g, S) = g[x] + SumFunctionOnSet(g, T) BY SumRemove
<1> HIDE DEF T
<1>4. SumFunctionOnSet(g, T) = SumFunctionOnSet(f, T) BY <1>1, SumSame
<1>5. SumFunctionOnSet(f, T) \in Int BY <1>1, SumType
<1> QED BY <1>2, <1>3, <1>4, <1>5

\* The same values at other places.
LEMMA SumMoved ==
  ASSUME NEW f, NEW g, NEW A, NEW B, IsFiniteSet(A), IsFiniteSet(B), NEW b \in Bijection(A, B),
         \A k \in A : g[k] = f[b[k]], \A y \in B : f[y] \in Int
  PROVE  SumFunctionOnSet(g, A) = SumFunctionOnSet(f, B)
<1> DEFINE From(T) == {k \in A : b[k] \in T}
           Z == {T \in SUBSET B : SumFunctionOnSet(g, From(T)) = SumFunctionOnSet(f, T)}
<1>b. b \in [A -> B] /\ (\A k, l \in A : b[k] = b[l] => k = l) /\ (\A y \in B : \E k \in A : b[k] = y)
  BY DEF Bijection, Injection, Surjection, IsInjective
<1>1. {} \in Z
  <2>1. From({}) = {} OBVIOUS
  <2> QED BY <2>1, SumEmpty
<1>2. ASSUME NEW T \in SUBSET B, NEW y \in B, T \in Z, y \notin T PROVE T \cup {y} \in Z
  <2>1. PICK k \in A : b[k] = y BY <1>b
  <2>2. From(T \cup {y}) = From(T) \cup {k} BY <1>b, <2>1
  <2>3. k \notin From(T) BY <1>2, <2>1
  <2>4. IsFiniteSet(From(T)) /\ IsFiniteSet(T) BY FS_Subset
  <2>5. \A l \in A : g[l] \in Int BY <1>b
  <2>6. SumFunctionOnSet(g, From(T) \cup {k}) = g[k] + SumFunctionOnSet(g, From(T))
    <3>1. From(T) \subseteq A OBVIOUS
    <3> HIDE DEF From
    <3> QED BY <2>3, <2>4, <2>5, <3>1, SumAdd
  <2>7. SumFunctionOnSet(f, T \cup {y}) = f[y] + SumFunctionOnSet(f, T) BY <1>2, <2>4, SumAdd
  <2> QED BY <1>2, <2>1, <2>2, <2>6, <2>7, Zenon
<1> HIDE DEF Z
<1>3. B \in Z BY <1>1, <1>2, FiniteSubsets, Zenon
<1>4. From(B) = A BY <1>b
<1> QED BY <1>3, <1>4 DEF Z

\* Two sets with nothing in common.
LEMMA SumUnion ==
  ASSUME NEW f, NEW A, NEW B, IsFiniteSet(A), IsFiniteSet(B), A \cap B = {},
         \A x \in A \cup B : f[x] \in Int
  PROVE  SumFunctionOnSet(f, A \cup B) = SumFunctionOnSet(f, A) + SumFunctionOnSet(f, B)
<1> DEFINE Z == {T \in SUBSET B : SumFunctionOnSet(f, A \cup T)
                                    = SumFunctionOnSet(f, A) + SumFunctionOnSet(f, T)}
<1>0. SumFunctionOnSet(f, A) \in Int BY SumType
<1>1. {} \in Z
  <2>1. A \cup {} = A OBVIOUS
  <2> QED BY <1>0, <2>1, SumEmpty
<1>2. ASSUME NEW T \in SUBSET B, NEW y \in B, T \in Z, y \notin T PROVE T \cup {y} \in Z
  <2>1. IsFiniteSet(T) BY FS_Subset
  <2>2. IsFiniteSet(A \cup T) BY <2>1, FS_Union, Zenon
  <2>3. SumFunctionOnSet(f, T \cup {y}) = f[y] + SumFunctionOnSet(f, T) BY <1>2, <2>1, SumAdd
  <2>4. y \notin A \cup T BY <1>2
  <2>5. SumFunctionOnSet(f, (A \cup T) \cup {y}) = f[y] + SumFunctionOnSet(f, A \cup T)
    BY <2>2, <2>4, SumAdd
  <2>6. (A \cup T) \cup {y} = A \cup (T \cup {y}) OBVIOUS
  <2>7. SumFunctionOnSet(f, T) \in Int BY <2>1, SumType
  <2>8. SumFunctionOnSet(f, A \cup T) = SumFunctionOnSet(f, A) + SumFunctionOnSet(f, T)
    BY <1>2
  <2>9. f[y] \in Int OBVIOUS
  <2>10. SumFunctionOnSet(f, A \cup (T \cup {y}))
           = SumFunctionOnSet(f, A) + SumFunctionOnSet(f, T \cup {y})
    <3>1. SumFunctionOnSet(f, A \cup (T \cup {y})) = f[y] + SumFunctionOnSet(f, A \cup T)
      BY <2>5, <2>6, Zenon
    <3> QED BY <1>0, <2>3, <2>7, <2>8, <2>9, <3>1
  <2> QED BY <2>10
<1> HIDE DEF Z
<1>3. B \in Z BY <1>1, <1>2, FiniteSubsets, Zenon
<1> QED BY <1>3 DEF Z

-----------------------------------------------------------------------------
(* Subsequences, by induction on the prefix. *)

SubStep(s, K, g, n) ==
  IF n = 0 THEN <<>>
  ELSE IF n \in K THEN Append(g[n - 1], s[n]) ELSE g[n - 1]

\* The recursion of Subsequence defines a function.
LEMMA SubExists ==
  ASSUME NEW s, NEW K, NEW m \in Nat
  PROVE  \E g : g = [n \in 0..m |-> SubStep(s, K, g, n)]
<1> DEFINE N == {j \in Nat : \E g : g = [n \in 0..j |-> SubStep(s, K, g, n)]}
<1>1. 0 \in N
  <2> DEFINE g == [n \in 0..0 |-> <<>>]
  <2>1. \A n \in 0..0 : SubStep(s, K, g, n) = <<>> BY DEF SubStep
  <2>2. g = [n \in 0..0 |-> SubStep(s, K, g, n)] BY <2>1, Zenon
  <2> QED BY <2>2
<1>2. ASSUME NEW j \in Nat, j \in N PROVE j + 1 \in N
  <2>1. PICK g : g = [n \in 0..j |-> SubStep(s, K, g, n)] BY <1>2
  <2> DEFINE h == [n \in 0..(j + 1) |-> SubStep(s, K, g, n)]
  <2>2. ASSUME NEW n \in 0..(j + 1) PROVE SubStep(s, K, h, n) = SubStep(s, K, g, n)
    <3>1. CASE n = 0 BY <3>1 DEF SubStep
    <3>2. CASE n # 0
      <4>1. n - 1 \in 0..j /\ n - 1 \in 0..(j + 1) BY <3>2
      <4>2. g[n - 1] = SubStep(s, K, g, n - 1) BY <2>1, <4>1, Zenon
      <4>3. h[n - 1] = SubStep(s, K, g, n - 1) BY <4>1
      <4>4. h[n - 1] = g[n - 1] BY <4>2, <4>3, Zenon
      <4> HIDE DEF h
      <4> QED BY <3>2, <4>4, Zenon DEF SubStep
    <3> QED BY <3>1, <3>2
  <2>3. h = [n \in 0..(j + 1) |-> SubStep(s, K, h, n)] BY <2>2, Zenon
  <2> HIDE DEF h
  <2> QED BY <2>3
<1> HIDE DEF N
<1>3. m \in N BY <1>1, <1>2, NatSet
<1> QED BY <1>3 DEF N

\* Subsequence(s, K) has the elements of s at K, none before its index in s.
LEMMA SubsequenceIs ==
  ASSUME NEW T, NEW s \in Seq(T), NEW K \in SUBSET DOMAIN s
  PROVE  /\ Subsequence(s, K) \in Seq(T)
         /\ \E e \in Bijection(DOMAIN Subsequence(s, K), K) :
              \A k \in DOMAIN Subsequence(s, K) :
                e[k] >= k /\ Subsequence(s, K)[k] = s[e[k]]
<1> DEFINE g == CHOOSE g : g = [n \in 0..Len(s) |-> SubStep(s, K, g, n)]
<1>0. Len(s) \in Nat OBVIOUS
<1>1. g = [n \in 0..Len(s) |-> SubStep(s, K, g, n)]
  BY <1>0, SubExists, Zenon
<1>2. Subsequence(s, K) = g[Len(s)]
  BY Zenon DEF Subsequence, SubStep
<1> HIDE DEF g
<1>3. \A n \in 0..Len(s) : g[n] = SubStep(s, K, g, n) BY <1>1, Zenon
<1> DEFINE Is(q, L, n) ==
             /\ q \in Seq(T) /\ Len(q) <= n
             /\ \E e \in Bijection(1..Len(q), L) :
                  \A k \in 1..Len(q) : e[k] >= k /\ q[k] = s[e[k]]
           N == {n \in Nat : n <= Len(s) => Is(g[n], K \cap (1..n), n)}
<1> HIDE DEF Is
<1>4. 0 \in N
  <2>1. g[0] = <<>> BY <1>3 DEF SubStep
  <2>2. K \cap (1..0) = {} BY SMT
  <2>3. [k \in {} |-> 0] \in Bijection(1..0, {})
    BY SMT DEF Bijection, Injection, Surjection, IsInjective
  <2>4. Is(<<>>, {}, 0)
    <3>1. <<>> \in Seq(T) /\ Len(<<>>) = 0 /\ \A k \in 1..0 : FALSE OBVIOUS
    <3> QED BY <2>3, <3>1 DEF Is
  <2> QED BY <2>1, <2>2, <2>4
<1>5. ASSUME NEW n \in Nat, n \in N PROVE n + 1 \in N
  <2> SUFFICES ASSUME n + 1 <= Len(s) PROVE Is(g[n + 1], K \cap (1..(n + 1)), n + 1)
    OBVIOUS
  <2> DEFINE q == g[n] L == K \cap (1..n)
  <2>1. Is(q, L, n) BY <1>5
  <2>2. g[n + 1] = IF n + 1 \in K THEN Append(q, s[n + 1]) ELSE q BY <1>3 DEF SubStep
  <2>3. CASE n + 1 \notin K
    <3>1. K \cap (1..(n + 1)) = L BY <2>3
    <3>2. Is(q, L, n + 1) BY <2>1 DEF Is
    <3> QED BY <2>2, <2>3, <3>1, <3>2, Zenon
  <2>4. CASE n + 1 \in K
    <3>1. PICK e \in Bijection(1..Len(q), L) :
             \A k \in 1..Len(q) : e[k] >= k /\ q[k] = s[e[k]]
      BY <2>1 DEF Is
    <3> DEFINE r == Append(q, s[n + 1])
               M == L \cup {n + 1}
               d == [k \in 1..Len(r) |-> IF k = Len(r) THEN n + 1 ELSE e[k]]
    <3>2. K \cap (1..(n + 1)) = M BY <2>4
    <3>3. q \in Seq(T) /\ Len(q) \in Nat /\ Len(q) <= n BY <2>1 DEF Is
    <3>4. s[n + 1] \in T OBVIOUS
    <3>5. r \in Seq(T) /\ Len(r) = Len(q) + 1
      BY <3>3, <3>4
    <3>6. \A k \in 1..Len(q) : r[k] = q[k] BY <3>3, <3>4
    <3>7. r[Len(r)] = s[n + 1] BY <3>3, <3>4, <3>5
    <3>8. /\ e \in [1..Len(q) -> L]
          /\ \A k, l \in 1..Len(q) : e[k] = e[l] => k = l
          /\ \A y \in L : \E k \in 1..Len(q) : e[k] = y
      BY DEF Bijection, Injection, Surjection, IsInjective
    <3>9. L \subseteq 1..n OBVIOUS
    <3> HIDE DEF r, L, q
    <3>10. d \in [1..Len(r) -> M] BY <3>3, <3>5, <3>8
    <3>11. ASSUME NEW k \in 1..Len(r), NEW l \in 1..Len(r), d[k] = d[l] PROVE k = l
      <4>1. \A i \in 1..Len(r) : i # Len(r) => i \in 1..Len(q) /\ d[i] = e[i] /\ d[i] # n + 1
        BY <3>3, <3>5, <3>8, <3>9
      <4>2. d[Len(r)] = n + 1 BY <3>3, <3>5
      <4> HIDE DEF d
      <4> QED BY <3>8, <3>11, <4>1, <4>2
    <3>12. ASSUME NEW y \in M PROVE \E k \in 1..Len(r) : d[k] = y
      <4>1. CASE y = n + 1 BY <3>3, <3>5, <4>1
      <4>2. CASE y \in L
        <5>1. PICK k \in 1..Len(q) : e[k] = y BY <3>8, <4>2
        <5>2. k \in 1..Len(r) /\ k # Len(r) BY <3>3, <3>5
        <5> QED BY <5>1, <5>2
      <4> QED BY <4>1, <4>2
    <3>13. d \in Bijection(1..Len(r), M)
      BY <3>10, <3>11, <3>12, Zenon DEF Bijection, Injection, Surjection, IsInjective
    <3>14. \A k \in 1..Len(r) : d[k] >= k /\ r[k] = s[d[k]]
      BY <3>1, <3>3, <3>5, <3>6, <3>7
    <3>15. Is(r, M, n + 1) 
      <4> HIDE DEF d
      <4> QED BY <3>3, <3>5, <3>13, <3>14 DEF Is
    <3> QED BY <2>2, <2>4, <3>2, <3>15, Zenon DEF r
  <2> QED BY <2>3, <2>4
<1> HIDE DEF N
<1>6. Len(s) \in N BY <1>4, <1>5, NatSet
<1>7. Is(g[Len(s)], K \cap (1..Len(s)), Len(s)) BY <1>6 DEF N
<1>8. K \cap (1..Len(s)) = K OBVIOUS
<1>9. DOMAIN g[Len(s)] = 1..Len(g[Len(s)]) BY <1>7 DEF Is
<1> QED BY <1>2, <1>7, <1>8, <1>9, Zenon DEF Is

-----------------------------------------------------------------------------
(* What the elements of a sequence weigh together. *)

\* What the elements of s weigh together.
Total(s, h) == SumFunction([k \in DOMAIN s |-> h[s[k]]])
Weighs(h, T) == \A t \in T : h[t] \in Int

\* A total is the sum over the indices, an integer when the weights are.
LEMMA TotalIs ==
  ASSUME NEW T, NEW s \in Seq(T), NEW h, Weighs(h, T)
  PROVE  /\ Total(s, h) = SumFunctionOnSet([k \in DOMAIN s |-> h[s[k]]], DOMAIN s)
         /\ IsFiniteSet(DOMAIN s)
         /\ \A k \in DOMAIN s : h[s[k]] \in Int
         /\ Total(s, h) \in Int
<1>1. Total(s, h) = SumFunctionOnSet([k \in DOMAIN s |-> h[s[k]]], DOMAIN s)
  BY DEF Total, SumFunction
<1>2. Len(s) \in Nat /\ DOMAIN s = 1..Len(s) OBVIOUS
<1>3. IsFiniteSet(DOMAIN s) BY <1>2, FS_Interval
<1>4. \A k \in DOMAIN s : h[s[k]] \in Int BY DEF Weighs
<1>5. Total(s, h) \in Int BY <1>1, <1>3, <1>4, SumType
<1> QED BY <1>1, <1>3, <1>4, <1>5

\* An empty sequence weighs nothing.
LEMMA TotalEmpty == ASSUME NEW h PROVE Total(<<>>, h) = 0
<1>1. DOMAIN <<>> = {} OBVIOUS
<1> QED BY <1>1, SumEmpty DEF Total, SumFunction

\* Natural weights, a natural total.
LEMMA TotalNat ==
  ASSUME NEW T, NEW s \in Seq(T), NEW h, \A t \in T : h[t] \in Nat
  PROVE  Total(s, h) \in Nat
<1>1. Weighs(h, T) BY DEF Weighs
<1>2. \A k \in DOMAIN s : h[s[k]] \in Nat OBVIOUS
<1> QED BY <1>1, <1>2, TotalIs, SumNat, Zenon

\* Weights that are no greater total no more.
LEMMA TotalMonotone ==
  ASSUME NEW T, NEW s \in Seq(T), NEW g, NEW h, Weighs(g, T), Weighs(h, T),
         \A k \in DOMAIN s : g[s[k]] <= h[s[k]]
  PROVE  Total(s, g) <= Total(s, h)
<1>1. Total(s, g) = SumFunctionOnSet([k \in DOMAIN s |-> g[s[k]]], DOMAIN s)
  BY TotalIs
<1>2. Total(s, h) = SumFunctionOnSet([k \in DOMAIN s |-> h[s[k]]], DOMAIN s)
  BY TotalIs
<1>3. IsFiniteSet(DOMAIN s) /\ \A k \in DOMAIN s : h[s[k]] \in Int /\ g[s[k]] \in Int
  BY TotalIs, Zenon
<1> QED BY <1>1, <1>2, <1>3, SumMonotone

\* One more element.
LEMMA TotalAppend ==
  ASSUME NEW T, NEW s \in Seq(T), NEW e \in T, NEW h, Weighs(h, T)
  PROVE  Append(s, e) \in Seq(T) /\ Total(Append(s, e), h) = Total(s, h) + h[e]
<1> DEFINE r == Append(s, e) n == Len(s) + 1
           f == [k \in DOMAIN r |-> h[r[k]]] g == [k \in DOMAIN s |-> h[s[k]]]
<1>1. r \in Seq(T) OBVIOUS
<1>2. DOMAIN r = DOMAIN s \cup {n} /\ n \notin DOMAIN s OBVIOUS
<1>3. f[n] = h[e] /\ \A k \in DOMAIN s : f[k] = g[k] /\ g[k] \in Int
  BY DEF Weighs
<1>4. Total(r, h) = SumFunctionOnSet(f, DOMAIN r) BY <1>1, TotalIs, Zenon
<1>5. Total(s, h) = SumFunctionOnSet(g, DOMAIN s) /\ IsFiniteSet(DOMAIN s) BY TotalIs
<1>6. h[e] \in Int BY DEF Weighs
<1> HIDE DEF f, g, r, n
<1>7. SumFunctionOnSet(f, DOMAIN s \cup {n}) = f[n] + SumFunctionOnSet(f, DOMAIN s)
  BY <1>2, <1>3, <1>5, <1>6, SumAdd
<1>8. SumFunctionOnSet(f, DOMAIN s) = SumFunctionOnSet(g, DOMAIN s)
  BY <1>3, <1>5, SumSame
<1>9. SumFunctionOnSet(g, DOMAIN s) \in Int BY <1>3, <1>5, SumType
<1>10. Total(r, h) = Total(s, h) + h[e] BY <1>2, <1>3, <1>4, <1>5, <1>6, <1>7, <1>8, <1>9
<1> QED BY <1>1, <1>10 DEF r

\* A single element.
LEMMA TotalOfOne ==
  ASSUME NEW T, NEW e \in T, NEW h, Weighs(h, T)
  PROVE  <<e>> \in Seq(T) /\ Total(<<e>>, h) = h[e]
<1>1. <<e>> = Append(<<>>, e) /\ <<>> \in Seq(T) OBVIOUS
<1>2. h[e] \in Int BY DEF Weighs
<1>3. Total(Append(<<>>, e), h) = Total(<<>>, h) + h[e] BY <1>1, TotalAppend, Zenon
<1>4. Total(<<>>, h) = 0 BY TotalEmpty
<1>5. Total(<<e>>, h) = Total(<<>>, h) + h[e] BY <1>1, <1>3, Zenon
<1> QED BY <1>1, <1>2, <1>4, <1>5

\* The last element apart.
LEMMA TotalFront ==
  ASSUME NEW T, NEW s \in Seq(T), s # <<>>, NEW h, Weighs(h, T)
  PROVE  /\ Front(s) \in Seq(T) /\ Last(s) \in T /\ s = Append(Front(s), Last(s))
         /\ Total(s, h) = Total(Front(s), h) + h[Last(s)]
<1>1. Front(s) \in Seq(T) /\ Last(s) \in T /\ s = Append(Front(s), Last(s))
  BY DEF Front, Last
<1> QED BY <1>1, TotalAppend, Zenon

\* One element is replaced.
LEMMA TotalUpdate ==
  ASSUME NEW T, NEW s \in Seq(T), NEW i \in DOMAIN s, NEW e \in T, NEW h, Weighs(h, T)
  PROVE  /\ [s EXCEPT ![i] = e] \in Seq(T)
         /\ Total([s EXCEPT ![i] = e], h) = Total(s, h) - h[s[i]] + h[e]
<1> DEFINE r == [s EXCEPT ![i] = e]
           f == [k \in DOMAIN r |-> h[r[k]]] g == [k \in DOMAIN s |-> h[s[k]]]
<1>1. r \in Seq(T) /\ DOMAIN r = DOMAIN s OBVIOUS
<1>2. Total(r, h) = SumFunctionOnSet(f, DOMAIN r) BY <1>1, TotalIs, Zenon
<1>3. Total(s, h) = SumFunctionOnSet(g, DOMAIN s) /\ IsFiniteSet(DOMAIN s) BY TotalIs
<1>4. /\ f[i] = h[e] /\ g[i] = h[s[i]]
      /\ \A k \in DOMAIN s : g[k] \in Int /\ f[k] \in Int /\ (k # i => f[k] = g[k])
  BY <1>1 DEF Weighs
<1> HIDE DEF f, g, r
<1>5. SumFunctionOnSet(f, DOMAIN s) = SumFunctionOnSet(g, DOMAIN s) - g[i] + f[i]
  BY <1>3, <1>4, SumChange
<1> QED BY <1>1, <1>2, <1>3, <1>4, <1>5 DEF r

\* Two sequences joined.
LEMMA TotalConcat ==
  ASSUME NEW T, NEW s \in Seq(T), NEW t \in Seq(T), NEW h, Weighs(h, T)
  PROVE  s \o t \in Seq(T) /\ Total(s \o t, h) = Total(s, h) + Total(t, h)
<1> DEFINE r == s \o t
           f == [k \in DOMAIN r |-> h[r[k]]]
           a == [k \in DOMAIN s |-> h[s[k]]]
           c == [k \in DOMAIN t |-> h[t[k]]]
           B == (Len(s) + 1)..(Len(s) + Len(t))
           b == [k \in DOMAIN t |-> Len(s) + k]
<1>1. r \in Seq(T) OBVIOUS
<1>2. DOMAIN r = DOMAIN s \cup B /\ DOMAIN s \cap B = {} OBVIOUS
<1>3. Total(r, h) = SumFunctionOnSet(f, DOMAIN r) /\ \A k \in DOMAIN r : f[k] \in Int
  BY <1>1, TotalIs, Zenon
<1>4. /\ Total(s, h) = SumFunctionOnSet(a, DOMAIN s) /\ IsFiniteSet(DOMAIN s)
      /\ \A k \in DOMAIN s : a[k] \in Int
  BY TotalIs
<1>5. Total(t, h) = SumFunctionOnSet(c, DOMAIN t) /\ IsFiniteSet(DOMAIN t) BY TotalIs
<1>6. IsFiniteSet(B) BY FS_Interval
<1>7. b \in Bijection(DOMAIN t, B)
  <2>1. b \in [DOMAIN t -> B] OBVIOUS
  <2>2. \A k, l \in DOMAIN t : b[k] = b[l] => k = l OBVIOUS
  <2>3. ASSUME NEW y \in B PROVE \E k \in DOMAIN t : b[k] = y
    <3>1. y - Len(s) \in DOMAIN t /\ b[y - Len(s)] = y OBVIOUS
    <3> QED BY <3>1
  <2> HIDE DEF b, B
  <2> QED BY <2>1, <2>2, <2>3 DEF Bijection, Injection, Surjection, IsInjective
<1>8. \A k \in DOMAIN s : f[k] = a[k] OBVIOUS
<1>9. \A k \in DOMAIN t : c[k] = f[b[k]] OBVIOUS
<1> HIDE DEF f, a, c, b, B, r
<1>10. SumFunctionOnSet(f, DOMAIN r) = SumFunctionOnSet(f, DOMAIN s) + SumFunctionOnSet(f, B)
  BY <1>2, <1>3, <1>4, <1>6, SumUnion
<1>11. SumFunctionOnSet(f, DOMAIN s) = SumFunctionOnSet(a, DOMAIN s)
  BY <1>4, <1>8, SumSame
<1>12. SumFunctionOnSet(c, DOMAIN t) = SumFunctionOnSet(f, B)
  <2>1. \A y \in B : f[y] \in Int BY <1>2, <1>3
  <2> QED BY <1>5, <1>6, <1>7, <1>9, <2>1, SumMoved
<1> QED BY <1>1, <1>3, <1>4, <1>5, <1>10, <1>11, <1>12 DEF r

\* The elements at the indices in K.
LEMMA TotalSubsequence ==
  ASSUME NEW T, NEW s \in Seq(T), NEW K \in SUBSET DOMAIN s, NEW h, Weighs(h, T)
  PROVE  /\ Subsequence(s, K) \in Seq(T)
         /\ Total(Subsequence(s, K), h) = SumFunctionOnSet([k \in DOMAIN s |-> h[s[k]]], K)
<1> DEFINE q == Subsequence(s, K)
           f == [k \in DOMAIN s |-> h[s[k]]]
           g == [k \in DOMAIN q |-> h[q[k]]]
<1>1. q \in Seq(T) BY SubsequenceIs
<1>2. PICK e \in Bijection(DOMAIN q, K) : \A k \in DOMAIN q : e[k] >= k /\ q[k] = s[e[k]]
  BY SubsequenceIs
<1>3. Total(q, h) = SumFunctionOnSet(g, DOMAIN q) /\ IsFiniteSet(DOMAIN q)
  BY <1>1, TotalIs
<1>4. IsFiniteSet(K) BY TotalIs, FS_Subset, Zenon
<1>5. \A y \in K : f[y] \in Int BY TotalIs
<1>6. \A k \in DOMAIN q : g[k] = f[e[k]]
  <2>1. e \in [DOMAIN q -> K] BY DEF Bijection, Injection
  <2> QED BY <1>2, <2>1
<1> HIDE DEF f, g, q
<1>7. SumFunctionOnSet(g, DOMAIN q) = SumFunctionOnSet(f, K)
  BY <1>3, <1>4, <1>5, <1>6, SumMoved
<1> QED BY <1>1, <1>3, <1>7 DEF f, q

\* No weight is more than the total, nor are two.
LEMMA TotalAtLeast ==
  ASSUME NEW T, NEW s \in Seq(T), NEW h, \A t \in T : h[t] \in Nat, NEW j \in DOMAIN s
  PROVE  /\ h[s[j]] <= Total(s, h)
         /\ \A k \in DOMAIN s : k # j => h[s[j]] + h[s[k]] <= Total(s, h)
<1> DEFINE f == [k \in DOMAIN s |-> h[s[k]]]
           R == DOMAIN s \ {j}
<1>0. Weighs(h, T) BY DEF Weighs
<1>1. Total(s, h) = SumFunctionOnSet(f, DOMAIN s) /\ IsFiniteSet(DOMAIN s) BY <1>0, TotalIs
<1>2. \A k \in DOMAIN s : f[k] \in Nat /\ f[k] = h[s[k]] OBVIOUS
<1> HIDE DEF f
<1>3. SumFunctionOnSet(f, DOMAIN s) = f[j] + SumFunctionOnSet(f, R) BY <1>1, <1>2, SumRemove
<1>4. IsFiniteSet(R) BY <1>1, FS_RemoveElement
<1>5. SumFunctionOnSet(f, R) \in Nat BY <1>2, <1>4, SumNat
<1>6. ASSUME NEW k \in DOMAIN s, k # j PROVE h[s[j]] + h[s[k]] <= Total(s, h)
  <2>1. SumFunctionOnSet(f, R) = f[k] + SumFunctionOnSet(f, R \ {k})
    BY <1>2, <1>4, <1>6, SumRemove
  <2>2. IsFiniteSet(R \ {k}) BY <1>4, FS_RemoveElement, Zenon
  <2>3. SumFunctionOnSet(f, R \ {k}) \in Nat BY <1>2, <2>2, SumNat
  <2> QED BY <1>1, <1>2, <1>3, <1>6, <2>1, <2>3
<1> QED BY <1>1, <1>2, <1>3, <1>5, <1>6

-----------------------------------------------------------------------------
(* FlattenSeq. *)

FlatStep(rs, g, n) == IF n = 1 THEN rs[n] ELSE g[n - 1] \o rs[n]

\* The recursion of FlattenSeq defines a function.
LEMMA FlatExists ==
  ASSUME NEW rs, NEW m \in Nat
  PROVE  \E g : g = [n \in 1..m |-> FlatStep(rs, g, n)]
<1> DEFINE N == {j \in Nat : \E g : g = [n \in 1..j |-> FlatStep(rs, g, n)]}
<1>1. 0 \in N
  <2> DEFINE g == [n \in 1..0 |-> <<>>]
  <2>1. \A n \in 1..0 : FlatStep(rs, g, n) = <<>> OBVIOUS
  <2>2. g = [n \in 1..0 |-> FlatStep(rs, g, n)] BY <2>1, Zenon
  <2> QED BY <2>2, Zenon
<1>2. ASSUME NEW j \in Nat, j \in N PROVE j + 1 \in N
  <2>1. PICK g : g = [n \in 1..j |-> FlatStep(rs, g, n)] BY <1>2
  <2> DEFINE h == [n \in 1..(j + 1) |-> FlatStep(rs, g, n)]
  <2>2. ASSUME NEW n \in 1..(j + 1) PROVE FlatStep(rs, h, n) = FlatStep(rs, g, n)
    <3>1. CASE n = 1 BY <3>1 DEF FlatStep
    <3>2. CASE n # 1
      <4>1. n - 1 \in 1..j /\ n - 1 \in 1..(j + 1) BY <3>2
      <4>2. g[n - 1] = FlatStep(rs, g, n - 1) BY <2>1, <4>1, Zenon
      <4>3. h[n - 1] = FlatStep(rs, g, n - 1) BY <4>1
      <4>4. h[n - 1] = g[n - 1] BY <4>2, <4>3, Zenon
      <4> HIDE DEF h
      <4> QED BY <3>2, <4>4, Zenon DEF FlatStep
    <3> QED BY <3>1, <3>2
  <2>3. h = [n \in 1..(j + 1) |-> FlatStep(rs, h, n)] BY <2>2, Zenon
  <2> HIDE DEF h
  <2> QED BY <2>3
<1> HIDE DEF N
<1>3. m \in N BY <1>1, <1>2, NatSet
<1> QED BY <1>3 DEF N

\* FlattenSeq keeps what each sequence weighs, and adds nothing.
LEMMA FlattenIs ==
  ASSUME NEW T, NEW rs \in Seq(Seq(T)), NEW h, Weighs(h, T)
  PROVE  /\ FlattenSeq(rs) \in Seq(T)
         /\ Total(FlattenSeq(rs), h)
              = SumFunctionOnSet([i \in DOMAIN rs |-> Total(rs[i], h)], DOMAIN rs)
         /\ \A k \in DOMAIN FlattenSeq(rs) : \E i \in DOMAIN rs : \E j \in DOMAIN rs[i] :
              FlattenSeq(rs)[k] = rs[i][j]
<1> DEFINE F == [i \in DOMAIN rs |-> Total(rs[i], h)]
           Comes(q, n) == \A k \in DOMAIN q : \E i \in 1..n : \E j \in DOMAIN rs[i] : q[k] = rs[i][j]
           Is(q, n) == q \in Seq(T) /\ Total(q, h) = SumFunctionOnSet(F, 1..n) /\ Comes(q, n)
<1>0. Len(rs) \in Nat /\ DOMAIN rs = 1..Len(rs) /\ \A i \in 1..Len(rs) : rs[i] \in Seq(T)
  OBVIOUS
<1>1. CASE Len(rs) = 0
  <2>1. rs = <<>> BY <1>1
  <2>2. FlattenSeq(rs) = <<>> BY <1>1, <2>1 DEF FlattenSeq
  <2>3. DOMAIN rs = {} BY <2>1
  <2> QED BY <2>2, <2>3, SumEmpty, TotalEmpty
<1>2. CASE Len(rs) # 0
  <2> DEFINE g == CHOOSE g : g = [n \in 1..Len(rs) |-> FlatStep(rs, g, n)]
  <2>1. g = [n \in 1..Len(rs) |-> FlatStep(rs, g, n)] BY <1>0, FlatExists, Zenon
  <2>2. FlattenSeq(rs) = g[Len(rs)] BY <1>2, Zenon DEF FlattenSeq, FlatStep
  <2> HIDE DEF g
  <2>3. \A n \in 1..Len(rs) : g[n] = FlatStep(rs, g, n) BY <2>1, Zenon
  <2>4. \A i \in 1..Len(rs) : F[i] = Total(rs[i], h) /\ F[i] \in Int
    BY <1>0, TotalIs, Zenon
  <2> HIDE DEF F, Is
  <2> DEFINE N == {n \in Nat : n + 1 <= Len(rs) => Is(g[n + 1], n + 1)}
  <2>5. 0 \in N
    <3>1. 1 \in 1..Len(rs) BY <1>0, <1>2
    <3>2. g[1] = rs[1] BY <2>3, <3>1 DEF FlatStep
    <3>3. SumFunctionOnSet(F, {} \cup {1}) = F[1] + SumFunctionOnSet(F, {})
      BY <2>4, <3>1, FS_EmptySet, SumAdd, Zenon
    <3>4. 1..1 = {} \cup {1} OBVIOUS
    <3>5. SumFunctionOnSet(F, 1..1) = F[1] + 0 BY <3>3, <3>4, SumEmpty, Zenon
    <3>6. Comes(rs[1], 1) OBVIOUS
    <3>7. Is(rs[1], 1) BY <1>0, <2>4, <3>1, <3>5, <3>6 DEF Is
    <3> QED BY <3>2, <3>7
  <2>6. ASSUME NEW n \in Nat, n \in N PROVE n + 1 \in N
    <3> SUFFICES ASSUME n + 2 <= Len(rs) PROVE Is(g[n + 2], n + 2)
      OBVIOUS
    <3> DEFINE q == g[n + 1] r == rs[n + 2]
    <3>1. Is(q, n + 1) BY <2>6
    <3>2. n + 2 \in 1..Len(rs) /\ n + 2 # 1 BY <1>0
    <3>3. g[n + 2] = q \o r
      <4>1. (n + 2) - 1 = n + 1 OBVIOUS
      <4>2. g[n + 2] = FlatStep(rs, g, n + 2) BY <2>3, <3>2
      <4> QED BY <3>2, <4>1, <4>2, Zenon DEF FlatStep
    <3>4. q \in Seq(T) /\ r \in Seq(T) BY <1>0, <3>1, <3>2 DEF Is
    <3> HIDE DEF q
    <3>5. q \o r \in Seq(T) /\ Total(q \o r, h) = Total(q, h) + Total(r, h)
      BY <3>4, TotalConcat
    <3>6. 1..(n + 2) = (1..(n + 1)) \cup {n + 2} /\ n + 2 \notin 1..(n + 1) OBVIOUS
    <3>7. IsFiniteSet(1..(n + 1)) BY FS_Interval
    <3>8. \A i \in 1..(n + 1) : F[i] \in Int BY <2>4, <3>2
    <3>9. SumFunctionOnSet(F, (1..(n + 1)) \cup {n + 2}) = F[n + 2] + SumFunctionOnSet(F, 1..(n + 1))
      BY <2>4, <3>2, <3>6, <3>7, <3>8, SumAdd, Zenon
    <3>10. Total(q \o r, h) = SumFunctionOnSet(F, 1..(n + 2))
      <4>1. SumFunctionOnSet(F, 1..(n + 2)) = F[n + 2] + SumFunctionOnSet(F, 1..(n + 1))
        BY <3>6, <3>9, Zenon
      <4>2. SumFunctionOnSet(F, 1..(n + 1)) \in Int BY <3>7, <3>8, SumType
      <4>3. Total(q, h) = SumFunctionOnSet(F, 1..(n + 1)) BY <3>1 DEF Is
      <4>4. F[n + 2] = Total(r, h) /\ F[n + 2] \in Int BY <2>4, <3>2
      <4> QED BY <3>5, <4>1, <4>2, <4>3, <4>4
    <3>11. Comes(q \o r, n + 2)
      <4> SUFFICES ASSUME NEW k \in DOMAIN (q \o r)
                   PROVE  \E i \in 1..(n + 2) : \E j \in DOMAIN rs[i] : (q \o r)[k] = rs[i][j]
        BY Zenon
      <4>1. CASE k \in DOMAIN q
        <5>1. (q \o r)[k] = q[k] BY <3>4, <4>1
        <5>2. PICK i \in 1..(n + 1) : \E j \in DOMAIN rs[i] : q[k] = rs[i][j]
          BY <3>1, <4>1, Zenon DEF Is
        <5>3. i \in 1..(n + 2) BY <3>6
        <5> QED BY <5>1, <5>2, <5>3
      <4>2. CASE k \notin DOMAIN q
        <5>1. k - Len(q) \in DOMAIN r /\ (q \o r)[k] = r[k - Len(q)] BY <3>4, <4>2
        <5>2. n + 2 \in 1..(n + 2) OBVIOUS
        <5> QED BY <5>1, <5>2, Zenon
      <4> QED BY <4>1, <4>2, Zenon
    <3>12. Is(q \o r, n + 2) BY <3>5, <3>10, <3>11, Zenon DEF Is
    <3> QED BY <3>3, <3>12
  <2> HIDE DEF N
  <2>7. Len(rs) - 1 \in Nat BY <1>0, <1>2
  <2>8. Len(rs) - 1 \in N BY <2>5, <2>6, <2>7, NatSet, Zenon
  <2>9. Is(g[Len(rs)], Len(rs))
    <3>1. (Len(rs) - 1) + 1 = Len(rs) /\ Len(rs) <= Len(rs) BY <1>0
    <3> QED BY <2>8, <3>1 DEF N
  <2>10. /\ FlattenSeq(rs) \in Seq(T)
         /\ Total(FlattenSeq(rs), h) = SumFunctionOnSet(F, DOMAIN rs)
         /\ Comes(FlattenSeq(rs), Len(rs))
    BY <1>0, <2>2, <2>9, Zenon DEF Is
  <2> QED BY <1>0, <2>10, Zenon DEF F
<1> QED BY <1>1, <1>2

-----------------------------------------------------------------------------
(* Paths *)

\* How often x is on a path is a natural number.
LEMMA OccurrencesNat ==
  ASSUME NEW T, NEW path \in Seq(T), NEW x PROVE Occurrences(x, path) \in Nat
<1> DEFINE P == {k \in DOMAIN path : path[k] = x}
<1>1. P \subseteq 1..Len(path) /\ Len(path) \in Nat OBVIOUS
<1>2. IsFiniteSet(P) BY <1>1, FS_Interval, FS_Subset
<1> QED BY <1>2, FS_CardinalityType DEF Occurrences

\* A path that goes one node further.
LEMMA OccurrencesAppend ==
  ASSUME NEW T, NEW path \in Seq(T), NEW c \in T, NEW x
  PROVE  Occurrences(x, Append(path, c)) = Occurrences(x, path) + IF c = x THEN 1 ELSE 0
<1> DEFINE P == {k \in DOMAIN path : path[k] = x}
           r == Append(path, c)
           n == Len(path) + 1
           Q == {k \in DOMAIN r : r[k] = x}
<1>1. /\ DOMAIN r = DOMAIN path \cup {n} /\ n \notin DOMAIN path
      /\ r[n] = c /\ \A k \in DOMAIN path : r[k] = path[k]
  OBVIOUS
<1>2. P \subseteq 1..Len(path) /\ Len(path) \in Nat OBVIOUS
<1>3. IsFiniteSet(P) BY <1>2, FS_Interval, FS_Subset
<1>4. Cardinality(P) \in Nat BY <1>3, FS_CardinalityType
<1>5. Occurrences(x, path) = Cardinality(P) /\ Occurrences(x, r) = Cardinality(Q)
  BY DEF Occurrences
<1> HIDE DEF r, n
<1>6. CASE c = x
  <2>1. Q = P \cup {n} BY <1>1, <1>6
  <2>2. n \notin P BY <1>1
  <2>3. Cardinality(P \cup {n}) = Cardinality(P) + 1 BY <1>3, <2>2, FS_AddElement, Zenon
  <2> HIDE DEF P, Q
  <2> QED BY <1>4, <1>5, <1>6, <2>1, <2>3 DEF r
<1>7. CASE c # x
  <2>1. Q = P BY <1>1, <1>7
  <2> HIDE DEF P, Q
  <2> QED BY <1>4, <1>5, <1>7, <2>1 DEF r
<1> QED BY <1>6, <1>7

\* A path with a last node: the path without it, and that node.
LEMMA PathAppend ==
  ASSUME NEW T, NEW path \in Seq(T), NEW c \in T
  PROVE  Front(Append(path, c)) = path /\ Last(Append(path, c)) = c
BY DEF Front, Last

\* The path of a single node.
LEMMA OccurrencesOnRoot ==
  ASSUME NEW x, NEW y
  PROVE  /\ Occurrences(x, <<y>>) = IF y = x THEN 1 ELSE 0
         /\ Front(<<y>>) = <<>> /\ Last(<<y>>) = y /\ Occurrences(x, Front(<<y>>)) = 0
<1>1. Occurrences(x, <<>>) = 0
  <2>1. {k \in DOMAIN <<>> : <<>>[k] = x} = {} OBVIOUS
  <2> QED BY <2>1, FS_EmptySet DEF Occurrences
<1>2. <<y>> = Append(<<>>, y) /\ <<>> \in Seq({y}) OBVIOUS
<1>3. Occurrences(x, Append(<<>>, y)) = Occurrences(x, <<>>) + IF y = x THEN 1 ELSE 0
  BY <1>2, OccurrencesAppend, Zenon
<1>4. Occurrences(x, <<y>>) = 0 + IF y = x THEN 1 ELSE 0
  BY <1>1, <1>2, <1>3, Zenon
<1>5. Front(Append(<<>>, y)) = <<>> /\ Last(Append(<<>>, y)) = y
  BY <1>2, PathAppend, Zenon
<1>6. Front(<<y>>) = <<>> /\ Last(<<y>>) = y BY <1>2, <1>5, Zenon
<1> QED BY <1>1, <1>4, <1>6

\* A path from the root has an end, which is on it.
LEMMA OccurrencesAtEnd ==
  ASSUME NEW path \in Paths
  PROVE  /\ path \in Seq(Nodes) /\ path # <<>>
         /\ Front(path) \in Seq(Nodes) /\ Last(path) \in Nodes
         /\ Occurrences(Last(path), path) >= 1
<1>1. path \in Seq(Nodes) /\ path # <<>> BY DEF Paths
<1>2. Front(path) \in Seq(Nodes) /\ Last(path) \in Nodes /\ path = Append(Front(path), Last(path))
  BY <1>1 DEF Front, Last
<1>3. Occurrences(Last(path), Front(path)) \in Nat BY <1>2, OccurrencesNat
<1>4. Occurrences(Last(path), Append(Front(path), Last(path)))
        = Occurrences(Last(path), Front(path)) + 1
  BY <1>2, OccurrencesAppend
<1>5. Occurrences(Last(path), path) = Occurrences(Last(path), Front(path)) + 1
  BY <1>2, <1>4, Zenon
<1> QED BY <1>1, <1>2, <1>3, <1>5

\* A path from the root goes on to a child, and is no longer the root's.
LEMMA PathsGrow ==
  ASSUME NEW path \in Paths, NEW c \in Nodes
  PROVE  Append(path, c) \in Paths /\ Append(path, c) # <<Root>>
<1>1. path \in Seq(Nodes) /\ path # <<>> /\ path[1] = Root BY DEF Paths
<1>2. Append(path, c) \in Seq(Nodes) /\ Append(path, c) # <<>> BY <1>1
<1>3. Append(path, c)[1] = Root BY <1>1
<1>4. Len(Append(path, c)) # 1 BY <1>1
<1>5. Len(<<Root>>) = 1 OBVIOUS
<1> QED BY <1>2, <1>3, <1>4, <1>5, Zenon DEF Paths

-----------------------------------------------------------------------------
(* Weights *)

\* What each item of a task, and each frame, weighs together.
TaskWeight(h, g) == [t \in Tasks |-> Total(t.receiver, h) + Total(t.frames, g)]

\* How often items and frames are in flight on x; the collisions of a worker that
\* computes are shared.
ItemWeight(x) == [item \in Items |-> Holds(x, item)]
ComputingWeight(x) == [item \in Items |-> IF IsCollision(item) THEN 0 ELSE Holds(x, item)]
FrameWeight(x) == [f \in Frames |-> HeldByFrame(x, f)]

\* Whether an item extends x.
VisitWeight(x) == [item \in Items |-> Extends(x, item)]
NoWeight == [f \in Frames |-> 0]

\* The visits of an item, and those a frame has still to place.
PlacedWeight == [item \in Items |-> item.multivisit]
LeftWeight == [f \in Frames |-> f.left + SumFunction(f.visits_to_perform)]

NatWeight(h, T) == \A t \in T : h[t] \in Nat

\* Natural weights are integers.
LEMMA NatWeighs == ASSUME NEW h, NEW T, NatWeight(h, T) PROVE Weighs(h, T)
BY DEF NatWeight, Weighs

\* Natural numbers multiply.
LEMMA TimesNat == \A a, b \in Nat : a * b \in Nat
OBVIOUS

\* An item is in flight on x a natural number of times.
LEMMA ItemWeightNat ==
  ASSUME NEW x
  PROVE  NatWeight(ItemWeight(x), Items) /\ NatWeight(ComputingWeight(x), Items)
<1> SUFFICES ASSUME NEW item \in Items PROVE Holds(x, item) \in Nat
  BY DEF NatWeight, ItemWeight, ComputingWeight
<1>1. item.path \in Paths /\ item.multivisit \in Nat BY DEF Items
<1>2. Occurrences(x, item.path) \in Nat /\ Occurrences(x, Front(item.path)) \in Nat
  BY <1>1, OccurrencesAtEnd, OccurrencesNat
<1> QED BY <1>1, <1>2, TimesNat DEF Holds

\* An item extends x or not.
LEMMA VisitWeightNat == ASSUME NEW x PROVE NatWeight(VisitWeight(x), Items)
BY DEF NatWeight, VisitWeight, Extends

\* An item stands for a natural number of visits.
LEMMA PlacedWeightNat == NatWeight(PlacedWeight, Items)
BY DEF NatWeight, PlacedWeight, Items

\* A frame extends nothing.
LEMMA NoWeightNat == NatWeight(NoWeight, Frames)
BY DEF NatWeight, NoWeight

\* The sum over the nodes.
LEMMA NodesSum ==
  ASSUME NEW v \in [Nodes -> Nat]
  PROVE  SumFunction(v) = SumFunctionOnSet(v, Nodes) /\ SumFunction(v) \in Nat
<1>1. IsFiniteSet(Nodes) BY GraphAssumption
<1> QED BY <1>1, SumNat DEF SumFunction

\* A frame has a natural number of visits to place.
LEMMA LeftWeightNat == NatWeight(LeftWeight, Frames)
<1> SUFFICES ASSUME NEW f \in Frames PROVE f.left + SumFunction(f.visits_to_perform) \in Nat
  BY DEF NatWeight, LeftWeight
<1>1. f.left \in Nat /\ f.visits_to_perform \in [Nodes -> Nat] BY DEF Frames
<1> QED BY <1>1, NodesSum

\* What HeldByFrame sums over the children.
OnTheWay(x, path, v) == [c \in Nodes |-> HeldOnTheWay(x, Append(path, c), v[c])]

\* The visits for child c are in flight on the path and, if they go on below c, on c.
LEMMA OnTheWayIs ==
  ASSUME NEW x, NEW path \in Paths, NEW c \in Nodes, NEW count \in Nat
  PROVE  /\ HeldOnTheWay(x, Append(path, c), count)
              = count * (Occurrences(x, path) +
                           IF c = x /\ ~ShouldStopPickingHere(c) THEN 1 ELSE 0)
         /\ HeldOnTheWay(x, Append(path, c), count) \in Nat
<1>1. path \in Seq(Nodes) BY OccurrencesAtEnd
<1>2. Front(Append(path, c)) = path /\ Last(Append(path, c)) = c BY <1>1, PathAppend
<1>3. Occurrences(x, Append(path, c)) = Occurrences(x, path) + IF c = x THEN 1 ELSE 0
  BY <1>1, OccurrencesAppend
<1>4. Occurrences(x, path) \in Nat BY <1>1, OccurrencesNat
<1>5. HeldOnTheWay(x, Append(path, c), count)
        = count * (Occurrences(x, path) + IF c = x /\ ~ShouldStopPickingHere(c) THEN 1 ELSE 0)
  BY <1>2, <1>3, <1>4 DEF HeldOnTheWay
<1>6. (Occurrences(x, path) + IF c = x /\ ~ShouldStopPickingHere(c) THEN 1 ELSE 0) \in Nat
  BY <1>4
<1> QED BY <1>5, <1>6, TimesNat

\* So are those for all children.
LEMMA OnTheWayNat ==
  ASSUME NEW x, NEW path \in Paths, NEW v \in [Nodes -> Nat]
  PROVE  /\ \A c \in Nodes : OnTheWay(x, path, v)[c] \in Nat
         /\ SumFunction(OnTheWay(x, path, v)) = SumFunctionOnSet(OnTheWay(x, path, v), Nodes)
         /\ SumFunction(OnTheWay(x, path, v)) \in Nat
<1>1. \A c \in Nodes : HeldOnTheWay(x, Append(path, c), v[c]) \in Nat BY OnTheWayIs, Zenon
<1>2. OnTheWay(x, path, v) \in [Nodes -> Nat] BY <1>1 DEF OnTheWay
<1> QED BY <1>2, NodesSum

\* What a frame's visits hold on x, by the frame's step.
LEMMA FrameWeightIs ==
  ASSUME NEW x, NEW f \in Frames
  PROVE  /\ FrameWeight(x)[f] \in Nat
         /\ f.step = "arrive" /\ f.path = <<Root>> => FrameWeight(x)[f] = 0
         /\ f.step = "arrive" /\ f.path # <<Root>> =>
              FrameWeight(x)[f] = f.left *
                IF ShouldStopPickingHere(Last(f.path))
                THEN Occurrences(x, Front(f.path)) ELSE Occurrences(x, f.path)
         /\ f.step # "arrive" =>
              FrameWeight(x)[f] = f.left * Occurrences(x, f.path)
                + SumFunctionOnSet(OnTheWay(x, f.path, f.visits_to_perform), Nodes)
<1>1. f.path \in Paths /\ f.left \in Nat /\ f.visits_to_perform \in [Nodes -> Nat] BY DEF Frames
<1>2. Occurrences(x, f.path) \in Nat /\ Occurrences(x, Front(f.path)) \in Nat
  BY <1>1, OccurrencesAtEnd, OccurrencesNat
<1>3. FrameWeight(x)[f] = HeldByFrame(x, f) BY DEF FrameWeight
<1>4. CASE f.step = "arrive"
  <2>1. CASE f.path = <<Root>> BY <1>3, <1>4, <2>1 DEF HeldByFrame
  <2>2. CASE f.path # <<Root>>
    <3>1. FrameWeight(x)[f] = HeldOnTheWay(x, f.path, f.left)
      BY <1>3, <1>4, <2>2 DEF HeldByFrame
    <3>2. FrameWeight(x)[f] = f.left *
            IF ShouldStopPickingHere(Last(f.path))
            THEN Occurrences(x, Front(f.path)) ELSE Occurrences(x, f.path)
      BY <3>1 DEF HeldOnTheWay
    <3> QED BY <1>1, <1>2, <1>4, <2>2, <3>2, TimesNat
  <2> QED BY <2>1, <2>2
<1>5. CASE f.step # "arrive"
  <2>1. FrameWeight(x)[f] = f.left * Occurrences(x, f.path)
          + SumFunction(OnTheWay(x, f.path, f.visits_to_perform))
    BY <1>3, <1>5, Zenon DEF HeldByFrame, OnTheWay
  <2>2. SumFunction(OnTheWay(x, f.path, f.visits_to_perform))
          = SumFunctionOnSet(OnTheWay(x, f.path, f.visits_to_perform), Nodes)
        /\ SumFunction(OnTheWay(x, f.path, f.visits_to_perform)) \in Nat
    BY <1>1, OnTheWayNat
  <2>3. f.left * Occurrences(x, f.path) \in Nat BY <1>1, <1>2, TimesNat
  <2> QED BY <1>5, <2>1, <2>2, <2>3
<1> QED BY <1>4, <1>5

\* It is a natural number.
LEMMA FrameWeightNat == ASSUME NEW x PROVE NatWeight(FrameWeight(x), Frames)
BY FrameWeightIs DEF NatWeight

\* So is what a task weighs.
LEMMA TaskWeightNat ==
  ASSUME NEW h, NEW g, NatWeight(h, Items), NatWeight(g, Frames)
  PROVE  NatWeight(TaskWeight(h, g), Tasks)
<1> SUFFICES ASSUME NEW t \in Tasks PROVE Total(t.receiver, h) + Total(t.frames, g) \in Nat
  BY DEF NatWeight, TaskWeight
<1>1. t.receiver \in Seq(Items) /\ t.frames \in Seq(Frames) BY DEF Tasks
<1>2. Total(t.receiver, h) \in Nat /\ Total(t.frames, g) \in Nat
  BY <1>1, TotalNat DEF NatWeight
<1> QED BY <1>2

-----------------------------------------------------------------------------
(* What Held, Extending and Placed sum up. *)

Types ==
  /\ visited \subseteq Nodes /\ halting \subseteq visited
  /\ n_in_flight \in [Nodes -> Int] /\ stray \in [Nodes -> Nat]
  /\ phase \in [Workers -> Phases]
  /\ stacks \in [Workers -> Seq(Tasks)]
  /\ minibatch \in [Workers -> Seq(Items)]
  /\ new_start \in [Workers -> Nat]
  /\ collisions_left \in [Workers -> Int]
  /\ shared_collisions \in Seq(Items)
  /\ picks \in 0..MaxPicks

\* How often x is in flight for worker w, whose minibatch, phase and tasks these are.
HeldBy(x, items, l, ts) ==
  Total(items, IF l = "compute" THEN ComputingWeight(x) ELSE ItemWeight(x))
    + Total(ts, TaskWeight(ItemWeight(x), FrameWeight(x)))

\* How many visits of a worker extend x.
ExtendedBy(x, items, ts) ==
  Total(items, VisitWeight(x)) + Total(ts, TaskWeight(VisitWeight(x), NoWeight))

\* What the tasks of a worker weigh, as Held and its like spell it out.
LEMMA TasksTotal ==
  ASSUME NEW ts \in Seq(Tasks), NEW h, NEW g
  PROVE  Total(ts, TaskWeight(h, g))
           = SumFunction([i \in DOMAIN ts |-> Total(ts[i].receiver, h) + Total(ts[i].frames, g)])
<1>1. [i \in DOMAIN ts |-> TaskWeight(h, g)[ts[i]]]
        = [i \in DOMAIN ts |-> Total(ts[i].receiver, h) + Total(ts[i].frames, g)]
  BY DEF TaskWeight
<1> QED BY <1>1, Zenon DEF Total

\* What is held, by worker.
HeldSums(x) ==
  Held(x) = Total(shared_collisions, ItemWeight(x))
    + SumFunctionOnSet([w \in Workers |-> HeldBy(x, minibatch[w], phase[w], stacks[w])], Workers)

\* Held(x) is what the shared collisions and each worker hold on x.
LEMMA HeldIs ==
  ASSUME Types, NEW x
  PROVE  HeldSums(x)
<1>1. SumOver(shared_collisions, LAMBDA item : Holds(x, item))
        = Total(shared_collisions, ItemWeight(x))
  <2>1. [k \in DOMAIN shared_collisions |-> Holds(x, shared_collisions[k])]
          = [k \in DOMAIN shared_collisions |-> ItemWeight(x)[shared_collisions[k]]]
    BY DEF Types, ItemWeight
  <2> QED BY <2>1, Zenon DEF SumOver, Total
<1>2. ASSUME NEW w \in Workers
      PROVE SumOver(minibatch[w], LAMBDA item :
                IF phase[w] = "compute" /\ IsCollision(item) THEN 0 ELSE Holds(x, item))
            = Total(minibatch[w], IF phase[w] = "compute" THEN ComputingWeight(x) ELSE ItemWeight(x))
  <2> DEFINE s == minibatch[w]
             h == IF phase[w] = "compute" THEN ComputingWeight(x) ELSE ItemWeight(x)
  <2>1. [k \in DOMAIN s |-> IF phase[w] = "compute" /\ IsCollision(s[k]) THEN 0
                              ELSE Holds(x, s[k])]
          = [k \in DOMAIN s |-> h[s[k]]]
    BY DEF Types, ItemWeight, ComputingWeight
  <2> QED BY <2>1, Zenon DEF SumOver, Total
<1>3. ASSUME NEW w \in Workers
      PROVE SumOver(stacks[w], LAMBDA t :
                SumOver(t.receiver, LAMBDA item : Holds(x, item))
                  + SumOver(t.frames, LAMBDA f : HeldByFrame(x, f)))
            = Total(stacks[w], TaskWeight(ItemWeight(x), FrameWeight(x)))
  <2> DEFINE ts == stacks[w]
  <2>1. ts \in Seq(Tasks) BY DEF Types
  <2>2. ASSUME NEW i \in DOMAIN ts
        PROVE  /\ SumFunction([k \in DOMAIN ts[i].receiver |-> Holds(x, ts[i].receiver[k])])
                    = Total(ts[i].receiver, ItemWeight(x))
               /\ SumFunction([k \in DOMAIN ts[i].frames |-> HeldByFrame(x, ts[i].frames[k])])
                    = Total(ts[i].frames, FrameWeight(x))
    <3>0. ts[i] \in Tasks BY <2>1
    <3>1. ts[i].receiver \in Seq(Items) /\ ts[i].frames \in Seq(Frames) BY <3>0 DEF Tasks
    <3>2. [k \in DOMAIN ts[i].receiver |-> Holds(x, ts[i].receiver[k])]
            = [k \in DOMAIN ts[i].receiver |-> ItemWeight(x)[ts[i].receiver[k]]]
      BY <3>1 DEF ItemWeight
    <3>3. [k \in DOMAIN ts[i].frames |-> HeldByFrame(x, ts[i].frames[k])]
            = [k \in DOMAIN ts[i].frames |-> FrameWeight(x)[ts[i].frames[k]]]
      BY <3>1 DEF FrameWeight
    <3> QED BY <3>2, <3>3, Zenon DEF Total
  <2>3. [i \in DOMAIN ts |->
            SumFunction([k \in DOMAIN ts[i].receiver |-> Holds(x, ts[i].receiver[k])])
              + SumFunction([k \in DOMAIN ts[i].frames |-> HeldByFrame(x, ts[i].frames[k])])]
          = [i \in DOMAIN ts |-> Total(ts[i].receiver, ItemWeight(x))
                                   + Total(ts[i].frames, FrameWeight(x))]
    <3> HIDE DEF ts
    <3> QED BY <2>2
  <2>4. Total(ts, TaskWeight(ItemWeight(x), FrameWeight(x)))
          = SumFunction([i \in DOMAIN ts |-> Total(ts[i].receiver, ItemWeight(x))
                                   + Total(ts[i].frames, FrameWeight(x))])
    BY <2>1, TasksTotal
  <2> QED BY <2>3, <2>4, Zenon DEF SumOver
<1>4. [w \in Workers |->
            SumOver(minibatch[w], LAMBDA item :
                IF phase[w] = "compute" /\ IsCollision(item) THEN 0 ELSE Holds(x, item))
            + SumOver(stacks[w], LAMBDA t :
                SumOver(t.receiver, LAMBDA item : Holds(x, item))
                  + SumOver(t.frames, LAMBDA f : HeldByFrame(x, f)))]
        = [w \in Workers |-> HeldBy(x, minibatch[w], phase[w], stacks[w])]
  BY <1>2, <1>3, Zenon DEF HeldBy
<1>5. SumFunction([w \in Workers |-> HeldBy(x, minibatch[w], phase[w], stacks[w])])
        = SumFunctionOnSet([w \in Workers |-> HeldBy(x, minibatch[w], phase[w], stacks[w])], Workers)
  BY DEF SumFunction
<1> QED BY <1>1, <1>4, <1>5, Zenon DEF Held, HeldSums

AllHeldSums == \A x : HeldSums(x)

\* So it is in the next state.
LEMMA HeldIsNext == Types' => AllHeldSums'
<1>1. Types => AllHeldSums BY HeldIs DEF AllHeldSums
<1> QED BY <1>1, PTL

\* What is extended, by worker.
ExtendingSums(x) ==
  Extending(x) = SumFunctionOnSet([w \in Workers |-> ExtendedBy(x, minibatch[w], stacks[w])], Workers)
AllExtendingSums == \A x : ExtendingSums(x)

\* Extending(x) is how many visits of each worker extend x.
LEMMA ExtendingIs == ASSUME Types, NEW x PROVE ExtendingSums(x)
<1>1. ASSUME NEW w \in Workers
      PROVE SumOver(minibatch[w], LAMBDA item : Extends(x, item)) = Total(minibatch[w], VisitWeight(x))
  <2> DEFINE s == minibatch[w]
  <2>1. [k \in DOMAIN s |-> Extends(x, s[k])] = [k \in DOMAIN s |-> VisitWeight(x)[s[k]]]
    BY DEF Types, VisitWeight
  <2> QED BY <2>1, Zenon DEF SumOver, Total
<1>2. ASSUME NEW w \in Workers
      PROVE SumOver(stacks[w], LAMBDA t : SumOver(t.receiver, LAMBDA item : Extends(x, item)))
            = Total(stacks[w], TaskWeight(VisitWeight(x), NoWeight))
  <2> DEFINE ts == stacks[w]
  <2>1. ts \in Seq(Tasks) BY DEF Types
  <2>2. ASSUME NEW i \in DOMAIN ts
        PROVE  SumFunction([k \in DOMAIN ts[i].receiver |-> Extends(x, ts[i].receiver[k])])
                 = Total(ts[i].receiver, VisitWeight(x)) + Total(ts[i].frames, NoWeight)
    <3>1. ts[i] \in Tasks BY <2>1
    <3>2. ts[i].receiver \in Seq(Items) /\ ts[i].frames \in Seq(Frames) BY <3>1 DEF Tasks
    <3>3. [k \in DOMAIN ts[i].receiver |-> Extends(x, ts[i].receiver[k])]
            = [k \in DOMAIN ts[i].receiver |-> VisitWeight(x)[ts[i].receiver[k]]]
      BY <3>2 DEF VisitWeight
    <3>4. SumFunction([k \in DOMAIN ts[i].receiver |-> Extends(x, ts[i].receiver[k])])
            = Total(ts[i].receiver, VisitWeight(x))
      BY <3>3, Zenon DEF Total
    <3>5. Total(ts[i].receiver, VisitWeight(x)) \in Nat
      BY <3>2, VisitWeightNat, TotalNat DEF NatWeight
    <3>6. Total(ts[i].frames, NoWeight) = 0
      <4> DEFINE fr == ts[i].frames
      <4>1. fr \in Seq(Frames) BY <3>2
      <4> HIDE DEF fr
      <4>2. IsFiniteSet(DOMAIN fr)
        <5>1. DOMAIN fr = 1..Len(fr) /\ Len(fr) \in Nat BY <4>1
        <5> QED BY <5>1, FS_Interval
      <4>3. \A k \in DOMAIN fr : NoWeight[fr[k]] = 0 BY <4>1 DEF NoWeight
      <4>4. SumFunctionOnSet([k \in DOMAIN fr |-> NoWeight[fr[k]]], DOMAIN fr) = 0
        BY <4>2, <4>3, SumZero
      <4>5. Total(fr, NoWeight) = 0 BY <4>4 DEF Total, SumFunction
      <4> QED BY <4>5 DEF fr
    <3> QED BY <3>4, <3>5, <3>6
  <2>3. [i \in DOMAIN ts |->
            SumFunction([k \in DOMAIN ts[i].receiver |-> Extends(x, ts[i].receiver[k])])]
          = [i \in DOMAIN ts |-> Total(ts[i].receiver, VisitWeight(x))
                                   + Total(ts[i].frames, NoWeight)]
    <3> HIDE DEF ts
    <3> QED BY <2>2
  <2>4. Total(ts, TaskWeight(VisitWeight(x), NoWeight))
          = SumFunction([i \in DOMAIN ts |-> Total(ts[i].receiver, VisitWeight(x))
                                   + Total(ts[i].frames, NoWeight)])
    BY <2>1, TasksTotal
  <2> QED BY <2>3, <2>4, Zenon DEF SumOver
<1>3. [w \in Workers |->
            SumOver(minibatch[w], LAMBDA item : Extends(x, item))
            + SumOver(stacks[w], LAMBDA t : SumOver(t.receiver, LAMBDA item : Extends(x, item)))]
        = [w \in Workers |-> ExtendedBy(x, minibatch[w], stacks[w])]
  BY <1>1, <1>2, Zenon DEF ExtendedBy
<1>4. SumFunction([w \in Workers |-> ExtendedBy(x, minibatch[w], stacks[w])])
        = SumFunctionOnSet([w \in Workers |-> ExtendedBy(x, minibatch[w], stacks[w])], Workers)
  BY DEF SumFunction
<1> QED BY <1>3, <1>4, Zenon DEF Extending, ExtendingSums

\* So it is in the next state.
LEMMA ExtendingIsNext == Types' => AllExtendingSums'
<1>1. Types => AllExtendingSums BY ExtendingIs DEF AllExtendingSums
<1> QED BY <1>1, PTL

\* What worker w's pick places.
PlacedSums(w) == Placed(w) = Total(stacks[w], TaskWeight(PlacedWeight, LeftWeight))
AllPlacedSums == \A w \in Workers : PlacedSums(w)

\* Placed(w) is what the tasks of w weigh.
LEMMA PlacedIs == ASSUME Types, NEW w \in Workers PROVE PlacedSums(w)
<1> DEFINE ts == stacks[w]
<1>1. ts \in Seq(Tasks) BY DEF Types
<1>2. ASSUME NEW i \in DOMAIN ts
      PROVE  /\ SumFunction([k \in DOMAIN ts[i].receiver |-> ts[i].receiver[k].multivisit])
                  = Total(ts[i].receiver, PlacedWeight)
             /\ SumFunction([k \in DOMAIN ts[i].frames |->
                    ts[i].frames[k].left + SumFunction(ts[i].frames[k].visits_to_perform)])
                  = Total(ts[i].frames, LeftWeight)
  <2>1. ts[i] \in Tasks BY <1>1
  <2>2. ts[i].receiver \in Seq(Items) /\ ts[i].frames \in Seq(Frames) BY <2>1 DEF Tasks
  <2>3. [k \in DOMAIN ts[i].receiver |-> ts[i].receiver[k].multivisit]
          = [k \in DOMAIN ts[i].receiver |-> PlacedWeight[ts[i].receiver[k]]]
    BY <2>2 DEF PlacedWeight
  <2>4. [k \in DOMAIN ts[i].frames |->
            ts[i].frames[k].left + SumFunction(ts[i].frames[k].visits_to_perform)]
          = [k \in DOMAIN ts[i].frames |-> LeftWeight[ts[i].frames[k]]]
    BY <2>2 DEF LeftWeight
  <2> QED BY <2>3, <2>4, Zenon DEF Total
<1>3. [i \in DOMAIN ts |->
          SumFunction([k \in DOMAIN ts[i].receiver |-> ts[i].receiver[k].multivisit])
            + SumFunction([k \in DOMAIN ts[i].frames |->
                  ts[i].frames[k].left + SumFunction(ts[i].frames[k].visits_to_perform)])]
        = [i \in DOMAIN ts |-> Total(ts[i].receiver, PlacedWeight) + Total(ts[i].frames, LeftWeight)]
  <2> HIDE DEF ts
  <2> QED BY <1>2
<1>4. Total(ts, TaskWeight(PlacedWeight, LeftWeight))
        = SumFunction([i \in DOMAIN ts |->
              Total(ts[i].receiver, PlacedWeight) + Total(ts[i].frames, LeftWeight)])
  BY <1>1, TasksTotal
<1> QED BY <1>3, <1>4, Zenon DEF Placed, PlacedSums, SumOver

\* So it is in the next state.
LEMMA PlacedIsNext == Types' => AllPlacedSums'
<1>1. Types => AllPlacedSums BY PlacedIs DEF AllPlacedSums
<1> QED BY <1>1, PTL

-----------------------------------------------------------------------------
(* Consequences of the account *)

\* What a worker holds, and extends, are natural numbers.
LEMMA WorkerNat ==
  ASSUME NEW x, NEW items \in Seq(Items), NEW l, NEW ts \in Seq(Tasks)
  PROVE  HeldBy(x, items, l, ts) \in Nat /\ ExtendedBy(x, items, ts) \in Nat
<1>1. NatWeight(ItemWeight(x), Items) /\ NatWeight(ComputingWeight(x), Items) BY ItemWeightNat
<1>2. /\ NatWeight(TaskWeight(ItemWeight(x), FrameWeight(x)), Tasks)
      /\ NatWeight(TaskWeight(VisitWeight(x), NoWeight), Tasks)
  BY <1>1, FrameWeightNat, VisitWeightNat, NoWeightNat, TaskWeightNat
<1>3. Total(items, IF l = "compute" THEN ComputingWeight(x) ELSE ItemWeight(x)) \in Nat
  BY <1>1, TotalNat DEF NatWeight
<1>4. Total(ts, TaskWeight(ItemWeight(x), FrameWeight(x))) \in Nat
  BY <1>2, TotalNat DEF NatWeight
<1>5. Total(items, VisitWeight(x)) \in Nat BY VisitWeightNat, TotalNat DEF NatWeight
<1>6. Total(ts, TaskWeight(VisitWeight(x), NoWeight)) \in Nat
  BY <1>2, TotalNat DEF NatWeight
<1> QED BY <1>3, <1>4, <1>5, <1>6 DEF HeldBy, ExtendedBy

\* What is held is a natural number.
LEMMA HeldNat == ASSUME Types, NEW x PROVE Held(x) \in Nat
<1>1. \A w \in Workers : HeldBy(x, minibatch[w], phase[w], stacks[w]) \in Nat
  BY WorkerNat DEF Types
<1>2. IsFiniteSet(Workers) BY GraphAssumption
<1>3. SumFunctionOnSet([w \in Workers |-> HeldBy(x, minibatch[w], phase[w], stacks[w])], Workers) \in Nat
  BY <1>1, <1>2, SumNat
<1>4. Total(shared_collisions, ItemWeight(x)) \in Nat
  BY ItemWeightNat, TotalNat DEF NatWeight, Types
<1> QED BY <1>3, <1>4, HeldIs DEF HeldSums

\* A visit in flight holds its leaf.
LEMMA ExtendingAtMost == ASSUME Types, NEW x PROVE Extending(x) \in Nat /\ Extending(x) <= Held(x)
<1>1. ASSUME NEW item \in Items
      PROVE  VisitWeight(x)[item] <= ItemWeight(x)[item]
             /\ VisitWeight(x)[item] <= ComputingWeight(x)[item]
  <2>1. item.path \in Paths /\ item.multivisit \in Nat \ {0} BY DEF Items
  <2>2. Holds(x, item) \in Nat /\ ItemWeight(x)[item] = Holds(x, item)
    BY ItemWeightNat DEF NatWeight, ItemWeight
  <2>3. CASE IsVisit(item) /\ Leaf(item) = x
    <3>1. Occurrences(x, item.path) >= 1 /\ Occurrences(x, item.path) \in Nat
      BY <2>1, <2>3, OccurrencesAtEnd, OccurrencesNat DEF Leaf
    <3>2. \A a, b \in Nat : a >= 1 /\ b >= 1 => a * b >= 1 OBVIOUS
    <3>3. Holds(x, item) >= 1 BY <2>1, <2>3, <3>1, <3>2 DEF Holds
    <3>4. ~IsCollision(item) BY <2>3 DEF IsVisit, IsCollision
    <3> QED BY <2>2, <2>3, <3>3, <3>4 DEF VisitWeight, Extends, ComputingWeight
  <2>4. CASE ~(IsVisit(item) /\ Leaf(item) = x)
    <3>1. VisitWeight(x)[item] = 0 BY <2>4 DEF VisitWeight, Extends
    <3>2. ComputingWeight(x)[item] \in Nat BY ItemWeightNat DEF NatWeight
    <3> QED BY <2>2, <3>1, <3>2
  <2> QED BY <2>3, <2>4
<1>2. /\ Weighs(ItemWeight(x), Items) /\ Weighs(ComputingWeight(x), Items)
      /\ Weighs(VisitWeight(x), Items) /\ Weighs(NoWeight, Frames) /\ Weighs(FrameWeight(x), Frames)
  BY ItemWeightNat, VisitWeightNat, NoWeightNat, FrameWeightNat, NatWeighs
<1>3. ASSUME NEW t \in Tasks
      PROVE  TaskWeight(VisitWeight(x), NoWeight)[t]
               <= TaskWeight(ItemWeight(x), FrameWeight(x))[t]
  <2>1. t.receiver \in Seq(Items) /\ t.frames \in Seq(Frames) BY DEF Tasks
  <2>2. Total(t.receiver, VisitWeight(x)) <= Total(t.receiver, ItemWeight(x))
    <3>1. \A k \in DOMAIN t.receiver : t.receiver[k] \in Items BY <2>1
    <3> QED BY <1>1, <1>2, <2>1, <3>1, TotalMonotone
  <2>3. Total(t.frames, NoWeight) <= Total(t.frames, FrameWeight(x))
    <3>1. \A k \in DOMAIN t.frames : NoWeight[t.frames[k]] <= FrameWeight(x)[t.frames[k]]
      BY <2>1, FrameWeightNat DEF NatWeight, NoWeight
    <3> QED BY <1>2, <2>1, <3>1, TotalMonotone
  <2>4. /\ Total(t.receiver, VisitWeight(x)) \in Int /\ Total(t.receiver, ItemWeight(x)) \in Int
        /\ Total(t.frames, NoWeight) \in Int /\ Total(t.frames, FrameWeight(x)) \in Int
    BY <1>2, <2>1, TotalIs, Zenon
  <2> QED BY <2>2, <2>3, <2>4 DEF TaskWeight
<1>4. ASSUME NEW w \in Workers
      PROVE  ExtendedBy(x, minibatch[w], stacks[w]) <= HeldBy(x, minibatch[w], phase[w], stacks[w])
  <2> DEFINE h == IF phase[w] = "compute" THEN ComputingWeight(x) ELSE ItemWeight(x)
             e == TaskWeight(VisitWeight(x), NoWeight)
             g == TaskWeight(ItemWeight(x), FrameWeight(x))
  <2>1. minibatch[w] \in Seq(Items) /\ stacks[w] \in Seq(Tasks) BY DEF Types
  <2>2. Weighs(h, Items) BY <1>2
  <2>3. Weighs(e, Tasks) /\ Weighs(g, Tasks)
    BY ItemWeightNat, VisitWeightNat, NoWeightNat, FrameWeightNat, TaskWeightNat, NatWeighs
  <2>4. \A k \in DOMAIN minibatch[w] : VisitWeight(x)[minibatch[w][k]] <= h[minibatch[w][k]]
    BY <1>1, <2>1
  <2>5. \A k \in DOMAIN stacks[w] : e[stacks[w][k]] <= g[stacks[w][k]]
    BY <1>3, <2>1
  <2> HIDE DEF h, e, g
  <2>6. Total(minibatch[w], VisitWeight(x)) <= Total(minibatch[w], h)
    BY <1>2, <2>1, <2>2, <2>4, TotalMonotone
  <2>7. Total(stacks[w], e) <= Total(stacks[w], g)
    BY <2>1, <2>3, <2>5, TotalMonotone
  <2>8. /\ Total(minibatch[w], VisitWeight(x)) \in Int /\ Total(minibatch[w], h) \in Int
        /\ Total(stacks[w], e) \in Int /\ Total(stacks[w], g) \in Int
    BY <1>2, <2>1, <2>2, <2>3, TotalIs, Zenon
  <2> QED BY <2>6, <2>7, <2>8 DEF ExtendedBy, HeldBy, h, e, g
<1> DEFINE E == [w \in Workers |-> ExtendedBy(x, minibatch[w], stacks[w])]
           H == [w \in Workers |-> HeldBy(x, minibatch[w], phase[w], stacks[w])]
<1>5. \A w \in Workers : E[w] \in Nat /\ H[w] \in Nat /\ E[w] <= H[w]
  <2>1. \A w \in Workers : E[w] \in Nat /\ H[w] \in Nat BY WorkerNat DEF Types
  <2> QED BY <1>4, <2>1
<1>6. IsFiniteSet(Workers) BY GraphAssumption
<1>7. Extending(x) = SumFunctionOnSet(E, Workers) BY ExtendingIs DEF ExtendingSums
<1>8. Held(x) = Total(shared_collisions, ItemWeight(x)) + SumFunctionOnSet(H, Workers)
  BY HeldIs DEF HeldSums
<1>9. Total(shared_collisions, ItemWeight(x)) \in Nat
  BY ItemWeightNat, TotalNat DEF NatWeight, Types
<1> HIDE DEF E, H
<1>10. SumFunctionOnSet(E, Workers) \in Nat /\ SumFunctionOnSet(H, Workers) \in Nat
  BY <1>5, <1>6, SumNat
<1>11. SumFunctionOnSet(E, Workers) <= SumFunctionOnSet(H, Workers)
  BY <1>5, <1>6, SumMonotone
<1> QED BY <1>7, <1>8, <1>9, <1>10, <1>11

-----------------------------------------------------------------------------
(* The inductive invariant, and how a step of a pick moves a worker's tasks. *)

\* Only the pick that holds nodes_mutex_ has tasks.
OnePick ==
  /\ \A w \in Workers : phase[w] = "pick" <=> stacks[w] # <<>>
  /\ \A v, w \in Workers : phase[v] = "pick" /\ phase[w] = "pick" => v = w

\* A frame arrives with visits to place and none placed, and descends when all
\* are placed; only the pick's own call starts at the root.
FrameInv(i, f) ==
  /\ f.step = "arrive" => f.left > 0 /\ \A c \in Nodes : f.visits_to_perform[c] = 0
  /\ f.step = "descend" => f.left = 0
  /\ f.path = <<Root>> => i = 1

FramesInv ==
  \A w \in Workers : \A i \in DOMAIN stacks[w] : \A k \in DOMAIN stacks[w][i].frames :
    FrameInv(i, stacks[w][i].frames[k])

\* The pick's limit is within what is left of the collisions, and a collision
\* that may grow took all of it.
LimitInv(w) ==
  phase[w] = "pick" =>
    /\ new_start[w] = Len(minibatch[w])
    /\ stacks[w][1].collision_limit <= collisions_left[w]
    /\ \A i \in DOMAIN stacks[w] : \A k \in DOMAIN stacks[w][i].receiver :
         stacks[w][i].receiver[k].maxvisit =>
           stacks[w][i].receiver[k].multivisit = stacks[w][1].collision_limit

\* The collisions of the last pick are within what is left of the collisions,
\* and one that may grow is the only one.
FreshInv(w) ==
  phase[w] \in {"process", "grow"} =>
    /\ SumFunctionOnSet(CollisionVisits(minibatch[w]), Fresh(w)) <= collisions_left[w]
    /\ \A j, k \in Fresh(w) :
         minibatch[w][j].maxvisit /\ IsCollision(minibatch[w][k]) => j = k

\* Only collisions are shared.
SharedInv == \A k \in DOMAIN shared_collisions : IsCollision(shared_collisions[k])

IInv ==
  /\ TypeOK /\ OnePick /\ FramesInv /\ SharedInv
  /\ \A w \in Workers : LimitInv(w) /\ FreshInv(w)
  /\ VirtualLossAccounted /\ ExtendedOnce /\ PickWithinLimit

\* Integer weights of items and frames give integer weights of tasks.
LEMMA TaskWeighs ==
  ASSUME NEW h, NEW g, Weighs(h, Items), Weighs(g, Frames)
  PROVE  Weighs(TaskWeight(h, g), Tasks)
<1> SUFFICES ASSUME NEW t \in Tasks PROVE Total(t.receiver, h) + Total(t.frames, g) \in Int
  BY DEF Weighs, TaskWeight
<1>1. t.receiver \in Seq(Items) /\ t.frames \in Seq(Frames) BY DEF Tasks
<1>2. Total(t.receiver, h) \in Int BY <1>1, TotalIs, Zenon
<1>3. Total(t.frames, g) \in Int BY <1>1, TotalIs, Zenon
<1> QED BY <1>2, <1>3

\* Task t after its current frame went on as news and added items.
Moved(t, news, items) ==
  [collision_limit |-> t.collision_limit,
   frames |-> Front(t.frames) \o news, receiver |-> t.receiver \o items]

\* A worker's tasks when task i does that and hands over tasks.
MovedTasks(ts, i, news, items, tasks) == [ts EXCEPT ![i] = Moved(ts[i], news, items)] \o tasks

\* The task's weight changes by what it gave up and what it got.
LEMMA MovedIs ==
  ASSUME NEW t \in Tasks, t.frames # <<>>,
         NEW news \in Seq(Frames), NEW items \in Seq(Items)
  PROVE  /\ Moved(t, news, items) \in Tasks
         /\ Front(t.frames) \in Seq(Frames) /\ Last(t.frames) \in Frames
         /\ \A h, g : Weighs(h, Items) /\ Weighs(g, Frames) =>
              TaskWeight(h, g)[Moved(t, news, items)]
                = TaskWeight(h, g)[t] - g[Last(t.frames)] + Total(news, g) + Total(items, h)
<1>1. t.receiver \in Seq(Items) /\ t.frames \in Seq(Frames) /\ t.collision_limit \in Nat \ {0}
  BY DEF Tasks
<1>2. Front(t.frames) \in Seq(Frames) /\ Last(t.frames) \in Frames
  BY <1>1 DEF Front, Last
<1>3. Front(t.frames) \o news \in Seq(Frames) /\ t.receiver \o items \in Seq(Items)
  BY <1>1, <1>2
<1>4. Moved(t, news, items) \in Tasks BY <1>1, <1>3 DEF Moved, Tasks
<1>5. ASSUME NEW h, NEW g, Weighs(h, Items), Weighs(g, Frames)
      PROVE  TaskWeight(h, g)[Moved(t, news, items)]
               = TaskWeight(h, g)[t] - g[Last(t.frames)] + Total(news, g) + Total(items, h)
  <2>1. Total(t.frames, g) = Total(Front(t.frames), g) + g[Last(t.frames)]
    BY <1>1, <1>5, TotalFront, Zenon
  <2>2. Total(Front(t.frames) \o news, g) = Total(Front(t.frames), g) + Total(news, g)
    BY <1>2, <1>5, TotalConcat
  <2>3. Total(t.receiver \o items, h) = Total(t.receiver, h) + Total(items, h)
    BY <1>1, <1>5, TotalConcat
  <2>4. /\ Total(t.frames, g) \in Int /\ Total(Front(t.frames), g) \in Int
        /\ Total(news, g) \in Int /\ Total(t.receiver, h) \in Int /\ Total(items, h) \in Int
    BY <1>1, <1>2, <1>5, TotalIs, Zenon
  <2>5. g[Last(t.frames)] \in Int BY <1>2, <1>5 DEF Weighs
  <2>6. TaskWeight(h, g)[Moved(t, news, items)]
          = Total(t.receiver \o items, h) + Total(Front(t.frames) \o news, g)
    BY <1>4, Zenon DEF TaskWeight, Moved
  <2>7. TaskWeight(h, g)[t] = Total(t.receiver, h) + Total(t.frames, g) BY DEF TaskWeight
  <2> DEFINE m == TaskWeight(h, g)[Moved(t, news, items)] o == TaskWeight(h, g)[t]
             a == Total(t.frames, g) b == Total(Front(t.frames), g) c == g[Last(t.frames)]
             d == Total(news, g) e == Total(t.receiver, h) k == Total(items, h)
  <2>8. m = (e + k) + (b + d) /\ o = e + a /\ a = b + c BY <2>1, <2>2, <2>3, <2>6, <2>7
  <2>9. a \in Int /\ b \in Int /\ c \in Int /\ d \in Int /\ e \in Int /\ k \in Int BY <2>4, <2>5
  <2> HIDE DEF m, o, a, b, c, d, e, k
  <2>10. m = o - c + d + k BY <2>8, <2>9
  <2> QED BY <2>10 DEF m, o, c, d, k
<1> QED BY <1>2, <1>4, <1>5

\* So does that of all of the worker's tasks, and the new tasks add theirs.
LEMMA MovedTotal ==
  ASSUME NEW ts \in Seq(Tasks), NEW i \in DOMAIN ts, ts[i].frames # <<>>,
         NEW news \in Seq(Frames), NEW items \in Seq(Items), NEW tasks \in Seq(Tasks),
         NEW h, NEW g, Weighs(h, Items), Weighs(g, Frames)
  PROVE  /\ MovedTasks(ts, i, news, items, tasks) \in Seq(Tasks)
         /\ Total(MovedTasks(ts, i, news, items, tasks), TaskWeight(h, g))
              = Total(ts, TaskWeight(h, g)) - g[Last(ts[i].frames)]
                  + Total(news, g) + Total(items, h) + Total(tasks, TaskWeight(h, g))
<1> DEFINE t == Moved(ts[i], news, items) W == TaskWeight(h, g)
<1>1. ts[i] \in Tasks OBVIOUS
<1>2. t \in Tasks /\ Last(ts[i].frames) \in Frames
      /\ W[t] = W[ts[i]] - g[Last(ts[i].frames)] + Total(news, g) + Total(items, h)
  BY <1>1, MovedIs
<1>3. Weighs(W, Tasks) BY TaskWeighs
<1> DEFINE moved == [ts EXCEPT ![i] = t]
<1> HIDE DEF t, W
<1>4. moved \in Seq(Tasks) /\ Total(moved, W) = Total(ts, W) - W[ts[i]] + W[t]
  BY <1>2, <1>3, TotalUpdate
<1> HIDE DEF moved
<1>5. moved \o tasks \in Seq(Tasks) /\ Total(moved \o tasks, W) = Total(moved, W) + Total(tasks, W)
  BY <1>3, <1>4, TotalConcat
<1>6. Total(ts, W) \in Int /\ Total(tasks, W) \in Int BY <1>3, TotalIs, Zenon
<1>7. W[ts[i]] \in Int /\ W[t] \in Int BY <1>1, <1>2, <1>3 DEF Weighs
<1>8. Total(news, g) \in Int /\ Total(items, h) \in Int BY TotalIs, Zenon
<1>9. g[Last(ts[i].frames)] \in Int BY <1>2 DEF Weighs
<1>10. MovedTasks(ts, i, news, items, tasks) = moved \o tasks BY DEF MovedTasks, moved, t
<1>11. Total(moved \o tasks, W) = Total(ts, W) - g[Last(ts[i].frames)]
          + Total(news, g) + Total(items, h) + Total(tasks, W)
  <2>1. W[t] = W[ts[i]] - g[Last(ts[i].frames)] + Total(news, g) + Total(items, h) BY <1>2
  <2>2. Total(moved, W) = Total(ts, W) - W[ts[i]] + W[t] BY <1>4
  <2>3. Total(moved \o tasks, W) = Total(moved, W) + Total(tasks, W) BY <1>5
  <2> DEFINE a == Total(ts, W) b == W[ts[i]] c == W[t] d == Total(news, g)
             e == Total(items, h) k == g[Last(ts[i].frames)] l == Total(tasks, W)
             m == Total(moved, W) n == Total(moved \o tasks, W)
  <2>4. a \in Int /\ b \in Int /\ c \in Int /\ d \in Int /\ e \in Int /\ k \in Int /\ l \in Int
    BY <1>6, <1>7, <1>8, <1>9
  <2>5. c = b - k + d + e /\ m = a - b + c /\ n = m + l BY <2>1, <2>2, <2>3
  <2> HIDE DEF a, b, c, d, e, k, l, m, n
  <2>6. n = a - k + d + e + l BY <2>4, <2>5
  <2> QED BY <2>6 DEF a, b, c, d, e, k, l, m, n
<1> QED BY <1>5, <1>10, <1>11, Zenon DEF W

\* Where the frames and items of task j of the moved tasks come from.
ComesFrom(ts, i, news, items, tasks, j, t) ==
  /\ \A k \in DOMAIN t.frames :
       \/ j \in DOMAIN ts /\ \E n \in DOMAIN ts[j].frames : t.frames[k] = ts[j].frames[n]
       \/ j = i /\ \E n \in DOMAIN news : t.frames[k] = news[n]
       \/ \E m \in DOMAIN tasks : \E n \in DOMAIN tasks[m].frames :
            t.frames[k] = tasks[m].frames[n]
  /\ \A k \in DOMAIN t.receiver :
       \/ j \in DOMAIN ts /\ \E n \in DOMAIN ts[j].receiver : t.receiver[k] = ts[j].receiver[n]
       \/ \E n \in DOMAIN items : t.receiver[k] = items[n]
       \/ \E m \in DOMAIN tasks : \E n \in DOMAIN tasks[m].receiver :
            t.receiver[k] = tasks[m].receiver[n]
  /\ j = 1 => t.collision_limit = ts[1].collision_limit

\* Nothing comes from elsewhere.
LEMMA MovedElements ==
  ASSUME NEW ts \in Seq(Tasks), NEW i \in DOMAIN ts, ts[i].frames # <<>>,
         NEW news \in Seq(Frames), NEW items \in Seq(Items), NEW tasks \in Seq(Tasks),
         NEW j \in DOMAIN MovedTasks(ts, i, news, items, tasks)
  PROVE  ComesFrom(ts, i, news, items, tasks, j, MovedTasks(ts, i, news, items, tasks)[j])
<1> DEFINE moved == [ts EXCEPT ![i] = Moved(ts[i], news, items)]
           t == MovedTasks(ts, i, news, items, tasks)[j]
<1>1. ts[i] \in Tasks OBVIOUS
<1>2. Moved(ts[i], news, items) \in Tasks BY <1>1, MovedIs
<1>3. moved \in Seq(Tasks) /\ Len(moved) = Len(ts) /\ DOMAIN moved = DOMAIN ts BY <1>2
<1>4. j \in DOMAIN ts \/ j - Len(ts) \in DOMAIN tasks
  BY <1>3 DEF MovedTasks
<1>5. CASE j \in DOMAIN ts /\ j # i
  <2>1. t = ts[j] BY <1>3, <1>5 DEF MovedTasks
  <2>2. j = 1 => t.collision_limit = ts[1].collision_limit BY <2>1
  <2> HIDE DEF t
  <2> QED BY <1>5, <2>1, <2>2 DEF t, ComesFrom
<1>6. CASE j = i
  <2>1. t = Moved(ts[i], news, items) BY <1>3, <1>6 DEF MovedTasks
  <2> HIDE DEF t
  <2>2. t.frames = Front(ts[i].frames) \o news /\ t.receiver = ts[i].receiver \o items
        /\ t.collision_limit = ts[i].collision_limit
    BY <2>1, Zenon DEF Moved
  <2>3. ts[i].receiver \in Seq(Items) /\ ts[i].frames \in Seq(Frames) BY <1>1 DEF Tasks
  <2> DEFINE fr == ts[i].frames
  <2>4. Front(fr) \in Seq(Frames) /\ \A k \in DOMAIN Front(fr) : k \in DOMAIN fr /\ Front(fr)[k] = fr[k]
    BY <2>3 DEF Front
  <2> HIDE DEF fr
  <2>5. ASSUME NEW k \in DOMAIN t.frames
        PROVE  \/ \E n \in DOMAIN fr : t.frames[k] = fr[n]
               \/ \E n \in DOMAIN news : t.frames[k] = news[n]
    <3>1. t.frames = Front(fr) \o news BY <2>2 DEF fr
    <3>2. k \in DOMAIN Front(fr) \/ (k - Len(Front(fr)) \in DOMAIN news /\ t.frames[k] = news[k - Len(Front(fr))])
      BY <2>4, <3>1
    <3>3. k \in DOMAIN Front(fr) => t.frames[k] = Front(fr)[k] BY <2>4, <3>1
    <3> QED BY <2>4, <3>2, <3>3
  <2>6. ASSUME NEW k \in DOMAIN t.receiver
        PROVE  \/ \E n \in DOMAIN ts[i].receiver : t.receiver[k] = ts[i].receiver[n]
               \/ \E n \in DOMAIN items : t.receiver[k] = items[n]
    <3> DEFINE re == ts[i].receiver
    <3>1. re \in Seq(Items) /\ t.receiver = re \o items BY <2>2, <2>3
    <3> HIDE DEF re
    <3>2. k \in DOMAIN re \/ (k - Len(re) \in DOMAIN items /\ t.receiver[k] = items[k - Len(re)])
      BY <3>1
    <3>3. k \in DOMAIN re => t.receiver[k] = re[k] BY <3>1
    <3> QED BY <3>2, <3>3 DEF re
  <2> QED BY <1>6, <2>2, <2>5, <2>6, Zenon DEF t, fr, ComesFrom
<1>7. CASE j \notin DOMAIN ts /\ j - Len(ts) \in DOMAIN tasks
  <2> DEFINE m == j - Len(ts)
  <2>1. t = tasks[m] BY <1>3, <1>7 DEF MovedTasks
  <2>2. j # 1 BY <1>7
  <2> HIDE DEF t
  <2> QED BY <1>7, <2>1, <2>2 DEF t, ComesFrom
<1> QED BY <1>4, <1>5, <1>6, <1>7

\* The pick's own call stays where it is, with its limit.
LEMMA MovedFirst ==
  ASSUME NEW ts \in Seq(Tasks), NEW i \in DOMAIN ts, ts[i].frames # <<>>,
         NEW news \in Seq(Frames), NEW items \in Seq(Items), NEW tasks \in Seq(Tasks)
  PROVE  /\ 1 \in DOMAIN MovedTasks(ts, i, news, items, tasks)
         /\ MovedTasks(ts, i, news, items, tasks)[1].collision_limit = ts[1].collision_limit
         /\ MovedTasks(ts, i, news, items, tasks) # <<>>
<1> DEFINE moved == [ts EXCEPT ![i] = Moved(ts[i], news, items)]
           r == MovedTasks(ts, i, news, items, tasks)
<1>1. i \in 1..Len(ts) OBVIOUS
<1>2. Moved(ts[i], news, items) \in Tasks BY MovedIs
<1>3. moved \in Seq(Tasks) /\ Len(moved) = Len(ts) BY <1>2
<1>4. 1 \in DOMAIN r /\ r # <<>> BY <1>1, <1>3 DEF MovedTasks
<1>5. ComesFrom(ts, i, news, items, tasks, 1, r[1]) BY <1>4, MovedElements
<1> HIDE DEF r
<1> QED BY <1>4, <1>5 DEF ComesFrom, r

-----------------------------------------------------------------------------
(* What a step of one worker changes *)

\* A frame holds the same while no node becomes visited and none stops halting.
LEMMA FrameWeightKept ==
  ASSUME NEW x, visited' = visited, halting' = halting PROVE FrameWeight(x)' = FrameWeight(x)
BY DEF FrameWeight, HeldByFrame, HeldOnTheWay, ShouldStopPickingHere

WorkersNat == \A x : \A v \in Workers : HeldBy(x, minibatch[v], phase[v], stacks[v]) \in Nat

\* What the workers hold in the next state are natural numbers.
LEMMA WorkersNatNext == Types' => WorkersNat'
<1>1. Types => WorkersNat BY WorkerNat DEF Types, WorkersNat
<1> QED BY <1>1, PTL

\* When one worker moves, Held changes by what it and the shared collisions hold.
LEMMA HeldMoves ==
  ASSUME Types, Types', NEW x, NEW w \in Workers,
         \A v \in Workers \ {w} : HeldBy(x, minibatch[v], phase[v], stacks[v])'
                                    = HeldBy(x, minibatch[v], phase[v], stacks[v])
  PROVE  /\ Held(x)' = Held(x)
              - Total(shared_collisions, ItemWeight(x)) + Total(shared_collisions', ItemWeight(x))
              - HeldBy(x, minibatch[w], phase[w], stacks[w])
              + HeldBy(x, minibatch[w], phase[w], stacks[w])'
         /\ Held(x) \in Nat /\ Held(x)' \in Nat
         /\ Total(shared_collisions, ItemWeight(x)) \in Nat
         /\ Total(shared_collisions', ItemWeight(x)) \in Nat
         /\ HeldBy(x, minibatch[w], phase[w], stacks[w]) \in Nat
         /\ HeldBy(x, minibatch[w], phase[w], stacks[w])' \in Nat
<1> DEFINE G == [v \in Workers |-> HeldBy(x, minibatch[v], phase[v], stacks[v])]
           H == [v \in Workers |-> HeldBy(x, minibatch[v], phase[v], stacks[v])']
           a == Total(shared_collisions, ItemWeight(x))
           b == Total(shared_collisions', ItemWeight(x))
<1>1. Held(x) = a + SumFunctionOnSet(G, Workers) BY HeldIs DEF HeldSums
<1>2. Held(x)' = b + SumFunctionOnSet(H, Workers)
  <2>1. HeldSums(x)' BY HeldIsNext DEF AllHeldSums
  <2> QED BY <2>1 DEF HeldSums
<1>3. \A v \in Workers : HeldBy(x, minibatch[v], phase[v], stacks[v]) \in Nat
  BY WorkerNat, Zenon DEF Types
<1>4. \A v \in Workers : HeldBy(x, minibatch[v], phase[v], stacks[v])' \in Nat
  BY WorkersNatNext DEF WorkersNat
<1>5. \A v \in Workers : G[v] \in Int /\ H[v] \in Int /\ (v # w => H[v] = G[v])
  BY <1>3, <1>4
<1>6. IsFiniteSet(Workers) BY GraphAssumption
<1>7. a \in Nat BY ItemWeightNat, TotalNat, Zenon DEF NatWeight, Types
<1>8. b \in Nat BY ItemWeightNat, TotalNat, Zenon DEF NatWeight, Types
<1>9. G[w] = HeldBy(x, minibatch[w], phase[w], stacks[w])
      /\ H[w] = HeldBy(x, minibatch[w], phase[w], stacks[w])'
  OBVIOUS
<1>10. /\ \A v \in Workers : G[v] \in Nat /\ H[v] \in Nat BY <1>3, <1>4
<1> HIDE DEF G, H, a, b
<1>11. SumFunctionOnSet(H, Workers) = SumFunctionOnSet(G, Workers) - G[w] + H[w]
  BY <1>5, <1>6, SumChange
<1>12. SumFunctionOnSet(G, Workers) \in Nat /\ SumFunctionOnSet(H, Workers) \in Nat
  BY <1>6, <1>10, SumNat
<1>13. G[w] \in Nat /\ H[w] \in Nat BY <1>10
<1>14. Held(x) \in Nat /\ Held(x)' \in Nat BY <1>1, <1>2, <1>7, <1>8, <1>12
<1>15. Held(x)' = Held(x) - a + b - G[w] + H[w]
  BY <1>1, <1>2, <1>7, <1>8, <1>11, <1>12, <1>13
<1> QED BY <1>7, <1>8, <1>9, <1>13, <1>14, <1>15 DEF a, b

\* Likewise for Extending.
LEMMA ExtendedMoves ==
  ASSUME Types, Types', NEW x, NEW w \in Workers,
         \A v \in Workers \ {w} : minibatch'[v] = minibatch[v] /\ stacks'[v] = stacks[v]
  PROVE  /\ Extending(x)' = Extending(x) - ExtendedBy(x, minibatch[w], stacks[w])
                                + ExtendedBy(x, minibatch'[w], stacks'[w])
         /\ Extending(x) \in Nat /\ Extending(x)' \in Nat
         /\ ExtendedBy(x, minibatch[w], stacks[w]) \in Nat
         /\ ExtendedBy(x, minibatch'[w], stacks'[w]) \in Nat
<1> DEFINE G == [v \in Workers |-> ExtendedBy(x, minibatch[v], stacks[v])]
           H == [v \in Workers |-> ExtendedBy(x, minibatch'[v], stacks'[v])]
<1>1. Extending(x) = SumFunctionOnSet(G, Workers) BY ExtendingIs DEF ExtendingSums
<1>2. Extending(x)' = SumFunctionOnSet(H, Workers)
  <2>1. ExtendingSums(x)' BY ExtendingIsNext DEF AllExtendingSums
  <2> QED BY <2>1 DEF ExtendingSums
<1>3. \A v \in Workers : ExtendedBy(x, minibatch[v], stacks[v]) \in Nat
  BY WorkerNat, Zenon DEF Types
<1>4. \A v \in Workers : ExtendedBy(x, minibatch'[v], stacks'[v]) \in Nat
  BY WorkerNat, Zenon DEF Types
<1>5. \A v \in Workers : G[v] \in Int /\ H[v] \in Int /\ (v # w => H[v] = G[v])
  BY <1>3, <1>4
<1>6. IsFiniteSet(Workers) BY GraphAssumption
<1>7. G[w] = ExtendedBy(x, minibatch[w], stacks[w])
      /\ H[w] = ExtendedBy(x, minibatch'[w], stacks'[w])
  OBVIOUS
<1>8. \A v \in Workers : G[v] \in Nat /\ H[v] \in Nat BY <1>3, <1>4
<1> HIDE DEF G, H
<1>9. SumFunctionOnSet(H, Workers) = SumFunctionOnSet(G, Workers) - G[w] + H[w]
  BY <1>5, <1>6, SumChange
<1>10. SumFunctionOnSet(G, Workers) \in Nat /\ SumFunctionOnSet(H, Workers) \in Nat
  BY <1>6, <1>8, SumNat
<1> QED BY <1>1, <1>2, <1>7, <1>8, <1>9, <1>10

\* The account is of natural numbers.
InFlight == n_in_flight \in [Nodes -> Nat]

\* What is in flight is what is held and what went astray, hence never negative.
LEMMA InFlightNat == Types /\ VirtualLossAccounted => InFlight
<1> SUFFICES ASSUME Types, VirtualLossAccounted, NEW x \in Nodes PROVE n_in_flight[x] \in Nat
  BY Zenon DEF Types, InFlight
<1>1. Held(x) \in Nat /\ stray[x] \in Nat BY HeldNat DEF Types
<1> QED BY <1>1 DEF VirtualLossAccounted

\* TypeOK and the loose typing Types: what is missing follows from the account.
LEMMA TypesOf == TypeOK => Types
BY DEF TypeOK, Types

LeftInv == \A w \in Workers : collisions_left[w] \in 0..CollisionsLeft

\* Types, the account and the bound of collisions_left make TypeOK.
LEMMA TypeOKOf == Types /\ VirtualLossAccounted /\ LeftInv => TypeOK
<1> SUFFICES ASSUME Types, VirtualLossAccounted, LeftInv PROVE TypeOK
  OBVIOUS
<1>1. collisions_left \in [Workers -> 0..CollisionsLeft] BY DEF Types, LeftInv
<1>2. InFlight BY InFlightNat
<1> QED BY <1>1, <1>2 DEF Types, TypeOK, InFlight

\* So they do in the next state.
LEMMA TypeOKNext == (Types /\ VirtualLossAccounted /\ LeftInv)' => TypeOK'
BY TypeOKOf, PTL

-----------------------------------------------------------------------------
(* A step of a pick *)

\* What holds of what is placed by a frame f of task i of worker w: news are the
\* frames f is replaced by, items what it adds to the receiver, tasks what it
\* hands over.
Places(w, i, f, news, items, tasks) ==
  /\ news \in Seq(Frames) /\ items \in Seq(Items) /\ tasks \in Seq(Tasks)
  /\ \A k \in DOMAIN news : FrameInv(i, news[k])
  /\ \A j \in DOMAIN tasks : tasks[j].receiver = <<>>
       /\ \A k \in DOMAIN tasks[j].frames : FrameInv(0, tasks[j].frames[k])
  /\ \A k \in DOMAIN items :
       items[k].maxvisit => items[k].multivisit = stacks[w][1].collision_limit
  /\ Total(news, LeftWeight) + Total(items, PlacedWeight)
       + Total(tasks, TaskWeight(PlacedWeight, LeftWeight)) <= LeftWeight[f]

\* The virtual loss it adds, but for what goes astray, is what is held for that.
Balanced(f, news, items, tasks) ==
  \A x \in Nodes :
    n_in_flight'[x] - stray'[x] = n_in_flight[x] - stray[x] - FrameWeight(x)[f]
      + Total(news, FrameWeight(x)) + Total(items, ItemWeight(x))
      + Total(tasks, TaskWeight(ItemWeight(x), FrameWeight(x)))

\* At most one visit is started, at a node that nobody extends.
StartsOnce(items) ==
  \A x \in Nodes \ visited :
    \/ Total(items, VisitWeight(x)) = 0
    \/ Total(items, VisitWeight(x)) = 1 /\ n_in_flight[x] = 0

\* A step that satisfies the three keeps the invariant.
LEMMA PickStepInv ==
  ASSUME IInv, NEW w \in Workers, phase[w] = "pick", NEW i \in DOMAIN stacks[w],
         stacks[w][i].frames # <<>>, NEW news, NEW items, NEW tasks,
         Places(w, i, Last(stacks[w][i].frames), news, items, tasks),
         Balanced(Last(stacks[w][i].frames), news, items, tasks), StartsOnce(items),
         PickUnchanged, n_in_flight' \in [Nodes -> Int], stray' \in [Nodes -> Nat],
         stacks' = [stacks EXCEPT ![w] = MovedTasks(stacks[w], i, news, items, tasks)]
  PROVE  IInv'
<1> DEFINE f == Last(stacks[w][i].frames)
           ts == MovedTasks(stacks[w], i, news, items, tasks)
<1>1. Types /\ TypeOK BY TypesOf DEF IInv
<1>2. /\ stacks[w] \in Seq(Tasks) /\ stacks[w][i] \in Tasks /\ f \in Frames
      /\ news \in Seq(Frames) /\ items \in Seq(Items) /\ tasks \in Seq(Tasks)
  <2>1. stacks[w] \in Seq(Tasks) /\ stacks[w][i] \in Tasks BY <1>1 DEF Types
  <2>2. stacks[w][i].frames \in Seq(Frames) BY <2>1 DEF Tasks
  <2> QED BY <2>1, <2>2 DEF Places, Last
<1>3. ASSUME NEW h, NEW g, Weighs(h, Items), Weighs(g, Frames)
      PROVE  /\ ts \in Seq(Tasks)
             /\ Total(ts, TaskWeight(h, g)) = Total(stacks[w], TaskWeight(h, g)) - g[f]
                  + Total(news, g) + Total(items, h) + Total(tasks, TaskWeight(h, g))
             /\ Total(stacks[w], TaskWeight(h, g)) \in Int
             /\ g[f] \in Int /\ Total(news, g) \in Int /\ Total(items, h) \in Int
             /\ Total(tasks, TaskWeight(h, g)) \in Int
  <2>1. /\ ts \in Seq(Tasks)
        /\ Total(ts, TaskWeight(h, g)) = Total(stacks[w], TaskWeight(h, g)) - g[f]
                  + Total(news, g) + Total(items, h) + Total(tasks, TaskWeight(h, g))
    BY <1>2, <1>3, MovedTotal
  <2>2. Weighs(TaskWeight(h, g), Tasks) BY <1>3, TaskWeighs
  <2>3. Total(stacks[w], TaskWeight(h, g)) \in Int /\ Total(tasks, TaskWeight(h, g)) \in Int
    BY <1>2, <2>2, TotalIs, Zenon
  <2>4. Total(news, g) \in Int /\ Total(items, h) \in Int BY <1>2, <1>3, TotalIs, Zenon
  <2>5. g[f] \in Int BY <1>2, <1>3 DEF Weighs
  <2> QED BY <2>1, <2>3, <2>4, <2>5
<1>4. ts \in Seq(Tasks)
  BY <1>3, PlacedWeightNat, LeftWeightNat, NatWeighs
<1>5. /\ stacks'[w] = ts /\ \A v \in Workers \ {w} : stacks'[v] = stacks[v]
      /\ minibatch' = minibatch /\ phase' = phase /\ visited' = visited /\ halting' = halting
      /\ collisions_left' = collisions_left /\ new_start' = new_start /\ picks' = picks
      /\ shared_collisions' = shared_collisions
  BY <1>1 DEF Types, PickUnchanged
<1>6. Types'
  <2>1. stacks' \in [Workers -> Seq(Tasks)] BY <1>1, <1>4 DEF Types
  <2> QED BY <1>1, <1>5, <2>1, Zenon DEF Types
<1>7. VirtualLossAccounted'
  <2> SUFFICES ASSUME NEW x \in Nodes PROVE n_in_flight'[x] = Held(x)' + stray'[x]
    BY DEF VirtualLossAccounted
  <2>1. FrameWeight(x)' = FrameWeight(x) BY <1>5, FrameWeightKept
  <2>2. \A v \in Workers \ {w} : HeldBy(x, minibatch[v], phase[v], stacks[v])'
                                   = HeldBy(x, minibatch[v], phase[v], stacks[v])
    BY <1>5, <2>1 DEF HeldBy
  <2> DEFINE W == TaskWeight(ItemWeight(x), FrameWeight(x))
  <2>3. HeldBy(x, minibatch[w], phase[w], stacks[w])
          = Total(minibatch[w], ItemWeight(x)) + Total(stacks[w], W)
    BY Zenon DEF HeldBy
  <2>4. HeldBy(x, minibatch[w], phase[w], stacks[w])'
          = Total(minibatch[w], ItemWeight(x)) + Total(ts, W)
    BY <1>5, <2>1 DEF HeldBy
  <2>5. /\ Total(ts, W) = Total(stacks[w], W) - FrameWeight(x)[f]
              + Total(news, FrameWeight(x)) + Total(items, ItemWeight(x)) + Total(tasks, W)
        /\ Total(stacks[w], W) \in Int
        /\ FrameWeight(x)[f] \in Int /\ Total(news, FrameWeight(x)) \in Int
        /\ Total(items, ItemWeight(x)) \in Int /\ Total(tasks, W) \in Int
    BY <1>3, ItemWeightNat, FrameWeightNat, NatWeighs
  <2>6. Total(minibatch[w], ItemWeight(x)) \in Int
    <3>1. minibatch[w] \in Seq(Items) BY <1>1 DEF Types
    <3> QED BY <3>1, ItemWeightNat, NatWeighs, TotalIs, Zenon
  <2>7. /\ Held(x)' = Held(x)
              - Total(shared_collisions, ItemWeight(x)) + Total(shared_collisions', ItemWeight(x))
              - HeldBy(x, minibatch[w], phase[w], stacks[w])
              + HeldBy(x, minibatch[w], phase[w], stacks[w])'
        /\ Held(x) \in Nat /\ Total(shared_collisions, ItemWeight(x)) \in Nat
    BY <1>1, <1>6, <2>2, HeldMoves, Zenon
  <2>8. /\ n_in_flight[x] = Held(x) + stray[x]
        /\ n_in_flight'[x] - stray'[x] = n_in_flight[x] - stray[x] - FrameWeight(x)[f]
             + Total(news, FrameWeight(x)) + Total(items, ItemWeight(x)) + Total(tasks, W)
    BY DEF IInv, VirtualLossAccounted, Balanced
  <2>9. n_in_flight[x] \in Int /\ stray[x] \in Int /\ n_in_flight'[x] \in Int /\ stray'[x] \in Int
    BY <1>1, <1>6 DEF Types
  <2>10. Total(shared_collisions', ItemWeight(x)) = Total(shared_collisions, ItemWeight(x))
    BY <1>5
  <2> HIDE DEF W, f, ts
  <2>11. Held(x)' = Held(x) - Total(stacks[w], W) + Total(ts, W)
    <3> DEFINE p == Held(x) q == Held(x)' r == Total(shared_collisions, ItemWeight(x))
               u == HeldBy(x, minibatch[w], phase[w], stacks[w])
               v == HeldBy(x, minibatch[w], phase[w], stacks[w])'
               m == Total(minibatch[w], ItemWeight(x))
               y == Total(stacks[w], W) z == Total(ts, W)
    <3>1. q = p - r + r - u + v /\ u = m + y /\ v = m + z BY <2>3, <2>4, <2>7, <2>10
    <3>2. p \in Int /\ r \in Int /\ m \in Int /\ y \in Int BY <2>5, <2>6, <2>7
    <3>3. z \in Int
      <4> DEFINE o == FrameWeight(x)[f] a == Total(news, FrameWeight(x))
                 b == Total(items, ItemWeight(x)) c == Total(tasks, W)
      <4>1. z = y - o + a + b + c /\ o \in Int /\ a \in Int /\ b \in Int /\ c \in Int BY <2>5
      <4> HIDE DEF o, a, b, c, y, z
      <4> QED BY <3>2, <4>1
    <3> HIDE DEF p, q, r, u, v, m, y, z
    <3>4. q = p - y + z BY <3>1, <3>2, <3>3
    <3> QED BY <3>4 DEF p, q, y, z
  <2> DEFINE n0 == n_in_flight[x] n1 == n_in_flight'[x] s0 == stray[x] s1 == stray'[x]
             h0 == Held(x) h1 == Held(x)' o == FrameWeight(x)[f]
             a == Total(news, FrameWeight(x)) b == Total(items, ItemWeight(x)) c == Total(tasks, W)
             t0 == Total(stacks[w], W) t1 == Total(ts, W)
  <2>12. n0 \in Int /\ n1 \in Int /\ s0 \in Int /\ s1 \in Int /\ h0 \in Int /\ t0 \in Int
         /\ o \in Int /\ a \in Int /\ b \in Int /\ c \in Int
    BY <2>5, <2>7, <2>9
  <2>13. n0 = h0 + s0 /\ n1 - s1 = n0 - s0 - o + a + b + c
    BY <2>8
  <2>14. h1 = h0 - t0 + t1 BY <2>11
  <2>15. t1 = t0 - o + a + b + c BY <2>5
  <2> HIDE DEF n0, n1, s0, s1, h0, h1, o, a, b, c, t0, t1
  <2>16. n1 = h1 + s1 BY <2>12, <2>13, <2>14, <2>15
  <2> QED BY <2>16 DEF n1, h1, s1
<1>9. TypeOK'
  <2>1. LeftInv' BY <1>1, <1>5 DEF TypeOK, LeftInv
  <2> QED BY <1>6, <1>7, <2>1, TypeOKNext
<1>10. OnePick'
  <2>1. ts # <<>> BY <1>2, MovedFirst
  <2>2. \A v \in Workers : phase[v] = "pick" <=> stacks[v] # <<>> BY DEF IInv, OnePick
  <2>3. \A v \in Workers : phase'[v] = "pick" <=> stacks'[v] # <<>>
    BY <1>5, <2>1, <2>2
  <2> QED BY <1>5, <2>3 DEF IInv, OnePick
<1>11. FramesInv'
  <2> SUFFICES ASSUME NEW v \in Workers, NEW j \in DOMAIN stacks'[v],
                      NEW k \in DOMAIN stacks'[v][j].frames
               PROVE  FrameInv(j, stacks'[v][j].frames[k])
    BY DEF FramesInv, FrameInv
  <2>1. CASE v # w BY <1>5, <2>1 DEF IInv, FramesInv
  <2>2. CASE v = w
    <3>1. j \in DOMAIN ts /\ stacks'[v][j].frames = ts[j].frames BY <1>5, <2>2
    <3>0. j \in DOMAIN ts /\ k \in DOMAIN ts[j].frames BY <3>1
    <3>2. \/ j \in DOMAIN stacks[w] /\ \E n \in DOMAIN stacks[w][j].frames :
               ts[j].frames[k] = stacks[w][j].frames[n]
          \/ j = i /\ \E n \in DOMAIN news : ts[j].frames[k] = news[n]
          \/ \E m \in DOMAIN tasks : \E n \in DOMAIN tasks[m].frames :
               ts[j].frames[k] = tasks[m].frames[n]
      <4>1. ComesFrom(stacks[w], i, news, items, tasks, j, ts[j])
        BY <1>2, <3>0, MovedElements
      <4> HIDE DEF ts
      <4> QED BY <3>0, <4>1 DEF ComesFrom
    <3>3. \A n \in DOMAIN news : FrameInv(i, news[n]) BY DEF Places
    <3>4. \A m \in DOMAIN tasks : \A n \in DOMAIN tasks[m].frames : FrameInv(j, tasks[m].frames[n])
      BY DEF Places, FrameInv
    <3>5. \A m \in DOMAIN stacks[w] : \A n \in DOMAIN stacks[w][m].frames :
            FrameInv(m, stacks[w][m].frames[n])
      BY DEF IInv, FramesInv
    <3> HIDE DEF ts
    <3> QED BY <3>1, <3>2, <3>3, <3>4, <3>5
  <2> QED BY <2>1, <2>2
<1>12. \A v \in Workers : LimitInv(v)' /\ FreshInv(v)'
  <2>0. ts[1].collision_limit = stacks[w][1].collision_limit /\ 1 \in DOMAIN ts
    BY <1>2, MovedFirst
  <2> SUFFICES ASSUME NEW v \in Workers PROVE LimitInv(v)' /\ FreshInv(v)'
    OBVIOUS
  <2>1. LimitInv(v) /\ FreshInv(v) BY DEF IInv
  <2>2. FreshInv(v)' BY <1>5, <2>1 DEF FreshInv, Fresh
  <2>3. CASE v # w
    BY <1>5, <2>1, <2>2, <2>3 DEF LimitInv
  <2>4. CASE v = w
    <3>1. /\ new_start[w] = Len(minibatch[w])
          /\ stacks[w][1].collision_limit <= collisions_left[w]
          /\ \A j \in DOMAIN stacks[w] : \A k \in DOMAIN stacks[w][j].receiver :
               stacks[w][j].receiver[k].maxvisit =>
                 stacks[w][j].receiver[k].multivisit = stacks[w][1].collision_limit
      BY <2>1, <2>4 DEF LimitInv
    <3>2. ASSUME NEW j \in DOMAIN ts, NEW k \in DOMAIN ts[j].receiver, ts[j].receiver[k].maxvisit
          PROVE  ts[j].receiver[k].multivisit = ts[1].collision_limit
      <4>1. \/ j \in DOMAIN stacks[w] /\ \E n \in DOMAIN stacks[w][j].receiver :
                 ts[j].receiver[k] = stacks[w][j].receiver[n]
            \/ \E n \in DOMAIN items : ts[j].receiver[k] = items[n]
            \/ \E m \in DOMAIN tasks : \E n \in DOMAIN tasks[m].receiver :
                 ts[j].receiver[k] = tasks[m].receiver[n]
        <5>1. ComesFrom(stacks[w], i, news, items, tasks, j, ts[j])
          BY <1>2, MovedElements
        <5> HIDE DEF ts
        <5> QED BY <5>1 DEF ComesFrom
      <4>2. \A n \in DOMAIN items :
              items[n].maxvisit => items[n].multivisit = stacks[w][1].collision_limit
        BY DEF Places
      <4>3. \A m \in DOMAIN tasks : tasks[m].receiver = <<>> BY DEF Places
      <4>4. DOMAIN <<>> = {} OBVIOUS
      <4> HIDE DEF ts
      <4> QED BY <2>0, <3>1, <3>2, <4>1, <4>2, <4>3, <4>4
    <3> HIDE DEF ts
    <3>3. LimitInv(w)' BY <1>5, <2>0, <3>1, <3>2 DEF LimitInv
    <3> QED BY <2>2, <2>4, <3>3
  <2> QED BY <2>3, <2>4
<1>13. ExtendedOnce'
  <2> SUFFICES ASSUME NEW x \in Nodes \ visited PROVE Extending(x)' <= 1
    BY <1>5 DEF ExtendedOnce
  <2> DEFINE W == TaskWeight(VisitWeight(x), NoWeight)
  <2>1. /\ Extending(x)' = Extending(x) - ExtendedBy(x, minibatch[w], stacks[w])
                                + ExtendedBy(x, minibatch'[w], stacks'[w])
        /\ Extending(x) \in Nat
    BY <1>1, <1>5, <1>6, ExtendedMoves, Zenon
  <2>2. /\ Total(ts, W) = Total(stacks[w], W) - NoWeight[f]
              + Total(news, NoWeight) + Total(items, VisitWeight(x)) + Total(tasks, W)
        /\ Total(stacks[w], W) \in Int /\ Total(items, VisitWeight(x)) \in Int
    BY <1>3, VisitWeightNat, NoWeightNat, NatWeighs, Zenon
  <2>3. NoWeight[f] = 0 BY <1>2 DEF NoWeight
  <2>4. ASSUME NEW fr \in Seq(Frames) PROVE Total(fr, NoWeight) = 0
    <3>1. /\ IsFiniteSet(DOMAIN fr)
          /\ Total(fr, NoWeight) = SumFunctionOnSet([k \in DOMAIN fr |-> NoWeight[fr[k]]], DOMAIN fr)
      BY NoWeightNat, NatWeighs, TotalIs
    <3>2. \A k \in DOMAIN fr : NoWeight[fr[k]] = 0 BY DEF NoWeight
    <3> QED BY <3>1, <3>2, SumZero
  <2>5. Total(tasks, W) = 0
    <3>1. Weighs(W, Tasks) BY TaskWeighs, VisitWeightNat, NoWeightNat, NatWeighs
    <3>2. ASSUME NEW j \in DOMAIN tasks PROVE W[tasks[j]] = 0
      <4>1. tasks[j] \in Tasks /\ tasks[j].receiver = <<>> BY <1>2 DEF Places
      <4>2. tasks[j].frames \in Seq(Frames) BY <4>1 DEF Tasks
      <4>3. Total(tasks[j].receiver, VisitWeight(x)) = 0 BY <4>1, TotalEmpty
      <4>4. Total(tasks[j].frames, NoWeight) = 0 BY <2>4, <4>2
      <4> QED BY <4>1, <4>3, <4>4 DEF TaskWeight
    <3> HIDE DEF W
    <3>3. /\ IsFiniteSet(DOMAIN tasks)
          /\ Total(tasks, W) = SumFunctionOnSet([k \in DOMAIN tasks |-> W[tasks[k]]], DOMAIN tasks)
      BY <1>2, <3>1, TotalIs
    <3> QED BY <3>2, <3>3, SumZero
  <2>6. Total(news, NoWeight) = 0 BY <1>2, <2>4
  <2>7. ExtendedBy(x, minibatch[w], stacks[w])
          = Total(minibatch[w], VisitWeight(x)) + Total(stacks[w], W)
    BY DEF ExtendedBy
  <2>8. ExtendedBy(x, minibatch'[w], stacks'[w])
          = Total(minibatch[w], VisitWeight(x)) + Total(ts, W)
    BY <1>5 DEF ExtendedBy
  <2>9. Total(minibatch[w], VisitWeight(x)) \in Int
    <3>1. minibatch[w] \in Seq(Items) BY <1>1 DEF Types
    <3> QED BY <3>1, VisitWeightNat, NatWeighs, TotalIs, Zenon
  <2> HIDE DEF W, ts, f
  <2>10. Extending(x)' = Extending(x) + Total(items, VisitWeight(x))
    BY <2>1, <2>2, <2>3, <2>5, <2>6, <2>7, <2>8, <2>9
  <2>11. Extending(x) <= 1 BY DEF IInv, ExtendedOnce
  <2>12. n_in_flight[x] = 0 => Extending(x) = 0
    <3>1. Extending(x) \in Nat /\ Extending(x) <= Held(x) BY <1>1, ExtendingAtMost
    <3>2. Held(x) \in Nat BY <1>1, HeldNat
    <3>3. n_in_flight[x] = Held(x) + stray[x] BY DEF IInv, VirtualLossAccounted
    <3>4. stray[x] \in Nat BY <1>1 DEF Types
    <3> QED BY <3>1, <3>2, <3>3, <3>4
  <2> QED BY <2>1, <2>10, <2>11, <2>12 DEF StartsOnce
<1>14. PickWithinLimit'
  <2> SUFFICES ASSUME NEW v \in Workers, phase'[v] = "pick"
               PROVE  Placed(v)' <= stacks'[v][1].collision_limit
    BY DEF PickWithinLimit
  <2>1. v = w BY <1>5 DEF IInv, OnePick
  <2> DEFINE W == TaskWeight(PlacedWeight, LeftWeight)
  <2>2. Placed(w) = Total(stacks[w], W) BY <1>1, PlacedIs DEF PlacedSums
  <2>3. Placed(w)' = Total(ts, W)
    <3>1. PlacedSums(w)' BY <1>6, PlacedIsNext DEF AllPlacedSums
    <3> QED BY <1>5, <3>1 DEF PlacedSums
  <2>4. /\ Total(ts, W) = Total(stacks[w], W) - LeftWeight[f]
              + Total(news, LeftWeight) + Total(items, PlacedWeight) + Total(tasks, W)
        /\ Total(stacks[w], W) \in Int
        /\ LeftWeight[f] \in Int /\ Total(news, LeftWeight) \in Int
        /\ Total(items, PlacedWeight) \in Int /\ Total(tasks, W) \in Int
    BY <1>3, PlacedWeightNat, LeftWeightNat, NatWeighs
  <2>5. Total(news, LeftWeight) + Total(items, PlacedWeight) + Total(tasks, W) <= LeftWeight[f]
    BY DEF Places
  <2> HIDE DEF W, f
  <2>6. Placed(w) <= stacks[w][1].collision_limit BY DEF IInv, PickWithinLimit
  <2>7. ts[1].collision_limit = stacks[w][1].collision_limit
        /\ stacks[w][1].collision_limit \in Int
    <3>1. i \in 1..Len(stacks[w]) BY <1>2
    <3>2. stacks[w][1] \in Tasks BY <1>2, <3>1
    <3>3. stacks[w][1].collision_limit \in Int BY <3>2 DEF Tasks
    <3>4. ts[1].collision_limit = stacks[w][1].collision_limit BY <1>2, MovedFirst
    <3> QED BY <3>3, <3>4
  <2> HIDE DEF ts
  <2>8. Total(ts, W) <= Total(stacks[w], W) BY <2>4, <2>5
  <2>9. stacks'[v][1].collision_limit = ts[1].collision_limit BY <1>5, <2>1
  <2>10. Placed(v)' = Placed(w)' BY <2>1
  <2> QED BY <2>2, <2>3, <2>4, <2>6, <2>7, <2>8, <2>9, <2>10
<1>15. SharedInv' BY <1>5 DEF IInv, SharedInv
<1> QED BY <1>7, <1>9, <1>10, <1>11, <1>12, <1>13, <1>14, <1>15 DEF IInv

-----------------------------------------------------------------------------
(* A step of a pick that hands nothing over. *)

\* Worker w picks, and its task i has a current frame.
PickAt(w, i) ==
  /\ phase[w] = "pick" /\ i \in DOMAIN stacks[w] /\ stacks[w][i].frames # <<>>

\* The types of the pieces that a step of a task works on.
LEMMA CurrentFrame ==
  ASSUME IInv, NEW w \in Workers, NEW i, PickAt(w, i), NEW f, f = Last(stacks[w][i].frames)
  PROVE  /\ f \in Frames /\ f.path \in Paths /\ f.path \in Seq(Nodes) /\ Last(f.path) \in Nodes
         /\ f.left \in Nat /\ f.visits_to_perform \in [Nodes -> Nat] /\ f.step \in Steps
         /\ FrameInv(i, f)
         /\ Pop(w, i) \in Seq(Frames) /\ stacks[w] \in Seq(Tasks)
         /\ stacks[w][i] \in Tasks
         /\ n_in_flight \in [Nodes -> Nat] /\ stray \in [Nodes -> Nat]
<1>1. stacks[w] \in Seq(Tasks) BY DEF IInv, TypeOK
<1>2. stacks[w][i] \in Tasks BY <1>1 DEF PickAt
<1> DEFINE fr == stacks[w][i].frames
<1>3. fr \in Seq(Frames) /\ fr # <<>> BY <1>2 DEF Tasks, PickAt
<1>4. \A k \in DOMAIN fr : FrameInv(i, fr[k]) BY DEF IInv, FramesInv, PickAt
<1>5. Pop(w, i) = Front(fr) BY DEF Pop
<1> HIDE DEF fr
<1>6. Last(fr) \in Frames /\ Front(fr) \in Seq(Frames) /\ Len(fr) \in DOMAIN fr /\ Last(fr) = fr[Len(fr)]
  BY <1>3 DEF Last, Front
<1>7. f = Last(fr) BY DEF fr
<1>8. f \in Frames /\ FrameInv(i, f) BY <1>4, <1>6, <1>7
<1>9. f.path \in Paths /\ f.left \in Nat /\ f.visits_to_perform \in [Nodes -> Nat] /\ f.step \in Steps
  BY <1>8 DEF Frames
<1>10. f.path \in Seq(Nodes) /\ Last(f.path) \in Nodes BY <1>9, OccurrencesAtEnd
<1>11. n_in_flight \in [Nodes -> Nat] /\ stray \in [Nodes -> Nat] BY DEF IInv, TypeOK
<1> QED BY <1>1, <1>2, <1>5, <1>6, <1>8, <1>9, <1>10, <1>11, Zenon

\* A task after Proceed, component by component.
LEMMA TaskChanges ==
  ASSUME NEW t \in Tasks, NEW a, NEW b
  PROVE  [[t EXCEPT !.frames = a] EXCEPT !.receiver = @ \o b]
           = [collision_limit |-> t.collision_limit, frames |-> a, receiver |-> t.receiver \o b]
<1>1. t = [collision_limit |-> t.collision_limit, frames |-> t.frames, receiver |-> t.receiver]
  BY DEF Tasks
<1>2. [t EXCEPT !.frames = a]
        = [collision_limit |-> t.collision_limit, frames |-> a, receiver |-> t.receiver]
  BY <1>1
<1> DEFINE r == [collision_limit |-> t.collision_limit, frames |-> a, receiver |-> t.receiver]
<1>3. r.receiver = t.receiver OBVIOUS
<1> DEFINE c == t.receiver \o b
<1>4. [r EXCEPT !.receiver = c]
        = [collision_limit |-> t.collision_limit, frames |-> a, receiver |-> c]
  <2> HIDE DEF c
  <2> QED OBVIOUS
<1>5. [r EXCEPT !.receiver = @ \o b] = [r EXCEPT !.receiver = c]
  <2>1. [r EXCEPT !.receiver = @ \o b] = [r EXCEPT !.receiver = r.receiver \o b] BY Zenon
  <2> HIDE DEF r
  <2>2. r.receiver \o b = c BY <1>3, Zenon
  <2> QED BY <2>2, Zenon
<1> QED BY <1>2, <1>4, <1>5, Zenon

\* Proceed moves the tasks as MovedTasks does.
LEMMA ProceedIs ==
  ASSUME IInv, NEW w \in Workers, NEW i, PickAt(w, i),
         NEW news \in Seq(Frames), NEW items \in Seq(Items),
         Proceed(w, i, Pop(w, i) \o news, items)
  PROVE  stacks' = [stacks EXCEPT ![w] = MovedTasks(stacks[w], i, news, items, <<>>)]
<1> DEFINE ts == stacks[w] r == [ts EXCEPT ![i] = Moved(ts[i], news, items)]
<1>1. stacks \in [Workers -> Seq(Tasks)] /\ ts \in Seq(Tasks) BY DEF IInv, TypeOK
<1>2. i \in DOMAIN ts /\ ts[i] \in Tasks BY <1>1 DEF PickAt
<1>3. Moved(ts[i], news, items) \in Tasks
  <2>1. ts[i].frames # <<>> BY DEF PickAt
  <2> QED BY <1>2, <2>1, MovedIs
<1>4. r \in Seq(Tasks) BY <1>1, <1>2, <1>3
<1>5. r \o <<>> = r BY <1>4
<1>6. Moved(ts[i], news, items)
        = [[ts[i] EXCEPT !.frames = Pop(w, i) \o news] EXCEPT !.receiver = @ \o items]
  BY <1>2, TaskChanges, Zenon DEF Moved, Pop
<1>7. stacks' = [stacks EXCEPT ![w] = [ts EXCEPT ![i] =
        [[ts[i] EXCEPT !.frames = Pop(w, i) \o news] EXCEPT !.receiver = @ \o items]]]
  <2> DEFINE a == Pop(w, i) \o news
             t1 == [ts[i] EXCEPT !.frames = a]
             s1 == [stacks EXCEPT ![w][i].frames = a]
  <2>1. s1 = [stacks EXCEPT ![w] = [ts EXCEPT ![i] = t1]] OBVIOUS
  <2>2. stacks' = [s1 EXCEPT ![w] = [s1[w] EXCEPT ![i] =
                     [s1[w][i] EXCEPT !.receiver = s1[w][i].receiver \o items]]]
    BY Zenon DEF Proceed
  <2> HIDE DEF s1, t1
  <2>3. s1[w] = [ts EXCEPT ![i] = t1] BY <1>1, <2>1
  <2>4. s1[w][i] = t1 BY <1>2, <2>3
  <2>5. stacks' = [s1 EXCEPT ![w] = [[ts EXCEPT ![i] = t1] EXCEPT ![i] =
                     [t1 EXCEPT !.receiver = @ \o items]]]
    BY <2>2, <2>3, <2>4, Zenon
  <2> DEFINE t2 == [t1 EXCEPT !.receiver = @ \o items]
  <2> HIDE DEF t2
  <2>6. [[ts EXCEPT ![i] = t1] EXCEPT ![i] = t2] = [ts EXCEPT ![i] = t2] BY <1>1, <1>2, Zenon
  <2>7. stacks' = [s1 EXCEPT ![w] = [ts EXCEPT ![i] = t2]] BY <2>5, <2>6, Zenon DEF t2
  <2> DEFINE u1 == [ts EXCEPT ![i] = t1] u2 == [ts EXCEPT ![i] = t2]
  <2>8. s1 = [stacks EXCEPT ![w] = u1] BY <2>1, Zenon
  <2>9. stacks' = [s1 EXCEPT ![w] = u2] BY <2>7, Zenon
  <2> HIDE DEF u1, u2
  <2>10. stacks' = [stacks EXCEPT ![w] = u2] BY <1>1, <2>8, <2>9, Zenon
  <2> QED BY <2>10, Zenon DEF u2, t2, t1
<1> QED BY <1>5, <1>6, <1>7, Zenon DEF MovedTasks

\* What a step without new tasks has to show.
PlacesHere(w, i, f, news, items) ==
  /\ news \in Seq(Frames) /\ items \in Seq(Items)
  /\ \A k \in DOMAIN news : FrameInv(i, news[k])
  /\ \A k \in DOMAIN items :
       items[k].maxvisit => items[k].multivisit = stacks[w][1].collision_limit
  /\ Total(news, LeftWeight) + Total(items, PlacedWeight) <= LeftWeight[f]
BalancedHere(f, news, items) ==
  \A x \in Nodes :
    n_in_flight'[x] - stray'[x] = n_in_flight[x] - stray[x] - FrameWeight(x)[f]
      + Total(news, FrameWeight(x)) + Total(items, ItemWeight(x))

\* Such a step keeps the invariant.
LEMMA ProceedInv ==
  ASSUME IInv, NEW w \in Workers, NEW i, PickAt(w, i),
         NEW f, f = Last(stacks[w][i].frames), NEW news, NEW items,
         PlacesHere(w, i, f, news, items), BalancedHere(f, news, items), StartsOnce(items),
         PickUnchanged, n_in_flight' \in [Nodes -> Int], stray' \in [Nodes -> Nat],
         Proceed(w, i, Pop(w, i) \o news, items)
  PROVE  IInv'
<1>0. news \in Seq(Frames) /\ items \in Seq(Items) BY DEF PlacesHere
<1>1. stacks' = [stacks EXCEPT ![w] = MovedTasks(stacks[w], i, news, items, <<>>)]
  BY <1>0, ProceedIs
<1>2. \A h : Total(<<>>, h) = 0 BY TotalEmpty
<1>3. <<>> \in Seq(Tasks) /\ DOMAIN <<>> = {} OBVIOUS
<1>4. Weighs(LeftWeight, Frames) /\ Weighs(PlacedWeight, Items)
  BY LeftWeightNat, PlacedWeightNat, NatWeighs
<1>5. Total(news, LeftWeight) \in Int /\ Total(items, PlacedWeight) \in Int
  <2>1. Total(news, LeftWeight) \in Int BY <1>0, <1>4, TotalIs, Zenon
  <2>2. Total(items, PlacedWeight) \in Int BY <1>0, <1>4, TotalIs, Zenon
  <2> QED BY <2>1, <2>2
<1>6. Places(w, i, f, news, items, <<>>)
  <2>1. Total(news, LeftWeight) + Total(items, PlacedWeight)
          + Total(<<>>, TaskWeight(PlacedWeight, LeftWeight)) <= LeftWeight[f]
    BY <1>2, <1>5 DEF PlacesHere
  <2> QED BY <1>3, <2>1 DEF Places, PlacesHere
<1>7. Balanced(f, news, items, <<>>)
  <2> SUFFICES ASSUME NEW x \in Nodes
               PROVE  n_in_flight'[x] - stray'[x] = n_in_flight[x] - stray[x] - FrameWeight(x)[f]
                        + Total(news, FrameWeight(x)) + Total(items, ItemWeight(x))
                        + Total(<<>>, TaskWeight(ItemWeight(x), FrameWeight(x)))
    BY DEF Balanced
  <2>1. n_in_flight'[x] - stray'[x] = n_in_flight[x] - stray[x] - FrameWeight(x)[f]
                        + Total(news, FrameWeight(x)) + Total(items, ItemWeight(x))
    BY DEF BalancedHere
  <2>2. Total(<<>>, TaskWeight(ItemWeight(x), FrameWeight(x))) = 0 BY <1>2
  <2>3. n_in_flight'[x] \in Int /\ stray'[x] \in Int OBVIOUS
  <2> DEFINE a == n_in_flight'[x] - stray'[x]
             b == n_in_flight[x] - stray[x] - FrameWeight(x)[f]
                        + Total(news, FrameWeight(x)) + Total(items, ItemWeight(x))
             c == Total(<<>>, TaskWeight(ItemWeight(x), FrameWeight(x)))
  <2>4. a \in Int /\ a = b /\ c = 0 BY <2>1, <2>2, <2>3
  <2> HIDE DEF a, b, c
  <2>5. a = b + c BY <2>4
  <2> QED BY <2>5 DEF a, b, c
<1> QED BY <1>1, <1>6, <1>7, PickStepInv, Zenon DEF PickAt

-----------------------------------------------------------------------------
(* What the pieces weigh *)

\* What a visit weighs.
LEMMA VisitIs ==
  ASSUME NEW path \in Paths
  PROVE  /\ Visit(path) \in Items /\ ~Visit(path).maxvisit
         /\ PlacedWeight[Visit(path)] = 1
         /\ \A x : /\ ItemWeight(x)[Visit(path)] = Occurrences(x, path)
                   /\ VisitWeight(x)[Visit(path)] = IF Last(path) = x THEN 1 ELSE 0
<1> DEFINE v == Visit(path)
<1>1. v \in Items BY DEF Visit, Items
<1>2. v.path = path /\ v.multivisit = 1 /\ v.is_collision = FALSE /\ v.maxvisit = FALSE
  BY DEF Visit
<1>3. path \in Seq(Nodes) BY OccurrencesAtEnd
<1> HIDE DEF v
<1>4. \A x : Occurrences(x, path) \in Nat BY <1>3, OccurrencesNat
<1>5. \A x : Holds(x, v) = Occurrences(x, path) BY <1>2, <1>4 DEF Holds, IsVisit
<1>6. \A x : Extends(x, v) = IF Last(path) = x THEN 1 ELSE 0 BY <1>2 DEF Extends, IsVisit, Leaf
<1>7. PlacedWeight[v] = 1 BY <1>1, <1>2 DEF PlacedWeight
<1>8. \A x : ItemWeight(x)[v] = Holds(x, v) /\ VisitWeight(x)[v] = Extends(x, v)
  BY <1>1 DEF ItemWeight, VisitWeight
<1>9. \A x : ItemWeight(x)[v] = Occurrences(x, path)
             /\ VisitWeight(x)[v] = IF Last(path) = x THEN 1 ELSE 0
  BY <1>5, <1>6, <1>8
<1> QED BY <1>1, <1>2, <1>7, <1>9 DEF v

\* What a collision weighs: nothing at its end.
LEMMA CollisionIs ==
  ASSUME NEW path \in Paths, NEW count \in Nat \ {0}, NEW grows \in BOOLEAN,
         NEW item, item = Collision(path, count, grows)
  PROVE  /\ item \in Items /\ (item.maxvisit => grows) /\ item.multivisit = count
         /\ PlacedWeight[item] = count
         /\ \A x : /\ ItemWeight(x)[item] = count * Occurrences(x, Front(path))
                   /\ VisitWeight(x)[item] = 0
<1> DEFINE v == Collision(path, count, grows)
<1>1. v \in Items BY DEF Collision, Items
<1>2. v.path = path /\ v.multivisit = count /\ v.is_collision = TRUE /\ v.maxvisit = grows
  BY DEF Collision
<1> HIDE DEF v
<1>3. \A x : Holds(x, v) = count * Occurrences(x, Front(path)) BY <1>2 DEF Holds, IsVisit
<1>4. \A x : Extends(x, v) = 0 BY <1>2 DEF Extends, IsVisit
<1>5. PlacedWeight[v] = count BY <1>1, <1>2 DEF PlacedWeight
<1>6. \A x : ItemWeight(x)[v] = Holds(x, v) /\ VisitWeight(x)[v] = Extends(x, v)
  BY <1>1 DEF ItemWeight, VisitWeight
<1>7. \A x : ItemWeight(x)[v] = count * Occurrences(x, Front(path)) /\ VisitWeight(x)[v] = 0
  BY <1>3, <1>4, <1>6
<1> QED BY <1>1, <1>2, <1>5, <1>7 DEF v

\* Frame g has other visits left than f, and for child c.
ChangedFor(f, g, c) ==
  /\ g.path = f.path /\ f.step # "arrive" /\ g.step # "arrive"
  /\ \A d \in Nodes : d # c => g.visits_to_perform[d] = f.visits_to_perform[d]

\* What such a frame weighs.
LEMMA FrameChanges ==
  ASSUME NEW f \in Frames, NEW g \in Frames, NEW c \in Nodes, ChangedFor(f, g, c)
  PROVE  /\ LeftWeight[g] = LeftWeight[f] - f.left + g.left
                              - f.visits_to_perform[c] + g.visits_to_perform[c]
         /\ LeftWeight[f] \in Nat
         /\ \A x : /\ FrameWeight(x)[g] = FrameWeight(x)[f]
                        - f.left * Occurrences(x, f.path) + g.left * Occurrences(x, f.path)
                        - HeldOnTheWay(x, Append(f.path, c), f.visits_to_perform[c])
                        + HeldOnTheWay(x, Append(f.path, c), g.visits_to_perform[c])
                   /\ FrameWeight(x)[f] \in Nat
<1> DEFINE v == f.visits_to_perform u == g.visits_to_perform e == u[c] l == g.left
<1>0. g.path = f.path /\ f.step # "arrive" /\ g.step # "arrive" BY DEF ChangedFor
<1>1. v \in [Nodes -> Nat] /\ u \in [Nodes -> Nat] /\ f.left \in Nat /\ l \in Nat /\ f.path \in Paths
      /\ u[c] = e /\ e \in Nat /\ \A d \in Nodes : d # c => u[d] = v[d]
  BY DEF Frames, ChangedFor
<1>2. IsFiniteSet(Nodes) BY GraphAssumption
<1>3. LeftWeight[g] = LeftWeight[f] - f.left + l - v[c] + e /\ LeftWeight[f] \in Nat
  <2>1. LeftWeight[g] = l + SumFunctionOnSet(u, Nodes) /\ LeftWeight[f] = f.left + SumFunctionOnSet(v, Nodes)
    BY <1>1, NodesSum DEF LeftWeight
  <2> HIDE DEF u, v, l, e
  <2>2. SumFunctionOnSet(u, Nodes) = SumFunctionOnSet(v, Nodes) - v[c] + u[c]
    BY <1>1, <1>2, SumChange
  <2>3. SumFunctionOnSet(u, Nodes) \in Nat /\ SumFunctionOnSet(v, Nodes) \in Nat
    BY <1>1, <1>2, SumNat
  <2> QED BY <1>1, <2>1, <2>2, <2>3
<1>4. ASSUME NEW x
      PROVE  /\ FrameWeight(x)[g] = FrameWeight(x)[f]
                    - f.left * Occurrences(x, f.path) + l * Occurrences(x, f.path)
                    - HeldOnTheWay(x, Append(f.path, c), v[c])
                    + HeldOnTheWay(x, Append(f.path, c), e)
             /\ FrameWeight(x)[f] \in Nat
  <2> DEFINE G == OnTheWay(x, f.path, v) H == OnTheWay(x, f.path, u)
             a == f.left * Occurrences(x, f.path) b == l * Occurrences(x, f.path)
             j == HeldOnTheWay(x, Append(f.path, c), v[c])
             k == HeldOnTheWay(x, Append(f.path, c), e)
  <2>1. FrameWeight(x)[f] = a + SumFunctionOnSet(G, Nodes) /\ FrameWeight(x)[f] \in Nat
    BY <1>0, FrameWeightIs
  <2>2. FrameWeight(x)[g] = b + SumFunctionOnSet(H, Nodes)
    BY <1>0, FrameWeightIs
  <2>3. \A d \in Nodes : G[d] \in Nat /\ H[d] \in Nat BY <1>1, OnTheWayNat
  <2>4. G[c] = j /\ H[c] = k /\ \A d \in Nodes : d # c => H[d] = G[d]
    <3> HIDE DEF u, v
    <3> QED BY <1>1 DEF OnTheWay
  <2>5. Occurrences(x, f.path) \in Nat BY <1>1, OccurrencesAtEnd, OccurrencesNat, Zenon
  <2>6. a \in Int /\ b \in Int BY <1>1, <2>5, TimesNat
  <2> HIDE DEF G, H, a, b, j, k
  <2>7. SumFunctionOnSet(H, Nodes) = SumFunctionOnSet(G, Nodes) - G[c] + H[c]
    BY <1>2, <2>3, <2>4, SumChange
  <2>8. SumFunctionOnSet(G, Nodes) \in Nat /\ SumFunctionOnSet(H, Nodes) \in Nat
    BY <1>2, <2>3, SumNat
  <2>9. G[c] \in Nat /\ H[c] \in Nat BY <2>3
  <2>10. FrameWeight(x)[g] = FrameWeight(x)[f] - a + b - j + k
    BY <2>1, <2>2, <2>4, <2>6, <2>7, <2>8, <2>9
  <2> QED BY <2>1, <2>10 DEF a, b, j, k
<1> QED BY <1>3, <1>4

-----------------------------------------------------------------------------
(* The steps of PickNodesToExtendTask. *)

\* Append is a concatenation.
LEMMA AppendIs == ASSUME NEW T, NEW s \in Seq(T), NEW g \in T PROVE Append(s, g) = s \o <<g>>
<1>1. <<g>> \in Seq(T) OBVIOUS
<1> QED BY <1>1

\* So are two.
LEMMA AppendTwo ==
  ASSUME NEW T, NEW s \in Seq(T), NEW g \in T, NEW a \in T
  PROVE  Append(Append(s, g), a) = s \o Append(<<g>>, a)
<1> DEFINE b == <<g>>
<1>1. b \in Seq(T) /\ Len(b) = 1 /\ b[1] = g OBVIOUS
<1> HIDE DEF b
<1>2. Append(Append(s, g), a) = s \o Append(b, a) BY <1>1 DEF b
<1> QED BY <1>2 DEF b

\* Products of integers distribute over sums and differences.
LEMMA Distributes ==
  \A a, b, o \in Int : (a - b) * o = a * o - b * o /\ (a + b) * o = a * o + b * o
                       /\ a * o \in Int
OBVIOUS

\* A frame, component by component.
LEMMA FrameRecord ==
  ASSUME NEW f \in Frames
  PROVE  f = [path |-> f.path, step |-> f.step, left |-> f.left,
              visits_to_perform |-> f.visits_to_perform]
BY DEF Frames

\* A frame with two components replaced.
LEMMA FrameExcept ==
  ASSUME NEW f \in Frames, NEW l, NEW u
  PROVE  [[f EXCEPT !.left = l] EXCEPT !.visits_to_perform = u]
           = [path |-> f.path, step |-> f.step, left |-> l, visits_to_perform |-> u]
<1> DEFINE p == f.path s == f.step m == f.left v == f.visits_to_perform
<1>1. f = [path |-> p, step |-> s, left |-> m, visits_to_perform |-> v] BY FrameRecord
<1> HIDE DEF p, s, m, v
<1>2. [f EXCEPT !.left = l] = [path |-> p, step |-> s, left |-> l, visits_to_perform |-> v]
  BY <1>1
<1> DEFINE r == [path |-> p, step |-> s, left |-> l, visits_to_perform |-> v]
<1>3. [r EXCEPT !.visits_to_perform = u] = [path |-> p, step |-> s, left |-> l, visits_to_perform |-> u]
  OBVIOUS
<1> QED BY <1>2, <1>3, Zenon DEF p, s

\* Nothing is added.
LEMMA ConcatEmpty == ASSUME NEW T, NEW s \in Seq(T) PROVE s \o <<>> = s
OBVIOUS

\* What two elements weigh.
LEMMA TotalOfTwo ==
  ASSUME NEW T, NEW g \in T, NEW a \in T, NEW h, Weighs(h, T)
  PROVE  Append(<<g>>, a) \in Seq(T) /\ Total(Append(<<g>>, a), h) = h[g] + h[a]
<1> DEFINE s == <<g>>
<1>1. s \in Seq(T) /\ Total(s, h) = h[g] BY TotalOfOne
<1> HIDE DEF s
<1>2. Append(s, a) \in Seq(T) /\ Total(Append(s, a), h) = Total(s, h) + h[a]
  BY <1>1, TotalAppend
<1> QED BY <1>1, <1>2 DEF s

\* The root alone is a path.
LEMMA RootPath == <<Root>> \in Paths
<1>1. Root \in Nodes BY GraphAssumption
<1>2. <<Root>> \in Seq(Nodes) /\ <<Root>> # <<>> /\ <<Root>>[1] = Root BY <1>1
<1> QED BY <1>2, Zenon DEF Paths

\* StopAtRoot: one visit at most is started, and the others collide.
LEMMA StopAtRootInv ==
  ASSUME IInv, NEW w \in Workers, NEW i, PickAt(w, i), NEW f, f = Last(stacks[w][i].frames),
         StopAtRoot(w, i, f)
  PROVE  IInv'
<1> DEFINE started == CanStartScoreUpdate(Root)
           count == IF started THEN f.left - 1 ELSE f.left
           grows == count = stacks[w][i].collision_limit
           visit == IF started THEN <<Visit(f.path)>> ELSE <<>>
           rest == IF count > 0 THEN <<Collision(f.path, count, grows)>> ELSE <<>>
           items == visit \o rest
           path == <<Root>>
<1>1. /\ f \in Frames /\ f.left \in Nat /\ f.visits_to_perform \in [Nodes -> Nat] /\ FrameInv(i, f)
      /\ Pop(w, i) \in Seq(Frames) /\ n_in_flight \in [Nodes -> Nat] /\ stray \in [Nodes -> Nat]
  BY CurrentFrame, Zenon
<1>2. f.path = path /\ f.step = "arrive" /\ path \in Paths BY RootPath DEF StopAtRoot
<1>3. i = 1 /\ f.left > 0 BY <1>1, <1>2 DEF FrameInv
<1>4. Proceed(w, i, Pop(w, i) \o <<>>, items)
  <2>1. Pop(w, i) \o <<>> = Pop(w, i) BY <1>1, ConcatEmpty
  <2> QED BY <2>1, Zenon DEF StopAtRoot
<1>5. count \in Nat /\ (started => count = f.left - 1) /\ (~started => count = f.left)
      /\ grows \in BOOLEAN /\ started \in BOOLEAN
  BY <1>1, <1>3 DEF CanStartScoreUpdate
<1>6. /\ \A x \in Nodes : n_in_flight'[x] = n_in_flight[x] + IF started /\ x = Root THEN 1 ELSE 0
      /\ n_in_flight' \in [Nodes -> Int] /\ stray' = stray
  <2>1. n_in_flight' = [n_in_flight EXCEPT ![Root] = IF started THEN @ + 1 ELSE @] /\ stray' = stray
    BY DEF StopAtRoot
  <2>2. Root \in Nodes BY GraphAssumption
  <2> HIDE DEF started
  <2> QED BY <1>1, <2>1, <2>2
<1>7. /\ Visit(path) \in Items /\ ~Visit(path).maxvisit /\ PlacedWeight[Visit(path)] = 1
      /\ \A x : ItemWeight(x)[Visit(path)] = Occurrences(x, path)
                /\ VisitWeight(x)[Visit(path)] = IF Last(path) = x THEN 1 ELSE 0
  BY <1>2, VisitIs
<1> DEFINE item == Collision(path, count, grows)
<1>8. count > 0 =>
        /\ item \in Items /\ (item.maxvisit => grows) /\ item.multivisit = count
        /\ PlacedWeight[item] = count
        /\ \A x : ItemWeight(x)[item] = count * Occurrences(x, Front(path)) /\ VisitWeight(x)[item] = 0
  <2> SUFFICES ASSUME count > 0
               PROVE /\ item \in Items /\ (item.maxvisit => grows) /\ item.multivisit = count
                     /\ PlacedWeight[item] = count
                     /\ \A x : ItemWeight(x)[item] = count * Occurrences(x, Front(path))
                               /\ VisitWeight(x)[item] = 0
    OBVIOUS
  <2>1. count \in Nat \ {0} BY <1>5
  <2>2. path \in Paths /\ grows \in BOOLEAN BY <1>2, <1>5
  <2> HIDE DEF count, grows, path
  <2> QED BY <2>1, <2>2, CollisionIs
<1>9. visit = (IF started THEN <<Visit(path)>> ELSE <<>>) /\ rest = (IF count > 0 THEN <<item>> ELSE <<>>)
  BY <1>2, Zenon
<1>11. grows => count = stacks[w][1].collision_limit BY <1>3
<1> HIDE DEF started, count, grows, item, visit, rest, path
<1>12. ASSUME NEW h, Weighs(h, Items)
       PROVE  /\ items \in Seq(Items)
              /\ Total(items, h) = (IF started THEN h[Visit(path)] ELSE 0)
                                     + (IF count > 0 THEN h[item] ELSE 0)
  <2>1. visit \in Seq(Items) /\ Total(visit, h) = IF started THEN h[Visit(path)] ELSE 0
    <3>1. CASE started
      <4>1. visit = <<Visit(path)>> BY <1>9, <3>1
      <4>2. <<Visit(path)>> \in Seq(Items) /\ Total(<<Visit(path)>>, h) = h[Visit(path)]
        BY <1>7, <1>12, TotalOfOne
      <4> QED BY <3>1, <4>1, <4>2, Zenon
    <3>2. CASE ~started
      <4>1. visit = <<>> BY <1>9, <3>2
      <4>2. <<>> \in Seq(Items) /\ Total(<<>>, h) = 0 BY TotalEmpty
      <4> QED BY <3>2, <4>1, <4>2, Zenon
    <3> QED BY <3>1, <3>2
  <2>2. rest \in Seq(Items) /\ Total(rest, h) = IF count > 0 THEN h[item] ELSE 0
    <3>1. CASE count > 0
      <4>1. rest = <<item>> BY <1>9, <3>1
      <4>2. <<item>> \in Seq(Items) /\ Total(<<item>>, h) = h[item]
        BY <1>8, <1>12, <3>1, TotalOfOne
      <4> QED BY <3>1, <4>1, <4>2, Zenon
    <3>2. CASE ~(count > 0)
      <4>1. rest = <<>> BY <1>9, <3>2
      <4>2. <<>> \in Seq(Items) /\ Total(<<>>, h) = 0 BY TotalEmpty
      <4> QED BY <3>2, <4>1, <4>2, Zenon
    <3> QED BY <3>1, <3>2
  <2>3. items \in Seq(Items) /\ Total(items, h) = Total(visit, h) + Total(rest, h)
    BY <1>12, <2>1, <2>2, TotalConcat
  <2> HIDE DEF items
  <2> QED BY <2>1, <2>2, <2>3
<1>13. visit \in Seq(Items) /\ (\A k \in DOMAIN visit : visit[k] = Visit(path))
       /\ rest \in Seq(Items) /\ (\A k \in DOMAIN rest : count > 0 /\ rest[k] = item)
  BY <1>7, <1>8, <1>9
<1>14. \A k \in DOMAIN items : items[k] = Visit(path) \/ (count > 0 /\ items[k] = item)
  BY <1>13
<1>15. Total(items, PlacedWeight) = f.left
  <2>1. Total(items, PlacedWeight) = (IF started THEN 1 ELSE 0) + (IF count > 0 THEN count ELSE 0)
    BY <1>7, <1>8, <1>12, PlacedWeightNat, NatWeighs
  <2> QED BY <1>1, <1>5, <2>1
<1>16. \A x : /\ Total(items, ItemWeight(x)) = IF started /\ x = Root THEN 1 ELSE 0
              /\ Total(items, VisitWeight(x)) = IF started /\ x = Root THEN 1 ELSE 0
  <2> SUFFICES ASSUME NEW x
               PROVE  /\ Total(items, ItemWeight(x)) = IF started /\ x = Root THEN 1 ELSE 0
                      /\ Total(items, VisitWeight(x)) = IF started /\ x = Root THEN 1 ELSE 0
    OBVIOUS
  <2>1. Occurrences(x, path) = (IF Root = x THEN 1 ELSE 0) /\ Occurrences(x, Front(path)) = 0
        /\ Last(path) = Root
    BY OccurrencesOnRoot DEF path
  <2>2. ItemWeight(x)[Visit(path)] = (IF Root = x THEN 1 ELSE 0)
        /\ VisitWeight(x)[Visit(path)] = (IF Root = x THEN 1 ELSE 0)
    BY <1>7, <2>1
  <2>3. count > 0 => ItemWeight(x)[item] = 0 /\ VisitWeight(x)[item] = 0
    BY <1>5, <1>8, <2>1
  <2>4. Total(items, ItemWeight(x)) = (IF started THEN ItemWeight(x)[Visit(path)] ELSE 0)
                                     + (IF count > 0 THEN ItemWeight(x)[item] ELSE 0)
    BY <1>12, ItemWeightNat, NatWeighs
  <2>5. Total(items, VisitWeight(x)) = (IF started THEN VisitWeight(x)[Visit(path)] ELSE 0)
                                     + (IF count > 0 THEN VisitWeight(x)[item] ELSE 0)
    BY <1>12, VisitWeightNat, NatWeighs
  <2> QED BY <2>2, <2>3, <2>4, <2>5
<1>17. items \in Seq(Items) BY <1>12, PlacedWeightNat, NatWeighs
<1> HIDE DEF items
<1>18. \A h : Total(<<>>, h) = 0 BY TotalEmpty
<1>19. PlacesHere(w, i, f, <<>>, items)
  <2>1. LeftWeight[f] = f.left + SumFunction(f.visits_to_perform) /\ SumFunction(f.visits_to_perform) \in Nat
    BY <1>1, NodesSum DEF LeftWeight
  <2>2. Total(<<>>, LeftWeight) + Total(items, PlacedWeight) <= LeftWeight[f]
    BY <1>1, <1>15, <1>18, <2>1
  <2>3. \A k \in DOMAIN items : items[k].maxvisit => items[k].multivisit = stacks[w][1].collision_limit
    BY <1>7, <1>8, <1>11, <1>14
  <2>4. <<>> \in Seq(Frames) /\ DOMAIN <<>> = {} OBVIOUS
  <2> QED BY <1>17, <2>2, <2>3, <2>4 DEF PlacesHere
<1>20. BalancedHere(f, <<>>, items)
  <2> SUFFICES ASSUME NEW x \in Nodes
               PROVE  n_in_flight'[x] - stray'[x] = n_in_flight[x] - stray[x] - FrameWeight(x)[f]
                        + Total(<<>>, FrameWeight(x)) + Total(items, ItemWeight(x))
    BY DEF BalancedHere
  <2>1. FrameWeight(x)[f] = 0 BY <1>1, <1>2, FrameWeightIs, Zenon DEF path
  <2>2. Total(<<>>, FrameWeight(x)) = 0 BY <1>18
  <2>3. n_in_flight[x] \in Int /\ stray[x] \in Int BY <1>1
  <2>4. Total(items, ItemWeight(x)) = n_in_flight'[x] - n_in_flight[x] BY <1>6, <1>16, <2>3
  <2> QED BY <1>6, <2>1, <2>2, <2>3, <2>4
<1>21. StartsOnce(items)
  BY <1>1, <1>16 DEF StartsOnce, CanStartScoreUpdate, started
<1>22. PickUnchanged BY DEF StopAtRoot
<1>23. stray' \in [Nodes -> Nat] BY <1>1, <1>6
<1> QED BY <1>4, <1>6, <1>19, <1>20, <1>21, <1>22, <1>23, ProceedInv, Zenon

\* StopBelowRoot: what was in flight on the way is held by the collision.
LEMMA StopBelowRootInv ==
  ASSUME IInv, NEW w \in Workers, NEW i, PickAt(w, i), NEW f, f = Last(stacks[w][i].frames),
         StopBelowRoot(w, i, f)
  PROVE  IInv'
<1> DEFINE grows == i = 1 /\ f.left = stacks[w][i].collision_limit
           item == Collision(f.path, f.left, grows)
           items == <<item>>
<1>1. /\ f \in Frames /\ f.left \in Nat /\ f.visits_to_perform \in [Nodes -> Nat] /\ FrameInv(i, f)
      /\ Pop(w, i) \in Seq(Frames) /\ n_in_flight \in [Nodes -> Nat] /\ stray \in [Nodes -> Nat]
      /\ f.path \in Paths
  BY CurrentFrame, Zenon
<1>2. /\ f.step = "arrive" /\ f.path # <<Root>> /\ ShouldStopPickingHere(Last(f.path))
      /\ Proceed(w, i, Pop(w, i), items) /\ n_in_flight' = n_in_flight /\ stray' = stray
      /\ PickUnchanged
  BY DEF StopBelowRoot
<1>3. f.left \in Nat \ {0} BY <1>1, <1>2 DEF FrameInv
<1>4. /\ item \in Items /\ (item.maxvisit => grows) /\ item.multivisit = f.left
      /\ PlacedWeight[item] = f.left
      /\ \A x : ItemWeight(x)[item] = f.left * Occurrences(x, Front(f.path))
                /\ VisitWeight(x)[item] = 0
  <2>1. grows \in BOOLEAN OBVIOUS
  <2> HIDE DEF grows
  <2> QED BY <1>1, <1>3, <2>1, CollisionIs
<1>5. grows => f.left = stacks[w][1].collision_limit OBVIOUS
<1> HIDE DEF grows, item
<1>6. \A h : Weighs(h, Items) => items \in Seq(Items) /\ Total(items, h) = h[item]
  BY <1>4, TotalOfOne
<1>7. \A k \in DOMAIN items : items[k] = item OBVIOUS
<1>8. \A h : Total(<<>>, h) = 0 BY TotalEmpty
<1>9. items \in Seq(Items) /\ Total(items, PlacedWeight) = f.left
  BY <1>4, <1>6, PlacedWeightNat, NatWeighs
<1>10. \A x : /\ Total(items, ItemWeight(x)) = f.left * Occurrences(x, Front(f.path))
              /\ Total(items, VisitWeight(x)) = 0
  <2> SUFFICES ASSUME NEW x
               PROVE  /\ Total(items, ItemWeight(x)) = f.left * Occurrences(x, Front(f.path))
                      /\ Total(items, VisitWeight(x)) = 0
    OBVIOUS
  <2>1. Total(items, ItemWeight(x)) = ItemWeight(x)[item] BY <1>6, ItemWeightNat, NatWeighs
  <2>2. Total(items, VisitWeight(x)) = VisitWeight(x)[item] BY <1>6, VisitWeightNat, NatWeighs
  <2> QED BY <1>4, <2>1, <2>2
<1> HIDE DEF items
<1>11. PlacesHere(w, i, f, <<>>, items)
  <2>1. LeftWeight[f] = f.left + SumFunction(f.visits_to_perform) /\ SumFunction(f.visits_to_perform) \in Nat
    BY <1>1, NodesSum DEF LeftWeight
  <2>2. Total(<<>>, LeftWeight) + Total(items, PlacedWeight) <= LeftWeight[f]
    BY <1>1, <1>8, <1>9, <2>1
  <2>3. \A k \in DOMAIN items : items[k].maxvisit => items[k].multivisit = stacks[w][1].collision_limit
    BY <1>4, <1>5, <1>7
  <2>4. <<>> \in Seq(Frames) /\ DOMAIN <<>> = {} OBVIOUS
  <2> QED BY <1>9, <2>2, <2>3, <2>4 DEF PlacesHere
<1>12. BalancedHere(f, <<>>, items)
  <2> SUFFICES ASSUME NEW x \in Nodes
               PROVE  n_in_flight'[x] - stray'[x] = n_in_flight[x] - stray[x] - FrameWeight(x)[f]
                        + Total(<<>>, FrameWeight(x)) + Total(items, ItemWeight(x))
    BY DEF BalancedHere
  <2>1. FrameWeight(x)[f] = f.left * Occurrences(x, Front(f.path)) /\ FrameWeight(x)[f] \in Nat
    BY <1>1, <1>2, FrameWeightIs
  <2>2. Total(<<>>, FrameWeight(x)) = 0 BY <1>8
  <2>3. n_in_flight[x] \in Int /\ stray[x] \in Int BY <1>1
  <2>4. Total(items, ItemWeight(x)) = FrameWeight(x)[f] BY <1>10, <2>1
  <2> QED BY <1>2, <2>1, <2>2, <2>3, <2>4
<1>13. StartsOnce(items) BY <1>10 DEF StartsOnce
<1>14. Proceed(w, i, Pop(w, i) \o <<>>, items)
  <2>1. Pop(w, i) \o <<>> = Pop(w, i) BY <1>1, ConcatEmpty
  <2> QED BY <1>2, <2>1, Zenon
<1>15. n_in_flight' \in [Nodes -> Int] /\ stray' \in [Nodes -> Nat] BY <1>1, <1>2
<1> QED BY <1>2, <1>11, <1>12, <1>13, <1>14, <1>15, ProceedInv, Zenon

\* A frame f is replaced by g alone, no item is added.
LEMMA ReplaceInv ==
  ASSUME IInv, NEW w \in Workers, NEW i, PickAt(w, i), NEW f, f = Last(stacks[w][i].frames),
         NEW g \in Frames, FrameInv(i, g), LeftWeight[g] <= LeftWeight[f],
         Proceed(w, i, Replace(w, i, g), <<>>), PickUnchanged,
         n_in_flight' \in [Nodes -> Int], stray' \in [Nodes -> Nat],
         \A x \in Nodes : n_in_flight'[x] - stray'[x]
           = n_in_flight[x] - stray[x] - FrameWeight(x)[f] + FrameWeight(x)[g]
  PROVE  IInv'
<1>1. Pop(w, i) \in Seq(Frames) /\ n_in_flight \in [Nodes -> Nat] /\ stray \in [Nodes -> Nat]
      /\ f \in Frames
  BY CurrentFrame
<1>2. Replace(w, i, g) = Pop(w, i) \o <<g>> BY <1>1, AppendIs DEF Replace
<1>3. \A h : Weighs(h, Frames) => <<g>> \in Seq(Frames) /\ Total(<<g>>, h) = h[g]
  BY TotalOfOne
<1>4. \A h : Total(<<>>, h) = 0 BY TotalEmpty
<1>5. <<>> \in Seq(Items) /\ DOMAIN <<>> = {} OBVIOUS
<1>6. \A k \in DOMAIN <<g>> : <<g>>[k] = g OBVIOUS
<1> DEFINE news == <<g>> items == <<>>
<1>7. news \in Seq(Frames) /\ Total(news, LeftWeight) = LeftWeight[g] /\ LeftWeight[g] \in Nat
  BY <1>3, LeftWeightNat, NatWeighs DEF NatWeight
<1>8. \A x : Total(news, FrameWeight(x)) = FrameWeight(x)[g] /\ FrameWeight(x)[g] \in Nat
             /\ FrameWeight(x)[f] \in Nat
  BY <1>1, <1>3, FrameWeightNat, NatWeighs, Zenon DEF NatWeight
<1>9. Total(items, PlacedWeight) = 0 /\ \A x : Total(items, ItemWeight(x)) = 0 /\ Total(items, VisitWeight(x)) = 0
  BY <1>4
<1>10. \A k \in DOMAIN news : FrameInv(i, news[k]) BY <1>6
<1>11. items \in Seq(Items) /\ DOMAIN items = {} BY <1>5
<1>12. Proceed(w, i, Pop(w, i) \o news, items) BY <1>2, Zenon
<1> HIDE DEF news, items
<1>13. PlacesHere(w, i, f, news, items)
  <2>1. Total(news, LeftWeight) + Total(items, PlacedWeight) <= LeftWeight[f]
    BY <1>7, <1>9
  <2> QED BY <1>7, <1>10, <1>11, <2>1 DEF PlacesHere
<1>14. BalancedHere(f, news, items)
  <2> SUFFICES ASSUME NEW x \in Nodes
               PROVE  n_in_flight'[x] - stray'[x] = n_in_flight[x] - stray[x] - FrameWeight(x)[f]
                        + Total(news, FrameWeight(x)) + Total(items, ItemWeight(x))
    BY DEF BalancedHere
  <2>1. n_in_flight[x] \in Int /\ stray[x] \in Int BY <1>1
  <2>2. Total(news, FrameWeight(x)) = FrameWeight(x)[g] /\ FrameWeight(x)[g] \in Nat
        /\ FrameWeight(x)[f] \in Nat /\ Total(items, ItemWeight(x)) = 0
    BY <1>8, <1>9
  <2>3. n_in_flight'[x] - stray'[x] = n_in_flight[x] - stray[x] - FrameWeight(x)[f] + FrameWeight(x)[g]
    OBVIOUS
  <2> QED BY <2>1, <2>2, <2>3
<1>15. StartsOnce(items) BY <1>9 DEF StartsOnce
<1> QED BY <1>12, <1>13, <1>14, <1>15, ProceedInv

\* StartSharing: the root's visits come into flight here.
LEMMA StartSharingInv ==
  ASSUME IInv, NEW w \in Workers, NEW i, PickAt(w, i), NEW f, f = Last(stacks[w][i].frames),
         StartSharing(w, i, f)
  PROVE  IInv'
<1> DEFINE g == [f EXCEPT !.step = "share"]
<1>1. /\ f \in Frames /\ f.left \in Nat /\ f.visits_to_perform \in [Nodes -> Nat] /\ FrameInv(i, f)
      /\ n_in_flight \in [Nodes -> Nat] /\ stray \in [Nodes -> Nat] /\ f.path \in Paths
  BY CurrentFrame, Zenon
<1>2. /\ f.step = "arrive" /\ ~ShouldStopPickingHere(Last(f.path))
      /\ n_in_flight' = IF f.path = <<Root>>
                        THEN [n_in_flight EXCEPT ![Root] = @ + f.left] ELSE n_in_flight
      /\ Proceed(w, i, Replace(w, i, g), <<>>) /\ stray' = stray /\ PickUnchanged
  BY DEF StartSharing
<1>3. /\ g \in Frames /\ g.path = f.path /\ g.step = "share" /\ g.left = f.left
      /\ g.visits_to_perform = f.visits_to_perform
  BY <1>1 DEF Frames, Steps
<1> HIDE DEF g
<1>4. FrameInv(i, g) BY <1>1, <1>3 DEF FrameInv
<1>5. LeftWeight[g] = LeftWeight[f] /\ LeftWeight[f] \in Nat
  BY <1>1, <1>3, LeftWeightNat DEF LeftWeight, NatWeight
<1>6. \A c \in Nodes : f.visits_to_perform[c] = 0 BY <1>1, <1>2 DEF FrameInv
<1>7. ASSUME NEW x PROVE FrameWeight(x)[g] = f.left * Occurrences(x, f.path)
                         /\ FrameWeight(x)[g] \in Nat /\ f.left * Occurrences(x, f.path) \in Nat
  <2> DEFINE G == OnTheWay(x, g.path, g.visits_to_perform)
  <2>1. FrameWeight(x)[g] = g.left * Occurrences(x, g.path) + SumFunctionOnSet(G, Nodes)
        /\ FrameWeight(x)[g] \in Nat
    BY <1>3, FrameWeightIs
  <2>2. ASSUME NEW c \in Nodes PROVE G[c] = 0
    <3>1. HeldOnTheWay(x, Append(f.path, c), 0)
            = 0 * (Occurrences(x, f.path) + IF c = x /\ ~ShouldStopPickingHere(c) THEN 1 ELSE 0)
      BY <1>1, OnTheWayIs
    <3>2. Occurrences(x, f.path) \in Nat BY <1>1, OccurrencesAtEnd, OccurrencesNat, Zenon
    <3>3. HeldOnTheWay(x, Append(f.path, c), 0) = 0 BY <3>1, <3>2
    <3>4. G[c] = HeldOnTheWay(x, Append(f.path, c), 0) BY <1>3, <1>6 DEF OnTheWay
    <3> QED BY <3>3, <3>4
  <2> HIDE DEF G
  <2>3. SumFunctionOnSet(G, Nodes) = 0 BY <2>2, GraphAssumption, SumZero
  <2>4. Occurrences(x, f.path) \in Nat BY <1>1, OccurrencesAtEnd, OccurrencesNat, Zenon
  <2>5. f.left * Occurrences(x, f.path) \in Nat BY <1>1, <2>4, TimesNat
  <2> QED BY <1>3, <2>1, <2>3, <2>5
<1>8. CASE f.path = <<Root>>
  <2>1. Root \in Nodes BY GraphAssumption
  <2>2. n_in_flight' \in [Nodes -> Int]
        /\ \A x \in Nodes : n_in_flight'[x] = n_in_flight[x] + IF x = Root THEN f.left ELSE 0
    BY <1>1, <1>2, <1>8, <2>1
  <2>3. ASSUME NEW x \in Nodes
        PROVE  n_in_flight'[x] - stray'[x]
                 = n_in_flight[x] - stray[x] - FrameWeight(x)[f] + FrameWeight(x)[g]
    <3>1. FrameWeight(x)[f] = 0 BY <1>1, <1>2, <1>8, FrameWeightIs, Zenon
    <3>2. Occurrences(x, f.path) = IF Root = x THEN 1 ELSE 0 BY <1>8, OccurrencesOnRoot
    <3>3. FrameWeight(x)[g] = IF x = Root THEN f.left ELSE 0 BY <1>1, <1>7, <3>2
    <3>4. n_in_flight[x] \in Int /\ stray[x] \in Int BY <1>1
    <3> QED BY <1>1, <1>2, <2>2, <3>1, <3>3, <3>4
  <2>4. stray' \in [Nodes -> Nat] BY <1>1, <1>2
  <2> QED BY <1>2, <1>3, <1>4, <1>5, <2>2, <2>3, <2>4, ReplaceInv
<1>9. CASE f.path # <<Root>>
  <2>1. n_in_flight' = n_in_flight /\ stray' = stray BY <1>2, <1>9
  <2>2. ASSUME NEW x \in Nodes
        PROVE  n_in_flight'[x] - stray'[x]
                 = n_in_flight[x] - stray[x] - FrameWeight(x)[f] + FrameWeight(x)[g]
    <3>1. FrameWeight(x)[f] = f.left * Occurrences(x, f.path) BY <1>1, <1>2, <1>9, FrameWeightIs
    <3>2. FrameWeight(x)[g] = FrameWeight(x)[f] /\ FrameWeight(x)[g] \in Nat BY <1>7, <3>1
    <3>3. n_in_flight[x] \in Int /\ stray[x] \in Int BY <1>1
    <3> QED BY <2>1, <3>2, <3>3
  <2>3. n_in_flight' \in [Nodes -> Int] /\ stray' \in [Nodes -> Nat] BY <1>1, <2>1
  <2>4. Proceed(w, i, Replace(w, i, g), <<>>) /\ PickUnchanged BY <1>2
  <2>5. g \in Frames /\ LeftWeight[g] <= LeftWeight[f] BY <1>3, <1>5
  <2> QED BY <1>4, <2>2, <2>3, <2>4, <2>5, ReplaceInv
<1> QED BY <1>8, <1>9

\* The virtual loss that giving child c new_visits adds, assigned of them in the
\* frame and the others in items.
AssignBalanced(f, c, new_visits, assigned, items) ==
  \A x \in Nodes : n_in_flight'[x] - stray'[x] = n_in_flight[x] - stray[x]
    - new_visits * Occurrences(x, f.path) + Total(items, ItemWeight(x))
    + assigned * (Occurrences(x, f.path) + IF c = x /\ ~ShouldStopPickingHere(c) THEN 1 ELSE 0)

\* Child c of the current node got new_visits: assigned of them are left to be
\* performed, items were added for the others.
LEMMA AssignInv ==
  ASSUME IInv, NEW w \in Workers, NEW i, PickAt(w, i), NEW f, f = Last(stacks[w][i].frames),
         f.step = "share", NEW c \in Nodes, NEW new_visits \in 1..f.left,
         NEW assigned \in 0..new_visits, NEW items \in Seq(Items),
         Total(items, PlacedWeight) = new_visits - assigned,
         \A k \in DOMAIN items : ~items[k].maxvisit,
         AssignVisits(w, i, f, c, new_visits, assigned, items), PickUnchanged,
         n_in_flight' \in [Nodes -> Int], stray' \in [Nodes -> Nat],
         AssignBalanced(f, c, new_visits, assigned, items), StartsOnce(items)
  PROVE  IInv'
<1> DEFINE g == [f EXCEPT !.left = @ - new_visits, !.visits_to_perform[c] = @ + assigned]
           v == f.visits_to_perform
           l == f.left - new_visits
           e == v[c] + assigned
<1>1. /\ f \in Frames /\ f.left \in Nat /\ v \in [Nodes -> Nat] /\ FrameInv(i, f)
      /\ n_in_flight \in [Nodes -> Nat] /\ stray \in [Nodes -> Nat] /\ f.path \in Paths
      /\ Pop(w, i) \in Seq(Frames)
  BY CurrentFrame, Zenon
<1>2. l \in Nat /\ e \in Nat /\ new_visits \in Nat /\ assigned \in Nat /\ v[c] \in Nat
      /\ assigned <= new_visits /\ f.left \in Nat
  <2>1. f.left \in Nat /\ v[c] \in Nat BY <1>1
  <2>2. new_visits \in Nat /\ new_visits <= f.left BY <2>1
  <2>3. assigned \in Nat /\ assigned <= new_visits BY <2>2
  <2> HIDE DEF v
  <2> QED BY <2>1, <2>2, <2>3
<1>3. g = [path |-> f.path, step |-> f.step, left |-> l, visits_to_perform |-> [v EXCEPT ![c] = e]]
  <2> DEFINE f1 == [f EXCEPT !.left = l]
  <2>1. f1.visits_to_perform = v
    <3> DEFINE p == f.path s == f.step m == f.left
    <3>1. f = [path |-> p, step |-> s, left |-> m, visits_to_perform |-> v] BY <1>1, FrameRecord, Zenon
    <3> HIDE DEF p, s, m, v, l
    <3> QED BY <3>1
  <2>2. g = [f1 EXCEPT !.visits_to_perform = [f1.visits_to_perform EXCEPT ![c] =
               f1.visits_to_perform[c] + assigned]]
    BY Zenon
  <2> HIDE DEF f1
  <2>3. g = [f1 EXCEPT !.visits_to_perform = [v EXCEPT ![c] = e]] BY <2>1, <2>2, Zenon
  <2> DEFINE u == [v EXCEPT ![c] = e]
  <2> HIDE DEF g, l, u
  <2>4. f \in Frames BY <1>1
  <2>5. [[f EXCEPT !.left = l] EXCEPT !.visits_to_perform = u]
          = [path |-> f.path, step |-> f.step, left |-> l, visits_to_perform |-> u]
    BY <2>4, FrameExcept, Zenon
  <2>6. g = [[f EXCEPT !.left = l] EXCEPT !.visits_to_perform = u] BY <2>3, Zenon DEF f1, u
  <2>7. g = [path |-> f.path, step |-> f.step, left |-> l, visits_to_perform |-> u]
    BY <2>5, <2>6, Zenon
  <2> QED BY <2>7, Zenon DEF u
<1>4. /\ g \in Frames /\ g.path = f.path /\ g.step = f.step /\ g.left = l
      /\ g.visits_to_perform = [v EXCEPT ![c] = e]
  <2>1. [v EXCEPT ![c] = e] \in [Nodes -> Nat] BY <1>1, <1>2, Zenon
  <2>2. f.step \in Steps BY <1>1 DEF Frames
  <2> HIDE DEF g, v, l, e
  <2> QED BY <1>1, <1>2, <1>3, <2>1, <2>2 DEF Frames
<1>5. Proceed(w, i, Pop(w, i) \o <<g>>, items)
  <2>1. Append(Pop(w, i), g) = Pop(w, i) \o <<g>> BY <1>1, <1>4, AppendIs
  <2>2. Proceed(w, i, Append(Pop(w, i), g), items) BY Zenon DEF AssignVisits, Replace
  <2> QED BY <2>1, <2>2, Zenon
<1> DEFINE news == <<g>>
<1> HIDE DEF g, l, e
<1> DEFINE h == v[c]
<1>6. /\ LeftWeight[g] = LeftWeight[f] - f.left + l - v[c] + e
      /\ LeftWeight[f] \in Nat
      /\ \A x : /\ FrameWeight(x)[g] = FrameWeight(x)[f]
                        - f.left * Occurrences(x, f.path) + l * Occurrences(x, f.path)
                        - HeldOnTheWay(x, Append(f.path, c), v[c])
                        + HeldOnTheWay(x, Append(f.path, c), e)
                /\ FrameWeight(x)[f] \in Nat
  <2>1. f.step # "arrive" /\ g.step # "arrive" BY <1>4
  <2>2. f \in Frames /\ g \in Frames /\ g.path = f.path /\ g.left = l BY <1>1, <1>4
  <2>3. g.visits_to_perform[c] = e /\ \A d \in Nodes : d # c => g.visits_to_perform[d] = v[d]
    BY <1>1, <1>4
  <2>4. ChangedFor(f, g, c) BY <2>1, <2>2, <2>3 DEF ChangedFor
  <2> HIDE DEF v
  <2> QED BY <2>2, <2>3, <2>4, FrameChanges DEF v
<1>7. LeftWeight[g] = LeftWeight[f] - new_visits + assigned
  <2> DEFINE m == LeftWeight[f] n == LeftWeight[g] k == f.left
  <2>1. n = m - k + l - h + e /\ m \in Int BY <1>6
  <2>2. k \in Int /\ h \in Int /\ new_visits \in Int /\ assigned \in Int BY <1>2
  <2>3. l = k - new_visits /\ e = h + assigned BY DEF l, e
  <2> HIDE DEF m, n, k, h
  <2>4. n = m - new_visits + assigned BY <2>1, <2>2, <2>3
  <2> QED BY <2>4 DEF m, n
<1>8. \A k \in DOMAIN news : news[k] = g OBVIOUS
<1>9. \A q : Weighs(q, Frames) => news \in Seq(Frames) /\ Total(news, q) = q[g]
  BY <1>4, TotalOfOne
<1> HIDE DEF news
<1>10. news \in Seq(Frames) /\ Total(news, LeftWeight) = LeftWeight[g]
  BY <1>9, LeftWeightNat, NatWeighs
<1>11. PlacesHere(w, i, f, news, items)
  <2>1. Total(news, LeftWeight) + Total(items, PlacedWeight) <= LeftWeight[f]
    <3>1. LeftWeight[f] \in Nat BY <1>6
    <3>2. assigned \in Nat /\ new_visits \in Nat /\ assigned <= new_visits BY <1>2
    <3> QED BY <1>7, <1>10, <3>1, <3>2
  <2>2. FrameInv(i, g) BY <1>1, <1>4 DEF FrameInv
  <2> QED BY <1>8, <1>10, <2>1, <2>2 DEF PlacesHere
<1>12. BalancedHere(f, news, items)
  <2> SUFFICES ASSUME NEW x \in Nodes
               PROVE  n_in_flight'[x] - stray'[x] = n_in_flight[x] - stray[x] - FrameWeight(x)[f]
                        + Total(news, FrameWeight(x)) + Total(items, ItemWeight(x))
    BY DEF BalancedHere
  <2> DEFINE o == Occurrences(x, f.path)
             d == IF c = x /\ ~ShouldStopPickingHere(c) THEN 1 ELSE 0
             b == Total(items, ItemWeight(x))
             m == FrameWeight(x)[f] n == FrameWeight(x)[g]
             j == HeldOnTheWay(x, Append(f.path, c), v[c])
             k == HeldOnTheWay(x, Append(f.path, c), e)
             a == n_in_flight[x] - stray[x]
             z == n_in_flight'[x] - stray'[x]
  <2>1. o \in Nat /\ d \in Nat BY <1>1, OccurrencesAtEnd, OccurrencesNat, Zenon
  <2>2. j = v[c] * (o + d) /\ k = e * (o + d) BY <1>1, <1>2, OnTheWayIs, Zenon
  <2>3. n = m - f.left * o + l * o - j + k /\ m \in Nat BY <1>6
  <2>4. Total(news, FrameWeight(x)) = n BY <1>9, FrameWeightNat, NatWeighs
  <2>5. b \in Int BY ItemWeightNat, NatWeighs, TotalIs, Zenon
  <2>6. a \in Int BY <1>1
  <2>7. z = a - new_visits * o + b + assigned * (o + d) BY DEF AssignBalanced
  <2> HIDE DEF o, d, b, m, n, j, k, a, z
  <2>8. l * o = f.left * o - new_visits * o 
    <3>1. f.left \in Int /\ new_visits \in Int /\ o \in Int BY <1>2, <2>1
    <3>2. (f.left - new_visits) * o = f.left * o - new_visits * o BY <3>1, Distributes
    <3> QED BY <3>2 DEF l
  <2>9. e * (o + d) = v[c] * (o + d) + assigned * (o + d)
    <3>1. h \in Int /\ assigned \in Int BY <1>2
    <3>2. o + d \in Int BY <2>1
    <3> HIDE DEF h
    <3>3. (h + assigned) * (o + d) = h * (o + d) + assigned * (o + d) BY <3>1, <3>2, Distributes
    <3> QED BY <3>3 DEF e, h
  <2> DEFINE p == f.left * o q == new_visits * o r == v[c] * (o + d) s == assigned * (o + d)
             t == l * o u == e * (o + d)
  <2>10. p \in Int /\ q \in Int /\ r \in Int /\ s \in Int
    <3>1. f.left \in Int /\ new_visits \in Int /\ v[c] \in Int /\ assigned \in Int BY <1>2
    <3>2. o \in Int /\ o + d \in Int BY <2>1
    <3> QED BY <3>1, <3>2, Distributes, Zenon
  <2>11. /\ z = a - q + b + s /\ n = m - p + t - r + u /\ t = p - q /\ u = r + s
    BY <2>2, <2>3, <2>7, <2>8, <2>9, Zenon
  <2> HIDE DEF p, q, r, s, t, u
  <2>12. m \in Int BY <2>3
  <2> HIDE DEF v
  <2>13. z = a - m + n + b BY <2>5, <2>6, <2>10, <2>11, <2>12
  <2> QED BY <2>4, <2>13 DEF z, a, m, n, b
<1>13. \A k \in DOMAIN items :
         items[k].maxvisit => items[k].multivisit = stacks[w][1].collision_limit
  OBVIOUS
<1>14. Proceed(w, i, Pop(w, i) \o news, items) BY <1>5, Zenon DEF news
<1> QED BY <1>11, <1>12, <1>14, ProceedInv

\* The children of a node are nodes.
LEMMA ChildIsNode ==
  ASSUME NEW x \in Nodes, NEW c \in Range(Edges[x]) PROVE c \in Nodes
BY GraphAssumption DEF Range

\* ShareWithVisit: the visit holds the child, the others collide there later.
LEMMA ShareWithVisitInv ==
  ASSUME IInv, NEW w \in Workers, NEW i, PickAt(w, i), NEW f, f = Last(stacks[w][i].frames),
         ShareWithVisit(w, i, f)
  PROVE  IInv'
<1>1. /\ f.left \in Nat /\ Last(f.path) \in Nodes /\ f.path \in Paths
      /\ n_in_flight \in [Nodes -> Nat] /\ stray \in [Nodes -> Nat]
  BY CurrentFrame
<1>2. PICK c \in Range(Edges[Last(f.path)]), new_visits \in 1..f.left :
        /\ CanStartScoreUpdate(c) /\ ShouldStopPickingHere(c)
        /\ n_in_flight' = [n_in_flight EXCEPT ![c] = @ + 1]
        /\ AssignVisits(w, i, f, c, new_visits, new_visits - 1, <<Visit(Append(f.path, c))>>)
  BY Zenon DEF ShareWithVisit
<1>3. f.step = "share" /\ stray' = stray /\ PickUnchanged BY DEF ShareWithVisit
<1>4. c \in Nodes BY <1>1, ChildIsNode
<1> DEFINE path == Append(f.path, c) item == Visit(path) items == <<item>>
           assigned == new_visits - 1
<1>5. path \in Paths BY <1>1, <1>4, PathsGrow
<1>6. /\ item \in Items /\ ~item.maxvisit /\ PlacedWeight[item] = 1
      /\ \A x : /\ ItemWeight(x)[item] = Occurrences(x, path)
                /\ VisitWeight(x)[item] = IF Last(path) = x THEN 1 ELSE 0
  BY <1>5, VisitIs
<1>7. f.path \in Seq(Nodes) BY <1>1, OccurrencesAtEnd
<1>8. Last(path) = c BY <1>4, <1>7, PathAppend
<1>9. \A x : Occurrences(x, path) = Occurrences(x, f.path) + IF c = x THEN 1 ELSE 0
  BY <1>4, <1>7, OccurrencesAppend
<1>10. AssignVisits(w, i, f, c, new_visits, assigned, items) BY <1>2, Zenon
<1>11. \A k \in DOMAIN items : items[k] = item OBVIOUS
<1> HIDE DEF item, path
<1>12. \A h : Weighs(h, Items) => items \in Seq(Items) /\ Total(items, h) = h[item]
  BY <1>6, TotalOfOne
<1> HIDE DEF items
<1>13. items \in Seq(Items) /\ Total(items, PlacedWeight) = 1
  BY <1>6, <1>12, PlacedWeightNat, NatWeighs
<1>14. \A x : /\ Total(items, ItemWeight(x)) = Occurrences(x, path)
              /\ Total(items, VisitWeight(x)) = IF c = x THEN 1 ELSE 0
  <2> SUFFICES ASSUME NEW x
               PROVE  /\ Total(items, ItemWeight(x)) = Occurrences(x, path)
                      /\ Total(items, VisitWeight(x)) = IF c = x THEN 1 ELSE 0
    OBVIOUS
  <2>1. Total(items, ItemWeight(x)) = ItemWeight(x)[item] BY <1>12, ItemWeightNat, NatWeighs
  <2>2. Total(items, VisitWeight(x)) = VisitWeight(x)[item] BY <1>12, VisitWeightNat, NatWeighs
  <2> QED BY <1>6, <1>8, <2>1, <2>2
<1>15. new_visits \in Nat /\ assigned \in 0..new_visits /\ assigned \in Nat BY <1>1
<1>16. Total(items, PlacedWeight) = new_visits - assigned BY <1>13, <1>15
<1>17. \A k \in DOMAIN items : ~items[k].maxvisit BY <1>6, <1>11
<1>18. n_in_flight' \in [Nodes -> Int] /\ stray' \in [Nodes -> Nat]
       /\ \A x \in Nodes : n_in_flight'[x] = n_in_flight[x] + IF c = x THEN 1 ELSE 0
  BY <1>1, <1>2, <1>3, <1>4
<1>19. AssignBalanced(f, c, new_visits, assigned, items)
  <2> SUFFICES ASSUME NEW x \in Nodes
               PROVE  n_in_flight'[x] - stray'[x] = n_in_flight[x] - stray[x]
                        - new_visits * Occurrences(x, f.path) + Total(items, ItemWeight(x))
                        + assigned * (Occurrences(x, f.path)
                            + IF c = x /\ ~ShouldStopPickingHere(c) THEN 1 ELSE 0)
    BY DEF AssignBalanced
  <2> DEFINE o == Occurrences(x, f.path) d == IF c = x THEN 1 ELSE 0
             b == Total(items, ItemWeight(x))
  <2>1. o \in Int BY <1>7, OccurrencesNat
  <2>2. b = o + d BY <1>9, <1>14
  <2>3. n_in_flight[x] \in Int /\ stray[x] \in Int /\ n_in_flight'[x] = n_in_flight[x] + d
        /\ stray'[x] = stray[x]
    BY <1>1, <1>3, <1>18
  <2>4. d \in Int OBVIOUS
  <2>5. new_visits * o = assigned * o + o
    <3>1. (new_visits - 1) * o = new_visits * o - 1 * o /\ new_visits * o \in Int
      BY <1>15, <2>1, Distributes
    <3> HIDE DEF o
    <3> QED BY <2>1, <3>1
  <2>6. assigned * o \in Int BY <1>15, <2>1, Distributes
  <2>7. (o + IF c = x /\ ~ShouldStopPickingHere(c) THEN 1 ELSE 0) = o BY <1>2, <2>1
  <2> DEFINE p == assigned * o q == new_visits * o n == n_in_flight[x] m == n_in_flight'[x]
             s == stray[x]
  <2> HIDE DEF o, d, b, p, q, n, m, s, assigned
  <2>8. m - s = n - s - q + b + p
    <3>1. m = n + d /\ n \in Int /\ s \in Int /\ d \in Int /\ b = o + d /\ o \in Int /\ p \in Int
          /\ q = p + o
      BY <2>1, <2>2, <2>3, <2>4, <2>5, <2>6 DEF n, m, s, p, q
    <3> QED BY <3>1
  <2> QED BY <2>3, <2>7, <2>8 DEF n, m, s, p, q, b, o
<1>20. StartsOnce(items) BY <1>2, <1>14 DEF StartsOnce, CanStartScoreUpdate
<1> HIDE DEF assigned
<1> QED BY <1>3, <1>4, <1>10, <1>13, <1>15, <1>16, <1>17, <1>18, <1>19, <1>20, AssignInv, Zenon

\* All of a child's visits are left to be performed.
LEMMA AssignAllInv ==
  ASSUME IInv, NEW w \in Workers, NEW i, PickAt(w, i), NEW f, f = Last(stacks[w][i].frames),
         f.step = "share", NEW c \in Nodes, NEW new_visits \in 1..f.left,
         AssignVisits(w, i, f, c, new_visits, new_visits, <<>>), PickUnchanged,
         n_in_flight' \in [Nodes -> Int], stray' \in [Nodes -> Nat],
         \A x \in Nodes : n_in_flight'[x] - stray'[x] = n_in_flight[x] - stray[x]
           + IF c = x /\ ~ShouldStopPickingHere(c) THEN new_visits ELSE 0
  PROVE  IInv'
<1> DEFINE items == <<>>
<1>1. /\ f.left \in Nat /\ f.path \in Paths
      /\ n_in_flight \in [Nodes -> Nat] /\ stray \in [Nodes -> Nat]
  BY CurrentFrame, Zenon
<1>2. items \in Seq(Items) /\ DOMAIN items = {} OBVIOUS
<1>3. \A h : Total(items, h) = 0 BY TotalEmpty
<1>4. AssignVisits(w, i, f, c, new_visits, new_visits, items) OBVIOUS
<1> HIDE DEF items
<1>5. new_visits \in Nat /\ new_visits \in 0..new_visits BY <1>1
<1>6. Total(items, PlacedWeight) = new_visits - new_visits BY <1>3, <1>5
<1>7. AssignBalanced(f, c, new_visits, new_visits, items)
  <2> SUFFICES ASSUME NEW x \in Nodes
               PROVE  n_in_flight'[x] - stray'[x] = n_in_flight[x] - stray[x]
                        - new_visits * Occurrences(x, f.path) + Total(items, ItemWeight(x))
                        + new_visits * (Occurrences(x, f.path)
                            + IF c = x /\ ~ShouldStopPickingHere(c) THEN 1 ELSE 0)
    BY DEF AssignBalanced
  <2> DEFINE o == Occurrences(x, f.path)
             d == IF c = x /\ ~ShouldStopPickingHere(c) THEN 1 ELSE 0
             e == IF c = x /\ ~ShouldStopPickingHere(c) THEN new_visits ELSE 0
             z == n_in_flight'[x] - stray'[x]
             a == n_in_flight[x] - stray[x]
  <2>1. o \in Int /\ d \in Int BY <1>1, OccurrencesAtEnd, OccurrencesNat
  <2>2. a \in Int BY <1>1
  <2>3. z = a + e OBVIOUS
  <2>4. new_visits * d = e BY <1>5
  <2>5. Total(items, ItemWeight(x)) = 0 BY <1>3
  <2> HIDE DEF o, d, e, z, a
  <2>6. new_visits * (o + d) = new_visits * o + new_visits * d /\ new_visits * o \in Int
        /\ new_visits * d \in Int
    BY <1>5, <2>1
  <2>7. z = a - new_visits * o + 0 + new_visits * (o + d)
    BY <2>2, <2>3, <2>4, <2>6
  <2> QED BY <2>5, <2>7 DEF z, a, o, d
<1>8. StartsOnce(items) BY <1>3 DEF StartsOnce
<1>9. \A k \in DOMAIN items : ~items[k].maxvisit BY <1>2
<1> QED BY <1>2, <1>4, <1>5, <1>6, <1>7, <1>8, <1>9, AssignInv, Zenon

\* ShareBelow: the child has all of its visits in flight.
LEMMA ShareBelowInv ==
  ASSUME IInv, NEW w \in Workers, NEW i, PickAt(w, i), NEW f, f = Last(stacks[w][i].frames),
         ShareBelow(w, i, f)
  PROVE  IInv'
<1>1. /\ f.left \in Nat /\ Last(f.path) \in Nodes
      /\ n_in_flight \in [Nodes -> Nat] /\ stray \in [Nodes -> Nat]
  BY CurrentFrame
<1>2. PICK c \in Range(Edges[Last(f.path)]), new_visits \in 1..f.left :
        /\ ~ShouldStopPickingHere(c)
        /\ n_in_flight' = [n_in_flight EXCEPT ![c] = @ + new_visits]
        /\ AssignVisits(w, i, f, c, new_visits, new_visits, <<>>)
  BY Zenon DEF ShareBelow
<1>3. f.step = "share" /\ stray' = stray /\ PickUnchanged BY DEF ShareBelow
<1>4. c \in Nodes /\ new_visits \in Int BY <1>1, ChildIsNode
<1>5. n_in_flight' \in [Nodes -> Int] /\ stray' \in [Nodes -> Nat] BY <1>1, <1>2, <1>3, <1>4
<1>6. ASSUME NEW x \in Nodes
      PROVE  n_in_flight'[x] - stray'[x] = n_in_flight[x] - stray[x]
               + (IF c = x /\ ~ShouldStopPickingHere(c) THEN new_visits ELSE 0)
  <2>1. n_in_flight'[x] = n_in_flight[x] + (IF c = x THEN new_visits ELSE 0)
        /\ n_in_flight[x] \in Int /\ stray[x] \in Int
    BY <1>1, <1>2, <1>4
  <2> QED BY <1>2, <1>3, <1>4, <2>1
<1> QED BY <1>2, <1>3, <1>4, <1>5, <1>6, AssignAllInv, Zenon

\* ShareWithBusy: what it adds goes astray.
LEMMA ShareWithBusyInv ==
  ASSUME IInv, NEW w \in Workers, NEW i, PickAt(w, i), NEW f, f = Last(stacks[w][i].frames),
         ShareWithBusy(w, i, f)
  PROVE  IInv'
<1>1. /\ f.left \in Nat /\ Last(f.path) \in Nodes
      /\ n_in_flight \in [Nodes -> Nat] /\ stray \in [Nodes -> Nat]
  BY CurrentFrame
<1>2. PICK c \in Range(Edges[Last(f.path)]), new_visits \in 1..f.left :
        /\ ~CanStartScoreUpdate(c)
        /\ n_in_flight' = [n_in_flight EXCEPT ![c] = @ + new_visits]
        /\ stray' = [stray EXCEPT ![c] = @ + new_visits]
        /\ AssignVisits(w, i, f, c, new_visits, new_visits, <<>>)
  BY Zenon DEF ShareWithBusy
<1>3. f.step = "share" /\ PickUnchanged BY DEF ShareWithBusy
<1>4. c \in Nodes /\ new_visits \in Nat BY <1>1, ChildIsNode
<1>5. ShouldStopPickingHere(c) BY <1>2 DEF CanStartScoreUpdate, ShouldStopPickingHere
<1>6. n_in_flight' \in [Nodes -> Int] /\ stray' \in [Nodes -> Nat] BY <1>1, <1>2, <1>4
<1>7. ASSUME NEW x \in Nodes
      PROVE  n_in_flight'[x] - stray'[x] = n_in_flight[x] - stray[x]
               + (IF c = x /\ ~ShouldStopPickingHere(c) THEN new_visits ELSE 0)
  <2>1. n_in_flight'[x] = n_in_flight[x] + (IF c = x THEN new_visits ELSE 0)
        /\ n_in_flight[x] \in Int
    BY <1>1, <1>2, <1>4
  <2>2. stray'[x] = stray[x] + (IF c = x THEN new_visits ELSE 0) /\ stray[x] \in Int
    BY <1>1, <1>2, <1>4
  <2> QED BY <1>4, <1>5, <2>1, <2>2
<1> QED BY <1>2, <1>3, <1>4, <1>6, <1>7, AssignAllInv

\* Raise adds to each node as often as the path has it.
LEMMA RaiseIs ==
  ASSUME NEW h \in [Nodes -> Nat], NEW path \in Seq(Nodes), NEW count \in Nat
  PROVE  /\ Raise(h, path, count) \in [Nodes -> Nat]
         /\ \A x \in Nodes : /\ Raise(h, path, count)[x] = h[x] + count * Occurrences(x, path)
                             /\ count * Occurrences(x, path) \in Nat
<1>1. \A x \in Nodes : count * Occurrences(x, path) \in Nat BY OccurrencesNat, TimesNat
<1> QED BY <1>1 DEF Raise

\* DropVisits: what the dropped visits held goes astray.
LEMMA DropVisitsInv ==
  ASSUME IInv, NEW w \in Workers, NEW i, PickAt(w, i), NEW f, f = Last(stacks[w][i].frames),
         DropVisits(w, i, f)
  PROVE  IInv'
<1> DEFINE g == [f EXCEPT !.left = 0]
<1>1. /\ f \in Frames /\ f.left \in Nat /\ f.path \in Paths /\ f.path \in Seq(Nodes)
      /\ FrameInv(i, f) /\ f.visits_to_perform \in [Nodes -> Nat]
      /\ n_in_flight \in [Nodes -> Nat] /\ stray \in [Nodes -> Nat]
  BY CurrentFrame, Zenon
<1>2. /\ f.step = "share" /\ stray' = Raise(stray, f.path, f.left)
      /\ Proceed(w, i, Replace(w, i, g), <<>>) /\ n_in_flight' = n_in_flight /\ PickUnchanged
  BY DEF DropVisits
<1>3. /\ g \in Frames /\ g.path = f.path /\ g.step = f.step /\ g.left = 0
      /\ g.visits_to_perform = f.visits_to_perform
  BY <1>1, Zenon DEF Frames
<1> HIDE DEF g
<1>4. FrameInv(i, g) BY <1>1, <1>2, <1>3 DEF FrameInv
<1>5. Root \in Nodes BY GraphAssumption
<1>6. ChangedFor(f, g, Root) BY <1>2, <1>3 DEF ChangedFor
<1>7. f.visits_to_perform[Root] \in Nat BY <1>1, <1>5
<1>8. LeftWeight[g] = LeftWeight[f] - f.left + 0 /\ LeftWeight[f] \in Nat
  <2>1. /\ LeftWeight[g] = LeftWeight[f] - f.left + g.left
                             - f.visits_to_perform[Root] + g.visits_to_perform[Root]
        /\ LeftWeight[f] \in Nat
    BY <1>1, <1>3, <1>5, <1>6, FrameChanges
  <2> QED BY <1>1, <1>3, <1>7, <2>1
<1>9. stray' \in [Nodes -> Nat]
      /\ \A x \in Nodes : /\ stray'[x] = stray[x] + f.left * Occurrences(x, f.path)
                          /\ f.left * Occurrences(x, f.path) \in Nat
  <2> DEFINE r == Raise(stray, f.path, f.left)
  <2>1. /\ r \in [Nodes -> Nat]
        /\ \A x \in Nodes : /\ r[x] = stray[x] + f.left * Occurrences(x, f.path)
                            /\ f.left * Occurrences(x, f.path) \in Nat
    BY <1>1, RaiseIs, Zenon
  <2>2. stray' = r BY <1>2
  <2> HIDE DEF r
  <2> QED BY <2>1, <2>2, Zenon
<1>10. ASSUME NEW x \in Nodes
       PROVE  n_in_flight'[x] - stray'[x]
                = n_in_flight[x] - stray[x] - FrameWeight(x)[f] + FrameWeight(x)[g]
  <2> DEFINE o == Occurrences(x, f.path)
             k == HeldOnTheWay(x, Append(f.path, Root), f.visits_to_perform[Root])
             p == f.left * o
             q == g.left * o
             n == n_in_flight[x] s == stray[x]
             u == FrameWeight(x)[f] v == FrameWeight(x)[g]
  <2>1. v = u - p + q - k + k /\ u \in Nat
    BY <1>1, <1>3, <1>5, <1>6, FrameChanges
  <2>2. k \in Nat BY <1>1, <1>5, <1>7, OnTheWayIs, Zenon
  <2>3. q = 0
    <3>1. o \in Nat BY <1>1, OccurrencesNat
    <3> HIDE DEF o
    <3> QED BY <1>3, <3>1
  <2>4. p \in Nat /\ stray'[x] = s + p /\ n_in_flight'[x] = n BY <1>2, <1>9
  <2>5. n \in Nat /\ s \in Nat BY <1>1
  <2> HIDE DEF o, k, p, q, n, s, u, v
  <2>6. n - (s + p) = n - s - u + v BY <2>1, <2>2, <2>3, <2>4, <2>5
  <2> QED BY <2>4, <2>6 DEF n, s, u, v
<1>11. n_in_flight' \in [Nodes -> Int] /\ LeftWeight[g] <= LeftWeight[f] BY <1>1, <1>2, <1>8
<1> QED BY <1>2, <1>3, <1>4, <1>9, <1>10, <1>11, ReplaceInv, Zenon

\* A frame with nothing left to share weighs what its children hold.
LEMMA NothingLeft ==
  ASSUME NEW f \in Frames, f.step # "arrive", f.left = 0
  PROVE  \A x : FrameWeight(x)[f] = SumFunctionOnSet(OnTheWay(x, f.path, f.visits_to_perform), Nodes)
<1> SUFFICES ASSUME NEW x
             PROVE FrameWeight(x)[f] = SumFunctionOnSet(OnTheWay(x, f.path, f.visits_to_perform), Nodes)
  OBVIOUS
<1>1. f.path \in Paths /\ f.visits_to_perform \in [Nodes -> Nat] BY DEF Frames
<1> DEFINE o == Occurrences(x, f.path)
           s == SumFunctionOnSet(OnTheWay(x, f.path, f.visits_to_perform), Nodes)
<1>2. o \in Nat BY <1>1, OccurrencesAtEnd, OccurrencesNat
<1>3. s \in Nat BY <1>1, OnTheWayNat
<1>4. FrameWeight(x)[f] = f.left * o + s BY FrameWeightIs
<1> HIDE DEF o, s
<1>5. f.left * o = 0 BY <1>2
<1>6. FrameWeight(x)[f] = s BY <1>3, <1>4, <1>5
<1> QED BY <1>6 DEF s

\* Backtrack: a frame without visits holds nothing.
LEMMA BacktrackInv ==
  ASSUME IInv, NEW w \in Workers, NEW i, PickAt(w, i), NEW f, f = Last(stacks[w][i].frames),
         Backtrack(w, i, f)
  PROVE  IInv'
<1> DEFINE v == f.visits_to_perform
<1>1. /\ f \in Frames /\ f.left \in Nat /\ f.path \in Paths /\ FrameInv(i, f)
      /\ Pop(w, i) \in Seq(Frames) /\ v \in [Nodes -> Nat]
      /\ n_in_flight \in [Nodes -> Nat] /\ stray \in [Nodes -> Nat]
  BY CurrentFrame, Zenon
<1>2. /\ f.step = "descend" /\ \A c \in Nodes : v[c] = 0
      /\ Proceed(w, i, Pop(w, i), <<>>) /\ n_in_flight' = n_in_flight /\ stray' = stray
      /\ PickUnchanged
  BY DEF Backtrack
<1>3. f.left = 0 BY <1>1, <1>2 DEF FrameInv
<1>4. IsFiniteSet(Nodes) BY GraphAssumption
<1>5. \A x : FrameWeight(x)[f] = 0
  <2> SUFFICES ASSUME NEW x PROVE FrameWeight(x)[f] = 0 OBVIOUS
  <2>1. \A c \in Nodes : OnTheWay(x, f.path, v)[c] = 0
    <3> SUFFICES ASSUME NEW c \in Nodes PROVE OnTheWay(x, f.path, v)[c] = 0 OBVIOUS
    <3>1. HeldOnTheWay(x, Append(f.path, c), v[c])
            = v[c] * (Occurrences(x, f.path) +
                         IF c = x /\ ~ShouldStopPickingHere(c) THEN 1 ELSE 0)
      <4>1. v[c] \in Nat BY <1>1
      <4> HIDE DEF v
      <4> QED BY <1>1, <4>1, OnTheWayIs, Zenon
    <3> DEFINE o == Occurrences(x, f.path) + IF c = x /\ ~ShouldStopPickingHere(c) THEN 1 ELSE 0
    <3>2. o \in Nat
      <4>1. Occurrences(x, f.path) \in Nat BY <1>1, OccurrencesAtEnd, OccurrencesNat, Zenon
      <4> QED BY <4>1
    <3> HIDE DEF o
    <3>3. v[c] * o = 0 BY <1>2, <3>2
    <3>4. HeldOnTheWay(x, Append(f.path, c), v[c]) = 0 BY <3>1, <3>3 DEF o
    <3> QED BY <3>4 DEF OnTheWay
  <2>2. SumFunctionOnSet(OnTheWay(x, f.path, v), Nodes) = 0 BY <1>4, <2>1, SumZero
  <2> QED BY <1>1, <1>2, <1>3, <2>2, NothingLeft, Zenon
<1> DEFINE news == <<>> items == <<>>
<1>6. \A h : Total(news, h) = 0 /\ Total(items, h) = 0 BY TotalEmpty
<1>7. news \in Seq(Frames) /\ items \in Seq(Items) /\ DOMAIN news = {} /\ DOMAIN items = {}
  OBVIOUS
<1>8. Proceed(w, i, Pop(w, i) \o news, items)
  <2>1. Pop(w, i) \o <<>> = Pop(w, i) BY <1>1, ConcatEmpty
  <2> QED BY <1>2, <2>1, Zenon
<1>9. LeftWeight[f] \in Nat BY <1>1, LeftWeightNat DEF NatWeight
<1> HIDE DEF news, items, v
<1>10. PlacesHere(w, i, f, news, items)
  <2>1. Total(news, LeftWeight) + Total(items, PlacedWeight) <= LeftWeight[f] BY <1>6, <1>9
  <2> QED BY <1>7, <2>1 DEF PlacesHere
<1>11. BalancedHere(f, news, items)
  <2> SUFFICES ASSUME NEW x \in Nodes
               PROVE  n_in_flight'[x] - stray'[x] = n_in_flight[x] - stray[x] - FrameWeight(x)[f]
                        + Total(news, FrameWeight(x)) + Total(items, ItemWeight(x))
    BY DEF BalancedHere
  <2>1. n_in_flight[x] \in Int /\ stray[x] \in Int BY <1>1
  <2> QED BY <1>2, <1>5, <1>6, <2>1
<1>12. StartsOnce(items) BY <1>6 DEF StartsOnce
<1>13. n_in_flight' \in [Nodes -> Int] /\ stray' \in [Nodes -> Nat] BY <1>1, <1>2
<1> QED BY <1>2, <1>8, <1>10, <1>11, <1>12, <1>13, ProceedInv

\* A frame that arrives at a child holds what its visits held on their way there.
LEMMA FrameIs ==
  ASSUME NEW path \in Paths, NEW c \in Nodes, NEW l \in Nat,
         NEW a, a = Frame(Append(path, c), l)
  PROVE  /\ a \in Frames
         /\ LeftWeight[a] = l
         /\ \A x : FrameWeight(x)[a] = HeldOnTheWay(x, Append(path, c), l)
         /\ \A j : l > 0 => FrameInv(j, a)
<1> DEFINE p == Append(path, c) z == [x \in Nodes |-> 0]
<1>1. p \in Paths /\ p # <<Root>> BY PathsGrow
<1>2. a = [path |-> p, step |-> "arrive", left |-> l, visits_to_perform |-> z]
  BY DEF Frame
<1> HIDE DEF p
<1>3. z \in [Nodes -> Nat] /\ \A d \in Nodes : z[d] = 0 OBVIOUS
<1> HIDE DEF z
<1>4. a \in Frames BY <1>1, <1>2, <1>3 DEF Frames, Steps
<1>5. a.path = p /\ a.step = "arrive" /\ a.left = l /\ a.visits_to_perform = z BY <1>2
<1>6. SumFunction(z) = 0
  <2>1. IsFiniteSet(Nodes) BY GraphAssumption
  <2>2. SumFunctionOnSet(z, Nodes) = 0 BY <1>3, <2>1, SumZero
  <2> QED BY <1>3, <2>2, NodesSum
<1>7. LeftWeight[a] = l BY <1>4, <1>5, <1>6 DEF LeftWeight
<1>8. \A x : FrameWeight(x)[a] = HeldOnTheWay(x, p, l)
  BY <1>1, <1>4, <1>5, Zenon DEF FrameWeight, HeldByFrame
<1>9. \A j : l > 0 => FrameInv(j, a) BY <1>1, <1>3, <1>5 DEF FrameInv
<1> QED BY <1>4, <1>7, <1>8, <1>9 DEF p

\* Descend: the child's frame takes over what its parent's held for it.
LEMMA DescendInv ==
  ASSUME IInv, NEW w \in Workers, NEW i, PickAt(w, i), NEW f, f = Last(stacks[w][i].frames),
         Descend(w, i, f)
  PROVE  IInv'
<1>1. /\ f \in Frames /\ f.left \in Nat /\ f.path \in Paths /\ FrameInv(i, f)
      /\ Pop(w, i) \in Seq(Frames) /\ f.visits_to_perform \in [Nodes -> Nat]
      /\ n_in_flight \in [Nodes -> Nat] /\ stray \in [Nodes -> Nat] /\ Last(f.path) \in Nodes
  BY CurrentFrame, Zenon
<1>2. PICK k \in DOMAIN Edges[Last(f.path)] :
        LET c == Edges[Last(f.path)][k]
        IN /\ f.visits_to_perform[c] > 0
           /\ Proceed(w, i, Append(Replace(w, i, [f EXCEPT !.visits_to_perform[c] = 0]),
                                   Frame(Append(f.path, c), f.visits_to_perform[c])), <<>>)
  BY Zenon DEF Descend
<1>3. f.step = "descend" /\ n_in_flight' = n_in_flight /\ stray' = stray /\ PickUnchanged
  BY Zenon DEF Descend
<1> DEFINE c == Edges[Last(f.path)][k] l == f.visits_to_perform[c]
           g == [f EXCEPT !.visits_to_perform[c] = 0] a == Frame(Append(f.path, c), l)
<1>4. c \in Nodes BY <1>1, GraphAssumption
<1>5. l \in Nat /\ l > 0 BY <1>1, <1>2, <1>4, Zenon
<1>6. Proceed(w, i, Append(Replace(w, i, g), a), <<>>) BY <1>2, Zenon
<1>7. f.left = 0 BY <1>1, <1>3 DEF FrameInv
<1>8. /\ a \in Frames /\ LeftWeight[a] = l
      /\ \A x : FrameWeight(x)[a] = HeldOnTheWay(x, Append(f.path, c), l)
      /\ FrameInv(i, a)
  <2> HIDE DEF c, l
  <2> QED BY <1>1, <1>4, <1>5, FrameIs
<1>9. /\ g.path = f.path /\ g.step = f.step /\ g.left = 0 /\ g \in Frames
      /\ g.visits_to_perform = [f.visits_to_perform EXCEPT ![c] = 0]
  <2> DEFINE u == [f.visits_to_perform EXCEPT ![c] = 0]
  <2>1. u \in [Nodes -> Nat] BY <1>1, <1>4, Zenon
  <2>2. g = [f EXCEPT !.visits_to_perform = u] OBVIOUS
  <2> HIDE DEF u, g, c
  <2>3. g = [path |-> f.path, step |-> f.step, left |-> f.left, visits_to_perform |-> u]
    BY <1>1, <2>2, FrameRecord
  <2>4. f.step \in Steps BY <1>1 DEF Frames
  <2>5. g \in Frames BY <1>1, <2>1, <2>3, <2>4 DEF Frames
  <2> QED BY <1>7, <2>3, <2>5 DEF u
<1>10. g.visits_to_perform[c] = 0 /\ \A d \in Nodes : d # c => g.visits_to_perform[d] = f.visits_to_perform[d]
  BY <1>1, <1>4, <1>9, Zenon
<1> HIDE DEF g, a
<1>11. FrameInv(i, g) BY <1>1, <1>3, <1>9 DEF FrameInv
<1>12. ChangedFor(f, g, c) BY <1>3, <1>9, <1>10, Zenon DEF ChangedFor
<1>13. f.visits_to_perform[c] = l OBVIOUS
<1> HIDE DEF l, c
<1>14. LeftWeight[g] = LeftWeight[f] - l /\ LeftWeight[f] \in Nat
  <2>1. /\ LeftWeight[g] = LeftWeight[f] - f.left + g.left
                             - f.visits_to_perform[c] + g.visits_to_perform[c]
        /\ LeftWeight[f] \in Nat
    BY <1>1, <1>4, <1>9, <1>12, FrameChanges
  <2> QED BY <1>5, <1>7, <1>9, <1>10, <1>13, <2>1
<1>15. \A x : FrameWeight(x)[f] = FrameWeight(x)[g] + FrameWeight(x)[a]
              /\ FrameWeight(x)[f] \in Nat /\ FrameWeight(x)[g] \in Nat /\ FrameWeight(x)[a] \in Nat
  <2> SUFFICES ASSUME NEW x
               PROVE  FrameWeight(x)[f] = FrameWeight(x)[g] + FrameWeight(x)[a]
                      /\ FrameWeight(x)[f] \in Nat /\ FrameWeight(x)[g] \in Nat /\ FrameWeight(x)[a] \in Nat
    OBVIOUS
  <2>1. FrameWeight(x)[f] \in Nat /\ FrameWeight(x)[g] \in Nat /\ FrameWeight(x)[a] \in Nat
    BY <1>1, <1>8, <1>9, FrameWeightNat DEF NatWeight
  <2> DEFINE o == Occurrences(x, f.path)
             z == HeldOnTheWay(x, Append(f.path, c), 0)
  <2>2. FrameWeight(x)[g] = FrameWeight(x)[f] - 0 * o + 0 * o - FrameWeight(x)[a] + z
    BY <1>1, <1>4, <1>7, <1>8, <1>9, <1>10, <1>12, <1>13, FrameChanges
  <2>3. o \in Nat BY <1>1, OccurrencesAtEnd, OccurrencesNat, Zenon
  <2>4. z = 0
    <3> DEFINE e == o + IF c = x /\ ~ShouldStopPickingHere(c) THEN 1 ELSE 0
    <3>1. z = 0 * e
      <4>1. \A m \in Nat : HeldOnTheWay(x, Append(f.path, c), m) = m * e
        BY <1>1, <1>4, OnTheWayIs, Zenon
      <4> HIDE DEF e
      <4> QED BY <4>1
    <3>2. e \in Nat BY <2>3
    <3> HIDE DEF e, z
    <3> QED BY <3>1, <3>2
  <2> HIDE DEF o, z
  <2>5. 0 * o = 0 BY <2>3
  <2> QED BY <2>1, <2>2, <2>4, <2>5
<1> DEFINE news == Append(<<g>>, a) items == <<>>
<1>16. \A h : Weighs(h, Frames) => news \in Seq(Frames) /\ Total(news, h) = h[g] + h[a]
  BY <1>8, <1>9, TotalOfTwo
<1>17. Proceed(w, i, Pop(w, i) \o news, items)
  <2>1. Append(Replace(w, i, g), a) = Pop(w, i) \o news
    BY <1>1, <1>8, <1>9, AppendTwo DEF Replace
  <2> QED BY <1>6, <2>1, Zenon
<1>18. \A n \in DOMAIN news : news[n] = g \/ news[n] = a BY <1>8, <1>9
<1>19. \A h : Total(items, h) = 0 BY TotalEmpty
<1>20. items \in Seq(Items) /\ DOMAIN items = {} OBVIOUS
<1> HIDE DEF news, items
<1>21. PlacesHere(w, i, f, news, items)
  <2>1. news \in Seq(Frames) /\ Total(news, LeftWeight) = LeftWeight[g] + LeftWeight[a]
    BY <1>16, LeftWeightNat, NatWeighs
  <2>2. Total(news, LeftWeight) + Total(items, PlacedWeight) <= LeftWeight[f]
    BY <1>5, <1>8, <1>14, <1>19, <2>1
  <2>3. \A n \in DOMAIN news : FrameInv(i, news[n]) BY <1>8, <1>11, <1>18
  <2> QED BY <1>20, <2>1, <2>2, <2>3 DEF PlacesHere
<1>22. BalancedHere(f, news, items)
  <2> SUFFICES ASSUME NEW x \in Nodes
               PROVE  n_in_flight'[x] - stray'[x] = n_in_flight[x] - stray[x] - FrameWeight(x)[f]
                        + Total(news, FrameWeight(x)) + Total(items, ItemWeight(x))
    BY DEF BalancedHere
  <2>1. n_in_flight[x] \in Int /\ stray[x] \in Int BY <1>1
  <2>2. Total(news, FrameWeight(x)) = FrameWeight(x)[g] + FrameWeight(x)[a]
    BY <1>16, FrameWeightNat, NatWeighs
  <2> QED BY <1>3, <1>15, <1>19, <2>1, <2>2
<1>23. StartsOnce(items) BY <1>19 DEF StartsOnce
<1>24. n_in_flight' \in [Nodes -> Int] /\ stray' \in [Nodes -> Nat] BY <1>1, <1>3
<1> QED BY <1>3, <1>17, <1>21, <1>22, <1>23, <1>24, ProceedInv

-----------------------------------------------------------------------------
(* Subtrees that are handed over. *)

\* What is taken out of a sum.
LEMMA SumSplit ==
  ASSUME NEW H, NEW G, NEW S, IsFiniteSet(S), NEW C \in SUBSET S,
         \A y \in S : H[y] \in Int,
         \A y \in C : G[y] = 0, \A y \in S \ C : G[y] = H[y]
  PROVE  SumFunctionOnSet(H, S) = SumFunctionOnSet(G, S) + SumFunctionOnSet(H, C)
<1> DEFINE R == S \ C
<1>1. IsFiniteSet(C) /\ IsFiniteSet(R) BY FS_Subset
<1>2. C \cup R = S /\ C \cap R = {} OBVIOUS
<1>3. \A y \in S : G[y] \in Int OBVIOUS
<1>4. \A y \in R : H[y] \in Int /\ G[y] = H[y] OBVIOUS
<1> HIDE DEF R
<1>5. SumFunctionOnSet(H, C \cup R) = SumFunctionOnSet(H, C) + SumFunctionOnSet(H, R)
  BY <1>1, <1>2, SumUnion
<1>6. SumFunctionOnSet(G, C \cup R) = SumFunctionOnSet(G, C) + SumFunctionOnSet(G, R)
  BY <1>1, <1>2, <1>3, SumUnion
<1>7. SumFunctionOnSet(G, C) = 0 BY <1>1, SumZero
<1>8. SumFunctionOnSet(G, R) = SumFunctionOnSet(H, R) BY <1>1, <1>4, SumSame
<1>9. SumFunctionOnSet(H, C) \in Int BY <1>1, SumType
<1>10. SumFunctionOnSet(H, R) \in Int BY <1>1, <1>4, SumType
<1>11. SumFunctionOnSet(H, S) = SumFunctionOnSet(H, C) + SumFunctionOnSet(H, R)
  BY <1>2, <1>5, Zenon
<1>12. SumFunctionOnSet(G, S) = SumFunctionOnSet(G, C) + SumFunctionOnSet(G, R)
  BY <1>2, <1>6, Zenon
<1> QED BY <1>7, <1>8, <1>9, <1>10, <1>11, <1>12

ChildrenAt(x, D) == {Edges[x][k] : k \in D}

\* The children at the indices in D, each once.
LEMMA PassedIs ==
  ASSUME NEW x \in Nodes, NEW D \in SUBSET DOMAIN Edges[x],
         NEW passed, passed = Subsequence(Edges[x], D),
         NEW C, C = ChildrenAt(x, D)
  PROVE  /\ passed \in Seq(Nodes) /\ C \subseteq Nodes
         /\ \E b \in Bijection(DOMAIN passed, C) : \A k \in DOMAIN passed : passed[k] = b[k]
<1> DEFINE s == Edges[x]
<1>1. s \in Seq(Nodes) /\ \A j, k \in DOMAIN s : s[j] = s[k] => j = k
  BY GraphAssumption DEF IsInjective
<1>2. passed = Subsequence(s, D) /\ C = {s[k] : k \in D} /\ D \in SUBSET DOMAIN s
  BY DEF ChildrenAt
<1> HIDE DEF s
<1>3. passed \in Seq(Nodes) BY <1>1, <1>2, SubsequenceIs
<1>4. PICK e \in Bijection(DOMAIN passed, D) : \A k \in DOMAIN passed : passed[k] = s[e[k]]
  BY <1>1, <1>2, SubsequenceIs
<1> DEFINE b == [k \in DOMAIN passed |-> s[e[k]]]
<1>5. e \in [DOMAIN passed -> D] /\ (\A j, k \in DOMAIN passed : e[j] = e[k] => j = k)
      /\ \A y \in D : \E k \in DOMAIN passed : e[k] = y
  BY DEF Bijection, Injection, Surjection, IsInjective
<1>6. b \in [DOMAIN passed -> C] BY <1>2, <1>5
<1>7. ASSUME NEW j \in DOMAIN b, NEW k \in DOMAIN b, b[j] = b[k] PROVE j = k
  <2>1. e[j] \in DOMAIN s /\ e[k] \in DOMAIN s /\ s[e[j]] = s[e[k]] BY <1>2, <1>5, <1>7
  <2>2. e[j] = e[k] BY <1>1, <2>1
  <2> QED BY <1>5, <2>2
<1>8. ASSUME NEW y \in C PROVE \E k \in DOMAIN passed : b[k] = y
  <2>1. PICK n \in D : y = s[n] BY <1>2, Zenon
  <2>2. PICK k \in DOMAIN passed : e[k] = n BY <1>5
  <2>3. b[k] = y BY <2>1, <2>2
  <2> QED BY <2>3
<1>9. \A k \in DOMAIN passed : passed[k] = b[k] BY <1>4
<1> HIDE DEF b
<1>10. b \in Bijection(DOMAIN passed, C)
  BY <1>6, <1>7, <1>8 DEF Bijection, Injection, Surjection, IsInjective
<1>11. C \subseteq Nodes
  <2> SUFFICES ASSUME NEW y \in C PROVE y \in Nodes OBVIOUS
  <2>1. PICK n \in D : y = s[n] BY <1>2, Zenon
  <2> QED BY <1>1, <1>2, <2>1
<1> QED BY <1>3, <1>9, <1>10, <1>11

PassedOf(x, D) ==
  /\ Subsequence(Edges[x], D) \in Seq(Nodes) /\ ChildrenAt(x, D) \subseteq Nodes
  /\ \E b \in Bijection(DOMAIN Subsequence(Edges[x], D), ChildrenAt(x, D)) :
       \A k \in DOMAIN Subsequence(Edges[x], D) : Subsequence(Edges[x], D)[k] = b[k]

\* The same, as a fact about D alone.
LEMMA PassedOfIs ==
  ASSUME NEW x \in Nodes, NEW D \in SUBSET DOMAIN Edges[x] PROVE PassedOf(x, D)
BY PassedIs, Zenon DEF PassedOf

\* The tasks that take over the children in C.
IsHandOver(path, v, passed, C, tasks) ==
  /\ path \in Paths /\ v \in [Nodes -> Nat] /\ passed \in Seq(Nodes) /\ C \subseteq Nodes
  /\ \A c \in C : v[c] > 0
  /\ \E b \in Bijection(DOMAIN passed, C) : \A k \in DOMAIN passed : passed[k] = b[k]
  /\ tasks = [k \in DOMAIN passed |-> Task(Append(path, passed[k]), v[passed[k]])]

\* The children handed over have visits to perform.
LEMMA PassedInC ==
  ASSUME NEW path, NEW v, NEW passed, NEW C, NEW tasks, IsHandOver(path, v, passed, C, tasks)
  PROVE  \A k \in DOMAIN passed : passed[k] \in C /\ passed[k] \in Nodes /\ v[passed[k]] \in Nat \ {0}
<1>1. PICK b \in Bijection(DOMAIN passed, C) : \A k \in DOMAIN passed : passed[k] = b[k]
  BY DEF IsHandOver
<1>2. b \in [DOMAIN passed -> C] BY DEF Bijection, Injection
<1>3. \A k \in DOMAIN passed : passed[k] \in C BY <1>1, <1>2
<1>4. C \subseteq Nodes /\ v \in [Nodes -> Nat] /\ \A c \in C : v[c] > 0 BY DEF IsHandOver
<1> QED BY <1>3, <1>4

\* A task that is handed over: its one frame arrives at the child.
LEMMA TaskIs ==
  ASSUME NEW path \in Paths, NEW c \in Nodes, NEW l \in Nat \ {0},
         NEW t, t = Task(Append(path, c), l)
  PROVE  /\ t \in Tasks /\ t.receiver = <<>>
         /\ \A k \in DOMAIN t.frames : FrameInv(0, t.frames[k])
         /\ \A h, g : Weighs(h, Items) /\ Weighs(g, Frames) =>
              TaskWeight(h, g)[t] = g[Frame(Append(path, c), l)]
<1> DEFINE a == Frame(Append(path, c), l)
<1>1. a \in Frames /\ FrameInv(0, a) BY FrameIs
<1>2. t = [collision_limit |-> l, frames |-> <<a>>, receiver |-> <<>>] BY DEF Task
<1> HIDE DEF a
<1>3. <<a>> \in Seq(Frames) /\ \A k \in DOMAIN <<a>> : <<a>>[k] = a BY <1>1
<1>4. t.frames = <<a>> /\ t.receiver = <<>> BY <1>2
<1>5. <<>> \in Seq(Items) OBVIOUS
<1>6. t \in Tasks BY <1>2, <1>3, <1>5 DEF Tasks
<1>7. \A k \in DOMAIN t.frames : FrameInv(0, t.frames[k]) BY <1>1, <1>3, <1>4
<1>8. ASSUME NEW h, NEW g, Weighs(h, Items), Weighs(g, Frames) PROVE TaskWeight(h, g)[t] = g[a]
  <2>1. TaskWeight(h, g)[t] = Total(<<>>, h) + Total(<<a>>, g) BY <1>4, <1>6 DEF TaskWeight
  <2>2. Total(<<>>, h) = 0 BY TotalEmpty
  <2>3. Total(<<a>>, g) = g[a] BY <1>1, <1>8, TotalOfOne
  <2>4. g[a] \in Int BY <1>1, <1>8 DEF Weighs
  <2> QED BY <2>1, <2>2, <2>3, <2>4
<1> QED BY <1>4, <1>6, <1>7, <1>8 DEF a

\* All of them.
LEMMA HandOverIs ==
  ASSUME NEW path, NEW v, NEW passed, NEW C, NEW tasks, IsHandOver(path, v, passed, C, tasks)
  PROVE  /\ tasks \in Seq(Tasks)
         /\ \A j \in DOMAIN tasks : tasks[j].receiver = <<>>
              /\ \A k \in DOMAIN tasks[j].frames : FrameInv(0, tasks[j].frames[k])
<1>1. path \in Paths /\ passed \in Seq(Nodes)
      /\ tasks = [k \in DOMAIN passed |-> Task(Append(path, passed[k]), v[passed[k]])]
  BY DEF IsHandOver
<1>2. ASSUME NEW k \in DOMAIN passed
      PROVE  /\ tasks[k] \in Tasks /\ tasks[k].receiver = <<>>
             /\ \A n \in DOMAIN tasks[k].frames : FrameInv(0, tasks[k].frames[n])
  <2>1. tasks[k] = Task(Append(path, passed[k]), v[passed[k]]) BY <1>1
  <2>2. passed[k] \in Nodes /\ v[passed[k]] \in Nat \ {0} BY PassedInC
  <2> QED BY <1>1, <2>1, <2>2, TaskIs
<1>3. DOMAIN tasks = DOMAIN passed BY <1>1
<1>4. tasks \in Seq(Tasks)
  <2>1. DOMAIN passed = 1..Len(passed) /\ Len(passed) \in Nat BY <1>1
  <2>2. tasks = [k \in 1..Len(passed) |-> Task(Append(path, passed[k]), v[passed[k]])]
    BY <1>1, <2>1
  <2>3. tasks \in [1..Len(passed) -> Tasks] BY <1>2, <2>1, <2>2
  <2> QED BY <2>1, <2>3
<1> QED BY <1>2, <1>3, <1>4

\* What they weigh is what the parent's frame held for their children.
LEMMA HandOverTotal ==
  ASSUME NEW path, NEW v, NEW passed, NEW C, NEW tasks, IsHandOver(path, v, passed, C, tasks),
         NEW h, NEW g, Weighs(h, Items), Weighs(g, Frames),
         NEW F, \A c \in C : g[Frame(Append(path, c), v[c])] = F[c] /\ F[c] \in Int
  PROVE  Total(tasks, TaskWeight(h, g)) = SumFunctionOnSet(F, C)
<1>1. path \in Paths /\ passed \in Seq(Nodes) /\ C \subseteq Nodes
      /\ tasks = [k \in DOMAIN passed |-> Task(Append(path, passed[k]), v[passed[k]])]
  BY DEF IsHandOver
<1>2. PICK b \in Bijection(DOMAIN passed, C) : \A k \in DOMAIN passed : passed[k] = b[k]
  BY DEF IsHandOver
<1>3. tasks \in Seq(Tasks) /\ DOMAIN tasks = DOMAIN passed BY <1>1, HandOverIs
<1> DEFINE G == [k \in DOMAIN tasks |-> TaskWeight(h, g)[tasks[k]]]
<1>4. Weighs(TaskWeight(h, g), Tasks) BY TaskWeighs
<1>5. Total(tasks, TaskWeight(h, g)) = SumFunctionOnSet(G, DOMAIN tasks) /\ IsFiniteSet(DOMAIN tasks)
  BY <1>3, <1>4, TotalIs, Zenon
<1>6. ASSUME NEW k \in DOMAIN passed PROVE G[k] = F[b[k]]
  <2>1. tasks[k] = Task(Append(path, passed[k]), v[passed[k]]) BY <1>1
  <2>2. passed[k] \in C /\ passed[k] \in Nodes /\ v[passed[k]] \in Nat \ {0} BY PassedInC
  <2>3. TaskWeight(h, g)[tasks[k]] = g[Frame(Append(path, passed[k]), v[passed[k]])]
    BY <1>1, <2>1, <2>2, TaskIs
  <2>4. G[k] = F[passed[k]] BY <1>3, <2>2, <2>3
  <2> QED BY <1>2, <2>4
<1>7. IsFiniteSet(C) BY <1>1, GraphAssumption, FS_Subset
<1> HIDE DEF G
<1>8. SumFunctionOnSet(G, DOMAIN passed) = SumFunctionOnSet(F, C)
  BY <1>3, <1>5, <1>6, <1>7, SumMoved
<1> QED BY <1>3, <1>5, <1>8

\* SplitTasks moves the tasks as MovedTasks does.
LEMMA SplitIs ==
  ASSUME IInv, NEW w \in Workers, NEW i, PickAt(w, i), NEW g \in Frames, NEW tasks
  PROVE  [stacks[w] EXCEPT ![i].frames = Replace(w, i, g)] \o tasks
           = MovedTasks(stacks[w], i, <<g>>, <<>>, tasks)
<1> DEFINE ts == stacks[w] t == ts[i] r == Replace(w, i, g)
<1>1. ts \in Seq(Tasks) /\ t \in Tasks /\ Pop(w, i) \in Seq(Frames) BY CurrentFrame
<1>2. r = Pop(w, i) \o <<g>> BY <1>1, AppendIs DEF Replace
<1>3. t.receiver \o <<>> = t.receiver BY <1>1, ConcatEmpty DEF Tasks
<1>4. t = [collision_limit |-> t.collision_limit, frames |-> t.frames, receiver |-> t.receiver]
  BY <1>1 DEF Tasks
<1>5. [t EXCEPT !.frames = r]
        = [collision_limit |-> t.collision_limit, frames |-> r, receiver |-> t.receiver]
  <2> HIDE DEF t, r
  <2> QED BY <1>4
<1>6. [t EXCEPT !.frames = r] = Moved(t, <<g>>, <<>>)
  BY <1>2, <1>3, <1>5, Zenon DEF Moved, Pop
<1>7. [ts EXCEPT ![i].frames = r] = [ts EXCEPT ![i] = [t EXCEPT !.frames = r]] OBVIOUS
<1>8. [ts EXCEPT ![i].frames = r] = [ts EXCEPT ![i] = Moved(t, <<g>>, <<>>)]
  BY <1>6, <1>7, Zenon
<1> QED BY <1>8, Zenon DEF MovedTasks

\* SplitTasks: the tasks take over what the frame held for their children.
LEMMA SplitTasksInv ==
  ASSUME IInv, NEW w \in Workers, NEW i, PickAt(w, i), NEW f, f = Last(stacks[w][i].frames),
         SplitTasks(w, i, f)
  PROVE  IInv'
<1> DEFINE v == f.visits_to_perform children == Edges[Last(f.path)]
           MayPass(c) == v[c] > 0 /\ ~ShouldStopPickingHere(c)
           Rest(D) == [c \in Nodes |-> IF \E k \in D : children[k] = c THEN 0 ELSE v[c]]
           Passed(D) == Subsequence(children, D)
           Handed(D) == [k \in DOMAIN Passed(D) |->
                           Task(Append(f.path, Passed(D)[k]), v[Passed(D)[k]])]
           After(D) == [f EXCEPT !.step = "descend", !.visits_to_perform = Rest(D)]
<1>1. /\ f \in Frames /\ f.left \in Nat /\ f.path \in Paths /\ FrameInv(i, f)
      /\ v \in [Nodes -> Nat] /\ Last(f.path) \in Nodes
      /\ n_in_flight \in [Nodes -> Nat] /\ stray \in [Nodes -> Nat]
  BY CurrentFrame
<1>2. f.step = "share" /\ f.left = 0 /\ n_in_flight' = n_in_flight /\ stray' = stray
      /\ PickUnchanged
  BY Zenon DEF SplitTasks
<1>3. PICK D \in SUBSET {k \in DOMAIN children : MayPass(children[k])} :
        stacks' = [stacks EXCEPT ![w] =
          [stacks[w] EXCEPT ![i].frames = Replace(w, i, After(D))] \o Handed(D)]
  BY Zenon DEF SplitTasks
<1> DEFINE C == {children[k] : k \in D} g == After(D) u == Rest(D)
           passed == Passed(D) tasks == Handed(D)
<1>4. D \in SUBSET DOMAIN children /\ \A k \in D : v[children[k]] > 0 OBVIOUS
<1>5. /\ passed \in Seq(Nodes) /\ C \subseteq Nodes
      /\ \E b \in Bijection(DOMAIN passed, C) : \A k \in DOMAIN passed : passed[k] = b[k]
  <2> DEFINE x == Last(f.path)
  <2>1. passed = Subsequence(Edges[x], D) /\ C = ChildrenAt(x, D) BY Zenon DEF ChildrenAt
  <2>2. x \in Nodes /\ D \in SUBSET DOMAIN Edges[x] BY <1>1, <1>4, Zenon
  <2> HIDE DEF v, passed, C, children, x
  <2>3. \A K \in SUBSET DOMAIN Edges[x] : PassedOf(x, K) BY <2>2, PassedOfIs
  <2>4. PassedOf(x, D) BY <2>2, <2>3
  <2> QED BY <2>1, <2>4, Zenon DEF PassedOf
<1>6. \A c \in C : v[c] > 0 BY <1>4
<1>7. /\ u \in [Nodes -> Nat]
      /\ \A c \in C : u[c] = 0
      /\ \A c \in Nodes \ C : u[c] = v[c]
  BY <1>1, <1>5, Zenon
<1>8. IsHandOver(f.path, v, passed, C, tasks)
  <2>1. tasks = [k \in DOMAIN passed |-> Task(Append(f.path, passed[k]), v[passed[k]])]
    BY Zenon
  <2> HIDE DEF v, C, passed, tasks
  <2> QED BY <1>1, <1>5, <1>6, <2>1 DEF IsHandOver
<1>9. g = [path |-> f.path, step |-> "descend", left |-> f.left, visits_to_perform |-> u]
  <2> HIDE DEF u
  <2>1. f = [path |-> f.path, step |-> f.step, left |-> f.left, visits_to_perform |-> f.visits_to_perform]
    BY <1>1, FrameRecord
  <2>2. g = [[f EXCEPT !.step = "descend"] EXCEPT !.visits_to_perform = u] BY Zenon DEF u
  <2> DEFINE p == f.path e == f.step m == f.left d == f.visits_to_perform
             r == [path |-> p, step |-> "descend", left |-> m, visits_to_perform |-> d]
  <2>6. f = [path |-> p, step |-> e, left |-> m, visits_to_perform |-> d] BY <2>1, Zenon
  <2> HIDE DEF p, e, m, d, g
  <2>3. [f EXCEPT !.step = "descend"] = r BY <2>6
  <2>4. g = [r EXCEPT !.visits_to_perform = u] BY <2>2, <2>3, Zenon
  <2>5. [r EXCEPT !.visits_to_perform = u]
          = [path |-> p, step |-> "descend", left |-> m, visits_to_perform |-> u]
    OBVIOUS
  <2> QED BY <2>4, <2>5, Zenon DEF p, m
<1>10. stacks' = [stacks EXCEPT ![w] =
          [stacks[w] EXCEPT ![i].frames = Replace(w, i, g)] \o tasks]
  BY <1>3, Zenon
<1> HIDE DEF C, g, u, v, passed, tasks
<1>11. /\ g \in Frames /\ g.path = f.path /\ g.step = "descend" /\ g.left = 0
       /\ g.visits_to_perform = u
  BY <1>1, <1>2, <1>7, <1>9 DEF Frames, Steps
<1>12. FrameInv(i, g) BY <1>1, <1>11 DEF FrameInv
<1>13. stacks' = [stacks EXCEPT ![w] = MovedTasks(stacks[w], i, <<g>>, <<>>, tasks)]
  <2>1. [stacks[w] EXCEPT ![i].frames = Replace(w, i, g)] \o tasks
           = MovedTasks(stacks[w], i, <<g>>, <<>>, tasks)
    BY <1>11, SplitIs, Zenon
  <2> QED BY <1>10, <2>1, Zenon
<1>14. IsFiniteSet(Nodes) BY GraphAssumption
<1>15. LeftWeight[f] = LeftWeight[g] + SumFunctionOnSet(v, C) /\ LeftWeight[f] \in Nat
       /\ LeftWeight[g] \in Nat /\ SumFunctionOnSet(v, C) \in Nat
  <2>1. LeftWeight[f] = 0 + SumFunctionOnSet(v, Nodes) /\ LeftWeight[g] = 0 + SumFunctionOnSet(u, Nodes)
    BY <1>1, <1>2, <1>7, <1>11, NodesSum, Zenon DEF LeftWeight, v
  <2>2. SumFunctionOnSet(v, Nodes) = SumFunctionOnSet(u, Nodes) + SumFunctionOnSet(v, C)
    <3>1. \A y \in Nodes : v[y] \in Int BY <1>1
    <3>2. C \in SUBSET Nodes /\ (\A y \in C : u[y] = 0) /\ \A y \in Nodes \ C : u[y] = v[y]
      BY <1>5, <1>7
    <3> QED BY <1>14, <3>1, <3>2, SumSplit
  <2>3. SumFunctionOnSet(v, C) \in Nat
    <3>1. IsFiniteSet(C) BY <1>5, <1>14, FS_Subset
    <3> QED BY <1>1, <1>5, <3>1, SumNat
  <2>4. SumFunctionOnSet(u, Nodes) \in Nat BY <1>7, <1>14, SumNat
  <2> QED BY <2>1, <2>2, <2>3, <2>4
<1>16. \A h, e, F : /\ Weighs(h, Items) /\ Weighs(e, Frames)
                    /\ \A c \in C : e[Frame(Append(f.path, c), v[c])] = F[c] /\ F[c] \in Int
                    => Total(tasks, TaskWeight(h, e)) = SumFunctionOnSet(F, C)
  BY <1>8, HandOverTotal
<1>17. \A c \in C : Frame(Append(f.path, c), v[c]) \in Frames
         /\ LeftWeight[Frame(Append(f.path, c), v[c])] = v[c] /\ v[c] \in Int
         /\ \A x : FrameWeight(x)[Frame(Append(f.path, c), v[c])] = OnTheWay(x, f.path, v)[c]
  <2> SUFFICES ASSUME NEW c \in C
               PROVE  LET a == Frame(Append(f.path, c), v[c])
                      IN a \in Frames /\ LeftWeight[a] = v[c] /\ v[c] \in Int
                         /\ \A x : FrameWeight(x)[a] = OnTheWay(x, f.path, v)[c]
    OBVIOUS
  <2>1. c \in Nodes /\ v[c] \in Nat BY <1>1, <1>5
  <2> DEFINE a == Frame(Append(f.path, c), v[c])
  <2>2. a \in Frames /\ LeftWeight[a] = v[c]
        /\ \A x : FrameWeight(x)[a] = HeldOnTheWay(x, Append(f.path, c), v[c])
    BY <1>1, <2>1, FrameIs
  <2> HIDE DEF a
  <2>3. \A x : FrameWeight(x)[a] = OnTheWay(x, f.path, v)[c] BY <2>1, <2>2 DEF OnTheWay
  <2> QED BY <2>1, <2>2, <2>3 DEF a
<1>18. Total(tasks, TaskWeight(PlacedWeight, LeftWeight)) = SumFunctionOnSet(v, C)
  <2>1. Weighs(PlacedWeight, Items) /\ Weighs(LeftWeight, Frames)
    BY PlacedWeightNat, LeftWeightNat, NatWeighs
  <2> QED BY <1>8, <1>17, <2>1, HandOverTotal
<1>19. \A x \in Nodes :
         /\ FrameWeight(x)[f] = FrameWeight(x)[g]
                + Total(tasks, TaskWeight(ItemWeight(x), FrameWeight(x)))
         /\ FrameWeight(x)[g] \in Nat
         /\ Total(tasks, TaskWeight(ItemWeight(x), FrameWeight(x))) \in Int
  <2> SUFFICES ASSUME NEW x
               PROVE  /\ FrameWeight(x)[f] = FrameWeight(x)[g]
                            + Total(tasks, TaskWeight(ItemWeight(x), FrameWeight(x)))
                      /\ FrameWeight(x)[g] \in Nat
                      /\ Total(tasks, TaskWeight(ItemWeight(x), FrameWeight(x))) \in Int
    OBVIOUS
  <2> DEFINE H == OnTheWay(x, f.path, v) G == OnTheWay(x, f.path, u)
  <2>1. FrameWeight(x)[f] = SumFunctionOnSet(H, Nodes)
    BY <1>1, <1>2, NothingLeft DEF v
  <2>2. FrameWeight(x)[g] = SumFunctionOnSet(G, Nodes) /\ FrameWeight(x)[g] \in Nat
    <3>1. g.step # "arrive" BY <1>11
    <3>2. FrameWeight(x)[g] = SumFunctionOnSet(OnTheWay(x, g.path, g.visits_to_perform), Nodes)
      BY <1>11, <3>1, NothingLeft
    <3> QED BY <1>11, <3>2, FrameWeightNat DEF NatWeight
  <2>3. \A c \in Nodes : H[c] \in Nat BY <1>1, OnTheWayNat
  <2>4. \A c \in C : G[c] = 0
    <3> SUFFICES ASSUME NEW c \in C PROVE G[c] = 0 OBVIOUS
    <3>1. c \in Nodes /\ u[c] = 0 BY <1>5, <1>7
    <3>2. G[c] = HeldOnTheWay(x, Append(f.path, c), 0) BY <3>1 DEF OnTheWay
    <3> DEFINE o == Occurrences(x, f.path)
               e == o + IF c = x /\ ~ShouldStopPickingHere(c) THEN 1 ELSE 0
               z == HeldOnTheWay(x, Append(f.path, c), 0)
    <3>3. o \in Nat BY <1>1, OccurrencesAtEnd, OccurrencesNat, Zenon
    <3>4. e \in Nat
      <4> HIDE DEF o
      <4> QED BY <3>3
    <3>5. \A m \in Nat : HeldOnTheWay(x, Append(f.path, c), m) = m * e
      BY <1>1, <3>1, OnTheWayIs
    <3> HIDE DEF e
    <3>6. z = 0 * e BY <3>5
    <3> HIDE DEF z
    <3>7. z = 0 BY <3>4, <3>6
    <3> QED BY <3>2, <3>7 DEF z
  <2>5. \A c \in Nodes \ C : G[c] = H[c] BY <1>7 DEF OnTheWay
  <2>6. \A c \in C : FrameWeight(x)[Frame(Append(f.path, c), v[c])] = H[c] BY <1>17
  <2> HIDE DEF G, H
  <2>7. SumFunctionOnSet(H, Nodes) = SumFunctionOnSet(G, Nodes) + SumFunctionOnSet(H, C)
    BY <1>5, <1>14, <2>3, <2>4, <2>5, SumSplit
  <2>8. Total(tasks, TaskWeight(ItemWeight(x), FrameWeight(x))) = SumFunctionOnSet(H, C)
    <3>1. Weighs(ItemWeight(x), Items) /\ Weighs(FrameWeight(x), Frames)
      BY ItemWeightNat, FrameWeightNat, NatWeighs
    <3>2. \A c \in C : H[c] \in Int BY <1>5, <2>3
    <3> QED BY <1>8, <2>6, <3>1, <3>2, HandOverTotal
  <2>9. SumFunctionOnSet(H, C) \in Int
    <3>1. IsFiniteSet(C) BY <1>5, <1>14, FS_Subset
    <3>2. \A c \in C : H[c] \in Int BY <1>5, <2>3
    <3> QED BY <3>1, <3>2, SumType
  <2> QED BY <2>1, <2>2, <2>7, <2>8, <2>9
<1> DEFINE news == <<g>> items == <<>>
<1>20. \A h : Weighs(h, Frames) => news \in Seq(Frames) /\ Total(news, h) = h[g]
  BY <1>11, TotalOfOne
<1>21. \A h : Total(items, h) = 0 BY TotalEmpty
<1>22. items \in Seq(Items) /\ DOMAIN items = {} OBVIOUS
<1>23. \A k \in DOMAIN news : news[k] = g OBVIOUS
<1>24. stacks' = [stacks EXCEPT ![w] = MovedTasks(stacks[w], i, news, items, tasks)] BY <1>13, Zenon
<1>25. tasks \in Seq(Tasks)
       /\ \A j \in DOMAIN tasks : tasks[j].receiver = <<>>
            /\ \A k \in DOMAIN tasks[j].frames : FrameInv(0, tasks[j].frames[k])
  BY <1>8, HandOverIs
<1> HIDE DEF news, items
<1>26. Places(w, i, f, news, items, tasks)
  <2>1. news \in Seq(Frames) /\ Total(news, LeftWeight) = LeftWeight[g]
    BY <1>20, LeftWeightNat, NatWeighs
  <2>2. Total(news, LeftWeight) + Total(items, PlacedWeight)
          + Total(tasks, TaskWeight(PlacedWeight, LeftWeight)) <= LeftWeight[f]
    BY <1>15, <1>18, <1>21, <2>1
  <2> QED BY <1>12, <1>22, <1>23, <1>25, <2>1, <2>2 DEF Places
<1>27. Balanced(f, news, items, tasks)
  <2> SUFFICES ASSUME NEW x \in Nodes
               PROVE  n_in_flight'[x] - stray'[x] = n_in_flight[x] - stray[x] - FrameWeight(x)[f]
                        + Total(news, FrameWeight(x)) + Total(items, ItemWeight(x))
                        + Total(tasks, TaskWeight(ItemWeight(x), FrameWeight(x)))
    BY DEF Balanced
  <2>1. n_in_flight[x] \in Int /\ stray[x] \in Int BY <1>1
  <2>2. Total(news, FrameWeight(x)) = FrameWeight(x)[g] BY <1>20, FrameWeightNat, NatWeighs
  <2> QED BY <1>2, <1>19, <1>21, <2>1, <2>2
<1>28. StartsOnce(items) BY <1>21 DEF StartsOnce
<1>29. n_in_flight' \in [Nodes -> Int] /\ stray' \in [Nodes -> Nat] BY <1>1, <1>2
<1> QED BY <1>2, <1>24, <1>26, <1>27, <1>28, <1>29, PickStepInv, Zenon DEF PickAt

\* Every step of a pick keeps the invariant.
LEMMA PickStepKeeps ==
  ASSUME IInv, NEW w \in Workers, PickStep(w)
  PROVE  IInv'
<1>1. PICK i \in DOMAIN stacks[w] :
        /\ stacks[w][i].frames # <<>>
        /\ LET f == Last(stacks[w][i].frames)
           IN \/ StopAtRoot(w, i, f) \/ StopBelowRoot(w, i, f) \/ StartSharing(w, i, f)
              \/ ShareWithVisit(w, i, f) \/ ShareBelow(w, i, f) \/ ShareWithBusy(w, i, f)
              \/ DropVisits(w, i, f) \/ SplitTasks(w, i, f)
              \/ Descend(w, i, f) \/ Backtrack(w, i, f)
  BY DEF PickStep
<1> DEFINE f == Last(stacks[w][i].frames)
<1>2. PickAt(w, i) BY <1>1 DEF PickStep, PickAt
<1>3. CASE StopAtRoot(w, i, f) BY <1>2, <1>3, StopAtRootInv
<1>4. CASE StopBelowRoot(w, i, f) BY <1>2, <1>4, StopBelowRootInv
<1>5. CASE StartSharing(w, i, f) BY <1>2, <1>5, StartSharingInv
<1>6. CASE ShareWithVisit(w, i, f) BY <1>2, <1>6, ShareWithVisitInv
<1>7. CASE ShareBelow(w, i, f) BY <1>2, <1>7, ShareBelowInv
<1>8. CASE ShareWithBusy(w, i, f) BY <1>2, <1>8, ShareWithBusyInv
<1>9. CASE DropVisits(w, i, f) BY <1>2, <1>9, DropVisitsInv
<1>10. CASE SplitTasks(w, i, f) BY <1>2, <1>10, SplitTasksInv
<1>11. CASE Descend(w, i, f) BY <1>2, <1>11, DescendInv
<1>12. CASE Backtrack(w, i, f) BY <1>2, <1>12, BacktrackInv
<1> QED BY <1>1, <1>3, <1>4, <1>5, <1>6, <1>7, <1>8, <1>9, <1>10, <1>11, <1>12

-----------------------------------------------------------------------------
(* A step of one worker that is none of a pick's *)

OthersUnchanged(w) ==
  \A v \in Workers \ {w} :
    /\ phase'[v] = phase[v] /\ stacks'[v] = stacks[v] /\ minibatch'[v] = minibatch[v]
    /\ new_start'[v] = new_start[v] /\ collisions_left'[v] = collisions_left[v]

Unobserved(w) ==
  \/ visited' = visited /\ halting' = halting
  \/ \A v \in Workers \ {w} : stacks[v] = <<>>

WorkerInv(w) ==
  /\ phase[w] = "pick" <=> stacks[w] # <<>>
  /\ \A i \in DOMAIN stacks[w] : \A k \in DOMAIN stacks[w][i].frames :
       FrameInv(i, stacks[w][i].frames[k])
  /\ LimitInv(w) /\ FreshInv(w) /\ collisions_left[w] \in 0..CollisionsLeft
  /\ phase[w] = "pick" => Placed(w) <= stacks[w][1].collision_limit

AccountMoves(w) ==
  \A x \in Nodes :
    n_in_flight'[x] - stray'[x] = n_in_flight[x] - stray[x]
      - Total(shared_collisions, ItemWeight(x)) + Total(shared_collisions', ItemWeight(x))
      - HeldBy(x, minibatch[w], phase[w], stacks[w])
      + HeldBy(x, minibatch[w], phase[w], stacks[w])'

ExtendingFalls(w) ==
  \A x \in Nodes \ visited' :
    ExtendedBy(x, minibatch'[w], stacks'[w]) <= ExtendedBy(x, minibatch[w], stacks[w])

\* A worker without tasks holds what its minibatch holds.
LEMMA HeldByNoTasks ==
  ASSUME NEW x, NEW items \in Seq(Items), NEW l
  PROVE  HeldBy(x, items, l, <<>>)
           = Total(items, IF l = "compute" THEN ComputingWeight(x) ELSE ItemWeight(x))
<1> DEFINE h == IF l = "compute" THEN ComputingWeight(x) ELSE ItemWeight(x)
<1>1. Total(<<>>, TaskWeight(ItemWeight(x), FrameWeight(x))) = 0 BY TotalEmpty
<1>2. NatWeight(h, Items) BY ItemWeightNat
<1>3. HeldBy(x, items, l, <<>>) = Total(items, h) + Total(<<>>, TaskWeight(ItemWeight(x), FrameWeight(x)))
  BY Zenon DEF HeldBy
<1> HIDE DEF h
<1>4. Total(items, h) \in Nat BY <1>2, TotalNat DEF NatWeight
<1> QED BY <1>1, <1>3, <1>4 DEF h

\* The same of the next state, whose FrameWeight is another.
NoTasksHeld ==
  \A x : \A v \in Workers : stacks[v] = <<>> =>
    HeldBy(x, minibatch[v], phase[v], stacks[v])
      = Total(minibatch[v], IF phase[v] = "compute" THEN ComputingWeight(x) ELSE ItemWeight(x))

\* In every well-typed state.
LEMMA NoTasksHeldNow == Types => NoTasksHeld
<1> SUFFICES ASSUME Types, NEW x, NEW v \in Workers, stacks[v] = <<>>
             PROVE  HeldBy(x, minibatch[v], phase[v], stacks[v])
                      = Total(minibatch[v], IF phase[v] = "compute"
                                            THEN ComputingWeight(x) ELSE ItemWeight(x))
  BY DEF NoTasksHeld
<1>1. minibatch[v] \in Seq(Items) BY DEF Types
<1>2. HeldBy(x, minibatch[v], phase[v], <<>>)
        = Total(minibatch[v], IF phase[v] = "compute" THEN ComputingWeight(x) ELSE ItemWeight(x))
  BY <1>1, HeldByNoTasks, Zenon
<1> QED BY <1>2, Zenon

\* And in the next one.
LEMMA NoTasksHeldNext == Types' => NoTasksHeld'
BY NoTasksHeldNow, PTL

\* Other workers hold what they held, unless the step changes where their picks stop.
LEMMA OthersHeld ==
  ASSUME Types, Types', NEW w \in Workers, OthersUnchanged(w), Unobserved(w), NEW x,
         NEW v \in Workers \ {w}
  PROVE  HeldBy(x, minibatch[v], phase[v], stacks[v])' = HeldBy(x, minibatch[v], phase[v], stacks[v])
<1>1. phase'[v] = phase[v] /\ stacks'[v] = stacks[v] /\ minibatch'[v] = minibatch[v]
  BY DEF OthersUnchanged
<1>2. CASE visited' = visited /\ halting' = halting
  <2>1. FrameWeight(x)' = FrameWeight(x) BY <1>2, FrameWeightKept
  <2> QED BY <1>1, <2>1 DEF HeldBy
<1>3. CASE stacks[v] = <<>>
  <2>1. HeldBy(x, minibatch[v], phase[v], stacks[v])
          = Total(minibatch[v], IF phase[v] = "compute" THEN ComputingWeight(x) ELSE ItemWeight(x))
    BY <1>3, NoTasksHeldNow DEF NoTasksHeld
  <2>2. HeldBy(x, minibatch[v], phase[v], stacks[v])'
          = Total(minibatch'[v], IF phase'[v] = "compute" THEN ComputingWeight(x) ELSE ItemWeight(x))
    BY <1>1, <1>3, NoTasksHeldNext, Zenon DEF NoTasksHeld
  <2> QED BY <1>1, <2>1, <2>2
<1> QED BY <1>2, <1>3 DEF Unobserved

\* A step of worker w keeps the invariant if the account moves with what w holds, and w
\* extends no node more than before, but for those that are visited now.
LEMMA WorkerStepInv ==
  ASSUME IInv, Types', NEW w \in Workers, OthersUnchanged(w), Unobserved(w), WorkerInv(w)',
         visited \subseteq visited', SharedInv', AccountMoves(w), ExtendingFalls(w),
         phase'[w] = "pick" => \A v \in Workers \ {w} : phase[v] # "pick"
  PROVE  IInv'
<1>1. Types BY TypesOf DEF IInv
<1>2. \A v \in Workers \ {w} :
        /\ phase'[v] = phase[v] /\ stacks'[v] = stacks[v] /\ minibatch'[v] = minibatch[v]
        /\ new_start'[v] = new_start[v] /\ collisions_left'[v] = collisions_left[v]
  BY DEF OthersUnchanged
<1>3. VirtualLossAccounted'
  <2> SUFFICES ASSUME NEW x \in Nodes PROVE n_in_flight'[x] = Held(x)' + stray'[x]
    BY DEF VirtualLossAccounted
  <2>1. \A v \in Workers \ {w} : HeldBy(x, minibatch[v], phase[v], stacks[v])'
                                   = HeldBy(x, minibatch[v], phase[v], stacks[v])
    BY <1>1, OthersHeld
  <2> DEFINE n0 == n_in_flight[x] n1 == n_in_flight'[x] s0 == stray[x] s1 == stray'[x]
             h0 == Held(x) h1 == Held(x)'
             a0 == Total(shared_collisions, ItemWeight(x))
             a1 == Total(shared_collisions', ItemWeight(x))
             b0 == HeldBy(x, minibatch[w], phase[w], stacks[w])
             b1 == HeldBy(x, minibatch[w], phase[w], stacks[w])'
  <2>2. /\ h1 = h0 - a0 + a1 - b0 + b1
        /\ h0 \in Nat /\ a0 \in Nat /\ a1 \in Nat /\ b0 \in Nat /\ b1 \in Nat
    BY <1>1, <2>1, HeldMoves
  <2>3. n0 = h0 + s0 /\ n1 - s1 = n0 - s0 - a0 + a1 - b0 + b1
    BY DEF IInv, VirtualLossAccounted, AccountMoves
  <2>4. n0 \in Int /\ n1 \in Int /\ s0 \in Int /\ s1 \in Int BY <1>1 DEF Types
  <2> HIDE DEF n0, n1, s0, s1, h0, h1, a0, a1, b0, b1
  <2>5. n1 = h1 + s1 BY <2>2, <2>3, <2>4
  <2> QED BY <2>5 DEF n1, h1, s1
<1>4. TypeOK'
  <2>1. LeftInv'
    <3> SUFFICES ASSUME NEW v \in Workers PROVE collisions_left'[v] \in 0..CollisionsLeft
      BY DEF LeftInv
    <3>1. CASE v = w BY <3>1 DEF WorkerInv
    <3>2. CASE v # w BY <1>2, <3>2, Zenon DEF IInv, TypeOK
    <3> QED BY <3>1, <3>2
  <2> QED BY <1>3, <2>1, TypeOKNext
<1>5. OnePick'
  <2>1. \A v \in Workers : phase'[v] = "pick" <=> stacks'[v] # <<>>
    <3> SUFFICES ASSUME NEW v \in Workers PROVE phase'[v] = "pick" <=> stacks'[v] # <<>>
      OBVIOUS
    <3>1. CASE v = w BY <3>1 DEF WorkerInv
    <3>2. CASE v # w BY <1>2, <3>2 DEF IInv, OnePick
    <3> QED BY <3>1, <3>2
  <2>2. \A v, u \in Workers : phase'[v] = "pick" /\ phase'[u] = "pick" => v = u
    BY <1>2 DEF IInv, OnePick
  <2> QED BY <2>1, <2>2 DEF OnePick
<1>6. FramesInv'
  <2> SUFFICES ASSUME NEW v \in Workers, NEW j \in DOMAIN stacks'[v],
                      NEW k \in DOMAIN stacks'[v][j].frames
               PROVE  FrameInv(j, stacks'[v][j].frames[k])
    BY DEF FramesInv, FrameInv
  <2>1. CASE v # w BY <1>2, <2>1 DEF IInv, FramesInv
  <2>2. CASE v = w BY <2>2 DEF WorkerInv, FrameInv
  <2> QED BY <2>1, <2>2
<1>7. \A v \in Workers : LimitInv(v)' /\ FreshInv(v)'
  <2> SUFFICES ASSUME NEW v \in Workers PROVE LimitInv(v)' /\ FreshInv(v)'
    OBVIOUS
  <2>1. CASE v = w BY <2>1 DEF WorkerInv
  <2>2. CASE v # w
    <3>1. LimitInv(v) /\ FreshInv(v) BY DEF IInv
    <3>2. LimitInv(v)' BY <1>2, <2>2, <3>1 DEF LimitInv
    <3>3. FreshInv(v)' BY <1>2, <2>2, <3>1 DEF FreshInv, Fresh
    <3> QED BY <3>2, <3>3
  <2> QED BY <2>1, <2>2
<1>8. ExtendedOnce'
  <2> SUFFICES ASSUME NEW x \in Nodes \ visited' PROVE Extending(x)' <= 1
    BY DEF ExtendedOnce
  <2>1. /\ Extending(x)' = Extending(x) - ExtendedBy(x, minibatch[w], stacks[w])
                                + ExtendedBy(x, minibatch'[w], stacks'[w])
        /\ Extending(x) \in Nat
        /\ ExtendedBy(x, minibatch[w], stacks[w]) \in Nat
        /\ ExtendedBy(x, minibatch'[w], stacks'[w]) \in Nat
    BY <1>1, <1>2, ExtendedMoves
  <2>2. Extending(x) <= 1 BY DEF IInv, ExtendedOnce
  <2>3. ExtendedBy(x, minibatch'[w], stacks'[w]) <= ExtendedBy(x, minibatch[w], stacks[w])
    BY DEF ExtendingFalls
  <2>4. Extending(x)' \in Int BY <2>1
  <2> QED BY <2>1, <2>2, <2>3, <2>4
<1>9. PickWithinLimit'
  <2> SUFFICES ASSUME NEW v \in Workers, phase'[v] = "pick"
               PROVE  Placed(v)' <= stacks'[v][1].collision_limit
    BY DEF PickWithinLimit
  <2>1. CASE v = w BY <2>1 DEF WorkerInv
  <2>2. CASE v # w
    <3>1. Placed(v) = Total(stacks[v], TaskWeight(PlacedWeight, LeftWeight))
      BY <1>1, PlacedIs DEF PlacedSums
    <3>2. Placed(v)' = Total(stacks'[v], TaskWeight(PlacedWeight, LeftWeight))
      <4>1. PlacedSums(v)' BY PlacedIsNext DEF AllPlacedSums
      <4> QED BY <4>1 DEF PlacedSums
    <3>3. stacks'[v] = stacks[v] /\ phase[v] = "pick" BY <1>2, <2>2
    <3>4. Placed(v) <= stacks[v][1].collision_limit BY <3>3 DEF IInv, PickWithinLimit
    <3> QED BY <3>1, <3>2, <3>3, <3>4
  <2> QED BY <2>1, <2>2
<1> QED BY <1>3, <1>4, <1>5, <1>6, <1>7, <1>8, <1>9 DEF IInv

\* Only a pick has tasks.
LEMMA NoStack ==
  ASSUME IInv, NEW w \in Workers, phase[w] # "pick"
  PROVE  stacks[w] = <<>>
BY DEF IInv, OnePick

\* While nodes_mutex_ is free nobody has tasks.
LEMMA MutexFree ==
  ASSUME IInv, NodesMutexFree
  PROVE  \A v \in Workers : stacks[v] = <<>> /\ phase[v] # "pick"
BY NoStack DEF NodesMutexFree

\* What the invariant says of a worker that is not between a pick and its counting.
LEMMA IdleWorker ==
  ASSUME NEW w \in Workers, stacks'[w] = <<>>, phase'[w] \notin {"pick", "process", "grow"},
         collisions_left'[w] \in 0..CollisionsLeft
  PROVE  WorkerInv(w)'
<1>1. DOMAIN stacks'[w] = {} OBVIOUS
<1>2. LimitInv(w)' BY DEF LimitInv
<1>3. FreshInv(w)' BY DEF FreshInv
<1> QED BY <1>1, <1>2, <1>3 DEF WorkerInv

\* What a worker without tasks holds.
LEMMA HeldWithoutTasks ==
  ASSUME Types, Types', NEW w \in Workers, stacks[w] = <<>>, stacks'[w] = <<>>, NEW x
  PROVE  /\ HeldBy(x, minibatch[w], phase[w], stacks[w])
              = Total(minibatch[w], IF phase[w] = "compute" THEN ComputingWeight(x) ELSE ItemWeight(x))
         /\ HeldBy(x, minibatch[w], phase[w], stacks[w])'
              = Total(minibatch'[w], IF phase'[w] = "compute" THEN ComputingWeight(x) ELSE ItemWeight(x))
<1>1. NoTasksHeld BY NoTasksHeldNow
<1>2. NoTasksHeld' BY NoTasksHeldNext
<1> QED BY <1>1, <1>2 DEF NoTasksHeld

\* What a worker without tasks extends is in its minibatch.
LEMMA ExtendedWithoutTasks ==
  ASSUME NEW items \in Seq(Items), NEW x
  PROVE  ExtendedBy(x, items, <<>>) = Total(items, VisitWeight(x))
<1>1. Total(<<>>, TaskWeight(VisitWeight(x), NoWeight)) = 0 BY TotalEmpty
<1>2. Total(items, VisitWeight(x)) \in Nat BY VisitWeightNat, TotalNat DEF NatWeight
<1> QED BY <1>1, <1>2 DEF ExtendedBy

\* A step that only moves worker w between phases without a minibatch at stake.
LEMMA PhaseStepInv ==
  ASSUME IInv, NEW w \in Workers, phase[w] \notin {"pick", "compute"}, NEW l \in Phases,
         l \notin {"pick", "process", "grow", "compute"}, Goto(w, l),
         collisions_left' \in [Workers -> Int], collisions_left'[w] \in 0..CollisionsLeft,
         \A v \in Workers \ {w} : collisions_left'[v] = collisions_left[v],
         UNCHANGED <<visited, n_in_flight, stray, halting, stacks, minibatch, new_start,
                     shared_collisions, picks>>
  PROVE  IInv'
<1>1. Types BY TypesOf DEF IInv
<1>2. phase' \in [Workers -> Phases] /\ phase'[w] = l /\ \A v \in Workers \ {w} : phase'[v] = phase[v]
  BY <1>1 DEF Types, Goto
<1>3. Types' BY <1>1, <1>2, Zenon DEF Types
<1>4. stacks[w] = <<>> /\ stacks'[w] = <<>> BY NoStack
<1>5. WorkerInv(w)' BY <1>2, <1>4, IdleWorker
<1>6. OthersUnchanged(w) BY <1>2 DEF OthersUnchanged
<1>7. Unobserved(w) BY DEF Unobserved
<1>8. SharedInv' BY DEF IInv, SharedInv
<1>9. AccountMoves(w)
  <2> SUFFICES ASSUME NEW x \in Nodes
               PROVE  n_in_flight'[x] - stray'[x] = n_in_flight[x] - stray[x]
                        - Total(shared_collisions, ItemWeight(x)) + Total(shared_collisions', ItemWeight(x))
                        - HeldBy(x, minibatch[w], phase[w], stacks[w])
                        + HeldBy(x, minibatch[w], phase[w], stacks[w])'
    BY DEF AccountMoves
  <2> DEFINE a == Total(shared_collisions, ItemWeight(x))
             b == Total(minibatch[w], ItemWeight(x))
  <2>1. HeldBy(x, minibatch[w], phase[w], stacks[w]) = b
        /\ HeldBy(x, minibatch[w], phase[w], stacks[w])' = b
    <3>1. /\ HeldBy(x, minibatch[w], phase[w], stacks[w])
              = Total(minibatch[w], IF phase[w] = "compute" THEN ComputingWeight(x) ELSE ItemWeight(x))
          /\ HeldBy(x, minibatch[w], phase[w], stacks[w])'
              = Total(minibatch'[w], IF phase'[w] = "compute" THEN ComputingWeight(x) ELSE ItemWeight(x))
      BY <1>1, <1>3, <1>4, HeldWithoutTasks
    <3> QED BY <1>2, <3>1
  <2>2. a \in Nat /\ b \in Nat
    <3>1. shared_collisions \in Seq(Items) /\ minibatch[w] \in Seq(Items) BY <1>1 DEF Types
    <3> QED BY <3>1, ItemWeightNat, TotalNat DEF NatWeight
  <2>3. Total(shared_collisions', ItemWeight(x)) = a OBVIOUS
  <2>4. n_in_flight[x] \in Int /\ stray[x] \in Int BY <1>1 DEF Types
  <2> HIDE DEF a, b
  <2> QED BY <2>1, <2>2, <2>3, <2>4 DEF a
<1>10. ExtendingFalls(w)
  <2> SUFFICES ASSUME NEW x
               PROVE  ExtendedBy(x, minibatch'[w], stacks'[w]) <= ExtendedBy(x, minibatch[w], stacks[w])
    BY DEF ExtendingFalls
  <2>1. ExtendedBy(x, minibatch[w], stacks[w]) \in Nat BY <1>1, WorkerNat, Zenon DEF Types
  <2> QED BY <2>1
<1> QED BY <1>2, <1>3, <1>5, <1>6, <1>7, <1>8, <1>9, <1>10, WorkerStepInv

\* StartIteration keeps the invariant.
LEMMA StartIterationInv ==
  ASSUME IInv, NEW w \in Workers, StartIteration(w) PROVE IInv'
<1>1. Types BY TypesOf DEF IInv
<1>2. CollisionsLeft \in Nat \ {0} BY LimitsAssumption
<1>3. /\ collisions_left' \in [Workers -> Int] /\ collisions_left'[w] \in 0..CollisionsLeft
      /\ \A v \in Workers \ {w} : collisions_left'[v] = collisions_left[v]
  BY <1>1, <1>2 DEF Types, StartIteration
<1>4. "gather" \in Phases BY DEF Phases
<1> QED BY <1>3, <1>4, PhaseStepInv DEF StartIteration

\* StopWorker keeps the invariant.
LEMMA StopWorkerInv ==
  ASSUME IInv, NEW w \in Workers, StopWorker(w) PROVE IInv'
<1>1. TypeOK /\ Types BY TypesOf DEF IInv
<1>2. /\ collisions_left' \in [Workers -> Int] /\ collisions_left'[w] \in 0..CollisionsLeft
      /\ \A v \in Workers \ {w} : collisions_left'[v] = collisions_left[v]
  BY <1>1 DEF TypeOK, Types, StopWorker
<1>3. "done" \in Phases BY DEF Phases
<1> QED BY <1>2, <1>3, PhaseStepInv DEF StopWorker

-----------------------------------------------------------------------------
(* Settling visits and collisions *)

\* Settled takes off each node what the visits and collisions hold on it.
LEMMA SettledIs ==
  ASSUME Types, NEW visits \in Seq(Items), NEW collisions \in Seq(Items),
         \A k \in DOMAIN visits : IsVisit(visits[k]),
         \A k \in DOMAIN collisions : IsCollision(collisions[k])
  PROVE  /\ Settled(visits, collisions) \in [Nodes -> Int]
         /\ \A x \in Nodes :
              Settled(visits, collisions)[x] = n_in_flight[x]
                - Total(visits, ItemWeight(x)) - Total(collisions, ItemWeight(x))
<1>1. ASSUME NEW x \in Nodes
      PROVE  /\ Settled(visits, collisions)[x] = n_in_flight[x]
                  - Total(visits, ItemWeight(x)) - Total(collisions, ItemWeight(x))
             /\ Total(visits, ItemWeight(x)) \in Nat /\ Total(collisions, ItemWeight(x)) \in Nat
  <2>1. ASSUME NEW k \in DOMAIN visits
        PROVE  FinalizeScoreUpdate(visits[k])[x] = ItemWeight(x)[visits[k]]
    <3>1. visits[k] \in Items OBVIOUS
    <3>2. IsVisit(visits[k]) OBVIOUS
    <3> QED BY <3>1, <3>2 DEF FinalizeScoreUpdate, ItemWeight, Holds
  <2>2. ASSUME NEW k \in DOMAIN collisions
        PROVE  CancelScoreUpdate(collisions[k])[x] = ItemWeight(x)[collisions[k]]
    <3>1. collisions[k] \in Items OBVIOUS
    <3>2. ~IsVisit(collisions[k]) BY DEF IsVisit, IsCollision
    <3> QED BY <3>1, <3>2 DEF CancelScoreUpdate, ItemWeight, Holds
  <2>3. [k \in DOMAIN visits |-> FinalizeScoreUpdate(visits[k])[x]]
          = [k \in DOMAIN visits |-> ItemWeight(x)[visits[k]]]
    BY <2>1
  <2>4. [k \in DOMAIN collisions |-> CancelScoreUpdate(collisions[k])[x]]
          = [k \in DOMAIN collisions |-> ItemWeight(x)[collisions[k]]]
    BY <2>2
  <2>5. Settled(visits, collisions)[x] = n_in_flight[x]
          - SumFunction([k \in DOMAIN visits |-> FinalizeScoreUpdate(visits[k])[x]])
          - SumFunction([k \in DOMAIN collisions |-> CancelScoreUpdate(collisions[k])[x]])
    BY DEF Settled
  <2>6. Settled(visits, collisions)[x] = n_in_flight[x]
                  - Total(visits, ItemWeight(x)) - Total(collisions, ItemWeight(x))
    BY <2>3, <2>4, <2>5, Zenon DEF Total
  <2>7. Total(visits, ItemWeight(x)) \in Nat /\ Total(collisions, ItemWeight(x)) \in Nat
    BY ItemWeightNat, TotalNat DEF NatWeight
  <2> QED BY <2>6, <2>7
<1>2. Settled(visits, collisions) = [x \in Nodes |-> Settled(visits, collisions)[x]]
  BY Zenon DEF Settled
<1>3. \A x \in Nodes : Settled(visits, collisions)[x] \in Int
  <2> SUFFICES ASSUME NEW x \in Nodes PROVE Settled(visits, collisions)[x] \in Int
    OBVIOUS
  <2>1. n_in_flight[x] \in Int BY DEF Types
  <2> QED BY <1>1, <2>1
<1>4. Settled(visits, collisions) \in [Nodes -> Int]
  <2> DEFINE s == Settled(visits, collisions)
  <2>1. s = [x \in Nodes |-> s[x]] /\ \A x \in Nodes : s[x] \in Int BY <1>2, <1>3
  <2> HIDE DEF s
  <2> QED BY <2>1 DEF s
<1> QED BY <1>1, <1>4

\* The elements of a subsequence are elements at its indices.
LEMMA SubsequenceElements ==
  ASSUME NEW T, NEW s \in Seq(T), NEW K \in SUBSET DOMAIN s
  PROVE  /\ Subsequence(s, K) \in Seq(T)
         /\ \A k \in DOMAIN Subsequence(s, K) :
              \E j \in K : j >= k /\ Subsequence(s, K)[k] = s[j]
<1>1. Subsequence(s, K) \in Seq(T) BY SubsequenceIs
<1>2. PICK e \in Bijection(DOMAIN Subsequence(s, K), K) :
        \A k \in DOMAIN Subsequence(s, K) : e[k] >= k /\ Subsequence(s, K)[k] = s[e[k]]
  BY SubsequenceIs
<1>3. \A k \in DOMAIN Subsequence(s, K) : e[k] \in K BY DEF Bijection, Injection
<1> QED BY <1>1, <1>2, <1>3

\* The weights of the elements at the indices in K, and of the others.
LEMMA TotalParts ==
  ASSUME NEW T, NEW s \in Seq(T), NEW K \in SUBSET DOMAIN s, NEW h, Weighs(h, T)
  PROVE  Total(s, h) = Total(Subsequence(s, K), h) + Total(Subsequence(s, DOMAIN s \ K), h)
<1> DEFINE f == [k \in DOMAIN s |-> h[s[k]]] R == DOMAIN s \ K
<1>1. Total(s, h) = SumFunctionOnSet(f, DOMAIN s) /\ IsFiniteSet(DOMAIN s)
      /\ \A k \in DOMAIN s : f[k] \in Int
  BY TotalIs
<1>2. Total(Subsequence(s, K), h) = SumFunctionOnSet(f, K) BY TotalSubsequence
<1>3. R \in SUBSET DOMAIN s /\ K \cup R = DOMAIN s /\ K \cap R = {} BY Zenon
<1> HIDE DEF R
<1>4. Total(Subsequence(s, R), h) = SumFunctionOnSet(f, R) BY <1>3, TotalSubsequence
<1> HIDE DEF f
<1>5. IsFiniteSet(K) /\ IsFiniteSet(R) BY <1>1, <1>3, FS_Subset
<1>6. SumFunctionOnSet(f, K \cup R) = SumFunctionOnSet(f, K) + SumFunctionOnSet(f, R)
  BY <1>1, <1>3, <1>5, SumUnion
<1> QED BY <1>1, <1>2, <1>3, <1>4, <1>6, Zenon DEF R

\* What a minibatch holds, visits and collisions apart.
LEMMA MinibatchParts ==
  ASSUME NEW items \in Seq(Items), NEW x
  PROVE  /\ Visits(items) \in Seq(Items) /\ Collisions(items) \in Seq(Items)
         /\ \A k \in DOMAIN Visits(items) : IsVisit(Visits(items)[k])
         /\ \A k \in DOMAIN Collisions(items) : IsCollision(Collisions(items)[k])
         /\ Total(items, ItemWeight(x))
              = Total(Visits(items), ItemWeight(x)) + Total(Collisions(items), ItemWeight(x))
         /\ Total(items, ComputingWeight(x)) = Total(Visits(items), ItemWeight(x))
<1> DEFINE V == VisitsAt(items) C == CollisionsAt(items) D == DOMAIN items
<1>1. /\ V \in SUBSET D /\ C \in SUBSET D /\ C = D \ V
      /\ \A k \in V : IsVisit(items[k])
      /\ \A k \in C : IsCollision(items[k])
  BY DEF VisitsAt, CollisionsAt, IsVisit, IsCollision
<1> HIDE DEF V, C
<1>2. Visits(items) = Subsequence(items, V) /\ Collisions(items) = Subsequence(items, C)
  BY DEF Visits, Collisions, V, C
<1>3. /\ Subsequence(items, V) \in Seq(Items)
      /\ \A k \in DOMAIN Subsequence(items, V) : \E j \in V : Subsequence(items, V)[k] = items[j]
  BY <1>1, SubsequenceElements
<1>4. /\ Subsequence(items, C) \in Seq(Items)
      /\ \A k \in DOMAIN Subsequence(items, C) : \E j \in C : Subsequence(items, C)[k] = items[j]
  <2>1. C \in SUBSET DOMAIN items BY <1>1
  <2> QED BY <2>1, SubsequenceElements
<1>5. \A k \in DOMAIN Subsequence(items, V) : IsVisit(Subsequence(items, V)[k])
  BY <1>1, <1>3
<1>6. \A k \in DOMAIN Subsequence(items, C) : IsCollision(Subsequence(items, C)[k])
  BY <1>1, <1>4, Zenon
<1>7. Weighs(ItemWeight(x), Items) /\ Weighs(ComputingWeight(x), Items)
  BY ItemWeightNat, NatWeighs
<1>8. Total(items, ItemWeight(x))
        = Total(Subsequence(items, V), ItemWeight(x)) + Total(Subsequence(items, C), ItemWeight(x))
  <2>1. Total(items, ItemWeight(x))
          = Total(Subsequence(items, V), ItemWeight(x))
              + Total(Subsequence(items, DOMAIN items \ V), ItemWeight(x))
    BY <1>1, <1>7, TotalParts
  <2> QED BY <1>1, <2>1, Zenon
<1>9. Total(items, ComputingWeight(x)) = Total(Subsequence(items, V), ItemWeight(x))
  <2> DEFINE H == [k \in D |-> ComputingWeight(x)[items[k]]]
             F == [k \in D |-> ItemWeight(x)[items[k]]]
             Z == [k \in D |-> 0]
  <2>1. Total(items, ComputingWeight(x)) = SumFunctionOnSet(H, D) /\ IsFiniteSet(D)
        /\ \A k \in D : H[k] \in Int
    BY <1>7, TotalIs
  <2>2. Total(Subsequence(items, V), ItemWeight(x)) = SumFunctionOnSet(F, V)
    BY <1>1, <1>7, TotalSubsequence
  <2>3. \A k \in V : H[k] = F[k]
    <3> SUFFICES ASSUME NEW k \in V PROVE H[k] = F[k] OBVIOUS
    <3>1. k \in D /\ items[k] \in Items /\ IsVisit(items[k]) BY <1>1
    <3> QED BY <3>1 DEF ComputingWeight, ItemWeight, IsVisit, IsCollision
  <2>4. \A k \in D \ V : H[k] = 0
    <3> SUFFICES ASSUME NEW k \in D \ V PROVE H[k] = 0 OBVIOUS
    <3>1. k \in C /\ items[k] \in Items /\ IsCollision(items[k]) BY <1>1
    <3> QED BY <3>1 DEF ComputingWeight
  <2>5. (\A k \in V : Z[k] = 0) /\ \A k \in D : Z[k] = 0 BY <1>1
  <2> DEFINE G == [k \in D |-> IF k \in V THEN 0 ELSE H[k]]
  <2>6. (\A k \in V : G[k] = 0) /\ (\A k \in D \ V : G[k] = H[k]) /\ \A k \in D : G[k] = 0
    BY <1>1, <2>4
  <2> HIDE DEF H, F, Z, G, D
  <2>7. SumFunctionOnSet(H, D) = SumFunctionOnSet(G, D) + SumFunctionOnSet(H, V)
    BY <1>1, <2>1, <2>6, SumSplit
  <2>8. SumFunctionOnSet(G, D) = 0 BY <2>1, <2>6, SumZero
  <2>9. IsFiniteSet(V) BY <1>1, <2>1, FS_Subset
  <2>10. \A k \in V : H[k] \in Int /\ F[k] = H[k] BY <1>1, <2>1, <2>3
  <2>11. SumFunctionOnSet(F, V) = SumFunctionOnSet(H, V) BY <2>9, <2>10, SumSame
  <2>12. SumFunctionOnSet(H, V) \in Int BY <2>9, <2>10, SumType
  <2> QED BY <2>1, <2>2, <2>7, <2>8, <2>11, <2>12
<1> QED BY <1>2, <1>3, <1>4, <1>5, <1>6, <1>8, <1>9

-----------------------------------------------------------------------------
(* Collecting and backing up. *)

\* Goto moves worker w alone.
LEMMA NextTypes ==
  ASSUME IInv, NEW w \in Workers, NEW l \in Phases, Goto(w, l)
  PROVE  phase' \in [Workers -> Phases] /\ phase'[w] = l /\ \A v \in Workers \ {w} : phase'[v] = phase[v]
BY DEF IInv, TypeOK, Goto

\* CollectCollisions: the shared collisions take over what the minibatch's held.
LEMMA CollectCollisionsInv ==
  ASSUME IInv, NEW w \in Workers, CollectCollisions(w) PROVE IInv'
<1> DEFINE items == minibatch[w]
<1>1. Types /\ TypeOK BY TypesOf DEF IInv
<1>2. /\ phase[w] = "collect" /\ NodesMutexFree
      /\ shared_collisions' = shared_collisions \o Collisions(items)
      /\ new_start' = [new_start EXCEPT ![w] = 0]
      /\ collisions_left' = [collisions_left EXCEPT ![w] = 0] /\ Goto(w, "compute")
      /\ visited' = visited /\ n_in_flight' = n_in_flight /\ stray' = stray
      /\ halting' = halting /\ stacks' = stacks /\ minibatch' = minibatch /\ picks' = picks
  BY DEF CollectCollisions
<1>3. "compute" \in Phases BY DEF Phases
<1>4. phase' \in [Workers -> Phases] /\ phase'[w] = "compute"
      /\ \A v \in Workers \ {w} : phase'[v] = phase[v]
  BY <1>2, <1>3, NextTypes
<1>5. items \in Seq(Items) /\ shared_collisions \in Seq(Items) BY <1>1 DEF Types
<1>6. stacks[w] = <<>> /\ stacks'[w] = <<>> BY <1>2, MutexFree
<1> HIDE DEF items
<1>7. /\ Collisions(items) \in Seq(Items)
      /\ \A k \in DOMAIN Collisions(items) : IsCollision(Collisions(items)[k])
  BY <1>5, MinibatchParts
<1>8. shared_collisions' \in Seq(Items) BY <1>2, <1>5, <1>7
<1>9. Types'
  <2>1. new_start' \in [Workers -> Nat] /\ collisions_left' \in [Workers -> Int] BY <1>1, <1>2 DEF Types
  <2> QED BY <1>1, <1>2, <1>4, <1>8, <2>1, Zenon DEF Types
<1>10. WorkerInv(w)'
  <2>1. collisions_left'[w] \in 0..CollisionsLeft BY <1>1, <1>2, LimitsAssumption DEF Types
  <2> QED BY <1>4, <1>6, <2>1, IdleWorker
<1>11. OthersUnchanged(w) BY <1>1, <1>2, <1>4 DEF OthersUnchanged, Types
<1>12. Unobserved(w) BY <1>2 DEF Unobserved
<1>13. SharedInv'
  <2> SUFFICES ASSUME NEW k \in DOMAIN shared_collisions' PROVE IsCollision(shared_collisions'[k])
    BY DEF SharedInv, IsCollision
  <2>1. \A j \in DOMAIN shared_collisions : IsCollision(shared_collisions[j]) BY DEF IInv, SharedInv
  <2>2. \/ \E j \in DOMAIN shared_collisions : shared_collisions'[k] = shared_collisions[j]
        \/ \E j \in DOMAIN Collisions(items) : shared_collisions'[k] = Collisions(items)[j]
    <3> DEFINE a == shared_collisions b == Collisions(items)
    <3>1. a \in Seq(Items) /\ b \in Seq(Items) /\ k \in DOMAIN (a \o b) BY <1>2, <1>5, <1>7
    <3> HIDE DEF a, b
    <3>2. \/ \E j \in DOMAIN a : (a \o b)[k] = a[j]
          \/ \E j \in DOMAIN b : (a \o b)[k] = b[j]
      <4>1. CASE k <= Len(a) BY <3>1, <4>1
      <4>2. CASE k > Len(a)
        <5>1. k - Len(a) \in DOMAIN b /\ (a \o b)[k] = b[k - Len(a)] BY <3>1, <4>2
        <5> QED BY <5>1
      <4> QED BY <3>1, <4>1, <4>2
    <3> QED BY <1>2, <3>2 DEF a, b
  <2> QED BY <1>7, <2>1, <2>2
<1>14. AccountMoves(w)
  <2> SUFFICES ASSUME NEW x \in Nodes
               PROVE  n_in_flight'[x] - stray'[x] = n_in_flight[x] - stray[x]
                        - Total(shared_collisions, ItemWeight(x)) + Total(shared_collisions', ItemWeight(x))
                        - HeldBy(x, minibatch[w], phase[w], stacks[w])
                        + HeldBy(x, minibatch[w], phase[w], stacks[w])'
    BY DEF AccountMoves
  <2> DEFINE a0 == Total(shared_collisions, ItemWeight(x))
             a1 == Total(shared_collisions', ItemWeight(x))
             b0 == HeldBy(x, minibatch[w], phase[w], stacks[w])
             b1 == HeldBy(x, minibatch[w], phase[w], stacks[w])'
             c == Total(Collisions(items), ItemWeight(x)) v == Total(Visits(items), ItemWeight(x))
  <2>1. b0 = Total(items, ItemWeight(x)) /\ b1 = Total(items, ComputingWeight(x))
    <3>1. /\ b0 = Total(minibatch[w], IF phase[w] = "compute" THEN ComputingWeight(x) ELSE ItemWeight(x))
          /\ b1 = Total(minibatch'[w], IF phase'[w] = "compute" THEN ComputingWeight(x) ELSE ItemWeight(x))
      BY <1>1, <1>9, <1>6, HeldWithoutTasks
    <3> HIDE DEF b0, b1
    <3> QED BY <1>2, <1>4, <3>1 DEF items
  <2>2. Total(items, ItemWeight(x)) = v + c /\ Total(items, ComputingWeight(x)) = v
    BY <1>5, MinibatchParts
  <2>3. Weighs(ItemWeight(x), Items) BY ItemWeightNat, NatWeighs
  <2>4. a1 = a0 + c
    <3>1. Total(shared_collisions \o Collisions(items), ItemWeight(x)) = a0 + c
      BY <1>5, <1>7, <2>3, TotalConcat
    <3> QED BY <1>2, <3>1
  <2>5. a0 \in Int /\ c \in Int /\ v \in Int
    <3>1. Visits(items) \in Seq(Items) BY <1>5, MinibatchParts
    <3>2. a0 \in Int BY <1>5, <2>3, TotalIs, Zenon
    <3>3. c \in Int BY <1>7, <2>3, TotalIs, Zenon
    <3>4. v \in Int BY <3>1, <2>3, TotalIs, Zenon
    <3> QED BY <3>2, <3>3, <3>4
  <2>6. n_in_flight[x] \in Int /\ stray[x] \in Int BY <1>1 DEF Types
  <2> DEFINE n == n_in_flight[x] s == stray[x]
  <2> HIDE DEF a0, a1, b0, b1, c, v, n, s
  <2>7. n - s = n - s - a0 + a1 - b0 + b1 BY <2>1, <2>2, <2>4, <2>5, <2>6 DEF n, s
  <2> QED BY <1>2, <2>7 DEF n, s, a0, a1, b0, b1
<1>15. ExtendingFalls(w)
  <2> SUFFICES ASSUME NEW x
               PROVE  ExtendedBy(x, minibatch'[w], stacks'[w]) <= ExtendedBy(x, minibatch[w], stacks[w])
    BY DEF ExtendingFalls
  <2>1. ExtendedBy(x, minibatch[w], stacks[w]) \in Nat BY <1>1, WorkerNat, Zenon DEF Types
  <2> QED BY <1>2, <2>1
<1> QED BY <1>2, <1>4, <1>9, <1>10, <1>11, <1>12, <1>13, <1>14, <1>15, WorkerStepInv

\* Leaves are nodes.
LEMMA LeavesAreNodes ==
  ASSUME NEW items \in Seq(Items) PROVE LeavesOf(items) \subseteq Nodes
<1>1. ASSUME NEW k \in DOMAIN items PROVE Leaf(items[k]) \in Nodes
  <2>0. items[k] \in Items OBVIOUS
  <2>1. items[k].path \in Paths BY <2>0 DEF Items
  <2> QED BY <2>1, OccurrencesAtEnd DEF Leaf
<1> QED BY <1>1 DEF LeavesOf

\* DoBackupUpdate: what is settled is what the minibatch and the shared collisions held.
LEMMA DoBackupUpdateInv ==
  ASSUME IInv, NEW w \in Workers, DoBackupUpdate(w) PROVE IInv'
<1> DEFINE items == minibatch[w]
<1>1. Types /\ TypeOK BY TypesOf DEF IInv
<1>2. /\ phase[w] = "compute" /\ NodesMutexFree
      /\ n_in_flight' = Settled(Visits(items), shared_collisions)
      /\ visited' = visited \cup LeavesOf(Visits(items))
      /\ shared_collisions' = <<>>
      /\ minibatch' = [minibatch EXCEPT ![w] = <<>>] /\ Goto(w, "iterate")
      /\ stray' = stray /\ halting' = halting /\ stacks' = stacks /\ new_start' = new_start
      /\ collisions_left' = collisions_left /\ picks' = picks
  BY DEF DoBackupUpdate
<1>3. "iterate" \in Phases BY DEF Phases
<1>4. phase' \in [Workers -> Phases] /\ phase'[w] = "iterate"
      /\ \A v \in Workers \ {w} : phase'[v] = phase[v]
  BY <1>2, <1>3, NextTypes
<1>5. items \in Seq(Items) /\ shared_collisions \in Seq(Items) BY <1>1 DEF Types
<1>6. stacks[w] = <<>> /\ stacks'[w] = <<>> /\ \A v \in Workers : stacks[v] = <<>>
  BY <1>2, MutexFree
<1> HIDE DEF items
<1>7. /\ Visits(items) \in Seq(Items)
      /\ \A k \in DOMAIN Visits(items) : IsVisit(Visits(items)[k])
  BY <1>5, MinibatchParts
<1>8. \A k \in DOMAIN shared_collisions : IsCollision(shared_collisions[k]) BY DEF IInv, SharedInv
<1>9. /\ n_in_flight' \in [Nodes -> Int]
      /\ \A x \in Nodes : n_in_flight'[x] = n_in_flight[x]
           - Total(Visits(items), ItemWeight(x)) - Total(shared_collisions, ItemWeight(x))
  BY <1>1, <1>2, <1>5, <1>7, <1>8, SettledIs
<1>10. Types'
  <2>1. minibatch' \in [Workers -> Seq(Items)] /\ shared_collisions' \in Seq(Items)
    BY <1>1, <1>2 DEF Types
  <2>2. visited' \subseteq Nodes /\ halting' \subseteq visited'
    BY <1>1, <1>2, <1>7, LeavesAreNodes DEF Types
  <2> QED BY <1>1, <1>2, <1>4, <1>9, <2>1, <2>2 DEF Types
<1>11. WorkerInv(w)'
  <2>1. collisions_left'[w] \in 0..CollisionsLeft BY <1>1, <1>2 DEF TypeOK
  <2> QED BY <1>4, <1>6, <2>1, IdleWorker
<1>12. OthersUnchanged(w) BY <1>1, <1>2, <1>4 DEF OthersUnchanged, Types
<1>13. Unobserved(w) BY <1>6 DEF Unobserved
<1>14. SharedInv'
  <2>1. DOMAIN shared_collisions' = {} BY <1>2
  <2> QED BY <2>1 DEF SharedInv
<1>15. minibatch'[w] = <<>> BY <1>1, <1>2 DEF Types
<1>16. AccountMoves(w)
  <2> SUFFICES ASSUME NEW x \in Nodes
               PROVE  n_in_flight'[x] - stray'[x] = n_in_flight[x] - stray[x]
                        - Total(shared_collisions, ItemWeight(x)) + Total(shared_collisions', ItemWeight(x))
                        - HeldBy(x, minibatch[w], phase[w], stacks[w])
                        + HeldBy(x, minibatch[w], phase[w], stacks[w])'
    BY DEF AccountMoves
  <2> DEFINE a0 == Total(shared_collisions, ItemWeight(x))
             a1 == Total(shared_collisions', ItemWeight(x))
             b0 == HeldBy(x, minibatch[w], phase[w], stacks[w])
             b1 == HeldBy(x, minibatch[w], phase[w], stacks[w])'
             v == Total(Visits(items), ItemWeight(x))
             n0 == n_in_flight[x] n1 == n_in_flight'[x] s == stray[x]
  <2>0. a1 = 0
    <3>1. Total(<<>>, ItemWeight(x)) = 0 BY TotalEmpty
    <3> QED BY <1>2, <3>1
  <2>1. b0 = Total(items, ComputingWeight(x)) /\ b1 = 0
    <3>1. /\ b0 = Total(minibatch[w], IF phase[w] = "compute" THEN ComputingWeight(x) ELSE ItemWeight(x))
          /\ b1 = Total(minibatch'[w], IF phase'[w] = "compute" THEN ComputingWeight(x) ELSE ItemWeight(x))
      BY <1>1, <1>10, <1>6, HeldWithoutTasks
    <3>2. Total(<<>>, ItemWeight(x)) = 0 BY TotalEmpty
    <3> HIDE DEF b0, b1
    <3> QED BY <1>2, <1>4, <1>15, <3>1, <3>2 DEF items
  <2>2. Total(items, ComputingWeight(x)) = v BY <1>5, MinibatchParts
  <2>3. Weighs(ItemWeight(x), Items) BY ItemWeightNat, NatWeighs
  <2>5. a0 \in Int /\ v \in Int
    <3>1. a0 \in Int BY <1>5, <2>3, TotalIs, Zenon
    <3>2. v \in Int BY <1>7, <2>3, TotalIs, Zenon
    <3> QED BY <3>1, <3>2
  <2>6. n0 \in Int /\ s \in Int BY <1>1 DEF Types
  <2>7. n1 = n0 - v - a0 BY <1>9
  <2> HIDE DEF a0, a1, b0, b1, v, n0, n1, s
  <2>8. n1 - s = n0 - s - a0 + a1 - b0 + b1 BY <2>0, <2>1, <2>2, <2>5, <2>6, <2>7
  <2> QED BY <1>2, <2>8 DEF n0, n1, s, a0, a1, b0, b1
<1>17. ExtendingFalls(w)
  <2> SUFFICES ASSUME NEW x
               PROVE  ExtendedBy(x, minibatch'[w], stacks'[w]) <= ExtendedBy(x, minibatch[w], stacks[w])
    BY DEF ExtendingFalls
  <2>1. ExtendedBy(x, minibatch[w], stacks[w]) \in Nat BY <1>1, WorkerNat, Zenon DEF Types
  <2>2. ExtendedBy(x, <<>>, <<>>) = 0
    <3>0. <<>> \in Seq(Items) OBVIOUS
    <3>1. ExtendedBy(x, <<>>, <<>>) = Total(<<>>, VisitWeight(x)) BY <3>0, ExtendedWithoutTasks, Zenon
    <3> QED BY <3>1, TotalEmpty
  <2> QED BY <1>6, <1>15, <2>1, <2>2
<1> QED BY <1>2, <1>4, <1>10, <1>11, <1>12, <1>13, <1>14, <1>16, <1>17, WorkerStepInv

-----------------------------------------------------------------------------
(* Counting the collisions. *)

\* Where among a minibatch the last pick's items are.
LEMMA FreshIs ==
  ASSUME Types, NEW w \in Workers
  PROVE  Fresh(w) \subseteq DOMAIN minibatch[w] /\ IsFiniteSet(Fresh(w))
<1>1. new_start[w] \in Nat /\ minibatch[w] \in Seq(Items) BY DEF Types
<1>2. Fresh(w) \subseteq 1..Len(minibatch[w]) BY <1>1 DEF Fresh
<1>3. IsFiniteSet(1..Len(minibatch[w])) BY <1>1, FS_Interval
<1>4. IsFiniteSet(Fresh(w)) BY <1>2, <1>3, FS_Subset
<1> QED BY <1>1, <1>2, <1>4

\* Each item stands for a natural number of collisions.
LEMMA CollisionVisitsNat ==
  ASSUME NEW items \in Seq(Items)
  PROVE  \A k \in DOMAIN items : CollisionVisits(items)[k] \in Nat
                                 /\ (IsCollision(items[k]) => CollisionVisits(items)[k] = items[k].multivisit)
                                 /\ (~IsCollision(items[k]) => CollisionVisits(items)[k] = 0)
<1> SUFFICES ASSUME NEW k \in DOMAIN items
             PROVE  CollisionVisits(items)[k] \in Nat
                    /\ (IsCollision(items[k]) => CollisionVisits(items)[k] = items[k].multivisit)
                    /\ (~IsCollision(items[k]) => CollisionVisits(items)[k] = 0)
  OBVIOUS
<1>1. items[k] \in Items OBVIOUS
<1>2. items[k].multivisit \in Nat BY <1>1 DEF Items
<1> QED BY <1>2 DEF CollisionVisits

\* What is left once the collisions are counted is within bounds if they were within what
\* was left before.
LEMMA CountCollisionsKeeps ==
  ASSUME IInv, NEW w \in Workers, CountCollisions(w), Types', OthersUnchanged(w),
         AccountMoves(w), ExtendingFalls(w),
         SumFunctionOnSet(CollisionVisits(minibatch'[w]), Fresh(w)) \in 0..collisions_left[w]
  PROVE  IInv'
<1>1. Types /\ TypeOK BY TypesOf DEF IInv
<1> DEFINE sum == SumFunctionOnSet(CollisionVisits(minibatch'[w]), Fresh(w))
           left == collisions_left[w] - sum
<1>2. /\ phase[w] = "grow" /\ NodesMutexFree
      /\ collisions_left' = [collisions_left EXCEPT ![w] = left]
      /\ \/ Goto(w, "gather")
         \/ Goto(w, "collect")
      /\ visited' = visited /\ stray' = stray /\ halting' = halting /\ stacks' = stacks
      /\ new_start' = new_start /\ shared_collisions' = shared_collisions /\ picks' = picks
  BY Zenon DEF CountCollisions
<1>3. collisions_left[w] \in 0..CollisionsLeft /\ CollisionsLeft \in Nat
  BY <1>1, LimitsAssumption DEF TypeOK
<1>4. sum \in 0..collisions_left[w] OBVIOUS
<1>5. collisions_left'[w] = left BY <1>1, <1>2 DEF TypeOK
<1> HIDE DEF sum
<1>6. collisions_left'[w] \in 0..CollisionsLeft BY <1>3, <1>4, <1>5
<1>7. phase'[w] \in {"gather", "collect"} BY <1>1, <1>2 DEF Types, Goto
<1>8. stacks'[w] = <<>> /\ \A v \in Workers : stacks[v] = <<>> BY <1>2, MutexFree
<1>9. WorkerInv(w)' BY <1>6, <1>7, <1>8, IdleWorker
<1>10. Unobserved(w) BY <1>8 DEF Unobserved
<1>11. SharedInv' BY <1>2 DEF IInv, SharedInv
<1> QED BY <1>2, <1>7, <1>9, <1>10, <1>11, WorkerStepInv

\* A collision that grew.
LEMMA GrownIs ==
  ASSUME NEW item \in Items, IsCollision(item), NEW extra \in Nat, NEW g,
         g = [item EXCEPT !.multivisit = @ + extra]
  PROVE  /\ g \in Items /\ IsCollision(g) /\ g.multivisit = item.multivisit + extra
         /\ \A x : /\ ItemWeight(x)[g] = ItemWeight(x)[item] + extra * Occurrences(x, Front(item.path))
                   /\ VisitWeight(x)[g] = 0 /\ VisitWeight(x)[item] = 0
<1> DEFINE p == item.path m == item.multivisit c == item.is_collision v == item.maxvisit
<1>1. item = [path |-> p, multivisit |-> m, is_collision |-> c, maxvisit |-> v]
      /\ p \in Paths /\ m \in Nat \ {0} /\ c \in BOOLEAN /\ v \in BOOLEAN
  BY DEF Items
<1>2. c BY DEF IsCollision
<1>3. g = [item EXCEPT !.multivisit = m + extra] BY Zenon
<1>0. item.path = p /\ item.multivisit = m /\ item.is_collision = c OBVIOUS
<1> HIDE DEF p, m, c, v
<1>4. g = [path |-> p, multivisit |-> m + extra, is_collision |-> c, maxvisit |-> v]
  BY <1>1, <1>3
<1>5. m + extra \in Nat \ {0} BY <1>1
<1>6. g \in Items /\ g.path = p /\ g.multivisit = m + extra /\ g.is_collision = c
  BY <1>1, <1>4, <1>5 DEF Items
<1>7. IsCollision(g) BY <1>2, <1>6 DEF IsCollision
<1>8. ASSUME NEW x
      PROVE  /\ ItemWeight(x)[g] = ItemWeight(x)[item] + extra * Occurrences(x, Front(p))
             /\ VisitWeight(x)[g] = 0 /\ VisitWeight(x)[item] = 0
  <2> DEFINE o == Occurrences(x, Front(p))
  <2>1. Front(p) \in Seq(Nodes) BY <1>1, OccurrencesAtEnd
  <2>2. o \in Nat BY <2>1, OccurrencesNat
  <2>3. ItemWeight(x)[g] = (m + extra) * o BY <1>2, <1>6, Zenon DEF ItemWeight, Holds, IsVisit
  <2>4. ItemWeight(x)[item] = m * o BY <1>0, <1>2, Zenon DEF ItemWeight, Holds, IsVisit
  <2>5. (m + extra) * o = m * o + extra * o BY <1>1, <2>2, Distributes
  <2>6. VisitWeight(x)[g] = 0 /\ VisitWeight(x)[item] = 0
    BY <1>0, <1>2, <1>6, Zenon DEF VisitWeight, Extends, IsVisit
  <2> QED BY <2>3, <2>4, <2>5, <2>6
<1> QED BY <1>0, <1>6, <1>7, <1>8

\* CountCollisions without a collision that grows.
LEMMA CountOnlyInv ==
  ASSUME IInv, NEW w \in Workers, CountCollisions(w),
         n_in_flight' = n_in_flight, minibatch' = minibatch
  PROVE  IInv'
<1>1. Types /\ TypeOK BY TypesOf DEF IInv
<1> DEFINE F == CollisionVisits(minibatch[w])
           left == collisions_left[w] - SumFunctionOnSet(CollisionVisits(minibatch'[w]), Fresh(w))
<1>2. /\ phase[w] = "grow" /\ NodesMutexFree
      /\ collisions_left' = [collisions_left EXCEPT ![w] = left]
      /\ \/ Goto(w, "gather")
         \/ Goto(w, "collect")
      /\ visited' = visited /\ stray' = stray /\ halting' = halting /\ stacks' = stacks
      /\ new_start' = new_start /\ shared_collisions' = shared_collisions /\ picks' = picks
  BY Zenon DEF CountCollisions
<1>3. minibatch[w] \in Seq(Items) BY <1>1 DEF Types
<1>4. SumFunctionOnSet(F, Fresh(w)) <= collisions_left[w] BY <1>2 DEF IInv, FreshInv
<1>5. SumFunctionOnSet(F, Fresh(w)) \in Nat
  <2>1. Fresh(w) \subseteq DOMAIN minibatch[w] /\ IsFiniteSet(Fresh(w)) BY <1>1, FreshIs
  <2>2. \A k \in Fresh(w) : F[k] \in Nat BY <1>3, <2>1, CollisionVisitsNat
  <2> HIDE DEF F
  <2> QED BY <2>1, <2>2, SumNat
<1>6. SumFunctionOnSet(CollisionVisits(minibatch'[w]), Fresh(w)) \in 0..collisions_left[w]
  <2>1. collisions_left[w] \in Nat BY <1>1, LimitsAssumption DEF TypeOK
  <2>2. SumFunctionOnSet(F, Fresh(w)) \in 0..collisions_left[w]
    <3> DEFINE s == SumFunctionOnSet(F, Fresh(w))
    <3>1. s \in Nat /\ s <= collisions_left[w] BY <1>4, <1>5
    <3> HIDE DEF s
    <3>2. s \in 0..collisions_left[w] BY <2>1, <3>1
    <3> QED BY <3>2 DEF s
  <2> QED BY <2>2
<1>7. left \in Int
  <2> DEFINE s == SumFunctionOnSet(CollisionVisits(minibatch'[w]), Fresh(w))
  <2>1. s \in Int BY <1>5
  <2>2. collisions_left[w] \in Int BY <1>1 DEF Types
  <2> HIDE DEF s
  <2>3. collisions_left[w] - s \in Int BY <2>1, <2>2
  <2> QED BY <2>3 DEF s
<1> HIDE DEF left, F
<1>8. phase' \in [Workers -> Phases] /\ phase'[w] \in {"gather", "collect"}
      /\ \A v \in Workers \ {w} : phase'[v] = phase[v]
  <2>1. "gather" \in Phases /\ "collect" \in Phases BY DEF Phases
  <2> QED BY <1>2, <2>1, NextTypes
<1>9. Types'
  <2>1. collisions_left' \in [Workers -> Int] BY <1>1, <1>2, <1>7 DEF Types
  <2> QED BY <1>1, <1>2, <1>8, <2>1, Zenon DEF Types
<1>10. OthersUnchanged(w) BY <1>1, <1>2, <1>8 DEF OthersUnchanged, Types
<1>11. stacks[w] = <<>> /\ stacks'[w] = <<>> BY <1>2, MutexFree
<1>12. AccountMoves(w)
  <2> SUFFICES ASSUME NEW x \in Nodes
               PROVE  n_in_flight'[x] - stray'[x] = n_in_flight[x] - stray[x]
                        - Total(shared_collisions, ItemWeight(x)) + Total(shared_collisions', ItemWeight(x))
                        - HeldBy(x, minibatch[w], phase[w], stacks[w])
                        + HeldBy(x, minibatch[w], phase[w], stacks[w])'
    BY DEF AccountMoves
  <2> DEFINE a == Total(shared_collisions, ItemWeight(x))
             b == Total(minibatch[w], ItemWeight(x))
             n == n_in_flight[x] s == stray[x]
  <2>1. HeldBy(x, minibatch[w], phase[w], stacks[w]) = b
        /\ HeldBy(x, minibatch[w], phase[w], stacks[w])' = b
    <3>1. /\ HeldBy(x, minibatch[w], phase[w], stacks[w])
              = Total(minibatch[w], IF phase[w] = "compute" THEN ComputingWeight(x) ELSE ItemWeight(x))
          /\ HeldBy(x, minibatch[w], phase[w], stacks[w])'
              = Total(minibatch'[w], IF phase'[w] = "compute" THEN ComputingWeight(x) ELSE ItemWeight(x))
      BY <1>1, <1>9, <1>11, HeldWithoutTasks
    <3> QED BY <1>2, <1>8, <3>1
  <2>2. a \in Nat /\ b \in Nat
    <3>1. shared_collisions \in Seq(Items) BY <1>1 DEF Types
    <3> QED BY <1>3, <3>1, ItemWeightNat, TotalNat DEF NatWeight
  <2>3. n \in Int /\ s \in Int BY <1>1 DEF Types
  <2> HIDE DEF a, b, n, s
  <2>4. n - s = n - s - a + a - b + b BY <2>2, <2>3
  <2> QED BY <1>2, <2>1, <2>4 DEF a, n, s
<1>13. ExtendingFalls(w)
  <2> SUFFICES ASSUME NEW x
               PROVE  ExtendedBy(x, minibatch'[w], stacks'[w]) <= ExtendedBy(x, minibatch[w], stacks[w])
    BY DEF ExtendingFalls
  <2>1. ExtendedBy(x, minibatch[w], stacks[w]) \in Nat BY <1>1, WorkerNat, Zenon DEF Types
  <2> QED BY <1>2, <2>1
<1> QED BY <1>6, <1>9, <1>10, <1>12, <1>13, CountCollisionsKeeps

\* CountCollisions with one: it is the pick's only collision, and grows within what is left.
LEMMA CountGrownInv ==
  ASSUME IInv, NEW w \in Workers, CountCollisions(w),
         NEW j \in Fresh(w), NEW extra \in 1..CollisionsLeft, GrowCollision(w, j, extra)
  PROVE  IInv'
<1> DEFINE items == minibatch[w] item == items[j] cl == collisions_left[w]
           g == [item EXCEPT !.multivisit = @ + extra]
           left == cl - SumFunctionOnSet(CollisionVisits(minibatch'[w]), Fresh(w))
           path == Front(item.path)
<1>1. Types /\ TypeOK BY TypesOf DEF IInv
<1>2. /\ phase[w] = "grow" /\ NodesMutexFree
      /\ collisions_left' = [collisions_left EXCEPT ![w] = left]
      /\ \/ Goto(w, "gather")
         \/ Goto(w, "collect")
      /\ visited' = visited /\ stray' = stray /\ halting' = halting /\ stacks' = stacks
      /\ new_start' = new_start /\ shared_collisions' = shared_collisions /\ picks' = picks
  BY Zenon DEF CountCollisions
<1>3. /\ IsCollision(item) /\ item.maxvisit
      /\ cl > item.multivisit /\ extra \in 1..(cl - item.multivisit)
      /\ n_in_flight' = Raise(n_in_flight, path, extra)
      /\ minibatch' = [minibatch EXCEPT ![w][j].multivisit = @ + extra]
  BY DEF GrowCollision, IsCollision
<1>4. items \in Seq(Items) /\ shared_collisions \in Seq(Items) /\ Fresh(w) \subseteq DOMAIN items
      /\ IsFiniteSet(Fresh(w)) /\ n_in_flight \in [Nodes -> Nat] /\ stray \in [Nodes -> Nat]
      /\ cl \in Nat
  BY <1>1, FreshIs, LimitsAssumption DEF TypeOK
<1>5. j \in DOMAIN items /\ item \in Items BY <1>4
<1>6. extra \in Nat BY LimitsAssumption
<1>7. /\ g \in Items /\ IsCollision(g) /\ g.multivisit = item.multivisit + extra
      /\ \A x : /\ ItemWeight(x)[g] = ItemWeight(x)[item] + extra * Occurrences(x, path)
                /\ VisitWeight(x)[g] = 0 /\ VisitWeight(x)[item] = 0
  <2> DEFINE it == item
  <2>1. it \in Items /\ IsCollision(it) BY <1>3, <1>5
  <2> HIDE DEF it
  <2>2. ASSUME NEW h, h = [it EXCEPT !.multivisit = @ + extra]
        PROVE  /\ h \in Items /\ IsCollision(h) /\ h.multivisit = it.multivisit + extra
               /\ \A x : /\ ItemWeight(x)[h] = ItemWeight(x)[it] + extra * Occurrences(x, Front(it.path))
                         /\ VisitWeight(x)[h] = 0 /\ VisitWeight(x)[it] = 0
    BY <1>6, <2>1, <2>2, GrownIs
  <2> QED BY <2>2, Zenon DEF it
<1>8. item.multivisit \in Nat BY <1>5 DEF Items
<1> DEFINE grown == [items EXCEPT ![j] = g]
<1>9. minibatch'[w] = grown /\ \A v \in Workers \ {w} : minibatch'[v] = minibatch[v]
  <2>1. minibatch \in [Workers -> Seq(Items)] BY <1>1 DEF TypeOK
  <2>2. minibatch' = [minibatch EXCEPT ![w] = [minibatch[w] EXCEPT ![j] =
                        [minibatch[w][j] EXCEPT !.multivisit = @ + extra]]]
    BY <1>3, Zenon
  <2>3. minibatch' = [minibatch EXCEPT ![w] = grown] BY <2>2, Zenon
  <2> HIDE DEF grown
  <2> QED BY <2>1, <2>3
<1>10. /\ grown \in Seq(Items)
       /\ \A h : Weighs(h, Items) => Total(grown, h) = Total(items, h) - h[item] + h[g]
  <2>0. items \in Seq(Items) /\ j \in DOMAIN items /\ g \in Items BY <1>4, <1>5, <1>7
  <2> HIDE DEF g, items
  <2>1. ASSUME NEW h, Weighs(h, Items)
        PROVE  grown \in Seq(Items) /\ Total(grown, h) = Total(items, h) - h[items[j]] + h[g]
    BY <2>0, <2>1, TotalUpdate
  <2> HIDE DEF grown
  <2> QED BY <2>1, PlacedWeightNat, NatWeighs
<1>11. grown[j] = g /\ DOMAIN grown = DOMAIN items /\ \A k \in DOMAIN items : k # j => grown[k] = items[k]
  BY <1>4, <1>5
<1> HIDE DEF g, path
<1>12. SumFunctionOnSet(CollisionVisits(grown), Fresh(w)) = item.multivisit + extra
  <2> DEFINE F == CollisionVisits(grown) S == Fresh(w) \ {j}
  <2> HIDE DEF grown, items
  <2>1. \A k \in DOMAIN grown : F[k] \in Nat
          /\ (IsCollision(grown[k]) => F[k] = grown[k].multivisit)
          /\ (~IsCollision(grown[k]) => F[k] = 0)
    BY <1>10, CollisionVisitsNat
  <2>2. F[j] = item.multivisit + extra BY <1>5, <1>7, <1>11, <2>1
  <2>3. \A k \in Fresh(w) : IsCollision(items[k]) => k = j
    <3>1. \A k, l \in Fresh(w) : minibatch[w][k].maxvisit /\ IsCollision(minibatch[w][l]) => k = l
      BY <1>2 DEF IInv, FreshInv
    <3> QED BY <1>3, <3>1 DEF items
  <2>4. \A k \in S : F[k] = 0 BY <1>4, <1>11, <2>1, <2>3
  <2>5. \A k \in Fresh(w) : F[k] \in Int BY <1>4, <1>11, <2>1
  <2> HIDE DEF F
  <2>6. SumFunctionOnSet(F, Fresh(w)) = F[j] + SumFunctionOnSet(F, S)
    <3>1. IsFiniteSet(Fresh(w)) BY <1>4
    <3> QED BY <2>5, <3>1, SumRemove
  <2>7. IsFiniteSet(S) BY <1>4, FS_Subset
  <2>8. SumFunctionOnSet(F, S) = 0 BY <2>4, <2>7, SumZero
  <2> QED BY <1>6, <1>8, <2>2, <2>6, <2>8 DEF F
<1> HIDE DEF grown, items
<1> DEFINE sum == SumFunctionOnSet(CollisionVisits(minibatch'[w]), Fresh(w))
<1>13. sum = item.multivisit + extra BY <1>9, <1>12
<1> HIDE DEF sum
<1>14. sum \in 0..cl /\ left \in Int
  <2> HIDE DEF cl
  <2>1. sum \in Nat /\ sum <= cl BY <1>3, <1>4, <1>6, <1>8, <1>13
  <2>2. left = cl - sum BY DEF sum
  <2> HIDE DEF left
  <2> QED BY <1>4, <2>1, <2>2
<1> HIDE DEF left
<1>15. phase' \in [Workers -> Phases] /\ phase'[w] \in {"gather", "collect"}
      /\ \A v \in Workers \ {w} : phase'[v] = phase[v]
  <2>1. "gather" \in Phases /\ "collect" \in Phases BY DEF Phases
  <2> QED BY <1>2, <2>1, NextTypes
<1>16. Front(item.path) \in Seq(Nodes)
  <2>1. item.path \in Paths BY <1>5 DEF Items
  <2> QED BY <2>1, OccurrencesAtEnd
<1>17. /\ n_in_flight' \in [Nodes -> Nat]
       /\ \A x \in Nodes : /\ n_in_flight'[x] = n_in_flight[x] + extra * Occurrences(x, path)
                           /\ extra * Occurrences(x, path) \in Nat
  <2>1. path \in Seq(Nodes) BY <1>16 DEF path
  <2> DEFINE r == Raise(n_in_flight, path, extra)
  <2>2. /\ r \in [Nodes -> Nat]
        /\ \A x \in Nodes : /\ r[x] = n_in_flight[x] + extra * Occurrences(x, path)
                            /\ extra * Occurrences(x, path) \in Nat
    BY <1>4, <1>6, <2>1, RaiseIs, Zenon
  <2>3. n_in_flight' = r BY <1>3
  <2> HIDE DEF r
  <2> QED BY <2>2, <2>3, Zenon
<1>18. Types'
  <2>1. collisions_left' \in [Workers -> Int] BY <1>1, <1>2, <1>14 DEF Types
  <2>2. minibatch' \in [Workers -> Seq(Items)]
    <3>1. minibatch \in [Workers -> Seq(Items)] BY <1>1 DEF TypeOK
    <3>2. minibatch' = [minibatch EXCEPT ![w] = minibatch'[w]] BY <1>3, <3>1
    <3> QED BY <1>9, <1>10, <3>1, <3>2, Zenon
  <2> QED BY <1>1, <1>2, <1>15, <1>17, <2>1, <2>2 DEF Types
<1>19. OthersUnchanged(w) BY <1>1, <1>2, <1>9, <1>15 DEF OthersUnchanged, Types
<1>20. stacks[w] = <<>> /\ stacks'[w] = <<>> BY <1>2, MutexFree
<1>21. AccountMoves(w)
  <2> SUFFICES ASSUME NEW x \in Nodes
               PROVE  n_in_flight'[x] - stray'[x] = n_in_flight[x] - stray[x]
                        - Total(shared_collisions, ItemWeight(x)) + Total(shared_collisions', ItemWeight(x))
                        - HeldBy(x, minibatch[w], phase[w], stacks[w])
                        + HeldBy(x, minibatch[w], phase[w], stacks[w])'
    BY DEF AccountMoves
  <2> DEFINE a == Total(shared_collisions, ItemWeight(x))
             b0 == Total(items, ItemWeight(x)) b1 == Total(grown, ItemWeight(x))
             n0 == n_in_flight[x] n1 == n_in_flight'[x] s == stray[x]
             p == ItemWeight(x)[item] q == ItemWeight(x)[g] r == extra * Occurrences(x, path)
  <2>1. HeldBy(x, minibatch[w], phase[w], stacks[w]) = b0
        /\ HeldBy(x, minibatch[w], phase[w], stacks[w])' = b1
    <3>1. /\ HeldBy(x, minibatch[w], phase[w], stacks[w])
              = Total(minibatch[w], IF phase[w] = "compute" THEN ComputingWeight(x) ELSE ItemWeight(x))
          /\ HeldBy(x, minibatch[w], phase[w], stacks[w])'
              = Total(minibatch'[w], IF phase'[w] = "compute" THEN ComputingWeight(x) ELSE ItemWeight(x))
      BY <1>1, <1>18, <1>20, HeldWithoutTasks
    <3> QED BY <1>2, <1>9, <1>15, <3>1 DEF items
  <2>2. a \in Nat /\ b0 \in Nat BY <1>4, ItemWeightNat, TotalNat DEF NatWeight
  <2>3. n0 \in Int /\ s \in Int /\ n1 = n0 + r /\ r \in Nat BY <1>4, <1>17
  <2>4. b1 = b0 - p + q BY <1>10, ItemWeightNat, NatWeighs
  <2>5. q = p + r BY <1>7
  <2>6. p \in Nat BY <1>5, ItemWeightNat DEF NatWeight
  <2> HIDE DEF a, b0, b1, n0, n1, s, p, q, r
  <2>7. n1 - s = n0 - s - a + a - b0 + b1 BY <2>2, <2>3, <2>4, <2>5, <2>6
  <2> QED BY <1>2, <2>1, <2>7 DEF a, n0, n1, s
<1>22. ExtendingFalls(w)
  <2> SUFFICES ASSUME NEW x
               PROVE  ExtendedBy(x, minibatch'[w], stacks'[w]) <= ExtendedBy(x, minibatch[w], stacks[w])
    BY DEF ExtendingFalls
  <2>1. ExtendedBy(x, items, <<>>) = Total(items, VisitWeight(x))
    BY <1>4, ExtendedWithoutTasks
  <2>2. ExtendedBy(x, grown, <<>>) = Total(grown, VisitWeight(x))
    BY <1>10, ExtendedWithoutTasks
  <2>3. Total(grown, VisitWeight(x)) = Total(items, VisitWeight(x))
                                         - VisitWeight(x)[item] + VisitWeight(x)[g]
    BY <1>10, VisitWeightNat, NatWeighs
  <2>4. Total(items, VisitWeight(x)) \in Nat BY <1>4, VisitWeightNat, TotalNat DEF NatWeight
  <2>5. VisitWeight(x)[g] = 0 /\ VisitWeight(x)[item] = 0 BY <1>7
  <2>6. Total(grown, VisitWeight(x)) <= Total(items, VisitWeight(x)) BY <2>3, <2>4, <2>5
  <2> QED BY <1>9, <1>20, <2>1, <2>2, <2>6 DEF items
<1>23. SumFunctionOnSet(CollisionVisits(minibatch'[w]), Fresh(w)) \in 0..collisions_left[w]
  BY <1>14 DEF sum
<1> QED BY <1>18, <1>19, <1>21, <1>22, <1>23, CountCollisionsKeeps

\* CountCollisions keeps the invariant.
LEMMA CountCollisionsInv ==
  ASSUME IInv, NEW w \in Workers, CountCollisions(w) PROVE IInv'
<1>1. \/ n_in_flight' = n_in_flight /\ minibatch' = minibatch
      \/ \E j \in Fresh(w), extra \in 1..CollisionsLeft : GrowCollision(w, j, extra)
  BY DEF CountCollisions
<1>2. CASE n_in_flight' = n_in_flight /\ minibatch' = minibatch BY <1>2, CountOnlyInv
<1>3. CASE \E j \in Fresh(w), extra \in 1..CollisionsLeft : GrowCollision(w, j, extra)
  BY <1>3, CountGrownInv
<1> QED BY <1>1, <1>2, <1>3

-----------------------------------------------------------------------------
(* Out of order results. *)

\* Two parts of a sequence, and the others.
LEMMA TotalThree ==
  ASSUME NEW T, NEW s \in Seq(T), NEW K \in SUBSET DOMAIN s, NEW L \in SUBSET DOMAIN s,
         K \cap L = {}, NEW h, Weighs(h, T)
  PROVE  Total(s, h) = Total(Subsequence(s, DOMAIN s \ (K \cup L)), h)
                         + Total(Subsequence(s, K), h) + Total(Subsequence(s, L), h)
<1> DEFINE f == [k \in DOMAIN s |-> h[s[k]]] R == DOMAIN s \ (K \cup L) M == K \cup L
<1>1. Total(s, h) = SumFunctionOnSet(f, DOMAIN s) /\ IsFiniteSet(DOMAIN s)
      /\ \A k \in DOMAIN s : f[k] \in Int
  BY TotalIs
<1>2. Total(Subsequence(s, K), h) = SumFunctionOnSet(f, K) BY TotalSubsequence
<1>3. Total(Subsequence(s, L), h) = SumFunctionOnSet(f, L) BY TotalSubsequence
<1>4. R \in SUBSET DOMAIN s /\ M \in SUBSET DOMAIN s /\ R \cup M = DOMAIN s /\ R \cap M = {}
      /\ M = K \cup L
  BY Zenon
<1> HIDE DEF R, M
<1>5. Total(Subsequence(s, R), h) = SumFunctionOnSet(f, R) BY <1>4, TotalSubsequence
<1> HIDE DEF f
<1>6. IsFiniteSet(K) /\ IsFiniteSet(L) /\ IsFiniteSet(R) /\ IsFiniteSet(M) BY <1>1, <1>4, FS_Subset
<1>7. SumFunctionOnSet(f, R \cup M) = SumFunctionOnSet(f, R) + SumFunctionOnSet(f, M)
  BY <1>1, <1>4, <1>6, SumUnion
<1>8. SumFunctionOnSet(f, K \cup L) = SumFunctionOnSet(f, K) + SumFunctionOnSet(f, L)
  BY <1>1, <1>6, SumUnion
<1>9. SumFunctionOnSet(f, R) \in Int BY <1>1, <1>4, <1>6, SumType
<1>10. SumFunctionOnSet(f, K) \in Int /\ SumFunctionOnSet(f, L) \in Int BY <1>1, <1>6, SumType
<1>11. SumFunctionOnSet(f, DOMAIN s) = SumFunctionOnSet(f, R) + SumFunctionOnSet(f, M)
  BY <1>4, <1>7, Zenon
<1>12. SumFunctionOnSet(f, M) = SumFunctionOnSet(f, K) + SumFunctionOnSet(f, L)
  BY <1>4, <1>8, Zenon
<1>13. Total(s, h) = Total(Subsequence(s, R), h)
                         + Total(Subsequence(s, K), h) + Total(Subsequence(s, L), h)
  BY <1>1, <1>2, <1>3, <1>5, <1>9, <1>10, <1>11, <1>12
<1> QED BY <1>13 DEF R

\* The visits whose result was at hand, and the collisions of the pick, leave
\* the minibatch.
Settles(w, ready, completed, collisions) ==
  /\ ready \subseteq Nodes
  /\ completed \subseteq DOMAIN minibatch[w] /\ \A k \in completed : IsVisit(minibatch[w][k])
  /\ collisions = CollisionsAt(minibatch[w]) \cap Fresh(w)
  /\ n_in_flight' = Settled(Subsequence(minibatch[w], completed), Subsequence(minibatch[w], collisions))
  /\ visited' = visited \cup ready
  /\ minibatch' = [minibatch EXCEPT ![w] =
       Subsequence(minibatch[w], DOMAIN minibatch[w] \ (completed \cup collisions))]

OutOfOrderFrame(w) ==
  /\ phase[w] = "process" /\ NodesMutexFree /\ Goto(w, "grow")
  /\ UNCHANGED <<stray, halting, stacks, new_start, collisions_left, shared_collisions, picks>>

\* OutOfOrder settles what was at hand, or nothing.
LEMMA OutOfOrderIs ==
  ASSUME Types, NEW w \in Workers, OutOfOrder(w)
  PROVE  /\ OutOfOrderFrame(w)
         /\ \/ visited' = visited /\ n_in_flight' = n_in_flight /\ minibatch' = minibatch
            \/ \E ready, completed, collisions : Settles(w, ready, completed, collisions)
<1> DEFINE items == minibatch[w]
           visits == VisitsAt(items) \cap Fresh(w)
           collisions == CollisionsAt(items) \cap Fresh(w)
           Completed(ready) == {k \in visits : Leaf(items[k]) \in ready}
<1>1. OutOfOrderFrame(w) BY DEF OutOfOrder, OutOfOrderFrame
<1>2. PICK ready \in SUBSET {Leaf(items[k]) : k \in visits} :
        IF ready = {}
        THEN UNCHANGED <<visited, n_in_flight, minibatch>>
        ELSE /\ n_in_flight' = Settled(Subsequence(items, Completed(ready)),
                                       Subsequence(items, collisions))
             /\ visited' = visited \cup ready
             /\ minibatch' = [minibatch EXCEPT ![w] =
                  Subsequence(items, DOMAIN items \ (Completed(ready) \cup collisions))]
  BY Zenon DEF OutOfOrder
<1>3. CASE ready = {} BY <1>1, <1>2, <1>3
<1>4. CASE ready # {}
  <2>1. /\ n_in_flight' = Settled(Subsequence(items, Completed(ready)),
                                  Subsequence(items, collisions))
        /\ visited' = visited \cup ready
        /\ minibatch' = [minibatch EXCEPT ![w] =
             Subsequence(items, DOMAIN items \ (Completed(ready) \cup collisions))]
    BY <1>2, <1>4, Zenon
  <2>2. Completed(ready) \subseteq DOMAIN items /\ \A k \in Completed(ready) : IsVisit(items[k])
    BY DEF VisitsAt
  <2>3. ready \subseteq Nodes
    <3> SUFFICES ASSUME NEW r \in ready PROVE r \in Nodes OBVIOUS
    <3>1. PICK k \in visits : r = Leaf(items[k]) OBVIOUS
    <3>2. items \in Seq(Items) /\ k \in DOMAIN items BY DEF Types, VisitsAt
    <3>3. items[k] \in Items BY <3>2
    <3>4. items[k].path \in Paths BY <3>3 DEF Items
    <3> QED BY <3>1, <3>4, OccurrencesAtEnd DEF Leaf
  <2>4. Settles(w, ready, Completed(ready), collisions) BY <2>1, <2>2, <2>3, Zenon DEF Settles
  <2> QED BY <1>1, <2>4
<1> QED BY <1>3, <1>4

\* What else it does.
LEMMA ProcessedFrame ==
  ASSUME IInv, NEW w \in Workers, OutOfOrderFrame(w)
  PROVE  /\ Types /\ TypeOK
         /\ phase' \in [Workers -> Phases] /\ phase'[w] = "grow"
         /\ \A v \in Workers \ {w} : phase'[v] = phase[v]
         /\ stacks[w] = <<>> /\ stacks'[w] = <<>> /\ \A v \in Workers : stacks[v] = <<>>
         /\ minibatch[w] \in Seq(Items) /\ shared_collisions \in Seq(Items)
         /\ collisions_left[w] \in 0..CollisionsLeft
<1>1. TypeOK /\ Types BY TypesOf DEF IInv
<1>2. "grow" \in Phases BY DEF Phases
<1>3. phase' \in [Workers -> Phases] /\ phase'[w] = "grow"
      /\ \A v \in Workers \ {w} : phase'[v] = phase[v]
  BY <1>2, NextTypes DEF OutOfOrderFrame
<1>4. stacks[w] = <<>> /\ stacks'[w] = <<>> /\ \A v \in Workers : stacks[v] = <<>>
  BY MutexFree DEF OutOfOrderFrame
<1> QED BY <1>1, <1>3, <1>4, Zenon DEF TypeOK

\* What the invariant says of a worker that counts its collisions.
LEMMA GrowWorker ==
  ASSUME NEW w \in Workers, stacks'[w] = <<>>, phase'[w] = "grow", FreshInv(w)',
         collisions_left'[w] \in 0..CollisionsLeft
  PROVE  WorkerInv(w)'
<1>1. DOMAIN stacks'[w] = {} OBVIOUS
<1>2. LimitInv(w)' BY DEF LimitInv
<1> QED BY <1>1, <1>2 DEF WorkerInv

\* OutOfOrder when no result is at hand.
LEMMA NothingProcessedInv ==
  ASSUME IInv, NEW w \in Workers, OutOfOrderFrame(w),
         visited' = visited, n_in_flight' = n_in_flight, minibatch' = minibatch
  PROVE  IInv'
<1>1. /\ Types /\ TypeOK
      /\ phase' \in [Workers -> Phases] /\ phase'[w] = "grow"
      /\ \A v \in Workers \ {w} : phase'[v] = phase[v]
      /\ stacks[w] = <<>> /\ stacks'[w] = <<>> /\ \A v \in Workers : stacks[v] = <<>>
      /\ minibatch[w] \in Seq(Items) /\ shared_collisions \in Seq(Items)
      /\ collisions_left[w] \in 0..CollisionsLeft
  BY ProcessedFrame
<1>2. /\ phase[w] = "process" /\ stray' = stray /\ halting' = halting /\ stacks' = stacks
      /\ new_start' = new_start /\ collisions_left' = collisions_left
      /\ shared_collisions' = shared_collisions /\ picks' = picks
  BY DEF OutOfOrderFrame
<1>3. Types' BY <1>1, <1>2 DEF Types
<1>4. FreshInv(w)' BY <1>2 DEF IInv, FreshInv, Fresh
<1>5. WorkerInv(w)' BY <1>1, <1>2, <1>4, GrowWorker
<1>6. OthersUnchanged(w) BY <1>1, <1>2 DEF OthersUnchanged
<1>7. Unobserved(w) BY <1>1 DEF Unobserved
<1>8. SharedInv' BY <1>2 DEF IInv, SharedInv
<1>9. AccountMoves(w)
  <2> SUFFICES ASSUME NEW x \in Nodes
               PROVE  n_in_flight'[x] - stray'[x] = n_in_flight[x] - stray[x]
                        - Total(shared_collisions, ItemWeight(x)) + Total(shared_collisions', ItemWeight(x))
                        - HeldBy(x, minibatch[w], phase[w], stacks[w])
                        + HeldBy(x, minibatch[w], phase[w], stacks[w])'
    BY DEF AccountMoves
  <2> DEFINE a == Total(shared_collisions, ItemWeight(x))
             b == Total(minibatch[w], ItemWeight(x))
             n == n_in_flight[x] s == stray[x]
  <2>1. HeldBy(x, minibatch[w], phase[w], stacks[w]) = b
        /\ HeldBy(x, minibatch[w], phase[w], stacks[w])' = b
    <3>1. /\ HeldBy(x, minibatch[w], phase[w], stacks[w])
              = Total(minibatch[w], IF phase[w] = "compute" THEN ComputingWeight(x) ELSE ItemWeight(x))
          /\ HeldBy(x, minibatch[w], phase[w], stacks[w])'
              = Total(minibatch'[w], IF phase'[w] = "compute" THEN ComputingWeight(x) ELSE ItemWeight(x))
      BY <1>1, <1>3, HeldWithoutTasks, Zenon
    <3> QED BY <1>1, <1>2, <3>1
  <2>2. a \in Nat /\ b \in Nat BY <1>1, ItemWeightNat, TotalNat DEF NatWeight
  <2>3. n \in Int /\ s \in Int BY <1>1 DEF Types
  <2> HIDE DEF a, b, n, s
  <2>4. n - s = n - s - a + a - b + b BY <2>2, <2>3
  <2> QED BY <1>2, <2>1, <2>4 DEF a, n, s
<1>10. ExtendingFalls(w)
  <2> SUFFICES ASSUME NEW x
               PROVE  ExtendedBy(x, minibatch'[w], stacks'[w]) <= ExtendedBy(x, minibatch[w], stacks[w])
    BY DEF ExtendingFalls
  <2>1. ExtendedBy(x, minibatch[w], stacks[w]) \in Nat BY <1>1, WorkerNat, Zenon DEF Types
  <2> QED BY <1>2, <2>1
<1> QED BY <1>1, <1>3, <1>5, <1>6, <1>7, <1>8, <1>9, <1>10, WorkerStepInv

\* OutOfOrder when there is one: none of the pick's collisions stay in the minibatch.
LEMMA ProcessedInv ==
  ASSUME IInv, NEW w \in Workers, OutOfOrderFrame(w),
         NEW ready, NEW completed, NEW collisions, Settles(w, ready, completed, collisions)
  PROVE  IInv'
<1> DEFINE items == minibatch[w] done == Subsequence(items, completed)
           cancelled == Subsequence(items, collisions)
           K == DOMAIN items \ (completed \cup collisions) kept == Subsequence(items, K)
<1>1. /\ Types /\ TypeOK
      /\ phase' \in [Workers -> Phases] /\ phase'[w] = "grow"
      /\ \A v \in Workers \ {w} : phase'[v] = phase[v]
      /\ stacks[w] = <<>> /\ stacks'[w] = <<>> /\ \A v \in Workers : stacks[v] = <<>>
      /\ items \in Seq(Items) /\ shared_collisions \in Seq(Items)
      /\ collisions_left[w] \in 0..CollisionsLeft
  BY ProcessedFrame
<1>2. /\ phase[w] = "process" /\ stray' = stray /\ halting' = halting /\ stacks' = stacks
      /\ new_start' = new_start /\ collisions_left' = collisions_left
      /\ shared_collisions' = shared_collisions /\ picks' = picks
  BY DEF OutOfOrderFrame
<1>3. /\ ready \subseteq Nodes
      /\ completed \in SUBSET DOMAIN items /\ \A k \in completed : IsVisit(items[k])
      /\ collisions = CollisionsAt(items) \cap Fresh(w)
      /\ n_in_flight' = Settled(done, cancelled)
      /\ visited' = visited \cup ready
      /\ minibatch' = [minibatch EXCEPT ![w] = kept]
  BY DEF Settles
<1>4. /\ collisions \in SUBSET DOMAIN items /\ (\A k \in collisions : IsCollision(items[k]))
      /\ completed \cap collisions = {}
  BY <1>3 DEF CollisionsAt, IsVisit, IsCollision
<1>5. K \in SUBSET DOMAIN items /\ \A k \in K : ~(k \in Fresh(w) /\ IsCollision(items[k]))
  BY <1>3 DEF CollisionsAt
<1> HIDE DEF K
<1>6. /\ kept \in Seq(Items)
      /\ \A k \in DOMAIN kept : \E j \in K : j >= k /\ kept[k] = items[j]
  BY <1>1, <1>5, SubsequenceElements
<1>7. done \in Seq(Items) /\ \A k \in DOMAIN done : IsVisit(done[k])
  <2>1. done \in Seq(Items) /\ \A k \in DOMAIN done : \E j \in completed : done[k] = items[j]
    BY <1>1, <1>3, SubsequenceElements
  <2> HIDE DEF done
  <2> QED BY <1>3, <2>1
<1>8. cancelled \in Seq(Items) /\ \A k \in DOMAIN cancelled : IsCollision(cancelled[k])
  <2>1. cancelled \in Seq(Items) /\ \A k \in DOMAIN cancelled : \E j \in collisions : cancelled[k] = items[j]
    BY <1>1, <1>4, SubsequenceElements
  <2> HIDE DEF cancelled
  <2> QED BY <1>4, <2>1
<1>9. \A h : Weighs(h, Items) => Total(items, h) = Total(kept, h) + Total(done, h) + Total(cancelled, h)
  <2> SUFFICES ASSUME NEW h, Weighs(h, Items)
               PROVE  Total(items, h) = Total(kept, h) + Total(done, h) + Total(cancelled, h)
    OBVIOUS
  <2>1. items \in Seq(Items) /\ completed \in SUBSET DOMAIN items
        /\ collisions \in SUBSET DOMAIN items /\ completed \cap collisions = {}
    BY <1>1, <1>3, <1>4
  <2> HIDE DEF items
  <2>2. Total(items, h) = Total(Subsequence(items, DOMAIN items \ (completed \cup collisions)), h)
           + Total(Subsequence(items, completed), h) + Total(Subsequence(items, collisions), h)
    BY <2>1, TotalThree
  <2> QED BY <2>2, Zenon DEF K
<1>10. /\ n_in_flight' \in [Nodes -> Int]
       /\ \A x \in Nodes : n_in_flight'[x] = n_in_flight[x]
            - Total(done, ItemWeight(x)) - Total(cancelled, ItemWeight(x))
  <2> HIDE DEF done, cancelled
  <2> QED BY <1>1, <1>3, <1>7, <1>8, SettledIs, Zenon
<1> HIDE DEF kept, done, cancelled
<1>11. minibatch'[w] = kept /\ \A v \in Workers \ {w} : minibatch'[v] = minibatch[v]
  BY <1>1, <1>3 DEF Types
<1>12. Types'
  <2>1. minibatch' \in [Workers -> Seq(Items)] BY <1>1, <1>3, <1>6 DEF Types
  <2>2. visited' \subseteq Nodes /\ halting' \subseteq visited' BY <1>1, <1>2, <1>3 DEF Types
  <2> QED BY <1>1, <1>2, <1>10, <2>1, <2>2 DEF Types
<1>13. FreshInv(w)'
  <2> DEFINE F == CollisionVisits(kept) S == (new_start[w] + 1)..Len(kept)
  <2>1. new_start[w] \in Nat BY <1>1 DEF Types
  <2>2. S \subseteq DOMAIN kept BY <1>6, <2>1
  <2>3. ASSUME NEW k \in S PROVE ~IsCollision(kept[k])
    <3>1. k \in DOMAIN kept /\ k \in Int /\ k >= new_start[w] + 1 BY <2>1, <2>2
    <3>2. PICK j \in K : j >= k /\ kept[k] = items[j] BY <1>6, <3>1
    <3>3. j \in 1..Len(items) BY <1>1, <1>5
    <3>4. j \in Fresh(w) BY <2>1, <3>1, <3>2, <3>3 DEF Fresh
    <3> QED BY <1>5, <3>2, <3>4
  <2>4. \A k \in S : F[k] = 0 BY <1>6, <2>2, <2>3, CollisionVisitsNat
  <2>5. IsFiniteSet(S)
    <3>1. IsFiniteSet(1..Len(kept)) /\ S \subseteq 1..Len(kept) BY <1>6, <2>2, FS_Interval
    <3> HIDE DEF S
    <3> QED BY <3>1, FS_Subset, Zenon
  <2>6. Fresh(w)' = S BY <1>2, <1>11 DEF Fresh
  <2> HIDE DEF F, S
  <2>7. SumFunctionOnSet(F, S) = 0 BY <2>4, <2>5, SumZero
  <2>8. SumFunctionOnSet(CollisionVisits(minibatch[w]), Fresh(w))' = 0
    BY <1>11, <2>6, <2>7 DEF F
  <2>9. collisions_left'[w] >= 0 BY <1>1, <1>2
  <2>10. (SumFunctionOnSet(CollisionVisits(minibatch[w]), Fresh(w)) <= collisions_left[w])'
    BY <2>8, <2>9
  <2>11. (\A j, k \in Fresh(w) :
            minibatch[w][j].maxvisit /\ IsCollision(minibatch[w][k]) => j = k)'
    BY <1>11, <2>3, <2>6
  <2> QED BY <2>10, <2>11 DEF FreshInv
<1>14. WorkerInv(w)' BY <1>1, <1>2, <1>13, GrowWorker
<1>15. OthersUnchanged(w) BY <1>1, <1>2, <1>11 DEF OthersUnchanged
<1>16. Unobserved(w) BY <1>1 DEF Unobserved
<1>17. SharedInv' BY <1>2 DEF IInv, SharedInv
<1>18. AccountMoves(w)
  <2> SUFFICES ASSUME NEW x \in Nodes
               PROVE  n_in_flight'[x] - stray'[x] = n_in_flight[x] - stray[x]
                        - Total(shared_collisions, ItemWeight(x)) + Total(shared_collisions', ItemWeight(x))
                        - HeldBy(x, minibatch[w], phase[w], stacks[w])
                        + HeldBy(x, minibatch[w], phase[w], stacks[w])'
    BY DEF AccountMoves
  <2> DEFINE a == Total(shared_collisions, ItemWeight(x))
             b0 == Total(items, ItemWeight(x)) b1 == Total(kept, ItemWeight(x))
             d == Total(done, ItemWeight(x)) c == Total(cancelled, ItemWeight(x))
             n0 == n_in_flight[x] n1 == n_in_flight'[x] s == stray[x]
  <2>1. HeldBy(x, minibatch[w], phase[w], stacks[w]) = b0
        /\ HeldBy(x, minibatch[w], phase[w], stacks[w])' = b1
    <3>1. /\ HeldBy(x, minibatch[w], phase[w], stacks[w])
              = Total(minibatch[w], IF phase[w] = "compute" THEN ComputingWeight(x) ELSE ItemWeight(x))
          /\ HeldBy(x, minibatch[w], phase[w], stacks[w])'
              = Total(minibatch'[w], IF phase'[w] = "compute" THEN ComputingWeight(x) ELSE ItemWeight(x))
      BY <1>1, <1>12, HeldWithoutTasks
    <3> QED BY <1>1, <1>2, <1>11, <3>1
  <2>2. a \in Nat /\ b1 \in Nat /\ d \in Nat /\ c \in Nat
    BY <1>1, <1>6, <1>7, <1>8, ItemWeightNat, TotalNat DEF NatWeight
  <2>3. n0 \in Int /\ s \in Int BY <1>1 DEF Types
  <2>4. n1 = n0 - d - c BY <1>10
  <2>5. b0 = b1 + d + c BY <1>9, ItemWeightNat, NatWeighs
  <2> HIDE DEF a, b0, b1, d, c, n0, n1, s
  <2>6. n1 - s = n0 - s - a + a - b0 + b1 BY <2>2, <2>3, <2>4, <2>5
  <2> QED BY <1>2, <2>1, <2>6 DEF a, n0, n1, s
<1>19. ExtendingFalls(w)
  <2> SUFFICES ASSUME NEW x
               PROVE  ExtendedBy(x, minibatch'[w], stacks'[w]) <= ExtendedBy(x, minibatch[w], stacks[w])
    BY DEF ExtendingFalls
  <2>1. ExtendedBy(x, items, <<>>) = Total(items, VisitWeight(x)) BY <1>1, ExtendedWithoutTasks
  <2>2. ExtendedBy(x, kept, <<>>) = Total(kept, VisitWeight(x)) BY <1>6, ExtendedWithoutTasks
  <2>3. Total(items, VisitWeight(x)) = Total(kept, VisitWeight(x)) + Total(done, VisitWeight(x))
                                         + Total(cancelled, VisitWeight(x))
    BY <1>9, VisitWeightNat, NatWeighs
  <2>4. Total(kept, VisitWeight(x)) \in Nat /\ Total(done, VisitWeight(x)) \in Nat
        /\ Total(cancelled, VisitWeight(x)) \in Nat
    BY <1>6, <1>7, <1>8, VisitWeightNat, TotalNat DEF NatWeight
  <2>5. Total(kept, VisitWeight(x)) <= Total(items, VisitWeight(x)) BY <2>3, <2>4
  <2> QED BY <1>1, <1>11, <2>1, <2>2, <2>5
<1> QED BY <1>1, <1>3, <1>12, <1>14, <1>15, <1>16, <1>17, <1>18, <1>19, WorkerStepInv

\* OutOfOrder keeps the invariant.
LEMMA OutOfOrderInv ==
  ASSUME IInv, NEW w \in Workers, OutOfOrder(w) PROVE IInv'
<1>1. Types BY TypesOf DEF IInv
<1>2. /\ OutOfOrderFrame(w)
      /\ \/ visited' = visited /\ n_in_flight' = n_in_flight /\ minibatch' = minibatch
         \/ \E ready, completed, collisions : Settles(w, ready, completed, collisions)
  BY <1>1, OutOfOrderIs
<1>3. CASE visited' = visited /\ n_in_flight' = n_in_flight /\ minibatch' = minibatch
  BY <1>2, <1>3, NothingProcessedInv
<1>4. CASE \E ready, completed, collisions : Settles(w, ready, completed, collisions)
  <2>1. PICK ready, completed, collisions : Settles(w, ready, completed, collisions) BY <1>4
  <2> QED BY <1>2, <2>1, ProcessedInv
<1> QED BY <1>2, <1>3, <1>4

-----------------------------------------------------------------------------
(* A pick begins. *)

\* What a pick starts with is in flight nowhere.
LEMMA RootFrame ==
  ASSUME NEW l \in Nat \ {0}, NEW a, a = Frame(<<Root>>, l)
  PROVE  /\ a \in Frames /\ LeftWeight[a] = l /\ FrameInv(1, a)
         /\ a.step = "arrive" /\ a.path = <<Root>>
<1> DEFINE v == [x \in Nodes |-> 0]
<1>1. a = [path |-> <<Root>>, step |-> "arrive", left |-> l, visits_to_perform |-> v]
  BY DEF Frame
<1>2. v \in [Nodes -> Nat] /\ \A c \in Nodes : v[c] = 0 OBVIOUS
<1>3. SumFunction(v) = 0
  <2>1. SumFunction(v) = SumFunctionOnSet(v, Nodes) BY <1>2, NodesSum
  <2>2. IsFiniteSet(Nodes) BY GraphAssumption
  <2> HIDE DEF v
  <2> QED BY <1>2, <2>1, <2>2, SumZero
<1> HIDE DEF v
<1>4. a \in Frames BY <1>1, <1>2, RootPath DEF Frames, Steps
<1>5. a.left = l /\ a.visits_to_perform = v /\ a.step = "arrive" /\ a.path = <<Root>> BY <1>1
<1>6. LeftWeight[a] = l
  <2>1. LeftWeight[a] = a.left + SumFunction(a.visits_to_perform) BY <1>4 DEF LeftWeight
  <2>2. SumFunction(a.visits_to_perform) = 0 BY <1>3, <1>5
  <2> QED BY <1>5, <2>1, <2>2
<1>7. FrameInv(1, a) BY <1>2, <1>5 DEF FrameInv
<1> QED BY <1>4, <1>5, <1>6, <1>7

\* The weight of a frame that arrives at the root, and what the weights are, after a step.
AtRootNothing ==
  \A x : \A f \in Frames :
    f.step = "arrive" /\ f.path = <<Root>> => FrameWeight(x)[f] = 0
AllFrameWeights == \A x : NatWeight(FrameWeight(x), Frames)

\* In any state,
LEMMA AtRootNothingNow == AtRootNothing /\ AllFrameWeights
  BY FrameWeightIs, FrameWeightNat DEF AtRootNothing, AllFrameWeights

\* hence in the next one.
LEMMA AtRootNothingNext == AtRootNothing' /\ AllFrameWeights'
  BY AtRootNothingNow, PTL

\* A task that starts has nothing in its receiver and one frame.
LEMMA NewTask ==
  ASSUME NEW l \in Nat \ {0}, NEW a \in Frames,
         NEW t, t = [collision_limit |-> l, frames |-> <<a>>, receiver |-> <<>>]
  PROVE  /\ t \in Tasks /\ <<t>> \in Seq(Tasks)
         /\ \A h, g : NatWeight(h, Items) /\ NatWeight(g, Frames) =>
              Total(<<t>>, TaskWeight(h, g)) = g[a]
<1>1. <<a>> \in Seq(Frames) /\ <<>> \in Seq(Items) OBVIOUS
<1>2. t \in Tasks BY <1>1 DEF Tasks
<1>3. <<t>> \in Seq(Tasks) BY <1>2
<1>4. ASSUME NEW h, NEW g, NatWeight(h, Items), NatWeight(g, Frames)
      PROVE  Total(<<t>>, TaskWeight(h, g)) = g[a]
  <2>1. Weighs(h, Items) /\ Weighs(g, Frames) BY <1>4, NatWeighs
  <2>2. Weighs(TaskWeight(h, g), Tasks) BY <2>1, TaskWeighs
  <2>3. Total(<<t>>, TaskWeight(h, g)) = TaskWeight(h, g)[t] BY <1>2, <2>2, TotalOfOne
  <2>4. TaskWeight(h, g)[t] = Total(t.receiver, h) + Total(t.frames, g) BY <1>2 DEF TaskWeight
  <2>5. t.receiver = <<>> /\ t.frames = <<a>> OBVIOUS
  <2>6. Total(t.receiver, h) = 0 BY <2>5, TotalEmpty
  <2>7. Total(t.frames, g) = g[a] BY <2>1, <2>5, TotalOfOne
  <2>8. g[a] \in Nat BY <1>4 DEF NatWeight
  <2> QED BY <2>3, <2>4, <2>6, <2>7, <2>8
<1> QED BY <1>2, <1>3, <1>4

\* GatherMinibatch starts a pick.
LEMMA PickNodesToExtendInv ==
  ASSUME IInv, NEW w \in Workers, PickNodesToExtend(w) PROVE IInv'
<1>1. TypeOK /\ Types BY TypesOf DEF IInv
<1>2. PICK limit \in 1..collisions_left[w] :
        stacks' = [stacks EXCEPT ![w] = <<Task(<<Root>>, limit)>>]
  BY Zenon DEF PickNodesToExtend
<1>3. /\ phase[w] = "gather" /\ NodesMutexFree /\ picks < MaxPicks /\ picks' = picks + 1
      /\ new_start' = [new_start EXCEPT ![w] = Len(minibatch[w])]
      /\ Goto(w, "pick")
      /\ visited' = visited /\ n_in_flight' = n_in_flight /\ stray' = stray
      /\ minibatch' = minibatch /\ collisions_left' = collisions_left
      /\ shared_collisions' = shared_collisions
  BY DEF PickNodesToExtend
<1>4. halting' \subseteq visited'
  <2>1. PICK H \in SUBSET visited : halting' = H \cup (Terminals \cap visited)
    BY Zenon DEF PickNodesToExtend
  <2> QED BY <1>3, <2>1
<1>5. collisions_left[w] \in 0..CollisionsLeft /\ CollisionsLeft \in Nat
  BY <1>1, LimitsAssumption DEF TypeOK
<1>6. limit \in Nat \ {0} /\ limit <= collisions_left[w] BY <1>5
<1> DEFINE a == Frame(<<Root>>, limit)
           t == [collision_limit |-> limit, frames |-> <<a>>, receiver |-> <<>>]
<1>7. /\ a \in Frames /\ LeftWeight[a] = limit /\ FrameInv(1, a)
      /\ a.step = "arrive" /\ a.path = <<Root>>
  BY <1>6, RootFrame
<1>8. Task(<<Root>>, limit) = t BY DEF Task
<1> HIDE DEF a
<1>9. /\ t \in Tasks /\ <<t>> \in Seq(Tasks)
      /\ \A h, g : NatWeight(h, Items) /\ NatWeight(g, Frames) =>
           Total(<<t>>, TaskWeight(h, g)) = g[a]
  <2> HIDE DEF t
  <2> QED BY <1>6, <1>7, NewTask DEF t
<1>10. t.collision_limit = limit /\ t.frames = <<a>> /\ t.receiver = <<>> OBVIOUS
<1> HIDE DEF t
<1>11. stacks' = [stacks EXCEPT ![w] = <<t>>] BY <1>2, <1>8, Zenon
<1>12. phase' \in [Workers -> Phases] /\ phase'[w] = "pick"
       /\ \A v \in Workers \ {w} : phase'[v] = phase[v]
  <2>1. "pick" \in Phases BY DEF Phases
  <2> QED BY <1>3, <2>1, NextTypes
<1>13. stacks' \in [Workers -> Seq(Tasks)] /\ stacks'[w] = <<t>>
       /\ \A v \in Workers \ {w} : stacks'[v] = stacks[v]
  BY <1>1, <1>9, <1>11 DEF Types
<1>14. minibatch[w] \in Seq(Items) /\ Len(minibatch[w]) \in Nat BY <1>1 DEF Types
<1>15. new_start' \in [Workers -> Nat] /\ new_start'[w] = Len(minibatch[w])
       /\ \A v \in Workers \ {w} : new_start'[v] = new_start[v]
  BY <1>1, <1>3, <1>14 DEF Types
<1>16. picks' \in 0..MaxPicks BY <1>1, <1>3, LimitsAssumption DEF Types
<1>17. Types'
  BY <1>1, <1>3, <1>4, <1>12, <1>13, <1>15, <1>16, Zenon DEF Types
<1>18. OthersUnchanged(w) BY <1>3, <1>12, <1>13, <1>15 DEF OthersUnchanged
<1>19. \A v \in Workers : stacks[v] = <<>> /\ phase[v] # "pick" BY <1>3, MutexFree
<1>20. Unobserved(w) BY <1>19 DEF Unobserved
<1>21. collisions_left'[w] \in 0..CollisionsLeft BY <1>3, <1>5
<1>22. (Placed(w) <= stacks[w][1].collision_limit)'
  <2>1. AllPlacedSums' BY <1>17, PlacedIsNext
  <2>2. Placed(w)' = Total(stacks'[w], TaskWeight(PlacedWeight, LeftWeight))
    BY <2>1 DEF AllPlacedSums, PlacedSums, TaskWeight, PlacedWeight, LeftWeight
  <2>3. Total(<<t>>, TaskWeight(PlacedWeight, LeftWeight)) = LeftWeight[a]
    BY <1>9, PlacedWeightNat, LeftWeightNat
  <2>4. stacks'[w][1].collision_limit = limit BY <1>10, <1>13
  <2>5. Placed(w)' = limit BY <1>7, <1>13, <2>2, <2>3
  <2> QED BY <1>6, <2>4, <2>5
<1>23. LimitInv(w)'
  <2>1. new_start'[w] = Len(minibatch'[w]) BY <1>3, <1>15
  <2>2. stacks'[w][1].collision_limit <= collisions_left'[w] BY <1>3, <1>6, <1>10, <1>13
  <2>3. ASSUME NEW i \in DOMAIN stacks'[w] PROVE DOMAIN stacks'[w][i].receiver = {}
    <3>1. stacks'[w][i] = t BY <1>13
    <3> QED BY <1>10, <3>1
  <2> QED BY <2>1, <2>2, <2>3 DEF LimitInv
<1>24. FreshInv(w)' BY <1>12 DEF FreshInv
<1>25. ASSUME NEW i \in DOMAIN stacks'[w], NEW k \in DOMAIN stacks'[w][i].frames
       PROVE  FrameInv(i, stacks'[w][i].frames[k])
  <2>1. i = 1 /\ stacks'[w][i] = t BY <1>13
  <2>2. stacks'[w][i].frames[k] = a BY <1>10, <2>1
  <2> QED BY <1>7, <2>1, <2>2
<1>26. WorkerInv(w)'
  <2>1. (phase[w] = "pick" <=> stacks[w] # <<>>)' BY <1>12, <1>13
  <2>2. (\A i \in DOMAIN stacks[w] : \A k \in DOMAIN stacks[w][i].frames :
           FrameInv(i, stacks[w][i].frames[k]))'
    BY <1>25 DEF FrameInv
  <2> QED BY <1>21, <1>22, <1>23, <1>24, <2>1, <2>2 DEF WorkerInv
<1>27. SharedInv' BY <1>3 DEF IInv, SharedInv
<1>28. AccountMoves(w)
  <2> SUFFICES ASSUME NEW x \in Nodes
               PROVE  n_in_flight'[x] - stray'[x] = n_in_flight[x] - stray[x]
                        - Total(shared_collisions, ItemWeight(x))
                        + Total(shared_collisions', ItemWeight(x))
                        - HeldBy(x, minibatch[w], phase[w], stacks[w])
                        + HeldBy(x, minibatch[w], phase[w], stacks[w])'
    BY DEF AccountMoves
  <2>1. HeldBy(x, minibatch[w], phase[w], stacks[w]) = Total(minibatch[w], ItemWeight(x))
    <3>1. HeldBy(x, minibatch[w], phase[w], <<>>)
            = Total(minibatch[w], IF phase[w] = "compute" THEN ComputingWeight(x) ELSE ItemWeight(x))
      BY <1>14, HeldByNoTasks
    <3>2. phase[w] # "compute" BY <1>3
    <3>3. stacks[w] = <<>> BY <1>19
    <3> QED BY <3>1, <3>2, <3>3
  <2>2. HeldBy(x, minibatch[w], phase[w], stacks[w])'
          = Total(minibatch'[w], ItemWeight(x)) + Total(stacks'[w], TaskWeight(ItemWeight(x), FrameWeight(x)'))
    <3>1. phase'[w] # "compute" BY <1>12
    <3> QED BY <3>1 DEF HeldBy, TaskWeight, ItemWeight, FrameWeight
  <2>3. Total(stacks'[w], TaskWeight(ItemWeight(x), FrameWeight(x)')) = 0
    <3>1. NatWeight(FrameWeight(x)', Frames)
      BY AtRootNothingNext DEF AllFrameWeights, NatWeight
    <3>2. FrameWeight(x)'[a] = 0 BY <1>7, AtRootNothingNext DEF AtRootNothing
    <3>3. NatWeight(ItemWeight(x), Items) BY ItemWeightNat
    <3>4. Total(<<t>>, TaskWeight(ItemWeight(x), FrameWeight(x)')) = FrameWeight(x)'[a]
      BY <1>9, <3>1, <3>3
    <3> QED BY <1>13, <3>2, <3>4
  <2>4. Total(minibatch[w], ItemWeight(x)) \in Nat
    BY <1>14, ItemWeightNat, TotalNat DEF NatWeight
  <2>5. Total(shared_collisions, ItemWeight(x)) \in Nat
    BY <1>1, ItemWeightNat, TotalNat DEF NatWeight, Types
  <2>6. n_in_flight[x] \in Int /\ stray[x] \in Int BY <1>1 DEF Types
  <2> DEFINE m == Total(minibatch[w], ItemWeight(x)) s == Total(shared_collisions, ItemWeight(x))
             b == HeldBy(x, minibatch[w], phase[w], stacks[w])
             c == HeldBy(x, minibatch[w], phase[w], stacks[w])'
  <2>7. b = m /\ c = m /\ m \in Nat /\ s \in Nat
    BY <1>3, <2>1, <2>2, <2>3, <2>4, <2>5
  <2> HIDE DEF m, s, b, c
  <2>8. n_in_flight[x] - stray[x] = n_in_flight[x] - stray[x] - s + s - b + c BY <2>6, <2>7
  <2> QED BY <1>3, <2>8 DEF s, b, c
<1>29. ExtendingFalls(w)
  <2> SUFFICES ASSUME NEW x
               PROVE  ExtendedBy(x, minibatch'[w], stacks'[w]) <= ExtendedBy(x, minibatch[w], stacks[w])
    BY DEF ExtendingFalls
  <2>1. Total(<<t>>, TaskWeight(VisitWeight(x), NoWeight)) = NoWeight[a]
    BY <1>9, VisitWeightNat, NoWeightNat
  <2>2. NoWeight[a] = 0 BY <1>7 DEF NoWeight
  <2>3. ExtendedBy(x, minibatch[w], <<>>) = Total(minibatch[w], VisitWeight(x))
    BY <1>14, ExtendedWithoutTasks
  <2>4. ExtendedBy(x, minibatch'[w], stacks'[w])
          = Total(minibatch[w], VisitWeight(x)) + Total(<<t>>, TaskWeight(VisitWeight(x), NoWeight))
    BY <1>3, <1>13 DEF ExtendedBy
  <2>5. Total(minibatch[w], VisitWeight(x)) \in Nat
    BY <1>14, VisitWeightNat, TotalNat DEF NatWeight
  <2>6. stacks[w] = <<>> BY <1>19
  <2> DEFINE m == Total(minibatch[w], VisitWeight(x))
             b == ExtendedBy(x, minibatch[w], stacks[w])
             c == ExtendedBy(x, minibatch'[w], stacks'[w])
  <2>7. b = m /\ c = m + 0 /\ m \in Nat BY <2>1, <2>2, <2>3, <2>4, <2>5, <2>6
  <2> HIDE DEF m, b, c
  <2>8. c <= b BY <2>7
  <2> QED BY <2>8 DEF b, c
<1>30. visited \subseteq visited' BY <1>3
<1>31. phase'[w] = "pick" => \A v \in Workers \ {w} : phase[v] # "pick" BY <1>19
<1> QED BY <1>17, <1>18, <1>20, <1>26, <1>27, <1>28, <1>29, <1>30, <1>31, WorkerStepInv

-----------------------------------------------------------------------------
(* A pick ends. *)

Received(ts) == FlattenSeq([i \in DOMAIN ts |-> ts[i].receiver])

\* When no task has a frame left, what the tasks stand for is what they have found.
LEMMA ReceivedIs ==
  ASSUME NEW ts \in Seq(Tasks), \A i \in DOMAIN ts : ts[i].frames = <<>>
  PROVE  /\ Received(ts) \in Seq(Items)
         /\ \A h, g : NatWeight(h, Items) /\ NatWeight(g, Frames) =>
              Total(ts, TaskWeight(h, g)) = Total(Received(ts), h)
         /\ \A k \in DOMAIN Received(ts) : \E i \in DOMAIN ts : \E j \in DOMAIN ts[i].receiver :
              Received(ts)[k] = ts[i].receiver[j]
<1> DEFINE rs == [i \in DOMAIN ts |-> ts[i].receiver]
<1>1. \A i \in DOMAIN ts : ts[i] \in Tasks /\ ts[i].receiver \in Seq(Items)
  <2>1. \A i \in DOMAIN ts : ts[i] \in Tasks OBVIOUS
  <2>2. \A t \in Tasks : t.receiver \in Seq(Items) BY DEF Tasks
  <2> QED BY <2>1, <2>2
<1>2. rs \in Seq(Seq(Items)) /\ DOMAIN rs = DOMAIN ts /\ \A i \in DOMAIN ts : rs[i] = ts[i].receiver
  BY <1>1
<1>3. Received(ts) = FlattenSeq(rs) BY DEF Received
<1> HIDE DEF rs
<1>4. NatWeight(PlacedWeight, Items) /\ Weighs(PlacedWeight, Items)
  BY PlacedWeightNat, NatWeighs
<1>5. /\ Received(ts) \in Seq(Items)
      /\ \A k \in DOMAIN Received(ts) : \E i \in DOMAIN rs : \E j \in DOMAIN rs[i] :
              Received(ts)[k] = rs[i][j]
  <2>1. rs \in Seq(Seq(Items)) /\ Weighs(PlacedWeight, Items) BY <1>2, <1>4
  <2>2. FlattenSeq(rs) \in Seq(Items) BY <2>1, FlattenIs, Zenon
  <2>3. \A k \in DOMAIN FlattenSeq(rs) : \E i \in DOMAIN rs : \E j \in DOMAIN rs[i] :
          FlattenSeq(rs)[k] = rs[i][j]
    BY <2>1, FlattenIs, Zenon
  <2> QED BY <1>3, <2>2, <2>3
<1>6. ASSUME NEW h, NEW g, NatWeight(h, Items), NatWeight(g, Frames)
      PROVE  Total(ts, TaskWeight(h, g)) = Total(Received(ts), h)
  <2>1. Weighs(h, Items) /\ Weighs(g, Frames) BY <1>6, NatWeighs
  <2>2. Weighs(TaskWeight(h, g), Tasks) BY <2>1, TaskWeighs
  <2> DEFINE u == [k \in DOMAIN ts |-> TaskWeight(h, g)[ts[k]]]
             v == [i \in DOMAIN rs |-> Total(rs[i], h)]
  <2>3. Total(ts, TaskWeight(h, g)) = SumFunctionOnSet(u, DOMAIN ts) /\ IsFiniteSet(DOMAIN ts)
        /\ \A k \in DOMAIN ts : TaskWeight(h, g)[ts[k]] \in Int
    BY <2>2, TotalIs
  <2>4. Total(FlattenSeq(rs), h) = SumFunctionOnSet(v, DOMAIN rs)
    BY <1>2, <2>1, FlattenIs
  <2>5. ASSUME NEW k \in DOMAIN ts PROVE u[k] \in Int /\ v[k] = u[k]
    <3>1. u[k] = Total(ts[k].receiver, h) + Total(ts[k].frames, g) BY <1>1 DEF TaskWeight
    <3>2. ts[k].frames = <<>> OBVIOUS
    <3>3. Total(ts[k].frames, g) = 0 BY <3>2, TotalEmpty
    <3>4. Total(ts[k].receiver, h) \in Int BY <1>1, <2>1, TotalIs, Zenon
    <3>5. v[k] = Total(ts[k].receiver, h) BY <1>2
    <3> HIDE DEF u, v
    <3> QED BY <3>1, <3>3, <3>4, <3>5
  <2> HIDE DEF u, v
  <2>6. SumFunctionOnSet(v, DOMAIN ts) = SumFunctionOnSet(u, DOMAIN ts) BY <2>3, <2>5, SumSame
  <2> QED BY <1>2, <1>3, <2>3, <2>4, <2>6
<1> QED BY <1>2, <1>5, <1>6

\* What a pick that placed at most its limit adds to a minibatch: its collisions are within
\* the limit, and one of them that took all of it is the only one.
FreshWithin(s, F, limit) ==
  /\ SumFunctionOnSet(CollisionVisits(s), F) <= limit
  /\ \A j, k \in F : s[j].maxvisit /\ IsCollision(s[k]) => j = k

\* A pick that placed no more than its limit adds such items.
LEMMA PickedIsWithin ==
  ASSUME NEW items \in Seq(Items), NEW flat \in Seq(Items), NEW limit \in Nat,
         Total(flat, PlacedWeight) <= limit,
         \A k \in DOMAIN flat : flat[k].maxvisit => flat[k].multivisit = limit
  PROVE  FreshWithin(items \o flat, (Len(items) + 1)..Len(items \o flat), limit)
<1> DEFINE s == items \o flat n == Len(items) F == (n + 1)..Len(s)
           f == CollisionVisits(s) g == CollisionVisits(flat)
           p == [k \in DOMAIN flat |-> PlacedWeight[flat[k]]]
           b == [k \in DOMAIN flat |-> n + k]
<1>1. /\ n \in Nat /\ Len(flat) \in Nat /\ s \in Seq(Items) /\ Len(s) = n + Len(flat)
      /\ DOMAIN flat = 1..Len(flat) /\ DOMAIN s = 1..Len(s)
      /\ \A k \in DOMAIN flat : s[n + k] = flat[k]
  OBVIOUS
<1> HIDE DEF s, n
<1>2. F \subseteq DOMAIN s /\ IsFiniteSet(F) /\ IsFiniteSet(DOMAIN flat)
  <2>1. IsFiniteSet(F) /\ IsFiniteSet(1..Len(flat)) BY <1>1, FS_Interval
  <2> QED BY <1>1, <2>1
<1>3. \A k \in DOMAIN flat : n + k \in F BY <1>1
<1>4. \A j \in F : j - n \in DOMAIN flat /\ n + (j - n) = j BY <1>1
<1>5. b \in Bijection(DOMAIN flat, F)
  <2>1. b \in [DOMAIN flat -> F] BY <1>3
  <2>2. \A j, k \in DOMAIN flat : b[j] = b[k] => j = k BY <1>1
  <2>3. \A j \in F : \E k \in DOMAIN flat : b[k] = j BY <1>4
  <2> HIDE DEF b, F
  <2> QED BY <2>1, <2>2, <2>3, Fun_IsBij
<1>6. \A k \in DOMAIN flat : b[k] = n + k OBVIOUS
<1>7. \A k \in DOMAIN s : f[k] \in Nat BY <1>1, CollisionVisitsNat
<1>8. \A k \in DOMAIN flat :
        /\ g[k] \in Nat
        /\ IsCollision(flat[k]) => g[k] = flat[k].multivisit
        /\ ~IsCollision(flat[k]) => g[k] = 0
  BY CollisionVisitsNat
<1>9. \A k \in DOMAIN flat : g[k] = f[b[k]]
  <2> SUFFICES ASSUME NEW k \in DOMAIN flat PROVE g[k] = f[n + k] BY <1>6
  <2>1. n + k \in DOMAIN s /\ s[n + k] = flat[k] BY <1>1, <1>2, <1>3
  <2> QED BY <2>1 DEF CollisionVisits
<1>10. \A k \in DOMAIN flat : p[k] \in Nat /\ p[k] = flat[k].multivisit /\ p[k] >= 1
                              /\ PlacedWeight[flat[k]] = p[k]
  <2>1. \A k \in DOMAIN flat : flat[k] \in Items OBVIOUS
  <2>2. \A e \in Items : PlacedWeight[e] = e.multivisit /\ e.multivisit \in Nat \ {0}
    BY DEF PlacedWeight, Items
  <2>3. \A k \in DOMAIN flat : p[k] = PlacedWeight[flat[k]] OBVIOUS
  <2> HIDE DEF p
  <2> QED BY <2>1, <2>2, <2>3
<1>11. Total(flat, PlacedWeight) = SumFunctionOnSet(p, DOMAIN flat)
  BY PlacedWeightNat, NatWeighs, TotalIs
<1>12. \A j \in DOMAIN flat : \A k \in DOMAIN flat : k # j =>
         PlacedWeight[flat[j]] + PlacedWeight[flat[k]] <= Total(flat, PlacedWeight)
  BY PlacedWeightNat, TotalAtLeast DEF NatWeight
<1>13. \A j \in DOMAIN flat : \A k \in DOMAIN flat : k # j =>
         p[j] + p[k] <= Total(flat, PlacedWeight)
  BY <1>10, <1>12
<1>14. Total(flat, PlacedWeight) \in Nat BY PlacedWeightNat, TotalNat DEF NatWeight
<1> HIDE DEF F, f, g, p, b
<1>15. SumFunctionOnSet(g, DOMAIN flat) = SumFunctionOnSet(f, F)
  <2>1. \A y \in F : f[y] \in Int BY <1>2, <1>7
  <2> QED BY <1>2, <1>5, <1>9, <2>1, SumMoved
<1>16. SumFunctionOnSet(g, DOMAIN flat) <= SumFunctionOnSet(p, DOMAIN flat)
  <2>1. \A k \in DOMAIN flat : g[k] \in Int /\ p[k] \in Int /\ g[k] <= p[k]
    BY <1>8, <1>10
  <2> QED BY <1>2, <2>1, SumMonotone
<1>17. SumFunctionOnSet(f, F) <= limit
  <2>1. SumFunctionOnSet(f, F) \in Nat
    <3>1. \A y \in F : f[y] \in Nat BY <1>2, <1>7
    <3> QED BY <1>2, <3>1, SumNat
  <2> QED BY <1>11, <1>14, <1>15, <1>16, <2>1
<1>18. ASSUME NEW j \in F, NEW k \in F, s[j].maxvisit, IsCollision(s[k]) PROVE j = k
  <2>1. /\ j - n \in DOMAIN flat /\ n + (j - n) = j /\ j \in Int
        /\ k - n \in DOMAIN flat /\ n + (k - n) = k /\ k \in Int
    BY <1>1, <1>4 DEF F
  <2>2. s[j] = flat[j - n] BY <1>1, <2>1, Zenon
  <2>3. flat[j - n].multivisit = limit BY <1>18, <2>1, <2>2
  <2>4. p[j - n] = limit /\ p[k - n] >= 1 /\ p[k - n] \in Nat BY <1>10, <2>1, <2>3
  <2>5. j - n = k - n
    <3> SUFFICES ASSUME k - n # j - n PROVE FALSE OBVIOUS
    <3>1. p[j - n] + p[k - n] <= Total(flat, PlacedWeight) BY <1>13, <2>1
    <3> QED BY <1>14, <2>4, <3>1
  <2> QED BY <1>1, <2>1, <2>5
<1> QED BY <1>17, <1>18 DEF FreshWithin, s, n, F, f

\* The tasks' results join the minibatch, and nodes_mutex_ is free again.
LEMMA EndPickInv ==
  ASSUME IInv, NEW w \in Workers, EndPick(w) PROVE IInv'
<1> DEFINE items == minibatch[w] ts == stacks[w] flat == Received(ts)
           limit == ts[1].collision_limit
<1>1. TypeOK /\ Types BY TypesOf DEF IInv
<1>2. /\ phase[w] = "pick" /\ Goto(w, "process") /\ halting' = {}
      /\ minibatch' = [minibatch EXCEPT ![w] = items \o flat]
      /\ stacks' = [stacks EXCEPT ![w] = <<>>]
      /\ \A i \in DOMAIN ts : ts[i].frames = <<>>
      /\ visited' = visited /\ n_in_flight' = n_in_flight /\ stray' = stray
      /\ new_start' = new_start /\ collisions_left' = collisions_left
      /\ shared_collisions' = shared_collisions /\ picks' = picks
  BY DEF EndPick, Received
<1>3. ts \in Seq(Tasks) /\ items \in Seq(Items) BY <1>1 DEF Types
<1>4. /\ flat \in Seq(Items)
      /\ \A h, g : NatWeight(h, Items) /\ NatWeight(g, Frames) =>
           Total(ts, TaskWeight(h, g)) = Total(flat, h)
      /\ \A k \in DOMAIN flat : \E i \in DOMAIN ts : \E j \in DOMAIN ts[i].receiver :
           flat[k] = ts[i].receiver[j]
  <2> HIDE DEF ts
  <2> QED BY <1>2, <1>3, ReceivedIs
<1> HIDE DEF flat
<1>5. \A v \in Workers \ {w} : stacks[v] = <<>> /\ phase[v] # "pick"
  <2>1. OnePick BY DEF IInv
  <2> QED BY <1>2, <2>1 DEF OnePick
<1>6. items \o flat \in Seq(Items) /\ <<>> \in Seq(Tasks) BY <1>3, <1>4
<1>7. phase' \in [Workers -> Phases] /\ phase'[w] = "process"
      /\ \A v \in Workers \ {w} : phase'[v] = phase[v]
  <2>1. "process" \in Phases BY DEF Phases
  <2> QED BY <1>2, <2>1, NextTypes
<1>8. /\ minibatch' \in [Workers -> Seq(Items)] /\ minibatch'[w] = items \o flat
      /\ \A v \in Workers \ {w} : minibatch'[v] = minibatch[v]
  <2> HIDE DEF items
  <2> QED BY <1>1, <1>2, <1>6 DEF Types
<1>9. /\ stacks' \in [Workers -> Seq(Tasks)] /\ stacks'[w] = <<>>
      /\ \A v \in Workers \ {w} : stacks'[v] = stacks[v]
  BY <1>1, <1>2, <1>6 DEF Types
<1>10. Types'
  <2>1. halting' \subseteq visited' BY <1>2
  <2> QED BY <1>1, <1>2, <1>7, <1>8, <1>9, <2>1, Zenon DEF Types
<1>11. OthersUnchanged(w) BY <1>2, <1>7, <1>8, <1>9 DEF OthersUnchanged
<1>12. Unobserved(w) BY <1>5 DEF Unobserved
<1>13. /\ new_start[w] = Len(items) /\ limit <= collisions_left[w]
       /\ \A i \in DOMAIN ts : \A k \in DOMAIN ts[i].receiver :
            ts[i].receiver[k].maxvisit => ts[i].receiver[k].multivisit = limit
  <2>1. LimitInv(w) BY DEF IInv
  <2> QED BY <1>2, <2>1 DEF LimitInv
<1>14. limit \in Nat
  <2>1. ts # <<>>
    <3>1. OnePick BY DEF IInv
    <3> QED BY <1>2, <3>1 DEF OnePick
  <2>2. 1 \in DOMAIN ts BY <1>3, <2>1
  <2>3. ts[1] \in Tasks BY <1>3, <2>2
  <2> QED BY <2>3 DEF Tasks
<1>15. Total(flat, PlacedWeight) <= limit
  <2>1. PlacedSums(w) BY <1>1, PlacedIs
  <2>2. Placed(w) <= limit
    <3>1. PickWithinLimit BY DEF IInv
    <3> QED BY <1>2, <3>1 DEF PickWithinLimit
  <2>3. Total(ts, TaskWeight(PlacedWeight, LeftWeight)) = Total(flat, PlacedWeight)
    BY <1>4, PlacedWeightNat, LeftWeightNat
  <2> QED BY <2>1, <2>2, <2>3 DEF PlacedSums
<1>16. \A k \in DOMAIN flat : flat[k].maxvisit => flat[k].multivisit = limit
  BY <1>4, <1>13
<1>17. collisions_left[w] \in 0..CollisionsLeft BY <1>1 DEF TypeOK
<1>18. FreshInv(w)'
  <2>1. FreshWithin(items \o flat, (Len(items) + 1)..Len(items \o flat), limit)
    <3> HIDE DEF items, limit
    <3> QED BY <1>3, <1>4, <1>14, <1>15, <1>16, PickedIsWithin
  <2>2. Fresh(w)' = (Len(items) + 1)..Len(items \o flat) BY <1>2, <1>8, <1>13 DEF Fresh
  <2> DEFINE s == items \o flat F == (Len(items) + 1)..Len(items \o flat)
             n == SumFunctionOnSet(CollisionVisits(s), F)
  <2>3. n <= limit /\ \A j, k \in F : s[j].maxvisit /\ IsCollision(s[k]) => j = k
    BY <2>1 DEF FreshWithin
  <2>4. n \in Int
    <3>1. IsFiniteSet(F) /\ F \subseteq DOMAIN s
      <4>1. Len(items) \in Nat /\ Len(s) \in Nat /\ DOMAIN s = 1..Len(s) BY <1>3, <1>6
      <4>2. IsFiniteSet((Len(items) + 1)..Len(s)) BY <4>1, FS_Interval
      <4> QED BY <4>1, <4>2
    <3>2. \A k \in DOMAIN s : CollisionVisits(s)[k] \in Nat BY <1>6, CollisionVisitsNat, Zenon
    <3> HIDE DEF s, F
    <3>3. \A k \in F : CollisionVisits(s)[k] \in Int BY <3>1, <3>2
    <3> QED BY <3>1, <3>3, SumType
  <2>5. minibatch'[w] = s /\ Fresh(w)' = F /\ collisions_left'[w] = collisions_left[w]
    BY <1>2, <1>8, <2>2
  <2> HIDE DEF n
  <2>6. n <= collisions_left[w] BY <1>13, <1>14, <1>17, <2>3, <2>4
  <2>7. (SumFunctionOnSet(CollisionVisits(minibatch[w]), Fresh(w)))' = n
    <3>1. (CollisionVisits(minibatch[w]))' = CollisionVisits(s) BY <2>5 DEF CollisionVisits, IsCollision
    <3> HIDE DEF s, F
    <3> QED BY <2>5, <3>1 DEF n
  <2> HIDE DEF s, F
  <2> QED BY <2>3, <2>5, <2>6, <2>7 DEF FreshInv
<1>19. WorkerInv(w)'
  <2>1. collisions_left'[w] \in 0..CollisionsLeft BY <1>2, <1>17
  <2>2. phase'[w] # "pick" /\ DOMAIN stacks'[w] = {} BY <1>7, <1>9
  <2>3. LimitInv(w)' BY <2>2 DEF LimitInv
  <2> QED BY <1>9, <1>18, <2>1, <2>2, <2>3 DEF WorkerInv
<1>20. SharedInv' BY <1>2 DEF IInv, SharedInv
<1> HIDE DEF items, ts, limit
<1>21. AccountMoves(w)
  <2> SUFFICES ASSUME NEW x \in Nodes
               PROVE  n_in_flight'[x] - stray'[x] = n_in_flight[x] - stray[x]
                        - Total(shared_collisions, ItemWeight(x))
                        + Total(shared_collisions', ItemWeight(x))
                        - HeldBy(x, minibatch[w], phase[w], stacks[w])
                        + HeldBy(x, minibatch[w], phase[w], stacks[w])'
    BY DEF AccountMoves
  <2> DEFINE m == Total(items, ItemWeight(x)) r == Total(flat, ItemWeight(x))
             s == Total(shared_collisions, ItemWeight(x))
             b == HeldBy(x, minibatch[w], phase[w], stacks[w])
             c == HeldBy(x, minibatch[w], phase[w], stacks[w])'
  <2>1. b = m + r
    <3>1. phase[w] # "compute" BY <1>2
    <3>2. b = Total(items, ItemWeight(x)) + Total(ts, TaskWeight(ItemWeight(x), FrameWeight(x)))
      BY <3>1 DEF HeldBy, items, ts
    <3>3. Total(ts, TaskWeight(ItemWeight(x), FrameWeight(x))) = r
      BY <1>4, ItemWeightNat, FrameWeightNat
    <3> QED BY <3>2, <3>3
  <2>2. c = m + r
    <3>1. c = Total(minibatch'[w], IF phase'[w] = "compute" THEN ComputingWeight(x) ELSE ItemWeight(x))
      <4>1. NoTasksHeld' BY <1>10, NoTasksHeldNext
      <4> QED BY <1>9, <4>1, Zenon DEF NoTasksHeld, ComputingWeight, ItemWeight, Holds
    <3>2. phase'[w] # "compute" BY <1>7
    <3>3. Weighs(ItemWeight(x), Items) BY ItemWeightNat, NatWeighs
    <3>4. Total(items \o flat, ItemWeight(x)) = m + r BY <1>3, <1>4, <3>3, TotalConcat
    <3> QED BY <1>8, <3>1, <3>2, <3>4
  <2>3. m \in Nat /\ r \in Nat /\ s \in Nat
    BY <1>1, <1>3, <1>4, ItemWeightNat, TotalNat, Zenon DEF NatWeight, Types
  <2>4. n_in_flight[x] \in Int /\ stray[x] \in Int BY <1>1 DEF Types
  <2> HIDE DEF m, r, s, b, c
  <2>5. n_in_flight[x] - stray[x] = n_in_flight[x] - stray[x] - s + s - b + c
    BY <2>1, <2>2, <2>3, <2>4
  <2> QED BY <1>2, <2>5 DEF s, b, c
<1>22. ExtendingFalls(w)
  <2> SUFFICES ASSUME NEW x
               PROVE  ExtendedBy(x, minibatch'[w], stacks'[w]) <= ExtendedBy(x, minibatch[w], stacks[w])
    BY DEF ExtendingFalls
  <2> DEFINE m == Total(items, VisitWeight(x)) r == Total(flat, VisitWeight(x))
             b == ExtendedBy(x, minibatch[w], stacks[w])
             c == ExtendedBy(x, minibatch'[w], stacks'[w])
  <2>1. b = m + r
    <3>1. b = m + Total(ts, TaskWeight(VisitWeight(x), NoWeight)) BY DEF ExtendedBy, items, ts
    <3>2. Total(ts, TaskWeight(VisitWeight(x), NoWeight)) = r
      BY <1>4, VisitWeightNat, NoWeightNat
    <3> QED BY <3>1, <3>2
  <2>2. c = m + r
    <3>1. ExtendedBy(x, items \o flat, <<>>) = Total(items \o flat, VisitWeight(x))
      BY <1>6, ExtendedWithoutTasks, Zenon
    <3>2. Weighs(VisitWeight(x), Items) BY VisitWeightNat, NatWeighs
    <3>3. Total(items \o flat, VisitWeight(x)) = m + r BY <1>3, <1>4, <3>2, TotalConcat
    <3> QED BY <1>8, <1>9, <3>1, <3>3
  <2>3. m \in Nat /\ r \in Nat
    BY <1>3, <1>4, VisitWeightNat, TotalNat DEF NatWeight
  <2> HIDE DEF m, r, b, c
  <2>4. c <= b BY <2>1, <2>2, <2>3
  <2> QED BY <2>4 DEF b, c
<1>23. visited \subseteq visited' BY <1>2
<1>24. phase'[w] = "pick" => \A v \in Workers \ {w} : phase[v] # "pick" BY <1>7
<1> QED BY <1>10, <1>11, <1>12, <1>19, <1>20, <1>21, <1>22, <1>23, <1>24, WorkerStepInv

-----------------------------------------------------------------------------
(* All steps. *)

\* A step after which every worker holds what it held before.
LEMMA HeldKept ==
  ASSUME Types, Types', NEW x,
         \A v \in Workers : HeldBy(x, minibatch[v], phase[v], stacks[v])'
                              = HeldBy(x, minibatch[v], phase[v], stacks[v])
  PROVE  /\ Held(x)' = Held(x)
              - Total(shared_collisions, ItemWeight(x)) + Total(shared_collisions', ItemWeight(x))
         /\ Held(x) \in Nat
         /\ Total(shared_collisions, ItemWeight(x)) \in Nat
         /\ Total(shared_collisions', ItemWeight(x)) \in Nat
<1> DEFINE G == [v \in Workers |-> HeldBy(x, minibatch[v], phase[v], stacks[v])]
           H == [v \in Workers |-> HeldBy(x, minibatch[v], phase[v], stacks[v])']
           a == Total(shared_collisions, ItemWeight(x))
           b == Total(shared_collisions', ItemWeight(x))
<1>1. Held(x) = a + SumFunctionOnSet(G, Workers) BY HeldIs DEF HeldSums
<1>2. Held(x)' = b + SumFunctionOnSet(H, Workers)
  <2>1. HeldSums(x)' BY HeldIsNext DEF AllHeldSums
  <2> QED BY <2>1 DEF HeldSums
<1>3. \A v \in Workers : HeldBy(x, minibatch[v], phase[v], stacks[v]) \in Nat
  BY WorkerNat DEF Types
<1>4. \A v \in Workers : G[v] \in Int /\ H[v] = G[v] BY <1>3
<1>5. IsFiniteSet(Workers) BY GraphAssumption
<1>6. a \in Nat /\ b \in Nat
  <2>1. \A s \in Seq(Items) : Total(s, ItemWeight(x)) \in Nat
    BY ItemWeightNat, TotalNat DEF NatWeight
  <2> QED BY <2>1 DEF Types
<1>7. Held(x) \in Nat BY HeldNat
<1> HIDE DEF G, H
<1>8. SumFunctionOnSet(H, Workers) = SumFunctionOnSet(G, Workers) BY <1>4, <1>5, SumSame
<1>9. SumFunctionOnSet(G, Workers) \in Int BY <1>4, <1>5, SumType
<1> DEFINE g == SumFunctionOnSet(G, Workers) h == SumFunctionOnSet(H, Workers)
           p == Held(x) q == Held(x)'
<1>10. p = a + g /\ q = b + h /\ h = g /\ g \in Int BY <1>1, <1>2, <1>8, <1>9
<1> HIDE DEF a, b, g, h, p, q
<1>11. q = p - a + b BY <1>6, <1>10
<1> QED BY <1>6, <1>7, <1>11 DEF a, b, p, q

\* A step that leaves minibatches and tasks alone leaves Extending alone.
LEMMA ExtendingKept ==
  ASSUME Types, Types', NEW x, minibatch' = minibatch, stacks' = stacks
  PROVE  Extending(x)' = Extending(x)
<1> DEFINE G == [v \in Workers |-> ExtendedBy(x, minibatch[v], stacks[v])]
           H == [v \in Workers |-> ExtendedBy(x, minibatch'[v], stacks'[v])]
<1>1. Extending(x) = SumFunctionOnSet(G, Workers) BY ExtendingIs DEF ExtendingSums
<1>2. Extending(x)' = SumFunctionOnSet(H, Workers)
  <2>1. ExtendingSums(x)' BY ExtendingIsNext DEF AllExtendingSums
  <2> QED BY <2>1 DEF ExtendingSums
<1>3. H = G OBVIOUS
<1> QED BY <1>1, <1>2, <1>3

\* A step that leaves the picks alone, or that is taken when there is none.
LEMMA NoWorkerStepInv ==
  ASSUME IInv, Types', OnePick', SharedInv',
         UNCHANGED <<visited, halting, stacks, minibatch, new_start, collisions_left>>,
         \/ phase' = phase
         \/ \A w \in Workers : phase[w] \notin {"pick", "process", "grow", "compute"}
                               /\ phase'[w] \notin {"pick", "process", "grow", "compute"},
         \A x \in Nodes : n_in_flight'[x] - stray'[x] = n_in_flight[x] - stray[x]
           - Total(shared_collisions, ItemWeight(x)) + Total(shared_collisions', ItemWeight(x))
  PROVE  IInv'
<1>1. TypeOK /\ Types BY TypesOf DEF IInv
<1>2. /\ visited' = visited /\ halting' = halting /\ stacks' = stacks /\ minibatch' = minibatch
      /\ new_start' = new_start /\ collisions_left' = collisions_left
  OBVIOUS
<1>3. \A w \in Workers : (phase[w] = "compute") <=> (phase'[w] = "compute") OBVIOUS
<1>4. VirtualLossAccounted'
  <2> SUFFICES ASSUME NEW x \in Nodes PROVE n_in_flight'[x] = Held(x)' + stray'[x]
    BY DEF VirtualLossAccounted
  <2>1. FrameWeight(x)' = FrameWeight(x) BY <1>2, FrameWeightKept
  <2>2. ASSUME NEW v \in Workers
        PROVE  HeldBy(x, minibatch[v], phase[v], stacks[v])'
                 = HeldBy(x, minibatch[v], phase[v], stacks[v])
    <3>1. HeldBy(x, minibatch[v], phase[v], stacks[v])'
            = Total(minibatch'[v], IF phase'[v] = "compute" THEN ComputingWeight(x) ELSE ItemWeight(x))
                + Total(stacks'[v], TaskWeight(ItemWeight(x), FrameWeight(x)'))
      BY DEF HeldBy, TaskWeight, ItemWeight, FrameWeight, ComputingWeight, Holds
    <3>2. HeldBy(x, minibatch[v], phase[v], stacks[v])
            = Total(minibatch[v], IF phase[v] = "compute" THEN ComputingWeight(x) ELSE ItemWeight(x))
                + Total(stacks[v], TaskWeight(ItemWeight(x), FrameWeight(x)))
      BY DEF HeldBy
    <3>3. (IF phase'[v] = "compute" THEN ComputingWeight(x) ELSE ItemWeight(x))
            = (IF phase[v] = "compute" THEN ComputingWeight(x) ELSE ItemWeight(x))
      BY <1>3
    <3> QED BY <1>2, <2>1, <3>1, <3>2, <3>3, Zenon
  <2> DEFINE n0 == n_in_flight[x] n1 == n_in_flight'[x] s0 == stray[x] s1 == stray'[x]
             h0 == Held(x) h1 == Held(x)'
             a0 == Total(shared_collisions, ItemWeight(x))
             a1 == Total(shared_collisions', ItemWeight(x))
  <2>3. h1 = h0 - a0 + a1 /\ h0 \in Nat /\ a0 \in Nat /\ a1 \in Nat
    BY <1>1, <2>2, HeldKept
  <2>4. n0 = h0 + s0 /\ n1 - s1 = n0 - s0 - a0 + a1 BY DEF IInv, VirtualLossAccounted
  <2>5. n0 \in Int /\ n1 \in Int /\ s0 \in Int /\ s1 \in Int BY <1>1 DEF Types
  <2> HIDE DEF n0, n1, s0, s1, h0, h1, a0, a1
  <2>6. n1 = h1 + s1 BY <2>3, <2>4, <2>5
  <2> QED BY <2>6 DEF n1, h1, s1
<1>5. TypeOK'
  <2>1. LeftInv' BY <1>1, <1>2 DEF LeftInv, TypeOK
  <2> QED BY <1>4, <2>1, TypeOKNext
<1>6. FramesInv' BY <1>2 DEF IInv, FramesInv, FrameInv
<1>7. \A w \in Workers : LimitInv(w)' /\ FreshInv(w)'
  <2> SUFFICES ASSUME NEW w \in Workers PROVE LimitInv(w)' /\ FreshInv(w)'
    OBVIOUS
  <2>1. LimitInv(w) /\ FreshInv(w) BY DEF IInv
  <2>2. (phase'[w] = "pick" => phase[w] = "pick")
        /\ (phase'[w] \in {"process", "grow"} => phase[w] \in {"process", "grow"})
    OBVIOUS
  <2>3. LimitInv(w)' BY <1>2, <2>1, <2>2 DEF LimitInv
  <2>4. FreshInv(w)' BY <1>2, <2>1, <2>2 DEF FreshInv, Fresh
  <2> QED BY <2>3, <2>4
<1>8. ExtendedOnce' BY <1>1, <1>2, ExtendingKept DEF IInv, ExtendedOnce
<1>9. PickWithinLimit'
  <2> SUFFICES ASSUME NEW v \in Workers, phase'[v] = "pick"
               PROVE  Placed(v)' <= stacks'[v][1].collision_limit
    BY DEF PickWithinLimit
  <2>1. Placed(v) = Total(stacks[v], TaskWeight(PlacedWeight, LeftWeight))
    BY <1>1, PlacedIs DEF PlacedSums
  <2>2. Placed(v)' = Total(stacks'[v], TaskWeight(PlacedWeight, LeftWeight))
    <3>1. PlacedSums(v)' BY PlacedIsNext DEF AllPlacedSums
    <3> QED BY <3>1 DEF PlacedSums
  <2>3. phase[v] = "pick" OBVIOUS
  <2>4. Placed(v) <= stacks[v][1].collision_limit BY <2>3 DEF IInv, PickWithinLimit
  <2> QED BY <1>2, <2>1, <2>2, <2>4
<1> QED BY <1>4, <1>5, <1>6, <1>7, <1>8, <1>9 DEF IInv

\* The destructor takes back what the shared collisions still hold.
LEMMA DestroySearchInv == ASSUME IInv, DestroySearch PROVE IInv'
<1>1. TypeOK /\ Types /\ SharedInv BY TypesOf DEF IInv
<1>2. /\ \A w \in Workers : phase[w] = "done"
      /\ n_in_flight' = Settled(<<>>, shared_collisions)
      /\ shared_collisions' = <<>>
      /\ phase' = [w \in Workers |-> "destroyed"]
      /\ visited' = visited /\ stray' = stray /\ halting' = halting /\ stacks' = stacks
      /\ minibatch' = minibatch /\ new_start' = new_start
      /\ collisions_left' = collisions_left /\ picks' = picks
  BY DEF DestroySearch
<1>3. shared_collisions \in Seq(Items) /\ <<>> \in Seq(Items) /\ DOMAIN <<>> = {}
      /\ \A k \in DOMAIN shared_collisions : IsCollision(shared_collisions[k])
  BY <1>1 DEF Types, SharedInv
<1>4. /\ n_in_flight' \in [Nodes -> Int]
      /\ \A x \in Nodes : n_in_flight'[x] = n_in_flight[x]
           - Total(<<>>, ItemWeight(x)) - Total(shared_collisions, ItemWeight(x))
  BY <1>1, <1>2, <1>3, SettledIs, Zenon
<1>5. phase' \in [Workers -> Phases]
  <2>1. "destroyed" \in Phases BY DEF Phases
  <2> QED BY <1>2, <2>1
<1>6. Types' BY <1>1, <1>2, <1>3, <1>4, <1>5 DEF Types
<1>7. \A w \in Workers : phase'[w] = "destroyed" /\ stacks[w] = <<>>
  <2> SUFFICES ASSUME NEW w \in Workers PROVE phase'[w] = "destroyed" /\ stacks[w] = <<>>
    OBVIOUS
  <2>1. phase[w] # "pick" BY <1>2
  <2>2. stacks[w] = <<>> BY <2>1, NoStack
  <2> QED BY <1>2, <2>2
<1>8. OnePick' BY <1>2, <1>7 DEF OnePick
<1>9. SharedInv' BY <1>2 DEF SharedInv
<1>10. ASSUME NEW x \in Nodes
       PROVE  n_in_flight'[x] - stray'[x] = n_in_flight[x] - stray[x]
                - Total(shared_collisions, ItemWeight(x)) + Total(shared_collisions', ItemWeight(x))
  <2> DEFINE s == Total(shared_collisions, ItemWeight(x))
  <2>1. Total(<<>>, ItemWeight(x)) = 0 BY TotalEmpty
  <2>2. s \in Nat BY <1>3, ItemWeightNat, TotalNat DEF NatWeight
  <2>3. n_in_flight[x] \in Int /\ stray[x] \in Int BY <1>1 DEF Types
  <2>4. n_in_flight'[x] = n_in_flight[x] - 0 - s BY <1>4, <2>1
  <2>5. Total(shared_collisions', ItemWeight(x)) = 0 BY <1>2, <2>1
  <2> HIDE DEF s
  <2>6. n_in_flight'[x] - stray'[x] = n_in_flight[x] - stray[x] - s + 0
    BY <1>2, <2>2, <2>3, <2>4
  <2> QED BY <2>5, <2>6 DEF s
<1>11. \A w \in Workers : phase[w] \notin {"pick", "process", "grow", "compute"}
                          /\ phase'[w] \notin {"pick", "process", "grow", "compute"}
  BY <1>2, <1>7
<1> QED BY <1>2, <1>6, <1>8, <1>9, <1>10, <1>11, NoWorkerStepInv

\* A step that changes nothing.
LEMMA StutterInv == ASSUME IInv, UNCHANGED vars PROVE IInv'
<1>1. TypeOK /\ Types /\ SharedInv /\ OnePick BY TypesOf DEF IInv
<1>2. /\ visited' = visited /\ n_in_flight' = n_in_flight /\ stray' = stray /\ halting' = halting
      /\ phase' = phase /\ stacks' = stacks /\ minibatch' = minibatch /\ new_start' = new_start
      /\ collisions_left' = collisions_left /\ shared_collisions' = shared_collisions
      /\ picks' = picks
  BY DEF vars
<1>3. Types' BY <1>1, <1>2 DEF Types
<1>4. OnePick' BY <1>1, <1>2 DEF OnePick
<1>5. SharedInv' BY <1>1, <1>2 DEF SharedInv
<1>6. ASSUME NEW x \in Nodes
      PROVE  n_in_flight'[x] - stray'[x] = n_in_flight[x] - stray[x]
               - Total(shared_collisions, ItemWeight(x)) + Total(shared_collisions', ItemWeight(x))
  <2> DEFINE s == Total(shared_collisions, ItemWeight(x))
  <2>1. s \in Nat
    <3>1. shared_collisions \in Seq(Items) BY <1>1 DEF Types
    <3> QED BY <3>1, ItemWeightNat, TotalNat DEF NatWeight
  <2>2. n_in_flight[x] \in Int /\ stray[x] \in Int BY <1>1 DEF Types
  <2> HIDE DEF s
  <2>3. n_in_flight[x] - stray[x] = n_in_flight[x] - stray[x] - s + s BY <2>1, <2>2
  <2> QED BY <1>2, <2>3 DEF s
<1> QED BY <1>2, <1>3, <1>4, <1>5, <1>6, NoWorkerStepInv

\* A search starts with nothing in flight and nothing held.
LEMMA InitInv == Init => IInv
<1> SUFFICES ASSUME Init PROVE IInv OBVIOUS
<1>1. /\ visited \subseteq Nodes /\ halting = {} /\ shared_collisions = <<>> /\ picks = 0
      /\ n_in_flight = [x \in Nodes |-> 0] /\ stray = [x \in Nodes |-> 0]
      /\ phase = [w \in Workers |-> "iterate"]
      /\ stacks = [w \in Workers |-> <<>>] /\ minibatch = [w \in Workers |-> <<>>]
      /\ new_start = [w \in Workers |-> 0] /\ collisions_left = [w \in Workers |-> 0]
  BY DEF Init
<1>2. /\ \A w \in Workers : phase[w] = "iterate" /\ stacks[w] = <<>> /\ minibatch[w] = <<>>
                            /\ collisions_left[w] = 0
      /\ \A x \in Nodes : n_in_flight[x] = 0 /\ stray[x] = 0
  BY <1>1
<1>3. Types
  <2>1. /\ n_in_flight \in [Nodes -> Int] /\ stray \in [Nodes -> Nat]
        /\ new_start \in [Workers -> Nat] /\ collisions_left \in [Workers -> Int]
    BY <1>1
  <2>2. <<>> \in Seq(Items) /\ <<>> \in Seq(Tasks) /\ "iterate" \in Phases BY DEF Phases
  <2>3. /\ phase \in [Workers -> Phases] /\ stacks \in [Workers -> Seq(Tasks)]
        /\ minibatch \in [Workers -> Seq(Items)] /\ shared_collisions \in Seq(Items)
    BY <1>1, <2>2
  <2>4. picks \in 0..MaxPicks BY <1>1, LimitsAssumption
  <2> QED BY <1>1, <2>1, <2>3, <2>4 DEF Types
<1>4. ASSUME NEW x PROVE Held(x) = 0 /\ Extending(x) = 0
  <2> DEFINE G == [w \in Workers |-> HeldBy(x, minibatch[w], phase[w], stacks[w])]
             E == [w \in Workers |-> ExtendedBy(x, minibatch[w], stacks[w])]
  <2>1. \A w \in Workers : G[w] = 0 /\ E[w] = 0
    <3> SUFFICES ASSUME NEW w \in Workers PROVE G[w] = 0 /\ E[w] = 0 OBVIOUS
    <3>1. G[w] = HeldBy(x, <<>>, phase[w], <<>>) /\ E[w] = ExtendedBy(x, <<>>, <<>>) BY <1>2
    <3>2. HeldBy(x, <<>>, phase[w], <<>>) = 0 /\ ExtendedBy(x, <<>>, <<>>) = 0
      BY TotalEmpty DEF HeldBy, ExtendedBy
    <3> QED BY <3>1, <3>2
  <2>2. IsFiniteSet(Workers) BY GraphAssumption
  <2>3. Held(x) = Total(shared_collisions, ItemWeight(x)) + SumFunctionOnSet(G, Workers)
    BY <1>3, HeldIs DEF HeldSums
  <2>4. Extending(x) = SumFunctionOnSet(E, Workers) BY <1>3, ExtendingIs DEF ExtendingSums
  <2> HIDE DEF G, E
  <2>5. SumFunctionOnSet(G, Workers) = 0 /\ SumFunctionOnSet(E, Workers) = 0
    BY <2>1, <2>2, SumZero
  <2>6. Total(shared_collisions, ItemWeight(x)) = 0 BY <1>1, TotalEmpty
  <2> QED BY <2>3, <2>4, <2>5, <2>6
<1>5. VirtualLossAccounted BY <1>2, <1>4 DEF VirtualLossAccounted
<1>6. ExtendedOnce BY <1>4 DEF ExtendedOnce
<1>7. TypeOK
  <2>1. LeftInv BY <1>2, LimitsAssumption DEF LeftInv
  <2> QED BY <1>3, <1>5, <2>1, TypeOKOf
<1>8. OnePick BY <1>2 DEF OnePick
<1>9. FramesInv BY <1>2 DEF FramesInv
<1>10. SharedInv BY <1>1 DEF SharedInv
<1>11. \A w \in Workers : LimitInv(w) /\ FreshInv(w) BY <1>2 DEF LimitInv, FreshInv
<1>12. PickWithinLimit BY <1>2 DEF PickWithinLimit
<1> QED BY <1>5, <1>6, <1>7, <1>8, <1>9, <1>10, <1>11, <1>12 DEF IInv

\* Every step keeps the invariant.
LEMMA StepInv == IInv /\ [Next]_vars => IInv'
<1> SUFFICES ASSUME IInv, [Next]_vars PROVE IInv' OBVIOUS
<1>1. ASSUME NEW w \in Workers, StartIteration(w) PROVE IInv' BY <1>1, StartIterationInv
<1>2. ASSUME NEW w \in Workers, StopWorker(w) PROVE IInv' BY <1>2, StopWorkerInv
<1>3. ASSUME NEW w \in Workers, PickNodesToExtend(w) PROVE IInv' BY <1>3, PickNodesToExtendInv
<1>4. ASSUME NEW w \in Workers, PickStep(w) PROVE IInv' BY <1>4, PickStepKeeps
<1>5. ASSUME NEW w \in Workers, EndPick(w) PROVE IInv' BY <1>5, EndPickInv
<1>6. ASSUME NEW w \in Workers, OutOfOrder(w) PROVE IInv' BY <1>6, OutOfOrderInv
<1>7. ASSUME NEW w \in Workers, CountCollisions(w) PROVE IInv' BY <1>7, CountCollisionsInv
<1>8. ASSUME NEW w \in Workers, CollectCollisions(w) PROVE IInv' BY <1>8, CollectCollisionsInv
<1>9. ASSUME NEW w \in Workers, DoBackupUpdate(w) PROVE IInv' BY <1>9, DoBackupUpdateInv
<1>10. ASSUME DestroySearch PROVE IInv' BY <1>10, DestroySearchInv
<1>11. ASSUME UNCHANGED vars PROVE IInv' BY <1>11, StutterInv
<1> QED BY <1>1, <1>2, <1>3, <1>4, <1>5, <1>6, <1>7, <1>8, <1>9, <1>10, <1>11 DEF Next

\* Every reachable state satisfies the invariant.
THEOREM InductiveInvariant == Spec => []IInv
  BY InitInv, StepInv, PTL DEF Spec

\* The asserts of CancelScoreUpdate and FinalizeScoreUpdate hold: n_in_flight_ is at least
\* what is taken off it; and collisions_left, which is unsigned, never wraps below zero.
THEOREM TypeCorrect == Spec => []TypeOK
<1>1. IInv => TypeOK BY DEF IInv
<1> QED BY <1>1, InductiveInvariant, PTL

\* Whatever order workers and task threads step in, a node's virtual loss is what the visits
\* and collisions of all workers hold on it, and what ShareWithBusy and DropVisits let go astray.
THEOREM Accounted == Spec => []VirtualLossAccounted
<1>1. IInv => VirtualLossAccounted BY DEF IInv
<1> QED BY <1>1, InductiveInvariant, PTL

\* TryStartScoreUpdate gives a node that was never visited to one visit at a time.
THEOREM OneVisitAtATime == Spec => []ExtendedOnce
<1>1. IInv => ExtendedOnce BY DEF IInv
<1> QED BY <1>1, InductiveInvariant, PTL

\* A pick places no more visits than GatherMinibatch asked for.
THEOREM WithinLimit == Spec => []PickWithinLimit
<1>1. IInv => PickWithinLimit BY DEF IInv
<1> QED BY <1>1, InductiveInvariant, PTL

-----------------------------------------------------------------------------
(* What the destructor leaves. *)

\* Between two iterations a worker has no minibatch, and ~Search leaves no collision shared.
Parked ==
  /\ \A w \in Workers : phase[w] \in {"iterate", "done", "destroyed"} => minibatch[w] = <<>>
  /\ (\A w \in Workers : phase[w] = "destroyed") => shared_collisions = <<>>

\* A step of one worker within an iteration, or to the end of one.
LEMMA BusyStep ==
  ASSUME IInv, Parked, NEW w \in Workers, NEW l, Goto(w, l), phase[w] # "destroyed",
         l # "destroyed",
         \A v \in Workers \ {w} : minibatch'[v] = minibatch[v],
         l \in {"iterate", "done"} => minibatch'[w] = <<>>
  PROVE  Parked'
<1>1. phase \in [Workers -> Phases] BY DEF IInv, TypeOK
<1>2. phase'[w] = l /\ \A v \in Workers \ {w} : phase'[v] = phase[v] BY <1>1 DEF Goto
<1>3. ASSUME NEW v \in Workers, phase'[v] \in {"iterate", "done", "destroyed"}
      PROVE  minibatch'[v] = <<>>
  <2>1. CASE v = w BY <1>2, <1>3, <2>1
  <2>2. CASE v # w BY <1>2, <1>3, <2>2 DEF Parked
  <2> QED BY <2>1, <2>2
<1>4. ~ \A v \in Workers : phase'[v] = "destroyed" BY <1>2
<1> QED BY <1>3, <1>4 DEF Parked

\* Every step keeps it so.
LEMMA ParkedStep == IInv /\ Parked /\ [Next]_vars => Parked'
<1> SUFFICES ASSUME IInv, Parked, [Next]_vars PROVE Parked' OBVIOUS
<1>1. minibatch \in [Workers -> Seq(Items)] /\ Types BY TypesOf DEF IInv, TypeOK
<1>2. ASSUME NEW w \in Workers, StartIteration(w) PROVE Parked'
  BY <1>2, BusyStep DEF StartIteration
<1>3. ASSUME NEW w \in Workers, StopWorker(w) PROVE Parked'
  <2>1. minibatch[w] = <<>> BY <1>3 DEF StopWorker, Parked
  <2> QED BY <1>3, <2>1, BusyStep DEF StopWorker
<1>4. ASSUME NEW w \in Workers, PickNodesToExtend(w) PROVE Parked'
  BY <1>4, BusyStep DEF PickNodesToExtend
<1>5. ASSUME NEW w \in Workers, PickStep(w) PROVE Parked'
  <2>1. phase' = phase /\ minibatch' = minibatch /\ shared_collisions' = shared_collisions
    BY <1>5, Zenon DEF PickStep, StopAtRoot, StopBelowRoot, StartSharing, ShareWithVisit, ShareBelow,
                ShareWithBusy, DropVisits, SplitTasks, Descend, Backtrack, PickUnchanged
  <2> QED BY <2>1 DEF Parked
<1>6. ASSUME NEW w \in Workers, EndPick(w) PROVE Parked'
  <2>1. \A v \in Workers \ {w} : minibatch'[v] = minibatch[v] BY <1>1, <1>6 DEF EndPick
  <2> QED BY <1>6, <2>1, BusyStep DEF EndPick
<1>7. ASSUME NEW w \in Workers, OutOfOrder(w) PROVE Parked'
  <2>1. OutOfOrderFrame(w) /\ \A v \in Workers \ {w} : minibatch'[v] = minibatch[v]
    <3>1. /\ OutOfOrderFrame(w)
          /\ \/ minibatch' = minibatch
             \/ \E ready, completed, collisions : Settles(w, ready, completed, collisions)
      BY <1>1, <1>7, OutOfOrderIs
    <3>2. ASSUME NEW ready, NEW completed, NEW collisions, Settles(w, ready, completed, collisions)
          PROVE  \A v \in Workers \ {w} : minibatch'[v] = minibatch[v]
      BY <1>1, <3>2 DEF Settles
    <3> QED BY <3>1, <3>2
  <2> QED BY <2>1, BusyStep DEF OutOfOrderFrame
<1>8. ASSUME NEW w \in Workers, CountCollisions(w) PROVE Parked'
  <2>1. \A v \in Workers \ {w} : minibatch'[v] = minibatch[v]
    BY <1>1, <1>8 DEF CountCollisions, GrowCollision
  <2>2. phase[w] = "grow" /\ (Goto(w, "gather") \/ Goto(w, "collect")) BY <1>8 DEF CountCollisions
  <2> QED BY <2>1, <2>2, BusyStep
<1>9. ASSUME NEW w \in Workers, CollectCollisions(w) PROVE Parked'
  BY <1>9, BusyStep DEF CollectCollisions
<1>10. ASSUME NEW w \in Workers, DoBackupUpdate(w) PROVE Parked'
  <2>1. minibatch'[w] = <<>> /\ \A v \in Workers \ {w} : minibatch'[v] = minibatch[v]
    BY <1>1, <1>10 DEF DoBackupUpdate
  <2> QED BY <1>10, <2>1, BusyStep DEF DoBackupUpdate
<1>11. ASSUME DestroySearch PROVE Parked'
  BY <1>11 DEF DestroySearch, Parked
<1>12. ASSUME UNCHANGED vars PROVE Parked' BY <1>12 DEF Parked, vars
<1> QED BY <1>2, <1>3, <1>4, <1>5, <1>6, <1>7, <1>8, <1>9, <1>10, <1>11, <1>12 DEF Next

\* What the destructor leaves in flight is what went astray.
StraysOnly ==
  (\A w \in Workers : phase[w] = "destroyed") => \A x \in Nodes : n_in_flight[x] = stray[x]

\* Then nothing is held any more.
LEMMA NothingHeldAtTheEnd == IInv /\ Parked => StraysOnly
<1> SUFFICES ASSUME IInv, Parked, \A w \in Workers : phase[w] = "destroyed", NEW x \in Nodes
             PROVE  n_in_flight[x] = stray[x]
  BY DEF StraysOnly
<1>1. TypeOK /\ Types BY TypesOf DEF IInv
<1>2. shared_collisions = <<>> BY DEF Parked
<1> DEFINE G == [w \in Workers |-> HeldBy(x, minibatch[w], phase[w], stacks[w])]
<1>3. \A w \in Workers : G[w] = 0
  <2> SUFFICES ASSUME NEW w \in Workers PROVE G[w] = 0 OBVIOUS
  <2>1. minibatch[w] = <<>> BY DEF Parked
  <2>2. stacks[w] = <<>>
    <3>1. phase[w] # "pick" OBVIOUS
    <3> QED BY <3>1, NoStack
  <2>3. HeldBy(x, <<>>, phase[w], <<>>) = 0 BY TotalEmpty DEF HeldBy
  <2> QED BY <2>1, <2>2, <2>3
<1>4. Held(x) = Total(shared_collisions, ItemWeight(x)) + SumFunctionOnSet(G, Workers)
  BY <1>1, HeldIs DEF HeldSums
<1>5. IsFiniteSet(Workers) BY GraphAssumption
<1> HIDE DEF G
<1>6. Held(x) = 0
  <2>1. SumFunctionOnSet(G, Workers) = 0 BY <1>3, <1>5, SumZero
  <2>2. Total(shared_collisions, ItemWeight(x)) = 0 BY <1>2, TotalEmpty
  <2> QED BY <1>4, <2>1, <2>2
<1>7. n_in_flight[x] = Held(x) + stray[x] BY DEF IInv, VirtualLossAccounted
<1>8. stray[x] \in Nat BY <1>1 DEF TypeOK
<1> QED BY <1>6, <1>7, <1>8

\* ~Search leaves in flight what ShareWithBusy and DropVisits let go astray and nothing else:
\* but for these its assertion of ZeroNInFlight holds, for every tree and any number of workers.
THEOREM OnlyStraysAreLeft == Spec => []StraysOnly
<1>1. Init => Parked BY DEF Init, Parked
<1> QED BY <1>1, ParkedStep, InitInv, StepInv, NothingHeldAtTheEnd, PTL DEF Spec
=============================================================================
