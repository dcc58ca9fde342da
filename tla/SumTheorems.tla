----------------------------- MODULE SumTheorems -----------------------------
(***************************************************************************)
(* Sums of a function over a finite set, as SumFunctionOnSet defines them. *)
(* The library's induction theorems take a predicate, which the provers    *)
(* cannot instantiate; here induction is over a set of sets.               *)
(***************************************************************************)
EXTENDS Functions, Integers, FiniteSetTheorems, WellFoundedInduction, TLAPS

-------------------------------------------------------------------------------
(* Induction *)

LEMMA NatInduct ==
  ASSUME NEW N, 0 \in N, \A n \in Nat : n \in N => n + 1 \in N
  PROVE  Nat \subseteq N
<1> SUFFICES ASSUME Nat \ N # {} PROVE FALSE
  OBVIOUS
<1> DEFINE Less == OpToRel(<, Nat)
<1>1. IsWellFoundedOn(Less, Nat)
  BY NatLessThanWellFounded
<1>2. \A m, n \in Nat : m < n => <<m, n>> \in Less
  BY DEF OpToRel
<1> HIDE DEF Less
<1>3. PICK n \in Nat \ N : \A m \in Nat \ N : ~(<<m, n>> \in Less)
  BY <1>1, WFMin
<1>4. n # 0 /\ n - 1 \in Nat /\ n - 1 < n /\ (n - 1) + 1 = n
  OBVIOUS
<1> QED
  BY <1>2, <1>3, <1>4

\* What holds of a subset if it holds whenever an element is left out, holds of
\* all of them: of the empty one, too.
LEMMA SubsetInduct ==
  ASSUME NEW S, IsFiniteSet(S), NEW F,
         \A T \in SUBSET S : (\A x \in T : T \ {x} \in F) => T \in F
  PROVE  SUBSET S \subseteq F
<1> DEFINE N == {n \in Nat : \A T \in SUBSET S : Cardinality(T) = n => T \in F}
<1>1. \A T \in SUBSET S : IsFiniteSet(T) /\ Cardinality(T) \in Nat
  BY FS_Subset, FS_CardinalityType
<1>2. 0 \in N
  <2>1. \A T \in SUBSET S : Cardinality(T) = 0 => T = {}
    BY <1>1, FS_EmptySet
  <2> QED
    BY <2>1
<1>3. ASSUME NEW n \in Nat, n \in N PROVE n + 1 \in N
  <2> SUFFICES ASSUME NEW T \in SUBSET S, Cardinality(T) = n + 1, NEW x \in T
               PROVE T \ {x} \in F
    OBVIOUS
  <2>1. IsFiniteSet(T)
    BY <1>1
  <2>2. Cardinality(T \ {x}) = Cardinality(T) - 1
    BY <2>1, FS_RemoveElement
  <2>3. Cardinality(T \ {x}) = n
    BY <2>2
  <2>4. T \ {x} \in SUBSET S
    OBVIOUS
  <2> QED
    BY <1>3, <2>3, <2>4
<1>4. Nat \subseteq N
  <2> HIDE DEF N
  <2> QED
    BY <1>2, <1>3, NatInduct
<1> QED
  BY <1>1, <1>4

-------------------------------------------------------------------------------
(* The recursion *)

Pick(s) == CHOOSE x \in s : TRUE

LEMMA Picked == \A s : s # {} => Pick(s) \in s
BY DEF Pick

\* g sums up w over the subsets of S.
Sums(g, w, S) ==
  g = [s \in SUBSET S |-> IF s = {} THEN 0 ELSE w[Pick(s)] + g[s \ {Pick(s)}]]

LEMMA SumsAgree ==
  ASSUME NEW S, NEW T \in SUBSET S, IsFiniteSet(S), NEW w, NEW g, NEW h, Sums(g, w, S), Sums(h, w, T)
  PROVE  \A s \in SUBSET T : g[s] = h[s]
<1> DEFINE F == {s \in SUBSET T : g[s] = h[s]}
<1>1. ASSUME NEW s \in SUBSET T, \A x \in s : s \ {x} \in F PROVE s \in F
  <2>1. s \in SUBSET S
    OBVIOUS
  <2>2. CASE s = {}
    BY <2>1, <2>2 DEF Sums
  <2>3. CASE s # {}
    <3>1. Pick(s) \in s
      BY <2>3, Picked
    <3>2. g[s \ {Pick(s)}] = h[s \ {Pick(s)}]
      BY <1>1, <3>1
    <3>3. g[s] = w[Pick(s)] + g[s \ {Pick(s)}]
      BY <2>1, <2>3 DEF Sums
    <3>4. h[s] = w[Pick(s)] + h[s \ {Pick(s)}]
      BY <2>3 DEF Sums
    <3> QED
      BY <3>2, <3>3, <3>4
  <2> QED
    BY <2>2, <2>3
<1>2. IsFiniteSet(T)
  BY FS_Subset
<1>3. SUBSET T \subseteq F
  <2> HIDE DEF F
  <2> QED
    BY <1>1, <1>2, SubsetInduct
<1> QED
  BY <1>3

LEMMA SumsExist ==
  ASSUME NEW S, IsFiniteSet(S), NEW w
  PROVE  \E g : Sums(g, w, S)
<1> DEFINE D(n) == {s \in SUBSET S : Cardinality(s) <= n}
           SumsTo(g, n) == g = [s \in D(n) |-> IF s = {} THEN 0 ELSE w[Pick(s)] + g[s \ {Pick(s)}]]
           N == {n \in Nat : \E g : SumsTo(g, n)}
<1>0. \A s \in SUBSET S : IsFiniteSet(s) /\ Cardinality(s) \in Nat /\ Cardinality(s) <= Cardinality(S)
  BY FS_Subset, FS_CardinalityType
<1>1. 0 \in N
  <2>1. \A s \in D(0) : s = {}
    <3>1. \A s \in D(0) : Cardinality(s) = 0
      BY <1>0
    <3> QED
      BY <1>0, <3>1, FS_EmptySet
  <2>2. SumsTo([s \in D(0) |-> 0], 0)
    BY <2>1
  <2> HIDE DEF SumsTo, D
  <2> QED
    BY <2>2
<1>2. ASSUME NEW n \in Nat, n \in N PROVE n + 1 \in N
  <2>1. PICK g : SumsTo(g, n)
    BY <1>2
  <2> DEFINE h == [s \in D(n + 1) |-> IF s = {} THEN 0 ELSE w[Pick(s)] + g[s \ {Pick(s)}]]
  <2>2. ASSUME NEW s \in D(n + 1), s # {} PROVE h[s \ {Pick(s)}] = g[s \ {Pick(s)}]
    <3> DEFINE t == s \ {Pick(s)}
    <3>1. s \in SUBSET S /\ Pick(s) \in s
      BY <2>2, Picked
    <3>2. IsFiniteSet(s) /\ Cardinality(s) \in Nat
      BY <1>0, <3>1
    <3>3. Cardinality(t) = Cardinality(s) - 1
      BY <3>1, <3>2, FS_RemoveElement
    <3>4. t \in SUBSET S /\ Cardinality(t) <= n /\ Cardinality(t) <= n + 1
      BY <3>1, <3>2, <3>3
    <3> HIDE DEF t
    <3>5. h[t] = IF t = {} THEN 0 ELSE w[Pick(t)] + g[t \ {Pick(t)}]
      BY <3>4
    <3>6. g[t] = IF t = {} THEN 0 ELSE w[Pick(t)] + g[t \ {Pick(t)}]
      BY <2>1, <3>4
    <3> QED
      BY <3>5, <3>6 DEF t
  <2>3. SumsTo(h, n + 1)
    <3>1. h = [s \in D(n + 1) |-> IF s = {} THEN 0 ELSE w[Pick(s)] + h[s \ {Pick(s)}]]
      <4>1. \A s \in D(n + 1) :
               (IF s = {} THEN 0 ELSE w[Pick(s)] + g[s \ {Pick(s)}])
                 = (IF s = {} THEN 0 ELSE w[Pick(s)] + h[s \ {Pick(s)}])
        <5> HIDE DEF h, D
        <5> QED
          BY <2>2
      <4>2. h = [s \in D(n + 1) |-> IF s = {} THEN 0 ELSE w[Pick(s)] + g[s \ {Pick(s)}]]
        OBVIOUS
      <4> HIDE DEF h, D
      <4> QED
        BY <4>1, <4>2
    <3> QED
      BY <3>1
  <2> HIDE DEF h, SumsTo
  <2> QED
    BY <2>3
<1>3. Nat \subseteq N
  <2> HIDE DEF N
  <2> QED
    BY <1>1, <1>2, NatInduct
<1>4. Cardinality(S) \in Nat
  BY FS_CardinalityType
<1>5. PICK g : SumsTo(g, Cardinality(S))
  <2> HIDE DEF SumsTo
  <2> QED
    BY <1>3, <1>4
<1>6. D(Cardinality(S)) = SUBSET S
  BY <1>0
<1> QED
  BY <1>5, <1>6 DEF Sums

LEMMA Unfold ==
  ASSUME NEW w, NEW S
  PROVE  SumFunctionOnSet(w, S) = (CHOOSE g : Sums(g, w, S))[S]
BY DEF SumFunctionOnSet, FoldFunctionOnSet, MapThenFoldSet, Sums, Pick

\* The sum takes its elements one after the other.
LEMMA SumRecursion ==
  ASSUME NEW S, IsFiniteSet(S), NEW w
  PROVE  /\ S = {} => SumFunctionOnSet(w, S) = 0
         /\ S # {} => SumFunctionOnSet(w, S) = w[Pick(S)] + SumFunctionOnSet(w, S \ {Pick(S)})
<1> DEFINE g == CHOOSE f : Sums(f, w, S)
           T == S \ {Pick(S)}
           h == CHOOSE f : Sums(f, w, T)
<1>1. Sums(g, w, S)
  BY SumsExist
<1>2. Sums(h, w, T)
  <2>1. IsFiniteSet(T)
    BY FS_Subset
  <2> QED
    BY <2>1, SumsExist
<1>3. SumFunctionOnSet(w, S) = g[S] /\ SumFunctionOnSet(w, T) = h[T]
  BY Unfold
<1> HIDE DEF g, h
<1>4. T \in SUBSET S
  OBVIOUS
<1>5. g[T] = h[T]
  <2> HIDE DEF T
  <2> QED
    BY <1>1, <1>2, <1>4, SumsAgree
<1>6. g[S] = IF S = {} THEN 0 ELSE w[Pick(S)] + g[T]
  BY <1>1 DEF Sums
<1> QED
  BY <1>3, <1>5, <1>6

-------------------------------------------------------------------------------
(* What proofs about sums use *)

LEMMA SumEmpty == ASSUME NEW w PROVE SumFunctionOnSet(w, {}) = 0
BY FS_EmptySet, SumRecursion

\* Sums of integers are integers, sums of naturals naturals.
LEMMA SumInt ==
  ASSUME NEW S, IsFiniteSet(S), NEW w, \A x \in S : w[x] \in Int
  PROVE  SumFunctionOnSet(w, S) \in Int
<1> DEFINE F == {T \in SUBSET S : SumFunctionOnSet(w, T) \in Int}
<1>1. ASSUME NEW T \in SUBSET S, \A x \in T : T \ {x} \in F PROVE T \in F
  <2>1. IsFiniteSet(T)
    BY FS_Subset
  <2>2. /\ T = {} => SumFunctionOnSet(w, T) = 0
        /\ T # {} => SumFunctionOnSet(w, T) = w[Pick(T)] + SumFunctionOnSet(w, T \ {Pick(T)})
    BY <2>1, SumRecursion
  <2>3. T # {} => Pick(T) \in T /\ w[Pick(T)] \in Int /\ SumFunctionOnSet(w, T \ {Pick(T)}) \in Int
    BY <1>1, Picked
  <2> QED
    BY <2>2, <2>3
<1>2. SUBSET S \subseteq F
  <2> HIDE DEF F
  <2> QED
    BY <1>1, SubsetInduct
<1> QED
  BY <1>2

LEMMA SumNat ==
  ASSUME NEW S, IsFiniteSet(S), NEW w, \A x \in S : w[x] \in Nat
  PROVE  SumFunctionOnSet(w, S) \in Nat
<1> DEFINE F == {T \in SUBSET S : SumFunctionOnSet(w, T) \in Nat}
<1>1. ASSUME NEW T \in SUBSET S, \A x \in T : T \ {x} \in F PROVE T \in F
  <2>1. IsFiniteSet(T)
    BY FS_Subset
  <2>2. /\ T = {} => SumFunctionOnSet(w, T) = 0
        /\ T # {} => SumFunctionOnSet(w, T) = w[Pick(T)] + SumFunctionOnSet(w, T \ {Pick(T)})
    BY <2>1, SumRecursion
  <2>3. T # {} => Pick(T) \in T /\ w[Pick(T)] \in Nat /\ SumFunctionOnSet(w, T \ {Pick(T)}) \in Nat
    BY <1>1, Picked
  <2> QED
    BY <2>2, <2>3
<1>2. SUBSET S \subseteq F
  <2> HIDE DEF F
  <2> QED
    BY <1>1, SubsetInduct
<1> QED
  BY <1>2

\* Any element can be taken first.
LEMMA SumTake ==
  ASSUME NEW S, IsFiniteSet(S), NEW w, \A x \in S : w[x] \in Int, NEW a \in S
  PROVE  SumFunctionOnSet(w, S) = w[a] + SumFunctionOnSet(w, S \ {a})
<1> DEFINE F == {T \in SUBSET S : \A x \in T :
                   SumFunctionOnSet(w, T) = w[x] + SumFunctionOnSet(w, T \ {x})}
<1>1. ASSUME NEW T \in SUBSET S, \A x \in T : T \ {x} \in F PROVE T \in F
  <2> SUFFICES ASSUME NEW x \in T
               PROVE  SumFunctionOnSet(w, T) = w[x] + SumFunctionOnSet(w, T \ {x})
    OBVIOUS
  <2>0. \A U \in SUBSET S : IsFiniteSet(U) /\ SumFunctionOnSet(w, U) \in Int
    <3>1. \A U \in SUBSET S : IsFiniteSet(U)
      BY FS_Subset
    <3> QED
      BY <3>1, SumInt
  <2> DEFINE p == Pick(T)
  <2>1. p \in T
    BY Picked
  <2>2. SumFunctionOnSet(w, T) = w[p] + SumFunctionOnSet(w, T \ {p})
    BY <2>0, SumRecursion
  <2> HIDE DEF p
  <2>3. CASE x = p
    BY <2>2, <2>3
  <2>4. CASE x # p
    <3> DEFINE r == SumFunctionOnSet(w, (T \ {x}) \ {p})
    <3>1. SumFunctionOnSet(w, T \ {p}) = w[x] + r
      <4>1. SumFunctionOnSet(w, T \ {p}) = w[x] + SumFunctionOnSet(w, (T \ {p}) \ {x})
        BY <1>1, <2>1, <2>4
      <4>2. (T \ {p}) \ {x} = (T \ {x}) \ {p}
        OBVIOUS
      <4> QED
        BY <4>1, <4>2
    <3>2. SumFunctionOnSet(w, T \ {x}) = w[p] + r
      BY <1>1, <2>1, <2>4
    <3>3. /\ w[p] \in Int /\ w[x] \in Int /\ r \in Int
      <4>1. (T \ {x}) \ {p} \in SUBSET S
        OBVIOUS
      <4> QED
        BY <2>0, <2>1, <4>1
    <3> HIDE DEF r
    <3>4. w[p] + (w[x] + r) = w[x] + (w[p] + r)
      BY <3>3
    <3> QED
      BY <2>2, <3>1, <3>2, <3>4
  <2> QED
    BY <2>3, <2>4
<1>2. SUBSET S \subseteq F
  <2> HIDE DEF F
  <2> QED
    BY <1>1, SubsetInduct
<1> QED
  BY <1>2

LEMMA SumAdd ==
  ASSUME NEW S, IsFiniteSet(S), NEW a, a \notin S, NEW w, \A x \in S \cup {a} : w[x] \in Int
  PROVE  SumFunctionOnSet(w, S \cup {a}) = w[a] + SumFunctionOnSet(w, S)
<1>1. IsFiniteSet(S \cup {a}) /\ (S \cup {a}) \ {a} = S
  BY FS_AddElement
<1> QED
  BY <1>1, SumTake

\* Only the values on the set count.
LEMMA SumSame ==
  ASSUME NEW S, IsFiniteSet(S), NEW v, NEW w, \A x \in S : v[x] = w[x]
  PROVE  SumFunctionOnSet(v, S) = SumFunctionOnSet(w, S)
<1> DEFINE F == {T \in SUBSET S : SumFunctionOnSet(v, T) = SumFunctionOnSet(w, T)}
<1>1. ASSUME NEW T \in SUBSET S, \A x \in T : T \ {x} \in F PROVE T \in F
  <2>1. IsFiniteSet(T)
    BY FS_Subset
  <2>2. /\ T = {} => SumFunctionOnSet(w, T) = 0
        /\ T # {} => SumFunctionOnSet(w, T) = w[Pick(T)] + SumFunctionOnSet(w, T \ {Pick(T)})
        /\ T = {} => SumFunctionOnSet(v, T) = 0
        /\ T # {} => SumFunctionOnSet(v, T) = v[Pick(T)] + SumFunctionOnSet(v, T \ {Pick(T)})
    BY <2>1, SumRecursion
  <2>3. T # {} => /\ v[Pick(T)] = w[Pick(T)]
                  /\ SumFunctionOnSet(v, T \ {Pick(T)}) = SumFunctionOnSet(w, T \ {Pick(T)})
    BY <1>1, Picked
  <2> QED
    BY <2>2, <2>3
<1>2. SUBSET S \subseteq F
  <2> HIDE DEF F
  <2> QED
    BY <1>1, SubsetInduct
<1> QED
  BY <1>2

\* A value that changes moves the sum by as much.
LEMMA SumChange ==
  ASSUME NEW S, IsFiniteSet(S), NEW a \in S, NEW v, NEW w,
         \A x \in S : v[x] \in Int /\ w[x] \in Int, \A x \in S \ {a} : v[x] = w[x]
  PROVE  SumFunctionOnSet(v, S) = SumFunctionOnSet(w, S) - w[a] + v[a]
<1>1. IsFiniteSet(S \ {a})
  BY FS_Subset
<1>2. /\ SumFunctionOnSet(v, S) = v[a] + SumFunctionOnSet(v, S \ {a})
      /\ SumFunctionOnSet(w, S) = w[a] + SumFunctionOnSet(w, S \ {a})
  BY SumTake
<1>3. SumFunctionOnSet(v, S \ {a}) = SumFunctionOnSet(w, S \ {a})
  BY <1>1, SumSame
<1>4. SumFunctionOnSet(v, S \ {a}) \in Int /\ SumFunctionOnSet(w, S \ {a}) \in Int
  BY <1>1, SumInt
<1> QED
  BY <1>2, <1>3, <1>4

LEMMA SumZero ==
  ASSUME NEW S, IsFiniteSet(S), NEW w, \A x \in S : w[x] = 0
  PROVE  SumFunctionOnSet(w, S) = 0
<1> DEFINE F == {T \in SUBSET S : SumFunctionOnSet(w, T) = 0}
<1>1. ASSUME NEW T \in SUBSET S, \A x \in T : T \ {x} \in F PROVE T \in F
  <2>1. IsFiniteSet(T)
    BY FS_Subset
  <2>2. /\ T = {} => SumFunctionOnSet(w, T) = 0
        /\ T # {} => SumFunctionOnSet(w, T) = w[Pick(T)] + SumFunctionOnSet(w, T \ {Pick(T)})
    BY <2>1, SumRecursion
  <2>3. T # {} => w[Pick(T)] = 0 /\ SumFunctionOnSet(w, T \ {Pick(T)}) = 0
    BY <1>1, Picked
  <2> QED
    BY <2>2, <2>3
<1>2. SUBSET S \subseteq F
  <2> HIDE DEF F
  <2> QED
    BY <1>1, SubsetInduct
<1> QED
  BY <1>2

\* A term is no more than the sum of naturals it belongs to.
LEMMA SumBounds ==
  ASSUME NEW S, IsFiniteSet(S), NEW w, \A x \in S : w[x] \in Nat, NEW a \in S
  PROVE  w[a] <= SumFunctionOnSet(w, S)
<1>1. IsFiniteSet(S \ {a})
  BY FS_Subset
<1>2. SumFunctionOnSet(w, S \ {a}) \in Nat
  BY <1>1, SumNat
<1>3. SumFunctionOnSet(w, S) = w[a] + SumFunctionOnSet(w, S \ {a})
  BY SumTake
<1> QED
  BY <1>2, <1>3

-------------------------------------------------------------------------------
\* Finitely many naturals have an upper bound.
LEMMA NatsBounded ==
  ASSUME NEW S \in SUBSET Nat, IsFiniteSet(S)
  PROVE  \E n \in Nat : \A x \in S : x < n
<1> DEFINE F == {T \in SUBSET S : \E n \in Nat : \A x \in T : x < n}
<1>1. ASSUME NEW T \in SUBSET S, \A x \in T : T \ {x} \in F PROVE T \in F
  <2>1. CASE T = {}
    BY <2>1
  <2>2. CASE T # {}
    <3>1. PICK x \in T : TRUE
      BY <2>2
    <3>2. PICK n \in Nat : \A y \in T \ {x} : y < n
      BY <1>1
    <3>3. x \in Nat
      OBVIOUS
    <3>4. n + x + 1 \in Nat /\ \A y \in T : y < n + x + 1
      BY <3>2, <3>3
    <3> QED
      BY <3>4
  <2> QED
    BY <2>1, <2>2
<1>2. SUBSET S \subseteq F
  <2> HIDE DEF F
  <2> QED
    BY <1>1, SubsetInduct
<1> QED
  BY <1>2
===============================================================================
