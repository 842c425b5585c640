----------------------------- MODULE DataLemmas -----------------------------
(***************************************************************************)
(* Facts about naturals, finite sets and sequences that the proofs of      *)
(* several components rest on.  The first two are stated of sets and not of*)
(* predicates: they are what an induction over data is reduced to there,   *)
(* the least number of which a claim fails being no such number.           *)
(***************************************************************************)
EXTENDS Integers, Functions, FiniteSetTheorems, SequenceTheorems, WellFoundedInduction, TLAPS

\* A set of naturals that is not empty has a least element: < is well-founded on them.
LEMMA LeastOf ==
  ASSUME NEW T \in SUBSET Nat, T # {}
  PROVE  \E m \in T : \A n \in T : m <= n
<1>1. PICK R : IsWellFoundedOn(R, Nat) /\ \A x, y \in Nat : x < y => <<x, y>> \in R
  <2>1. IsWellFoundedOn(OpToRel(<, Nat), Nat)
    BY NatLessThanWellFounded
  <2>2. \A x, y \in Nat : x < y => <<x, y>> \in OpToRel(<, Nat)
    BY DEF OpToRel
  <2> QED
    BY <2>1, <2>2, Zenon
<1>2. T \subseteq Nat /\ IsWellFoundedOn(R, Nat)
  BY <1>1
<1>3. \E m \in T : \A n \in T : ~(<<n, m>> \in R)
  BY ONLY <1>2, T # {}, WFMin
<1>4. PICK m \in T : \A n \in T : ~(n < m)
  BY <1>1, <1>2, <1>3
<1> QED
  BY <1>4

\* A bounded one has a largest: that from which the bound is least far.
LEMMA LargestOf ==
  ASSUME NEW bound \in Nat, NEW T \in SUBSET (0..bound), T # {}
  PROVE  \E m \in T : \A n \in T : n <= m
<1> DEFINE Gaps == {bound - n : n \in T}
<1>1. PICK gap \in Gaps : \A other \in Gaps : gap <= other
  <2>1. Gaps \subseteq Nat
    OBVIOUS
  <2>2. Gaps # {}
    OBVIOUS
  <2> QED
    BY <2>1, <2>2, LeastOf
<1>2. PICK m \in T : gap = bound - m
  BY <1>1
<1>3. ASSUME NEW n \in T
      PROVE  n <= m
  <2>1. bound - n \in Gaps
    OBVIOUS
  <2>2. bound - m <= bound - n
    BY <1>1, <1>2, <2>1
  <2>3. m \in 0..bound /\ n \in 0..bound
    OBVIOUS
  <2> QED
    BY <2>2, <2>3
<1> QED
  BY <1>3

\* Products keep an order.
LEMMA ProductsAreOrdered ==
  ASSUME NEW x \in Int, NEW y \in Int, x <= y, NEW p \in Nat
  PROVE  x * p <= y * p /\ p * x <= p * y
<1>1. (y - x) * p >= 0
  <2>1. y - x \in Nat
    OBVIOUS
  <2> DEFINE d == y - x
  <2> HIDE DEF d
  <2>2. d * p \in Nat
    BY <2>1 DEF d
  <2> QED
    BY <2>2 DEF d
<1> QED
  BY <1>1

\* The values of a function on a finite set are finitely many.
LEMMA ImageIsFinite ==
  ASSUME NEW f, IsFiniteSet(DOMAIN f)
  PROVE  IsFiniteSet({f[x] : x \in DOMAIN f})
<1> DEFINE g == [x \in DOMAIN f |-> f[x]]
           image == {f[x] : x \in DOMAIN f}
<1>1. g \in Surjection(DOMAIN f, image)
  BY DEF Surjection
<1> HIDE DEF g
<1> QED
  BY <1>1, FS_Surjection

\* A finite set with two different elements has more than one.
LEMMA TwoOfThem ==
  ASSUME NEW S, IsFiniteSet(S), NEW x \in S, NEW y \in S, x # y
  PROVE  Cardinality(S) > 1
<1>1. IsFiniteSet({x}) /\ Cardinality({x}) = 1
  BY FS_Singleton
<1>2. IsFiniteSet({x} \cup {y}) /\ Cardinality({x} \cup {y}) = 2
  <2>1. y \notin {x}
    OBVIOUS
  <2>2. Cardinality({x} \cup {y}) = Cardinality({x}) + 1 /\ IsFiniteSet({x} \cup {y})
    BY <1>1, <2>1, FS_AddElement
  <2> QED
    BY <1>1, <2>2
<1>3. {x} \cup {y} \subseteq S
  OBVIOUS
<1>4. Cardinality({x} \cup {y}) <= Cardinality(S) /\ Cardinality(S) \in Nat
  BY <1>3, FS_Subset, FS_CardinalityType
<1> QED
  BY <1>2, <1>4

\* Appending to a sequence, whatever its elements and the one that is added are.
LEMMA AppendToAny ==
  ASSUME NEW s, NEW S, s \in Seq(S), NEW x
  PROVE  /\ Append(s, x) \in Seq(S \cup {x})
         /\ Len(s) \in Nat /\ Len(Append(s, x)) = Len(s) + 1
         /\ \A i \in 1..Len(s) : Append(s, x)[i] = s[i]
         /\ Append(s, x)[Len(s) + 1] = x
<1>1. s \in Seq(S \cup {x})
  BY SeqMonotonic
<1>2. x \in S \cup {x}
  OBVIOUS
<1> QED
  BY <1>1, <1>2
-----------------------------------------------------------------------------
(* Sums over finite sets, which the community modules define by choosing   *)
(* one element after the other.                                            *)

\* What holds of a finite set if it does of all sets with one element less.
LEMMA BySubsets ==
  ASSUME NEW S, IsFiniteSet(S), NEW Good,
         \A T \in SUBSET S : (\A x \in T : T \ {x} \in Good) => T \in Good
  PROVE  \A T \in SUBSET S : T \in Good
<1> SUFFICES ASSUME NEW bad \in SUBSET S, bad \notin Good
             PROVE  FALSE
  OBVIOUS
<1> DEFINE sizes == {Cardinality(T) : T \in {U \in SUBSET S : U \notin Good}}
<1>1. \A T \in SUBSET S : IsFiniteSet(T) /\ Cardinality(T) \in Nat
  BY FS_Subset, FS_CardinalityType
<1>2. sizes \in SUBSET Nat /\ sizes # {}
  BY <1>1
<1>3. PICK n \in sizes : \A m \in sizes : n <= m
  BY <1>2, LeastOf
<1>4. PICK T \in SUBSET S : T \notin Good /\ Cardinality(T) = n
  BY <1>3
<1>5. ASSUME NEW x \in T
      PROVE  T \ {x} \in Good
  <2>1. Cardinality(T \ {x}) = n - 1 /\ n \in Nat
    BY <1>1, <1>4, FS_RemoveElement
  <2>2. ~(n <= n - 1)
    BY <2>1
  <2> QED
    BY <1>3, <2>1, <2>2
<1> QED
  BY <1>4, <1>5

\* g[T] is the sum of f over T, for every T of a set of sets.
SumsOn(g, f, Sets) ==
  g = [T \in Sets |-> IF T = {} THEN 0
                      ELSE f[CHOOSE x \in T : TRUE] + g[T \ {CHOOSE x \in T : TRUE}]]

SmallSubsets(S, n) == {T \in SUBSET S : Cardinality(T) <= n}

\* There are such sums: of the subsets of n elements, for every n.
LEMMA SumsAreDefined ==
  ASSUME NEW f, NEW S, IsFiniteSet(S), NEW n \in Nat
  PROVE  \E g : SumsOn(g, f, SmallSubsets(S, n))
<1> DEFINE UpTo(m) == SmallSubsets(S, m)
           Undefined == {m \in Nat : ~\E g : SumsOn(g, f, UpTo(m))}
<1>0. \A T \in SUBSET S : IsFiniteSet(T) /\ Cardinality(T) \in Nat
  BY FS_Subset, FS_CardinalityType
<1> USE DEF SmallSubsets
<1> SUFFICES ASSUME n \in Undefined
             PROVE  FALSE
  OBVIOUS
<1>1. PICK m \in Undefined : \A k \in Undefined : m <= k
  <2>1. Undefined \in SUBSET Nat /\ Undefined # {}
    OBVIOUS
  <2> QED
    BY <2>1, LeastOf
<1>2. m # 0
  <2> DEFINE g == [T \in UpTo(0) |-> 0]
  <2>1. \A T \in UpTo(0) : T = {}
    BY <1>0, FS_EmptySet
  <2>2. SumsOn(g, f, UpTo(0))
    BY <2>1 DEF SumsOn
  <2> QED
    BY <1>1, <2>2
<1>3. m - 1 \in Nat /\ m - 1 \notin Undefined
  <2>1. m \in Nat
    OBVIOUS
  <2>2. m - 1 \in Nat /\ ~(m <= m - 1)
    BY <1>2, <2>1
  <2> HIDE DEF Undefined
  <2> QED
    BY <1>1, <2>2
<1>4. PICK g : SumsOn(g, f, UpTo(m - 1))
  BY <1>3
<1> DEFINE one(T) == CHOOSE x \in T : TRUE
           h == [T \in UpTo(m) |-> IF T = {} THEN 0 ELSE f[one(T)] + g[T \ {one(T)}]]
<1>5. ASSUME NEW T \in UpTo(m), T # {}
      PROVE  T \ {one(T)} \in UpTo(m) /\ h[T \ {one(T)}] = g[T \ {one(T)}]
  <2>1. one(T) \in T
    BY <1>5
  <2> DEFINE U == T \ {one(T)}
  <2>2. Cardinality(U) = Cardinality(T) - 1 /\ Cardinality(T) \in Nat
    <3> HIDE DEF one
    <3> QED
      BY <1>0, <2>1, FS_RemoveElement
  <2>3. U \in UpTo(m - 1) /\ U \in UpTo(m)
    BY <1>3, <2>2
  <2>4. g[U] = IF U = {} THEN 0 ELSE f[one(U)] + g[U \ {one(U)}]
    <3> HIDE DEF U, UpTo
    <3> QED
      BY <1>4, <2>3 DEF SumsOn
  <2> QED
    BY <2>3, <2>4
<1>6. SumsOn(h, f, UpTo(m))
  <2>1. ASSUME NEW T \in UpTo(m)
        PROVE  h[T] = IF T = {} THEN 0 ELSE f[one(T)] + h[T \ {one(T)}]
    <3>1. h[T] = IF T = {} THEN 0 ELSE f[one(T)] + g[T \ {one(T)}]
      OBVIOUS
    <3> HIDE DEF h, one, UpTo
    <3> QED
      BY <1>5, <3>1
  <2>2. h = [T \in UpTo(m) |-> h[T]]
    OBVIOUS
  <2> HIDE DEF h, UpTo
  <2> QED
    BY <2>1, <2>2 DEF SumsOn
<1> QED
  BY <1>1, <1>6

\* And SumFunctionOnSet is one: some sums of all subsets agree with it on them.
LEMMA SumIs ==
  ASSUME NEW f, NEW S, IsFiniteSet(S)
  PROVE  \E g : SumsOn(g, f, SUBSET S) /\ SumFunctionOnSet(f, S) = g[S]
<1>1. SumFunctionOnSet(f, S) = (CHOOSE g : SumsOn(g, f, SUBSET S))[S]
  BY DEF SumFunctionOnSet, FoldFunctionOnSet, MapThenFoldSet, SumsOn
<1>2. \E g : SumsOn(g, f, SUBSET S)
  <2>1. Cardinality(S) \in Nat
    BY FS_CardinalityType
  <2>2. SmallSubsets(S, Cardinality(S)) = SUBSET S
    BY FS_Subset DEF SmallSubsets
  <2>3. \A n \in Nat : \E g : SumsOn(g, f, SmallSubsets(S, n))
    BY SumsAreDefined
  <2>4. PICK g : SumsOn(g, f, SmallSubsets(S, Cardinality(S)))
    BY <2>1, <2>3
  <2> QED
    BY <2>2, <2>4
<1> QED
  BY <1>1, <1>2

\* Sums of subsets do not depend on what they are subsets of.
LEMMA SumsAgree ==
  ASSUME NEW f, NEW S, IsFiniteSet(S), NEW R \in SUBSET S, NEW g, NEW h,
         SumsOn(g, f, SUBSET S), SumsOn(h, f, SUBSET R)
  PROVE  g[R] = h[R]
<1> DEFINE Good == {T \in SUBSET R : g[T] = h[T]}
<1>1. IsFiniteSet(R)
  BY FS_Subset
<1>2. ASSUME NEW T \in SUBSET R, \A x \in T : T \ {x} \in Good
      PROVE  T \in Good
  <2> DEFINE one == CHOOSE x \in T : TRUE
  <2>1. /\ g[T] = IF T = {} THEN 0 ELSE f[one] + g[T \ {one}]
        /\ h[T] = IF T = {} THEN 0 ELSE f[one] + h[T \ {one}]
    BY DEF SumsOn
  <2>2. T # {} => g[T \ {one}] = h[T \ {one}]
    <3>1. T # {} => one \in T
      OBVIOUS
    <3> HIDE DEF one
    <3> QED
      BY <1>2, <3>1
  <2> HIDE DEF one
  <2> QED
    BY <2>1, <2>2
<1>3. \A T \in SUBSET R : T \in Good
  <2> HIDE DEF Good
  <2> QED
    BY <1>1, <1>2, BySubsets
<1> QED
  BY <1>3

\* The sum of a set that is not empty is that of one element and of the others.
LEMMA SumChooses ==
  ASSUME NEW f, NEW S, IsFiniteSet(S)
  PROVE  LET one == CHOOSE x \in S : TRUE IN
         SumFunctionOnSet(f, S)
           = IF S = {} THEN 0 ELSE f[one] + SumFunctionOnSet(f, S \ {one})
<1> DEFINE one == CHOOSE x \in S : TRUE
<1>1. PICK g : SumsOn(g, f, SUBSET S) /\ SumFunctionOnSet(f, S) = g[S]
  BY SumIs
<1>2. g[S] = IF S = {} THEN 0 ELSE f[one] + g[S \ {one}]
  BY <1>1 DEF SumsOn
<1>3. IsFiniteSet(S \ {one})
  BY FS_Subset
<1>4. PICK h : SumsOn(h, f, SUBSET (S \ {one}))
               /\ SumFunctionOnSet(f, S \ {one}) = h[S \ {one}]
  BY <1>3, SumIs
<1>5. g[S \ {one}] = h[S \ {one}]
  <2> HIDE DEF one
  <2> QED
    BY <1>1, <1>4, SumsAgree
<1> QED
  BY <1>1, <1>2, <1>4, <1>5

\* A sum of integers is one.
LEMMA SumType ==
  ASSUME NEW S, IsFiniteSet(S), NEW f, \A x \in S : f[x] \in Int
  PROVE  \A T \in SUBSET S : SumFunctionOnSet(f, T) \in Int
<1> DEFINE Good == {T \in SUBSET S : SumFunctionOnSet(f, T) \in Int}
<1>1. ASSUME NEW T \in SUBSET S, \A x \in T : T \ {x} \in Good
      PROVE  T \in Good
  <2> DEFINE one == CHOOSE x \in T : TRUE
  <2>1. SumFunctionOnSet(f, T) = IF T = {} THEN 0 ELSE f[one] + SumFunctionOnSet(f, T \ {one})
    BY SumChooses, FS_Subset
  <2>2. T # {} => one \in T
    OBVIOUS
  <2> HIDE DEF one
  <2> QED
    BY <1>1, <2>1, <2>2
<1>2. \A T \in SUBSET S : T \in Good
  <2> HIDE DEF Good
  <2> QED
    BY <1>1, BySubsets
<1> QED
  BY <1>2

\* It does not matter which element is taken first.
LEMMA SumOfOneAndOthers ==
  ASSUME NEW S, IsFiniteSet(S), NEW f, \A x \in S : f[x] \in Int
  PROVE  \A T \in SUBSET S : \A x \in T :
           SumFunctionOnSet(f, T) = f[x] + SumFunctionOnSet(f, T \ {x})
<1> DEFINE Good == {T \in SUBSET S : \A x \in T :
                      SumFunctionOnSet(f, T) = f[x] + SumFunctionOnSet(f, T \ {x})}
<1>1. ASSUME NEW T \in SUBSET S, \A x \in T : T \ {x} \in Good
      PROVE  T \in Good
  <2> SUFFICES ASSUME NEW x \in T
               PROVE  SumFunctionOnSet(f, T) = f[x] + SumFunctionOnSet(f, T \ {x})
    OBVIOUS
  <2> DEFINE one == CHOOSE y \in T : TRUE
  <2>1. one \in T /\ SumFunctionOnSet(f, T) = f[one] + SumFunctionOnSet(f, T \ {one})
    BY SumChooses, FS_Subset
  <2> HIDE DEF one
  <2>2. CASE one = x
    BY <2>1, <2>2
  <2>3. CASE one # x
    <3>1. /\ SumFunctionOnSet(f, T \ {one}) = f[x] + SumFunctionOnSet(f, (T \ {one}) \ {x})
          /\ SumFunctionOnSet(f, T \ {x}) = f[one] + SumFunctionOnSet(f, (T \ {x}) \ {one})
      BY <1>1, <2>1, <2>3
    <3>2. (T \ {one}) \ {x} = (T \ {x}) \ {one}
      OBVIOUS
    <3>3. SumFunctionOnSet(f, (T \ {x}) \ {one}) \in Int /\ f[x] \in Int /\ f[one] \in Int
      <4>1. (T \ {x}) \ {one} \in SUBSET S
        OBVIOUS
      <4> QED
        BY <2>1, <4>1, SumType
    <3> DEFINE a == SumFunctionOnSet(f, T \ {one})
               b == SumFunctionOnSet(f, T \ {x})
               c == SumFunctionOnSet(f, (T \ {x}) \ {one})
    <3>4. a = f[x] + c /\ b = f[one] + c /\ c \in Int
      BY <3>1, <3>2, <3>3
    <3>5. SumFunctionOnSet(f, T) = f[one] + a
      BY <2>1
    <3> HIDE DEF a, b, c
    <3>6. f[one] + a = f[x] + b
      BY <3>3, <3>4
    <3> QED
      BY <3>5, <3>6 DEF b
  <2> QED
    BY <2>2, <2>3
<1>2. \A T \in SUBSET S : T \in Good
  <2> HIDE DEF Good
  <2> QED
    BY <1>1, BySubsets
<1> QED
  BY <1>2

\* Sums are linear.
LEMMA SumIsLinear ==
  ASSUME NEW S, IsFiniteSet(S), NEW f, NEW g, NEW h, NEW p \in Int, NEW q \in Int,
         \A x \in S : f[x] \in Int /\ g[x] \in Int /\ h[x] = f[x] * p - g[x] * q
  PROVE  SumFunctionOnSet(h, S) = SumFunctionOnSet(f, S) * p - SumFunctionOnSet(g, S) * q
<1> DEFINE F(T) == SumFunctionOnSet(f, T)
           G(T) == SumFunctionOnSet(g, T)
           H(T) == SumFunctionOnSet(h, T)
           Good == {T \in SUBSET S : H(T) = F(T) * p - G(T) * q}
<1>1. ASSUME NEW T \in SUBSET S, \A x \in T : T \ {x} \in Good
      PROVE  T \in Good
  <2>1. CASE T = {}
    <3>1. F(T) = 0 /\ G(T) = 0 /\ H(T) = 0
      BY <2>1, SumChooses, FS_EmptySet
    <3> HIDE DEF F, G, H
    <3> QED
      BY <3>1
  <2>2. ASSUME NEW x \in T
        PROVE  T \in Good
    <3> DEFINE U == T \ {x}
    <3>1. F(T) = f[x] + F(U) /\ G(T) = g[x] + G(U)
      BY SumOfOneAndOthers
    <3>2. \A y \in S : h[y] \in Int
      OBVIOUS
    <3>3. H(T) = h[x] + H(U)
      BY <3>2, SumOfOneAndOthers
    <3>4. F(U) \in Int /\ G(U) \in Int
      BY SumType
    <3>5. H(U) = F(U) * p - G(U) * q
      BY <1>1
    <3>6. x \in S
      OBVIOUS
    <3> HIDE DEF F, G, H, U
    <3>7. /\ (f[x] + F(U)) * p = f[x] * p + F(U) * p
          /\ (g[x] + G(U)) * q = g[x] * q + G(U) * q
      BY <3>4, <3>6
    <3>8. /\ f[x] * p \in Int /\ F(U) * p \in Int
          /\ g[x] * q \in Int /\ G(U) * q \in Int
      BY <3>4, <3>6
    <3>9. H(T) = F(T) * p - G(T) * q
      BY <3>1, <3>3, <3>5, <3>6, <3>7, <3>8
    <3> QED
      BY <3>9
  <2> QED
    BY <2>1, <2>2
<1>2. \A T \in SUBSET S : T \in Good
  <2> HIDE DEF Good
  <2> QED
    BY <1>1, BySubsets
<1> QED
  BY <1>2

\* No subset sums up to more than the positive values do, and the sum of the distances
\* from zero is what these sum up to and what the others do, turned.
LEMMA SumOfGains ==
  ASSUME NEW S, IsFiniteSet(S), NEW d, NEW e,
         \A x \in S : d[x] \in Int /\ e[x] = IF d[x] < 0 THEN -d[x] ELSE d[x]
  PROVE  LET gains == {x \in S : d[x] > 0} IN
         /\ \A T \in SUBSET S : SumFunctionOnSet(d, T) <= SumFunctionOnSet(d, gains)
         /\ SumFunctionOnSet(e, S) = 2 * SumFunctionOnSet(d, gains) - SumFunctionOnSet(d, S)
<1> DEFINE D(T) == SumFunctionOnSet(d, T)
           E(T) == SumFunctionOnSet(e, T)
           gains == {x \in S : d[x] > 0}
<1>0. \A x \in S : e[x] \in Int
  OBVIOUS
<1>1. ASSUME NEW T \in SUBSET S, NEW x \in T, NEW R \in SUBSET S
      PROVE  /\ D(T \cap R) \in Int /\ D((T \ {x}) \cap R) \in Int
             /\ D(T \cap R) = IF x \in R THEN d[x] + D((T \ {x}) \cap R)
                                         ELSE D((T \ {x}) \cap R)
  <2>1. D(T \cap R) \in Int /\ D((T \ {x}) \cap R) \in Int
    BY SumType
  <2>2. CASE x \in R
    <3>1. x \in T \cap R /\ (T \cap R) \ {x} = (T \ {x}) \cap R /\ T \cap R \in SUBSET S
      BY <2>2
    <3>2. D(T \cap R) = d[x] + D((T \cap R) \ {x})
      BY <3>1, SumOfOneAndOthers
    <3> QED
      BY <2>1, <2>2, <3>1, <3>2
  <2>3. CASE x \notin R
    <3>1. T \cap R = (T \ {x}) \cap R
      BY <2>3
    <3> QED
      BY <2>1, <2>3, <3>1
  <2> QED
    BY <2>2, <2>3
<1>2. D({}) = 0 /\ E({}) = 0
  BY SumChooses, FS_EmptySet
<1>g. gains \in SUBSET S /\ S \in SUBSET S
  OBVIOUS
<1>3. ASSUME NEW R \in SUBSET S
      PROVE  D(R) <= D(gains)
  <2> DEFINE Good == {T \in SUBSET S : D(T \cap R) <= D(T \cap gains)}
  <2>1. ASSUME NEW T \in SUBSET S, \A x \in T : T \ {x} \in Good
        PROVE  T \in Good
    <3>1. CASE T = {}
      <4>1. T \cap R = {} /\ T \cap gains = {}
        BY <3>1
      <4>2. D(T \cap R) = 0 /\ D(T \cap gains) = 0
        BY <1>2, <4>1
      <4> HIDE DEF D
      <4> QED
        BY <3>1, <4>2
    <3>2. ASSUME NEW x \in T
          PROVE  D(T \cap R) <= D(T \cap gains)
      <4> DEFINE U == T \ {x}
      <4>1. D(U \cap R) <= D(U \cap gains)
        BY <2>1
      <4>2. /\ D(U \cap R) \in Int /\ D(U \cap gains) \in Int
            /\ D(T \cap R) = IF x \in R THEN d[x] + D(U \cap R) ELSE D(U \cap R)
            /\ D(T \cap gains) = IF x \in gains THEN d[x] + D(U \cap gains) ELSE D(U \cap gains)
        <5> HIDE DEF D, gains
        <5> QED
          BY <1>1, <1>g
      <4>3. d[x] \in Int /\ (x \in gains <=> d[x] > 0)
        OBVIOUS
      <4> HIDE DEF D, U, gains
      <4> QED
        BY <4>1, <4>2, <4>3
    <3> QED
      BY <3>1, <3>2
  <2>2. S \in Good
    <3> HIDE DEF Good
    <3> QED
      BY <2>1, BySubsets
  <2>3. S \cap R = R /\ S \cap gains = gains
    OBVIOUS
  <2> QED
    BY <2>2, <2>3
<1>4. E(S) = 2 * D(gains) - D(S)
  <2> DEFINE Good == {T \in SUBSET S : E(T) = 2 * D(T \cap gains) - D(T \cap S)}
  <2>1. ASSUME NEW T \in SUBSET S, \A x \in T : T \ {x} \in Good
        PROVE  T \in Good
    <3>1. CASE T = {}
      <4>1. T \cap S = {} /\ T \cap gains = {}
        BY <3>1
      <4>2. E(T) = 0 /\ D(T \cap S) = 0 /\ D(T \cap gains) = 0
        BY <1>2, <3>1, <4>1
      <4> HIDE DEF D, E
      <4> QED
        BY <4>2
    <3>2. ASSUME NEW x \in T
          PROVE  E(T) = 2 * D(T \cap gains) - D(T \cap S)
      <4> DEFINE U == T \ {x}
      <4>1. E(U) = 2 * D(U \cap gains) - D(U \cap S)
        BY <2>1
      <4>2. /\ D(U \cap S) \in Int /\ D(U \cap gains) \in Int
            /\ D(T \cap S) = d[x] + D(U \cap S)
            /\ D(T \cap gains) = IF x \in gains THEN d[x] + D(U \cap gains) ELSE D(U \cap gains)
        <5> HIDE DEF D, gains
        <5> QED
          BY <1>1, <1>g
      <4>3. E(T) = e[x] + E(U)
        BY <1>0, SumOfOneAndOthers
      <4>4. /\ d[x] \in Int /\ (x \in gains <=> d[x] > 0)
            /\ e[x] = IF d[x] < 0 THEN -d[x] ELSE d[x]
        OBVIOUS
      <4> HIDE DEF D, E, U, gains
      <4> QED
        BY <4>1, <4>2, <4>3, <4>4
    <3> QED
      BY <3>1, <3>2
  <2>2. \A T \in SUBSET S : T \in Good
    <3> HIDE DEF Good
    <3> QED
      BY <2>1, BySubsets
  <2>3. S \cap S = S /\ S \cap gains = gains
    OBVIOUS
  <2> QED
    BY <2>2, <2>3
<1> QED
  BY <1>3, <1>4

\* A sum is that of the values that are not zero.
LEMMA SumOfNonzero ==
  ASSUME NEW S, IsFiniteSet(S), NEW f, \A x \in S : f[x] \in Int
  PROVE  SumFunctionOnSet(f, S) = SumFunctionOnSet(f, {x \in S : f[x] # 0})
<1> DEFINE F(T) == SumFunctionOnSet(f, T)
           N == {x \in S : f[x] # 0}
           Good == {T \in SUBSET S : F(T) = F(T \cap N)}
<1>1. ASSUME NEW T \in SUBSET S, \A x \in T : T \ {x} \in Good
      PROVE  T \in Good
  <2>1. CASE T = {}
    BY <2>1
  <2>2. ASSUME NEW x \in T
        PROVE  T \in Good
    <3> DEFINE U == T \ {x}
    <3>1. F(T) = f[x] + F(U) /\ F(U) = F(U \cap N) /\ F(U) \in Int /\ f[x] \in Int
      BY <1>1, SumOfOneAndOthers, SumType
    <3>2. CASE x \in N
      <4>1. T \cap N \in SUBSET S /\ x \in T \cap N /\ (T \cap N) \ {x} = U \cap N
        BY <3>2
      <4>2. F(T \cap N) = f[x] + F((T \cap N) \ {x})
        BY <4>1, SumOfOneAndOthers
      <4> QED
        BY <3>1, <4>1, <4>2
    <3>3. CASE x \notin N
      <4>1. T \cap N = U \cap N /\ f[x] = 0
        BY <3>3
      <4>2. F(T \cap N) = F(U \cap N)
        BY <4>1
      <4> DEFINE all == F(T)
                 rest == F(U)
                 nonzero == F(U \cap N)
      <4>3. all = f[x] + rest /\ rest = nonzero /\ rest \in Int /\ f[x] = 0
        BY <3>1, <4>1
      <4>4. all = nonzero
        <5> HIDE DEF all, rest, nonzero
        <5> QED
          BY <4>3
      <4> QED
        BY <4>2, <4>4
    <3> QED
      BY <3>2, <3>3
  <2> QED
    BY <2>1, <2>2
<1>2. \A T \in SUBSET S : T \in Good
  <2> HIDE DEF Good
  <2> QED
    BY <1>1, BySubsets
<1>3. S \cap N = N
  OBVIOUS
<1> QED
  BY <1>2, <1>3

\* One value that is greater by one makes the sum greater by one.
LEMMA SumOfOneMore ==
  ASSUME NEW S, IsFiniteSet(S), NEW f, NEW h, NEW x \in S,
         \A y \in S : f[y] \in Int /\ h[y] = IF y = x THEN f[y] + 1 ELSE f[y]
  PROVE  SumFunctionOnSet(h, S) = SumFunctionOnSet(f, S) + 1
<1> DEFINE one == [y \in S |-> IF y = x THEN 1 ELSE 0]
<1>1. \A y \in S : one[y] \in Int /\ h[y] \in Int
  OBVIOUS
<1>2. SumFunctionOnSet(one, S) = 1
  <2>1. {y \in S : one[y] # 0} = {x}
    OBVIOUS
  <2>2. SumFunctionOnSet(one, S) = SumFunctionOnSet(one, {x})
    <3> HIDE DEF one
    <3> QED
      BY <1>1, <2>1, SumOfNonzero
  <2>3. SumFunctionOnSet(one, {x}) = one[x] + SumFunctionOnSet(one, {x} \ {x})
    <3>1. {x} \in SUBSET S /\ x \in {x}
      OBVIOUS
    <3> HIDE DEF one
    <3> QED
      BY <1>1, <3>1, SumOfOneAndOthers
  <2>4. {x} \ {x} = {}
    OBVIOUS
  <2>5. SumFunctionOnSet(one, {}) = 0
    BY SumChooses, FS_EmptySet
  <2>6. one[x] = 1
    OBVIOUS
  <2> HIDE DEF one
  <2>7. SumFunctionOnSet(one, {x}) = one[x] + SumFunctionOnSet(one, {})
    BY <2>3, <2>4
  <2> QED
    BY <2>2, <2>5, <2>6, <2>7
<1>3. \A y \in S : f[y] = h[y] * 1 - one[y] * 1
  OBVIOUS
<1>4. SumFunctionOnSet(f, S) = SumFunctionOnSet(h, S) * 1 - SumFunctionOnSet(one, S) * 1
  <2> HIDE DEF one
  <2> QED
    BY <1>1, <1>3, SumIsLinear
<1>5. SumFunctionOnSet(h, S) \in Int /\ SumFunctionOnSet(f, S) \in Int
  BY <1>1, SumType
<1> HIDE DEF one
<1> QED
  BY <1>2, <1>4, <1>5

ImageOf(f, U) == {f[x] : x \in U}

\* A sum does not depend on how its terms are numbered.
LEMMA SumOverBijection ==
  ASSUME NEW S, IsFiniteSet(S), NEW T, NEW f \in Bijection(S, T),
         NEW g, \A y \in T : g[y] \in Int, NEW h, \A x \in S : h[x] = g[f[x]]
  PROVE  SumFunctionOnSet(h, S) = SumFunctionOnSet(g, T)
<1> DEFINE Good == {U \in SUBSET S : SumFunctionOnSet(h, U) = SumFunctionOnSet(g, ImageOf(f, U))}
<1>1. /\ f \in [S -> T]
      /\ \A x, y \in S : f[x] = f[y] => x = y
      /\ \A y \in T : \E x \in S : f[x] = y
  BY DEF Bijection, Injection, Surjection, IsInjective
<1>2. IsFiniteSet(T)
  BY FS_Surjection DEF Bijection
<1>3. \A x \in S : h[x] \in Int
  BY <1>1
<1>4. ASSUME NEW U \in SUBSET S, \A x \in U : U \ {x} \in Good
      PROVE  U \in Good
  <2>1. CASE U = {}
    <3>1. ImageOf(f, U) = {}
      BY <2>1 DEF ImageOf
    <3> QED
      BY <2>1, <3>1, SumChooses, FS_EmptySet
  <2>2. ASSUME NEW x \in U
        PROVE  U \in Good
    <3>1. SumFunctionOnSet(h, U) = h[x] + SumFunctionOnSet(h, U \ {x})
      BY <1>3, SumOfOneAndOthers
    <3>2. /\ ImageOf(f, U) \in SUBSET T /\ f[x] \in ImageOf(f, U)
          /\ ImageOf(f, U) \ {f[x]} = ImageOf(f, U \ {x})
      BY <1>1 DEF ImageOf
    <3>3. SumFunctionOnSet(g, ImageOf(f, U))
            = g[f[x]] + SumFunctionOnSet(g, ImageOf(f, U) \ {f[x]})
      BY <1>2, <3>2, SumOfOneAndOthers
    <3>4. SumFunctionOnSet(h, U \ {x}) = SumFunctionOnSet(g, ImageOf(f, U \ {x}))
      BY <1>4
    <3> QED
      BY <3>1, <3>2, <3>3, <3>4
  <2> QED
    BY <2>1, <2>2
<1>5. \A U \in SUBSET S : U \in Good
  <2> HIDE DEF Good
  <2> QED
    BY <1>4, BySubsets
<1>6. ImageOf(f, S) = T
  BY <1>1 DEF ImageOf
<1> QED
  BY <1>5, <1>6

\* The elements of R that come before x.
AllBefore(R, before, x) == {y \in R : <<y, x>> \in before}

\* How many come before an element of a finite set that is ordered numbers the set.
LEMMA RanksAreNumbers ==
  ASSUME NEW R, IsFiniteSet(R), NEW before, NEW rank,
         \A x \in R : <<x, x>> \notin before,
         \A x, y \in R : x # y => <<x, y>> \in before \/ <<y, x>> \in before,
         \A x, y, z \in R : <<x, y>> \in before /\ <<y, z>> \in before => <<x, z>> \in before,
         rank = [x \in R |-> 1 + Cardinality(AllBefore(R, before, x))]
  PROVE  /\ rank \in Bijection(R, 1..Cardinality(R))
         /\ \A x, y \in R : <<x, y>> \in before => rank[x] < rank[y]
<1>1. ASSUME NEW x \in R
      PROVE  /\ Cardinality(AllBefore(R, before, x)) \in Nat
             /\ rank[x] = 1 + Cardinality(AllBefore(R, before, x))
             /\ rank[x] \in 1..Cardinality(R)
  <2> DEFINE earlier == AllBefore(R, before, x)
  <2>1. earlier \in SUBSET (R \ {x})
    BY DEF AllBefore
  <2>2. IsFiniteSet(R \ {x}) /\ Cardinality(R \ {x}) = Cardinality(R) - 1
    BY FS_RemoveElement
  <2>3. Cardinality(earlier) <= Cardinality(R) - 1 /\ IsFiniteSet(earlier)
    <3> HIDE DEF earlier
    <3> QED
      BY <2>1, <2>2, FS_Subset
  <2>4. Cardinality(earlier) \in Nat /\ Cardinality(R) \in Nat
    BY <2>3, FS_CardinalityType
  <2> HIDE DEF earlier
  <2>5. rank[x] = 1 + Cardinality(earlier)
    BY DEF earlier
  <2> QED
    BY <2>3, <2>4, <2>5 DEF earlier
<1>2. ASSUME NEW x \in R, NEW y \in R, <<x, y>> \in before
      PROVE  rank[x] < rank[y]
  <2> DEFINE a == AllBefore(R, before, x)
             b == AllBefore(R, before, y)
  <2>1. a \in SUBSET b /\ x \in b /\ x \notin a
    BY <1>2 DEF AllBefore
  <2>2. IsFiniteSet(b)
    <3>1. b \in SUBSET R
      BY DEF AllBefore
    <3> HIDE DEF b
    <3> QED
      BY <3>1, FS_Subset
  <2>3. Cardinality(a) <= Cardinality(b) /\ Cardinality(a) # Cardinality(b)
    <3> HIDE DEF a, b
    <3> QED
      BY <2>1, <2>2, FS_Subset
  <2>4. /\ Cardinality(a) \in Nat /\ Cardinality(b) \in Nat
        /\ rank[x] = 1 + Cardinality(a) /\ rank[y] = 1 + Cardinality(b)
    BY <1>1
  <2> HIDE DEF a, b
  <2> QED
    BY <2>3, <2>4
<1>3. rank \in Injection(R, 1..Cardinality(R))
  <2>1. rank \in [R -> 1..Cardinality(R)]
    BY <1>1
  <2>2. ASSUME NEW x \in R, NEW y \in R, rank[x] = rank[y]
        PROVE  x = y
    <3>1. rank[x] \in Int /\ rank[y] \in Int
      BY <1>1
    <3>2. <<x, y>> \notin before /\ <<y, x>> \notin before
      <4>1. ~(rank[x] < rank[y]) /\ ~(rank[y] < rank[x])
        BY <2>2, <3>1
      <4> QED
        BY <1>2, <4>1
    <3> QED
      BY <3>2
  <2>3. \A x, y \in R : rank[x] = rank[y] => x = y
    BY <2>2
  <2> QED
    BY <2>1, <2>3 DEF Injection, IsInjective
<1>4. IsFiniteSet(1..Cardinality(R)) /\ Cardinality(1..Cardinality(R)) = Cardinality(R)
  <2>1. Cardinality(R) \in Nat
    BY FS_CardinalityType
  <2> DEFINE n == Cardinality(R)
  <2> HIDE DEF n
  <2>2. IsFiniteSet(1..n) /\ Cardinality(1..n) = IF 1 > n THEN 0 ELSE n - 1 + 1
    BY <2>1, FS_Interval DEF n
  <2> QED
    BY <2>1, <2>2 DEF n
<1>5. rank \in Surjection(R, 1..Cardinality(R))
  BY <1>3, <1>4, FS_Injection
<1> QED
  BY <1>2, <1>3, <1>5 DEF Bijection

\* A quotient grows with its dividend and falls with its divisor, and is no more than
\* a factor of the divisor that the dividend does not exceed.
LEMMA QuotientsAreOrdered ==
  ASSUME NEW a \in Nat, NEW b \in Nat, a <= b, NEW d \in Nat \ {0}
  PROVE  a \div d <= b \div d
OBVIOUS

\* The quotient of naturals is one.
LEMMA QuotientIsNatural ==
  ASSUME NEW a \in Nat, NEW d \in Nat \ {0}
  PROVE  a \div d \in Nat
OBVIOUS

\* A quotient does not exceed a factor whose product with the divisor is no less.
LEMMA QuotientIsAtMost ==
  ASSUME NEW a \in Nat, NEW d \in Nat \ {0}, NEW c \in Nat, a <= c * d
  PROVE  a \div d <= c
OBVIOUS

\* A larger divisor gives no larger a quotient.
LEMMA QuotientsFall ==
  ASSUME NEW a \in Nat, NEW d \in Nat \ {0}, NEW e \in Nat, d <= e
  PROVE  a \div e <= a \div d
OBVIOUS

\* A sum is that of the terms.
LEMMA SumOfEquals ==
  ASSUME NEW S, IsFiniteSet(S), NEW f, NEW h, \A x \in S : f[x] \in Int /\ h[x] = f[x]
  PROVE  SumFunctionOnSet(h, S) = SumFunctionOnSet(f, S)
<1>1. \A x \in S : f[x] \in Int /\ h[x] \in Int /\ h[x] = f[x] * 1 - f[x] * 0
  OBVIOUS
<1>2. SumFunctionOnSet(h, S) = SumFunctionOnSet(f, S) * 1 - SumFunctionOnSet(f, S) * 0
  BY <1>1, SumIsLinear
<1>3. SumFunctionOnSet(f, S) \in Int
  BY SumType
<1> QED
  BY <1>2, <1>3

\* Terms that are zero may be left out.
LEMMA SumWithoutZeros ==
  ASSUME NEW S, IsFiniteSet(S), NEW R \in SUBSET S, NEW f,
         \A x \in S : f[x] \in Int, \A x \in S \ R : f[x] = 0
  PROVE  SumFunctionOnSet(f, S) = SumFunctionOnSet(f, R)
<1>1. {x \in S : f[x] # 0} = {x \in R : f[x] # 0}
  OBVIOUS
<1>2. IsFiniteSet(R) /\ \A x \in R : f[x] \in Int
  BY FS_Subset
<1>3. SumFunctionOnSet(f, S) = SumFunctionOnSet(f, {x \in S : f[x] # 0})
  BY SumOfNonzero
<1>4. SumFunctionOnSet(f, R) = SumFunctionOnSet(f, {x \in R : f[x] # 0})
  BY <1>2, SumOfNonzero
<1> QED
  BY <1>1, <1>3, <1>4

\* The sum of the first terms, term by term.
LEMMA SumOfFirst ==
  ASSUME NEW n \in Nat, NEW f, \A i \in 1..n : f[i] \in Int
  PROVE  /\ SumFunctionOnSet(f, 1..0) = 0
         /\ \A i \in 1..n :
              /\ SumFunctionOnSet(f, 1..i) \in Int
              /\ SumFunctionOnSet(f, 1..i) = f[i] + SumFunctionOnSet(f, 1..(i - 1))
<1>1. IsFiniteSet(1..n) /\ 1..0 = {}
  BY FS_Interval
<1>2. SumFunctionOnSet(f, {}) = 0
  BY SumChooses, FS_EmptySet
<1>3. ASSUME NEW i \in 1..n
      PROVE  /\ SumFunctionOnSet(f, 1..i) \in Int
             /\ SumFunctionOnSet(f, 1..i) = f[i] + SumFunctionOnSet(f, 1..(i - 1))
  <2>1. 1..i \in SUBSET (1..n) /\ i \in 1..i /\ (1..i) \ {i} = 1..(i - 1)
    OBVIOUS
  <2>2. SumFunctionOnSet(f, 1..i) \in Int
    BY <1>1, <2>1, SumType
  <2>3. SumFunctionOnSet(f, 1..i) = f[i] + SumFunctionOnSet(f, (1..i) \ {i})
    BY <1>1, <2>1, SumOfOneAndOthers
  <2> QED
    BY <2>1, <2>2, <2>3
<1> QED
  BY <1>1, <1>2, <1>3

\* A finite set that is not empty has an element of the least value.
LEMMA LeastValue ==
  ASSUME NEW S, S # {}, NEW f, \A x \in S : f[x] \in Nat
  PROVE  \E x \in S : \A y \in S : f[x] <= f[y]
<1> DEFINE image == {f[x] : x \in S}
<1>1. image \in SUBSET Nat /\ image # {}
  OBVIOUS
<1>2. PICK v \in image : \A w \in image : v <= w
  <2> HIDE DEF image
  <2> QED
    BY <1>1, LeastOf
<1> QED
  BY <1>2

\* There are n numbers up to n.
LEMMA FirstNumbers ==
  ASSUME NEW n \in Nat
  PROVE  IsFiniteSet(1..n) /\ Cardinality(1..n) = n
<1>1. IsFiniteSet(1..n) /\ Cardinality(1..n) = IF 1 > n THEN 0 ELSE n - 1 + 1
  BY FS_Interval
<1> QED
  BY <1>1
=============================================================================
