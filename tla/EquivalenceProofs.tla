-------------------------- MODULE EquivalenceProofs --------------------------
(***************************************************************************)
(* What the runs check of the equivalence of normalized traces, proved for *)
(* runs of any length and shape: whatever a run is emitted as carries it,  *)
(* the walk to the root finds the path of the run, and the shape of a      *)
(* trace is the bag of the calls of its run.                               *)
(***************************************************************************)
EXTENDS Equivalence, DataLemmas

-----------------------------------------------------------------------------
\* Bags, and spans in the order in which they start.

\* The elements of two sets that have none in common.
LEMMA DisjointUnion ==
  ASSUME NEW S, NEW T, IsFiniteSet(S), IsFiniteSet(T), S \cap T = {}
  PROVE  Cardinality(S \cup T) = Cardinality(S) + Cardinality(T)
<1>1. Cardinality(S \cup T) = Cardinality(S) + Cardinality(T) - Cardinality({})
  BY FS_Union
<1>2. Cardinality({}) = 0 /\ Cardinality(S) \in Nat /\ Cardinality(T) \in Nat
  BY FS_EmptySet, FS_CardinalityType
<1> QED
  BY <1>1, <1>2

\* Two families with the same members, however they are numbered, are the same bag.
LEMMA SameMembersSameBag ==
  ASSUME NEW f, NEW g, IsFiniteSet(DOMAIN f), NEW b \in Bijection(DOMAIN f, DOMAIN g),
         \A x \in DOMAIN f : f[x] = g[b[x]]
  PROVE  ToBag(f) = ToBag(g)
<1>1. /\ b \in [DOMAIN f -> DOMAIN g]
      /\ \A x, y \in DOMAIN f : b[x] = b[y] => x = y
      /\ \A y \in DOMAIN g : \E x \in DOMAIN f : b[x] = y
  BY DEF Bijection, Injection, Surjection, IsInjective
<1>2. Range(f) = Range(g)
  BY <1>1 DEF Range
<1>3. ASSUME NEW e \in Range(f)
      PROVE  Cardinality({x \in DOMAIN f : f[x] = e}) = Cardinality({y \in DOMAIN g : g[y] = e})
  <2> DEFINE X == {x \in DOMAIN f : f[x] = e}
             Y == {y \in DOMAIN g : g[y] = e}
             c == [x \in X |-> b[x]]
  <2>1. c \in Bijection(X, Y)
    <3>1. c \in [X -> Y]
      BY <1>1
    <3>2. \A x, y \in X : c[x] = c[y] => x = y
      BY <1>1
    <3>3. \A y \in Y : \E x \in X : c[x] = y
      BY <1>1
    <3> HIDE DEF X, Y, c
    <3> QED
      BY <3>1, <3>2, <3>3 DEF Bijection, Injection, Surjection, IsInjective
  <2>2. IsFiniteSet(X)
    BY FS_Subset
  <2> HIDE DEF X, Y, c
  <2>3. Cardinality(X) = Cardinality(Y)
    <3>1. ExistsBijection(X, Y)
      BY <2>1 DEF ExistsBijection
    <3> QED
      BY <2>2, <3>1, FS_Bijection
  <2> QED
    BY <2>3 DEF X, Y
<1> QED
  BY <1>2, <1>3 DEF ToBag

\* How many members of a family are of some kind.
OfKind(f, K) == {x \in DOMAIN f : f[x] \in K}

\* Families that are the same bag have as many members of any kind.
LEMMA SameBagSameCounts ==
  ASSUME NEW f, NEW g, IsFiniteSet(DOMAIN f), IsFiniteSet(DOMAIN g), ToBag(f) = ToBag(g),
         NEW K
  PROVE  Cardinality(OfKind(f, K)) = Cardinality(OfKind(g, K))
<1> DEFINE R == Range(f)
           Good == {S \in SUBSET R : Cardinality(OfKind(f, S)) = Cardinality(OfKind(g, S))}
<1>1. Range(f) = Range(g)
  <2>1. DOMAIN ToBag(f) = Range(f) /\ DOMAIN ToBag(g) = Range(g)
    BY DEF ToBag
  <2> QED
    BY <2>1
<1>2. \A e \in R : Cardinality({x \in DOMAIN f : f[x] = e}) = Cardinality({x \in DOMAIN g : g[x] = e})
  <2>1. \A e \in R : /\ ToBag(f)[e] = Cardinality({x \in DOMAIN f : f[x] = e})
                     /\ ToBag(g)[e] = Cardinality({x \in DOMAIN g : g[x] = e})
    BY <1>1 DEF ToBag
  <2> QED
    BY <2>1
<1>3. IsFiniteSet(R)
  BY ImageIsFinite DEF Range
<1>4. \A S : /\ IsFiniteSet(OfKind(f, S)) /\ IsFiniteSet(OfKind(g, S))
             /\ Cardinality(OfKind(f, S)) \in Nat /\ Cardinality(OfKind(g, S)) \in Nat
  <2>1. \A S : OfKind(f, S) \in SUBSET (DOMAIN f) /\ OfKind(g, S) \in SUBSET (DOMAIN g)
    BY DEF OfKind
  <2> QED
    BY <2>1, FS_Subset, FS_CardinalityType
<1>5. ASSUME NEW S \in SUBSET R, \A e \in S : S \ {e} \in Good
      PROVE  S \in Good
  <2>1. CASE S = {}
    BY <2>1 DEF OfKind
  <2>2. ASSUME NEW e \in S
        PROVE  S \in Good
    <3>1. Cardinality(OfKind(f, S)) = Cardinality(OfKind(f, {e})) + Cardinality(OfKind(f, S \ {e}))
      <4>1. /\ OfKind(f, S) = OfKind(f, {e}) \cup OfKind(f, S \ {e})
            /\ OfKind(f, {e}) \cap OfKind(f, S \ {e}) = {}
        BY DEF OfKind
      <4> QED
        BY <1>4, <4>1, DisjointUnion
    <3>2. Cardinality(OfKind(g, S)) = Cardinality(OfKind(g, {e})) + Cardinality(OfKind(g, S \ {e}))
      <4>1. /\ OfKind(g, S) = OfKind(g, {e}) \cup OfKind(g, S \ {e})
            /\ OfKind(g, {e}) \cap OfKind(g, S \ {e}) = {}
        BY DEF OfKind
      <4> QED
        BY <1>4, <4>1, DisjointUnion
    <3>3. Cardinality(OfKind(f, {e})) = Cardinality(OfKind(g, {e}))
      <4>1. /\ OfKind(f, {e}) = {x \in DOMAIN f : f[x] = e}
            /\ OfKind(g, {e}) = {x \in DOMAIN g : g[x] = e}
        BY DEF OfKind
      <4> QED
        BY <1>2, <4>1
    <3>4. Cardinality(OfKind(f, S \ {e})) = Cardinality(OfKind(g, S \ {e}))
      BY <2>2, <1>5
    <3> QED
      BY <3>1, <3>2, <3>3, <3>4
  <2> QED
    BY <2>1, <2>2
<1>6. K \cap R \in Good
  <2>1. \A S \in SUBSET R : S \in Good
    <3> HIDE DEF Good, R
    <3> QED
      BY <1>3, <1>5, BySubsets
  <2> QED
    BY <2>1
<1>7. OfKind(f, K) = OfKind(f, K \cap R) /\ OfKind(g, K) = OfKind(g, K \cap R)
  BY <1>1 DEF OfKind, Range
<1> QED
  BY <1>6, <1>7

-----------------------------------------------------------------------------
\* Spans with ids of their own, in the order of these, are all there and once.
LEMMA AllStarted ==
  ASSUME NEW S, IsFiniteSet(S), \A s \in S : s.id \in Nat,
         \A s, t \in S : s.id = t.id => s = t
  PROVE  /\ AsStarted(S) \in [1..Cardinality(S) -> S]
         /\ \A s \in S : \E p \in 1..Cardinality(S) : AsStarted(S)[p] = s
         /\ \A p, q \in 1..Cardinality(S) : AsStarted(S)[p] = AsStarted(S)[q] => p = q
<1> DEFINE before == {pair \in S \X S : pair[1].id < pair[2].id}
           rank == [s \in S |-> 1 + Cardinality(AllBefore(S, before, s))]
           n == Cardinality(S)
<1>1. rank \in Bijection(S, 1..n)
  <2>1. /\ \A s \in S : <<s, s>> \notin before
        /\ \A s, t \in S : s # t => <<s, t>> \in before \/ <<t, s>> \in before
        /\ \A s, t, u \in S : <<s, t>> \in before /\ <<t, u>> \in before => <<s, u>> \in before
    OBVIOUS
  <2>2. rank = [s \in S |-> 1 + Cardinality(AllBefore(S, before, s))]
    OBVIOUS
  <2> HIDE DEF before, rank
  <2> QED
    BY <2>1, <2>2, RanksAreNumbers
<1>2. \A s \in S : Cardinality({t \in S : t.id <= s.id}) = rank[s]
  <2> SUFFICES ASSUME NEW s \in S
               PROVE  Cardinality({t \in S : t.id <= s.id}) = rank[s]
    OBVIOUS
  <2> DEFINE early == AllBefore(S, before, s)
  <2>1. {t \in S : t.id <= s.id} = early \cup {s} /\ s \notin early /\ early \in SUBSET S
    BY DEF AllBefore
  <2>2. rank[s] = 1 + Cardinality(early)
    OBVIOUS
  <2> HIDE DEF early, rank
  <2>3. IsFiniteSet(early) /\ Cardinality(early) \in Nat
    BY <2>1, FS_Subset, FS_CardinalityType
  <2>4. Cardinality(early \cup {s}) = Cardinality(early) + 1
    BY <2>1, <2>3, FS_AddElement
  <2>5. Cardinality({t \in S : t.id <= s.id}) = Cardinality(early \cup {s})
    BY <2>1
  <2> QED
    BY ONLY <2>2, <2>3, <2>4, <2>5
<1>3. /\ \A s \in S : rank[s] \in 1..n
      /\ \A s, t \in S : rank[s] = rank[t] => s = t
      /\ \A p \in 1..n : \E s \in S : rank[s] = p
  <2> HIDE DEF rank, n
  <2> QED
    BY <1>1 DEF Bijection, Injection, Surjection, IsInjective
<1>5. ASSUME NEW p \in 1..n
      PROVE  AsStarted(S)[p] \in S /\ rank[AsStarted(S)[p]] = p
  <2>1. AsStarted(S)[p] = CHOOSE s \in S : Cardinality({t \in S : t.id <= s.id}) = p
    BY DEF AsStarted
  <2>2. \E s \in S : Cardinality({t \in S : t.id <= s.id}) = p
    <3> HIDE DEF rank, n
    <3> QED
      BY <1>2, <1>3
  <2>3. AsStarted(S)[p] \in S /\ Cardinality({t \in S : t.id <= AsStarted(S)[p].id}) = p
    BY <2>1, <2>2
  <2> HIDE DEF rank, n
  <2> QED
    BY <1>2, <2>3
<1>6. DOMAIN AsStarted(S) = 1..n /\ AsStarted(S) = [p \in DOMAIN AsStarted(S) |-> AsStarted(S)[p]]
  <2> DEFINE at(p) == CHOOSE s \in S : Cardinality({t \in S : t.id <= s.id}) = p
  <2>1. AsStarted(S) = [p \in 1..n |-> at(p)]
    BY DEF AsStarted
  <2> HIDE DEF at, n
  <2> QED
    BY <2>1
<1> HIDE DEF rank, n
<1> QED
  BY <1>3, <1>5, <1>6 DEF n

-----------------------------------------------------------------------------
\* Runs: the paths from the root, and the recursive walk of the normalization.

IsRun(r) == Len(r.op) \in Nat \ {0} /\ r \in AgentRuns(Len(r.op))

\* What a run is.
LEMMA RunIs ==
  ASSUME NEW r, IsRun(r)
  PROVE  /\ Len(r.op) \in Nat \ {0} /\ DOMAIN r.op = 1..Len(r.op)
         /\ r.op[1] = "invoke_agent" /\ r.parent[1] = 0
         /\ \A i \in 1..Len(r.op) :
              /\ r.op[i] \in Operations /\ r.parent[i] \in Nat /\ r.parent[i] < i
              /\ r.parent[i] = 0 <=> i = 1
              /\ r.parent[i] # 0 => r.parent[i] \in 1..Len(r.op)
<1> DEFINE n == Len(r.op)
<1>1. /\ n \in Nat \ {0} /\ r.op \in [1..n -> Operations] /\ r.parent \in [1..n -> 0..n]
      /\ r.op[1] = "invoke_agent"
      /\ \A i \in 1..n : r.parent[i] < i /\ (r.parent[i] = 0 <=> i = 1)
  BY DEF IsRun, AgentRuns
<1>2. \A i \in 1..n : r.parent[i] \in 0..n
  BY <1>1
<1>3. DOMAIN r.op = 1..n /\ \A i \in 1..n : r.op[i] \in Operations
  BY <1>1
<1> HIDE DEF n
<1>4. 1 \in 1..n
  BY <1>1
<1> QED
  BY <1>1, <1>2, <1>3, <1>4 DEF n

\* The operations an operation is called from, root first, given the paths to these.
CalledFrom(t, r, i) == IF r.parent[i] = 0 THEN <<>> ELSE t[r.parent[i]]

\* The paths from the root of a run to each operation of it.
TreePathsUpTo(r, m) ==
  {t \in [1..m -> Seq(Operations)] :
     \A i \in 1..m : t[i] = Append(CalledFrom(t, r, i), r.op[i])}

\* Every operation of a run has a path: one is called by those before it.
LEMMA TreePathsExist ==
  ASSUME NEW r, IsRun(r), NEW n \in 0..Len(r.op)
  PROVE  TreePathsUpTo(r, n) # {}
<1> DEFINE None == {m \in 0..Len(r.op) : TreePathsUpTo(r, m) = {}}
<1> SUFFICES ASSUME n \in None
             PROVE  FALSE
  OBVIOUS
<1>1. PICK m \in None : \A k \in None : m <= k
  <2>1. None \in SUBSET Nat /\ None # {}
    BY RunIs
  <2> HIDE DEF None
  <2> QED
    BY <2>1, LeastOf
<1>2. m \in 0..Len(r.op) /\ TreePathsUpTo(r, m) = {} /\ Len(r.op) \in Nat
  BY RunIs
<1>3. m # 0
  <2>1. [i \in 1..0 |-> <<>>] \in TreePathsUpTo(r, 0)
    BY DEF TreePathsUpTo
  <2> QED
    BY <1>2, <2>1
<1>4. m - 1 \in 0..Len(r.op) /\ m - 1 \notin None
  <2>1. m - 1 \in 0..Len(r.op) /\ ~(m <= m - 1)
    BY <1>2, <1>3
  <2> HIDE DEF None
  <2> QED
    BY <1>1, <2>1
<1>5. PICK t : t \in TreePathsUpTo(r, m - 1)
  BY <1>4
<1>6. /\ t \in [1..(m - 1) -> Seq(Operations)]
      /\ \A i \in 1..(m - 1) : t[i] = Append(CalledFrom(t, r, i), r.op[i])
  BY <1>5 DEF TreePathsUpTo
<1>7. m \in 1..Len(r.op) /\ \A i \in 1..m : i # m => i \in 1..(m - 1)
  BY <1>2, <1>3
<1> DEFINE u == [i \in 1..m |-> IF i = m THEN Append(CalledFrom(t, r, m), r.op[m]) ELSE t[i]]
<1>8. \A i \in 1..m : CalledFrom(t, r, i) = CalledFrom(u, r, i) /\ CalledFrom(t, r, i) \in Seq(Operations)
  <2> SUFFICES ASSUME NEW i \in 1..m
               PROVE  CalledFrom(t, r, i) = CalledFrom(u, r, i) /\ CalledFrom(t, r, i) \in Seq(Operations)
    OBVIOUS
  <2>1. i \in 1..Len(r.op)
    BY <1>7, <1>2
  <2>2. r.parent[i] # 0 => r.parent[i] \in 1..(m - 1) /\ r.parent[i] # m
    <3>1. r.parent[i] \in Nat /\ r.parent[i] < i
      BY <2>1, RunIs
    <3> QED
      BY <1>2, <3>1
  <2>3. r.parent[i] # 0 => u[r.parent[i]] = t[r.parent[i]] /\ t[r.parent[i]] \in Seq(Operations)
    <3>1. \A j \in 1..(m - 1) : j \in 1..m
      BY <1>2
    <3> QED
      BY <1>6, <2>2, <3>1
  <2>4. <<>> \in Seq(Operations)
    OBVIOUS
  <2> HIDE DEF u
  <2> QED
    BY <2>3, <2>4 DEF CalledFrom
<1>9. u \in TreePathsUpTo(r, m)
  <2>1. \A i \in 1..m : u[i] = Append(CalledFrom(t, r, i), r.op[i])
    BY <1>6, <1>7
  <2>2. \A i \in 1..m : u[i] \in Seq(Operations)
    <3>1. \A i \in 1..m : r.op[i] \in Operations
      BY <1>2, RunIs
    <3>2. \A s \in Seq(Operations), o \in Operations : Append(s, o) \in Seq(Operations)
      BY AppendProperties
    <3>3. \A i \in 1..m : CalledFrom(t, r, i) \in Seq(Operations)
      BY <1>8
    <3> HIDE DEF u
    <3> QED
      BY ONLY <2>1, <3>1, <3>2, <3>3
  <2>3. u \in [1..m -> Seq(Operations)]
    <3>1. u = [i \in 1..m |-> u[i]]
      OBVIOUS
    <3> HIDE DEF u
    <3> QED
      BY <2>2, <3>1
  <2> HIDE DEF u
  <2> QED
    BY <1>8, <2>1, <2>3 DEF TreePathsUpTo
<1> QED
  BY <1>2, <1>9

-----------------------------------------------------------------------------
(* The walk up the parents.                                                *)

\* The walks of up to m steps, from the span of each id.
WalksUpTo(above, spans, m) ==
  above = [n \in 0..m |->
            [id \in {Null} \cup {spans[i].parent : i \in DOMAIN spans} |->
               IF n = 0 \/ id = Null \/ ById(spans, id) = 0 THEN <<>>
               ELSE LET parent == spans[ById(spans, id)]
                        rest   == above[n - 1][parent.parent]
                    IN IF parent.operation = Null THEN rest ELSE Append(rest, parent.operation)]]

\* The recursive walk of the model has a value at every depth.
LEMMA WalksAreDefined ==
  ASSUME NEW spans, NEW n \in Nat
  PROVE  \E above : WalksUpTo(above, spans, n)
<1> DEFINE Known == {Null} \cup {spans[i].parent : i \in DOMAIN spans}
           Next1(k, up, id) ==
               IF k = 0 \/ id = Null \/ ById(spans, id) = 0 THEN <<>>
               ELSE LET parent == spans[ById(spans, id)]
                        rest   == up[parent.parent]
                    IN IF parent.operation = Null THEN rest ELSE Append(rest, parent.operation)
           Step(k, up) == [id \in Known |-> Next1(k, up, id)]
<1>0. \A above, m : WalksUpTo(above, spans, m) <=> above = [k \in 0..m |-> Step(k, above[k - 1])]
  BY DEF WalksUpTo
<1> HIDE DEF Step
<1> DEFINE Undefined == {m \in Nat : ~\E above : WalksUpTo(above, spans, m)}
<1> SUFFICES ASSUME n \in Undefined
             PROVE  FALSE
  OBVIOUS
<1>1. PICK m \in Undefined : \A k \in Undefined : m <= k
  <2>1. Undefined \in SUBSET Nat /\ Undefined # {}
    OBVIOUS
  <2> QED
    BY <2>1, LeastOf
<1>2. m \in Nat /\ ~\E above : WalksUpTo(above, spans, m)
  OBVIOUS
<1>3. m # 0
  <2> DEFINE a == [k \in 0..0 |-> Step(0, <<>>)]
  <2>1. Step(0, <<>>) = Step(0, a[0 - 1])
    BY DEF Step
  <2>2. a = [k \in 0..0 |-> Step(k, a[k - 1])]
    <3> HIDE DEF a
    <3>1. a = [k \in 0..0 |-> Step(0, <<>>)]
      BY DEF a
    <3>2. \A k \in 0..0 : k = 0
      OBVIOUS
    <3> QED
      BY <2>1, <3>1, <3>2
  <2> HIDE DEF a
  <2> QED
    BY <1>0, <1>2, <2>2
<1>4. m - 1 \in Nat /\ m - 1 \notin Undefined
  <2>1. m - 1 \in Nat /\ ~(m <= m - 1)
    BY <1>2, <1>3
  <2> HIDE DEF Undefined
  <2> QED
    BY <1>1, <2>1
<1>5. PICK before : before = [k \in 0..(m - 1) |-> Step(k, before[k - 1])]
  BY <1>0, <1>4
<1> DEFINE a == [k \in 0..m |-> IF k = m THEN Step(m, before[m - 1]) ELSE before[k]]
<1>6. \A k \in 0..(m - 1) : a[k] = before[k]
  BY <1>2
<1>7. ASSUME NEW k \in 0..m
      PROVE  a[k] = Step(k, a[k - 1])
  <2>1. CASE k = m
    <3>1. a[m - 1] = before[m - 1]
      BY <1>2, <1>3, <1>6
    <3>2. a[k] = Step(m, before[m - 1])
      BY <2>1
    <3> HIDE DEF a
    <3> QED
      BY <2>1, <3>1, <3>2
  <2>2. CASE k # m /\ k # 0
    <3>1. k \in 0..(m - 1) /\ k - 1 \in 0..(m - 1)
      BY <1>2, <2>2
    <3>2. before[k] = Step(k, before[k - 1])
      BY <1>5, <3>1
    <3> HIDE DEF a
    <3> QED
      BY <1>6, <3>1, <3>2
  <2>3. CASE k # m /\ k = 0
    <3>1. k \in 0..(m - 1)
      BY <1>2, <2>3
    <3>2. before[k] = Step(k, before[k - 1])
      BY <1>5, <3>1
    <3>3. \A u, v : Step(0, u) = Step(0, v)
      BY DEF Step
    <3> HIDE DEF a
    <3> QED
      BY <1>6, <2>3, <3>1, <3>2, <3>3
  <2> QED
    BY <2>1, <2>2, <2>3
<1>8. a = [k \in 0..m |-> Step(k, a[k - 1])]
  <2>1. a = [k \in 0..m |-> a[k]]
    OBVIOUS
  <2> HIDE DEF a
  <2> QED
    BY <1>7, <2>1
<1> HIDE DEF a
<1> QED
  BY <1>0, <1>2, <1>8

\* The path of a span is what the walk to the end of the trace finds above its parent.
LEMMA PathIsWalk ==
  ASSUME NEW spans, Len(spans) \in Nat
  PROVE  \E above : /\ WalksUpTo(above, spans, Len(spans))
                    /\ \A span : CanonicalParentPath(span, spans) = above[Len(spans)][span.parent]
<1> DEFINE m == Len(spans)
           above == CHOOSE above : WalksUpTo(above, spans, m)
<1>1. WalksUpTo(above, spans, m)
  BY WalksAreDefined
<1>2. \A span : CanonicalParentPath(span, spans) = above[m][span.parent]
  BY DEF CanonicalParentPath, WalksUpTo
<1> QED
  BY <1>1, <1>2

-----------------------------------------------------------------------------
\* A trace that carries a run: its ids, and how far each is from the root.

\* The ids of the spans of a run, and that of the span an operation is called from.
Ids(r, wrapped) == {2 * i : i \in 1..Len(r.op)} \cup {2 * i - 1 : i \in wrapped}

CallerId(r, i) == IF r.parent[i] = 0 THEN Null ELSE 2 * r.parent[i]

\* These spans are those of a run.
Carries(spans, r, wrapped) ==
  /\ DOMAIN spans = 1..Cardinality(Ids(r, wrapped)) /\ Len(spans) = Cardinality(Ids(r, wrapped))
  /\ \A p \in DOMAIN spans : spans[p].id \in Ids(r, wrapped)
  /\ \A id \in Ids(r, wrapped) : \E p \in DOMAIN spans : spans[p].id = id
  /\ \A p, q \in DOMAIN spans : spans[p].id = spans[q].id => p = q
  /\ \A p \in DOMAIN spans, i \in 1..Len(r.op) : spans[p].id = 2 * i =>
       /\ spans[p].operation = r.op[i]
       /\ spans[p].parent = IF i \in wrapped THEN 2 * i - 1 ELSE CallerId(r, i)
  /\ \A p \in DOMAIN spans, i \in wrapped : spans[p].id = 2 * i - 1 =>
       spans[p].operation = Null /\ spans[p].parent = CallerId(r, i)

\* The ids are finitely many natural numbers, and none is Null.
LEMMA IdsAre ==
  ASSUME NEW r, IsRun(r), NEW wrapped \in SUBSET (2..Len(r.op))
  PROVE  /\ IsFiniteSet(Ids(r, wrapped)) /\ Cardinality(Ids(r, wrapped)) \in Nat
         /\ Ids(r, wrapped) \in SUBSET Nat /\ Null \notin Ids(r, wrapped)
         /\ 0 \notin Ids(r, wrapped)
<1>1. /\ Ids(r, wrapped) \in SUBSET (1..(2 * Len(r.op))) /\ 2 * Len(r.op) \in Nat
      /\ Ids(r, wrapped) \in SUBSET Nat
      /\ 0 \notin Ids(r, wrapped)
  <2> DEFINE n == Len(r.op)
  <2>1. n \in Nat
    BY RunIs
  <2> HIDE DEF n
  <2> QED
    BY <2>1 DEF Ids, n
<1>2. IsFiniteSet(1..(2 * Len(r.op)))
  BY <1>1, FS_Interval
<1> QED
  BY <1>1, <1>2, FS_Subset, FS_CardinalityType, EquivalenceAssumption

\* A span is found by its id.
LEMMA SpanOfId ==
  ASSUME NEW r, IsRun(r), NEW wrapped \in SUBSET (2..Len(r.op)), NEW spans,
         Carries(spans, r, wrapped), NEW p \in DOMAIN spans
  PROVE  ById(spans, spans[p].id) = p
<1> DEFINE own == {q \in 1..Len(spans) : spans[q].id = spans[p].id}
<1>1. own = {p} /\ p \in Nat /\ p # 0
  BY IdsAre DEF Carries
<1>2. ById(spans, spans[p].id) = Max(own)
  BY <1>1 DEF ById, SelectLastInSeq
<1>3. Max(own) = p
  <2>1. own = {p} /\ p >= p
    BY <1>1
  <2> HIDE DEF own
  <2> QED
    BY <2>1 DEF Max
<1> QED
  BY <1>2, <1>3

\* How far down the ids of the spans one of these is.
Depth(r, wrapped, id) == Cardinality({j \in Ids(r, wrapped) : j <= id})

\* A smaller id is further up.
LEMMA DepthsFall ==
  ASSUME NEW r, IsRun(r), NEW wrapped \in SUBSET (2..Len(r.op))
  PROVE  /\ \A id \in Ids(r, wrapped) :
              Depth(r, wrapped, id) \in 1..Cardinality(Ids(r, wrapped))
         /\ \A id, j \in Ids(r, wrapped) :
              j < id => Depth(r, wrapped, j) < Depth(r, wrapped, id)
<1> DEFINE ids == Ids(r, wrapped)
           To(id) == {j \in ids : j <= id}
<1>1. IsFiniteSet(ids) /\ ids \in SUBSET Nat /\ Cardinality(ids) \in Nat
  BY IdsAre
<1> HIDE DEF ids
<1>2. \A id : /\ IsFiniteSet(To(id)) /\ Cardinality(To(id)) \in Nat
              /\ Cardinality(To(id)) <= Cardinality(ids)
  <2>1. \A id : To(id) \in SUBSET ids
    OBVIOUS
  <2> HIDE DEF To
  <2> QED
    BY <1>1, <2>1, FS_Subset, FS_CardinalityType
<1>3. \A id \in ids : Cardinality(To(id)) # 0
  <2>1. \A id \in ids : id \in To(id)
    BY <1>1
  <2> HIDE DEF To
  <2> QED
    BY <1>2, <2>1, FS_EmptySet
<1>4. \A id, j \in ids : j < id => Cardinality(To(j)) < Cardinality(To(id))
  <2> SUFFICES ASSUME NEW id \in ids, NEW j \in ids, j < id
               PROVE  Cardinality(To(j)) < Cardinality(To(id))
    OBVIOUS
  <2>1. To(j) \in SUBSET To(id)
    <3>1. \A x \in ids : x <= j => x <= id
      BY <1>1
    <3> QED
      BY <3>1
  <2>0. id \in To(id) /\ id \notin To(j)
    BY <1>1
  <2> HIDE DEF To
  <2>2. To(j) # To(id)
    BY <2>0
  <2>3. Cardinality(To(j)) <= Cardinality(To(id)) /\ Cardinality(To(j)) # Cardinality(To(id))
    BY <1>2, <2>1, <2>2, FS_Subset
  <2> QED
    BY <1>2, <2>3
<1>5. \A id : Depth(r, wrapped, id) = Cardinality(To(id))
  BY DEF Depth, ids
<1> HIDE DEF To
<1>6. \A id \in ids : Depth(r, wrapped, id) \in 1..Cardinality(ids)
  BY <1>1, <1>2, <1>3, <1>5
<1> QED
  BY <1>4, <1>5, <1>6 DEF ids

\* Each step of the walk goes from a span to its parent.
GoesUp(above, spans) ==
  /\ \A k \in 0..Len(spans) : above[k][Null] = <<>>
  /\ \A k \in 1..Len(spans), p, q \in DOMAIN spans :
       spans[q].parent = spans[p].id =>
         above[k][spans[p].id]
           = IF spans[p].operation = Null THEN above[k - 1][spans[p].parent]
             ELSE Append(above[k - 1][spans[p].parent], spans[p].operation)

\* One step of the walk goes up one span, and adds the operation of that span.
LEMMA WalkStep ==
  ASSUME NEW r, IsRun(r), NEW wrapped \in SUBSET (2..Len(r.op)), NEW spans,
         Carries(spans, r, wrapped), NEW above, WalksUpTo(above, spans, Len(spans))
  PROVE  GoesUp(above, spans)
<1> DEFINE m == Len(spans)
<1>1. m \in Nat
  BY IdsAre DEF Carries
<1> DEFINE Known == {Null} \cup {spans[i].parent : i \in DOMAIN spans}
           Found(k, up, id) ==
             IF k = 0 \/ id = Null \/ ById(spans, id) = 0 THEN <<>>
             ELSE LET parent == spans[ById(spans, id)]
                      rest   == up[parent.parent]
                  IN IF parent.operation = Null THEN rest ELSE Append(rest, parent.operation)
<1>2. \A k \in 0..m, id \in Known : above[k][id] = Found(k, above[k - 1], id)
  <2>1. above = [k \in 0..m |-> [id \in Known |-> Found(k, above[k - 1], id)]]
    BY DEF WalksUpTo
  <2> HIDE DEF Found, Known, m
  <2>2. \A k \in 0..m : above[k] = [id \in Known |-> Found(k, above[k - 1], id)]
    BY <2>1
  <2> QED
    BY <2>2
<1>3. \A k \in 0..m : above[k][Null] = <<>>
  BY <1>2
<1>4. ASSUME NEW k \in 1..m, NEW p \in DOMAIN spans, NEW q \in DOMAIN spans,
             spans[q].parent = spans[p].id
      PROVE  above[k][spans[p].id]
               = IF spans[p].operation = Null THEN above[k - 1][spans[p].parent]
                 ELSE Append(above[k - 1][spans[p].parent], spans[p].operation)
  <2>1. k \in 0..m /\ k # 0
    BY <1>1
  <2>2. spans[p].id # Null /\ spans[p].id \in {spans[i].parent : i \in DOMAIN spans}
    BY <1>4, IdsAre DEF Carries
  <2>3. ById(spans, spans[p].id) = p
    BY SpanOfId
  <2>4. p # 0
    BY IdsAre DEF Carries
  <2> DEFINE id == spans[p].id
             place == ById(spans, id)
  <2>5. above[k][id]
          = IF k = 0 \/ id = Null \/ place = 0 THEN <<>>
            ELSE IF spans[place].operation = Null THEN above[k - 1][spans[place].parent]
                 ELSE Append(above[k - 1][spans[place].parent], spans[place].operation)
    BY <1>2, <2>1, <2>2
  <2>6. place = p /\ id # Null
    BY <2>2, <2>3
  <2> HIDE DEF id, place
  <2> QED
    BY <2>1, <2>4, <2>5, <2>6 DEF id
<1> QED
  BY <1>3, <1>4 DEF GoesUp

-----------------------------------------------------------------------------
\* The walk from a span finds the path of the run, and the shape its calls.

\* After as many steps as a span is deep, the walk has been to the root.
WalkedFrom(r, wrapped, spans, t, above, k) ==
  /\ \A p, q \in DOMAIN spans, i \in 1..Len(r.op) :
       /\ spans[p].id = 2 * i /\ spans[q].parent = spans[p].id
       /\ Depth(r, wrapped, spans[p].id) <= k
       => above[k][spans[p].id] = t[i]
  /\ \A p, q \in DOMAIN spans, i \in wrapped :
       /\ spans[p].id = 2 * i - 1 /\ spans[q].parent = spans[p].id
       /\ Depth(r, wrapped, spans[p].id) <= k
       => above[k][spans[p].id] = CalledFrom(t, r, i)

\* As deep as its caller, the walk from an operation has been to the root.
WalkedFromCallers(r, wrapped, spans, t, above, k) ==
  \A i \in 1..Len(r.op), q \in DOMAIN spans :
    /\ spans[q].parent = CallerId(r, i)
    /\ r.parent[i] # 0 => Depth(r, wrapped, 2 * r.parent[i]) <= k
    => above[k][spans[q].parent] = CalledFrom(t, r, i)

\* A walk that starts at what calls an operation finds the path to it.
LEMMA WalkFromCaller ==
  ASSUME NEW r, IsRun(r), NEW wrapped \in SUBSET (2..Len(r.op)), NEW spans,
         Carries(spans, r, wrapped), NEW above, WalksUpTo(above, spans, Len(spans)),
         NEW t \in TreePathsUpTo(r, Len(r.op)), NEW k \in 0..Len(spans),
         WalkedFrom(r, wrapped, spans, t, above, k)
  PROVE  WalkedFromCallers(r, wrapped, spans, t, above, k)
<1> SUFFICES ASSUME NEW i \in 1..Len(r.op), NEW q \in DOMAIN spans,
                    spans[q].parent = CallerId(r, i),
                    r.parent[i] # 0 => Depth(r, wrapped, 2 * r.parent[i]) <= k
             PROVE  above[k][spans[q].parent] = CalledFrom(t, r, i)
  BY DEF WalkedFromCallers
<1>0. above[k][Null] = <<>>
  <2>1. GoesUp(above, spans)
    BY WalkStep
  <2> QED
    BY <2>1 DEF GoesUp
<1>1. CASE r.parent[i] = 0
  BY <1>0, <1>1 DEF CallerId, CalledFrom
<1>2. CASE r.parent[i] # 0
  <2>1. r.parent[i] \in 1..Len(r.op)
    BY <1>2, RunIs
  <2>2. PICK p \in DOMAIN spans : spans[p].id = 2 * r.parent[i]
    BY <2>1 DEF Carries, Ids
  <2>3. spans[q].parent = spans[p].id
    BY <1>2, <2>2 DEF CallerId
  <2>4. above[k][spans[p].id] = t[r.parent[i]]
    BY <1>2, <2>1, <2>2, <2>3 DEF WalkedFrom
  <2> QED
    BY <1>2, <2>3, <2>4 DEF CalledFrom
<1> QED
  BY <1>1, <1>2

\* The ids of the spans an operation is called from are smaller than its own.
LEMMA CallersAreAbove ==
  ASSUME NEW r, IsRun(r), NEW wrapped \in SUBSET (2..Len(r.op)), NEW i \in 1..Len(r.op)
  PROVE  /\ 2 * i \in Ids(r, wrapped)
         /\ i \in wrapped => 2 * i - 1 \in Ids(r, wrapped) /\ 2 * i - 1 < 2 * i
         /\ r.parent[i] # 0 => /\ 2 * r.parent[i] \in Ids(r, wrapped)
                               /\ 2 * r.parent[i] < 2 * i - 1 /\ 2 * r.parent[i] < 2 * i
<1>1. r.parent[i] \in Nat /\ r.parent[i] < i /\ i \in Nat
      /\ (r.parent[i] # 0 => r.parent[i] \in 1..Len(r.op))
  BY RunIs
<1>2. 2 * r.parent[i] < 2 * i - 1 /\ 2 * r.parent[i] < 2 * i /\ 2 * i - 1 < 2 * i
  BY <1>1
<1> QED
  BY <1>1, <1>2 DEF Ids

\* Every walk does, by induction on how far the span is from the root.
LEMMA WalkedAll ==
  ASSUME NEW r, IsRun(r), NEW wrapped \in SUBSET (2..Len(r.op)), NEW spans,
         Carries(spans, r, wrapped), NEW above, WalksUpTo(above, spans, Len(spans)),
         NEW t \in TreePathsUpTo(r, Len(r.op)), NEW n \in 0..Len(spans)
  PROVE  WalkedFrom(r, wrapped, spans, t, above, n)
<1> DEFINE m == Len(spans)
           D(id) == Depth(r, wrapped, id)
           Not == {k \in 0..m : ~WalkedFrom(r, wrapped, spans, t, above, k)}
<1> SUFFICES ASSUME n \in Not
             PROVE  FALSE
  OBVIOUS
<1>0. m \in Nat /\ m = Cardinality(Ids(r, wrapped))
  BY IdsAre DEF Carries
<1>1. PICK k \in Not : \A j \in Not : k <= j
  <2>1. Not \in SUBSET Nat /\ Not # {}
    BY <1>0
  <2> HIDE DEF Not
  <2> QED
    BY <2>1, LeastOf
<1>2. k \in 0..m /\ ~WalkedFrom(r, wrapped, spans, t, above, k)
  OBVIOUS
<1>3. \A p \in DOMAIN spans : spans[p].id \in Ids(r, wrapped) /\ D(spans[p].id) \in 1..m
  BY <1>0, DepthsFall DEF Carries
<1>4. k # 0
  <2>1. \A p \in DOMAIN spans : ~(D(spans[p].id) <= 0)
    BY <1>3
  <2>2. WalkedFrom(r, wrapped, spans, t, above, 0)
    BY <2>1 DEF WalkedFrom
  <2> QED
    BY <1>2, <2>2
<1>5. k - 1 \in 0..m /\ WalkedFrom(r, wrapped, spans, t, above, k - 1) /\ k \in 1..m
  <2>1. k - 1 \in 0..m /\ ~(k <= k - 1) /\ k \in 1..m
    BY <1>0, <1>2, <1>4
  <2>2. k - 1 \notin Not
    <3> HIDE DEF Not
    <3> QED
      BY <1>1, <2>1
  <2> QED
    BY <2>1, <2>2
<1>6. \A i \in 1..Len(r.op) :
        /\ D(2 * i) \in 1..m
        /\ i \in wrapped => D(2 * i - 1) \in 1..m /\ D(2 * i - 1) < D(2 * i)
        /\ r.parent[i] # 0 => /\ D(2 * r.parent[i]) \in 1..m /\ D(2 * r.parent[i]) < D(2 * i)
                              /\ i \in wrapped => D(2 * r.parent[i]) < D(2 * i - 1)
  BY <1>0, CallersAreAbove, DepthsFall
<1> HIDE DEF Not, m, D
<1>10. \A p, q \in DOMAIN spans : spans[q].parent = spans[p].id =>
         above[k][spans[p].id]
           = IF spans[p].operation = Null THEN above[k - 1][spans[p].parent]
             ELSE Append(above[k - 1][spans[p].parent], spans[p].operation)
  <2>1. k \in 1..Len(spans)
    BY <1>5 DEF m
  <2>2. GoesUp(above, spans)
    BY WalkStep
  <2> QED
    BY <2>1, <2>2 DEF GoesUp
<1>11. ASSUME NEW i \in 1..Len(r.op), NEW q \in DOMAIN spans, spans[q].parent = CallerId(r, i),
              r.parent[i] # 0 => D(2 * r.parent[i]) <= k - 1
       PROVE  above[k - 1][spans[q].parent] = CalledFrom(t, r, i)
  <2> DEFINE j == k - 1
  <2>1. j \in 0..Len(spans) /\ WalkedFrom(r, wrapped, spans, t, above, j)
    BY <1>5 DEF m
  <2>2. r.parent[i] # 0 => Depth(r, wrapped, 2 * r.parent[i]) <= j
    BY <1>11 DEF D
  <2> HIDE DEF j
  <2>3. WalkedFromCallers(r, wrapped, spans, t, above, j)
    BY <2>1, WalkFromCaller
  <2>4. above[j][spans[q].parent] = CalledFrom(t, r, i)
    BY <1>11, <2>2, <2>3 DEF WalkedFromCallers
  <2> QED
    BY <2>4 DEF j
<1>7. ASSUME NEW p \in DOMAIN spans, NEW q \in DOMAIN spans, NEW i \in wrapped,
             spans[p].id = 2 * i - 1, spans[q].parent = spans[p].id, D(spans[p].id) <= k
      PROVE  above[k][spans[p].id] = CalledFrom(t, r, i)
  <2>1. i \in 1..Len(r.op)
    BY RunIs
  <2>2. above[k][spans[p].id] = above[k - 1][spans[p].parent] /\ spans[p].parent = CallerId(r, i)
    BY <1>7, <1>10 DEF Carries
  <2>3. r.parent[i] # 0 => D(2 * r.parent[i]) <= k - 1
    BY <1>2, <1>6, <1>7, <2>1
  <2>4. above[k - 1][spans[p].parent] = CalledFrom(t, r, i)
    BY <1>11, <2>1, <2>2, <2>3
  <2> QED
    BY <2>2, <2>4
<1>8. ASSUME NEW p \in DOMAIN spans, NEW q \in DOMAIN spans, NEW i \in 1..Len(r.op),
             spans[p].id = 2 * i, spans[q].parent = spans[p].id, D(spans[p].id) <= k
      PROVE  above[k][spans[p].id] = t[i]
  <2>1. /\ spans[p].operation = r.op[i] /\ r.op[i] # Null
        /\ spans[p].parent = IF i \in wrapped THEN 2 * i - 1 ELSE CallerId(r, i)
    BY <1>8, RunIs, NormalizeAssumption DEF Carries
  <2>2. above[k][spans[p].id] = Append(above[k - 1][spans[p].parent], r.op[i])
    BY <1>8, <1>10, <2>1
  <2>3. t[i] = Append(CalledFrom(t, r, i), r.op[i])
    BY DEF TreePathsUpTo
  <2>4. CASE i \in wrapped
    <3>1. PICK w \in DOMAIN spans : spans[w].id = 2 * i - 1
      BY <2>4, CallersAreAbove DEF Carries
    <3>2. D(spans[w].id) <= k - 1
      BY <1>2, <1>6, <1>8, <2>4, <3>1
    <3>3. above[k - 1][spans[w].id] = CalledFrom(t, r, i)
      BY <1>5, <2>1, <2>4, <3>1, <3>2 DEF WalkedFrom, D
    <3> QED
      BY <2>1, <2>2, <2>3, <2>4, <3>1, <3>3
  <2>5. CASE i \notin wrapped
    <3>1. r.parent[i] # 0 => D(2 * r.parent[i]) <= k - 1
      BY <1>2, <1>6, <1>8
    <3>2. above[k - 1][spans[p].parent] = CalledFrom(t, r, i)
      BY <1>11, <2>1, <2>5, <3>1
    <3> QED
      BY <2>2, <2>3, <3>2
  <2> QED
    BY <2>4, <2>5
<1>9. WalkedFrom(r, wrapped, spans, t, above, k)
  BY <1>7, <1>8 DEF WalkedFrom, D
<1> QED
  BY <1>2, <1>9

\* The path of an operation's span is that to its caller in the run, whatever spans
\* are in between.
LEMMA PathIsThatOfTheRun ==
  ASSUME NEW r, IsRun(r), NEW wrapped \in SUBSET (2..Len(r.op)), NEW spans,
         Carries(spans, r, wrapped), NEW t \in TreePathsUpTo(r, Len(r.op)),
         NEW p \in DOMAIN spans, NEW i \in 1..Len(r.op), spans[p].id = 2 * i
  PROVE  CanonicalParentPath(spans[p], spans) = CalledFrom(t, r, i)
<1>1. Len(spans) \in Nat /\ Len(spans) = Cardinality(Ids(r, wrapped))
  BY IdsAre DEF Carries
<1>2. PICK above : /\ WalksUpTo(above, spans, Len(spans))
                   /\ \A span : CanonicalParentPath(span, spans) = above[Len(spans)][span.parent]
  BY <1>1, PathIsWalk
<1>3. Len(spans) \in 0..Len(spans)
  BY <1>1
<1>4. WalkedFrom(r, wrapped, spans, t, above, Len(spans))
  BY <1>2, <1>3, WalkedAll
<1>5. spans[p].parent = IF i \in wrapped THEN 2 * i - 1 ELSE CallerId(r, i)
  BY DEF Carries
<1>6. \A id \in Ids(r, wrapped) : Depth(r, wrapped, id) <= Len(spans)
  BY <1>1, DepthsFall
<1>7. above[Len(spans)][spans[p].parent] = CalledFrom(t, r, i)
  <2>1. CASE i \in wrapped
    <3>1. PICK w \in DOMAIN spans : spans[w].id = 2 * i - 1
      BY <2>1, CallersAreAbove DEF Carries
    <3>2. Depth(r, wrapped, spans[w].id) <= Len(spans)
      BY <1>6, <2>1, <3>1, CallersAreAbove
    <3> QED
      BY <1>4, <1>5, <2>1, <3>1, <3>2 DEF WalkedFrom
  <2>2. CASE i \notin wrapped
    <3>1. r.parent[i] # 0 => Depth(r, wrapped, 2 * r.parent[i]) <= Len(spans)
      BY <1>6, CallersAreAbove
    <3>2. spans[p].parent = CallerId(r, i)
      BY <1>5, <2>2
    <3>3. WalkedFromCallers(r, wrapped, spans, t, above, Len(spans))
      BY <1>2, <1>3, <1>4, WalkFromCaller
    <3> QED
      BY <3>1, <3>2, <3>3 DEF WalkedFromCallers
  <2> QED
    BY <2>1, <2>2
<1> QED
  BY <1>2, <1>7

\* The calls of a run, each operation with those it is called from.
TreeCalls(r, t) == [i \in 1..Len(r.op) |-> <<r.op[i], CalledFrom(t, r, i)>>]

\* The canonical shape is the bag of the calls.
LEMMA ShapeIsThatOfTheRun ==
  ASSUME NEW r, IsRun(r), NEW wrapped \in SUBSET (2..Len(r.op)), NEW spans,
         Carries(spans, r, wrapped), NEW t \in TreePathsUpTo(r, Len(r.op))
  PROVE  CanonicalShape(spans) = ToBag(TreeCalls(r, t))
<1> DEFINE n == Len(r.op)
           shape == [p \in CanonicalSpans(spans) |->
                       <<spans[p].operation, CanonicalParentPath(spans[p], spans)>>]
           calls == TreeCalls(r, t)
           b == [p \in CanonicalSpans(spans) |-> CHOOSE i \in 1..n : spans[p].id = 2 * i]
<1>1. IsFiniteSet(CanonicalSpans(spans))
  <2>1. CanonicalSpans(spans) \in SUBSET (1..Cardinality(Ids(r, wrapped)))
    BY DEF CanonicalSpans, Carries
  <2>2. IsFiniteSet(1..Cardinality(Ids(r, wrapped)))
    BY IdsAre, FS_Interval
  <2> QED
    BY <2>1, <2>2, FS_Subset
<1>2. ASSUME NEW p \in CanonicalSpans(spans)
      PROVE  b[p] \in 1..n /\ spans[p].id = 2 * b[p] /\ p \in DOMAIN spans
  <2>1. p \in DOMAIN spans /\ spans[p].operation # Null
    BY DEF CanonicalSpans
  <2>2. \E i \in 1..n : spans[p].id = 2 * i
    <3>1. spans[p].id \in Ids(r, wrapped)
      BY <2>1 DEF Carries
    <3>2. \A i \in wrapped : spans[p].id # 2 * i - 1
      BY <2>1 DEF Carries
    <3> QED
      BY ONLY <3>1, <3>2 DEF Ids
  <2> QED
    BY <2>1, <2>2
<1>3. \A i \in 1..n : \E p \in CanonicalSpans(spans) : spans[p].id = 2 * i
  <2> SUFFICES ASSUME NEW i \in 1..n
               PROVE  \E p \in CanonicalSpans(spans) : spans[p].id = 2 * i
    OBVIOUS
  <2>1. PICK p \in DOMAIN spans : spans[p].id = 2 * i
    BY CallersAreAbove DEF Carries
  <2>2. spans[p].operation # Null
    BY <2>1, RunIs, NormalizeAssumption DEF Carries
  <2> QED
    BY <2>1, <2>2 DEF CanonicalSpans
<1>4. DOMAIN shape = CanonicalSpans(spans) /\ DOMAIN calls = 1..n
  BY DEF TreeCalls
<1>5. b \in Bijection(CanonicalSpans(spans), 1..n)
  <2>1. b = [p \in CanonicalSpans(spans) |-> b[p]]
    OBVIOUS
  <2>2. n \in Nat
    BY RunIs
  <2> HIDE DEF b, n
  <2>3. b \in [CanonicalSpans(spans) -> 1..n]
    BY <1>2, <2>1
  <2>4. \A p, q \in CanonicalSpans(spans) : b[p] = b[q] => p = q
    BY <1>2 DEF Carries
  <2>5. \A i \in 1..n : \E p \in CanonicalSpans(spans) : b[p] = i
    <3> SUFFICES ASSUME NEW i \in 1..n
                 PROVE  \E p \in CanonicalSpans(spans) : b[p] = i
      OBVIOUS
    <3>1. PICK p \in CanonicalSpans(spans) : spans[p].id = 2 * i
      BY <1>3
    <3>2. b[p] \in Nat /\ i \in Nat /\ 2 * b[p] = 2 * i
      BY <1>2, <2>2, <3>1
    <3>3. b[p] = i
      BY <3>2
    <3> QED
      BY <3>3
  <2> QED
    BY <2>3, <2>4, <2>5 DEF Bijection, Injection, Surjection, IsInjective
<1>6. ASSUME NEW p \in CanonicalSpans(spans)
      PROVE  shape[p] = calls[b[p]]
  <2>1. b[p] \in 1..n /\ spans[p].id = 2 * b[p] /\ p \in DOMAIN spans
    BY <1>2
  <2> HIDE DEF b
  <2>2. spans[p].operation = r.op[b[p]]
    BY <2>1 DEF Carries
  <2>3. CanonicalParentPath(spans[p], spans) = CalledFrom(t, r, b[p])
    BY <2>1, PathIsThatOfTheRun
  <2> QED
    BY <2>1, <2>2, <2>3 DEF TreeCalls
<1>7. CanonicalShape(spans) = ToBag(shape)
  BY DEF CanonicalShape
<1> HIDE DEF shape, calls, b
<1>8. ToBag(shape) = ToBag(calls)
  BY <1>1, <1>4, <1>5, <1>6, SameMembersSameBag
<1> QED
  BY <1>7, <1>8 DEF calls

-----------------------------------------------------------------------------
\* What is emitted carries the run.

\* The spans a run is emitted as: that of an operation, and the internal one above it.
OwnSpan(r, wrapped, attributes, i) ==
  [id |-> 2 * i, parent |-> IF i \in wrapped THEN 2 * i - 1 ELSE CallerId(r, i),
   attributes |-> attributes[i]]

WrapSpan(r, internal, i) ==
  [id |-> 2 * i - 1, parent |-> CallerId(r, i), attributes |-> internal]

EmittedSpans(r, wrapped, attributes, internal) ==
  {OwnSpan(r, wrapped, attributes, i) : i \in 1..Len(r.op)}
    \cup {WrapSpan(r, internal, i) : i \in wrapped}

\* A trace of them, in some order.
Emitted(spans, r, wrapped, attributes, internal) ==
  LET all == EmittedSpans(r, wrapped, attributes, internal) IN
  /\ DOMAIN spans = 1..Cardinality(Ids(r, wrapped)) /\ Len(spans) = Cardinality(Ids(r, wrapped))
  /\ \A p \in DOMAIN spans : spans[p] \in all
  /\ \A s \in all : \E p \in DOMAIN spans : spans[p] = s
  /\ \A p, q \in DOMAIN spans : spans[p].id = spans[q].id => p = q

\* No two spans of a run have the same id.
LEMMA IdsAreTheSpans ==
  ASSUME NEW r, IsRun(r), NEW wrapped \in SUBSET (2..Len(r.op)), NEW attributes, NEW internal
  PROVE  LET all == EmittedSpans(r, wrapped, attributes, internal) IN
         /\ \A s \in all : s.id \in Ids(r, wrapped)
         /\ \A id \in Ids(r, wrapped) : \E s \in all : s.id = id
         /\ \A s, t \in all : s.id = t.id => s = t
         /\ IsFiniteSet(all) /\ Cardinality(all) = Cardinality(Ids(r, wrapped))
<1> DEFINE n == Len(r.op)
           all == EmittedSpans(r, wrapped, attributes, internal)
           own(i) == OwnSpan(r, wrapped, attributes, i)
           wrap(i) == WrapSpan(r, internal, i)
           ids == Ids(r, wrapped)
<1>1. n \in Nat /\ \A i \in wrapped : i \in Nat
  BY RunIs
<1>2. /\ \A i : own(i).id = 2 * i /\ wrap(i).id = 2 * i - 1
      /\ \A s : s \in all <=> \/ \E i \in 1..n : s = own(i)
                              \/ \E i \in wrapped : s = wrap(i)
      /\ \A id : id \in ids <=> \/ \E i \in 1..n : id = 2 * i
                                \/ \E i \in wrapped : id = 2 * i - 1
  BY DEF OwnSpan, WrapSpan, EmittedSpans, Ids
<1> HIDE DEF all, own, wrap, n, ids
<1>3. /\ \A i, j \in Nat : 2 * i = 2 * j => i = j
      /\ \A i, j \in Nat : 2 * i - 1 = 2 * j - 1 => i = j
      /\ \A i, j \in Nat : 2 * i # 2 * j - 1
  OBVIOUS
<1>4. \A i \in 1..n : i \in Nat
  BY <1>1
<1>5. \A s \in all : s.id \in ids
  BY <1>2
<1>6. \A id \in ids : \E s \in all : s.id = id
  BY <1>2
<1>7. \A s, t \in all : s.id = t.id => s = t
  BY <1>1, <1>2, <1>3, <1>4
<1>8. IsFiniteSet(ids)
  BY IdsAre DEF ids
<1>9. IsFiniteSet(all) /\ Cardinality(all) = Cardinality(ids)
  <2> DEFINE at == [id \in ids |-> CHOOSE s \in all : s.id = id]
  <2>1. \A id \in ids : at[id] \in all /\ at[id].id = id
    BY <1>6
  <2>2. at \in Bijection(ids, all)
    <3>1. at = [id \in ids |-> at[id]]
      OBVIOUS
    <3> HIDE DEF at
    <3>2. at \in [ids -> all]
      BY <2>1, <3>1
    <3>3. \A x, y \in ids : at[x] = at[y] => x = y
      BY <2>1
    <3>4. \A s \in all : \E id \in ids : at[id] = s
      BY <1>5, <1>7, <2>1
    <3> QED
      BY <3>2, <3>3, <3>4 DEF Bijection, Injection, Surjection, IsInjective
  <2> HIDE DEF at
  <2>3. ExistsBijection(ids, all)
    BY <2>2 DEF ExistsBijection
  <2> QED
    BY <1>8, <2>3, FS_Bijection
<1> QED
  BY <1>5, <1>6, <1>7, <1>9 DEF all, ids

\* An emission is the spans of the run, in one order or the other.
LEMMA EmitIsTheSpans ==
  ASSUME NEW r, IsRun(r), NEW wrapped \in SUBSET (2..Len(r.op)), NEW reversed \in BOOLEAN,
         NEW attributes, NEW internal
  PROVE  Emitted(Emit(r, wrapped, reversed, attributes, internal),
                 r, wrapped, attributes, internal)
<1> DEFINE all == EmittedSpans(r, wrapped, attributes, internal)
           started == AsStarted(all)
           m == Cardinality(Ids(r, wrapped))
           spans == Emit(r, wrapped, reversed, attributes, internal)
<1>1. /\ \A s \in all : s.id \in Nat
      /\ \A s, t \in all : s.id = t.id => s = t
      /\ IsFiniteSet(all) /\ Cardinality(all) = m /\ m \in Nat
  BY IdsAreTheSpans, IdsAre
<1>2. spans = IF reversed THEN Reverse(started) ELSE started
  <2>1. DOMAIN r.op = 1..Len(r.op)
    BY RunIs
  <2> QED
    BY <2>1 DEF Emit, EmittedSpans, OwnSpan, WrapSpan, CallerId
<1> HIDE DEF all, m
<1>3. /\ started \in [1..m -> all]
      /\ \A s \in all : \E p \in 1..m : started[p] = s
      /\ \A p, q \in 1..m : started[p] = started[q] => p = q
  BY <1>1, AllStarted
<1> HIDE DEF started
<1>4. Len(started) = m /\ DOMAIN started = 1..m
  BY <1>1, <1>3
<1>5. CASE ~reversed
  <2>1. spans = started
    BY <1>2, <1>5
  <2> HIDE DEF spans
  <2>2. Emitted(spans, r, wrapped, attributes, internal)
    BY <1>1, <1>3, <1>4, <2>1 DEF Emitted, all, m
  <2> QED
    BY <2>2 DEF spans
<1>6. CASE reversed
  <2> DEFINE back(p) == (m - p) + 1
  <2>1. spans = [p \in 1..m |-> started[back(p)]]
    BY <1>2, <1>4, <1>6 DEF Reverse
  <2>2. \A p \in 1..m : back(p) \in 1..m /\ back(back(p)) = p
    BY <1>1
  <2> HIDE DEF spans, back
  <2>3. DOMAIN spans = 1..m /\ Len(spans) = m
    BY <1>1, <2>1
  <2>4. \A p \in 1..m : spans[p] = started[back(p)] /\ spans[p] \in all
    BY <1>3, <2>1, <2>2
  <2>5. \A s \in all : \E p \in 1..m : spans[p] = s
    BY <1>3, <2>2, <2>4
  <2>6. \A p, q \in 1..m : spans[p].id = spans[q].id => p = q
    BY <1>1, <1>3, <2>2, <2>4
  <2>7. Emitted(spans, r, wrapped, attributes, internal)
    BY <2>3, <2>4, <2>5, <2>6 DEF Emitted, all, m
  <2> QED
    BY <2>7 DEF spans
<1> QED
  BY <1>5, <1>6

\* Spans that are normalized one by one carry the run if each gets the operation it is
\* of, or none if it is an internal one.
LEMMA NormalizedCarries ==
  ASSUME NEW r, IsRun(r), NEW wrapped \in SUBSET (2..Len(r.op)), NEW attributes, NEW internal,
         NEW spans, Emitted(spans, r, wrapped, attributes, internal),
         NEW normalized, DOMAIN normalized = DOMAIN spans, Len(normalized) = Len(spans),
         \A p \in DOMAIN spans : /\ normalized[p].id = spans[p].id
                                 /\ normalized[p].parent = spans[p].parent,
         \A p \in DOMAIN spans, i \in 1..Len(r.op) :
           spans[p] = OwnSpan(r, wrapped, attributes, i) => normalized[p].operation = r.op[i],
         \A p \in DOMAIN spans, i \in wrapped :
           spans[p] = WrapSpan(r, internal, i) => normalized[p].operation = Null
  PROVE  Carries(normalized, r, wrapped)
<1> DEFINE all == EmittedSpans(r, wrapped, attributes, internal)
           own(i) == OwnSpan(r, wrapped, attributes, i)
           wrap(i) == WrapSpan(r, internal, i)
<1>1. /\ \A s \in all : s.id \in Ids(r, wrapped)
      /\ \A id \in Ids(r, wrapped) : \E s \in all : s.id = id
      /\ \A s, t \in all : s.id = t.id => s = t
  BY IdsAreTheSpans
<1>2. /\ DOMAIN spans = 1..Cardinality(Ids(r, wrapped)) /\ Len(spans) = Cardinality(Ids(r, wrapped))
      /\ \A p \in DOMAIN spans : spans[p] \in all
      /\ \A s \in all : \E p \in DOMAIN spans : spans[p] = s
      /\ \A p, q \in DOMAIN spans : spans[p].id = spans[q].id => p = q
  BY DEF Emitted
<1>3. /\ \A i \in 1..Len(r.op) : own(i) \in all
      /\ \A i \in wrapped : wrap(i) \in all
  BY DEF EmittedSpans
<1>4. /\ \A i : own(i).id = 2 * i /\ wrap(i).id = 2 * i - 1
      /\ \A i : own(i).parent = IF i \in wrapped THEN 2 * i - 1 ELSE CallerId(r, i)
      /\ \A i : wrap(i).parent = CallerId(r, i)
  BY DEF OwnSpan, WrapSpan
<1> HIDE DEF all
<1>5. ASSUME NEW p \in DOMAIN spans, NEW i \in 1..Len(r.op), normalized[p].id = 2 * i
      PROVE  /\ normalized[p].operation = r.op[i]
             /\ normalized[p].parent = IF i \in wrapped THEN 2 * i - 1 ELSE CallerId(r, i)
  <2>1. spans[p] = own(i)
    <3>1. spans[p] \in all /\ own(i) \in all /\ spans[p].id = own(i).id
      BY <1>2, <1>3, <1>4, <1>5
    <3> QED
      BY <1>1, <3>1
  <2>2. spans[p].parent = IF i \in wrapped THEN 2 * i - 1 ELSE CallerId(r, i)
    BY <1>4, <2>1
  <2> QED
    BY <2>1, <2>2
<1>6. ASSUME NEW p \in DOMAIN spans, NEW i \in wrapped, normalized[p].id = 2 * i - 1
      PROVE  normalized[p].operation = Null /\ normalized[p].parent = CallerId(r, i)
  <2>1. spans[p] = wrap(i)
    <3>1. spans[p] \in all /\ wrap(i) \in all /\ spans[p].id = wrap(i).id
      BY <1>2, <1>3, <1>4, <1>6
    <3> QED
      BY <1>1, <3>1
  <2>2. spans[p].parent = CallerId(r, i)
    BY <1>4, <2>1
  <2> QED
    BY <2>1, <2>2
<1>7. /\ \A p \in DOMAIN spans : normalized[p].id \in Ids(r, wrapped)
      /\ \A id \in Ids(r, wrapped) : \E p \in DOMAIN spans : normalized[p].id = id
      /\ \A p, q \in DOMAIN spans : normalized[p].id = normalized[q].id => p = q
  BY <1>1, <1>2
<1> HIDE DEF own, wrap
<1> QED
  BY <1>2, <1>5, <1>6, <1>7 DEF Carries

-----------------------------------------------------------------------------
\* What is emitted satisfies the contract.

\* A normalized trace that satisfies the contract and carries a run.
Arrives(normalized, r) ==
  /\ ValidateTrace(Resource, normalized)
  /\ \E wrapped \in SUBSET (2..Len(r.op)) : Carries(normalized, r, wrapped)

\* The root is the one operation whose span has no parent.
LEMMA RootHasNoParent ==
  ASSUME NEW r, IsRun(r), NEW wrapped \in SUBSET (2..Len(r.op)), NEW attributes, NEW internal
  PROVE  /\ \A i \in 1..Len(r.op) : OwnSpan(r, wrapped, attributes, i).parent = Null <=> i = 1
         /\ \A i \in wrapped : WrapSpan(r, internal, i).parent # Null
<1>1. \A i \in 1..Len(r.op) : i \in Nat /\ (CallerId(r, i) = Null <=> i = 1)
  BY RunIs, EquivalenceAssumption DEF CallerId
<1>2. \A i \in wrapped : i \in 1..Len(r.op) /\ i # 1 /\ 2 * i - 1 \in Nat
  BY RunIs
<1>3. \A i \in wrapped : 2 * i - 1 # Null
  BY <1>2, EquivalenceAssumption
<1> QED
  BY <1>1, <1>2, <1>3 DEF OwnSpan, WrapSpan

\* Spans of the GenAI convention arrive if each operation's names it and carries what
\* the contract asks for, and an internal one names none of the contract.
LEMMA GenAIArrives ==
  ASSUME NEW r, IsRun(r), NEW wrapped \in SUBSET (2..Len(r.op)), NEW attributes, NEW internal,
         NEW spans, Emitted(spans, r, wrapped, attributes, internal),
         \A i \in 1..Len(r.op) :
           /\ OI_KIND \notin DOMAIN attributes[i]
           /\ Attr(attributes[i], OPERATION_NAME) = r.op[i]
           /\ MandatorySpanAttrs[r.op[i]] \subseteq DOMAIN attributes[i],
         \A i \in wrapped : /\ OI_KIND \notin DOMAIN internal
                            /\ Attr(internal, OPERATION_NAME) \notin Operations
  PROVE  Arrives(NormalizeByConvention(spans), r)
<1> DEFINE own(i) == OwnSpan(r, wrapped, attributes, i)
           wrap(i) == WrapSpan(r, internal, i)
           normalized == NormalizeByConvention(spans)
<1>1. /\ \A i : own(i).attributes = attributes[i]
      /\ \A i : wrap(i).attributes = internal
  BY DEF OwnSpan, WrapSpan
<1>2. \A p \in DOMAIN spans : \/ \E i \in 1..Len(r.op) : spans[p] = own(i)
                              \/ \E i \in wrapped : spans[p] = wrap(i)
  BY DEF Emitted, EmittedSpans
<1>3. Len(spans) \in Nat /\ DOMAIN spans = 1..Len(spans)
  BY IdsAre DEF Emitted
<1> HIDE DEF own, wrap
<1>4. normalized = [p \in DOMAIN spans |-> NormalizeGenAISpan(spans[p])]
  <2>1. ~\E p \in DOMAIN spans : OI_KIND \in DOMAIN spans[p].attributes
    BY <1>1, <1>2
  <2> QED
    BY <2>1 DEF NormalizeByConvention, NormalizeGenAI, MapSeq
<1>5. \A p \in DOMAIN spans :
        LET op == Attr(spans[p].attributes, OPERATION_NAME) IN
        /\ normalized[p].id = spans[p].id /\ normalized[p].parent = spans[p].parent
        /\ normalized[p].attributes = spans[p].attributes
        /\ normalized[p].operation = IF op \in Operations THEN op ELSE Null
  BY <1>4 DEF NormalizeGenAISpan, Normalized
<1>6. DOMAIN normalized = DOMAIN spans /\ Len(normalized) = Len(spans)
  <2>1. DOMAIN normalized = 1..Len(spans)
    BY <1>3, <1>4
  <2> HIDE DEF normalized
  <2> QED
    BY <1>3, <2>1
<1> HIDE DEF normalized
<1>7. \A p \in DOMAIN spans, i \in 1..Len(r.op) : spans[p] = own(i) => normalized[p].operation = r.op[i]
  BY <1>1, <1>5, RunIs
<1>8. \A p \in DOMAIN spans, i \in wrapped : spans[p] = wrap(i) => normalized[p].operation = Null
  BY <1>1, <1>5
<1>9. Carries(normalized, r, wrapped)
  <2>1. \A p \in DOMAIN spans, i \in 1..Len(r.op) :
          spans[p] = OwnSpan(r, wrapped, attributes, i) => normalized[p].operation = r.op[i]
    BY <1>7 DEF own
  <2>2. \A p \in DOMAIN spans, i \in wrapped :
          spans[p] = WrapSpan(r, internal, i) => normalized[p].operation = Null
    BY <1>8 DEF wrap
  <2>3. \A p \in DOMAIN spans : normalized[p].id = spans[p].id /\ normalized[p].parent = spans[p].parent
    BY <1>5
  <2> QED
    BY <1>6, <2>1, <2>2, <2>3, NormalizedCarries
<1>10. ValidateTrace(Resource, normalized)
  <2>1. ASSUME NEW p \in DOMAIN normalized, normalized[p].operation # Null
        PROVE  MandatorySpanAttrs[normalized[p].operation] \subseteq DOMAIN normalized[p].attributes
    <3>1. PICK i \in 1..Len(r.op) : spans[p] = own(i)
      BY <1>2, <1>6, <1>8, <2>1
    <3> QED
      BY <1>1, <1>5, <1>6, <1>7, <3>1
  <2> QED
    BY <2>1 DEF ValidateTrace, Resource
<1> QED
  BY <1>9, <1>10 DEF Arrives, normalized

\* What the contract asks for, under the OpenInference names it is read from.
OpenInferenceNeeds(op) ==
  CASE op = "invoke_agent" -> {"apl.agent_id", "apl.agent_version"}
    [] op = "chat"         -> {"llm.model_name"}
    [] op = "execute_tool" -> {"tool.name"}

\* A normalized span carries what the contract asks for of its operation.
LEMMA OpenInferenceSpanIsValid ==
  ASSUME NEW span, NEW op \in Operations,
         OperationForKind(Attr(span.attributes, OI_KIND), span.parent = Null) = op,
         OpenInferenceNeeds(op) \subseteq DOMAIN span.attributes
  PROVE  MandatorySpanAttrs[op] \subseteq DOMAIN NormalizeOpenInferenceSpan(span).attributes
<1> DEFINE renamed == RenamedKeys(op)
           present == {k \in DOMAIN renamed : renamed[k] \in DOMAIN span.attributes}
           copied == CopyPassthrough(span.attributes)
<1>1. op # Null
  BY NormalizeAssumption
<1>2. DOMAIN NormalizeOpenInferenceSpan(span).attributes
        = present \cup {OPERATION_NAME} \cup DOMAIN copied
  BY <1>1 DEF NormalizeOpenInferenceSpan, Normalized
<1>3. DOMAIN copied = DOMAIN span.attributes \cap (AplKeys \cup AgentIdentityKeys)
  BY DEF CopyPassthrough, Restrict
<1>4. CASE op = "invoke_agent"
  <2>1. MandatorySpanAttrs[op] = {OPERATION_NAME, "apl.agent_id", "apl.agent_version"}
    BY <1>4 DEF MandatorySpanAttrs
  <2>2. {"apl.agent_id", "apl.agent_version"} \subseteq DOMAIN copied
    BY <1>3, <1>4 DEF OpenInferenceNeeds, AplKeys
  <2> QED
    BY <1>2, <2>1, <2>2
<1>5. CASE op = "chat"
  <2>1. MandatorySpanAttrs[op] = {OPERATION_NAME, "gen_ai.request.model"}
    BY <1>5 DEF MandatorySpanAttrs
  <2>2. "gen_ai.request.model" \in present
    BY <1>5 DEF OpenInferenceNeeds, RenamedKeys
  <2> QED
    BY <1>2, <2>1, <2>2
<1>6. CASE op = "execute_tool"
  <2>1. MandatorySpanAttrs[op] = {OPERATION_NAME, "gen_ai.tool.name"}
    BY <1>6 DEF MandatorySpanAttrs
  <2>2. "gen_ai.tool.name" \in present
    BY <1>6 DEF OpenInferenceNeeds, RenamedKeys
  <2> QED
    BY <1>2, <2>1, <2>2
<1> QED
  BY <1>4, <1>5, <1>6 DEF Operations

\* Spans of the OpenInference convention arrive if the kind of each is that of its
\* operation, an internal one has no kind of the contract, and nothing that the
\* contract asks for is missing.
LEMMA OpenInferenceArrives ==
  ASSUME NEW r, IsRun(r), NEW wrapped \in SUBSET (2..Len(r.op)), NEW attributes, NEW internal,
         NEW spans, Emitted(spans, r, wrapped, attributes, internal),
         OI_KIND \in DOMAIN attributes[1],
         \A i \in 1..Len(r.op) :
           /\ OperationForKind(Attr(attributes[i], OI_KIND), i = 1) = r.op[i]
           /\ OpenInferenceNeeds(r.op[i]) \subseteq DOMAIN attributes[i],
         OperationForKind(Attr(internal, OI_KIND), FALSE) = Null
  PROVE  Arrives(NormalizeByConvention(spans), r)
<1> DEFINE own(i) == OwnSpan(r, wrapped, attributes, i)
           wrap(i) == WrapSpan(r, internal, i)
           normalized == NormalizeByConvention(spans)
<1>1. /\ \A i : own(i).attributes = attributes[i]
      /\ \A i : wrap(i).attributes = internal
      /\ \A i \in 1..Len(r.op) : own(i).parent = Null <=> i = 1
      /\ \A i \in wrapped : wrap(i).parent # Null
  <2>1. /\ \A i : own(i).attributes = attributes[i]
        /\ \A i : wrap(i).attributes = internal
    BY DEF OwnSpan, WrapSpan
  <2> QED
    BY <2>1, RootHasNoParent
<1>2. \A p \in DOMAIN spans : \/ \E i \in 1..Len(r.op) : spans[p] = own(i)
                              \/ \E i \in wrapped : spans[p] = wrap(i)
  BY DEF Emitted, EmittedSpans
<1>3. Len(spans) \in Nat /\ DOMAIN spans = 1..Len(spans)
  BY IdsAre DEF Emitted
<1>4. normalized = [p \in DOMAIN spans |-> NormalizeOpenInferenceSpan(spans[p])]
  <2>1. PICK p \in DOMAIN spans : spans[p] = own(1)
    <3>1. own(1) \in EmittedSpans(r, wrapped, attributes, internal)
      BY RunIs DEF EmittedSpans
    <3> QED
      BY <3>1 DEF Emitted
  <2>2. OI_KIND \in DOMAIN spans[p].attributes
    BY <1>1, <2>1
  <2> QED
    BY <2>2 DEF NormalizeByConvention, NormalizeOpenInference, MapSeq
<1> HIDE DEF own, wrap
<1>5. \A p \in DOMAIN spans :
        /\ normalized[p].id = spans[p].id /\ normalized[p].parent = spans[p].parent
        /\ normalized[p].operation
             = OperationForKind(Attr(spans[p].attributes, OI_KIND), spans[p].parent = Null)
        /\ normalized[p] = NormalizeOpenInferenceSpan(spans[p])
  BY <1>4 DEF NormalizeOpenInferenceSpan, Normalized
<1>6. DOMAIN normalized = DOMAIN spans /\ Len(normalized) = Len(spans)
  <2>1. DOMAIN normalized = 1..Len(spans)
    BY <1>3, <1>4
  <2> HIDE DEF normalized
  <2> QED
    BY <1>3, <2>1
<1> HIDE DEF normalized
<1>7. \A p \in DOMAIN spans, i \in 1..Len(r.op) : spans[p] = own(i) => normalized[p].operation = r.op[i]
  <2> SUFFICES ASSUME NEW p \in DOMAIN spans, NEW i \in 1..Len(r.op), spans[p] = own(i)
               PROVE  normalized[p].operation = r.op[i]
    OBVIOUS
  <2>1. (spans[p].parent = Null) = (i = 1) /\ spans[p].attributes = attributes[i]
    BY <1>1
  <2> QED
    BY <1>5, <2>1
<1>8. \A p \in DOMAIN spans, i \in wrapped : spans[p] = wrap(i) => normalized[p].operation = Null
  <2> SUFFICES ASSUME NEW p \in DOMAIN spans, NEW i \in wrapped, spans[p] = wrap(i)
               PROVE  normalized[p].operation = Null
    OBVIOUS
  <2>1. (spans[p].parent = Null) = FALSE /\ spans[p].attributes = internal
    BY <1>1
  <2> QED
    BY <1>5, <2>1
<1>9. Carries(normalized, r, wrapped)
  <2>1. \A p \in DOMAIN spans, i \in 1..Len(r.op) :
          spans[p] = OwnSpan(r, wrapped, attributes, i) => normalized[p].operation = r.op[i]
    BY <1>7 DEF own
  <2>2. \A p \in DOMAIN spans, i \in wrapped :
          spans[p] = WrapSpan(r, internal, i) => normalized[p].operation = Null
    BY <1>8 DEF wrap
  <2>3. \A p \in DOMAIN spans : normalized[p].id = spans[p].id /\ normalized[p].parent = spans[p].parent
    BY <1>5
  <2> QED
    BY <1>6, <2>1, <2>2, <2>3, NormalizedCarries
<1>10. ValidateTrace(Resource, normalized)
  <2>1. ASSUME NEW p \in DOMAIN normalized, normalized[p].operation # Null
        PROVE  MandatorySpanAttrs[normalized[p].operation] \subseteq DOMAIN normalized[p].attributes
    <3>1. PICK i \in 1..Len(r.op) : spans[p] = own(i)
      BY <1>2, <1>6, <1>8, <2>1
    <3>2. normalized[p].operation = r.op[i] /\ r.op[i] \in Operations
      BY <1>6, <1>7, <3>1, RunIs
    <3>3. OperationForKind(Attr(spans[p].attributes, OI_KIND), spans[p].parent = Null) = r.op[i]
      BY <1>5, <1>6, <3>2
    <3>4. OpenInferenceNeeds(r.op[i]) \subseteq DOMAIN spans[p].attributes
      BY <1>1, <3>1
    <3>5. MandatorySpanAttrs[r.op[i]] \subseteq DOMAIN NormalizeOpenInferenceSpan(spans[p]).attributes
      BY <3>2, <3>3, <3>4, OpenInferenceSpanIsValid
    <3> QED
      BY <1>5, <1>6, <3>2, <3>5
  <2> QED
    BY <2>1 DEF ValidateTrace, Resource
<1> QED
  BY <1>9, <1>10 DEF Arrives, normalized

-----------------------------------------------------------------------------
\* Each source of traces.

\* What the GenAI attributes of an operation hold.
LEMMA GenAIAttributesAre ==
  ASSUME NEW op \in Operations
  PROVE  LET attributes == GenAIAttributes(op) IN
         /\ OI_KIND \notin DOMAIN attributes
         /\ Attr(attributes, OPERATION_NAME) = op
         /\ MandatorySpanAttrs[op] \subseteq DOMAIN attributes
<1> DEFINE more == CASE op = "invoke_agent" -> Identity
                     [] op = "chat"         -> Only("gen_ai.request.model", "gpt")
                     [] op = "execute_tool" -> Only("gen_ai.tool.name", "search")
           attributes == GenAIAttributes(op)
<1>1. attributes = Spread(Only(OPERATION_NAME, op), more)
  BY DEF GenAIAttributes
<1>2. DOMAIN more = CASE op = "invoke_agent" -> {"apl.agent_id", "apl.agent_version"}
                      [] op = "chat"         -> {"gen_ai.request.model"}
                      [] op = "execute_tool" -> {"gen_ai.tool.name"}
  BY DEF Operations, Identity, Only
<1> HIDE DEF more, attributes
<1>3. DOMAIN attributes = {OPERATION_NAME} \cup DOMAIN more
  BY <1>1 DEF Spread, Only
<1>4. OPERATION_NAME \notin DOMAIN more /\ OI_KIND \notin DOMAIN more
  BY <1>2 DEF Operations, OPERATION_NAME, OI_KIND
<1>5. attributes[OPERATION_NAME] = op
  BY <1>1, <1>4 DEF Spread, Only
<1>6. Attr(attributes, OPERATION_NAME) = op
  BY <1>3, <1>5 DEF Attr
<1>7. OI_KIND \notin DOMAIN attributes
  BY <1>3, <1>4 DEF OI_KIND, OPERATION_NAME
<1>8. MandatorySpanAttrs[op] \subseteq DOMAIN attributes
  BY <1>2, <1>3 DEF MandatorySpanAttrs, Operations
<1> QED
  BY <1>6, <1>7, <1>8 DEF attributes

\* A run emitted in the GenAI convention arrives.
LEMMA GenAIEmissionArrives ==
  ASSUME NEW r, IsRun(r), NEW wrapped \in SUBSET (2..Len(r.op))
  PROVE  Arrives(NormalizeByConvention(EmitGenAI(r, wrapped, FALSE)), r)
<1> DEFINE attributes == [i \in DOMAIN r.op |-> GenAIAttributes(r.op[i])]
           internal == Only(OPERATION_NAME, "embeddings")
           spans == Emit(r, wrapped, FALSE, attributes, internal)
<1>1. EmitGenAI(r, wrapped, FALSE) = spans
  BY DEF EmitGenAI
<1>2. Emitted(spans, r, wrapped, attributes, internal)
  BY EmitIsTheSpans
<1>3. \A i \in 1..Len(r.op) :
        /\ OI_KIND \notin DOMAIN attributes[i]
        /\ Attr(attributes[i], OPERATION_NAME) = r.op[i]
        /\ MandatorySpanAttrs[r.op[i]] \subseteq DOMAIN attributes[i]
  <2>1. \A i \in 1..Len(r.op) : attributes[i] = GenAIAttributes(r.op[i]) /\ r.op[i] \in Operations
    BY RunIs
  <2> QED
    BY <2>1, GenAIAttributesAre
<1>4. OI_KIND \notin DOMAIN internal /\ Attr(internal, OPERATION_NAME) \notin Operations
  BY DEF Only, Attr, OI_KIND, OPERATION_NAME, Operations
<1> HIDE DEF spans, attributes, internal
<1>5. Arrives(NormalizeByConvention(spans), r)
  BY <1>2, <1>3, <1>4, GenAIArrives
<1> QED
  BY <1>1, <1>5

\* So does one of the bounded runner: its root also names the model.
LEMMA AgenticOpsRunArrives ==
  ASSUME NEW r, IsRun(r), OnlyTools(r)
  PROVE  Arrives(NormalizeByConvention(FromAgenticOpsRun(r)), r)
<1> DEFINE model == Only("gen_ai.request.model", "gpt")
           root == Spread(GenAIAttributes("invoke_agent"), model)
           attributes == [i \in DOMAIN r.op |-> IF i = 1 THEN root ELSE GenAIAttributes("execute_tool")]
           internal == <<>>
           spans == Emit(r, {}, FALSE, attributes, internal)
<1>1. FromAgenticOpsRun(r) = spans
  BY DEF FromAgenticOpsRun
<1>2. Emitted(spans, r, {}, attributes, internal)
  BY EmitIsTheSpans
<1>3. \A i \in 1..Len(r.op) :
        /\ OI_KIND \notin DOMAIN attributes[i]
        /\ Attr(attributes[i], OPERATION_NAME) = r.op[i]
        /\ MandatorySpanAttrs[r.op[i]] \subseteq DOMAIN attributes[i]
  <2>1. \A i \in 1..Len(r.op) :
          /\ i # 1 => attributes[i] = GenAIAttributes(r.op[i]) /\ r.op[i] \in Operations
          /\ i = 1 => attributes[i] = root /\ r.op[i] = "invoke_agent"
    <3>1. \A i \in 1..Len(r.op) : i # 1 => i \in 2..Len(r.op)
      BY RunIs
    <3>2. \A i \in 1..Len(r.op) : i # 1 => r.op[i] = "execute_tool"
      BY <3>1 DEF OnlyTools
    <3> QED
      BY <3>2, RunIs
  <2>2. /\ OI_KIND \notin DOMAIN root
        /\ Attr(root, OPERATION_NAME) = "invoke_agent"
        /\ MandatorySpanAttrs["invoke_agent"] \subseteq DOMAIN root
    <3> DEFINE agent == GenAIAttributes("invoke_agent")
    <3>1. /\ OI_KIND \notin DOMAIN agent
          /\ Attr(agent, OPERATION_NAME) = "invoke_agent"
          /\ MandatorySpanAttrs["invoke_agent"] \subseteq DOMAIN agent
      BY GenAIAttributesAre DEF Operations
    <3>2. OPERATION_NAME \in MandatorySpanAttrs["invoke_agent"]
      BY DEF MandatorySpanAttrs
    <3> HIDE DEF agent
    <3>3. DOMAIN Spread(agent, model) = DOMAIN agent \cup {"gen_ai.request.model"}
      BY DEF Spread, Only
    <3>4. Spread(agent, model)[OPERATION_NAME] = agent[OPERATION_NAME]
      BY <3>1, <3>2 DEF Spread, Only, OPERATION_NAME
    <3>5. agent[OPERATION_NAME] = "invoke_agent"
      BY <3>1, <3>2 DEF Attr
    <3>6. Attr(Spread(agent, model), OPERATION_NAME) = "invoke_agent"
      BY <3>1, <3>2, <3>3, <3>4, <3>5 DEF Attr
    <3> QED
      BY <3>1, <3>3, <3>6 DEF OI_KIND, agent
  <2> HIDE DEF attributes, root
  <2> QED
    BY <2>1, <2>2, GenAIAttributesAre
<1>4. \A i \in {} : OI_KIND \notin DOMAIN internal /\ Attr(internal, OPERATION_NAME) \notin Operations
  OBVIOUS
<1> HIDE DEF spans, attributes, internal
<1>5. Arrives(NormalizeByConvention(spans), r)
  BY <1>2, <1>3, <1>4, GenAIArrives
<1> QED
  BY <1>1, <1>5

\* What the OpenInference attributes of an operation hold.
LEMMA OpenInferenceAttributesAre ==
  ASSUME NEW op \in Operations, NEW isRoot \in BOOLEAN, NEW rootKind \in {"AGENT", "CHAIN"},
         isRoot => op = "invoke_agent"
  PROVE  LET attributes == OpenInferenceAttributes(op, isRoot, rootKind) IN
         /\ OI_KIND \in DOMAIN attributes
         /\ OperationForKind(Attr(attributes, OI_KIND), isRoot) = op
         /\ OpenInferenceNeeds(op) \subseteq DOMAIN attributes
<1> DEFINE kind == CASE op = "invoke_agent" -> IF isRoot THEN rootKind ELSE "AGENT"
                     [] op = "chat"         -> "LLM"
                     [] op = "execute_tool" -> "TOOL"
           more == CASE op = "invoke_agent" -> Identity
                     [] op = "chat"         -> Only("llm.model_name", "gpt")
                     [] op = "execute_tool" -> Only("tool.name", "search")
           attributes == OpenInferenceAttributes(op, isRoot, rootKind)
<1>1. attributes = Spread(Only(OI_KIND, kind), more)
  <2>1. CASE op = "invoke_agent"
    BY <2>1 DEF OpenInferenceAttributes
  <2>2. CASE op = "chat"
    BY <2>2 DEF OpenInferenceAttributes
  <2>3. CASE op = "execute_tool"
    BY <2>3 DEF OpenInferenceAttributes
  <2> QED
    BY <2>1, <2>2, <2>3 DEF Operations
<1>2. DOMAIN more = OpenInferenceNeeds(op)
  BY DEF Operations, Identity, Only, OpenInferenceNeeds
<1>3. OperationForKind(kind, isRoot) = op
  BY DEF Operations, OperationForKind
<1> HIDE DEF more, attributes, kind
<1>4. DOMAIN attributes = {OI_KIND} \cup DOMAIN more
  BY <1>1 DEF Spread, Only
<1>5. OI_KIND \notin DOMAIN more
  BY <1>2 DEF Operations, OI_KIND, OpenInferenceNeeds
<1>6. attributes[OI_KIND] = kind
  BY <1>1, <1>5 DEF Spread, Only
<1> QED
  BY <1>2, <1>3, <1>4, <1>6 DEF attributes, Attr

\* A run emitted in the OpenInference convention arrives.
LEMMA OpenInferenceEmissionArrives ==
  ASSUME NEW r, IsRun(r), NEW wrapped \in SUBSET (2..Len(r.op)),
         NEW rootKind \in {"AGENT", "CHAIN"}, NEW internalKind \in {"CHAIN", "RETRIEVER"}
  PROVE  Arrives(NormalizeByConvention(EmitOpenInference(r, wrapped, TRUE, rootKind, internalKind)), r)
<1> DEFINE attributes == [i \in DOMAIN r.op |-> OpenInferenceAttributes(r.op[i], i = 1, rootKind)]
           internal == Only(OI_KIND, internalKind)
           spans == Emit(r, wrapped, TRUE, attributes, internal)
<1>1. EmitOpenInference(r, wrapped, TRUE, rootKind, internalKind) = spans
  BY DEF EmitOpenInference
<1>2. Emitted(spans, r, wrapped, attributes, internal)
  BY EmitIsTheSpans
<1>3. \A i \in 1..Len(r.op) :
        /\ OI_KIND \in DOMAIN attributes[i]
        /\ OperationForKind(Attr(attributes[i], OI_KIND), i = 1) = r.op[i]
        /\ OpenInferenceNeeds(r.op[i]) \subseteq DOMAIN attributes[i]
  <2> SUFFICES ASSUME NEW i \in 1..Len(r.op)
               PROVE  /\ OI_KIND \in DOMAIN attributes[i]
                      /\ OperationForKind(Attr(attributes[i], OI_KIND), i = 1) = r.op[i]
                      /\ OpenInferenceNeeds(r.op[i]) \subseteq DOMAIN attributes[i]
    OBVIOUS
  <2>1. attributes[i] = OpenInferenceAttributes(r.op[i], i = 1, rootKind)
    BY RunIs
  <2>2. r.op[i] \in Operations /\ (i = 1) \in BOOLEAN /\ (i = 1 => r.op[i] = "invoke_agent")
    BY RunIs
  <2> HIDE DEF attributes
  <2> QED
    BY <2>1, <2>2, OpenInferenceAttributesAre
<1>4. OperationForKind(Attr(internal, OI_KIND), FALSE) = Null
  BY DEF Only, Attr, OperationForKind
<1>5. 1 \in 1..Len(r.op)
  BY RunIs
<1> HIDE DEF spans, attributes, internal
<1>6. Arrives(NormalizeByConvention(spans), r)
  BY <1>2, <1>3, <1>4, <1>5, OpenInferenceArrives
<1> QED
  BY <1>1, <1>6

\* The attributes of the engine's spans once the adapter has stamped the identity.
Stamped(attributes) == [attributes EXCEPT ![1] = Spread(@, Identity)]

\* The adapter finds the root of a run and stamps that span only.
LEMMA RootIsStamped ==
  ASSUME NEW r, IsRun(r), NEW wrapped \in SUBSET (2..Len(r.op)), NEW attributes, NEW internal,
         DOMAIN attributes = 1..Len(r.op),
         NEW spans, Emitted(spans, r, wrapped, attributes, internal)
  PROVE  Emitted(FromAgenticMind(spans), r, wrapped, Stamped(attributes), internal)
<1> DEFINE more == Stamped(attributes)
           own(i) == OwnSpan(r, wrapped, attributes, i)
           stamped(i) == OwnSpan(r, wrapped, more, i)
           wrap(i) == WrapSpan(r, internal, i)
           adapt(s) == IF s.parent # Null THEN s ELSE [s EXCEPT !.attributes = Spread(@, Identity)]
           result == FromAgenticMind(spans)
           n == Cardinality(Ids(r, wrapped))
<1>1. /\ DOMAIN spans = 1..n /\ Len(spans) = n /\ n \in Nat
      /\ \A p \in DOMAIN spans : \/ \E i \in 1..Len(r.op) : spans[p] = own(i)
                                 \/ \E i \in wrapped : spans[p] = wrap(i)
      /\ \A i \in 1..Len(r.op) : \E p \in DOMAIN spans : spans[p] = own(i)
      /\ \A i \in wrapped : \E p \in DOMAIN spans : spans[p] = wrap(i)
      /\ \A p, q \in DOMAIN spans : spans[p].id = spans[q].id => p = q
  <2>1. /\ \A i \in 1..Len(r.op) : own(i) \in EmittedSpans(r, wrapped, attributes, internal)
        /\ \A i \in wrapped : wrap(i) \in EmittedSpans(r, wrapped, attributes, internal)
        /\ \A s \in EmittedSpans(r, wrapped, attributes, internal) :
             (\E i \in 1..Len(r.op) : s = own(i)) \/ (\E i \in wrapped : s = wrap(i))
    BY DEF EmittedSpans
  <2>2. n \in Nat
    BY IdsAre, FS_CardinalityType
  <2> HIDE DEF own, wrap
  <2> QED
    BY <2>1, <2>2 DEF Emitted
<1>2. /\ \A i \in 1..Len(r.op) : adapt(own(i)) = stamped(i)
      /\ \A i \in wrapped : adapt(wrap(i)) = wrap(i)
  <2>1. /\ \A i \in 1..Len(r.op) : own(i).parent = Null <=> i = 1
        /\ \A i \in wrapped : wrap(i).parent # Null
    BY RootHasNoParent
  <2>2. ASSUME NEW i \in 1..Len(r.op)
        PROVE  adapt(own(i)) = stamped(i)
    <3>1. more[i] = IF i = 1 THEN Spread(attributes[i], Identity) ELSE attributes[i]
      BY DEF Stamped
    <3>2. CASE i = 1
      <4>1. adapt(own(i)) = [own(i) EXCEPT !.attributes = Spread(@, Identity)]
        <5>1. ~(own(i).parent # Null)
          BY <2>1, <3>2
        <5> HIDE DEF own
        <5> QED
          BY <5>1
      <4>2. [own(i) EXCEPT !.attributes = Spread(@, Identity)] = stamped(i)
        BY <3>1, <3>2 DEF OwnSpan
      <4> QED
        BY <4>1, <4>2
    <3>3. CASE i # 1
      <4>1. adapt(own(i)) = own(i)
        <5>1. own(i).parent # Null
          BY <2>1, <3>3
        <5> HIDE DEF own
        <5> QED
          BY <5>1
      <4>2. own(i) = stamped(i)
        BY <3>1, <3>3 DEF OwnSpan
      <4> QED
        BY <4>1, <4>2
    <3> QED
      BY <3>2, <3>3
  <2>3. ASSUME NEW i \in wrapped
        PROVE  adapt(wrap(i)) = wrap(i)
    <3>1. wrap(i).parent # Null
      BY <2>1
    <3> HIDE DEF wrap
    <3> QED
      BY <3>1
  <2> HIDE DEF adapt, own, stamped, wrap
  <2> QED
    BY <2>2, <2>3
<1>3. result = [p \in DOMAIN spans |-> adapt(spans[p])]
  BY DEF FromAgenticMind
<1>4. /\ \A i : own(i).id = stamped(i).id
  BY DEF OwnSpan
<1>5. /\ \A i \in 1..Len(r.op) : stamped(i) \in EmittedSpans(r, wrapped, more, internal)
      /\ \A i \in wrapped : wrap(i) \in EmittedSpans(r, wrapped, more, internal)
      /\ \A s \in EmittedSpans(r, wrapped, more, internal) :
           (\E i \in 1..Len(r.op) : s = stamped(i)) \/ (\E i \in wrapped : s = wrap(i))
  BY DEF EmittedSpans
<1> HIDE DEF adapt, own, stamped, wrap, result, more, n
<1>6. DOMAIN result = 1..n /\ Len(result) = n
  <2>1. DOMAIN result = 1..n
    BY <1>1, <1>3
  <2> QED
    BY <1>1, <2>1
<1>7. \A p \in DOMAIN spans : result[p] = adapt(spans[p])
  BY <1>3
<1>8. \A p \in DOMAIN spans : result[p].id = spans[p].id
  BY <1>1, <1>2, <1>4, <1>7
<1>9. \A p \in DOMAIN result : result[p] \in EmittedSpans(r, wrapped, more, internal)
  BY <1>1, <1>2, <1>5, <1>6, <1>7
<1>10. \A s \in EmittedSpans(r, wrapped, more, internal) : \E p \in DOMAIN result : result[p] = s
  BY <1>1, <1>2, <1>5, <1>6, <1>7
<1>11. \A p, q \in DOMAIN result : result[p].id = result[q].id => p = q
  BY <1>1, <1>6, <1>8
<1> QED
  BY <1>6, <1>9, <1>10, <1>11 DEF Emitted, n, more, result

\* The engine's spans of a run of one agent arrive through the adapter.
LEMMA AgenticMindRunArrives ==
  ASSUME NEW r, IsRun(r), OneAgent(r), NEW wrapped \in SUBSET (2..Len(r.op))
  PROVE  Arrives(NormalizeByConvention(FromAgenticMind(EmitAgenticMind(r, wrapped))), r)
<1> DEFINE chain == Only(OI_KIND, "CHAIN")
           attributes == [i \in DOMAIN r.op |-> IF i = 1 THEN chain
                            ELSE OpenInferenceAttributes(r.op[i], FALSE, "CHAIN")]
           internal == Only(OI_KIND, "RETRIEVER")
           spans == Emit(r, wrapped, FALSE, attributes, internal)
           more == Stamped(attributes)
<1>1. EmitAgenticMind(r, wrapped) = spans
  BY DEF EmitAgenticMind
<1>2. Emitted(spans, r, wrapped, attributes, internal)
  BY EmitIsTheSpans
<1>3. DOMAIN attributes = 1..Len(r.op)
  BY RunIs
<1>4. Emitted(FromAgenticMind(spans), r, wrapped, more, internal)
  <2> HIDE DEF spans, attributes, internal
  <2> QED
    BY <1>2, <1>3, RootIsStamped
<1>5. 1 \in 1..Len(r.op) /\ r.op[1] = "invoke_agent"
  BY RunIs
<1>6. more[1] = Spread(chain, Identity)
  BY <1>3, <1>5 DEF Stamped
<1>7. /\ DOMAIN more[1] = {OI_KIND, "apl.agent_id", "apl.agent_version"}
      /\ more[1][OI_KIND] = "CHAIN"
  <2> HIDE DEF more, attributes
  <2> QED
    BY <1>6 DEF Spread, Identity, Only, OI_KIND
<1>8. \A i \in 1..Len(r.op) :
        /\ OperationForKind(Attr(more[i], OI_KIND), i = 1) = r.op[i]
        /\ OpenInferenceNeeds(r.op[i]) \subseteq DOMAIN more[i]
  <2>1. ASSUME NEW i \in 1..Len(r.op), i # 1
        PROVE  /\ OperationForKind(Attr(more[i], OI_KIND), i = 1) = r.op[i]
               /\ OpenInferenceNeeds(r.op[i]) \subseteq DOMAIN more[i]
    <3>1. more[i] = OpenInferenceAttributes(r.op[i], FALSE, "CHAIN")
      BY <1>3, <2>1 DEF Stamped
    <3>2. r.op[i] \in Operations
      BY RunIs
    <3> HIDE DEF more
    <3>3. (i = 1) = FALSE
      BY <2>1
    <3> QED
      BY <3>1, <3>2, <3>3, OpenInferenceAttributesAre
  <2>2. /\ OperationForKind(Attr(more[1], OI_KIND), TRUE) = r.op[1]
        /\ OpenInferenceNeeds(r.op[1]) \subseteq DOMAIN more[1]
    <3>1. Attr(more[1], OI_KIND) = "CHAIN"
      <4> HIDE DEF more
      <4> QED
        BY <1>7 DEF Attr
    <3> HIDE DEF more
    <3> QED
      BY <1>5, <1>7, <3>1 DEF OperationForKind, OpenInferenceNeeds
  <2> HIDE DEF more
  <2> QED
    BY <2>1, <2>2
<1>9. OperationForKind(Attr(internal, OI_KIND), FALSE) = Null
  BY DEF Only, Attr, OperationForKind
<1>10. OI_KIND \in DOMAIN more[1]
  BY <1>7
<1> HIDE DEF spans, attributes, internal, more
<1>11. Arrives(NormalizeByConvention(FromAgenticMind(spans)), r)
  BY <1>4, <1>8, <1>9, <1>10, OpenInferenceArrives
<1> QED
  BY <1>1, <1>11

\* Whatever a run is emitted as arrives.
LEMMA EmissionsArrive ==
  ASSUME NEW r, IsRun(r)
  PROVE  /\ \A e \in GenAIEmissions(r) : Arrives(NormalizeByConvention(e), r)
         /\ \A e \in OpenInferenceEmissions(r) : Arrives(NormalizeByConvention(e), r)
<1>1. ASSUME NEW e \in GenAIEmissions(r)
      PROVE  Arrives(NormalizeByConvention(e), r)
  <2>1. CASE \E wrapped \in SUBSET (2..Len(r.op)) : e = EmitGenAI(r, wrapped, FALSE)
    BY <2>1, GenAIEmissionArrives
  <2>2. CASE OnlyTools(r) /\ e = FromAgenticOpsRun(r)
    BY <2>2, AgenticOpsRunArrives
  <2> QED
    BY <1>1, <2>1, <2>2 DEF GenAIEmissions
<1>2. ASSUME NEW e \in OpenInferenceEmissions(r)
      PROVE  Arrives(NormalizeByConvention(e), r)
  <2> DEFINE emitted(wrapped, rootKind, internalKind) ==
               EmitOpenInference(r, wrapped, TRUE, rootKind, internalKind)
             own == {emitted(wrapped, rootKind, internalKind) :
                      wrapped \in SUBSET (2..Len(r.op)), rootKind \in {"AGENT", "CHAIN"},
                      internalKind \in {"CHAIN", "RETRIEVER"}}
             adapted == {FromAgenticMind(EmitAgenticMind(x, wrapped)) :
                          x \in {y \in {r} : OneAgent(y)}, wrapped \in SUBSET (2..Len(r.op))}
  <2>1. OpenInferenceEmissions(r) = own \cup adapted
    BY DEF OpenInferenceEmissions
  <2>2. CASE e \in own
    <3>1. \A wrapped \in SUBSET (2..Len(r.op)), rootKind \in {"AGENT", "CHAIN"},
            internalKind \in {"CHAIN", "RETRIEVER"} :
            Arrives(NormalizeByConvention(emitted(wrapped, rootKind, internalKind)), r)
      BY OpenInferenceEmissionArrives
    <3> HIDE DEF emitted
    <3> QED
      BY <2>2, <3>1
  <2>3. CASE e \in adapted
    <3>1. PICK x \in {y \in {r} : OneAgent(y)}, wrapped \in SUBSET (2..Len(r.op)) :
                 e = FromAgenticMind(EmitAgenticMind(x, wrapped))
      BY <2>3
    <3> QED
      BY <3>1, AgenticMindRunArrives
  <2> HIDE DEF own, adapted
  <2> QED
    BY <1>2, <2>1, <2>2, <2>3
<1> QED
  BY <1>1, <1>2

-----------------------------------------------------------------------------
\* The answer to a comparison.

\* The paths to all the operations of a run.
TreePaths(r) == TreePathsUpTo(r, Len(r.op))

\* Traces that carry runs are equivalent if the runs make the same calls on the same
\* paths, however often each.
LEMMA EquivalentIfTheSameCalls ==
  ASSUME NEW a, NEW b, IsRun(a), IsRun(b), NEW left, NEW right, Arrives(left, a), Arrives(right, b),
         NEW s \in TreePaths(a), NEW t \in TreePaths(b)
  PROVE  CanonicalEquivalent(Resource, left, Resource, right)
           <=> ToBag(TreeCalls(a, s)) = ToBag(TreeCalls(b, t))
<1>1. CanonicalShape(left) = ToBag(TreeCalls(a, s))
  BY ShapeIsThatOfTheRun DEF Arrives, TreePaths
<1>2. CanonicalShape(right) = ToBag(TreeCalls(b, t))
  BY ShapeIsThatOfTheRun DEF Arrives, TreePaths
<1> QED
  BY <1>1, <1>2 DEF CanonicalEquivalent, Arrives

\* The answer is decided by the two runs: whatever they arrived as.
RunsDecide ==
  call # Idle =>
    /\ IsRun(call.a) /\ IsRun(call.b)
    /\ \A s \in TreePaths(call.a), t \in TreePaths(call.b) :
         call.equivalent <=> ToBag(TreeCalls(call.a, s)) = ToBag(TreeCalls(call.b, t))

\* The runs decide, in every state.
LEMMA RunsDecideAlways ==
  EquivalenceSpec => []RunsDecide
<1>1. EquivalenceInit => RunsDecide
  BY DEF EquivalenceInit, RunsDecide
<1>2. RunsDecide /\ [EquivalenceNext]_call => RunsDecide'
  <2> SUFFICES ASSUME RunsDecide, [EquivalenceNext]_call
               PROVE  RunsDecide'
    OBVIOUS
  <2>1. ASSUME NEW pair \in Pairs, Compare(pair[1], pair[2])
        PROVE  RunsDecide'
    <3> DEFINE a == pair[1]
               b == pair[2]
    <3>1. IsRun(a) /\ IsRun(b)
      BY EquivalenceAssumption DEF IsRun
    <3>2. PICK left \in GenAIEmissions(a), right \in OpenInferenceEmissions(b) :
            call' = [pc |-> "done", a |-> a, b |-> b,
                     equivalent |-> CanonicalEquivalent(
                        Resource, NormalizeByConvention(left),
                        Resource, NormalizeByConvention(right))]
      BY <2>1 DEF Compare
    <3> HIDE DEF a, b
    <3>3. /\ Arrives(NormalizeByConvention(left), a)
          /\ Arrives(NormalizeByConvention(right), b)
      BY <3>1, EmissionsArrive
    <3>4. /\ call'.a = a /\ call'.b = b
          /\ call'.equivalent = CanonicalEquivalent(Resource, NormalizeByConvention(left),
                                                    Resource, NormalizeByConvention(right))
      BY <3>2
    <3>5. \A s \in TreePaths(a), t \in TreePaths(b) :
            CanonicalEquivalent(Resource, NormalizeByConvention(left),
                                Resource, NormalizeByConvention(right))
              <=> ToBag(TreeCalls(a, s)) = ToBag(TreeCalls(b, t))
      BY <3>1, <3>3, EquivalentIfTheSameCalls
    <3> QED
      BY <3>1, <3>4, <3>5 DEF RunsDecide
  <2>2. CASE Return
    BY <2>2 DEF Return, RunsDecide
  <2>3. CASE UNCHANGED call
    BY <2>3 DEF RunsDecide
  <2> QED
    BY <2>1, <2>2, <2>3 DEF EquivalenceNext
<1> QED
  BY <1>1, <1>2, PTL DEF EquivalenceSpec

\* Two emissions of one run are equivalent, whatever the convention, the order of
\* the spans and the framework-internal spans in between, adapted or not: the walk to
\* the root skips what is no operation, and a shape does not keep the order.
THEOREM SameRunIsEquivalentHolds ==
  EquivalenceSpec => []SameRunIsEquivalent
<1>1. RunsDecide => SameRunIsEquivalent
  <2> SUFFICES ASSUME RunsDecide, call # Idle, call.a = call.b
               PROVE  call.equivalent
    BY DEF SameRunIsEquivalent
  <2>1. IsRun(call.a)
    BY DEF RunsDecide
  <2>2. PICK t \in TreePaths(call.a) : TRUE
    <3>1. Len(call.a.op) \in 0..Len(call.a.op)
      BY <2>1, RunIs
    <3> QED
      BY <2>1, <3>1, TreePathsExist DEF TreePaths
  <2> QED
    BY <2>2 DEF RunsDecide
<1> QED
  BY <1>1, RunsDecideAlways, PTL

\* The calls of an operation by another, or by none: those on a path that ends with it.
CallsBy(caller, callee) ==
  {callee} \X {path \in Seq(Operations) :
                 IF path = <<>> THEN caller = Null ELSE path[Len(path)] = caller}

\* The operations of a run that another calls are those on such a path.
LEMMA CallersEndPaths ==
  ASSUME NEW r, IsRun(r), NEW t \in TreePaths(r),
         NEW caller \in Operations \cup {Null}, NEW callee \in Operations
  PROVE  Calls(r, caller, callee) = Cardinality(OfKind(TreeCalls(r, t), CallsBy(caller, callee)))
<1> DEFINE n == Len(r.op)
<1>1. n \in Nat /\ DOMAIN r.op = 1..n
  BY RunIs
<1>2. /\ t \in [1..n -> Seq(Operations)]
      /\ \A i \in 1..n : t[i] = Append(CalledFrom(t, r, i), r.op[i])
  BY DEF TreePaths, TreePathsUpTo
<1>3. /\ DOMAIN TreeCalls(r, t) = 1..n
      /\ \A i \in 1..n : TreeCalls(r, t)[i] = <<r.op[i], CalledFrom(t, r, i)>>
  BY DEF TreeCalls
<1>4. \A op, path : <<op, path>> \in CallsBy(caller, callee) <=>
        /\ op = callee /\ path \in Seq(Operations)
        /\ path = <<>> => caller = Null
        /\ path # <<>> => path[Len(path)] = caller
  BY DEF CallsBy
<1>5. ASSUME NEW i \in 1..n
      PROVE  (Caller(r, i) = caller /\ r.op[i] = callee)
               <=> TreeCalls(r, t)[i] \in CallsBy(caller, callee)
  <2> DEFINE path == CalledFrom(t, r, i)
  <2>1. CASE r.parent[i] = 0
    <3>1. path = <<>> /\ Caller(r, i) = Null
      BY <2>1 DEF CalledFrom, Caller
    <3>2. <<>> \in Seq(Operations)
      OBVIOUS
    <3>3. TreeCalls(r, t)[i] = <<r.op[i], <<>>>>
      BY <1>3, <3>1
    <3> QED
      BY ONLY <1>4, <3>1, <3>2, <3>3, caller \in Operations \cup {Null}
  <2>2. CASE r.parent[i] # 0
    <3> DEFINE j == r.parent[i]
               up == CalledFrom(t, r, j)
    <3>1. j \in 1..n /\ r.op[j] \in Operations
      BY <2>2, RunIs
    <3>2. path = t[j] /\ Caller(r, i) = r.op[j]
      BY <2>2 DEF CalledFrom, Caller
    <3>3. path \in Seq(Operations) /\ path = Append(up, r.op[j])
      BY <1>2, <3>1, <3>2
    <3>4. up \in Seq(Operations)
      <4>1. up = <<>> \/ (r.parent[j] \in 1..n /\ up = t[r.parent[j]])
        BY <3>1, RunIs DEF CalledFrom
      <4>2. CASE up = <<>>
        BY <4>2
      <4>3. CASE r.parent[j] \in 1..n /\ up = t[r.parent[j]]
        <5> HIDE DEF up
        <5> QED
          BY <1>2, <4>3
      <4> QED
        BY <4>1, <4>2, <4>3
    <3> HIDE DEF path, up, j
    <3>5. path # <<>> /\ path[Len(path)] = r.op[j]
      BY <3>1, <3>3, <3>4
    <3>6. TreeCalls(r, t)[i] = <<r.op[i], path>>
      BY <1>3 DEF path
    <3> QED
      BY ONLY <1>4, <3>2, <3>3, <3>5, <3>6
  <2> QED
    BY <2>1, <2>2
<1>6. {i \in DOMAIN r.op : Caller(r, i) = caller /\ r.op[i] = callee}
        = OfKind(TreeCalls(r, t), CallsBy(caller, callee))
  <2> HIDE DEF n
  <2> QED
    BY <1>1, <1>3, <1>5 DEF OfKind
<1> QED
  BY <1>6 DEF Calls

\* Equivalent runs make the same calls: as many of each operation by each, whatever
\* spans the instrumentors put in between.
THEOREM EquivalentMakeTheSameCallsHolds ==
  EquivalenceSpec => []EquivalentMakeTheSameCalls
<1>1. RunsDecide => EquivalentMakeTheSameCalls
  <2> SUFFICES ASSUME RunsDecide, call # Idle, call.equivalent,
                      NEW caller \in Operations \cup {Null}, NEW callee \in Operations
               PROVE  Calls(call.a, caller, callee) = Calls(call.b, caller, callee)
    BY DEF EquivalentMakeTheSameCalls
  <2> DEFINE a == call.a
             b == call.b
  <2>1. IsRun(a) /\ IsRun(b)
    BY DEF RunsDecide
  <2>2. Len(a.op) \in 0..Len(a.op) /\ Len(b.op) \in 0..Len(b.op)
    BY <2>1, RunIs
  <2>3. PICK s \in TreePaths(a) : TRUE
    BY <2>1, <2>2, TreePathsExist DEF TreePaths
  <2>4. PICK t \in TreePaths(b) : TRUE
    BY <2>1, <2>2, TreePathsExist DEF TreePaths
  <2>5. ToBag(TreeCalls(a, s)) = ToBag(TreeCalls(b, t))
    BY <2>3, <2>4 DEF RunsDecide
  <2>6. IsFiniteSet(DOMAIN TreeCalls(a, s)) /\ IsFiniteSet(DOMAIN TreeCalls(b, t))
    <3>1. DOMAIN TreeCalls(a, s) = 1..Len(a.op) /\ DOMAIN TreeCalls(b, t) = 1..Len(b.op)
      BY DEF TreeCalls
    <3>2. Len(a.op) \in Nat /\ Len(b.op) \in Nat
      BY <2>1, RunIs
    <3>3. IsFiniteSet(1..Len(a.op)) /\ IsFiniteSet(1..Len(b.op))
      BY <3>2, FirstNumbers
    <3> QED
      BY <3>1, <3>3
  <2> HIDE DEF a, b
  <2>7. Cardinality(OfKind(TreeCalls(a, s), CallsBy(caller, callee)))
          = Cardinality(OfKind(TreeCalls(b, t), CallsBy(caller, callee)))
    BY <2>5, <2>6, SameBagSameCounts
  <2>8. Calls(a, caller, callee) = Calls(b, caller, callee)
    BY <2>1, <2>7, CallersEndPaths
  <2> QED
    BY <2>8 DEF a, b
<1> QED
  BY <1>1, RunsDecideAlways, PTL
=============================================================================
