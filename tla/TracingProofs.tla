----------------------------- MODULE TracingProofs -----------------------------
(***************************************************************************)
(* What the tracer draws, for every graph of transfers: the edges are      *)
(* paths from the root, the shallow ones come first, and what is within    *)
(* reach is drawn.  The pruning decisions may be obeyed as well as         *)
(* ignored, and of the scores nothing is used but that they are numbers.   *)
(***************************************************************************)
EXTENDS Tracing, FiniteSetTheorems, SequenceTheorems, TLAPS

-------------------------------------------------------------------------------
(* Sequences by rank *)

TotalOrder(I, R) ==
  /\ \A i \in I : <<i, i>> \in R
  /\ \A i, j \in I : <<i, j>> \in R \/ <<j, i>> \in R
  /\ \A i, j \in I : <<i, j>> \in R /\ <<j, i>> \in R => i = j
  /\ \A i, j, l \in I : <<i, j>> \in R /\ <<j, l>> \in R => <<i, l>> \in R

RankIn(I, R, i) == Cardinality({j \in I : <<j, i>> \in R})

LEMMA PairsInProduct ==
  ASSUME NEW I, NEW i \in I, NEW j \in I
  PROVE  <<i, j>> \in I \X I /\ <<i, j>>[1] = i /\ <<i, j>>[2] = j
OBVIOUS

\* In a finite totally ordered set every rank from 1 to its size is taken.
LEMMA RanksAreTaken ==
  ASSUME NEW I, IsFiniteSet(I), NEW R, TotalOrder(I, R), NEW k \in 1..Cardinality(I)
  PROVE  \E i \in I : RankIn(I, R, i) = k
<1> USE DEF TotalOrder
<1> DEFINE below(i) == {j \in I : <<j, i>> \in R}
           n == Cardinality(I)
           rank == [i \in I |-> Cardinality(below(i))]
<1>1. n \in Nat
  BY FS_CardinalityType
<1>2. ASSUME NEW i \in I
      PROVE  IsFiniteSet(below(i)) /\ Cardinality(below(i)) \in 1..n
  <2>1. below(i) \in SUBSET I /\ i \in below(i)
    OBVIOUS
  <2>2. IsFiniteSet(below(i)) /\ Cardinality(below(i)) <= n
    BY <2>1, FS_Subset
  <2>3. Cardinality(below(i)) \in Nat /\ Cardinality(below(i)) # 0
    BY <2>1, <2>2, FS_CardinalityType, FS_EmptySet
  <2> QED BY <1>1, <2>2, <2>3
<1>3. ASSUME NEW i \in I, NEW j \in I, rank[i] = rank[j]
      PROVE  i = j
  <2>1. ASSUME NEW a \in I, NEW b \in I, <<a, b>> \in R, rank[a] = rank[b]
        PROVE  a = b
    <3>1. below(a) \in SUBSET below(b) /\ b \in below(b)
      BY <2>1
    <3>2. IsFiniteSet(below(b)) /\ Cardinality(below(a)) = Cardinality(below(b))
      BY <1>2, <2>1
    <3>3. below(a) = below(b)
      BY <3>1, <3>2, FS_Subset
    <3> QED BY <2>1, <3>1, <3>3
  <2> QED BY <1>3, <2>1
<1>4. rank \in [I -> 1..n]
  BY <1>2
<1> HIDE DEF rank
<1>5. rank \in Injection(I, 1..n)
  BY <1>3, <1>4 DEF Injection, IsInjective
<1>6. IsFiniteSet(1..n) /\ Cardinality(1..n) = n
  BY <1>1, FS_Interval
<1>7. rank \in Surjection(I, 1..n)
  BY <1>5, <1>6, FS_Injection
<1>8. PICK i \in I : rank[i] = k
  BY <1>7 DEF Surjection
<1> QED BY <1>8 DEF rank, RankIn

\* The same for numbers.
LEMMA NumbersAreRanked ==
  ASSUME NEW I \in SUBSET Int, IsFiniteSet(I), NEW k \in 1..Cardinality(I)
  PROVE  \E i \in I : Cardinality({j \in I : j <= i}) = k
<1> DEFINE R == {p \in I \X I : p[1] <= p[2]}
<1>1. ASSUME NEW i \in I, NEW j \in I
      PROVE  <<i, j>> \in R <=> i <= j
  BY PairsInProduct, Zenon
<1> HIDE DEF R
<1>2. TotalOrder(I, R)
  <2> DEFINE r(i, j) == <<i, j>> \in R
  <2>1. \A i, j \in I : r(i, j) <=> i <= j
    BY <1>1
  <2> HIDE DEF r
  <2>2. /\ \A i \in I : r(i, i)
        /\ \A i, j \in I : r(i, j) \/ r(j, i)
        /\ \A i, j \in I : r(i, j) /\ r(j, i) => i = j
        /\ \A i, j, l \in I : r(i, j) /\ r(j, l) => r(i, l)
    BY <2>1
  <2> QED BY <2>2, Zenon DEF r, TotalOrder
<1>3. PICK i \in I : RankIn(I, R, i) = k
  BY <1>2, RanksAreTaken, Zenon
<1>4. {j \in I : <<j, i>> \in R} = {j \in I : j <= i}
  BY <1>1
<1> QED BY <1>3, <1>4 DEF RankIn

LEMMA IndicesAreFinite ==
  ASSUME NEW S, NEW seq \in Seq(S), NEW I \in SUBSET DOMAIN seq
  PROVE  IsFiniteSet(I) /\ Cardinality(I) \in Nat /\ I \in SUBSET Nat /\ DOMAIN seq = 1..Len(seq)
<1>1. DOMAIN seq = 1..Len(seq) /\ Len(seq) \in Nat
  BY LenProperties
<1>2. IsFiniteSet(1..Len(seq))
  BY <1>1, FS_Interval
<1> QED BY <1>1, <1>2, FS_Subset, FS_CardinalityType

\* What is picked from a sequence are elements of it.
LEMMA PickedIsSeq ==
  ASSUME NEW S, NEW seq \in Seq(S), NEW I \in SUBSET DOMAIN seq
  PROVE  Picked(seq, I) \in Seq(S)
<1> DEFINE n == Cardinality(I)
           at(k) == CHOOSE i \in I : Cardinality({j \in I : j <= i}) = k
<1>1. IsFiniteSet(I) /\ n \in Nat /\ I \in SUBSET Int
  BY IndicesAreFinite
<1>2. ASSUME NEW k \in 1..n
      PROVE  seq[at(k)] \in S
  <2>1. at(k) \in I
    BY <1>1, NumbersAreRanked
  <2> QED BY <2>1, ElementOfSeq, LenProperties
<1>3. Picked(seq, I) = [k \in 1..n |-> seq[at(k)]]
  BY DEF Picked
<1> HIDE DEF at, n
<1>4. [k \in 1..n |-> seq[at(k)]] \in [1..n -> S]
  BY <1>2
<1> QED BY <1>1, <1>3, <1>4, IsASeq

-------------------------------------------------------------------------------
(* The seeds *)

\* Transfers whose score is a number.
Listable ==
  {t \in [dir: Directions, with: Accounts, value: Nat, age: Nat, types: SUBSET EntityTypes] :
     LogOf[t.value] \in Nat /\ Decay[t.age] \in Nat}
Entries == [wallet: Accounts, depth: Nat \ {0}, source: Accounts, value: Nat]

LEMMA TransfersAreListable ==
  ASSUME NEW w \in Accounts
  PROVE  Transfers[w] \in Seq(Listable)
<1> DEFINE Records == [dir: Directions, with: Accounts, value: Nat, age: Nat, types: SUBSET EntityTypes]
<1>1. Transfers[w] \in Seq(Records)
  BY TraceAssumption
<1>2. \A i \in 1..Len(Transfers[w]) : Transfers[w][i] \in Records
  BY <1>1, ElementOfSeq
<1>3. /\ DOMAIN Transfers[w] = 1..Len(Transfers[w]) /\ Len(Transfers[w]) \in Nat
      /\ Transfers[w] = [i \in 1..Len(Transfers[w]) |-> Transfers[w][i]]
  BY <1>1, LenProperties
<1>4. \A i \in 1..Len(Transfers[w]) : Transfers[w][i] \in Listable
  BY <1>2, <1>3, TraceAssumption DEF Listable
<1> QED BY <1>3, <1>4, IsASeq

\* A sequence's largest value is one of its values.
LEMMA LargestIsListed ==
  ASSUME NEW c \in Seq(Listable), c # <<>>
  PROVE  Largest(c) \in Nat /\ LogOf[Largest(c)] \in Nat
<1> DEFINE values == {c[i].value : i \in DOMAIN c}
           val == [i \in DOMAIN c |-> c[i].value]
<1>1. DOMAIN c = 1..Len(c) /\ Len(c) \in Nat /\ \A i \in DOMAIN c : c[i] \in Listable
  BY LenProperties, ElementOfSeq
<1>2. 1 \in DOMAIN c
  BY <1>1, EmptySeq
<1>3. val \in Surjection(DOMAIN c, values)
  BY DEF Surjection
<1>4. IsFiniteSet(DOMAIN c)
  BY <1>1, FS_Interval
<1>5. IsFiniteSet(values)
  BY <1>3, <1>4, FS_Surjection
<1>6. values \in SUBSET Nat /\ c[1].value \in values
  BY <1>1, <1>2 DEF Listable
<1>7. Cardinality(values) \in Nat /\ Cardinality(values) # 0
  BY <1>5, <1>6, FS_EmptySet, FS_CardinalityType
<1> HIDE DEF values
<1>8. PICK v \in values : Cardinality({u \in values : u <= v}) = Cardinality(values)
  <2>1. values \in SUBSET Int /\ Cardinality(values) \in 1..Cardinality(values)
    BY <1>6, <1>7
  <2> QED BY <1>5, <2>1, NumbersAreRanked, Zenon
<1>9. {u \in values : u <= v} = values
  BY <1>5, <1>8, FS_Subset
<1>10. \A u \in values : u <= v
  BY <1>9
<1>11. Largest(c) \in values
  BY <1>8, <1>10 DEF Largest, values
<1> QED BY <1>1, <1>6, <1>11 DEF values, Listable

LEMMA RankingIsSeq ==
  ASSUME NEW c \in Seq(Listable)
  PROVE  score_and_rank(c, {}, {}) \in Seq(Listable)
<1> DEFINE D == DOMAIN c
           points(i) == score(c[i], Largest(c), {}, {})
           above(i, j) == points(i) > points(j) \/ (points(i) = points(j) /\ i <= j)
           rank(i) == Cardinality({j \in D : above(j, i)})
           at(k) == CHOOSE i \in D : rank(i) = k
<1>1. D = 1..Len(c) /\ Len(c) \in Nat /\ \A i \in D : c[i] \in Listable
  BY LenProperties, ElementOfSeq
<1>2. IsFiniteSet(D) /\ Cardinality(D) = Len(c)
  BY <1>1, FS_Interval
<1>3. score_and_rank(c, {}, {}) = [k \in D |-> c[at(k)]]
  BY DEF score_and_rank
<1> HIDE DEF D
<1>4. ASSUME NEW i \in D
      PROVE  points(i) \in Int
  <2>1. LogOf[c[i].value] \in Nat /\ Decay[c[i].age] \in Nat
    BY <1>1 DEF Listable
  <2>2. LogOf[IF Largest(c) = 0 THEN 1 ELSE Largest(c)] \in Nat
    BY <1>1, LargestIsListed, EmptySeq, TraceAssumption DEF D
  <2> DEFINE logMax == LogOf[IF Largest(c) = 0 THEN 1 ELSE Largest(c)]
             recency == TraceWeights["recency"] * Decay[c[i].age]
             layers == recency + (IF c[i].with \in {} THEN 0 ELSE TraceWeights["novelty"] * 100)
                         + (IF c[i].with \in {} THEN TraceWeights["rule"] * 100 ELSE 0)
             value == TraceWeights["value"] * 100 * LogOf[c[i].value]
  <2>3. \A weight \in {"value", "recency", "novelty", "rule"} : TraceWeights[weight] \in Nat
    BY TraceAssumption
  <2>4. recency \in Int /\ value \in Int
    <3>1. TraceWeights["recency"] \in Int /\ TraceWeights["value"] \in Int
      BY <2>3
    <3>2. \A x, y \in Int : x * y \in Int
      OBVIOUS
    <3> QED BY <2>1, <3>1, <3>2
  <2>5. points(i) = value + layers * logMax
    BY DEF score
  <2> HIDE DEF recency, value
  <2>6. layers \in Int
    BY <2>3, <2>4
  <2> HIDE DEF layers, logMax, points
  <2>7. logMax \in Int
    BY <2>2 DEF logMax
  <2>8. layers * logMax \in Int
    BY <2>6, <2>7
  <2> QED BY <2>4, <2>5, <2>8
<1> HIDE DEF points
<1>5. ASSUME NEW k \in D
      PROVE  c[at(k)] \in Listable
  <2> DEFINE R == {p \in D \X D : above(p[1], p[2])}
  <2> HIDE DEF above
  <2>1. ASSUME NEW i \in D, NEW j \in D
        PROVE  <<i, j>> \in R <=> above(i, j)
    <3> DEFINE p == <<i, j>>
    <3>1. p \in D \X D /\ p[1] = i /\ p[2] = j
      BY PairsInProduct
    <3> HIDE DEF p
    <3>2. p \in R <=> above(p[1], p[2])
      BY <3>1
    <3>3. p \in R <=> above(i, j)
      BY <3>1, <3>2
    <3> QED BY <3>3 DEF p
  <2>2. /\ \A i \in D : above(i, i)
        /\ \A i, j \in D : above(i, j) \/ above(j, i)
        /\ \A i, j \in D : above(i, j) /\ above(j, i) => i = j
        /\ \A i, j, l \in D : above(i, j) /\ above(j, l) => above(i, l)
    BY <1>1, <1>4 DEF above
  <2> HIDE DEF R
  <2>3. TotalOrder(D, R)
    BY <2>1, <2>2, Zenon DEF TotalOrder
  <2>4. k \in 1..Cardinality(D)
    BY <1>1, <1>2
  <2>5. PICK i \in D : RankIn(D, R, i) = k
    BY <1>2, <2>3, <2>4, RanksAreTaken, Zenon
  <2>6. {j \in D : <<j, i>> \in R} = {j \in D : above(j, i)}
    BY <2>1
  <2>7. rank(i) = k
    BY <2>5, <2>6 DEF RankIn
  <2> HIDE DEF rank
  <2>8. at(k) \in D
    BY <2>7
  <2> HIDE DEF at
  <2> QED BY <1>1, <2>8
<1> HIDE DEF at
<1>6. [k \in D |-> c[at(k)]] \in [1..Len(c) -> Listable]
  BY <1>1, <1>5
<1> QED BY <1>1, <1>3, <1>6, IsASeq

LEMMA SeedsAreEntries ==
  ASSUME NEW strategy, NEW d \in 1..3, NEW withTx \in BOOLEAN
  PROVE  /\ Seeded(Ranked(Root, strategy, d), withTx) \in Seq(Entries)
         /\ \A i \in DOMAIN Seeded(Ranked(Root, strategy, d), withTx) :
              LET e == Seeded(Ranked(Root, strategy, d), withTx)[i]
              IN  e.depth = 1 /\ e.source = Root
<1> DEFINE c == Candidates(Root, strategy)
           ranking == score_and_rank(c, {}, {})
           ranked == Ranked(Root, strategy, d)
<1>1. Transfers[Root] \in Seq(Listable)
  BY TransfersAreListable, TraceAssumption
<1>2. c \in Seq(Listable)
  BY <1>1, PickedIsSeq DEF Candidates
<1> HIDE DEF c
<1>3. ranking \in Seq(Listable)
  BY <1>2, RankingIsSeq
<1>4. Len(ranking) \in Nat /\ TopK[d] \in Nat
  BY <1>3, LenProperties DEF TopK
<1>5. ranked = SubSeq(ranking, 1, IF Len(ranking) < TopK[d] THEN Len(ranking) ELSE TopK[d])
  BY DEF Ranked, c
<1> HIDE DEF ranking
<1>6. ranked \in Seq(Listable)
  BY <1>3, <1>4, <1>5, SubSeqProperties
<1> HIDE DEF ranked
<1>7. /\ DOMAIN ranked = 1..Len(ranked) /\ Len(ranked) \in Nat
      /\ \A i \in DOMAIN ranked : ranked[i] \in Listable
  BY <1>6, LenProperties, ElementOfSeq
<1> DEFINE entries == [i \in DOMAIN ranked |-> Entry(ranked[i].with, 1, Root, ranked[i].value)]
<1>8. entries \in [1..Len(ranked) -> Entries]
  BY <1>7, TraceAssumption DEF Entry, Entries, Listable
<1>9. entries \in Seq(Entries)
  BY <1>7, <1>8, IsASeq
<1>10. \A i \in DOMAIN entries : entries[i].depth = 1 /\ entries[i].source = Root
  BY DEF Entry
<1>11. Seeded(ranked, withTx) = entries \/ Seeded(ranked, withTx) = <<>>
  BY DEF Seeded
<1> HIDE DEF entries
<1>12. Seeded(ranked, withTx) \in Seq(Entries)
  BY <1>9, <1>11, EmptySeq
<1>13. \A i \in DOMAIN Seeded(ranked, withTx) :
         Seeded(ranked, withTx)[i].depth = 1 /\ Seeded(ranked, withTx)[i].source = Root
  BY <1>10, <1>11
<1> QED BY <1>12, <1>13, Zenon DEF ranked

-------------------------------------------------------------------------------
(* The search *)

Edges == [source: Accounts, target: Accounts, depth: Nat \ {0}]
TraceTypes == hops \in 1..3 /\ queue \in Seq(Entries) /\ edges \in Seq(Edges)

\* Who waits was reached, by one transfer less than its depth.
OnPath(e, drawn) ==
  IF e.depth = 1 THEN e.source = Root
  ELSE \E j \in DOMAIN drawn : drawn[j].target = e.source /\ drawn[j].depth = e.depth - 1
QueueFormsPaths == \A i \in DOMAIN queue : OnPath(queue[i], edges)

\* The queue holds at most two levels, the shallower one first.
Sorted(q) == \A i, j \in DOMAIN q : i <= j => q[i].depth <= q[j].depth /\ q[j].depth <= q[i].depth + 1
EdgesAreShallower == \A i \in DOMAIN edges, j \in DOMAIN queue : edges[i].depth <= queue[j].depth

TraceInv ==
  /\ TraceTypes /\ QueueFormsPaths /\ Sorted(queue) /\ EdgesAreShallower
  /\ EdgesFormPaths /\ BreadthFirst

LEMMA InitTraces == ASSUME TraceInit PROVE TraceInv
<1>1. PICK strategy \in {"FORWARD_ONLY", "BACKWARD_ONLY", "BIDIRECTIONAL"}, d \in 1..3, withTx \in BOOLEAN :
        queue = Seeded(Ranked(Root, strategy, d), withTx)
  BY DEF TraceInit
<1>2. queue \in Seq(Entries) /\ \A i \in DOMAIN queue : queue[i].depth = 1 /\ queue[i].source = Root
  BY <1>1, SeedsAreEntries
<1>3. edges = <<>> /\ hops \in 1..3
  BY TraceAssumption DEF TraceInit
<1>4. edges \in Seq(Edges) /\ DOMAIN edges = {}
  BY <1>3, EmptySeq
<1>5. Sorted(queue)
  BY <1>2 DEF Sorted
<1> QED BY <1>2, <1>3, <1>4, <1>5 DEF TraceInv, TraceTypes, QueueFormsPaths, OnPath, EdgesAreShallower,
                                     EdgesFormPaths, BreadthFirst

\* The rest of the queue is as orderly as the queue.
LEMMA RestOfQueue ==
  ASSUME TraceTypes, QueueFormsPaths, Sorted(queue), queue # <<>>
  PROVE  /\ Head(queue) \in Entries /\ OnPath(Head(queue), edges)
         /\ Tail(queue) \in Seq(Entries) /\ Sorted(Tail(queue))
         /\ \A i \in DOMAIN Tail(queue) :
              /\ OnPath(Tail(queue)[i], edges)
              /\ \E j \in DOMAIN queue : Tail(queue)[i] = queue[j]
              /\ Head(queue).depth <= Tail(queue)[i].depth
              /\ Tail(queue)[i].depth <= Head(queue).depth + 1
<1> DEFINE rest == Tail(queue)
<1>1. /\ DOMAIN queue = 1..Len(queue) /\ Len(queue) \in Nat
      /\ \A i \in 1..Len(queue) : queue[i] \in Entries
  BY LenProperties, ElementOfSeq DEF TraceTypes
<1>2. Len(queue) # 0
  BY EmptySeq DEF TraceTypes
<1>3. Head(queue) = queue[1] /\ 1 \in DOMAIN queue
  BY <1>1, <1>2
<1>4. /\ rest \in Seq(Entries) /\ Len(rest) = Len(queue) - 1
      /\ \A i \in 1..Len(rest) : rest[i] = queue[i + 1]
  BY HeadTailProperties DEF TraceTypes
<1>5. DOMAIN rest = 1..Len(rest)
  BY <1>4, LenProperties
<1> HIDE DEF rest
<1>6. \A i \in DOMAIN rest : i \in Nat /\ i + 1 \in DOMAIN queue /\ rest[i] = queue[i + 1] /\ 1 <= i + 1
  BY <1>1, <1>2, <1>4, <1>5
<1>7. Sorted(rest)
  <2>1. ASSUME NEW i \in DOMAIN rest, NEW j \in DOMAIN rest, i <= j
        PROVE  rest[i].depth <= rest[j].depth /\ rest[j].depth <= rest[i].depth + 1
    <3>1. i + 1 <= j + 1 /\ i + 1 \in DOMAIN queue /\ j + 1 \in DOMAIN queue
      BY <1>6, <2>1
    <3>2. rest[i] = queue[i + 1] /\ rest[j] = queue[j + 1]
      BY <1>6
    <3> QED BY <3>1, <3>2 DEF Sorted
  <2> QED BY <2>1 DEF Sorted
<1>8. ASSUME NEW i \in DOMAIN rest
      PROVE  /\ OnPath(rest[i], edges)
             /\ \E j \in DOMAIN queue : rest[i] = queue[j]
             /\ Head(queue).depth <= rest[i].depth
             /\ rest[i].depth <= Head(queue).depth + 1
  <2>1. i + 1 \in DOMAIN queue /\ rest[i] = queue[i + 1] /\ 1 <= i + 1
    BY <1>6
  <2> QED BY <1>3, <2>1 DEF QueueFormsPaths, Sorted
<1> QED BY <1>1, <1>3, <1>4, <1>7, <1>8 DEF rest, QueueFormsPaths

\* The wallets behind v wait one level deeper, with v as their source.
LEMMA NextHopBehind ==
  ASSUME NEW v \in Entries
  PROVE  /\ NextHop(v) \in Seq(Entries)
         /\ \A i \in DOMAIN NextHop(v) : /\ NextHop(v)[i].depth = v.depth + 1
                                         /\ NextHop(v)[i].source = v.wallet
<1> DEFINE next == Picked(Transfers[v.wallet], Others(v.wallet))
<1>1. v.wallet \in Accounts /\ v.depth \in Nat
  BY DEF Entries
<1>2. Transfers[v.wallet] \in Seq(Listable)
  BY <1>1, TransfersAreListable
<1>3. next \in Seq(Listable)
  BY <1>2, PickedIsSeq DEF Others
<1> HIDE DEF next
<1>4. DOMAIN next = 1..Len(next) /\ Len(next) \in Nat /\ \A i \in DOMAIN next : next[i] \in Listable
  BY <1>3, LenProperties, ElementOfSeq
<1> DEFINE behind == [i \in DOMAIN next |-> Entry(next[i].with, v.depth + 1, v.wallet, next[i].value)]
<1>5. NextHop(v) = behind
  BY DEF NextHop, EntriesOf, next
<1>6. behind \in [1..Len(next) -> Entries]
  BY <1>1, <1>4 DEF Entry, Entries, Listable
<1>7. behind \in Seq(Entries)
  BY <1>4, <1>6, IsASeq
<1>8. \A i \in DOMAIN behind : behind[i].depth = v.depth + 1 /\ behind[i].source = v.wallet
  BY DEF Entry
<1> QED BY <1>5, <1>7, <1>8

\* An edge to the wallet at the head of the queue extends a path and is as deep
\* as any before it.
LEMMA EdgeToHead ==
  ASSUME TraceInv, queue # <<>>, hops' = hops, Head(queue).depth <= hops,
         edges' = Append(edges, [source |-> Head(queue).source, target |-> Head(queue).wallet,
                                 depth |-> Head(queue).depth])
  PROVE  /\ edges' \in Seq(Edges) /\ EdgesFormPaths' /\ BreadthFirst'
         /\ \A i \in DOMAIN edges' : edges'[i].depth <= Head(queue).depth
         /\ \A e \in Entries : OnPath(e, edges) => OnPath(e, edges')
         /\ \E i \in DOMAIN edges' : /\ edges'[i].target = Head(queue).wallet
                                     /\ edges'[i].depth = Head(queue).depth
<1> DEFINE v == Head(queue)
           edge == [source |-> v.source, target |-> v.wallet, depth |-> v.depth]
           n == Len(edges)
<1>1. v \in Entries /\ OnPath(v, edges)
  BY RestOfQueue DEF TraceInv
<1>2. edges \in Seq(Edges) /\ DOMAIN edges = 1..n /\ n \in Nat /\ \A i \in 1..n : edges[i] \in Edges
  BY LenProperties, ElementOfSeq DEF TraceInv, TraceTypes
<1>3. edge \in Edges
  BY <1>1 DEF Edges, Entries
<1>4. \A i \in 1..n : edges[i].depth <= v.depth
  <2>1. 1 \in DOMAIN queue /\ v = queue[1]
    <3>1. DOMAIN queue = 1..Len(queue) /\ Len(queue) \in Nat /\ Len(queue) # 0
      BY LenProperties, EmptySeq DEF TraceInv, TraceTypes
    <3> QED BY <3>1
  <2> QED BY <1>2, <2>1 DEF TraceInv, EdgesAreShallower
<1> HIDE DEF v
<1>5. edges' = Append(edges, edge)
  BY DEF v
<1> HIDE DEF edge
<1>6. /\ edges' \in Seq(Edges) /\ DOMAIN edges' = 1..n + 1
      /\ \A i \in 1..n : edges'[i] = edges[i]
      /\ edges'[n + 1] = edge
  <2>1. edges' \in Seq(Edges) /\ Len(edges') = n + 1
    BY <1>2, <1>3, <1>5, AppendProperties
  <2> QED BY <1>2, <1>3, <1>5, <2>1, AppendProperties, LenProperties
<1>7. edge.depth = v.depth /\ edge.source = v.source /\ edge.target = v.wallet
  BY DEF edge
<1>8. v.depth \in Nat \ {0} /\ v.depth <= hops /\ hops \in 1..3
  BY <1>1 DEF Entries, v, TraceInv, TraceTypes
<1>9. \A i \in DOMAIN edges' : edges'[i].depth <= v.depth
  BY <1>2, <1>4, <1>6, <1>7, <1>8
<1>10. BreadthFirst'
  <2>1. ASSUME NEW i \in DOMAIN edges', NEW j \in DOMAIN edges', i < j
        PROVE  edges'[i].depth <= edges'[j].depth
    <3>1. CASE j = n + 1
      BY <1>6, <1>7, <1>9, <3>1
    <3>2. CASE j \in 1..n
      <4>1. i \in 1..n
        BY <1>2, <1>6, <2>1, <3>2
      <4> QED BY <1>2, <1>6, <2>1, <3>2, <4>1 DEF TraceInv, BreadthFirst
    <3> QED BY <1>2, <1>6, <3>1, <3>2
  <2> QED BY <2>1 DEF BreadthFirst
<1>11. EdgesFormPaths'
  <2>1. ASSUME NEW i \in DOMAIN edges'
        PROVE  /\ edges'[i].depth \in 1..hops
               /\ IF edges'[i].depth = 1 THEN edges'[i].source = Root
                  ELSE \E j \in 1..i - 1 : /\ edges'[j].target = edges'[i].source
                                           /\ edges'[j].depth = edges'[i].depth - 1
    <3>1. CASE i = n + 1
      <4>1. edges'[i].depth \in 1..hops
        BY <1>6, <1>7, <1>8, <3>1
      <4>2. CASE v.depth = 1
        BY <1>1, <1>6, <1>7, <3>1, <4>1, <4>2 DEF OnPath
      <4>3. CASE v.depth # 1
        <5>1. PICK j \in DOMAIN edges : edges[j].target = v.source /\ edges[j].depth = v.depth - 1
          BY <1>1, <4>3 DEF OnPath
        <5>2. j \in 1..i - 1 /\ edges'[j] = edges[j]
          BY <1>2, <1>6, <3>1
        <5> QED BY <1>6, <1>7, <3>1, <4>1, <4>3, <5>1, <5>2
      <4> QED BY <4>2, <4>3
    <3>2. CASE i \in 1..n
      <4>1. edges[i].depth \in 1..hops /\ edges'[i] = edges[i]
        BY <1>2, <1>6, <3>2 DEF TraceInv, EdgesFormPaths
      <4>2. \A j \in 1..i - 1 : edges'[j] = edges[j]
        BY <1>2, <1>6, <3>2
      <4> QED BY <1>2, <3>2, <4>1, <4>2 DEF TraceInv, EdgesFormPaths
    <3> QED BY <1>2, <1>6, <3>1, <3>2
  <2> QED BY <2>1 DEF EdgesFormPaths
<1>12. \A e \in Entries : OnPath(e, edges) => OnPath(e, edges')
  BY <1>2, <1>6 DEF OnPath
<1>13. n + 1 \in DOMAIN edges'
  BY <1>2, <1>6
<1> QED BY <1>6, <1>7, <1>9, <1>10, <1>11, <1>12, <1>13 DEF v

\* The queue moves on past its head, with or without the wallets behind it.
LEMMA QueueMovesOn ==
  ASSUME TraceInv, queue # <<>>, hops' = hops,
         edges' \in Seq(Edges), EdgesFormPaths', BreadthFirst',
         \A i \in DOMAIN edges' : edges'[i].depth <= Head(queue).depth,
         \A e \in Entries : OnPath(e, edges) => OnPath(e, edges'),
         \/ queue' = Tail(queue)
         \/ /\ queue' = Tail(queue) \o NextHop(Head(queue))
            /\ \E i \in DOMAIN edges' : /\ edges'[i].target = Head(queue).wallet
                                        /\ edges'[i].depth = Head(queue).depth
  PROVE  TraceInv'
<1> DEFINE v == Head(queue)
           rest == Tail(queue)
           behind == NextHop(v)
<1>1. /\ v \in Entries /\ rest \in Seq(Entries) /\ Sorted(rest)
      /\ \A i \in DOMAIN rest : OnPath(rest[i], edges) /\ v.depth <= rest[i].depth /\ rest[i].depth <= v.depth + 1
  BY RestOfQueue DEF TraceInv
<1>2. behind \in Seq(Entries) /\ \A i \in DOMAIN behind : /\ behind[i].depth = v.depth + 1
                                                         /\ behind[i].source = v.wallet
  BY <1>1, NextHopBehind
<1> HIDE DEF v, rest, behind
<1>3. DOMAIN rest = 1..Len(rest) /\ Len(rest) \in Nat /\ \A i \in DOMAIN rest : rest[i] \in Entries
  BY <1>1, LenProperties, ElementOfSeq
<1>4. DOMAIN behind = 1..Len(behind) /\ Len(behind) \in Nat /\ \A i \in DOMAIN behind : behind[i] \in Entries
  BY <1>2, LenProperties, ElementOfSeq
<1>5. v.depth \in Nat \ {0} /\ \A i \in DOMAIN edges' : edges'[i].depth \in Nat
  <2>1. \A i \in 1..Len(edges') : edges'[i] \in Edges
    BY ElementOfSeq
  <2> QED BY <1>1, <2>1, LenProperties DEF Entries, Edges
<1>6. CASE queue' = rest
  <2>1. queue' \in Seq(Entries) /\ Sorted(queue')
    BY <1>1, <1>6
  <2>2. \A i \in DOMAIN queue' : OnPath(queue'[i], edges')
    BY <1>1, <1>3, <1>6
  <2>3. \A i \in DOMAIN edges', j \in DOMAIN queue' : edges'[i].depth <= queue'[j].depth
    <3>1. \A j \in DOMAIN rest : rest[j].depth \in Nat
      BY <1>3 DEF Entries
    <3> QED BY <1>1, <1>5, <1>6, <3>1 DEF v
  <2> QED BY <2>1, <2>2, <2>3 DEF TraceInv, TraceTypes, QueueFormsPaths, EdgesAreShallower
<1>7. CASE /\ queue' = rest \o behind
           /\ \E i \in DOMAIN edges' : edges'[i].target = v.wallet /\ edges'[i].depth = v.depth
  <2> DEFINE m == Len(rest)
  <2>1. queue' \in Seq(Entries) /\ Len(queue') = m + Len(behind)
    BY <1>1, <1>2, <1>7, ConcatProperties
  <2>2. DOMAIN queue' = 1..m + Len(behind)
    BY <2>1, LenProperties
  <2>3. ASSUME NEW i \in DOMAIN queue'
        PROVE  \/ i \in DOMAIN rest /\ queue'[i] = rest[i]
               \/ i > m /\ i - m \in DOMAIN behind /\ queue'[i] = behind[i - m]
    <3>1. queue'[i] = IF i <= m THEN rest[i] ELSE behind[i - m]
      BY <1>1, <1>2, <1>7, <2>1, <2>2, ConcatProperties
    <3> QED BY <1>3, <1>4, <2>2, <3>1
  <2>4. ASSUME NEW i \in DOMAIN queue'
        PROVE  /\ OnPath(queue'[i], edges')
               /\ v.depth <= queue'[i].depth /\ queue'[i].depth <= v.depth + 1 /\ queue'[i].depth \in Nat
    <3>1. CASE i \in DOMAIN rest /\ queue'[i] = rest[i]
      BY <1>1, <1>3, <3>1 DEF Entries
    <3>2. CASE i > m /\ i - m \in DOMAIN behind /\ queue'[i] = behind[i - m]
      <4>1. queue'[i].depth = v.depth + 1 /\ queue'[i].source = v.wallet
        BY <1>2, <3>2
      <4>2. OnPath(queue'[i], edges')
        <5> DEFINE e == queue'[i]
        <5>1. e.depth = v.depth + 1 /\ e.source = v.wallet
          BY <4>1
        <5> HIDE DEF e
        <5>2. e.depth # 1 /\ e.depth - 1 = v.depth
          <6>1. v.depth \in Nat \ {0}
            BY <1>5
          <6>2. \A d \in Nat \ {0} : d + 1 # 1 /\ d + 1 - 1 = d
            OBVIOUS
          <6> QED BY <5>1, <6>1, <6>2
        <5>3. OnPath(e, edges')
          BY <1>7, <5>1, <5>2 DEF OnPath
        <5> QED BY <5>3 DEF e
      <4> QED BY <1>5, <4>1, <4>2
    <3> QED BY <2>3, <3>1, <3>2
  <2>5. ASSUME NEW i \in DOMAIN queue', NEW j \in DOMAIN queue', i <= j
        PROVE  queue'[i].depth <= queue'[j].depth /\ queue'[j].depth <= queue'[i].depth + 1
    <3>1. queue'[j].depth <= queue'[i].depth + 1
      BY <1>5, <2>4
    <3>2. CASE j \in DOMAIN rest /\ queue'[j] = rest[j]
      <4>1. i \in DOMAIN rest /\ queue'[i] = rest[i]
        BY <1>3, <2>2, <2>3, <2>5, <3>2
      <4> QED BY <1>1, <2>5, <3>1, <3>2, <4>1 DEF Sorted
    <3>3. CASE j > m /\ j - m \in DOMAIN behind /\ queue'[j] = behind[j - m]
      <4>1. queue'[j].depth = v.depth + 1
        BY <1>2, <3>3
      <4> QED BY <1>5, <2>4, <3>1, <4>1
    <3> QED BY <2>3, <3>2, <3>3
  <2>6. \A i \in DOMAIN edges', j \in DOMAIN queue' : edges'[i].depth <= queue'[j].depth
    BY <1>5, <2>4 DEF v
  <2>7. Sorted(queue')
    BY <2>5 DEF Sorted
  <2> QED BY <2>1, <2>4, <2>6, <2>7 DEF TraceInv, TraceTypes, QueueFormsPaths, EdgesAreShallower
<1> QED BY <1>6, <1>7 DEF v, rest, behind

\* A turn of the loop keeps the invariant, whatever the fetch and the pruning
\* engine answer.
LEMMA StepTraces ==
  ASSUME TraceInv, [TraceNext]_traceVars
  PROVE  TraceInv'
<1>1. CASE UNCHANGED traceVars
  BY <1>1 DEF traceVars, TraceInv, TraceTypes, QueueFormsPaths, EdgesAreShallower, EdgesFormPaths, BreadthFirst
<1>2. CASE Visit
  <2> DEFINE v == Head(queue)
  <2>1. queue # <<>> /\ hops' = hops
    BY <1>2 DEF Visit
  <2>2. ASSUME queue' = Tail(queue), edges' = edges
        PROVE  TraceInv'
    <3>1. /\ DOMAIN queue = 1..Len(queue) /\ Len(queue) \in Nat /\ Len(queue) # 0
      BY <2>1, LenProperties, EmptySeq DEF TraceInv, TraceTypes
    <3>2. 1 \in DOMAIN queue /\ v = queue[1]
      BY <3>1
    <3>3. \A i \in DOMAIN edges : edges[i].depth <= v.depth
      BY <3>2 DEF TraceInv, EdgesAreShallower
    <3>4. EdgesFormPaths' /\ BreadthFirst' /\ edges' \in Seq(Edges)
      BY <2>1, <2>2 DEF TraceInv, TraceTypes, EdgesFormPaths, BreadthFirst
    <3> QED BY <2>1, <2>2, <3>3, <3>4, QueueMovesOn
  <2>3. ASSUME NEW read \in BOOLEAN, v.depth <= hops, Follow(v, read)
        PROVE  TraceInv'
    <3> DEFINE decision == evaluate(v.wallet, v.value, read, traced \cup {Root}, Len(edges) + 1)
    <3>1. CASE Is(decision, "SKIP")
      BY <2>2, <2>3, <3>1 DEF Follow
    <3>2. CASE ~Is(decision, "SKIP")
      <4>1. /\ edges' = Append(edges, [source |-> v.source, target |-> v.wallet, depth |-> v.depth])
            /\ \/ queue' = Tail(queue)
               \/ queue' = Enqueue(Tail(queue), NextHop(v))
        BY <2>3, <3>2 DEF Follow
      <4>2. queue' = Tail(queue) \/ queue' = Tail(queue) \o NextHop(v)
        BY <4>1 DEF Enqueue
      <4>3. /\ edges' \in Seq(Edges) /\ EdgesFormPaths' /\ BreadthFirst'
            /\ \A i \in DOMAIN edges' : edges'[i].depth <= v.depth
            /\ \A e \in Entries : OnPath(e, edges) => OnPath(e, edges')
            /\ \E i \in DOMAIN edges' : edges'[i].target = v.wallet /\ edges'[i].depth = v.depth
        BY <2>1, <2>3, <4>1, EdgeToHead
      <4> QED BY <2>1, <4>2, <4>3, QueueMovesOn
    <3> QED BY <3>1, <3>2
  <2>4. CASE v.depth > hops
    BY <1>2, <2>2, <2>4 DEF Visit
  <2>5. CASE ~(v.depth > hops)
    <3>1. v.depth \in Nat /\ hops \in Nat
      BY <2>1, RestOfQueue DEF TraceInv, TraceTypes, Entries
    <3>2. Follow(v, TRUE) \/ Follow(v, FALSE)
      BY <1>2, <2>5 DEF Visit
    <3>3. v.depth <= hops
      BY <2>5, <3>1
    <3> HIDE DEF v
    <3> QED BY <2>3, <3>2, <3>3
  <2> QED BY <2>4, <2>5
<1> QED BY <1>1, <1>2 DEF TraceNext

-------------------------------------------------------------------------------
(* What is within reach *)

\* Ranks are taken once: the element of a rank is the one that has it.
LEMMA RanksDiffer ==
  ASSUME NEW I \in SUBSET Int, IsFiniteSet(I), NEW a \in I, NEW b \in I,
         Cardinality({j \in I : j <= a}) = Cardinality({j \in I : j <= b})
  PROVE  a = b
<1> DEFINE below(i) == {j \in I : j <= i}
<1>1. ASSUME NEW x \in I, NEW y \in I, x <= y, Cardinality(below(x)) = Cardinality(below(y))
      PROVE  x = y
  <2>1. below(x) \in SUBSET below(y) /\ y \in below(y) /\ below(y) \in SUBSET I
    <3>1. \A j \in I : j <= x => j <= y
      BY <1>1
    <3>2. y <= y
      BY <1>1
    <3> QED BY <3>1, <3>2
  <2>2. IsFiniteSet(below(y))
    BY <2>1, FS_Subset
  <2> HIDE DEF below
  <2>3. below(x) = below(y)
    BY <1>1, <2>1, <2>2, FS_Subset
  <2> QED BY <1>1, <2>1, <2>3 DEF below
<1>2. a <= b \/ b <= a
  OBVIOUS
<1> HIDE DEF below
<1>3. CASE a <= b
  BY <1>1, <1>3 DEF below
<1>4. CASE b <= a
  BY <1>1, <1>4 DEF below
<1> QED BY <1>2, <1>3, <1>4

\* Nothing that was to be picked is left out.
LEMMA PickedHasAll ==
  ASSUME NEW S, NEW seq \in Seq(S), NEW I \in SUBSET DOMAIN seq, NEW i \in I
  PROVE  \E k \in DOMAIN Picked(seq, I) : Picked(seq, I)[k] = seq[i]
<1> DEFINE n == Cardinality(I)
           upTo(x) == {j \in I : j <= x}
           at(k) == CHOOSE x \in I : Cardinality(upTo(x)) = k
           k == Cardinality(upTo(i))
<1>1. IsFiniteSet(I) /\ n \in Nat /\ I \in SUBSET Int
  BY IndicesAreFinite
<1>2. upTo(i) \in SUBSET I /\ i \in upTo(i)
  BY <1>1
<1>3. IsFiniteSet(upTo(i)) /\ Cardinality(upTo(i)) <= n
  BY <1>1, <1>2, FS_Subset
<1>4. k \in Nat /\ k # 0
  BY <1>2, <1>3, FS_CardinalityType, FS_EmptySet
<1>5. k \in 1..n
  BY <1>1, <1>3, <1>4
<1>6. at(k) \in I /\ Cardinality(upTo(at(k))) = Cardinality(upTo(i))
  BY Zenon
<1>7. at(k) = i
  BY <1>1, <1>6, RanksDiffer
<1>8. Picked(seq, I) = [m \in 1..n |-> seq[at(m)]]
  BY DEF Picked
<1> HIDE DEF at, n, k, upTo
<1> QED BY <1>5, <1>7, <1>8

LEMMA EveryoneWaits ==
  ASSUME NEW v \in Entries, NEW c \in WorthTracing(v.wallet)
  PROVE  \E i \in DOMAIN NextHop(v) : /\ NextHop(v)[i].wallet = c
                                     /\ NextHop(v)[i].depth = v.depth + 1
                                     /\ NextHop(v)[i].value >= MinTraceValue
<1> DEFINE w == v.wallet
           next == Picked(Transfers[w], Others(w))
<1>1. Transfers[w] \in Seq(Listable)
  BY TransfersAreListable DEF Entries
<1>2. PICK i \in Others(w) : Transfers[w][i].with = c /\ Transfers[w][i].value >= MinTraceValue
  BY DEF WorthTracing
<1>3. Others(w) \in SUBSET DOMAIN Transfers[w]
  BY DEF Others
<1>4. PICK k \in DOMAIN next : next[k] = Transfers[w][i]
  BY <1>1, <1>2, <1>3, PickedHasAll
<1> HIDE DEF next
<1>5. NextHop(v) = [j \in DOMAIN next |-> Entry(next[j].with, v.depth + 1, w, next[j].value)]
  BY DEF NextHop, EntriesOf, next
<1> QED BY <1>2, <1>4, <1>5 DEF Entry

\* All that is used of the comparison: it never takes a decision for another.
\* That it takes none for itself, as the code stands, is not used.
LEMMA IsMeans == \A d, e : Is(d, e) => d = e
BY DEF Is

\* A wallet needs no visit, is in the graph at most d transfers from the root,
\* or waits for it with more than dust.
Drawn(c, d, drawn) == \E i \in DOMAIN drawn : drawn[i].target = c /\ drawn[i].depth <= d
Waits(c, d, waiting) ==
  \E i \in DOMAIN waiting : /\ waiting[i].wallet = c /\ waiting[i].depth <= d
                           /\ waiting[i].value >= MinTraceValue
Known(c, d, drawn, waiting) == c = Root \/ Drawn(c, d, drawn) \/ Waits(c, d, waiting)

\* Followed, for a given set of wallets that could not be read.
FollowedBut(w, unread) ==
  /\ w \notin unread \cup {Root}
  /\ TypesAround(w) \cap (HaltTypes \cup SampleTypes) = {}
  /\ Cardinality(Counterparties(w)) <= MaxFanOut

\* Everyone behind an edge is known, if nothing stops the search there.
BehindKnown(e, drawn, waiting, unread) ==
  FollowedBut(e.target, unread) =>
    \A c \in WorthTracing(e.target) : Known(c, e.depth + 1, drawn, waiting)

InBudget(drawn) == Len(drawn) + 1 < MaxTraceNodes

\* Who waits is visited, who is traced is drawn, and behind a wallet in the
\* graph at which nothing stops the search everyone is known.
ReachInv ==
  /\ \A i \in DOMAIN queue : queue[i].depth <= hops
  /\ \A w \in traced : \E i \in DOMAIN edges : edges[i].target = w
  /\ InBudget(edges) => \A i \in DOMAIN edges :
       edges[i].depth < hops => BehindKnown(edges[i], edges, queue, failed)

LEMMA InitReaches == ASSUME TraceInit PROVE ReachInv
<1>1. PICK strategy \in {"FORWARD_ONLY", "BACKWARD_ONLY", "BIDIRECTIONAL"}, d \in 1..3, withTx \in BOOLEAN :
        queue = Seeded(Ranked(Root, strategy, d), withTx)
  BY DEF TraceInit
<1>2. \A i \in DOMAIN queue : queue[i].depth = 1
  BY <1>1, SeedsAreEntries
<1>3. edges = <<>> /\ traced = {} /\ hops \in 1..3
  BY TraceAssumption DEF TraceInit
<1>4. DOMAIN edges = {}
  BY <1>3
<1> QED BY <1>2, <1>3, <1>4 DEF ReachInv

\* A turn of the loop takes the head away and adds some entries at the end.
Turn(q, more) == Tail(q) \o more

LEMMA TailThenMore ==
  ASSUME NEW q \in Seq(Entries), q # <<>>, NEW more \in Seq(Entries)
  PROVE  /\ 1 \in DOMAIN q /\ Head(q) = q[1]
         /\ \A i \in DOMAIN q : i # 1 => \E j \in DOMAIN Turn(q, more) : Turn(q, more)[j] = q[i]
         /\ \A i \in DOMAIN more : \E j \in DOMAIN Turn(q, more) : Turn(q, more)[j] = more[i]
         /\ \A j \in DOMAIN Turn(q, more) : \/ \E i \in DOMAIN q : Turn(q, more)[j] = q[i]
                                           \/ \E i \in DOMAIN more : Turn(q, more)[j] = more[i]
<1> DEFINE rest == Tail(q)
           next == Turn(q, more)
           m == Len(rest)
           k == Len(more)
<1>1. Len(q) \in Nat /\ Len(q) # 0 /\ DOMAIN q = 1..Len(q)
  BY LenProperties, EmptySeq
<1>2. rest \in Seq(Entries) /\ m = Len(q) - 1 /\ \A i \in 1..m : rest[i] = q[i + 1]
  BY HeadTailProperties
<1>3. m \in Nat /\ k \in Nat /\ DOMAIN more = 1..k
  BY <1>2, LenProperties
<1>0. next = rest \o more
  BY DEF Turn
<1> HIDE DEF rest, next
<1>4. Len(next) = m + k /\ DOMAIN next = 1..m + k
  BY <1>0, <1>2, ConcatProperties, LenProperties
<1>5. \A i \in 1..m + k : next[i] = IF i <= m THEN rest[i] ELSE more[i - m]
  BY <1>0, <1>2, <1>4, ConcatProperties
<1> HIDE DEF m, k
<1>6. \A i \in 1..m : i \in 1..m + k /\ next[i] = q[i + 1]
  BY <1>2, <1>3, <1>5
<1>7. \A i \in 1..k : m + i \in 1..m + k /\ next[m + i] = more[i]
  <2>1. \A i \in 1..k : m + i \in 1..m + k /\ ~(m + i <= m) /\ (m + i) - m = i
    BY <1>3
  <2> QED BY <1>5, <2>1
<1>8. ASSUME NEW i \in DOMAIN q, i # 1 PROVE \E j \in DOMAIN next : next[j] = q[i]
  <2>1. i - 1 \in 1..m /\ (i - 1) + 1 = i
    BY <1>1, <1>2, <1>8
  <2> QED BY <1>4, <1>6, <2>1
<1>9. ASSUME NEW j \in DOMAIN next
      PROVE  (\E i \in DOMAIN q : next[j] = q[i]) \/ (\E i \in DOMAIN more : next[j] = more[i])
  <2>1. CASE j <= m
    <3>1. j \in 1..m
      BY <1>3, <1>4, <2>1
    <3>2. j + 1 \in DOMAIN q
      BY <1>1, <1>2, <3>1
    <3> QED BY <1>6, <3>1, <3>2
  <2>2. CASE ~(j <= m)
    <3>1. j - m \in 1..k /\ m + (j - m) = j
      BY <1>3, <1>4, <2>2
    <3> QED BY <1>3, <1>7, <3>1
  <2> QED BY <2>1, <2>2
<1>10. 1 \in DOMAIN q /\ Head(q) = q[1]
  BY <1>1
<1> QED BY <1>3, <1>4, <1>7, <1>8, <1>9, <1>10 DEF next

LEMMA OneMore ==
  ASSUME NEW q \in Seq(Edges), NEW e \in Edges
  PROVE  /\ Len(Append(q, e)) = Len(q) + 1 /\ Len(q) \in Nat
         /\ \A i \in DOMAIN q : i \in DOMAIN Append(q, e) /\ Append(q, e)[i] = q[i]
         /\ \A j \in DOMAIN Append(q, e) : (j \in DOMAIN q /\ Append(q, e)[j] = q[j]) \/ Append(q, e)[j] = e
         /\ \E j \in DOMAIN Append(q, e) : Append(q, e)[j] = e
<1> DEFINE n == Len(q)
           next == Append(q, e)
<1>1. n \in Nat /\ DOMAIN q = 1..n
  BY LenProperties
<1>2. next \in Seq(Edges) /\ Len(next) = n + 1
  BY AppendProperties
<1>3. DOMAIN next = 1..n + 1
  BY <1>2, LenProperties
<1>4. \A i \in 1..n : next[i] = q[i]
  BY AppendProperties
<1>5. next[n + 1] = e
  BY AppendProperties
<1> HIDE DEF n, next
<1>6. n + 1 \in 1..n + 1 /\ \A j \in 1..n + 1 : j \in 1..n \/ j = n + 1
  BY <1>1
<1>7. \A i \in 1..n : i \in 1..n + 1
  BY <1>1
<1> QED BY <1>1, <1>2, <1>3, <1>4, <1>5, <1>6, <1>7 DEF n, next

LEMMA DepthsAreNat ==
  ASSUME NEW drawn \in Seq(Edges), NEW i \in DOMAIN drawn
  PROVE  drawn[i] \in Edges /\ drawn[i].depth \in Nat
<1>1. drawn[i] \in Edges
  BY ElementOfSeq, LenProperties
<1> QED BY <1>1 DEF Edges

\* Where a wallet was known it stays known: the head of the queue was drawn, or
\* was dust, or is known otherwise.
LEMMA StaysKnown ==
  ASSUME NEW q \in Seq(Entries), q # <<>>, NEW more \in Seq(Entries),
         NEW drawn, NEW now \in Seq(Edges), \A i \in DOMAIN drawn : i \in DOMAIN now /\ now[i] = drawn[i],
         \/ q[1].value < MinTraceValue \/ q[1].wallet = Root
         \/ \E i \in DOMAIN now : now[i].target = q[1].wallet /\ now[i].depth <= q[1].depth,
         NEW c, NEW d \in Nat, Known(c, d, drawn, q)
  PROVE  Known(c, d, now, Turn(q, more))
<1> DEFINE next == Turn(q, more)
<1>1. 1 \in DOMAIN q /\ \A i \in DOMAIN q : i # 1 => \E j \in DOMAIN next : next[j] = q[i]
  BY TailThenMore
<1> HIDE DEF next
<1>2. q[1] \in Entries
  BY <1>1, ElementOfSeq, LenProperties
<1>3. q[1].depth \in Nat /\ q[1].value \in Nat /\ MinTraceValue \in Nat
  BY <1>2, TraceAssumption DEF Entries
<1>4. CASE Drawn(c, d, drawn)
  BY <1>4 DEF Drawn, Known
<1>5. CASE Waits(c, d, q)
  <2>1. PICK i \in DOMAIN q : q[i].wallet = c /\ q[i].depth <= d /\ q[i].value >= MinTraceValue
    BY <1>5 DEF Waits
  <2>2. CASE i # 1
    <3>1. PICK j \in DOMAIN next : next[j] = q[i]
      BY <1>1, <2>2
    <3> QED BY <2>1, <3>1 DEF Waits, Known, next
  <2>3. CASE i = 1
    <3>1. ~(q[1].value < MinTraceValue)
      BY <1>3, <2>1, <2>3
    <3>2. CASE c = Root
      BY <3>2 DEF Known
    <3>3. CASE c # Root
      <4>1. PICK j \in DOMAIN now : now[j].target = c /\ now[j].depth <= q[1].depth
        BY <2>1, <2>3, <3>1, <3>3
      <4>2. now[j].depth \in Nat
        BY DepthsAreNat
      <4>3. now[j].depth <= d
        BY <1>3, <2>1, <2>3, <4>1, <4>2
      <4> QED BY <4>1, <4>3 DEF Known, Drawn
    <3> QED BY <3>2, <3>3
  <2> QED BY <2>2, <2>3
<1> QED BY <1>4, <1>5 DEF Known

\* The same for everyone behind an edge; a failed fetch only takes edges away
\* behind which everyone has to be known.
LEMMA StayKnown ==
  ASSUME NEW q \in Seq(Entries), q # <<>>, NEW more \in Seq(Entries),
         NEW drawn, NEW now \in Seq(Edges), \A i \in DOMAIN drawn : i \in DOMAIN now /\ now[i] = drawn[i],
         \/ q[1].value < MinTraceValue \/ q[1].wallet = Root
         \/ \E i \in DOMAIN now : now[i].target = q[1].wallet /\ now[i].depth <= q[1].depth,
         NEW e, e.depth \in Nat, NEW unread, NEW later, unread \subseteq later,
         BehindKnown(e, drawn, q, unread)
  PROVE  BehindKnown(e, now, Turn(q, more), later)
<1> SUFFICES ASSUME FollowedBut(e.target, later), NEW c \in WorthTracing(e.target)
             PROVE  Known(c, e.depth + 1, now, Turn(q, more))
  BY DEF BehindKnown
<1>1. FollowedBut(e.target, unread)
  BY DEF FollowedBut
<1>2. Known(c, e.depth + 1, drawn, q) /\ e.depth + 1 \in Nat
  BY <1>1 DEF BehindKnown
<1> QED BY <1>2, StaysKnown

LEMMA SkipReaches ==
  ASSUME TraceInv, ReachInv, queue # <<>>, hops' = hops, failed \subseteq failed',
         queue' = Tail(queue), traced' = traced, edges' = edges,
         \/ Head(queue).wallet \in traced \cup {Root}
         \/ Head(queue).value < MinTraceValue
         \/ ~InBudget(edges)
  PROVE  ReachInv'
<1>1. queue \in Seq(Entries) /\ edges \in Seq(Edges) /\ <<>> \in Seq(Entries)
  BY EmptySeq DEF TraceInv, TraceTypes
<1>2. queue' = Turn(queue, <<>>)
  <2>1. Tail(queue) \in Seq(Entries)
    BY RestOfQueue DEF TraceInv
  <2> QED BY <2>1, ConcatEmptySeq DEF Turn
<1>3. /\ 1 \in DOMAIN queue /\ Head(queue) = queue[1]
      /\ \A j \in DOMAIN queue' : \E i \in DOMAIN queue : queue'[j] = queue[i]
  <2>1. /\ 1 \in DOMAIN queue /\ Head(queue) = queue[1]
        /\ \A j \in DOMAIN queue' : \/ \E i \in DOMAIN queue : queue'[j] = queue[i]
                                    \/ \E i \in DOMAIN << >> : queue'[j] = << >>[i]
    BY <1>1, <1>2, TailThenMore
  <2>2. DOMAIN << >> = {}
    OBVIOUS
  <2> QED BY <2>1, <2>2
<1>4. \A j \in DOMAIN queue' : queue'[j].depth <= hops'
  BY <1>3 DEF ReachInv
<1>5. \A w \in traced' : \E i \in DOMAIN edges' : edges'[i].target = w
  BY DEF ReachInv
<1>6. ASSUME InBudget(edges), NEW i \in DOMAIN edges, edges[i].depth < hops
      PROVE  BehindKnown(edges[i], edges, queue', failed')
  <2>1. BehindKnown(edges[i], edges, queue, failed)
    BY <1>6 DEF ReachInv
  <2>2. \/ queue[1].value < MinTraceValue \/ queue[1].wallet = Root
        \/ \E j \in DOMAIN edges : edges[j].target = queue[1].wallet /\ edges[j].depth <= queue[1].depth
    <3>1. CASE queue[1].wallet \in traced
      <4>1. PICK j \in DOMAIN edges : edges[j].target = queue[1].wallet
        BY <3>1 DEF ReachInv
      <4>2. edges[j].depth <= queue[1].depth
        BY <1>3, <4>1 DEF TraceInv, EdgesAreShallower
      <4> QED BY <4>1, <4>2
    <3> QED BY <1>3, <1>6, <3>1
  <2>3. edges[i].depth \in Nat
    BY <1>1, DepthsAreNat
  <2> HIDE DEF ReachInv
  <2> QED BY <1>1, <1>2, <2>1, <2>2, <2>3, StayKnown
<1> QED BY <1>4, <1>5, <1>6 DEF ReachInv

LEMMA DrawReaches ==
  ASSUME TraceInv, ReachInv, queue # <<>>, hops' = hops, failed \subseteq failed',
         edges' = Append(edges, [source |-> Head(queue).source, target |-> Head(queue).wallet,
                                 depth |-> Head(queue).depth]),
         traced' \subseteq traced \cup {Head(queue).wallet},
         NEW more \in Seq(Entries), queue' = Turn(queue, more),
         \A j \in DOMAIN more : more[j].depth <= hops,
         Head(queue).depth < hops /\ FollowedBut(Head(queue).wallet, failed') => more = NextHop(Head(queue))
  PROVE  ReachInv'
<1> DEFINE v == Head(queue)
           edge == [source |-> v.source, target |-> v.wallet, depth |-> v.depth]
<1>1. queue \in Seq(Entries) /\ edges \in Seq(Edges) /\ v \in Entries
  BY RestOfQueue DEF TraceInv, TraceTypes
<1>2. edge \in Edges /\ edge.target = v.wallet /\ edge.depth = v.depth /\ v.depth \in Nat
  BY <1>1 DEF Edges, Entries
<1>3. /\ v = queue[1]
      /\ \A i \in DOMAIN more : \E j \in DOMAIN queue' : queue'[j] = more[i]
      /\ \A j \in DOMAIN queue' : \/ \E i \in DOMAIN queue : queue'[j] = queue[i]
                                  \/ \E i \in DOMAIN more : queue'[j] = more[i]
  BY <1>1, TailThenMore
<1>4. edges' = Append(edges, edge)
  OBVIOUS
<1>5. /\ Len(edges') = Len(edges) + 1 /\ Len(edges) \in Nat
      /\ \A i \in DOMAIN edges : i \in DOMAIN edges' /\ edges'[i] = edges[i]
      /\ \A j \in DOMAIN edges' : (j \in DOMAIN edges /\ edges'[j] = edges[j]) \/ edges'[j] = edge
      /\ \E j \in DOMAIN edges' : edges'[j] = edge
  <2> HIDE DEF edge
  <2> QED BY <1>1, <1>2, <1>4, OneMore
<1>6. edges' \in Seq(Edges)
  BY <1>1, <1>2, <1>4, AppendProperties
<1>7. \A j \in DOMAIN queue' : queue'[j].depth <= hops'
  BY <1>3 DEF ReachInv
<1>8. ASSUME NEW w \in traced' PROVE \E i \in DOMAIN edges' : edges'[i].target = w
  <2>1. CASE w \in traced
    BY <1>5, <2>1 DEF ReachInv
  <2>2. CASE w = v.wallet
    BY <1>2, <1>5, <2>2
  <2> QED BY <1>8, <2>1, <2>2
<1>9. ASSUME InBudget(edges'), NEW i \in DOMAIN edges', edges'[i].depth < hops
      PROVE  BehindKnown(edges'[i], edges', queue', failed')
  <2>1. CASE i \in DOMAIN edges /\ edges'[i] = edges[i]
    <3>1. InBudget(edges)
      BY <1>5, <1>9, TraceAssumption DEF InBudget
    <3>2. BehindKnown(edges[i], edges, queue, failed)
      BY <1>9, <2>1, <3>1 DEF ReachInv
    <3>3. edges[i].depth \in Nat
      BY <1>1, <2>1, DepthsAreNat
    <3>4. \E j \in DOMAIN edges' : edges'[j].target = queue[1].wallet /\ edges'[j].depth <= queue[1].depth
      BY <1>2, <1>3, <1>5
    <3>5. BehindKnown(edges[i], edges', queue', failed')
      BY <1>1, <1>5, <1>6, <3>2, <3>3, <3>4, StayKnown
    <3> QED BY <2>1, <3>5
  <2>2. CASE edges'[i] = edge
    <3> SUFFICES ASSUME FollowedBut(v.wallet, failed'), NEW c \in WorthTracing(v.wallet)
                 PROVE  Known(c, v.depth + 1, edges', queue')
      BY <1>2, <2>2 DEF BehindKnown
    <3>1. more = NextHop(v)
      BY <1>2, <1>9, <2>2
    <3>2. PICK k \in DOMAIN more : more[k].wallet = c /\ more[k].depth = v.depth + 1
                                   /\ more[k].value >= MinTraceValue
      BY <1>1, <3>1, EveryoneWaits
    <3>3. PICK j \in DOMAIN queue' : queue'[j] = more[k]
      BY <1>3, <3>2
    <3>4. queue'[j].wallet = c /\ queue'[j].depth <= v.depth + 1 /\ queue'[j].value >= MinTraceValue
      BY <1>2, <3>2, <3>3
    <3> QED BY <3>4 DEF Known, Waits
  <2> QED BY <1>5, <2>1, <2>2
<1> QED BY <1>7, <1>8, <1>9 DEF ReachInv

\* The decision on a wallet at which nothing stops the search is not to halt.
LEMMA FollowedIsNotHalted ==
  ASSUME NEW w, TypesAround(w) \cap HaltTypes = {}, NEW value, NEW read, NEW seen, NEW nodes
  PROVE  evaluate(w, value, read, seen, nodes) # "HALT"
BY DEF evaluate

LEMMA FollowReaches ==
  ASSUME TraceInv, ReachInv, queue # <<>>, hops' = hops, failed \subseteq failed',
         Head(queue).depth <= hops, NEW read \in BOOLEAN, Follow(Head(queue), read),
         ~read => Head(queue).wallet \in failed'
  PROVE  ReachInv'
<1> DEFINE v == Head(queue)
           decision == evaluate(v.wallet, v.value, read, traced \cup {Root}, Len(edges) + 1)
           on == ~Is(decision, "HALT") /\ read /\ v.depth < hops
<1>1. v \in Entries /\ Tail(queue) \in Seq(Entries)
  BY RestOfQueue DEF TraceInv
<1>2. CASE Is(decision, "SKIP")
  <2>1. queue' = Tail(queue) /\ traced' = traced /\ edges' = edges
    BY <1>2 DEF Follow
  <2>2. decision = "SKIP"
    BY <1>2, IsMeans
  <2>3. v.wallet \in traced \cup {Root} \/ v.value < MinTraceValue \/ Len(edges) + 1 >= MaxTraceNodes
    BY <2>2 DEF evaluate
  <2>4. Len(edges) \in Nat /\ MaxTraceNodes \in Nat
    BY LenProperties, TraceAssumption DEF TraceInv, TraceTypes
  <2>5. Len(edges) + 1 >= MaxTraceNodes => ~InBudget(edges)
    BY <2>4 DEF InBudget
  <2> QED BY <2>1, <2>3, <2>5, SkipReaches
<1>3. CASE ~Is(decision, "SKIP")
  <2>1. /\ edges' = Append(edges, [source |-> v.source, target |-> v.wallet, depth |-> v.depth])
        /\ traced' \subseteq traced \cup {v.wallet}
        /\ queue' = IF on THEN Tail(queue) \o NextHop(v) ELSE Tail(queue)
    BY <1>3 DEF Follow, Enqueue
  <2> DEFINE more == IF on THEN NextHop(v) ELSE <<>>
  <2>2. /\ NextHop(v) \in Seq(Entries)
        /\ \A j \in DOMAIN NextHop(v) : NextHop(v)[j].depth = v.depth + 1
        /\ <<>> \in Seq(Entries) /\ DOMAIN << >> = {}
    BY <1>1, NextHopBehind, EmptySeq
  <2>3. hops \in Nat /\ v.depth \in Nat
    BY <1>1 DEF TraceInv, TraceTypes, Entries
  <2>4. more \in Seq(Entries) /\ \A j \in DOMAIN more : more[j].depth <= hops
    BY <2>2, <2>3
  <2>5. queue' = Turn(queue, more)
    BY <1>1, <2>1, ConcatEmptySeq DEF Turn
  <2>6. ASSUME v.depth < hops, FollowedBut(v.wallet, failed') PROVE more = NextHop(v)
    <3>1. read
      BY <2>6 DEF FollowedBut
    <3>2. TypesAround(v.wallet) \cap HaltTypes = {}
      BY <2>6 DEF FollowedBut
    <3>3. ~Is(decision, "HALT")
      BY <3>2, FollowedIsNotHalted, IsMeans
    <3> QED BY <2>6, <3>1, <3>3
  <2> HIDE DEF more, on, decision
  <2> QED BY <2>1, <2>4, <2>5, <2>6, DrawReaches
<1> QED BY <1>2, <1>3

LEMMA StepReaches ==
  ASSUME TraceInv, ReachInv, [TraceNext]_traceVars
  PROVE  ReachInv'
<1>1. CASE UNCHANGED traceVars
  BY <1>1 DEF traceVars, ReachInv
<1>2. CASE Visit
  <2> DEFINE v == Head(queue)
  <2>1. queue # <<>> /\ hops' = hops
    BY <1>2 DEF Visit
  <2>2. v \in Entries
    BY <2>1, RestOfQueue DEF TraceInv
  <2>3. v.depth <= hops
    <3>1. DOMAIN queue = 1..Len(queue) /\ Len(queue) \in Nat /\ Len(queue) # 0
      BY <2>1, LenProperties, EmptySeq DEF TraceInv, TraceTypes
    <3>2. 1 \in DOMAIN queue /\ v = queue[1]
      BY <3>1
    <3> QED BY <3>2 DEF ReachInv
  <2>4. ~(v.depth > hops)
    BY <2>2, <2>3 DEF TraceInv, TraceTypes, Entries
  <2>5. \/ Follow(v, TRUE) /\ failed' = failed
        \/ Follow(v, FALSE) /\ failed' = failed \cup {v.wallet}
    BY <1>2, <2>4 DEF Visit
  <2> QED BY <2>1, <2>3, <2>5, FollowReaches
<1> QED BY <1>1, <1>2 DEF TraceNext

\* At most three hops: the recursion can be written out.
LEMMA ReachedByHops ==
  ASSUME hops \in 1..3, NEW d \in 1..hops
  PROVE  reached[d] = IF d = 1 THEN {edges[i].target : i \in {j \in DOMAIN edges : edges[j].depth = 1}}
                      ELSE UNION {WorthTracing(w) : w \in {x \in reached[d - 1] : Followed(x)}}
<1> DEFINE first == {edges[i].target : i \in {j \in DOMAIN edges : edges[j].depth = 1}}
           around(ws) == UNION {WorthTracing(w) : w \in {x \in ws : Followed(x)}}
           out == [k \in 1..hops |-> IF k = 1 THEN first ELSE IF k = 2 THEN around(first)
                                     ELSE around(around(first))]
           Good(g) == g = [k \in 1..hops |-> IF k = 1 THEN first ELSE around(g[k - 1])]
<1>1. reached = CHOOSE g : Good(g)
  BY DEF reached
<1> HIDE DEF first, around
<1>2. Good(out)
  <2>1. \A k \in 1..hops : k = 1 \/ k = 2 \/ k = 3
    OBVIOUS
  <2>2. \A k \in 1..hops : (k = 2 => out[k - 1] = first) /\ (k = 3 => out[k - 1] = around(first))
    OBVIOUS
  <2> QED BY <2>1, <2>2
<1> HIDE DEF out
<1>3. Good(reached)
  <2> HIDE DEF Good
  <2> QED BY <1>1, <1>2
<1>4. reached[d] = IF d = 1 THEN first ELSE around(reached[d - 1])
  BY <1>3
<1> QED BY <1>4 DEF first, around

LEMMA ReachImplies == TraceInv /\ ReachInv => ReachIsTraced
<1> SUFFICES ASSUME TraceInv, ReachInv, queue = <<>>, InBudget(edges)
             PROVE  \A d \in 1..hops : reached[d] \ {Root} \subseteq {edges[i].target : i \in DOMAIN edges}
  BY DEF ReachIsTraced, InBudget
<1> DEFINE In(d) == \A c \in reached[d] : c = Root \/ Drawn(c, d, edges)
<1>1. hops \in 1..3 /\ DOMAIN queue = {} /\ edges \in Seq(Edges)
  BY DEF TraceInv, TraceTypes
<1>2. \A i \in DOMAIN edges : edges[i].depth \in Nat
  BY <1>1, DepthsAreNat
<1>3. 1 \in 1..hops /\ In(1)
  <2>1. 1 \in 1..hops
    BY <1>1
  <2>2. reached[1] = {edges[i].target : i \in {j \in DOMAIN edges : edges[j].depth = 1}}
    BY <1>1, <2>1, ReachedByHops
  <2> QED BY <2>1, <2>2 DEF Drawn
<1>4. ASSUME NEW d \in 1..hops, d # 1, In(d - 1)
      PROVE  In(d)
  <2> SUFFICES ASSUME NEW c \in reached[d] PROVE c = Root \/ Drawn(c, d, edges)
    OBVIOUS
  <2>1. PICK w \in reached[d - 1] : Followed(w) /\ c \in WorthTracing(w)
    <3>1. reached[d] = UNION {WorthTracing(w) : w \in {x \in reached[d - 1] : Followed(x)}}
      BY <1>1, <1>4, ReachedByHops
    <3> QED BY <3>1
  <2>2. Drawn(w, d - 1, edges)
    BY <1>4, <2>1 DEF Followed
  <2>3. PICK i \in DOMAIN edges : edges[i].depth <= d - 1 /\ edges[i].target = w
    BY <2>2 DEF Drawn
  <2>4. edges[i].depth < hops /\ edges[i].depth + 1 <= d /\ edges[i].depth \in Nat /\ d \in Nat
    BY <1>1, <1>2, <2>3
  <2>5. Known(c, edges[i].depth + 1, edges, queue)
    BY <2>1, <2>3, <2>4 DEF ReachInv, BehindKnown, FollowedBut, Followed
  <2>6. CASE Drawn(c, edges[i].depth + 1, edges)
    <3>1. PICK j \in DOMAIN edges : edges[j].target = c /\ edges[j].depth <= edges[i].depth + 1
      BY <2>6 DEF Drawn
    <3>2. edges[j].depth <= d
      BY <1>2, <2>4, <3>1
    <3> QED BY <3>1, <3>2 DEF Drawn
  <2> QED BY <1>1, <2>5, <2>6 DEF Known, Waits
<1>5. ASSUME NEW d \in 1..hops PROVE In(d)
  <2> HIDE DEF In
  <2>1. 2 \in 1..hops => In(2)
    BY <1>3, <1>4
  <2>2. 3 \in 1..hops => 2 \in 1..hops /\ In(3)
    BY <1>1, <1>4, <2>1
  <2> QED BY <1>1, <1>3, <2>1, <2>2
<1> QED BY <1>5 DEF Drawn

-------------------------------------------------------------------------------
(* The theorems *)

LEMMA TracesHold == TraceSpec => []TraceInv
<1>1. TraceInit => TraceInv
  BY InitTraces
<1>2. TraceInv /\ [TraceNext]_traceVars => TraceInv'
  BY StepTraces
<1> QED BY <1>1, <1>2, PTL DEF TraceSpec

\* Whatever the transfers and whichever fetches fail, each edge the tracer draws
\* continues a path of transfers from the root, within the hops asked for.
THEOREM TracedEdgesArePaths == TraceSpec => []EdgesFormPaths
<1>1. TraceInv => EdgesFormPaths
  BY DEF TraceInv
<1> QED BY <1>1, TracesHold, PTL

\* Depth D is drawn before D + 1 (tracing_engine.py:22), although every visit
\* appends the wallets behind it to the one queue.
THEOREM ShallowFirst == TraceSpec => []BreadthFirst
<1>1. TraceInv => BreadthFirst
  BY DEF TraceInv
<1> QED BY <1>1, TracesHold, PTL

\* When the search ends within the node budget, everyone is in the graph who is
\* within reach of the first hop by wallets and transfers at which nothing stops
\* the search.  Of the pruning decisions it is used that they are taken for no
\* other (IsMeans) and what evaluate lets a skip mean; whether they take effect,
\* which as the code stands they do not, is not used.
THEOREM ReachIsDrawn == TraceSpec => []ReachIsTraced
<1>1. TraceInit => TraceInv /\ ReachInv
  BY InitTraces, InitReaches
<1>2. TraceInv /\ ReachInv /\ [TraceNext]_traceVars => TraceInv' /\ ReachInv'
  BY StepTraces, StepReaches
<1> QED BY <1>1, <1>2, ReachImplies, PTL DEF TraceSpec
===============================================================================
