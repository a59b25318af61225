--------------------------- MODULE Bmemory_proofs ---------------------------
(***************************************************************************)
(* Proofs about Bmemory, for every size of the blocks and every number of  *)
(* them: the lists are ordered and complete, no unit is lost or handed out *)
(* twice, and a pool is an Allocator.                                      *)
(*                                                                         *)
(* The links are reasoned about as the lists they make.  That Follow       *)
(* returns such a list is shown by induction, as the absence of a least    *)
(* counterexample.                                                         *)
(***************************************************************************)
EXTENDS Bmemory, SequenceTheorems, FiniteSetTheorems, WellFoundedInduction, TLAPS

-----------------------------------------------------------------------------
\* A set of naturals that is not empty has a least element.  Induction: the
\* least counterexample there could be is none.
LEMMA LeastNat ==
  ASSUME NEW T \in SUBSET Nat, T # {}
  PROVE  \E x \in T : \A y \in T : x <= y
<1> DEFINE R == OpToRel(<, Nat)
<1>1. IsWellFoundedOn(R, Nat)
  BY NatLessThanWellFounded
<1>2. \A x, y \in Nat : <<y, x>> \in R <=> y < x
  BY DEF OpToRel
<1> HIDE DEF R
<1>3. PICK x \in T : \A y \in T : ~(<<y, x>> \in R)
  BY <1>1, WFMin
<1>4. ASSUME NEW y \in T
      PROVE  x <= y
  <2>1. x \in Nat /\ y \in Nat
    OBVIOUS
  <2>2. ~(y < x)
    BY <1>2, <1>3, <2>1, Zenon
  <2>3. QED
    BY <2>1, <2>2
<1>5. QED
  BY <1>4

\* Min, for the sets the model takes it of.
LEMMA MinOf ==
  ASSUME NEW T \in SUBSET Nat, T # {}
  PROVE  Min(T) \in T /\ \A y \in T : Min(T) <= y
<1>1. \E x \in T : \A y \in T : x <= y
  BY LeastNat
<1>2. QED
  BY <1>1 DEF Min

-----------------------------------------------------------------------------
Link == Unit \cup {NULL}

\* The units are those of the blocks, finitely many.
LEMMA UnitFacts ==
  /\ \A b \in 1..MaxBlock : BlockSize(b) \in Nat /\ BlockSize(b) > 0
  /\ \A u : u \in Unit <=> /\ u = <<u[1], u[2]>>
                           /\ u[1] \in 1..MaxBlock
                           /\ u[2] \in 0..(BlockSize(u[1]) - 1)
  /\ NULL \notin Unit
  /\ IsFiniteSet(Unit) /\ Cardinality(Unit) \in Nat
<1>1. \A b \in 1..MaxBlock : BlockSize(b) \in Nat /\ BlockSize(b) > 0
  BY BmemoryAssumption DEF BlockSize
<1>2. \A u : u \in Unit <=> \E b \in 1..MaxBlock : \E i \in 0..(BlockSize(b) - 1) : u = <<b, i>>
  BY DEF Unit, UnitsOf
<1>3. NULL \notin Unit
  BY <1>2, BmemoryAssumption DEF NULL
<1>4. IsFiniteSet(Unit)
  <2> DEFINE A == 1..MaxBlock
             B == 0..(UnitCount + Step)
  <2>1. IsFiniteSet(A) /\ IsFiniteSet(B)
    BY BmemoryAssumption, FS_Interval
  <2>2. IsFiniteSet(A \X B)
    BY <2>1, FS_Product
  <2>3. ASSUME NEW b \in 1..MaxBlock, NEW i \in 0..(BlockSize(b) - 1)
        PROVE  <<b, i>> \in A \X B
    BY <1>1, BmemoryAssumption DEF BlockSize
  <2>4. Unit \in SUBSET (A \X B)
    BY <1>2, <2>3
  <2>5. QED
    BY <2>2, <2>4, FS_Subset
<1>5. \A u : u \in Unit <=> /\ u = <<u[1], u[2]>>
                           /\ u[1] \in 1..MaxBlock
                           /\ u[2] \in 0..(BlockSize(u[1]) - 1)
  BY <1>2
<1>6. QED
  BY <1>1, <1>3, <1>4, <1>5, FS_CardinalityType

-----------------------------------------------------------------------------
(***************************************************************************)
(* Follow, first as the function it is the value of and then as the list   *)
(* it returns.                                                             *)
(***************************************************************************)
\* What the recursion says of from, up to m.
IsWalk(from, links, m) ==
  from = [n \in 0..m |->
           [u \in Unit \cup {NULL} |->
              IF u = NULL \/ n = 0 THEN <<>> ELSE <<u>> \o from[n - 1][links[u]]]]

\* The recursion defines a function.
LEMMA WalkExists ==
  ASSUME NEW links \in [Unit -> Link]
  PROVE  \A m \in Nat : \E from : IsWalk(from, links, m)
<1> DEFINE T == {m \in Nat : ~ \E from : IsWalk(from, links, m)}
<1> SUFFICES ASSUME T # {} PROVE FALSE
  OBVIOUS
<1>1. PICK m \in T : \A y \in T : m <= y
  BY LeastNat
<1>2. CASE m = 0
  <2>1. IsWalk([n \in 0..0 |-> [u \in Unit \cup {NULL} |-> <<>>]], links, 0)
    BY DEF IsWalk
  <2>2. QED
    BY <1>1, <1>2, <2>1
<1>3. CASE m # 0
  <2>1. m \in Nat /\ m - 1 \in Nat /\ m - 1 \notin T
    BY <1>1, <1>3
  <2>2. PICK g : IsWalk(g, links, m - 1)
    BY <2>1
  <2> DEFINE f == [n \in 0..m |->
           [u \in Unit \cup {NULL} |->
              IF u = NULL \/ n = 0 THEN <<>> ELSE <<u>> \o g[n - 1][links[u]]]]
  <2>3. \A n \in 0..(m - 1) : f[n] = g[n]
    <3> SUFFICES ASSUME NEW n \in 0..(m - 1)
                 PROVE  f[n] = g[n]
      OBVIOUS
    <3>1. n \in 0..m
      BY <2>1
    <3>2. f[n] = [u \in Unit \cup {NULL} |->
              IF u = NULL \/ n = 0 THEN <<>> ELSE <<u>> \o g[n - 1][links[u]]]
      BY <3>1, Zenon
    <3>3. g[n] = [u \in Unit \cup {NULL} |->
              IF u = NULL \/ n = 0 THEN <<>> ELSE <<u>> \o g[n - 1][links[u]]]
      BY <2>2, Zenon DEF IsWalk
    <3>4. QED
      BY <3>2, <3>3, Zenon
  <2>4. \A n \in 0..m : n # 0 => n - 1 \in 0..(m - 1)
    BY <2>1
  <2>5. IsWalk(f, links, m)
    BY <2>3, <2>4, Zenon DEF IsWalk
  <2>6. QED
    BY <1>1, <2>5
<1>4. QED
  BY <1>2, <1>3

\* Follow returns what that function has for the most steps there may be.
LEMMA FollowWalks ==
  ASSUME NEW links \in [Unit -> Link]
  PROVE  \E from : /\ IsWalk(from, links, Cardinality(Unit))
                   /\ \A head \in Link : Follow(head, links) = from[Cardinality(Unit)][head]
<1> DEFINE from == CHOOSE from : IsWalk(from, links, Cardinality(Unit))
<1>1. Cardinality(Unit) \in Nat
  BY UnitFacts
<1>2. IsWalk(from, links, Cardinality(Unit))
  BY <1>1, WalkExists, Zenon
<1>3. \A head \in Link : Follow(head, links) = from[Cardinality(Unit)][head]
  BY Zenon DEF Follow, IsWalk
<1>4. QED
  BY <1>2, <1>3

\* The list is what head and the links lead to, from its first unit to its
\* last, and the back links lead back; no unit is met twice.
At(list, i) == IF i \in 1..Len(list) THEN list[i] ELSE NULL

IsChain(list, head, links, back) ==
  /\ list \in Seq(Unit)
  /\ head = At(list, 1)
  /\ \A i \in 1..Len(list) : links[list[i]] = At(list, i + 1)
  /\ \A i \in 1..Len(list) : back[list[i]] = At(list, i - 1)
  /\ \A i, j \in 1..Len(list) : list[i] = list[j] => i = j

\* A list is no longer than there are units, as it meets none twice.
LEMMA ChainLength ==
  ASSUME NEW head, NEW links, NEW back, NEW list, IsChain(list, head, links, back)
  PROVE  Len(list) \in Nat /\ Len(list) <= Cardinality(Unit)
<1> DEFINE L == Len(list)
<1>1. list \in Seq(Unit) /\ L \in Nat
  BY DEF IsChain
<1>2. list \in [1..L -> Unit]
  BY <1>1
<1>3. list \in Injection(1..L, Unit)
  BY <1>2 DEF IsChain, Injection, IsInjective
<1>4. IsFiniteSet(Unit) /\ Cardinality(1..L) = L
  <2> HIDE DEF L
  <2>1. 1 \in Int /\ L \in Int
    BY <1>1
  <2>2. Cardinality(1..L) = IF 1 > L THEN 0 ELSE L - 1 + 1
    BY <2>1, FS_Interval
  <2>3. QED
    BY <1>1, <2>2, UnitFacts
<1>5. Cardinality(1..L) <= Cardinality(Unit)
  BY <1>3, <1>4, FS_Injection
<1>6. QED
  BY <1>1, <1>4, <1>5

\* The part of the list from the j-th unit before its end on.
LEMMA ChainRest ==
  ASSUME NEW head, NEW links, NEW back, NEW list, IsChain(list, head, links, back),
         NEW j \in 1..Len(list)
  PROVE  LET m == Len(list) - j + 1
         IN  /\ At(list, m) \in Unit
             /\ links[At(list, m)] = At(list, m + 1)
             /\ SubSeq(list, m, Len(list)) = <<At(list, m)>> \o SubSeq(list, m + 1, Len(list))
<1> DEFINE L == Len(list)
           m == L - j + 1
<1>1. list \in Seq(Unit) /\ L \in Nat
  BY DEF IsChain
<1>2. m \in 1..L /\ L \in m..L
  BY <1>1
<1> HIDE DEF m
<1>3. At(list, m) = list[m] /\ list[m] \in Unit
  BY <1>1, <1>2 DEF At
<1>4. links[list[m]] = At(list, m + 1)
  BY <1>2 DEF IsChain
<1>5. SubSeq(list, m, L) = <<list[m]>> \o SubSeq(list, m + 1, L)
  BY <1>1, <1>2, SubSeqRecursiveFirst
<1>6. QED
  BY <1>3, <1>4, <1>5 DEF m

\* Follow returns the list that the links make.
LEMMA FollowChain ==
  ASSUME NEW links \in [Unit -> Link], NEW back, NEW head, NEW list,
         IsChain(list, head, links, back)
  PROVE  Follow(head, links) = list
<1> DEFINE N == Cardinality(Unit)
           L == Len(list)
           at(j)   == At(list, L - j + 1)
           rest(j) == SubSeq(list, L - j + 1, L)
<1>0. L \in Nat /\ N \in Nat /\ L <= N /\ list \in Seq(Unit)
  <2>1. N \in Nat
    BY UnitFacts
  <2>2. list \in Seq(Unit)
    BY DEF IsChain
  <2>3. L \in Nat /\ L <= N
    BY ChainLength
  <2>4. QED
    BY <2>1, <2>2, <2>3
<1>1. PICK from : /\ IsWalk(from, links, N)
                  /\ \A h \in Link : Follow(h, links) = from[N][h]
  BY FollowWalks
<1>2. at(0) = NULL /\ rest(0) = <<>>
  <2>1. L - 0 + 1 = L + 1 /\ L + 1 \notin 1..L
    BY <1>0
  <2>2. SubSeq(list, L + 1, L) = <<>>
    BY <1>0, SubSeqEmpty
  <2>3. QED
    BY <2>1, <2>2 DEF At
<1>3. \A j \in 1..L : /\ at(j) \in Unit
                      /\ links[at(j)] = at(j - 1)
                      /\ rest(j) = <<at(j)>> \o rest(j - 1)
  <2> SUFFICES ASSUME NEW j \in 1..L
               PROVE  /\ at(j) \in Unit
                      /\ links[at(j)] = at(j - 1)
                      /\ rest(j) = <<at(j)>> \o rest(j - 1)
    OBVIOUS
  <2>1. L - j + 1 + 1 = L - (j - 1) + 1
    BY <1>0
  <2>2. QED
    BY <2>1, ChainRest
<1>4. at(L) = head /\ head \in Link /\ rest(L) = list
  <2>1. L - L + 1 = 1
    BY <1>0
  <2>2. head = At(list, 1) /\ SubSeq(list, 1, L) = list
    BY <1>0, SubSeqFull DEF IsChain
  <2>3. head \in Link
    BY <1>0, <2>2 DEF At, Link
  <2>4. QED
    BY <2>1, <2>2, <2>3
<1>5. \A n \in 0..N, u \in Link :
        from[n][u] = IF u = NULL \/ n = 0 THEN <<>> ELSE <<u>> \o from[n - 1][links[u]]
  <2>1. IsWalk(from, links, N)
    BY <1>1
  <2> HIDE DEF N
  <2> SUFFICES ASSUME NEW n \in 0..N, NEW u \in Link
               PROVE  from[n][u] = IF u = NULL \/ n = 0 THEN <<>>
                                   ELSE <<u>> \o from[n - 1][links[u]]
    BY Zenon
  <2>2. from[n] = [v \in Link |->
                     IF v = NULL \/ n = 0 THEN <<>> ELSE <<v>> \o from[n - 1][links[v]]]
    BY <2>1, Zenon DEF IsWalk, Link
  <2>3. QED
    BY <2>2, Zenon
<1> HIDE DEF N, L, at, rest
<1> DEFINE Good(j) == \A n \in j..N : from[n][at(j)] = rest(j)
           T == {j \in 0..L : ~Good(j)}
<1>6. T = {}
  <2> SUFFICES ASSUME T # {} PROVE FALSE
    OBVIOUS
  <2> HIDE DEF Good
  <2>1. T \in SUBSET Nat
    BY <1>0
  <2>2. PICK j \in T : \A y \in T : j <= y
    BY <2>1, LeastNat
  <2>3. j \in 0..L /\ ~Good(j)
    OBVIOUS
  <2>4. CASE j = 0
    <3>1. NULL \in Link
      BY DEF Link
    <3>2. \A n \in 0..N : from[n][NULL] = <<>>
      BY <1>5, <3>1
    <3>3. QED
      BY <1>2, <2>3, <2>4, <3>2 DEF Good
  <2>5. CASE j # 0
    <3>1. j \in 1..L /\ j - 1 \in 0..L /\ ~(j <= j - 1)
      BY <1>0, <2>3, <2>5
    <3>2. Good(j - 1)
      BY <2>2, <3>1
    <3>3. ASSUME NEW n \in j..N
          PROVE  from[n][at(j)] = rest(j)
      <4>1. n \in 0..N /\ n # 0 /\ n - 1 \in (j - 1)..N
        BY <1>0, <2>3, <2>5
      <4>2. from[n - 1][at(j - 1)] = rest(j - 1)
        BY <3>2, <4>1 DEF Good
      <4>3. at(j) \in Link /\ at(j) # NULL
        BY <1>3, <3>1, UnitFacts DEF Link
      <4>4. from[n][at(j)] = <<at(j)>> \o from[n - 1][links[at(j)]]
        BY <1>5, <4>1, <4>3
      <4>5. QED
        BY <1>3, <3>1, <4>2, <4>4
    <3>4. QED
      BY <2>3, <3>3 DEF Good
  <2>6. QED
    BY <2>4, <2>5
<1>7. from[N][at(L)] = rest(L)
  <2>1. L \in 0..L /\ N \in L..N
    BY <1>0
  <2>2. QED
    BY <1>6, <2>1
<1>8. QED
  BY <1>1, <1>4, <1>7

-----------------------------------------------------------------------------
(***************************************************************************)
(* What happens to the list when the links change elsewhere, when a unit   *)
(* is taken out, when one is put between two others, and when one takes    *)
(* the place of another.                                                   *)
(***************************************************************************)
\* Units that are not in the list do not matter to it.
LEMMA ChainElsewhere ==
  ASSUME NEW list, NEW head, NEW links, NEW back, IsChain(list, head, links, back),
         NEW fwd, NEW bwd,
         \A i \in 1..Len(list) : fwd[list[i]] = links[list[i]] /\ bwd[list[i]] = back[list[i]]
  PROVE  IsChain(list, head, fwd, bwd)
BY DEF IsChain

Without(list, p) == [i \in 1..(Len(list) - 1) |-> IF i < p THEN list[i] ELSE list[i + 1]]

\* The neighbours of the p-th unit pass over it.
PassedOver(list, p, head, links, back, start, fwd, bwd) ==
  /\ IsChain(list, head, links, back)
  /\ p \in 1..Len(list)
  /\ start = IF p = 1 THEN At(list, 2) ELSE head
  /\ \A i \in 1..Len(list) : i # p =>
       /\ fwd[list[i]] = IF i = p - 1 THEN At(list, p + 1) ELSE links[list[i]]
       /\ bwd[list[i]] = IF i = p + 1 THEN At(list, p - 1) ELSE back[list[i]]

\* A list is shorter by the unit its neighbours pass over.
LEMMA ChainWithout ==
  ASSUME NEW list, NEW p, NEW head, NEW links, NEW back, NEW start, NEW fwd, NEW bwd,
         PassedOver(list, p, head, links, back, start, fwd, bwd)
  PROVE  /\ IsChain(Without(list, p), start, fwd, bwd)
         /\ Len(Without(list, p)) = Len(list) - 1
         /\ \A i \in 1..(Len(list) - 1) :
              Without(list, p)[i] = list[IF i < p THEN i ELSE i + 1]
         /\ Members(Without(list, p)) = Members(list) \ {list[p]}
<1> DEFINE L == Len(list)
           t == Without(list, p)
           S(i) == IF i < p THEN i ELSE i + 1
<1>0. /\ IsChain(list, head, links, back)
      /\ p \in 1..L
      /\ start = IF p = 1 THEN At(list, 2) ELSE head
      /\ \A i \in 1..L : i # p =>
           /\ fwd[list[i]] = IF i = p - 1 THEN At(list, p + 1) ELSE links[list[i]]
           /\ bwd[list[i]] = IF i = p + 1 THEN At(list, p - 1) ELSE back[list[i]]
  BY DEF PassedOver
<1>1. /\ list \in Seq(Unit) /\ L \in Nat /\ p \in Nat /\ L - 1 \in Nat
      /\ head = At(list, 1)
      /\ \A i \in 1..L : links[list[i]] = At(list, i + 1) /\ back[list[i]] = At(list, i - 1)
      /\ \A i, j \in 1..L : list[i] = list[j] => i = j
  BY <1>0 DEF IsChain
<1>2. \A i \in 1..(L - 1) : S(i) \in 1..L /\ S(i) # p
  BY <1>1
<1>3. /\ t \in Seq(Unit) /\ Len(t) = L - 1 /\ DOMAIN t = 1..(L - 1)
      /\ \A i \in 1..(L - 1) : t[i] = list[S(i)]
  <2>1. \A i \in 1..(L - 1) : i + 1 \in 1..L /\ i \in 1..L
    BY <1>1
  <2>2. t \in [1..(L - 1) -> Unit]
    BY <1>1, <2>1 DEF Without
  <2>3. \A i \in 1..(L - 1) : t[i] = list[S(i)]
    BY DEF Without
  <2> HIDE DEF t
  <2>4. t \in Seq(Unit) /\ Len(t) = L - 1 /\ DOMAIN t = 1..(L - 1)
    BY <1>1, <2>2
  <2>5. QED
    BY <2>3, <2>4
<1> HIDE DEF t, L
<1>4. \A i \in Nat : At(t, i) = At(list, S(i))
  <2> SUFFICES ASSUME NEW i \in Nat
               PROVE  At(t, i) = At(list, S(i))
    OBVIOUS
  <2>1. i \in 1..(L - 1) <=> S(i) \in 1..L
    BY <1>0, <1>1
  <2>2. QED
    BY <1>3, <2>1 DEF At, L
<1>5. start = At(t, 1)
  <2>1. At(t, 1) = At(list, S(1))
    BY <1>4
  <2>2. QED
    BY <1>0, <1>1, <2>1
<1>6. ASSUME NEW i \in 1..Len(t)
      PROVE  fwd[t[i]] = At(t, i + 1) /\ bwd[t[i]] = At(t, i - 1)
  <2>0. i \in 1..(L - 1)
    BY <1>3
  <2>1. /\ t[i] = list[S(i)] /\ S(i) \in 1..L /\ S(i) # p
        /\ i \in Nat /\ i + 1 \in Nat /\ i - 1 \in Nat
    <3>1. t[i] = list[S(i)]
      BY <1>3, <2>0
    <3>2. S(i) \in 1..L /\ S(i) # p
      BY <1>2, <2>0
    <3>3. QED
      BY <1>1, <2>0, <3>1, <3>2
  <2>2. At(t, i + 1) = At(list, S(i + 1)) /\ At(t, i - 1) = At(list, S(i - 1))
    BY <1>4, <2>1
  <2>3. /\ S(i + 1) = IF S(i) = p - 1 THEN p + 1 ELSE S(i) + 1
        /\ S(i - 1) = IF S(i) = p + 1 THEN p - 1 ELSE S(i) - 1
    BY <1>0, <1>1, <2>0
  <2>4. /\ fwd[list[S(i)]] = IF S(i) = p - 1 THEN At(list, p + 1) ELSE links[list[S(i)]]
        /\ bwd[list[S(i)]] = IF S(i) = p + 1 THEN At(list, p - 1) ELSE back[list[S(i)]]
        /\ links[list[S(i)]] = At(list, S(i) + 1)
        /\ back[list[S(i)]] = At(list, S(i) - 1)
    BY <1>0, <1>1, <2>1
  <2> HIDE DEF S
  <2>5. QED
    BY <2>1, <2>2, <2>3, <2>4
<1>7. ASSUME NEW i \in 1..Len(t), NEW j \in 1..Len(t), t[i] = t[j]
      PROVE  i = j
  <2>1. i \in 1..(L - 1) /\ j \in 1..(L - 1) /\ list[S(i)] = list[S(j)]
    BY <1>3, <1>7
  <2>2. S(i) \in 1..L /\ S(j) \in 1..L
    BY <1>2, <2>1
  <2> HIDE DEF S
  <2>3. S(i) = S(j)
    BY <1>1, <2>1, <2>2
  <2>4. i \in Nat /\ j \in Nat /\ p \in Nat
    BY <1>1, <2>1
  <2>5. QED
    BY <2>3, <2>4 DEF S
<1>8. Members(t) = Members(list) \ {list[p]}
  <2>1. ASSUME NEW x \in Members(t)
        PROVE  x \in Members(list) \ {list[p]}
    <3>1. PICK i \in 1..(L - 1) : x = t[i]
      BY <1>3 DEF Members
    <3>2. x = list[S(i)] /\ S(i) \in 1..L /\ S(i) # p
      BY <1>2, <1>3, <3>1
    <3>3. DOMAIN list = 1..L
      BY <1>1 DEF L
    <3>4. QED
      BY <1>0, <1>1, <3>2, <3>3 DEF Members
  <2>2. ASSUME NEW i \in 1..L, i # p
        PROVE  list[i] \in Members(t)
    <3>1. PICK j \in 1..(L - 1) : S(j) = i
      <4>1. CASE i < p
        <5>1. i \in 1..(L - 1) /\ S(i) = i
          BY <1>0, <1>1, <4>1
        <5>2. QED
          BY <5>1
      <4>2. CASE ~(i < p)
        <5>1. i - 1 \in 1..(L - 1) /\ S(i - 1) = i
          BY <1>0, <1>1, <2>2, <4>2
        <5>2. QED
          BY <5>1
      <4>3. QED
        BY <4>1, <4>2
    <3>2. t[j] = list[i]
      BY <1>3, <3>1
    <3>3. QED
      BY <1>3, <3>2 DEF Members
  <2>3. DOMAIN list = 1..L
    BY <1>1 DEF L
  <2>4. QED
    BY <2>1, <2>2, <2>3 DEF Members
<1>9. IsChain(t, start, fwd, bwd)
  BY <1>3, <1>5, <1>6, <1>7 DEF IsChain
<1>10. QED
  BY <1>3, <1>8, <1>9 DEF t, L

With(list, p, u) ==
  [i \in 1..(Len(list) + 1) |-> IF i < p THEN list[i] ELSE IF i = p THEN u ELSE list[i - 1]]

\* u is linked in before what was the p-th unit, or at the end.
PutBetween(list, p, u, head, links, back, start, fwd, bwd) ==
  /\ IsChain(list, head, links, back)
  /\ p \in 1..(Len(list) + 1)
  /\ u \in Unit
  /\ start = IF p = 1 THEN u ELSE head
  /\ fwd[u] = At(list, p) /\ bwd[u] = At(list, p - 1)
  /\ \A i \in 1..Len(list) :
       /\ list[i] # u
       /\ fwd[list[i]] = IF i = p - 1 THEN u ELSE links[list[i]]
       /\ bwd[list[i]] = IF i = p THEN u ELSE back[list[i]]

\* A list is longer by the unit put between two of its units.
LEMMA ChainWith ==
  ASSUME NEW list, NEW p, NEW u,
         NEW head, NEW links, NEW back, NEW start, NEW fwd, NEW bwd,
         PutBetween(list, p, u, head, links, back, start, fwd, bwd)
  PROVE  /\ IsChain(With(list, p, u), start, fwd, bwd)
         /\ Len(With(list, p, u)) = Len(list) + 1
         /\ \A i \in 1..(Len(list) + 1) :
              With(list, p, u)[i] = IF i < p THEN list[i] ELSE IF i = p THEN u ELSE list[i - 1]
         /\ Members(With(list, p, u)) = Members(list) \cup {u}
<1> DEFINE L == Len(list)
           t == With(list, p, u)
<1>0. /\ IsChain(list, head, links, back)
      /\ p \in 1..(L + 1)
      /\ u \in Unit
      /\ start = IF p = 1 THEN u ELSE head
      /\ fwd[u] = At(list, p) /\ bwd[u] = At(list, p - 1)
      /\ \A i \in 1..L :
           /\ list[i] # u
           /\ fwd[list[i]] = IF i = p - 1 THEN u ELSE links[list[i]]
           /\ bwd[list[i]] = IF i = p THEN u ELSE back[list[i]]
  BY DEF PutBetween
<1>1. /\ list \in Seq(Unit) /\ L \in Nat /\ p \in Nat /\ L + 1 \in Nat
      /\ DOMAIN list = 1..L
      /\ head = At(list, 1)
      /\ \A i \in 1..L : links[list[i]] = At(list, i + 1) /\ back[list[i]] = At(list, i - 1)
      /\ \A i, j \in 1..L : list[i] = list[j] => i = j
  BY <1>0 DEF IsChain
<1>2. \A i \in 1..(L + 1) : /\ i < p => i \in 1..L
                            /\ i > p => i - 1 \in 1..L
  BY <1>0, <1>1
<1>3. /\ t \in Seq(Unit) /\ Len(t) = L + 1 /\ DOMAIN t = 1..(L + 1)
      /\ \A i \in 1..(L + 1) : t[i] = IF i < p THEN list[i] ELSE IF i = p THEN u ELSE list[i - 1]
  <2>1. \A i \in 1..(L + 1) : t[i] = IF i < p THEN list[i] ELSE IF i = p THEN u ELSE list[i - 1]
    BY DEF With
  <2>2. \A i \in 1..L : list[i] \in Unit
    BY <1>1
  <2>3. t \in [1..(L + 1) -> Unit]
    <3>1. ASSUME NEW i \in 1..(L + 1)
          PROVE  (IF i < p THEN list[i] ELSE IF i = p THEN u ELSE list[i - 1]) \in Unit
      <4>1. i < p \/ i = p \/ i > p
        BY <1>1
      <4>2. QED
        BY <1>0, <1>1, <1>2, <2>2, <4>1
    <3>2. QED
      BY <3>1 DEF With
  <2> HIDE DEF t
  <2>4. t \in Seq(Unit) /\ Len(t) = L + 1 /\ DOMAIN t = 1..(L + 1)
    BY <1>1, <2>3
  <2>5. QED
    BY <2>1, <2>4
<1> HIDE DEF t
<1>4. \A i \in Nat : At(t, i) = IF i < p THEN At(list, i) ELSE IF i = p THEN u ELSE At(list, i - 1)
  <2> SUFFICES ASSUME NEW i \in Nat
               PROVE  At(t, i) = IF i < p THEN At(list, i) ELSE IF i = p THEN u ELSE At(list, i - 1)
    OBVIOUS
  <2>1. CASE i \in 1..(L + 1)
    BY <1>1, <1>2, <1>3, <2>1 DEF At
  <2>2. CASE i \notin 1..(L + 1)
    <3>1. i # p /\ (i < p => i \notin 1..L) /\ (i > p => i - 1 \notin 1..L)
      BY <1>0, <1>1, <2>2
    <3>2. i < p \/ i = p \/ i > p
      BY <1>1
    <3>3. QED
      BY <1>3, <2>2, <3>1, <3>2 DEF At
  <2>3. QED
    BY <2>1, <2>2
<1> HIDE DEF L
<1>5. start = At(t, 1)
  <2>1. At(t, 1) = IF 1 < p THEN At(list, 1) ELSE IF 1 = p THEN u ELSE At(list, 1 - 1)
    BY <1>4
  <2>2. p = 1 \/ 1 < p
    BY <1>0, <1>1
  <2>3. QED
    BY <1>0, <1>1, <2>1, <2>2
<1>6. ASSUME NEW i \in 1..Len(t)
      PROVE  fwd[t[i]] = At(t, i + 1) /\ bwd[t[i]] = At(t, i - 1)
  <2>0. i \in 1..(L + 1)
    BY <1>3
  <2>1. i \in Nat /\ i + 1 \in Nat /\ i - 1 \in Nat
    BY <1>1, <2>0
  <2>2. /\ At(t, i + 1) = IF i + 1 < p THEN At(list, i + 1)
                          ELSE IF i + 1 = p THEN u ELSE At(list, i + 1 - 1)
        /\ At(t, i - 1) = IF i - 1 < p THEN At(list, i - 1)
                          ELSE IF i - 1 = p THEN u ELSE At(list, i - 1 - 1)
        /\ t[i] = IF i < p THEN list[i] ELSE IF i = p THEN u ELSE list[i - 1]
    BY <1>3, <1>4, <2>0, <2>1
  <2>3. i + 1 - 1 = i /\ i - 1 + 1 = i /\ (i < p => i - 1 < p) /\ (i = p => i - 1 < p /\ ~(i + 1 < p) /\ i + 1 # p)
    BY <1>1, <2>1
  <2>4. CASE i < p
    <3>0. i \in 1..L
      BY <1>2, <2>0, <2>4
    <3>1. p \in Nat /\ (i = p - 1 <=> i + 1 = p) /\ i # p /\ (i + 1 < p \/ i + 1 = p)
      <4>1. p \in Nat
        BY <1>1
      <4>2. QED
        BY <4>1, <2>1, <2>4
    <3>2. /\ fwd[list[i]] = IF i = p - 1 THEN u ELSE At(list, i + 1)
          /\ bwd[list[i]] = At(list, i - 1)
      BY <1>0, <1>1, <3>0, <3>1
    <3>3. QED
      BY <2>2, <2>3, <2>4, <3>1, <3>2
  <2>5. CASE i = p
    BY <1>0, <2>2, <2>3, <2>5
  <2>6. CASE i > p
    <3>1. /\ i - 1 \in 1..L /\ i - 1 # p - 1 /\ ~(i < p) /\ i # p
          /\ ~(i + 1 < p) /\ i + 1 # p /\ ~(i - 1 < p)
      BY <1>1, <1>2, <2>0, <2>6
    <3>2. /\ fwd[list[i - 1]] = At(list, i - 1 + 1)
          /\ bwd[list[i - 1]] = IF i - 1 = p THEN u ELSE At(list, i - 1 - 1)
      BY <1>0, <1>1, <3>1
    <3>3. QED
      BY <2>2, <2>3, <3>1, <3>2
  <2>7. i < p \/ i = p \/ i > p
    BY <1>1, <2>1
  <2>8. QED
    BY <2>4, <2>5, <2>6, <2>7
<1>7. ASSUME NEW i \in 1..Len(t), NEW j \in 1..Len(t), t[i] = t[j]
      PROVE  i = j
  <2> DEFINE S(k) == IF k < p THEN k ELSE k - 1
  <2>1. \A k \in 1..(L + 1) : k # p => S(k) \in 1..L
    <3>1. \A k \in 1..(L + 1) : k # p /\ ~(k < p) => k > p
      BY <1>1
    <3>2. QED
      BY <1>2, <3>1
  <2>2. \A k \in 1..(L + 1) : k # p => t[k] = list[S(k)]
    BY <1>3
  <2>3. t[p] = u /\ p \in 1..(L + 1)
    BY <1>0, <1>3 DEF L
  <2>4. i \in 1..(L + 1) /\ j \in 1..(L + 1)
    BY <1>3
  <2>5. \A k \in 1..L : list[k] # u
    BY <1>0 DEF L
  <2>6. \A a, b \in 1..L : list[a] = list[b] => a = b
    BY <1>1
  <2>7. i \in Nat /\ j \in Nat /\ p \in Nat
    BY <1>1, <2>4
  <2> HIDE DEF S
  <2>8. CASE i = p
    BY <1>7, <2>1, <2>2, <2>3, <2>4, <2>5, <2>8
  <2>9. CASE j = p
    BY <1>7, <2>1, <2>2, <2>3, <2>4, <2>5, <2>9
  <2>10. CASE i # p /\ j # p
    <3>1. S(i) = S(j)
      BY <1>7, <2>1, <2>2, <2>4, <2>6, <2>10
    <3>2. QED
      BY <2>7, <2>10, <3>1 DEF S
  <2>11. QED
    BY <2>8, <2>9, <2>10
<1>8. Members(t) = Members(list) \cup {u}
  <2>1. ASSUME NEW x \in Members(t)
        PROVE  x \in Members(list) \cup {u}
    <3>1. PICK i \in 1..(L + 1) : x = t[i]
      BY <1>3 DEF Members
    <3>2. i < p \/ i = p \/ i > p
      BY <1>1, <3>1
    <3>3. i < p => x = list[i] /\ i \in 1..L
      BY <1>2, <1>3, <3>1
    <3>4. i = p => x = u
      BY <1>3, <3>1, <3>2
    <3>5. p \in Nat /\ i \in Nat
      BY <1>1, <3>1
    <3>6. i > p => x = list[i - 1] /\ i - 1 \in 1..L
      <4>1. i > p => ~(i < p) /\ i # p
        BY <3>5
      <4>2. x = IF i < p THEN list[i] ELSE IF i = p THEN u ELSE list[i - 1]
        BY <1>3, <3>1
      <4>3. i > p => i - 1 \in 1..L
        BY <1>2, <3>1
      <4>4. QED
        BY <4>1, <4>2, <4>3
    <3>7. x = u \/ \E k \in 1..L : x = list[k]
      BY <3>2, <3>3, <3>4, <3>6
    <3>8. QED
      BY <1>1, <3>7 DEF Members
  <2>2. ASSUME NEW i \in 1..L
        PROVE  list[i] \in Members(t)
    <3>1. CASE i < p
      <4>1. i \in 1..(L + 1) /\ t[i] = list[i]
        BY <1>1, <1>3, <3>1
      <4>2. QED
        BY <1>3, <4>1 DEF Members
    <3>2. CASE ~(i < p)
      <4>1. i + 1 \in 1..(L + 1) /\ ~(i + 1 < p) /\ i + 1 # p /\ i + 1 - 1 = i
        BY <1>1, <3>2
      <4>2. t[i + 1] = list[i]
        BY <1>3, <4>1
      <4>3. QED
        BY <1>3, <4>1, <4>2 DEF Members
    <3>3. QED
      BY <3>1, <3>2
  <2>3. u \in Members(t)
    <3>1. p \in 1..(L + 1)
      BY <1>0
    <3>2. t[p] = IF p < p THEN list[p] ELSE IF p = p THEN u ELSE list[p - 1]
      BY <1>3, <3>1
    <3>3. ~(p < p)
      BY <1>1
    <3>4. QED
      BY <1>3, <3>1, <3>2, <3>3 DEF Members
  <2>4. QED
    BY <1>1, <2>1, <2>2, <2>3 DEF Members
<1>9. IsChain(t, start, fwd, bwd)
  BY <1>3, <1>5, <1>6, <1>7 DEF IsChain
<1>10. QED
  BY <1>3, <1>8, <1>9 DEF t, L

Instead(list, p, u) == [i \in 1..Len(list) |-> IF i = p THEN u ELSE list[i]]

\* u is linked in where the p-th unit was.
PutInPlace(list, p, u, head, links, back, start, fwd, bwd) ==
  /\ IsChain(list, head, links, back)
  /\ p \in 1..Len(list)
  /\ u \in Unit
  /\ start = IF p = 1 THEN u ELSE head
  /\ fwd[u] = At(list, p + 1) /\ bwd[u] = At(list, p - 1)
  /\ \A i \in 1..Len(list) : i # p =>
       /\ list[i] # u
       /\ fwd[list[i]] = IF i = p - 1 THEN u ELSE links[list[i]]
       /\ bwd[list[i]] = IF i = p + 1 THEN u ELSE back[list[i]]

\* The unit that takes the place of another is in the list, and that is not.
LEMMA ChainInstead ==
  ASSUME NEW list, NEW p, NEW u,
         NEW head, NEW links, NEW back, NEW start, NEW fwd, NEW bwd,
         PutInPlace(list, p, u, head, links, back, start, fwd, bwd)
  PROVE  /\ IsChain(Instead(list, p, u), start, fwd, bwd)
         /\ Len(Instead(list, p, u)) = Len(list)
         /\ \A i \in 1..Len(list) : Instead(list, p, u)[i] = IF i = p THEN u ELSE list[i]
         /\ Members(Instead(list, p, u)) = (Members(list) \ {list[p]}) \cup {u}
<1> DEFINE L == Len(list)
           t == Instead(list, p, u)
<1>0. /\ IsChain(list, head, links, back)
      /\ p \in 1..L
      /\ u \in Unit
      /\ start = IF p = 1 THEN u ELSE head
      /\ fwd[u] = At(list, p + 1) /\ bwd[u] = At(list, p - 1)
      /\ \A i \in 1..L : i # p =>
           /\ list[i] # u
           /\ fwd[list[i]] = IF i = p - 1 THEN u ELSE links[list[i]]
           /\ bwd[list[i]] = IF i = p + 1 THEN u ELSE back[list[i]]
  BY DEF PutInPlace
<1>1. /\ list \in Seq(Unit) /\ L \in Nat /\ p \in Nat
      /\ DOMAIN list = 1..L
      /\ head = At(list, 1)
      /\ \A i \in 1..L : links[list[i]] = At(list, i + 1) /\ back[list[i]] = At(list, i - 1)
      /\ \A i, j \in 1..L : list[i] = list[j] => i = j
  BY <1>0 DEF IsChain
<1>2. /\ t \in Seq(Unit) /\ Len(t) = L /\ DOMAIN t = 1..L
      /\ \A i \in 1..L : t[i] = IF i = p THEN u ELSE list[i]
  <2>1. \A i \in 1..L : t[i] = IF i = p THEN u ELSE list[i]
    BY DEF Instead
  <2>2. \A i \in 1..L : list[i] \in Unit
    BY <1>1
  <2>3. t \in [1..L -> Unit]
    BY <1>0, <2>2 DEF Instead
  <2> HIDE DEF t
  <2>4. t \in Seq(Unit) /\ Len(t) = L /\ DOMAIN t = 1..L
    BY <1>1, <2>3
  <2>5. QED
    BY <2>1, <2>4
<1> HIDE DEF t, L
<1>3. \A i \in Nat : At(t, i) = IF i = p THEN u ELSE At(list, i)
  BY <1>0, <1>1, <1>2 DEF At, L
<1>4. start = At(t, 1)
  BY <1>0, <1>1, <1>3
<1>5. ASSUME NEW i \in 1..Len(t)
      PROVE  fwd[t[i]] = At(t, i + 1) /\ bwd[t[i]] = At(t, i - 1)
  <2>0. i \in 1..L
    BY <1>2
  <2>1. /\ i \in Nat /\ i + 1 \in Nat /\ i - 1 \in Nat
        /\ i + 1 = p <=> i = p - 1
        /\ i - 1 = p <=> i = p + 1
        /\ i = p => i + 1 # p /\ i - 1 # p
    BY <1>1, <2>0
  <2>2. /\ At(t, i + 1) = IF i + 1 = p THEN u ELSE At(list, i + 1)
        /\ At(t, i - 1) = IF i - 1 = p THEN u ELSE At(list, i - 1)
        /\ t[i] = IF i = p THEN u ELSE list[i]
    BY <1>2, <1>3, <2>0, <2>1
  <2>3. CASE i = p
    BY <1>0, <2>1, <2>2, <2>3
  <2>4. CASE i # p
    BY <1>0, <1>1, <2>0, <2>1, <2>2, <2>4
  <2>5. QED
    BY <2>3, <2>4
<1>6. ASSUME NEW i \in 1..Len(t), NEW j \in 1..Len(t), t[i] = t[j]
      PROVE  i = j
  <2>1. i \in 1..L /\ j \in 1..L
    BY <1>2
  <2>2. /\ t[i] = IF i = p THEN u ELSE list[i]
        /\ t[j] = IF j = p THEN u ELSE list[j]
    BY <1>2, <2>1
  <2>3. /\ i # p => list[i] # u
        /\ j # p => list[j] # u
        /\ list[i] = list[j] => i = j
    BY <1>0, <1>1, <2>1
  <2>4. QED
    BY <1>6, <2>2, <2>3
<1>7. Members(t) = (Members(list) \ {list[p]}) \cup {u}
  <2>1. \A i \in 1..L : i # p => list[i] # list[p]
    BY <1>0, <1>1
  <2>2. \A x : x \in Members(list) <=> \E i \in 1..L : x = list[i]
    BY <1>1 DEF Members
  <2>3. \A x : x \in Members(t) <=> \E i \in 1..L : x = t[i]
    BY <1>2 DEF Members
  <2>4. p \in 1..L
    BY <1>0
  <2>5. ASSUME NEW x \in Members(t)
        PROVE  x \in (Members(list) \ {list[p]}) \cup {u}
    <3>1. PICK i \in 1..L : x = t[i]
      BY <2>3
    <3>2. i # p => x = list[i] /\ list[i] # list[p]
      BY <1>2, <2>1, <3>1
    <3>3. i = p => x = u
      BY <1>2, <3>1
    <3>4. QED
      BY <2>2, <3>2, <3>3
  <2>6. ASSUME NEW x \in (Members(list) \ {list[p]}) \cup {u}
        PROVE  x \in Members(t)
    <3>1. t[p] = u
      BY <1>2, <2>4
    <3>2. x # u => \E i \in 1..L : i # p /\ x = list[i]
      BY <2>2, <2>6
    <3>3. x # u => \E i \in 1..L : x = t[i]
      BY <1>2, <3>2
    <3>4. QED
      BY <2>3, <2>4, <3>1, <3>3
  <2>7. QED
    BY <2>5, <2>6
<1>8. IsChain(t, start, fwd, bwd)
  BY <1>2, <1>4, <1>5, <1>6 DEF IsChain
<1>9. QED
  BY <1>2, <1>7, <1>8 DEF t, L

-----------------------------------------------------------------------------
(***************************************************************************)
(* The chunks of a block, by their first units, with their sizes.          *)
(***************************************************************************)
\* What a unit is.
LEMMA UnitParts ==
  ASSUME NEW u \in Unit
  PROVE  /\ u = <<u[1], u[2]>> /\ u[1] \in 1..MaxBlock
         /\ u[1] \in Nat /\ u[2] \in Nat /\ u[2] < BlockSize(u[1])
         /\ BlockSize(u[1]) \in Nat
         /\ u # NULL
<1>1. u = <<u[1], u[2]>> /\ u[1] \in 1..MaxBlock /\ u[2] \in 0..(BlockSize(u[1]) - 1)
  BY UnitFacts
<1>2. BlockSize(u[1]) \in Nat /\ u # NULL
  BY <1>1, UnitFacts
<1>3. QED
  BY <1>1, <1>2

\* A pointer into a block, moved on within it, is a unit of it.
LEMMA PlusUnit ==
  ASSUME NEW u \in Unit, NEW n \in Nat, u[2] + n < BlockSize(u[1])
  PROVE  Plus(u, n) \in Unit /\ Plus(u, n)[1] = u[1] /\ Plus(u, n)[2] = u[2] + n
<1>1. Plus(u, n) = <<u[1], u[2] + n>>
  BY DEF Plus
<1>2. u[1] \in 1..MaxBlock /\ u[2] + n \in 0..(BlockSize(u[1]) - 1)
  BY UnitParts
<1>3. QED
  BY <1>1, <1>2, UnitFacts

\* Chunks that lie in block b, do not overlap and leave nothing out.
Tiles(H, b, size) ==
  /\ \A u \in H : /\ u \in Unit /\ u[1] = b
                  /\ size[u] \in Nat /\ size[u] > 0
                  /\ u[2] + size[u] <= BlockSize(b)
  /\ \A u, v \in H : u[2] < v[2] => u[2] + size[u] <= v[2]
  /\ \A i \in 0..(BlockSize(b) - 1) : \E u \in H : u[2] <= i /\ i < u[2] + size[u]

\* Units of one block that have the same place are the same.
LEMMA SamePlace ==
  ASSUME NEW H, NEW b, NEW size, Tiles(H, b, size),
         NEW u \in H, NEW v \in H, u[2] = v[2]
  PROVE  u = v
<1>1. u = <<u[1], u[2]>> /\ v = <<v[1], v[2]>>
  BY UnitParts DEF Tiles
<1>2. u[1] = v[1]
  BY DEF Tiles
<1>3. QED
  BY <1>1, <1>2, Zenon

\* Only the sizes of the chunks matter.
LEMMA TilesSame ==
  ASSUME NEW H, NEW b, NEW size, Tiles(H, b, size),
         NEW other, \A u \in H : other[u] = size[u]
  PROVE  Tiles(H, b, other)
BY DEF Tiles

\* One chunk becomes two.
LEMMA TilesSplit ==
  ASSUME NEW H, NEW b, NEW size, Tiles(H, b, size),
         NEW u \in H, NEW num \in Nat, 0 < num, num < size[u],
         NEW other,
         other[u] = num, other[Plus(u, num)] = size[u] - num,
         \A v \in H : v # u => other[v] = size[v]
  PROVE  /\ Plus(u, num) \in Unit /\ Plus(u, num) \notin H
         /\ Plus(u, num)[1] = b /\ Plus(u, num)[2] = u[2] + num
         /\ Tiles(H \cup {Plus(u, num)}, b, other)
<1> DEFINE r == Plus(u, num)
<1>1. /\ u \in Unit /\ u[1] = b /\ u[2] \in Nat /\ BlockSize(b) \in Nat
      /\ size[u] \in Nat /\ u[2] + size[u] <= BlockSize(b)
  BY UnitParts DEF Tiles
<1>2. r \in Unit /\ r[1] = b /\ r[2] = u[2] + num
  BY <1>1, PlusUnit
<1> HIDE DEF r
<1>3. \A v \in H : /\ v \in Unit /\ v[1] = b /\ v[2] \in Nat
                   /\ size[v] \in Nat /\ size[v] > 0 /\ v[2] + size[v] <= BlockSize(b)
  BY UnitParts DEF Tiles
<1>4. \A v, w \in H : v[2] < w[2] => v[2] + size[v] <= w[2]
  BY DEF Tiles
<1>5. r \notin H
  <2> SUFFICES ASSUME r \in H PROVE FALSE
    OBVIOUS
  <2>1. u[2] < r[2]
    BY <1>1, <1>2
  <2>2. u[2] + size[u] <= r[2]
    BY <1>4, <2>1
  <2>3. QED
    BY <1>1, <1>2, <2>2
<1>6. other[u] = num /\ other[r] = size[u] - num /\ \A v \in H : v # u => other[v] = size[v]
  BY DEF r
<1>7. \A v \in H : v # u => v[2] # u[2]
  BY SamePlace
<1>8. ASSUME NEW v \in H \cup {r}
      PROVE  /\ v \in Unit /\ v[1] = b
             /\ other[v] \in Nat /\ other[v] > 0 /\ v[2] + other[v] <= BlockSize(b)
  BY <1>1, <1>2, <1>3, <1>6
<1>9. ASSUME NEW v \in H \cup {r}, NEW w \in H \cup {r}, v[2] < w[2]
      PROVE  v[2] + other[v] <= w[2]
  <2>1. CASE v = r
    <3>1. w \in H /\ w # u
      BY <1>1, <1>2, <1>9, <2>1
    <3>2. u[2] < w[2] /\ w[2] \in Nat
      BY <1>1, <1>2, <1>3, <1>9, <2>1, <3>1
    <3>3. u[2] + size[u] <= w[2]
      BY <1>4, <3>1, <3>2
    <3>4. QED
      BY <1>1, <1>2, <1>6, <2>1, <3>2, <3>3
  <2>2. CASE v = u
    <3>1. CASE w = r
      BY <1>1, <1>2, <1>6, <2>2, <3>1
    <3>2. CASE w # r
      <4>1. w \in H /\ w[2] \in Nat /\ u[2] + size[u] <= w[2]
        BY <1>3, <1>4, <1>9, <2>2, <3>2
      <4>2. QED
        BY <1>1, <1>6, <2>2, <4>1
    <3>3. QED
      BY <3>1, <3>2
  <2>3. CASE v \in H /\ v # u
    <3>1. v[2] \in Nat /\ size[v] \in Nat /\ other[v] = size[v] /\ v[2] # u[2]
      BY <1>3, <1>6, <1>7, <2>3
    <3>2. CASE w = r
      <4>1. v[2] < u[2]
        <5>1. ~(u[2] < v[2])
          <6>1. u[2] < v[2] => u[2] + size[u] <= v[2]
            BY <1>4, <2>3
          <6>2. v[2] < u[2] + num
            BY <1>2, <1>9, <3>2
          <6>3. QED
            BY <1>1, <3>1, <6>1, <6>2
        <5>2. QED
          BY <1>1, <3>1, <5>1
      <4>2. v[2] + size[v] <= u[2]
        BY <1>4, <2>3, <4>1
      <4>3. QED
        BY <1>1, <1>2, <3>1, <3>2, <4>2
    <3>3. CASE w # r
      BY <1>4, <1>9, <2>3, <3>1, <3>3
    <3>4. QED
      BY <3>2, <3>3
  <2>4. QED
    BY <2>1, <2>2, <2>3
<1>10. ASSUME NEW i \in 0..(BlockSize(b) - 1)
       PROVE  \E v \in H \cup {r} : v[2] <= i /\ i < v[2] + other[v]
  <2>1. PICK v \in H : v[2] <= i /\ i < v[2] + size[v]
    BY DEF Tiles
  <2>2. CASE v # u
    BY <1>6, <2>1, <2>2
  <2>3. CASE v = u /\ i < u[2] + num
    BY <1>6, <2>1, <2>3
  <2>4. CASE v = u /\ ~(i < u[2] + num)
    <3>1. i \in Nat
      BY <1>1
    <3>2. r[2] <= i /\ i < r[2] + other[r]
      BY <1>1, <1>2, <1>6, <2>1, <2>4, <3>1
    <3>3. QED
      BY <3>2
  <2>5. QED
    BY <2>2, <2>3, <2>4
<1>11. Tiles(H \cup {r}, b, other)
  BY <1>8, <1>9, <1>10 DEF Tiles
<1>12. QED
  BY <1>2, <1>5, <1>11 DEF r

\* Two chunks, one beginning where the other ends, become one.
LEMMA TilesMerge ==
  ASSUME NEW H, NEW b, NEW size, Tiles(H, b, size),
         NEW u \in H, NEW v \in H, u[2] + size[u] = v[2],
         NEW other, other[u] = size[u] + size[v],
         \A w \in H : w # u /\ w # v => other[w] = size[w]
  PROVE  Tiles(H \ {v}, b, other)
<1>1. \A w \in H : /\ w \in Unit /\ w[1] = b /\ w[2] \in Nat
                   /\ size[w] \in Nat /\ size[w] > 0 /\ w[2] + size[w] <= BlockSize(b)
                   /\ BlockSize(b) \in Nat
  BY UnitParts DEF Tiles
<1>2. \A w, x \in H : w[2] < x[2] => w[2] + size[w] <= x[2]
  BY DEF Tiles
<1>3. \A w, x \in H : w # x => w[2] # x[2]
  BY SamePlace
<1>4. u # v /\ u[2] < v[2]
  BY <1>1
<1>5. ASSUME NEW w \in H \ {v}
      PROVE  /\ w \in Unit /\ w[1] = b
             /\ other[w] \in Nat /\ other[w] > 0 /\ w[2] + other[w] <= BlockSize(b)
  <2>1. CASE w = u
    BY <1>1, <2>1
  <2>2. CASE w # u
    BY <1>1, <2>2
  <2>3. QED
    BY <2>1, <2>2
<1>6. ASSUME NEW w \in H \ {v}, NEW x \in H \ {v}, w[2] < x[2]
      PROVE  w[2] + other[w] <= x[2]
  <2>1. CASE w # u
    BY <1>2, <1>6, <2>1
  <2>2. CASE w = u
    <3>1. u[2] + size[u] <= x[2] /\ x[2] # v[2]
      BY <1>2, <1>3, <1>6, <2>2
    <3>2. v[2] < x[2]
      BY <1>1, <3>1
    <3>3. v[2] + size[v] <= x[2]
      BY <1>2, <3>2
    <3>4. QED
      BY <1>1, <2>2, <3>3
  <2>3. QED
    BY <2>1, <2>2
<1>7. ASSUME NEW i \in 0..(BlockSize(b) - 1)
      PROVE  \E w \in H \ {v} : w[2] <= i /\ i < w[2] + other[w]
  <2>1. PICK w \in H : w[2] <= i /\ i < w[2] + size[w]
    BY DEF Tiles
  <2>2. CASE w # u /\ w # v
    BY <2>1, <2>2
  <2>3. CASE w = u \/ w = v
    <3>1. i \in Nat
      BY <1>1
    <3>2. /\ u[2] \in Nat /\ v[2] \in Nat /\ size[u] \in Nat /\ size[v] \in Nat
          /\ size[u] > 0
      BY <1>1
    <3>3. u[2] <= i /\ i < u[2] + other[u]
      BY <2>1, <2>3, <3>1, <3>2
    <3>4. QED
      BY <1>4, <3>3
  <2>4. QED
    BY <2>2, <2>3
<1>8. QED
  BY <1>5, <1>6, <1>7 DEF Tiles

-----------------------------------------------------------------------------
(***************************************************************************)
(* A sound pool.  Between the two halves of bmemory_free the chunk to be   *)
(* freed is in neither list: gap is the set of such chunks, one or none.   *)
(***************************************************************************)
Links == [Unit -> Link]

Memory ==
  [blocks : 0..MaxBlock,
   free : [1..MaxBlock -> Link], used : [1..MaxBlock -> Link],
   size : [Unit -> Nat], pre : Links, next : Links]

\* Those chunks of a set that are in block b.
Of(chunks, b) == {u \in chunks : u[1] = b}

\* The free chunks are in the order of their addresses, and none touches the
\* next.
Apart(list, size) ==
  \A i, j \in 1..Len(list) : i < j => list[i][2] + size[list[i]] < list[j][2]

\* F and U are the free and the used list of block b.
BlockSound(m, b, held, gap, F, U) ==
  /\ IsChain(F, m.free[b], m.next, m.pre)
  /\ IsChain(U, m.used[b], m.next, m.pre)
  /\ Apart(F, m.size)
  /\ Members(U) = Of(held, b)
  /\ Members(F) \cap Members(U) = {}
  /\ Of(gap, b) \cap (Members(F) \cup Members(U)) = {}
  /\ Tiles(Members(F) \cup Members(U) \cup Of(gap, b), b, m.size)

IsPool(m, held, gap) ==
  /\ m \in Memory
  /\ held \in SUBSET Unit /\ gap \in SUBSET Unit
  /\ \A u \in held \cup gap : u[1] \in 1..m.blocks
  /\ \A u \in held : m.size[u] \in Request
  /\ \A b \in 1..m.blocks : \E F, U : BlockSound(m, b, held, gap, F, U)

\* o is like m in block b.
Agree(m, o, b) ==
  /\ o.free[b] = m.free[b] /\ o.used[b] = m.used[b]
  /\ \A v \in Unit : v[1] = b =>
       o.size[v] = m.size[v] /\ o.next[v] = m.next[v] /\ o.pre[v] = m.pre[v]

\* The types of the fields.
LEMMA FieldTypes ==
  ASSUME NEW m \in Memory
  PROVE  /\ m.blocks \in 0..MaxBlock /\ m.blocks \in Nat
         /\ m.free \in [1..MaxBlock -> Link] /\ m.used \in [1..MaxBlock -> Link]
         /\ m.size \in [Unit -> Nat]
         /\ m.pre \in Links /\ m.next \in Links
         /\ 1..m.blocks \subseteq 1..MaxBlock
<1>1. m.blocks \in 0..MaxBlock /\ MaxBlock \in Nat
  BY BmemoryAssumption DEF Memory
<1>2. 1..m.blocks \subseteq 1..MaxBlock /\ m.blocks \in Nat
  BY <1>1
<1>3. QED
  BY <1>1, <1>2 DEF Memory

\* A write through a pointer leaves such a field, and changes that of the unit
\* pointed to, if any.
LEMMA SetAt ==
  ASSUME NEW f \in Links, NEW u \in Link, NEW v \in Link
  PROVE  /\ Set(f, u, v) \in Links
         /\ \A x \in Unit : Set(f, u, v)[x] = IF x = u THEN v ELSE f[x]
BY UnitFacts DEF Set, Link, Links

\* Places in a list.
LEMMA AtFacts ==
  ASSUME NEW list, NEW head, NEW links, NEW back, IsChain(list, head, links, back)
  PROVE  /\ Len(list) \in Nat
         /\ \A x : x \in Members(list) <=> \E i \in 1..Len(list) : x = list[i]
         /\ \A i \in 1..Len(list) : list[i] \in Unit /\ list[i] # NULL /\ At(list, i) = list[i]
         /\ \A i \in Int :
              /\ At(list, i) \in Link
              /\ At(list, i) = NULL <=> i \notin 1..Len(list)
              /\ At(list, i) # NULL => At(list, i) \in Members(list)
              /\ \A j \in 1..Len(list) : list[j] = At(list, i) <=> j = i
<1>1. /\ list \in Seq(Unit)
      /\ \A i, j \in 1..Len(list) : list[i] = list[j] => i = j
  BY DEF IsChain
<1>2. Len(list) \in Nat /\ DOMAIN list = 1..Len(list)
  BY <1>1
<1>3. \A i \in 1..Len(list) : list[i] \in Unit /\ list[i] # NULL /\ At(list, i) = list[i]
  BY <1>1, UnitParts DEF At
<1>4. \A x : x \in Members(list) <=> \E i \in 1..Len(list) : x = list[i]
  BY <1>2 DEF Members
<1>5. ASSUME NEW i \in Int
      PROVE  /\ At(list, i) \in Link
             /\ At(list, i) = NULL <=> i \notin 1..Len(list)
             /\ At(list, i) # NULL => At(list, i) \in Members(list)
             /\ \A j \in 1..Len(list) : list[j] = At(list, i) <=> j = i
  <2>1. CASE i \in 1..Len(list)
    BY <1>1, <1>3, <1>4, <2>1 DEF Link
  <2>2. CASE i \notin 1..Len(list)
    BY <1>3, <2>2 DEF Link, At
  <2>3. QED
    BY <2>1, <2>2
<1>6. QED
  BY <1>2, <1>3, <1>4, <1>5

\* A block that a step leaves alone stays sound.
LEMMA Elsewhere ==
  ASSUME NEW m, NEW o, NEW b, NEW held, NEW gap, NEW hold, NEW gape, NEW F, NEW U,
         BlockSound(m, b, held, gap, F, U), Agree(m, o, b),
         Of(hold, b) = Of(held, b), Of(gape, b) = Of(gap, b)
  PROVE  BlockSound(o, b, hold, gape, F, U)
<1> DEFINE H == Members(F) \cup Members(U) \cup Of(gap, b)
<1>1. /\ IsChain(F, m.free[b], m.next, m.pre)
      /\ IsChain(U, m.used[b], m.next, m.pre)
      /\ Apart(F, m.size)
      /\ Members(U) = Of(held, b)
      /\ Members(F) \cap Members(U) = {}
      /\ Of(gap, b) \cap (Members(F) \cup Members(U)) = {}
      /\ Tiles(H, b, m.size)
  BY DEF BlockSound
<1>2. \A v \in H : v \in Unit /\ v[1] = b
  BY <1>1 DEF Tiles
<1>3. \A v \in H : o.size[v] = m.size[v] /\ o.next[v] = m.next[v] /\ o.pre[v] = m.pre[v]
  BY <1>2 DEF Agree
<1>4. \A i \in 1..Len(F) : F[i] \in H
  BY <1>1, AtFacts
<1>5. \A i \in 1..Len(U) : U[i] \in H
  BY <1>1, AtFacts
<1>6. IsChain(F, o.free[b], o.next, o.pre)
  BY <1>1, <1>3, <1>4, ChainElsewhere DEF Agree
<1>7. IsChain(U, o.used[b], o.next, o.pre)
  BY <1>1, <1>3, <1>5, ChainElsewhere DEF Agree
<1>8. Apart(F, o.size)
  BY <1>1, <1>3, <1>4 DEF Apart
<1>9. Tiles(H, b, o.size)
  BY <1>1, <1>3, TilesSame
<1>10. QED
  BY <1>1, <1>6, <1>7, <1>8, <1>9 DEF BlockSound

\* A step that leaves one block sound and the others alone leaves the pool
\* sound.
LEMMA PoolStep ==
  ASSUME NEW m, NEW o, NEW b, NEW held, NEW gap, NEW hold, NEW gape,
         IsPool(m, held, gap), o \in Memory, o.blocks = m.blocks,
         hold \in SUBSET Unit, gape \in SUBSET Unit,
         \A u \in hold \cup gape : u[1] \in 1..m.blocks,
         \A u \in hold : o.size[u] \in Request,
         \E F, U : BlockSound(o, b, hold, gape, F, U),
         \A c \in 1..m.blocks : c # b =>
           /\ Agree(m, o, c)
           /\ Of(hold, c) = Of(held, c) /\ Of(gape, c) = Of(gap, c)
  PROVE  IsPool(o, hold, gape)
<1>1. ASSUME NEW c \in 1..m.blocks
      PROVE  \E F, U : BlockSound(o, c, hold, gape, F, U)
  <2>1. CASE c = b
    BY <2>1
  <2>2. CASE c # b
    <3>1. PICK F, U : BlockSound(m, c, held, gap, F, U)
      BY DEF IsPool
    <3>2. BlockSound(o, c, hold, gape, F, U)
      BY <2>2, <3>1, Elsewhere
    <3>3. QED
      BY <3>2
  <2>3. QED
    BY <2>1, <2>2
<1>2. QED
  BY <1>1 DEF IsPool

-----------------------------------------------------------------------------
(***************************************************************************)
(* bmemory_free, first half: the chunk leaves the used list.               *)
(***************************************************************************)
\* What Unuse does to the fields.
LEMMA UnuseFields ==
  ASSUME NEW m \in Memory, NEW u \in Unit
  PROVE  LET o == Unuse(m, u)
         IN  /\ o \in Memory
             /\ o.blocks = m.blocks /\ o.free = m.free /\ o.size = m.size
             /\ o.used = [m.used EXCEPT ![u[1]] = HeadWithout(m.used[u[1]], u, m)]
             /\ o.next = Set(m.next, m.pre[u], m.next[u])
             /\ o.pre = Set(m.pre, m.next[u], m.pre[u])
<1> DEFINE used == [m.used EXCEPT ![u[1]] = HeadWithout(m.used[u[1]], u, m)]
           next == Set(m.next, m.pre[u], m.next[u])
           pre  == Set(m.pre, m.next[u], m.pre[u])
<1>1. Unuse(m, u) = [m EXCEPT !.used = used, !.next = next, !.pre = pre]
  BY DEF Unuse, Memory
<1>2. /\ m.next \in Links /\ m.pre \in Links
      /\ m.used \in [1..MaxBlock -> Link] /\ u[1] \in 1..MaxBlock
  BY FieldTypes, UnitParts
<1>3. m.pre[u] \in Link /\ m.next[u] \in Link /\ m.used[u[1]] \in Link
  BY <1>2 DEF Links
<1>4. next \in Links /\ pre \in Links
  BY <1>2, <1>3, SetAt
<1>5. HeadWithout(m.used[u[1]], u, m) \in Link
  BY <1>3 DEF HeadWithout, Link
<1>6. used \in [1..MaxBlock -> Link]
  BY <1>2, <1>5
<1> HIDE DEF used, next, pre
<1>7. LET o == [m EXCEPT !.used = used, !.next = next, !.pre = pre]
      IN  /\ o \in Memory
          /\ o.blocks = m.blocks /\ o.free = m.free /\ o.size = m.size
          /\ o.used = used /\ o.next = next /\ o.pre = pre
  BY <1>4, <1>6 DEF Memory
<1>8. QED
  BY <1>1, <1>7 DEF used, next, pre

\* The pool stays sound but for the chunk in between.
LEMMA UnuseSound ==
  ASSUME NEW m, NEW held, IsPool(m, held, {}), NEW u \in held
  PROVE  IsPool(Unuse(m, u), held \ {u}, {u}) /\ Unuse(m, u).size = m.size
<1> DEFINE o == Unuse(m, u)
           b == u[1]
<1>1. /\ m \in Memory /\ held \in SUBSET Unit /\ u \in Unit /\ b \in 1..m.blocks
      /\ \A v \in held : v[1] \in 1..m.blocks /\ m.size[v] \in Request
  BY DEF IsPool
<1>2. b \in 1..MaxBlock /\ b \in Nat
  BY <1>1, UnitParts
<1>3. /\ m.free \in [1..MaxBlock -> Link] /\ m.used \in [1..MaxBlock -> Link]
      /\ m.pre \in Links /\ m.next \in Links
      /\ 1..m.blocks \subseteq 1..MaxBlock
  BY <1>1, FieldTypes
<1>4. /\ o \in Memory
      /\ o.blocks = m.blocks /\ o.free = m.free /\ o.size = m.size
      /\ o.used = [m.used EXCEPT ![b] = HeadWithout(m.used[b], u, m)]
      /\ o.next = Set(m.next, m.pre[u], m.next[u])
      /\ o.pre = Set(m.pre, m.next[u], m.pre[u])
  BY <1>1, UnuseFields
<1> HIDE DEF o
<1>5. PICK F, U : BlockSound(m, b, held, {}, F, U)
  BY <1>1 DEF IsPool
<1>6. /\ IsChain(F, m.free[b], m.next, m.pre)
      /\ IsChain(U, m.used[b], m.next, m.pre)
      /\ Apart(F, m.size)
      /\ Members(U) = Of(held, b)
      /\ Members(F) \cap Members(U) = {}
      /\ Tiles(Members(F) \cup Members(U) \cup Of({}, b), b, m.size)
  BY <1>5 DEF BlockSound
<1>7. Of({}, b) = {} /\ Of({u}, b) = {u} /\ Of(held \ {u}, b) = Of(held, b) \ {u}
  BY DEF Of
<1>8. PICK k \in 1..Len(U) : u = U[k]
  <2>1. u \in Members(U)
    BY <1>6 DEF Of
  <2>2. QED
    BY <1>6, <2>1, AtFacts
<1>9. /\ m.next[u] = At(U, k + 1) /\ m.pre[u] = At(U, k - 1) /\ m.used[b] = At(U, 1)
      /\ k \in Int /\ k - 1 \in Int /\ k + 1 \in Int
  BY <1>6, <1>8 DEF IsChain
<1>10. /\ Len(U) \in Nat
       /\ \A i \in 1..Len(U) : U[i] \in Unit /\ U[i] \in Members(U)
       /\ \A i \in Int :
            /\ At(U, i) \in Link
            /\ At(U, i) = NULL <=> i \notin 1..Len(U)
            /\ At(U, i) # NULL => At(U, i) \in Members(U)
            /\ \A j \in 1..Len(U) : U[j] = At(U, i) <=> j = i
  BY <1>6, AtFacts
<1>11. \A v \in Unit : /\ o.next[v] = IF v = m.pre[u] THEN m.next[u] ELSE m.next[v]
                       /\ o.pre[v] = IF v = m.next[u] THEN m.pre[u] ELSE m.pre[v]
  <2>1. m.next[u] \in Link /\ m.pre[u] \in Link
    BY <1>1, <1>3 DEF Links
  <2>2. PICK f \in Links, g \in Links : f = m.next /\ g = m.pre
    BY <1>3
  <2>3. PICK p \in Link, n \in Link : p = m.pre[u] /\ n = m.next[u]
    BY <2>1
  <2>4. \A v \in Unit : Set(f, p, n)[v] = IF v = p THEN n ELSE f[v]
    BY SetAt
  <2>5. \A v \in Unit : Set(g, n, p)[v] = IF v = n THEN p ELSE g[v]
    BY SetAt
  <2>6. o.next = Set(f, p, n) /\ o.pre = Set(g, n, p)
    BY <1>4, <2>2, <2>3
  <2>7. QED
    BY <2>2, <2>3, <2>4, <2>5, <2>6
<1>12. PassedOver(U, k, m.used[b], m.next, m.pre, o.used[b], o.next, o.pre)
  <2>1. o.used[b] = HeadWithout(m.used[b], u, m)
    BY <1>2, <1>3, <1>4
  <2>2. o.used[b] = IF k = 1 THEN At(U, 2) ELSE m.used[b]
    <3>1. CASE k = 1
      <4>1. u = m.used[b] /\ m.next[u] = At(U, 2)
        BY <1>8, <1>9, <1>10, <3>1
      <4>2. QED
        BY <2>1, <3>1, <4>1 DEF HeadWithout
    <3>2. CASE k # 1
      <4>1. k - 1 \in 1..Len(U) /\ 1 \in Int
        BY <1>8, <1>10, <3>2
      <4>2. m.pre[u] # NULL /\ u # m.used[b]
        BY <1>8, <1>9, <1>10, <3>2, <4>1
      <4>3. QED
        BY <2>1, <3>2, <4>2 DEF HeadWithout
    <3>3. QED
      BY <3>1, <3>2
  <2>3. ASSUME NEW i \in 1..Len(U), i # k
        PROVE  /\ o.next[U[i]] = IF i = k - 1 THEN At(U, k + 1) ELSE m.next[U[i]]
               /\ o.pre[U[i]] = IF i = k + 1 THEN At(U, k - 1) ELSE m.pre[U[i]]
    BY <1>9, <1>10, <1>11
  <2>4. QED
    BY <1>6, <1>8, <2>2, <2>3 DEF PassedOver
<1>13. /\ IsChain(Without(U, k), o.used[b], o.next, o.pre)
       /\ Members(Without(U, k)) = Members(U) \ {u}
  BY <1>8, <1>12, ChainWithout
<1>14. IsChain(F, o.free[b], o.next, o.pre)
  <2>1. \A i \in 1..Len(F) : F[i] \in Unit /\ F[i] \in Members(F) /\ F[i] # NULL
    BY <1>6, AtFacts
  <2>2. \A i \in 1..Len(F) : F[i] # m.pre[u] /\ F[i] # m.next[u]
    BY <1>6, <1>9, <1>10, <2>1
  <2>3. \A i \in 1..Len(F) : o.next[F[i]] = m.next[F[i]] /\ o.pre[F[i]] = m.pre[F[i]]
    BY <1>11, <2>1, <2>2
  <2>4. QED
    BY <1>4, <1>6, <2>3, ChainElsewhere
<1>15. BlockSound(o, b, held \ {u}, {u}, F, Without(U, k))
  <2>0. u \in Members(U)
    BY <1>8, <1>10
  <2>1. Members(F) \cup Members(Without(U, k)) \cup Of({u}, b)
          = Members(F) \cup Members(U) \cup Of({}, b)
    BY <1>7, <1>13, <2>0
  <2>2. Of({u}, b) \cap (Members(F) \cup Members(Without(U, k))) = {}
    BY <1>6, <1>7, <1>13, <2>0
  <2>3. Members(F) \cap Members(Without(U, k)) = {}
    BY <1>6, <1>13
  <2>4. QED
    BY <1>4, <1>6, <1>7, <1>13, <1>14, <2>1, <2>2, <2>3 DEF BlockSound
<1>16. ASSUME NEW c \in 1..m.blocks, c # b
       PROVE  /\ Agree(m, o, c)
              /\ Of(held \ {u}, c) = Of(held, c) /\ Of({u}, c) = Of({}, c)
  <2>1. c \in 1..MaxBlock
    BY <1>3
  <2>2. \A v \in Unit : v[1] = c => v # m.pre[u] /\ v # m.next[u]
    <3>1. \A v \in Members(U) : v[1] = b
      BY <1>6 DEF Of
    <3>2. \A v \in Unit : v # NULL
      BY UnitParts
    <3>3. QED
      BY <1>9, <1>10, <1>16, <3>1, <3>2
  <2>3. Agree(m, o, c)
    BY <1>3, <1>4, <1>11, <1>16, <2>1, <2>2 DEF Agree
  <2>4. QED
    BY <1>16, <2>3 DEF Of
<1>17. IsPool(o, held \ {u}, {u})
  <2> DEFINE hold == held \ {u}
             gape == {u}
             none == {}
  <2>1. \A v \in hold \cup gape : v[1] \in 1..m.blocks
    BY <1>1
  <2>2. \A v \in hold : o.size[v] \in Request
    BY <1>1, <1>4
  <2>3. hold \in SUBSET Unit /\ gape \in SUBSET Unit
    BY <1>1
  <2>4. \E A, B : BlockSound(o, b, hold, gape, A, B)
    BY <1>15
  <2>5. \A c \in 1..m.blocks : c # b =>
             Agree(m, o, c) /\ Of(hold, c) = Of(held, c) /\ Of(gape, c) = Of(none, c)
    BY <1>16
  <2>6. IsPool(m, held, none)
    OBVIOUS
  <2> HIDE DEF hold, gape, none
  <2>7. IsPool(o, hold, gape)
    BY <1>4, <2>1, <2>2, <2>3, <2>4, <2>5, <2>6, PoolStep
  <2>8. QED
    BY <2>7 DEF hold, gape
<1>18. QED
  BY <1>4, <1>17 DEF o

-----------------------------------------------------------------------------
(***************************************************************************)
(* bmemory_free, second half: the chunk enters the free list.              *)
(***************************************************************************)
\* What Insert does to the fields: v is the chunk that u is part of now.
Merged(m, u, p)      == IF Touches(m, p, u) THEN p ELSE u
Behind(m, u, n)      == IF Touches(m, u, n) THEN m.next[n] ELSE n
Together(m, u, p, n) == m.size[u] + (IF Touches(m, p, u) THEN m.size[p] ELSE 0)
                                  + (IF Touches(m, u, n) THEN m.size[n] ELSE 0)

\* Touching chunks are chunks.
LEMMA MergedTyped ==
  ASSUME NEW m \in Memory, NEW u \in Unit, NEW p \in Link, NEW n \in Link
  PROVE  /\ Merged(m, u, p) \in Unit
         /\ Behind(m, u, n) \in Link
         /\ Together(m, u, p, n) \in Nat
         /\ m.size[u] <= Together(m, u, p, n)
<1>1. Touches(m, p, u) => p \in Unit
  BY DEF Touches, Link
<1>2. Touches(m, u, n) => n \in Unit
  BY DEF Touches, Link
<1>3. \A w \in Unit : m.size[w] \in Nat /\ m.next[w] \in Link
  BY FieldTypes DEF Links
<1>4. Merged(m, u, p) \in Unit /\ Behind(m, u, n) \in Link
  BY <1>1, <1>2, <1>3 DEF Merged, Behind
<1> DEFINE x == IF Touches(m, p, u) THEN m.size[p] ELSE 0
           y == IF Touches(m, u, n) THEN m.size[n] ELSE 0
<1>5. x \in Nat /\ y \in Nat
  BY <1>1, <1>2, <1>3
<1>6. Together(m, u, p, n) = m.size[u] + x + y
  BY DEF Together
<1> HIDE DEF x, y
<1>7. QED
  BY <1>3, <1>4, <1>5, <1>6

\* Insert leaves a memory, and this is the header of the free list.
LEMMA InsertFields ==
  ASSUME NEW m \in Memory, NEW u \in Unit, NEW p \in Link, NEW n \in Link
  PROVE  /\ Insert(m, u, p, n) \in Memory
         /\ Insert(m, u, p, n).blocks = m.blocks
         /\ Insert(m, u, p, n).used = m.used
         /\ Insert(m, u, p, n).free = [m.free EXCEPT ![u[1]] = IF p = NULL THEN u ELSE @]
<1> DEFINE v == Merged(m, u, p)
           w == Behind(m, u, n)
           free == [m.free EXCEPT ![u[1]] = IF p = NULL THEN u ELSE @]
           size == [m.size EXCEPT ![v] = Together(m, u, p, n)]
           pre0 == IF Touches(m, p, u) THEN m.pre ELSE [m.pre EXCEPT ![u] = p]
           next0 == IF Touches(m, p, u) THEN m.next ELSE Set(m.next, p, u)
           pre  == Set(pre0, w, v)
           next == [next0 EXCEPT ![v] = w]
<1>1. Insert(m, u, p, n) = [m EXCEPT !.free = free, !.size = size, !.pre = pre, !.next = next]
  BY DEF Insert, Merged, Behind, Together, Memory
<1>2. /\ m.next \in Links /\ m.pre \in Links /\ m.size \in [Unit -> Nat]
      /\ m.free \in [1..MaxBlock -> Link] /\ u[1] \in 1..MaxBlock
  BY FieldTypes, UnitParts
<1>3. v \in Unit /\ w \in Link /\ v \in Link /\ u \in Link /\ Together(m, u, p, n) \in Nat
  BY MergedTyped DEF Link
<1> HIDE DEF v, w
<1>4. pre0 \in Links
  BY <1>2 DEF Links, Link
<1>5. next0 \in Links
  BY <1>2, <1>3, SetAt
<1> HIDE DEF pre0, next0
<1>6. pre \in Links /\ next \in Links
  <2>1. pre \in Links
    BY <1>3, <1>4, SetAt
  <2>2. next \in Links
    BY <1>3, <1>5 DEF Links
  <2>3. QED
    BY <2>1, <2>2
<1>7. size \in [Unit -> Nat]
  BY <1>2, <1>3
<1>8. free \in [1..MaxBlock -> Link]
  BY <1>2, <1>3
<1> HIDE DEF free, size, pre, next
<1>9. LET o == [m EXCEPT !.free = free, !.size = size, !.pre = pre, !.next = next]
      IN  o \in Memory /\ o.blocks = m.blocks /\ o.used = m.used /\ o.free = free
  BY <1>6, <1>7, <1>8 DEF Memory
<1>10. QED
  BY <1>1, <1>9 DEF free

\* The other fields, unit by unit.
LEMMA InsertAt ==
  ASSUME NEW m \in Memory, NEW u \in Unit, NEW p \in Link, NEW n \in Link, NEW x \in Unit
  PROVE  /\ Insert(m, u, p, n).size[x]
              = IF x = Merged(m, u, p) THEN Together(m, u, p, n) ELSE m.size[x]
         /\ Insert(m, u, p, n).next[x]
              = IF x = Merged(m, u, p) THEN Behind(m, u, n)
                ELSE IF ~Touches(m, p, u) /\ x = p THEN u ELSE m.next[x]
         /\ Insert(m, u, p, n).pre[x]
              = IF x = Behind(m, u, n) THEN Merged(m, u, p)
                ELSE IF ~Touches(m, p, u) /\ x = u THEN p ELSE m.pre[x]
<1> DEFINE whole == Merged(m, u, p)
           rest == Behind(m, u, n)
           pre0 == IF Touches(m, p, u) THEN m.pre ELSE [m.pre EXCEPT ![u] = p]
           next0 == IF Touches(m, p, u) THEN m.next ELSE Set(m.next, p, u)
<1>1. /\ m.next \in Links /\ m.pre \in Links /\ m.size \in [Unit -> Nat]
  BY FieldTypes
<1>2. whole \in Unit /\ rest \in Link /\ whole \in Link /\ u \in Link
  BY MergedTyped DEF Link
<1>3. /\ Insert(m, u, p, n).size = [m.size EXCEPT ![whole] = Together(m, u, p, n)]
      /\ Insert(m, u, p, n).pre = Set(pre0, rest, whole)
      /\ Insert(m, u, p, n).next = [next0 EXCEPT ![whole] = rest]
  BY DEF Insert, Merged, Behind, Together, Memory
<1> HIDE DEF whole, rest
<1>4. pre0 \in Links /\ next0 \in Links
  <2>1. pre0 \in Links
    BY <1>1 DEF Links, Link
  <2>2. next0 \in Links
    BY <1>1, <1>2, SetAt
  <2>3. QED
    BY <2>1, <2>2
<1>5. pre0[x] = IF ~Touches(m, p, u) /\ x = u THEN p ELSE m.pre[x]
  BY <1>1 DEF Links
<1>6. next0[x] = IF ~Touches(m, p, u) /\ x = p THEN u ELSE m.next[x]
  <2> HIDE DEF pre0
  <2>1. PICK f \in Links : f = m.next
    BY <1>1
  <2>2. f[x] = m.next[x] /\ next0 = IF Touches(m, p, u) THEN f ELSE Set(f, p, u)
    BY <2>1
  <2> HIDE DEF next0
  <2>3. Set(f, p, u)[x] = IF x = p THEN u ELSE f[x]
    BY <1>2, SetAt
  <2>4. QED
    BY <2>2, <2>3
<1> HIDE DEF pre0, next0
<1>7. \A y \in Unit : Set(pre0, rest, whole)[y] = IF y = rest THEN whole ELSE pre0[y]
  BY <1>2, <1>4, SetAt
<1>8. QED
  <2>1. [next0 EXCEPT ![whole] = rest][x] = IF x = whole THEN rest ELSE next0[x]
    BY <1>2, <1>4 DEF Links
  <2>2. [m.size EXCEPT ![whole] = Together(m, u, p, n)][x]
          = IF x = whole THEN Together(m, u, p, n) ELSE m.size[x]
    BY <1>1
  <2>3. QED
    BY <1>3, <1>5, <1>6, <1>7, <2>1, <2>2 DEF whole, rest

\* The walk of bmemory_free ends where u belongs: what is before starts at or
\* before u, what is behind starts behind it.
LEMMA NeighboursFound ==
  ASSUME NEW m \in Memory, NEW u \in Unit, NEW F,
         IsChain(F, m.free[u[1]], m.next, m.pre), Apart(F, m.size)
  PROVE  \E s \in 1..(Len(F) + 1) :
           /\ Neighbours(m, u).pre = At(F, s - 1)
           /\ Neighbours(m, u).next = At(F, s)
           /\ \A i \in 1..Len(F) : i < s => F[i][2] <= u[2]
           /\ \A i \in 1..Len(F) : ~(i < s) => F[i][2] > u[2]
<1> DEFINE L == Len(F)
           behind == {i \in 1..L : F[i][2] > u[2]}
           s == IF behind = {} THEN L + 1 ELSE Min(behind)
<1>1. L \in Nat /\ DOMAIN F = 1..L /\ \A i \in 1..L : F[i] \in Unit
  BY DEF IsChain
<1>2. FreeList(m, u[1]) = F
  <2>1. PICK f \in [Unit -> Link] : f = m.next
    BY FieldTypes DEF Links
  <2>2. Follow(m.free[u[1]], f) = F
    BY <2>1, FollowChain
  <2>3. QED
    BY <2>1, <2>2 DEF FreeList
<1>3. \A i \in 1..L : F[i][2] \in Nat /\ u[2] \in Nat /\ m.size[F[i]] \in Nat
  BY <1>1, UnitParts, FieldTypes
<1>4. s \in 1..(L + 1) /\ \A i \in 1..L : /\ i < s => i \notin behind
                                          /\ ~(i < s) => i \in behind
  <2>1. CASE behind = {}
    BY <1>1, <2>1
  <2>2. CASE behind # {}
    <3>1. behind \in SUBSET Nat
      BY <1>1
    <3>2. s = Min(behind) /\ Min(behind) \in behind /\ \A y \in behind : Min(behind) <= y
      BY <2>2, <3>1, MinOf
    <3> HIDE DEF s
    <3>3. s \in 1..L /\ s \in Nat /\ F[s][2] > u[2]
      BY <1>1, <3>2
    <3>4. ASSUME NEW i \in 1..L, i < s
          PROVE  i \notin behind
      <4>1. i \in behind => s <= i
        BY <3>2
      <4>2. i \in Nat
        BY <1>1
      <4>3. QED
        BY <3>3, <3>4, <4>1, <4>2
    <3>5. ASSUME NEW i \in 1..L, ~(i < s)
          PROVE  i \in behind
      <4>1. i \in Nat
        BY <1>1
      <4>2. CASE i = s
        BY <3>2, <4>2
      <4>3. CASE i # s
        <5>1. s < i
          BY <3>3, <3>5, <4>1, <4>3
        <5>2. F[s][2] + m.size[F[s]] < F[i][2]
          BY <3>3, <5>1 DEF Apart
        <5>3. F[i][2] > u[2]
          BY <1>3, <3>3, <5>2
        <5>4. QED
          BY <5>3
      <4>4. QED
        BY <4>2, <4>3
    <3>6. s \in 1..(L + 1)
      BY <1>1, <3>3
    <3>7. QED
      BY <3>4, <3>5, <3>6
  <2>3. QED
    BY <2>1, <2>2
<1>5. Neighbours(m, u) = [pre |-> IF s = 1 THEN NULL ELSE F[s - 1],
                          next |-> IF s > L THEN NULL ELSE F[s]]
  <2>1. {i \in DOMAIN F : F[i][2] > u[2]} = behind
    BY <1>1
  <2>2. QED
    BY <1>2, <2>1, Zenon DEF Neighbours
<1> HIDE DEF s
<1>6. /\ At(F, s - 1) = IF s = 1 THEN NULL ELSE F[s - 1]
      /\ At(F, s) = IF s > L THEN NULL ELSE F[s]
  <2>1. /\ s # 1 => s - 1 \in 1..L
        /\ s = 1 => s - 1 \notin 1..L
        /\ s > L => s \notin 1..L
        /\ ~(s > L) => s \in 1..L
    BY <1>1, <1>4
  <2>2. QED
    BY <2>1 DEF At
<1>7. \A i \in 1..L : /\ i \notin behind => F[i][2] <= u[2]
                      /\ i \in behind => F[i][2] > u[2]
  BY <1>3
<1>8. QED
  BY <1>4, <1>5, <1>6, <1>7

\* u, in neither list, belongs before what is the s-th free chunk.
Entering(m, held, u, F, U, s) ==
  /\ IsPool(m, held, {u})
  /\ BlockSound(m, u[1], held, {u}, F, U)
  /\ s \in 1..(Len(F) + 1)
  /\ \A i \in 1..Len(F) : i < s => F[i][2] <= u[2]
  /\ \A i \in 1..Len(F) : ~(i < s) => F[i][2] > u[2]

\* What is before u ends where u starts or before, what is behind starts where
\* u ends or behind, and Touches tells which.
LEMMA EnteringFacts ==
  ASSUME NEW m, NEW held, NEW u, NEW F, NEW U, NEW s, Entering(m, held, u, F, U, s)
  PROVE  /\ m \in Memory /\ u \in Unit /\ Len(F) \in Nat /\ s \in Nat
         /\ At(F, s - 1) \in Link /\ At(F, s) \in Link
         /\ u[2] \in Nat /\ m.size[u] \in Nat /\ m.size[u] > 0
         /\ u \notin Members(F) /\ u \notin Members(U)
         /\ \A i \in 1..Len(F) :
              /\ F[i] \in Unit /\ F[i] \in Members(F) /\ F[i] # u /\ F[i] # NULL
              /\ F[i][2] \in Nat /\ m.size[F[i]] \in Nat /\ m.size[F[i]] > 0
              /\ i < s => F[i][2] + m.size[F[i]] <= u[2]
              /\ ~(i < s) => u[2] + m.size[u] <= F[i][2]
         /\ Touches(m, At(F, s - 1), u)
              <=> s - 1 \in 1..Len(F) /\ F[s - 1][2] + m.size[F[s - 1]] = u[2]
         /\ Touches(m, u, At(F, s)) <=> s \in 1..Len(F) /\ u[2] + m.size[u] = F[s][2]
<1> DEFINE b == u[1]
           H == Members(F) \cup Members(U) \cup Of({u}, b)
<1>1. /\ m \in Memory /\ u \in Unit
      /\ IsChain(F, m.free[b], m.next, m.pre)
      /\ Of({u}, b) \cap (Members(F) \cup Members(U)) = {}
      /\ Tiles(H, b, m.size)
      /\ s \in 1..(Len(F) + 1)
      /\ \A i \in 1..Len(F) : i < s => F[i][2] <= u[2]
      /\ \A i \in 1..Len(F) : ~(i < s) => F[i][2] > u[2]
  BY DEF Entering, BlockSound, IsPool
<1>2. u \in Of({u}, b)
  BY DEF Of
<1>3. u \notin Members(F) /\ u \notin Members(U) /\ u \in H
  BY <1>1, <1>2
<1>4. /\ Len(F) \in Nat
      /\ \A i \in 1..Len(F) : F[i] \in Unit /\ F[i] # NULL /\ F[i] \in Members(F)
      /\ \A i \in Int : /\ At(F, i) \in Link
                        /\ At(F, i) = NULL <=> i \notin 1..Len(F)
      /\ \A i \in 1..Len(F) : At(F, i) = F[i]
  BY <1>1, AtFacts
<1>5. s \in Nat /\ s \in Int /\ s - 1 \in Int
  BY <1>1, <1>4
<1>6. \A v \in H : v \in Unit /\ v[1] = b /\ v[2] \in Nat /\ m.size[v] \in Nat /\ m.size[v] > 0
  BY <1>1, UnitParts DEF Tiles
<1>7. \A v, w \in H : v[2] < w[2] => v[2] + m.size[v] <= w[2]
  BY <1>1 DEF Tiles
<1>8. \A i \in 1..Len(F) : F[i] \in H /\ F[i] # u
  BY <1>3, <1>4
<1>9. ASSUME NEW i \in 1..Len(F)
      PROVE  /\ i < s => F[i][2] + m.size[F[i]] <= u[2]
             /\ ~(i < s) => u[2] + m.size[u] <= F[i][2]
  <2> HIDE DEF b, H
  <2>1. F[i][2] # u[2]
    BY <1>1, <1>3, <1>8, SamePlace
  <2>2. F[i][2] \in Nat /\ u[2] \in Nat
    BY <1>3, <1>6, <1>8
  <2>3. /\ i < s => F[i][2] < u[2]
        /\ ~(i < s) => u[2] < F[i][2]
    BY <1>1, <2>1, <2>2
  <2>4. QED
    BY <1>3, <1>7, <1>8, <2>3
<1> HIDE DEF b, H
<1>10. \A v, w \in H : v # NULL /\ w # NULL /\ (Plus(v, m.size[v]) = w <=> v[2] + m.size[v] = w[2])
  <2> SUFFICES ASSUME NEW v \in H, NEW w \in H
               PROVE  v # NULL /\ w # NULL /\ (Plus(v, m.size[v]) = w <=> v[2] + m.size[v] = w[2])
    OBVIOUS
  <2>1. w = <<w[1], w[2]>> /\ w[1] = v[1] /\ v # NULL /\ w # NULL
    BY <1>6, UnitParts
  <2>2. QED
    BY <2>1 DEF Plus
<1>11. Touches(m, At(F, s - 1), u)
         <=> s - 1 \in 1..Len(F) /\ F[s - 1][2] + m.size[F[s - 1]] = u[2]
  BY <1>3, <1>4, <1>5, <1>8, <1>10 DEF Touches
<1>12. Touches(m, u, At(F, s)) <=> s \in 1..Len(F) /\ u[2] + m.size[u] = F[s][2]
  BY <1>3, <1>4, <1>5, <1>8, <1>10 DEF Touches
<1>13. At(F, s - 1) \in Link /\ At(F, s) \in Link
  BY <1>4, <1>5
<1>14. QED
  BY <1>1, <1>3, <1>4, <1>5, <1>6, <1>8, <1>9, <1>11, <1>12, <1>13

\* Insert writes to the free chunks and to u only.
LEMMA InsertElsewhere ==
  ASSUME NEW m, NEW held, NEW u, NEW F, NEW U, NEW s, Entering(m, held, u, F, U, s),
         NEW o, o = Insert(m, u, At(F, s - 1), At(F, s)),
         NEW x \in Unit, x \notin Members(F), x # u
  PROVE  o.size[x] = m.size[x] /\ o.next[x] = m.next[x] /\ o.pre[x] = m.pre[x]
<1> DEFINE p == At(F, s - 1)
           n == At(F, s)
<1>1. /\ m \in Memory /\ u \in Unit /\ p \in Link /\ n \in Link /\ s \in Nat /\ Len(F) \in Nat
      /\ \A i \in 1..Len(F) : F[i] # NULL
      /\ Touches(m, u, n) => s \in 1..Len(F)
  BY EnteringFacts
<1>2. IsChain(F, m.free[u[1]], m.next, m.pre)
  BY DEF Entering, BlockSound
<1>3. /\ \A i \in 1..Len(F) : At(F, i) = F[i]
      /\ \A i \in Int : At(F, i) # NULL => At(F, i) \in Members(F)
  BY <1>2, AtFacts
<1>4. s \in Int /\ s - 1 \in Int /\ s + 1 \in Int
  BY <1>1
<1>5. x # NULL
  BY UnitParts
<1>6. x # p /\ x # n
  BY <1>3, <1>4, <1>5
<1>7. x # Merged(m, u, p)
  BY <1>6 DEF Merged
<1>8. x # Behind(m, u, n)
  <2>1. CASE Touches(m, u, n)
    <3>1. n = F[s] /\ m.next[F[s]] = At(F, s + 1)
      BY <1>1, <1>2, <1>3, <2>1 DEF IsChain
    <3>2. At(F, s + 1) # x
      BY <1>3, <1>4, <1>5
    <3>3. QED
      BY <2>1, <3>1, <3>2 DEF Behind
  <2>2. CASE ~Touches(m, u, n)
    BY <1>6, <2>2 DEF Behind
  <2>3. QED
    BY <2>1, <2>2
<1> HIDE DEF p, n
<1>9. o = Insert(m, u, p, n)
  BY DEF p, n
<1>10. QED
  BY <1>1, <1>6, <1>7, <1>8, <1>9, InsertAt

\* What makes G the free list after u has entered.
EnteredAs(o, F, U, u, G) ==
  /\ IsChain(G, o.free[u[1]], o.next, o.pre)
  /\ Apart(G, o.size)
  /\ Members(G) \in SUBSET (Members(F) \cup {u})
  /\ Tiles(Members(G) \cup Members(U), u[1], o.size)

\* If it makes a sound free list, the pool is sound.
LEMMA InsertPool ==
  ASSUME NEW m, NEW held, NEW u, NEW F, NEW U, NEW s, Entering(m, held, u, F, U, s),
         NEW o, o = Insert(m, u, At(F, s - 1), At(F, s)),
         NEW G, EnteredAs(o, F, U, u, G)
  PROVE  IsPool(o, held, {}) /\ \A v \in held : o.size[v] = m.size[v]
<1> DEFINE b == u[1]
<1>0. /\ IsChain(G, o.free[b], o.next, o.pre) /\ Apart(G, o.size)
      /\ Members(G) \in SUBSET (Members(F) \cup {u})
      /\ Tiles(Members(G) \cup Members(U), b, o.size)
  BY DEF EnteredAs
<1>1. /\ m \in Memory /\ u \in Unit /\ u \notin Members(U)
      /\ At(F, s - 1) \in Link /\ At(F, s) \in Link
  BY EnteringFacts
<1>2. /\ IsPool(m, held, {u})
      /\ IsChain(F, m.free[b], m.next, m.pre)
      /\ IsChain(U, m.used[b], m.next, m.pre)
      /\ Members(U) = Of(held, b)
      /\ Members(F) \cap Members(U) = {}
      /\ Tiles(Members(F) \cup Members(U) \cup Of({u}, b), b, m.size)
  BY DEF Entering, BlockSound
<1>3. /\ o \in Memory /\ o.blocks = m.blocks /\ o.used = m.used
      /\ o.free = [m.free EXCEPT ![b] = IF At(F, s - 1) = NULL THEN u ELSE @]
  BY <1>1, InsertFields
<1>4. \A x \in Unit : x \notin Members(F) /\ x # u
        => o.size[x] = m.size[x] /\ o.next[x] = m.next[x] /\ o.pre[x] = m.pre[x]
  BY InsertElsewhere
<1>5. \A x \in Members(F) \cup {u} : x[1] = b
  BY <1>2 DEF Tiles
<1>6. held \in SUBSET Unit /\ b \in 1..m.blocks /\ b \in 1..MaxBlock
      /\ \A v \in held : v[1] \in 1..m.blocks /\ m.size[v] \in Request
  BY <1>1, <1>2, UnitParts DEF IsPool
<1>7. \A v \in held : v \notin Members(F) /\ v # u
  <2> SUFFICES ASSUME NEW v \in held PROVE v \notin Members(F) /\ v # u
    OBVIOUS
  <2>1. CASE v[1] = b
    BY <1>1, <1>2, <2>1 DEF Of
  <2>2. CASE v[1] # b
    BY <1>5, <2>2
  <2>3. QED
    BY <2>1, <2>2
<1>8. \A v \in held : o.size[v] = m.size[v]
  BY <1>4, <1>6, <1>7
<1>9. IsChain(U, o.used[b], o.next, o.pre)
  <2>1. \A i \in 1..Len(U) : U[i] \in Unit /\ U[i] \in Members(U)
    BY <1>2, AtFacts
  <2>2. \A i \in 1..Len(U) : o.next[U[i]] = m.next[U[i]] /\ o.pre[U[i]] = m.pre[U[i]]
    BY <1>1, <1>2, <1>4, <2>1
  <2>3. QED
    BY <1>2, <1>3, <2>2, ChainElsewhere
<1>10. BlockSound(o, b, held, {}, G, U)
  <2>1. Of({}, b) = {}
    BY DEF Of
  <2>2. Members(G) \cap Members(U) = {}
    BY <1>0, <1>1, <1>2
  <2>3. Members(G) \cup Members(U) \cup Of({}, b) = Members(G) \cup Members(U)
    BY <2>1
  <2>4. QED
    BY <1>0, <1>2, <1>9, <2>1, <2>2, <2>3 DEF BlockSound
<1>11. ASSUME NEW c \in 1..m.blocks, c # b
       PROVE  Agree(m, o, c) /\ Of(held, c) = Of(held, c) /\ Of({}, c) = Of({u}, c)
  <2>1. c \in 1..MaxBlock /\ m.free \in [1..MaxBlock -> Link]
    BY <1>1, FieldTypes
  <2>2. o.free[c] = m.free[c] /\ o.used[c] = m.used[c]
    BY <1>3, <1>6, <1>11, <2>1
  <2>3. \A v \in Unit : v[1] = c => v \notin Members(F) /\ v # u
    BY <1>5, <1>11
  <2>4. Agree(m, o, c)
    BY <1>4, <2>2, <2>3 DEF Agree
  <2>5. QED
    BY <1>11, <2>4 DEF Of
<1>12. IsPool(o, held, {})
  <2>1. \A v \in held \cup {} : v[1] \in 1..m.blocks
    BY <1>6
  <2>2. \A v \in held : o.size[v] \in Request
    BY <1>6, <1>8
  <2>3. \E A, B : BlockSound(o, b, held, {}, A, B)
    BY <1>10
  <2> DEFINE none == {}
  <2>4. /\ none \in SUBSET Unit
        /\ \A v \in held \cup none : v[1] \in 1..m.blocks
        /\ \E A, B : BlockSound(o, b, held, none, A, B)
        /\ \A c \in 1..m.blocks : c # b =>
             Agree(m, o, c) /\ Of(held, c) = Of(held, c) /\ Of(none, c) = Of({u}, c)
    BY <1>11, <2>1, <2>3, Zenon
  <2>5. IsPool(o, held, none)
    <3> HIDE DEF none
    <3>1. IsPool(m, held, {u}) /\ o \in Memory /\ o.blocks = m.blocks /\ held \in SUBSET Unit
      BY <1>2, <1>3, <1>6
    <3>2. QED
      BY <2>2, <2>4, <3>1, PoolStep
  <2>6. QED
    BY <2>5
<1>13. QED
  BY <1>8, <1>12

\* G is F before its k-th chunk, and F shifted by d behind it, and that chunk
\* keeps clear of both parts.
Around(F, size, G, other, k, d) ==
  /\ Apart(F, size)
  /\ \A i \in 1..Len(F) : F[i][2] \in Nat /\ size[F[i]] \in Nat
  /\ Len(G) \in Nat /\ k \in 1..Len(G) /\ d \in Int
  /\ G[k][2] \in Nat /\ other[G[k]] \in Nat
  /\ \A i \in 1..Len(G) : i < k =>
       /\ i \in 1..Len(F) /\ G[i] = F[i] /\ other[F[i]] = size[F[i]]
       /\ F[i][2] + size[F[i]] < G[k][2]
  /\ \A i \in 1..Len(G) : i > k =>
       /\ i + d \in 1..Len(F) /\ G[i] = F[i + d] /\ other[F[i + d]] = size[F[i + d]]
       /\ G[k][2] + other[G[k]] < F[i + d][2]

\* Then it is in order.
LEMMA ApartAround ==
  ASSUME NEW F, NEW size, NEW G, NEW other, NEW k, NEW d,
         Around(F, size, G, other, k, d)
  PROVE  Apart(G, other)
<1> DEFINE start(i) == G[i][2]
           end(i)   == G[i][2] + other[G[i]]
<1>0. /\ Apart(F, size)
      /\ \A i \in 1..Len(F) : F[i][2] \in Nat /\ size[F[i]] \in Nat
      /\ Len(G) \in Nat /\ k \in 1..Len(G) /\ d \in Int
      /\ G[k][2] \in Nat /\ other[G[k]] \in Nat
      /\ \A i \in 1..Len(G) : i < k =>
           /\ i \in 1..Len(F) /\ G[i] = F[i] /\ other[F[i]] = size[F[i]]
           /\ F[i][2] + size[F[i]] < G[k][2]
      /\ \A i \in 1..Len(G) : i > k =>
           /\ i + d \in 1..Len(F) /\ G[i] = F[i + d] /\ other[F[i + d]] = size[F[i + d]]
           /\ G[k][2] + other[G[k]] < F[i + d][2]
  BY Zenon DEF Around
<1>1. /\ start(k) \in Nat /\ end(k) \in Nat /\ start(k) <= end(k)
      /\ \A i \in 1..Len(G) : i < k => /\ start(i) \in Nat /\ end(i) \in Nat
                                       /\ start(i) <= end(i) /\ end(i) < start(k)
      /\ \A i \in 1..Len(G) : i > k => /\ start(i) \in Nat /\ end(i) \in Nat
                                       /\ start(i) <= end(i) /\ end(k) < start(i)
  <2>1. ASSUME NEW i \in 1..Len(G), i < k
        PROVE  /\ start(i) \in Nat /\ end(i) \in Nat
               /\ start(i) <= end(i) /\ end(i) < start(k)
    <3>1. /\ i \in 1..Len(F) /\ G[i] = F[i] /\ other[F[i]] = size[F[i]]
          /\ F[i][2] + size[F[i]] < G[k][2]
      BY <1>0, <2>1
    <3>2. F[i][2] \in Nat /\ size[F[i]] \in Nat
      BY <1>0, <3>1
    <3>3. QED
      BY <3>1, <3>2
  <2>2. ASSUME NEW i \in 1..Len(G), i > k
        PROVE  /\ start(i) \in Nat /\ end(i) \in Nat
               /\ start(i) <= end(i) /\ end(k) < start(i)
    <3>1. /\ i + d \in 1..Len(F) /\ G[i] = F[i + d] /\ other[F[i + d]] = size[F[i + d]]
          /\ G[k][2] + other[G[k]] < F[i + d][2]
      BY <1>0, <2>2
    <3>2. F[i + d][2] \in Nat /\ size[F[i + d]] \in Nat
      BY <1>0, <3>1
    <3>3. QED
      BY <3>1, <3>2
  <2>3. QED
    BY <1>0, <2>1, <2>2
<1>2. ASSUME NEW i \in 1..Len(G), NEW j \in 1..Len(G), i < j, j < k
      PROVE  end(i) < start(j)
  <2>1. i < k
    BY <1>0, <1>2
  <2>2. /\ i \in 1..Len(F) /\ G[i] = F[i] /\ other[F[i]] = size[F[i]]
        /\ j \in 1..Len(F) /\ G[j] = F[j]
    BY <1>0, <1>2, <2>1
  <2>3. QED
    BY <1>0, <1>2, <2>2 DEF Apart
<1>3. ASSUME NEW i \in 1..Len(G), NEW j \in 1..Len(G), i < j, i > k
      PROVE  end(i) < start(j)
  <2>1. j > k /\ i + d < j + d
    BY <1>0, <1>3
  <2>2. /\ i + d \in 1..Len(F) /\ G[i] = F[i + d] /\ other[F[i + d]] = size[F[i + d]]
        /\ j + d \in 1..Len(F) /\ G[j] = F[j + d]
    BY <1>0, <1>3, <2>1
  <2>3. QED
    BY <1>0, <2>1, <2>2 DEF Apart
<1> HIDE DEF start, end
<1>4. ASSUME NEW i \in 1..Len(G), NEW j \in 1..Len(G), i < j
      PROVE  end(i) < start(j)
  <2>1. CASE j < k
    BY <1>2, <1>4, <2>1
  <2>2. CASE i > k
    BY <1>3, <1>4, <2>2
  <2>3. CASE i = k
    BY <1>1, <1>4, <2>3
  <2>4. CASE j = k
    BY <1>1, <1>4, <2>4
  <2>5. CASE i < k /\ j > k
    <3>1. /\ end(i) < start(k) /\ start(k) <= end(k) /\ end(k) < start(j)
          /\ end(i) \in Nat /\ start(k) \in Nat /\ end(k) \in Nat /\ start(j) \in Nat
      BY <1>1, <2>5
    <3>2. QED
      BY <3>1
  <2>6. QED
    BY <1>0, <1>4, <2>1, <2>2, <2>3, <2>4, <2>5
<1>5. QED
  BY <1>4 DEF Apart, start, end

\* The list that u enters: its places, its links, and how far its chunks keep
\* from u.
LEMMA EnteringPlaces ==
  ASSUME NEW m, NEW held, NEW u, NEW F, NEW U, NEW s, Entering(m, held, u, F, U, s)
  PROVE  LET b == u[1]
             p == At(F, s - 1)
             n == At(F, s)
         IN  /\ b \in 1..MaxBlock /\ m.free[b] \in Link
             /\ IsChain(F, m.free[b], m.next, m.pre) /\ Apart(F, m.size)
             /\ p = NULL <=> s = 1
             /\ \A i \in 1..Len(F) : /\ F[i] = p <=> i = s - 1
                                     /\ F[i] = n <=> i = s
                                     /\ F[i] = At(F, s + 1) <=> i = s + 1
                                     /\ m.next[F[i]] = At(F, i + 1)
                                     /\ m.pre[F[i]] = At(F, i - 1)
                                     /\ At(F, i) = F[i]
             /\ u # p /\ u # n /\ u # At(F, s + 1)
             /\ Touches(m, p, u) => \A i \in 1..Len(F) : i < s - 1 =>
                  F[i][2] + m.size[F[i]] < F[s - 1][2]
             /\ ~Touches(m, p, u) => \A i \in 1..Len(F) : i < s =>
                  F[i][2] + m.size[F[i]] < u[2]
             /\ Touches(m, u, n) => \A i \in 1..Len(F) : i > s =>
                  F[s][2] + m.size[F[s]] < F[i][2]
             /\ ~Touches(m, u, n) => \A i \in 1..Len(F) : i > s - 1 =>
                  u[2] + m.size[u] < F[i][2]
<1> DEFINE b == u[1]
           p == At(F, s - 1)
           n == At(F, s)
<1>1. /\ m \in Memory /\ u \in Unit /\ Len(F) \in Nat /\ s \in Nat
      /\ u[2] \in Nat /\ m.size[u] \in Nat /\ m.size[u] > 0 /\ u \notin Members(F)
      /\ \A i \in 1..Len(F) :
              /\ F[i][2] \in Nat /\ m.size[F[i]] \in Nat /\ m.size[F[i]] > 0
              /\ i < s => F[i][2] + m.size[F[i]] <= u[2]
              /\ ~(i < s) => u[2] + m.size[u] <= F[i][2]
      /\ Touches(m, p, u) <=> s - 1 \in 1..Len(F) /\ F[s - 1][2] + m.size[F[s - 1]] = u[2]
      /\ Touches(m, u, n) <=> s \in 1..Len(F) /\ u[2] + m.size[u] = F[s][2]
  BY EnteringFacts
<1>2. IsChain(F, m.free[b], m.next, m.pre) /\ Apart(F, m.size) /\ s \in 1..(Len(F) + 1)
  BY DEF Entering, BlockSound
<1>3. /\ \A i \in 1..Len(F) : At(F, i) = F[i]
      /\ \A i \in Int :
              /\ At(F, i) = NULL <=> i \notin 1..Len(F)
              /\ At(F, i) # NULL => At(F, i) \in Members(F)
              /\ \A j \in 1..Len(F) : F[j] = At(F, i) <=> j = i
  BY <1>2, AtFacts
<1>4. s \in Int /\ s - 1 \in Int /\ s + 1 \in Int
  BY <1>1
<1>5. b \in 1..MaxBlock /\ m.free[b] \in Link /\ u # NULL
  BY <1>1, UnitParts, FieldTypes
<1>6. p = NULL <=> s = 1
  <2>1. s - 1 \notin 1..Len(F) <=> s = 1
    BY <1>1, <1>2
  <2>2. QED
    BY <1>3, <1>4, <2>1
<1>7. \A i \in 1..Len(F) : /\ F[i] = p <=> i = s - 1
                           /\ F[i] = n <=> i = s
                           /\ F[i] = At(F, s + 1) <=> i = s + 1
                           /\ m.next[F[i]] = At(F, i + 1)
                           /\ m.pre[F[i]] = At(F, i - 1)
                           /\ At(F, i) = F[i]
  BY <1>2, <1>3, <1>4 DEF IsChain
<1>8. u # p /\ u # n /\ u # At(F, s + 1)
  BY <1>1, <1>3, <1>4, <1>5
<1> HIDE DEF p, n
<1>9. ASSUME Touches(m, p, u), NEW i \in 1..Len(F), i < s - 1
      PROVE  F[i][2] + m.size[F[i]] < F[s - 1][2]
  BY <1>1, <1>2, <1>9 DEF Apart
<1>10. ASSUME ~Touches(m, p, u), NEW i \in 1..Len(F), i < s
       PROVE  F[i][2] + m.size[F[i]] < u[2]
  <2>1. s - 1 \in 1..Len(F) /\ s - 1 < s
    BY <1>1, <1>2, <1>10
  <2>2. F[s - 1][2] + m.size[F[s - 1]] # u[2] /\ F[s - 1][2] + m.size[F[s - 1]] <= u[2]
    BY <1>1, <1>10, <2>1
  <2>3. F[s - 1][2] \in Nat /\ m.size[F[s - 1]] \in Nat /\ F[i][2] \in Nat /\ m.size[F[i]] \in Nat
    BY <1>1, <2>1
  <2>4. CASE i = s - 1
    BY <1>1, <2>2, <2>3, <2>4
  <2>5. CASE i # s - 1
    <3>1. i < s - 1
      BY <1>1, <1>10, <2>5
    <3>2. F[i][2] + m.size[F[i]] < F[s - 1][2]
      BY <1>2, <2>1, <3>1 DEF Apart
    <3>3. u[2] \in Nat
      BY <1>1
    <3>4. QED
      BY <2>2, <2>3, <3>2, <3>3
  <2>6. QED
    BY <2>4, <2>5
<1>11. ASSUME Touches(m, u, n), NEW i \in 1..Len(F), i > s
       PROVE  F[s][2] + m.size[F[s]] < F[i][2]
  BY <1>1, <1>2, <1>11 DEF Apart
<1>12. ASSUME ~Touches(m, u, n), NEW i \in 1..Len(F), i > s - 1
       PROVE  u[2] + m.size[u] < F[i][2]
  <2>1. s \in 1..Len(F) /\ ~(s < s)
    BY <1>1, <1>2, <1>12
  <2>2. u[2] + m.size[u] # F[s][2] /\ u[2] + m.size[u] <= F[s][2]
    BY <1>1, <1>12, <2>1
  <2> DEFINE after == u[2] + m.size[u]
             start == F[s][2]
             end   == F[s][2] + m.size[F[s]]
             far   == F[i][2]
  <2>3. /\ F[s][2] \in Nat /\ m.size[F[s]] \in Nat /\ F[i][2] \in Nat
        /\ u[2] \in Nat /\ m.size[u] \in Nat
    BY <1>1, <2>1
  <2>4. CASE i = s
    BY <2>2, <2>3, <2>4
  <2>5. CASE i # s
    <3>1. s < i
      BY <1>1, <1>12, <2>5
    <3>2. end < far
      BY <1>2, <2>1, <3>1 DEF Apart
    <3>3. after <= start /\ after \in Nat /\ start \in Nat /\ far \in Nat
      BY <2>2, <2>3
    <3>4. start <= end /\ end \in Nat
      <4>1. PICK x \in Nat, y \in Nat : x = F[s][2] /\ y = m.size[F[s]]
        BY <2>3
      <4>2. x <= x + y /\ x + y \in Nat
        OBVIOUS
      <4>3. QED
        BY <4>1, <4>2
    <3> HIDE DEF after, start, end, far
    <3>5. after < far
      BY <3>2, <3>3, <3>4
    <3>6. QED
      BY <3>5 DEF after, far
  <2>6. QED
    BY <2>4, <2>5
<1>13. QED
  BY <1>2, <1>5, <1>6, <1>7, <1>8, <1>9, <1>10, <1>11, <1>12 DEF p, n

\* A chunk that touches no free one is put between two of them.
LEMMA InsertAlone ==
  ASSUME NEW m, NEW held, NEW u, NEW F, NEW U, NEW s, Entering(m, held, u, F, U, s),
         NEW o, o = Insert(m, u, At(F, s - 1), At(F, s)),
         ~Touches(m, At(F, s - 1), u), ~Touches(m, u, At(F, s))
  PROVE  EnteredAs(o, F, U, u, With(F, s, u))
<1> DEFINE b == u[1]
           p == At(F, s - 1)
           n == At(F, s)
           G == With(F, s, u)
           L == Len(F)
<1>1. /\ m \in Memory /\ u \in Unit /\ L \in Nat /\ s \in Nat
      /\ p \in Link /\ n \in Link
      /\ u[2] \in Nat /\ m.size[u] \in Nat
      /\ \A i \in 1..L : /\ F[i] \in Unit /\ F[i] # u
                         /\ F[i][2] \in Nat /\ m.size[F[i]] \in Nat
  BY EnteringFacts
<1>2. /\ b \in 1..MaxBlock /\ m.free[b] \in Link
      /\ IsChain(F, m.free[b], m.next, m.pre) /\ Apart(F, m.size)
      /\ p = NULL <=> s = 1
      /\ \A i \in 1..L : /\ F[i] = p <=> i = s - 1
                         /\ F[i] = n <=> i = s
      /\ u # p /\ u # n
      /\ \A i \in 1..L : i < s => F[i][2] + m.size[F[i]] < u[2]
      /\ \A i \in 1..L : i > s - 1 => u[2] + m.size[u] < F[i][2]
  BY EnteringPlaces
<1>3. s \in 1..(L + 1) /\ Tiles(Members(F) \cup Members(U) \cup Of({u}, b), b, m.size)
  BY DEF Entering, BlockSound
<1>4. Merged(m, u, p) = u /\ Behind(m, u, n) = n /\ Together(m, u, p, n) = m.size[u]
  BY <1>1 DEF Merged, Behind, Together
<1>5. o.free[b] = IF s = 1 THEN u ELSE m.free[b]
  <2>1. o.free = [m.free EXCEPT ![b] = IF p = NULL THEN u ELSE @]
    <3>1. /\ m \in Memory /\ u \in Unit /\ p \in Link /\ n \in Link
          /\ o = Insert(m, u, p, n) /\ b = u[1]
      BY <1>1
    <3> HIDE DEF p, n, b
    <3>2. QED
      BY <3>1, InsertFields
  <2>2. m.free \in [1..MaxBlock -> Link]
    BY <1>1, FieldTypes
  <2>3. QED
    BY <1>2, <2>1, <2>2
<1> HIDE DEF p, n, b
<1>6. \A x \in Unit : /\ o.size[x] = m.size[x]
                      /\ o.next[x] = IF x = u THEN n ELSE IF x = p THEN u ELSE m.next[x]
                      /\ o.pre[x] = IF x = n THEN u ELSE IF x = u THEN p ELSE m.pre[x]
  <2> SUFFICES ASSUME NEW x \in Unit
               PROVE  /\ o.size[x] = m.size[x]
                      /\ o.next[x] = IF x = u THEN n ELSE IF x = p THEN u ELSE m.next[x]
                      /\ o.pre[x] = IF x = n THEN u ELSE IF x = u THEN p ELSE m.pre[x]
    OBVIOUS
  <2>1. o = Insert(m, u, p, n) /\ ~Touches(m, p, u)
    BY DEF p, n
  <2>2. QED
    BY <1>1, <1>4, <2>1, InsertAt
<1>7. PutBetween(F, s, u, m.free[b], m.next, m.pre, o.free[b], o.next, o.pre)
  <2>1. o.next[u] = n /\ o.pre[u] = p
    BY <1>1, <1>2, <1>6
  <2>2. ASSUME NEW i \in 1..L
        PROVE  /\ F[i] # u
               /\ o.next[F[i]] = IF i = s - 1 THEN u ELSE m.next[F[i]]
               /\ o.pre[F[i]] = IF i = s THEN u ELSE m.pre[F[i]]
    BY <1>1, <1>2, <1>6
  <2>3. QED
    BY <1>1, <1>2, <1>3, <1>5, <2>1, <2>2 DEF PutBetween, p, n
<1>8. /\ IsChain(G, o.free[b], o.next, o.pre)
      /\ Len(G) = L + 1
      /\ \A i \in 1..(L + 1) :
           G[i] = IF i < s THEN F[i] ELSE IF i = s THEN u ELSE F[i - 1]
      /\ Members(G) = Members(F) \cup {u}
  BY <1>7, ChainWith
<1> HIDE DEF G, L
<1>9. Apart(G, o.size)
  <2>1. s \in 1..Len(G) /\ G[s] = u /\ Len(G) \in Nat
    BY <1>1, <1>3, <1>8
  <2>2. G[s][2] \in Nat /\ o.size[G[s]] \in Nat /\ o.size[G[s]] = m.size[u]
    BY <1>1, <1>6, <2>1
  <2>3. ASSUME NEW i \in 1..Len(G), i < s
        PROVE  /\ i \in 1..L /\ G[i] = F[i] /\ o.size[F[i]] = m.size[F[i]]
               /\ F[i][2] + m.size[F[i]] < G[s][2]
    <3>1. i \in 1..L /\ G[i] = F[i]
      BY <1>1, <1>3, <1>8, <2>3
    <3>2. QED
      BY <1>1, <1>2, <1>6, <2>1, <2>3, <3>1
  <2>4. PICK d \in Int : d = -1
    OBVIOUS
  <2>5. ASSUME NEW i \in 1..Len(G), i > s
        PROVE  /\ i + d \in 1..L /\ G[i] = F[i + d]
               /\ o.size[F[i + d]] = m.size[F[i + d]]
               /\ G[s][2] + o.size[G[s]] < F[i + d][2]
    <3>1. i - 1 \in 1..L /\ i + d = i - 1 /\ i - 1 > s - 1 /\ ~(i < s) /\ i # s
      BY <1>1, <1>3, <1>8, <2>4, <2>5
    <3>2. G[i] = F[i - 1]
      BY <1>8, <3>1
    <3>3. o.size[F[i - 1]] = m.size[F[i - 1]] /\ u[2] + m.size[u] < F[i - 1][2]
      BY <1>1, <1>2, <1>6, <3>1
    <3>4. QED
      BY <2>1, <2>2, <3>1, <3>2, <3>3
  <2>6. \A i \in 1..L : F[i][2] \in Nat /\ m.size[F[i]] \in Nat
    BY <1>1
  <2>7. Around(F, m.size, G, o.size, s, d)
    BY <1>2, <2>1, <2>2, <2>3, <2>5, <2>6 DEF Around, L
  <2>8. QED
    BY <2>7, ApartAround
<1>10. Tiles(Members(G) \cup Members(U), b, o.size)
  <2>1. Of({u}, b) = {u}
    BY DEF Of, b
  <2>2. Members(F) \cup Members(U) \cup Of({u}, b) = Members(G) \cup Members(U)
    BY <1>8, <2>1
  <2>3. Tiles(Members(G) \cup Members(U), b, m.size)
    BY <1>3, <2>2
  <2>4. \A x \in Members(G) \cup Members(U) : o.size[x] = m.size[x]
    BY <1>6, <2>3 DEF Tiles
  <2>5. QED
    BY <2>3, <2>4, TilesSame
<1>11. QED
  BY <1>8, <1>9, <1>10 DEF EnteredAs, b, G

\* A chunk that touches the one before it only makes that longer.
LEMMA InsertBehind ==
  ASSUME NEW m, NEW held, NEW u, NEW F, NEW U, NEW s, Entering(m, held, u, F, U, s),
         NEW o, o = Insert(m, u, At(F, s - 1), At(F, s)),
         Touches(m, At(F, s - 1), u), ~Touches(m, u, At(F, s))
  PROVE  EnteredAs(o, F, U, u, F)
<1> DEFINE b == u[1]
           p == At(F, s - 1)
           n == At(F, s)
           L == Len(F)
           k == s - 1
<1>1. /\ m \in Memory /\ u \in Unit /\ L \in Nat /\ s \in Nat
      /\ p \in Link /\ n \in Link
      /\ u[2] \in Nat /\ m.size[u] \in Nat /\ u \notin Members(F) /\ u \notin Members(U)
      /\ \A i \in 1..L : /\ F[i] \in Unit /\ F[i] # u /\ F[i] \in Members(F)
                         /\ F[i][2] \in Nat /\ m.size[F[i]] \in Nat
      /\ k \in 1..L /\ F[k][2] + m.size[F[k]] = u[2]
  BY EnteringFacts
<1>2. /\ b \in 1..MaxBlock /\ m.free[b] \in Link
      /\ IsChain(F, m.free[b], m.next, m.pre) /\ Apart(F, m.size)
      /\ p = NULL <=> s = 1
      /\ \A i \in 1..L : /\ F[i] = p <=> i = s - 1
                         /\ F[i] = n <=> i = s
                         /\ m.next[F[i]] = At(F, i + 1)
                         /\ m.pre[F[i]] = At(F, i - 1)
                         /\ At(F, i) = F[i]
      /\ \A i \in 1..L : i < s - 1 => F[i][2] + m.size[F[i]] < F[s - 1][2]
      /\ \A i \in 1..L : i > s - 1 => u[2] + m.size[u] < F[i][2]
  BY EnteringPlaces
<1>3. Tiles(Members(F) \cup Members(U) \cup Of({u}, b), b, m.size)
  BY DEF Entering, BlockSound
<1>4. p = F[k] /\ s # 1 /\ p # NULL /\ k + 1 = s
  BY <1>1, <1>2
<1>5. /\ Merged(m, u, p) = p /\ Behind(m, u, n) = n
      /\ Together(m, u, p, n) = m.size[p] + m.size[u]
  BY <1>1, <1>4 DEF Merged, Behind, Together
<1>6. o.free[b] = m.free[b]
  <2>1. o.free = [m.free EXCEPT ![b] = IF p = NULL THEN u ELSE @]
    <3>1. /\ m \in Memory /\ u \in Unit /\ p \in Link /\ n \in Link
          /\ o = Insert(m, u, p, n) /\ b = u[1]
      BY <1>1
    <3> HIDE DEF p, n, b
    <3>2. QED
      BY <3>1, InsertFields
  <2>2. m.free \in [1..MaxBlock -> Link]
    BY <1>1, FieldTypes
  <2>3. QED
    BY <1>2, <1>4, <2>1, <2>2
<1> HIDE DEF p, n, b
<1>7. \A x \in Unit : /\ o.size[x] = IF x = p THEN m.size[p] + m.size[u] ELSE m.size[x]
                      /\ o.next[x] = IF x = p THEN n ELSE m.next[x]
                      /\ o.pre[x] = IF x = n THEN p ELSE m.pre[x]
  <2> SUFFICES ASSUME NEW x \in Unit
               PROVE  /\ o.size[x] = IF x = p THEN m.size[p] + m.size[u] ELSE m.size[x]
                      /\ o.next[x] = IF x = p THEN n ELSE m.next[x]
                      /\ o.pre[x] = IF x = n THEN p ELSE m.pre[x]
    OBVIOUS
  <2>1. o = Insert(m, u, p, n) /\ Touches(m, p, u)
    BY DEF p, n
  <2>2. QED
    BY <1>1, <1>5, <2>1, InsertAt
<1>8. \A i \in 1..L : /\ o.next[F[i]] = m.next[F[i]] /\ o.pre[F[i]] = m.pre[F[i]]
                      /\ o.size[F[i]] = IF i = k THEN m.size[p] + m.size[u] ELSE m.size[F[i]]
  <2> SUFFICES ASSUME NEW i \in 1..L
               PROVE  /\ o.next[F[i]] = m.next[F[i]] /\ o.pre[F[i]] = m.pre[F[i]]
                      /\ o.size[F[i]] = IF i = k THEN m.size[p] + m.size[u] ELSE m.size[F[i]]
    OBVIOUS
  <2>1. F[i] \in Unit /\ (F[i] = p <=> i = k) /\ (F[i] = n <=> i = s)
    BY <1>1, <1>2
  <2>2. i = k => m.next[F[i]] = n
    BY <1>2, <1>4 DEF n
  <2>3. i = s => m.pre[F[i]] = p
    BY <1>2 DEF p
  <2>4. QED
    BY <1>7, <2>1, <2>2, <2>3
<1>9. IsChain(F, o.free[b], o.next, o.pre)
  <2>1. \A i \in 1..Len(F) : o.next[F[i]] = m.next[F[i]] /\ o.pre[F[i]] = m.pre[F[i]]
    BY <1>8
  <2> HIDE DEF L, k
  <2>2. QED
    BY <1>2, <1>6, <2>1 DEF IsChain
<1> HIDE DEF L, k
<1>10. Apart(F, o.size)
  <2>1. k \in 1..L /\ L \in Nat /\ F[k][2] \in Nat
        /\ o.size[F[k]] \in Nat /\ F[k][2] + o.size[F[k]] = u[2] + m.size[u]
    <3>1. /\ k \in 1..L /\ L \in Nat /\ F[k][2] \in Nat /\ m.size[F[k]] \in Nat
          /\ m.size[u] \in Nat /\ u[2] \in Nat
          /\ o.size[F[k]] = m.size[F[k]] + m.size[u]
          /\ F[k][2] + m.size[F[k]] = u[2]
      BY <1>1, <1>4, <1>8
    <3>2. QED
      BY <3>1
  <2>2. ASSUME NEW i \in 1..L, i < k
        PROVE  o.size[F[i]] = m.size[F[i]] /\ F[i][2] + m.size[F[i]] < F[k][2]
    BY <1>1, <1>2, <1>8, <2>1, <2>2 DEF k
  <2>3. PICK d \in Int : d = 0
    OBVIOUS
  <2>4. ASSUME NEW i \in 1..L, i > k
        PROVE  /\ i + d \in 1..L /\ F[i] = F[i + d]
               /\ o.size[F[i + d]] = m.size[F[i + d]]
               /\ F[k][2] + o.size[F[k]] < F[i + d][2]
    <3>1. i + d = i /\ i # k /\ i > s - 1
      BY <2>1, <2>3, <2>4 DEF k
    <3>2. o.size[F[i]] = m.size[F[i]] /\ u[2] + m.size[u] < F[i][2]
      BY <1>2, <1>8, <3>1
    <3>3. QED
      BY <2>1, <3>1, <3>2
  <2>5. \A i \in 1..L : F[i][2] \in Nat /\ m.size[F[i]] \in Nat
    BY <1>1
  <2>6. Around(F, m.size, F, o.size, k, d)
    BY <1>2, <2>1, <2>2, <2>4, <2>5 DEF Around, L
  <2>7. QED
    BY <2>6, ApartAround
<1>11. Tiles(Members(F) \cup Members(U), b, o.size)
  <2> DEFINE H == Members(F) \cup Members(U) \cup Of({u}, b)
  <2>1. Of({u}, b) = {u}
    BY DEF Of, b
  <2>2. p \in H /\ u \in H /\ H \ {u} = Members(F) \cup Members(U)
    BY <1>1, <1>4, <2>1
  <2>3. \A x \in H : x \in Unit
    BY <1>3 DEF Tiles
  <2>4. p[2] + m.size[p] = u[2]
    BY <1>1, <1>4
  <2> HIDE DEF H
  <2>5. o.size[p] = m.size[p] + m.size[u] /\ \A x \in H : x # p /\ x # u => o.size[x] = m.size[x]
    BY <1>7, <2>2, <2>3
  <2>6. Tiles(H, b, m.size)
    BY <1>3 DEF H
  <2>7. Tiles(H \ {u}, b, o.size)
    BY <2>2, <2>4, <2>5, <2>6, TilesMerge
  <2>8. QED
    BY <2>2, <2>7
<1>12. QED
  BY <1>9, <1>10, <1>11 DEF EnteredAs, b

\* A chunk that touches the one behind it takes its place.
LEMMA InsertBefore ==
  ASSUME NEW m, NEW held, NEW u, NEW F, NEW U, NEW s, Entering(m, held, u, F, U, s),
         NEW o, o = Insert(m, u, At(F, s - 1), At(F, s)),
         ~Touches(m, At(F, s - 1), u), Touches(m, u, At(F, s))
  PROVE  EnteredAs(o, F, U, u, Instead(F, s, u))
<1> DEFINE b == u[1]
           p == At(F, s - 1)
           n == At(F, s)
           r == At(F, s + 1)
           G == Instead(F, s, u)
           L == Len(F)
<1>1. /\ m \in Memory /\ u \in Unit /\ L \in Nat /\ s \in Nat
      /\ p \in Link /\ n \in Link
      /\ u[2] \in Nat /\ m.size[u] \in Nat /\ u \notin Members(F) /\ u \notin Members(U)
      /\ \A i \in 1..L : /\ F[i] \in Unit /\ F[i] # u /\ F[i] \in Members(F)
                         /\ F[i][2] \in Nat /\ m.size[F[i]] \in Nat
      /\ s \in 1..L /\ u[2] + m.size[u] = F[s][2]
  BY EnteringFacts
<1>2. /\ b \in 1..MaxBlock /\ m.free[b] \in Link
      /\ IsChain(F, m.free[b], m.next, m.pre) /\ Apart(F, m.size)
      /\ p = NULL <=> s = 1
      /\ \A i \in 1..L : /\ F[i] = p <=> i = s - 1
                         /\ F[i] = n <=> i = s
                         /\ F[i] = r <=> i = s + 1
                         /\ m.next[F[i]] = At(F, i + 1)
                         /\ At(F, i) = F[i]
      /\ u # p /\ u # n /\ u # r
      /\ \A i \in 1..L : i < s => F[i][2] + m.size[F[i]] < u[2]
      /\ \A i \in 1..L : i > s => F[s][2] + m.size[F[s]] < F[i][2]
  BY EnteringPlaces
<1>3. /\ Tiles(Members(F) \cup Members(U) \cup Of({u}, b), b, m.size)
      /\ Members(F) \cap Members(U) = {}
  BY DEF Entering, BlockSound
<1>4. n = F[s] /\ m.next[n] = r
  BY <1>1, <1>2
<1>5. /\ Merged(m, u, p) = u /\ Behind(m, u, n) = r
      /\ Together(m, u, p, n) = m.size[u] + m.size[n]
  BY <1>1, <1>4 DEF Merged, Behind, Together
<1>6. o.free[b] = IF s = 1 THEN u ELSE m.free[b]
  <2>1. o.free = [m.free EXCEPT ![b] = IF p = NULL THEN u ELSE @]
    <3>1. /\ m \in Memory /\ u \in Unit /\ p \in Link /\ n \in Link
          /\ o = Insert(m, u, p, n) /\ b = u[1]
      BY <1>1
    <3> HIDE DEF p, n, b
    <3>2. QED
      BY <3>1, InsertFields
  <2>2. m.free \in [1..MaxBlock -> Link]
    BY <1>1, FieldTypes
  <2>3. o.free[b] = IF p = NULL THEN u ELSE m.free[b]
    BY <1>2, <2>1, <2>2
  <2>4. QED
    BY <1>2, <2>3
<1> HIDE DEF p, n, b, r
<1>7. \A x \in Unit : /\ o.size[x] = IF x = u THEN m.size[u] + m.size[n] ELSE m.size[x]
                      /\ o.next[x] = IF x = u THEN r ELSE IF x = p THEN u ELSE m.next[x]
                      /\ o.pre[x] = IF x = r THEN u ELSE IF x = u THEN p ELSE m.pre[x]
  <2> SUFFICES ASSUME NEW x \in Unit
               PROVE  /\ o.size[x] = IF x = u THEN m.size[u] + m.size[n] ELSE m.size[x]
                      /\ o.next[x] = IF x = u THEN r ELSE IF x = p THEN u ELSE m.next[x]
                      /\ o.pre[x] = IF x = r THEN u ELSE IF x = u THEN p ELSE m.pre[x]
    OBVIOUS
  <2>1. o = Insert(m, u, p, n) /\ ~Touches(m, p, u)
    BY DEF p, n
  <2>2. QED
    BY <1>1, <1>5, <2>1, InsertAt
<1>8. PutInPlace(F, s, u, m.free[b], m.next, m.pre, o.free[b], o.next, o.pre)
  <2>1. o.next[u] = r /\ o.pre[u] = p
    BY <1>1, <1>2, <1>7
  <2>2. ASSUME NEW i \in 1..L, i # s
        PROVE  /\ F[i] # u
               /\ o.next[F[i]] = IF i = s - 1 THEN u ELSE m.next[F[i]]
               /\ o.pre[F[i]] = IF i = s + 1 THEN u ELSE m.pre[F[i]]
    BY <1>1, <1>2, <1>7
  <2>3. QED
    BY <1>1, <1>2, <1>6, <2>1, <2>2 DEF PutInPlace, p, r
<1>9. /\ IsChain(G, o.free[b], o.next, o.pre)
      /\ Len(G) = L
      /\ \A i \in 1..L : G[i] = IF i = s THEN u ELSE F[i]
      /\ Members(G) = (Members(F) \ {F[s]}) \cup {u}
  BY <1>8, ChainInstead
<1> HIDE DEF G, L
<1>10. Apart(G, o.size)
  <2>1. /\ s \in 1..Len(G) /\ Len(G) \in Nat /\ G[s] = u /\ G[s][2] \in Nat
        /\ o.size[G[s]] \in Nat /\ G[s][2] + o.size[G[s]] = F[s][2] + m.size[F[s]]
    <3>1. s \in 1..Len(G) /\ G[s] = u /\ Len(G) \in Nat
      BY <1>1, <1>9
    <3>2. /\ u[2] \in Nat /\ m.size[u] \in Nat /\ F[s][2] \in Nat /\ m.size[F[s]] \in Nat
          /\ u[2] + m.size[u] = F[s][2]
      BY <1>1
    <3>3. o.size[u] = m.size[u] + m.size[F[s]]
      BY <1>1, <1>4, <1>7
    <3>4. o.size[u] \in Nat /\ u[2] + o.size[u] = F[s][2] + m.size[F[s]]
      BY <3>2, <3>3
    <3>5. QED
      BY <3>1, <3>2, <3>4
  <2>2. ASSUME NEW i \in 1..L, i # s
        PROVE  G[i] = F[i] /\ o.size[F[i]] = m.size[F[i]]
    BY <1>1, <1>7, <1>9, <2>2
  <2>3. ASSUME NEW i \in 1..L, i < s
        PROVE  G[i] = F[i] /\ o.size[F[i]] = m.size[F[i]]
               /\ F[i][2] + m.size[F[i]] < G[s][2]
    <3>1. i # s
      BY <1>1, <2>3
    <3>2. F[i][2] + m.size[F[i]] < u[2] /\ G[s] = u
      BY <1>2, <2>1, <2>3
    <3>3. QED
      BY <2>2, <3>1, <3>2
  <2>4. PICK d \in Int : d = 0
    OBVIOUS
  <2>5. ASSUME NEW i \in 1..L, i > s
        PROVE  /\ i + d \in 1..L /\ G[i] = F[i + d]
               /\ o.size[F[i + d]] = m.size[F[i + d]]
               /\ G[s][2] + o.size[G[s]] < F[i + d][2]
    <3>1. i + d = i /\ i # s
      BY <1>1, <2>4, <2>5
    <3>2. F[s][2] + m.size[F[s]] < F[i][2]
      BY <1>2, <2>5
    <3>3. QED
      BY <2>1, <2>2, <3>1, <3>2
  <2>6. \A i \in 1..L : F[i][2] \in Nat /\ m.size[F[i]] \in Nat
    BY <1>1
  <2>7. Len(G) = L
    BY <1>9
  <2>8. Around(F, m.size, G, o.size, s, d)
    BY <1>2, <2>1, <2>3, <2>5, <2>6, <2>7 DEF Around, L
  <2>9. QED
    BY <2>8, ApartAround
<1>11. Tiles(Members(G) \cup Members(U), b, o.size)
  <2> DEFINE H == Members(F) \cup Members(U) \cup Of({u}, b)
  <2>1. Of({u}, b) = {u}
    BY DEF Of, b
  <2>2. n \in H /\ u \in H /\ H \ {n} = Members(G) \cup Members(U)
    BY <1>1, <1>3, <1>4, <1>9, <2>1
  <2>3. \A x \in H : x \in Unit
    BY <1>3 DEF Tiles
  <2>4. u[2] + m.size[u] = n[2]
    BY <1>1, <1>4
  <2> HIDE DEF H
  <2>5. o.size[u] = m.size[u] + m.size[n] /\ \A x \in H : x # u /\ x # n => o.size[x] = m.size[x]
    BY <1>7, <2>2, <2>3
  <2>6. Tiles(H, b, m.size)
    BY <1>3 DEF H
  <2>7. Tiles(H \ {n}, b, o.size)
    BY <2>2, <2>4, <2>5, <2>6, TilesMerge
  <2>8. QED
    BY <2>2, <2>7
<1>12. Members(G) \in SUBSET (Members(F) \cup {u})
  BY <1>9
<1>13. QED
  BY <1>9, <1>10, <1>11, <1>12 DEF EnteredAs, b, G

\* A chunk that touches both makes them one.
LEMMA InsertJoining ==
  ASSUME NEW m, NEW held, NEW u, NEW F, NEW U, NEW s, Entering(m, held, u, F, U, s),
         NEW o, o = Insert(m, u, At(F, s - 1), At(F, s)),
         Touches(m, At(F, s - 1), u), Touches(m, u, At(F, s))
  PROVE  EnteredAs(o, F, U, u, Without(F, s))
<1> DEFINE b == u[1]
           p == At(F, s - 1)
           n == At(F, s)
           r == At(F, s + 1)
           G == Without(F, s)
           L == Len(F)
           k == s - 1
<1>1. /\ m \in Memory /\ u \in Unit /\ L \in Nat /\ s \in Nat
      /\ p \in Link /\ n \in Link
      /\ u[2] \in Nat /\ m.size[u] \in Nat /\ u \notin Members(F) /\ u \notin Members(U)
      /\ \A i \in 1..L : /\ F[i] \in Unit /\ F[i] # u /\ F[i] \in Members(F)
                         /\ F[i][2] \in Nat /\ m.size[F[i]] \in Nat
      /\ k \in 1..L /\ F[k][2] + m.size[F[k]] = u[2]
      /\ s \in 1..L /\ u[2] + m.size[u] = F[s][2]
  BY EnteringFacts
<1>2. /\ b \in 1..MaxBlock /\ m.free[b] \in Link
      /\ IsChain(F, m.free[b], m.next, m.pre) /\ Apart(F, m.size)
      /\ p = NULL <=> s = 1
      /\ \A i \in 1..L : /\ F[i] = p <=> i = s - 1
                         /\ F[i] = n <=> i = s
                         /\ F[i] = r <=> i = s + 1
                         /\ m.next[F[i]] = At(F, i + 1)
                         /\ At(F, i) = F[i]
      /\ u # p /\ u # n /\ u # r
      /\ \A i \in 1..L : i < s - 1 => F[i][2] + m.size[F[i]] < F[s - 1][2]
      /\ \A i \in 1..L : i > s => F[s][2] + m.size[F[s]] < F[i][2]
  BY EnteringPlaces
<1>3. /\ Tiles(Members(F) \cup Members(U) \cup Of({u}, b), b, m.size)
      /\ Members(F) \cap Members(U) = {}
  BY DEF Entering, BlockSound
<1>4. n = F[s] /\ m.next[n] = r /\ p = F[k] /\ s # 1 /\ p # NULL /\ n # p
  <2>1. n = F[s] /\ m.next[n] = r
    BY <1>1, <1>2
  <2>2. p = F[k] /\ s # 1 /\ s # k
    BY <1>1, <1>2
  <2>3. n # p
    BY <1>1, <1>2, <2>1, <2>2
  <2>4. QED
    BY <1>2, <2>1, <2>2, <2>3
<1>5. /\ Merged(m, u, p) = p /\ Behind(m, u, n) = r
      /\ Together(m, u, p, n) = m.size[u] + m.size[p] + m.size[n]
  BY <1>1, <1>4 DEF Merged, Behind, Together
<1>6. o.free[b] = m.free[b]
  <2>1. o.free = [m.free EXCEPT ![b] = IF p = NULL THEN u ELSE @]
    <3>1. /\ m \in Memory /\ u \in Unit /\ p \in Link /\ n \in Link
          /\ o = Insert(m, u, p, n) /\ b = u[1]
      BY <1>1
    <3> HIDE DEF p, n, b
    <3>2. QED
      BY <3>1, InsertFields
  <2>2. m.free \in [1..MaxBlock -> Link]
    BY <1>1, FieldTypes
  <2>3. QED
    BY <1>2, <1>4, <2>1, <2>2
<1> HIDE DEF p, n, b, r
<1>7. \A x \in Unit : /\ o.size[x] = IF x = p THEN m.size[u] + m.size[p] + m.size[n] ELSE m.size[x]
                      /\ o.next[x] = IF x = p THEN r ELSE m.next[x]
                      /\ o.pre[x] = IF x = r THEN p ELSE m.pre[x]
  <2> SUFFICES ASSUME NEW x \in Unit
               PROVE  /\ o.size[x] = IF x = p THEN m.size[u] + m.size[p] + m.size[n] ELSE m.size[x]
                      /\ o.next[x] = IF x = p THEN r ELSE m.next[x]
                      /\ o.pre[x] = IF x = r THEN p ELSE m.pre[x]
    OBVIOUS
  <2>1. o = Insert(m, u, p, n) /\ Touches(m, p, u)
    BY DEF p, n
  <2>2. QED
    BY <1>1, <1>5, <2>1, InsertAt
<1>8. PassedOver(F, s, m.free[b], m.next, m.pre, o.free[b], o.next, o.pre)
  <2>1. ASSUME NEW i \in 1..L, i # s
        PROVE  /\ o.next[F[i]] = IF i = s - 1 THEN r ELSE m.next[F[i]]
               /\ o.pre[F[i]] = IF i = s + 1 THEN p ELSE m.pre[F[i]]
    BY <1>1, <1>2, <1>7
  <2>2. QED
    BY <1>1, <1>2, <1>4, <1>6, <2>1 DEF PassedOver, p, r
<1>9. /\ IsChain(G, o.free[b], o.next, o.pre)
      /\ Len(G) = L - 1
      /\ \A i \in 1..(L - 1) : G[i] = F[IF i < s THEN i ELSE i + 1]
      /\ Members(G) = Members(F) \ {F[s]}
  BY <1>8, ChainWithout
<1> HIDE DEF G, L
<1>10. /\ p[2] \in Nat /\ n[2] \in Nat /\ m.size[p] \in Nat /\ m.size[n] \in Nat
       /\ p[2] + m.size[p] = u[2] /\ u[2] + m.size[u] = n[2]
  BY <1>1, <1>4
<1>11. Apart(G, o.size)
  <2>1. /\ k \in 1..Len(G) /\ Len(G) \in Nat /\ G[k] = p /\ G[k][2] \in Nat
        /\ o.size[G[k]] \in Nat /\ G[k][2] + o.size[G[k]] = n[2] + m.size[n]
    <3>1. k \in 1..(L - 1) /\ k < s /\ L - 1 \in Nat
      BY <1>1
    <3>2. G[k] = p /\ p \in Unit
      BY <1>1, <1>4, <1>9, <3>1
    <3>3. o.size[p] = m.size[u] + m.size[p] + m.size[n] /\ m.size[u] \in Nat /\ u[2] \in Nat
      BY <1>1, <1>7, <3>2
    <3>4. o.size[p] \in Nat /\ p[2] + o.size[p] = n[2] + m.size[n]
      BY <1>10, <3>3
    <3>5. QED
      BY <1>9, <1>10, <3>1, <3>2, <3>4
  <2>2. ASSUME NEW i \in 1..Len(G), i < k
        PROVE  i \in 1..L /\ G[i] = F[i] /\ o.size[F[i]] = m.size[F[i]]
               /\ F[i][2] + m.size[F[i]] < G[k][2]
    <3>1. i \in 1..(L - 1) /\ i \in 1..L /\ i < s - 1 /\ i < s /\ i # s - 1
      BY <1>1, <1>9, <2>2
    <3>2. G[i] = F[i] /\ F[i] # p /\ F[i] \in Unit
      BY <1>1, <1>2, <1>9, <3>1
    <3>3. F[i][2] + m.size[F[i]] < F[s - 1][2]
      BY <1>2, <3>1
    <3>4. QED
      BY <1>4, <1>7, <2>1, <3>1, <3>2, <3>3
  <2>3. PICK d \in Int : d = 1
    OBVIOUS
  <2>4. ASSUME NEW i \in 1..Len(G), i > k
        PROVE  /\ i + d \in 1..L /\ G[i] = F[i + d]
               /\ o.size[F[i + d]] = m.size[F[i + d]]
               /\ G[k][2] + o.size[G[k]] < F[i + d][2]
    <3>1. /\ i \in 1..(L - 1) /\ i + 1 \in 1..L /\ ~(i < s) /\ i + 1 > s /\ i + 1 # s - 1
          /\ i + d = i + 1
      <4>1. i \in 1..(L - 1) /\ i > s - 1 /\ L \in Nat /\ s \in Nat
        BY <1>1, <1>9, <2>4
      <4>2. QED
        BY <2>3, <4>1
    <3>2. G[i] = F[i + 1] /\ F[i + 1] # p /\ F[i + 1] \in Unit
      BY <1>1, <1>2, <1>9, <3>1
    <3>3. F[s][2] + m.size[F[s]] < F[i + 1][2]
      BY <1>2, <3>1
    <3>4. QED
      BY <1>4, <1>7, <2>1, <3>1, <3>2, <3>3
  <2>5. \A i \in 1..L : F[i][2] \in Nat /\ m.size[F[i]] \in Nat
    BY <1>1
  <2>6. Around(F, m.size, G, o.size, k, d)
    BY <1>2, <2>1, <2>2, <2>4, <2>5 DEF Around, L
  <2>7. QED
    BY <2>6, ApartAround
<1>12. Tiles(Members(G) \cup Members(U), b, o.size)
  <2> DEFINE H == Members(F) \cup Members(U) \cup Of({u}, b)
             mid == [x \in Unit |-> IF x = u THEN m.size[u] + m.size[n] ELSE m.size[x]]
  <2>1. Of({u}, b) = {u}
    BY DEF Of, b
  <2>2. /\ n \in H /\ u \in H /\ p \in H /\ p # u /\ p # n /\ u # n
        /\ (H \ {n}) \ {u} = Members(G) \cup Members(U)
    <3>1. n \in Members(F) /\ p \in Members(F) /\ p # u /\ n # u
      BY <1>1, <1>4
    <3>2. Members(G) = Members(F) \ {n}
      BY <1>4, <1>9
    <3>3. H = Members(F) \cup Members(U) \cup {u}
      BY <2>1
    <3>4. u \notin Members(F) /\ u \notin Members(U) /\ n \notin Members(U) /\ n # p
      BY <1>1, <1>3, <1>4, <3>1
    <3> HIDE DEF H
    <3>5. QED
      BY <3>1, <3>2, <3>3, <3>4
  <2>3. \A x \in H : x \in Unit
    BY <1>3 DEF Tiles
  <2>4. mid[u] = m.size[u] + m.size[n] /\ \A x \in H : x # u => mid[x] = m.size[x]
    BY <2>2, <2>3
  <2> HIDE DEF H, mid
  <2>5. Tiles(H, b, m.size)
    BY <1>3 DEF H
  <2>6. Tiles(H \ {n}, b, mid)
    BY <1>10, <2>2, <2>4, <2>5, TilesMerge
  <2>7. /\ p[2] + mid[p] = u[2] /\ p \in H \ {n} /\ u \in H \ {n}
        /\ o.size[p] = mid[p] + mid[u]
        /\ \A x \in H \ {n} : x # p /\ x # u => o.size[x] = mid[x]
    <3>1. o.size[p] = m.size[u] + m.size[p] + m.size[n] /\ mid[p] = m.size[p]
      BY <1>7, <2>2, <2>3, <2>4
    <3>2. m.size[u] \in Nat
      BY <1>1
    <3>3. o.size[p] = mid[p] + mid[u]
      BY <1>10, <2>4, <3>1, <3>2
    <3>4. QED
      BY <1>7, <1>10, <2>2, <2>3, <2>4, <3>1, <3>3
  <2>8. Tiles((H \ {n}) \ {u}, b, o.size)
    BY <2>6, <2>7, TilesMerge
  <2>9. QED
    BY <2>2, <2>8
<1>13. Members(G) \in SUBSET (Members(F) \cup {u})
  BY <1>9
<1>14. QED
  BY <1>9, <1>11, <1>12, <1>13 DEF EnteredAs, b, G

\* bmemory_free leaves a sound pool, without the chunk; the others are as they
\* were.
LEMMA FreedSound ==
  ASSUME NEW m, NEW held, IsPool(m, held, {}), NEW u \in held
  PROVE  /\ IsPool(Freed(m, u), held \ {u}, {})
         /\ \A v \in held \ {u} : Freed(m, u).size[v] = m.size[v]
<1> DEFINE w == Unuse(m, u)
           p == Neighbours(w, u).pre
           n == Neighbours(w, u).next
           o == Insert(w, u, p, n)
           rest == held \ {u}
<1>1. Freed(m, u) = o
  BY DEF Freed
<1>2. IsPool(w, rest, {u}) /\ w.size = m.size
  BY UnuseSound
<1> HIDE DEF w, rest
<1>3. w \in Memory /\ u \in Unit /\ u[1] \in 1..w.blocks
  BY <1>2 DEF IsPool
<1>4. PICK F, U : BlockSound(w, u[1], rest, {u}, F, U)
  BY <1>2, <1>3 DEF IsPool
<1>5. IsChain(F, w.free[u[1]], w.next, w.pre) /\ Apart(F, w.size)
  BY <1>4 DEF BlockSound
<1>6. PICK s \in 1..(Len(F) + 1) :
        /\ p = At(F, s - 1) /\ n = At(F, s)
        /\ \A i \in 1..Len(F) : i < s => F[i][2] <= u[2]
        /\ \A i \in 1..Len(F) : ~(i < s) => F[i][2] > u[2]
  BY <1>3, <1>5, NeighboursFound
<1>7. Entering(w, rest, u, F, U, s)
  BY <1>2, <1>4, <1>6 DEF Entering
<1>8. o = Insert(w, u, At(F, s - 1), At(F, s))
  BY <1>6
<1> HIDE DEF o, p, n
<1>9. PICK G : EnteredAs(o, F, U, u, G)
  <2>1. CASE ~Touches(w, At(F, s - 1), u) /\ ~Touches(w, u, At(F, s))
    BY <1>7, <1>8, <2>1, InsertAlone
  <2>2. CASE Touches(w, At(F, s - 1), u) /\ ~Touches(w, u, At(F, s))
    BY <1>7, <1>8, <2>2, InsertBehind
  <2>3. CASE ~Touches(w, At(F, s - 1), u) /\ Touches(w, u, At(F, s))
    BY <1>7, <1>8, <2>3, InsertBefore
  <2>4. CASE Touches(w, At(F, s - 1), u) /\ Touches(w, u, At(F, s))
    BY <1>7, <1>8, <2>4, InsertJoining
  <2>5. QED
    BY <2>1, <2>2, <2>3, <2>4, Zenon
<1>10. IsPool(o, rest, {}) /\ \A v \in rest : o.size[v] = w.size[v]
  BY <1>7, <1>8, <1>9, InsertPool
<1>11. QED
  BY <1>1, <1>2, <1>10 DEF rest

-----------------------------------------------------------------------------
(***************************************************************************)
(* bmemory_get: a new block, the search, and the chunk taken.              *)
(***************************************************************************)
\* The lists of a block are the ones there are.
LEMMA ListsAre ==
  ASSUME NEW m \in Memory, NEW b \in 1..MaxBlock, NEW held, NEW gap, NEW F, NEW U,
         BlockSound(m, b, held, gap, F, U)
  PROVE  FreeList(m, b) = F /\ UsedList(m, b) = U
<1>1. IsChain(F, m.free[b], m.next, m.pre) /\ IsChain(U, m.used[b], m.next, m.pre)
  BY DEF BlockSound
<1>2. PICK f \in [Unit -> Link] : f = m.next
  BY FieldTypes DEF Links
<1>3. Follow(m.free[b], f) = F /\ Follow(m.used[b], f) = U
  BY <1>1, <1>2, FollowChain
<1>4. QED
  BY <1>2, <1>3 DEF FreeList, UsedList

\* A request is for a chunk that some block could have.
LEMMA RequestFits ==
  ASSUME NEW num \in Request
  PROVE  /\ num \in Nat /\ num > 0
         /\ \A b \in 1..MaxBlock : num <= BlockSize(b)
<1>1. num \in 1..UnitCount /\ num \in 1..Step /\ UnitCount \in Nat /\ Step \in Nat
  BY BmemoryAssumption
<1>2. QED
  BY <1>1 DEF BlockSize

\* A new block is one free chunk.
LEMMA AllocSound ==
  ASSUME NEW m, NEW held, IsPool(m, held, {}), m.blocks < MaxBlock
  PROVE  LET o == AllocBlock(m)
             b == m.blocks + 1
         IN  /\ IsPool(o, held, {})
             /\ \A v \in held : o.size[v] = m.size[v]
             /\ b \in 1..o.blocks /\ b \in 1..MaxBlock
             /\ BlockSound(o, b, held, {}, <<<<b, 0>>>>, <<>>)
             /\ o.size[<<b, 0>>] = BlockSize(b)
<1> DEFINE b == m.blocks + 1
           first == <<b, 0>>
           free == [m.free EXCEPT ![b] = first]
           used == [m.used EXCEPT ![b] = NULL]
           size == [m.size EXCEPT ![first] = BlockSize(b)]
           pre  == Unlinked(m.pre, b)
           next == Unlinked(m.next, b)
           o == [m EXCEPT !.blocks = b, !.free = free, !.used = used, !.size = size,
                          !.pre = pre, !.next = next]
           F == <<first>>
<1>1. /\ m \in Memory /\ held \in SUBSET Unit
      /\ \A u \in held : u[1] \in 1..m.blocks /\ m.size[u] \in Request
      /\ \A c \in 1..m.blocks : \E G, U : BlockSound(m, c, held, {}, G, U)
  BY DEF IsPool
<1>2. /\ m.blocks \in Nat /\ 1..m.blocks \subseteq 1..MaxBlock
      /\ m.free \in [1..MaxBlock -> Link] /\ m.used \in [1..MaxBlock -> Link]
      /\ m.size \in [Unit -> Nat] /\ m.pre \in Links /\ m.next \in Links
  BY <1>1, FieldTypes
<1>3. /\ b \in 1..MaxBlock /\ b \in 0..MaxBlock /\ b \notin 1..m.blocks
      /\ MaxBlock \in Nat /\ b \in 1..b
      /\ \A c \in 1..b : c # b => c \in 1..m.blocks
  <2>1. MaxBlock \in Nat
    BY BmemoryAssumption
  <2>2. QED
    BY <1>2, <2>1
<1>4. /\ BlockSize(b) \in Nat /\ BlockSize(b) > 0
      /\ first \in Unit /\ first[1] = b /\ first[2] = 0 /\ first \in Link
  <2> HIDE DEF b
  <2>1. BlockSize(b) \in Nat /\ BlockSize(b) > 0
    BY <1>3, UnitFacts
  <2>2. first = <<first[1], first[2]>> /\ first[1] \in 1..MaxBlock
        /\ first[2] \in 0..(BlockSize(first[1]) - 1)
    BY <1>3, <2>1
  <2>3. first \in Unit
    BY <2>2, UnitFacts
  <2>4. QED
    BY <2>1, <2>3 DEF Link
<1>5. AllocBlock(m) = o
  BY DEF AllocBlock, Memory
<1> HIDE DEF b
<1>6. \A u \in Unit : /\ next[u] = IF u[1] = b THEN NULL ELSE m.next[u]
                      /\ pre[u] = IF u[1] = b THEN NULL ELSE m.pre[u]
  BY DEF Unlinked
<1>7. pre \in Links /\ next \in Links
  BY <1>2 DEF Unlinked, Links, Link
<1>8. \A u \in Unit : size[u] = IF u = first THEN BlockSize(b) ELSE m.size[u]
  BY <1>2
<1>9. /\ free \in [1..MaxBlock -> Link] /\ used \in [1..MaxBlock -> Link]
      /\ size \in [Unit -> Nat]
      /\ free[b] = first /\ used[b] = NULL
      /\ \A c \in 1..MaxBlock : c # b => free[c] = m.free[c] /\ used[c] = m.used[c]
  BY <1>2, <1>3, <1>4 DEF Link
<1> HIDE DEF first, free, used, size, pre, next
<1>10. /\ o \in Memory /\ o.blocks = b /\ o.free = free /\ o.used = used
       /\ o.size = size /\ o.pre = pre /\ o.next = next
  BY <1>1, <1>3, <1>7, <1>9 DEF Memory
<1> HIDE DEF o
<1>11. BlockSound(o, b, held, {}, F, <<>>)
  <2>1. /\ Len(F) = 1 /\ F[1] = first /\ F \in Seq(Unit) /\ Members(F) = {first}
        /\ At(F, 1) = first /\ At(F, 2) = NULL /\ At(F, 0) = NULL
    BY <1>4 DEF Members, At
  <2>2. IsChain(F, o.free[b], o.next, o.pre)
    BY <1>4, <1>6, <1>9, <1>10, <2>1 DEF IsChain
  <2>3. IsChain(<<>>, o.used[b], o.next, o.pre) /\ Members(<<>>) = {}
    BY <1>9, <1>10 DEF IsChain, Members, At
  <2>4. Apart(F, o.size)
    BY <2>1 DEF Apart
  <2>5. Of(held, b) = {} /\ Of({}, b) = {}
    BY <1>1, <1>3 DEF Of
  <2>6. Tiles({first}, b, o.size)
    <3>1. o.size[first] = BlockSize(b)
      BY <1>4, <1>8, <1>10
    <3>2. \A i \in 0..(BlockSize(b) - 1) : first[2] <= i /\ i < first[2] + o.size[first]
      BY <1>4, <3>1
    <3>3. QED
      BY <1>4, <3>1, <3>2 DEF Tiles
  <2>7. QED
    BY <2>1, <2>2, <2>3, <2>4, <2>5, <2>6 DEF BlockSound
<1>12. \A v \in held : o.size[v] = m.size[v] /\ v[1] \in 1..b
  BY <1>1, <1>2, <1>3, <1>4, <1>8, <1>10 DEF b
<1>13. ASSUME NEW c \in 1..b
       PROVE  \E G, U : BlockSound(o, c, held, {}, G, U)
  <2>1. CASE c = b
    BY <1>11, <2>1
  <2>2. CASE c # b
    <3>1. c \in 1..m.blocks /\ c \in 1..MaxBlock
      BY <1>2, <1>3, <2>2
    <3>2. PICK G, U : BlockSound(m, c, held, {}, G, U)
      BY <1>1, <3>1
    <3>3. Agree(m, o, c)
      BY <1>4, <1>6, <1>8, <1>9, <1>10, <2>2, <3>1 DEF Agree
    <3>4. BlockSound(o, c, held, {}, G, U)
      BY <3>2, <3>3, Elsewhere
    <3>5. QED
      BY <3>4
  <2>3. QED
    BY <2>1, <2>2
<1>14. IsPool(o, held, {})
  <2>1. {} \in SUBSET Unit /\ held \cup {} = held
    OBVIOUS
  <2>2. QED
    BY <1>1, <1>10, <1>12, <1>13, <2>1 DEF IsPool
<1>15. o.size[first] = BlockSize(b)
  BY <1>4, <1>8, <1>10
<1>16. QED
  BY <1>3, <1>5, <1>10, <1>11, <1>12, <1>14, <1>15 DEF b, first

\* FirstFit returns a free chunk that is large enough.
LEMMA FitFound ==
  ASSUME NEW m, NEW held, IsPool(m, held, {}), NEW num \in Request,
         FirstFit(m, num) # NULL
  PROVE  \E b \in 1..m.blocks : \E F, U : \E k \in 1..Len(F) :
           /\ BlockSound(m, b, held, {}, F, U)
           /\ FirstFit(m, num) = F[k]
           /\ m.size[F[k]] >= num
<1> DEFINE fitting == {b \in 1..m.blocks : Large(m, b, num) # {}}
           b == Min(fitting)
           large == Large(m, b, num)
<1>1. m \in Memory /\ m.blocks \in Nat /\ 1..m.blocks \subseteq 1..MaxBlock
  BY FieldTypes DEF IsPool
<1>2. fitting # {} /\ FirstFit(m, num) = FreeList(m, b)[Min(large)]
  BY Zenon DEF FirstFit
<1>3. b \in 1..m.blocks /\ large # {}
  <2>1. fitting \in SUBSET Nat
    BY <1>1
  <2>2. b \in fitting
    BY <1>2, <2>1, MinOf
  <2>3. QED
    BY <2>2
<1> HIDE DEF b
<1>4. PICK F, U : BlockSound(m, b, held, {}, F, U)
  BY <1>3 DEF IsPool
<1>5. FreeList(m, b) = F
  BY <1>1, <1>3, <1>4, ListsAre
<1>6. IsChain(F, m.free[b], m.next, m.pre)
  BY <1>4 DEF BlockSound
<1>7. DOMAIN F = 1..Len(F) /\ Len(F) \in Nat
  BY <1>6 DEF IsChain
<1>8. large = {i \in 1..Len(F) : m.size[F[i]] >= num}
  BY <1>5, <1>7 DEF Large
<1>9. Min(large) \in large
  <2>1. large \in SUBSET Nat
    BY <1>7, <1>8
  <2> HIDE DEF large
  <2>2. QED
    BY <1>3, <2>1, MinOf
<1> HIDE DEF large
<1>10. Min(large) \in 1..Len(F) /\ m.size[F[Min(large)]] >= num
  BY <1>8, <1>9
<1>11. QED
  BY <1>2, <1>3, <1>4, <1>5, <1>10

\* It returns one if there is one.
LEMMA FitThere ==
  ASSUME NEW m, NEW held, IsPool(m, held, {}), NEW num \in Request,
         NEW b \in 1..m.blocks, NEW F, NEW U, BlockSound(m, b, held, {}, F, U),
         NEW k \in 1..Len(F), m.size[F[k]] >= num
  PROVE  FirstFit(m, num) # NULL
<1> SUFFICES ASSUME FirstFit(m, num) = NULL PROVE FALSE
  OBVIOUS
<1> DEFINE fitting == {c \in 1..m.blocks : Large(m, c, num) # {}}
           a == Min(fitting)
           large == Large(m, a, num)
<1>1. m \in Memory /\ m.blocks \in Nat /\ 1..m.blocks \subseteq 1..MaxBlock
  BY FieldTypes DEF IsPool
<1>2. b \in fitting
  <2>1. FreeList(m, b) = F
    BY <1>1, ListsAre
  <2>2. DOMAIN F = 1..Len(F)
    BY DEF BlockSound, IsChain
  <2>3. k \in Large(m, b, num)
    BY <2>1, <2>2 DEF Large
  <2>4. QED
    BY <2>3
<1>3. FirstFit(m, num) = FreeList(m, a)[Min(large)]
  BY <1>2, Zenon DEF FirstFit
<1>4. a \in 1..m.blocks /\ large # {}
  <2>1. fitting \in SUBSET Nat /\ fitting # {}
    BY <1>1, <1>2
  <2>2. a \in fitting
    BY <2>1, MinOf
  <2>3. QED
    BY <2>2
<1> HIDE DEF a
<1>5. PICK G, V : BlockSound(m, a, held, {}, G, V)
  BY <1>4 DEF IsPool
<1>6. FreeList(m, a) = G
  BY <1>1, <1>4, <1>5, ListsAre
<1>7. IsChain(G, m.free[a], m.next, m.pre)
  BY <1>5 DEF BlockSound
<1>8. Len(G) \in Nat /\ \A i \in 1..Len(G) : G[i] # NULL
  BY <1>7, AtFacts
<1>9. large \in SUBSET (1..Len(G))
  <2>1. DOMAIN G = 1..Len(G)
    BY <1>7 DEF IsChain
  <2>2. QED
    BY <1>6, <2>1 DEF Large
<1>10. Min(large) \in large
  <2>1. large \in SUBSET Nat
    BY <1>8, <1>9
  <2> HIDE DEF large
  <2>2. QED
    BY <1>4, <2>1, MinOf
<1> HIDE DEF large
<1>11. Min(large) \in 1..Len(G)
  BY <1>9, <1>10
<1>12. G[Min(large)] # NULL
  BY <1>8, <1>11
<1>13. QED
  BY <1>3, <1>6, <1>12

\* What comes after and before the place of u in the free list once num units
\* of it are taken.
AfterTaken(m, u, num) == IF m.size[u] = num THEN m.next[u] ELSE Plus(u, num)
BackTaken(m, u, num)  == IF m.size[u] = num THEN m.pre[u] ELSE Plus(u, num)

\* The fields after Take.
TakenFields(m, u, num, o, b) ==
  /\ o \in Memory /\ o.blocks = m.blocks
  /\ o.free = [m.free EXCEPT ![b] = FreeHeader(m, u, AfterTaken(m, u, num))]
  /\ o.used = [m.used EXCEPT ![b] = u]
  /\ \A x \in Unit :
       /\ m.size[u] = num => o.size[x] = m.size[x]
       /\ m.size[u] # num => o.size[x] = IF x = Plus(u, num) THEN m.size[u] - num
                                         ELSE IF x = u THEN num ELSE m.size[x]
       /\ o.next[x] = IF x = u THEN m.used[b]
                      ELSE IF x = m.pre[u] THEN AfterTaken(m, u, num)
                      ELSE IF m.size[u] # num /\ x = Plus(u, num) THEN m.next[u]
                      ELSE m.next[x]
       /\ o.pre[x] = IF x = u THEN NULL
                     ELSE IF x = m.used[b] THEN u
                     ELSE IF x = m.next[u] THEN BackTaken(m, u, num)
                     ELSE IF m.size[u] # num /\ x = Plus(u, num) THEN m.pre[u]
                     ELSE m.pre[x]

\* They are those.
LEMMA TakeFields ==
  ASSUME NEW m \in Memory, NEW u \in Unit, NEW num \in Nat,
         num <= m.size[u], m.size[u] # num => Plus(u, num) \in Unit
  PROVE  TakenFields(m, u, num, Take(m, u, num), u[1])
<1> DEFINE b == u[1]
           rest == Plus(u, num)
           whole == m.size[u] = num
           after == AfterTaken(m, u, num)
           back == BackTaken(m, u, num)
           size  == IF whole THEN m.size
                    ELSE [m.size EXCEPT ![u] = num, ![rest] = m.size[u] - num]
           next0 == IF whole THEN m.next ELSE [m.next EXCEPT ![rest] = m.next[u]]
           pre0  == IF whole THEN m.pre ELSE [m.pre EXCEPT ![rest] = m.pre[u]]
           next1 == Set(next0, m.pre[u], after)
           pre1  == Set(pre0, m.next[u], back)
           pre2  == Set(pre1, m.used[b], u)
           free == [m.free EXCEPT ![b] = FreeHeader(m, u, after)]
           used == [m.used EXCEPT ![b] = u]
           pre  == [pre2 EXCEPT ![u] = NULL]
           next == [next1 EXCEPT ![u] = m.used[b]]
           o == [m EXCEPT !.free = free, !.used = used, !.size = size, !.pre = pre, !.next = next]
<1>1. Take(m, u, num) = o
  BY DEF Take, AfterTaken, BackTaken, Memory
<1>2. /\ m.free \in [1..MaxBlock -> Link] /\ m.used \in [1..MaxBlock -> Link]
      /\ m.size \in [Unit -> Nat] /\ m.pre \in Links /\ m.next \in Links
      /\ b \in 1..MaxBlock
  BY FieldTypes, UnitParts
<1>3. /\ m.pre[u] \in Link /\ m.next[u] \in Link /\ m.used[b] \in Link /\ m.free[b] \in Link
      /\ u \in Link /\ NULL \in Link /\ m.size[u] \in Nat
  BY <1>2 DEF Links, Link
<1>4. ~whole => rest \in Unit /\ rest \in Link
  BY DEF Link
<1>5. after \in Link /\ back \in Link
  BY <1>3, <1>4 DEF AfterTaken, BackTaken
<1> HIDE DEF rest, after, back, b
<1>6. /\ size \in [Unit -> Nat]
      /\ \A x \in Unit : size[x] = IF whole THEN m.size[x]
                                   ELSE IF x = rest THEN m.size[u] - num
                                   ELSE IF x = u THEN num ELSE m.size[x]
  <2>1. CASE whole
    BY <1>2, <2>1
  <2>2. CASE ~whole
    <3>1. m.size[u] - num \in Nat
      BY <1>3
    <3>2. QED
      BY <1>2, <1>4, <2>2, <3>1
  <2>3. QED
    BY <2>1, <2>2
<1>7. /\ next0 \in Links
      /\ \A x \in Unit : next0[x] = IF ~whole /\ x = rest THEN m.next[u] ELSE m.next[x]
  BY <1>2, <1>3, <1>4 DEF Links
<1>8. /\ pre0 \in Links
      /\ \A x \in Unit : pre0[x] = IF ~whole /\ x = rest THEN m.pre[u] ELSE m.pre[x]
  BY <1>2, <1>3, <1>4 DEF Links
<1> HIDE DEF next0, pre0, size, whole
<1>9. /\ next1 \in Links
      /\ \A x \in Unit : next1[x] = IF x = m.pre[u] THEN after ELSE next0[x]
  <2>1. PICK p \in Link : p = m.pre[u]
    BY <1>3
  <2>2. next1 = Set(next0, p, after)
    BY <2>1
  <2> HIDE DEF next1
  <2>3. next0 \in Links /\ after \in Link
    BY <1>5, <1>7
  <2>4. next1 \in Links /\ \A x \in Unit : next1[x] = IF x = p THEN after ELSE next0[x]
    BY <2>2, <2>3, SetAt
  <2>5. QED
    BY <2>1, <2>4
<1>10. /\ pre1 \in Links
       /\ \A x \in Unit : pre1[x] = IF x = m.next[u] THEN back ELSE pre0[x]
  <2>1. PICK n \in Link : n = m.next[u]
    BY <1>3
  <2>2. pre1 = Set(pre0, n, back)
    BY <2>1
  <2> HIDE DEF pre1
  <2>3. pre0 \in Links /\ back \in Link
    BY <1>5, <1>8
  <2>4. pre1 \in Links /\ \A x \in Unit : pre1[x] = IF x = n THEN back ELSE pre0[x]
    BY <2>2, <2>3, SetAt
  <2>5. QED
    BY <2>1, <2>4
<1> HIDE DEF next1, pre1
<1>11. /\ pre2 \in Links
       /\ \A x \in Unit : pre2[x] = IF x = m.used[b] THEN u ELSE pre1[x]
  <2>1. PICK h \in Link : h = m.used[b]
    BY <1>3
  <2>2. pre2 = Set(pre1, h, u)
    BY <2>1
  <2> HIDE DEF pre2
  <2>3. pre1 \in Links /\ u \in Link
    BY <1>3, <1>10
  <2>4. pre2 \in Links /\ \A x \in Unit : pre2[x] = IF x = h THEN u ELSE pre1[x]
    BY <2>2, <2>3, SetAt
  <2>5. QED
    BY <2>1, <2>4
<1> HIDE DEF pre2
<1>12. /\ next \in Links
       /\ \A x \in Unit : next[x] = IF x = u THEN m.used[b] ELSE next1[x]
  BY <1>3, <1>9 DEF Links
<1>13. /\ pre \in Links
       /\ \A x \in Unit : pre[x] = IF x = u THEN NULL ELSE pre2[x]
  BY <1>3, <1>11 DEF Links
<1>14. free \in [1..MaxBlock -> Link] /\ used \in [1..MaxBlock -> Link]
  <2>1. FreeHeader(m, u, after) \in Link
    BY <1>3, <1>5 DEF FreeHeader, b
  <2>2. QED
    BY <1>2, <1>3, <2>1
<1> HIDE DEF next, pre, free, used
<1>15. /\ o \in Memory /\ o.blocks = m.blocks /\ o.free = free /\ o.used = used
       /\ o.size = size /\ o.pre = pre /\ o.next = next
  BY <1>6, <1>12, <1>13, <1>14 DEF Memory
<1> HIDE DEF o
<1>16. \A x \in Unit :
         /\ o.next[x] = IF x = u THEN m.used[b]
                        ELSE IF x = m.pre[u] THEN after
                        ELSE IF ~whole /\ x = rest THEN m.next[u]
                        ELSE m.next[x]
         /\ o.pre[x] = IF x = u THEN NULL
                       ELSE IF x = m.used[b] THEN u
                       ELSE IF x = m.next[u] THEN back
                       ELSE IF ~whole /\ x = rest THEN m.pre[u]
                       ELSE m.pre[x]
  BY <1>7, <1>8, <1>9, <1>10, <1>11, <1>12, <1>13, <1>15
<1>17. \A x \in Unit : /\ whole => o.size[x] = m.size[x]
                       /\ ~whole => o.size[x] = IF x = rest THEN m.size[u] - num
                                                ELSE IF x = u THEN num ELSE m.size[x]
  BY <1>6, <1>15
<1>18. QED
  BY <1>1, <1>15, <1>16, <1>17 DEF TakenFields, free, used, whole, after, back, rest, b

\* A list in order is so without one of its chunks.
LEMMA ApartWithout ==
  ASSUME NEW F, NEW size, Apart(F, size), Len(F) \in Nat, NEW k \in 1..Len(F),
         NEW other, \A i \in 1..Len(F) : other[F[i]] = size[F[i]],
         NEW G, Len(G) = Len(F) - 1,
         \A i \in 1..(Len(F) - 1) : G[i] = F[IF i < k THEN i ELSE i + 1]
  PROVE  Apart(G, other)
<1> DEFINE S(i) == IF i < k THEN i ELSE i + 1
<1>1. \A i \in 1..(Len(F) - 1) : S(i) \in 1..Len(F)
  OBVIOUS
<1>2. \A i, j \in 1..(Len(F) - 1) : i < j => S(i) < S(j)
  OBVIOUS
<1>3. \A i \in 1..(Len(F) - 1) : G[i] = F[S(i)]
  OBVIOUS
<1> HIDE DEF S
<1>4. QED
  BY <1>1, <1>2, <1>3 DEF Apart

\* The chunk to take: the k-th of the free list F of its block.
Taking(m, held, num, F, U, k) ==
  /\ IsPool(m, held, {})
  /\ num \in Request
  /\ k \in 1..Len(F)
  /\ F[k][1] \in 1..m.blocks
  /\ BlockSound(m, F[k][1], held, {}, F, U)
  /\ m.size[F[k]] >= num

\* What is known of it: u is that chunk, b its block.
Known(m, held, num, F, U, k, u, b) ==
  /\ m \in Memory /\ u \in Unit /\ u \in Members(F) /\ b \in 1..MaxBlock
  /\ num \in Nat /\ num > 0 /\ num <= m.size[u]
  /\ m.free[b] \in Link
  /\ IsChain(F, m.free[b], m.next, m.pre) /\ IsChain(U, m.used[b], m.next, m.pre)
  /\ Apart(F, m.size)
  /\ Len(F) \in Nat /\ Len(U) \in Nat /\ k \in Nat
  /\ \A i \in 1..Len(F) :
       /\ F[i] \in Unit /\ F[i] \in Members(F) /\ F[i] \notin Members(U)
       /\ F[i] # m.used[b] /\ (F[i] = u <=> i = k)
       /\ F[i] = m.pre[u] <=> i = k - 1
       /\ F[i] = m.next[u] <=> i = k + 1
       /\ F[i][2] \in Nat /\ m.size[F[i]] \in Nat
  /\ \A i \in 1..Len(U) :
       /\ U[i] \in Unit /\ U[i] \in Members(U) /\ U[i] # u
       /\ U[i] # m.pre[u] /\ U[i] # m.next[u] /\ (U[i] = m.used[b] <=> i = 1)
  /\ m.next[u] = At(F, k + 1) /\ m.pre[u] = At(F, k - 1)
  /\ m.used[b] = At(U, 1)
  /\ m.next[u] \in Members(F) \cup {NULL} /\ m.pre[u] \in Members(F) \cup {NULL}
  /\ m.used[b] \in Members(U) \cup {NULL}
  /\ u = m.free[b] <=> k = 1
  /\ m.pre[u] = NULL <=> k = 1
  /\ Members(U) = Of(held, b) /\ Members(F) \cap Members(U) = {}
  /\ Tiles(Members(F) \cup Members(U), b, m.size)
  /\ u \notin held

\* It is.
LEMMA TakingFacts ==
  ASSUME NEW m, NEW held, NEW num, NEW F, NEW U, NEW k, Taking(m, held, num, F, U, k)
  PROVE  Known(m, held, num, F, U, k, F[k], F[k][1])
<1> DEFINE u == F[k]
           b == u[1]
           H == Members(F) \cup Members(U)
<1>1. /\ m \in Memory /\ held \in SUBSET Unit
      /\ IsChain(F, m.free[b], m.next, m.pre) /\ IsChain(U, m.used[b], m.next, m.pre)
      /\ Apart(F, m.size)
      /\ Members(U) = Of(held, b) /\ Members(F) \cap Members(U) = {}
      /\ Tiles(H \cup Of({}, b), b, m.size)
      /\ k \in 1..Len(F) /\ num \in Request /\ m.size[u] >= num /\ b \in 1..m.blocks
  BY DEF Taking, BlockSound, IsPool
<1>2. H \cup Of({}, b) = H
  BY DEF Of
<1>3. Tiles(H, b, m.size)
  BY <1>1, <1>2
<1> HIDE DEF b
<1>4. /\ Len(F) \in Nat
      /\ \A i \in 1..Len(F) : F[i] \in Unit /\ F[i] # NULL /\ At(F, i) = F[i] /\ F[i] \in Members(F)
      /\ \A i \in Int :
           /\ At(F, i) \in Link
           /\ At(F, i) = NULL <=> i \notin 1..Len(F)
           /\ At(F, i) # NULL => At(F, i) \in Members(F)
           /\ \A j \in 1..Len(F) : F[j] = At(F, i) <=> j = i
  <2>1. IsChain(F, m.free[b], m.next, m.pre)
    BY <1>1
  <2>2. QED
    BY <2>1, AtFacts
<1>5. /\ Len(U) \in Nat
      /\ \A i \in 1..Len(U) : U[i] \in Unit /\ U[i] # NULL /\ At(U, i) = U[i] /\ U[i] \in Members(U)
      /\ \A i \in Int :
           /\ At(U, i) \in Link
           /\ At(U, i) # NULL => At(U, i) \in Members(U)
           /\ \A j \in 1..Len(U) : U[j] = At(U, i) <=> j = i
  <2>1. IsChain(U, m.used[b], m.next, m.pre)
    BY <1>1
  <2>2. QED
    BY <2>1, AtFacts
<1>6. k \in Nat /\ k - 1 \in Int /\ k + 1 \in Int /\ 1 \in Int /\ k \in Int
  BY <1>1, <1>4
<1>7. u \in Unit /\ u \in Members(F) /\ At(F, k) = u /\ b \in 1..MaxBlock
  <2>1. u \in Unit /\ u \in Members(F) /\ At(F, k) = u
    BY <1>1, <1>4
  <2>2. QED
    BY <2>1, UnitParts DEF b
<1>8. m.next[u] = At(F, k + 1) /\ m.pre[u] = At(F, k - 1) /\ m.free[b] = At(F, 1) /\ m.used[b] = At(U, 1)
  BY <1>1 DEF IsChain
<1>9. \A v \in H : v \in Unit /\ v[2] \in Nat /\ m.size[v] \in Nat /\ v[1] = b
  BY <1>3, UnitParts DEF Tiles
<1>10. num \in Nat /\ num > 0
  BY <1>1, RequestFits
<1>11. num <= m.size[u]
  BY <1>1, <1>7, <1>9, <1>10
<1>12. u \notin held
  <2>1. u \notin Of(held, b) /\ u[1] = b
    BY <1>1, <1>7, <1>9
  <2>2. QED
    BY <2>1 DEF Of
<1> HIDE DEF u
<1>13. /\ m.next[u] \in Members(F) \cup {NULL} /\ m.pre[u] \in Members(F) \cup {NULL}
       /\ m.used[b] \in Members(U) \cup {NULL}
  BY <1>4, <1>5, <1>6, <1>8
<1>14. u = m.free[b] <=> k = 1
  BY <1>1, <1>4, <1>6, <1>8 DEF u
<1>15. m.pre[u] = NULL <=> k = 1
  <2>1. k - 1 \notin 1..Len(F) <=> k = 1
    BY <1>1, <1>4
  <2>2. QED
    BY <1>4, <1>6, <1>8, <2>1
<1>16. ASSUME NEW i \in 1..Len(F)
       PROVE  /\ F[i] \in Unit /\ F[i] \in Members(F) /\ F[i] \notin Members(U)
              /\ F[i] # m.used[b] /\ (F[i] = u <=> i = k)
              /\ F[i] = m.pre[u] <=> i = k - 1
              /\ F[i] = m.next[u] <=> i = k + 1
              /\ F[i][2] \in Nat /\ m.size[F[i]] \in Nat
  <2>1. F[i] \in Unit /\ F[i] \in Members(F) /\ F[i] # NULL
    BY <1>4
  <2>2. F[i] \notin Members(U) /\ F[i] # m.used[b]
    BY <1>1, <1>13, <2>1
  <2>3. (F[i] = u <=> i = k) /\ (F[i] = m.pre[u] <=> i = k - 1) /\ (F[i] = m.next[u] <=> i = k + 1)
    BY <1>4, <1>6, <1>7, <1>8
  <2>4. F[i][2] \in Nat /\ m.size[F[i]] \in Nat
    BY <1>9, <2>1
  <2>5. QED
    BY <2>1, <2>2, <2>3, <2>4
<1>17. ASSUME NEW i \in 1..Len(U)
       PROVE  /\ U[i] \in Unit /\ U[i] \in Members(U) /\ U[i] # u
              /\ U[i] # m.pre[u] /\ U[i] # m.next[u] /\ (U[i] = m.used[b] <=> i = 1)
  <2>1. U[i] \in Unit /\ U[i] \in Members(U) /\ U[i] # NULL
    BY <1>5
  <2>2. U[i] \notin Members(F)
    BY <1>1, <2>1
  <2>3. U[i] = m.used[b] <=> i = 1
    BY <1>5, <1>6, <1>8
  <2>4. QED
    BY <1>7, <1>13, <2>1, <2>2, <2>3
<1>18. m.free[b] \in Link
  BY <1>4, <1>6, <1>8
<1>19. QED
  BY <1>1, <1>3, <1>4, <1>5, <1>6, <1>7, <1>8, <1>10, <1>11, <1>12, <1>13, <1>14, <1>15,
     <1>16, <1>17, <1>18 DEF Known, u, b

\* What makes G the free list after num units of F[k] are taken; the chunk that
\* is left of it is new.
TakenAs(m, o, num, F, U, k, G) ==
  LET u == F[k]
      b == u[1]
  IN  /\ o = Take(m, u, num)
      /\ IsChain(G, o.free[b], o.next, o.pre)
      /\ Apart(G, o.size)
      /\ Members(G) \cap (Members(U) \cup {u}) = {}
      /\ Tiles(Members(G) \cup Members(U) \cup {u}, b, o.size)
      /\ m.size[u] # num => /\ Plus(u, num) \in Unit /\ Plus(u, num)[1] = b
                            /\ Plus(u, num) # u /\ Plus(u, num) \notin Members(U)

\* The pool o has the chunk u more than m.
HasMore(m, o, held, u, num) ==
  /\ IsPool(o, held \cup {u}, {})
  /\ o.size[u] = num
  /\ \A v \in held : o.size[v] = m.size[v]

\* If there is such a list, the pool is sound, with the chunk.
LEMMA TakePool ==
  ASSUME NEW m, NEW held, NEW num, NEW F, NEW U, NEW k, Taking(m, held, num, F, U, k),
         NEW o, NEW G, TakenAs(m, o, num, F, U, k, G)
  PROVE  HasMore(m, o, held, F[k], num)
<1> DEFINE u == F[k]
           b == u[1]
           r == Plus(u, num)
           V == With(U, 1, u)
           whole == m.size[u] = num
<1>1. /\ IsChain(G, o.free[b], o.next, o.pre) /\ Apart(G, o.size)
      /\ Members(G) \cap (Members(U) \cup {u}) = {}
      /\ Tiles(Members(G) \cup Members(U) \cup {u}, b, o.size)
      /\ ~whole => r \in Unit /\ r[1] = b /\ r # u /\ r \notin Members(U)
      /\ o = Take(m, u, num)
  BY DEF TakenAs
<1>2. /\ m \in Memory /\ u \in Unit /\ u \in Members(F) /\ b \in 1..MaxBlock
      /\ num \in Nat /\ num > 0 /\ num <= m.size[u]
      /\ IsChain(U, m.used[b], m.next, m.pre)
      /\ Len(U) \in Nat
      /\ \A i \in 1..Len(U) :
           /\ U[i] \in Unit /\ U[i] \in Members(U) /\ U[i] # u
           /\ U[i] # m.pre[u] /\ U[i] # m.next[u] /\ (U[i] = m.used[b] <=> i = 1)
      /\ m.used[b] = At(U, 1)
      /\ m.next[u] \in Members(F) \cup {NULL} /\ m.pre[u] \in Members(F) \cup {NULL}
      /\ m.used[b] \in Members(U) \cup {NULL}
      /\ Members(U) = Of(held, b) /\ Members(F) \cap Members(U) = {}
      /\ Tiles(Members(F) \cup Members(U), b, m.size)
      /\ u \notin held
  <2>1. Known(m, held, num, F, U, k, u, b)
    BY TakingFacts
  <2> HIDE DEF u, b
  <2>2. QED
    BY <2>1 DEF Known
<1>3. /\ IsPool(m, held, {}) /\ num \in Request /\ b \in 1..m.blocks
      /\ held \in SUBSET Unit
      /\ \A v \in held : v[1] \in 1..m.blocks /\ m.size[v] \in Request
  BY DEF Taking, IsPool
<1>4. /\ o \in Memory /\ o.blocks = m.blocks
      /\ o.free = [m.free EXCEPT ![b] = FreeHeader(m, u, AfterTaken(m, u, num))]
      /\ o.used = [m.used EXCEPT ![b] = u]
      /\ \A x \in Unit :
           /\ whole => o.size[x] = m.size[x]
           /\ ~whole => o.size[x] = IF x = r THEN m.size[u] - num
                                    ELSE IF x = u THEN num ELSE m.size[x]
           /\ o.next[x] = IF x = u THEN m.used[b]
                          ELSE IF x = m.pre[u] THEN AfterTaken(m, u, num)
                          ELSE IF ~whole /\ x = r THEN m.next[u]
                          ELSE m.next[x]
           /\ o.pre[x] = IF x = u THEN NULL
                         ELSE IF x = m.used[b] THEN u
                         ELSE IF x = m.next[u] THEN BackTaken(m, u, num)
                         ELSE IF ~whole /\ x = r THEN m.pre[u]
                         ELSE m.pre[x]
  <2>1. TakenFields(m, u, num, o, b)
    BY <1>1, <1>2, TakeFields
  <2> HIDE DEF u, b
  <2>2. QED
    BY <2>1 DEF TakenFields
<1>5. /\ m.free \in [1..MaxBlock -> Link] /\ m.used \in [1..MaxBlock -> Link]
      /\ 1..m.blocks \subseteq 1..MaxBlock
  BY <1>2, FieldTypes
<1> HIDE DEF u, b, r
<1>6. PutBetween(U, 1, u, m.used[b], m.next, m.pre, o.used[b], o.next, o.pre)
  <2>1. o.used[b] = u
    BY <1>2, <1>4, <1>5
  <2>2. o.next[u] = At(U, 1) /\ o.pre[u] = At(U, 1 - 1)
    BY <1>2, <1>4 DEF At
  <2>3. ASSUME NEW i \in 1..Len(U)
        PROVE  /\ U[i] # u
               /\ o.next[U[i]] = IF i = 1 - 1 THEN u ELSE m.next[U[i]]
               /\ o.pre[U[i]] = IF i = 1 THEN u ELSE m.pre[U[i]]
    <3>1. i # 1 - 1 /\ (~whole => U[i] # r)
      BY <1>1, <1>2
    <3>2. QED
      BY <1>2, <1>4, <3>1
  <2>4. 1 \in 1..(Len(U) + 1)
    BY <1>2
  <2>5. QED
    BY <1>2, <2>1, <2>2, <2>3, <2>4 DEF PutBetween
<1>7. IsChain(V, o.used[b], o.next, o.pre) /\ Members(V) = Members(U) \cup {u}
  BY <1>6, ChainWith
<1> HIDE DEF V, whole
<1>8. o.size[u] = num
  BY <1>1, <1>2, <1>4 DEF whole
<1>9. ASSUME NEW v \in held
      PROVE  o.size[v] = m.size[v]
  <2>1. v \in Unit /\ v # u
    BY <1>2, <1>3
  <2>2. ~whole => v # r
    <3>1. v[1] = b => v \in Members(U)
      BY <1>2 DEF Of
    <3>2. QED
      BY <1>1, <3>1
  <2>3. QED
    BY <1>4, <2>1, <2>2
<1>10. BlockSound(o, b, held \cup {u}, {}, G, V)
  <2>1. Of(held \cup {u}, b) = Of(held, b) \cup {u} /\ Of({}, b) = {}
    BY DEF Of, b
  <2>2. Members(G) \cup Members(V) \cup Of({}, b) = Members(G) \cup Members(U) \cup {u}
    BY <1>7, <2>1
  <2>3. Members(V) = Of(held \cup {u}, b)
    BY <1>2, <1>7, <2>1
  <2>4. Members(G) \cap Members(V) = {}
    BY <1>1, <1>7
  <2>5. QED
    BY <1>1, <1>7, <2>1, <2>2, <2>3, <2>4 DEF BlockSound
<1>11. ASSUME NEW c \in 1..m.blocks, c # b
       PROVE  Agree(m, o, c) /\ Of(held \cup {u}, c) = Of(held, c) /\ Of({}, c) = Of({}, c)
  <2>1. c \in 1..MaxBlock
    BY <1>5
  <2>2. o.free[c] = m.free[c] /\ o.used[c] = m.used[c]
    BY <1>4, <1>5, <1>11, <2>1
  <2>3. \A v \in Members(F) \cup Members(U) : v[1] = b
    BY <1>2 DEF Tiles
  <2>4. ASSUME NEW v \in Unit, v[1] = c
        PROVE  /\ v # u /\ v # m.pre[u] /\ v # m.next[u] /\ v # m.used[b]
               /\ ~whole => v # r
    <3>1. v # NULL /\ v \notin Members(F) /\ v \notin Members(U)
      BY <1>11, <2>3, <2>4, UnitParts
    <3>2. QED
      BY <1>1, <1>2, <1>11, <2>4, <3>1
  <2>5. Agree(m, o, c)
    BY <1>4, <2>2, <2>4 DEF Agree
  <2>6. QED
    BY <1>11, <2>5 DEF Of, b
<1>12. IsPool(o, held \cup {u}, {})
  <2> DEFINE none == {}
             hold == held \cup {u}
  <2>1. /\ none \in SUBSET Unit /\ hold \in SUBSET Unit
        /\ \A v \in hold \cup none : v[1] \in 1..m.blocks
    BY <1>2, <1>3 DEF b
  <2>2. \A v \in hold : o.size[v] \in Request
    BY <1>3, <1>8, <1>9
  <2>3. \E A, B : BlockSound(o, b, hold, none, A, B)
    BY <1>10
  <2>4. \A c \in 1..m.blocks : c # b =>
             Agree(m, o, c) /\ Of(hold, c) = Of(held, c) /\ Of(none, c) = Of(none, c)
    BY <1>11
  <2>5. IsPool(m, held, none)
    BY <1>3
  <2> HIDE DEF none, hold
  <2>6. IsPool(o, hold, none)
    BY <1>4, <2>1, <2>2, <2>3, <2>4, <2>5, PoolStep
  <2>7. QED
    BY <2>6 DEF hold, none
<1>13. QED
  BY <1>8, <1>9, <1>12 DEF u, HasMore

\* A chunk of the right size leaves the free list.
LEMMA TakeWhole ==
  ASSUME NEW m, NEW held, NEW num, NEW F, NEW U, NEW k, Taking(m, held, num, F, U, k),
         NEW o, o = Take(m, F[k], num), m.size[F[k]] = num
  PROVE  TakenAs(m, o, num, F, U, k, Without(F, k))
<1> DEFINE u == F[k]
           b == u[1]
           G == Without(F, k)
           L == Len(F)
<1>1. Known(m, held, num, F, U, k, u, b) /\ k \in 1..L
  BY TakingFacts DEF Taking
<1>2. b = u[1] /\ u = F[k] /\ m.size[u] = num /\ o = Take(m, u, num)
  OBVIOUS
<1> HIDE DEF u, b
<1>3. /\ m \in Memory /\ u \in Unit /\ u \in Members(F) /\ b \in 1..MaxBlock
      /\ num \in Nat /\ num > 0 /\ num <= m.size[u]
      /\ IsChain(F, m.free[b], m.next, m.pre) /\ Apart(F, m.size)
      /\ L \in Nat /\ k \in Nat
      /\ \A i \in 1..L :
           /\ F[i] \in Unit
           /\ F[i] # m.used[b] /\ (F[i] = u <=> i = k)
           /\ F[i] = m.pre[u] <=> i = k - 1
           /\ F[i] = m.next[u] <=> i = k + 1
      /\ m.next[u] = At(F, k + 1) /\ m.pre[u] = At(F, k - 1)
      /\ u = m.free[b] <=> k = 1
      /\ m.pre[u] = NULL <=> k = 1
      /\ Members(F) \cap Members(U) = {}
      /\ Tiles(Members(F) \cup Members(U), b, m.size)
  BY <1>1 DEF Known
<1>4. AfterTaken(m, u, num) = m.next[u] /\ BackTaken(m, u, num) = m.pre[u]
  BY <1>2 DEF AfterTaken, BackTaken
<1>5. /\ o.free = [m.free EXCEPT ![b] = FreeHeader(m, u, m.next[u])]
      /\ \A x \in Unit :
           /\ o.size[x] = m.size[x]
           /\ o.next[x] = IF x = u THEN m.used[b]
                          ELSE IF x = m.pre[u] THEN m.next[u] ELSE m.next[x]
           /\ o.pre[x] = IF x = u THEN NULL
                         ELSE IF x = m.used[b] THEN u
                         ELSE IF x = m.next[u] THEN m.pre[u] ELSE m.pre[x]
  <2>1. TakenFields(m, u, num, o, b)
    BY <1>2, <1>3, TakeFields
  <2>2. QED
    BY <1>2, <1>4, <2>1 DEF TakenFields
<1>6. o.free[b] = IF k = 1 THEN At(F, 2) ELSE m.free[b]
  <2>1. m.free \in [1..MaxBlock -> Link]
    BY <1>3, FieldTypes
  <2>2. o.free[b] = FreeHeader(m, u, m.next[u])
    BY <1>3, <1>5, <2>1
  <2>3. FreeHeader(m, u, m.next[u]) = IF k = 1 THEN m.next[u] ELSE m.free[b]
    BY <1>2, <1>3 DEF FreeHeader
  <2>4. k = 1 => m.next[u] = At(F, 2)
    BY <1>3
  <2>5. QED
    BY <2>2, <2>3, <2>4
<1>7. PassedOver(F, k, m.free[b], m.next, m.pre, o.free[b], o.next, o.pre)
  <2>1. ASSUME NEW i \in 1..L, i # k
        PROVE  /\ o.next[F[i]] = IF i = k - 1 THEN At(F, k + 1) ELSE m.next[F[i]]
               /\ o.pre[F[i]] = IF i = k + 1 THEN At(F, k - 1) ELSE m.pre[F[i]]
    BY <1>3, <1>5, <2>1
  <2>2. QED
    BY <1>1, <1>3, <1>6, <2>1 DEF PassedOver
<1>8. /\ IsChain(G, o.free[b], o.next, o.pre)
      /\ Len(G) = L - 1
      /\ \A i \in 1..(L - 1) : G[i] = F[IF i < k THEN i ELSE i + 1]
      /\ Members(G) = Members(F) \ {u}
  BY <1>2, <1>7, ChainWithout
<1> HIDE DEF G, L
<1>9. Apart(G, o.size)
  <2>1. \A i \in 1..Len(F) : o.size[F[i]] = m.size[F[i]]
    BY <1>3, <1>5 DEF L
  <2>2. \A i, j \in 1..Len(F) : i < j => F[i][2] + o.size[F[i]] < F[j][2]
    BY <1>3, <2>1 DEF Apart
  <2>3. Apart(F, o.size)
    BY <2>2 DEF Apart
  <2>4. PICK size : size = o.size
    OBVIOUS
  <2>5. Apart(G, size)
    BY <1>1, <1>3, <1>8, <2>3, <2>4, ApartWithout DEF L
  <2>6. QED
    BY <2>4, <2>5
<1>10. Tiles(Members(G) \cup Members(U) \cup {u}, b, o.size)
  <2>1. Members(G) \cup Members(U) \cup {u} = Members(F) \cup Members(U)
    BY <1>3, <1>8
  <2>2. \A x \in Members(F) \cup Members(U) : o.size[x] = m.size[x]
    BY <1>3, <1>5 DEF Tiles
  <2>3. Tiles(Members(F) \cup Members(U), b, o.size)
    BY <1>3, <2>2, TilesSame
  <2>4. QED
    BY <2>1, <2>3
<1>11. Members(G) \cap (Members(U) \cup {u}) = {}
  BY <1>3, <1>8
<1>12. QED
  BY <1>2, <1>8, <1>9, <1>10, <1>11 DEF TakenAs, G

\* What is left of a larger one takes its place.
LEMMA TakePart ==
  ASSUME NEW m, NEW held, NEW num, NEW F, NEW U, NEW k, Taking(m, held, num, F, U, k),
         NEW o, o = Take(m, F[k], num), m.size[F[k]] # num
  PROVE  TakenAs(m, o, num, F, U, k, Instead(F, k, Plus(F[k], num)))
<1> DEFINE u == F[k]
           b == u[1]
           r == Plus(u, num)
           G == Instead(F, k, r)
           L == Len(F)
           H == Members(F) \cup Members(U)
<1>1. Known(m, held, num, F, U, k, u, b) /\ k \in 1..L
  BY TakingFacts DEF Taking
<1>2. b = u[1] /\ u = F[k] /\ m.size[u] # num /\ o = Take(m, u, num)
  OBVIOUS
<1> HIDE DEF u, b
<1>3. /\ m \in Memory /\ u \in Unit /\ u \in Members(F) /\ b \in 1..MaxBlock
      /\ num \in Nat /\ num > 0 /\ num <= m.size[u]
      /\ IsChain(F, m.free[b], m.next, m.pre) /\ Apart(F, m.size)
      /\ L \in Nat /\ k \in Nat
      /\ \A i \in 1..L :
           /\ F[i] \in Unit /\ F[i] \in Members(F)
           /\ F[i] # m.used[b] /\ (F[i] = u <=> i = k)
           /\ F[i] = m.pre[u] <=> i = k - 1
           /\ F[i] = m.next[u] <=> i = k + 1
           /\ F[i][2] \in Nat /\ m.size[F[i]] \in Nat
      /\ m.next[u] = At(F, k + 1) /\ m.pre[u] = At(F, k - 1)
      /\ m.next[u] \in Members(F) \cup {NULL} /\ m.pre[u] \in Members(F) \cup {NULL}
      /\ m.used[b] \in Members(U) \cup {NULL}
      /\ u = m.free[b] <=> k = 1
      /\ m.pre[u] = NULL <=> k = 1
      /\ Members(F) \cap Members(U) = {}
      /\ Tiles(H, b, m.size)
  BY <1>1 DEF Known
<1>4. AfterTaken(m, u, num) = r /\ BackTaken(m, u, num) = r
  BY <1>2 DEF AfterTaken, BackTaken
<1>5. u[2] \in Nat /\ m.size[u] \in Nat /\ num < m.size[u]
  BY <1>1, <1>2, <1>3
<1>6. r \in Unit /\ r[1] = b /\ r[2] = u[2] + num
  <2>1. u[2] + m.size[u] <= BlockSize(b) /\ BlockSize(b) \in Nat
    BY <1>3, UnitFacts DEF Tiles
  <2>2. u[2] + num < BlockSize(u[1])
    <3>1. u[1] = b /\ num \in Nat
      BY <1>2, <1>3
    <3>2. u[2] + num < BlockSize(b)
      BY <1>5, <2>1, <3>1
    <3>3. QED
      BY <3>1, <3>2
  <2>3. QED
    BY <1>2, <1>3, <2>2, PlusUnit
<1>7. /\ o.free = [m.free EXCEPT ![b] = FreeHeader(m, u, r)]
      /\ \A x \in Unit :
           /\ o.size[x] = IF x = r THEN m.size[u] - num ELSE IF x = u THEN num ELSE m.size[x]
           /\ o.next[x] = IF x = u THEN m.used[b]
                          ELSE IF x = m.pre[u] THEN r
                          ELSE IF x = r THEN m.next[u] ELSE m.next[x]
           /\ o.pre[x] = IF x = u THEN NULL
                         ELSE IF x = m.used[b] THEN u
                         ELSE IF x = m.next[u] THEN r
                         ELSE IF x = r THEN m.pre[u] ELSE m.pre[x]
  <2>1. TakenFields(m, u, num, o, b)
    BY <1>2, <1>3, <1>6, TakeFields
  <2>2. QED
    BY <1>2, <1>4, <2>1 DEF TakenFields
<1>8. r # u
  BY <1>3, <1>5, <1>6
<1>9. r \notin H
  <2> SUFFICES ASSUME r \in H PROVE FALSE
    OBVIOUS
  <2>1. u \in H /\ u[2] < r[2]
    BY <1>3, <1>5, <1>6
  <2>2. u[2] + m.size[u] <= r[2]
    BY <1>3, <2>1 DEF Tiles
  <2>3. QED
    BY <1>3, <1>5, <1>6, <2>2
<1>10. \A x \in H : x \in Unit
  BY <1>3 DEF Tiles
<1>11. /\ o.size[u] = num /\ o.size[r] = m.size[u] - num
       /\ \A x \in H : x # u => o.size[x] = m.size[x]
  BY <1>3, <1>6, <1>7, <1>8, <1>9, <1>10
<1>12. Tiles(H \cup {r}, b, o.size)
  <2>1. PICK old, new : old = m.size /\ new = o.size
    OBVIOUS
  <2>2. /\ new[u] = num /\ new[r] = old[u] - num
        /\ \A x \in H : x # u => new[x] = old[x]
    BY <1>11, <2>1
  <2>3. u \in H /\ Tiles(H, b, old) /\ num \in Nat /\ 0 < num /\ num < old[u]
    BY <1>3, <1>5, <2>1
  <2> HIDE DEF H
  <2>4. Tiles(H \cup {r}, b, new)
    BY <2>2, <2>3, TilesSplit
  <2>5. QED
    BY <2>1, <2>4
<1>13. o.free[b] = IF k = 1 THEN r ELSE m.free[b]
  <2>1. m.free \in [1..MaxBlock -> Link]
    BY <1>3, FieldTypes
  <2>2. o.free[b] = FreeHeader(m, u, r)
    BY <1>3, <1>7, <2>1
  <2>3. FreeHeader(m, u, r) = IF k = 1 THEN r ELSE m.free[b]
    BY <1>2, <1>3 DEF FreeHeader
  <2>4. QED
    BY <2>2, <2>3
<1> HIDE DEF r
<1>14. r # NULL /\ r # m.pre[u] /\ r # m.next[u] /\ r # m.used[b]
  BY <1>3, <1>6, <1>9, UnitParts
<1>15. PutInPlace(F, k, r, m.free[b], m.next, m.pre, o.free[b], o.next, o.pre)
  <2>1. o.next[r] = At(F, k + 1) /\ o.pre[r] = At(F, k - 1)
    BY <1>3, <1>6, <1>7, <1>8, <1>14
  <2>2. ASSUME NEW i \in 1..L, i # k
        PROVE  /\ F[i] # r
               /\ o.next[F[i]] = IF i = k - 1 THEN r ELSE m.next[F[i]]
               /\ o.pre[F[i]] = IF i = k + 1 THEN r ELSE m.pre[F[i]]
    <3>1. F[i] # r
      BY <1>3, <1>9
    <3>2. QED
      BY <1>3, <1>7, <2>2, <3>1
  <2>3. QED
    BY <1>1, <1>3, <1>6, <1>13, <2>1, <2>2 DEF PutInPlace
<1>16. /\ IsChain(G, o.free[b], o.next, o.pre)
       /\ Len(G) = L
       /\ \A i \in 1..L : G[i] = IF i = k THEN r ELSE F[i]
       /\ Members(G) = (Members(F) \ {u}) \cup {r}
  BY <1>2, <1>15, ChainInstead
<1> HIDE DEF G, L
<1>17. Apart(G, o.size)
  <2>1. /\ k \in 1..Len(G) /\ Len(G) \in Nat /\ G[k] = r /\ G[k][2] = u[2] + num
        /\ G[k][2] \in Nat /\ o.size[G[k]] \in Nat
        /\ G[k][2] + o.size[G[k]] = u[2] + m.size[u]
    <3>1. k \in 1..Len(G) /\ Len(G) \in Nat /\ G[k] = r
      BY <1>1, <1>3, <1>16
    <3>2. /\ u[2] \in Nat /\ m.size[u] \in Nat /\ num \in Nat /\ num < m.size[u]
          /\ r[2] = u[2] + num /\ o.size[r] = m.size[u] - num
      BY <1>3, <1>5, <1>6, <1>11
    <3>3. /\ r[2] \in Nat /\ o.size[r] \in Nat
          /\ r[2] + o.size[r] = u[2] + m.size[u]
      BY <3>2
    <3>4. QED
      BY <3>1, <3>2, <3>3
  <2>2. ASSUME NEW i \in 1..L, i # k
        PROVE  G[i] = F[i] /\ o.size[F[i]] = m.size[F[i]]
    BY <1>3, <1>11, <1>16, <2>2
  <2>3. ASSUME NEW i \in 1..L, i < k
        PROVE  G[i] = F[i] /\ o.size[F[i]] = m.size[F[i]] /\ F[i][2] + m.size[F[i]] < G[k][2]
    <3>1. F[i][2] + m.size[F[i]] < u[2]
      BY <1>1, <1>2, <1>3, <2>3 DEF Apart, L
    <3>2. F[i][2] \in Nat /\ m.size[F[i]] \in Nat /\ i # k
      BY <1>3, <2>3
    <3>3. F[i][2] + m.size[F[i]] < u[2] + num
      BY <1>3, <1>5, <3>1, <3>2
    <3>4. QED
      BY <2>1, <2>2, <3>2, <3>3
  <2>4. PICK d \in Int : d = 0
    OBVIOUS
  <2>5. ASSUME NEW i \in 1..L, i > k
        PROVE  /\ i + d \in 1..L /\ G[i] = F[i + d] /\ o.size[F[i + d]] = m.size[F[i + d]]
               /\ G[k][2] + o.size[G[k]] < F[i + d][2]
    <3>1. i + d = i /\ i # k /\ k < i
      BY <1>3, <2>4, <2>5
    <3>2. u[2] + m.size[u] < F[i][2]
      BY <1>1, <1>2, <1>3, <3>1 DEF Apart, L
    <3>3. QED
      BY <2>1, <2>2, <3>1, <3>2
  <2>6. \A i \in 1..L : F[i][2] \in Nat /\ m.size[F[i]] \in Nat
    BY <1>3
  <2>7. Len(G) = L
    BY <1>16
  <2>8. Around(F, m.size, G, o.size, k, d)
    BY <1>3, <2>1, <2>3, <2>5, <2>6, <2>7 DEF Around, L
  <2>9. QED
    BY <2>8, ApartAround
<1>18. Tiles(Members(G) \cup Members(U) \cup {u}, b, o.size)
  <2>1. Members(G) \cup Members(U) \cup {u} = H \cup {r}
    BY <1>3, <1>16
  <2>2. QED
    BY <1>12, <2>1
<1>19. Members(G) \cap (Members(U) \cup {u}) = {}
  BY <1>3, <1>8, <1>9, <1>16
<1>20. QED
  BY <1>2, <1>6, <1>8, <1>9, <1>16, <1>17, <1>18, <1>19 DEF TakenAs, G, r

\* bmemory_get leaves a sound pool, with a chunk of the size asked for that
\* nobody had; the others are as they were.
LEMMA GetSound ==
  ASSUME NEW m, NEW held, IsPool(m, held, {}), NEW num \in Request,
         FirstFit(m, num) = NULL => m.blocks < MaxBlock
  PROVE  LET g == IF FirstFit(m, num) = NULL THEN AllocBlock(m) ELSE m
             u == FirstFit(g, num)
             o == Take(g, u, num)
         IN  /\ u \in Unit /\ u \notin held
             /\ IsPool(o, held \cup {u}, {})
             /\ o.size[u] = num
             /\ \A v \in held : o.size[v] = m.size[v]
<1> DEFINE g == IF FirstFit(m, num) = NULL THEN AllocBlock(m) ELSE m
           u == FirstFit(g, num)
           o == Take(g, u, num)
<1>1. /\ IsPool(g, held, {}) /\ u # NULL
      /\ \A v \in held : g.size[v] = m.size[v]
  <2>1. CASE FirstFit(m, num) = NULL
    <3> DEFINE a == AllocBlock(m)
               b == m.blocks + 1
               F == <<<<b, 0>>>>
    <3>1. /\ IsPool(a, held, {})
          /\ \A v \in held : a.size[v] = m.size[v]
          /\ b \in 1..a.blocks /\ b \in 1..MaxBlock
          /\ BlockSound(a, b, held, {}, F, <<>>)
          /\ a.size[<<b, 0>>] = BlockSize(b)
      BY <2>1, AllocSound
    <3>2. g = a
      BY <2>1
    <3> HIDE DEF a, b
    <3>3. num <= BlockSize(b) /\ num \in Nat /\ BlockSize(b) \in Nat
      BY <3>1, RequestFits, UnitFacts
    <3>4. 1 \in 1..Len(F) /\ F[1] = <<b, 0>>
      OBVIOUS
    <3>5. a.size[F[1]] >= num
      BY <3>1, <3>3, <3>4
    <3> HIDE DEF F
    <3>6. FirstFit(a, num) # NULL
      BY <3>1, <3>4, <3>5, FitThere
    <3>7. QED
      BY <3>1, <3>2, <3>6
  <2>2. CASE FirstFit(m, num) # NULL
    BY <2>2
  <2>3. QED
    BY <2>1, <2>2
<1> HIDE DEF g
<1>2. PICK b \in 1..g.blocks : \E F, U : \E k \in 1..Len(F) :
        /\ BlockSound(g, b, held, {}, F, U)
        /\ u = F[k]
        /\ g.size[F[k]] >= num
  BY <1>1, FitFound
<1>3. PICK F, U : \E k \in 1..Len(F) :
        /\ BlockSound(g, b, held, {}, F, U)
        /\ u = F[k]
        /\ g.size[F[k]] >= num
  BY <1>2
<1>4. PICK k \in 1..Len(F) :
        /\ BlockSound(g, b, held, {}, F, U)
        /\ u = F[k]
        /\ g.size[F[k]] >= num
  BY <1>3
<1> HIDE DEF u
<1>5. F[k][1] = b
  <2>1. IsChain(F, g.free[b], g.next, g.pre)
        /\ Tiles(Members(F) \cup Members(U) \cup Of({}, b), b, g.size)
    BY <1>4 DEF BlockSound
  <2>2. F[k] \in Members(F)
    BY <2>1, AtFacts
  <2>3. QED
    BY <2>1, <2>2 DEF Tiles
<1>6. Taking(g, held, num, F, U, k)
  BY <1>1, <1>2, <1>4, <1>5 DEF Taking
<1>7. Known(g, held, num, F, U, k, F[k], F[k][1])
  BY <1>6, TakingFacts
<1>8. u \in Unit /\ u \notin held
  BY <1>4, <1>7 DEF Known
<1>9. o = Take(g, F[k], num)
  BY <1>4
<1> HIDE DEF o
<1>10. PICK G : TakenAs(g, o, num, F, U, k, G)
  <2>1. CASE g.size[F[k]] = num
    BY <1>6, <1>9, <2>1, TakeWhole
  <2>2. CASE g.size[F[k]] # num
    BY <1>6, <1>9, <2>2, TakePart
  <2>3. QED
    BY <2>1, <2>2
<1>11. /\ IsPool(o, held \cup {u}, {})
       /\ o.size[u] = num
       /\ \A v \in held : o.size[v] = g.size[v]
  <2>1. HasMore(g, o, held, F[k], num)
    BY <1>6, <1>10, TakePool
  <2>2. HasMore(g, o, held, u, num)
    BY <1>4, <2>1
  <2>3. QED
    BY <2>2 DEF HasMore
<1>12. QED
  BY <1>1, <1>8, <1>11 DEF g, u, o

-----------------------------------------------------------------------------
(***************************************************************************)
(* The theorems.                                                           *)
(***************************************************************************)
\* The pool is sound between two calls.
PoolInv ==
  /\ IsPool(mem, live, {})
  /\ IsFiniteSet(live) /\ taken = Cardinality(live)

\* It is at first.
LEMMA PoolInit == Init => PoolInv
<1> SUFFICES ASSUME Init
             PROVE  PoolInv
  OBVIOUS
<1>1. mem \in Memory
  <2>1. MaxBlock \in Nat /\ 0 \in 0..MaxBlock
    BY BmemoryAssumption
  <2>2. QED
    BY <2>1 DEF Init, Memory, Links, Link
<1>2. mem.blocks = 0 /\ live = {} /\ taken = 0
  BY DEF Init
<1>3. 1..mem.blocks = {}
  BY <1>2
<1>4. IsPool(mem, live, {})
  BY <1>1, <1>2, <1>3 DEF IsPool
<1>5. QED
  BY <1>2, <1>4, FS_EmptySet DEF PoolInv

\* What bmemory_get does to a sound pool.
LEMMA GetStep ==
  ASSUME PoolInv, NEW num \in Request, Get(num)
  PROVE  \E u \in Unit :
           /\ u \notin live /\ live' = live \cup {u} /\ taken' = taken + 1
           /\ IsPool(mem', live', {})
           /\ mem'.size[u] = num
           /\ \A v \in live : mem'.size[v] = mem.size[v]
<1> DEFINE g == IF FirstFit(mem, num) = NULL THEN AllocBlock(mem) ELSE mem
           u == FirstFit(g, num)
           o == Take(g, u, num)
<1>1. IsPool(mem, live, {}) /\ (FirstFit(mem, num) = NULL => mem.blocks < MaxBlock)
  BY DEF PoolInv, Get
<1>2. /\ u \in Unit /\ u \notin live
      /\ IsPool(o, live \cup {u}, {})
      /\ o.size[u] = num
      /\ \A v \in live : o.size[v] = mem.size[v]
  BY <1>1, GetSound
<1>3. mem' = o /\ live' = live \cup {u} /\ taken' = taken + 1
  BY DEF Get, Grown
<1> HIDE DEF u, o
<1>4. QED
  BY <1>2, <1>3

\* What bmemory_free does to it.
LEMMA FreeStep ==
  ASSUME PoolInv, NEW u \in Unit, Free(u)
  PROVE  /\ u \in live /\ live' = live \ {u} /\ taken' = taken - 1
         /\ IsPool(mem', live', {})
         /\ \A v \in live' : mem'.size[v] = mem.size[v]
<1>1. u \in live /\ mem' = Freed(mem, u) /\ live' = live \ {u} /\ taken' = taken - 1
  BY DEF Free
<1>2. /\ IsPool(Freed(mem, u), live \ {u}, {})
      /\ \A v \in live \ {u} : Freed(mem, u).size[v] = mem.size[v]
  BY <1>1, FreedSound DEF PoolInv
<1>3. QED
  BY <1>1, <1>2

\* It stays so.
LEMMA PoolNext == PoolInv /\ [Next]_vars => PoolInv'
<1> SUFFICES ASSUME PoolInv, [Next]_vars
             PROVE  PoolInv'
  OBVIOUS
<1>1. IsFiniteSet(live) /\ taken = Cardinality(live)
  BY DEF PoolInv
<1>2. ASSUME NEW num \in Request, Get(num)
      PROVE  PoolInv'
  <2>1. PICK u \in Unit : /\ u \notin live /\ live' = live \cup {u} /\ taken' = taken + 1
                          /\ IsPool(mem', live', {})
    BY <1>2, GetStep
  <2>2. IsFiniteSet(live') /\ taken' = Cardinality(live')
    BY <1>1, <2>1, FS_AddElement
  <2>3. QED
    BY <2>1, <2>2 DEF PoolInv
<1>3. ASSUME NEW u \in Unit, Free(u)
      PROVE  PoolInv'
  <2>1. /\ u \in live /\ live' = live \ {u} /\ taken' = taken - 1
        /\ IsPool(mem', live', {})
    BY <1>3, FreeStep
  <2>2. IsFiniteSet(live') /\ taken' = Cardinality(live')
    BY <1>1, <2>1, FS_RemoveElement
  <2>3. QED
    BY <2>1, <2>2 DEF PoolInv
<1>4. CASE UNCHANGED vars
  BY <1>4 DEF vars, PoolInv
<1>5. QED
  BY <1>2, <1>3, <1>4 DEF Next

\* The pool is sound at all times.
THEOREM PoolCorrect == Spec => []PoolInv
BY PoolInit, PoolNext, PTL DEF Spec

\* The lists of a block of a sound pool.
LEMMA BlockLists ==
  ASSUME PoolInv, NEW b \in 1..mem.blocks
  PROVE  /\ BlockSound(mem, b, live, {}, FreeList(mem, b), UsedList(mem, b))
         /\ b \in 1..MaxBlock
<1>1. mem \in Memory /\ b \in 1..MaxBlock
  BY FieldTypes DEF PoolInv, IsPool
<1>2. PICK F, U : BlockSound(mem, b, live, {}, F, U)
  BY DEF PoolInv, IsPool
<1>3. FreeList(mem, b) = F /\ UsedList(mem, b) = U
  BY <1>1, <1>2, ListsAre
<1>4. QED
  BY <1>1, <1>2, <1>3

\* The free chunks of a block are linked in the order of their addresses, both
\* ways, and none touches the next: what bmemory_free relies on.
THEOREM FreeListCorrect == Spec => []FreeListOrdered
<1>1. PoolInv => FreeListOrdered
  <2> SUFFICES ASSUME PoolInv, NEW b \in 1..mem.blocks,
                      NEW i \in DOMAIN FreeList(mem, b)
               PROVE  LET list == FreeList(mem, b)
                      IN  /\ mem.pre[list[i]] = IF i = 1 THEN NULL ELSE list[i - 1]
                          /\ i > 1 => list[i - 1][2] + mem.size[list[i - 1]] < list[i][2]
    BY Zenon DEF FreeListOrdered
  <2> DEFINE list == FreeList(mem, b)
  <2>1. IsChain(list, mem.free[b], mem.next, mem.pre) /\ Apart(list, mem.size)
    BY BlockLists DEF BlockSound
  <2>2. i \in DOMAIN list
    OBVIOUS
  <2> HIDE DEF list
  <2>3. DOMAIN list = 1..Len(list) /\ Len(list) \in Nat
    BY <2>1 DEF IsChain
  <2>4. mem.pre[list[i]] = At(list, i - 1)
    BY <2>1, <2>2, <2>3 DEF IsChain
  <2>5. CASE i = 1
    <3>1. i - 1 \notin 1..Len(list) /\ ~(i > 1)
      BY <2>5
    <3>2. At(list, i - 1) = NULL
      BY <3>1 DEF At
    <3>3. QED
      BY <2>4, <2>5, <3>1, <3>2 DEF list
  <2>6. CASE i # 1
    <3>1. i - 1 \in 1..Len(list) /\ i \in 1..Len(list) /\ i - 1 < i
      BY <2>2, <2>3, <2>6
    <3>2. At(list, i - 1) = list[i - 1]
      BY <3>1 DEF At
    <3>3. list[i - 1][2] + mem.size[list[i - 1]] < list[i][2]
      BY <2>1, <3>1 DEF Apart
    <3>4. QED
      BY <2>4, <2>6, <3>2, <3>3 DEF list
  <2>7. QED
    BY <2>5, <2>6 DEF list
<1>2. QED
  BY <1>1, PoolCorrect, PTL

\* The used list of a block names the chunks that callers hold, each once.
THEOREM UsedListCorrect == Spec => []UsedListIsLive
<1>1. PoolInv => UsedListIsLive
  <2> SUFFICES ASSUME PoolInv, NEW b \in 1..mem.blocks
               PROVE  LET list == UsedList(mem, b)
                          here == {u \in live : u[1] = b}
                      IN  Members(list) = here /\ Len(list) = Cardinality(here)
    BY Zenon DEF UsedListIsLive
  <2> DEFINE list == UsedList(mem, b)
             here == {u \in live : u[1] = b}
             L == Len(list)
  <2>1. IsChain(list, mem.used[b], mem.next, mem.pre) /\ Members(list) = here
    BY BlockLists DEF BlockSound, Of
  <2> HIDE DEF list, here
  <2>2. /\ DOMAIN list = 1..L /\ L \in Nat /\ list \in Seq(Unit)
        /\ \A i, j \in 1..L : list[i] = list[j] => i = j
    BY <2>1 DEF IsChain
  <2>3. list \in Bijection(1..L, Members(list))
    <3>1. \A i \in 1..L : list[i] \in Members(list)
      BY <2>2 DEF Members
    <3>2. list \in [1..L -> Members(list)]
      BY <2>2, <3>1
    <3>3. \A x \in Members(list) : \E i \in 1..L : list[i] = x
      BY <2>2 DEF Members
    <3>4. QED
      BY <2>2, <3>2, <3>3 DEF Bijection, Injection, Surjection, IsInjective
  <2>4. IsFiniteSet(1..L) /\ Cardinality(1..L) = L
    <3> HIDE DEF L
    <3>1. 1 \in Int /\ L \in Int
      BY <2>2
    <3>2. /\ IsFiniteSet(1..L)
          /\ Cardinality(1..L) = IF 1 > L THEN 0 ELSE L - 1 + 1
      BY <3>1, FS_Interval
    <3>3. QED
      BY <2>2, <3>2
  <2>5. Cardinality(Members(list)) = L
    BY <2>3, <2>4, FS_Bijection DEF ExistsBijection
  <2>6. QED
    BY <2>1, <2>5 DEF list, here
<1>2. QED
  BY <1>1, PoolCorrect, PTL

\* The units of a chunk, by their places.
LEMMA SpanIs ==
  ASSUME NEW u, NEW n \in Nat, u[2] \in Nat
  PROVE  \A x : x \in Span(u, n)
                  <=> \E i \in Nat : x = <<u[1], i>> /\ u[2] <= i /\ i < u[2] + n
<1>1. ASSUME NEW x \in Span(u, n)
      PROVE  \E i \in Nat : x = <<u[1], i>> /\ u[2] <= i /\ i < u[2] + n
  <2>1. PICK j \in 0..(n - 1) : x = Plus(u, j)
    BY DEF Span
  <2>2. x = <<u[1], u[2] + j>>
    BY <2>1 DEF Plus
  <2>3. u[2] + j \in Nat /\ u[2] <= u[2] + j /\ u[2] + j < u[2] + n
    OBVIOUS
  <2>4. QED
    BY <2>2, <2>3
<1>2. ASSUME NEW x, NEW i \in Nat, x = <<u[1], i>>, u[2] <= i, i < u[2] + n
      PROVE  x \in Span(u, n)
  <2>1. i - u[2] \in 0..(n - 1) /\ u[2] + (i - u[2]) = i
    BY <1>2
  <2>2. Plus(u, i - u[2]) = x
    BY <1>2, <2>1 DEF Plus
  <2>3. QED
    BY <2>1, <2>2 DEF Span
<1>3. QED
  BY <1>1, <1>2

\* The chunks of a block are all of it, and no unit is in two.
LEMMA TilesSpans ==
  ASSUME NEW H, NEW b, NEW size, Tiles(H, b, size), b \in 1..MaxBlock
  PROVE  /\ UNION {Span(u, size[u]) : u \in H} = UnitsOf(b)
         /\ \A u, v \in H : u # v => Span(u, size[u]) \cap Span(v, size[v]) = {}
<1>1. \A u \in H : /\ u[1] = b /\ u[2] \in Nat /\ size[u] \in Nat
                   /\ u[2] + size[u] <= BlockSize(b)
  BY UnitParts DEF Tiles
<1>2. BlockSize(b) \in Nat
  BY UnitFacts
<1>3. \A u \in H : \A x : x \in Span(u, size[u])
        <=> \E i \in Nat : x = <<b, i>> /\ u[2] <= i /\ i < u[2] + size[u]
  <2> SUFFICES ASSUME NEW u \in H, NEW x
               PROVE  x \in Span(u, size[u])
                        <=> \E i \in Nat : x = <<b, i>> /\ u[2] <= i /\ i < u[2] + size[u]
    OBVIOUS
  <2>1. u[1] = b /\ u[2] \in Nat /\ size[u] \in Nat
    BY <1>1
  <2>2. QED
    BY <2>1, SpanIs
<1>4. \A x : x \in UnitsOf(b) <=> \E i \in 0..(BlockSize(b) - 1) : x = <<b, i>>
  BY DEF UnitsOf
<1>5. ASSUME NEW u \in H, NEW x \in Span(u, size[u])
      PROVE  x \in UnitsOf(b)
  <2>1. PICK i \in Nat : x = <<b, i>> /\ u[2] <= i /\ i < u[2] + size[u]
    BY <1>3
  <2>2. i \in 0..(BlockSize(b) - 1)
    BY <1>1, <1>2, <2>1
  <2>3. QED
    BY <1>4, <2>1, <2>2
<1>6. ASSUME NEW x \in UnitsOf(b)
      PROVE  \E u \in H : x \in Span(u, size[u])
  <2>1. PICK i \in 0..(BlockSize(b) - 1) : x = <<b, i>>
    BY <1>4
  <2>2. PICK u \in H : u[2] <= i /\ i < u[2] + size[u]
    BY DEF Tiles
  <2>3. i \in Nat
    BY <1>2
  <2>4. QED
    BY <1>3, <2>1, <2>2, <2>3
<1>7. UNION {Span(u, size[u]) : u \in H} = UnitsOf(b)
  BY <1>5, <1>6
<1>8. ASSUME NEW u \in H, NEW v \in H, u # v, NEW x \in Span(u, size[u]), x \in Span(v, size[v])
      PROVE  FALSE
  <2>1. PICK i \in Nat : x = <<b, i>> /\ u[2] <= i /\ i < u[2] + size[u]
    BY <1>3
  <2>2. PICK j \in Nat : x = <<b, j>> /\ v[2] <= j /\ j < v[2] + size[v]
    BY <1>3, <1>8
  <2>3. i = j
    BY <2>1, <2>2
  <2>4. u[2] # v[2]
    BY <1>8, SamePlace
  <2>5. u[2] \in Nat /\ v[2] \in Nat /\ size[u] \in Nat /\ size[v] \in Nat
    BY <1>1
  <2>6. u[2] < v[2] \/ v[2] < u[2]
    BY <2>4, <2>5
  <2>7. u[2] + size[u] <= v[2] \/ v[2] + size[v] <= u[2]
    BY <2>6 DEF Tiles
  <2>8. QED
    BY <2>1, <2>2, <2>3, <2>5, <2>7
<1>9. QED
  BY <1>7, <1>8

\* Every unit of a block belongs to one chunk, free or used, and there are as
\* many used chunks as were got and not freed.
THEOREM UnitsAccountedCorrect == Spec => []UnitsAccounted
<1>1. PoolInv => UnitsAccounted
  <2> SUFFICES ASSUME PoolInv
               PROVE  UnitsAccounted
    OBVIOUS
  <2>1. taken = Cardinality(live)
    BY DEF PoolInv
  <2>2. ASSUME NEW b \in 1..mem.blocks
        PROVE  LET free  == Members(FreeList(mem, b))
                   used  == {u \in live : u[1] = b}
                   heads == free \cup used
               IN  /\ free \cap used = {}
                   /\ UNION {Span(u, mem.size[u]) : u \in heads} = UnitsOf(b)
                   /\ \A u, v \in heads :
                        u # v => Span(u, mem.size[u]) \cap Span(v, mem.size[v]) = {}
    <3> DEFINE free  == Members(FreeList(mem, b))
               used  == {u \in live : u[1] = b}
               heads == free \cup used
    <3>1. BlockSound(mem, b, live, {}, FreeList(mem, b), UsedList(mem, b))
          /\ b \in 1..MaxBlock
      BY BlockLists
    <3>2. Of(live, b) = used /\ Of({}, b) = {}
      BY DEF Of
    <3>3. free \cap used = {} /\ Tiles(heads, b, mem.size)
      <4>1. /\ Members(UsedList(mem, b)) = used
            /\ free \cap Members(UsedList(mem, b)) = {}
            /\ Tiles(free \cup Members(UsedList(mem, b)) \cup Of({}, b), b, mem.size)
        BY <3>1, <3>2 DEF BlockSound
      <4> HIDE DEF free, used
      <4>2. free \cup used \cup Of({}, b) = free \cup used
        BY <3>2
      <4>3. Tiles(free \cup used, b, mem.size)
        BY <4>1, <4>2
      <4>4. QED
        BY <4>1, <4>3
    <3> HIDE DEF heads
    <3>4. PICK size : size = mem.size
      OBVIOUS
    <3>5. /\ UNION {Span(u, size[u]) : u \in heads} = UnitsOf(b)
          /\ \A u, v \in heads : u # v => Span(u, size[u]) \cap Span(v, size[v]) = {}
      BY <3>1, <3>3, <3>4, TilesSpans
    <3>6. QED
      BY <3>3, <3>4, <3>5, Zenon DEF heads
  <2>3. QED
    BY <2>1, <2>2, Zenon DEF UnitsAccounted
<1>2. QED
  BY <1>1, PoolCorrect, PTL

\* The chunks that callers hold have units, and none in common.
LEMMA SpansApart ==
  ASSUME NEW m, NEW held, IsPool(m, held, {})
  PROVE  /\ \A u \in held : u \in Span(u, m.size[u])
         /\ \A u, v \in held : u # v => Span(u, m.size[u]) \cap Span(v, m.size[v]) = {}
<1>1. ASSUME NEW u \in held
      PROVE  \E H : /\ Tiles(H, u[1], m.size) /\ u[1] \in 1..MaxBlock
                    /\ \A v \in held : v[1] = u[1] => v \in H
  <2> DEFINE b == u[1]
  <2>1. m \in Memory /\ b \in 1..m.blocks /\ b \in 1..MaxBlock
    BY FieldTypes DEF IsPool
  <2>2. PICK F, U : BlockSound(m, b, held, {}, F, U)
    BY <2>1 DEF IsPool
  <2>3. \A v \in held : v[1] = b => v \in Members(U)
    BY <2>2 DEF BlockSound, Of
  <2>4. Tiles(Members(F) \cup Members(U) \cup Of({}, b), b, m.size)
    BY <2>2 DEF BlockSound
  <2> HIDE DEF b
  <2>5. WITNESS Members(F) \cup Members(U) \cup Of({}, b)
  <2>6. QED
    BY <2>1, <2>3, <2>4 DEF b
<1>2. PICK size : size = m.size
  OBVIOUS
<1>3. ASSUME NEW u \in held
      PROVE  u \in Span(u, size[u])
  <2>1. u = <<u[1], u[2]>> /\ u[2] \in Nat /\ size[u] \in Nat /\ size[u] > 0
    BY <1>1, <1>2, UnitParts DEF Tiles
  <2>2. u[2] <= u[2] /\ u[2] < u[2] + size[u]
    BY <2>1
  <2>3. QED
    BY <2>1, <2>2, SpanIs
<1>4. ASSUME NEW u \in held, NEW v \in held, u # v
      PROVE  Span(u, size[u]) \cap Span(v, size[v]) = {}
  <2>1. CASE u[1] = v[1]
    <3>1. PICK H : Tiles(H, u[1], size) /\ u[1] \in 1..MaxBlock /\ u \in H /\ v \in H
      BY <1>1, <1>2, <2>1
    <3>2. QED
      BY <1>4, <3>1, TilesSpans
  <2>2. CASE u[1] # v[1]
    <3>1. /\ \A x \in Span(u, size[u]) : x[1] = u[1]
          /\ \A x \in Span(v, size[v]) : x[1] = v[1]
      BY DEF Span, Plus
    <3>2. QED
      BY <2>2, <3>1
  <2>3. QED
    BY <2>1, <2>2
<1>5. QED
  BY <1>2, <1>3, <1>4

\* A pool is an allocator: the chunk bmemory_get returns has no unit in common
\* with the chunks handed out, and bmemory_free gives back the one it is given
\* and moves no other.
THEOREM PoolImplementsAllocator == Spec => IsAllocator
<1> DEFINE spans == {Span(u, mem.size[u]) : u \in live}
<1>1. Init => Pool!Init
  BY DEF Init, Pool!Init
<1>2. PoolInv /\ PoolInv' /\ [Next]_vars => [Pool!Next]_Pool!vars
  <2> SUFFICES ASSUME PoolInv, PoolInv', [Next]_vars
               PROVE  [Pool!Next]_Pool!vars
    OBVIOUS
  <2>1. ASSUME NEW num \in Request, Get(num)
        PROVE  Pool!Get
    <3>1. PICK u \in Unit : /\ u \notin live /\ live' = live \cup {u} /\ taken' = taken + 1
                            /\ IsPool(mem', live', {})
                            /\ mem'.size[u] = num
                            /\ \A v \in live : mem'.size[v] = mem.size[v]
      BY <2>1, GetStep
    <3>2. \A v \in live : Span(u, num) \cap Span(v, mem.size[v]) = {}
      BY <3>1, SpansApart
    <3>3. Span(u, num) \cap UNION spans = {}
      BY <3>2
    <3>4. spans' = spans \cup {Span(u, num)}
      BY <3>1
    <3>5. Span(u, num) \in Chunks
      BY DEF Chunks
    <3>6. QED
      BY <3>1, <3>3, <3>4, <3>5 DEF Pool!Get
  <2>2. ASSUME NEW u \in Unit, Free(u)
        PROVE  Pool!Free
    <3>1. /\ u \in live /\ live' = live \ {u} /\ taken' = taken - 1
          /\ \A v \in live' : mem'.size[v] = mem.size[v]
      BY <2>2, FreeStep
    <3>2. IsPool(mem, live, {})
      BY DEF PoolInv
    <3>3. \A v \in live : v # u => Span(v, mem.size[v]) # Span(u, mem.size[u])
      BY <3>1, <3>2, SpansApart
    <3>4. spans' = spans \ {Span(u, mem.size[u])}
      BY <3>1, <3>3
    <3>5. QED
      BY <3>1, <3>4 DEF Pool!Free
  <2>3. CASE UNCHANGED vars
    BY <2>3 DEF vars, Pool!vars
  <2>4. QED
    BY <2>1, <2>2, <2>3 DEF Next, Pool!Next
<1>3. QED
  BY <1>1, <1>2, PoolCorrect, PTL DEF Spec, IsAllocator, Pool!Spec
=============================================================================
