-------------------------- MODULE Bhashmap_proofs --------------------------
(***************************************************************************)
(* Proofs about Bhashmap, for every finite set of keys, every table, every *)
(* hash and any number of registrations: the buckets are sound, no unit    *)
(* has two users, and the map is a Map.                                    *)
(*                                                                         *)
(* The links of a bucket are reasoned about as the list they make.  That   *)
(* Follow returns that list is shown by induction, as the absence of a     *)
(* least counterexample.                                                   *)
(*                                                                         *)
(* The second part is about Itoa, which makes the keys of integer-keyed    *)
(* maps: for every number that fits the buffer, which digits it renders,   *)
(* and when it writes past the buffer.                                     *)
(***************************************************************************)
EXTENDS Bhashmap, Itoa, SequenceTheorems, FiniteSetTheorems, WellFoundedInduction, TLAPS

-----------------------------------------------------------------------------
\* A set of naturals that is not empty has a least element.  Induction: the
\* least counterexample there could be is none.
LEMMA LeastNat ==
  ASSUME NEW T \in SUBSET Nat, T # {}
  PROVE  \E x \in T : \A y \in T : x <= y
<1> DEFINE R == OpToRel(<, Nat)
<1>1. IsWellFoundedOn(R, Nat)
  BY NatLessThanWellFounded
<1>2. \A x, y \in Nat : <<y, x>> \in R <=> y < x
  BY DEF OpToRel
<1> HIDE DEF R
<1>3. PICK x \in T : \A y \in T : ~(<<y, x>> \in R)
  BY <1>1, WFMin
<1>4. ASSUME NEW y \in T
      PROVE  x <= y
  <2>1. x \in Nat /\ y \in Nat
    OBVIOUS
  <2>2. ~(y < x)
    BY <1>2, <1>3, <2>1, Zenon
  <2>3. QED
    BY <2>1, <2>2
<1>5. QED
  BY <1>4

\* Min, for the sets the model takes it of.
LEMMA MinOf ==
  ASSUME NEW T \in SUBSET Nat, T # {}
  PROVE  Min(T) \in T /\ \A y \in T : Min(T) <= y
<1>1. \E x \in T : \A y \in T : x <= y
  BY LeastNat
<1>2. QED
  BY <1>1 DEF Min

\* A pool has as many units as there are keys, and none has the address NULL.
LEMMA UnitCount ==
  /\ IsFiniteSet(Key) /\ Cardinality(Key) \in Nat
  /\ IsFiniteSet(Place) /\ Cardinality(Place) = Cardinality(Key)
  /\ NULL \notin Entry /\ IsFiniteSet(Entry) /\ Cardinality(Entry) \in Nat
<1>1. IsFiniteSet(Key) /\ Cardinality(Key) \in Nat
  BY BhashmapAssumption, FS_CardinalityType
<1>2. IsFiniteSet(Place) /\ Cardinality(Place) = Cardinality(Key)
  BY <1>1, FS_Interval DEF Place
<1>3. IsFiniteSet(Pool) /\ 0 \notin Pool
  BY BhashmapAssumption, FS_Interval DEF Pool
<1>4. IsFiniteSet(Entry) /\ Cardinality(Entry) \in Nat
  BY <1>2, <1>3, FS_Product, FS_CardinalityType DEF Entry
<1>5. QED
  BY <1>1, <1>2, <1>3, <1>4 DEF Entry, NULL

-----------------------------------------------------------------------------
(***************************************************************************)
(* Follow, first as the function it is the value of and then as the list   *)
(* it returns.                                                             *)
(***************************************************************************)
Link == Entry \cup {NULL}

\* What the recursion says of from, up to m.
IsWalk(from, links, m) ==
  from = [n \in 0..m |->
           [e \in Entry \cup {NULL} |->
              IF e = NULL \/ n = 0 THEN <<>> ELSE <<e>> \o from[n - 1][links[e]]]]

\* The recursion defines a function.
LEMMA WalkExists ==
  ASSUME NEW links \in [Entry -> Link]
  PROVE  \A m \in Nat : \E from : IsWalk(from, links, m)
<1> DEFINE T == {m \in Nat : ~ \E from : IsWalk(from, links, m)}
<1> SUFFICES ASSUME T # {} PROVE FALSE
  OBVIOUS
<1>1. PICK m \in T : \A y \in T : m <= y
  BY LeastNat
<1>2. CASE m = 0
  <2>1. IsWalk([n \in 0..0 |-> [e \in Entry \cup {NULL} |-> <<>>]], links, 0)
    BY DEF IsWalk
  <2>2. QED
    BY <1>1, <1>2, <2>1
<1>3. CASE m # 0
  <2>1. m \in Nat /\ m - 1 \in Nat /\ m - 1 \notin T
    BY <1>1, <1>3
  <2>2. PICK g : IsWalk(g, links, m - 1)
    BY <2>1
  <2> DEFINE f == [n \in 0..m |->
           [e \in Entry \cup {NULL} |->
              IF e = NULL \/ n = 0 THEN <<>> ELSE <<e>> \o g[n - 1][links[e]]]]
  <2>3. \A n \in 0..(m - 1) : f[n] = g[n]
    <3> SUFFICES ASSUME NEW n \in 0..(m - 1)
                 PROVE  f[n] = g[n]
      OBVIOUS
    <3>1. n \in 0..m
      BY <2>1
    <3>2. f[n] = [e \in Entry \cup {NULL} |->
              IF e = NULL \/ n = 0 THEN <<>> ELSE <<e>> \o g[n - 1][links[e]]]
      BY <3>1, Zenon
    <3>3. g[n] = [e \in Entry \cup {NULL} |->
              IF e = NULL \/ n = 0 THEN <<>> ELSE <<e>> \o g[n - 1][links[e]]]
      BY <2>2, Zenon DEF IsWalk
    <3>4. QED
      BY <3>2, <3>3, Zenon
  <2>4. \A n \in 0..m : n # 0 => n - 1 \in 0..(m - 1)
    BY <2>1
  <2>5. IsWalk(f, links, m)
    BY <2>3, <2>4, Zenon DEF IsWalk
  <2>6. QED
    BY <1>1, <2>5
<1>4. QED
  BY <1>2, <1>3

\* Follow returns what that function has for the most steps there may be.
LEMMA FollowWalks ==
  ASSUME NEW links \in [Entry -> Link]
  PROVE  \E from : /\ IsWalk(from, links, Cardinality(Entry))
                   /\ \A head \in Link : Follow(head, links) = from[Cardinality(Entry)][head]
<1> DEFINE from == CHOOSE from : IsWalk(from, links, Cardinality(Entry))
<1>1. Cardinality(Entry) \in Nat
  BY UnitCount
<1>2. IsWalk(from, links, Cardinality(Entry))
  BY <1>1, WalkExists, Zenon
<1>3. \A head \in Link : Follow(head, links) = from[Cardinality(Entry)][head]
  BY Zenon DEF Follow, IsWalk
<1>4. QED
  BY <1>2, <1>3

\* The list is what head and the links lead to, from its first entry to its
\* last; no entry is met twice.
At(list, i) == IF i \in 1..Len(list) THEN list[i] ELSE NULL

IsChain(list, head, links) ==
  /\ list \in Seq(Entry)
  /\ head = At(list, 1)
  /\ \A i \in 1..Len(list) : links[list[i]] = At(list, i + 1)
  /\ \A i, j \in 1..Len(list) : list[i] = list[j] => i = j

\* A list is no longer than there are entries, as it meets none twice.
LEMMA ChainLength ==
  ASSUME NEW head, NEW links, NEW list, IsChain(list, head, links)
  PROVE  Len(list) \in Nat /\ Len(list) <= Cardinality(Entry)
<1> DEFINE L == Len(list)
<1>1. list \in Seq(Entry) /\ L \in Nat
  BY DEF IsChain
<1>2. list \in [1..L -> Entry]
  BY <1>1
<1>3. list \in Injection(1..L, Entry)
  BY <1>2 DEF IsChain, Injection, IsInjective
<1>4. IsFiniteSet(Entry) /\ Cardinality(1..L) = L
  <2> HIDE DEF L
  <2>1. 1 \in Int /\ L \in Int
    BY <1>1
  <2>2. Cardinality(1..L) = IF 1 > L THEN 0 ELSE L - 1 + 1
    BY <2>1, FS_Interval
  <2>3. QED
    BY <1>1, <2>2, UnitCount
<1>5. Cardinality(1..L) <= Cardinality(Entry)
  BY <1>3, <1>4, FS_Injection
<1>6. QED
  BY <1>1, <1>4, <1>5

\* The part of the list from the j-th entry before its end on.
LEMMA ChainRest ==
  ASSUME NEW head, NEW links, NEW list, IsChain(list, head, links),
         NEW j \in 1..Len(list)
  PROVE  LET m == Len(list) - j + 1
         IN  /\ At(list, m) \in Entry
             /\ links[At(list, m)] = At(list, m + 1)
             /\ SubSeq(list, m, Len(list)) = <<At(list, m)>> \o SubSeq(list, m + 1, Len(list))
<1> DEFINE L == Len(list)
           m == L - j + 1
<1>1. list \in Seq(Entry) /\ L \in Nat
  BY DEF IsChain
<1>2. m \in 1..L /\ L \in m..L
  BY <1>1
<1> HIDE DEF m
<1>3. At(list, m) = list[m] /\ list[m] \in Entry
  BY <1>1, <1>2 DEF At
<1>4. links[list[m]] = At(list, m + 1)
  BY <1>2 DEF IsChain
<1>5. SubSeq(list, m, L) = <<list[m]>> \o SubSeq(list, m + 1, L)
  BY <1>1, <1>2, SubSeqRecursiveFirst
<1>6. QED
  BY <1>3, <1>4, <1>5 DEF m

\* Follow returns the list that the links make.
LEMMA FollowChain ==
  ASSUME NEW links \in [Entry -> Link], NEW head, NEW list,
         IsChain(list, head, links)
  PROVE  Follow(head, links) = list
<1> DEFINE N == Cardinality(Entry)
           L == Len(list)
           at(j)   == At(list, L - j + 1)
           rest(j) == SubSeq(list, L - j + 1, L)
<1>0. L \in Nat /\ N \in Nat /\ L <= N /\ list \in Seq(Entry)
  BY UnitCount, ChainLength DEF IsChain, Entry
<1>1. PICK from : /\ IsWalk(from, links, N)
                  /\ \A h \in Link : Follow(h, links) = from[N][h]
  BY FollowWalks
<1>2. at(0) = NULL /\ rest(0) = <<>>
  <2>1. L - 0 + 1 = L + 1 /\ L + 1 \notin 1..L
    BY <1>0
  <2>2. SubSeq(list, L + 1, L) = <<>>
    BY <1>0, SubSeqEmpty
  <2>3. QED
    BY <2>1, <2>2 DEF At
<1>3. \A j \in 1..L : /\ at(j) \in Entry
                      /\ links[at(j)] = at(j - 1)
                      /\ rest(j) = <<at(j)>> \o rest(j - 1)
  <2> SUFFICES ASSUME NEW j \in 1..L
               PROVE  /\ at(j) \in Entry
                      /\ links[at(j)] = at(j - 1)
                      /\ rest(j) = <<at(j)>> \o rest(j - 1)
    OBVIOUS
  <2>1. L - j + 1 + 1 = L - (j - 1) + 1
    BY <1>0
  <2>2. QED
    BY <2>1, ChainRest
<1>4. at(L) = head /\ head \in Link /\ rest(L) = list
  <2>1. L - L + 1 = 1
    BY <1>0
  <2>2. head = At(list, 1) /\ SubSeq(list, 1, L) = list
    BY <1>0, SubSeqFull DEF IsChain
  <2>3. head \in Link
    BY <1>0, <2>2 DEF At, Link
  <2>4. QED
    BY <2>1, <2>2, <2>3
<1>5. \A n \in 0..N, e \in Link :
        from[n][e] = IF e = NULL \/ n = 0 THEN <<>> ELSE <<e>> \o from[n - 1][links[e]]
  BY <1>1, Zenon DEF IsWalk, Link
<1> HIDE DEF N, L, at, rest
<1> DEFINE Good(j) == \A n \in j..N : from[n][at(j)] = rest(j)
           T == {j \in 0..L : ~Good(j)}
<1>6. T = {}
  <2> SUFFICES ASSUME T # {} PROVE FALSE
    OBVIOUS
  <2> HIDE DEF Good
  <2>1. T \in SUBSET Nat
    BY <1>0
  <2>2. PICK j \in T : \A y \in T : j <= y
    BY <2>1, LeastNat
  <2>3. j \in 0..L /\ ~Good(j)
    OBVIOUS
  <2>4. CASE j = 0
    <3>1. NULL \in Link
      BY DEF Link
    <3>2. \A n \in 0..N : from[n][NULL] = <<>>
      BY <1>5, <3>1
    <3>3. QED
      BY <1>2, <2>3, <2>4, <3>2 DEF Good
  <2>5. CASE j # 0
    <3>1. j \in 1..L /\ j - 1 \in 0..L /\ ~(j <= j - 1)
      BY <1>0, <2>3, <2>5
    <3>2. Good(j - 1)
      BY <2>2, <3>1
    <3>3. ASSUME NEW n \in j..N
          PROVE  from[n][at(j)] = rest(j)
      <4>1. n \in 0..N /\ n # 0 /\ n - 1 \in (j - 1)..N
        BY <1>0, <2>3, <2>5
      <4>2. from[n - 1][at(j - 1)] = rest(j - 1)
        BY <3>2, <4>1 DEF Good
      <4>3. at(j) \in Link /\ at(j) # NULL
        BY <1>3, <3>1, UnitCount DEF Link, Entry
      <4>4. from[n][at(j)] = <<at(j)>> \o from[n - 1][links[at(j)]]
        BY <1>5, <4>1, <4>3
      <4>5. QED
        BY <1>3, <3>1, <4>2, <4>4
    <3>4. QED
      BY <2>3, <3>3 DEF Good
  <2>6. QED
    BY <2>4, <2>5
<1>7. from[N][at(L)] = rest(L)
  <2>1. L \in 0..L /\ N \in L..N
    BY <1>0
  <2>2. QED
    BY <1>6, <2>1
<1>8. QED
  BY <1>1, <1>4, <1>7

-----------------------------------------------------------------------------
\* What happens to the list when the links change elsewhere, when an entry is
\* put before it, and when one is taken out.
LEMMA ChainElsewhere ==
  ASSUME NEW head, NEW links, NEW other, NEW list, IsChain(list, head, links),
         \A i \in 1..Len(list) : other[list[i]] = links[list[i]]
  PROVE  IsChain(list, head, other)
BY DEF IsChain

\* An entry put before a list becomes its first.
LEMMA ChainPushed ==
  ASSUME NEW head, NEW links, NEW other, NEW list, IsChain(list, head, links),
         NEW e \in Entry, \A i \in 1..Len(list) : list[i] # e,
         other[e] = head,
         \A i \in 1..Len(list) : other[list[i]] = links[list[i]]
  PROVE  /\ IsChain(<<e>> \o list, e, other)
         /\ Len(<<e>> \o list) = Len(list) + 1
         /\ (<<e>> \o list)[1] = e
         /\ \A i \in 1..Len(list) : (<<e>> \o list)[i + 1] = list[i]
         /\ Members(<<e>> \o list) = Members(list) \cup {e}
<1> DEFINE t == <<e>> \o list
           L == Len(list)
<1>1. list \in Seq(Entry) /\ L \in Nat
  BY DEF IsChain
<1>2. /\ t \in Seq(Entry) /\ Len(t) = L + 1
      /\ t[1] = e
      /\ \A i \in 1..L : t[i + 1] = list[i]
  BY <1>1
<1> HIDE DEF t
<1>3. \A i \in 1..(L + 1) : i = 1 \/ (i - 1 \in 1..L /\ t[i] = list[i - 1])
  <2> SUFFICES ASSUME NEW i \in 1..(L + 1), i # 1
               PROVE  i - 1 \in 1..L /\ t[i] = list[i - 1]
    OBVIOUS
  <2>1. i - 1 \in 1..L /\ (i - 1) + 1 = i
    BY <1>1
  <2>2. QED
    BY <1>2, <2>1
<1>4. e = At(t, 1)
  BY <1>1, <1>2 DEF At
<1>5. \A i \in 1..Len(t) : other[t[i]] = At(t, i + 1)
  <2>1. At(t, 2) = At(list, 1)
    BY <1>1, <1>2 DEF At
  <2>2. head = At(list, 1)
    BY DEF IsChain
  <2>3. ASSUME NEW i \in 1..L
        PROVE  other[list[i]] = At(t, i + 2)
    <3>1. other[list[i]] = At(list, i + 1)
      BY DEF IsChain
    <3>2. At(list, i + 1) = At(t, i + 2)
      <4>1. CASE i = L
        BY <1>1, <1>2, <4>1 DEF At
      <4>2. CASE i # L
        <5>1. i + 1 \in 1..L /\ i + 2 \in 1..(L + 1) /\ (i + 1) + 1 = i + 2
          BY <1>1, <4>2
        <5>2. t[i + 2] = list[i + 1]
          BY <1>2, <5>1
        <5>3. QED
          BY <1>2, <5>1, <5>2 DEF At
      <4>3. QED
        BY <4>1, <4>2
    <3>3. QED
      BY <3>1, <3>2
  <2>4. ASSUME NEW i \in 1..(L + 1)
        PROVE  other[t[i]] = At(t, i + 1)
    <3>1. CASE i = 1
      BY <1>2, <2>1, <2>2, <3>1
    <3>2. CASE i # 1
      <4>1. i - 1 \in 1..L /\ t[i] = list[i - 1] /\ (i - 1) + 2 = i + 1
        BY <1>1, <1>3, <3>2
      <4>2. QED
        BY <2>3, <4>1
    <3>3. QED
      BY <3>1, <3>2
  <2>5. QED
    BY <1>2, <2>4
<1>6. \A i, j \in 1..Len(t) : t[i] = t[j] => i = j
  <2> SUFFICES ASSUME NEW i \in 1..(L + 1), NEW j \in 1..(L + 1), t[i] = t[j]
               PROVE  i = j
    BY <1>2
  <2>1. CASE i = 1 \/ j = 1
    BY <1>2, <1>3, <2>1
  <2>2. CASE i # 1 /\ j # 1
    <3>1. i - 1 \in 1..L /\ j - 1 \in 1..L /\ list[i - 1] = list[j - 1]
      BY <1>3, <2>2
    <3>2. i - 1 = j - 1
      BY <3>1 DEF IsChain
    <3>3. QED
      BY <1>1, <3>2
  <2>3. QED
    BY <2>1, <2>2
<1>7. Members(t) = Members(list) \cup {e}
  <2>1. DOMAIN t = 1..(L + 1) /\ DOMAIN list = 1..L
    BY <1>1, <1>2
  <2>2. \A i \in 1..L : i + 1 \in 1..(L + 1)
    BY <1>1
  <2>3. 1 \in 1..(L + 1)
    BY <1>1
  <2>4. ASSUME NEW x \in Members(t)
        PROVE  x \in Members(list) \cup {e}
    BY <1>2, <1>3, <2>1 DEF Members
  <2>5. ASSUME NEW x \in Members(list)
        PROVE  x \in Members(t)
    BY <1>2, <2>1, <2>2 DEF Members
  <2>6. e \in Members(t)
    BY <1>2, <2>1, <2>3 DEF Members
  <2>7. QED
    BY <2>4, <2>5, <2>6
<1>8. QED
  BY <1>2, <1>4, <1>5, <1>6, <1>7 DEF IsChain, t

Without(list, p) ==
  [i \in 1..(Len(list) - 1) |-> IF i < p THEN list[i] ELSE list[i + 1]]

\* The links from links to other, and the head from head to start, pass over
\* the p-th entry of the list.
PassedOver(list, p, head, links, start, other) ==
  /\ IsChain(list, head, links)
  /\ start = IF p = 1 THEN links[head] ELSE head
  /\ p > 1 => other[list[p - 1]] = links[list[p]]
  /\ \A i \in 1..Len(list) : i # p /\ i # p - 1 => other[list[i]] = links[list[i]]

\* An entry passed over by its neighbours is no longer in the list, and the
\* others are in the order they were in.
LEMMA ChainDropped ==
  ASSUME NEW list, NEW p \in 1..Len(list),
         NEW head, NEW links, NEW start, NEW other,
         PassedOver(list, p, head, links, start, other)
  PROVE  /\ IsChain(Without(list, p), start, other)
         /\ Members(Without(list, p)) = Members(list) \ {list[p]}
         /\ Len(Without(list, p)) = Len(list) - 1
         /\ \A i \in 1..(Len(list) - 1) :
              Without(list, p)[i] = list[IF i < p THEN i ELSE i + 1]
<1> DEFINE L == Len(list)
           t == Without(list, p)
           S(i) == IF i < p THEN i ELSE i + 1
<1>0. /\ IsChain(list, head, links)
      /\ start = IF p = 1 THEN links[head] ELSE head
      /\ p > 1 => other[list[p - 1]] = links[list[p]]
      /\ \A i \in 1..Len(list) : i # p /\ i # p - 1 => other[list[i]] = links[list[i]]
  BY DEF PassedOver
<1>1. list \in Seq(Entry) /\ L \in Nat /\ L >= 1 /\ p \in Nat /\ L - 1 \in Nat
  BY <1>0 DEF IsChain
<1>2. \A i \in 1..(L - 1) : S(i) \in 1..L /\ S(i) # p
  BY <1>1
<1>3. /\ t \in Seq(Entry) /\ Len(t) = L - 1 /\ DOMAIN t = 1..(L - 1)
      /\ \A i \in 1..(L - 1) : t[i] = list[S(i)]
  <2>1. \A i \in 1..(L - 1) : i + 1 \in 1..L /\ i \in 1..L
    BY <1>1
  <2>2. t \in [1..(L - 1) -> Entry]
    BY <1>1, <2>1 DEF Without
  <2>3. \A i \in 1..(L - 1) : t[i] = list[S(i)]
    BY DEF Without
  <2> HIDE DEF t
  <2>4. t \in Seq(Entry) /\ Len(t) = L - 1 /\ DOMAIN t = 1..(L - 1)
    BY <1>1, <2>2
  <2>5. QED
    BY <2>3, <2>4
<1> HIDE DEF t
<1>4. \A i \in Nat : i >= 1 => At(t, i) = At(list, S(i))
  <2> SUFFICES ASSUME NEW i \in Nat, i >= 1
               PROVE  At(t, i) = At(list, S(i))
    OBVIOUS
  <2>1. CASE i \in 1..(L - 1)
    BY <1>2, <1>3, <2>1 DEF At
  <2>2. CASE i \notin 1..(L - 1)
    <3>1. S(i) \notin 1..L
      BY <1>1, <2>2
    <3>2. QED
      BY <1>3, <2>2, <3>1 DEF At
  <2>3. QED
    BY <2>1, <2>2
<1>5. \A i \in 1..L : links[list[i]] = At(list, i + 1)
  BY <1>0 DEF IsChain
<1>6. At(t, 1) = start
  <2>1. head = At(list, 1) /\ At(list, 1) = list[1] /\ 1 \in 1..L
    <3>1. head = At(list, 1)
      BY <1>0, Zenon DEF IsChain
    <3>2. 1 \in 1..L
      BY <1>1
    <3>3. QED
      BY <3>1, <3>2, Zenon DEF At
  <2>2. CASE p = 1
    <3>1. S(1) = 2 /\ 1 + 1 = 2
      BY <2>2
    <3>2. At(t, 1) = At(list, 2)
      BY <1>4, <3>1
    <3>3. links[head] = At(list, 2)
      BY <1>5, <2>1, <3>1
    <3>4. QED
      BY <1>0, <2>2, <3>2, <3>3, Zenon
  <2>3. CASE p # 1
    <3>1. S(1) = 1
      BY <1>1, <2>3
    <3>2. At(t, 1) = At(list, 1)
      BY <1>4, <3>1
    <3>3. QED
      BY <1>0, <2>1, <2>3, <3>2, Zenon
  <2>4. QED
    BY <2>2, <2>3
<1>7. ASSUME NEW i \in 1..(L - 1)
      PROVE  other[t[i]] = At(t, i + 1)
  <2>1. /\ t[i] = list[S(i)] /\ S(i) \in 1..L /\ S(i) # p
        /\ At(t, i + 1) = At(list, S(i + 1))
    <3>1. i + 1 \in Nat /\ i + 1 >= 1
      BY <1>1
    <3>2. At(t, i + 1) = At(list, S(i + 1))
      BY <1>4, <3>1
    <3>3. QED
      BY <1>2, <1>3, <3>2
  <2>2. CASE i = p - 1
    <3>1. p > 1 /\ S(i) = p - 1 /\ S(i + 1) = p + 1
      BY <1>1, <2>2
    <3>2. other[list[p - 1]] = At(list, p + 1)
      BY <1>0, <1>5, <3>1
    <3>3. QED
      BY <2>1, <3>1, <3>2
  <2>3. CASE i # p - 1
    <3>1. S(i) # p - 1 /\ S(i + 1) = S(i) + 1
      BY <1>1, <2>3
    <3>2. other[list[S(i)]] = At(list, S(i) + 1)
      BY <1>0, <1>5, <2>1, <3>1
    <3>3. QED
      BY <2>1, <3>1, <3>2
  <2>4. QED
    BY <2>2, <2>3
<1>8. \A i, j \in 1..(L - 1) : t[i] = t[j] => i = j
  <2> SUFFICES ASSUME NEW i \in 1..(L - 1), NEW j \in 1..(L - 1), t[i] = t[j]
               PROVE  i = j
    OBVIOUS
  <2>1. list[S(i)] = list[S(j)] /\ S(i) \in 1..L /\ S(j) \in 1..L
    BY <1>2, <1>3
  <2>2. \A x, y \in 1..L : list[x] = list[y] => x = y
    BY <1>0 DEF IsChain
  <2>3. S(i) = S(j)
    <3> HIDE DEF S
    <3>1. QED
      BY <2>1, <2>2
  <2>4. QED
    BY <1>1, <2>3
<1>9. Members(t) = Members(list) \ {list[p]}
  <2>1. DOMAIN list = 1..L
    BY <1>1
  <2>2. ASSUME NEW x \in Members(t)
        PROVE  x \in Members(list) \ {list[p]}
    <3>1. PICK i \in 1..(L - 1) : x = list[S(i)]
      BY <1>3 DEF Members
    <3>2. QED
      BY <1>0, <1>2, <2>1, <3>1 DEF Members, IsChain
  <2>3. ASSUME NEW x \in Members(list), x # list[p]
        PROVE  x \in Members(t)
    <3>1. PICK j \in 1..L : x = list[j]
      BY <2>1 DEF Members
    <3>2. PICK i \in 1..(L - 1) : S(i) = j
      <4>1. CASE j < p
        <5>1. j \in 1..(L - 1) /\ S(j) = j
          BY <1>1, <4>1
        <5>2. QED
          BY <5>1
      <4>2. CASE ~(j < p)
        <5>1. j - 1 \in 1..(L - 1) /\ S(j - 1) = j
          BY <1>1, <2>3, <3>1, <4>2
        <5>2. QED
          BY <5>1
      <4>3. QED
        BY <4>1, <4>2
    <3>3. QED
      BY <1>3, <3>1, <3>2 DEF Members
  <2>4. QED
    BY <2>2, <2>3
<1>10. QED
  BY <1>3, <1>6, <1>7, <1>8, <1>9 DEF IsChain, t

-----------------------------------------------------------------------------
Types ==
  /\ registered \in BOOLEAN /\ size \in Nat
  /\ table \in [Bucket -> Link]
  /\ key \in [Entry -> Key \cup {NoKey}]
  /\ value \in [Entry -> Cell \cup {NULL}]
  /\ pre \in [Entry -> Link] /\ next \in [Entry -> Link]
  /\ entries \in SUBSET Entry /\ cells \in SUBSET Cell
  /\ content \in [Cell -> Value \cup {NoValue}]
  /\ pool \in Pool /\ ended \in BOOLEAN
  /\ lostEntries \in SUBSET Entry /\ lostCells \in SUBSET Cell

\* The entries in use have keys and cells of their own.
EntriesSound ==
  /\ ~registered => entries = {}
  /\ \A e \in entries : key[e] \in Key /\ value[e] \in Cell
  /\ \A e, f \in entries : key[e] = key[f] \/ value[e] = value[f] => e = f
  /\ cells = {value[e] : e \in entries}
  /\ registered => size = Cardinality(entries)

\* They are linked into the bucket of their key, and nothing else is.
ChainsSound ==
  registered =>
    \A b \in Bucket :
      /\ IsChain(Chain(b), table[b], next)
      /\ Members(Chain(b)) = {e \in entries : Index[key[e]] = b}
      /\ \A i \in 2..Len(Chain(b)) : pre[Chain(b)[i]] = Chain(b)[i - 1]

\* Units are of the pools there have been, and what is lost is of a replaced
\* one.
PoolsSound ==
  /\ \A u \in entries \cup cells : u[1] <= pool
  /\ \A u \in lostEntries \cup lostCells : u[1] < pool
  /\ entries \cap lostEntries = {} /\ cells \cap lostCells = {}

HashInv == Types /\ EntriesSound /\ ChainsSound /\ PoolsSound

\* What _find_entry returns.
FoundRight ==
  registered =>
    \A k \in Key :
      /\ \A e \in entries : key[e] = k => FindEntry(k) = e
      /\ FindEntry(k) # NULL => FindEntry(k) \in entries /\ key[FindEntry(k)] = k

\* _find_entry finds the entry of a key if there is one.
LEMMA FindRight == HashInv => FoundRight
<1> SUFFICES ASSUME HashInv, registered, NEW k \in Key
             PROVE  /\ \A e \in entries : key[e] = k => FindEntry(k) = e
                    /\ FindEntry(k) # NULL => FindEntry(k) \in entries /\ key[FindEntry(k)] = k
  BY DEF FoundRight
<1> DEFINE b     == Index[k]
           list  == Chain(b)
           found == {i \in DOMAIN list : key[list[i]] = k}
<1>1. b \in Bucket
  BY BhashmapAssumption
<1>2. /\ IsChain(list, table[b], next)
      /\ Members(list) = {e \in entries : Index[key[e]] = b}
  BY <1>1 DEF HashInv, ChainsSound
<1>3. FindEntry(k) = IF found = {} THEN NULL ELSE list[Min(found)]
  BY DEF FindEntry
<1> HIDE DEF list
<1>4. DOMAIN list = 1..Len(list) /\ Len(list) \in Nat
  BY <1>2 DEF IsChain
<1>5. found # {} => Min(found) \in found
  <2>1. found \in SUBSET Nat
    BY <1>4
  <2>2. QED
    BY <2>1, MinOf
<1>6. ASSUME NEW e \in entries, key[e] = k
      PROVE  FindEntry(k) = e
  <2>1. e \in Members(list)
    BY <1>2, <1>6
  <2>2. PICK i \in DOMAIN list : list[i] = e
    BY <2>1 DEF Members
  <2>3. i \in found
    BY <1>6, <2>2
  <2>4. list[Min(found)] \in Members(list) /\ key[list[Min(found)]] = k
    BY <1>5, <2>3 DEF Members
  <2>5. list[Min(found)] = e
    BY <1>2, <1>6, <2>4 DEF HashInv, EntriesSound
  <2>6. QED
    BY <1>3, <2>3, <2>5
<1>7. ASSUME FindEntry(k) # NULL
      PROVE  FindEntry(k) \in entries /\ key[FindEntry(k)] = k
  <2>1. found # {} /\ FindEntry(k) = list[Min(found)]
    BY <1>3, <1>7
  <2>2. list[Min(found)] \in Members(list) /\ key[list[Min(found)]] = k
    BY <1>5, <2>1 DEF Members
  <2>3. QED
    BY <1>2, <2>1, <2>2
<1>8. QED
  BY <1>6, <1>7

\* There are as many cells in use as entries, at most one for each key, and
\* fewer while a key has no entry.
LEMMA Room ==
  ASSUME HashInv
  PROVE  /\ IsFiniteSet(entries) /\ Cardinality(entries) \in Nat
         /\ IsFiniteSet(cells) /\ Cardinality(cells) = Cardinality(entries)
         /\ Cardinality(entries) <= Cardinality(Key)
         /\ \A k \in Key : (\A e \in entries : key[e] # k) =>
                             Cardinality(entries) < Cardinality(Key)
<1>1. entries \in SUBSET Entry
  BY DEF HashInv, Types
<1>2. IsFiniteSet(entries) /\ Cardinality(entries) \in Nat
  BY <1>1, UnitCount, FS_Subset, FS_CardinalityType
<1>3. IsFiniteSet(cells) /\ Cardinality(cells) = Cardinality(entries)
  <2> DEFINE f == [e \in entries |-> value[e]]
  <2>1. f \in [entries -> cells]
    BY DEF HashInv, EntriesSound
  <2>2. \A e, g \in entries : f[e] = f[g] => e = g
    BY DEF HashInv, EntriesSound
  <2>3. \A c \in cells : \E e \in entries : f[e] = c
    BY DEF HashInv, EntriesSound
  <2> HIDE DEF f
  <2>4. f \in Bijection(entries, cells)
    BY <2>1, <2>2, <2>3 DEF Bijection, Injection, Surjection, IsInjective
  <2>5. ExistsBijection(entries, cells)
    BY <2>4 DEF ExistsBijection
  <2>6. QED
    BY <1>2, <2>5, FS_Bijection
<1> DEFINE f == [e \in entries |-> key[e]]
<1>4. ASSUME NEW K \in SUBSET Key, \A e \in entries : key[e] \in K
      PROVE  Cardinality(entries) <= Cardinality(K)
  <2>1. f \in [entries -> K]
    BY <1>4
  <2>2. \A e, g \in entries : f[e] = f[g] => e = g
    BY DEF HashInv, EntriesSound
  <2> HIDE DEF f
  <2>3. f \in Injection(entries, K)
    BY <2>1, <2>2 DEF Injection, IsInjective
  <2>4. IsFiniteSet(K)
    BY UnitCount, FS_Subset
  <2>5. QED
    BY <2>3, <2>4, FS_Injection
<1>5. Cardinality(entries) <= Cardinality(Key)
  BY <1>4 DEF HashInv, EntriesSound
<1>6. ASSUME NEW k \in Key, \A e \in entries : key[e] # k
      PROVE  Cardinality(entries) < Cardinality(Key)
  <2>1. Cardinality(Key \ {k}) = Cardinality(Key) - 1
    BY UnitCount, FS_RemoveElement
  <2>2. Cardinality(entries) <= Cardinality(Key \ {k})
    BY <1>4, <1>6 DEF HashInv, EntriesSound
  <2>3. QED
    BY <1>2, <2>1, <2>2, UnitCount
<1>7. QED
  BY <1>2, <1>3, <1>5, <1>6

\* While fewer units are in use than there are keys, the pool has one that is
\* neither in use nor lost.
LEMMA FreeUnit ==
  ASSUME NEW used, IsFiniteSet(used), Cardinality(used) < Cardinality(Key),
         NEW lost, pool \in Pool, \A u \in lost : u[1] < pool
  PROVE  /\ LowestFree(used \cup lost) \in Pool \X Place
         /\ LowestFree(used \cup lost) \notin used \cup lost
         /\ LowestFree(used \cup lost)[1] = pool
<1> DEFINE free == {n \in Place : <<pool, n>> \notin used \cup lost}
<1>1. pool \in Nat /\ \A n \in Place : <<pool, n>> \notin lost
  <2>1. pool \in Nat
    BY BhashmapAssumption DEF Pool
  <2>2. ASSUME NEW n \in Place, <<pool, n>> \in lost
        PROVE  FALSE
    <3>1. <<pool, n>>[1] < pool
      BY <2>2
    <3>2. QED
      BY <2>1, <3>1
  <2>3. QED
    BY <2>1, <2>2
<1>2. free # {}
  <2> SUFFICES ASSUME \A n \in Place : <<pool, n>> \in used
               PROVE  FALSE
    BY <1>1
  <2> DEFINE g == [n \in Place |-> <<pool, n>>]
  <2>1. g \in Injection(Place, used)
    BY DEF Injection, IsInjective
  <2>2. Cardinality(Place) <= Cardinality(used)
    BY <2>1, FS_Injection
  <2>3. Cardinality(used) \in Nat
    BY FS_CardinalityType
  <2>4. QED
    BY <2>2, <2>3, UnitCount
<1>3. free \in SUBSET Nat
  BY UnitCount DEF Place
<1>4. Min(free) \in free
  BY <1>2, <1>3, MinOf
<1>5. LowestFree(used \cup lost) = <<pool, Min(free)>>
  BY DEF LowestFree
<1>6. Min(free) \in Place /\ <<pool, Min(free)>> \notin used \cup lost
  BY <1>4
<1> HIDE DEF free
<1>7. PICK n \in Place : n = Min(free)
  BY <1>6
<1>8. QED
  BY <1>5, <1>6, <1>7

-----------------------------------------------------------------------------
\* A list known to be that of a bucket is what Chain returns.
LEMMA ChainAfter ==
  ASSUME next' \in [Entry -> Link], NEW b, NEW list, IsChain(list, table'[b], next')
  PROVE  Chain(b)' = list
BY FollowChain DEF Chain

\* bhashmap_set of a key that has no entry.
LEMMA SetNewStep ==
  ASSUME HashInv, NEW k \in Key, NEW v \in Value, SetNew(k, v)
  PROVE  /\ HashInv'
         /\ \E e \in Entry : /\ e \notin entries /\ entries' = entries \cup {e}
                             /\ key' = [key EXCEPT ![e] = k]
                             /\ content'[value'[e]] = v
                             /\ \A f \in entries : content'[value'[f]] = content[value[f]]
<1> DEFINE e == LowestFree(entries \cup lostEntries)
           c == LowestFree(cells \cup lostCells)
           b == Index[k]
<1>1. /\ registered /\ registered' = registered
      /\ FindEntry(k) = NULL
      /\ entries' = entries \cup {e}
      /\ key' = [key EXCEPT ![e] = k]
      /\ table' = [table EXCEPT ![b] = e]
      /\ next' = [next EXCEPT ![e] = table[b]]
      /\ pre' = [u \in Entry |-> IF u = table[b] THEN e ELSE IF u = e THEN NULL ELSE pre[u]]
      /\ cells' = cells \cup {c}
      /\ value' = [value EXCEPT ![e] = c]
      /\ content' = [content EXCEPT ![c] = v]
      /\ size' = size + 1
      /\ UNCHANGED <<pool, lostEntries, lostCells, ended>>
  BY DEF SetNew, LinkFirst, Store, poolVars
<1>2. \A f \in entries : key[f] # k
  <2>1. \A f \in entries : f # NULL
    BY UnitCount DEF HashInv, Types
  <2>2. QED
    BY <1>1, <2>1, FindRight DEF FoundRight
<1>3. /\ entries \in SUBSET Entry /\ cells \in SUBSET Cell
      /\ e \in Entry /\ e \notin entries /\ e \notin lostEntries /\ e[1] = pool
      /\ c \in Cell /\ c \notin cells /\ c \notin lostCells /\ c[1] = pool
      /\ b \in Bucket
  <2>1. entries \in SUBSET Entry /\ cells \in SUBSET Cell /\ pool \in Pool
    BY DEF HashInv, Types
  <2>2. /\ IsFiniteSet(entries) /\ Cardinality(entries) < Cardinality(Key)
        /\ IsFiniteSet(cells) /\ Cardinality(cells) < Cardinality(Key)
    BY <1>2, Room
  <2>3. /\ \A u \in lostEntries : u[1] < pool
        /\ \A u \in lostCells : u[1] < pool
    BY DEF HashInv, PoolsSound
  <2>4. e \in Entry /\ e \notin entries \cup lostEntries /\ e[1] = pool
    BY <2>1, <2>2, <2>3, FreeUnit DEF Entry
  <2>5. c \in Cell /\ c \notin cells \cup lostCells /\ c[1] = pool
    BY <2>1, <2>2, <2>3, FreeUnit DEF Cell
  <2>6. QED
    BY <2>1, <2>4, <2>5, BhashmapAssumption
<1> HIDE DEF e, c
<1>4. Types'
  BY <1>1, <1>3 DEF HashInv, Types, Link
<1>5. /\ key'[e] = k /\ value'[e] = c /\ content'[c] = v
      /\ \A f \in entries : f # e /\ key'[f] = key[f] /\ value'[f] = value[f] /\ value[f] # c
  <2>1. \A f \in entries : f # e /\ f \in Entry
    BY <1>3
  <2>2. \A f \in entries : value[f] \in cells
    BY DEF HashInv, EntriesSound
  <2>3. QED
    BY <1>1, <1>3, <2>1, <2>2 DEF HashInv, Types
<1>6. EntriesSound'
  <2>1. ~registered' => entries' = {}
    BY <1>1
  <2>2. \A f \in entries' : key'[f] \in Key /\ value'[f] \in Cell
    BY <1>1, <1>3, <1>5 DEF HashInv, EntriesSound
  <2>3. \A f, g \in entries' : key'[f] = key'[g] \/ value'[f] = value'[g] => f = g
    BY <1>1, <1>2, <1>5 DEF HashInv, EntriesSound
  <2>4. cells' = {value'[f] : f \in entries'}
    <3>1. cells = {value[f] : f \in entries}
      BY Zenon DEF HashInv, EntriesSound
    <3>2. cells' = cells \cup {c} /\ entries' = entries \cup {e}
      BY <1>1
    <3>3. QED
      BY <1>5, <3>1, <3>2
  <2>5. size' = Cardinality(entries')
    <3>1. IsFiniteSet(entries)
      BY Room
    <3>2. size = Cardinality(entries)
      BY <1>1, Zenon DEF HashInv, EntriesSound
    <3>3. Cardinality(entries \cup {e}) = Cardinality(entries) + 1
      BY <1>3, <3>1, FS_AddElement
    <3>4. QED
      BY <1>1, <3>2, <3>3
  <2>6. QED
    BY <2>1, <2>2, <2>3, <2>4, <2>5 DEF EntriesSound
<1>7. ASSUME NEW d \in Bucket
      PROVE  /\ IsChain(Chain(d)', table'[d], next')
             /\ Members(Chain(d)') = {f \in entries' : Index[key'[f]] = d}
             /\ \A i \in 2..Len(Chain(d)') : pre'[Chain(d)'[i]] = Chain(d)'[i - 1]
  <2> DEFINE list == Chain(d)
  <2>1. /\ IsChain(list, table[d], next)
        /\ Members(list) = {f \in entries : Index[key[f]] = d}
        /\ \A i \in 2..Len(list) : pre[list[i]] = list[i - 1]
    BY <1>1 DEF HashInv, ChainsSound
  <2> HIDE DEF list
  <2>2. list \in Seq(Entry) /\ Len(list) \in Nat /\ table[d] = At(list, 1)
    BY <2>1 DEF IsChain
  <2>3. \A i \in 1..Len(list) : list[i] \in entries /\ list[i] \in Entry /\ list[i] # e
    BY <1>3, <2>1, <2>2 DEF Members
  <2>4. \A i \in 1..Len(list) : next'[list[i]] = next[list[i]]
    BY <1>1, <1>3, <2>3 DEF HashInv, Types
  <2>5. CASE d = b
    <3> DEFINE t == <<e>> \o list
    <3>1. next'[e] = table[d] /\ table'[d] = e
      BY <1>1, <1>3, <2>5 DEF HashInv, Types
    <3>2. /\ IsChain(t, e, next')
          /\ Len(t) = Len(list) + 1 /\ t[1] = e
          /\ \A i \in 1..Len(list) : t[i + 1] = list[i]
          /\ Members(t) = Members(list) \cup {e}
      BY <1>3, <2>1, <2>3, <2>4, <3>1, ChainPushed
    <3> HIDE DEF t
    <3>3. Chain(d)' = t
      BY <1>4, <3>1, <3>2, ChainAfter DEF Types
    <3>4. Members(t) = {f \in entries' : Index[key'[f]] = d}
      BY <1>1, <1>5, <2>1, <2>5, <3>2
    <3>5. ASSUME NEW i \in 2..Len(t)
          PROVE  pre'[t[i]] = t[i - 1]
      <4>1. i - 1 \in 1..Len(list) /\ t[i] = list[i - 1]
        <5>1. i - 1 \in 1..Len(list) /\ (i - 1) + 1 = i
          BY <2>2, <3>2
        <5>2. QED
          BY <3>2, <5>1
      <4>2. CASE i = 2
        <5>1. t[i] = table[b]
          BY <2>2, <2>5, <4>1, <4>2 DEF At
        <5>2. QED
          BY <1>1, <2>3, <3>2, <4>1, <4>2, <5>1
      <4>3. CASE i # 2
        <5>1. /\ i - 1 \in 2..Len(list) /\ i - 2 \in 1..Len(list)
              /\ 1 \in 1..Len(list)
              /\ (i - 1) - 1 = i - 2 /\ (i - 2) + 1 = i - 1
          BY <2>2, <4>1, <4>3
        <5>2. pre[list[i - 1]] = list[i - 2] /\ t[i - 1] = list[i - 2]
          BY <2>1, <3>2, <5>1
        <5>3. list[i - 1] # table[b]
          <6>1. table[b] = list[1] /\ i - 1 # 1
            BY <2>2, <2>5, <5>1 DEF At
          <6>2. QED
            BY <2>1, <4>1, <5>1, <6>1 DEF IsChain
        <5>4. QED
          BY <1>1, <2>3, <4>1, <5>2, <5>3
      <4>4. QED
        BY <4>2, <4>3
    <3>6. QED
      BY <3>1, <3>2, <3>3, <3>4, <3>5
  <2>6. CASE d # b
    <3>1. table'[d] = table[d]
      BY <1>1, <2>6 DEF HashInv, Types
    <3>2. IsChain(list, table'[d], next')
      BY <2>1, <2>4, <3>1, ChainElsewhere
    <3>3. Chain(d)' = list
      BY <1>4, <3>2, ChainAfter DEF Types
    <3>4. Members(list) = {f \in entries' : Index[key'[f]] = d}
      BY <1>1, <1>5, <2>1, <2>6
    <3>5. ASSUME NEW i \in 2..Len(list)
          PROVE  pre'[list[i]] = list[i - 1]
      <4>1. i \in 1..Len(list)
        BY <2>2
      <4>2. list[i] # table[b]
        <5>1. Index[key[list[i]]] = d
          BY <2>1, <2>2, <4>1 DEF Members
        <5>2. table[b] = At(Chain(b), 1) /\ Chain(b) \in Seq(Entry)
          BY <1>1, <1>3 DEF HashInv, ChainsSound, IsChain
        <5>3. table[b] # NULL => table[b] \in Members(Chain(b))
          BY <5>2 DEF At, Members
        <5>4. table[b] # NULL => Index[key[table[b]]] = b
          BY <1>1, <1>3, <5>3 DEF HashInv, ChainsSound
        <5>5. list[i] # NULL
          BY <2>3, <4>1, UnitCount
        <5>6. QED
          BY <2>6, <5>1, <5>4, <5>5
      <4>3. QED
        BY <1>1, <2>1, <2>3, <4>1, <4>2
    <3>6. QED
      BY <3>2, <3>3, <3>4, <3>5
  <2>7. QED
    BY <2>5, <2>6
<1>8. ChainsSound'
  BY <1>7 DEF ChainsSound
<1>9. \A f \in entries : content'[value'[f]] = content[value[f]]
  BY <1>1, <1>3, <1>5 DEF HashInv, Types, EntriesSound
<1>10. PoolsSound'
  <2>1. pool \in Nat
    BY BhashmapAssumption DEF HashInv, Types, Pool
  <2>2. QED
    BY <1>1, <1>3, <2>1 DEF HashInv, PoolsSound
<1>11. QED
  BY <1>1, <1>3, <1>4, <1>5, <1>6, <1>8, <1>9, <1>10 DEF HashInv

\* bhashmap_set of a key that has one.
LEMMA SetAgainStep ==
  ASSUME HashInv, NEW k \in Key, NEW v \in Value, SetAgain(k, v)
  PROVE  /\ HashInv'
         /\ \E e \in entries : /\ key[e] = k
                               /\ UNCHANGED <<registered, entries, key>>
                               /\ content'[value'[e]] = v
                               /\ \A f \in entries \ {e} : content'[value'[f]] = content[value[f]]
<1> DEFINE e == FindEntry(k)
           c == LowestFree((cells \ {value[e]}) \cup lostCells)
<1>1. /\ registered
      /\ e # NULL
      /\ cells' = (cells \ {value[e]}) \cup {c}
      /\ value' = [value EXCEPT ![e] = c]
      /\ content' = [content EXCEPT ![c] = v]
      /\ lostCells' = lostCells \cup Misplaced({value[e]})
      /\ UNCHANGED <<registered, size, table, key, pre, next, entries,
                     pool, lostEntries, ended>>
  BY DEF SetAgain, Store
<1>2. e \in entries /\ key[e] = k
  BY <1>1, FindRight DEF FoundRight
<1>3. value[e] \in cells /\ value[e] \in Cell
  BY <1>2 DEF HashInv, EntriesSound
<1>4. /\ c \in Cell /\ c \notin cells \ {value[e]}
      /\ c \notin lostCells /\ c[1] = pool
  <2>1. /\ IsFiniteSet(cells \ {value[e]})
        /\ Cardinality(cells \ {value[e]}) < Cardinality(Key)
    <3>1. /\ IsFiniteSet(cells) /\ Cardinality(cells) \in Nat
          /\ Cardinality(cells) <= Cardinality(Key)
      BY Room
    <3>2. /\ IsFiniteSet(cells \ {value[e]})
          /\ Cardinality(cells \ {value[e]}) = Cardinality(cells) - 1
      BY <1>3, <3>1, FS_RemoveElement
    <3>3. QED
      BY <3>1, <3>2, UnitCount
  <2>2. pool \in Pool /\ \A u \in lostCells : u[1] < pool
    BY DEF HashInv, Types, PoolsSound
  <2>3. QED
    BY <2>1, <2>2, FreeUnit DEF Cell
<1> HIDE DEF e, c
<1>5. /\ value'[e] = c /\ content'[c] = v
      /\ \A f \in entries \ {e} : value'[f] = value[f] /\ value[f] # c
                                  /\ value[f] \in Cell /\ value[f] \in cells \ {value[e]}
  <2>1. e \in Entry /\ \A f \in entries : f \in Entry
    BY <1>2 DEF HashInv, Types
  <2>2. \A f \in entries \ {e} : value[f] \in Cell /\ value[f] \in cells /\ value[f] # value[e]
    BY <1>2 DEF HashInv, EntriesSound
  <2>3. QED
    BY <1>1, <1>4, <2>1, <2>2 DEF HashInv, Types
<1>6. Types'
  <2>1. lostCells' \in SUBSET Cell
    BY <1>1, <1>3 DEF HashInv, Types, Misplaced
  <2>2. QED
    BY <1>1, <1>4, <2>1 DEF HashInv, Types
<1>7. EntriesSound'
  <2>1. \A f \in entries : key[f] \in Key /\ value'[f] \in Cell
    BY <1>4, <1>5 DEF HashInv, EntriesSound
  <2>2. \A f, g \in entries : key[f] = key[g] \/ value'[f] = value'[g] => f = g
    BY <1>5 DEF HashInv, EntriesSound
  <2>3. cells' = {value'[f] : f \in entries}
    <3>1. cells = {value[f] : f \in entries}
      BY Zenon DEF HashInv, EntriesSound
    <3>2. \A x \in cells' : x \in {value'[f] : f \in entries}
      BY <1>1, <1>2, <1>5, <3>1
    <3>3. \A f \in entries : value'[f] \in cells'
      BY <1>1, <1>5
    <3>4. QED
      BY <3>2, <3>3
  <2>4. QED
    BY <1>1, <2>1, <2>2, <2>3 DEF HashInv, EntriesSound
<1>8. ChainsSound'
  <2>1. \A d : Chain(d)' = Chain(d)
    BY <1>1 DEF Chain
  <2>2. QED
    BY <1>1, <2>1 DEF HashInv, ChainsSound
<1>9. \A f \in entries \ {e} : content'[value'[f]] = content[value[f]]
  BY <1>1, <1>4, <1>5 DEF HashInv, Types
<1>10. PoolsSound'
  <2>1. pool \in Nat /\ value[e][1] \in Nat /\ value[e][1] <= pool
    BY <1>3, BhashmapAssumption DEF HashInv, Types, PoolsSound, Pool, Cell
  <2>2. \A u \in Misplaced({value[e]}) : u = value[e] /\ u[1] < pool
    BY <2>1 DEF Misplaced
  <2>3. \A u \in lostEntries' \cup lostCells' : u[1] < pool'
    BY <1>1, <2>2 DEF HashInv, PoolsSound
  <2>4. \A u \in entries' \cup cells' : u[1] <= pool'
    BY <1>1, <1>4, <2>1 DEF HashInv, PoolsSound
  <2>5. c \notin Misplaced({value[e]})
    BY <1>4 DEF Misplaced
  <2>6. cells' \cap lostCells' = {}
    BY <1>1, <1>4, <2>2, <2>5 DEF HashInv, PoolsSound
  <2>7. QED
    BY <1>1, <2>3, <2>4, <2>6 DEF HashInv, PoolsSound
<1>11. QED
  BY <1>1, <1>2, <1>5, <1>6, <1>7, <1>8, <1>9, <1>10 DEF HashInv

\* bhashmap_unset.
LEMMA UnsetStep ==
  ASSUME HashInv, NEW k \in Key, Unset(k)
  PROVE  /\ HashInv'
         /\ \E e \in entries : /\ key[e] = k
                               /\ entries' = entries \ {e}
                               /\ UNCHANGED <<registered, key, value, content>>
<1> DEFINE e == FindEntry(k)
           b == Index[k]
           l == Chain(b)
<1>1. /\ registered /\ e # NULL
      /\ Unlink(e, b)
      /\ cells' = cells \ {value[e]}
      /\ entries' = entries \ {e}
      /\ size' = size - 1
      /\ lostCells' = lostCells \cup Misplaced({value[e]})
      /\ lostEntries' = lostEntries \cup Misplaced({e})
      /\ UNCHANGED <<registered, key, value, content, pool, ended>>
  BY DEF Unset
<1>2. e \in entries /\ e \in Entry /\ key[e] = k
  BY <1>1, FindRight DEF FoundRight, HashInv, Types
<1>3. b \in Bucket
  BY BhashmapAssumption
<1>4. /\ IsChain(l, table[b], next)
      /\ Members(l) = {f \in entries : Index[key[f]] = b}
      /\ \A i \in 2..Len(l) : pre[l[i]] = l[i - 1]
  BY <1>1, <1>3 DEF HashInv, ChainsSound
<1> HIDE DEF e, l
<1>5. /\ l \in Seq(Entry) /\ Len(l) \in Nat /\ table[b] = At(l, 1)
      /\ \A i \in 1..Len(l) : next[l[i]] = At(l, i + 1) /\ l[i] \in Entry
  BY <1>4 DEF IsChain
<1>6. PICK p \in 1..Len(l) : l[p] = e
  BY <1>2, <1>4, <1>5 DEF Members, b
<1>7. 1 \in 1..Len(l) /\ table[b] = l[1] /\ (e = table[b] <=> p = 1)
  <2>1. 1 \in 1..Len(l) /\ table[b] = l[1]
    BY <1>5, <1>6 DEF At
  <2>2. QED
    BY <1>4, <1>6, <2>1 DEF IsChain
<1>8. /\ table' = IF p = 1 THEN [table EXCEPT ![b] = next[e]] ELSE table
      /\ pre' = IF p = 1 THEN pre
                ELSE [u \in Entry |-> IF u = next[e] THEN pre[e] ELSE pre[u]]
      /\ next' = IF p = 1 THEN next
                 ELSE [u \in Entry |-> IF u = pre[e] THEN next[e] ELSE next[u]]
  BY <1>1, <1>7 DEF Unlink
<1>9. Types'
  <2>1. size' \in Nat
    <3>1. size = Cardinality(entries) /\ IsFiniteSet(entries)
      BY <1>1, Room DEF HashInv, EntriesSound
    <3>2. Cardinality(entries \ {e}) = size - 1 /\ Cardinality(entries \ {e}) \in Nat
      BY <1>2, <3>1, FS_RemoveElement, FS_CardinalityType
    <3>3. QED
      BY <1>1, <3>2
  <2>2. next[e] \in Link /\ pre[e] \in Link
    BY <1>2 DEF HashInv, Types
  <2>3. next' \in [Entry -> Link] /\ pre' \in [Entry -> Link] /\ table' \in [Bucket -> Link]
    BY <1>8, <2>2 DEF HashInv, Types
  <2>4. value[e] \in Cell
    BY <1>2 DEF HashInv, EntriesSound
  <2>5. lostCells' \in SUBSET Cell /\ lostEntries' \in SUBSET Entry
    BY <1>1, <1>2, <2>4 DEF HashInv, Types, Misplaced
  <2>6. QED
    BY <1>1, <2>1, <2>3, <2>5 DEF HashInv, Types
<1>10. EntriesSound'
  <2>1. size' = Cardinality(entries')
    BY <1>1, <1>2, Room, FS_RemoveElement DEF HashInv, EntriesSound
  <2>2. cells' = {value[f] : f \in entries'}
    BY <1>1, <1>2 DEF HashInv, EntriesSound
  <2>3. QED
    BY <1>1, <2>1, <2>2 DEF HashInv, EntriesSound
<1>11. ASSUME NEW d \in Bucket
       PROVE  /\ IsChain(Chain(d)', table'[d], next')
              /\ Members(Chain(d)') = {f \in entries' : Index[key'[f]] = d}
              /\ \A i \in 2..Len(Chain(d)') : pre'[Chain(d)'[i]] = Chain(d)'[i - 1]
  <2>1. CASE d = b
    <3> DEFINE t == Without(l, p)
    <3>1. p > 1 => pre[e] = l[p - 1] /\ p - 1 \in 1..Len(l) /\ next'[l[p - 1]] = next[l[p]]
      <4> SUFFICES ASSUME p > 1
                   PROVE  pre[e] = l[p - 1] /\ p - 1 \in 1..Len(l) /\ next'[l[p - 1]] = next[l[p]]
        OBVIOUS
      <4>1. p \in 2..Len(l) /\ p - 1 \in 1..Len(l)
        BY <1>5
      <4>2. pre[e] = l[p - 1]
        BY <1>4, <1>6, <4>1
      <4>3. QED
        BY <1>5, <1>6, <1>8, <4>1, <4>2
    <3>2. \A i \in 1..Len(l) : i # p /\ i # p - 1 => next'[l[i]] = next[l[i]]
      <4> SUFFICES ASSUME NEW i \in 1..Len(l), i # p, i # p - 1
                   PROVE  next'[l[i]] = next[l[i]]
        OBVIOUS
      <4>1. CASE p = 1
        BY <1>8, <4>1
      <4>2. CASE p # 1
        <5>1. pre[e] = l[p - 1] /\ p - 1 \in 1..Len(l)
          BY <1>5, <3>1, <4>2
        <5>2. l[i] # pre[e]
          BY <1>4, <5>1 DEF IsChain
        <5>3. QED
          BY <1>5, <1>8, <4>2, <5>2
      <4>3. QED
        BY <4>1, <4>2
    <3>4. table'[d] = IF p = 1 THEN next[table[b]] ELSE table[b]
      BY <1>3, <1>7, <1>8, <2>1 DEF HashInv, Types
    <3>3. /\ IsChain(t, table'[d], next')
          /\ Members(t) = Members(l) \ {l[p]}
          /\ Len(t) = Len(l) - 1
          /\ \A i \in 1..(Len(l) - 1) : t[i] = l[IF i < p THEN i ELSE i + 1]
      <4>1. p > 1 => next'[l[p - 1]] = next[l[p]]
        BY <3>1
      <4>2. IsChain(l, table[b], next)
        BY <1>4
      <4>3. PassedOver(l, p, table[b], next, table'[d], next')
        BY <3>2, <3>4, <4>1, <4>2 DEF PassedOver
      <4>4. QED
        BY <4>3, ChainDropped
    <3> HIDE DEF t
    <3>5. Chain(d)' = t
      BY <1>9, <3>3, <3>4, ChainAfter DEF Types
    <3>6. Members(t) = {f \in entries' : Index[key'[f]] = d}
      BY <1>1, <1>4, <1>6, <2>1, <3>3
    <3>7. ASSUME NEW i \in 2..Len(t)
          PROVE  pre'[t[i]] = t[i - 1]
      <4>1. /\ i \in 1..(Len(l) - 1) /\ i - 1 \in 1..(Len(l) - 1)
            /\ i \in 2..Len(l) /\ i + 1 \in 2..Len(l) /\ (i - 1) + 1 = i /\ (i + 1) - 1 = i
            /\ i \in 1..Len(l) /\ i + 1 \in 1..Len(l)
        BY <1>5, <3>3
      <4>2. /\ t[i] = l[IF i < p THEN i ELSE i + 1]
            /\ t[i - 1] = l[IF i - 1 < p THEN i - 1 ELSE i]
        BY <3>3, <4>1
      <4>3. pre[l[i]] = l[i - 1] /\ pre[l[i + 1]] = l[i]
        BY <1>4, <4>1
      <4>4. CASE p = 1
        <5>1. t[i] = l[i + 1] /\ t[i - 1] = l[i]
          BY <4>1, <4>2, <4>4
        <5>2. QED
          BY <1>8, <4>3, <4>4, <5>1
      <4>5. CASE p # 1 /\ i < p
        <5>1. t[i] = l[i] /\ t[i - 1] = l[i - 1]
          BY <4>1, <4>2, <4>5
        <5>2. l[i] # next[e]
          <6>1. next[e] = At(l, p + 1)
            BY <1>5, <1>6
          <6>2. l[i] # NULL
            BY <1>5, <4>1, UnitCount
          <6>3. p + 1 \in 1..Len(l) => l[i] # l[p + 1]
            BY <1>4, <4>1, <4>5 DEF IsChain
          <6>4. QED
            BY <6>1, <6>2, <6>3 DEF At
        <5>3. QED
          BY <1>5, <1>8, <4>1, <4>3, <4>5, <5>1, <5>2
      <4>6. CASE p # 1 /\ i = p
        <5>1. t[i] = l[p + 1] /\ t[i - 1] = l[p - 1]
          BY <4>1, <4>2, <4>6
        <5>2. next[e] = l[p + 1] /\ pre[e] = l[p - 1]
          <6>1. p + 1 \in 1..Len(l) /\ p > 1
            BY <1>5, <4>1, <4>6
          <6>2. next[e] = At(l, p + 1)
            BY <1>5, <1>6
          <6>3. QED
            BY <3>1, <6>1, <6>2 DEF At
        <5>3. QED
          BY <1>5, <1>8, <4>1, <4>6, <5>1, <5>2
      <4>7. CASE p # 1 /\ i > p
        <5>0. /\ Len(l) \in Nat /\ p \in Nat /\ i \in Nat
              /\ p < i /\ i + 1 <= Len(l)
          <6>1. Len(l) \in Nat
            BY <1>5
          <6>2. i \in Nat /\ i + 1 <= Len(l)
            BY <4>1, <6>1
          <6>3. p \in Nat /\ p < i
            BY <4>7, <6>1
          <6>4. QED
            BY <6>1, <6>2, <6>3
        <5>1. t[i] = l[i + 1] /\ t[i - 1] = l[i]
          <6>1. ~(i < p) /\ ~(i - 1 < p)
            BY <5>0
          <6>2. QED
            BY <4>2, <6>1, Zenon
        <5>2. l[i + 1] # next[e]
          <6>1. p + 1 \in 1..Len(l) /\ p + 1 # i + 1
            BY <5>0
          <6>2. next[e] = l[p + 1]
            BY <1>5, <1>6, <6>1 DEF At
          <6>3. QED
            BY <1>4, <4>1, <6>1, <6>2 DEF IsChain
        <5>3. QED
          BY <1>5, <1>8, <4>1, <4>3, <4>7, <5>1, <5>2
      <4>8. QED
        BY <4>1, <4>4, <4>5, <4>6, <4>7
    <3>8. QED
      BY <3>3, <3>4, <3>5, <3>6, <3>7
  <2>2. CASE d # b
    <3> DEFINE list == Chain(d)
    <3>1. /\ IsChain(list, table[d], next)
          /\ Members(list) = {f \in entries : Index[key[f]] = d}
          /\ \A i \in 2..Len(list) : pre[list[i]] = list[i - 1]
      BY <1>1 DEF HashInv, ChainsSound
    <3> HIDE DEF list
    <3>2. list \in Seq(Entry) /\ Len(list) \in Nat
      BY <3>1 DEF IsChain
    <3>3. \A i \in 1..Len(list) : list[i] \in Entry /\ list[i] # NULL /\ list[i] \notin Members(l)
      <4> SUFFICES ASSUME NEW i \in 1..Len(list)
                   PROVE  list[i] \in Entry /\ list[i] # NULL /\ list[i] \notin Members(l)
        OBVIOUS
      <4>1. list[i] \in Entry /\ list[i] # NULL
        BY <3>2, UnitCount
      <4>2. list[i] \in Members(list)
        BY <3>2 DEF Members
      <4>3. Index[key[list[i]]] = d
        BY <3>1, <4>2
      <4>4. list[i] \notin Members(l)
        BY <1>4, <2>2, <4>3
      <4>5. QED
        BY <4>1, <4>4
    <3>4. p # 1 => pre[e] \in Members(l) /\ (next[e] \in Members(l) \/ next[e] = NULL)
      <4> SUFFICES ASSUME p # 1
                   PROVE  pre[e] \in Members(l) /\ (next[e] \in Members(l) \/ next[e] = NULL)
        OBVIOUS
      <4>1. p \in 2..Len(l) /\ p - 1 \in 1..Len(l)
        BY <1>5
      <4>2. pre[e] = l[p - 1]
        BY <1>4, <1>6, <4>1
      <4>3. next[e] = At(l, p + 1)
        BY <1>5, <1>6
      <4>4. QED
        BY <1>5, <4>1, <4>2, <4>3 DEF At, Members
    <3>5. \A i \in 1..Len(list) : /\ next'[list[i]] = next[list[i]]
                                  /\ pre'[list[i]] = pre[list[i]]
      BY <1>8, <3>3, <3>4
    <3>6. table'[d] = table[d]
      BY <1>8, <2>2 DEF HashInv, Types
    <3>7. IsChain(list, table'[d], next')
      BY <3>1, <3>5, <3>6, ChainElsewhere
    <3>8. Chain(d)' = list
      BY <1>9, <3>7, ChainAfter DEF Types
    <3>9. Members(list) = {f \in entries' : Index[key'[f]] = d}
      BY <1>1, <1>2, <2>2, <3>1
    <3>10. \A i \in 2..Len(list) : i \in 1..Len(list)
      BY <3>2
    <3>11. QED
      BY <3>1, <3>5, <3>7, <3>8, <3>9, <3>10
  <2>3. QED
    BY <2>1, <2>2
<1>12. ChainsSound'
  BY <1>11 DEF ChainsSound
<1>13. PoolsSound'
  <2>1. value[e] \in cells /\ value[e] \in Cell
    BY <1>2 DEF HashInv, EntriesSound
  <2>2. /\ pool \in Nat /\ e[1] \in Nat /\ e[1] <= pool
        /\ value[e][1] \in Nat /\ value[e][1] <= pool
    BY <1>2, <2>1, BhashmapAssumption DEF HashInv, Types, PoolsSound, Pool, Entry, Cell
  <2>3. \A u \in Misplaced({value[e]}) : u = value[e] /\ u[1] < pool
    BY <2>2 DEF Misplaced
  <2>4. \A u \in Misplaced({e}) : u = e /\ u[1] < pool
    BY <2>2 DEF Misplaced
  <2>5. QED
    BY <1>1, <2>3, <2>4 DEF HashInv, PoolsSound
<1>14. QED
  BY <1>1, <1>2, <1>9, <1>10, <1>12, <1>13 DEF HashInv

\* bhashmap_unregister gives back what is linked, and that is everything.
LEMMA UnregisterStep ==
  ASSUME HashInv, Unregister
  PROVE  HashInv' /\ ~registered'
<1> DEFINE all    == UNION {Members(Chain(b)) : b \in Bucket}
           values == {value[e] : e \in all}
<1>1. /\ registered /\ ~registered' /\ registered' = FALSE
      /\ entries' = entries \ all
      /\ cells' = cells \ values
      /\ lostEntries' = lostEntries \cup Misplaced(all)
      /\ lostCells' = lostCells \cup Misplaced(values)
      /\ size' = 0
      /\ UNCHANGED <<table, key, value, pre, next, content, pool, ended>>
  BY DEF Unregister, fields
<1>2. all = entries
  <2>1. \A b \in Bucket : Members(Chain(b)) = {e \in entries : Index[key[e]] = b}
    BY <1>1 DEF HashInv, ChainsSound
  <2>2. \A e \in entries : Index[key[e]] \in Bucket
    BY BhashmapAssumption DEF HashInv, EntriesSound
  <2>3. QED
    BY <2>1, <2>2
<1> HIDE DEF all
<1>3. values = cells
  BY <1>2 DEF HashInv, EntriesSound
<1> HIDE DEF values
<1>4. entries' = {} /\ cells' = {}
  BY <1>1, <1>2, <1>3
<1>5. /\ lostEntries' = lostEntries \cup Misplaced(entries)
      /\ lostCells' = lostCells \cup Misplaced(cells)
  BY <1>1, <1>2, <1>3
<1>6. Types'
  BY <1>1, <1>4, <1>5 DEF HashInv, Types, Misplaced
<1>7. EntriesSound'
  BY <1>1, <1>4 DEF EntriesSound
<1>8. ChainsSound'
  BY <1>1 DEF ChainsSound
<1>9. PoolsSound'
  <2>1. pool \in Nat /\ \A u \in entries \cup cells : u[1] \in Nat /\ u[1] <= pool
    BY BhashmapAssumption DEF HashInv, Types, PoolsSound, Pool, Entry, Cell
  <2>2. \A u \in Misplaced(entries) \cup Misplaced(cells) : u[1] < pool
    BY <2>1 DEF Misplaced
  <2>3. QED
    BY <1>1, <1>4, <1>5, <2>2 DEF HashInv, PoolsSound
<1>10. QED
  BY <1>1, <1>6, <1>7, <1>8, <1>9 DEF HashInv

\* An empty table.
LEMMA EmptyTable ==
  ASSUME NEW links
  PROVE  IsChain(<<>>, NULL, links) /\ Members(<<>>) = {} /\ Len(<<>>) = 0
<1>1. <<>> \in Seq(Entry) /\ Len(<<>>) = 0 /\ DOMAIN <<>> = {}
  OBVIOUS
<1>2. QED
  BY <1>1 DEF IsChain, At, Members

\* bhashmap_register of a place that is free.
LEMMA RegisterStep ==
  ASSUME HashInv, Register
  PROVE  HashInv' /\ registered' /\ entries' = {}
<1>1. /\ ~registered /\ registered' /\ registered' = TRUE
      /\ size' = 0
      /\ table' = [b \in Bucket |-> NULL]
      /\ UNCHANGED <<key, value, pre, next, entries, cells, content>>
      /\ pool < MaxPool /\ pool' = pool + 1
      /\ UNCHANGED <<lostEntries, lostCells, ended>>
  BY DEF Register, NewPools, fields
<1>2. entries = {} /\ cells = {}
  BY <1>1 DEF HashInv, EntriesSound
<1>3. Types'
  <2>1. pool' \in Pool
    BY <1>1, BhashmapAssumption DEF HashInv, Types, Pool
  <2>2. QED
    BY <1>1, <2>1 DEF HashInv, Types, Link
<1>4. EntriesSound'
  BY <1>1, <1>2, FS_EmptySet DEF EntriesSound
<1>5. ASSUME NEW d \in Bucket
      PROVE  /\ IsChain(Chain(d)', table'[d], next')
             /\ Members(Chain(d)') = {f \in entries' : Index[key'[f]] = d}
             /\ \A i \in 2..Len(Chain(d)') : pre'[Chain(d)'[i]] = Chain(d)'[i - 1]
  <2>1. IsChain(<<>>, table'[d], next')
    BY <1>1, EmptyTable
  <2>2. Chain(d)' = <<>>
    BY <1>3, <2>1, ChainAfter DEF Types
  <2>3. QED
    BY <1>1, <1>2, <2>1, <2>2, EmptyTable
<1>6. ChainsSound'
  BY <1>5 DEF ChainsSound
<1>7. PoolsSound'
  <2>1. pool \in Nat /\ \A u \in lostEntries \cup lostCells : u[1] \in Nat
    BY BhashmapAssumption DEF HashInv, Types, Pool, Entry, Cell
  <2>2. QED
    BY <1>1, <1>2, <2>1 DEF HashInv, PoolsSound
<1>8. QED
  BY <1>1, <1>2, <1>3, <1>4, <1>6, <1>7 DEF HashInv

\* The registration of another map leaves the map alone, and so does one that
\* finds no pools.
LEMMA OtherStep ==
  ASSUME HashInv, RegisterAnother \/ RunOut
  PROVE  /\ HashInv'
         /\ UNCHANGED <<registered, table, entries, cells, key, value, next, content>>
<1>1. /\ UNCHANGED <<registered, size, table, key, value, pre, next, content>>
      /\ UNCHANGED <<entries, cells, lostEntries, lostCells>>
      /\ pool' = pool \/ (pool < MaxPool /\ pool' = pool + 1)
      /\ ended' \in {ended, TRUE}
  BY DEF RegisterAnother, NewPools, RunOut, fields
<1>2. Types'
  <2>1. pool' \in Pool
    BY <1>1, BhashmapAssumption DEF HashInv, Types, Pool
  <2>2. QED
    BY <1>1, <2>1 DEF HashInv, Types
<1>3. EntriesSound'
  BY <1>1 DEF HashInv, EntriesSound
<1>4. ChainsSound'
  <2>1. \A d : Chain(d)' = Chain(d)
    BY <1>1 DEF Chain
  <2>2. QED
    BY <1>1, <2>1 DEF HashInv, ChainsSound
<1>5. PoolsSound'
  <2>1. /\ pool \in Nat
        /\ \A u \in entries \cup cells \cup lostEntries \cup lostCells : u[1] \in Nat
    BY BhashmapAssumption DEF HashInv, Types, Pool, Entry, Cell
  <2>2. QED
    BY <1>1, <2>1 DEF HashInv, PoolsSound
<1>6. QED
  BY <1>1, <1>2, <1>3, <1>4, <1>5 DEF HashInv

\* bhashmap_register of the first map.
LEMMA HashInit == Init => HashInv
<1> SUFFICES ASSUME Init
             PROVE  HashInv
  OBVIOUS
<1>1. Types
  <2>1. 1 \in Pool
    BY BhashmapAssumption DEF Pool
  <2>2. QED
    BY <2>1 DEF Init, Types, Link
<1>2. EntriesSound
  BY FS_EmptySet DEF Init, EntriesSound
<1>3. ASSUME NEW d \in Bucket
      PROVE  /\ IsChain(Chain(d), table[d], next)
             /\ Members(Chain(d)) = {f \in entries : Index[key[f]] = d}
             /\ \A i \in 2..Len(Chain(d)) : pre[Chain(d)[i]] = Chain(d)[i - 1]
  <2>1. IsChain(<<>>, table[d], next)
    BY EmptyTable DEF Init
  <2>2. Chain(d) = <<>>
    BY <1>1, <2>1, FollowChain DEF Chain, Types
  <2>3. QED
    BY <2>1, <2>2, EmptyTable DEF Init
<1>4. PoolsSound
  BY DEF Init, PoolsSound
<1>5. QED
  BY <1>1, <1>2, <1>3, <1>4 DEF HashInv, ChainsSound

\* The invariant is inductive.
LEMMA HashStep == HashInv /\ [Next]_vars => HashInv'
<1> SUFFICES ASSUME HashInv, [Next]_vars
             PROVE  HashInv'
  OBVIOUS
<1>1. ASSUME NEW k \in Key, NEW v \in Value, SetNew(k, v) \/ SetAgain(k, v)
      PROVE  HashInv'
  BY <1>1, SetNewStep, SetAgainStep
<1>2. ASSUME NEW k \in Key, Unset(k)
      PROVE  HashInv'
  BY <1>2, UnsetStep
<1>3. CASE Unregister \/ Register
  BY <1>3, UnregisterStep, RegisterStep
<1>4. CASE RegisterAnother \/ RunOut
  BY <1>4, OtherStep
<1>5. CASE UNCHANGED vars
  <2>1. \A b : Chain(b)' = Chain(b)
    BY <1>5 DEF Chain, vars, fields
  <2>2. QED
    BY <1>5, <2>1 DEF vars, fields, poolVars, HashInv, Types, EntriesSound, ChainsSound,
                      PoolsSound
<1>6. QED
  BY <1>1, <1>2, <1>3, <1>4, <1>5 DEF Next

\* The invariant holds of every behaviour.
LEMMA HashCorrect == Spec => []HashInv
BY HashInit, HashStep, PTL DEF Spec

\* Each entry is in the bucket of its key, no key has two, and behind the
\* first entry of a bucket the back links are right: bhashmap_unset can take
\* any of them out.
THEOREM BucketsCorrect == Spec => []BucketsSound
<1>1. HashInv => BucketsSound
  <2> SUFFICES ASSUME HashInv, registered, NEW b \in Bucket,
                      NEW i \in DOMAIN Chain(b)
               PROVE  LET list == Chain(b)
                      IN  /\ Index[key[list[i]]] = b
                          /\ \A j \in DOMAIN list : key[list[i]] = key[list[j]] => i = j
                          /\ i > 1 => pre[list[i]] = list[i - 1]
    BY DEF BucketsSound
  <2> DEFINE list == Chain(b)
  <2>1. /\ IsChain(list, table[b], next)
        /\ Members(list) = {e \in entries : Index[key[e]] = b}
        /\ \A j \in 2..Len(list) : pre[list[j]] = list[j - 1]
    BY DEF HashInv, ChainsSound
  <2>2. list \in Seq(Entry) /\ DOMAIN list = 1..Len(list) /\ Len(list) \in Nat
    BY <2>1 DEF IsChain
  <2>3. i \in 1..Len(list) /\ (i > 1 => i \in 2..Len(list))
    BY <2>2
  <2> HIDE DEF list
  <2>4. \A j \in 1..Len(list) : list[j] \in entries /\ Index[key[list[j]]] = b
    BY <2>1, <2>2 DEF Members
  <2>5. ASSUME NEW j \in 1..Len(list), key[list[i]] = key[list[j]]
        PROVE  i = j
    <3>1. list[i] = list[j]
      BY <2>3, <2>4, <2>5 DEF HashInv, EntriesSound
    <3>2. QED
      BY <2>1, <2>3, <3>1 DEF IsChain
  <2>6. QED
    BY <2>1, <2>2, <2>3, <2>4, <2>5 DEF list
<1>2. QED
  BY <1>1, HashCorrect, PTL

\* No unit has two users, and none is lost by overwriting, removing or giving
\* up the map but to pools that a registration has replaced.
THEOREM UnitsCorrect == Spec => []UnitsOwned
<1>1. HashInv => UnitsOwned
  <2> SUFFICES ASSUME HashInv
               PROVE  UnitsOwned
    OBVIOUS
  <2>1. entries = Linked
    <3>1. CASE registered
      <4>1. \A b \in Bucket : Members(Chain(b)) = {e \in entries : Index[key[e]] = b}
        BY <3>1 DEF HashInv, ChainsSound
      <4>2. \A e \in entries : Index[key[e]] \in Bucket
        BY BhashmapAssumption DEF HashInv, EntriesSound
      <4>3. QED
        BY <3>1, <4>1, <4>2 DEF Linked
    <3>2. CASE ~registered
      BY <3>2 DEF Linked, HashInv, EntriesSound
    <3>3. QED
      BY <3>1, <3>2
  <2>2. Cardinality(cells) = Cardinality(entries)
    BY Room
  <2>3. QED
    BY <2>1, <2>2 DEF UnitsOwned, CellsOwned, HashInv, EntriesSound, PoolsSound
<1>2. QED
  BY <1>1, HashCorrect, PTL

-----------------------------------------------------------------------------
\* What bhashmap_get returns: what the cell of the key's entry holds.
GotRight ==
  \A k \in Key :
    /\ \A e \in entries : key[e] = k => Get(k) = content[value[e]]
    /\ (\A e \in entries : key[e] # k) => Get(k) = NoValue

\* In a sound map bhashmap_get returns the value stored with the key, if any.
LEMMA GetRight == HashInv => GotRight
<1> SUFFICES ASSUME HashInv, NEW k \in Key
             PROVE  /\ \A e \in entries : key[e] = k => Get(k) = content[value[e]]
                    /\ (\A e \in entries : key[e] # k) => Get(k) = NoValue
  BY DEF GotRight
<1>1. Get(k) = IF registered /\ FindEntry(k) # NULL
               THEN content[value[FindEntry(k)]] ELSE NoValue
  BY DEF Get
<1>2. CASE registered
  <2>1. \A e \in entries : e # NULL
    BY UnitCount DEF HashInv, Types
  <2>2. FoundRight
    BY FindRight
  <2>3. QED
    BY <1>1, <1>2, <2>1, <2>2 DEF FoundRight
<1>3. CASE ~registered
  BY <1>1, <1>3 DEF HashInv, EntriesSound
<1>4. QED
  BY <1>2, <1>3

\* A key has the value set for it last, until it is unset or the map is given
\* up: what bhashmap.h promises.
THEOREM MapCorrect == Spec => IsMap
<1>1. Init => M!Init
  <2> SUFFICES ASSUME Init
               PROVE  M!Init
    OBVIOUS
  <2>1. GotRight /\ entries = {}
    BY HashInit, GetRight DEF Init
  <2>2. QED
    BY <2>1 DEF M!Init, GotRight
<1>2. HashInv => GotRight
  BY GetRight
<1>3. HashInv /\ GotRight /\ GotRight' /\ [Next]_vars => [M!Next]_[k \in Key |-> Get(k)]
  <2> SUFFICES ASSUME HashInv, GotRight, GotRight', [Next]_vars
               PROVE  \/ [k \in Key |-> Get(k)]' = [k \in Key |-> Get(k)]
                      \/ M!Set \/ M!Unset \/ M!Clear
    BY DEF M!Next
  <2>1. ASSUME NEW k \in Key, NEW v,
               \E e \in entries' : key'[e] = k /\ content'[value'[e]] = v,
               \A j \in Key \ {k} : Get(j)' = Get(j)
        PROVE  [j \in Key |-> Get(j)]' = [[j \in Key |-> Get(j)] EXCEPT ![k] = v]
    <3>1. Get(k)' = v
      BY <2>1 DEF GotRight
    <3>2. QED
      BY <2>1, <3>1
  <2>2. ASSUME NEW k \in Key, NEW v \in Value,
               [j \in Key |-> Get(j)]' = [[j \in Key |-> Get(j)] EXCEPT ![k] = v]
        PROVE  M!Set
    BY <2>2, Zenon DEF M!Set
  <2>3. ASSUME NEW k \in Key,
               [j \in Key |-> Get(j)]' = [[j \in Key |-> Get(j)] EXCEPT ![k] = NoValue]
        PROVE  M!Unset
    BY <2>3, Zenon DEF M!Unset
  <2>4. ASSUME NEW k \in Key, NEW v \in Value, SetNew(k, v)
        PROVE  M!Set
    <3>1. PICK e \in Entry : /\ e \notin entries /\ entries' = entries \cup {e}
                             /\ key' = [key EXCEPT ![e] = k]
                             /\ content'[value'[e]] = v
                             /\ \A f \in entries : content'[value'[f]] = content[value[f]]
      BY <2>4, SetNewStep
    <3>2. key'[e] = k /\ \A f \in entries : key'[f] = key[f]
      BY <3>1 DEF HashInv, Types
    <3>3. ASSUME NEW j \in Key \ {k}
          PROVE  Get(j)' = Get(j)
      <4>1. CASE \E f \in entries : key[f] = j
        BY <3>1, <3>2, <4>1 DEF GotRight
      <4>2. CASE \A f \in entries : key[f] # j
        BY <3>1, <3>2, <4>2 DEF GotRight
      <4>3. QED
        BY <4>1, <4>2
    <3>4. \E f \in entries' : key'[f] = k /\ content'[value'[f]] = v
      BY <3>1, <3>2
    <3>5. QED
      BY <2>1, <2>2, <3>3, <3>4
  <2>5. ASSUME NEW k \in Key, NEW v \in Value, SetAgain(k, v)
        PROVE  M!Set
    <3>1. PICK e \in entries : /\ key[e] = k
                               /\ UNCHANGED <<registered, entries, key>>
                               /\ content'[value'[e]] = v
                               /\ \A f \in entries \ {e} :
                                    content'[value'[f]] = content[value[f]]
      BY <2>5, SetAgainStep
    <3>2. ASSUME NEW j \in Key \ {k}
          PROVE  Get(j)' = Get(j)
      <4>1. CASE \E f \in entries : key[f] = j
        BY <3>1, <4>1 DEF GotRight
      <4>2. CASE \A f \in entries : key[f] # j
        BY <3>1, <4>2 DEF GotRight
      <4>3. QED
        BY <4>1, <4>2
    <3>3. \E f \in entries' : key'[f] = k /\ content'[value'[f]] = v
      BY <3>1
    <3>4. QED
      BY <2>1, <2>2, <3>2, <3>3
  <2>6. ASSUME NEW k \in Key, Unset(k)
        PROVE  M!Unset
    <3>1. PICK e \in entries : /\ key[e] = k
                               /\ entries' = entries \ {e}
                               /\ UNCHANGED <<registered, key, value, content>>
      BY <2>6, UnsetStep
    <3>2. Get(k)' = NoValue
      BY <3>1 DEF GotRight, HashInv, EntriesSound
    <3>3. ASSUME NEW j \in Key \ {k}
          PROVE  Get(j)' = Get(j)
      <4>1. CASE \E f \in entries : key[f] = j
        BY <3>1, <4>1 DEF GotRight
      <4>2. CASE \A f \in entries : key[f] # j
        BY <3>1, <4>2 DEF GotRight
      <4>3. QED
        BY <4>1, <4>2
    <3>4. [j \in Key |-> Get(j)]' = [[j \in Key |-> Get(j)] EXCEPT ![k] = NoValue]
      BY <3>2, <3>3
    <3>5. QED
      BY <2>3, <3>4
  <2>7. CASE Unregister
    <3>1. entries' = {}
      BY <2>7, UnregisterStep DEF HashInv, EntriesSound
    <3>2. QED
      BY <3>1 DEF GotRight, M!Clear
  <2>8. CASE Register
    <3>1. entries' = {}
      BY <2>8, RegisterStep
    <3>2. QED
      BY <3>1 DEF GotRight, M!Clear
  <2>9. CASE RegisterAnother \/ RunOut \/ UNCHANGED vars
    <3>1. ASSUME NEW j \in Key
          PROVE  Get(j)' = Get(j)
      <4>1. UNCHANGED <<entries, key, value, content>>
        BY <2>9, OtherStep DEF vars, fields
      <4>2. CASE \E f \in entries : key[f] = j
        BY <4>1, <4>2 DEF GotRight
      <4>3. CASE \A f \in entries : key[f] # j
        BY <4>1, <4>3 DEF GotRight
      <4>4. QED
        BY <4>2, <4>3
    <3>2. QED
      BY <3>1
  <2>10. QED
    BY <2>4, <2>5, <2>6, <2>7, <2>8, <2>9 DEF Next
<1>4. QED
  BY <1>1, <1>2, <1>3, HashCorrect, PTL DEF Spec, IsMap, M!Spec

-----------------------------------------------------------------------------
(***************************************************************************)
(* The keys of the integer-keyed maps.  What itoa computes is recursive in *)
(* the number without its last digit; so is the induction.                 *)
(***************************************************************************)
\* Without its last digit a number is smaller.
LEMMA WithoutLastDigit ==
  ASSUME NEW n \in Nat
  PROVE  /\ n \div 10 \in Nat /\ n % 10 \in 0..9
         /\ n = 10 * (n \div 10) + (n % 10)
         /\ n # 0 => n \div 10 < n
OBVIOUS

\* What holds of a number when it holds of the number without its last digit
\* holds of all.
LEMMA DigitInduction ==
  ASSUME NEW T \in SUBSET Nat,
         \A n \in Nat : (n # 0 => n \div 10 \in T) => n \in T
  PROVE  \A n \in Nat : n \in T
<1> DEFINE U == Nat \ T
<1> SUFFICES ASSUME U # {} PROVE FALSE
  OBVIOUS
<1>1. PICK x \in U : \A y \in U : x <= y
  <2>1. U \in SUBSET Nat
    OBVIOUS
  <2>2. QED
    BY <2>1, LeastNat
<1>2. x \in Nat /\ x \notin T
  OBVIOUS
<1>3. x # 0 => x \div 10 \in T
  <2> SUFFICES ASSUME x # 0, x \div 10 \notin T PROVE FALSE
    OBVIOUS
  <2>1. x \div 10 \in Nat /\ x \div 10 < x
    BY <1>2, WithoutLastDigit
  <2>2. x <= x \div 10
    BY <1>1, <2>1
  <2>3. QED
    BY <1>2, <2>1, <2>2
<1>4. QED
  BY <1>2, <1>3

\* A recursion on the digits, with the values a at B and the step g elsewhere.
IsByDigit(f, D, B, a, g) ==
  f = [n \in D |-> IF n \in B THEN a[n] ELSE g[<<n, f[n \div 10]>>]]

\* It defines a function up to any number.
LEMMA ByDigitUpTo ==
  ASSUME NEW S, NEW B \in SUBSET Nat, 0 \in B,
         NEW a \in [Nat -> S], NEW g \in [Nat \X S -> S]
  PROVE  \A m \in Nat : \E f \in [0..m -> S] : IsByDigit(f, 0..m, B, a, g)
<1> DEFINE U == {m \in Nat : ~ \E f \in [0..m -> S] : IsByDigit(f, 0..m, B, a, g)}
<1> SUFFICES ASSUME U # {} PROVE FALSE
  OBVIOUS
<1>1. PICK m \in U : \A y \in U : m <= y
  BY LeastNat
<1>2. CASE m = 0
  <2> DEFINE f == [n \in 0..0 |-> a[n]]
  <2>1. \A n \in 0..0 : n \in Nat /\ n \in B
    OBVIOUS
  <2>2. f \in [0..0 -> S]
    BY <2>1
  <2>3. IsByDigit(f, 0..0, B, a, g)
    BY <2>1 DEF IsByDigit
  <2>4. QED
    BY <1>1, <1>2, <2>2, <2>3
<1>3. CASE m # 0
  <2>1. m \in Nat /\ m - 1 \in Nat /\ m - 1 \notin U
    BY <1>1, <1>3
  <2>2. PICK h \in [0..(m - 1) -> S] : IsByDigit(h, 0..(m - 1), B, a, g)
    BY <2>1
  <2> DEFINE f == [n \in 0..m |-> IF n \in B THEN a[n] ELSE g[<<n, h[n \div 10]>>]]
  <2>3. \A n \in 0..m : n \notin B => n \div 10 \in 0..(m - 1)
    <3> SUFFICES ASSUME NEW n \in 0..m, n \notin B
                 PROVE  n \div 10 \in 0..(m - 1)
      OBVIOUS
    <3>1. n \in Nat /\ n # 0 /\ n <= m
      BY <2>1
    <3>2. n \div 10 \in Nat /\ n \div 10 < n
      BY <3>1, WithoutLastDigit
    <3>3. QED
      BY <2>1, <3>1, <3>2
  <2>4. \A n \in 0..(m - 1) : n \in 0..m /\ f[n] = h[n]
    <3> SUFFICES ASSUME NEW n \in 0..(m - 1)
                 PROVE  n \in 0..m /\ f[n] = h[n]
      OBVIOUS
    <3>1. n \in 0..m
      BY <2>1
    <3>2. f[n] = IF n \in B THEN a[n] ELSE g[<<n, h[n \div 10]>>]
      BY <3>1, Zenon
    <3>3. h[n] = IF n \in B THEN a[n] ELSE g[<<n, h[n \div 10]>>]
      BY <2>2, Zenon DEF IsByDigit
    <3>4. QED
      BY <3>1, <3>2, <3>3, Zenon
  <2>5. f \in [0..m -> S]
    <3>1. ASSUME NEW n \in 0..m
          PROVE  (IF n \in B THEN a[n] ELSE g[<<n, h[n \div 10]>>]) \in S
      <4>1. n \in Nat
        BY <2>1
      <4>2. n \notin B => <<n, h[n \div 10]>> \in Nat \X S
        BY <2>3, <4>1
      <4>3. QED
        BY <4>1, <4>2
    <3>2. QED
      BY <3>1
  <2>6. IsByDigit(f, 0..m, B, a, g)
    <3>1. \A n \in 0..m : n \notin B => f[n \div 10] = h[n \div 10]
      BY <2>3, <2>4
    <3>2. QED
      BY <3>1, Zenon DEF IsByDigit
  <2>7. QED
    BY <1>1, <2>5, <2>6
<1>4. QED
  BY <1>2, <1>3

\* And for all numbers.
LEMMA ByDigit ==
  ASSUME NEW S, NEW B \in SUBSET Nat, 0 \in B,
         NEW a \in [Nat -> S], NEW g \in [Nat \X S -> S]
  PROVE  \E f \in [Nat -> S] : IsByDigit(f, Nat, B, a, g)
<1> DEFINE P(h, m) == h \in [0..m -> S] /\ IsByDigit(h, 0..m, B, a, g)
           H(m)    == CHOOSE h : P(h, m)
           f       == [n \in Nat |-> H(n)[n]]
<1>1. \A m \in Nat : P(H(m), m)
  <2>1. \A m \in Nat : \E h : P(h, m)
    BY ByDigitUpTo
  <2>2. QED
    BY <2>1, Zenon
<1>2. \A m \in Nat : \A n \in 0..m : 
        /\ H(m)[n] \in S
        /\ H(m)[n] = IF n \in B THEN a[n] ELSE g[<<n, H(m)[n \div 10]>>]
  <2> SUFFICES ASSUME NEW m \in Nat, NEW n \in 0..m
               PROVE  /\ H(m)[n] \in S
                      /\ H(m)[n] = IF n \in B THEN a[n] ELSE g[<<n, H(m)[n \div 10]>>]
    OBVIOUS
  <2>1. PICK h : h = H(m)
    OBVIOUS
  <2>2. h \in [0..m -> S] /\ IsByDigit(h, 0..m, B, a, g)
    BY <1>1, <2>1
  <2> HIDE DEF H
  <2>3. h[n] \in S /\ h[n] = IF n \in B THEN a[n] ELSE g[<<n, h[n \div 10]>>]
    BY <2>2, Zenon DEF IsByDigit
  <2>4. QED
    BY <2>1, <2>3, Zenon
<1> HIDE DEF H
\* Two of these functions agree wherever both are defined.
<1> DEFINE T == {n \in Nat : \A m, k \in Nat : n <= m /\ n <= k => H(m)[n] = H(k)[n]}
<1>3. \A n \in Nat : n \in T
  <2>1. ASSUME NEW n \in Nat, n # 0 => n \div 10 \in T
        PROVE  n \in T
    <3> SUFFICES ASSUME NEW m \in Nat, NEW k \in Nat, n <= m, n <= k
                 PROVE  H(m)[n] = H(k)[n]
      OBVIOUS
    <3>1. n \in 0..m /\ n \in 0..k
      OBVIOUS
    <3>2. CASE n \in B
      BY <1>2, <3>1, <3>2
    <3>3. CASE n \notin B
      <4>1. n # 0
        BY <3>3
      <4>2. n \div 10 \in Nat /\ n \div 10 < n
        BY <4>1, WithoutLastDigit
      <4>3. n \div 10 <= m /\ n \div 10 <= k
        BY <4>2
      <4>4. H(m)[n \div 10] = H(k)[n \div 10]
        BY <2>1, <4>1, <4>2, <4>3
      <4>5. H(m)[n] = g[<<n, H(m)[n \div 10]>>] /\ H(k)[n] = g[<<n, H(k)[n \div 10]>>]
        BY <1>2, <3>1, <3>3
      <4>6. QED
        BY <4>4, <4>5, Zenon
    <3>4. QED
      BY <3>2, <3>3
  <2>2. T \in SUBSET Nat
    OBVIOUS
  <2> HIDE DEF T
  <2>3. QED
    BY <2>1, <2>2, DigitInduction
<1>4. f \in [Nat -> S]
  <2>1. \A n \in Nat : n \in 0..n
    OBVIOUS
  <2>2. QED
    BY <1>2, <2>1
<1>5. \A n \in Nat : f[n] = IF n \in B THEN a[n] ELSE g[<<n, f[n \div 10]>>]
  <2> SUFFICES ASSUME NEW n \in Nat
               PROVE  f[n] = IF n \in B THEN a[n] ELSE g[<<n, f[n \div 10]>>]
    OBVIOUS
  <2>1. f[n] = H(n)[n] /\ n \in 0..n
    OBVIOUS
  <2>2. CASE n \in B
    BY <1>2, <2>1, <2>2
  <2>3. CASE n \notin B
    <3>1. n # 0
      BY <2>3
    <3>2. n \div 10 \in Nat /\ n \div 10 < n
      BY <3>1, WithoutLastDigit
    <3>3. n \div 10 <= n /\ n \div 10 <= n \div 10
      BY <3>2
    <3>4. H(n)[n \div 10] = H(n \div 10)[n \div 10]
      BY <1>3, <3>2, <3>3
    <3>5. f[n \div 10] = H(n \div 10)[n \div 10]
      BY <3>2
    <3>6. H(n)[n] = g[<<n, H(n)[n \div 10]>>]
      BY <1>2, <2>1, <2>3
    <3>7. QED
      BY <2>1, <2>3, <3>4, <3>5, <3>6, Zenon
  <2>4. QED
    BY <2>2, <2>3
<1>6. IsByDigit(f, Nat, B, a, g)
  <2> HIDE DEF f
  <2>1. f = [n \in Nat |-> f[n]]
    BY <1>4
  <2>2. QED
    BY <1>5, <2>1, Zenon DEF IsByDigit
<1>7. QED
  BY <1>4, <1>6

\* The recursions of the model are such recursions: each is a function, with
\* the values its definition gives.
LEMMA DecimalDef ==
  /\ Decimal \in [Nat -> Seq(Nat)]
  /\ \A n \in Nat :
       Decimal[n] = IF n < 10 THEN <<n>> ELSE Append(Decimal[n \div 10], n % 10)
<1> DEFINE B == {n \in Nat : n < 10}
           a == [n \in Nat |-> <<n>>]
           g == [p \in Nat \X Seq(Nat) |-> Append(p[2], p[1] % 10)]
           D(f) == [n \in Nat |-> IF n < 10 THEN <<n>>
                                  ELSE Append(f[n \div 10], n % 10)]
<1>1. B \in SUBSET Nat /\ 0 \in B /\ a \in [Nat -> Seq(Nat)]
  OBVIOUS
<1>2. g \in [Nat \X Seq(Nat) -> Seq(Nat)]
  <2>1. \A p \in Nat \X Seq(Nat) : p[1] % 10 \in Nat /\ p[2] \in Seq(Nat)
    BY WithoutLastDigit
  <2>2. QED
    BY <2>1
<1>3. PICK f \in [Nat -> Seq(Nat)] : IsByDigit(f, Nat, B, a, g)
  <2> HIDE DEF B, a, g
  <2>1. QED
    BY <1>1, <1>2, ByDigit
<1>4. f = D(f)
  <2>1. \A n \in Nat : (n \in B <=> n < 10) /\ a[n] = <<n>>
    OBVIOUS
  <2>2. \A n \in Nat : g[<<n, f[n \div 10]>>] = Append(f[n \div 10], n % 10)
    <3> SUFFICES ASSUME NEW n \in Nat
                 PROVE  g[<<n, f[n \div 10]>>] = Append(f[n \div 10], n % 10)
      OBVIOUS
    <3>1. n \div 10 \in Nat
      BY WithoutLastDigit
    <3>2. PICK s \in Seq(Nat) : s = f[n \div 10]
      BY <3>1
    <3>3. g[<<n, s>>] = Append(s, n % 10)
      OBVIOUS
    <3>4. QED
      BY <3>2, <3>3, Zenon
  <2> HIDE DEF B, a, g
  <2>3. f = [n \in Nat |-> IF n \in B THEN a[n] ELSE g[<<n, f[n \div 10]>>]]
    BY <1>3, Zenon DEF IsByDigit
  <2>4. \A n \in Nat : f[n] = IF n \in B THEN a[n] ELSE g[<<n, f[n \div 10]>>]
    BY <2>3, Zenon
  <2>5. \A n \in Nat : f[n] = D(f)[n]
    BY <2>1, <2>2, <2>4, Zenon
  <2>6. f = [n \in Nat |-> f[n]] /\ D(f) = [n \in Nat |-> D(f)[n]]
    BY <1>3, Zenon
  <2>7. QED
    BY <2>5, <2>6, Zenon
<1>5. Decimal = D(Decimal)
  <2>1. Decimal = CHOOSE h : h = D(h)
    BY Zenon DEF Decimal
  <2>2. \E h : h = D(h)
    BY <1>4, Zenon
  <2> HIDE DEF D
  <2>3. QED
    BY <2>1, <2>2, Zenon
<1>6. \A n \in Nat :
        Decimal[n] = IF n < 10 THEN <<n>> ELSE Append(Decimal[n \div 10], n % 10)
  <2>1. \A n \in Nat : Decimal[n] = D(Decimal)[n]
    BY <1>5, Zenon
  <2>2. QED
    BY <2>1, Zenon
<1> DEFINE T == {n \in Nat : Decimal[n] \in Seq(Nat)}
<1>7. \A n \in Nat : n \in T
  <2>1. ASSUME NEW n \in Nat, n # 0 => n \div 10 \in T
        PROVE  n \in T
    <3>1. CASE n < 10
      <4>1. Decimal[n] = <<n>>
        BY <1>6, <3>1, Zenon
      <4>2. <<n>> \in Seq(Nat)
        OBVIOUS
      <4>3. QED
        BY <4>1, <4>2, Zenon
    <3>2. CASE ~(n < 10)
      <4>1. Decimal[n] = Append(Decimal[n \div 10], n % 10)
        BY <1>6, <3>2, Zenon
      <4>2. n # 0 /\ n % 10 \in Nat
        BY <3>2, WithoutLastDigit
      <4>3. PICK s \in Seq(Nat) : s = Decimal[n \div 10]
        BY <2>1, <4>2
      <4>4. Append(s, n % 10) \in Seq(Nat)
        BY <4>2
      <4>5. QED
        BY <4>1, <4>3, <4>4, Zenon
    <3>3. QED
      BY <3>1, <3>2
  <2>2. T \in SUBSET Nat
    OBVIOUS
  <2> HIDE DEF T
  <2>3. QED
    BY <2>1, <2>2, DigitInduction
<1>8. Decimal \in [Nat -> Seq(Nat)]
  <2>1. Decimal = [n \in Nat |-> Decimal[n]]
    BY <1>5, Zenon
  <2>2. \A n \in Nat : Decimal[n] \in Seq(Nat)
    BY <1>7
  <2>3. QED
    BY <2>1, <2>2, Zenon
<1>9. QED
  BY <1>6, <1>8

\* The digits that are not zero.
LEMMA NonZeroDigitsDef ==
  /\ NonZeroDigits \in [Nat -> Seq(Nat)]
  /\ \A n \in Nat :
       NonZeroDigits[n] = IF n = 0 THEN <<>>
                          ELSE IF n % 10 = 0 THEN NonZeroDigits[n \div 10]
                          ELSE Append(NonZeroDigits[n \div 10], n % 10)
<1> DEFINE B == {0}
           a == [n \in Nat |-> <<>>]
           g == [p \in Nat \X Seq(Nat) |-> IF p[1] % 10 = 0 THEN p[2]
                                        ELSE Append(p[2], p[1] % 10)]
           D(f) == [n \in Nat |-> IF n = 0 THEN <<>>
                                  ELSE IF n % 10 = 0 THEN f[n \div 10]
                                  ELSE Append(f[n \div 10], n % 10)]
<1>1. B \in SUBSET Nat /\ 0 \in B /\ a \in [Nat -> Seq(Nat)]
  OBVIOUS
<1>2. g \in [Nat \X Seq(Nat) -> Seq(Nat)]
  <2>1. \A p \in Nat \X Seq(Nat) : p[1] % 10 \in Nat /\ p[2] \in Seq(Nat)
    BY WithoutLastDigit
  <2>2. QED
    BY <2>1
<1>3. PICK f \in [Nat -> Seq(Nat)] : IsByDigit(f, Nat, B, a, g)
  <2> HIDE DEF B, a, g
  <2>1. QED
    BY <1>1, <1>2, ByDigit
<1>4. f = D(f)
  <2>1. \A n \in Nat : (n \in B <=> n = 0) /\ a[n] = <<>>
    OBVIOUS
  <2>2. \A n \in Nat : g[<<n, f[n \div 10]>>] = IF n % 10 = 0 THEN f[n \div 10]
                              ELSE Append(f[n \div 10], n % 10)
    <3> SUFFICES ASSUME NEW n \in Nat
                 PROVE  g[<<n, f[n \div 10]>>] = IF n % 10 = 0 THEN f[n \div 10]
                              ELSE Append(f[n \div 10], n % 10)
      OBVIOUS
    <3>1. n \div 10 \in Nat
      BY WithoutLastDigit
    <3>2. PICK s \in Seq(Nat) : s = f[n \div 10]
      BY <3>1
    <3>3. g[<<n, s>>] = IF n % 10 = 0 THEN s ELSE Append(s, n % 10)
      OBVIOUS
    <3>4. QED
      BY <3>2, <3>3, Zenon
  <2> HIDE DEF B, a, g
  <2>3. f = [n \in Nat |-> IF n \in B THEN a[n] ELSE g[<<n, f[n \div 10]>>]]
    BY <1>3, Zenon DEF IsByDigit
  <2>4. \A n \in Nat : f[n] = IF n \in B THEN a[n] ELSE g[<<n, f[n \div 10]>>]
    BY <2>3, Zenon
  <2>5. \A n \in Nat : f[n] = D(f)[n]
    BY <2>1, <2>2, <2>4, Zenon
  <2>6. f = [n \in Nat |-> f[n]] /\ D(f) = [n \in Nat |-> D(f)[n]]
    BY <1>3, Zenon
  <2>7. QED
    BY <2>5, <2>6, Zenon
<1>5. NonZeroDigits = D(NonZeroDigits)
  <2>1. NonZeroDigits = CHOOSE h : h = D(h)
    BY Zenon DEF NonZeroDigits
  <2>2. \E h : h = D(h)
    BY <1>4, Zenon
  <2> HIDE DEF D
  <2>3. QED
    BY <2>1, <2>2, Zenon
<1>6. \A n \in Nat :
        NonZeroDigits[n] = IF n = 0 THEN <<>>
                           ELSE IF n % 10 = 0 THEN NonZeroDigits[n \div 10]
                           ELSE Append(NonZeroDigits[n \div 10], n % 10)
  <2>1. \A n \in Nat : NonZeroDigits[n] = D(NonZeroDigits)[n]
    BY <1>5, Zenon
  <2>2. QED
    BY <2>1, Zenon
<1> DEFINE T == {n \in Nat : NonZeroDigits[n] \in Seq(Nat)}
<1>7. \A n \in Nat : n \in T
  <2>1. ASSUME NEW n \in Nat, n # 0 => n \div 10 \in T
        PROVE  n \in T
    <3>1. CASE n = 0
      <4>1. NonZeroDigits[n] = <<>>
        BY <1>6, <3>1, Zenon
      <4>2. <<>> \in Seq(Nat)
        OBVIOUS
      <4>3. QED
        BY <4>1, <4>2, Zenon
    <3>2. CASE n # 0
      <4>1. NonZeroDigits[n] = IF n % 10 = 0 THEN NonZeroDigits[n \div 10]
                               ELSE Append(NonZeroDigits[n \div 10], n % 10)
        BY <1>6, <3>2, Zenon
      <4>2. n % 10 \in Nat
        BY WithoutLastDigit
      <4>3. PICK s \in Seq(Nat) : s = NonZeroDigits[n \div 10]
        BY <2>1, <3>2
      <4>4. Append(s, n % 10) \in Seq(Nat)
        BY <4>2
      <4>5. QED
        BY <4>1, <4>3, <4>4, Zenon
    <3>3. QED
      BY <3>1, <3>2
  <2>2. T \in SUBSET Nat
    OBVIOUS
  <2> HIDE DEF T
  <2>3. QED
    BY <2>1, <2>2, DigitInduction
<1>8. NonZeroDigits \in [Nat -> Seq(Nat)]
  <2>1. NonZeroDigits = [n \in Nat |-> NonZeroDigits[n]]
    BY <1>5, Zenon
  <2>2. \A n \in Nat : NonZeroDigits[n] \in Seq(Nat)
    BY <1>7
  <2>3. QED
    BY <2>1, <2>2, Zenon
<1>9. QED
  BY <1>6, <1>8

\* The order and the digit.
LEMMA OrderNumDef ==
  /\ OrderNum \in [Nat -> [power : Nat, ret : Nat]]
  /\ \A n \in Nat :
       OrderNum[n] = IF Further(n \div 10)
                    THEN [OrderNum[n \div 10] EXCEPT !.power = 10 * @]
                    ELSE [power |-> 10, ret |-> TopDigit(n)]
<1> DEFINE S == [power : Nat, ret : Nat]
           B == {n \in Nat : ~Further(n \div 10)}
           a == [n \in Nat |-> [power |-> 10, ret |-> TopDigit(n)]]
           g == [p \in Nat \X S |-> [p[2] EXCEPT !.power = 10 * @]]
           D(f) == [n \in Nat |-> IF Further(n \div 10)
                                  THEN [f[n \div 10] EXCEPT !.power = 10 * @]
                                  ELSE [power |-> 10, ret |-> TopDigit(n)]]
<1>1. B \in SUBSET Nat /\ 0 \in B /\ a \in [Nat -> S]
  <2>1. \A n \in Nat : TopDigit(n) \in Nat
    BY DEF TopDigit
  <2>2. ~Further(0 \div 10)
    BY DEF Further
  <2>3. QED
    BY <2>1, <2>2
<1>2. \A r \in S : [r EXCEPT !.power = 10 * @] \in S
  OBVIOUS
<1>3. g \in [Nat \X S -> S]
  <2>1. \A p \in Nat \X S : p[2] \in S
    OBVIOUS
  <2> HIDE DEF S
  <2>2. QED
    BY <1>2, <2>1
<1>4. PICK f \in [Nat -> S] : IsByDigit(f, Nat, B, a, g)
  <2> HIDE DEF S, B, a, g
  <2>1. QED
    BY <1>1, <1>3, ByDigit
<1>5. f = D(f)
  <2>1. \A n \in Nat : (n \in B <=> ~Further(n \div 10)) /\ a[n] = [power |-> 10, ret |-> TopDigit(n)]
    OBVIOUS
  <2>2. \A n \in Nat : g[<<n, f[n \div 10]>>] = [f[n \div 10] EXCEPT !.power = 10 * @]
    <3> SUFFICES ASSUME NEW n \in Nat
                 PROVE  g[<<n, f[n \div 10]>>] = [f[n \div 10] EXCEPT !.power = 10 * @]
      OBVIOUS
    <3>1. n \div 10 \in Nat
      BY WithoutLastDigit
    <3>2. PICK s \in S : s = f[n \div 10]
      BY <3>1
    <3>3. g[<<n, s>>] = [s EXCEPT !.power = 10 * @]
      OBVIOUS
    <3>4. QED
      BY <3>2, <3>3, Zenon
  <2> HIDE DEF B, a, g
  <2>3. f = [n \in Nat |-> IF n \in B THEN a[n] ELSE g[<<n, f[n \div 10]>>]]
    BY <1>4, Zenon DEF IsByDigit
  <2>4. \A n \in Nat : f[n] = IF n \in B THEN a[n] ELSE g[<<n, f[n \div 10]>>]
    BY <2>3, Zenon
  <2>5. \A n \in Nat : f[n] = D(f)[n]
    BY <2>1, <2>2, <2>4, Zenon
  <2>6. f = [n \in Nat |-> f[n]] /\ D(f) = [n \in Nat |-> D(f)[n]]
    BY <1>4, Zenon
  <2>7. QED
    BY <2>5, <2>6, Zenon
<1>6. OrderNum = D(OrderNum)
  <2>1. OrderNum = CHOOSE h : h = D(h)
    BY Zenon DEF OrderNum
  <2>2. \E h : h = D(h)
    BY <1>5, Zenon
  <2> HIDE DEF D
  <2>3. QED
    BY <2>1, <2>2, Zenon
<1>7. \A n \in Nat :
        OrderNum[n] = IF Further(n \div 10)
                     THEN [OrderNum[n \div 10] EXCEPT !.power = 10 * @]
                     ELSE [power |-> 10, ret |-> TopDigit(n)]
  <2>1. \A n \in Nat : OrderNum[n] = D(OrderNum)[n]
    BY <1>6, Zenon
  <2>2. QED
    BY <2>1, Zenon
<1> DEFINE T == {n \in Nat : OrderNum[n] \in S}
<1>8. \A n \in Nat : n \in T
  <2>1. ASSUME NEW n \in Nat, n # 0 => n \div 10 \in T
        PROVE  n \in T
    <3>1. CASE ~Further(n \div 10)
      <4>1. OrderNum[n] = [power |-> 10, ret |-> TopDigit(n)]
        BY <1>7, <3>1, Zenon
      <4>2. TopDigit(n) \in Nat
        BY DEF TopDigit
      <4>3. [power |-> 10, ret |-> TopDigit(n)] \in S
        BY <4>2
      <4>4. QED
        BY <4>1, <4>3, Zenon
    <3>2. CASE Further(n \div 10)
      <4>1. OrderNum[n] = [OrderNum[n \div 10] EXCEPT !.power = 10 * @]
        BY <1>7, <3>2, Zenon
      <4>2. n # 0
        BY <3>2 DEF Further
      <4>3. PICK s \in S : s = OrderNum[n \div 10]
        BY <2>1, <4>2
      <4>4. [s EXCEPT !.power = 10 * @] \in S
        BY <1>2, <4>3, Zenon
      <4>5. QED
        BY <4>1, <4>3, <4>4, Zenon
    <3>3. QED
      BY <3>1, <3>2
  <2>2. T \in SUBSET Nat
    OBVIOUS
  <2> HIDE DEF T
  <2>3. QED
    BY <2>1, <2>2, DigitInduction
<1>9. OrderNum \in [Nat -> S]
  <2>1. OrderNum = [n \in Nat |-> OrderNum[n]]
    BY <1>6, Zenon
  <2>2. \A n \in Nat : OrderNum[n] \in S
    BY <1>8
  <2>3. QED
    BY <2>1, <2>2, Zenon
<1>10. QED
  BY <1>7, <1>9

\* The power of ten and the digit that _get_order_num finds.
Power(v) == OrderNum[v].power
Ret(v)   == OrderNum[v].ret

\* It looks at the number without its last digit while that is more than ten.
LEMMA OrderFields ==
  ASSUME NEW v \in Nat
  PROVE  /\ Power(v) \in Nat /\ Ret(v) \in Nat
         /\ v \div 10 > 10 => /\ Power(v) = 10 * Power(v \div 10)
                              /\ Ret(v) = Ret(v \div 10)
         /\ ~(v \div 10 > 10) => /\ Power(v) = 10
                                 /\ Ret(v) = (v \div 10) % 10
<1> DEFINE w == v \div 10
<1>1. w \in Nat
  BY WithoutLastDigit
<1>2. PICK r \in [power : Nat, ret : Nat] : r = OrderNum[v]
  BY OrderNumDef
<1>3. PICK s \in [power : Nat, ret : Nat] : s = OrderNum[w]
  BY <1>1, OrderNumDef
<1> HIDE DEF w
<1>4. w > 10 => r = [s EXCEPT !.power = 10 * @]
  BY <1>2, <1>3, OrderNumDef, Zenon DEF Further, w
<1>5. ~(w > 10) => r = [power |-> 10, ret |-> w % 10]
  BY <1>2, OrderNumDef, Zenon DEF Further, TopDigit, w
<1>6. /\ w > 10 => r.power = 10 * s.power /\ r.ret = s.ret
      /\ ~(w > 10) => r.power = 10 /\ r.ret = w % 10
  BY <1>4, <1>5
<1>7. r.power = Power(v) /\ r.ret = Ret(v) /\ s.power = Power(w) /\ s.ret = Ret(w)
  BY <1>2, <1>3, Zenon DEF Power, Ret
<1>8. r.power \in Nat /\ r.ret \in Nat
  OBVIOUS
<1>9. QED
  BY <1>6, <1>7, <1>8, Zenon DEF w

\* What is left of v once its top digit, as _get_order_num sees it, is stripped.
Stripped(v) == v - Ret(v) * Power(v)

\* The digit is stripped from the number without its last digit, down to two
\* digits; a number that is ten there is left as it is.
LEMMA StripStep ==
  ASSUME NEW v \in Nat, v >= 10
  PROVE  /\ v \div 10 > 10 => /\ Ret(v) = Ret(v \div 10)
                              /\ Stripped(v) = 10 * Stripped(v \div 10) + (v % 10)
         /\ v \div 10 < 10 => Ret(v) = v \div 10 /\ Stripped(v) = v % 10
         /\ v \div 10 = 10 => Ret(v) = 0 /\ Stripped(v) = v
<1> DEFINE w == v \div 10
<1>1. w \in Nat /\ w # 0 /\ v % 10 \in Nat /\ v = 10 * w + (v % 10)
  BY WithoutLastDigit
<1>2. PICK p, r \in Nat : p = Power(w) /\ r = Ret(w)
  BY <1>1, OrderFields
<1> HIDE DEF w
<1>3. CASE w > 10
  <2>1. Power(v) = 10 * p /\ Ret(v) = r
    BY <1>2, <1>3, OrderFields, Zenon DEF w
  <2>2. r * (10 * p) = 10 * (r * p)
    OBVIOUS
  <2>3. PICK x \in Nat : x = r * p
    OBVIOUS
  <2>4. Stripped(v) = v - 10 * x
    BY <2>1, <2>2, <2>3, Zenon DEF Stripped
  <2>5. Stripped(w) = w - x
    BY <1>2, <2>3, Zenon DEF Stripped
  <2>6. v - 10 * x = 10 * (w - x) + (v % 10)
    BY <1>1
  <2>7. Stripped(v) = 10 * Stripped(w) + (v % 10)
    BY <2>4, <2>5, <2>6, Zenon
  <2>8. QED
    BY <1>2, <1>3, <2>1, <2>7 DEF w
<1>4. CASE ~(w > 10)
  <2>1. Power(v) = 10 /\ Ret(v) = w % 10
    BY <1>4, OrderFields, Zenon DEF w
  <2>2. Stripped(v) = v - (w % 10) * 10
    BY <2>1 DEF Stripped
  <2>3. w % 10 = IF w = 10 THEN 0 ELSE w
    BY <1>1, <1>4
  <2>4. (w < 10 => v - (w % 10) * 10 = v % 10) /\ (w = 10 => v - (w % 10) * 10 = v)
    BY <1>1, <2>3
  <2>5. /\ w < 10 => Ret(v) = w /\ Stripped(v) = v % 10
        /\ w = 10 => Ret(v) = 0 /\ Stripped(v) = v
    BY <1>1, <2>1, <2>2, <2>3, <2>4
  <2>6. QED
    BY <1>1, <1>4, <2>5 DEF w
<1>5. QED
  BY <1>3, <1>4

\* A number of at least two digits loses a digit, and keeps its last one.
LEMMA StrippedType ==
  \A v \in Nat : v >= 10 => /\ Ret(v) \in 0..9 /\ Stripped(v) \in Nat
                            /\ Stripped(v) % 10 = v % 10
<1> DEFINE P(v) == v >= 10 => /\ Ret(v) \in 0..9 /\ Stripped(v) \in Nat
                              /\ Stripped(v) % 10 = v % 10
           T == {v \in Nat : P(v)}
<1>1. ASSUME NEW v \in Nat, v # 0 => v \div 10 \in T
      PROVE  P(v)
  <2> SUFFICES ASSUME v >= 10
               PROVE  /\ Ret(v) \in 0..9 /\ Stripped(v) \in Nat
                      /\ Stripped(v) % 10 = v % 10
    OBVIOUS
  <2> DEFINE w == v \div 10
             d == v % 10
  <2>1. w \in Nat /\ w # 0 /\ d \in 0..9 /\ w \in T
    BY <1>1, WithoutLastDigit
  <2>2. P(w)
    BY <2>1, Zenon
  <2> HIDE DEF w, d, T
  <2>3. /\ w > 10 => Ret(v) = Ret(w) /\ Stripped(v) = 10 * Stripped(w) + d
        /\ w < 10 => Ret(v) = w /\ Stripped(v) = d
        /\ w = 10 => Ret(v) = 0 /\ Stripped(v) = v
    BY StripStep DEF w, d
  <2>4. CASE w > 10
    <3>1. Ret(w) \in 0..9 /\ Stripped(w) \in Nat
      BY <2>1, <2>2, <2>4
    <3>2. PICK s \in Nat : s = Stripped(w)
      BY <3>1
    <3>3. 10 * s + d \in Nat /\ (10 * s + d) % 10 = d
      BY <2>1
    <3>4. Stripped(v) = 10 * s + d /\ Ret(v) \in 0..9
      BY <2>3, <2>4, <3>1, <3>2
    <3>5. QED
      BY <3>3, <3>4 DEF d
  <2>5. CASE w <= 10
    <3>1. d % 10 = d
      BY <2>1
    <3>2. Ret(v) \in 0..9 /\ (Stripped(v) = d \/ Stripped(v) = v)
      BY <2>1, <2>3, <2>5
    <3>3. QED
      BY <2>1, <3>1, <3>2 DEF d
  <2>6. QED
    BY <2>1, <2>4, <2>5
<1>2. T \in SUBSET Nat /\ (\A v \in Nat : v \in T <=> P(v))
  OBVIOUS
<1> HIDE DEF T
<1>3. \A v \in Nat : v \in T
  BY <1>1, <1>2, DigitInduction
<1>4. QED
  BY <1>2, <1>3

\* The last digit of a number, and those before it.
LEMMA DecimalEnd ==
  ASSUME NEW n \in Nat
  PROVE  /\ Len(Decimal[n]) \in Nat /\ Len(Decimal[n]) >= 1
         /\ Decimal[n][Len(Decimal[n])] = n % 10
         /\ n < 10 => Decimal[n] = <<n>>
         /\ n >= 10 => Decimal[n] = Append(Decimal[n \div 10], n % 10)
<1>1. CASE n < 10
  <2>1. Decimal[n] = <<n>>
    BY <1>1, DecimalDef, Zenon
  <2>2. Len(<<n>>) = 1 /\ <<n>>[1] = n /\ n % 10 = n
    BY <1>1
  <2>3. QED
    BY <1>1, <2>1, <2>2
<1>2. CASE n >= 10
  <2>1. ~(n < 10) /\ n \div 10 \in Nat /\ n % 10 \in Nat
    BY <1>2, WithoutLastDigit
  <2>2. Decimal[n] = Append(Decimal[n \div 10], n % 10)
    BY <2>1, DecimalDef, Zenon
  <2>3. PICK s \in Seq(Nat) : s = Decimal[n \div 10]
    BY <2>1, DecimalDef
  <2>4. PICK e \in Nat : e = n % 10
    BY <2>1
  <2>5. /\ Len(Append(s, e)) = Len(s) + 1 /\ Append(s, e)[Len(s) + 1] = e
        /\ Len(s) \in Nat
    OBVIOUS
  <2>6. Decimal[n] = Append(s, e)
    BY <2>2, <2>3, <2>4, Zenon
  <2>7. /\ Len(Decimal[n]) = Len(s) + 1
        /\ Decimal[n][Len(s) + 1] = e
    BY <2>5, <2>6, Zenon
  <2>8. QED
    BY <2>1, <2>2, <2>4, <2>5, <2>7
<1>3. QED
  BY <1>1, <1>2

\* 1, 0 at the end of a number.
EndsWithTen(n) == n % 10 = 0 /\ (n \div 10) % 10 = 1

\* 1, 0 inside a number is 1, 0 at the end of the number without its last digit
\* or inside it.
LEMMA TenInside ==
  ASSUME NEW n \in Nat
  PROVE  /\ n < 10 => ~HasTenInside(n)
         /\ n >= 10 => (HasTenInside(n) <=> \/ EndsWithTen(n \div 10)
                                            \/ HasTenInside(n \div 10))
<1>1. CASE n < 10
  <2>1. Decimal[n] = <<n>>
    BY <1>1, DecimalEnd
  <2>2. Len(Decimal[n]) = 1
    BY <2>1
  <2>3. 1..(1 - 2) = {}
    OBVIOUS
  <2>4. ~HasTenInside(n)
    BY <2>2, <2>3 DEF HasTenInside
  <2>5. QED
    BY <1>1, <2>4
<1>2. CASE n >= 10
  <2> DEFINE w == n \div 10
             u == w \div 10
  <2>1. w \in Nat /\ w # 0 /\ n % 10 \in Nat /\ u \in Nat
    BY <1>2, WithoutLastDigit
  <2>2. PICK s \in Seq(Nat) : s = Decimal[w]
    BY <2>1, DecimalDef
  <2>3. PICK e \in Nat : e = n % 10
    BY <2>1
  <2>4. PICK t \in Seq(Nat) : t = Decimal[u]
    BY <2>1, DecimalDef
  <2> HIDE DEF w, u
  <2>5. Decimal[n] = Append(s, e)
    BY <1>2, <2>2, <2>3, DecimalEnd, Zenon DEF w
  <2>6. /\ Len(s) \in Nat /\ Len(s) >= 1 /\ s[Len(s)] = w % 10
        /\ w < 10 => s = <<w>>
        /\ w >= 10 => s = Append(t, w % 10)
    BY <2>1, <2>2, <2>4, DecimalEnd DEF u
  <2>7. Len(t) \in Nat /\ Len(t) >= 1 /\ t[Len(t)] = u % 10
    BY <2>1, <2>4, DecimalEnd
  <2>8. /\ Len(Append(s, e)) = Len(s) + 1
        /\ \A i \in 1..Len(s) : Append(s, e)[i] = s[i]
    OBVIOUS
  <2>9. HasTenInside(n) <=> \E i \in 1..(Len(s) - 1) : s[i] = 1 /\ s[i + 1] = 0
    <3>1. HasTenInside(n) <=> \E i \in 1..(Len(Append(s, e)) - 2) :
                                Append(s, e)[i] = 1 /\ Append(s, e)[i + 1] = 0
      BY <2>5, Zenon DEF HasTenInside
    <3>2. Len(Append(s, e)) - 2 = Len(s) - 1
      BY <2>6, <2>8
    <3>3. \A i \in 1..(Len(s) - 1) :
            Append(s, e)[i] = s[i] /\ Append(s, e)[i + 1] = s[i + 1]
      BY <2>6, <2>8
    <3>4. QED
      BY <3>1, <3>2, <3>3, Zenon
  <2>10. HasTenInside(w) <=> \E i \in 1..(Len(s) - 2) : s[i] = 1 /\ s[i + 1] = 0
    BY <2>2, Zenon DEF HasTenInside
  <2>11. EndsWithTen(w) <=> Len(s) >= 2 /\ s[Len(s) - 1] = 1 /\ s[Len(s)] = 0
    <3>1. CASE w < 10
      <4>1. u % 10 = 0
        BY <2>1, <3>1 DEF u
      <4>2. Len(s) = 1
        BY <2>6, <3>1
      <4>3. QED
        BY <4>1, <4>2 DEF EndsWithTen, u
    <3>2. CASE w >= 10
      <4>1. PICK f \in Nat : f = w % 10
        BY <2>1, WithoutLastDigit
      <4>2. Len(Append(t, f)) = Len(t) + 1 /\ Append(t, f)[Len(t)] = t[Len(t)]
        BY <2>7
      <4>3. s = Append(t, f)
        BY <2>6, <3>2, <4>1
      <4>4. Len(s) = Len(t) + 1 /\ s[Len(t)] = u % 10
        BY <2>7, <4>2, <4>3, Zenon
      <4>5. Len(s) - 1 = Len(t) /\ Len(s) >= 2
        BY <2>7, <4>4
      <4>6. s[Len(s) - 1] = u % 10
        BY <4>4, <4>5, Zenon
      <4>7. QED
        BY <2>6, <4>5, <4>6, Zenon DEF EndsWithTen, u
    <3>3. QED
      BY <2>1, <3>1, <3>2
  <2>12. (\E i \in 1..(Len(s) - 1) : s[i] = 1 /\ s[i + 1] = 0)
           <=> \/ Len(s) >= 2 /\ s[Len(s) - 1] = 1 /\ s[Len(s)] = 0
               \/ \E i \in 1..(Len(s) - 2) : s[i] = 1 /\ s[i + 1] = 0
    <3>1. \A i \in 1..(Len(s) - 1) : i \in 1..(Len(s) - 2) \/ i = Len(s) - 1
      BY <2>6
    <3>2. /\ \A i \in 1..(Len(s) - 2) : i \in 1..(Len(s) - 1)
          /\ Len(s) >= 2 => Len(s) - 1 \in 1..(Len(s) - 1)
          /\ (Len(s) - 1) + 1 = Len(s)
          /\ \A i \in 1..(Len(s) - 1) : i = Len(s) - 1 => Len(s) >= 2
      BY <2>6
    <3>3. QED
      BY <3>1, <3>2, Zenon
  <2>13. HasTenInside(n) <=> EndsWithTen(w) \/ HasTenInside(w)
    BY <2>9, <2>10, <2>11, <2>12, Zenon
  <2>14. QED
    BY <1>2, <2>13 DEF w
<1>3. QED
  BY <1>1, <1>2

\* Where _get_order_num finds a zero the number has 1, 0 inside, and nothing is
\* stripped.
LEMMA ZeroTop ==
  \A v \in Nat : v >= 10 /\ Ret(v) = 0 => HasTenInside(v) /\ Stripped(v) = v
<1> DEFINE P(v) == v >= 10 /\ Ret(v) = 0 => HasTenInside(v)
           T == {v \in Nat : P(v)}
<1>1. ASSUME NEW v \in Nat, v # 0 => v \div 10 \in T
      PROVE  P(v)
  <2> SUFFICES ASSUME v >= 10, Ret(v) = 0
               PROVE  HasTenInside(v)
    OBVIOUS
  <2> DEFINE w == v \div 10
  <2>1. w \in Nat /\ w # 0 /\ w \in T
    BY <1>1, WithoutLastDigit
  <2>2. P(w)
    BY <2>1, Zenon
  <2> HIDE DEF w, T
  <2>3. /\ w > 10 => Ret(v) = Ret(w)
        /\ w < 10 => Ret(v) = w
    BY StripStep DEF w
  <2>4. HasTenInside(v) <=> EndsWithTen(w) \/ HasTenInside(w)
    BY TenInside DEF w
  <2>5. w = 10 => EndsWithTen(w)
    BY DEF EndsWithTen
  <2>6. w > 10 => HasTenInside(w)
    BY <2>1, <2>2, <2>3
  <2>7. QED
    BY <2>1, <2>3, <2>4, <2>5, <2>6
<1>2. T \in SUBSET Nat /\ (\A v \in Nat : v \in T <=> P(v))
  OBVIOUS
<1> HIDE DEF T
<1>3. \A v \in Nat : v \in T
  BY <1>1, <1>2, DigitInduction
<1>4. \A v \in Nat : Ret(v) = 0 => Stripped(v) = v
  <2> SUFFICES ASSUME NEW v \in Nat, Ret(v) = 0 PROVE Stripped(v) = v
    OBVIOUS
  <2>1. PICK p \in Nat : p = Power(v)
    BY OrderFields
  <2>2. v - 0 * p = v
    OBVIOUS
  <2>3. QED
    BY <2>1, <2>2 DEF Stripped
<1>5. QED
  BY <1>2, <1>3, <1>4

\* Without its top digit a number above ten ends with 1, 0 as it did.
LEMMA StrippedEnd ==
  ASSUME NEW w \in Nat, w > 10, Ret(w) # 0
  PROVE  EndsWithTen(w) <=> EndsWithTen(Stripped(w))
<1> DEFINE u == w \div 10
           d == w % 10
<1>1. u \in Nat /\ u # 0 /\ d \in 0..9 /\ w = 10 * u + d
  BY WithoutLastDigit
<1>2. Stripped(w) \in Nat /\ Stripped(w) % 10 = d
  BY StrippedType
<1>3. /\ u > 10 => Stripped(w) = 10 * Stripped(u) + d
      /\ u < 10 => Stripped(w) = d /\ Ret(w) = u
      /\ u = 10 => Ret(w) = 0
  BY StripStep
<1>4. EndsWithTen(w) <=> d = 0 /\ u % 10 = 1
  BY DEF EndsWithTen
<1> HIDE DEF u, d
<1>5. EndsWithTen(Stripped(w)) <=> d = 0 /\ (Stripped(w) \div 10) % 10 = 1
  BY <1>2 DEF EndsWithTen
<1>6. CASE u > 10
  <2>1. Stripped(u) \in Nat /\ Stripped(u) % 10 = u % 10
    BY <1>1, <1>6, StrippedType
  <2>2. PICK s \in Nat : s = Stripped(u)
    BY <2>1
  <2>3. (10 * s + d) \div 10 = s
    BY <1>1
  <2>4. Stripped(w) \div 10 = s
    BY <1>3, <1>6, <2>2, <2>3
  <2>5. QED
    BY <1>4, <1>5, <2>1, <2>2, <2>4
<1>7. CASE u < 10
  <2>1. d \div 10 = 0 /\ 0 % 10 = 0
    BY <1>1
  <2>2. ~ EndsWithTen(Stripped(w))
    BY <1>3, <1>5, <1>7, <2>1
  <2>3. ~(d = 0 /\ u = 1) /\ u % 10 = u
    BY <1>1, <1>7
  <2>4. QED
    BY <1>4, <2>2, <2>3
<1>8. QED
  BY <1>1, <1>3, <1>6, <1>7

\* Stripping neither adds nor removes a 1, 0 inside the number.
LEMMA StrippedTen ==
  \A v \in Nat : v >= 10 => (HasTenInside(v) <=> HasTenInside(Stripped(v)))
<1> DEFINE P(v) == v >= 10 /\ Ret(v) # 0 =>
                     (HasTenInside(v) <=> HasTenInside(Stripped(v)))
           T == {v \in Nat : P(v)}
<1>1. ASSUME NEW v \in Nat, v # 0 => v \div 10 \in T
      PROVE  P(v)
  <2> SUFFICES ASSUME v >= 10, Ret(v) # 0
               PROVE  HasTenInside(v) <=> HasTenInside(Stripped(v))
    OBVIOUS
  <2> DEFINE w == v \div 10
             d == v % 10
  <2>1. w \in Nat /\ w # 0 /\ d \in 0..9 /\ w \in T
    BY <1>1, WithoutLastDigit
  <2>2. P(w)
    BY <2>1, Zenon
  <2>3. Stripped(v) \in Nat
    BY StrippedType
  <2> HIDE DEF w, d, T
  <2>4. /\ w > 10 => Ret(v) = Ret(w) /\ Stripped(v) = 10 * Stripped(w) + d
        /\ w < 10 => Stripped(v) = d
        /\ w = 10 => Ret(v) = 0
    BY StripStep DEF w, d
  <2>5. HasTenInside(v) <=> EndsWithTen(w) \/ HasTenInside(w)
    BY TenInside DEF w
  <2>6. CASE w < 10
    <3>1. ~ HasTenInside(w) /\ ~ HasTenInside(d)
      BY <2>1, <2>6, TenInside
    <3>2. w \div 10 = 0 /\ 0 % 10 = 0
      BY <2>1, <2>6
    <3>3. ~ EndsWithTen(w)
      BY <3>2 DEF EndsWithTen
    <3>4. QED
      BY <2>4, <2>5, <2>6, <3>1, <3>3, Zenon
  <2>7. CASE w > 10
    <3>1. Ret(w) # 0 /\ Stripped(w) \in Nat
      BY <2>1, <2>4, <2>7, StrippedType
    <3>2. EndsWithTen(w) <=> EndsWithTen(Stripped(w))
      BY <2>1, <2>7, <3>1, StrippedEnd
    <3>3. HasTenInside(w) <=> HasTenInside(Stripped(w))
      BY <2>1, <2>2, <2>7, <3>1
    <3>4. PICK s \in Nat : s = Stripped(w)
      BY <3>1
    <3>5. Stripped(v) = 10 * s + d
      BY <2>4, <2>7, <3>4
    <3>6. (10 * s + d) \div 10 = s
      BY <2>1
    <3>7. HasTenInside(Stripped(v)) <=> EndsWithTen(s) \/ HasTenInside(s)
      <4>1. CASE s = 0
        <5>1. Stripped(v) < 10 /\ s < 10 /\ s \div 10 = 0 /\ 0 % 10 = 0
          BY <2>1, <3>5, <4>1
        <5>2. ~ HasTenInside(Stripped(v)) /\ ~ HasTenInside(s)
          BY <2>3, <5>1, TenInside
        <5>3. ~ EndsWithTen(s)
          BY <5>1 DEF EndsWithTen
        <5>4. QED
          BY <5>2, <5>3
      <4>2. CASE s # 0
        <5>1. Stripped(v) >= 10 /\ Stripped(v) \div 10 = s
          BY <2>1, <3>5, <3>6, <4>2
        <5>2. QED
          BY <2>3, <5>1, TenInside
      <4>3. QED
        BY <4>1, <4>2
    <3>8. QED
      BY <2>5, <3>2, <3>3, <3>4, <3>7, Zenon
  <2>8. QED
    BY <2>1, <2>4, <2>6, <2>7
<1>2. T \in SUBSET Nat /\ (\A v \in Nat : v \in T <=> P(v))
  OBVIOUS
<1> HIDE DEF T
<1>3. \A v \in Nat : v \in T
  BY <1>1, <1>2, DigitInduction
<1>4. \A v \in Nat : v >= 10 /\ Ret(v) = 0 => Stripped(v) = v
  BY ZeroTop
<1>5. QED
  BY <1>2, <1>3, <1>4, Zenon

\* A digit behind a number is one of its digits when it is not zero.
LEMMA NonZeroStep ==
  ASSUME NEW b \in Nat, NEW d \in 0..9
  PROVE  /\ NonZeroDigits[0] = <<>>
         /\ NonZeroDigits[10 * b + d] = IF d = 0 THEN NonZeroDigits[b]
                                        ELSE Append(NonZeroDigits[b], d)
<1> DEFINE n == 10 * b + d
<1>1. n \in Nat /\ n \div 10 = b /\ n % 10 = d
  OBVIOUS
<1>2. NonZeroDigits[0] = <<>>
  BY NonZeroDigitsDef
<1> HIDE DEF n
<1>3. NonZeroDigits[n] = IF n = 0 THEN <<>>
                         ELSE IF n % 10 = 0 THEN NonZeroDigits[n \div 10]
                         ELSE Append(NonZeroDigits[n \div 10], n % 10)
  BY <1>1, NonZeroDigitsDef, Zenon
<1>4. n = 0 => b = 0 /\ d = 0
  BY DEF n
<1>5. NonZeroDigits[n] = IF d = 0 THEN NonZeroDigits[b]
                         ELSE Append(NonZeroDigits[b], d)
  BY <1>1, <1>2, <1>3, <1>4, Zenon
<1>6. QED
  BY <1>2, <1>5, Zenon DEF n

\* The digit _get_order_num finds, if it is not zero, is the first of the digits
\* that are not zero.
LEMMA NonZeroTop ==
  \A v \in Nat : v >= 10 /\ Ret(v) # 0 =>
    NonZeroDigits[v] = <<Ret(v)>> \o NonZeroDigits[Stripped(v)]
<1> DEFINE P(v) == v >= 10 /\ Ret(v) # 0 =>
                     NonZeroDigits[v] = <<Ret(v)>> \o NonZeroDigits[Stripped(v)]
           T == {v \in Nat : P(v)}
<1>1. ASSUME NEW v \in Nat, v # 0 => v \div 10 \in T
      PROVE  P(v)
  <2> SUFFICES ASSUME v >= 10, Ret(v) # 0
               PROVE  NonZeroDigits[v] = <<Ret(v)>> \o NonZeroDigits[Stripped(v)]
    OBVIOUS
  <2> DEFINE w == v \div 10
             d == v % 10
  <2>1. w \in Nat /\ w # 0 /\ d \in 0..9 /\ v = 10 * w + d /\ w \in T
    BY <1>1, WithoutLastDigit
  <2>2. P(w)
    BY <2>1, Zenon
  <2>3. PICK r \in Nat : r = Ret(v)
    BY OrderFields
  <2> HIDE DEF w, d, T
  <2>4. /\ w > 10 => Ret(v) = Ret(w) /\ Stripped(v) = 10 * Stripped(w) + d
        /\ w < 10 => Ret(v) = w /\ Stripped(v) = d
        /\ w = 10 => Ret(v) = 0
    BY StripStep DEF w, d
  <2>5. NonZeroDigits[v] = IF d = 0 THEN NonZeroDigits[w]
                           ELSE Append(NonZeroDigits[w], d)
    BY <2>1, NonZeroStep, Zenon
  \* What is left has the same last digit: q is what it has before it.
  <2>6. ASSUME NEW q \in Nat, Stripped(v) = 10 * q + d,
               NonZeroDigits[w] = <<r>> \o NonZeroDigits[q]
        PROVE  NonZeroDigits[v] = <<r>> \o NonZeroDigits[Stripped(v)]
    <3>1. NonZeroDigits[Stripped(v)] = IF d = 0 THEN NonZeroDigits[q]
                                       ELSE Append(NonZeroDigits[q], d)
      BY <2>1, <2>6, NonZeroStep, Zenon
    <3>2. PICK s \in Seq(Nat) : s = NonZeroDigits[q]
      BY NonZeroDigitsDef
    <3>3. Append(<<r>> \o s, d) = <<r>> \o Append(s, d)
      BY <2>1
    <3>4. QED
      BY <2>5, <2>6, <3>1, <3>2, <3>3, Zenon
  <2>7. CASE w < 10
    <3>1. Stripped(v) = 10 * 0 + d /\ r = w
      BY <2>1, <2>3, <2>4, <2>7
    <3>2. NonZeroDigits[w] = Append(NonZeroDigits[0], w)
      <4>1. w \in 0..9 /\ w = 10 * 0 + w
        BY <2>1, <2>7
      <4>2. QED
        BY <2>1, <4>1, NonZeroStep, Zenon
    <3>3. NonZeroDigits[0] = <<>>
      BY NonZeroDigitsDef
    <3>4. Append(<<>>, w) = <<w>> \o <<>>
      BY <2>1
    <3>5. NonZeroDigits[w] = <<r>> \o NonZeroDigits[0]
      BY <3>1, <3>2, <3>3, <3>4, Zenon
    <3>6. QED
      BY <2>3, <2>6, <3>1, <3>5
  <2>8. CASE w > 10
    <3>1. Stripped(w) \in Nat
      BY <2>1, <2>8, StrippedType
    <3>2. NonZeroDigits[w] = <<r>> \o NonZeroDigits[Stripped(w)]
      BY <2>1, <2>2, <2>3, <2>4, <2>8
    <3>3. QED
      BY <2>3, <2>4, <2>6, <2>8, <3>1, <3>2
  <2>9. QED
    BY <2>1, <2>4, <2>7, <2>8
<1>2. T \in SUBSET Nat /\ (\A v \in Nat : v \in T <=> P(v))
  OBVIOUS
<1> HIDE DEF T
<1>3. \A v \in Nat : v \in T
  BY <1>1, <1>2, DigitInduction
<1>4. QED
  BY <1>2, <1>3

\* What itoa renders a number as: its digits without the zeros before the last.
Rendered(n) == Append(NonZeroDigits[n \div 10], n % 10)

\* A step of the loop writes the first digit of what is rendered, and leaves
\* the others.
LEMMA RenderedTop ==
  ASSUME NEW v \in Nat, v >= 10, Ret(v) # 0
  PROVE  Rendered(v) = <<Ret(v)>> \o Rendered(Stripped(v))
<1> DEFINE w == v \div 10
           d == v % 10
<1>1. w \in Nat /\ w # 0 /\ d \in 0..9
  BY WithoutLastDigit
<1>2. PICK r \in Nat : r = Ret(v)
  BY OrderFields
<1>3. Rendered(v) = Append(NonZeroDigits[w], d)
  BY Zenon DEF Rendered
<1>4. PICK q \in Nat : q = Stripped(v) \div 10
  BY StrippedType, WithoutLastDigit
<1>5. Rendered(Stripped(v)) = Append(NonZeroDigits[q], d)
  BY <1>4, StrippedType DEF Rendered
<1>6. /\ w > 10 => Ret(v) = Ret(w) /\ Stripped(v) = 10 * Stripped(w) + d
      /\ w < 10 => Ret(v) = w /\ Stripped(v) = d
      /\ w = 10 => Ret(v) = 0
  BY StripStep
<1> HIDE DEF w, d
<1>7. NonZeroDigits[w] = <<r>> \o NonZeroDigits[q]
  <2>1. CASE w > 10
    <3>1. Stripped(w) \in Nat
      BY <1>1, <2>1, StrippedType
    <3>2. PICK s \in Nat : s = Stripped(w)
      BY <3>1
    <3>3. (10 * s + d) \div 10 = s
      BY <1>1
    <3>4. q = s
      BY <1>4, <1>6, <2>1, <3>2, <3>3
    <3>5. Ret(w) = r /\ w >= 10 /\ Ret(w) # 0
      BY <1>1, <1>2, <1>6, <2>1
    <3>6. QED
      BY <1>1, <3>2, <3>4, <3>5, NonZeroTop, Zenon
  <2>2. CASE w < 10
    <3>1. q = 0 /\ r = w
      BY <1>1, <1>2, <1>4, <1>6, <2>2
    <3>2. w \in 0..9 /\ w = 10 * 0 + w
      BY <1>1, <2>2
    <3>3. NonZeroDigits[w] = Append(NonZeroDigits[0], w) /\ NonZeroDigits[0] = <<>>
      BY <1>1, <3>2, NonZeroStep, Zenon
    <3>4. Append(<<>>, w) = <<w>> \o <<>>
      BY <1>1
    <3>5. QED
      BY <3>1, <3>3, <3>4, Zenon
  <2>3. QED
    BY <1>1, <1>6, <2>1, <2>2
<1>8. PICK s \in Seq(Nat) : s = NonZeroDigits[q]
  BY NonZeroDigitsDef
<1>9. Append(<<r>> \o s, d) = <<r>> \o Append(s, d)
  BY <1>1
<1>10. QED
  BY <1>2, <1>3, <1>5, <1>7, <1>8, <1>9, Zenon

\* A number has no fewer digits than it is rendered as.
LEMMA RenderedFits ==
  ASSUME NEW n \in Nat
  PROVE  /\ Rendered(n) \in Seq(Nat)
         /\ Len(Rendered(n)) >= 1 /\ Len(Rendered(n)) <= Len(Decimal[n])
<1> DEFINE T == {v \in Nat : Len(NonZeroDigits[v]) <= Len(Decimal[v])}
<1>1. ASSUME NEW v \in Nat, v # 0 => v \div 10 \in T
      PROVE  v \in T
  <2> DEFINE w == v \div 10
             d == v % 10
  <2>1. w \in Nat /\ d \in 0..9 /\ v = 10 * w + d
    BY WithoutLastDigit
  <2>2. PICK s \in Seq(Nat) : s = NonZeroDigits[w]
    BY <2>1, NonZeroDigitsDef
  <2>3. PICK t \in Seq(Nat) : t = Decimal[w]
    BY <2>1, DecimalDef
  <2>4. v >= 10 => Len(s) <= Len(t)
    BY <1>1, <2>2, <2>3
  <2> HIDE DEF w, d, T
  <2>5. NonZeroDigits[v] = IF d = 0 THEN s ELSE Append(s, d)
    BY <2>1, <2>2, NonZeroStep, Zenon
  <2>6. Len(s) \in Nat /\ Len(t) \in Nat /\ Len(Append(s, d)) = Len(s) + 1
        /\ Len(Append(t, d)) = Len(t) + 1
    BY <2>1
  <2>7. CASE v < 10
    <3>1. w = 0
      BY <2>7 DEF w
    <3>2. s = <<>>
      BY <2>2, <3>1, NonZeroDigitsDef
    <3>3. Len(Decimal[v]) >= 1 /\ Len(Decimal[v]) \in Nat
      BY DecimalEnd
    <3>4. Len(s) = 0
      BY <3>2
    <3>5. Len(NonZeroDigits[v]) \in Nat /\ Len(NonZeroDigits[v]) <= 1
      BY <2>5, <2>6, <3>4
    <3>6. QED
      BY <3>3, <3>5 DEF T
  <2>8. CASE v >= 10
    <3>1. Decimal[v] = Append(t, d)
      BY <2>3, <2>8, DecimalEnd DEF w, d
    <3>2. Len(Decimal[v]) = Len(t) + 1
      BY <2>6, <3>1
    <3>3. Len(NonZeroDigits[v]) <= Len(s) + 1
      BY <2>5, <2>6
    <3>4. Len(NonZeroDigits[v]) \in Nat
      BY <2>5, <2>6
    <3>5. QED
      BY <2>4, <2>6, <2>8, <3>2, <3>3, <3>4 DEF T
  <2>9. QED
    BY <2>7, <2>8
<1>2. \A v \in Nat : v \in T
  <2>1. T \in SUBSET Nat
    OBVIOUS
  <2> HIDE DEF T
  <2>2. QED
    BY <1>1, <2>1, DigitInduction
<1> DEFINE w == n \div 10
           d == n % 10
<1>3. w \in Nat /\ d \in 0..9
  BY WithoutLastDigit
<1>4. PICK s \in Seq(Nat) : s = NonZeroDigits[w]
  BY <1>3, NonZeroDigitsDef
<1>5. PICK t \in Seq(Nat) : t = Decimal[w]
  BY <1>3, DecimalDef
<1>6. Len(s) <= Len(t)
  BY <1>2, <1>3, <1>4, <1>5
<1>7. Rendered(n) = Append(s, d)
  BY <1>4 DEF Rendered
<1>8. n >= 10 => Decimal[n] = Append(t, d)
  BY <1>5, DecimalEnd
<1>9. n < 10 => Decimal[n] = <<n>> /\ s = <<>>
  <2>1. n < 10 => w = 0
    OBVIOUS
  <2>2. QED
    BY <1>4, <2>1, DecimalEnd, NonZeroDigitsDef
<1> HIDE DEF w, d, T
<1>10. Append(s, d) \in Seq(Nat) /\ Len(Append(s, d)) = Len(s) + 1 /\ Len(s) \in Nat
  BY <1>3
<1>11. Len(Append(t, d)) = Len(t) + 1 /\ Len(t) \in Nat
  BY <1>3
<1>12. CASE n < 10
  <2>1. Len(s) = 0 /\ Len(Decimal[n]) = 1
    BY <1>9, <1>12
  <2>2. QED
    BY <1>7, <1>10, <2>1
<1>13. CASE n >= 10
  <2>1. Len(Decimal[n]) = Len(t) + 1
    BY <1>8, <1>11, <1>13
  <2>2. QED
    BY <1>6, <1>7, <1>10, <1>11, <2>1
<1>14. QED
  BY <1>12, <1>13

-----------------------------------------------------------------------------
\* Every state of itoa: the types, and what is left of the input together with
\* what is written makes what the input is rendered as, unless the input has
\* 1, 0 inside, which then it always has and only then may miss the buffer.
ItoaType ==
  /\ input \in Input /\ left \in Nat
  /\ str \in Seq(Nat) /\ Len(str) <= StrLen
  /\ pc \in {"loop", "done", "overrun"}

ItoaInv ==
  /\ ItoaType
  /\ pc = "loop" => /\ HasTenInside(left) <=> HasTenInside(input)
                    /\ ~HasTenInside(input) => str \o Rendered(left) = Rendered(input)
  /\ pc = "done" => ~HasTenInside(input) /\ str = Rendered(input)
  /\ pc = "overrun" => HasTenInside(input)

\* Where what is left is part of what the input is rendered as, there is room
\* for a digit.
LEMMA RoomLeft ==
  ASSUME ItoaType, str \o Rendered(left) = Rendered(input)
  PROVE  Len(str) < StrLen
<1>1. input \in Nat /\ left \in Nat /\ StrLen \in Nat /\ Len(Decimal[input]) <= StrLen
  BY ItoaAssumption DEF ItoaType
<1>2. PICK s \in Seq(Nat) : s = Rendered(left)
  BY <1>1, RenderedFits
<1>3. PICK t \in Seq(Nat) : t = Rendered(input)
  BY <1>1, RenderedFits
<1>4. Len(s) >= 1 /\ Len(t) <= Len(Decimal[input]) /\ Len(Decimal[input]) \in Nat
  BY <1>1, <1>2, <1>3, RenderedFits, DecimalEnd
<1>5. Len(str \o s) = Len(str) + Len(s) /\ Len(str) \in Nat
  BY DEF ItoaType
<1>6. str \o s = t
  BY <1>2, <1>3
<1>7. Len(t) = Len(str) + Len(s)
  BY <1>5, <1>6
<1>8. QED
  BY <1>1, <1>4, <1>5, <1>7

\* Writing a digit keeps the types.
LEMMA WriteType ==
  ASSUME ItoaType, NEW digit \in Nat, NEW after, Write(digit, after),
         after \in {"loop", "done"}, input' = input, left' \in Nat
  PROVE  /\ ItoaType'
         /\ \/ pc' = after /\ str' = Append(str, digit)
            \/ pc' = "overrun" /\ Len(str) = StrLen
<1>1. StrLen \in Nat /\ str \in Seq(Nat) /\ Len(str) \in Nat
  BY ItoaAssumption DEF ItoaType
<1>2. CASE Len(str) < StrLen /\ str' = Append(str, digit) /\ pc' = after
  <2>1. Append(str, digit) \in Seq(Nat) /\ Len(Append(str, digit)) = Len(str) + 1
    BY <1>1
  <2>2. str' \in Seq(Nat) /\ Len(str') <= StrLen
    BY <1>1, <1>2, <2>1
  <2>3. QED
    BY <1>2, <2>2 DEF ItoaType
<1>3. CASE Len(str) = StrLen /\ pc' = "overrun" /\ str' = str
  BY <1>3 DEF ItoaType
<1>4. QED
  BY <1>2, <1>3 DEF Write

LEMMA ItoaInvInit ==
  ASSUME ItoaInit
  PROVE  ItoaInv
<1>1. input \in Nat /\ StrLen \in Nat
  BY ItoaAssumption DEF ItoaInit
<1>2. <<>> \in Seq(Nat) /\ Len(<<>>) = 0
  OBVIOUS
<1>3. ItoaType
  BY <1>1, <1>2 DEF ItoaInit, ItoaType
<1>4. str \o Rendered(left) = Rendered(input)
  <2>1. PICK s \in Seq(Nat) : s = Rendered(input)
    BY <1>1, RenderedFits
  <2>2. <<>> \o s = s
    OBVIOUS
  <2>3. QED
    BY <2>1, <2>2, Zenon DEF ItoaInit
<1>5. QED
  BY <1>3, <1>4 DEF ItoaInit, ItoaInv

LEMMA ItoaInvStrip ==
  ASSUME ItoaInv, Strip
  PROVE  ItoaInv'
<1> DEFINE v == left
<1>1. ItoaType /\ v \in Nat /\ v >= 10 /\ pc = "loop" /\ input' = input
  BY DEF ItoaInv, ItoaType, Strip
<1>2. left' = Stripped(v) /\ Write(Ret(v), "loop")
  BY DEF Strip, Stripped, Power, Ret
<1>3. Stripped(v) \in Nat /\ Ret(v) \in Nat
  BY <1>1, StrippedType, OrderFields
<1>4. /\ HasTenInside(v) <=> HasTenInside(input)
      /\ ~HasTenInside(input) => str \o Rendered(v) = Rendered(input)
  BY <1>1 DEF ItoaInv
<1>5. HasTenInside(left') <=> HasTenInside(input)
  BY <1>1, <1>2, <1>4, StrippedTen
<1>6. /\ ItoaType'
      /\ \/ pc' = "loop" /\ str' = Append(str, Ret(v))
         \/ pc' = "overrun" /\ Len(str) = StrLen
  BY <1>1, <1>2, <1>3, WriteType
<1>7. CASE HasTenInside(input)
  <2>1. HasTenInside(input')
    BY <1>1, <1>7
  <2>2. QED
    BY <1>1, <1>5, <1>6, <2>1 DEF ItoaInv
<1>8. CASE ~HasTenInside(input)
  <2>1. Ret(v) # 0
    BY <1>1, <1>4, <1>8, ZeroTop
  <2>2. Len(str) < StrLen
    BY <1>1, <1>4, <1>8, RoomLeft
  <2>3. pc' = "loop" /\ str' = Append(str, Ret(v))
    BY <1>1, <1>6, <2>2, ItoaAssumption DEF ItoaType
  <2>4. str' \o Rendered(left') = Rendered(input)
    <3>1. PICK r \in Nat : r = Ret(v)
      BY <1>3
    <3>2. PICK s \in Seq(Nat) : s = Rendered(Stripped(v))
      BY <1>3, RenderedFits
    <3>3. Rendered(v) = <<r>> \o s
      BY <1>1, <2>1, <3>1, <3>2, RenderedTop, Zenon
    <3>4. Append(str, r) \o s = str \o (<<r>> \o s)
      BY <1>1 DEF ItoaType
    <3>5. QED
      BY <1>2, <1>4, <1>8, <2>3, <3>1, <3>2, <3>3, <3>4, Zenon
  <2>5. QED
    BY <1>1, <1>5, <1>6, <1>8, <2>3, <2>4 DEF ItoaInv
<1>9. QED
  BY <1>7, <1>8

LEMMA ItoaInvLastDigit ==
  ASSUME ItoaInv, LastDigit
  PROVE  ItoaInv'
<1>1. /\ ItoaType /\ left \in Nat /\ left < 10 /\ pc = "loop"
      /\ input' = input /\ left' = left /\ Write(left, "done")
  BY DEF ItoaInv, ItoaType, LastDigit
<1>2. /\ ItoaType'
      /\ \/ pc' = "done" /\ str' = Append(str, left)
         \/ pc' = "overrun" /\ Len(str) = StrLen
  BY <1>1, WriteType
<1>3. ~HasTenInside(input)
  BY <1>1, TenInside DEF ItoaInv
<1>4. str \o Rendered(left) = Rendered(input)
  BY <1>1, <1>3 DEF ItoaInv
<1>5. Len(str) < StrLen
  BY <1>1, <1>4, RoomLeft
<1>6. pc' = "done" /\ str' = Append(str, left)
  BY <1>1, <1>2, <1>5, ItoaAssumption DEF ItoaType
<1>7. str' = Rendered(input)
  <2>1. left \div 10 = 0 /\ left % 10 = left
    BY <1>1
  <2>2. Rendered(left) = Append(<<>>, left)
    BY <2>1, NonZeroDigitsDef DEF Rendered
  <2>3. str \o Append(<<>>, left) = Append(str, left)
    BY <1>1 DEF ItoaType
  <2>4. QED
    BY <1>4, <1>6, <2>2, <2>3, Zenon
<1>8. QED
  BY <1>1, <1>2, <1>3, <1>6, <1>7 DEF ItoaInv

\* Every reachable state is such a state.
THEOREM ItoaInvCorrect == ItoaSpec => []ItoaInv
<1>1. ItoaInit => ItoaInv
  BY ItoaInvInit
<1>2. ItoaInv /\ [ItoaNext]_itoaVars => ItoaInv'
  <2> SUFFICES ASSUME ItoaInv, [ItoaNext]_itoaVars PROVE ItoaInv'
    OBVIOUS
  <2>1. CASE Strip
    BY <2>1, ItoaInvStrip
  <2>2. CASE LastDigit
    BY <2>2, ItoaInvLastDigit
  <2>3. CASE UNCHANGED itoaVars
    BY <2>3 DEF itoaVars, ItoaInv, ItoaType
  <2>4. QED
    BY <2>1, <2>2, <2>3 DEF ItoaNext
<1>3. QED
  BY <1>1, <1>2, PTL DEF ItoaSpec

\* For every number that fits the buffer: what itoa returns is the number's
\* decimal digits without the zeros before the last one.
THEOREM DropsInnerZerosCorrect == ItoaSpec => []DropsInnerZeros
<1>1. ItoaInv => DropsInnerZeros
  BY DEF ItoaInv, DropsInnerZeros, Rendered
<1>2. QED
  BY <1>1, ItoaInvCorrect, PTL

\* For every number that fits the buffer: itoa writes past the buffer only for
\* a number with 1, 0 inside, and never returns for one.
THEOREM OverrunsAtTenCorrect == ItoaSpec => []OverrunsAtTen
<1>1. ItoaInv => OverrunsAtTen
  BY DEF ItoaInv, OverrunsAtTen
<1>2. QED
  BY <1>1, ItoaInvCorrect, PTL

-----------------------------------------------------------------------------
\* A number with a zero before its last digit.
HasInnerZero(n) ==
  \E i \in 1..(Len(Decimal[n]) - 1) : Decimal[n][i] = 0

\* A digit that is zero.
HasZero(n) == \E i \in 1..Len(Decimal[n]) : Decimal[n][i] = 0

\* What a number without its last digit has is what it has before that digit.
LEMMA InnerZero ==
  ASSUME NEW n \in Nat
  PROVE  /\ HasInnerZero(n) <=> n >= 10 /\ HasZero(n \div 10)
         /\ HasZero(n) <=> HasInnerZero(n) \/ n % 10 = 0
<1>1. PICK d \in Seq(Nat) : d = Decimal[n]
  BY DecimalDef
<1>2. Len(d) \in Nat /\ Len(d) >= 1 /\ d[Len(d)] = n % 10
  BY <1>1, DecimalEnd
<1>3. /\ HasInnerZero(n) <=> \E i \in 1..(Len(d) - 1) : d[i] = 0
      /\ HasZero(n) <=> \E i \in 1..Len(d) : d[i] = 0
  BY <1>1, Zenon DEF HasInnerZero, HasZero
<1>4. HasZero(n) <=> HasInnerZero(n) \/ n % 10 = 0
  <2>1. \A i \in 1..Len(d) : i \in 1..(Len(d) - 1) \/ i = Len(d)
    BY <1>2
  <2>2. /\ \A i \in 1..(Len(d) - 1) : i \in 1..Len(d)
        /\ Len(d) \in 1..Len(d)
    BY <1>2
  <2>3. QED
    BY <1>2, <1>3, <2>1, <2>2, Zenon
<1>5. HasInnerZero(n) <=> n >= 10 /\ HasZero(n \div 10)
  <2>1. CASE n < 10
    <3>1. d = <<n>>
      BY <1>1, <2>1, DecimalEnd
    <3>2. Len(d) = 1 /\ 1..(1 - 1) = {}
      BY <3>1
    <3>3. QED
      BY <1>3, <2>1, <3>2
  <2>2. CASE n >= 10
    <3>1. n \div 10 \in Nat /\ n % 10 \in Nat
      BY WithoutLastDigit
    <3>2. PICK e \in Seq(Nat) : e = Decimal[n \div 10]
      BY <3>1, DecimalDef
    <3>3. PICK x \in Nat : x = n % 10
      BY <3>1
    <3>4. d = Append(e, x)
      BY <1>1, <2>2, <3>2, <3>3, DecimalEnd
    <3>5. Len(d) - 1 = Len(e) /\ (\A i \in 1..Len(e) : d[i] = e[i])
      BY <3>4
    <3>6. HasZero(n \div 10) <=> \E i \in 1..Len(e) : e[i] = 0
      BY <3>2, Zenon DEF HasZero
    <3>7. HasInnerZero(n) <=> HasZero(n \div 10)
      BY <1>3, <3>5, <3>6, Zenon
    <3>8. QED
      BY <2>2, <3>7
  <2>3. QED
    BY <2>1, <2>2
<1>6. QED
  BY <1>4, <1>5

\* The digits that are not zero are all of them, or fewer.
LEMMA NonZeroAll ==
  \A n \in Nat : /\ ~HasZero(n) => NonZeroDigits[n] = Decimal[n]
                 /\ HasZero(n) => Len(NonZeroDigits[n]) < Len(Decimal[n])
<1> DEFINE P(n) == /\ ~HasZero(n) => NonZeroDigits[n] = Decimal[n]
                   /\ HasZero(n) => Len(NonZeroDigits[n]) < Len(Decimal[n])
           T == {n \in Nat : P(n)}
<1>1. ASSUME NEW n \in Nat, n # 0 => n \div 10 \in T
      PROVE  P(n)
  <2> DEFINE w == n \div 10
             d == n % 10
  <2>1. w \in Nat /\ d \in 0..9 /\ n = 10 * w + d
    BY WithoutLastDigit
  <2>2. n # 0 => P(w)
    BY <1>1, Zenon
  <2>3. PICK s \in Seq(Nat) : s = NonZeroDigits[w]
    BY <2>1, NonZeroDigitsDef
  <2>4. PICK t \in Seq(Nat) : t = Decimal[w]
    BY <2>1, DecimalDef
  <2>5. HasZero(n) <=> (n >= 10 /\ HasZero(w)) \/ d = 0
    BY InnerZero
  <2>6. n >= 10 => Decimal[n] = Append(t, d)
    BY <2>4, DecimalEnd
  <2> HIDE DEF w, d, T
  <2>7. NonZeroDigits[n] = IF d = 0 THEN s ELSE Append(s, d)
    BY <2>1, <2>3, NonZeroStep, Zenon
  <2>8. /\ Len(Append(s, d)) = Len(s) + 1 /\ Len(Append(t, d)) = Len(t) + 1
        /\ Len(s) \in Nat /\ Len(t) \in Nat
    BY <2>1
  <2>9. CASE n < 10
    <3>1. w = 0 /\ d = n
      BY <2>1, <2>9
    <3>2. s = <<>> /\ Decimal[n] = <<n>>
      BY <2>3, <2>9, <3>1, NonZeroDigitsDef, DecimalEnd
    <3>3. Append(<<>>, n) = <<n>> /\ Len(<<n>>) = 1 /\ Len(<<>>) = 0
      OBVIOUS
    <3>4. HasZero(n) <=> d = 0
      BY <2>5, <2>9
    <3>5. CASE d = 0
      <4>1. Len(NonZeroDigits[n]) = 0 /\ Len(Decimal[n]) = 1
        BY <2>7, <3>2, <3>3, <3>5
      <4>2. QED
        BY <3>4, <3>5, <4>1
    <3>6. CASE d # 0
      BY <2>7, <3>1, <3>2, <3>3, <3>4, <3>6
    <3>7. QED
      BY <3>5, <3>6
  <2>10. CASE n >= 10
    <3>1. P(w) /\ (HasZero(n) <=> HasZero(w) \/ d = 0)
      BY <2>2, <2>5, <2>10
    <3>2. CASE ~HasZero(w) /\ d # 0
      <4>1. s = t
        BY <2>3, <2>4, <3>1, <3>2
      <4>2. QED
        BY <2>6, <2>7, <2>10, <3>1, <3>2, <4>1
    <3>3. CASE HasZero(w)
      <4>1. Len(s) < Len(t)
        BY <2>3, <2>4, <3>1, <3>3
      <4>2. Len(NonZeroDigits[n]) \in Nat /\ Len(NonZeroDigits[n]) <= Len(s) + 1
        BY <2>7, <2>8
      <4>3. Len(Decimal[n]) = Len(t) + 1
        BY <2>6, <2>8, <2>10
      <4>4. QED
        BY <2>8, <3>1, <3>3, <4>1, <4>2, <4>3
    <3>4. CASE ~HasZero(w) /\ d = 0
      <4>1. s = t
        BY <2>3, <2>4, <3>1, <3>4
      <4>2. Len(NonZeroDigits[n]) = Len(t)
        BY <2>7, <3>4, <4>1
      <4>3. Len(Decimal[n]) = Len(t) + 1
        BY <2>6, <2>8, <2>10
      <4>4. QED
        BY <2>8, <3>1, <3>4, <4>2, <4>3
    <3>5. QED
      BY <3>2, <3>3, <3>4
  <2>11. QED
    BY <2>9, <2>10
<1>2. T \in SUBSET Nat /\ (\A n \in Nat : n \in T <=> P(n))
  OBVIOUS
<1> HIDE DEF T
<1>3. \A n \in Nat : n \in T
  BY <1>1, <1>2, DigitInduction
<1>4. QED
  BY <1>2, <1>3

\* A number is rendered as its digits exactly if no digit before the last is
\* zero; otherwise as fewer digits.
LEMMA RenderedDecimal ==
  ASSUME NEW n \in Nat
  PROVE  /\ ~HasInnerZero(n) => Rendered(n) = Decimal[n] /\ ~HasTenInside(n)
         /\ HasInnerZero(n) => Rendered(n) # Decimal[n]
<1> DEFINE w == n \div 10
           d == n % 10
<1>1. w \in Nat /\ d \in Nat
  BY WithoutLastDigit
<1>2. PICK s \in Seq(Nat) : s = NonZeroDigits[w]
  BY <1>1, NonZeroDigitsDef
<1>3. PICK t \in Seq(Nat) : t = Decimal[w]
  BY <1>1, DecimalDef
<1>4. /\ ~HasZero(w) => s = t
      /\ HasZero(w) => Len(s) < Len(t)
  BY <1>1, <1>2, <1>3, NonZeroAll
<1>5. HasInnerZero(n) <=> n >= 10 /\ HasZero(w)
  BY InnerZero
<1>6. Rendered(n) = Append(s, d)
  BY <1>2 DEF Rendered
<1>7. /\ n >= 10 => Decimal[n] = Append(t, d)
      /\ n < 10 => Decimal[n] = <<n>>
  BY <1>3, DecimalEnd
<1>8. n < 10 => s = <<>> /\ d = n
  <2>1. n < 10 => w = 0 /\ d = n
    OBVIOUS
  <2>2. QED
    BY <1>2, <2>1, NonZeroDigitsDef
<1> HIDE DEF w, d
<1>9. ~HasInnerZero(n) => Rendered(n) = Decimal[n]
  <2>1. Append(<<>>, n) = <<n>>
    OBVIOUS
  <2>2. CASE n < 10
    <3>1. Rendered(n) = <<n>>
      BY <1>6, <1>8, <2>1, <2>2, Zenon
    <3>2. QED
      BY <1>7, <2>2, <3>1, Zenon
  <2>3. CASE n >= 10
    <3>1. ~HasInnerZero(n) => s = t
      BY <1>4, <1>5, <2>3, Zenon
    <3>2. QED
      BY <1>6, <1>7, <2>3, <3>1, Zenon
  <2>4. QED
    BY <2>2, <2>3
<1>10. HasInnerZero(n) => Rendered(n) # Decimal[n]
  <2>1. Len(Append(s, d)) = Len(s) + 1 /\ Len(Append(t, d)) = Len(t) + 1
        /\ Len(s) \in Nat /\ Len(t) \in Nat
    BY <1>1
  <2>2. Len(s) < Len(t) => Append(s, d) # Append(t, d)
    BY <2>1
  <2>3. QED
    BY <1>4, <1>5, <1>6, <1>7, <2>2
<1>11. HasTenInside(n) => HasInnerZero(n)
  <2> SUFFICES ASSUME HasTenInside(n) PROVE HasInnerZero(n)
    OBVIOUS
  <2>1. PICK i \in 1..(Len(Decimal[n]) - 2) : Decimal[n][i + 1] = 0
    BY DEF HasTenInside
  <2>2. i + 1 \in 1..(Len(Decimal[n]) - 1)
    BY DecimalEnd
  <2>3. QED
    BY <2>1, <2>2 DEF HasInnerZero
<1>12. QED
  BY <1>9, <1>10, <1>11

\* No two numbers have the same decimal digits.
LEMMA DecimalInjective ==
  \A n, m \in Nat : Decimal[n] = Decimal[m] => n = m
<1> DEFINE T == {n \in Nat : \A m \in Nat : Decimal[n] = Decimal[m] => n = m}
<1>1. ASSUME NEW n \in Nat, n # 0 => n \div 10 \in T
      PROVE  n \in T
  <2> SUFFICES ASSUME NEW m \in Nat, Decimal[n] = Decimal[m]
               PROVE  n = m
    OBVIOUS
  <2>1. n % 10 = m % 10
    BY DecimalEnd
  <2>2. n \div 10 \in Nat /\ m \div 10 \in Nat
    BY WithoutLastDigit
  <2>3. PICK s \in Seq(Nat) : s = Decimal[n \div 10]
    BY <2>2, DecimalDef
  <2>4. PICK t \in Seq(Nat) : t = Decimal[m \div 10]
    BY <2>2, DecimalDef
  <2>5. PICK d \in Nat : d = n % 10
    BY WithoutLastDigit
  <2>6. /\ n >= 10 => Decimal[n] = Append(s, d)
        /\ m >= 10 => Decimal[m] = Append(t, d)
        /\ n < 10 => Decimal[n] = <<n>>
        /\ m < 10 => Decimal[m] = <<m>>
    BY <2>1, <2>3, <2>4, <2>5, DecimalEnd
  <2>7. /\ Len(Append(s, d)) >= 2 /\ Len(Append(t, d)) >= 2
        /\ Append(s, d) = Append(t, d) => s = t
    <3>1. /\ Len(s) >= 1 /\ Len(t) >= 1 /\ Len(s) \in Nat /\ Len(t) \in Nat
      BY <2>2, <2>3, <2>4, DecimalEnd
    <3>2. Append(s, d) = Append(t, d) => s = t
      BY AppendInjective
    <3>3. Len(Append(s, d)) >= 2 /\ Len(Append(t, d)) >= 2
      BY <3>1, AppendProperties
    <3>4. QED
      BY <3>2, <3>3, Zenon
  <2>8. CASE n < 10
    <3>1. Len(<<n>>) = 1
      OBVIOUS
    <3>2. m < 10
      BY <2>6, <2>7, <2>8, <3>1
    <3>3. Decimal[n] = <<n>> /\ Decimal[m] = <<m>>
      BY <2>6, <2>8, <3>2
    <3>4. <<n>> = <<m>> => n = m
      OBVIOUS
    <3>5. QED
      BY <3>3, <3>4, Zenon
  <2>9. CASE n >= 10
    <3>1. Len(<<m>>) = 1
      OBVIOUS
    <3>2. m >= 10
      BY <2>6, <2>7, <2>9, <3>1
    <3>3. s = t
      BY <2>6, <2>7, <2>9, <3>2
    <3>4. n \div 10 = m \div 10
      <4>1. n \div 10 \in T
        BY <1>1, <2>9
      <4>2. Decimal[n \div 10] = Decimal[m \div 10]
        BY <2>3, <2>4, <3>3
      <4>3. QED
        BY <2>2, <4>1, <4>2
    <3>5. n = 10 * (n \div 10) + (n % 10) /\ m = 10 * (m \div 10) + (m % 10)
      BY WithoutLastDigit
    <3>6. QED
      BY <2>1, <3>4, <3>5
  <2>10. QED
    BY <2>8, <2>9
<1>2. T \in SUBSET Nat
  OBVIOUS
<1>3. \A n \in Nat : n \in T
  <2> HIDE DEF T
  <2>1. QED
    BY <1>1, <1>2, DigitInduction
<1>4. QED
  BY <1>3

\* For every number that fits the buffer: the key itoa makes is the decimal
\* number, and fits, if no digit before the last is zero.
THEOREM RendersWithoutInnerZero ==
  ItoaSpec => [](~HasInnerZero(input) => RendersDecimal)
<1>1. ItoaInv => (~HasInnerZero(input) => RendersDecimal)
  BY ItoaAssumption, RenderedDecimal DEF ItoaInv, ItoaType, RendersDecimal
<1>2. QED
  BY <1>1, ItoaInvCorrect, PTL

\* And only then: for a number with a zero before its last digit itoa returns
\* something else, if it returns.
THEOREM InnerZeroIsLost ==
  ItoaSpec => [](HasInnerZero(input) /\ pc = "done" => str # Decimal[input])
<1>1. ItoaInv => (HasInnerZero(input) /\ pc = "done" => str # Decimal[input])
  BY ItoaAssumption, RenderedDecimal DEF ItoaInv, ItoaType
<1>2. QED
  BY <1>1, ItoaInvCorrect, PTL

\* The descriptors below a hundred have no zero there, so each has its decimal
\* number as its key, and no two of them the same.
THEOREM RendersBelowHundred ==
  /\ ItoaSpec => [](input < 100 => RendersDecimal)
  /\ \A n, m \in 0..99 : Rendered(n) = Rendered(m) => n = m
<1>1. ASSUME NEW n \in Nat, n < 100
      PROVE  ~HasInnerZero(n)
  <2>1. n \div 10 \in Nat /\ n \div 10 < 10
    BY <1>1
  <2>2. n >= 10 => n \div 10 # 0 /\ (n \div 10) % 10 = n \div 10
    BY <1>1
  <2>3. ~HasInnerZero(n \div 10)
    BY <2>1, InnerZero
  <2>4. n >= 10 => ~HasZero(n \div 10)
    BY <2>1, <2>2, <2>3, InnerZero
  <2>5. QED
    BY <2>4, InnerZero
<1>2. ItoaInv => (input < 100 => RendersDecimal)
  <2>1. ItoaInv => input \in Nat
    BY ItoaAssumption DEF ItoaInv, ItoaType
  <2>2. QED
    BY <1>1, <2>1, RenderedDecimal DEF ItoaInv, RendersDecimal
<1>3. ItoaSpec => [](input < 100 => RendersDecimal)
  BY <1>2, ItoaInvCorrect, PTL
<1>4. \A n, m \in 0..99 : Rendered(n) = Rendered(m) => n = m
  <2> SUFFICES ASSUME NEW n \in 0..99, NEW m \in 0..99, Rendered(n) = Rendered(m)
               PROVE  n = m
    OBVIOUS
  <2>1. n \in Nat /\ n < 100 /\ m \in Nat /\ m < 100
    OBVIOUS
  <2>2. Rendered(n) = Decimal[n] /\ Rendered(m) = Decimal[m]
    BY <1>1, <2>1, RenderedDecimal
  <2>3. QED
    BY <2>1, <2>2, DecimalInjective
<1>5. QED
  BY <1>3, <1>4
=============================================================================
