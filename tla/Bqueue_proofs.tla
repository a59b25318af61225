--------------------------- MODULE Bqueue_proofs ---------------------------
(***************************************************************************)
(* Proofs about Bqueue, for every capacity, stride and length of blocks:   *)
(* below its registered size the queue is a FIFO queue, wherever its nodes *)
(* lie, and a long enough one lies outside its block.                      *)
(***************************************************************************)
EXTENDS Bqueue, SequenceTheorems, TLAPS

-----------------------------------------------------------------------------
\* Multiples of the stride are distinct.
LEMMA StrideMonotonic ==
  ASSUME NEW s \in Nat \ {0}, NEW i \in Nat, NEW j \in Nat, i < j
  PROVE  s * i < s * j
<1>1. s * j = s * i + s * (j - i)
  OBVIOUS
<1>2. s * (j - i) >= 1
  <2>1. j - i \in Nat \ {0}
    OBVIOUS
  <2>2. QED
    BY <2>1
<1>3. s * i \in Nat /\ s * (j - i) \in Nat
  OBVIOUS
<1>4. QED
  BY <1>1, <1>2, <1>3

LEMMA StrideSteps ==
  ASSUME NEW s \in Nat, NEW i \in Nat
  PROVE  s * (i + 1) = s * i + s /\ s * i \in Nat /\ s * 0 = 0
OBVIOUS

LEMMA StrideInjective ==
  ASSUME NEW s \in Nat \ {0}, NEW i \in Nat, NEW j \in Nat, s * i = s * j
  PROVE  i = j
BY StrideMonotonic

-----------------------------------------------------------------------------
QueueInv == TypeOK /\ Chained /\ NoFault

\* The nodes of the queue are distinct, and the place of each follows from the
\* place of the one before.
LEMMA NodePlaces ==
  ASSUME NEW h \in Nat
  PROVE  /\ \A i \in Nat \ {0} : h + Stride * (i - 1) \in Nat
         /\ \A i \in Nat \ {0} : h + Stride * i = (h + Stride * (i - 1)) + Stride
         /\ \A i, j \in Nat \ {0} : h + Stride * (i - 1) = h + Stride * (j - 1) => i = j
         /\ h + Stride * 0 = h
         /\ h + Stride * 1 = h + Stride
<1> USE BqueueAssumption
<1>1. ASSUME NEW i \in Nat \ {0}
      PROVE  /\ h + Stride * (i - 1) \in Nat
             /\ h + Stride * i = (h + Stride * (i - 1)) + Stride
  <2>1. i - 1 \in Nat /\ (i - 1) + 1 = i
    OBVIOUS
  <2>2. Stride * i = Stride * (i - 1) + Stride /\ Stride * (i - 1) \in Nat
    BY <2>1, StrideSteps
  <2>3. QED
    BY <2>2
<1>2. ASSUME NEW i \in Nat \ {0}, NEW j \in Nat \ {0},
             h + Stride * (i - 1) = h + Stride * (j - 1)
      PROVE  i = j
  <2>1. i - 1 \in Nat /\ j - 1 \in Nat
    OBVIOUS
  <2>2. Stride * (i - 1) \in Nat /\ Stride * (j - 1) \in Nat
    BY <2>1
  <2>3. Stride * (i - 1) = Stride * (j - 1)
    BY <1>2, <2>2
  <2>4. i - 1 = j - 1
    BY <2>1, <2>3, StrideInjective
  <2>5. QED
    BY <2>4
<1>3. Stride * 0 = 0 /\ Stride * 1 = Stride
  OBVIOUS
<1>4. QED
  BY <1>1, <1>2, <1>3

\* What the invariant says of a queue that holds something.
LEMMA NonEmpty ==
  ASSUME QueueInv, size # 0
  PROVE  /\ size \in 1..Capacity
         /\ header \in DOMAIN value /\ header \in Nat /\ header # NULL
         /\ tail = Node(size)
         /\ \A i \in 1..size : Node(i) \in DOMAIN value /\ Node(i) # NULL
         /\ \A i \in 1..(size - 1) : next[Node(i)] = Node(i + 1)
         /\ next[Node(size)] = NULL
         /\ Node(1) = header
         /\ Node(2) = header + Stride
<1>1. size \in 1..Capacity /\ header \in DOMAIN value /\ header \in Nat /\ header # NULL
  BY BqueueAssumption DEF QueueInv, TypeOK, Chained
<1>2. Node(1) = header /\ Node(2) = header + Stride
  BY <1>1, NodePlaces DEF Node
<1>3. QED
  BY <1>1, <1>2 DEF QueueInv, TypeOK, Chained

\* A pop of a non-empty queue moves every node one place forward.
LEMMA PopNonEmpty ==
  ASSUME QueueInv, Pop, size # 0
  PROVE  /\ size' = size - 1
         /\ fault' = fault
         /\ returned' = value[header]
         /\ UNCHANGED <<value, next, poolVars>>
         /\ size = 1 => header' = NULL /\ tail' = NULL
         /\ size # 1 => /\ header' = Node(2)
                        /\ tail' = tail
                        /\ \A i \in Nat \ {0} : Node(i)' = Node(i + 1)
<1>1. /\ size' = size - 1
      /\ fault' = fault
      /\ returned' = value[header]
      /\ UNCHANGED <<value, next, poolVars>>
      /\ header' = next[header]
      /\ tail' = IF next[header] = NULL THEN NULL ELSE tail
  BY NonEmpty DEF Pop
<1>2. CASE size = 1
  BY <1>1, <1>2, NonEmpty
<1>3. CASE size # 1
  <2>1. next[header] = Node(2) /\ Node(2) # NULL
    BY <1>3, NonEmpty
  <2>2. header' = header + Stride
    BY <1>1, <2>1, NonEmpty
  <2>3. ASSUME NEW i \in Nat \ {0}
        PROVE  Node(i)' = Node(i + 1)
    <3>1. header + Stride * i = (header + Stride * (i - 1)) + Stride
      BY NonEmpty, NodePlaces
    <3>2. header \in Nat /\ Stride \in Nat /\ Stride * (i - 1) \in Nat /\ Stride * i \in Nat
      BY NonEmpty, BqueueAssumption
    <3>3. Node(i)' = (header + Stride) + Stride * (i - 1)
      BY <2>2 DEF Node
    <3>4. Node(i + 1) = header + Stride * i
      BY <3>2 DEF Node
    <3>5. QED
      BY <3>1, <3>2, <3>3, <3>4
  <2>4. QED
    BY <1>1, <1>3, <2>1, <2>3
<1>4. QED
  BY <1>1, <1>2, <1>3

\* A push below capacity puts its node one place behind the tail.
LEMMA PushPlace ==
  ASSUME QueueInv, NEW v \in Value, size < Capacity, Push(v)
  PROVE  /\ size' = size + 1
         /\ fault' = fault
         /\ returned' = returned
         /\ NewNode \in Nat \ {NULL}
         /\ unit' \in Nat \ {NULL} /\ blocks' \subseteq Nat \ {NULL}
         /\ value' = Store(value, NewNode, v)
         /\ tail' = NewNode
         /\ size = 0 => /\ header' = NewNode
                        /\ next' = Store(next, NewNode, NULL)
         /\ size # 0 => /\ header' = header
                        /\ next' = Store(Store(next, NewNode, NULL), tail, NewNode)
                        /\ NewNode = Node(size + 1)
<1> USE BqueueAssumption DEF QueueInv
<1>1. ~(~TakesUnit /\ header = NULL)
  BY NonEmpty DEF TypeOK, TakesUnit
<1>2. /\ size' = size + 1
      /\ fault' = fault
      /\ returned' = returned
      /\ value' = Store(value, NewNode, v)
      /\ tail' = NewNode
      /\ next' = IF header = NULL THEN Store(next, NewNode, NULL)
                 ELSE Store(Store(next, NewNode, NULL), tail, NewNode)
      /\ header' = IF header = NULL THEN NewNode ELSE header
      /\ IF TakesUnit THEN GetUnit ELSE UNCHANGED poolVars
  BY <1>1 DEF Push
<1>3. NewUnit \in Nat \ {NULL}
  BY DEF NewUnit, TypeOK, NULL
<1>4. unit' \in Nat \ {NULL} /\ blocks' \subseteq Nat \ {NULL}
  <2>1. CASE TakesUnit
    <3>1. unit' = NewUnit + 1
      BY <1>2, <2>1 DEF GetUnit
    <3>2. \A k \in Nat \ {0} : NewUnit..(NewUnit + k - 1) \subseteq Nat \ {NULL}
      BY <1>3 DEF NULL
    <3>3. \/ blocks' = blocks
          \/ blocks' = blocks \cup NewUnit..(NewUnit + Capacity - 1)
          \/ blocks' = blocks \cup NewUnit..(NewUnit + Step - 1)
      BY <1>2, <2>1 DEF GetUnit
    <3>4. blocks' \subseteq Nat \ {NULL}
      BY <3>2, <3>3 DEF TypeOK
    <3>5. QED
      BY <1>3, <3>1, <3>4 DEF NULL
  <2>2. CASE ~TakesUnit
    BY <1>2, <2>2 DEF poolVars, TypeOK
  <2>3. QED
    BY <2>1, <2>2
<1>5. CASE size = 0
  <2>1. header = NULL /\ NewNode = NewUnit
    BY <1>5 DEF Chained, NewNode, TakesUnit
  <2>2. QED
    BY <1>2, <1>3, <1>4, <1>5, <2>1
<1>6. CASE size # 0
  <2>1. header # NULL /\ header \in Nat /\ size \in 1..Capacity
    BY <1>6, NonEmpty
  <2>2. ~TakesUnit /\ size % Capacity = size
    BY <1>6, <2>1 DEF TakesUnit
  <2>3. NewNode = Node(size + 1)
    BY <2>1, <2>2 DEF NewNode, Node
  <2>4. NewNode \in Nat \ {NULL}
    <3>1. Stride * size \in Nat /\ NewNode = header + Stride * size
      BY <2>1, <2>2 DEF NewNode
    <3>2. QED
      BY <2>1, <3>1 DEF NULL
  <2>5. QED
    BY <1>2, <1>4, <1>6, <2>1, <2>3, <2>4
<1>7. QED
  BY <1>5, <1>6

\* What a push writes, and what it leaves.
LEMMA PushWrites ==
  ASSUME QueueInv, NEW v \in Value, size < Capacity, Push(v)
  PROVE  /\ DOMAIN value' = DOMAIN value \cup {NewNode}
         /\ value' \in [DOMAIN value' -> Value \cup {NoValue}]
         /\ value'[NewNode] = v
         /\ \A a \in DOMAIN value : a # NewNode => value'[a] = value[a]
         /\ next' \in [DOMAIN value' -> DOMAIN value' \cup {NULL}]
         /\ size = 0 => next'[NewNode] = NULL
         /\ size # 0 /\ tail # NewNode =>
              /\ next'[NewNode] = NULL
              /\ next'[tail] = NewNode
              /\ \A a \in DOMAIN value : a \notin {NewNode, tail} => next'[a] = next[a]
<1> DEFINE D == DOMAIN value
<1>1. /\ value \in [D -> Value \cup {NoValue}]
      /\ next \in [D -> D \cup {NULL}]
      /\ value' = Store(value, NewNode, v)
  BY PushPlace DEF QueueInv, TypeOK
<1>2. DOMAIN value' = D \cup {NewNode}
  BY <1>1 DEF Store
<1>3. value' \in [D \cup {NewNode} -> Value \cup {NoValue}]
  BY <1>1 DEF Store
<1>4. value'[NewNode] = v /\ \A a \in D : a # NewNode => value'[a] = value[a]
  BY <1>1 DEF Store
<1> DEFINE E == D \cup {NewNode}
           g == Store(next, NewNode, NULL)
<1>5. g \in [E -> E \cup {NULL}] /\ DOMAIN g = E
  BY <1>1 DEF Store
<1>6. g[NewNode] = NULL /\ \A a \in D : a # NewNode => g[a] = next[a]
  BY <1>1 DEF Store
<1>7. CASE size = 0
  <2>1. next' = g
    BY <1>7, PushPlace
  <2>2. QED
    BY <1>2, <1>3, <1>4, <1>5, <1>6, <1>7, <2>1
<1>8. CASE size # 0
  <2>1. next' = Store(g, tail, NewNode) /\ tail \in D
    BY <1>8, PushPlace, NonEmpty
  <2> HIDE DEF g
  <2>2. next' \in [E -> E \cup {NULL}]
    <3> HIDE DEF E
    <3>1. tail \in E /\ NewNode \in E
      BY <2>1 DEF E
    <3>2. QED
      BY <1>5, <2>1, <3>1 DEF Store
  <2>3. next'[tail] = NewNode /\ \A a \in E : a # tail => next'[a] = g[a]
    <3> HIDE DEF E
    <3>1. QED
      BY <1>5, <2>1 DEF Store
  <2>4. QED
    BY <1>2, <1>3, <1>4, <1>6, <1>8, <2>2, <2>3
<1>9. QED
  BY <1>7, <1>8

-----------------------------------------------------------------------------
LEMMA QueueInvInit == Init => QueueInv
<1> SUFFICES ASSUME Init
             PROVE  QueueInv
  OBVIOUS
<1>1. TypeOK
  <2>1. /\ DOMAIN value = {} /\ DOMAIN next = {}
        /\ value \in [DOMAIN value -> Value \cup {NoValue}]
        /\ next \in [DOMAIN value -> DOMAIN value \cup {NULL}]
    BY DEF Init
  <2>2. size \in 0..Capacity /\ unit \in Nat \ {NULL} /\ blocks \subseteq Nat \ {NULL}
    BY BqueueAssumption DEF Init, NULL
  <2>3. fault \in BOOLEAN
    BY DEF Init
  <2>4. QED
    BY <2>1, <2>2, <2>3 DEF Init, TypeOK
<1>2. Chained /\ NoFault
  BY DEF Init, Chained, NoFault
<1>3. QED
  BY <1>1, <1>2 DEF QueueInv

LEMMA QueueInvStep == QueueInv /\ [BelowCapacity]_vars => QueueInv'
<1> SUFFICES ASSUME QueueInv, [BelowCapacity]_vars
             PROVE  QueueInv'
  OBVIOUS
<1> USE BqueueAssumption
<1>t. TypeOK /\ NoFault
  BY DEF QueueInv
<1>1. CASE Pop /\ size = 0
  BY <1>1 DEF Pop, poolVars, QueueInv, TypeOK, Chained, NoFault, Node
<1>2. CASE Pop /\ size = 1
  <2>1. TypeOK'
    BY <1>t, <1>2, PopNonEmpty, NonEmpty DEF TypeOK, poolVars
  <2>2. Chained' /\ NoFault'
    BY <1>t, <1>2, PopNonEmpty DEF Chained, NoFault
  <2>3. QED
    BY <2>1, <2>2 DEF QueueInv
<1>3. CASE Pop /\ size \notin {0, 1}
  <2>1. size \in 2..Capacity /\ size' = size - 1
    BY <1>3, NonEmpty, PopNonEmpty
  <2>2. /\ header' = Node(2) /\ tail' = tail /\ next' = next
        /\ \A i \in Nat \ {0} : Node(i)' = Node(i + 1)
    BY <1>3, PopNonEmpty
  <2>3. TypeOK'
    BY <1>t, <1>3, <2>1, <2>2, PopNonEmpty, NonEmpty DEF TypeOK, poolVars
  <2>4. tail' = Node(size)'
    <3>1. \A i \in Nat \ {0} : header' + Stride * (i - 1) = header + Stride * ((i + 1) - 1)
      BY <2>2 DEF Node
    <3>2. size - 1 \in Nat \ {0} /\ (size - 1) + 1 = size
      BY <2>1
    <3>3. header' + Stride * ((size - 1) - 1) = header + Stride * (size - 1)
      BY <3>1, <3>2
    <3>4. QED
      BY <2>1, <2>2, <3>3, NonEmpty DEF Node
  <2>5. value' = value /\ \A i \in 1..(size - 1) : Node(i)' \in DOMAIN value
    BY <1>3, <2>1, <2>2, PopNonEmpty, NonEmpty
  <2>6. \A i \in 1..(size - 2) : next'[Node(i)'] = Node(i + 1)'
    <3>1. ASSUME NEW i \in 1..(size - 2)
          PROVE  next'[Node(i)'] = Node(i + 1)'
      <4>1. i + 1 \in 1..(size - 1) /\ i \in Nat \ {0} /\ i + 1 \in Nat \ {0}
        BY <2>1
      <4>2. next[Node(i + 1)] = Node((i + 1) + 1)
        BY <2>1, <4>1, NonEmpty
      <4>3. QED
        BY <2>2, <4>1, <4>2
    <3>2. QED
      BY <3>1
  <2>7. Chained'
    BY <2>1, <2>2, <2>4, <2>5, <2>6, NonEmpty DEF Chained
  <2>8. QED
    BY <1>t, <1>3, <2>3, <2>7, PopNonEmpty DEF QueueInv, NoFault
<1>4. ASSUME NEW v \in Value, size < Capacity, Push(v), size = 0
      PROVE  QueueInv'
  <2>1. /\ size' = 1 /\ header' = NewNode /\ tail' = NewNode
        /\ NewNode \in DOMAIN value' /\ next'[NewNode] = NULL
    BY <1>4, PushPlace, PushWrites
  <2>2. TypeOK' /\ NoFault'
    BY <1>t, <1>4, <2>1, PushPlace, PushWrites DEF TypeOK, NoFault
  <2>3. Node(1)' = NewNode /\ NewNode # NULL
    BY <1>4, <2>1, NodePlaces, PushPlace DEF Node
  <2>4. Chained'
    BY <2>1, <2>3 DEF Chained
  <2>5. QED
    BY <2>2, <2>4 DEF QueueInv
<1>5. ASSUME NEW v \in Value, size < Capacity, Push(v), size # 0
      PROVE  QueueInv'
  <2>1. /\ size' = size + 1 /\ header' = header /\ tail' = NewNode
        /\ NewNode \in DOMAIN value' /\ NewNode = Node(size + 1)
        /\ tail = Node(size) /\ size \in 1..Capacity
    BY <1>5, PushPlace, PushWrites, NonEmpty
  <2>2. TypeOK' /\ NoFault'
    BY <1>t, <1>5, <2>1, PushPlace, PushWrites, NonEmpty DEF TypeOK, NoFault
  <2>3. \A i \in Nat : Node(i)' = Node(i)
    BY <2>1 DEF Node
  <2>4. \A i, j \in 1..(size + 1) : Node(i) = Node(j) => i = j
    BY <2>1, NonEmpty, NodePlaces DEF Node
  <2>a. NewNode # tail
    BY <2>1, <2>4
  <2>b. /\ next'[NewNode] = NULL /\ next'[tail] = NewNode
        /\ \A a \in DOMAIN value : a \notin {NewNode, tail} => next'[a] = next[a]
    BY <1>5, <2>a, PushWrites
  <2>5. \A i \in 1..size : next'[Node(i)] = Node(i + 1)
    <3>1. ASSUME NEW i \in 1..size
          PROVE  next'[Node(i)] = Node(i + 1)
      <4>1. Node(i) \in DOMAIN value /\ Node(i) # NewNode
        BY <2>1, <2>4, NonEmpty
      <4>2. CASE i = size
        BY <2>1, <2>b, <4>2
      <4>3. CASE i # size
        <5>1. i \in 1..(size - 1)
          BY <2>1, <4>3
        <5>2. Node(i) # tail
          BY <2>1, <2>4, <4>3
        <5>3. next'[Node(i)] = next[Node(i)]
          BY <2>b, <4>1, <5>2
        <5>4. QED
          BY <5>1, <5>3, NonEmpty
      <4>4. QED
        BY <4>2, <4>3
    <3>2. QED
      BY <3>1
  <2>6. next'[NewNode] = NULL
    BY <2>b
  <2>7. \A i \in 1..(size + 1) : Node(i) \in DOMAIN value'
    BY <1>5, <2>1, NonEmpty, PushWrites
  <2>8. Chained'
    <3>1. size' # 0 /\ header' # NULL /\ 1..size' = 1..(size + 1) /\ 1..(size' - 1) = 1..size
      BY <2>1, NonEmpty
    <3>2. tail' = Node(size)'
      BY <2>1 DEF Node
    <3>3. \A i \in 1..size' : Node(i)' \in DOMAIN value'
      <4>1. \A i \in 1..(size + 1) : Node(i)' \in DOMAIN value'
        BY <2>1, <2>7 DEF Node
      <4>2. QED
        BY <3>1, <4>1
    <3>4. \A i \in 1..(size' - 1) : next'[Node(i)'] = Node(i + 1)'
      <4>1. \A i \in 1..size : next'[Node(i)'] = Node(i + 1)'
        BY <2>1, <2>5 DEF Node
      <4>2. QED
        BY <3>1, <4>1
    <3>5. next'[tail'] = NULL
      BY <2>1, <2>6
    <3>6. QED
      BY <3>1, <3>2, <3>3, <3>4, <3>5 DEF Chained
  <2>9. QED
    BY <2>2, <2>8 DEF QueueInv
<1>6. CASE UNCHANGED vars
  BY <1>6 DEF vars, poolVars, QueueInv, TypeOK, Chained, NoFault, Node
<1>7. size = 0 \/ size = 1 \/ size \notin {0, 1}
  OBVIOUS
<1>8. QED
  BY <1>1, <1>2, <1>3, <1>4, <1>5, <1>6, <1>7 DEF BelowCapacity

-----------------------------------------------------------------------------
\* What the queue holds, as a sequence.
LEMMA ContentsSeq ==
  ASSUME QueueInv
  PROVE  /\ Contents \in Seq(Value \cup {NoValue})
         /\ Len(Contents) = size
         /\ size \in Nat
         /\ \A i \in 1..size : Contents[i] = value[Node(i)]
         /\ size = 0 => Contents = <<>>
<1>1. size \in Nat
  BY BqueueAssumption DEF QueueInv, TypeOK
<1>2. \A i \in 1..size : value[Node(i)] \in Value \cup {NoValue}
  BY <1>1, NonEmpty DEF QueueInv, TypeOK
<1>3. QED
  BY <1>1, <1>2 DEF Contents

\* A pop takes the front of the contents and returns it.
LEMMA PopDequeues == QueueInv /\ Pop => FifoQueue!Dequeue
<1> SUFFICES ASSUME QueueInv, Pop
             PROVE  FifoQueue!Dequeue
  OBVIOUS
<1>1. CASE size = 0
  <2>1. Contents' = Contents
    BY <1>1 DEF Pop, Contents, Node
  <2>2. Contents = <<>> /\ returned' = NoValue
    BY <1>1, ContentsSeq DEF Pop
  <2>3. QED
    BY <2>1, <2>2 DEF FifoQueue!Dequeue
<1>2. CASE size # 0
  <2> DEFINE S == Value \cup {NoValue}
  <2>1. /\ Contents \in Seq(S) /\ Len(Contents) = size /\ size \in 1..Capacity
        /\ \A i \in 1..size : Contents[i] = value[Node(i)]
    BY <1>2, ContentsSeq, NonEmpty
  <2>2. Contents # <<>>
    BY <2>1
  <2>3. Head(Contents) = returned'
    BY <1>2, <2>1, PopNonEmpty, NonEmpty
  <2>4. /\ Tail(Contents) \in Seq(S) /\ Len(Tail(Contents)) = size - 1
        /\ \A i \in 1..(size - 1) : Tail(Contents)[i] = value[Node(i + 1)]
    BY <2>1, <2>2, HeadTailProperties
  <2>5. Contents' = [i \in 1..(size - 1) |-> value[Node(i + 1)]]
    <3>1. Contents' = [i \in 1..(size - 1) |-> value[header' + Stride * (i - 1)]]
      BY <1>2, PopNonEmpty DEF Contents, Node
    <3>2. \A i \in 1..(size - 1) : header' + Stride * (i - 1) = Node(i + 1)
      <4>1. CASE size = 1
        BY <4>1
      <4>2. CASE size # 1
        BY <1>2, <2>1, <4>2, PopNonEmpty DEF Node
      <4>3. QED
        BY <4>1, <4>2
    <3>3. QED
      BY <3>1, <3>2
  <2>6. Tail(Contents) = [i \in 1..(size - 1) |-> value[Node(i + 1)]]
    <3> DEFINE t == Tail(Contents)
    <3>1. t = [i \in 1..Len(t) |-> t[i]]
      BY <2>4, LenProperties
    <3>2. Len(t) = size - 1 /\ \A i \in 1..(size - 1) : t[i] = value[Node(i + 1)]
      BY <2>4
    <3> HIDE DEF t
    <3>3. t = [i \in 1..(size - 1) |-> value[Node(i + 1)]]
      BY <3>1, <3>2
    <3>4. QED
      BY <3>3 DEF t
  <2>7. QED
    BY <2>2, <2>3, <2>5, <2>6 DEF FifoQueue!Dequeue
<1>3. QED
  BY <1>1, <1>2

\* A push adds its value behind the contents, and overwrites none of them.
LEMMA PushEnqueues ==
  ASSUME QueueInv, NEW v \in Value, size < Capacity, Push(v)
  PROVE  FifoQueue!Enqueue(v)
<1> USE BqueueAssumption
<1>1. /\ Contents \in Seq(Value \cup {NoValue}) /\ Len(Contents) = size /\ size \in Nat
      /\ \A i \in 1..size : Contents[i] = value[Node(i)]
  BY ContentsSeq
<1>2. size' = size + 1 /\ returned' = returned /\ NewNode \in Nat
  BY PushPlace
<1>3. /\ value'[NewNode] = v
      /\ \A a \in DOMAIN value : a # NewNode => value'[a] = value[a]
  BY PushWrites
<1>4. /\ \A i \in 1..size : value'[header' + Stride * (i - 1)] = value[Node(i)]
      /\ value'[header' + Stride * size] = v
  <2>1. CASE size = 0
    BY <1>2, <1>3, <2>1, PushPlace, NodePlaces
  <2>2. CASE size # 0
    <3>1. header' = header /\ NewNode = Node(size + 1) /\ header \in Nat
      BY <2>2, PushPlace, NonEmpty
    <3>2. header + Stride * size = NewNode
      BY <1>1, <3>1 DEF Node
    <3>3. ASSUME NEW i \in 1..size
          PROVE  value'[header' + Stride * (i - 1)] = value[Node(i)]
      <4>1. Node(i) \in DOMAIN value
        BY <2>2, NonEmpty
      <4>2. i \in Nat \ {0} /\ size + 1 \in Nat \ {0} /\ i # size + 1
        BY <1>1
      <4>3. Node(i) # NewNode
        BY <3>1, <4>2, NodePlaces DEF Node
      <4>4. value'[Node(i)] = value[Node(i)]
        BY <1>3, <4>1, <4>3
      <4>5. QED
        BY <3>1, <4>4 DEF Node
    <3>4. QED
      BY <1>2, <1>3, <3>1, <3>2, <3>3
  <2>3. QED
    BY <2>1, <2>2
<1>5. Contents' = [i \in 1..(size + 1) |-> value'[header' + Stride * (i - 1)]]
  BY <1>2 DEF Contents, Node
<1>6. \A i \in 1..(size + 1) : value'[header' + Stride * (i - 1)] =
                                 IF i = size + 1 THEN v ELSE Contents[i]
  <2>1. ASSUME NEW i \in 1..(size + 1)
        PROVE  value'[header' + Stride * (i - 1)] = IF i = size + 1 THEN v ELSE Contents[i]
    <3>1. CASE i = size + 1
      <4>1. i - 1 = size
        BY <1>1, <3>1
      <4>2. QED
        BY <1>4, <3>1, <4>1
    <3>2. CASE i # size + 1
      <4>1. i \in 1..size
        BY <1>1, <3>2
      <4>2. QED
        BY <1>1, <1>4, <3>2, <4>1
    <3>3. QED
      BY <3>1, <3>2
  <2>2. QED
    BY <2>1
<1>7. Contents' = [i \in 1..(size + 1) |-> IF i = size + 1 THEN v ELSE Contents[i]]
  BY <1>5, <1>6
<1>8. Append(Contents, v) = [i \in 1..(size + 1) |-> IF i = size + 1 THEN v ELSE Contents[i]]
  <2> DEFINE a == Append(Contents, v)
  <2>1. /\ a \in Seq(Value \cup {NoValue}) /\ Len(a) = size + 1
        /\ \A i \in 1..(size + 1) : a[i] = IF i = size + 1 THEN v ELSE Contents[i]
    <3>1. /\ Contents \in Seq(Value \cup {NoValue})
          /\ v \in Value \cup {NoValue}
      BY <1>1
    <3>2. QED
      BY <1>1, <3>1, AppendProperties
  <2> HIDE DEF a
  <2>2. a = [i \in 1..Len(a) |-> a[i]]
    BY <2>1, LenProperties
  <2>3. a = [i \in 1..(size + 1) |-> IF i = size + 1 THEN v ELSE Contents[i]]
    BY <2>1, <2>2
  <2>4. QED
    BY <2>3 DEF a
<1>9. QED
  BY <1>2, <1>7, <1>8 DEF FifoQueue!Enqueue

-----------------------------------------------------------------------------
\* Above the next unit nothing is missing in front of an address of a block,
\* and no block, nor two together, is longer than the longest.
PoolInv ==
  /\ \A a, b \in Nat : unit <= a /\ a <= b /\ b \in blocks => a \in blocks
  /\ \A a \in Nat : ~(a..(a + Longest) \subseteq blocks)

LEMMA PoolInvInit == Init => PoolInv
<1>1. Longest \in Nat /\ \A a \in Nat : a \in a..(a + Longest)
  BY BqueueAssumption DEF Longest
<1>2. QED
  BY <1>1 DEF Init, PoolInv

\* Another block begins behind a gap.
LEMMA NewBlock ==
  ASSUME QueueInv, PoolInv, unit \notin blocks, NEW n \in 1..Longest,
         blocks' = blocks \cup NewUnit..(NewUnit + n - 1), unit' = NewUnit + 1
  PROVE  PoolInv'
<1> USE BqueueAssumption DEF NULL
<1>1. unit \in Nat /\ NewUnit = unit + Gap /\ Longest \in Nat
  BY DEF NewUnit, QueueInv, TypeOK, Longest
<1>2. \A a \in Nat : a >= unit => a \notin blocks
  BY <1>1 DEF PoolInv
<1>3. \A a, b \in Nat : unit' <= a /\ a <= b /\ b \in blocks' => a \in blocks'
  BY <1>1, <1>2
<1>4. ASSUME NEW a \in Nat, a..(a + Longest) \subseteq blocks'
      PROVE  FALSE
  <2>1. a \in blocks' /\ a + Longest \in blocks'
    BY <1>1, <1>4
  <2>2. unit \notin blocks'
    BY <1>1
  <2>3. CASE a <= unit /\ unit <= a + Longest
    BY <1>1, <1>4, <2>2, <2>3
  <2>4. CASE a > unit
    <3>1. a >= NewUnit /\ a + Longest <= NewUnit + n - 1
      BY <1>1, <1>2, <2>1, <2>4
    <3>2. QED
      BY <1>1, <3>1
  <2>5. CASE a + Longest < unit
    <3>1. a..(a + Longest) \subseteq blocks
      BY <1>1, <1>4, <2>5
    <3>2. QED
      BY <3>1 DEF PoolInv
  <2>6. QED
    BY <1>1, <2>3, <2>4, <2>5
<1>5. Longest' = Longest
  BY DEF Longest
<1>6. QED
  BY <1>3, <1>4, <1>5 DEF PoolInv

LEMMA PoolInvStep == QueueInv /\ PoolInv /\ [BelowCapacity]_vars => PoolInv'
<1> SUFFICES ASSUME QueueInv, PoolInv, [BelowCapacity]_vars
             PROVE  PoolInv'
  OBVIOUS
<1>1. UNCHANGED poolVars \/ GetUnit
  BY DEF BelowCapacity, Push, Pop, vars
<1>2. CASE UNCHANGED poolVars
  BY <1>2 DEF poolVars, PoolInv, Longest
<1>3. CASE GetUnit /\ unit \in blocks
  <2>1. unit \in Nat /\ blocks' = blocks /\ unit' = unit + 1
    BY <1>3 DEF GetUnit, NewUnit, QueueInv, TypeOK
  <2>2. QED
    BY <2>1 DEF PoolInv, Longest
<1>4. CASE GetUnit /\ unit \notin blocks
  <2>1. PICK n \in {Capacity, Step} :
          blocks' = blocks \cup NewUnit..(NewUnit + n - 1) /\ unit' = NewUnit + 1
    BY <1>4 DEF GetUnit
  <2>2. n \in 1..Longest
    BY BqueueAssumption DEF Longest
  <2>3. QED
    BY <1>4, <2>1, <2>2, NewBlock
<1>5. QED
  BY <1>1, <1>2, <1>3, <1>4

-----------------------------------------------------------------------------
\* The types, for a queue that stays below its registered size: header, tail
\* and links are NULL or the address of a node that was written.
THEOREM BqueueTypeCorrect == SpecBelowCapacity => []TypeOK
<1>1. QueueInv => TypeOK
  BY DEF QueueInv
<1>2. QED
  BY <1>1, QueueInvInit, QueueInvStep, PTL DEF SpecBelowCapacity

\* Below its registered size the queue keeps its nodes Stride apart and linked
\* in order, whatever the pushes and pops.
THEOREM ChainedCorrect == SpecBelowCapacity => []Chained
<1>1. QueueInv => Chained
  BY DEF QueueInv
<1>2. QED
  BY <1>1, QueueInvInit, QueueInvStep, PTL DEF SpecBelowCapacity

\* A queue below its registered size whose last node is as far from its header
\* as a block is long lies outside the memory that was allocated for it.
THEOREM LeavesBlockCorrect == SpecBelowCapacity => []LeavesBlock
<1>1. QueueInv /\ PoolInv => LeavesBlock
  <2> SUFFICES ASSUME QueueInv, PoolInv, size # 0, Stride * (size - 1) >= Longest
               PROVE  ~(header..tail \subseteq blocks)
    BY BqueueAssumption DEF LeavesBlock, QueueInv, TypeOK
  <2>1. header \in Nat /\ tail = Node(size) /\ size \in 1..Capacity
    BY NonEmpty
  <2>2. Longest \in Nat /\ Stride * (size - 1) \in Nat
    BY <2>1, BqueueAssumption DEF Longest
  <2>3. tail = header + Stride * (size - 1)
    BY <2>1 DEF Node
  <2>4. header..(header + Longest) \subseteq header..tail
    BY <2>1, <2>2, <2>3
  <2>5. QED
    BY <2>1, <2>4 DEF PoolInv
<1>2. QED
  BY <1>1, QueueInvInit, QueueInvStep, PoolInvInit, PoolInvStep, PTL DEF SpecBelowCapacity

\* Below its registered size the queue never dereferences NULL.
THEOREM NoFaultCorrect == SpecBelowCapacity => []NoFault
<1>1. QueueInv => NoFault
  BY DEF QueueInv
<1>2. QED
  BY <1>1, QueueInvInit, QueueInvStep, PTL DEF SpecBelowCapacity

\* Below its registered size the queue adds to the back and removes from the
\* front, as bqueue.h says, although only one of its nodes was allocated: as
\* long as nobody else writes where the others lie, LeavesBlockCorrect shows
\* how soon that is foreign memory.
THEOREM BqueueImplementsFifo == SpecBelowCapacity => IsFifo
<1>1. Init => FifoQueue!Init
  <2>1. Init => Contents = <<>>
    BY QueueInvInit, ContentsSeq DEF Init
  <2>2. QED
    BY <2>1 DEF Init, FifoQueue!Init
<1>2. QueueInv /\ [BelowCapacity]_vars => [FifoQueue!Next]_<<Contents, returned>>
  <2>1. QueueInv /\ BelowCapacity => FifoQueue!Next
    BY PopDequeues, PushEnqueues DEF BelowCapacity, FifoQueue!Next
  <2>2. UNCHANGED vars => UNCHANGED <<Contents, returned>>
    BY DEF vars, Contents, Node
  <2>3. QED
    BY <2>1, <2>2
<1>3. QED
  BY <1>1, <1>2, QueueInvInit, QueueInvStep, PTL DEF SpecBelowCapacity, IsFifo, FifoQueue!Spec
=============================================================================
