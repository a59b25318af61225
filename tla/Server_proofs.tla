--------------------------- MODULE Server_proofs ---------------------------
(***************************************************************************)
(* Proofs about MessageQueue and Server, for every set of connections,     *)
(* buffers and requests and every finite set of consumers.                 *)
(*                                                                         *)
(* First the queue.  Its type invariant is inductive only together with    *)
(* HeldWhileBusy: a push appends the buffer being filled, and it is a      *)
(* buffer because the producer is in that state.  SingleOwner, NoLeak and  *)
(* SignalCoverage are proved from these two.  A step of the server is a    *)
(* step of the queue or leaves it alone, so what is proved of the queue    *)
(* holds of the server; its own invariants are proved on top of that.      *)
(***************************************************************************)
EXTENDS Server, SequenceTheorems, FiniteSetTheorems, TLAPS

TypeAndHeld == QueueTypeOK /\ HeldWhileBusy

-----------------------------------------------------------------------------
\* Initially nothing is held.
LEMMA HeldInit == QueueInit => TypeAndHeld
BY QueueAssumption
   DEF QueueInit, TypeAndHeld, QueueTypeOK, HeldWhileBusy, ProducerState, ConsumerState

\* A step of the queue keeps the types, and every thread holds a buffer
\* exactly while it works on one.
LEMMA HeldStep == TypeAndHeld /\ [QueueNext]_queueVars => TypeAndHeld'
<1> SUFFICES ASSUME TypeAndHeld, [QueueNext]_queueVars
             PROVE  TypeAndHeld'
  OBVIOUS
<1> USE QueueAssumption
    DEF TypeAndHeld, QueueTypeOK, HeldWhileBusy, ProducerState, ConsumerState
<1>1. ASSUME NEW b \in Buffer, Malloc(b)
      PROVE  TypeAndHeld'
  BY <1>1 DEF Malloc
<1>2. CASE Push
  BY <1>2 DEF Push
<1>3. CASE Signal
  BY <1>3 DEF Signal, Waiting
<1>4. ASSUME NEW c \in Consumer, Wait(c)
      PROVE  TypeAndHeld'
  BY <1>4 DEF Wait
<1>5. ASSUME NEW c \in Consumer, SpuriousWakeup(c)
      PROVE  TypeAndHeld'
  BY <1>5 DEF SpuriousWakeup
<1>6. ASSUME NEW c \in Consumer, Pop(c)
      PROVE  TypeAndHeld'
  <2>1. CASE queue = <<>>
    BY <1>6, <2>1 DEF Pop
  <2>2. CASE queue # <<>>
    <3>1. Head(queue) \in Buffer /\ Tail(queue) \in Seq(Buffer)
      BY <2>2, HeadTailProperties
    <3>2. QED
      BY <1>6, <2>2, <3>1 DEF Pop
  <2>3. QED
    BY <2>1, <2>2
<1>7. ASSUME NEW c \in Consumer, Free(c)
      PROVE  TypeAndHeld'
  BY <1>7 DEF Free
<1>8. CASE UNCHANGED queueVars
  BY <1>8 DEF queueVars
<1>9. QED
  BY <1>1, <1>2, <1>3, <1>4, <1>5, <1>6, <1>7, <1>8 DEF QueueNext, ConsumerLoop

\* The queue's variables keep their types through every push, signal, wakeup,
\* pop and free of the code.
THEOREM QueueTypeCorrect == QueueSpec => []QueueTypeOK
<1>1. TypeAndHeld => QueueTypeOK
  BY DEF TypeAndHeld
<1>2. QED
  BY <1>1, HeldInit, HeldStep, PTL DEF QueueSpec

\* Each thread of the code holds a message buffer exactly between taking it
\* and handing it over.
THEOREM HoldingCorrect == QueueSpec => []HeldWhileBusy
<1>1. TypeAndHeld => HeldWhileBusy
  BY DEF TypeAndHeld
<1>2. QED
  BY <1>1, HeldInit, HeldStep, PTL DEF QueueSpec

-----------------------------------------------------------------------------
\* What a pop does to the queue, in terms of positions.
LEMMA PopShifts ==
  ASSUME QueueTypeOK, queue # <<>>
  PROVE  /\ Len(queue) \in Nat \ {0}
         /\ Head(queue) = queue[1]
         /\ Tail(queue) \in Seq(Buffer)
         /\ Len(Tail(queue)) = Len(queue) - 1
         /\ \A i \in 1..Len(Tail(queue)) : Tail(queue)[i] = queue[i + 1]
         /\ DOMAIN queue = 1..Len(queue)
         /\ DOMAIN Tail(queue) = 1..(Len(queue) - 1)
BY HeadTailProperties, EmptySeq, LenProperties DEF QueueTypeOK

\* What a push does to the queue.
LEMMA PushExtends ==
  ASSUME QueueTypeOK, filling \in Buffer
  PROVE  /\ Len(queue) \in Nat
         /\ Append(queue, filling) \in Seq(Buffer)
         /\ DOMAIN queue = 1..Len(queue)
         /\ DOMAIN Append(queue, filling) = 1..(Len(queue) + 1)
         /\ \A i \in 1..Len(queue) : Append(queue, filling)[i] = queue[i]
         /\ Append(queue, filling)[Len(queue) + 1] = filling
BY DEF QueueTypeOK

-----------------------------------------------------------------------------
\* No step of the code gives a buffer a second owner.
LEMMA OwnerStep ==
  ASSUME TypeAndHeld, SingleOwner, [QueueNext]_queueVars
  PROVE  SingleOwner'
<1> USE QueueAssumption DEF TypeAndHeld, QueueTypeOK, HeldWhileBusy
<1>1. ASSUME NEW b \in Buffer, Malloc(b)
      PROVE  SingleOwner'
  BY <1>1 DEF Malloc, SingleOwner
<1>2. CASE Push
  <2>1. filling \in Buffer
    BY <1>2 DEF Push
  <2>2. QED
    BY <1>2, <2>1, PushExtends DEF Push, SingleOwner
<1>3. CASE Signal
  BY <1>3 DEF Signal, SingleOwner
<1>4. ASSUME NEW c \in Consumer, Wait(c) \/ SpuriousWakeup(c)
      PROVE  SingleOwner'
  BY <1>4 DEF Wait, SpuriousWakeup, SingleOwner
<1>5. ASSUME NEW c \in Consumer, Pop(c)
      PROVE  SingleOwner'
  <2>1. CASE queue = <<>>
    BY <1>5, <2>1 DEF Pop, SingleOwner
  <2>2. CASE queue # <<>>
    <3>1. /\ queue' = Tail(queue)
          /\ holding' = [holding EXCEPT ![c] = queue[1]]
          /\ UNCHANGED <<pool, filling>>
      BY <1>5, <2>2, PopShifts DEF Pop
    <3>2. queue[1] \in Buffer
      BY <2>2, PopShifts
    <3>3. QED
      BY <2>2, <3>1, <3>2, PopShifts DEF SingleOwner
  <2>3. QED
    BY <2>1, <2>2
<1>6. ASSUME NEW c \in Consumer, Free(c)
      PROVE  SingleOwner'
  BY <1>6 DEF Free, SingleOwner
<1>7. CASE UNCHANGED queueVars
  BY <1>7 DEF queueVars, SingleOwner
<1>8. QED
  BY <1>1, <1>2, <1>3, <1>4, <1>5, <1>6, <1>7 DEF QueueNext, ConsumerLoop

\* A message buffer is never free and in use, queued twice, or held by two
\* threads, whatever the threads' interleaving.
THEOREM SingleOwnerCorrect == QueueSpec => []SingleOwner
<1>1. QueueInit => SingleOwner
  BY QueueAssumption DEF QueueInit, SingleOwner
<1>2. QED
  BY <1>1, HeldInit, HeldStep, OwnerStep, PTL DEF QueueSpec

-----------------------------------------------------------------------------
\* No step of the code forgets a buffer.
LEMMA LeakStep ==
  ASSUME TypeAndHeld, NoLeak, [QueueNext]_queueVars
  PROVE  NoLeak'
<1> USE QueueAssumption DEF TypeAndHeld, QueueTypeOK, HeldWhileBusy
<1>1. ASSUME NEW a \in Buffer, Malloc(a)
      PROVE  NoLeak'
  BY <1>1 DEF Malloc, NoLeak
<1>2. CASE Push
  <2>1. filling \in Buffer
    BY <1>2 DEF Push
  <2>2. QED
    BY <1>2, <2>1, PushExtends DEF Push, NoLeak
<1>3. CASE Signal
  BY <1>3 DEF Signal, NoLeak
<1>4. ASSUME NEW c \in Consumer, Wait(c) \/ SpuriousWakeup(c)
      PROVE  NoLeak'
  BY <1>4 DEF Wait, SpuriousWakeup, NoLeak
<1>5. ASSUME NEW c \in Consumer, Pop(c)
      PROVE  NoLeak'
  <2>1. CASE queue = <<>>
    BY <1>5, <2>1 DEF Pop, NoLeak
  <2>2. CASE queue # <<>>
    <3>1. /\ queue' = Tail(queue)
          /\ holding' = [holding EXCEPT ![c] = queue[1]]
          /\ UNCHANGED <<pool, filling>>
      BY <1>5, <2>2, PopShifts DEF Pop
    <3>2. ASSUME NEW i \in DOMAIN queue
          PROVE  \/ holding'[c] = queue[i]
                 \/ \E j \in DOMAIN queue' : queue'[j] = queue[i]
      <4>1. CASE i = 1
        BY <3>1, <4>1
      <4>2. CASE i # 1
        <5>1. i - 1 \in DOMAIN queue' /\ queue'[i - 1] = queue[i]
          BY <2>2, <3>1, <3>2, <4>2, PopShifts
        <5>2. QED
          BY <5>1
      <4>3. QED
        BY <4>1, <4>2
    <3>3. ASSUME NEW d \in Consumer, holding[d] \in Buffer
          PROVE  holding'[d] = holding[d]
      BY <1>5, <3>1, <3>3 DEF Pop
    <3>4. QED
      BY <3>1, <3>2, <3>3 DEF NoLeak
  <2>3. QED
    BY <2>1, <2>2
<1>6. ASSUME NEW c \in Consumer, Free(c)
      PROVE  NoLeak'
  BY <1>6 DEF Free, NoLeak
<1>7. CASE UNCHANGED queueVars
  BY <1>7 DEF queueVars, NoLeak
<1>8. QED
  BY <1>1, <1>2, <1>3, <1>4, <1>5, <1>6, <1>7 DEF QueueNext, ConsumerLoop, NoLeak

\* A buffer taken by the receiving thread comes back to the pool or stays with
\* a thread that will give it back: the code leaks none.
THEOREM NoLeakCorrect == QueueSpec => []NoLeak
<1>1. QueueInit => NoLeak
  BY DEF QueueInit, NoLeak
<1>2. QED
  BY <1>1, HeldInit, HeldStep, LeakStep, PTL DEF QueueSpec

-----------------------------------------------------------------------------
\* How the number of woken consumers changes when one of them moves.
LEMMA WokenCount ==
  /\ IsFiniteSet(Woken)
  /\ Cardinality(Woken) \in Nat
<1>1. Woken \in SUBSET Consumer
  BY DEF Woken
<1>2. QED
  BY <1>1, QueueAssumption, FS_Subset, FS_CardinalityType

LEMMA WokenUp ==
  ASSUME QueueTypeOK, NEW c \in Consumer, consumer[c] # "woken",
         consumer' = [consumer EXCEPT ![c] = "woken"]
  PROVE  Cardinality(Woken') = Cardinality(Woken) + 1
<1>1. Woken' = Woken \cup {c} /\ c \notin Woken
  BY DEF Woken, QueueTypeOK
<1>2. QED
  BY <1>1, WokenCount, FS_AddElement

LEMMA WokenDown ==
  ASSUME QueueTypeOK, NEW c \in Consumer, consumer[c] = "woken",
         NEW s \in ConsumerState, s # "woken",
         consumer' = [consumer EXCEPT ![c] = s]
  PROVE  Cardinality(Woken') = Cardinality(Woken) - 1
<1>1. Woken' = Woken \ {c} /\ c \in Woken
  BY DEF Woken, QueueTypeOK
<1>2. QED
  BY <1>1, WokenCount, FS_RemoveElement

LEMMA WokenSame ==
  ASSUME QueueTypeOK, NEW c \in Consumer, consumer[c] # "woken",
         NEW s \in ConsumerState, s # "woken",
         consumer' = [consumer EXCEPT ![c] = s]
  PROVE  Woken' = Woken
BY DEF Woken, QueueTypeOK

\* Each push owes one signal; a signal wakes a consumer or is counted as lost;
\* each wakeup pops at most once.
LEMMA CoverageStep ==
  ASSUME TypeAndHeld, SignalCoverage, [QueueNext]_queueVars
  PROVE  SignalCoverage'
<1> USE WokenCount DEF TypeAndHeld
<1>a. QueueTypeOK /\ Len(queue) \in Nat /\ lost \in Nat /\ Owed \in Nat
  BY LenProperties DEF QueueTypeOK, Owed
<1>1. ASSUME NEW b \in Buffer, Malloc(b)
      PROVE  SignalCoverage'
  <2>1. Woken' = Woken /\ Owed' = Owed /\ queue' = queue /\ lost' = lost
    BY <1>1 DEF Malloc, Woken, Owed
  <2>2. QED
    BY <2>1 DEF SignalCoverage
<1>2. CASE Push
  <2>1. filling \in Buffer
    BY <1>2 DEF Push, QueueTypeOK, HeldWhileBusy
  <2>2. Len(queue') = Len(queue) + 1
    BY <1>2, <2>1 DEF Push, QueueTypeOK
  <2>3. Woken' = Woken /\ Owed' = 1 /\ Owed = 0 /\ lost' = lost
    BY <1>2 DEF Push, Woken, Owed
  <2>4. QED
    BY <1>a, <2>2, <2>3 DEF SignalCoverage
<1>3. CASE Signal
  <2>1. Owed = 1 /\ Owed' = 0 /\ queue' = queue
    BY <1>3 DEF Signal, Owed
  <2>2. CASE Waiting = {}
    <3>1. Woken' = Woken /\ lost' = lost + 1
      BY <1>3, <2>2 DEF Signal, Woken
    <3>2. QED
      BY <1>a, <2>1, <3>1 DEF SignalCoverage
  <2>3. ASSUME NEW c \in Waiting, lost' = lost,
               consumer' = [consumer EXCEPT ![c] = "woken"]
        PROVE  SignalCoverage'
    <3>1. Cardinality(Woken') = Cardinality(Woken) + 1
      BY <1>a, <2>3, WokenUp DEF Waiting
    <3>2. QED
      BY <1>a, <2>1, <2>3, <3>1 DEF SignalCoverage
  <2>4. QED
    BY <1>3, <2>2, <2>3 DEF Signal
<1>4. ASSUME NEW c \in Consumer, Wait(c)
      PROVE  SignalCoverage'
  <2>1. Woken' = Woken
    BY <1>4, <1>a, WokenSame DEF Wait, ConsumerState
  <2>2. Owed' = Owed /\ queue' = queue /\ lost' = lost
    BY <1>4 DEF Wait, Owed
  <2>3. QED
    BY <2>1, <2>2 DEF SignalCoverage
<1>5. ASSUME NEW c \in Consumer, SpuriousWakeup(c)
      PROVE  SignalCoverage'
  <2>1. Cardinality(Woken') = Cardinality(Woken) + 1
    BY <1>5, <1>a, WokenUp DEF SpuriousWakeup
  <2>2. Owed' = Owed /\ queue' = queue /\ lost' = lost
    BY <1>5 DEF SpuriousWakeup, Owed
  <2>3. QED
    BY <1>a, <2>1, <2>2 DEF SignalCoverage
<1>6. ASSUME NEW c \in Consumer, Pop(c)
      PROVE  SignalCoverage'
  <2>1. Cardinality(Woken') = Cardinality(Woken) - 1
    BY <1>6, <1>a, WokenDown DEF Pop, ConsumerState
  <2>2. Owed' = Owed /\ lost' = lost
    BY <1>6 DEF Pop, Owed
  <2>3. Cardinality(Woken') \in Nat
    <3>1. Woken' \in SUBSET Consumer
      BY DEF Woken
    <3>2. QED
      BY <3>1, QueueAssumption, FS_Subset, FS_CardinalityType
  <2>4. CASE queue = <<>>
    <3>1. Len(queue') = 0
      BY <1>6, <2>4 DEF Pop
    <3>2. QED
      BY <1>a, <2>2, <2>3, <3>1 DEF SignalCoverage
  <2>5. CASE queue # <<>>
    <3>1. Len(queue') = Len(queue) - 1
      BY <1>6, <1>a, <2>5, PopShifts DEF Pop
    <3>2. QED
      BY <1>a, <2>1, <2>2, <3>1 DEF SignalCoverage
  <2>6. QED
    BY <2>4, <2>5
<1>7. ASSUME NEW c \in Consumer, Free(c)
      PROVE  SignalCoverage'
  <2>1. Woken' = Woken
    BY <1>7, <1>a, WokenSame DEF Free, ConsumerState
  <2>2. Owed' = Owed /\ queue' = queue /\ lost' = lost
    BY <1>7 DEF Free, Owed
  <2>3. QED
    BY <2>1, <2>2 DEF SignalCoverage
<1>8. CASE UNCHANGED queueVars
  <2>1. Woken' = Woken /\ Owed' = Owed /\ queue' = queue /\ lost' = lost
    BY <1>8 DEF queueVars, Woken, Owed
  <2>2. QED
    BY <2>1 DEF SignalCoverage
<1>9. QED
  BY <1>1, <1>2, <1>3, <1>4, <1>5, <1>6, <1>7, <1>8 DEF QueueNext, ConsumerLoop

\* The consumers wait with no predicate, yet a queued message lacks a wakeup
\* only if a signal found nobody waiting: queued messages never outnumber the
\* woken consumers, the signal still owed and the signals lost.
THEOREM SignalCoverageCorrect == QueueSpec => []SignalCoverage
<1>1. QueueInit => SignalCoverage
  <2>1. ASSUME QueueInit
        PROVE  Woken = {} /\ Owed = 0 /\ lost = 0 /\ Len(queue) = 0
    BY <2>1 DEF QueueInit, Woken, Owed
  <2>2. QED
    BY <2>1, FS_EmptySet DEF SignalCoverage
<1>2. QED
  BY <1>1, HeldInit, HeldStep, CoverageStep, PTL DEF QueueSpec

-----------------------------------------------------------------------------
\* Every step of a server thread is a step of the queue or leaves it alone.
LEMMA QueueStep == [Next]_vars => [QueueNext]_queueVars
<1> SUFFICES ASSUME [Next]_vars
             PROVE  [QueueNext]_queueVars
  OBVIOUS
<1>1. ASSUME NEW c \in Conn, Client(c)
      PROVE  UNCHANGED queueVars
  BY <1>1 DEF Client
<1>2. CASE Main
  BY <1>2 DEF Main
<1>3. CASE Receiver
  <2>1. CASE Gather \/ Select \/ SelectFails \/ \E c \in Conn : ReceiveNothing(c)
    BY <2>1 DEF Gather, Select, SelectFails, ReceiveNothing
  <2>2. CASE \E c \in Conn, b \in Buffer : ReceiveRequest(c, b)
    BY <2>2 DEF ReceiveRequest, QueueNext
  <2>3. CASE PushMessage \/ SignalConsumer
    BY <2>3 DEF PushMessage, SignalConsumer, QueueNext
  <2>4. QED
    BY <1>3, <2>1, <2>2, <2>3 DEF Receiver
<1>4. ASSUME NEW k \in Consumer, ConsumerStep(k)
      PROVE  [QueueNext]_queueVars
  <2>1. CASE WaitForMessage(k)
    BY <2>1 DEF WaitForMessage, QueueNext, ConsumerLoop
  <2>2. CASE TakeMessage(k)
    BY <2>2 DEF TakeMessage, QueueNext, ConsumerLoop
  <2>3. CASE Controller(k)
    BY <2>3 DEF Controller, Login, Ignore, HallEnter, Sitdown, Flush, NullConn, TakeSeat
  <2>4. CASE ReleaseMessage(k)
    BY <2>4 DEF ReleaseMessage, QueueNext, ConsumerLoop
  <2>5. QED
    BY <1>4, <2>1, <2>2, <2>3, <2>4 DEF ConsumerStep
<1>5. CASE Interrupt
  BY <1>5 DEF Interrupt
<1>6. CASE UNCHANGED vars
  BY <1>6 DEF vars
<1>7. QED
  BY <1>1, <1>2, <1>3, <1>4, <1>5, <1>6 DEF Next

\* What holds of the queue holds of the queue in the server.
LEMMA ServerUsesQueue == Spec => QueueSpec
<1>1. Init => QueueInit
  BY DEF Init
<1>2. QED
  BY <1>1, QueueStep, PTL DEF Spec, QueueSpec

\* Inside the server, too, a message buffer has one owner.
THEOREM ServerSingleOwner == Spec => []SingleOwner
BY ServerUsesQueue, SingleOwnerCorrect, PTL

\* Inside the server, too, a message is left without a wakeup only when a
\* signal found every consumer busy.
THEOREM ServerSignalCoverage == Spec => []SignalCoverage
BY ServerUsesQueue, SignalCoverageCorrect, PTL

-----------------------------------------------------------------------------
\* Main publishes a slot and registers it before it accepts the next client.
THEOREM SlotsRegisteredCorrect == Spec => []SlotsRegistered
<1> DEFINE SInv == slots \in Seq(Conn) /\ SlotsRegistered
<1>1. Init => SInv
  BY DEF Init, SlotsRegistered, Elems
<1>2. SInv /\ [Next]_vars => SInv'
  <2> SUFFICES ASSUME SInv, [Next]_vars
               PROVE  SInv'
    OBVIOUS
  <2> USE ServerAssumption
  <2>1. ASSUME NEW c \in Conn, Accept(c)
        PROVE  SInv'
    <3>1. CASE Len(slots) < MaxClient /\ slots' = Append(slots, c) /\ accepting' = c
      <4>1. Elems(slots') = Elems(slots) \cup {c}
        BY <3>1 DEF Elems
      <4>2. registered' = registered /\ accepting = NoConn /\ c \notin Elems(slots)
        BY <2>1 DEF Accept
      <4>3. slots' # <<>> /\ slots'[Len(slots')] = c /\ slots' \in Seq(Conn)
        BY <3>1
      <4>4. QED
        BY <3>1, <4>1, <4>2, <4>3 DEF SlotsRegistered
    <3>2. CASE UNCHANGED <<slots, accepting>>
      BY <2>1, <3>2 DEF Accept, SlotsRegistered, Elems
    <3>3. QED
      BY <2>1, <3>1, <3>2 DEF Accept
  <2>2. CASE Register
    <3>1. accepting \in Elems(slots)
      BY <2>2 DEF Register, SlotsRegistered, Elems
    <3>2. QED
      BY <2>2, <3>1 DEF Register, SlotsRegistered, Elems
  <2>3. CASE UNCHANGED mainVars
    BY <2>3 DEF mainVars, SlotsRegistered, Elems
  <2>4. QED
    BY <2>1, <2>2, <2>3 DEF Next, Main, Client, Receiver, ConsumerStep, Interrupt, vars
<1>3. QED
  BY <1>1, <1>2, PTL DEF Spec

-----------------------------------------------------------------------------
(***************************************************************************)
(* Type correctness.  A controller reads the message its consumer holds,   *)
(* so the types need the queue's invariants and the fact that every buffer *)
(* outside the pool has been filled.                                       *)
(***************************************************************************)
FilledBuffers == \A b \in Buffer \ pool : msg[b] \in Message

QueueInv  == TypeAndHeld /\ SingleOwner
ServerInv == QueueInv /\ TypeOK /\ HandlesWhatItHolds /\ FilledBuffers

\* The queue's part of the invariant is kept by every step of the server.
LEMMA QueueInvStep == QueueInv /\ [Next]_vars => QueueInv'
BY QueueStep, HeldStep, OwnerStep DEF QueueInv

LEMMA ServerInvInit == Init => ServerInv
<1> SUFFICES ASSUME Init
             PROVE  ServerInv
  OBVIOUS
<1> USE QueueAssumption, ServerAssumption
<1>1. QueueInv
  BY HeldInit DEF Init, QueueInit, QueueInv, SingleOwner
<1>2. TypeOK
  BY DEF Init, TypeOK, Place, Cause, Bits
<1>3. HandlesWhatItHolds /\ FilledBuffers
  BY DEF Init, QueueInit, HandlesWhatItHolds, FilledBuffers
<1>4. QED
  BY <1>1, <1>2, <1>3 DEF ServerInv

\* What a consumer in a controller knows of its message.
LEMMA HeldMessage ==
  ASSUME ServerInv, NEW k \in Consumer, at[k] # "none"
  PROVE  /\ consumer[k] = "busy"
         /\ holding[k] \in Buffer
         /\ MsgOf(k) \in Message
         /\ MsgOf(k).req \in Request
         /\ MsgOf(k).conn \in Conn \cup {NoConn}
         /\ BodyOf(k) \in AnyPayload
BY ServerAssumption
   DEF ServerInv, HandlesWhatItHolds, MsgOf, BodyOf, Message, Request

\* A client changes only its own end of the connection.
LEMMA ClientStep ==
  ASSUME ServerInv, NEW c \in Conn, Client(c)
  PROVE  TypeOK' /\ HandlesWhatItHolds' /\ FilledBuffers'
<1>1. HandlesWhatItHolds' /\ FilledBuffers'
  BY DEF ServerInv, Client, queueVars, HandlesWhatItHolds, FilledBuffers
<1>2. TypeOK'
  <2>1. peer' \in [Conn -> {"none", "open", "closed"}]
    BY DEF ServerInv, TypeOK, Client, Connect, Close, Send
  <2>2. sent' \in [Conn -> 0..MaxSend] /\ inbox' \in [Conn -> Seq(Request)]
    <3>1. CASE Connect(c) \/ Close(c)
      BY <3>1 DEF ServerInv, TypeOK, Connect, Close
    <3>2. ASSUME NEW p \in Payload, Send(c, p)
          PROVE  sent' \in [Conn -> 0..MaxSend] /\ inbox' \in [Conn -> Seq(Request)]
      <4>1. sent[c] + 1 \in 1..MaxSend
        BY <3>2, ServerAssumption DEF ServerInv, TypeOK, Send
      <4>2. [from |-> c, ctx |-> sent[c] + 1, body |-> p] \in Request
        BY <4>1, ServerAssumption DEF Request
      <4>3. sent' \in [Conn -> 0..MaxSend]
        BY <3>2, <4>1 DEF ServerInv, TypeOK, Send
      <4>4. QED
        BY <3>2, <4>2, <4>3 DEF ServerInv, TypeOK, Send
    <3>3. QED
      BY <3>1, <3>2 DEF Client
  <2>3. QED
    BY <2>1, <2>2
       DEF ServerInv, TypeOK, Client, mainVars, recvVars, dataVars
<1>3. QED
  BY <1>1, <1>2

\* Accepting a client fills a slot, registers it or ends the process.
LEMMA MainStep ==
  ASSUME ServerInv, Main
  PROVE  TypeOK' /\ HandlesWhatItHolds' /\ FilledBuffers'
<1>1. HandlesWhatItHolds' /\ FilledBuffers'
  BY DEF ServerInv, Main, queueVars, HandlesWhatItHolds, FilledBuffers
<1>2. /\ slots' \in Seq(Conn)
      /\ accepting' \in Conn \cup {NoConn}
      /\ registered' \subseteq Conn
      /\ proc' \in {"up"} \cup Cause
  <2>1. CASE Register
    BY <2>1 DEF ServerInv, TypeOK, Register
  <2>2. ASSUME NEW c \in Conn, Accept(c)
        PROVE  /\ slots' \in Seq(Conn)
               /\ accepting' \in Conn \cup {NoConn}
               /\ registered' = registered
               /\ proc' \in {"up"} \cup Cause
    <3>1. CASE slots' = Append(slots, c) /\ accepting' = c /\ proc' = proc
      BY <2>2, <3>1 DEF ServerInv, TypeOK, Accept
    <3>2. CASE UNCHANGED <<slots, accepting>> /\ proc' = "full"
      BY <2>2, <3>2 DEF ServerInv, TypeOK, Accept, Cause
    <3>3. QED
      BY <2>2, <3>1, <3>2 DEF Accept
  <2>3. QED
    BY <2>1, <2>2 DEF ServerInv, TypeOK, Main, Cause
<1>3. QED
  BY <1>1, <1>2 DEF ServerInv, TypeOK, Main, netVars, recvVars, dataVars

\* What is left of a sequence.
LEMMA Remaining ==
  ASSUME NEW S, NEW s \in Seq(S), NEW n \in DOMAIN s,
         NEW r, r = SubSeq(s, n + 1, Len(s))
  PROVE  /\ r \in Seq(S)
         /\ <<>> \o r = r
         /\ \A i \in DOMAIN r : i + n \in DOMAIN s /\ r[i] = s[i + n]
<1>1. /\ r \in Seq(S)
      /\ \A i \in DOMAIN r : i + n \in DOMAIN s /\ r[i] = s[i + n]
  OBVIOUS
<1>2. <<>> \o r = r
  BY <1>1
<1>3. QED
  BY <1>1, <1>2

\* A sequence with an element put in front of it.
LEMMA PutBefore ==
  ASSUME NEW S, NEW r \in Seq(S), NEW e \in S, NEW t, t = <<e>> \o r
  PROVE  /\ t \in Seq(S)
         /\ \A i \in DOMAIN t : t[i] = e \/ \E j \in DOMAIN r : t[i] = r[j]
<1>1. /\ t \in Seq(S)
      /\ DOMAIN t = 1..(Len(r) + 1)
      /\ t[1] = e
      /\ \A j \in DOMAIN r : t[j + 1] = r[j]
      /\ DOMAIN r = 1..Len(r) /\ Len(r) \in Nat
  OBVIOUS
<1>2. ASSUME NEW i \in 1..(Len(r) + 1), i # 1
      PROVE  \E j \in DOMAIN r : t[i] = r[j]
  <2>1. i - 1 \in DOMAIN r /\ (i - 1) + 1 = i
    BY <1>1, <1>2
  <2>2. t[(i - 1) + 1] = r[i - 1]
    BY <1>1, <2>1
  <2>3. QED
    BY <2>1, <2>2
<1>3. QED
  BY <1>1, <1>2

\* Fields replaced by zeros.
LEMMA ZeroFields ==
  ASSUME NEW p \in AnyPayload
  PROVE  /\ Blank(p.op) \in AnyPayload
         /\ [Blank(p.op) EXCEPT !.room = p.room] \in AnyPayload
         /\ [p EXCEPT !.pos = 0] \in AnyPayload
<1>1. /\ p.op \in Op /\ p.room \in Nat /\ p.table \in Nat /\ 0 \in 0..2 /\ 0 \in Nat
      /\ p = [op |-> p.op, room |-> p.room, table |-> p.table, pos |-> p.pos]
  BY DEF AnyPayload
<1>2. [Blank(p.op) EXCEPT !.room = p.room]
        = [op |-> p.op, room |-> p.room, table |-> 0, pos |-> 0]
  BY <1>1 DEF Blank
<1>3. [p EXCEPT !.pos = 0] = [op |-> p.op, room |-> p.room, table |-> p.table, pos |-> 0]
  BY <1>1
<1>4. QED
  BY <1>1, <1>2, <1>3 DEF AnyPayload, Blank

\* However a request is cut, what is read of it has the type of a request.
LEMMA ReadingTypes ==
  ASSUME NEW c \in Conn, NEW q \in Request, NEW whole \in BOOLEAN,
         NEW r \in Readings(c, q, whole)
  PROVE  r \in Request /\ r.from \in {c, q.from}
<1> USE ServerAssumption DEF Request, AnyPayload
<1>1. /\ q = [from |-> q.from, ctx |-> q.ctx, body |-> q.body]
      /\ q.body = [op |-> q.body.op, room |-> q.body.room, table |-> q.body.table,
                   pos |-> q.body.pos]
  OBVIOUS
<1>2. \A op \in Op : Blank(op) \in AnyPayload
  BY DEF Blank
<1>3. "unknown" \in Op /\ q.body.op \in Op
  BY DEF Op
<1>4. ASSUME NEW g \in Garbled
      PROVE  /\ [from |-> c, ctx |-> g.ctx, body |-> g.body] \in Request
             /\ [from |-> c, ctx |-> g.ctx, body |-> g.body].from = c
  OBVIOUS
<1>5. ASSUME NEW d \in Conn
      PROVE  Rest(d) \in Request /\ Rest(d).from = d
  BY <1>2, <1>3 DEF Rest
<1>6. ASSUME NEW p \in AnyPayload
      PROVE  /\ [q EXCEPT !.body = p] \in Request
             /\ [q EXCEPT !.body = p].from = q.from
             /\ [q EXCEPT !.ctx = 0, !.body = p] \in Request
             /\ [q EXCEPT !.ctx = 0, !.body = p].from = q.from
  BY <1>1
<1>7. /\ [Blank(q.body.op) EXCEPT !.room = q.body.room] \in AnyPayload
      /\ [q.body EXCEPT !.pos = 0] \in AnyPayload
  <2>1. q.body \in AnyPayload
    OBVIOUS
  <2>2. QED
    BY <2>1, ZeroFields
<1>8. CASE q.ctx = 0
  BY <1>4, <1>8 DEF Readings
<1>9. CASE q.ctx # 0 /\ whole
  BY <1>9 DEF Readings
<1>10. CASE q.ctx # 0 /\ ~whole
  <2>1. r \in Beginnings(q)
    BY <1>10 DEF Readings
  <2>2. ASSUME NEW x \in Beginnings(q)
        PROVE  x \in Request /\ x.from = q.from
    <3> DEFINE u == Blank(q.body.op)
               v == [Blank(q.body.op) EXCEPT !.room = q.body.room]
               w == [q.body EXCEPT !.pos = 0]
    <3>1. Beginnings(q) = {Rest(q.from), [q EXCEPT !.ctx = 0, !.body = u]}
                            \cup {[q EXCEPT !.body = p] : p \in {u, v, w}}
      BY DEF Beginnings
    <3>2. /\ u \in AnyPayload /\ v \in AnyPayload /\ w \in AnyPayload
          /\ q.from \in Conn
      BY <1>2, <1>3, <1>7
    <3> HIDE DEF u, v, w
    <3>3. CASE x = Rest(q.from)
      BY <1>5, <3>2, <3>3
    <3>4. CASE x = [q EXCEPT !.ctx = 0, !.body = u]
      BY <1>6, <3>2, <3>4
    <3>5. ASSUME NEW p \in {u, v, w}, x = [q EXCEPT !.body = p]
          PROVE  x \in Request /\ x.from = q.from
      <4>1. p \in AnyPayload
        BY <3>2
      <4>2. QED
        BY <1>6, <3>5, <4>1
    <3>6. QED
      BY <3>1, <3>3, <3>4, <3>5
  <2>3. QED
    BY <2>1, <2>2
<1>11. QED
  BY <1>8, <1>9, <1>10

\* What recv takes from a socket and what it leaves there.
LEMMA Received ==
  ASSUME ServerInv, NEW c \in Conn, NEW b \in Buffer, ReceiveRequest(c, b)
  PROVE  /\ inbox[c] \in Seq(Request)
         /\ \A d \in Conn : d # c => inbox'[d] = inbox[d] /\ cuts'[d] = cuts[d]
         /\ inbox' \in [Conn -> Seq(Request)]
         /\ cuts' \in [Conn -> 0..MaxCut]
         /\ swallowed' \subseteq Request
         /\ \E q \in Request :
              /\ msg' = [msg EXCEPT ![b] =
                           [req |-> q, conn |-> IF c \in registered THEN c ELSE NoConn]]
              /\ q.from \in {c, inbox[c][1].from}
              /\ \A i \in DOMAIN inbox'[c] :
                   inbox'[c][i] = Rest(c) \/ \E j \in DOMAIN inbox[c] : inbox'[c][i] = inbox[c][j]
              /\ \/ cuts'[c] # 0
                 \/ /\ cuts[c] = 0
                    /\ 1 \in DOMAIN inbox[c] /\ (inbox[c][1].ctx # 0 => q = inbox[c][1])
                    /\ \E n \in Nat \ {0} :
                         \A i \in DOMAIN inbox'[c] :
                           i + n \in DOMAIN inbox[c] /\ inbox'[c][i] = inbox[c][i + n]
<1> USE DEF ServerInv, TypeOK
<1>1. PICK n \in DOMAIN inbox[c], whole \in BOOLEAN :
        /\ whole \/ cuts[c] < MaxCut
        /\ cuts' = IF whole THEN cuts ELSE [cuts EXCEPT ![c] = @ + 1]
        /\ inbox' = [inbox EXCEPT ![c] =
                       (IF whole THEN <<>> ELSE <<Rest(c)>>) \o SubSeq(@, n + 1, Len(@))]
        /\ swallowed' = swallowed \cup
             {inbox[c][i] : i \in (IF whole \/ n > 1 THEN 2 ELSE 1)..n}
        /\ \E q \in Readings(c, inbox[c][1], whole \/ n > 1) :
             msg' = [msg EXCEPT ![b] =
                      [req |-> q, conn |-> IF c \in registered THEN c ELSE NoConn]]
  BY DEF ReceiveRequest
<1>2. PICK q \in Readings(c, inbox[c][1], whole \/ n > 1) :
        msg' = [msg EXCEPT ![b] =
                 [req |-> q, conn |-> IF c \in registered THEN c ELSE NoConn]]
  BY <1>1
<1>3. /\ inbox[c] \in Seq(Request)
      /\ DOMAIN inbox[c] = 1..Len(inbox[c]) /\ n \in Nat \ {0} /\ Len(inbox[c]) \in Nat
      /\ 1 \in DOMAIN inbox[c] /\ inbox[c][1] \in Request
  OBVIOUS
<1>4. Rest(c) \in Request
  BY DEF Rest, Request, Blank, AnyPayload, Op
<1>5. q \in Request /\ q.from \in {c, inbox[c][1].from}
  BY <1>3, ReadingTypes
<1>6. \A d \in Conn : d # c => inbox'[d] = inbox[d] /\ cuts'[d] = cuts[d]
  BY <1>1
<1>7. swallowed' \subseteq Request
  <2>1. \A i \in 1..n : inbox[c][i] \in Request
    BY <1>3
  <2>2. \A i \in (IF whole \/ n > 1 THEN 2 ELSE 1)..n : inbox[c][i] \in Request
    BY <1>3, <2>1
  <2>3. QED
    BY <1>1, <2>2
<1> DEFINE r == SubSeq(inbox[c], n + 1, Len(inbox[c]))
<1>8. /\ r \in Seq(Request)
      /\ <<>> \o r = r
      /\ \A i \in DOMAIN r : i + n \in DOMAIN inbox[c] /\ r[i] = inbox[c][i + n]
  BY <1>3, Remaining
<1>9. inbox' = [inbox EXCEPT ![c] = (IF whole THEN <<>> ELSE <<Rest(c)>>) \o r]
  BY <1>1
<1> HIDE DEF r
<1>10. CASE whole
  <2>1. inbox' = [inbox EXCEPT ![c] = r] /\ inbox'[c] = r
    BY <1>8, <1>9, <1>10
  <2>2. inbox' \in [Conn -> Seq(Request)] /\ cuts' = cuts
    BY <1>1, <1>8, <1>10, <2>1
  <2>3. inbox[c][1].ctx # 0 => q = inbox[c][1]
    BY <1>2, <1>10 DEF Readings
  <2>4. /\ cuts' \in [Conn -> 0..MaxCut]
        /\ cuts'[c] # 0 \/ cuts[c] = 0
    BY <2>2
  <2>5. \A i \in DOMAIN inbox'[c] :
          i + n \in DOMAIN inbox[c] /\ inbox'[c][i] = inbox[c][i + n]
    BY <1>8, <2>1
  <2> HIDE DEF ServerInv, TypeOK
  <2>6. QED
    BY <1>2, <1>3, <1>5, <1>6, <1>7, <2>2, <2>3, <2>4, <2>5
<1>11. CASE ~whole
  <2>1. PICK e \in Request : e = Rest(c)
    BY <1>4
  <2>2. inbox' = [inbox EXCEPT ![c] = <<e>> \o r] /\ inbox'[c] = <<e>> \o r
    BY <1>9, <1>11, <2>1
  <2>3. /\ inbox'[c] \in Seq(Request)
        /\ \A i \in DOMAIN inbox'[c] :
             inbox'[c][i] = e \/ \E j \in DOMAIN r : inbox'[c][i] = r[j]
    <3> HIDE DEF ServerInv, TypeOK
    <3>1. PICK t : t = <<e>> \o r
      OBVIOUS
    <3>2. /\ t \in Seq(Request)
          /\ \A i \in DOMAIN t : t[i] = e \/ \E j \in DOMAIN r : t[i] = r[j]
      BY <1>8, <3>1, PutBefore
    <3>3. QED
      BY <2>2, <3>1, <3>2
  <2>4. \A i \in DOMAIN inbox'[c] :
          inbox'[c][i] = Rest(c) \/ \E j \in DOMAIN inbox[c] : inbox'[c][i] = inbox[c][j]
    BY <1>8, <2>1, <2>3
  <2>5. inbox' \in [Conn -> Seq(Request)]
    BY <2>2, <2>3
  <2>6. cuts[c] + 1 \in 0..MaxCut /\ cuts[c] + 1 # 0
    <3>1. MaxCut \in Nat /\ cuts[c] \in 0..MaxCut /\ cuts[c] < MaxCut
      BY <1>1, <1>11, ServerAssumption
    <3>2. QED
      BY <3>1
  <2>7. cuts' \in [Conn -> 0..MaxCut] /\ cuts'[c] # 0
    BY <1>1, <1>11, <2>6
  <2>8. QED
    BY <1>2, <1>3, <1>5, <1>6, <1>7, <2>4, <2>5, <2>7
<1>12. QED
  BY <1>10, <1>11

\* The receiving thread fills the buffer it has just taken from the pool.
LEMMA ReceiverStep ==
  ASSUME ServerInv, Receiver
  PROVE  TypeOK' /\ HandlesWhatItHolds' /\ FilledBuffers'
<1> USE DEF ServerInv, TypeOK
<1>1. /\ recv' \in {"gather", "select", "scan", "ended"}
      /\ rfds' \subseteq Conn
  <2>1. \/ Gather \/ Select \/ SelectFails \/ UNCHANGED <<recv, rfds>>
        \/ \E c \in Conn : ScanPast(c)
    BY DEF Receiver, ReceiveRequest, ReceiveNothing, PushMessage, SignalConsumer, recvVars
  <2>2. QED
    BY <2>1 DEF Gather, Select, SelectFails, ScanPast, Elems
<1>2. ASSUME NEW c \in Conn, NEW b \in Buffer, ReceiveRequest(c, b)
      PROVE  /\ inbox' \in [Conn -> Seq(Request)]
             /\ cuts' \in [Conn -> 0..MaxCut]
             /\ swallowed' \subseteq Request
             /\ msg' \in [Buffer -> Message \cup {<<>>}]
             /\ HandlesWhatItHolds'
             /\ FilledBuffers'
  <2>1. PICK q \in Request :
          msg' = [msg EXCEPT ![b] =
                   [req |-> q, conn |-> IF c \in registered THEN c ELSE NoConn]]
    BY <1>2, Received
  <2>2. [req |-> q, conn |-> IF c \in registered THEN c ELSE NoConn] \in Message
    BY DEF Message
  <2>4. msg'[b] \in Message /\ \A d \in Buffer \ {b} : msg'[d] = msg[d]
    BY <2>1, <2>2
  <2>5. /\ b \in pool
        /\ pool' = pool \ {b}
        /\ UNCHANGED <<consumer, holding, at>>
    BY <1>2 DEF ReceiveRequest, Malloc, Receiver
  <2>6. HandlesWhatItHolds' /\ FilledBuffers'
    BY <2>4, <2>5 DEF HandlesWhatItHolds, FilledBuffers, QueueInv, SingleOwner
  <2>7. msg' \in [Buffer -> Message \cup {<<>>}]
    BY <2>1, <2>2
  <2>8. QED
    BY <1>2, <2>6, <2>7, Received
<1>3. CASE Gather \/ Select \/ SelectFails \/ (\E c \in Conn : ReceiveNothing(c))
  <2>1. UNCHANGED <<queueVars, cuts, swallowed, inbox, msg, at>>
    BY <1>3 DEF Gather, Select, SelectFails, ReceiveNothing, Receiver
  <2>2. QED
    BY <1>1, <2>1 DEF Receiver, queueVars, mainVars, dataVars, HandlesWhatItHolds, FilledBuffers
<1>4. CASE PushMessage \/ SignalConsumer
  <2>1. UNCHANGED <<cuts, swallowed, inbox, msg, at, pool, holding>>
    BY <1>4 DEF PushMessage, SignalConsumer, Push, Signal, recvVars, Receiver
  <2>2. \A k \in Consumer : consumer'[k] = "busy" <=> consumer[k] = "busy"
    BY <1>4 DEF PushMessage, SignalConsumer, Push, Signal, Waiting,
                QueueInv, TypeAndHeld, QueueTypeOK
  <2>3. HandlesWhatItHolds' /\ FilledBuffers'
    BY <2>1, <2>2 DEF HandlesWhatItHolds, FilledBuffers
  <2>4. QED
    BY <1>1, <2>1, <2>3 DEF Receiver, mainVars, dataVars
<1>5. QED
  BY <1>1, <1>2, <1>3, <1>4 DEF Receiver, mainVars, dataVars

\* Writing one more response to a connection.
LEMMA AppendTo ==
  ASSUME NEW f \in [Conn -> Seq(Request)], NEW c \in Conn, NEW r \in Request
  PROVE  [f EXCEPT ![c] = Append(@, r)] \in [Conn -> Seq(Request)]
<1>1. Append(f[c], r) \in Seq(Request)
  OBVIOUS
<1>2. QED
  BY <1>1

\* A controller works on the message its consumer holds.
LEMMA ControllerStep ==
  ASSUME ServerInv, NEW k \in Consumer, Controller(k),
         UNCHANGED <<netVars, mainVars, recvVars, msg>>
  PROVE  TypeOK' /\ HandlesWhatItHolds' /\ FilledBuffers'
<1>1. at[k] # "none" /\ UNCHANGED queueVars
  BY DEF Controller, Login, Ignore, HallEnter, Sitdown, Flush, NullConn, TakeSeat
<1>2. /\ MsgOf(k).req \in Request
      /\ MsgOf(k).conn \in Conn \cup {NoConn}
      /\ BodyOf(k) \in AnyPayload
  BY <1>1, HeldMessage
<1>3. at' \in [Consumer -> Place] /\ \A j \in Consumer : at'[j] # "none" <=> at[j] # "none"
  BY <1>1 DEF ServerInv, TypeOK, Place, GoTo,
              Controller, Login, Ignore, HallEnter, Sitdown, Flush, NullConn, TakeSeat
<1>4. HandlesWhatItHolds' /\ FilledBuffers'
  BY <1>1, <1>3 DEF ServerInv, HandlesWhatItHolds, FilledBuffers, queueVars
<1>5. /\ stream' \in [Conn -> Seq(Request)]
      /\ proc' \in {"up"} \cup Cause
      /\ isAuth' \subseteq Conn
      /\ users' \subseteq Conn
      /\ roomList' \in Seq(Conn)
      /\ tables' \in [Tables -> SUBSET Bits]
  <2> USE <1>2 DEF ServerInv, TypeOK, Cause
  <2>1. CASE Login(k)
    BY <2>1 DEF Login
  <2>2. CASE Ignore(k) \/ Sitdown(k) \/ NullConn(k)
    BY <2>2 DEF Ignore, Sitdown, NullConn, dataVars
  <2>3. CASE HallEnter(k)
    BY <2>3 DEF HallEnter
  <2>4. CASE Flush(k)
    <3>1. /\ MsgOf(k).conn \in Conn
          /\ UNCHANGED dataVars
          /\ proc' \in {proc, "up", "broken_pipe"}
      <4>1. proc' = proc \/ proc' \in {"up", "broken_pipe"}
        BY <2>4 DEF Flush
      <4>2. QED
        BY <2>4, <4>1 DEF Flush
    <3>2. \/ stream' = stream
          \/ stream' = [stream EXCEPT ![MsgOf(k).conn] = Append(@, MsgOf(k).req)]
      BY <2>4 DEF Flush
    <3>3. stream' \in [Conn -> Seq(Request)]
      <4>1. stream \in [Conn -> Seq(Request)] /\ MsgOf(k).req \in Request
        OBVIOUS
      <4>2. [stream EXCEPT ![MsgOf(k).conn] = Append(@, MsgOf(k).req)]
              \in [Conn -> Seq(Request)]
        BY <3>1, <4>1, AppendTo
      <4>3. QED
        BY <3>2, <4>1, <4>2
    <3>4. QED
      BY <3>1, <3>3 DEF dataVars
  <2>5. CASE TakeSeat(k)
    <3>1. SeatBits(BodyOf(k)) \subseteq Bits
      BY DEF SeatBits, Bits
    <3>2. QED
      BY <2>5, <3>1 DEF TakeSeat
  <2>6. QED
    BY <2>1, <2>2, <2>3, <2>4, <2>5 DEF Controller
<1>6. QED
  BY <1>3, <1>4, <1>5 DEF ServerInv, TypeOK, netVars, mainVars, recvVars

\* Taking and giving back a message moves both program counters together.
LEMMA LoopStep ==
  ASSUME ServerInv, NEW k \in Consumer,
         WaitForMessage(k) \/ TakeMessage(k) \/ ReleaseMessage(k),
         UNCHANGED <<netVars, mainVars, recvVars, msg>>
  PROVE  TypeOK' /\ HandlesWhatItHolds' /\ FilledBuffers'
<1> USE DEF ServerInv, QueueInv, TypeAndHeld, QueueTypeOK
<1>1. /\ UNCHANGED <<stream, dataVars, proc>>
      /\ at' \in [Consumer -> Place]
  BY DEF WaitForMessage, TakeMessage, ReleaseMessage, GoTo, TypeOK, Place
<1>2. TypeOK'
  BY <1>1 DEF TypeOK, netVars, mainVars, recvVars, dataVars
<1>3. HandlesWhatItHolds' /\ FilledBuffers'
  <2>1. CASE WaitForMessage(k)
    BY <2>1 DEF WaitForMessage, Wait, SpuriousWakeup, HandlesWhatItHolds, FilledBuffers
  <2>2. CASE TakeMessage(k) /\ queue = <<>>
    BY <2>2 DEF TakeMessage, Pop, GoTo, TypeOK, HandlesWhatItHolds, FilledBuffers
  <2>3. CASE TakeMessage(k) /\ queue # <<>>
    <3>1. queue[1] \in Buffer \ pool
      BY <2>3, PopShifts DEF SingleOwner
    <3>2. /\ holding' = [holding EXCEPT ![k] = queue[1]]
          /\ consumer' = [consumer EXCEPT ![k] = "busy"]
          /\ at' = [at EXCEPT ![k] = "dispatch"]
          /\ UNCHANGED <<pool, msg>>
      BY <2>3, PopShifts DEF TakeMessage, Pop, GoTo
    <3>3. QED
      BY <3>1, <3>2 DEF TypeOK, HandlesWhatItHolds, FilledBuffers
  <2>4. CASE ReleaseMessage(k)
    <3>1. holding[k] \in Buffer /\ msg[holding[k]] \in Message
      BY <2>4 DEF ReleaseMessage, Free, HandlesWhatItHolds
    <3>2. QED
      BY <2>4, <3>1 DEF ReleaseMessage, Free, GoTo, TypeOK, HandlesWhatItHolds, FilledBuffers
  <2>5. QED
    BY <2>1, <2>2, <2>3, <2>4
<1>4. QED
  BY <1>2, <1>3

LEMMA ServerInvStep == ServerInv /\ [Next]_vars => ServerInv'
<1> SUFFICES ASSUME ServerInv, [Next]_vars
             PROVE  TypeOK' /\ HandlesWhatItHolds' /\ FilledBuffers'
  BY QueueInvStep DEF ServerInv
<1>1. ASSUME NEW k \in Consumer, ConsumerStep(k)
      PROVE  TypeOK' /\ HandlesWhatItHolds' /\ FilledBuffers'
  BY <1>1, ControllerStep, LoopStep DEF ConsumerStep
<1>2. CASE Interrupt
  BY <1>2 DEF Interrupt, ServerInv, TypeOK, Cause, HandlesWhatItHolds, FilledBuffers,
              queueVars, netVars, mainVars, recvVars, dataVars
<1>3. CASE UNCHANGED vars
  BY <1>3 DEF vars, ServerInv, TypeOK, HandlesWhatItHolds, FilledBuffers,
              queueVars, netVars, mainVars, recvVars, dataVars
<1>4. QED
  BY <1>1, <1>2, <1>3, ClientStep, MainStep, ReceiverStep DEF Next

\* The server's variables keep their types in every interleaving of main, the
\* receiving thread and the consumers.
THEOREM ServerTypeCorrect == Spec => []TypeOK
<1>1. ServerInv => TypeOK
  BY DEF ServerInv
<1>2. QED
  BY <1>1, ServerInvInit, ServerInvStep, PTL DEF Spec

\* A consumer is inside a controller exactly while it holds a message, and the
\* message was filled by the receiving thread.
THEOREM HandlesCorrect == Spec => []HandlesWhatItHolds
<1>1. ServerInv => HandlesWhatItHolds
  BY DEF ServerInv
<1>2. QED
  BY <1>1, ServerInvInit, ServerInvStep, PTL DEF Spec

-----------------------------------------------------------------------------
(***************************************************************************)
(* The way of a request.  It is in the receive buffer of its socket, then  *)
(* in one message buffer, then answered in the stream of its own client;   *)
(* from and ctx name it all along the way.                                 *)
(***************************************************************************)
SameRequest(q, r) == q.from = r.from /\ q.ctx = r.ctx

\* A consumer has answered the request in buffer b.
Replied(b) == \E k \in Consumer : holding[k] = b /\ at[k] \in {"seat", "free"}

\* What waits in a socket was sent by its client.  From and NoConn apart, all
\* that follows is about clients whose requests recv has not cut.
InboxSound ==
  \A c \in Conn :
    /\ \A i \in DOMAIN inbox[c] : inbox[c][i].from = c
    /\ cuts[c] = 0 =>
         \A i \in DOMAIN inbox[c] :
           /\ inbox[c][i].ctx \in 1..sent[c]
           /\ \A j \in DOMAIN inbox[c] : inbox[c][i].ctx = inbox[c][j].ctx => i = j

\* What is in a message buffer has left the socket, is in no other buffer, and
\* goes back to the client it came from.
BuffersSound ==
  \A b \in Buffer \ pool :
    /\ msg[b].conn \in {msg[b].req.from, NoConn}
    /\ cuts[msg[b].req.from] = 0 =>
         /\ msg[b].req.ctx \in 1..sent[msg[b].req.from]
         /\ \A d \in Buffer \ pool : SameRequest(msg[b].req, msg[d].req) => b = d
         /\ \A i \in DOMAIN inbox[msg[b].req.from] :
              inbox[msg[b].req.from][i].ctx # msg[b].req.ctx

\* What is answered is no longer in a socket, nor in a buffer whose consumer
\* has its answer still before it.
AnswersSound ==
  \A c \in Conn : cuts[c] = 0 =>
    \A i \in DOMAIN stream[c] :
      /\ \A j \in DOMAIN inbox[c] : inbox[c][j].ctx # stream[c][i].ctx
      /\ \A b \in Buffer \ pool : SameRequest(msg[b].req, stream[c][i]) => Replied(b)

\* What a consumer has done when it comes to its response, and when it comes
\* to the seat.
PlaceSound(k) ==
  /\ at[k] = "flush" =>
       /\ BodyOf(k).op \in {"login", "enter", "sitdown"}
       /\ BodyOf(k).op = "login" => MsgOf(k).conn \in isAuth \cap users
       /\ BodyOf(k).op = "enter" => MsgOf(k).conn \in Elems(roomList)
  /\ at[k] = "seat" =>
       /\ BodyOf(k).op = "sitdown"
       /\ MsgOf(k).conn \in Conn
       /\ \/ peer[MsgOf(k).conn] = "closed"
          \/ \E i \in DOMAIN stream[MsgOf(k).conn] :
               stream[MsgOf(k).conn][i] = MsgOf(k).req

PlacesSound == \A k \in Consumer : PlaceSound(k)

RequestInv == InboxSound /\ BuffersSound /\ AnswersSound /\ RepliesMatchRequests

-----------------------------------------------------------------------------
\* The numbers and records the proofs below compare.
LEMMA RequestTypes ==
  ASSUME ServerInv
  PROVE  /\ sent \in [Conn -> Nat]
         /\ \A c \in Conn : \A i \in DOMAIN inbox[c] :
              inbox[c][i] \in Request /\ inbox[c][i].ctx \in Nat
         /\ \A c \in Conn : \A i \in DOMAIN stream[c] :
              stream[c][i] \in Request /\ stream[c][i].ctx \in Nat
         /\ \A b \in Buffer \ pool :
              /\ msg[b] \in Message
              /\ msg[b].req \in Request
              /\ msg[b].req.from \in Conn
              /\ msg[b].req.ctx \in Nat
<1>1. sent \in [Conn -> Nat]
  BY ServerAssumption DEF ServerInv, TypeOK
<1> DEFINE Num(q) == q \in Request /\ q.ctx \in Nat
<1>2. \A q \in Request : Num(q) /\ q.from \in Conn
  BY DEF Request
<1>3. /\ \A c \in Conn : inbox[c] \in Seq(Request)
      /\ \A c \in Conn : stream[c] \in Seq(Request)
  BY DEF ServerInv, TypeOK
<1>4. \A s \in Seq(Request) : \A i \in DOMAIN s : Num(s[i])
  BY <1>2
<1>5. \A b \in Buffer \ pool :
        msg[b] \in Message /\ Num(msg[b].req) /\ msg[b].req.from \in Conn
  BY <1>2 DEF ServerInv, FilledBuffers, Message
<1>6. QED
  BY <1>1, <1>3, <1>4, <1>5

\* The elements of a sequence one longer.
LEMMA Appended ==
  ASSUME NEW S, NEW s \in Seq(S), NEW e \in S
  PROVE  /\ \A i \in DOMAIN Append(s, e) :
              \/ i \in DOMAIN s /\ Append(s, e)[i] = s[i]
              \/ i = Len(s) + 1 /\ Append(s, e)[i] = e
         /\ \A i \in DOMAIN s : i \in DOMAIN Append(s, e) /\ Append(s, e)[i] = s[i]
         /\ Elems(Append(s, e)) = Elems(s) \cup {e}
<1>1. /\ DOMAIN Append(s, e) = DOMAIN s \cup {Len(s) + 1}
      /\ \A i \in DOMAIN s : Append(s, e)[i] = s[i]
      /\ Append(s, e)[Len(s) + 1] = e
  OBVIOUS
<1>2. QED
  BY <1>1 DEF Elems

\* Entering the hall puts the connection on the list of the room.
LEMMA HallEnterAdds ==
  ASSUME ServerInv, NEW k \in Consumer, HallEnter(k)
  PROVE  /\ MsgOf(k).conn \in Conn
         /\ Elems(roomList') = Elems(roomList) \cup {MsgOf(k).conn}
<1>1. MsgOf(k).conn \in Conn /\ roomList' = Append(roomList, MsgOf(k).conn)
  BY HeldMessage DEF HallEnter
<1>2. roomList \in Seq(Conn)
  BY DEF ServerInv, TypeOK
<1>3. QED
  BY <1>1, <1>2, Appended

\* A response goes to the end of one stream, unless its client has closed.
LEMMA FlushAdds ==
  ASSUME ServerInv, NEW k \in Consumer, Flush(k)
  PROVE  /\ MsgOf(k).conn \in Conn
         /\ MsgOf(k).req \in Request
         /\ \A d \in Conn : stream[d] \in Seq(Request)
         /\ \A d \in Conn :
              \/ stream'[d] = stream[d]
              \/ d = MsgOf(k).conn /\ stream'[d] = Append(stream[d], MsgOf(k).req)
         /\ \/ peer[MsgOf(k).conn] = "closed"
            \/ stream'[MsgOf(k).conn] = Append(stream[MsgOf(k).conn], MsgOf(k).req)
<1>1. MsgOf(k).conn \in Conn /\ MsgOf(k).req \in Request
  BY HeldMessage DEF Flush
<1>2. stream \in [Conn -> Seq(Request)]
  BY DEF ServerInv, TypeOK
<1>3. CASE stream' = [stream EXCEPT ![MsgOf(k).conn] = Append(@, MsgOf(k).req)]
  BY <1>1, <1>2, <1>3
<1>4. CASE peer[MsgOf(k).conn] = "closed" /\ stream' = stream
  BY <1>1, <1>2, <1>4
<1>5. QED
  BY <1>3, <1>4 DEF Flush

\* A request is made: its number is above all that its client has used.
LEMMA SendKeeps ==
  ASSUME ServerInv, RequestInv, NEW c \in Conn, NEW p \in Payload, Send(c, p),
         UNCHANGED <<queueVars, stream, cuts, msg, at>>
  PROVE  RequestInv'
<1> DEFINE q == [from |-> c, ctx |-> sent[c] + 1, body |-> p]
<1>1. /\ sent'[c] = sent[c] + 1
      /\ \A d \in Conn : sent[d] \in Nat /\ sent'[d] \in Nat /\ sent[d] <= sent'[d]
  BY RequestTypes DEF Send
<1>2. \A d \in Conn : \A i \in DOMAIN inbox'[d] :
        \/ i \in DOMAIN inbox[d] /\ inbox'[d][i] = inbox[d][i]
        \/ d = c /\ i = Len(inbox[c]) + 1 /\ inbox'[d][i] = q
  <2>1. inbox[c] \in Seq(Request)
    BY DEF ServerInv, TypeOK
  <2>2. q \in Request
    BY <1>1, ServerAssumption DEF Request
  <2> HIDE DEF q
  <2>3. /\ inbox'[c] = Append(inbox[c], q)
        /\ \A d \in Conn : d # c => inbox'[d] = inbox[d]
    BY DEF Send, q, ServerInv, TypeOK
  <2>4. QED
    BY <2>1, <2>2, <2>3, Appended
<1>3. q.from = c /\ q.ctx = sent[c] + 1
  OBVIOUS
<1> HIDE DEF q
<1>4. InboxSound'
  <2>1. \A d \in Conn : \A i \in DOMAIN inbox'[d] : inbox'[d][i].from = d
    BY <1>2, <1>3 DEF RequestInv, InboxSound
  <2>2. ASSUME NEW d \in Conn, cuts[d] = 0, NEW i \in DOMAIN inbox'[d]
        PROVE  /\ inbox'[d][i].ctx \in 1..sent'[d]
               /\ \A j \in DOMAIN inbox'[d] :
                    inbox'[d][i].ctx = inbox'[d][j].ctx => i = j
    <3>1. \A j \in DOMAIN inbox[d] :
            /\ inbox[d][j].ctx \in 1..sent[d]
            /\ \A l \in DOMAIN inbox[d] : inbox[d][j].ctx = inbox[d][l].ctx => j = l
      BY <2>2 DEF RequestInv, InboxSound
    <3>2. QED
      BY <1>1, <1>2, <1>3, <3>1
  <2>3. QED
    BY <2>1, <2>2 DEF InboxSound
<1>5. UNCHANGED <<pool, msg, stream, at, holding, cuts>>
  BY DEF queueVars
<1>6. BuffersSound'
  <2>1. ASSUME NEW b \in Buffer \ pool, cuts[msg[b].req.from] = 0
        PROVE  /\ msg[b].req.ctx \in 1..sent'[msg[b].req.from]
               /\ \A i \in DOMAIN inbox'[msg[b].req.from] :
                    inbox'[msg[b].req.from][i].ctx # msg[b].req.ctx
    <3>1. PICK f \in Conn, n \in Nat : f = msg[b].req.from /\ n = msg[b].req.ctx
      BY RequestTypes
    <3>2. n \in 1..sent[f] /\ \A i \in DOMAIN inbox[f] : inbox[f][i].ctx # n
      BY <2>1, <3>1 DEF RequestInv, BuffersSound
    <3>3. sent[f] \in Nat /\ sent'[f] \in Nat /\ sent[f] <= sent'[f]
      BY <1>1
    <3>4. n \in 1..sent'[f]
      BY <3>2, <3>3
    <3>5. n # sent[c] + 1 \/ f # c
      BY <3>2, <3>3
    <3>6. \A i \in DOMAIN inbox'[f] : inbox'[f][i].ctx # n
      BY <1>2, <1>3, <3>2, <3>5
    <3>7. QED
      BY <3>1, <3>4, <3>6
  <2>2. QED
    BY <1>5, <2>1 DEF RequestInv, BuffersSound
<1>7. RepliesMatchRequests'
  <2>1. ASSUME NEW d \in Conn, NEW i \in DOMAIN stream[d], cuts[d] = 0
        PROVE  stream[d][i].ctx \in 1..sent'[d]
    <3>1. stream[d][i].ctx \in 1..sent[d]
      BY <2>1 DEF RequestInv, RepliesMatchRequests
    <3>2. QED
      BY <1>1, <3>1
  <2>2. QED
    BY <1>5, <2>1 DEF RequestInv, RepliesMatchRequests
<1>8. AnswersSound'
  <2>1. ASSUME NEW d \in Conn, NEW i \in DOMAIN stream[d], cuts[d] = 0
        PROVE  \A j \in DOMAIN inbox'[d] : inbox'[d][j].ctx # stream[d][i].ctx
    <3>1. stream[d][i].ctx \in 1..sent[d]
      BY <2>1 DEF RequestInv, RepliesMatchRequests
    <3>2. \A j \in DOMAIN inbox[d] : inbox[d][j].ctx # stream[d][i].ctx
      BY <2>1 DEF RequestInv, AnswersSound
    <3>3. QED
      BY <1>1, <1>2, <1>3, <3>1, <3>2
  <2>2. QED
    BY <1>5, <2>1 DEF RequestInv, AnswersSound, Replied
<1>9. QED
  BY <1>4, <1>6, <1>7, <1>8 DEF RequestInv

\* What recv returns comes into a buffer of the pool.
LEMMA ReceiveKeeps ==
  ASSUME ServerInv, RequestInv, NEW c \in Conn, NEW b \in Buffer, ReceiveRequest(c, b),
         UNCHANGED <<sent, stream, at>>
  PROVE  RequestInv'
<1>1. /\ b \in pool /\ pool' = pool \ {b}
      /\ holding' = holding
      /\ Buffer \ pool' = (Buffer \ pool) \cup {b}
  BY DEF ReceiveRequest, Malloc
<1>2. /\ msg \in [Buffer -> Message \cup {<<>>}]
      /\ \A d \in Buffer \ pool : msg[d].req.from \in Conn
      /\ cuts \in [Conn -> Nat]
  BY RequestTypes, ServerAssumption DEF ServerInv, TypeOK
<1>3. PICK q \in Request :
        /\ msg' = [msg EXCEPT ![b] =
                     [req |-> q, conn |-> IF c \in registered THEN c ELSE NoConn]]
        /\ q.from \in {c, inbox[c][1].from}
        /\ \A i \in DOMAIN inbox'[c] :
             inbox'[c][i] = Rest(c) \/ \E j \in DOMAIN inbox[c] : inbox'[c][i] = inbox[c][j]
        /\ \/ cuts'[c] # 0
           \/ /\ cuts[c] = 0
              /\ 1 \in DOMAIN inbox[c] /\ (inbox[c][1].ctx # 0 => q = inbox[c][1])
              /\ \E n \in Nat \ {0} :
                   \A i \in DOMAIN inbox'[c] :
                     i + n \in DOMAIN inbox[c] /\ inbox'[c][i] = inbox[c][i + n]
  BY Received
<1>4. \A d \in Conn : d # c => inbox'[d] = inbox[d] /\ cuts'[d] = cuts[d]
  BY Received
<1>5. /\ msg'[b].req = q
      /\ msg'[b].conn \in {c, NoConn}
      /\ \A d \in Buffer \ pool : msg'[d] = msg[d]
  BY <1>1, <1>2, <1>3
<1>6. q.from = c
  <2>1. 1 \in DOMAIN inbox[c]
    BY DEF ReceiveRequest, ServerInv, TypeOK
  <2>2. QED
    BY <1>3, <2>1 DEF RequestInv, InboxSound
\* Without a cut the message is the first request of the socket.
<1>7. ASSUME cuts'[c] = 0
      PROVE  /\ cuts[c] = 0
             /\ 1 \in DOMAIN inbox[c] /\ q = inbox[c][1]
             /\ q.ctx \in 1..sent[c]
             /\ \A i \in DOMAIN inbox'[c] :
                  inbox'[c][i].ctx # q.ctx
             /\ \A i \in DOMAIN inbox'[c] :
                  /\ inbox'[c][i].ctx \in 1..sent[c]
                  /\ \E l \in DOMAIN inbox[c] : inbox'[c][i].ctx = inbox[c][l].ctx
                  /\ \A j \in DOMAIN inbox'[c] :
                       inbox'[c][i].ctx = inbox'[c][j].ctx => i = j
  <2>1. /\ cuts[c] = 0
        /\ 1 \in DOMAIN inbox[c] /\ (inbox[c][1].ctx # 0 => q = inbox[c][1])
    BY <1>3, <1>7
  <2>2. PICK n \in Nat \ {0} :
          \A i \in DOMAIN inbox'[c] :
            i + n \in DOMAIN inbox[c] /\ inbox'[c][i] = inbox[c][i + n]
    BY <1>3, <1>7
  <2>3. \A i \in DOMAIN inbox[c] :
          /\ inbox[c][i].ctx \in 1..sent[c]
          /\ \A j \in DOMAIN inbox[c] : inbox[c][i].ctx = inbox[c][j].ctx => i = j
    BY <2>1 DEF RequestInv, InboxSound
  <2>4. q = inbox[c][1] /\ q.ctx \in 1..sent[c]
    <3>1. inbox[c][1].ctx \in 1..sent[c] /\ sent[c] \in Nat
      BY <2>1, <2>3, RequestTypes
    <3>2. inbox[c][1].ctx # 0
      BY <3>1
    <3>3. QED
      BY <2>1, <3>1, <3>2
  <2>5. DOMAIN inbox'[c] \subseteq Nat \ {0}
    BY Received
  <2>6. \A i \in DOMAIN inbox'[c] : i + n # 1
    BY <2>2, <2>5
  <2>7. ASSUME NEW i \in DOMAIN inbox'[c]
        PROVE  /\ inbox'[c][i].ctx # q.ctx
               /\ inbox'[c][i].ctx \in 1..sent[c]
               /\ \E l \in DOMAIN inbox[c] : inbox'[c][i].ctx = inbox[c][l].ctx
    BY <2>1, <2>2, <2>3, <2>4, <2>6
  <2>8. ASSUME NEW i \in DOMAIN inbox'[c], NEW j \in DOMAIN inbox'[c],
               inbox'[c][i].ctx = inbox'[c][j].ctx
        PROVE  i = j
    <3>1. i + n = j + n
      BY <2>2, <2>3, <2>8
    <3>2. QED
      BY <2>5, <3>1
  <2>9. QED
    BY <2>1, <2>4, <2>7, <2>8
<1>8. InboxSound'
  <2>1. Rest(c).from = c
    BY DEF Rest
  <2>2. \A i \in DOMAIN inbox'[c] : inbox'[c][i].from = c
    BY <1>3, <2>1 DEF RequestInv, InboxSound
  <2>3. \A d \in Conn : d # c => inbox'[d] = inbox[d] /\ cuts'[d] = cuts[d]
    BY <1>4
  <2>4. QED
    BY <1>7, <2>2, <2>3 DEF RequestInv, InboxSound
<1>9. ASSUME cuts'[c] = 0
      PROVE  \A d \in Buffer \ pool : ~SameRequest(q, msg[d].req)
  BY <1>6, <1>7, <1>9 DEF RequestInv, BuffersSound, SameRequest
<1>10. ASSUME NEW d \in Buffer \ pool, cuts'[msg[d].req.from] = 0
       PROVE  /\ cuts[msg[d].req.from] = 0
              /\ msg[d].req.ctx \in 1..sent[msg[d].req.from]
              /\ \A i \in DOMAIN inbox'[msg[d].req.from] :
                   inbox'[msg[d].req.from][i].ctx # msg[d].req.ctx
              /\ \A e \in Buffer \ pool : SameRequest(msg[d].req, msg[e].req) => d = e
              /\ ~SameRequest(msg[d].req, q)
  <2> DEFINE f == msg[d].req.from
  <2>1. f \in Conn /\ cuts'[f] = 0
    BY <1>2, <1>10
  <2>2. cuts[f] = 0
    BY <1>4, <1>7, <2>1
  <2>3. /\ msg[d].req.ctx \in 1..sent[f]
        /\ \A i \in DOMAIN inbox[f] : inbox[f][i].ctx # msg[d].req.ctx
        /\ \A e \in Buffer \ pool : SameRequest(msg[d].req, msg[e].req) => d = e
    BY <2>2 DEF RequestInv, BuffersSound
  <2>4. \A i \in DOMAIN inbox'[f] : inbox'[f][i].ctx # msg[d].req.ctx
    BY <1>4, <1>7, <2>1, <2>3
  <2>5. ~SameRequest(msg[d].req, q)
    BY <1>6, <1>9, <2>1 DEF SameRequest
  <2>6. QED
    BY <2>2, <2>3, <2>4, <2>5
<1>11. BuffersSound'
  <2> SUFFICES ASSUME NEW d \in Buffer \ pool'
               PROVE  /\ msg'[d].conn \in {msg'[d].req.from, NoConn}
                      /\ cuts'[msg'[d].req.from] = 0 =>
                           /\ msg'[d].req.ctx \in 1..sent[msg'[d].req.from]
                           /\ \A e \in Buffer \ pool' :
                                SameRequest(msg'[d].req, msg'[e].req) => d = e
                           /\ \A i \in DOMAIN inbox'[msg'[d].req.from] :
                                inbox'[msg'[d].req.from][i].ctx # msg'[d].req.ctx
    BY DEF BuffersSound, SameRequest
  <2>1. CASE d = b
    BY <1>1, <1>5, <1>6, <1>7, <1>9, <2>1
  <2>2. CASE d # b
    <3>1. d \in Buffer \ pool /\ msg'[d] = msg[d]
      BY <1>1, <1>5, <2>2
    <3>2. msg[d].conn \in {msg[d].req.from, NoConn}
      BY <3>1 DEF RequestInv, BuffersSound
    <3>3. ASSUME cuts'[msg[d].req.from] = 0, NEW e \in Buffer \ pool',
                 SameRequest(msg[d].req, msg'[e].req)
          PROVE  d = e
      BY <1>1, <1>5, <1>10, <3>1, <3>3
    <3>4. QED
      BY <1>10, <3>1, <3>2, <3>3
  <2>3. QED
    BY <2>1, <2>2
<1>12. AnswersSound'
  <2> SUFFICES ASSUME NEW d \in Conn, cuts'[d] = 0, NEW i \in DOMAIN stream[d]
               PROVE  /\ \A j \in DOMAIN inbox'[d] : inbox'[d][j].ctx # stream[d][i].ctx
                      /\ \A e \in Buffer \ pool' :
                           SameRequest(msg'[e].req, stream[d][i]) => Replied(e)'
    BY DEF AnswersSound, SameRequest
  <2>1. cuts[d] = 0
    BY <1>4, <1>7
  <2>2. /\ \A j \in DOMAIN inbox[d] : inbox[d][j].ctx # stream[d][i].ctx
        /\ \A e \in Buffer \ pool : SameRequest(msg[e].req, stream[d][i]) => Replied(e)
    BY <2>1 DEF RequestInv, AnswersSound
  <2>3. \A j \in DOMAIN inbox'[d] : inbox'[d][j].ctx # stream[d][i].ctx
    BY <1>4, <1>7, <2>2
  <2>4. \A e \in Buffer \ pool : SameRequest(msg'[e].req, stream[d][i]) => Replied(e)'
    BY <1>1, <1>5, <2>2 DEF Replied
  <2>5. stream[d][i].from = d
    BY DEF RequestInv, RepliesMatchRequests
  <2>6. ~SameRequest(q, stream[d][i])
    BY <1>6, <1>7, <2>2, <2>5 DEF SameRequest
  <2>7. QED
    BY <1>1, <1>5, <2>3, <2>4, <2>6
<1>13. RepliesMatchRequests'
  <2>1. \A d \in Conn : cuts'[d] = 0 => cuts[d] = 0
    BY <1>4, <1>7
  <2>2. QED
    BY <2>1 DEF RequestInv, RepliesMatchRequests
<1>14. QED
  BY <1>8, <1>11, <1>12, <1>13 DEF RequestInv

\* A message is freed: nothing more is known of its buffer.
LEMMA ReleaseKeeps ==
  ASSUME ServerInv, RequestInv, NEW k \in Consumer, ReleaseMessage(k),
         UNCHANGED <<netVars, cuts, msg>>
  PROVE  RequestInv'
<1>1. /\ pool' = pool \cup {holding[k]}
      /\ UNCHANGED <<sent, inbox, cuts, stream, msg>>
  BY DEF ReleaseMessage, Free, netVars
<1>2. \A j \in Consumer \ {k} : holding'[j] = holding[j] /\ at'[j] = at[j]
  BY DEF ReleaseMessage, Free, GoTo, ServerInv, TypeOK, QueueInv, TypeAndHeld, QueueTypeOK
<1>3. \A b \in Buffer \ pool' : b \in Buffer \ pool /\ (Replied(b) => Replied(b)')
  BY <1>1, <1>2 DEF Replied
<1>4. QED
  BY <1>1, <1>3 DEF RequestInv, InboxSound, BuffersSound, AnswersSound, RepliesMatchRequests

\* The response is written: its request was in the buffer, not yet answered.
LEMMA FlushKeeps ==
  ASSUME ServerInv, RequestInv, PlacesSound, NEW k \in Consumer, Flush(k),
         UNCHANGED <<netVars, cuts, msg>>
  PROVE  RequestInv'
<1> DEFINE c == MsgOf(k).conn
           q == MsgOf(k).req
<1>1. UNCHANGED <<sent, inbox, cuts, pool, holding, msg>>
  BY DEF Flush, queueVars, netVars
<1>2. /\ at[k] = "flush"
      /\ at'[k] \in {"seat", "free"}
      /\ \A j \in Consumer \ {k} : at'[j] = at[j]
  BY DEF Flush, GoTo, ServerInv, TypeOK
<1>3. /\ holding[k] \in Buffer \ pool
      /\ msg[holding[k]].req = q /\ msg[holding[k]].conn = c
      /\ \A j \in Consumer : holding[j] = holding[k] => j = k
      /\ q \in Request
  <2>1. holding[k] \in Buffer /\ q \in Request
    BY <1>2, HeldMessage
  <2>2. QED
    BY <2>1, QueueAssumption DEF ServerInv, QueueInv, SingleOwner, MsgOf
<1>4. ~Replied(holding[k])
  BY <1>2, <1>3 DEF Replied
<1>5. \A b \in Buffer : Replied(b) \/ b = holding[k] => Replied(b)'
  BY <1>1, <1>2 DEF Replied
<1>6. /\ c = q.from /\ c \in Conn
      /\ q.body.op \notin {"list", "unknown"}
      /\ cuts[c] = 0 =>
           /\ q.ctx \in 1..sent[c]
           /\ \A i \in DOMAIN inbox[c] : inbox[c][i].ctx # q.ctx
           /\ \A b \in Buffer \ pool : SameRequest(msg[b].req, q) => b = holding[k]
  <2>1. c # NoConn
    BY DEF Flush
  <2>2. c = q.from
    BY <1>3, <2>1 DEF RequestInv, BuffersSound
  <2>3. q.body.op \notin {"list", "unknown"}
    BY <1>2 DEF PlacesSound, PlaceSound, BodyOf
  <2>4. c \in Conn
    BY <1>3, <2>2, RequestTypes
  <2>5. ASSUME cuts[c] = 0
        PROVE  \A b \in Buffer \ pool : SameRequest(msg[b].req, q) => b = holding[k]
    BY <1>3, <2>2, <2>5 DEF RequestInv, BuffersSound, SameRequest
  <2>6. QED
    BY <1>3, <2>2, <2>3, <2>4, <2>5 DEF RequestInv, BuffersSound
<1>7. \A d \in Conn : \A i \in DOMAIN stream'[d] :
        \/ i \in DOMAIN stream[d] /\ stream'[d][i] = stream[d][i]
        \/ d = c /\ i = Len(stream[c]) + 1 /\ stream'[d][i] = q
  <2>1. /\ c \in Conn /\ q \in Request /\ stream[c] \in Seq(Request)
        /\ \A d \in Conn :
             stream'[d] = stream[d] \/ (d = c /\ stream'[d] = Append(stream[d], q))
    BY FlushAdds
  <2> HIDE DEF c, q
  <2>2. QED
    BY <2>1, Appended
<1>8. cuts[c] = 0 => \A i \in DOMAIN stream[c] : stream[c][i].ctx # q.ctx
  BY <1>3, <1>4, <1>6 DEF RequestInv, RepliesMatchRequests, AnswersSound, SameRequest
<1> HIDE DEF c, q
<1>9. RepliesMatchRequests'
  <2>1. ASSUME NEW d \in Conn, NEW i \in DOMAIN stream'[d]
        PROVE  /\ stream'[d][i].from = d
               /\ stream'[d][i].body.op \notin {"list", "unknown"}
    BY <1>6, <1>7 DEF RequestInv, RepliesMatchRequests
  <2>2. ASSUME NEW d \in Conn, cuts[d] = 0, NEW i \in DOMAIN stream'[d]
        PROVE  /\ stream'[d][i].ctx \in 1..sent[d]
               /\ \A j \in DOMAIN stream'[d] :
                    stream'[d][i].ctx = stream'[d][j].ctx => i = j
    <3>1. \A j \in DOMAIN stream[d] :
            /\ stream[d][j].ctx \in 1..sent[d]
            /\ \A l \in DOMAIN stream[d] : stream[d][j].ctx = stream[d][l].ctx => j = l
      BY <2>2 DEF RequestInv, RepliesMatchRequests
    <3>2. QED
      BY <1>6, <1>7, <1>8, <2>2, <3>1
  <2>3. QED
    BY <1>1, <2>1, <2>2 DEF RepliesMatchRequests
<1>10. AnswersSound'
  <2> SUFFICES ASSUME NEW d \in Conn, cuts[d] = 0, NEW i \in DOMAIN stream'[d]
               PROVE  /\ \A j \in DOMAIN inbox[d] : inbox[d][j].ctx # stream'[d][i].ctx
                      /\ \A b \in Buffer \ pool :
                           SameRequest(msg[b].req, stream'[d][i]) => Replied(b)'
    BY <1>1 DEF AnswersSound, SameRequest
  <2>1. CASE i \in DOMAIN stream[d] /\ stream'[d][i] = stream[d][i]
    BY <1>5, <2>1 DEF RequestInv, AnswersSound
  <2>2. CASE d = c /\ stream'[d][i] = q
    BY <1>5, <1>6, <2>2
  <2>3. QED
    BY <1>7, <2>1, <2>2
<1>11. QED
  BY <1>1, <1>9, <1>10 DEF RequestInv, InboxSound, BuffersSound

\* Any other step leaves the requests where they are.
LEMMA RestKeeps ==
  ASSUME RequestInv, UNCHANGED <<sent, inbox, cuts, pool, stream, msg>>,
         \A b \in Buffer \ pool : Replied(b) => Replied(b)'
  PROVE  RequestInv'
BY DEF RequestInv, InboxSound, BuffersSound, AnswersSound, RepliesMatchRequests

-----------------------------------------------------------------------------
\* The controllers that write nothing to a socket, and what they do to at.
LEMMA ControllerMoves ==
  ASSUME ServerInv, NEW k \in Consumer,
         Login(k) \/ Ignore(k) \/ HallEnter(k) \/ Sitdown(k) \/ NullConn(k) \/ TakeSeat(k)
  PROVE  /\ UNCHANGED <<queueVars, stream>>
         /\ \A j \in Consumer : at'[j] # at[j] =>
              j = k /\ at[k] \in {"dispatch", "seat"} /\ at'[k] \in {"flush", "free"}
         /\ at[k] = "seat" => at'[k] \in {"seat", "free"}
<1> USE DEF ServerInv, TypeOK, GoTo
<1>1. CASE Login(k) \/ HallEnter(k) \/ Sitdown(k)
  BY <1>1 DEF Login, HallEnter, Sitdown
<1>2. CASE Ignore(k)
  BY <1>2 DEF Ignore
<1>3. CASE NullConn(k)
  BY <1>3 DEF NullConn
<1>4. CASE TakeSeat(k)
  BY <1>4 DEF TakeSeat
<1>5. QED
  BY <1>1, <1>2, <1>3, <1>4

\* A request stays at one place in every step of the server.
LEMMA RequestInvStep ==
  ASSUME ServerInv, RequestInv, PlacesSound, [Next]_vars
  PROVE  RequestInv'
<1>1. ASSUME NEW c \in Conn, Client(c)
      PROVE  RequestInv'
  <2>1. CASE Connect(c) \/ Close(c)
    BY <1>1, <2>1, RestKeeps DEF Client, Connect, Close, queueVars, recvVars, Replied
  <2>2. CASE \E p \in Payload : Send(c, p)
    BY <1>1, <2>2, SendKeeps DEF Client, recvVars
  <2>3. QED
    BY <1>1, <2>1, <2>2 DEF Client
<1>2. CASE Main \/ Interrupt
  BY <1>2, RestKeeps DEF Main, Interrupt, queueVars, netVars, recvVars, Replied
<1>3. CASE Receiver
  <2>1. UNCHANGED <<sent, stream, at>>
    BY <1>3 DEF Receiver
  <2>2. CASE \E c \in Conn, b \in Buffer : ReceiveRequest(c, b)
    BY <2>1, <2>2, ReceiveKeeps
  <2>3. CASE Gather \/ Select \/ SelectFails \/ \E c \in Conn : ReceiveNothing(c)
    BY <2>1, <2>3, RestKeeps
       DEF Gather, Select, SelectFails, ReceiveNothing, queueVars, Replied
  <2>4. CASE PushMessage \/ SignalConsumer
    BY <2>1, <2>4, RestKeeps
       DEF PushMessage, SignalConsumer, Push, Signal, recvVars, Replied
  <2>5. QED
    BY <1>3, <2>2, <2>3, <2>4 DEF Receiver
<1>4. ASSUME NEW k \in Consumer, ConsumerStep(k)
      PROVE  RequestInv'
  <2>1. UNCHANGED <<netVars, cuts, msg>>
    BY <1>4 DEF ConsumerStep, recvVars
  <2>2. CASE WaitForMessage(k)
    BY <2>1, <2>2, RestKeeps DEF WaitForMessage, Wait, SpuriousWakeup, netVars, Replied
  <2>3. CASE TakeMessage(k)
    <3>1. at[k] = "none"
      BY <2>3 DEF TakeMessage, Pop, ServerInv, TypeOK, HandlesWhatItHolds
    <3>2. \A j \in Consumer \ {k} : at'[j] = at[j] /\ holding'[j] = holding[j]
      BY <2>3 DEF TakeMessage, Pop, GoTo, ServerInv, TypeOK, QueueInv, TypeAndHeld, QueueTypeOK
    <3>3. UNCHANGED <<pool, stream>>
      BY <2>3 DEF TakeMessage, Pop
    <3>4. QED
      BY <2>1, <3>1, <3>2, <3>3, RestKeeps DEF netVars, Replied
  <2>4. CASE Controller(k)
    <3>1. CASE Flush(k)
      BY <2>1, <3>1, FlushKeeps
    <3>2. CASE Login(k) \/ Ignore(k) \/ HallEnter(k) \/ Sitdown(k) \/ NullConn(k) \/ TakeSeat(k)
      <4>1. \A b \in Buffer : Replied(b) => Replied(b)'
        BY <3>2, ControllerMoves DEF Replied, queueVars
      <4>2. QED
        BY <2>1, <3>2, <4>1, ControllerMoves, RestKeeps DEF netVars, queueVars
    <3>3. QED
      BY <2>4, <3>1, <3>2 DEF Controller
  <2>5. CASE ReleaseMessage(k)
    BY <2>1, <2>5, ReleaseKeeps
  <2>6. QED
    BY <1>4, <2>2, <2>3, <2>4, <2>5 DEF ConsumerStep
<1>5. CASE UNCHANGED vars
  BY <1>5, RestKeeps DEF vars, queueVars, netVars, recvVars, Replied
<1>6. QED
  BY <1>1, <1>2, <1>3, <1>4, <1>5 DEF Next

-----------------------------------------------------------------------------
\* What the server has done it does not take back, and a client that has
\* closed does not return.
Grows ==
  /\ isAuth \subseteq isAuth' /\ users \subseteq users'
  /\ Elems(roomList) \subseteq Elems(roomList')
  /\ \A c \in Conn :
       /\ peer[c] = "closed" => peer'[c] = "closed"
       /\ \A i \in DOMAIN stream[c] : i \in DOMAIN stream'[c] /\ stream'[c][i] = stream[c][i]

LEMMA EffectsGrow ==
  ASSUME ServerInv, [Next]_vars
  PROVE  Grows
<1> USE DEF Grows
<1>1. ASSUME NEW c \in Conn, Client(c)
      PROVE  Grows
  BY <1>1 DEF Client, Connect, Close, Send, dataVars, ServerInv, TypeOK
<1>2. CASE Main \/ Receiver \/ Interrupt \/ UNCHANGED vars
  BY <1>2 DEF Main, Receiver, Interrupt, vars, netVars, dataVars
<1>3. ASSUME NEW k \in Consumer, ConsumerStep(k)
      PROVE  Grows
  <2>1. peer' = peer
    BY <1>3 DEF ConsumerStep, netVars
  <2>2. CASE WaitForMessage(k) \/ TakeMessage(k) \/ ReleaseMessage(k) \/ Ignore(k)
             \/ Sitdown(k) \/ NullConn(k)
    BY <2>1, <2>2
       DEF WaitForMessage, TakeMessage, ReleaseMessage, Ignore, Sitdown, NullConn, dataVars
  <2>3. CASE Login(k) \/ TakeSeat(k)
    BY <2>1, <2>3 DEF Login, TakeSeat
  <2>4. CASE HallEnter(k)
    <3>1. Elems(roomList) \subseteq Elems(roomList')
      BY <2>4, HallEnterAdds
    <3>2. QED
      BY <2>1, <2>4, <3>1 DEF HallEnter
  <2>5. CASE Flush(k)
    <3>1. /\ MsgOf(k).req \in Request
          /\ \A c \in Conn : /\ stream[c] \in Seq(Request)
                            /\ \/ stream'[c] = stream[c]
                               \/ stream'[c] = Append(stream[c], MsgOf(k).req)
      BY <2>5, FlushAdds
    <3>2. ASSUME NEW c \in Conn, NEW i \in DOMAIN stream[c]
          PROVE  i \in DOMAIN stream'[c] /\ stream'[c][i] = stream[c][i]
      BY <3>1, Appended
    <3>3. QED
      BY <2>1, <2>5, <3>2 DEF Flush, dataVars
  <2>6. QED
    BY <1>3, <2>2, <2>3, <2>4, <2>5 DEF ConsumerStep, Controller
<1>4. QED
  BY <1>1, <1>2, <1>3 DEF Next

\* A consumer at its response or at the seat keeps its message.
LEMMA MessageStays ==
  ASSUME ServerInv, [Next]_vars, NEW j \in Consumer, at'[j] \in {"flush", "seat"}
  PROVE  /\ MsgOf(j)' = MsgOf(j)
         /\ at'[j] # at[j] =>
              Login(j) \/ HallEnter(j) \/ Sitdown(j) \/ Flush(j)
<1>1. CASE UNCHANGED <<holding, msg, at>>
  BY <1>1 DEF MsgOf
<1>2. ASSUME NEW c \in Conn, NEW b \in Buffer, ReceiveRequest(c, b), at' = at
      PROVE  MsgOf(j)' = MsgOf(j) /\ at'[j] = at[j]
  <2>1. holding[j] # b
    BY <1>2 DEF ServerInv, QueueInv, SingleOwner, ReceiveRequest, Malloc
  <2>2. holding[j] \in Buffer
    BY <1>2, HeldMessage
  <2>3. PICK q \in Request :
          msg' = [msg EXCEPT ![b] =
                   [req |-> q, conn |-> IF c \in registered THEN c ELSE NoConn]]
    BY <1>2, Received
  <2>4. holding' = holding
    BY <1>2 DEF ReceiveRequest, Malloc
  <2>5. QED
    BY <1>2, <2>1, <2>2, <2>3, <2>4 DEF ServerInv, TypeOK, MsgOf
<1>3. ASSUME NEW k \in Consumer, ConsumerStep(k)
      PROVE  /\ MsgOf(j)' = MsgOf(j)
             /\ at'[j] # at[j] => Login(j) \/ HallEnter(j) \/ Sitdown(j) \/ Flush(j)
  <2> USE DEF ServerInv, TypeOK
  <2>1. msg' = msg
    BY <1>3 DEF ConsumerStep
  <2>2. CASE WaitForMessage(k)
    BY <2>1, <2>2 DEF WaitForMessage, Wait, SpuriousWakeup, MsgOf
  <2>3. CASE TakeMessage(k) \/ ReleaseMessage(k)
    <3>1. k # j /\ at'[j] = at[j]
      BY <2>3 DEF TakeMessage, ReleaseMessage, GoTo
    <3>2. holding'[j] = holding[j]
      BY <2>3, <3>1 DEF TakeMessage, Pop, ReleaseMessage, Free, QueueInv, TypeAndHeld, QueueTypeOK
    <3>3. QED
      BY <2>1, <3>1, <3>2 DEF MsgOf
  <2>4. CASE Controller(k)
    <3>1. UNCHANGED queueVars
      BY <2>4 DEF Controller, Login, Ignore, HallEnter, Sitdown, Flush, NullConn, TakeSeat
    <3>2. at'[j] # at[j] => j = k
      BY <2>4 DEF Controller, Login, Ignore, HallEnter, Sitdown, Flush, NullConn, TakeSeat, GoTo
    <3>3. at'[k] \in {"flush", "seat"} /\ at'[k] # at[k] =>
            Login(k) \/ HallEnter(k) \/ Sitdown(k) \/ Flush(k)
      BY <2>4 DEF Controller, Ignore, NullConn, TakeSeat, GoTo
    <3>4. QED
      BY <2>1, <3>1, <3>2, <3>3 DEF MsgOf, queueVars
  <2>5. QED
    BY <1>3, <2>2, <2>3, <2>4 DEF ConsumerStep
<1>4. CASE Receiver
  <2>1. at' = at
    BY <1>4 DEF Receiver
  <2>2. (\E c \in Conn, b \in Buffer : ReceiveRequest(c, b)) \/ UNCHANGED <<holding, msg>>
    BY <1>4 DEF Receiver, Gather, Select, SelectFails, ReceiveNothing, PushMessage,
                SignalConsumer, Push, Signal, queueVars
  <2>3. QED
    BY <1>1, <1>2, <2>1, <2>2
<1>5. QED
  BY <1>1, <1>3, <1>4 DEF Next, Client, Main, Interrupt, vars, queueVars

\* A consumer comes to its response with the effect recorded, and to the seat
\* with its response written or its client gone.
LEMMA PlacesStep ==
  ASSUME ServerInv, RequestInv, PlacesSound, [Next]_vars
  PROVE  PlacesSound'
<1> SUFFICES ASSUME NEW k \in Consumer, at'[k] \in {"flush", "seat"}
             PROVE  PlaceSound(k)'
  BY DEF PlacesSound, PlaceSound
<1>1. MsgOf(k)' = MsgOf(k) /\ BodyOf(k)' = BodyOf(k)
  BY MessageStays DEF BodyOf
<1>2. Grows /\ PlaceSound(k)
  BY EffectsGrow DEF PlacesSound
<1>3. CASE at'[k] = at[k]
  BY <1>1, <1>2, <1>3 DEF Grows, PlaceSound
<1>4. CASE at'[k] # at[k] /\ (Login(k) \/ Sitdown(k))
  BY <1>1, <1>4 DEF PlaceSound, Login, Sitdown, GoTo, ServerInv, TypeOK
<1>5. CASE at'[k] # at[k] /\ HallEnter(k)
  <2>2. MsgOf(k).conn \in Elems(roomList')
    BY <1>5, HallEnterAdds
  <2>3. at'[k] = "flush" /\ BodyOf(k).op = "enter"
    BY <1>5 DEF HallEnter, GoTo, ServerInv, TypeOK
  <2>4. QED
    BY <1>1, <2>2, <2>3 DEF PlaceSound
<1>6. CASE at'[k] # at[k] /\ Flush(k)
  <2> DEFINE c == MsgOf(k).conn
             q == MsgOf(k).req
  <2>1. /\ c \in Conn /\ q \in Request /\ stream[c] \in Seq(Request)
        /\ peer[c] = "closed" \/ stream'[c] = Append(stream[c], q)
    BY <1>6, FlushAdds
  <2>2. at'[k] = "seat" /\ BodyOf(k).op = "sitdown"
    BY <1>6 DEF Flush, GoTo, ServerInv, TypeOK
  <2>4. peer'[c] = "closed" \/ \E i \in DOMAIN stream'[c] : stream'[c][i] = q
    <3> HIDE DEF c, q
    <3>1. DOMAIN Append(stream[c], q) = 1..(Len(stream[c]) + 1)
          /\ Append(stream[c], q)[Len(stream[c]) + 1] = q
      BY <2>1
    <3>2. QED
      BY <1>2, <2>1, <3>1 DEF Grows
  <2>5. QED
    BY <1>1, <2>1, <2>2, <2>4 DEF PlaceSound
<1>7. QED
  BY <1>3, <1>4, <1>5, <1>6, MessageStays

-----------------------------------------------------------------------------
\* An effect is recorded before its response is written.
LEMMA EffectStep ==
  ASSUME ServerInv, RequestInv, PlacesSound, EffectBeforeReply, [Next]_vars
  PROVE  EffectBeforeReply'
<1> SUFFICES ASSUME NEW c \in Conn, NEW i \in DOMAIN stream'[c]
             PROVE  /\ stream'[c][i].body.op = "login" => c \in isAuth' /\ c \in users'
                    /\ stream'[c][i].body.op = "enter" => c \in Elems(roomList')
  BY DEF EffectBeforeReply, Elems
<1>1. Grows
  BY EffectsGrow
<1>2. CASE i \in DOMAIN stream[c] /\ stream'[c][i] = stream[c][i]
  BY <1>1, <1>2 DEF Grows, EffectBeforeReply
<1>3. ASSUME NEW k \in Consumer, Flush(k), c = MsgOf(k).conn, stream'[c][i] = MsgOf(k).req
      PROVE  /\ stream'[c][i].body.op = "login" => c \in isAuth /\ c \in users
             /\ stream'[c][i].body.op = "enter" => c \in Elems(roomList)
  BY <1>3 DEF PlacesSound, PlaceSound, BodyOf, Flush
<1>4. \/ stream' = stream
      \/ \E k \in Consumer : Flush(k)
  BY ControllerMoves
     DEF Next, Client, Main, Receiver, Interrupt, vars, ConsumerStep, WaitForMessage,
         TakeMessage, ReleaseMessage, Controller
<1>5. ASSUME NEW k \in Consumer, Flush(k)
      PROVE  \/ i \in DOMAIN stream[c] /\ stream'[c][i] = stream[c][i]
             \/ c = MsgOf(k).conn /\ stream'[c][i] = MsgOf(k).req
  <2> DEFINE q == MsgOf(k).req
             d == MsgOf(k).conn
  <2>1. /\ q \in Request /\ stream[c] \in Seq(Request)
        /\ stream'[c] = stream[c] \/ (c = d /\ stream'[c] = Append(stream[c], q))
    BY <1>5, FlushAdds
  <2> HIDE DEF q, d
  <2>2. \/ i \in DOMAIN stream[c] /\ stream'[c][i] = stream[c][i]
        \/ c = d /\ stream'[c][i] = q
    BY <2>1, Appended
  <2>3. QED
    BY <2>2 DEF q, d
<1>6. QED
  BY <1>1, <1>2, <1>3, <1>4, <1>5 DEF Grows

\* A seat changes under a consumer whose response is written, or whose client
\* has gone.
LEMMA SeatStep ==
  ASSUME ServerInv, RequestInv, PlacesSound, ReplyBeforeSeat, [Next]_vars
  PROVE  ReplyBeforeSeat'
<1> SUFFICES ASSUME NEW t \in Tables, tables'[t] # {}
             PROVE  \E c \in Conn :
                      \/ peer'[c] = "closed"
                      \/ \E i \in DOMAIN stream'[c] :
                           /\ stream'[c][i].body.op = "sitdown"
                           /\ TableOf(stream'[c][i].body) = t
  BY DEF ReplyBeforeSeat, TableOf
<1>1. Grows
  BY EffectsGrow
<1>2. CASE tables'[t] = tables[t]
  BY <1>1, <1>2 DEF Grows, ReplyBeforeSeat
<1>3. ASSUME NEW k \in Consumer, TakeSeat(k), tables'[t] # tables[t]
      PROVE  /\ at[k] = "seat"
             /\ t = TableOf(BodyOf(k))
  BY <1>3 DEF TakeSeat, ServerInv, TypeOK
<1>4. ASSUME NEW k \in Consumer, at[k] = "seat", t = TableOf(BodyOf(k))
      PROVE  \E c \in Conn :
               \/ peer[c] = "closed"
               \/ \E i \in DOMAIN stream[c] :
                    /\ stream[c][i].body.op = "sitdown"
                    /\ TableOf(stream[c][i].body) = t
  BY <1>4 DEF PlacesSound, PlaceSound, BodyOf
<1>5. tables' = tables \/ \E k \in Consumer : TakeSeat(k)
  BY DEF Next, Client, Main, Receiver, Interrupt, vars, dataVars, ConsumerStep, WaitForMessage,
         TakeMessage, ReleaseMessage, Controller, Login, Ignore, HallEnter, Sitdown, Flush,
         NullConn
<1>6. QED
  BY <1>1, <1>2, <1>3, <1>4, <1>5 DEF Grows

-----------------------------------------------------------------------------
\* The inductive invariant behind the three properties of the responses.
ResponseInv ==
  /\ ServerInv /\ RequestInv /\ PlacesSound
  /\ EffectBeforeReply /\ ReplyBeforeSeat

LEMMA ResponseInvCorrect == Spec => []ResponseInv
<1>1. Init => ResponseInv
  <2> SUFFICES ASSUME Init
               PROVE  RequestInv /\ PlacesSound /\ EffectBeforeReply /\ ReplyBeforeSeat
    BY ServerInvInit DEF ResponseInv
  <2>1. RequestInv
    BY DEF Init, QueueInit, RequestInv, InboxSound, BuffersSound, AnswersSound,
           RepliesMatchRequests
  <2>2. PlacesSound
    BY DEF Init, PlacesSound, PlaceSound
  <2>3. EffectBeforeReply /\ ReplyBeforeSeat
    BY DEF Init, EffectBeforeReply, ReplyBeforeSeat
  <2>4. QED
    BY <2>1, <2>2, <2>3
<1>2. ResponseInv /\ [Next]_vars => ResponseInv'
  BY ServerInvStep, RequestInvStep, PlacesStep, EffectStep, SeatStep DEF ResponseInv
<1>3. QED
  BY <1>1, <1>2, PTL DEF Spec

\* Whatever buffers are reused, in whatever order the consumers run and however
\* recv divides what the clients send, a response goes to the client it was
\* made for; and as long as none of its requests was cut, it answers a request
\* that the client made, once.
THEOREM RepliesCorrect == Spec => []RepliesMatchRequests
<1>1. ResponseInv => RepliesMatchRequests
  BY DEF ResponseInv, RequestInv
<1>2. QED
  BY <1>1, ResponseInvCorrect, PTL

\* Whoever has the response to a login or to entering the hall is recorded.
THEOREM EffectBeforeReplyCorrect == Spec => []EffectBeforeReply
<1>1. ResponseInv => EffectBeforeReply
  BY DEF ResponseInv
<1>2. QED
  BY <1>1, ResponseInvCorrect, PTL

\* No seat changes for a client that was not told so and is still there.
THEOREM ReplyBeforeSeatCorrect == Spec => []ReplyBeforeSeat
<1>1. ResponseInv => ReplyBeforeSeat
  BY DEF ResponseInv
<1>2. QED
  BY <1>1, ResponseInvCorrect, PTL

-----------------------------------------------------------------------------
(***************************************************************************)
(* MessagesHaveConnections does not hold: see the run accept_race.  One    *)
(* window is to blame, that between main's two writes.                     *)
(***************************************************************************)
\* The receiving thread takes a request from the connection that main has
\* published and not registered yet.
ReceiveInWindow ==
  \E c \in Conn, b \in Buffer : c = accepting /\ ReceiveRequest(c, b)

\* What the receiving thread polls has a slot, and every message outside the
\* pool has a connection.
WindowInv ==
  /\ ServerInv /\ SlotsRegistered
  /\ rfds \subseteq Elems(slots)
  /\ \A b \in Buffer \ pool : msg[b].conn # NoConn
  /\ proc # "null_conn"

LEMMA HeldHasConnection ==
  ASSUME WindowInv
  PROVE  MessagesHaveConnections
<1> SUFFICES ASSUME NEW k \in Consumer, at[k] # "none"
             PROVE  MsgOf(k).conn # NoConn
  BY DEF MessagesHaveConnections
<1>1. holding[k] \in Buffer
  BY HeldMessage DEF WindowInv
<1>2. holding[k] \notin pool
  BY DEF WindowInv, ServerInv, QueueInv, SingleOwner
<1>3. QED
  BY <1>1, <1>2 DEF WindowInv, MsgOf

\* A request received outside the window comes from a registered connection.
LEMMA ReceiveOutside ==
  ASSUME WindowInv, ~ReceiveInWindow, Receiver
  PROVE  \A b \in Buffer \ pool' : msg'[b].conn # NoConn
<1>1. ASSUME NEW c \in Conn, NEW d \in Buffer, ReceiveRequest(c, d)
      PROVE  \A b \in Buffer \ pool' : msg'[b].conn # NoConn
  <2>1. c \in Elems(slots) /\ c # accepting
    BY <1>1 DEF ReceiveRequest, ScanPast, IsNext, ReceiveInWindow, WindowInv
  <2>2. c \in registered
    BY <2>1 DEF WindowInv, SlotsRegistered
  <2>3. c # NoConn
    BY ServerAssumption
  <2>4. msg \in [Buffer -> Message \cup {<<>>}] /\ pool' = pool \ {d}
    BY <1>1 DEF ReceiveRequest, Malloc, WindowInv, ServerInv, TypeOK
  <2>5. PICK q \in Request :
          msg' = [msg EXCEPT ![d] =
                   [req |-> q, conn |-> IF c \in registered THEN c ELSE NoConn]]
    BY <1>1, Received DEF WindowInv
  <2>6. msg'[d].conn = c /\ \A b \in Buffer \ {d} : msg'[b] = msg[b]
    BY <2>2, <2>4, <2>5
  <2>7. QED
    BY <2>3, <2>4, <2>6 DEF WindowInv
<1>2. CASE UNCHANGED <<pool, msg>>
  BY <1>2 DEF WindowInv
<1>3. UNCHANGED <<pool, msg>> \/ \E c \in Conn, d \in Buffer : ReceiveRequest(c, d)
  BY DEF Receiver, Gather, Select, SelectFails, ReceiveNothing, PushMessage,
         SignalConsumer, Push, Signal, queueVars
<1>4. QED
  BY <1>1, <1>2, <1>3

LEMMA WindowStep ==
  ASSUME WindowInv, SlotsRegistered', [Next]_vars, ~ReceiveInWindow
  PROVE  WindowInv'
<1>1. ServerInv'
  BY ServerInvStep DEF WindowInv
<1>2. rfds' \subseteq Elems(slots')
  <2>1. Elems(slots) \subseteq Elems(slots')
    <3>1. slots \in Seq(Conn)
      BY DEF WindowInv, ServerInv, TypeOK
    <3>2. slots' = slots \/ \E c \in Conn : slots' = Append(slots, c)
      BY DEF Next, Main, Accept, Register, Client, Receiver, ConsumerStep, Interrupt,
             mainVars, vars
    <3>3. QED
      BY <3>1, <3>2 DEF Elems
  <2>2. rfds' \subseteq rfds \/ (rfds' = Elems(slots) /\ slots' = slots)
    BY DEF Next, Main, Client, Receiver, ConsumerStep, Interrupt, Gather, Select,
           SelectFails, ReceiveRequest, ReceiveNothing, ScanPast, PushMessage, SignalConsumer,
           recvVars, mainVars, vars
  <2>3. QED
    BY <2>1, <2>2 DEF WindowInv
<1>3. \A b \in Buffer \ pool' : msg'[b].conn # NoConn
  <2>1. CASE Receiver
    BY <2>1, ReceiveOutside
  <2>2. CASE ~Receiver
    <3>1. msg' = msg
      BY <2>2 DEF Next, Main, Client, ConsumerStep, Interrupt, vars
    <3>2. pool \subseteq pool'
      BY <2>2 DEF Next, Main, Client, ConsumerStep, Interrupt, vars, queueVars,
             WaitForMessage, Wait, SpuriousWakeup, TakeMessage, Pop, ReleaseMessage,
             Free, Controller, Login, Ignore, HallEnter, Sitdown, Flush, NullConn, TakeSeat
    <3>3. QED
      BY <3>1, <3>2 DEF WindowInv
  <2>3. QED
    BY <2>1, <2>2
<1>4. proc' # "null_conn"
  <2>1. ASSUME NEW k \in Consumer, NullConn(k)
        PROVE  FALSE
    BY <2>1, HeldHasConnection DEF NullConn, MessagesHaveConnections
  <2>2. proc' = proc \/ proc' \in {"up", "full", "null_user", "broken_pipe", "interrupted"}
    BY <2>1 DEF Next, Main, Accept, Register, Client, Receiver, ConsumerStep, Interrupt,
           vars, WaitForMessage, TakeMessage, ReleaseMessage,
           Controller, Login, Ignore, HallEnter, Sitdown, Flush, TakeSeat
  <2>3. QED
    BY <2>2 DEF WindowInv
<1>5. QED
  BY <1>1, <1>2, <1>3, <1>4 DEF WindowInv

\* As long as the receiving thread stays out of main's window, every message
\* taken for handling has the connection the comment in thread_recv.c promises,
\* and no controller ends the process for want of one.
THEOREM OnlyTheWindow ==
  Spec /\ [][~ReceiveInWindow]_vars
    => [](MessagesHaveConnections /\ proc # "null_conn")
<1>1. Init => ServerInv /\ rfds \subseteq Elems(slots) /\ proc # "null_conn"
              /\ \A b \in Buffer \ pool : msg[b].conn # NoConn
  BY ServerInvInit DEF Init, QueueInit
<1>2. Init /\ SlotsRegistered => WindowInv
  BY <1>1 DEF WindowInv
<1>3. WindowInv /\ SlotsRegistered' /\ [Next]_vars /\ [~ReceiveInWindow]_vars => WindowInv'
  <2> SUFFICES ASSUME WindowInv, SlotsRegistered', [Next]_vars, [~ReceiveInWindow]_vars
               PROVE  WindowInv'
    OBVIOUS
  <2>1. CASE ~ReceiveInWindow
    BY <2>1, WindowStep
  <2>2. CASE UNCHANGED vars
    <3>1. ~ReceiveInWindow
      BY <2>2 DEF vars, recvVars, queueVars, ReceiveInWindow, ReceiveRequest, Malloc
    <3>2. QED
      BY <3>1, WindowStep
  <2>3. QED
    BY <2>1, <2>2
<1>4. WindowInv => MessagesHaveConnections /\ proc # "null_conn"
  BY HeldHasConnection DEF WindowInv
<1>5. QED
  BY <1>2, <1>3, <1>4, SlotsRegisteredCorrect, PTL DEF Spec
=============================================================================
