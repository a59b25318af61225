---------------------------- MODULE MessageQueue ----------------------------
(***************************************************************************)
(* The message queue between the receiving thread and the consumer threads *)
(* of the game server: the queue itself and its condition variable         *)
(* (model_message.c), the buffer pool messages are carried in, and the     *)
(* wait-then-pop loop of the consumers (thread_message_consume.c).         *)
(*                                                                         *)
(* One thread, the producer, takes a buffer from the pool, fills it,       *)
(* appends it to the queue under message_mutex and signals the condition   *)
(* variable after the mutex is released.  Each consumer waits on the       *)
(* condition variable with no predicate, then pops once.  The sections     *)
(* under message_mutex contain no blocking call, so each is one action.    *)
(*                                                                         *)
(* What a message says and what a consumer does with it is left to the     *)
(* module Server, which extends this one.                                  *)
(***************************************************************************)
EXTENDS Naturals, Sequences, FiniteSets

CONSTANTS Buffer,    \* the addresses of the message buffers
          Consumer,  \* the consumer threads
          NoBuffer   \* the NULL buffer pointer

ASSUME QueueAssumption == /\ NoBuffer \notin Buffer
                          /\ IsFiniteSet(Consumer)

VARIABLES pool,      \* the buffers bmemory holds as free
          queue,     \* lc_messages_qid, as the sequence of queued buffers
          producer,  \* what the receiving thread is doing with the queue
          filling,   \* the buffer the receiving thread holds
          consumer,  \* where each consumer is in its loop
          holding,   \* pMsg of each consumer
          lost       \* history: signals sent while no consumer waited

queueVars == <<pool, queue, producer, filling, consumer, holding, lost>>

Waiting == {c \in Consumer : consumer[c] = "waiting"}
Woken   == {c \in Consumer : consumer[c] = "woken"}

\* message_init, and the consumers started after it.
QueueInit ==
  /\ pool = Buffer
  /\ queue = <<>>
  /\ producer = "idle"
  /\ filling = NoBuffer
  /\ consumer = [c \in Consumer |-> "idle"]
  /\ holding = [c \in Consumer |-> NoBuffer]
  /\ lost = 0

-----------------------------------------------------------------------------
\* message_malloc: the producer takes a free buffer.  The pool grows on demand
\* in the code; the size of Buffer bounds the messages in flight.
Malloc(b) ==
  /\ producer = "idle"
  /\ b \in pool
  /\ pool' = pool \ {b}
  /\ filling' = b
  /\ producer' = "filled"
  /\ UNCHANGED <<queue, consumer, holding, lost>>

\* message_queue_push up to the unlock.
Push ==
  /\ producer = "filled"
  /\ queue' = Append(queue, filling)
  /\ filling' = NoBuffer
  /\ producer' = "pushed"
  /\ UNCHANGED <<pool, consumer, holding, lost>>

\* Mutant of Signal: only a push on an empty queue signals.
SignalWhenFirst ==
  /\ producer = "pushed"
  /\ producer' = "idle"
  /\ \/ \E c \in Waiting :
          /\ Len(queue) = 1
          /\ consumer' = [consumer EXCEPT ![c] = "woken"]
          /\ lost' = lost
     \/ /\ Waiting = {} \/ Len(queue) # 1
        /\ lost' = IF Waiting = {} THEN lost + 1 ELSE lost
        /\ consumer' = consumer
  /\ UNCHANGED <<pool, queue, filling, holding>>

\* pthread_cond_signal, outside the mutex: it wakes a waiting consumer, and
\* has no effect at all when none waits.
Signal ==
  /\ producer = "pushed"
  /\ producer' = "idle"
  /\ \/ \E c \in Waiting :
          /\ consumer' = [consumer EXCEPT ![c] = "woken"]
          /\ lost' = lost
     \/ /\ Waiting = {}
        /\ lost' = lost + 1
        /\ consumer' = consumer
  /\ UNCHANGED <<pool, queue, filling, holding>>

-----------------------------------------------------------------------------
\* The top of the consumer's loop: lock and pthread_cond_wait.  The queue is
\* not looked at before waiting.
Wait(c) ==
  /\ consumer[c] = "idle"
  /\ consumer' = [consumer EXCEPT ![c] = "waiting"]
  /\ UNCHANGED <<pool, queue, producer, filling, holding, lost>>

\* A wakeup without a signal, which pthread_cond_wait may deliver.
SpuriousWakeup(c) ==
  /\ consumer[c] = "waiting"
  /\ consumer' = [consumer EXCEPT ![c] = "woken"]
  /\ UNCHANGED <<pool, queue, producer, filling, holding, lost>>

\* Mutant of Pop: bqueue_front for bqueue_pop.
PopFront(c) ==
  /\ consumer[c] = "woken"
  /\ \/ /\ queue # <<>>
        /\ holding' = [holding EXCEPT ![c] = Head(queue)]
        /\ consumer' = [consumer EXCEPT ![c] = "busy"]
     \/ /\ queue = <<>>
        /\ consumer' = [consumer EXCEPT ![c] = "idle"]
        /\ holding' = holding
  /\ UNCHANGED <<pool, queue, producer, filling, lost>>

\* message_queue_pop after a wakeup: the head of the queue, or NULL, which
\* sends the consumer back to waiting.
Pop(c) ==
  /\ consumer[c] = "woken"
  /\ \/ /\ queue # <<>>
        /\ queue' = Tail(queue)
        /\ holding' = [holding EXCEPT ![c] = Head(queue)]
        /\ consumer' = [consumer EXCEPT ![c] = "busy"]
     \/ /\ queue = <<>>
        /\ consumer' = [consumer EXCEPT ![c] = "idle"]
        /\ UNCHANGED <<queue, holding>>
  /\ UNCHANGED <<pool, producer, filling, lost>>

\* Mutant of Free: the buffer is not given back.
FreeNothing(c) ==
  /\ consumer[c] = "busy"
  /\ holding' = [holding EXCEPT ![c] = NoBuffer]
  /\ consumer' = [consumer EXCEPT ![c] = "idle"]
  /\ UNCHANGED <<pool, queue, producer, filling, lost>>

\* message_free at the end of the loop body.
Free(c) ==
  /\ consumer[c] = "busy"
  /\ pool' = pool \cup {holding[c]}
  /\ holding' = [holding EXCEPT ![c] = NoBuffer]
  /\ consumer' = [consumer EXCEPT ![c] = "idle"]
  /\ UNCHANGED <<queue, producer, filling, lost>>

ConsumerLoop(c) == Wait(c) \/ Pop(c) \/ Free(c)

QueueNext ==
  \/ \E b \in Buffer : Malloc(b)
  \/ Push
  \/ Signal
  \/ \E c \in Consumer : ConsumerLoop(c) \/ SpuriousWakeup(c)

QueueSpec == QueueInit /\ [][QueueNext]_queueVars

-----------------------------------------------------------------------------
(***************************************************************************)
(* What the queue guarantees                                               *)
(***************************************************************************)
ProducerState == {"idle", "filled", "pushed"}
ConsumerState == {"idle", "waiting", "woken", "busy"}

\* The type invariant of the queue.
QueueTypeOK ==
  /\ pool \subseteq Buffer
  /\ queue \in Seq(Buffer)
  /\ producer \in ProducerState
  /\ filling \in Buffer \cup {NoBuffer}
  /\ consumer \in [Consumer -> ConsumerState]
  /\ holding \in [Consumer -> Buffer \cup {NoBuffer}]
  /\ lost \in Nat

\* A thread holds a buffer exactly while it works on it.
HeldWhileBusy ==
  /\ (filling # NoBuffer) <=> (producer = "filled")
  /\ \A c \in Consumer : (holding[c] # NoBuffer) <=> (consumer[c] = "busy")

\* A message buffer has one owner: it is free, or queued once, or held by one
\* thread.  The code takes and returns buffers from two kinds of threads with
\* no common lock, and a buffer with two owners would be overwritten by the
\* next recv while a controller still reads it.
SingleOwner ==
  /\ filling \notin pool
  /\ \A i \in DOMAIN queue :
       /\ queue[i] \notin pool
       /\ queue[i] # filling
       /\ \A j \in DOMAIN queue : queue[i] = queue[j] => i = j
       /\ \A c \in Consumer : queue[i] # holding[c]
  /\ \A c \in Consumer :
       /\ holding[c] \notin pool
       /\ holding[c] # NoBuffer =>
            /\ holding[c] # filling
            /\ \A d \in Consumer : holding[c] = holding[d] => c = d

\* No buffer leaks: one that is not free is queued or held by a thread that
\* will push or free it.
NoLeak ==
  \A b \in Buffer :
    \/ b \in pool
    \/ b = filling
    \/ \E i \in DOMAIN queue : queue[i] = b
    \/ \E c \in Consumer : holding[c] = b

\* The signals the producer still owes.
Owed == IF producer = "pushed" THEN 1 ELSE 0

\* Every queued message is accounted for by a wakeup to come or by a lost
\* signal: consumers that are woken and have not popped yet, the signal the
\* producer still owes, and the signals nobody received.  A message is left
\* with no wakeup only when a push found every consumer busy.
SignalCoverage == Len(queue) <= Cardinality(Woken) + Owed + lost
=============================================================================
