------------------------------- MODULE Server -------------------------------
(***************************************************************************)
(* The game server as its threads see it: the main thread accepts          *)
(* connections (main.c), one thread polls them and turns what it receives  *)
(* into messages (thread_recv.c), and a pool of consumers dispatches the   *)
(* messages to the controllers (thread_message_consume.c, controller_*.c). *)
(* The queue between the last two is the module MessageQueue, whose        *)
(* actions appear here as conjuncts.                                       *)
(*                                                                         *)
(* The process is one: a bad pointer in a consumer, a write to a client    *)
(* that has gone, a full connection table or SIGINT ends all of it.  proc  *)
(* records the cause and nothing moves afterwards.                         *)
(***************************************************************************)
EXTENDS MessageQueue

CONSTANTS Conn,       \* client connections, standing for their descriptors
          NoConn,     \* the NULL bconnection_t pointer
          Payload,    \* the requests clients make: see Request
          Garbled,    \* what the bytes inside a request can be read as
          MaxClient,  \* MAX_CLIENT, the size of g_client_fds
          MaxSend,    \* bound: requests a client makes
          MaxCut,     \* bound: how often recv cuts a request of a client
          RoomNum,    \* ROOM_NUM
          TableNum    \* ROOM_TABLE_NUM

Op == {"login", "list", "enter", "sitdown", "unknown"}

\* header.id, and the three fields sitdown reads.  pos 0 is the left seat, 1
\* the right one and any other value neither.
AnyPayload == [op : Op, room : Nat, table : Nat, pos : 0..2]

\* ctx stands for header.client_context_id: with from it names the request.
\* It is 0 for a number no request has.
Request == [from : Conn, ctx : Nat, body : AnyPayload]
Message == [req : Request, conn : Conn \cup {NoConn}]

\* Tables are named by room and number; TableOf is the one a request names.
Tables     == (0..(RoomNum - 1)) \X (0..(TableNum - 1))
TableOf(p) == <<p.room, p.table>>

ASSUME ServerAssumption ==
  /\ NoConn \notin Conn
  /\ Payload \subseteq AnyPayload /\ Garbled \subseteq [ctx : Nat, body : AnyPayload]
  /\ MaxClient \in Nat /\ MaxSend \in Nat /\ MaxCut \in Nat
  /\ RoomNum \in Nat /\ TableNum \in Nat

VARIABLES
  proc,       \* "up", or why the process ended
  peer,       \* each client's end of its connection
  sent,       \* how many requests each client has made
  inbox,      \* the socket's receive buffer: requests, and the rest of one
  stream,     \* the responses written to each connection, in order
  slots,      \* g_client_fds: slots fill in order and are never cleared
  accepting,  \* the connection in main's critical section, or NoConn
  registered, \* the connections in the connection hashmap
  recv,       \* where the receiving thread is in its loop
  rfds,       \* its fd_set: what it polls, then what is ready
  cuts,       \* history: how often recv has cut a request of each client
  swallowed,  \* history: requests that no message carries whole
  msg,        \* the contents of the message buffers
  at,         \* how far each consumer is in its controller
  isAuth,     \* connections with is_auth set
  users,      \* the keys of the user hashmap
  roomList,   \* the connection list of room 0
  tables      \* status of every table, as its set of bits

netVars  == <<peer, sent, inbox>>
mainVars == <<slots, accepting, registered>>
recvVars == <<recv, rfds, cuts, swallowed>>
dataVars == <<isAuth, users, roomList, tables>>
vars == <<queueVars, proc, netVars, stream, mainVars, recvVars, msg, at, dataVars>>

Up == proc = "up"
Elems(s) == {s[i] : i \in DOMAIN s}

Init ==
  /\ QueueInit
  /\ proc = "up"
  /\ peer = [c \in Conn |-> "none"]
  /\ sent = [c \in Conn |-> 0]
  /\ inbox = [c \in Conn |-> <<>>]
  /\ stream = [c \in Conn |-> <<>>]
  /\ slots = <<>>
  /\ accepting = NoConn
  /\ registered = {}
  /\ recv = "gather"
  /\ rfds = {}
  /\ cuts = [c \in Conn |-> 0]
  /\ swallowed = {}
  /\ msg = [b \in Buffer |-> <<>>]
  /\ at = [k \in Consumer |-> "none"]
  /\ isAuth = {}
  /\ users = {}
  /\ roomList = <<>>
  /\ tables = [t \in Tables |-> {}]

-----------------------------------------------------------------------------
(***************************************************************************)
(* The clients (external).  A connection is established by the kernel      *)
(* before the server accepts it, so requests may arrive early.             *)
(***************************************************************************)
Connect(c) ==
  /\ peer[c] = "none"
  /\ peer' = [peer EXCEPT ![c] = "open"]
  /\ UNCHANGED <<sent, inbox>>

Send(c, p) ==
  /\ peer[c] = "open"
  /\ sent[c] < MaxSend
  /\ sent' = [sent EXCEPT ![c] = @ + 1]
  /\ inbox' = [inbox EXCEPT ![c] =
                 Append(@, [from |-> c, ctx |-> sent[c] + 1, body |-> p])]
  /\ UNCHANGED peer

Close(c) ==
  /\ peer[c] = "open"
  /\ peer' = [peer EXCEPT ![c] = "closed"]
  /\ UNCHANGED <<sent, inbox>>

Client(c) ==
  /\ Connect(c) \/ Close(c) \/ \E p \in Payload : Send(c, p)
  /\ UNCHANGED <<queueVars, stream, mainVars, recvVars, msg, at, dataVars, proc>>

-----------------------------------------------------------------------------
(***************************************************************************)
(* The main thread.  clifd_mutex is taken by main alone, so the receiving  *)
(* thread can look between the two steps of accepting a connection.        *)
(***************************************************************************)
\* Mutant of Accept: two connections may be accepted at once.
AcceptAnother(c) ==
  /\ peer[c] # "none"
  /\ c \notin Elems(slots)
  /\ Len(slots) < MaxClient
  /\ slots' = Append(slots, c)
  /\ accepting' = c
  /\ UNCHANGED <<registered, proc>>

\* The descriptor goes to the first zero slot; a full table ends the process.
Accept(c) ==
  /\ accepting = NoConn
  /\ peer[c] # "none"
  /\ c \notin Elems(slots)
  /\ \/ /\ Len(slots) < MaxClient
        /\ slots' = Append(slots, c)
        /\ accepting' = c
        /\ proc' = proc
     \/ /\ Len(slots) = MaxClient
        /\ proc' = "full"
        /\ UNCHANGED <<slots, accepting>>
  /\ UNCHANGED registered

\* Mutant of Register: it may run before a connection is accepted.
RegisterEarly ==
  /\ registered' = registered \cup {accepting}
  /\ accepting' = NoConn
  /\ UNCHANGED <<slots, proc>>

\* connection_hashmap_set.
Register ==
  /\ accepting # NoConn
  /\ registered' = registered \cup {accepting}
  /\ accepting' = NoConn
  /\ UNCHANGED <<slots, proc>>

Main ==
  /\ Register \/ \E c \in Conn : Accept(c)
  /\ UNCHANGED <<queueVars, netVars, stream, recvVars, msg, at, dataVars>>

-----------------------------------------------------------------------------
(***************************************************************************)
(* The receiving thread.                                                   *)
(***************************************************************************)
Readable(c) == inbox[c] # <<>> \/ peer[c] = "closed"

\* The FD_SET loop over g_client_fds, repeated while there is no client.  The
\* descriptors are below FD_SETSIZE.
Gather ==
  /\ recv = "gather" /\ producer = "idle"
  /\ slots # <<>>
  /\ rfds' = Elems(slots)
  /\ recv' = "select"
  /\ UNCHANGED <<queueVars, cuts, swallowed, inbox, msg>>

\* select leaves the readable descriptors, or none when it times out.
Select ==
  /\ recv = "select"
  /\ rfds' = {c \in rfds : Readable(c)}
  /\ recv' = IF rfds' = {} THEN "gather" ELSE "scan"
  /\ UNCHANGED <<queueVars, cuts, swallowed, inbox, msg>>

\* An error of select ends the receiving thread, and with it all receiving.
SelectFails ==
  /\ recv = "select"
  /\ recv' = "ended"
  /\ UNCHANGED <<queueVars, rfds, cuts, swallowed, inbox, msg>>

\* The descriptor the scan of g_client_fds reaches next.
IsNext(c) ==
  \E i \in DOMAIN slots :
    /\ slots[i] = c
    /\ c \in rfds
    /\ \A j \in 1..(i - 1) : slots[j] \notin rfds

ScanPast(c) ==
  /\ recv = "scan" /\ producer = "idle"
  /\ IsNext(c)
  /\ rfds' = rfds \ {c}
  /\ recv' = IF rfds' = {} THEN "gather" ELSE "scan"

Blank(op) == [op |-> op, room |-> 0, table |-> 0, pos |-> 0]

\* What stays in the socket of a request whose beginning has been received.
Rest(c) == [from |-> c, ctx |-> 0, body |-> Blank("unknown")]

\* The beginning of a request, filled up with the zeros of the buffer: cut in
\* header.id, after it, behind the context id, or between the fields.
Beginnings(q) ==
  {Rest(q.from), [q EXCEPT !.ctx = 0, !.body = Blank(q.body.op)]}
    \cup {[q EXCEPT !.body = p] :
            p \in {Blank(q.body.op), [Blank(q.body.op) EXCEPT !.room = q.body.room],
                  [q.body EXCEPT !.pos = 0]}}

\* The message _create_message makes of a piece of c's stream that begins
\* with q, or with the first part of q only.
Readings(c, q, whole) ==
  IF q.ctx = 0 THEN {[from |-> c, ctx |-> g.ctx, body |-> g.body] : g \in Garbled}
  ELSE IF whole THEN {q} ELSE Beginnings(q)

\* Mutant of ReceiveRequest: what is received stays in the socket (MSG_PEEK).
PeekRequest(c, b) ==
  /\ ScanPast(c)
  /\ Malloc(b)
  /\ inbox[c] # <<>>
  /\ msg' = [msg EXCEPT ![b] =
               [req |-> Head(inbox[c]), conn |-> IF c \in registered THEN c ELSE NoConn]]
  /\ UNCHANGED <<cuts, inbox, swallowed>>

\* recv returns the first n pieces the socket holds, the last of them whole or
\* cut, and _create_message makes one message of it.  The connection is
\* looked up by then.
ReceiveRequest(c, b) ==
  /\ ScanPast(c)
  /\ Malloc(b)
  /\ \E n \in DOMAIN inbox[c], whole \in BOOLEAN :
       /\ whole \/ cuts[c] < MaxCut
       /\ cuts' = IF whole THEN cuts ELSE [cuts EXCEPT ![c] = @ + 1]
       /\ inbox' = [inbox EXCEPT ![c] =
                      (IF whole THEN <<>> ELSE <<Rest(c)>>) \o SubSeq(@, n + 1, Len(@))]
       /\ swallowed' = swallowed \cup
            {inbox[c][i] : i \in (IF whole \/ n > 1 THEN 2 ELSE 1)..n}
       /\ \E q \in Readings(c, inbox[c][1], whole \/ n > 1) :
            msg' = [msg EXCEPT ![b] =
                     [req |-> q, conn |-> IF c \in registered THEN c ELSE NoConn]]

\* End of file: nothing is done, the descriptor stays in its slot.
ReceiveNothing(c) ==
  /\ ScanPast(c)
  /\ inbox[c] = <<>>
  /\ UNCHANGED <<queueVars, cuts, swallowed, inbox, msg>>

PushMessage    == Push /\ UNCHANGED <<recvVars, inbox, msg>>
SignalConsumer == Signal /\ UNCHANGED <<recvVars, inbox, msg>>

Receiver ==
  /\ \/ Gather
     \/ Select
     \/ SelectFails
     \/ \E c \in Conn, b \in Buffer : ReceiveRequest(c, b)
     \/ \E c \in Conn : ReceiveNothing(c)
     \/ PushMessage
     \/ SignalConsumer
  /\ UNCHANGED <<peer, sent, stream, mainVars, at, dataVars, proc>>

-----------------------------------------------------------------------------
(***************************************************************************)
(* The consumers and their controllers.                                    *)
(***************************************************************************)
MsgOf(k)  == msg[holding[k]]
BodyOf(k) == MsgOf(k).req.body
GoTo(k, place) == at' = [at EXCEPT ![k] = place]

WaitForMessage(k) ==
  /\ Wait(k) \/ SpuriousWakeup(k)
  /\ UNCHANGED <<at, stream, dataVars, proc>>

\* Mutant of TakeMessage: the NULL of an empty queue is dispatched.
TakeAnything(k) ==
  /\ Pop(k)
  /\ GoTo(k, "dispatch")
  /\ UNCHANGED <<stream, dataVars, proc>>

TakeMessage(k) ==
  /\ Pop(k)
  /\ GoTo(k, IF queue = <<>> THEN "none" ELSE "dispatch")
  /\ UNCHANGED <<stream, dataVars, proc>>

\* Mutant of Login: the user is not put into the hashmap.
LoginUnrecorded(k) ==
  /\ at[k] = "dispatch" /\ BodyOf(k).op = "login"
  /\ MsgOf(k).conn # NoConn
  /\ isAuth' = isAuth \cup {MsgOf(k).conn}
  /\ GoTo(k, "flush")
  /\ UNCHANGED <<queueVars, stream, users, roomList, tables, proc>>

\* controller_user_login up to its response.
Login(k) ==
  /\ at[k] = "dispatch" /\ BodyOf(k).op = "login"
  /\ MsgOf(k).conn # NoConn
  /\ isAuth' = isAuth \cup {MsgOf(k).conn}
  /\ users' = users \cup {MsgOf(k).conn}
  /\ GoTo(k, "flush")
  /\ UNCHANGED <<queueVars, stream, roomList, tables, proc>>

\* controller_user_list, which is empty, and the default branch.
Ignore(k) ==
  /\ at[k] = "dispatch" /\ BodyOf(k).op \in {"list", "unknown"}
  /\ GoTo(k, "free")
  /\ UNCHANGED <<queueVars, stream, dataVars, proc>>

\* Mutant of HallEnter: the response is written and never flushed.
HallEnterUnflushed(k) ==
  /\ at[k] = "dispatch" /\ BodyOf(k).op = "enter"
  /\ MsgOf(k).conn # NoConn
  /\ roomList' = Append(roomList, MsgOf(k).conn)
  /\ GoTo(k, "free")
  /\ UNCHANGED <<queueVars, stream, isAuth, users, tables, proc>>

\* controller_hall_enter under room_mutex.  The list of statuses it copies is
\* response data.
HallEnter(k) ==
  /\ at[k] = "dispatch" /\ BodyOf(k).op = "enter"
  /\ MsgOf(k).conn # NoConn
  /\ roomList' = Append(roomList, MsgOf(k).conn)
  /\ GoTo(k, "flush")
  /\ UNCHANGED <<queueVars, stream, isAuth, users, tables, proc>>

\* Mutant of Sitdown: the seat is taken first.
SitdownFirst(k) ==
  /\ at[k] = "dispatch" /\ BodyOf(k).op = "sitdown"
  /\ GoTo(k, "seat")
  /\ UNCHANGED <<queueVars, stream, dataVars, proc>>

\* controller_hall_sitdown responds before it looks at the table.
Sitdown(k) ==
  /\ at[k] = "dispatch" /\ BodyOf(k).op = "sitdown"
  /\ GoTo(k, "flush")
  /\ UNCHANGED <<queueVars, stream, dataVars, proc>>

\* bsocket_flush.  What is written to a client that has closed is discarded,
\* or the write fails and ends the process (SIGPIPE, or err_sys in Writen).
Flush(k) ==
  /\ at[k] = "flush" /\ MsgOf(k).conn # NoConn
  /\ \/ /\ peer[MsgOf(k).conn] = "open"
        /\ stream' = [stream EXCEPT ![MsgOf(k).conn] = Append(@, MsgOf(k).req)]
        /\ proc' = proc
     \/ /\ peer[MsgOf(k).conn] = "closed"
        /\ stream' = stream
        /\ proc' \in {"up", "broken_pipe"}
  /\ GoTo(k, IF BodyOf(k).op = "sitdown" THEN "seat" ELSE "free")
  /\ UNCHANGED <<queueVars, dataVars>>

\* The first use of a NULL msg->conn, in the controller or in bsocket_flush.
NullConn(k) ==
  /\ \/ at[k] = "dispatch" /\ BodyOf(k).op \in {"login", "enter"}
     \/ at[k] = "flush"
  /\ MsgOf(k).conn = NoConn
  /\ proc' = "null_conn"
  /\ UNCHANGED <<queueVars, stream, dataVars, at>>

HasFreeSeat(p) ==
  /\ p.room < RoomNum /\ p.table < TableNum
  /\ ~({1, 4} \subseteq tables[TableOf(p)])

\* status |= 0x03 for the left seat, status |= 0x0c for the right one.
SeatBits(p) ==
  IF p.pos = 0 /\ 1 \notin tables[TableOf(p)] THEN {1, 2}
  ELSE IF p.pos = 1 /\ 4 \notin tables[TableOf(p)] THEN {4, 8}
  ELSE {}

\* The rest of controller_hall_sitdown, under room_mutex.  conn->user is used
\* next, which no code ever sets: it is NULL from main's initialiser.
TakeSeat(k) ==
  /\ at[k] = "seat"
  /\ \/ /\ HasFreeSeat(BodyOf(k))
        /\ tables' = [tables EXCEPT ![TableOf(BodyOf(k))] =
                        @ \cup SeatBits(BodyOf(k))]
        /\ proc' = "null_user"
        /\ at' = at
     \/ /\ ~HasFreeSeat(BodyOf(k))
        /\ GoTo(k, "free")
        /\ UNCHANGED <<tables, proc>>
  /\ UNCHANGED <<queueVars, stream, isAuth, users, roomList>>

ReleaseMessage(k) ==
  /\ at[k] = "free"
  /\ Free(k)
  /\ GoTo(k, "none")
  /\ UNCHANGED <<stream, dataVars, proc>>

Controller(k) ==
  \/ Login(k) \/ Ignore(k) \/ HallEnter(k) \/ Sitdown(k)
  \/ Flush(k) \/ NullConn(k) \/ TakeSeat(k)

ConsumerStep(k) ==
  /\ WaitForMessage(k) \/ TakeMessage(k) \/ Controller(k) \/ ReleaseMessage(k)
  /\ UNCHANGED <<netVars, mainVars, recvVars, msg>>

-----------------------------------------------------------------------------
\* sig_int: application_destroy and exit.
Interrupt ==
  /\ proc' = "interrupted"
  /\ UNCHANGED <<queueVars, netVars, stream, mainVars, recvVars, msg, at, dataVars>>

Next ==
  /\ Up
  /\ \/ \E c \in Conn : Client(c)
     \/ Main
     \/ Receiver
     \/ \E k \in Consumer : ConsumerStep(k)
     \/ Interrupt

Spec == Init /\ [][Next]_vars

\* Every thread that can run is eventually scheduled.  Nothing is assumed of
\* the clients, and a waiting consumer needs a signal: a spurious wakeup is
\* never owed.
ThreadStep(k) == Up /\ ~(consumer[k] = "waiting") /\ ConsumerStep(k)

Fairness ==
  /\ WF_vars(Up /\ Main)
  /\ WF_vars(Up /\ Receiver)
  /\ \A k \in Consumer : WF_vars(ThreadStep(k))

FairSpec == Spec /\ Fairness

-----------------------------------------------------------------------------
(***************************************************************************)
(* What the server guarantees                                              *)
(***************************************************************************)
Cause == {"null_conn", "null_user", "broken_pipe", "full", "interrupted"}
Place == {"none", "dispatch", "flush", "seat", "free"}
Bits  == {1, 2, 4, 8}

\* The type invariant of the server's own variables.
TypeOK ==
  /\ proc \in {"up"} \cup Cause
  /\ peer \in [Conn -> {"none", "open", "closed"}]
  /\ sent \in [Conn -> 0..MaxSend]
  /\ inbox \in [Conn -> Seq(Request)]
  /\ stream \in [Conn -> Seq(Request)]
  /\ slots \in Seq(Conn)
  /\ accepting \in Conn \cup {NoConn}
  /\ registered \subseteq Conn
  /\ recv \in {"gather", "select", "scan", "ended"}
  /\ rfds \subseteq Conn
  /\ cuts \in [Conn -> 0..MaxCut]
  /\ swallowed \subseteq Request
  /\ msg \in [Buffer -> Message \cup {<<>>}]
  /\ at \in [Consumer -> Place]
  /\ isAuth \subseteq Conn
  /\ users \subseteq Conn
  /\ roomList \in Seq(Conn)
  /\ tables \in [Tables -> SUBSET Bits]

\* A consumer is inside a controller exactly while it holds a message, and
\* what it holds was filled by the receiving thread.  The two program counters
\* are moved by different functions (the thread loop and the controllers).
HandlesWhatItHolds ==
  \A k \in Consumer :
    /\ (at[k] # "none") <=> (consumer[k] = "busy")
    /\ consumer[k] = "busy" => holding[k] \in Buffer /\ msg[holding[k]] \in Message

\* Main publishes a descriptor before it registers the connection.  A slot
\* without a registered connection is the one main is still accepting: no
\* earlier client is ever left without its connection record.
SlotsRegistered ==
  /\ Elems(slots) \ registered = {accepting} \ {NoConn}
  /\ registered \subseteq Elems(slots)
  /\ accepting # NoConn => slots # <<>> /\ accepting = slots[Len(slots)]

\* Buffers are reused, the consumers run in any order and recv knows no
\* boundaries, yet a response goes to the client whose bytes it answers.  As
\* long as recv has cut none of the client's requests, it answers a request
\* the client made, and none twice.
RepliesMatchRequests ==
  \A c \in Conn : \A i \in DOMAIN stream[c] :
    /\ stream[c][i].from = c
    /\ stream[c][i].body.op \notin {"list", "unknown"}
    /\ cuts[c] = 0 =>
         /\ stream[c][i].ctx \in 1..sent[c]
         /\ \A j \in DOMAIN stream[c] : stream[c][i].ctx = stream[c][j].ctx => i = j

\* A client that has its login or hall response is recorded already: a
\* broadcast to the hall that follows the response reaches it.
EffectBeforeReply ==
  \A c \in Conn : \A i \in DOMAIN stream[c] :
    /\ stream[c][i].body.op = "login" => c \in isAuth /\ c \in users
    /\ stream[c][i].body.op = "enter" => c \in Elems(roomList)

\* Sitting down is the other way round: the success response goes out before
\* the seat is looked at.  A seat that changed belongs to a client that was
\* told so, or had gone.
ReplyBeforeSeat ==
  \A t \in Tables :
    tables[t] # {} =>
      \E c \in Conn :
        \/ peer[c] = "closed"
        \/ \E i \in DOMAIN stream[c] :
             stream[c][i].body.op = "sitdown" /\ TableOf(stream[c][i].body) = t

\* The pointer _create_message stores in a message is the one "later
\* operations" use: each message taken for handling has a connection.
MessagesHaveConnections ==
  \A k \in Consumer : at[k] # "none" => MsgOf(k).conn # NoConn

Pending(c, n) ==
  \E i \in DOMAIN inbox[c] :
    inbox[c][i].ctx = n /\ inbox[c][i].body.op \in {"login", "enter", "sitdown"}

Answered(c, n) == \E i \in DOMAIN stream[c] : stream[c][i].ctx = n

\* Ways a request may get no response: recv returned it behind another one
\* or cut it, a wakeup was lost, the receiving thread or the process ended, or
\* the client left.
Excused(c, n) ==
  \/ \E q \in swallowed : q.from = c /\ q.ctx = n
  \/ lost > 0
  \/ recv = "ended"
  \/ ~Up
  \/ peer[c] = "closed"

\* Apart from those, every request that takes a response gets one.
EveryRequestAnswered ==
  \A c \in Conn, n \in 1..MaxSend :
    Pending(c, n) ~> (Answered(c, n) \/ Excused(c, n))
=============================================================================
