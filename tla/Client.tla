------------------------------- MODULE Client -------------------------------
(***************************************************************************)
(* The ActionScript client: its assets (AssetsLoader), the socket connector *)
(* with its callbacks, the view manager, and the views with their proxies. *)
(*                                                                         *)
(* SocketConnector.as treats each socket event as one message.  TCP keeps  *)
(* no such boundaries: an event may carry several messages, of which all   *)
(* but the first are swallowed, or end inside one, whose tail is then read *)
(* as a message of its own.                                                *)
(*                                                                         *)
(* The server is reduced to what this client sees of it: replies in any    *)
(* order, and a push to everybody in the hall when a seat is taken.  (The  *)
(* module Server shows that today a NULL user ends the server before it    *)
(* broadcasts; here sitdown is taken as it is written.)                    *)
(***************************************************************************)
EXTENDS AssetsLoader, FiniteSets

CONSTANTS Table,      \* the tables of the hall
          MaxRequest  \* bound: the clicks of the user

ASSUME ClientAssumption == Table # {} /\ MaxRequest \in Nat

View     == {"loading", "login", "hall", "room"}
Seat     == {"left", "right"}
Statuses == [Table -> SUBSET Seat]
Api      == {"userLogin", "getTables", "sitdown"}

VARIABLES
  view, stage, created,  \* the current view, those displayed, those that exist
  callbacks,             \* the API called with each context id
  shown,                 \* the status of each table displayed, <<>> before
  built,                 \* history: calls of initChessboards
  inbox, replies,        \* requests at the server, and its unsent replies
  inHall, status,        \* what the server knows: the client, the tables
  wire,                  \* messages on their way to the client
  called,                \* history: requests whose callback was called
  swallowed,             \* history: requests whose reply was not read
  pushLost,              \* history: a push was not read, or came too early
  cut                    \* history: an event ended inside a message

clientVars == <<view, stage, created, callbacks, shown, built>>
serverVars == <<inbox, replies, inHall, status>>
vars == <<loaderVars, clientVars, serverVars, wire, called, swallowed, pushLost, cut>>

Reply(ctx, tables) == [type |-> "reply", ctx |-> ctx, tables |-> tables]
Push(t, s)         == [type |-> "push", table |-> t, status |-> s]
Rest               == [type |-> "tail"]

\* The application has jumped to its default view, which starts the loader.
Init ==
  /\ LoaderInit
  /\ view = "loading" /\ stage = {"loading"} /\ created = {"loading"}
  /\ callbacks = <<>>
  /\ shown = <<>> /\ built = 0
  /\ inbox = {} /\ replies = {}
  /\ inHall = FALSE
  /\ status \in Statuses
  /\ wire = <<>>
  /\ called = {} /\ swallowed = {}
  /\ pushLost = FALSE /\ cut = FALSE

-----------------------------------------------------------------------------
(***************************************************************************)
(* The client                                                              *)
(***************************************************************************)
\* Mutant of Request: the socket is not flushed.
RequestUnsent(api) ==
  /\ callbacks' = Append(callbacks, api)
  /\ inbox' = inbox

\* SocketConnector.request: the next context id names the callback.
Request(api) ==
  /\ callbacks' = Append(callbacks, api)
  /\ inbox' = inbox \cup {Len(callbacks) + 1}

LoginClick ==
  /\ "login" \in stage /\ Len(callbacks) < MaxRequest
  /\ Request("userLogin")
  /\ UNCHANGED <<view, stage, created, shown, built, replies, inHall, status,
                 wire, called, swallowed, pushLost, cut>>

SeatClick ==
  /\ "hall" \in stage /\ shown # <<>> /\ Len(callbacks) < MaxRequest
  /\ Request("sitdown")
  /\ UNCHANGED <<view, stage, created, shown, built, replies, inHall, status,
                 wire, called, swallowed, pushLost, cut>>

\* HallViewProxy.init; the room has no proxy in ApplicationConfig.
InitProxy(id) ==
  IF id = "hall" THEN Request("getTables") ELSE UNCHANGED <<callbacks, inbox>>

\* Mutants of Jump: the old view is removed last; the proxy starts every time.
JumpRemovingLast(id) ==
  /\ IF id \in created
     THEN UNCHANGED <<created, callbacks, inbox>>
     ELSE created' = created \cup {id} /\ InitProxy(id)
  /\ stage' = (stage \cup {id}) \ {view}
  /\ view' = id

JumpStarting(id) ==
  /\ created' = created \cup {id}
  /\ InitProxy(id)
  /\ stage' = IF id \in created THEN stage \cup {id} ELSE (stage \ {view}) \cup {id}
  /\ view' = id

\* ViewManager.jump: only a view that is created takes the place of the
\* current one on the stage; one that exists is put on top of it.
Jump(id) ==
  /\ IF id \in created
     THEN /\ stage' = stage \cup {id}
          /\ UNCHANGED <<created, callbacks, inbox>>
     ELSE /\ stage' = (stage \ {view}) \cup {id}
          /\ created' = created \cup {id}
          /\ InitProxy(id)
  /\ view' = id

\* The loading view waits for the loader, and leaves when it is complete.
Loading ==
  /\ \/ ManifestLoaded /\ UNCHANGED <<clientVars, inbox>>
     \/ FileLoaded /\ Remaining(index') /\ UNCHANGED <<clientVars, inbox>>
     \/ LoadingEnds /\ Jump("login") /\ UNCHANGED <<shown, built>>
  /\ UNCHANGED <<replies, inHall, status, wire, called, swallowed, pushLost, cut>>

\* getTablesResponse: the tables are appended, so the first list stays where
\* it was.
Build(m) ==
  /\ shown' = IF shown = <<>> THEN m.tables ELSE shown
  /\ built' = built + 1

\* The callbacks of the three requests.
Callback(m) ==
  LET api == callbacks[m.ctx]
  IN  \/ /\ api = "userLogin" /\ Jump("hall")
         /\ UNCHANGED <<shown, built>>
      \/ /\ api = "sitdown" /\ Jump("room")
         /\ UNCHANGED <<shown, built>>
      \/ /\ api = "getTables" /\ Build(m)
         /\ UNCHANGED <<view, stage, created, callbacks, inbox>>

\* HallViewProxy.updateTables: there is no item to update before the tables
\* are built.
UpdateTables(m) ==
  /\ shown' = IF shown = <<>> THEN shown ELSE [shown EXCEPT ![m.table] = m.status]
  /\ UNCHANGED <<view, stage, created, callbacks, inbox, built>>

Handle(m) ==
  \/ m.type = "reply" /\ Callback(m)
  \/ m.type = "push" /\ UpdateTables(m)

\* A tail is read as whatever its bytes happen to look like, if anything.
HandleRest ==
  \/ \E ctx \in DOMAIN callbacks : \E s \in Statuses : Callback(Reply(ctx, s))
  \/ \E t \in Table : \E s \in SUBSET Seat : UpdateTables(Push(t, s))
  \/ UNCHANGED <<clientVars, inbox>>

Contexts(ms) == {ms[i].ctx : i \in {j \in DOMAIN ms : ms[j].type = "reply"}}
HasPush(ms)  == \E i \in DOMAIN ms : ms[i].type = "push"

\* socketDataHandler, when n messages and perhaps a part of the next have
\* arrived: readBytes takes all of it.
SocketData(n, part) ==
  LET first == Head(wire)
      more  == SubSeq(wire, 2, n + part)
  IN  /\ IF first = Rest THEN HandleRest ELSE Handle(first)
      /\ wire' = [i \in 1..part |-> Rest] \o SubSeq(wire, n + part + 1, Len(wire))
      /\ called' = called \cup Contexts(<<first>>)
      /\ swallowed' = swallowed \cup Contexts(more)
      /\ pushLost' = (pushLost \/ HasPush(more) \/ (HasPush(<<first>>) /\ shown = <<>>))
      /\ cut' = (cut \/ part = 1)
      /\ UNCHANGED <<replies, inHall, status>>

\* The event ends inside the first message: whichever it is, reading it throws
\* before its callback does anything.
SocketDataCut ==
  /\ wire # <<>> /\ Head(wire) # Rest
  /\ wire' = <<Rest>> \o Tail(wire)
  /\ swallowed' = swallowed \cup Contexts(<<Head(wire)>>)
  /\ cut' = TRUE
  /\ UNCHANGED <<clientVars, serverVars, called, pushLost>>

-----------------------------------------------------------------------------
(***************************************************************************)
(* The server, as this client sees it                                      *)
(***************************************************************************)
\* Mutant of Serve: the client does not join the hall.
ServeOutside(ctx) ==
  /\ ctx \in inbox
  /\ inbox' = inbox \ {ctx}
  /\ replies' = replies \cup
       {Reply(ctx, IF callbacks[ctx] = "getTables" THEN status ELSE <<>>)}
  /\ UNCHANGED <<clientVars, inHall, status, wire, called, swallowed, pushLost, cut>>

\* A consumer handles a request.  controller_hall_enter copies the tables and
\* joins the hall under one lock; all replies are sent outside of it.
Serve(ctx) ==
  /\ ctx \in inbox
  /\ inbox' = inbox \ {ctx}
  /\ replies' = replies \cup
       {Reply(ctx, IF callbacks[ctx] = "getTables" THEN status ELSE <<>>)}
  /\ inHall' = (inHall \/ callbacks[ctx] = "getTables")
  /\ UNCHANGED <<clientVars, status, wire, called, swallowed, pushLost, cut>>

\* bsocket_flush: consumers send in any order.
Flush(m) ==
  /\ m \in replies
  /\ replies' = replies \ {m}
  /\ wire' = Append(wire, m)
  /\ UNCHANGED <<clientVars, inbox, inHall, status, called, swallowed, pushLost, cut>>

\* Somebody's sitdown: the status changes, and is broadcast, under the lock.
\* (A sitdown that changes nothing repeats a status, and is left out.)
Sitdown(t, s) ==
  /\ s \notin status[t]
  /\ status' = [status EXCEPT ![t] = @ \cup {s}]
  /\ wire' = IF inHall THEN Append(wire, Push(t, status'[t])) ELSE wire
  /\ UNCHANGED <<clientVars, inbox, replies, inHall, called, swallowed, pushLost, cut>>

Serving  == UNCHANGED loaderVars /\ \E ctx \in inbox : Serve(ctx)
Flushing == UNCHANGED loaderVars /\ \E m \in replies : Flush(m)
Reading  ==
  /\ UNCHANGED loaderVars
  /\ \E part \in 0..1 : \E n \in 1..(Len(wire) - part) : SocketData(n, part)

Next ==
  \/ Loading
  \/ Serving \/ Flushing \/ Reading
  \/ /\ \/ LoginClick \/ SeatClick
        \/ \E t \in Table, s \in Seat : Sitdown(t, s)
        \/ SocketDataCut
     /\ UNCHANGED loaderVars

Spec == Init /\ [][Next]_vars

\* Requests are served, replies sent, and what arrives raises events.  A file
\* may never come: the loader listens to no error.
FairSpec == Spec /\ WF_vars(Serving) /\ WF_vars(Flushing) /\ WF_vars(Reading)

-----------------------------------------------------------------------------
\* The view manager never removes a view that is not on the stage, whatever
\* order replies come in and whatever tails look like, and the loading view and
\* the login window are gone once there is another one.
StageSound ==
  /\ view \in stage /\ stage \subseteq created
  /\ "loading" \in stage => created = {"loading"}
  /\ "login" \in stage => created = {"loading", "login"}

\* A view takes its assets when it is initialised, and has no way to wait: when
\* any view but the first exists, all assets are there, each under its own id.
AssetsBeforeViews == created # {"loading"} => AssetsInPlace

\* However often the user clicks, the tables are built once.
TablesBuiltOnce == ~cut => built <= 1

\* When nothing is on its way, the tables on the screen are the server's,
\* unless a push was swallowed or overtook the reply that builds the tables:
\* then an old status stays on the screen.
TablesCurrent ==
  wire = <<>> /\ shown # <<>> /\ ~pushLost /\ ~cut => shown = status

\* Every request gets its callback called, unless its reply was swallowed or
\* the stream lost its boundaries: again and again none is left waiting.
RequestsComplete == []<>(DOMAIN callbacks \subseteq called \cup swallowed \/ cut)
=============================================================================
