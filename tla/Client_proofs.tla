--------------------------- MODULE Client_proofs ---------------------------
(***************************************************************************)
(* Proofs about Client, for any manifest, any tables and any number of     *)
(* clicks: views never take the stage without their assets or leave it     *)
(* twice, the tables are built once, and are those of the server, unless a *)
(* message was not read or the stream lost its boundaries.                 *)
(***************************************************************************)
EXTENDS Client, SequenceTheorems, TLAPS

-----------------------------------------------------------------------------
(* The inductive invariant.                                                *)

Ids      == {Manifest[i] : i \in DOMAIN Manifest}
Replies  == [type : {"reply"}, ctx : Nat, tables : Statuses \cup {<<>>}]
Pushes   == [type : {"push"}, table : Table, status : SUBSET Seat]
Message  == Replies \cup Pushes \cup {Rest}

\* The loader has fetched the files before its index, in order.
LoaderInv ==
  /\ queue \in {<<>>, Manifest}
  /\ index \in 1..(Len(Manifest) + 1)
  /\ queue = <<>> => index = 1
  /\ file = IF queue = Manifest /\ index <= Len(Manifest) THEN Manifest[index] ELSE NoAsset
  /\ assets \in [Ids -> Ids \cup {NoAsset}]
  /\ \A i \in DOMAIN Manifest : i < index => assets[Manifest[i]] = Manifest[i]

Types ==
  /\ view \in View /\ stage \subseteq View /\ created \subseteq View
  /\ callbacks \in Seq(Api)
  /\ shown \in Statuses \cup {<<>>} /\ status \in Statuses
  /\ built \in Nat
  /\ inbox \subseteq DOMAIN callbacks
  /\ replies \subseteq Replies /\ \A m \in replies : m.ctx \in DOMAIN callbacks
  /\ wire \in Seq(Message)
  /\ \A i \in DOMAIN wire : wire[i].type = "reply" => wire[i].ctx \in DOMAIN callbacks
  /\ inHall \in BOOLEAN /\ pushLost \in BOOLEAN /\ cut \in BOOLEAN

\* While the files are loaded there is the loading view and nothing else.
Phases ==
  IF created = {"loading"}
  THEN /\ callbacks = <<>> /\ inbox = {} /\ replies = {} /\ wire = <<>> /\ ~inHall
       /\ shown = <<>>
  ELSE {"loading", "login"} \subseteq created /\ index = Len(Manifest) + 1

\* A request is at one place: the server has it, or one reply to it is kept or
\* on its way.
OnePlace ==
  /\ \A m \in replies : m.ctx \notin inbox
  /\ \A m1, m2 \in replies : m1.ctx = m2.ctx => m1 = m2
  /\ \A i \in DOMAIN wire : wire[i].type = "reply" =>
       /\ wire[i].ctx \notin inbox
       /\ \A m \in replies : m.ctx # wire[i].ctx
       /\ \A j \in DOMAIN wire : wire[j].type = "reply" /\ wire[j].ctx = wire[i].ctx => i = j

AsksTables(ctx) == ctx \in DOMAIN callbacks /\ callbacks[ctx] = "getTables"

\* The request for the tables is made once.
AskedOnce ==
  /\ \A i, j \in DOMAIN callbacks : AsksTables(i) /\ AsksTables(j) => i = j
  /\ \A i \in DOMAIN callbacks : AsksTables(i) => "hall" \in created

\* As long as the stream keeps its boundaries the tables are built by the reply
\* to that request, after which the request is nowhere.
BuiltByReply ==
  ~cut =>
    /\ \A i \in DOMAIN wire : wire[i].type # "tail"
    /\ built \in {0, 1}
    /\ built = 0 => shown = <<>>
    /\ built = 1 =>
         /\ "hall" \in created
         /\ \A i \in inbox : ~AsksTables(i)
         /\ \A m \in replies : ~AsksTables(m.ctx)
         /\ \A i \in DOMAIN wire : wire[i].type = "reply" => ~AsksTables(wire[i].ctx)

IsPush(w, i)    == w[i].type = "push"
NoPush(w, k)    == \A i \in DOMAIN w : i < k => ~IsPush(w, i)
PushOf(w, i, t) == IsPush(w, i) /\ w[i].table = t

\* What is shown, once the messages behind the k-th of w have been read, is
\* what the server has.
Follows(w, server, tables, k) ==
  \A t \in Table :
    \/ \E i \in DOMAIN w :
         /\ i > k /\ PushOf(w, i, t) /\ w[i].status = server[t]
         /\ \A j \in DOMAIN w : j > i => ~PushOf(w, j, t)
    \/ (\A i \in DOMAIN w : i > k => ~PushOf(w, i, t)) /\ tables[t] = server[t]

\* The tables on the screen, in the reply on its way, in the reply not yet
\* sent, and before the request for them was served.
Following ==
  ~cut /\ ~pushLost =>
    /\ shown # <<>> => inHall /\ Follows(wire, status, shown, 0)
    /\ \A k \in DOMAIN wire : wire[k].type = "reply" /\ AsksTables(wire[k].ctx) =>
         /\ inHall /\ wire[k].tables \in Statuses
         /\ NoPush(wire, k) => Follows(wire, status, wire[k].tables, k)
    /\ \A m \in replies : AsksTables(m.ctx) =>
         /\ inHall /\ m.tables \in Statuses
         /\ (\A i \in DOMAIN wire : ~IsPush(wire, i)) => m.tables = status

ClientInv ==
  /\ LoaderInv /\ Types /\ Phases /\ StageSound /\ OnePlace /\ AskedOnce /\ BuiltByReply
  /\ Following

-----------------------------------------------------------------------------
(* Facts about the manifest and the messages.                              *)

LEMMA ManifestFacts ==
  /\ Len(Manifest) \in Nat /\ Len(Manifest) >= 1
  /\ DOMAIN Manifest = 1..Len(Manifest)
  /\ \A i \in DOMAIN Manifest : Manifest[i] \in Ids /\ Manifest[i] # NoAsset
  /\ \A i, j \in DOMAIN Manifest : Manifest[i] = Manifest[j] => i = j
<1>1. Manifest \in Seq(Ids) /\ Manifest # <<>>
  BY AssetsAssumption DEF Ids
<1>2. Len(Manifest) \in Nat /\ DOMAIN Manifest = 1..Len(Manifest) /\ Len(Manifest) # 0
  BY <1>1, EmptySeq, LenProperties
<1>3. QED
  BY <1>2, AssetsAssumption DEF Ids

LEMMA MessageKinds ==
  ASSUME NEW m \in Message
  PROVE  /\ m.type \in {"reply", "push", "tail"}
         /\ m = Rest <=> m.type = "tail"
         /\ m.type = "reply" => m.ctx \in Nat /\ m.tables \in Statuses \cup {<<>>}
         /\ m.type = "push" => m.table \in Table /\ m.status \in SUBSET Seat
<1>1. CASE m \in Replies
  BY <1>1 DEF Replies, Rest
<1>2. CASE m \in Pushes
  BY <1>2 DEF Pushes, Rest
<1>3. CASE m = Rest
  BY <1>3 DEF Rest
<1>4. QED
  BY <1>1, <1>2, <1>3 DEF Message

LEMMA MessagesMade ==
  /\ Rest \in Message /\ Rest.type = "tail"
  /\ \A c \in Nat : \A s \in Statuses \cup {<<>>} :
       /\ Reply(c, s) \in Replies /\ Reply(c, s) \in Message
       /\ Reply(c, s).type = "reply" /\ Reply(c, s).ctx = c /\ Reply(c, s).tables = s
  /\ \A t \in Table : \A s \in SUBSET Seat :
       /\ Push(t, s) \in Message
       /\ Push(t, s).type = "push" /\ Push(t, s).table = t /\ Push(t, s).status = s
BY DEF Message, Replies, Pushes, Rest, Reply, Push

\* Statuses are not the empty tuple that stands for no tables.
LEMMA TablesShown == \A s \in Statuses : s # <<>>
BY ClientAssumption DEF Statuses

-----------------------------------------------------------------------------
(* Requests.                                                               *)

\* Context ids are added, never changed; the tables are asked for when the hall
\* is created.
Grow ==
  /\ created \subseteq created'
  /\ callbacks' \in Seq(Api)
  /\ DOMAIN callbacks \subseteq DOMAIN callbacks'
  /\ \A i \in DOMAIN callbacks : callbacks'[i] = callbacks[i]
  /\ \/ callbacks' = callbacks /\ inbox' = inbox
     \/ \E new \in Nat :
          /\ new \notin DOMAIN callbacks
          /\ DOMAIN callbacks' = DOMAIN callbacks \cup {new}
          /\ inbox' = inbox \cup {new}
          /\ callbacks'[new] = "getTables" => "hall" \notin created /\ "hall" \in created'

LEMMA RequestGrows ==
  ASSUME callbacks \in Seq(Api), NEW api \in Api, Request(api), created \subseteq created',
         api = "getTables" => "hall" \notin created /\ "hall" \in created'
  PROVE  Grow
<1> DEFINE new == Len(callbacks) + 1
<1>1. /\ callbacks' \in Seq(Api) /\ new \in Nat /\ new \notin DOMAIN callbacks
      /\ DOMAIN callbacks' = DOMAIN callbacks \cup {new}
      /\ \A i \in DOMAIN callbacks : callbacks'[i] = callbacks[i]
      /\ callbacks'[new] = api
  BY AppendProperties, LenProperties DEF Request
<1>2. inbox' = inbox \cup {new}
  BY DEF Request
<1>3. QED
  BY <1>1, <1>2 DEF Grow

\* What growth means for the places of requests.
LEMMA GrowKeeps ==
  ASSUME Types, AskedOnce, Grow
  PROVE  /\ inbox' \subseteq DOMAIN callbacks'
         /\ \A c \in DOMAIN callbacks : AsksTables(c)' <=> AsksTables(c)
         /\ \A c \in DOMAIN callbacks : c \in inbox' <=> c \in inbox
         /\ AskedOnce'
         /\ "hall" \in created => \A c \in inbox' : AsksTables(c)' => c \in inbox /\ AsksTables(c)
<1>1. \A c \in DOMAIN callbacks : AsksTables(c)' <=> AsksTables(c)
  BY DEF Grow, AsksTables
<1>2. CASE callbacks' = callbacks /\ inbox' = inbox
  BY <1>1, <1>2 DEF Types, AskedOnce, Grow, AsksTables
<1>3. ASSUME NEW new \in Nat,
             new \notin DOMAIN callbacks,
             DOMAIN callbacks' = DOMAIN callbacks \cup {new},
             inbox' = inbox \cup {new},
             callbacks'[new] = "getTables" => "hall" \notin created /\ "hall" \in created'
      PROVE  /\ inbox' \subseteq DOMAIN callbacks'
             /\ \A c \in DOMAIN callbacks : c \in inbox' <=> c \in inbox
             /\ AskedOnce'
             /\ "hall" \in created => \A c \in inbox' : AsksTables(c)' => c \in inbox /\ AsksTables(c)
  <2>1. AsksTables(new)' => "hall" \notin created /\ "hall" \in created'
    BY <1>3 DEF AsksTables
  <2>2. \A i \in DOMAIN callbacks : AsksTables(i)' => AsksTables(i) /\ "hall" \in created
    BY <1>1 DEF AskedOnce
  <2>3. AskedOnce'
    BY <1>3, <2>1, <2>2 DEF AskedOnce, Grow
  <2>4. QED
    BY <1>3, <2>1, <2>2, <2>3 DEF Types
<1>4. QED
  BY <1>1, <1>2, <1>3 DEF Grow

-----------------------------------------------------------------------------
(* What the client does with a message.                                    *)

ViewTypes == view \in View /\ stage \subseteq View /\ created \subseteq View

LEMMA JumpKeeps ==
  ASSUME Types, StageSound, {"loading", "login"} \subseteq created,
         NEW id \in {"hall", "room"}, Jump(id)
  PROVE  Grow /\ StageSound' /\ ViewTypes'
<1>1. CASE id \in created
  <2>1. stage' = stage \cup {id} /\ view' = id /\ UNCHANGED <<created, callbacks, inbox>>
    BY <1>1 DEF Jump
  <2>2. "loading" \notin stage /\ "login" \notin stage
    BY <1>1 DEF StageSound
  <2>3. StageSound' /\ ViewTypes'
    BY <1>1, <2>1, <2>2 DEF StageSound, ViewTypes, Types, View
  <2>4. Grow
    BY <2>1 DEF Grow, Types
  <2>5. QED
    BY <2>3, <2>4
<1>2. CASE id \notin created
  <2>1. /\ stage' = (stage \ {view}) \cup {id} /\ view' = id
        /\ created' = created \cup {id} /\ InitProxy(id)
    BY <1>2 DEF Jump
  <2>2. "loading" \notin stage' /\ "login" \notin stage'
    <3>1. "loading" \notin stage
      BY DEF StageSound
    <3>2. "login" \in stage => view = "login"
      BY <3>1 DEF StageSound
    <3>3. QED
      BY <2>1, <3>1, <3>2
  <2>3. StageSound' /\ ViewTypes'
    BY <2>1, <2>2 DEF StageSound, ViewTypes, Types, View
  <2>4. Grow
    <3>1. CASE id = "hall"
      <4>1. Request("getTables") /\ "getTables" \in Api
        BY <2>1, <3>1 DEF InitProxy, Api
      <4>2. QED
        BY <1>2, <2>1, <3>1, <4>1, RequestGrows DEF Types
    <3>2. CASE id # "hall"
      BY <2>1, <3>2 DEF InitProxy, Grow, Types
    <3>3. QED
      BY <3>1, <3>2
  <2>5. QED
    BY <2>3, <2>4
<1>3. QED
  BY <1>1, <1>2

\* The effect of a callback, for a reply read properly or from a tail.
LEMMA CallbackKeeps ==
  ASSUME Types, StageSound, {"loading", "login"} \subseteq created,
         NEW m, m.tables \in Statuses \cup {<<>>}, Callback(m)
  PROVE  /\ Grow /\ StageSound' /\ ViewTypes'
         /\ shown' \in Statuses \cup {<<>>} /\ built' \in Nat
         /\ IF callbacks[m.ctx] = "getTables" THEN Build(m) ELSE UNCHANGED <<shown, built>>
<1>1. CASE callbacks[m.ctx] = "userLogin" /\ Jump("hall") /\ UNCHANGED <<shown, built>>
  BY <1>1, JumpKeeps DEF Types
<1>2. CASE callbacks[m.ctx] = "sitdown" /\ Jump("room") /\ UNCHANGED <<shown, built>>
  BY <1>2, JumpKeeps DEF Types
<1>3. CASE callbacks[m.ctx] = "getTables" /\ Build(m)
           /\ UNCHANGED <<view, stage, created, callbacks, inbox>>
  <2>1. StageSound' /\ ViewTypes' /\ Grow
    BY <1>3 DEF StageSound, ViewTypes, Types, Grow
  <2>2. shown' \in Statuses \cup {<<>>} /\ built' \in Nat
    BY <1>3 DEF Build, Types
  <2>3. QED
    BY <1>3, <2>1, <2>2
<1>4. QED
  BY <1>1, <1>2, <1>3 DEF Callback

LEMMA UpdateKeeps ==
  ASSUME Types, StageSound, NEW m, m.table \in Table, m.status \in SUBSET Seat, UpdateTables(m)
  PROVE  /\ Grow /\ StageSound' /\ ViewTypes'
         /\ shown' \in Statuses \cup {<<>>} /\ built' = built
         /\ shown' = IF shown = <<>> THEN shown ELSE [shown EXCEPT ![m.table] = m.status]
<1>1. Grow /\ StageSound' /\ ViewTypes'
  BY DEF UpdateTables, StageSound, ViewTypes, Types, Grow
<1>2. shown \in Statuses => [shown EXCEPT ![m.table] = m.status] \in Statuses
  BY DEF Statuses
<1>3. QED
  BY <1>1, <1>2 DEF UpdateTables, Types

\* The effect of reading a message, by its kind.
Effect(m) ==
  /\ Grow /\ StageSound' /\ ViewTypes'
  /\ shown' \in Statuses \cup {<<>>} /\ built' \in Nat
  /\ m.type = "reply" =>
       IF callbacks[m.ctx] = "getTables" THEN Build(m) ELSE UNCHANGED <<shown, built>>
  /\ m.type = "push" =>
       /\ built' = built
       /\ shown' = IF shown = <<>> THEN shown ELSE [shown EXCEPT ![m.table] = m.status]

LEMMA ReadingHasEffect ==
  ASSUME Types, StageSound, {"loading", "login"} \subseteq created, NEW m \in Message,
         IF m = Rest THEN HandleRest ELSE Handle(m)
  PROVE  Effect(m)
<1>1. CASE m = Rest
  <2>1. m.type = "tail" /\ HandleRest
    BY <1>1, MessageKinds
  <2>2. CASE \E ctx \in DOMAIN callbacks : \E s \in Statuses : Callback(Reply(ctx, s))
    <3>1. PICK ctx \in DOMAIN callbacks, s \in Statuses : Callback(Reply(ctx, s))
      BY <2>2
    <3>2. Reply(ctx, s).tables \in Statuses \cup {<<>>}
      BY DEF Reply
    <3>3. QED
      BY <2>1, <3>1, <3>2, CallbackKeeps DEF Effect
  <2>3. CASE \E t \in Table : \E s \in SUBSET Seat : UpdateTables(Push(t, s))
    <3>1. PICK t \in Table, s \in SUBSET Seat : UpdateTables(Push(t, s))
      BY <2>3
    <3>2. Push(t, s).table \in Table /\ Push(t, s).status \in SUBSET Seat
      BY DEF Push
    <3>3. built' \in Nat
      BY <3>1 DEF UpdateTables, Types
    <3>4. QED
      BY <2>1, <3>1, <3>2, <3>3, UpdateKeeps DEF Effect
  <2>4. CASE UNCHANGED <<clientVars, inbox>>
    BY <2>1, <2>4 DEF Effect, clientVars, Grow, StageSound, ViewTypes, Types
  <2>5. QED
    BY <2>1, <2>2, <2>3, <2>4 DEF HandleRest
<1>2. CASE m # Rest /\ m.type = "reply"
  <2>1. Callback(m) /\ m.tables \in Statuses \cup {<<>>}
    BY <1>2, MessageKinds DEF Handle
  <2>2. QED
    BY <1>2, <2>1, CallbackKeeps DEF Effect
<1>3. CASE m # Rest /\ m.type = "push"
  <2>1. UpdateTables(m) /\ m.table \in Table /\ m.status \in SUBSET Seat
    BY <1>3, MessageKinds DEF Handle
  <2>2. built' \in Nat
    BY <2>1 DEF UpdateTables, Types
  <2>3. QED
    BY <1>3, <2>1, <2>2, UpdateKeeps DEF Effect
<1>4. QED
  BY <1>1, <1>2, <1>3, MessageKinds

LEMMA Repeated ==
  ASSUME NEW S, NEW e \in S, NEW n \in Nat
  PROVE  /\ [i \in 1..n |-> e] \in Seq(S) /\ Len([i \in 1..n |-> e]) = n
         /\ \A i \in 1..n : [j \in 1..n |-> e][i] = e
<1> DEFINE p == [i \in 1..n |-> e]
<1>1. p \in [1..n -> S] /\ DOMAIN p = 1..n /\ \A i \in 1..n : p[i] = e
  OBVIOUS
<1> HIDE DEF p
<1>2. p \in Seq(S)
  BY <1>1
<1>3. Len(p) = n
  BY <1>1, <1>2, LenProperties
<1>4. QED
  BY <1>1, <1>2, <1>3 DEF p

\* A sequence whose first n elements are dropped, and the first c of the others
\* replaced.
Cut(w, e, c, n) == [i \in 1..c |-> e] \o SubSeq(w, n + c + 1, Len(w))

\* Where the entries of such a sequence v come from, and where those of w go.
Entries(v, S, w, e, c, n) ==
  /\ v \in Seq(S)
  /\ \A i \in DOMAIN v :
       /\ i \in Nat
       /\ \/ i <= c /\ v[i] = e
          \/ i > c /\ i + n \in DOMAIN w /\ v[i] = w[i + n]
  /\ \A k \in DOMAIN w : k > n + c => k - n \in DOMAIN v /\ v[k - n] = w[k]

LEMMA CutEntries ==
  ASSUME NEW S, NEW w \in Seq(S), NEW e \in S, NEW c \in Nat, NEW n \in Nat, n + c <= Len(w)
  PROVE  Entries(Cut(w, e, c, n), S, w, e, c, n)
<1> DEFINE p == [i \in 1..c |-> e]
           q == SubSeq(w, n + c + 1, Len(w))
           d == Len(w) - n - c
           v == Cut(w, e, c, n)
<1> HIDE DEF p, q, d, v
<1>1. Len(w) \in Nat /\ DOMAIN w = 1..Len(w) /\ \A i \in 1..Len(w) : w[i] \in S
  BY LenProperties
<1>2. d \in Nat /\ Len(w) = n + c + d
  BY <1>1 DEF d
<1>3. p \in Seq(S) /\ Len(p) = c /\ \A i \in 1..c : p[i] = e
  BY Repeated DEF p
<1>4. q \in Seq(S) /\ Len(q) = d /\ \A i \in 1..d : q[i] = w[n + c + i]
  <2>1. /\ n + c + 1 \in Int /\ Len(w) \in Int
        /\ \A i \in (n + c + 1)..Len(w) : w[i] \in S
    BY <1>1
  <2>2. /\ q \in Seq(S)
        /\ Len(q) = IF n + c + 1 <= Len(w) THEN Len(w) - (n + c + 1) + 1 ELSE 0
        /\ \A i \in 1..(Len(w) - (n + c + 1) + 1) : q[i] = w[(n + c + 1) + i - 1]
    BY <2>1, SubSeqProperties DEF q
  <2>3. Len(w) - (n + c + 1) + 1 = d
    BY <1>2
  <2>4. Len(q) = d
    BY <1>1, <1>2, <2>2
  <2>5. \A i \in 1..d : (n + c + 1) + i - 1 = n + c + i
    BY <1>2
  <2>6. QED
    BY <2>2, <2>3, <2>4, <2>5
<1>5. /\ v \in Seq(S) /\ Len(v) = c + d
      /\ \A i \in 1..(c + d) : v[i] = IF i <= c THEN p[i] ELSE q[i - c]
  <2>1. v = p \o q
    BY DEF p, q, v, Cut
  <2>2. p \in Seq(S) /\ q \in Seq(S)
    BY <1>3, <1>4
  <2>3. /\ p \o q \in Seq(S) /\ Len(p \o q) = Len(p) + Len(q)
        /\ \A i \in 1..(Len(p) + Len(q)) : (p \o q)[i] = IF i <= Len(p) THEN p[i] ELSE q[i - Len(p)]
    BY <2>2, ConcatProperties
  <2>4. QED
    BY <1>3, <1>4, <2>1, <2>3
<1>6. DOMAIN v = 1..(c + d)
  BY <1>5, LenProperties
<1>7. ASSUME NEW i \in 1..(c + d), i > c
      PROVE  i + n \in DOMAIN w /\ v[i] = w[i + n]
  <2>1. i - c \in 1..d /\ n + c + (i - c) = i + n /\ i + n \in 1..Len(w)
    BY <1>2, <1>7
  <2>2. v[i] = q[i - c]
    BY <1>2, <1>5, <1>7
  <2>3. QED
    BY <1>1, <1>4, <2>1, <2>2
<1>8. ASSUME NEW i \in DOMAIN v
      PROVE  /\ i \in Nat
             /\ \/ i <= c /\ v[i] = e
                \/ i > c /\ i + n \in DOMAIN w /\ v[i] = w[i + n]
  <2>1. i \in Nat /\ i \in 1..(c + d)
    BY <1>2, <1>6
  <2>2. CASE i <= c
    BY <1>2, <1>3, <1>5, <2>1, <2>2
  <2>3. CASE i > c
    BY <1>7, <2>1, <2>3
  <2>4. QED
    BY <2>1, <2>2, <2>3
<1>9. ASSUME NEW k \in DOMAIN w, k > n + c
      PROVE  k - n \in DOMAIN v /\ v[k - n] = w[k]
  <2>1. k - n \in 1..(c + d) /\ k - n > c /\ (k - n) + n = k
    BY <1>1, <1>2, <1>9
  <2>2. v[k - n] = w[(k - n) + n]
    BY <1>7, <2>1
  <2>3. QED
    BY <1>6, <2>1, <2>2
<1>10. Entries(v, S, w, e, c, n)
  BY <1>5, <1>8, <1>9 DEF Entries
<1>11. QED
  BY <1>10 DEF v

\* The messages between two places of a sequence.
LEMMA SegmentEntries ==
  ASSUME NEW S, NEW w \in Seq(S), NEW n \in Nat, n <= Len(w),
         NEW k \in Nat, k >= 2, k <= n
  PROVE  k - 1 \in DOMAIN SubSeq(w, 2, n) /\ SubSeq(w, 2, n)[k - 1] = w[k]
<1> DEFINE q == SubSeq(w, 2, n)
<1> HIDE DEF q
<1>1. Len(w) \in Nat /\ \A i \in 1..Len(w) : w[i] \in S
  BY LenProperties
<1>2. 2 \in Int /\ n \in Int /\ \A i \in 2..n : w[i] \in S
  BY <1>1
<1>3. /\ q \in Seq(S)
      /\ Len(q) = IF 2 <= n THEN n - 2 + 1 ELSE 0
      /\ \A i \in 1..(n - 2 + 1) : q[i] = w[2 + i - 1]
  BY <1>2, SubSeqProperties DEF q
<1>4. Len(q) = n - 1 /\ k - 1 \in 1..(n - 1) /\ 2 + (k - 1) - 1 = k /\ n - 2 + 1 = n - 1
  BY <1>3
<1>5. DOMAIN q = 1..(n - 1)
  BY <1>3, <1>4, LenProperties
<1>6. q[k - 1] = w[2 + (k - 1) - 1]
  BY <1>3, <1>4
<1>7. QED
  BY <1>4, <1>5, <1>6 DEF q

LEMMA FirstEntry ==
  ASSUME NEW S, NEW w \in Seq(S), w # <<>>
  PROVE  /\ 1 \in DOMAIN w /\ Head(w) = w[1] /\ w[1] \in S
         /\ Tail(w) \in Seq(S) /\ Len(Tail(w)) = Len(w) - 1
         /\ \A i \in 1..(Len(w) - 1) : Tail(w)[i] = w[i + 1]
BY HeadTailProperties, EmptySeq, LenProperties

\* One event of the socket.
LEMMA ReadFacts ==
  ASSUME ClientInv, NEW part \in 0..1, NEW n \in 1..(Len(wire) - part), SocketData(n, part)
  PROVE  /\ {"loading", "login"} \subseteq created
         /\ 1 \in DOMAIN wire /\ wire[1] \in Message /\ Effect(wire[1])
         /\ wire' \in Seq(Message)
         /\ \A i \in DOMAIN wire' :
              /\ i \in Nat
              /\ \/ part = 1 /\ wire'[i] = Rest
                 \/ i + n \in DOMAIN wire /\ i + n > 1 /\ wire'[i] = wire[i + n]
         /\ \A k \in DOMAIN wire :
              part = 0 /\ k > n => k - n \in DOMAIN wire' /\ wire'[k - n] = wire[k]
         /\ cut' = (cut \/ part = 1)
         /\ ~pushLost' =>
              /\ ~pushLost
              /\ \A k \in DOMAIN wire : k > 1 /\ k <= n => ~IsPush(wire, k)
              /\ IsPush(wire, 1) => shown # <<>>
         /\ UNCHANGED <<replies, inHall, status>>
<1>1. Types /\ StageSound
  BY DEF ClientInv
<1>2. wire \in Seq(Message) /\ Len(wire) \in Nat /\ DOMAIN wire = 1..Len(wire)
  BY <1>1, LenProperties DEF Types
<1>3. n \in Nat /\ part \in Nat /\ n >= 1 /\ n + part <= Len(wire) /\ Len(wire) >= 1
  BY <1>2
<1>4. 1 \in DOMAIN wire /\ Head(wire) = wire[1] /\ wire[1] \in Message
  <2>1. wire # <<>>
    BY <1>2, <1>3, EmptySeq
  <2>2. QED
    BY <1>2, <1>3, <2>1, FirstEntry
<1>5. {"loading", "login"} \subseteq created
  BY <1>2, <1>4 DEF ClientInv, Phases
<1>6. Effect(wire[1])
  <2>1. IF wire[1] = Rest THEN HandleRest ELSE Handle(wire[1])
    BY <1>4 DEF SocketData
  <2>2. QED
    BY <1>1, <1>4, <1>5, <2>1, ReadingHasEffect
<1>7. /\ wire' \in Seq(Message)
      /\ \A i \in DOMAIN wire' :
           /\ i \in Nat
           /\ \/ i <= part /\ wire'[i] = Rest
              \/ i > part /\ i + n \in DOMAIN wire /\ wire'[i] = wire[i + n]
      /\ \A k \in DOMAIN wire :
           k > n + part => k - n \in DOMAIN wire' /\ wire'[k - n] = wire[k]
  <2> DEFINE v == Cut(wire, Rest, part, n)
  <2> HIDE DEF v
  <2>1. Rest \in Message
    BY MessagesMade
  <2>2. /\ v \in Seq(Message)
        /\ \A i \in DOMAIN v :
             /\ i \in Nat
             /\ \/ i <= part /\ v[i] = Rest
                \/ i > part /\ i + n \in DOMAIN wire /\ v[i] = wire[i + n]
        /\ \A k \in DOMAIN wire : k > n + part => k - n \in DOMAIN v /\ v[k - n] = wire[k]
    <3>1. /\ wire \in Seq(Message) /\ Rest \in Message /\ part \in Nat /\ n \in Nat
          /\ n + part <= Len(wire)
      BY <1>2, <1>3, <2>1
    <3>2. Entries(Cut(wire, Rest, part, n), Message, wire, Rest, part, n)
      BY <3>1, CutEntries
    <3>3. Entries(v, Message, wire, Rest, part, n)
      BY <3>2 DEF v
    <3>4. QED
      BY <3>3 DEF Entries
  <2>3. wire' = v
    BY DEF SocketData, Cut, v
  <2>4. QED
    BY <2>2, <2>3
<1>8. ASSUME NEW i \in DOMAIN wire'
      PROVE  /\ i \in Nat
             /\ \/ part = 1 /\ wire'[i] = Rest
                \/ i + n \in DOMAIN wire /\ i + n > 1 /\ wire'[i] = wire[i + n]
  <2>1. i \in Nat /\ i >= 1
    BY <1>7, LenProperties
  <2>2. QED
    BY <1>3, <1>7, <2>1
<1>9. ASSUME NEW k \in DOMAIN wire, part = 0, k > n
      PROVE  k - n \in DOMAIN wire' /\ wire'[k - n] = wire[k]
  BY <1>2, <1>3, <1>7, <1>9
<1>10. cut' = (cut \/ part = 1) /\ UNCHANGED <<replies, inHall, status>>
  BY DEF SocketData
<1>11. ASSUME ~pushLost'
       PROVE  /\ ~pushLost
              /\ \A k \in DOMAIN wire : k > 1 /\ k <= n => ~IsPush(wire, k)
              /\ IsPush(wire, 1) => shown # <<>>
  <2>1. ~pushLost /\ ~HasPush(SubSeq(wire, 2, n + part)) /\ ~(HasPush(<<wire[1]>>) /\ shown = <<>>)
    BY <1>4, <1>11 DEF SocketData
  <2>2. IsPush(wire, 1) => HasPush(<<wire[1]>>)
    <3>1. 1 \in DOMAIN <<wire[1]>> /\ <<wire[1]>>[1] = wire[1]
      OBVIOUS
    <3>2. QED
      BY <3>1 DEF HasPush, IsPush
  <2>3. ASSUME NEW k \in DOMAIN wire, k > 1, k <= n
        PROVE  ~IsPush(wire, k)
    <3>1. /\ k - 1 \in DOMAIN SubSeq(wire, 2, n + part)
          /\ SubSeq(wire, 2, n + part)[k - 1] = wire[k]
      <4>1. n + part \in Nat /\ n + part <= Len(wire) /\ k \in Nat /\ k >= 2 /\ k <= n + part
        BY <1>2, <1>3, <2>3
      <4>2. QED
        BY <1>2, <4>1, SegmentEntries
    <3>2. QED
      BY <2>1, <3>1 DEF HasPush, IsPush
  <2>4. QED
    BY <2>1, <2>2, <2>3
<1>12. QED
  BY <1>4, <1>5, <1>6, <1>7, <1>8, <1>9, <1>10, <1>11

-----------------------------------------------------------------------------
(* The initial states, and the loader.                                     *)

LEMMA InitInv ==
  ASSUME Init
  PROVE  ClientInv
<1>1. LoaderInv
  <2>1. /\ queue = <<>> /\ index = 1 /\ file = NoAsset /\ queue # Manifest
        /\ assets = [id \in Ids |-> NoAsset]
    BY AssetsAssumption DEF Init, LoaderInit, Ids
  <2>2. assets \in [Ids -> Ids \cup {NoAsset}]
    BY <2>1
  <2>3. index \in 1..(Len(Manifest) + 1) /\ \A i \in DOMAIN Manifest : ~(i < index)
    BY <2>1, ManifestFacts
  <2>4. QED
    BY <2>1, <2>2, <2>3 DEF LoaderInv
<1>2. Types
  <2>1. <<>> \in Seq(Api) /\ <<>> \in Seq(Message) /\ DOMAIN <<>> = {}
    OBVIOUS
  <2>2. QED
    BY <2>1 DEF Init, Types, View
<1>3. DOMAIN wire = {} /\ DOMAIN callbacks = {}
  BY DEF Init
<1>4. Phases /\ StageSound
  BY DEF Init, Phases, StageSound
<1>5. OnePlace /\ AskedOnce /\ BuiltByReply
  BY <1>3 DEF Init, OnePlace, AskedOnce, AsksTables, BuiltByReply
<1>6. Following
  BY <1>3 DEF Init, Following
<1>7. QED
  BY <1>1, <1>2, <1>4, <1>5, <1>6 DEF ClientInv

\* A step of the loader is taken while files are missing.
LEMMA LoaderKeeps ==
  ASSUME LoaderInv, ManifestLoaded \/ FileLoaded
  PROVE  /\ LoaderInv' /\ index <= Len(Manifest)
         /\ LoadingEnds => index' = Len(Manifest) + 1
<1>1. CASE ManifestLoaded
  <2>1. queue = <<>> /\ index = 1 /\ index' = 1 /\ queue' = Manifest /\ file' = Manifest[1]
        /\ assets' = assets
    BY <1>1 DEF LoaderInv, ManifestLoaded
  <2>2. file = NoAsset
    BY <2>1, AssetsAssumption DEF LoaderInv
  <2>3. ~LoadingEnds
    BY <2>2 DEF LoadingEnds, FileLoaded
  <2>4. LoaderInv'
    BY <2>1, ManifestFacts DEF LoaderInv
  <2>5. QED
    BY <2>1, <2>3, <2>4, ManifestFacts
<1>2. CASE FileLoaded
  <2>1. queue = Manifest /\ index \in DOMAIN Manifest /\ file = Manifest[index]
    BY <1>2, ManifestFacts DEF LoaderInv, FileLoaded
  <2>2. /\ assets' = [assets EXCEPT ![Manifest[index]] = Manifest[index]]
        /\ index' = index + 1 /\ queue' = Manifest
    BY <1>2, <2>1 DEF FileLoaded
  <2>3. file' = IF index' <= Len(Manifest) THEN Manifest[index'] ELSE NoAsset
    BY <1>2, <2>1, <2>2, ManifestFacts DEF FileLoaded, Remaining
  <2>4. assets' \in [Ids -> Ids \cup {NoAsset}]
    BY <2>1, <2>2, ManifestFacts DEF LoaderInv
  <2>5. \A i \in DOMAIN Manifest : i < index' => assets'[Manifest[i]] = Manifest[i]
    BY <2>1, <2>2, ManifestFacts DEF LoaderInv
  <2>6. LoaderInv'
    BY <2>1, <2>2, <2>3, <2>4, <2>5, ManifestFacts DEF LoaderInv
  <2>7. LoadingEnds => index' = Len(Manifest) + 1
    BY <2>1, <2>2, ManifestFacts DEF LoadingEnds, Remaining
  <2>8. QED
    BY <2>1, <2>6, <2>7, ManifestFacts
<1>3. QED
  BY <1>1, <1>2

LEMMA LoadingKeeps ==
  ASSUME ClientInv, Loading
  PROVE  ClientInv'
<1>1. /\ UNCHANGED <<replies, inHall, status, wire, called, swallowed, pushLost, cut>>
      /\ UNCHANGED <<callbacks, inbox, shown, built>>
      /\ LoaderInv' /\ index <= Len(Manifest)
  <2>1. ManifestLoaded \/ FileLoaded
    BY DEF Loading, LoadingEnds
  <2>2. LoaderInv' /\ index <= Len(Manifest)
    BY <2>1, LoaderKeeps DEF ClientInv
  <2>3. UNCHANGED <<callbacks, inbox>>
    BY DEF Loading, clientVars, Jump, InitProxy
  <2>4. QED
    BY <2>2, <2>3 DEF Loading, clientVars
<1>2. created = {"loading"} /\ index \in Nat
  BY <1>1, ManifestFacts DEF ClientInv, Phases, LoaderInv
<1>3. view = "loading" /\ stage = {"loading"}
  BY <1>2 DEF ClientInv, StageSound
<1>4. /\ \/ UNCHANGED <<view, stage, created>>
         \/ created' = {"loading", "login"} /\ stage' = {"login"} /\ view' = "login"
            /\ index' = Len(Manifest) + 1
      /\ created \subseteq created'
  <2>1. CASE UNCHANGED clientVars
    BY <2>1 DEF clientVars
  <2>2. CASE LoadingEnds /\ Jump("login")
    <3>1. index' = Len(Manifest) + 1
      BY <2>2, LoaderKeeps DEF ClientInv, LoadingEnds
    <3>2. QED
      BY <1>2, <1>3, <2>2, <3>1 DEF Jump
  <2>3. QED
    BY <2>1, <2>2 DEF Loading
<1>5. Types'
  BY <1>1, <1>3, <1>4 DEF ClientInv, Types, View
<1>6. Phases' /\ StageSound'
  BY <1>1, <1>2, <1>3, <1>4 DEF ClientInv, Phases, StageSound
<1>7. OnePlace'
  BY <1>1 DEF ClientInv, OnePlace
<1>8. AskedOnce'
  BY <1>1, <1>4 DEF ClientInv, AskedOnce, AsksTables
<1>9. BuiltByReply'
  BY <1>1, <1>4 DEF ClientInv, BuiltByReply, AsksTables
<1>10. Following'
  BY <1>1 DEF ClientInv, Following, AsksTables, IsPush, NoPush, PushOf, Follows
<1>11. QED
  BY <1>1, <1>5, <1>6, <1>7, <1>8, <1>9, <1>10 DEF ClientInv

-----------------------------------------------------------------------------
(* The clicks of the user.                                                 *)

LEMMA ClickKeeps ==
  ASSUME ClientInv, LoginClick \/ SeatClick, UNCHANGED loaderVars
  PROVE  ClientInv'
<1>1. /\ UNCHANGED <<view, stage, created, shown, built, replies, inHall, status,
                     wire, called, swallowed, pushLost, cut>>
      /\ UNCHANGED <<queue, index, assets, file>>
  BY DEF LoginClick, SeatClick, loaderVars
<1>2. Types /\ AskedOnce
  BY DEF ClientInv
<1>3. Grow
  <2>1. callbacks \in Seq(Api) /\ "userLogin" \in Api /\ "sitdown" \in Api
    BY <1>2 DEF Types, Api
  <2>2. Request("userLogin") \/ Request("sitdown")
    BY DEF LoginClick, SeatClick
  <2>3. QED
    BY <1>1, <2>1, <2>2, RequestGrows
<1>4. created # {"loading"}
  BY DEF ClientInv, StageSound, LoginClick, SeatClick
<1>5. /\ callbacks' \in Seq(Api) /\ DOMAIN callbacks \subseteq DOMAIN callbacks'
      /\ inbox' \subseteq DOMAIN callbacks'
      /\ \A c \in DOMAIN callbacks : AsksTables(c)' <=> AsksTables(c)
      /\ \A c \in DOMAIN callbacks : c \in inbox' <=> c \in inbox
      /\ AskedOnce'
      /\ "hall" \in created => \A c \in inbox' : AsksTables(c)' => c \in inbox /\ AsksTables(c)
  BY <1>2, <1>3, GrowKeeps DEF Grow
<1>6. LoaderInv'
  BY <1>1 DEF ClientInv, LoaderInv
<1>7. Types'
  BY <1>1, <1>5 DEF ClientInv, Types
<1>8. Phases' /\ StageSound'
  BY <1>1, <1>4 DEF ClientInv, Phases, StageSound
<1>9. OnePlace'
  BY <1>1, <1>2, <1>5 DEF ClientInv, OnePlace, Types
<1>10. BuiltByReply'
  BY <1>1, <1>2, <1>5 DEF ClientInv, BuiltByReply, Types
<1>11. Following'
  BY <1>1, <1>2, <1>5 DEF ClientInv, Following, Types
<1>12. QED
  BY <1>5, <1>6, <1>7, <1>8, <1>9, <1>10, <1>11 DEF ClientInv

-----------------------------------------------------------------------------
(* The server.                                                             *)

LEMMA ServingKeeps ==
  ASSUME ClientInv, Serving
  PROVE  ClientInv'
<1>1. PICK ctx \in inbox : Serve(ctx)
  BY DEF Serving
<1>2. /\ UNCHANGED <<view, stage, created, callbacks, shown, built, status,
                     wire, called, swallowed, pushLost, cut>>
      /\ UNCHANGED <<queue, index, assets, file>>
  BY <1>1 DEF Serving, Serve, clientVars, loaderVars
<1> DEFINE tables == IF callbacks[ctx] = "getTables" THEN status ELSE <<>>
           new    == Reply(ctx, tables)
<1>3. Types
  BY DEF ClientInv
<1>4. ctx \in DOMAIN callbacks /\ ctx \in Nat
  BY <1>3, LenProperties DEF Types
<1>5. new \in Replies /\ new.ctx = ctx /\ new.tables = tables
  <2>1. tables \in Statuses \cup {<<>>}
    BY <1>3 DEF Types
  <2>2. QED
    BY <1>4, <2>1, MessagesMade
<1> HIDE DEF new
<1>6. /\ inbox' = inbox \ {ctx} /\ replies' = replies \cup {new}
      /\ inHall' = (inHall \/ callbacks[ctx] = "getTables")
  BY <1>1 DEF Serve, new
<1> HIDE DEF tables
<1>7. AsksTables(ctx) => tables = status
  BY DEF AsksTables, tables
<1>8. LoaderInv' /\ StageSound'
  BY <1>2 DEF ClientInv, LoaderInv, StageSound
<1>9. Types'
  BY <1>2, <1>3, <1>4, <1>5, <1>6 DEF Types
<1>10. Phases'
  BY <1>1, <1>2 DEF ClientInv, Phases
<1>11. OnePlace'
  <2>1. OnePlace
    BY DEF ClientInv
  <2>2. /\ \A m \in replies : m.ctx # ctx
        /\ \A i \in DOMAIN wire : wire[i].type = "reply" => wire[i].ctx # ctx
    BY <1>1, <2>1 DEF OnePlace
  <2>3. QED
    BY <1>2, <1>5, <1>6, <2>1, <2>2 DEF OnePlace
<1>12. \A c : AsksTables(c)' <=> AsksTables(c)
  BY <1>2 DEF AsksTables
<1>13. AskedOnce'
  BY <1>2 DEF ClientInv, AskedOnce, AsksTables
<1>14. BuiltByReply'
  BY <1>1, <1>2, <1>5, <1>6, <1>12 DEF ClientInv, BuiltByReply
<1>15. Following'
  <2>1. inHall => inHall'
    BY <1>6
  <2>2. AsksTables(ctx) => inHall' /\ new.tables = status
    BY <1>5, <1>6, <1>7 DEF AsksTables
  <2>3. status \in Statuses
    BY <1>3 DEF Types
  <2>4. QED
    BY <1>2, <1>5, <1>6, <1>12, <2>1, <2>2, <2>3 DEF ClientInv, Following
<1>16. QED
  BY <1>8, <1>9, <1>10, <1>11, <1>13, <1>14, <1>15 DEF ClientInv

LEMMA Appended ==
  ASSUME NEW S, NEW w \in Seq(S), NEW e \in S
  PROVE  /\ Append(w, e) \in Seq(S)
         /\ Len(w) + 1 \notin DOMAIN w
         /\ DOMAIN Append(w, e) = DOMAIN w \cup {Len(w) + 1}
         /\ \A i \in DOMAIN w : i \in Nat /\ i < Len(w) + 1 /\ Append(w, e)[i] = w[i]
         /\ Append(w, e)[Len(w) + 1] = e
BY AppendProperties, LenProperties

\* A reply behind the pushes changes nothing.
LEMMA FollowsReply ==
  ASSUME NEW w, NEW v, NEW last, DOMAIN v = DOMAIN w \cup {last}, last \notin DOMAIN w,
         \A i \in DOMAIN w : v[i] = w[i], v[last].type # "push",
         NEW server, NEW tables, NEW k, Follows(w, server, tables, k)
  PROVE  Follows(v, server, tables, k)
BY DEF Follows, PushOf, IsPush

LEMMA FlushingKeeps ==
  ASSUME ClientInv, Flushing
  PROVE  ClientInv'
<1>1. PICK m \in replies : Flush(m)
  BY DEF Flushing
<1>2. /\ UNCHANGED <<view, stage, created, callbacks, shown, built, inbox, inHall, status,
                     called, swallowed, pushLost, cut>>
      /\ UNCHANGED <<queue, index, assets, file>>
      /\ replies' = replies \ {m}
  BY <1>1 DEF Flushing, Flush, clientVars, loaderVars
<1> DEFINE last == Len(wire) + 1
<1>3. Types /\ OnePlace
  BY DEF ClientInv
<1>4. /\ m \in Message /\ m.type = "reply" /\ m.ctx \in DOMAIN callbacks
      /\ m.type # "push" /\ m.type # "tail"
  BY <1>3 DEF Types, Message, Replies
<1>5. /\ wire' \in Seq(Message) /\ last \notin DOMAIN wire
      /\ DOMAIN wire' = DOMAIN wire \cup {last}
      /\ \A i \in DOMAIN wire : i \in Nat /\ i < last /\ wire'[i] = wire[i]
      /\ wire'[last] = m
  BY <1>1, <1>3, <1>4, Appended DEF Flush, Types
<1> HIDE DEF last
<1>6. LoaderInv' /\ StageSound' /\ AskedOnce'
  BY <1>2 DEF ClientInv, LoaderInv, StageSound, AskedOnce, AsksTables
<1>7. Types'
  BY <1>2, <1>3, <1>4, <1>5 DEF Types
<1>8. Phases'
  BY <1>1, <1>2 DEF ClientInv, Phases
<1>9. OnePlace'
  BY <1>1, <1>2, <1>3, <1>4, <1>5 DEF OnePlace
<1>10. \A c : AsksTables(c)' <=> AsksTables(c)
  BY <1>2 DEF AsksTables
<1>11. BuiltByReply'
  BY <1>1, <1>2, <1>4, <1>5, <1>10 DEF ClientInv, BuiltByReply
<1>12. Following'
  <2>1. SUFFICES ASSUME ~cut, ~pushLost
                 PROVE  Following'
    BY <1>2 DEF Following
  <2>2. /\ shown # <<>> => inHall /\ Follows(wire, status, shown, 0)
        /\ \A k \in DOMAIN wire : wire[k].type = "reply" /\ AsksTables(wire[k].ctx) =>
             /\ inHall /\ wire[k].tables \in Statuses
             /\ NoPush(wire, k) => Follows(wire, status, wire[k].tables, k)
        /\ \A r \in replies : AsksTables(r.ctx) =>
             /\ inHall /\ r.tables \in Statuses
             /\ (\A i \in DOMAIN wire : ~IsPush(wire, i)) => r.tables = status
    BY <2>1 DEF ClientInv, Following
  <2>3. shown' # <<>> => inHall' /\ Follows(wire', status', shown', 0)
    <3>1. Follows(wire, status, shown, 0) => Follows(wire', status, shown, 0)
      BY <1>4, <1>5, FollowsReply
    <3>2. QED
      BY <1>2, <2>2, <3>1
  <2>4. ASSUME NEW k \in DOMAIN wire', wire'[k].type = "reply", AsksTables(wire[k].ctx)'
        PROVE  /\ inHall' /\ wire'[k].tables \in Statuses
               /\ NoPush(wire', k) => Follows(wire', status', wire'[k].tables, k)
    <3>1. CASE k \in DOMAIN wire
      <4>1. wire'[k] = wire[k] /\ AsksTables(wire[k].ctx)
        BY <1>2, <1>5, <2>4, <3>1 DEF AsksTables
      <4>2. NoPush(wire', k) => NoPush(wire, k)
        BY <1>5 DEF NoPush, IsPush
      <4>3. Follows(wire, status, wire[k].tables, k) => Follows(wire', status, wire[k].tables, k)
        BY <1>4, <1>5, FollowsReply
      <4>4. QED
        BY <1>2, <2>2, <2>4, <3>1, <4>1, <4>2, <4>3
    <3>2. CASE k = last
      <4>1. wire'[k] = m /\ AsksTables(m.ctx)
        BY <1>2, <1>5, <2>4, <3>2 DEF AsksTables
      <4>2. NoPush(wire', k) => \A i \in DOMAIN wire : ~IsPush(wire, i)
        BY <1>5, <3>2 DEF NoPush, IsPush
      <4>3. m.tables = status => Follows(wire', status, m.tables, k)
        <5>1. \A i \in DOMAIN wire' : ~(i > k)
          <6>1. last \in Nat
            BY <1>3, LenProperties DEF last, Types
          <6>2. QED
            BY <1>5, <3>2, <6>1
        <5>2. QED
          BY <5>1 DEF Follows
      <4>4. QED
        BY <1>1, <1>2, <2>2, <4>1, <4>2, <4>3
    <3>3. QED
      BY <1>5, <3>1, <3>2
  <2>5. ASSUME NEW r \in replies', AsksTables(r.ctx)'
        PROVE  /\ inHall' /\ r.tables \in Statuses
               /\ (\A i \in DOMAIN wire' : ~IsPush(wire', i)) => r.tables = status'
    <3>1. (\A i \in DOMAIN wire' : ~IsPush(wire', i)) => \A i \in DOMAIN wire : ~IsPush(wire, i)
      BY <1>5 DEF IsPush
    <3>2. AsksTables(r.ctx) /\ r \in replies
      BY <1>2, <2>5 DEF AsksTables
    <3>3. QED
      BY <1>2, <2>2, <3>1, <3>2
  <2>6. QED
    BY <2>3, <2>4, <2>5 DEF Following
<1>13. QED
  BY <1>6, <1>7, <1>8, <1>9, <1>11, <1>12 DEF ClientInv

\* A push behind the messages tells of the change.
LEMMA FollowsPush ==
  ASSUME NEW w, NEW v, NEW last, DOMAIN v = DOMAIN w \cup {last}, last \notin DOMAIN w,
         \A i \in DOMAIN w : i < last /\ v[i] = w[i],
         NEW server, NEW after, NEW t \in Table,
         PushOf(v, last, t), v[last].status = after[t],
         \A u \in Table : u # t => after[u] = server[u],
         \A i \in DOMAIN v : i \in Nat,
         NEW tables, NEW k \in Nat, k < last, Follows(w, server, tables, k)
  PROVE  Follows(v, after, tables, k)
<1>1. ASSUME NEW u \in Table
      PROVE  \/ \E i \in DOMAIN v :
                  /\ i > k /\ PushOf(v, i, u) /\ v[i].status = after[u]
                  /\ \A j \in DOMAIN v : j > i => ~PushOf(v, j, u)
             \/ (\A i \in DOMAIN v : i > k => ~PushOf(v, i, u)) /\ tables[u] = after[u]
  <2>1. CASE u = t
    <3>1. last \in Nat /\ last \in DOMAIN v /\ last > k /\ \A j \in DOMAIN v : ~(j > last)
      OBVIOUS
    <3>2. QED
      BY <2>1, <3>1
  <2>2. CASE u # t
    <3>1. after[u] = server[u] /\ ~PushOf(v, last, u)
      BY <2>2 DEF PushOf
    <3>2. \A i \in DOMAIN w : PushOf(v, i, u) <=> PushOf(w, i, u)
      BY DEF PushOf, IsPush
    <3>3. CASE \E i \in DOMAIN w :
                 /\ i > k /\ PushOf(w, i, u) /\ w[i].status = server[u]
                 /\ \A j \in DOMAIN w : j > i => ~PushOf(w, j, u)
      <4>1. PICK i \in DOMAIN w :
                 /\ i > k /\ PushOf(w, i, u) /\ w[i].status = server[u]
                 /\ \A j \in DOMAIN w : j > i => ~PushOf(w, j, u)
        BY <3>3
      <4>2. /\ i \in DOMAIN v /\ PushOf(v, i, u) /\ v[i].status = after[u]
            /\ \A j \in DOMAIN v : j > i => ~PushOf(v, j, u)
        BY <3>1, <3>2, <4>1
      <4>3. QED
        BY <4>1, <4>2
    <3>4. CASE (\A i \in DOMAIN w : i > k => ~PushOf(w, i, u)) /\ tables[u] = server[u]
      BY <3>1, <3>2, <3>4
    <3>5. QED
      BY <3>3, <3>4 DEF Follows
  <2>3. QED
    BY <2>1, <2>2
<1>2. QED
  BY <1>1 DEF Follows

LEMMA SitdownKeeps ==
  ASSUME ClientInv, NEW t \in Table, NEW s \in Seat, Sitdown(t, s), UNCHANGED loaderVars
  PROVE  ClientInv'
<1>1. /\ UNCHANGED <<view, stage, created, callbacks, shown, built, inbox, inHall, replies,
                     called, swallowed, pushLost, cut>>
      /\ UNCHANGED <<queue, index, assets, file>>
  BY DEF Sitdown, clientVars, loaderVars
<1>0. /\ status' = [status EXCEPT ![t] = @ \cup {s}]
      /\ wire' = IF inHall THEN Append(wire, Push(t, status'[t])) ELSE wire
  BY DEF Sitdown
<1>2. Types
  BY DEF ClientInv
<1>3. /\ status' \in Statuses /\ status'[t] \in SUBSET Seat
      /\ \A u \in Table : u # t => status'[u] = status[u]
  BY <1>0, <1>2 DEF Types, Statuses
<1>4. LoaderInv' /\ StageSound' /\ AskedOnce'
  BY <1>1 DEF ClientInv, LoaderInv, StageSound, AskedOnce, AsksTables
<1>5. \A c : AsksTables(c)' <=> AsksTables(c)
  BY <1>1 DEF AsksTables
<1>6. CASE ~inHall
  <2>1. wire' = wire
    BY <1>0, <1>6
  <2>2. Types'
    BY <1>1, <1>2, <1>3, <2>1 DEF Types
  <2>3. Phases' /\ OnePlace'
    BY <1>1, <2>1 DEF ClientInv, Phases, OnePlace
  <2>4. BuiltByReply'
    BY <1>1, <1>5, <2>1 DEF ClientInv, BuiltByReply
  <2>5. Following'
    BY <1>1, <1>5, <1>6, <2>1 DEF ClientInv, Following
  <2>6. QED
    BY <1>4, <2>2, <2>3, <2>4, <2>5 DEF ClientInv
<1>7. CASE inHall
  <2> DEFINE last == Len(wire) + 1
             push == Push(t, status'[t])
  <2>1. push \in Message /\ push.type = "push" /\ push.table = t /\ push.status = status'[t]
    BY <1>3, MessagesMade
  <2> HIDE DEF push
  <2>2. /\ wire' \in Seq(Message) /\ last \notin DOMAIN wire
        /\ DOMAIN wire' = DOMAIN wire \cup {last}
        /\ \A i \in DOMAIN wire : i \in Nat /\ i < last /\ wire'[i] = wire[i]
        /\ wire'[last] = push
    <3>1. wire \in Seq(Message) /\ wire' = Append(wire, push)
      BY <1>0, <1>2, <1>7 DEF Types, push
    <3>2. QED
      BY <2>1, <3>1, Appended
  <2>3. last \in Nat
    BY <1>2, LenProperties DEF Types
  <2> HIDE DEF last
  <2>4. Types'
    BY <1>1, <1>2, <1>3, <2>1, <2>2 DEF Types
  <2>5. Phases'
    BY <1>1, <1>7 DEF ClientInv, Phases
  <2>6. OnePlace'
    BY <1>1, <2>1, <2>2 DEF ClientInv, OnePlace
  <2>7. BuiltByReply'
    BY <1>1, <1>5, <2>1, <2>2 DEF ClientInv, BuiltByReply
  <2>8. Following'
    <3>1. SUFFICES ASSUME ~cut, ~pushLost
                   PROVE  Following'
      BY <1>1 DEF Following
    <3>2. /\ shown # <<>> => inHall /\ Follows(wire, status, shown, 0)
          /\ \A k \in DOMAIN wire : wire[k].type = "reply" /\ AsksTables(wire[k].ctx) =>
               /\ inHall /\ wire[k].tables \in Statuses
               /\ NoPush(wire, k) => Follows(wire, status, wire[k].tables, k)
          /\ \A r \in replies : AsksTables(r.ctx) => inHall /\ r.tables \in Statuses
      BY <3>1 DEF ClientInv, Following
    <3>3. IsPush(wire', last) /\ PushOf(wire', last, t) /\ wire'[last].status = status'[t]
      BY <2>1, <2>2 DEF PushOf, IsPush
    <3>4. ASSUME NEW tables, NEW k \in Nat, k < last, Follows(wire, status, tables, k)
          PROVE  Follows(wire', status', tables, k)
      BY <1>3, <2>2, <2>3, <3>3, <3>4, FollowsPush
    <3>5. shown' # <<>> => inHall' /\ Follows(wire', status', shown', 0)
      <4>1. 0 \in Nat /\ 0 < last
        BY <1>2, LenProperties DEF last, Types
      <4>2. QED
        BY <1>1, <3>2, <3>4, <4>1
    <3>6. ASSUME NEW k \in DOMAIN wire', wire'[k].type = "reply", AsksTables(wire[k].ctx)'
          PROVE  /\ inHall' /\ wire'[k].tables \in Statuses
                 /\ NoPush(wire', k) => Follows(wire', status', wire'[k].tables, k)
      <4>1. k \in DOMAIN wire /\ k \in Nat /\ k < last /\ wire'[k] = wire[k]
        BY <2>1, <2>2, <3>6
      <4>2. AsksTables(wire[k].ctx)
        BY <1>1, <3>6, <4>1 DEF AsksTables
      <4>3. NoPush(wire', k) => NoPush(wire, k)
        BY <2>2 DEF NoPush, IsPush
      <4>4. QED
        BY <1>1, <3>2, <3>4, <3>6, <4>1, <4>2, <4>3
    <3>7. ASSUME NEW r \in replies', AsksTables(r.ctx)'
          PROVE  /\ inHall' /\ r.tables \in Statuses
                 /\ (\A i \in DOMAIN wire' : ~IsPush(wire', i)) => r.tables = status'
      <4>1. last \in DOMAIN wire' /\ IsPush(wire', last)
        BY <2>2, <3>3
      <4>2. r \in replies /\ AsksTables(r.ctx)
        BY <1>1, <3>7 DEF AsksTables
      <4>3. QED
        BY <1>1, <3>2, <4>1, <4>2
    <3>8. QED
      BY <3>5, <3>6, <3>7 DEF Following
  <2>9. QED
    BY <1>4, <2>4, <2>5, <2>6, <2>7, <2>8 DEF ClientInv
<1>8. QED
  BY <1>6, <1>7

-----------------------------------------------------------------------------
(* The client reads.                                                       *)

LEMMA HeadReplaced ==
  ASSUME NEW S, NEW w \in Seq(S), w # <<>>, NEW e \in S
  PROVE  /\ <<e>> \o Tail(w) \in Seq(S)
         /\ \A i \in DOMAIN (<<e>> \o Tail(w)) :
              (<<e>> \o Tail(w))[i] = e \/ (i \in DOMAIN w /\ (<<e>> \o Tail(w))[i] = w[i])
<1> DEFINE p == <<e>>
           q == Tail(w)
           v == <<e>> \o Tail(w)
           d == Len(w) - 1
<1>1. p \in Seq(S) /\ Len(p) = 1 /\ p[1] = e
  OBVIOUS
<1>2. /\ q \in Seq(S) /\ Len(q) = d /\ \A i \in 1..d : q[i] = w[i + 1]
      /\ DOMAIN w = 1..(d + 1) /\ d \in Nat
  <2>1. Len(w) \in Nat /\ DOMAIN w = 1..Len(w) /\ Len(w) # 0
    BY LenProperties, EmptySeq
  <2>2. QED
    BY <2>1, FirstEntry
<1>3. v = p \o q
  OBVIOUS
<1> HIDE DEF p, q, v, d
<1>4. /\ v \in Seq(S) /\ Len(v) = 1 + d
      /\ \A i \in 1..(1 + d) : v[i] = IF i <= 1 THEN p[i] ELSE q[i - 1]
  <2>1. p \in Seq(S) /\ q \in Seq(S)
    BY <1>1, <1>2
  <2>2. /\ p \o q \in Seq(S) /\ Len(p \o q) = Len(p) + Len(q)
        /\ \A i \in 1..(Len(p) + Len(q)) : (p \o q)[i] = IF i <= Len(p) THEN p[i] ELSE q[i - Len(p)]
    BY <2>1, ConcatProperties
  <2>3. QED
    BY <1>1, <1>2, <1>3, <2>2
<1>5. DOMAIN v = 1..(1 + d)
  BY <1>4, LenProperties
<1>6. ASSUME NEW i \in DOMAIN v
      PROVE  v[i] = e \/ (i \in DOMAIN w /\ v[i] = w[i])
  <2>1. CASE i = 1
    BY <1>1, <1>2, <1>4, <2>1
  <2>2. CASE i # 1
    <3>1. i \in 1..(1 + d) /\ i - 1 \in 1..d /\ (i - 1) + 1 = i /\ ~(i <= 1)
      BY <1>2, <1>5, <2>2
    <3>2. v[i] = q[i - 1] /\ q[i - 1] = w[(i - 1) + 1]
      BY <1>2, <1>4, <3>1
    <3>3. QED
      BY <1>2, <3>1, <3>2
  <2>3. QED
    BY <2>1, <2>2
<1>7. QED
  BY <1>4, <1>6 DEF v

LEMMA CutKeeps ==
  ASSUME ClientInv, SocketDataCut, UNCHANGED loaderVars
  PROVE  ClientInv'
<1>1. /\ UNCHANGED <<view, stage, created, callbacks, shown, built, inbox, inHall, status,
                     replies, called, pushLost>>
      /\ UNCHANGED <<queue, index, assets, file>>
      /\ cut' = TRUE
  BY DEF SocketDataCut, clientVars, serverVars, loaderVars
<1>2. Types /\ wire # <<>>
  BY DEF ClientInv, SocketDataCut
<1>3. /\ wire' \in Seq(Message)
      /\ \A i \in DOMAIN wire' : wire'[i] = Rest \/ (i \in DOMAIN wire /\ wire'[i] = wire[i])
  <2>1. Rest \in Message /\ wire \in Seq(Message)
    BY <1>2, MessagesMade DEF Types
  <2>2. QED
    BY <1>2, <2>1, HeadReplaced DEF SocketDataCut
<1>4. \A i \in DOMAIN wire' : wire'[i].type = "reply" => i \in DOMAIN wire /\ wire'[i] = wire[i]
  BY <1>3, MessagesMade
<1>5. LoaderInv' /\ StageSound' /\ AskedOnce'
  BY <1>1 DEF ClientInv, LoaderInv, StageSound, AskedOnce, AsksTables
<1>6. Types'
  BY <1>1, <1>2, <1>3, <1>4 DEF Types
<1>7. Phases'
  BY <1>1, <1>2 DEF ClientInv, Phases
<1>8. OnePlace'
  BY <1>1, <1>4 DEF ClientInv, OnePlace
<1>9. BuiltByReply' /\ Following'
  BY <1>1 DEF BuiltByReply, Following
<1>10. QED
  BY <1>5, <1>6, <1>7, <1>8, <1>9 DEF ClientInv

\* Messages that are no pushes tell nothing of the tables.
LEMMA FollowsSkip ==
  ASSUME NEW w, DOMAIN w \subseteq Nat, NEW server, NEW tables, NEW k \in Nat, NEW n \in Nat,
         k <= n, \A i \in DOMAIN w : i > k /\ i <= n => ~IsPush(w, i),
         Follows(w, server, tables, k)
  PROVE  Follows(w, server, tables, n)
<1>1. \A i \in DOMAIN w : \A t \in Table : i > k /\ PushOf(w, i, t) => i > n
  BY DEF PushOf
<1>2. \A i \in DOMAIN w : i > n => i > k
  OBVIOUS
<1>3. QED
  BY <1>1, <1>2 DEF Follows

\* Reading a push does to the screen what it says.
LEMMA FollowsFirst ==
  ASSUME NEW w, DOMAIN w \subseteq Nat, 1 \in DOMAIN w, \A i \in DOMAIN w : i >= 1,
         IsPush(w, 1), w[1].table \in Table, NEW server, NEW tables \in Statuses,
         Follows(w, server, tables, 0)
  PROVE  Follows(w, server, [tables EXCEPT ![w[1].table] = w[1].status], 1)
<1> DEFINE after == [tables EXCEPT ![w[1].table] = w[1].status]
<1>1. after[w[1].table] = w[1].status
      /\ \A t \in Table : t # w[1].table => after[t] = tables[t]
  BY DEF Statuses
<1> HIDE DEF after
<1>2. \A i \in DOMAIN w : i > 1 => i > 0
  OBVIOUS
<1>3. ASSUME NEW t \in Table
      PROVE  \/ \E i \in DOMAIN w :
                  /\ i > 1 /\ PushOf(w, i, t) /\ w[i].status = server[t]
                  /\ \A j \in DOMAIN w : j > i => ~PushOf(w, j, t)
             \/ (\A i \in DOMAIN w : i > 1 => ~PushOf(w, i, t)) /\ after[t] = server[t]
  <2>1. CASE \E i \in DOMAIN w :
               /\ i > 0 /\ PushOf(w, i, t) /\ w[i].status = server[t]
               /\ \A j \in DOMAIN w : j > i => ~PushOf(w, j, t)
    <3>1. PICK i \in DOMAIN w :
               /\ i > 0 /\ PushOf(w, i, t) /\ w[i].status = server[t]
               /\ \A j \in DOMAIN w : j > i => ~PushOf(w, j, t)
      BY <2>1
    <3>2. CASE i = 1
      BY <1>1, <3>1, <3>2 DEF PushOf
    <3>3. CASE i # 1
      BY <3>1, <3>3
    <3>4. QED
      BY <3>2, <3>3
  <2>2. CASE (\A i \in DOMAIN w : i > 0 => ~PushOf(w, i, t)) /\ tables[t] = server[t]
    <3>1. t # w[1].table
      BY <2>2 DEF PushOf
    <3>2. QED
      BY <1>1, <1>2, <2>2, <3>1
  <2>3. QED
    BY <2>1, <2>2 DEF Follows
<1>4. QED
  BY <1>3 DEF Follows, after

\* The places move when the first n messages are gone.
LEMMA FollowsMoved ==
  ASSUME NEW w, NEW v, DOMAIN w \subseteq Nat, DOMAIN v \subseteq Nat, NEW n \in Nat,
         \A i \in DOMAIN v : i + n \in DOMAIN w /\ v[i] = w[i + n],
         \A i \in DOMAIN w : i > n => i - n \in DOMAIN v /\ v[i - n] = w[i],
         NEW server, NEW tables, NEW k \in Nat, Follows(w, server, tables, k + n)
  PROVE  Follows(v, server, tables, k)
<1>1. \A i \in DOMAIN v : \A t \in Table : PushOf(v, i, t) <=> PushOf(w, i + n, t)
  BY DEF PushOf, IsPush
<1>2. ASSUME NEW t \in Table
      PROVE  \/ \E i \in DOMAIN v :
                  /\ i > k /\ PushOf(v, i, t) /\ v[i].status = server[t]
                  /\ \A j \in DOMAIN v : j > i => ~PushOf(v, j, t)
             \/ (\A i \in DOMAIN v : i > k => ~PushOf(v, i, t)) /\ tables[t] = server[t]
  <2>1. CASE \E i \in DOMAIN w :
               /\ i > k + n /\ PushOf(w, i, t) /\ w[i].status = server[t]
               /\ \A j \in DOMAIN w : j > i => ~PushOf(w, j, t)
    <3>1. PICK i \in DOMAIN w :
               /\ i > k + n /\ PushOf(w, i, t) /\ w[i].status = server[t]
               /\ \A j \in DOMAIN w : j > i => ~PushOf(w, j, t)
      BY <2>1
    <3>2. i \in Nat /\ i > n
      BY <3>1
    <3>3. i - n \in DOMAIN v /\ v[i - n] = w[i] /\ (i - n) + n = i /\ i - n > k
      BY <3>1, <3>2
    <3>4. PushOf(v, i - n, t)
      BY <1>1, <3>1, <3>3
    <3>5. ASSUME NEW j \in DOMAIN v, j > i - n
          PROVE  ~PushOf(v, j, t)
      <4>1. j + n \in DOMAIN w /\ j + n > i
        BY <3>2, <3>5
      <4>2. QED
        BY <1>1, <3>1, <4>1
    <3>6. QED
      BY <3>1, <3>3, <3>4, <3>5
  <2>2. CASE (\A i \in DOMAIN w : i > k + n => ~PushOf(w, i, t)) /\ tables[t] = server[t]
    <3>1. ASSUME NEW i \in DOMAIN v, i > k
          PROVE  ~PushOf(v, i, t)
      <4>1. i + n \in DOMAIN w /\ i + n > k + n
        BY <3>1
      <4>2. QED
        BY <1>1, <2>2, <4>1
    <3>2. QED
      BY <2>2, <3>1
  <2>3. QED
    BY <2>1, <2>2 DEF Follows
<1>3. QED
  BY <1>2 DEF Follows

\* What reading a message with the boundaries kept does to the tables.
LEMMA ReadingKeepsTables ==
  ASSUME ClientInv, NEW part \in 0..1, NEW n \in 1..(Len(wire) - part), SocketData(n, part), ~cut'
  PROVE  BuiltByReply' /\ Following'
<1>1. Types /\ OnePlace /\ AskedOnce
  BY DEF ClientInv
<1>2. /\ 1 \in DOMAIN wire /\ wire[1] \in Message /\ Effect(wire[1])
      /\ wire' \in Seq(Message)
      /\ \A i \in DOMAIN wire' :
           i \in Nat /\ i + n \in DOMAIN wire /\ i + n > 1 /\ wire'[i] = wire[i + n]
      /\ \A k \in DOMAIN wire : k > n => k - n \in DOMAIN wire' /\ wire'[k - n] = wire[k]
      /\ ~cut
      /\ ~pushLost' =>
           /\ ~pushLost
           /\ \A k \in DOMAIN wire : k > 1 /\ k <= n => ~IsPush(wire, k)
           /\ IsPush(wire, 1) => shown # <<>>
      /\ UNCHANGED <<replies, inHall, status>>
  <2>1. part = 0 \/ part = 1
    OBVIOUS
  <2>2. part = 0 /\ ~cut
    BY <2>1, ReadFacts
  <2>3. QED
    BY <2>2, ReadFacts
<1>3. DOMAIN wire \subseteq Nat /\ DOMAIN wire' \subseteq Nat /\ \A i \in DOMAIN wire : i >= 1
  BY <1>1, <1>2, LenProperties DEF Types
<1>4. n \in Nat /\ n >= 1
  BY <1>1, LenProperties DEF Types
<1>5. /\ \A i \in DOMAIN wire : wire[i].type # "tail"
      /\ built \in {0, 1}
      /\ built = 0 => shown = <<>>
      /\ built = 1 =>
           /\ "hall" \in created
           /\ \A i \in inbox : ~AsksTables(i)
           /\ \A m \in replies : ~AsksTables(m.ctx)
           /\ \A i \in DOMAIN wire : wire[i].type = "reply" => ~AsksTables(wire[i].ctx)
  BY <1>2 DEF ClientInv, BuiltByReply
<1>6. /\ created \subseteq created' /\ shown' \in Statuses \cup {<<>>}
      /\ \A c \in DOMAIN callbacks : AsksTables(c)' <=> AsksTables(c)
      /\ \A c \in DOMAIN callbacks : c \in inbox' <=> c \in inbox
      /\ "hall" \in created => \A c \in inbox' : AsksTables(c)' => c \in inbox /\ AsksTables(c)
  BY <1>1, <1>2, GrowKeeps DEF Effect, Grow
<1>7. ASSUME NEW i \in DOMAIN wire', wire'[i].type = "reply"
      PROVE  /\ wire[i + n].type = "reply" /\ wire[i + n].ctx \in DOMAIN callbacks
             /\ AsksTables(wire[i].ctx)' <=> AsksTables(wire[i + n].ctx)
  <2>1. i + n \in DOMAIN wire /\ wire'[i] = wire[i + n]
    BY <1>2
  <2>2. wire[i + n].ctx \in DOMAIN callbacks
    BY <1>1, <1>7, <2>1 DEF Types
  <2>3. AsksTables(wire[i].ctx)' <=> AsksTables(wire[i + n].ctx)
    BY <1>6, <2>1, <2>2 DEF AsksTables
  <2>4. QED
    BY <1>7, <2>1, <2>2, <2>3
<1>8. \A m \in replies' : m \in replies /\ (AsksTables(m.ctx)' <=> AsksTables(m.ctx))
  BY <1>1, <1>2, <1>6 DEF Types
<1>9. \A i \in DOMAIN wire' : wire'[i].type # "tail"
  BY <1>2, <1>5
<1>10. CASE wire[1].type = "reply" /\ AsksTables(wire[1].ctx)
  <2>1. built = 0 /\ shown = <<>>
    BY <1>2, <1>5, <1>10
  <2>2. shown' = wire[1].tables /\ built' = 1
    BY <1>2, <1>10, <2>1 DEF Effect, AsksTables, Build
  <2>3. "hall" \in created
    BY <1>1, <1>10 DEF AskedOnce, AsksTables
  <2>4. \A c : AsksTables(c) => c = wire[1].ctx
    BY <1>1, <1>10 DEF AskedOnce, AsksTables
  <2>5. /\ wire[1].ctx \notin inbox
        /\ \A m \in replies : m.ctx # wire[1].ctx
        /\ \A j \in DOMAIN wire : wire[j].type = "reply" /\ wire[j].ctx = wire[1].ctx => 1 = j
    BY <1>1, <1>2, <1>10 DEF OnePlace
  <2>6. \A c \in inbox' : ~AsksTables(c)'
    BY <1>6, <2>3, <2>4, <2>5
  <2>7. \A m \in replies' : ~AsksTables(m.ctx)'
    BY <1>8, <2>4, <2>5
  <2>8. ASSUME NEW i \in DOMAIN wire', wire'[i].type = "reply"
        PROVE  ~AsksTables(wire[i].ctx)'
    <3>1. i + n \in DOMAIN wire /\ i + n > 1 /\ wire[i + n].type = "reply" /\ i + n \in Nat
      BY <1>2, <1>3, <1>7, <2>8
    <3>2. wire[i + n].ctx # wire[1].ctx
      BY <2>5, <3>1
    <3>3. QED
      BY <1>7, <2>4, <2>8, <3>2
  <2>9. BuiltByReply'
    BY <1>6, <1>9, <2>2, <2>3, <2>6, <2>7, <2>8 DEF BuiltByReply
  <2>10. ASSUME ~pushLost'
         PROVE  inHall' /\ Follows(wire', status', shown', 0)
    <3>1. inHall /\ (NoPush(wire, 1) => Follows(wire, status, wire[1].tables, 1))
      BY <1>2, <1>10, <2>10 DEF ClientInv, Following
    <3>2. NoPush(wire, 1)
      BY <1>3 DEF NoPush
    <3>3. Follows(wire, status, wire[1].tables, n)
      BY <1>2, <1>3, <1>4, <2>10, <3>1, <3>2, FollowsSkip
    <3>4. Follows(wire', status, wire[1].tables, 0)
      <4>1. PICK tables : tables = wire[1].tables
        OBVIOUS
      <4>2. Follows(wire, status, tables, 0 + n)
        BY <1>4, <3>3, <4>1
      <4>3. Follows(wire', status, tables, 0)
        BY <1>2, <1>3, <1>4, <4>2, FollowsMoved
      <4>4. QED
        BY <4>1, <4>3
    <3>5. QED
      BY <1>2, <2>2, <3>1, <3>4
  <2>11. Following'
    BY <2>7, <2>8, <2>10 DEF Following
  <2>12. QED
    BY <2>9, <2>11
<1>11. CASE ~(wire[1].type = "reply" /\ AsksTables(wire[1].ctx))
  <2>1. /\ built' = built
        /\ shown' = IF IsPush(wire, 1) /\ shown # <<>>
                    THEN [shown EXCEPT ![wire[1].table] = wire[1].status] ELSE shown
    <3>1. CASE wire[1].type = "reply"
      <4>1. callbacks[wire[1].ctx] # "getTables"
        BY <1>1, <1>2, <1>11, <3>1 DEF AsksTables, Types
      <4>2. QED
        BY <1>2, <3>1, <4>1 DEF Effect, IsPush
    <3>2. CASE wire[1].type = "push"
      BY <1>2, <3>2 DEF Effect, IsPush
    <3>3. QED
      BY <1>2, <1>5, <3>1, <3>2, MessageKinds
  <2>2. built' = 0 => shown' = <<>>
    BY <1>5, <2>1
  <2>3. BuiltByReply'
    <3>1. CASE built = 0
      BY <1>9, <2>1, <2>2, <3>1 DEF BuiltByReply
    <3>2. CASE built = 1
      <4>1. "hall" \in created' /\ \A c \in inbox' : ~AsksTables(c)'
        BY <1>5, <1>6, <3>2
      <4>2. \A m \in replies' : ~AsksTables(m.ctx)'
        BY <1>5, <1>8, <3>2
      <4>3. \A i \in DOMAIN wire' : wire'[i].type = "reply" => ~AsksTables(wire[i].ctx)'
        BY <1>2, <1>5, <1>7, <3>2
      <4>4. QED
        BY <1>5, <1>9, <2>1, <2>2, <4>1, <4>2, <4>3 DEF BuiltByReply
    <3>3. QED
      BY <1>5, <3>1, <3>2
  <2>4. CASE pushLost'
    BY <2>3, <2>4 DEF Following
  <2>5. CASE ~pushLost' /\ shown # <<>>
    <3>1. built = 1
      BY <1>5, <2>5
    <3>2. \A m \in replies' : ~AsksTables(m.ctx)'
      BY <1>5, <1>8, <3>1
    <3>3. \A i \in DOMAIN wire' : wire'[i].type = "reply" => ~AsksTables(wire[i].ctx)'
      BY <1>2, <1>5, <1>7, <3>1
    <3>4. inHall /\ Follows(wire, status, shown, 0)
      BY <1>2, <2>5 DEF ClientInv, Following
    <3>5. PICK tables : tables = shown'
      OBVIOUS
    <3>6. Follows(wire, status, tables, 1)
      <4>1. CASE IsPush(wire, 1)
        <5>1. wire[1].table \in Table /\ shown \in Statuses
          BY <1>1, <1>2, <2>5, <4>1, MessageKinds DEF IsPush, Types
        <5>2. QED
          BY <1>2, <1>3, <2>1, <2>5, <3>4, <3>5, <4>1, <5>1, FollowsFirst
      <4>2. CASE ~IsPush(wire, 1)
        <5>1. tables = shown
          BY <2>1, <3>5, <4>2
        <5>2. \A i \in DOMAIN wire : i > 0 /\ i <= 1 => ~IsPush(wire, i)
          BY <1>3, <4>2
        <5>3. QED
          BY <1>3, <3>4, <5>1, <5>2, FollowsSkip
      <4>3. QED
        BY <4>1, <4>2
    <3>7. Follows(wire, status, tables, n)
      BY <1>2, <1>3, <1>4, <2>5, <3>6, FollowsSkip
    <3>8. Follows(wire', status, tables, 0)
      <4>1. Follows(wire, status, tables, 0 + n)
        BY <1>4, <3>7
      <4>2. QED
        BY <1>2, <1>3, <1>4, <4>1, FollowsMoved
    <3>9. Follows(wire', status', shown', 0) /\ inHall'
      BY <1>2, <3>4, <3>5, <3>8
    <3>10. Following'
      BY <3>2, <3>3, <3>9 DEF Following
    <3>11. QED
      BY <2>3, <3>10
  <2>6. CASE ~pushLost' /\ shown = <<>>
    <3>1. shown' = <<>> /\ ~IsPush(wire, 1)
      BY <1>2, <2>1, <2>6
    <3>2. ~pushLost /\ \A i \in DOMAIN wire : i <= n => ~IsPush(wire, i)
      BY <1>2, <1>3, <2>6, <3>1
    <3>3. /\ \A k \in DOMAIN wire : wire[k].type = "reply" /\ AsksTables(wire[k].ctx) =>
               /\ inHall /\ wire[k].tables \in Statuses
               /\ NoPush(wire, k) => Follows(wire, status, wire[k].tables, k)
          /\ \A m \in replies : AsksTables(m.ctx) =>
               /\ inHall /\ m.tables \in Statuses
               /\ (\A i \in DOMAIN wire : ~IsPush(wire, i)) => m.tables = status
      BY <1>2, <3>2 DEF ClientInv, Following
    <3>4. ASSUME NEW i \in DOMAIN wire, IsPush(wire, i)
          PROVE  i - n \in DOMAIN wire' /\ IsPush(wire', i - n)
      BY <1>2, <1>3, <1>4, <3>2, <3>4 DEF IsPush
    <3>5. ASSUME NEW k \in DOMAIN wire', wire'[k].type = "reply", AsksTables(wire[k].ctx)'
          PROVE  /\ inHall' /\ wire'[k].tables \in Statuses
                 /\ NoPush(wire', k) => Follows(wire', status', wire'[k].tables, k)
      <4>1. /\ k \in Nat /\ k + n \in DOMAIN wire /\ wire'[k] = wire[k + n]
            /\ wire[k + n].type = "reply" /\ AsksTables(wire[k + n].ctx)
        BY <1>2, <1>7, <3>5
      <4>2. NoPush(wire', k) => NoPush(wire, k + n)
        BY <1>3, <1>4, <3>4, <4>1 DEF NoPush
      <4>3. ASSUME Follows(wire, status, wire[k + n].tables, k + n)
            PROVE  Follows(wire', status, wire[k + n].tables, k)
        <5>1. PICK tables : tables = wire[k + n].tables
          OBVIOUS
        <5>2. Follows(wire, status, tables, k + n)
          BY <4>3, <5>1
        <5>3. Follows(wire', status, tables, k)
          BY <1>2, <1>3, <1>4, <4>1, <5>2, FollowsMoved
        <5>4. QED
          BY <5>1, <5>3
      <4>4. QED
        BY <1>2, <3>3, <4>1, <4>2, <4>3
    <3>6. ASSUME NEW m \in replies', AsksTables(m.ctx)'
          PROVE  /\ inHall' /\ m.tables \in Statuses
                 /\ (\A i \in DOMAIN wire' : ~IsPush(wire', i)) => m.tables = status'
      <4>1. m \in replies /\ AsksTables(m.ctx)
        BY <1>8, <3>6
      <4>2. (\A i \in DOMAIN wire' : ~IsPush(wire', i)) => \A i \in DOMAIN wire : ~IsPush(wire, i)
        BY <3>4
      <4>3. QED
        BY <1>2, <3>3, <4>1, <4>2
    <3>7. Following'
      BY <3>1, <3>5, <3>6 DEF Following
    <3>8. QED
      BY <2>3, <3>7
  <2>7. QED
    BY <2>4, <2>5, <2>6
<1>12. QED
  BY <1>10, <1>11

LEMMA ReadingKeeps ==
  ASSUME ClientInv, Reading
  PROVE  ClientInv'
<1>0. PICK part \in 0..1 : \E n \in 1..(Len(wire) - part) : SocketData(n, part)
  BY DEF Reading
<1>1. PICK n \in 1..(Len(wire) - part) : SocketData(n, part)
  BY <1>0
<1>2. UNCHANGED <<queue, index, assets, file>>
  BY DEF Reading, loaderVars
<1>3. Types /\ OnePlace /\ AskedOnce /\ Phases
  BY DEF ClientInv
<1>4. /\ {"loading", "login"} \subseteq created
      /\ Effect(wire[1])
      /\ wire' \in Seq(Message)
      /\ \A i \in DOMAIN wire' :
           wire'[i] = Rest \/ (i \in Nat /\ i + n \in DOMAIN wire /\ wire'[i] = wire[i + n])
      /\ UNCHANGED <<replies, inHall, status>>
      /\ cut' = (cut \/ part = 1)
  BY <1>1, ReadFacts
<1>5. pushLost' \in BOOLEAN
  BY <1>1 DEF SocketData
<1>6. \A i \in DOMAIN wire' : wire'[i].type = "reply" =>
        i \in Nat /\ i + n \in DOMAIN wire /\ wire'[i] = wire[i + n]
  BY <1>4, MessagesMade
<1>7. n \in Nat
  BY <1>1, <1>3, LenProperties DEF Types
<1>8. /\ created \subseteq created' /\ callbacks' \in Seq(Api)
      /\ DOMAIN callbacks \subseteq DOMAIN callbacks'
      /\ inbox' \subseteq DOMAIN callbacks'
      /\ \A c \in DOMAIN callbacks : c \in inbox' <=> c \in inbox
      /\ AskedOnce'
  BY <1>3, <1>4, GrowKeeps DEF Effect, Grow
<1>9. LoaderInv'
  BY <1>2 DEF ClientInv, LoaderInv
<1>10. StageSound' /\ ViewTypes' /\ shown' \in Statuses \cup {<<>>} /\ built' \in Nat
  BY <1>4 DEF Effect
<1>11. Types'
  <2>1. \A i \in DOMAIN wire' : wire'[i].type = "reply" => wire'[i].ctx \in DOMAIN callbacks'
    BY <1>3, <1>6, <1>8 DEF Types
  <2>2. cut' \in BOOLEAN /\ inHall' \in BOOLEAN /\ status' \in Statuses
    BY <1>3, <1>4 DEF Types
  <2>3. replies' \subseteq Replies /\ \A m \in replies' : m.ctx \in DOMAIN callbacks'
    BY <1>3, <1>4, <1>8 DEF Types
  <2>4. QED
    BY <1>4, <1>5, <1>8, <1>10, <2>1, <2>2, <2>3 DEF Types, ViewTypes
<1>12. Phases'
  BY <1>2, <1>3, <1>4, <1>8 DEF Phases
<1>13. OnePlace'
  <2>1. \A m \in replies' : m \in replies /\ (m.ctx \in inbox' <=> m.ctx \in inbox)
    BY <1>3, <1>4, <1>8 DEF Types
  <2>2. ASSUME NEW i \in DOMAIN wire', wire'[i].type = "reply"
        PROVE  /\ wire'[i].ctx \notin inbox'
               /\ \A m \in replies' : m.ctx # wire'[i].ctx
               /\ \A j \in DOMAIN wire' :
                    wire'[j].type = "reply" /\ wire'[j].ctx = wire'[i].ctx => i = j
    <3>1. /\ i \in Nat /\ i + n \in DOMAIN wire /\ wire'[i] = wire[i + n]
          /\ wire[i + n].type = "reply" /\ wire[i + n].ctx \in DOMAIN callbacks
      BY <1>3, <1>6, <2>2 DEF Types
    <3>2. wire'[i].ctx \notin inbox' /\ \A m \in replies' : m.ctx # wire'[i].ctx
      BY <1>3, <1>8, <2>1, <3>1 DEF OnePlace
    <3>3. ASSUME NEW j \in DOMAIN wire', wire'[j].type = "reply", wire'[j].ctx = wire'[i].ctx
          PROVE  i = j
      <4>1. /\ j \in Nat /\ j + n \in DOMAIN wire /\ wire'[j] = wire[j + n]
            /\ wire[j + n].type = "reply" /\ wire[j + n].ctx = wire[i + n].ctx
        BY <1>6, <3>1, <3>3
      <4>2. i + n = j + n
        BY <1>3, <3>1, <4>1 DEF OnePlace
      <4>3. QED
        BY <1>7, <3>1, <4>1, <4>2
    <3>4. QED
      BY <3>2, <3>3
  <2>3. QED
    BY <1>3, <2>1, <2>2 DEF OnePlace
<1>14. BuiltByReply' /\ Following'
  <2>1. CASE cut'
    BY <2>1 DEF BuiltByReply, Following
  <2>2. CASE ~cut'
    BY <1>1, <2>2, ReadingKeepsTables
  <2>3. QED
    BY <2>1, <2>2
<1>15. QED
  BY <1>8, <1>9, <1>10, <1>11, <1>12, <1>13, <1>14 DEF ClientInv

-----------------------------------------------------------------------------
(* The theorems.                                                           *)

LEMMA StutterKeeps ==
  ASSUME ClientInv, UNCHANGED vars
  PROVE  ClientInv'
<1>1. /\ UNCHANGED <<queue, index, assets, file>>
      /\ UNCHANGED <<view, stage, created, callbacks, shown, built, inbox, replies, inHall,
                     status, wire, pushLost, cut>>
  BY DEF vars, loaderVars, clientVars, serverVars
<1>2. LoaderInv' /\ Types' /\ Phases' /\ StageSound'
  BY <1>1 DEF ClientInv, LoaderInv, Types, Phases, StageSound
<1>3. OnePlace' /\ AskedOnce' /\ BuiltByReply' /\ Following'
  BY <1>1 DEF ClientInv, OnePlace, AskedOnce, BuiltByReply, Following, AsksTables
<1>4. QED
  BY <1>2, <1>3 DEF ClientInv

\* Every step keeps the invariant.
LEMMA ClientInvStep ==
  ASSUME ClientInv, [Next]_vars
  PROVE  ClientInv'
<1>1. CASE Loading
  BY <1>1, LoadingKeeps
<1>2. CASE Serving
  BY <1>2, ServingKeeps
<1>3. CASE Flushing
  BY <1>3, FlushingKeeps
<1>4. CASE Reading
  BY <1>4, ReadingKeeps
<1>5. CASE (LoginClick \/ SeatClick) /\ UNCHANGED loaderVars
  BY <1>5, ClickKeeps
<1>6. CASE (\E t \in Table, s \in Seat : Sitdown(t, s)) /\ UNCHANGED loaderVars
  BY <1>6, SitdownKeeps
<1>7. CASE SocketDataCut /\ UNCHANGED loaderVars
  BY <1>7, CutKeeps
<1>8. CASE UNCHANGED vars
  BY <1>8, StutterKeeps
<1>9. QED
  BY <1>1, <1>2, <1>3, <1>4, <1>5, <1>6, <1>7, <1>8 DEF Next

LEMMA ClientInvariant == Spec => []ClientInv
BY InitInv, ClientInvStep, PTL DEF Spec

\* The view manager never removes a view twice, whatever order replies come in
\* and whatever the tails of messages are read as.
THEOREM StageSoundCorrect == Spec => []StageSound
<1>1. ClientInv => StageSound
  BY DEF ClientInv
<1>2. QED
  BY <1>1, ClientInvariant, PTL

\* When a view is initialised the assets it takes are there, each under its own
\* id, however long the manifest is.
THEOREM AssetsBeforeViewsCorrect == Spec => []AssetsBeforeViews
<1>1. ClientInv => AssetsBeforeViews
  <2>1. SUFFICES ASSUME ClientInv, created # {"loading"}
                 PROVE  AssetsInPlace
    BY DEF AssetsBeforeViews
  <2>2. index = Len(Manifest) + 1 /\ LoaderInv
    BY <2>1 DEF ClientInv, Phases
  <2>3. DOMAIN assets = Ids
    BY <2>2 DEF LoaderInv
  <2>4. \A i \in DOMAIN Manifest : assets[Manifest[i]] = Manifest[i]
    BY <2>2, ManifestFacts DEF LoaderInv
  <2>5. QED
    BY <2>3, <2>4 DEF AssetsInPlace, Ids
<1>2. QED
  BY <1>1, ClientInvariant, PTL

\* However often the user clicks, one reply builds the tables.
THEOREM TablesBuiltOnceCorrect == Spec => []TablesBuiltOnce
<1>1. ClientInv => TablesBuiltOnce
  BY DEF ClientInv, BuiltByReply, TablesBuiltOnce
<1>2. QED
  BY <1>1, ClientInvariant, PTL

\* Snapshot and pushes add up: with nothing on its way and no push lost, the
\* screen shows what the server has.
THEOREM TablesCurrentCorrect == Spec => []TablesCurrent
<1>1. ClientInv => TablesCurrent
  <2>1. SUFFICES ASSUME ClientInv, wire = <<>>, shown # <<>>, ~pushLost, ~cut
                 PROVE  shown = status
    BY DEF TablesCurrent
  <2>2. Follows(wire, status, shown, 0) /\ shown \in Statuses /\ status \in Statuses
    BY <2>1 DEF ClientInv, Following, Types
  <2>3. DOMAIN wire = {}
    BY <2>1
  <2>4. \A t \in Table : shown[t] = status[t]
    BY <2>2, <2>3 DEF Follows
  <2>5. QED
    BY <2>2, <2>4 DEF Statuses
<1>2. QED
  BY <1>1, ClientInvariant, PTL
=============================================================================
