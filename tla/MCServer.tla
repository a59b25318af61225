------------------------------ MODULE MCServer ------------------------------
(***************************************************************************)
(* Small instances of Server.  MaxTotal bounds the clients, their requests *)
(* and the cuts together: with 4, two clients make a request each, or one  *)
(* of them two, or one that is cut; one client makes two, one of them cut; *)
(* or three clients come, and one makes a request.                         *)
(***************************************************************************)
EXTENDS Server, TLC, Functions

CONSTANT MaxTotal  \* bound: clients, requests and cuts

Sit(t, s) == [op |-> "sitdown", room |-> 0, table |-> t, pos |-> s]

\* Every operation that is answered.
AllPayloads == {Blank("login"), Blank("enter"), Sit(0, 1)}

\* One request that takes effect before its response, one after it.
TwoPayloads == {Blank("enter"), Sit(1, 0)}

\* A single request, for the liveness run.
EnterOnly == {Blank("enter")}

\* What is read from the middle of a request: by chance the header of one, a
\* sitdown at a table that does not exist.
SomeGarbled == {[ctx |-> 1, body |-> Sit(1, 0)]}

\* Or nothing at all, for the liveness run.
NothingGarbled == {[ctx |-> 0, body |-> Blank("unknown")]}

Threads == Permutations(Buffer) \cup Permutations(Consumer)
Clients == Permutations(Conn)
ThreadsAndClients == Threads \cup Clients

Visits == Cardinality({c \in Conn : peer[c] # "none"})
Total == Visits + FoldFunction(+, 0, sent) + FoldFunction(+, 0, cuts)

MCNext == Next /\ Total' <= MaxTotal

MCSpec == Init /\ [][MCNext]_vars

\* Without SIGINT, which changes nothing but proc; the liveness run has it.
QuietSpec == Init /\ [][MCNext /\ proc' # "interrupted"]_vars

\* The contents of a free buffer are written before they are read.
MessagesInUse == <<[b \in Buffer \ pool |-> msg[b]], queueVars, proc, netVars, stream,
                   mainVars, recvVars, at, dataVars>>

\* The clients, whom the bound restricts, have no fairness to lose.
MCFairSpec == MCSpec /\ Fairness
=============================================================================
