------------------------------- MODULE Bmysql -------------------------------
(***************************************************************************)
(* The database connectors of lib/db/mysql/bmysql.c and the threads that   *)
(* share them.  A thread scans the connectors under lc_mutex; when none is *)
(* idle it waits on lc_cond for at most 15 seconds and scans once more.    *)
(* A connector is given back without the mutex, by bmysql_free_result with *)
(* a signal and by bmysql_execute without one.                             *)
(*                                                                         *)
(* proc is "up" until a thread uses a pointer it did not get.              *)
(***************************************************************************)
EXTENDS Naturals, FiniteSets

CONSTANTS Thread,        \* the threads that use the database
          ConnectorNum,  \* DB_CONNECTOR_NUM
          NoConnector    \* the id of a thread that holds none

Connector == 0..(ConnectorNum - 1)

ASSUME BmysqlAssumption == /\ ConnectorNum \in Nat
                           /\ NoConnector \notin Connector

\* bmysql_query, bmysql_query_scalar and bmysql_execute.
Op == {"query", "scalar", "execute"}

VARIABLES status,  \* of each connector: idle (0), used (1) or broken (2)
          pc,      \* where each thread is in its call
          op,      \* which call that is
          id,      \* the connector each thread has
          leaked,  \* history: connectors of queries that failed
          proc

vars == <<status, pc, op, id, leaked, proc>>

Waiting   == {t \in Thread : pc[t] = "waiting"}
MutexFree == \A t \in Thread : pc[t] # "scanned"

\* bmysql_init: some connectors may fail to connect.
Init ==
  /\ status \in [Connector -> {"idle", "broken"}]
  /\ pc = [t \in Thread |-> "out"]
  /\ op = [t \in Thread |-> "query"]
  /\ id = [t \in Thread |-> NoConnector]
  /\ leaked = {}
  /\ proc = "up"

-----------------------------------------------------------------------------
FirstIdle(n) ==
  /\ status[n] = "idle"
  /\ \A m \in 0..(n - 1) : status[m] # "idle"

NoneIdle == \A n \in Connector : status[n] # "idle"

\* Mutant of GetConnector: the connector is not marked.
GetUnmarked(t) ==
  \E n \in Connector :
    /\ FirstIdle(n)
    /\ id' = [id EXCEPT ![t] = n]
    /\ pc' = [pc EXCEPT ![t] = "running"]
    /\ status' = status

\* get_connnector, when there is one.
GetConnector(t) ==
  \E n \in Connector :
    /\ FirstIdle(n)
    /\ status' = [status EXCEPT ![n] = "used"]
    /\ id' = [id EXCEPT ![t] = n]
    /\ pc' = [pc EXCEPT ![t] = "running"]

\* Mutant of GetNothing: the NULL is not noticed.
GetNothingUnchecked(t) ==
  /\ pc' = [pc EXCEPT ![t] = "running"]
  /\ UNCHANGED <<status, id, proc>>

\* bmysql_get_connector returns NULL: bmysql_query reports it, bmysql_execute
\* hands it to mysql_query.
GetNothing(t) ==
  /\ IF op[t] = "execute"
     THEN proc' = "null_mysql" /\ pc' = pc
     ELSE proc' = proc /\ pc' = [pc EXCEPT ![t] = "out"]
  /\ UNCHANGED <<status, id>>

\* The first scan.  Without an idle connector the thread keeps the mutex until
\* it waits.
Begin(t) ==
  /\ pc[t] = "out" /\ MutexFree
  /\ \E o \in Op : op' = [op EXCEPT ![t] = o]
  /\ \/ GetConnector(t)
     \/ /\ NoneIdle
        /\ pc' = [pc EXCEPT ![t] = "scanned"]
        /\ UNCHANGED <<status, id>>
  /\ UNCHANGED <<leaked, proc>>

\* Pthread_cond_timedwait releases the mutex.
Sleep(t) ==
  /\ pc[t] = "scanned"
  /\ pc' = [pc EXCEPT ![t] = "waiting"]
  /\ UNCHANGED <<status, op, id, leaked, proc>>

SpuriousWakeup(t) ==
  /\ pc[t] = "waiting"
  /\ pc' = [pc EXCEPT ![t] = "woken"]
  /\ UNCHANGED <<status, op, id, leaked, proc>>

\* The second and last scan.
Rescan(t) ==
  /\ pc[t] = "woken" /\ MutexFree
  /\ \/ GetConnector(t) /\ proc' = proc
     \/ NoneIdle /\ GetNothing(t)
  /\ UNCHANGED <<op, leaked>>

\* Mutant of TimeOut: the thread waits again.
TimeOutAgain(t) ==
  /\ pc[t] = "waiting" /\ MutexFree
  /\ pc' = [pc EXCEPT ![t] = "scanned"]
  /\ UNCHANGED <<status, op, id, leaked, proc>>

\* ETIMEDOUT: no scan.
TimeOut(t) ==
  /\ pc[t] = "waiting" /\ MutexFree
  /\ GetNothing(t)
  /\ UNCHANGED <<op, leaked>>

-----------------------------------------------------------------------------
Release(t) ==
  /\ status' = [status EXCEPT ![id[t]] = "idle"]
  /\ id' = [id EXCEPT ![t] = NoConnector]

\* bmysql_query when mysql_query fails: it returns success with no result and
\* the connector is not released.  bmysql_query_scalar reads the result.
QueryFails(t) ==
  /\ pc[t] = "running" /\ op[t] \in {"query", "scalar"}
  /\ leaked' = leaked \cup {id[t]}
  /\ id' = [id EXCEPT ![t] = NoConnector]
  /\ pc' = [pc EXCEPT ![t] = "out"]
  /\ proc' = IF op[t] = "scalar" THEN "no_result" ELSE proc
  /\ UNCHANGED <<status, op>>

\* The result keeps the connector until it is freed.  mysql_store_result may
\* still have failed, which bmysql_query_scalar does not notice either.
QuerySucceeds(t) ==
  /\ pc[t] = "running" /\ op[t] \in {"query", "scalar"}
  /\ pc' = [pc EXCEPT ![t] = "reading"]
  /\ \/ proc' = proc
     \/ op[t] = "scalar" /\ proc' = "no_result"
  /\ UNCHANGED <<status, op, id, leaked>>

\* bmysql_execute, whether mysql_query fails or not.
Execute(t) ==
  /\ pc[t] = "running" /\ op[t] = "execute"
  /\ Release(t)
  /\ pc' = [pc EXCEPT ![t] = "out"]
  /\ UNCHANGED <<op, leaked, proc>>

\* bmysql_free_result up to the signal.
FreeResult(t) ==
  /\ pc[t] = "reading"
  /\ Release(t)
  /\ pc' = [pc EXCEPT ![t] = "released"]
  /\ UNCHANGED <<op, leaked, proc>>

\* pthread_cond_signal.
Signal(t) ==
  /\ pc[t] = "released"
  /\ \/ \E u \in Waiting : pc' = [pc EXCEPT ![t] = "out", ![u] = "woken"]
     \/ Waiting = {} /\ pc' = [pc EXCEPT ![t] = "out"]
  /\ UNCHANGED <<status, op, id, leaked, proc>>

\* What a thread does by itself inside a call.
Proceed(t) ==
  \/ Sleep(t) \/ Rescan(t) \/ TimeOut(t)
  \/ QueryFails(t) \/ QuerySucceeds(t) \/ Execute(t)
  \/ FreeResult(t) \/ Signal(t)

Next ==
  /\ proc = "up"
  /\ \E t \in Thread : Begin(t) \/ SpuriousWakeup(t) \/ Proceed(t)

Spec == Init /\ [][Next]_vars

\* Threads are scheduled, the database answers, results are freed, and the
\* mutex, which other threads keep taking, is granted in the end.
FairSpec == Spec /\ \A t \in Thread : SF_vars(proc = "up" /\ Proceed(t))

-----------------------------------------------------------------------------
Pc == {"out", "scanned", "waiting", "woken", "running", "reading", "released"}

\* The type invariant.
TypeOK ==
  /\ status \in [Connector -> {"idle", "used", "broken"}]
  /\ pc \in [Thread -> Pc]
  /\ op \in [Thread -> Op]
  /\ id \in [Thread -> Connector \cup {NoConnector}]
  /\ leaked \subseteq Connector
  /\ proc \in {"up", "null_mysql", "no_result"}

Held == {id[t] : t \in Thread} \ {NoConnector}

\* A connector in use has one user: no two threads talk on one MySQL handle,
\* though it is released without the mutex it is taken under.  Those in use by
\* nobody are the ones failed queries left behind, for good.
Ownership ==
  /\ {n \in Connector : status[n] = "used"} = Held \cup leaked
  /\ Held \cap leaked = {}
  /\ \A t, u \in Thread : id[t] = id[u] /\ id[t] # NoConnector => t = u
  /\ \A t \in Thread : id[t] # NoConnector <=> pc[t] \in {"running", "reading"}

InCall(t) == pc[t] \in {"scanned", "waiting", "woken"}

\* No thread waits for ever for a connector, not even when failed queries have
\* taken all of them away: it gets one, is told there is none, or the process
\* ends.
CallsReturn == \A t \in Thread : InCall(t) ~> (~InCall(t) \/ proc # "up")
=============================================================================
