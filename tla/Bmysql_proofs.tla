---------------------------- MODULE Bmysql_proofs ----------------------------
(***************************************************************************)
(* Ownership of the database connectors, for any threads and connectors.   *)
(* The invariant is the type invariant with Ownership: who holds what, and *)
(* what was left behind, is inductive by itself.                           *)
(***************************************************************************)
EXTENDS Bmysql, TLAPS

Inv == TypeOK /\ Ownership

LEMMA InvInit == Init => Inv
<1> SUFFICES ASSUME Init PROVE Inv
  OBVIOUS
<1>1. TypeOK
  BY DEF Init, TypeOK, Pc, Op
<1>2. Held = {}
  BY DEF Init, Held
<1>3. Ownership
  BY <1>2 DEF Init, Ownership
<1>4. QED
  BY <1>1, <1>3 DEF Inv

\* A thread that had no connector gets an idle one.
LEMMA GetKeeps ==
  ASSUME Inv, NEW t \in Thread, pc[t] \in {"out", "woken"}, GetConnector(t),
         UNCHANGED leaked
  PROVE  Ownership'
<1> USE BmysqlAssumption
<1>1. PICK n \in Connector :
        /\ status[n] = "idle"
        /\ status' = [status EXCEPT ![n] = "used"]
        /\ id' = [id EXCEPT ![t] = n]
        /\ pc' = [pc EXCEPT ![t] = "running"]
  BY DEF GetConnector, FirstIdle
<1>2. /\ status \in [Connector -> {"idle", "used", "broken"}]
      /\ pc \in [Thread -> Pc]
      /\ id \in [Thread -> Connector \cup {NoConnector}]
      /\ n # NoConnector
  BY DEF Inv, TypeOK
<1>3. id[t] = NoConnector
  BY DEF Inv, Ownership
<1>4. n \notin Held /\ n \notin leaked
  BY <1>1 DEF Inv, Ownership
<1>5. Held' = Held \cup {n}
  <2>1. ASSUME NEW x \in Held' PROVE x \in Held \cup {n}
    BY <1>1, <1>2, <2>1 DEF Held
  <2>2. ASSUME NEW x \in Held PROVE x \in Held'
    <3>1. PICK u \in Thread : x = id[u] /\ x # NoConnector
      BY <2>2 DEF Held
    <3>2. u # t /\ id'[u] = x
      BY <1>1, <1>2, <1>3, <3>1
    <3>3. QED
      BY <3>1, <3>2 DEF Held
  <2>3. n \in Held'
    <3>1. id'[t] = n
      BY <1>1, <1>2
    <3>2. QED
      BY <1>2, <3>1 DEF Held
  <2>4. QED
    BY <2>1, <2>2, <2>3
<1>6. {m \in Connector : status'[m] = "used"} = {m \in Connector : status[m] = "used"} \cup {n}
  BY <1>1, <1>2
<1>7. {m \in Connector : status'[m] = "used"} = Held' \cup leaked'
  BY <1>5, <1>6 DEF Inv, Ownership
<1>8. Held' \cap leaked' = {}
  BY <1>4, <1>5 DEF Inv, Ownership
<1>9. \A u, w \in Thread : id'[u] = id'[w] /\ id'[u] # NoConnector => u = w
  <2>1. ASSUME NEW u \in Thread, id[u] = n PROVE FALSE
    BY <1>2, <1>4, <2>1 DEF Held
  <2>2. QED
    BY <1>1, <1>2, <2>1 DEF Inv, Ownership
<1>10. \A u \in Thread : id'[u] # NoConnector <=> pc'[u] \in {"running", "reading"}
  BY <1>1, <1>2 DEF Inv, Ownership
<1>11. QED
  BY <1>7, <1>8, <1>9, <1>10 DEF Ownership

\* A thread gives back the connector it has, and leaves its call or goes on to
\* the signal.
LEMMA ReleaseKeeps ==
  ASSUME Inv, NEW t \in Thread, pc[t] \in {"running", "reading"}, Release(t),
         NEW place \in {"out", "released"}, pc' = [pc EXCEPT ![t] = place],
         UNCHANGED leaked
  PROVE  Ownership'
<1> USE BmysqlAssumption
<1>1. /\ status \in [Connector -> {"idle", "used", "broken"}]
      /\ pc \in [Thread -> Pc]
      /\ id \in [Thread -> Connector \cup {NoConnector}]
      /\ id[t] \in Connector /\ id[t] # NoConnector
  BY DEF Inv, TypeOK, Ownership
<1>2. /\ status' = [status EXCEPT ![id[t]] = "idle"]
      /\ id' = [id EXCEPT ![t] = NoConnector]
  BY DEF Release
<1>3. id[t] \in Held /\ id[t] \notin leaked
  BY <1>1 DEF Held, Inv, Ownership
<1>4. Held' = Held \ {id[t]}
  <2>1. ASSUME NEW x \in Held' PROVE x \in Held \ {id[t]}
    <3>1. PICK u \in Thread : x = id'[u] /\ x # NoConnector
      BY <2>1 DEF Held
    <3>2. u # t /\ id[u] = x
      BY <1>1, <1>2, <3>1
    <3>3. id[u] # id[t]
      BY <1>1, <3>1, <3>2 DEF Inv, Ownership
    <3>4. QED
      BY <3>1, <3>2, <3>3 DEF Held
  <2>2. ASSUME NEW x \in Held, x # id[t] PROVE x \in Held'
    <3>1. PICK u \in Thread : x = id[u] /\ x # NoConnector
      BY <2>2 DEF Held
    <3>2. u # t /\ id'[u] = x
      BY <1>1, <1>2, <2>2, <3>1
    <3>3. QED
      BY <3>1, <3>2 DEF Held
  <2>3. QED
    BY <2>1, <2>2
<1>5. {m \in Connector : status'[m] = "used"} = {m \in Connector : status[m] = "used"} \ {id[t]}
  BY <1>1, <1>2
<1>6. {m \in Connector : status'[m] = "used"} = Held' \cup leaked'
  BY <1>3, <1>4, <1>5 DEF Inv, Ownership
<1>7. Held' \cap leaked' = {}
  BY <1>4 DEF Inv, Ownership
<1>8. \A u, w \in Thread : id'[u] = id'[w] /\ id'[u] # NoConnector => u = w
  BY <1>1, <1>2 DEF Inv, Ownership
<1>9. \A u \in Thread : id'[u] # NoConnector <=> pc'[u] \in {"running", "reading"}
  BY <1>1, <1>2 DEF Inv, Ownership
<1>10. QED
  BY <1>6, <1>7, <1>8, <1>9 DEF Ownership

\* A failed query leaves its connector behind.
LEMMA FailureKeeps ==
  ASSUME Inv, NEW t \in Thread, QueryFails(t)
  PROVE  Ownership'
<1> USE BmysqlAssumption
<1>1. /\ pc \in [Thread -> Pc]
      /\ id \in [Thread -> Connector \cup {NoConnector}]
      /\ id[t] # NoConnector
  BY DEF Inv, TypeOK, Ownership, QueryFails
<1>2. /\ leaked' = leaked \cup {id[t]}
      /\ id' = [id EXCEPT ![t] = NoConnector]
      /\ pc' = [pc EXCEPT ![t] = "out"]
      /\ status' = status
  BY DEF QueryFails
<1>3. Held' = Held \ {id[t]}
  <2>1. ASSUME NEW x \in Held' PROVE x \in Held \ {id[t]}
    <3>1. PICK u \in Thread : x = id'[u] /\ x # NoConnector
      BY <2>1 DEF Held
    <3>2. u # t /\ id[u] = x
      BY <1>1, <1>2, <3>1
    <3>3. id[u] # id[t]
      BY <1>1, <3>1, <3>2 DEF Inv, Ownership
    <3>4. QED
      BY <3>1, <3>2, <3>3 DEF Held
  <2>2. ASSUME NEW x \in Held, x # id[t] PROVE x \in Held'
    <3>1. PICK u \in Thread : x = id[u] /\ x # NoConnector
      BY <2>2 DEF Held
    <3>2. u # t /\ id'[u] = x
      BY <1>1, <1>2, <2>2, <3>1
    <3>3. QED
      BY <3>1, <3>2 DEF Held
  <2>3. QED
    BY <2>1, <2>2
<1>4. id[t] \in Held
  BY <1>1 DEF Held
<1>5. {m \in Connector : status'[m] = "used"} = Held' \cup leaked'
  BY <1>2, <1>3, <1>4 DEF Inv, Ownership
<1>6. Held' \cap leaked' = {}
  BY <1>2, <1>3 DEF Inv, Ownership
<1>7. \A u, w \in Thread : id'[u] = id'[w] /\ id'[u] # NoConnector => u = w
  BY <1>1, <1>2 DEF Inv, Ownership
<1>8. \A u \in Thread : id'[u] # NoConnector <=> pc'[u] \in {"running", "reading"}
  BY <1>1, <1>2 DEF Inv, Ownership
<1>9. QED
  BY <1>5, <1>6, <1>7, <1>8 DEF Ownership

\* A step that moves threads between places where they hold the same.
LEMMA PlaceKeeps ==
  ASSUME Inv, UNCHANGED <<status, id, leaked>>,
         \A u \in Thread : pc'[u] \in {"running", "reading"} <=> pc[u] \in {"running", "reading"}
  PROVE  Ownership'
<1>1. Held' = Held
  BY DEF Held
<1>2. QED
  BY <1>1 DEF Inv, Ownership

LEMMA TypeStep == Inv /\ [Next]_vars => TypeOK'
<1> SUFFICES ASSUME Inv, [Next]_vars PROVE TypeOK'
  OBVIOUS
<1> USE BmysqlAssumption
<1>1. TypeOK /\ \A t \in Thread : pc[t] \in {"running", "reading"} => id[t] \in Connector
  BY DEF Inv, Ownership, TypeOK
<1>2. CASE UNCHANGED vars
  BY <1>1, <1>2 DEF TypeOK, vars
<1>3. CASE Next
  <2>1. PICK t \in Thread : Begin(t) \/ SpuriousWakeup(t) \/ Proceed(t)
    BY <1>3 DEF Next
  <2>2. CASE Begin(t)
    BY <1>1, <2>2 DEF Begin, GetConnector, TypeOK, Pc
  <2>3. CASE SpuriousWakeup(t)
    BY <1>1, <2>3 DEF SpuriousWakeup, TypeOK, Pc
  <2>4. CASE Sleep(t)
    BY <1>1, <2>4 DEF Sleep, TypeOK, Pc
  <2>5. CASE Rescan(t)
    BY <1>1, <2>5 DEF Rescan, GetConnector, GetNothing, TypeOK, Pc
  <2>6. CASE TimeOut(t)
    BY <1>1, <2>6 DEF TimeOut, GetNothing, TypeOK, Pc
  <2>7. CASE QueryFails(t)
    BY <1>1, <2>7 DEF QueryFails, TypeOK, Pc
  <2>8. CASE QuerySucceeds(t)
    BY <1>1, <2>8 DEF QuerySucceeds, TypeOK, Pc
  <2>9. CASE Execute(t)
    BY <1>1, <2>9 DEF Execute, Release, TypeOK, Pc
  <2>10. CASE FreeResult(t)
    BY <1>1, <2>10 DEF FreeResult, Release, TypeOK, Pc
  <2>11. CASE Signal(t)
    BY <1>1, <2>11 DEF Signal, TypeOK, Pc
  <2>12. QED
    BY <2>1, <2>2, <2>3, <2>4, <2>5, <2>6, <2>7, <2>8, <2>9, <2>10, <2>11 DEF Proceed
<1>4. QED
  BY <1>2, <1>3

LEMMA OwnershipStep == Inv /\ [Next]_vars => Ownership'
<1> SUFFICES ASSUME Inv, [Next]_vars PROVE Ownership'
  OBVIOUS
<1>1. pc \in [Thread -> Pc]
  BY DEF Inv, TypeOK
<1>2. CASE UNCHANGED vars
  BY <1>2, PlaceKeeps DEF vars
<1>3. CASE Next
  <2>1. PICK t \in Thread : Begin(t) \/ SpuriousWakeup(t) \/ Proceed(t)
    BY <1>3 DEF Next
  <2>2. CASE Begin(t)
    <3>1. CASE GetConnector(t)
      BY <2>2, <3>1, GetKeeps DEF Begin
    <3>2. CASE ~GetConnector(t)
      BY <1>1, <2>2, <3>2, PlaceKeeps DEF Begin
    <3>3. QED
      BY <3>1, <3>2
  <2>3. CASE SpuriousWakeup(t)
    BY <1>1, <2>3, PlaceKeeps DEF SpuriousWakeup
  <2>4. CASE Sleep(t)
    BY <1>1, <2>4, PlaceKeeps DEF Sleep
  <2>5. CASE Rescan(t)
    <3>1. CASE GetConnector(t)
      BY <2>5, <3>1, GetKeeps DEF Rescan
    <3>2. CASE ~GetConnector(t)
      BY <1>1, <2>5, <3>2, PlaceKeeps DEF Rescan, GetNothing
    <3>3. QED
      BY <3>1, <3>2
  <2>6. CASE TimeOut(t)
    BY <1>1, <2>6, PlaceKeeps DEF TimeOut, GetNothing
  <2>7. CASE QueryFails(t)
    BY <2>7, FailureKeeps
  <2>8. CASE QuerySucceeds(t)
    BY <1>1, <2>8, PlaceKeeps DEF QuerySucceeds
  <2>9. CASE Execute(t)
    BY <2>9, ReleaseKeeps DEF Execute
  <2>10. CASE FreeResult(t)
    BY <2>10, ReleaseKeeps DEF FreeResult
  <2>11. CASE Signal(t)
    BY <1>1, <2>11, PlaceKeeps DEF Signal, Waiting
  <2>12. QED
    BY <2>1, <2>2, <2>3, <2>4, <2>5, <2>6, <2>7, <2>8, <2>9, <2>10, <2>11 DEF Proceed
<1>4. QED
  BY <1>2, <1>3

\* The variables of the connector pool keep their types.
THEOREM BmysqlTypeCorrect == Spec => []TypeOK
<1>1. Inv /\ [Next]_vars => Inv'
  BY TypeStep, OwnershipStep DEF Inv
<1>2. Inv => TypeOK
  BY DEF Inv
<1>3. QED
  BY <1>1, <1>2, InvInit, PTL DEF Spec

\* No connector is used by two threads at once, and those marked as used are
\* the held ones and the ones failed queries left behind.
THEOREM OwnershipCorrect == Spec => []Ownership
<1>1. Inv /\ [Next]_vars => Inv'
  BY TypeStep, OwnershipStep DEF Inv
<1>2. Inv => Ownership
  BY DEF Inv
<1>3. QED
  BY <1>1, <1>2, InvInit, PTL DEF Spec
=============================================================================
