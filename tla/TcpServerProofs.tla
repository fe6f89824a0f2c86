-------------------------- MODULE TcpServerProofs ---------------------------
(* Proofs about TcpServer, for any connections, frame sizes and rounds. *)
EXTENDS TcpServer, FiniteSetTheorems, TLAPS

Accepted == {c \in Conns : conn[c] = "accepted"}

(* active_ counts the live threads, *)
Counted == IsFiniteSet(Alive) /\ active = Cardinality(Alive)

(* serve() holds one accepted connection exactly between accept() and spawn, *)
OneAccepted ==
    IF pc = "spawn" THEN \E c \in Conns : Accepted = {c} ELSE Accepted = {}

(* a connection whose handler has not returned has frames left to answer, *)
RoundsLeft == \A c \in Conns : conn[c] \notin {"handled", "ended"} => round[c] < Rounds

(* serve() sleeps only while a thread is left to wake it, and has returned    *)
(* only after the last one.                                                   *)
SleeperHasWaker == pc = "asleep" => active # 0
ReturnedIdle == pc = "returned" => active = 0

Inv ==
    /\ TypeOK /\ Counted /\ OneAccepted /\ RoundsLeft /\ SleeperHasWaker /\ ReturnedIdle

-----------------------------------------------------------------------------
(* The count is zero exactly when no thread is left. *)
LEMMA IdleMeansNone ==
  ASSUME Counted PROVE active = 0 <=> Alive = {}
BY FS_EmptySet DEF Counted

(* A step that starts no thread and ends none keeps the count right. *)
LEMMA SameThreads ==
  ASSUME Counted, Alive' = Alive, active' = active PROVE Counted'
BY DEF Counted

(* Every step keeps the types. *)
LEMMA TypeStep ==
  ASSUME Inv, [Next]_vars PROVE TypeOK'
<1> USE FrameAssumption DEF Inv, TypeOK
<1>1. CASE UNCHANGED vars
  BY <1>1 DEF vars
<1>2. CASE serve
  <2>1. CASE checkStopping \/ poll \/ acceptError \/ waitIdle
    BY <2>1 DEF checkStopping, poll, acceptError, waitIdle
  <2>2. CASE acceptOne
    <3>1. conn' \in [Conns -> {"unborn", "queued", "refused", "accepted", "aborted", "header",
                               "body", "handled", "ended"}]
      BY <2>2 DEF acceptOne, Queued
    <3> QED
      BY <2>2, <3>1 DEF acceptOne
  <2>3. CASE spawn
    BY <2>3 DEF spawn
  <2>4. CASE closeListener
    <3>1. listening' \in BOOLEAN
      BY <2>4, Zenon DEF closeListener
    <3> QED
      BY <2>4, <3>1 DEF closeListener
  <2> QED
    BY <1>2, <2>1, <2>2, <2>3, <2>4 DEF serve
<1>3. CASE stop
  BY <1>3 DEF stop
<1>4. ASSUME NEW c \in Conns, connect(c) \/ recv(c) \/ recvFails(c) \/ frameLength(c)
      PROVE  TypeOK'
  BY <1>4 DEF connect, recv, recvFails, frameLength, Receiving
<1>5. ASSUME NEW c \in Conns, answer(c)
      PROVE  TypeOK'
  BY <1>5 DEF answer, RoundsLeft
<1>6. ASSUME NEW c \in Conns, retire(c)
      PROVE  TypeOK'
  <2>1. c \in Alive
    BY <1>6 DEF retire, Alive
  <2>2. active # 0
    BY <2>1, IdleMeansNone
  <2> QED
    BY <1>6, <2>2 DEF retire
<1> QED
  BY <1>1, <1>2, <1>3, <1>4, <1>5, <1>6 DEF Next, handle

(* Every step keeps active_ equal to the number of live threads. *)
LEMMA CountedStep ==
  ASSUME Inv, [Next]_vars PROVE Counted'
<1> USE DEF Inv
<1>1. CASE UNCHANGED vars \/ stop \/ checkStopping \/ poll \/ acceptError \/ waitIdle
  BY <1>1, SameThreads DEF vars, stop, checkStopping, poll, acceptError, waitIdle, Alive
<1>2. CASE acceptOne \/ closeListener
  BY <1>2, SameThreads DEF acceptOne, closeListener, Alive, Queued, TypeOK
<1>3. CASE spawn
  <2>1. PICK c \in Conns : Accepted = {c}
    BY <1>3 DEF spawn, OneAccepted
  <2>2. Alive' = Alive \cup {c} /\ c \notin Alive
    BY <1>3, <2>1 DEF spawn, Alive, Accepted, TypeOK
  <2> QED
    BY <1>3, <2>2, FS_AddElement DEF spawn, Counted
<1>4. ASSUME NEW c \in Conns, connect(c) \/ recv(c) \/ recvFails(c) \/ frameLength(c) \/ answer(c)
      PROVE  Counted'
  <2>1. Alive' = Alive
    BY <1>4 DEF connect, recv, recvFails, frameLength, answer, Receiving, Alive, TypeOK
  <2> QED
    BY <1>4, <2>1, SameThreads DEF connect, recv, recvFails, frameLength, answer
<1>5. ASSUME NEW c \in Conns, retire(c)
      PROVE  Counted'
  <2>1. Alive' = Alive \ {c} /\ c \in Alive
    BY <1>5 DEF retire, Alive, TypeOK
  <2> QED
    BY <1>5, <2>1, FS_RemoveElement DEF retire, Counted
<1> QED
  BY <1>1, <1>2, <1>3, <1>4, <1>5 DEF Next, serve, handle

(* Every step keeps at most one connection between accept() and its thread. *)
LEMMA AcceptedStep ==
  ASSUME Inv, [Next]_vars PROVE OneAccepted'
<1> USE DEF Inv, OneAccepted, Accepted
<1>1. CASE UNCHANGED vars \/ stop \/ checkStopping \/ poll \/ acceptError \/ waitIdle
  BY <1>1 DEF vars, stop, checkStopping, poll, acceptError, waitIdle
<1>2. CASE acceptOne
  <2>1. PICK c \in Queued :
           \/ conn' = [conn EXCEPT ![c] = "accepted"] /\ pc' = "spawn"
           \/ conn' = [conn EXCEPT ![c] = "aborted"] /\ pc' = "loop"
           \/ UNCHANGED conn /\ pc' = "loop"
    BY <1>2 DEF acceptOne
  <2>2. pc = "accept" /\ Accepted = {} /\ c \in Conns
    BY <1>2 DEF acceptOne, Queued
  <2>3. CASE conn' = [conn EXCEPT ![c] = "accepted"] /\ pc' = "spawn"
    <3>1. Accepted' = {c}
      BY <2>2, <2>3 DEF TypeOK
    <3> QED
      BY <2>2, <2>3, <3>1
  <2>4. CASE pc' = "loop" /\ (conn' = [conn EXCEPT ![c] = "aborted"] \/ UNCHANGED conn)
    BY <2>2, <2>4 DEF TypeOK
  <2> QED
    BY <2>1, <2>3, <2>4
<1>3. CASE spawn \/ closeListener
  BY <1>3 DEF spawn, closeListener, TypeOK
<1>4. ASSUME NEW c \in Conns,
             \/ connect(c) \/ recv(c) \/ recvFails(c)
             \/ frameLength(c) \/ answer(c) \/ retire(c)
      PROVE  OneAccepted'
  <2>1. Accepted' = Accepted
    BY <1>4 DEF connect, recv, recvFails, frameLength, answer, retire, Receiving, TypeOK
  <2>2. pc' = "spawn" <=> pc = "spawn"
    BY <1>4 DEF connect, recv, recvFails, frameLength, answer, retire
  <2> QED
    BY <2>1, <2>2
<1> QED
  BY <1>1, <1>2, <1>3, <1>4 DEF Next, serve, handle

(* Every step keeps the frames a handler still answers within Rounds. *)
LEMMA RoundsStep ==
  ASSUME Inv, [Next]_vars PROVE RoundsLeft'
<1> USE DEF Inv, RoundsLeft
<1>1. CASE UNCHANGED vars \/ stop \/ checkStopping \/ poll \/ acceptError \/ waitIdle
  BY <1>1 DEF vars, stop, checkStopping, poll, acceptError, waitIdle
<1>2. CASE acceptOne \/ spawn \/ closeListener
  BY <1>2 DEF acceptOne, spawn, closeListener, Queued, TypeOK
<1>3. ASSUME NEW c \in Conns,
             \/ connect(c) \/ recv(c) \/ recvFails(c)
             \/ frameLength(c) \/ retire(c)
      PROVE  RoundsLeft'
  BY <1>3 DEF connect, recv, recvFails, frameLength, retire, Receiving, TypeOK
<1>4. ASSUME NEW c \in Conns, answer(c)
      PROVE  RoundsLeft'
  BY <1>4 DEF answer, TypeOK
<1> QED
  BY <1>1, <1>2, <1>3, <1>4 DEF Next, serve, handle

(* Every step keeps serve() from sleeping for ever and from returning early. *)
LEMMA WaitStep ==
  ASSUME Inv, [Next]_vars PROVE SleeperHasWaker' /\ ReturnedIdle'
<1> USE DEF Inv, SleeperHasWaker, ReturnedIdle
<1>1. CASE UNCHANGED vars \/ stop
  BY <1>1 DEF vars, stop
<1>2. CASE serve
  BY <1>2 DEF serve, checkStopping, poll, acceptOne, acceptError, spawn, closeListener, waitIdle
<1>3. ASSUME NEW c \in Conns, connect(c) \/ recv(c) \/ recvFails(c) \/ frameLength(c) \/ answer(c)
      PROVE  SleeperHasWaker' /\ ReturnedIdle'
  BY <1>3 DEF connect, recv, recvFails, frameLength, answer
<1>4. ASSUME NEW c \in Conns, retire(c)
      PROVE  SleeperHasWaker' /\ ReturnedIdle'
  <2>1. c \in Alive
    BY <1>4 DEF retire, Alive
  <2>2. pc # "returned"
    BY <2>1, IdleMeansNone
  <2> QED
    BY <1>4, <2>2 DEF retire
<1> QED
  BY <1>1, <1>2, <1>3, <1>4 DEF Next, handle

(* active_ counts the live threads at every moment, serve() never sleeps with *)
(* nobody left to notify it, and the inductive invariant holds throughout.    *)
THEOREM CountsThreads == Spec => []Inv
<1>1. Init => Inv
  <2> SUFFICES ASSUME Init PROVE Inv
    OBVIOUS
  <2>1. Alive = {} /\ Accepted = {}
    BY DEF Init, Alive, Accepted
  <2>2. Counted
    BY <2>1, FS_EmptySet DEF Init, Counted
  <2>3. TypeOK
    <3>1. stopping \in BOOLEAN /\ listening \in BOOLEAN
      BY Zenon DEF Init
    <3>2. /\ need \in [Conns -> Nat] /\ round \in [Conns -> 0 .. Rounds] /\ active \in Nat
          /\ conn \in [Conns -> {"unborn"}] /\ pc \in {"loop"}
      BY FrameAssumption DEF Init
    <3> QED
      BY <3>1, <3>2 DEF TypeOK
  <2>4. RoundsLeft
    BY FrameAssumption DEF Init, RoundsLeft
  <2> QED
    BY <2>1, <2>2, <2>3, <2>4
    DEF Init, Inv, OneAccepted, SleeperHasWaker, ReturnedIdle
<1>2. Inv /\ [Next]_vars => Inv'
  BY TypeStep, CountedStep, AcceptedStep, RoundsStep, WaitStep DEF Inv
<1> QED
  BY <1>1, <1>2, PTL DEF Spec

(* The loop's state keeps its types: active_ never falls below zero and no    *)
(* handler answers more frames than Rounds.                                   *)
THEOREM TypeCorrect == Spec => []TypeOK
<1>1. Inv => TypeOK
  BY DEF Inv
<1> QED
  BY <1>1, CountsThreads, PTL

(* serve() returns only after the last handler thread is done with the        *)
(* server's and the application's objects, however many connections there are *)
(* and whatever their clients send.                                           *)
THEOREM ReturnsLast == Spec => []NoThreadOutlivesServe
<1>1. Inv => NoThreadOutlivesServe
  BY IdleMeansNone DEF Inv, ReturnedIdle, NoThreadOutlivesServe
<1> QED
  BY <1>1, CountsThreads, PTL
=============================================================================
