----------------------- MODULE DatabaseManagerProofs -----------------------
(***************************************************************************)
(* Theorems about DatabaseManager for every capacity of its queues and any *)
(* number of loggers, snapshots and lines.  Whatever the producers of      *)
(* db_queue_ do: types, and the safety of the destructor.  As long as no   *)
(* calls of enqueue overlap: the order of the lines at the socket, and     *)
(* that the two threads and their queues are the relay that module Relay   *)
(* describes; there the theorems about the ring itself are used.           *)
(***************************************************************************)
EXTENDS DatabaseManager, LockFreeQueueProofs, FiniteInduction

\* The flag is set exactly when the destructor has begun.
FlagFollowsDestructor == pc.owner # "killed" => (stop_threads_ <=> pc.owner # "running")

\* A thread that is about to look at its queue for the last time, or has left its
\* loop, has seen the flag.
ThreadsSawFlag == \A t \in Threads : pc[t] \in {"ask_empty", "done"} => stop_threads_

\* The orderbook thread leaves nothing behind: it has lines in its hands only while
\* it sends them, and its queue is empty when it returns.
OrderbookThreadTidy ==
  /\ pc.orderbook \notin {"send", "killed"} => db_updates = <<>>
  /\ pc.orderbook = "done" => orderbook_queue_ = <<>>

\* The destructor has joined the threads in their order.
ThreadsJoined ==
  /\ pc.owner \in {"join_orderbook", "destroyed"} => pc.db = "done"
  /\ pc.owner = "destroyed" => pc.orderbook = "done"

\* A thread is inside a call of db_queue_ only where the code makes that call, and with
\* the line it is to be made for.
EnqueuesMatch ==
  /\ pc.orderbook \notin {"send", "killed"} => ppc["orderbook"] = "idle"
  /\ pc.orderbook = "send" /\ ppc["orderbook"] # "idle" =>
       db_updates # <<>> /\ item["orderbook"] = Head(db_updates)
  /\ \A p \in Loggers : ppc[p] # "idle" => ~IsBookLine(item[p])

DequeuesMatch ==
  /\ pc.db \notin {"ask_empty", "dequeue", "killed"} => cpc = "idle"
  /\ pc.db = "ask_empty" => cpc \in {"idle", "compare"}
  /\ pc.db = "dequeue" => cpc # "compare"

Labels ==
  {"loop", "ask_empty", "dequeue", "connect", "send", "done",
   "running", "join_db", "join_orderbook", "destroyed", "killed"}

Labelled == pc \in [Threads \cup {"owner"} -> Labels]

ManagerTypeInv == ManagerTypeOK /\ TypeInv /\ Labelled

ManagerIInv ==
  /\ ManagerTypeInv
  /\ FlagFollowsDestructor
  /\ ThreadsSawFlag
  /\ OrderbookThreadTidy
  /\ ThreadsJoined
  /\ EnqueuesMatch
  /\ DequeuesMatch
  /\ SendsOnOpenSocket

-----------------------------------------------------------------------------
(* The operators on queues and lines. *)

\* enqueue keeps the type of the queue and never goes beyond its capacity.
LEMMA EnqueuedFits ==
  ASSUME NEW S, NEW queue \in Seq(S), NEW x \in S, Len(queue) <= OrderbookCapacity
  PROVE  /\ Enqueued(queue, x) \in Seq(S)
         /\ Len(Enqueued(queue, x)) <= OrderbookCapacity
  BY DatabaseAssumption DEF Enqueued

\* dequeue takes the head.
LEMMA DequeuedFits ==
  ASSUME NEW S, NEW queue \in Seq(S), queue # <<>>
  PROVE  /\ Head(queue) \in S
         /\ Tail(queue) \in Seq(S)
         /\ Len(Tail(queue)) < Len(queue)
  BY HeadTailProperties, LenProperties

\* A snapshot makes lines.
LEMMA LinesOfType ==
  ASSUME NEW s \in Snapshots
  PROVE  LinesOf(s) \in Seq(Lines)
<1>1. s.levels \in Levels /\ s.levels \in Nat /\ s.number \in 0 .. MaxSnapshots - 1
  BY DatabaseAssumption DEF Snapshots
<1>2. \A i \in 1 .. s.levels : BookLine(s.number, i) \in Lines
  BY <1>1 DEF Lines, BookLine
<1>3. LinesOf(s) \in [1 .. s.levels -> Lines]
  BY <1>2 DEF LinesOf
<1> QED BY <1>1, <1>3, SeqDef

\* The next snapshot and the next result are of the types.
LEMMA NextNumbers ==
  ASSUME ManagerTypeOK
  PROVE  /\ snapshots < MaxSnapshots =>
              /\ \A n \in Levels : [number |-> snapshots, levels |-> n] \in Snapshots
              /\ snapshots + 1 \in 0 .. MaxSnapshots
         /\ results < MaxResults =>
              /\ LogLine(results) \in Lines
              /\ results + 1 \in 0 .. MaxResults
<1>1. /\ MaxSnapshots \in Nat /\ MaxResults \in Nat
      /\ snapshots \in 0 .. MaxSnapshots /\ results \in 0 .. MaxResults
  BY DatabaseAssumption DEF ManagerTypeOK
<1>2. snapshots < MaxSnapshots => snapshots \in 0 .. MaxSnapshots - 1 /\ snapshots + 1 \in 0 .. MaxSnapshots
  BY <1>1
<1>3. results < MaxResults => results \in 0 .. MaxResults - 1 /\ results + 1 \in 0 .. MaxResults
  BY <1>1
<1>4. \A n \in Levels : snapshots < MaxSnapshots => [number |-> snapshots, levels |-> n] \in Snapshots
  BY <1>2 DEF Snapshots
<1>5. results < MaxResults => LogLine(results) \in Lines
  BY <1>3 DEF Lines, LogLine
<1> QED BY <1>2, <1>3, <1>4, <1>5

-----------------------------------------------------------------------------
(* The calls of db_queue_. *)

\* A step inside enqueue moves the one producer that takes it.
LEMMA EnqueueFrame ==
  ASSUME TypeInv, NEW p \in Producers
  PROVE  /\ ProducerSteps(p) =>
              /\ ppc[p] # "idle" /\ UNCHANGED <<item, consumer>>
              /\ \A q \in Producers \ {p} : ppc'[q] = ppc[q]
         /\ \A x : Enqueue(p, x) =>
              /\ ppc[p] = "idle" /\ ppc'[p] = "check_full" /\ UNCHANGED <<buffer, consumer>>
              /\ item'[p] = x
              /\ \A q \in Producers \ {p} : ppc'[q] = ppc[q] /\ item'[q] = item[q]
<1> USE DEF TypeInv, TypeOK, GoP
<1>1. ProducerSteps(p) =>
        /\ ppc[p] # "idle" /\ UNCHANGED <<item, consumer>>
        /\ \A q \in Producers \ {p} : ppc'[q] = ppc[q]
  BY DEF ProducerSteps, RefuseFull, SeeRoom, Construct, MarkWritten, AdvanceTail, buffer
<1>2. ASSUME NEW x, Enqueue(p, x)
      PROVE  /\ ppc[p] = "idle" /\ ppc'[p] = "check_full" /\ UNCHANGED <<buffer, consumer>>
             /\ item'[p] = x
             /\ \A q \in Producers \ {p} : ppc'[q] = ppc[q] /\ item'[q] = item[q]
  BY <1>2 DEF Enqueue
<1> QED BY <1>1, <1>2

\* A step inside dequeue or empty() moves no producer.
LEMMA DequeueFrame ==
  /\ ConsumerSteps \/ Dequeue \/ Empty => UNCHANGED producer
  /\ ConsumerSteps => cpc # "idle" /\ cpc' # "compare"
  /\ ConsumerSteps /\ cpc' = "idle" /\ cpc \notin {"advance", "compare"} => got' = None
  /\ ReturnCompared => cpc' = "idle"
  /\ Dequeue => cpc = "idle" /\ cpc' = "check_empty"
  /\ Empty => cpc = "idle" /\ cpc' = "compare"
BY DEF ConsumerSteps, ReturnEmpty, SeeItem, ReturnUnwritten, SeeWritten, MoveOut, DestroyItem,
       ClearWritten, AdvanceHead, ReturnCompared, Dequeue, Empty, GoC, producer

\* Every step of the program is one of the ring's, or leaves the ring alone.
LEMMA RingStep == ManagerIInv /\ [ManagerNext]_managerVars => [Next]_vars
<1> SUFFICES ASSUME ManagerIInv, [ManagerNext]_managerVars PROVE [Next]_vars
  OBVIOUS
<1>0. Loggers \subseteq Producers /\ "orderbook" \in Producers /\ Items = Lines /\ ManagerTypeOK
  BY DatabaseAssumption DEF ManagerIInv, ManagerTypeInv
<1>1. CASE UNCHANGED managerVars
  BY <1>1 DEF managerVars
<1>2. CASE Callers
  <2>1. CASE \E p \in Loggers : SendLineProtocolTcp(p)
    BY <1>0, <2>1, NextNumbers DEF SendLineProtocolTcp, Next
  <2> QED BY <1>2, <2>1 DEF Callers, UpdateLimitOrderbook, StopThreads
<1>3. CASE LoggersGoOn
  BY <1>0, <1>3 DEF LoggersGoOn, LoggerEnqueues, Next
<1>4. CASE OrderbookThread
  <2>1. CASE EnqueueLine
    <3>1. Head(db_updates) \in Items
      BY <1>0, <2>1, DequeuedFits DEF EnqueueLine, ManagerTypeOK
    <3> QED BY <1>0, <2>1, <3>1 DEF EnqueueLine, Next
  <2>2. CASE LineEnqueues
    BY <1>0, <2>2 DEF LineEnqueues, Next
  <2> QED BY <1>4, <2>1, <2>2 DEF OrderbookThread, OrderbookLoops, DequeueSnapshot
<1>5. CASE DbLoops
  BY <1>5, DequeueFrame
  DEF DbLoops, ReadFlag, AskEmpty, HearEmpty, DequeueLine, LineDequeues, ConsumerSteps, Next
<1>6. CASE Joins \/ ServerCalls \/ Killed
  BY <1>6 DEF Joins, JoinDb, JoinOrderbook, ServerCalls, ConnectToServer, ConnectionFails, Send,
              SendFails, Killed
<1> QED BY <1>1, <1>2, <1>3, <1>4, <1>5, <1>6 DEF ManagerNext
-----------------------------------------------------------------------------
(* The inductive invariant.                                                *)

LEMMA InitManager == ManagerInit => ManagerIInv
<1> SUFFICES ASSUME ManagerInit
             PROVE  ManagerIInv
  OBVIOUS
<1>0. /\ Labelled /\ pc.owner = "running" /\ pc.orderbook = "loop" /\ pc.db = "loop"
      /\ TypeInv
  BY InitTypeInv DEF ManagerInit, Labelled, Labels, Threads
<1>1. \A S : <<>> \in Seq(S) /\ Len(<<>>) = 0
  BY EmptySeq
<1>2. 0 \in 0 .. MaxSnapshots /\ 0 \in 0 .. MaxResults
  BY DatabaseAssumption
<1>3. orderbook_queue_ \in Seq(Snapshots) /\ Len(orderbook_queue_) <= OrderbookCapacity
  BY <1>1, DatabaseAssumption DEF ManagerInit
<1>4. db_updates \in Seq(Lines) /\ line \in Seq(MaybeLines) /\ sent \in Seq(MaybeLines)
  BY <1>1 DEF ManagerInit
<1>5. Len(line) = IF pc.db \in {"connect", "send"} THEN 1 ELSE 0
  BY <1>0, <1>1 DEF ManagerInit
<1>6. ManagerTypeInv
  <2>1. TypeOK /\ snapshots = 0 /\ results = 0 /\ stop_threads_ = FALSE /\ sock_ = "closed"
    BY <1>0 DEF ManagerInit, TypeInv
  <2> QED BY <1>0, <1>2, <1>3, <1>4, <1>5, <2>1 DEF ManagerTypeInv, ManagerTypeOK
<1>7. EnqueuesMatch /\ DequeuesMatch
  <2>1. Loggers \subseteq Producers /\ "orderbook" \in Producers
    BY DatabaseAssumption
  <2>2. (\A p \in Producers : ppc[p] = "idle") /\ cpc = "idle"
    BY DEF ManagerInit, Init
  <2> QED BY <1>0, <2>1, <2>2 DEF EnqueuesMatch, DequeuesMatch
<1> QED
  BY <1>0, <1>6, <1>7 DEF ManagerInit, ManagerIInv, FlagFollowsDestructor, ThreadsSawFlag,
                          OrderbookThreadTidy, ThreadsJoined, SendsOnOpenSocket, Threads

\* The types of the ring follow from its own theorems.
LEMMA RingTypes == ManagerIInv /\ [ManagerNext]_managerVars => TypeInv' /\ TypeOK'
  BY RingStep, NextTypeInv DEF ManagerIInv, ManagerTypeInv, TypeInv

LEMMA CallersKeep ==
  ASSUME ManagerIInv, Callers
  PROVE  ManagerIInv'
<1>0. TypeInv' /\ TypeOK'
  BY RingTypes DEF ManagerNext
<1>1. ManagerTypeOK /\ Labelled /\ Loggers \subseteq Producers /\ "orderbook" \notin Loggers
      /\ "orderbook" \in Producers /\ TypeInv
  BY DatabaseAssumption DEF ManagerIInv, ManagerTypeInv
<1> USE DEF ManagerIInv, ManagerTypeInv, FlagFollowsDestructor, ThreadsSawFlag, Threads,
            OrderbookThreadTidy, ThreadsJoined, SendsOnOpenSocket
<1>2. CASE UpdateLimitOrderbook
  <2> USE <1>2 DEF UpdateLimitOrderbook
  <2>1. PICK n \in Levels :
          orderbook_queue_' = Enqueued(orderbook_queue_, [number |-> snapshots, levels |-> n])
    OBVIOUS
  <2>2. [number |-> snapshots, levels |-> n] \in Snapshots /\ snapshots' \in 0 .. MaxSnapshots
    BY <1>1, NextNumbers
  <2>3. orderbook_queue_' \in Seq(Snapshots) /\ Len(orderbook_queue_') <= OrderbookCapacity
    BY <1>1, <2>1, <2>2, EnqueuedFits DEF ManagerTypeOK
  <2>4. ManagerTypeOK' /\ Labelled'
    BY <1>0, <1>1, <2>2, <2>3 DEF ManagerTypeOK, Labelled
  <2>5. EnqueuesMatch' /\ DequeuesMatch'
    BY DEF EnqueuesMatch, DequeuesMatch, vars, producer, consumer
  <2> QED BY <1>0, <2>4, <2>5
<1>3. ASSUME NEW p \in Loggers, SendLineProtocolTcp(p) PROVE ManagerIInv'
  <2> USE <1>3 DEF SendLineProtocolTcp
  <2>1. results' \in 0 .. MaxResults
    BY <1>1, NextNumbers
  <2>2. ManagerTypeOK' /\ Labelled'
    BY <1>0, <1>1, <2>1 DEF ManagerTypeOK, Labelled
  <2>3. /\ ppc[p] = "idle" /\ cpc' = cpc /\ item'[p] = LogLine(results)
        /\ \A q \in Producers \ {p} : ppc'[q] = ppc[q] /\ item'[q] = item[q]
    BY <1>1, EnqueueFrame DEF consumer
  <2>4. ~IsBookLine(LogLine(results))
    BY DEF IsBookLine, LogLine
  <2>5. EnqueuesMatch' /\ DequeuesMatch'
    BY <1>1, <2>3, <2>4 DEF EnqueuesMatch, DequeuesMatch
  <2> QED BY <1>0, <2>2, <2>5
<1>4. CASE StopThreads
  <2> USE <1>4 DEF StopThreads, GoTo, caller
  <2>1. ManagerTypeOK' /\ Labelled'
    BY <1>0, <1>1 DEF ManagerTypeOK, Labelled, Labels
  <2>2. pc'.orderbook = pc.orderbook /\ pc'.db = pc.db /\ pc'.owner = "join_db"
    BY <1>1 DEF Labelled
  <2>3. EnqueuesMatch' /\ DequeuesMatch'
    BY <2>2 DEF EnqueuesMatch, DequeuesMatch, vars, producer, consumer
  <2> QED BY <1>0, <2>1, <2>2, <2>3
<1> QED BY <1>2, <1>3, <1>4 DEF Callers

LEMMA LoggersKeep ==
  ASSUME ManagerIInv, LoggersGoOn
  PROVE  ManagerIInv'
<1>0. TypeInv' /\ TypeOK'
  BY RingTypes DEF ManagerNext
<1>1. /\ ManagerTypeOK /\ Labelled /\ TypeInv
      /\ Loggers \subseteq Producers /\ "orderbook" \in Producers /\ "orderbook" \notin Loggers
  BY DatabaseAssumption DEF ManagerIInv, ManagerTypeInv
<1>2. PICK p \in Loggers : LoggerEnqueues(p)
  BY DEF LoggersGoOn
<1> USE <1>2 DEF LoggerEnqueues, manager, caller
<1>3. /\ ppc[p] # "idle" /\ UNCHANGED <<item, cpc>>
      /\ \A q \in Producers \ {p} : ppc'[q] = ppc[q]
  BY <1>1, EnqueueFrame DEF consumer
<1>4. ManagerTypeOK' /\ Labelled'
  BY <1>0, <1>1 DEF ManagerTypeOK, Labelled
<1>5. EnqueuesMatch' /\ DequeuesMatch'
  BY <1>1, <1>3 DEF EnqueuesMatch, DequeuesMatch, ManagerIInv
<1> QED
  BY <1>0, <1>4, <1>5 DEF ManagerIInv, ManagerTypeInv, FlagFollowsDestructor, ThreadsSawFlag,
     Threads, OrderbookThreadTidy, ThreadsJoined, SendsOnOpenSocket

LEMMA JoinsKeep ==
  ASSUME ManagerIInv, Joins
  PROVE  ManagerIInv'
<1>0. TypeInv' /\ TypeOK'
  BY RingTypes DEF ManagerNext
<1>1. ManagerTypeOK /\ Labelled
  BY DEF ManagerIInv, ManagerTypeInv
<1> USE DEF ManagerIInv, ManagerTypeInv, FlagFollowsDestructor, ThreadsSawFlag, Threads,
            OrderbookThreadTidy, ThreadsJoined, SendsOnOpenSocket
<1>2. CASE JoinDb
  <2> USE <1>2 DEF JoinDb, GoTo, caller
  <2>1. ManagerTypeOK' /\ Labelled'
    BY <1>0, <1>1 DEF ManagerTypeOK, Labelled, Labels
  <2>2. pc'.orderbook = pc.orderbook /\ pc'.db = pc.db /\ pc'.owner = "join_orderbook"
    BY <1>1 DEF Labelled
  <2>3. EnqueuesMatch' /\ DequeuesMatch'
    BY <2>2 DEF EnqueuesMatch, DequeuesMatch, vars, producer, consumer
  <2> QED BY <1>0, <2>1, <2>2, <2>3
<1>3. CASE JoinOrderbook
  <2> USE <1>3 DEF JoinOrderbook, GoTo, caller
  <2>1. ManagerTypeOK' /\ Labelled'
    BY <1>0, <1>1 DEF ManagerTypeOK, Labelled, Labels
  <2>2. pc'.orderbook = pc.orderbook /\ pc'.db = pc.db /\ pc'.owner = "destroyed"
    BY <1>1 DEF Labelled
  <2>3. EnqueuesMatch' /\ DequeuesMatch'
    BY <2>2 DEF EnqueuesMatch, DequeuesMatch, vars, producer, consumer
  <2> QED BY <1>0, <2>1, <2>2, <2>3
<1> QED BY <1>2, <1>3 DEF Joins

LEMMA OrderbookThreadKeeps ==
  ASSUME ManagerIInv, OrderbookThread
  PROVE  ManagerIInv'
<1>0. TypeInv' /\ TypeOK'
  BY RingTypes DEF ManagerNext
<1>1. /\ ManagerTypeOK /\ Labelled /\ TypeInv
      /\ Loggers \subseteq Producers /\ "orderbook" \in Producers /\ "orderbook" \notin Loggers
  BY DatabaseAssumption DEF ManagerIInv, ManagerTypeInv
<1> USE DEF ManagerIInv, ManagerTypeInv, FlagFollowsDestructor, ThreadsSawFlag, Threads,
            OrderbookThreadTidy, ThreadsJoined, SendsOnOpenSocket
<1>2. CASE OrderbookLoops
  <2> USE <1>2 DEF OrderbookLoops, TestLoop, FindNothing, SnapshotEnqueued, GoTo, caller
  <2>1. ManagerTypeOK' /\ Labelled'
    BY <1>0, <1>1 DEF ManagerTypeOK, Labelled, Labels
  <2>2. /\ pc'.owner = pc.owner /\ pc'.db = pc.db
        /\ \/ pc'.orderbook \in {"loop", "dequeue"} /\ db_updates = <<>>
           \/ pc'.orderbook = "ask_empty" /\ stop_threads_ /\ db_updates = <<>>
           \/ /\ pc'.orderbook = "done" /\ stop_threads_ /\ db_updates = <<>>
              /\ orderbook_queue_ = <<>>
    BY <1>1 DEF Labelled
  <2>3. ppc'["orderbook"] = "idle"
    <3>1. CASE SnapshotEnqueued
      BY <3>1 DEF EnqueuesMatch, vars, producer
    <3>2. CASE TestLoop \/ FindNothing
      BY <3>2 DEF EnqueuesMatch, vars, producer
    <3> QED BY <3>1, <3>2 DEF OrderbookLoops
  <2>4. EnqueuesMatch' /\ DequeuesMatch'
    BY <2>2, <2>3 DEF EnqueuesMatch, DequeuesMatch, vars, producer, consumer
  <2> QED BY <1>0, <2>1, <2>2, <2>4
<1>3. CASE DequeueSnapshot
  <2> USE <1>3 DEF DequeueSnapshot, GoTo, caller
  <2>1. orderbook_queue_' \in Seq(Snapshots) /\ Len(orderbook_queue_') <= OrderbookCapacity
    BY <1>1, DequeuedFits, LenProperties, DatabaseAssumption DEF ManagerTypeOK
  <2>2. db_updates' \in Seq(Lines)
    BY <1>1, DequeuedFits, LinesOfType DEF ManagerTypeOK
  <2>3. ManagerTypeOK' /\ Labelled'
    BY <1>0, <1>1, <2>1, <2>2 DEF ManagerTypeOK, Labelled, Labels
  <2>4. pc'.owner = pc.owner /\ pc'.db = pc.db /\ pc'.orderbook = "send"
    BY <1>1 DEF Labelled
  <2>5. EnqueuesMatch' /\ DequeuesMatch'
    BY <2>4 DEF EnqueuesMatch, DequeuesMatch, vars, producer, consumer
  <2> QED BY <1>0, <2>3, <2>4, <2>5
<1>4. CASE EnqueueLine
  <2> USE <1>4 DEF EnqueueLine, manager, caller
  <2>1. ManagerTypeOK' /\ Labelled'
    BY <1>0, <1>1 DEF ManagerTypeOK, Labelled
  <2>2. /\ cpc' = cpc /\ item'["orderbook"] = Head(db_updates)
        /\ \A q \in Producers \ {"orderbook"} : ppc'[q] = ppc[q] /\ item'[q] = item[q]
    BY <1>1, EnqueueFrame DEF consumer
  <2>3. EnqueuesMatch' /\ DequeuesMatch'
    BY <1>1, <2>2 DEF EnqueuesMatch, DequeuesMatch
  <2> QED BY <1>0, <2>1, <2>3
<1>5. CASE LineEnqueues
  <2> USE <1>5 DEF LineEnqueues, caller
  <2>1. /\ ppc["orderbook"] # "idle" /\ UNCHANGED <<item, cpc>>
        /\ \A q \in Producers \ {"orderbook"} : ppc'[q] = ppc[q]
    BY <1>1, EnqueueFrame DEF consumer
  <2>2. db_updates # <<>> /\ item["orderbook"] = Head(db_updates)
    BY <2>1 DEF EnqueuesMatch
  <2>3. db_updates' \in Seq(Lines)
    BY <1>1, <2>2, DequeuedFits DEF ManagerTypeOK
  <2>4. ManagerTypeOK' /\ Labelled'
    BY <1>0, <1>1, <2>3 DEF ManagerTypeOK, Labelled
  <2>5. EnqueuesMatch' /\ DequeuesMatch'
    BY <1>1, <2>1, <2>2 DEF EnqueuesMatch, DequeuesMatch
  <2> QED BY <1>0, <2>4, <2>5
<1> QED BY <1>2, <1>3, <1>4, <1>5 DEF OrderbookThread

LEMMA DbLoopsKeep ==
  ASSUME ManagerIInv, DbLoops
  PROVE  ManagerIInv'
<1>0. TypeInv' /\ TypeOK'
  BY RingTypes DEF ManagerNext
<1>1. ManagerTypeOK /\ Labelled /\ TypeInv
  BY DEF ManagerIInv, ManagerTypeInv
<1> USE DEF ManagerIInv, ManagerTypeInv, FlagFollowsDestructor, ThreadsSawFlag, Threads,
            OrderbookThreadTidy, ThreadsJoined, SendsOnOpenSocket
<1>2. CASE ReadFlag
  <2> USE <1>2 DEF ReadFlag, GoTo, caller
  <2>1. ManagerTypeOK' /\ Labelled'
    BY <1>0, <1>1 DEF ManagerTypeOK, Labelled, Labels
  <2>2. /\ pc'.owner = pc.owner /\ pc'.orderbook = pc.orderbook
        /\ pc'.db = IF stop_threads_ THEN "ask_empty" ELSE "dequeue"
    BY <1>1 DEF Labelled
  <2>3. EnqueuesMatch' /\ DequeuesMatch'
    BY <2>2 DEF EnqueuesMatch, DequeuesMatch, vars, producer, consumer
  <2> QED BY <1>0, <2>1, <2>2, <2>3
<1>3. CASE AskEmpty \/ DequeueLine
  <2> USE <1>3 DEF AskEmpty, DequeueLine, manager, caller
  <2>1. ManagerTypeOK' /\ Labelled'
    BY <1>0, <1>1 DEF ManagerTypeOK, Labelled
  <2>2. EnqueuesMatch' /\ DequeuesMatch'
    BY DequeueFrame DEF EnqueuesMatch, DequeuesMatch, producer
  <2> QED BY <1>0, <2>1, <2>2
<1>4. CASE HearEmpty
  <2> USE <1>4 DEF HearEmpty, GoTo, caller
  <2>1. ManagerTypeOK' /\ Labelled'
    BY <1>0, <1>1 DEF ManagerTypeOK, Labelled, Labels
  <2>2. /\ pc'.owner = pc.owner /\ pc'.orderbook = pc.orderbook
        /\ pc'.db \in {"done", "dequeue"} /\ stop_threads_
    BY <1>1 DEF Labelled
  <2>3. cpc' = "idle" /\ UNCHANGED producer
    BY DequeueFrame DEF ConsumerSteps
  <2>4. EnqueuesMatch' /\ DequeuesMatch'
    BY <2>2, <2>3 DEF EnqueuesMatch, DequeuesMatch, producer
  <2> QED BY <1>0, <2>1, <2>2, <2>4
<1>5. CASE LineDequeues
  <2> USE <1>5 DEF LineDequeues, GoTo, caller
  <2>1. cpc' # "compare" /\ UNCHANGED producer
    BY DequeueFrame
  <2>2. CASE cpc' # "idle" /\ UNCHANGED <<pc, line>>
    <3>1. ManagerTypeOK' /\ Labelled'
      BY <1>0, <1>1, <2>2 DEF ManagerTypeOK, Labelled
    <3>2. EnqueuesMatch' /\ DequeuesMatch'
      BY <2>1, <2>2 DEF EnqueuesMatch, DequeuesMatch, producer
    <3> QED BY <1>0, <2>2, <3>1, <3>2
  <2>3. CASE /\ cpc' = "idle" /\ got' = None
             /\ pc' = [pc EXCEPT !["db"] = "loop"] /\ UNCHANGED line
    <3>1. ManagerTypeOK' /\ Labelled'
      BY <1>0, <1>1, <2>3 DEF ManagerTypeOK, Labelled, Labels
    <3>2. pc'.owner = pc.owner /\ pc'.orderbook = pc.orderbook /\ pc'.db = "loop"
      BY <1>1, <2>3 DEF Labelled
    <3>3. EnqueuesMatch' /\ DequeuesMatch'
      BY <2>1, <2>3, <3>2 DEF EnqueuesMatch, DequeuesMatch, producer
    <3> QED BY <1>0, <2>3, <3>1, <3>2, <3>3
  <2>4. CASE /\ cpc' = "idle" /\ got' # None
             /\ pc' = [pc EXCEPT !["db"] = "connect"] /\ line' = <<got'>>
    <3>1. got' \in MaybeLines
      BY <1>0, <2>4, DatabaseAssumption DEF TypeOK, MaybeLines
    <3>2. line' \in Seq(MaybeLines) /\ Len(line') = 1
      BY <2>4, <3>1
    <3>3. ManagerTypeOK' /\ Labelled'
      BY <1>0, <1>1, <2>4, <3>2 DEF ManagerTypeOK, Labelled, Labels
    <3>4. pc'.owner = pc.owner /\ pc'.orderbook = pc.orderbook /\ pc'.db = "connect"
      BY <1>1, <2>4 DEF Labelled
    <3>5. EnqueuesMatch' /\ DequeuesMatch'
      BY <2>1, <2>4, <3>4 DEF EnqueuesMatch, DequeuesMatch, producer
    <3> QED BY <1>0, <2>4, <3>3, <3>4, <3>5
  <2> QED BY <2>2, <2>3, <2>4
<1> QED BY <1>2, <1>3, <1>4, <1>5 DEF DbLoops

LEMMA ServerCallsKeep ==
  ASSUME ManagerIInv, ServerCalls
  PROVE  ManagerIInv'
<1>0. TypeInv' /\ TypeOK'
  BY RingTypes DEF ManagerNext
<1>1. ManagerTypeOK /\ Labelled
  BY DEF ManagerIInv, ManagerTypeInv
<1>2. /\ UNCHANGED <<vars, orderbook_queue_, stop_threads_, db_updates, snapshots, results>>
      /\ pc.db \in {"connect", "send"}
      /\ \/ /\ pc' = [pc EXCEPT !["db"] = "send"] /\ sock_' = "open"
            /\ UNCHANGED <<line, sent>> /\ pc.db = "connect"
         \/ /\ pc' = [pc EXCEPT !["db"] = "loop"] /\ line' = <<>>
            /\ sock_' \in {sock_, "closed"} /\ sent' \in {sent, sent \o line}
  BY DEF ServerCalls, ConnectToServer, ConnectionFails, Send, SendFails, GoTo, caller
<1>3. sent \o line \in Seq(MaybeLines) /\ <<>> \in Seq(MaybeLines) /\ Len(<<>>) = 0
  BY <1>1, ConcatProperties, EmptySeq DEF ManagerTypeOK
<1>4. /\ pc'.owner = pc.owner /\ pc'.orderbook = pc.orderbook /\ pc'.db \in {"send", "loop"}
      /\ pc'.db = "send" => sock_' = "open"
  BY <1>1, <1>2 DEF Labelled, Threads
<1>5. ManagerTypeOK' /\ Labelled'
  <2>1. CASE pc' = [pc EXCEPT !["db"] = "send"] /\ sock_' = "open" /\ UNCHANGED <<line, sent>>
    BY <1>0, <1>1, <1>2, <2>1 DEF ManagerTypeOK, Labelled, Labels, Threads
  <2>2. CASE /\ pc' = [pc EXCEPT !["db"] = "loop"] /\ line' = <<>>
             /\ sock_' \in {sock_, "closed"} /\ sent' \in {sent, sent \o line}
    <3>1. sock_' \in {"open", "closed"} /\ sent' \in Seq(MaybeLines)
      BY <1>1, <1>3, <2>2 DEF ManagerTypeOK
    <3>2. line' \in Seq(MaybeLines) /\ Len(line') = 0
      BY <1>3, <2>2
    <3>3. pc'.db = "loop" /\ pc'.owner = pc.owner /\ pc'.orderbook = pc.orderbook /\ Labelled'
      BY <1>1, <2>2 DEF Labelled, Labels, Threads
    <3> QED BY <1>0, <1>1, <1>2, <3>1, <3>2, <3>3 DEF ManagerTypeOK
  <2> QED BY <1>2, <2>1, <2>2
<1>6. EnqueuesMatch' /\ DequeuesMatch'
  BY <1>2, <1>4 DEF EnqueuesMatch, DequeuesMatch, vars, producer, consumer, ManagerIInv
<1> QED
  BY <1>0, <1>2, <1>4, <1>5, <1>6 DEF ManagerIInv, ManagerTypeInv, FlagFollowsDestructor,
     ThreadsSawFlag, Threads, OrderbookThreadTidy, ThreadsJoined, SendsOnOpenSocket

LEMMA KilledKeeps ==
  ASSUME ManagerIInv, Killed
  PROVE  ManagerIInv'
<1>0. TypeInv' /\ TypeOK'
  BY RingTypes DEF ManagerNext
<1>1. ManagerTypeOK /\ Labelled
  BY DEF ManagerIInv, ManagerTypeInv
<1>2. /\ UNCHANGED <<vars, orderbook_queue_, stop_threads_, sock_, db_updates, line, caller, sent>>
      /\ pc' = [t \in DOMAIN pc |-> "killed"]
  BY DEF Killed
<1>3. pc'.owner = "killed" /\ pc'.orderbook = "killed" /\ pc'.db = "killed" /\ Labelled'
  BY <1>1, <1>2 DEF Labelled, Labels, Threads
<1>4. ManagerTypeOK'
  BY <1>0, <1>1, <1>2, <1>3 DEF ManagerTypeOK, caller
<1>5. EnqueuesMatch' /\ DequeuesMatch'
  BY <1>2, <1>3 DEF EnqueuesMatch, DequeuesMatch, vars, producer, consumer, ManagerIInv
<1> QED
  BY <1>0, <1>3, <1>4, <1>5 DEF ManagerIInv, ManagerTypeInv, FlagFollowsDestructor, ThreadsSawFlag,
     Threads, OrderbookThreadTidy, ThreadsJoined, SendsOnOpenSocket

LEMMA NextManager == ManagerIInv /\ [ManagerNext]_managerVars => ManagerIInv'
<1> SUFFICES ASSUME ManagerIInv, [ManagerNext]_managerVars
             PROVE  ManagerIInv'
  OBVIOUS
<1>1. CASE UNCHANGED managerVars
  <2>1. TypeInv' /\ TypeOK'
    BY RingTypes
  <2> QED
    BY <1>1, <2>1 DEF managerVars, manager, caller, vars, producer, consumer, ManagerIInv,
       ManagerTypeInv, ManagerTypeOK, Labelled, FlagFollowsDestructor, ThreadsSawFlag,
       OrderbookThreadTidy, ThreadsJoined, EnqueuesMatch, DequeuesMatch, SendsOnOpenSocket
<1> QED
  BY <1>1, CallersKeep, LoggersKeep, JoinsKeep, OrderbookThreadKeeps, DbLoopsKeep,
     ServerCallsKeep, KilledKeeps DEF ManagerNext

-----------------------------------------------------------------------------
LEMMA ManagerInvariance == ManagerSpec => []ManagerIInv
  BY InitManager, NextManager, PTL DEF ManagerSpec

\* Whatever the producers of db_queue_ do to each other, the types hold, the queue of the
\* snapshots never exceeds its capacity, and the db thread holds one line exactly while it is
\* about to send one.
THEOREM ManagerTypeCorrect == ManagerSpec => []ManagerTypeOK
<1>1. ManagerIInv => ManagerTypeOK
  BY DEF ManagerIInv, ManagerTypeInv
<1> QED BY <1>1, ManagerInvariance, PTL

\* Whatever the producers of db_queue_ do to each other, ~DatabaseManager leaves no snapshot it
\* was given unformatted, and closes the socket only when the thread that sends on it has gone.
THEOREM DestructorCorrect == ManagerSpec => []DestructorIsSafe
<1>1. ManagerIInv => DestructorIsSafe
  BY DEF ManagerIInv, OrderbookThreadTidy, ThreadsJoined, DestructorIsSafe, SnapshotsAreFormatted
<1> QED BY <1>1, ManagerInvariance, PTL

-----------------------------------------------------------------------------
(* As long as no calls of enqueue overlap.  The theorems about the ring    *)
(* then make of every step one on a plain queue, or none at all.           *)

\* What is in the db thread's hands, and what it sent, are lines.
HandsLines == line \in Seq(Lines) /\ sent \in Seq(Lines)

SerialInv == ManagerIInv /\ IInv /\ HandsLines

\* update_limit_orderbook: the snapshot is enqueued, or dropped.
TakesSnapshot ==
  /\ snapshots < MaxSnapshots
  /\ snapshots' = snapshots + 1
  /\ \E n \in Levels :
       orderbook_queue_' = Enqueued(orderbook_queue_, [number |-> snapshots, levels |-> n])
  /\ UNCHANGED <<db_queue_, db_updates, line, sent>>

\* A logger's line is accepted.
TakesLogLine ==
  /\ \E x \in Lines : ~IsBookLine(x) /\ db_queue_' = Append(db_queue_, x)
  /\ UNCHANGED <<orderbook_queue_, db_updates, line, snapshots, sent>>

FormatsSnapshot ==
  /\ db_updates = <<>>
  /\ orderbook_queue_ # <<>>
  /\ db_updates' = LinesOf(Head(orderbook_queue_))
  /\ orderbook_queue_' = Tail(orderbook_queue_)
  /\ UNCHANGED <<db_queue_, line, snapshots, sent>>

\* A snapshot's line is accepted, or dropped.
MovesLine ==
  /\ db_updates # <<>>
  /\ db_updates' = Tail(db_updates)
  /\ db_queue_' = db_queue_ \/ db_queue_' = Append(db_queue_, Head(db_updates))
  /\ UNCHANGED <<orderbook_queue_, line, snapshots, sent>>

TakesLine ==
  /\ line = <<>>
  /\ db_queue_ # <<>>
  /\ line' = <<Head(db_queue_)>>
  /\ db_queue_' = Tail(db_queue_)
  /\ UNCHANGED <<orderbook_queue_, db_updates, snapshots, sent>>

LosesLine ==
  /\ Len(line) = 1
  /\ line' = <<>>
  /\ UNCHANGED <<orderbook_queue_, db_queue_, db_updates, snapshots, sent>>

SendsLine ==
  /\ Len(line) = 1
  /\ line' = <<>>
  /\ sent' = sent \o line
  /\ UNCHANGED <<orderbook_queue_, db_queue_, db_updates, snapshots>>

\* What the order of the lines is about.
onTheWay == <<orderbook_queue_, db_queue_, db_updates, line, snapshots, sent>>

Moves ==
  \/ TakesSnapshot \/ TakesLogLine \/ FormatsSnapshot \/ MovesLine
  \/ TakesLine \/ LosesLine \/ SendsLine \/ UNCHANGED onTheWay

\* A step that leaves the ring alone leaves what it holds.
LEMMA RingSame == UNCHANGED vars => UNCHANGED db_queue_
BY DEF vars, buffer, consumer, db_queue_, Contents, size, SlotAt, Holding

\* The db thread takes the oldest line when the ring gives it one, and nothing else.
LEMMA LineDequeuesTakes ==
  ASSUME ManagerIInv, IInv, LineDequeues, TypeOK'
  PROVE  TakesLine \/ UNCHANGED onTheWay
<1>1. IF cpc = "advance"
      THEN db_queue_ # <<>> /\ got' = Head(db_queue_) /\ db_queue_' = Tail(db_queue_)
      ELSE db_queue_' = db_queue_
  BY DequeueTakes DEF LineDequeues, db_queue_
<1>2. /\ pc.db = "dequeue" /\ cpc # "compare" /\ line = <<>>
      /\ UNCHANGED <<orderbook_queue_, db_updates, snapshots, sent>>
  <2>1. line \in Seq(MaybeLines) /\ (pc.db = "dequeue" => Len(line) = 0)
    BY DEF ManagerIInv, ManagerTypeInv, ManagerTypeOK
  <2>2. pc.db = "dequeue" => line = <<>>
    BY <2>1
  <2> QED BY <2>2 DEF LineDequeues, caller, ManagerIInv, DequeuesMatch
<1>3. CASE cpc = "advance"
  <2>1. got' \in Items /\ got' # None
    <3>1. Contents \in Seq(Items) /\ Contents # <<>> /\ got' = Head(Contents)
      BY <1>1, <1>3, ContentsAreItems DEF db_queue_
    <3> HIDE DEF Contents
    <3>2. got' \in Items
      BY <3>1, HeadTailProperties
    <3> QED BY <3>2, QueueAssumption
  <2>2. cpc' = "idle"
    BY <1>3 DEF LineDequeues, ConsumerSteps, ReturnEmpty, SeeItem, ReturnUnwritten, SeeWritten,
       MoveOut, DestroyItem, ClearWritten, AdvanceHead, ReturnCompared, GoC
  <2>3. line' = <<got'>>
    BY <2>1, <2>2 DEF LineDequeues
  <2> QED BY <1>1, <1>2, <1>3, <2>3 DEF TakesLine
<1>4. CASE cpc # "advance"
  <2>1. UNCHANGED line
    BY <1>2, <1>4, DequeueFrame DEF LineDequeues
  <2> QED BY <1>1, <1>2, <1>4, <2>1 DEF onTheWay
<1> QED BY <1>3, <1>4

\* Every step moves lines as on plain queues, or moves none.
LEMMA StepMoves ==
  ASSUME ManagerIInv, IInv, [ManagerNext]_managerVars
  PROVE  Moves
<1>0. /\ TypeOK' /\ ManagerTypeOK /\ TypeInv /\ Items = Lines
      /\ Loggers \subseteq Producers /\ "orderbook" \in Producers
  BY RingTypes, DatabaseAssumption DEF ManagerIInv, ManagerTypeInv
<1>1. ASSUME NEW p \in Producers, ProducerSteps(p) \/ \E x \in Items : Enqueue(p, x)
      PROVE  IF ppc[p] = "advance" THEN db_queue_' = Append(db_queue_, item[p])
             ELSE db_queue_' = db_queue_
  BY <1>0, <1>1, EnqueueAdds DEF db_queue_
<1>2. ConsumerSteps \/ Dequeue \/ Empty => cpc = "advance" \/ db_queue_' = db_queue_
  BY <1>0, DequeueTakes DEF db_queue_
<1>3. CASE UNCHANGED managerVars
  BY <1>3, RingSame DEF managerVars, manager, caller, onTheWay, Moves
<1>4. CASE Callers
  <2>1. CASE UpdateLimitOrderbook
    BY <2>1, RingSame DEF UpdateLimitOrderbook, TakesSnapshot, Moves
  <2>2. CASE StopThreads
    BY <2>2, RingSame DEF StopThreads, caller, onTheWay, Moves
  <2>3. ASSUME NEW p \in Loggers, SendLineProtocolTcp(p) PROVE Moves
    <3>1. Enqueue(p, LogLine(results)) /\ LogLine(results) \in Items /\ p \in Producers
      BY <1>0, <2>3, NextNumbers DEF SendLineProtocolTcp
    <3>2. ppc[p] = "idle"
      BY <3>1 DEF Enqueue, GoP
    <3>3. db_queue_' = db_queue_
      BY <1>1, <3>1, <3>2
    <3> QED BY <2>3, <3>3 DEF SendLineProtocolTcp, onTheWay, Moves
  <2> QED BY <1>4, <2>1, <2>2, <2>3 DEF Callers
<1>5. CASE LoggersGoOn
  <2>1. PICK p \in Loggers : LoggerEnqueues(p)
    BY <1>5 DEF LoggersGoOn
  <2>2. ProducerSteps(p) /\ p \in Producers /\ UNCHANGED manager /\ ppc[p] # "idle"
    BY <1>0, <2>1, EnqueueFrame DEF LoggerEnqueues
  <2>3. ~IsBookLine(item[p]) /\ item[p] \in Lines
    BY <1>0, <2>2 DEF ManagerIInv, EnqueuesMatch, TypeInv, HasArgument
  <2> QED BY <1>1, <2>2, <2>3 DEF manager, caller, TakesLogLine, onTheWay, Moves
<1>6. CASE Joins
  BY <1>6, RingSame DEF Joins, JoinDb, JoinOrderbook, caller, onTheWay, Moves
<1>7. CASE OrderbookThread
  <2>1. CASE OrderbookLoops
    BY <2>1, RingSame DEF OrderbookLoops, caller, onTheWay, Moves
  <2>2. CASE DequeueSnapshot
    <3>1. db_updates = <<>>
      BY <2>2 DEF DequeueSnapshot, ManagerIInv, OrderbookThreadTidy
    <3> QED BY <2>2, <3>1, RingSame DEF DequeueSnapshot, caller, FormatsSnapshot, Moves
  <2>3. CASE EnqueueLine
    <3>1. Head(db_updates) \in Items /\ Enqueue("orderbook", Head(db_updates))
      BY <1>0, <2>3, DequeuedFits DEF EnqueueLine, ManagerTypeOK
    <3>2. ppc["orderbook"] = "idle"
      BY <3>1 DEF Enqueue, GoP
    <3>3. db_queue_' = db_queue_
      BY <1>0, <1>1, <3>1, <3>2
    <3> QED BY <2>3, <3>3 DEF EnqueueLine, manager, caller, onTheWay, Moves
  <2>4. CASE LineEnqueues
    <3>1. ProducerSteps("orderbook") /\ ppc["orderbook"] # "idle"
      BY <1>0, <2>4, EnqueueFrame DEF LineEnqueues
    <3>2. db_updates # <<>> /\ item["orderbook"] = Head(db_updates)
      BY <2>4, <3>1 DEF LineEnqueues, ManagerIInv, EnqueuesMatch
    <3>3. CASE ppc["orderbook"] = "advance"
      <4>1. ppc'["orderbook"] = "idle"
        BY <1>0, <3>1, <3>3 DEF ProducerSteps, RefuseFull, SeeRoom, Construct, MarkWritten,
           AdvanceTail, GoP, TypeInv, TypeOK
      <4> QED BY <1>0, <1>1, <2>4, <3>1, <3>2, <3>3, <4>1 DEF LineEnqueues, caller, MovesLine, Moves
    <3>4. CASE ppc["orderbook"] # "advance"
      BY <1>0, <1>1, <2>4, <3>1, <3>2, <3>4 DEF LineEnqueues, caller, MovesLine, onTheWay, Moves
    <3> QED BY <3>3, <3>4
  <2> QED BY <1>7, <2>1, <2>2, <2>3, <2>4 DEF OrderbookThread
<1>8. CASE DbLoops
  <2>1. CASE ReadFlag
    BY <2>1, RingSame DEF ReadFlag, caller, onTheWay, Moves
  <2>2. CASE AskEmpty \/ DequeueLine
    <3>1. cpc = "idle" /\ db_queue_' = db_queue_
      BY <1>2, <2>2 DEF AskEmpty, DequeueLine, Empty, Dequeue, GoC
    <3> QED BY <2>2, <3>1 DEF AskEmpty, DequeueLine, manager, caller, onTheWay, Moves
  <2>3. CASE HearEmpty
    <3>1. cpc = "compare" /\ db_queue_' = db_queue_
      BY <1>2, <2>3 DEF HearEmpty, ConsumerSteps, ReturnCompared, GoC
    <3> QED BY <2>3, <3>1 DEF HearEmpty, caller, onTheWay, Moves
  <2>4. CASE LineDequeues
    BY <1>0, <2>4, LineDequeuesTakes DEF Moves
  <2> QED BY <1>8, <2>1, <2>2, <2>3, <2>4 DEF DbLoops
<1>9. CASE ServerCalls
  <2>1. CASE ConnectToServer
    BY <2>1, RingSame DEF ConnectToServer, caller, onTheWay, Moves
  <2>2. pc.db \in {"connect", "send"} => Len(line) = 1
    BY <1>0 DEF ManagerTypeOK
  <2>3. CASE ConnectionFails \/ SendFails
    BY <2>2, <2>3, RingSame DEF ConnectionFails, SendFails, caller, LosesLine, Moves
  <2>4. CASE Send
    BY <2>2, <2>4, RingSame DEF Send, caller, SendsLine, Moves
  <2> QED BY <1>9, <2>1, <2>3, <2>4 DEF ServerCalls
<1>10. CASE Killed
  BY <1>10, RingSame DEF Killed, caller, onTheWay, Moves
<1> QED BY <1>3, <1>4, <1>5, <1>6, <1>7, <1>8, <1>9, <1>10 DEF ManagerNext

LEMMA InitSerial == ManagerInit => SerialInv
<1> SUFFICES ASSUME ManagerInit PROVE SerialInv
  OBVIOUS
<1>1. IInv
  BY InitTypeInv, InitSlots DEF ManagerInit, IInv
<1>2. HandsLines
  BY EmptySeq DEF ManagerInit, HandsLines
<1> QED BY <1>1, <1>2, InitManager DEF SerialInv

LEMMA NextSerial ==
  Serial /\ Serial' /\ SerialInv /\ [ManagerNext]_managerVars => SerialInv'
<1> SUFFICES ASSUME Serial, Serial', SerialInv, [ManagerNext]_managerVars
             PROVE  SerialInv'
  OBVIOUS
<1>1. ManagerIInv /\ IInv /\ HandsLines
  BY DEF SerialInv
<1>2. ManagerIInv'
  BY <1>1, NextManager
<1>3. IInv'
  BY <1>1, RingStep, NextIInv
<1>4. Moves
  BY <1>1, StepMoves
<1>5. HandsLines'
  <2>1. CASE TakesLine
    <3>1. db_queue_ \in Seq(Lines)
      BY <1>1, ContentsAreItems, DatabaseAssumption DEF db_queue_
    <3>2. Head(db_queue_) \in Lines
      BY <2>1, <3>1, DequeuedFits DEF TakesLine
    <3>3. line' \in Seq(Lines)
      BY <2>1, <3>2 DEF TakesLine
    <3> QED BY <1>1, <2>1, <3>3 DEF TakesLine, HandsLines
  <2>2. CASE SendsLine
    BY <1>1, <2>2, ConcatProperties, EmptySeq DEF SendsLine, HandsLines
  <2>3. CASE LosesLine
    BY <1>1, <2>3, EmptySeq DEF LosesLine, HandsLines
  <2>4. CASE UNCHANGED <<line, sent>>
    BY <1>1, <2>4 DEF HandsLines
  <2> QED
    BY <1>4, <2>1, <2>2, <2>3, <2>4 DEF Moves, TakesSnapshot, TakesLogLine, FormatsSnapshot,
       MovesLine, onTheWay
<1> QED BY <1>2, <1>3, <1>5 DEF SerialInv

\* SerialSpec is the program as long as no calls overlap.
LEMMA SerialSpecIsSerial == SerialSpec => ManagerSpec /\ []Serial
<1>1. ManagerInit => Serial
  BY DEF ManagerInit, Init, Serial
<1>2. Serial /\ [ManagerNext /\ Serial']_managerVars => Serial'
  BY DEF managerVars, vars, producer, Serial
<1> QED BY <1>1, <1>2, PTL DEF SerialSpec, ManagerSpec

\* The types of what carries lines.
LEMMA SerialTypes ==
  ASSUME SerialInv
  PROVE  /\ orderbook_queue_ \in Seq(Snapshots) /\ db_queue_ \in Seq(Lines)
         /\ db_updates \in Seq(Lines) /\ line \in Seq(Lines) /\ sent \in Seq(Lines)
         /\ snapshots \in Nat /\ snapshots \in 0 .. MaxSnapshots
<1>1. db_queue_ \in Seq(Lines)
  BY ContentsAreItems, DatabaseAssumption DEF db_queue_, SerialInv
<1> QED BY <1>1, DatabaseAssumption DEF SerialInv, HandsLines, ManagerIInv, ManagerTypeInv, ManagerTypeOK

-----------------------------------------------------------------------------
(* The order of the lines.                                                 *)

\* Every snapshot's line in ahead goes before every one in behind.
Precedes(ahead, behind) ==
  \A i \in DOMAIN ahead, j \in DOMAIN behind :
    IsBookLine(ahead[i]) /\ IsBookLine(behind[j]) => Before(ahead[i], behind[j])

\* The lines are of snapshots before the k-th.
Earlier(lines, k) == \A i \in DOMAIN lines : IsBookLine(lines[i]) => lines[i][2] < k

\* What is behind on its way to the socket is of a later line.
LinesInOrder ==
  /\ InOrder(sent) /\ InOrder(db_queue_) /\ InOrder(db_updates)
  /\ Precedes(sent, line) /\ Precedes(sent, db_queue_) /\ Precedes(sent, db_updates)
  /\ Precedes(line, db_queue_) /\ Precedes(line, db_updates)
  /\ Precedes(db_queue_, db_updates)

Carriers == {sent, line, db_queue_, db_updates}

MadeBefore(carriers, k) == \A q \in carriers : Earlier(q, k)

\* So is a snapshot that has still to be made into lines.
SnapshotsInOrder ==
  /\ MadeBefore(Carriers, snapshots)
  /\ \A i \in DOMAIN orderbook_queue_ :
       /\ orderbook_queue_[i].number < snapshots
       /\ MadeBefore(Carriers, orderbook_queue_[i].number)
       /\ \A j \in DOMAIN orderbook_queue_ :
            i < j => orderbook_queue_[i].number < orderbook_queue_[j].number

OrderInv == LinesInOrder /\ SnapshotsInOrder

\* The elements of a queue after a call of either kind.
LEMMA TailElements ==
  ASSUME NEW S, NEW q \in Seq(S), q # <<>>
  PROVE  /\ Head(q) = q[1] /\ 1 \in DOMAIN q /\ DOMAIN q \subseteq Nat
         /\ \A i \in DOMAIN Tail(q) : i \in Nat /\ i + 1 \in DOMAIN q /\ Tail(q)[i] = q[i + 1]
<1>1. /\ Tail(q) \in Seq(S) /\ Len(Tail(q)) = Len(q) - 1 /\ Head(q) = q[1]
      /\ \A i \in 1 .. Len(Tail(q)) : Tail(q)[i] = q[i + 1]
      /\ Len(q) \in Nat /\ Len(q) # 0
  BY HeadTailProperties, EmptySeq
<1>2. DOMAIN q = 1 .. Len(q) /\ DOMAIN Tail(q) = 1 .. Len(q) - 1
  BY <1>1
<1> QED BY <1>1, <1>2

LEMMA AppendElements ==
  ASSUME NEW S, NEW q \in Seq(S), NEW x \in S
  PROVE  \A i \in DOMAIN Append(q, x) :
           /\ i \in Nat
           /\ \/ i \in DOMAIN q /\ i <= Len(q) /\ Append(q, x)[i] = q[i]
              \/ i = Len(q) + 1 /\ Append(q, x)[i] = x
<1>1. /\ Append(q, x) \in Seq(S) /\ Len(Append(q, x)) = Len(q) + 1 /\ Len(q) \in Nat
      /\ Append(q, x)[Len(q) + 1] = x
      /\ \A i \in 1 .. Len(q) : Append(q, x)[i] = q[i]
  BY AppendProperties
<1>2. DOMAIN Append(q, x) = 1 .. Len(q) + 1 /\ DOMAIN q = 1 .. Len(q)
  BY <1>1
<1> QED BY <1>1, <1>2

\* Taking the head of a sequence.
LEMMA TailOrder ==
  ASSUME NEW q \in Seq(Lines), q # <<>>
  PROVE  /\ InOrder(q) => InOrder(Tail(q)) /\ Precedes(<<Head(q)>>, Tail(q))
         /\ \A p : Precedes(p, q) => Precedes(p, Tail(q)) /\ Precedes(p, <<Head(q)>>)
         /\ \A p : Precedes(q, p) => Precedes(Tail(q), p) /\ Precedes(<<Head(q)>>, p)
         /\ \A k : Earlier(q, k) => Earlier(Tail(q), k) /\ Earlier(<<Head(q)>>, k)
<1>1. /\ Head(q) = q[1] /\ 1 \in DOMAIN q /\ DOMAIN q \subseteq Nat
      /\ \A i \in DOMAIN Tail(q) : i \in Nat /\ i + 1 \in DOMAIN q /\ Tail(q)[i] = q[i + 1]
  BY TailElements
<1> DEFINE h == <<Head(q)>>
           t == Tail(q)
<1>2. DOMAIN h = {1} /\ h[1] = q[1]
  BY <1>1
<1>3. \A i \in DOMAIN t : i \in Nat /\ 0 < i /\ i + 1 \in DOMAIN q /\ t[i] = q[i + 1]
  <2>1. \A i \in DOMAIN t : i > 0
    <3>1. t \in Seq(Lines)
      BY HeadTailProperties
    <3> HIDE DEF t
    <3> QED BY <3>1
  <2> QED BY <1>1, <2>1
<1> HIDE DEF h, t
<1>4. InOrder(q) => InOrder(t) /\ Precedes(h, t)
  <2> SUFFICES ASSUME InOrder(q) PROVE InOrder(t) /\ Precedes(h, t)
    OBVIOUS
  <2>1. ASSUME NEW i \in DOMAIN t, NEW j \in DOMAIN t, i < j, IsBookLine(t[i]), IsBookLine(t[j])
        PROVE  Before(t[i], t[j])
    <3>1. i + 1 < j + 1 /\ i + 1 \in DOMAIN q /\ j + 1 \in DOMAIN q /\ t[i] = q[i + 1] /\ t[j] = q[j + 1]
      BY <1>3, <2>1
    <3> QED BY <2>1, <3>1 DEF InOrder
  <2>2. ASSUME NEW j \in DOMAIN t, IsBookLine(h[1]), IsBookLine(t[j])
        PROVE  Before(h[1], t[j])
    <3>1. 1 < j + 1 /\ 1 \in DOMAIN q /\ j + 1 \in DOMAIN q /\ h[1] = q[1] /\ t[j] = q[j + 1]
      BY <1>1, <1>2, <1>3
    <3> QED BY <2>2, <3>1 DEF InOrder
  <2> QED BY <1>2, <2>1, <2>2 DEF InOrder, Precedes
<1>5. \A p : Precedes(p, q) => Precedes(p, t) /\ Precedes(p, h)
  BY <1>1, <1>2, <1>3 DEF Precedes
<1>6. \A p : Precedes(q, p) => Precedes(t, p) /\ Precedes(h, p)
  BY <1>1, <1>2, <1>3 DEF Precedes
<1>7. \A k : Earlier(q, k) => Earlier(t, k) /\ Earlier(h, k)
  BY <1>1, <1>2, <1>3 DEF Earlier
<1> QED BY <1>4, <1>5, <1>6, <1>7 DEF h, t

\* Adding a line at the end.
LEMMA AppendOrder ==
  ASSUME NEW q \in Seq(Lines), NEW x \in Lines
  PROVE  /\ InOrder(q) /\ Precedes(q, <<x>>) => InOrder(Append(q, x))
         /\ \A p : Precedes(p, q) /\ Precedes(p, <<x>>) => Precedes(p, Append(q, x))
         /\ \A p : Precedes(q, p) /\ Precedes(<<x>>, p) => Precedes(Append(q, x), p)
         /\ \A k : Earlier(q, k) /\ Earlier(<<x>>, k) => Earlier(Append(q, x), k)
<1> DEFINE longer == Append(q, x)
           last == <<x>>
<1>1. \A i \in DOMAIN longer :
        /\ i \in Nat
        /\ \/ i \in DOMAIN q /\ i <= Len(q) /\ longer[i] = q[i]
           \/ i = Len(q) + 1 /\ longer[i] = x
  BY AppendElements
<1>2. DOMAIN last = {1} /\ last[1] = x /\ Len(q) \in Nat
  OBVIOUS
<1> HIDE DEF longer, last
<1>3. ASSUME InOrder(q), Precedes(q, last) PROVE InOrder(longer)
  <2> SUFFICES ASSUME NEW i \in DOMAIN longer, NEW j \in DOMAIN longer, i < j,
                      IsBookLine(longer[i]), IsBookLine(longer[j])
               PROVE  Before(longer[i], longer[j])
    BY DEF InOrder
  <2>1. i \in DOMAIN q /\ longer[i] = q[i]
    BY <1>1, <1>2
  <2>2. CASE j \in DOMAIN q /\ longer[j] = q[j]
    BY <1>3, <2>1, <2>2 DEF InOrder
  <2>3. CASE longer[j] = x
    BY <1>2, <1>3, <2>1, <2>3 DEF Precedes
  <2> QED BY <1>1, <2>2, <2>3
<1>4. \A p : Precedes(p, q) /\ Precedes(p, last) => Precedes(p, longer)
  BY <1>1, <1>2 DEF Precedes
<1>5. \A p : Precedes(q, p) /\ Precedes(last, p) => Precedes(longer, p)
  BY <1>1, <1>2 DEF Precedes
<1>6. \A k : Earlier(q, k) /\ Earlier(last, k) => Earlier(longer, k)
  BY <1>1, <1>2 DEF Earlier
<1> QED BY <1>3, <1>4, <1>5, <1>6 DEF longer, last

\* Nothing is in order.
LEMMA NoLines ==
  /\ InOrder(<<>>)
  /\ \A p : Precedes(p, <<>>) /\ Precedes(<<>>, p)
  /\ \A k : Earlier(<<>>, k)
BY DEF InOrder, Precedes, Earlier

\* A logger's line has no place among those of the snapshots.
LEMMA LogLines ==
  ASSUME NEW x \in Lines, ~IsBookLine(x)
  PROVE  /\ \A p : Precedes(p, <<x>>) /\ Precedes(<<x>>, p)
         /\ \A k : Earlier(<<x>>, k)
BY DEF Precedes, Earlier

\* The lines of a snapshot come after those of earlier ones.
LEMMA SnapshotLines ==
  ASSUME NEW s \in Snapshots
  PROVE  /\ InOrder(LinesOf(s))
         /\ \A p : Earlier(p, s.number) => Precedes(p, LinesOf(s))
         /\ \A k \in Nat : s.number < k => Earlier(LinesOf(s), k)
<1>1. DOMAIN LinesOf(s) = 1 .. s.levels /\ s.levels \in Nat
  BY DatabaseAssumption DEF LinesOf, Snapshots
<1>2. \A i \in DOMAIN LinesOf(s) : /\ LinesOf(s)[i][2] = s.number /\ LinesOf(s)[i][3] = i
  BY DEF LinesOf, BookLine
<1>3. InOrder(LinesOf(s))
  BY <1>1, <1>2 DEF InOrder, Before
<1>4. \A p : Earlier(p, s.number) => Precedes(p, LinesOf(s))
  BY <1>2 DEF Earlier, Precedes, Before
<1>5. \A k \in Nat : s.number < k => Earlier(LinesOf(s), k)
  BY <1>2 DEF Earlier
<1> QED BY <1>3, <1>4, <1>5

LEMMA EarlierThanLater ==
  ASSUME NEW q \in Seq(Lines), NEW k \in Nat, NEW m \in Nat, k <= m, Earlier(q, k)
  PROVE  Earlier(q, m)
<1>1. \A i \in DOMAIN q : q[i] \in Lines
  OBVIOUS
<1>2. \A l \in Lines : l[2] \in Nat
  BY DatabaseAssumption DEF Lines
<1> QED BY <1>1, <1>2 DEF Earlier

\* One line.
LEMMA OneLine ==
  ASSUME NEW q \in Seq(Lines), Len(q) = 1
  PROVE  \E x \in Lines : q = <<x>>
<1> DEFINE y == q[1]
           one == <<y>>
<1>1. 1 \in DOMAIN q
  OBVIOUS
<1>2. y \in Lines
  BY <1>1, ElementsOfSeq
<1>3. one \in Seq(Lines) /\ Len(one) = 1 /\ one[1] = q[1]
  BY <1>2
<1>4. q = one
  <2> HIDE DEF one, y
  <2>1. \A i \in 1 .. 1 : q[i] = one[i]
    BY <1>3
  <2> QED BY <1>3, <2>1, SeqEqual
<1> QED BY <1>2, <1>4

\* The ring is empty at first.
LEMMA NothingQueued == ManagerInit => db_queue_ = <<>>
<1> SUFFICES ASSUME ManagerInit PROVE db_queue_ = <<>>
  OBVIOUS
<1>1. size = 0
  BY DEF ManagerInit, Init, size
<1> QED BY <1>1 DEF db_queue_, Contents

\* A queued snapshot has a number.
LEMMA SnapshotNumbers ==
  ASSUME NEW q \in Seq(Snapshots)
  PROVE  \A i \in DOMAIN q : q[i] \in Snapshots /\ q[i].number \in Nat
<1>1. \A s \in Snapshots : s.number \in Nat
  BY DatabaseAssumption DEF Snapshots
<1> QED BY <1>1, ElementsOfSeq

LEMMA InitOrder == ManagerInit => OrderInv
<1> SUFFICES ASSUME ManagerInit PROVE OrderInv
  OBVIOUS
<1>1. /\ sent = <<>> /\ line = <<>> /\ db_updates = <<>> /\ orderbook_queue_ = <<>>
  BY DEF ManagerInit
<1>2. db_queue_ = <<>>
  BY NothingQueued
<1>3. LinesInOrder
  BY <1>1, <1>2, NoLines DEF LinesInOrder
<1>4. SnapshotsInOrder
  BY <1>1, <1>2, NoLines DEF SnapshotsInOrder, MadeBefore, Carriers
<1> QED BY <1>3, <1>4 DEF OrderInv

\* A new snapshot has a number of its own.
LEMMA TakesSnapshotOrder ==
  ASSUME SerialInv, OrderInv, TakesSnapshot
  PROVE  OrderInv'
<1> DEFINE q == orderbook_queue_
<1>1. PICK n \in Levels : orderbook_queue_' = Enqueued(q, [number |-> snapshots, levels |-> n])
  BY DEF TakesSnapshot
<1> DEFINE x == [number |-> snapshots, levels |-> n]
<1>2. /\ q \in Seq(Snapshots) /\ x \in Snapshots /\ x.number = snapshots /\ snapshots \in Nat
      /\ sent \in Seq(Lines) /\ line \in Seq(Lines) /\ db_queue_ \in Seq(Lines)
      /\ db_updates \in Seq(Lines)
  BY SerialTypes, NextNumbers DEF TakesSnapshot, SerialInv, ManagerIInv, ManagerTypeInv
<1>3. /\ snapshots' = snapshots + 1
      /\ UNCHANGED <<sent, line, db_queue_, db_updates>>
      /\ orderbook_queue_' = q \/ orderbook_queue_' = Append(q, x)
  BY <1>1 DEF TakesSnapshot, Enqueued
<1> HIDE DEF x, q
<1>4. \A i \in DOMAIN q : q[i].number \in Nat
  BY <1>2, SnapshotNumbers
<1>5. Carriers' = Carriers /\ Carriers \subseteq Seq(Lines)
  BY <1>2, <1>3 DEF Carriers
<1>6. /\ MadeBefore(Carriers, snapshots)
      /\ \A i \in DOMAIN q : /\ q[i].number < snapshots
                             /\ MadeBefore(Carriers, q[i].number)
                             /\ \A j \in DOMAIN q : i < j => q[i].number < q[j].number
  BY DEF OrderInv, SnapshotsInOrder, q
<1>7. MadeBefore(Carriers', snapshots')
  <2>1. ASSUME NEW c \in Carriers PROVE Earlier(c, snapshots + 1)
    <3>1. Earlier(c, snapshots) /\ c \in Seq(Lines)
      BY <1>5, <1>6 DEF MadeBefore
    <3>2. snapshots + 1 \in Nat /\ snapshots <= snapshots + 1
      BY <1>2
    <3> QED BY <1>2, <3>1, <3>2, EarlierThanLater
  <2> QED BY <1>3, <1>5, <2>1 DEF MadeBefore
<1>8. CASE orderbook_queue_' = q
  <2>1. \A i \in DOMAIN q : q[i].number < snapshots'
    BY <1>2, <1>3, <1>4, <1>6
  <2>2. SnapshotsInOrder'
    BY <1>5, <1>6, <1>7, <1>8, <2>1 DEF SnapshotsInOrder
  <2> QED BY <1>3, <2>2 DEF OrderInv, LinesInOrder
<1>9. CASE orderbook_queue_' = Append(q, x)
  <2> DEFINE longer == Append(q, x)
  <2>1. /\ \A i \in DOMAIN longer :
             /\ i \in Nat
             /\ \/ i \in DOMAIN q /\ i <= Len(q) /\ longer[i] = q[i]
                \/ i = Len(q) + 1 /\ longer[i] = x
        /\ Len(q) \in Nat
    BY <1>2, AppendElements
  <2>2. orderbook_queue_' = longer
    BY <1>9
  <2> HIDE DEF longer
  <2>3. \A i \in DOMAIN longer : longer[i].number < snapshots' /\ MadeBefore(Carriers, longer[i].number)
    BY <1>2, <1>3, <1>4, <1>6, <2>1, SMTT(30)
  <2>4. ASSUME NEW i \in DOMAIN longer, NEW j \in DOMAIN longer, i < j
        PROVE  longer[i].number < longer[j].number
    <3>1. i \in DOMAIN q /\ longer[i] = q[i]
      BY <2>1, <2>4
    <3>2. CASE j \in DOMAIN q /\ longer[j] = q[j]
      BY <1>6, <2>4, <3>1, <3>2
    <3>3. CASE longer[j] = x
      BY <1>2, <1>6, <3>1, <3>3
    <3> QED BY <2>1, <3>2, <3>3
  <2>5. SnapshotsInOrder'
    BY <1>5, <1>7, <2>2, <2>3, <2>4 DEF SnapshotsInOrder
  <2> QED BY <1>3, <2>5 DEF OrderInv, LinesInOrder
<1> QED BY <1>3, <1>8, <1>9

\* The lines of the first snapshot in the queue come after all that were made before.
LEMMA FormatsSnapshotOrder ==
  ASSUME SerialInv, OrderInv, FormatsSnapshot
  PROVE  OrderInv'
<1> DEFINE q == orderbook_queue_
           x == Head(q)
           t == Tail(q)
<1>1. /\ q # <<>> /\ db_updates' = LinesOf(x) /\ orderbook_queue_' = t
      /\ UNCHANGED <<sent, line, db_queue_, snapshots>>
  BY DEF FormatsSnapshot
<1>2. q \in Seq(Snapshots) /\ snapshots \in Nat
  BY SerialTypes
<1>3. /\ x = q[1] /\ 1 \in DOMAIN q /\ DOMAIN q \subseteq Nat /\ t \in Seq(Snapshots)
      /\ \A i \in DOMAIN t : i \in Nat /\ i + 1 \in DOMAIN q /\ t[i] = q[i + 1]
  BY <1>1, <1>2, TailElements, HeadTailProperties
<1>4. \A i \in DOMAIN t : 0 < i
  <2> HIDE DEF t
  <2> QED BY <1>3
<1> HIDE DEF t, x, q
<1>5. x \in Snapshots /\ x.number \in Nat /\ \A i \in DOMAIN q : q[i].number \in Nat
  BY <1>2, <1>3, SnapshotNumbers
<1>6. /\ MadeBefore(Carriers, snapshots)
      /\ \A i \in DOMAIN q : /\ q[i].number < snapshots
                             /\ MadeBefore(Carriers, q[i].number)
                             /\ \A j \in DOMAIN q : i < j => q[i].number < q[j].number
  BY DEF OrderInv, SnapshotsInOrder, q
<1>7. /\ InOrder(LinesOf(x))
      /\ \A p : Earlier(p, x.number) => Precedes(p, LinesOf(x))
      /\ \A k \in Nat : x.number < k => Earlier(LinesOf(x), k)
  BY <1>5, SnapshotLines
<1>8. LinesInOrder'
  <2>1. MadeBefore(Carriers, x.number)
    BY <1>3, <1>6
  <2>2. Precedes(sent, LinesOf(x)) /\ Precedes(line, LinesOf(x)) /\ Precedes(db_queue_, LinesOf(x))
    BY <1>7, <2>1 DEF MadeBefore, Carriers
  <2> QED BY <1>1, <1>7, <2>2 DEF OrderInv, LinesInOrder
<1>9. \A k \in Nat : MadeBefore(Carriers, k) /\ x.number < k => MadeBefore(Carriers', k)
  BY <1>1, <1>7 DEF MadeBefore, Carriers
<1>10. MadeBefore(Carriers', snapshots')
  BY <1>1, <1>2, <1>3, <1>6, <1>9
<1>11. ASSUME NEW i \in DOMAIN t
       PROVE  /\ t[i].number < snapshots
              /\ MadeBefore(Carriers', t[i].number)
              /\ \A j \in DOMAIN t : i < j => t[i].number < t[j].number
  <2>1. i + 1 \in DOMAIN q /\ t[i] = q[i + 1] /\ 1 < i + 1 /\ i \in Nat
    BY <1>3, <1>4
  <2>2. x.number < q[i + 1].number
    BY <1>3, <1>6, <2>1
  <2>3. MadeBefore(Carriers', q[i + 1].number)
    BY <1>5, <1>6, <1>9, <2>1, <2>2
  <2>4. \A j \in DOMAIN t : i < j => t[i].number < t[j].number
    <3> SUFFICES ASSUME NEW j \in DOMAIN t, i < j PROVE t[i].number < t[j].number
      OBVIOUS
    <3>1. j + 1 \in DOMAIN q /\ t[j] = q[j + 1] /\ i + 1 < j + 1
      BY <1>3, <2>1
    <3> QED BY <1>6, <2>1, <3>1
  <2> QED BY <1>6, <2>1, <2>3, <2>4
<1>12. SnapshotsInOrder'
  BY <1>1, <1>10, <1>11 DEF SnapshotsInOrder
<1> QED BY <1>8, <1>12 DEF OrderInv

\* A line that goes from one end of a queue to the other of the next keeps its place.
LEMMA NextOrder ==
  ASSUME SerialInv, OrderInv, Moves
  PROVE  OrderInv'
<1>0. /\ db_queue_ \in Seq(Lines) /\ db_updates \in Seq(Lines)
      /\ line \in Seq(Lines) /\ sent \in Seq(Lines)
  BY SerialTypes
<1>1. CASE UNCHANGED onTheWay
  BY <1>1 DEF onTheWay, OrderInv, LinesInOrder, SnapshotsInOrder, Carriers
<1>2. CASE TakesLogLine
  <2>1. PICK x \in Lines : ~IsBookLine(x) /\ db_queue_' = Append(db_queue_, x)
    BY <1>2 DEF TakesLogLine
  <2>2. UNCHANGED <<orderbook_queue_, db_updates, line, snapshots, sent>>
    BY <1>2 DEF TakesLogLine
  <2>3. /\ \A p : Precedes(p, <<x>>) /\ Precedes(<<x>>, p)
        /\ \A k : Earlier(<<x>>, k)
    BY <2>1, LogLines
  <2>4. /\ InOrder(db_queue_) /\ Precedes(db_queue_, <<x>>) => InOrder(db_queue_')
        /\ \A p : Precedes(p, db_queue_) /\ Precedes(p, <<x>>) => Precedes(p, db_queue_')
        /\ \A p : Precedes(db_queue_, p) /\ Precedes(<<x>>, p) => Precedes(db_queue_', p)
        /\ \A k : Earlier(db_queue_, k) /\ Earlier(<<x>>, k) => Earlier(db_queue_', k)
    BY <1>0, <2>1, AppendOrder
  <2>5. LinesInOrder'
    BY <2>2, <2>3, <2>4 DEF OrderInv, LinesInOrder
  <2>6. SnapshotsInOrder'
    BY <2>2, <2>3, <2>4 DEF OrderInv, SnapshotsInOrder, MadeBefore, Carriers
  <2> QED BY <2>5, <2>6 DEF OrderInv
<1>3. CASE MovesLine
  <2> DEFINE x == Head(db_updates)
  <2>1. /\ db_updates # <<>> /\ db_updates' = Tail(db_updates)
        /\ db_queue_' = db_queue_ \/ db_queue_' = Append(db_queue_, x)
        /\ UNCHANGED <<orderbook_queue_, line, snapshots, sent>>
    BY <1>3 DEF MovesLine
  <2>2. x \in Lines
    BY <1>0, <2>1, DequeuedFits
  <2>3. /\ InOrder(db_updates) => InOrder(db_updates') /\ Precedes(<<x>>, db_updates')
        /\ \A p : Precedes(p, db_updates) => Precedes(p, db_updates') /\ Precedes(p, <<x>>)
        /\ \A k : Earlier(db_updates, k) => Earlier(db_updates', k) /\ Earlier(<<x>>, k)
    BY <1>0, <2>1, TailOrder
  <2> HIDE DEF x
  <2>4. /\ InOrder(db_queue_) /\ Precedes(db_queue_, <<x>>) => InOrder(db_queue_')
        /\ \A p : Precedes(p, db_queue_) /\ Precedes(p, <<x>>) => Precedes(p, db_queue_')
        /\ \A p : Precedes(db_queue_, p) /\ Precedes(<<x>>, p) => Precedes(db_queue_', p)
        /\ \A k : Earlier(db_queue_, k) /\ Earlier(<<x>>, k) => Earlier(db_queue_', k)
    BY <1>0, <2>1, <2>2, AppendOrder
  <2>5. LinesInOrder'
    BY <2>1, <2>3, <2>4 DEF OrderInv, LinesInOrder
  <2>6. SnapshotsInOrder'
    BY <2>1, <2>3, <2>4 DEF OrderInv, SnapshotsInOrder, MadeBefore, Carriers
  <2> QED BY <2>5, <2>6 DEF OrderInv
<1>4. CASE TakesLine
  <2>1. /\ db_queue_ # <<>> /\ line' = <<Head(db_queue_)>> /\ db_queue_' = Tail(db_queue_)
        /\ UNCHANGED <<orderbook_queue_, db_updates, snapshots, sent>>
    BY <1>4 DEF TakesLine
  <2>2. /\ InOrder(db_queue_) => InOrder(db_queue_') /\ Precedes(line', db_queue_')
        /\ \A p : Precedes(p, db_queue_) => Precedes(p, db_queue_') /\ Precedes(p, line')
        /\ \A p : Precedes(db_queue_, p) => Precedes(db_queue_', p) /\ Precedes(line', p)
        /\ \A k : Earlier(db_queue_, k) => Earlier(db_queue_', k) /\ Earlier(line', k)
    BY <1>0, <2>1, TailOrder
  <2>3. LinesInOrder'
    BY <2>1, <2>2 DEF OrderInv, LinesInOrder
  <2>4. SnapshotsInOrder'
    BY <2>1, <2>2 DEF OrderInv, SnapshotsInOrder, MadeBefore, Carriers
  <2> QED BY <2>3, <2>4 DEF OrderInv
<1>5. CASE LosesLine
  <2>1. line' = <<>> /\ UNCHANGED <<orderbook_queue_, db_queue_, db_updates, snapshots, sent>>
    BY <1>5 DEF LosesLine
  <2>2. LinesInOrder'
    BY <2>1, NoLines DEF OrderInv, LinesInOrder
  <2>3. SnapshotsInOrder'
    BY <2>1, NoLines DEF OrderInv, SnapshotsInOrder, MadeBefore, Carriers
  <2> QED BY <2>2, <2>3 DEF OrderInv
<1>6. CASE SendsLine
  <2>1. /\ sent' = sent \o line /\ line' = <<>> /\ Len(line) = 1
        /\ UNCHANGED <<orderbook_queue_, db_queue_, db_updates, snapshots>>
    BY <1>6 DEF SendsLine
  <2>2. PICK x \in Lines : line = <<x>>
    BY <1>0, <2>1, OneLine
  <2>3. sent' = Append(sent, x)
    BY <1>0, <2>1, <2>2, AppendIsConcat
  <2>4. /\ InOrder(sent) /\ Precedes(sent, line) => InOrder(sent')
        /\ \A p : Precedes(sent, p) /\ Precedes(line, p) => Precedes(sent', p)
        /\ \A k : Earlier(sent, k) /\ Earlier(line, k) => Earlier(sent', k)
    BY <1>0, <2>2, <2>3, AppendOrder
  <2>5. LinesInOrder'
    BY <2>1, <2>4, NoLines DEF OrderInv, LinesInOrder
  <2>6. SnapshotsInOrder'
    BY <2>1, <2>4, NoLines DEF OrderInv, SnapshotsInOrder, MadeBefore, Carriers
  <2> QED BY <2>5, <2>6 DEF OrderInv
<1> QED
  BY <1>1, <1>2, <1>3, <1>4, <1>5, <1>6, TakesSnapshotOrder, FormatsSnapshotOrder DEF Moves

\* Both invariants at once, for the theorems.
LEMMA NextSerialOrder ==
  Serial /\ Serial' /\ SerialInv /\ OrderInv /\ [ManagerNext]_managerVars =>
    SerialInv' /\ OrderInv'
  BY NextSerial, NextOrder, StepMoves DEF SerialInv

\* As long as no calls of enqueue overlap, the socket is given the lines of the snapshots in
\* the order of the snapshots, none twice, however queues overflow, connections fail and
\* loggers call in between.
THEOREM SentCorrect == ManagerSpec /\ []Serial => []SentInOrder
<1>1. OrderInv => SentInOrder
  BY DEF OrderInv, LinesInOrder, SentInOrder
<1> QED BY <1>1, InitSerial, InitOrder, NextSerialOrder, PTL DEF ManagerSpec

-----------------------------------------------------------------------------
(* The relay.                                                              *)

\* The lines in the orderbook thread's hands are all of a snapshot.
UpdatesAreBook == \A i \in DOMAIN db_updates : IsBookLine(db_updates[i])

\* The lines that are older than the k-th snapshot.
Old(k) == {l \in Lines : l[2] < k}

\* A line that is kept is one, and what is kept of older lines is older.
LEMMA BookLinesType ==
  ASSUME NEW q \in Seq(Lines)
  PROVE  /\ BookLines(q) \in Seq(Lines)
         /\ \A k : Earlier(q, k) => BookLines(q) \in Seq(Old(k))
<1> DEFINE f == [l \in Lines |-> Kept(l)]
<1>1. \A i \in DOMAIN q : q[i] \in Lines
  BY ElementsOfSeq
<1>2. BookLines(q) = FlatMap(f, q)
  BY <1>1 DEF BookLines, FlatMap, Images
<1>3. Maps(f, Lines, Lines)
  BY DEF Kept, Maps
<1>4. ASSUME NEW k, Earlier(q, k) PROVE BookLines(q) \in Seq(Old(k))
  <2> DEFINE T == {l \in Lines : IsBookLine(l) => l[2] < k}
  <2>1. q \in Seq(T)
    <3>1. /\ Len(q) \in Nat /\ q \in [1 .. Len(q) -> Lines] /\ DOMAIN q = 1 .. Len(q)
      BY LenProperties
    <3>2. \A i \in DOMAIN q : q[i] \in T
      BY <1>1, <1>4 DEF Earlier
    <3> HIDE DEF T
    <3>3. q \in [1 .. Len(q) -> T]
      BY <3>1, <3>2
    <3> QED BY <3>1, <3>3, SeqDef
  <2>2. ASSUME NEW l \in T PROVE f[l] \in Seq(Old(k))
    <3>1. l \in Lines /\ f[l] = Kept(l) /\ (IsBookLine(l) => l[2] < k)
      OBVIOUS
    <3> HIDE DEF f, T
    <3>2. IsBookLine(l) => l \in Old(k)
      BY <3>1 DEF Old
    <3>3. \A S : <<>> \in Seq(S) /\ \A x \in S : <<x>> \in Seq(S)
      OBVIOUS
    <3> QED BY <3>1, <3>2, <3>3 DEF Kept
  <2>3. Maps(f, T, Old(k))
    BY <2>2 DEF Maps
  <2> HIDE DEF f, T
  <2>4. FlatMap(f, q) \in Seq(Old(k))
    BY <2>1, <2>3, FlatMapType
  <2> QED BY <1>2, <2>4
<1> HIDE DEF f
<1> QED BY <1>2, <1>3, <1>4, FlatMapType

\* enqueue and dequeue on what is kept of a queue.
LEMMA BookLinesMove ==
  ASSUME NEW q \in Seq(Lines)
  PROVE  /\ \A x \in Lines : BookLines(Append(q, x)) = BookLines(q) \o Kept(x)
         /\ q # <<>> => BookLines(q) = Kept(Head(q)) \o BookLines(Tail(q))
<1> DEFINE f == [l \in Lines |-> Kept(l)]
<1>1. \A r \in Seq(Lines) : BookLines(r) = FlatMap(f, r)
  <2> TAKE r \in Seq(Lines)
  <2>1. \A i \in DOMAIN r : r[i] \in Lines
    BY ElementsOfSeq
  <2> QED BY <2>1 DEF BookLines, FlatMap, Images
<1>2. \A l \in Lines : f[l] = Kept(l)
  OBVIOUS
<1>5. Maps(f, Lines, Lines)
  BY DEF Kept, Maps
<1> HIDE DEF f
<1>3. ASSUME NEW x \in Lines PROVE BookLines(Append(q, x)) = BookLines(q) \o Kept(x)
  <2>1. FlatMap(f, Append(q, x)) = FlatMap(f, q) \o f[x]
    BY <1>5, FlatMapAppend
  <2>2. Append(q, x) \in Seq(Lines)
    BY AppendProperties
  <2> QED BY <1>1, <1>2, <2>1, <2>2
<1>4. ASSUME q # <<>> PROVE BookLines(q) = Kept(Head(q)) \o BookLines(Tail(q))
  <2>1. FlatMap(f, q) = f[Head(q)] \o FlatMap(f, Tail(q))
    BY <1>4, <1>5, FlatMapTail
  <2>2. Head(q) \in Lines /\ Tail(q) \in Seq(Lines)
    BY <1>4, HeadTailProperties
  <2> QED BY <1>1, <1>2, <2>1, <2>2
<1> QED BY <1>3, <1>4

\* Of no line, nothing is kept.
LEMMA BookLinesOfNone == BookLines(<<>>) = <<>>
<1>1. BookLines(<<>>) = FlatMap([l \in Lines |-> Kept(l)], <<>>)
  <2>1. DOMAIN <<>> = {}
    OBVIOUS
  <2> QED BY <2>1 DEF BookLines, FlatMap, Images
<1> QED BY <1>1, FlatMapNone

\* Of one line, the line itself is kept or nothing.
LEMMA BookLinesOfOne ==
  ASSUME NEW x \in Lines
  PROVE  BookLines(<<x>>) = Kept(x)
<1>1. <<x>> \in Seq(Lines) /\ <<x>> # <<>> /\ Head(<<x>>) = x /\ Tail(<<x>>) = <<>>
  OBVIOUS
<1>2. BookLines(<<x>>) = Kept(x) \o <<>>
  BY <1>1, BookLinesMove, BookLinesOfNone
<1>3. Kept(x) \in Seq(Lines)
  BY DEF Kept
<1> QED BY <1>2, <1>3, ConcatEmptySeq

\* The same for the lines that snapshots will make.
LEMMA LinesOfAllType ==
  ASSUME NEW q \in Seq(Snapshots)
  PROVE  /\ LinesOfAll(q) \in Seq(Lines)
         /\ \A k \in Nat : (\A i \in DOMAIN q : q[i].number < k) => LinesOfAll(q) \in Seq(Old(k))
<1> DEFINE f == [s \in Snapshots |-> LinesOf(s)]
<1>1. \A i \in DOMAIN q : q[i] \in Snapshots
  BY ElementsOfSeq
<1>2. LinesOfAll(q) = FlatMap(f, q)
  BY <1>1 DEF LinesOfAll, FlatMap, Images
<1>3. Maps(f, Snapshots, Lines)
  BY LinesOfType DEF Maps
<1>4. ASSUME NEW k \in Nat, \A i \in DOMAIN q : q[i].number < k
      PROVE  LinesOfAll(q) \in Seq(Old(k))
  <2> DEFINE T == {s \in Snapshots : s.number < k}
  <2>1. q \in Seq(T)
    <3>1. /\ Len(q) \in Nat /\ q \in [1 .. Len(q) -> Snapshots] /\ DOMAIN q = 1 .. Len(q)
      BY LenProperties
    <3>2. \A i \in DOMAIN q : q[i] \in T
      BY <1>1, <1>4
    <3> HIDE DEF T
    <3>3. q \in [1 .. Len(q) -> T]
      BY <3>1, <3>2
    <3> QED BY <3>1, <3>3, SeqDef
  <2>2. ASSUME NEW s \in T PROVE f[s] \in Seq(Old(k))
    <3>1. s \in Snapshots /\ s.number < k /\ f[s] = LinesOf(s)
      OBVIOUS
    <3>5. s.levels \in Levels /\ s.levels \in Nat /\ s.number \in 0 .. MaxSnapshots - 1
      BY <3>1, DatabaseAssumption DEF Snapshots
    <3>2. \A i \in 1 .. s.levels : BookLine(s.number, i) \in Old(k)
      BY <3>1, <3>5 DEF Lines, Old, BookLine
    <3>3. LinesOf(s) \in [1 .. s.levels -> Old(k)]
      BY <3>2 DEF LinesOf
    <3> HIDE DEF T, f
    <3>4. ASSUME NEW n \in Nat PROVE [1 .. n -> Old(k)] \subseteq Seq(Old(k))
      BY SeqDef
    <3> QED BY <3>1, <3>3, <3>4, <3>5
  <2>3. Maps(f, T, Old(k))
    BY <2>2 DEF Maps
  <2> HIDE DEF f, T
  <2>4. FlatMap(f, q) \in Seq(Old(k))
    BY <2>1, <2>3, FlatMapType
  <2> QED BY <1>2, <2>4
<1> HIDE DEF f
<1> QED BY <1>2, <1>3, <1>4, FlatMapType

\* enqueue and dequeue on the lines that queued snapshots will make.
LEMMA LinesOfAllMove ==
  ASSUME NEW q \in Seq(Snapshots)
  PROVE  /\ \A s \in Snapshots :
              LinesOfAll(Append(q, s)) = LinesOfAll(q) \o LinesOf(s)
         /\ q # <<>> => LinesOfAll(q) = LinesOf(Head(q)) \o LinesOfAll(Tail(q))
<1> DEFINE f == [s \in Snapshots |-> LinesOf(s)]
<1>2. \A s \in Snapshots : f[s] = LinesOf(s)
  OBVIOUS
<1>5. Maps(f, Snapshots, Lines)
  BY LinesOfType DEF Maps
<1> HIDE DEF f
<1>1. \A r \in Seq(Snapshots) : LinesOfAll(r) = FlatMap(f, r)
  <2> TAKE r \in Seq(Snapshots)
  <2>1. \A i \in DOMAIN r : r[i] \in Snapshots
    BY ElementsOfSeq
  <2> QED BY <1>2, <2>1 DEF LinesOfAll, FlatMap, Images
<1>3. ASSUME NEW s \in Snapshots PROVE LinesOfAll(Append(q, s)) = LinesOfAll(q) \o LinesOf(s)
  <2>1. FlatMap(f, Append(q, s)) = FlatMap(f, q) \o f[s]
    BY <1>5, FlatMapAppend
  <2>2. Append(q, s) \in Seq(Snapshots)
    BY AppendProperties
  <2> QED BY <1>1, <1>2, <2>1, <2>2
<1>4. ASSUME q # <<>> PROVE LinesOfAll(q) = LinesOf(Head(q)) \o LinesOfAll(Tail(q))
  <2>1. FlatMap(f, q) = f[Head(q)] \o FlatMap(f, Tail(q))
    BY <1>4, <1>5, FlatMapTail
  <2>2. Head(q) \in Snapshots /\ Tail(q) \in Seq(Snapshots)
    BY <1>4, HeadTailProperties
  <2> QED BY <1>1, <1>2, <2>1, <2>2
<1> QED BY <1>3, <1>4

\* No snapshot, no line.
LEMMA LinesOfAllNone == LinesOfAll(<<>>) = <<>>
<1>1. LinesOfAll(<<>>) = FlatMap([s \in {} |-> LinesOf(s)], <<>>)
  <2>1. DOMAIN <<>> = {}
    OBVIOUS
  <2> QED BY <2>1 DEF LinesOfAll, FlatMap, Images
<1> QED BY <1>1, FlatMapNone

\* What BookRelay takes for what is on its way and for what was handed on.
Pending == BookLines(line) \o BookLines(db_queue_) \o db_updates \o LinesOfAll(orderbook_queue_)
Handed  == BookLines(sent)

\* Concatenation of lines.
LEMMA LinesConcat ==
  /\ \A a, b \in Seq(Lines) : a \o b \in Seq(Lines)
  /\ \A a, b, c \in Seq(Lines) : (a \o b) \o c = a \o (b \o c)
  /\ \A a \in Seq(Lines) : a \o <<>> = a /\ <<>> \o a = a
  /\ <<>> \in Seq(Lines)
  /\ \A x \in Lines : <<x>> \in Seq(Lines)
BY ConcatProperties, ConcatAssociative, ConcatEmptySeq, EmptySeq

\* At first there is no line in the orderbook thread's hands.
LEMMA InitUpdates == ManagerInit => UpdatesAreBook
BY DEF ManagerInit, UpdatesAreBook

\* LinesOf makes lines of a snapshot, and sending them takes them away.
LEMMA NextUpdates ==
  ASSUME SerialInv, UpdatesAreBook, Moves
  PROVE  UpdatesAreBook'
<1>1. CASE UNCHANGED db_updates
  BY <1>1 DEF UpdatesAreBook
<1>2. CASE FormatsSnapshot
  BY <1>2 DEF FormatsSnapshot, UpdatesAreBook, LinesOf, BookLine, IsBookLine
<1>3. CASE MovesLine
  <2>1. db_updates # <<>> /\ db_updates' = Tail(db_updates) /\ db_updates \in Seq(Lines)
    BY <1>3, SerialTypes DEF MovesLine
  <2>2. \A i \in DOMAIN db_updates' : i + 1 \in DOMAIN db_updates /\ db_updates'[i] = db_updates[i + 1]
    BY <2>1, TailElements
  <2> QED BY <2>2 DEF UpdatesAreBook
<1> QED
  BY <1>1, <1>2, <1>3 DEF Moves, TakesSnapshot, TakesLogLine, TakesLine, LosesLine, SendsLine, onTheWay

\* A step that moves no line of a snapshot is a stutter of the relay.
LEMMA Stutters ==
  ASSUME Pending' = Pending, Handed' = Handed
  PROVE  [BookRelay!Next]_(BookRelay!vars)
BY DEF BookRelay!vars, Pending, Handed

\* A snapshot whose lines are new, at the end of what is on its way, is accepted.
LEMMA Accepts ==
  ASSUME NEW s \in Snapshots, ToSet(LinesOf(s)) \cap ToSet(Pending \o Handed) = {},
         Pending' = Pending \o LinesOf(s), Handed' = Handed
  PROVE  [BookRelay!Next]_(BookRelay!vars)
<1> DEFINE items == LinesOf(s)
<1>1. items \in SnapshotBatches
  BY DEF SnapshotBatches
<1>2. BookRelay!Accept(items)
  <2> HIDE DEF items
  <2>1. ToSet(items) \cap ToSet(Pending \o Handed) = {} /\ Pending' = Pending \o items
    BY DEF items
  <2> QED BY <2>1 DEF BookRelay!Accept, BookRelay!ToSet, ToSet, Pending, Handed
<1> HIDE DEF items
<1> QED BY <1>1, <1>2 DEF BookRelay!Next

\* The first line that is on its way, moved to the socket, is handed on.
LEMMA Hands ==
  ASSUME Pending # <<>>, Pending' = Tail(Pending), Handed' = Append(Handed, Head(Pending))
  PROVE  [BookRelay!Next]_(BookRelay!vars)
BY DEF BookRelay!Next, BookRelay!Hand, Pending, Handed

\* A line taken out between others is lost.
LEMMA Loses ==
  ASSUME NEW a \in Seq(Lines), NEW x \in Lines, NEW b \in Seq(Lines),
         Pending = a \o (<<x>> \o b), Pending' = a \o b, Handed' = Handed
  PROVE  [BookRelay!Next]_(BookRelay!vars)
<1> DEFINE i == Len(a) + 1
<1>1. i \in DOMAIN Pending /\ Pending' = RemoveAt(Pending, i)
  BY RemoveBetween
<1> HIDE DEF i
<1>2. BookRelay!Lose
  BY <1>1 DEF BookRelay!Lose, BookRelay!RemoveAt, RemoveAt, Pending, Handed
<1> QED BY <1>2 DEF BookRelay!Next

\* The parts of what is on its way are sequences of lines.
LEMMA PartsAreLines ==
  ASSUME SerialInv
  PROVE  /\ BookLines(line) \in Seq(Lines) /\ BookLines(db_queue_) \in Seq(Lines)
         /\ db_updates \in Seq(Lines) /\ LinesOfAll(orderbook_queue_) \in Seq(Lines)
         /\ Handed \in Seq(Lines) /\ Pending \in Seq(Lines)
<1>1. /\ line \in Seq(Lines) /\ db_queue_ \in Seq(Lines) /\ sent \in Seq(Lines)
      /\ db_updates \in Seq(Lines)
      /\ orderbook_queue_ \in Seq(Snapshots)
  BY SerialTypes
<1>2. /\ BookLines(line) \in Seq(Lines) /\ BookLines(db_queue_) \in Seq(Lines)
      /\ BookLines(sent) \in Seq(Lines)
  BY <1>1, BookLinesType
<1>3. LinesOfAll(orderbook_queue_) \in Seq(Lines)
  BY <1>1, LinesOfAllType
<1> QED BY <1>1, <1>2, <1>3, LinesConcat DEF Pending, Handed

\* What is on its way and what was handed on is of snapshots that have been taken.
LEMMA PartsAreOld ==
  ASSUME SerialInv, OrderInv, UpdatesAreBook
  PROVE  \A l \in ToSet(Pending \o Handed) : l[2] < snapshots
<1> DEFINE S == Old(snapshots)
<1>1. /\ line \in Seq(Lines) /\ db_queue_ \in Seq(Lines) /\ sent \in Seq(Lines)
      /\ db_updates \in Seq(Lines) /\ snapshots \in Nat
      /\ orderbook_queue_ \in Seq(Snapshots)
  BY SerialTypes
<1>2. /\ Earlier(line, snapshots) /\ Earlier(db_queue_, snapshots) /\ Earlier(sent, snapshots)
      /\ Earlier(db_updates, snapshots)
      /\ \A i \in DOMAIN orderbook_queue_ : orderbook_queue_[i].number < snapshots
  BY DEF OrderInv, SnapshotsInOrder, MadeBefore, Carriers
<1>3. /\ BookLines(line) \in Seq(S) /\ BookLines(db_queue_) \in Seq(S) /\ BookLines(sent) \in Seq(S)
  BY <1>1, <1>2, BookLinesType
<1>4. LinesOfAll(orderbook_queue_) \in Seq(S)
  BY <1>1, <1>2, LinesOfAllType
<1>5. db_updates \in Seq(S)
  <2>1. /\ Len(db_updates) \in Nat /\ DOMAIN db_updates = 1 .. Len(db_updates)
        /\ db_updates \in [1 .. Len(db_updates) -> Lines]
    BY <1>1, LenProperties
  <2>2. \A i \in DOMAIN db_updates : db_updates[i] \in S
    BY <1>1, <1>2, <2>1 DEF UpdatesAreBook, Earlier, Old
  <2> HIDE DEF S
  <2>3. db_updates \in [1 .. Len(db_updates) -> S]
    BY <2>1, <2>2
  <2> QED BY <2>1, <2>3, SeqDef
<1> HIDE DEF S
<1>6. Pending \o Handed \in Seq(S)
  <2>1. \A a, b \in Seq(S) : a \o b \in Seq(S)
    BY ConcatProperties
  <2> QED BY <1>3, <1>4, <1>5, <2>1 DEF Pending, Handed
<1>7. \A l \in ToSet(Pending \o Handed) : l \in S
  <2> DEFINE q == Pending \o Handed
  <2>1. \A i \in DOMAIN q : q[i] \in S
    <3> HIDE DEF q
    <3>1. q \in Seq(S)
      BY <1>6 DEF q
    <3> QED BY <3>1, ElementsOfSeq
  <2> HIDE DEF q
  <2>2. \A l \in ToSet(q) : l \in S
    BY <2>1 DEF ToSet
  <2> QED BY <2>2 DEF q
<1> QED BY <1>7 DEF S, Old

-----------------------------------------------------------------------------
(* Every step is one of the relay's, or a stutter.                         *)

\* update_limit_orderbook has its snapshot accepted or drops it whole.
LEMMA TakesSnapshotRelays ==
  ASSUME SerialInv, OrderInv, UpdatesAreBook, TakesSnapshot
  PROVE  [BookRelay!Next]_(BookRelay!vars)
<1> DEFINE A == BookLines(line) \o BookLines(db_queue_) \o db_updates
           D == LinesOfAll(orderbook_queue_)
<1>1. PICK m \in Levels :
        orderbook_queue_' = Enqueued(orderbook_queue_, [number |-> snapshots, levels |-> m])
  BY DEF TakesSnapshot
<1> DEFINE x == [number |-> snapshots, levels |-> m]
<1>2. orderbook_queue_ \in Seq(Snapshots) /\ x \in Snapshots /\ snapshots \in Nat
  BY SerialTypes, NextNumbers DEF TakesSnapshot, SerialInv, ManagerIInv, ManagerTypeInv
<1>3. /\ UNCHANGED <<line, db_queue_, db_updates, sent>>
      /\ orderbook_queue_' = orderbook_queue_ \/ orderbook_queue_' = Append(orderbook_queue_, x)
  BY <1>1 DEF TakesSnapshot, Enqueued
<1>4. Handed' = Handed
  BY <1>3 DEF Handed
<1>5. CASE orderbook_queue_' = orderbook_queue_
  <2>1. Pending' = Pending
    BY <1>3, <1>5 DEF Pending
  <2> QED BY <1>4, <2>1, Stutters
<1>6. CASE orderbook_queue_' = Append(orderbook_queue_, x)
  <2>1. LinesOfAll(orderbook_queue_)' = D \o LinesOf(x)
    <3>1. \A s \in Snapshots : LinesOfAll(Append(orderbook_queue_, s)) = D \o LinesOf(s)
      BY <1>2, LinesOfAllMove
    <3> QED BY <1>2, <1>6, <3>1
  <2>2. A \in Seq(Lines) /\ D \in Seq(Lines) /\ LinesOf(x) \in Seq(Lines)
    <3>1. LinesOf(x) \in Seq(Lines)
      BY <1>2, LinesOfType
    <3> QED BY <3>1, PartsAreLines, LinesConcat
  <2>3. Pending' = A \o (D \o LinesOf(x)) /\ Pending = A \o D
    BY <1>3, <2>1 DEF Pending
  <2>4. Pending' = Pending \o LinesOf(x)
    <3> HIDE DEF A, D, x
    <3> QED BY <2>2, <2>3, LinesConcat
  <2>5. ToSet(LinesOf(x)) \cap ToSet(Pending \o Handed) = {}
    <3>1. \A l \in ToSet(LinesOf(x)) : l[2] = snapshots
      BY DEF LinesOf, BookLine, ToSet
    <3>2. \A l \in ToSet(Pending \o Handed) : l[2] < snapshots
      BY PartsAreOld
    <3> HIDE DEF x
    <3>3. ASSUME NEW l \in ToSet(LinesOf(x)), l \in ToSet(Pending \o Handed) PROVE FALSE
      <4>1. l[2] = snapshots /\ l[2] < snapshots
        BY <3>1, <3>2, <3>3
      <4> QED BY <1>2, <4>1
    <3> QED BY <3>3
  <2> HIDE DEF x
  <2> QED BY <1>2, <1>4, <2>4, <2>5, Accepts
<1> QED BY <1>3, <1>5, <1>6

\* A logger's line does not concern the relay.
LEMMA TakesLogLineRelays ==
  ASSUME SerialInv, TakesLogLine
  PROVE  [BookRelay!Next]_(BookRelay!vars)
<1>1. PICK x \in Lines : ~IsBookLine(x) /\ db_queue_' = Append(db_queue_, x)
  BY DEF TakesLogLine
<1>2. BookLines(db_queue_') = BookLines(db_queue_)
  <2>1. BookLines(Append(db_queue_, x)) = BookLines(db_queue_) \o <<>>
    BY <1>1, SerialTypes, BookLinesMove DEF Kept
  <2> QED BY <1>1, <2>1, PartsAreLines, LinesConcat
<1>3. Pending' = Pending /\ Handed' = Handed
  BY <1>2 DEF TakesLogLine, Pending, Handed
<1> QED BY <1>3, Stutters

\* The orderbook thread turns a snapshot into its lines, which keep their place.
LEMMA FormatsSnapshotRelays ==
  ASSUME SerialInv, FormatsSnapshot
  PROVE  [BookRelay!Next]_(BookRelay!vars)
<1> DEFINE A == BookLines(line)
           B == BookLines(db_queue_)
           C == db_updates
           D == LinesOfAll(orderbook_queue_)
           x == Head(orderbook_queue_)
           t == Tail(orderbook_queue_)
<1>0. /\ A \in Seq(Lines) /\ B \in Seq(Lines) /\ D \in Seq(Lines)
      /\ Pending = ((A \o B) \o C) \o D /\ A \o B \in Seq(Lines)
  BY PartsAreLines, LinesConcat DEF Pending
<1>1. /\ orderbook_queue_ # <<>> /\ db_updates' = LinesOf(x) /\ orderbook_queue_' = t
      /\ UNCHANGED <<sent, line, db_queue_>> /\ C = <<>> /\ orderbook_queue_ \in Seq(Snapshots)
  BY SerialTypes DEF FormatsSnapshot
<1>2. D = LinesOf(x) \o LinesOfAll(t)
  BY <1>1, LinesOfAllMove
<1>3. LinesOf(x) \in Seq(Lines) /\ LinesOfAll(t) \in Seq(Lines)
  <2>1. x \in Snapshots /\ t \in Seq(Snapshots)
    BY <1>1, HeadTailProperties
  <2> QED BY <2>1, LinesOfType, LinesOfAllType
<1>4. Pending' = ((A \o B) \o LinesOf(x)) \o LinesOfAll(t) /\ Handed' = Handed
  BY <1>1 DEF Pending, Handed
<1> HIDE DEF A, B, C, D, x, t
<1>5. Pending = (A \o B) \o (LinesOf(x) \o LinesOfAll(t))
  BY <1>0, <1>1, <1>2, LinesConcat
<1>6. Pending' = Pending
  <2> DEFINE u == LinesOf(x)
             v == LinesOfAll(t)
  <2>1. Cat(Cat(Cat(A, B), u), v) = Cat(Cat(A, B), Cat(u, v))
    <3> HIDE DEF u, v
    <3>1. u \in Seq(Lines) /\ v \in Seq(Lines)
      BY <1>3 DEF u, v
    <3> QED BY <1>0, <3>1, Regroup
  <2> QED BY <1>4, <1>5, <2>1 DEF Cat
<1> QED BY <1>4, <1>6, Stutters

\* A line that the orderbook thread moves to the db queue keeps its place or, when the queue
\* is full, is lost.
LEMMA MovesLineRelays ==
  ASSUME SerialInv, UpdatesAreBook, MovesLine
  PROVE  [BookRelay!Next]_(BookRelay!vars)
<1> DEFINE A == BookLines(line)
           B == BookLines(db_queue_)
           D == LinesOfAll(orderbook_queue_)
           x == Head(db_updates)
           t == Tail(db_updates)
<1>0. /\ A \in Seq(Lines) /\ B \in Seq(Lines) /\ D \in Seq(Lines)
      /\ Pending = ((A \o B) \o db_updates) \o D /\ A \o B \in Seq(Lines)
  BY PartsAreLines, LinesConcat DEF Pending
<1>1. /\ db_updates # <<>> /\ db_updates' = t
      /\ db_queue_' = db_queue_ \/ db_queue_' = Append(db_queue_, x)
      /\ UNCHANGED <<orderbook_queue_, line, sent>>
  BY DEF MovesLine
<1>2. db_updates \in Seq(Lines) /\ db_queue_ \in Seq(Lines)
  BY SerialTypes
<1>3. /\ x = db_updates[1] /\ 1 \in DOMAIN db_updates /\ x \in Lines /\ t \in Seq(Lines)
  BY <1>1, <1>2, TailElements, DequeuedFits
<1>4. Kept(x) = <<x>>
  BY <1>3 DEF UpdatesAreBook, Kept
<1>5. db_updates = <<x>> \o t /\ <<x>> \in Seq(Lines)
  BY <1>1, <1>2, <1>3
<1>6. Handed' = Handed
  BY <1>1 DEF Handed
<1>7. CASE db_queue_' = Append(db_queue_, x)
  <2>1. BookLines(db_queue_') = B \o <<x>>
    BY <1>2, <1>3, <1>4, <1>7, BookLinesMove
  <2>2. Pending' = ((A \o (B \o <<x>>)) \o t) \o D
    BY <1>1, <2>1 DEF Pending
  <2> HIDE DEF A, B, D, x, t
  <2>3. Pending = ((A \o B) \o (<<x>> \o t)) \o D
    BY <1>0, <1>5
  <2>4. (A \o (B \o <<x>>)) \o t = (A \o B) \o (<<x>> \o t)
    <3> DEFINE one == <<x>>
    <3>1. one \in Seq(Lines)
      BY <1>5
    <3> HIDE DEF one
    <3>2. Cat(Cat(A, Cat(B, one)), t) = Cat(Cat(A, B), Cat(one, t))
      BY <1>0, <1>3, <3>1, Regroup
    <3> QED BY <3>2 DEF Cat, one
  <2> QED BY <1>6, <2>2, <2>3, <2>4, Stutters
<1>8. CASE db_queue_' = db_queue_
  <2>1. Pending' = ((A \o B) \o t) \o D
    BY <1>1, <1>8 DEF Pending
  <2> HIDE DEF A, B, D, x, t
  <2>2. Pending = ((A \o B) \o (<<x>> \o t)) \o D
    BY <1>0, <1>5
  <2>3. /\ t \o D \in Seq(Lines)
        /\ Pending' = (A \o B) \o (t \o D)
    <3>1. Cat(Cat(Cat(A, B), t), D) = Cat(Cat(A, B), Cat(t, D))
      BY <1>0, <1>3, Regroup
    <3>2. Cat(t, D) \in Seq(Lines)
      BY <1>0, <1>3, CatAssociative
    <3> QED BY <2>1, <3>1, <3>2 DEF Cat
  <2>4. Pending = (A \o B) \o (<<x>> \o (t \o D))
    <3> DEFINE AB == A \o B
               one == <<x>>
    <3>1. one \in Seq(Lines) /\ AB \in Seq(Lines) /\ Pending = (AB \o (one \o t)) \o D
      BY <1>0, <1>5, <2>2
    <3> HIDE DEF one, AB
    <3>2. Cat(Cat(AB, Cat(one, t)), D) = Cat(AB, Cat(one, Cat(t, D)))
      BY <1>0, <1>3, <3>1, Regroup
    <3> QED BY <3>1, <3>2 DEF Cat, one, AB
  <2> QED BY <1>0, <1>3, <1>6, <2>3, <2>4, Loses
<1> QED BY <1>1, <1>7, <1>8

\* The db thread takes the first line, which keeps its place.
LEMMA TakesLineRelays ==
  ASSUME SerialInv, TakesLine
  PROVE  [BookRelay!Next]_(BookRelay!vars)
<1> DEFINE A == BookLines(line)
           B == BookLines(db_queue_)
           x == Head(db_queue_)
           t == Tail(db_queue_)
<1>0. A \in Seq(Lines) /\ B \in Seq(Lines) /\ db_queue_ \in Seq(Lines)
  BY PartsAreLines, SerialTypes
<1>1. /\ db_queue_ # <<>> /\ line' = <<x>> /\ db_queue_' = t /\ line = <<>>
      /\ UNCHANGED <<orderbook_queue_, db_updates, sent>>
  BY DEF TakesLine
<1>2. x \in Lines /\ t \in Seq(Lines)
  BY <1>0, <1>1, DequeuedFits
<1>3. B = Kept(x) \o BookLines(t)
  BY <1>0, <1>1, BookLinesMove
<1>4. A = <<>> /\ BookLines(line') = Kept(x)
  BY <1>1, <1>2, BookLinesOfNone, BookLinesOfOne
<1>5. A \o B = BookLines(line') \o BookLines(t)
  <2> HIDE DEF A, B
  <2> QED BY <1>0, <1>3, <1>4, LinesConcat
<1>6. Pending' = Pending /\ Handed' = Handed
  BY <1>1, <1>5 DEF Pending, Handed
<1> QED BY <1>6, Stutters

\* The line in the db thread's hands, a logger's or the relay's first, is handed on or lost.
LEMMA LineLeavesRelays ==
  ASSUME SerialInv, LosesLine \/ SendsLine
  PROVE  [BookRelay!Next]_(BookRelay!vars)
<1> DEFINE A == BookLines(line)
           B == BookLines(db_queue_)
           C == db_updates
           D == LinesOfAll(orderbook_queue_)
           R == B \o C \o D
<1>0. /\ A \in Seq(Lines) /\ B \in Seq(Lines) /\ C \in Seq(Lines) /\ D \in Seq(Lines)
      /\ Handed \in Seq(Lines) /\ line \in Seq(Lines) /\ sent \in Seq(Lines)
  BY PartsAreLines, SerialTypes
<1>1. /\ \A a \in Seq(Lines) : ((a \o B) \o C) \o D = a \o R
      /\ R \in Seq(Lines)
  <2> HIDE DEF B, C, D
  <2>1. B \o C \in Seq(Lines) /\ R \in Seq(Lines)
    BY <1>0, LinesConcat
  <2>2. ASSUME NEW a \in Seq(Lines) PROVE ((a \o B) \o C) \o D = a \o R
    <3>1. Cat(Cat(Cat(a, B), C), D) = Cat(a, Cat(Cat(B, C), D))
      BY <1>0, Regroup
    <3> QED BY <3>1 DEF Cat
  <2> QED BY <2>1, <2>2
<1>2. Pending = A \o R
  BY <1>0, <1>1 DEF Pending
<1>3. /\ Len(line) = 1 /\ line' = <<>> /\ UNCHANGED <<orderbook_queue_, db_queue_, db_updates>>
      /\ sent' = sent \o line \/ sent' = sent
  BY DEF LosesLine, SendsLine
<1>4. PICK x \in Lines : line = <<x>>
  BY <1>0, <1>3, OneLine
<1>5. A = Kept(x)
  BY <1>4, BookLinesOfOne
<1>6. Pending' = R
  <2>1. Pending' = ((<<>> \o B) \o C) \o D
    BY <1>3, BookLinesOfNone DEF Pending
  <2>2. <<>> \o R = R /\ <<>> \in Seq(Lines)
    BY <1>1, LinesConcat
  <2> QED BY <1>1, <2>1, <2>2
<1>7. CASE sent' = sent
  <2>1. Handed' = Handed
    BY <1>7 DEF Handed
  <2> HIDE DEF A, R
  <2>2. CASE A = <<>>
    <3>1. Pending' = Pending
      BY <1>1, <1>2, <1>6, <2>2, LinesConcat
    <3> QED BY <2>1, <3>1, Stutters
  <2>3. CASE A = <<x>>
    <3>1. /\ Pending = <<>> \o (<<x>> \o R) /\ Pending' = <<>> \o R /\ <<>> \in Seq(Lines)
      BY <1>0, <1>1, <1>2, <1>6, <2>3, LinesConcat
    <3> QED BY <1>1, <2>1, <3>1, Loses
  <2> QED BY <1>5, <2>2, <2>3 DEF Kept
<1>8. CASE sent' = sent \o line
  <2>1. Handed' = Handed \o A
    <3>1. sent' = Append(sent, x)
      BY <1>0, <1>4, <1>8, AppendIsConcat
    <3> QED BY <1>0, <1>5, <3>1, BookLinesMove DEF Handed
  <2> HIDE DEF A, R
  <2>2. CASE A = <<>>
    <3>1. Pending' = Pending /\ Handed' = Handed
      BY <1>0, <1>1, <1>2, <1>6, <2>1, <2>2, LinesConcat
    <3> QED BY <3>1, Stutters
  <2>3. CASE A = <<x>>
    <3>1. Pending = <<x>> \o R /\ Handed' = Handed \o <<x>>
      BY <1>2, <2>1, <2>3
    <3>2. /\ <<x>> \o R # <<>> /\ Head(<<x>> \o R) = x /\ Tail(<<x>> \o R) = R
      BY <1>1
    <3>3. Handed \o <<x>> = Append(Handed, x)
      BY <1>0, AppendIsConcat
    <3> QED BY <1>6, <3>1, <3>2, <3>3, Hands
  <2> QED BY <1>5, <2>2, <2>3 DEF Kept
<1> QED BY <1>3, <1>7, <1>8

LEMMA NextRelays ==
  ASSUME SerialInv, OrderInv, UpdatesAreBook, Moves
  PROVE  [BookRelay!Next]_(BookRelay!vars)
<1>1. CASE UNCHANGED onTheWay
  <2>1. Pending' = Pending /\ Handed' = Handed
    BY <1>1 DEF onTheWay, Pending, Handed
  <2> QED BY <2>1, Stutters
<1> QED
  BY <1>1, TakesSnapshotRelays, TakesLogLineRelays, FormatsSnapshotRelays, MovesLineRelays,
     TakesLineRelays, LineLeavesRelays DEF Moves

\* At first nothing is on its way.
LEMMA InitRelays == ManagerInit => BookRelay!Init
<1> SUFFICES ASSUME ManagerInit PROVE BookRelay!Init
  OBVIOUS
<1>1. Pending = <<>> /\ Handed = <<>>
  <2>1. /\ line = <<>> /\ db_queue_ = <<>> /\ db_updates = <<>> /\ orderbook_queue_ = <<>>
        /\ sent = <<>>
    BY NothingQueued DEF ManagerInit
  <2>2. BookLines(line) = <<>> /\ BookLines(db_queue_) = <<>> /\ LinesOfAll(orderbook_queue_) = <<>>
    BY <2>1, BookLinesOfNone, LinesOfAllNone
  <2>3. (<<>> \o <<>>) \o <<>> \o <<>> = <<>>
    BY LinesConcat
  <2> QED BY <2>1, <2>2, <2>3, BookLinesOfNone DEF Pending, Handed
<1> QED BY <1>1 DEF BookRelay!Init, Pending, Handed

\* As long as no calls of enqueue overlap, the lines of the snapshots that
\* update_limit_orderbook could enqueue reach the socket in order, none twice and none that was
\* not made; those that are lost are lost for good, and only to a full queue, a connection that
\* fails or a send that fails.
THEOREM RelayCorrect == ManagerSpec /\ []Serial => RelaysSnapshots
<1>1. SerialInv /\ UpdatesAreBook /\ [ManagerNext]_managerVars => UpdatesAreBook'
  BY NextUpdates, StepMoves DEF SerialInv
<1>2. SerialInv /\ OrderInv /\ UpdatesAreBook /\ [ManagerNext]_managerVars =>
        [BookRelay!Next]_(BookRelay!vars)
  BY NextRelays, StepMoves DEF SerialInv
<1> QED
  BY <1>1, <1>2, InitSerial, InitOrder, InitUpdates, InitRelays, NextSerialOrder, PTL
     DEF ManagerSpec, RelaysSnapshots, BookRelay!Spec
=============================================================================
