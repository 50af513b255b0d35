-------------------------- MODULE DatabaseManager --------------------------
(***************************************************************************)
(* DatabaseManager (src/src/database.cpp, src/include/database.h): its two *)
(* threads, its two queues, the socket and the destructor.                 *)
(*                                                                         *)
(* The GUI thread hands over snapshots of the book, the orderbook thread   *)
(* turns them into lines, the db thread sends the lines.  Loggers send     *)
(* lines too, each from a thread of its own, so that db_queue_ has several *)
(* producers: it is the ring of LockFreeQueue, step by step, whose buffer  *)
(* and calls this module EXTENDS.  orderbook_queue_ has one producer and   *)
(* one consumer and is the bounded FIFO that LockFreeQueue implements for  *)
(* them: a call on it is one step.                                         *)
(***************************************************************************)
EXTENDS LockFreeQueue, SequencesExt

CONSTANTS
  Loggers,            (* the threads that call send_line_protocol_tcp      *)
  MaxSnapshots,       (* bound: calls of update_limit_orderbook            *)
  Levels,             (* how many lines a snapshot can make                *)
  MaxResults,         (* bound: lines from the loggers                     *)
  OrderbookCapacity

\* A line is the i-th of a snapshot, or the one of a logger's result.
BookLine(number, i) == <<"book", number, i>>
LogLine(number) == <<"log", number, 0>>

Lines ==
  ({"book"} \X (0 .. MaxSnapshots - 1) \X UNION {1 .. n : n \in Levels})
    \cup ({"log"} \X (0 .. MaxResults - 1) \X {0})

Snapshots == [number : 0 .. MaxSnapshots - 1, levels : Levels]

ASSUME DatabaseAssumption ==
  /\ MaxSnapshots \in Nat
  /\ Levels \subseteq Nat
  /\ MaxResults \in Nat
  /\ OrderbookCapacity \in Nat
  /\ "orderbook" \notin Loggers
  /\ Producers = Loggers \cup {"orderbook"}
  /\ Items = Lines

VARIABLES
  orderbook_queue_,
  stop_threads_,
  sock_,      (* "closed" is -1                                            *)
  pc,         (* where the two threads are, and the thread that owns the   *)
              (* manager: "running", or how far the destructor is; all are *)
              (* "killed" when the process is                              *)
  db_updates, (* the lines the orderbook thread has still to enqueue       *)
  line,       (* the line in the db thread's hands, if any                 *)
  snapshots,  (* counts the snapshots                                      *)
  results,    (* counts the loggers' lines                                 *)
  sent        (* what send was given, in order                             *)

caller == <<snapshots, results>>
manager ==
  <<orderbook_queue_, stop_threads_, sock_, pc, db_updates, line, caller, sent>>
managerVars == <<vars, manager>>

\* What is in the ring, oldest first.
db_queue_ == Contents

Threads == {"orderbook", "db"}

ManagerInit ==
  /\ Init
  /\ orderbook_queue_ = <<>>
  /\ stop_threads_ = FALSE
  /\ sock_ = "closed"
  /\ pc = [t \in Threads \cup {"owner"} |-> IF t = "owner" THEN "running" ELSE "loop"]
  /\ db_updates = <<>>
  /\ line = <<>>
  /\ snapshots = 0
  /\ results = 0
  /\ sent = <<>>

GoTo(t, label) == pc' = [pc EXCEPT ![t] = label]

\* There is a manager to call.
Exists == pc.owner \notin {"destroyed", "killed"}

\* Mutant: one too many.
EnqueuedOneMore(queue, x) ==
  IF Len(queue) <= OrderbookCapacity THEN Append(queue, x) ELSE queue

\* enqueue on orderbook_queue_, whose result nobody looks at.
Enqueued(queue, x) == IF Len(queue) < OrderbookCapacity THEN Append(queue, x) ELSE queue

\* A snapshot's lines: its bids, then its offers.
LinesOf(snapshot) == [i \in 1 .. snapshot.levels |-> BookLine(snapshot.number, i)]

-----------------------------------------------------------------------------
(* The callers. *)

UpdateLimitOrderbook ==
  /\ pc.owner = "running"
  /\ snapshots < MaxSnapshots
  /\ snapshots' = snapshots + 1
  /\ \E n \in Levels :
       orderbook_queue_' = Enqueued(orderbook_queue_, [number |-> snapshots, levels |-> n])
  /\ UNCHANGED <<vars, stop_threads_, sock_, pc, db_updates, line, results, sent>>

\* send_line_protocol_tcp, called by a logger's thread: db_queue_->enqueue begins.
SendLineProtocolTcp(p) ==
  /\ Exists
  /\ results < MaxResults
  /\ results' = results + 1
  /\ Enqueue(p, LogLine(results))
  /\ UNCHANGED <<orderbook_queue_, stop_threads_, sock_, pc, db_updates, line, snapshots, sent>>

\* That call takes its next step, whatever any other producer is doing.
LoggerEnqueues(p) == Exists /\ ProducerSteps(p) /\ UNCHANGED manager

\* Mutant: the socket is closed before the threads are joined.
StopThreadsCloses ==
  /\ pc.owner = "running"
  /\ stop_threads_' = TRUE
  /\ sock_' = "closed"
  /\ GoTo("owner", "join_db")
  /\ UNCHANGED <<vars, orderbook_queue_, db_updates, line, caller, sent>>

\* The destructor sets the flag, joins one thread, then the other.
StopThreads ==
  /\ pc.owner = "running"
  /\ stop_threads_' = TRUE
  /\ GoTo("owner", "join_db")
  /\ UNCHANGED <<vars, orderbook_queue_, sock_, db_updates, line, caller, sent>>

JoinDb ==
  /\ pc.owner = "join_db"
  /\ pc.db = "done"
  /\ GoTo("owner", "join_orderbook")
  /\ UNCHANGED <<vars, orderbook_queue_, stop_threads_, sock_, db_updates, line, caller, sent>>

JoinOrderbook ==
  /\ pc.owner = "join_orderbook"
  /\ pc.orderbook = "done"
  /\ sock_' = "closed"
  /\ GoTo("owner", "destroyed")
  /\ UNCHANGED <<vars, orderbook_queue_, stop_threads_, db_updates, line, caller, sent>>

-----------------------------------------------------------------------------
(* process_orderbook_queue *)

\* while (!stop_threads_ || !orderbook_queue_->empty())
TestLoop ==
  \/ /\ pc.orderbook = "loop"
     /\ GoTo("orderbook", IF stop_threads_ THEN "ask_empty" ELSE "dequeue")
  \/ /\ pc.orderbook = "ask_empty"
     /\ GoTo("orderbook", IF orderbook_queue_ = <<>> THEN "done" ELSE "dequeue")

\* dequeue gave nothing: sleep for a millisecond.
FindNothing ==
  /\ pc.orderbook = "dequeue"
  /\ orderbook_queue_ = <<>>
  /\ GoTo("orderbook", "loop")

SnapshotEnqueued ==
  /\ pc.orderbook = "send"
  /\ db_updates = <<>>
  /\ GoTo("orderbook", "loop")

OrderbookLoops ==
  /\ TestLoop \/ FindNothing \/ SnapshotEnqueued
  /\ UNCHANGED <<vars, orderbook_queue_, stop_threads_, sock_, db_updates, line, caller, sent>>

DequeueSnapshot ==
  /\ pc.orderbook = "dequeue"
  /\ orderbook_queue_ # <<>>
  /\ db_updates' = LinesOf(Head(orderbook_queue_))
  /\ orderbook_queue_' = Tail(orderbook_queue_)
  /\ GoTo("orderbook", "send")
  /\ UNCHANGED <<vars, stop_threads_, sock_, line, caller, sent>>

\* db_queue_->enqueue begins.
EnqueueLine ==
  /\ pc.orderbook = "send"
  /\ db_updates # <<>>
  /\ Enqueue("orderbook", Head(db_updates))
  /\ UNCHANGED manager

\* Mutant: a refused line goes behind the others.
LineEnqueuesAgain ==
  /\ pc.orderbook = "send"
  /\ ProducerSteps("orderbook")
  /\ db_updates' = IF ppc'["orderbook"] # "idle" THEN db_updates
                   ELSE IF reply'["orderbook"] = "accepted" THEN Tail(db_updates)
                   ELSE Append(Tail(db_updates), Head(db_updates))
  /\ UNCHANGED <<orderbook_queue_, stop_threads_, sock_, pc, line, caller, sent>>

\* It takes its next step; the line is done with when it returns, accepted or not.
LineEnqueues ==
  /\ pc.orderbook = "send"
  /\ ProducerSteps("orderbook")
  /\ db_updates' = IF ppc'["orderbook"] = "idle" THEN Tail(db_updates) ELSE db_updates
  /\ UNCHANGED <<orderbook_queue_, stop_threads_, sock_, pc, line, caller, sent>>

-----------------------------------------------------------------------------
(* process_database_queue *)

\* Mutant: while (!stop_threads_)
ReadFlagAlone ==
  /\ pc.db = "loop"
  /\ GoTo("db", IF stop_threads_ THEN "done" ELSE "dequeue")
  /\ UNCHANGED <<vars, orderbook_queue_, stop_threads_, sock_, db_updates, line, caller, sent>>

\* while (!stop_threads_ || !db_queue_->empty())
ReadFlag ==
  /\ pc.db = "loop"
  /\ GoTo("db", IF stop_threads_ THEN "ask_empty" ELSE "dequeue")
  /\ UNCHANGED <<vars, orderbook_queue_, stop_threads_, sock_, db_updates, line, caller, sent>>

AskEmpty == pc.db = "ask_empty" /\ Empty /\ UNCHANGED manager

HearEmpty ==
  /\ pc.db = "ask_empty"
  /\ ReturnCompared
  /\ GoTo("db", IF saw_empty' THEN "done" ELSE "dequeue")
  /\ UNCHANGED <<orderbook_queue_, stop_threads_, sock_, db_updates, line, caller, sent>>

DequeueLine == pc.db = "dequeue" /\ Dequeue /\ UNCHANGED manager

\* dequeue takes its next step; when it returns there is a line, or nothing and the
\* thread sleeps for a millisecond.
LineDequeues ==
  /\ pc.db = "dequeue"
  /\ ConsumerSteps
  /\ \/ cpc' # "idle" /\ UNCHANGED <<pc, line>>
     \/ cpc' = "idle" /\ got' = None /\ GoTo("db", "loop") /\ UNCHANGED line
     \/ cpc' = "idle" /\ got' # None /\ GoTo("db", "connect") /\ line' = <<got'>>
  /\ UNCHANGED <<orderbook_queue_, stop_threads_, sock_, db_updates, caller, sent>>

\* connect_to_server, which does nothing when there is a connection.
ConnectToServer ==
  /\ pc.db = "connect"
  /\ sock_' = "open"
  /\ GoTo("db", "send")
  /\ UNCHANGED <<vars, orderbook_queue_, stop_threads_, db_updates, line, caller, sent>>

\* No socket, no option, no server: the line is lost.
ConnectionFails ==
  /\ pc.db = "connect"
  /\ sock_ = "closed"
  /\ line' = <<>>
  /\ GoTo("db", "loop")
  /\ UNCHANGED <<vars, orderbook_queue_, stop_threads_, sock_, db_updates, caller, sent>>

Send ==
  /\ pc.db = "send"
  /\ sent' = sent \o line
  /\ line' = <<>>
  /\ GoTo("db", "loop")
  /\ UNCHANGED <<vars, orderbook_queue_, stop_threads_, sock_, db_updates, caller>>

\* Mutant: the line is kept for the next connection.
SendFailsKeeps ==
  /\ pc.db = "send"
  /\ sock_' = "closed"
  /\ GoTo("db", "connect")
  /\ UNCHANGED <<vars, orderbook_queue_, stop_threads_, db_updates, line, caller, sent>>

\* send returns an error: the line is lost, and the next one makes a new connection.
SendFails ==
  /\ pc.db = "send"
  /\ sock_' = "closed"
  /\ line' = <<>>
  /\ GoTo("db", "loop")
  /\ UNCHANGED <<vars, orderbook_queue_, stop_threads_, db_updates, caller, sent>>

-----------------------------------------------------------------------------
(* The end of the process.  send has no MSG_NOSIGNAL and nobody ignores    *)
(* SIGPIPE: a peer that has gone ends the process.  So may a line (a       *)
(* std::string) that two threads construct on one slot, or that is moved   *)
(* out of a slot where there is none.                                      *)

UndefinedBehaviour ==
  ~NoStorageRace \/ (cpc \in {"move", "destroy"} /\ storage[curr_head] = Raw)

Killed ==
  /\ pc.owner # "destroyed"
  /\ pc.db = "send" \/ UndefinedBehaviour
  /\ pc' = [t \in DOMAIN pc |-> "killed"]
  /\ UNCHANGED <<vars, orderbook_queue_, stop_threads_, sock_, db_updates, line, caller, sent>>

-----------------------------------------------------------------------------
Callers ==
  UpdateLimitOrderbook \/ StopThreads \/ \E p \in Loggers : SendLineProtocolTcp(p)

LoggersGoOn == \E p \in Loggers : LoggerEnqueues(p)

Joins == JoinDb \/ JoinOrderbook

OrderbookThread == OrderbookLoops \/ DequeueSnapshot \/ EnqueueLine \/ LineEnqueues

DbLoops == ReadFlag \/ AskEmpty \/ HearEmpty \/ DequeueLine \/ LineDequeues

ServerCalls == ConnectToServer \/ ConnectionFails \/ Send \/ SendFails

ManagerNext ==
  Callers \/ LoggersGoOn \/ Joins \/ OrderbookThread \/ DbLoops \/ ServerCalls \/ Killed

ManagerSpec == ManagerInit /\ [][ManagerNext]_managerVars

(***************************************************************************)
(* The threads, a call of enqueue and a destructor that has begun go on;   *)
(* nobody has to call.  That connect and send return is a fact about the   *)
(* network and the server, and an assumption of its own: a server that     *)
(* accepts and never reads blocks send, and the db thread, for ever.       *)
(***************************************************************************)
ThreadsGoOn ==
  /\ \A p \in Loggers : WF_managerVars(LoggerEnqueues(p))
  /\ WF_managerVars(Joins)
  /\ WF_managerVars(OrderbookThread)
  /\ WF_managerVars(DbLoops)

ServerAnswers == WF_managerVars(ServerCalls)

ManagerFairSpec == ManagerSpec /\ ThreadsGoOn /\ ServerAnswers

(***************************************************************************)
(* Nothing in the code keeps the producers of db_queue_ from calling       *)
(* enqueue at once, and ManagerSpec lets them.  What the queue is for then *)
(* holds no longer: a line is overwritten, skipped, or read after a later  *)
(* one, and the queue may be left so that nobody can empty it.  SerialSpec *)
(* is the same program as long as no two calls overlap, whatever their     *)
(* order: what it is said to do below, it does until they first do.        *)
(***************************************************************************)
SerialSpec == ManagerInit /\ [][ManagerNext /\ Serial']_managerVars

SerialFairSpec ==
  /\ SerialSpec
  /\ \A p \in Loggers : WF_managerVars(LoggerEnqueues(p) /\ Serial')
  /\ WF_managerVars(Joins)
  /\ WF_managerVars(OrderbookThread /\ Serial')
  /\ WF_managerVars(DbLoops)
  /\ ServerAnswers

-----------------------------------------------------------------------------
(* Properties. *)

\* A slot whose line is gone may be read when calls of enqueue overlap.
MaybeLines == Lines \cup {Raw}

ManagerTypeOK ==
  /\ TypeOK
  /\ orderbook_queue_ \in Seq(Snapshots)
  /\ Len(orderbook_queue_) <= OrderbookCapacity
  /\ stop_threads_ \in BOOLEAN
  /\ sock_ \in {"open", "closed"}
  /\ pc.owner \in {"running", "join_db", "join_orderbook", "destroyed", "killed"}
  /\ pc.orderbook \in {"loop", "ask_empty", "dequeue", "send", "done", "killed"}
  /\ pc.db \in {"loop", "ask_empty", "dequeue", "connect", "send", "done", "killed"}
  /\ db_updates \in Seq(Lines)
  /\ line \in Seq(MaybeLines)
  /\ pc.db # "killed" => Len(line) = IF pc.db \in {"connect", "send"} THEN 1 ELSE 0
  /\ snapshots \in 0 .. MaxSnapshots
  /\ results \in 0 .. MaxResults
  /\ sent \in Seq(MaybeLines)

\* No snapshot that was accepted is left behind by the destructor, though the flag
\* and the queue are read one after the other while both change.
SnapshotsAreFormatted ==
  pc.owner = "destroyed" => orderbook_queue_ = <<>> /\ db_updates = <<>>

\* The db thread never sends on a socket that somebody has closed: the destructor
\* uses the socket only after it has joined that thread.
SendsOnOpenSocket == pc.db = "send" => sock_ = "open"

\* The destructor neither leaves a snapshot behind nor takes the socket from its thread,
\* whatever the producers of db_queue_ do to each other.
DestructorIsSafe == SnapshotsAreFormatted /\ SendsOnOpenSocket

\* empty() says that there is a line and dequeue that there is none: tail_ was set back
\* behind head_, and what is at head_ is no line that anybody wrote.
Jammed == head_ # tail_ /\ ~written[head_]

\* The destructor returns, whether or not there is a server, unless overlapping calls
\* of enqueue have jammed the queue: the db thread then polls it for ever, and the
\* destructor waits to join that thread.
DestructorReturnsOrJams ==
  stop_threads_ ~> (pc.owner \in {"destroyed", "killed"} \/ []Jammed)

IsBookLine(l) == l[1] = "book"

\* The line itself, if it is a snapshot's.
Kept(l) == IF IsBookLine(l) THEN <<l>> ELSE <<>>

BookLines(lines) == FlattenSeq([i \in DOMAIN lines |-> Kept(lines[i])])

\* The lines that the snapshots in a queue will make.
LinesOfAll(queue) == FlattenSeq([i \in DOMAIN queue |-> LinesOf(queue[i])])

\* The lines that one snapshot can make, in one piece.
SnapshotBatches == {LinesOf(s) : s \in Snapshots}

\* As long as no calls of enqueue overlap: through two queues and two threads, the lines
\* of the snapshots reach the socket in the order of the snapshots and of their levels,
\* each at most once, however queues overflow, connections fail and loggers' lines come
\* between.
BookRelay == INSTANCE Relay WITH
  Batches <- SnapshotBatches,
  Lossy   <- TRUE,
  pending <- BookLines(line) \o BookLines(db_queue_) \o db_updates \o LinesOfAll(orderbook_queue_),
  done    <- BookLines(sent)

RelaysSnapshots == BookRelay!Spec

\* Line a is of an earlier snapshot than line b, or of an earlier level of the same.
Before(a, b) == a[2] < b[2] \/ (a[2] = b[2] /\ a[3] < b[3])

InOrder(lines) ==
  \A i, j \in DOMAIN lines :
    i < j /\ IsBookLine(lines[i]) /\ IsBookLine(lines[j]) => Before(lines[i], lines[j])

\* As long as no calls of enqueue overlap: what the socket has seen is sorted by snapshot
\* and level and repeats no line, a reconnect never sends an older line again or after a
\* newer one.
SentInOrder == InOrder(sent)

\* As long as no calls of enqueue overlap: a line in db_queue_ before the destructor is
\* called is taken by the db thread, not left behind, unless the process is killed.  (A
\* line that comes later may be left: the db thread is joined first.)
AcceptedLineIsTaken ==
  \A l \in Lines :
    Contains(db_queue_, l) /\ ~stop_threads_ ~>
      (~Contains(db_queue_, l) \/ pc.owner = "killed")

\* As long as no calls of enqueue overlap, the destructor returns, whether or not there is
\* a server: nothing else can jam the queue.
DestructorReturns == stop_threads_ ~> pc.owner \in {"destroyed", "killed"}
=============================================================================
