---------------------------- MODULE AsyncLogger ----------------------------
(***************************************************************************)
(* AsyncLogger (src/src/async_logger.cpp), the loggers of one strategy     *)
(* after another: a restart of the backtest (reset_state in                *)
(* src/src/backtester.cpp) constructs the next logger, on the same file,   *)
(* before it destroys the last one.                                        *)
(*                                                                         *)
(* The strategy's thread logs results; a logger's csv thread copies them   *)
(* into the mapped file, its db thread passes them to DatabaseManager.     *)
(* A line is as many units long as the model needs to tell a cut one from  *)
(* a whole one.                                                            *)
(***************************************************************************)
EXTENDS Naturals, SequencesExt

CONSTANTS
  MaxRuns,      (* bound: strategies constructed                           *)
  MaxResults,   (* bound: calls of log                                     *)
  Lengths,      (* how long a line may be                                  *)
  BufferSizes,  (* the size the constructor is called with: 1, which is    *)
                (* what the "true" of src/include/strategy.h:40 becomes,   *)
                (* or that of a caller who relies on the default           *)
  PageSize,     (* what is mapped is a whole number of pages               *)
  Capacity      (* of csv_queue_ and db_queue_                             *)

ASSUME LoggerAssumption ==
  /\ MaxRuns \in Nat \ {0}
  /\ MaxResults \in Nat
  /\ PageSize \in Nat \ {0}
  /\ Lengths \subseteq 1 .. PageSize
  /\ BufferSizes \subseteq Nat \ {0}
  /\ Capacity \in Nat

VARIABLES
  buffer_size_,
  loggers,      (* the state of the logger of each run so far              *)
  pages,        (* what is in the pages that the loggers share             *)
  strategy,     (* where the strategy's thread is: "running", destroying    *)
                (* the logger of the run before, or "ended"                *)
  logged,       (* counts the calls of log                                 *)
  relayed       (* what send_line_protocol_tcp was called with             *)

vars == <<buffer_size_, loggers, pages, strategy, logged, relayed>>

Run == Len(loggers)

\* ftruncate made the file buffer_size_ long: what lies past it in the last page is
\* not written.
file == [i \in {j \in DOMAIN pages : j < buffer_size_} |-> pages[i]]

\* The header is one unit, and no result has number 0.
Header(run) == [run |-> run, number |-> 0, length |-> 1]

Unit(entry, k) == [entry |-> entry, k |-> k]

Write(at, unit) == pages' = [i \in DOMAIN pages \cup {at} |-> IF i = at THEN unit ELSE pages[i]]

WriteHeader(run) == Write(0, Unit(Header(run), 1))

NewLogger ==
  [running_ |-> TRUE, mapped |-> TRUE, buffer_offset_ |-> 1,
   csv_queue_ |-> <<>>, csv_pc |-> "loop", csv_entry |-> <<>>, copied |-> 0,
   db_queue_  |-> <<>>, db_pc  |-> "loop", db_entry  |-> <<>>]

Init ==
  /\ buffer_size_ \in BufferSizes
  /\ loggers = <<NewLogger>>
  /\ pages = [i \in {0} |-> Unit(Header(1), 1)]
  /\ strategy = "running"
  /\ logged = 0
  /\ relayed = <<>>

-----------------------------------------------------------------------------
(* The strategy's thread. *)

Enqueued(queue, x) == IF Len(queue) < Capacity THEN Append(queue, x) ELSE queue

\* log drops the result from a queue that is full.
Log ==
  /\ strategy = "running"
  /\ logged < MaxResults
  /\ logged' = logged + 1
  /\ \E n \in Lengths :
       LET entry == [run |-> Run, number |-> logged + 1, length |-> n]
       IN loggers' = [loggers EXCEPT ![Run].csv_queue_ = Enqueued(@, entry),
                                     ![Run].db_queue_ = Enqueued(@, entry)]
  /\ UNCHANGED <<buffer_size_, pages, strategy, relayed>>

Construct ==
  /\ strategy = "running"
  /\ Run < MaxRuns
  /\ loggers' = Append(loggers, NewLogger)
  /\ WriteHeader(Run + 1)
  /\ strategy' = "stop"
  /\ UNCHANGED <<buffer_size_, logged, relayed>>

\* open, ftruncate or mmap fails: nothing catches the exception before main does, and
\* main returns. The threads go on until the process is gone.
ConstructThrows ==
  /\ strategy = "running"
  /\ Run < MaxRuns
  /\ strategy' = "ended"
  /\ UNCHANGED <<buffer_size_, loggers, pages, logged, relayed>>

\* The destructor of the logger before the current one.
Old == Run - 1

\* Mutant: running_ is left as it is.
StopUnset ==
  /\ strategy = "stop"
  /\ strategy' = "join_csv"
  /\ UNCHANGED <<buffer_size_, loggers, pages, logged, relayed>>

Stop ==
  /\ strategy = "stop"
  /\ loggers' = [loggers EXCEPT ![Old].running_ = FALSE]
  /\ strategy' = "join_csv"
  /\ UNCHANGED <<buffer_size_, pages, logged, relayed>>

\* Mutant: the csv thread is not waited for.
JoinCsvDetached ==
  /\ strategy = "join_csv"
  /\ strategy' = "join_db"
  /\ UNCHANGED <<buffer_size_, loggers, pages, logged, relayed>>

JoinCsv ==
  /\ strategy = "join_csv"
  /\ loggers[Old].csv_pc = "done"
  /\ strategy' = "join_db"
  /\ UNCHANGED <<buffer_size_, loggers, pages, logged, relayed>>

\* Mutant: the db thread is not waited for.
JoinDbDetached ==
  /\ strategy = "join_db"
  /\ loggers' = [loggers EXCEPT ![Old].mapped = FALSE]
  /\ strategy' = "running"
  /\ UNCHANGED <<buffer_size_, pages, logged, relayed>>

\* And munmap.
JoinDb ==
  /\ strategy = "join_db"
  /\ loggers[Old].db_pc = "done"
  /\ loggers' = [loggers EXCEPT ![Old].mapped = FALSE]
  /\ strategy' = "running"
  /\ UNCHANGED <<buffer_size_, pages, logged, relayed>>

-----------------------------------------------------------------------------
(* A step of a logger's thread changes the logger to l.                    *)

Becomes(run, l) ==
  /\ loggers' = [loggers EXCEPT ![run] = l]
  /\ UNCHANGED <<buffer_size_, strategy, logged>>

\* Mutant: while (!queue.empty() || running_), the operands the other way round.
NextPcEmptyFirst(pc, running, queue, after) ==
  CASE pc = "loop" -> IF queue = <<>> THEN "ask_empty" ELSE "dequeue"
    [] pc = "ask_empty" -> IF running THEN "dequeue" ELSE after
    [] pc = "dequeue" -> "loop"

\* while (running_ || !queue.empty()), and a dequeue that gives nothing.
NextPc(pc, running, queue, after) ==
  CASE pc = "loop" -> IF running THEN "dequeue" ELSE "ask_empty"
    [] pc = "ask_empty" -> IF queue = <<>> THEN after ELSE "dequeue"
    [] pc = "dequeue" -> "loop"

\* csv_loop
PollCsv(run) ==
  LET l == loggers[run]
  IN /\ l.csv_pc \in {"loop", "ask_empty"} \/ (l.csv_pc = "dequeue" /\ l.csv_queue_ = <<>>)
     /\ Becomes(run, [l EXCEPT !.csv_pc = NextPc(@, l.running_, l.csv_queue_, "flush")])
     /\ UNCHANGED <<pages, relayed>>

\* write_to_buffer flushes a buffer in which the line has no room, and copies the
\* line to its start, where it need not have room either.
OffsetFor(l, entry) ==
  IF l.buffer_offset_ + entry.length > buffer_size_ THEN 0 ELSE l.buffer_offset_

DequeueCsv(run) ==
  LET l == loggers[run]
  IN /\ l.csv_pc = "dequeue"
     /\ l.csv_queue_ # <<>>
     /\ Becomes(run, [l EXCEPT !.csv_pc = "copy",
                               !.csv_queue_ = Tail(@),
                               !.csv_entry = <<Head(l.csv_queue_)>>,
                               !.buffer_offset_ = OffsetFor(l, Head(l.csv_queue_))])
     /\ UNCHANGED <<pages, relayed>>

\* Mutant: a copy to the start of the buffer.
CopyToStart(run) ==
  LET l == loggers[run]
      entry == l.csv_entry[1]
      k == l.copied + 1
  IN /\ l.csv_pc = "copy"
     /\ Write(l.copied, Unit(entry, k))
     /\ Becomes(run, IF k < entry.length
                     THEN [l EXCEPT !.copied = k]
                     ELSE [l EXCEPT !.copied = 0, !.csv_entry = <<>>, !.csv_pc = "loop",
                                    !.buffer_offset_ = @ + entry.length])
     /\ UNCHANGED relayed

\* memcpy, unit by unit: another logger may be writing to the same file.
Copy(run) ==
  LET l == loggers[run]
      entry == l.csv_entry[1]
      k == l.copied + 1
  IN /\ l.csv_pc = "copy"
     /\ Write(l.buffer_offset_ + l.copied, Unit(entry, k))
     /\ Becomes(run, IF k < entry.length
                     THEN [l EXCEPT !.copied = k]
                     ELSE [l EXCEPT !.copied = 0, !.csv_entry = <<>>, !.csv_pc = "loop",
                                    !.buffer_offset_ = @ + entry.length])
     /\ UNCHANGED relayed

FlushBuffer(run) ==
  /\ loggers[run].csv_pc = "flush"
  /\ Becomes(run, [loggers[run] EXCEPT !.csv_pc = "done", !.buffer_offset_ = 0])
  /\ UNCHANGED <<pages, relayed>>

\* db_loop
PollDb(run) ==
  LET l == loggers[run]
  IN /\ l.db_pc \in {"loop", "ask_empty"} \/ (l.db_pc = "dequeue" /\ l.db_queue_ = <<>>)
     /\ Becomes(run, [l EXCEPT !.db_pc = NextPc(@, l.running_, l.db_queue_, "done")])
     /\ UNCHANGED <<pages, relayed>>

DequeueDb(run) ==
  LET l == loggers[run]
  IN /\ l.db_pc = "dequeue"
     /\ l.db_queue_ # <<>>
     /\ Becomes(run, [l EXCEPT !.db_pc = "send",
                               !.db_queue_ = Tail(@),
                               !.db_entry = <<Head(l.db_queue_)>>])
     /\ UNCHANGED <<pages, relayed>>

\* Mutant: the line is not let go.
SendLineKept(run) ==
  LET l == loggers[run]
  IN /\ l.db_pc = "send"
     /\ relayed' = relayed \o l.db_entry
     /\ Becomes(run, [l EXCEPT !.db_pc = "loop"])
     /\ UNCHANGED pages

SendLine(run) ==
  LET l == loggers[run]
  IN /\ l.db_pc = "send"
     /\ relayed' = relayed \o l.db_entry
     /\ Becomes(run, [l EXCEPT !.db_pc = "loop", !.db_entry = <<>>])
     /\ UNCHANGED pages

-----------------------------------------------------------------------------
Restart == Construct \/ ConstructThrows \/ Stop \/ JoinCsv \/ JoinDb

CsvLoop(run) == PollCsv(run) \/ DequeueCsv(run) \/ Copy(run) \/ FlushBuffer(run)

DbLoop(run) == PollDb(run) \/ DequeueDb(run) \/ SendLine(run)

Next == Log \/ Restart \/ \E run \in 1 .. Run : CsvLoop(run) \/ DbLoop(run)

Spec == Init /\ [][Next]_vars

\* While the program runs, the threads and a restart that has begun go on; nobody has to
\* log or restart.
FairSpec ==
  /\ Spec
  /\ WF_vars(Stop \/ JoinCsv \/ JoinDb)
  /\ \A run \in 1 .. MaxRuns :
       /\ WF_vars(strategy # "ended" /\ run <= Run /\ CsvLoop(run))
       /\ WF_vars(strategy # "ended" /\ run <= Run /\ DbLoop(run))

-----------------------------------------------------------------------------
(* Properties. *)

Entries == [run : 1 .. MaxRuns, number : 0 .. MaxResults, length : Lengths \cup {1}]

Logger ==
  [running_ : BOOLEAN, mapped : BOOLEAN, buffer_offset_ : Nat, copied : 0 .. PageSize - 1,
   csv_queue_ : Seq(Entries), csv_entry : Seq(Entries), db_queue_ : Seq(Entries),
   db_entry : Seq(Entries),
   csv_pc : {"loop", "ask_empty", "dequeue", "copy", "flush", "done"},
   db_pc : {"loop", "ask_empty", "dequeue", "send", "done"}]

\* With the invariants that go with the types: an entry is in hand exactly while it is
\* copied or sent.
TypeOK ==
  /\ buffer_size_ \in BufferSizes
  /\ loggers \in Seq(Logger)
  /\ Run \in 1 .. MaxRuns
  /\ \A l \in ToSet(loggers) :
       /\ Len(l.csv_entry) = IF l.csv_pc = "copy" THEN 1 ELSE 0
       /\ Len(l.db_entry) = IF l.db_pc = "send" THEN 1 ELSE 0
  /\ \A i \in DOMAIN pages : pages[i].entry \in Entries /\ pages[i].k \in 1 .. PageSize
  /\ strategy \in {"running", "stop", "join_csv", "join_db", "ended"}
  /\ logged \in 0 .. MaxResults
  /\ relayed \in Seq(Entries)

\* A destroyed logger leaves no result behind in its queues, though its threads read
\* running_ and the queue one after the other.
DestroyedIsDrained ==
  \A l \in ToSet(loggers) : ~l.mapped => l.csv_queue_ = <<>> /\ l.db_queue_ = <<>>

Mapped == ((buffer_size_ + PageSize - 1) \div PageSize) * PageSize

\* No copy goes past the mapped pages, although a line can be longer than the buffer, which
\* in the program is one byte, and none comes after munmap.
CopiesStayMapped ==
  /\ \A i \in DOMAIN pages : i < Mapped
  /\ \A l \in ToSet(loggers) : l.csv_pc \in {"copy", "flush"} => l.mapped

\* u comes right after v in a file of whole lines, the later after the earlier.
Follows(u, v) ==
  IF u.entry = v.entry
  THEN u.k = v.k + 1
  ELSE v.k = v.entry.length /\ u.k = 1 /\ u.entry.number > v.entry.number

\* No logger is being destroyed.
Settled == strategy \in {"running", "ended"}

\* In the file, the units from first to before end are whole lines of the current
\* logger, in the order they were logged; a file too short for them cuts them off.
WholeFrom(first, end) ==
  \A i \in first .. end - 1 : i < buffer_size_ =>
    /\ i \in DOMAIN file
    /\ file[i].entry.run = Run
    /\ IF i = first THEN file[i].k = 1 ELSE Follows(file[i], file[i - 1])
    /\ i = end - 1 => file[i].k = file[i].entry.length

\* Two loggers write to one file while the older goes. Once it has gone, the file
\* holds whole lines of the current one, from the header or, when that one has started
\* over, from its first line since; all that the older can have left on them is a unit
\* in the place of the header. And nothing is cut off if every line fits the buffer.
LinesAreWhole ==
  LET end == loggers[Run].buffer_offset_
  IN Settled =>
       /\ \/ WholeFrom(0, end)
          \/ WholeFrom(1, end) /\ 0 \in DOMAIN file /\ file[0].entry.run = Old
       /\ (\A n \in Lengths : n <= buffer_size_) => end <= buffer_size_

\* The logger that results go through: the next one gets none before it has gone.
Active == IF Settled THEN Run ELSE Old

\* The results accepted by db_queue_ reach DatabaseManager, all of them and in the
\* order in which the strategies logged them, across restarts, while two loggers'
\* threads call it.
ResultRelay == INSTANCE Relay WITH
  Batches <- {<<e>> : e \in Entries},
  Lossy   <- FALSE,
  pending <- loggers[Active].db_entry \o loggers[Active].db_queue_,
  done    <- relayed

RelaysResults == ResultRelay!Spec

\* Nothing waits for ever: while the program runs, the queues empty, and a restart ends.
Drains ==
  /\ []<>(\/ strategy = "ended"
          \/ \A l \in ToSet(loggers) :
               l.csv_queue_ \o l.db_queue_ \o l.csv_entry \o l.db_entry = <<>>)
  /\ []<>Settled
=============================================================================
