------------------------- MODULE AsyncLoggerProofs -------------------------
(***************************************************************************)
(* Theorems about AsyncLogger for any number of runs and of results, every *)
(* length of line up to a page and every capacity of the queues: types, the *)
(* destructor and the mapped pages, whole lines, and the relay of results.  *)
(***************************************************************************)
EXTENDS AsyncLogger, SequenceTheorems, TLAPS

LoggerTypes ==
  /\ buffer_size_ \in BufferSizes
  /\ loggers \in Seq(Logger)
  /\ Run \in 1 .. MaxRuns
  /\ strategy \in {"running", "stop", "join_csv", "join_db", "ended"}
  /\ logged \in 0 .. MaxResults
  /\ relayed \in Seq(Entries)

\* What is written is an entry's unit, in the mapped pages.
FileFits ==
  \A i \in DOMAIN pages :
    i \in 0 .. Mapped - 1 /\ pages[i].entry \in Entries /\ pages[i].k \in 1 .. PageSize

\* An entry is in hand exactly while it is copied or sent, and there is room for it.
HandsFit(l) ==
  /\ Len(l.csv_entry) = IF l.csv_pc = "copy" THEN 1 ELSE 0
  /\ Len(l.db_entry) = IF l.db_pc = "send" THEN 1 ELSE 0
  /\ l.csv_pc # "copy" => l.copied = 0
  /\ l.csv_pc = "copy" =>
       /\ l.copied < l.csv_entry[1].length
       /\ l.buffer_offset_ + l.csv_entry[1].length <= Mapped

\* A thread looks at its queue for the last time only once running_ is cleared, and
\* returns only when it has emptied it.
DrainsBeforeDone(l) ==
  /\ l.csv_pc \in {"ask_empty", "flush", "done"} \/ l.db_pc \in {"ask_empty", "done"} => ~l.running_
  /\ l.csv_pc \in {"flush", "done"} => l.csv_queue_ = <<>>
  /\ l.db_pc = "done" => l.db_queue_ = <<>>

\* Nothing has been logged yet.
Fresh(l) ==
  /\ l.running_ /\ l.buffer_offset_ = 1
  /\ l.csv_queue_ = <<>> /\ l.csv_pc # "copy"
  /\ l.db_queue_ = <<>> /\ l.db_pc # "send"

\* The loggers before the current one have gone, or the last of them is going while
\* the current one is fresh.
Gone(run) == run < Old \/ (run = Old /\ Settled)

Generations ==
  /\ \A run \in 1 .. Run :
       /\ loggers[run].running_ <=> run = Run \/ (run = Old /\ strategy = "stop")
       /\ loggers[run].mapped <=> ~Gone(run)
       /\ Gone(run) => loggers[run].csv_pc = "done" /\ loggers[run].db_pc = "done"
  /\ strategy = "join_db" => loggers[Old].csv_pc = "done"
  /\ ~Settled => Run > 1 /\ Fresh(loggers[Run])

LifeInv ==
  /\ LoggerTypes
  /\ FileFits
  /\ \A run \in 1 .. Run : HandsFit(loggers[run]) /\ DrainsBeforeDone(loggers[run])
  /\ Generations

-----------------------------------------------------------------------------
(* Whole lines. *)

\* What a logger writes is its own.
Own(run, l) ==
  /\ \A i \in 1 .. Len(l.csv_queue_) : l.csv_queue_[i].run = run
  /\ l.csv_pc = "copy" => l.csv_entry[1].run = run

OwnLines == \A run \in 1 .. Run : Own(run, loggers[run])

\* The current logger's queue is in the order of the calls of log, and comes after
\* the line that is being copied.
QueueInOrder ==
  LET l == loggers[Run]
  IN /\ \A i \in 1 .. Len(l.csv_queue_) :
          /\ l.csv_queue_[i].run = Run
          /\ l.csv_queue_[i].number <= logged
          /\ \A j \in 1 .. i - 1 : l.csv_queue_[j].number < l.csv_queue_[i].number
     /\ l.csv_pc = "copy" =>
          /\ l.csv_entry[1].run = Run
          /\ l.csv_entry[1].number <= logged
          /\ \A i \in 1 .. Len(l.csv_queue_) : l.csv_entry[1].number < l.csv_queue_[i].number

\* How far the current logger has written.
Written == loggers[Run].buffer_offset_ + loggers[Run].copied

\* Where its lines begin: an older logger may have written in the place of the header.
Base == IF pages[0].entry.run = Run THEN 0 ELSE 1

\* Whole lines in order, then the units of the line that is being copied.
WrittenInOrder ==
  LET l == loggers[Run]
      last == pages[Written - 1]
  IN /\ 0 \in DOMAIN pages /\ pages[0].entry.run \in {Old, Run}
     /\ \A i \in Base .. Written - 1 :
          /\ i \in DOMAIN pages
          /\ pages[i].entry.run = Run
          /\ IF i = Base THEN pages[i].k = 1 ELSE Follows(pages[i], pages[i - 1])
     /\ l.copied > 0 => Written - 1 \in DOMAIN pages /\ last.entry = l.csv_entry[1] /\ last.k = l.copied
     /\ l.copied = 0 /\ Written > Base =>
          /\ last.k = last.entry.length
          /\ last.entry.number <= logged
          /\ l.csv_pc = "copy" => last.entry.number < l.csv_entry[1].number
          /\ \A i \in 1 .. Len(l.csv_queue_) : last.entry.number < l.csv_queue_[i].number

\* The last line that was copied before buffer_offset_ is there to its end.
EndIsWhole ==
  LET end == loggers[Run].buffer_offset_
  IN end > Base => pages[end - 1].k = pages[end - 1].entry.length

\* The line in hand has room in the buffer, if every line has.
FitsBuffer ==
  LET l == loggers[Run]
  IN (\A n \in Lengths : n <= buffer_size_) =>
       /\ l.buffer_offset_ <= buffer_size_
       /\ l.csv_pc = "copy" => l.buffer_offset_ + l.csv_entry[1].length <= buffer_size_

LinesInv == QueueInOrder /\ WrittenInOrder /\ EndIsWhole /\ FitsBuffer

\* What is relayed, or is on its way, was logged.
RelayInv ==
  /\ \A i \in 1 .. Len(relayed) : relayed[i].number <= logged
  /\ \A run \in 1 .. Run :
       /\ \A i \in 1 .. Len(loggers[run].db_queue_) : loggers[run].db_queue_[i].number <= logged
       /\ \A i \in 1 .. Len(loggers[run].db_entry) : loggers[run].db_entry[i].number <= logged

IInv == LifeInv /\ OwnLines /\ LinesInv /\ RelayInv

-----------------------------------------------------------------------------
(* Operators. *)

\* The pages hold the buffer, and a line besides.
LEMMA MappedHolds ==
  ASSUME NEW a \in Nat \ {0}, buffer_size_ = a
  PROVE  Mapped \in Nat /\ Mapped >= buffer_size_ /\ Mapped >= PageSize
<1> DEFINE q == (a + PageSize - 1) \div PageSize
<1>1. q \in Nat /\ q * PageSize > a - 1
  BY LoggerAssumption
<1>2. q >= 1
  BY <1>1, LoggerAssumption
<1>3. q * PageSize \in Nat /\ q * PageSize >= PageSize
  BY <1>1, <1>2, LoggerAssumption
<1> QED BY <1>1, <1>3 DEF Mapped

LEMMA BufferSizeType == LoggerTypes => buffer_size_ \in Nat \ {0}
  BY LoggerAssumption DEF LoggerTypes

LEMMA RunType == LoggerTypes => Run \in Nat \ {0} /\ Old \in Nat
  BY LoggerAssumption DEF LoggerTypes, Old

LEMMA EntryType ==
  ASSUME NEW e \in Entries
  PROVE  e.length \in 1 .. PageSize /\ e.number \in 0 .. MaxResults /\ e.run \in 1 .. MaxRuns
<1>1. e.length \in Lengths \cup {1} /\ e.number \in 0 .. MaxResults /\ e.run \in 1 .. MaxRuns
  BY DEF Entries
<1>2. PageSize \in Nat /\ PageSize >= 1 /\ Lengths \subseteq 1 .. PageSize
  BY LoggerAssumption
<1>3. ASSUME NEW n \in Lengths \cup {1}
      PROVE  n \in 1 .. PageSize
  BY <1>2
<1> QED BY <1>1, <1>3

LEMMA NewLoggerFits ==
  /\ NewLogger \in Logger
  /\ HandsFit(NewLogger) /\ DrainsBeforeDone(NewLogger) /\ Fresh(NewLogger)
<1>1. <<>> \in Seq(Entries) /\ Len(<<>>) = 0
  BY EmptySeq
<1>2. 0 \in 0 .. PageSize - 1
  BY LoggerAssumption
<1>3. NewLogger \in Logger
  BY <1>1, <1>2 DEF NewLogger, Logger
<1> QED
  BY <1>1, <1>3 DEF NewLogger, HandsFit, DrainsBeforeDone, Fresh

\* A step that changes the logger of one run.
LEMMA BecomesOne ==
  ASSUME LoggerTypes, NEW run \in 1 .. Run, NEW l \in Logger,
         loggers' = [loggers EXCEPT ![run] = l]
  PROVE  /\ loggers' \in Seq(Logger)
         /\ Run' = Run
         /\ loggers'[run] = l
         /\ \A r \in 1 .. Run : r # run => loggers'[r] = loggers[r]
  BY ExceptSeq DEF LoggerTypes, Run

-----------------------------------------------------------------------------
(* The life of the loggers. *)

LEMMA InitLifeInv == Init => LifeInv
<1> SUFFICES ASSUME Init
             PROVE  LifeInv
  OBVIOUS
<1> USE DEF Init
<1>1. loggers \in Seq(Logger) /\ Run = 1 /\ loggers[1] = NewLogger
  BY NewLoggerFits DEF Run
<1>2. relayed \in Seq(Entries)
  BY EmptySeq
<1>3. LoggerTypes
  BY <1>1, <1>2, LoggerAssumption DEF LoggerTypes
<1>4. Header(1) \in Entries
  BY LoggerAssumption DEF Header, Entries
<1>5. FileFits
  BY <1>3, <1>4, MappedHolds, BufferSizeType, LoggerAssumption DEF FileFits, Unit
<1>6. Generations
  BY <1>1, NewLoggerFits DEF Generations, Gone, Old, NewLogger
<1> QED BY <1>1, <1>3, <1>5, <1>6, NewLoggerFits DEF LifeInv

\* What every step of a logger's thread keeps of the logger.
KeepsLife(l, m) ==
  /\ m \in Logger
  /\ HandsFit(m) /\ DrainsBeforeDone(m)
  /\ m.running_ = l.running_ /\ m.mapped = l.mapped
  /\ l.csv_pc = "done" => m.csv_pc = "done"
  /\ l.db_pc = "done" => m.db_pc = "done"
  /\ Fresh(l) => Fresh(m)

LEMMA ThreadKeepsLife ==
  ASSUME LifeInv, NEW run \in 1 .. Run, NEW m, KeepsLife(loggers[run], m), Becomes(run, m),
         relayed' \in Seq(Entries), FileFits'
  PROVE  LifeInv'
<1> USE DEF LifeInv, Becomes, KeepsLife
<1>1. /\ loggers' \in Seq(Logger)
      /\ Run' = Run
      /\ loggers'[run] = m
      /\ \A r \in 1 .. Run : r # run => loggers'[r] = loggers[r]
  BY BecomesOne
<1>2. LoggerTypes'
  BY <1>1 DEF LoggerTypes
<1>3. Mapped' = Mapped /\ Old' = Old /\ (Settled' <=> Settled)
  BY <1>1 DEF Mapped, Old, Settled
<1>4. \A r \in 1 .. Run : HandsFit(loggers[r])' /\ DrainsBeforeDone(loggers[r])'
  BY <1>1, <1>3, SMTT(30) DEF HandsFit, DrainsBeforeDone
<1>5. Generations'
  BY <1>1, <1>3, RunType DEF Generations, Gone, Fresh
<1> QED BY <1>1, <1>2, <1>4, <1>5

LEMMA PollCsvKeepsLife ==
  ASSUME LifeInv, NEW run \in 1 .. Run, PollCsv(run)
  PROVE  LifeInv'
<1> DEFINE l == loggers[run]
           m == [l EXCEPT !.csv_pc = NextPc(@, l.running_, l.csv_queue_, "flush")]
<1>1. l \in Logger /\ HandsFit(l) /\ DrainsBeforeDone(l)
  BY ElementOfSeq DEF LifeInv, LoggerTypes, Run
<1>2. Becomes(run, m) /\ UNCHANGED <<pages, relayed>>
  BY DEF PollCsv
<1>3. KeepsLife(l, m)
  BY <1>1 DEF KeepsLife, PollCsv, NextPc, Logger, HandsFit, DrainsBeforeDone, Fresh
<1>4. FileFits'
  BY <1>2 DEF Becomes, FileFits, LifeInv, Mapped
<1> QED BY <1>2, <1>3, <1>4, ThreadKeepsLife DEF LifeInv, LoggerTypes

LEMMA DequeueCsvKeepsLife ==
  ASSUME LifeInv, NEW run \in 1 .. Run, DequeueCsv(run)
  PROVE  LifeInv'
<1> DEFINE l == loggers[run]
           e == Head(l.csv_queue_)
           m == [l EXCEPT !.csv_pc = "copy",
                          !.csv_queue_ = Tail(@),
                          !.csv_entry = <<Head(l.csv_queue_)>>,
                          !.buffer_offset_ = OffsetFor(l, Head(l.csv_queue_))]
<1>1. l \in Logger /\ HandsFit(l) /\ DrainsBeforeDone(l)
  BY ElementOfSeq DEF LifeInv, LoggerTypes, Run
<1>2. Becomes(run, m) /\ UNCHANGED <<pages, relayed>> /\ l.csv_pc = "dequeue" /\ l.csv_queue_ # <<>>
  BY DEF DequeueCsv
<1>3. e \in Entries /\ Tail(l.csv_queue_) \in Seq(Entries)
  BY <1>1, <1>2, HeadTailProperties DEF Logger
<1>a. /\ e.length \in 1 .. PageSize /\ PageSize \in Nat
      /\ buffer_size_ \in Nat /\ l.buffer_offset_ \in Nat
      /\ Mapped \in Nat /\ Mapped >= buffer_size_ /\ Mapped >= PageSize
  BY <1>1, <1>3, EntryType, MappedHolds, BufferSizeType, LoggerAssumption DEF Logger, LifeInv
<1>4. OffsetFor(l, e) \in Nat /\ OffsetFor(l, e) + e.length <= Mapped
  BY <1>a DEF OffsetFor
<1>. <<e>> \in Seq(Entries) /\ Len(<<e>>) = 1 /\ <<e>>[1] = e
  BY <1>3
<1>5. m \in Logger
  BY <1>1, <1>3, <1>4 DEF Logger
<1>6. HandsFit(m)
  BY <1>1, <1>2, <1>3, <1>4, EntryType DEF HandsFit, Logger
<1>7. DrainsBeforeDone(m)
  BY <1>1, <1>2 DEF DrainsBeforeDone, Logger
<1>8. KeepsLife(l, m)
  BY <1>1, <1>2, <1>5, <1>6, <1>7 DEF KeepsLife, Fresh, Logger
<1>9. FileFits'
  BY <1>2 DEF Becomes, FileFits, LifeInv, Mapped
<1> QED BY <1>2, <1>8, <1>9, ThreadKeepsLife DEF LifeInv, LoggerTypes

LEMMA CopyKeepsLife ==
  ASSUME LifeInv, NEW run \in 1 .. Run, Copy(run)
  PROVE  LifeInv'
<1> DEFINE l == loggers[run]
           e == l.csv_entry[1]
           k == l.copied + 1
           m == IF k < e.length
                THEN [l EXCEPT !.copied = k]
                ELSE [l EXCEPT !.copied = 0, !.csv_entry = <<>>, !.csv_pc = "loop",
                               !.buffer_offset_ = @ + e.length]
<1>1. l \in Logger /\ HandsFit(l) /\ DrainsBeforeDone(l)
  BY ElementOfSeq DEF LifeInv, LoggerTypes, Run
<1>2. /\ Becomes(run, m) /\ UNCHANGED relayed /\ l.csv_pc = "copy"
      /\ Write(l.buffer_offset_ + l.copied, Unit(e, k))
  BY DEF Copy
<1>3. e \in Entries
  BY <1>1, <1>2 DEF Logger, HandsFit
<1>4. /\ l.copied \in 0 .. PageSize - 1 /\ l.buffer_offset_ \in Nat
      /\ l.copied < e.length /\ l.buffer_offset_ + e.length <= Mapped
      /\ e.length \in 1 .. PageSize
  BY <1>1, <1>2, <1>3, EntryType DEF Logger, HandsFit
<1>5. <<>> \in Seq(Entries) /\ Len(<<>>) = 0
  BY EmptySeq
<1>6. PageSize \in Nat
  BY LoggerAssumption
<1>7. KeepsLife(l, m)
  <2>1. CASE k < e.length
    <3>1. k \in 0 .. PageSize - 1
      BY <1>4, <1>6, <2>1
    <3>2. m = [l EXCEPT !.copied = k]
      BY <2>1
    <3> QED
      BY <1>1, <1>2, <2>1, <3>1, <3>2 DEF KeepsLife, Fresh, HandsFit, DrainsBeforeDone, Logger
  <2>2. CASE ~(k < e.length)
    <3> DEFINE b == l.buffer_offset_ + e.length
    <3>1. m = [l EXCEPT !.copied = 0, !.csv_entry = <<>>, !.csv_pc = "loop", !.buffer_offset_ = b]
      BY <2>2
    <3>2. 0 \in 0 .. PageSize - 1 /\ b \in Nat
      BY <1>4, <1>6
    <3> HIDE DEF m, b
    <3>3. m \in Logger
      BY <1>1, <1>5, <3>1, <3>2 DEF Logger
    <3> QED
      BY <1>1, <1>2, <1>5, <3>1, <3>3 DEF KeepsLife, Fresh, HandsFit, DrainsBeforeDone, Logger
  <2> QED BY <2>1, <2>2
<1>8. FileFits'
  BY <1>2, <1>3, <1>4, BufferSizeType, MappedHolds, LoggerAssumption
  DEF Becomes, FileFits, LifeInv, Mapped, Write, Unit
<1> QED BY <1>2, <1>7, <1>8, ThreadKeepsLife DEF LifeInv, LoggerTypes

LEMMA FlushBufferKeepsLife ==
  ASSUME LifeInv, NEW run \in 1 .. Run, FlushBuffer(run)
  PROVE  LifeInv'
<1> DEFINE l == loggers[run]
           m == [l EXCEPT !.csv_pc = "done", !.buffer_offset_ = 0]
<1>1. l \in Logger /\ HandsFit(l) /\ DrainsBeforeDone(l)
  BY ElementOfSeq DEF LifeInv, LoggerTypes, Run
<1>2. Becomes(run, m) /\ UNCHANGED <<pages, relayed>> /\ l.csv_pc = "flush"
  BY DEF FlushBuffer
<1>3. KeepsLife(l, m)
  BY <1>1, <1>2 DEF KeepsLife, Logger, HandsFit, DrainsBeforeDone, Fresh
<1>4. FileFits'
  BY <1>2 DEF Becomes, FileFits, LifeInv, Mapped
<1> QED BY <1>2, <1>3, <1>4, ThreadKeepsLife DEF LifeInv, LoggerTypes

LEMMA DbLoopKeepsLife ==
  ASSUME LifeInv, NEW run \in 1 .. Run, DbLoop(run)
  PROVE  LifeInv'
<1> DEFINE l == loggers[run]
<1>1. l \in Logger /\ HandsFit(l) /\ DrainsBeforeDone(l)
  BY ElementOfSeq DEF LifeInv, LoggerTypes, Run
<1>2. CASE PollDb(run)
  <2> DEFINE m == [l EXCEPT !.db_pc = NextPc(@, l.running_, l.db_queue_, "done")]
  <2>1. Becomes(run, m) /\ UNCHANGED <<pages, relayed>>
    BY <1>2 DEF PollDb
  <2>2. KeepsLife(l, m)
    BY <1>1, <1>2 DEF KeepsLife, PollDb, NextPc, Logger, HandsFit, DrainsBeforeDone, Fresh
  <2>3. FileFits'
    BY <2>1 DEF Becomes, FileFits, LifeInv, Mapped
  <2> QED BY <2>1, <2>2, <2>3, ThreadKeepsLife DEF LifeInv, LoggerTypes
<1>3. CASE DequeueDb(run)
  <2> DEFINE m == [l EXCEPT !.db_pc = "send",
                            !.db_queue_ = Tail(@),
                            !.db_entry = <<Head(l.db_queue_)>>]
  <2>1. Becomes(run, m) /\ UNCHANGED <<pages, relayed>> /\ l.db_pc = "dequeue" /\ l.db_queue_ # <<>>
    BY <1>3 DEF DequeueDb
  <2>2. Head(l.db_queue_) \in Entries /\ Tail(l.db_queue_) \in Seq(Entries)
    BY <1>1, <2>1, HeadTailProperties DEF Logger
  <2>. <<Head(l.db_queue_)>> \in Seq(Entries) /\ Len(<<Head(l.db_queue_)>>) = 1
    BY <2>2
  <2>3. m \in Logger
    BY <1>1, <2>2 DEF Logger
  <2>4. HandsFit(m) /\ DrainsBeforeDone(m)
    BY <1>1, <2>1 DEF HandsFit, DrainsBeforeDone, Logger
  <2>5. KeepsLife(l, m)
    BY <1>1, <2>1, <2>3, <2>4 DEF KeepsLife, Logger, Fresh
  <2>6. FileFits'
    BY <2>1 DEF Becomes, FileFits, LifeInv, Mapped
  <2> QED BY <2>1, <2>5, <2>6, ThreadKeepsLife DEF LifeInv, LoggerTypes
<1>4. CASE SendLine(run)
  <2> DEFINE m == [l EXCEPT !.db_pc = "loop", !.db_entry = <<>>]
  <2>1. Becomes(run, m) /\ UNCHANGED pages /\ l.db_pc = "send" /\ relayed' = relayed \o l.db_entry
    BY <1>4 DEF SendLine
  <2>2. <<>> \in Seq(Entries) /\ Len(<<>>) = 0
    BY EmptySeq
  <2>. m \in Logger
    BY <1>1, <2>2 DEF Logger
  <2>3. KeepsLife(l, m)
    BY <1>1, <2>1, <2>2 DEF KeepsLife, Logger, HandsFit, DrainsBeforeDone, Fresh
  <2>4. relayed' \in Seq(Entries)
    BY <1>1, <2>1, ConcatProperties DEF LifeInv, LoggerTypes, Logger
  <2>5. FileFits'
    BY <2>1 DEF Becomes, FileFits, LifeInv, Mapped
  <2> QED BY <2>1, <2>3, <2>4, <2>5, ThreadKeepsLife
<1> QED BY <1>2, <1>3, <1>4 DEF DbLoop

LEMMA EnqueuedFits ==
  ASSUME NEW q \in Seq(Entries), NEW e \in Entries
  PROVE  Enqueued(q, e) \in Seq(Entries)
  BY AppendProperties DEF Enqueued

\* What log changes of the current logger.
Logs(l, e) == [l EXCEPT !.csv_queue_ = Enqueued(@, e), !.db_queue_ = Enqueued(@, e)]

LEMMA LogChanges ==
  ASSUME LifeInv, Log
  PROVE  \E n \in Lengths :
           LET e == [run |-> Run, number |-> logged + 1, length |-> n]
               m == Logs(loggers[Run], e)
           IN /\ e \in Entries
              /\ m \in Logger
              /\ loggers' = [loggers EXCEPT ![Run] = m]
              /\ HandsFit(m) /\ DrainsBeforeDone(m)
<1> DEFINE l == loggers[Run]
<1>1. PICK n \in Lengths :
        loggers' = [loggers EXCEPT
          ![Run].csv_queue_ = Enqueued(@, [run |-> Run, number |-> logged + 1, length |-> n]),
          ![Run].db_queue_ = Enqueued(@, [run |-> Run, number |-> logged + 1, length |-> n])]
  BY DEF Log
<1> DEFINE e == [run |-> Run, number |-> logged + 1, length |-> n]
           m == Logs(l, e)
<1>2. Run \in 1 .. MaxRuns /\ logged + 1 \in 0 .. MaxResults
  BY LoggerAssumption DEF Log, LifeInv, LoggerTypes
<1>3. e \in Entries
  BY <1>2 DEF Entries
<1>4. l \in Logger /\ HandsFit(l) /\ DrainsBeforeDone(l) /\ l.running_ /\ Run \in 1 .. Run
  BY RunType, ElementOfSeq DEF LifeInv, LoggerTypes, Run, Generations
<1>5. loggers' = [loggers EXCEPT ![Run] = m]
  BY <1>1, <1>4 DEF Logs, LifeInv, LoggerTypes, Run
<1>6. m \in Logger
  BY <1>3, <1>4, EnqueuedFits DEF Logs, Logger
<1>7. HandsFit(m) /\ DrainsBeforeDone(m)
  BY <1>4 DEF Logs, HandsFit, DrainsBeforeDone, Logger
<1> QED BY <1>3, <1>5, <1>6, <1>7

LEMMA LogKeepsLife == LifeInv /\ Log => LifeInv'
<1> SUFFICES ASSUME LifeInv, Log
             PROVE  LifeInv'
  OBVIOUS
<1> USE DEF LifeInv
<1> DEFINE l == loggers[Run]
<1>1. PICK n \in Lengths :
        LET e == [run |-> Run, number |-> logged + 1, length |-> n]
            m == Logs(loggers[Run], e)
        IN /\ e \in Entries
           /\ m \in Logger
           /\ loggers' = [loggers EXCEPT ![Run] = m]
           /\ HandsFit(m) /\ DrainsBeforeDone(m)
  BY LogChanges
<1> DEFINE m == Logs(l, [run |-> Run, number |-> logged + 1, length |-> n])
<1>2. l \in Logger /\ Run \in 1 .. Run
  BY RunType, ElementOfSeq DEF LoggerTypes, Run
<1>3. m.running_ = l.running_ /\ m.mapped = l.mapped /\ m.csv_pc = l.csv_pc /\ m.db_pc = l.db_pc
  BY <1>2 DEF Logs, Logger
<1>4. m \in Logger /\ loggers' = [loggers EXCEPT ![Run] = m] /\ HandsFit(m) /\ DrainsBeforeDone(m)
  BY <1>1
<1> HIDE DEF m
<1>5. /\ loggers' \in Seq(Logger)
      /\ Run' = Run
      /\ loggers'[Run] = m
      /\ \A r \in 1 .. Run : r # Run => loggers'[r] = loggers[r]
  BY <1>2, <1>4, BecomesOne
<1>6. strategy = "running" /\ UNCHANGED <<buffer_size_, pages, strategy, relayed>>
  BY DEF Log
<1>7. LoggerTypes' /\ Settled /\ Settled'
  BY <1>5, <1>6, LoggerAssumption DEF Log, LoggerTypes, Settled
<1>8. Mapped' = Mapped /\ Old' = Old
  BY <1>5, <1>6 DEF Mapped, Old
<1>9. FileFits'
  BY <1>6, <1>8 DEF FileFits
<1>10. \A r \in 1 .. Run : HandsFit(loggers[r])' /\ DrainsBeforeDone(loggers[r])'
  BY <1>4, <1>5, <1>8 DEF HandsFit, DrainsBeforeDone
<1>11. Generations'
  BY <1>3, <1>5, <1>6, <1>7, <1>8, RunType DEF Generations, Gone
<1> QED BY <1>5, <1>7, <1>9, <1>10, <1>11

LEMMA ConstructKeepsLife == LifeInv /\ Construct => LifeInv'
<1> SUFFICES ASSUME LifeInv, Construct
             PROVE  LifeInv'
  OBVIOUS
<1> USE DEF LifeInv
<1>1. /\ strategy = "running" /\ strategy' = "stop" /\ Run < MaxRuns
      /\ loggers' = Append(loggers, NewLogger)
      /\ UNCHANGED <<buffer_size_, logged, relayed>>
      /\ Write(0, Unit(Header(Run + 1), 1))
  BY DEF Construct, WriteHeader
<1>2. /\ loggers' \in Seq(Logger)
      /\ Run' = Run + 1
      /\ loggers'[Run + 1] = NewLogger
      /\ \A r \in 1 .. Run : loggers'[r] = loggers[r]
  BY <1>1, NewLoggerFits, AppendProperties DEF LoggerTypes, Run
<1>3. Run \in Nat \ {0} /\ Old = Run - 1 /\ Old' = Run /\ Run + 1 \in 1 .. MaxRuns
  BY <1>1, <1>2, RunType, LoggerAssumption DEF Old
<1>4. LoggerTypes'
  BY <1>1, <1>2, <1>3 DEF LoggerTypes
<1>5. Mapped' = Mapped
  BY <1>1 DEF Mapped
<1>6. Header(Run + 1) \in Entries
  BY <1>3, LoggerAssumption DEF Header, Entries
<1>7. 0 \in 0 .. Mapped - 1 /\ 1 \in 1 .. PageSize
  BY MappedHolds, BufferSizeType, LoggerAssumption
<1>8. FileFits'
  BY <1>1, <1>5, <1>6, <1>7 DEF FileFits, Write, Unit
<1>9. \A r \in 1 .. Run' : HandsFit(loggers[r])' /\ DrainsBeforeDone(loggers[r])'
  BY <1>2, <1>3, <1>5, NewLoggerFits DEF HandsFit, DrainsBeforeDone
<1>10. NewLogger.running_ /\ NewLogger.mapped
  BY DEF NewLogger
<1>11. Fresh(loggers[Run])'
  BY <1>2, NewLoggerFits DEF Fresh
<1>12. strategy = "running" /\ Settled /\ strategy' = "stop" /\ ~Settled'
  BY <1>1 DEF Settled
<1>13. Generations'
  <2>1. ASSUME NEW r \in 1 .. Run
        PROVE  /\ loggers'[r].running_ <=> r = Run
               /\ loggers'[r].mapped <=> ~(r < Run)
               /\ r < Run => loggers'[r].csv_pc = "done" /\ loggers'[r].db_pc = "done"
    <3>1. loggers'[r] = loggers[r] /\ (Gone(r) <=> r < Run)
      <4>1. Settled
        BY <1>12
      <4> QED BY <1>2, <1>3, <4>1 DEF Gone
    <3>2. /\ loggers[r].running_ <=> r = Run
          /\ loggers[r].mapped <=> ~Gone(r)
          /\ Gone(r) => loggers[r].csv_pc = "done" /\ loggers[r].db_pc = "done"
      BY <1>12 DEF Generations
    <3> QED BY <3>1, <3>2
  <2>2. ASSUME NEW r \in 1 .. Run'
        PROVE  /\ loggers'[r].running_ <=> r = Run' \/ (r = Old' /\ strategy' = "stop")
               /\ loggers'[r].mapped <=> ~Gone(r)'
               /\ Gone(r)' => loggers'[r].csv_pc = "done" /\ loggers'[r].db_pc = "done"
    <3>1. Gone(r)' <=> r < Run
      BY <1>3, <1>12 DEF Gone
    <3>2. CASE r = Run + 1
      BY <1>12, <1>2, <1>3, <1>10, <3>1, <3>2
    <3>3. CASE r # Run + 1
      <4>1. r \in 1 .. Run
        BY <1>2, <1>3, <3>3
      <4> QED BY <1>12, <1>2, <1>3, <2>1, <3>1, <4>1
    <3> QED BY <3>2, <3>3
  <2>3. Run' > 1
    BY <1>2, <1>3
  <2> QED BY <1>11, <1>12, <2>2, <2>3 DEF Generations
<1> QED BY <1>2, <1>4, <1>8, <1>9, <1>13

LEMMA DestroyKeepsLife == LifeInv /\ (Stop \/ JoinCsv \/ JoinDb) => LifeInv'
<1> SUFFICES ASSUME LifeInv, Stop \/ JoinCsv \/ JoinDb
             PROVE  LifeInv'
  OBVIOUS
<1> USE DEF LifeInv
<1> DEFINE l == loggers[Old]
<1>1. /\ Run \in Nat /\ Old = Run - 1 /\ Old \in 1 .. Run /\ Old # Run
      /\ Fresh(loggers[Run]) /\ ~Settled
      /\ UNCHANGED <<buffer_size_, pages, logged, relayed>>
  BY RunType DEF Generations, Settled, Old, Stop, JoinCsv, JoinDb
<1>2. l \in Logger /\ HandsFit(l) /\ DrainsBeforeDone(l)
  BY <1>1, ElementOfSeq DEF LoggerTypes, Run
<1>3. Mapped' = Mapped
  BY <1>1 DEF Mapped
<1>4. FileFits'
  BY <1>1, <1>3 DEF FileFits
<1>5. CASE JoinCsv
  <2>1. LoggerTypes' /\ Run' = Run /\ Old' = Old /\ loggers' = loggers
    BY <1>1, <1>5 DEF JoinCsv, LoggerTypes, Run, Old
  <2>2. Generations'
    BY <1>1, <1>5, <2>1 DEF JoinCsv, Generations, Gone, Fresh, Settled
  <2> QED BY <1>3, <1>4, <2>1, <2>2 DEF HandsFit, DrainsBeforeDone
<1>6. ASSUME NEW m \in Logger, HandsFit(m), DrainsBeforeDone(m),
             loggers' = [loggers EXCEPT ![Old] = m], strategy' \in {"running", "join_csv"}
      PROVE  /\ LoggerTypes' /\ Run' = Run /\ Old' = Old
             /\ loggers'[Old] = m /\ \A r \in 1 .. Run : r # Old => loggers'[r] = loggers[r]
             /\ \A r \in 1 .. Run : HandsFit(loggers[r])' /\ DrainsBeforeDone(loggers[r])'
  <2>1. /\ loggers' \in Seq(Logger)
        /\ Run' = Run
        /\ loggers'[Old] = m
        /\ \A r \in 1 .. Run : r # Old => loggers'[r] = loggers[r]
    BY <1>1, <1>6, BecomesOne
  <2>2. LoggerTypes' /\ Old' = Old
    BY <1>1, <1>6, <2>1 DEF LoggerTypes, Old
  <2>3. \A r \in 1 .. Run : HandsFit(loggers[r])' /\ DrainsBeforeDone(loggers[r])'
    BY <1>3, <1>6, <2>1 DEF HandsFit, DrainsBeforeDone
  <2> QED BY <2>1, <2>2, <2>3
<1>7. CASE Stop
  <2> DEFINE m == [l EXCEPT !.running_ = FALSE]
  <2>1. loggers' = [loggers EXCEPT ![Old] = m] /\ strategy = "stop" /\ strategy' = "join_csv"
    BY <1>1, <1>7 DEF Stop, LoggerTypes
  <2>2. m \in Logger /\ HandsFit(m) /\ DrainsBeforeDone(m) /\ m.running_ = FALSE /\ m.mapped = l.mapped
    BY <1>2 DEF Logger, HandsFit, DrainsBeforeDone
  <2> HIDE DEF m
  <2>3. /\ LoggerTypes' /\ Run' = Run /\ Old' = Old
        /\ loggers'[Old] = m /\ \A r \in 1 .. Run : r # Old => loggers'[r] = loggers[r]
        /\ \A r \in 1 .. Run : HandsFit(loggers[r])' /\ DrainsBeforeDone(loggers[r])'
    BY <1>6, <2>1, <2>2
  <2>4. Generations'
    BY <1>1, <2>1, <2>2, <2>3 DEF Generations, Gone, Fresh, Settled
  <2> QED BY <1>4, <2>3, <2>4
<1>8. CASE JoinDb
  <2> DEFINE m == [l EXCEPT !.mapped = FALSE]
  <2>1. /\ loggers' = [loggers EXCEPT ![Old] = m] /\ strategy = "join_db" /\ strategy' = "running"
        /\ l.csv_pc = "done" /\ l.db_pc = "done"
    BY <1>1, <1>8 DEF JoinDb, LoggerTypes, Generations
  <2>2. /\ m \in Logger /\ HandsFit(m) /\ DrainsBeforeDone(m) /\ m.running_ = l.running_
        /\ m.mapped = FALSE /\ m.csv_pc = "done" /\ m.db_pc = "done"
    BY <1>2, <2>1 DEF Logger, HandsFit, DrainsBeforeDone
  <2> HIDE DEF m
  <2>3. /\ LoggerTypes' /\ Run' = Run /\ Old' = Old
        /\ loggers'[Old] = m /\ \A r \in 1 .. Run : r # Old => loggers'[r] = loggers[r]
        /\ \A r \in 1 .. Run : HandsFit(loggers[r])' /\ DrainsBeforeDone(loggers[r])'
    BY <1>6, <2>1, <2>2
  <2>4. Generations'
    BY <1>1, <2>1, <2>2, <2>3 DEF Generations, Gone, Fresh, Settled
  <2> QED BY <1>4, <2>3, <2>4
<1> QED BY <1>5, <1>7, <1>8

LEMMA ThrowKeepsLife == LifeInv /\ ConstructThrows => LifeInv'
<1> SUFFICES ASSUME LifeInv, ConstructThrows
             PROVE  LifeInv'
  OBVIOUS
<1> USE DEF LifeInv
<1>1. /\ strategy = "running" /\ strategy' = "ended" /\ Settled /\ Settled'
      /\ UNCHANGED <<buffer_size_, loggers, pages, logged, relayed>>
  BY DEF ConstructThrows, Settled
<1>2. Run' = Run /\ Old' = Old /\ Mapped' = Mapped
  BY <1>1 DEF Run, Old, Mapped
<1>3. LoggerTypes' /\ FileFits'
  BY <1>1, <1>2 DEF LoggerTypes, FileFits
<1>4. \A run \in 1 .. Run : HandsFit(loggers[run])' /\ DrainsBeforeDone(loggers[run])'
  BY <1>1, <1>2 DEF HandsFit, DrainsBeforeDone
<1>5. Generations'
  BY <1>1, <1>2 DEF Generations, Gone
<1> QED BY <1>2, <1>3, <1>4, <1>5

LEMMA NextLifeInv == LifeInv /\ [Next]_vars => LifeInv'
<1> SUFFICES ASSUME LifeInv, [Next]_vars
             PROVE  LifeInv'
  OBVIOUS
<1>1. CASE Log       BY <1>1, LogKeepsLife
<1>2. CASE Restart
  BY <1>2, ConstructKeepsLife, ThrowKeepsLife, DestroyKeepsLife DEF Restart
<1>3. ASSUME NEW run \in 1 .. Run, CsvLoop(run) \/ DbLoop(run)
      PROVE  LifeInv'
  BY <1>3, PollCsvKeepsLife, DequeueCsvKeepsLife, CopyKeepsLife, FlushBufferKeepsLife,
     DbLoopKeepsLife DEF CsvLoop
<1>4. CASE UNCHANGED vars
  BY <1>4 DEF vars, LifeInv, LoggerTypes, FileFits, HandsFit, DrainsBeforeDone, Generations,
              Fresh, Gone, Settled, Old, Run, Mapped
<1> QED BY <1>1, <1>2, <1>3, <1>4 DEF Next

-----------------------------------------------------------------------------
(* Whole lines. *)

\* The csv side of two states of a logger, as far as LinesInv sees it.
SameLines(l, m) ==
  /\ m.csv_queue_ = l.csv_queue_ /\ m.csv_entry = l.csv_entry
  /\ m.copied = l.copied /\ m.buffer_offset_ = l.buffer_offset_
  /\ m.csv_pc = "copy" <=> l.csv_pc = "copy"

LEMMA OneKeepsOwn ==
  ASSUME LifeInv, OwnLines, NEW run \in 1 .. Run, NEW m,
         loggers' = [loggers EXCEPT ![run] = m], Own(run, m)
  PROVE  OwnLines'
<1>1. /\ Run' = Run /\ loggers'[run] = m
      /\ \A r \in 1 .. Run : r # run => loggers'[r] = loggers[r]
  BY DEF LifeInv, LoggerTypes, Run
<1>2. ASSUME NEW r \in 1 .. Run
      PROVE  Own(r, loggers'[r])
  BY <1>1 DEF OwnLines
<1>3. Own(run, loggers[run])' <=> Own(run, loggers'[run])
  BY DEF Own
<1>4. ASSUME NEW r \in 1 .. Run
      PROVE  Own(r, loggers[r])'
  BY <1>2 DEF Own
<1> QED BY <1>1, <1>4 DEF OwnLines

LEMMA SameKeepsOwn ==
  ASSUME NEW run, NEW l, NEW m, Own(run, l), SameLines(l, m)
  PROVE  Own(run, m)
  BY DEF Own, SameLines

LEMMA CsvLoopKeepsOwn ==
  ASSUME LifeInv, OwnLines, NEW run \in 1 .. Run, CsvLoop(run)
  PROVE  OwnLines'
<1> DEFINE l == loggers[run]
           q == l.csv_queue_
           e == l.csv_entry[1]
           k == l.copied + 1
<1>1. l \in Logger /\ HandsFit(l) /\ Own(run, l)
  BY ElementOfSeq DEF LifeInv, LoggerTypes, Run, OwnLines
<1>2. CASE PollCsv(run)
  <2> DEFINE m == [l EXCEPT !.csv_pc = NextPc(@, l.running_, l.csv_queue_, "flush")]
  <2>1. SameLines(l, m)
    BY <1>1, <1>2 DEF SameLines, PollCsv, NextPc, Logger
  <2>2. loggers' = [loggers EXCEPT ![run] = m]
    BY <1>2 DEF PollCsv, Becomes
  <2> HIDE DEF m, l
  <2> QED BY <1>1, <2>1, <2>2, SameKeepsOwn, OneKeepsOwn
<1>3. CASE DequeueCsv(run)
  <2> DEFINE m == [l EXCEPT !.csv_pc = "copy",
                            !.csv_queue_ = Tail(@),
                            !.csv_entry = <<Head(l.csv_queue_)>>,
                            !.buffer_offset_ = OffsetFor(l, Head(l.csv_queue_))]
  <2>1. loggers' = [loggers EXCEPT ![run] = m] /\ q # <<>>
    BY <1>3 DEF DequeueCsv, Becomes
  <2>2. /\ q \in Seq(Entries) /\ Head(q) = q[1] /\ Len(q) \in Nat /\ Len(q) > 0
        /\ Len(Tail(q)) = Len(q) - 1
        /\ \A i \in 1 .. Len(Tail(q)) : Tail(q)[i] = q[i + 1]
    BY <1>1, <2>1, HeadTailProperties DEF Logger
  <2>3. m.csv_queue_ = Tail(q) /\ m.csv_entry[1] = Head(q)
    BY <1>1 DEF Logger
  <2>4. \A i \in 1 .. Len(q) : q[i].run = run
    BY <1>1 DEF Own
  <2> HIDE DEF m, q
  <2>5. \A i \in 1 .. Len(m.csv_queue_) : m.csv_queue_[i].run = run
    BY <2>2, <2>3, <2>4
  <2>6. m.csv_entry[1].run = run
    BY <2>2, <2>3, <2>4
  <2>7. Own(run, m)
    BY <2>5, <2>6 DEF Own
  <2> QED BY <2>1, <2>7, OneKeepsOwn
<1>4. CASE Copy(run)
  <2>1. CASE k < e.length
    <3> DEFINE m == [l EXCEPT !.copied = k]
    <3>1. loggers' = [loggers EXCEPT ![run] = m]
      BY <1>4, <2>1 DEF Copy, Becomes
    <3>2. Own(run, m)
      BY <1>1 DEF Own, Logger
    <3> HIDE DEF m
    <3> QED BY <3>1, <3>2, OneKeepsOwn
  <2>2. CASE ~(k < e.length)
    <3> DEFINE m == [l EXCEPT !.copied = 0, !.csv_entry = <<>>, !.csv_pc = "loop",
                              !.buffer_offset_ = @ + e.length]
    <3>1. loggers' = [loggers EXCEPT ![run] = m]
      BY <1>4, <2>2 DEF Copy, Becomes
    <3>2. Own(run, m)
      BY <1>1 DEF Own, Logger
    <3> HIDE DEF m
    <3> QED BY <3>1, <3>2, OneKeepsOwn
  <2> QED BY <2>1, <2>2
<1>5. CASE FlushBuffer(run)
  <2> DEFINE m == [l EXCEPT !.csv_pc = "done", !.buffer_offset_ = 0]
  <2>1. loggers' = [loggers EXCEPT ![run] = m]
    BY <1>5 DEF FlushBuffer, Becomes
  <2>2. Own(run, m)
    BY <1>1 DEF Own, Logger
  <2> HIDE DEF m
  <2> QED BY <2>1, <2>2, OneKeepsOwn
<1> QED BY <1>2, <1>3, <1>4, <1>5 DEF CsvLoop

LEMMA DbLoopKeepsOwn ==
  ASSUME LifeInv, OwnLines, NEW run \in 1 .. Run, DbLoop(run)
  PROVE  OwnLines'
<1> DEFINE l == loggers[run]
<1>1. l \in Logger /\ Own(run, l)
  BY ElementOfSeq DEF LifeInv, LoggerTypes, Run, OwnLines
<1>2. PICK m : loggers' = [loggers EXCEPT ![run] = m] /\ SameLines(l, m)
  <2>1. CASE PollDb(run)
    <3>1. SameLines(l, [l EXCEPT !.db_pc = NextPc(@, l.running_, l.db_queue_, "done")])
      BY <1>1 DEF SameLines, Logger
    <3> QED BY <2>1, <3>1 DEF PollDb, Becomes
  <2>2. CASE DequeueDb(run)
    <3>1. SameLines(l, [l EXCEPT !.db_pc = "send",
                                 !.db_queue_ = Tail(@),
                                 !.db_entry = <<Head(l.db_queue_)>>])
      BY <1>1 DEF SameLines, Logger
    <3> QED BY <2>2, <3>1 DEF DequeueDb, Becomes
  <2>3. CASE SendLine(run)
    <3>1. SameLines(l, [l EXCEPT !.db_pc = "loop", !.db_entry = <<>>])
      BY <1>1 DEF SameLines, Logger
    <3> QED BY <2>3, <3>1 DEF SendLine, Becomes
  <2> QED BY <2>1, <2>2, <2>3 DEF DbLoop
<1>3. Own(run, m)
  BY <1>1, <1>2, SameKeepsOwn
<1> QED BY <1>2, <1>3, OneKeepsOwn

LEMMA NextOwnLines == LifeInv /\ OwnLines /\ [Next]_vars => OwnLines'
<1> SUFFICES ASSUME LifeInv, OwnLines, [Next]_vars
             PROVE  OwnLines'
  OBVIOUS
<1> DEFINE l == loggers[Run]
<1>1. Run \in 1 .. Run /\ Run \in Nat /\ Old = Run - 1
  BY RunType DEF LifeInv, Old
<1>2. \A run \in 1 .. Run : loggers[run] \in Logger /\ Own(run, loggers[run])
  BY ElementOfSeq DEF LifeInv, LoggerTypes, Run, OwnLines
<1>3. CASE Log
  <2>1. PICK n \in Lengths :
          LET e == [run |-> Run, number |-> logged + 1, length |-> n]
              m == Logs(loggers[Run], e)
          IN /\ e \in Entries
             /\ m \in Logger
             /\ loggers' = [loggers EXCEPT ![Run] = m]
    BY <1>3, LogChanges
  <2> DEFINE e == [run |-> Run, number |-> logged + 1, length |-> n]
             m == Logs(l, e)
             q == l.csv_queue_
  <2>2. e \in Entries /\ e.run = Run /\ q \in Seq(Entries)
    BY <1>1, <1>2, <2>1 DEF Logger
  <2>3. m.csv_queue_ = Enqueued(q, e) /\ m.csv_pc = l.csv_pc /\ m.csv_entry = l.csv_entry
    BY <1>1, <1>2 DEF Logs, Logger
  <2>4. \A i \in 1 .. Len(q) : q[i].run = Run
    BY <1>1, <1>2 DEF Own
  <2> HIDE DEF e
  <2>5. \A i \in 1 .. Len(Enqueued(q, e)) : Enqueued(q, e)[i].run = Run
    <3>1. CASE Enqueued(q, e) = q
      BY <2>4, <3>1
    <3>2. CASE Enqueued(q, e) = Append(q, e)
      BY <2>2, <2>4, <3>2, AppendProperties
    <3> QED BY <3>1, <3>2 DEF Enqueued
  <2>6. Own(Run, m)
    BY <1>1, <1>2, <2>3, <2>5 DEF Own
  <2>7. loggers' = [loggers EXCEPT ![Run] = m]
    BY <2>1 DEF e
  <2> HIDE DEF m
  <2> QED BY <1>1, <2>6, <2>7, OneKeepsOwn
<1>4. CASE Construct
  <2>1. /\ loggers' \in Seq(Logger)
        /\ Run' = Run + 1
        /\ loggers'[Run + 1] = NewLogger
        /\ \A r \in 1 .. Run : loggers'[r] = loggers[r]
    BY <1>4, NewLoggerFits, AppendProperties DEF Construct, LifeInv, LoggerTypes, Run
  <2>2. Own(Run + 1, NewLogger)
    BY NewLoggerFits DEF Own, NewLogger
  <2>3. ASSUME NEW r \in 1 .. Run + 1
        PROVE  Own(r, loggers[r])'
    <3>1. CASE r = Run + 1
      BY <2>1, <2>2, <3>1 DEF Own
    <3>2. CASE r \in 1 .. Run
      <4>1. loggers'[r] = loggers[r] /\ Own(r, loggers[r])
        BY <1>2, <2>1, <3>2
      <4> QED BY <4>1 DEF Own
    <3> QED BY <1>1, <3>1, <3>2
  <2> QED BY <2>1, <2>3 DEF OwnLines
<1>5. CASE Stop \/ JoinDb
  <2>1. Old \in 1 .. Run
    BY <1>1, <1>5 DEF Stop, JoinDb, LifeInv, Generations, Settled
  <2>2. PICK m : loggers' = [loggers EXCEPT ![Old] = m] /\ SameLines(loggers[Old], m)
    <3>1. SameLines(loggers[Old], [loggers[Old] EXCEPT !.running_ = FALSE])
      BY <1>2, <2>1 DEF SameLines, Logger
    <3>2. SameLines(loggers[Old], [loggers[Old] EXCEPT !.mapped = FALSE])
      BY <1>2, <2>1 DEF SameLines, Logger
    <3>3. CASE Stop
      <4>1. loggers' = [loggers EXCEPT ![Old] = [loggers[Old] EXCEPT !.running_ = FALSE]]
        BY <2>1, <3>3 DEF Stop, LifeInv, LoggerTypes, Run
      <4> QED BY <3>1, <4>1
    <3>4. CASE JoinDb
      <4>1. loggers' = [loggers EXCEPT ![Old] = [loggers[Old] EXCEPT !.mapped = FALSE]]
        BY <2>1, <3>4 DEF JoinDb, LifeInv, LoggerTypes, Run
      <4> QED BY <3>2, <4>1
    <3> QED BY <1>5, <3>3, <3>4
  <2>3. Own(Old, m)
    BY <1>2, <2>1, <2>2, SameKeepsOwn
  <2> QED BY <2>1, <2>2, <2>3, OneKeepsOwn
<1>6. CASE ConstructThrows \/ JoinCsv \/ UNCHANGED vars
  BY <1>6 DEF ConstructThrows, JoinCsv, vars, OwnLines, Own, Run
<1> QED
  BY <1>3, <1>4, <1>5, <1>6, CsvLoopKeepsOwn, DbLoopKeepsOwn DEF Next, Restart

LEMMA SameKeepsLines ==
  ASSUME LinesInv, Run' = Run, logged' = logged, pages' = pages, buffer_size_' = buffer_size_,
         SameLines(loggers[Run], loggers'[Run])
  PROVE  LinesInv'
<1>1. QueueInOrder'
  BY DEF LinesInv, QueueInOrder, SameLines
<1>2. Written' = Written /\ Base' = Base /\ Old' = Old
  BY DEF Written, Base, Old, SameLines
<1>3. WrittenInOrder'
  BY <1>2 DEF LinesInv, WrittenInOrder, SameLines
<1>4. EndIsWhole'
  BY <1>2 DEF LinesInv, EndIsWhole, SameLines
<1>5. FitsBuffer'
  BY DEF LinesInv, FitsBuffer, SameLines
<1> QED BY <1>1, <1>3, <1>4, <1>5 DEF LinesInv

\* What a fresh logger finds at the start of the pages: its header, or a unit of the
\* logger before.
HeaderLeft ==
  /\ 0 \in DOMAIN pages /\ pages[0].entry.run \in {Old, Run}
  /\ pages[0].entry.run = Run =>
       /\ pages[0].k = 1 /\ pages[0].entry.length = 1
       /\ pages[0].entry.number <= logged

LEMMA FreshHasNoLines == LifeInv /\ Fresh(loggers[Run]) /\ HeaderLeft => LinesInv
<1> SUFFICES ASSUME LifeInv, Fresh(loggers[Run]), HeaderLeft
             PROVE  LinesInv
  OBVIOUS
<1> DEFINE l == loggers[Run]
<1>1. l \in Logger /\ HandsFit(l)
  BY RunType, ElementOfSeq DEF LifeInv, LoggerTypes, Run
<1>2. /\ l.csv_queue_ = <<>> /\ l.csv_pc # "copy" /\ l.copied = 0 /\ Written = 1
      /\ l.buffer_offset_ = 1 /\ Len(l.csv_queue_) = 0
  BY <1>1, EmptySeq DEF Fresh, HandsFit, Written
<1>3. QueueInOrder
  BY <1>2 DEF QueueInOrder
<1>4. \/ Base = 0 /\ pages[0].entry.run = Run
      \/ Base = 1
  BY DEF Base
<1>5. WrittenInOrder
  BY <1>2, <1>4 DEF WrittenInOrder, HeaderLeft
<1>6. EndIsWhole
  BY <1>2, <1>4 DEF EndIsWhole, HeaderLeft
<1>7. FitsBuffer
  BY <1>2, BufferSizeType DEF FitsBuffer, LifeInv
<1> QED BY <1>3, <1>5, <1>6, <1>7 DEF LinesInv

LEMMA FreshHasHeader == LifeInv /\ LinesInv /\ Fresh(loggers[Run]) => HeaderLeft
<1> SUFFICES ASSUME LifeInv, LinesInv, Fresh(loggers[Run])
             PROVE  HeaderLeft
  OBVIOUS
<1> DEFINE l == loggers[Run]
<1>1. l \in Logger /\ HandsFit(l)
  BY RunType, ElementOfSeq DEF LifeInv, LoggerTypes, Run
<1>2. l.copied = 0 /\ Written = 1
  BY <1>1 DEF Fresh, HandsFit, Written
<1>3. 0 \in DOMAIN pages /\ pages[0].entry.run \in {Old, Run}
  BY DEF LinesInv, WrittenInOrder
<1>4. ASSUME pages[0].entry.run = Run
      PROVE  /\ pages[0].k = 1 /\ pages[0].entry.length = 1
             /\ pages[0].entry.number <= logged
  <2>1. Base = 0 /\ 0 \in Base .. Written - 1 /\ Written > Base /\ Written - 1 = 0
    BY <1>2, <1>4 DEF Base
  <2>2. pages[0].k = 1
    BY <2>1 DEF LinesInv, WrittenInOrder
  <2>3. pages[0].k = pages[0].entry.length /\ pages[0].entry.number <= logged
    BY <1>2, <2>1 DEF LinesInv, WrittenInOrder
  <2> QED BY <2>2, <2>3
<1> QED BY <1>3, <1>4 DEF HeaderLeft

LEMMA InitLines == Init => OwnLines /\ LinesInv
<1> SUFFICES ASSUME Init
             PROVE  OwnLines /\ LinesInv
  OBVIOUS
<1>1. Run = 1 /\ loggers[1] = NewLogger /\ logged = 0
  BY DEF Init, Run
<1>2. Fresh(loggers[Run])
  BY <1>1, NewLoggerFits
<1>3. HeaderLeft
  BY <1>1 DEF Init, HeaderLeft, Header, Unit
<1>4. OwnLines
  BY <1>1, EmptySeq DEF OwnLines, Own, NewLogger
<1> QED BY <1>2, <1>3, <1>4, InitLifeInv, FreshHasNoLines

LEMMA LogKeepsLines == LifeInv /\ LinesInv /\ Log => LinesInv'
<1> SUFFICES ASSUME LifeInv, LinesInv, Log
             PROVE  LinesInv'
  OBVIOUS
<1> DEFINE l == loggers[Run]
           q == l.csv_queue_
<1>1. l \in Logger /\ Run \in 1 .. Run /\ logged \in Nat
  BY RunType, ElementOfSeq, LoggerAssumption DEF LifeInv, LoggerTypes, Run
<1>2. PICK n \in Lengths :
        LET e == [run |-> Run, number |-> logged + 1, length |-> n]
            m == Logs(loggers[Run], e)
        IN /\ e \in Entries
           /\ m \in Logger
           /\ loggers' = [loggers EXCEPT ![Run] = m]
           /\ HandsFit(m) /\ DrainsBeforeDone(m)
  BY LogChanges
<1> DEFINE e == [run |-> Run, number |-> logged + 1, length |-> n]
           m == Logs(l, e)
<1>3. e \in Entries /\ e.run = Run /\ e.number = logged + 1
  BY <1>2
<1>4. Run' = Run /\ loggers'[Run] = m /\ logged' = logged + 1 /\ pages' = pages
  BY <1>1, <1>2, BecomesOne DEF LifeInv, Log
<1>5. /\ m.csv_queue_ = Enqueued(q, e)
      /\ m.csv_pc = l.csv_pc /\ m.csv_entry = l.csv_entry
      /\ m.copied = l.copied /\ m.buffer_offset_ = l.buffer_offset_
  BY <1>1 DEF Logs, Logger
<1> HIDE DEF m, e
<1>6. q \in Seq(Entries) /\ \A i \in 1 .. Len(q) : q[i].number \in Nat
  BY <1>1, ElementOfSeq, EntryType DEF Logger
<1>7. \/ Enqueued(q, e) = q
      \/ /\ Len(Enqueued(q, e)) = Len(q) + 1
         /\ \A i \in 1 .. Len(q) : Enqueued(q, e)[i] = q[i]
         /\ Enqueued(q, e)[Len(q) + 1] = e
  BY <1>3, <1>6, AppendProperties DEF Enqueued
<1>8. l.csv_pc = "copy" => l.csv_entry[1].number \in Nat
  BY <1>1, EntryType, ElementOfSeq, RunType DEF LifeInv, HandsFit, Logger
<1>9. QueueInOrder'
  <2> DEFINE p == Enqueued(q, e)
  <2>1. /\ \A i \in 1 .. Len(q) : /\ q[i].run = Run /\ q[i].number <= logged
                                 /\ \A j \in 1 .. i - 1 : q[j].number < q[i].number
        /\ l.csv_pc = "copy" =>
             /\ l.csv_entry[1].run = Run
             /\ l.csv_entry[1].number <= logged
             /\ \A i \in 1 .. Len(q) : l.csv_entry[1].number < q[i].number
    BY DEF LinesInv, QueueInOrder
  <2>2. Len(q) \in Nat
    BY <1>6
  <2>3. /\ \A i \in 1 .. Len(p) : /\ p[i].run = Run /\ p[i].number <= logged + 1
                                 /\ \A j \in 1 .. i - 1 : p[j].number < p[i].number
        /\ l.csv_pc = "copy" => \A i \in 1 .. Len(p) : l.csv_entry[1].number < p[i].number
    <3> HIDE DEF q, p
    <3>1. CASE p = q
      BY <1>1, <1>6, <2>1, <3>1
    <3>2. CASE /\ Len(p) = Len(q) + 1
               /\ \A i \in 1 .. Len(q) : p[i] = q[i]
               /\ p[Len(q) + 1] = e
      <4>1. ASSUME NEW i \in 1 .. Len(p)
            PROVE  \/ i \in 1 .. Len(q) /\ p[i] = q[i]
                   \/ i = Len(q) + 1 /\ p[i] = e
        BY <2>2, <3>2
      <4>2. \A i \in 1 .. Len(p) : p[i].run = Run /\ p[i].number <= logged + 1
        BY <1>1, <1>3, <1>6, <2>1, <4>1
      <4>3. ASSUME NEW i \in 1 .. Len(p), NEW j \in 1 .. i - 1
            PROVE  p[j].number < p[i].number
        <5>1. j \in 1 .. Len(q) /\ p[j] = q[j]
          BY <2>2, <3>2
        <5> QED BY <1>1, <1>3, <1>6, <2>1, <4>1, <5>1, SMTT(30)
      <4>4. l.csv_pc = "copy" => \A i \in 1 .. Len(p) : l.csv_entry[1].number < p[i].number
        BY <1>1, <1>3, <1>8, <2>1, <4>1
      <4> QED BY <4>2, <4>3, <4>4
    <3> QED BY <1>7, <3>1, <3>2 DEF p
  <2>4. l.csv_pc = "copy" => l.csv_entry[1].number <= logged + 1
    BY <1>1, <1>8, <2>1
  <2> QED BY <1>4, <1>5, <2>1, <2>3, <2>4 DEF QueueInOrder
<1>10. Written' = Written /\ Written \in Nat /\ Base' = Base /\ Base \in {0, 1} /\ Old' = Old
  BY <1>1, <1>4, <1>5 DEF Written, Base, Old, Logger
<1>11. WrittenInOrder'
  <2> DEFINE p == Enqueued(q, e)
             last == pages[Written - 1]
  <2>1. ASSUME l.copied = 0, Written > Base
        PROVE  /\ last.entry.number <= logged + 1
               /\ \A i \in 1 .. Len(p) : last.entry.number < p[i].number
    <3>1. /\ last.entry.number <= logged
          /\ \A i \in 1 .. Len(q) : last.entry.number < q[i].number
          /\ Written - 1 \in DOMAIN pages
      <4>1. Written - 1 \in Base .. Written - 1
        BY <1>10, <2>1
      <4> QED BY <2>1, <4>1 DEF LinesInv, WrittenInOrder
    <3>2. last.entry.number \in Nat
      BY <3>1, EntryType DEF LifeInv, FileFits
    <3> HIDE DEF q, p, last
    <3>3. CASE p = q
      BY <1>1, <3>1, <3>2, <3>3
    <3>4. CASE /\ Len(p) = Len(q) + 1
               /\ \A i \in 1 .. Len(q) : p[i] = q[i]
               /\ p[Len(q) + 1] = e
      <4>1. Len(q) \in Nat
        BY <1>6
      <4> QED BY <1>1, <1>3, <3>1, <3>2, <3>4, <4>1
    <3> QED BY <1>7, <3>3, <3>4 DEF p
  <2> QED BY <1>4, <1>5, <1>10, <2>1 DEF LinesInv, WrittenInOrder
<1>12. EndIsWhole'
  BY <1>4, <1>5, <1>10 DEF LinesInv, EndIsWhole
<1>13. FitsBuffer'
  <2>1. buffer_size_' = buffer_size_
    BY DEF Log
  <2> QED BY <1>4, <1>5, <2>1 DEF LinesInv, FitsBuffer
<1> QED BY <1>9, <1>11, <1>12, <1>13 DEF LinesInv

LEMMA RestartKeepsLines == LifeInv /\ LinesInv /\ Restart => LinesInv'
<1> SUFFICES ASSUME LifeInv, LinesInv, Restart
             PROVE  LinesInv'
  OBVIOUS
<1>1. LifeInv'
  BY NextLifeInv DEF Next
<1>2. CASE Construct
  <2>1. ~Settled'
    BY <1>2 DEF Construct, Settled
  <2>2. Fresh(loggers[Run])'
    BY <1>1, <2>1 DEF LifeInv, Generations
  <2>3. Run' = Run + 1 /\ logged \in Nat /\ logged' = logged
    BY <1>2, NewLoggerFits, AppendProperties, LoggerAssumption
       DEF Construct, LifeInv, LoggerTypes, Run
  <2>4. HeaderLeft'
    BY <1>2, <2>3 DEF Construct, WriteHeader, Write, Unit, Header, HeaderLeft
  <2>5. (LifeInv /\ Fresh(loggers[Run]) /\ HeaderLeft => LinesInv)'
    BY FreshHasNoLines, PTL
  <2> QED BY <1>1, <2>2, <2>4, <2>5
<1>3. CASE ConstructThrows
  <2>1. Run' = Run /\ SameLines(loggers[Run], loggers'[Run])
    BY <1>3 DEF ConstructThrows, Run, SameLines
  <2> QED BY <1>3, <2>1, SameKeepsLines DEF ConstructThrows
<1>4. CASE Stop \/ JoinCsv \/ JoinDb
  <2>1. /\ Run \in Nat \ {0} /\ Old \in 1 .. Run /\ Old # Run
        /\ pages' = pages /\ logged' = logged /\ buffer_size_' = buffer_size_
    BY <1>4, RunType DEF LifeInv, Generations, Settled, Old, Stop, JoinCsv, JoinDb
  <2>2. Run' = Run /\ loggers'[Run] = loggers[Run]
    BY <1>4, <2>1 DEF Stop, JoinCsv, JoinDb, LifeInv, LoggerTypes, Run
  <2>3. SameLines(loggers[Run], loggers'[Run])
    BY <2>2 DEF SameLines
  <2> QED BY <2>1, <2>2, <2>3, SameKeepsLines
<1> QED BY <1>2, <1>3, <1>4 DEF Restart

\* A step of an older logger, whose copies only come while the current one is fresh.
LEMMA OlderKeepsLines ==
  ASSUME LifeInv, OwnLines, LinesInv, NEW run \in 1 .. Run, run # Run,
         CsvLoop(run) \/ DbLoop(run)
  PROVE  LinesInv'
<1> DEFINE l == loggers[run]
<1>1. /\ \E m : loggers' = [loggers EXCEPT ![run] = m]
      /\ UNCHANGED <<buffer_size_, strategy, logged>>
  BY DEF CsvLoop, PollCsv, DequeueCsv, Copy, FlushBuffer, DbLoop, PollDb, DequeueDb, SendLine, Becomes
<1>2. Run' = Run /\ loggers'[Run] = loggers[Run]
  BY <1>1, RunType DEF LifeInv, LoggerTypes, Run
<1>3. CASE Copy(run)
  <2>1. Old = Run - 1 /\ Run \in Nat /\ run < Run
    BY RunType DEF LifeInv, Old
  <2>2. ~Gone(run)
    BY <1>3 DEF Copy, LifeInv, Generations
  <2>3. Fresh(loggers[Run]) /\ run = Old
    BY <2>1, <2>2 DEF Gone, LifeInv, Generations
  <2>4. LifeInv' /\ Fresh(loggers[Run])'
    BY <1>2, <2>3, NextLifeInv DEF Next, Fresh
  <2>5. HeaderLeft
    BY <2>3, FreshHasHeader
  <2>6. l.csv_entry[1].run = Old
    BY <1>3, <2>3 DEF OwnLines, Own, Copy
  <2> DEFINE at == l.buffer_offset_ + l.copied
             u == Unit(l.csv_entry[1], l.copied + 1)
  <2>7. /\ pages' = [i \in DOMAIN pages \cup {at} |-> IF i = at THEN u ELSE pages[i]]
        /\ u.entry.run = Old /\ Old' = Old
    BY <1>2, <1>3, <2>6 DEF Copy, Write, Unit, Old
  <2>8. HeaderLeft'
    <3> HIDE DEF at, u
    <3>1. 0 \in DOMAIN pages' /\ (pages'[0] = pages[0] \/ pages'[0] = u)
      BY <2>5, <2>7 DEF HeaderLeft
    <3>2. Old # Run
      BY <2>1
    <3>3. CASE pages'[0] = u
      BY <1>2, <2>7, <3>1, <3>2, <3>3 DEF HeaderLeft
    <3>4. CASE pages'[0] = pages[0]
      BY <1>1, <1>2, <2>5, <2>7, <3>1, <3>4 DEF HeaderLeft
    <3> QED BY <3>1, <3>3, <3>4
  <2>9. (LifeInv /\ Fresh(loggers[Run]) /\ HeaderLeft => LinesInv)'
    BY FreshHasNoLines, PTL
  <2> QED BY <2>4, <2>8, <2>9
<1>4. CASE ~Copy(run)
  <2>1. pages' = pages /\ logged' = logged
    BY <1>1, <1>4 DEF CsvLoop, PollCsv, DequeueCsv, FlushBuffer, DbLoop, PollDb, DequeueDb, SendLine
  <2>2. SameLines(loggers[Run], loggers'[Run])
    BY <1>2 DEF SameLines
  <2> QED BY <1>1, <1>2, <2>1, <2>2, SameKeepsLines
<1> QED BY <1>3, <1>4

\* The next line goes on after the last one, or to the start of the buffer.
LEMMA DequeueCsvKeepsLines ==
  ASSUME LifeInv, LinesInv, DequeueCsv(Run)
  PROVE  LinesInv'
<1> DEFINE l == loggers[Run]
           q == l.csv_queue_
           e == Head(q)
           m == [l EXCEPT !.csv_pc = "copy",
                          !.csv_queue_ = Tail(@),
                          !.csv_entry = <<Head(l.csv_queue_)>>,
                          !.buffer_offset_ = OffsetFor(l, Head(l.csv_queue_))]
<1>1. l \in Logger /\ HandsFit(l) /\ Run \in 1 .. Run /\ logged \in Nat
  BY RunType, ElementOfSeq, LoggerAssumption DEF LifeInv, LoggerTypes, Run
<1>2. /\ l.csv_pc = "dequeue" /\ q # <<>> /\ l.copied = 0
      /\ loggers' = [loggers EXCEPT ![Run] = m] /\ logged' = logged /\ pages' = pages
  BY <1>1 DEF DequeueCsv, Becomes, HandsFit
<1>3. /\ q \in Seq(Entries) /\ e = q[1] /\ Len(q) \in Nat /\ Len(q) > 0
      /\ Len(Tail(q)) = Len(q) - 1
      /\ \A i \in 1 .. Len(Tail(q)) : Tail(q)[i] = q[i + 1]
  BY <1>1, <1>2, HeadTailProperties DEF Logger
<1> HIDE DEF m
<1>4. Run' = Run /\ loggers'[Run] = m /\ Base' = Base /\ Old' = Old
  BY <1>1, <1>2 DEF LifeInv, LoggerTypes, Run, Base, Old
<1>5. /\ m.csv_pc = "copy" /\ m.csv_queue_ = Tail(q) /\ m.csv_entry[1] = e
      /\ m.copied = 0 /\ m.buffer_offset_ = OffsetFor(l, e)
  BY <1>1, <1>2 DEF Logger, m
<1>6. \A i \in 1 .. Len(q) : /\ q[i].run = Run /\ q[i].number <= logged
                             /\ \A j \in 1 .. i - 1 : q[j].number < q[i].number
  BY DEF LinesInv, QueueInOrder
<1>7. QueueInOrder'
  <2>1. e.run = Run /\ e.number <= logged
    BY <1>3, <1>6
  <2>2. ASSUME NEW i \in 1 .. Len(Tail(q))
        PROVE  /\ Tail(q)[i].run = Run /\ Tail(q)[i].number <= logged
               /\ e.number < Tail(q)[i].number
               /\ \A j \in 1 .. i - 1 : Tail(q)[j].number < Tail(q)[i].number
    <3>1. i + 1 \in 1 .. Len(q) /\ Tail(q)[i] = q[i + 1] /\ 1 \in 1 .. (i + 1) - 1
      BY <1>3
    <3>2. ASSUME NEW j \in 1 .. i - 1
          PROVE  Tail(q)[j] = q[j + 1] /\ j + 1 \in 1 .. (i + 1) - 1
      BY <1>3
    <3> QED BY <1>3, <1>6, <3>1, <3>2
  <2> QED BY <1>2, <1>4, <1>5, <2>1, <2>2 DEF QueueInOrder
<1>8. FitsBuffer'
  <2>1. buffer_size_' = buffer_size_ /\ buffer_size_ \in Nat \ {0}
    BY BufferSizeType DEF DequeueCsv, Becomes, LifeInv
  <2>2. e \in Entries /\ e.length \in Lengths \cup {1} /\ e.length \in Nat
    <3> HIDE DEF e, q
    <3>1. e \in Entries
      BY <1>3, ElementOfSeq
    <3>2. e.length \in 1 .. PageSize
      BY <3>1, EntryType
    <3> QED BY <3>1, <3>2, LoggerAssumption DEF Entries
  <2>3. l.buffer_offset_ \in Nat
    BY <1>1 DEF Logger
  <2> HIDE DEF e, q
  <2>4. ASSUME \A n \in Lengths : n <= buffer_size_
        PROVE  OffsetFor(l, e) <= buffer_size_ /\ OffsetFor(l, e) + e.length <= buffer_size_
    <3>1. e.length <= buffer_size_
      BY <2>1, <2>2, <2>4
    <3>2. CASE OffsetFor(l, e) = 0
      BY <2>1, <2>2, <3>1, <3>2
    <3>3. CASE OffsetFor(l, e) = l.buffer_offset_ /\ l.buffer_offset_ + e.length <= buffer_size_
      BY <2>1, <2>2, <2>3, <3>3
    <3> QED BY <2>1, <2>2, <2>3, <3>2, <3>3 DEF OffsetFor
  <2>5. /\ loggers'[Run'].buffer_offset_ = OffsetFor(l, e)
        /\ loggers'[Run'].csv_entry[1] = e
    BY <1>4, <1>5
  <2> QED BY <2>1, <2>4, <2>5 DEF FitsBuffer
<1>9. Base \in {0, 1} /\ 0 \in DOMAIN pages /\ pages[0].entry.run \in {Old, Run}
  BY DEF LinesInv, WrittenInOrder, Base
<1>10. CASE OffsetFor(l, e) = 0
  <2>1. Written' = 0
    BY <1>4, <1>5, <1>10 DEF Written
  <2>2. WrittenInOrder'
    BY <1>2, <1>4, <1>5, <1>9, <2>1 DEF WrittenInOrder
  <2>3. EndIsWhole'
    BY <1>4, <1>5, <1>10, <1>9 DEF EndIsWhole
  <2> QED BY <1>7, <1>8, <2>2, <2>3 DEF LinesInv
<1>11. CASE OffsetFor(l, e) = l.buffer_offset_
  <2>1. Written' = Written
    BY <1>2, <1>4, <1>5, <1>11 DEF Written
  <2>2. Written > Base =>
          /\ pages[Written - 1].k = pages[Written - 1].entry.length
          /\ pages[Written - 1].entry.number <= logged
          /\ \A i \in 1 .. Len(q) : pages[Written - 1].entry.number < q[i].number
    BY <1>2 DEF LinesInv, WrittenInOrder
  <2>3. Written > Base =>
          /\ pages[Written - 1].entry.number < e.number
          /\ \A i \in 1 .. Len(Tail(q)) : pages[Written - 1].entry.number < Tail(q)[i].number
    BY <1>3, <2>2
  <2>4. \A i \in Base .. Written - 1 :
          /\ i \in DOMAIN pages
          /\ pages[i].entry.run = Run
          /\ IF i = Base THEN pages[i].k = 1 ELSE Follows(pages[i], pages[i - 1])
    BY DEF LinesInv, WrittenInOrder
  <2>5. WrittenInOrder'
    <3>1. pages'[Written' - 1] = pages[Written - 1] /\ ~(m.copied > 0)
      BY <1>2, <1>5, <2>1
    <3>2. Written > Base =>
            /\ pages[Written - 1].k = pages[Written - 1].entry.length
            /\ pages[Written - 1].entry.number <= logged
            /\ m.csv_pc = "copy" => pages[Written - 1].entry.number < m.csv_entry[1].number
            /\ \A i \in 1 .. Len(m.csv_queue_) : pages[Written - 1].entry.number < m.csv_queue_[i].number
      BY <1>5, <2>2, <2>3
    <3> QED BY <1>2, <1>4, <1>5, <1>9, <2>1, <2>4, <3>1, <3>2 DEF WrittenInOrder
  <2>6. EndIsWhole'
    BY <1>2, <1>4, <1>5, <1>11 DEF LinesInv, EndIsWhole
  <2> QED BY <1>7, <1>8, <2>5, <2>6 DEF LinesInv
<1> QED BY <1>10, <1>11 DEF OffsetFor

\* A copy writes the unit that follows.
LEMMA CopyKeepsLines ==
  ASSUME LifeInv, LinesInv, Copy(Run)
  PROVE  LinesInv'
<1> DEFINE l == loggers[Run]
           q == l.csv_queue_
           e == l.csv_entry[1]
           k == l.copied + 1
           m == IF k < e.length
                THEN [l EXCEPT !.copied = k]
                ELSE [l EXCEPT !.copied = 0, !.csv_entry = <<>>, !.csv_pc = "loop",
                               !.buffer_offset_ = @ + e.length]
<1>1. l \in Logger /\ HandsFit(l) /\ Run \in 1 .. Run /\ logged \in Nat
  BY RunType, ElementOfSeq, LoggerAssumption DEF LifeInv, LoggerTypes, Run
<1>2. /\ l.csv_pc = "copy" /\ logged' = logged
      /\ loggers' = [loggers EXCEPT ![Run] = m]
      /\ pages' = [i \in DOMAIN pages \cup {Written} |-> IF i = Written THEN Unit(e, k) ELSE pages[i]]
  BY DEF Copy, Becomes, Write, Written
<1> HIDE DEF m
<1>3. Run' = Run /\ loggers'[Run] = m
  BY <1>1, <1>2 DEF LifeInv, LoggerTypes, Run
<1>4. e \in Entries /\ l.copied \in Nat /\ l.buffer_offset_ \in Nat /\ l.copied < e.length
  BY <1>1, <1>2 DEF Logger, HandsFit
<1>5. e.length \in Nat /\ e.number \in Nat /\ Written = l.buffer_offset_ + l.copied
  BY <1>4, EntryType, LoggerAssumption DEF Written
<1>6. /\ m.csv_queue_ = q
      /\ \/ k < e.length /\ m.copied = k /\ m.csv_entry[1] = e /\ m.csv_pc = "copy"
            /\ m.buffer_offset_ = l.buffer_offset_
         \/ k = e.length /\ m.copied = 0 /\ m.csv_pc = "loop"
            /\ m.buffer_offset_ = l.buffer_offset_ + e.length
  <2>1. CASE k < e.length
    <3>1. m = [l EXCEPT !.copied = k]
      BY <2>1 DEF m
    <3> QED BY <1>1, <1>2, <2>1, <3>1 DEF Logger
  <2>2. CASE ~(k < e.length)
    <3>1. m = [l EXCEPT !.copied = 0, !.csv_entry = <<>>, !.csv_pc = "loop",
                        !.buffer_offset_ = @ + e.length]
      BY <2>2 DEF m
    <3>2. k = e.length
      BY <1>4, <1>5, <2>2
    <3> HIDE DEF e
    <3> QED BY <1>1, <3>1, <3>2 DEF Logger
  <2> QED BY <2>1, <2>2
<1>7. QueueInOrder'
  BY <1>2, <1>3, <1>6 DEF LinesInv, QueueInOrder
<1>8. Written \in Nat /\ Written' = Written + 1 /\ Old' = Old /\ Base \in {0, 1}
  BY <1>3, <1>4, <1>5, <1>6 DEF Written, Old, Base
<1>9. /\ Written \in DOMAIN pages' /\ pages'[Written].entry = e /\ pages'[Written].k = k
      /\ \A i \in DOMAIN pages : i # Written => i \in DOMAIN pages' /\ pages'[i] = pages[i]
  BY <1>2 DEF Unit
<1>10. /\ e.run = Run /\ e.number <= logged
       /\ \A i \in 1 .. Len(q) : e.number < q[i].number
  BY <1>2 DEF LinesInv, QueueInOrder
<1>11. /\ 0 \in DOMAIN pages' /\ pages'[0].entry.run \in {Old, Run}
       /\ Base' = IF Written = 0 THEN 0 ELSE Base
  <2>1. 0 \in DOMAIN pages /\ pages[0].entry.run \in {Old, Run}
    BY DEF LinesInv, WrittenInOrder
  <2>2. CASE Written = 0
    BY <1>3, <1>9, <1>10, <2>2 DEF Base
  <2>3. CASE Written # 0
    BY <1>3, <1>9, <2>1, <2>3 DEF Base
  <2> QED BY <2>2, <2>3
<1>12. l.copied > 0 => Written > Base
  <2>1. SUFFICES ASSUME l.copied > 0
                 PROVE  Written > Base
    OBVIOUS
  <2>2. pages[Written - 1].entry = e /\ Written >= 1
    BY <1>4, <1>5, <2>1 DEF LinesInv, WrittenInOrder
  <2>3. CASE Written = 1
    <3>1. pages[0].entry.run = Run
      BY <1>10, <2>2, <2>3
    <3> QED BY <2>3, <3>1 DEF Base
  <2>4. CASE Written > 1
    BY <1>8, <2>4
  <2> QED BY <1>8, <2>2, <2>3, <2>4
<1>13. IF Written > Base' THEN Follows(pages'[Written], pages[Written - 1]) ELSE k = 1
  <2>1. Written > Base' <=> Written > Base
    BY <1>8, <1>11
  <2>2. CASE l.copied > 0
    BY <1>4, <1>9, <1>12, <2>1, <2>2 DEF Follows, LinesInv, WrittenInOrder
  <2>3. CASE l.copied = 0 /\ Written > Base
    <3>1. /\ pages[Written - 1].k = pages[Written - 1].entry.length
          /\ pages[Written - 1].entry.number < e.number
      BY <1>2, <2>3 DEF LinesInv, WrittenInOrder
    <3> QED BY <1>5, <1>9, <2>1, <2>3, <3>1 DEF Follows
  <2>4. CASE l.copied = 0 /\ ~(Written > Base)
    BY <2>1, <2>4
  <2> QED BY <1>4, <2>2, <2>3, <2>4
<1>14. ASSUME NEW i \in Base' .. Written
       PROVE  /\ i \in DOMAIN pages'
              /\ pages'[i].entry.run = Run
              /\ IF i = Base' THEN pages'[i].k = 1 ELSE Follows(pages'[i], pages'[i - 1])
  <2>1. CASE i = Written
    <3>1. i > Base' => pages'[i - 1] = pages[i - 1]
      <4>1. SUFFICES ASSUME i > Base'
                     PROVE  pages'[i - 1] = pages[i - 1]
        OBVIOUS
      <4>2. i - 1 \in Base .. Written - 1 /\ i - 1 # Written
        BY <1>8, <1>11, <2>1, <4>1
      <4>3. i - 1 \in DOMAIN pages
        BY <4>2 DEF LinesInv, WrittenInOrder
      <4> QED BY <1>9, <4>2, <4>3
    <3>2. i >= Base' /\ Base' \in {0, 1} /\ (i = Base' <=> ~(Written > Base'))
      BY <1>8, <1>11, <2>1
    <3> QED BY <1>9, <1>10, <1>13, <2>1, <3>1, <3>2
  <2>2. CASE i # Written
    <3>1. /\ i \in Base .. Written - 1 /\ i - 1 # Written /\ Base' = Base
          /\ i # Base => i - 1 \in Base .. Written - 1
      BY <1>8, <1>11, <2>2
    <3>2. /\ i \in DOMAIN pages /\ pages[i].entry.run = Run
          /\ IF i = Base THEN pages[i].k = 1 ELSE Follows(pages[i], pages[i - 1])
          /\ i # Base => i - 1 \in DOMAIN pages
      BY <3>1 DEF LinesInv, WrittenInOrder
    <3> QED BY <1>9, <2>2, <3>1, <3>2
  <2> QED BY <2>1, <2>2
<1>15. WrittenInOrder'
  <2>1. pages'[Written' - 1] = pages'[Written] /\ Written' - 1 = Written
    BY <1>8
  <2>2. m.copied > 0 =>
          /\ Written \in DOMAIN pages' /\ pages'[Written].entry = m.csv_entry[1]
          /\ pages'[Written].k = m.copied
    BY <1>6, <1>9
  <2>3. m.copied = 0 =>
          /\ pages'[Written].k = pages'[Written].entry.length
          /\ pages'[Written].entry.number <= logged'
          /\ m.csv_pc # "copy"
          /\ \A i \in 1 .. Len(m.csv_queue_) : pages'[Written].entry.number < m.csv_queue_[i].number
    <3>1. l.copied + 1 # 0
      BY <1>4
    <3> QED BY <1>2, <1>6, <1>9, <1>10, <3>1
  <2> QED BY <1>3, <1>8, <1>11, <1>14, <2>1, <2>2, <2>3 DEF WrittenInOrder
<1>16. EndIsWhole'
  <2>1. CASE m.buffer_offset_ = l.buffer_offset_
    <3> DEFINE end == l.buffer_offset_
    <3>1. SUFFICES ASSUME end > Base'
                   PROVE  pages'[end - 1].k = pages'[end - 1].entry.length
      BY <1>3, <2>1 DEF EndIsWhole
    <3>2. end > Base /\ end - 1 \in Base .. Written - 1 /\ end - 1 # Written
      BY <1>4, <1>5, <1>8, <1>11, <3>1
    <3>3. pages'[end - 1] = pages[end - 1]
      BY <1>9, <3>2 DEF LinesInv, WrittenInOrder
    <3> QED BY <3>2, <3>3 DEF LinesInv, EndIsWhole
  <2>2. CASE k = e.length /\ m.buffer_offset_ = l.buffer_offset_ + e.length
    <3>1. m.buffer_offset_ - 1 = Written
      BY <1>4, <1>5, <2>2
    <3> QED BY <1>3, <1>9, <2>2, <3>1 DEF EndIsWhole
  <2> QED BY <1>6, <2>1, <2>2
<1>17. FitsBuffer'
  <2>1. buffer_size_' = buffer_size_
    BY DEF Copy, Becomes
  <2>2. (\A n \in Lengths : n <= buffer_size_) =>
          l.buffer_offset_ <= buffer_size_ /\ l.buffer_offset_ + e.length <= buffer_size_
    BY <1>2 DEF LinesInv, FitsBuffer
  <2> QED BY <1>3, <1>6, <2>1, <2>2 DEF FitsBuffer
<1> QED BY <1>7, <1>15, <1>16, <1>17 DEF LinesInv

LEMMA ThreadKeepsLines ==
  ASSUME LifeInv, OwnLines, LinesInv, NEW run \in 1 .. Run, CsvLoop(run) \/ DbLoop(run)
  PROVE  LinesInv'
<1> DEFINE l == loggers[run]
<1>1. CASE run # Run
  BY <1>1, OlderKeepsLines
<1>2. CASE run = Run /\ DequeueCsv(run)
  BY <1>2, DequeueCsvKeepsLines
<1>3. CASE run = Run /\ Copy(run)
  BY <1>3, CopyKeepsLines
<1>4. CASE run = Run /\ (PollCsv(run) \/ DbLoop(run))
  <2>1. l \in Logger /\ run = Run
    BY <1>4, ElementOfSeq DEF LifeInv, LoggerTypes, Run
  <2>2. ASSUME NEW m, loggers' = [loggers EXCEPT ![run] = m], logged' = logged, pages' = pages,
               buffer_size_' = buffer_size_, SameLines(l, m)
        PROVE  LinesInv'
    <3>1. Run' = Run /\ loggers'[Run] = m
      BY <2>1, <2>2 DEF LifeInv, LoggerTypes, Run
    <3>2. SameLines(loggers[Run], loggers'[Run])
      BY <2>1, <2>2, <3>1
    <3> QED BY <2>2, <3>1, <3>2, SameKeepsLines
  <2>3. CASE PollCsv(run)
    <3> DEFINE m == [l EXCEPT !.csv_pc = NextPc(@, l.running_, l.csv_queue_, "flush")]
    <3>1. SameLines(l, m)
      BY <2>1, <2>3 DEF SameLines, PollCsv, NextPc, Logger
    <3> QED BY <2>2, <2>3, <3>1 DEF PollCsv, Becomes
  <2>4. CASE PollDb(run)
    <3> DEFINE m == [l EXCEPT !.db_pc = NextPc(@, l.running_, l.db_queue_, "done")]
    <3>1. SameLines(l, m)
      BY <2>1 DEF SameLines, Logger
    <3> QED BY <2>2, <2>4, <3>1 DEF PollDb, Becomes
  <2>5. CASE DequeueDb(run)
    <3> DEFINE m == [l EXCEPT !.db_pc = "send",
                              !.db_queue_ = Tail(@),
                              !.db_entry = <<Head(l.db_queue_)>>]
    <3>1. SameLines(l, m)
      BY <2>1 DEF SameLines, Logger
    <3> QED BY <2>2, <2>5, <3>1 DEF DequeueDb, Becomes
  <2>6. CASE SendLine(run)
    <3> DEFINE m == [l EXCEPT !.db_pc = "loop", !.db_entry = <<>>]
    <3>1. SameLines(l, m)
      BY <2>1 DEF SameLines, Logger
    <3> QED BY <2>2, <2>6, <3>1 DEF SendLine, Becomes
  <2> QED BY <1>4, <2>3, <2>4, <2>5, <2>6 DEF DbLoop
<1>5. CASE run = Run /\ FlushBuffer(run)
  BY <1>5, RunType DEF FlushBuffer, LifeInv, Generations, DrainsBeforeDone
<1> QED BY <1>1, <1>2, <1>3, <1>4, <1>5 DEF CsvLoop

-----------------------------------------------------------------------------
(* What is relayed was logged. *)

LEMMA InitRelay == Init => RelayInv
<1> SUFFICES ASSUME Init
             PROVE  RelayInv
  OBVIOUS
<1>1. Run = 1 /\ loggers[1] = NewLogger /\ Len(relayed) = 0
  BY EmptySeq DEF Init, Run
<1>2. Len(NewLogger.db_queue_) = 0 /\ Len(NewLogger.db_entry) = 0
  BY EmptySeq DEF NewLogger
<1> QED BY <1>1, <1>2 DEF RelayInv

\* The entries of a sequence were logged.
AllLogged(s) == \A i \in 1 .. Len(s) : s[i].number <= logged

LEMMA ConcatLogged ==
  ASSUME NEW s \in Seq(Entries), NEW t \in Seq(Entries), AllLogged(s), AllLogged(t)
  PROVE  AllLogged(s \o t)
<1>1. /\ Len(s \o t) = Len(s) + Len(t)
      /\ Len(s) \in Nat /\ Len(t) \in Nat
      /\ \A i \in 1 .. Len(s) + Len(t) : (s \o t)[i] = IF i <= Len(s) THEN s[i] ELSE t[i - Len(s)]
  BY ConcatProperties, LenProperties
<1> QED BY <1>1 DEF AllLogged

LEMMA LogKeepsRelay == LifeInv /\ RelayInv /\ Log => RelayInv'
<1> SUFFICES ASSUME LifeInv, RelayInv, Log
             PROVE  RelayInv'
  OBVIOUS
<1> DEFINE l == loggers[Run]
<1>1. l \in Logger /\ Run \in 1 .. Run /\ logged \in Nat /\ relayed \in Seq(Entries)
  BY RunType, ElementOfSeq, LoggerAssumption DEF LifeInv, LoggerTypes, Run
<1>2. PICK n \in Lengths :
        LET e == [run |-> Run, number |-> logged + 1, length |-> n]
            m == Logs(loggers[Run], e)
        IN /\ e \in Entries
           /\ m \in Logger
           /\ loggers' = [loggers EXCEPT ![Run] = m]
           /\ HandsFit(m) /\ DrainsBeforeDone(m)
  BY LogChanges
<1> DEFINE e == [run |-> Run, number |-> logged + 1, length |-> n]
           m == Logs(l, e)
<1>3. e \in Entries /\ e.number = logged + 1
  BY <1>2
<1>4. m.db_queue_ = Enqueued(l.db_queue_, e) /\ m.db_entry = l.db_entry
  BY <1>1 DEF Logs, Logger
<1>5. /\ Run' = Run /\ loggers'[Run] = m /\ logged' = logged + 1 /\ relayed' = relayed
      /\ \A r \in 1 .. Run : r # Run => loggers'[r] = loggers[r]
  BY <1>1, <1>2, BecomesOne DEF LifeInv, Log
<1> HIDE DEF m, e
<1>6. ASSUME NEW s \in Seq(Entries), AllLogged(s)
      PROVE  AllLogged(s)' /\ \A i \in 1 .. Len(s) : s[i].number <= logged + 1
  BY <1>1, <1>5, <1>6, EntryType, ElementOfSeq DEF AllLogged
<1>7. ASSUME NEW s \in Seq(Entries), AllLogged(s)
      PROVE  \A i \in 1 .. Len(Enqueued(s, e)) : Enqueued(s, e)[i].number <= logged + 1
  <2>1. CASE Enqueued(s, e) = s
    BY <1>6, <1>7, <2>1
  <2>2. CASE Enqueued(s, e) = Append(s, e)
    <3>1. /\ Len(Append(s, e)) = Len(s) + 1 /\ Len(s) \in Nat
          /\ \A i \in 1 .. Len(s) : Append(s, e)[i] = s[i]
          /\ Append(s, e)[Len(s) + 1] = e
      BY <1>3, AppendProperties
    <3>2. \A i \in 1 .. Len(s) + 1 : i \in 1 .. Len(s) \/ i = Len(s) + 1
      BY <3>1
    <3>3. logged + 1 <= logged + 1
      BY <1>1
    <3> HIDE DEF e
    <3> QED BY <1>3, <1>6, <1>7, <2>2, <3>1, <3>2, <3>3
  <2> QED BY <2>1, <2>2 DEF Enqueued
<1>8. ASSUME NEW r \in 1 .. Run
      PROVE  /\ loggers[r].db_queue_ \in Seq(Entries) /\ AllLogged(loggers[r].db_queue_)
             /\ loggers[r].db_entry \in Seq(Entries) /\ AllLogged(loggers[r].db_entry)
  <2>1. loggers[r] \in Logger
    BY ElementOfSeq DEF LifeInv, LoggerTypes, Run
  <2> QED BY <2>1 DEF Logger, RelayInv, AllLogged
<1>9. AllLogged(relayed)
  BY DEF RelayInv, AllLogged
<1> QED BY <1>1, <1>4, <1>5, <1>6, <1>7, <1>8, <1>9, ZenonT(40) DEF RelayInv

LEMMA RestartKeepsRelay == LifeInv /\ RelayInv /\ Restart => RelayInv'
<1> SUFFICES ASSUME LifeInv, RelayInv, Restart
             PROVE  RelayInv'
  OBVIOUS
<1>1. logged' = logged /\ relayed' = relayed
  BY DEF Restart, Construct, ConstructThrows, Stop, JoinCsv, JoinDb
<1>2. CASE Construct
  <2>1. /\ Run' = Run + 1 /\ loggers'[Run + 1] = NewLogger
        /\ \A r \in 1 .. Run : loggers'[r] = loggers[r]
    BY <1>2, NewLoggerFits, AppendProperties DEF Construct, LifeInv, LoggerTypes, Run
  <2>2. Len(NewLogger.db_queue_) = 0 /\ Len(NewLogger.db_entry) = 0
    BY EmptySeq DEF NewLogger
  <2>3. Run \in Nat /\ \A r \in 1 .. Run + 1 : r \in 1 .. Run \/ r = Run + 1
    BY RunType DEF LifeInv
  <2> QED BY <1>1, <2>1, <2>2, <2>3 DEF RelayInv
<1>3. CASE ConstructThrows
  BY <1>1, <1>3 DEF ConstructThrows, RelayInv, Run
<1>4. CASE Stop \/ JoinCsv \/ JoinDb
  <2>1. Run \in Nat /\ Old \in 1 .. Run
    BY <1>4, RunType DEF LifeInv, Generations, Settled, Old, Stop, JoinCsv, JoinDb
  <2>2. loggers[Old] \in Logger
    BY <2>1, ElementOfSeq DEF LifeInv, LoggerTypes, Run
  <2>3. /\ Run' = Run
        /\ \A r \in 1 .. Run : /\ loggers'[r].db_queue_ = loggers[r].db_queue_
                              /\ loggers'[r].db_entry = loggers[r].db_entry
    <3> DEFINE l == loggers[Old]
    <3>1. ASSUME NEW m, loggers' = [loggers EXCEPT ![Old] = m],
                 m.db_queue_ = l.db_queue_, m.db_entry = l.db_entry
          PROVE  /\ Run' = Run
                 /\ \A r \in 1 .. Run : /\ loggers'[r].db_queue_ = loggers[r].db_queue_
                                       /\ loggers'[r].db_entry = loggers[r].db_entry
      <4>1. Run' = Run /\ \A r \in 1 .. Run : loggers'[r] = IF r = Old THEN m ELSE loggers[r]
        BY <2>1, <3>1 DEF LifeInv, LoggerTypes, Run
      <4> QED BY <3>1, <4>1
    <3>2. CASE Stop
      <4> DEFINE m == [l EXCEPT !.running_ = FALSE]
      <4>1. loggers' = [loggers EXCEPT ![Old] = m]
        BY <2>1, <3>2 DEF Stop, LifeInv, LoggerTypes
      <4>2. m.db_queue_ = l.db_queue_ /\ m.db_entry = l.db_entry
        BY <2>2 DEF Logger
      <4> QED BY <3>1, <4>1, <4>2
    <3>3. CASE JoinCsv
      BY <3>3 DEF JoinCsv, Run
    <3>4. CASE JoinDb
      <4> DEFINE m == [l EXCEPT !.mapped = FALSE]
      <4>1. loggers' = [loggers EXCEPT ![Old] = m]
        BY <2>1, <3>4 DEF JoinDb, LifeInv, LoggerTypes
      <4>2. m.db_queue_ = l.db_queue_ /\ m.db_entry = l.db_entry
        BY <2>2 DEF Logger
      <4> QED BY <3>1, <4>1, <4>2
    <3> QED BY <1>4, <3>2, <3>3, <3>4
  <2> QED BY <1>1, <2>3 DEF RelayInv
<1> QED BY <1>2, <1>3, <1>4 DEF Restart

LEMMA CsvLeavesDb ==
  ASSUME LifeInv, NEW run \in 1 .. Run, CsvLoop(run)
  PROVE  \E m : /\ Becomes(run, m)
               /\ m.db_queue_ = loggers[run].db_queue_ /\ m.db_entry = loggers[run].db_entry
               /\ relayed' = relayed
<1> DEFINE l == loggers[run]
<1>1. l \in Logger
  BY ElementOfSeq DEF LifeInv, LoggerTypes, Run
<1>2. CASE PollCsv(run)
  <2>1. [l EXCEPT !.csv_pc = NextPc(@, l.running_, l.csv_queue_, "flush")].db_queue_ = l.db_queue_
    BY <1>1 DEF Logger
  <2> QED BY <1>1, <1>2 DEF PollCsv, Logger
<1>3. CASE DequeueCsv(run)
  BY <1>1, <1>3 DEF DequeueCsv, Logger
<1>4. CASE Copy(run)
  BY <1>1, <1>4 DEF Copy, Logger
<1>5. CASE FlushBuffer(run)
  BY <1>1, <1>5 DEF FlushBuffer, Logger
<1> QED BY <1>2, <1>3, <1>4, <1>5 DEF CsvLoop

LEMMA ThreadKeepsRelay ==
  ASSUME LifeInv, RelayInv, NEW run \in 1 .. Run, CsvLoop(run) \/ DbLoop(run)
  PROVE  RelayInv'
<1> DEFINE l == loggers[run]
<1>1. l \in Logger /\ HandsFit(l) /\ logged \in Nat /\ relayed \in Seq(Entries)
  BY ElementOfSeq, LoggerAssumption DEF LifeInv, LoggerTypes, Run
<1>2. AllLogged(relayed) /\ AllLogged(l.db_queue_) /\ AllLogged(l.db_entry)
  BY DEF AllLogged, RelayInv
<1>3. ASSUME NEW m, Becomes(run, m),
             \A i \in 1 .. Len(m.db_queue_) : m.db_queue_[i].number <= logged,
             \A i \in 1 .. Len(m.db_entry) : m.db_entry[i].number <= logged,
             \A i \in 1 .. Len(relayed') : relayed'[i].number <= logged
      PROVE  RelayInv'
  <2>1. Run' = Run /\ \A r \in 1 .. Run : loggers'[r] = IF r = run THEN m ELSE loggers[r]
    BY <1>3 DEF Becomes, LifeInv, LoggerTypes, Run
  <2> QED BY <1>3, <2>1 DEF RelayInv, Becomes
<1>4. CASE CsvLoop(run)
  <2>1. PICK m : /\ Becomes(run, m)
                 /\ m.db_queue_ = l.db_queue_ /\ m.db_entry = l.db_entry
                 /\ relayed' = relayed
    BY <1>4, CsvLeavesDb
  <2> QED BY <1>2, <1>3, <2>1 DEF AllLogged
<1>5. CASE PollDb(run)
  <2> DEFINE m == [l EXCEPT !.db_pc = NextPc(@, l.running_, l.db_queue_, "done")]
  <2>1. m.db_queue_ = l.db_queue_ /\ m.db_entry = l.db_entry /\ Becomes(run, m) /\ relayed' = relayed
    BY <1>1, <1>5 DEF PollDb, Logger
  <2> QED BY <1>2, <1>3, <2>1 DEF AllLogged
<1>6. CASE DequeueDb(run)
  <2> DEFINE q == l.db_queue_
             m == [l EXCEPT !.db_pc = "send",
                            !.db_queue_ = Tail(@),
                            !.db_entry = <<Head(l.db_queue_)>>]
  <2>1. m.db_queue_ = Tail(q) /\ m.db_entry = <<Head(q)>> /\ Becomes(run, m) /\ relayed' = relayed
    BY <1>1, <1>6 DEF DequeueDb, Logger
  <2>2. /\ Head(q) = q[1] /\ 1 \in 1 .. Len(q) /\ Len(q) \in Nat
        /\ Len(Tail(q)) = Len(q) - 1
        /\ \A i \in 1 .. Len(Tail(q)) : Tail(q)[i] = q[i + 1]
    BY <1>1, <1>6, HeadTailProperties DEF DequeueDb, Logger
  <2>3. /\ Head(q).number <= logged
        /\ \A i \in 1 .. Len(Tail(q)) : Tail(q)[i].number <= logged
    BY <1>2, <2>2 DEF AllLogged
  <2> HIDE DEF m
  <2>4. \A i \in 1 .. Len(m.db_queue_) : m.db_queue_[i].number <= logged
    BY <2>1, <2>3
  <2>5. \A i \in 1 .. Len(m.db_entry) : m.db_entry[i].number <= logged
    BY <2>1, <2>3
  <2>6. \A i \in 1 .. Len(relayed') : relayed'[i].number <= logged
    BY <1>2, <2>1 DEF AllLogged
  <2> QED BY <1>3, <2>1, <2>4, <2>5, <2>6
<1>7. CASE SendLine(run)
  <2> DEFINE m == [l EXCEPT !.db_pc = "loop", !.db_entry = <<>>]
  <2>1. /\ m.db_queue_ = l.db_queue_ /\ m.db_entry = <<>> /\ Becomes(run, m)
        /\ relayed' = relayed \o l.db_entry
    BY <1>1, <1>7 DEF SendLine, Logger
  <2>2. /\ Len(relayed') = Len(relayed) + Len(l.db_entry)
        /\ Len(relayed) \in Nat /\ Len(l.db_entry) \in Nat
        /\ \A i \in 1 .. Len(relayed') :
             relayed'[i] = IF i <= Len(relayed) THEN relayed[i] ELSE l.db_entry[i - Len(relayed)]
    BY <1>1, <2>1, ConcatProperties DEF Logger
  <2>3. \A i \in 1 .. Len(relayed') : relayed'[i].number <= logged
    BY <1>2, <2>2, SMTT(30) DEF AllLogged
  <2>4. Len(<<>>) = 0
    BY EmptySeq
  <2> HIDE DEF m
  <2>5. \A i \in 1 .. Len(m.db_queue_) : m.db_queue_[i].number <= logged
    BY <1>2, <2>1 DEF AllLogged
  <2>6. \A i \in 1 .. Len(m.db_entry) : m.db_entry[i].number <= logged
    BY <2>1, <2>4
  <2> QED BY <1>3, <2>1, <2>3, <2>5, <2>6
<1> QED BY <1>4, <1>5, <1>6, <1>7 DEF DbLoop

-----------------------------------------------------------------------------
(* The theorems. *)

LEMMA NextIInv == IInv /\ [Next]_vars => IInv'
<1> SUFFICES ASSUME IInv, [Next]_vars
             PROVE  IInv'
  OBVIOUS
<1>1. LifeInv' /\ OwnLines'
  BY NextLifeInv, NextOwnLines DEF IInv
<1>2. CASE UNCHANGED vars
  <2>1. Run' = Run /\ SameLines(loggers[Run], loggers'[Run])
    BY <1>2 DEF vars, Run, SameLines
  <2>2. LinesInv'
    BY <1>2, <2>1, SameKeepsLines DEF vars, IInv
  <2>3. RelayInv'
    BY <1>2 DEF vars, IInv, RelayInv, Run
  <2> QED BY <1>1, <2>2, <2>3 DEF IInv
<1>3. CASE Log
  BY <1>1, <1>3, LogKeepsLines, LogKeepsRelay DEF IInv
<1>4. CASE Restart
  BY <1>1, <1>4, RestartKeepsLines, RestartKeepsRelay DEF IInv
<1>5. ASSUME NEW run \in 1 .. Run, CsvLoop(run) \/ DbLoop(run)
      PROVE  IInv'
  BY <1>1, <1>5, ThreadKeepsLines, ThreadKeepsRelay DEF IInv
<1> QED BY <1>2, <1>3, <1>4, <1>5 DEF Next

LEMMA Invariance == Spec => []IInv
<1>1. Init => IInv
  BY InitLifeInv, InitLines, InitRelay DEF IInv
<1> QED BY <1>1, NextIInv, PTL DEF Spec

\* The types hold, and an entry is in a thread's hands exactly while it is copied or sent.
THEOREM TypeCorrect == Spec => []TypeOK
<1>1. IInv => TypeOK
  <2> SUFFICES ASSUME IInv
               PROVE  TypeOK
    OBVIOUS
  <2>1. ASSUME NEW l \in ToSet(loggers)
        PROVE  HandsFit(l)
    BY DEF ToSet, IInv, LifeInv, LoggerTypes, Run
  <2> QED BY <2>1 DEF IInv, LifeInv, LoggerTypes, FileFits, HandsFit, TypeOK
<1> QED BY <1>1, Invariance, PTL

\* ~AsyncLogger leaves nothing in its queues.
THEOREM DestructorDrains == Spec => []DestroyedIsDrained
<1>1. IInv => DestroyedIsDrained
  <2> SUFFICES ASSUME IInv, NEW l \in ToSet(loggers), ~l.mapped
               PROVE  l.csv_queue_ = <<>> /\ l.db_queue_ = <<>>
    BY DEF DestroyedIsDrained
  <2>1. PICK run \in 1 .. Run : l = loggers[run]
    BY DEF ToSet, IInv, LifeInv, LoggerTypes, Run
  <2>2. l.csv_pc = "done" /\ l.db_pc = "done"
    BY <2>1 DEF IInv, LifeInv, Generations
  <2> QED BY <2>1, <2>2 DEF IInv, LifeInv, DrainsBeforeDone
<1> QED BY <1>1, Invariance, PTL

\* memcpy stays within the mapped pages, whatever the size of the buffer, and the
\* pages are there until the csv thread has returned.
THEOREM CopiesCorrect == Spec => []CopiesStayMapped
<1>1. IInv => CopiesStayMapped
  <2> SUFFICES ASSUME IInv
               PROVE  CopiesStayMapped
    OBVIOUS
  <2>1. ASSUME NEW l \in ToSet(loggers), l.csv_pc \in {"copy", "flush"}
        PROVE  l.mapped
    <3>1. PICK run \in 1 .. Run : l = loggers[run]
      BY DEF ToSet, IInv, LifeInv, LoggerTypes, Run
    <3> QED BY <2>1, <3>1 DEF IInv, LifeInv, Generations
  <2>2. Mapped \in Nat
    BY MappedHolds, BufferSizeType DEF IInv, LifeInv
  <2>3. \A i \in DOMAIN pages : i < Mapped
    BY <2>2 DEF IInv, LifeInv, FileFits
  <2> QED BY <2>1, <2>3 DEF CopiesStayMapped
<1> QED BY <1>1, Invariance, PTL

\* Once the older logger has gone, what lies in the file before buffer_offset_ is whole
\* lines of the current one, in their order, cut off only by the end of the file.
THEOREM LinesCorrect == Spec => []LinesAreWhole
<1>1. IInv => LinesAreWhole
  <2> SUFFICES ASSUME IInv
               PROVE  LinesAreWhole
    OBVIOUS
  <2> DEFINE l == loggers[Run]
             end == l.buffer_offset_
  <2>1. /\ l \in Logger /\ HandsFit(l) /\ buffer_size_ \in Nat \ {0}
        /\ (\A n \in Lengths : n <= buffer_size_) => end <= buffer_size_
    BY RunType, BufferSizeType, ElementOfSeq
       DEF IInv, LifeInv, LoggerTypes, Run, LinesInv, FitsBuffer
  <2>2. end \in Nat /\ l.copied \in Nat
    BY <2>1 DEF Logger
  <2>3. Base \in {0, 1} /\ 0 \in DOMAIN pages /\ pages[0].entry.run \in {Old, Run}
    BY DEF Base, IInv, LinesInv, WrittenInOrder
  <2>4. ASSUME NEW i \in DOMAIN pages, i < buffer_size_
        PROVE  i \in DOMAIN file /\ file[i] = pages[i]
    BY <2>4 DEF file
  <2>5. ASSUME NEW i \in Base .. end - 1, i < buffer_size_
        PROVE  /\ i \in DOMAIN file
               /\ file[i].entry.run = Run
               /\ IF i = Base THEN file[i].k = 1 ELSE Follows(file[i], file[i - 1])
               /\ i = end - 1 => file[i].k = file[i].entry.length
    <3>1. Written \in Nat /\ i \in Base .. Written - 1 /\ (i = end - 1 => end > Base)
      BY <2>2, <2>3, <2>5 DEF Written
    <3>2. i \in DOMAIN pages /\ (i # Base => i - 1 \in DOMAIN pages /\ i - 1 < buffer_size_)
      <4>1. i # Base => i - 1 \in Base .. Written - 1 /\ i - 1 < buffer_size_
        <5>1. buffer_size_ \in Nat /\ Base \in {0, 1}
          BY <2>1, <2>3
        <5> HIDE DEF end
        <5> QED BY <2>5, <3>1, <5>1
      <4> QED BY <3>1, <4>1 DEF IInv, LinesInv, WrittenInOrder
    <3>3. /\ pages[i].entry.run = Run
          /\ IF i = Base THEN pages[i].k = 1 ELSE Follows(pages[i], pages[i - 1])
          /\ i = end - 1 => pages[i].k = pages[i].entry.length
      BY <3>1 DEF IInv, LinesInv, WrittenInOrder, EndIsWhole
    <3>4. i \in DOMAIN file /\ file[i] = pages[i] /\ (i # Base => file[i - 1] = pages[i - 1])
      BY <2>4, <2>5, <3>2
    <3> QED BY <3>3, <3>4
  <2>6. WholeFrom(Base, end)
    BY <2>5 DEF WholeFrom
  <2>7. 0 \in DOMAIN file /\ file[0].entry.run \in {Old, Run}
    BY <2>1, <2>3, <2>4
  <2>8. CASE Base = 0
    BY <2>1, <2>6, <2>8 DEF LinesAreWhole
  <2>9. CASE Base = 1
    <3>1. file[0].entry.run = Old
      BY <2>1, <2>3, <2>4, <2>9 DEF Base
    <3> QED BY <2>1, <2>6, <2>7, <2>9, <3>1 DEF LinesAreWhole
  <2> QED BY <2>3, <2>8, <2>9
<1> QED BY <1>1, Invariance, PTL

-----------------------------------------------------------------------------
(* The relay of results. *)

\* What a logger has still to pass on.
ToPass(l) == l.db_entry \o l.db_queue_

LEMMA ActiveType ==
  LifeInv => /\ Active \in 1 .. Run /\ ~Gone(Active)
             /\ loggers[Active] \in Logger /\ HandsFit(loggers[Active])
             /\ ToPass(loggers[Active]) \in Seq(Entries)
<1> SUFFICES ASSUME LifeInv
             PROVE  /\ Active \in 1 .. Run /\ ~Gone(Active)
                    /\ loggers[Active] \in Logger /\ HandsFit(loggers[Active])
                    /\ ToPass(loggers[Active]) \in Seq(Entries)
  OBVIOUS
<1>1. Run \in Nat \ {0} /\ Old = Run - 1
  BY RunType DEF LifeInv, Old
<1>2. ~Settled => Run > 1
  BY DEF LifeInv, Generations
<1>3. Active \in 1 .. Run /\ ~Gone(Active)
  BY <1>1, <1>2 DEF Active, Gone
<1>4. loggers[Active] \in Logger /\ HandsFit(loggers[Active])
  BY <1>3, ElementOfSeq DEF LifeInv, LoggerTypes, Run
<1> QED BY <1>3, <1>4, ConcatProperties DEF ToPass, Logger

\* Taking an entry in hand changes nothing of what is to be passed on.
LEMMA HeadInHand ==
  ASSUME NEW q \in Seq(Entries), q # <<>>
  PROVE  <<>> \o q = q /\ <<Head(q)>> \o Tail(q) = q
<1>1. <<>> \o q = q
  BY ConcatEmptySeq
<1>2. /\ Head(q) \in Entries /\ Tail(q) \in Seq(Entries) /\ Len(Tail(q)) = Len(q) - 1
      /\ \A i \in 1 .. Len(Tail(q)) : Tail(q)[i] = q[i + 1]
      /\ Head(q) = q[1] /\ Len(q) \in Nat
  BY HeadTailProperties
<1> DEFINE h == <<Head(q)>>
<1>3. h \in Seq(Entries) /\ Len(h) = 1 /\ h[1] = q[1]
  BY <1>2
<1> HIDE DEF h
<1> DEFINE t == Tail(q)
<1>. t \in Seq(Entries) /\ h \in Seq(Entries)
  BY <1>2, <1>3
<1> HIDE DEF t
<1>4. /\ h \o t \in Seq(Entries)
      /\ Len(h \o t) = Len(h) + Len(t)
      /\ \A i \in 1 .. Len(h) + Len(t) : (h \o t)[i] = IF i <= Len(h) THEN h[i] ELSE t[i - Len(h)]
  BY ConcatProperties
<1>5. Len(h \o t) = Len(q) /\ \A i \in 1 .. Len(q) : (h \o t)[i] = q[i]
  BY <1>2, <1>3, <1>4 DEF t
<1>6. h \o Tail(q) = q
  BY <1>4, <1>5, SeqEqual DEF t
<1> QED BY <1>1, <1>6 DEF h

LEMMA AppendLater ==
  ASSUME NEW a \in Seq(Entries), NEW b \in Seq(Entries), NEW e \in Entries
  PROVE  a \o Append(b, e) = (a \o b) \o <<e>>
<1>1. Append(b, e) = b \o <<e>>
  BY AppendIsConcat
<1>2. <<e>> \in Seq(Entries)
  OBVIOUS
<1>3. a \o (b \o <<e>>) = (a \o b) \o <<e>>
  BY <1>2, ConcatAssociative
<1> QED BY <1>1, <1>3

LEMMA InitRefines == Init => ResultRelay!Init
<1> SUFFICES ASSUME Init
             PROVE  ResultRelay!Init
  OBVIOUS
<1>1. Active = 1 /\ loggers[1] = NewLogger
  BY DEF Init, Active, Settled, Run
<1>2. NewLogger.db_entry = <<>> /\ NewLogger.db_queue_ = <<>>
  BY DEF NewLogger
<1>3. <<>> \o <<>> = <<>>
  BY EmptySeq, ConcatEmptySeq
<1> QED BY <1>1, <1>2, <1>3 DEF Init, ResultRelay!Init

LEMMA LogRefines == LifeInv /\ RelayInv /\ Log => [ResultRelay!Next]_(ResultRelay!vars)
<1> SUFFICES ASSUME LifeInv, RelayInv, Log
             PROVE  [ResultRelay!Next]_(ResultRelay!vars)
  OBVIOUS
<1> DEFINE l == loggers[Run]
           pending == ToPass(l)
<1>1. l \in Logger /\ Run \in 1 .. Run /\ logged \in Nat /\ relayed \in Seq(Entries)
  BY RunType, ElementOfSeq, LoggerAssumption DEF LifeInv, LoggerTypes, Run
<1>2. PICK n \in Lengths :
        LET e == [run |-> Run, number |-> logged + 1, length |-> n]
            m == Logs(loggers[Run], e)
        IN /\ e \in Entries
           /\ m \in Logger
           /\ loggers' = [loggers EXCEPT ![Run] = m]
           /\ HandsFit(m) /\ DrainsBeforeDone(m)
  BY LogChanges
<1> DEFINE e == [run |-> Run, number |-> logged + 1, length |-> n]
           m == Logs(l, e)
<1>3. e \in Entries /\ e.number = logged + 1
  BY <1>2
<1>4. m.db_queue_ = Enqueued(l.db_queue_, e) /\ m.db_entry = l.db_entry
  BY <1>1 DEF Logs, Logger
<1>5. Run' = Run /\ loggers'[Run] = m /\ relayed' = relayed /\ strategy = "running" /\ strategy' = strategy
  BY <1>1, <1>2, BecomesOne DEF LifeInv, Log
<1>6. Active = Run /\ Active' = Run
  BY <1>5 DEF Active, Settled
<1> HIDE DEF m, e
<1>7. l.db_queue_ \in Seq(Entries) /\ l.db_entry \in Seq(Entries) /\ <<e>> \in Seq(Entries)
  BY <1>1, <1>3 DEF Logger
<1>8. CASE Enqueued(l.db_queue_, e) = l.db_queue_
  <2>1. ToPass(m) = pending
    BY <1>4, <1>8 DEF ToPass
  <2> QED BY <1>5, <1>6, <2>1 DEF ResultRelay!vars, ToPass
<1>9. CASE Enqueued(l.db_queue_, e) = Append(l.db_queue_, e)
  <2>1. ToPass(m) = pending \o <<e>>
    <3>1. l.db_entry \o Append(l.db_queue_, e) = (l.db_entry \o l.db_queue_) \o <<e>>
      BY <1>3, <1>7, AppendLater
    <3> QED BY <1>4, <1>9, <3>1 DEF ToPass
  <2>2. pending \in Seq(Entries)
    BY <1>7, ConcatProperties DEF ToPass
  <2>3. AllLogged(l.db_entry) /\ AllLogged(l.db_queue_) /\ AllLogged(relayed)
    BY <1>1 DEF RelayInv, AllLogged
  <2>4. AllLogged(pending)
    BY <1>7, <2>3, ConcatLogged DEF ToPass
  <2> DEFINE all == pending \o relayed
  <2>5. \A i \in 1 .. Len(all) : all[i].number <= logged
    <3> HIDE DEF pending
    <3>1. AllLogged(all)
      BY <1>1, <2>2, <2>3, <2>4, ConcatLogged
    <3> QED BY <3>1 DEF AllLogged
  <2>6. all \in Seq(Entries)
    BY <1>1, <2>2, ConcatProperties
  <2>7. ToSet(<<e>>) \cap ToSet(all) = {}
    <3> HIDE DEF all
    <3>1. ToSet(<<e>>) = {e}
      BY DEF ToSet
    <3>2. DOMAIN all = 1 .. Len(all)
      BY <2>6, LenProperties
    <3>3. \A i \in 1 .. Len(all) : all[i] # e
      BY <1>1, <1>3, <2>5
    <3> QED BY <3>1, <3>2, <3>3 DEF ToSet
  <2>8. ResultRelay!Accept(<<e>>)
    <3>1. ToPass(loggers[Active])' = ToPass(m) /\ ToPass(loggers[Active]) = pending
      BY <1>5, <1>6 DEF ToPass
    <3>2. /\ loggers[Active].db_entry \o loggers[Active].db_queue_ = pending
          /\ (loggers[Active].db_entry \o loggers[Active].db_queue_)' = pending \o <<e>>
      BY <2>1, <3>1 DEF ToPass
    <3> HIDE DEF pending
    <3>3. ResultRelay!ToSet(<<e>>) \cap ResultRelay!ToSet(all) = {}
      BY <2>7 DEF ToSet, ResultRelay!ToSet
    <3> QED BY <1>5, <3>2, <3>3 DEF ResultRelay!Accept
  <2> QED BY <1>3, <2>8 DEF ResultRelay!Next
<1> QED BY <1>8, <1>9 DEF Enqueued

\* A step that leaves alone what the active logger has to pass on.
LEMMA PassStutters ==
  ASSUME relayed' = relayed, ToPass(loggers[Active])' = ToPass(loggers[Active])
  PROVE  UNCHANGED ResultRelay!vars
<1>1. (loggers[Active].db_entry \o loggers[Active].db_queue_)'
        = loggers[Active].db_entry \o loggers[Active].db_queue_
  BY DEF ToPass
<1> QED BY <1>1 DEF ResultRelay!vars

LEMMA RestartRefines == LifeInv /\ Restart => UNCHANGED ResultRelay!vars
<1> SUFFICES ASSUME LifeInv, Restart
             PROVE  UNCHANGED ResultRelay!vars
  OBVIOUS
<1>1. relayed' = relayed
  BY DEF Restart, Construct, ConstructThrows, Stop, JoinCsv, JoinDb
<1>2. CASE Construct
  <2>1. /\ Run \in Nat \ {0} /\ Run' = Run + 1 /\ loggers'[Run] = loggers[Run]
        /\ strategy = "running" /\ strategy' = "stop"
    BY <1>2, RunType, NewLoggerFits, AppendProperties DEF Construct, LifeInv, LoggerTypes, Run
  <2>2. Active = Run /\ Active' = Run
    BY <2>1 DEF Active, Settled, Old
  <2>3. ToPass(loggers[Active])' = ToPass(loggers[Active])
    BY <2>1, <2>2 DEF ToPass
  <2> QED BY <1>1, <2>3, PassStutters
<1>3. CASE Stop
  <2> DEFINE l == loggers[Old]
             m == [l EXCEPT !.running_ = FALSE]
  <2>1. Active = Old /\ Active' = Old'
    BY <1>3 DEF Stop, Active, Settled
  <2>2. l \in Logger /\ Old \in 1 .. Run
    BY <2>1, ActiveType
  <2>3. loggers' = [loggers EXCEPT ![Old] = m]
    BY <1>3, <2>2 DEF Stop, LifeInv, LoggerTypes, Run
  <2>4. m.db_queue_ = l.db_queue_ /\ m.db_entry = l.db_entry
    BY <2>2 DEF Logger
  <2> HIDE DEF m
  <2>5. Run' = Run /\ loggers'[Old] = m
    BY <2>2, <2>3 DEF LifeInv, LoggerTypes, Run
  <2>6. ToPass(loggers[Active])' = ToPass(loggers[Active])
    BY <2>1, <2>4, <2>5 DEF ToPass, Old
  <2> QED BY <1>1, <2>6, PassStutters
<1>4. CASE JoinCsv
  BY <1>1, <1>4, PassStutters DEF JoinCsv, ToPass, Active, Settled, Old, Run
<1>5. CASE ConstructThrows
  BY <1>1, <1>5, PassStutters DEF ConstructThrows, ToPass, Active, Settled, Old, Run
<1>6. CASE JoinDb
  <2> DEFINE l == loggers[Old]
  <2>1. strategy = "join_db" /\ strategy' = "running" /\ l.db_pc = "done"
        /\ loggers' = [loggers EXCEPT ![Old].mapped = FALSE]
    BY <1>6 DEF JoinDb
  <2>2. Active = Old
    BY <2>1 DEF Active, Settled
  <2>3. l \in Logger /\ HandsFit(l) /\ Old \in 1 .. Run
    BY <2>2, ActiveType
  <2>4. Run \in 1 .. Run /\ Old # Run
    BY RunType DEF LifeInv, Old
  <2>5. l.db_queue_ = <<>>
    BY <2>1, <2>3 DEF LifeInv, DrainsBeforeDone
  <2>6. l.db_entry = <<>>
    BY <2>1, <2>3, EmptySeq DEF HandsFit, Logger
  <2>7. loggers[Run] \in Logger /\ HandsFit(loggers[Run]) /\ Fresh(loggers[Run])
    BY <2>1, <2>4, ElementOfSeq DEF LifeInv, LoggerTypes, Generations, Settled, Run
  <2>8. loggers[Run].db_queue_ = <<>> /\ loggers[Run].db_entry = <<>>
    BY <2>7, EmptySeq DEF Fresh, HandsFit, Logger
  <2>9. Run' = Run /\ loggers'[Run] = loggers[Run] /\ Active' = Run
    BY <2>1, <2>4 DEF LifeInv, LoggerTypes, Run, Active, Settled
  <2>10. ToPass(loggers[Active])' = ToPass(loggers[Active])
    BY <2>2, <2>5, <2>6, <2>8, <2>9 DEF ToPass
  <2> QED BY <1>1, <2>10, PassStutters
<1> QED BY <1>2, <1>3, <1>4, <1>5, <1>6 DEF Restart

LEMMA ThreadRefines ==
  ASSUME LifeInv, NEW run \in 1 .. Run, CsvLoop(run) \/ DbLoop(run)
  PROVE  [ResultRelay!Next]_(ResultRelay!vars)
<1> DEFINE l == loggers[run]
<1>1. l \in Logger /\ HandsFit(l)
  BY ElementOfSeq DEF LifeInv, LoggerTypes, Run
<1>2. Active \in 1 .. Run
  BY ActiveType
<1>3. ASSUME NEW m, Becomes(run, m)
      PROVE  /\ Active' = Active
             /\ run = Active => loggers'[Active] = m
             /\ run # Active => loggers'[Active] = loggers[Active]
  BY <1>2, <1>3 DEF Becomes, LifeInv, LoggerTypes, Run, Active, Settled, Old
<1>4. ASSUME NEW m, Becomes(run, m), relayed' = relayed,
             run = Active => ToPass(m) = ToPass(l)
      PROVE  [ResultRelay!Next]_(ResultRelay!vars)
  <2>1. ToPass(loggers[Active])' = ToPass(loggers[Active])
    BY <1>3, <1>4 DEF ToPass
  <2> QED BY <1>4, <2>1, PassStutters
<1>5. ~Gone(run) /\ run # Active => l.db_pc # "send" /\ l.db_queue_ = <<>>
  <2> SUFFICES ASSUME ~Gone(run), run # Active
               PROVE  Fresh(l)
    BY DEF Fresh
  <2>1. ~Settled /\ run = Run
    BY RunType DEF Gone, Active, LifeInv, Old
  <2> QED BY <2>1 DEF LifeInv, Generations
<1>6. Gone(run) => l.db_pc = "done" /\ l.csv_pc = "done"
  BY DEF LifeInv, Generations
<1>7. CASE CsvLoop(run)
  <2>1. PICK m : /\ Becomes(run, m)
                 /\ m.db_queue_ = l.db_queue_ /\ m.db_entry = l.db_entry
                 /\ relayed' = relayed
    BY <1>7, CsvLeavesDb
  <2> QED BY <1>4, <2>1 DEF ToPass
<1>8. CASE PollDb(run)
  <2> DEFINE m == [l EXCEPT !.db_pc = NextPc(@, l.running_, l.db_queue_, "done")]
  <2>1. m.db_queue_ = l.db_queue_ /\ m.db_entry = l.db_entry /\ Becomes(run, m) /\ relayed' = relayed
    BY <1>1, <1>8 DEF PollDb, Logger
  <2> HIDE DEF m
  <2> QED BY <1>4, <2>1 DEF ToPass
<1>9. CASE DequeueDb(run)
  <2> DEFINE q == l.db_queue_
             m == [l EXCEPT !.db_pc = "send",
                            !.db_queue_ = Tail(@),
                            !.db_entry = <<Head(l.db_queue_)>>]
  <2>1. /\ m.db_queue_ = Tail(q) /\ m.db_entry = <<Head(q)>> /\ Becomes(run, m) /\ relayed' = relayed
        /\ q \in Seq(Entries) /\ q # <<>> /\ Len(l.db_entry) = 0 /\ l.db_entry \in Seq(Entries)
    BY <1>1, <1>9 DEF DequeueDb, Logger, HandsFit
  <2> HIDE DEF m
  <2>2. l.db_entry = <<>>
    BY <2>1, EmptySeq
  <2>3. ToPass(m) = q /\ ToPass(l) = q
    BY <2>1, <2>2, HeadInHand DEF ToPass
  <2> QED BY <1>4, <2>1, <2>3
<1>10. CASE SendLine(run)
  <2> DEFINE q == l.db_queue_
             x == l.db_entry[1]
             m == [l EXCEPT !.db_pc = "loop", !.db_entry = <<>>]
  <2>1. /\ m.db_queue_ = q /\ m.db_entry = <<>> /\ Becomes(run, m) /\ relayed' = relayed \o l.db_entry
        /\ q \in Seq(Entries) /\ Len(l.db_entry) = 1 /\ l.db_entry \in Seq(Entries)
        /\ l.db_pc = "send"
    BY <1>1, <1>10 DEF SendLine, Logger, HandsFit
  <2> HIDE DEF m
  <2>2. run = Active
    BY <1>5, <1>6, <2>1
  <2>3. l.db_entry = <<x>> /\ x \in Entries
    BY <2>1
  <2>4. loggers[Active].db_entry \o loggers[Active].db_queue_ = <<x>> \o q
    BY <2>2, <2>3
  <2>5. (loggers[Active].db_entry \o loggers[Active].db_queue_)' = q
    <3>1. loggers'[Active'] = m
      BY <1>3, <2>1, <2>2
    <3>2. <<>> \o q = q
      BY <2>1, ConcatEmptySeq
    <3> QED BY <2>1, <3>1, <3>2
  <2>6. relayed' = Append(relayed, x)
    BY <2>1, <2>3, AppendIsConcat DEF LifeInv, LoggerTypes
  <2>7. Head(<<x>> \o q) = x /\ Tail(<<x>> \o q) = q /\ <<x>> \o q # <<>>
    BY <2>1, <2>3
  <2>8. ResultRelay!Hand
    BY <2>4, <2>5, <2>6, <2>7 DEF ResultRelay!Hand
  <2> QED BY <2>8 DEF ResultRelay!Next
<1> QED BY <1>7, <1>8, <1>9, <1>10 DEF DbLoop

\* The results that db_queue_ accepts reach DatabaseManager in the order of the calls
\* of log, none lost and none twice, across restarts.
THEOREM RelayCorrect == Spec => RelaysResults
<1>1. Init => ResultRelay!Init
  BY InitRefines
<1>2. IInv /\ [Next]_vars => [ResultRelay!Next]_(ResultRelay!vars)
  <2> SUFFICES ASSUME IInv, [Next]_vars
               PROVE  [ResultRelay!Next]_(ResultRelay!vars)
    OBVIOUS
  <2>1. CASE Log
    BY <2>1, LogRefines DEF IInv
  <2>2. CASE Restart
    BY <2>2, RestartRefines DEF IInv
  <2>3. ASSUME NEW run \in 1 .. Run, CsvLoop(run) \/ DbLoop(run)
        PROVE  [ResultRelay!Next]_(ResultRelay!vars)
    BY <2>3, ThreadRefines DEF IInv
  <2>4. CASE UNCHANGED vars
    BY <2>4, PassStutters DEF vars, ToPass, Active, Settled, Old, Run
  <2> QED BY <2>1, <2>2, <2>3, <2>4 DEF Next
<1> QED BY <1>1, <1>2, Invariance, PTL DEF Spec, RelaysResults, ResultRelay!Spec
=============================================================================
