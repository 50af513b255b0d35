# A TLA+ model of orderbook-reconstruction

The program replays a day of exchange messages (market by order) through a limit
order book, runs a trading strategy on the book, shows both in a Qt window, and
sends snapshots and a trading log to a database. This directory holds TLA+
modules of its parts, the TLC configurations that check them, and proofs.
Paths are those of the repository; `src/` is its root.

## The system

| Part | Source | State | Operations |
|---|---|---|---|
| `LockFreeQueue` | `include/lock_free_queue.h` | ring of slots, `head_`, `tail_` | `enqueue`, `dequeue`, `empty`, destructor |
| `Limit` | `include/limit.h`, `src/book/limit.cpp` | a price level: list of orders, `volume_`, `num_orders_` | `add_order`, `remove_order` |
| `OrderPool`, `Order` | `include/order_pool.h`, `include/order.h` | all `Order` objects, the stack of free ones | `get_order`, `return_order`, `reset` |
| `Orderbook` | `include/orderbook.h`, `src/book/orderbook.cpp` | `bids_`, `offers_`, `limit_lookup_`, `order_lookup_`, counters, running volumes, `vwap_` | `process_msg` (add, cancel, modify, trade), `calculate_vols`, `reset` |
| `DatabaseManager` | `src/database.cpp` | two queues, two threads, a socket | `send_line_protocol_tcp`, `update_limit_orderbook`, the thread loops |
| `AsyncLogger` | `src/async_logger.cpp` | two queues, two threads, a mapped buffer | `log`, the thread loops, the destructor |
| `Backtester` | `src/backtester.cpp` | message index, `running_`, timer, book, strategies | `start_backtest`, `stop_backtest`, `restart_backtest`, `run_backtest` |
| `Strategy`, `ImbalanceStrat` | `include/strategy.h`, `src/strategies/imbalance_strat.cpp` | position, totals, statistics | `on_book_update` |
| `BookGui` | `src/book_gui.cpp` | enabled buttons, plots, tables | button handlers, slots |
| `Parser` | `src/parser.cpp` | mapped file, messages | `parse` |

How they interact. `main` parses the file, makes one `DatabaseManager`, one
`Backtester` and one `BookGui`, and connects the last two by queued signals, so
button presses reach the backtester through the event queue of the one GUI
thread. `run_backtest` feeds the messages to the book in a loop on that thread,
and lets the event queue run inside the loop (`processEvents`). Every hundredth
message it calls `calculate_vols` and hands a snapshot of the book to
`DatabaseManager`; about every two seconds of book time it calls the strategy,
which logs through its own `AsyncLogger`. Each queue between threads is a
`LockFreeQueue`: the logger has a CSV thread and a database thread, the database
manager an orderbook thread, which formats snapshots, and a database thread,
which sends lines. The lines come from two threads, the orderbook thread and the
logger's database thread, and nothing keeps them from being in `enqueue` at once.

What is hard:

- The queue's slots are plain memory guarded by two atomic indexes and a flag.
- The book keeps the same facts in several places (two maps of levels, a lookup of
  levels, a lookup of orders, the parent pointer and the list of each order, the
  counters), and every handler updates them one by one. No handler fails loudly:
  a stale entry is a use of a lost object many messages later.
- Volumes are kept incrementally next to the sizes they should add up to.
- Events are handled in the middle of the message loop.
- Threads stop by polling a flag and a queue, in an order fixed by destructors.
- A queue that is made for one producer has two.

## The modules

| Module | What it is |
|---|---|
| `BoundedFifo` | what a caller of `LockFreeQueue` may rely on: a bounded queue whose calls take effect at one instant |
| `LockFreeQueue` | the ring buffer, one step per access to shared memory; the inductive invariant |
| `LockFreeQueueProofs` | theorems about it |
| `LevelQueues` | what the lists of limits are: queues that an order joins at the end and leaves from anywhere |
| `LimitList` | those lists, pointer by pointer |
| `LimitListProofs` | theorems about them |
| `PriceTimeBook` | what an order book is: per side and price, ids in time priority, and sizes |
| `Orderbook` | the book with its pool and its levels, one action per handler |
| `OrderbookProofs` | theorems about it |
| `Relay` | what a queue and the thread behind it are for: items handed on in order, at most once |
| `DatabaseManager` | its two threads, the connection, the destructor, and `LockFreeQueue` as the queue that loggers share |
| `DatabaseManagerProofs` | theorems about it |
| `AsyncLogger` | the loggers of one strategy after another, on one file |
| `AsyncLoggerProofs` | theorems about it |
| `ImbalanceStrat` | the strategy, and when the message loop gives it a turn |
| `ImbalanceStratProofs` | theorems about it |
| `Parser` | the cut of the mapped file into lines and fields |
| `Backtester` | the message loop, its timer, the buttons, and the event queue between them |
| `Main` | `Parser`, then `Backtester` on what it has parsed |
| `BacktesterProofs` | theorems about `Backtester` and `Parser`, and that `Main` has their properties |
| `FiniteInduction` | theorems about numbers, finite sums and flattened sequences that those proofs rest on |
| `MC...` | the modules TLC runs, with symmetry sets where they are sound |

### LockFreeQueue

An action is one access to memory that another thread can see: the load of
`tail_`, the test against `head_`, the construction in the slot, the store of
`written`, the store of `tail_`, and likewise for `dequeue`, whose move from the slot
and destruction of what is left are two steps. All atomic accesses use the
default, sequentially consistent ordering, so interleaving them is what the threads
can do; the accesses to `storage` are plain, and `NoStorageRace` says that no two
threads are ever about to make conflicting ones. `Raw` stands for storage without
an object. `Producers` is a constant: all queues have one consumer, but not all have
one producer. `curr_head` also holds the head that `empty()` has loaded. The
destructor is one step, because it runs after the threads have been joined.

The refinement `IsBoundedFifo` says that an interleaving of these steps looks to
the callers like a queue of `SIZE - 1` items: `enqueue` takes effect at the
store of `tail_` or at the test that finds it full, `dequeue` at the store of `head_`
or at the test that finds it empty. In the mapping `Contents` runs from `head_` to `tail_`,
and its first item is in `result` once it has been moved out.

### LimitList

An action is a call of `add_order` or `remove_order`, with one operator for each of
its branches. `Orderbook` calls them on orders that are on no list, or through
`parent_`, and those are the guards. Sizes and `volume_` are in `Orderbook`.

### Orderbook

An action is a handler with everything it calls. `levels` is one record for the
two maps, the lookup and the `Limit` objects, which the helpers
(`LimitAdd`, `LimitRemove`, `GetOrInsertLimit`, `EraseIfEmpty`) transform in the
order of the code. A pointer to a limit is the key the limit was made for; that the
maps still hold the key when the pointer is used is the invariant `BookCoherent`, not
an assumption. `order_lookup_` and the order's own fields are separate, so that the
handlers' use of a size from the message here and from the order there is visible.
`vol` is `Null` while `bid_vol_` and `ask_vol_` have not been given a value, and the
best price of an empty side, which the code reads past the end of the map, is any
of `Indeterminate`. A limit erased from the maps is never freed by the code and
never reached again; the model forgets it.

The feed is the environment. An exchange adds an order id that does not rest,
modifies or cancels an order on the side it is on, and cancels it at its current
price and size; it trades at any price, and modifies an id unknown to the book,
which the code treats as an addition. `ProcessMsg` has those guards; the handlers
have none but the code's.

Fields that no code reads are left out: `Order::id_`, `side_`, `unix_time_`,
`filled_`, `Limit::price_`, `side_`; and so are `vwap_` and its sums, which only the
strategy reads. `reset` has no caller. The handlers' arithmetic is over unbounded integers; that the unsigned
counters stay non-negative, so that they do not wrap, is in `TypeOK` and `CountersCoverOrders`.

### Backtester

`Backtester` and `BookGui` share one thread, so the module has no interleaving of
threads: what interleaves is the message loop with the events it lets in. `frames` is
the stack of calls of `run_backtest` that have not returned; with an empty stack the thread
is in `app.exec()`. In either event loop (`HandlingEvents`) the user may click an enabled button,
the oldest queued signal may be delivered, the timer may fire, or `processEvents` may
return, after 20 ms or when nothing is left; which comes first is not determined. A turn of the loop is
`ProcessMessage`, perhaps events, and `EndTurn`.

Of Qt the model uses what the code relies on: queued signals of one thread arrive in the order
they were emitted; `removePostedEvents` drops those that wait for the window; a timer does not interrupt
the handling of its own event (`"busy"`), but one that has been stopped and started again
is a new timer, so that `run_backtest` can be called inside `run_backtest`.

A message is its position in the file; the file passes `start_time_` at `Opens` and
`end_time_` at one of `Closings`. Of the book the model keeps the last message
processed and whether `calculate_vols` has run. `update_chart`,
`update_orderbook_stats` and `trade_executed` are one kind of signal, points. Progress and
the time at which a turn happens are left out, and so is `backtest_error`, which nothing emits.

### Parser and Main

A file is a sequence of characters, a pointer an index, and 0 the null pointer that
`memchr` returns. `ParseLine` looks for commas wherever the line ends, as the code does.
The lines that the file was written from are kept aside in `lines`, so that
`ParsesEveryLine` compares what was parsed with what was meant: without and with a newline at the
end, with empty header lines and with header lines that look like data.
`Chars` is what a line may hold: digits and commas in the run. A file that
ends inside its header leaves a null pointer, which compares below `end`; reading from it
ends the program, and the model has no step there. A field is its digits.

`Main` runs `ParseMappedData` and then, on a file of `N` messages, `Backtester`.
Other files are parsed and not followed further: `N` is a constant of the event loop.

### DatabaseManager

Two threads with a program counter each, and the thread that owns the manager, which calls
`update_limit_orderbook` and then the destructor. The two operands of a loop's condition
are read in two steps, because the destructor and the callers act between them.

`orderbook_queue_` has one producer and one consumer, and a call on it is one step, which the
refinement `IsBoundedFifo` of `LockFreeQueue` allows. `db_queue_` has two producers, the orderbook
thread and the database thread of a logger, and their calls can overlap. So it is no sequence
here: the module extends `LockFreeQueue`, and `db_queue_->enqueue`, `dequeue` and `empty`
are its steps, one per load or store, for every producer. `ManagerSpec` lets them interleave in any way. What can
then happen to a line: two producers construct on one slot, one of them sets `tail_` back over
lines that were accepted, or a slot is left marked that nobody will read in its turn.
Copying into or out of a slot in such a state is undefined for a `std::string`;
the model goes on with either value, or with `Raw`, or ends the process (`UndefinedBehaviour`, `Killed`).

`SerialSpec` is the same program as long as no two calls of `enqueue` overlap. What the queue is for (lines
in order, at most once, accepted ones taken) is promised only there, by the run `database_serial` and
by theorems with that hypothesis; it is what the program does until two calls first overlap. Types, the safety of the destructor
and the way it ends are promised of `ManagerSpec`.

A line is its origin and position, not its text. A connection fails only when there
is none yet, a send at any time; either loses the line. A `send` to a peer that has closed
the connection raises `SIGPIPE`, which nothing in the code blocks or ignores: the process may end at
any `send` (`Killed`). A send takes the
whole line: that a partial one is not continued is not modelled. Lines that the orderbook thread produces after the db thread
has ended stay unsent; `AcceptedLineIsTaken` therefore speaks of lines accepted before the
destructor was called. The steps of a logger stop where the manager has been destroyed.

### AsyncLogger

`loggers` has the logger of every run so far. A restart constructs the next one, which
maps the same file and writes the header into it, before it destroys the last one
step by step: the flag, the two joins, `munmap`. In between four threads work, two of
them on the same file, and `Copy` therefore copies unit by unit. The constructor may throw (`ConstructThrows`) when the file cannot be
opened, cut or mapped: the exception leaves `reset_state` and the message loop, `main` catches it and
returns, and the threads of the last logger go on until the process is gone. When the first logger's constructor throws, the program
ends before `Init`.

`pages` is what is in the mapped
pages, each unit with the line it came from, so that a line that was cut, mixed or
overwritten shows. The mapping is a whole number of pages,
which is why the copies stay inside it; but `ftruncate` made the file `buffer_size_` long,
and what is copied past that end is not in it: `file` is `pages` cut there. `BufferSizes` holds the size the program passes, one byte, as well as one
that a caller would choose. With one byte every line starts over at offset 0, and the file gets
its first byte, nothing more. `LinesAreWhole` speaks of the file, from its first unit on, of both sizes, once no logger
is being destroyed: while one is, it may write over the new one's lines, and one unit of it can be left at the very start, in place
of the header. `db_manager_` is a sequence, `relayed`: what happens to a line in
`send_line_protocol_tcp` is in `DatabaseManager`.

### ImbalanceStrat

A step is a message, with or without a turn of the strategy. The book is
the environment: any best prices, which includes what is read past an empty side, any
volumes, and `vwap_`, which nothing initialises, compares with the middle price in any way.
The running statistics only decide the size of a trade, one until the warm-up is over and
one to three then. `int32_t` ends at `IntMax` and wraps around, which is what processors do where
the language leaves it undefined. The profit passes through a `float`: the product with the point value is
converted to one, the fees, which are one, are subtracted, and the difference is converted back with
saturation. `Float` rounds as a `float` does, to the nearest value it holds, and to the even one of two: everything up to
`FloatExact` (2^24 in the program) is held, past it only multiples of two, four and so on. An `int32_t` has at most eight bits more than a `float` holds
(`StrategyAssumption`). In the run an `int32_t` has five bits and a `float` holds up to 8, so that totals overflow and profits are rounded.

`Turn` and `NoTurn` are a turn of the loop, decided by `Due` from the characters of the two
times. `Resume` is another call of `run_backtest`, with an empty `prev_time`, behind which
`strcmp` may find anything. A restart can come between two turns or inside one
(`restarted`): then the new strategy still gets the rest of that turn, at the time of a message
of the old book, and the next message is the first of the new book. A call inside another one leaves a turn to
end (`nested`, `EndOuterTurn`).

## The runs

| Run | Shows |
|---|---|
| `queue` | One producer, one consumer, three slots, two values: the slots are safe, nothing leaks, the inductive invariant holds, and the queue is a bounded FIFO. Under fairness of both threads, an accepted item is returned, unless the queue is destroyed. |
| `list` | Four orders, two limits: links, counters and order of the lists. |
| `book` | Three ids, two prices, two sizes: the indexes agree, the pool loses and duplicates nothing, the counters do not wrap, only a trade leaves an empty level, and the book is a `PriceTimeBook`, in which priority is kept. |
| `book_volumes` | Two ids, with `calculate_vols` at any time: `bid_vol_` and `ask_vol_` follow what rests on their side. |
| `book_negative_volume` | Violated. A trade leaves an empty level that stays the best price, `calculate_vols` finds nothing and sets the volume to zero, an order out of range of that price is added uncounted, and a trade of part of it is subtracted whatever its price (`orderbook.cpp:163`): the volume becomes negative. |
| `backtest` | Five messages, five clicks, and files of up to two messages with every sort of header: every line becomes a message, `running_` is never stuck, the window agrees with the backtester when all is quiet, a book only goes forward, and the strategy never reads volumes that were not calculated on its book. Under fairness of the thread, it comes to rest after the last click. |
| `backtest_beginning` | Violated. A restart delivered inside the loop makes the new book miss the first message. |
| `database` | Two snapshots, a line of a logger, a ring of three slots, and calls of `enqueue` that overlap in every way: the destructor leaves no snapshot behind, takes no socket from its thread, and returns unless the queue is jammed for ever; and in the behaviours in which calls never overlap, the slots stay safe. Here `dequeue` meets slots that are not written (`ReturnUnwritten`), which it never does in `queue`. |
| `database_serial` | The same with snapshots of two lines and calls that do not overlap: what is sent is in order and sent once, what is lost is gone for good, a line accepted in time is taken, and the destructor returns. |
| `logger` | Two runs, three results of one or two units, a buffer of one and of three: every result accepted reaches `DatabaseManager` in order and across the restart, a destroyed logger is empty, copies stay inside the mapping, and lines in the file are whole. |
| `strategy` | Two prices, three trades, five bits: the position limit, and a profit that is that of the trades shown although the totals overflow, rounded where a `float` rounds it. |
| `strategy_clock` | Violated. Two turns of the strategy three tenths of a second apart. |

The violated ones are disagreements between the code and the README of the
repository, or what the code itself logs or comments, quoted in `PROJECT.json` under `findings`.

Other disagreements that the models show to who looks for them, without a run of their own:

- `calculate_vols` adds up `Limit::volume_`, which trades and changes in place do not reduce, and it does so over
  the first 80 levels (`orderbook.h:143`), where `src/README.md:66` says 100.
- Start after a completed run applies the last message once more, because the loop leaves without
  advancing the index.
- Points of the old run that are posted between a click on Restart and
  its delivery reach the cleared plots.
- `src/README.md:16` has the logger write to std out and a csv file. The thread for std out is never started (`async_logger.cpp:28`, `:141`), and
  the file keeps one byte of what is copied into its page, because `include/strategy.h:40` passes `true` for the size of the buffer: `DOMAIN pages = DOMAIN file` is
  violated by the run `logger`.
- Two overlapping calls of `enqueue` on `db_queue_` lose lines, or jam the queue: one producer loads `tail_` and
  stalls, another enqueues two lines and the database thread takes both, and then the first constructs
  in its slot, which is behind `head_`, and sets `tail_` back. Now `empty()` finds a line and `dequeue` never does;
  the database thread loops for ever, and so does the destructor that joins it. Without `[]Jammed` among the
  outcomes of `DestructorReturnsOrJams`, TLC gives that behaviour; with the
  constants of the run `database`, `RelaysSnapshots` is violated by `ManagerSpec` and `AcceptedLineIsTaken` by `ManagerFairSpec`.

Bounds. Three slots are the fewest in which both indexes wrap and the queue can be empty,
partly filled and full; two values are enough to see an order reversed. Four orders give a list with
two middle elements, and two limits a move between lists. Three orders on two sides and
two prices give a head, a middle and a tail, an emptied level and one trade
that passes one order and reaches another; the pool starts with one order, so it is
both popped and grown. Two sizes make an exact fill, a partial fill, and a modification up, down
and unchanged. `MaxOrders` and `MaxVolume` bound the search alone: the latter
stops messages when the total `volume_` or a running volume leaves the bound. Ids
are interchangeable, and the runs of the book use that symmetry; none of them checks
liveness. Five clicks suffice to start, stop, start again inside the loop, and stop
or restart the nested call; five messages give a message before the opening, one to be
interrupted at, one after the close and a last one. When the clicks are used up the
program rests, and those runs do not check for deadlock. The queue may be destroyed, and its runs do not check for deadlock either;
nor do those of the database manager and the logger, whose callers stop.
Two snapshots, an `orderbook_queue_` of one and a ring of three slots make either queue overflow while the other is empty or full; one
logger line is enough to come between any two lines of the book, and three lines in all for one producer to stall while the
other writes two and the database thread takes both. Two runs give the overlap of two
loggers, and three results fill the larger buffer, start it over and go on. Lines have at most
two units, so that one can be cut. With totals of five bits the second trade of three lots at price four
overflows; a limit of five is reached by trades of sizes one to three from either side. The three
times are apart in the tenths, in the seconds and not at all.

Fairness. A thread inside a call goes on: nothing in the queue waits. The consumer
threads loop over `empty()` and `dequeue()` for as long as they live, which makes
`dequeue` enabled again and again, not all the time, hence strong fairness. Nothing makes
a producer call. The threads of the database manager and of the loggers loop
without waiting for anything but the clock, and a destructor or a restart that has begun goes on, while the program runs: weak fairness of
each (`ThreadsGoOn`). `connect` and `send` may block, and that they return is an assumption of its own about the network, `ServerAnswers`: a
server that accepts a connection and never reads holds the database thread in `send`, and the destructor in its join. Nobody has to call `log`, `update_limit_orderbook` or the destructor. The GUI thread has one fairness condition, that it goes on (`WF_vars(Thread)`, in `Main` with the parser before it):
it is never starved by the user, whose clicks are bounded and not fair.

## The proofs

What TLC checks on a small instance, the theorems state for every value of the constants
that the named assumption of the module allows (`QueueAssumption`, `OrderbookAssumption`, ...). Those say
that a size is a natural number, that a null is not an object, and the like; none of
them is a bound. Every proof has the same form: an inductive invariant `IInv`, whose parts are named for
what they say, a lemma for each group of actions, `Invariance`, and the theorems from it.
TLC checked `IInv` before it was proved, and the invariants of the lists and of the parser (`ListInv`, `ParserInv`) as well, with the layout of the file computed instead of quantified over.

`LockFreeQueueProofs`, for every `SIZE` and every set of items:

- `TypeCorrect`: `TypeOK`, for any number of producers. `TypeOK` is inductive once a running
  call has an argument (`HasArgument`).
- `SlotsCorrect`: with one producer, `SlotsFollowIndexes`. This is the inductive
  invariant: a running `enqueue` works on the free slot at `tail_`, a running `dequeue`
  on the occupied slot at `head_` (`ProducerInv`, `ConsumerInv`), and every other
  slot holds an object, and is marked so, exactly if it is between the indexes (`SlotInv`).
  The safety properties are not inductive without it: each says something of one
  moment of one call, and what makes it true is what all earlier calls left in the ring.
- `SafetyCorrect`: with one producer, `SlotsAreSafe`, which is `NoOverwrite`, `NoReadOfRaw`,
  `NoStorageRace` and `NothingLeaks`, follows from it.
- `SerialCorrect`: with any number of producers, `SerialCallsAreSafe`. The invariant is kept by every
  step before and after which at most one call of `enqueue` runs (`Serial`).
- `FifoCorrect`: with one producer, `IsBoundedFifo`. `ContentsIsSequence` turns the wrapping
  indexes into a sequence; from there the stores of `tail_` and `head_`, and the tests that fail,
  are steps of `BoundedFifo`, and all else is a stutter.

`LimitListProofs`, for every finite set of orders and every set of limits:

- `LinksCorrect`: `WellLinked`. The ends, the neighbours and the clear links of orders
  on no list are inductive only together: `add_order` leaves the links of a new
  order alone and relies on their being null.
- `CountCorrect`: `num_orders_` is the number of orders whose `parent_` is the limit, so that
  it cannot wrap, which `TypeCorrect` states with the types of the pointers. No run checks `TypeOK` of
  `LimitList`: in the run `list`, `WellLinked` and `ListIsWhole` say more.
- `WholeCorrect`: `ListIsWhole`. Links that agree with their neighbours do not make a list: a circle of orders that no
  `head_` leads to has such links, too. `ListInv` therefore says that what `Path` finds from `head_` is a walk (`IsWalk`)
  over just the orders of the limit, each once. `Path` walks by a recursive function; that there is only one walk from an order, and
  that `Path` finds it, is shown by the least position at which they would differ. Of each branch of `add_order` and `remove_order` a
  lemma gives the walk after it, which is the one before it with the order at the end, or without the order.
- `QueuesCorrect`: `IsLevelQueues`, the refinement of `LevelQueues`, from the same lemmas.

`OrderbookProofs`, for all ids, prices and sizes, any number of `Order` objects and every range
and depth of the running volumes:

- `IndexesCorrect`: `BookCoherent`. The invariant about the limits, `LevelsOK`, is of one record that the helpers
  take and return, so that there is one lemma for each helper (`LimitAddKeeps`, `LimitRemoveKeeps`, `EraseKeeps`, ...)
  and the handlers only chain them: an order on a list has that limit as its `parent_` and its price (`Placed`), an
  order with a `parent_` is on its list (`Listed`), once (`Once`), and a limit that has orders is
  in the maps (`InMaps`). `LookedUpRest` ties it to `order_lookup_`, without which a cancel could meet an
  order that is on no list.
- `PoolCorrect`: `PoolPartition`, which is inductive by itself.
- `CountersCorrect`: `CountersCoverOrders`. Trades and changes in place reduce sizes and leave `volume_`, so that the
  invariant is an inequality (`Covered`), and with it `volume_ -= size` never wraps. `TypeCorrect` says so of all counters.
- `EmptyLevelsCorrect`: `OnlyTradesAddEmptyLevels`.
- `PriorityCorrect`: `IsPriceTimeBook`, the refinement of `PriceTimeBook`. The mapping reads ids off the lists, so the proof first
  says in terms of `levels.list` and `order_lookup_` alone what it maps to (`QueuesOf`, `SizesOf`, `ById`); that needs every order
  on a list to be looked up by one id, which `IInv` has. The lemmas `QueuesJoin` and `QueuesLeave` turn a change of one list into a change of one queue,
  and there is one lemma for each handler (`AddLimitOrderAdds`, `RemoveOrderCancels`, `ModifyKnownModifies`, `TradeOrderTrades`).
- `TradesCorrect`: `TradesFollowPriority`. A trade reaches at most one order without exhausting it (`ReachesOne`): of all orders in
  the way of the trade, only at that one do the sizes passed stop being less than the size of the trade.
- `VolumesCorrect`: `VolFollowsOrders`, under the hypothesis `AllNear` that every price is within `VolRange` of every other, as in the
  run `book_volumes`; without it the running volumes do not follow the orders (finding of the run `book_negative_volume`). What rests on a side
  is a sum over the orders with a `parent_` there (`RestingOn`), which an add, a cancel, a modification or a trade changes at one
  order after the other; `VolStep` says of each handler that `update_vol` is given the same difference.
- `MessagesCorrect`: all of these for `MessagesSpec`, which the run `book` checks.

`DatabaseManagerProofs`, for every `SIZE`, capacity and number of loggers:

- `ManagerTypeCorrect` and `DestructorCorrect`: `ManagerTypeOK` and `DestructorIsSafe` of `ManagerSpec`, with calls of `enqueue` that overlap
  as they please. The flag is set exactly from the start of the destructor on
  (`FlagFollowsDestructor`), and a thread asks its queue for the last time only after it has
  read the flag (`ThreadsSawFlag`). From then on nobody calls `update_limit_orderbook`, so what it reads as empty stays so
  (`OrderbookThreadTidy`). The ring's own types are those of `LockFreeQueueProofs` (`RingStep`: every step of the manager is a step of the ring
  or leaves it alone).
- `SentCorrect`: `ManagerSpec /\ []Serial => []SentInOrder`, where `Serial` says that at most one call of `enqueue` runs. With it the
  ring's inductive invariant holds (`SerialInv`), and the steps of the ring are those of a sequence: a store of `tail_` appends the line of the one producer that has one,
  a store of `head_` takes the first (`Moves`, `StepMoves`). Then whatever is behind on the way to the socket, in `line`, `db_queue_`, `db_updates` and
  `orderbook_queue_`, is of a later snapshot or level than what is ahead, and everything on the way is older than the next
  snapshot (`OrderInv`). Queues that overflow and connections that fail only take lines away, and the logger's lines have no place in the
  order (`IsBookLine`).
- `RelayCorrect`: `ManagerSpec /\ []Serial => RelaysSnapshots`, the refinement of `Relay`. The mapping leaves out the logger's lines (`Kept`) and makes of
  every snapshot in `orderbook_queue_` the lines it will have (`LinesOf`); lemmas say what it becomes when one of the queues
  grows or shrinks (`BookLinesMove`, `LinesOfAllMove`, `Regroup`). A full queue, a failed connection and a failed send
  are the relay's loss. An accepted snapshot has to be new to it, which is `OrderInv` again (`PartsAreOld`).
- `SerialSpecIsSerial` puts the run `database_serial` under these theorems.

`AsyncLoggerProofs`, for every length of line up to a page, every size of the buffer, and any number of runs:

- `DestructorDrains`: `DestroyedIsDrained`, by the same argument (`DrainsBeforeDone`), and with what
  the loggers of two runs may be doing at once (`Generations`): all but the last two are gone, and while the one before the last goes, the last is still fresh.
- `CopiesCorrect`: `CopiesStayMapped`. The line of a buffer too small for it starts over at 0; that it ends inside the page is
  because a line is no longer than one (`HandsFit`).
- `LinesCorrect`: `LinesAreWhole`, of the file and from its first unit on. The units in the pages follow each other up to where the current logger has written
  (`WrittenInOrder`), and the lines still in its queue come after them (`QueueInOrder`). A logger writes only lines of its own
  run (`OwnLines`), and while the older one goes the newer has no line but the header (`HeaderLeft`), which the older may write over: the lines
  begin at `Base`. If every line fits the buffer, none goes past its end (`FitsBuffer`).
- `RelayCorrect`: `RelaysResults`, the refinement of `Relay`: the queues and hands of all
  loggers, one after the other, are what is on its way. That no older logger has anything left when a
  later one hands on is `Generations` again.

`BacktesterProofs`, for files of any length and any number of clicks:

- `ButtonsCorrect`: `IdleIsReady`. It is inductive with `WaitingEnds`: while the window waits, there is a call, a signal or a
  timer that will end in `on_backtest_finished`, and no Stop is queued behind it that would take it away.
- `FlagCorrect`: `RunningIsDriven`, which is inductive by itself.
- `BookOrderCorrect` and `VolsCorrect`: `BookGoesForward` and `VolsBeforeStrategy`, because the index
  is never before the book's last message and a book past the first message has its volumes (`BookAtIndex`).
- `MainRunsBacktester`: `MainSpec => Spec`, so that all of this holds of the program.
- `ParserCorrect`: `ParsesEveryLine`, for every set of files and number of fields. `ParserAssumption` says what the files may be:
  anything but a newline in the two lines of the header, fields of at least one digit behind it. There is a place in the
  file for every line, and in a line for every field (`LaidOut`, `FieldsAt`), and `current` is where the next line begins,
  unless a header that no newline ends has left it null (`CurrentInv`). The rest is that the first newline or
  comma found from there is the one written behind the line or the field (`NewlineIsFound`, `TokenIsRead`), and
  that it is so in the last line, too, where the file may just end.

`ImbalanceStratProofs`, for every price, volume, time and limit and every width of `int32_t`:

- `LimitCorrect`: `PositionWithinLimit`; with it `position_` cannot overflow.
- `PnlCorrect`: `PnlFollowsTrades`. The totals are those of the trades up to a multiple of the number of values of an
  `int32_t` (`TotalsOfTrades`, `Congruent`), and a gross profit that fits is the only value congruent to it; the fees are those of the trades
  as long as a `float` holds them (`FeesFollow`). From there the profit is what the conversions make of the trades' profit, which is
  that profit where the `float` holds it, the gross and the fees (`FloatType`, `ExactType`). Past 2^24 `pnl_` differs from it.

`FiniteInduction` has what the prover's library lacks: that the sum over a finite set does not depend on the order in which it is taken
and does not shrink with the set, with the sums that lists of orders and of trades need; what is left of a sequence by `RemoveAt`; and
of `FlattenSeq` what it makes of a longer or shorter sequence, and where in the result each part is (`Offsets`). Induction is over sets, through the least
element of the set of counterexamples (`LeastNumberExists`), because theorems with an operator as parameter cannot be used.

Only model-checked: liveness (`AcceptedIsDelivered`, `ComesToRest`, `AcceptedLineIsTaken`,
`DestructorReturnsOrJams`, `DestructorReturns`, `Drains`), which the prover does not do. Every other property of a run that passes is a theorem.

## What is not modelled

The end of `main`: `db_manager` is destroyed while the logger's threads run, because nothing deletes the backtester.
After that every outcome is possible, and no property holds.

Not modelled because the program never calls them: `Orderbook::reset` and with it `OrderPool::reset`, which would leave
freed orders on the stack of free ones; the skew and the depths of the book; the move operations, `send_query` and the CSV reader of
`DatabaseManager`, whose move constructor would join threads that nothing has stopped;
`console_loop`; `Strategy::reset`.

Left out for good: `SkewStrat`, `LimitPool` and the web socket server, which nothing uses;
plots, tables and mouse handling, which are presentation; `qcustomplot` and
`concurrentqueue.h`, which are vendored; the conversion of numbers and times, which is the C and C++
libraries'; weak memory orderings, which the code does not ask for.
