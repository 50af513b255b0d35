--------------------------- MODULE LockFreeQueue ---------------------------
(***************************************************************************)
(* The ring buffer of src/include/lock_free_queue.h, one step per access   *)
(* to memory that another thread can see.  Every atomic access in the code *)
(* uses the default ordering (sequentially consistent), so interleaving    *)
(* the steps is what the threads can do; storage itself is not atomic, and *)
(* each access to it is a step so that a race on it would show.            *)
(*                                                                         *)
(* One thread consumes.  Producers is the set of threads that call         *)
(* enqueue: the code never says that there may be only one.                *)
(***************************************************************************)
EXTENDS Naturals, Sequences

CONSTANTS
  SIZE,       (* template parameter SIZE: the number of slots              *)
  Items,      (* the values of type T                                      *)
  Producers,  (* the threads that call enqueue                             *)
  Raw,        (* storage in which no T has been constructed                *)
  None        (* std::nullopt, and the value of an unset local             *)

ASSUME QueueAssumption ==
  /\ SIZE \in Nat \ {0}
  /\ None \notin Items
  /\ Raw \notin Items \cup {None}

VARIABLES
  storage,    (* buffer_[i].storage                                        *)
  written,    (* buffer_[i].written                                        *)
  head_,
  tail_,
  alive,      (* FALSE after ~LockFreeQueue                                *)
  \* enqueue, per producer
  ppc,        (* where the call is                                         *)
  item,       (* its argument                                              *)
  curr_tail,
  reply,      (* what it returned, "pending" while it runs                 *)
  \* dequeue and empty
  cpc,
  curr_head,
  result,
  got,        (* what the latest dequeue returned                          *)
  saw_empty   (* what the latest empty() returned                          *)

buffer   == <<storage, written, head_, tail_, alive>>
producer == <<ppc, item, curr_tail, reply>>
consumer == <<cpc, curr_head, result, got, saw_empty>>
vars     == <<buffer, producer, consumer>>

Slots == 0 .. SIZE - 1

\* Mutant: no wrap-around.
NextSlotUnwrapped(i) == i + 1

\* (i + 1) % SIZE
NextSlot(i) == (i + 1) % SIZE

ProducerPcs == {"idle", "check_full", "construct", "mark", "advance"}
ConsumerPcs == {"idle", "check_empty", "check_written", "move", "destroy",
                "clear", "advance", "compare"}

TypeOK ==
  /\ storage \in [Slots -> Items \cup {Raw}]
  /\ written \in [Slots -> BOOLEAN]
  /\ head_ \in Slots
  /\ tail_ \in Slots
  /\ alive \in BOOLEAN
  /\ ppc \in [Producers -> ProducerPcs]
  /\ item \in [Producers -> Items \cup {None}]
  /\ curr_tail \in [Producers -> Slots]
  /\ reply \in [Producers -> {"pending", "accepted", "refused"}]
  /\ cpc \in ConsumerPcs
  /\ curr_head \in Slots
  /\ result \in Items \cup {Raw, None}
  /\ got \in Items \cup {Raw, None}
  /\ saw_empty \in BOOLEAN

Init ==
  /\ storage = [i \in Slots |-> Raw]
  /\ written = [i \in Slots |-> FALSE]
  /\ head_ = 0
  /\ tail_ = 0
  /\ alive = TRUE
  /\ ppc = [p \in Producers |-> "idle"]
  /\ item = [p \in Producers |-> None]
  /\ curr_tail = [p \in Producers |-> 0]
  /\ reply = [p \in Producers |-> "refused"]
  /\ cpc = "idle"
  /\ curr_head = 0
  /\ result = None
  /\ got = None
  /\ saw_empty = FALSE

-----------------------------------------------------------------------------
(* bool enqueue(U&& item) *)

GoP(p, from, to) == ppc[p] = from /\ ppc' = [ppc EXCEPT ![p] = to]

\* The call, and curr_tail = tail_.load().
Enqueue(p, x) ==
  /\ alive
  /\ GoP(p, "idle", "check_full")
  /\ item' = [item EXCEPT ![p] = x]
  /\ curr_tail' = [curr_tail EXCEPT ![p] = tail_]
  /\ reply' = [reply EXCEPT ![p] = "pending"]
  /\ UNCHANGED <<buffer, consumer>>

\* next_tail == head_.load(): return false.
RefuseFull(p) ==
  /\ GoP(p, "check_full", "idle")
  /\ NextSlot(curr_tail[p]) = head_
  /\ reply' = [reply EXCEPT ![p] = "refused"]
  /\ UNCHANGED <<buffer, item, curr_tail, consumer>>

\* Mutant: no test for a full queue.
SeeRoomUnchecked(p) ==
  /\ GoP(p, "check_full", "construct")
  /\ UNCHANGED <<buffer, item, curr_tail, reply, consumer>>

SeeRoom(p) ==
  /\ GoP(p, "check_full", "construct")
  /\ NextSlot(curr_tail[p]) # head_
  /\ UNCHANGED <<buffer, item, curr_tail, reply, consumer>>

\* Placement new of the item in buffer_[curr_tail].storage.
Construct(p) ==
  /\ GoP(p, "construct", "mark")
  /\ storage' = [storage EXCEPT ![curr_tail[p]] = item[p]]
  /\ UNCHANGED <<written, head_, tail_, alive, item, curr_tail, reply, consumer>>

\* Mutant: written is never set.
MarkWrittenForgotten(p) ==
  /\ GoP(p, "mark", "advance")
  /\ UNCHANGED <<buffer, item, curr_tail, reply, consumer>>

MarkWritten(p) ==
  /\ GoP(p, "mark", "advance")
  /\ written' = [written EXCEPT ![curr_tail[p]] = TRUE]
  /\ UNCHANGED <<storage, head_, tail_, alive, item, curr_tail, reply, consumer>>

\* tail_.store(next_tail); return true.
AdvanceTail(p) ==
  /\ GoP(p, "advance", "idle")
  /\ tail_' = NextSlot(curr_tail[p])
  /\ reply' = [reply EXCEPT ![p] = "accepted"]
  /\ UNCHANGED <<storage, written, head_, alive, item, curr_tail, consumer>>

-----------------------------------------------------------------------------
(* std::optional<T> dequeue() *)

GoC(from, to) == cpc = from /\ cpc' = to

\* The call, and curr_head = head_.load().
Dequeue ==
  /\ alive
  /\ GoC("idle", "check_empty")
  /\ curr_head' = head_
  /\ UNCHANGED <<buffer, producer, result, got, saw_empty>>

\* Mutant: the last item looks like an empty queue.
ReturnEmptyOffByOne ==
  /\ GoC("check_empty", "idle")
  /\ NextSlot(curr_head) = tail_
  /\ got' = None
  /\ UNCHANGED <<buffer, producer, curr_head, result, saw_empty>>

\* curr_head == tail_.load(): return nullopt.
ReturnEmpty ==
  /\ GoC("check_empty", "idle")
  /\ curr_head = tail_
  /\ got' = None
  /\ UNCHANGED <<buffer, producer, curr_head, result, saw_empty>>

SeeItem ==
  /\ GoC("check_empty", "check_written")
  /\ curr_head # tail_
  /\ UNCHANGED <<buffer, producer, curr_head, result, got, saw_empty>>

\* !buffer_[curr_head].written.load(): return nullopt.
ReturnUnwritten ==
  /\ GoC("check_written", "idle")
  /\ ~written[curr_head]
  /\ got' = None
  /\ UNCHANGED <<buffer, producer, curr_head, result, saw_empty>>

SeeWritten ==
  /\ GoC("check_written", "move")
  /\ written[curr_head]
  /\ UNCHANGED <<buffer, producer, curr_head, result, got, saw_empty>>

\* result is moved from the storage; the moved-from object is still there.
MoveOut ==
  /\ GoC("move", "destroy")
  /\ result' = storage[curr_head]
  /\ UNCHANGED <<buffer, producer, curr_head, got, saw_empty>>

\* ~T() on the storage.
DestroyItem ==
  /\ GoC("destroy", "clear")
  /\ storage' = [storage EXCEPT ![curr_head] = Raw]
  /\ UNCHANGED <<written, head_, tail_, alive, producer,
                 curr_head, result, got, saw_empty>>

\* Mutant: written is never cleared.
ClearWrittenForgotten ==
  /\ GoC("clear", "advance")
  /\ UNCHANGED <<buffer, producer, curr_head, result, got, saw_empty>>

ClearWritten ==
  /\ GoC("clear", "advance")
  /\ written' = [written EXCEPT ![curr_head] = FALSE]
  /\ UNCHANGED <<storage, head_, tail_, alive, producer,
                 curr_head, result, got, saw_empty>>

\* head_.store((curr_head + 1) % SIZE); return result.
AdvanceHead ==
  /\ GoC("advance", "idle")
  /\ head_' = NextSlot(curr_head)
  /\ got' = result
  /\ UNCHANGED <<storage, written, tail_, alive, producer,
                 curr_head, result, saw_empty>>

-----------------------------------------------------------------------------
(* bool empty() const: head_.load() == tail_.load(), two loads.  The       *)
(* consumer threads call it between two calls of dequeue.                  *)

Empty ==
  /\ alive
  /\ GoC("idle", "compare")
  /\ curr_head' = head_
  /\ UNCHANGED <<buffer, producer, result, got, saw_empty>>

ReturnCompared ==
  /\ GoC("compare", "idle")
  /\ saw_empty' = (curr_head = tail_)
  /\ UNCHANGED <<buffer, producer, curr_head, result, got>>

-----------------------------------------------------------------------------
(* ~LockFreeQueue destroys what is left between head_ and tail_ and then   *)
(* ~Node what any other slot is marked to hold.  It runs when the owner is *)
(* destroyed, after the threads that use the queue have been joined.       *)

Destructor ==
  /\ alive
  /\ cpc = "idle"
  /\ \A p \in Producers : ppc[p] = "idle"
  /\ storage' = [i \in Slots |-> IF written[i] THEN Raw ELSE storage[i]]
  /\ written' = [i \in Slots |-> FALSE]
  /\ head_' = 0
  /\ tail_' = 0
  /\ alive' = FALSE
  /\ UNCHANGED <<producer, consumer>>

-----------------------------------------------------------------------------
ProducerSteps(p) ==
  \/ RefuseFull(p) \/ SeeRoom(p) \/ Construct(p) \/ MarkWritten(p) \/ AdvanceTail(p)

ConsumerSteps ==
  \/ ReturnEmpty \/ SeeItem \/ ReturnUnwritten \/ SeeWritten \/ MoveOut
  \/ DestroyItem \/ ClearWritten \/ AdvanceHead \/ ReturnCompared

\* A running call of the consumer's goes on, through whichever of these is next.
Next ==
  \/ \E p \in Producers : ProducerSteps(p) \/ \E x \in Items : Enqueue(p, x)
  \/ cpc # "idle" /\ ConsumerSteps
  \/ Dequeue \/ Empty
  \/ Destructor

Spec == Init /\ [][Next]_vars

(***************************************************************************)
(* A running call takes its next step, and the consumer keeps calling      *)
(* dequeue: console_loop, csv_loop, db_loop, process_database_queue and    *)
(* process_orderbook_queue call it once per iteration.  Strong fairness,   *)
(* because dequeue alternates with empty() in those loops.  Nobody has to  *)
(* enqueue.                                                                *)
(***************************************************************************)
Fairness ==
  /\ \A p \in Producers : WF_vars(ProducerSteps(p))
  /\ WF_vars(ConsumerSteps)
  /\ SF_vars(Dequeue)

FairSpec == Spec /\ Fairness

-----------------------------------------------------------------------------
(* What the buffer holds. *)

\* size_t size() const
size == IF tail_ >= head_ THEN tail_ - head_ ELSE SIZE - (head_ - tail_)

\* The slot k places after head_.
SlotAt(k) == IF head_ + k < SIZE THEN head_ + k ELSE head_ + k - SIZE

\* The consumer holds the oldest item in result.
Holding == cpc \in {"destroy", "clear", "advance"}

\* The accepted items that have not been returned, oldest first.
Contents ==
  [k \in 1 .. size |-> IF k = 1 /\ Holding THEN result ELSE storage[SlotAt(k - 1)]]

capacity == SIZE - 1

-----------------------------------------------------------------------------
(* Properties. *)

\* enqueue constructs an object only where there is none: an accepted item is
\* never overwritten, and nothing is leaked (lines 66-68).
NoOverwrite ==
  \A p \in Producers :
    ppc[p] = "construct" => storage[curr_tail[p]] = Raw /\ ~written[curr_tail[p]]

\* dequeue moves from, and destroys, an object that exists (lines 85-88), and it
\* never returns nullopt because of an unwritten slot (line 82): head_ # tail_
\* already says that the slot is written.
NoReadOfRaw ==
  /\ cpc = "check_written" => written[curr_head]
  /\ cpc \in {"move", "destroy"} => storage[curr_head] \in Items
  /\ got # Raw

\* The accesses to storage are not atomic; no two threads are ever about to make
\* conflicting ones.
NoStorageRace ==
  \A p \in Producers : ppc[p] = "construct" =>
    /\ cpc \in {"move", "destroy"} => curr_head # curr_tail[p]
    /\ \A q \in Producers \ {p} : ppc[q] = "construct" => curr_tail[q] # curr_tail[p]

\* ~LockFreeQueue leaves no object behind in the storage.
NothingLeaks == ~alive => \A i \in Slots : storage[i] = Raw

\* The plain memory of the slots is used as its atomic indexes allow, to the end.
SlotsAreSafe == NoOverwrite /\ NoReadOfRaw /\ NoStorageRace /\ NothingLeaks

\* The queue is a bounded FIFO for its callers: every call takes effect at one
\* instant, enqueue refuses only a full queue, dequeue finds nothing only in an
\* empty one, empty() is exact for the consumer.
Fifo == INSTANCE BoundedFifo WITH Capacity <- capacity, queue <- Contents
IsBoundedFifo == Fifo!Spec

\* An accepted item is eventually returned by a dequeue, unless the queue is destroyed first.
AcceptedIsDelivered ==
  \A x \in Items : (\E k \in 1 .. size : Contents[k] = x) ~> (got = x \/ ~alive)

-----------------------------------------------------------------------------
(* Why those hold with one producer: the inductive invariant. *)

SingleProducer == \A p, q \in Producers : p = q

\* The slots from head_ up to tail_.
Occupied(i) ==
  IF head_ <= tail_ THEN i \in head_ .. tail_ - 1 ELSE i \notin tail_ .. head_ - 1

\* A running enqueue works on the slot at tail_, which it has seen to be free.
ProducerInv ==
  \A p \in Producers :
    /\ ppc[p] # "idle" => curr_tail[p] = tail_ /\ item[p] \in Items
    /\ ppc[p] = "idle" <=> reply[p] # "pending"
    /\ ppc[p] \in {"construct", "mark", "advance"} => NextSlot(tail_) # head_
    /\ ppc[p] \in {"mark", "advance"} => storage[tail_] = item[p]
    /\ ppc[p] = "advance" => written[tail_]

\* A running dequeue works on the slot at head_, which it has seen to be occupied.
ConsumerInv ==
  /\ cpc # "idle" => curr_head = head_
  /\ cpc \notin {"idle", "check_empty", "compare"} => head_ # tail_
  /\ Holding => result \in Items
  /\ cpc \in {"clear", "advance"} => storage[head_] = Raw
  /\ cpc = "advance" => ~written[head_]
  /\ got # Raw

Filling(pcs) == \E p \in Producers : ppc[p] \in pcs

\* The indexes tell which slots hold an object, but for the slot a call works on.
SlotInv ==
  \A i \in Slots :
    IF Occupied(i)
    THEN /\ storage[i] \in Items \/ (i = head_ /\ cpc \in {"clear", "advance"})
         /\ written[i] \/ (i = head_ /\ cpc = "advance")
    ELSE /\ storage[i] = Raw \/ (i = tail_ /\ Filling({"mark", "advance"}))
         /\ ~written[i] \/ (i = tail_ /\ Filling({"advance"}))

DeadInv ==
  ~alive => cpc = "idle" /\ head_ = tail_ /\ \A p \in Producers : ppc[p] = "idle"

SlotsFollowIndexes == ProducerInv /\ ConsumerInv /\ SlotInv /\ DeadInv

\* No two calls of enqueue overlap.
Serial == \A p, q \in Producers : p = q \/ ppc[p] = "idle" \/ ppc[q] = "idle"

\* Several threads may share a queue, as on DatabaseManager::db_queue_, as long as their
\* calls of enqueue never overlap: what one call leaves behind is all the next one needs.
\* (Two that overlap can construct on the same slot.)
SerialCallsAreSafe ==
  []Serial => [](SlotsAreSafe /\ SlotsFollowIndexes)
=============================================================================
