------------------------ MODULE LockFreeQueueProofs ------------------------
(***************************************************************************)
(* Theorems about LockFreeQueue for every SIZE and every set of items.     *)
(* Types hold for any number of producers; the safety of the slots, and    *)
(* that the queue is a bounded FIFO, as long as no two calls of enqueue    *)
(* overlap, which those of one producer cannot: two that overlap could     *)
(* construct in the same slot.                                             *)
(***************************************************************************)
EXTENDS LockFreeQueue, SequenceTheorems, TLAPS

\* (i + 1) % SIZE is the next slot, going round.
LEMMA NextSlotRoundTrip ==
  ASSUME NEW i \in Slots
  PROVE  /\ NextSlot(i) = IF i + 1 = SIZE THEN 0 ELSE i + 1
         /\ NextSlot(i) \in Slots
<1>1. SIZE \in Nat /\ SIZE > 0 /\ i \in Nat /\ i < SIZE
  BY QueueAssumption DEF Slots
<1>2. CASE i + 1 = SIZE
  BY <1>1, <1>2 DEF NextSlot, Slots
<1>3. CASE i + 1 # SIZE
  BY <1>1, <1>3 DEF NextSlot, Slots
<1> QED BY <1>2, <1>3

-----------------------------------------------------------------------------
(* Types. *)

LEMMA ZeroSlot == 0 \in Slots
  BY QueueAssumption DEF Slots

\* A running enqueue has an argument: TypeOK is inductive together with this.
HasArgument == \A p \in Producers : ppc[p] # "idle" => item[p] \in Items

TypeInv == TypeOK /\ HasArgument

LEMMA InitTypeInv == Init => TypeInv
  BY ZeroSlot, ZenonT(40) DEF Init, TypeInv, TypeOK, HasArgument, ProducerPcs, ConsumerPcs

LEMMA NextTypeInv == TypeInv /\ [Next]_vars => TypeInv'
<1> SUFFICES ASSUME TypeInv, [Next]_vars
             PROVE  TypeInv'
  OBVIOUS
<1> USE DEF TypeInv, TypeOK, HasArgument, ProducerPcs, ConsumerPcs, GoP, GoC,
            buffer, producer, consumer
<1>1. ASSUME NEW p \in Producers, NEW x \in Items, Enqueue(p, x)
      PROVE  TypeInv'
  BY <1>1 DEF Enqueue
<1>2. ASSUME NEW p \in Producers, ProducerSteps(p)
      PROVE  TypeInv'
  <2>1. CASE RefuseFull(p)  BY <2>1 DEF RefuseFull
  <2>2. CASE SeeRoom(p)     BY <2>2 DEF SeeRoom
  <2>3. CASE Construct(p)   BY <2>3 DEF Construct
  <2>4. CASE MarkWritten(p) BY <2>4 DEF MarkWritten
  <2>5. CASE AdvanceTail(p)
    <3>1. NextSlot(curr_tail[p]) \in Slots
      BY NextSlotRoundTrip
    <3> QED BY <2>5, <3>1 DEF AdvanceTail
  <2> QED BY <1>2, <2>1, <2>2, <2>3, <2>4, <2>5 DEF ProducerSteps
<1>3. CASE Dequeue          BY <1>3 DEF Dequeue
<1>4. CASE Empty            BY <1>4 DEF Empty
<1>5. CASE ConsumerSteps
  <2>1. CASE ReturnEmpty     BY <2>1 DEF ReturnEmpty
  <2>2. CASE SeeItem         BY <2>2 DEF SeeItem
  <2>3. CASE ReturnUnwritten BY <2>3 DEF ReturnUnwritten
  <2>4. CASE SeeWritten      BY <2>4 DEF SeeWritten
  <2>5. CASE MoveOut         BY <2>5 DEF MoveOut
  <2>6. CASE DestroyItem     BY <2>6 DEF DestroyItem
  <2>7. CASE ClearWritten    BY <2>7 DEF ClearWritten
  <2>8. CASE AdvanceHead
    <3>1. NextSlot(curr_head) \in Slots
      BY NextSlotRoundTrip
    <3> QED BY <2>8, <3>1 DEF AdvanceHead
  <2>9. CASE ReturnCompared  BY <2>9 DEF ReturnCompared
  <2> QED
    BY <1>5, <2>1, <2>2, <2>3, <2>4, <2>5, <2>6, <2>7, <2>8, <2>9 DEF ConsumerSteps
<1>6. CASE Destructor
  BY <1>6, ZeroSlot DEF Destructor
<1>7. CASE UNCHANGED vars
  BY <1>7 DEF vars
<1> QED BY <1>1, <1>2, <1>3, <1>4, <1>5, <1>6, <1>7 DEF Next

\* Every index stays inside the array and every local keeps its type, with any
\* number of producers.
THEOREM TypeCorrect == Spec => []TypeOK
<1>1. Init => TypeInv
  BY InitTypeInv
<1>2. TypeInv /\ [Next]_vars => TypeInv'
  BY NextTypeInv
<1>3. TypeInv => TypeOK
  BY DEF TypeInv
<1> QED BY <1>1, <1>2, <1>3, PTL DEF Spec

-----------------------------------------------------------------------------
(* The slots, while the calls of enqueue do not overlap. *)

IInv == TypeInv /\ SlotsFollowIndexes

\* No slot is occupied when head_ = tail_.
LEMMA NoneOccupied ==
  ASSUME TypeOK, head_ = tail_, NEW i \in Slots
  PROVE  ~Occupied(i)
  BY QueueAssumption DEF TypeOK, Slots, Occupied

\* head_ is occupied unless the queue is empty; tail_ never is.
LEMMA EndsOccupied ==
  ASSUME TypeOK
  PROVE  /\ head_ # tail_ => Occupied(head_)
         /\ ~Occupied(tail_)
  BY QueueAssumption DEF TypeOK, Slots, Occupied

\* Advancing tail_ short of head_ occupies the slot that was at tail_.
LEMMA TailAdvances ==
  ASSUME TypeOK, NextSlot(tail_) # head_, tail_' = NextSlot(tail_), head_' = head_,
         NEW i \in Slots
  PROVE  Occupied(i)' <=> Occupied(i) \/ i = tail_
<1>1. /\ tail_ \in Slots
      /\ head_ \in Slots
  BY DEF TypeOK
<1>2. NextSlot(tail_) = IF tail_ + 1 = SIZE THEN 0 ELSE tail_ + 1
  BY <1>1, NextSlotRoundTrip
<1> QED BY <1>1, <1>2, QueueAssumption DEF Slots, Occupied

\* Advancing head_ frees the slot that was at head_.
LEMMA HeadAdvances ==
  ASSUME TypeOK, head_ # tail_, head_' = NextSlot(head_), tail_' = tail_,
         NEW i \in Slots
  PROVE  Occupied(i)' <=> Occupied(i) /\ i # head_
<1>1. /\ tail_ \in Slots
      /\ head_ \in Slots
  BY DEF TypeOK
<1>2. NextSlot(head_) = IF head_ + 1 = SIZE THEN 0 ELSE head_ + 1
  BY <1>1, NextSlotRoundTrip
<1> QED BY <1>1, <1>2, QueueAssumption DEF Slots, Occupied

\* Occupied depends on the indexes alone.
LEMMA OccupiedSame ==
  ASSUME head_' = head_, tail_' = tail_, NEW i \in Slots
  PROVE  Occupied(i)' <=> Occupied(i)
  BY DEF Occupied

LEMMA InitSlots == Init => SlotsFollowIndexes
<1> SUFFICES ASSUME Init
             PROVE  SlotsFollowIndexes
  OBVIOUS
<1>1. TypeOK
  BY InitTypeInv DEF TypeInv
<1>2. ASSUME NEW i \in Slots
      PROVE  ~Occupied(i)
  BY <1>1, <1>2, NoneOccupied DEF Init
<1>3. ProducerInv /\ ConsumerInv /\ DeadInv
  BY QueueAssumption DEF Init, ProducerInv, ConsumerInv, DeadInv, Holding
<1>4. SlotInv
  BY <1>2 DEF Init, SlotInv
<1> QED BY <1>3, <1>4 DEF SlotsFollowIndexes

\* The producer's steps keep SlotsFollowIndexes.
LEMMA ProducerKeepsSlots ==
  ASSUME Serial, Serial', IInv, NEW p \in Producers,
         ProducerSteps(p) \/ \E x \in Items : Enqueue(p, x)
  PROVE  SlotsFollowIndexes'
<1> USE DEF IInv, TypeInv, TypeOK, HasArgument, SlotsFollowIndexes, ProducerInv, ConsumerInv,
            DeadInv, Holding, GoP, buffer, consumer, ProducerPcs
<1>1. \A q \in Producers : q # p => ppc[q] = "idle"
  <2>1. CASE ppc[p] # "idle"
    BY <2>1 DEF Serial
  <2>2. CASE ppc[p] = "idle"
    <3>1. \E x \in Items : Enqueue(p, x)
      BY <2>2 DEF ProducerSteps, RefuseFull, SeeRoom, Construct, MarkWritten, AdvanceTail
    <3>2. ppc' = [ppc EXCEPT ![p] = "check_full"]
      BY <3>1 DEF Enqueue
    <3> QED BY <3>2 DEF Serial
  <2> QED BY <2>1, <2>2
<1>2. CASE \E x \in Items : Enqueue(p, x)
  <2>1. PICK x \in Items : Enqueue(p, x)
    BY <1>2
  <2>2. SlotInv'
    BY <1>1, <2>1, OccupiedSame DEF Enqueue, SlotInv, Filling
  <2> QED BY <1>1, <2>1, <2>2 DEF Enqueue
<1>3. CASE RefuseFull(p)
  <2>1. SlotInv'
    BY <1>1, <1>3, OccupiedSame DEF RefuseFull, SlotInv, Filling
  <2> QED BY <1>1, <1>3, <2>1 DEF RefuseFull
<1>4. CASE SeeRoom(p)
  <2>1. SlotInv'
    BY <1>1, <1>4, OccupiedSame DEF SeeRoom, SlotInv, Filling
  <2> QED BY <1>1, <1>4, <2>1 DEF SeeRoom
<1>5. CASE Construct(p)
  <2>1. SlotInv'
    BY <1>1, <1>5, OccupiedSame, EndsOccupied DEF Construct, SlotInv, Filling
  <2> QED BY <1>1, <1>5, <2>1 DEF Construct
<1>6. CASE MarkWritten(p)
  <2>1. SlotInv'
    BY <1>1, <1>6, OccupiedSame, EndsOccupied DEF MarkWritten, SlotInv, Filling
  <2> QED BY <1>1, <1>6, <2>1 DEF MarkWritten
<1>7. CASE AdvanceTail(p)
  <2>1. /\ tail_' = NextSlot(tail_)
        /\ NextSlot(tail_) # head_
        /\ head_' = head_
    BY <1>7 DEF AdvanceTail
  <2>2. \A i \in Slots : Occupied(i)' <=> Occupied(i) \/ i = tail_
    BY <2>1, TailAdvances
  <2>3. SlotInv'
    BY <1>1, <1>7, <2>1, <2>2, EndsOccupied DEF AdvanceTail, SlotInv, Filling
  <2>4. ProducerInv' /\ DeadInv'
    BY <1>1, <1>7 DEF AdvanceTail
  <2>5. ConsumerInv'
    BY <1>7, <2>1 DEF AdvanceTail
  <2> QED BY <2>3, <2>4, <2>5
<1> QED BY <1>2, <1>3, <1>4, <1>5, <1>6, <1>7 DEF ProducerSteps

\* The consumer's steps keep SlotsFollowIndexes.
LEMMA ConsumerKeepsSlots ==
  ASSUME IInv, ConsumerSteps \/ Dequeue \/ Empty
  PROVE  SlotsFollowIndexes'
<1> USE DEF IInv, TypeInv, TypeOK, SlotsFollowIndexes, ProducerInv, ConsumerInv,
            DeadInv, Holding, GoC, buffer, producer, ConsumerPcs
<1>1. CASE \/ Dequeue \/ Empty \/ ReturnEmpty \/ SeeItem \/ ReturnUnwritten
           \/ SeeWritten \/ MoveOut \/ ReturnCompared
  <2> USE DEF Dequeue, Empty, ReturnEmpty, SeeItem, ReturnUnwritten, SeeWritten,
              MoveOut, ReturnCompared
  <2>1. UNCHANGED <<storage, written, head_, tail_, alive, ppc, item, curr_tail, reply>>
    BY <1>1
  <2>2. SlotInv'
    BY <1>1, <2>1, OccupiedSame DEF SlotInv, Filling
  <2>3. ProducerInv' /\ DeadInv'
    BY <1>1, <2>1
  <2>4. ConsumerInv'
    BY <1>1, <2>1, EndsOccupied, QueueAssumption DEF SlotInv
  <2> QED BY <2>2, <2>3, <2>4
<1>2. CASE DestroyItem
  <2>1. SlotInv'
    BY <1>2, OccupiedSame, EndsOccupied DEF DestroyItem, SlotInv, Filling
  <2> QED BY <1>2, <2>1, EndsOccupied DEF DestroyItem
<1>3. CASE ClearWritten
  <2>1. SlotInv'
    BY <1>3, OccupiedSame, EndsOccupied DEF ClearWritten, SlotInv, Filling
  <2> QED BY <1>3, <2>1, EndsOccupied DEF ClearWritten
<1>4. CASE AdvanceHead
  <2>1. head_' = NextSlot(head_) /\ head_ # tail_ /\ tail_' = tail_
    BY <1>4 DEF AdvanceHead
  <2>2. \A i \in Slots : Occupied(i)' <=> Occupied(i) /\ i # head_
    BY <2>1, HeadAdvances
  <2>3. Occupied(head_)
    BY <2>1, EndsOccupied
  <2>4. SlotInv'
    BY <1>4, <2>1, <2>2, <2>3 DEF AdvanceHead, SlotInv, Filling
  <2>5. NextSlot(tail_) # NextSlot(head_)
    <3>1. head_ \in Slots /\ tail_ \in Slots
      OBVIOUS
    <3>2. /\ NextSlot(head_) = IF head_ + 1 = SIZE THEN 0 ELSE head_ + 1
          /\ NextSlot(tail_) = IF tail_ + 1 = SIZE THEN 0 ELSE tail_ + 1
      BY <3>1, NextSlotRoundTrip
    <3> QED BY <2>1, <3>1, <3>2, QueueAssumption DEF Slots
  <2>6. ProducerInv' /\ DeadInv'
    BY <1>4, <2>1, <2>5 DEF AdvanceHead
  <2>7. ConsumerInv'
    BY <1>4, <2>1, QueueAssumption DEF AdvanceHead
  <2> QED BY <2>4, <2>6, <2>7
<1> QED BY <1>1, <1>2, <1>3, <1>4 DEF ConsumerSteps

\* ~LockFreeQueue keeps SlotsFollowIndexes.
LEMMA DestructorKeepsSlots ==
  ASSUME IInv, Destructor
  PROVE  SlotsFollowIndexes'
<1> USE DEF IInv, TypeInv, TypeOK, SlotsFollowIndexes, ProducerInv, ConsumerInv,
            DeadInv, Holding, Destructor, producer, consumer
<1>1. head_' = tail_' /\ TypeOK'
  BY NextTypeInv, ZeroSlot DEF Next
<1>2. \A i \in Slots : ~Occupied(i)'
  BY <1>1, QueueAssumption DEF Slots, Occupied
<1>3. SlotInv'
  BY <1>2 DEF SlotInv, Filling
<1> QED BY <1>3

LEMMA NextIInv == Serial /\ Serial' /\ IInv /\ [Next]_vars => IInv'
<1> SUFFICES ASSUME Serial, Serial', IInv, [Next]_vars
             PROVE  SlotsFollowIndexes'
  BY NextTypeInv DEF IInv
<1>1. CASE \E p \in Producers : ProducerSteps(p) \/ \E x \in Items : Enqueue(p, x)
  BY <1>1, ProducerKeepsSlots
<1>2. CASE ConsumerSteps \/ Dequeue \/ Empty
  BY <1>2, ConsumerKeepsSlots
<1>3. CASE Destructor
  BY <1>3, DestructorKeepsSlots
<1>4. CASE UNCHANGED vars
  <2> USE DEF vars, buffer, producer, consumer, IInv, SlotsFollowIndexes
  <2>1. SlotInv'
    BY <1>4, OccupiedSame DEF SlotInv, Filling
  <2>2. ProducerInv'
    BY <1>4 DEF ProducerInv
  <2>3. ConsumerInv' /\ DeadInv'
    BY <1>4 DEF ConsumerInv, DeadInv, Holding
  <2> QED BY <2>1, <2>2, <2>3
<1> QED BY <1>1, <1>2, <1>3, <1>4 DEF Next

LEMMA Invariance == Spec /\ []Serial => []IInv
<1>1. Init => IInv
  BY InitTypeInv, InitSlots DEF IInv
<1> QED BY <1>1, NextIInv, PTL DEF Spec

\* The calls of one producer never overlap.
LEMMA SingleIsSerial == SingleProducer => Serial
BY DEF SingleProducer, Serial

\* With one producer the indexes tell which slots hold an object.
THEOREM SlotsCorrect ==
  ASSUME SingleProducer
  PROVE  Spec => []SlotsFollowIndexes
<1>1. Serial
  BY SingleIsSerial
<1>2. IInv => SlotsFollowIndexes
  BY DEF IInv
<1> QED BY <1>1, <1>2, Invariance, PTL

-----------------------------------------------------------------------------
(* The safety properties follow. *)

LEMMA IInvSafety ==
  ASSUME Serial, IInv
  PROVE  SlotsAreSafe
<1> USE DEF IInv, TypeInv, TypeOK, SlotsFollowIndexes, ProducerInv, ConsumerInv,
            DeadInv, SlotInv, Filling
<1>1. NoOverwrite
  BY EndsOccupied DEF NoOverwrite, Serial
<1>2. NoReadOfRaw
  BY EndsOccupied DEF NoReadOfRaw
<1>3. NoStorageRace
  BY DEF NoStorageRace, Serial
<1>4. NothingLeaks
  BY NoneOccupied DEF NothingLeaks
<1> QED BY <1>1, <1>2, <1>3, <1>4 DEF SlotsAreSafe

\* With one producer no call constructs over an object, moves from or destroys
\* raw storage, or races with another on a slot, and destruction leaves nothing.
THEOREM SafetyCorrect ==
  ASSUME SingleProducer
  PROVE  Spec => []SlotsAreSafe
<1>1. Serial
  BY SingleIsSerial
<1>2. Serial /\ IInv => SlotsAreSafe
  BY IInvSafety
<1> QED BY <1>1, <1>2, Invariance, PTL

\* Any number of threads may share a queue as long as their calls of enqueue do not
\* overlap, as on DatabaseManager::db_queue_.
THEOREM SerialCorrect == Spec => SerialCallsAreSafe
<1>1. Serial /\ IInv => SlotsAreSafe /\ SlotsFollowIndexes
  BY IInvSafety DEF IInv
<1> QED BY <1>1, Invariance, PTL DEF SerialCallsAreSafe

-----------------------------------------------------------------------------
(* The queue is a bounded FIFO. *)

\* How many slots are occupied, and which.
LEMMA SizeOfQueue ==
  ASSUME TypeOK
  PROVE  /\ size \in 0 .. SIZE - 1
         /\ size = 0 <=> head_ = tail_
         /\ size = SIZE - 1 <=> NextSlot(tail_) = head_
         /\ SlotAt(0) = head_
         /\ \A k \in 0 .. size - 1 : SlotAt(k) \in Slots /\ SlotAt(k) # tail_
         /\ \A k \in 1 .. size - 1 : SlotAt(k) # head_
         /\ SlotAt(size) = tail_
<1>1. /\ SIZE \in Nat /\ SIZE > 0 /\ head_ \in Nat /\ head_ < SIZE /\ tail_ \in Nat /\ tail_ < SIZE
  BY QueueAssumption DEF TypeOK, Slots
<1>2. NextSlot(tail_) = IF tail_ + 1 = SIZE THEN 0 ELSE tail_ + 1
  BY NextSlotRoundTrip DEF TypeOK
<1> QED BY <1>1, <1>2 DEF size, SlotAt, Slots

\* The contents are a sequence.
LEMMA ContentsIsSequence ==
  ASSUME TypeOK
  PROVE  /\ Contents \in Seq(Items \cup {Raw, None})
         /\ Len(Contents) = size
         /\ \A k \in 1 .. size : Contents[k] = IF k = 1 /\ Holding THEN result
                                               ELSE storage[SlotAt(k - 1)]
<1>1. size \in Nat
  BY SizeOfQueue
<1>2. ASSUME NEW k \in 1 .. size
      PROVE  (IF k = 1 /\ Holding THEN result ELSE storage[SlotAt(k - 1)])
                \in Items \cup {Raw, None}
  <2>1. k - 1 \in 0 .. size - 1
    BY <1>1
  <2>2. SlotAt(k - 1) \in Slots
    BY <2>1, SizeOfQueue
  <2> QED BY <2>2 DEF TypeOK
<1> QED BY <1>1, <1>2 DEF Contents

\* Contents are the same when its parts are.
LEMMA ContentsSame ==
  ASSUME TypeOK, TypeOK', head_' = head_, tail_' = tail_,
         \A k \in 1 .. size : IF k = 1 /\ Holding' THEN result' = Contents[k]
                              ELSE storage'[SlotAt(k - 1)] = Contents[k]
  PROVE  Contents' = Contents
<1>1. size' = size /\ \A k : SlotAt(k)' = SlotAt(k)
  BY DEF size, SlotAt
<1>2. Contents' = [k \in 1 .. size |-> IF k = 1 /\ Holding' THEN result'
                                       ELSE storage'[SlotAt(k - 1)]]
  BY <1>1 DEF Contents
<1> QED BY <1>2 DEF Contents

\* Storage that changes outside the contents, or under what the consumer holds.
LEMMA StorageChanges ==
  ASSUME TypeOK, TypeOK', NEW i, storage' = [storage EXCEPT ![i] = storage'[i]],
         i = tail_ \/ (i = head_ /\ Holding /\ Holding' /\ result' = result),
         head_' = head_, tail_' = tail_, Holding' <=> Holding, result' = result
  PROVE  Contents' = Contents
<1>1. size \in Nat
  BY SizeOfQueue
<1>2. ASSUME NEW k \in 1 .. size
      PROVE  IF k = 1 /\ Holding' THEN result' = Contents[k]
             ELSE storage'[SlotAt(k - 1)] = Contents[k]
  <2>1. Contents[k] = IF k = 1 /\ Holding THEN result ELSE storage[SlotAt(k - 1)]
    BY ContentsIsSequence
  <2>2. k - 1 \in 0 .. size - 1 /\ k - 1 \in Nat
    BY <1>1
  <2>3. SlotAt(k - 1) \in Slots /\ SlotAt(k - 1) # tail_
    BY <2>2, SizeOfQueue
  <2>4. k # 1 => SlotAt(k - 1) # head_
    <3>1. k # 1 => k - 1 \in 1 .. size - 1
      BY <1>1
    <3> QED BY <3>1, SizeOfQueue
  <2>5. storage \in [Slots -> Items \cup {Raw}]
    BY DEF TypeOK
  <2>6. CASE k = 1 /\ Holding
    BY <2>1, <2>6
  <2>7. CASE ~(k = 1 /\ Holding)
    <3>1. SlotAt(k - 1) # i
      BY <2>3, <2>4, <2>7
    <3>2. storage'[SlotAt(k - 1)] = storage[SlotAt(k - 1)]
      BY <2>3, <2>5, <3>1
    <3> QED BY <2>1, <2>7, <3>2
  <2> QED BY <2>6, <2>7
<1> QED BY <1>2, ContentsSame

\* The contents are items.
LEMMA ContentsAreItems ==
  ASSUME IInv
  PROVE  Contents \in Seq(Items)
<1>0. TypeOK /\ ConsumerInv /\ SlotInv
  BY DEF IInv, TypeInv, SlotsFollowIndexes
<1>1. size \in 0 .. SIZE - 1 /\ SIZE \in Nat
  BY <1>0, SizeOfQueue, QueueAssumption
<1>2. ASSUME NEW k \in 1 .. size
      PROVE  (IF k = 1 /\ Holding THEN result ELSE storage[SlotAt(k - 1)]) \in Items
  <2>1. CASE k = 1 /\ Holding
    BY <1>0, <2>1 DEF ConsumerInv
  <2>2. CASE ~(k = 1 /\ Holding)
    <3>1. k - 1 \in 0 .. size - 1 /\ (k # 1 => k - 1 \in 1 .. size - 1)
      BY <1>1
    <3>2. /\ SlotAt(k - 1) \in Slots
          /\ SlotAt(k - 1) = head_ => k = 1
      BY <1>0, <3>1, SizeOfQueue
    <3>3. Occupied(SlotAt(k - 1))
      <4>1. head_ \in Nat /\ tail_ \in Nat /\ head_ < SIZE /\ tail_ < SIZE
        BY <1>0, <1>1 DEF TypeOK, Slots
      <4> QED BY <1>1, <3>1, <4>1 DEF Occupied, SlotAt, size
    <3> QED BY <1>0, <2>2, <3>2, <3>3 DEF SlotInv, Holding
  <2> QED BY <2>1, <2>2
<1> QED BY <1>1, <1>2 DEF Contents

\* enqueue adds its item when it advances tail_, and at no other step.
LEMMA EnqueueAdds ==
  ASSUME IInv, TypeOK', NEW p \in Producers, ProducerSteps(p) \/ \E x \in Items : Enqueue(p, x)
  PROVE  IF ppc[p] = "advance"
         THEN size < capacity /\ Contents' = Append(Contents, item[p])
         ELSE Contents' = Contents
<1>0. TypeOK /\ ProducerInv /\ ConsumerInv /\ DeadInv /\ HasArgument
  BY DEF IInv, TypeInv, SlotsFollowIndexes
<1>1. Contents \in Seq(Items \cup {Raw, None}) /\ Len(Contents) = size
  BY <1>0, ContentsIsSequence
<1>2. size \in 0 .. SIZE - 1 /\ SIZE \in Nat
  BY <1>0, SizeOfQueue, QueueAssumption
<1>3. CASE (\E x \in Items : Enqueue(p, x)) \/ RefuseFull(p) \/ SeeRoom(p) \/ MarkWritten(p)
  <2>1. ppc[p] # "advance"
    BY <1>3 DEF Enqueue, RefuseFull, SeeRoom, MarkWritten, GoP
  <2>2. Contents' = Contents
    BY <1>3 DEF Enqueue, RefuseFull, SeeRoom, MarkWritten, Contents, size, SlotAt, Holding,
                buffer, consumer
  <2> QED BY <2>1, <2>2
<1>6. CASE Construct(p)
  <2>1. curr_tail[p] = tail_ /\ tail_ \in Slots /\ ppc[p] # "advance"
    BY <1>0, <1>6 DEF Construct, GoP, ProducerInv, TypeOK
  <2>2. storage' = [storage EXCEPT ![tail_] = storage'[tail_]]
    BY <1>0, <1>6, <2>1 DEF Construct, TypeOK
  <2>3. head_' = head_ /\ tail_' = tail_ /\ result' = result /\ (Holding' <=> Holding)
    BY <1>6 DEF Construct, consumer, Holding
  <2>4. Contents' = Contents
    BY <1>0, <2>2, <2>3, StorageChanges
  <2> QED BY <2>1, <2>4
<1>7. CASE AdvanceTail(p)
  <2>1. /\ ppc[p] = "advance" /\ curr_tail[p] = tail_ /\ NextSlot(tail_) # head_
        /\ storage[tail_] = item[p] /\ item[p] \in Items
    BY <1>0, <1>7 DEF AdvanceTail, GoP, ProducerInv, TypeOK
  <2>2. /\ tail_' = NextSlot(tail_) /\ storage' = storage /\ head_' = head_
        /\ cpc' = cpc /\ result' = result
    BY <1>7, <2>1 DEF AdvanceTail, consumer
  <2>3. size < capacity
    BY <1>0, <1>2, <2>1, SizeOfQueue DEF capacity
  <2>4. size' = size + 1
    <3>1. NextSlot(tail_) = IF tail_ + 1 = SIZE THEN 0 ELSE tail_ + 1
      BY <1>0, NextSlotRoundTrip DEF TypeOK
    <3>2. head_ \in Nat /\ tail_ \in Nat /\ head_ < SIZE /\ tail_ < SIZE
      BY <1>0, <1>2 DEF TypeOK, Slots
    <3> QED BY <1>2, <2>1, <2>2, <3>1, <3>2 DEF size
  <2>5. Contents' = Append(Contents, item[p])
    <3> DEFINE after == [k \in 1 .. size + 1 |-> IF k = 1 /\ Holding THEN result
                                                 ELSE storage[SlotAt(k - 1)]]
    <3>1. Contents' = after
      BY <2>2, <2>4 DEF Contents, Holding, SlotAt
    <3>2. Append(Contents, item[p])
            = [k \in 1 .. size + 1 |-> IF k = size + 1 THEN item[p] ELSE Contents[k]]
      <4>1. Append(Contents, item[p])
              = [k \in 1 .. Len(Contents) + 1 |-> IF k = Len(Contents) + 1 THEN item[p] ELSE Contents[k]]
        BY <1>1
      <4> QED BY <1>1, <4>1
    <3>3. ASSUME NEW k \in 1 .. size + 1
          PROVE  after[k] = IF k = size + 1 THEN item[p] ELSE Contents[k]
      <4>1. CASE k = size + 1
        <5>1. ~(k = 1 /\ Holding)
          <6>1. Holding => head_ # tail_
            BY <1>0 DEF ConsumerInv, Holding
          <6> QED BY <1>0, <1>2, <4>1, <6>1, SizeOfQueue
        <5>2. SlotAt(k - 1) = tail_
          <6>1. k - 1 = size
            BY <1>2, <4>1
          <6> QED BY <1>0, <6>1, SizeOfQueue
        <5> QED BY <2>1, <4>1, <5>1, <5>2
      <4>2. CASE k # size + 1
        <5>1. k \in 1 .. size
          BY <1>2, <4>2
        <5> QED BY <1>0, <4>2, <5>1, ContentsIsSequence
      <4> QED BY <4>1, <4>2
    <3> QED BY <3>1, <3>2, <3>3
  <2> QED BY <2>1, <2>3, <2>5
<1> QED BY <1>3, <1>6, <1>7 DEF ProducerSteps

\* enqueue takes effect when it advances tail_, or when it sees that the queue is full.
LEMMA ProducerRefines ==
  ASSUME IInv, TypeOK', NEW p \in Producers, ProducerSteps(p) \/ \E x \in Items : Enqueue(p, x)
  PROVE  [Fifo!Next]_(Fifo!vars)
<1>0. TypeOK /\ ProducerInv
  BY DEF IInv, TypeInv, SlotsFollowIndexes
<1>1. Len(Contents) = size
  BY <1>0, ContentsIsSequence
<1>2. IF ppc[p] = "advance"
      THEN size < capacity /\ Contents' = Append(Contents, item[p])
      ELSE Contents' = Contents
  BY EnqueueAdds
<1>3. CASE \E x \in Items : Enqueue(p, x)
  <2>1. PICK x \in Items : Enqueue(p, x)
    BY <1>3
  <2>2. reply[p] # "pending" /\ Contents' = Contents
    BY <1>0, <1>2, <2>1 DEF Enqueue, GoP, ProducerInv
  <2>3. Fifo!Call(p, x)
    BY <2>1, <2>2 DEF Enqueue, buffer, consumer, Fifo!Call
  <2> QED BY <2>3 DEF Fifo!Next
<1>4. CASE RefuseFull(p)
  <2>1. reply[p] = "pending" /\ curr_tail[p] = tail_ /\ Contents' = Contents
    BY <1>0, <1>2, <1>4 DEF RefuseFull, GoP, ProducerInv, TypeOK
  <2>2. Len(Contents) = capacity
    BY <1>0, <1>1, <1>4, <2>1, SizeOfQueue DEF RefuseFull, capacity
  <2>3. Fifo!Refuse(p)
    BY <1>4, <2>1, <2>2 DEF RefuseFull, buffer, consumer, Fifo!Refuse
  <2> QED BY <2>3 DEF Fifo!Next
<1>5. CASE SeeRoom(p) \/ MarkWritten(p) \/ Construct(p)
  <2>1. Contents' = Contents
    BY <1>2, <1>5 DEF SeeRoom, MarkWritten, Construct, GoP
  <2> QED BY <1>5, <2>1 DEF SeeRoom, MarkWritten, Construct, buffer, consumer, Fifo!vars
<1>6. CASE AdvanceTail(p)
  <2>1. reply[p] = "pending" /\ Contents' = Append(Contents, item[p]) /\ Len(Contents) < capacity
    BY <1>0, <1>1, <1>2, <1>6 DEF AdvanceTail, GoP, ProducerInv, TypeOK
  <2>2. Fifo!Accept(p)
    BY <1>6, <2>1 DEF AdvanceTail, consumer, Fifo!Accept
  <2> QED BY <2>2 DEF Fifo!Next
<1> QED BY <1>3, <1>4, <1>5, <1>6 DEF ProducerSteps

\* A running dequeue finds its slot written.
LEMMA FindsWritten ==
  ASSUME IInv
  PROVE  ~ReturnUnwritten
<1>0. TypeOK /\ ConsumerInv /\ SlotInv
  BY DEF IInv, TypeInv, SlotsFollowIndexes
<1> SUFFICES ASSUME ReturnUnwritten PROVE FALSE
  OBVIOUS
<1>1. cpc = "check_written" /\ ~written[curr_head] /\ curr_head = head_ /\ head_ # tail_
  BY <1>0 DEF ReturnUnwritten, GoC, ConsumerInv
<1>2. Occupied(head_) /\ head_ \in Slots
  BY <1>0, <1>1, EndsOccupied DEF TypeOK
<1> QED BY <1>0, <1>1, <1>2 DEF SlotInv

\* dequeue takes the oldest item when it advances head_, and at no other step.
LEMMA DequeueTakes ==
  ASSUME IInv, TypeOK', ConsumerSteps \/ Dequeue \/ Empty
  PROVE  IF cpc = "advance"
         THEN Contents # <<>> /\ got' = Head(Contents) /\ Contents' = Tail(Contents)
         ELSE Contents' = Contents
<1>0. TypeOK /\ ProducerInv /\ ConsumerInv /\ DeadInv /\ SlotInv
  BY DEF IInv, TypeInv, SlotsFollowIndexes
<1>1. Contents \in Seq(Items \cup {Raw, None}) /\ Len(Contents) = size
  BY <1>0, ContentsIsSequence
<1>2. size \in 0 .. SIZE - 1 /\ SIZE \in Nat /\ (size = 0 <=> head_ = tail_)
  BY <1>0, SizeOfQueue, QueueAssumption
<1>3. ~ReturnUnwritten
  BY FindsWritten
<1>4. CASE \/ Dequeue \/ Empty \/ SeeItem \/ SeeWritten \/ ClearWritten
           \/ ReturnEmpty \/ ReturnCompared
  <2> USE DEF Dequeue, Empty, SeeItem, SeeWritten, ClearWritten, ReturnEmpty, ReturnCompared, GoC,
              buffer, producer
  <2>1. (Holding' <=> Holding) /\ cpc # "advance"
    BY <1>4 DEF Holding
  <2>2. UNCHANGED <<storage, head_, tail_, result>>
    BY <1>4
  <2>3. Contents' = Contents
    BY <2>1, <2>2 DEF Contents, size, SlotAt
  <2> QED BY <2>1, <2>3
<1>7. CASE MoveOut
  <2>1. /\ cpc = "move" /\ cpc' = "destroy" /\ result' = storage[head_] /\ head_ # tail_
        /\ UNCHANGED <<storage, head_, tail_, alive, item, reply, got, saw_empty>>
        /\ ~Holding /\ Holding'
    BY <1>0, <1>7 DEF MoveOut, GoC, buffer, producer, Holding, ConsumerInv
  <2>2. ASSUME NEW k \in 1 .. size
        PROVE  IF k = 1 /\ Holding' THEN result' = Contents[k]
               ELSE storage'[SlotAt(k - 1)] = Contents[k]
    <3>1. Contents[k] = storage[SlotAt(k - 1)]
      BY <1>0, <2>1, ContentsIsSequence
    <3>2. SlotAt(0) = head_
      BY <1>0, SizeOfQueue
    <3> QED BY <2>1, <3>1, <3>2
  <2>3. Contents' = Contents
    BY <1>0, <2>1, <2>2, ContentsSame
  <2> QED BY <2>1, <2>3
<1>8. CASE DestroyItem
  <2>1. /\ Holding /\ Holding' /\ cpc # "advance" /\ storage' = [storage EXCEPT ![head_] = Raw] /\ head_ \in Slots
        /\ UNCHANGED <<head_, tail_, alive, item, reply, result, got, saw_empty>>
    BY <1>0, <1>8 DEF DestroyItem, GoC, producer, Holding, ConsumerInv, TypeOK
  <2>2. storage' = [storage EXCEPT ![head_] = storage'[head_]]
    BY <1>0, <2>1 DEF TypeOK
  <2>3. Contents' = Contents
    BY <1>0, <2>1, <2>2, StorageChanges
  <2> QED BY <2>1, <2>3
<1>9. CASE AdvanceHead
  <2>1. /\ cpc = "advance" /\ Holding /\ ~Holding' /\ head_ # tail_
        /\ head_' = NextSlot(head_) /\ got' = result
        /\ UNCHANGED <<storage, tail_, alive, item, reply, result, saw_empty>>
    BY <1>0, <1>9 DEF AdvanceHead, GoC, producer, Holding, ConsumerInv
  <2>3. size # 0 /\ Contents # <<>>
    BY <1>1, <1>2, <2>1
  <2>4. NextSlot(head_) = IF head_ + 1 = SIZE THEN 0 ELSE head_ + 1
    BY <1>0, NextSlotRoundTrip DEF TypeOK
  <2>5. head_ \in Nat /\ tail_ \in Nat /\ head_ < SIZE /\ tail_ < SIZE
    BY <1>0, <1>2 DEF TypeOK, Slots
  <2>6. size' = size - 1
    BY <1>2, <2>1, <2>4, <2>5 DEF size
  <2>7. \A k \in 1 .. size - 1 : SlotAt(k - 1)' = SlotAt(k)
    BY <1>2, <2>1, <2>4, <2>5 DEF SlotAt
  <2>8. Contents' = Tail(Contents)
    <3>1. Contents' = [k \in 1 .. size - 1 |-> storage[SlotAt(k)]]
      BY <2>1, <2>6, <2>7 DEF Contents
    <3>2. Tail(Contents) = [k \in 1 .. size - 1 |-> Contents[k + 1]]
      <4> DEFINE c == Contents
                 S == Items \cup {Raw, None}
      <4>1. c \in Seq(S) /\ c # <<>> /\ Len(c) = size
        BY <1>1, <2>3
      <4> HIDE DEF c, S
      <4>2. /\ Tail(c) \in Seq(S) /\ Len(Tail(c)) = size - 1
            /\ \A k \in 1 .. Len(Tail(c)) : Tail(c)[k] = c[k + 1]
        BY <4>1, HeadTailProperties
      <4>3. Tail(c) = [k \in 1 .. size - 1 |-> Tail(c)[k]]
        <5>1. \A t \in Seq(S) : t = [k \in 1 .. Len(t) |-> t[k]]
          OBVIOUS
        <5> QED BY <4>2, <5>1
      <4>4. Tail(c) = [k \in 1 .. size - 1 |-> c[k + 1]]
        BY <4>2, <4>3
      <4> QED BY <4>4 DEF c
    <3>3. ASSUME NEW k \in 1 .. size - 1 PROVE Contents[k + 1] = storage[SlotAt(k)]
      <4>1. k + 1 \in 1 .. size /\ k + 1 # 1 /\ (k + 1) - 1 = k
        BY <1>2
      <4> QED BY <1>0, <4>1, ContentsIsSequence
    <3> QED BY <3>1, <3>2, <3>3
  <2>9. got' = Head(Contents)
    <3>1. 1 \in 1 .. size
      BY <1>2, <2>3
    <3>2. Contents[1] = result
      BY <1>0, <2>1, <3>1, ContentsIsSequence
    <3> QED BY <1>1, <2>1, <2>3, <3>2
  <2> QED BY <2>1, <2>3, <2>8, <2>9
<1> QED BY <1>3, <1>4, <1>7, <1>8, <1>9 DEF ConsumerSteps

\* dequeue and empty() take effect when they return.
LEMMA ConsumerRefines ==
  ASSUME IInv, TypeOK', ConsumerSteps \/ Dequeue \/ Empty
  PROVE  [Fifo!Next]_(Fifo!vars)
<1>0. TypeOK /\ ConsumerInv /\ DeadInv
  BY DEF IInv, TypeInv, SlotsFollowIndexes
<1>1. head_ = tail_ <=> Contents = <<>>
  <2>1. Contents \in Seq(Items \cup {Raw, None}) /\ Len(Contents) = size
    BY <1>0, ContentsIsSequence
  <2>2. size \in Nat /\ (size = 0 <=> head_ = tail_)
    BY <1>0, SizeOfQueue, QueueAssumption
  <2> QED BY <2>1, <2>2
<1>2. IF cpc = "advance"
      THEN Contents # <<>> /\ got' = Head(Contents) /\ Contents' = Tail(Contents)
      ELSE Contents' = Contents
  BY DequeueTakes
<1>3. ~ReturnUnwritten
  BY FindsWritten
<1>4. CASE Dequeue \/ Empty \/ SeeItem \/ SeeWritten \/ ClearWritten \/ MoveOut \/ DestroyItem
  <2>1. cpc # "advance" /\ UNCHANGED <<alive, item, reply, got, saw_empty>>
    BY <1>4 DEF Dequeue, Empty, SeeItem, SeeWritten, ClearWritten, MoveOut, DestroyItem, GoC,
                buffer, producer
  <2> QED BY <1>2, <2>1 DEF Fifo!vars
<1>5. CASE ReturnEmpty
  <2>1. /\ cpc # "idle" /\ cpc # "advance" /\ got' = None /\ curr_head = tail_
        /\ UNCHANGED <<alive, item, reply, saw_empty>>
    BY <1>5 DEF ReturnEmpty, GoC, buffer, producer
  <2>2. alive /\ Contents = <<>>
    BY <1>0, <1>1, <2>1 DEF DeadInv, ConsumerInv, TypeOK
  <2>3. Fifo!TakeNothing
    BY <1>2, <2>1, <2>2 DEF Fifo!TakeNothing
  <2> QED BY <2>3 DEF Fifo!Next
<1>6. CASE AdvanceHead
  <2>1. cpc = "advance" /\ UNCHANGED <<alive, item, reply, saw_empty>>
    BY <1>6 DEF AdvanceHead, GoC, producer
  <2>2. alive
    BY <1>0, <2>1 DEF DeadInv
  <2>3. Fifo!Take
    BY <1>2, <2>1, <2>2 DEF Fifo!Take
  <2> QED BY <2>3 DEF Fifo!Next
<1>7. CASE ReturnCompared
  <2>1. /\ cpc = "compare" /\ saw_empty' = (head_ = tail_)
        /\ UNCHANGED <<alive, item, reply, got>>
    BY <1>0, <1>7 DEF ReturnCompared, GoC, buffer, producer, ConsumerInv
  <2>2. alive /\ saw_empty' = (Contents = <<>>)
    BY <1>0, <1>1, <2>1 DEF DeadInv
  <2>3. Fifo!AskEmpty
    BY <1>2, <2>1, <2>2 DEF Fifo!AskEmpty
  <2> QED BY <2>3 DEF Fifo!Next
<1> QED BY <1>3, <1>4, <1>5, <1>6, <1>7 DEF ConsumerSteps

\* Destruction discards what nobody took.
LEMMA DestructorRefines ==
  ASSUME IInv, TypeOK', Destructor
  PROVE  [Fifo!Next]_(Fifo!vars)
<1>1. head_' = 0 /\ tail_' = 0 /\ alive /\ ~alive'
      /\ UNCHANGED <<item, reply, got, saw_empty>>
  BY DEF Destructor, producer, consumer
<1>2. \A p \in Producers : reply[p] # "pending"
  BY DEF Destructor, IInv, SlotsFollowIndexes, ProducerInv
<1>3. Contents' = <<>>
  <2>1. size' = 0
    BY <1>1 DEF size
  <2> QED BY <2>1 DEF Contents
<1>4. alive' = FALSE
  BY DEF Destructor
<1>5. Fifo!Discard
  BY <1>1, <1>2, <1>3, <1>4 DEF Fifo!Discard
<1> QED BY <1>5 DEF Fifo!Next

LEMMA FifoStep ==
  ASSUME IInv, IInv', [Next]_vars
  PROVE  [Fifo!Next]_(Fifo!vars)
<1>0. TypeOK'
  BY DEF IInv, TypeInv
<1>1. CASE \E p \in Producers : ProducerSteps(p) \/ \E x \in Items : Enqueue(p, x)
  BY <1>0, <1>1, ProducerRefines
<1>2. CASE ConsumerSteps \/ Dequeue \/ Empty
  BY <1>0, <1>2, ConsumerRefines
<1>3. CASE Destructor
  BY <1>0, <1>3, DestructorRefines
<1>4. CASE UNCHANGED vars
  BY <1>4 DEF vars, buffer, producer, consumer, Fifo!vars, Contents, size, SlotAt, Holding
<1> QED BY <1>1, <1>2, <1>3, <1>4 DEF Next

LEMMA FifoInit == Init => Fifo!Init
<1> SUFFICES ASSUME Init PROVE Fifo!Init
  OBVIOUS
<1>1. Contents = <<>>
  BY DEF Init, Contents, size
<1> QED BY <1>1 DEF Init, Fifo!Init

\* While calls of enqueue do not overlap, they and the consumer see a bounded FIFO.
LEMMA SerialRefines == Spec /\ []Serial => IsBoundedFifo
<1>1. IInv /\ IInv' /\ [Next]_vars => [Fifo!Next]_(Fifo!vars)
  BY FifoStep
<1> QED BY <1>1, FifoInit, Invariance, PTL DEF Spec, IsBoundedFifo, Fifo!Spec

\* With one producer the ring is a first-in first-out queue of SIZE - 1 items: enqueue
\* refuses only a full one, dequeue and empty() see an empty one exactly when it is.
THEOREM FifoCorrect ==
  ASSUME SingleProducer
  PROVE  Spec => IsBoundedFifo
<1>1. Serial
  BY SingleIsSerial
<1> QED BY <1>1, SerialRefines, PTL
=============================================================================
