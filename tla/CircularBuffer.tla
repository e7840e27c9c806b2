---------------------------- MODULE CircularBuffer ----------------------------
(***************************************************************************)
(* moodycamel::BlockingReaderWriterCircularBuffer: a ring of slots between *)
(* one producer and one consumer thread, with a semaphore that counts the  *)
(* free slots and one that counts the items.  Each thread waits on one     *)
(* semaphore, touches its slot, and signals the other semaphore.           *)
(*                                                                         *)
(* slots_ and items are two instances of LightweightSemaphore, at the      *)
(* granularity of that module: a thread inside one of its calls advances   *)
(* by that module's steps.                                                 *)
(***************************************************************************)
EXTENDS Integers, Sequences

CONSTANTS
    Capacity,       \* maxcap, the capacity asked of the constructor
    RingSize,       \* mask + 1, Capacity rounded up to a power of two
    WordSize,       \* nextSlot and nextItem are counted modulo this (2^64)
    Elements,       \* what is enqueued
    Raw,            \* a slot in which no element is constructed
    SpinLimit, KernelErrors     \* see LightweightSemaphore

ASSUME BufferAssumption ==
    /\ Capacity \in Nat \ {0}
    /\ RingSize \in Nat \ {0}
    /\ Capacity <= RingSize
    /\ WordSize \in Nat \ {0}
    /\ WordSize % RingSize = 0
    /\ RingSize < WordSize
    /\ Raw \notin Elements
    /\ SpinLimit \in Nat
    /\ KernelErrors \in BOOLEAN

VARIABLES
    slots_, items,  \* the two semaphores
    data,           \* the ring
    nextSlot,       \* index of the next slot to construct in, before masking
    nextItem,       \* index of the next element to take, before masking
    producer,       \* the producer's place in an operation, and its argument
    consumer        \* the consumer's place, its operation, and its variable

vars == <<slots_, items, data, nextSlot, nextItem, producer, consumer>>

\* Neither count can pass Capacity; the bound leaves room to see one that does.
S == INSTANCE LightweightSemaphore WITH
        sem <- slots_, InitialCount <- Capacity, SignalCounts <- {1},
        MaxCount <- Capacity + 2
I == INSTANCE LightweightSemaphore WITH
        sem <- items, InitialCount <- 0, SignalCounts <- {1},
        MaxCount <- Capacity + 2

\* i & mask.  (Fault: the mask of the capacity that was asked for.)
SlotOfUnrounded(i) == i % Capacity
SlotOf(i) == i % RingSize

\* i++ on a size_t.  (Fault: it wraps one too late.)
SuccOffByOne(i) == IF i = WordSize THEN 0 ELSE i + 1
Succ(i) == (i + 1) % WordSize

TypeOK ==
    /\ S!TypeOK
    /\ I!TypeOK
    /\ data \in [0 .. RingSize - 1 -> Elements \cup {Raw}]
    /\ nextSlot \in 0 .. WordSize - 1
    /\ nextItem \in 0 .. WordSize - 1
    /\ producer \in [at : {"idle", "waiting", "placed", "gone"},
                     item : Elements \cup {Raw}]
    /\ consumer \in [at : {"idle", "waiting", "taken", "gone"},
                     op : {"dequeue", "pop"}, item : Elements \cup {Raw}]

Init ==
    /\ S!Init
    /\ I!Init
    /\ data = [i \in 0 .. RingSize - 1 |-> Raw]
    /\ nextSlot = 0
    /\ nextItem = 0
    /\ producer = [at |-> "idle", item |-> Raw]
    /\ consumer = [at |-> "idle", op |-> "dequeue", item |-> Raw]

-----------------------------------------------------------------------------
(***************************************************************************)
(* The producer.  try_enqueue calls slots_ with mode "try", wait_enqueue   *)
(* with "forever", wait_enqueue_timed with "timed" or "poll".              *)
(***************************************************************************)
ProducerIdle == producer.at = "idle" /\ items.signaler = "idle"

Enqueue(m, e) ==
    /\ ProducerIdle
    /\ S!Call(m)
    /\ producer' = [at |-> "waiting", item |-> e]
    /\ UNCHANGED <<items, data, nextSlot, nextItem, consumer>>

WaitForSlot ==
    /\ producer.at = "waiting"
    /\ S!WaiterStep
    /\ UNCHANGED <<items, data, nextSlot, nextItem, producer, consumer>>

\* wait_enqueue asks again until it gets a slot; the others return false.
RetryEnqueue ==
    /\ producer.at = "waiting"
    /\ slots_.at = "failed"
    /\ slots_.mode = "forever"
    /\ slots_' = [slots_ EXCEPT !.at = "try"]
    /\ UNCHANGED <<items, data, nextSlot, nextItem, producer, consumer>>

EnqueueFails ==
    /\ producer.at = "waiting"
    /\ slots_.at = "failed"
    /\ slots_.mode # "forever"
    /\ S!Return
    /\ producer' = [producer EXCEPT !.at = "idle"]
    /\ UNCHANGED <<items, data, nextSlot, nextItem, consumer>>

\* (Fault: nextSlot is not advanced.)
ConstructInPlace ==
    /\ producer.at = "waiting"
    /\ slots_.at = "acquired"
    /\ S!Return
    /\ data' = [data EXCEPT ![SlotOf(nextSlot)] = producer.item]
    /\ producer' = [producer EXCEPT !.at = "placed"]
    /\ UNCHANGED <<items, nextSlot, nextItem, consumer>>

\* inner_enqueue up to its signal: take an index, construct in its slot.
Construct ==
    /\ producer.at = "waiting"
    /\ slots_.at = "acquired"
    /\ S!Return
    /\ nextSlot' = Succ(nextSlot)
    /\ data' = [data EXCEPT ![SlotOf(nextSlot)] = producer.item]
    /\ producer' = [producer EXCEPT !.at = "placed"]
    /\ UNCHANGED <<items, nextItem, consumer>>

\* (Fault: the consumer is not woken.)
PublishQuietly ==
    /\ producer.at = "placed"
    /\ items' = [items EXCEPT !.count = @ + 1]
    /\ producer' = [producer EXCEPT !.at = "idle"]
    /\ UNCHANGED <<slots_, data, nextSlot, nextItem, consumer>>

\* items->signal(): the item counts, then the consumer is woken if it sleeps.
Publish ==
    /\ producer.at = "placed"
    /\ I!Signal(1)
    /\ producer' = [producer EXCEPT !.at = "idle"]
    /\ UNCHANGED <<slots_, data, nextSlot, nextItem, consumer>>

WakeConsumer ==
    /\ I!Post
    /\ UNCHANGED <<slots_, data, nextSlot, nextItem, producer, consumer>>

ProducerStep ==
    \/ WaitForSlot \/ RetryEnqueue \/ EnqueueFails
    \/ Construct \/ Publish \/ WakeConsumer

-----------------------------------------------------------------------------
(***************************************************************************)
(* The consumer: try_dequeue, wait_dequeue, wait_dequeue_timed, try_pop    *)
(* and peek.                                                               *)
(***************************************************************************)
ConsumerIdle == consumer.at = "idle" /\ slots_.signaler = "idle"

Dequeue(m) ==
    /\ ConsumerIdle
    /\ I!Call(m)
    /\ consumer' = [consumer EXCEPT !.at = "waiting", !.op = "dequeue"]
    /\ UNCHANGED <<slots_, data, nextSlot, nextItem, producer>>

TryPop ==
    /\ ConsumerIdle
    /\ I!Call("try")
    /\ consumer' = [consumer EXCEPT !.at = "waiting", !.op = "pop"]
    /\ UNCHANGED <<slots_, data, nextSlot, nextItem, producer>>

WaitForItem ==
    /\ consumer.at = "waiting"
    /\ I!WaiterStep
    /\ UNCHANGED <<slots_, data, nextSlot, nextItem, producer, consumer>>

RetryDequeue ==
    /\ consumer.at = "waiting"
    /\ items.at = "failed"
    /\ items.mode = "forever"
    /\ items' = [items EXCEPT !.at = "try"]
    /\ UNCHANGED <<slots_, data, nextSlot, nextItem, producer, consumer>>

DequeueFails ==
    /\ consumer.at = "waiting"
    /\ items.at = "failed"
    /\ items.mode # "forever"
    /\ I!Return
    /\ consumer' = [consumer EXCEPT !.at = "idle"]
    /\ UNCHANGED <<slots_, data, nextSlot, nextItem, producer>>

\* The element a dequeue assigns to the caller's variable.  (Fault: nextItem
\* is advanced first.)
ItemAfterAdvance == data[SlotOf(Succ(nextItem))]
NextElement == data[SlotOf(nextItem)]

\* The ring once it is destroyed.  (Fault: it is not.)
WithoutDestruction == data
WithoutNextElement == [data EXCEPT ![SlotOf(nextItem)] = Raw]

\* Where the consumer goes from there: to signal the slot.  (Fault: inner_pop
\* does not.)
AfterTakeOnlyDequeueSignals == IF consumer.op = "pop" THEN "idle" ELSE "taken"
AfterTake == "taken"

\* inner_dequeue and inner_pop up to their signal: take an index, assign the
\* element to the caller's variable unless popping, destroy it.
Take ==
    /\ consumer.at = "waiting"
    /\ items.at = "acquired"
    /\ I!Return
    /\ nextItem' = Succ(nextItem)
    /\ consumer' = [consumer EXCEPT !.at = AfterTake,
                        !.item = IF consumer.op = "dequeue" THEN NextElement ELSE @]
    /\ data' = WithoutNextElement
    /\ UNCHANGED <<slots_, nextSlot, producer>>

Release ==
    /\ consumer.at = "taken"
    /\ S!Signal(1)
    /\ consumer' = [consumer EXCEPT !.at = "idle"]
    /\ UNCHANGED <<items, data, nextSlot, nextItem, producer>>

WakeProducer ==
    /\ S!Post
    /\ UNCHANGED <<items, data, nextSlot, nextItem, producer, consumer>>

\* peek() by a consumer that reads through the pointer it gets, unless null.
Peek ==
    /\ ConsumerIdle
    /\ \E v \in I!Visible :
        /\ I!AvailableApprox(v) # 0
        /\ items' = [items EXCEPT !.view = v]
        /\ consumer' = [consumer EXCEPT !.item = NextElement]
    /\ UNCHANGED <<slots_, data, nextSlot, nextItem, producer>>

ConsumerStep ==
    \/ WaitForItem \/ RetryDequeue \/ DequeueFails
    \/ Take \/ Release \/ WakeProducer

-----------------------------------------------------------------------------
\* The destructor, called when both threads are done with the buffer: it
\* destroys as many elements as items counts, from nextItem on.
Destroy ==
    /\ ProducerIdle
    /\ ConsumerIdle
    /\ LET doomed == {SlotOf(nextItem + i) : i \in 0 .. I!AvailableApprox(items.count) - 1}
       IN  data' = [i \in DOMAIN data |-> IF i \in doomed THEN Raw ELSE data[i]]
    /\ producer' = [producer EXCEPT !.at = "gone"]
    /\ consumer' = [consumer EXCEPT !.at = "gone"]
    /\ UNCHANGED <<slots_, items, nextSlot, nextItem>>

\* Nothing happens to a buffer that is gone.
Gone ==
    /\ producer.at = "gone"
    /\ UNCHANGED vars

Next ==
    \/ \E m \in S!Modes, e \in Elements : Enqueue(m, e)
    \/ ProducerStep
    \/ \E m \in I!Modes : Dequeue(m)
    \/ TryPop
    \/ Peek
    \/ ConsumerStep
    \/ Destroy
    \/ Gone

Spec == Init /\ [][Next]_vars

\* A thread inside an operation keeps running; none is obliged to call.
Fairness ==
    /\ WF_vars(ProducerStep)
    /\ WF_vars(ConsumerStep)

FairSpec == Spec /\ Fairness

-----------------------------------------------------------------------------
(***************************************************************************)
(* Properties.                                                             *)
(***************************************************************************)
\* Elements constructed and not destroyed, by the size_t difference of the
\* two indices; all but the one being enqueued are visible to the consumer.
Constructed == (nextSlot - nextItem) % WordSize
Published == Constructed - (IF producer.at = "placed" THEN 1 ELSE 0)

\* Permits of a semaphore, counting the one a registered waiter has taken.
SlotPermits == slots_.count + (IF S!Registered THEN 1 ELSE 0)
ItemPermits == items.count + (IF I!Registered THEN 1 ELSE 0)

\* Every slot the capacity allows is free, on its way in, an item, or on its
\* way out: none is lost or counted twice however the four operations of the
\* two semaphores interleave.
SlotsConserved ==
    SlotPermits + ItemPermits
      + (IF slots_.at = "acquired" \/ producer.at = "placed" THEN 1 ELSE 0)
      + (IF items.at = "acquired" \/ consumer.at = "taken" THEN 1 ELSE 0)
    = Capacity

\* A slot holds an element exactly when it lies between the two indices, also
\* after they wrap; so no element is overwritten or destroyed twice, and the
\* destructor, which trusts the count of items, leaves none alive.
LiveWindow ==
    \A i \in DOMAIN data :
        data[i] # Raw <=>
            /\ producer.at # "gone"
            /\ \E k \in 0 .. Constructed - 1 : i = SlotOf(nextItem + k)

\* A producer about to construct finds its slot raw, a consumer about to read
\* finds it constructed: the two threads never touch one slot together.
SlotsReady ==
    /\ producer.at = "waiting" /\ slots_.at = "acquired" => data[SlotOf(nextSlot)] = Raw
    /\ consumer.at = "waiting" /\ items.at = "acquired" => data[SlotOf(nextItem)] # Raw

\* Each slot has one owner at a time, and is what that thread takes it to be.
SlotsExclusive == LiveWindow /\ SlotsReady

\* size_approx(): however stale the count that the consumer reads, it may take as
\* many elements; and no reader of the latest count misses more than the one
\* that the consumer is about to take.
SizeApproxSound ==
    /\ \A v \in I!Visible : I!AvailableApprox(v) <= Published
    /\ Published <= I!AvailableApprox(items.count)
                     + (IF consumer.at = "waiting" THEN 1 ELSE 0)

\* A thread is asleep in the kernel: there is no token for it, and none to come
\* from a signal that is under way.
ProducerAsleep == slots_.at = "kernel" /\ slots_.kernel = 0 /\ slots_.signaler = "idle"
ConsumerAsleep == items.at = "kernel" /\ items.kernel = 0 /\ items.signaler = "idle"

\* The producer sleeps only while the ring is full but for the slot a consumer
\* has emptied and not signaled, the consumer only while nothing is published:
\* no wake-up is lost, even to a thread that was on its way to sleep, and the
\* two are never asleep together.
AsleepForCause ==
    /\ ProducerAsleep => Constructed + (IF consumer.at = "taken" THEN 1 ELSE 0) = Capacity
    /\ ConsumerAsleep => Published = 0
    /\ ~(ProducerAsleep /\ ConsumerAsleep)

\* A producer waiting for a slot while one is free gets it or times out, and
\* a consumer waiting for an item while there is one gets it: the hand-over
\* between m_count and the kernel semaphore loses no wake-up.
ProducerServed ==
    (producer.at = "waiting" /\ SlotPermits > 0) ~> producer.at # "waiting"
ConsumerServed ==
    (consumer.at = "waiting" /\ ItemPermits > 0) ~> consumer.at # "waiting"

\* Neither thread sleeps on what the other has signaled.
ThreadsServed == ProducerServed /\ ConsumerServed

Fifo == INSTANCE BoundedFifo WITH
    NoItem <- Raw,
    item <- consumer.item,
    q <- IF producer.at = "gone" THEN <<>>
         ELSE [k \in 1 .. Published |-> data[SlotOf(nextItem + k - 1)]]

ImplementsFifo == Fifo!Spec

=============================================================================
