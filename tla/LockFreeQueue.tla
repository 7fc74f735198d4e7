--------------------------- MODULE LockFreeQueue ---------------------------
(***************************************************************************)
(* LockFreeQueue<T> of lock_free_queue.hpp, the ring buffer under the      *)
(* thread pool and the logger: every load, store and compare-exchange of a *)
(* shared word is an action of its own, interleaved with those of the      *)
(* other threads (sequentially consistent; positions are natural numbers,  *)
(* the wrap of size_t after 2^64 calls is left out).                       *)
(***************************************************************************)
EXTENDS Integers, Sequences

CONSTANTS
  Producers, Consumers,  \* the threads that call enqueue and dequeue
  Capacity,              \* slots of the ring
  MaxCalls,              \* enqueue calls per producer (bound)
  Spurious,              \* compare_exchange_weak may fail spuriously
  NoTicket, NoValue      \* no position, an empty slot

\* The constructor throws unless capacity is a power of two, at least 2; only
\* the 2 matters once "pos & buffer_mask" is read as "pos % capacity".
ASSUME QueueAssumption ==
  /\ Capacity \in Nat /\ Capacity >= 2
  /\ MaxCalls \in Nat
  /\ Spurious \in BOOLEAN
  /\ Producers \cap Consumers = {}
  /\ NoTicket \notin Nat

Threads == Producers \cup Consumers
Slots   == 0 .. Capacity - 1
Pcs     == {"idle", "check", "cas", "reload", "write", "publish", "move",
            "release"}
Values  == Producers \X (1 .. MaxCalls)

VARIABLES
  head, tail,  \* the next position to fill, the next to empty
  id,          \* Node::id of every slot
  data,        \* Node::data of every slot
  pc,          \* where each thread is in its call
  pos,         \* its local pos
  calls,       \* enqueue calls each producer has begun
  got,         \* what the last successful dequeue of a consumer returned
  order        \* history: the values in the order their positions were won

vars == <<head, tail, id, data, pc, pos, calls, got, order>>

Init ==
  /\ head = 0 /\ tail = 0
  /\ id = [s \in Slots |-> s]
  /\ data = [s \in Slots |-> NoValue]
  /\ pc = [t \in Threads |-> "idle"]
  /\ pos = [t \in Threads |-> 0]
  /\ calls = [a \in Producers |-> 0]
  /\ got = [b \in Consumers |-> NoValue]
  /\ order = <<>>

\* pos & buffer_mask.
Slot(p) == p % Capacity

\* The value producer a is enqueueing.
Item(a) == <<a, calls[a]>>

Goto(t, l) == pc' = [pc EXCEPT ![t] = l]

(***************************************************************************)
(* enqueue                                                                 *)
(***************************************************************************)

\* pos = head.load()
EnqLoad(a) ==
  /\ pc[a] = "idle" /\ calls[a] < MaxCalls
  /\ calls' = [calls EXCEPT ![a] = @ + 1]
  /\ pos' = [pos EXCEPT ![a] = head]
  /\ Goto(a, "check")
  /\ UNCHANGED <<head, tail, id, data, got, order>>

\* seq = node->id.load(), and the three cases of seq - pos: free, full (the
\* call returns false), taken by another producer.
EnqCheck(a) ==
  /\ pc[a] = "check"
  /\ LET diff == id[Slot(pos[a])] - pos[a] IN
     \/ diff = 0 /\ Goto(a, "cas")
     \/ diff < 0 /\ Goto(a, "idle")
     \/ diff > 0 /\ Goto(a, "reload")
  /\ UNCHANGED <<head, tail, id, data, pos, calls, got, order>>

EnqReload(a) ==
  /\ pc[a] = "reload"
  /\ pos' = [pos EXCEPT ![a] = head]
  /\ Goto(a, "check")
  /\ UNCHANGED <<head, tail, id, data, calls, got, order>>

\* Mutant: a plain store instead of a compare-exchange.
EnqWins_Store(a) == TRUE

\* head.compare_exchange_weak(pos, pos + 1) finds what it expects.
EnqWins(a) == head = pos[a]

EnqCas(a) ==
  /\ pc[a] = "cas" /\ EnqWins(a)
  /\ head' = pos[a] + 1
  /\ order' = Append(order, Item(a))
  /\ Goto(a, "write")
  /\ UNCHANGED <<tail, id, data, pos, calls, got>>

\* It fails, or fails spuriously; pos becomes the head it saw.
EnqCasFail(a) ==
  /\ pc[a] = "cas" /\ (head # pos[a] \/ Spurious)
  /\ pos' = [pos EXCEPT ![a] = head]
  /\ Goto(a, "check")
  /\ UNCHANGED <<head, tail, id, data, calls, got, order>>

\* node->data = std::move(data)
EnqWrite(a) ==
  /\ pc[a] = "write"
  /\ data' = [data EXCEPT ![Slot(pos[a])] = Item(a)]
  /\ Goto(a, "publish")
  /\ UNCHANGED <<head, tail, id, pos, calls, got, order>>

\* node->id.store(pos + 1), return true
EnqPublish(a) ==
  /\ pc[a] = "publish"
  /\ id' = [id EXCEPT ![Slot(pos[a])] = pos[a] + 1]
  /\ Goto(a, "idle")
  /\ UNCHANGED <<head, tail, data, pos, calls, got, order>>

(***************************************************************************)
(* dequeue                                                                 *)
(***************************************************************************)

\* pos = tail.load()
DeqLoad(b) ==
  /\ pc[b] = "idle"
  /\ pos' = [pos EXCEPT ![b] = tail]
  /\ Goto(b, "check")
  /\ UNCHANGED <<head, tail, id, data, calls, got, order>>

\* Mutants: the slot counts as filled as soon as its position was won; only
\* after one more position.
Expected_Early(p) == p
Expected_Late(p) == p + 2

\* The id of a slot whose value for position p has been published.
Expected(p) == p + 1

\* seq - (pos + 1): filled, empty (the call returns false), already taken.
DeqCheck(b) ==
  /\ pc[b] = "check"
  /\ LET diff == id[Slot(pos[b])] - Expected(pos[b]) IN
     \/ diff = 0 /\ Goto(b, "cas")
     \/ diff < 0 /\ Goto(b, "idle")
     \/ diff > 0 /\ Goto(b, "reload")
  /\ UNCHANGED <<head, tail, id, data, pos, calls, got, order>>

DeqReload(b) ==
  /\ pc[b] = "reload"
  /\ pos' = [pos EXCEPT ![b] = tail]
  /\ Goto(b, "check")
  /\ UNCHANGED <<head, tail, id, data, calls, got, order>>

\* Mutant: a plain store instead of a compare-exchange.
DeqWins_Store(b) == TRUE

\* tail.compare_exchange_weak(pos, pos + 1) finds what it expects.
DeqWins(b) == tail = pos[b]

DeqCas(b) ==
  /\ pc[b] = "cas" /\ DeqWins(b)
  /\ tail' = pos[b] + 1
  /\ Goto(b, "move")
  /\ UNCHANGED <<head, id, data, pos, calls, got, order>>

DeqCasFail(b) ==
  /\ pc[b] = "cas" /\ (tail # pos[b] \/ Spurious)
  /\ pos' = [pos EXCEPT ![b] = tail]
  /\ Goto(b, "check")
  /\ UNCHANGED <<head, tail, id, data, calls, got, order>>

\* data = std::move(node->data) leaves the slot empty
DeqMove(b) ==
  /\ pc[b] = "move"
  /\ got' = [got EXCEPT ![b] = data[Slot(pos[b])]]
  /\ data' = [data EXCEPT ![Slot(pos[b])] = NoValue]
  /\ Goto(b, "release")
  /\ UNCHANGED <<head, tail, id, pos, calls, order>>

\* Mutants: the slot is never freed; the lap before instead of the next.
Released_Never(p) == p + 1
Released_Before(p) == p - Capacity

\* pos + buffer_mask + 1: the id that frees the slot for the next lap.
Released(p) == p + Capacity

\* node->id.store(pos + buffer_mask + 1), return true
DeqRelease(b) ==
  /\ pc[b] = "release"
  /\ id' = [id EXCEPT ![Slot(pos[b])] = Released(pos[b])]
  /\ Goto(b, "idle")
  /\ UNCHANGED <<head, tail, data, pos, calls, got, order>>

(***************************************************************************)
(* The specification.                                                      *)
(***************************************************************************)

Enqueue(a) ==
  \/ EnqLoad(a) \/ EnqCheck(a) \/ EnqReload(a) \/ EnqCas(a)
  \/ EnqCasFail(a) \/ EnqWrite(a) \/ EnqPublish(a)

Dequeue(b) ==
  \/ DeqLoad(b) \/ DeqCheck(b) \/ DeqReload(b) \/ DeqCas(b)
  \/ DeqCasFail(b) \/ DeqMove(b) \/ DeqRelease(b)

Next == (\E a \in Producers : Enqueue(a)) \/ (\E b \in Consumers : Dequeue(b))

Spec == Init /\ [][Next]_vars

\* Every thread keeps running; nobody has to call enqueue again.
Fairness ==
  /\ \A a \in Producers : WF_vars(pc[a] # "idle" /\ Enqueue(a))
  /\ \A b \in Consumers : WF_vars(Dequeue(b))

FairSpec == Spec /\ Fairness

(***************************************************************************)
(* Properties.                                                             *)
(***************************************************************************)

\* Every variable keeps its type.
TypeOK ==
  /\ head \in Nat /\ tail \in Nat
  /\ id \in [Slots -> Nat]
  /\ data \in [Slots -> Values \cup {NoValue}]
  /\ pc \in [Threads -> Pcs]
  /\ \A a \in Producers : pc[a] \notin {"move", "release"}
  /\ \A b \in Consumers : pc[b] \notin {"write", "publish"}
  /\ pos \in [Threads -> Nat]
  /\ calls \in [Producers -> 0 .. MaxCalls]
  /\ got \in [Consumers -> Values \cup {NoValue}]
  /\ order \in Seq(Values)

\* A thread owns the slot of the position it won until its last store to id.
Producing(t) == pc[t] \in {"write", "publish"}
Consuming(t) == pc[t] \in {"move", "release"}
Owning(t)    == Producing(t) \/ Consuming(t)

\* The plain (non-atomic) data of a slot is touched by one thread at a time:
\* no data race between any two calls (lock_free_queue.hpp:66, 93).
SlotExclusion ==
  \A s, t \in Threads :
    s # t /\ Owning(s) /\ Owning(t) => Slot(pos[s]) # Slot(pos[t])

\* A consumer that won a position finds there the value that was enqueued at
\* that position: nothing is lost, duplicated, overwritten or reordered.
FifoDelivery ==
  /\ head <= tail + Capacity /\ tail <= head
  /\ \A b \in Consumers :
       /\ pc[b] = "move" => data[Slot(pos[b])] = order[pos[b] + 1]
       /\ pc[b] = "release" => got[b] = order[pos[b] + 1]

\* enqueue refuses a value only when every slot is taken, or when the slot
\* it needs is still being emptied by a consumer that won it a lap ago.
FullAnswerJustified ==
  [][\A a \in Producers : pc[a] = "check" /\ pc'[a] = "idle" =>
       \/ head = tail + Capacity
       \/ \E b \in Consumers : Consuming(b) /\ pos[b] + Capacity = head]_vars

\* dequeue reports an empty queue only when no position is won and not taken,
\* or when the value at the front is still being stored by its producer.
EmptyAnswerJustified ==
  [][\A b \in Consumers : pc[b] = "check" /\ pc'[b] = "idle" =>
       \/ head = tail
       \/ \E a \in Producers : Producing(a) /\ pos[a] = tail]_vars

\* The queue implements the bounded FIFO of TicketQueue.
Abstract == INSTANCE TicketQueue WITH
  storing  <- [a \in Producers |-> IF Producing(a) THEN pos[a] ELSE NoTicket],
  taken    <- tail,
  fetching <- [b \in Consumers |-> IF pc[b] = "move" THEN pos[b] ELSE NoTicket]

ImplementsTicketQueue == Abstract!TQSpec

\* Every value that was accepted reaches a consumer.
AllDelivered ==
  \A a \in Producers : \A p \in 0 .. 2 * MaxCalls :
    (Producing(a) /\ pos[a] = p) ~>
      (\E b \in Consumers : pc[b] = "release" /\ pos[b] = p)

(***************************************************************************)
(* The invariant behind the properties (proved in LockFreeQueueProofs).    *)
(***************************************************************************)

\* A thread is still looking for a position.
Looking(t) == pc[t] \in {"check", "cas", "reload"}

\* A producer in a call has begun at least one.
CallsInv == \A a \in Producers : pc[a] # "idle" => calls[a] >= 1

PositionsInv == tail <= head /\ head <= tail + Capacity /\ Len(order) = head

\* A won position that nobody has taken: still being stored, or published.
FilledInv ==
  \A q \in tail .. head - 1 :
    \/ id[Slot(q)] = q /\ \E a \in Producers : Producing(a) /\ pos[a] = q
    \/ id[Slot(q)] = q + 1 /\ data[Slot(q)] = order[q + 1]

\* A position of the current lap nobody has won: free, or still being emptied.
FreeInv ==
  \A q \in head .. tail + Capacity - 1 :
    \/ id[Slot(q)] = q
    \/ /\ id[Slot(q)] = q - Capacity + 1
       /\ \E b \in Consumers : Consuming(b) /\ pos[b] = q - Capacity

\* What a producer knows of its position.
ProducerOK(a) ==
  /\ Looking(a) => /\ pos[a] <= head
                   /\ pos[a] < head => id[Slot(pos[a])] >= pos[a]
  /\ pc[a] = "cas" /\ pos[a] = head => id[Slot(pos[a])] = pos[a]
  /\ Producing(a) => /\ tail <= pos[a] /\ pos[a] < head
                     /\ id[Slot(pos[a])] = pos[a]
                     /\ order[pos[a] + 1] = Item(a)
  /\ pc[a] = "publish" => data[Slot(pos[a])] = Item(a)

\* What a consumer knows of its position.
ConsumerOK(b) ==
  /\ Looking(b) => /\ pos[b] <= tail
                   /\ pos[b] < tail => id[Slot(pos[b])] >= pos[b] + 1
  /\ pc[b] = "cas" /\ pos[b] = tail => id[Slot(pos[b])] = pos[b] + 1
  /\ Consuming(b) => /\ pos[b] < tail /\ head <= pos[b] + Capacity
                     /\ id[Slot(pos[b])] = pos[b] + 1
  /\ pc[b] = "move" => data[Slot(pos[b])] = order[pos[b] + 1]
  /\ pc[b] = "release" => got[b] = order[pos[b] + 1]

\* No two producers, and no two consumers, own the same position.
DistinctInv ==
  /\ \A a1, a2 \in Producers :
       a1 # a2 /\ Producing(a1) /\ Producing(a2) => pos[a1] # pos[a2]
  /\ \A b1, b2 \in Consumers :
       b1 # b2 /\ Consuming(b1) /\ Consuming(b2) => pos[b1] # pos[b2]

TypeInv == TypeOK /\ CallsInv
RingInv == /\ PositionsInv /\ FilledInv /\ FreeInv
           /\ \A a \in Producers : ProducerOK(a)
           /\ \A b \in Consumers : ConsumerOK(b)
           /\ DistinctInv
=============================================================================
