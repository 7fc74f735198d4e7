------------------------ MODULE LockFreeQueueProofs ------------------------
(***************************************************************************)
(* Proofs about LockFreeQueue, for every number of threads and slots.      *)
(***************************************************************************)
EXTENDS LockFreeQueue, TLAPS

(***************************************************************************)
(* Arithmetic of slots: "pos & buffer_mask".                               *)
(***************************************************************************)

\* Quotient and remainder of a position by the capacity: its lap and its slot.
LEMMA Division ==
  \A p \in Nat : /\ p \div Capacity \in Int
                 /\ p = Capacity * (p \div Capacity) + (p % Capacity)
                 /\ 0 <= p % Capacity /\ p % Capacity < Capacity
BY QueueAssumption

\* At least one lap is at least Capacity positions, forwards ...
LEMMA Mono == \A k \in Int : k >= 1 => Capacity * k >= Capacity
BY QueueAssumption

\* ... and backwards.
LEMMA Mono2 == \A k \in Int : k <= -1 => Capacity * k <= -Capacity
BY QueueAssumption

\* The distance of two lap starts is the number of laps between them.
LEMMA Dist == \A k, m \in Int : Capacity * k - Capacity * m = Capacity * (k - m)
BY QueueAssumption

\* A position has only one lap and one slot.
LEMMA Unique ==
  ASSUME NEW k \in Int, NEW m \in Int, NEW r \in Slots, NEW s \in Slots,
         Capacity * k + r = Capacity * m + s
  PROVE  k = m /\ r = s
<1>1. Capacity * (k - m) = s - r
  BY Dist, QueueAssumption DEF Slots
<1>2. s - r < Capacity /\ -Capacity < s - r
  BY QueueAssumption DEF Slots
<1>3. k - m \in Int /\ Capacity * (k - m) \in Int
  BY QueueAssumption
<1>4. ~(k - m >= 1)
  <2> HIDE DEF Slots
  <2> DEFINE d == k - m
  <2>1. d >= 1 => Capacity * d >= Capacity
    BY Mono, <1>3
  <2> QED BY <2>1, <1>1, <1>2, <1>3, QueueAssumption
<1>5. ~(k - m <= -1)
  <2> DEFINE d == k - m
  <2>1. d <= -1 => Capacity * d <= -Capacity
    BY Mono2, <1>3
  <2> QED BY <2>1, <1>1, <1>2, <1>3, QueueAssumption
<1>6. k = m
  BY <1>4, <1>5
<1> QED BY <1>6, QueueAssumption DEF Slots

\* The mask of a position is the index of a slot ...
LEMMA SlotType == \A p \in Nat : Slot(p) \in Slots
BY QueueAssumption DEF Slot, Slots

\* ... the position itself on the first lap ...
LEMMA SlotSmall == \A s \in Slots : Slot(s) = s
BY QueueAssumption DEF Slot, Slots

\* ... and the same slot one lap later.
LEMMA SlotLap == \A p \in Nat : Slot(p + Capacity) = Slot(p)
<1> SUFFICES ASSUME NEW p \in Nat PROVE Slot(p + Capacity) = Slot(p)
  OBVIOUS
<1> DEFINE k == p \div Capacity  m == (p + Capacity) \div Capacity
<1>1. p + Capacity \in Nat BY QueueAssumption
<1>2. p + Capacity = Capacity * m + Slot(p + Capacity) /\ m \in Int
  BY <1>1, Division DEF Slot
<1>3. p = Capacity * k + Slot(p) /\ k \in Int
  BY Division DEF Slot
<1>4. Capacity * (k + 1) = Capacity * k + Capacity
  BY <1>3, QueueAssumption
<1>5. Capacity * (k + 1) + Slot(p) = Capacity * m + Slot(p + Capacity)
  <2> HIDE DEF k, m
  <2> QED BY <1>2, <1>3, <1>4, SlotType, <1>1, QueueAssumption DEF Slots
<1>6. Slot(p) \in Slots /\ Slot(p + Capacity) \in Slots /\ k + 1 \in Int /\ m \in Int
  BY SlotType, <1>1, <1>2, <1>3
<1> QED
  <2> HIDE DEF k, m
  <2> QED BY <1>5, <1>6, Unique

\* Two positions less than a lap apart have different slots ...
LEMMA SlotOrder == \A p, q \in Nat : p < q /\ q < p + Capacity => Slot(p) # Slot(q)
<1> SUFFICES ASSUME NEW p \in Nat, NEW q \in Nat, p < q, q < p + Capacity, Slot(p) = Slot(q)
             PROVE  FALSE
  OBVIOUS
<1> DEFINE k == p \div Capacity  m == q \div Capacity
<1>1. q = Capacity * m + Slot(q) /\ m \in Int
  BY Division DEF Slot
<1>2. p = Capacity * k + Slot(p) /\ k \in Int
  BY Division DEF Slot
<1> HIDE DEF k, m
<1>3. Slot(p) \in Nat /\ Slot(q) \in Nat
  BY SlotType, QueueAssumption DEF Slots
<1>4. Capacity * m - Capacity * k = q - p
  BY <1>1, <1>2, <1>3, QueueAssumption
<1>5. Capacity * (m - k) = q - p
  BY <1>4, <1>1, <1>2, Dist
<1> DEFINE d == m - k
<1>6. d \in Int
  BY <1>1, <1>2
<1> HIDE DEF d
<1>7. Capacity * d = q - p
  BY <1>5 DEF d
<1>8. d >= 1 => Capacity * d >= Capacity
  BY Mono, <1>6
<1>9. d <= 0 => Capacity * d <= 0
  BY <1>6, QueueAssumption
<1> QED BY <1>6, <1>7, <1>8, <1>9, QueueAssumption

\* ... whichever of them comes first.
LEMMA SlotDiffer ==
  \A p, q \in Nat :
    p # q /\ q < p + Capacity /\ p < q + Capacity => Slot(p) # Slot(q)
BY SlotOrder, QueueAssumption

(***************************************************************************)
(* Types.                                                                  *)
(***************************************************************************)

\* Every step keeps the types.
LEMMA TypeStep == TypeInv /\ [Next]_vars => TypeInv'
<1> SUFFICES ASSUME TypeInv, [Next]_vars PROVE TypeInv'
  OBVIOUS
<1> USE QueueAssumption DEF TypeInv, TypeOK, CallsInv, Goto, Threads, Pcs
<1>1. ASSUME NEW a \in Producers, EnqLoad(a) PROVE TypeInv'
  BY <1>1 DEF EnqLoad
<1>2. ASSUME NEW a \in Producers, EnqCheck(a) PROVE TypeInv'
  BY <1>2 DEF EnqCheck
<1>3. ASSUME NEW a \in Producers, EnqReload(a) PROVE TypeInv'
  BY <1>3 DEF EnqReload
<1>4. ASSUME NEW a \in Producers, EnqCas(a) PROVE TypeInv'
  <2>1. Item(a) \in Values
    BY <1>4 DEF EnqCas, Item, Values
  <2> QED BY <1>4, <2>1 DEF EnqCas
<1>5. ASSUME NEW a \in Producers, EnqCasFail(a) PROVE TypeInv'
  BY <1>5 DEF EnqCasFail
<1>6. ASSUME NEW a \in Producers, EnqWrite(a) PROVE TypeInv'
  <2>1. Item(a) \in Values
    BY <1>6 DEF EnqWrite, Item, Values
  <2> QED BY <1>6, <2>1 DEF EnqWrite
<1>7. ASSUME NEW a \in Producers, EnqPublish(a) PROVE TypeInv'
  <2>1. pos[a] + 1 \in Nat
    OBVIOUS
  <2> QED BY <1>7, <2>1 DEF EnqPublish
<1>8. ASSUME NEW b \in Consumers, DeqLoad(b) PROVE TypeInv'
  BY <1>8 DEF DeqLoad
<1>9. ASSUME NEW b \in Consumers, DeqCheck(b) PROVE TypeInv'
  BY <1>9 DEF DeqCheck
<1>10. ASSUME NEW b \in Consumers, DeqReload(b) PROVE TypeInv'
  BY <1>10 DEF DeqReload
<1>11. ASSUME NEW b \in Consumers, DeqCas(b) PROVE TypeInv'
  BY <1>11 DEF DeqCas
<1>12. ASSUME NEW b \in Consumers, DeqCasFail(b) PROVE TypeInv'
  BY <1>12 DEF DeqCasFail
<1>13. ASSUME NEW b \in Consumers, DeqMove(b) PROVE TypeInv'
  <2>1. data[Slot(pos[b])] \in Values \cup {NoValue}
    BY SlotType
  <2> QED BY <1>13, <2>1 DEF DeqMove
<1>14. ASSUME NEW b \in Consumers, DeqRelease(b) PROVE TypeInv'
  <2>1. Released(pos[b]) \in Nat
    BY DEF Released
  <2> QED BY <1>14, <2>1 DEF DeqRelease
<1>15. CASE UNCHANGED vars
  BY <1>15 DEF vars
<1> QED
  BY <1>1, <1>2, <1>3, <1>4, <1>5, <1>6, <1>7, <1>8, <1>9, <1>10, <1>11,
     <1>12, <1>13, <1>14, <1>15 DEF Next, Enqueue, Dequeue

\* Every variable keeps its type (and a producer in a call has begun one).
THEOREM TypeCorrect == Spec => []TypeInv
<1>1. Init => TypeInv
  BY QueueAssumption DEF Init, TypeInv, TypeOK, CallsInv, Threads, Slots, Pcs
<1> QED
  BY <1>1, TypeStep, PTL DEF Spec

\* TypeOK alone, the type invariant the runs check.
THEOREM Types == Spec => []TypeOK
BY TypeCorrect, PTL DEF TypeInv

(***************************************************************************)
(* The ring: who owns which slot, and what its id says.                    *)
(***************************************************************************)

\* A producer wins a position only when fewer than Capacity are untaken.
LEMMA CasRoom ==
  ASSUME TypeInv, RingInv, id[Slot(head)] = head
  PROVE  head < tail + Capacity
<1>1. head \in Nat /\ tail \in Nat /\ head <= tail + Capacity
  BY DEF TypeInv, TypeOK, RingInv, PositionsInv
<1>2. SUFFICES ASSUME head = tail + Capacity PROVE FALSE
  BY <1>1, QueueAssumption
<1>3. Slot(head) = Slot(tail)
  BY <1>1, <1>2, SlotLap
<1>4. id[Slot(tail)] \in {tail, tail + 1}
  BY <1>1, <1>2, QueueAssumption DEF RingInv, FilledInv
<1> QED BY <1>1, <1>2, <1>3, <1>4, QueueAssumption

\* A consumer wins a position only when its value has been published.
LEMMA TakeReady ==
  ASSUME TypeInv, RingInv, id[Slot(tail)] = tail + 1
  PROVE  tail < head
<1>1. head \in Nat /\ tail \in Nat /\ tail <= head
  BY DEF TypeInv, TypeOK, RingInv, PositionsInv
<1>2. SUFFICES ASSUME tail = head PROVE FALSE
  BY <1>1
<1>3. id[Slot(tail)] \in {tail, tail - Capacity + 1}
  BY <1>1, <1>2, QueueAssumption DEF RingInv, FreeInv
<1> QED BY <1>1, <1>3, QueueAssumption

\* Winning, publishing, emptying and releasing positions keep the ring.
LEMMA RingStep == TypeInv /\ TypeInv' /\ RingInv /\ [Next]_vars => RingInv'
<1> SUFFICES ASSUME TypeInv, TypeInv', RingInv, [Next]_vars
             PROVE  RingInv'
  OBVIOUS
<1> USE QueueAssumption
<1>n. head \in Nat /\ tail \in Nat /\ order \in Seq(Values)
  BY DEF TypeInv, TypeOK
<1>f. /\ id \in [Slots -> Nat] /\ pc \in [Threads -> Pcs]
      /\ pos \in [Threads -> Nat]
      /\ data \in [Slots -> Values \cup {NoValue}]
      /\ got \in [Consumers -> Values \cup {NoValue}]
  BY DEF TypeInv, TypeOK
<1>p. ASSUME NEW a \in Producers
      PROVE  a \in Threads /\ a \notin Consumers /\ ~Consuming(a) /\ pos[a] \in Nat
  BY <1>f DEF TypeInv, TypeOK, Threads, Consuming
<1>c. ASSUME NEW b \in Consumers
      PROVE  b \in Threads /\ b \notin Producers /\ ~Producing(b) /\ pos[b] \in Nat
  BY <1>f DEF TypeInv, TypeOK, Threads, Producing
<1>i. /\ PositionsInv /\ FilledInv /\ FreeInv /\ DistinctInv
      /\ \A a \in Producers : ProducerOK(a)
      /\ \A b \in Consumers : ConsumerOK(b)
  BY DEF RingInv
<1>s. \A p \in Nat : Slot(p) \in Slots
  BY SlotType
<1>pq. ASSUME NEW a \in Producers, ~Producing(a),
              NEW l \in {"idle", "check", "cas", "reload"}, NEW p \in Nat,
              pc' = [pc EXCEPT ![a] = l], pos' = [pos EXCEPT ![a] = p],
              \A x \in Producers \ {a} : calls'[x] = calls[x],
              UNCHANGED <<head, tail, id, data, got, order>>,
              ProducerOK(a)'
       PROVE  RingInv'
  <2>1. ASSUME NEW x \in Producers, x # a
        PROVE  pc'[x] = pc[x] /\ pos'[x] = pos[x] /\ Item(x)' = Item(x)
    BY <2>1, <1>pq, <1>f, <1>p DEF Item
  <2>2. \A x \in Producers : Producing(x)' <=> Producing(x)
    BY <2>1, <1>pq, <1>f, <1>p DEF Producing
  <2>3. ASSUME NEW b \in Consumers
        PROVE  pc'[b] = pc[b] /\ pos'[b] = pos[b]
    BY <1>pq, <1>f, <1>c
  <2>4. \A x \in Producers : ProducerOK(x)'
    BY <2>1, <1>pq, <1>i DEF ProducerOK, Producing, Looking
  <2>5. \A b \in Consumers : ConsumerOK(b)'
    BY <2>3, <1>pq, <1>i DEF ConsumerOK, Consuming, Looking
  <2>6. PositionsInv' /\ FreeInv'
    BY <2>3, <1>pq, <1>i DEF PositionsInv, FreeInv, Consuming
  <2>7. FilledInv'
    BY <2>1, <2>2, <1>pq, <1>i DEF FilledInv
  <2>8. DistinctInv'
    BY <2>1, <2>2, <2>3, <1>pq, <1>i DEF DistinctInv, Consuming
  <2> QED BY <2>4, <2>5, <2>6, <2>7, <2>8 DEF RingInv
<1>cq. ASSUME NEW b \in Consumers, ~Consuming(b),
              NEW l \in {"idle", "check", "cas", "reload"}, NEW p \in Nat,
              pc' = [pc EXCEPT ![b] = l], pos' = [pos EXCEPT ![b] = p],
              UNCHANGED <<head, tail, id, data, calls, got, order>>,
              ConsumerOK(b)'
       PROVE  RingInv'
  <2>1. ASSUME NEW x \in Consumers, x # b
        PROVE  pc'[x] = pc[x] /\ pos'[x] = pos[x]
    BY <2>1, <1>cq, <1>f, <1>c
  <2>2. \A x \in Consumers : Consuming(x)' <=> Consuming(x)
    BY <2>1, <1>cq, <1>f, <1>c DEF Consuming
  <2>3. ASSUME NEW a \in Producers
        PROVE  pc'[a] = pc[a] /\ pos'[a] = pos[a] /\ Item(a)' = Item(a)
    BY <1>cq, <1>f, <1>p DEF Item
  <2>4. \A a \in Producers : ProducerOK(a)'
    BY <2>3, <1>cq, <1>i DEF ProducerOK, Producing, Looking
  <2>5. \A x \in Consumers : ConsumerOK(x)'
    BY <2>1, <1>cq, <1>i DEF ConsumerOK, Consuming, Looking
  <2>6. PositionsInv' /\ FilledInv'
    BY <2>3, <1>cq, <1>i DEF PositionsInv, FilledInv, Producing
  <2>7. FreeInv'
    BY <2>1, <2>2, <1>cq, <1>i DEF FreeInv
  <2>8. DistinctInv'
    BY <2>1, <2>2, <2>3, <1>cq, <1>i DEF DistinctInv, Producing
  <2> QED BY <2>4, <2>5, <2>6, <2>7, <2>8 DEF RingInv
<1>1. ASSUME NEW a \in Producers, EnqLoad(a) PROVE RingInv'
  <2>1. ProducerOK(a)' /\ ~Producing(a)
    BY <1>1, <1>f, <1>p, <1>n DEF EnqLoad, Goto, ProducerOK, Producing, Looking
  <2>2. \A x \in Producers \ {a} : calls'[x] = calls[x]
    BY <1>1 DEF EnqLoad, TypeInv, TypeOK
  <2> QED BY <2>1, <2>2, <1>1, <1>pq, <1>n DEF EnqLoad, Goto
<1>2. ASSUME NEW a \in Producers, EnqCheck(a) PROVE RingInv'
  <2>1. PICK l \in {"idle", "cas", "reload"} :
          /\ pc' = [pc EXCEPT ![a] = l] /\ pc[a] = "check"
          /\ l = "cas" => id[Slot(pos[a])] - pos[a] = 0
          /\ UNCHANGED <<head, tail, id, data, pos, calls, got, order>>
    BY <1>2 DEF EnqCheck, Goto
  <2>2. id[Slot(pos[a])] \in Nat /\ pos[a] \in Nat
    BY <1>f, <1>p, <1>s
  <2>3. ProducerOK(a)' /\ ~Producing(a)
    BY <2>1, <2>2, <1>f, <1>p, <1>i DEF ProducerOK, Producing, Looking
  <2>4. pos' = [pos EXCEPT ![a] = pos[a]]
    BY <2>1, <1>f
  <2> QED BY <2>1, <2>2, <2>3, <2>4, <1>pq
<1>3. ASSUME NEW a \in Producers, EnqReload(a) PROVE RingInv'
  <2>1. ProducerOK(a)' /\ ~Producing(a)
    BY <1>3, <1>f, <1>p, <1>n DEF EnqReload, Goto, ProducerOK, Producing, Looking
  <2> QED BY <2>1, <1>3, <1>pq, <1>n DEF EnqReload, Goto
<1>4. ASSUME NEW a \in Producers, EnqCas(a) PROVE RingInv'
  <2>1. /\ pos[a] = head /\ pc[a] = "cas" /\ head' = head + 1
        /\ order' = Append(order, Item(a))
        /\ pc' = [pc EXCEPT ![a] = "write"]
        /\ UNCHANGED <<tail, id, data, pos, calls, got>>
    BY <1>4 DEF EnqCas, EnqWins, Goto
  <2>2. id[Slot(head)] = head
    BY <2>1, <1>i DEF ProducerOK
  <2>3. head < tail + Capacity
    BY <2>1, <2>2, CasRoom
  <2>4. Item(a) \in Values
    BY <2>1 DEF Item, Values, TypeInv, TypeOK, CallsInv
  <2>5. /\ Len(order) = head /\ Len(order') = head + 1
        /\ order'[head + 1] = Item(a)
        /\ \A q \in 0 .. head - 1 : order'[q + 1] = order[q + 1]
    BY <2>1, <2>4, <1>n, <1>i DEF PositionsInv
  <2>6. PositionsInv'
    BY <2>1, <2>3, <2>5, <1>i, <1>n DEF PositionsInv
  <2>7. FilledInv'
    BY <2>1, <2>2, <2>5, <1>i, <1>n, <1>p, <1>f DEF FilledInv, Producing, PositionsInv
  <2>8. FreeInv'
    BY <2>1, <1>i, <1>n, <1>c, <1>f DEF FreeInv, Consuming
  <2>9. ASSUME NEW x \in Producers PROVE ProducerOK(x)'
    <3>1. CASE x = a
      BY <3>1, <2>1, <2>2, <2>5, <1>i, <1>n, <1>p, <1>f
      DEF ProducerOK, Producing, Looking, Item, PositionsInv
    <3>2. CASE x # a
      <4>1. /\ pc'[x] = pc[x] /\ pos[x] \in Nat
            /\ id[Slot(pos[x])] \in Nat /\ Item(x)' = Item(x)
        BY <3>2, <2>1, <1>p, <1>f, <1>s DEF Item
      <4>2. Producing(x) => order'[pos[x] + 1] = order[pos[x] + 1]
        BY <4>1, <2>5, <1>i, <1>n DEF ProducerOK, PositionsInv
      <4> QED
        BY <4>1, <4>2, <2>1, <2>2, <1>i, <1>n
        DEF ProducerOK, Producing, Looking, PositionsInv
    <3> QED BY <3>1, <3>2
  <2>10. ASSUME NEW b \in Consumers PROVE ConsumerOK(b)'
    <3>1. Consuming(b) => head # pos[b] + Capacity
      <4>1. Slot(pos[b] + Capacity) = Slot(pos[b])
        BY SlotLap, <1>c
      <4>2. Consuming(b) => id[Slot(pos[b])] = pos[b] + 1
        BY <1>i DEF ConsumerOK
      <4> QED BY <4>1, <4>2, <2>2, <1>c
    <3>2. pc'[b] = pc[b] /\ pos[b] \in Nat /\ id[Slot(pos[b])] \in Nat
      BY <2>1, <1>p, <1>c, <1>f, <1>s
    <3>3. Consuming(b) => order'[pos[b] + 1] = order[pos[b] + 1]
      BY <3>2, <2>5, <1>i, <1>n DEF ConsumerOK, PositionsInv
    <3>4. Consuming(b) => head + 1 <= pos[b] + Capacity
      BY <3>1, <3>2, <1>i, <1>n DEF ConsumerOK
    <3>5. /\ Consuming(b)' = Consuming(b) /\ Looking(b)' = Looking(b)
          /\ pc[b] \in {"move", "release"} => Consuming(b)
      BY <3>2 DEF Consuming, Looking
    <3> QED
      BY <3>2, <3>3, <3>4, <3>5, <2>1, <1>i, <1>n DEF ConsumerOK
  <2>11. DistinctInv'
    BY <2>1, <1>i, <1>p, <1>c, <1>f, <1>n DEF DistinctInv, Producing, Consuming, ProducerOK
  <2> QED BY <2>6, <2>7, <2>8, <2>9, <2>10, <2>11 DEF RingInv
<1>5. ASSUME NEW a \in Producers, EnqCasFail(a) PROVE RingInv'
  <2>1. ProducerOK(a)' /\ ~Producing(a)
    BY <1>5, <1>f, <1>p, <1>n DEF EnqCasFail, Goto, ProducerOK, Producing, Looking
  <2> QED BY <2>1, <1>5, <1>pq, <1>n DEF EnqCasFail, Goto
<1>6. ASSUME NEW a \in Producers, EnqWrite(a) PROVE RingInv'
  <2>1. /\ pc[a] = "write" /\ pc' = [pc EXCEPT ![a] = "publish"]
        /\ data' = [data EXCEPT ![Slot(pos[a])] = Item(a)]
        /\ UNCHANGED <<head, tail, id, pos, calls, got, order>>
    BY <1>6 DEF EnqWrite, Goto
  <2>2. /\ tail <= pos[a] /\ pos[a] < head /\ id[Slot(pos[a])] = pos[a]
        /\ head <= tail + Capacity /\ tail <= head
    BY <2>1, <1>i DEF ProducerOK, Producing, PositionsInv
  <2>3. ASSUME NEW q \in Nat, q # pos[a], q < pos[a] + Capacity, pos[a] < q + Capacity
        PROVE  data'[Slot(q)] = data[Slot(q)]
    BY <2>1, <2>3, <1>f, <1>s, <1>p, SlotDiffer
  <2>4. \A x \in Producers : (Producing(x)' <=> Producing(x)) /\ Item(x)' = Item(x)
                             /\ (Looking(x)' <=> Looking(x))
                             /\ (x # a => pc'[x] = pc[x])
    BY <2>1, <1>f, <1>p DEF Producing, Looking, Item
  <2>5. \A b \in Consumers : pc'[b] = pc[b]
    BY <2>1, <1>f, <1>c, <1>p
  <2>6. PositionsInv' /\ FreeInv' /\ DistinctInv'
    BY <2>1, <2>4, <2>5, <1>i DEF PositionsInv, FreeInv, DistinctInv, Consuming
  <2>7. FilledInv'
    <3> SUFFICES ASSUME NEW q \in tail .. head - 1
                 PROVE  \/ id[Slot(q)] = q /\ \E x \in Producers : Producing(x) /\ pos[x] = q
                        \/ id[Slot(q)] = q + 1 /\ data'[Slot(q)] = order[q + 1]
      BY <2>1, <2>4 DEF FilledInv
    <3>1. CASE q = pos[a]
      BY <3>1, <2>1, <2>2 DEF Producing
    <3>2. CASE q # pos[a]
      <4>1. q \in Nat /\ q < pos[a] + Capacity /\ pos[a] < q + Capacity
        BY <2>2, <1>n, <1>p
      <4> QED BY <3>2, <4>1, <2>3, <1>i DEF FilledInv
    <3> QED BY <3>1, <3>2
  <2>8. ASSUME NEW x \in Producers PROVE ProducerOK(x)'
    <3>1. CASE x = a
      <4>1. data'[Slot(pos[a])] = Item(a)
        BY <2>1, <1>f, <1>s, <1>p
      <4>2. Producing(a) /\ ~Looking(a)
        BY <2>1 DEF Producing, Looking
      <4> QED BY <3>1, <4>1, <4>2, <2>1, <2>4, <1>i, <1>f, <1>p DEF ProducerOK
    <3>2. CASE x # a
      <4>1. Producing(x) => data'[Slot(pos[x])] = data[Slot(pos[x])]
        <5>1. SUFFICES ASSUME Producing(x) PROVE data'[Slot(pos[x])] = data[Slot(pos[x])]
          OBVIOUS
        <5>2. pos[x] # pos[a]
          BY <3>2, <5>1, <2>1, <1>i DEF DistinctInv, Producing
        <5>3. tail <= pos[x] /\ pos[x] < head
          BY <5>1, <1>i DEF ProducerOK
        <5> QED BY <5>2, <5>3, <2>2, <2>3, <1>n, <1>p
      <4>2. pc[x] = "publish" => Producing(x)
        BY DEF Producing
      <4> QED BY <3>2, <4>1, <4>2, <2>1, <2>4, <1>i DEF ProducerOK
    <3> QED BY <3>1, <3>2
  <2>9. ASSUME NEW b \in Consumers PROVE ConsumerOK(b)'
    <3>1. Consuming(b) => data'[Slot(pos[b])] = data[Slot(pos[b])]
      <4>1. Consuming(b) => pos[b] < tail /\ head <= pos[b] + Capacity
        BY <1>i DEF ConsumerOK
      <4> QED BY <4>1, <2>2, <2>3, <1>n, <1>p, <1>c
    <3> QED BY <3>1, <2>1, <2>5, <1>i DEF ConsumerOK, Consuming, Looking
  <2> QED BY <2>6, <2>7, <2>8, <2>9 DEF RingInv
<1>7. ASSUME NEW a \in Producers, EnqPublish(a) PROVE RingInv'
  <2>1. /\ pc[a] = "publish" /\ pc' = [pc EXCEPT ![a] = "idle"]
        /\ id' = [id EXCEPT ![Slot(pos[a])] = pos[a] + 1]
        /\ UNCHANGED <<head, tail, data, pos, calls, got, order>>
    BY <1>7 DEF EnqPublish, Goto
  <2>2. /\ tail <= pos[a] /\ pos[a] < head /\ id[Slot(pos[a])] = pos[a]
        /\ head <= tail + Capacity /\ tail <= head
        /\ data[Slot(pos[a])] = order[pos[a] + 1]
    BY <2>1, <1>i DEF ProducerOK, Producing, PositionsInv
  <2>3. ASSUME NEW q \in Nat
        PROVE  /\ Slot(q) = Slot(pos[a]) => id'[Slot(q)] = pos[a] + 1
               /\ Slot(q) # Slot(pos[a]) => id'[Slot(q)] = id[Slot(q)]
               /\ id'[Slot(q)] >= id[Slot(q)]
               /\ id[Slot(q)] \in Nat
    BY <2>1, <2>2, <1>f, <1>s, <1>p
  <2>4. ASSUME NEW q \in Nat, q # pos[a], q < pos[a] + Capacity, pos[a] < q + Capacity
        PROVE  Slot(q) # Slot(pos[a])
    BY <2>4, <1>p, SlotDiffer
  <2>5. \A x \in Producers : x # a => /\ pc'[x] = pc[x] /\ Item(x)' = Item(x)
                                      /\ (Producing(x)' <=> Producing(x))
                                      /\ (Looking(x)' <=> Looking(x))
    BY <2>1, <1>f, <1>p DEF Producing, Looking, Item
  <2>6. pc'[a] = "idle" /\ ~Producing(a)' /\ ~Looking(a)'
    BY <2>1, <1>f, <1>p DEF Producing, Looking
  <2>7. \A b \in Consumers : pc'[b] = pc[b]
    BY <2>1, <1>f, <1>c, <1>p
  <2>8. PositionsInv' /\ DistinctInv'
    BY <2>1, <2>5, <2>6, <2>7, <1>i DEF PositionsInv, DistinctInv, Consuming
  <2>9. FilledInv'
    <3> SUFFICES ASSUME NEW q \in tail .. head - 1
                 PROVE  \/ id'[Slot(q)] = q /\ \E x \in Producers : Producing(x)' /\ pos[x] = q
                        \/ id'[Slot(q)] = q + 1 /\ data[Slot(q)] = order[q + 1]
      BY <2>1 DEF FilledInv
    <3>1. q \in Nat /\ q < pos[a] + Capacity /\ pos[a] < q + Capacity
      BY <2>2, <1>n, <1>p
    <3>2. CASE q = pos[a]
      BY <3>1, <3>2, <2>2, <2>3
    <3>3. CASE q # pos[a]
      <4>1. id'[Slot(q)] = id[Slot(q)]
        BY <3>1, <3>3, <2>3, <2>4
      <4> QED BY <3>3, <4>1, <2>5, <1>i DEF FilledInv
    <3> QED BY <3>2, <3>3
  <2>10. FreeInv'
    <3> SUFFICES ASSUME NEW q \in head .. tail + Capacity - 1
                 PROVE  id'[Slot(q)] = id[Slot(q)]
      BY <2>1, <2>7, <1>i DEF FreeInv, Consuming
    <3>1. q \in Nat /\ q # pos[a] /\ q < pos[a] + Capacity /\ pos[a] < q + Capacity
      BY <2>2, <1>n, <1>p
    <3> QED BY <3>1, <2>3, <2>4
  <2>11. ASSUME NEW x \in Producers PROVE ProducerOK(x)'
    <3>1. CASE x = a
      BY <3>1, <2>6 DEF ProducerOK
    <3>2. CASE x # a
      <4>1. Producing(x) => id'[Slot(pos[x])] = id[Slot(pos[x])]
        <5>1. SUFFICES ASSUME Producing(x)
                       PROVE  Slot(pos[x]) # Slot(pos[a])
          BY <2>3, <1>p
        <5>2. pos[x] # pos[a]
          BY <3>2, <5>1, <2>1, <1>i DEF DistinctInv, Producing
        <5>3. tail <= pos[x] /\ pos[x] < head
          BY <5>1, <1>i DEF ProducerOK
        <5> QED BY <5>2, <5>3, <2>2, <2>4, <1>n, <1>p
      <4>2. pc[x] = "cas" /\ pos[x] = head => id'[Slot(pos[x])] = id[Slot(pos[x])]
        <5>1. SUFFICES ASSUME pc[x] = "cas", pos[x] = head, Slot(pos[x]) = Slot(pos[a])
                       PROVE  FALSE
          BY <2>3, <1>p
        <5>2. id[Slot(pos[x])] = pos[x]
          BY <5>1, <1>i DEF ProducerOK
        <5> QED BY <5>1, <5>2, <2>2, <1>n, <1>p
      <4>3. Looking(x) /\ pos[x] < head => id'[Slot(pos[x])] >= pos[x]
        BY <2>1, <2>3, <1>i, <1>p, <1>n, <1>f DEF ProducerOK
      <4> QED BY <3>2, <4>1, <4>2, <4>3, <2>1, <2>5, <1>i DEF ProducerOK
    <3> QED BY <3>1, <3>2
  <2>12. ASSUME NEW b \in Consumers PROVE ConsumerOK(b)'
    <3>1. Consuming(b) => id'[Slot(pos[b])] = id[Slot(pos[b])]
      <4>1. Consuming(b) => pos[b] < tail /\ head <= pos[b] + Capacity
        BY <1>i DEF ConsumerOK
      <4>2. pos[a] \in Nat /\ pos[b] \in Nat
        BY <1>p, <1>c
      <4>3. Consuming(b) => /\ pos[b] # pos[a] /\ pos[b] < pos[a] + Capacity
                            /\ pos[a] < pos[b] + Capacity
        BY <4>1, <4>2, <2>2, <1>n
      <4> QED BY <4>2, <4>3, <2>3, <2>4
    <3>2. pc[b] = "cas" /\ pos[b] = tail => id'[Slot(pos[b])] = id[Slot(pos[b])]
      <4>1. SUFFICES ASSUME pc[b] = "cas", pos[b] = tail, Slot(pos[b]) = Slot(pos[a])
                     PROVE  FALSE
        BY <2>3, <1>c
      <4>2. id[Slot(pos[b])] = pos[b] + 1
        BY <4>1, <1>i DEF ConsumerOK
      <4>3. pos[a] = tail + 1
        BY <4>1, <4>2, <2>2, <1>n, <1>p
      <4> QED BY <4>1, <4>3, <1>n, <1>p, <1>c, SlotDiffer
    <3>3. Looking(b) /\ pos[b] < tail => id'[Slot(pos[b])] >= pos[b] + 1
      <4>1. pos[b] \in Nat /\ id[Slot(pos[b])] \in Nat
            /\ id'[Slot(pos[b])] \in Nat /\ id'[Slot(pos[b])] >= id[Slot(pos[b])]
        BY <2>1, <2>3, <1>c, <1>s DEF TypeInv, TypeOK
      <4>2. Looking(b) /\ pos[b] < tail => id[Slot(pos[b])] >= pos[b] + 1
        BY <1>i DEF ConsumerOK
      <4> QED BY <4>1, <4>2
    <3> QED BY <3>1, <3>2, <3>3, <2>1, <2>7, <1>i DEF ConsumerOK, Consuming, Looking
  <2> QED BY <2>8, <2>9, <2>10, <2>11, <2>12 DEF RingInv
<1>8. ASSUME NEW b \in Consumers, DeqLoad(b) PROVE RingInv'
  <2>1. ConsumerOK(b)' /\ ~Consuming(b)
    BY <1>8, <1>f, <1>c, <1>n DEF DeqLoad, Goto, ConsumerOK, Consuming, Looking
  <2> QED BY <2>1, <1>8, <1>cq, <1>n DEF DeqLoad, Goto
<1>9. ASSUME NEW b \in Consumers, DeqCheck(b) PROVE RingInv'
  <2>1. PICK l \in {"idle", "cas", "reload"} :
          /\ pc' = [pc EXCEPT ![b] = l] /\ pc[b] = "check"
          /\ l = "cas" => id[Slot(pos[b])] - (pos[b] + 1) = 0
          /\ UNCHANGED <<head, tail, id, data, pos, calls, got, order>>
    BY <1>9 DEF DeqCheck, Goto, Expected
  <2>2. id[Slot(pos[b])] \in Nat /\ pos[b] \in Nat
    BY <1>f, <1>c, <1>s
  <2>3. ConsumerOK(b)' /\ ~Consuming(b)
    BY <2>1, <2>2, <1>f, <1>c, <1>i DEF ConsumerOK, Consuming, Looking
  <2>4. pos' = [pos EXCEPT ![b] = pos[b]]
    BY <2>1, <1>f
  <2> QED BY <2>1, <2>2, <2>3, <2>4, <1>cq
<1>10. ASSUME NEW b \in Consumers, DeqReload(b) PROVE RingInv'
  <2>1. ConsumerOK(b)' /\ ~Consuming(b)
    BY <1>10, <1>f, <1>c, <1>n DEF DeqReload, Goto, ConsumerOK, Consuming, Looking
  <2> QED BY <2>1, <1>10, <1>cq, <1>n DEF DeqReload, Goto
<1>11. ASSUME NEW b \in Consumers, DeqCas(b) PROVE RingInv'
  <2>1. /\ pos[b] = tail /\ pc[b] = "cas" /\ tail' = tail + 1
        /\ pc' = [pc EXCEPT ![b] = "move"]
        /\ UNCHANGED <<head, id, data, pos, calls, got, order>>
    BY <1>11 DEF DeqCas, DeqWins, Goto
  <2>2. id[Slot(tail)] = tail + 1
    BY <2>1, <1>i DEF ConsumerOK
  <2>3. tail < head
    BY <2>1, <2>2, TakeReady
  <2>4. data[Slot(tail)] = order[tail + 1]
    BY <2>2, <2>3, <1>i, <1>n DEF FilledInv
  <2>5. \A x \in Consumers : x # b => /\ pc'[x] = pc[x]
                                      /\ (Consuming(x)' <=> Consuming(x))
                                      /\ (Looking(x)' <=> Looking(x))
    BY <2>1, <1>f, <1>c DEF Consuming, Looking
  <2>6. pc'[b] = "move" /\ Consuming(b)' /\ ~Looking(b)' /\ ~Consuming(b)
    BY <2>1, <1>f, <1>c DEF Consuming, Looking
  <2>7. \A a \in Producers : pc'[a] = pc[a] /\ Item(a)' = Item(a)
    BY <2>1, <1>f, <1>c, <1>p DEF Item
  <2>8. PositionsInv'
    BY <2>1, <2>3, <1>i, <1>n DEF PositionsInv
  <2>9. FilledInv'
    BY <2>1, <2>7, <1>i, <1>n DEF FilledInv, Producing
  <2>10. FreeInv'
    <3> SUFFICES ASSUME NEW q \in head .. tail + Capacity
                 PROVE  \/ id[Slot(q)] = q
                        \/ /\ id[Slot(q)] = q - Capacity + 1
                           /\ \E x \in Consumers : Consuming(x)' /\ pos[x] = q - Capacity
      BY <2>1, <1>n DEF FreeInv
    <3>1. CASE q = tail + Capacity
      <4>1. Slot(q) = Slot(tail)
        BY <3>1, SlotLap, <1>n
      <4> QED BY <3>1, <4>1, <2>1, <2>2, <2>6, <1>n
    <3>2. CASE q # tail + Capacity
      <4>1. q \in head .. tail + Capacity - 1
        BY <3>2, <1>n
      <4> QED BY <4>1, <2>5, <2>6, <1>i DEF FreeInv
    <3> QED BY <3>1, <3>2
  <2>11. ASSUME NEW a \in Producers PROVE ProducerOK(a)'
    <3>1. Producing(a) => tail + 1 <= pos[a]
      BY <2>2, <1>i, <1>n, <1>p DEF ProducerOK
    <3> QED BY <3>1, <2>1, <2>7, <1>i DEF ProducerOK, Producing, Looking
  <2>12. ASSUME NEW x \in Consumers PROVE ConsumerOK(x)'
    <3>1. CASE x = b
      BY <3>1, <2>1, <2>2, <2>4, <2>6, <1>i, <1>n DEF ConsumerOK, PositionsInv
    <3>2. CASE x # b
      <4>1. pos[x] \in Nat /\ id[Slot(pos[x])] \in Nat
        BY <1>c, <1>f, <1>s
      <4>2. Looking(x) => pos[x] <= tail /\ (pos[x] < tail + 1 => id[Slot(pos[x])] >= pos[x] + 1)
        BY <4>1, <2>2, <1>i, <1>n DEF ConsumerOK
      <4>3. pc[x] = "cas" => Looking(x)
        BY DEF Looking
      <4>4. Consuming(x) => pos[x] < tail + 1
        BY <4>1, <1>i, <1>n DEF ConsumerOK
      <4> QED BY <3>2, <4>1, <4>2, <4>3, <4>4, <2>1, <2>5, <1>i, <1>n DEF ConsumerOK
    <3> QED BY <3>1, <3>2
  <2>13. DistinctInv'
    <3>1. \A x \in Consumers : Consuming(x) => pos[x] # tail
      BY <1>i, <1>n, <1>c DEF ConsumerOK
    <3> QED BY <3>1, <2>1, <2>5, <2>6, <2>7, <1>i DEF DistinctInv, Producing
  <2> QED BY <2>8, <2>9, <2>10, <2>11, <2>12, <2>13 DEF RingInv
<1>12. ASSUME NEW b \in Consumers, DeqCasFail(b) PROVE RingInv'
  <2>1. ConsumerOK(b)' /\ ~Consuming(b)
    BY <1>12, <1>f, <1>c, <1>n DEF DeqCasFail, Goto, ConsumerOK, Consuming, Looking
  <2> QED BY <2>1, <1>12, <1>cq, <1>n DEF DeqCasFail, Goto
<1>13. ASSUME NEW b \in Consumers, DeqMove(b) PROVE RingInv'
  <2>1. /\ pc[b] = "move" /\ pc' = [pc EXCEPT ![b] = "release"]
        /\ got' = [got EXCEPT ![b] = data[Slot(pos[b])]]
        /\ data' = [data EXCEPT ![Slot(pos[b])] = NoValue]
        /\ UNCHANGED <<head, tail, id, pos, calls, order>>
    BY <1>13 DEF DeqMove, Goto
  <2>2. /\ pos[b] < tail /\ head <= pos[b] + Capacity
        /\ head <= tail + Capacity /\ tail <= head
        /\ data[Slot(pos[b])] = order[pos[b] + 1]
    BY <2>1, <1>i DEF ConsumerOK, Consuming, PositionsInv
  <2>3. ASSUME NEW q \in Nat, q # pos[b], q < pos[b] + Capacity, pos[b] < q + Capacity
        PROVE  data'[Slot(q)] = data[Slot(q)]
    BY <2>1, <2>3, <1>f, <1>s, <1>c, SlotDiffer
  <2>4. \A x \in Consumers : /\ (Consuming(x)' <=> Consuming(x))
                             /\ (Looking(x)' <=> Looking(x))
                             /\ (x # b => pc'[x] = pc[x] /\ got'[x] = got[x])
    BY <2>1, <1>f, <1>c DEF Consuming, Looking
  <2>5. \A a \in Producers : pc'[a] = pc[a] /\ Item(a)' = Item(a)
    BY <2>1, <1>f, <1>c, <1>p DEF Item
  <2>6. PositionsInv' /\ FreeInv' /\ DistinctInv'
    BY <2>1, <2>4, <2>5, <1>i DEF PositionsInv, FreeInv, DistinctInv, Producing
  <2>7. FilledInv'
    <3> SUFFICES ASSUME NEW q \in tail .. head - 1
                 PROVE  data'[Slot(q)] = data[Slot(q)]
      BY <2>1, <2>5, <1>i DEF FilledInv, Producing
    <3>1. q \in Nat /\ q # pos[b] /\ q < pos[b] + Capacity /\ pos[b] < q + Capacity
      BY <2>2, <1>n, <1>c
    <3> QED BY <3>1, <2>3
  <2>8. ASSUME NEW a \in Producers PROVE ProducerOK(a)'
    <3>1. Producing(a) => tail <= pos[a] /\ pos[a] < head
      BY <1>i DEF ProducerOK
    <3>2. pos[a] \in Nat /\ pos[b] \in Nat
      BY <1>p, <1>c
    <3>3. Producing(a) => /\ pos[a] # pos[b] /\ pos[a] < pos[b] + Capacity
                          /\ pos[b] < pos[a] + Capacity
      BY <3>1, <3>2, <2>2, <1>n
    <3>4. pc[a] = "publish" => data'[Slot(pos[a])] = data[Slot(pos[a])]
      BY <3>2, <3>3, <2>3 DEF Producing
    <3> QED BY <3>4, <2>1, <2>5, <1>i DEF ProducerOK, Producing, Looking
  <2>9. ASSUME NEW x \in Consumers PROVE ConsumerOK(x)'
    <3>1. CASE x = b
      <4>1. got'[b] = order[pos[b] + 1] /\ pc'[b] = "release" /\ Consuming(b)' /\ ~Looking(b)'
        BY <2>1, <2>2, <1>f, <1>c DEF Consuming, Looking
      <4>2. Consuming(b)
        BY <2>1 DEF Consuming
      <4> QED BY <3>1, <4>1, <4>2, <2>1, <1>i DEF ConsumerOK
    <3>2. CASE x # b
      <4>1. Consuming(x) => data'[Slot(pos[x])] = data[Slot(pos[x])]
        <5>1. SUFFICES ASSUME Consuming(x) PROVE data'[Slot(pos[x])] = data[Slot(pos[x])]
          OBVIOUS
        <5>2. pos[x] # pos[b]
          BY <3>2, <5>1, <2>1, <1>i DEF DistinctInv, Consuming
        <5>3. pos[x] < tail /\ head <= pos[x] + Capacity
          BY <5>1, <1>i DEF ConsumerOK
        <5>4. pos[x] \in Nat /\ pos[b] \in Nat
          BY <1>c
        <5>5. pos[x] < pos[b] + Capacity /\ pos[b] < pos[x] + Capacity
          BY <5>3, <5>4, <2>2, <1>n
        <5> QED BY <5>2, <5>4, <5>5, <2>3
      <4>2. pc[x] = "move" => Consuming(x)
        BY DEF Consuming
      <4> QED BY <3>2, <4>1, <4>2, <2>1, <2>4, <1>i DEF ConsumerOK
    <3> QED BY <3>1, <3>2
  <2> QED BY <2>6, <2>7, <2>8, <2>9 DEF RingInv
<1>14. ASSUME NEW b \in Consumers, DeqRelease(b) PROVE RingInv'
  <2>1. /\ pc[b] = "release" /\ pc' = [pc EXCEPT ![b] = "idle"]
        /\ id' = [id EXCEPT ![Slot(pos[b])] = pos[b] + Capacity]
        /\ UNCHANGED <<head, tail, data, pos, calls, got, order>>
    BY <1>14 DEF DeqRelease, Released, Goto
  <2>2. /\ pos[b] < tail /\ head <= pos[b] + Capacity /\ id[Slot(pos[b])] = pos[b] + 1
        /\ head <= tail + Capacity /\ tail <= head /\ pos[b] \in Nat
    BY <2>1, <1>i, <1>c DEF ConsumerOK, Consuming, PositionsInv
  <2>3. ASSUME NEW q \in Nat
        PROVE  /\ Slot(q) = Slot(pos[b]) => id'[Slot(q)] = pos[b] + Capacity
               /\ Slot(q) # Slot(pos[b]) => id'[Slot(q)] = id[Slot(q)]
               /\ id'[Slot(q)] >= id[Slot(q)]
               /\ id[Slot(q)] \in Nat /\ id'[Slot(q)] \in Nat
    BY <2>1, <2>2, <1>f, <1>s
  <2>4. ASSUME NEW q \in Nat, q # pos[b], q < pos[b] + Capacity, pos[b] < q + Capacity
        PROVE  Slot(q) # Slot(pos[b])
    BY <2>4, <2>2, SlotDiffer
  <2>5. \A x \in Consumers : x # b => /\ pc'[x] = pc[x]
                                      /\ (Consuming(x)' <=> Consuming(x))
                                      /\ (Looking(x)' <=> Looking(x))
    BY <2>1, <1>f, <1>c DEF Consuming, Looking
  <2>6. pc'[b] = "idle" /\ ~Consuming(b)' /\ ~Looking(b)' /\ Consuming(b)
    BY <2>1, <1>f, <1>c DEF Consuming, Looking
  <2>7. \A a \in Producers : pc'[a] = pc[a] /\ Item(a)' = Item(a)
    BY <2>1, <1>f, <1>c, <1>p DEF Item
  <2>8. PositionsInv' /\ DistinctInv'
    BY <2>1, <2>5, <2>6, <2>7, <1>i DEF PositionsInv, DistinctInv, Producing
  <2>9. FilledInv'
    <3> SUFFICES ASSUME NEW q \in tail .. head - 1
                 PROVE  id'[Slot(q)] = id[Slot(q)]
      BY <2>1, <2>7, <1>i DEF FilledInv, Producing
    <3>1. q \in Nat /\ q # pos[b] /\ q < pos[b] + Capacity /\ pos[b] < q + Capacity
      BY <2>2, <1>n
    <3> QED BY <3>1, <2>3, <2>4
  <2>10. FreeInv'
    <3> SUFFICES ASSUME NEW q \in head .. tail + Capacity - 1
                 PROVE  \/ id'[Slot(q)] = q
                        \/ /\ id'[Slot(q)] = q - Capacity + 1
                           /\ \E x \in Consumers : Consuming(x)' /\ pos[x] = q - Capacity
      BY <2>1 DEF FreeInv
    <3>1. q \in Nat
      BY <1>n
    <3>2. CASE q = pos[b] + Capacity
      BY <3>1, <3>2, <2>2, <2>3, SlotLap
    <3>3. CASE q # pos[b] + Capacity
      <4>1. Slot(q) # Slot(pos[b] + Capacity)
        <5>1. pos[b] + Capacity \in Nat /\ q < pos[b] + Capacity + Capacity
              /\ pos[b] + Capacity < q + Capacity
          BY <3>1, <2>2, <1>n
        <5> QED BY <3>1, <3>3, <5>1, SlotDiffer
      <4>2. id'[Slot(q)] = id[Slot(q)]
        BY <4>1, <3>1, <2>2, <2>3, SlotLap
      <4>3. ASSUME NEW x \in Consumers, pos[x] = q - Capacity PROVE x # b
        BY <4>3, <3>3, <3>1, <2>2
      <4> QED BY <4>2, <4>3, <2>5, <1>i DEF FreeInv
    <3> QED BY <3>2, <3>3
  <2>11. ASSUME NEW a \in Producers PROVE ProducerOK(a)'
    <3>1. pos[a] \in Nat
      BY <1>p
    <3>2. Producing(a) => id'[Slot(pos[a])] = id[Slot(pos[a])]
      <4>1. Producing(a) => tail <= pos[a] /\ pos[a] < head
        BY <1>i DEF ProducerOK
      <4>2. Producing(a) => /\ pos[a] # pos[b] /\ pos[a] < pos[b] + Capacity
                            /\ pos[b] < pos[a] + Capacity
        BY <4>1, <3>1, <2>2, <1>n
      <4> QED BY <4>2, <3>1, <2>3, <2>4
    <3>3. pc[a] = "cas" /\ pos[a] = head => id'[Slot(pos[a])] = id[Slot(pos[a])]
      <4>1. SUFFICES ASSUME pc[a] = "cas", pos[a] = head, Slot(pos[a]) = Slot(pos[b])
                     PROVE  FALSE
        BY <2>3, <3>1
      <4>2. id[Slot(pos[a])] = pos[a]
        BY <4>1, <1>i DEF ProducerOK
      <4>3. head = pos[b] + 1
        BY <4>1, <4>2, <2>2, <1>n
      <4> QED BY <4>1, <4>3, <2>2, <2>4, <1>n
    <3>4. Looking(a) /\ pos[a] < head => id'[Slot(pos[a])] >= pos[a]
      <4>1. Looking(a) /\ pos[a] < head => id[Slot(pos[a])] >= pos[a]
        BY <1>i DEF ProducerOK
      <4> QED BY <4>1, <3>1, <2>3
    <3> QED BY <3>2, <3>3, <3>4, <2>1, <2>7, <1>i DEF ProducerOK, Producing, Looking
  <2>12. ASSUME NEW x \in Consumers PROVE ConsumerOK(x)'
    <3>1. CASE x = b
      BY <3>1, <2>6 DEF ConsumerOK
    <3>2. CASE x # b
      <4>1. pos[x] \in Nat
        BY <1>c
      <4>2. Consuming(x) => id'[Slot(pos[x])] = id[Slot(pos[x])]
        <5>1. SUFFICES ASSUME Consuming(x) PROVE Slot(pos[x]) # Slot(pos[b])
          BY <4>1, <2>3
        <5>2. pos[x] # pos[b]
          BY <3>2, <5>1, <2>6, <1>i DEF DistinctInv
        <5>3. pos[x] < tail /\ head <= pos[x] + Capacity
          BY <5>1, <1>i DEF ConsumerOK
        <5>4. pos[x] < pos[b] + Capacity /\ pos[b] < pos[x] + Capacity
          BY <5>3, <4>1, <2>2, <1>n
        <5> QED BY <5>2, <5>4, <4>1, <2>4
      <4>3. pc[x] = "cas" /\ pos[x] = tail => id'[Slot(pos[x])] = id[Slot(pos[x])]
        <5>1. SUFFICES ASSUME pc[x] = "cas", pos[x] = tail, Slot(pos[x]) = Slot(pos[b])
                       PROVE  FALSE
          BY <2>3, <4>1
        <5>2. id[Slot(pos[x])] = pos[x] + 1
          BY <5>1, <1>i DEF ConsumerOK
        <5> QED BY <5>1, <5>2, <2>2, <1>n
      <4>4. Looking(x) /\ pos[x] < tail => id'[Slot(pos[x])] >= pos[x] + 1
        <5>1. Looking(x) /\ pos[x] < tail => id[Slot(pos[x])] >= pos[x] + 1
          BY <1>i DEF ConsumerOK
        <5> QED BY <5>1, <4>1, <2>3
      <4> QED BY <3>2, <4>2, <4>3, <4>4, <2>1, <2>5, <1>i DEF ConsumerOK
    <3> QED BY <3>1, <3>2
  <2> QED BY <2>8, <2>9, <2>10, <2>11, <2>12 DEF RingInv
<1>15. CASE UNCHANGED vars
  BY <1>15, <1>i DEF vars, RingInv, PositionsInv, FilledInv, FreeInv, ProducerOK,
     ConsumerOK, DistinctInv, Producing, Consuming, Looking, Item
<1> QED
  BY <1>1, <1>2, <1>3, <1>4, <1>5, <1>6, <1>7, <1>8, <1>9, <1>10, <1>11,
     <1>12, <1>13, <1>14, <1>15 DEF Next, Enqueue, Dequeue

\* The ring invariant holds of every reachable state.
THEOREM RingCorrect == Spec => [](TypeInv /\ RingInv)
<1>1. Init => RingInv
  <2> SUFFICES ASSUME Init PROVE RingInv
    OBVIOUS
  <2> USE QueueAssumption
  <2>1. /\ head = 0 /\ tail = 0 /\ order = <<>>
        /\ \A t \in Threads : pc[t] = "idle"
        /\ \A s \in Slots : id[s] = s
    BY DEF Init
  <2>2. PositionsInv /\ FilledInv
    BY <2>1 DEF PositionsInv, FilledInv
  <2>3. FreeInv
    BY <2>1, SlotSmall DEF FreeInv, Slots
  <2>4. /\ \A a \in Producers : ProducerOK(a)
        /\ \A b \in Consumers : ConsumerOK(b)
        /\ DistinctInv
    BY <2>1 DEF ProducerOK, ConsumerOK, DistinctInv, Producing, Consuming, Looking, Threads
  <2> QED BY <2>2, <2>3, <2>4 DEF RingInv
<1>2. Spec => []TypeInv
  BY TypeCorrect
<1>3. TypeInv /\ TypeInv' /\ RingInv /\ [Next]_vars => RingInv'
  BY RingStep
<1> QED
  BY <1>1, <1>2, <1>3, PTL DEF Spec

(***************************************************************************)
(* The properties.                                                         *)
(***************************************************************************)

\* No two threads ever own the same slot: the plain data of a node is never
\* accessed by two calls at once.
THEOREM Exclusion == Spec => []SlotExclusion
<1>1. TypeInv /\ RingInv => SlotExclusion
  <2> SUFFICES ASSUME TypeInv, RingInv, NEW s \in Threads, NEW t \in Threads,
                      s # t, Owning(s), Owning(t)
               PROVE  Slot(pos[s]) # Slot(pos[t])
    BY DEF SlotExclusion
  <2>1. /\ pos[s] \in Nat /\ pos[t] \in Nat /\ head \in Nat /\ tail \in Nat
        /\ tail <= head /\ head <= tail + Capacity
    BY DEF TypeInv, TypeOK, RingInv, PositionsInv
  <2>2. ASSUME NEW x \in Threads, Owning(x)
        PROVE  \/ x \in Producers /\ Producing(x) /\ tail <= pos[x] /\ pos[x] < head
               \/ x \in Consumers /\ Consuming(x) /\ pos[x] < tail /\ head <= pos[x] + Capacity
    BY <2>2 DEF TypeInv, TypeOK, Threads, Owning, Producing, Consuming,
                RingInv, ProducerOK, ConsumerOK
  <2>3. pos[s] # pos[t]
    BY <2>1, <2>2 DEF RingInv, DistinctInv
  <2>4. pos[s] < pos[t] + Capacity /\ pos[t] < pos[s] + Capacity
    BY <2>1, <2>2, QueueAssumption
  <2> QED BY <2>1, <2>3, <2>4, SlotDiffer
<1> QED
  BY <1>1, RingCorrect, PTL

\* A consumer always finds, in the slot it won, the value that was enqueued
\* at that position.
THEOREM Fifo == Spec => []FifoDelivery
<1>1. TypeInv /\ RingInv => FifoDelivery
  BY DEF RingInv, PositionsInv, ConsumerOK, FifoDelivery
<1> QED
  BY <1>1, RingCorrect, PTL

\* Only a thread's own check takes it from "check" to "idle".
LEMMA OwnCheck ==
  ASSUME TypeInv, [Next]_vars, NEW t \in Threads, pc[t] = "check", pc'[t] = "idle"
  PROVE  \/ t \in Producers /\ EnqCheck(t)
         \/ t \in Consumers /\ DeqCheck(t)
<1> USE DEF TypeInv, TypeOK, Goto
<1>1. ASSUME NEW a \in Producers, Enqueue(a) PROVE t = a /\ EnqCheck(a)
  BY <1>1 DEF Enqueue, EnqLoad, EnqCheck, EnqReload, EnqCas, EnqCasFail,
              EnqWrite, EnqPublish
<1>2. ASSUME NEW b \in Consumers, Dequeue(b) PROVE t = b /\ DeqCheck(b)
  BY <1>2 DEF Dequeue, DeqLoad, DeqCheck, DeqReload, DeqCas, DeqCasFail,
              DeqMove, DeqRelease
<1> QED
  BY <1>1, <1>2 DEF Next, vars

\* enqueue returns false only if all slots are taken or the one it needs is
\* still being emptied.
THEOREM FullAnswer == Spec => FullAnswerJustified
<1>1. ASSUME TypeInv, RingInv, [Next]_vars, NEW a \in Producers,
             pc[a] = "check", pc'[a] = "idle"
      PROVE  \/ head = tail + Capacity
             \/ \E b \in Consumers : Consuming(b) /\ pos[b] + Capacity = head
  <2>1. a \in Threads /\ a \notin Consumers
    BY QueueAssumption DEF Threads
  <2>2. EnqCheck(a)
    BY <1>1, <2>1, OwnCheck
  <2>3. /\ pos[a] \in Nat /\ head \in Nat /\ tail \in Nat
        /\ id[Slot(pos[a])] \in Nat /\ pc \in [Threads -> Pcs]
    BY <1>1, <2>1, SlotType DEF TypeInv, TypeOK
  <2>4. id[Slot(pos[a])] < pos[a]
    BY <1>1, <2>1, <2>2, <2>3 DEF EnqCheck, Goto
  <2>5. pos[a] = head
    BY <1>1, <2>3, <2>4 DEF RingInv, ProducerOK, Looking
  <2>6. CASE head = tail + Capacity
    BY <2>6
  <2>7. CASE head # tail + Capacity
    <3>1. head \in head .. tail + Capacity - 1
      BY <1>1, <2>3, <2>7, QueueAssumption DEF RingInv, PositionsInv
    <3>2. PICK b \in Consumers : Consuming(b) /\ pos[b] = head - Capacity
      BY <1>1, <3>1, <2>3, <2>4, <2>5 DEF RingInv, FreeInv
    <3> QED BY <3>2, <2>3, QueueAssumption
  <2> QED BY <2>6, <2>7
<1>2. TypeInv /\ RingInv /\ [Next]_vars =>
        [\A a \in Producers : pc[a] = "check" /\ pc'[a] = "idle" =>
           \/ head = tail + Capacity
           \/ \E b \in Consumers : Consuming(b) /\ pos[b] + Capacity = head]_vars
  BY <1>1
<1> QED
  BY <1>2, RingCorrect, PTL DEF Spec, FullAnswerJustified

\* dequeue returns false only if there is nothing to take or the value at the
\* front is still being stored.
THEOREM EmptyAnswer == Spec => EmptyAnswerJustified
<1>1. ASSUME TypeInv, RingInv, [Next]_vars, NEW b \in Consumers,
             pc[b] = "check", pc'[b] = "idle"
      PROVE  \/ head = tail
             \/ \E a \in Producers : Producing(a) /\ pos[a] = tail
  <2>1. b \in Threads /\ b \notin Producers
    BY QueueAssumption DEF Threads
  <2>2. DeqCheck(b)
    BY <1>1, <2>1, OwnCheck
  <2>3. /\ pos[b] \in Nat /\ head \in Nat /\ tail \in Nat
        /\ id[Slot(pos[b])] \in Nat /\ pc \in [Threads -> Pcs]
    BY <1>1, <2>1, SlotType DEF TypeInv, TypeOK
  <2>4. id[Slot(pos[b])] < pos[b] + 1
    BY <1>1, <2>1, <2>2, <2>3 DEF DeqCheck, Goto, Expected
  <2>5. pos[b] = tail
    BY <1>1, <2>3, <2>4 DEF RingInv, ConsumerOK, Looking
  <2>6. CASE head = tail
    BY <2>6
  <2>7. CASE head # tail
    <3>1. tail \in tail .. head - 1
      BY <1>1, <2>3, <2>7 DEF RingInv, PositionsInv
    <3> QED BY <1>1, <3>1, <2>3, <2>4, <2>5 DEF RingInv, FilledInv
  <2> QED BY <2>6, <2>7
<1>2. TypeInv /\ RingInv /\ [Next]_vars =>
        [\A b \in Consumers : pc[b] = "check" /\ pc'[b] = "idle" =>
           \/ head = tail
           \/ \E a \in Producers : Producing(a) /\ pos[a] = tail]_vars
  BY <1>1
<1> QED
  BY <1>2, RingCorrect, PTL DEF Spec, EmptyAnswerJustified

(***************************************************************************)
(* The queue implements the bounded FIFO of TicketQueue.                   *)
(***************************************************************************)

Storing  == [a \in Producers |-> IF Producing(a) THEN pos[a] ELSE NoTicket]
Fetching == [b \in Consumers |-> IF pc[b] = "move" THEN pos[b] ELSE NoTicket]

\* Every step of the ring is a step of the FIFO or changes nothing of it.
LEMMA RefinementStep ==
  TypeInv /\ RingInv /\ [Next]_vars => [Abstract!TQNext]_(Abstract!tqVars)
<1> SUFFICES ASSUME TypeInv, RingInv, [Next]_vars
             PROVE  Abstract!TQNext \/ UNCHANGED <<order, Storing, tail, Fetching, got>>
  BY DEF Abstract!tqVars, Storing, Fetching
<1> USE QueueAssumption DEF Goto
<1>n. /\ head \in Nat /\ tail \in Nat /\ order \in Seq(Values)
      /\ id \in [Slots -> Nat] /\ pc \in [Threads -> Pcs]
      /\ pos \in [Threads -> Nat]
  BY DEF TypeInv, TypeOK
<1>p. ASSUME NEW a \in Producers
      PROVE  a \in Threads /\ a \notin Consumers /\ pos[a] \in Nat /\ pc[a] # "move"
  BY <1>n DEF TypeInv, TypeOK, Threads
<1>c. ASSUME NEW b \in Consumers
      PROVE  b \in Threads /\ b \notin Producers /\ pos[b] \in Nat /\ ~Producing(b)
  BY <1>n DEF TypeInv, TypeOK, Threads, Producing
<1>q. ASSUME NEW t \in Threads, NEW l \in Pcs,
             pc[t] \notin {"write", "publish", "move"}, l \notin {"write", "publish", "move"},
             pc' = [pc EXCEPT ![t] = l],
             \A x \in Threads : x # t => pos'[x] = pos[x],
             UNCHANGED <<order, tail, got>>
      PROVE  UNCHANGED <<order, Storing, tail, Fetching, got>>
  <2>1. \A a \in Producers : /\ Producing(a)' <=> Producing(a)
                             /\ Producing(a) => pos'[a] = pos[a]
    BY <1>q, <1>n, <1>p DEF Producing
  <2>2. \A b \in Consumers : /\ pc'[b] = "move" <=> pc[b] = "move"
                             /\ pc[b] = "move" => pos'[b] = pos[b]
    BY <1>q, <1>n, <1>c
  <2> QED BY <2>1, <2>2, <1>q DEF Storing, Fetching
<1>1. ASSUME NEW a \in Producers,
             EnqLoad(a) \/ EnqCheck(a) \/ EnqReload(a) \/ EnqCasFail(a)
      PROVE  UNCHANGED <<order, Storing, tail, Fetching, got>>
  <2>1. PICK l \in {"idle", "check", "cas", "reload"} :
          /\ pc' = [pc EXCEPT ![a] = l] /\ pc[a] \in {"idle", "check", "cas", "reload"}
          /\ \A x \in Threads : x # a => pos'[x] = pos[x]
          /\ UNCHANGED <<order, tail, got>>
    BY <1>1, <1>n DEF EnqLoad, EnqCheck, EnqReload, EnqCasFail
  <2> QED BY <2>1, <1>q, <1>p DEF Pcs
<1>2. ASSUME NEW a \in Producers, EnqCas(a) PROVE Abstract!Claim(a)
  <2>1. /\ pos[a] = head /\ pc[a] = "cas" /\ pc' = [pc EXCEPT ![a] = "write"]
        /\ order' = Append(order, Item(a)) /\ UNCHANGED <<tail, pos, got>>
    BY <1>2 DEF EnqCas, EnqWins
  <2>2. head < tail + Capacity /\ Len(order) = head
    <3>1. id[Slot(head)] = head
      BY <2>1 DEF RingInv, ProducerOK
    <3> QED BY <3>1, CasRoom DEF RingInv, PositionsInv
  <2>3. Item(a) \in Values
    BY <2>1 DEF Item, Values, TypeInv, TypeOK, CallsInv
  <2>4. ~Producing(a) /\ Producing(a)'
    BY <2>1, <1>n, <1>p DEF Producing
  <2>5. \A x \in Producers : x # a => (Producing(x)' <=> Producing(x))
    BY <2>1, <1>n, <1>p DEF Producing
  <2>6. Storing' = [Storing EXCEPT ![a] = Len(order)]
    BY <2>1, <2>2, <2>4, <2>5 DEF Storing
  <2>7. Fetching' = Fetching
    BY <2>1, <1>n, <1>c, <1>p DEF Fetching
  <2> QED BY <2>1, <2>2, <2>3, <2>4, <2>6, <2>7 DEF Abstract!Claim, Storing, Fetching
<1>3. ASSUME NEW a \in Producers, EnqWrite(a)
      PROVE  UNCHANGED <<order, Storing, tail, Fetching, got>>
  <2>1. \A x \in Producers : Producing(x)' <=> Producing(x)
    BY <1>3, <1>n, <1>p DEF EnqWrite, Producing
  <2>2. \A b \in Consumers : pc'[b] = pc[b]
    BY <1>3, <1>n, <1>p, <1>c DEF EnqWrite
  <2> QED BY <2>1, <2>2, <1>3 DEF EnqWrite, Storing, Fetching
<1>4. ASSUME NEW a \in Producers, EnqPublish(a) PROVE Abstract!Store(a)
  <2>1. Producing(a) /\ ~Producing(a)' /\ pos[a] # NoTicket
    BY <1>4, <1>n, <1>p DEF EnqPublish, Producing
  <2>2. \A x \in Producers : x # a => (Producing(x)' <=> Producing(x))
    BY <1>4, <1>n, <1>p DEF EnqPublish, Producing
  <2>3. Storing' = [Storing EXCEPT ![a] = NoTicket]
    BY <1>4, <2>1, <2>2 DEF EnqPublish, Storing
  <2>4. Fetching' = Fetching
    BY <1>4, <1>n, <1>c, <1>p DEF EnqPublish, Fetching
  <2> QED BY <1>4, <2>1, <2>3, <2>4 DEF EnqPublish, Abstract!Store, Storing, Fetching
<1>5. ASSUME NEW b \in Consumers,
             DeqLoad(b) \/ DeqCheck(b) \/ DeqReload(b) \/ DeqCasFail(b) \/ DeqRelease(b)
      PROVE  UNCHANGED <<order, Storing, tail, Fetching, got>>
  <2>1. PICK l \in {"idle", "check", "cas", "reload"} :
          /\ pc' = [pc EXCEPT ![b] = l]
          /\ pc[b] \in {"idle", "check", "cas", "reload", "release"}
          /\ \A x \in Threads : x # b => pos'[x] = pos[x]
          /\ UNCHANGED <<order, tail, got>>
    BY <1>5, <1>n DEF DeqLoad, DeqCheck, DeqReload, DeqCasFail, DeqRelease
  <2> QED BY <2>1, <1>q, <1>c DEF Pcs
<1>6. ASSUME NEW b \in Consumers, DeqCas(b) PROVE Abstract!Take(b)
  <2>1. /\ pos[b] = tail /\ pc[b] = "cas" /\ pc' = [pc EXCEPT ![b] = "move"]
        /\ tail' = tail + 1 /\ UNCHANGED <<order, pos, got>>
    BY <1>6 DEF DeqCas, DeqWins
  <2>2. id[Slot(tail)] = tail + 1
    BY <2>1 DEF RingInv, ConsumerOK
  <2>3. tail < Len(order)
    BY <2>2, TakeReady DEF RingInv, PositionsInv
  <2>4. \A a \in Producers : Storing[a] # tail
    BY <2>2, <1>n DEF RingInv, ProducerOK, Storing
  <2>5. Fetching' = [Fetching EXCEPT ![b] = tail]
    BY <2>1, <1>n, <1>c DEF Fetching
  <2>6. Storing' = Storing
    BY <2>1, <1>n, <1>c, <1>p DEF Storing, Producing
  <2>7. Fetching[b] = NoTicket
    BY <2>1 DEF Fetching
  <2> QED BY <2>1, <2>3, <2>4, <2>5, <2>6, <2>7 DEF Abstract!Take, Storing, Fetching
<1>7. ASSUME NEW b \in Consumers, DeqMove(b) PROVE Abstract!Fetch(b)
  <2>1. /\ pc[b] = "move" /\ pc' = [pc EXCEPT ![b] = "release"]
        /\ got' = [got EXCEPT ![b] = data[Slot(pos[b])]]
        /\ UNCHANGED <<order, tail, pos>>
    BY <1>7 DEF DeqMove
  <2>2. data[Slot(pos[b])] = order[pos[b] + 1]
    BY <2>1 DEF RingInv, ConsumerOK
  <2>3. Fetching[b] = pos[b] /\ pos[b] # NoTicket
    BY <2>1, <1>c DEF Fetching
  <2>4. Fetching' = [Fetching EXCEPT ![b] = NoTicket]
    BY <2>1, <1>n, <1>c DEF Fetching
  <2>5. Storing' = Storing
    BY <2>1, <1>n, <1>c, <1>p DEF Storing, Producing
  <2> QED BY <2>1, <2>2, <2>3, <2>4, <2>5 DEF Abstract!Fetch, Storing, Fetching
<1>8. CASE UNCHANGED vars
  BY <1>8 DEF vars, Storing, Fetching, Producing
<1> QED
  BY <1>1, <1>2, <1>3, <1>4, <1>5, <1>6, <1>7, <1>8
  DEF Next, Enqueue, Dequeue, Abstract!TQNext

\* The lock-free ring implements the bounded FIFO its users count on.
THEOREM Refinement == Spec => ImplementsTicketQueue
<1>1. Init => Abstract!TQInit
  BY DEF Init, Abstract!TQInit, Threads, Producing
<1> QED
  BY <1>1, RefinementStep, RingCorrect, PTL DEF Spec, ImplementsTicketQueue, Abstract!TQSpec
=============================================================================
