-------------------------- MODULE HeapTimerProofs --------------------------
(***************************************************************************)
(* For any number of timers and any timeout: the heap and its index agree, *)
(* the heap is in order whenever mtx_ is free, and HeapTimer implements    *)
(* the map of deadlines.                                                   *)
(***************************************************************************)
EXTENDS HeapTimer, SequenceTheorems, WellFoundedInduction, TLAPS

(***************************************************************************)
(* The invariant.                                                          *)
(***************************************************************************)

Last == Len(heap) - 1
Positions == 0 .. Last

Due(i) == Node(i).expires

\* The places of a heap of n nodes that have a parent.
Below(n) == 1 .. n - 1

Works == [at : {"idle", "down", "up", "erase"}, i : Nat, n : Nat, from : Nat,
          up : BOOLEAN, erase : BOOLEAN]

\* The node at i is sifted down in a heap of n: only the pairs it is part of
\* may be out of order, its parent is not later than its children, and not
\* later than itself unless siftup_ may follow.
DownInv(i, n) ==
  /\ \A k \in Below(n) : k # i /\ Parent(k) # i => Due(Parent(k)) <= Due(k)
  /\ i > 0 => /\ \A k \in Below(n) : Parent(k) = i => Due(Parent(i)) <= Due(k)
              /\ Due(Parent(i)) <= Due(i) \/ (work.up /\ i = work.from)

\* The node at i is sifted up: only the pair of it and its parent may be out
\* of order, and its parent is not later than its children.
UpInv(i, n) ==
  /\ \A k \in Below(n) : k # i => Due(Parent(k)) <= Due(k)
  /\ i > 0 => \A k \in Below(n) : Parent(k) = i => Due(Parent(i)) <= Due(k)

\* A heap of n nodes that is in order.
Ordered(n) == \A k \in Below(n) : Due(Parent(k)) <= Due(k)

\* What is in order, by the method that holds mtx_; del_ sifts the heap
\* without its last node.
OrderInv ==
  /\ work.at = "idle" => Ordered(Len(heap))
  /\ work.at = "erase" => Ordered(Last)
  /\ work.at \in {"down", "up"} =>
       work.i < work.n /\ work.n = IF work.erase THEN Last ELSE Len(heap)
  /\ work.at = "down" => DownInv(work.i, work.n)
  /\ work.at = "up"   => UpInv(work.i, work.n)

\* No deadline is further away than the timeout.
DueInv == \A i \in Positions : Due(i) <= now + Timeout

\* The last node is the one whose callback tick() has taken: the earliest of
\* all, and less than a millisecond away.
Taken ==
  /\ heap # <<>> /\ Node(Last).id = cb /\ Due(Last) - now < Ms
  /\ \A i \in Positions : Due(Last) <= Due(i)

\* del_ is about to erase the last node.
Erasing == work.at = "erase" \/ (work.at \in {"down", "up"} /\ work.erase)

\* Between taking a callback and running it, tick() is in del_.
FireInv ==
  /\ loop \in {"run", "answer"} => cb = NoRef
  /\ loop = "callback" => cb # NoRef
  /\ loop = "tick" /\ cb # NoRef => Erasing /\ Taken

Base == TypeOK /\ work \in Works /\ RefConsistent

Inv == Base /\ OrderInv /\ DueInv /\ FireInv

(***************************************************************************)
(* Whole milliseconds.                                                     *)
(***************************************************************************)

LEMMA MillisOfNat ==
  ASSUME NEW d \in Nat
  PROVE  d \div Ms \in Nat /\ d \div Ms <= d /\ (d \div Ms <= 0 <=> d < Ms)
  BY TimerAssumption

\* The cast counts as none what is less than a millisecond, of either sign,
\* and never makes a wait longer.
LEMMA MillisIs ==
  ASSUME NEW d \in Int
  PROVE  /\ Millis(d) <= 0 <=> d < Ms
         /\ (IF Millis(d) < 0 THEN 0 ELSE Millis(d)) = IF d < 0 THEN 0 ELSE d \div Ms
         /\ d >= 0 => d \div Ms \in 0 .. d
  <1>1. CASE d < 0
    <2>1. PICK q \in Nat : q = (-d) \div Ms
      BY <1>1, MillisOfNat
    <2>2. Millis(d) = -q /\ Ms \in Nat
      BY <1>1, <2>1, TimerAssumption DEF Millis
    <2> QED BY <1>1, <2>2
  <1>2. CASE d >= 0
    <2>1. d \in Nat
      BY <1>2
    <2>2. PICK q \in Nat : q = d \div Ms /\ q <= d /\ (q <= 0 <=> d < Ms)
      BY <2>1, MillisOfNat
    <2>3. Millis(d) = q
      BY <2>1, <2>2 DEF Millis
    <2> QED BY <1>2, <2>2, <2>3
  <1> QED BY <1>1, <1>2

(***************************************************************************)
(* Arithmetic of the tree, and least elements.                             *)
(***************************************************************************)

LEMMA Family ==
  ASSUME NEW k \in Nat \ {0}
  PROVE  /\ Parent(k) \in Nat /\ Parent(k) < k
         /\ k = 2 * Parent(k) + 1 \/ k = 2 * Parent(k) + 2
  BY DEF Parent

\* The children of i in a heap of n nodes.
LEMMA Children ==
  ASSUME NEW i \in Nat, NEW n \in Nat, NEW k \in Below(n), Parent(k) = i
  PROVE  k \in Nat \ {0} /\ k < n /\ k \in {2 * i + 1, 2 * i + 2} /\ 2 * i + 1 < n
  <1>1. k \in Nat \ {0} /\ k < n
    BY DEF Below
  <1>2. k = 2 * i + 1 \/ k = 2 * i + 2
    BY <1>1, Family
  <1> QED BY <1>1, <1>2

LEMMA Least ==
  ASSUME NEW T, T \subseteq Nat, T # {}
  PROVE  \E n \in T : \A m \in T : n <= m
  <1> DEFINE R == OpToRel(<, Nat)
  <1>1. \E n \in T : \A m \in T : <<m, n>> \notin R
    <2>1. IsWellFoundedOn(R, Nat)
      BY NatLessThanWellFounded
    <2> HIDE DEF R
    <2> QED BY <2>1, WFMin
  <1>2. \A m, n \in Nat : m < n => <<m, n>> \in R
    BY DEF OpToRel
  <1> HIDE DEF R
  <1>3. \A m, n \in Nat : <<m, n>> \notin R => n <= m
    BY <1>2
  <1> QED BY <1>1, <1>3

\* The front of a heap that is in order is the earliest of all: the node that
\* would be the first earlier one has a parent.
LEMMA FrontIsEarliest ==
  ASSUME heap \in Seq(Nodes), Ordered(Len(heap))
  PROVE  \A k \in Positions : Due(0) <= Due(k)
  <1>1. Len(heap) \in Nat /\ \A k \in Positions : Due(k) \in Nat
    <2>1. \A k \in Positions : Node(k) \in Nodes
      BY LenProperties, ElementOfSeq DEF Positions, Last, Node
    <2> QED BY <2>1, LenProperties DEF Due, Nodes
  <1> DEFINE T == {k \in Positions : ~(Due(0) <= Due(k))}
  <1>2. SUFFICES ASSUME T # {} PROVE FALSE
    OBVIOUS
  <1>3. T \subseteq Nat
    BY <1>1 DEF Positions, Last
  <1>4. PICK k \in T : \A m \in T : k <= m
    <2> HIDE DEF T
    <2> QED BY <1>2, <1>3, Least
  <1>5. k # 0 /\ k \in Nat
    BY <1>1, <1>3
  <1>6. Parent(k) \in Positions /\ Parent(k) < k
    BY <1>1, <1>5, Family DEF Positions, Last
  <1>7. Parent(k) \notin T
    BY <1>1, <1>4, <1>5, <1>6 DEF Positions, Last
  <1>8. Due(Parent(k)) <= Due(k)
    BY <1>1, <1>5 DEF Ordered, Below, Positions, Last
  <1>9. Due(0) <= Due(Parent(k)) /\ ~(Due(0) <= Due(k)) /\ k \in Positions
    BY <1>4, <1>6, <1>7
  <1>10. Due(0) \in Nat /\ Due(Parent(k)) \in Nat /\ Due(k) \in Nat
    BY <1>1, <1>6, <1>9 DEF Positions, Last
  <1> QED BY <1>8, <1>9, <1>10

(***************************************************************************)
(* Two nodes change places.                                                *)
(***************************************************************************)

Deadline == [x \in Ids |-> IF ref[x] = NoRef THEN NoRef ELSE Due(ref[x])]

\* The types of what Base speaks about.
LEMMA BaseTypes ==
  ASSUME Base
  PROVE  /\ heap \in Seq(Nodes) /\ Len(heap) \in Nat /\ now \in Nat
         /\ \A k \in Positions : /\ Node(k) \in Nodes /\ Node(k).id \in Ids
                                 /\ Due(k) \in Nat /\ ref[Node(k).id] = k
         /\ \A x \in Ids : ref[x] # NoRef =>
              ref[x] \in Positions /\ Node(ref[x]).id = x
         /\ \A k \in Positions : k # NoRef /\ k \in Nat
         /\ ref \in [Ids -> Positions \cup {NoRef}]
         /\ work.i \in Nat /\ work.n \in Nat
  <1>1. heap \in Seq(Nodes) /\ Len(heap) \in Nat /\ now \in Nat
    BY LenProperties, TimerAssumption DEF Base, TypeOK
  <1>2. \A k \in Positions : Node(k) \in Nodes /\ k # NoRef /\ k \in Nat
    BY <1>1, ElementOfSeq, TimerAssumption DEF Positions, Last, Node
  <1> QED BY <1>1, <1>2 DEF Base, TypeOK, RefConsistent, Positions, Last, Nodes, Due, Works

LEMMA SwapIs ==
  ASSUME Base, NEW i \in Positions, NEW j \in Positions, i # j, Swap(i, j)
  PROVE  /\ heap' \in Seq(Nodes) /\ Len(heap') = Len(heap)
         /\ heap'[i + 1] = Node(j) /\ heap'[j + 1] = Node(i)
         /\ \A k \in Positions : k # i /\ k # j => heap'[k + 1] = Node(k)
         /\ ref' \in [Ids -> Positions \cup {NoRef}]
         /\ RefConsistent'
         /\ Deadline' = Deadline
  <1>1. /\ i + 1 \in 1 .. Len(heap) /\ j + 1 \in 1 .. Len(heap) /\ i + 1 # j + 1
        /\ \A k \in Positions : k + 1 \in 1 .. Len(heap)
    BY BaseTypes DEF Positions, Last
  <1>2. /\ heap' = [heap EXCEPT ![i + 1] = Node(j), ![j + 1] = Node(i)]
        /\ ref' = [ref EXCEPT ![Node(j).id] = i, ![Node(i).id] = j]
    BY DEF Swap, SwappedRef
  <1>3. heap' \in Seq(Nodes) /\ Len(heap') = Len(heap)
    <2> DEFINE h == [heap EXCEPT ![i + 1] = Node(j)]
    <2>1. h \in Seq(Nodes) /\ Len(h) = Len(heap)
      BY <1>1, BaseTypes, ExceptSeq
    <2>2. heap' = [h EXCEPT ![j + 1] = Node(i)]
      BY <1>2
    <2> HIDE DEF h
    <2> QED BY <1>1, <2>1, <2>2, BaseTypes, ExceptSeq
  <1>4. /\ heap'[i + 1] = Node(j) /\ heap'[j + 1] = Node(i)
        /\ \A k \in Positions : k # i /\ k # j => heap'[k + 1] = Node(k)
    <2>1. heap \in [1 .. Len(heap) -> Nodes] /\ Positions \subseteq Nat
      BY BaseTypes, LenProperties
    <2> QED BY <1>1, <1>2, <2>1 DEF Node
  <1>5. /\ Node(i).id \in Ids /\ Node(j).id \in Ids /\ Node(i).id # Node(j).id
        /\ ref' \in [Ids -> Positions \cup {NoRef}]
        /\ ref'[Node(i).id] = j /\ ref'[Node(j).id] = i
        /\ \A x \in Ids : x # Node(i).id /\ x # Node(j).id => ref'[x] = ref[x]
    BY <1>2, BaseTypes
  <1>6. Positions' = Positions
    BY <1>3 DEF Positions, Last
  <1>7. \A k \in Positions : ref'[heap'[k + 1].id] = k
    <2> TAKE k \in Positions
    <2>1. CASE k = i
      BY <2>1, <1>4, <1>5
    <2>2. CASE k = j
      BY <2>2, <1>4, <1>5
    <2>3. CASE k # i /\ k # j
      <3>1. Node(k).id # Node(i).id /\ Node(k).id # Node(j).id
        BY <2>3, BaseTypes
      <3> QED BY <2>3, <3>1, <1>4, <1>5, BaseTypes
    <2> QED BY <2>1, <2>2, <2>3
  <1>8. ASSUME NEW x \in Ids, ref'[x] # NoRef
        PROVE  ref'[x] \in Positions /\ heap'[ref'[x] + 1].id = x
    <2>1. CASE x = Node(i).id
      BY <2>1, <1>4, <1>5
    <2>2. CASE x = Node(j).id
      BY <2>2, <1>4, <1>5
    <2>3. CASE x # Node(i).id /\ x # Node(j).id
      <3>1. ref[x] \in Positions /\ Node(ref[x]).id = x
        BY <1>8, <1>5, <2>3, BaseTypes
      <3>2. ref[x] # i /\ ref[x] # j
        BY <2>3, <3>1
      <3> QED BY <3>1, <3>2, <2>3, <1>4, <1>5
    <2> QED BY <2>1, <2>2, <2>3
  <1>9. RefConsistent'
    BY <1>3, <1>6, <1>7, <1>8, BaseTypes DEF RefConsistent, Positions, Last, Node
  <1>10. ASSUME NEW x \in Ids
         PROVE  Deadline'[x] = Deadline[x]
    <2>1. CASE x = Node(i).id
      BY <2>1, <1>4, <1>5, BaseTypes DEF Deadline, Due, Node
    <2>2. CASE x = Node(j).id
      BY <2>2, <1>4, <1>5, BaseTypes DEF Deadline, Due, Node
    <2>3. CASE x # Node(i).id /\ x # Node(j).id
      <3>1. ref'[x] = ref[x]
        BY <1>5, <2>3
      <3>2. ref[x] # NoRef => heap'[ref[x] + 1] = Node(ref[x])
        <4>1. ref[x] # NoRef => ref[x] \in Positions /\ Node(ref[x]).id = x
          BY BaseTypes
        <4> QED BY <4>1, <2>3, <1>4
      <3> QED BY <3>1, <3>2 DEF Deadline, Due, Node
    <2> QED BY <2>1, <2>2, <2>3
  <1>11. Deadline' = Deadline
    BY <1>10 DEF Deadline
  <1> QED BY <1>3, <1>4, <1>5, <1>9, <1>11

\* The deadlines after a swap; a swap inside the part of the heap that del_
\* keeps leaves the last node alone.
LEMMA SwapDue ==
  ASSUME Base, DueInv, NEW i \in Positions, NEW j \in Positions, i # j, Swap(i, j),
         UNCHANGED <<now, cb>>
  PROVE  /\ \A k \in Positions :
              Due(k)' = IF k = i THEN Due(j) ELSE IF k = j THEN Due(i) ELSE Due(k)
         /\ DueInv' /\ Positions' = Positions /\ Last' = Last
         /\ Taken /\ i < Last /\ j < Last => Taken'
  <1>1. \A k \in Positions :
          Due(k)' = IF k = i THEN Due(j) ELSE IF k = j THEN Due(i) ELSE Due(k)
    BY SwapIs DEF Due, Node
  <1>2. Positions' = Positions /\ Last' = Last
    BY SwapIs DEF Positions, Last
  <1>3. DueInv'
    BY <1>1, <1>2 DEF DueInv
  <1>4. ASSUME Taken, i < Last, j < Last PROVE Taken'
    <2>1. Last \in Positions /\ Len(heap) # 0
      BY <1>4, BaseTypes, EmptySeq DEF Positions, Last
    <2>2. Last \in Nat /\ Last # i /\ Last # j
      BY <1>4, <2>1, BaseTypes DEF Positions
    <2>3. heap'[Last + 1] = Node(Last) /\ Due(Last)' = Due(Last)
      BY <1>1, <1>2, <2>1, <2>2, SwapIs DEF Due, Node
    <2>4. heap' # <<>>
      BY <2>1, SwapIs, EmptySeq
    <2> QED BY <1>1, <1>2, <1>4, <2>1, <2>3, <2>4 DEF Taken, Node, Due
  <1> QED BY <1>1, <1>2, <1>3, <1>4

(***************************************************************************)
(* siftdown_ and siftup_                                                   *)
(***************************************************************************)

\* siftdown_ goes on with the earlier child.
LEMMA ChildIs ==
  ASSUME Base, NEW i \in Nat, NEW n \in Nat, n <= Len(heap), 2 * i + 1 < n
  PROVE  LET j == Child(i, n) IN
         /\ j \in i + 1 .. n - 1 /\ Parent(j) = i
         /\ \A k \in Below(n) : Parent(k) = i => Due(j) <= Due(k)
  <1> DEFINE j == Child(i, n)
  <1>1. /\ j \in {2 * i + 1, 2 * i + 2} /\ j < n
        /\ 2 * i + 2 < n => Due(j) <= Due(2 * i + 1) /\ Due(j) <= Due(2 * i + 2)
    <2>1. 2 * i + 1 \in Positions /\ (2 * i + 2 < n => 2 * i + 2 \in Positions)
      BY BaseTypes DEF Positions, Last
    <2>2. Due(2 * i + 1) \in Nat /\ (2 * i + 2 < n => Due(2 * i + 2) \in Nat)
      BY <2>1, BaseTypes
    <2>3. (2 * i + 1) + 1 = 2 * i + 2
      OBVIOUS
    <2> QED BY <2>2, <2>3 DEF Child, Earlier, Due
  <1>2. Parent(2 * i + 1) = i /\ Parent(2 * i + 2) = i
    BY DEF Parent
  <1>3. ASSUME NEW k \in Below(n), Parent(k) = i
        PROVE  k \in {2 * i + 1, 2 * i + 2} /\ k < n /\ k \in Positions
    BY <1>3, Children, BaseTypes DEF Positions, Last
  <1>4. ASSUME NEW k \in Below(n), Parent(k) = i
        PROVE  Due(j) <= Due(k)
    <2>1. CASE 2 * i + 2 < n
      BY <1>1, <1>3, <1>4, <2>1
    <2>2. CASE ~(2 * i + 2 < n)
      <3>1. k = 2 * i + 1 /\ j = 2 * i + 1 /\ Due(k) \in Nat
        BY <1>1, <1>3, <1>4, <2>2, BaseTypes
      <3> QED BY <3>1
    <2> QED BY <2>1, <2>2
  <1>5. j \in i + 1 .. n - 1
    BY <1>1
  <1> QED BY <1>1, <1>2, <1>4, <1>5

\* What Base takes from a step of a sift loop.
LEMMA SiftBase ==
  ASSUME Base, UNCHANGED <<now, loop, cb, wait>>,
         heap' \in Seq(Nodes), Len(heap') = Len(heap),
         ref' \in [Ids -> Positions \cup {NoRef}], RefConsistent',
         work' \in Works,
         work'.at \in {"down", "up"} => work'.i < work'.n /\ work'.n <= Len(heap),
         work'.at = "erase" => heap # <<>>
  PROVE  Base'
  <1>1. heap # <<>> => heap' # <<>>
    BY BaseTypes, EmptySeq
  <1>2. /\ ref' \in [Ids -> (0 .. Len(heap') - 1) \cup {NoRef}]
        /\ work'.at \in {"idle", "down", "up", "erase"}
    BY DEF Positions, Last, Works
  <1> QED BY <1>1, <1>2 DEF Base, TypeOK

LEMMA DownStepInv ==
  ASSUME Inv, DownStep
  PROVE  Inv' /\ Deadline' = Deadline
  <1>0. /\ Base /\ OrderInv /\ DueInv /\ FireInv /\ work.at = "down" /\ work \in Works
        /\ UNCHANGED <<now, loop, cb, wait>>
    BY DEF Inv, DownStep, Base
  <1>i. PICK i \in Nat, n \in Nat : i = work.i /\ n = work.n
    BY <1>0, BaseTypes
  <1>j. PICK j \in Nat : j = Child(i, n)
    BY DEF Child
  <1>1. /\ i \in Nat /\ n \in Nat /\ i < n /\ n <= Len(heap) /\ i \in Positions
        /\ n = IF work.erase THEN Last ELSE Len(heap)
        /\ \A k \in Below(n) : k \in Positions /\ k \in Nat \ {0}
    BY <1>0, <1>i, BaseTypes DEF OrderInv, Positions, Last, Below
  <1>2. DownInv(i, n)
    BY <1>0, <1>i DEF OrderInv
  <1>3. CASE 2 * i + 1 < n /\ ~Earlier(i, j)
    <2>1. Swap(i, j) /\ work' = [work EXCEPT !.i = j]
      BY <1>3, <1>i, <1>j DEF DownStep
    <2>2. /\ j \in i + 1 .. n - 1 /\ Parent(j) = i
          /\ \A k \in Below(n) : Parent(k) = i => Due(j) <= Due(k)
      BY <1>0, <1>1, <1>3, <1>j, ChildIs
    <2>3. j \in Positions /\ i # j /\ j \in Nat /\ j < n /\ j \in Below(n)
      BY <1>1, <2>2, BaseTypes DEF Positions, Last, Below
    <2>4. Due(j) <= Due(i) /\ Due(i) \in Nat /\ Due(j) \in Nat
      BY <1>0, <1>1, <1>3, <2>3, BaseTypes DEF Earlier, Due
    <2>5. \A k \in Positions :
            Due(k)' = IF k = i THEN Due(j) ELSE IF k = j THEN Due(i) ELSE Due(k)
      BY <1>0, <1>1, <2>1, <2>3, SwapDue
    <2>6. work' \in Works /\ work'.i = j /\ work'.n = n /\ work'.at = "down"
          /\ work'.erase = work.erase
      BY <1>0, <1>i, <2>1, <2>3 DEF Works
    <2>7. Base' /\ Deadline' = Deadline
      BY <1>0, <1>1, <2>1, <2>3, <2>6, SwapIs, SiftBase
    <2>8. ASSUME NEW k \in Below(n), k # j, Parent(k) # j
          PROVE  Due(Parent(k))' <= Due(k)'
      <3>0. k \in Positions /\ k \in Nat \ {0} /\ Parent(k) \in Nat /\ Parent(k) < k
            /\ Parent(k) \in Positions
        BY <1>1, Family, BaseTypes DEF Positions, Last
      <3>1. CASE k = i
        <4>1. Due(Parent(i)) <= Due(j)
          BY <1>2, <2>2, <2>3, <3>0, <3>1 DEF DownInv
        <4>2. Parent(k) # i /\ Parent(k) # j
          BY <2>2, <3>0, <3>1
        <4> QED BY <2>5, <3>0, <3>1, <4>1, <4>2
      <3>2. CASE Parent(k) = i
        <4>1. k # i
          BY <3>0, <3>2
        <4> QED BY <2>2, <2>5, <2>8, <3>0, <3>2, <4>1
      <3>3. CASE k # i /\ Parent(k) # i
        BY <1>2, <2>5, <2>8, <3>0, <3>3 DEF DownInv
      <3> QED BY <3>1, <3>2, <3>3
    <2>9. ASSUME NEW k \in Below(n), Parent(k) = j
          PROVE  Due(Parent(j))' <= Due(k)'
      <3>0. k \in Positions /\ k \in Nat \ {0} /\ j < k
        BY <1>1, <2>9, Family
      <3>1. k # i /\ k # j /\ Parent(k) # i
        BY <1>1, <2>2, <2>9, <3>0
      <3>2. Due(j) <= Due(k)
        BY <1>2, <2>9, <3>1 DEF DownInv
      <3> QED BY <1>1, <2>2, <2>5, <3>0, <3>1, <3>2
    <2>10. Due(Parent(j))' <= Due(j)'
      BY <1>1, <2>2, <2>3, <2>4, <2>5
    <2>11. OrderInv'
      <3>1. DownInv(j, n)'
        BY <2>8, <2>9, <2>10 DEF DownInv, Below
      <3>2. n = IF work.erase THEN Last' ELSE Len(heap')
        BY <1>0, <1>1, <2>1, <2>3, SwapIs DEF Last
      <3> QED BY <2>3, <2>6, <3>1, <3>2 DEF OrderInv
    <2>12. DueInv'
      BY <1>0, <1>1, <2>1, <2>3, SwapDue
    <2>13. FireInv'
      <3>1. ASSUME loop = "tick", cb # NoRef
            PROVE  Erasing' /\ Taken'
        <4>1. work.erase /\ Taken
          BY <1>0, <3>1 DEF FireInv, Erasing
        <4>2. i < Last /\ j < Last
          BY <1>1, <2>3, <4>1
        <4> QED BY <1>0, <1>1, <2>1, <2>3, <2>6, <4>1, <4>2, SwapDue DEF Erasing
      <3> QED BY <1>0, <3>1 DEF FireInv
    <2> QED BY <2>7, <2>11, <2>12, <2>13 DEF Inv
  <1>4. CASE ~(2 * i + 1 < n /\ ~Earlier(i, j))
    <2>1. /\ UNCHANGED <<heap, ref>>
          /\ IF work.up /\ i = work.from
               THEN work' = [work EXCEPT !.at = "up"]
               ELSE Finish
      BY <1>4, <1>i, <1>j DEF DownStep
    <2>2. \A k \in Below(n) : Parent(k) = i => Due(i) <= Due(k)
      <3> SUFFICES ASSUME NEW k \in Below(n), Parent(k) = i
                   PROVE  Due(i) <= Due(k)
        OBVIOUS
      <3>2. 2 * i + 1 < n
        BY Children
      <3>3. j \in i + 1 .. n - 1 /\ Due(j) <= Due(k)
        BY <1>0, <1>1, <1>j, <3>2, ChildIs
      <3>5. j \in Positions
        BY <1>1, <3>3, BaseTypes DEF Positions, Last
      <3>4. Due(i) <= Due(j)
        BY <1>0, <1>1, <1>4, <1>j, <3>2, <3>5, BaseTypes DEF Earlier, Due
      <3>6. Due(i) \in Nat /\ Due(j) \in Nat /\ Due(k) \in Nat
        BY <1>0, <1>1, <3>5, BaseTypes
      <3> QED BY <3>3, <3>4, <3>6
    <2>3. Deadline' = Deadline /\ RefConsistent'
      BY <1>0, <2>1 DEF Deadline, Due, Node, Base, RefConsistent
    <2>4. DueInv'
      BY <1>0, <2>1 DEF DueInv, Positions, Last, Due, Node
    <2>5. Taken => Taken'
      BY <1>0, <2>1 DEF Taken, Positions, Last, Due, Node
    <2>6. heap' \in Seq(Nodes) /\ ref' \in [Ids -> Positions \cup {NoRef}]
      BY <1>0, <2>1, BaseTypes
    <2>7. CASE work.up /\ i = work.from
      <3>1. /\ work' = [work EXCEPT !.at = "up"] /\ work' \in Works
            /\ work'.at = "up" /\ work'.i = i /\ work'.n = n /\ work'.erase = work.erase
        BY <1>0, <2>1, <1>i, <2>7 DEF Works
      <3>2. Base'
        BY <1>0, <1>1, <2>1, <2>3, <2>6, <3>1, SiftBase
      <3>3. UpInv(i, n)
        BY <1>2, <2>2 DEF DownInv, UpInv
      <3>4. OrderInv'
        BY <1>1, <2>1, <3>1, <3>3 DEF OrderInv, UpInv, Due, Node, Last
      <3>5. FireInv'
        BY <1>0, <2>5, <3>1 DEF FireInv, Erasing
      <3> QED BY <2>3, <2>4, <3>2, <3>4, <3>5 DEF Inv
    <2>8. CASE ~(work.up /\ i = work.from)
      <3>1. work' = IF work.erase THEN [Idle EXCEPT !.at = "erase"] ELSE Idle
        BY <2>1, <2>8 DEF Finish
      <3>2. /\ work' \in Works /\ work'.at = IF work.erase THEN "erase" ELSE "idle"
        BY <1>0, <3>1 DEF Works, Idle
      <3>3. heap # <<>>
        BY <1>0, <1>1, BaseTypes, EmptySeq
      <3>4. Base'
        BY <1>0, <1>1, <2>1, <2>3, <2>6, <3>2, <3>3, SiftBase
      <3>5. Ordered(n)
        <4> SUFFICES ASSUME NEW k \in Below(n) PROVE Due(Parent(k)) <= Due(k)
          BY DEF Ordered
        <4>1. CASE k = i
          BY <1>1, <1>2, <2>8, <4>1 DEF DownInv
        <4>2. CASE Parent(k) = i
          BY <2>2, <4>2
        <4>3. CASE k # i /\ Parent(k) # i
          BY <1>2, <4>3 DEF DownInv
        <4> QED BY <4>1, <4>2, <4>3
      <3>6. OrderInv'
        BY <1>1, <2>1, <3>2, <3>5 DEF OrderInv, Ordered, Due, Node, Last
      <3>7. FireInv'
        BY <1>0, <2>5, <3>2 DEF FireInv, Erasing
      <3> QED BY <2>3, <2>4, <3>4, <3>6, <3>7 DEF Inv
    <2> QED BY <2>7, <2>8
  <1> QED BY <1>3, <1>4

LEMMA UpStepInv ==
  ASSUME Inv, UpStep
  PROVE  Inv' /\ Deadline' = Deadline
  <1>0. /\ Base /\ OrderInv /\ DueInv /\ FireInv /\ work.at = "up" /\ work \in Works
        /\ UNCHANGED <<now, loop, cb, wait>>
    BY DEF Inv, UpStep, Base
  <1>i. PICK i \in Nat, n \in Nat : i = work.i /\ n = work.n
    BY <1>0, BaseTypes
  <1>j. PICK j \in Int : j = Parent(i)
    BY DEF Parent
  <1>1. /\ i < n /\ n <= Len(heap) /\ i \in Positions
        /\ n = IF work.erase THEN Last ELSE Len(heap)
        /\ \A k \in Below(n) : k \in Positions /\ k \in Nat \ {0}
    BY <1>0, <1>i, BaseTypes DEF OrderInv, Positions, Last, Below
  <1>2. UpInv(i, n)
    BY <1>0, <1>i DEF OrderInv
  <1>3. CASE i > 0 /\ ~Earlier(j, i)
    <2>1. Swap(i, j) /\ work' = [work EXCEPT !.i = j]
      BY <1>3, <1>i, <1>j DEF UpStep
    <2>2. j \in Nat /\ j < i /\ j \in Positions /\ i # j /\ j < n /\ i \in Below(n)
      BY <1>1, <1>3, <1>j, Family, BaseTypes DEF Positions, Last, Below
    <2>3. Due(i) <= Due(j) /\ Due(i) \in Nat /\ Due(j) \in Nat
      BY <1>0, <1>1, <1>3, <2>2, BaseTypes DEF Earlier, Due
    <2>4. \A k \in Positions :
            Due(k)' = IF k = i THEN Due(j) ELSE IF k = j THEN Due(i) ELSE Due(k)
      BY <1>0, <1>1, <2>1, <2>2, SwapDue
    <2>5. /\ work' \in Works /\ work'.i = j /\ work'.n = n /\ work'.at = "up"
          /\ work'.erase = work.erase
      BY <1>0, <1>i, <2>1, <2>2 DEF Works
    <2>6. Base' /\ Deadline' = Deadline
      BY <1>0, <1>1, <2>1, <2>2, <2>5, SwapIs, SiftBase
    <2>7. j > 0 => /\ Parent(j) \in Positions /\ Parent(j) # i /\ Parent(j) # j
                   /\ Due(Parent(j)) <= Due(j) /\ Due(Parent(j)) \in Nat
      <3> SUFFICES ASSUME j > 0
                   PROVE  /\ Parent(j) \in Positions /\ Parent(j) # i /\ Parent(j) # j
                          /\ Due(Parent(j)) <= Due(j) /\ Due(Parent(j)) \in Nat
        OBVIOUS
      <3>1. Parent(j) \in Nat /\ Parent(j) < j
        BY <2>2, Family
      <3>2. Parent(j) \in Positions
        BY <2>2, <3>1, BaseTypes DEF Positions, Last
      <3>3. j \in Below(n) /\ j # i
        BY <1>1, <2>2 DEF Below
      <3> QED BY <1>0, <1>2, <2>2, <3>1, <3>2, <3>3, BaseTypes DEF UpInv
    <2>8. ASSUME NEW k \in Below(n), k # j
          PROVE  Due(Parent(k))' <= Due(k)'
      <3>0. /\ k \in Positions /\ k \in Nat \ {0} /\ Parent(k) \in Nat /\ Parent(k) < k
            /\ Parent(k) \in Positions /\ Due(k) \in Nat /\ Due(Parent(k)) \in Nat
        <4>1. k \in Positions /\ k \in Nat \ {0} /\ Parent(k) \in Nat /\ Parent(k) < k
          BY <1>1, Family
        <4>2. Parent(k) \in Positions
          BY <4>1, BaseTypes DEF Positions, Last
        <4> QED BY <1>0, <4>1, <4>2, BaseTypes
      <3>1. CASE k = i
        <4>1. Due(k)' = Due(j) /\ Due(Parent(k))' = Due(i)
          BY <1>j, <2>2, <2>4, <3>0, <3>1
        <4> QED BY <2>3, <4>1
      <3>2. CASE k # i /\ Parent(k) = j
        <4>1. Due(j) <= Due(k)
          BY <1>2, <3>2 DEF UpInv
        <4>2. Due(k)' = Due(k) /\ Due(Parent(k))' = Due(i)
          BY <2>2, <2>4, <2>8, <3>0, <3>2
        <4> QED BY <2>3, <3>0, <4>1, <4>2
      <3>3. CASE k # i /\ Parent(k) = i
        <4>1. Due(j) <= Due(k)
          BY <1>2, <1>3, <1>j, <3>3 DEF UpInv
        <4> QED BY <2>2, <2>4, <2>8, <3>0, <3>3, <4>1
      <3>4. CASE k # i /\ Parent(k) # j /\ Parent(k) # i
        BY <1>2, <2>4, <2>8, <3>0, <3>4 DEF UpInv
      <3> QED BY <3>1, <3>2, <3>3, <3>4
    <2>9. ASSUME NEW k \in Below(n), Parent(k) = j, j > 0
          PROVE  Due(Parent(j))' <= Due(k)'
      <3>0. k \in Positions /\ k \in Nat \ {0} /\ j < k /\ Due(k) \in Nat
        BY <1>0, <1>1, <2>9, Family, BaseTypes
      <3>1. Due(Parent(j))' = Due(Parent(j))
        BY <2>4, <2>7, <2>9
      <3>2. CASE k = i
        BY <1>1, <2>4, <2>7, <2>9, <3>1, <3>2
      <3>3. CASE k # i
        <4>1. Due(j) <= Due(k) /\ Due(k)' = Due(k)
          BY <1>2, <2>4, <2>9, <3>0, <3>3 DEF UpInv
        <4> QED BY <2>3, <2>7, <2>9, <3>0, <3>1, <4>1
      <3> QED BY <3>2, <3>3
    <2>10. OrderInv'
      <3>1. UpInv(j, n)'
        BY <2>8, <2>9 DEF UpInv, Below
      <3>2. n = IF work.erase THEN Last' ELSE Len(heap')
        BY <1>0, <1>1, <2>1, <2>2, SwapIs DEF Last
      <3> QED BY <2>2, <2>5, <3>1, <3>2 DEF OrderInv
    <2>11. DueInv'
      BY <1>0, <1>1, <2>1, <2>2, SwapDue
    <2>12. FireInv'
      <3>1. ASSUME loop = "tick", cb # NoRef
            PROVE  Erasing' /\ Taken'
        <4>1. work.erase /\ Taken
          BY <1>0, <3>1 DEF FireInv, Erasing
        <4>2. i < Last /\ j < Last
          BY <1>1, <2>2, <4>1
        <4> QED BY <1>0, <1>1, <2>1, <2>2, <2>5, <4>1, <4>2, SwapDue DEF Erasing
      <3> QED BY <1>0, <3>1 DEF FireInv
    <2> QED BY <2>6, <2>10, <2>11, <2>12 DEF Inv
  <1>4. CASE ~(i > 0 /\ ~Earlier(j, i))
    <2>1. UNCHANGED <<heap, ref>> /\ Finish
      BY <1>4, <1>i, <1>j DEF UpStep
    <2>2. i > 0 => Due(j) <= Due(i)
      <3> SUFFICES ASSUME i > 0 PROVE Due(j) <= Due(i)
        OBVIOUS
      <3>1. j \in Positions
        BY <1>1, <1>j, Family, BaseTypes DEF Positions, Last
      <3>2. Due(j) \in Nat /\ Due(i) \in Nat
        BY <1>0, <1>1, <3>1, BaseTypes
      <3> QED BY <1>4, <3>2 DEF Earlier, Due
    <2>3. Ordered(n)
      <3> SUFFICES ASSUME NEW k \in Below(n) PROVE Due(Parent(k)) <= Due(k)
        BY DEF Ordered
      <3>1. CASE k = i
        BY <1>1, <1>j, <2>2, <3>1
      <3> QED BY <1>2, <3>1 DEF UpInv
    <2>4. work' = IF work.erase THEN [Idle EXCEPT !.at = "erase"] ELSE Idle
      BY <2>1 DEF Finish
    <2>5. work' \in Works /\ work'.at = IF work.erase THEN "erase" ELSE "idle"
      BY <1>0, <2>4 DEF Works, Idle
    <2>6. Deadline' = Deadline /\ RefConsistent'
      BY <1>0, <2>1 DEF Deadline, Due, Node, Base, RefConsistent
    <2>7. DueInv'
      BY <1>0, <2>1 DEF DueInv, Positions, Last, Due, Node
    <2>8. Taken => Taken'
      BY <1>0, <2>1 DEF Taken, Positions, Last, Due, Node
    <2>9. /\ heap' \in Seq(Nodes) /\ ref' \in [Ids -> Positions \cup {NoRef}]
          /\ heap # <<>>
      BY <1>0, <1>1, <2>1, BaseTypes, EmptySeq
    <2>10. Base'
      BY <1>0, <2>1, <2>5, <2>6, <2>9, SiftBase
    <2>11. OrderInv'
      BY <1>1, <2>1, <2>3, <2>5 DEF OrderInv, Ordered, Due, Node, Last
    <2>12. FireInv'
      BY <1>0, <2>5, <2>8 DEF FireInv, Erasing
    <2> QED BY <2>6, <2>7, <2>10, <2>11, <2>12 DEF Inv
  <1> QED BY <1>3, <1>4

(***************************************************************************)
(* del_ and its callers                                                    *)
(***************************************************************************)

\* The node moves to the end of the heap; the rest is out of order at most
\* around the place it left.
LEMMA DelIs ==
  ASSUME Inv, Free, NEW i \in Positions, Del(i), now' = now
  PROVE  /\ heap' \in Seq(Nodes) /\ Len(heap') = Len(heap)
         /\ ref' \in [Ids -> Positions \cup {NoRef}] /\ RefConsistent'
         /\ work' \in Works /\ OrderInv' /\ DueInv' /\ Erasing'
         /\ heap'[Len(heap)] = Node(i)
         /\ \A k \in Positions : \E m \in Positions : heap'[k + 1] = Node(m)
         /\ Deadline' = Deadline
  <1>0. /\ Base /\ OrderInv /\ DueInv /\ FireInv /\ work.at = "idle" /\ Ordered(Len(heap))
        /\ Len(heap) \in Nat /\ Last \in Positions /\ Last \in Nat /\ i \in Nat /\ i <= Last
        /\ Len(heap) = Last + 1
    BY BaseTypes DEF Inv, Free, OrderInv, Positions, Last
  <1>n. PICK n \in Nat : n = Last
    BY <1>0
  <1>1. CASE i < n
    <2>1. /\ Swap(i, n)
          /\ work' = [at |-> "down", i |-> i, n |-> n, from |-> i, up |-> TRUE, erase |-> TRUE]
      BY <1>0, <1>1, <1>n DEF Del, Last, SiftDown, DelSiftsUp
    <2>2. n \in Positions /\ i # n
      BY <1>0, <1>1, <1>n
    <2>3. /\ heap' \in Seq(Nodes) /\ Len(heap') = Len(heap)
          /\ ref' \in [Ids -> Positions \cup {NoRef}] /\ RefConsistent'
          /\ heap'[i + 1] = Node(n) /\ heap'[n + 1] = Node(i)
          /\ \A k \in Positions : k # i /\ k # n => heap'[k + 1] = Node(k)
          /\ Deadline' = Deadline
      BY <1>0, <2>1, <2>2, SwapIs
    <2>4. work' \in Works /\ Erasing'
      <3>1. work' \in Works
        BY <1>0, <1>n, <2>1 DEF Works
      <3>2. work'.at = "down" /\ work'.erase
        BY <2>1
      <3> QED BY <3>1, <3>2 DEF Erasing
    <2>5. \A k \in Positions : \E m \in Positions : heap'[k + 1] = Node(m)
      BY <2>2, <2>3
    <2>6. \A k \in Positions :
            Due(k)' = IF k = i THEN Due(n) ELSE IF k = n THEN Due(i) ELSE Due(k)
      BY <2>2, <2>3 DEF Due, Node
    <2>7. DueInv'
      BY <1>0, <2>2, <2>3, <2>6 DEF DueInv, Positions, Last
    <2>8. \A k \in Below(n) : /\ k \in Positions /\ k \in Nat \ {0} /\ k # n /\ k < n
                              /\ Parent(k) \in Positions /\ Parent(k) < k
                              /\ Due(Parent(k)) <= Due(k)
                              /\ Due(k) \in Nat /\ Due(Parent(k)) \in Nat
      <3> SUFFICES ASSUME NEW k \in Below(n)
                   PROVE  /\ k \in Positions /\ k \in Nat \ {0} /\ k # n /\ k < n
                          /\ Parent(k) \in Positions /\ Parent(k) < k
                          /\ Due(Parent(k)) <= Due(k)
                          /\ Due(k) \in Nat /\ Due(Parent(k)) \in Nat
        OBVIOUS
      <3>1. k \in Nat \ {0} /\ k < n /\ k \in Positions /\ k \in Below(Len(heap))
        BY <1>0, <1>n DEF Below, Positions, Last
      <3>2. Parent(k) \in Nat /\ Parent(k) < k
        BY <3>1, Family
      <3>3. Parent(k) \in Positions
        BY <1>0, <3>1, <3>2 DEF Positions, Last
      <3> QED BY <1>0, <3>1, <3>2, <3>3, BaseTypes DEF Ordered
    <2>9. DownInv(i, n)'
      <3>1. \A k \in Below(n) : k # i /\ Parent(k) # i => Due(Parent(k))' <= Due(k)'
        <4> SUFFICES ASSUME NEW k \in Below(n), k # i, Parent(k) # i
                     PROVE  Due(Parent(k))' <= Due(k)'
          OBVIOUS
        <4>1. Parent(k) # n
          BY <2>8
        <4> QED BY <2>6, <2>8, <4>1
      <3>2. ASSUME NEW k \in Below(n), Parent(k) = i, i > 0
            PROVE  Due(Parent(i))' <= Due(k)'
        <4>1. i \in Below(n) /\ k # i
          BY <1>0, <1>1, <2>8, <3>2 DEF Below
        <4>2. Parent(i) # i /\ Parent(i) # n /\ Parent(i) \in Positions
          BY <2>8, <4>1
        <4>3. Due(Parent(i)) <= Due(i) /\ Due(i) <= Due(k)
          BY <2>8, <3>2, <4>1
        <4> QED BY <2>6, <2>8, <3>2, <4>1, <4>2, <4>3
      <3>3. work'.up /\ i = work'.from
        BY <2>1
      <3> QED BY <3>1, <3>2, <3>3 DEF DownInv, Below
    <2>10. OrderInv'
      <3>1. Last' = n
        BY <1>n, <2>3 DEF Last
      <3> QED BY <1>1, <2>1, <2>9, <3>1 DEF OrderInv
    <2> QED BY <1>0, <1>n, <2>3, <2>4, <2>5, <2>7, <2>10
  <1>2. CASE i = n
    <2>1. work' = [Idle EXCEPT !.at = "erase"] /\ UNCHANGED <<heap, ref>>
      <3>1. ~(i < Last)
        BY <1>0, <1>2, <1>n
      <3> QED BY <3>1 DEF Del, Last
    <2>2. work' \in Works /\ work'.at = "erase" /\ Erasing'
      BY <2>1 DEF Works, Idle, Erasing
    <2>3. heap' \in Seq(Nodes) /\ ref' \in [Ids -> Positions \cup {NoRef}]
      BY <1>0, <2>1, BaseTypes
    <2>4. RefConsistent' /\ Deadline' = Deadline /\ DueInv'
      BY <1>0, <2>1 DEF Base, RefConsistent, Deadline, DueInv, Positions, Last, Due, Node
    <2>5. Ordered(Last)
      BY <1>0 DEF Ordered, Below
    <2>6. OrderInv'
      BY <2>1, <2>2, <2>5 DEF OrderInv, Ordered, Last, Due, Node
    <2>7. heap'[Len(heap)] = Node(i)
      BY <1>0, <1>2, <1>n, <2>1 DEF Node
    <2>8. \A k \in Positions : heap'[k + 1] = Node(k)
      BY <2>1 DEF Node
    <2>9. Len(heap') = Len(heap)
      BY <2>1
    <2> QED BY <2>2, <2>3, <2>4, <2>6, <2>7, <2>8, <2>9
  <1>3. i < n \/ i = n
    BY <1>0, <1>n
  <1> QED BY <1>1, <1>2, <1>3

\* Base and the deadlines after del_, whoever called it.
LEMMA DelBase ==
  ASSUME Inv, Free, NEW i \in Positions, Del(i), UNCHANGED <<now, loop, wait>>,
         cb' \in Ids \cup {NoRef}
  PROVE  Base'
  <1>1. Base /\ heap' # <<>> /\ Len(heap) \in Nat
    BY DelIs, BaseTypes, EmptySeq DEF Inv, Positions, Last
  <1>2. work'.at \in {"down", "up"} => work'.i < work'.n /\ work'.n <= Len(heap')
    BY <1>1, DelIs DEF OrderInv, Last
  <1>3. /\ ref' \in [Ids -> (0 .. Len(heap') - 1) \cup {NoRef}]
        /\ work'.at \in {"idle", "down", "up", "erase"}
    BY DelIs DEF Positions, Last, Works
  <1> QED BY <1>1, <1>2, <1>3, DelIs DEF Base, TypeOK

LEMMA CancelInv ==
  ASSUME Inv, Free, NEW i \in Positions, Del(i), UNCHANGED <<now, loop, cb, wait>>
  PROVE  Inv' /\ Deadline' = Deadline
  <1>1. Base'
    BY DelBase DEF Inv, Base, TypeOK
  <1>2. FireInv'
    BY DEF Inv, FireInv, Free, Erasing
  <1> QED BY <1>1, <1>2, DelIs DEF Inv

\* tick() takes the front: nothing is earlier.
LEMMA TickPopInv ==
  ASSUME Inv, TickPop
  PROVE  Inv' /\ Deadline' = Deadline
  <1>1. /\ Free /\ Del(0) /\ UNCHANGED <<now, loop, wait>> /\ cb' = Node(0).id
        /\ Millis(Due(0) - now) <= 0 /\ loop = "tick" /\ heap # <<>>
    BY DEF TickPop, Overdue, Due
  <1>2. 0 \in Positions /\ Base /\ Len(heap) \in Nat
    BY <1>1, BaseTypes, EmptySeq DEF Inv, Positions, Last
  <1>a. Due(0) \in Nat /\ now \in Nat
    BY <1>2, BaseTypes
  <1>b. Due(0) - now < Ms
    BY <1>1, <1>a, MillisIs
  <1>3. Base'
    BY <1>1, <1>2, DelBase, BaseTypes
  <1>4. \A k \in Positions : Due(0) <= Due(k)
    BY <1>1, <1>2, BaseTypes, FrontIsEarliest DEF Inv, OrderInv, Free
  <1>5. Last + 1 = Len(heap) /\ Last' = Last /\ Positions' = Positions
    BY <1>1, <1>2, DelIs DEF Last, Positions
  <1>6. Node(Last)' = Node(0) /\ Due(Last)' = Due(0)
    BY <1>1, <1>2, <1>5, DelIs DEF Node, Due
  <1>7. \A k \in Positions : Due(0) <= Due(k)'
    BY <1>1, <1>2, <1>4, DelIs DEF Due, Node
  <1>8. Taken'
    BY <1>1, <1>2, <1>5, <1>6, <1>7, <1>b, DelIs, EmptySeq DEF Taken
  <1>9. FireInv'
    BY <1>1, <1>2, <1>8, DelIs DEF FireInv
  <1> QED BY <1>1, <1>2, <1>3, <1>9, DelIs DEF Inv

(***************************************************************************)
(* add and adjust                                                          *)
(***************************************************************************)

\* The heap after a deadline was set.
LEMMA SetIs ==
  ASSUME Base, NEW i \in Positions, NEW t \in Nat,
         heap' = [heap EXCEPT ![i + 1].expires = t]
  PROVE  /\ heap' \in Seq(Nodes) /\ Len(heap') = Len(heap)
         /\ heap'[i + 1] = [id |-> Node(i).id, expires |-> t]
         /\ \A k \in Positions : k # i => heap'[k + 1] = Node(k)
  <1> DEFINE e == [id |-> Node(i).id, expires |-> t]
  <1>1. Node(i) \in Nodes /\ e \in Nodes
    BY BaseTypes DEF Nodes
  <1>2. [Node(i) EXCEPT !.expires = t] = e
    BY <1>1 DEF Nodes
  <1>3. heap' = [heap EXCEPT ![i + 1] = e]
    BY <1>2 DEF Node
  <1> HIDE DEF e
  <1>4. heap \in Seq(Nodes) /\ \A k \in Positions : k \in Nat /\ k + 1 \in 1 .. Len(heap)
    BY BaseTypes DEF Positions, Last
  <1> DEFINE h == [heap EXCEPT ![i + 1] = e]
  <1>5. /\ h \in Seq(Nodes) /\ Len(h) = Len(heap)
        /\ \A j \in 1 .. Len(heap) : h[j] = IF j = i + 1 THEN e ELSE heap[j]
    BY <1>1, <1>4, ExceptSeq
  <1> HIDE DEF h
  <1>6. heap' = h
    BY <1>3 DEF h
  <1>7. /\ \A k \in Positions : k # i => heap'[k + 1] = Node(k)
        /\ heap'[i + 1] = e
    BY <1>4, <1>5, <1>6 DEF Node
  <1> QED BY <1>5, <1>6, <1>7 DEF e

\* A deadline is set anew: it can only have moved back, so that only the
\* pairs below it may be out of order.
LEMMA AdjustIs ==
  ASSUME Inv, Free, NEW x \in Ids, ref[x] # NoRef, NEW up \in BOOLEAN,
         heap' \in Seq(Nodes), Len(heap') = Len(heap),
         heap'[ref[x] + 1] = [id |-> x, expires |-> now + Timeout],
         \A k \in Positions : k # ref[x] => heap'[k + 1] = Node(k),
         SiftDown(ref[x], Len(heap), up, FALSE),
         UNCHANGED <<ref, now, loop, cb, wait>>
  PROVE  Inv' /\ Deadline' = [Deadline EXCEPT ![x] = now + Timeout]
  <1>0. /\ Base /\ OrderInv /\ DueInv /\ FireInv /\ work.at = "idle"
        /\ Ordered(Len(heap)) /\ now \in Nat /\ now + Timeout \in Nat
    BY BaseTypes, TimerAssumption DEF Inv, Free, OrderInv
  <1>i. PICK i \in Positions : i = ref[x] /\ Node(i).id = x
    BY <1>0, BaseTypes
  <1>n. PICK n \in Nat : n = Len(heap)
    BY <1>0, BaseTypes
  <1>1. i \in Nat /\ i < n /\ i + 1 \in 1 .. n /\ Node(i) \in Nodes
    BY <1>0, <1>i, <1>n, BaseTypes DEF Positions, Last
  <1>4. heap' \in Seq(Nodes) /\ Len(heap') = n /\ Positions' = Positions
    BY <1>n DEF Positions, Last
  <1>5. /\ heap'[i + 1] = [id |-> x, expires |-> now + Timeout]
        /\ \A k \in Positions : k # i => heap'[k + 1] = Node(k)
    BY <1>i
  <1>6. \A k \in Positions : Due(k)' = IF k = i THEN now + Timeout ELSE Due(k)
    <2>1. Due(i)' = now + Timeout
      BY <1>5 DEF Due, Node
    <2>2. \A k \in Positions : k # i => Due(k)' = Due(k)
      BY <1>5 DEF Due, Node
    <2> QED BY <2>1, <2>2
  <1>7. \A k \in Positions : heap'[k + 1].id = Node(k).id
    BY <1>5, <1>i
  <1>8. RefConsistent'
    <2>1. \A k \in Positions : ref'[heap'[k + 1].id] = k
      BY <1>0, <1>7, BaseTypes
    <2>2. \A y \in Ids : ref'[y] # NoRef =>
             ref'[y] \in Positions /\ heap'[ref'[y] + 1].id = y
      BY <1>0, <1>7, BaseTypes
    <2> QED BY <1>4, <1>n, <2>1, <2>2, BaseTypes DEF RefConsistent, Positions, Last, Node
  <1>9. work' = [at |-> "down", i |-> i, n |-> n, from |-> i, up |-> up, erase |-> FALSE]
    BY <1>i, <1>n DEF SiftDown
  <1>10. work' \in Works
    BY <1>1, <1>9 DEF Works
  <1>11. Base'
    <2>1. heap' # <<>>
      BY <1>1, <1>4, EmptySeq
    <2>2. ref' \in [Ids -> (0 .. Len(heap') - 1) \cup {NoRef}]
      BY <1>0, <1>4, <1>n, BaseTypes DEF Positions, Last
    <2>3. work'.i < work'.n /\ work'.n <= Len(heap')
      BY <1>1, <1>4, <1>9
    <2>4. work'.at = "down"
      BY <1>9
    <2> QED BY <1>0, <1>4, <1>8, <1>10, <2>1, <2>2, <2>3, <2>4 DEF Base, TypeOK
  <1>12. \A k \in Below(n) : /\ k \in Positions /\ k \in Nat \ {0} /\ k < n
                             /\ Parent(k) \in Positions /\ Parent(k) < k
                             /\ Due(Parent(k)) <= Due(k)
                             /\ Due(k) \in Nat /\ Due(Parent(k)) \in Nat
    <2> SUFFICES ASSUME NEW k \in Below(n)
                 PROVE  /\ k \in Positions /\ k \in Nat \ {0} /\ k < n
                        /\ Parent(k) \in Positions /\ Parent(k) < k
                        /\ Due(Parent(k)) <= Due(k)
                        /\ Due(k) \in Nat /\ Due(Parent(k)) \in Nat
      OBVIOUS
    <2>1. k \in Nat \ {0} /\ k < n /\ k \in Positions /\ k \in Below(Len(heap))
      BY <1>n DEF Below, Positions, Last
    <2>2. Parent(k) \in Nat /\ Parent(k) < k
      BY <2>1, Family
    <2>3. Parent(k) \in Positions
      BY <1>n, <2>1, <2>2 DEF Positions, Last
    <2> QED BY <1>0, <2>1, <2>2, <2>3, BaseTypes DEF Ordered
  <1>13. Due(i) \in Nat /\ Due(i) <= now + Timeout
    BY <1>0, BaseTypes DEF DueInv
  <1>14. DownInv(i, n)'
    <2>1. ASSUME NEW k \in Below(n), k # i, Parent(k) # i
          PROVE  Due(Parent(k))' <= Due(k)'
      BY <1>6, <1>12, <2>1
    <2>2. ASSUME i > 0
          PROVE  /\ Parent(i) \in Positions /\ Due(Parent(i))' = Due(Parent(i))
                 /\ Due(Parent(i)) <= Due(i) /\ Due(Parent(i)) \in Nat
      <3>1. i \in Below(n)
        BY <1>1, <2>2 DEF Below
      <3>2. Parent(i) \in Positions /\ Parent(i) # i
        BY <1>1, <1>12, <3>1
      <3> QED BY <1>6, <1>12, <3>1, <3>2
    <2>3. ASSUME NEW k \in Below(n), Parent(k) = i, i > 0
          PROVE  Due(Parent(i))' <= Due(k)'
      <3>1. k # i /\ k \in Positions /\ Due(k)' = Due(k) /\ Due(i) <= Due(k) /\ Due(k) \in Nat
        BY <1>1, <1>6, <1>12, <2>3
      <3> QED BY <1>13, <2>2, <2>3, <3>1
    <2>4. i > 0 => Due(Parent(i))' <= Due(i)'
      BY <1>0, <1>6, <1>13, <2>2
    <2> QED BY <2>1, <2>3, <2>4 DEF DownInv, Below
  <1>15. OrderInv'
    BY <1>1, <1>4, <1>9, <1>14 DEF OrderInv
  <1>16. DueInv'
    BY <1>0, <1>4, <1>6 DEF DueInv
  <1>17. FireInv'
    BY <1>0 DEF FireInv, Erasing
  <1>18. Deadline' = [Deadline EXCEPT ![x] = now + Timeout]
    <2>1. ASSUME NEW y \in Ids
          PROVE  Deadline'[y] = IF y = x THEN now + Timeout ELSE Deadline[y]
      <3>1. CASE y = x
        BY <1>6, <1>i, <2>1, <3>1 DEF Deadline
      <3>2. CASE y # x
        <4>1. ref[y] # NoRef => ref[y] \in Positions /\ ref[y] # i
          BY <1>0, <1>i, <2>1, <3>2, BaseTypes
        <4>2. ref[y] # NoRef => heap'[ref[y] + 1] = Node(ref[y])
          BY <4>1, <1>5
        <4>3. ref'[y] = ref[y]
          OBVIOUS
        <4> QED BY <2>1, <3>2, <4>2, <4>3 DEF Deadline, Due, Node
      <3> QED BY <3>1, <3>2
    <2> QED BY <2>1 DEF Deadline
  <1> QED BY <1>0, <1>11, <1>15, <1>16, <1>17, <1>18 DEF Inv

\* A new node at the end: it has no children, and it alone may be out of
\* order.
LEMMA AddIs ==
  ASSUME Inv, Free, NEW x \in Ids, ref[x] = NoRef,
         heap' = Append(heap, [id |-> x, expires |-> now + Timeout]),
         ref' = [ref EXCEPT ![x] = Len(heap)],
         work' = [at |-> "up", i |-> Len(heap), n |-> Len(heap) + 1,
                  from |-> 0, up |-> FALSE, erase |-> FALSE],
         UNCHANGED <<now, loop, cb, wait>>
  PROVE  Inv' /\ Deadline' = [Deadline EXCEPT ![x] = now + Timeout]
  <1>0. /\ Base /\ OrderInv /\ DueInv /\ FireInv /\ work.at = "idle"
        /\ Ordered(Len(heap)) /\ now \in Nat /\ now + Timeout \in Nat
    BY BaseTypes, TimerAssumption DEF Inv, Free, OrderInv
  <1>n. PICK n \in Nat : n = Len(heap)
    BY <1>0, BaseTypes
  <1> DEFINE e == [id |-> x, expires |-> now + Timeout]
  <1>1. e \in Nodes /\ e.id = x /\ e.expires = now + Timeout
    BY <1>0 DEF Nodes
  <1>2. heap' = Append(heap, e)
    OBVIOUS
  <1> HIDE DEF e
  <1>3. /\ heap' \in Seq(Nodes) /\ Len(heap') = n + 1 /\ heap'[n + 1] = e
        /\ \A k \in 1 .. n : heap'[k] = heap[k]
    BY <1>0, <1>1, <1>2, <1>n, BaseTypes, AppendProperties
  <1>4. /\ \A k \in Positions : k \in Nat /\ k < n /\ k # n /\ heap'[k + 1] = Node(k)
        /\ Positions' = Positions \cup {n} /\ Last' = n /\ Positions = 0 .. n - 1
    <2>1. Positions = 0 .. n - 1 /\ Last' = n /\ Positions' = 0 .. n
      BY <1>3, <1>n DEF Positions, Last
    <2>2. \A k \in Positions : k \in Nat /\ k < n /\ k # n /\ k + 1 \in 1 .. n
      BY <2>1
    <2>3. \A k \in Positions : heap'[k + 1] = Node(k)
      BY <1>3, <2>2 DEF Node
    <2>4. 0 .. n = 0 .. n - 1 \cup {n}
      OBVIOUS
    <2> QED BY <2>1, <2>2, <2>3, <2>4
  <1>5. \A k \in Positions : Due(k)' = Due(k)
    BY <1>4 DEF Due, Node
  <1>6. Due(n)' = now + Timeout
    BY <1>1, <1>3 DEF Due, Node
  <1>7. /\ ref' \in [Ids -> 0 .. n \cup {NoRef}] /\ ref'[x] = n
        /\ \A y \in Ids : y # x => ref'[y] = ref[y]
    <2>1. 0 .. n = Positions \cup {n}
      BY <1>4
    <2> QED BY <1>0, <1>n, <2>1, BaseTypes
  <1>8. n # NoRef
    BY TimerAssumption
  <1>9. RefConsistent'
    <2>1. \A k \in Positions : Node(k).id \in Ids /\ Node(k).id # x
      BY <1>0, BaseTypes
    <2>2. \A k \in Positions : ref'[heap'[k + 1].id] = k
      BY <1>0, <1>4, <1>7, <2>1, BaseTypes
    <2>3. ref'[heap'[n + 1].id] = n
      BY <1>1, <1>3, <1>7
    <2>4. \A k \in Positions' : ref'[Node(k)'.id] = k
      BY <1>4, <2>2, <2>3 DEF Node
    <2>5. ASSUME NEW y \in Ids, ref'[y] # NoRef
          PROVE  ref'[y] < Len(heap') /\ heap'[ref'[y] + 1].id = y
      <3>1. CASE y = x
        BY <1>1, <1>3, <1>7, <3>1
      <3>2. CASE y # x
        <4>1. ref[y] \in Positions /\ Node(ref[y]).id = y /\ ref'[y] = ref[y]
          BY <1>0, <1>7, <2>5, <3>2, BaseTypes
        <4> QED BY <1>3, <1>4, <4>1
      <3> QED BY <3>1, <3>2
    <2> QED BY <1>3, <2>4, <2>5 DEF RefConsistent, Positions, Last, Node
  <1>10. /\ work' \in Works /\ work'.at = "up" /\ work'.i = n /\ work'.n = n + 1
         /\ ~work'.erase
    BY <1>n DEF Works
  <1>11. Base'
    <2>1. ref' \in [Ids -> (0 .. Len(heap') - 1) \cup {NoRef}]
      BY <1>3, <1>7
    <2> QED BY <1>0, <1>3, <1>9, <1>10, <2>1 DEF Base, TypeOK
  <1>12. UpInv(n, n + 1)'
    <2>1. ASSUME NEW k \in Below(n + 1), k # n
          PROVE  Due(Parent(k))' <= Due(k)'
      <3>1. k \in Below(n) /\ k \in Nat \ {0} /\ k < n
        BY <2>1 DEF Below
      <3>2. Parent(k) \in Nat /\ Parent(k) < k
        BY <3>1, Family
      <3>3. k \in Positions /\ Parent(k) \in Positions
        BY <1>4, <3>1, <3>2
      <3> QED BY <1>0, <1>5, <1>n, <3>1, <3>3 DEF Ordered
    <2>2. ASSUME NEW k \in Below(n + 1), Parent(k) = n
          PROVE  FALSE
      <3>1. k \in Nat \ {0} /\ k <= n
        BY <2>2 DEF Below
      <3> QED BY <2>2, <3>1, Family
    <2> QED BY <2>1, <2>2 DEF UpInv, Below
  <1>13. OrderInv'
    BY <1>3, <1>10, <1>12 DEF OrderInv
  <1>14. DueInv'
    BY <1>0, <1>4, <1>5, <1>6 DEF DueInv
  <1>15. FireInv'
    BY <1>0 DEF FireInv, Erasing
  <1>16. Deadline' = [Deadline EXCEPT ![x] = now + Timeout]
    <2>1. ASSUME NEW y \in Ids
          PROVE  Deadline'[y] = IF y = x THEN now + Timeout ELSE Deadline[y]
      <3>1. CASE y = x
        BY <1>6, <1>7, <1>8, <3>1 DEF Deadline
      <3>2. CASE y # x
        <4>1. ref[y] # NoRef => ref[y] \in Positions
          BY <1>0, <2>1, BaseTypes
        <4>2. ref[y] # NoRef => heap'[ref[y] + 1] = Node(ref[y])
          BY <4>1, <1>4
        <4> QED BY <1>7, <2>1, <3>2, <4>2 DEF Deadline, Due, Node
      <3> QED BY <3>1, <3>2
    <2> QED BY <2>1 DEF Deadline
  <1> QED BY <1>0, <1>11, <1>13, <1>14, <1>15, <1>16 DEF Inv

LEMMA AddInv ==
  ASSUME Inv, NEW x \in Ids, Add(x)
  PROVE  Inv' /\ Deadline' = [Deadline EXCEPT ![x] = now + Timeout]
  <1>1. Free /\ UNCHANGED <<now, loop, cb, wait>> /\ Base
    BY DEF Add, Inv
  <1>2. CASE /\ ref[x] = NoRef
             /\ heap' = Append(heap, [id |-> x, expires |-> now + Timeout])
             /\ ref' = [ref EXCEPT ![x] = Len(heap)]
             /\ work' = [Idle EXCEPT !.at = "up", !.i = Len(heap), !.n = Len(heap) + 1]
    <2>1. work' = [at |-> "up", i |-> Len(heap), n |-> Len(heap) + 1,
                   from |-> 0, up |-> FALSE, erase |-> FALSE]
      BY <1>2 DEF Idle
    <2> QED BY <1>1, <1>2, <2>1, AddIs
  <1>3. CASE /\ ref[x] # NoRef
             /\ heap' = [heap EXCEPT ![ref[x] + 1].expires = now + Timeout]
             /\ SiftDown(ref[x], Len(heap), TRUE, FALSE)
             /\ UNCHANGED ref
    <2>1. PICK i \in Positions : i = ref[x] /\ Node(i).id = x
      BY <1>1, <1>3, BaseTypes
    <2>2. now + Timeout \in Nat
      BY <1>1, BaseTypes, TimerAssumption
    <2>3. heap' = [heap EXCEPT ![i + 1].expires = now + Timeout]
      BY <1>3, <2>1
    <2>4. /\ heap' \in Seq(Nodes) /\ Len(heap') = Len(heap)
          /\ heap'[i + 1] = [id |-> x, expires |-> now + Timeout]
          /\ \A k \in Positions : k # i => heap'[k + 1] = Node(k)
      BY <1>1, <2>1, <2>2, <2>3, SetIs
    <2> QED BY <1>1, <1>3, <2>1, <2>4, AdjustIs
  <1> QED BY <1>2, <1>3 DEF Add

LEMMA AdjustInv ==
  ASSUME Inv, NEW x \in Ids, Adjust(x)
  PROVE  Inv' /\ Deadline' = [Deadline EXCEPT ![x] = now + Timeout]
  <1>1. /\ Free /\ UNCHANGED <<ref, now, loop, cb, wait>> /\ Base /\ ref[x] # NoRef
        /\ heap' = [heap EXCEPT ![ref[x] + 1].expires = now + Timeout]
        /\ SiftDown(ref[x], Len(heap), FALSE, FALSE)
    BY DEF Adjust, Inv
  <1>2. PICK i \in Positions : i = ref[x] /\ Node(i).id = x
    BY <1>1, BaseTypes
  <1>3. now + Timeout \in Nat
    BY <1>1, BaseTypes, TimerAssumption
  <1>4. heap' = [heap EXCEPT ![i + 1].expires = now + Timeout]
    BY <1>1, <1>2
  <1>5. /\ heap' \in Seq(Nodes) /\ Len(heap') = Len(heap)
        /\ heap'[i + 1] = [id |-> x, expires |-> now + Timeout]
        /\ \A k \in Positions : k # i => heap'[k + 1] = Node(k)
    <2>1. Base
      BY <1>1
    <2>2. Node(i).id = x
      BY <1>2
    <2> QED BY <1>3, <1>4, <2>1, <2>2, SetIs
  <1> QED BY <1>1, <1>2, <1>5, AdjustIs

(***************************************************************************)
(* The end of del_, and the steps of the caller.                           *)
(***************************************************************************)

\* The last node leaves the heap and the index; if it is the one tick() has
\* taken, its callback is next.
LEMMA EraseInv ==
  ASSUME Inv, Erase
  PROVE  /\ Inv' /\ heap # <<>> /\ Node(Last).id \in Ids
         /\ Deadline' = [Deadline EXCEPT ![Node(Last).id] = NoRef]
  <1>0. /\ Base /\ OrderInv /\ DueInv /\ FireInv /\ work.at = "erase" /\ Ordered(Last)
        /\ heap # <<>> /\ UNCHANGED <<now, cb, wait>>
        /\ work' = [at |-> "idle", i |-> 0, n |-> 0, from |-> 0, up |-> FALSE, erase |-> FALSE]
        /\ loop' = IF cb # NoRef /\ loop = "tick" THEN "callback" ELSE loop
        /\ ref' = [ref EXCEPT ![heap[Len(heap)].id] = NoRef]
        /\ heap' = SubSeq(heap, 1, Len(heap) - 1)
    BY DEF Inv, Erase, OrderInv, Base, TypeOK, Idle
  <1>n. PICK n \in Nat : n = Last /\ Len(heap) = n + 1
    <2>1. Len(heap) \in Nat /\ Len(heap) # 0
      BY <1>0, BaseTypes, EmptySeq
    <2> QED BY <2>1 DEF Last
  <1>1. /\ n \in Positions /\ Positions = 0 .. n
        /\ \A k \in 0 .. n - 1 : k \in Positions /\ k \in Nat /\ k # n /\ k + 1 \in 1 .. n
    BY <1>n DEF Positions, Last
  <1>i. PICK d \in Ids : d = Node(n).id /\ d = heap[Len(heap)].id /\ d = Node(Last).id
    BY <1>0, <1>1, <1>n, BaseTypes DEF Node
  <1>2. /\ heap' \in Seq(Nodes) /\ Len(heap') = n /\ Positions' = 0 .. n - 1
        /\ \A k \in 0 .. n - 1 : heap'[k + 1] = Node(k)
    <2>1. heap' = SubSeq(heap, 1, n)
      BY <1>0, <1>n
    <2>2. \A k \in 1 .. n : heap[k] \in Nodes
      BY <1>0, <1>n, BaseTypes, ElementOfSeq
    <2>3. /\ heap' \in Seq(Nodes) /\ Len(heap') = n
          /\ \A k \in 1 .. n : heap'[k] = heap[k]
      BY <2>1, <2>2, SubSeqProperties
    <2>4. Positions' = 0 .. n - 1
      BY <2>3 DEF Positions, Last
    <2> QED BY <1>1, <2>3, <2>4 DEF Node
  <1>3. \A k \in 0 .. n - 1 : Due(k)' = Due(k)
    BY <1>2 DEF Due, Node
  <1>4. \A k \in 0 .. n - 1 : /\ ref[Node(k).id] = k /\ k # NoRef
                              /\ Node(k).id \in Ids /\ Node(k).id # d
    <2>1. ref[d] = n
      BY <1>0, <1>1, <1>i, BaseTypes
    <2>2. \A k \in 0 .. n - 1 : ref[Node(k).id] = k /\ k # NoRef /\ Node(k).id \in Ids
      BY <1>0, <1>1, BaseTypes
    <2> QED BY <1>1, <2>1, <2>2
  <1>5. /\ ref' = [ref EXCEPT ![d] = NoRef]
        /\ ref' \in [Ids -> Positions \cup {NoRef}] /\ ref'[d] = NoRef
        /\ \A y \in Ids : y # d => ref'[y] = ref[y]
    BY <1>0, <1>i, BaseTypes
  <1>6. ASSUME NEW y \in Ids, ref'[y] # NoRef
        PROVE  ref'[y] = ref[y] /\ ref[y] \in 0 .. n - 1 /\ heap'[ref[y] + 1] = Node(ref[y])
    <2>1. y # d /\ ref'[y] = ref[y]
      BY <1>5, <1>6
    <2>2. ref[y] \in Positions /\ Node(ref[y]).id = y
      BY <1>0, <1>6, <2>1, BaseTypes
    <2>3. ref[y] # n
      BY <1>i, <2>1, <2>2
    <2>4. ref[y] \in 0 .. n - 1
      BY <1>1, <2>2, <2>3
    <2> QED BY <1>2, <2>1, <2>4
  <1>7. RefConsistent'
    <2>1. \A k \in 0 .. n - 1 : ref'[heap'[k + 1].id] = k
      BY <1>2, <1>4, <1>5
    <2>2. ASSUME NEW y \in Ids, ref'[y] # NoRef
          PROVE  ref'[y] < Len(heap') /\ heap'[ref'[y] + 1].id = y
      <3>1. Node(ref[y]).id = y
        BY <1>0, <1>6, <2>2, BaseTypes
      <3>2. ref[y] \in 0 .. n - 1 /\ ref'[y] = ref[y]
        BY <1>6, <2>2
      <3>3. ref[y] < n
        BY <3>2
      <3> QED BY <1>2, <1>6, <2>2, <3>1, <3>2, <3>3
    <2>3. 0 .. Len(heap') - 1 = 0 .. n - 1
      BY <1>2
    <2> QED BY <2>1, <2>2, <2>3 DEF RefConsistent, Node
  <1>8. work' \in Works /\ work'.at = "idle" /\ ~Erasing'
    <2>1. work' \in Works
      BY <1>0 DEF Works
    <2>2. work'.at = "idle"
      BY <1>0
    <2> QED BY <2>1, <2>2 DEF Erasing
  <1>9. Base'
    <2>1. ref' \in [Ids -> (0 .. Len(heap') - 1) \cup {NoRef}]
      <3>1. ref' \in [Ids -> Positions' \cup {NoRef}]
        BY <1>2, <1>5, <1>6
      <3> QED BY <3>1 DEF Positions, Last
    <2>2. loop' \in {"run", "tick", "callback", "answer"}
      BY <1>0 DEF Base, TypeOK
    <2> QED BY <1>0, <1>2, <1>7, <1>8, <2>1, <2>2 DEF Base, TypeOK
  <1>10. OrderInv'
    <2>1. ASSUME NEW k \in Below(n)
          PROVE  Due(Parent(k))' <= Due(k)'
      <3>1. k \in Nat \ {0} /\ k \in 0 .. n - 1
        BY <2>1 DEF Below
      <3>2. Parent(k) \in 0 .. n - 1
        BY <3>1, Family
      <3> QED BY <1>0, <1>3, <1>n, <2>1, <3>1, <3>2 DEF Ordered
    <2>2. Ordered(Len(heap))'
      BY <1>2, <2>1 DEF Ordered, Below
    <2> QED BY <1>8, <2>2 DEF OrderInv
  <1>11. DueInv'
    BY <1>0, <1>1, <1>2, <1>3 DEF DueInv
  <1>12. FireInv'
    BY <1>0 DEF FireInv
  <1>13. Deadline' = [Deadline EXCEPT ![d] = NoRef]
    <2>1. ASSUME NEW y \in Ids
          PROVE  Deadline'[y] = IF y = d THEN NoRef ELSE Deadline[y]
      <3>1. CASE y = d
        BY <1>5, <2>1, <3>1 DEF Deadline
      <3>2. CASE y # d
        BY <1>5, <1>6, <2>1, <3>2 DEF Deadline, Due, Node
      <3> QED BY <3>1, <3>2
    <2> QED BY <2>1 DEF Deadline
  <1> QED BY <1>0, <1>9, <1>10, <1>11, <1>12, <1>13, <1>i DEF Inv

LEMMA ClearInv ==
  ASSUME Inv, Clear
  PROVE  Inv' /\ Deadline' = [x \in Ids |-> NoRef]
  <1>1. /\ ref' = [x \in Ids |-> NoRef] /\ heap' = <<>> /\ work.at = "idle"
        /\ UNCHANGED <<now, work, loop, cb, wait>>
    BY DEF Clear, Free
  <1>2. heap' \in Seq(Nodes) /\ Len(heap') = 0 /\ Positions' = {}
    BY <1>1, EmptySeq DEF Positions, Last
  <1>3. Base'
    BY <1>1, <1>2 DEF Inv, Base, TypeOK, RefConsistent
  <1>4. OrderInv'
    BY <1>1, <1>2 DEF Inv, OrderInv, Ordered, Below
  <1>5. DueInv' /\ FireInv'
    BY <1>1, <1>2 DEF Inv, DueInv, FireInv, Erasing
  <1> QED BY <1>1, <1>3, <1>4, <1>5 DEF Inv, Deadline

\* A step that leaves the heap and the method at work alone.
LEMMA CallerInv ==
  ASSUME Inv, UNCHANGED <<heap, ref, work>>, now' \in 0 .. MaxTime, now <= now',
         loop' \in {"run", "tick", "callback", "answer"}, cb' \in Ids \cup {NoRef},
         wait' \in -1 .. Timeout + MaxTime, FireInv'
  PROVE  Inv' /\ Deadline' = Deadline
  <1>1. Base'
    BY DEF Inv, Base, TypeOK, RefConsistent, Node
  <1>2. OrderInv'
    BY DEF Inv, OrderInv, Ordered, DownInv, UpInv, Due, Node, Last
  <1>3. DueInv'
    <2>1. \A k \in Positions : Due(k) \in Nat /\ Due(k)' = Due(k)
      BY BaseTypes DEF Inv, Due, Node
    <2>2. Positions' = Positions /\ now \in Nat /\ now' \in Nat /\ Timeout \in Nat
      BY BaseTypes, TimerAssumption DEF Inv, Positions, Last
    <2> QED BY <2>1, <2>2 DEF Inv, DueInv
  <1>4. Deadline' = Deadline
    BY DEF Deadline, Due, Node
  <1> QED BY <1>1, <1>2, <1>3, <1>4 DEF Inv

LEMMA EnterInv ==
  ASSUME Inv, Enter
  PROVE  Inv' /\ Deadline' = Deadline
  <1>1. /\ UNCHANGED <<heap, ref, now, work, cb, wait>> /\ loop = "run" /\ loop' = "tick"
        /\ now \in 0 .. MaxTime /\ cb \in Ids \cup {NoRef} /\ wait \in -1 .. Timeout + MaxTime
    BY DEF Enter, Inv, Base, TypeOK
  <1>2. FireInv'
    BY <1>1 DEF Inv, FireInv
  <1> QED BY <1>1, <1>2, CallerInv

LEMMA CallbackInv ==
  ASSUME Inv, Callback
  PROVE  Inv' /\ Deadline' = Deadline
  <1>1. /\ UNCHANGED <<heap, ref, now, work, wait>> /\ loop' = "tick" /\ cb' = NoRef
        /\ now \in 0 .. MaxTime /\ wait \in -1 .. Timeout + MaxTime
    BY DEF Callback, Inv, Base, TypeOK
  <1>2. FireInv'
    BY <1>1 DEF FireInv
  <1> QED BY <1>1, <1>2, CallerInv

LEMMA TickStopInv ==
  ASSUME Inv, TickStop
  PROVE  Inv' /\ Deadline' = Deadline
  <1>1. /\ UNCHANGED <<heap, ref, now, work, cb, wait>> /\ loop = "tick" /\ loop' = "answer"
        /\ now \in 0 .. MaxTime /\ cb \in Ids \cup {NoRef} /\ wait \in -1 .. Timeout + MaxTime
        /\ work.at = "idle"
    BY DEF TickStop, Free, Inv, Base, TypeOK
  <1>2. FireInv'
    BY <1>1 DEF Inv, FireInv, Erasing
  <1> QED BY <1>1, <1>2, CallerInv

\* No answer is longer than the timeout, whatever the heap.
LEMMA AnswerInv ==
  ASSUME Inv, Answer
  PROVE  Inv' /\ Deadline' = Deadline
  <1>1. /\ UNCHANGED <<heap, ref, now, work, cb>> /\ loop = "answer" /\ loop' = "run"
        /\ now \in 0 .. MaxTime /\ cb \in Ids \cup {NoRef} /\ MaxTime \in Nat /\ Timeout \in Nat
        /\ wait' = IF heap = <<>> THEN -1
                   ELSE IF Millis(Due(0) - now) < 0 THEN 0 ELSE Millis(Due(0) - now)
    BY TimerAssumption DEF Answer, Due, Inv, Base, TypeOK
  <1>2. FireInv'
    BY <1>1 DEF Inv, FireInv
  <1>3. heap # <<>> => Due(0) \in Nat /\ Due(0) <= now + Timeout
    <2> SUFFICES ASSUME heap # <<>> PROVE Due(0) \in Nat /\ Due(0) <= now + Timeout
      OBVIOUS
    <2>1. Len(heap) \in Nat /\ Len(heap) # 0
      BY BaseTypes, EmptySeq DEF Inv
    <2>2. 0 \in Positions
      BY <2>1 DEF Positions, Last
    <2> QED BY <2>2, BaseTypes DEF Inv, DueInv
  <1>4. CASE heap = <<>>
    <2>1. wait' \in -1 .. Timeout + MaxTime
      BY <1>1, <1>4
    <2> QED BY <1>1, <1>2, <2>1, CallerInv
  <1>5. CASE heap # <<>>
    <2>1. PICK d \in Int : d = Due(0) - now /\ d <= Timeout
      BY <1>1, <1>3, <1>5
    <2>2. wait' = IF d < 0 THEN 0 ELSE d \div Ms
      BY <1>1, <1>5, <2>1, MillisIs
    <2>3. d >= 0 => d \div Ms \in 0 .. d
      BY MillisIs
    <2>4. wait' \in -1 .. Timeout + MaxTime
      BY <1>1, <2>1, <2>2, <2>3
    <2> QED BY <1>1, <1>2, <2>4, CallerInv
  <1> QED BY <1>4, <1>5

LEMMA PassInv ==
  ASSUME Inv, Pass
  PROVE  Inv' /\ Deadline' = Deadline
  <1>1. /\ UNCHANGED <<heap, ref, work, loop, cb, wait>> /\ now' = now + 1 /\ now < MaxTime
        /\ now \in 0 .. MaxTime /\ cb \in Ids \cup {NoRef} /\ wait \in -1 .. Timeout + MaxTime
        /\ loop \in {"run", "tick", "callback", "answer"} /\ MaxTime \in Nat
    BY TimerAssumption DEF Pass, Inv, Base, TypeOK
  <1>2. now \in Nat /\ now' \in 0 .. MaxTime /\ now <= now'
    BY <1>1
  <1>3. Taken => Taken'
    <2> SUFFICES ASSUME Taken PROVE Taken'
      OBVIOUS
    <2>1. Due(Last) \in Nat
      <3>1. Len(heap) \in Nat /\ Len(heap) # 0
        BY BaseTypes, EmptySeq DEF Inv, Taken
      <3>2. Last \in Positions
        BY <3>1 DEF Positions, Last
      <3> QED BY <3>2, BaseTypes DEF Inv
    <2>2. Due(Last)' = Due(Last) /\ Last' = Last /\ Positions' = Positions
      BY <1>1 DEF Due, Node, Last, Positions
    <2>3. Due(Last)' - now' < Ms
      BY <1>1, <1>2, <2>1, <2>2, TimerAssumption DEF Taken
    <2> QED BY <1>1, <2>2, <2>3 DEF Taken, Due, Node
  <1>4. FireInv'
    BY <1>1, <1>3 DEF Inv, FireInv, Erasing
  <1> QED BY <1>1, <1>2, <1>4, CallerInv

(***************************************************************************)
(* All steps.                                                              *)
(***************************************************************************)

\* cancel, doWork and pop change no deadline until their Erase.
LEMMA DelInv ==
  ASSUME Inv, Pop \/ \E x \in Ids : Cancel(x) \/ DoWork(x)
  PROVE  Inv' /\ Deadline' = Deadline /\ UNCHANGED <<now, loop, cb, wait>>
  <1>1. CASE Pop
    <2>1. Free /\ heap # <<>> /\ Del(0) /\ UNCHANGED <<now, loop, cb, wait>>
      BY <1>1 DEF Pop
    <2>2. Len(heap) \in Nat /\ Len(heap) # 0
      BY <2>1, BaseTypes, EmptySeq DEF Inv
    <2>3. 0 \in Positions
      BY <2>2 DEF Positions, Last
    <2> QED BY <2>1, <2>3, CancelInv
  <1>2. ASSUME NEW x \in Ids, Cancel(x)
        PROVE  Inv' /\ Deadline' = Deadline /\ UNCHANGED <<now, loop, cb, wait>>
    <2>1. Free /\ ref[x] # NoRef /\ Del(ref[x]) /\ UNCHANGED <<now, loop, cb, wait>>
      BY <1>2 DEF Cancel
    <2>2. ref[x] \in Positions
      BY <2>1, BaseTypes DEF Inv
    <2> QED BY <2>1, <2>2, CancelInv
  <1> QED BY <1>1, <1>2 DEF DoWork

LEMMA Start == Init => Inv
  <1> SUFFICES ASSUME Init PROVE Inv
    OBVIOUS
  <1>1. /\ heap = <<>> /\ ref = [x \in Ids |-> NoRef] /\ now = 0 /\ loop = "run"
        /\ work = [at |-> "idle", i |-> 0, n |-> 0, from |-> 0, up |-> FALSE, erase |-> FALSE]
        /\ cb = NoRef /\ wait = -1
    BY DEF Init, Idle
  <1>2. heap \in Seq(Nodes) /\ Len(heap) = 0 /\ Positions = {}
    BY <1>1, EmptySeq DEF Positions, Last
  <1>3. work \in Works
    BY <1>1 DEF Works
  <1>4. Base
    BY <1>1, <1>2, <1>3, TimerAssumption DEF Base, TypeOK, RefConsistent
  <1>5. OrderInv
    BY <1>1, <1>2 DEF OrderInv, Ordered, Below
  <1> QED BY <1>1, <1>2, <1>4, <1>5 DEF Inv, DueInv, FireInv

LEMMA Step == Inv /\ [Next]_vars => Inv'
  <1> SUFFICES ASSUME Inv, [Next]_vars PROVE Inv'
    OBVIOUS
  <1>1. ASSUME NEW x \in Ids, Add(x) PROVE Inv'
    BY <1>1, AddInv
  <1>2. ASSUME NEW x \in Ids, Adjust(x) PROVE Inv'
    BY <1>2, AdjustInv
  <1>3. CASE Pop \/ \E x \in Ids : Cancel(x) \/ DoWork(x)
    BY <1>3, DelInv
  <1>4. CASE Clear
    BY <1>4, ClearInv
  <1>5. CASE Enter \/ Callback \/ TickStop \/ Answer \/ Pass
    BY <1>5, EnterInv, CallbackInv, TickStopInv, AnswerInv, PassInv
  <1>6. CASE TickPop \/ DownStep \/ UpStep \/ Erase
    BY <1>6, TickPopInv, DownStepInv, UpStepInv, EraseInv
  <1>7. CASE UNCHANGED vars
    <2>1. UNCHANGED <<heap, ref, now, work, loop, cb, wait>>
      BY <1>7 DEF vars
    <2>2. FireInv'
      BY <2>1 DEF Inv, FireInv, Erasing, Taken, Last, Positions, Due, Node
    <2>3. now \in Nat /\ now <= now'
      BY <2>1, BaseTypes DEF Inv
    <2> QED BY <2>1, <2>2, <2>3, CallerInv DEF Inv, Base, TypeOK
  <1> QED BY <1>1, <1>2, <1>3, <1>4, <1>5, <1>6, <1>7 DEF Next

LEMMA Invariance == Spec => []Inv
  <1> QED BY Start, Step, PTL DEF Spec

\* Every variable keeps its type for any number of timers: the positions in
\* ref_ and those the sift loops work on never leave the heap.
THEOREM Types == Spec => []TypeOK
  <1>1. Inv => TypeOK
    BY DEF Inv, Base
  <1> QED BY <1>1, Invariance, PTL

\* Between any two iterations of a sift loop, heap_ and ref_ agree: adjust,
\* cancel and doWork reach the node of their descriptor, and no other.
THEOREM IndexAgrees == Spec => []RefConsistent
  <1>1. Inv => RefConsistent
    BY DEF Inv, Base
  <1> QED BY <1>1, Invariance, PTL

\* Whenever mtx_ is free the heap is in order, whatever add, adjust, cancel,
\* doWork and tick() have sifted it.
THEOREM HeapInOrder == Spec => []MinHeap
  <1>1. Inv => MinHeap
    <2> SUFFICES ASSUME Inv, Free, NEW i \in 1 .. Len(heap) - 1
                 PROVE  ~Earlier(i, Parent(i))
      BY DEF MinHeap
    <2>1. Ordered(Len(heap)) /\ Base
      BY DEF Inv, OrderInv, Free
    <2>2. i \in Nat \ {0} /\ i \in Positions /\ i \in Below(Len(heap))
      BY DEF Positions, Last, Below
    <2>3. Parent(i) \in Positions
      BY <2>1, <2>2, Family, BaseTypes DEF Positions, Last
    <2>4. Due(Parent(i)) <= Due(i) /\ Due(i) \in Nat /\ Due(Parent(i)) \in Nat
      BY <2>1, <2>2, <2>3, BaseTypes DEF Ordered
    <2> QED BY <2>4 DEF Earlier, Due
  <1> QED BY <1>1, Invariance, PTL

(***************************************************************************)
(* The map of deadlines.                                                   *)
(***************************************************************************)

\* What the map sees of a callback.
Running == IF loop = "callback" THEN cb ELSE NoRef

\* The descriptors the map has a deadline for, and the front of the heap.
LEMMA PendingIs ==
  ASSUME Inv
  PROVE  /\ \A x \in Ids : Deadline[x] # NoRef <=> ref[x] # NoRef
         /\ \A x \in Ids : Deadline[x] # NoRef =>
              \E k \in Positions : Node(k).id = x /\ Deadline[x] = Due(k)
         /\ \A k \in Positions : /\ Node(k).id \in Ids /\ Deadline[Node(k).id] = Due(k)
                                 /\ Due(k) \in Nat /\ Due(k) # NoRef
  <1>1. Base /\ \A k \in Positions : Due(k) \in Nat /\ Due(k) # NoRef
    BY BaseTypes, TimerAssumption DEF Inv
  <1>2. ASSUME NEW x \in Ids
        PROVE  /\ Deadline[x] # NoRef <=> ref[x] # NoRef
               /\ Deadline[x] # NoRef =>
                    \E k \in Positions : Node(k).id = x /\ Deadline[x] = Due(k)
    <2>1. Deadline[x] = IF ref[x] = NoRef THEN NoRef ELSE Due(ref[x])
      BY DEF Deadline
    <2>2. ref[x] # NoRef => ref[x] \in Positions /\ Node(ref[x]).id = x
      BY <1>1, BaseTypes
    <2> QED BY <1>1, <2>1, <2>2
  <1>3. ASSUME NEW k \in Positions
        PROVE  Node(k).id \in Ids /\ Deadline[Node(k).id] = Due(k)
    <2>1. Node(k).id \in Ids /\ ref[Node(k).id] = k /\ k # NoRef
      BY <1>1, BaseTypes
    <2> QED BY <2>1 DEF Deadline
  <1> QED BY <1>1, <1>2, <1>3

\* Every step of the heap is a step of the map or changes nothing of it.
LEMMA RefinementStep ==
  Inv /\ [Next]_vars => [Abstract!TMNext]_(Abstract!tmVars)
  <1> SUFFICES ASSUME Inv, [Next]_vars
               PROVE  Abstract!TMNext \/ UNCHANGED <<Deadline, now, loop, Running, wait>>
    BY DEF Abstract!tmVars, Deadline, Due, Running
  <1>d. /\ Deadline = [x \in Ids |-> IF ref[x] = NoRef THEN NoRef ELSE Node(ref[x]).expires]
        /\ Deadline' = [x \in Ids |-> IF ref[x] = NoRef THEN NoRef ELSE Node(ref[x]).expires]'
    BY DEF Deadline, Due
  <1>1. ASSUME NEW x \in Ids, Add(x) \/ Adjust(x)
        PROVE  Abstract!Set(x)
    <2>1. /\ Deadline' = [Deadline EXCEPT ![x] = now + Timeout]
          /\ UNCHANGED <<now, loop, cb, wait>>
      BY <1>1, AddInv, AdjustInv DEF Add, Adjust
    <2> QED BY <1>d, <2>1 DEF Abstract!Set
  <1>2. CASE Pop \/ \E x \in Ids : Cancel(x) \/ DoWork(x)
    BY <1>2, DelInv DEF Running
  <1>3. CASE Clear
    <2>1. Deadline' = [x \in Ids |-> NoRef] /\ UNCHANGED <<now, loop, cb, wait>>
      BY <1>3, ClearInv DEF Clear
    <2>2. Abstract!UnsetAll
      BY <1>d, <2>1 DEF Abstract!UnsetAll
    <2> QED BY <2>2 DEF Abstract!TMNext
  <1>4. CASE Enter
    <2>1. Deadline' = Deadline /\ loop = "run" /\ loop' = "tick" /\ UNCHANGED <<now, cb, wait>>
      BY <1>4, EnterInv DEF Enter
    <2>2. Abstract!Enter
      BY <1>d, <2>1 DEF Abstract!Enter
    <2> QED BY <2>2 DEF Abstract!TMNext
  <1>5. CASE Callback
    <2>1. /\ Deadline' = Deadline /\ loop = "callback" /\ loop' = "tick"
          /\ UNCHANGED <<now, wait>>
      BY <1>5, CallbackInv DEF Callback
    <2>2. Abstract!Called
      BY <1>d, <2>1 DEF Abstract!Called
    <2> QED BY <2>2 DEF Abstract!TMNext
  <1>6. CASE TickPop
    <2>1. Deadline' = Deadline /\ loop = "tick" /\ UNCHANGED <<now, loop, wait>>
      BY <1>6, TickPopInv DEF TickPop
    <2> QED BY <2>1 DEF Running
  <1>7. CASE TickStop
    <2>1. /\ Deadline' = Deadline /\ loop = "tick" /\ loop' = "answer"
          /\ UNCHANGED <<now, cb, wait>> /\ Ordered(Len(heap)) /\ Base
      BY <1>7, TickStopInv DEF TickStop, Free, Inv, OrderInv
    <2>2. heap # <<>> => ~(Millis(Due(0) - now) <= 0)
      BY <1>7 DEF TickStop, Overdue, Due
    <2>3. \A k \in Positions : Due(k) - now >= Ms
      <3> SUFFICES ASSUME NEW k \in Positions PROVE Due(k) - now >= Ms
        OBVIOUS
      <3>1. Len(heap) \in Nat /\ Len(heap) # 0 /\ now \in Nat
        BY <2>1, BaseTypes DEF Positions, Last
      <3>2. heap # <<>> /\ 0 \in Positions
        BY <3>1, EmptySeq DEF Positions, Last
      <3>3. Due(0) <= Due(k)
        BY <2>1, FrontIsEarliest, BaseTypes
      <3>4. Due(0) \in Nat /\ Due(k) \in Nat
        BY <2>1, <3>2, BaseTypes
      <3>5. Due(0) - now \in Int /\ ~(Due(0) - now < Ms)
        BY <2>2, <3>1, <3>2, <3>4, MillisIs
      <3> QED BY <3>1, <3>3, <3>4, <3>5, TimerAssumption
    <2>4. \A x \in Ids : Deadline[x] # NoRef => Deadline[x] - now >= Ms
      BY <2>3, PendingIs
    <2>5. Abstract!Fired
      BY <1>d, <2>1, <2>4 DEF Abstract!Fired, Abstract!Pending
    <2> QED BY <2>5 DEF Abstract!TMNext
  <1>8. CASE Answer
    <2>1. /\ Deadline' = Deadline /\ loop = "answer" /\ loop' = "run"
          /\ UNCHANGED <<now, cb>> /\ Ordered(Len(heap)) /\ Base
          /\ wait' = IF heap = <<>> THEN -1
                     ELSE IF Millis(Due(0) - now) < 0 THEN 0 ELSE Millis(Due(0) - now)
      BY <1>8, AnswerInv DEF Answer, Due, Free, Inv, OrderInv
    <2>2. CASE heap = <<>>
      <3>1. Positions = {}
        BY <2>2, EmptySeq DEF Positions, Last
      <3>2. \A x \in Ids : Deadline[x] = NoRef
        BY <3>1, PendingIs
      <3>3. Abstract!Answer
        BY <1>d, <2>1, <2>2, <3>2 DEF Abstract!Answer, Abstract!Pending
      <3> QED BY <3>3 DEF Abstract!TMNext
    <2>3. CASE heap # <<>>
      <3>1. Len(heap) \in Nat /\ Len(heap) # 0
        BY <2>1, <2>3, BaseTypes, EmptySeq
      <3>2. 0 \in Positions
        BY <3>1 DEF Positions, Last
      <3>3. PICK f \in Ids : f = Node(0).id /\ Deadline[f] = Due(0) /\ Deadline[f] # NoRef
        BY <3>2, PendingIs
      <3>4. \A k \in Positions : Due(0) <= Due(k)
        BY <2>1, FrontIsEarliest, BaseTypes
      <3>5. \A y \in Ids : Deadline[y] # NoRef => Deadline[f] <= Deadline[y]
        BY <3>3, <3>4, PendingIs
      <3>a. PICK e \in Int : e = Due(0) - now /\ (e < 0 <=> Due(0) < now)
        BY <2>1, <3>2, BaseTypes
      <3>6. wait' = IF Deadline[f] < now THEN 0 ELSE (Deadline[f] - now) \div Ms
        BY <2>1, <2>3, <3>3, <3>a, MillisIs
      <3>7. Abstract!Answer
        BY <1>d, <2>1, <3>3, <3>5, <3>6 DEF Abstract!Answer, Abstract!Pending
      <3> QED BY <3>7 DEF Abstract!TMNext
    <2> QED BY <2>2, <2>3
  <1>9. CASE DownStep \/ UpStep
    <2>1. Deadline' = Deadline /\ UNCHANGED <<now, loop, cb, wait>>
      BY <1>9, DownStepInv, UpStepInv DEF DownStep, UpStep
    <2> QED BY <2>1 DEF Running
  <1>10. CASE Erase
    <2>1. PICK d \in Ids : /\ d = Node(Last).id /\ Deadline' = [Deadline EXCEPT ![d] = NoRef]
                           /\ heap # <<>> /\ UNCHANGED <<now, cb, wait>>
                           /\ loop' = IF cb # NoRef /\ loop = "tick" THEN "callback" ELSE loop
      BY <1>10, EraseInv DEF Erase
    <2>2. CASE cb # NoRef /\ loop = "tick"
      <3>1. /\ cb = d /\ Due(Last) - now < Ms /\ \A k \in Positions : Due(Last) <= Due(k)
        BY <2>1, <2>2 DEF Inv, FireInv, Taken
      <3>2. Len(heap) \in Nat /\ Len(heap) # 0
        BY <2>1, BaseTypes, EmptySeq DEF Inv
      <3>3. Last \in Positions
        BY <3>2 DEF Positions, Last
      <3>4. Deadline[d] = Due(Last) /\ Deadline[d] # NoRef
        BY <2>1, <3>3, PendingIs
      <3>5. \A y \in Ids : Deadline[y] # NoRef => Deadline[d] <= Deadline[y]
        BY <3>1, <3>4, PendingIs
      <3>6. Abstract!Fire(d)
        BY <1>d, <2>1, <2>2, <3>1, <3>4, <3>5 DEF Abstract!Fire, Abstract!Pending
      <3> QED BY <3>6 DEF Abstract!TMNext
    <2>3. CASE ~(cb # NoRef /\ loop = "tick")
      <3>1. Abstract!Unset(d)
        BY <1>d, <2>1, <2>3 DEF Abstract!Unset
      <3> QED BY <3>1 DEF Abstract!TMNext
    <2> QED BY <2>2, <2>3
  <1>11. CASE Pass
    <2>1. Deadline' = Deadline /\ now' = now + 1 /\ UNCHANGED <<loop, cb, wait>>
      BY <1>11, PassInv DEF Pass
    <2>2. Abstract!Pass
      BY <1>d, <2>1 DEF Abstract!Pass
    <2> QED BY <2>2 DEF Abstract!TMNext
  <1>12. CASE UNCHANGED vars
    BY <1>12 DEF vars, Deadline, Due, Node, Running
  <1>13. (\E x \in Ids : Add(x) \/ Adjust(x)) => Abstract!TMNext
    BY <1>1 DEF Abstract!TMNext
  <1> QED BY <1>2, <1>3, <1>4, <1>5, <1>6, <1>7, <1>8, <1>9, <1>10, <1>11, <1>12, <1>13
          DEF Next

\* The heap, sifted under a lock that tick() gives up around every callback,
\* is the map of deadlines Server::run counts on: the earliest timer fires,
\* less than a millisecond early at most, none that is overdue is missed, and
\* the answer is the whole milliseconds to the next.
THEOREM Refinement == Spec => ImplementsTimerMap
  <1>1. Init => Abstract!TMInit
    BY DEF Init, Abstract!TMInit
  <1> QED
    BY <1>1, RefinementStep, Invariance, PTL DEF Spec, ImplementsTimerMap, Abstract!TMSpec
=============================================================================
