----------------------------- MODULE HeapTimer -----------------------------
(***************************************************************************)
(* HeapTimer of heap_timer.cpp: a binary min-heap of deadlines with an     *)
(* index from descriptor to heap position.  Every method runs under mtx_;  *)
(* an iteration of its sift loop is an action, and other methods wait      *)
(* until the last one is done.  Positions count from 0, as in the code.    *)
(* The clock does not step back: adjust counts on it (it only sifts down). *)
(***************************************************************************)
EXTENDS Integers, Sequences

CONSTANTS
  Ids,      \* the descriptors that can have a timer
  Ms,       \* the units of the clock, which is finer, in a millisecond
  Timeout,  \* timeout_ms_ in these units: how far away a new deadline is
  MaxTime,  \* the last reading of the clock (bound)
  NoRef     \* no heap position, no deadline

ASSUME TimerAssumption ==
  /\ Ms \in Nat \ {0} /\ Timeout \in Nat \ {0} /\ MaxTime \in Nat
  /\ NoRef \notin Int \cup Ids

VARIABLES
  heap,  \* heap_: its nodes [id, expires] in array order
  ref,   \* ref_: descriptor -> heap position, NoRef when absent
  now,   \* Clock::now()
  work,  \* the method that holds mtx_ and where it is
  loop,  \* the main thread: outside GetNextTick, in tick(), in a callback, after it
  cb,    \* whose callback tick() took from the heap
  wait   \* what GetNextTick returned last, in milliseconds

vars == <<heap, ref, now, work, loop, cb, wait>>

Nodes == [id : Ids, expires : Nat]

\* at: the loop that runs next; i, n: its variables; from: where siftdown_
\* started; up: siftup_ follows a siftdown_ that moved nothing; erase: del_.
Idle == [at |-> "idle", i |-> 0, n |-> 0, from |-> 0, up |-> FALSE, erase |-> FALSE]

Init ==
  /\ heap = <<>> /\ ref = [x \in Ids |-> NoRef]
  /\ now = 0 /\ work = Idle /\ loop = "run" /\ cb = NoRef /\ wait = -1

Node(i)   == heap[i + 1]
Parent(i) == (i - 1) \div 2
Earlier(i, j) == Node(i).expires < Node(j).expires

Free == work.at = "idle"

\* Mutant: the index of one of the two nodes is forgotten.
SwappedRef_Half(i, j) == [ref EXCEPT ![Node(j).id] = i]

\* SwapNode_: the two nodes change places, and ref_ follows them.
SwappedRef(i, j) == [ref EXCEPT ![Node(j).id] = i, ![Node(i).id] = j]
Swap(i, j) ==
  /\ heap' = [heap EXCEPT ![i + 1] = Node(j), ![j + 1] = Node(i)]
  /\ ref' = SwappedRef(i, j)

\* A method starts siftdown_(i, n).
SiftDown(i, n, up, erase) ==
  work' = [at |-> "down", i |-> i, n |-> n, from |-> i, up |-> up, erase |-> erase]

(***************************************************************************)
(* The methods.                                                            *)
(***************************************************************************)

\* add: called by the accept loop, never inside GetNextTick.
Add(x) ==
  /\ Free /\ loop = "run"
  /\ \/ /\ ref[x] = NoRef
        /\ heap' = Append(heap, [id |-> x, expires |-> now + Timeout])
        /\ ref' = [ref EXCEPT ![x] = Len(heap)]
        /\ work' = [Idle EXCEPT !.at = "up", !.i = Len(heap), !.n = Len(heap) + 1]
     \/ /\ ref[x] # NoRef
        /\ heap' = [heap EXCEPT ![ref[x] + 1].expires = now + Timeout]
        /\ SiftDown(ref[x], Len(heap), TRUE, FALSE)
        /\ UNCHANGED ref
  /\ UNCHANGED <<now, loop, cb, wait>>

\* adjust: the new deadline is taken to be later than the old one.
Adjust(x) ==
  /\ Free /\ ref[x] # NoRef
  /\ heap' = [heap EXCEPT ![ref[x] + 1].expires = now + Timeout]
  /\ SiftDown(ref[x], Len(heap), FALSE, FALSE)
  /\ UNCHANGED <<ref, now, loop, cb, wait>>

\* Mutant: del_ leaves the moved node below a later one.
DelSiftsUp_Never == FALSE

\* del_ tries siftup_ when siftdown_ moved nothing.
DelSiftsUp == TRUE

\* del_: the node changes places with the last one, which is sifted.
Del(i) ==
  LET n == Len(heap) - 1 IN
  \/ i < n /\ Swap(i, n) /\ SiftDown(i, n, DelSiftsUp, TRUE)
  \/ i = n /\ work' = [Idle EXCEPT !.at = "erase"] /\ UNCHANGED <<heap, ref>>

Cancel(x) ==
  /\ Free /\ ref[x] # NoRef
  /\ Del(ref[x])
  /\ UNCHANGED <<now, loop, cb, wait>>

\* doWork: del_, then the callback with mtx_ released, which no timer notices
\* unless it calls a method itself.
DoWork(x) == Cancel(x)

\* pop asserts that there is a front.
Pop ==
  /\ Free /\ heap # <<>>
  /\ Del(0)
  /\ UNCHANGED <<now, loop, cb, wait>>

Clear ==
  /\ Free
  /\ ref' = [x \in Ids |-> NoRef] /\ heap' = <<>>
  /\ UNCHANGED <<now, work, loop, cb, wait>>

\* GetNextTick, called by the main thread once a turn: tick() first ...
Enter ==
  /\ Free /\ loop = "run"
  /\ loop' = "tick"
  /\ UNCHANGED <<heap, ref, now, work, cb, wait>>

\* duration_cast<MS>: whole milliseconds, towards zero.
Millis(d) == IF d < 0 THEN -((-d) \div Ms) ELSE d \div Ms

\* Mutant: > 0 becomes > 1, and a timer fires a whole millisecond early.
Overdue_Early(i) == Millis(Node(i).expires - now) <= 1

\* The last millisecond before a deadline counts as none.
Overdue(i) == Millis(Node(i).expires - now) <= 0

\* ... which pops the front while it is overdue ...
TickPop ==
  /\ Free /\ loop = "tick"
  /\ heap # <<>> /\ Overdue(0)
  /\ Del(0) /\ cb' = Node(0).id
  /\ UNCHANGED <<now, loop, wait>>

\* ... and runs its callback once mtx_ is free ...
Callback ==
  /\ loop = "callback"
  /\ loop' = "tick" /\ cb' = NoRef
  /\ UNCHANGED <<heap, ref, now, work, wait>>

TickStop ==
  /\ Free /\ loop = "tick"
  /\ ~(heap # <<>> /\ Overdue(0))
  /\ loop' = "answer"
  /\ UNCHANGED <<heap, ref, now, work, cb, wait>>

\* ... then the time to the front under the lock taken again.
Answer ==
  /\ Free /\ loop = "answer"
  /\ wait' = IF heap = <<>> THEN -1
             ELSE IF Millis(Node(0).expires - now) < 0 THEN 0
             ELSE Millis(Node(0).expires - now)
  /\ loop' = "run"
  /\ UNCHANGED <<heap, ref, now, work, cb>>

(***************************************************************************)
(* The sift loops and the end of del_.                                     *)
(***************************************************************************)

\* Where the method goes when its sifting is over.
Finish == work' = IF work.erase THEN [Idle EXCEPT !.at = "erase"] ELSE Idle

\* Mutant: the left child, whichever is earlier.
Child_Left(i, n) == 2 * i + 1

\* The earlier child of i.
Child(i, n) ==
  LET j == 2 * i + 1 IN IF j + 1 < n /\ Earlier(j + 1, j) THEN j + 1 ELSE j

DownStep ==
  /\ work.at = "down"
  /\ LET i == work.i
         j == Child(i, work.n)
     IN IF 2 * i + 1 < work.n /\ ~Earlier(i, j)
          THEN Swap(i, j) /\ work' = [work EXCEPT !.i = j]
          ELSE /\ UNCHANGED <<heap, ref>>
               /\ IF work.up /\ i = work.from
                    THEN work' = [work EXCEPT !.at = "up"]
                    ELSE Finish
  /\ UNCHANGED <<now, loop, cb, wait>>

UpStep ==
  /\ work.at = "up"
  /\ LET i == work.i
         j == Parent(i)
     IN IF i > 0 /\ ~Earlier(j, i)
          THEN Swap(i, j) /\ work' = [work EXCEPT !.i = j]
          ELSE Finish /\ UNCHANGED <<heap, ref>>
  /\ UNCHANGED <<now, loop, cb, wait>>

\* ref_.erase, heap_.pop_back; del_ returns, to tick() if that called it.
Erase ==
  /\ work.at = "erase"
  /\ ref' = [ref EXCEPT ![heap[Len(heap)].id] = NoRef]
  /\ heap' = SubSeq(heap, 1, Len(heap) - 1)
  /\ work' = Idle
  /\ loop' = IF cb # NoRef /\ loop = "tick" THEN "callback" ELSE loop
  /\ UNCHANGED <<now, cb, wait>>

Pass ==
  /\ now < MaxTime /\ now' = now + 1
  /\ UNCHANGED <<heap, ref, work, loop, cb, wait>>

Next ==
  \/ \E x \in Ids : Add(x) \/ Adjust(x) \/ Cancel(x) \/ DoWork(x)
  \/ Pop \/ Clear
  \/ Enter \/ TickPop \/ Callback \/ TickStop \/ Answer
  \/ DownStep \/ UpStep \/ Erase \/ Pass

Spec == Init /\ [][Next]_vars

(***************************************************************************)
(* Properties.                                                             *)
(***************************************************************************)

\* Every variable keeps its type; positions stay inside the heap.
TypeOK ==
  /\ heap \in Seq(Nodes)
  /\ ref \in [Ids -> (0 .. Len(heap) - 1) \cup {NoRef}]
  /\ now \in 0 .. MaxTime
  /\ work.at \in {"idle", "down", "up", "erase"}
  /\ work.at \in {"down", "up"} => work.i < work.n /\ work.n <= Len(heap)
  /\ work.at = "erase" => heap # <<>>
  /\ loop \in {"run", "tick", "callback", "answer"}
  /\ cb \in Ids \cup {NoRef}
  /\ wait \in -1 .. Timeout + MaxTime

\* heap_ and ref_ never disagree: a descriptor is in the heap once, where
\* ref_ says, or not at all; adjust and cancel always reach its own node.
RefConsistent ==
  /\ \A i \in 0 .. Len(heap) - 1 : ref[Node(i).id] = i
  /\ \A x \in Ids : ref[x] # NoRef => ref[x] < Len(heap) /\ Node(ref[x]).id = x

\* A min-heap (readme.md:19): whenever mtx_ is free no node is later than a
\* child of it.
MinHeap ==
  Free => \A i \in 1 .. Len(heap) - 1 : ~Earlier(i, Parent(i))

\* The heap implements the deadline map: tick() fires the earliest timer, less
\* than a millisecond early at most, misses none that is overdue, and
\* GetNextTick answers the whole milliseconds to the next.
Abstract == INSTANCE TimerMap WITH
  NoTime   <- NoRef,
  fired    <- IF loop = "callback" THEN cb ELSE NoRef,
  deadline <- [x \in Ids |-> IF ref[x] = NoRef THEN NoRef ELSE Node(ref[x]).expires]

ImplementsTimerMap == Abstract!TMSpec
=============================================================================
